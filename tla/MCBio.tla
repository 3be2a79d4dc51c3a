------------------------------- MODULE MCBio --------------------------------
(* Bio with the two job types of the server, for TLC. *)
EXTENDS Bio
CONSTANTS CLOSE_FILE, AOF_FSYNC
=============================================================================
