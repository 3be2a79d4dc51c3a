----------------------------- MODULE MCAofFlush -----------------------------
(* AofFlush on small instances, for TLC. *)
EXTENDS AofFlush
CONSTANTS c1, c2
=============================================================================
