----------------------------- MODULE MCAofLoad -----------------------------
(* AofLoad on small instances, for TLC. *)
EXTENDS AofLoad
=============================================================================
