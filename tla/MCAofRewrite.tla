---------------------------- MODULE MCAofRewrite ----------------------------
(* AofRewrite on small instances, for TLC. *)
EXTENDS AofRewrite
=============================================================================
