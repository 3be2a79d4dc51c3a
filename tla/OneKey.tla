------------------------------- MODULE OneKey -------------------------------
(***************************************************************************)
(* What a dictionary promises to whoever uses one of its keys: the key is  *)
(* present or not, each call about it gets the answer that follows from    *)
(* the calls before, and no call about another key is noticed.  How the    *)
(* table is laid out and resized is not visible.                           *)
(***************************************************************************)
VARIABLES present, answer

kvars == <<present, answer>>

Init == ~present /\ answer = "none"

Add == present' = TRUE /\ answer' = IF present THEN "exists" ELSE "added"

Delete == present' = FALSE /\ answer' = IF present THEN "deleted" ELSE "absent"

Find == UNCHANGED present /\ answer' = IF present THEN "found" ELSE "absent"

\* the key is the one a random pick has returned
Picked == present /\ UNCHANGED present /\ answer' = "found"

Empty == present' = FALSE /\ answer' = "none"

\* anything else: it is about other keys
Quiet == UNCHANGED present /\ answer' = "none"

Next == Add \/ Delete \/ Find \/ Picked \/ Empty \/ Quiet

Spec == Init /\ [][Next]_kvars
=============================================================================
