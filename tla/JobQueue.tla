------------------------------ MODULE JobQueue ------------------------------
(***************************************************************************)
(* What bio.c promises to the event loop: jobs of one type are run one at  *)
(* a time, in the order they were submitted, each of them exactly once.    *)
(* There is no thread, mutex or condition variable here: Bio implements    *)
(* this module.                                                            *)
(***************************************************************************)
EXTENDS Naturals, Sequences

CONSTANT Job

VARIABLES
  waiting,   \* submitted jobs that have not been run, oldest first
  finished   \* jobs that have been run, in the order they were run

vars == <<waiting, finished>>

Init == waiting = <<>> /\ finished = <<>>

Submit(j) ==
  /\ waiting' = Append(waiting, j)
  /\ UNCHANGED finished

Run ==
  /\ waiting # <<>>
  /\ waiting'  = Tail(waiting)
  /\ finished' = Append(finished, Head(waiting))

Next == Run \/ \E j \in Job : Submit(j)

Spec == Init /\ [][Next]_vars /\ WF_vars(Run)
=============================================================================
