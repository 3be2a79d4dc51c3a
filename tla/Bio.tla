-------------------------------- MODULE Bio ---------------------------------
(***************************************************************************)
(* The background I/O service of the server (bio.c): one worker thread per *)
(* job type, a mutex, a condition variable and a list of jobs each.  The   *)
(* event loop (the "main" thread) creates jobs and asks how many of a type *)
(* are still pending; a worker runs the first job of its list with the     *)
(* mutex released and only afterwards, with the mutex held again, removes  *)
(* it and decrements the counter.                                          *)
(*                                                                         *)
(* A job is a number: the position at which the main thread created it     *)
(* among all jobs.  What a job does (close, fsync) is left to the modules  *)
(* that use the service.                                                   *)
(***************************************************************************)
EXTENDS Naturals, Sequences, FiniteSets

CONSTANTS
  Type,     \* the job types: REDIS_BIO_CLOSE_FILE, REDIS_BIO_AOF_FSYNC
  MaxJobs   \* bound on the jobs the main thread creates

ASSUME TypeAssumption    == Type # {}
ASSUME MaxJobsAssumption == MaxJobs \in Nat

Main == "main"
Free == "free"
ASSUME ThreadsAssumption == Main \notin Type /\ Free \notin Type

VARIABLES
  bio_jobs,     \* [Type -> Seq(job)]: the list of jobs of each type
  bio_pending,  \* [Type -> Nat]: the counter bioPendingJobsOfType reads
  bio_mutex,    \* [Type -> the thread that holds the mutex, or Free]
  pc,           \* [Type -> where the worker of that type is]
  main,         \* the call the main thread is in: operation and its type, and
                \* whether the last answer for that type was 0 and still stands
  cancelled,    \* the worker threads bioKillThreads has cancelled
  created,      \* history: the number of jobs created so far
  asked,        \* history: [Type -> the jobs created so far]
  done          \* history: [Type -> jobs run so far, in order]

vars == <<bio_jobs, bio_pending, bio_mutex, pc, main, cancelled, created, asked, done>>

\* Worker program points.  "waiting" is inside pthread_cond_wait, not
\* signalled; "woken" has left the wait set and needs the mutex back.
WorkerPC == {"start", "test", "waiting", "woken", "run", "relock"}

\* Operations of the main thread.  "killing" is bioKillThreads, the last
\* thing a crashing server does with the service.
MainOp == {"idle", "add", "count", "signal", "read", "unlock", "killing"}

Init ==
  /\ bio_jobs    = [t \in Type |-> <<>>]
  /\ bio_pending = [t \in Type |-> 0]
  /\ bio_mutex   = [t \in Type |-> Free]
  /\ pc          = [t \in Type |-> "start"]
  /\ main        = [op |-> "idle", type |-> CHOOSE t \in Type : TRUE, zero |-> FALSE]
  /\ cancelled   = {}
  /\ created     = 0
  /\ asked       = [t \in Type |-> <<>>]
  /\ done        = [t \in Type |-> <<>>]

Lock(t, thread)   == bio_mutex[t] = Free   /\ bio_mutex' = [bio_mutex EXCEPT ![t] = thread]
Unlock(t, thread) == bio_mutex[t] = thread /\ bio_mutex' = [bio_mutex EXCEPT ![t] = Free]

-----------------------------------------------------------------------------
(***************************************************************************)
(* bioCreateBackgroundJob: lock, append, count, signal, unlock.            *)
(***************************************************************************)
CreateLock(t) ==
  /\ main.op = "idle"
  /\ created < MaxJobs
  /\ Lock(t, Main)
  /\ main' = [main EXCEPT !.op = "add", !.type = t, !.zero = FALSE]
  /\ UNCHANGED <<bio_jobs, bio_pending, pc, cancelled, created, asked, done>>

\* Fault: the job is put at the head of the list.
CreateAdd_AtHead ==
  /\ main.op = "add"
  /\ created'  = created + 1
  /\ bio_jobs' = [bio_jobs EXCEPT ![main.type] = <<created + 1>> \o @]
  /\ asked'    = [asked EXCEPT ![main.type] = Append(@, created + 1)]
  /\ main'     = [main EXCEPT !.op = "count"]
  /\ UNCHANGED <<bio_pending, bio_mutex, pc, cancelled, done>>

CreateAdd ==
  /\ main.op = "add"
  /\ created'  = created + 1
  /\ bio_jobs' = [bio_jobs EXCEPT ![main.type] = Append(@, created + 1)]
  /\ asked'    = [asked EXCEPT ![main.type] = Append(@, created + 1)]
  /\ main'     = [main EXCEPT !.op = "count"]
  /\ UNCHANGED <<bio_pending, bio_mutex, pc, cancelled, done>>

CreateCount ==
  /\ main.op = "count"
  /\ bio_pending' = [bio_pending EXCEPT ![main.type] = @ + 1]
  /\ main'        = [main EXCEPT !.op = "signal"]
  /\ UNCHANGED <<bio_jobs, bio_mutex, pc, cancelled, created, asked, done>>

\* Fault: the worker is not signalled.
CreateSignal_Silent ==
  /\ main.op = "signal"
  /\ main' = [main EXCEPT !.op = "unlock"]
  /\ UNCHANGED <<bio_jobs, bio_pending, bio_mutex, pc, cancelled, created, asked, done>>

CreateSignal ==
  /\ main.op = "signal"
  /\ pc'   = [pc EXCEPT ![main.type] = IF @ = "waiting" THEN "woken" ELSE @]
  /\ main' = [main EXCEPT !.op = "unlock"]
  /\ UNCHANGED <<bio_jobs, bio_pending, bio_mutex, cancelled, created, asked, done>>

(***************************************************************************)
(* bioPendingJobsOfType: lock, read the counter, unlock and return it.     *)
(***************************************************************************)
PendingLock(t) ==
  /\ main.op = "idle"
  /\ Lock(t, Main)
  /\ main' = [main EXCEPT !.op = "read", !.type = t, !.zero = FALSE]
  /\ UNCHANGED <<bio_jobs, bio_pending, pc, cancelled, created, asked, done>>

PendingRead ==
  /\ main.op = "read"
  /\ main' = [main EXCEPT !.op = "unlock", !.zero = bio_pending[main.type] = 0]
  /\ UNCHANGED <<bio_jobs, bio_pending, bio_mutex, pc, cancelled, created, asked, done>>

\* The end of either call.
MainUnlock ==
  /\ main.op = "unlock"
  /\ Unlock(main.type, Main)
  /\ main' = [main EXCEPT !.op = "idle"]
  /\ UNCHANGED <<bio_jobs, bio_pending, pc, cancelled, created, asked, done>>

-----------------------------------------------------------------------------
(***************************************************************************)
(* bioProcessBackgroundJobs, the loop of the worker of type t.             *)
(***************************************************************************)
WorkerStart(t) ==
  /\ pc[t] = "start"
  /\ Lock(t, t)
  /\ pc' = [pc EXCEPT ![t] = "test"]
  /\ UNCHANGED <<bio_jobs, bio_pending, main, cancelled, created, asked, done>>

\* The list is empty: pthread_cond_wait releases the mutex and sleeps.
WorkerWait(t) ==
  /\ pc[t] = "test"
  /\ bio_jobs[t] = <<>>
  /\ Unlock(t, t)
  /\ pc' = [pc EXCEPT ![t] = "waiting"]
  /\ UNCHANGED <<bio_jobs, bio_pending, main, cancelled, created, asked, done>>

\* POSIX allows pthread_cond_wait to return without a signal.
SpuriousWakeup(t) ==
  /\ t \notin cancelled
  /\ pc[t] = "waiting"
  /\ pc' = [pc EXCEPT ![t] = "woken"]
  /\ UNCHANGED <<bio_jobs, bio_pending, bio_mutex, main, cancelled, created, asked, done>>

WorkerWake(t) ==
  /\ pc[t] = "woken"
  /\ Lock(t, t)
  /\ pc' = [pc EXCEPT ![t] = "test"]
  /\ UNCHANGED <<bio_jobs, bio_pending, main, cancelled, created, asked, done>>

\* Fault: the job is counted out when it is taken, not when it is done.
WorkerTake_CountsOut(t) ==
  /\ pc[t] = "test"
  /\ bio_jobs[t] # <<>>
  /\ Unlock(t, t)
  /\ bio_pending' = [bio_pending EXCEPT ![t] = @ - 1]
  /\ pc' = [pc EXCEPT ![t] = "run"]
  /\ UNCHANGED <<bio_jobs, main, cancelled, created, asked, done>>

\* The first node is looked up, not removed, before the mutex is released.
WorkerTake(t) ==
  /\ pc[t] = "test"
  /\ bio_jobs[t] # <<>>
  /\ Unlock(t, t)
  /\ pc' = [pc EXCEPT ![t] = "run"]
  /\ UNCHANGED <<bio_jobs, bio_pending, main, cancelled, created, asked, done>>

WorkerRun(t) ==
  /\ pc[t] = "run"
  /\ done' = [done EXCEPT ![t] = Append(@, Head(bio_jobs[t]))]
  /\ pc'   = [pc EXCEPT ![t] = "relock"]
  /\ UNCHANGED <<bio_jobs, bio_pending, bio_mutex, main, cancelled, created, asked>>

WorkerDelete(t) ==
  /\ pc[t] = "relock"
  /\ Lock(t, t)
  /\ bio_jobs'    = [bio_jobs EXCEPT ![t] = Tail(@)]
  /\ bio_pending' = [bio_pending EXCEPT ![t] = @ - 1]
  /\ pc'          = [pc EXCEPT ![t] = "test"]
  /\ UNCHANGED <<main, cancelled, created, asked, done>>

Worker(t) ==
  /\ t \notin cancelled
  /\ \/ WorkerStart(t) \/ WorkerWait(t) \/ WorkerWake(t)
     \/ WorkerTake(t)  \/ WorkerRun(t)  \/ WorkerDelete(t)

-----------------------------------------------------------------------------
(***************************************************************************)
(* A fatal signal in the main thread: the handler calls bioKillThreads,    *)
(* which cancels and joins the workers one by one.  Cancellation is        *)
(* asynchronous: a worker may be killed at any point, with its mutex held. *)
(***************************************************************************)
Crash ==
  /\ main.op # "killing"
  /\ main' = [main EXCEPT !.op = "killing"]
  /\ UNCHANGED <<bio_jobs, bio_pending, bio_mutex, pc, cancelled, created, asked, done>>

Kill(t) ==
  /\ main.op = "killing"
  /\ cancelled' = cancelled \cup {t}
  /\ UNCHANGED <<bio_jobs, bio_pending, bio_mutex, pc, main, created, asked, done>>

-----------------------------------------------------------------------------
MainNext ==
  \/ \E t \in Type : CreateLock(t) \/ PendingLock(t)
  \/ CreateAdd \/ CreateCount \/ CreateSignal \/ PendingRead \/ MainUnlock

Next ==
  \/ MainNext
  \/ \E t \in Type : Worker(t) \/ Kill(t)
  \/ \E t \in Type : SpuriousWakeup(t)
  \/ Crash

(***************************************************************************)
(* Threads are scheduled by the kernel, and a call of the main thread that *)
(* has begun goes on.  A mutex may be contended by the main thread for     *)
(* ever (WorkerDelete is disabled while it holds the mutex): pthread gives *)
(* strong fairness only if the main thread leaves the service alone long   *)
(* enough, which the event loop does (it sleeps in aeApiPoll).             *)
(***************************************************************************)
Fairness ==
  /\ WF_vars(CreateAdd \/ CreateCount \/ CreateSignal \/ PendingRead \/ MainUnlock)
  /\ \A t \in Type : SF_vars(Worker(t))

Spec == Init /\ [][Next]_vars /\ Fairness

-----------------------------------------------------------------------------
Jobs == 1..MaxJobs

\* Types of the queues, the counters and what each thread holds (bio.c:71-98).
TypeOK ==
  /\ bio_jobs    \in [Type -> Seq(Jobs)]
  /\ bio_pending \in [Type -> Nat]
  /\ bio_mutex   \in [Type -> Type \cup {Main, Free}]
  /\ pc          \in [Type -> WorkerPC]
  /\ main        \in [op : MainOp, type : Type, zero : BOOLEAN]
  /\ cancelled   \subseteq Type
  /\ created     \in 0..MaxJobs
  /\ asked       \in [Type -> Seq(Jobs)]
  /\ done        \in [Type -> Seq(Jobs)]

(***************************************************************************)
(* The counter is the length of the list whenever the mutex is free: what  *)
(* INFO reports and what flushAppendOnlyFile decides on.                   *)
(***************************************************************************)
PendingIsLength ==
  \A t \in Type : bio_mutex[t] = Free => bio_pending[t] = Len(bio_jobs[t])

(***************************************************************************)
(* bioPendingJobsOfType exists so that the main thread can "wait that      *)
(* there are no longer jobs of this type to be executed before performing  *)
(* the sensible operation" (bio.c:70): when it has read 0, every job of    *)
(* that type the main thread ever created has been run to the end, and     *)
(* stays so until it creates another.                                      *)
(***************************************************************************)
ZeroMeansAllRun == main.zero => done[main.type] = asked[main.type]

(***************************************************************************)
(* Every job is run at last, unless the process crashes first.             *)
(***************************************************************************)
EveryJobRuns ==
  \A t \in Type : bio_jobs[t] # <<>> ~> (done[t] = asked[t] \/ main.op = "killing")

\* The refinement mapping to JobQueue: a job leaves "waiting" when it is run,
\* not when the worker later removes its node from the list.
Waiting(t) == IF pc[t] = "relock" THEN Tail(bio_jobs[t]) ELSE bio_jobs[t]

Queue(t) == INSTANCE JobQueue WITH Job <- Jobs, waiting <- Waiting(t), finished <- done[t]

(***************************************************************************)
(* The inductive invariant behind the properties above.                    *)
(***************************************************************************)
MainHolds == {"add", "count", "signal", "read", "unlock"}

\* The program counters say who holds a mutex, and conversely; a crashing
\* main thread keeps what it held.
MutexInv ==
  /\ main.op \in MainHolds => bio_mutex[main.type] = Main
  /\ \A t \in Type :
       /\ bio_mutex[t] \in {Main, Free, t}
       /\ bio_mutex[t] = t <=> pc[t] = "test"
       /\ bio_mutex[t] = Main => main.op = "killing" \/ (main.op \in MainHolds /\ main.type = t)

\* The counter follows the list outside of CreateAdd; CreateCount.
CountInv ==
  /\ main.op = "add" => created < MaxJobs /\ ~main.zero
  /\ main.op = "count" => Len(bio_jobs[main.type]) = bio_pending[main.type] + 1
  /\ \A t \in Type :
       bio_mutex[t] # Main \/ (main.op \in MainHolds /\ main.op # "count")
         => bio_pending[t] = Len(bio_jobs[t])

\* Nothing is lost, run twice or run out of order.
OrderInv ==
  \A t \in Type :
    /\ pc[t] \in {"run", "relock"} => bio_jobs[t] # <<>>
    /\ asked[t] = done[t] \o Waiting(t)

IInv == TypeOK /\ MutexInv /\ CountInv /\ OrderInv /\ ZeroMeansAllRun

(***************************************************************************)
(* The service of each type implements a job queue: every job of a type is *)
(* run exactly once, one at a time, in the order it was created, although  *)
(* the worker runs it with the mutex released and the node still in the    *)
(* list.                                                                   *)
(***************************************************************************)
ImplementsJobQueue ==
  /\ \A t \in Type : Queue(t)!Init
  /\ [][\A t \in Type : Queue(t)!Next \/ UNCHANGED <<Waiting(t), done[t]>>]_vars
=============================================================================
