----------------------------- MODULE BioProofs ------------------------------
(***************************************************************************)
(* Proofs about Bio, for every set of job types and every number of jobs.  *)
(***************************************************************************)
EXTENDS Bio, SequenceTheorems, TLAPS

-----------------------------------------------------------------------------
(* Two facts about sequences. *)

\* Moving the head of the right part to the end of the left one changes
\* nothing in their concatenation.
LEMMA MoveHead ==
  ASSUME NEW S, NEW s \in Seq(S), NEW u \in Seq(S), u # <<>>
  PROVE  Append(s, Head(u)) \o Tail(u) = s \o u
<1>1. /\ Head(u) \in S
      /\ Tail(u) \in Seq(S)
      /\ Len(Tail(u)) = Len(u) - 1
      /\ \A i \in 1 .. Len(Tail(u)) : Tail(u)[i] = u[i+1]
  BY HeadTailProperties
<1>2. <<Head(u)>> \in Seq(S)
  BY <1>1
<1>3. <<Head(u)>> \o Tail(u) = u
  <2>1. <<Head(u)>> \o Tail(u) \in Seq(S)
    BY <1>1, <1>2, ConcatProperties
  <2>2. Len(<<Head(u)>> \o Tail(u)) = Len(u)
    BY <1>1, <1>2, ConcatProperties, EmptySeq
  <2>3. \A i \in 1 .. Len(u) : (<<Head(u)>> \o Tail(u))[i] = u[i]
    BY <1>1, <1>2, ConcatProperties
  <2>4. QED
    BY <2>1, <2>2, <2>3, SeqEqual
<1>4. Append(s, Head(u)) \o Tail(u) = (s \o <<Head(u)>>) \o Tail(u)
  BY <1>1, AppendIsConcat
<1>5. QED
  BY <1>1, <1>2, <1>3, <1>4, ConcatAssociative

\* Appending to a non-empty sequence appends to its tail.
LEMMA TailAppend ==
  ASSUME NEW S, NEW s \in Seq(S), s # <<>>, NEW e \in S
  PROVE  Tail(Append(s, e)) = Append(Tail(s), e)
<1>1. /\ Append(s, e) \in Seq(S)
      /\ Append(s, e) # <<>>
      /\ Len(Append(s, e)) = Len(s) + 1
      /\ \A i \in 1 .. Len(s) : Append(s, e)[i] = s[i]
      /\ Append(s, e)[Len(s) + 1] = e
      /\ \A i \in 1 .. Len(s) - 1 : Append(s, e)[i+1] = s[i+1]
  BY AppendProperties
<1>2. /\ Tail(s) \in Seq(S)
      /\ Len(Tail(s)) = Len(s) - 1
      /\ \A i \in 1 .. Len(Tail(s)) : Tail(s)[i] = s[i+1]
      /\ Len(s) \in Nat \ {0}
  BY HeadTailProperties, EmptySeq
<1>3. /\ Tail(Append(s, e)) \in Seq(S)
      /\ Len(Tail(Append(s, e))) = Len(s)
      /\ \A i \in 1 .. Len(s) : Tail(Append(s, e))[i] = Append(s, e)[i+1]
  BY <1>1, <1>2, HeadTailProperties
<1>4. /\ Append(Tail(s), e) \in Seq(S)
      /\ Len(Append(Tail(s), e)) = Len(s)
      /\ \A i \in 1 .. Len(s) - 1 : Append(Tail(s), e)[i] = Tail(s)[i]
      /\ Append(Tail(s), e)[Len(s)] = e
  BY <1>2, AppendProperties
<1>5. ASSUME NEW i \in 1 .. Len(s)
      PROVE  Tail(Append(s, e))[i] = Append(Tail(s), e)[i]
  <2>1. Tail(Append(s, e))[i] = Append(s, e)[i+1]
    BY <1>3
  <2>2. CASE i = Len(s)
    BY <1>1, <1>4, <2>1, <2>2
  <2>3. CASE i # Len(s)
    <3>1. i \in 1 .. Len(s) - 1 /\ i + 1 \in 1 .. Len(s)
      <4>1. PICK n \in Nat \ {0} : n = Len(s)
        BY <1>2
      <4>2. i \in 1 .. n /\ i # n
        BY <2>3, <4>1
      <4>3. i \in 1 .. n - 1 /\ i + 1 \in 1 .. n
        BY <4>2
      <4>4. QED
        BY <4>1, <4>3
    <3>2. Append(s, e)[i+1] = s[i+1]
      BY <1>1, <3>1
    <3>3. Append(Tail(s), e)[i] = Tail(s)[i]
      BY <1>4, <3>1
    <3>4. Tail(s)[i] = s[i+1]
      BY <1>2, <3>1
    <3>5. QED
      BY <2>1, <3>2, <3>3, <3>4
  <2>4. QED
    BY <2>2, <2>3
<1>6. QED
  BY <1>3, <1>4, <1>5, SeqEqual

-----------------------------------------------------------------------------
(* The parts of the inductive invariant. *)

LEMMA InitIInv == Init => IInv
<1> SUFFICES ASSUME Init PROVE IInv
  OBVIOUS
<1> USE TypeAssumption, MaxJobsAssumption, ThreadsAssumption
<1>1. TypeOK
  BY DEF Init, TypeOK, WorkerPC, MainOp, Jobs, Free
<1>2. MutexInv
  BY DEF Init, MutexInv, MainHolds, Free, Main
<1>3. CountInv
  BY DEF Init, CountInv, MainHolds
<1>4. OrderInv
  <2>1. <<>> \o <<>> = <<>>
    BY ConcatEmptySeq
  <2>2. QED
    BY <2>1 DEF Init, OrderInv, Waiting
<1>5. ZeroMeansAllRun
  BY DEF Init, ZeroMeansAllRun
<1>6. QED
  BY <1>1, <1>2, <1>3, <1>4, <1>5 DEF IInv

LEMMA TypeStep == IInv /\ [Next]_vars => TypeOK'
<1> SUFFICES ASSUME IInv, [Next]_vars PROVE TypeOK'
  OBVIOUS
<1> USE DEF TypeOK, IInv, Lock, Unlock, WorkerPC, MainOp
<1>1. ASSUME NEW t \in Type, CreateLock(t) PROVE TypeOK'
  BY <1>1 DEF CreateLock
<1>2. ASSUME NEW t \in Type, PendingLock(t) PROVE TypeOK'
  BY <1>2 DEF PendingLock
<1>3. CASE CreateAdd
  <2>1. created + 1 \in Jobs
    BY <1>3, MaxJobsAssumption DEF CreateAdd, CountInv, Jobs
  <2>2. /\ Append(bio_jobs[main.type], created + 1) \in Seq(Jobs)
        /\ Append(asked[main.type], created + 1) \in Seq(Jobs)
    BY <2>1, AppendProperties
  <2>3. created' \in 0..MaxJobs
    BY <1>3, <2>1, MaxJobsAssumption DEF CreateAdd, Jobs
  <2>4. /\ bio_jobs' \in [Type -> Seq(Jobs)]
        /\ asked' \in [Type -> Seq(Jobs)]
    BY <1>3, <2>2 DEF CreateAdd
  <2>5. main' \in [op : MainOp, type : Type, zero : BOOLEAN]
    BY <1>3 DEF CreateAdd
  <2>6. QED
    BY <1>3, <2>3, <2>4, <2>5 DEF CreateAdd
<1>4. CASE CreateCount
  <2>1. bio_pending' \in [Type -> Nat]
    BY <1>4 DEF CreateCount
  <2>2. main' \in [op : MainOp, type : Type, zero : BOOLEAN]
    BY <1>4 DEF CreateCount
  <2>3. QED
    BY <1>4, <2>1, <2>2 DEF CreateCount
<1>5. CASE CreateSignal
  BY <1>5 DEF CreateSignal
<1>6. CASE PendingRead
  BY <1>6 DEF PendingRead
<1>7. CASE MainUnlock
  BY <1>7 DEF MainUnlock
<1>8. ASSUME NEW t \in Type, WorkerStart(t) PROVE TypeOK'
  BY <1>8 DEF WorkerStart
<1>9. ASSUME NEW t \in Type, WorkerWait(t) PROVE TypeOK'
  BY <1>9 DEF WorkerWait
<1>10. ASSUME NEW t \in Type, WorkerWake(t) PROVE TypeOK'
  BY <1>10 DEF WorkerWake
<1>11. ASSUME NEW t \in Type, WorkerTake(t) PROVE TypeOK'
  BY <1>11 DEF WorkerTake
<1>12. ASSUME NEW t \in Type, WorkerRun(t) PROVE TypeOK'
  <2>1. Head(bio_jobs[t]) \in Jobs
    BY <1>12, HeadTailProperties DEF WorkerRun, OrderInv
  <2>2. Append(done[t], Head(bio_jobs[t])) \in Seq(Jobs)
    BY <2>1, AppendProperties
  <2>3. QED
    BY <1>12, <2>2 DEF WorkerRun
<1>13. ASSUME NEW t \in Type, WorkerDelete(t) PROVE TypeOK'
  <2>1. bio_jobs[t] # <<>>
    BY <1>13 DEF WorkerDelete, OrderInv
  <2>2. /\ Tail(bio_jobs[t]) \in Seq(Jobs)
        /\ Len(bio_jobs[t]) \in Nat \ {0}
    BY <2>1, HeadTailProperties, EmptySeq
  <2>3. bio_pending[t] - 1 \in Nat
    BY <1>13, <2>2, ThreadsAssumption DEF WorkerDelete, CountInv, Free, Main
  <2>4. QED
    BY <1>13, <2>2, <2>3 DEF WorkerDelete
<1>14. ASSUME NEW t \in Type, SpuriousWakeup(t) PROVE TypeOK'
  BY <1>14 DEF SpuriousWakeup
<1>15. CASE Crash
  BY <1>15 DEF Crash
<1>16. ASSUME NEW t \in Type, Kill(t) PROVE TypeOK'
  BY <1>16 DEF Kill
<1>17. CASE UNCHANGED vars
  BY <1>17 DEF vars
<1>18. QED
  BY <1>1, <1>2, <1>3, <1>4, <1>5, <1>6, <1>7, <1>8, <1>9, <1>10, <1>11, <1>12,
     <1>13, <1>14, <1>15, <1>16, <1>17 DEF Next, MainNext, Worker

LEMMA MutexStep == IInv /\ [Next]_vars => MutexInv'
<1> SUFFICES ASSUME IInv, [Next]_vars PROVE MutexInv'
  OBVIOUS
<1> USE ThreadsAssumption DEF TypeOK, IInv, Lock, Unlock, MutexInv, MainHolds, Main, Free
<1>1. ASSUME NEW t \in Type, CreateLock(t) PROVE MutexInv'
  BY <1>1 DEF CreateLock
<1>2. ASSUME NEW t \in Type, PendingLock(t) PROVE MutexInv'
  BY <1>2 DEF PendingLock
<1>3. CASE CreateAdd
  BY <1>3 DEF CreateAdd
<1>4. CASE CreateCount
  BY <1>4 DEF CreateCount
<1>5. CASE CreateSignal
  BY <1>5 DEF CreateSignal
<1>6. CASE PendingRead
  BY <1>6 DEF PendingRead
<1>7. CASE MainUnlock
  BY <1>7 DEF MainUnlock
<1>8. ASSUME NEW t \in Type, WorkerStart(t) PROVE MutexInv'
  BY <1>8 DEF WorkerStart
<1>9. ASSUME NEW t \in Type, WorkerWait(t) PROVE MutexInv'
  BY <1>9 DEF WorkerWait
<1>10. ASSUME NEW t \in Type, WorkerWake(t) PROVE MutexInv'
  BY <1>10 DEF WorkerWake
<1>11. ASSUME NEW t \in Type, WorkerTake(t) PROVE MutexInv'
  BY <1>11 DEF WorkerTake
<1>12. ASSUME NEW t \in Type, WorkerRun(t) PROVE MutexInv'
  BY <1>12 DEF WorkerRun
<1>13. ASSUME NEW t \in Type, WorkerDelete(t) PROVE MutexInv'
  BY <1>13 DEF WorkerDelete
<1>14. ASSUME NEW t \in Type, SpuriousWakeup(t) PROVE MutexInv'
  BY <1>14 DEF SpuriousWakeup
<1>15. CASE Crash
  BY <1>15 DEF Crash
<1>16. ASSUME NEW t \in Type, Kill(t) PROVE MutexInv'
  BY <1>16 DEF Kill
<1>17. CASE UNCHANGED vars
  BY <1>17 DEF vars
<1>18. QED
  BY <1>1, <1>2, <1>3, <1>4, <1>5, <1>6, <1>7, <1>8, <1>9, <1>10, <1>11, <1>12,
     <1>13, <1>14, <1>15, <1>16, <1>17 DEF Next, MainNext, Worker

LEMMA CountStep == IInv /\ [Next]_vars => CountInv'
<1> SUFFICES ASSUME IInv, [Next]_vars PROVE CountInv'
  OBVIOUS
<1> USE ThreadsAssumption DEF TypeOK, IInv, Lock, Unlock, MutexInv, CountInv, MainHolds, Main, Free
<1>1. ASSUME NEW t \in Type, CreateLock(t) PROVE CountInv'
  BY <1>1 DEF CreateLock
<1>2. ASSUME NEW t \in Type, PendingLock(t) PROVE CountInv'
  BY <1>2 DEF PendingLock
<1>3. CASE CreateAdd
  <2>1. Len(Append(bio_jobs[main.type], created + 1)) = Len(bio_jobs[main.type]) + 1
    BY <1>3, MaxJobsAssumption, AppendProperties DEF CreateAdd, Jobs
  <2>2. QED
    BY <1>3, <2>1 DEF CreateAdd
<1>4. CASE CreateCount
  BY <1>4 DEF CreateCount
<1>5. CASE CreateSignal
  BY <1>5 DEF CreateSignal
<1>6. CASE PendingRead
  BY <1>6 DEF PendingRead
<1>7. CASE MainUnlock
  BY <1>7 DEF MainUnlock
<1>8. ASSUME NEW t \in Type, WorkerStart(t) PROVE CountInv'
  BY <1>8 DEF WorkerStart
<1>9. ASSUME NEW t \in Type, WorkerWait(t) PROVE CountInv'
  BY <1>9 DEF WorkerWait
<1>10. ASSUME NEW t \in Type, WorkerWake(t) PROVE CountInv'
  BY <1>10 DEF WorkerWake
<1>11. ASSUME NEW t \in Type, WorkerTake(t) PROVE CountInv'
  BY <1>11 DEF WorkerTake
<1>12. ASSUME NEW t \in Type, WorkerRun(t) PROVE CountInv'
  BY <1>12 DEF WorkerRun
<1>13. ASSUME NEW t \in Type, WorkerDelete(t) PROVE CountInv'
  <2>1. bio_jobs[t] # <<>>
    BY <1>13 DEF WorkerDelete, OrderInv
  <2>2. Len(Tail(bio_jobs[t])) = Len(bio_jobs[t]) - 1
    BY <2>1, HeadTailProperties
  <2>3. QED
    BY <1>13, <2>2 DEF WorkerDelete
<1>14. ASSUME NEW t \in Type, SpuriousWakeup(t) PROVE CountInv'
  BY <1>14 DEF SpuriousWakeup
<1>15. CASE Crash
  BY <1>15 DEF Crash
<1>16. ASSUME NEW t \in Type, Kill(t) PROVE CountInv'
  BY <1>16 DEF Kill
<1>17. CASE UNCHANGED vars
  BY <1>17 DEF vars
<1>18. QED
  BY <1>1, <1>2, <1>3, <1>4, <1>5, <1>6, <1>7, <1>8, <1>9, <1>10, <1>11, <1>12,
     <1>13, <1>14, <1>15, <1>16, <1>17 DEF Next, MainNext, Worker

\* Only three actions change what is waiting or what has been run.
LEMMA OrderStep == IInv /\ [Next]_vars => OrderInv'
<1> SUFFICES ASSUME IInv, [Next]_vars PROVE OrderInv'
  OBVIOUS
<1> USE DEF TypeOK, IInv, Lock, Unlock, OrderInv, Waiting
<1>1. CASE CreateAdd
  <2>1. PICK m \in Type : m = main.type
    OBVIOUS
  <2>2. PICK j \in Jobs : j = created + 1
    BY <1>1, MaxJobsAssumption DEF CreateAdd, CountInv, Jobs
  <2>3. /\ bio_jobs' = [bio_jobs EXCEPT ![m] = Append(@, j)]
        /\ asked' = [asked EXCEPT ![m] = Append(@, j)]
        /\ UNCHANGED <<pc, done>>
    BY <1>1, <2>1, <2>2 DEF CreateAdd
  <2>4. /\ bio_jobs[m] \in Seq(Jobs)
        /\ done[m] \in Seq(Jobs)
        /\ Waiting(m) \in Seq(Jobs)
        /\ asked[m] = done[m] \o Waiting(m)
        /\ pc[m] = "relock" => bio_jobs[m] # <<>>
    BY HeadTailProperties
  <2>5. /\ Append(bio_jobs[m], j) # <<>>
        /\ bio_jobs[m] # <<>> => Tail(Append(bio_jobs[m], j)) = Append(Tail(bio_jobs[m]), j)
    <3> HIDE DEF TypeOK, IInv, OrderInv, Waiting, Lock, Unlock
    <3>1. PICK b \in Seq(Jobs) : b = bio_jobs[m]
      BY <2>4
    <3>2. Append(b, j) # <<>>
      BY AppendProperties
    <3>3. b # <<>> => Tail(Append(b, j)) = Append(Tail(b), j)
      BY TailAppend
    <3>4. QED
      BY <3>1, <3>2, <3>3
  <2>6. Waiting(m)' = Append(Waiting(m), j)
    <3>1. pc'[m] = pc[m] /\ bio_jobs'[m] = Append(bio_jobs[m], j)
      BY <2>3
    <3>2. CASE pc[m] = "relock"
      BY <2>4, <2>5, <3>1, <3>2
    <3>3. CASE pc[m] # "relock"
      BY <3>1, <3>3
    <3>4. QED
      BY <3>2, <3>3
  <2>7. Append(done[m] \o Waiting(m), j) = done[m] \o Append(Waiting(m), j)
    <3> HIDE DEF TypeOK, IInv, OrderInv, Waiting, Lock, Unlock
    <3>1. PICK d \in Seq(Jobs), w \in Seq(Jobs) : d = done[m] /\ w = Waiting(m)
      BY <2>4
    <3>2. Append(d \o w, j) = d \o Append(w, j)
      <4>1. d \o w \in Seq(Jobs) /\ <<j>> \in Seq(Jobs)
        BY ConcatProperties
      <4>2. Append(d \o w, j) = (d \o w) \o <<j>>
        BY <4>1, AppendIsConcat
      <4>3. Append(w, j) = w \o <<j>>
        BY AppendIsConcat
      <4>4. (d \o w) \o <<j>> = d \o (w \o <<j>>)
        BY <4>1, ConcatAssociative
      <4>5. QED
        BY <4>2, <4>3, <4>4
    <3>3. QED
      BY <3>1, <3>2
  <2>8. asked'[m] = done'[m] \o Waiting(m)'
    <3> HIDE DEF Waiting, OrderInv, IInv
    <3>1. asked'[m] = Append(asked[m], j)
      BY <2>3 DEF IInv
    <3>2. QED
      BY <3>1, <2>3, <2>4, <2>6, <2>7
  <2>9. \A t \in Type \ {m} : asked'[t] = done'[t] \o Waiting(t)'
    BY <2>3
  <2>10. \A t \in Type : pc'[t] \in {"run", "relock"} => bio_jobs'[t] # <<>>
    BY <2>3, <2>5
  <2>11. QED
    BY <2>8, <2>9, <2>10
<1>2. ASSUME NEW t \in Type, WorkerRun(t) PROVE OrderInv'
  <2>1. /\ bio_jobs[t] # <<>>
        /\ asked[t] = done[t] \o bio_jobs[t]
    BY <1>2 DEF WorkerRun
  <2>2. Append(done[t], Head(bio_jobs[t])) \o Tail(bio_jobs[t]) = done[t] \o bio_jobs[t]
    BY <2>1, MoveHead
  <2>3. QED
    BY <1>2, <2>1, <2>2 DEF WorkerRun
<1>3. ASSUME NEW t \in Type, WorkerDelete(t) PROVE OrderInv'
  BY <1>3 DEF WorkerDelete
<1>4. ASSUME UNCHANGED <<bio_jobs, asked, done>>,
             NEW t \in Type, NEW p \in WorkerPC, pc' = [pc EXCEPT ![t] = p],
             pc[t] \notin {"run", "relock"},
             p = "relock" => FALSE,
             p = "run" => bio_jobs[t] # <<>>
      PROVE  OrderInv'
  BY <1>4
<1>5. ASSUME UNCHANGED <<bio_jobs, asked, done, pc>> PROVE OrderInv'
  BY <1>5
<1>6. CASE CreateSignal
  BY <1>6 DEF CreateSignal
<1>7. ASSUME NEW t \in Type,
             WorkerStart(t) \/ WorkerWait(t) \/ WorkerWake(t) \/ WorkerTake(t) \/ SpuriousWakeup(t)
      PROVE  OrderInv'
  BY <1>4, <1>7 DEF WorkerStart, WorkerWait, WorkerWake, WorkerTake, SpuriousWakeup, WorkerPC
<1>8. ASSUME NEW t \in Type, CreateLock(t) \/ PendingLock(t) \/ Kill(t) PROVE OrderInv'
  BY <1>5, <1>8 DEF CreateLock, PendingLock, Kill
<1>9. CASE CreateCount \/ PendingRead \/ MainUnlock \/ Crash \/ UNCHANGED vars
  BY <1>5, <1>9 DEF CreateCount, PendingRead, MainUnlock, Crash, vars
<1>10. QED
  BY <1>1, <1>2, <1>3, <1>6, <1>7, <1>8, <1>9 DEF Next, MainNext, Worker

\* A zero answer stands until the main thread creates another job: with the
\* mutex held and the counter at 0 the list is empty.
LEMMA ZeroStep == IInv /\ [Next]_vars => ZeroMeansAllRun'
<1> SUFFICES ASSUME IInv, [Next]_vars PROVE ZeroMeansAllRun'
  OBVIOUS
<1> USE DEF TypeOK, IInv, Lock, Unlock, ZeroMeansAllRun
<1>1. CASE PendingRead
  <2> SUFFICES ASSUME bio_pending[main.type] = 0
               PROVE  done[main.type] = asked[main.type]
    BY <1>1 DEF PendingRead
  <2>1. Len(bio_jobs[main.type]) = 0
    BY <1>1, ThreadsAssumption DEF PendingRead, CountInv, MutexInv, MainHolds, Free, Main
  <2>2. bio_jobs[main.type] = <<>>
    BY <2>1, EmptySeq
  <2>3. asked[main.type] = done[main.type] \o <<>>
    BY <2>2 DEF OrderInv, Waiting
  <2>4. QED
    BY <2>3, ConcatEmptySeq
<1>2. ASSUME NEW t \in Type, WorkerRun(t) PROVE ZeroMeansAllRun'
  <2> SUFFICES ASSUME main.zero, main.type = t PROVE FALSE
    BY <1>2 DEF WorkerRun
  <2>1. /\ asked[t] = done[t] \o bio_jobs[t]
        /\ bio_jobs[t] # <<>>
        /\ asked[t] = done[t]
    BY <1>2 DEF WorkerRun, OrderInv, Waiting
  <2>2. done[t] \in Seq(Jobs) /\ bio_jobs[t] \in Seq(Jobs)
    OBVIOUS
  <2>3. done[t] \o bio_jobs[t] # done[t]
    <3>1. PICK d \in Seq(Jobs), b \in Seq(Jobs) : d = done[t] /\ b = bio_jobs[t]
      BY <2>2
    <3>2. Len(d \o b) = Len(d) + Len(b) /\ Len(b) # 0 /\ Len(d) \in Nat /\ Len(b) \in Nat
      BY <2>1, <3>1, ConcatProperties, EmptySeq
    <3>3. QED
      BY <3>1, <3>2
  <2>4. QED
    BY <2>1, <2>3
<1>3. ASSUME NEW t \in Type, CreateLock(t) \/ PendingLock(t) PROVE ZeroMeansAllRun'
  BY <1>3 DEF CreateLock, PendingLock
<1>4. CASE CreateAdd
  BY <1>4 DEF CreateAdd, CountInv
<1>5. CASE CreateCount
  BY <1>5 DEF CreateCount
<1>6. CASE CreateSignal
  BY <1>6 DEF CreateSignal
<1>7. CASE MainUnlock
  BY <1>7 DEF MainUnlock
<1>8. CASE Crash
  BY <1>8 DEF Crash
<1>9. CASE UNCHANGED vars
  BY <1>9 DEF vars
<1>10. ASSUME NEW t \in Type,
              \/ WorkerStart(t) \/ WorkerWait(t) \/ WorkerWake(t) \/ WorkerTake(t)
              \/ WorkerDelete(t) \/ SpuriousWakeup(t) \/ Kill(t)
       PROVE  ZeroMeansAllRun'
  BY <1>10 DEF WorkerStart, WorkerWait, WorkerWake, WorkerTake, WorkerDelete, SpuriousWakeup, Kill
<1>11. QED
  BY <1>1, <1>2, <1>3, <1>4, <1>5, <1>6, <1>7, <1>8, <1>9, <1>10 DEF Next, MainNext, Worker

-----------------------------------------------------------------------------
(* The theorems. *)

\* The invariant of the service: who holds a mutex, what the counter counts
\* between two critical sections, and that no job is lost, repeated or
\* reordered by the lock-free window of bioProcessBackgroundJobs.
THEOREM InductiveInvariant == Spec => []IInv
<1>1. IInv /\ [Next]_vars => IInv'
  BY TypeStep, MutexStep, CountStep, OrderStep, ZeroStep DEF IInv
<1>2. QED
  BY <1>1, InitIInv, PTL DEF Spec

\* The statics of bio.c keep their types.
THEOREM TypeCorrect == Spec => []TypeOK
<1>1. IInv => TypeOK
  BY DEF IInv
<1>2. QED
  BY <1>1, InductiveInvariant, PTL

\* bioPendingJobsOfType and the critical sections of the two other functions
\* see a counter that is the length of the list.
THEOREM CounterExact == Spec => []PendingIsLength
<1>1. IInv => PendingIsLength
  BY ThreadsAssumption DEF IInv, CountInv, PendingIsLength, Main, Free
<1>2. QED
  BY <1>1, InductiveInvariant, PTL

\* An answer 0 of bioPendingJobsOfType means that every job of the type was
\* run to its end.
THEOREM ZeroIsDrained == Spec => []ZeroMeansAllRun
<1>1. IInv => ZeroMeansAllRun
  BY DEF IInv
<1>2. QED
  BY <1>1, InductiveInvariant, PTL

-----------------------------------------------------------------------------
(* The refinement of JobQueue, one queue for each type. *)

\* What is said of one type between two states: its queue makes a step of
\* JobQueue or none.
QueueStep(t) == Queue(t)!Next \/ UNCHANGED <<Waiting(t), done[t]>>

\* A step that leaves the lists and the jobs run alone and takes no worker
\* out of "relock" or into it is no step of any queue.
LEMMA NoQueueStep ==
  ASSUME UNCHANGED <<bio_jobs, done>>,
         NEW t \in Type, (pc[t] = "relock") <=> (pc'[t] = "relock")
  PROVE  QueueStep(t)
BY DEF QueueStep, Waiting

\* CreateAdd submits the new job to the queue of its type.
LEMMA AddSubmits ==
  ASSUME IInv, CreateAdd, NEW t \in Type
  PROVE  QueueStep(t)
<1>1. PICK m \in Type : m = main.type
  BY DEF IInv, TypeOK
<1>2. PICK j \in Jobs : j = created + 1
  BY MaxJobsAssumption DEF IInv, TypeOK, CreateAdd, CountInv, Jobs
<1>3. /\ bio_jobs' = [bio_jobs EXCEPT ![m] = Append(@, j)]
      /\ UNCHANGED <<pc, done>>
  BY <1>1, <1>2 DEF CreateAdd
<1>4. CASE t # m
  BY <1>3, <1>4 DEF QueueStep, Waiting, IInv, TypeOK
<1>5. CASE t = m
  <2>1. bio_jobs[t] \in Seq(Jobs) /\ (pc[t] = "relock" => bio_jobs[t] # <<>>)
    BY DEF IInv, TypeOK, OrderInv
  <2>2. bio_jobs'[t] = Append(bio_jobs[t], j) /\ pc'[t] = pc[t] /\ done'[t] = done[t]
    BY <1>3, <1>5 DEF IInv, TypeOK
  <2>3. pc[t] = "relock" => Tail(Append(bio_jobs[t], j)) = Append(Tail(bio_jobs[t]), j)
    BY <2>1, TailAppend
  <2>4. Waiting(t)' = Append(Waiting(t), j)
    BY <2>2, <2>3 DEF Waiting
  <2>5. Queue(t)!Submit(j)
    BY <2>2, <2>4 DEF Queue!Submit
  <2>6. QED
    BY <2>5 DEF QueueStep, Queue!Next
<1>6. QED
  BY <1>4, <1>5

\* WorkerRun runs the head of the queue, although the node stays in the list.
LEMMA RunRuns ==
  ASSUME IInv, NEW w \in Type, WorkerRun(w), NEW t \in Type
  PROVE  QueueStep(t)
<1>1. CASE t # w
  BY <1>1 DEF WorkerRun, QueueStep, Waiting, IInv, TypeOK
<1>2. CASE t = w
  <2>1. /\ Waiting(t) = bio_jobs[t] /\ Waiting(t)' = Tail(bio_jobs[t])
        /\ done'[t] = Append(done[t], Head(bio_jobs[t]))
        /\ bio_jobs[t] # <<>>
    BY <1>2 DEF WorkerRun, Waiting, IInv, TypeOK, OrderInv
  <2>2. Queue(t)!Run
    BY <2>1 DEF Queue!Run
  <2>3. QED
    BY <2>2 DEF QueueStep, Queue!Next
<1>3. QED
  BY <1>1, <1>2

LEMMA EveryStepIsAQueueStep ==
  IInv /\ [Next]_vars => \A t \in Type : QueueStep(t)
<1> SUFFICES ASSUME IInv, [Next]_vars, NEW t \in Type PROVE QueueStep(t)
  OBVIOUS
<1>1. CASE CreateAdd
  BY <1>1, AddSubmits
<1>2. ASSUME NEW w \in Type, WorkerRun(w) PROVE QueueStep(t)
  BY <1>2, RunRuns
<1>3. ASSUME NEW w \in Type, WorkerDelete(w) PROVE QueueStep(t)
  BY <1>3 DEF WorkerDelete, QueueStep, Waiting, IInv, TypeOK
<1>4. ASSUME NEW w \in Type,
             WorkerStart(w) \/ WorkerWait(w) \/ WorkerWake(w) \/ WorkerTake(w) \/ SpuriousWakeup(w)
      PROVE  QueueStep(t)
  <2>1. /\ UNCHANGED <<bio_jobs, done>>
        /\ (pc[t] = "relock") <=> (pc'[t] = "relock")
    BY <1>4 DEF WorkerStart, WorkerWait, WorkerWake, WorkerTake, SpuriousWakeup, IInv, TypeOK
  <2>2. QED
    BY <2>1, NoQueueStep
<1>5. ASSUME NEW w \in Type, CreateLock(w) \/ PendingLock(w) \/ Kill(w) PROVE QueueStep(t)
  BY <1>5, NoQueueStep DEF CreateLock, PendingLock, Kill
<1>6. CASE CreateSignal
  <2>1. /\ UNCHANGED <<bio_jobs, done>>
        /\ (pc[t] = "relock") <=> (pc'[t] = "relock")
    BY <1>6 DEF CreateSignal, IInv, TypeOK
  <2>2. QED
    BY <2>1, NoQueueStep
<1>7. CASE CreateCount \/ PendingRead \/ MainUnlock \/ Crash \/ UNCHANGED vars
  BY <1>7, NoQueueStep DEF CreateCount, PendingRead, MainUnlock, Crash, vars
<1>8. QED
  BY <1>1, <1>2, <1>3, <1>4, <1>5, <1>6, <1>7 DEF Next, MainNext, Worker

\* The service of every type implements JobQueue: jobs are run exactly once,
\* one at a time and in the order of bioCreateBackgroundJob, although
\* bioProcessBackgroundJobs runs them with the mutex released.
THEOREM RefinesJobQueue == Spec => ImplementsJobQueue
<1>1. Init => \A t \in Type : Queue(t)!Init
  BY DEF Init, Queue!Init, Waiting
<1>2. IInv /\ [Next]_vars =>
        [\A t \in Type : Queue(t)!Next \/ UNCHANGED <<Waiting(t), done[t]>>]_vars
  BY EveryStepIsAQueueStep DEF QueueStep
<1>3. QED
  BY <1>1, <1>2, InductiveInvariant, PTL DEF Spec, ImplementsJobQueue
=============================================================================
