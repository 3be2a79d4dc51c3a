--------------------------- MODULE AofFlushProofs ---------------------------
(***************************************************************************)
(* Proofs about AofFlush, for every set of clients, number of commands and *)
(* length of a command's log, every policy and every fault.                *)
(***************************************************************************)
EXTENDS AofFlush, SequenceTheorems, FiniteSetTheorems, TLAPS

-----------------------------------------------------------------------------
(* The log as a sequence of positions. *)

\* Multiples of Rec are natural numbers and grow with the factor.
LEMMA Multiples ==
  /\ \A m \in Nat : Rec * m \in Nat
  /\ \A m, n \in Nat : m <= n => Rec * m <= Rec * n
  /\ \A m, n \in Nat : m < n => Rec * m < Rec * n
  /\ \A m, n \in Nat : Rec * (n - m) = Rec * n - Rec * m
<1>1. Rec \in Nat /\ Rec > 0
  BY RecAssumption
<1>2. \A m \in Nat : Rec * m \in Nat
  BY <1>1
<1>3. \A m, n \in Nat : Rec * (n - m) = Rec * n - Rec * m
  BY <1>1
<1>4. \A k \in Nat : k > 0 => Rec * k > 0
  BY <1>1
<1>5. \A m, n \in Nat : m < n => Rec * m < Rec * n
  <2>1. TAKE m, n \in Nat
  <2>2. HAVE m < n
  <2>3. Rec * (n - m) > 0
    BY <2>2, <1>4
  <2>4. Rec * n - Rec * m > 0 /\ Rec * n \in Nat /\ Rec * m \in Nat
    BY <2>3, <1>2, <1>3
  <2>5. QED
    BY <2>4
<1>6. \A m, n \in Nat : m <= n => Rec * m <= Rec * n
  <2>1. TAKE m, n \in Nat
  <2>2. HAVE m <= n
  <2>3. CASE m = n
    BY <2>3, <1>2
  <2>4. CASE m < n
    BY <2>4, <1>5, <1>2
  <2>5. QED
    BY <2>2, <2>3, <2>4
<1>7. QED
  BY <1>2, <1>3, <1>5, <1>6

LEMMA LogIsSeq ==
  ASSUME NEW m \in Nat, NEW n \in Nat, m <= n
  PROVE  /\ Log(m, n) \in Seq(Nat)
         /\ Len(Log(m, n)) = Rec * n - Rec * m
         /\ \A i \in 1 .. Rec * n - Rec * m : Log(m, n)[i] = Rec * m + i
<1>1. PICK k \in Nat : k = Rec * (n - m)
  BY Multiples
<1>2. PICK b \in Nat : b = Rec * m
  BY Multiples
<1>3. Log(m, n) = [i \in 1 .. k |-> b + i]
  BY <1>1, <1>2 DEF Log
<1>4. k = Rec * n - Rec * m
  BY <1>1, Multiples
<1>5. [i \in 1 .. k |-> b + i] \in Seq(Nat) /\ Len([i \in 1 .. k |-> b + i]) = k
  OBVIOUS
<1>6. QED
  BY <1>2, <1>3, <1>4, <1>5

LEMMA LogFromStart ==
  ASSUME NEW n \in Nat
  PROVE  /\ Log(0, n) \in Seq(Nat)
         /\ Len(Log(0, n)) = Rec * n
         /\ \A i \in 1 .. Rec * n : Log(0, n)[i] = i
<1>1. PICK k \in Nat : k = Rec * n
  BY Multiples
<1>2. Rec * 0 = 0
  BY RecAssumption
<1>3. 0 \in Nat /\ 0 <= n
  OBVIOUS
<1>4. /\ Log(0, n) \in Seq(Nat)
      /\ Len(Log(0, n)) = Rec * n - Rec * 0
      /\ \A i \in 1 .. Rec * n - Rec * 0 : Log(0, n)[i] = Rec * 0 + i
  BY <1>3, LogIsSeq
<1>5. QED
  BY <1>1, <1>2, <1>4

\* The log of more commands is the log of the first followed by the others'.
LEMMA LogExtends ==
  ASSUME NEW m \in Nat, NEW n \in Nat, m <= n
  PROVE  Log(0, m) \o Log(m, n) = Log(0, n)
<1>1. PICK a \in Nat : a = Rec * m
  BY Multiples
<1>2. PICK b \in Nat : b = Rec * n
  BY Multiples
<1>3. a <= b
  BY <1>1, <1>2, Multiples
<1>4. PICK s \in Seq(Nat) : /\ s = Log(0, m) /\ Len(s) = a
                           /\ \A i \in 1 .. a : s[i] = i
  BY <1>1, LogFromStart
<1>5. PICK t \in Seq(Nat) : /\ t = Log(m, n) /\ Len(t) = b - a
                           /\ \A i \in 1 .. b - a : t[i] = a + i
  BY <1>1, <1>2, LogIsSeq
<1>6. PICK u \in Seq(Nat) : /\ u = Log(0, n) /\ Len(u) = b
                           /\ \A i \in 1 .. b : u[i] = i
  BY <1>2, LogFromStart
<1>7. /\ s \o t \in Seq(Nat)
      /\ Len(s \o t) = a + (b - a)
      /\ \A i \in 1 .. a + (b - a) : (s \o t)[i] = IF i <= a THEN s[i] ELSE t[i - a]
  <2>1. Len(s) = a /\ Len(t) = b - a
    BY <1>4, <1>5
  <2>2. /\ s \o t \in Seq(Nat)
        /\ Len(s \o t) = Len(s) + Len(t)
        /\ \A i \in 1 .. Len(s) + Len(t) :
             (s \o t)[i] = IF i <= Len(s) THEN s[i] ELSE t[i - Len(s)]
    BY ConcatProperties
  <2>3. QED
    BY <2>1, <2>2
<1>8. a + (b - a) = b
  OBVIOUS
<1>9. \A i \in 1 .. b : (s \o t)[i] = u[i]
  <2>1. TAKE i \in 1 .. b
  <2>2. CASE i <= a
    BY <2>2, <1>4, <1>6, <1>7, <1>8
  <2>3. CASE ~(i <= a)
    <3>1. i - a \in 1 .. b - a
      BY <2>3, <1>3
    <3>2. t[i - a] = a + (i - a) /\ a + (i - a) = i
      BY <3>1, <1>5
    <3>3. QED
      BY <2>3, <3>2, <1>6, <1>7, <1>8
  <2>4. QED
    BY <2>2, <2>3
<1>10. s \o t = u
  BY <1>6, <1>7, <1>8, <1>9, SeqEqual
<1>11. QED
  BY <1>4, <1>5, <1>6, <1>10

\* The left part of a concatenation is a prefix of it.
LEMMA LeftIsPrefix ==
  ASSUME NEW S, NEW s \in Seq(S), NEW t \in Seq(S)
  PROVE  s = SubSeq(s \o t, 1, Len(s))
<1>1. PICK n \in Nat : n = Len(s)
  BY LenProperties
<1>2. PICK u \in Seq(S) : u = s \o t
  BY ConcatProperties
<1>3. \A i \in 1 .. n : u[i] = s[i] /\ u[i] \in S
  BY <1>1, <1>2, ConcatProperties, LenProperties, ElementOfSeq
<1>4. /\ SubSeq(u, 1, n) \in Seq(S)
      /\ Len(SubSeq(u, 1, n)) = n
      /\ \A i \in 1 .. n : SubSeq(u, 1, n)[i] = u[i]
  <2>1. /\ SubSeq(u, 1, n) \in Seq(S)
        /\ Len(SubSeq(u, 1, n)) = IF 1 <= n THEN n - 1 + 1 ELSE 0
        /\ \A i \in 1 .. n - 1 + 1 : SubSeq(u, 1, n)[i] = u[1 + i - 1]
    BY <1>3, SubSeqProperties
  <2>2. QED
    BY <2>1
<1>5. QED
  BY <1>1, <1>2, <1>3, <1>4, SeqEqual

\* A sequence is put together again from the two sides of a cut.
LEMMA CutAndJoin ==
  ASSUME NEW S, NEW s \in Seq(S), NEW k \in 0 .. Len(s)
  PROVE  /\ SubSeq(s, 1, k) \in Seq(S) /\ Len(SubSeq(s, 1, k)) = k
         /\ SubSeq(s, k + 1, Len(s)) \in Seq(S)
         /\ SubSeq(s, 1, k) \o SubSeq(s, k + 1, Len(s)) = s
<1>1. PICK n \in Nat : n = Len(s)
  BY LenProperties
<1>2. \A i \in 1 .. n : s[i] \in S
  BY <1>1, ElementOfSeq
<1>3. SubSeq(s, 1, k) \in Seq(S) /\ Len(SubSeq(s, 1, k)) = k
  <2>1. /\ SubSeq(s, 1, k) \in Seq(S)
        /\ Len(SubSeq(s, 1, k)) = IF 1 <= k THEN k - 1 + 1 ELSE 0
    BY <1>1, <1>2, SubSeqProperties
  <2>2. QED
    BY <2>1, <1>1
<1>4. SubSeq(s, k + 1, n) \in Seq(S)
  BY <1>1, <1>2, SubSeqProperties
<1>5. SubSeq(s, 1, k) \o SubSeq(s, k + 1, n) = SubSeq(s, 1, n)
  <2>1. 1 \in 1 .. Len(s) + 1 /\ k \in 1 - 1 .. Len(s) /\ n \in k .. Len(s)
    BY <1>1
  <2>2. QED
    BY <2>1, ConcatAdjacentSubSeq
<1>6. QED
  BY <1>1, <1>3, <1>4, <1>5, SubSeqFull
\* ... also when its left side is first put behind another.
LEMMA CutAndJoinBehind ==
  ASSUME NEW S, NEW f \in Seq(S), NEW s \in Seq(S), NEW k \in 0 .. Len(s)
  PROVE  /\ f \o SubSeq(s, 1, k) \in Seq(S)
         /\ Len(f \o SubSeq(s, 1, k)) = Len(f) + k
         /\ (f \o SubSeq(s, 1, k)) \o SubSeq(s, k + 1, Len(s)) = f \o s
<1>1. PICK u \in Seq(S) : u = SubSeq(s, 1, k) /\ Len(u) = k
  BY CutAndJoin
<1>2. PICK v \in Seq(S) : v = SubSeq(s, k + 1, Len(s)) /\ u \o v = s
  BY <1>1, CutAndJoin
<1>3. (f \o u) \o v = f \o (u \o v)
  BY ConcatAssociative
<1>4. f \o u \in Seq(S) /\ Len(f \o u) = Len(f) + Len(u)
  BY ConcatProperties
<1>5. QED
  BY <1>1, <1>2, <1>3, <1>4

-----------------------------------------------------------------------------
(* flushAppendOnlyFile keeps the log exact. *)

\* The same for positions, as WriteShort has it.
LEMMA WriteCut ==
  \A f, b \in Seq(Nat) : \A k \in 0 .. Len(b) :
    /\ f \o SubSeq(b, 1, k) \in Seq(Nat)
    /\ Len(f \o SubSeq(b, 1, k)) = Len(f) + k
    /\ (f \o SubSeq(b, 1, k)) \o SubSeq(b, k + 1, Len(b)) = f \o b
  BY CutAndJoinBehind

\* What a flush starts from.
FlushPre ==
  /\ file \in Seq(Nat) /\ aof_buf \in Seq(Nat)
  /\ executed \in Nat /\ Log(0, executed) \in Seq(Nat)
  /\ synced \in Nat /\ synced <= Len(file)
  /\ file \o aof_buf = Log(0, executed)
  /\ aof_current_size = Len(file)
  /\ rewrites \in Nat /\ bio_pending \in 0 .. 1 + rewrites
  /\ postponed \in None .. 2 /\ fsync_age \in 0 .. 1
  /\ aof_last_write_status \in {"ok", "err"}

\* What it leaves, and what only if the process goes on.
LogPost ==
  /\ file' \in Seq(Nat) /\ aof_buf' \in Seq(Nat)
  /\ synced' \in Nat /\ synced' <= Len(file')
  /\ file' = SubSeq(Log(0, executed), 1, Len(file'))
  /\ aof_current_size' \in Nat
ExactPost ==
  /\ file' \o aof_buf' = Log(0, executed)
  /\ aof_current_size' = Len(file')
OtherPost ==
  /\ bio_pending' \in 0 .. 1 + rewrites /\ bio_pending <= bio_pending'
  /\ postponed' \in None .. 2 /\ fsync_age' \in 0 .. 1
  /\ aof_last_write_status' \in {"ok", "err"}

LEMMA WriteAllLog ==
  ASSUME FlushPre, WriteAll
  PROVE  LogPost /\ ExactPost /\ OtherPost /\ file' = Log(0, executed)
<1>1. PICK f \in Seq(Nat) : f = file
  BY DEF FlushPre
<1>2. PICK b \in Seq(Nat) : b = aof_buf
  BY DEF FlushPre
<1>3. PICK l \in Seq(Nat) : l = Log(0, executed) /\ f \o b = l
  BY <1>1, <1>2 DEF FlushPre
<1>4. file' = l /\ aof_buf' = <<>>
  BY <1>1, <1>2, <1>3 DEF WriteAll
<1>5. /\ l \o <<>> = l
      /\ l = SubSeq(l, 1, Len(l))
      /\ Len(l) = Len(f) + Len(b)
      /\ Len(f) \in Nat /\ Len(b) \in Nat
  BY <1>3, ConcatEmptySeq, SubSeqFull, ConcatProperties, LenProperties
<1>6. aof_current_size' = Len(l)
  BY <1>1, <1>2, <1>5 DEF FlushPre, WriteAll
<1>7. synced' \in Nat /\ synced' <= Len(l)
  <2>1. synced \in Nat /\ synced <= Len(f)
    BY <1>1 DEF FlushPre
  <2>2. synced' = synced \/ synced' = Len(l)
    BY <1>4 DEF WriteAll, SkipFsync, FsyncNow, FsyncInBackground
  <2>3. QED
    BY <1>5, <2>1, <2>2
<1>8. LogPost /\ ExactPost
  BY <1>3, <1>4, <1>5, <1>6, <1>7, EmptySeq DEF LogPost, ExactPost
<1>9. OtherPost
  BY DEF FlushPre, OtherPost, WriteAll, SkipFsync, FsyncNow, FsyncInBackground, SyncInProgress, None
<1>10. QED
  BY <1>3, <1>4, <1>8, <1>9

LEMMA WriteShortLog ==
  ASSUME FlushPre,
         NEW n \in None .. Len(aof_buf) - 1, NEW truncated \in BOOLEAN, WriteShort(n, truncated)
  PROVE  /\ LogPost /\ OtherPost /\ (aof_fsync # "always" => ExactPost)
         /\ aof_fsync = "always" => synced' = synced
         /\ Len(file) <= Len(file')
<1>1. PICK f \in Seq(Nat) : f = file
  BY DEF FlushPre
<1>2. PICK b \in Seq(Nat) : b = aof_buf
  BY DEF FlushPre
<1>3. PICK l \in Seq(Nat) : l = Log(0, executed) /\ f \o b = l
  BY <1>1, <1>2 DEF FlushPre
<1>4. Len(f) \in Nat /\ Len(b) \in Nat /\ aof_current_size = Len(f)
  BY <1>1, LenProperties DEF FlushPre
<1>5. synced \in Nat /\ synced <= Len(f)
  BY <1>1 DEF FlushPre
<1>. DEFINE k == IF n = None THEN 0 ELSE n
            w == SubSeq(b, 1, k)
            r == SubSeq(b, k + 1, Len(b))
<1>6. k \in 0 .. Len(b)
  BY <1>2, <1>4 DEF None
<1>7. /\ w \in Seq(Nat) /\ Len(w) = k /\ r \in Seq(Nat) /\ w \o r = b
  BY <1>6, CutAndJoin
<1>8. /\ f \o w \in Seq(Nat) /\ Len(f \o w) = Len(f) + k
      /\ (f \o w) \o r = l
  BY <1>3, <1>6, WriteCut
<1>9. SubSeq(f \o w, 1, Len(f)) = f
  BY <1>7, LeftIsPrefix
<1>10. n = None => f \o w = f /\ r = b /\ k = 0
  <2>1. SUFFICES ASSUME n = None PROVE f \o w = f /\ r = b
    OBVIOUS
  <2>2. k = 0
    BY <2>1
  <2>3. w = <<>>
    BY <2>2, SubSeqEmpty
  <2>4. QED
    BY <2>2, <2>3, ConcatEmptySeq, SubSeqFull
<1>11. file' = IF truncated THEN f ELSE f \o w
  <2>1. CASE n = None
    BY <2>1, <1>1, <1>10 DEF WriteShort
  <2>2. CASE n # None
    BY <2>2, <1>1, <1>2, <1>4, <1>9 DEF WriteShort
  <2>3. QED
    BY <2>1, <2>2
<1>12. aof_fsync # "always" =>
         /\ aof_current_size' = Len(f) + (IF truncated THEN 0 ELSE k)
         /\ aof_buf' = IF truncated THEN b ELSE r
  <2>1. SUFFICES ASSUME aof_fsync # "always"
                 PROVE  /\ aof_current_size' = Len(f) + (IF truncated THEN 0 ELSE k)
                        /\ aof_buf' = IF truncated THEN b ELSE r
    OBVIOUS
  <2>2. CASE n = None \/ truncated
    <3>1. aof_current_size' = aof_current_size + 0 /\ aof_buf' = SubSeq(aof_buf, 0 + 1, Len(aof_buf))
      BY <2>1, <2>2 DEF WriteShort
    <3>2. SubSeq(b, 0 + 1, Len(b)) = b
      BY SubSeqFull
    <3>3. QED
      BY <2>2, <3>1, <3>2, <1>2, <1>4, <1>10
  <2>3. CASE n # None /\ ~truncated
    BY <2>1, <2>3, <1>2, <1>4 DEF WriteShort
  <2>4. QED
    BY <2>2, <2>3
<1>13. aof_fsync = "always" => aof_buf' = b /\ aof_current_size' = Len(f)
  BY <1>2, <1>4 DEF WriteShort
<1>. HIDE DEF k, w, r
<1>14. Len(f) <= Len(file') /\ file' \in Seq(Nat) /\ Len(file') \in Nat
  BY <1>4, <1>6, <1>8, <1>11, LenProperties
<1>15. synced' = synced
  BY <1>5, <1>14 DEF WriteShort, Smaller
<1>16. file' = SubSeq(l, 1, Len(file'))
  <2>1. CASE truncated
    BY <2>1, <1>3, <1>11, LeftIsPrefix
  <2>2. CASE ~truncated
    BY <2>2, <1>7, <1>8, <1>11, LeftIsPrefix
  <2>3. QED
    BY <2>1, <2>2
<1>17. aof_fsync # "always" => file' \o aof_buf' = l /\ aof_current_size' = Len(file')
  <2>1. CASE truncated
    BY <2>1, <1>3, <1>4, <1>11, <1>12
  <2>2. CASE ~truncated
    BY <2>2, <1>4, <1>6, <1>8, <1>11, <1>12
  <2>3. QED
    BY <2>1, <2>2
<1>18. aof_buf' \in Seq(Nat) /\ aof_current_size' \in Nat
  BY <1>4, <1>6, <1>7, <1>12, <1>13
<1>19. LogPost /\ (aof_fsync # "always" => ExactPost)
  BY <1>3, <1>5, <1>14, <1>15, <1>16, <1>17, <1>18 DEF LogPost, ExactPost
<1>20. OtherPost
  <2>1. /\ postponed' = None /\ fsync_age' = fsync_age /\ bio_pending' = bio_pending
        /\ aof_last_write_status' \in {aof_last_write_status, "err"}
    BY DEF WriteShort
  <2>2. QED
    BY <2>1 DEF FlushPre, OtherPost, None
<1>21. QED
  BY <1>1, <1>14, <1>15, <1>19, <1>20

\* What the invariant gives a flush, and what every flush gives it back.
LEMMA InvGivesPre ==
  ASSUME LogInv, phase # "exited"
  PROVE  FlushPre
<1>1. executed \in Nat /\ Log(0, executed) \in Seq(Nat)
  BY LogFromStart DEF LogInv, TypeOK
<1>2. file \o aof_buf = Log(0, executed) /\ aof_current_size = Len(file)
  BY DEF LogInv, LogExact
<1>3. QED
  BY <1>1, <1>2 DEF LogInv, TypeOK, FlushPre

LEMMA FlushLog ==
  ASSUME LogInv, phase # "exited", NEW force \in BOOLEAN, NEW next, next # "exited",
         Flush(force, next)
  PROVE  /\ phase' = next \/ (phase' = "exited" /\ aof_fsync = "always")
         /\ LogPost /\ OtherPost /\ (phase' # "exited" => ExactPost)
         /\ aof_fsync = "always" => synced <= synced' /\ Len(file) <= Len(file')
         /\ \/ aof_buf = <<>> /\ file' = file /\ synced' = synced
            \/ phase' = "exited"
            \/ aof_fsync # "always"
            \/ NoFsyncOnRewrite /\ child
            \/ FsyncMayFail
            \/ file' = Log(0, executed) /\ synced' = Len(file')
<1>1. FlushPre
  BY InvGivesPre
<1>2. file = SubSeq(Log(0, executed), 1, Len(file)) /\ Len(file) \in Nat /\ synced \in Nat
  BY LenProperties DEF LogInv, LogExact, TypeOK
<1>3. FlushPre /\ UNCHANGED <<aof_buf, disk, aof_current_size>> => (LogPost /\ ExactPost)
  BY <1>2 DEF FlushPre, LogPost, ExactPost, disk
<1>4. CASE aof_buf = <<>> /\ phase' = next /\ UNCHANGED <<aof, disk, bio_pending>>
  <2>1. LogPost /\ ExactPost
    BY <1>1, <1>3, <1>4 DEF aof
  <2>2. OtherPost
    BY <1>1, <1>4 DEF FlushPre, OtherPost, aof
  <2>3. file' = file /\ synced' = synced
    BY <1>4 DEF disk
  <2>4. QED
    BY <1>2, <1>4, <2>1, <2>2, <2>3
<1>5. CASE MayPostpone(force) /\ Postpone /\ phase' = next
  <2>1. LogPost /\ ExactPost
    BY <1>1, <1>3, <1>5 DEF Postpone
  <2>2. OtherPost
    BY <1>1, <1>5 DEF FlushPre, OtherPost, Postpone, None
  <2>3. aof_fsync # "always"
    BY <1>5 DEF MayPostpone, SyncInProgress
  <2>4. QED
    BY <1>5, <2>1, <2>2, <2>3
<1>6. CASE WriteAll /\ phase' = next
  <2>1. LogPost /\ ExactPost /\ OtherPost /\ file' = Log(0, executed)
    BY <1>1, <1>6, WriteAllLog
  <2>2. Len(file) <= Len(file')
    <3>1. Log(0, executed) = file \o aof_buf /\ aof_buf \in Seq(Nat) /\ file \in Seq(Nat)
      BY <1>1 DEF FlushPre
    <3>2. \A s, t \in Seq(Nat) : Len(s) <= Len(s \o t)
      BY ConcatProperties, LenProperties
    <3>3. QED
      BY <2>1, <3>1, <3>2
  <2>3. aof_fsync = "always" =>
          \/ NoFsyncOnRewrite /\ child /\ synced' = synced
          \/ synced' = Len(file')
          \/ FsyncMayFail /\ synced' = synced
    BY <1>6 DEF WriteAll, SkipFsync, FsyncNow, FsyncInBackground
  <2>4. synced <= Len(file) /\ Len(file') \in Nat
    BY <1>1, <2>1, LenProperties DEF FlushPre
  <2>5. aof_fsync = "always" => synced <= synced'
    BY <1>2, <2>2, <2>3, <2>4
  <2>6. QED
    BY <1>6, <2>1, <2>2, <2>3, <2>5
<1>7. CASE /\ \E n \in None .. Len(aof_buf) - 1, truncated \in BOOLEAN : WriteShort(n, truncated)
           /\ phase' = IF aof_fsync = "always" THEN "exited" ELSE next
  <2>1. PICK n \in None .. Len(aof_buf) - 1, truncated \in BOOLEAN : WriteShort(n, truncated)
    BY <1>7
  <2>2. /\ LogPost /\ OtherPost /\ (aof_fsync # "always" => ExactPost)
        /\ aof_fsync = "always" => synced' = synced
        /\ Len(file) <= Len(file')
    BY <1>1, <2>1, WriteShortLog
  <2>3. CASE aof_fsync = "always"
    BY <1>2, <1>7, <2>2, <2>3
  <2>4. CASE aof_fsync # "always"
    BY <1>7, <2>2, <2>4
  <2>5. QED
    BY <2>3, <2>4
<1>8. QED
  BY <1>4, <1>5, <1>6, <1>7 DEF Flush

-----------------------------------------------------------------------------
(* The log stays exact in every step. *)

LEMMA InitLogInv == Init => LogInv
<1>1. SUFFICES ASSUME Init PROVE LogInv
  OBVIOUS
<1>2. TypeOK
  <2>1. /\ <<>> \in Seq(Nat) /\ <<>> \in Seq(0 .. MaxCmds)
        /\ 0 \in 0 .. MaxFaults
    BY MaxFaultsAssumption, EmptySeq
  <2>2. /\ fired \in [Clients -> SUBSET {"read", "write"}]
        /\ reply \in [Clients -> Seq(0 .. MaxCmds)]
    BY <1>1, <2>1 DEF Init
  <2>3. postponed \in None .. 2 /\ waited \in None .. 2 /\ fsyncing \in Nat \cup {None}
    BY <1>1 DEF Init, None
  <2>4. /\ phase \in Phases /\ aof_fsync \in Policies
        /\ aof_buf \in Seq(Nat) /\ file \in Seq(Nat)
        /\ fsync_age \in 0 .. 1 /\ rewrites = 0 /\ bio_pending = 0 /\ bio_pending \in 0 .. 1 + rewrites
        /\ faults \in 0 .. MaxFaults
        /\ aof_current_size \in Nat /\ synced \in Nat /\ executed \in Nat
    BY <1>1, <2>1 DEF Init, Phases
  <2>5. /\ aof_last_write_status \in {"ok", "err"} /\ acked = {} /\ contract = {}
        /\ disk_full \in BOOLEAN /\ child \in BOOLEAN /\ dropped \in BOOLEAN
        /\ old_jobs = 0 /\ rewriting = None
    BY <1>1 DEF Init
  <2>6. QED
    BY <2>2, <2>3, <2>4, <2>5 DEF TypeOK
<1>3. Log(0, 0) = <<>>
  <2>1. Log(0, 0) \in Seq(Nat) /\ Len(Log(0, 0)) = Rec * 0
    BY LogFromStart
  <2>2. Rec * 0 = 0
    BY RecAssumption
  <2>3. QED
    BY <2>1, <2>2, EmptySeq
<1>4. LogExact
  <2>1. <<>> \o <<>> = <<>> /\ SubSeq(<<>>, 1, 0) = <<>> /\ Len(<<>>) = 0
    BY EmptySeq, ConcatEmptySeq, SubSeqEmpty
  <2>2. QED
    BY <1>1, <1>3, <2>1 DEF Init, LogExact
<1>5. QED
  BY <1>1, <1>2, <1>4, MaxCmdsAssumption, EmptySeq DEF Init, LogInv, None

LEMMA FlushKeepsLogInv ==
  ASSUME LogInv, phase # "exited",
         NEW force \in BOOLEAN, NEW next \in Phases \ {"exited"}, Flush(force, next),
         UNCHANGED <<clients, aof_fsync, fault, bio, procs, history>>,
         waited' \in None .. 2
  PROVE  LogInv'
<1>1. /\ phase' = next \/ phase' = "exited"
      /\ LogPost /\ OtherPost /\ (phase' # "exited" => ExactPost)
  BY FlushLog
<1>2. phase' \in Phases
  BY <1>1 DEF Phases
<1>3. LogExact'
  BY <1>1 DEF LogPost, ExactPost, LogExact, history
<1>4. TypeOK'
  BY <1>1, <1>2 DEF LogInv, LogPost, OtherPost, TypeOK, clients, fault, bio, procs, history
<1>5. bio_pending' = 0 => fsyncing' = None
  BY <1>1 DEF LogInv, TypeOK, OtherPost, bio
<1>6. QED
  BY <1>1, <1>3, <1>4, <1>5 DEF LogInv, LogPost, clients, history

LEMMA BeforeSleepLogInv == LogInv /\ BeforeSleep => LogInv'
<1>1. SUFFICES ASSUME LogInv, BeforeSleep PROVE LogInv'
  OBVIOUS
<1>2. waited' \in None .. 2
  BY <1>1 DEF LogInv, TypeOK, BeforeSleep, Larger, None
<1>3. "poll" \in Phases \ {"exited"} /\ phase # "exited"
  BY <1>1 DEF Phases, BeforeSleep
<1>4. QED
  BY <1>1, <1>2, <1>3, FlushKeepsLogInv DEF BeforeSleep

\* serverCron flushes or leaves everything as it is.
LEMMA CronStepsLogInv == LogInv /\ (CronFlush \/ CronRetry) => LogInv'
<1>1. SUFFICES ASSUME LogInv, CronFlush \/ CronRetry PROVE LogInv'
  OBVIOUS
<1>2. waited' \in None .. 2
  <2>1. waited \in None .. 2
    BY <1>1 DEF LogInv, TypeOK
  <2>2. waited' = None \/ waited' = waited
    BY <1>1 DEF CronFlush, CronRetry
  <2>3. QED
    BY <2>1, <2>2 DEF None
<1>3. {"cronRetry", "beforeSleep"} \subseteq Phases \ {"exited"} /\ phase # "exited"
  BY <1>1 DEF Phases, CronFlush, CronRetry
<1>4. UNCHANGED <<clients, aof_fsync, fault, bio, procs, history>>
  BY <1>1 DEF CronFlush, CronRetry
<1>5. CASE Flush(FALSE, "cronRetry") \/ Flush(FALSE, "beforeSleep")
  <2>1. CASE Flush(FALSE, "cronRetry")
    BY <1>1, <1>2, <1>3, <1>4, <2>1, FlushKeepsLogInv
  <2>2. CASE Flush(FALSE, "beforeSleep")
    BY <1>1, <1>2, <1>3, <1>4, <2>2, FlushKeepsLogInv
  <2>3. QED
    BY <1>5, <2>1, <2>2
<1>6. CASE phase' \in {"cronRetry", "beforeSleep"} /\ UNCHANGED <<aof, disk, bio_pending>>
  <2>1. TypeOK'
    BY <1>1, <1>2, <1>3, <1>4, <1>6 DEF LogInv, TypeOK, clients, fault, bio, procs, history, aof, disk
  <2>2. LogExact'
    BY <1>1, <1>3, <1>4, <1>6 DEF LogInv, LogExact, history, aof, disk
  <2>3. QED
    BY <1>1, <1>4, <1>6, <2>1, <2>2 DEF LogInv, clients, bio, history, disk
<1>7. QED
  BY <1>1, <1>5, <1>6 DEF CronFlush, CronRetry

\* A client has at most as many requests as commands are left.
LEMMA RequestsBound ==
  ASSUME LogInv, NEW c \in Clients, NEW k \in Requests(c)
  PROVE  k \in Nat /\ executed + k <= MaxCmds
<1>1. executed \in Nat /\ executed <= MaxCmds /\ Len(reply[c]) \in Nat
  BY LenProperties DEF LogInv, TypeOK
<1>2. CASE "read" \in fired[c]
  <2>. DEFINE others == {d \in Clients \ {c} : "read" \in fired[d]}
  <2>1. Cardinality(others) \in Nat
    <3>1. others \subseteq Clients
      OBVIOUS
    <3>2. QED
      BY <3>1, ClientsAssumption, FS_Subset, FS_CardinalityType
  <2>2. k \in 1 .. MaxPipeline - Len(reply[c]) /\ executed + k + Cardinality(others) <= MaxCmds
    BY <1>2 DEF Requests
  <2>. HIDE DEF others
  <2>3. QED
    BY <1>1, <2>1, <2>2, MaxCmdsAssumption, PipelineAssumption
<1>3. CASE "read" \notin fired[c]
  BY <1>1, <1>3 DEF Requests
<1>4. QED
  BY <1>2, <1>3

\* What is left of a client's output once some of it was sent.
LEMMA OutputType ==
  ASSUME NEW m \in Nat, NEW n \in Nat, m <= n, NEW s \in Seq(0 .. m),
         NEW k \in Nat, NEW t \in [1 .. k -> 0 .. n]
  PROVE  /\ s \o t \in Seq(0 .. n) /\ Len(s \o t) = Len(s) + k
         /\ \A sent \in 0 .. Len(s \o t) :
              /\ SubSeq(s \o t, sent + 1, Len(s \o t)) \in Seq(0 .. n)
              /\ {(s \o t)[i] : i \in 1 .. sent} \ {0} \subseteq 1 .. n
<1>1. 0 .. m \subseteq 0 .. n
  OBVIOUS
<1>2. s \in Seq(0 .. n)
  BY <1>1, SeqMonotonic
<1>3. t \in Seq(0 .. n) /\ Len(t) = k
  OBVIOUS
<1>4. PICK u \in Seq(0 .. n) : u = s \o t /\ Len(u) = Len(s) + k
  BY <1>2, <1>3, ConcatProperties
<1>5. \A sent \in 0 .. Len(u) :
         /\ SubSeq(u, sent + 1, Len(u)) \in Seq(0 .. n)
         /\ {u[i] : i \in 1 .. sent} \ {0} \subseteq 1 .. n
  <2>1. TAKE sent \in 0 .. Len(u)
  <2>2. SubSeq(u, sent + 1, Len(u)) \in Seq(0 .. n)
    BY CutAndJoin
  <2>3. \A i \in 1 .. sent : u[i] \in 0 .. n
    <3>1. \A i \in 1 .. sent : i \in 1 .. Len(u)
      BY LenProperties
    <3>2. QED
      BY <3>1, ElementOfSeq
  <2>4. QED
    BY <2>2, <2>3
<1>6. QED
  BY <1>4, <1>5

\* What executing commands does to the log.
LEMMA ExecuteLog ==
  ASSUME FlushPre, NEW a \in Nat, Execute(a)
  PROVE  /\ executed' = executed + a
         /\ aof_buf' \in Seq(Nat)
         /\ file \o aof_buf' = Log(0, executed')
         /\ file = SubSeq(Log(0, executed'), 1, Len(file))
<1>1. PICK f \in Seq(Nat) : f = file
  BY DEF FlushPre
<1>2. PICK b \in Seq(Nat) : b = aof_buf
  BY DEF FlushPre
<1>3. PICK l \in Seq(Nat) : l = Log(0, executed) /\ f \o b = l
  BY <1>1, <1>2 DEF FlushPre
<1>4. executed \in Nat /\ executed + a \in Nat /\ executed <= executed + a
  BY DEF FlushPre
<1>5. PICK e \in Seq(Nat) : e = Log(executed, executed + a)
  BY <1>4, LogIsSeq
<1>6. l \o e = Log(0, executed + a)
  BY <1>3, <1>4, <1>5, LogExtends
<1>7. f \o (b \o e) = l \o e /\ b \o e \in Seq(Nat)
  <2>1. (f \o b) \o e = f \o (b \o e)
    BY ConcatAssociative
  <2>2. b \o e \in Seq(Nat)
    BY ConcatProperties
  <2>3. QED
    BY <1>3, <2>1, <2>2
<1>8. executed' = executed + a /\ aof_buf' = b \o e
  BY <1>2, <1>5 DEF Execute
<1>9. PICK r \in Seq(Nat) : r = b \o e /\ f \o r = Log(0, executed')
  BY <1>6, <1>7, <1>8
<1>10. f = SubSeq(f \o r, 1, Len(f))
  BY LeftIsPrefix
<1>11. QED
  BY <1>1, <1>8, <1>9, <1>10

\* What sending a part of an output does.
LEMMA SendReplies ==
  ASSUME LogInv, executed' \in Nat, executed <= executed', executed' <= MaxCmds,
         NEW c \in Clients, NEW output \in Seq(0 .. executed'), NEW sent \in 0 .. Len(output),
         Send(c, output, sent)
  PROVE  /\ acked' \subseteq 1 .. executed'
         /\ reply' \in [Clients -> Seq(0 .. MaxCmds)]
         /\ \A d \in Clients : reply'[d] \in Seq(0 .. executed')
<1>1. executed \in Nat /\ acked \subseteq 1 .. executed /\ reply \in [Clients -> Seq(0 .. MaxCmds)]
  BY DEF LogInv, TypeOK
<1>2. 0 .. executed \subseteq 0 .. executed' /\ 0 .. executed' \subseteq 0 .. MaxCmds
  BY <1>1, MaxCmdsAssumption
<1>3. SubSeq(output, sent + 1, Len(output)) \in Seq(0 .. executed')
  BY CutAndJoin
<1>4. \A i \in 1 .. sent : output[i] \in 0 .. executed'
  BY LenProperties, ElementOfSeq
<1>5. acked' \subseteq 1 .. executed'
  <2>1. acked' = acked \cup ({output[i] : i \in 1 .. sent} \ {0})
    BY DEF Send
  <2>2. {output[i] : i \in 1 .. sent} \ {0} \subseteq 1 .. executed'
    BY <1>1, <1>4
  <2>3. acked \subseteq 1 .. executed'
    BY <1>1
  <2>4. QED
    BY <2>1, <2>2, <2>3
<1>6. \A d \in Clients : reply[d] \in Seq(0 .. executed')
  BY <1>2, SeqMonotonic DEF LogInv
<1>7. \A d \in Clients : reply'[d] \in Seq(0 .. executed')
  BY <1>1, <1>3, <1>6 DEF Send
<1>8. \A d \in Clients : reply'[d] \in Seq(0 .. MaxCmds)
  BY <1>2, <1>7, SeqMonotonic
<1>9. reply' = [d \in Clients |-> reply'[d]]
  BY <1>1 DEF Send
<1>10. QED
  BY <1>5, <1>7, <1>8, <1>9

LEMMA ServeLogInv ==
  ASSUME LogInv, NEW c \in Clients, Serve(c)
  PROVE  LogInv'
<1>1. PICK k \in Requests(c) :
        /\ Execute(Accepted(k))
        /\ \E sent \in IF "write" \in fired[c] THEN 0 .. Len(Output(c, k)) ELSE {0} :
             Send(c, Output(c, k), sent)
  BY DEF Serve
<1>2. k \in Nat /\ executed + k <= MaxCmds /\ executed \in Nat
  BY RequestsBound DEF LogInv, TypeOK
<1>3. Accepted(k) \in {0, k}
  BY DEF Accepted
<1>4. FlushPre /\ phase' = phase /\ phase # "exited"
  BY InvGivesPre DEF Serve
<1>5. /\ executed' = executed + Accepted(k)
      /\ aof_buf' \in Seq(Nat)
      /\ file \o aof_buf' = Log(0, executed')
      /\ file = SubSeq(Log(0, executed'), 1, Len(file))
  BY <1>1, <1>2, <1>3, <1>4, ExecuteLog
<1>6. executed' \in Nat /\ executed <= executed' /\ executed' <= MaxCmds
  <2>1. executed' = executed + 0 \/ executed' = executed + k
    BY <1>3, <1>5
  <2>2. QED
    BY <1>2, <2>1, MaxCmdsAssumption
<1>7. Output(c, k) \in Seq(0 .. executed')
  <2>1. [i \in 1 .. k |-> IF Accepted(k) = 0 THEN 0 ELSE executed + i] \in [1 .. k -> 0 .. executed']
    BY <1>2, <1>3, <1>5
  <2>2. reply[c] \in Seq(0 .. executed)
    BY DEF LogInv
  <2>3. QED
    BY <1>2, <1>6, <2>1, <2>2, OutputType DEF Output
<1>8. /\ acked' \subseteq 1 .. executed'
      /\ reply' \in [Clients -> Seq(0 .. MaxCmds)]
      /\ \A d \in Clients : reply'[d] \in Seq(0 .. executed')
  <2>1. PICK sent \in IF "write" \in fired[c] THEN 0 .. Len(Output(c, k)) ELSE {0} :
          Send(c, Output(c, k), sent)
    BY <1>1
  <2>2. sent \in 0 .. Len(Output(c, k))
    BY <1>7, LenProperties
  <2>3. QED
    BY <1>6, <1>7, <2>1, <2>2, SendReplies
<1>9. contract' \subseteq 1 .. executed'
  <2>1. contract' \subseteq contract \cup (executed + 1 .. executed')
    BY <1>1, <1>5 DEF Execute
  <2>2. contract \subseteq 1 .. executed
    BY DEF LogInv, TypeOK
  <2>3. QED
    BY <1>2, <1>6, <2>1, <2>2
<1>10. fired' \in [Clients -> SUBSET {"read", "write"}]
  BY DEF LogInv, TypeOK, Serve
<1>11. /\ UNCHANGED <<phase, aof_fsync, postponed, fsync_age, aof_last_write_status,
                      aof_current_size, disk, fault, bio_pending, bio, procs, waited>>
  BY DEF Serve
<1>12. TypeOK'
  BY <1>5, <1>6, <1>8, <1>9, <1>10, <1>11 DEF LogInv, TypeOK, disk, fault, bio, procs
<1>13. LogExact'
  BY <1>4, <1>5, <1>11 DEF FlushPre, LogExact, disk
<1>14. QED
  BY <1>6, <1>8, <1>11, <1>12, <1>13 DEF LogInv, disk, bio

\* The steps that leave the log, the replies and the commands alone.
LEMMA OtherStepsLogInv ==
  ASSUME LogInv,
         \/ Poll \/ EventsDone \/ (\E d \in 0 .. 2 : Cron(d))
         \/ (\E p \in Policies : ConfigSetFsync(p)) \/ Shutdown
         \/ BioFsyncStart \/ BioFsyncDone \/ DiskFills \/ DiskFreed \/ ChildStart \/ ChildDone
  PROVE  LogInv'
<1>1. /\ UNCHANGED <<aof_buf, aof_last_write_status, aof_current_size, file, executed, acked, reply>>
      /\ contract' = contract \/ contract' = {}
  BY DEF Poll, EventsDone, Cron, ConfigSetFsync, Shutdown, BioFsyncStart, BioFsyncDone,
         DiskFills, DiskFreed, ChildStart, ChildDone, aof, disk, history, clients
<1>2. phase # "exited" /\ phase' # "exited" /\ phase' \in Phases
  BY DEF LogInv, TypeOK, Phases, Running, Poll, EventsDone, Cron, ConfigSetFsync, Shutdown,
         BioFsyncStart, BioFsyncDone, DiskFills, DiskFreed, ChildStart, ChildDone
<1>3. LogExact'
  BY <1>1, <1>2 DEF LogInv, LogExact
<1>4. fired' \in [Clients -> SUBSET {"read", "write"}]
  BY DEF LogInv, TypeOK, Poll, EventsDone, Cron, ConfigSetFsync, Shutdown,
         BioFsyncStart, BioFsyncDone, DiskFills, DiskFreed, ChildStart, ChildDone, clients
<1>5. /\ Len(file) \in Nat /\ synced \in Nat /\ synced <= Len(file)
      /\ fsyncing \in Nat \cup {None} /\ rewrites \in Nat /\ bio_pending \in 0 .. 1 + rewrites
      /\ bio_pending = 0 => fsyncing = None
  BY LenProperties DEF LogInv, TypeOK
<1>6. /\ synced' \in Nat /\ synced' <= Len(file)
      /\ bio_pending' \in 0 .. 1 + rewrites /\ fsyncing' \in Nat \cup {None}
      /\ bio_pending' = 0 => fsyncing' = None
  <2>1. CASE Shutdown
    <3>1. synced' = Len(file) /\ bio_pending' = bio_pending /\ fsyncing' = fsyncing
      BY <2>1 DEF Shutdown, bio
    <3>2. QED
      BY <1>5, <3>1 DEF None
  <2>2. CASE BioFsyncStart
    <3>1. synced' = synced /\ bio_pending' = bio_pending /\ fsyncing' \in {0, Len(file)} /\ bio_pending > 0
      BY <2>2 DEF BioFsyncStart, disk
    <3>2. QED
      BY <1>5, <3>1 DEF None
  <2>3. CASE BioFsyncDone
    <3>1. fsyncing \in Nat /\ bio_pending \in 1 .. 1 + rewrites
      <4>1. fsyncing # None
        BY <2>3 DEF BioFsyncDone
      <4>2. QED
        BY <1>5, <4>1 DEF None
    <3>2. synced' = Larger(synced, Smaller(fsyncing, Len(file)))
      BY <2>3 DEF BioFsyncDone
    <3>3. synced' \in Nat /\ synced' <= Len(file)
      BY <1>5, <3>1, <3>2 DEF Larger, Smaller
    <3>4. bio_pending' = bio_pending - 1 /\ fsyncing' = None
      BY <2>3, <3>1 DEF BioFsyncDone
    <3>5. QED
      BY <1>5, <3>1, <3>3, <3>4 DEF None
  <2>4. CASE synced' = synced /\ bio_pending' = bio_pending /\ fsyncing' = fsyncing
    BY <1>5, <2>4 DEF None
  <2>5. QED
    BY <2>1, <2>2, <2>3, <2>4
       DEF Poll, EventsDone, Cron, ConfigSetFsync, DiskFills, DiskFreed, ChildStart, ChildDone, disk, bio
<1>7. /\ postponed' \in None .. 2 /\ waited' \in None .. 2 /\ fsync_age' \in 0 .. 1
  <2>1. postponed \in None .. 2 /\ waited \in None .. 2 /\ fsync_age \in 0 .. 1
    BY DEF LogInv, TypeOK
  <2>2. CASE \E d \in 0 .. 2 : Cron(d)
    BY <2>1, <2>2 DEF Cron, Aged, Smaller, None
  <2>3. CASE UNCHANGED <<postponed, waited, fsync_age>>
    BY <2>1, <2>3
  <2>4. QED
    BY <2>2, <2>3 DEF Poll, EventsDone, ConfigSetFsync, Shutdown, BioFsyncStart, BioFsyncDone,
                      DiskFills, DiskFreed, ChildStart, ChildDone, aof
<1>8. /\ aof_fsync' \in Policies /\ disk_full' \in BOOLEAN /\ faults' \in 0 .. MaxFaults
      /\ child' \in BOOLEAN
  <2>1. /\ aof_fsync \in Policies /\ disk_full \in BOOLEAN /\ faults \in 0 .. MaxFaults
        /\ child \in BOOLEAN
    BY DEF LogInv, TypeOK
  <2>2. CASE DiskFills
    <3>1. faults' = faults + 1 /\ faults < MaxFaults /\ faults \in 0 .. MaxFaults
      BY <2>1, <2>2 DEF DiskFills
    <3>2. faults' \in 0 .. MaxFaults
      BY <3>1, MaxFaultsAssumption
    <3>3. QED
      BY <2>1, <2>2, <3>2 DEF DiskFills, procs
  <2>3. CASE faults' = faults
    BY <2>1, <2>3 DEF Poll, EventsDone, Cron, ConfigSetFsync, Shutdown, BioFsyncStart, BioFsyncDone,
                      DiskFills, DiskFreed, ChildStart, ChildDone, fault, procs
  <2>4. QED
    BY <2>2, <2>3 DEF Poll, EventsDone, Cron, ConfigSetFsync, Shutdown, BioFsyncStart, BioFsyncDone,
                      DiskFreed, ChildStart, ChildDone, fault, procs
<1>9. /\ old_jobs' \in Nat /\ rewriting' \in Nat \cup {None}
      /\ rewrites' = rewrites /\ dropped' = dropped
  <2>1. /\ old_jobs \in Nat /\ rewriting \in Nat \cup {None} /\ executed \in Nat
    BY DEF LogInv, TypeOK
  <2>2. old_jobs' = old_jobs \/ old_jobs' = Larger(old_jobs - 1, 0)
    BY DEF Poll, EventsDone, Cron, ConfigSetFsync, Shutdown, BioFsyncStart, BioFsyncDone,
           DiskFills, DiskFreed, ChildStart, ChildDone, bio
  <2>3. rewriting' \in {rewriting, None, executed} /\ rewrites' = rewrites /\ dropped' = dropped
    BY DEF Poll, EventsDone, Cron, ConfigSetFsync, Shutdown, BioFsyncStart, BioFsyncDone,
           DiskFills, DiskFreed, ChildStart, ChildDone, procs
  <2>4. QED
    BY <2>1, <2>2, <2>3 DEF Larger
<1>10. QED
  BY <1>1, <1>2, <1>3, <1>4, <1>6, <1>7, <1>8, <1>9 DEF LogInv, TypeOK

\* The numbers of commands, and how far the log of those executed reaches.
LEMMA Numbers ==
  ASSUME LogInv
  PROVE  /\ executed \in Nat /\ synced \in Nat /\ Len(file) \in Nat
         /\ contract \subseteq Nat /\ acked \subseteq Nat
         /\ \A n \in contract \cup acked : n <= executed
         /\ phase # "exited" => Len(file) <= Rec * executed
         /\ phase # "exited" /\ aof_buf = <<>> => Len(file) = Rec * executed
<1>1. /\ executed \in Nat /\ synced \in Nat /\ Len(file) \in Nat
      /\ contract \subseteq 1 .. executed /\ acked \subseteq 1 .. executed
      /\ file \in Seq(Nat) /\ aof_buf \in Seq(Nat)
  BY LenProperties DEF LogInv, TypeOK
<1>2. phase # "exited" => Len(file) + Len(aof_buf) = Rec * executed
  <2>1. SUFFICES ASSUME phase # "exited" PROVE Len(file) + Len(aof_buf) = Rec * executed
    OBVIOUS
  <2>2. Len(file \o aof_buf) = Len(file) + Len(aof_buf)
    BY <1>1, ConcatProperties
  <2>3. file \o aof_buf = Log(0, executed)
    BY <2>1 DEF LogInv, LogExact
  <2>4. QED
    BY <1>1, <2>2, <2>3, LogFromStart
<1>3. Len(aof_buf) \in Nat /\ (aof_buf = <<>> => Len(aof_buf) = 0)
  BY <1>1, LenProperties, EmptySeq
<1>4. Rec * executed \in Nat
  BY <1>1, Multiples
<1>5. QED
  BY <1>1, <1>2, <1>3, <1>4

\* The rewritten file holds the log of all commands, and aof_buf nothing.
LEMMA RewriteDoneLogInv == LogInv /\ RewriteDone => LogInv'
<1>1. SUFFICES ASSUME LogInv, RewriteDone PROVE LogInv'
  OBVIOUS
<1>2. PICK l \in Seq(Nat) : l = Log(0, executed)
  BY <1>1, LogFromStart DEF LogInv, TypeOK
<1>3. /\ executed \in Nat /\ synced \in Nat /\ Len(file) \in Nat /\ synced <= Len(file)
      /\ rewriting \in Nat /\ rewrites \in Nat /\ bio_pending \in 0 .. 1 + rewrites
      /\ phase = "cronFlush"
  <2>1. rewriting \in Nat \cup {None} /\ rewriting # None
    BY <1>1 DEF LogInv, TypeOK, RewriteDone
  <2>2. QED
    BY <1>1, <2>1, LenProperties DEF LogInv, TypeOK, RewriteDone
<1>4. file' = l /\ aof_buf' = <<>> /\ aof_current_size' = Len(l)
  BY <1>1, <1>2 DEF RewriteDone
<1>5. /\ l \o <<>> = l /\ l = SubSeq(l, 1, Len(l)) /\ Len(l) = Rec * executed
      /\ Len(l) \in Nat /\ <<>> \in Seq(Nat)
  BY <1>2, <1>3, ConcatEmptySeq, SubSeqFull, LenProperties, LogFromStart, EmptySeq
<1>6. synced' \in Nat /\ synced' <= Len(l)
  <2>1. Rec * rewriting \in Nat
    BY <1>3, Multiples
  <2>2. synced' = Len(l) \/ synced' = Smaller(synced, Rec * rewriting)
    BY <1>1, <1>4 DEF RewriteDone, SyncNewFile
  <2>3. synced <= Len(l)
    <3>1. phase # "exited" => Len(file) <= Rec * executed
      BY <1>1, Numbers
    <3>2. QED
      BY <1>3, <1>5, <3>1
  <2>4. QED
    BY <1>3, <1>5, <2>1, <2>2, <2>3 DEF Smaller
<1>7. LogExact'
  <2>1. executed' = executed
    BY <1>1 DEF RewriteDone, history
  <2>2. Log(0, executed') = l
    BY <1>2, <2>1
  <2>3. QED
    BY <1>4, <1>5, <2>2 DEF LogExact
<1>8. /\ bio_pending' \in {bio_pending, bio_pending + 1} /\ old_jobs' = bio_pending
      /\ rewrites' = rewrites + 1
      /\ fsyncing' = IF fsyncing = None THEN None ELSE 0
  BY <1>1 DEF RewriteDone, SyncNewFile
<1>9. bio_pending' \in 0 .. 1 + rewrites' /\ rewrites' \in Nat /\ old_jobs' \in Nat
  BY <1>3, <1>8
<1>10. fsyncing' \in Nat \cup {None} /\ (bio_pending' = 0 => fsyncing' = None)
  <2>1. bio_pending = 0 => fsyncing = None
    BY <1>1 DEF LogInv
  <2>2. QED
    BY <1>3, <1>8, <2>1
<1>11. /\ rewriting' = None /\ child' = FALSE /\ waited' = None /\ dropped' \in BOOLEAN
       /\ UNCHANGED <<phase, clients, aof_fsync, postponed, fsync_age,
                      aof_last_write_status, fault, history>>
  BY <1>1 DEF RewriteDone
<1>12. TypeOK'
  <2>1. waited' \in None .. 2
    BY <1>11 DEF None
  <2>2. QED
    BY <1>1, <1>2, <1>4, <1>5, <1>6, <1>9, <1>10, <1>11, <2>1
       DEF LogInv, TypeOK, clients, fault, history
<1>13. QED
  BY <1>1, <1>4, <1>6, <1>7, <1>10, <1>11, <1>12 DEF LogInv, clients, history

\* In every step, and when nothing of AofFlush changes.
LEMMA NextLogInv == LogInv /\ [Next]_vars => LogInv'
<1>1. SUFFICES ASSUME LogInv, [Next]_vars PROVE LogInv'
  OBVIOUS
<1>2. CASE Next
  <2>1. CASE BeforeSleep
    BY <1>1, <2>1, BeforeSleepLogInv
  <2>2. CASE CronFlush \/ CronRetry
    BY <1>1, <2>2, CronStepsLogInv
  <2>3. CASE \E c \in Clients : Serve(c)
    BY <1>1, <2>3, ServeLogInv
  <2>4. CASE \/ Poll \/ EventsDone \/ (\E d \in 0 .. 2 : Cron(d))
             \/ (\E p \in Policies : ConfigSetFsync(p)) \/ Shutdown
             \/ BioFsyncStart \/ BioFsyncDone \/ DiskFills \/ DiskFreed \/ ChildStart \/ ChildDone
    BY <1>1, <2>4, OtherStepsLogInv
  <2>5. CASE RewriteDone
    BY <1>1, <2>5, RewriteDoneLogInv
  <2>6. QED
    BY <1>2, <2>1, <2>2, <2>3, <2>4, <2>5 DEF Next, Loop
<1>3. CASE UNCHANGED vars
  <2>1. TypeOK'
    BY <1>1, <1>3 DEF LogInv, TypeOK, vars, clients, aof, disk, fault, bio, procs, history
  <2>2. LogExact'
    BY <1>1, <1>3 DEF LogInv, LogExact, vars, aof, disk, history
  <2>3. QED
    BY <1>1, <1>3, <2>1, <2>2 DEF LogInv, vars, clients, disk, bio, history
<1>4. QED
  BY <1>1, <1>2, <1>3

(***************************************************************************)
(* The types of the variables, and that the log is exact: however writes   *)
(* are cut short, truncations fail, flushes are postponed, policies change *)
(* and replies leave, the file followed by aof_buf is the log of the       *)
(* commands executed (flushAppendOnlyFile, aof.c:251).                     *)
(***************************************************************************)
THEOREM LogInvHolds == Safe => []LogInv
<1>1. QED
  BY InitLogInv, NextLogInv, PTL DEF Safe

THEOREM TypeCorrect == Safe => []TypeOK
<1>1. LogInv => TypeOK
  BY DEF LogInv
<1>2. QED
  BY <1>1, LogInvHolds, PTL

THEOREM LogIsExact == Safe => []LogExact
<1>1. LogInv => LogExact
  BY DEF LogInv
<1>2. QED
  BY <1>1, LogInvHolds, PTL

-----------------------------------------------------------------------------
(***************************************************************************)
(* The contract of appendfsync always, for clients that wait for their     *)
(* replies and an fsync that does not fail.                                *)
(***************************************************************************)

\* What is durable stays so, and is never behind what is written.
LEMMA DurableGrows ==
  ASSUME synced \in Nat, synced' \in Nat, synced <= synced'
  PROVE  \A n \in Nat : Durable(n) => Durable(n)'
<1>1. \A n \in Nat : Rec * n \in Nat
  BY Multiples
<1>2. QED
  BY <1>1 DEF Durable

\* A step that neither promises, nor writes, nor answers anything.
LEMMA QuietStep ==
  ASSUME LogInv, PromiseInv, phase # "exited",
         UNCHANGED <<fired, reply, file, acked>>,
         synced' \in Nat, synced <= synced',
         phase' = phase \/ phase' \notin {"poll", "events"},
         contract' = contract \/ contract' = {},
         aof_fsync' # "always" \/ (NoFsyncOnRewrite /\ child') => contract' = {}
  PROVE  PromiseInv'
<1>1. contract \subseteq Nat /\ synced \in Nat
  BY Numbers
<1>2. \A n \in contract : Durable(n) => Durable(n)'
  BY <1>1, DurableGrows
<1>3. \A n \in contract : Written(n)' <=> Written(n)
  BY DEF Written
<1>4. CASE contract' = {}
  <2>1. FiredInv'
    BY <1>4 DEF PromiseInv, FiredInv
  <2>2. QED
    BY <1>4, <2>1 DEF PromiseInv
<1>5. CASE contract' = contract
  <2>1. \A n \in contract' : Written(n)' => Durable(n)'
    BY <1>2, <1>3, <1>5 DEF PromiseInv
  <2>2. phase' = "poll" => \A n \in contract' : Durable(n)'
    BY <1>2, <1>5 DEF PromiseInv
  <2>3. \A n \in acked' \cap contract' : Durable(n)'
    BY <1>2, <1>5 DEF PromiseInv
  <2>4. FiredInv'
    <3>1. \A n \in contract : Rec * n <= synced => Rec * n <= synced'
      BY <1>2 DEF Durable
    <3>2. phase' = "events" => phase = "events" /\ FiredInv
      BY DEF PromiseInv
    <3>3. QED
      BY <1>5, <3>1, <3>2 DEF FiredInv, Durable
  <2>5. QED
    BY <1>5, <2>1, <2>2, <2>3, <2>4 DEF PromiseInv
<1>6. QED
  BY <1>4, <1>5

LEMMA QuietSteps ==
  ASSUME LogInv, PromiseInv, LogInv',
         \/ EventsDone \/ (\E d \in 0 .. 2 : Cron(d))
         \/ (\E p \in Policies : ConfigSetFsync(p)) \/ Shutdown
         \/ BioFsyncStart \/ BioFsyncDone \/ DiskFills \/ DiskFreed \/ ChildStart \/ ChildDone
  PROVE  PromiseInv'
<1>1. UNCHANGED <<fired, reply, file, acked>>
  BY DEF EventsDone, Cron, ConfigSetFsync, Shutdown, BioFsyncStart, BioFsyncDone,
         DiskFills, DiskFreed, ChildStart, ChildDone, disk, history, clients
<1>2. phase # "exited" /\ (phase' = phase \/ phase' \notin {"poll", "events"})
  BY DEF Running, EventsDone, Cron, ConfigSetFsync, Shutdown, BioFsyncStart, BioFsyncDone,
         DiskFills, DiskFreed, ChildStart, ChildDone
<1>3. synced' \in Nat /\ synced <= synced'
  <2>1. synced \in Nat /\ Len(file) \in Nat /\ synced <= Len(file)
    <3>1. synced <= Len(file)
      BY DEF LogInv
    <3>2. QED
      BY <3>1, Numbers
  <2>2. CASE Shutdown
    BY <2>1, <2>2 DEF Shutdown
  <2>3. CASE BioFsyncDone
    <3>1. fsyncing \in Nat \cup {None} /\ fsyncing # None
      BY <2>3 DEF BioFsyncDone, LogInv, TypeOK
    <3>2. fsyncing \in Nat
      BY <3>1
    <3>3. synced' = Larger(synced, Smaller(fsyncing, Len(file)))
      BY <2>3 DEF BioFsyncDone
    <3>4. QED
      BY <2>1, <3>2, <3>3 DEF Larger, Smaller
  <2>4. CASE synced' = synced
    BY <2>1, <2>4
  <2>5. QED
    BY <2>2, <2>3, <2>4
       DEF EventsDone, Cron, ConfigSetFsync, BioFsyncStart, DiskFills, DiskFreed, ChildStart,
           ChildDone, disk
<1>4. /\ contract' = contract \/ contract' = {}
      /\ aof_fsync' # "always" \/ (NoFsyncOnRewrite /\ child') => contract' = {}
  <2>1. aof_fsync # "always" \/ (NoFsyncOnRewrite /\ child) => contract = {}
    BY DEF PromiseInv
  <2>2. CASE \E p \in Policies : ConfigSetFsync(p)
    BY <2>2 DEF ConfigSetFsync
  <2>3. CASE ChildStart
    BY <2>1, <2>3 DEF ChildStart
  <2>4. CASE ChildDone
    BY <2>1, <2>4 DEF ChildDone, history
  <2>5. CASE aof_fsync' = aof_fsync /\ child' = child /\ contract' = contract
    BY <2>1, <2>5
  <2>6. QED
    BY <2>2, <2>3, <2>4, <2>5
       DEF EventsDone, Cron, Shutdown, BioFsyncStart, BioFsyncDone, DiskFills, DiskFreed, procs, history
<1>5. QED
  BY <1>1, <1>2, <1>3, <1>4, QuietStep

\* A flush under the contract leaves everything synced that it has written.
LEMMA FlushPromise ==
  ASSUME LogInv, PromiseInv, phase # "exited", FsyncMayFail = FALSE,
         NEW force \in BOOLEAN, NEW next, next \notin {"exited", "events"}, Flush(force, next),
         UNCHANGED <<clients, aof_fsync, child, history>>
  PROVE  PromiseInv'
<1>1. UNCHANGED <<aof_fsync, child, executed, acked, contract>>
  BY DEF history
<1>2. phase' = next \/ phase' = "exited"
  BY FlushLog
<1>3. CASE contract = {}
  BY <1>1, <1>2, <1>3 DEF PromiseInv, FiredInv
<1>4. CASE contract # {}
  <2>1. aof_fsync = "always" /\ ~(NoFsyncOnRewrite /\ child)
    BY <1>4 DEF PromiseInv
  <2>2. /\ LogPost /\ synced <= synced'
        /\ \/ aof_buf = <<>> /\ file' = file /\ synced' = synced
           \/ phase' = "exited"
           \/ file' = Log(0, executed) /\ synced' = Len(file')
    BY <2>1, FlushLog
  <2>3. /\ synced \in Nat /\ synced' \in Nat
        /\ executed \in Nat /\ contract \subseteq Nat /\ Len(file) \in Nat
        /\ \A n \in contract : n <= executed
        /\ aof_buf = <<>> => Len(file) = Rec * executed
        /\ Len(Log(0, executed)) = Rec * executed
    BY <2>2, Numbers, LogFromStart DEF LogPost
  <2>4. \A n \in contract : Durable(n) => Durable(n)'
    BY <2>2, <2>3, DurableGrows
  <2>5. \A n \in contract : Rec * n \in Nat /\ Rec * n <= Rec * executed
    BY <2>3, Multiples
  <2>6. phase' # "exited" => \A n \in contract : Durable(n)'
    <3>1. CASE aof_buf = <<>> /\ file' = file /\ synced' = synced
      <4>1. \A n \in contract : Written(n)
        BY <2>3, <2>5, <3>1 DEF Written
      <4>2. QED
        BY <2>4, <4>1 DEF PromiseInv
    <3>2. CASE file' = Log(0, executed) /\ synced' = Len(file')
      BY <2>3, <2>5, <3>2 DEF Durable
    <3>3. QED
      BY <2>2, <3>1, <3>2
  <2>7. \A n \in acked' \cap contract' : Durable(n)'
    BY <1>1, <2>4 DEF PromiseInv
  <2>8. phase' # "events" /\ contract' = contract /\ aof_fsync' = "always"
        /\ ~(NoFsyncOnRewrite /\ child')
    BY <1>1, <1>2, <2>1
  <2>9. QED
    BY <2>6, <2>7, <2>8 DEF PromiseInv, FiredInv
<1>5. QED
  BY <1>3, <1>4

LEMMA FlushStepsPromise ==
  ASSUME LogInv, PromiseInv, FsyncMayFail = FALSE, BeforeSleep \/ CronFlush \/ CronRetry
  PROVE  PromiseInv'
<1>1. phase # "exited" /\ UNCHANGED <<clients, aof_fsync, child, history>>
  BY DEF BeforeSleep, CronFlush, CronRetry, procs
<1>2. CASE Flush(FALSE, "poll") \/ Flush(FALSE, "cronRetry") \/ Flush(FALSE, "beforeSleep")
  <2>1. CASE Flush(FALSE, "poll")
    BY <1>1, <2>1, FlushPromise
  <2>2. CASE Flush(FALSE, "cronRetry")
    BY <1>1, <2>2, FlushPromise
  <2>3. CASE Flush(FALSE, "beforeSleep")
    BY <1>1, <2>3, FlushPromise
  <2>4. QED
    BY <1>2, <2>1, <2>2, <2>3
<1>3. CASE phase' \in {"cronRetry", "beforeSleep"} /\ UNCHANGED <<aof, disk, bio_pending>>
  <2>1. UNCHANGED <<fired, reply, file, synced, acked, contract, aof_fsync, child>>
    BY <1>1, <1>3 DEF clients, disk, history
  <2>2. synced \in Nat
    BY DEF LogInv, TypeOK
  <2>3. aof_fsync' # "always" \/ (NoFsyncOnRewrite /\ child') => contract' = {}
    BY <2>1 DEF PromiseInv
  <2>4. QED
    BY <1>1, <1>3, <2>1, <2>2, <2>3, QuietStep
<1>4. QED
  BY <1>2, <1>3 DEF BeforeSleep, CronFlush, CronRetry

\* When the loop has slept, all that is promised is synced.
LEMMA PollPromise ==
  ASSUME LogInv, PromiseInv, MaxPipeline = 1, Poll
  PROVE  PromiseInv'
<1>1. /\ phase = "poll" /\ phase' = "events"
      /\ UNCHANGED <<reply, aof_fsync, child, synced, file, acked, contract>>
      /\ \A c \in Clients : "read" \in fired'[c] => Len(reply[c]) < MaxPipeline
      /\ \A c \in Clients : "write" \in fired'[c] => reply[c] # <<>>
  BY DEF Poll, disk, procs, history
<1>2. \A n \in contract : Durable(n)
  BY <1>1 DEF PromiseInv
<1>3. \A n : Durable(n)' <=> Durable(n)
  BY <1>1 DEF Durable
<1>4. \A c \in Clients : "read" \in fired'[c] => reply'[c] = <<>>
  <2>1. \A c \in Clients : reply[c] \in Seq(0 .. executed)
    BY DEF LogInv
  <2>2. \A c \in Clients : Len(reply[c]) < 1 => reply[c] = <<>>
    BY <2>1, LenProperties, EmptySeq
  <2>3. QED
    BY <1>1, <2>2
<1>5. /\ aof_fsync' # "always" \/ (NoFsyncOnRewrite /\ child') => contract' = {}
      /\ \A n \in acked' \cap contract' : Durable(n)'
      /\ \A n \in contract' : Durable(n)'
  BY <1>1, <1>2, <1>3 DEF PromiseInv
<1>6. FiredInv'
  BY <1>1, <1>2, <1>4 DEF FiredInv, Durable
<1>7. QED
  BY <1>1, <1>5, <1>6 DEF PromiseInv

\* New commands are not written yet, and the replies that leave are of
\* commands that were durable when the client was found writable.
LEMMA ServePromise ==
  ASSUME LogInv, PromiseInv, NEW c \in Clients, Serve(c)
  PROVE  PromiseInv'
<1>1. PICK k \in Requests(c) :
        /\ Execute(Accepted(k))
        /\ \E sent \in IF "write" \in fired[c] THEN 0 .. Len(Output(c, k)) ELSE {0} :
             Send(c, Output(c, k), sent)
  BY DEF Serve
<1>2. PICK sent \in IF "write" \in fired[c] THEN 0 .. Len(Output(c, k)) ELSE {0} :
        Send(c, Output(c, k), sent)
  BY <1>1
<1>3. /\ phase = "events" /\ UNCHANGED <<phase, aof_fsync, file, synced, child>>
      /\ fired' = [fired EXCEPT ![c] = {}]
  BY DEF Serve, disk, procs
<1>4. PICK a \in Nat : /\ a = Accepted(k)
                      /\ executed' = executed + a
                      /\ contract' = IF aof_fsync = "always" /\ ~(NoFsyncOnRewrite /\ child)
                                     THEN contract \cup (executed + 1 .. executed + a)
                                     ELSE contract
  BY <1>1, RequestsBound DEF Accepted, Execute
<1>5. /\ executed \in Nat /\ contract \subseteq Nat /\ acked \subseteq Nat /\ Len(file) \in Nat
      /\ \A n \in contract \cup acked : n <= executed
      /\ Len(file) <= Rec * executed
  BY <1>3, Numbers
<1>6. \A n \in contract' : n \in contract \/ (n \in Nat /\ n > executed)
  BY <1>4, <1>5
<1>7. contract \subseteq contract' /\ \A n \in contract' : n <= executed => n \in contract
  BY <1>4, <1>5, <1>6
<1>8. \A n : (Written(n)' <=> Written(n)) /\ (Durable(n)' <=> Durable(n))
  BY <1>3 DEF Written, Durable
<1>9. \A n \in contract' : Written(n)' => Durable(n)'
  <2>1. \A n \in Nat : n > executed => ~Written(n)
    <3>1. \A n \in Nat : n > executed => Rec * executed < Rec * n /\ Rec * n \in Nat
      BY <1>5, Multiples
    <3>2. Rec * executed \in Nat
      BY <1>5, Multiples
    <3>3. QED
      BY <1>5, <3>1, <3>2 DEF Written
  <2>2. \A n \in contract : Written(n) => Durable(n)
    BY <1>3 DEF PromiseInv
  <2>3. QED
    BY <1>6, <1>8, <2>1, <2>2
<1>10. \A n \in acked' \cap contract' : Durable(n)'
  <2>1. \A n \in acked \cap contract' : Durable(n)
    BY <1>5, <1>7 DEF PromiseInv
  <2>2. CASE sent = 0
    <3>1. acked' = acked
      BY <1>2, <2>2 DEF Send
    <3>2. QED
      BY <1>8, <2>1, <3>1
  <2>3. CASE sent # 0
    <3>1. "write" \in fired[c]
      BY <1>2, <2>3
    <3>2. /\ "read" \notin fired[c]
          /\ \A i \in 1 .. Len(reply[c]) : reply[c][i] \in contract => Durable(reply[c][i])
      BY <1>3, <3>1 DEF PromiseInv, FiredInv
    <3>3. k = 0 /\ a = 0
      BY <1>4, <3>2 DEF Requests, Accepted
    <3>4. Output(c, k) = reply[c]
      <4>1. reply[c] \in Seq(0 .. executed)
        BY DEF LogInv
      <4>2. [i \in 1 .. 0 |-> IF Accepted(0) = 0 THEN 0 ELSE executed + i] = <<>>
        OBVIOUS
      <4>3. QED
        BY <3>3, <4>1, <4>2, ConcatEmptySeq DEF Output
    <3>5. sent \in 0 .. Len(reply[c])
      BY <1>2, <3>1, <3>4
    <3>6. \A n \in acked' \ acked : \E i \in 1 .. Len(reply[c]) : n = reply[c][i]
      <4>1. Len(reply[c]) \in Nat
        BY LenProperties DEF LogInv
      <4>2. acked' = acked \cup ({reply[c][i] : i \in 1 .. sent} \ {0})
        BY <1>2, <3>4 DEF Send
      <4>3. \A i \in 1 .. sent : i \in 1 .. Len(reply[c])
        BY <3>5, <4>1
      <4>4. QED
        BY <4>2, <4>3
    <3>7. contract' = contract
      BY <1>4, <1>5, <3>3
    <3>8. QED
      BY <1>8, <2>1, <3>2, <3>6, <3>7
  <2>4. QED
    BY <2>2, <2>3
<1>11. FiredInv'
  <2>1. SUFFICES ASSUME NEW d \in Clients
                 PROVE  /\ "read" \in fired'[d] => reply'[d] = <<>>
                        /\ "write" \in fired'[d] =>
                             /\ reply'[d] # <<>>
                             /\ \A i \in 1 .. Len(reply'[d]) :
                                  reply'[d][i] \in contract' => Rec * reply'[d][i] <= synced'
    BY DEF FiredInv, Durable
  <2>2. fired \in [Clients -> SUBSET {"read", "write"}] /\ reply \in [Clients -> Seq(0 .. MaxCmds)]
    BY DEF LogInv, TypeOK
  <2>3. CASE d = c
    BY <1>3, <2>2, <2>3
  <2>4. CASE d # c
    <3>1. fired'[d] = fired[d] /\ reply'[d] = reply[d]
      BY <1>2, <1>3, <2>2, <2>4 DEF Send
    <3>2. \A i \in 1 .. Len(reply[d]) : reply[d][i] <= executed
      <4>1. reply[d] \in Seq(0 .. executed)
        BY DEF LogInv
      <4>2. \A i \in 1 .. Len(reply[d]) : reply[d][i] \in 0 .. executed
        BY <4>1, ElementOfSeq
      <4>3. QED
        BY <4>2
    <3>3. /\ "read" \in fired[d] => reply[d] = <<>>
          /\ "write" \in fired[d] =>
               /\ reply[d] # <<>>
               /\ \A i \in 1 .. Len(reply[d]) :
                    reply[d][i] \in contract => Rec * reply[d][i] <= synced
      BY <1>3 DEF PromiseInv, FiredInv, Durable
    <3>4. synced' = synced
      BY <1>3
    <3>5. QED
      BY <1>7, <3>1, <3>2, <3>3, <3>4
  <2>5. QED
    BY <2>3, <2>4
<1>12. aof_fsync' # "always" \/ (NoFsyncOnRewrite /\ child') => contract' = {}
  BY <1>3, <1>4 DEF PromiseInv
<1>13. phase' = "events"
  BY <1>3
<1>14. QED
  BY <1>9, <1>10, <1>11, <1>12, <1>13 DEF PromiseInv

\* Under the contract the rewritten file is synced when it takes the place of
\* the old one, and it holds everything.
LEMMA RewriteDonePromise ==
  ASSUME LogInv, PromiseInv, FsyncMayFail = FALSE, RewriteDone
  PROVE  PromiseInv'
<1>1. /\ phase = "cronFlush" /\ phase' = phase /\ aof_fsync' = aof_fsync
      /\ child /\ child' = FALSE
      /\ contract' = contract /\ acked' = acked /\ executed' = executed
      /\ file' = Log(0, executed) /\ SyncNewFile
  BY DEF RewriteDone, history
<1>2. FiredInv'
  BY <1>1 DEF FiredInv
<1>3. CASE contract = {}
  BY <1>1, <1>2, <1>3 DEF PromiseInv
<1>4. CASE contract # {}
  <2>1. aof_fsync = "always"
    BY <1>4 DEF PromiseInv
  <2>2. synced' = Len(file')
    BY <1>1, <2>1 DEF SyncNewFile
  <2>3. /\ executed \in Nat /\ contract \subseteq Nat /\ \A n \in contract : n <= executed
        /\ Len(Log(0, executed)) = Rec * executed
    BY Numbers, LogFromStart
  <2>4. synced' = Rec * executed
    BY <1>1, <2>2, <2>3
  <2>5. \A n \in contract : Rec * n <= Rec * executed
    BY <2>3, Multiples
  <2>6. \A n \in contract : Durable(n)'
    BY <2>4, <2>5 DEF Durable
  <2>7. QED
    BY <1>1, <1>2, <2>1, <2>6 DEF PromiseInv
<1>5. QED
  BY <1>3, <1>4

LEMMA NextPromise ==
  ASSUME MaxPipeline = 1, FsyncMayFail = FALSE
  PROVE  IInv /\ [Next]_vars => IInv'
<1>1. SUFFICES ASSUME LogInv, PromiseInv, [Next]_vars PROVE IInv'
  BY DEF IInv
<1>2. LogInv'
  BY <1>1, NextLogInv
<1>3. CASE Next
  <2>. SUFFICES PromiseInv'
    BY <1>2 DEF IInv
  <2>1. CASE BeforeSleep \/ CronFlush \/ CronRetry
    BY <1>1, <2>1, FlushStepsPromise
  <2>2. CASE Poll
    BY <1>1, <2>2, PollPromise
  <2>3. CASE \E c \in Clients : Serve(c)
    BY <1>1, <2>3, ServePromise
  <2>4. CASE \/ EventsDone \/ (\E d \in 0 .. 2 : Cron(d))
             \/ (\E p \in Policies : ConfigSetFsync(p)) \/ Shutdown
             \/ BioFsyncStart \/ BioFsyncDone \/ DiskFills \/ DiskFreed \/ ChildStart \/ ChildDone
    BY <1>1, <1>2, <2>4, QuietSteps
  <2>5. CASE RewriteDone
    BY <1>1, <2>5, RewriteDonePromise
  <2>6. QED
    BY <1>3, <2>1, <2>2, <2>3, <2>4, <2>5 DEF Next, Loop
<1>4. CASE UNCHANGED vars
  <2>1. UNCHANGED <<phase, fired, reply, aof_fsync, file, synced, child, acked, contract>>
    BY <1>4 DEF vars, clients, disk, procs, history
  <2>2. PromiseInv'
    BY <1>1, <2>1 DEF PromiseInv, FiredInv, Written, Durable
  <2>3. QED
    BY <1>2, <2>2 DEF IInv
<1>5. QED
  BY <1>1, <1>3, <1>4

(***************************************************************************)
(* "on acknowledged write data is synced on disk" (aof.c:374): when        *)
(* clients wait for the reply to a request before they send the next, and  *)
(* fsync(2) does not fail, no reply under appendfsync always leaves        *)
(* before its data is durable, whatever the policy was before, whatever    *)
(* children run and however writes fail.  Without either assumption it is  *)
(* false: a later request of a pipeline is acknowledged by a write handler *)
(* that runs before the flush, and the result of fsync(2) is not read.     *)
(***************************************************************************)
THEOREM AckedIsDurable ==
  ASSUME MaxPipeline = 1, FsyncMayFail = FALSE
  PROVE  Safe => []AckedDurable
<1>1. Init => IInv
  <2>1. Init => PromiseInv
    BY DEF Init, PromiseInv, FiredInv
  <2>2. QED
    BY <2>1, InitLogInv DEF IInv
<1>2. IInv /\ [Next]_vars => IInv'
  BY NextPromise
<1>3. IInv => AckedDurable
  BY DEF IInv, PromiseInv, AckedDurable
<1>4. QED
  BY <1>1, <1>2, <1>3, PTL DEF Safe

-----------------------------------------------------------------------------
(* How long a flush may be postponed. *)

\* A flush and what the loop notes about the data it leaves: either nothing
\* is left, or the data waits for a postponement, or a write has failed.
LEMMA FlushDelay ==
  ASSUME TypeOK, DelayInv, phase # "exited", phase' # "exited", NEW next, Flush(FALSE, next),
         TypeOK', UNCHANGED aof_fsync,
         waited' = None \/ (aof_buf' # <<>> /\ waited' \in {waited, Larger(waited, 0)})
  PROVE  /\ aof_last_write_status' = "ok" /\ waited' # None => postponed' # None /\ waited' <= postponed'
         /\ aof_last_write_status' = "ok" /\ aof_buf # <<>> => waited' < 2
<1>. USE DEF TypeOK, None
<1>1. CASE aof_buf = <<>> /\ UNCHANGED <<aof, disk, bio_pending>>
  BY <1>1 DEF aof
<1>2. CASE aof_buf # <<>> /\ MayPostpone(FALSE) /\ Postpone
  <2>1. /\ postponed' = IF postponed = None THEN 0 ELSE postponed
        /\ aof_last_write_status' = aof_last_write_status
        /\ postponed' < 2 /\ postponed' # None
    BY <1>2 DEF Postpone, MayPostpone
  <2>2. waited' # None /\ aof_last_write_status = "ok" => waited' <= postponed'
    BY <2>1 DEF DelayInv, Larger
  <2>3. QED
    BY <2>1, <2>2
<1>3. CASE WriteAll
  BY <1>3 DEF WriteAll
<1>4. CASE /\ \E n \in None .. Len(aof_buf) - 1, truncated \in BOOLEAN : WriteShort(n, truncated)
           /\ phase' = IF aof_fsync = "always" THEN "exited" ELSE next
  <2>1. aof_fsync # "always"
    BY <1>4
  <2>2. QED
    BY <1>4, <2>1 DEF WriteShort
<1>5. QED
  BY <1>1, <1>2, <1>3, <1>4 DEF Flush

LEMMA DelayStep == TypeOK /\ TypeOK' /\ DelayInv /\ [Next]_vars => DelayInv'
<1> SUFFICES ASSUME TypeOK, TypeOK', DelayInv, [Next]_vars PROVE DelayInv'
  OBVIOUS
<1>1. CASE BeforeSleep
  <2>1. /\ phase # "exited" /\ Flush(FALSE, "poll") /\ UNCHANGED aof_fsync
        /\ waited' = IF Waiting' THEN Larger(waited, 0) ELSE None
    BY <1>1 DEF BeforeSleep
  <2>2. CASE phase' = "exited"
    BY <2>2 DEF DelayInv, BoundedDelay
  <2>3. CASE phase' # "exited"
    <3>1. /\ aof_last_write_status' = "ok" /\ waited' # None =>
               postponed' # None /\ waited' <= postponed'
          /\ aof_last_write_status' = "ok" /\ aof_buf # <<>> => waited' < 2
      BY <2>1, <2>3, FlushDelay DEF Waiting
    <3>2. aof_buf = <<>> => aof_buf' = <<>>
      BY <2>1 DEF Flush, aof
    <3>3. aof_last_write_status' = "ok" => waited' < 2
      BY <2>1, <3>1, <3>2 DEF None, Waiting
    <3>4. QED
      BY <3>1, <3>3 DEF DelayInv, BoundedDelay
  <2>4. QED
    BY <2>2, <2>3
<1>2. CASE /\ phase = "cronFlush" /\ postponed # None /\ Flush(FALSE, "cronRetry")
           /\ waited' = IF Waiting' THEN waited ELSE None
           /\ UNCHANGED aof_fsync
  <2>1. phase' # "poll"
    BY <1>2 DEF Flush
  <2>2. CASE phase' = "exited"
    BY <2>2 DEF DelayInv, BoundedDelay
  <2>3. CASE phase' # "exited"
    <3>1. aof_last_write_status' = "ok" /\ waited' # None => postponed' # None /\ waited' <= postponed'
      BY <1>2, <2>3, FlushDelay DEF Waiting
    <3>2. QED
      BY <2>1, <3>1 DEF DelayInv, BoundedDelay
  <2>4. QED
    BY <2>2, <2>3
<1>3. CASE /\ phase = "cronRetry" /\ Flush(FALSE, "beforeSleep")
           /\ waited' = IF Waiting' THEN waited ELSE None
           /\ UNCHANGED aof_fsync
  <2>1. phase' # "poll"
    BY <1>3 DEF Flush
  <2>2. CASE phase' = "exited"
    BY <2>2 DEF DelayInv, BoundedDelay
  <2>3. CASE phase' # "exited"
    <3>1. aof_last_write_status' = "ok" /\ waited' # None => postponed' # None /\ waited' <= postponed'
      BY <1>3, <2>3, FlushDelay DEF Waiting
    <3>2. QED
      BY <2>1, <3>1 DEF DelayInv, BoundedDelay
  <2>4. QED
    BY <2>2, <2>3
<1>4. CASE /\ phase \in {"cronFlush", "cronRetry"} /\ phase' \in {"cronRetry", "beforeSleep"}
           /\ UNCHANGED aof /\ waited' = IF Waiting' THEN waited ELSE None
  BY <1>4 DEF DelayInv, BoundedDelay, Waiting, aof
<1>5. ASSUME NEW d \in 0 .. 2, Cron(d) PROVE DelayInv'
  <2>1. /\ phase = "cron" /\ phase' = "cronFlush"
        /\ postponed' = Aged(postponed, d, 2) /\ waited' = Aged(waited, d, 2)
        /\ UNCHANGED aof_last_write_status
    BY <1>5 DEF Cron
  <2>2. postponed \in None .. 2 /\ waited \in None .. 2
    BY DEF TypeOK
  <2>3. QED
    BY <2>1, <2>2 DEF DelayInv, BoundedDelay, Aged, Smaller, None
<1>6. CASE /\ phase # "exited" /\ phase' = phase /\ UNCHANGED <<postponed, aof_last_write_status, waited>>
           /\ aof_fsync' = aof_fsync \/ phase # "poll"
  BY <1>6 DEF DelayInv, BoundedDelay
<1>7. CASE /\ phase # "exited" /\ phase' # "poll" /\ UNCHANGED <<postponed, aof_last_write_status, waited>>
  BY <1>7 DEF DelayInv, BoundedDelay
<1>8. CASE UNCHANGED vars
  BY <1>8 DEF vars, aof, DelayInv, BoundedDelay
<1>9. CASE CronFlush
  BY <1>2, <1>4, <1>9 DEF CronFlush
<1>10. CASE CronRetry
  BY <1>3, <1>4, <1>10 DEF CronRetry
<1>11. CASE Poll \/ (\E c \in Clients : Serve(c)) \/ EventsDone \/ Shutdown
  <2>1. /\ phase \in {"poll", "events", "cronFlush"}
        /\ phase' \in {"events", "beforeSleep", "cron", "cronFlush", "shutdown"}
    BY <1>11 DEF Poll, Serve, EventsDone, Shutdown
  <2>2. UNCHANGED <<postponed, aof_last_write_status, waited>>
    BY <1>11 DEF Poll, Serve, EventsDone, Shutdown, aof
  <2>3. QED
    BY <1>7, <2>1, <2>2
<1>12. CASE \/ (\E p \in Policies : ConfigSetFsync(p)) \/ BioFsyncStart \/ BioFsyncDone
            \/ DiskFills \/ DiskFreed \/ ChildStart \/ ChildDone
  <2>1. /\ phase # "exited" /\ phase' = phase
        /\ aof_fsync' = aof_fsync \/ phase # "poll"
    BY <1>12 DEF ConfigSetFsync, BioFsyncStart, BioFsyncDone, DiskFills, DiskFreed,
         ChildStart, ChildDone, Running
  <2>2. UNCHANGED <<postponed, aof_last_write_status, waited>>
    BY <1>12 DEF ConfigSetFsync, BioFsyncStart, BioFsyncDone, DiskFills, DiskFreed,
         ChildStart, ChildDone, aof
  <2>3. QED
    BY <1>6, <2>1, <2>2
<1>13. CASE RewriteDone
  <2>1. phase' = "cronFlush" /\ waited' = None
    BY <1>13 DEF RewriteDone
  <2>2. QED
    BY <2>1 DEF DelayInv, BoundedDelay
<1>14. QED
  BY <1>1, <1>5, <1>8, <1>9, <1>10, <1>11, <1>12, <1>13 DEF Next, Loop

\* flushAppendOnlyFile never keeps data from the kernel for 2 seconds because
\* a background fsync runs, whatever the policy was before and however
\* CONFIG SET, cron and the loop interleave, unless a write has failed.
THEOREM DelayIsBounded == Safe => []BoundedDelay
<1>1. Init => DelayInv
  BY DEF Init, DelayInv, BoundedDelay
<1>2. DelayInv => BoundedDelay
  BY DEF DelayInv
<1>3. QED
  BY <1>1, <1>2, TypeCorrect, DelayStep, PTL DEF Safe
=============================================================================
