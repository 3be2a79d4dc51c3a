-------------------------- MODULE AofRewriteProofs --------------------------
(***************************************************************************)
(* Proofs about AofRewrite, for every number of databases, commands and    *)
(* inodes, and any number of rewrites, switches and failures.              *)
(***************************************************************************)
EXTENDS AofRewrite, DataInduction

-----------------------------------------------------------------------------
(* Records, and what loading makes of a log. *)

Datasets == [Dbs -> Seq(1 .. MaxCmds)]
States   == [db : Dbs \cup {LastDb(s) : s \in Datasets}, data : Datasets]
Start    == [db |-> 0, data |-> EmptyData]

LEMMA RecordsAre ==
  /\ \A d \in Dbs : Select(d) \in Records /\ Select(d).type = "select" /\ Select(d).db = d
  /\ \A c \in 1 .. MaxCmds : Cmd(c) \in Records /\ Cmd(c).type = "cmd" /\ Cmd(c).cmd = c
  /\ \A s \in Datasets : Snapshot(s) \in Records /\ Snapshot(s).type = "snapshot" /\ Snapshot(s).data = s
BY DEF Records, Select, Cmd, Snapshot, Datasets

LEMMA KindOfRecord ==
  ASSUME NEW r \in Records
  PROVE  /\ r.type \in {"select", "cmd", "snapshot"}
         /\ r.type = "select" => r.db \in Dbs
         /\ r.type = "cmd" => r.cmd \in 1 .. MaxCmds
         /\ r.type = "snapshot" => r.data \in Datasets
BY DEF Records, Datasets

LEMMA StartIs == Start \in States /\ EmptyData \in Datasets
<1>1. EmptyData \in Datasets
  BY EmptySeq DEF EmptyData, Datasets
<1>2. QED
  BY <1>1, DbsAssumption DEF States, Start

LEMMA ApplyIs ==
  ASSUME NEW st \in States, NEW r \in Records
  PROVE  /\ Apply(st, r) \in States
         /\ r.type = "select" => Apply(st, r).db = r.db /\ Apply(st, r).data = st.data
         /\ r.type = "cmd" => /\ Apply(st, r).db = st.db
                              /\ Apply(st, r).data = [st.data EXCEPT ![st.db] = Append(@, r.cmd)]
         /\ r.type = "snapshot" => Apply(st, r).data = r.data
<1>1. st = [db |-> st.db, data |-> st.data] /\ st.data \in Datasets /\ st.db \in Dbs \cup {LastDb(s) : s \in Datasets}
  BY DEF States
<1>2. CASE r.type = "select"
  <2>1. Apply(st, r) = [st EXCEPT !.db = r.db]
    BY <1>2 DEF Apply
  <2>2. Apply(st, r) = [db |-> r.db, data |-> st.data]
    BY <1>1, <2>1
  <2>3. r.db \in Dbs
    BY <1>2, KindOfRecord
  <2>4. QED
    BY <1>1, <1>2, <2>2, <2>3 DEF States
<1>3. CASE r.type = "cmd"
  <2>1. PICK D : D = [st.data EXCEPT ![st.db] = Append(@, r.cmd)]
    OBVIOUS
  <2>2. Apply(st, r) = [st EXCEPT !.data = D]
    BY <1>3, <2>1 DEF Apply
  <2>3. Apply(st, r) = [db |-> st.db, data |-> D]
    BY <1>1, <2>2
  <2>4. r.cmd \in 1 .. MaxCmds
    BY <1>3, KindOfRecord
  <2>5. D \in Datasets
    <3>1. CASE st.db \in Dbs
      <4>1. st.data[st.db] \in Seq(1 .. MaxCmds)
        BY <1>1, <3>1 DEF Datasets
      <4>2. Append(st.data[st.db], r.cmd) \in Seq(1 .. MaxCmds)
        BY <2>4, <4>1, Appended
      <4>3. QED
        BY <1>1, <2>1, <4>2 DEF Datasets
    <3>2. CASE st.db \notin Dbs
      <4>1. D = st.data
        BY <1>1, <2>1, <3>2 DEF Datasets
      <4>2. QED
        BY <1>1, <4>1
    <3>3. QED
      BY <3>1, <3>2
  <2>6. QED
    BY <1>1, <1>3, <2>1, <2>3, <2>5 DEF States
<1>4. CASE r.type = "snapshot"
  <2>1. Apply(st, r) = [db |-> LastDb(r.data), data |-> r.data]
    BY <1>4 DEF Apply
  <2>2. r.data \in Datasets
    BY <1>4, KindOfRecord
  <2>3. QED
    BY <1>4, <2>1, <2>2 DEF States
<1>5. QED
  BY <1>2, <1>3, <1>4, KindOfRecord

LEMMA ApplyEach ==
  ASSUME NEW st \in States
  PROVE  /\ \A d \in Dbs : Apply(st, Select(d)).db = d /\ Apply(st, Select(d)).data = st.data
         /\ \A c \in 1 .. MaxCmds : /\ Apply(st, Cmd(c)).db = st.db
                                    /\ Apply(st, Cmd(c)).data = [st.data EXCEPT ![st.db] = Append(@, c)]
         /\ \A s \in Datasets : Apply(st, Snapshot(s)).data = s
<1>1. ASSUME NEW d \in Dbs PROVE Apply(st, Select(d)).db = d /\ Apply(st, Select(d)).data = st.data
  <2>1. PICK r \in Records : r = Select(d) /\ r.type = "select" /\ r.db = d
    BY RecordsAre
  <2>2. Apply(st, r).db = d /\ Apply(st, r).data = st.data
    BY <2>1, ApplyIs
  <2>3. QED
    BY <2>1, <2>2
<1>2. ASSUME NEW c \in 1 .. MaxCmds
      PROVE  /\ Apply(st, Cmd(c)).db = st.db
             /\ Apply(st, Cmd(c)).data = [st.data EXCEPT ![st.db] = Append(@, c)]
  <2>1. PICK r \in Records : r = Cmd(c) /\ r.type = "cmd" /\ r.cmd = c
    BY RecordsAre
  <2>2. Apply(st, r).db = st.db /\ Apply(st, r).data = [st.data EXCEPT ![st.db] = Append(@, r.cmd)]
    BY <2>1, ApplyIs
  <2>3. QED
    BY <2>1, <2>2
<1>3. ASSUME NEW s \in Datasets PROVE Apply(st, Snapshot(s)).data = s
  <2>1. PICK r \in Records : r = Snapshot(s) /\ r.type = "snapshot" /\ r.data = s
    BY RecordsAre
  <2>2. Apply(st, r).data = s
    BY <2>1, ApplyIs
  <2>3. QED
    BY <2>1, <2>2
<1>4. QED
  BY <1>1, <1>2, <1>3

\* The function that After applies to the length of the log.
Run(log) ==
  CHOOSE state : state = [n \in 0 .. Len(log) |->
    IF n = 0 THEN [db |-> 0, data |-> EmptyData] ELSE Apply(state[n - 1], log[n])]

\* The recursion is well defined.
LEMMA RunDef ==
  ASSUME NEW s \in Seq(Records)
  PROVE  /\ Run(s) \in [0 .. Len(s) -> States]
         /\ Run(s)[0] = Start
         /\ \A n \in 1 .. Len(s) : Run(s)[n] = Apply(Run(s)[n - 1], s[n])
<1>1. PICK m \in Nat : m = Len(s)
  BY LenProperties
<1>2. \A n \in 1 .. m : s[n] \in Records
  BY <1>1, ElementOfSeq
<1>3. \A n \in 1 .. m : \A v \in States : Apply(v, s[n]) \in States
  BY <1>2, ApplyIs
<1>4. Start \in States
  BY StartIs
<1>5. PICK g : g = [n \in 1 .. m |-> [v \in States |-> Apply(v, s[n])]]
  OBVIOUS
<1>6. IsStepOf(g, m, States)
  BY <1>3, <1>5 DEF IsStepOf
<1>7. PICK f : IsRecursionOf(f, g, Start, m, States)
  BY <1>4, <1>6, RecursionExists
<1>8. f = [n \in 0 .. m |-> IF n = 0 THEN Start ELSE Apply(f[n - 1], s[n])]
  <2>1. \A n \in 0 .. m : f[n] = IF n = 0 THEN Start ELSE Apply(f[n - 1], s[n])
    BY <1>5, <1>7 DEF IsRecursionOf
  <2>2. QED
    BY <1>7, <2>1 DEF IsRecursionOf
<1>9. Run(s) = [n \in 0 .. m |-> IF n = 0 THEN Start ELSE Apply(Run(s)[n - 1], s[n])]
  BY <1>1, <1>8 DEF Run, Start
<1>10. PICK h : h = Run(s)
  OBVIOUS
<1>11. \A n \in 0 .. m : h[n] = IF n = 0 THEN Start ELSE Apply(h[n - 1], s[n])
  BY <1>9, <1>10
<1>12. h = [n \in 0 .. m |-> h[n]] /\ h[0] = Start
  BY <1>9, <1>10, <1>11
<1>13. \A n \in 1 .. m : h[n - 1] \in States => h[n] = g[n][h[n - 1]]
  BY <1>5, <1>11
<1>14. IsRecursionOf(h, g, Start, m, States)
  BY <1>4, <1>6, <1>12, <1>13, RecursionMeets
<1>15. \A n \in 1 .. m : h[n - 1] \in States
  BY <1>14 DEF IsRecursionOf
<1>16. QED
  BY <1>1, <1>5, <1>10, <1>14, <1>15 DEF IsRecursionOf

LEMMA AfterEmpty == After(<<>>) = Start
<1>1. <<>> \in Seq(Records) /\ Len(<<>>) = 0
  BY EmptySeq
<1>2. After(<<>>) = Run(<<>>)[0]
  BY <1>1 DEF After, Run
<1>3. QED
  BY <1>1, <1>2, RunDef

\* One record more is applied to what the log before it has made.
LEMMA AfterAppend ==
  ASSUME NEW s \in Seq(Records), NEW r \in Records
  PROVE  After(s) \in States /\ After(Append(s, r)) = Apply(After(s), r)
<1>1. PICK m \in Nat : m = Len(s)
  BY LenProperties
<1>2. PICK t \in Seq(Records) : /\ t = Append(s, r) /\ Len(t) = m + 1
                                /\ t[m + 1] = r /\ \A i \in 1 .. m : t[i] = s[i]
  <2>1. /\ Append(s, r) \in Seq(Records) /\ Len(Append(s, r)) = Len(s) + 1
        /\ Append(s, r)[Len(s) + 1] = r
        /\ \A i \in 1 .. Len(s) : Append(s, r)[i] = s[i]
    BY AppendProperties
  <2>2. QED
    BY <1>1, <2>1
<1>3. PICK f : f = Run(s)
  OBVIOUS
<1>4. PICK h : h = Run(t)
  OBVIOUS
<1>5. /\ f \in [0 .. m -> States] /\ f[0] = Start
      /\ \A n \in 1 .. m : f[n] = Apply(f[n - 1], s[n])
  BY <1>1, <1>3, RunDef
<1>6. h[0] = Start /\ \A n \in 1 .. m + 1 : h[n] = Apply(h[n - 1], t[n])
  BY <1>2, <1>4, RunDef
<1>7. \A n \in 0 .. m : h[n] = f[n]
  <2>. DEFINE T == {n \in 0 .. m : h[n] = f[n]}
  <2>1. 0 \in T
    BY <1>5, <1>6
  <2>2. \A n \in T : n < m => n + 1 \in T
    <3>1. SUFFICES ASSUME NEW n \in T, n < m PROVE n + 1 \in T
      OBVIOUS
    <3>2. n + 1 \in 1 .. m /\ n + 1 \in 1 .. m + 1 /\ (n + 1) - 1 = n /\ h[n] = f[n]
      BY <3>1
    <3>3. h[n + 1] = Apply(h[n], t[n + 1]) /\ f[n + 1] = Apply(f[n], s[n + 1])
      BY <1>5, <1>6, <3>2
    <3>4. QED
      BY <1>2, <3>2, <3>3
  <2>3. T \in SUBSET (0 .. m)
    OBVIOUS
  <2>. HIDE DEF T
  <2>4. \A n \in 0 .. m : n \in T
    BY <2>1, <2>2, <2>3, IntervalInduct
  <2>5. QED
    BY <2>4 DEF T
<1>8. After(s) = f[m] /\ After(t) = h[m + 1]
  BY <1>1, <1>2, <1>3, <1>4 DEF After, Run
<1>9. h[m + 1] = Apply(f[m], r)
  <2>1. m + 1 \in 1 .. m + 1 /\ (m + 1) - 1 = m /\ m \in 0 .. m
    OBVIOUS
  <2>2. QED
    BY <1>2, <1>6, <1>7, <2>1
<1>10. f[m] \in States
  BY <1>5
<1>11. QED
  BY <1>2, <1>8, <1>9, <1>10

LEMMA AfterSnapshot ==
  ASSUME NEW s \in Datasets
  PROVE  <<Snapshot(s)>> \in Seq(Records) /\ Replay(<<Snapshot(s)>>) = s
<1>1. Snapshot(s) \in Records
  BY RecordsAre
<1>2. <<Snapshot(s)>> = Append(<<>>, Snapshot(s)) /\ <<>> \in Seq(Records)
  BY EmptySeq
<1>3. <<Snapshot(s)>> \in Seq(Records) /\ After(<<Snapshot(s)>>) = Apply(Start, Snapshot(s))
  BY <1>1, <1>2, Appended, AfterAppend, AfterEmpty
<1>4. Apply(Start, Snapshot(s)).data = s
  BY StartIs, ApplyEach
<1>5. QED
  BY <1>3, <1>4 DEF Replay

LEMMA ConcatOne ==
  ASSUME NEW log \in Seq(Records), NEW r \in Records
  PROVE  /\ log \o <<r>> = Append(log, r) /\ log \o <<r>> \in Seq(Records)
         /\ <<r>> \in Seq(Records) /\ After(log \o <<r>>) = Apply(After(log), r) /\ After(log) \in States
<1>1. <<r>> \in Seq(Records)
  OBVIOUS
<1>2. log \o <<r>> = Append(log, r)
  BY AppendIsConcat
<1>3. QED
  BY <1>1, <1>2, Appended, AfterAppend

\* A command fed to a log is executed there in its database.
LEMMA FeedIs ==
  ASSUME NEW log \in Seq(Records), NEW d \in Dbs, NEW c \in 1 .. MaxCmds,
         aof_selected_db # NoDb => After(log).db = aof_selected_db
  PROVE  /\ Feed(c, d) \in Seq(Records) /\ log \o Feed(c, d) \in Seq(Records)
         /\ Replay(log \o Feed(c, d)) = [Replay(log) EXCEPT ![d] = Append(@, c)]
         /\ After(log \o Feed(c, d)).db = d
<1>1. Select(d) \in Records /\ Cmd(c) \in Records
  BY RecordsAre
<1>2. PICK st : st = After(log)
  OBVIOUS
<1>3. CASE d = aof_selected_db
  <2>1. Feed(c, d) = <<Cmd(c)>>
    BY <1>3 DEF Feed
  <2>2. d # NoDb
    BY DbsAssumption DEF NoDb
  <2>3. /\ log \o <<Cmd(c)>> \in Seq(Records) /\ <<Cmd(c)>> \in Seq(Records)
        /\ After(log \o <<Cmd(c)>>) = Apply(st, Cmd(c)) /\ st \in States
    BY <1>1, <1>2, ConcatOne
  <2>4. st.db = d
    BY <1>2, <1>3, <2>2
  <2>5. Apply(st, Cmd(c)).db = d /\ Apply(st, Cmd(c)).data = [st.data EXCEPT ![d] = Append(@, c)]
    BY <2>3, <2>4, ApplyEach
  <2>6. QED
    BY <1>2, <2>1, <2>3, <2>5 DEF Replay
<1>4. CASE d # aof_selected_db
  <2>1. Feed(c, d) = <<Select(d), Cmd(c)>>
    BY <1>4 DEF Feed
  <2>2. PICK mid, mst : mid = log \o <<Select(d)>> /\ mst = Apply(st, Select(d))
    OBVIOUS
  <2>3. mid \in Seq(Records) /\ <<Select(d)>> \in Seq(Records) /\ After(mid) = mst /\ st \in States
    BY <1>1, <1>2, <2>2, ConcatOne
  <2>4. /\ mid \o <<Cmd(c)>> \in Seq(Records) /\ <<Cmd(c)>> \in Seq(Records)
        /\ After(mid \o <<Cmd(c)>>) = Apply(mst, Cmd(c)) /\ mst \in States
    BY <1>1, <2>3, ConcatOne
  <2>5. Feed(c, d) = <<Select(d)>> \o <<Cmd(c)>>
    <3>1. PICK x \in Records, y \in Records : x = Select(d) /\ y = Cmd(c)
      BY <1>1
    <3>2. <<x, y>> = Append(<<x>>, y) /\ <<x>> \in Seq(Records)
      OBVIOUS
    <3>3. Append(<<x>>, y) = <<x>> \o <<y>>
      BY <3>2, AppendIsConcat
    <3>4. QED
      BY <2>1, <3>1, <3>2, <3>3
  <2>6. log \o Feed(c, d) = mid \o <<Cmd(c)>>
    BY <2>2, <2>3, <2>4, <2>5, ConcatAssociative
  <2>7. Feed(c, d) \in Seq(Records)
    BY <2>3, <2>4, <2>5, ConcatProperties
  <2>8. mst.db = d /\ mst.data = st.data
    BY <2>2, <2>3, ApplyEach
  <2>9. Apply(mst, Cmd(c)).db = d /\ Apply(mst, Cmd(c)).data = [st.data EXCEPT ![d] = Append(@, c)]
    <3>1. Apply(mst, Cmd(c)).db = mst.db /\ Apply(mst, Cmd(c)).data = [mst.data EXCEPT ![mst.db] = Append(@, c)]
      BY <2>4, ApplyEach
    <3>2. QED
      BY <2>8, <3>1
  <2>10. QED
    BY <1>2, <2>4, <2>6, <2>7, <2>9 DEF Replay
<1>5. QED
  BY <1>3, <1>4

-----------------------------------------------------------------------------
(* The invariant, part by part. *)

LEMMA Types ==
  ASSUME TypeOK
  PROVE  /\ data \in Datasets /\ snapshot \in Datasets /\ executed \in 0 .. MaxCmds /\ MaxCmds \in Nat
         /\ aof_buf \in Seq(Records) /\ child_diff \in Seq(Records) /\ pipe \in Seq(Records)
         /\ rewrite_buf \in Seq(Records)
         /\ files \in [Inodes -> Seq(Records)] /\ \A i \in Inodes : Len(files[i]) \in Nat
         /\ Inodes \subseteq Nat /\ NoFd \notin Inodes /\ Stale \notin Inodes /\ NoDb \notin Dbs
         /\ tmp \in Inodes /\ name \in Inodes
<1>1. \A s \in Seq(Records) : Len(s) \in Nat
  BY LenProperties
<1>2. files \in [Inodes -> Seq(Records)]
  BY DEF TypeOK
<1>3. \A i \in Inodes : Len(files[i]) \in Nat
  BY <1>1, <1>2
<1>4. /\ data \in Datasets /\ snapshot \in Datasets /\ executed \in 0 .. MaxCmds
      /\ aof_buf \in Seq(Records) /\ child_diff \in Seq(Records) /\ pipe \in Seq(Records)
      /\ rewrite_buf \in Seq(Records) /\ tmp \in Inodes /\ name \in Inodes
  BY DEF TypeOK, Datasets
<1>5. /\ Inodes \subseteq Nat /\ NoFd \notin Inodes /\ Stale \notin Inodes /\ NoDb \notin Dbs /\ MaxCmds \in Nat
  BY DbsAssumption, InodesAssumption, BoundsAssumption DEF NoFd, Stale, NoDb
<1>6. QED
  BY <1>2, <1>3, <1>4, <1>5

LEMMA ConcatNothing ==
  ASSUME NEW s \in Seq(Records)
  PROVE  s \o <<>> = s /\ <<>> \o s = s /\ <<>> \in Seq(Records)
BY ConcatEmptySeq, EmptySeq

\* A sequence cut in two.
LEMMA SplitAt ==
  ASSUME NEW s \in Seq(Records), NEW n \in 1 .. Len(s)
  PROVE  /\ SubSeq(s, 1, n) \in Seq(Records) /\ SubSeq(s, n + 1, Len(s)) \in Seq(Records)
         /\ SubSeq(s, 1, n) \o SubSeq(s, n + 1, Len(s)) = s
<1>1. PICK m \in Nat : m = Len(s)
  BY LenProperties
<1>2. PICK a, b : a = SubSeq(s, 1, n) /\ b = SubSeq(s, n + 1, m)
  OBVIOUS
<1>3. n \in 1 .. m /\ \A i \in 1 .. m : s[i] \in Records
  BY <1>1, ElementOfSeq
<1>4. a \in Seq(Records) /\ Len(a) = n /\ \A i \in 1 .. n : a[i] = s[i]
  <2>1. /\ a \in Seq(Records) /\ Len(a) = (IF 1 <= n THEN n - 1 + 1 ELSE 0)
        /\ \A i \in 1 .. n - 1 + 1 : a[i] = s[1 + i - 1]
    BY <1>2, <1>3, SubSeqProperties
  <2>2. QED
    BY <1>3, <2>1
<1>5. b \in Seq(Records) /\ Len(b) = m - n /\ \A i \in 1 .. m - n : b[i] = s[n + i]
  <2>1. \A i \in n + 1 .. m : s[i] \in Records
    BY <1>3
  <2>2. /\ b \in Seq(Records) /\ Len(b) = (IF n + 1 <= m THEN m - (n + 1) + 1 ELSE 0)
        /\ \A i \in 1 .. m - (n + 1) + 1 : b[i] = s[(n + 1) + i - 1]
    BY <1>2, <1>3, <2>1, SubSeqProperties
  <2>3. QED
    BY <1>3, <2>2
<1>6. /\ a \o b \in Seq(Records) /\ Len(a \o b) = m
      /\ \A i \in 1 .. n : (a \o b)[i] = a[i]
      /\ \A i \in 1 .. m - n : (a \o b)[n + i] = b[i]
  <2>1. /\ a \o b \in Seq(Records) /\ Len(a \o b) = Len(a) + Len(b)
        /\ \A i \in 1 .. Len(a) : (a \o b)[i] = a[i]
        /\ \A i \in 1 .. Len(b) : (a \o b)[Len(a) + i] = b[i]
    <3>1. a \in Seq(Records) /\ b \in Seq(Records)
      BY <1>4, <1>5
    <3>2. QED
      BY <3>1, Concatenated
  <2>2. n \in Nat /\ Len(a) = n /\ Len(b) = m - n
    BY <1>3, <1>4, <1>5
  <2>3. QED
    BY <2>1, <2>2
<1>7. \A i \in 1 .. m : (a \o b)[i] = s[i]
  <2>1. TAKE i \in 1 .. m
  <2>2. CASE i <= n
    BY <1>3, <1>4, <1>6, <2>2
  <2>3. CASE i > n
    <3>1. i - n \in 1 .. m - n /\ n + (i - n) = i
      BY <1>3, <2>3
    <3>2. QED
      BY <1>5, <1>6, <3>1
  <2>4. i <= n \/ i > n
    BY <1>3
  <2>5. QED
    BY <2>2, <2>3, <2>4
<1>8. a \o b = s
  BY <1>1, <1>6, <1>7, SeqEqual
<1>9. QED
  BY <1>1, <1>2, <1>4, <1>5, <1>8

\* All of a sequence.
LEMMA WholeSubSeq ==
  ASSUME NEW s \in Seq(Records)
  PROVE  SubSeq(s, 1, Len(s)) = s
<1>1. PICK m \in Nat : m = Len(s)
  BY LenProperties
<1>2. PICK a : a = SubSeq(s, 1, m)
  OBVIOUS
<1>3. \A i \in 1 .. m : s[i] \in Records
  BY <1>1, ElementOfSeq
<1>4. /\ a \in Seq(Records) /\ Len(a) = (IF 1 <= m THEN m - 1 + 1 ELSE 0)
      /\ \A i \in 1 .. m - 1 + 1 : a[i] = s[1 + i - 1]
  BY <1>2, <1>3, SubSeqProperties
<1>5. Len(a) = Len(s) /\ \A i \in 1 .. Len(s) : a[i] = s[i]
  BY <1>1, <1>4
<1>6. QED
  BY <1>1, <1>2, <1>4, <1>5, SeqEqual

LEMMA ConcatIs ==
  ASSUME NEW s \in Seq(Records), NEW t \in Seq(Records)
  PROVE  s \o t \in Seq(Records)
BY ConcatProperties

LEMMA Regroup ==
  \A s, t, u \in Seq(Records) : (s \o t) \o u = s \o (t \o u)
BY ConcatAssociative

\* What the child has, what is under way to it and what is kept for it.
Diff == <<Snapshot(snapshot)>> \o child_diff \o pipe \o rewrite_buf

LEMMA DiffIs ==
  ASSUME TypeOK
  PROVE  /\ Diff \in Seq(Records) /\ <<Snapshot(snapshot)>> \in Seq(Records)
         /\ <<Snapshot(snapshot)>> \o child_diff \in Seq(Records)
         /\ <<Snapshot(snapshot)>> \o child_diff \o pipe \in Seq(Records)
<1>1. PICK s : s = <<Snapshot(snapshot)>>
  OBVIOUS
<1>2. s \in Seq(Records)
  BY <1>1, Types, AfterSnapshot
<1>3. s \o child_diff \in Seq(Records)
  BY <1>2, Types, ConcatIs
<1>4. (s \o child_diff) \o pipe \in Seq(Records)
  BY <1>3, Types, ConcatIs
<1>5. ((s \o child_diff) \o pipe) \o rewrite_buf \in Seq(Records)
  BY <1>4, Types, ConcatIs
<1>6. QED
  BY <1>1, <1>2, <1>3, <1>4, <1>5 DEF Diff

LEMMA ExecutedGrows ==
  ASSUME NEW D \in Datasets, NEW d \in Dbs, NEW n \in Nat, n + 1 \in 1 .. MaxCmds,
         1 .. n \subseteq CmdsIn(D), NEW E, E = [D EXCEPT ![d] = Append(@, n + 1)]
  PROVE  E \in Datasets /\ 1 .. n + 1 \subseteq CmdsIn(E)
<1>1. PICK s, t : s = D[d] /\ t = Append(D[d], n + 1)
  OBVIOUS
<1>2. s \in Seq(1 .. MaxCmds)
  BY <1>1 DEF Datasets
<1>3. /\ t \in Seq(1 .. MaxCmds) /\ Len(s) \in Nat /\ Len(t) = Len(s) + 1
      /\ \A i \in 1 .. Len(s) : t[i] = s[i]
      /\ t[Len(s) + 1] = n + 1
  BY <1>1, <1>2, Appended
<1>4. E = [D EXCEPT ![d] = t]
  BY <1>1
<1>5. E \in Datasets /\ E[d] = t /\ \A e \in Dbs : e # d => E[e] = D[e]
  BY <1>3, <1>4 DEF Datasets
<1>6. ASSUME NEW c \in CmdsIn(D) PROVE c \in CmdsIn(E)
  <2>1. PICK e \in Dbs : \E k \in 1 .. Len(D[e]) : c = D[e][k]
    BY <1>6 DEF CmdsIn
  <2>2. PICK k \in 1 .. Len(D[e]) : c = D[e][k]
    BY <2>1
  <2>3. k \in 1 .. Len(E[e]) /\ c = E[e][k]
    <3>1. CASE e = d
      <4>1. k \in 1 .. Len(s) /\ c = s[k]
        BY <1>1, <2>2, <3>1
      <4>2. k \in 1 .. Len(t) /\ c = t[k]
        BY <1>3, <4>1
      <4>3. QED
        BY <1>5, <3>1, <4>2
    <3>2. CASE e # d
      BY <1>5, <2>2, <3>2
    <3>3. QED
      BY <3>1, <3>2
  <2>4. QED
    BY <2>3 DEF CmdsIn
<1>7. n + 1 \in CmdsIn(E)
  <2>1. Len(s) + 1 \in 1 .. Len(E[d]) /\ n + 1 = E[d][Len(s) + 1]
    BY <1>3, <1>5
  <2>2. PICK k : k = Len(s) + 1
    OBVIOUS
  <2>3. k \in 1 .. Len(E[d]) /\ n + 1 = E[d][k]
    BY <2>1, <2>2
  <2>4. QED
    BY <2>3 DEF CmdsIn
<1>8. \A c \in 1 .. n + 1 : c \in 1 .. n \/ c = n + 1
  OBVIOUS
<1>9. QED
  BY <1>5, <1>6, <1>7, <1>8

\* A command appended to a log that yields the dataset.
LEMMA FedLog ==
  ASSUME NEW log \in Seq(Records), Yields(log), NEW d \in Dbs, NEW c \in 1 .. MaxCmds
  PROVE  /\ Feed(c, d) \in Seq(Records) /\ log \o Feed(c, d) \in Seq(Records)
         /\ Replay(log \o Feed(c, d)) = [data EXCEPT ![d] = Append(@, c)]
         /\ After(log \o Feed(c, d)).db = d
<1>1. aof_selected_db # NoDb => After(log).db = aof_selected_db
  BY DEF Yields
<1>2. Replay(log) = data
  BY DEF Yields
<1>3. QED
  BY <1>1, <1>2, FeedIs

LEMMA StepCommand == \A d \in Dbs : RewriteInv /\ Command(d) => RewriteInv'
<1>1. SUFFICES ASSUME NEW d \in Dbs, RewriteInv, Command(d) PROVE RewriteInv'
  OBVIOUS
<1>2. TypeOK /\ DirInv /\ LogInv /\ ChildInv /\ AckInv
  BY <1>1 DEF RewriteInv
<1>3. PICK c : c = executed + 1
  OBVIOUS
<1>4. executed \in Nat /\ c \in 1 .. MaxCmds /\ c = executed + 1
  BY <1>1, <1>2, <1>3, Types DEF Command
<1>5. data' = [data EXCEPT ![d] = Append(@, c)] /\ executed' = c
  BY <1>1, <1>3 DEF Command
<1>6. data' \in Datasets /\ 1 .. c \subseteq CmdsIn(data')
  BY <1>2, <1>4, <1>5, Types, ExecutedGrows DEF AckInv
<1>7. PICK feed : feed = Feed(c, d)
  OBVIOUS
<1>8. feed \in Seq(Records)
  <2>1. <<>> \in Seq(Records) /\ Select(d) \in Records /\ Cmd(c) \in Records
    BY <1>4, EmptySeq, RecordsAre
  <2>2. <<Cmd(c)>> \in Seq(Records) /\ <<Select(d), Cmd(c)>> \in Seq(Records)
    BY <2>1
  <2>3. QED
    BY <1>7, <2>2 DEF Feed
<1>9. /\ phase' = phase /\ aof_fsync' = aof_fsync /\ UNCHANGED <<aof_state, aof_fd, aof_last_write_status, aof_rewrite_scheduled>>
      /\ UNCHANGED <<child, snapshot, tmp, child_diff, pipe, ask, ack, stop_sending>>
      /\ UNCHANGED <<files, synced, name, names, disk_full, acked>>
      /\ InLoop
      /\ aof_state = "off" => UNCHANGED <<aof_buf, aof_selected_db, rewrite_buf>>
      /\ aof_state # "off" =>
           /\ aof_selected_db' = d
           /\ aof_buf' = IF aof_state = "on" THEN aof_buf \o feed ELSE aof_buf
           /\ rewrite_buf' = IF child # "none" THEN rewrite_buf \o feed ELSE rewrite_buf
  BY <1>1, <1>3, <1>7 DEF Command, BufferDiff, disk, bounds
<1>10. TypeOK'
  <2>1. aof_buf \o feed \in Seq(Records) /\ rewrite_buf \o feed \in Seq(Records)
    BY <1>2, <1>8, Types, ConcatIs
  <2>2. aof_buf' \in Seq(Records) /\ rewrite_buf' \in Seq(Records) /\ aof_selected_db' \in Dbs \cup {NoDb}
    BY <1>2, <1>9, <2>1 DEF TypeOK
  <2>3. executed' \in 0 .. MaxCmds /\ acked' \in 0 .. executed'
    BY <1>2, <1>4, <1>5, <1>9 DEF TypeOK
  <2>4. QED
    BY <1>2, <1>6, <1>9, <2>2, <2>3 DEF TypeOK, Datasets
<1>11. DirInv'
  BY <1>2, <1>9 DEF DirInv, InLoop
<1>12. LogInv'
  <2>1. SUFFICES ASSUME aof_state = "on" PROVE Yields(files[aof_fd] \o aof_buf)'
    BY <1>9 DEF LogInv
  <2>2. PICK file, log : file = files[aof_fd] /\ log = file \o aof_buf
    OBVIOUS
  <2>3. file \in Seq(Records) /\ aof_buf \in Seq(Records)
    BY <1>2, <2>1, <2>2, Types DEF DirInv
  <2>4. log \in Seq(Records) /\ Yields(log)
    BY <1>2, <2>1, <2>2, <2>3, ConcatIs DEF LogInv
  <2>5. Replay(log \o feed) = data' /\ After(log \o feed).db = d
    BY <1>4, <1>5, <1>7, <2>4, FedLog
  <2>6. log \o feed = file \o (aof_buf \o feed)
    <3>1. (file \o aof_buf) \o feed = file \o (aof_buf \o feed)
      BY <1>8, <2>3, ConcatAssociative
    <3>2. QED
      BY <2>2, <3>1
  <2>7. files'[aof_fd'] \o aof_buf' = log \o feed
    BY <1>9, <2>1, <2>2, <2>6
  <2>8. QED
    BY <1>9, <2>1, <2>5, <2>7 DEF Yields
<1>13. ChildInv'
  <2>1. SUFFICES ASSUME aof_state # "off" PROVE ChildInv'
    BY <1>9 DEF ChildInv
  <2>2. ASSUME child \in {"writing", "asked"}
        PROVE  Yields(<<Snapshot(snapshot)>> \o child_diff \o pipe \o rewrite_buf)'
    <3>1. PICK sent : sent = <<Snapshot(snapshot)>> \o child_diff \o pipe
      OBVIOUS
    <3>2. sent \in Seq(Records) /\ sent \o rewrite_buf \in Seq(Records) /\ rewrite_buf \in Seq(Records)
      BY <1>2, <3>1, Types, DiffIs DEF Diff
    <3>3. Yields(sent \o rewrite_buf)
      BY <1>2, <2>1, <2>2, <3>1 DEF ChildInv
    <3>4. Replay((sent \o rewrite_buf) \o feed) = data' /\ After((sent \o rewrite_buf) \o feed).db = d
      BY <1>4, <1>5, <1>7, <3>2, <3>3, FedLog
    <3>5. (sent \o rewrite_buf) \o feed = sent \o (rewrite_buf \o feed)
      BY <1>8, <3>2, ConcatAssociative
    <3>6. (<<Snapshot(snapshot)>> \o child_diff \o pipe \o rewrite_buf)' = (sent \o rewrite_buf) \o feed
      BY <1>9, <2>1, <2>2, <3>1, <3>5
    <3>7. QED
      BY <1>9, <2>1, <3>4, <3>6 DEF Yields
  <2>3. ASSUME child = "ok" /\ phase = "loop" PROVE Yields(files[tmp] \o rewrite_buf)'
    <3>1. PICK file : file = files[tmp]
      OBVIOUS
    <3>2. file \in Seq(Records) /\ rewrite_buf \in Seq(Records)
      BY <1>2, <3>1, Types
    <3>3. Yields(file \o rewrite_buf) /\ file \o rewrite_buf \in Seq(Records)
      BY <1>2, <2>1, <2>3, <3>1, <3>2, ConcatIs DEF ChildInv
    <3>4. Replay((file \o rewrite_buf) \o feed) = data' /\ After((file \o rewrite_buf) \o feed).db = d
      BY <1>4, <1>5, <1>7, <3>3, FedLog
    <3>5. (file \o rewrite_buf) \o feed = file \o (rewrite_buf \o feed)
      BY <1>8, <3>2, ConcatAssociative
    <3>6. (files[tmp] \o rewrite_buf)' = (file \o rewrite_buf) \o feed
      BY <1>9, <2>1, <2>3, <3>1, <3>5
    <3>7. QED
      BY <1>9, <2>1, <3>4, <3>6 DEF Yields
  <2>4. phase \notin {"written", "renamed"}
    BY <1>9 DEF InLoop
  <2>5. QED
    BY <1>9, <2>2, <2>3, <2>4 DEF ChildInv
<1>14. AckInv'
  <2>1. 1 .. executed' \subseteq CmdsIn(data)'
    BY <1>5, <1>6 DEF CmdsIn
  <2>2. QED
    BY <1>2, <1>9, <2>1 DEF AckInv
<1>15. QED
  BY <1>10, <1>11, <1>12, <1>13, <1>14 DEF RewriteInv

\* The commands acknowledged are among those executed.
LEMMA AckedAre ==
  ASSUME RewriteInv
  PROVE  1 .. executed \subseteq CmdsIn(data) /\ 1 .. acked \subseteq CmdsIn(data)
<1>1. executed \in Int /\ acked \in 0 .. executed /\ 1 .. executed \subseteq CmdsIn(data)
  BY Types DEF RewriteInv, TypeOK, AckInv
<1>2. QED
  BY <1>1

LEMMA StepFlush == RewriteInv /\ Flush => RewriteInv'
<1>1. SUFFICES ASSUME RewriteInv, Flush PROVE RewriteInv'
  OBVIOUS
<1>2. TypeOK /\ DirInv /\ LogInv /\ ChildInv /\ AckInv
  BY <1>1 DEF RewriteInv
<1>3. /\ UNCHANGED <<aof_fsync, data, executed, aof_state, aof_fd, aof_selected_db, aof_rewrite_scheduled>>
      /\ UNCHANGED <<child, snapshot, tmp, child_diff, pipe, rewrite_buf, ask, ack, stop_sending>>
      /\ UNCHANGED <<name, names, disk_full, acked>>
      /\ InLoop
  BY <1>1 DEF Flush, main, rewrite, bounds
<1>4. CASE WriteBuf /\ phase' = phase /\ synced' = IF aof_fsync = "always"
                     THEN [synced EXCEPT ![aof_fd] = Len(files'[aof_fd])] ELSE synced
  <2>1. PICK file : file = files[aof_fd] \o aof_buf
    OBVIOUS
  <2>2. /\ aof_fd \in Inodes /\ aof_buf' = <<>> /\ aof_last_write_status' = "ok" /\ phase' = phase
        /\ files' = [files EXCEPT ![aof_fd] = file]
        /\ synced' = IF aof_fsync = "always" THEN [synced EXCEPT ![aof_fd] = Len(files'[aof_fd])] ELSE synced
    BY <1>4, <2>1 DEF WriteBuf, CanWrite
  <2>3. file \in Seq(Records) /\ files[aof_fd] \in Seq(Records) /\ file \o <<>> = file /\ Len(file) \in Nat
    <3>1. files[aof_fd] \in Seq(Records) /\ aof_buf \in Seq(Records)
      BY <1>2, <2>2, Types
    <3>2. file \in Seq(Records)
      BY <2>1, <3>1, ConcatIs
    <3>3. QED
      BY <3>1, <3>2, ConcatNothing, LenProperties
  <2>4. files' \in [Inodes -> Seq(Records)] /\ files'[aof_fd] = file /\ \A i \in Inodes : i # aof_fd => files'[i] = files[i]
    BY <1>2, <2>2, <2>3, Types
  <2>5. TypeOK'
    <3>1. synced' \in [Inodes -> Nat]
      BY <1>2, <2>2, <2>3, <2>4 DEF TypeOK
    <3>2. <<>> \in Seq(Records)
      BY EmptySeq
    <3>3. QED
      BY <1>2, <1>3, <2>2, <2>4, <3>1, <3>2 DEF TypeOK
  <2>6. DirInv'
    BY <1>2, <1>3, <2>2 DEF DirInv, InLoop
  <2>7. LogInv'
    <3>1. SUFFICES ASSUME aof_state = "on" PROVE Yields(files[aof_fd] \o aof_buf)'
      BY <1>3 DEF LogInv
    <3>2. Yields(file)
      BY <1>2, <2>1, <3>1 DEF LogInv
    <3>3. files'[aof_fd'] \o aof_buf' = file
      BY <1>3, <2>2, <2>3, <2>4
    <3>4. QED
      BY <1>3, <3>2, <3>3 DEF Yields
  <2>8. ChildInv'
    <3>1. child = "ok" => files'[tmp] = files[tmp]
      BY <1>2, <1>3, <2>4, Types DEF DirInv, InLoop
    <3>2. phase' \notin {"written", "renamed"}
      BY <1>3, <2>2 DEF InLoop
    <3>3. QED
      BY <1>2, <1>3, <2>2, <3>1, <3>2 DEF ChildInv, Yields
  <2>9. AckInv'
    <3>1. ASSUME aof_fsync = "always", aof_state = "on"
          PROVE  synced'[aof_fd] = Len(file) /\ 1 .. acked \subseteq CmdsIn(Replay(file))
      <4>1. Replay(file) = data
        BY <1>2, <2>1, <3>1 DEF LogInv, Yields
      <4>2. synced'[aof_fd] = Len(file)
        BY <1>2, <2>2, <2>4, <3>1 DEF TypeOK
      <4>3. QED
        BY <1>1, <4>1, <4>2, AckedAre
    <3>2. QED
      BY <1>2, <1>3, <2>4, <3>1 DEF AckInv, CmdsIn
  <2>10. QED
    BY <2>5, <2>6, <2>7, <2>8, <2>9 DEF RewriteInv
<1>5. CASE /\ FlushFails /\ phase' = (IF aof_fsync = "always" THEN "exited" ELSE phase) /\ UNCHANGED synced
  <2>1. /\ UNCHANGED <<aof_buf, files, synced>> /\ aof_last_write_status' = "err"
        /\ phase' \in {phase, "exited"} /\ phase = "loop"
    BY <1>3, <1>5 DEF FlushFails, InLoop
  <2>2. TypeOK'
    BY <1>2, <1>3, <2>1 DEF TypeOK, Phases
  <2>3. DirInv'
    BY <1>2, <1>3, <2>1 DEF DirInv, InLoop
  <2>4. LogInv' /\ ChildInv' /\ AckInv'
    BY <1>2, <1>3, <2>1 DEF LogInv, ChildInv, AckInv, Yields, CmdsIn
  <2>5. QED
    BY <2>2, <2>3, <2>4 DEF RewriteInv
<1>6. QED
  BY <1>1, <1>4, <1>5 DEF Flush

LEMMA StepReply == RewriteInv /\ Reply => RewriteInv'
<1>1. SUFFICES ASSUME RewriteInv, Reply PROVE RewriteInv'
  OBVIOUS
<1>2. TypeOK /\ DirInv /\ LogInv /\ ChildInv /\ AckInv
  BY <1>1 DEF RewriteInv
<1>3. /\ UNCHANGED <<phase, aof_fsync, data, executed>>
      /\ UNCHANGED <<aof_state, aof_fd, aof_buf, aof_selected_db, aof_last_write_status, aof_rewrite_scheduled>>
      /\ UNCHANGED <<child, snapshot, tmp, child_diff, pipe, rewrite_buf, ask, ack, stop_sending>>
      /\ UNCHANGED <<files, synced, name, names, disk_full>>
      /\ acked' = executed /\ aof_fsync = "always" /\ aof_state = "on" /\ aof_buf = <<>>
  BY <1>1 DEF Reply, main, aof, rewrite, disk, bounds
<1>4. Replay(files[aof_fd]) = data
  <2>1. aof_fd \in Inodes
    BY <1>2, <1>3 DEF DirInv
  <2>2. files[aof_fd] \o aof_buf = files[aof_fd]
    BY <1>2, <1>3, <2>1, Types, ConcatNothing
  <2>3. QED
    BY <1>2, <1>3, <2>2 DEF LogInv, Yields
<1>5. TypeOK'
  <2>1. executed \in 0 .. MaxCmds /\ MaxCmds \in Nat
    BY <1>2, Types
  <2>2. acked' \in 0 .. executed'
    BY <1>3, <2>1
  <2>3. QED
    BY <1>2, <1>3, <2>2 DEF TypeOK
<1>6. AckInv'
  BY <1>1, <1>2, <1>3, <1>4, AckedAre DEF AckInv, CmdsIn
<1>7. DirInv' /\ LogInv' /\ ChildInv'
  BY <1>2, <1>3 DEF DirInv, LogInv, ChildInv, Yields, InLoop
<1>8. QED
  BY <1>5, <1>6, <1>7 DEF RewriteInv

\* What a fork does, also when it is CONFIG SET appendonly that asks for it.
LEMMA ForkIs ==
  ASSUME RewriteInv, Fork, InLoop, UNCHANGED <<phase, main, aof_buf, aof_last_write_status, name, names, acked>>,
         disk_full' = disk_full,
         (aof_state' = aof_state /\ aof_fd' = aof_fd) \/ (aof_state = "off" /\ aof_state' = "wait" /\ aof_fd' = name)
  PROVE  RewriteInv'
<1>1. TypeOK /\ DirInv /\ LogInv /\ ChildInv /\ AckInv
  BY DEF RewriteInv
<1>2. /\ child = "none" /\ child' = "writing" /\ snapshot' = data /\ Free # {}
      /\ tmp' = CHOOSE i \in Free : \A j \in Free : i <= j
      /\ files' = [i \in Inodes |-> IF i \in Free THEN <<>> ELSE files[i]]
      /\ synced' = [i \in Inodes |-> IF i \in Free THEN 0 ELSE synced[i]]
      /\ child_diff' = <<>> /\ pipe' = <<>> /\ ask' = FALSE /\ ack' = FALSE /\ stop_sending' = FALSE
      /\ aof_rewrite_scheduled' = FALSE /\ aof_selected_db' = NoDb /\ rewrite_buf' = rewrite_buf
  BY DEF Fork
<1>3. tmp' \in Free
  <2>1. Free \in SUBSET Nat
    BY <1>1, Types DEF Free
  <2>2. \E i \in Free : \A j \in Free : i <= j
    BY <1>2, <2>1, LeastNat
  <2>3. QED
    BY <1>2, <2>2
<1>4. tmp' \in Inodes /\ tmp' # aof_fd /\ tmp' \notin names /\ name \in names
  BY <1>1, <1>3 DEF Free, TypeOK
<1>5. UNCHANGED <<phase, aof_fsync, data, executed, aof_buf, aof_last_write_status, name, names, acked>>
  BY DEF main
<1>6. rewrite_buf = <<>> /\ <<>> \in Seq(Records) /\ data \in Datasets /\ phase = "loop"
  BY <1>1, <1>2, EmptySeq, Types DEF DirInv, InLoop
<1>7. aof_fd \in Inodes => files'[aof_fd] = files[aof_fd] /\ synced'[aof_fd] = synced[aof_fd]
  BY <1>2 DEF Free
<1>8. TypeOK'
  <2>1. files' \in [Inodes -> Seq(Records)] /\ synced' \in [Inodes -> Nat]
    BY <1>1, <1>2, <1>6, Types DEF TypeOK
  <2>2. aof_fd' \in Inodes \cup {NoFd, Stale} /\ aof_state' \in {"off", "wait", "on"}
    BY <1>1, Types DEF TypeOK
  <2>3. child' \in ChildState
    BY <1>2 DEF ChildState
  <2>4. QED
    BY <1>1, <1>2, <1>4, <1>5, <1>6, <2>1, <2>2, <2>3 DEF TypeOK, Datasets
<1>9. DirInv'
  <2>1. aof_state' # "off" => aof_fd' \in Inodes /\ aof_fd' = name
    BY <1>1, <1>6, Types DEF DirInv
  <2>2. aof_state' = "on" => names = {name}
    BY <1>1, <1>6 DEF DirInv
  <2>3. tmp' \notin names \cup {aof_fd'}
    BY <1>4
  <2>4. QED
    BY <1>2, <1>5, <1>6, <2>1, <2>2, <2>3 DEF DirInv, InLoop
<1>10. LogInv'
  <2>1. aof_state' = "on" => aof_state = "on" /\ aof_fd' = aof_fd /\ aof_fd \in Inodes
    BY <1>1 DEF DirInv
  <2>2. QED
    BY <1>1, <1>2, <1>5, <1>7, <2>1 DEF LogInv, Yields
<1>11. ChildInv'
  <2>1. PICK s : s = <<Snapshot(data)>>
    OBVIOUS
  <2>2. s \in Seq(Records) /\ Replay(s) = data
    BY <1>6, <2>1, AfterSnapshot
  <2>3. ((s \o <<>>) \o <<>>) \o <<>> = s
    BY <2>2, ConcatNothing
  <2>4. <<Snapshot(snapshot')>> \o child_diff' \o pipe' \o rewrite_buf' = s
    BY <1>2, <1>6, <2>1, <2>3
  <2>5. QED
    BY <1>2, <1>5, <1>6, <2>2, <2>4 DEF ChildInv, Yields
<1>12. AckInv'
  <2>1. aof_state' = "on" => aof_state = "on" /\ aof_fd' = aof_fd /\ aof_fd \in Inodes
    BY <1>1 DEF DirInv
  <2>2. acked > 0 => aof_state = "on" /\ aof_state' = "on"
    BY <1>1 DEF AckInv
  <2>3. QED
    BY <1>1, <1>5, <1>7, <2>1, <2>2 DEF AckInv, CmdsIn
<1>13. QED
  BY <1>8, <1>9, <1>10, <1>11, <1>12 DEF RewriteInv

\* Steps that change nothing the invariant depends on.
LEMMA StepOthers ==
  RewriteInv /\ (RewriteSchedule \/ DiskFills \/ DiskFreed \/ (RewriteStart /\ ForkFails) \/ UNCHANGED vars) => RewriteInv'
<1>1. SUFFICES ASSUME RewriteInv,
                      RewriteSchedule \/ DiskFills \/ DiskFreed \/ (RewriteStart /\ ForkFails) \/ UNCHANGED vars
               PROVE  RewriteInv'
  OBVIOUS
<1>2. /\ UNCHANGED <<phase, aof_fsync, data, executed>>
      /\ UNCHANGED <<aof_state, aof_fd, aof_buf, aof_selected_db, aof_last_write_status>>
      /\ UNCHANGED <<child, snapshot, tmp, child_diff, pipe, rewrite_buf, ask, ack, stop_sending>>
      /\ UNCHANGED <<files, synced, name, names, acked>>
      /\ aof_rewrite_scheduled' \in {aof_rewrite_scheduled, TRUE} /\ disk_full' \in {disk_full, TRUE, FALSE}
  BY <1>1 DEF RewriteSchedule, RewriteStart, ForkFails, DiskFills, DiskFreed, vars, main, aof, rewrite, disk, bounds
<1>3. TypeOK /\ DirInv /\ LogInv /\ ChildInv /\ AckInv
  BY <1>1 DEF RewriteInv
<1>4. TypeOK'
  BY <1>2, <1>3 DEF TypeOK
<1>5. DirInv' /\ LogInv' /\ ChildInv' /\ AckInv'
  BY <1>2, <1>3 DEF DirInv, LogInv, ChildInv, AckInv, Yields, CmdsIn, InLoop
<1>6. QED
  BY <1>4, <1>5 DEF RewriteInv

LEMMA StepRewriteStart == RewriteInv /\ RewriteStart => RewriteInv'
<1>1. SUFFICES ASSUME RewriteInv, RewriteStart PROVE RewriteInv'
  OBVIOUS
<1>2. /\ InLoop /\ UNCHANGED <<phase, main, aof_buf, aof_last_write_status, name, names, acked>>
      /\ disk_full' = disk_full /\ aof_state' = aof_state /\ aof_fd' = aof_fd
  BY <1>1 DEF RewriteStart
<1>3. CASE Fork
  BY <1>1, <1>2, <1>3, ForkIs
<1>4. CASE ForkFails
  BY <1>1, <1>4, StepOthers
<1>5. QED
  BY <1>1, <1>3, <1>4 DEF RewriteStart

-----------------------------------------------------------------------------
(* The child, and the differences on their way to it. *)

LEMMA StepSendDiff == RewriteInv /\ SendDiff => RewriteInv'
<1>1. SUFFICES ASSUME RewriteInv, SendDiff PROVE RewriteInv'
  OBVIOUS
<1>2. TypeOK /\ DirInv /\ LogInv /\ ChildInv /\ AckInv
  BY <1>1 DEF RewriteInv
<1>3. PICK n \in 1 .. Len(rewrite_buf) : /\ pipe' = pipe \o SubSeq(rewrite_buf, 1, n)
                                         /\ rewrite_buf' = SubSeq(rewrite_buf, n + 1, Len(rewrite_buf))
  BY <1>1 DEF SendDiff
<1>4. /\ UNCHANGED <<phase, aof_fsync, data, executed>>
      /\ UNCHANGED <<aof_state, aof_fd, aof_buf, aof_selected_db, aof_last_write_status, aof_rewrite_scheduled>>
      /\ UNCHANGED <<child, snapshot, tmp, child_diff, ask, ack, stop_sending>>
      /\ UNCHANGED <<files, synced, name, names, acked, disk_full>>
      /\ phase = "loop" /\ child # "none" /\ ~stop_sending
  BY <1>1 DEF SendDiff, main, aof, disk, bounds, InLoop
<1>5. PICK out, kept : out = SubSeq(rewrite_buf, 1, n) /\ kept = SubSeq(rewrite_buf, n + 1, Len(rewrite_buf))
  OBVIOUS
<1>6. out \in Seq(Records) /\ kept \in Seq(Records) /\ out \o kept = rewrite_buf
  <2>1. rewrite_buf \in Seq(Records) /\ Len(rewrite_buf) \in Nat
    BY <1>2, Types, LenProperties
  <2>2. QED
    BY <1>5, <2>1, SplitAt
<1>7. TypeOK'
  <2>1. pipe' \in Seq(Records) /\ rewrite_buf' \in Seq(Records)
    BY <1>2, <1>3, <1>5, <1>6, Types, ConcatIs
  <2>2. QED
    BY <1>2, <1>4, <2>1 DEF TypeOK
<1>8. DirInv'
  BY <1>2, <1>4 DEF DirInv, InLoop
<1>9. ChildInv'
  <2>1. PICK sent : sent = <<Snapshot(snapshot)>> \o child_diff
    OBVIOUS
  <2>2. sent \in Seq(Records) /\ sent \o pipe \in Seq(Records) /\ pipe \in Seq(Records)
    BY <1>2, <2>1, DiffIs, Types
  <2>3. (sent \o (pipe \o out)) \o kept = (sent \o pipe) \o rewrite_buf
    <3>1. sent \o (pipe \o out) = (sent \o pipe) \o out
      BY <1>6, <2>2, Regroup
    <3>2. ((sent \o pipe) \o out) \o kept = (sent \o pipe) \o (out \o kept)
      BY <1>6, <2>2, Regroup
    <3>3. QED
      BY <1>6, <3>1, <3>2
  <2>4. (<<Snapshot(snapshot)>> \o child_diff \o pipe \o rewrite_buf)'
          = <<Snapshot(snapshot)>> \o child_diff \o pipe \o rewrite_buf
    BY <1>3, <1>4, <1>5, <2>1, <2>3
  <2>5. child # "ok"
    BY <1>2, <1>4 DEF DirInv
  <2>6. QED
    BY <1>2, <1>4, <2>4, <2>5 DEF ChildInv, Yields
<1>10. LogInv' /\ AckInv'
  BY <1>2, <1>4 DEF LogInv, AckInv, Yields, CmdsIn
<1>11. QED
  BY <1>7, <1>8, <1>9, <1>10 DEF RewriteInv

LEMMA StepChildReads == RewriteInv /\ ChildReads => RewriteInv'
<1>1. SUFFICES ASSUME RewriteInv, ChildReads PROVE RewriteInv'
  OBVIOUS
<1>2. TypeOK /\ DirInv /\ LogInv /\ ChildInv /\ AckInv
  BY <1>1 DEF RewriteInv
<1>3. /\ UNCHANGED <<phase, aof_fsync, data, executed>>
      /\ UNCHANGED <<aof_state, aof_fd, aof_buf, aof_selected_db, aof_last_write_status, aof_rewrite_scheduled>>
      /\ UNCHANGED <<child, snapshot, tmp, rewrite_buf, ask, ack, stop_sending>>
      /\ UNCHANGED <<files, synced, name, names, acked, disk_full>>
      /\ child = "writing" /\ child_diff' = child_diff \o pipe /\ pipe' = <<>>
  BY <1>1 DEF ChildReads, main, aof, disk, bounds
<1>4. TypeOK'
  <2>1. child_diff' \in Seq(Records) /\ pipe' \in Seq(Records)
    BY <1>2, <1>3, Types, ConcatIs, EmptySeq
  <2>2. QED
    BY <1>2, <1>3, <2>1 DEF TypeOK
<1>5. ChildInv'
  <2>1. PICK s : s = <<Snapshot(snapshot)>>
    OBVIOUS
  <2>2. s \in Seq(Records) /\ child_diff \in Seq(Records) /\ pipe \in Seq(Records)
    BY <1>2, <2>1, DiffIs, Types
  <2>3. (s \o (child_diff \o pipe)) \o <<>> = (s \o child_diff) \o pipe
    <3>1. (s \o child_diff) \o pipe = s \o (child_diff \o pipe)
      BY <2>2, Regroup
    <3>2. child_diff \o pipe \in Seq(Records)
      BY <2>2, ConcatIs
    <3>3. s \o (child_diff \o pipe) \in Seq(Records)
      BY <2>2, <3>2, ConcatIs
    <3>4. (s \o (child_diff \o pipe)) \o <<>> = s \o (child_diff \o pipe)
      BY <3>3, ConcatNothing
    <3>5. QED
      BY <3>1, <3>4
  <2>4. (<<Snapshot(snapshot)>> \o child_diff \o pipe \o rewrite_buf)'
          = <<Snapshot(snapshot)>> \o child_diff \o pipe \o rewrite_buf
    BY <1>3, <2>1, <2>3
  <2>5. QED
    BY <1>2, <1>3, <2>4 DEF ChildInv, Yields
<1>6. DirInv' /\ LogInv' /\ AckInv'
  BY <1>2, <1>3 DEF DirInv, LogInv, AckInv, Yields, CmdsIn, InLoop
<1>7. QED
  BY <1>4, <1>5, <1>6 DEF RewriteInv

\* The handshake, and a child that fails.
LEMMA StepHandshake == RewriteInv /\ (StopSending \/ ChildAsks \/ ChildFails) => RewriteInv'
<1>1. SUFFICES ASSUME RewriteInv, StopSending \/ ChildAsks \/ ChildFails PROVE RewriteInv'
  OBVIOUS
<1>2. TypeOK /\ DirInv /\ LogInv /\ ChildInv /\ AckInv
  BY <1>1 DEF RewriteInv
<1>3. /\ UNCHANGED <<phase, aof_fsync, data, executed>>
      /\ UNCHANGED <<aof_state, aof_fd, aof_buf, aof_selected_db, aof_last_write_status, aof_rewrite_scheduled>>
      /\ UNCHANGED <<snapshot, tmp, child_diff, pipe, rewrite_buf>>
      /\ UNCHANGED <<files, synced, name, names, acked, disk_full>>
  BY <1>1 DEF StopSending, ChildAsks, ChildFails, main, aof, disk, bounds
<1>4. /\ child' = child \/ (child \in {"writing", "asked"} /\ child' \in {"asked", "failed"})
      /\ child # "none"
      /\ (ack' = ack /\ stop_sending' = stop_sending) \/ (ack' /\ stop_sending')
      /\ {ask', ack', stop_sending'} \subseteq BOOLEAN
  BY <1>1, <1>2 DEF StopSending, ChildAsks, ChildFails, TypeOK
<1>5. TypeOK'
  <2>1. child' \in ChildState
    BY <1>2, <1>4 DEF TypeOK, ChildState
  <2>2. QED
    BY <1>2, <1>3, <1>4, <2>1 DEF TypeOK
<1>6. DirInv'
  BY <1>2, <1>3, <1>4 DEF DirInv, InLoop
<1>7. ChildInv'
  BY <1>2, <1>3, <1>4 DEF ChildInv, DirInv, Yields
<1>8. LogInv' /\ AckInv'
  BY <1>2, <1>3 DEF LogInv, AckInv, Yields, CmdsIn
<1>9. QED
  BY <1>5, <1>6, <1>7, <1>8 DEF RewriteInv

\* A write to the temporary file touches no file that is in use.
LEMMA TmpIs ==
  ASSUME RewriteInv, child # "none", phase # "renamed",
         NEW file \in Seq(Records), files' = [files EXCEPT ![tmp] = file]
  PROVE  /\ files' \in [Inodes -> Seq(Records)] /\ files'[tmp] = file /\ Len(file) \in Nat
         /\ aof_fd \in Inodes => aof_fd # tmp /\ files'[aof_fd] = files[aof_fd]
<1>1. TypeOK /\ DirInv
  BY DEF RewriteInv
<1>2. files \in [Inodes -> Seq(Records)] /\ tmp \in Inodes /\ tmp # aof_fd
  BY <1>1, Types DEF DirInv
<1>3. QED
  BY <1>2, LenProperties

LEMMA StepChildFinishes == RewriteInv /\ ChildFinishes => RewriteInv'
<1>1. SUFFICES ASSUME RewriteInv, ChildFinishes PROVE RewriteInv'
  OBVIOUS
<1>2. TypeOK /\ DirInv /\ LogInv /\ ChildInv /\ AckInv
  BY <1>1 DEF RewriteInv
<1>3. PICK s, file : s = <<Snapshot(snapshot)>> /\ file = s \o (child_diff \o pipe)
  OBVIOUS
<1>4. /\ UNCHANGED <<phase, aof_fsync, data, executed>>
      /\ UNCHANGED <<aof_state, aof_fd, aof_buf, aof_selected_db, aof_last_write_status, aof_rewrite_scheduled>>
      /\ UNCHANGED <<snapshot, tmp, rewrite_buf, ask, stop_sending>>
      /\ UNCHANGED <<name, names, acked, disk_full>>
      /\ child = "asked" /\ ack /\ child' = "ok" /\ ack' = FALSE
      /\ child_diff' = child_diff \o pipe /\ pipe' = <<>>
      /\ files' = [files EXCEPT ![tmp] = file]
      /\ synced' = [synced EXCEPT ![tmp] = Len(files'[tmp])]
  BY <1>1, <1>3 DEF ChildFinishes, main, aof, bounds
<1>5. /\ s \in Seq(Records) /\ child_diff \in Seq(Records) /\ pipe \in Seq(Records) /\ file \in Seq(Records)
      /\ child_diff \o pipe \in Seq(Records) /\ file = (s \o child_diff) \o pipe
  <2>1. s \in Seq(Records) /\ child_diff \in Seq(Records) /\ pipe \in Seq(Records)
    BY <1>2, <1>3, DiffIs, Types
  <2>2. child_diff \o pipe \in Seq(Records) /\ s \o (child_diff \o pipe) = (s \o child_diff) \o pipe
    BY <2>1, ConcatIs, ConcatAssociative
  <2>3. QED
    BY <1>3, <2>1, <2>2, ConcatIs
<1>6. phase \notin {"written", "renamed"}
  BY <1>2, <1>4 DEF DirInv
<1>7. /\ files' \in [Inodes -> Seq(Records)] /\ files'[tmp] = file /\ Len(file) \in Nat
      /\ aof_fd \in Inodes => aof_fd # tmp /\ files'[aof_fd] = files[aof_fd]
  BY <1>1, <1>4, <1>5, <1>6, TmpIs
<1>8. TypeOK'
  <2>1. synced' \in [Inodes -> Nat]
    BY <1>2, <1>4, <1>7 DEF TypeOK
  <2>2. child' \in ChildState /\ <<>> \in Seq(Records)
    BY <1>4, EmptySeq DEF ChildState
  <2>3. QED
    BY <1>2, <1>4, <1>5, <1>7, <2>1, <2>2 DEF TypeOK
<1>9. DirInv'
  BY <1>2, <1>4, <1>6 DEF DirInv, InLoop
<1>10. LogInv'
  BY <1>2, <1>4, <1>7 DEF DirInv, LogInv, Yields
<1>11. ChildInv'
  <2>1. file \o rewrite_buf = <<Snapshot(snapshot)>> \o child_diff \o pipe \o rewrite_buf
    BY <1>3, <1>5
  <2>2. aof_state # "off" => Yields(file \o rewrite_buf)
    BY <1>2, <1>4, <2>1 DEF ChildInv
  <2>3. (files[tmp] \o rewrite_buf)' = file \o rewrite_buf
    BY <1>4, <1>7
  <2>4. QED
    BY <1>4, <1>6, <2>2, <2>3 DEF ChildInv, Yields
<1>12. AckInv'
  <2>1. aof_state = "on" => files'[aof_fd] = files[aof_fd] /\ synced'[aof_fd] = synced[aof_fd]
    BY <1>2, <1>4, <1>7 DEF DirInv, TypeOK
  <2>2. QED
    BY <1>2, <1>4, <2>1 DEF AckInv, CmdsIn
<1>13. QED
  BY <1>8, <1>9, <1>10, <1>11, <1>12 DEF RewriteInv

-----------------------------------------------------------------------------
(* backgroundRewriteDoneHandler. *)

\* What the end of the child leaves, whatever the way it was reached.
LEMMA CleanupIs ==
  ASSUME TypeOK, NEW state, Cleanup(state)
  PROVE  /\ phase' = "loop" /\ aof_state' = state /\ child' = "none"
         /\ rewrite_buf' = <<>> /\ ask' = FALSE /\ ack' = FALSE /\ stop_sending' = stop_sending
         /\ {child_diff', pipe', rewrite_buf'} \subseteq Seq(Records)
         /\ snapshot' \in Datasets /\ tmp' \in Inodes
         /\ aof_rewrite_scheduled' \in BOOLEAN
         /\ {ask', ack', stop_sending'} \subseteq BOOLEAN
<1>1. /\ phase' = "loop" /\ aof_state' = state /\ child' = "none"
      /\ child_diff' = <<>> /\ pipe' = <<>> /\ rewrite_buf' = <<>>
      /\ ask' = FALSE /\ ack' = FALSE /\ stop_sending' = stop_sending
      /\ snapshot' = EmptyData /\ tmp' = 0
      /\ aof_rewrite_scheduled' = (aof_rewrite_scheduled \/ state = "wait")
  BY DEF Cleanup, EndChild
<1>2. <<>> \in Seq(Records) /\ EmptyData \in Datasets /\ 0 \in Inodes
  BY EmptySeq, StartIs, InodesAssumption
<1>3. stop_sending \in BOOLEAN /\ aof_rewrite_scheduled \in BOOLEAN
  BY DEF TypeOK
<1>4. aof_rewrite_scheduled' \in BOOLEAN
  BY <1>1, <1>3
<1>5. QED
  BY <1>1, <1>2, <1>3, <1>4

LEMMA StepDoneFailed == RewriteInv /\ DoneFailed => RewriteInv'
<1>1. SUFFICES ASSUME RewriteInv, DoneFailed PROVE RewriteInv'
  OBVIOUS
<1>2. TypeOK /\ DirInv /\ LogInv /\ ChildInv /\ AckInv
  BY <1>1 DEF RewriteInv
<1>3. /\ UNCHANGED <<aof_fsync, data, executed>>
      /\ UNCHANGED <<aof_fd, aof_buf, aof_selected_db, aof_last_write_status>>
      /\ UNCHANGED <<files, synced, name, names, disk_full, acked>>
      /\ Cleanup(aof_state) /\ phase # "renamed"
  BY <1>1 DEF DoneFailed, main, disk, InLoop
<1>4. /\ phase' = "loop" /\ aof_state' = aof_state /\ child' = "none"
      /\ rewrite_buf' = <<>> /\ ask' = FALSE /\ ack' = FALSE /\ stop_sending' = stop_sending
      /\ {child_diff', pipe', rewrite_buf'} \subseteq Seq(Records)
      /\ snapshot' \in Datasets /\ tmp' \in Inodes
      /\ aof_rewrite_scheduled' \in BOOLEAN
      /\ {ask', ack', stop_sending'} \subseteq BOOLEAN
  BY <1>2, <1>3, CleanupIs
<1>5. TypeOK'
  <2>1. child' \in ChildState /\ phase' \in Phases
    BY <1>4 DEF ChildState, Phases
  <2>2. QED
    BY <1>2, <1>3, <1>4, <2>1 DEF TypeOK, Datasets
<1>6. DirInv'
  BY <1>2, <1>3, <1>4 DEF DirInv, InLoop
<1>7. LogInv' /\ ChildInv' /\ AckInv'
  BY <1>2, <1>3, <1>4 DEF LogInv, ChildInv, AckInv, Yields, CmdsIn
<1>8. QED
  BY <1>5, <1>6, <1>7 DEF RewriteInv

LEMMA StepDoneWrite == RewriteInv /\ DoneWrite => RewriteInv'
<1>1. SUFFICES ASSUME RewriteInv, DoneWrite PROVE RewriteInv'
  OBVIOUS
<1>2. TypeOK /\ DirInv /\ LogInv /\ ChildInv /\ AckInv
  BY <1>1 DEF RewriteInv
<1>3. PICK file : file = files[tmp] \o rewrite_buf
  OBVIOUS
<1>4. /\ UNCHANGED <<aof_fsync, data, executed>>
      /\ UNCHANGED <<aof_state, aof_fd, aof_buf, aof_selected_db, aof_last_write_status, aof_rewrite_scheduled>>
      /\ UNCHANGED <<child, snapshot, tmp, child_diff, pipe, rewrite_buf, ask, ack, stop_sending>>
      /\ UNCHANGED <<synced, name, names, disk_full, acked>>
      /\ phase = "loop" /\ child = "ok" /\ phase' = "written"
      /\ files' = [files EXCEPT ![tmp] = file]
  BY <1>1, <1>3 DEF DoneWrite, WriteResidue, main, aof, rewrite, bounds, InLoop
<1>5. file \in Seq(Records)
  <2>1. files[tmp] \in Seq(Records) /\ rewrite_buf \in Seq(Records)
    BY <1>2, Types
  <2>2. QED
    BY <1>3, <2>1, ConcatIs
<1>6. /\ files' \in [Inodes -> Seq(Records)] /\ files'[tmp] = file /\ Len(file) \in Nat
      /\ aof_fd \in Inodes => aof_fd # tmp /\ files'[aof_fd] = files[aof_fd]
  BY <1>1, <1>4, <1>5, TmpIs
<1>7. TypeOK'
  <2>1. phase' \in Phases
    BY <1>4 DEF Phases
  <2>2. QED
    BY <1>2, <1>4, <1>6, <2>1 DEF TypeOK
<1>8. DirInv'
  BY <1>2, <1>4 DEF DirInv, InLoop
<1>9. LogInv' /\ AckInv'
  BY <1>2, <1>4, <1>6 DEF DirInv, LogInv, AckInv, Yields, CmdsIn
<1>10. ChildInv'
  <2>1. aof_state # "off" => Yields(file)
    BY <1>2, <1>3, <1>4 DEF ChildInv
  <2>2. QED
    BY <1>4, <1>6, <2>1 DEF ChildInv, Yields
<1>11. QED
  BY <1>7, <1>8, <1>9, <1>10 DEF RewriteInv

LEMMA StepDoneRename == RewriteInv /\ DoneRename => RewriteInv'
<1>1. SUFFICES ASSUME RewriteInv, DoneRename PROVE RewriteInv'
  OBVIOUS
<1>2. TypeOK /\ DirInv /\ LogInv /\ ChildInv /\ AckInv
  BY <1>1 DEF RewriteInv
<1>3. /\ UNCHANGED <<aof_fsync, data, executed>>
      /\ UNCHANGED <<aof_state, aof_fd, aof_buf, aof_selected_db, aof_last_write_status, aof_rewrite_scheduled>>
      /\ UNCHANGED <<child, snapshot, tmp, child_diff, pipe, rewrite_buf, ask, ack, stop_sending>>
      /\ UNCHANGED <<files, synced, disk_full, acked>>
      /\ phase = "written" /\ phase' = "renamed" /\ name' = tmp
      /\ names' \in {names \cup {tmp}, {tmp}}
  BY <1>1 DEF DoneRename, main, aof, rewrite, bounds
<1>4. TypeOK'
  <2>1. phase' \in Phases /\ tmp \in Inodes
    BY <1>2, <1>3, Types DEF Phases
  <2>2. name' \in names' /\ names' \subseteq Inodes
    BY <1>2, <1>3, <2>1 DEF TypeOK
  <2>3. QED
    BY <1>2, <1>3, <2>1, <2>2 DEF TypeOK
<1>5. DirInv'
  BY <1>2, <1>3 DEF DirInv, InLoop
<1>6. LogInv' /\ ChildInv' /\ AckInv'
  BY <1>2, <1>3 DEF LogInv, ChildInv, AckInv, Yields, CmdsIn
<1>7. QED
  BY <1>4, <1>5, <1>6 DEF RewriteInv

LEMMA StepDoneSwitch == RewriteInv /\ DoneSwitch => RewriteInv'
<1>1. SUFFICES ASSUME RewriteInv, DoneSwitch PROVE RewriteInv'
  OBVIOUS
<1>2. TypeOK /\ DirInv /\ LogInv /\ ChildInv /\ AckInv
  BY <1>1 DEF RewriteInv
<1>3. PICK state : state = IF aof_state = "wait" THEN "on" ELSE aof_state
  OBVIOUS
<1>4. /\ UNCHANGED <<aof_fsync, data, executed>>
      /\ UNCHANGED <<aof_last_write_status, files, name, disk_full, acked>>
      /\ phase = "renamed" /\ Cleanup(state)
  BY <1>1, <1>3 DEF DoneSwitch, main, bounds
<1>5. /\ phase' = "loop" /\ aof_state' = state /\ child' = "none"
      /\ rewrite_buf' = <<>> /\ ask' = FALSE /\ ack' = FALSE /\ stop_sending' = stop_sending
      /\ {child_diff', pipe', rewrite_buf'} \subseteq Seq(Records)
      /\ snapshot' \in Datasets /\ tmp' \in Inodes
      /\ aof_rewrite_scheduled' \in BOOLEAN
      /\ {ask', ack', stop_sending'} \subseteq BOOLEAN
  BY <1>2, <1>4, CleanupIs
<1>6. /\ state \in {"off", "wait", "on"} /\ (state = "off" <=> aof_state = "off")
      /\ aof_state = "on" => state = "on" /\ state # "wait"
  BY <1>2, <1>3 DEF TypeOK
<1>7. child' \in ChildState /\ phase' \in Phases
  BY <1>5 DEF ChildState, Phases
<1>8. CASE aof_fd = NoFd
  <2>1. UNCHANGED <<aof_fd, aof_buf, aof_selected_db, synced, names>>
    BY <1>1, <1>8 DEF DoneSwitch
  <2>2. aof_state = "off" /\ aof_state' = "off"
    BY <1>2, <1>5, <1>6, <1>8, Types DEF DirInv
  <2>3. TypeOK'
    BY <1>2, <1>4, <1>5, <1>7, <2>1, <2>2 DEF TypeOK, Datasets
  <2>4. DirInv'
    BY <1>2, <1>4, <1>5, <2>2 DEF DirInv, InLoop
  <2>5. LogInv' /\ ChildInv' /\ AckInv'
    BY <1>2, <1>4, <2>2 DEF LogInv, ChildInv, AckInv, CmdsIn
  <2>6. QED
    BY <2>3, <2>4, <2>5 DEF RewriteInv
<1>9. CASE aof_fd # NoFd
  <2>1. /\ aof_fd' = tmp /\ aof_selected_db' = NoDb /\ aof_buf' = <<>> /\ names' = {tmp}
        /\ synced' = IF aof_fsync = "always" THEN [synced EXCEPT ![tmp] = Len(files[tmp])] ELSE synced
    BY <1>1, <1>9 DEF DoneSwitch, SwitchFd
  <2>2. tmp \in Inodes /\ name = tmp /\ files[tmp] \in Seq(Records) /\ Len(files[tmp]) \in Nat
    BY <1>2, <1>4, Types DEF DirInv
  <2>3. synced' \in [Inodes -> Nat] /\ (aof_fsync = "always" => synced'[tmp] = Len(files[tmp]))
    BY <1>2, <2>1, <2>2 DEF TypeOK
  <2>4. aof_state # "off" => Replay(files[tmp]) = data
    BY <1>2, <1>4 DEF ChildInv, Yields
  <2>5. TypeOK'
    <3>1. <<>> \in Seq(Records)
      BY EmptySeq
    <3>2. QED
      BY <1>2, <1>4, <1>5, <1>6, <1>7, <2>1, <2>2, <2>3, <3>1 DEF TypeOK, Datasets
  <2>6. DirInv'
    BY <1>2, <1>4, <1>5, <1>6, <2>1, <2>2 DEF DirInv, InLoop
  <2>7. LogInv'
    <3>1. files[tmp] \o <<>> = files[tmp]
      BY <2>2, ConcatNothing
    <3>2. QED
      BY <1>4, <1>5, <1>6, <2>1, <2>4, <3>1 DEF LogInv, Yields
  <2>8. ChildInv'
    BY <1>5 DEF ChildInv
  <2>9. AckInv'
    <3>1. 1 .. acked \subseteq CmdsIn(data) /\ 1 .. executed \subseteq CmdsIn(data)
      BY <1>1, AckedAre
    <3>2. acked > 0 => aof_fsync = "always" /\ aof_state' = "on"
      BY <1>2, <1>5, <1>6 DEF AckInv
    <3>3. QED
      BY <1>4, <1>5, <1>6, <2>1, <2>3, <2>4, <3>1, <3>2 DEF AckInv, CmdsIn
  <2>10. QED
    BY <2>5, <2>6, <2>7, <2>8, <2>9 DEF RewriteInv
<1>10. QED
  BY <1>8, <1>9

-----------------------------------------------------------------------------
(* CONFIG SET appendonly, and the shutdown. *)

LEMMA StepStartAppendOnly == RewriteInv /\ StartAppendOnly => RewriteInv'
<1>1. SUFFICES ASSUME RewriteInv, StartAppendOnly PROVE RewriteInv'
  OBVIOUS
<1>2. TypeOK /\ DirInv /\ LogInv /\ ChildInv /\ AckInv
  BY <1>1 DEF RewriteInv
<1>3. /\ InLoop /\ aof_state = "off" /\ disk_full' = disk_full
      /\ UNCHANGED <<phase, main, aof_buf, aof_last_write_status, name, names, acked>>
  BY <1>1 DEF StartAppendOnly
<1>4. CASE Enable
  <2>1. Fork /\ aof_state' = "wait" /\ aof_fd' = name
    BY <1>4 DEF Enable
  <2>2. QED
    BY <1>1, <1>3, <2>1, ForkIs
<1>5. CASE /\ aof_fd' = Stale
           /\ UNCHANGED <<aof_state, rewrite, files, synced, aof_rewrite_scheduled, aof_selected_db>>
  <2>1. /\ UNCHANGED <<phase, aof_fsync, data, executed>>
        /\ UNCHANGED <<aof_state, aof_buf, aof_selected_db, aof_last_write_status, aof_rewrite_scheduled>>
        /\ UNCHANGED <<child, snapshot, tmp, child_diff, pipe, rewrite_buf, ask, ack, stop_sending>>
        /\ UNCHANGED <<files, synced, name, names, acked, disk_full>>
        /\ aof_fd' = Stale /\ aof_state = "off" /\ phase = "loop"
    BY <1>3, <1>5 DEF main, rewrite, InLoop
  <2>2. TypeOK'
    BY <1>2, <2>1 DEF TypeOK
  <2>3. DirInv'
    <3>1. tmp # Stale
      BY <1>2, Types
    <3>2. QED
      BY <1>2, <2>1, <3>1 DEF DirInv, InLoop
  <2>4. LogInv' /\ ChildInv' /\ AckInv'
    BY <1>2, <2>1 DEF LogInv, ChildInv, AckInv, CmdsIn
  <2>5. QED
    BY <2>2, <2>3, <2>4 DEF RewriteInv
<1>6. QED
  BY <1>1, <1>4, <1>5 DEF StartAppendOnly, ForkFails

LEMMA StepStopAppendOnly == RewriteInv /\ StopAppendOnly => RewriteInv'
<1>1. SUFFICES ASSUME RewriteInv, StopAppendOnly PROVE RewriteInv'
  OBVIOUS
<1>2. TypeOK /\ DirInv /\ LogInv /\ ChildInv /\ AckInv
  BY <1>1 DEF RewriteInv
<1>3. /\ UNCHANGED <<phase, aof_fsync, data, executed, aof_rewrite_scheduled, name, disk_full>>
      /\ phase = "loop" /\ aof_state # "off" /\ aof_state' = "off" /\ aof_fd' = NoFd
      /\ aof_selected_db' = NoDb /\ names' = {name} /\ acked' = 0
      /\ synced' = [synced EXCEPT ![aof_fd] = Len(files'[aof_fd])]
  BY <1>1 DEF StopAppendOnly, main, InLoop
<1>4. aof_fd \in Inodes /\ name = aof_fd
  BY <1>2, <1>3 DEF DirInv
<1>5. /\ aof_buf' \in Seq(Records) /\ files' \in [Inodes -> Seq(Records)]
      /\ aof_last_write_status' \in {"ok", "err"}
  <2>1. CASE UNCHANGED <<aof_buf, files, aof_last_write_status>>
    BY <1>2, <2>1 DEF TypeOK
  <2>2. CASE WriteBuf
    <3>1. PICK file : file = files[aof_fd] \o aof_buf
      OBVIOUS
    <3>2. files[aof_fd] \in Seq(Records) /\ aof_buf \in Seq(Records)
      BY <1>2, <1>4, Types
    <3>3. file \in Seq(Records) /\ <<>> \in Seq(Records)
      BY <3>1, <3>2, ConcatIs, EmptySeq
    <3>4. files' = [files EXCEPT ![aof_fd] = file] /\ aof_buf' = <<>> /\ aof_last_write_status' = "ok"
      BY <2>2, <3>1 DEF WriteBuf
    <3>5. QED
      BY <1>2, <3>3, <3>4, Types
  <2>3. CASE FlushFails
    BY <1>2, <2>3 DEF FlushFails, TypeOK
  <2>4. QED
    BY <1>1, <2>1, <2>2, <2>3 DEF StopAppendOnly
<1>6. synced' \in [Inodes -> Nat]
  <2>1. files'[aof_fd] \in Seq(Records)
    BY <1>4, <1>5
  <2>2. Len(files'[aof_fd]) \in Nat
    BY <2>1, LenProperties
  <2>3. QED
    BY <1>2, <1>3, <2>2 DEF TypeOK
<1>7. /\ child' = "none" /\ rewrite_buf' = <<>>
      /\ {child_diff', pipe', rewrite_buf'} \subseteq Seq(Records)
      /\ snapshot' \in Datasets /\ tmp' \in Inodes /\ {ask', ack', stop_sending'} \subseteq BOOLEAN
      /\ ack' => stop_sending'
  <2>1. CASE child # "none"
    <3>1. /\ child' = "none" /\ child_diff' = <<>> /\ pipe' = <<>> /\ rewrite_buf' = <<>>
          /\ ask' = FALSE /\ ack' = FALSE /\ stop_sending' = stop_sending
          /\ snapshot' = EmptyData /\ tmp' = 0
      BY <1>1, <2>1 DEF StopAppendOnly, EndChild
    <3>2. <<>> \in Seq(Records) /\ EmptyData \in Datasets /\ 0 \in Inodes
      BY EmptySeq, StartIs, InodesAssumption
    <3>3. stop_sending \in BOOLEAN
      BY <1>2 DEF TypeOK
    <3>4. QED
      BY <3>1, <3>2, <3>3
  <2>2. CASE child = "none"
    <3>1. UNCHANGED <<child, snapshot, tmp, child_diff, pipe, rewrite_buf, ask, ack, stop_sending>>
      BY <1>1, <2>2 DEF StopAppendOnly, rewrite
    <3>2. rewrite_buf = <<>> /\ (ack => stop_sending)
      BY <1>2, <1>3, <2>2 DEF DirInv, InLoop
    <3>3. QED
      BY <1>2, <2>2, <3>1, <3>2 DEF TypeOK, Datasets
  <2>3. QED
    BY <2>1, <2>2
<1>8. TypeOK'
  <2>1. child' \in ChildState
    BY <1>7 DEF ChildState
  <2>2. name' \in names' /\ names' \subseteq Inodes
    BY <1>2, <1>3, Types
  <2>3. acked' \in 0 .. executed'
    BY <1>2, <1>3, Types
  <2>4. QED
    BY <1>2, <1>3, <1>5, <1>6, <1>7, <2>1, <2>2, <2>3 DEF TypeOK, Datasets
<1>9. DirInv'
  BY <1>3, <1>7 DEF DirInv, InLoop
<1>10. LogInv' /\ ChildInv'
  BY <1>3 DEF LogInv, ChildInv
<1>11. AckInv'
  BY <1>2, <1>3 DEF AckInv, CmdsIn
<1>12. QED
  BY <1>8, <1>9, <1>10, <1>11 DEF RewriteInv

LEMMA StepShutdown == RewriteInv /\ Shutdown => RewriteInv'
<1>1. SUFFICES ASSUME RewriteInv, Shutdown PROVE RewriteInv'
  OBVIOUS
<1>2. TypeOK /\ DirInv /\ LogInv /\ ChildInv /\ AckInv
  BY <1>1 DEF RewriteInv
<1>3. /\ UNCHANGED <<aof_fsync, data, executed>>
      /\ UNCHANGED <<aof_state, aof_fd, aof_buf, aof_selected_db, aof_last_write_status, aof_rewrite_scheduled>>
      /\ UNCHANGED <<snapshot, tmp, child_diff, pipe, rewrite_buf, ask, ack, stop_sending>>
      /\ UNCHANGED <<files, name, names, acked, disk_full>>
      /\ phase = "loop" /\ phase' = "shutdown"
      /\ child' = IF aof_state # "off" THEN "none" ELSE child
      /\ synced' = IF aof_state # "off" THEN [synced EXCEPT ![aof_fd] = Len(files[aof_fd])] ELSE synced
  BY <1>1 DEF Shutdown, main, aof, bounds, InLoop
<1>4. aof_state # "off" => aof_fd \in Inodes
  BY <1>2 DEF DirInv
<1>5. synced' \in [Inodes -> Nat] /\ (aof_state # "off" => synced'[aof_fd] = Len(files[aof_fd]))
  BY <1>2, <1>3, <1>4, Types DEF TypeOK
<1>6. TypeOK'
  <2>1. child' \in ChildState /\ phase' \in Phases
    BY <1>2, <1>3 DEF TypeOK, ChildState, Phases
  <2>2. QED
    BY <1>2, <1>3, <1>5, <2>1 DEF TypeOK
<1>7. DirInv'
  BY <1>2, <1>3 DEF DirInv, InLoop
<1>8. LogInv' /\ ChildInv'
  BY <1>2, <1>3 DEF LogInv, ChildInv, Yields
<1>9. AckInv'
  BY <1>2, <1>3, <1>5 DEF AckInv, CmdsIn
<1>10. QED
  BY <1>6, <1>7, <1>8, <1>9 DEF RewriteInv

-----------------------------------------------------------------------------
(* The first state, and the whole. *)

\* The file the server has loaded.
FirstData == [EmptyData EXCEPT ![StartDb] = <<1>>]

LEMMA FirstFile ==
  /\ <<Select(StartDb), Cmd(1)>> \in Seq(Records)
  /\ Replay(<<Select(StartDb), Cmd(1)>>) = FirstData
  /\ FirstData \in Datasets /\ 1 .. 1 \subseteq CmdsIn(FirstData)
<1>. PICK D : D = FirstData
  OBVIOUS
<1>1. StartDb \in Dbs /\ 1 \in 1 .. MaxCmds
  BY DbsAssumption, BoundsAssumption
<1>2. PICK x \in Records, y \in Records : x = Select(StartDb) /\ y = Cmd(1)
  BY <1>1, RecordsAre
<1>3. <<>> \in Seq(Records) /\ <<x>> \in Seq(Records) /\ <<>> \o <<x>> = <<x>>
  <2>1. <<>> \in Seq(Records) /\ <<x>> \in Seq(Records)
    BY EmptySeq
  <2>2. QED
    BY <2>1, ConcatNothing
<1>4. After(<<x>>) = Apply(Start, x) /\ After(<<x>>) \in States
  <2>1. After(<<>> \o <<x>>) = Apply(After(<<>>), x)
    BY <1>3, ConcatOne
  <2>2. Apply(Start, x) \in States
    BY StartIs, ApplyIs
  <2>3. QED
    BY <1>3, <2>1, <2>2, AfterEmpty
<1>5. /\ <<x, y>> = <<x>> \o <<y>> /\ <<x, y>> \in Seq(Records)
      /\ After(<<x, y>>) = Apply(After(<<x>>), y)
  <2>1. <<x, y>> = Append(<<x>>, y)
    OBVIOUS
  <2>2. <<x>> \o <<y>> = Append(<<x>>, y) /\ <<x>> \o <<y>> \in Seq(Records)
        /\ After(<<x>> \o <<y>>) = Apply(After(<<x>>), y)
    BY <1>3, ConcatOne
  <2>3. QED
    BY <2>1, <2>2
<1>6. After(<<x>>).db = StartDb /\ After(<<x>>).data = EmptyData
  BY <1>1, <1>2, <1>4, StartIs, ApplyEach DEF Start
<1>7. After(<<x, y>>).data = [EmptyData EXCEPT ![StartDb] = Append(@, 1)]
  <2>1. PICK st \in States : st = After(<<x>>)
    BY <1>4
  <2>2. Apply(st, Cmd(1)).data = [st.data EXCEPT ![st.db] = Append(@, 1)]
    BY <1>1, ApplyEach
  <2>3. Apply(st, y).data = [EmptyData EXCEPT ![StartDb] = Append(@, 1)]
    BY <1>2, <1>6, <2>1, <2>2
  <2>4. QED
    BY <1>5, <2>1, <2>3
<1>8. EmptyData[StartDb] = <<>> /\ Append(<<>>, 1) = <<1>>
  BY <1>1 DEF EmptyData
<1>9. After(<<x, y>>).data = D
  BY <1>7, <1>8 DEF FirstData
<1>10. D \in Datasets /\ D[StartDb] = <<1>>
  BY <1>1, StartIs DEF Datasets, FirstData
<1>11. 1 \in CmdsIn(D)
  <2>1. 1 \in 1 .. Len(D[StartDb]) /\ D[StartDb][1] = 1
    BY <1>10
  <2>2. QED
    BY <1>1, <2>1 DEF CmdsIn
<1>12. QED
  BY <1>2, <1>5, <1>9, <1>10, <1>11 DEF Replay

LEMMA InitInv == Init => RewriteInv
<1>1. SUFFICES ASSUME Init PROVE RewriteInv
  OBVIOUS
<1>2. PICK file : file = <<Select(StartDb), Cmd(1)>>
  OBVIOUS
<1>3. /\ phase = "loop" /\ executed = 1 /\ aof_fsync \in Policies
      /\ aof_buf = <<>> /\ aof_selected_db = NoDb /\ aof_last_write_status = "ok" /\ aof_rewrite_scheduled = FALSE
      /\ child = "none" /\ snapshot = EmptyData /\ tmp = 0
      /\ child_diff = <<>> /\ pipe = <<>> /\ rewrite_buf = <<>>
      /\ ask = FALSE /\ ack = FALSE /\ stop_sending = FALSE
      /\ name = 0 /\ names = {0} /\ disk_full = FALSE /\ acked = 0
      /\ files = [i \in Inodes |-> IF i = aof_fd THEN file ELSE <<>>]
      /\ synced = [i \in Inodes |-> Len(files[i])]
      /\ (aof_state = "on" /\ aof_fd = 0) \/ (aof_state = "off" /\ aof_fd = NoFd)
      /\ data = [EmptyData EXCEPT ![StartDb] = <<1>>]
  BY <1>1, <1>2 DEF Init
<1>4. file \in Seq(Records) /\ Replay(file) = data /\ data \in Datasets /\ 1 .. 1 \subseteq CmdsIn(data)
  BY <1>2, <1>3, FirstFile DEF FirstData
<1>5. <<>> \in Seq(Records) /\ EmptyData \in Datasets /\ 0 \in Inodes /\ 1 \in 0 .. MaxCmds
  BY EmptySeq, StartIs, InodesAssumption, BoundsAssumption
<1>6. files \in [Inodes -> Seq(Records)]
  BY <1>3, <1>4, <1>5
<1>7. synced \in [Inodes -> Nat]
  <2>1. \A i \in Inodes : Len(files[i]) \in Nat
    BY <1>6, LenProperties
  <2>2. QED
    BY <1>3, <2>1
<1>8. TypeOK
  <2>1. phase \in Phases /\ child \in ChildState
    BY <1>3 DEF Phases, ChildState
  <2>2. name \in names /\ names \subseteq Inodes /\ aof_fd \in Inodes \cup {NoFd, Stale}
    BY <1>3, <1>5
  <2>3. acked \in 0 .. executed
    BY <1>3
  <2>4. QED
    BY <1>3, <1>4, <1>5, <1>6, <1>7, <2>1, <2>2, <2>3 DEF TypeOK, Datasets
<1>9. DirInv
  BY <1>3, <1>5 DEF DirInv, InLoop
<1>10. aof_state = "on" => files[aof_fd] = file /\ synced[aof_fd] = Len(files[aof_fd])
  BY <1>3, <1>5
<1>11. LogInv
  <2>1. file \o <<>> = file
    BY <1>4, ConcatNothing
  <2>2. QED
    BY <1>3, <1>4, <1>10, <2>1 DEF LogInv, Yields
<1>12. ChildInv
  BY <1>3 DEF ChildInv
<1>13. AckInv
  <2>1. 1 .. acked \subseteq CmdsIn(Replay(file))
    BY <1>3
  <2>2. QED
    BY <1>3, <1>4, <1>10, <2>1 DEF AckInv
<1>14. QED
  BY <1>8, <1>9, <1>11, <1>12, <1>13 DEF RewriteInv

LEMMA NextInv == RewriteInv /\ [Next]_vars => RewriteInv'
<1>1. SUFFICES ASSUME RewriteInv, [Next]_vars PROVE RewriteInv'
  OBVIOUS
<1>2. CASE \E d \in Dbs : Command(d)
  BY <1>1, <1>2, StepCommand
<1>3. CASE Flush
  BY <1>1, <1>3, StepFlush
<1>4. CASE Reply
  BY <1>1, <1>4, StepReply
<1>5. CASE RewriteStart
  BY <1>1, <1>5, StepRewriteStart
<1>6. CASE RewriteSchedule \/ DiskFills \/ DiskFreed \/ UNCHANGED vars
  BY <1>1, <1>6, StepOthers
<1>7. CASE SendDiff
  BY <1>1, <1>7, StepSendDiff
<1>8. CASE StopSending \/ ChildAsks \/ ChildFails
  BY <1>1, <1>8, StepHandshake
<1>9. CASE ChildReads
  BY <1>1, <1>9, StepChildReads
<1>10. CASE ChildFinishes
  BY <1>1, <1>10, StepChildFinishes
<1>11. CASE DoneFailed
  BY <1>1, <1>11, StepDoneFailed
<1>12. CASE DoneWrite
  BY <1>1, <1>12, StepDoneWrite
<1>13. CASE DoneRename
  BY <1>1, <1>13, StepDoneRename
<1>14. CASE DoneSwitch
  BY <1>1, <1>14, StepDoneSwitch
<1>15. CASE StartAppendOnly
  BY <1>1, <1>15, StepStartAppendOnly
<1>16. CASE StopAppendOnly
  BY <1>1, <1>16, StepStopAppendOnly
<1>17. CASE Shutdown
  BY <1>1, <1>17, StepShutdown
<1>18. QED
  BY <1>1, <1>2, <1>3, <1>4, <1>5, <1>6, <1>7, <1>8, <1>9, <1>10, <1>11, <1>12,
     <1>13, <1>14, <1>15, <1>16, <1>17 DEF Next

(***************************************************************************)
(* The invariant behind the rest: at every moment the log in use, and the  *)
(* one the child and the done handler are making, yield the dataset and    *)
(* leave loading in the database that feedAppendOnlyFile remembers.        *)
(***************************************************************************)
THEOREM RewriteInvariant == Safe => []RewriteInv
BY InitInv, NextInv, PTL DEF Safe

\* The state has its types, through every rewrite and switch of the AOF.
THEOREM TypeCorrect == Safe => []TypeOK
<1>1. RewriteInv => TypeOK
  BY DEF RewriteInv
<1>2. QED
  BY <1>1, RewriteInvariant, PTL

(***************************************************************************)
(* The current file and aof_buf replay to the dataset, every command in    *)
(* the database feedAppendOnlyFile was given, and between the rename and   *)
(* the switch of the descriptor in backgroundRewriteDoneHandler the new    *)
(* file does so alone.                                                     *)
(***************************************************************************)
THEOREM LogAlwaysReplays == Safe => []LogReplays
<1>1. RewriteInv => LogReplays
  <2>1. SUFFICES ASSUME RewriteInv, aof_state = "on" PROVE LogReplays
    BY DEF LogReplays
  <2>2. TypeOK /\ DirInv /\ LogInv /\ ChildInv
    BY <2>1 DEF RewriteInv
  <2>3. Replay(files[aof_fd] \o aof_buf) = data
    BY <2>1, <2>2 DEF LogInv, Yields
  <2>4. name # aof_fd => Replay(files[name]) = data
    BY <2>1, <2>2 DEF DirInv, ChildInv, Yields
  <2>5. QED
    BY <2>3, <2>4 DEF LogReplays
<1>2. QED
  BY <1>1, RewriteInvariant, PTL

(***************************************************************************)
(* The differences feedAppendOnlyFile keeps for the child are neither lost *)
(* nor repeated on their way through aofChildWriteDiffData, the pipe and   *)
(* the handshake that ends the sending.                                    *)
(***************************************************************************)
THEOREM RewriteAlwaysReplays == Safe => []RewriteReplays
<1>1. RewriteInv => RewriteReplays
  BY DEF RewriteInv, ChildInv, RewriteReplays, Yields
<1>2. QED
  BY <1>1, RewriteInvariant, PTL

(***************************************************************************)
(* Under appendfsync always a power loss keeps every acknowledged command, *)
(* whichever file it leaves under the name, but between the rename and the *)
(* fsync of the new file in backgroundRewriteDoneHandler.                  *)
(***************************************************************************)
THEOREM AckedAlwaysSurvives == Safe => []AckedSurvives
<1>1. RewriteInv => AckedSurvives
  <2>1. SUFFICES ASSUME RewriteInv, aof_fsync = "always", aof_state = "on", phase # "renamed",
                        NEW i \in names
                 PROVE  1 .. acked \subseteq Survivors(i)
    BY DEF AckedSurvives
  <2>2. TypeOK /\ DirInv /\ AckInv
    BY <2>1 DEF RewriteInv
  <2>3. i = aof_fd /\ aof_fd \in Inodes
    BY <2>1, <2>2 DEF DirInv
  <2>4. PICK file : file = files[aof_fd]
    OBVIOUS
  <2>5. synced[aof_fd] = Len(file) /\ 1 .. acked \subseteq CmdsIn(Replay(file))
    BY <2>1, <2>2, <2>4 DEF AckInv
  <2>6. file \in Seq(Records)
    BY <2>2, <2>3, <2>4, Types
  <2>7. SubSeq(file, 1, Len(file)) = file
    BY <2>6, WholeSubSeq
  <2>8. QED
    BY <2>3, <2>4, <2>5, <2>7 DEF Survivors
<1>2. QED
  BY <1>1, RewriteInvariant, PTL
=============================================================================
