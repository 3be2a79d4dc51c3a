--------------------------- MODULE AofLoadProofs ----------------------------
(***************************************************************************)
(* Proofs about AofLoad, for every number of commands and of power losses  *)
(* and every use of aof-load-truncated.                                    *)
(***************************************************************************)
EXTENDS AofLoad, DataInduction

-----------------------------------------------------------------------------
(* Records and the commands that are run when they are read. *)

LEMMA Kinds ==
  /\ Multi.type = "multi" /\ Exec.type = "exec" /\ Torn.type = "torn"
  /\ \A c : Cmd(c).type = "cmd" /\ Cmd(c).cmd = c
BY DEF Multi, Exec, Torn, Cmd

LEMMA KindOfRecord ==
  ASSUME NEW r \in Records
  PROVE  /\ r.type \in {"multi", "exec", "torn", "cmd"}
         /\ r = Torn <=> r.type = "torn"
         /\ r.type = "cmd" => r.cmd \in 1 .. MaxCmds
BY Kinds DEF Records

\* The function that CmdsOf applies to the length of the records.
Run(s) ==
  CHOOSE run : run = [n \in 0 .. Len(s) |->
    IF n = 0 THEN <<>>
    ELSE IF s[n].type = "cmd" THEN Append(run[n - 1], s[n].cmd) ELSE run[n - 1]]

Step(s, n, v) == IF s[n].type = "cmd" THEN Append(v, s[n].cmd) ELSE v

Cmds == Seq(1 .. MaxCmds)

\* The recursion is well defined.
LEMMA RunDef ==
  ASSUME NEW s \in Seq(Records)
  PROVE  /\ Run(s) \in [0 .. Len(s) -> Cmds]
         /\ Run(s)[0] = <<>>
         /\ \A n \in 1 .. Len(s) : Run(s)[n] = Step(s, n, Run(s)[n - 1])
<1>1. PICK m \in Nat : m = Len(s)
  BY LenProperties
<1>2. \A n \in 1 .. m : s[n] \in Records
  BY <1>1, ElementOfSeq
<1>3. \A n \in 1 .. m : \A v \in Cmds : Step(s, n, v) \in Cmds
  BY <1>2, KindOfRecord, AppendProperties DEF Step, Cmds
<1>4. <<>> \in Cmds
  BY EmptySeq DEF Cmds
<1>5. PICK g : g = [n \in 1 .. m |-> [v \in Cmds |-> Step(s, n, v)]]
  OBVIOUS
<1>6. IsStepOf(g, m, Cmds)
  BY <1>3, <1>5 DEF IsStepOf
<1>7. PICK f : IsRecursionOf(f, g, <<>>, m, Cmds)
  BY <1>4, <1>6, RecursionExists
<1>8. f = [n \in 0 .. m |-> IF n = 0 THEN <<>> ELSE Step(s, n, f[n - 1])]
  <2>1. \A n \in 0 .. m : f[n] = IF n = 0 THEN <<>> ELSE Step(s, n, f[n - 1])
    BY <1>5, <1>7 DEF IsRecursionOf
  <2>2. QED
    BY <1>7, <2>1 DEF IsRecursionOf
<1>9. Run(s) = [n \in 0 .. m |-> IF n = 0 THEN <<>> ELSE Step(s, n, Run(s)[n - 1])]
  BY <1>1, <1>8 DEF Run, Step
<1>10. PICK h : h = Run(s)
  OBVIOUS
<1>11. \A n \in 0 .. m : h[n] = IF n = 0 THEN <<>> ELSE Step(s, n, h[n - 1])
  BY <1>9, <1>10
<1>12. h = [n \in 0 .. m |-> h[n]] /\ h[0] = <<>>
  BY <1>9, <1>10, <1>11
<1>13. \A n \in 1 .. m : h[n - 1] \in Cmds => h[n] = g[n][h[n - 1]]
  BY <1>5, <1>11
<1>14. IsRecursionOf(h, g, <<>>, m, Cmds)
  BY <1>4, <1>6, <1>12, <1>13, RecursionMeets
<1>15. \A n \in 1 .. m : h[n - 1] \in Cmds
  BY <1>14 DEF IsRecursionOf
<1>16. QED
  BY <1>1, <1>5, <1>10, <1>14, <1>15 DEF IsRecursionOf

\* The commands of no record, and of one record more.
LEMMA CmdsOfEmpty == CmdsOf(<<>>) = <<>>
<1>1. <<>> \in Seq(Records) /\ Len(<<>>) = 0
  BY EmptySeq
<1>2. CmdsOf(<<>>) = Run(<<>>)[0]
  BY <1>1 DEF CmdsOf, Run
<1>3. QED
  BY <1>1, <1>2, RunDef

LEMMA CmdsOfAppend ==
  ASSUME NEW s \in Seq(Records), NEW r \in Records
  PROVE  /\ CmdsOf(s) \in Cmds
         /\ CmdsOf(Append(s, r)) = IF r.type = "cmd" THEN Append(CmdsOf(s), r.cmd) ELSE CmdsOf(s)
<1>1. PICK m \in Nat : m = Len(s)
  BY LenProperties
<1>2. PICK t \in Seq(Records) : /\ t = Append(s, r) /\ Len(t) = m + 1
                                /\ t[m + 1] = r /\ \A i \in 1 .. m : t[i] = s[i]
  <2>1. /\ Append(s, r) \in Seq(Records) /\ Len(Append(s, r)) = Len(s) + 1
        /\ Append(s, r)[Len(s) + 1] = r
        /\ \A i \in 1 .. Len(s) : Append(s, r)[i] = s[i]
    BY AppendProperties
  <2>2. QED
    BY <1>1, <2>1
<1>3. PICK f : f = Run(s)
  OBVIOUS
<1>4. PICK h : h = Run(t)
  OBVIOUS
<1>5. /\ f \in [0 .. m -> Cmds] /\ f[0] = <<>>
      /\ \A n \in 1 .. m : f[n] = Step(s, n, f[n - 1])
  BY <1>1, <1>3, RunDef
<1>6. /\ h[0] = <<>>
      /\ \A n \in 1 .. m + 1 : h[n] = Step(t, n, h[n - 1])
  BY <1>2, <1>4, RunDef
<1>7. \A n \in 0 .. m : h[n] = f[n]
  <2>. DEFINE T == {n \in 0 .. m : h[n] = f[n]}
  <2>1. 0 \in T
    BY <1>5, <1>6
  <2>2. \A n \in T : n < m => n + 1 \in T
    <3>1. SUFFICES ASSUME NEW n \in T, n < m PROVE n + 1 \in T
      OBVIOUS
    <3>2. n + 1 \in 1 .. m /\ n + 1 \in 1 .. m + 1 /\ (n + 1) - 1 = n /\ h[n] = f[n]
      BY <3>1
    <3>3. h[n + 1] = Step(t, n + 1, h[n]) /\ f[n + 1] = Step(s, n + 1, f[n])
      BY <1>5, <1>6, <3>2
    <3>4. QED
      BY <1>2, <3>2, <3>3 DEF Step
  <2>3. T \in SUBSET (0 .. m)
    OBVIOUS
  <2>. HIDE DEF T
  <2>4. \A n \in 0 .. m : n \in T
    BY <2>1, <2>2, <2>3, IntervalInduct
  <2>5. QED
    BY <2>4 DEF T
<1>8. CmdsOf(s) = f[m] /\ CmdsOf(t) = h[m + 1]
  BY <1>1, <1>2, <1>3, <1>4 DEF CmdsOf, Run
<1>9. h[m + 1] = Step(t, m + 1, f[m])
  <2>1. m + 1 \in 1 .. m + 1 /\ (m + 1) - 1 = m /\ m \in 0 .. m
    OBVIOUS
  <2>2. QED
    BY <1>6, <1>7, <2>1
<1>10. f[m] \in Cmds
  BY <1>5
<1>11. QED
  BY <1>2, <1>8, <1>9, <1>10 DEF Step

\* The commands of records are those found in them.
LEMMA RangeOfCmds ==
  ASSUME NEW s \in Seq(Records)
  PROVE  CmdsOf(s) \in Cmds /\ Range(CmdsOf(s)) = CmdsIn(s, Len(s))
<1>. DEFINE T == {t \in Seq(Records) : CmdsOf(t) \in Cmds /\ Range(CmdsOf(t)) = CmdsIn(t, Len(t))}
<1>1. <<>> \in T
  <2>1. <<>> \in Seq(Records) /\ Len(<<>>) = 0 /\ <<>> \in Cmds /\ Range(<<>>) = {}
    BY EmptySeq DEF Cmds, Range
  <2>2. CmdsIn(<<>>, 0) = {}
    BY DEF CmdsIn
  <2>3. QED
    BY <2>1, <2>2, CmdsOfEmpty
<1>2. \A t \in T : \A r \in Records : Append(t, r) \in T
  <2>1. SUFFICES ASSUME NEW t \in T, NEW r \in Records PROVE Append(t, r) \in T
    OBVIOUS
  <2>2. t \in Seq(Records) /\ CmdsOf(t) \in Cmds /\ Range(CmdsOf(t)) = CmdsIn(t, Len(t))
    OBVIOUS
  <2>3. PICK m \in Nat : m = Len(t)
    BY <2>2, LenProperties
  <2>4. PICK u \in Seq(Records) : /\ u = Append(t, r) /\ Len(u) = m + 1
                                  /\ u[m + 1] = r /\ \A i \in 1 .. m : u[i] = t[i]
    <3>1. /\ Append(t, r) \in Seq(Records) /\ Len(Append(t, r)) = Len(t) + 1
          /\ Append(t, r)[Len(t) + 1] = r
          /\ \A i \in 1 .. Len(t) : Append(t, r)[i] = t[i]
      BY <2>2, AppendProperties
    <3>2. QED
      BY <2>3, <3>1
  <2>5. CmdsOf(u) = IF r.type = "cmd" THEN Append(CmdsOf(t), r.cmd) ELSE CmdsOf(t)
    BY <2>2, <2>4, CmdsOfAppend
  <2>6. CmdsIn(u, m + 1) = CmdsIn(t, m) \cup (IF r.type = "cmd" THEN {r.cmd} ELSE {})
    <3>1. \A i \in 1 .. m + 1 : i \in 1 .. m \/ i = m + 1
      OBVIOUS
    <3>2. \A i \in 1 .. m : i \in 1 .. m + 1
      OBVIOUS
    <3>3. m + 1 \in 1 .. m + 1
      OBVIOUS
    <3>4. QED
      BY <2>4, <3>1, <3>2, <3>3 DEF CmdsIn
  <2>7. r.type = "cmd" => /\ Append(CmdsOf(t), r.cmd) \in Cmds
                          /\ Range(Append(CmdsOf(t), r.cmd)) = Range(CmdsOf(t)) \cup {r.cmd}
    <3>1. SUFFICES ASSUME r.type = "cmd"
                   PROVE  /\ Append(CmdsOf(t), r.cmd) \in Cmds
                          /\ Range(Append(CmdsOf(t), r.cmd)) = Range(CmdsOf(t)) \cup {r.cmd}
      OBVIOUS
    <3>2. PICK c \in Seq(1 .. MaxCmds), e \in 1 .. MaxCmds : c = CmdsOf(t) /\ e = r.cmd
      BY <2>2, <3>1, KindOfRecord DEF Cmds
    <3>3. PICK k \in Nat : k = Len(c)
      BY LenProperties
    <3>4. PICK d \in Seq(1 .. MaxCmds) : /\ d = Append(c, e) /\ Len(d) = k + 1
                                         /\ d[k + 1] = e /\ \A i \in 1 .. k : d[i] = c[i]
      <4>1. /\ Append(c, e) \in Seq(1 .. MaxCmds) /\ Len(Append(c, e)) = Len(c) + 1
            /\ Append(c, e)[Len(c) + 1] = e
            /\ \A i \in 1 .. Len(c) : Append(c, e)[i] = c[i]
        BY AppendProperties
      <4>2. QED
        BY <3>3, <4>1
    <3>5. DOMAIN c = 1 .. k /\ DOMAIN d = 1 .. k + 1
      BY <3>3, <3>4, LenProperties
    <3>6. \A i \in 1 .. k + 1 : i \in 1 .. k \/ i = k + 1
      OBVIOUS
    <3>7. (\A i \in 1 .. k : i \in 1 .. k + 1) /\ k + 1 \in 1 .. k + 1
      OBVIOUS
    <3>8. Range(d) = Range(c) \cup {e}
      BY <3>4, <3>5, <3>6, <3>7 DEF Range
    <3>9. QED
      BY <3>2, <3>4, <3>8 DEF Cmds
  <2>8. QED
    BY <2>2, <2>3, <2>4, <2>5, <2>6, <2>7
<1>3. T \in SUBSET Seq(Records)
  OBVIOUS
<1>. HIDE DEF T
<1>4. T = Seq(Records)
  BY <1>1, <1>2, <1>3, SeqInduct
<1>5. QED
  BY <1>4 DEF T

-----------------------------------------------------------------------------
(* Transactions in the records, by the number of records read. *)

\* What is said of the first n records depends on them alone.
SameUpTo(s, t, n) == \A i \in 1 .. n : s[i] = t[i]

LEMMA SamePrefix ==
  ASSUME NEW s, NEW t, NEW n \in Nat, SameUpTo(s, t, n)
  PROVE  /\ \A k \in 0 .. n : OpenAfter(s, k) <=> OpenAfter(t, k)
         /\ \A i \in 1 .. n : Expected(s, i) <=> Expected(t, i)
         /\ \A k \in 0 .. n : Closed(s, k) <=> Closed(t, k)
         /\ \A k \in 0 .. n : CmdsIn(s, k) = CmdsIn(t, k)
<1>. USE DEF SameUpTo
<1>1. \A k \in 0 .. n : OpenAfter(s, k) <=> OpenAfter(t, k)
  <2>1. SUFFICES ASSUME NEW k \in 0 .. n PROVE OpenAfter(s, k) <=> OpenAfter(t, k)
    OBVIOUS
  <2>2. \A i \in 1 .. k : s[i] = t[i] /\ \A j \in i + 1 .. k : s[j] = t[j]
    OBVIOUS
  <2>3. QED
    BY <2>2 DEF OpenAfter
<1>2. \A i \in 1 .. n : Expected(s, i) <=> Expected(t, i)
  <2>1. \A i \in 1 .. n : i - 1 \in 0 .. n
    OBVIOUS
  <2>2. QED
    BY <1>1, <2>1 DEF Expected
<1>3. \A k \in 0 .. n : \A i \in 1 .. k : i \in 1 .. n
  OBVIOUS
<1>4. \A k \in 0 .. n : Closed(s, k) <=> Closed(t, k)
  BY <1>1, <1>2, <1>3 DEF Closed
<1>5. \A k \in 0 .. n : CmdsIn(s, k) = CmdsIn(t, k)
  BY <1>3 DEF CmdsIn
<1>6. QED
  BY <1>1, <1>2, <1>4, <1>5

\* One record more opens a transaction, closes it or leaves it as it is.
LEMMA OpenStep ==
  ASSUME NEW s, NEW n \in Nat
  PROVE  /\ ~OpenAfter(s, 0)
         /\ OpenAfter(s, n + 1) <=>
              \/ s[n + 1].type = "multi"
              \/ s[n + 1].type # "exec" /\ OpenAfter(s, n)
<1>1. ~OpenAfter(s, 0)
  BY DEF OpenAfter
<1>2. ASSUME s[n + 1].type = "multi" PROVE OpenAfter(s, n + 1)
  <2>1. n + 1 \in 1 .. n + 1 /\ \A j \in (n + 1) + 1 .. n + 1 : FALSE
    OBVIOUS
  <2>2. QED
    BY <1>2, <2>1 DEF OpenAfter
<1>3. ASSUME s[n + 1].type # "exec", OpenAfter(s, n) PROVE OpenAfter(s, n + 1)
  <2>1. PICK i \in 1 .. n : s[i].type = "multi" /\ \A j \in i + 1 .. n : s[j].type # "exec"
    BY <1>3 DEF OpenAfter
  <2>2. i \in 1 .. n + 1 /\ \A j \in i + 1 .. n + 1 : j \in i + 1 .. n \/ j = n + 1
    OBVIOUS
  <2>3. QED
    BY <1>3, <2>1, <2>2 DEF OpenAfter
<1>4. ASSUME OpenAfter(s, n + 1), s[n + 1].type # "multi"
      PROVE  s[n + 1].type # "exec" /\ OpenAfter(s, n)
  <2>1. PICK i \in 1 .. n + 1 : s[i].type = "multi" /\ \A j \in i + 1 .. n + 1 : s[j].type # "exec"
    BY <1>4 DEF OpenAfter
  <2>2. i \in 1 .. n /\ n + 1 \in i + 1 .. n + 1 /\ \A j \in i + 1 .. n : j \in i + 1 .. n + 1
    BY <1>4, <2>1
  <2>3. QED
    BY <2>1, <2>2 DEF OpenAfter
<1>5. QED
  BY <1>1, <1>2, <1>3, <1>4

\* Closed records stay closed when a command is appended, and when a whole
\* transaction is.
LEMMA ClosedStep ==
  ASSUME NEW s, NEW m \in Nat, Closed(s, m), s[m + 1].type = "cmd"
  PROVE  Closed(s, m + 1)
<1>1. ~OpenAfter(s, m + 1)
  BY OpenStep DEF Closed
<1>2. Expected(s, m + 1)
  BY DEF Expected
<1>3. \A i \in 1 .. m + 1 : i \in 1 .. m \/ i = m + 1
  OBVIOUS
<1>4. QED
  BY <1>1, <1>2, <1>3 DEF Closed

LEMMA ClosedBlock ==
  ASSUME NEW s, NEW m \in Nat, NEW n \in Nat, Closed(s, m),
         s[m + 1].type = "multi", \A i \in 1 .. n : s[(m + 1) + i].type = "cmd",
         s[(m + 1) + n + 1].type = "exec"
  PROVE  Closed(s, (m + 1) + n + 1)
<1>. DEFINE T == {k \in 0 .. n : OpenAfter(s, (m + 1) + k) /\ \A i \in 1 .. (m + 1) + k : Expected(s, i)}
<1>1. 0 \in T
  <2>1. OpenAfter(s, m + 1)
    BY OpenStep
  <2>2. Expected(s, m + 1)
    BY DEF Expected, Closed
  <2>3. \A i \in 1 .. m + 1 : i \in 1 .. m \/ i = m + 1
    OBVIOUS
  <2>4. QED
    BY <2>1, <2>2, <2>3 DEF Closed
<1>2. \A k \in T : k < n => k + 1 \in T
  <2>1. SUFFICES ASSUME NEW k \in T, k < n PROVE k + 1 \in T
    OBVIOUS
  <2>2. PICK p \in Nat : p = (m + 1) + k
    OBVIOUS
  <2>3. k + 1 \in 1 .. n /\ (m + 1) + (k + 1) = p + 1 /\ s[p + 1].type = "cmd"
    BY <2>1, <2>2
  <2>4. OpenAfter(s, p) /\ \A i \in 1 .. p : Expected(s, i)
    BY <2>2
  <2>5. OpenAfter(s, p + 1)
    BY <2>3, <2>4, OpenStep
  <2>6. Expected(s, p + 1)
    BY <2>3 DEF Expected
  <2>7. \A i \in 1 .. p + 1 : i \in 1 .. p \/ i = p + 1
    OBVIOUS
  <2>8. QED
    BY <2>3, <2>4, <2>5, <2>6, <2>7
<1>3. T \in SUBSET (0 .. n)
  OBVIOUS
<1>. HIDE DEF T
<1>4. n \in T
  BY <1>1, <1>2, <1>3, IntervalInduct
<1>5. PICK p \in Nat : p = (m + 1) + n
  OBVIOUS
<1>6. OpenAfter(s, p) /\ (\A i \in 1 .. p : Expected(s, i)) /\ s[p + 1].type = "exec"
  BY <1>4, <1>5 DEF T
<1>7. ~OpenAfter(s, p + 1)
  BY <1>6, OpenStep
<1>8. Expected(s, p + 1)
  BY <1>6 DEF Expected
<1>9. \A i \in 1 .. p + 1 : i \in 1 .. p \/ i = p + 1
  OBVIOUS
<1>10. QED
  BY <1>5, <1>6, <1>7, <1>8, <1>9 DEF Closed

\* A prefix outside of any transaction of records that are expected is closed,
\* and the last closed prefix is no shorter than any other.
LEMMA LastClosedFact ==
  ASSUME file \in Seq(Records)
  PROVE  /\ LastClosed \in 0 .. Len(file) /\ Closed(file, LastClosed)
         /\ \A n \in 0 .. Len(file) : Closed(file, n) => n <= LastClosed
<1>1. PICK m \in Nat : m = Len(file)
  BY LenProperties
<1>. DEFINE T == {k \in 0 .. m : Closed(file, m - k)}
<1>2. m \in T
  <2>1. Closed(file, 0)
    BY OpenStep DEF Closed
  <2>2. QED
    BY <2>1
<1>3. PICK k \in T : \A j \in T : k <= j
  <2>1. T # {}
    BY <1>2
  <2>2. T \in SUBSET Nat
    OBVIOUS
  <2>. HIDE DEF T
  <2>3. QED
    BY <2>1, <2>2, LeastNat
<1>4. k \in 0 .. m /\ m - k \in 0 .. m /\ Closed(file, m - k)
  OBVIOUS
<1>5. \A n \in 0 .. m : Closed(file, n) => n <= m - k
  <2>1. SUFFICES ASSUME NEW n \in 0 .. m, Closed(file, n) PROVE n <= m - k
    OBVIOUS
  <2>2. m - n \in 0 .. m /\ m - (m - n) = n
    BY <2>1
  <2>3. m - n \in T
    BY <2>1, <2>2
  <2>4. k <= m - n
    BY <1>3, <2>3
  <2>. HIDE DEF T
  <2>5. QED
    BY <1>4, <2>4
<1>6. \E n \in 0 .. m : Closed(file, n) /\ \A j \in n + 1 .. m : ~Closed(file, j)
  <2>1. \A j \in (m - k) + 1 .. m : ~Closed(file, j)
    <3>1. \A j \in (m - k) + 1 .. m : j \in 0 .. m /\ ~(j <= m - k)
      BY <1>4
    <3>2. QED
      BY <1>5, <3>1
  <2>2. QED
    BY <1>4, <2>1
<1>7. /\ LastClosed \in 0 .. m /\ Closed(file, LastClosed)
      /\ \A j \in LastClosed + 1 .. m : ~Closed(file, j)
  BY <1>1, <1>6 DEF LastClosed
<1>8. \A n \in 0 .. m : Closed(file, n) => n <= LastClosed
  <2>1. \A n \in 0 .. m : ~(n <= LastClosed) => n \in LastClosed + 1 .. m
    BY <1>7
  <2>2. QED
    BY <1>7, <2>1
<1>9. QED
  BY <1>1, <1>7, <1>8

-----------------------------------------------------------------------------
(* The records that the actions leave in the file. *)

\* The first n records, alone and followed by a torn one.
LEMMA Cut ==
  ASSUME NEW s \in Seq(Records), NEW n \in 0 .. Len(s)
  PROVE  LET t == SubSeq(s, 1, n)
         IN /\ t \in Seq(Records) /\ Len(t) = n /\ \A i \in 1 .. n : t[i] = s[i]
            /\ t \o <<>> = t /\ t \o <<Torn>> = Append(t, Torn)
<1>1. PICK m \in Nat : m = Len(s)
  BY LenProperties
<1>2. \A i \in 1 .. n : s[i] \in Records
  <2>1. \A i \in 1 .. n : i \in 1 .. Len(s)
    BY <1>1
  <2>2. QED
    BY <2>1, ElementOfSeq
<1>3. PICK t : t = SubSeq(s, 1, n)
  OBVIOUS
<1>4. n \in Nat
  BY <1>1
<1>5. t \in Seq(Records) /\ Len(t) = n /\ \A i \in 1 .. n : t[i] = s[i]
  <2>1. /\ SubSeq(s, 1, n) \in Seq(Records)
        /\ Len(SubSeq(s, 1, n)) = IF 1 <= n THEN n - 1 + 1 ELSE 0
        /\ \A i \in 1 .. n - 1 + 1 : SubSeq(s, 1, n)[i] = s[1 + i - 1]
    BY <1>2, <1>4, SubSeqProperties
  <2>2. QED
    BY <1>3, <1>4, <2>1
<1>6. Torn \in Records
  BY DEF Records
<1>7. t \o <<>> = t /\ t \o <<Torn>> = Append(t, Torn)
  BY <1>5, <1>6, ConcatEmptySeq, AppendIsConcat
<1>8. QED
  BY <1>3, <1>5, <1>7

\* The commands of a transaction are run in their order.
Numbers(e, n)    == [i \in 1 .. n |-> e + i]
NumberRecs(e, n) == [i \in 1 .. n |-> Cmd(e + i)]

LEMMA Block ==
  ASSUME MaxCmds \in Nat, NEW u \in Seq(Records), NEW e \in Nat, NEW n \in Nat, e + n <= MaxCmds
  PROVE  /\ Numbers(e, n) \in Cmds /\ NumberRecs(e, n) \in Seq(Records)
         /\ CmdsOf(u \o NumberRecs(e, n)) = CmdsOf(u) \o Numbers(e, n)
<1>. DEFINE T == {k \in 0 .. n : /\ Numbers(e, k) \in Cmds /\ NumberRecs(e, k) \in Seq(Records)
                                 /\ CmdsOf(u \o NumberRecs(e, k)) = CmdsOf(u) \o Numbers(e, k)}
<1>1. CmdsOf(u) \in Cmds
  BY RangeOfCmds
<1>2. 0 \in T
  <2>1. Numbers(e, 0) = <<>> /\ NumberRecs(e, 0) = <<>>
    BY DEF Numbers, NumberRecs
  <2>2. <<>> \in Cmds /\ <<>> \in Seq(Records)
    BY EmptySeq DEF Cmds
  <2>3. u \o <<>> = u /\ CmdsOf(u) \o <<>> = CmdsOf(u)
    BY <1>1, ConcatEmptySeq DEF Cmds
  <2>4. 0 \in 0 .. n
    OBVIOUS
  <2>5. QED
    BY <2>1, <2>2, <2>3, <2>4
<1>3. \A k \in T : k < n => k + 1 \in T
  <2>1. SUFFICES ASSUME NEW k \in T, k < n PROVE k + 1 \in T
    OBVIOUS
  <2>2. k \in Nat /\ k + 1 \in 0 .. n /\ \A i \in 1 .. k + 1 : e + i \in 1 .. MaxCmds
    BY <2>1
  <2>3. \A i \in 1 .. k + 1 : Cmd(e + i) \in Records
    BY <2>2 DEF Records
  <2>4. PICK a, b : /\ a = Numbers(e, k) /\ b = NumberRecs(e, k)
                    /\ a \in Cmds /\ b \in Seq(Records) /\ CmdsOf(u \o b) = CmdsOf(u) \o a
    BY <2>1
  <2>5. PICK c, r : c = e + (k + 1) /\ r = Cmd(c) /\ c \in 1 .. MaxCmds /\ r \in Records
    <3>1. k + 1 \in 1 .. k + 1
      BY <2>2
    <3>2. e + (k + 1) \in 1 .. MaxCmds /\ Cmd(e + (k + 1)) \in Records
      BY <2>2, <2>3, <3>1
    <3>3. QED
      BY <3>2
  <2>6. Numbers(e, k + 1) = Append(a, c) /\ Append(a, c) \in Cmds
    <3>1. PICK x : x = [i \in 1 .. k + 1 |-> e + i]
      OBVIOUS
    <3>2. \A i \in 1 .. k + 1 : x[i] \in 1 .. MaxCmds
      BY <2>2, <3>1
    <3>3. [i \in 1 .. k + 1 |-> x[i]] = Append([i \in 1 .. k |-> x[i]], x[k + 1])
      BY <2>2, <3>2, TableAppend
    <3>4. \A i \in 1 .. k : x[i] = e + i
      BY <2>2, <3>1
    <3>5. x[k + 1] = c
      BY <2>2, <2>5, <3>1
    <3>6. QED
      BY <2>4, <2>5, <3>1, <3>3, <3>4, <3>5, AppendProperties DEF Numbers, Cmds
  <2>7. NumberRecs(e, k + 1) = Append(b, r) /\ Append(b, r) \in Seq(Records)
    <3>1. PICK x : x = [i \in 1 .. k + 1 |-> Cmd(e + i)]
      OBVIOUS
    <3>2. \A i \in 1 .. k + 1 : x[i] \in Records
      BY <2>3, <3>1
    <3>3. [i \in 1 .. k + 1 |-> x[i]] = Append([i \in 1 .. k |-> x[i]], x[k + 1])
      BY <2>2, <3>2, TableAppend
    <3>4. \A i \in 1 .. k : x[i] = Cmd(e + i)
      BY <2>2, <3>1
    <3>5. x[k + 1] = r
      BY <2>2, <2>5, <3>1
    <3>6. QED
      BY <2>4, <2>5, <3>1, <3>3, <3>4, <3>5, AppendProperties DEF NumberRecs
  <2>8. CmdsOf(u \o Append(b, r)) = CmdsOf(u) \o Append(a, c)
    <3>1. u \o b \in Seq(Records) /\ u \o Append(b, r) = Append(u \o b, r)
      BY <2>4, <2>5, ConcatProperties, ConcatAppend
    <3>2. r.type = "cmd" /\ r.cmd = c
      BY <2>5, Kinds
    <3>3. CmdsOf(Append(u \o b, r)) = Append(CmdsOf(u \o b), c)
      BY <2>5, <3>1, <3>2, CmdsOfAppend
    <3>4. CmdsOf(u) \o Append(a, c) = Append(CmdsOf(u) \o a, c)
      BY <1>1, <2>4, <2>5, ConcatAppend DEF Cmds
    <3>5. QED
      BY <2>4, <3>1, <3>3, <3>4
  <2>9. QED
    BY <2>2, <2>6, <2>7, <2>8
<1>4. T \in SUBSET (0 .. n)
  OBVIOUS
<1>. HIDE DEF T
<1>5. n \in T
  BY <1>2, <1>3, <1>4, IntervalInduct
<1>6. QED
  BY <1>5 DEF T

\* A transaction in the file: where its records are, and what they do.
HasBlock(f, s, m, e, n) ==
  /\ f = s \o <<Multi>> \o NumberRecs(e, n) \o <<Exec>>
  /\ Len(f) = (m + 1) + n + 1 /\ \A i \in 1 .. m : f[i] = s[i]
  /\ f[m + 1] = Multi /\ f[(m + 1) + n + 1] = Exec
  /\ \A i \in 1 .. n : f[(m + 1) + i] = Cmd(e + i)
  /\ CmdsOf(f) = CmdsOf(s) \o Numbers(e, n)

LEMMA Appending ==
  ASSUME MaxCmds \in Nat, NEW s \in Seq(Records), NEW m \in Nat, m = Len(s),
         NEW e \in Nat, NEW n \in Nat, e + n <= MaxCmds
  PROVE  \E f \in Seq(Records) : HasBlock(f, s, m, e, n)
<1>1. Multi \in Records /\ Exec \in Records
  BY DEF Records
<1>2. PICK u \in Seq(Records) : /\ u = s \o <<Multi>> /\ Len(u) = m + 1 /\ u[m + 1] = Multi
                                /\ \A i \in 1 .. m : u[i] = s[i]
  <2>1. PICK u : u = Append(s, Multi)
    OBVIOUS
  <2>2. u = s \o <<Multi>>
    BY <1>1, <2>1, AppendIsConcat
  <2>3. /\ u \in Seq(Records) /\ Len(u) = m + 1 /\ u[m + 1] = Multi
        /\ \A i \in 1 .. m : u[i] = s[i]
    BY <1>1, <2>1, Appended
  <2>4. QED
    BY <2>2, <2>3
<1>3. PICK b \in Seq(Records) : /\ b = NumberRecs(e, n) /\ Len(b) = n
                                /\ \A i \in 1 .. n : b[i] = Cmd(e + i)
  <2>1. NumberRecs(e, n) \in Seq(Records)
    BY Block
  <2>2. PICK b : b = NumberRecs(e, n)
    OBVIOUS
  <2>3. Len(b) = n /\ \A i \in 1 .. n : b[i] = Cmd(e + i)
    BY <2>2 DEF NumberRecs
  <2>4. QED
    BY <2>1, <2>2, <2>3
<1>4. PICK v \in Seq(Records) : /\ v = u \o b /\ Len(v) = (m + 1) + n
                                /\ \A i \in 1 .. m + 1 : v[i] = u[i]
                                /\ \A i \in 1 .. n : v[(m + 1) + i] = b[i]
  <2>1. PICK v : v = u \o b
    OBVIOUS
  <2>2. m + 1 \in Nat
    OBVIOUS
  <2>3. /\ v \in Seq(Records) /\ Len(v) = (m + 1) + n
        /\ \A i \in 1 .. m + 1 : v[i] = u[i]
        /\ \A i \in 1 .. n : v[(m + 1) + i] = b[i]
    <3>1. /\ u \o b \in Seq(Records) /\ Len(u \o b) = Len(u) + Len(b)
          /\ \A i \in 1 .. Len(u) : (u \o b)[i] = u[i]
          /\ \A i \in 1 .. Len(b) : (u \o b)[Len(u) + i] = b[i]
      BY Concatenated
    <3>2. QED
      BY <1>2, <1>3, <2>1, <3>1
  <2>4. QED
    BY <2>1, <2>3
<1>5. PICK f \in Seq(Records) : /\ f = Append(v, Exec) /\ f = v \o <<Exec>>
                                /\ Len(f) = (m + 1) + n + 1 /\ f[(m + 1) + n + 1] = Exec
                                /\ \A i \in 1 .. (m + 1) + n : f[i] = v[i]
  <2>1. PICK f : f = Append(v, Exec)
    OBVIOUS
  <2>2. f = v \o <<Exec>>
    BY <1>1, <2>1, AppendIsConcat
  <2>3. PICK p \in Nat : p = (m + 1) + n /\ p = Len(v)
    BY <1>4
  <2>4. /\ f \in Seq(Records) /\ Len(f) = p + 1 /\ f[p + 1] = Exec
        /\ \A i \in 1 .. p : f[i] = v[i]
    BY <1>1, <2>1, <2>3, Appended
  <2>5. QED
    BY <2>1, <2>2, <2>3, <2>4
<1>6. \A i \in 1 .. m : f[i] = s[i]
  <2>1. \A i \in 1 .. m : i \in 1 .. m + 1 /\ i \in 1 .. (m + 1) + n
    OBVIOUS
  <2>2. QED
    BY <1>2, <1>4, <1>5, <2>1
<1>7. f[m + 1] = Multi
  <2>1. m + 1 \in 1 .. m + 1 /\ m + 1 \in 1 .. (m + 1) + n
    OBVIOUS
  <2>2. QED
    BY <1>2, <1>4, <1>5, <2>1
<1>8. \A i \in 1 .. n : f[(m + 1) + i] = Cmd(e + i)
  <2>1. \A i \in 1 .. n : (m + 1) + i \in 1 .. (m + 1) + n
    OBVIOUS
  <2>2. QED
    BY <1>3, <1>4, <1>5, <2>1
<1>9. CmdsOf(f) = CmdsOf(v)
  BY <1>1, <1>5, Kinds, CmdsOfAppend
<1>10. CmdsOf(v) = CmdsOf(u) \o Numbers(e, n)
  BY <1>3, <1>4, Block
<1>11. CmdsOf(u) = CmdsOf(s)
  <2>1. u = Append(s, Multi)
    BY <1>1, <1>2, AppendIsConcat
  <2>2. QED
    BY <1>1, <2>1, Kinds, CmdsOfAppend
<1>12. QED
  BY <1>2, <1>3, <1>4, <1>5, <1>6, <1>7, <1>8, <1>9, <1>10, <1>11 DEF HasBlock

\* The file without its torn record.
LEMMA CompleteFact ==
  ASSUME NEW s \in Seq(Records), NEW m \in Nat, m = Len(s),
         \A i \in 1 .. m : s[i] = Torn => i = m
  PROVE  \E c \in Seq(Records), k \in Nat :
           /\ c = Complete(s) /\ k = Len(c) /\ CmdsOf(c) = CmdsOf(s)
           /\ \A i \in 1 .. k : c[i] = s[i] /\ c[i] # Torn
           /\ IF IsTorn(s) THEN m = k + 1 /\ s[m] = Torn ELSE m = k /\ c = s
<1>1. CASE IsTorn(s)
  <2>1. m \in Nat \ {0} /\ s[m] = Torn
    BY <1>1, EmptySeq DEF IsTorn, Last
  <2>2. m - 1 \in 0 .. Len(s) /\ m - 1 \in Nat
    BY <2>1
  <2>3. PICK c \in Seq(Records) : /\ c = SubSeq(s, 1, m - 1) /\ Len(c) = m - 1
                                  /\ \A i \in 1 .. m - 1 : c[i] = s[i]
    BY <2>2, Cut
  <2>4. c = Complete(s)
    BY <1>1, <2>3 DEF Complete, Front
  <2>5. Torn \in Records
    BY DEF Records
  <2>6. s = Append(c, Torn)
    <3>1. PICK d : d = Append(c, Torn)
      OBVIOUS
    <3>2. /\ d \in Seq(Records) /\ Len(d) = (m - 1) + 1
          /\ (\A i \in 1 .. m - 1 : d[i] = c[i]) /\ d[(m - 1) + 1] = Torn
      BY <2>3, <2>5, <3>1, Appended
    <3>3. (m - 1) + 1 = m /\ \A i \in 1 .. m : i \in 1 .. m - 1 \/ i = m
      OBVIOUS
    <3>4. \A i \in 1 .. m : s[i] = d[i]
      BY <2>1, <2>3, <3>2, <3>3
    <3>5. QED
      BY <3>1, <3>2, <3>3, <3>4, SeqEqual
  <2>7. CmdsOf(s) = CmdsOf(c)
    BY <2>5, <2>6, Kinds, CmdsOfAppend
  <2>8. \A i \in 1 .. m - 1 : c[i] # Torn
    <3>1. \A i \in 1 .. m - 1 : i \in 1 .. m /\ i # m
      BY <2>1
    <3>2. QED
      BY <2>3, <3>1
  <2>9. (m - 1) + 1 = m
    OBVIOUS
  <2>10. QED
    BY <1>1, <2>1, <2>2, <2>3, <2>4, <2>7, <2>8, <2>9
<1>2. CASE ~IsTorn(s)
  <2>1. Complete(s) = s
    BY <1>2 DEF Complete
  <2>2. \A i \in 1 .. m : s[i] # Torn
    <3>1. SUFFICES ASSUME NEW i \in 1 .. m, s[i] = Torn PROVE FALSE
      OBVIOUS
    <3>2. s[m] = Torn /\ s # <<>>
      BY <3>1, EmptySeq
    <3>3. QED
      BY <1>2, <3>2 DEF IsTorn, Last
  <2>3. QED
    BY <1>2, <2>1, <2>2
<1>3. QED
  BY <1>1, <1>2

-----------------------------------------------------------------------------
(* LoadInv is inductive. *)

\* The parts of the invariant that every action is shown to preserve.
Sane     == TypeOK /\ FileIsData /\ CmdsIn(file, Len(file)) \subseteq 1 .. executed
Survives == (harm # "fixed" => durable \subseteq CmdsIn(file, synced))
            /\ (harm = "none" => Closed(file, synced))

LEMMA InvParts ==
  LoadInv <=> /\ Sane /\ Survives /\ TornInv
              /\ harm = "none" => \A i \in 1 .. Len(Complete(file)) : Expected(file, i)
              /\ harm = "none" /\ phase = "up" => Closed(file, Len(file))
BY DEF LoadInv, Sane, Survives, SyncedInv

LEMMA FileFacts ==
  ASSUME LoadInv
  PROVE  /\ file \in Seq(Records) /\ Len(file) \in Nat /\ synced \in 0 .. Len(file)
         /\ MaxCmds \in Nat /\ executed \in 0 .. MaxCmds
         /\ phase = "up" => CmdsOf(file) = data /\ \A i \in 1 .. Len(file) : file[i] # Torn
         /\ data \in Cmds /\ CmdsIn(file, Len(file)) \subseteq 1 .. executed
         /\ durable \subseteq 1 .. executed /\ blocks \subseteq SUBSET (1 .. executed)
         /\ aof_load_truncated \in LoadTruncated /\ losses \in 0 .. MaxLosses
<1>1. file \in Seq(Records) /\ DOMAIN file = 1 .. Len(file) /\ Len(file) \in Nat
  BY LenProperties DEF LoadInv, TypeOK
<1>2. phase = "up" => \A i \in 1 .. Len(file) : file[i] # Torn
  BY <1>1 DEF LoadInv, TypeOK, Range
<1>3. QED
  BY <1>1, <1>2, BoundsAssumption DEF LoadInv, TypeOK, FileIsData, Cmds

\* A file without a torn record is complete.
LEMMA Untorn ==
  ASSUME NEW s \in Seq(Records), \A i \in 1 .. Len(s) : s[i] # Torn
  PROVE  Complete(s) = s /\ ~IsTorn(s)
<1>1. s # <<>> => Len(s) \in 1 .. Len(s)
  BY EmptySeq, LenProperties
<1>2. ~IsTorn(s)
  BY <1>1 DEF IsTorn, Last
<1>3. QED
  BY <1>2 DEF Complete

\* What was synced survives as long as the records it consists of do.
LEMMA SurvivesPrefix ==
  ASSUME Survives, synced \in Nat, UNCHANGED <<synced, durable>>,
         \A i \in 1 .. synced : file'[i] = file[i],
         harm' = harm \/ (harm = "none" /\ harm' # "none" /\ harm' # "fixed") \/ harm' = "fixed"
  PROVE  Survives'
<1>1. PICK n \in Nat : n = synced
  OBVIOUS
<1>2. SameUpTo(file', file, n)
  BY <1>1 DEF SameUpTo
<1>3. n \in 0 .. n
  OBVIOUS
<1>4. CmdsIn(file', n) = CmdsIn(file, n) /\ (Closed(file', n) <=> Closed(file, n))
  BY <1>2, <1>3, SamePrefix
<1>5. QED
  BY <1>1, <1>4 DEF Survives

\* The invariant when the server only stops, or is not started.
LEMMA SameFile ==
  ASSUME LoadInv, UNCHANGED <<file, synced, executed, durable, harm>>,
         phase' = "up" => phase = "up" /\ UNCHANGED data, TypeOK'
  PROVE  LoadInv'
BY DEF LoadInv, FileIsData, TornInv, SyncedInv

\* The invariant when the running server appends to the file.
LEMMA Grown ==
  ASSUME LoadInv, phase = "up", UNCHANGED <<phase, synced, durable, harm>>, Sane',
         NEW f \in Seq(Records), f = file', NEW m \in Nat, m = Len(file), Len(f) >= m,
         \A i \in 1 .. m : f[i] = file[i],
         \A i \in 1 .. Len(f) : f[i] # Torn,
         Closed(f, m) => Closed(f, Len(f))
  PROVE  LoadInv'
<1>1. synced \in 0 .. m /\ file \in Seq(Records)
  BY FileFacts
<1>2. Survives'
  BY <1>1, SurvivesPrefix, InvParts
<1>3. TornInv'
  BY DEF TornInv
<1>4. ASSUME harm = "none" PROVE Closed(f, Len(f))
  <2>1. Closed(file, m)
    BY <1>4 DEF LoadInv, SyncedInv
  <2>2. Closed(f, m)
    <3>1. SameUpTo(f, file, m) /\ m \in 0 .. m
      BY DEF SameUpTo
    <3>2. Closed(f, m) <=> Closed(file, m)
      BY <3>1, SamePrefix
    <3>3. QED
      BY <2>1, <3>2
  <2>3. QED
    BY <2>2
<1>5. Complete(f) = f
  BY Untorn
<1>6. harm' = "none" => \A i \in 1 .. Len(Complete(f)) : Expected(f, i)
  BY <1>4, <1>5 DEF Closed
<1>7. harm' = "none" => Closed(f, Len(f))
  BY <1>4
<1>8. QED
  BY <1>2, <1>3, <1>6, <1>7 DEF LoadInv, Sane, Survives, SyncedInv


LEMMA StepCommand == LoadInv /\ Command => LoadInv'
<1>1. SUFFICES ASSUME LoadInv, Command PROVE LoadInv'
  OBVIOUS
<1>2. /\ phase = "up" /\ phase' = "up" /\ executed < MaxCmds /\ executed' = executed + 1
      /\ data' = Append(data, executed + 1) /\ file' = Append(file, Cmd(executed + 1))
      /\ UNCHANGED <<synced, aof_load_truncated, losses, durable, blocks, harm>>
  BY <1>1 DEF Command, history
<1>3. PICK m, c : m = Len(file) /\ c = executed + 1
  OBVIOUS
<1>4. m \in Nat /\ c \in 1 .. MaxCmds /\ executed' \in 0 .. MaxCmds
  BY <1>1, <1>2, <1>3, FileFacts
<1>5. file \in Seq(Records) /\ Cmd(c) \in Records /\ data \in Cmds /\ CmdsOf(file) = data
  BY <1>1, <1>2, <1>4, FileFacts DEF Records
<1>6. PICK f \in Seq(Records) : /\ f = file' /\ Len(f) = m + 1 /\ f[m + 1] = Cmd(c)
                                /\ \A i \in 1 .. m : f[i] = file[i]
  <2>1. PICK f : f = Append(file, Cmd(c))
    OBVIOUS
  <2>2. /\ f \in Seq(Records) /\ Len(f) = m + 1 /\ f[m + 1] = Cmd(c)
        /\ \A i \in 1 .. m : f[i] = file[i]
    BY <1>3, <1>5, <2>1, Appended
  <2>3. QED
    BY <1>2, <1>3, <2>1, <2>2
<1>7. \A i \in 1 .. m + 1 : i \in 1 .. m \/ i = m + 1
  BY <1>4
<1>8. \A i \in 1 .. m + 1 : f[i] # Torn
  <2>1. \A i \in 1 .. m : file[i] # Torn
    BY <1>1, <1>2, <1>3, FileFacts
  <2>2. Cmd(c) # Torn
    BY Kinds
  <2>3. QED
    BY <1>6, <1>7, <2>1, <2>2
<1>9. CmdsOf(f) = data' /\ data' \in Cmds
  <2>1. CmdsOf(f) = Append(CmdsOf(file), c)
    BY <1>2, <1>3, <1>5, <1>6, Kinds, CmdsOfAppend
  <2>2. Append(data, c) \in Cmds
    BY <1>4, <1>5, Appended DEF Cmds
  <2>3. QED
    BY <1>2, <1>3, <1>5, <2>1, <2>2
<1>10. 1 .. executed \subseteq 1 .. executed' /\ c \in 1 .. executed'
  BY <1>1, <1>2, <1>3, FileFacts
<1>11. CmdsIn(f, m + 1) \subseteq 1 .. executed'
  <2>1. CmdsIn(file, m) \subseteq 1 .. executed
    BY <1>1, <1>3, FileFacts
  <2>2. CmdsIn(f, m + 1) \subseteq CmdsIn(file, m) \cup {c}
    BY <1>6, <1>7, Kinds DEF CmdsIn
  <2>3. QED
    BY <1>10, <2>1, <2>2
<1>12. Sane'
  <2>1. synced' \in 0 .. Len(f)
    BY <1>1, <1>2, <1>3, <1>4, <1>6, FileFacts
  <2>2. Torn \notin Range(f)
    <3>1. DOMAIN f = 1 .. m + 1
      BY <1>6, LenProperties
    <3>2. QED
      BY <1>8, <3>1 DEF Range
  <2>3. durable' \subseteq 1 .. executed' /\ blocks' \subseteq SUBSET (1 .. executed')
    BY <1>1, <1>2, <1>10, FileFacts
  <2>4. TypeOK'
    BY <1>1, <1>2, <1>4, <1>6, <1>9, <2>1, <2>2, <2>3 DEF LoadInv, TypeOK, Cmds
  <2>5. QED
    BY <1>6, <1>9, <1>11, <2>4 DEF Sane, FileIsData
<1>13. Closed(f, m) => Closed(f, m + 1)
  BY <1>4, <1>6, Kinds, ClosedStep
<1>14. Len(f) >= m
  BY <1>4, <1>6
<1>15. QED
  BY <1>1, <1>2, <1>3, <1>4, <1>6, <1>8, <1>12, <1>13, <1>14, Grown

LEMMA StepTransaction == \A n \in 1 .. MaxCmds : LoadInv /\ Transaction(n) => LoadInv'
<1>1. SUFFICES ASSUME NEW n \in 1 .. MaxCmds, LoadInv, Transaction(n) PROVE LoadInv'
  OBVIOUS
<1>2. /\ phase = "up" /\ phase' = "up" /\ executed + n <= MaxCmds /\ executed' = executed + n
      /\ data' = data \o Numbers(executed, n)
      /\ file' = file \o <<Multi>> \o NumberRecs(executed, n) \o <<Exec>>
      /\ blocks' = blocks \cup {executed + 1 .. executed + n}
      /\ UNCHANGED <<synced, aof_load_truncated, losses, durable, harm>>
  <2>1. [i \in 1 .. n |-> Cmd([j \in 1 .. n |-> executed + j][i])] = NumberRecs(executed, n)
    BY DEF NumberRecs
  <2>2. QED
    BY <1>1, <2>1 DEF Transaction, Numbers
<1>3. PICK m, e : m = Len(file) /\ e = executed
  OBVIOUS
<1>4. m \in Nat /\ e \in Nat /\ n \in Nat /\ MaxCmds \in Nat /\ e + n <= MaxCmds
  BY <1>1, <1>2, <1>3, FileFacts
<1>5. file \in Seq(Records) /\ data \in Cmds /\ CmdsOf(file) = data
  BY <1>1, <1>2, FileFacts
<1>6. PICK f \in Seq(Records) : HasBlock(f, file, m, e, n)
  BY <1>3, <1>4, <1>5, Appending
<1>. USE DEF HasBlock
<1>7. f = file' /\ data' = data \o Numbers(e, n) /\ CmdsOf(f) = data'
  BY <1>2, <1>3, <1>5, <1>6
<1>8. \A i \in 1 .. (m + 1) + n + 1 :
        \/ i \in 1 .. m \/ i = m + 1 \/ i = (m + 1) + n + 1
        \/ \E j \in 1 .. n : i = (m + 1) + j
  <2>1. ASSUME NEW i \in 1 .. (m + 1) + n + 1, i \notin 1 .. m, i # m + 1, i # (m + 1) + n + 1
        PROVE  \E j \in 1 .. n : i = (m + 1) + j
    <3>1. i - (m + 1) \in 1 .. n /\ i = (m + 1) + (i - (m + 1))
      BY <1>4, <2>1
    <3>2. QED
      BY <3>1
  <2>2. QED
    BY <2>1
<1>9. \A i \in 1 .. (m + 1) + n + 1 : f[i] # Torn
  <2>1. \A i \in 1 .. m : file[i] # Torn
    BY <1>1, <1>2, <1>3, FileFacts
  <2>2. Multi # Torn /\ Exec # Torn /\ \A c : Cmd(c) # Torn
    BY Kinds
  <2>3. QED
    BY <1>6, <1>8, <2>1, <2>2
<1>10. data' \in Cmds
  <2>1. Numbers(e, n) \in Cmds
    BY <1>4, <1>5, Block
  <2>2. QED
    BY <1>5, <1>7, <2>1, ConcatProperties DEF Cmds
<1>11. executed' = e + n /\ executed' \in 0 .. MaxCmds /\ 1 .. executed \subseteq 1 .. executed'
  BY <1>2, <1>3, <1>4
<1>12. CmdsIn(f, (m + 1) + n + 1) \subseteq 1 .. executed'
  <2>1. CmdsIn(file, m) \subseteq 1 .. executed'
    BY <1>1, <1>3, <1>11, FileFacts
  <2>2. \A j \in 1 .. n : e + j \in 1 .. executed'
    BY <1>4, <1>11
  <2>3. \A i \in 1 .. (m + 1) + n + 1 : f[i].type = "cmd" =>
          (i \in 1 .. m /\ f[i] = file[i]) \/ \E j \in 1 .. n : f[i].cmd = e + j
    <3>1. f[m + 1].type # "cmd" /\ f[(m + 1) + n + 1].type # "cmd"
      BY <1>6, Kinds
    <3>2. \A j \in 1 .. n : f[(m + 1) + j].cmd = e + j
      BY <1>6, Kinds
    <3>3. \A i \in 1 .. m : f[i] = file[i]
      BY <1>6
    <3>. HIDE DEF HasBlock
    <3>4. QED
      BY <1>8, <3>1, <3>2, <3>3
  <2>4. QED
    BY <2>1, <2>2, <2>3 DEF CmdsIn
<1>13. Sane'
  <2>1. synced' \in 0 .. Len(f)
    BY <1>1, <1>2, <1>3, <1>4, <1>6, FileFacts
  <2>2. Torn \notin Range(f)
    <3>1. DOMAIN f = 1 .. (m + 1) + n + 1
      BY <1>6, LenProperties
    <3>2. QED
      BY <1>9, <3>1 DEF Range
  <2>3. durable' \subseteq 1 .. executed' /\ blocks' \subseteq SUBSET (1 .. executed')
    <3>1. executed + 1 .. executed + n \subseteq 1 .. executed'
      BY <1>3, <1>4, <1>11
    <3>2. QED
      BY <1>1, <1>2, <1>11, <3>1, FileFacts
  <2>4. TypeOK'
    BY <1>1, <1>2, <1>6, <1>7, <1>10, <1>11, <2>1, <2>2, <2>3 DEF LoadInv, TypeOK, Cmds
  <2>5. QED
    BY <1>6, <1>7, <1>12, <2>4 DEF Sane, FileIsData
<1>14. Closed(f, m) => Closed(f, (m + 1) + n + 1)
  <2>1. /\ f[m + 1].type = "multi" /\ f[(m + 1) + n + 1].type = "exec"
        /\ \A i \in 1 .. n : f[(m + 1) + i].type = "cmd"
    BY <1>6, Kinds
  <2>2. QED
    BY <1>4, <2>1, ClosedBlock
<1>15. Len(f) >= m
  BY <1>4, <1>6
<1>16. QED
  BY <1>1, <1>2, <1>3, <1>4, <1>6, <1>7, <1>9, <1>13, <1>14, <1>15, Grown

LEMMA StepSync == LoadInv /\ Sync => LoadInv'
<1>1. SUFFICES ASSUME LoadInv, Sync PROVE LoadInv'
  OBVIOUS
<1>2. /\ phase = "up" /\ synced' = Len(file) /\ durable' \subseteq Range(data)
      /\ UNCHANGED <<phase, file, data, aof_load_truncated, executed, losses, blocks, harm>>
  BY <1>1 DEF Sync
<1>3. Range(data) = CmdsIn(file, Len(file))
  BY <1>1, <1>2, FileFacts, RangeOfCmds
<1>4. durable' \subseteq CmdsIn(file', synced') /\ durable' \subseteq 1 .. executed'
  BY <1>1, <1>2, <1>3, FileFacts
<1>5. TypeOK'
  <2>1. synced' \in 0 .. Len(file')
    BY <1>1, <1>2, FileFacts
  <2>2. QED
    BY <1>1, <1>2, <1>4, <2>1 DEF LoadInv, TypeOK
<1>6. TornInv'
  <2>1. \A i \in 1 .. Len(file) : file[i] # Torn
    BY <1>1, <1>2, FileFacts
  <2>2. QED
    BY <1>2, <2>1 DEF TornInv
<1>7. SyncedInv'
  BY <1>1, <1>2, <1>4 DEF LoadInv, SyncedInv
<1>8. QED
  BY <1>1, <1>2, <1>5, <1>6, <1>7 DEF LoadInv, FileIsData

LEMMA StepStop == LoadInv /\ Stop => LoadInv'
<1>1. SUFFICES ASSUME LoadInv, Stop PROVE LoadInv'
  OBVIOUS
<1>2. /\ phase' = "down" /\ data' = <<>>
      /\ UNCHANGED <<file, synced, aof_load_truncated, executed, losses, durable, blocks, harm>>
  BY <1>1 DEF Stop, history
<1>3. TypeOK'
  <2>1. <<>> \in Seq(1 .. MaxCmds)
    BY EmptySeq
  <2>2. QED
    BY <1>1, <1>2, <2>1 DEF LoadInv, TypeOK
<1>4. QED
  BY <1>1, <1>2, <1>3, SameFile

LEMMA StepPowerLoss == LoadInv /\ PowerLoss => LoadInv'
<1>1. SUFFICES ASSUME LoadInv, PowerLoss PROVE LoadInv'
  OBVIOUS
<1>2. PICK n \in synced .. Len(file) - 1, torn \in BOOLEAN :
        file' = SubSeq(file, 1, n) \o (IF torn THEN <<Torn>> ELSE <<>>)
  BY <1>1 DEF PowerLoss
<1>3. /\ phase = "up" /\ phase' = "down" /\ data' = <<>>
      /\ losses < MaxLosses /\ losses' = losses + 1
      /\ UNCHANGED <<synced, aof_load_truncated, executed, durable, blocks, harm>>
  BY <1>1 DEF PowerLoss, history
<1>4. PICK m \in Nat : m = Len(file)
  BY <1>1, FileFacts
<1>5. n \in 0 .. m /\ n \in Nat /\ synced \in 0 .. n /\ file \in Seq(Records)
  BY <1>1, <1>4, FileFacts
<1>6. PICK c \in Seq(Records) : /\ c = SubSeq(file, 1, n) /\ Len(c) = n
                                /\ \A i \in 1 .. n : c[i] = file[i]
                                /\ c \o <<>> = c /\ c \o <<Torn>> = Append(c, Torn)
  BY <1>4, <1>5, Cut
<1>7. \A i \in 1 .. n : c[i] # Torn
  <2>1. \A i \in 1 .. n : i \in 1 .. m
    BY <1>5
  <2>2. QED
    BY <1>1, <1>3, <1>4, <1>6, <2>1, FileFacts
<1>8. PICK f, k : f = file' /\ k = Len(f)
  OBVIOUS
<1>9. /\ f \in Seq(Records) /\ \A i \in 1 .. n : f[i] = c[i]
      /\ (torn /\ k = n + 1 /\ f[k] = Torn) \/ (~torn /\ k = n /\ f = c)
  <2>1. CASE torn
    <3>1. f = Append(c, Torn) /\ Torn \in Records
      BY <1>2, <1>6, <1>8, <2>1 DEF Records
    <3>2. QED
      BY <1>6, <1>8, <2>1, <3>1, Appended
  <2>2. CASE ~torn
    BY <1>2, <1>6, <1>8, <2>2
  <2>3. QED
    BY <2>1, <2>2
<1>10. k \in Nat /\ n <= k /\ \A i \in 1 .. k : f[i] = Torn => i = k /\ n < k
  <2>1. \A i \in 1 .. k : i \in 1 .. n \/ (i = k /\ torn)
    BY <1>5, <1>9
  <2>2. QED
    BY <1>5, <1>7, <1>9, <2>1
<1>11. Complete(f) = c
  <2>1. PICK d \in Seq(Records), j \in Nat :
          /\ d = Complete(f) /\ j = Len(d) /\ \A i \in 1 .. j : d[i] = f[i] /\ d[i] # Torn
          /\ IF IsTorn(f) THEN k = j + 1 /\ f[k] = Torn ELSE k = j /\ d = f
    BY <1>8, <1>9, <1>10, CompleteFact
  <2>2. j = n
    <3>1. CASE torn
      <4>1. f # <<>>
        BY <1>5, <1>8, <1>9, <3>1, EmptySeq
      <4>2. IsTorn(f)
        BY <1>8, <1>9, <3>1, <4>1 DEF IsTorn, Last
      <4>3. QED
        BY <1>5, <1>9, <2>1, <3>1, <4>2
    <3>2. CASE ~torn
      <4>1. ~IsTorn(f)
        BY <1>6, <1>7, <1>9, <3>2, Untorn
      <4>2. QED
        BY <1>9, <2>1, <3>2, <4>1
    <3>3. QED
      BY <3>1, <3>2
  <2>3. Len(c) = Len(d) /\ \A i \in 1 .. Len(c) : c[i] = d[i]
    BY <1>6, <1>9, <2>1, <2>2
  <2>4. c = d
    BY <2>3, SeqEqual
  <2>5. QED
    BY <2>1, <2>4
<1>12. SameUpTo(f, file, n)
  BY <1>6, <1>9 DEF SameUpTo
<1>13. CmdsIn(f, k) \subseteq 1 .. executed
  <2>1. \A i \in 1 .. k : f[i].type = "cmd" => i \in 1 .. n
    BY <1>5, <1>9, Kinds
  <2>2. \A i \in 1 .. n : i \in 1 .. m /\ f[i] = file[i]
    BY <1>5, <1>6, <1>9
  <2>3. CmdsIn(f, k) \subseteq CmdsIn(file, m)
    BY <2>1, <2>2 DEF CmdsIn
  <2>4. QED
    BY <1>1, <1>4, <2>3, FileFacts
<1>14. TypeOK'
  <2>1. <<>> \in Seq(1 .. MaxCmds)
    BY EmptySeq
  <2>2. synced' \in 0 .. k /\ losses' \in 0 .. MaxLosses
    BY <1>1, <1>3, <1>5, <1>10, BoundsAssumption, FileFacts
  <2>3. QED
    BY <1>1, <1>3, <1>8, <1>9, <2>1, <2>2 DEF LoadInv, TypeOK
<1>15. TornInv'
  BY <1>3, <1>5, <1>8, <1>10 DEF TornInv
<1>16. SyncedInv'
  <2>1. CmdsIn(f, synced) = CmdsIn(file, synced) /\ (Closed(f, synced) <=> Closed(file, synced))
    BY <1>5, <1>12, SamePrefix
  <2>2. harm = "none" => \A i \in 1 .. n : Expected(f, i)
    <3>1. \A i \in 1 .. n : i \in 1 .. m /\ (Expected(f, i) <=> Expected(file, i))
      BY <1>5, <1>12, SamePrefix
    <3>2. harm = "none" => Closed(file, m)
      BY <1>1, <1>3, <1>4 DEF LoadInv, SyncedInv
    <3>3. QED
      BY <3>1, <3>2 DEF Closed
  <2>3. harm' # "fixed" => durable' \subseteq CmdsIn(file', synced')
    BY <1>1, <1>3, <1>8, <2>1 DEF LoadInv, SyncedInv
  <2>4. harm' = "none" => Closed(file', synced')
    BY <1>1, <1>3, <1>8, <2>1 DEF LoadInv, SyncedInv
  <2>5. harm' = "none" => \A i \in 1 .. Len(Complete(file')) : Expected(file', i)
    BY <1>3, <1>6, <1>8, <1>11, <2>2
  <2>6. QED
    BY <1>3, <2>3, <2>4, <2>5 DEF SyncedInv
<1>17. QED
  BY <1>3, <1>8, <1>13, <1>14, <1>15, <1>16 DEF LoadInv, FileIsData

\* What a start finds in the file, if it succeeds: the file without its torn
\* record, with all that was synced.
LEMMA Found ==
  ASSUME LoadInv
  PROVE  \E c \in Seq(Records), k \in Nat :
           /\ c = Complete(file) /\ k = Len(c) /\ CmdsOf(c) = CmdsOf(file)
           /\ \A i \in 1 .. k : c[i] = file[i] /\ c[i] # Torn
           /\ synced \in 0 .. k /\ k <= Len(file)
           /\ ~IsTorn(file) => c = file
<1>1. PICK f \in Seq(Records), m \in Nat : f = file /\ m = Len(file) /\ synced \in 0 .. m
  BY FileFacts
<1>2. \A i \in 1 .. m : f[i] = Torn => i = m /\ synced < i
  BY <1>1 DEF LoadInv, TornInv
<1>3. PICK c \in Seq(Records), k \in Nat :
        /\ c = Complete(f) /\ k = Len(c) /\ CmdsOf(c) = CmdsOf(f)
        /\ \A i \in 1 .. k : c[i] = f[i] /\ c[i] # Torn
        /\ IF IsTorn(f) THEN m = k + 1 /\ f[m] = Torn ELSE m = k /\ c = f
  BY <1>1, <1>2, CompleteFact
<1>4. synced \in 0 .. k /\ k <= m
  <2>1. CASE IsTorn(f)
    <3>1. m \in 1 .. m
      BY <1>3, <2>1
    <3>2. QED
      BY <1>1, <1>2, <1>3, <2>1, <3>1
  <2>2. CASE ~IsTorn(f)
    BY <1>1, <1>3, <2>2
  <2>3. QED
    BY <2>1, <2>2
<1>5. QED
  BY <1>1, <1>3, <1>4

\* The server is up with what Complete(file) holds, whichever way it started.
LEMMA Started ==
  ASSUME LoadInv, Loaded(Complete(file)), UNCHANGED <<aof_load_truncated, executed, losses, durable, blocks>>,
         harm' = IF harm = "none" /\ InMulti(Complete(file)) THEN "half" ELSE harm
  PROVE  LoadInv'
<1>1. PICK c \in Seq(Records), k \in Nat :
        /\ c = Complete(file) /\ k = Len(c) /\ CmdsOf(c) = CmdsOf(file)
        /\ \A i \in 1 .. k : c[i] = file[i] /\ c[i] # Torn
        /\ synced \in 0 .. k /\ k <= Len(file)
  BY Found
<1>2. /\ phase' = "up" /\ file' = c /\ synced' = synced /\ data' = CmdsOf(c)
  BY <1>1 DEF Loaded, Smaller
<1>3. SameUpTo(c, file, k)
  BY <1>1 DEF SameUpTo
<1>4. Complete(c) = c
  BY <1>1, Untorn
<1>5. CmdsIn(c, k) \subseteq 1 .. executed
  <2>1. PICK m \in Nat : m = Len(file)
    BY FileFacts
  <2>2. \A i \in 1 .. k : i \in 1 .. m
    BY <1>1, <2>1
  <2>3. CmdsIn(c, k) \subseteq CmdsIn(file, m)
    BY <1>1, <2>2 DEF CmdsIn
  <2>4. QED
    BY <2>1, <2>3, FileFacts
<1>6. TypeOK'
  <2>1. data' \in Cmds
    BY <1>2, RangeOfCmds
  <2>2. Torn \notin Range(c)
    <3>1. DOMAIN c = 1 .. k
      BY <1>1, LenProperties
    <3>2. QED
      BY <1>1, <3>1 DEF Range
  <2>3. harm' \in {"none", "half", "fixed"}
    BY DEF LoadInv, TypeOK
  <2>4. QED
    BY <1>1, <1>2, <2>1, <2>2, <2>3 DEF LoadInv, TypeOK, Cmds
<1>7. TornInv'
  BY <1>1, <1>2 DEF TornInv
<1>8. SyncedInv'
  <2>1. CmdsIn(c, synced) = CmdsIn(file, synced) /\ (Closed(c, synced) <=> Closed(file, synced))
    BY <1>1, <1>3, SamePrefix
  <2>2. harm = "none" => \A i \in 1 .. k : Expected(c, i)
    <3>1. \A i \in 1 .. k : Expected(c, i) <=> Expected(file, i)
      BY <1>3, SamePrefix
    <3>2. harm = "none" => \A i \in 1 .. k : Expected(file, i)
      BY <1>1 DEF LoadInv, SyncedInv
    <3>3. QED
      BY <3>1, <3>2
  <2>3. harm' = "none" => harm = "none" /\ ~OpenAfter(c, k)
    BY <1>1 DEF InMulti
  <2>4. harm' = "none" => Closed(c, k)
    BY <2>2, <2>3 DEF Closed
  <2>5. harm' # "fixed" => durable' \subseteq CmdsIn(c, synced)
    BY <2>1 DEF LoadInv, SyncedInv
  <2>6. harm' = "none" => Closed(c, synced)
    BY <2>1, <2>3 DEF LoadInv, SyncedInv
  <2>7. QED
    BY <1>1, <1>2, <1>4, <2>2, <2>3, <2>4, <2>5, <2>6 DEF SyncedInv
<1>9. QED
  BY <1>1, <1>2, <1>5, <1>6, <1>7, <1>8 DEF LoadInv, FileIsData

LEMMA StepLoad == LoadInv /\ (Load \/ LoadShort) => LoadInv'
<1>1. ASSUME LoadInv, Load PROVE LoadInv'
  <2>1. ~IsTorn(file) /\ ~InMulti(file) /\ Complete(file) = file
    BY <1>1 DEF Load, Short, Complete
  <2>2. Loaded(Complete(file)) /\ UNCHANGED <<aof_load_truncated, executed, losses, durable, blocks, harm>>
    BY <1>1, <2>1 DEF Load, history
  <2>3. QED
    BY <1>1, <2>1, <2>2, Started
<1>2. ASSUME LoadInv, LoadShort PROVE LoadInv'
  BY <1>2, Started DEF LoadShort, ValidUpTo
<1>3. QED
  BY <1>1, <1>2

LEMMA StepRefused ==
  LoadInv /\ (RefuseShort \/ \E yes \in LoadTruncated : SetLoadTruncated(yes)) => LoadInv'
<1>1. SUFFICES ASSUME LoadInv, RefuseShort \/ \E yes \in LoadTruncated : SetLoadTruncated(yes)
               PROVE  LoadInv'
  OBVIOUS
<1>2. /\ phase' \in {"up", "down", "refused"} /\ (phase' = "up" => phase = "up")
      /\ aof_load_truncated' \in LoadTruncated
      /\ UNCHANGED <<file, synced, data, executed, losses, durable, blocks, harm>>
  BY <1>1 DEF RefuseShort, SetLoadTruncated, history, LoadInv, TypeOK
<1>3. TypeOK'
  BY <1>1, <1>2 DEF LoadInv, TypeOK
<1>4. QED
  BY <1>1, <1>2, <1>3, SameFile

LEMMA StepCheckAofFix == LoadInv /\ CheckAofFix => LoadInv'
<1>1. SUFFICES ASSUME LoadInv, CheckAofFix PROVE LoadInv'
  OBVIOUS
<1>2. PICK n : n = LastClosed
  OBVIOUS
<1>3. /\ phase' = "down" /\ file' = SubSeq(file, 1, n) /\ synced' = Smaller(synced, n)
      /\ harm' = IF harm = "half" THEN "fixed" ELSE harm
      /\ UNCHANGED <<data, aof_load_truncated, executed, losses, durable, blocks>>
  BY <1>1, <1>2 DEF CheckAofFix, OkUpTo
<1>4. PICK m \in Nat : m = Len(file) /\ synced \in 0 .. m /\ file \in Seq(Records)
  BY <1>1, FileFacts
<1>5. n \in 0 .. m /\ Closed(file, n) /\ \A k \in 0 .. m : Closed(file, k) => k <= n
  BY <1>2, <1>4, LastClosedFact
<1>6. PICK c \in Seq(Records) : c = file' /\ Len(c) = n /\ \A i \in 1 .. n : c[i] = file[i]
  BY <1>3, <1>4, <1>5, Cut
<1>7. SameUpTo(c, file, n) /\ n \in Nat
  BY <1>5, <1>6 DEF SameUpTo
<1>8. Closed(c, n)
  <2>1. n \in 0 .. n
    BY <1>7
  <2>2. QED
    BY <1>5, <1>7, <2>1, SamePrefix
<1>9. \A i \in 1 .. n : c[i] # Torn
  <2>1. \A i \in 1 .. n : Expected(c, i)
    BY <1>8 DEF Closed
  <2>2. QED
    BY <2>1, Kinds DEF Expected
<1>10. Complete(c) = c
  BY <1>6, <1>9, Untorn
<1>11. synced' \in 0 .. n /\ (harm = "none" => synced' = synced)
  <2>1. synced' \in 0 .. n
    BY <1>3, <1>4, <1>5 DEF Smaller
  <2>2. harm = "none" => synced <= n
    BY <1>1, <1>4, <1>5 DEF LoadInv, SyncedInv
  <2>3. QED
    BY <1>3, <1>4, <1>5, <2>1, <2>2 DEF Smaller
<1>12. CmdsIn(c, n) \subseteq 1 .. executed
  <2>1. \A i \in 1 .. n : i \in 1 .. m
    BY <1>5
  <2>2. CmdsIn(c, n) \subseteq CmdsIn(file, m)
    BY <1>6, <2>1 DEF CmdsIn
  <2>3. QED
    BY <1>1, <1>4, <2>2, FileFacts
<1>13. TypeOK'
  BY <1>1, <1>3, <1>6, <1>11 DEF LoadInv, TypeOK
<1>14. TornInv'
  BY <1>6, <1>9 DEF TornInv
<1>15. SyncedInv'
  <2>1. harm' # "fixed" => harm = "none"
    BY <1>1, <1>3 DEF LoadInv, TypeOK
  <2>2. harm = "none" => /\ synced \in 0 .. n /\ synced' = synced
                         /\ CmdsIn(c, synced) = CmdsIn(file, synced)
                         /\ (Closed(c, synced) <=> Closed(file, synced))
    BY <1>7, <1>11, SamePrefix
  <2>3. harm = "none" => durable' \subseteq CmdsIn(c, synced') /\ Closed(c, synced')
    BY <1>1, <1>3, <2>2 DEF LoadInv, SyncedInv
  <2>4. \A i \in 1 .. n : Expected(c, i)
    BY <1>8 DEF Closed
  <2>5. QED
    BY <1>3, <1>6, <1>10, <2>1, <2>3, <2>4 DEF SyncedInv
<1>16. QED
  BY <1>3, <1>6, <1>12, <1>13, <1>14, <1>15 DEF LoadInv, FileIsData

LEMMA InitInv == Init => LoadInv
<1>1. SUFFICES ASSUME Init PROVE LoadInv
  OBVIOUS
<1>2. PICK f : f = file /\ f = <<>> /\ Len(f) = 0 /\ f \in Seq(Records)
  BY <1>1, EmptySeq DEF Init
<1>3. synced = 0 /\ data = <<>> /\ executed = 0 /\ losses = 0 /\ durable = {} /\ blocks = {}
      /\ harm = "none" /\ phase = "up" /\ aof_load_truncated \in LoadTruncated
  BY <1>1 DEF Init
<1>4. <<>> \in Seq(1 .. MaxCmds) /\ DOMAIN f = {}
  BY <1>2, EmptySeq, LenProperties
<1>5. TypeOK
  BY <1>2, <1>3, <1>4, BoundsAssumption DEF TypeOK, Range
<1>6. CmdsIn(f, 0) = {} /\ Closed(f, 0)
  BY OpenStep DEF CmdsIn, Closed
<1>7. Complete(f) = f
  BY <1>2 DEF Complete, IsTorn
<1>8. CmdsOf(f) = data
  BY <1>2, <1>3, CmdsOfEmpty
<1>9. TornInv /\ SyncedInv
  BY <1>2, <1>3, <1>6, <1>7 DEF TornInv, SyncedInv
<1>10. QED
  BY <1>2, <1>3, <1>5, <1>6, <1>8, <1>9 DEF LoadInv, FileIsData

LEMMA NextInv == LoadInv /\ [Next]_vars => LoadInv'
<1>1. LoadInv /\ UNCHANGED vars => LoadInv'
  BY DEF vars, history, LoadInv, TypeOK, FileIsData, TornInv, SyncedInv
<1>2. QED
  BY <1>1, StepCommand, StepTransaction, StepSync, StepStop, StepPowerLoss, StepLoad,
     StepRefused, StepCheckAofFix DEF Next

-----------------------------------------------------------------------------
(* What is proved. *)

\* The invariant of every run of the server, its power losses and repairs.
THEOREM LoadInvariant == Safe => []LoadInv
BY InitInv, NextInv, PTL DEF Safe

\* Types; a server that has started never has an incomplete command in its file
\* (loadAppendOnlyFile truncates it or exits, aof.c:716-738).
THEOREM TypeCorrect == Safe => []TypeOK
<1>1. LoadInv => TypeOK
  BY DEF LoadInv
<1>2. QED
  BY <1>1, LoadInvariant, PTL

\* The dataset of a running server is what its next start would load, whatever
\* was torn, truncated, repaired and appended before.
THEOREM FileHoldsData == Safe => []FileIsData
<1>1. LoadInv => FileIsData
  BY DEF LoadInv
<1>2. QED
  BY <1>1, LoadInvariant, PTL

\* Every start keeps all commands that were ever synced, unless redis-check-aof
\* has cut a file that was loaded inside an open transaction.
THEOREM SyncedIsKept == Safe => []DurableKept
<1>1. LoadInv => DurableKept
  <2>1. SUFFICES ASSUME LoadInv, phase = "up", harm # "fixed" PROVE durable \subseteq Range(data)
    BY DEF DurableKept
  <2>2. PICK m \in Nat : m = Len(file) /\ synced \in 0 .. m /\ file \in Seq(Records) /\ CmdsOf(file) = data
    BY <2>1, FileFacts
  <2>3. \A i \in 1 .. synced : i \in 1 .. m
    BY <2>2
  <2>4. CmdsIn(file, synced) \subseteq CmdsIn(file, m)
    BY <2>3 DEF CmdsIn
  <2>5. durable \subseteq CmdsIn(file, synced)
    BY <2>1 DEF LoadInv, SyncedInv
  <2>6. QED
    BY <2>2, <2>4, <2>5, RangeOfCmds
<1>2. QED
  BY <1>1, LoadInvariant, PTL
=============================================================================
