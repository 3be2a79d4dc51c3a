--------------------------- MODULE DataInduction ----------------------------
(***************************************************************************)
(* Induction and recursion over data, for the proofs about recursive       *)
(* functions of the other modules.  The principles are stated of sets and  *)
(* functions, so that no fact cited takes an operator as a parameter: to   *)
(* prove P(n) for every n, form the set {n \in Nat : P(n)}.                *)
(***************************************************************************)
EXTENDS Integers, SequenceTheorems, WellFoundedInduction, TLAPS

\* Every non-empty set of natural numbers has a least element.
LEMMA LeastNat ==
  ASSUME NEW T \in SUBSET Nat, T # {}
  PROVE  \E x \in T : \A y \in T : x <= y
<1>1. PICK x \in T : \A y \in T : ~ (<<y, x>> \in OpToRel(<, Nat))
  BY WFMin, NatLessThanWellFounded, Zenon
<1>2. \A y \in T : ~ (y < x)
  BY <1>1, Zenon DEF OpToRel
<1>3. QED
  BY <1>2

\* Induction over the natural numbers.
LEMMA NatInduct ==
  ASSUME NEW T \in SUBSET Nat, 0 \in T, \A n \in T : n + 1 \in T
  PROVE  T = Nat
<1>1. SUFFICES ASSUME Nat \ T # {} PROVE FALSE
  OBVIOUS
<1>2. PICK x \in Nat \ T : \A y \in Nat \ T : x <= y
  BY <1>1, LeastNat
<1>3. x - 1 \in Nat /\ x - 1 \in T
  BY <1>2
<1>4. (x - 1) + 1 \in T
  BY <1>3
<1>5. QED
  BY <1>2, <1>4

\* ... up to a number.
LEMMA IntervalInduct ==
  ASSUME NEW m \in Nat, NEW T \in SUBSET (0 .. m),
         0 \in T, \A n \in T : n < m => n + 1 \in T
  PROVE  \A n \in 0 .. m : n \in T
<1>. DEFINE U == {n \in Nat : n <= m => n \in T}
<1>1. 0 \in U
  OBVIOUS
<1>2. ASSUME NEW n \in U PROVE n + 1 \in U
  <2>1. n \in Nat /\ (n <= m => n \in T)
    OBVIOUS
  <2>2. n + 1 <= m => n <= m /\ n < m
    BY <2>1
  <2>3. n + 1 <= m => n + 1 \in T
    BY <2>1, <2>2
  <2>4. QED
    BY <2>1, <2>3
<1>3. U \in SUBSET Nat
  OBVIOUS
<1>. HIDE DEF U
<1>4. U = Nat
  BY <1>1, <1>2, <1>3, NatInduct
<1>5. QED
  BY <1>4 DEF U

\* Induction over sequences, by their last element.
LEMMA SeqInduct ==
  ASSUME NEW S, NEW T \in SUBSET Seq(S),
         <<>> \in T, \A s \in T : \A e \in S : Append(s, e) \in T
  PROVE  T = Seq(S)
<1>. DEFINE N == {n \in Nat : \A s \in Seq(S) : Len(s) = n => s \in T}
<1>1. 0 \in N
  BY EmptySeq
<1>2. ASSUME NEW n \in N PROVE n + 1 \in N
  <2>1. SUFFICES ASSUME NEW s \in Seq(S), Len(s) = n + 1 PROVE s \in T
    OBVIOUS
  <2>. DEFINE front == SubSeq(s, 1, n)
  <2>2. \A i \in 1 .. n + 1 : s[i] \in S
    BY <2>1, ElementOfSeq
  <2>3. front \in Seq(S) /\ Len(front) = n /\ \A i \in 1 .. n : front[i] = s[i]
    <3>1. /\ front \in Seq(S)
          /\ Len(front) = IF 1 <= n THEN n - 1 + 1 ELSE 0
          /\ \A i \in 1 .. n - 1 + 1 : front[i] = s[1 + i - 1]
      BY <2>1, <2>2, SubSeqProperties
    <3>2. QED
      BY <3>1
  <2>. HIDE DEF front
  <2>4. /\ Append(front, s[n + 1]) \in Seq(S)
        /\ Len(Append(front, s[n + 1])) = n + 1
        /\ \A i \in 1 .. n : Append(front, s[n + 1])[i] = front[i]
        /\ Append(front, s[n + 1])[n + 1] = s[n + 1]
    BY <2>2, <2>3, AppendProperties
  <2>5. \A i \in 1 .. n + 1 : Append(front, s[n + 1])[i] = s[i]
    <3>1. TAKE i \in 1 .. n + 1
    <3>2. i \in 1 .. n \/ i = n + 1
      OBVIOUS
    <3>3. QED
      BY <2>3, <2>4, <3>2
  <2>6. s = Append(front, s[n + 1])
    BY <2>1, <2>4, <2>5, SeqEqual
  <2>7. front \in T /\ s[n + 1] \in S
    BY <2>2, <2>3
  <2>8. QED
    BY <2>6, <2>7
<1>. HIDE DEF N
<1>3. N = Nat
  BY <1>1, <1>2, NatInduct DEF N
<1>4. \A s \in Seq(S) : Len(s) \in Nat
  BY LenProperties
<1>5. QED
  BY <1>3, <1>4 DEF N

\* A function may be defined on 0 .. m by recursion, given its first value
\* and the step from each value to the next.  (The provers apply the lemma
\* with these definitions left unexpanded.)
IsStepOf(g, m, S)            == g \in [1 .. m -> [S -> S]]
IsRecursionOf(f, g, a, m, S) ==
  f \in [0 .. m -> S] /\ f[0] = a /\ \A n \in 1 .. m : f[n] = g[n][f[n - 1]]

LEMMA RecursionExists ==
  ASSUME NEW S, NEW m, m \in Nat, NEW a, a \in S, NEW g, IsStepOf(g, m, S)
  PROVE  \E f : IsRecursionOf(f, g, a, m, S)
<1>. USE DEF IsStepOf
<1>. DEFINE Good(k, f) == f[0] = a /\ \A n \in 1 .. k : f[n] = g[n][f[n - 1]]
            T == {k \in 0 .. m : \E f \in [0 .. k -> S] : Good(k, f)}
<1>1. 0 \in T
  <2>. DEFINE h == [i \in 0 .. 0 |-> a]
  <2>1. Good(0, h) /\ h \in [0 .. 0 -> S]
    OBVIOUS
  <2>. HIDE DEF h
  <2>2. QED
    BY <2>1
<1>2. ASSUME NEW k \in T, k < m PROVE k + 1 \in T
  <2>1. PICK f \in [0 .. k -> S] : Good(k, f)
    OBVIOUS
  <2>. DEFINE h == [i \in 0 .. k + 1 |-> IF i = k + 1 THEN g[k + 1][f[k]] ELSE f[i]]
  <2>2. k \in 0 .. m /\ k + 1 \in 1 .. m /\ f[k] \in S
    BY <1>2
  <2>3. g[k + 1][f[k]] \in S
    BY <2>2
  <2>4. h \in [0 .. k + 1 -> S]
    BY <2>3
  <2>5. h[0] = a
    BY <2>1, <2>2
  <2>6. ASSUME NEW n \in 1 .. k + 1 PROVE h[n] = g[n][h[n - 1]]
    <3>1. CASE n = k + 1
      <4>1. n - 1 = k /\ k \in 0 .. k + 1 /\ k # k + 1 /\ n \in 0 .. k + 1
        BY <2>2, <3>1
      <4>2. h[n] = g[k + 1][f[k]] /\ h[k] = f[k]
        BY <3>1, <4>1
      <4>3. QED
        BY <3>1, <4>1, <4>2
    <3>2. CASE n # k + 1
      <4>1. n \in 1 .. k /\ n - 1 \in 0 .. k /\ n - 1 # k + 1
        BY <2>2, <3>2
      <4>2. h[n] = f[n] /\ h[n - 1] = f[n - 1]
        BY <2>2, <4>1
      <4>3. QED
        BY <2>1, <4>1, <4>2
    <3>3. QED
      BY <3>1, <3>2
  <2>7. Good(k + 1, h)
    BY <2>5, <2>6
  <2>. HIDE DEF h
  <2>8. QED
    BY <2>2, <2>4, <2>7
<1>. HIDE DEF T
<1>3. \A n \in 0 .. m : n \in T
  <2>1. T \in SUBSET (0 .. m)
    BY DEF T
  <2>2. \A n \in T : n < m => n + 1 \in T
    BY <1>2
  <2>3. QED
    BY <1>1, <2>1, <2>2, IntervalInduct
<1>4. QED
  BY <1>3 DEF T, IsRecursionOf

\* ... and a function that obeys the recursion wherever its values are known
\* to lie in S has all of them there.
LEMMA RecursionMeets ==
  ASSUME NEW S, NEW m, m \in Nat, NEW a, a \in S, NEW g, IsStepOf(g, m, S),
         NEW h, h = [n \in 0 .. m |-> h[n]], h[0] = a,
         \A n \in 1 .. m : h[n - 1] \in S => h[n] = g[n][h[n - 1]]
  PROVE  IsRecursionOf(h, g, a, m, S)
<1>. USE DEF IsStepOf
<1>. DEFINE T == {n \in 0 .. m : h[n] \in S}
<1>1. 0 \in T
  OBVIOUS
<1>2. \A n \in T : n < m => n + 1 \in T
  <2>1. SUFFICES ASSUME NEW n \in T, n < m PROVE n + 1 \in T
    OBVIOUS
  <2>2. n + 1 \in 1 .. m /\ (n + 1) - 1 = n /\ h[n] \in S
    BY <2>1
  <2>3. h[n + 1] = g[n + 1][h[n]] /\ g[n + 1][h[n]] \in S
    BY <2>2
  <2>4. QED
    BY <2>2, <2>3
<1>3. T \in SUBSET (0 .. m)
  OBVIOUS
<1>. HIDE DEF T
<1>4. \A n \in 0 .. m : n \in T
  BY <1>1, <1>2, <1>3, IntervalInduct
<1>5. \A n \in 0 .. m : h[n] \in S
  BY <1>4 DEF T
<1>6. \A n \in 1 .. m : n - 1 \in 0 .. m
  OBVIOUS
<1>7. h \in [0 .. m -> S]
  BY <1>5
<1>8. \A n \in 1 .. m : h[n] = g[n][h[n - 1]]
  BY <1>5, <1>6
<1>9. QED
  BY <1>7, <1>8 DEF IsRecursionOf

-----------------------------------------------------------------------------
(* Facts about sequences. *)

\* What Append does, in a form the provers can cite of any element.
LEMMA Appended ==
  ASSUME NEW S, NEW s \in Seq(S), NEW e \in S
  PROVE  /\ Append(s, e) \in Seq(S) /\ Len(s) \in Nat /\ Len(Append(s, e)) = Len(s) + 1
         /\ \A i \in 1 .. Len(s) : Append(s, e)[i] = s[i]
         /\ Append(s, e)[Len(s) + 1] = e
BY AppendProperties, LenProperties

\* ... and what a concatenation does.
LEMMA Concatenated ==
  ASSUME NEW S, NEW s \in Seq(S), NEW t \in Seq(S)
  PROVE  /\ s \o t \in Seq(S) /\ Len(s) \in Nat /\ Len(t) \in Nat
         /\ Len(s \o t) = Len(s) + Len(t)
         /\ \A i \in 1 .. Len(s) : (s \o t)[i] = s[i]
         /\ \A i \in 1 .. Len(t) : (s \o t)[Len(s) + i] = t[i]
<1>1. /\ s \o t \in Seq(S) /\ Len(s \o t) = Len(s) + Len(t)
      /\ \A i \in 1 .. Len(s) + Len(t) :
           (s \o t)[i] = IF i <= Len(s) THEN s[i] ELSE t[i - Len(s)]
  BY ConcatProperties
<1>2. PICK m \in Nat, n \in Nat : m = Len(s) /\ n = Len(t)
  BY LenProperties
<1>3. \A i \in 1 .. m + n : (s \o t)[i] = IF i <= m THEN s[i] ELSE t[i - m]
  BY <1>1, <1>2
<1>4. \A i \in 1 .. m : i \in 1 .. m + n /\ i <= m
  OBVIOUS
<1>5. \A i \in 1 .. n : m + i \in 1 .. m + n /\ ~(m + i <= m) /\ (m + i) - m = i
  OBVIOUS
<1>6. (\A i \in 1 .. m : (s \o t)[i] = s[i]) /\ \A i \in 1 .. n : (s \o t)[m + i] = t[i]
  BY <1>3, <1>4, <1>5
<1>7. QED
  BY <1>1, <1>2, <1>6

\* Appending to the right part of a concatenation appends to the whole.
LEMMA ConcatAppend ==
  ASSUME NEW S, NEW s \in Seq(S), NEW t \in Seq(S), NEW e \in S
  PROVE  s \o Append(t, e) = Append(s \o t, e)
<1>1. s \o t \in Seq(S) /\ <<e>> \in Seq(S)
  BY ConcatProperties
<1>2. Append(s \o t, e) = (s \o t) \o <<e>>
  BY <1>1, AppendIsConcat
<1>3. Append(t, e) = t \o <<e>>
  BY AppendIsConcat
<1>4. QED
  BY <1>1, <1>2, <1>3, ConcatAssociative

\* A table of k + 1 values is that of the first k with the last appended.
LEMMA TableAppend ==
  ASSUME NEW S, NEW k \in Nat, NEW x, \A i \in 1 .. k + 1 : x[i] \in S
  PROVE  /\ [i \in 1 .. k |-> x[i]] \in Seq(S)
         /\ [i \in 1 .. k + 1 |-> x[i]] = Append([i \in 1 .. k |-> x[i]], x[k + 1])
<1>1. PICK t : t = [i \in 1 .. k |-> x[i]]
  OBVIOUS
<1>2. PICK u : u = [i \in 1 .. k + 1 |-> x[i]]
  OBVIOUS
<1>3. (\A i \in 1 .. k : i \in 1 .. k + 1) /\ k + 1 \in 1 .. k + 1
  OBVIOUS
<1>4. t \in Seq(S) /\ Len(t) = k /\ \A i \in 1 .. k : t[i] = x[i]
  BY <1>1, <1>3
<1>5. u \in Seq(S) /\ Len(u) = k + 1 /\ \A i \in 1 .. k + 1 : u[i] = x[i]
  BY <1>2
<1>6. /\ Append(t, x[k + 1]) \in Seq(S) /\ Len(Append(t, x[k + 1])) = k + 1
      /\ \A i \in 1 .. k : Append(t, x[k + 1])[i] = t[i]
      /\ Append(t, x[k + 1])[k + 1] = x[k + 1]
  BY <1>3, <1>4, Appended
<1>7. \A i \in 1 .. k + 1 : u[i] = Append(t, x[k + 1])[i]
  <2>1. \A i \in 1 .. k + 1 : i \in 1 .. k \/ i = k + 1
    OBVIOUS
  <2>2. QED
    BY <1>3, <1>4, <1>5, <1>6, <2>1
<1>8. u = Append(t, x[k + 1])
  BY <1>5, <1>6, <1>7, SeqEqual
<1>9. QED
  BY <1>1, <1>2, <1>4, <1>8
=============================================================================
