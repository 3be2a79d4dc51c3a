---- MODULE ClientsProofs ----
(***************************************************************************)
(* What holds of the clients of a server (Clients) whatever they send and  *)
(* however the event loop, the sockets and the time interleave: for every  *)
(* set of clients, keys, values and channels, every set of plays and every *)
(* bound on buffers and on the clock.                                      *)
(*                                                                         *)
(* The inductive invariant Inv has the server Good between two handlers:   *)
(* the lists it keeps agree with what the clients know of themselves (the  *)
(* one of the unblocked has at least those who are flagged), a list that   *)
(* someone waits for is about to be served, and who watches a key that has *)
(* changed is marked; and it has the Data of a server whose   *)
(* stream of commands says all it did.  None of the properties that TLC    *)
(* checks is inductive by itself: a client that is served must be where    *)
(* its keys lead to, and pushing for it changes keys that others watch.    *)
(*                                                                         *)
(* Inside a handler less is true, and Good(v, p, R, X) says how much: the  *)
(* keys in R are no longer listed as ready but not yet served, those in X  *)
(* have changed and are not yet signalled.  Every operation gets a lemma   *)
(* that says what it alters (Alters) and how it changes R and X; a part of *)
(* Good whose fields it does not alter is kept by Keeps.  Loops are folds: *)
(* RunsSteps names the states between their steps, over which the lemmas   *)
(* about loops argue by induction on the number of steps.  One lemma per   *)
(* command (.. Ran) and one per action (.. Holds) follow.                  *)
(***************************************************************************)
EXTENDS Clients, DataInduction, FiniteSetTheorems

\* No element comes twice.
Once(q) == \A i, j \in DOMAIN q : q[i] = q[j] => i = j

\* What a sequence has, by position.
LEMMA SetOfSeq ==
  ASSUME NEW S, NEW q \in Seq(S)
  PROVE  /\ DOMAIN q = 1 .. Len(q) /\ Len(q) \in Nat /\ ToSet(q) \subseteq S
         /\ q # <<>> => Len(q) > 0
         /\ \A e \in ToSet(q) : q # <<>>
         /\ q # <<>> => ToSet(q) # {}
         /\ \A i \in 1 .. Len(q) : q[i] \in ToSet(q)
         /\ \A e : e \in ToSet(q) <=> \E i \in 1 .. Len(q) : q[i] = e
BY DEF ToSet

\* Append adds one element, at the end.
LEMMA AppendSet ==
  ASSUME NEW S, NEW q \in Seq(S), NEW e \in S
  PROVE  /\ Append(q, e) \in Seq(S)
         /\ ToSet(Append(q, e)) = ToSet(q) \cup {e}
         /\ Once(q) /\ e \notin ToSet(q) => Once(Append(q, e))
<1>1. PICK n \in Nat : n = Len(q)
  BY LenProperties
<1>2. PICK r : r = Append(q, e)
  OBVIOUS
<1>3. /\ r \in Seq(S) /\ Len(r) = n + 1 /\ r[n + 1] = e
      /\ \A i \in 1 .. n : r[i] = q[i]
  BY <1>1, <1>2, Appended
<1>4. DOMAIN r = 1 .. n + 1 /\ DOMAIN q = 1 .. n
  BY <1>1, <1>3
<1>5. \A i \in 1 .. n + 1 : i \in 1 .. n \/ i = n + 1
  OBVIOUS
<1>6. (\A i \in 1 .. n : i \in 1 .. n + 1) /\ n + 1 \in 1 .. n + 1
  OBVIOUS
<1>7. ToSet(r) = ToSet(q) \cup {e}
  BY <1>3, <1>4, <1>5, <1>6 DEF ToSet
<1>8. ASSUME Once(q), e \notin ToSet(q) PROVE Once(r)
  <2>1. \A i, j \in 1 .. n : q[i] = q[j] => i = j
    BY <1>4, <1>8 DEF Once
  <2>2. \A i \in 1 .. n : q[i] # e
    BY <1>4, <1>8 DEF ToSet
  <2>3. \A i, j \in 1 .. n + 1 : r[i] = r[j] => i = j
    BY <1>3, <1>5, <2>1, <2>2, Zenon
  <2>4. QED
    BY <1>4, <2>3 DEF Once
<1>9. QED
  BY <1>2, <1>3, <1>7, <1>8

\* The same of a concatenation ...
LEMMA ConcatSet ==
  ASSUME NEW S, NEW p \in Seq(S), NEW q \in Seq(S)
  PROVE  p \o q \in Seq(S) /\ ToSet(p \o q) = ToSet(p) \cup ToSet(q)
<1>1. PICK m \in Nat, n \in Nat : m = Len(p) /\ n = Len(q)
  BY LenProperties
<1>2. PICK r : r = p \o q
  OBVIOUS
<1>3. /\ r \in Seq(S) /\ Len(r) = m + n
      /\ (\A i \in 1 .. m : r[i] = p[i]) /\ \A i \in 1 .. n : r[m + i] = q[i]
  BY <1>1, <1>2, Concatenated
<1>4. DOMAIN r = 1 .. m + n /\ DOMAIN p = 1 .. m /\ DOMAIN q = 1 .. n
  BY <1>1, <1>3
<1>5. \A i \in 1 .. m + n : i \in 1 .. m \/ \E j \in 1 .. n : i = m + j
  <2>1. TAKE i \in 1 .. m + n
  <2>2. CASE i > m
    <3>1. i - m \in 1 .. n /\ i = m + (i - m)
      BY <2>2
    <3>2. QED
      BY <3>1
  <2>3. QED
    BY <2>2
<1>6. (\A i \in 1 .. m : i \in 1 .. m + n) /\ \A i \in 1 .. n : m + i \in 1 .. m + n
  OBVIOUS
<1>7. ASSUME NEW e PROVE e \in ToSet(r) <=> e \in ToSet(p) \/ e \in ToSet(q)
  <2>1. e \in ToSet(r) <=> \E i \in 1 .. m + n : r[i] = e
    BY <1>4 DEF ToSet
  <2>2. e \in ToSet(p) <=> \E i \in 1 .. m : p[i] = e
    BY <1>4 DEF ToSet
  <2>3. e \in ToSet(q) <=> \E i \in 1 .. n : q[i] = e
    BY <1>4 DEF ToSet
  <2>4. QED
    BY <1>3, <1>5, <1>6, <2>1, <2>2, <2>3, Zenon
<1>8. QED
  BY <1>2, <1>3, <1>7

\* ... and of the tail, which loses the first.
LEMMA TailSet ==
  ASSUME NEW S, NEW q \in Seq(S), q # <<>>
  PROVE  Head(q) \in ToSet(q) /\ Tail(q) \in Seq(S) /\ ToSet(q) = {Head(q)} \cup ToSet(Tail(q))
<1>1. PICK n \in Nat \ {0} : n = Len(q)
  BY LenProperties, EmptySeq
<1>2. PICK r : r = Tail(q)
  OBVIOUS
<1>3. r \in Seq(S) /\ Len(r) = n - 1 /\ Head(q) = q[1] /\ \A i \in 1 .. n - 1 : r[i] = q[i + 1]
  BY <1>1, <1>2, HeadTailProperties
<1>4. DOMAIN r = 1 .. n - 1 /\ DOMAIN q = 1 .. n
  BY <1>1, <1>3
<1>5. \A i \in 1 .. n : i = 1 \/ \E j \in 1 .. n - 1 : i = j + 1
  <2>1. TAKE i \in 1 .. n
  <2>2. CASE i # 1
    <3>1. i - 1 \in 1 .. n - 1 /\ i = (i - 1) + 1
      BY <2>2
    <3>2. QED
      BY <3>1
  <2>3. QED
    BY <2>2
<1>6. 1 \in 1 .. n /\ \A i \in 1 .. n - 1 : i + 1 \in 1 .. n
  OBVIOUS
<1>7. ASSUME NEW e PROVE e \in ToSet(q) <=> e = Head(q) \/ e \in ToSet(r)
  <2>1. e \in ToSet(r) <=> \E i \in 1 .. n - 1 : r[i] = e
    BY <1>4 DEF ToSet
  <2>2. e \in ToSet(q) <=> \E i \in 1 .. n : q[i] = e
    BY <1>4 DEF ToSet
  <2>3. QED
    BY <1>3, <1>5, <1>6, <2>1, <2>2, Zenon
<1>8. QED
  BY <1>2, <1>3, <1>7

\* Without takes the first node that names c.
LEMMA WithoutIs ==
  ASSUME NEW S, NEW q \in Seq(S), NEW c
  PROVE  /\ Without(q, c) \in Seq(S)
         /\ ToSet(q) \ {c} \subseteq ToSet(Without(q, c))
         /\ ToSet(Without(q, c)) \subseteq ToSet(q)
         /\ Once(q) => Once(Without(q, c)) /\ ToSet(Without(q, c)) = ToSet(q) \ {c}
<1>1. CASE c \notin ToSet(q)
  BY <1>1 DEF Without
<1>2. CASE c \in ToSet(q)
  <2>1. PICK n \in Nat : n = Len(q) /\ DOMAIN q = 1 .. n
    BY LenProperties
  <2>2. PICK T : T = {i \in 1 .. n : q[i] = c}
    OBVIOUS
  <2>3. T \in SUBSET Nat /\ T # {}
    BY <1>2, <2>1, <2>2 DEF ToSet
  <2>4. PICK m \in T : \A i \in T : m <= i
    BY <2>3, LeastNat
  <2>5. \E h \in DOMAIN q : q[h] = c /\ \A j \in 1..(h - 1) : q[j] # c
    <3>1. m \in 1 .. n /\ q[m] = c
      BY <2>2, <2>4
    <3>2. \A j \in 1 .. (m - 1) : j \in 1 .. n /\ ~(m <= j)
      BY <3>1
    <3>3. \A j \in 1 .. (m - 1) : q[j] # c
      BY <2>2, <2>4, <3>2
    <3>4. QED
      BY <2>1, <3>1, <3>3
  <2>6. PICK k \in 1 .. n : k = (CHOOSE h \in DOMAIN q : q[h] = c /\ \A j \in 1..(h - 1) : q[j] # c)
    BY <2>1, <2>5
  <2>7. q[k] = c
    BY <2>1, <2>5, <2>6, Zenon
  <2>8. PICK r : r = SubSeq(q, 1, k - 1) \o SubSeq(q, k + 1, n)
    OBVIOUS
  <2>9. Without(q, c) = r
    BY <1>2, <2>1, <2>6, <2>8, Zenon DEF Without, RemoveAt
  <2>10. PICK a : a = SubSeq(q, 1, k - 1)
    OBVIOUS
  <2>11. PICK b : b = SubSeq(q, k + 1, n)
    OBVIOUS
  <2>. DEFINE In == \A i \in 1 .. n : q[i] \in S
  <2>12. In
    BY <2>1
  <2>13. /\ a \in Seq(S) /\ Len(a) = k - 1 /\ \A i \in 1 .. k - 1 : a[i] = q[i]
    <3>1. \A i \in 1 .. (k - 1) : q[i] \in S
      BY <2>12
    <3>2. /\ a \in Seq(S)
          /\ Len(a) = IF 1 <= k - 1 THEN (k - 1) - 1 + 1 ELSE 0
          /\ \A i \in 1 .. (k - 1) - 1 + 1 : a[i] = q[1 + i - 1]
      BY <2>10, <3>1, SubSeqProperties
    <3>3. QED
      BY <3>2
  <2>14. /\ b \in Seq(S) /\ Len(b) = n - k /\ \A i \in 1 .. n - k : b[i] = q[k + i]
    <3>1. \A i \in (k + 1) .. n : q[i] \in S
      BY <2>12
    <3>2. /\ b \in Seq(S)
          /\ Len(b) = IF k + 1 <= n THEN n - (k + 1) + 1 ELSE 0
          /\ \A i \in 1 .. n - (k + 1) + 1 : b[i] = q[(k + 1) + i - 1]
      BY <2>11, <3>1, SubSeqProperties
    <3>3. PICK d \in Nat : d = n - k
      OBVIOUS
    <3>4. n - (k + 1) + 1 = d /\ (IF k + 1 <= n THEN n - (k + 1) + 1 ELSE 0) = d
      BY <3>3
    <3>5. Len(b) = d /\ \A i \in 1 .. d : b[i] = q[(k + 1) + i - 1]
      BY <3>2, <3>4
    <3>6. \A i \in 1 .. d : (k + 1) + i - 1 = k + i
      BY <3>3
    <3>7. \A i \in 1 .. d : b[i] = q[k + i]
      BY <3>5, <3>6
    <3>8. QED
      BY <3>2, <3>3, <3>5, <3>7
  <2>15. /\ r \in Seq(S) /\ Len(r) = n - 1
         /\ \A i \in 1 .. k - 1 : r[i] = q[i]
         /\ \A i \in 1 .. n - k : r[k - 1 + i] = q[k + i]
    <3>1. PICK la \in Nat, lb \in Nat : la = k - 1 /\ lb = n - k
      OBVIOUS
    <3>2. /\ r \in Seq(S) /\ Len(r) = la + lb
          /\ (\A i \in 1 .. la : r[i] = a[i]) /\ \A i \in 1 .. lb : r[la + i] = b[i]
      <4>1. r = a \o b
        BY <2>8, <2>10, <2>11, Zenon
      <4>2. PICK x \in Seq(S), y \in Seq(S) : x = a /\ y = b
        BY <2>13, <2>14
      <4>3. la = Len(x) /\ lb = Len(y)
        BY <2>13, <2>14, <3>1, <4>2
      <4>4. r = x \o y
        BY <4>1, <4>2
      <4>5. /\ r \in Seq(S) /\ Len(r) = la + lb
            /\ \A i \in 1 .. la : r[i] = x[i]
            /\ \A i \in 1 .. lb : r[la + i] = y[i]
        BY <4>3, <4>4, Concatenated
      <4>6. QED
        BY <4>2, <4>5, Zenon
    <3>3. \A i \in 1 .. la : r[i] = q[i]
      BY <2>13, <3>1, <3>2
    <3>4. \A i \in 1 .. lb : r[la + i] = q[k + i]
      BY <2>14, <3>1, <3>2
    <3>5. la + lb = n - 1
      BY <3>1
    <3>6. QED
      BY <3>1, <3>2, <3>3, <3>4, <3>5
  <2>16. \A i \in 1 .. n - 1 : r[i] = IF i < k THEN q[i] ELSE q[i + 1]
    <3>1. TAKE i \in 1 .. n - 1
    <3>2. CASE i < k
      BY <2>15, <3>2
    <3>3. CASE ~(i < k)
      <4>1. i - k + 1 \in 1 .. n - k /\ k - 1 + (i - k + 1) = i /\ k + (i - k + 1) = i + 1
        BY <3>3
      <4>2. QED
        BY <2>15, <3>3, <4>1
    <3>4. QED
      BY <3>2, <3>3
  <2>17. DOMAIN r = 1 .. n - 1
    BY <2>15
  <2>18. \A i \in 1 .. n - 1 : i \in 1 .. n /\ i + 1 \in 1 .. n
    OBVIOUS
  <2>19. ToSet(r) \subseteq ToSet(q)
    BY <2>1, <2>16, <2>17, <2>18 DEF ToSet
  <2>20. ToSet(q) \ {c} \subseteq ToSet(r)
    <3>1. SUFFICES ASSUME NEW i \in 1 .. n, q[i] # c PROVE q[i] \in ToSet(r)
      BY <2>1 DEF ToSet
    <3>2. i # k
      BY <2>7, <3>1
    <3>3. \E j \in 1 .. n - 1 : r[j] = q[i]
      <4>1. CASE i < k
        <5>1. i \in 1 .. n - 1
          BY <4>1
        <5>2. QED
          BY <2>16, <4>1, <5>1
      <4>2. CASE ~(i < k)
        <5>1. i - 1 \in 1 .. n - 1 /\ ~(i - 1 < k) /\ (i - 1) + 1 = i
          BY <3>2, <4>2
        <5>2. QED
          BY <2>16, <5>1
      <4>3. QED
        BY <4>1, <4>2
    <3>4. QED
      BY <2>17, <3>3 DEF ToSet
  <2>21. ASSUME Once(q) PROVE Once(r) /\ c \notin ToSet(r)
    <3>1. \A i, j \in 1 .. n : q[i] = q[j] => i = j
      BY <2>1, <2>21 DEF Once
    <3>2. ASSUME NEW i \in 1 .. n - 1, NEW j \in 1 .. n - 1, r[i] = r[j] PROVE i = j
      <4>1. PICK x \in 1 .. n : x = IF i < k THEN i ELSE i + 1
        OBVIOUS
      <4>2. PICK y \in 1 .. n : y = IF j < k THEN j ELSE j + 1
        OBVIOUS
      <4>3. q[x] = r[i] /\ q[y] = r[j]
        BY <2>16, <4>1, <4>2
      <4>4. x = y
        BY <3>1, <3>2, <4>3
      <4>5. QED
        BY <4>1, <4>2, <4>4
    <3>3. ASSUME NEW i \in 1 .. n - 1 PROVE r[i] # c
      <4>1. PICK x \in 1 .. n : x = (IF i < k THEN i ELSE i + 1) /\ x # k
        OBVIOUS
      <4>2. q[x] = r[i]
        BY <2>16, <4>1
      <4>3. QED
        BY <2>7, <3>1, <4>1, <4>2
    <3>4. QED
      BY <2>17, <3>2, <3>3 DEF Once, ToSet
  <2>22. QED
    BY <2>9, <2>15, <2>19, <2>20, <2>21
<1>3. QED
  BY <1>1, <1>2

-----------------------------------------------------------------------------
(* What an operation on the server leaves alone. *)

Fields == {"c", "clients", "db", "copy", "pushed", "gone", "watchers", "waiting", "ready", "isready",
           "channels", "patterns", "unblocked", "toclose", "slave", "paused", "pauseend", "now", "mstime"}
CFields == {"up", "flags", "in", "out", "got", "queue", "watched", "seen", "keys", "target", "timeout",
            "head", "subs", "pats"}
Shape(v) == DOMAIN v = Fields /\ DOMAIN v.c = Clients /\ \A x \in Clients : DOMAIN v.c[x] = CFields

\* At most the fields in F, those in G of clients, and the flags in L change.
Alters(u, v, F, G, L) ==
    /\ Shape(u)
    /\ \A f \in Fields \ (F \cup {"c"}) : u[f] = v[f]
    /\ \A x \in Clients : \A g \in CFields \ (G \cup {"flags"}) : u.c[x][g] = v.c[x][g]
    /\ \A x \in Clients : \A f : f \notin L => (f \in u.c[x].flags <=> f \in v.c[x].flags)

\* One operation after another: with the same fields, with more of them, with those of both, none.
LEMMA AltersTrans ==
  ASSUME NEW u, NEW v, NEW w, NEW F, NEW G, NEW L, Alters(u, v, F, G, L), Alters(w, u, F, G, L)
  PROVE  Alters(w, v, F, G, L)
BY Zenon DEF Alters

LEMMA AltersMore ==
  ASSUME NEW u, NEW v, NEW F, NEW G, NEW L, Alters(u, v, F, G, L),
         NEW F2, NEW G2, NEW L2, F \subseteq F2, G \subseteq G2, L \subseteq L2
  PROVE  Alters(u, v, F2, G2, L2)
BY DEF Alters

LEMMA AltersMoreOf ==
  ASSUME NEW u, NEW v, NEW F, NEW G, NEW L, Alters(u, v, F, G, L), NEW F2, F \subseteq F2
  PROVE  Alters(u, v, F2, G, L)
BY DEF Alters

LEMMA AltersJoin ==
  ASSUME NEW u, NEW v, NEW w, NEW F1, NEW G1, NEW L1, NEW F2, NEW G2, NEW L2,
         Alters(u, v, F1, G1, L1), Alters(w, u, F2, G2, L2),
         NEW F, NEW G, NEW L, F1 \cup F2 \subseteq F, G1 \cup G2 \subseteq G, L1 \cup L2 \subseteq L
  PROVE  Alters(w, v, F, G, L)
<1>1. Alters(u, v, F, G, L) /\ Alters(w, u, F, G, L)
  BY AltersMore
<1>2. QED
  BY <1>1, AltersTrans

LEMMA AltersNot ==
  ASSUME NEW v, Shape(v), NEW F, NEW G, NEW L
  PROVE  Alters(v, v, F, G, L)
BY DEF Alters

-----------------------------------------------------------------------------
(* What leaves the copy alone, and who the master is; and the data too. *)

Wrote(u, v) == /\ u.copy = v.copy /\ u.slave = v.slave
               /\ \A x \in Clients : "master" \in u.c[x].flags => "master" \in v.c[x].flags
Same(u, v) == u.db = v.db /\ Wrote(u, v)

\* Of one operation, and of one after the other.
LEMMA AltersWrote ==
  ASSUME NEW u, NEW v, NEW F, NEW G, NEW L, Alters(u, v, F, G, L), F \cap {"copy", "slave"} = {}, "master" \notin L
  PROVE  Wrote(u, v)
<1>1. u.copy = v.copy /\ u.slave = v.slave
  BY Zenon DEF Alters, Fields
<1>2. \A x \in Clients : "master" \in u.c[x].flags <=> "master" \in v.c[x].flags
  BY Zenon DEF Alters
<1>3. QED
  BY <1>1, <1>2 DEF Wrote
LEMMA AltersSame ==
  ASSUME NEW u, NEW v, NEW F, NEW G, NEW L, Alters(u, v, F, G, L), F \cap {"db", "copy", "slave"} = {}, "master" \notin L
  PROVE  Same(u, v)
<1>1. u.db = v.db
  BY Zenon DEF Alters, Fields
<1>2. F \cap {"copy", "slave"} = {}
  OBVIOUS
<1>3. QED
  BY <1>1, <1>2, AltersWrote DEF Same
LEMMA SameSelf == ASSUME NEW v PROVE Same(v, v)
BY DEF Same, Wrote
LEMMA WroteTrans == ASSUME NEW u, NEW v, NEW w, Wrote(u, v), Wrote(w, u) PROVE Wrote(w, v)
BY DEF Wrote
LEMMA SameTrans == ASSUME NEW u, NEW v, NEW w, Same(u, v), Same(w, u) PROVE Same(w, v)
BY DEF Same, Wrote

-----------------------------------------------------------------------------
(* The parts of the invariant, each about a few fields of the server. *)

\* The list of clients has those that are connected.
Ups(v) ==
    /\ v.clients \in Seq(Clients) /\ Once(v.clients)
    /\ \A x \in Clients : v.c[x].up <=> x \in ToSet(v.clients)

\* A client has no flags and no links when it is gone.
NoFlags(v) == \A x \in Clients : ~v.c[x].up => v.c[x].flags = {}
NoLinks(v) == \A x \in Clients : ~v.c[x].up => v.c[x].watched = <<>> /\ v.c[x].subs = {} /\ v.c[x].pats = <<>>

\* A key leads to the clients that watch it ...
Watches(v) ==
    /\ DOMAIN v.watchers = Keys
    /\ \A k \in Keys : v.watchers[k] \in Seq(Clients) /\ Once(v.watchers[k])
    /\ \A x \in Clients : v.c[x].watched \in Seq(Keys) /\ ToSet(v.c[x].watched) \subseteq DOMAIN v.c[x].seen
    /\ \A x \in Clients : \A k \in Keys : x \in ToSet(v.watchers[k]) <=> k \in ToSet(v.c[x].watched)

\* ... and to those that wait for it, which are blocked.
Waits(v) ==
    /\ DOMAIN v.waiting = Keys
    /\ \A k \in Keys : v.waiting[k] \in Seq(Clients) /\ Once(v.waiting[k])
    /\ \A x \in Clients : v.c[x].keys \in SUBSET Keys /\ v.c[x].target \in Keys \cup {None}
    /\ \A x \in Clients : v.c[x].target # None => v.c[x].head = FALSE
    /\ \A x \in Clients : v.c[x].keys # {} => "blocked" \in v.c[x].flags
    /\ \A x \in Clients : \A k \in Keys : x \in ToSet(v.waiting[k]) <=> k \in v.c[x].keys

\* A channel leads to those who listen to it, and so does the list of patterns.
Listens(v) ==
    /\ DOMAIN v.channels = Channels
    /\ \A ch \in Channels : v.channels[ch] \in Seq(Clients) /\ Once(v.channels[ch])
    /\ \A x \in Clients : v.c[x].subs \in SUBSET Channels
    /\ \A x \in Clients : \A ch \in Channels : x \in ToSet(v.channels[ch]) <=> ch \in v.c[x].subs
Patterns(v) ==
    /\ v.patterns \in Seq(Clients \X SUBSET Channels) /\ Once(v.patterns)
    /\ \A x \in Clients : v.c[x].pats \in Seq(SUBSET Channels) /\ Once(v.c[x].pats)
    /\ \A x \in Clients : \A q \in SUBSET Channels : <<x, q>> \in ToSet(v.patterns) <=> q \in ToSet(v.c[x].pats)

\* Clients to be closed, and those that go on after they were unblocked.
Closes(v) ==
    /\ v.toclose \in Seq(Clients) /\ Once(v.toclose)
    /\ \A x \in Clients : x \in ToSet(v.toclose) <=> "close_asap" \in v.c[x].flags
Unblocks(v) ==
    /\ v.unblocked \in Seq(Clients)
    /\ \A x \in Clients : "unblocked" \in v.c[x].flags => x \in ToSet(v.unblocked)

\* What the query buffers and the queues of transactions have was sent.
MayQueue(cmd) == cmd.op \notin NotQueued \cup {"quit", "nosuch", "part", "noise"}
Sent(v, p) ==
    \A x \in Clients : /\ v.c[x].in \in Seq(SentBy(p, x)) /\ v.c[x].queue \in Seq(SentBy(p, x))
                       /\ \A cmd \in ToSet(v.c[x].queue) : MayQueue(cmd)
                       /\ "master" \in v.c[x].flags => x \in Plays[p].master

\* Keys that hold a list and that someone waits for are ready to be served, or in
\* R: about to be served.
Serves(v, R) ==
    /\ DOMAIN v.db = Keys /\ v.ready \in Seq(Keys) /\ v.isready \subseteq ToSet(v.ready) \cup R
    /\ \A k \in Keys : IsList(v.db[k]) /\ v.waiting[k] # <<>> => k \in ToSet(v.ready) \cup R

\* Whoever watches a key that has changed knows it, but for the keys in X, which are
\* still to be signalled; and so does who watches a key that is ready.
Dirty(v, x) == "dirty_cas" \in v.c[x].flags
Sees(v, R, X) ==
    \A x \in Clients : \A k \in ToSet(v.c[x].watched) :
        k \in X \/ Dirty(v, x) \/ (v.db[k] = v.c[x].seen[k] /\ k \notin ToSet(v.ready) \cup R)

Good(v, p, R, X) ==
    /\ Shape(v) /\ Ups(v) /\ NoFlags(v) /\ NoLinks(v) /\ Watches(v) /\ Waits(v) /\ Listens(v) /\ Patterns(v)
    /\ Closes(v) /\ Unblocks(v) /\ Sent(v, p) /\ Serves(v, R) /\ Sees(v, R, X)

\* The parts that an operation does not disturb.
LEMMA KeepsUps ==
  ASSUME NEW u, NEW v, NEW F, NEW G, NEW L, Alters(u, v, F, G, L), "clients" \notin F, "up" \notin G, Ups(v)
  PROVE  Ups(u)
<1>1. u.clients = v.clients /\ \A x \in Clients : u.c[x].up = v.c[x].up
  BY Zenon DEF Alters, Fields, CFields
<1>2. QED
  BY <1>1, Zenon DEF Ups
LEMMA KeepsNoFlags ==
  ASSUME NEW u, NEW v, NEW F, NEW G, NEW L, Alters(u, v, F, G, L), "up" \notin G, L = {}, NoFlags(v)
  PROVE  NoFlags(u)
<1>1. \A x \in Clients : u.c[x].up = v.c[x].up /\ \A f : f \in u.c[x].flags <=> f \in v.c[x].flags
  BY Zenon DEF Alters, CFields
<1>2. QED
  BY <1>1, Zenon DEF NoFlags
LEMMA KeepsNoLinks ==
  ASSUME NEW u, NEW v, NEW F, NEW G, NEW L, Alters(u, v, F, G, L), G \cap {"up", "watched", "subs", "pats"} = {}, NoLinks(v)
  PROVE  NoLinks(u)
<1>1. \A x \in Clients : /\ u.c[x].up = v.c[x].up /\ u.c[x].watched = v.c[x].watched
                         /\ u.c[x].subs = v.c[x].subs /\ u.c[x].pats = v.c[x].pats
  BY Zenon DEF Alters, CFields
<1>2. QED
  BY <1>1, Zenon DEF NoLinks
LEMMA KeepsWatches ==
  ASSUME NEW u, NEW v, NEW F, NEW G, NEW L, Alters(u, v, F, G, L), "watchers" \notin F, G \cap {"watched", "seen"} = {}, Watches(v)
  PROVE  Watches(u)
<1>1. u.watchers = v.watchers /\ \A x \in Clients : u.c[x].watched = v.c[x].watched /\ u.c[x].seen = v.c[x].seen
  BY Zenon DEF Alters, Fields, CFields
<1>2. QED
  BY <1>1, Zenon DEF Watches
LEMMA KeepsWaits ==
  ASSUME NEW u, NEW v, NEW F, NEW G, NEW L, Alters(u, v, F, G, L), "waiting" \notin F,
         G \cap {"keys", "target", "head"} = {}, "blocked" \notin L, Waits(v)
  PROVE  Waits(u)
<1>1. /\ u.waiting = v.waiting
      /\ \A x \in Clients : /\ u.c[x].keys = v.c[x].keys /\ u.c[x].target = v.c[x].target /\ u.c[x].head = v.c[x].head
                            /\ "blocked" \in u.c[x].flags <=> "blocked" \in v.c[x].flags
  BY Zenon DEF Alters, Fields, CFields
<1>2. QED
  BY <1>1, Zenon DEF Waits
LEMMA KeepsListens ==
  ASSUME NEW u, NEW v, NEW F, NEW G, NEW L, Alters(u, v, F, G, L), "channels" \notin F, "subs" \notin G, Listens(v)
  PROVE  Listens(u)
<1>1. u.channels = v.channels /\ \A x \in Clients : u.c[x].subs = v.c[x].subs
  BY Zenon DEF Alters, Fields, CFields
<1>2. QED
  BY <1>1, Zenon DEF Listens
LEMMA KeepsPatterns ==
  ASSUME NEW u, NEW v, NEW F, NEW G, NEW L, Alters(u, v, F, G, L), "patterns" \notin F, "pats" \notin G, Patterns(v)
  PROVE  Patterns(u)
<1>1. u.patterns = v.patterns /\ \A x \in Clients : u.c[x].pats = v.c[x].pats
  BY Zenon DEF Alters, Fields, CFields
<1>2. QED
  BY <1>1, Zenon DEF Patterns
LEMMA KeepsCloses ==
  ASSUME NEW u, NEW v, NEW F, NEW G, NEW L, Alters(u, v, F, G, L), "toclose" \notin F, "close_asap" \notin L, Closes(v)
  PROVE  Closes(u)
<1>1. u.toclose = v.toclose /\ \A x \in Clients : "close_asap" \in u.c[x].flags <=> "close_asap" \in v.c[x].flags
  BY Zenon DEF Alters, Fields
<1>2. QED
  BY <1>1, Zenon DEF Closes
LEMMA KeepsUnblocks ==
  ASSUME NEW u, NEW v, NEW F, NEW G, NEW L, Alters(u, v, F, G, L), "unblocked" \notin F, "unblocked" \notin L, Unblocks(v)
  PROVE  Unblocks(u)
<1>1. u.unblocked = v.unblocked /\ \A x \in Clients : "unblocked" \in u.c[x].flags <=> "unblocked" \in v.c[x].flags
  BY Zenon DEF Alters, Fields
<1>2. QED
  BY <1>1, Zenon DEF Unblocks
LEMMA KeepsSent ==
  ASSUME NEW u, NEW v, NEW F, NEW G, NEW L, Alters(u, v, F, G, L), G \cap {"in", "queue"} = {}, "master" \notin L,
         NEW p, Sent(v, p)
  PROVE  Sent(u, p)
<1>1. \A x \in Clients : /\ u.c[x].in = v.c[x].in /\ u.c[x].queue = v.c[x].queue
                         /\ "master" \in u.c[x].flags <=> "master" \in v.c[x].flags
  BY Zenon DEF Alters, CFields
<1>2. QED
  BY <1>1, Zenon DEF Sent
LEMMA KeepsServes ==
  ASSUME NEW u, NEW v, NEW F, NEW G, NEW L, Alters(u, v, F, G, L), F \cap {"db", "ready", "isready", "waiting"} = {},
         NEW R, Serves(v, R)
  PROVE  Serves(u, R)
<1>1. u.db = v.db /\ u.ready = v.ready /\ u.isready = v.isready /\ u.waiting = v.waiting
  BY Zenon DEF Alters, Fields
<1>2. QED
  BY <1>1, Zenon DEF Serves
LEMMA KeepsSees ==
  ASSUME NEW u, NEW v, NEW F, NEW G, NEW L, Alters(u, v, F, G, L), F \cap {"db", "ready"} = {},
         G \cap {"watched", "seen"} = {}, "dirty_cas" \notin L, NEW R, NEW X, Sees(v, R, X)
  PROVE  Sees(u, R, X)
<1>1. /\ u.db = v.db /\ u.ready = v.ready
      /\ \A x \in Clients : /\ u.c[x].watched = v.c[x].watched /\ u.c[x].seen = v.c[x].seen
                            /\ "dirty_cas" \in u.c[x].flags <=> "dirty_cas" \in v.c[x].flags
  BY Zenon DEF Alters, Fields, CFields
<1>2. \A x \in Clients : Dirty(u, x) <=> Dirty(v, x)
  BY <1>1 DEF Dirty
<1>3. QED
  BY <1>1, <1>2, ZenonT(60) DEF Sees

\* All of them, as they are cited.
LEMMA Keeps ==
  ASSUME NEW u, NEW v, NEW F, NEW G, NEW L, Alters(u, v, F, G, L), NEW p, NEW R, NEW X, Good(v, p, R, X)
  PROVE  /\ Shape(u)
         /\ "clients" \notin F /\ "up" \notin G => Ups(u)
         /\ "up" \notin G /\ L = {} => NoFlags(u)
         /\ G \cap {"up", "watched", "subs", "pats"} = {} => NoLinks(u)
         /\ "watchers" \notin F /\ G \cap {"watched", "seen"} = {} => Watches(u)
         /\ "waiting" \notin F /\ G \cap {"keys", "target", "head"} = {} /\ "blocked" \notin L => Waits(u)
         /\ "channels" \notin F /\ "subs" \notin G => Listens(u)
         /\ "patterns" \notin F /\ "pats" \notin G => Patterns(u)
         /\ "toclose" \notin F /\ "close_asap" \notin L => Closes(u)
         /\ "unblocked" \notin F \cup L => Unblocks(u)
         /\ G \cap {"in", "queue"} = {} /\ "master" \notin L => Sent(u, p)
         /\ F \cap {"db", "ready", "isready", "waiting"} = {} => Serves(u, R)
         /\ F \cap {"db", "ready"} = {} /\ G \cap {"watched", "seen"} = {} /\ "dirty_cas" \notin L => Sees(u, R, X)
<1>1. Shape(u)
  BY DEF Alters
<1>2. /\ Ups(v) /\ NoFlags(v) /\ NoLinks(v) /\ Watches(v) /\ Waits(v) /\ Listens(v) /\ Patterns(v)
      /\ Closes(v) /\ Unblocks(v) /\ Sent(v, p) /\ Serves(v, R) /\ Sees(v, R, X)
  BY DEF Good
<1>3. /\ "clients" \notin F /\ "up" \notin G => Ups(u)
      /\ "up" \notin G /\ L = {} => NoFlags(u)
      /\ G \cap {"up", "watched", "subs", "pats"} = {} => NoLinks(u)
  BY <1>2, KeepsUps, KeepsNoFlags, KeepsNoLinks, Zenon
<1>4. /\ "watchers" \notin F /\ G \cap {"watched", "seen"} = {} => Watches(u)
      /\ "waiting" \notin F /\ G \cap {"keys", "target", "head"} = {} /\ "blocked" \notin L => Waits(u)
      /\ "channels" \notin F /\ "subs" \notin G => Listens(u)
      /\ "patterns" \notin F /\ "pats" \notin G => Patterns(u)
  BY <1>2, KeepsWatches, KeepsWaits, KeepsListens, KeepsPatterns, Zenon
<1>5. /\ "toclose" \notin F /\ "close_asap" \notin L => Closes(u)
      /\ "unblocked" \notin F \cup L => Unblocks(u)
      /\ G \cap {"in", "queue"} = {} /\ "master" \notin L => Sent(u, p)
  BY <1>2, KeepsCloses, KeepsUnblocks, KeepsSent, Zenon
<1>6. /\ F \cap {"db", "ready", "isready", "waiting"} = {} => Serves(u, R)
      /\ F \cap {"db", "ready"} = {} /\ G \cap {"watched", "seen"} = {} /\ "dirty_cas" \notin L => Sees(u, R, X)
  BY <1>2, KeepsServes, KeepsSees, Zenon
<1>7. QED
  BY <1>1, <1>3, <1>4, <1>5, <1>6, Zenon

-----------------------------------------------------------------------------
(* Flags and replies. *)

\* Flags without a meaning to the lists of the server.
Plain == {"multi", "dirty_cas", "dirty_exec", "pubsub", "close_after_reply"}

\* A flag is raised or cleared: nothing else changes.
LEMMA RaiseAlters ==
  ASSUME NEW v, Shape(v), NEW c \in Clients, NEW f
  PROVE  Alters(Raise(v, c, f), v, {}, {}, {f}) /\ \A x \in Clients : v.c[x].flags \subseteq Raise(v, c, f).c[x].flags
BY Zenon DEF Raise, Alters, Shape, Fields, CFields

LEMMA RaiseIs ==
  ASSUME NEW v, Shape(v), NEW c \in Clients, NEW f
  PROVE  /\ Raise(v, c, f).c[c].flags = v.c[c].flags \cup {f}
         /\ \A x \in Clients : x # c => Raise(v, c, f).c[x] = v.c[x]
BY Zenon DEF Raise, Shape, Fields, CFields

LEMMA ClearIs ==
  ASSUME NEW v, Shape(v), NEW c \in Clients, NEW E
  PROVE  /\ Clear(v, c, E).c[c].flags = v.c[c].flags \ E
         /\ \A x \in Clients : x # c => Clear(v, c, E).c[x] = v.c[x]
         /\ Alters(Clear(v, c, E), v, {}, {}, E)
BY Zenon DEF Clear, Shape, Fields, CFields, Alters

\* The client is there; or had the flag before.
LEMMA RaiseNoFlags ==
  ASSUME NEW v, Shape(v), NoFlags(v), NEW c \in Clients, NEW f, v.c[c].up \/ f \in v.c[c].flags
  PROVE  NoFlags(Raise(v, c, f))
<1>1. PICK u : u = Raise(v, c, f)
  OBVIOUS
<1>2. \A x \in Clients : u.c[x].up = v.c[x].up /\ (x # c => u.c[x].flags = v.c[x].flags)
  BY <1>1, Zenon DEF Raise, Shape, Fields, CFields
<1>3. u.c[c].flags = v.c[c].flags \cup {f}
  BY <1>1, Zenon DEF Raise, Shape, Fields, CFields
<1>4. v.c[c].up
  BY Zenon DEF NoFlags
<1>5. QED
  BY <1>1, <1>2, <1>3, <1>4, Zenon DEF NoFlags

\* More clients know that a watched key has changed.
LEMMA SeesMore ==
  ASSUME NEW u, NEW v, NEW R, NEW X, Sees(v, R, X), u.db = v.db, u.ready = v.ready,
         \A x \in Clients : u.c[x].watched = v.c[x].watched /\ u.c[x].seen = v.c[x].seen,
         \A x \in Clients : Dirty(v, x) => Dirty(u, x)
  PROVE  Sees(u, R, X)
<1>1. SUFFICES ASSUME NEW x \in Clients, NEW k \in ToSet(u.c[x].watched)
               PROVE  k \in X \/ Dirty(u, x) \/ (u.db[k] = u.c[x].seen[k] /\ k \notin ToSet(u.ready) \cup R)
  BY DEF Sees
<1>2. k \in ToSet(v.c[x].watched)
  BY <1>1
<1>3. k \in X \/ Dirty(v, x) \/ (v.db[k] = v.c[x].seen[k] /\ k \notin ToSet(v.ready) \cup R)
  BY <1>2 DEF Sees
<1>4. QED
  BY <1>3

\* A flag without a meaning to the lists, and the one of a changed watched key.
LEMMA RaiseGood ==
  ASSUME NEW v, NEW p, NEW R, NEW X, Good(v, p, R, X), NEW c \in Clients, v.c[c].up, NEW f \in Plain
  PROVE  Good(Raise(v, c, f), p, R, X)
<1>1. PICK u : u = Raise(v, c, f)
  OBVIOUS
<1>2. Alters(u, v, {}, {}, {f}) /\ \A x \in Clients : v.c[x].flags \subseteq u.c[x].flags
  BY <1>1, RaiseAlters DEF Good
<1>3. /\ f \notin {"blocked", "close_asap", "unblocked", "master"}
  BY DEF Plain
<1>4. /\ Shape(u) /\ Ups(u) /\ NoLinks(u) /\ Watches(u) /\ Waits(u) /\ Listens(u) /\ Patterns(u) /\ Closes(u)
      /\ Unblocks(u) /\ Sent(u, p) /\ Serves(u, R)
  BY <1>2, <1>3, Keeps
<1>5. NoFlags(u)
  BY <1>1, RaiseNoFlags DEF Good
<1>6. Sees(u, R, X)
  <2>1. /\ u.db = v.db /\ u.ready = v.ready
        /\ \A x \in Clients : u.c[x].watched = v.c[x].watched /\ u.c[x].seen = v.c[x].seen
    BY <1>2, Zenon DEF Alters, Fields, CFields
  <2>2. \A x \in Clients : Dirty(v, x) => Dirty(u, x)
    BY <1>2 DEF Dirty
  <2>3. Sees(v, R, X)
    BY DEF Good
  <2>4. QED
    BY <2>1, <2>2, <2>3, SeesMore
<1>7. QED
  BY <1>1, <1>4, <1>5, <1>6 DEF Good

\* freeClientAsync: the flag and the list go together.
LEMMA FreeClientAsyncGood ==
  ASSUME NEW v, NEW p, NEW R, NEW X, Good(v, p, R, X), NEW c \in Clients, v.c[c].up
  PROVE  /\ Good(FreeClientAsync(v, c), p, R, X)
         /\ Alters(FreeClientAsync(v, c), v, {"toclose"}, {}, {"close_asap"})
<1>1. CASE "close_asap" \in v.c[c].flags
  <2>1. FreeClientAsync(v, c) = v
    BY <1>1 DEF FreeClientAsync, Has
  <2>2. Shape(v)
    BY DEF Good
  <2>3. QED
    BY <2>1, <2>2, AltersNot
<1>2. CASE "close_asap" \notin v.c[c].flags
  <2>1. PICK r : r = Raise(v, c, "close_asap")
    OBVIOUS
  <2>2. PICK u : u = [r EXCEPT !.toclose = Append(@, c)]
    OBVIOUS
  <2>3. FreeClientAsync(v, c) = u
    BY <1>2, <2>1, <2>2 DEF FreeClientAsync, Has
  <2>4. Alters(r, v, {}, {}, {"close_asap"})
    BY <2>1, RaiseAlters DEF Good
  <2>5. r.toclose = v.toclose
    BY <2>4, Zenon DEF Alters, Fields
  <2>6. u.c = r.c /\ u.toclose = Append(v.toclose, c) /\ Alters(u, r, {"toclose"}, {}, {})
    BY <2>2, <2>4, <2>5, Zenon DEF Alters, Shape, Fields
  <2>7. Alters(u, v, {"toclose"}, {}, {"close_asap"})
    BY <2>4, <2>6, AltersJoin
  <2>8. /\ Shape(u) /\ Ups(u) /\ NoLinks(u) /\ Watches(u) /\ Waits(u) /\ Listens(u) /\ Patterns(u)
        /\ Unblocks(u) /\ Sent(u, p) /\ Serves(u, R) /\ Sees(u, R, X)
    BY <2>7, Keeps
  <2>9. NoFlags(u)
    <3>1. NoFlags(r)
      BY <2>1, RaiseNoFlags DEF Good
    <3>2. QED
      BY <2>6, <3>1 DEF NoFlags
  <2>10. Closes(u)
    <3>1. Closes(v)
      BY DEF Good
    <3>2. \A x \in Clients : "close_asap" \in u.c[x].flags <=> "close_asap" \in v.c[x].flags \/ x = c
      <4>1. r.c[c].flags = v.c[c].flags \cup {"close_asap"} /\ \A x \in Clients : x # c => r.c[x] = v.c[x]
        BY <2>1, RaiseIs DEF Good
      <4>2. QED
        BY <2>6, <4>1
    <3>3. /\ v.toclose \in Seq(Clients) /\ Once(v.toclose) /\ c \notin ToSet(v.toclose)
      BY <1>2, <3>1 DEF Closes
    <3>4. /\ u.toclose \in Seq(Clients) /\ Once(u.toclose) /\ ToSet(u.toclose) = ToSet(v.toclose) \cup {c}
      BY <2>6, <3>3, AppendSet
    <3>5. QED
      BY <3>1, <3>2, <3>4, Zenon DEF Closes
  <2>11. QED
    BY <2>3, <2>7, <2>8, <2>9, <2>10 DEF Good
<1>3. QED
  BY <1>1, <1>2

\* The output buffer has no meaning to the lists.
LEMMA OutGood ==
  ASSUME NEW v, NEW p, NEW R, NEW X, Good(v, p, R, X), NEW c \in Clients, NEW o
  PROVE  /\ Good([v EXCEPT !.c[c].out = o], p, R, X)
         /\ Alters([v EXCEPT !.c[c].out = o], v, {}, {"out"}, {})
<1>1. PICK u : u = [v EXCEPT !.c[c].out = o]
  OBVIOUS
<1>2. Alters(u, v, {}, {"out"}, {})
  BY <1>1, Zenon DEF Good, Alters, Shape, Fields, CFields
<1>3. Good(u, p, R, X)
  BY <1>2, Keeps DEF Good
<1>4. QED
  BY <1>1, <1>2, <1>3

Replied(u, v) == Alters(u, v, {"toclose"}, {"out"}, {"close_asap"})
\* An answer: the client may have to be closed, nothing else changes.
LEMMA ReplyWithGood ==
  ASSUME NEW v, NEW p, NEW R, NEW X, Good(v, p, R, X), NEW c \in Clients, NEW t, NEW e
  PROVE  Good(ReplyWith(v, c, t, e), p, R, X) /\ Replied(ReplyWith(v, c, t, e), v)
<1>1. CASE Has(v, c, "master") \/ Has(v, c, "close_after_reply")
  <2>1. ReplyWith(v, c, t, e) = v
    BY <1>1 DEF ReplyWith
  <2>2. Shape(v)
    BY DEF Good
  <2>3. QED
    BY <2>1, <2>2, AltersNot DEF Replied
<1>2. CASE ~(Has(v, c, "master") \/ Has(v, c, "close_after_reply"))
  <2>1. PICK o : o = Append(v.c[c].out, [t |-> t, e |-> e])
    OBVIOUS
  <2>2. PICK r : r = [v EXCEPT !.c[c].out = o]
    OBVIOUS
  <2>3. ReplyWith(v, c, t, e) = IF OverLimit(r, c) THEN FreeClientAsync(r, c) ELSE r
    BY <1>2, <2>1, <2>2, Zenon DEF ReplyWith
  <2>4. Good(r, p, R, X) /\ Alters(r, v, {}, {"out"}, {})
    BY <2>2, OutGood
  <2>5. Replied(r, v)
    BY <2>4, AltersMore DEF Replied
  <2>6. ASSUME OverLimit(r, c) PROVE Good(FreeClientAsync(r, c), p, R, X) /\ Replied(FreeClientAsync(r, c), v)
    <3>1. r.c[c].up
      <4>1. NoFlags(r)
        BY <2>4 DEF Good
      <4>2. "pubsub" \in r.c[c].flags
        BY <2>6 DEF OverLimit, Has
      <4>3. QED
        BY <4>1, <4>2 DEF NoFlags
    <3>2. Good(FreeClientAsync(r, c), p, R, X) /\ Alters(FreeClientAsync(r, c), r, {"toclose"}, {}, {"close_asap"})
      BY <2>4, <3>1, FreeClientAsyncGood
    <3>3. Replied(FreeClientAsync(r, c), r)
      BY <3>2, AltersMore DEF Replied
    <3>4. QED
      BY <2>5, <3>2, <3>3, AltersTrans DEF Replied
  <2>7. QED
    BY <2>3, <2>4, <2>5, <2>6
<1>3. QED
  BY <1>1, <1>2

LEMMA ReplyGood ==
  ASSUME NEW v, NEW p, NEW R, NEW X, Good(v, p, R, X), NEW c \in Clients, NEW t
  PROVE  Good(Reply(v, c, t), p, R, X) /\ Replied(Reply(v, c, t), v)
BY ReplyWithGood DEF Reply

\* Flags that may go at any time.
LEMMA ClearGood ==
  ASSUME NEW v, NEW p, NEW R, NEW X, Good(v, p, R, X), NEW c \in Clients, NEW E,
         E \subseteq {"multi", "dirty_exec", "pubsub", "unblocked"}
  PROVE  Good(Clear(v, c, E), p, R, X)
<1>1. PICK u : u = Clear(v, c, E)
  OBVIOUS
<1>2. Alters(u, v, {}, {}, E)
  BY <1>1, ClearIs DEF Good
<1>3. E \cap {"blocked", "close_asap", "master", "dirty_cas"} = {}
  OBVIOUS
<1>4. /\ Shape(u) /\ Ups(u) /\ NoLinks(u) /\ Watches(u) /\ Waits(u) /\ Listens(u) /\ Patterns(u) /\ Closes(u)
      /\ Sent(u, p) /\ Serves(u, R) /\ Sees(u, R, X)
  BY <1>2, <1>3, Keeps
<1>5. \A x \in Clients : u.c[x].flags \subseteq v.c[x].flags
  BY <1>1, ClearIs DEF Good
<1>6. NoFlags(u)
  <2>1. \A x \in Clients : u.c[x].up = v.c[x].up
    BY <1>2, Zenon DEF Alters, CFields
  <2>2. NoFlags(v)
    BY DEF Good
  <2>3. QED
    BY <1>5, <2>1, <2>2, Zenon DEF NoFlags
<1>7. Unblocks(u)
  <2>1. u.unblocked = v.unblocked
    BY <1>2, Zenon DEF Alters, Fields
  <2>2. QED
    BY <1>5, <2>1 DEF Good, Unblocks
<1>8. QED
  BY <1>1, <1>4, <1>6, <1>7 DEF Good

-----------------------------------------------------------------------------
(* One operation after the other.  The lemma needs the operation by name. *)

FlushOne(u, x) == IF \E k \in ToSet(u.c[x].watched) : u.db[k] # NoKey THEN Raise(u, x, "dirty_cas") ELSE u
DisconnectOne(u, x) == IF Has(u, x, "blocked")
                       THEN Raise(UnblockClient(Reply(u, x, "unblocked"), x), x, "close_after_reply") ELSE u
ServeOne(u, k, x) == IF u.db[k] = <<>> THEN u ELSE ServeClient(u, k, x)
TellOne(u, ch, x) == IF ch \in x[2] THEN Reply(u, x[1], "pmessage") ELSE u
GoOne(u, x) == IF Has(u, x, "blocked") THEN u
               ELSE [Raise(u, x, "unblocked") EXCEPT !.unblocked = Append(@, x)]
UnsetOne(u, x) == IF Has(u, x, "master") THEN FreeClient(u, x) ELSE u

Step(how, k, c, u, x) ==
    CASE how = "dirty" -> Raise(u, x, "dirty_cas")
      [] how = "flush" -> FlushOne(u, x)
      [] how = "disconnect" -> DisconnectOne(u, x)
      [] how = "serve" -> ServeOne(u, k, x)
      [] how = "servekey" -> ServeKey(u, x)
      [] how = "servekeys" -> ServeKeys(u)
      [] how = "unsubscribe" -> UnsubscribePattern(u, c, x)
      [] how = "message" -> Reply(u, x, "message")
      [] how = "pmessage" -> TellOne(u, k, x)
      [] how = "free" -> FreeClient(u, x)
      [] how = "timeout" -> HandleTimeout(u, x)
      [] how = "pause" -> GoOne(u, x)
      [] how = "unset" -> UnsetOne(u, x)
      [] how = "exec" -> Call(u, c, x)

Runs(f, how, k, c, a, n, q) == f = [i \in 0 .. n |-> IF i = 0 THEN a ELSE Step(how, k, c, f[i - 1], q[i])]

\* The states between the steps of a loop, by induction on their number.
LEMMA StepsExist ==
  ASSUME NEW how, NEW k, NEW c, NEW a, NEW n \in Nat, NEW q
  PROVE  \E f : Runs(f, how, k, c, a, n, q)
<1>. DEFINE T == {m \in 0 .. n : \E f : Runs(f, how, k, c, a, m, q)}
<1>1. 0 \in T
  <2>1. PICK f : f = [i \in 0 .. 0 |-> a]
    OBVIOUS
  <2>2. \A i \in 0 .. 0 : i = 0
    OBVIOUS
  <2>3. f = [i \in 0 .. 0 |-> IF i = 0 THEN a ELSE Step(how, k, c, f[i - 1], q[i])]
    BY <2>1, <2>2
  <2>4. QED
    BY <2>3 DEF Runs
<1>2. \A m \in T : m < n => m + 1 \in T
  <2>1. SUFFICES ASSUME NEW m \in T, m < n PROVE m + 1 \in T
    OBVIOUS
  <2>2. PICK j \in 0 .. n : j = m /\ j + 1 \in 0 .. n
    BY <2>1
  <2>3. PICK f : Runs(f, how, k, c, a, j, q)
    BY <2>2
  <2>4. PICK last : last = Step(how, k, c, f[j], q[j + 1])
    OBVIOUS
  <2>5. PICK g : g = [i \in 0 .. j + 1 |-> IF i = j + 1 THEN last ELSE f[i]]
    OBVIOUS
  <2>6. \A i \in 0 .. j + 1 : g[i] = IF i = 0 THEN a ELSE Step(how, k, c, g[i - 1], q[i])
    <3>1. TAKE i \in 0 .. j + 1
    <3>2. CASE i = j + 1
      <4>1. i # 0 /\ i - 1 = j /\ j \in 0 .. j + 1 /\ j # j + 1
        BY <3>2
      <4>2. g[i] = last /\ g[i - 1] = f[j]
        BY <2>5, <3>2, <4>1
      <4>3. QED
        BY <2>4, <3>2, <4>1, <4>2
    <3>3. CASE i # j + 1
      <4>1. i \in 0 .. j /\ (i # 0 => i - 1 \in 0 .. j + 1 /\ i - 1 # j + 1)
        BY <3>3
      <4>2. g[i] = f[i] /\ (i # 0 => g[i - 1] = f[i - 1])
        BY <2>5, <3>3, <4>1
      <4>3. f[i] = IF i = 0 THEN a ELSE Step(how, k, c, f[i - 1], q[i])
        BY <2>3, <4>1 DEF Runs
      <4>4. QED
        BY <4>2, <4>3
    <3>4. QED
      BY <3>2, <3>3
  <2>7. Runs(g, how, k, c, a, j + 1, q)
    BY <2>5, <2>6 DEF Runs
  <2>8. QED
    BY <2>2, <2>7
<1>3. T \in SUBSET (0 .. n)
  OBVIOUS
<1>. HIDE DEF T
<1>4. \A m \in 0 .. n : m \in T
  BY <1>1, <1>2, <1>3, IntervalInduct
<1>5. QED
  BY <1>4 DEF T

\* A sequence is a function on its positions.
LEMMA Upto ==
  ASSUME NEW n \in Nat
  PROVE  0 \in 0 .. n /\ \A i \in 1 .. n : i \in 0 .. n /\ i # 0
OBVIOUS

\* A loop over a sequence ends in the last of its states ...
LEMMA RunsSteps ==
  ASSUME NEW how, NEW k, NEW c, NEW a, NEW n \in Nat, NEW q, NEW f, Runs(f, how, k, c, a, n, q)
  PROVE  f[0] = a /\ \A i \in 1 .. n : f[i] = Step(how, k, c, f[i - 1], q[i])
BY DEF Runs

\* ... the loop of touchWatchedKey.
LEMMA TouchSteps ==
  ASSUME NEW v, NEW k, NEW q, q = v.watchers[k], q \in Seq(Clients)
  PROVE  \E f : /\ f[0] = v /\ TouchWatchedKey(v, k) = f[Len(q)]
                /\ \A i \in 1 .. Len(q) : f[i] = Raise(f[i - 1], q[i], "dirty_cas")
<1>1. \A u, x : Step("dirty", k, None, u, x) = Raise(u, x, "dirty_cas")
  BY DEF Step
<1>2. PICK g : Runs(g, "dirty", k, None, v, Len(q), q)
  BY StepsExist, LenProperties
<1>3. g = [i \in 0 .. Len(q) |-> IF i = 0 THEN v ELSE Raise(g[i - 1], q[i], "dirty_cas")]
  BY <1>1, <1>2 DEF Runs
<1>. DEFINE h == CHOOSE h : h = [i \in 0 .. Len(q) |-> IF i = 0 THEN v ELSE Raise(h[i - 1], q[i], "dirty_cas")]
<1>4. h = [i \in 0 .. Len(q) |-> IF i = 0 THEN v ELSE Raise(h[i - 1], q[i], "dirty_cas")]
  BY <1>3
<1>5. TouchWatchedKey(v, k) = h[Len(q)]
  BY Zenon DEF TouchWatchedKey, ForEach
<1>. HIDE DEF h
<1>6. h[0] = v /\ \A i \in 1 .. Len(q) : h[i] = Raise(h[i - 1], q[i], "dirty_cas")
  BY <1>4, LenProperties
<1>7. QED
  BY <1>5, <1>6

-----------------------------------------------------------------------------
(* WATCH. *)

AllDirty(v, k) == \A x \in Clients : k \in ToSet(v.c[x].watched) => Dirty(v, x)
Touched(u, v) == Alters(u, v, {}, {}, {"dirty_cas"})

\* Everybody who watches the key knows that it has changed.
LEMMA TouchGood ==
  ASSUME NEW v, NEW p, NEW R, NEW X, Good(v, p, R, X), NEW k \in Keys
  PROVE  /\ Good(TouchWatchedKey(v, k), p, R, X \ {k})
         /\ Touched(TouchWatchedKey(v, k), v) /\ AllDirty(TouchWatchedKey(v, k), k)
<1>1. PICK q \in Seq(Clients) : q = v.watchers[k]
  BY DEF Good, Watches
<1>2. PICK n \in Nat : n = Len(q) /\ DOMAIN q = 1 .. n /\ \A i \in 1 .. n : q[i] \in Clients
  BY LenProperties
<1>3. PICK f : /\ f[0] = v /\ TouchWatchedKey(v, k) = f[n]
               /\ \A i \in 1 .. n : f[i] = Raise(f[i - 1], q[i], "dirty_cas")
  BY <1>1, <1>2, TouchSteps
<1>. DEFINE T == {i \in 0 .. n : /\ Good(f[i], p, R, X) /\ Touched(f[i], v)
                                 /\ \A j \in 1 .. i : Dirty(f[i], q[j])}
<1>4. 0 \in T
  BY <1>3, AltersNot DEF Good, Touched
<1>5. \A i \in T : i < n => i + 1 \in T
  <2>1. SUFFICES ASSUME NEW i \in T, i < n PROVE i + 1 \in T
    OBVIOUS
  <2>2. PICK j \in 0 .. n : j = i /\ j + 1 \in 1 .. n /\ (j + 1) - 1 = j
    BY <2>1
  <2>3. PICK u : u = f[j]
    OBVIOUS
  <2>4. Good(u, p, R, X) /\ Touched(u, v) /\ \A h \in 1 .. j : Dirty(u, q[h])
    BY <2>2, <2>3
  <2>5. PICK w : w = Raise(u, q[j + 1], "dirty_cas")
    OBVIOUS
  <2>6. f[j + 1] = w
    BY <1>3, <2>2, <2>3, <2>5
  <2>7. PICK x \in Clients : x = q[j + 1]
    BY <1>2, <2>2
  <2>8. u.c[x].up
    <3>1. x \in ToSet(v.watchers[k])
      BY <1>1, <1>2, <2>2, <2>7 DEF ToSet
    <3>2. k \in ToSet(v.c[x].watched) /\ v.c[x].watched \in Seq(Keys)
      BY <3>1 DEF Good, Watches
    <3>3. v.c[x].watched # <<>>
      BY <3>2, SetOfSeq
    <3>4. v.c[x].up
      BY <3>3 DEF Good, NoLinks
    <3>5. u.c[x].up = v.c[x].up
      BY <2>4, Zenon DEF Touched, Alters, CFields
    <3>6. QED
      BY <3>4, <3>5
  <2>9. Good(w, p, R, X)
    BY <2>4, <2>5, <2>7, <2>8, RaiseGood DEF Plain
  <2>10. Alters(w, u, {}, {}, {"dirty_cas"})
    BY <2>4, <2>5, <2>7, RaiseAlters DEF Good
  <2>11. Touched(w, v)
    BY <2>4, <2>10, AltersTrans DEF Touched
  <2>12. \A y \in Clients : (Dirty(u, y) => Dirty(w, y)) /\ (y = x => Dirty(w, y))
    BY <2>4, <2>5, <2>7, RaiseIs, RaiseAlters DEF Dirty, Good
  <2>13. \A h \in 1 .. j + 1 : h \in 1 .. j \/ h = j + 1
    OBVIOUS
  <2>14. \A h \in 1 .. j : q[h] \in Clients
    BY <1>2
  <2>15. \A h \in 1 .. j + 1 : Dirty(w, q[h])
    BY <2>4, <2>7, <2>12, <2>13, <2>14
  <2>16. QED
    BY <2>2, <2>6, <2>9, <2>11, <2>15
<1>6. T \in SUBSET (0 .. n)
  OBVIOUS
<1>. HIDE DEF T
<1>7. \A i \in 0 .. n : i \in T
  BY <1>4, <1>5, <1>6, IntervalInduct
<1>8. PICK u : u = f[n]
  OBVIOUS
<1>9. Good(u, p, R, X) /\ Touched(u, v) /\ \A j \in 1 .. n : Dirty(u, q[j])
  BY <1>7, <1>8 DEF T
<1>10. AllDirty(u, k)
  <2>1. SUFFICES ASSUME NEW x \in Clients, k \in ToSet(u.c[x].watched) PROVE Dirty(u, x)
    BY DEF AllDirty
  <2>2. u.watchers = v.watchers
    BY <1>9, Zenon DEF Touched, Alters, Fields
  <2>3. x \in ToSet(u.watchers[k])
    BY <1>9, <2>1 DEF Good, Watches
  <2>4. \E j \in 1 .. n : q[j] = x
    BY <1>1, <1>2, <2>2, <2>3 DEF ToSet
  <2>5. QED
    BY <1>9, <2>4
<1>11. Sees(u, R, X \ {k})
  <2>1. SUFFICES ASSUME NEW x \in Clients, NEW j \in ToSet(u.c[x].watched)
                 PROVE  j \in X \ {k} \/ Dirty(u, x) \/ (u.db[j] = u.c[x].seen[j] /\ j \notin ToSet(u.ready) \cup R)
    BY DEF Sees
  <2>2. CASE j = k
    BY <1>10, <2>1, <2>2 DEF AllDirty
  <2>3. CASE j # k
    BY <1>9, <2>1, <2>3 DEF Good, Sees
  <2>4. QED
    BY <2>2, <2>3
<1>12. Good(u, p, R, X \ {k})
  BY <1>9, <1>11 DEF Good
<1>13. QED
  BY <1>3, <1>8, <1>9, <1>10, <1>12

\* watchForKey: the client is in the list of the key, with what it saw.
LEMMA WatchForKeyGood ==
  ASSUME NEW v, NEW p, Good(v, p, {}, {}), v.ready = <<>>, NEW c \in Clients, v.c[c].up, NEW k \in Keys
  PROVE  /\ Good(WatchForKey(v, c, k), p, {}, {})
         /\ Alters(WatchForKey(v, c, k), v, {"watchers"}, {"watched", "seen"}, {})
<1>1. CASE k \in ToSet(v.c[c].watched)
  <2>1. WatchForKey(v, c, k) = v
    BY <1>1 DEF WatchForKey
  <2>2. Shape(v)
    BY DEF Good
  <2>3. QED
    BY <2>1, <2>2, AltersNot
<1>2. CASE k \notin ToSet(v.c[c].watched)
  <2>1. PICK seen : seen = [j \in DOMAIN v.c[c].seen \cup {k} |-> IF j = k THEN v.db[k] ELSE v.c[c].seen[j]]
    OBVIOUS
  <2>2. PICK u : u = [v EXCEPT !.watchers[k] = Append(@, c), !.c[c].watched = Append(@, k), !.c[c].seen = seen]
    OBVIOUS
  <2>3. WatchForKey(v, c, k) = u
    BY <1>2, <2>1, <2>2, Zenon DEF WatchForKey
  <2>4. Shape(v) /\ Watches(v) /\ v.watchers[k] \in Seq(Clients) /\ v.c[c].watched \in Seq(Keys)
    BY DEF Good, Watches
  <2>5. Alters(u, v, {"watchers"}, {"watched", "seen"}, {})
    BY <2>2, <2>4, ZenonT(60) DEF Alters, Shape, Fields, CFields
  <2>6. /\ u.watchers = [v.watchers EXCEPT ![k] = Append(@, c)]
        /\ u.c[c].watched = Append(v.c[c].watched, k) /\ u.c[c].seen = seen
        /\ \A x \in Clients : x # c => u.c[x] = v.c[x]
    BY <2>2, <2>4, Zenon DEF Shape, Fields, CFields
  <2>7. /\ Shape(u) /\ Ups(u) /\ NoFlags(u) /\ Waits(u) /\ Listens(u) /\ Patterns(u) /\ Closes(u)
        /\ Unblocks(u) /\ Sent(u, p) /\ Serves(u, {})
    BY <2>5, Keeps
  <2>8. NoLinks(u)
    <3>1. \A x \in Clients : u.c[x].up = v.c[x].up
      BY <2>5, Zenon DEF Alters, CFields
    <3>2. QED
      BY <2>6, <3>1, Zenon DEF Good, NoLinks
  <2>9. /\ Append(v.c[c].watched, k) \in Seq(Keys)
        /\ ToSet(Append(v.c[c].watched, k)) = ToSet(v.c[c].watched) \cup {k}
    BY <2>4, AppendSet
  <2>10. Watches(u)
    <3>1. c \notin ToSet(v.watchers[k]) /\ Once(v.watchers[k])
      BY <1>2, <2>4 DEF Watches
    <3>2. PICK l \in Seq(Clients) : l = Append(v.watchers[k], c) /\ Once(l) /\ ToSet(l) = ToSet(v.watchers[k]) \cup {c}
      <4>1. PICK q \in Seq(Clients) : q = v.watchers[k]
        BY <2>4
      <4>2. /\ Append(q, c) \in Seq(Clients) /\ ToSet(Append(q, c)) = ToSet(q) \cup {c}
            /\ Once(q) /\ c \notin ToSet(q) => Once(Append(q, c))
        BY AppendSet
      <4>3. QED
        BY <3>1, <4>1, <4>2
    <3>3. DOMAIN u.watchers = Keys /\ u.watchers[k] = l /\ \A j \in Keys : j # k => u.watchers[j] = v.watchers[j]
      BY <2>4, <2>6, <3>2 DEF Watches
    <3>4. \A j \in Keys : u.watchers[j] \in Seq(Clients) /\ Once(u.watchers[j])
      BY <2>4, <3>2, <3>3 DEF Watches
    <3>5. \A x \in Clients : u.c[x].watched \in Seq(Keys) /\ ToSet(u.c[x].watched) \subseteq DOMAIN u.c[x].seen
      <4>1. DOMAIN seen = DOMAIN v.c[c].seen \cup {k}
        BY <2>1
      <4>2. QED
        BY <2>4, <2>6, <2>9, <4>1 DEF Watches
    <3>6. \A x \in Clients : \A j \in Keys : x \in ToSet(u.watchers[j]) <=> (k = j /\ x = c) \/ x \in ToSet(v.watchers[j])
      BY <3>2, <3>3
    <3>7. \A x \in Clients : \A j \in Keys : j \in ToSet(u.c[x].watched) <=> (k = j /\ x = c) \/ j \in ToSet(v.c[x].watched)
      BY <2>6, <2>9
    <3>8. QED
      BY <2>4, <3>3, <3>4, <3>5, <3>6, <3>7 DEF Watches
  <2>11. Sees(u, {}, {})
    <3>1. SUFFICES ASSUME NEW x \in Clients, NEW j \in ToSet(u.c[x].watched)
                   PROVE  Dirty(u, x) \/ (u.db[j] = u.c[x].seen[j] /\ j \notin ToSet(u.ready))
      BY DEF Sees
    <3>2. u.db = v.db /\ u.ready = v.ready /\ \A y \in Clients : Dirty(v, y) => Dirty(u, y)
      BY <2>5, Zenon DEF Alters, Fields, Dirty
    <3>3. ToSet(v.ready) = {}
      BY DEF ToSet
    <3>4. \A y \in Clients : \A i \in ToSet(v.c[y].watched) : Dirty(v, y) \/ v.db[i] = v.c[y].seen[i]
      BY DEF Good, Sees
    <3>5. CASE x # c
      BY <2>6, <3>1, <3>2, <3>3, <3>4, <3>5
    <3>6. CASE x = c /\ j = k
      <4>1. seen[k] = v.db[k]
        BY <2>1
      <4>2. QED
        BY <2>6, <3>2, <3>3, <3>6, <4>1
    <3>7. CASE x = c /\ j # k
      <4>1. j \in ToSet(v.c[c].watched)
        BY <2>6, <2>9, <3>1, <3>7
      <4>2. CASE Dirty(v, c)
        BY <3>2, <3>7, <4>2
      <4>3. CASE v.db[j] = v.c[c].seen[j]
        <5>1. j \in DOMAIN v.c[c].seen
          BY <2>4, <4>1 DEF Watches
        <5>2. QED
          BY <2>1, <2>6, <3>2, <3>3, <3>7, <4>3, <5>1
      <4>4. QED
        BY <3>4, <4>1, <4>2, <4>3
    <3>8. QED
      BY <3>5, <3>6, <3>7
  <2>12. QED
    BY <2>3, <2>5, <2>7, <2>8, <2>10, <2>11 DEF Good
<1>3. QED
  BY <1>1, <1>2

\* More keys may be still to be signalled.
LEMMA GoodMore ==
  ASSUME NEW v, NEW p, NEW R, NEW X, Good(v, p, R, X), NEW Y, X \subseteq Y
  PROVE  Good(v, p, R, Y)
<1>1. Sees(v, R, Y)
  BY DEF Good, Sees
<1>2. QED
  BY <1>1 DEF Good

\* Fields without a meaning to the lists.
Quiet == {"copy", "pushed", "gone", "slave", "paused", "pauseend", "now", "mstime"}
LEMMA KeepsGood ==
  ASSUME NEW u, NEW v, Alters(u, v, Quiet, {"out", "got"}, {}), NEW p, NEW R, NEW X, Good(v, p, R, X)
  PROVE  Good(u, p, R, X)
<1>1. /\ "clients" \notin Quiet /\ "watchers" \notin Quiet /\ "waiting" \notin Quiet /\ "channels" \notin Quiet
      /\ "patterns" \notin Quiet /\ "toclose" \notin Quiet /\ "unblocked" \notin Quiet \cup {}
      /\ Quiet \cap {"db", "ready", "isready", "waiting"} = {} /\ Quiet \cap {"db", "ready"} = {}
  BY DEF Quiet
<1>2. QED
  BY <1>1, Keeps DEF Good

\* The client watches nothing any more.
LEMMA UnwatchIs ==
  ASSUME NEW v, Shape(v), Watches(v), NEW c \in Clients, NEW u, u = UnwatchAllKeys(v, c)
  PROVE  /\ Alters(u, v, {"watchers"}, {"watched", "seen"}, {}) /\ Watches(u) /\ u.c[c].watched = <<>>
         /\ u.c[c].flags = v.c[c].flags /\ \A x \in Clients : x # c => u.c[x] = v.c[x]
<1>1. Alters(u, v, {"watchers"}, {"watched", "seen"}, {})
  BY ZenonT(60) DEF UnwatchAllKeys, Alters, Shape, Fields, CFields
<1>2. /\ u.watchers = [k \in Keys |-> IF k \in ToSet(v.c[c].watched) THEN Without(v.watchers[k], c) ELSE v.watchers[k]]
      /\ u.c[c].watched = <<>> /\ u.c[c].seen = <<>> /\ u.c[c].flags = v.c[c].flags
      /\ \A x \in Clients : x # c => u.c[x] = v.c[x]
  BY Zenon DEF UnwatchAllKeys, Shape, Fields, CFields
<1>3. ASSUME NEW k \in Keys
      PROVE  /\ u.watchers[k] \in Seq(Clients) /\ Once(u.watchers[k])
             /\ ToSet(u.watchers[k]) = ToSet(v.watchers[k]) \ {c}
  <2>1. PICK q \in Seq(Clients) : q = v.watchers[k] /\ Once(q)
    BY DEF Watches
  <2>2. CASE k \in ToSet(v.c[c].watched)
    <3>1. u.watchers[k] = Without(q, c)
      BY <1>2, <2>1, <2>2
    <3>2. QED
      BY <2>1, <3>1, WithoutIs
  <2>3. CASE k \notin ToSet(v.c[c].watched)
    <3>1. u.watchers[k] = q
      BY <1>2, <2>1, <2>3
    <3>2. c \notin ToSet(q)
      BY <2>1, <2>3 DEF Watches
    <3>3. QED
      BY <2>1, <3>1, <3>2
  <2>4. QED
    BY <2>2, <2>3
<1>4. ToSet(<<>>) = {} /\ <<>> \in Seq(Keys)
  BY DEF ToSet
<1>5. \A x \in Clients : u.c[x].watched \in Seq(Keys) /\ ToSet(u.c[x].watched) \subseteq DOMAIN u.c[x].seen
  BY <1>2, <1>4 DEF Watches
<1>6. \A x \in Clients : \A k \in Keys : x \in ToSet(u.watchers[k]) <=> k \in ToSet(u.c[x].watched)
  <2>1. TAKE x \in Clients
  <2>2. TAKE k \in Keys
  <2>3. x \in ToSet(v.watchers[k]) <=> k \in ToSet(v.c[x].watched)
    BY DEF Watches
  <2>4. x \in ToSet(u.watchers[k]) <=> x \in ToSet(v.watchers[k]) /\ x # c
    BY <1>3
  <2>5. CASE x = c
    BY <1>2, <1>4, <2>4, <2>5
  <2>6. CASE x # c
    BY <1>2, <2>3, <2>4, <2>6
  <2>7. QED
    BY <2>5, <2>6
<1>7. DOMAIN u.watchers = Keys
  BY <1>2
<1>8. QED
  BY <1>1, <1>2, <1>3, <1>5, <1>6, <1>7 DEF Watches

\* A client that watches nothing sees what it should.
LEMMA SeesOthers ==
  ASSUME NEW u, NEW v, NEW R, NEW X, Sees(v, R, X), u.db = v.db, u.ready = v.ready,
         NEW c, u.c[c].watched = <<>>,
         \A x \in Clients : x # c => u.c[x].watched = v.c[x].watched /\ u.c[x].seen = v.c[x].seen
                                     /\ (Dirty(v, x) => Dirty(u, x))
  PROVE  Sees(u, R, X)
<1>1. SUFFICES ASSUME NEW x \in Clients, NEW k \in ToSet(u.c[x].watched)
               PROVE  k \in X \/ Dirty(u, x) \/ (u.db[k] = u.c[x].seen[k] /\ k \notin ToSet(u.ready) \cup R)
  BY DEF Sees
<1>2. x # c
  BY <1>1 DEF ToSet
<1>3. k \in ToSet(v.c[x].watched)
  BY <1>1, <1>2
<1>4. k \in X \/ Dirty(v, x) \/ (v.db[k] = v.c[x].seen[k] /\ k \notin ToSet(v.ready) \cup R)
  BY <1>3 DEF Sees
<1>5. QED
  BY <1>2, <1>4

\* What UNWATCH, DISCARD and EXEC have in common: it watches nothing, and then has
\* fewer flags.
LEMMA UnwatchedGood ==
  ASSUME NEW v, NEW p, NEW R, NEW X, Good(v, p, R, X), NEW c \in Clients, NEW u, NEW G, NEW L,
         G \subseteq {"watched", "seen", "queue"}, L \subseteq {"multi", "dirty_cas", "dirty_exec"},
         Alters(u, v, {"watchers"}, G, L), Watches(u), u.c[c].watched = <<>>,
         u.c[c].flags \subseteq v.c[c].flags, u.c[c].queue \in {<<>>, v.c[c].queue},
         \A x \in Clients : x # c => u.c[x] = v.c[x]
  PROVE  Good(u, p, R, X)
<1>1. /\ "up" \notin G /\ G \cap {"keys", "target", "head"} = {} /\ "subs" \notin G /\ "pats" \notin G
      /\ {"blocked", "close_asap", "unblocked", "master"} \cap L = {}
  OBVIOUS
<1>2. /\ Shape(u) /\ Ups(u) /\ Waits(u) /\ Listens(u) /\ Patterns(u) /\ Closes(u) /\ Unblocks(u) /\ Serves(u, R)
  BY <1>1, Keeps
<1>3. /\ \A x \in Clients : u.c[x].up = v.c[x].up /\ u.c[x].in = v.c[x].in
                            /\ u.c[x].subs = v.c[x].subs /\ u.c[x].pats = v.c[x].pats
      /\ u.db = v.db /\ u.ready = v.ready
  <2>1. "in" \notin G
    OBVIOUS
  <2>2. QED
    BY <1>1, <2>1, ZenonT(60) DEF Alters, Fields, CFields
<1>4. \A x \in Clients : u.c[x].flags \subseteq v.c[x].flags
  OBVIOUS
<1>5. NoFlags(u) /\ NoLinks(u)
  BY <1>3, <1>4 DEF Good, NoFlags, NoLinks
<1>6. Sees(u, R, X)
  <2>1. \A x \in Clients : x # c => u.c[x].watched = v.c[x].watched /\ u.c[x].seen = v.c[x].seen
                                     /\ (Dirty(v, x) => Dirty(u, x))
    BY DEF Dirty
  <2>2. QED
    BY <1>3, <2>1, SeesOthers DEF Good
<1>7. Sent(u, p)
  <2>1. Sent(v, p) /\ ToSet(<<>>) = {} /\ <<>> \in Seq(SentBy(p, c))
    BY DEF Good, ToSet
  <2>2. \A x \in Clients : u.c[x].queue = v.c[x].queue \/ (x = c /\ u.c[x].queue = <<>>)
    OBVIOUS
  <2>3. QED
    BY <1>3, <1>4, <2>1, <2>2 DEF Sent
<1>8. QED
  BY <1>2, <1>5, <1>6, <1>7 DEF Good

\* unwatchAllKeys ...
LEMMA UnwatchAllKeysGood ==
  ASSUME NEW v, NEW p, NEW R, NEW X, Good(v, p, R, X), NEW c \in Clients, NEW u, u = UnwatchAllKeys(v, c)
  PROVE  /\ Good(u, p, R, X) /\ Alters(u, v, {"watchers"}, {"watched", "seen"}, {})
         /\ u.c[c].watched = <<>> /\ \A x \in Clients : x # c => u.c[x] = v.c[x]
<1>1. /\ Alters(u, v, {"watchers"}, {"watched", "seen"}, {}) /\ Watches(u) /\ u.c[c].watched = <<>>
      /\ u.c[c].flags = v.c[c].flags /\ \A x \in Clients : x # c => u.c[x] = v.c[x]
  BY UnwatchIs DEF Good
<1>2. u.c[c].queue = v.c[c].queue
  BY <1>1, Zenon DEF Alters, CFields
<1>3. Good(u, p, R, X)
  BY <1>1, <1>2, UnwatchedGood
<1>4. QED
  BY <1>1, <1>3

\* ... and UNWATCH, which has the client forget the change too.
LEMMA UnwatchGood ==
  ASSUME NEW v, NEW p, NEW R, NEW X, Good(v, p, R, X), NEW c \in Clients,
         NEW u, u = Clear(UnwatchAllKeys(v, c), c, {"dirty_cas"})
  PROVE  Good(u, p, R, X) /\ Alters(u, v, {"watchers"}, {"watched", "seen"}, {"dirty_cas"})
<1>1. PICK t : t = UnwatchAllKeys(v, c)
  OBVIOUS
<1>2. /\ Good(t, p, R, X) /\ Alters(t, v, {"watchers"}, {"watched", "seen"}, {}) /\ t.c[c].watched = <<>>
      /\ \A x \in Clients : x # c => t.c[x] = v.c[x]
  BY <1>1, UnwatchAllKeysGood
<1>3. /\ u.c[c].flags = t.c[c].flags \ {"dirty_cas"} /\ \A x \in Clients : x # c => u.c[x] = t.c[x]
      /\ Alters(u, t, {}, {}, {"dirty_cas"})
  BY <1>1, <1>2, ClearIs DEF Good
<1>4. u.c[c].queue = t.c[c].queue /\ u.c[c].watched = <<>>
  <2>1. u.c[c].queue = t.c[c].queue /\ u.c[c].watched = t.c[c].watched
    BY <1>3, Zenon DEF Alters, CFields
  <2>2. QED
    BY <1>2, <2>1
<1>5. Watches(u)
  BY <1>2, <1>3, Keeps
<1>6. Alters(u, t, {"watchers"}, {}, {"dirty_cas"})
  BY <1>3, AltersMore
<1>7. Good(u, p, R, X)
  BY <1>2, <1>3, <1>4, <1>5, <1>6, UnwatchedGood
<1>8. Alters(u, v, {"watchers"}, {"watched", "seen"}, {"dirty_cas"})
  BY <1>2, <1>3, AltersJoin
<1>9. QED
  BY <1>7, <1>8

\* The queue of a transaction changes.
Queueing(v, c, l) == [v EXCEPT !.c[c].queue = l]
LEMMA QueueingIs ==
  ASSUME NEW v, Shape(v), NEW c \in Clients, NEW l, NEW u, u = Queueing(v, c, l)
  PROVE  /\ Alters(u, v, {}, {"queue"}, {}) /\ u.c[c].queue = l
         /\ \A x \in Clients : u.c[x].in = v.c[x].in /\ u.c[x].flags = v.c[x].flags /\ (x # c => u.c[x] = v.c[x])
BY Zenon DEF Queueing, Alters, Shape, Fields, CFields

\* discardTransaction.
LEMMA DiscardGood ==
  ASSUME NEW v, NEW p, NEW R, NEW X, Good(v, p, R, X), NEW c \in Clients,
         NEW u, u = DiscardTransaction(v, c)
  PROVE  Good(u, p, R, X) /\ Same(u, v) /\ \A x \in Clients : u.c[x].up = v.c[x].up
<1>1. PICK r : r = Clear(v, c, {"multi", "dirty_cas", "dirty_exec"})
  OBVIOUS
<1>2. PICK t : t = [r EXCEPT !.c[c].queue = <<>>]
  OBVIOUS
<1>3. u = UnwatchAllKeys(t, c)
  BY <1>1, <1>2 DEF DiscardTransaction
<1>4. /\ r.c[c].flags = v.c[c].flags \ {"multi", "dirty_cas", "dirty_exec"}
      /\ \A x \in Clients : x # c => r.c[x] = v.c[x]
      /\ Alters(r, v, {}, {}, {"multi", "dirty_cas", "dirty_exec"})
  BY <1>1, ClearIs DEF Good
<1>5. /\ Alters(t, r, {}, {"queue"}, {}) /\ t.c[c].queue = <<>> /\ t.c[c].flags = r.c[c].flags
      /\ \A x \in Clients : x # c => t.c[x] = r.c[x]
  <2>1. PICK l : l = <<>>
    OBVIOUS
  <2>2. t = Queueing(r, c, l)
    BY <1>2, <2>1 DEF Queueing
  <2>3. Shape(r)
    BY <1>4 DEF Alters
  <2>4. /\ Alters(t, r, {}, {"queue"}, {}) /\ t.c[c].queue = l
        /\ \A x \in Clients : t.c[x].in = r.c[x].in /\ t.c[x].flags = r.c[x].flags /\ (x # c => t.c[x] = r.c[x])
    BY <2>2, <2>3, QueueingIs
  <2>5. QED
    BY <2>1, <2>4
<1>6. Alters(t, v, {}, {"queue"}, {"multi", "dirty_cas", "dirty_exec"})
  BY <1>4, <1>5, AltersJoin
<1>7. Watches(t) /\ Shape(t)
  BY <1>6, Keeps
<1>8. /\ Alters(u, t, {"watchers"}, {"watched", "seen"}, {}) /\ Watches(u) /\ u.c[c].watched = <<>>
      /\ u.c[c].flags = t.c[c].flags /\ \A x \in Clients : x # c => u.c[x] = t.c[x]
  BY <1>3, <1>7, UnwatchIs
<1>9. Alters(u, v, {"watchers"}, {"watched", "seen", "queue"}, {"multi", "dirty_cas", "dirty_exec"})
  BY <1>6, <1>8, AltersJoin
<1>10. u.c[c].queue = t.c[c].queue
  BY <1>8, Zenon DEF Alters, CFields
<1>11. \A x \in Clients : u.c[x].up = v.c[x].up
  BY <1>9, Zenon DEF Alters, CFields
<1>12. Good(u, p, R, X)
  BY <1>4, <1>5, <1>8, <1>9, <1>10, UnwatchedGood
<1>13. Same(u, v)
  BY <1>9, AltersSame
<1>14. QED
  BY <1>11, <1>12, <1>13

-----------------------------------------------------------------------------
(* The data. *)

\* The loop of touchWatchedKeysOnFlush.
LEMMA FlushSteps ==
  ASSUME NEW v, NEW q, q = v.clients, Len(q) \in Nat
  PROVE  \E f : /\ f[0] = v /\ TouchWatchedKeysOnFlush(v) = f[Len(q)]
                /\ \A i \in 1 .. Len(q) : f[i] = Step("flush", None, None, f[i - 1], q[i])
<1>1. \A u, x : Step("flush", None, None, u, x) = FlushOne(u, x)
  BY DEF Step
<1>2. PICK g : Runs(g, "flush", None, None, v, Len(q), q)
  BY StepsExist
<1>3. g = [i \in 0 .. Len(q) |-> IF i = 0 THEN v ELSE FlushOne(g[i - 1], q[i])]
  BY <1>1, <1>2, Zenon DEF Runs
<1>. DEFINE h == CHOOSE h : h = [i \in 0 .. Len(q) |-> IF i = 0 THEN v ELSE FlushOne(h[i - 1], q[i])]
<1>4. h = [i \in 0 .. Len(q) |-> IF i = 0 THEN v ELSE FlushOne(h[i - 1], q[i])]
  BY <1>3, Zenon
<1>5. TouchWatchedKeysOnFlush(v) = h[Len(q)]
  BY Zenon DEF TouchWatchedKeysOnFlush, ForEach, FlushOne
<1>. HIDE DEF h
<1>6. h[0] = v /\ \A i \in 1 .. Len(q) : h[i] = FlushOne(h[i - 1], q[i])
  <2>1. 0 \in 0 .. Len(q) /\ \A i \in 1 .. Len(q) : i \in 0 .. Len(q) /\ i # 0
    BY Upto
  <2>2. QED
    BY <1>4, <2>1, Zenon
<1>7. \A i \in 1 .. Len(q) : h[i] = Step("flush", None, None, h[i - 1], q[i])
  BY <1>1, <1>6
<1>8. QED
  BY <1>5, <1>6, <1>7

\* All who watch a key that exists know of a flush.
Knows(u, v, x) == \A k \in ToSet(v.c[x].watched) : v.db[k] # NoKey => Dirty(u, x)
LEMMA FlushStepGood ==
  ASSUME NEW v, NEW p, NEW R, NEW X, NEW u, Good(u, p, R, X), Touched(u, v), NEW x \in Clients, v.c[x].up, NEW w,
         w = IF \E k \in ToSet(u.c[x].watched) : u.db[k] # NoKey THEN Raise(u, x, "dirty_cas") ELSE u
  PROVE  /\ Good(w, p, R, X) /\ Touched(w, v) /\ Knows(w, v, x)
         /\ \A y \in Clients : Dirty(u, y) => Dirty(w, y)
<1>1. u.db = v.db /\ u.c[x].watched = v.c[x].watched /\ u.c[x].up = v.c[x].up
  BY Zenon DEF Touched, Alters, Fields, CFields
<1>2. CASE \E k \in ToSet(u.c[x].watched) : u.db[k] # NoKey
  <2>1. w = Raise(u, x, "dirty_cas")
    BY <1>2
  <2>2. Good(w, p, R, X)
    BY <1>1, <2>1, RaiseGood DEF Plain
  <2>3. Alters(w, u, {}, {}, {"dirty_cas"}) /\ \A y \in Clients : u.c[y].flags \subseteq w.c[y].flags
    BY <2>1, RaiseAlters DEF Good
  <2>4. Touched(w, v)
    BY <2>3, AltersTrans DEF Touched
  <2>5. Dirty(w, x)
    BY <2>1, RaiseIs DEF Good, Dirty
  <2>6. QED
    BY <2>2, <2>3, <2>4, <2>5 DEF Knows, Dirty
<1>3. CASE ~\E k \in ToSet(u.c[x].watched) : u.db[k] # NoKey
  <2>1. w = u
    BY <1>3
  <2>2. Knows(w, v, x)
    BY <1>1, <1>3 DEF Knows
  <2>3. QED
    BY <2>1, <2>2
<1>4. QED
  BY <1>2, <1>3

\* All who watch a key that exists are told before the keys go ...
LEMMA FlushGood ==
  ASSUME NEW v, NEW p, NEW R, NEW X, Good(v, p, R, X), NEW u, u = TouchWatchedKeysOnFlush(v)
  PROVE  Good(u, p, R, X) /\ Touched(u, v) /\ \A x \in Clients : Knows(u, v, x)
<1>1. PICK q \in Seq(Clients) : q = v.clients
  BY DEF Good, Ups
<1>2. PICK n \in Nat : n = Len(q) /\ DOMAIN q = 1 .. n /\ \A i \in 1 .. n : q[i] \in Clients
  BY LenProperties
<1>3. PICK f : /\ f[0] = v /\ u = f[n]
               /\ \A i \in 1 .. n : f[i] = Step("flush", None, None, f[i - 1], q[i])
  BY <1>1, <1>2, FlushSteps
<1>. DEFINE T == {i \in 0 .. n : /\ Good(f[i], p, R, X) /\ Touched(f[i], v)
                                 /\ \A j \in 1 .. i : Knows(f[i], v, q[j])}
<1>4. 0 \in T
  BY <1>3, AltersNot DEF Good, Touched
<1>5. \A i \in T : i < n => i + 1 \in T
  <2>1. SUFFICES ASSUME NEW i \in T, i < n PROVE i + 1 \in T
    OBVIOUS
  <2>2. PICK j \in 0 .. n : j = i /\ j + 1 \in 1 .. n /\ (j + 1) - 1 = j
    BY <2>1
  <2>3. PICK w : w = f[j]
    OBVIOUS
  <2>4. Good(w, p, R, X) /\ Touched(w, v) /\ \A h \in 1 .. j : Knows(w, v, q[h])
    BY <2>2, <2>3
  <2>5. PICK x \in Clients : x = q[j + 1]
    BY <1>2, <2>2
  <2>6. PICK z : z = Step("flush", None, None, w, x)
    OBVIOUS
  <2>7. f[j + 1] = z
    BY <1>3, <2>2, <2>3, <2>5, <2>6
  <2>8. v.c[x].up
    <3>1. x \in ToSet(v.clients)
      BY <1>1, <1>2, <2>2, <2>5 DEF ToSet
    <3>2. QED
      BY <3>1 DEF Good, Ups
  <2>9. /\ Good(z, p, R, X) /\ Touched(z, v) /\ Knows(z, v, x)
        /\ \A y \in Clients : Dirty(w, y) => Dirty(z, y)
    BY <2>4, <2>6, <2>8, FlushStepGood DEF Step, FlushOne
  <2>10. \A h \in 1 .. j + 1 : (h \in 1 .. j /\ q[h] \in Clients) \/ h = j + 1
    BY <1>2
  <2>11. \A h \in 1 .. j + 1 : Knows(z, v, q[h])
    BY <2>4, <2>5, <2>9, <2>10 DEF Knows
  <2>12. QED
    BY <2>2, <2>7, <2>9, <2>11
<1>6. T \in SUBSET (0 .. n)
  OBVIOUS
<1>. HIDE DEF T
<1>7. \A i \in 0 .. n : i \in T
  BY <1>4, <1>5, <1>6, IntervalInduct
<1>8. Good(u, p, R, X) /\ Touched(u, v) /\ \A j \in 1 .. n : Knows(u, v, q[j])
  BY <1>3, <1>7 DEF T
<1>9. ASSUME NEW x \in Clients PROVE Knows(u, v, x)
  <2>1. CASE x \in ToSet(v.clients)
    <3>1. \E j \in 1 .. n : q[j] = x
      BY <1>1, <1>2, <2>1 DEF ToSet
    <3>2. QED
      BY <1>8, <3>1
  <2>2. CASE x \notin ToSet(v.clients)
    <3>1. v.c[x].watched = <<>>
      BY <2>2 DEF Good, Ups, NoLinks
    <3>2. QED
      BY <3>1 DEF Knows, ToSet
  <2>3. QED
    BY <2>1, <2>2
<1>10. QED
  BY <1>8, <1>9

\* ... so that an empty data set leaves nothing unseen.
LEMMA FlushedGood ==
  ASSUME NEW v, NEW p, NEW R, NEW X, Good(v, p, R, X), \A x \in Clients : Knows(v, v, x), NEW u, u = Flushed(v)
  PROVE  Good(u, p, R, X) /\ Alters(u, v, {"db", "gone"}, {}, {})
<1>1. Alters(u, v, {"db", "gone"}, {}, {})
  BY Zenon DEF Flushed, Alters, Good, Shape, Fields
<1>2. u.db = [k \in Keys |-> NoKey]
  BY Zenon DEF Flushed, Good, Shape, Fields
<1>3. /\ Shape(u) /\ Ups(u) /\ NoFlags(u) /\ NoLinks(u) /\ Watches(u) /\ Waits(u) /\ Listens(u) /\ Patterns(u)
      /\ Closes(u) /\ Unblocks(u) /\ Sent(u, p)
  BY <1>1, Keeps
<1>4. /\ u.ready = v.ready /\ u.isready = v.isready
      /\ \A x \in Clients : u.c[x].watched = v.c[x].watched /\ u.c[x].seen = v.c[x].seen
      /\ \A x \in Clients : Dirty(u, x) <=> Dirty(v, x)
  BY <1>1, Zenon DEF Alters, Fields, CFields, Dirty
<1>5. Serves(u, R)
  BY <1>2, <1>4 DEF Good, Serves, IsList
<1>6. Sees(u, R, X)
  <2>1. SUFFICES ASSUME NEW x \in Clients, NEW k \in ToSet(u.c[x].watched)
                 PROVE  k \in X \/ Dirty(u, x) \/ (u.db[k] = u.c[x].seen[k] /\ k \notin ToSet(u.ready) \cup R)
    BY DEF Sees
  <2>2. k \in ToSet(v.c[x].watched)
    BY <1>4
  <2>3. k \in X \/ Dirty(v, x) \/ (v.db[k] = v.c[x].seen[k] /\ k \notin ToSet(v.ready) \cup R)
    BY <2>2 DEF Good, Sees
  <2>4. v.c[x].watched \in Seq(Keys)
    BY DEF Good, Watches
  <2>5. k \in Keys
    BY <2>2, <2>4, SetOfSeq
  <2>6. Dirty(v, x) \/ v.db[k] = NoKey
    BY <2>2 DEF Knows
  <2>7. QED
    BY <1>2, <1>4, <2>3, <2>5, <2>6
<1>7. QED
  BY <1>1, <1>3, <1>5, <1>6 DEF Good

\* What a key holds changes; it may become ready at the same time.
DbFields == {"db", "ready", "isready", "gone", "pushed", "copy"}
Grows(u, v) == ToSet(v.ready) \subseteq ToSet(u.ready) /\ u.isready \subseteq v.isready \cup ToSet(u.ready)
\* More keys become ready.
LEMMA GrowsTrans ==
  ASSUME NEW u, NEW v, NEW w, Grows(u, v), Grows(w, u) PROVE Grows(w, v)
BY DEF Grows

LEMMA DbChange ==
  ASSUME NEW v, NEW p, NEW R, NEW X, Good(v, p, R, X), NEW k \in Keys, NEW u, Alters(u, v, DbFields, {}, {}),
         DOMAIN u.db = Keys, \A j \in Keys : j # k => u.db[j] = v.db[j],
         u.ready \in Seq(Keys), ToSet(u.ready) \subseteq ToSet(v.ready) \cup {k}, Grows(u, v),
         IsList(u.db[k]) /\ v.waiting[k] # <<>> => k \in ToSet(u.ready) \cup R
  PROVE  /\ Good(u, p, R, X \cup {k})
         /\ AllDirty(v, k) \/ k \in ToSet(v.ready) \cup R \cup X => Good(u, p, R, X)
<1>1. /\ Shape(u) /\ Ups(u) /\ NoFlags(u) /\ NoLinks(u) /\ Watches(u) /\ Waits(u) /\ Listens(u) /\ Patterns(u)
      /\ Closes(u) /\ Unblocks(u) /\ Sent(u, p)
  <2>1. /\ "clients" \notin DbFields /\ "watchers" \notin DbFields /\ "waiting" \notin DbFields
        /\ "channels" \notin DbFields /\ "patterns" \notin DbFields /\ "toclose" \notin DbFields
        /\ "unblocked" \notin DbFields \cup {}
    BY DEF DbFields
  <2>2. QED
    BY <2>1, Keeps
<1>2. /\ u.waiting = v.waiting
      /\ \A x \in Clients : u.c[x].watched = v.c[x].watched /\ u.c[x].seen = v.c[x].seen
      /\ \A x \in Clients : Dirty(u, x) <=> Dirty(v, x)
  BY Zenon DEF Alters, Fields, CFields, Dirty, DbFields
<1>3. Serves(u, R)
  <2>1. v.isready \subseteq ToSet(v.ready) \cup R
    BY DEF Good, Serves
  <2>2. u.isready \subseteq ToSet(u.ready) \cup R
    BY <2>1 DEF Grows
  <2>3. ASSUME NEW j \in Keys, IsList(u.db[j]), u.waiting[j] # <<>> PROVE j \in ToSet(u.ready) \cup R
    <3>1. CASE j = k
      BY <1>2, <2>3, <3>1
    <3>2. CASE j # k
      <4>1. IsList(v.db[j]) /\ v.waiting[j] # <<>>
        BY <1>2, <2>3, <3>2
      <4>2. j \in ToSet(v.ready) \cup R
        BY <4>1 DEF Good, Serves
      <4>3. QED
        BY <4>2 DEF Grows
    <3>3. QED
      BY <3>1, <3>2
  <2>4. QED
    BY <2>2, <2>3 DEF Serves
<1>4. ASSUME NEW Y, NEW x \in Clients, NEW j \in ToSet(u.c[x].watched), X \subseteq Y,
             k \in Y \/ AllDirty(v, k) \/ k \in ToSet(v.ready) \cup R
      PROVE  j \in Y \/ Dirty(u, x) \/ (u.db[j] = u.c[x].seen[j] /\ j \notin ToSet(u.ready) \cup R)
  <2>1. j \in ToSet(v.c[x].watched)
    BY <1>2, <1>4
  <2>2. j \in X \/ Dirty(v, x) \/ (v.db[j] = v.c[x].seen[j] /\ j \notin ToSet(v.ready) \cup R)
    BY <2>1 DEF Good, Sees
  <2>3. CASE j = k
    BY <1>2, <1>4, <2>1, <2>2, <2>3 DEF AllDirty
  <2>4. CASE j # k
    <3>1. v.c[x].watched \in Seq(Keys)
      BY DEF Good, Watches
    <3>2. j \in Keys
      BY <2>1, <3>1, SetOfSeq
    <3>3. u.db[j] = v.db[j] /\ (j \in ToSet(u.ready) => j \in ToSet(v.ready))
      BY <2>4, <3>2
    <3>4. QED
      BY <1>2, <1>4, <2>2, <3>3
  <2>5. QED
    BY <2>3, <2>4
<1>5. Sees(u, R, X \cup {k})
  <2>1. X \subseteq X \cup {k} /\ k \in X \cup {k}
    OBVIOUS
  <2>2. QED
    BY <1>4, <2>1 DEF Sees
<1>6. AllDirty(v, k) \/ k \in ToSet(v.ready) \cup R \cup X => Sees(u, R, X)
  <2>1. SUFFICES ASSUME AllDirty(v, k) \/ k \in ToSet(v.ready) \cup R \cup X PROVE Sees(u, R, X)
    OBVIOUS
  <2>2. X \subseteq X /\ (k \in X \/ AllDirty(v, k) \/ k \in ToSet(v.ready) \cup R)
    BY <2>1
  <2>3. QED
    BY <1>4, <2>2 DEF Sees
<1>7. QED
  BY <1>1, <1>3, <1>5, <1>6 DEF Good

\* ... without it.
DataFields == {"db", "gone", "pushed", "copy"}
LEMMA DbChanged ==
  ASSUME NEW v, NEW p, NEW R, NEW X, Good(v, p, R, X), NEW k \in Keys, NEW u, Alters(u, v, DataFields, {}, {}),
         DOMAIN u.db = Keys, \A j \in Keys : j # k => u.db[j] = v.db[j],
         IsList(u.db[k]) /\ v.waiting[k] # <<>> => k \in ToSet(v.ready) \cup R
  PROVE  /\ Good(u, p, R, X \cup {k})
         /\ AllDirty(v, k) \/ k \in ToSet(v.ready) \cup R \cup X => Good(u, p, R, X)
<1>1. u.ready = v.ready /\ u.isready = v.isready
  BY Zenon DEF Alters, Fields, DataFields
<1>2. u.ready \in Seq(Keys) /\ Grows(u, v) /\ ToSet(u.ready) \subseteq ToSet(v.ready) \cup {k}
  BY <1>1 DEF Good, Serves, Grows
<1>3. DataFields \subseteq DbFields
  BY DEF DbFields, DataFields
<1>4. Alters(u, v, DbFields, {}, {})
  BY <1>3, AltersMoreOf
<1>5. IsList(u.db[k]) /\ v.waiting[k] # <<>> => k \in ToSet(u.ready) \cup R
  BY <1>1
<1>6. QED
  BY <1>2, <1>4, <1>5, DbChange

\* One key gets a value, and the others keep theirs.
SetsKey(u, v, k, val) == u.db = [v.db EXCEPT ![k] = val]

\* dbAdd: a list that someone waits for becomes ready, and is to be signalled.
LEMMA DbAddIs ==
  ASSUME NEW v, NEW p, NEW R, NEW X, Good(v, p, R, X), NEW k \in Keys, NEW val, NEW u, u = DbAdd(v, k, val)
  PROVE  /\ Good(u, p, R, X \cup {k}) /\ Alters(u, v, {"db", "ready", "isready"}, {}, {}) /\ Grows(u, v)
         /\ SetsKey(u, v, k, val)
<1>0. SUFFICES /\ Good(u, p, R, X \cup {k}) /\ Alters(u, v, {"db", "ready", "isready"}, {}, {}) /\ Grows(u, v)
               /\ u.db = [v.db EXCEPT ![k] = val]
  BY DEF SetsKey
<1>1. PICK t : t = [v EXCEPT !.db[k] = val]
  OBVIOUS
<1>2. t.db = [v.db EXCEPT ![k] = val] /\ Alters(t, v, {"db"}, {}, {})
  BY <1>1, Zenon DEF Alters, Good, Shape, Fields
<1>3. DOMAIN v.db = Keys /\ v.ready \in Seq(Keys) /\ v.isready \subseteq ToSet(v.ready) \cup R
  BY DEF Good, Serves
<1>4. /\ t.ready = v.ready /\ t.isready = v.isready /\ t.waiting = v.waiting
  BY <1>2, Zenon DEF Alters, Fields
<1>5. DOMAIN t.db = Keys /\ t.db[k] = val /\ \A j \in Keys : j # k => t.db[j] = v.db[j]
  BY <1>2, <1>3
<1>6. CASE ~(IsList(val) /\ v.waiting[k] # <<>> /\ k \notin v.isready)
  <2>1. u = t
    BY <1>1, <1>4, <1>6 DEF DbAdd, SignalListAsReady
  <2>2. IsList(t.db[k]) /\ v.waiting[k] # <<>> => k \in ToSet(v.ready) \cup R
    BY <1>3, <1>5, <1>6
  <2>3. Good(t, p, R, X \cup {k})
    <3>1. {"db"} \subseteq DataFields
      BY DEF DataFields
    <3>2. Alters(t, v, DataFields, {}, {})
      BY <1>2, <3>1, AltersMoreOf
    <3>3. QED
      BY <1>5, <2>2, <3>2, DbChanged
  <2>4. Grows(t, v)
    BY <1>4 DEF Grows
  <2>5. Alters(t, v, {"db", "ready", "isready"}, {}, {})
    BY <1>2, AltersMore
  <2>6. QED
    BY <1>2, <2>1, <2>3, <2>4, <2>5
<1>7. CASE IsList(val) /\ v.waiting[k] # <<>> /\ k \notin v.isready
  <2>1. u = [t EXCEPT !.ready = Append(@, k), !.isready = @ \cup {k}]
    BY <1>1, <1>4, <1>7, Zenon DEF DbAdd, SignalListAsReady
  <2>2. /\ u.ready = Append(t.ready, k) /\ u.isready = t.isready \cup {k} /\ u.db = t.db
        /\ Alters(u, t, {"ready", "isready"}, {}, {})
    BY <1>2, <2>1, Zenon DEF Alters, Shape, Fields
  <2>3. Alters(u, v, {"db", "ready", "isready"}, {}, {})
    BY <1>2, <2>2, AltersJoin
  <2>4. u.ready \in Seq(Keys) /\ ToSet(u.ready) = ToSet(v.ready) \cup {k}
    BY <1>3, <1>4, <2>2, AppendSet
  <2>5. Grows(u, v)
    BY <1>4, <2>2, <2>4 DEF Grows
  <2>6. Alters(u, v, DbFields, {}, {})
    <3>1. {"db", "ready", "isready"} \subseteq DbFields
      BY DEF DbFields
    <3>2. QED
      BY <2>3, <3>1, AltersMoreOf
  <2>7. Good(u, p, R, X \cup {k})
    <3>1. DOMAIN u.db = Keys /\ \A j \in Keys : j # k => u.db[j] = v.db[j]
      BY <1>5, <2>2
    <3>2. k \in ToSet(u.ready) \cup R /\ ToSet(u.ready) \subseteq ToSet(v.ready) \cup {k} /\ u.ready \in Seq(Keys)
      BY <2>4
    <3>3. QED
      BY <2>5, <2>6, <3>1, <3>2, DbChange
  <2>8. QED
    BY <1>2, <2>2, <2>3, <2>5, <2>7
<1>8. QED
  BY <1>6, <1>7

LEMMA DbAddGood ==
  ASSUME NEW v, NEW p, NEW R, NEW X, Good(v, p, R, X), NEW k \in Keys, NEW val, NEW u, u = DbAdd(v, k, val)
  PROVE  /\ Good(u, p, R, X \cup {k}) /\ Alters(u, v, {"db", "ready", "isready"}, {}, {}) /\ Grows(u, v)
         /\ u.db = [v.db EXCEPT ![k] = val]
<1>1. /\ Good(u, p, R, X \cup {k}) /\ Alters(u, v, {"db", "ready", "isready"}, {}, {}) /\ Grows(u, v)
      /\ SetsKey(u, v, k, val)
  BY DbAddIs
<1>2. QED
  BY <1>1 DEF SetsKey

\* What is propagated has no meaning to the lists.
LEMMA PropagateGood ==
  ASSUME NEW v, NEW p, NEW R, NEW X, Good(v, p, R, X), NEW cmd, NEW u, u = Propagate(v, cmd)
  PROVE  Good(u, p, R, X) /\ Alters(u, v, {"copy"}, {}, {})
<1>1. Alters(u, v, {"copy"}, {}, {})
  <2>1. CASE v.slave
    BY <2>1, AltersNot DEF Propagate, Good
  <2>2. CASE ~v.slave
    <3>1. u = [v EXCEPT !.copy = Effect(@, cmd)]
      BY <2>2 DEF Propagate
    <3>2. QED
      BY <3>1, Zenon DEF Alters, Good, Shape, Fields
  <2>3. QED
    BY <2>1, <2>2
<1>2. Good(u, p, R, X)
  <2>1. {"copy"} \subseteq Quiet /\ {} \subseteq {"out", "got"}
    BY DEF Quiet
  <2>2. Alters(u, v, Quiet, {"out", "got"}, {})
    BY <1>1, <2>1 DEF Alters
  <2>3. QED
    BY <2>2, KeepsGood
<1>3. QED
  BY <1>1, <1>2

\* Pushing, taking the rest and assigning change what one key holds.
LEMMA PushedIs ==
  ASSUME NEW db, DOMAIN db = Keys, NEW k \in Keys, NEW val, NEW h
  PROVE  DOMAIN Pushed(db, k, val, h) = Keys /\ \A j \in Keys : j # k => Pushed(db, k, val, h)[j] = db[j]
BY Zenon DEF Pushed
LEMMA RestIs ==
  ASSUME NEW db, DOMAIN db = Keys, NEW k \in Keys, NEW h
  PROVE  DOMAIN Rest(db, k, h) = Keys /\ \A j \in Keys : j # k => Rest(db, k, h)[j] = db[j]
BY Zenon DEF Rest

LEMMA SetDbIs ==
  ASSUME NEW v, Shape(v), NEW d, NEW u, u = [v EXCEPT !.db = d]
  PROVE  Alters(u, v, {"db"}, {}, {}) /\ u.db = d
BY Zenon DEF Alters, Shape, Fields
\* A key is assigned something that is no list.
LEMMA SetDbGood ==
  ASSUME NEW v, NEW p, NEW R, NEW X, Good(v, p, R, X), NEW k \in Keys, NEW u, Alters(u, v, {"db"}, {}, {}),
         DOMAIN u.db = Keys, \A j \in Keys : j # k => u.db[j] = v.db[j],
         IsList(u.db[k]) /\ v.waiting[k] # <<>> => k \in ToSet(v.ready) \cup R
  PROVE  /\ Good(u, p, R, X \cup {k})
         /\ AllDirty(v, k) \/ k \in ToSet(v.ready) \cup R \cup X => Good(u, p, R, X)
<1>1. {"db"} \subseteq DataFields
  BY DEF DataFields
<1>2. Alters(u, v, DataFields, {}, {})
  BY <1>1, AltersMoreOf
<1>3. QED
  BY <1>2, DbChanged

\* dbDelete.
LEMMA DbDeleteGood ==
  ASSUME NEW v, NEW p, NEW R, NEW X, Good(v, p, R, X), NEW k \in Keys, NEW u, u = DbDelete(v, k)
  PROVE  /\ Good(u, p, R, X \cup {k})
         /\ AllDirty(v, k) \/ k \in ToSet(v.ready) \cup R \cup X => Good(u, p, R, X)
         /\ Alters(u, v, {"db", "gone"}, {}, {}) /\ u.db[k] = NoKey /\ \A j \in Keys : j # k => u.db[j] = v.db[j]
         /\ u.db = [v.db EXCEPT ![k] = NoKey]
<1>1. DOMAIN v.db = Keys
  BY DEF Good, Serves
<1>2. Alters(u, v, {"db", "gone"}, {}, {}) /\ u.db = [v.db EXCEPT ![k] = NoKey]
  BY Zenon DEF DbDelete, Alters, Good, Shape, Fields
<1>3. DOMAIN u.db = Keys /\ u.db[k] = NoKey /\ \A j \in Keys : j # k => u.db[j] = v.db[j]
  BY <1>1, <1>2
<1>4. {"db", "gone"} \subseteq DataFields
  BY DEF DataFields
<1>5. Alters(u, v, DataFields, {}, {})
  BY <1>2, <1>4, AltersMoreOf
<1>6. ~IsList(u.db[k])
  BY <1>3 DEF IsList
<1>7. QED
  BY <1>2, <1>3, <1>5, <1>6, DbChanged, ZenonT(60)
LEMMA DbDeleteIs ==
  ASSUME NEW v, NEW p, NEW R, NEW X, Good(v, p, R, X), NEW k \in Keys, NEW u, u = DbDelete(v, k)
  PROVE  /\ Good(u, p, R, X \cup {k}) /\ Alters(u, v, {"db", "gone"}, {}, {}) /\ u.db[k] = NoKey
         /\ SetsKey(u, v, k, NoKey)
<1>1. DOMAIN v.db = Keys
  BY DEF Good, Serves
<1>2. Alters(u, v, {"db", "gone"}, {}, {}) /\ u.db = [v.db EXCEPT ![k] = NoKey]
  BY Zenon DEF DbDelete, Alters, Good, Shape, Fields
<1>3. u.db[k] = NoKey
  BY <1>1, <1>2
<1>4. Good(u, p, R, X \cup {k})
  BY DbDeleteGood
<1>5. QED
  BY <1>2, <1>3, <1>4 DEF SetsKey

-----------------------------------------------------------------------------
(* Waiting. *)

\* A client that is not blocked, and keys that are not there.
MayWait(v, c, keys, target, h) ==
    /\ v.c[c].up /\ "blocked" \notin v.c[c].flags
    /\ keys \in Seq(Keys) /\ \A k \in ToSet(keys) : v.db[k] = NoKey
    /\ target \in Keys \cup {None} /\ (target # None => h = FALSE)

\* blockForKeys: the client is in the lists of all its keys, none of which is a list.
LEMMA BlockForKeysGood ==
  ASSUME NEW v, NEW p, NEW R, NEW X, Good(v, p, R, X), NEW c \in Clients, NEW keys, NEW n, NEW target, NEW h,
         MayWait(v, c, keys, target, h),
         NEW u, u = BlockForKeys(v, c, keys, n, target, h)
  PROVE  Good(u, p, R, X) /\ Alters(u, v, {"waiting"}, {"keys", "timeout", "target", "head"}, {"blocked"})
<1>0. /\ v.c[c].up /\ "blocked" \notin v.c[c].flags
      /\ keys \in Seq(Keys) /\ \A k \in ToSet(keys) : v.db[k] = NoKey
      /\ target \in Keys \cup {None} /\ (target # None => h = FALSE)
  BY DEF MayWait
<1>. USE <1>0
<1>. DEFINE new == ToSet(keys)
<1>1. PICK r : r = Raise(v, c, "blocked")
  OBVIOUS
<1>2. /\ Alters(r, v, {}, {}, {"blocked"}) /\ r.c[c].flags = v.c[c].flags \cup {"blocked"}
      /\ \A x \in Clients : x # c => r.c[x] = v.c[x]
  BY <1>1, RaiseAlters, RaiseIs DEF Good
<1>3. PICK z : z = [r.c[c] EXCEPT !.keys = new, !.timeout = n, !.target = target, !.head = h]
  OBVIOUS
<1>4. r.waiting = v.waiting /\ DOMAIN r.c[c] = CFields
  BY <1>2, Zenon DEF Alters, Shape, Fields
<1>23. DOMAIN r = Fields /\ DOMAIN r.c = Clients
  BY <1>2 DEF Alters, Shape
<1>20. u = [r EXCEPT !.c[c] = z, !.waiting = [k \in Keys |-> IF k \in new THEN Append(@[k], c) ELSE @[k]]]
  BY <1>1, <1>3, Zenon DEF BlockForKeys
<1>21. /\ DOMAIN z = CFields /\ z.keys = new /\ z.target = target /\ z.head = h /\ z.flags = r.c[c].flags
       /\ \A g \in CFields \ {"keys", "timeout", "target", "head", "flags"} : z[g] = r.c[c][g]
  BY <1>3, <1>4, Zenon DEF CFields
<1>5. /\ u.c[c].keys = new /\ u.c[c].target = target /\ u.c[c].flags = r.c[c].flags
      /\ \A x \in Clients : x # c => u.c[x] = r.c[x]
      /\ u.waiting = [k \in Keys |-> IF k \in new THEN Append(v.waiting[k], c) ELSE v.waiting[k]]
  <2>1. u.c = [r.c EXCEPT ![c] = z]
    BY <1>20, <1>23, Zenon DEF Fields
  <2>2. u.waiting = [k \in Keys |-> IF k \in new THEN Append(r.waiting[k], c) ELSE r.waiting[k]]
    BY <1>20, <1>23, Zenon DEF Fields
  <2>3. u.waiting = [k \in Keys |-> IF k \in new THEN Append(v.waiting[k], c) ELSE v.waiting[k]]
    BY <1>4, <2>2
  <2>4. u.c[c] = z /\ \A x \in Clients : x # c => u.c[x] = r.c[x]
    BY <1>23, <2>1
  <2>5. QED
    BY <1>21, <2>3, <2>4
<1>22. u.c[c] = z
  BY <1>20, <1>23, Zenon DEF Fields
<1>6. Alters(u, r, {"waiting"}, {"keys", "timeout", "target", "head"}, {})
  <2>1. Shape(r)
    BY <1>2 DEF Alters
  <2>2. DOMAIN u = Fields /\ DOMAIN u.c = Clients /\ \A f \in Fields \ {"waiting", "c"} : u[f] = r[f]
    BY <1>20, <2>1, Zenon DEF Shape, Fields
  <2>3. \A x \in Clients : DOMAIN u.c[x] = CFields
    BY <1>5, <1>21, <1>22, <2>1 DEF Shape
  <2>4. \A x \in Clients : \A g \in CFields \ {"keys", "timeout", "target", "head", "flags"} : u.c[x][g] = r.c[x][g]
    BY <1>5, <1>21, <1>22
  <2>5. \A x \in Clients : u.c[x].flags = r.c[x].flags
    BY <1>5
  <2>6. QED
    BY <2>2, <2>3, <2>4, <2>5, ZenonT(60) DEF Alters, Shape
<1>7. Alters(u, v, {"waiting"}, {"keys", "timeout", "target", "head"}, {"blocked"})
  BY <1>2, <1>6, AltersJoin
<1>8. /\ Shape(u) /\ Ups(u) /\ NoLinks(u) /\ Watches(u) /\ Listens(u) /\ Patterns(u) /\ Closes(u)
      /\ Unblocks(u) /\ Sent(u, p) /\ Sees(u, R, X)
  BY <1>7, Keeps
<1>9. NoFlags(u)
  <2>1. "up" \in CFields \ ({"keys", "timeout", "target", "head"} \cup {"flags"})
    BY DEF CFields
  <2>2. \A x \in Clients : u.c[x].up = v.c[x].up
    BY <1>7, <2>1, Zenon DEF Alters
  <2>3. QED
    BY <1>2, <1>5, <2>2 DEF Good, NoFlags
<1>10. Waits(v) /\ new \subseteq Keys
  BY SetOfSeq DEF Good
<1>11. \A k \in Keys : c \notin ToSet(v.waiting[k])
  BY <1>10 DEF Waits
<1>12. ASSUME NEW k \in Keys
       PROVE  /\ u.waiting[k] \in Seq(Clients) /\ Once(u.waiting[k])
              /\ ToSet(u.waiting[k]) = ToSet(v.waiting[k]) \cup (IF k \in new THEN {c} ELSE {})
  <2>1. PICK q \in Seq(Clients) : q = v.waiting[k] /\ Once(q)
    BY <1>10 DEF Waits
  <2>2. CASE k \in new
    <3>1. u.waiting[k] = Append(q, c)
      BY <1>5, <2>1, <2>2
    <3>2. c \notin ToSet(q)
      BY <1>11, <2>1
    <3>3. QED
      BY <2>1, <2>2, <3>1, <3>2, AppendSet
  <2>3. CASE k \notin new
    BY <1>5, <2>1, <2>3
  <2>4. QED
    BY <2>2, <2>3
<1>13. Waits(u)
  <2>1. \A x \in Clients : u.c[x].keys \in SUBSET Keys /\ u.c[x].target \in Keys \cup {None}
    BY <1>2, <1>5, <1>10 DEF Waits
  <2>6. \A x \in Clients : u.c[x].target # None => u.c[x].head = FALSE
    BY <1>2, <1>5, <1>10, <1>21, <1>22 DEF Waits
  <2>2. ASSUME NEW x \in Clients, u.c[x].keys # {} PROVE "blocked" \in u.c[x].flags
    <3>1. CASE x = c
      BY <1>2, <1>5, <3>1
    <3>2. CASE x # c
      <4>1. u.c[x] = v.c[x]
        BY <1>2, <1>5, <3>2
      <4>2. QED
        BY <1>10, <2>2, <4>1 DEF Waits
    <3>3. QED
      BY <3>1, <3>2
  <2>3. ASSUME NEW x \in Clients, NEW k \in Keys PROVE x \in ToSet(u.waiting[k]) <=> k \in u.c[x].keys
    <3>1. CASE x = c
      <4>1. x \notin ToSet(v.waiting[k])
        BY <1>11, <3>1
      <4>2. QED
        BY <1>5, <1>12, <3>1, <4>1, ZenonT(60)
    <3>2. CASE x # c
      <4>1. u.c[x] = v.c[x]
        BY <1>2, <1>5, <3>2
      <4>2. x \in ToSet(u.waiting[k]) <=> x \in ToSet(v.waiting[k])
        BY <1>12, <3>2
      <4>3. QED
        BY <1>10, <4>1, <4>2 DEF Waits
    <3>3. QED
      BY <3>1, <3>2
  <2>4. DOMAIN u.waiting = Keys
    BY <1>5
  <2>5. QED
    BY <1>12, <2>1, <2>2, <2>3, <2>4, <2>6 DEF Waits
<1>14. Serves(u, R)
  <2>1. u.db = v.db /\ u.ready = v.ready /\ u.isready = v.isready
    BY <1>7, Zenon DEF Alters, Fields
  <2>2. ASSUME NEW k \in Keys, IsList(u.db[k]), u.waiting[k] # <<>> PROVE k \in ToSet(u.ready) \cup R
    <3>1. k \notin new
      BY <2>1, <2>2 DEF IsList
    <3>2. u.waiting[k] = v.waiting[k]
      BY <1>5, <3>1
    <3>3. QED
      BY <2>1, <2>2, <3>2 DEF Good, Serves
  <2>3. QED
    BY <2>1, <2>2 DEF Good, Serves
<1>15. QED
  BY <1>7, <1>8, <1>9, <1>13, <1>14 DEF Good

\* A client that waits no longer: for any key.
WaitsNot(u, v, c) ==
    /\ Alters(u, v, {"waiting", "unblocked"}, {"keys", "target"}, {"blocked", "unblocked"})
    /\ u.c[c].flags = (v.c[c].flags \ {"blocked"}) \cup {"unblocked"}
    /\ \A x \in Clients : x # c => u.c[x] = v.c[x]
    /\ \A k \in Keys : ToSet(u.waiting[k]) = ToSet(v.waiting[k]) \ {c}

\* unblockClientWaitingData takes it out of all of them ...
LEMMA WaitingDataIs ==
  ASSUME NEW v, Shape(v), NEW c \in Clients, NEW t, t = UnblockClientWaitingData(v, c)
  PROVE  /\ Alters(t, v, {"waiting"}, {"keys", "target"}, {})
         /\ t.c[c].keys = {} /\ t.c[c].target = None /\ t.c[c].flags = v.c[c].flags
         /\ \A x \in Clients : x # c => t.c[x] = v.c[x]
         /\ t.waiting = [k \in Keys |-> IF k \in v.c[c].keys THEN Without(v.waiting[k], c) ELSE v.waiting[k]]
BY ZenonT(60) DEF UnblockClientWaitingData, Alters, Shape, Fields, CFields

\* ... and unblockClient has it looked at again.
LEMMA UnblockClientGood ==
  ASSUME NEW v, NEW p, NEW R, NEW X, Good(v, p, R, X), NEW c \in Clients, v.c[c].up,
         NEW u, u = UnblockClient(v, c)
  PROVE  Good(u, p, R, X) /\ WaitsNot(u, v, c) /\ u.c[c].keys = {}
<1>1. PICK t : t = UnblockClientWaitingData(v, c)
  OBVIOUS
<1>2. PICK r : r = Clear(t, c, {"blocked"})
  OBVIOUS
<1>3. PICK w : w = Raise(r, c, "unblocked")
  OBVIOUS
<1>4. u = [w EXCEPT !.unblocked = Append(@, c)]
  BY <1>1, <1>2, <1>3 DEF UnblockClient
<1>5. Shape(v) /\ Waits(v)
  BY DEF Good
<1>6. /\ Alters(t, v, {"waiting"}, {"keys", "target"}, {})
      /\ t.c[c].keys = {} /\ t.c[c].target = None /\ t.c[c].flags = v.c[c].flags
      /\ \A x \in Clients : x # c => t.c[x] = v.c[x]
      /\ t.waiting = [k \in Keys |-> IF k \in v.c[c].keys THEN Without(v.waiting[k], c) ELSE v.waiting[k]]
  BY <1>1, <1>5, WaitingDataIs
<1>7. /\ Alters(r, t, {}, {}, {"blocked"}) /\ r.c[c].flags = t.c[c].flags \ {"blocked"}
      /\ \A x \in Clients : x # c => r.c[x] = t.c[x]
  BY <1>2, <1>6, ClearIs DEF Alters
<1>8. /\ Alters(w, r, {}, {}, {"unblocked"}) /\ w.c[c].flags = r.c[c].flags \cup {"unblocked"}
      /\ \A x \in Clients : x # c => w.c[x] = r.c[x]
  BY <1>3, <1>7, RaiseAlters, RaiseIs DEF Alters
<1>9. Alters(w, v, {"waiting"}, {"keys", "target"}, {"blocked", "unblocked"})
  <2>1. Alters(r, v, {"waiting"}, {"keys", "target"}, {"blocked"})
    BY <1>6, <1>7, AltersJoin
  <2>2. Alters(w, r, {}, {}, {"unblocked"})
    BY <1>8
  <2>3. QED
    BY <2>1, <2>2, AltersJoin, SMTT(30)
<1>10. w.waiting = t.waiting /\ w.c[c].keys = {} /\ w.c[c].target = None /\ w.unblocked = v.unblocked
  <2>1. r.waiting = t.waiting /\ r.c[c].keys = t.c[c].keys /\ r.c[c].target = t.c[c].target
    BY <1>7, ZenonT(60) DEF Alters, Fields, CFields
  <2>2. w.waiting = r.waiting /\ w.c[c].keys = r.c[c].keys /\ w.c[c].target = r.c[c].target
    BY <1>8, Zenon DEF Alters, Fields, CFields
  <2>3. w.unblocked = v.unblocked
    BY <1>9, Zenon DEF Alters, Fields
  <2>4. QED
    BY <1>6, <2>1, <2>2, <2>3
<1>11. /\ u.c = w.c /\ u.waiting = w.waiting /\ u.unblocked = Append(v.unblocked, c)
       /\ Alters(u, w, {"unblocked"}, {}, {})
  BY <1>4, <1>9, <1>10, ZenonT(60) DEF Alters, Shape, Fields
<1>12. Alters(u, v, {"waiting", "unblocked"}, {"keys", "target"}, {"blocked", "unblocked"})
  BY <1>9, <1>11, AltersJoin
<1>13. u.c[c].flags = (v.c[c].flags \ {"blocked"}) \cup {"unblocked"} /\ \A x \in Clients : x # c => u.c[x] = v.c[x]
  BY <1>6, <1>7, <1>8, <1>11
<1>14. ASSUME NEW k \in Keys
       PROVE  /\ u.waiting[k] \in Seq(Clients) /\ Once(u.waiting[k])
              /\ ToSet(u.waiting[k]) = ToSet(v.waiting[k]) \ {c}
  <2>1. PICK q \in Seq(Clients) : q = v.waiting[k] /\ Once(q)
    BY <1>5 DEF Waits
  <2>2. CASE k \in v.c[c].keys
    <3>1. u.waiting[k] = Without(q, c)
      BY <1>6, <1>10, <1>11, <2>1, <2>2
    <3>2. QED
      BY <2>1, <3>1, WithoutIs
  <2>3. CASE k \notin v.c[c].keys
    <3>1. u.waiting[k] = q
      BY <1>6, <1>10, <1>11, <2>1, <2>3
    <3>2. c \notin ToSet(q)
      BY <1>5, <2>1, <2>3 DEF Waits
    <3>3. QED
      BY <2>1, <3>1, <3>2
  <2>4. QED
    BY <2>2, <2>3
<1>15. /\ Shape(u) /\ Ups(u) /\ NoLinks(u) /\ Watches(u) /\ Listens(u) /\ Patterns(u) /\ Closes(u)
       /\ Sent(u, p) /\ Sees(u, R, X)
  BY <1>12, Keeps
<1>16. NoFlags(u)
  <2>1. \A x \in Clients : u.c[x].up = v.c[x].up
    BY <1>12, Zenon DEF Alters, CFields
  <2>2. QED
    BY <1>13, <2>1, Zenon DEF Good, NoFlags
<1>17. Waits(u)
  <2>1. \A x \in Clients : u.c[x].keys \in SUBSET Keys /\ u.c[x].target \in Keys \cup {None}
    BY <1>5, <1>10, <1>11, <1>13 DEF Waits
  <2>6. \A x \in Clients : u.c[x].target # None => u.c[x].head = FALSE
    BY <1>5, <1>10, <1>11, <1>13 DEF Waits
  <2>2. \A x \in Clients : u.c[x].keys # {} => "blocked" \in u.c[x].flags
    BY <1>5, <1>10, <1>11, <1>13 DEF Waits
  <2>3. ASSUME NEW x \in Clients, NEW k \in Keys PROVE x \in ToSet(u.waiting[k]) <=> k \in u.c[x].keys
    <3>1. CASE x = c
      BY <1>10, <1>11, <1>14, <3>1
    <3>2. CASE x # c
      BY <1>5, <1>13, <1>14, <3>2 DEF Waits
    <3>3. QED
      BY <3>1, <3>2
  <2>4. DOMAIN u.waiting = Keys
    BY <1>6, <1>10, <1>11
  <2>5. QED
    BY <1>14, <2>1, <2>2, <2>3, <2>4, <2>6 DEF Waits
<1>18. Unblocks(u)
  <2>1. Unblocks(v)
    BY DEF Good
  <2>2. u.unblocked \in Seq(Clients) /\ ToSet(u.unblocked) = ToSet(v.unblocked) \cup {c}
    BY <1>11, <2>1, AppendSet DEF Unblocks
  <2>3. QED
    BY <1>13, <2>1, <2>2, Zenon DEF Unblocks
<1>19. Serves(u, R)
  <2>1. u.db = v.db /\ u.ready = v.ready /\ u.isready = v.isready
    BY <1>12, Zenon DEF Alters, Fields
  <2>2. ASSUME NEW k \in Keys, u.waiting[k] # <<>> PROVE v.waiting[k] # <<>>
    <3>1. ToSet(u.waiting[k]) # {}
      BY <1>14, <2>2, SetOfSeq
    <3>2. ToSet(v.waiting[k]) # {}
      BY <1>14, <3>1
    <3>3. QED
      BY <3>2 DEF ToSet
  <2>3. QED
    BY <2>1, <2>2 DEF Good, Serves
<1>20. QED
  BY <1>10, <1>11, <1>12, <1>13, <1>14, <1>15, <1>16, <1>17, <1>18, <1>19 DEF Good, WaitsNot

-----------------------------------------------------------------------------
(* The data, and the copy that those who read the stream of commands have.  *)

\* What a key may hold.
Values == {NoKey, Text} \cup Seq(Elements)

\* The data as it is once the lists that are empty are gone.
Kept(db) == [k \in Keys |-> IF db[k] = <<>> THEN NoKey ELSE db[k]]

\* Lists are empty at the keys in E only; who follows a server that is not a slave
\* has what it keeps, and nobody but a slave has a link with a master.
Data(v, E) ==
    /\ v.db \in [Keys -> Values] /\ \A k \in Keys : v.db[k] = <<>> => k \in E
    /\ ~v.slave => v.copy = Kept(v.db) /\ \A x \in Clients : "master" \notin v.c[x].flags

LEMMA SameData == ASSUME NEW u, NEW v, NEW E, Data(v, E), Same(u, v) PROVE Data(u, E)
BY Zenon DEF Data, Same, Wrote

\* An operation that leaves no list empty, and the copy with what there is.
Carries(u, v) == Data(v, {}) => Data(u, {})
LEMMA SameCarries == ASSUME NEW u, NEW v, Same(u, v) PROVE Carries(u, v)
BY SameData DEF Carries
LEMMA CarriesTrans == ASSUME NEW u, NEW v, NEW w, Carries(u, v), Carries(w, u) PROVE Carries(w, v)
BY DEF Carries

LEMMA ValueIs ==
  ASSUME NEW q \in Values
  PROVE  /\ IsList(q) <=> q \in Seq(Elements)
         /\ Items(q) \in Seq(Elements)
BY ValuesAssumption, EmptySeq DEF Values, IsList, Items

\* Nothing is lost where no list is empty.
LEMMA KeptAll ==
  ASSUME NEW db \in [Keys -> Values], \A k \in Keys : db[k] # <<>>
  PROVE  Kept(db) = db
BY DEF Kept

LEMMA KeptItems ==
  ASSUME NEW db, NEW k \in Keys
  PROVE  Items(Kept(db)[k]) = Items(db[k])
<1>1. Kept(db)[k] = IF db[k] = <<>> THEN NoKey ELSE db[k]
  BY DEF Kept
<1>2. QED
  BY <1>1, ValuesAssumption DEF Items, IsList

\* Pushing makes a list that is not empty, whether there was one or not.
LEMMA PushedValue ==
  ASSUME NEW db \in [Keys -> Values], NEW k \in Keys, NEW e \in Elements, NEW h, NEW d, d = Pushed(db, k, e, h)
  PROVE  /\ d \in [Keys -> Values] /\ IsList(d[k]) /\ d[k] # <<>> /\ \A j \in Keys : j # k => d[j] = db[j]
         /\ Kept(d) = Pushed(Kept(db), k, e, h)
<1>1. PICK q \in Seq(Elements) : q = Items(db[k])
  BY ValueIs
<1>2. PICK r : r = IF h THEN <<e>> \o q ELSE Append(q, e)
  OBVIOUS
<1>3. r \in Seq(Elements) /\ r # <<>>
  <2>1. CASE h
    <3>0. <<e>> \in Seq(Elements) /\ Len(<<e>>) = 1
      OBVIOUS
    <3>1. PICK o \in Seq(Elements) : o = <<e>> /\ Len(o) = 1
      BY <3>0, Zenon
    <3>2. o \o q \in Seq(Elements) /\ Len(o \o q) = 1 + Len(q) /\ Len(q) \in Nat
      BY <3>1, ConcatProperties, LenProperties
    <3>3. r \in Seq(Elements) /\ Len(r) > 0
      BY <1>2, <2>1, <3>1, <3>2
    <3>4. QED
      BY <3>3, EmptySeq
  <2>2. CASE ~h
    BY <1>2, <2>2, AppendProperties
  <2>3. QED
    BY <2>1, <2>2
<1>4. d = [db EXCEPT ![k] = r]
  BY <1>1, <1>2 DEF Pushed
<1>5. Kept(d) = [Kept(db) EXCEPT ![k] = r]
  <2>1. DOMAIN db = Keys
    OBVIOUS
  <2>2. Kept(d) = [Kept(db) EXCEPT ![k] = IF r = <<>> THEN NoKey ELSE r]
    BY <1>4, <2>1 DEF Kept
  <2>3. QED
    BY <1>3, <2>2
<1>6. Items(Kept(db)[k]) = q
  BY <1>1, KeptItems
<1>7. Pushed(Kept(db), k, e, h) = [Kept(db) EXCEPT ![k] = r]
  BY <1>2, <1>6 DEF Pushed
<1>8. r \in Values /\ IsList(r)
  BY <1>3, ValueIs DEF Values
<1>9. QED
  BY <1>3, <1>4, <1>5, <1>7, <1>8

\* Taking an element leaves a list, which may be empty; putting it back undoes it.
LEMMA RestValue ==
  ASSUME NEW db \in [Keys -> Values], NEW k \in Keys, IsList(db[k]), db[k] # <<>>, NEW h,
         NEW d, d = Rest(db, k, h)
  PROVE  /\ d \in [Keys -> Values] /\ IsList(d[k]) /\ \A j \in Keys : j # k => d[j] = db[j]
         /\ First(db, k, h) \in Elements /\ Pushed(d, k, First(db, k, h), h) = db
         /\ Kept(d) = Popped(Kept(db), k, h)
         /\ Kept(d) = IF d[k] = <<>> THEN [Kept(db) EXCEPT ![k] = NoKey] ELSE [Kept(db) EXCEPT ![k] = d[k]]
<1>1. PICK q \in Seq(Elements) : q = db[k] /\ q # <<>>
  BY ValueIs
<1>2. PICK r : r = IF h THEN Tail(q) ELSE Front(q)
  OBVIOUS
<1>3. PICK n \in Nat : n = Len(q) /\ n > 0 /\ DOMAIN q = 1 .. n /\ Head(q) = q[1] /\ Last(q) = q[n]
                       /\ \A i \in 1 .. n : q[i] \in Elements
  BY <1>1, LenProperties, EmptySeq, HeadTailProperties DEF Last
<1>4. PICK a : a = Front(q)
  OBVIOUS
<1>5. a \in Seq(Elements) /\ Len(a) = n - 1 /\ \A i \in 1 .. n - 1 : a[i] = q[i]
  <2>1. a = SubSeq(q, 1, n - 1)
    BY <1>3, <1>4 DEF Front
  <2>2. \A i \in 1 .. n - 1 : q[i] \in Elements
    BY <1>3
  <2>3. QED
    BY <1>1, <1>3, <2>1, <2>2, SubSeqProperties
<1>6. PICK b \in Seq(Elements) : b = Tail(q) /\ Len(b) = n - 1 /\ \A i \in 1 .. n - 1 : b[i] = q[i + 1]
  <2>1. Tail(q) \in Seq(Elements) /\ Len(Tail(q)) = n - 1
    BY <1>1, <1>3, HeadTailProperties
  <2>2. \A i \in 1 .. n - 1 : Tail(q)[i] = q[i + 1]
    BY <1>1, <2>1, HeadTailProperties
  <2>3. QED
    BY <2>1, <2>2, Zenon
<1>7. r \in Seq(Elements)
  BY <1>2, <1>4, <1>5, <1>6
<1>8. d = [db EXCEPT ![k] = r]
  BY <1>1, <1>2 DEF Rest
<1>9. Kept(d) = [Kept(db) EXCEPT ![k] = IF r = <<>> THEN NoKey ELSE r]
  <2>1. DOMAIN db = Keys
    OBVIOUS
  <2>2. QED
    BY <1>8, <2>1 DEF Kept
<1>10. Kept(db)[k] = q /\ IsList(q) /\ k \in DOMAIN Kept(db)
  BY <1>1 DEF Kept
<1>11. Popped(Kept(db), k, h) = [Kept(db) EXCEPT ![k] = IF r = <<>> THEN NoKey ELSE r]
  <2>1. PICK t : t = [Kept(db) EXCEPT ![k] = r]
    OBVIOUS
  <2>2. Rest(Kept(db), k, h) = t
    BY <1>2, <1>10, <2>1 DEF Rest
  <2>3. Popped(Kept(db), k, h) = Trimmed(t, k)
    BY <1>1, <1>10, <2>2 DEF Popped
  <2>4. t[k] = r
    BY <1>10, <2>1
  <2>5. QED
    BY <2>1, <2>3, <2>4 DEF Trimmed
<1>12. PICK e \in Elements : e = First(db, k, h) /\ e = IF h THEN q[1] ELSE q[n]
  BY <1>1, <1>3 DEF First
<1>13. r \in Values /\ IsList(r)
  BY <1>7, ValueIs DEF Values
<1>14. Items(d[k]) = r
  BY <1>8, <1>13 DEF Items
<1>15. PICK z : z = IF h THEN <<e>> \o r ELSE Append(r, e)
  OBVIOUS
<1>16. z = q
  <2>1. CASE h
    <3>0. <<e>> \in Seq(Elements) /\ Len(<<e>>) = 1 /\ <<e>>[1] = e
      OBVIOUS
    <3>1. PICK o \in Seq(Elements) : o = <<e>> /\ Len(o) = 1 /\ o[1] = e
      BY <3>0, Zenon
    <3>2. z = o \o b
      BY <1>2, <1>6, <1>15, <2>1, <3>1
    <3>3. /\ z \in Seq(Elements) /\ Len(z) = n
          /\ \A i \in 1 .. n : z[i] = IF i <= 1 THEN o[i] ELSE b[i - 1]
      BY <1>3, <1>6, <3>1, <3>2, ConcatProperties
    <3>4. ASSUME NEW i \in 1 .. n PROVE z[i] = q[i]
      <4>1. CASE i = 1
        BY <1>12, <2>1, <3>1, <3>3, <4>1
      <4>2. CASE i # 1
        <5>1. i - 1 \in 1 .. n - 1 /\ (i - 1) + 1 = i /\ ~(i <= 1)
          BY <4>2
        <5>2. QED
          BY <1>6, <3>3, <5>1
      <4>3. QED
        BY <4>1, <4>2
    <3>5. QED
      BY <1>3, <3>3, <3>4, SeqEqual
  <2>2. CASE ~h
    <3>1. z = Append(a, e)
      BY <1>2, <1>4, <1>15, <2>2
    <3>2. /\ z \in Seq(Elements) /\ Len(z) = n
          /\ \A i \in 1 .. n - 1 : z[i] = a[i]
          /\ z[n] = e
      BY <1>3, <1>5, <3>1, AppendProperties
    <3>3. \A i \in 1 .. n : i = n \/ i \in 1 .. n - 1
      OBVIOUS
    <3>4. \A i \in 1 .. n : z[i] = q[i]
      BY <1>5, <1>12, <2>2, <3>2, <3>3
    <3>5. QED
      BY <1>3, <3>2, <3>4, SeqEqual
  <2>3. QED
    BY <2>1, <2>2
<1>17. Pushed(d, k, e, h) = db
  BY <1>1, <1>8, <1>14, <1>15, <1>16 DEF Pushed
<1>18. d[k] = r
  BY <1>8
<1>19. QED
  BY <1>8, <1>9, <1>11, <1>12, <1>13, <1>17, <1>18

\* It makes no difference that an empty list is made first.
LEMMA MadePushed ==
  ASSUME NEW db, DOMAIN db = Keys, NEW k \in Keys, NEW d, d = IF db[k] = NoKey THEN [db EXCEPT ![k] = <<>>] ELSE db,
         NEW e, NEW h
  PROVE  Pushed(d, k, e, h) = Pushed(db, k, e, h)
<1>1. CASE db[k] = NoKey
  <2>1. Items(d[k]) = <<>> /\ Items(db[k]) = <<>>
    BY <1>1, ValuesAssumption DEF Items, IsList
  <2>2. PICK q : q = IF h THEN <<e>> \o <<>> ELSE Append(<<>>, e)
    OBVIOUS
  <2>3. Pushed(d, k, e, h) = [d EXCEPT ![k] = q] /\ Pushed(db, k, e, h) = [db EXCEPT ![k] = q]
    BY <2>1, <2>2, Zenon DEF Pushed
  <2>4. QED
    BY <1>1, <2>3
<1>2. CASE db[k] # NoKey
  BY <1>2
<1>3. QED
  BY <1>1, <1>2

\* propagate: those who follow get the command.
Copied(u, v, cmd) == /\ u.db = v.db /\ u.slave = v.slave
                     /\ \A x \in Clients : "master" \in u.c[x].flags => "master" \in v.c[x].flags
                     /\ ~v.slave => u.copy = Effect(v.copy, cmd)
LEMMA PropagateCopied ==
  ASSUME NEW v, Shape(v), NEW cmd, NEW u, u = Propagate(v, cmd)
  PROVE  Copied(u, v, cmd)
<1>1. CASE v.slave
  BY <1>1 DEF Propagate, Copied
<1>2. CASE ~v.slave
  <2>1. u = [v EXCEPT !.copy = Effect(@, cmd)]
    BY <1>2 DEF Propagate
  <2>2. u.db = v.db /\ u.slave = v.slave /\ u.c = v.c /\ u.copy = Effect(v.copy, cmd)
    BY <2>1, Zenon DEF Shape, Fields
  <2>3. QED
    BY <2>2 DEF Copied
<1>3. QED
  BY <1>1, <1>2

\* A key that is being served: its list may be empty.
Fed(v, k) == Data(v, {k}) /\ IsList(v.db[k])
\* Its client gets an element ...
LEMMA FedPop ==
  ASSUME NEW k \in Keys, NEW v, Fed(v, k), v.db[k] # <<>>, NEW h, NEW t, t.db = Rest(v.db, k, h), Wrote(t, v),
         NEW u, Copied(u, t, [op |-> "pop", k |-> k, head |-> h])
  PROVE  Fed(u, k)
<1>1. PICK db \in [Keys -> Values], d \in [Keys -> Values] : db = v.db /\ d = t.db
  BY RestValue DEF Fed, Data
<1>2. IsList(d[k]) /\ (\A j \in Keys : j # k => d[j] = db[j]) /\ Kept(d) = Popped(Kept(db), k, h)
  BY <1>1, RestValue DEF Fed
<1>3. u.db = d /\ u.slave = v.slave /\ \A x \in Clients : "master" \in u.c[x].flags => "master" \in v.c[x].flags
  BY <1>1 DEF Wrote, Copied
<1>4. ~v.slave => u.copy = Popped(Kept(db), k, h)
  BY <1>1 DEF Wrote, Copied, Effect, Fed, Data
<1>5. QED
  BY <1>1, <1>2, <1>3, <1>4 DEF Fed, Data
\* ... or it is put back ...
LEMMA FedUndone ==
  ASSUME NEW k \in Keys, NEW v, Fed(v, k), v.db[k] # <<>>, NEW h, NEW t, t.db = Rest(v.db, k, h), Wrote(t, v),
         NEW u, u.db = Pushed(t.db, k, First(v.db, k, h), h), Wrote(u, t)
  PROVE  Fed(u, k)
<1>1. u.db = v.db
  BY RestValue DEF Fed, Data
<1>2. Same(u, v)
  BY <1>1, WroteTrans DEF Same
<1>3. QED
  BY <1>1, <1>2, SameData DEF Fed
\* ... or goes to another list.
LEMMA FedPush ==
  ASSUME NEW k \in Keys, NEW v, Fed(v, k), NEW j \in Keys, NEW e \in Elements,
         NEW t, t.db = Pushed(v.db, j, e, TRUE), Wrote(t, v),
         NEW u, Copied(u, t, [op |-> "push", k |-> j, v |-> e, head |-> TRUE])
  PROVE  Fed(u, k)
<1>1. PICK db \in [Keys -> Values] : db = v.db
  BY DEF Fed, Data
<1>2. PICK d \in [Keys -> Values] : d = t.db
  BY <1>1, PushedValue
<1>3. /\ IsList(d[j]) /\ d[j] # <<>> /\ (\A i \in Keys : i # j => d[i] = db[i])
      /\ Kept(d) = Pushed(Kept(db), j, e, TRUE)
  <2>1. PICK h : h = TRUE
    OBVIOUS
  <2>2. d = Pushed(db, j, e, h)
    BY <1>1, <1>2, <2>1
  <2>3. /\ IsList(d[j]) /\ d[j] # <<>> /\ (\A i \in Keys : i # j => d[i] = db[i])
        /\ Kept(d) = Pushed(Kept(db), j, e, h)
    BY <2>2, PushedValue
  <2>4. QED
    BY <2>1, <2>3
<1>4. u.db = d /\ u.slave = v.slave /\ \A x \in Clients : "master" \in u.c[x].flags => "master" \in v.c[x].flags
  BY <1>2 DEF Wrote, Copied
<1>5. ~v.slave => u.copy = Pushed(Kept(db), j, e, TRUE)
  BY <1>1 DEF Wrote, Copied, Effect, Fed, Data
<1>6. QED
  BY <1>1, <1>2, <1>3, <1>4, <1>5 DEF Fed, Data
\* At the end the list goes, if it is empty.
LEMMA FedTrimmed ==
  ASSUME NEW k \in Keys, NEW v, Fed(v, k), NEW u,
         u.db = IF v.db[k] = <<>> THEN [v.db EXCEPT ![k] = NoKey] ELSE v.db, Wrote(u, v)
  PROVE  Data(u, {})
<1>1. PICK db \in [Keys -> Values] : db = v.db
  BY DEF Fed, Data
<1>2. \A j \in Keys : db[j] = <<>> => j = k
  BY <1>1 DEF Fed, Data
<1>3. PICK d : d = u.db
  OBVIOUS
<1>4. d \in [Keys -> Values] /\ \A j \in Keys : d[j] # <<>>
  BY <1>1, <1>2, <1>3, ValuesAssumption DEF Values
<1>5. Kept(d) = Kept(db)
  BY <1>1, <1>2, <1>3, ValuesAssumption DEF Kept
<1>6. QED
  BY <1>1, <1>3, <1>4, <1>5 DEF Fed, Data, Wrote

-----------------------------------------------------------------------------
(* Serving. *)

\* A loop whose every step alters at most the same things, and keeps the lists.
LEMMA Repeats ==
  ASSUME NEW n \in Nat, NEW f, NEW p, NEW R, NEW X, NEW F, NEW G, NEW L, Good(f[0], p, R, X),
         \A i \in 1 .. n : Good(f[i - 1], p, R, X) /\ Alters(f[i - 1], f[0], F, G, L)
                             => Good(f[i], p, R, X) /\ Alters(f[i], f[i - 1], F, G, L)
  PROVE  Good(f[n], p, R, X) /\ Alters(f[n], f[0], F, G, L)
<1>. DEFINE T == {i \in 0 .. n : Good(f[i], p, R, X) /\ Alters(f[i], f[0], F, G, L)}
<1>1. 0 \in T
  BY AltersNot DEF Good
<1>2. \A i \in T : i < n => i + 1 \in T
  <2>1. SUFFICES ASSUME NEW i \in T, i < n PROVE i + 1 \in T
    OBVIOUS
  <2>2. PICK j \in 1 .. n : j = i + 1 /\ j - 1 = i
    BY <2>1
  <2>3. Good(f[j - 1], p, R, X) /\ Alters(f[j - 1], f[0], F, G, L)
    BY <2>2
  <2>4. Good(f[j], p, R, X) /\ Alters(f[j], f[j - 1], F, G, L)
    BY <2>3
  <2>5. Alters(f[j], f[0], F, G, L)
    BY <2>3, <2>4, AltersTrans
  <2>6. QED
    BY <2>2, <2>4, <2>5
<1>3. T \in SUBSET (0 .. n)
  OBVIOUS
<1>. HIDE DEF T
<1>4. \A i \in 0 .. n : i \in T
  BY <1>1, <1>2, <1>3, IntervalInduct
<1>5. n \in T
  BY <1>4
<1>6. QED
  BY <1>5 DEF T

\* The push of BRPOPLPUSH and RPOPLPUSH.
Pushes(u, v) ==
    Alters(u, v, {"db", "ready", "isready", "copy", "toclose"}, {"out"}, {"dirty_cas", "close_asap"}) /\ Grows(u, v)
LEMMA PushesTrans ==
  ASSUME NEW u, NEW v, NEW w, Pushes(u, v), Pushes(w, u) PROVE Pushes(w, v)
BY AltersTrans, GrowsTrans DEF Pushes
\* The steps of a push that keep what matters to it.
LEMMA RepliedPushes ==
  ASSUME NEW u, NEW v, Replied(u, v) PROVE Pushes(u, v)
<1>1. u.ready = v.ready /\ u.isready = v.isready
  BY Zenon DEF Replied, Alters, Fields
<1>2. Alters(u, v, {"db", "ready", "isready", "copy", "toclose"}, {"out"}, {"dirty_cas", "close_asap"})
  BY AltersMore DEF Replied
<1>3. QED
  BY <1>1, <1>2 DEF Pushes, Grows
LEMMA CopiedPushes ==
  ASSUME NEW u, NEW v, Alters(u, v, {"copy"}, {}, {}) PROVE Pushes(u, v)
<1>1. u.ready = v.ready /\ u.isready = v.isready
  BY Zenon DEF Alters, Fields
<1>2. Alters(u, v, {"db", "ready", "isready", "copy", "toclose"}, {"out"}, {"dirty_cas", "close_asap"})
  BY DEF Alters
<1>3. QED
  BY <1>1, <1>2 DEF Pushes, Grows
LEMMA TouchedPushes ==
  ASSUME NEW u, NEW v, Touched(u, v) PROVE Pushes(u, v)
<1>1. u.ready = v.ready /\ u.isready = v.isready
  BY Zenon DEF Touched, Alters, Fields
<1>2. Alters(u, v, {"db", "ready", "isready", "copy", "toclose"}, {"out"}, {"dirty_cas", "close_asap"})
  BY DEF Touched, Alters
<1>3. QED
  BY <1>1, <1>2 DEF Pushes, Grows
LEMMA DbPushes ==
  ASSUME NEW u, NEW v, Alters(u, v, {"db"}, {}, {}) PROVE Pushes(u, v)
<1>1. u.ready = v.ready /\ u.isready = v.isready
  BY Zenon DEF Alters, Fields
<1>2. Alters(u, v, {"db", "ready", "isready", "copy", "toclose"}, {"out"}, {"dirty_cas", "close_asap"})
  BY DEF Alters
<1>3. QED
  BY <1>1, <1>2 DEF Pushes, Grows

\* The key's list, made if it was not there.
Made(v, k) == IF v.db[k] = NoKey THEN DbAdd(v, k, <<>>) ELSE v

\* A list that is made for a push, and signalled as modified.
Makes(u, v, k) == u.db = IF v.db[k] = NoKey THEN [v.db EXCEPT ![k] = <<>>] ELSE v.db
Puts(u, v, k, val) == u.db = Pushed(v.db, k, val, TRUE)
LEMMA MadeGood ==
  ASSUME NEW v, NEW p, NEW R, NEW X, Good(v, p, R, X), NEW k \in Keys,
         NEW u, u = Made(v, k)
  PROVE  /\ Good(u, p, R, X \cup {k}) /\ Pushes(u, v) /\ (u.db[k] = Text => v.db[k] = Text) /\ u.db[k] # NoKey
         /\ Wrote(u, v) /\ Makes(u, v, k)
<1>1. CASE v.db[k] # NoKey
  <2>1. u = v /\ X \subseteq X \cup {k}
    BY <1>1 DEF Made
  <2>2. Good(u, p, R, X \cup {k})
    BY <2>1, GoodMore
  <2>3. Alters(u, v, {"db"}, {}, {})
    BY <2>1, AltersNot DEF Good
  <2>4. QED
    BY <1>1, <2>1, <2>2, <2>3, DbPushes DEF Wrote, Makes
<1>2. CASE v.db[k] = NoKey
  <2>1. /\ Good(u, p, R, X \cup {k}) /\ Alters(u, v, {"db", "ready", "isready"}, {}, {}) /\ Grows(u, v)
        /\ u.db = [v.db EXCEPT ![k] = <<>>]
    <3>1. PICK e : e = <<>>
      OBVIOUS
    <3>2. u = DbAdd(v, k, e)
      BY <1>2, <3>1 DEF Made
    <3>3. /\ Good(u, p, R, X \cup {k}) /\ Alters(u, v, {"db", "ready", "isready"}, {}, {}) /\ Grows(u, v)
          /\ SetsKey(u, v, k, e)
      BY <3>2, DbAddIs
    <3>4. QED
      BY <3>1, <3>3 DEF SetsKey
  <2>2. u.db[k] # Text /\ u.db[k] # NoKey
    BY <2>1, ValuesAssumption DEF Good, Serves
  <2>3. Alters(u, v, {"db", "ready", "isready", "copy", "toclose"}, {"out"}, {"dirty_cas", "close_asap"})
    BY <2>1 DEF Alters
  <2>4. Wrote(u, v)
    BY <2>1, AltersWrote
  <2>5. QED
    BY <1>2, <2>1, <2>2, <2>3, <2>4 DEF Pushes, Makes
<1>3. QED
  BY <1>1, <1>2

\* Nobody comes.
Falls(u, v) == \A x \in Clients : u.c[x].up => v.c[x].up
BlockedSet(v) == {x \in Clients : "blocked" \in v.c[x].flags}
LEMMA PushesKeeps ==
  ASSUME NEW u, NEW v, Pushes(u, v)
  PROVE  u.waiting = v.waiting /\ BlockedSet(u) = BlockedSet(v) /\ Falls(u, v)
<1>1. u.waiting = v.waiting
  BY Zenon DEF Pushes, Alters, Fields
<1>2. \A x \in Clients : "blocked" \in u.c[x].flags <=> "blocked" \in v.c[x].flags
  BY Zenon DEF Pushes, Alters
<1>3. \A x \in Clients : u.c[x].up = v.c[x].up
  BY Zenon DEF Pushes, Alters, CFields
<1>4. QED
  BY <1>1, <1>2, <1>3 DEF BlockedSet, Falls

\* rpoplpushHandlePush: the target is signalled, and ready if it was not there.
LEMMA RpopLpushHandlePushGood ==
  ASSUME NEW v, NEW p, NEW R, NEW X, Good(v, p, R, X), NEW c \in Clients, NEW k \in Keys, NEW val,
         v.db[k] # Text \/ v.waiting[k] = <<>> \/ k \in ToSet(v.ready) \cup R, NEW u, u = RpopLpushHandlePush(v, c, k, val)
  PROVE  /\ Good(u, p, R, X) /\ Pushes(u, v) /\ AllDirty(u, k)
         /\ Wrote(u, v) /\ Puts(u, v, k, val)
<1>1. PICK w : w = Made(v, k)
  OBVIOUS
<1>2. PICK t : t = TouchWatchedKey(w, k)
  OBVIOUS
<1>3. PICK z : z = [t EXCEPT !.db = Pushed(@, k, val, TRUE)]
  OBVIOUS
<1>4. u = ReplyWith(z, c, "moved", <<>>)
  BY <1>1, <1>2, <1>3, Zenon DEF RpopLpushHandlePush, Made
<1>5. /\ Good(w, p, R, X \cup {k}) /\ Pushes(w, v) /\ (w.db[k] = Text => v.db[k] = Text) /\ w.db[k] # NoKey
      /\ Wrote(w, v) /\ Makes(w, v, k)
  BY <1>1, MadeGood, Zenon
<1>6. Good(t, p, R, (X \cup {k}) \ {k}) /\ Touched(t, w) /\ AllDirty(t, k)
  BY <1>2, <1>5, TouchGood
<1>7. Good(t, p, R, X)
  <2>1. (X \cup {k}) \ {k} \subseteq X
    OBVIOUS
  <2>2. QED
    BY <1>6, <2>1, GoodMore
<1>8. Pushes(t, w) /\ t.db = w.db
  BY <1>6, TouchedPushes, Zenon DEF Touched, Alters, Fields
<1>9. Good(z, p, R, X) /\ Alters(z, t, {"db"}, {}, {}) /\ z.db = Pushed(t.db, k, val, TRUE)
  <2>1. PICK d : d = Pushed(t.db, k, val, TRUE)
    OBVIOUS
  <2>2. DOMAIN t.db = Keys
    BY <1>7 DEF Good, Serves
  <2>3. DOMAIN d = Keys /\ \A j \in Keys : j # k => d[j] = t.db[j]
    BY <2>1, <2>2, Zenon DEF Pushed
  <2>4. Alters(z, t, {"db"}, {}, {}) /\ z.db = d
    BY <1>3, <1>7, <2>1, SetDbIs DEF Good
  <2>5. IsList(d[k]) /\ t.waiting[k] # <<>> => k \in ToSet(t.ready) \cup R
    <3>1. CASE v.waiting[k] = <<>> \/ k \in ToSet(v.ready) \cup R
      <4>1. w.waiting = v.waiting
        BY <1>5, PushesKeeps
      <4>2. t.waiting = w.waiting /\ t.ready = w.ready
        BY <1>6, Zenon DEF Touched, Alters, Fields
      <4>3. ToSet(v.ready) \subseteq ToSet(w.ready)
        BY <1>5 DEF Pushes, Grows
      <4>4. QED
        BY <3>1, <4>1, <4>2, <4>3
    <3>2. CASE IsList(t.db[k])
      BY <1>7, <3>2 DEF Good, Serves
    <3>3. CASE t.db[k] = NoKey
      BY <1>5, <1>8, <3>3
    <3>4. CASE t.db[k] = Text /\ v.db[k] # Text
      BY <1>5, <1>8, <3>4
    <3>5. QED
      BY <3>1, <3>2, <3>3, <3>4 DEF IsList
  <2>6. DOMAIN z.db = Keys /\ (\A j \in Keys : j # k => z.db[j] = t.db[j])
        /\ (IsList(z.db[k]) /\ t.waiting[k] # <<>> => k \in ToSet(t.ready) \cup R)
    BY <2>3, <2>4, <2>5
  <2>7. QED
    BY <1>6, <1>7, <2>1, <2>4, <2>6, SetDbGood
<1>10. Good(u, p, R, X) /\ Replied(u, z)
  BY <1>4, <1>9, ReplyWithGood
<1>11. Pushes(u, v)
  <2>1. Pushes(z, t) /\ Pushes(u, z)
    BY <1>9, <1>10, DbPushes, RepliedPushes
  <2>2. Pushes(t, v)
    BY <1>5, <1>8, PushesTrans
  <2>3. Pushes(z, v)
    BY <2>1, <2>2, PushesTrans
  <2>4. QED
    BY <2>1, <2>3, PushesTrans
<1>12. AllDirty(u, k)
  <2>1. \A x \in Clients : z.c[x].watched = t.c[x].watched /\ (Dirty(z, x) <=> Dirty(t, x))
    BY <1>9, Zenon DEF Alters, CFields, Dirty
  <2>2. \A x \in Clients : u.c[x].watched = z.c[x].watched /\ (Dirty(u, x) <=> Dirty(z, x))
    BY <1>10, Zenon DEF Replied, Alters, CFields, Dirty
  <2>3. QED
    BY <1>6, <2>1, <2>2 DEF AllDirty
<1>13. Wrote(u, v)
  <2>1. Wrote(t, w)
    BY <1>6, AltersWrote DEF Touched
  <2>2. Wrote(z, t)
    BY <1>9, AltersWrote
  <2>3. Wrote(u, z)
    BY <1>10, AltersWrote DEF Replied
  <2>4. QED
    BY <1>5, <2>1, <2>2, <2>3, WroteTrans
<1>14. Puts(u, v, k, val)
  <2>1. u.db = z.db
    BY <1>10, AltersSame DEF Replied, Same
  <2>2. PICK h : h = TRUE
    OBVIOUS
  <2>3. DOMAIN v.db = Keys
    BY DEF Good, Serves
  <2>4. Pushed(w.db, k, val, h) = Pushed(v.db, k, val, h)
    BY <1>5, <2>3, MadePushed DEF Makes
  <2>5. QED
    BY <1>8, <1>9, <2>1, <2>2, <2>4 DEF Puts
<1>15. QED
  BY <1>10, <1>11, <1>12, <1>13, <1>14

\* A client is served, and waits no longer.
LEMMA ServeClientGood ==
  ASSUME NEW v, NEW p, NEW R, NEW X, Good(v, p, R, X), NEW k \in Keys, k \in R, NEW c \in Clients,
         c \in ToSet(v.waiting[k]), NEW u, u = ServeClient(v, k, c)
  PROVE  /\ Good(u, p, R, X) /\ Grows(u, v) /\ \A j \in Keys : ToSet(u.waiting[j]) = ToSet(v.waiting[j]) \ {c}
         /\ c \in BlockedSet(v) /\ BlockedSet(u) = BlockedSet(v) \ {c} /\ Falls(u, v)
         /\ Fed(v, k) /\ v.db[k] # <<>> => Fed(u, k)
<1>1. /\ "blocked" \in v.c[c].flags /\ v.c[c].up /\ v.c[c].target \in Keys \cup {None}
      /\ v.c[c].target # None => v.c[c].head = FALSE
  <2>1. k \in v.c[c].keys
    BY DEF Good, Waits
  <2>2. "blocked" \in v.c[c].flags /\ v.c[c].target \in Keys \cup {None}
    BY <2>1 DEF Good, Waits
  <2>3. v.c[c].target # None => v.c[c].head = FALSE
    BY DEF Good, Waits
  <2>4. QED
    BY <2>2, <2>3 DEF Good, NoFlags
<1>2. PICK head, target, val : head = v.c[c].head /\ target = v.c[c].target /\ val = First(v.db, k, head)
  OBVIOUS
<1>3. PICK d : d = Rest(v.db, k, head)
  OBVIOUS
<1>4. PICK w : w = [v EXCEPT !.db = d]
  OBVIOUS
<1>5. PICK t : t = UnblockClient(w, c)
  OBVIOUS
<1>6. u = IF target = None
          THEN ReplyWith(Propagate(t, [op |-> "pop", k |-> k, head |-> head]), c, "pop", <<val>>)
          ELSE IF v.db[target] = Text
          THEN Reply([t EXCEPT !.db = Pushed(@, k, val, head)], c, "wrongtype")
          ELSE Propagate(RpopLpushHandlePush(Propagate(t, [op |-> "pop", k |-> k, head |-> FALSE]), c, target, val),
                         [op |-> "push", k |-> target, v |-> val, head |-> TRUE])
  BY <1>2, <1>3, <1>4, <1>5 DEF ServeClient
<1>7. DOMAIN d = Keys /\ \A j \in Keys : j # k => d[j] = v.db[j]
  BY <1>3, RestIs DEF Good, Serves
<1>8. Good(w, p, R, X) /\ Alters(w, v, {"db"}, {}, {}) /\ w.db = d
  <2>1. Alters(w, v, {"db"}, {}, {}) /\ w.db = d
    BY <1>4, SetDbIs DEF Good
  <2>2. DOMAIN w.db = Keys /\ (\A j \in Keys : j # k => w.db[j] = v.db[j])
    BY <1>7, <2>1
  <2>3. QED
    BY <2>1, <2>2, SetDbGood
<1>9. w.c[c].up /\ w.waiting = v.waiting /\ BlockedSet(w) = BlockedSet(v) /\ Grows(w, v) /\ Falls(w, v)
  <2>1. w.c[c].up = v.c[c].up
    BY <1>8, Zenon DEF Alters, CFields
  <2>2. QED
    BY <1>1, <1>8, <2>1, DbPushes, PushesKeeps DEF Pushes
<1>10. Good(t, p, R, X) /\ WaitsNot(t, w, c)
  BY <1>5, <1>8, <1>9, UnblockClientGood
<1>11. t.db = d /\ Grows(t, w)
  <2>1. t.db = w.db /\ t.ready = w.ready /\ t.isready = w.isready
    BY <1>10, Zenon DEF WaitsNot, Alters, Fields
  <2>2. QED
    BY <1>8, <2>1 DEF Grows
<1>12. BlockedSet(t) = BlockedSet(w) \ {c}
  <2>1. \A x \in Clients : "blocked" \in t.c[x].flags <=> x # c /\ "blocked" \in w.c[x].flags
    BY <1>10 DEF WaitsNot
  <2>2. QED
    BY <2>1 DEF BlockedSet
<1>19. Wrote(t, v) /\ t.db = Rest(v.db, k, head)
  <2>1. Wrote(w, v)
    BY <1>8, AltersWrote
  <2>2. Wrote(t, w)
    BY <1>10, AltersWrote DEF WaitsNot
  <2>3. QED
    BY <1>3, <1>11, <2>1, <2>2, WroteTrans
<1>13. Good(u, p, R, X) /\ Pushes(u, t) /\ (Fed(v, k) /\ v.db[k] # <<>> => Fed(u, k))
  <2>1. CASE target = None
    <3>1. PICK z : z = Propagate(t, [op |-> "pop", k |-> k, head |-> head])
      OBVIOUS
    <3>2. Good(z, p, R, X) /\ Pushes(z, t)
      BY <1>10, <3>1, PropagateGood, CopiedPushes
    <3>3. u = ReplyWith(z, c, "pop", <<val>>)
      BY <1>6, <2>1, <3>1
    <3>4. Good(u, p, R, X) /\ Pushes(u, z)
      BY <3>2, <3>3, ReplyWithGood, RepliedPushes
    <3>5. ASSUME Fed(v, k), v.db[k] # <<>> PROVE Fed(u, k)
      <4>1. Copied(z, t, [op |-> "pop", k |-> k, head |-> head])
        BY <1>10, <3>1, PropagateCopied DEF Good
      <4>2. Fed(z, k)
        BY <1>19, <3>5, <4>1, FedPop
      <4>3. Same(u, z)
        BY <3>2, <3>3, ReplyWithGood, AltersSame DEF Replied
      <4>4. QED
        BY <4>2, <4>3, SameData DEF Fed, Same
    <3>6. QED
      BY <3>2, <3>4, <3>5, PushesTrans
  <2>2. CASE target # None /\ v.db[target] = Text
    <3>1. PICK e : e = Pushed(t.db, k, val, head)
      OBVIOUS
    <3>2. PICK z : z = [t EXCEPT !.db = e]
      OBVIOUS
    <3>3. DOMAIN e = Keys /\ \A j \in Keys : j # k => e[j] = t.db[j]
      <4>1. DOMAIN t.db = Keys
        BY <1>7, <1>11
      <4>2. QED
        BY <3>1, <4>1, Zenon DEF Pushed
    <3>4. Good(z, p, R, X) /\ Alters(z, t, {"db"}, {}, {})
      <4>1. Alters(z, t, {"db"}, {}, {}) /\ z.db = e
        BY <1>10, <3>2, SetDbIs DEF Good
      <4>2. DOMAIN z.db = Keys /\ (\A j \in Keys : j # k => z.db[j] = t.db[j])
        BY <3>3, <4>1
      <4>3. QED
        BY <1>10, <4>1, <4>2, SetDbGood
    <3>5. u = Reply(z, c, "wrongtype")
      BY <1>6, <2>2, <3>1, <3>2
    <3>6. Good(u, p, R, X) /\ Pushes(u, z)
      BY <3>4, <3>5, ReplyGood, RepliedPushes
    <3>7. ASSUME Fed(v, k), v.db[k] # <<>> PROVE Fed(u, k)
      <4>1. z.db = Pushed(t.db, k, First(v.db, k, head), head)
        BY <1>2, <1>10, <3>1, <3>2, SetDbIs DEF Good
      <4>2. Wrote(z, t)
        BY <3>4, AltersWrote
      <4>3. Fed(z, k)
        BY <1>19, <3>7, <4>1, <4>2, FedUndone
      <4>4. Same(u, z)
        BY <3>4, <3>5, ReplyGood, AltersSame DEF Replied
      <4>5. QED
        BY <4>3, <4>4, SameData DEF Fed, Same
    <3>8. QED
      BY <3>4, <3>6, <3>7, DbPushes, PushesTrans
  <2>3. CASE target # None /\ v.db[target] # Text
    <3>1. PICK z : z = Propagate(t, [op |-> "pop", k |-> k, head |-> FALSE])
      OBVIOUS
    <3>2. PICK y : y = RpopLpushHandlePush(z, c, target, val)
      OBVIOUS
    <3>3. u = Propagate(y, [op |-> "push", k |-> target, v |-> val, head |-> TRUE])
      BY <1>6, <2>3, <3>1, <3>2
    <3>4. Good(z, p, R, X) /\ Alters(z, t, {"copy"}, {}, {})
      BY <1>10, <3>1, PropagateGood
    <3>5. z.db = t.db
      BY <3>4, Zenon DEF Alters, Fields
    <3>6. target \in Keys /\ (z.db[target] # Text \/ target \in ToSet(z.ready) \cup R)
      BY <1>1, <1>2, <1>7, <1>11, <2>3, <3>5
    <3>7. Good(y, p, R, X) /\ Pushes(y, z) /\ Wrote(y, z) /\ Puts(y, z, target, val)
      BY <3>2, <3>4, <3>6, RpopLpushHandlePushGood
    <3>8. Good(u, p, R, X) /\ Pushes(u, y)
      BY <3>3, <3>7, PropagateGood, CopiedPushes
    <3>9. Pushes(y, t)
      BY <3>4, <3>7, CopiedPushes, PushesTrans
    <3>10. ASSUME Fed(v, k), v.db[k] # <<>> PROVE Fed(u, k)
      <4>1. Copied(z, t, [op |-> "pop", k |-> k, head |-> head])
        <5>1. head = FALSE
          BY <1>1, <1>2, <2>3
        <5>2. QED
          BY <1>10, <3>1, <5>1, PropagateCopied DEF Good
      <4>2. Fed(z, k)
        BY <1>19, <3>10, <4>1, FedPop
      <4>3. val \in Elements
        BY <1>2, <3>10, RestValue DEF Fed, Data
      <4>4. Copied(u, y, [op |-> "push", k |-> target, v |-> val, head |-> TRUE])
        BY <3>3, <3>7, PropagateCopied DEF Good
      <4>5. QED
        BY <3>6, <3>7, <4>2, <4>3, <4>4, FedPush DEF Puts
    <3>11. QED
      BY <3>8, <3>9, <3>10, PushesTrans
  <2>4. QED
    BY <2>1, <2>2, <2>3
<1>14. u.waiting = t.waiting /\ BlockedSet(u) = BlockedSet(t) /\ Falls(u, t)
  BY <1>13, PushesKeeps
<1>15. Grows(u, v)
  <2>1. Grows(u, t)
    BY <1>13 DEF Pushes
  <2>2. Grows(t, v)
    BY <1>9, <1>11, GrowsTrans
  <2>3. QED
    BY <2>1, <2>2, GrowsTrans
<1>16. \A j \in Keys : ToSet(u.waiting[j]) = ToSet(v.waiting[j]) \ {c}
  BY <1>9, <1>10, <1>14 DEF WaitsNot
<1>17. c \in BlockedSet(v)
  BY <1>1 DEF BlockedSet
<1>18. Falls(u, v)
  <2>1. \A x \in Clients : t.c[x].up = w.c[x].up
    BY <1>10, Zenon DEF WaitsNot, Alters, CFields
  <2>2. QED
    BY <1>9, <1>14, <2>1 DEF Falls
<1>20. QED
  BY <1>9, <1>12, <1>13, <1>14, <1>15, <1>16, <1>17, <1>18

\* Those who wait for a key, one after the other.
Served(v, k) == ForEach(v, v.waiting[k], LAMBDA u, c : IF u.db[k] = <<>> THEN u ELSE ServeClient(u, k, c))
LEMMA ServeKeyIs ==
  ASSUME NEW v, NEW k, NEW t, t = [v EXCEPT !.isready = @ \ {k}]
  PROVE  ServeKey(v, k) = IF IsList(t.db[k]) THEN DeleteIfEmpty(Served(t, k), k) ELSE t
<1>1. ServeKey(v, k) = IF IsList([v EXCEPT !.isready = @ \ {k}].db[k])
                      THEN DeleteIfEmpty(Served([v EXCEPT !.isready = @ \ {k}], k), k) ELSE [v EXCEPT !.isready = @ \ {k}]
  BY DEF ServeKey, Served
<1>2. QED
  BY <1>1

\* The loop over those who wait for a key ...
LEMMA ServedSteps ==
  ASSUME NEW v, NEW k, NEW q, q = v.waiting[k], Len(q) \in Nat
  PROVE  \E f : /\ f[0] = v /\ Served(v, k) = f[Len(q)]
                /\ \A i \in 1 .. Len(q) : f[i] = Step("serve", k, None, f[i - 1], q[i])
<1>1. \A u, x : Step("serve", k, None, u, x) = ServeOne(u, k, x)
  BY DEF Step
<1>2. PICK g : Runs(g, "serve", k, None, v, Len(q), q)
  BY StepsExist
<1>3. g = [i \in 0 .. Len(q) |-> IF i = 0 THEN v ELSE ServeOne(g[i - 1], k, q[i])]
  BY <1>1, <1>2, Zenon DEF Runs
<1>. DEFINE h == CHOOSE h : h = [i \in 0 .. Len(q) |-> IF i = 0 THEN v ELSE ServeOne(h[i - 1], k, q[i])]
<1>4. h = [i \in 0 .. Len(q) |-> IF i = 0 THEN v ELSE ServeOne(h[i - 1], k, q[i])]
  BY <1>3, Zenon
<1>5. Served(v, k) = h[Len(q)]
  BY Zenon DEF Served, ForEach, ServeOne
<1>. HIDE DEF h
<1>6. h[0] = v /\ \A i \in 1 .. Len(q) : h[i] = ServeOne(h[i - 1], k, q[i])
  <2>1. 0 \in 0 .. Len(q) /\ \A i \in 1 .. Len(q) : i \in 0 .. Len(q) /\ i # 0
    BY Upto
  <2>2. QED
    BY <1>4, <2>1, Zenon
<1>7. \A i \in 1 .. Len(q) : h[i] = Step("serve", k, None, h[i - 1], q[i])
  BY <1>1, <1>6
<1>8. QED
  BY <1>5, <1>6, <1>7

\* No more clients are blocked than before; or fewer.
Fewer(u, v) == /\ BlockedSet(u) \subseteq BlockedSet(v) /\ Falls(u, v)
               /\ u.ready = v.ready \/ BlockedSet(u) # BlockedSet(v)
LEMMA FewerTrans ==
  ASSUME NEW u, NEW v, NEW w, Fewer(u, v), Fewer(w, u) PROVE Fewer(w, v)
BY DEF Fewer, Falls
Feeds(u, v, k) == Fed(v, k) => Fed(u, k)
LEMMA FeedsTrans == ASSUME NEW u, NEW v, NEW w, NEW k, Feeds(u, v, k), Feeds(w, u, k) PROVE Feeds(w, v, k)
BY DEF Feeds
\* ... ends with nobody waiting, or nothing left.
LEMMA ServedGood ==
  ASSUME NEW v, NEW p, NEW R, NEW X, Good(v, p, R, X), NEW k \in Keys, k \in R, NEW u, u = Served(v, k)
  PROVE  /\ Good(u, p, R, X) /\ Grows(u, v) /\ Fewer(u, v) /\ (u.db[k] = <<>> \/ u.waiting[k] = <<>>)
         /\ Feeds(u, v, k)
<1>1. PICK q \in Seq(Clients) : q = v.waiting[k] /\ Once(q)
  BY DEF Good, Waits
<1>2. PICK n \in Nat : n = Len(q) /\ DOMAIN q = 1 .. n /\ \A i \in 1 .. n : q[i] \in Clients
  BY LenProperties
<1>3. PICK f : /\ f[0] = v /\ u = f[n] /\ \A i \in 1 .. n : f[i] = Step("serve", k, None, f[i - 1], q[i])
  BY <1>1, <1>2, ServedSteps
<1>. DEFINE Left(w, i) == /\ ToSet(w.waiting[k]) \subseteq ToSet(q)
                          /\ \A j \in 1 .. n : q[j] \in ToSet(w.waiting[k]) <=> i < j
            T == {i \in 0 .. n : /\ Good(f[i], p, R, X) /\ Grows(f[i], v) /\ Fewer(f[i], v) /\ Feeds(f[i], v, k)
                                 /\ f[i].db[k] = <<>> \/ Left(f[i], i)}
<1>4. 0 \in T
  <2>1. Left(v, 0)
    BY <1>1, <1>2 DEF ToSet
  <2>2. Grows(v, v) /\ Fewer(v, v) /\ Feeds(v, v, k)
    BY DEF Grows, Fewer, Falls, Feeds
  <2>3. QED
    BY <1>3, <2>1, <2>2
<1>5. \A i \in T : i < n => i + 1 \in T
  <2>1. SUFFICES ASSUME NEW i \in T, i < n PROVE i + 1 \in T
    OBVIOUS
  <2>2. PICK j \in 0 .. n : j = i /\ j + 1 \in 1 .. n /\ (j + 1) - 1 = j
    BY <2>1
  <2>3. PICK w : w = f[j]
    OBVIOUS
  <2>4. Good(w, p, R, X) /\ Grows(w, v) /\ Fewer(w, v) /\ Feeds(w, v, k) /\ (w.db[k] = <<>> \/ Left(w, j))
    BY <2>2, <2>3
  <2>5. PICK c \in Clients : c = q[j + 1]
    BY <1>2, <2>2
  <2>6. PICK z : z = ServeOne(w, k, c)
    OBVIOUS
  <2>7. f[j + 1] = z
    <3>1. f[j + 1] = Step("serve", k, None, w, c)
      BY <1>3, <2>2, <2>3, <2>5
    <3>2. QED
      BY <2>6, <3>1 DEF Step
  <2>8. CASE w.db[k] = <<>>
    <3>1. z = w
      BY <2>6, <2>8 DEF ServeOne
    <3>2. QED
      BY <2>2, <2>4, <2>7, <2>8, <3>1
  <2>9. CASE w.db[k] # <<>>
    <3>1. z = ServeClient(w, k, c)
      BY <2>6, <2>9 DEF ServeOne
    <3>2. Left(w, j) /\ j < j + 1
      BY <2>4, <2>9
    <3>3. c \in ToSet(w.waiting[k])
      BY <2>2, <2>5, <3>2
    <3>4. /\ Good(z, p, R, X) /\ Grows(z, w) /\ ToSet(z.waiting[k]) = ToSet(w.waiting[k]) \ {c}
          /\ c \in BlockedSet(w) /\ BlockedSet(z) = BlockedSet(w) \ {c} /\ Falls(z, w)
          /\ Fed(w, k) /\ w.db[k] # <<>> => Fed(z, k)
      BY <2>4, <3>1, <3>3, ServeClientGood
    <3>9. Feeds(z, v, k)
      BY <2>4, <2>9, <3>4 DEF Feeds
    <3>5. Grows(z, v)
      BY <2>4, <3>4, GrowsTrans
    <3>6. Fewer(z, v)
      BY <2>4, <3>4 DEF Fewer, Falls
    <3>7. Left(z, j + 1)
      <4>1. ASSUME NEW h \in 1 .. n PROVE q[h] \in ToSet(z.waiting[k]) <=> j + 1 < h
        <5>1. q[h] = c <=> h = j + 1
          BY <1>1, <1>2, <2>2, <2>5 DEF Once
        <5>2. q[h] \in ToSet(w.waiting[k]) <=> j < h
          BY <3>2
        <5>3. j + 1 < h <=> j < h /\ h # j + 1
          OBVIOUS
        <5>4. QED
          BY <3>4, <5>1, <5>2, <5>3
      <4>2. QED
        BY <3>2, <3>4, <4>1
    <3>8. QED
      BY <2>2, <2>7, <3>4, <3>5, <3>6, <3>7, <3>9
  <2>10. QED
    BY <2>8, <2>9
<1>6. T \in SUBSET (0 .. n)
  OBVIOUS
<1>. HIDE DEF T
<1>7. \A i \in 0 .. n : i \in T
  BY <1>4, <1>5, <1>6, IntervalInduct
<1>8. n \in T
  BY <1>7
<1>9. Good(u, p, R, X) /\ Grows(u, v) /\ Fewer(u, v) /\ Feeds(u, v, k) /\ (u.db[k] = <<>> \/ Left(u, n))
  BY <1>3, <1>8 DEF T
<1>10. ASSUME Left(u, n) PROVE u.waiting[k] = <<>>
  <2>1. \A j \in 1 .. n : q[j] \notin ToSet(u.waiting[k])
    BY <1>10
  <2>5. \A x \in ToSet(q) : \E j \in 1 .. n : q[j] = x
    BY <1>2 DEF ToSet
  <2>2. ToSet(u.waiting[k]) = {}
    BY <1>10, <2>1, <2>5
  <2>3. PICK r \in Seq(Clients) : r = u.waiting[k]
    BY <1>9 DEF Good, Waits
  <2>4. ToSet(r) = {}
    BY <2>2, <2>3
  <2>6. r = <<>>
    BY <2>4, SetOfSeq, Zenon
  <2>7. QED
    BY <2>3, <2>6
<1>11. QED
  BY <1>9, <1>10

\* A key that needs not be served any more.
LEMMA NarrowGood ==
  ASSUME NEW v, NEW p, NEW R, NEW X, Good(v, p, R, X), NEW k \in Keys, ~(IsList(v.db[k]) /\ v.waiting[k] # <<>>),
         NEW Q, Q \subseteq R, R \ {k} \subseteq Q, v.isready \subseteq ToSet(v.ready) \cup Q
  PROVE  Good(v, p, Q, X)
<1>1. Serves(v, Q)
  BY DEF Good, Serves
<1>2. Sees(v, Q, X)
  BY DEF Good, Sees
<1>3. QED
  BY <1>1, <1>2 DEF Good

\* One ready key is served: it needs not be served any more.
LEMMA ServeKeyGood ==
  ASSUME NEW v, NEW p, NEW R, NEW X, Good(v, p, R, X), NEW k \in Keys, k \in R, NEW u, u = ServeKey(v, k),
         NEW Q, Q \subseteq R, R \ {k} \subseteq Q
  PROVE  Good(u, p, Q, X) /\ Fewer(u, v) /\ Carries(u, v)
<1>1. PICK t : t = [v EXCEPT !.isready = @ \ {k}]
  OBVIOUS
<1>2. Alters(t, v, {"isready"}, {}, {}) /\ t.isready = v.isready \ {k}
  BY <1>1, Zenon DEF Alters, Good, Shape, Fields
<1>3. /\ t.db = v.db /\ t.ready = v.ready /\ t.waiting = v.waiting
      /\ \A x \in Clients : t.c[x].flags = v.c[x].flags /\ t.c[x].up = v.c[x].up
  <2>1. t.db = v.db /\ t.ready = v.ready /\ t.waiting = v.waiting
    BY <1>2, Zenon DEF Alters, Fields
  <2>2. t.c = v.c
    BY <1>1, Zenon DEF Good, Shape, Fields
  <2>3. QED
    BY <2>1, <2>2
<1>4. Good(t, p, R, X)
  <2>1. Serves(t, R)
    BY <1>2, <1>3 DEF Good, Serves
  <2>2. QED
    BY <1>2, <2>1, Keeps DEF Good
<1>5. t.isready \subseteq ToSet(t.ready) \cup Q
  BY <1>2, <1>3 DEF Good, Serves
<1>6. Fewer(t, v)
  BY <1>3 DEF Fewer, BlockedSet, Falls
<1>10. Same(t, v)
  BY <1>2, AltersSame
<1>7. CASE ~IsList(t.db[k])
  <2>1. u = t
    BY <1>1, <1>7, ServeKeyIs
  <2>2. QED
    BY <1>4, <1>5, <1>6, <1>7, <1>10, <2>1, NarrowGood, SameCarries
<1>8. CASE IsList(t.db[k])
  <2>1. PICK w : w = Served(t, k)
    OBVIOUS
  <2>2. u = DeleteIfEmpty(w, k)
    BY <1>1, <1>8, <2>1, ServeKeyIs
  <2>3. /\ Good(w, p, R, X) /\ Grows(w, t) /\ Fewer(w, t) /\ (w.db[k] = <<>> \/ w.waiting[k] = <<>>)
        /\ Feeds(w, t, k)
    BY <1>4, <2>1, ServedGood
  <2>4. w.isready \subseteq ToSet(w.ready) \cup Q
    BY <1>5, <2>3 DEF Grows
  <2>5. Fewer(w, v)
    BY <1>6, <2>3, FewerTrans
  <2>9. ASSUME Data(v, {}) PROVE Fed(w, k)
    <3>1. Data(t, {})
      BY <1>10, <2>9, SameData
    <3>2. Data(t, {k})
      BY <3>1 DEF Data
    <3>3. QED
      BY <1>8, <2>3, <3>2 DEF Fed, Feeds
  <2>6. CASE w.db[k] # <<>>
    <3>1. u = w
      BY <2>2, <2>6 DEF DeleteIfEmpty
    <3>2. Carries(u, v)
      BY <2>6, <2>9, <3>1 DEF Carries, Fed, Data
    <3>3. QED
      BY <2>3, <2>4, <2>5, <2>6, <3>1, <3>2, NarrowGood
  <2>7. CASE w.db[k] = <<>>
    <3>1. u = DbDelete(w, k)
      BY <2>2, <2>7 DEF DeleteIfEmpty
    <3>2. Good(u, p, R, X) /\ Alters(u, w, {"db", "gone"}, {}, {}) /\ u.db[k] = NoKey
      <4>1. k \in ToSet(w.ready) \cup R \cup X
        OBVIOUS
      <4>2. Good(w, p, R, X)
        BY <2>3
      <4>3. AllDirty(w, k) \/ k \in ToSet(w.ready) \cup R \cup X => Good(u, p, R, X)
        BY <3>1, <4>2, DbDeleteGood
      <4>4. Good(u, p, R, X)
        BY <4>1, <4>3
      <4>5. Alters(u, w, {"db", "gone"}, {}, {})
        BY <3>1, <4>2, DbDeleteIs
      <4>6. u.db[k] = NoKey
        BY <3>1, <4>2, DbDeleteIs
      <4>7. QED
        BY <4>4, <4>5, <4>6
    <3>3. u.ready = w.ready /\ u.isready = w.isready
      BY <3>2, Zenon DEF Alters, Fields
    <3>4. ~IsList(u.db[k])
      BY <3>2 DEF IsList
    <3>5. Good(u, p, Q, X)
      BY <2>4, <3>2, <3>3, <3>4, NarrowGood
    <3>6. /\ \A x \in Clients : "blocked" \in u.c[x].flags <=> "blocked" \in w.c[x].flags
          /\ \A x \in Clients : u.c[x].up = w.c[x].up
      BY <3>2, Zenon DEF Alters, CFields
    <3>7. Fewer(u, w)
      BY <3>3, <3>6 DEF Fewer, BlockedSet, Falls
    <3>8. u.db = [w.db EXCEPT ![k] = NoKey] /\ Wrote(u, w)
      <4>1. u.db = [w.db EXCEPT ![k] = NoKey]
        BY <2>3, <3>1, Zenon DEF DbDelete, Good, Shape, Fields
      <4>2. QED
        BY <3>2, <4>1, AltersWrote
    <3>9. Carries(u, v)
      <4>1. SUFFICES ASSUME Data(v, {}) PROVE Data(u, {})
        BY DEF Carries
      <4>2. Fed(w, k)
        BY <2>9, <4>1
      <4>3. QED
        BY <2>7, <3>8, <4>2, FedTrimmed
    <3>10. QED
      BY <2>5, <3>5, <3>7, <3>9, FewerTrans
  <2>8. QED
    BY <2>6, <2>7
<1>9. QED
  BY <1>7, <1>8

\* The loop over the keys that are ready ...
LEMMA ServeKeysSteps ==
  ASSUME NEW v, NEW w, v = [w EXCEPT !.ready = <<>>], w.ready # <<>>, NEW q, q = w.ready, Len(q) \in Nat
  PROVE  \E f : /\ f[0] = v /\ ServeKeys(w) = f[Len(q)]
                /\ \A i \in 1 .. Len(q) : f[i] = Step("servekey", None, None, f[i - 1], q[i])
<1>1. \A u, x : Step("servekey", None, None, u, x) = ServeKey(u, x)
  BY DEF Step
<1>2. PICK g : Runs(g, "servekey", None, None, v, Len(q), q)
  BY StepsExist
<1>3. g = [i \in 0 .. Len(q) |-> IF i = 0 THEN v ELSE ServeKey(g[i - 1], q[i])]
  BY <1>1, <1>2, Zenon DEF Runs
<1>. DEFINE h == CHOOSE h : h = [i \in 0 .. Len(q) |-> IF i = 0 THEN v ELSE ServeKey(h[i - 1], q[i])]
<1>4. h = [i \in 0 .. Len(q) |-> IF i = 0 THEN v ELSE ServeKey(h[i - 1], q[i])]
  BY <1>3, Zenon
<1>5. ServeKeys(w) = h[Len(q)]
  BY Zenon DEF ServeKeys, ForEach
<1>. HIDE DEF h
<1>6. h[0] = v /\ \A i \in 1 .. Len(q) : h[i] = ServeKey(h[i - 1], q[i])
  <2>1. 0 \in 0 .. Len(q) /\ \A i \in 1 .. Len(q) : i \in 0 .. Len(q) /\ i # 0
    BY Upto
  <2>2. QED
    BY <1>4, <2>1, Zenon
<1>7. \A i \in 1 .. Len(q) : h[i] = Step("servekey", None, None, h[i - 1], q[i])
  BY <1>1, <1>6
<1>8. QED
  BY <1>5, <1>6, <1>7

\* ... leaves those that serving has made ready.
LEMMA ServeKeysGood ==
  ASSUME NEW v, NEW p, NEW X, Good(v, p, {}, X), NEW u, u = ServeKeys(v)
  PROVE  /\ Good(u, p, {}, X) /\ BlockedSet(u) \subseteq BlockedSet(v) /\ Falls(u, v)
         /\ (u.ready = <<>> \/ BlockedSet(u) # BlockedSet(v)) /\ Carries(u, v)
<1>1. CASE v.ready = <<>>
  BY <1>1 DEF ServeKeys, Falls, Carries
<1>2. CASE v.ready # <<>>
  <2>1. PICK t : t = [v EXCEPT !.ready = <<>>]
    OBVIOUS
  <2>2. PICK q \in Seq(Keys) : q = v.ready
    BY DEF Good, Serves
  <2>3. PICK n \in Nat : n = Len(q) /\ DOMAIN q = 1 .. n /\ \A i \in 1 .. n : q[i] \in Keys
    BY LenProperties
  <2>4. PICK f : /\ f[0] = t /\ u = f[n] /\ \A i \in 1 .. n : f[i] = Step("servekey", None, None, f[i - 1], q[i])
    BY <1>2, <2>1, <2>2, <2>3, ServeKeysSteps
  <2>. DEFINE Left(i) == {q[j] : j \in (i + 1) .. n}
              T == {i \in 0 .. n : Good(f[i], p, Left(i), X) /\ Fewer(f[i], t) /\ Carries(f[i], t)}
  <2>5. Alters(t, v, {"ready"}, {}, {}) /\ t.ready = <<>> /\ t.c = v.c
    BY <2>1, Zenon DEF Alters, Good, Shape, Fields
  <2>6. Good(t, p, Left(0), X)
    <3>1. /\ t.db = v.db /\ t.isready = v.isready /\ t.waiting = v.waiting
          /\ \A x \in Clients : t.c[x].watched = v.c[x].watched /\ t.c[x].seen = v.c[x].seen
      BY <2>5, Zenon DEF Alters, Fields
    <3>2. Left(0) = ToSet(v.ready)
      BY <2>2, <2>3 DEF ToSet
    <3>3. ToSet(<<>>) = {} /\ <<>> \in Seq(Keys)
      BY DEF ToSet
    <3>4. Serves(t, Left(0))
      BY <2>5, <3>1, <3>2, <3>3 DEF Good, Serves
    <3>5. \A x \in Clients : Dirty(t, x) <=> Dirty(v, x)
      BY <2>5 DEF Dirty
    <3>6. Sees(t, Left(0), X)
      BY <2>5, <3>1, <3>2, <3>3, <3>5 DEF Good, Sees
    <3>7. QED
      BY <2>5, <3>4, <3>6, Keeps DEF Good
  <2>7. 0 \in T
    BY <2>4, <2>6 DEF Fewer, Falls, Carries
  <2>8. \A i \in T : i < n => i + 1 \in T
    <3>1. SUFFICES ASSUME NEW i \in T, i < n PROVE i + 1 \in T
      OBVIOUS
    <3>2. PICK j \in 0 .. n : j = i /\ j + 1 \in 1 .. n /\ (j + 1) - 1 = j
      BY <3>1
    <3>3. PICK w : w = f[j]
      OBVIOUS
    <3>4. Good(w, p, Left(j), X) /\ Fewer(w, t) /\ Carries(w, t)
      BY <3>2, <3>3
    <3>5. PICK k \in Keys : k = q[j + 1]
      BY <2>3, <3>2
    <3>6. PICK z : z = ServeKey(w, k)
      OBVIOUS
    <3>7. f[j + 1] = z
      <4>1. f[j + 1] = Step("servekey", None, None, w, k)
        BY <2>4, <3>2, <3>3, <3>5
      <4>2. QED
        BY <3>6, <4>1 DEF Step
    <3>8. k \in Left(j) /\ Left(j + 1) \subseteq Left(j) /\ Left(j) \ {k} \subseteq Left(j + 1)
      <4>1. (j + 1) .. n = {j + 1} \cup ((j + 1) + 1) .. n
        BY <3>2
      <4>2. QED
        BY <3>5, <4>1
    <3>. HIDE DEF Left
    <3>9. Good(z, p, Left(j + 1), X) /\ Fewer(z, w) /\ Carries(z, w)
      BY <3>4, <3>6, <3>8, ServeKeyGood
    <3>10. Fewer(z, t) /\ Carries(z, t)
      BY <3>4, <3>9, FewerTrans, CarriesTrans
    <3>11. QED
      BY <3>2, <3>7, <3>9, <3>10
  <2>9. T \in SUBSET (0 .. n)
    OBVIOUS
  <2>10. Left(n) = {}
    OBVIOUS
  <2>. HIDE DEF T
  <2>11. \A i \in 0 .. n : i \in T
    BY <2>7, <2>8, <2>9, IntervalInduct
  <2>12. n \in T
    BY <2>11
  <2>13. Good(u, p, {}, X) /\ Fewer(u, t) /\ Carries(u, t)
    BY <2>4, <2>10, <2>12 DEF T
  <2>14. BlockedSet(t) = BlockedSet(v)
    BY <2>5 DEF BlockedSet
  <2>15. Carries(u, v)
    <3>1. Carries(t, v)
      BY <2>5, AltersSame, SameCarries
    <3>2. QED
      BY <2>13, <3>1, CarriesTrans
  <2>16. QED
    BY <2>5, <2>13, <2>14, <2>15 DEF Fewer, Falls
<1>3. QED
  BY <1>1, <1>2

\* The rounds of handleClientsBlockedOnLists.
LEMMA HandleSteps ==
  ASSUME NEW v, NEW q, q = [n \in 1..(Cardinality(Clients) + 1) |-> n], Len(q) \in Nat
  PROVE  \E f : /\ f[0] = v /\ HandleClientsBlockedOnLists(v) = f[Len(q)]
                /\ \A i \in 1 .. Len(q) : f[i] = Step("servekeys", None, None, f[i - 1], q[i])
<1>1. \A u, x : Step("servekeys", None, None, u, x) = ServeKeys(u)
  BY DEF Step
<1>2. PICK g : Runs(g, "servekeys", None, None, v, Len(q), q)
  BY StepsExist
<1>3. g = [i \in 0 .. Len(q) |-> IF i = 0 THEN v ELSE ServeKeys(g[i - 1])]
  BY <1>1, <1>2, Zenon DEF Runs
<1>. DEFINE h == CHOOSE h : h = [i \in 0 .. Len(q) |-> IF i = 0 THEN v ELSE ServeKeys(h[i - 1])]
<1>4. h = [i \in 0 .. Len(q) |-> IF i = 0 THEN v ELSE ServeKeys(h[i - 1])]
  BY <1>3, Zenon
<1>5. HandleClientsBlockedOnLists(v) = h[Len(q)]
  BY Zenon DEF HandleClientsBlockedOnLists, ForEach
<1>. HIDE DEF h
<1>6. h[0] = v /\ \A i \in 1 .. Len(q) : h[i] = ServeKeys(h[i - 1])
  <2>1. 0 \in 0 .. Len(q) /\ \A i \in 1 .. Len(q) : i \in 0 .. Len(q) /\ i # 0
    BY Upto
  <2>2. QED
    BY <1>4, <2>1, Zenon
<1>7. \A i \in 1 .. Len(q) : h[i] = Step("servekeys", None, None, h[i - 1], q[i])
  BY <1>1, <1>6
<1>8. QED
  BY <1>5, <1>6, <1>7

\* All are served: in every round but the last someone is unblocked.
LEMMA HandleGood ==
  ASSUME NEW v, NEW p, Good(v, p, {}, {}), NEW u, u = HandleClientsBlockedOnLists(v)
  PROVE  Good(u, p, {}, {}) /\ u.ready = <<>> /\ Falls(u, v) /\ Carries(u, v)
<1>1. PICK m \in Nat : m = Cardinality(Clients)
  BY ClientsAssumption, FS_CardinalityType
<1>2. PICK n \in Nat : n = m + 1
  OBVIOUS
<1>3. PICK q : q = [i \in 1 .. n |-> i]
  OBVIOUS
<1>4. Len(q) = n
  BY <1>3
<1>5. PICK f : /\ f[0] = v /\ u = f[n] /\ \A i \in 1 .. n : f[i] = Step("servekeys", None, None, f[i - 1], q[i])
  BY <1>1, <1>2, <1>3, <1>4, HandleSteps
<1>6. ASSUME NEW w
      PROVE  IsFiniteSet(BlockedSet(w)) /\ Cardinality(BlockedSet(w)) \in Nat /\ Cardinality(BlockedSet(w)) <= m
  <2>1. BlockedSet(w) \subseteq Clients
    BY DEF BlockedSet
  <2>2. QED
    BY <1>1, <2>1, ClientsAssumption, FS_Subset, FS_CardinalityType
<1>. DEFINE T == {i \in 0 .. n : /\ Good(f[i], p, {}, {}) /\ Falls(f[i], v) /\ Carries(f[i], v)
                                 /\ f[i].ready = <<>> \/ Cardinality(BlockedSet(f[i])) <= m - i}
<1>7. 0 \in T
  BY <1>5, <1>6 DEF Falls, Carries
<1>8. \A i \in T : i < n => i + 1 \in T
  <2>1. SUFFICES ASSUME NEW i \in T, i < n PROVE i + 1 \in T
    OBVIOUS
  <2>2. PICK j \in 0 .. n : j = i /\ j + 1 \in 1 .. n /\ (j + 1) - 1 = j
    BY <2>1
  <2>3. PICK w : w = f[j]
    OBVIOUS
  <2>4. Good(w, p, {}, {}) /\ Falls(w, v) /\ Carries(w, v) /\ (w.ready = <<>> \/ Cardinality(BlockedSet(w)) <= m - j)
    BY <2>2, <2>3
  <2>5. PICK z : z = ServeKeys(w)
    OBVIOUS
  <2>6. f[j + 1] = z
    <3>1. f[j + 1] = Step("servekeys", None, None, w, q[j + 1])
      BY <1>5, <2>2, <2>3
    <3>2. QED
      BY <2>5, <3>1 DEF Step
  <2>7. /\ Good(z, p, {}, {}) /\ BlockedSet(z) \subseteq BlockedSet(w) /\ Falls(z, w)
        /\ (z.ready = <<>> \/ BlockedSet(z) # BlockedSet(w)) /\ Carries(z, w)
    BY <2>4, <2>5, ServeKeysGood
  <2>8. ASSUME z.ready # <<>> PROVE Cardinality(BlockedSet(z)) <= m - (j + 1)
    <3>1. w.ready # <<>>
      BY <2>5, <2>8 DEF ServeKeys
    <3>2. Cardinality(BlockedSet(w)) <= m - j
      BY <2>4, <3>1
    <3>3. Cardinality(BlockedSet(z)) <= Cardinality(BlockedSet(w)) /\ Cardinality(BlockedSet(z)) # Cardinality(BlockedSet(w))
      <4>1. IsFiniteSet(BlockedSet(w)) /\ BlockedSet(z) \in SUBSET BlockedSet(w)
        BY <1>6, <2>7
      <4>2. Cardinality(BlockedSet(w)) = Cardinality(BlockedSet(z)) => BlockedSet(w) = BlockedSet(z)
        BY <4>1, FS_Subset, Zenon
      <4>3. Cardinality(BlockedSet(z)) <= Cardinality(BlockedSet(w))
        BY <4>1, FS_Subset, Zenon
      <4>4. QED
        BY <2>7, <2>8, <4>2, <4>3
    <3>4. PICK a \in Nat, b \in Nat : a = Cardinality(BlockedSet(z)) /\ b = Cardinality(BlockedSet(w))
      BY <1>6
    <3>5. a <= m - (j + 1)
      BY <2>2, <3>2, <3>3, <3>4
    <3>6. QED
      BY <3>4, <3>5
  <2>9. Falls(z, v) /\ Carries(z, v)
    BY <2>4, <2>7, CarriesTrans DEF Falls
  <2>10. QED
    BY <2>2, <2>6, <2>7, <2>8, <2>9
<1>9. T \in SUBSET (0 .. n)
  OBVIOUS
<1>. HIDE DEF T
<1>10. \A i \in 0 .. n : i \in T
  BY <1>7, <1>8, <1>9, IntervalInduct
<1>11. n \in T
  BY <1>10
<1>12. Good(u, p, {}, {}) /\ Falls(u, v) /\ Carries(u, v) /\ (u.ready = <<>> \/ Cardinality(BlockedSet(u)) <= m - n)
  BY <1>5, <1>11 DEF T
<1>13. PICK b \in Nat : b = Cardinality(BlockedSet(u))
  BY <1>6
<1>14. ~(b <= m - n)
  BY <1>2
<1>15. QED
  BY <1>12, <1>13, <1>14

-----------------------------------------------------------------------------
(* Who stays connected, and in a transaction. *)

Stays(u, v, c) == /\ \A x \in Clients : u.c[x].up => v.c[x].up
                  /\ v.c[c].up => u.c[c].up
                  /\ "multi" \in v.c[c].flags => "multi" \in u.c[c].flags
Rests(u, v, c) == Stays(u, v, c) /\ Same(u, v)
\* A client stays connected when neither it nor its flags are altered.
LEMMA AltersStays ==
  ASSUME NEW u, NEW v, NEW F, NEW G, NEW L, Alters(u, v, F, G, L), "up" \notin G, "multi" \notin L, NEW c \in Clients
  PROVE  Stays(u, v, c)
<1>1. \A x \in Clients : u.c[x].up = v.c[x].up
  BY Zenon DEF Alters, CFields
<1>2. "multi" \in u.c[c].flags <=> "multi" \in v.c[c].flags
  BY Zenon DEF Alters
<1>3. QED
  BY <1>1, <1>2 DEF Stays
LEMMA StaysTrans ==
  ASSUME NEW u, NEW v, NEW w, NEW c \in Clients, Stays(u, v, c), Stays(w, u, c) PROVE Stays(w, v, c)
BY DEF Stays
LEMMA StaysSame ==
  ASSUME NEW v, NEW c PROVE Stays(v, v, c)
BY DEF Stays

\* Most of what is done for a client.
LEMMA ReplyStays ==
  ASSUME NEW v, NEW p, NEW R, NEW X, Good(v, p, R, X), NEW c \in Clients, NEW t, NEW e
  PROVE  /\ Good(ReplyWith(v, c, t, e), p, R, X) /\ Stays(ReplyWith(v, c, t, e), v, c)
         /\ Same(ReplyWith(v, c, t, e), v)
         /\ Good(Reply(v, c, t), p, R, X) /\ Stays(Reply(v, c, t), v, c) /\ Same(Reply(v, c, t), v)
<1>1. Good(ReplyWith(v, c, t, e), p, R, X) /\ Replied(ReplyWith(v, c, t, e), v)
  BY ReplyWithGood
<1>2. Good(Reply(v, c, t), p, R, X) /\ Replied(Reply(v, c, t), v)
  BY ReplyGood
<1>3. \A u : Replied(u, v) => Stays(u, v, c) /\ Same(u, v)
  <2>1. SUFFICES ASSUME NEW u, Replied(u, v) PROVE Stays(u, v, c) /\ Same(u, v)
    OBVIOUS
  <2>2. Alters(u, v, {"toclose"}, {"out"}, {"close_asap"})
    BY <2>1 DEF Replied
  <2>3. QED
    BY <2>2, AltersStays, AltersSame
<1>4. QED
  BY <1>1, <1>2, <1>3
LEMMA PropagateStays ==
  ASSUME NEW v, NEW p, NEW R, NEW X, Good(v, p, R, X), NEW c \in Clients, NEW cmd, NEW u, u = Propagate(v, cmd)
  PROVE  Good(u, p, R, X) /\ Stays(u, v, c) /\ Copied(u, v, cmd)
<1>1. Good(u, p, R, X) /\ Alters(u, v, {"copy"}, {}, {})
  BY PropagateGood
<1>2. Copied(u, v, cmd)
  BY PropagateCopied DEF Good
<1>3. QED
  BY <1>1, <1>2, AltersStays
LEMMA TouchStays ==
  ASSUME NEW v, NEW p, NEW R, NEW X, Good(v, p, R, X), NEW c \in Clients, NEW k \in Keys, NEW u, u = TouchWatchedKey(v, k)
  PROVE  Good(u, p, R, X \ {k}) /\ Stays(u, v, c) /\ Same(u, v)
<1>1. Good(u, p, R, X \ {k}) /\ Alters(u, v, {}, {}, {"dirty_cas"})
  BY TouchGood DEF Touched
<1>2. QED
  BY <1>1, AltersStays, AltersSame
LEMMA RaiseStays ==
  ASSUME NEW v, NEW p, NEW R, NEW X, Good(v, p, R, X), NEW c \in Clients, v.c[c].up, NEW f \in Plain
  PROVE  Good(Raise(v, c, f), p, R, X) /\ Stays(Raise(v, c, f), v, c) /\ Same(Raise(v, c, f), v)
<1>1. Alters(Raise(v, c, f), v, {}, {}, {f}) /\ \A x \in Clients : v.c[x].flags \subseteq Raise(v, c, f).c[x].flags
  BY RaiseAlters DEF Good
<1>2. \A x \in Clients : Raise(v, c, f).c[x].up = v.c[x].up
  BY <1>1, Zenon DEF Alters, CFields
<1>3. Same(Raise(v, c, f), v)
  <2>1. "master" \notin {f}
    BY DEF Plain
  <2>2. QED
    BY <1>1, <2>1, AltersSame
<1>4. QED
  BY <1>1, <1>2, <1>3, RaiseGood DEF Stays
LEMMA ClearStays ==
  ASSUME NEW v, NEW p, NEW R, NEW X, Good(v, p, R, X), NEW c \in Clients, NEW E,
         E \subseteq {"dirty_exec", "pubsub", "unblocked"}
  PROVE  Good(Clear(v, c, E), p, R, X) /\ Stays(Clear(v, c, E), v, c) /\ Same(Clear(v, c, E), v)
<1>1. E \subseteq {"multi", "dirty_exec", "pubsub", "unblocked"} /\ "multi" \notin E /\ "master" \notin E
  OBVIOUS
<1>2. Alters(Clear(v, c, E), v, {}, {}, E)
  BY ClearIs DEF Good
<1>3. Same(Clear(v, c, E), v)
  BY <1>1, <1>2, AltersSame
<1>4. QED
  BY <1>1, <1>2, <1>3, ClearGood, AltersStays

-----------------------------------------------------------------------------
(* A new master. *)

\* Connected clients are those in the list.
LEMMA UpOf ==
  ASSUME NEW u, NEW v, NEW F, NEW G, NEW L, Alters(u, v, F, G, L), "up" \notin G
  PROVE  \A x \in Clients : u.c[x].up = v.c[x].up
BY Zenon DEF Alters, CFields

Released(u, v) ==
    Alters(u, v, {"waiting", "unblocked", "toclose"}, {"keys", "target", "out"},
           {"blocked", "unblocked", "close_asap", "close_after_reply"})
LEMMA ReleasedSame == ASSUME NEW u, NEW v, Released(u, v) PROVE Same(u, v)
BY AltersSame DEF Released
\* A blocked client is answered and unblocked ...
LEMMA AnswerAndUnblock ==
  ASSUME NEW v, NEW p, NEW R, NEW X, Good(v, p, R, X), NEW c \in Clients, v.c[c].up, NEW t,
         NEW u, u = UnblockClient(Reply(v, c, t), c)
  PROVE  Good(u, p, R, X) /\ Released(u, v)
<1>1. PICK a : a = Reply(v, c, t)
  OBVIOUS
<1>2. Good(a, p, R, X) /\ Alters(a, v, {"toclose"}, {"out"}, {"close_asap"})
  BY <1>1, ReplyGood DEF Replied
<1>3. a.c[c].up
  BY <1>2, UpOf
<1>4. Good(u, p, R, X) /\ Alters(u, a, {"waiting", "unblocked"}, {"keys", "target"}, {"blocked", "unblocked"})
  BY <1>1, <1>2, <1>3, UnblockClientGood DEF WaitsNot
<1>5. Released(u, a) /\ Released(a, v)
  BY <1>2, <1>4 DEF Released, Alters
<1>6. QED
  BY <1>4, <1>5, AltersTrans DEF Released

\* ... and closed afterwards, as disconnectAllBlockedClients does ...
LEMMA DisconnectOneGood ==
  ASSUME NEW v, NEW p, NEW R, NEW X, Good(v, p, R, X), NEW x \in Clients, v.c[x].up, NEW u, u = DisconnectOne(v, x)
  PROVE  Good(u, p, R, X) /\ Released(u, v)
<1>1. CASE ~Has(v, x, "blocked")
  <2>1. u = v
    BY <1>1 DEF DisconnectOne
  <2>2. QED
    BY <2>1, AltersNot DEF Good, Released
<1>2. CASE Has(v, x, "blocked")
  <2>1. PICK w : w = UnblockClient(Reply(v, x, "unblocked"), x)
    OBVIOUS
  <2>2. Good(w, p, R, X) /\ Released(w, v)
    BY <2>1, AnswerAndUnblock
  <2>3. w.c[x].up
    BY <2>2, UpOf DEF Released
  <2>4. u = Raise(w, x, "close_after_reply")
    BY <1>2, <2>1 DEF DisconnectOne
  <2>5. Good(u, p, R, X)
    BY <2>2, <2>3, <2>4, RaiseGood DEF Plain
  <2>6. Alters(u, w, {}, {}, {"close_after_reply"})
    BY <2>2, <2>4, RaiseAlters DEF Good
  <2>7. Released(u, w)
    BY <2>6 DEF Released, Alters
  <2>8. QED
    BY <2>2, <2>5, <2>7, AltersTrans DEF Released
<1>3. QED
  BY <1>1, <1>2

\* ... with all of them ...
LEMMA DisconnectSteps ==
  ASSUME NEW v, NEW q, q = v.clients, Len(q) \in Nat
  PROVE  \E f : /\ f[0] = v /\ DisconnectAllBlockedClients(v) = f[Len(q)]
                /\ \A i \in 1 .. Len(q) : f[i] = Step("disconnect", None, None, f[i - 1], q[i])
<1>1. \A u, x : Step("disconnect", None, None, u, x) = DisconnectOne(u, x)
  BY DEF Step
<1>2. PICK g : Runs(g, "disconnect", None, None, v, Len(q), q)
  BY StepsExist
<1>3. g = [i \in 0 .. Len(q) |-> IF i = 0 THEN v ELSE DisconnectOne(g[i - 1], q[i])]
  BY <1>1, <1>2, Zenon DEF Runs
<1>. DEFINE h == CHOOSE h : h = [i \in 0 .. Len(q) |-> IF i = 0 THEN v ELSE DisconnectOne(h[i - 1], q[i])]
<1>4. h = [i \in 0 .. Len(q) |-> IF i = 0 THEN v ELSE DisconnectOne(h[i - 1], q[i])]
  BY <1>3, Zenon
<1>5. DisconnectAllBlockedClients(v) = h[Len(q)]
  BY Zenon DEF DisconnectAllBlockedClients, ForEach, DisconnectOne
<1>. HIDE DEF h
<1>6. h[0] = v /\ \A i \in 1 .. Len(q) : h[i] = DisconnectOne(h[i - 1], q[i])
  <2>1. 0 \in 0 .. Len(q) /\ \A i \in 1 .. Len(q) : i \in 0 .. Len(q) /\ i # 0
    BY Upto
  <2>2. QED
    BY <1>4, <2>1, Zenon
<1>7. \A i \in 1 .. Len(q) : h[i] = Step("disconnect", None, None, h[i - 1], q[i])
  BY <1>1, <1>6
<1>8. QED
  BY <1>5, <1>6, <1>7

\* ... so that none is blocked.
LEMMA DisconnectGood ==
  ASSUME NEW v, NEW p, NEW R, NEW X, Good(v, p, R, X), NEW u, u = DisconnectAllBlockedClients(v)
  PROVE  Good(u, p, R, X) /\ Released(u, v)
<1>1. PICK q \in Seq(Clients) : q = v.clients
  BY DEF Good, Ups
<1>2. PICK n \in Nat : n = Len(q) /\ DOMAIN q = 1 .. n /\ \A i \in 1 .. n : q[i] \in Clients
  BY LenProperties
<1>3. \A i \in 1 .. n : v.c[q[i]].up
  BY <1>1, <1>2 DEF Good, Ups, ToSet
<1>4. PICK f : /\ f[0] = v /\ u = f[n] /\ \A i \in 1 .. n : f[i] = Step("disconnect", None, None, f[i - 1], q[i])
  BY <1>1, <1>2, DisconnectSteps
<1>5. ASSUME NEW w, NEW i \in 1 .. n, Good(w, p, R, X), Released(w, v)
      PROVE  Good(Step("disconnect", None, None, w, q[i]), p, R, X) /\ Released(Step("disconnect", None, None, w, q[i]), w)
  <2>1. Step("disconnect", None, None, w, q[i]) = DisconnectOne(w, q[i])
    BY DEF Step
  <2>2. w.c[q[i]].up /\ q[i] \in Clients
    BY <1>2, <1>3, <1>5, UpOf DEF Released
  <2>3. QED
    BY <1>5, <2>1, <2>2, DisconnectOneGood
<1>6. PICK F, G, L : \A a, b : Released(a, b) <=> Alters(a, b, F, G, L)
  BY DEF Released
<1>7. ASSUME NEW i \in 1 .. n, Good(f[i - 1], p, R, X), Alters(f[i - 1], f[0], F, G, L)
      PROVE  Good(f[i], p, R, X) /\ Alters(f[i], f[i - 1], F, G, L)
  BY <1>4, <1>5, <1>6, <1>7
<1>8. Good(f[n], p, R, X) /\ Alters(f[n], f[0], F, G, L)
  BY <1>4, <1>7, Repeats
<1>9. QED
  BY <1>4, <1>6, <1>8

-----------------------------------------------------------------------------
(* Publish and subscribe. *)

\* Only the fields about channels, or those about patterns, change.
LEMMA ListensGood ==
  ASSUME NEW v, NEW p, NEW R, NEW X, Good(v, p, R, X), NEW u, Alters(u, v, {"channels"}, {"subs"}, {}),
         Listens(u), \A x \in Clients : v.c[x].up \/ u.c[x].subs = {}
  PROVE  Good(u, p, R, X)
<1>1. NoLinks(u)
  <2>1. \A x \in Clients : u.c[x].up = v.c[x].up /\ u.c[x].watched = v.c[x].watched /\ u.c[x].pats = v.c[x].pats
    BY Zenon DEF Alters, CFields
  <2>2. QED
    BY <2>1 DEF Good, NoLinks
<1>2. /\ Shape(u) /\ Ups(u) /\ NoFlags(u) /\ Watches(u) /\ Waits(u) /\ Patterns(u) /\ Closes(u)
      /\ Unblocks(u) /\ Sent(u, p) /\ Serves(u, R) /\ Sees(u, R, X)
  BY Keeps
<1>3. QED
  BY <1>1, <1>2 DEF Good
LEMMA PatternsGood ==
  ASSUME NEW v, NEW p, NEW R, NEW X, Good(v, p, R, X), NEW u, Alters(u, v, {"patterns"}, {"pats"}, {}),
         Patterns(u), \A x \in Clients : v.c[x].up \/ u.c[x].pats = <<>>
  PROVE  Good(u, p, R, X)
<1>1. NoLinks(u)
  <2>1. \A x \in Clients : u.c[x].up = v.c[x].up /\ u.c[x].watched = v.c[x].watched /\ u.c[x].subs = v.c[x].subs
    BY Zenon DEF Alters, CFields
  <2>2. QED
    BY <2>1 DEF Good, NoLinks
<1>2. /\ Shape(u) /\ Ups(u) /\ NoFlags(u) /\ Watches(u) /\ Waits(u) /\ Listens(u) /\ Closes(u)
      /\ Unblocks(u) /\ Sent(u, p) /\ Serves(u, R) /\ Sees(u, R, X)
  BY Keeps
<1>3. QED
  BY <1>1, <1>2 DEF Good

Listening(v, c, D, l) == [v EXCEPT !.c[c].subs = D, !.channels = l]
\* The channels of a client, and the clients of the channels.
LEMMA ListeningIs ==
  ASSUME NEW v, Shape(v), NEW c \in Clients, NEW D, NEW l, NEW u, u = Listening(v, c, D, l)
  PROVE  /\ Alters(u, v, {"channels"}, {"subs"}, {}) /\ u.c[c].subs = D /\ u.channels = l
         /\ \A x \in Clients : x # c => u.c[x] = v.c[x]
<1>1. PICK w : w = [v EXCEPT !.c[c].subs = D]
  OBVIOUS
<1>2. u = [w EXCEPT !.channels = l]
  BY <1>1 DEF Listening
<1>3. /\ Alters(w, v, {}, {"subs"}, {}) /\ w.c[c].subs = D
      /\ \A x \in Clients : x # c => w.c[x] = v.c[x]
  BY <1>1, Zenon DEF Alters, Shape, Fields, CFields
<1>4. Alters(u, w, {"channels"}, {}, {}) /\ u.c = w.c /\ u.channels = l
  BY <1>2, <1>3, Zenon DEF Alters, Shape, Fields, CFields
<1>5. Alters(u, v, {"channels"}, {"subs"}, {})
  BY <1>3, <1>4, AltersJoin
<1>6. QED
  BY <1>3, <1>4, <1>5

\* SUBSCRIBE to one channel.
LEMMA SubscribeChannelGood ==
  ASSUME NEW v, NEW p, NEW R, NEW X, Good(v, p, R, X), NEW c \in Clients, v.c[c].up, NEW ch \in Channels,
         NEW u, u = SubscribeChannel(v, c, ch)
  PROVE  Good(u, p, R, X) /\ Stays(u, v, c) /\ Same(u, v)
<1>1. CASE ch \in v.c[c].subs
  <2>1. u = v
    BY <1>1 DEF SubscribeChannel
  <2>2. QED
    BY <2>1, StaysSame, SameSelf
<1>2. CASE ch \notin v.c[c].subs
  <2>1. u = [v EXCEPT !.c[c].subs = @ \cup {ch}, !.channels[ch] = Append(@, c)]
    BY <1>2 DEF SubscribeChannel
  <2>2. Shape(v) /\ Listens(v)
    BY DEF Good
  <2>15. PICK S : S = v.c[c].subs \cup {ch}
    OBVIOUS
  <2>16. PICK C : C = [v.channels EXCEPT ![ch] = Append(@, c)]
    OBVIOUS
  <2>17. u = Listening(v, c, S, C)
    BY <2>1, <2>2, <2>15, <2>16, Zenon DEF Listening, Shape, Fields
  <2>3. Alters(u, v, {"channels"}, {"subs"}, {})
    BY <2>2, <2>17, ListeningIs
  <2>4. /\ u.channels = [v.channels EXCEPT ![ch] = Append(@, c)]
        /\ u.c[c].subs = v.c[c].subs \cup {ch} /\ \A x \in Clients : x # c => u.c[x] = v.c[x]
    <3>1. u.channels = C /\ u.c[c].subs = S /\ \A x \in Clients : x # c => u.c[x] = v.c[x]
      BY <2>2, <2>17, ListeningIs
    <3>2. QED
      BY <2>15, <2>16, <3>1
  <2>5. PICK q \in Seq(Clients) : q = v.channels[ch] /\ Once(q) /\ c \notin ToSet(q)
    BY <1>2, <2>2 DEF Listens
  <2>6. PICK l \in Seq(Clients) : l = Append(q, c) /\ Once(l) /\ ToSet(l) = ToSet(q) \cup {c}
    BY <2>5, AppendSet, ZenonT(60)
  <2>7. DOMAIN u.channels = Channels /\ u.channels[ch] = l /\ \A j \in Channels : j # ch => u.channels[j] = v.channels[j]
    BY <2>2, <2>4, <2>5, <2>6 DEF Listens
  <2>8. \A j \in Channels : u.channels[j] \in Seq(Clients) /\ Once(u.channels[j])
    BY <2>2, <2>6, <2>7 DEF Listens
  <2>9. \A x \in Clients : u.c[x].subs \in SUBSET Channels
    BY <2>2, <2>4, SMTT(30) DEF Listens
  <2>10. \A x \in Clients : \A j \in Channels : x \in ToSet(u.channels[j]) <=> (j = ch /\ x = c) \/ x \in ToSet(v.channels[j])
    BY <2>5, <2>6, <2>7
  <2>11. \A x \in Clients : \A j \in Channels : j \in u.c[x].subs <=> (j = ch /\ x = c) \/ j \in v.c[x].subs
    BY <2>4
  <2>12. Listens(u)
    BY <2>2, <2>7, <2>8, <2>9, <2>10, <2>11 DEF Listens
  <2>13. \A x \in Clients : v.c[x].up \/ u.c[x].subs = {}
    BY <2>4 DEF Good, NoLinks
  <2>14. QED
    BY <2>3, <2>12, <2>13, ListensGood, AltersStays, AltersSame
<1>3. QED
  BY <1>1, <1>2

\* The client leaves the channels in D.
LEMMA LeavesGood ==
  ASSUME NEW v, NEW p, NEW R, NEW X, Good(v, p, R, X), NEW c \in Clients, NEW D, D \subseteq v.c[c].subs,
         NEW u, Alters(u, v, {"channels"}, {"subs"}, {}), DOMAIN u.channels = Channels,
         \A j \in Channels : u.channels[j] = IF j \in D THEN Without(v.channels[j], c) ELSE v.channels[j],
         u.c[c].subs = v.c[c].subs \ D, \A x \in Clients : x # c => u.c[x] = v.c[x]
  PROVE  Good(u, p, R, X)
<1>1. ASSUME NEW j \in Channels
      PROVE  /\ u.channels[j] \in Seq(Clients) /\ Once(u.channels[j])
             /\ ToSet(u.channels[j]) = IF j \in D THEN ToSet(v.channels[j]) \ {c} ELSE ToSet(v.channels[j])
  <2>1. PICK q \in Seq(Clients) : q = v.channels[j] /\ Once(q)
    BY DEF Good, Listens
  <2>2. CASE j \in D
    <3>1. u.channels[j] = Without(q, c)
      BY <2>1, <2>2
    <3>2. QED
      BY <2>1, <2>2, <3>1, WithoutIs
  <2>3. CASE j \notin D
    BY <2>1, <2>3
  <2>4. QED
    BY <2>2, <2>3
<1>2. Listens(v)
  BY DEF Good
<1>3. \A x \in Clients : u.c[x].subs \in SUBSET Channels
  BY <1>2 DEF Listens
<1>4. ASSUME NEW x \in Clients, NEW j \in Channels PROVE x \in ToSet(u.channels[j]) <=> j \in u.c[x].subs
  <2>1. CASE x = c
    BY <1>1, <1>2, <2>1 DEF Listens
  <2>2. CASE x # c
    BY <1>1, <1>2, <2>2 DEF Listens
  <2>3. QED
    BY <2>1, <2>2
<1>5. Listens(u)
  BY <1>1, <1>3, <1>4 DEF Listens
<1>6. \A x \in Clients : v.c[x].up \/ u.c[x].subs = {}
  <2>1. \A x \in Clients : v.c[x].up \/ v.c[x].subs = {}
    BY DEF Good, NoLinks
  <2>2. QED
    BY <2>1
<1>7. QED
  BY <1>5, <1>6, ListensGood

\* UNSUBSCRIBE from one channel, and from all.
LEMMA UnsubscribeChannelGood ==
  ASSUME NEW v, NEW p, NEW R, NEW X, Good(v, p, R, X), NEW c \in Clients, NEW ch \in Channels,
         NEW u, u = UnsubscribeChannel(v, c, ch)
  PROVE  Good(u, p, R, X) /\ Stays(u, v, c) /\ Same(u, v)
<1>1. CASE ch \notin v.c[c].subs
  <2>1. u = v
    BY <1>1 DEF UnsubscribeChannel
  <2>2. QED
    BY <2>1, StaysSame, SameSelf
<1>2. CASE ch \in v.c[c].subs
  <2>1. u = [v EXCEPT !.c[c].subs = @ \ {ch}, !.channels[ch] = Without(@, c)]
    BY <1>2 DEF UnsubscribeChannel
  <2>2. Shape(v) /\ DOMAIN v.channels = Channels
    BY DEF Good, Listens
  <2>15. PICK S : S = v.c[c].subs \ {ch}
    OBVIOUS
  <2>16. PICK C : C = [v.channels EXCEPT ![ch] = Without(@, c)]
    OBVIOUS
  <2>17. u = Listening(v, c, S, C)
    BY <2>1, <2>2, <2>15, <2>16, Zenon DEF Listening, Shape, Fields
  <2>3. Alters(u, v, {"channels"}, {"subs"}, {})
    BY <2>2, <2>17, ListeningIs
  <2>4. /\ u.channels = [v.channels EXCEPT ![ch] = Without(@, c)]
        /\ u.c[c].subs = v.c[c].subs \ {ch} /\ \A x \in Clients : x # c => u.c[x] = v.c[x]
    <3>1. u.channels = C /\ u.c[c].subs = S /\ \A x \in Clients : x # c => u.c[x] = v.c[x]
      BY <2>2, <2>17, ListeningIs
    <3>2. QED
      BY <2>15, <2>16, <3>1
  <2>5. PICK D : D = {ch} /\ D \subseteq v.c[c].subs
    BY <1>2
  <2>6. /\ DOMAIN u.channels = Channels /\ u.c[c].subs = v.c[c].subs \ D
        /\ \A j \in Channels : u.channels[j] = IF j \in D THEN Without(v.channels[j], c) ELSE v.channels[j]
    BY <2>2, <2>4, <2>5
  <2>7. Good(u, p, R, X)
    BY <2>3, <2>4, <2>5, <2>6, LeavesGood
  <2>8. QED
    BY <2>3, <2>7, AltersStays, AltersSame
<1>3. QED
  BY <1>1, <1>2

LEMMA UnsubscribeAllChannelsGood ==
  ASSUME NEW v, NEW p, NEW R, NEW X, Good(v, p, R, X), NEW c \in Clients, NEW u, u = UnsubscribeAllChannels(v, c)
  PROVE  /\ Good(u, p, R, X) /\ Alters(u, v, {"channels"}, {"subs"}, {}) /\ u.c[c].subs = {}
         /\ u.c[c].flags = v.c[c].flags /\ \A x \in Clients : x # c => u.c[x] = v.c[x]
<1>1. Shape(v)
  BY DEF Good
<1>2. Alters(u, v, {"channels"}, {"subs"}, {})
  BY <1>1, Zenon DEF UnsubscribeAllChannels, Alters, Shape, Fields, CFields
<1>3. /\ u.channels = [ch \in Channels |-> IF ch \in v.c[c].subs THEN Without(v.channels[ch], c) ELSE v.channels[ch]]
      /\ u.c[c].subs = {} /\ \A x \in Clients : x # c => u.c[x] = v.c[x]
  BY <1>1, Zenon DEF UnsubscribeAllChannels, Shape, Fields, CFields
<1>4. u.c[c].flags = v.c[c].flags
  BY <1>1, Zenon DEF UnsubscribeAllChannels, Shape, Fields, CFields
<1>5. PICK D : D = v.c[c].subs
  OBVIOUS
<1>6. /\ DOMAIN u.channels = Channels /\ D \subseteq v.c[c].subs /\ u.c[c].subs = v.c[c].subs \ D
      /\ \A j \in Channels : u.channels[j] = IF j \in D THEN Without(v.channels[j], c) ELSE v.channels[j]
  BY <1>3, <1>5
<1>7. Good(u, p, R, X)
  BY <1>2, <1>3, <1>6, LeavesGood
<1>8. QED
  BY <1>2, <1>3, <1>4, <1>7

\* The patterns of a client, and the list of all patterns.
Matching(v, c, a, l) == [v EXCEPT !.c[c].pats = a, !.patterns = l]
LEMMA MatchingIs ==
  ASSUME NEW v, Shape(v), NEW c \in Clients, NEW a, NEW l, NEW u, u = Matching(v, c, a, l)
  PROVE  /\ Alters(u, v, {"patterns"}, {"pats"}, {}) /\ u.c[c].pats = a /\ u.patterns = l
         /\ \A x \in Clients : x # c => u.c[x] = v.c[x]
<1>1. PICK w : w = [v EXCEPT !.c[c].pats = a]
  OBVIOUS
<1>2. u = [w EXCEPT !.patterns = l]
  BY <1>1 DEF Matching
<1>3. /\ Alters(w, v, {}, {"pats"}, {}) /\ w.c[c].pats = a
      /\ \A x \in Clients : x # c => w.c[x] = v.c[x]
  BY <1>1, Zenon DEF Alters, Shape, Fields, CFields
<1>4. Alters(u, w, {"patterns"}, {}, {}) /\ u.c = w.c /\ u.patterns = l
  BY <1>2, <1>3, Zenon DEF Alters, Shape, Fields, CFields
<1>5. Alters(u, v, {"patterns"}, {"pats"}, {})
  BY <1>3, <1>4, AltersJoin
<1>6. QED
  BY <1>3, <1>4, <1>5

\* PSUBSCRIBE, PUNSUBSCRIBE: the client's list and the server's change together.
LEMMA SubscribePatternGood ==
  ASSUME NEW v, NEW p, NEW R, NEW X, Good(v, p, R, X), NEW c \in Clients, v.c[c].up, NEW m \in SUBSET Channels,
         NEW u, u = SubscribePattern(v, c, m)
  PROVE  Good(u, p, R, X) /\ Stays(u, v, c) /\ Same(u, v)
<1>1. CASE m \in ToSet(v.c[c].pats)
  <2>1. u = v
    BY <1>1 DEF SubscribePattern
  <2>2. QED
    BY <2>1, StaysSame, SameSelf
<1>2. CASE m \notin ToSet(v.c[c].pats)
  <2>1. Shape(v) /\ Patterns(v)
    BY DEF Good
  <2>2. PICK a \in Seq(SUBSET Channels) : a = Append(v.c[c].pats, m) /\ Once(a) /\ ToSet(a) = ToSet(v.c[c].pats) \cup {m}
    <3>1. PICK q \in Seq(SUBSET Channels) : q = v.c[c].pats /\ Once(q) /\ m \notin ToSet(q)
      BY <1>2, <2>1 DEF Patterns
    <3>2. PICK S : S = SUBSET Channels
      OBVIOUS
    <3>3. q \in Seq(S) /\ m \in S
      BY <3>2
    <3>4. /\ Append(q, m) \in Seq(S) /\ ToSet(Append(q, m)) = ToSet(q) \cup {m}
          /\ Once(q) /\ m \notin ToSet(q) => Once(Append(q, m))
      BY <3>3, AppendSet
    <3>5. QED
      BY <3>1, <3>2, <3>4
  <2>3. PICK l \in Seq(Clients \X SUBSET Channels) :
          l = Append(v.patterns, <<c, m>>) /\ Once(l) /\ ToSet(l) = ToSet(v.patterns) \cup {<<c, m>>}
    <3>1. PICK q \in Seq(Clients \X SUBSET Channels) : q = v.patterns /\ Once(q) /\ <<c, m>> \notin ToSet(q)
      BY <1>2, <2>1 DEF Patterns
    <3>2. PICK S : S = Clients \X SUBSET Channels
      OBVIOUS
    <3>3. PICK e \in S : e = <<c, m>>
      BY <3>2
    <3>4. q \in Seq(S)
      BY <3>2
    <3>5. /\ Append(q, e) \in Seq(S) /\ ToSet(Append(q, e)) = ToSet(q) \cup {e}
          /\ Once(q) /\ e \notin ToSet(q) => Once(Append(q, e))
      BY <3>4, AppendSet
    <3>6. QED
      BY <3>1, <3>2, <3>3, <3>5
  <2>4. u = Matching(v, c, a, l)
    BY <1>2, <2>1, <2>2, <2>3, Zenon DEF SubscribePattern, Matching, Shape, Fields
  <2>5. /\ Alters(u, v, {"patterns"}, {"pats"}, {}) /\ u.c[c].pats = a /\ u.patterns = l
        /\ \A x \in Clients : x # c => u.c[x] = v.c[x]
    BY <2>1, <2>4, MatchingIs
  <2>6. \A x \in Clients : u.c[x].pats \in Seq(SUBSET Channels) /\ Once(u.c[x].pats)
    BY <2>1, <2>2, <2>5 DEF Patterns
  <2>7. ASSUME NEW x \in Clients, NEW q \in SUBSET Channels
        PROVE  <<x, q>> \in ToSet(u.patterns) <=> q \in ToSet(u.c[x].pats)
    <3>1. <<x, q>> \in ToSet(v.patterns) <=> q \in ToSet(v.c[x].pats)
      BY <2>1 DEF Patterns
    <3>2. <<x, q>> = <<c, m>> <=> x = c /\ q = m
      OBVIOUS
    <3>3. <<x, q>> \in ToSet(u.patterns) <=> (x = c /\ q = m) \/ <<x, q>> \in ToSet(v.patterns)
      BY <2>3, <2>5, <3>2
    <3>4. q \in ToSet(u.c[x].pats) <=> (x = c /\ q = m) \/ q \in ToSet(v.c[x].pats)
      <4>1. CASE x = c
        BY <2>2, <2>5, <4>1
      <4>2. CASE x # c
        BY <2>5, <4>2
      <4>3. QED
        BY <4>1, <4>2
    <3>5. QED
      BY <3>1, <3>3, <3>4
  <2>8. Patterns(u)
    BY <2>3, <2>5, <2>6, <2>7 DEF Patterns
  <2>9. \A x \in Clients : v.c[x].up \/ u.c[x].pats = <<>>
    BY <2>5 DEF Good, NoLinks
  <2>10. QED
    BY <2>5, <2>8, <2>9, PatternsGood, AltersStays, AltersSame
<1>3. QED
  BY <1>1, <1>2

LEMMA UnsubscribePatternGood ==
  ASSUME NEW v, NEW p, NEW R, NEW X, Good(v, p, R, X), NEW c \in Clients, NEW m \in SUBSET Channels,
         NEW u, u = UnsubscribePattern(v, c, m)
  PROVE  /\ Good(u, p, R, X) /\ Alters(u, v, {"patterns"}, {"pats"}, {})
         /\ ToSet(u.c[c].pats) = ToSet(v.c[c].pats) \ {m} /\ \A x \in Clients : x # c => u.c[x] = v.c[x]
<1>1. CASE m \notin ToSet(v.c[c].pats)
  <2>1. u = v
    BY <1>1 DEF UnsubscribePattern
  <2>2. QED
    BY <1>1, <2>1, AltersNot DEF Good
<1>2. CASE m \in ToSet(v.c[c].pats)
  <2>1. Shape(v) /\ Patterns(v)
    BY DEF Good
  <2>2. PICK a \in Seq(SUBSET Channels) : a = Without(v.c[c].pats, m) /\ Once(a) /\ ToSet(a) = ToSet(v.c[c].pats) \ {m}
    <3>1. PICK q \in Seq(SUBSET Channels) : q = v.c[c].pats /\ Once(q)
      BY <2>1 DEF Patterns
    <3>2. QED
      BY <3>1, WithoutIs
  <2>3. PICK l \in Seq(Clients \X SUBSET Channels) :
          l = Without(v.patterns, <<c, m>>) /\ Once(l) /\ ToSet(l) = ToSet(v.patterns) \ {<<c, m>>}
    <3>1. PICK q \in Seq(Clients \X SUBSET Channels) : q = v.patterns /\ Once(q)
      BY <2>1 DEF Patterns
    <3>2. QED
      BY <3>1, WithoutIs
  <2>4. u = Matching(v, c, a, l)
    BY <1>2, <2>1, <2>2, <2>3, Zenon DEF UnsubscribePattern, Matching, Shape, Fields
  <2>5. /\ Alters(u, v, {"patterns"}, {"pats"}, {}) /\ u.c[c].pats = a /\ u.patterns = l
        /\ \A x \in Clients : x # c => u.c[x] = v.c[x]
    BY <2>1, <2>4, MatchingIs
  <2>6. \A x \in Clients : u.c[x].pats \in Seq(SUBSET Channels) /\ Once(u.c[x].pats)
    BY <2>1, <2>2, <2>5 DEF Patterns
  <2>7. ASSUME NEW x \in Clients, NEW q \in SUBSET Channels
        PROVE  <<x, q>> \in ToSet(u.patterns) <=> q \in ToSet(u.c[x].pats)
    <3>1. <<x, q>> \in ToSet(v.patterns) <=> q \in ToSet(v.c[x].pats)
      BY <2>1 DEF Patterns
    <3>2. <<x, q>> = <<c, m>> <=> x = c /\ q = m
      OBVIOUS
    <3>3. <<x, q>> \in ToSet(u.patterns) <=> ~(x = c /\ q = m) /\ <<x, q>> \in ToSet(v.patterns)
      BY <2>3, <2>5, <3>2
    <3>4. q \in ToSet(u.c[x].pats) <=> ~(x = c /\ q = m) /\ q \in ToSet(v.c[x].pats)
      BY <2>2, <2>5
    <3>5. QED
      BY <3>1, <3>3, <3>4
  <2>8. Patterns(u)
    BY <2>3, <2>5, <2>6, <2>7 DEF Patterns
  <2>9. \A x \in Clients : v.c[x].up \/ u.c[x].pats = <<>>
    <3>1. \A x \in Clients : v.c[x].up \/ v.c[x].pats = <<>>
      BY DEF Good, NoLinks
    <3>2. v.c[c].pats # <<>>
      BY <1>2 DEF ToSet
    <3>3. QED
      BY <2>5, <3>1, <3>2
  <2>10. Good(u, p, R, X)
    BY <2>5, <2>8, <2>9, PatternsGood
  <2>11. QED
    BY <2>2, <2>5, <2>10
<1>3. QED
  BY <1>1, <1>2

\* The loop of pubsubUnsubscribeAllPatterns ...
LEMMA UnsubscribeSteps ==
  ASSUME NEW v, NEW c, NEW q, q = v.c[c].pats, Len(q) \in Nat
  PROVE  \E f : /\ f[0] = v /\ UnsubscribeAllPatterns(v, c) = f[Len(q)]
                /\ \A i \in 1 .. Len(q) : f[i] = Step("unsubscribe", None, c, f[i - 1], q[i])
<1>1. \A u, x : Step("unsubscribe", None, c, u, x) = UnsubscribePattern(u, c, x)
  BY DEF Step
<1>2. PICK g : Runs(g, "unsubscribe", None, c, v, Len(q), q)
  BY StepsExist
<1>3. g = [i \in 0 .. Len(q) |-> IF i = 0 THEN v ELSE UnsubscribePattern(g[i - 1], c, q[i])]
  BY <1>1, <1>2, Zenon DEF Runs
<1>. DEFINE h == CHOOSE h : h = [i \in 0 .. Len(q) |-> IF i = 0 THEN v ELSE UnsubscribePattern(h[i - 1], c, q[i])]
<1>4. h = [i \in 0 .. Len(q) |-> IF i = 0 THEN v ELSE UnsubscribePattern(h[i - 1], c, q[i])]
  BY <1>3, Zenon
<1>5. UnsubscribeAllPatterns(v, c) = h[Len(q)]
  BY Zenon DEF UnsubscribeAllPatterns, ForEach
<1>. HIDE DEF h
<1>6. h[0] = v /\ \A i \in 1 .. Len(q) : h[i] = UnsubscribePattern(h[i - 1], c, q[i])
  <2>1. 0 \in 0 .. Len(q) /\ \A i \in 1 .. Len(q) : i \in 0 .. Len(q) /\ i # 0
    BY Upto
  <2>2. QED
    BY <1>4, <2>1, Zenon
<1>7. \A i \in 1 .. Len(q) : h[i] = Step("unsubscribe", None, c, h[i - 1], q[i])
  BY <1>1, <1>6
<1>8. QED
  BY <1>5, <1>6, <1>7

\* ... after which the client has no pattern.
LEMMA UnsubscribeAllPatternsGood ==
  ASSUME NEW v, NEW p, NEW R, NEW X, Good(v, p, R, X), NEW c \in Clients, NEW u, u = UnsubscribeAllPatterns(v, c)
  PROVE  /\ Good(u, p, R, X) /\ Alters(u, v, {"patterns"}, {"pats"}, {}) /\ u.c[c].pats = <<>>
         /\ \A x \in Clients : x # c => u.c[x] = v.c[x]
<1>1. PICK q \in Seq(SUBSET Channels) : q = v.c[c].pats
  BY DEF Good, Patterns
<1>2. PICK n \in Nat : n = Len(q) /\ DOMAIN q = 1 .. n /\ \A i \in 1 .. n : q[i] \in SUBSET Channels
  BY LenProperties
<1>3. PICK f : /\ f[0] = v /\ u = f[n] /\ \A i \in 1 .. n : f[i] = Step("unsubscribe", None, c, f[i - 1], q[i])
  BY <1>1, <1>2, UnsubscribeSteps
<1>. DEFINE Left(w, i) == \A m \in ToSet(w.c[c].pats) : \E j \in (i + 1) .. n : q[j] = m
            Others(w) == \A x \in Clients : x # c => w.c[x] = v.c[x]
            T == {i \in 0 .. n : /\ Good(f[i], p, R, X) /\ Alters(f[i], v, {"patterns"}, {"pats"}, {})
                                 /\ Left(f[i], i) /\ Others(f[i])}
<1>4. 0 \in T
  <2>1. Left(v, 0)
    BY <1>1, <1>2 DEF ToSet
  <2>2. QED
    BY <1>3, <2>1, AltersNot DEF Good
<1>5. \A i \in T : i < n => i + 1 \in T
  <2>1. SUFFICES ASSUME NEW i \in T, i < n PROVE i + 1 \in T
    OBVIOUS
  <2>2. PICK j \in 0 .. n : j = i /\ j + 1 \in 1 .. n /\ (j + 1) - 1 = j
    BY <2>1
  <2>3. PICK w : w = f[j]
    OBVIOUS
  <2>4. Good(w, p, R, X) /\ Alters(w, v, {"patterns"}, {"pats"}, {}) /\ Left(w, j) /\ Others(w)
    BY <2>2, <2>3
  <2>5. PICK m \in SUBSET Channels : m = q[j + 1]
    BY <1>2, <2>2
  <2>6. PICK z : z = UnsubscribePattern(w, c, m)
    OBVIOUS
  <2>7. f[j + 1] = z
    <3>1. f[j + 1] = Step("unsubscribe", None, c, w, m)
      BY <1>3, <2>2, <2>3, <2>5
    <3>2. QED
      BY <2>6, <3>1 DEF Step
  <2>8. /\ Good(z, p, R, X) /\ Alters(z, w, {"patterns"}, {"pats"}, {})
        /\ ToSet(z.c[c].pats) = ToSet(w.c[c].pats) \ {m} /\ \A x \in Clients : x # c => z.c[x] = w.c[x]
    BY <2>4, <2>6, UnsubscribePatternGood
  <2>9. Alters(z, v, {"patterns"}, {"pats"}, {})
    BY <2>4, <2>8, AltersTrans
  <2>10. Left(z, j + 1)
    <3>1. SUFFICES ASSUME NEW e \in ToSet(z.c[c].pats) PROVE \E h \in ((j + 1) + 1) .. n : q[h] = e
      OBVIOUS
    <3>2. PICK h \in (j + 1) .. n : q[h] = e
      BY <2>4, <2>8, <3>1
    <3>3. h # j + 1
      BY <2>5, <2>8, <3>1, <3>2
    <3>4. h \in ((j + 1) + 1) .. n
      BY <2>2, <3>2, <3>3
    <3>5. QED
      BY <3>2, <3>4
  <2>11. Others(z)
    BY <2>4, <2>8
  <2>12. QED
    BY <2>2, <2>7, <2>8, <2>9, <2>10, <2>11
<1>6. T \in SUBSET (0 .. n)
  OBVIOUS
<1>. HIDE DEF T
<1>7. \A i \in 0 .. n : i \in T
  BY <1>4, <1>5, <1>6, IntervalInduct
<1>8. n \in T
  BY <1>7
<1>9. Good(u, p, R, X) /\ Alters(u, v, {"patterns"}, {"pats"}, {}) /\ Left(u, n) /\ Others(u)
  BY <1>3, <1>8 DEF T
<1>10. u.c[c].pats = <<>>
  <2>1. \A m : m \notin ToSet(u.c[c].pats)
    <3>1. ASSUME NEW m \in ToSet(u.c[c].pats) PROVE FALSE
      <4>1. PICK j \in (n + 1) .. n : q[j] = m
        BY <1>9, <3>1
      <4>2. QED
        BY <4>1
    <3>2. QED
      BY <3>1
  <2>2. u.c[c].pats \in Seq(SUBSET Channels)
    BY <1>9 DEF Good, Patterns
  <2>3. QED
    BY <2>1, <2>2, SetOfSeq, SMTT(30)
<1>11. QED
  BY <1>9, <1>10

\* The commands.
LEMMA LeavePubSubGood ==
  ASSUME NEW v, NEW p, NEW R, NEW X, Good(v, p, R, X), NEW c \in Clients, NEW u, u = LeavePubSub(v, c)
  PROVE  Good(u, p, R, X) /\ Stays(u, v, c) /\ Same(u, v)
<1>1. CASE SubscriptionsCount(v, c) = 0
  <2>1. PICK E : E = {"pubsub"} /\ E \subseteq {"dirty_exec", "pubsub", "unblocked"}
    OBVIOUS
  <2>2. u = Clear(v, c, E)
    BY <1>1, <2>1 DEF LeavePubSub
  <2>3. QED
    BY <2>1, <2>2, ClearStays
<1>2. CASE SubscriptionsCount(v, c) # 0
  BY <1>2, StaysSame, SameSelf DEF LeavePubSub
<1>3. QED
  BY <1>1, <1>2

LEMMA SubscribedGood ==
  ASSUME NEW v, NEW p, NEW R, NEW X, Good(v, p, R, X), NEW c \in Clients, v.c[c].up,
         NEW w, Good(w, p, R, X), Stays(w, v, c) /\ Same(w, v), NEW t, NEW u, u = Raise(Reply(w, c, t), c, "pubsub")
  PROVE  Good(u, p, R, X) /\ Stays(u, v, c) /\ Same(u, v)
<1>1. PICK r : r = Reply(w, c, t)
  OBVIOUS
<1>2. Good(r, p, R, X) /\ Stays(r, w, c) /\ Same(r, w)
  BY <1>1, ReplyStays
<1>3. Stays(r, v, c) /\ Same(r, v)
  BY <1>2, StaysTrans, SameTrans
<1>4. r.c[c].up
  BY <1>3 DEF Stays
<1>5. Good(u, p, R, X) /\ Stays(u, r, c) /\ Same(u, r)
  BY <1>1, <1>2, <1>4, RaiseStays DEF Plain
<1>6. QED
  BY <1>3, <1>5, StaysTrans, SameTrans
LEMMA UnsubscribedGood ==
  ASSUME NEW v, NEW p, NEW R, NEW X, NEW c \in Clients, NEW w, Good(w, p, R, X), Stays(w, v, c) /\ Same(w, v), NEW t,
         NEW u, u = LeavePubSub(Reply(w, c, t), c)
  PROVE  Good(u, p, R, X) /\ Stays(u, v, c) /\ Same(u, v)
<1>1. PICK r : r = Reply(w, c, t)
  OBVIOUS
<1>2. Good(r, p, R, X) /\ Stays(r, w, c) /\ Same(r, w)
  BY <1>1, ReplyStays
<1>3. Good(u, p, R, X) /\ Stays(u, r, c) /\ Same(u, r)
  BY <1>1, <1>2, LeavePubSubGood
<1>4. Stays(u, w, c) /\ Same(u, w)
  BY <1>2, <1>3, StaysTrans, SameTrans
<1>5. QED
  BY <1>3, <1>4, StaysTrans, SameTrans

LEMMA PubSubCommandsGood ==
  ASSUME NEW v, NEW p, NEW R, NEW X, Good(v, p, R, X), NEW c \in Clients, v.c[c].up
  PROVE  /\ \A ch \in Channels : /\ Good(SubscribeCommand(v, c, ch), p, R, X) /\ Rests(SubscribeCommand(v, c, ch), v, c)
                                 /\ Good(UnsubscribeCommand(v, c, ch), p, R, X) /\ Rests(UnsubscribeCommand(v, c, ch), v, c)
         /\ \A m \in SUBSET Channels :
              /\ Good(PsubscribeCommand(v, c, m), p, R, X) /\ Rests(PsubscribeCommand(v, c, m), v, c)
              /\ Good(PunsubscribeCommand(v, c, m), p, R, X) /\ Rests(PunsubscribeCommand(v, c, m), v, c)
<1>1. ASSUME NEW ch \in Channels
      PROVE  Good(SubscribeCommand(v, c, ch), p, R, X) /\ Rests(SubscribeCommand(v, c, ch), v, c)
  <2>1. PICK w : w = SubscribeChannel(v, c, ch)
    OBVIOUS
  <2>2. Good(w, p, R, X) /\ Stays(w, v, c) /\ Same(w, v)
    BY <2>1, SubscribeChannelGood
  <2>3. SubscribeCommand(v, c, ch) = Raise(Reply(w, c, "subscribe"), c, "pubsub")
    BY <2>1 DEF SubscribeCommand
  <2>4. QED
    BY <2>2, <2>3, SubscribedGood DEF Rests
<1>2. ASSUME NEW ch \in Channels
      PROVE  Good(UnsubscribeCommand(v, c, ch), p, R, X) /\ Rests(UnsubscribeCommand(v, c, ch), v, c)
  <2>1. PICK w : w = UnsubscribeChannel(v, c, ch)
    OBVIOUS
  <2>2. Good(w, p, R, X) /\ Stays(w, v, c) /\ Same(w, v)
    BY <2>1, UnsubscribeChannelGood
  <2>3. UnsubscribeCommand(v, c, ch) = LeavePubSub(Reply(w, c, "unsubscribe"), c)
    BY <2>1 DEF UnsubscribeCommand
  <2>4. QED
    BY <2>2, <2>3, UnsubscribedGood DEF Rests
<1>3. ASSUME NEW m \in SUBSET Channels
      PROVE  Good(PsubscribeCommand(v, c, m), p, R, X) /\ Rests(PsubscribeCommand(v, c, m), v, c)
  <2>1. PICK w : w = SubscribePattern(v, c, m)
    OBVIOUS
  <2>2. Good(w, p, R, X) /\ Stays(w, v, c) /\ Same(w, v)
    BY <2>1, SubscribePatternGood
  <2>3. PsubscribeCommand(v, c, m) = Raise(Reply(w, c, "psubscribe"), c, "pubsub")
    BY <2>1 DEF PsubscribeCommand
  <2>4. QED
    BY <2>2, <2>3, SubscribedGood DEF Rests
<1>4. ASSUME NEW m \in SUBSET Channels
      PROVE  Good(PunsubscribeCommand(v, c, m), p, R, X) /\ Rests(PunsubscribeCommand(v, c, m), v, c)
  <2>1. PICK w : w = UnsubscribePattern(v, c, m)
    OBVIOUS
  <2>2. Good(w, p, R, X) /\ Alters(w, v, {"patterns"}, {"pats"}, {})
    BY <2>1, UnsubscribePatternGood
  <2>3. Stays(w, v, c) /\ Same(w, v)
    BY <2>2, AltersStays, AltersSame
  <2>4. PunsubscribeCommand(v, c, m) = LeavePubSub(Reply(w, c, "punsubscribe"), c)
    BY <2>1 DEF PunsubscribeCommand
  <2>5. QED
    BY <2>2, <2>3, <2>4, UnsubscribedGood DEF Rests
<1>5. QED
  BY <1>1, <1>2, <1>3, <1>4

\* PUBLISH: those who listen to the channel, and then to a pattern.
Heard(v, ch) == ForEach(v, v.channels[ch], LAMBDA u, c : Reply(u, c, "message"))
Told(w, v, ch) == ForEach(w, v.patterns, LAMBDA u, p : IF ch \in p[2] THEN Reply(u, p[1], "pmessage") ELSE u)
\* The loops of pubsubPublishMessage only send answers.
LEMMA HeardSteps ==
  ASSUME NEW v, NEW ch, NEW q, q = v.channels[ch], Len(q) \in Nat
  PROVE  \E f : /\ f[0] = v /\ Heard(v, ch) = f[Len(q)]
                /\ \A i \in 1 .. Len(q) : f[i] = Step("message", None, None, f[i - 1], q[i])
<1>1. \A u, x : Step("message", None, None, u, x) = Reply(u, x, "message")
  BY DEF Step
<1>2. PICK g : Runs(g, "message", None, None, v, Len(q), q)
  BY StepsExist
<1>3. g = [i \in 0 .. Len(q) |-> IF i = 0 THEN v ELSE Reply(g[i - 1], q[i], "message")]
  BY <1>1, <1>2, Zenon DEF Runs
<1>. DEFINE h == CHOOSE h : h = [i \in 0 .. Len(q) |-> IF i = 0 THEN v ELSE Reply(h[i - 1], q[i], "message")]
<1>4. h = [i \in 0 .. Len(q) |-> IF i = 0 THEN v ELSE Reply(h[i - 1], q[i], "message")]
  BY <1>3, Zenon
<1>5. Heard(v, ch) = h[Len(q)]
  BY Zenon DEF Heard, ForEach
<1>. HIDE DEF h
<1>6. h[0] = v /\ \A i \in 1 .. Len(q) : h[i] = Reply(h[i - 1], q[i], "message")
  <2>1. 0 \in 0 .. Len(q) /\ \A i \in 1 .. Len(q) : i \in 0 .. Len(q) /\ i # 0
    BY Upto
  <2>2. QED
    BY <1>4, <2>1, Zenon
<1>7. \A i \in 1 .. Len(q) : h[i] = Step("message", None, None, h[i - 1], q[i])
  BY <1>1, <1>6
<1>8. QED
  BY <1>5, <1>6, <1>7

LEMMA ToldSteps ==
  ASSUME NEW v, NEW w, NEW ch, NEW q, q = v.patterns, Len(q) \in Nat
  PROVE  \E f : /\ f[0] = w /\ Told(w, v, ch) = f[Len(q)]
                /\ \A i \in 1 .. Len(q) : f[i] = Step("pmessage", ch, None, f[i - 1], q[i])
<1>1. \A u, x : Step("pmessage", ch, None, u, x) = TellOne(u, ch, x)
  BY DEF Step
<1>2. PICK g : Runs(g, "pmessage", ch, None, w, Len(q), q)
  BY StepsExist
<1>3. g = [i \in 0 .. Len(q) |-> IF i = 0 THEN w ELSE TellOne(g[i - 1], ch, q[i])]
  BY <1>1, <1>2, Zenon DEF Runs
<1>. DEFINE h == CHOOSE h : h = [i \in 0 .. Len(q) |-> IF i = 0 THEN w ELSE TellOne(h[i - 1], ch, q[i])]
<1>4. h = [i \in 0 .. Len(q) |-> IF i = 0 THEN w ELSE TellOne(h[i - 1], ch, q[i])]
  BY <1>3, Zenon
<1>5. Told(w, v, ch) = h[Len(q)]
  BY Zenon DEF Told, ForEach, TellOne
<1>. HIDE DEF h
<1>6. h[0] = w /\ \A i \in 1 .. Len(q) : h[i] = TellOne(h[i - 1], ch, q[i])
  <2>1. 0 \in 0 .. Len(q) /\ \A i \in 1 .. Len(q) : i \in 0 .. Len(q) /\ i # 0
    BY Upto
  <2>2. QED
    BY <1>4, <2>1, Zenon
<1>7. \A i \in 1 .. Len(q) : h[i] = Step("pmessage", ch, None, h[i - 1], q[i])
  BY <1>1, <1>6
<1>8. QED
  BY <1>5, <1>6, <1>7

LEMMA HeardGood ==
  ASSUME NEW v, NEW p, NEW R, NEW X, Good(v, p, R, X), NEW ch \in Channels, NEW u, u = Heard(v, ch)
  PROVE  Good(u, p, R, X) /\ Replied(u, v)
<1>1. PICK q \in Seq(Clients) : q = v.channels[ch]
  BY DEF Good, Listens
<1>2. PICK n \in Nat : n = Len(q) /\ DOMAIN q = 1 .. n /\ \A i \in 1 .. n : q[i] \in Clients
  BY LenProperties
<1>3. PICK f : /\ f[0] = v /\ u = f[n] /\ \A i \in 1 .. n : f[i] = Step("message", None, None, f[i - 1], q[i])
  BY <1>1, <1>2, HeardSteps
<1>4. PICK F, G, L : \A a, b : Replied(a, b) <=> Alters(a, b, F, G, L)
  BY DEF Replied
<1>5. ASSUME NEW i \in 1 .. n, Good(f[i - 1], p, R, X)
      PROVE  Good(f[i], p, R, X) /\ Alters(f[i], f[i - 1], F, G, L)
  <2>1. f[i] = Reply(f[i - 1], q[i], "message")
    BY <1>3 DEF Step
  <2>2. QED
    BY <1>2, <1>4, <1>5, <2>1, ReplyGood
<1>6. Good(f[n], p, R, X) /\ Alters(f[n], f[0], F, G, L)
  BY <1>3, <1>5, Repeats
<1>7. QED
  BY <1>3, <1>4, <1>6
LEMMA ToldGood ==
  ASSUME NEW v, NEW p, NEW R, NEW X, Good(v, p, R, X), NEW w, Good(w, p, R, X), NEW ch \in Channels, NEW u, u = Told(w, v, ch)
  PROVE  Good(u, p, R, X) /\ Replied(u, w)
<1>1. PICK q \in Seq(Clients \X SUBSET Channels) : q = v.patterns
  BY DEF Good, Patterns
<1>2. PICK n \in Nat : n = Len(q) /\ DOMAIN q = 1 .. n /\ \A i \in 1 .. n : q[i] \in Clients \X SUBSET Channels
  BY LenProperties
<1>3. PICK f : /\ f[0] = w /\ u = f[n] /\ \A i \in 1 .. n : f[i] = Step("pmessage", ch, None, f[i - 1], q[i])
  BY <1>1, <1>2, ToldSteps
<1>4. PICK F, G, L : \A a, b : Replied(a, b) <=> Alters(a, b, F, G, L)
  BY DEF Replied
<1>5. ASSUME NEW i \in 1 .. n, Good(f[i - 1], p, R, X)
      PROVE  Good(f[i], p, R, X) /\ Alters(f[i], f[i - 1], F, G, L)
  <2>1. f[i] = TellOne(f[i - 1], ch, q[i])
    BY <1>3 DEF Step
  <2>2. q[i][1] \in Clients
    BY <1>2
  <2>3. CASE ch \in q[i][2]
    <3>1. f[i] = Reply(f[i - 1], q[i][1], "pmessage")
      BY <2>1, <2>3 DEF TellOne
    <3>2. QED
      BY <1>4, <1>5, <2>2, <3>1, ReplyGood
  <2>4. CASE ch \notin q[i][2]
    <3>1. f[i] = f[i - 1]
      BY <2>1, <2>4 DEF TellOne
    <3>2. QED
      BY <1>5, <3>1, AltersNot DEF Good
  <2>5. QED
    BY <2>3, <2>4
<1>6. Good(f[n], p, R, X) /\ Alters(f[n], f[0], F, G, L)
  BY <1>3, <1>5, Repeats
<1>7. QED
  BY <1>3, <1>4, <1>6

\* Both of them.
LEMMA PublishCommandGood ==
  ASSUME NEW v, NEW p, NEW R, NEW X, Good(v, p, R, X), NEW c \in Clients, NEW ch \in Channels, NEW u, u = PublishCommand(v, c, ch)
  PROVE  Good(u, p, R, X) /\ Stays(u, v, c) /\ Same(u, v)
<1>1. PICK a : a = Heard(v, ch)
  OBVIOUS
<1>2. PICK b : b = Told(a, v, ch)
  OBVIOUS
<1>3. u = Reply(b, c, "int")
  <2>1. PublishMessage(v, ch) = Told(Heard(v, ch), v, ch)
    BY DEF PublishMessage, Heard, Told
  <2>2. QED
    BY <1>1, <1>2, <2>1 DEF PublishCommand
<1>4. Good(a, p, R, X) /\ Alters(a, v, {"toclose"}, {"out"}, {"close_asap"})
  BY <1>1, HeardGood DEF Replied
<1>5. Good(b, p, R, X) /\ Alters(b, a, {"toclose"}, {"out"}, {"close_asap"})
  BY <1>2, <1>4, ToldGood DEF Replied
<1>6. Stays(a, v, c) /\ Same(a, v) /\ Stays(b, a, c) /\ Same(b, a)
  BY <1>4, <1>5, AltersStays, AltersSame
<1>7. Good(u, p, R, X) /\ Stays(u, b, c) /\ Same(u, b)
  BY <1>3, <1>5, ReplyStays
<1>8. QED
  BY <1>6, <1>7, StaysTrans, SameTrans

-----------------------------------------------------------------------------
(* Clients go. *)

\* The last of freeClient.
Ended(u, c) ==
    [u EXCEPT !.c[c] = [@ EXCEPT !.up = FALSE, !.in = <<>>, !.flags = {}, !.queue = <<>>],
              !.clients = Without(@, c), !.toclose = Without(@, c),
              !.unblocked = IF Has(u, c, "unblocked") THEN Without(@, c) ELSE @]
Freed(u, v, c) ==
    /\ ~u.c[c].up /\ u.c[c].flags = {} /\ \A x \in Clients : x # c => u.c[x] = v.c[x]
    /\ u.clients = Without(v.clients, c) /\ u.toclose = Without(v.toclose, c) /\ u.ready = v.ready
    /\ u.db = v.db /\ u.copy = v.copy /\ u.slave = v.slave
Unlinked(v, c) == v.c[c].keys = {} /\ v.c[c].watched = <<>> /\ v.c[c].subs = {} /\ v.c[c].pats = <<>>

\* What is left of a client that has been unlinked: nothing.
LEMMA EndedIs ==
  ASSUME NEW v, Shape(v), NEW c \in Clients, NEW u, u = Ended(v, c)
  PROVE  /\ Freed(u, v, c) /\ u.c[c].in = <<>> /\ u.c[c].queue = <<>>
         /\ Alters(u, v, {"clients", "toclose", "unblocked"}, {"up", "in", "queue"}, v.c[c].flags)
         /\ u.unblocked \in {v.unblocked, Without(v.unblocked, c)}
<1>1. PICK r : r = [v.c[c] EXCEPT !.up = FALSE, !.in = <<>>, !.flags = {}, !.queue = <<>>]
  OBVIOUS
<1>2. /\ DOMAIN r = CFields /\ r.up = FALSE /\ r.in = <<>> /\ r.flags = {} /\ r.queue = <<>>
  BY <1>1, Zenon DEF Shape, CFields
<1>3. \A g \in CFields \ {"up", "in", "queue", "flags"} : r[g] = v.c[c][g]
  BY <1>1, Zenon DEF Shape, CFields
<1>4. PICK w : w = [v EXCEPT !.c[c] = r]
  OBVIOUS
<1>5. /\ DOMAIN w = Fields /\ DOMAIN w.c = Clients /\ w.c[c] = r /\ \A x \in Clients : x # c => w.c[x] = v.c[x]
      /\ \A f \in Fields \ {"c"} : w[f] = v[f]
  BY <1>4, Zenon DEF Shape, Fields
<1>6. PICK A, B, C : /\ A = Without(v.clients, c) /\ B = Without(v.toclose, c)
                     /\ C = IF Has(v, c, "unblocked") THEN Without(v.unblocked, c) ELSE v.unblocked
  OBVIOUS
<1>7. w.clients = v.clients /\ w.toclose = v.toclose /\ w.unblocked = v.unblocked
  BY <1>5, Zenon DEF Fields
<1>8. u = [w EXCEPT !.clients = A, !.toclose = B, !.unblocked = C]
  <2>1. u = [w EXCEPT !.clients = Without(@, c), !.toclose = Without(@, c),
                      !.unblocked = IF Has(v, c, "unblocked") THEN Without(@, c) ELSE @]
    BY <1>1, <1>4 DEF Ended
  <2>2. [w EXCEPT !.clients = Without(@, c)] = [w EXCEPT !.clients = A]
    BY <1>6, <1>7
  <2>3. PICK y : y = [w EXCEPT !.clients = A]
    OBVIOUS
  <2>4. y.toclose = v.toclose /\ DOMAIN y = Fields /\ y.unblocked = v.unblocked
    BY <1>5, <1>7, <2>3, Zenon DEF Fields
  <2>5. PICK z : z = [y EXCEPT !.toclose = B]
    OBVIOUS
  <2>6. z.unblocked = v.unblocked
    BY <2>4, <2>5, Zenon DEF Fields
  <2>7. [y EXCEPT !.toclose = Without(@, c)] = z
    BY <1>6, <2>4, <2>5
  <2>8. u = [z EXCEPT !.unblocked = IF Has(v, c, "unblocked") THEN Without(@, c) ELSE @]
    BY <2>1, <2>2, <2>3, <2>7
  <2>9. u = [z EXCEPT !.unblocked = C]
    BY <1>6, <2>6, <2>8
  <2>10. QED
    BY <2>3, <2>5, <2>9
<1>9. /\ DOMAIN u = Fields /\ u.c = w.c /\ u.clients = A /\ u.toclose = B /\ u.unblocked = C
      /\ u.ready = w.ready /\ u.db = w.db /\ u.copy = w.copy /\ u.slave = w.slave
  BY <1>5, <1>8, Zenon DEF Fields
<1>10. \A f \in Fields \ {"clients", "toclose", "unblocked", "c"} : u[f] = w[f]
  BY <1>5, <1>8, Zenon DEF Fields
<1>11. w.ready = v.ready /\ w.db = v.db /\ w.copy = v.copy /\ w.slave = v.slave
  BY <1>5, Zenon DEF Fields
<1>12. Freed(u, v, c)
  BY <1>2, <1>5, <1>6, <1>9, <1>11 DEF Freed
<1>13. Shape(u)
  BY <1>2, <1>5, <1>9 DEF Shape
<1>14. \A f \in Fields \ ({"clients", "toclose", "unblocked"} \cup {"c"}) : u[f] = v[f]
  BY <1>5, <1>10
<1>15. \A x \in Clients : \A g \in CFields \ ({"up", "in", "queue"} \cup {"flags"}) : u.c[x][g] = v.c[x][g]
  BY <1>3, <1>5, <1>9
<1>16. \A x \in Clients : \A f : f \notin v.c[c].flags => (f \in u.c[x].flags <=> f \in v.c[x].flags)
  BY <1>2, <1>5, <1>9
<1>17. Alters(u, v, {"clients", "toclose", "unblocked"}, {"up", "in", "queue"}, v.c[c].flags)
  BY <1>13, <1>14, <1>15, <1>16 DEF Alters
<1>18. QED
  BY <1>2, <1>5, <1>6, <1>9, <1>12, <1>17

LEMMA EndedGood ==
  ASSUME NEW v, NEW p, NEW R, NEW X, Good(v, p, R, X), NEW c \in Clients, Unlinked(v, c), NEW u, u = Ended(v, c)
  PROVE  Good(u, p, R, X)
<1>1. PICK F, G, L : /\ F = {"clients", "toclose", "unblocked"} /\ G = {"up", "in", "queue"} /\ L = v.c[c].flags
  OBVIOUS
<1>2. Freed(u, v, c) /\ u.c[c].in = <<>> /\ u.c[c].queue = <<>> /\ u.unblocked \in {v.unblocked, Without(v.unblocked, c)}
  BY EndedIs DEF Good
<1>3. Alters(u, v, F, G, L)
  BY <1>1, EndedIs DEF Good
<1>4. Shape(u) /\ Watches(u) /\ Listens(u) /\ Patterns(u) /\ Serves(u, R)
  BY <1>1, <1>3, Keeps
<1>5. /\ u.waiting = v.waiting /\ u.db = v.db /\ u.ready = v.ready
      /\ \A x \in Clients : /\ u.c[x].watched = v.c[x].watched /\ u.c[x].subs = v.c[x].subs /\ u.c[x].pats = v.c[x].pats
                            /\ u.c[x].keys = v.c[x].keys /\ u.c[x].target = v.c[x].target /\ u.c[x].head = v.c[x].head
  <2>1. /\ "waiting" \in Fields \ (F \cup {"c"}) /\ "db" \in Fields \ (F \cup {"c"}) /\ "ready" \in Fields \ (F \cup {"c"})
        /\ {"watched", "subs", "pats", "keys", "target", "head"} \subseteq CFields \ (G \cup {"flags"})
    BY <1>1 DEF Fields, CFields
  <2>2. QED
    BY <1>3, <2>1, Zenon DEF Alters
<1>6. /\ ~u.c[c].up /\ u.c[c].flags = {} /\ \A x \in Clients : x # c => u.c[x] = v.c[x]
  BY <1>2 DEF Freed
<1>7. Ups(u)
  <2>1. PICK q \in Seq(Clients) : q = v.clients /\ Once(q) /\ \A x \in Clients : v.c[x].up <=> x \in ToSet(q)
    BY DEF Good, Ups
  <2>2. PICK l : l = u.clients
    OBVIOUS
  <2>3. l \in Seq(Clients) /\ Once(l) /\ ToSet(l) = ToSet(q) \ {c}
    BY <1>2, <2>1, <2>2, WithoutIs DEF Freed
  <2>4. \A x \in Clients : u.c[x].up <=> x \in ToSet(l)
    BY <1>6, <2>1, <2>3
  <2>5. QED
    BY <2>2, <2>3, <2>4 DEF Ups
<1>8. NoFlags(u)
  BY <1>6 DEF Good, NoFlags
<1>9. NoLinks(u)
  BY <1>5, <1>6 DEF Good, NoLinks, Unlinked
<1>10. Waits(u)
  <2>1. \A x \in Clients : u.c[x].keys # {} => "blocked" \in u.c[x].flags
    BY <1>5, <1>6 DEF Good, Waits, Unlinked
  <2>2. QED
    BY <1>5, <2>1, Zenon DEF Good, Waits
<1>11. Closes(u)
  <2>1. PICK q \in Seq(Clients) : /\ q = v.toclose /\ Once(q)
                                  /\ \A x \in Clients : x \in ToSet(q) <=> "close_asap" \in v.c[x].flags
    BY DEF Good, Closes
  <2>2. PICK l : l = u.toclose
    OBVIOUS
  <2>3. l \in Seq(Clients) /\ Once(l) /\ ToSet(l) = ToSet(q) \ {c}
    BY <1>2, <2>1, <2>2, WithoutIs DEF Freed
  <2>4. \A x \in Clients : x \in ToSet(l) <=> "close_asap" \in u.c[x].flags
    BY <1>6, <2>1, <2>3
  <2>5. QED
    BY <2>2, <2>3, <2>4 DEF Closes
<1>12. Unblocks(u)
  <2>1. PICK q \in Seq(Clients) : q = v.unblocked /\ \A x \in Clients : "unblocked" \in v.c[x].flags => x \in ToSet(q)
    BY DEF Good, Unblocks
  <2>2. PICK l : l = u.unblocked
    OBVIOUS
  <2>3. l \in Seq(Clients) /\ ToSet(q) \ {c} \subseteq ToSet(l)
    BY <1>2, <2>1, <2>2, WithoutIs
  <2>4. \A x \in Clients : "unblocked" \in u.c[x].flags => x \in ToSet(l)
    BY <1>6, <2>1, <2>3
  <2>5. QED
    BY <2>2, <2>3, <2>4 DEF Unblocks
<1>13. Sent(u, p)
  <2>1. ToSet(<<>>) = {} /\ \A S : <<>> \in Seq(S)
    BY DEF ToSet
  <2>2. QED
    BY <1>2, <1>6, <2>1 DEF Good, Sent
<1>14. Sees(u, R, X)
  <2>1. u.c[c].watched = <<>>
    BY <1>5 DEF Unlinked
  <2>2. \A x \in Clients : x # c => u.c[x].watched = v.c[x].watched /\ u.c[x].seen = v.c[x].seen
                                     /\ (Dirty(v, x) => Dirty(u, x))
    BY <1>6 DEF Dirty
  <2>3. QED
    BY <1>5, <2>1, <2>2, SeesOthers DEF Good
<1>15. QED
  BY <1>4, <1>7, <1>8, <1>9, <1>10, <1>11, <1>12, <1>13, <1>14 DEF Good

\* freeClient unlinks the client from every list it is in.
LEMMA FreeClientGood ==
  ASSUME NEW v, NEW p, NEW R, NEW X, Good(v, p, R, X), NEW c \in Clients, v.c[c].up, NEW u, u = FreeClient(v, c)
  PROVE  Good(u, p, R, X) /\ Freed(u, v, c)
<1>1. PICK t : t = IF Has(v, c, "blocked") THEN UnblockClient(v, c) ELSE v
  OBVIOUS
<1>2. PICK a : a = UnwatchAllKeys(t, c)
  OBVIOUS
<1>3. PICK b : b = UnsubscribeAllChannels(a, c)
  OBVIOUS
<1>4. PICK d : d = UnsubscribeAllPatterns(b, c)
  OBVIOUS
<1>5. u = Ended(d, c)
  BY <1>1, <1>2, <1>3, <1>4 DEF FreeClient, UnsubscribeAll, Ended
<1>6. /\ Good(t, p, R, X) /\ Alters(t, v, {"waiting", "unblocked"}, {"keys", "target"}, {"blocked", "unblocked"})
      /\ t.c[c].keys = {} /\ \A x \in Clients : x # c => t.c[x] = v.c[x]
  <2>1. CASE Has(v, c, "blocked")
    BY <1>1, <2>1, UnblockClientGood DEF WaitsNot
  <2>2. CASE ~Has(v, c, "blocked")
    <3>1. t = v
      BY <1>1, <2>2
    <3>2. t.c[c].keys = {}
      BY <2>2, <3>1 DEF Good, Waits, Has
    <3>3. QED
      BY <3>1, <3>2, AltersNot DEF Good
  <2>3. QED
    BY <2>1, <2>2
<1>7. /\ Good(a, p, R, X) /\ Alters(a, t, {"watchers"}, {"watched", "seen"}, {})
      /\ a.c[c].watched = <<>> /\ \A x \in Clients : x # c => a.c[x] = t.c[x]
  BY <1>2, <1>6, UnwatchAllKeysGood
<1>8. /\ Good(b, p, R, X) /\ Alters(b, a, {"channels"}, {"subs"}, {}) /\ b.c[c].subs = {}
      /\ \A x \in Clients : x # c => b.c[x] = a.c[x]
  BY <1>3, <1>7, UnsubscribeAllChannelsGood
<1>9. /\ Good(d, p, R, X) /\ Alters(d, b, {"patterns"}, {"pats"}, {}) /\ d.c[c].pats = <<>>
      /\ \A x \in Clients : x # c => d.c[x] = b.c[x]
  BY <1>4, <1>8, UnsubscribeAllPatternsGood
<1>10. /\ a.c[c].keys = {} /\ b.c[c].keys = a.c[c].keys /\ b.c[c].watched = a.c[c].watched
       /\ d.c[c].keys = b.c[c].keys /\ d.c[c].watched = b.c[c].watched /\ d.c[c].subs = b.c[c].subs
  <2>1. a.c[c].keys = t.c[c].keys
    BY <1>7, Zenon DEF Alters, CFields
  <2>2. b.c[c].keys = a.c[c].keys /\ b.c[c].watched = a.c[c].watched
    BY <1>8, ZenonT(60) DEF Alters, CFields
  <2>3. d.c[c].keys = b.c[c].keys /\ d.c[c].watched = b.c[c].watched /\ d.c[c].subs = b.c[c].subs
    BY <1>9, Zenon DEF Alters, CFields
  <2>4. QED
    BY <1>6, <2>1, <2>2, <2>3
<1>11. Unlinked(d, c)
  BY <1>7, <1>8, <1>9, <1>10 DEF Unlinked
<1>12. Good(u, p, R, X)
  BY <1>5, <1>9, <1>11, EndedGood
<1>13. /\ d.clients = v.clients /\ d.toclose = v.toclose /\ d.ready = v.ready
       /\ d.db = v.db /\ d.copy = v.copy /\ d.slave = v.slave
  <2>1. /\ t.clients = v.clients /\ t.toclose = v.toclose /\ t.ready = v.ready
        /\ t.db = v.db /\ t.copy = v.copy /\ t.slave = v.slave
    BY <1>6, Zenon DEF Alters, Fields
  <2>2. /\ a.clients = t.clients /\ a.toclose = t.toclose /\ a.ready = t.ready
        /\ a.db = t.db /\ a.copy = t.copy /\ a.slave = t.slave
    BY <1>7, Zenon DEF Alters, Fields
  <2>3. /\ b.clients = a.clients /\ b.toclose = a.toclose /\ b.ready = a.ready
        /\ b.db = a.db /\ b.copy = a.copy /\ b.slave = a.slave
    BY <1>8, Zenon DEF Alters, Fields
  <2>4. /\ d.clients = b.clients /\ d.toclose = b.toclose /\ d.ready = b.ready
        /\ d.db = b.db /\ d.copy = b.copy /\ d.slave = b.slave
    BY <1>9, Zenon DEF Alters, Fields
  <2>5. QED
    BY <2>1, <2>2, <2>3, <2>4
<1>14. Freed(u, d, c)
  BY <1>5, <1>9, EndedIs DEF Good
<1>15. \A x \in Clients : x # c => d.c[x] = v.c[x]
  BY <1>6, <1>7, <1>8, <1>9
<1>16. Freed(u, v, c)
  BY <1>13, <1>14, <1>15 DEF Freed
<1>17. QED
  BY <1>12, <1>16

\* A client that goes takes nothing with it.
LEMMA FreedSame == ASSUME NEW u, NEW v, NEW c, Freed(u, v, c) PROVE Same(u, v)
BY DEF Freed, Same, Wrote

\* Clients that are freed one after the other, those in D.
Frees(f, v, q, D) ==
    /\ f[0] = v
    /\ \A i \in 1 .. Len(q) : f[i - 1].c[q[i]] = v.c[q[i]]
                                => f[i] = IF q[i] \in D THEN FreeClient(f[i - 1], q[i]) ELSE f[i - 1]
LEMMA FreesGood ==
  ASSUME NEW v, NEW p, NEW R, NEW X, Good(v, p, R, X), NEW q \in Seq(Clients), Once(q), \A x \in ToSet(q) : v.c[x].up,
         NEW D, NEW f, Frees(f, v, q, D)
  PROVE  /\ Good(f[Len(q)], p, R, X) /\ f[Len(q)].ready = v.ready /\ Same(f[Len(q)], v)
         /\ \A x \in ToSet(q) : x \in D => f[Len(q)].c[x].flags = {}
         /\ \A x \in Clients : (f[Len(q)].c[x].up => v.c[x].up) /\ (x \notin D => f[Len(q)].c[x] = v.c[x])
<1>1. PICK n \in Nat : n = Len(q) /\ DOMAIN q = 1 .. n /\ \A i \in 1 .. n : q[i] \in Clients /\ q[i] \in ToSet(q)
  <2>1. Len(q) \in Nat /\ DOMAIN q = 1 .. Len(q) /\ \A i \in 1 .. Len(q) : q[i] \in ToSet(q)
    BY SetOfSeq
  <2>2. \A i \in 1 .. Len(q) : q[i] \in Clients
    BY LenProperties
  <2>3. QED
    BY <2>1, <2>2
<1>. DEFINE Left(w, i) == \A j \in 1 .. n : i < j => w.c[q[j]] = v.c[q[j]]
            Fall(w) == \A x \in Clients : (w.c[x].up => v.c[x].up) /\ (x \notin D => w.c[x] = v.c[x])
            Gone(w, i) == \A j \in 1 .. n : j <= i /\ q[j] \in D => w.c[q[j]].flags = {}
            Ok(w, i) == /\ Good(w, p, R, X) /\ w.ready = v.ready /\ Same(w, v)
                        /\ Left(w, i) /\ Gone(w, i) /\ Fall(w)
            T == {i \in 0 .. n : Ok(f[i], i)}
<1>2. 0 \in T
  BY DEF Frees, Same, Wrote
<1>3. \A i \in T : i < n => i + 1 \in T
  <2>1. SUFFICES ASSUME NEW i \in T, i < n PROVE i + 1 \in T
    OBVIOUS
  <2>2. PICK j \in 1 .. n : j = i + 1 /\ j - 1 = i /\ i \in 0 .. n
    BY <2>1
  <2>3. PICK w : w = f[i]
    OBVIOUS
  <2>4. Ok(w, i)
    BY <2>3
  <2>5. PICK c \in Clients : c = q[j] /\ v.c[c].up
    BY <1>1
  <2>6. w.c[c] = v.c[c]
    <3>1. i < j
      BY <2>2
    <3>2. QED
      BY <2>4, <2>5, <3>1
  <2>7. PICK z : z = f[j]
    OBVIOUS
  <2>8. z = IF c \in D THEN FreeClient(w, c) ELSE w
    <3>1. f[j - 1].c[q[j]] = v.c[q[j]]
      BY <2>2, <2>3, <2>5, <2>6
    <3>2. QED
      BY <1>1, <2>2, <2>3, <2>5, <2>7, <3>1 DEF Frees
  <2>9. \A h \in 1 .. n : j < h => i < h /\ q[h] # c /\ q[h] \in Clients
    BY <1>1, <2>2, <2>5 DEF Once
  <2>13. \A h \in 1 .. n : h <= j => h = j \/ (h <= i /\ q[h] # c /\ q[h] \in Clients)
    BY <1>1, <2>2, <2>5 DEF Once
  <2>10. CASE c \notin D
    <3>0. z = w
      BY <2>8, <2>10
    <3>1. Left(z, j)
      BY <2>4, <2>9, <3>0
    <3>4. Gone(z, j)
      BY <2>4, <2>5, <2>10, <2>13, <3>0
    <3>2. Good(z, p, R, X) /\ z.ready = v.ready /\ Same(z, v) /\ Fall(z)
      BY <2>4, <3>0
    <3>3. QED
      BY <2>2, <2>7, <3>1, <3>2, <3>4
  <2>11. CASE c \in D
    <3>0. z = FreeClient(w, c)
      BY <2>8, <2>11
    <3>1. Good(z, p, R, X) /\ Freed(z, w, c)
      BY <2>4, <2>5, <2>6, <3>0, FreeClientGood
    <3>2. Left(z, j)
      BY <2>4, <2>9, <3>1 DEF Freed
    <3>3. Fall(z)
      BY <2>4, <2>11, <3>1 DEF Freed
    <3>4. z.ready = v.ready
      BY <2>4, <3>1 DEF Freed
    <3>6. Same(z, v)
      BY <2>4, <3>1, FreedSame, SameTrans
    <3>7. ASSUME NEW h \in 1 .. n, h <= j, q[h] \in D PROVE z.c[q[h]].flags = {}
      <4>1. CASE h = j
        BY <2>5, <3>1, <4>1 DEF Freed
      <4>2. CASE h <= i /\ q[h] # c /\ q[h] \in Clients
        <5>1. w.c[q[h]].flags = {}
          BY <2>4, <3>7, <4>2
        <5>2. z.c[q[h]] = w.c[q[h]]
          BY <3>1, <4>2 DEF Freed
        <5>3. QED
          BY <5>1, <5>2
      <4>3. QED
        BY <2>13, <3>7, <4>1, <4>2
    <3>8. Gone(z, j)
      BY <3>7
    <3>5. QED
      BY <2>2, <2>7, <3>1, <3>2, <3>3, <3>4, <3>6, <3>8
  <2>12. QED
    BY <2>10, <2>11
<1>4. T \in SUBSET (0 .. n)
  OBVIOUS
<1>. HIDE DEF T
<1>5. \A i \in 0 .. n : i \in T
  BY <1>2, <1>3, <1>4, IntervalInduct
<1>6. Ok(f[n], n)
  <2>1. n \in T
    BY <1>5
  <2>2. QED
    BY <2>1 DEF T
<1>8. \A x \in ToSet(q) : \E j \in 1 .. n : q[j] = x
  BY <1>1 DEF ToSet
<1>9. ASSUME NEW x \in ToSet(q), x \in D PROVE f[n].c[x].flags = {}
  <2>1. PICK j \in 1 .. n : q[j] = x
    BY <1>8
  <2>2. j <= n /\ q[j] \in D
    BY <1>1, <1>9, <2>1
  <2>3. QED
    BY <1>6, <2>1, <2>2
<1>7. QED
  BY <1>1, <1>6, <1>9

\* freeClientsInAsyncFreeQueue frees those in the list ...
LEMMA FreeQueueSteps ==
  ASSUME NEW v, NEW q, q = v.toclose, Len(q) \in Nat
  PROVE  \E f : /\ f[0] = v /\ FreeClientsInAsyncFreeQueue(v) = f[Len(q)]
                /\ \A i \in 1 .. Len(q) : f[i] = Step("free", None, None, f[i - 1], q[i])
<1>1. \A u, x : Step("free", None, None, u, x) = FreeClient(u, x)
  BY DEF Step
<1>2. PICK g : Runs(g, "free", None, None, v, Len(q), q)
  BY StepsExist
<1>3. g = [i \in 0 .. Len(q) |-> IF i = 0 THEN v ELSE FreeClient(g[i - 1], q[i])]
  BY <1>1, <1>2, Zenon DEF Runs
<1>. DEFINE h == CHOOSE h : h = [i \in 0 .. Len(q) |-> IF i = 0 THEN v ELSE FreeClient(h[i - 1], q[i])]
<1>4. h = [i \in 0 .. Len(q) |-> IF i = 0 THEN v ELSE FreeClient(h[i - 1], q[i])]
  BY <1>3, Zenon
<1>5. FreeClientsInAsyncFreeQueue(v) = h[Len(q)]
  BY Zenon DEF FreeClientsInAsyncFreeQueue, ForEach
<1>. HIDE DEF h
<1>6. h[0] = v /\ \A i \in 1 .. Len(q) : h[i] = FreeClient(h[i - 1], q[i])
  <2>1. 0 \in 0 .. Len(q) /\ \A i \in 1 .. Len(q) : i \in 0 .. Len(q) /\ i # 0
    BY Upto
  <2>2. QED
    BY <1>4, <2>1, Zenon
<1>7. \A i \in 1 .. Len(q) : h[i] = Step("free", None, None, h[i - 1], q[i])
  BY <1>1, <1>6
<1>8. QED
  BY <1>5, <1>6, <1>7

\* ... and leaves it empty.
LEMMA FreeQueueGood ==
  ASSUME NEW v, NEW p, NEW R, NEW X, Good(v, p, R, X), NEW u, u = FreeClientsInAsyncFreeQueue(v)
  PROVE  Good(u, p, R, X) /\ u.ready = v.ready /\ Same(u, v) /\ \A x \in Clients : u.c[x].up => v.c[x].up
<1>1. PICK q \in Seq(Clients) : q = v.toclose /\ Once(q) /\ \A x \in Clients : x \in ToSet(q) <=> "close_asap" \in v.c[x].flags
  BY DEF Good, Closes
<1>2. Len(q) \in Nat /\ ToSet(q) \subseteq Clients
  BY SetOfSeq
<1>3. \A x \in ToSet(q) : v.c[x].up
  BY <1>1, <1>2 DEF Good, NoFlags
<1>4. PICK f : /\ f[0] = v /\ u = f[Len(q)] /\ \A i \in 1 .. Len(q) : f[i] = Step("free", None, None, f[i - 1], q[i])
  BY <1>1, <1>2, FreeQueueSteps
<1>5. \A i \in 1 .. Len(q) : q[i] \in Clients /\ f[i] = FreeClient(f[i - 1], q[i])
  BY <1>4 DEF Step
<1>6. Frees(f, v, q, Clients)
  BY <1>4, <1>5 DEF Frees
<1>7. QED
  BY <1>1, <1>3, <1>4, <1>6, FreesGood

\* The link with the master goes.
Unlinking(v) == ForEach(v, v.clients, LAMBDA u, c : IF Has(u, c, "master") THEN FreeClient(u, c) ELSE u)
\* The loop that looks for the master's link.
LEMMA UnlinkingSteps ==
  ASSUME NEW v, NEW q, q = v.clients, Len(q) \in Nat
  PROVE  \E f : /\ f[0] = v /\ Unlinking(v) = f[Len(q)]
                /\ \A i \in 1 .. Len(q) : f[i] = Step("unset", None, None, f[i - 1], q[i])
<1>1. \A u, x : Step("unset", None, None, u, x) = UnsetOne(u, x)
  BY DEF Step
<1>2. PICK g : Runs(g, "unset", None, None, v, Len(q), q)
  BY StepsExist
<1>3. g = [i \in 0 .. Len(q) |-> IF i = 0 THEN v ELSE UnsetOne(g[i - 1], q[i])]
  BY <1>1, <1>2, Zenon DEF Runs
<1>. DEFINE h == CHOOSE h : h = [i \in 0 .. Len(q) |-> IF i = 0 THEN v ELSE UnsetOne(h[i - 1], q[i])]
<1>4. h = [i \in 0 .. Len(q) |-> IF i = 0 THEN v ELSE UnsetOne(h[i - 1], q[i])]
  BY <1>3, Zenon
<1>5. Unlinking(v) = h[Len(q)]
  BY Zenon DEF Unlinking, ForEach, UnsetOne
<1>. HIDE DEF h
<1>6. h[0] = v /\ \A i \in 1 .. Len(q) : h[i] = UnsetOne(h[i - 1], q[i])
  <2>1. 0 \in 0 .. Len(q) /\ \A i \in 1 .. Len(q) : i \in 0 .. Len(q) /\ i # 0
    BY Upto
  <2>2. QED
    BY <1>4, <2>1, Zenon
<1>7. \A i \in 1 .. Len(q) : h[i] = Step("unset", None, None, h[i - 1], q[i])
  BY <1>1, <1>6
<1>8. QED
  BY <1>5, <1>6, <1>7

\* It is gone.
LEMMA UnlinkingGood ==
  ASSUME NEW v, NEW p, NEW R, NEW X, Good(v, p, R, X), NEW c \in Clients, "master" \notin v.c[c].flags, NEW u, u = Unlinking(v)
  PROVE  Good(u, p, R, X) /\ Stays(u, v, c) /\ Same(u, v) /\ \A x \in Clients : "master" \notin u.c[x].flags
<1>1. PICK q \in Seq(Clients) : q = v.clients /\ Once(q) /\ \A x \in Clients : v.c[x].up <=> x \in ToSet(q)
  BY DEF Good, Ups
<1>2. Len(q) \in Nat /\ ToSet(q) \subseteq Clients /\ \A x \in ToSet(q) : v.c[x].up
  BY <1>1, SetOfSeq
<1>3. PICK f : /\ f[0] = v /\ u = f[Len(q)] /\ \A i \in 1 .. Len(q) : f[i] = Step("unset", None, None, f[i - 1], q[i])
  <2>1. Len(q) \in Nat /\ q = v.clients
    BY <1>1, <1>2
  <2>2. \E f : /\ f[0] = v /\ Unlinking(v) = f[Len(q)]
              /\ \A i \in 1 .. Len(q) : f[i] = Step("unset", None, None, f[i - 1], q[i])
    BY <2>1, UnlinkingSteps, SMTT(60)
  <2>3. QED
    BY <2>2, Zenon
<1>4. \A i \in 1 .. Len(q) : f[i] = UnsetOne(f[i - 1], q[i])
  <2>1. \A u1, x1 : Step("unset", None, None, u1, x1) = UnsetOne(u1, x1)
    BY DEF Step
  <2>2. QED
    BY <1>3, <2>1
<1>5. PICK D : D = {x \in Clients : "master" \in v.c[x].flags}
  OBVIOUS
<1>6. ASSUME NEW i \in 1 .. Len(q), f[i - 1].c[q[i]] = v.c[q[i]]
      PROVE  f[i] = IF q[i] \in D THEN FreeClient(f[i - 1], q[i]) ELSE f[i - 1]
  <2>1. q[i] \in Clients
    OBVIOUS
  <2>2. QED
    BY <1>4, <1>5, <1>6, <2>1 DEF UnsetOne, Has
<1>9. Frees(f, v, q, D)
  BY <1>3, <1>6 DEF Frees
<1>7. /\ Good(u, p, R, X) /\ Same(u, v) /\ \A x \in ToSet(q) : x \in D => u.c[x].flags = {}
      /\ \A x \in Clients : (u.c[x].up => v.c[x].up) /\ (x \notin D => u.c[x] = v.c[x])
  BY <1>1, <1>2, <1>3, <1>9, FreesGood
<1>10. ASSUME NEW x \in Clients PROVE "master" \notin u.c[x].flags
  <2>1. CASE x \in D
    <3>1. v.c[x].up
      BY <1>5, <2>1 DEF Good, NoFlags
    <3>2. QED
      BY <1>1, <1>7, <2>1, <3>1
  <2>2. CASE x \notin D
    BY <1>5, <1>7, <2>2
  <2>3. QED
    BY <2>1, <2>2
<1>8. QED
  BY <1>5, <1>7, <1>10 DEF Stays

\* SLAVEOF: those who are blocked are disconnected, the link goes.
LEMMA SlaveofGood ==
  ASSUME NEW v, NEW p, NEW R, NEW X, Good(v, p, R, X), NEW c \in Clients, "master" \notin v.c[c].flags,
         NEW cmd, NEW u, u = SlaveofCommand(v, c, cmd)
  PROVE  Good(u, p, R, X) /\ Stays(u, v, c) /\ Carries(u, v)
<1>1. PICK t : t = IF cmd.on /\ ~v.slave THEN ReplicationSetMaster(v)
                   ELSE IF ~cmd.on /\ v.slave THEN ReplicationUnsetMaster(v) ELSE v
  OBVIOUS
<1>2. u = Reply(t, c, "ok")
  BY <1>1 DEF SlaveofCommand
<1>3. /\ Good(ReplicationSetMaster(v), p, R, X) /\ Stays(ReplicationSetMaster(v), v, c)
      /\ Carries(ReplicationSetMaster(v), v)
  <2>1. PICK w : w = [v EXCEPT !.slave = TRUE]
    OBVIOUS
  <2>2. Alters(w, v, Quiet, {"out", "got"}, {})
    BY <2>1, Zenon DEF Good, Alters, Shape, Fields, Quiet
  <2>3. Good(w, p, R, X)
    BY <2>2, KeepsGood
  <2>4. PICK z : z = DisconnectAllBlockedClients(w)
    OBVIOUS
  <2>5. Good(z, p, R, X) /\ Released(z, w)
    BY <2>3, <2>4, DisconnectGood
  <2>6. Stays(z, w, c)
    BY <2>5, AltersStays DEF Released
  <2>7. Stays(w, v, c)
    BY <2>2, AltersStays
  <2>8. z = ReplicationSetMaster(v)
    BY <2>1, <2>4 DEF ReplicationSetMaster
  <2>9. Carries(z, v)
    <3>1. w.db = v.db /\ w.slave = TRUE
      BY <2>1, Zenon DEF Good, Shape, Fields
    <3>2. Same(z, w)
      BY <2>5, ReleasedSame
    <3>3. z.db = v.db /\ z.slave = TRUE
      BY <3>1, <3>2 DEF Same, Wrote
    <3>4. QED
      BY <3>3 DEF Carries, Data
  <2>10. QED
    BY <2>5, <2>6, <2>7, <2>8, <2>9, StaysTrans
<1>4. /\ Good(ReplicationUnsetMaster(v), p, R, X) /\ Stays(ReplicationUnsetMaster(v), v, c)
      /\ Carries(ReplicationUnsetMaster(v), v)
  <2>1. PICK w : w = Unlinking(v)
    OBVIOUS
  <2>2. PICK z : z = [w EXCEPT !.slave = FALSE, !.copy = w.db]
    OBVIOUS
  <2>3. ReplicationUnsetMaster(v) = LET y == Unlinking(v) IN [y EXCEPT !.slave = FALSE, !.copy = y.db]
    BY DEF ReplicationUnsetMaster, Unlinking
  <2>4. z = ReplicationUnsetMaster(v)
    BY <2>1, <2>2, <2>3
  <2>5. Good(w, p, R, X) /\ Stays(w, v, c) /\ Same(w, v) /\ \A x \in Clients : "master" \notin w.c[x].flags
    BY <2>1, UnlinkingGood
  <2>6. Alters(z, w, Quiet, {"out", "got"}, {})
    BY <2>2, <2>5, Zenon DEF Good, Alters, Shape, Fields, Quiet
  <2>7. Good(z, p, R, X) /\ Stays(z, w, c)
    BY <2>5, <2>6, KeepsGood, AltersStays
  <2>8. Carries(z, v)
    <3>1. SUFFICES ASSUME Data(v, {}) PROVE Data(z, {})
      BY DEF Carries
    <3>2. z.db = w.db /\ z.copy = w.db /\ z.c = w.c
      BY <2>2, <2>5, Zenon DEF Good, Shape, Fields
    <3>3. w.db \in [Keys -> Values] /\ \A k \in Keys : w.db[k] # <<>>
      BY <2>5, <3>1 DEF Same, Data
    <3>4. Kept(w.db) = w.db
      BY <3>3, KeptAll
    <3>5. QED
      BY <2>5, <3>2, <3>3, <3>4 DEF Data
  <2>9. QED
    BY <2>4, <2>5, <2>7, <2>8, StaysTrans
<1>5. Good(t, p, R, X) /\ Stays(t, v, c) /\ Carries(t, v)
  BY <1>1, <1>3, <1>4, StaysSame DEF Carries
<1>6. Good(u, p, R, X) /\ Stays(u, t, c) /\ Same(u, t)
  BY <1>2, <1>5, ReplyStays
<1>7. QED
  BY <1>5, <1>6, StaysTrans, SameCarries, CarriesTrans

\* CLIENT KILL, of the caller itself too.
LEMMA ClientKillGood ==
  ASSUME NEW v, NEW p, NEW R, NEW X, Good(v, p, R, X), NEW c \in Clients, v.c[c].up, NEW d \in Clients,
         NEW u, u = ClientKill(v, c, d)
  PROVE  Good(u, p, R, X) /\ Stays(u, v, c) /\ Same(u, v)
<1>1. CASE ~v.c[d].up
  <2>1. u = Reply(v, c, "err")
    BY <1>1 DEF ClientKill
  <2>2. QED
    BY <2>1, ReplyStays
<1>2. CASE v.c[d].up /\ d = c
  <2>1. PICK r : r = Reply(v, c, "ok")
    OBVIOUS
  <2>2. Good(r, p, R, X) /\ Stays(r, v, c) /\ Same(r, v)
    BY <2>1, ReplyStays
  <2>3. r.c[c].up
    BY <2>2 DEF Stays
  <2>4. u = Raise(r, c, "close_after_reply")
    BY <1>2, <2>1 DEF ClientKill
  <2>5. Good(u, p, R, X) /\ Stays(u, r, c) /\ Same(u, r)
    BY <2>2, <2>3, <2>4, RaiseStays DEF Plain
  <2>6. QED
    BY <2>2, <2>5, StaysTrans, SameTrans
<1>3. CASE v.c[d].up /\ d # c
  <2>1. PICK w : w = FreeClient(v, d)
    OBVIOUS
  <2>2. Good(w, p, R, X) /\ Freed(w, v, d)
    BY <1>3, <2>1, FreeClientGood
  <2>3. Stays(w, v, c) /\ Same(w, v)
    BY <1>3, <2>2, FreedSame DEF Freed, Stays
  <2>4. u = Reply(w, c, "ok")
    BY <1>3, <2>1 DEF ClientKill
  <2>5. Good(u, p, R, X) /\ Stays(u, w, c) /\ Same(u, w)
    BY <2>2, <2>4, ReplyStays
  <2>6. QED
    BY <2>3, <2>5, StaysTrans, SameTrans
<1>4. QED
  BY <1>1, <1>2, <1>3

\* A pause ends: all but those who are blocked are looked at again.
LEMMA GoOneGood ==
  ASSUME NEW v, NEW p, NEW R, NEW X, Good(v, p, R, X), NEW x \in Clients, v.c[x].up, NEW u, u = GoOne(v, x)
  PROVE  Good(u, p, R, X) /\ Alters(u, v, {"unblocked", "paused"}, {}, {"unblocked"})
<1>1. CASE Has(v, x, "blocked")
  <2>1. u = v
    BY <1>1 DEF GoOne
  <2>2. QED
    BY <2>1, AltersNot DEF Good
<1>2. CASE ~Has(v, x, "blocked")
  <2>1. PICK r : r = Raise(v, x, "unblocked")
    OBVIOUS
  <2>2. u = [r EXCEPT !.unblocked = Append(@, x)]
    BY <1>2, <2>1 DEF GoOne
  <2>3. Alters(r, v, {}, {}, {"unblocked"}) /\ NoFlags(r) /\ \A y \in Clients : y # x => r.c[y] = v.c[y]
    BY <2>1, RaiseAlters, RaiseNoFlags, RaiseIs DEF Good
  <2>4. r.unblocked = v.unblocked
    BY <2>3, Zenon DEF Alters, Fields
  <2>5. u.c = r.c /\ u.unblocked = Append(v.unblocked, x) /\ Alters(u, r, {"unblocked"}, {}, {})
    BY <2>2, <2>3, <2>4, ZenonT(60) DEF Alters, Shape, Fields
  <2>6. Alters(u, v, {"unblocked"}, {}, {"unblocked"})
    BY <2>3, <2>5, AltersJoin
  <2>7. /\ Shape(u) /\ Ups(u) /\ NoLinks(u) /\ Watches(u) /\ Waits(u) /\ Listens(u) /\ Patterns(u) /\ Closes(u)
        /\ Sent(u, p) /\ Serves(u, R) /\ Sees(u, R, X)
    BY <2>6, Keeps
  <2>8. NoFlags(u)
    BY <2>3, <2>5 DEF NoFlags
  <2>9. Unblocks(u)
    <3>1. v.unblocked \in Seq(Clients) /\ \A y \in Clients : "unblocked" \in v.c[y].flags => y \in ToSet(v.unblocked)
      BY DEF Good, Unblocks
    <3>2. u.unblocked \in Seq(Clients) /\ ToSet(u.unblocked) = ToSet(v.unblocked) \cup {x}
      BY <2>5, <3>1, AppendSet
    <3>3. \A y \in Clients : y # x => u.c[y] = v.c[y]
      BY <2>3, <2>5
    <3>4. QED
      BY <3>1, <3>2, <3>3, Zenon DEF Unblocks
  <2>10. Alters(u, v, {"unblocked", "paused"}, {}, {"unblocked"})
    BY <2>6, AltersMoreOf
  <2>11. QED
    BY <2>7, <2>8, <2>9, <2>10 DEF Good
<1>3. QED
  BY <1>1, <1>2

GoOn(w, v) == ForEach(w, v.clients, LAMBDA u, c : IF Has(u, c, "blocked") THEN u
                                                  ELSE [Raise(u, c, "unblocked") EXCEPT !.unblocked = Append(@, c)])
\* The loop of clientsArePaused.
LEMMA GoOnSteps ==
  ASSUME NEW v, NEW w, NEW q, q = v.clients, Len(q) \in Nat
  PROVE  \E f : /\ f[0] = w /\ GoOn(w, v) = f[Len(q)]
                /\ \A i \in 1 .. Len(q) : f[i] = Step("pause", None, None, f[i - 1], q[i])
<1>1. \A u, x : Step("pause", None, None, u, x) = GoOne(u, x)
  BY DEF Step
<1>2. PICK g : Runs(g, "pause", None, None, w, Len(q), q)
  BY StepsExist
<1>3. g = [i \in 0 .. Len(q) |-> IF i = 0 THEN w ELSE GoOne(g[i - 1], q[i])]
  BY <1>1, <1>2, Zenon DEF Runs
<1>. DEFINE h == CHOOSE h : h = [i \in 0 .. Len(q) |-> IF i = 0 THEN w ELSE GoOne(h[i - 1], q[i])]
<1>4. h = [i \in 0 .. Len(q) |-> IF i = 0 THEN w ELSE GoOne(h[i - 1], q[i])]
  BY <1>3, Zenon
<1>5. GoOn(w, v) = h[Len(q)]
  BY Zenon DEF GoOn, ForEach, GoOne
<1>. HIDE DEF h
<1>6. h[0] = w /\ \A i \in 1 .. Len(q) : h[i] = GoOne(h[i - 1], q[i])
  <2>1. 0 \in 0 .. Len(q) /\ \A i \in 1 .. Len(q) : i \in 0 .. Len(q) /\ i # 0
    BY Upto
  <2>2. QED
    BY <1>4, <2>1, Zenon
<1>7. \A i \in 1 .. Len(q) : h[i] = Step("pause", None, None, h[i - 1], q[i])
  BY <1>1, <1>6
<1>8. QED
  BY <1>5, <1>6, <1>7

Unpaused(u, v) == Alters(u, v, {"unblocked", "paused"}, {}, {"unblocked"})
\* A client may be listed twice; it needs to be listed once.
LEMMA EndPauseGood ==
  ASSUME NEW v, NEW p, NEW R, NEW X, Good(v, p, R, X), NEW u, u = EndPause(v)
  PROVE  Good(u, p, R, X) /\ Unpaused(u, v)
<1>1. CASE ~PauseIsOver(v)
  <2>1. u = v
    BY <1>1 DEF EndPause
  <2>2. QED
    BY <2>1, AltersNot DEF Good, Unpaused
<1>2. CASE PauseIsOver(v)
  <2>1. PICK w : w = [v EXCEPT !.paused = FALSE]
    OBVIOUS
  <2>2. u = GoOn(w, v)
    BY <1>2, <2>1 DEF EndPause, GoOn
  <2>3. Alters(w, v, {"paused"}, {}, {})
    BY <2>1, Zenon DEF Good, Alters, Shape, Fields
  <2>4. Good(w, p, R, X)
    <3>1. Alters(w, v, Quiet, {"out", "got"}, {})
      BY <2>3, AltersMore DEF Quiet
    <3>2. QED
      BY <3>1, KeepsGood
  <2>5. PICK q \in Seq(Clients) : q = v.clients /\ \A x \in Clients : v.c[x].up <=> x \in ToSet(q)
    BY DEF Good, Ups
  <2>6. PICK n \in Nat : n = Len(q) /\ \A i \in 1 .. n : q[i] \in Clients /\ q[i] \in ToSet(q)
    BY SetOfSeq, LenProperties
  <2>7. PICK f : /\ f[0] = w /\ u = f[n] /\ \A i \in 1 .. n : f[i] = Step("pause", None, None, f[i - 1], q[i])
    BY <2>2, <2>5, <2>6, GoOnSteps
  <2>8. PICK F, G, L : F = {"unblocked", "paused"} /\ G = {} /\ L = {"unblocked"}
    OBVIOUS
  <2>9. ASSUME NEW i \in 1 .. n, Good(f[i - 1], p, R, X), Alters(f[i - 1], f[0], F, G, L)
        PROVE  Good(f[i], p, R, X) /\ Alters(f[i], f[i - 1], F, G, L)
    <3>1. \A a, x : Step("pause", None, None, a, x) = GoOne(a, x)
      BY DEF Step
    <3>2. f[i] = GoOne(f[i - 1], q[i])
      BY <2>7, <3>1
    <3>3. PICK y \in Clients : y = q[i] /\ v.c[y].up
      BY <2>5, <2>6
    <3>4. w.c[y].up = v.c[y].up
      BY <2>3, UpOf
    <3>5. f[i - 1].c[y].up = w.c[y].up
      BY <2>7, <2>8, <2>9, UpOf
    <3>6. PICK a, b : a = f[i - 1] /\ b = f[i]
      OBVIOUS
    <3>7. Good(b, p, R, X) /\ Alters(b, a, {"unblocked", "paused"}, {}, {"unblocked"})
      BY <2>9, <3>2, <3>3, <3>4, <3>5, <3>6, GoOneGood
    <3>8. QED
      BY <2>8, <3>6, <3>7
  <2>10. Good(f[n], p, R, X) /\ Alters(f[n], f[0], F, G, L)
    BY <2>4, <2>7, <2>9, Repeats
  <2>11. Unpaused(u, w)
    BY <2>7, <2>8, <2>10 DEF Unpaused
  <2>12. Unpaused(w, v)
    BY <2>3 DEF Alters, Unpaused
  <2>13. QED
    BY <2>7, <2>10, <2>11, <2>12, AltersTrans DEF Unpaused
<1>3. QED
  BY <1>1, <1>2

\* CLIENT PAUSE.
LEMMA PauseClientsGood ==
  ASSUME NEW v, NEW p, NEW R, NEW X, Good(v, p, R, X), NEW c \in Clients, NEW end, NEW u, u = PauseClients(v, end)
  PROVE  Good(u, p, R, X) /\ Stays(u, v, c) /\ Same(u, v)
<1>1. Alters(u, v, {"paused", "pauseend"}, {}, {})
  <2>1. PICK e : e = IF ~v.paused \/ end > v.pauseend THEN end ELSE v.pauseend
    OBVIOUS
  <2>2. u = [v EXCEPT !.pauseend = e, !.paused = TRUE]
    BY <2>1, Zenon DEF PauseClients
  <2>3. QED
    BY <2>2, Zenon DEF Good, Alters, Shape, Fields
<1>2. Alters(u, v, Quiet, {"out", "got"}, {})
  BY <1>1, AltersMore DEF Quiet
<1>3. QED
  BY <1>1, <1>2, KeepsGood, AltersStays, AltersSame

-----------------------------------------------------------------------------
(* What time does to clients. *)

\* clientsCronHandleTimeout: one is unblocked, or not.
LEMMA HandleTimeoutGood ==
  ASSUME NEW v, NEW p, NEW R, NEW X, Good(v, p, R, X), NEW x \in Clients, v.c[x].up, NEW u, u = HandleTimeout(v, x)
  PROVE  Good(u, p, R, X) /\ Released(u, v)
<1>1. CASE u = v
  BY <1>1, AltersNot DEF Good, Released
<1>2. CASE u = UnblockClient(Reply(v, x, "nil"), x)
  BY <1>2, AnswerAndUnblock
<1>3. u = v \/ u = UnblockClient(Reply(v, x, "nil"), x)
  BY DEF HandleTimeout, ReplyToBlockedClientTimedOut
<1>4. QED
  BY <1>1, <1>2, <1>3

Timeouts(w, v) == ForEach(w, v.clients, HandleTimeout)
\* The loop of clientsCron ...
LEMMA TimeoutsSteps ==
  ASSUME NEW v, NEW w, NEW q, q = v.clients, Len(q) \in Nat
  PROVE  \E f : /\ f[0] = w /\ Timeouts(w, v) = f[Len(q)]
                /\ \A i \in 1 .. Len(q) : f[i] = Step("timeout", None, None, f[i - 1], q[i])
<1>1. \A u, x : Step("timeout", None, None, u, x) = HandleTimeout(u, x)
  BY DEF Step
<1>2. PICK g : Runs(g, "timeout", None, None, w, Len(q), q)
  BY StepsExist
<1>3. g = [i \in 0 .. Len(q) |-> IF i = 0 THEN w ELSE HandleTimeout(g[i - 1], q[i])]
  BY <1>1, <1>2, Zenon DEF Runs
<1>. DEFINE h == CHOOSE h : h = [i \in 0 .. Len(q) |-> IF i = 0 THEN w ELSE HandleTimeout(h[i - 1], q[i])]
<1>4. h = [i \in 0 .. Len(q) |-> IF i = 0 THEN w ELSE HandleTimeout(h[i - 1], q[i])]
  BY <1>3, Zenon
<1>5. Timeouts(w, v) = h[Len(q)]
  BY Zenon DEF Timeouts, ForEach
<1>. HIDE DEF h
<1>6. h[0] = w /\ \A i \in 1 .. Len(q) : h[i] = HandleTimeout(h[i - 1], q[i])
  <2>1. 0 \in 0 .. Len(q) /\ \A i \in 1 .. Len(q) : i \in 0 .. Len(q) /\ i # 0
    BY Upto
  <2>2. QED
    BY <1>4, <2>1, Zenon
<1>7. \A i \in 1 .. Len(q) : h[i] = Step("timeout", None, None, h[i - 1], q[i])
  BY <1>1, <1>6
<1>8. QED
  BY <1>5, <1>6, <1>7

\* ... over all clients.
LEMMA TimeoutsGood ==
  ASSUME NEW v, NEW p, NEW R, NEW X, Good(v, p, R, X), NEW w, Good(w, p, R, X), \A x \in Clients : w.c[x].up = v.c[x].up,
         NEW u, u = Timeouts(w, v)
  PROVE  Good(u, p, R, X) /\ Released(u, w)
<1>5. PICK q \in Seq(Clients) : q = v.clients /\ \A x \in Clients : v.c[x].up <=> x \in ToSet(q)
  BY DEF Good, Ups
<1>6. PICK n \in Nat : n = Len(q) /\ \A i \in 1 .. n : q[i] \in Clients /\ q[i] \in ToSet(q)
  BY SetOfSeq, LenProperties
<1>7. PICK f : /\ f[0] = w /\ u = f[n] /\ \A i \in 1 .. n : f[i] = Step("timeout", None, None, f[i - 1], q[i])
  BY <1>5, <1>6, TimeoutsSteps
<1>8. PICK F, G, L : "up" \notin G /\ \A a, b : Released(a, b) <=> Alters(a, b, F, G, L)
  BY DEF Released
<1>9. ASSUME NEW i \in 1 .. n, Good(f[i - 1], p, R, X), Alters(f[i - 1], f[0], F, G, L)
      PROVE  Good(f[i], p, R, X) /\ Alters(f[i], f[i - 1], F, G, L)
  <2>1. \A a, x : Step("timeout", None, None, a, x) = HandleTimeout(a, x)
    BY DEF Step
  <2>2. f[i] = HandleTimeout(f[i - 1], q[i])
    BY <1>7, <2>1
  <2>3. PICK y \in Clients : y = q[i] /\ v.c[y].up
    BY <1>5, <1>6
  <2>4. f[i - 1].c[y].up = w.c[y].up
    BY <1>7, <1>8, <1>9, UpOf
  <2>5. PICK a, b : a = f[i - 1] /\ b = f[i]
    OBVIOUS
  <2>6. Good(b, p, R, X) /\ Released(b, a)
    BY <1>9, <2>2, <2>3, <2>4, <2>5, HandleTimeoutGood
  <2>7. QED
    BY <1>8, <2>5, <2>6
<1>10. Good(f[n], p, R, X) /\ Alters(f[n], f[0], F, G, L)
  BY <1>7, <1>9, Repeats
<1>11. QED
  BY <1>7, <1>8, <1>10

\* serverCron.
LEMMA CronGood ==
  ASSUME NEW v, NEW p, Good(v, p, {}, {}), v.ready = <<>>,
         NEW u, u = EndPause(FreeClientsInAsyncFreeQueue(Timeouts([v EXCEPT !.mstime = v.now], v)))
  PROVE  Good(u, p, {}, {}) /\ u.ready = <<>> /\ Same(u, v) /\ \A x \in Clients : u.c[x].up => v.c[x].up
<1>1. PICK w : w = [v EXCEPT !.mstime = v.now]
  OBVIOUS
<1>2. Alters(w, v, {"mstime"}, {}, {})
  BY <1>1, Zenon DEF Good, Alters, Shape, Fields
<1>3. Good(w, p, {}, {}) /\ w.ready = <<>> /\ Same(w, v) /\ \A x \in Clients : w.c[x].up = v.c[x].up
  <2>1. Alters(w, v, Quiet, {"out", "got"}, {})
    BY <1>2, AltersMore DEF Quiet
  <2>2. w.ready = v.ready
    BY <1>2, Zenon DEF Alters, Fields
  <2>3. QED
    BY <1>2, <2>1, <2>2, KeepsGood, UpOf, AltersSame
<1>4. PICK a : a = Timeouts(w, v)
  OBVIOUS
<1>5. Good(a, p, {}, {}) /\ Released(a, w)
  BY <1>3, <1>4, TimeoutsGood
<1>6. a.ready = w.ready /\ \A x \in Clients : a.c[x].up = w.c[x].up
  <2>1. a.ready = w.ready
    BY <1>5, Zenon DEF Released, Alters, Fields
  <2>2. \A x \in Clients : a.c[x].up = w.c[x].up
    BY <1>5, UpOf DEF Released
  <2>3. QED
    BY <2>1, <2>2
<1>7. PICK b : b = FreeClientsInAsyncFreeQueue(a)
  OBVIOUS
<1>8. Good(b, p, {}, {}) /\ b.ready = a.ready /\ Same(b, a) /\ \A x \in Clients : b.c[x].up => a.c[x].up
  BY <1>5, <1>7, FreeQueueGood
<1>9. u = EndPause(b)
  BY <1>1, <1>4, <1>7
<1>10. Good(u, p, {}, {}) /\ Unpaused(u, b)
  BY <1>8, <1>9, EndPauseGood
<1>11. u.ready = b.ready
  BY <1>10, Zenon DEF Unpaused, Alters, Fields
<1>12. \A x \in Clients : u.c[x].up = b.c[x].up
  BY <1>10, UpOf DEF Unpaused
<1>13. Same(u, v)
  <2>1. Same(a, v)
    BY <1>3, <1>5, ReleasedSame, SameTrans
  <2>2. Same(b, v)
    BY <1>8, <2>1, SameTrans
  <2>3. QED
    BY <1>10, <2>2, AltersSame, SameTrans DEF Unpaused
<1>14. QED
  BY <1>3, <1>6, <1>8, <1>10, <1>11, <1>12, <1>13

-----------------------------------------------------------------------------
(* Query buffers and queues of transactions. *)

Reading(v, c, l) == [v EXCEPT !.c[c].in = l]
\* What is in the query buffer changes.
LEMMA ReadingIs ==
  ASSUME NEW v, Shape(v), NEW c \in Clients, NEW l, NEW u, u = Reading(v, c, l)
  PROVE  /\ Alters(u, v, {}, {"in"}, {}) /\ u.c[c].in = l
         /\ \A x \in Clients : u.c[x].queue = v.c[x].queue /\ u.c[x].flags = v.c[x].flags /\ (x # c => u.c[x] = v.c[x])
BY Zenon DEF Reading, Alters, Shape, Fields, CFields

LEMMA ReadingGood ==
  ASSUME NEW v, NEW p, NEW R, NEW X, Good(v, p, R, X), NEW c \in Clients, NEW l \in Seq(SentBy(p, c)),
         NEW u, u = Reading(v, c, l)
  PROVE  Good(u, p, R, X) /\ Alters(u, v, {}, {"in"}, {}) /\ u.c[c].flags = v.c[c].flags
<1>1. /\ Alters(u, v, {}, {"in"}, {}) /\ u.c[c].in = l
      /\ \A x \in Clients : u.c[x].queue = v.c[x].queue /\ u.c[x].flags = v.c[x].flags /\ (x # c => u.c[x] = v.c[x])
  BY ReadingIs DEF Good
<1>2. /\ Shape(u) /\ Ups(u) /\ NoFlags(u) /\ NoLinks(u) /\ Watches(u) /\ Waits(u) /\ Listens(u) /\ Patterns(u)
      /\ Closes(u) /\ Unblocks(u) /\ Serves(u, R) /\ Sees(u, R, X)
  BY <1>1, Keeps
<1>3. Sent(v, p)
  BY DEF Good
<1>4. \A x \in Clients : u.c[x].in \in Seq(SentBy(p, x))
  BY <1>1, <1>3 DEF Sent
<1>5. Sent(u, p)
  BY <1>1, <1>3, <1>4 DEF Sent
<1>6. QED
  BY <1>1, <1>2, <1>5 DEF Good

\* queueMultiCommand queues what may be queued.
LEMMA QueueMultiGood ==
  ASSUME NEW v, NEW p, NEW R, NEW X, Good(v, p, R, X), NEW c \in Clients, NEW cmd \in SentBy(p, c), MayQueue(cmd),
         NEW u, u = QueueMultiCommand(v, c, cmd)
  PROVE  Good(u, p, R, X) /\ Stays(u, v, c) /\ Same(u, v) /\ u.ready = v.ready
<1>1. PICK q \in Seq(SentBy(p, c)) : q = v.c[c].queue /\ \A e \in ToSet(q) : MayQueue(e)
  BY DEF Good, Sent
<1>2. PICK l : l = Append(q, cmd)
  OBVIOUS
<1>3. l \in Seq(SentBy(p, c)) /\ ToSet(l) = ToSet(q) \cup {cmd}
  BY <1>2, AppendSet
<1>4. PICK w : w = Queueing(v, c, l)
  OBVIOUS
<1>5. /\ Alters(w, v, {}, {"queue"}, {}) /\ w.c[c].queue = l
      /\ \A x \in Clients : w.c[x].in = v.c[x].in /\ w.c[x].flags = v.c[x].flags /\ (x # c => w.c[x] = v.c[x])
  BY <1>4, QueueingIs DEF Good
<1>6. /\ Shape(w) /\ Ups(w) /\ NoFlags(w) /\ NoLinks(w) /\ Watches(w) /\ Waits(w) /\ Listens(w) /\ Patterns(w)
      /\ Closes(w) /\ Unblocks(w) /\ Serves(w, R) /\ Sees(w, R, X)
  BY <1>5, Keeps
<1>7. Sent(w, p)
  <2>1. Sent(v, p)
    BY DEF Good
  <2>2. \A x \in Clients : w.c[x].queue \in Seq(SentBy(p, x)) /\ \A e \in ToSet(w.c[x].queue) : MayQueue(e)
    <3>1. \A e \in ToSet(l) : MayQueue(e)
      BY <1>1, <1>3
    <3>2. QED
      BY <1>3, <1>5, <2>1, <3>1 DEF Sent
  <2>3. QED
    BY <1>5, <2>1, <2>2, Zenon DEF Sent
<1>8. Good(w, p, R, X)
  BY <1>6, <1>7 DEF Good
<1>9. u = Reply(w, c, "queued")
  BY <1>1, <1>2, <1>4, Zenon DEF QueueMultiCommand, Queueing
<1>10. Good(u, p, R, X) /\ Replied(u, w) /\ Stays(u, w, c) /\ Same(u, w)
  BY <1>8, <1>9, ReplyGood, ReplyStays
<1>11. Stays(w, v, c) /\ Same(w, v)
  BY <1>5, AltersStays, AltersSame
<1>12. u.ready = v.ready
  <2>1. u.ready = w.ready
    BY <1>10, Zenon DEF Replied, Alters, Fields
  <2>2. w.ready = v.ready
    BY <1>5, Zenon DEF Alters, Fields
  <2>3. QED
    BY <2>1, <2>2
<1>13. QED
  BY <1>10, <1>11, <1>12, StaysTrans, SameTrans

\* The end of the next command is where it is said to be.
LEMMA EndOfCommandIs ==
  ASSUME NEW S, NEW q \in Seq(S), Whole(q)
  PROVE  EndOfCommand(q) \in 1 .. Len(q) /\ q[EndOfCommand(q)].op # "part"
<1>1. PICK n \in Nat : n = Len(q) /\ DOMAIN q = 1 .. n
  BY LenProperties
<1>2. PICK T : T = {i \in 1 .. n : q[i].op # "part"}
  OBVIOUS
<1>3. T \in SUBSET Nat /\ T # {}
  BY <1>1, <1>2 DEF Whole
<1>4. PICK m \in T : \A i \in T : m <= i
  BY <1>3, LeastNat
<1>5. m \in 1 .. n /\ \A j \in 1 .. (m - 1) : j \in 1 .. n /\ ~(m <= j)
  BY <1>2, <1>4
<1>6. \A j \in 1 .. (m - 1) : q[j].op = "part"
  BY <1>2, <1>4, <1>5
<1>7. \E i \in DOMAIN q : q[i].op # "part" /\ \A j \in 1..(i - 1) : q[j].op = "part"
  BY <1>1, <1>2, <1>5, <1>6
<1>8. PICK e : e = CHOOSE i \in DOMAIN q : q[i].op # "part" /\ \A j \in 1..(i - 1) : q[j].op = "part"
  OBVIOUS
<1>9. e \in DOMAIN q /\ q[e].op # "part"
  BY <1>7, <1>8, Zenon
<1>10. e = EndOfCommand(q)
  BY <1>8 DEF EndOfCommand
<1>11. QED
  BY <1>1, <1>9, <1>10

\* A command is taken from the buffer.
LEMMA ConsumeGood ==
  ASSUME NEW v, NEW p, NEW R, NEW X, Good(v, p, R, X), NEW c \in Clients, Whole(v.c[c].in), NEW u, u = Consume(v, c)
  PROVE  /\ Good(u, p, R, X) /\ Alters(u, v, {}, {"in"}, {}) /\ u.c[c].flags = v.c[c].flags
         /\ NextCommand(v.c[c].in) \in SentBy(p, c) /\ NextCommand(v.c[c].in).op # "part"
<1>1. PICK q \in Seq(SentBy(p, c)) : q = v.c[c].in
  BY DEF Good, Sent
<1>2. PICK n \in Nat : n = Len(q) /\ \A i \in 1 .. n : q[i] \in SentBy(p, c)
  BY LenProperties
<1>3. PICK e \in 1 .. n : e = EndOfCommand(q) /\ q[e].op # "part"
  BY <1>1, <1>2, EndOfCommandIs
<1>4. PICK l : l = SubSeq(q, e + 1, n)
  OBVIOUS
<1>5. l \in Seq(SentBy(p, c))
  <2>1. \A i \in (e + 1) .. n : q[i] \in SentBy(p, c)
    BY <1>2
  <2>2. QED
    BY <1>4, <2>1, SubSeqProperties
<1>6. u = Reading(v, c, l)
  BY <1>1, <1>2, <1>3, <1>4, Zenon DEF Consume, Reading
<1>7. Good(u, p, R, X) /\ Alters(u, v, {}, {"in"}, {}) /\ u.c[c].flags = v.c[c].flags
  BY <1>5, <1>6, ReadingGood
<1>8. NextCommand(v.c[c].in) = q[e]
  BY <1>1, <1>3 DEF NextCommand
<1>9. QED
  BY <1>2, <1>3, <1>7, <1>8

-----------------------------------------------------------------------------
(* Sockets. *)

\* Freeing connects nobody.
LEMMA FreedFalls ==
  ASSUME NEW u, NEW v, NEW c, Freed(u, v, c)
  PROVE  Falls(u, v) /\ u.ready = v.ready /\ Same(u, v)
BY FreedSame DEF Freed, Falls

\* readQueryFromClient and sendReplyToClient.
LEMMA ReadQueryGood ==
  ASSUME NEW v, NEW p, NEW R, NEW X, Good(v, p, R, X), NEW c \in Clients, v.c[c].up,
         NEW sock \in Seq(SentBy(p, c)), NEW u, u = ReadQuery(v, c, sock)
  PROVE  Good(u, p, R, X) /\ u.ready = v.ready /\ Falls(u, v) /\ Same(u, v)
<1>1. CASE sock = <<>>
  <2>1. u = FreeClient(v, c)
    BY <1>1 DEF ReadQuery
  <2>2. QED
    BY <2>1, FreeClientGood, FreedFalls
<1>2. CASE sock # <<>>
  <2>1. PICK q \in Seq(SentBy(p, c)) : q = v.c[c].in
    BY DEF Good, Sent
  <2>2. PICK l : l = q \o sock
    OBVIOUS
  <2>3. l \in Seq(SentBy(p, c))
    BY <2>2, ConcatSet
  <2>4. u = Reading(v, c, l)
    BY <1>2, <2>1, <2>2, Zenon DEF ReadQuery, Reading
  <2>5. Good(u, p, R, X) /\ Alters(u, v, {}, {"in"}, {})
    BY <2>3, <2>4, ReadingGood
  <2>6. u.ready = v.ready
    BY <2>5, Zenon DEF Alters, Fields
  <2>7. \A x \in Clients : u.c[x].up = v.c[x].up
    BY <2>5, UpOf
  <2>8. QED
    BY <2>5, <2>6, <2>7, AltersSame DEF Falls
<1>3. QED
  BY <1>1, <1>2

LEMMA SendReplyGood ==
  ASSUME NEW v, NEW p, NEW R, NEW X, Good(v, p, R, X), NEW c \in Clients, v.c[c].up, NEW u, u = SendReplyToClient(v, c)
  PROVE  Good(u, p, R, X) /\ u.ready = v.ready /\ Falls(u, v) /\ Same(u, v)
<1>1. PICK t : t = [v EXCEPT !.c[c].got = @ \o v.c[c].out, !.c[c].out = <<>>]
  OBVIOUS
<1>2. Alters(t, v, {}, {"out", "got"}, {})
  BY <1>1, ZenonT(60) DEF Good, Alters, Shape, Fields, CFields
<1>3. Alters(t, v, Quiet, {"out", "got"}, {})
  BY <1>2, AltersMore DEF Quiet
<1>4. t.ready = v.ready
  BY <1>2, Zenon DEF Alters, Fields
<1>5. \A x \in Clients : t.c[x].up = v.c[x].up
  BY <1>2, UpOf
<1>6. Good(t, p, R, X)
  BY <1>3, KeepsGood
<1>7. u = t \/ u = FreeClient(t, c)
  BY <1>1 DEF SendReplyToClient
<1>8. ASSUME u = FreeClient(t, c) PROVE Good(u, p, R, X) /\ u.ready = t.ready /\ Falls(u, t) /\ Same(u, t)
  BY <1>5, <1>6, <1>8, FreeClientGood, FreedFalls
<1>9. Same(t, v)
  BY <1>2, AltersSame
<1>10. Same(u, v)
  BY <1>7, <1>8, <1>9, SameTrans
<1>11. QED
  BY <1>4, <1>5, <1>6, <1>7, <1>8, <1>10 DEF Falls

\* What cannot be parsed closes the client, after the answer.
LEMMA ProtocolErrorGood ==
  ASSUME NEW v, NEW p, NEW R, NEW X, Good(v, p, R, X), NEW c \in Clients, v.c[c].up, NEW u, u = SetProtocolError(v, c)
  PROVE  Good(u, p, R, X) /\ u.ready = v.ready /\ Falls(u, v) /\ Same(u, v)
<1>1. PICK w : w = Reply(v, c, "err")
  OBVIOUS
<1>2. Good(w, p, R, X) /\ Replied(w, v)
  BY <1>1, ReplyGood
<1>3. w.ready = v.ready
  BY <1>2, Zenon DEF Replied, Alters, Fields
<1>4. \A x \in Clients : w.c[x].up = v.c[x].up
  BY <1>2, UpOf DEF Replied
<1>5. u = Raise(w, c, "close_after_reply")
  BY <1>1 DEF SetProtocolError
<1>6. Good(u, p, R, X)
  BY <1>2, <1>4, <1>5, RaiseGood DEF Plain
<1>7. Alters(u, w, {}, {}, {"close_after_reply"})
  BY <1>2, <1>5, RaiseAlters DEF Good
<1>8. u.ready = w.ready
  BY <1>7, Zenon DEF Alters, Fields
<1>9. \A x \in Clients : u.c[x].up = w.c[x].up
  BY <1>7, UpOf
<1>10. Same(u, v)
  <2>1. Same(w, v)
    BY <1>2, AltersSame DEF Replied
  <2>2. Same(u, w)
    BY <1>7, AltersSame
  <2>3. QED
    BY <2>1, <2>2, SameTrans
<1>11. QED
  BY <1>3, <1>4, <1>6, <1>8, <1>9, <1>10 DEF Falls

\* processUnblockedClients takes one off the list.
LEMMA UnblockedGood ==
  ASSUME NEW v, NEW p, NEW R, NEW X, Good(v, p, R, X), v.unblocked # <<>>,
         NEW u, u = Clear([v EXCEPT !.unblocked = Tail(@)], Head(v.unblocked), {"unblocked"})
  PROVE  Good(u, p, R, X) /\ u.ready = v.ready /\ Falls(u, v) /\ Same(u, v)
<1>1. PICK q \in Seq(Clients) : q = v.unblocked /\ \A x \in Clients : "unblocked" \in v.c[x].flags => x \in ToSet(q)
  BY DEF Good, Unblocks
<1>2. PICK c, l : c = Head(q) /\ l = Tail(q)
  OBVIOUS
<1>3. c \in Clients /\ l \in Seq(Clients) /\ ToSet(q) = {c} \cup ToSet(l)
  <2>1. q # <<>>
    BY <1>1
  <2>2. Head(q) \in ToSet(q) /\ Tail(q) \in Seq(Clients) /\ ToSet(q) = {Head(q)} \cup ToSet(Tail(q))
    BY <2>1, TailSet
  <2>3. ToSet(q) \subseteq Clients
    BY SetOfSeq
  <2>4. QED
    BY <1>2, <2>2, <2>3
<1>4. PICK w : w = [v EXCEPT !.unblocked = l]
  OBVIOUS
<1>5. u = Clear(w, c, {"unblocked"})
  BY <1>1, <1>2, <1>4, Zenon
<1>6. Alters(w, v, {"unblocked"}, {}, {}) /\ w.c = v.c /\ w.unblocked = l
  BY <1>4, Zenon DEF Good, Alters, Shape, Fields
<1>7. Shape(w)
  BY <1>6 DEF Alters
<1>8. /\ Alters(u, w, {}, {}, {"unblocked"}) /\ u.c[c].flags = w.c[c].flags \ {"unblocked"}
      /\ \A x \in Clients : x # c => u.c[x] = w.c[x]
  <2>1. PICK E : E = {"unblocked"}
    OBVIOUS
  <2>2. u = Clear(w, c, E)
    BY <1>5, <2>1
  <2>3. /\ Alters(u, w, {}, {}, E) /\ u.c[c].flags = w.c[c].flags \ E
        /\ \A x \in Clients : x # c => u.c[x] = w.c[x]
    <3>1. c \in Clients
      BY <1>3
    <3>2. /\ Clear(w, c, E).c[c].flags = w.c[c].flags \ E
          /\ \A x \in Clients : x # c => Clear(w, c, E).c[x] = w.c[x]
          /\ Alters(Clear(w, c, E), w, {}, {}, E)
      BY <1>7, <3>1, ClearIs, SMTT(30)
    <3>3. QED
      BY <2>2, <3>2, Zenon
  <2>4. QED
    BY <2>1, <2>3
<1>9. Alters(u, v, {"unblocked"}, {}, {"unblocked"})
  BY <1>6, <1>8, AltersJoin
<1>10. /\ Shape(u) /\ Ups(u) /\ NoLinks(u) /\ Watches(u) /\ Waits(u) /\ Listens(u) /\ Patterns(u) /\ Closes(u)
       /\ Sent(u, p) /\ Serves(u, R) /\ Sees(u, R, X)
  BY <1>9, Keeps
<1>11. \A x \in Clients : u.c[x].up = v.c[x].up
  BY <1>9, UpOf
<1>12. u.ready = v.ready
  BY <1>9, Zenon DEF Alters, Fields
<1>13. NoFlags(u)
  <2>1. NoFlags(v)
    BY DEF Good
  <2>2. \A x \in Clients : u.c[x].flags \subseteq v.c[x].flags
    BY <1>6, <1>8
  <2>3. QED
    BY <1>11, <2>1, <2>2 DEF NoFlags
<1>14. Unblocks(u)
  <2>1. u.unblocked = l
    BY <1>6, <1>8, Zenon DEF Alters, Fields
  <2>2. \A x \in Clients : "unblocked" \in u.c[x].flags => x # c /\ "unblocked" \in v.c[x].flags
    BY <1>6, <1>8
  <2>3. \A x \in Clients : "unblocked" \in u.c[x].flags => x \in ToSet(l)
    BY <1>1, <1>3, <2>2
  <2>4. QED
    BY <1>3, <2>1, <2>3 DEF Unblocks
<1>15. Same(u, v)
  BY <1>9, AltersSame
<1>16. QED
  BY <1>10, <1>11, <1>12, <1>13, <1>14, <1>15 DEF Good, Falls

-----------------------------------------------------------------------------
(* A client comes. *)

Accepted(v, c, F) == [v EXCEPT !.c[c] = Connection(F), !.clients = Append(@, c)]
FirstFlags == {{}, {"master"}}
Comes(u, v, c) == \A x \in Clients : u.c[x].up => v.c[x].up \/ x = c

\* A connection begins with empty buffers and in the list of clients only.
LEMMA AcceptedGood ==
  ASSUME NEW v, NEW p, NEW R, NEW X, Good(v, p, R, X), NEW c \in Clients, ~v.c[c].up,
         NEW F \in FirstFlags, "master" \in F => c \in Plays[p].master, NEW u, u = Accepted(v, c, F)
  PROVE  Good(u, p, R, X) /\ u.ready = v.ready /\ Comes(u, v, c) /\ (("master" \in F => v.slave) => Carries(u, v))
<1>. USE DEF FirstFlags, Comes
<1>1. PICK z : z = Connection(F)
  OBVIOUS
<1>2. /\ DOMAIN z = CFields /\ z.up /\ z.flags = F /\ z.in = <<>> /\ z.queue = <<>> /\ z.watched = <<>> /\ z.seen = <<>>
      /\ z.keys = {} /\ z.target = None /\ z.subs = {} /\ z.pats = <<>>
  BY <1>1 DEF Connection, CFields
<1>3. u = [v EXCEPT !.c[c] = z, !.clients = Append(@, c)]
  BY <1>1 DEF Accepted
<1>4. /\ DOMAIN u = Fields /\ DOMAIN u.c = Clients /\ u.c[c] = z /\ u.clients = Append(v.clients, c)
      /\ \A x \in Clients : x # c => u.c[x] = v.c[x]
  BY <1>3, ZenonT(60) DEF Good, Shape, Fields
<1>5. \A f \in Fields \ {"c", "clients"} : u[f] = v[f]
  BY <1>3, Zenon DEF Good, Shape, Fields
<1>6. /\ u.db = v.db /\ u.ready = v.ready /\ u.isready = v.isready /\ u.watchers = v.watchers /\ u.waiting = v.waiting
      /\ u.channels = v.channels /\ u.patterns = v.patterns /\ u.toclose = v.toclose /\ u.unblocked = v.unblocked
  BY <1>5 DEF Fields
<1>7. v.c[c].flags = {} /\ v.c[c].watched = <<>> /\ v.c[c].subs = {} /\ v.c[c].pats = <<>> /\ v.c[c].keys = {}
  <2>1. v.c[c].flags = {} /\ v.c[c].watched = <<>> /\ v.c[c].subs = {} /\ v.c[c].pats = <<>>
    BY DEF Good, NoFlags, NoLinks
  <2>2. QED
    BY <2>1 DEF Good, Waits
<1>8. \A x \in Clients : /\ u.c[x].watched = v.c[x].watched /\ u.c[x].subs = v.c[x].subs /\ u.c[x].pats = v.c[x].pats
                         /\ u.c[x].keys = v.c[x].keys
  <2>1. TAKE x \in Clients
  <2>2. CASE x = c
    BY <1>2, <1>4, <1>7, <2>2
  <2>3. CASE x # c
    BY <1>4, <2>3
  <2>4. QED
    BY <2>2, <2>3
<1>9. \A x \in Clients : \A f : f # "master" => (f \in u.c[x].flags <=> f \in v.c[x].flags)
  BY <1>2, <1>4, <1>7
<1>10. Shape(u)
  BY <1>2, <1>4 DEF Good, Shape
<1>11. Ups(u)
  <2>1. PICK q \in Seq(Clients) : q = v.clients /\ Once(q) /\ \A x \in Clients : v.c[x].up <=> x \in ToSet(q)
    BY DEF Good, Ups
  <2>2. PICK l : l = Append(q, c)
    OBVIOUS
  <2>3. l \in Seq(Clients) /\ ToSet(l) = ToSet(q) \cup {c} /\ Once(l)
    BY <2>1, <2>2, AppendSet
  <2>4. \A x \in Clients : u.c[x].up <=> x \in ToSet(l)
    BY <1>2, <1>4, <2>1, <2>3
  <2>5. u.clients = l
    BY <1>4, <2>1, <2>2
  <2>6. QED
    BY <2>3, <2>4, <2>5 DEF Ups
<1>12. NoFlags(u) /\ NoLinks(u)
  BY <1>2, <1>4 DEF Good, NoFlags, NoLinks
<1>13. Watches(u)
  <2>1. \A x \in Clients : ToSet(u.c[x].watched) \subseteq DOMAIN u.c[x].seen
    <3>1. ToSet(<<>>) = {}
      BY DEF ToSet
    <3>2. Watches(v)
      BY DEF Good
    <3>3. QED
      BY <1>2, <1>4, <3>1, <3>2 DEF Watches
  <2>2. QED
    BY <1>6, <1>8, <2>1 DEF Good, Watches
<1>14. Waits(u)
  <2>1. Waits(v)
    BY DEF Good
  <2>2. \A x \in Clients : u.c[x].target \in Keys \cup {None} /\ (u.c[x].target # None => u.c[x].head = FALSE)
    BY <1>2, <1>4, <2>1 DEF Waits
  <2>3. \A x \in Clients : u.c[x].keys # {} => "blocked" \in u.c[x].flags
    BY <1>8, <1>9, <2>1 DEF Waits
  <2>4. QED
    BY <1>6, <1>8, <2>1, <2>2, <2>3, Zenon DEF Waits
<1>15. Listens(u) /\ Patterns(u)
  <2>1. Listens(u)
    BY <1>6, <1>8, Zenon DEF Good, Listens
  <2>2. Patterns(u)
    BY <1>6, <1>8, Zenon DEF Good, Patterns
  <2>3. QED
    BY <2>1, <2>2
<1>16. Closes(u) /\ Unblocks(u)
  BY <1>6, <1>9 DEF Good, Closes, Unblocks
<1>17. Sent(u, p)
  <2>1. Sent(v, p)
    BY DEF Good
  <2>2. <<>> \in Seq(SentBy(p, c)) /\ ToSet(<<>>) = {}
    BY DEF ToSet
  <2>3. SUFFICES ASSUME NEW x \in Clients
                 PROVE  /\ u.c[x].in \in Seq(SentBy(p, x)) /\ u.c[x].queue \in Seq(SentBy(p, x))
                        /\ \A cmd \in ToSet(u.c[x].queue) : MayQueue(cmd)
                        /\ "master" \in u.c[x].flags => x \in Plays[p].master
    BY DEF Sent
  <2>7. /\ u.c[c].in \in Seq(SentBy(p, c)) /\ u.c[c].queue \in Seq(SentBy(p, c))
        /\ ToSet(u.c[c].queue) = {} /\ u.c[c].flags = F
    <3>1. u.c[c].in = <<>> /\ u.c[c].queue = <<>> /\ u.c[c].flags = F
      BY <1>2, <1>4, Zenon
    <3>2. QED
      BY <2>2, <3>1, Zenon
  <2>4. CASE x = c
    BY <2>4, <2>7, Zenon
  <2>5. CASE x # c
    <3>1. u.c[x] = v.c[x]
      BY <1>4, <2>5
    <3>2. QED
      BY <2>1, <3>1 DEF Sent
  <2>6. QED
    BY <2>4, <2>5
<1>18. Serves(u, R)
  BY <1>6 DEF Good, Serves
<1>19. Sees(u, R, X)
  <2>1. \A x \in Clients : \A k \in ToSet(u.c[x].watched) : x # c
    BY <1>2, <1>4 DEF ToSet
  <2>2. SUFFICES ASSUME NEW x \in Clients, NEW k \in ToSet(u.c[x].watched)
                 PROVE  k \in X \/ Dirty(u, x) \/ (u.db[k] = u.c[x].seen[k] /\ k \notin ToSet(u.ready) \cup R)
    BY DEF Sees
  <2>3. u.c[x] = v.c[x] /\ k \in ToSet(v.c[x].watched)
    BY <1>4, <2>1, <2>2
  <2>4. k \in X \/ Dirty(v, x) \/ (v.db[k] = v.c[x].seen[k] /\ k \notin ToSet(v.ready) \cup R)
    BY <2>3 DEF Good, Sees
  <2>5. QED
    BY <1>6, <2>3, <2>4 DEF Dirty
<1>20. \A x \in Clients : u.c[x].up => v.c[x].up \/ x = c
  BY <1>4
<1>22. ASSUME "master" \in F => v.slave, Data(v, {}) PROVE Data(u, {})
  <2>1. u.db = v.db /\ u.copy = v.copy /\ u.slave = v.slave
    BY <1>5 DEF Fields
  <2>2. ~v.slave => \A x \in Clients : "master" \notin u.c[x].flags
    BY <1>2, <1>4, <1>22 DEF Data
  <2>3. QED
    BY <1>22, <2>1, <2>2 DEF Data
<1>21. QED
  BY <1>6, <1>22, <1>10, <1>11, <1>12, <1>13, <1>14, <1>15, <1>16, <1>17, <1>18, <1>19, <1>20 DEF Good, Carries

-----------------------------------------------------------------------------
(* The commands of a client that is there. *)

Ran(u, v, p, c) == Good(u, p, {}, {}) /\ Stays(u, v, c) /\ Carries(u, v)

\* What a command has done to the data when it is propagated; its lists may still be
\* empty at the keys in E.
Does(w, v, E, cmd) ==
    /\ Wrote(w, v)
    /\ Data(v, {}) => /\ w.db \in [Keys -> Values] /\ \A j \in Keys : w.db[j] = <<>> => j \in E
                      /\ Effect(v.db, cmd) = Kept(w.db)

\* The copy gets what the command did ...
LEMMA DoneCarries ==
  ASSUME NEW v, NEW w, NEW cmd, Does(w, v, {}, cmd), NEW a, Same(a, w), NEW u, Copied(u, a, cmd)
  PROVE  Carries(u, v)
<1>1. SUFFICES ASSUME Data(v, {}) PROVE Data(u, {})
  BY DEF Carries
<1>2. u.db = w.db /\ u.slave = v.slave /\ \A x \in Clients : "master" \in u.c[x].flags => "master" \in v.c[x].flags
  BY DEF Does, Same, Wrote, Copied
<1>3. w.db \in [Keys -> Values] /\ (\A j \in Keys : w.db[j] # <<>>) /\ Effect(v.db, cmd) = Kept(w.db)
  BY <1>1 DEF Does
<1>4. ASSUME ~v.slave PROVE u.copy = Kept(u.db) /\ \A x \in Clients : "master" \notin v.c[x].flags
  <2>1. v.copy = v.db /\ \A x \in Clients : "master" \notin v.c[x].flags
    BY <1>1, <1>4, KeptAll DEF Data
  <2>2. u.copy = Effect(v.copy, cmd)
    BY <1>4 DEF Does, Same, Wrote, Copied
  <2>3. QED
    BY <1>2, <1>3, <2>1, <2>2
<1>5. QED
  BY <1>2, <1>3, <1>4 DEF Data

\* ... when what it did leaves no list empty ...
LEMMA DoesAll ==
  ASSUME NEW v, NEW w, Wrote(w, v), NEW cmd, NEW E,
         Data(v, {}) => w.db \in [Keys -> Values] /\ (\A j \in Keys : w.db[j] # <<>>) /\ Effect(v.db, cmd) = w.db
  PROVE  Does(w, v, E, cmd)
BY KeptAll DEF Does

\* ... or the list that it left empty goes.
LEMMA TrimmedDoes ==
  ASSUME NEW v, NEW w, NEW k \in Keys, NEW E, E = {k}, NEW cmd, Does(w, v, E, cmd), NEW a, Wrote(a, w),
         a.db = Trimmed(w.db, k)
  PROVE  Does(a, v, {}, cmd)
<1>1. SUFFICES ASSUME Data(v, {})
               PROVE  /\ a.db \in [Keys -> Values] /\ \A j \in Keys : a.db[j] # <<>>
                      /\ Effect(v.db, cmd) = Kept(a.db)
  BY WroteTrans DEF Does
<1>2. PICK db \in [Keys -> Values] : db = w.db /\ (\A j \in Keys : db[j] = <<>> => j = k) /\ Effect(v.db, cmd) = Kept(db)
  BY <1>1 DEF Does
<1>3. PICK d : d = a.db
  OBVIOUS
<1>4. d \in [Keys -> Values] /\ \A j \in Keys : d[j] # <<>>
  BY <1>2, <1>3, ValuesAssumption DEF Values, Trimmed
<1>5. Kept(d) = Kept(db)
  BY <1>2, <1>3, ValuesAssumption DEF Kept, Trimmed
<1>6. QED
  BY <1>2, <1>3, <1>4, <1>5

\* The end of most of them: who watches the key learns it, and the answer goes out.
LEMMA SignalledRan ==
  ASSUME NEW v, NEW w, NEW p, NEW c \in Clients, NEW k \in Keys, NEW X, X = {k}, Good(w, p, {}, X), Stays(w, v, c),
         NEW t, NEW cmd, Does(w, v, {}, cmd), NEW u, u = Propagate(Reply(TouchWatchedKey(w, k), c, t), cmd)
  PROVE  Ran(u, v, p, c)
<1>1. PICK R, Y : R = {} /\ Y = {}
  OBVIOUS
<1>2. PICK a : a = TouchWatchedKey(w, k)
  OBVIOUS
<1>3. PICK b : b = Reply(a, c, t)
  OBVIOUS
<1>4. Good(a, p, R, X \ {k}) /\ Stays(a, w, c) /\ Same(a, w)
  BY <1>1, <1>2, TouchStays
<1>5. X \ {k} = Y
  BY <1>1
<1>6. Good(b, p, R, Y) /\ Stays(b, a, c) /\ Same(b, a)
  BY <1>3, <1>4, <1>5, ReplyStays
<1>7. Good(u, p, R, Y) /\ Stays(u, b, c) /\ Copied(u, b, cmd)
  BY <1>2, <1>3, <1>6, PropagateStays
<1>8. Stays(u, v, c)
  BY <1>4, <1>6, <1>7, StaysTrans
<1>9. Carries(u, v)
  <2>1. Same(b, w)
    BY <1>4, <1>6, SameTrans
  <2>2. QED
    BY <1>7, <2>1, DoneCarries
<1>10. QED
  BY <1>1, <1>7, <1>8, <1>9 DEF Ran

\* An answer at the end; one command after another.
LEMMA RepliedRan ==
  ASSUME NEW v, NEW p, NEW c \in Clients, Good(v, p, {}, {}), NEW t, NEW u, u = Reply(v, c, t)
  PROVE  Ran(u, v, p, c)
BY ReplyStays, SameCarries DEF Ran

LEMMA RanTrans ==
  ASSUME NEW u, NEW v, NEW w, NEW p, NEW c \in Clients, Stays(u, v, c), Carries(u, v), Ran(w, u, p, c)
  PROVE  Ran(w, v, p, c)
BY StaysTrans, CarriesTrans DEF Ran

\* The commands on keys.
LEMMA SetRan ==
  ASSUME NEW v, NEW p, NEW c \in Clients, Good(v, p, {}, {}), NEW cmd, cmd.op = "set", cmd.k \in Keys, NEW u, u = SetCommand(v, c, cmd)
  PROVE  Ran(u, v, p, c)
<1>1. PICK k \in Keys : k = cmd.k
  OBVIOUS
<1>2. PICK g : g = v.gone \cup ToSet(Items(v.db[k]))
  OBVIOUS
<1>3. PICK w : w = [v EXCEPT !.gone = g, !.db[k] = Text]
  OBVIOUS
<1>4. u = Propagate(Reply(TouchWatchedKey(w, k), c, "ok"), cmd)
  BY <1>1, <1>2, <1>3, Zenon DEF SetCommand
<1>5. Alters(w, v, DataFields, {}, {}) /\ w.db = [v.db EXCEPT ![k] = Text] /\ Wrote(w, v)
  <2>1. Alters(w, v, {"gone", "db"}, {}, {}) /\ w.db = [v.db EXCEPT ![k] = Text]
    BY <1>3, Zenon DEF Good, Alters, Shape, Fields
  <2>2. Wrote(w, v)
    BY <2>1, AltersWrote
  <2>3. QED
    BY <2>1, <2>2 DEF Alters, DataFields
<1>6. DOMAIN v.db = Keys
  BY DEF Good, Serves
<1>7. DOMAIN w.db = Keys /\ (\A j \in Keys : j # k => w.db[j] = v.db[j]) /\ ~IsList(w.db[k])
  BY <1>5, <1>6 DEF IsList
<1>8. PICK R, X, Y : R = {} /\ X = {} /\ Y = {k}
  OBVIOUS
<1>9. Good(w, p, R, X \cup {k})
  BY <1>5, <1>7, <1>8, DbChanged
<1>10. X \cup {k} = Y
  BY <1>8
<1>11. Stays(w, v, c)
  BY <1>5, AltersStays
<1>12. Does(w, v, {}, cmd)
  <2>2. Effect(v.db, cmd) = [v.db EXCEPT ![k] = Text]
    BY <1>1 DEF Effect
  <2>3. ASSUME Data(v, {})
        PROVE  w.db \in [Keys -> Values] /\ \A j \in Keys : w.db[j] # <<>>
    BY <1>5, <2>3, ValuesAssumption DEF Data, Values
  <2>4. QED
    BY <1>5, <2>2, <2>3, DoesAll
<1>13. QED
  BY <1>4, <1>8, <1>9, <1>10, <1>11, <1>12, SignalledRan

LEMMA DelRan ==
  ASSUME NEW v, NEW p, NEW c \in Clients, Good(v, p, {}, {}), NEW cmd, cmd.op = "del", cmd.k \in Keys, NEW u, u = DelCommand(v, c, cmd)
  PROVE  Ran(u, v, p, c)
<1>1. PICK k \in Keys : k = cmd.k
  OBVIOUS
<1>2. PICK w : w = DbDelete(v, k)
  OBVIOUS
<1>3. PICK R, X, Y : R = {} /\ X = {} /\ Y = {k}
  OBVIOUS
<1>4. /\ Good(w, p, R, X \cup {k}) /\ Alters(w, v, {"db", "gone"}, {}, {})
      /\ w.db = [v.db EXCEPT ![k] = NoKey]
  <2>1. Good(v, p, R, X)
    BY <1>3
  <2>2. Good(w, p, R, X \cup {k}) /\ Alters(w, v, {"db", "gone"}, {}, {})
    BY <1>2, <2>1, DbDeleteGood
  <2>3. w.db = [v.db EXCEPT ![k] = NoKey]
    BY <1>2, Zenon DEF DbDelete, Good, Shape, Fields
  <2>4. QED
    BY <2>2, <2>3
<1>5. X \cup {k} = Y
  BY <1>3
<1>6. Stays(w, v, c)
  BY <1>4, AltersStays
<1>11. Does(w, v, {}, cmd)
  <2>1. Wrote(w, v)
    BY <1>4, AltersWrote
  <2>2. Effect(v.db, cmd) = [v.db EXCEPT ![k] = NoKey]
    BY <1>1 DEF Effect
  <2>3. ASSUME Data(v, {})
        PROVE  w.db \in [Keys -> Values] /\ \A j \in Keys : w.db[j] # <<>>
    BY <1>4, <2>3, ValuesAssumption DEF Data, Values
  <2>4. QED
    BY <1>4, <2>1, <2>2, <2>3, DoesAll
<1>7. u = Reply(v, c, "int") \/ u = Propagate(Reply(TouchWatchedKey(w, k), c, "int"), cmd)
  BY <1>1, <1>2 DEF DelCommand
<1>8. CASE u = Reply(v, c, "int")
  BY <1>8, RepliedRan
<1>9. CASE u = Propagate(Reply(TouchWatchedKey(w, k), c, "int"), cmd)
  BY <1>3, <1>4, <1>5, <1>6, <1>9, <1>11, SignalledRan
<1>10. QED
  BY <1>7, <1>8, <1>9

LEMMA RenameRan ==
  ASSUME NEW v, NEW p, NEW c \in Clients, Good(v, p, {}, {}), NEW cmd, cmd.op = "rename", cmd.k \in Keys, cmd.dst \in Keys,
         NEW u, u = RenameCommand(v, c, cmd)
  PROVE  Ran(u, v, p, c)
<1>1. PICK k \in Keys, d \in Keys : k = cmd.k /\ d = cmd.dst
  OBVIOUS
<1>2. PICK a : a = DbDelete(v, d)
  OBVIOUS
<1>3. PICK b : b = DbAdd(a, d, v.db[k])
  OBVIOUS
<1>4. PICK e : e = [b EXCEPT !.db[k] = NoKey]
  OBVIOUS
<1>5. PICK f : f = TouchWatchedKey(e, k)
  OBVIOUS
<1>6. u = Reply(v, c, "err") \/ u = Propagate(Reply(TouchWatchedKey(f, d), c, "ok"), cmd)
  BY <1>1, <1>2, <1>3, <1>4, <1>5, Zenon DEF RenameCommand
<1>7. PICK R, X, Y, Z : R = {} /\ X = {} /\ Y = {d} /\ Z = {d} \cup {k}
  OBVIOUS
<1>8. Good(a, p, R, X \cup {d}) /\ Alters(a, v, {"db", "gone"}, {}, {}) /\ a.db = [v.db EXCEPT ![d] = NoKey]
  <2>1. Good(v, p, R, X)
    BY <1>7
  <2>2. Good(a, p, R, X \cup {d}) /\ Alters(a, v, {"db", "gone"}, {}, {}) /\ SetsKey(a, v, d, NoKey)
    BY <1>2, <2>1, DbDeleteIs
  <2>3. QED
    BY <2>2 DEF SetsKey
<1>9. X \cup {d} = Y /\ Y \cup {d} = Y /\ Y \cup {k} = Z
  BY <1>7
<1>10. /\ Good(b, p, R, Y \cup {d}) /\ Alters(b, a, {"db", "ready", "isready"}, {}, {})
       /\ b.db = [a.db EXCEPT ![d] = v.db[k]]
  <2>1. Good(a, p, R, Y)
    BY <1>8, <1>9
  <2>2. PICK val : val = v.db[k]
    OBVIOUS
  <2>3. b = DbAdd(a, d, val)
    BY <1>3, <2>2
  <2>4. QED
    BY <2>1, <2>2, <2>3, DbAddGood
<1>11. Good(b, p, R, Y)
  BY <1>9, <1>10
<1>12. Alters(e, b, DataFields, {}, {}) /\ e.db = [b.db EXCEPT ![k] = NoKey] /\ Wrote(e, b)
  <2>1. Alters(e, b, {"db"}, {}, {}) /\ e.db = [b.db EXCEPT ![k] = NoKey]
    BY <1>4, <1>11, Zenon DEF Good, Alters, Shape, Fields
  <2>2. Wrote(e, b)
    BY <2>1, AltersWrote
  <2>3. QED
    BY <2>1, <2>2 DEF Alters, DataFields
<1>13. DOMAIN b.db = Keys
  BY <1>11 DEF Good, Serves
<1>14. DOMAIN e.db = Keys /\ (\A j \in Keys : j # k => e.db[j] = b.db[j]) /\ ~IsList(e.db[k])
  BY <1>12, <1>13 DEF IsList
<1>15. Good(e, p, R, Y \cup {k})
  BY <1>11, <1>12, <1>14, DbChanged
<1>16. Good(e, p, R, Z)
  BY <1>9, <1>15
<1>17. Good(f, p, R, Z \ {k}) /\ Stays(f, e, c) /\ Same(f, e)
  BY <1>5, <1>16, TouchStays
<1>18. Good(f, p, R, Y)
  <2>1. Z \ {k} \subseteq Y
    BY <1>7
  <2>2. QED
    BY <1>17, <2>1, GoodMore
<1>19. Stays(a, v, c) /\ Stays(b, a, c) /\ Stays(e, b, c)
  <2>1. Stays(a, v, c)
    BY <1>8, AltersStays
  <2>2. Stays(b, a, c)
    BY <1>10, AltersStays
  <2>3. Stays(e, b, c)
    BY <1>12, AltersStays
  <2>4. QED
    BY <2>1, <2>2, <2>3
<1>20. Stays(f, v, c)
  <2>1. Stays(e, v, c)
    BY <1>19, StaysTrans
  <2>2. QED
    BY <1>17, <2>1, StaysTrans
<1>24. Does(f, v, {}, cmd)
  <2>1. Wrote(f, v)
    <3>1. Wrote(a, v) /\ Wrote(b, a)
      BY <1>8, <1>10, AltersWrote
    <3>2. Wrote(e, v)
      BY <1>12, <3>1, WroteTrans
    <3>3. QED
      BY <1>17, <3>2, WroteTrans DEF Same
  <2>2. Effect(v.db, cmd) = [v.db EXCEPT ![d] = v.db[k], ![k] = NoKey]
    BY <1>1 DEF Effect
  <2>3. f.db = e.db
    BY <1>17 DEF Same
  <2>4. ASSUME Data(v, {})
        PROVE  f.db \in [Keys -> Values] /\ (\A j \in Keys : f.db[j] # <<>>) /\ Effect(v.db, cmd) = f.db
    <3>1. PICK db \in [Keys -> Values] : db = v.db /\ \A j \in Keys : db[j] # <<>>
      BY <2>4 DEF Data
    <3>2. f.db = [[[db EXCEPT ![d] = NoKey] EXCEPT ![d] = db[k]] EXCEPT ![k] = NoKey]
      BY <1>8, <1>10, <1>12, <2>3, <3>1
    <3>3. f.db = [db EXCEPT ![d] = db[k], ![k] = NoKey]
      BY <3>2
    <3>4. f.db \in [Keys -> Values] /\ \A j \in Keys : f.db[j] # <<>>
      BY <3>1, <3>3, ValuesAssumption DEF Values
    <3>5. QED
      BY <2>2, <3>1, <3>3, <3>4
  <2>5. QED
    BY <2>1, <2>4, DoesAll
<1>21. CASE u = Reply(v, c, "err")
  BY <1>21, RepliedRan
<1>22. CASE u = Propagate(Reply(TouchWatchedKey(f, d), c, "ok"), cmd)
  BY <1>7, <1>18, <1>20, <1>22, <1>24, SignalledRan
<1>23. QED
  BY <1>6, <1>21, <1>22

LEMMA FlushallRan ==
  ASSUME NEW v, NEW p, NEW c \in Clients, Good(v, p, {}, {}), NEW cmd, cmd.op = "flush", NEW u, u = FlushallCommand(v, c, cmd)
  PROVE  Ran(u, v, p, c)
<1>1. PICK R, X : R = {} /\ X = {}
  OBVIOUS
<1>2. PICK a : a = TouchWatchedKeysOnFlush(v)
  OBVIOUS
<1>3. PICK b : b = Flushed(a)
  OBVIOUS
<1>4. PICK d : d = Reply(b, c, "ok")
  OBVIOUS
<1>5. u = Propagate(d, cmd)
  BY <1>2, <1>3, <1>4 DEF FlushallCommand
<1>6. Good(a, p, R, X) /\ Touched(a, v) /\ \A x \in Clients : Knows(a, v, x)
  BY <1>1, <1>2, FlushGood
<1>7. \A x \in Clients : Knows(a, a, x)
  <2>1. a.db = v.db /\ \A x \in Clients : a.c[x].watched = v.c[x].watched
    BY <1>6, Zenon DEF Touched, Alters, Fields, CFields
  <2>2. QED
    BY <1>6, <2>1 DEF Knows
<1>8. Good(b, p, R, X) /\ Alters(b, a, {"db", "gone"}, {}, {})
  BY <1>3, <1>6, <1>7, FlushedGood
<1>9. Stays(a, v, c)
  BY <1>6, AltersStays DEF Touched
<1>10. Stays(b, a, c)
  BY <1>8, AltersStays
<1>11. Good(d, p, R, X) /\ Stays(d, b, c) /\ Same(d, b)
  BY <1>4, <1>8, ReplyStays
<1>12. Good(u, p, R, X) /\ Stays(u, d, c) /\ Copied(u, d, cmd)
  BY <1>5, <1>11, PropagateStays
<1>13. Stays(u, v, c)
  <2>1. Stays(b, v, c)
    BY <1>9, <1>10, StaysTrans
  <2>2. Stays(d, v, c)
    BY <1>11, <2>1, StaysTrans
  <2>3. QED
    BY <1>12, <2>2, StaysTrans
<1>14. Does(b, v, {}, cmd)
  <2>1. Same(a, v)
    BY <1>6, AltersSame DEF Touched
  <2>2. Wrote(b, a)
    BY <1>8, AltersWrote
  <2>3. Wrote(b, v)
    BY <2>1, <2>2, WroteTrans DEF Same
  <2>4. PICK g, l : g = [k \in Keys |-> NoKey] /\ l = a.gone \cup UNION {ToSet(Items(a.db[k])) : k \in Keys}
    OBVIOUS
  <2>5. b = [a EXCEPT !.db = g, !.gone = l]
    BY <1>3, <2>4 DEF Flushed
  <2>6. b.db = g
    BY <1>6, <2>5, Zenon DEF Good, Shape, Fields
  <2>7. g \in [Keys -> Values] /\ \A k \in Keys : g[k] # <<>>
    BY <2>4, ValuesAssumption DEF Values
  <2>8. Effect(v.db, cmd) = g
    BY <2>4 DEF Effect
  <2>9. QED
    BY <2>3, <2>6, <2>7, <2>8, DoesAll
<1>15. Carries(u, v)
  BY <1>11, <1>12, <1>14, DoneCarries
<1>16. QED
  BY <1>1, <1>12, <1>13, <1>15 DEF Ran

-----------------------------------------------------------------------------
(* Lists: what is pushed and popped. *)

\* A list that is empty goes.
LEMMA DeleteIfEmptyGood ==
  ASSUME NEW v, NEW p, NEW R, NEW X, Good(v, p, R, X), NEW k \in Keys, k \in X, NEW c \in Clients,
         NEW u, u = DeleteIfEmpty(v, k)
  PROVE  Good(u, p, R, X) /\ Stays(u, v, c) /\ Wrote(u, v) /\ u.db = Trimmed(v.db, k)
<1>1. CASE v.db[k] # <<>>
  <2>1. u = v
    BY <1>1 DEF DeleteIfEmpty
  <2>2. u.db = Trimmed(v.db, k)
    BY <1>1, <2>1 DEF Trimmed
  <2>3. Stays(u, v, c) /\ Wrote(u, v)
    BY <2>1, StaysSame, SameSelf DEF Same
  <2>4. QED
    BY <2>1, <2>2, <2>3
<1>2. CASE v.db[k] = <<>>
  <2>5. u = DbDelete(v, k)
    BY <1>2 DEF DeleteIfEmpty
  <2>1. k \in ToSet(v.ready) \cup R \cup X
    OBVIOUS
  <2>2. /\ AllDirty(v, k) \/ k \in ToSet(v.ready) \cup R \cup X => Good(u, p, R, X)
        /\ Alters(u, v, {"db", "gone"}, {}, {})
    BY <2>5, DbDeleteGood
  <2>3. Stays(u, v, c) /\ Wrote(u, v)
    BY <2>2, AltersStays, AltersWrote
  <2>6. u.db = [v.db EXCEPT ![k] = NoKey]
    BY <2>5, Zenon DEF DbDelete, Good, Shape, Fields
  <2>7. u.db = Trimmed(v.db, k)
    BY <1>2, <2>6 DEF Trimmed
  <2>4. QED
    BY <2>1, <2>2, <2>3, <2>7
<1>3. QED
  BY <1>1, <1>2

\* The end of the list goes.
Shortened(v, k, h) == [v EXCEPT !.db = Rest(@, k, h)]

LEMMA RestGood ==
  ASSUME NEW v, NEW p, NEW R, NEW X, Good(v, p, R, X), NEW k \in Keys, IsList(v.db[k]), NEW c \in Clients, NEW h,
         NEW u, u = Shortened(v, k, h)
  PROVE  Good(u, p, R, X \cup {k}) /\ Stays(u, v, c) /\ u.ready = v.ready /\ u.waiting = v.waiting
         /\ (\A j \in Keys : j # k => u.db[j] = v.db[j]) /\ Wrote(u, v) /\ u.db = Rest(v.db, k, h)
<1>1. PICK d : d = Rest(v.db, k, h)
  OBVIOUS
<1>2. DOMAIN d = Keys /\ \A j \in Keys : j # k => d[j] = v.db[j]
  BY <1>1, RestIs DEF Good, Serves
<1>3. u = [v EXCEPT !.db = d]
  BY <1>1 DEF Shortened
<1>4. Alters(u, v, {"db"}, {}, {}) /\ u.db = d
  BY <1>3, SetDbIs DEF Good
<1>5. DOMAIN u.db = Keys /\ (\A j \in Keys : j # k => u.db[j] = v.db[j])
  BY <1>2, <1>4
<1>6. v.waiting[k] # <<>> => k \in ToSet(v.ready) \cup R
  BY DEF Good, Serves
<1>7. Good(u, p, R, X \cup {k})
  BY <1>4, <1>5, <1>6, SetDbGood
<1>8. Stays(u, v, c) /\ Wrote(u, v)
  BY <1>4, AltersStays, AltersWrote
<1>9. u.ready = v.ready /\ u.waiting = v.waiting
  BY <1>4, Zenon DEF Alters, Fields
<1>10. QED
  BY <1>1, <1>4, <1>5, <1>7, <1>8, <1>9

\* The end of a pop.
LEMMA TrimmedRan ==
  ASSUME NEW v, NEW w, NEW p, NEW c \in Clients, NEW k \in Keys, NEW X, X = {k}, Good(w, p, {}, X), Stays(w, v, c),
         NEW cmd, Does(w, v, X, cmd), NEW u, u = Propagate(TouchWatchedKey(DeleteIfEmpty(w, k), k), cmd)
  PROVE  Ran(u, v, p, c)
<1>1. PICK R, Y : R = {} /\ Y = {}
  OBVIOUS
<1>2. PICK a : a = DeleteIfEmpty(w, k)
  OBVIOUS
<1>3. PICK b : b = TouchWatchedKey(a, k)
  OBVIOUS
<1>4. Good(a, p, R, X) /\ Stays(a, w, c) /\ Wrote(a, w) /\ a.db = Trimmed(w.db, k)
  BY <1>1, <1>2, DeleteIfEmptyGood
<1>5. Good(b, p, R, X \ {k}) /\ Stays(b, a, c) /\ Same(b, a)
  BY <1>3, <1>4, TouchStays
<1>6. X \ {k} = Y
  BY <1>1
<1>7. Good(b, p, R, Y)
  BY <1>5, <1>6
<1>8. Good(u, p, R, Y) /\ Stays(u, b, c) /\ Copied(u, b, cmd)
  BY <1>2, <1>3, <1>7, PropagateStays
<1>9. Stays(a, v, c)
  BY <1>4, StaysTrans
<1>10. Stays(b, v, c)
  BY <1>5, <1>9, StaysTrans
<1>11. Stays(u, v, c)
  BY <1>8, <1>10, StaysTrans
<1>12. Does(a, v, {}, cmd)
  BY <1>4, TrimmedDoes
<1>13. Carries(u, v)
  BY <1>5, <1>8, <1>12, DoneCarries
<1>14. QED
  BY <1>1, <1>8, <1>11, <1>13 DEF Ran

\* The element goes to who asked for it ...
LEMMA TakenRan ==
  ASSUME NEW v, NEW p, NEW c \in Clients, Good(v, p, {}, {}), NEW k \in Keys, IsList(v.db[k]), NEW h, NEW e,
         NEW cmd, cmd.op = "pop", cmd.k = k, cmd.head = h,
         NEW u, u = Propagate(TouchWatchedKey(DeleteIfEmpty(ReplyWith(Shortened(v, k, h), c, "pop", e), k), k), cmd)
  PROVE  Ran(u, v, p, c)
<1>1. PICK R, X, Y : R = {} /\ X = {} /\ Y = {k}
  OBVIOUS
<1>2. PICK a : a = Shortened(v, k, h)
  OBVIOUS
<1>11. Good(v, p, R, X)
  BY <1>1
<1>3. Good(a, p, R, X \cup {k}) /\ Stays(a, v, c) /\ Wrote(a, v) /\ a.db = Rest(v.db, k, h)
  <2>1. Good(a, p, R, X \cup {k}) /\ Stays(a, v, c) /\ Wrote(a, v)
    BY <1>2, <1>11, RestGood
  <2>2. PICK l : l = Rest(v.db, k, h)
    OBVIOUS
  <2>3. a = [v EXCEPT !.db = l]
    BY <1>2, <2>2 DEF Shortened
  <2>4. a.db = l
    BY <2>3, SetDbIs DEF Good
  <2>5. QED
    BY <2>1, <2>2, <2>4
<1>4. X \cup {k} = Y
  BY <1>1
<1>5. Good(a, p, R, Y)
  BY <1>3, <1>4
<1>6. PICK b : b = ReplyWith(a, c, "pop", e)
  OBVIOUS
<1>7. Good(b, p, R, Y) /\ Stays(b, a, c) /\ Same(b, a)
  BY <1>5, <1>6, ReplyStays
<1>8. Stays(b, v, c)
  BY <1>3, <1>7, StaysTrans
<1>9. u = Propagate(TouchWatchedKey(DeleteIfEmpty(b, k), k), cmd)
  BY <1>2, <1>6
<1>10. Does(b, v, Y, cmd)
  <2>1. Wrote(b, v)
    BY <1>3, <1>7, WroteTrans DEF Same
  <2>2. ASSUME Data(v, {})
        PROVE  /\ b.db \in [Keys -> Values] /\ \A j \in Keys : b.db[j] = <<>> => j \in Y
               /\ Effect(v.db, cmd) = Kept(b.db)
    <3>1. PICK db \in [Keys -> Values] : db = v.db /\ \A j \in Keys : db[j] # <<>>
      BY <2>2 DEF Data
    <3>2. PICK d : d = Rest(db, k, h)
      OBVIOUS
    <3>3. d \in [Keys -> Values] /\ (\A j \in Keys : j # k => d[j] = db[j]) /\ Kept(d) = Popped(Kept(db), k, h)
      BY <3>1, <3>2, RestValue
    <3>4. Kept(db) = db
      BY <3>1, KeptAll
    <3>5. Effect(v.db, cmd) = Popped(db, k, h)
      BY <3>1 DEF Effect
    <3>6. b.db = d
      BY <1>3, <1>7, <3>1, <3>2 DEF Same
    <3>7. QED
      BY <1>1, <3>1, <3>3, <3>4, <3>5, <3>6
  <2>3. QED
    BY <2>1, <2>2 DEF Does
<1>12. QED
  BY <1>1, <1>7, <1>8, <1>9, <1>10, TrimmedRan

\* ... in LPOP and RPOP.
LEMMA PopRan ==
  ASSUME NEW v, NEW p, NEW c \in Clients, Good(v, p, {}, {}), NEW cmd, cmd.op = "pop", cmd.k \in Keys, NEW u, u = PopCommand(v, c, cmd)
  PROVE  Ran(u, v, p, c)
<1>20. PICK k \in Keys : k = cmd.k
  OBVIOUS
<1>21. PICK h, e : h = cmd.head /\ e = <<First(v.db, k, h)>>
  OBVIOUS
<1>1. k = cmd.k /\ h = cmd.head /\ e = <<First(v.db, k, h)>>
  BY <1>20, <1>21
<1>2. CASE v.db[k] = NoKey
  <2>1. u = Reply(v, c, "nil")
    BY <1>1, <1>2 DEF PopCommand
  <2>2. QED
    BY <2>1, RepliedRan
<1>3. CASE v.db[k] # NoKey /\ v.db[k] = Text
  <2>1. u = Reply(v, c, "wrongtype")
    BY <1>1, <1>3 DEF PopCommand
  <2>2. QED
    BY <2>1, RepliedRan
<1>4. CASE v.db[k] # NoKey /\ v.db[k] # Text
  <2>1. IsList(v.db[k])
    BY <1>4 DEF IsList
  <2>2. u = Propagate(TouchWatchedKey(DeleteIfEmpty(ReplyWith(Shortened(v, k, h), c, "pop", e), k), k), cmd)
    BY <1>1, <1>4 DEF PopCommand, Shortened
  <2>3. QED
    BY <1>1, <2>1, <2>2, TakenRan
<1>5. QED
  BY <1>2, <1>3, <1>4

\* The list is made if it was not there ...
LEMMA MadeIs ==
  ASSUME NEW v, NEW p, NEW R, NEW X, Good(v, p, R, X), NEW k \in Keys, NEW c \in Clients, NEW u, u = Made(v, k)
  PROVE  Good(u, p, R, X \cup {k}) /\ Stays(u, v, c) /\ (u.db[k] = Text => v.db[k] = Text) /\ u.db[k] # NoKey
         /\ Wrote(u, v) /\ Makes(u, v, k)
<1>1. /\ Good(u, p, R, X \cup {k}) /\ Pushes(u, v) /\ (u.db[k] = Text => v.db[k] = Text) /\ u.db[k] # NoKey
      /\ Wrote(u, v) /\ Makes(u, v, k)
  BY MadeGood, Zenon
<1>2. Stays(u, v, c)
  BY <1>1, AltersStays DEF Pushes
<1>3. QED
  BY <1>1, <1>2

\* ... in LPUSH and RPUSH, which signal the key.
LEMMA PushRan ==
  ASSUME NEW v, NEW p, NEW c \in Clients, Good(v, p, {}, {}), NEW cmd, cmd.op = "push", cmd.k \in Keys,
         cmd.v \in Elements, NEW u, u = PushCommand(v, c, cmd)
  PROVE  Ran(u, v, p, c)
<1>1. PICK k \in Keys : k = cmd.k
  OBVIOUS
<1>2. PICK R, X, Y : R = {} /\ X = {} /\ Y = {k}
  OBVIOUS
<1>3. CASE v.db[k] = Text
  <2>1. u = Reply(v, c, "wrongtype")
    BY <1>1, <1>3 DEF PushCommand
  <2>2. QED
    BY <2>1, RepliedRan
<1>4. CASE v.db[k] # Text
  <2>1. PICK a : a = Made(v, k)
    OBVIOUS
  <2>2. PICK d, g : d = Pushed(a.db, k, cmd.v, cmd.head) /\ g = a.pushed \cup {cmd.v}
    OBVIOUS
  <2>3. PICK b : b = [a EXCEPT !.db = d, !.pushed = g]
    OBVIOUS
  <2>4. u = Propagate(Reply(TouchWatchedKey(b, k), c, "int"), cmd)
    BY <1>1, <1>4, <2>1, <2>2, <2>3, Zenon DEF PushCommand, Made
  <2>5. /\ Good(a, p, R, X \cup {k}) /\ Stays(a, v, c) /\ (a.db[k] = Text => v.db[k] = Text) /\ a.db[k] # NoKey
        /\ Wrote(a, v) /\ Makes(a, v, k)
    <3>1. Good(v, p, R, X)
      BY <1>2
    <3>2. QED
      BY <2>1, <3>1, MadeIs
  <2>6. X \cup {k} = Y /\ Y \cup {k} = Y
    BY <1>2
  <2>7. Good(a, p, R, Y)
    BY <2>5, <2>6
  <2>8. IsList(a.db[k])
    BY <1>4, <2>5 DEF IsList
  <2>9. DOMAIN d = Keys /\ \A j \in Keys : j # k => d[j] = a.db[j]
    BY <2>2, <2>7, PushedIs DEF Good, Serves
  <2>10. Alters(b, a, DataFields, {}, {}) /\ b.db = d /\ Wrote(b, a)
    <3>1. Alters(b, a, {"db", "pushed"}, {}, {}) /\ b.db = d
      BY <2>3, <2>7, Zenon DEF Good, Alters, Shape, Fields
    <3>2. Wrote(b, a)
      BY <3>1, AltersWrote
    <3>3. QED
      BY <3>1, <3>2 DEF Alters, DataFields
  <2>11. DOMAIN b.db = Keys /\ \A j \in Keys : j # k => b.db[j] = a.db[j]
    BY <2>9, <2>10
  <2>12. a.waiting[k] # <<>> => k \in ToSet(a.ready) \cup R
    BY <2>7, <2>8 DEF Good, Serves
  <2>13. Good(b, p, R, Y \cup {k})
    BY <2>7, <2>10, <2>11, <2>12, DbChanged
  <2>14. Good(b, p, R, Y)
    BY <2>6, <2>13
  <2>15. Stays(a, v, c)
    BY <2>5
  <2>16. Stays(b, a, c)
    BY <2>10, AltersStays
  <2>17. Stays(b, v, c)
    BY <2>15, <2>16, StaysTrans
  <2>18. Does(b, v, {}, cmd)
    <3>1. Wrote(b, v)
      BY <2>5, <2>10, WroteTrans
    <3>2. ASSUME Data(v, {})
          PROVE  b.db \in [Keys -> Values] /\ (\A j \in Keys : b.db[j] # <<>>) /\ Effect(v.db, cmd) = b.db
      <4>7. PICK h : h = cmd.head
        OBVIOUS
      <4>8. PICK db \in [Keys -> Values], val \in Elements : db = v.db /\ val = cmd.v /\ \A j \in Keys : db[j] # <<>>
        BY <3>2 DEF Data
      <4>1. db = v.db /\ val = cmd.v /\ h = cmd.head /\ \A j \in Keys : db[j] # <<>>
        BY <4>7, <4>8
      <4>2. DOMAIN db = Keys /\ a.db = IF db[k] = NoKey THEN [db EXCEPT ![k] = <<>>] ELSE db
        BY <2>5, <4>1 DEF Makes
      <4>3. d = Pushed(db, k, val, h)
        BY <2>2, <4>1, <4>2, MadePushed
      <4>4. d \in [Keys -> Values] /\ d[k] # <<>> /\ \A j \in Keys : j # k => d[j] = db[j]
        BY <4>3, PushedValue
      <4>5. Effect(v.db, cmd) = Pushed(db, k, val, h)
        BY <1>1, <4>1 DEF Effect
      <4>6. QED
        BY <2>10, <4>1, <4>3, <4>4, <4>5
    <3>3. QED
      BY <3>1, <3>2, DoesAll
  <2>19. QED
    BY <1>2, <2>4, <2>14, <2>17, <2>18, SignalledRan
<1>5. QED
  BY <1>3, <1>4

\* Only k may be empty.
LEMMA KeptTrimmed ==
  ASSUME NEW db \in [Keys -> Values], NEW k \in Keys, \A j \in Keys : j # k => db[j] # <<>>
  PROVE  Kept(db) = Trimmed(db, k)
BY DEF Kept, Trimmed

\* RPOPLPUSH: both keys are signalled.
LEMMA RpopLpushRan ==
  ASSUME NEW v, NEW p, NEW c \in Clients, Good(v, p, {}, {}), NEW cmd, cmd.k \in Keys, cmd.dst \in Keys,
         NEW u, u = RpopLpushCommand(v, c, cmd)
  PROVE  Ran(u, v, p, c)
<1>20. PICK k \in Keys, d \in Keys : k = cmd.k /\ d = cmd.dst
  OBVIOUS
<1>21. PICK val : val = First(v.db, k, FALSE)
  OBVIOUS
<1>1. k = cmd.k /\ d = cmd.dst /\ val = First(v.db, k, FALSE)
  BY <1>20, <1>21
<1>2. PICK R, X, Y : R = {} /\ X = {} /\ Y = {k}
  OBVIOUS
<1>3. CASE v.db[k] = NoKey
  <2>1. u = Reply(v, c, "nil")
    BY <1>1, <1>3 DEF RpopLpushCommand
  <2>2. QED
    BY <2>1, RepliedRan
<1>4. CASE v.db[k] # NoKey /\ Text \in {v.db[k], v.db[d]}
  <2>1. u = Reply(v, c, "wrongtype")
    BY <1>1, <1>4 DEF RpopLpushCommand
  <2>2. QED
    BY <2>1, RepliedRan
<1>5. CASE v.db[k] # NoKey /\ Text \notin {v.db[k], v.db[d]}
  <2>1. PICK a : a = Shortened(v, k, FALSE)
    OBVIOUS
  <2>2. PICK b : b = RpopLpushHandlePush(a, c, d, val)
    OBVIOUS
  <2>3. PICK e : e = [op |-> "rpoplpush", k |-> k, dst |-> d]
    OBVIOUS
  <2>4. u = Propagate(TouchWatchedKey(DeleteIfEmpty(b, k), k), e)
    BY <1>1, <1>5, <2>1, <2>2, <2>3 DEF RpopLpushCommand, Shortened
  <2>5. IsList(v.db[k])
    BY <1>5 DEF IsList
  <2>6. /\ Good(a, p, R, X \cup {k}) /\ Stays(a, v, c) /\ a.ready = v.ready /\ a.waiting = v.waiting
        /\ (\A j \in Keys : j # k => a.db[j] = v.db[j]) /\ Wrote(a, v)
    <3>1. Good(v, p, R, X)
      BY <1>2
    <3>2. PICK h : h = FALSE
      OBVIOUS
    <3>3. a = Shortened(v, k, h)
      BY <2>1, <3>2
    <3>4. Good(a, p, R, X \cup {k})
      BY <2>5, <3>1, <3>3, RestGood
    <3>5. Stays(a, v, c)
      BY <2>5, <3>1, <3>3, RestGood
    <3>6. Good(a, p, R, X \cup {k}) /\ Stays(a, v, c) /\ a.ready = v.ready /\ a.waiting = v.waiting
      BY <2>5, <3>1, <3>3, RestGood
    <3>7. \A j \in Keys : j # k => a.db[j] = v.db[j]
      <4>1. DOMAIN Rest(v.db, k, h) = Keys /\ \A j \in Keys : j # k => Rest(v.db, k, h)[j] = v.db[j]
        BY RestIs DEF Good, Serves
      <4>2. PICK l : l = Rest(v.db, k, h)
        OBVIOUS
      <4>3. a.db = l
        BY <3>1, <3>3, <4>2, SetDbIs DEF Shortened, Good
      <4>4. QED
        BY <4>1, <4>2, <4>3
    <3>9. Wrote(a, v)
      BY <2>5, <3>1, <3>3, RestGood
    <3>8. QED
      BY <3>4, <3>5, <3>6, <3>7, <3>9
  <2>7. X \cup {k} = Y
    BY <1>2
  <2>8. Good(a, p, R, Y)
    BY <2>6, <2>7
  <2>9. a.db[d] # Text \/ a.waiting[d] = <<>> \/ d \in ToSet(a.ready) \cup R
    <3>1. CASE d # k
      BY <1>5, <2>6, <3>1
    <3>2. CASE d = k
      <4>1. v.waiting[k] # <<>> => k \in ToSet(v.ready)
        BY <2>5 DEF Good, Serves
      <4>2. QED
        BY <2>6, <3>2, <4>1
    <3>3. QED
      BY <3>1, <3>2
  <2>10. Good(b, p, R, Y) /\ Pushes(b, a) /\ Wrote(b, a) /\ Puts(b, a, d, val)
    BY <2>2, <2>8, <2>9, RpopLpushHandlePushGood
  <2>11. Stays(b, a, c)
    BY <2>10, AltersStays DEF Pushes
  <2>12. Stays(b, v, c)
    BY <2>6, <2>11, StaysTrans
  <2>13. Does(b, v, Y, e)
    <3>1. Wrote(b, v)
      BY <2>6, <2>10, WroteTrans
    <3>2. ASSUME Data(v, {})
          PROVE  /\ b.db \in [Keys -> Values] /\ \A j \in Keys : b.db[j] = <<>> => j \in Y
                 /\ Effect(v.db, e) = Kept(b.db)
      <4>1. PICK db \in [Keys -> Values] : db = v.db /\ \A j \in Keys : db[j] # <<>>
        BY <3>2 DEF Data
      <4>13. PICK h, l : h = FALSE /\ l = TRUE
        OBVIOUS
      <4>14. PICK r : r = Rest(db, k, h)
        OBVIOUS
      <4>15. PICK m : m = Pushed(r, d, val, l)
        OBVIOUS
      <4>2. IsList(db[k]) /\ db[k] # <<>>
        BY <2>5, <4>1
      <4>3. r \in [Keys -> Values] /\ (\A j \in Keys : j # k => r[j] = db[j]) /\ First(db, k, h) \in Elements
        BY <4>2, <4>14, RestValue
      <4>4. val \in Elements
        BY <1>1, <4>1, <4>3, <4>13
      <4>5. m \in [Keys -> Values] /\ m[d] # <<>> /\ \A j \in Keys : j # d => m[j] = r[j]
        BY <4>3, <4>4, <4>15, PushedValue
      <4>6. \A j \in Keys : j # k => m[j] # <<>>
        BY <4>1, <4>3, <4>5
      <4>7. Kept(m) = Trimmed(m, k)
        BY <4>5, <4>6, KeptTrimmed
      <4>8. PICK z : z = a.db
        OBVIOUS
      <4>9. z = r
        <5>1. a = [v EXCEPT !.db = r]
          BY <2>1, <4>1, <4>13, <4>14 DEF Shortened
        <5>2. QED
          BY <4>8, <5>1, SetDbIs DEF Good
      <4>10. b.db = m
        BY <2>10, <4>8, <4>9, <4>13, <4>15 DEF Puts
      <4>11. Effect(v.db, e) = Trimmed(m, k)
        <5>1. e.op = "rpoplpush" /\ e.k = k /\ e.dst = d
          BY <2>3
        <5>2. Effect(db, e) = Trimmed(Pushed(Rest(db, k, FALSE), d, First(db, k, FALSE), TRUE), k)
          BY <5>1 DEF Effect
        <5>3. QED
          BY <1>1, <4>1, <4>13, <4>14, <4>15, <5>2
      <4>12. QED
        BY <1>2, <4>5, <4>6, <4>7, <4>10, <4>11
    <3>3. QED
      BY <3>1, <3>2 DEF Does
  <2>14. QED
    BY <1>2, <2>4, <2>10, <2>12, <2>13, TrimmedRan
<1>6. QED
  BY <1>3, <1>4, <1>5

\* A client begins to wait, unless it runs a transaction.
LEMMA BlockedRan ==
  ASSUME NEW v, NEW p, NEW c \in Clients, Good(v, p, {}, {}), NEW keys, NEW n, NEW target, NEW h,
         MayWait(v, c, keys, target, h),
         NEW u, u = BlockForKeys(v, c, keys, n, target, h)
  PROVE  Ran(u, v, p, c)
<1>1. PICK R, X : R = {} /\ X = {}
  OBVIOUS
<1>5. Good(v, p, R, X)
  BY <1>1
<1>2. Good(u, p, R, X) /\ Alters(u, v, {"waiting"}, {"keys", "timeout", "target", "head"}, {"blocked"})
  BY <1>5, BlockForKeysGood
<1>3. Stays(u, v, c) /\ Carries(u, v)
  BY <1>2, AltersStays, AltersSame, SameCarries
<1>4. QED
  BY <1>1, <1>2, <1>3 DEF Ran

MayBlock(v, c) == v.c[c].up /\ ("blocked" \in v.c[c].flags => "multi" \in v.c[c].flags)

\* BLPOP takes from the first list that is there, or blocks.
LEMMA BlockingPopRan ==
  ASSUME NEW v, NEW p, NEW c \in Clients, Good(v, p, {}, {}), MayBlock(v, c), NEW cmd, cmd.keys \in Seq(Keys), NEW n,
         NEW u, u = BlockingPop(v, c, cmd, n)
  PROVE  Ran(u, v, p, c)
<1>. DEFINE used == {i \in DOMAIN cmd.keys : v.db[cmd.keys[i]] # NoKey}
            least == CHOOSE i \in used : \A j \in used : i <= j
            key == cmd.keys[least]
            z == Propagate(TouchWatchedKey(DeleteIfEmpty(ReplyWith(Shortened(v, key, cmd.head), c, "pop",
                                                                   <<First(v.db, key, cmd.head)>>), key), key),
                           [op |-> "pop", k |-> key, head |-> cmd.head])
<1>1. u = IF used = {}
          THEN IF Has(v, c, "multi") THEN Reply(v, c, "nil") ELSE BlockForKeys(v, c, cmd.keys, n, None, cmd.head)
          ELSE IF v.db[key] = Text THEN Reply(v, c, "wrongtype") ELSE z
  BY DEF BlockingPop, Shortened
<1>2. PICK q \in Seq(Keys) : q = cmd.keys
  OBVIOUS
<1>3. PICK m \in Nat : m = Len(q) /\ DOMAIN q = 1 .. m /\ \A i \in 1 .. m : q[i] \in Keys
  BY LenProperties
<1>4. \A i : i \in used <=> i \in 1 .. m /\ v.db[q[i]] # NoKey
  BY <1>2, <1>3
<1>5. PICK i0 : i0 = least
  OBVIOUS
<1>6. used # {} => i0 \in used
  <2>1. HAVE used # {}
  <2>2. used \in SUBSET Nat
    BY <1>4
  <2>3. \E i \in used : \A j \in used : i <= j
    BY <2>1, <2>2, LeastNat
  <2>4. QED
    BY <1>5, <2>3, Zenon
<1>. HIDE DEF used, least
<1>7. PICK k, h : k = key /\ h = cmd.head
  OBVIOUS
<1>8. PICK e, pop : e = <<First(v.db, k, h)>> /\ pop = [op |-> "pop", k |-> k, head |-> h]
  OBVIOUS
<1>13. z = Propagate(TouchWatchedKey(DeleteIfEmpty(ReplyWith(Shortened(v, k, h), c, "pop", e), k), k), pop)
  BY <1>7, <1>8
<1>14. k = q[i0]
  BY <1>2, <1>5, <1>7
<1>15. u = IF used = {}
           THEN IF Has(v, c, "multi") THEN Reply(v, c, "nil") ELSE BlockForKeys(v, c, q, n, None, h)
           ELSE IF v.db[k] = Text THEN Reply(v, c, "wrongtype") ELSE z
  BY <1>1, <1>2, <1>7
<1>. HIDE DEF key, z
<1>9. CASE used = {} /\ Has(v, c, "multi")
  <2>1. u = Reply(v, c, "nil")
    BY <1>15, <1>9
  <2>2. QED
    BY <2>1, RepliedRan
<1>10. CASE used = {} /\ ~Has(v, c, "multi")
  <2>1. u = BlockForKeys(v, c, q, n, None, h)
    BY <1>15, <1>10
  <2>2. v.c[c].up /\ "blocked" \notin v.c[c].flags
    BY <1>10 DEF MayBlock, Has
  <2>3. \A j \in ToSet(q) : v.db[j] = NoKey
    <3>1. \A i \in 1 .. m : v.db[q[i]] = NoKey
      BY <1>4, <1>10
    <3>2. QED
      BY <1>3, <3>1, SetOfSeq
  <2>4. PICK target \in Keys \cup {None} : target = None
    OBVIOUS
  <2>5. u = BlockForKeys(v, c, q, n, target, h)
    BY <2>1, <2>4
  <2>6. MayWait(v, c, q, target, h)
    BY <2>2, <2>3, <2>4 DEF MayWait
  <2>7. QED
    BY <2>5, <2>6, BlockedRan, Zenon
<1>11. CASE used # {}
  <2>3. k \in Keys /\ v.db[k] # NoKey
    BY <1>3, <1>4, <1>6, <1>11, <1>14
  <2>4. CASE v.db[k] = Text
    <3>1. u = Reply(v, c, "wrongtype")
      BY <1>15, <1>11, <2>4
    <3>2. QED
      BY <3>1, RepliedRan
  <2>5. CASE v.db[k] # Text
    <3>1. u = z
      BY <1>15, <1>11, <2>5
    <3>2. IsList(v.db[k])
      BY <2>3, <2>5 DEF IsList
    <3>3. u = Propagate(TouchWatchedKey(DeleteIfEmpty(ReplyWith(Shortened(v, k, h), c, "pop", e), k), k), pop)
      BY <1>13, <3>1
    <3>5. pop.op = "pop" /\ pop.k = k /\ pop.head = h
      BY <1>8
    <3>4. QED
      BY <2>3, <3>2, <3>3, <3>5, TakenRan
  <2>6. QED
    BY <2>4, <2>5
<1>12. QED
  BY <1>9, <1>10, <1>11, SMTT(30)

\* BRPOPLPUSH takes if the list is there, or blocks.
LEMMA BrpopLpushRan ==
  ASSUME NEW v, NEW p, NEW c \in Clients, Good(v, p, {}, {}), MayBlock(v, c), NEW cmd, cmd.k \in Keys, cmd.dst \in Keys, NEW n,
         NEW u, u = BrpopLpushCommand(v, c, cmd, n)
  PROVE  Ran(u, v, p, c)
<1>1. CASE v.db[cmd.k] = NoKey /\ ~Has(v, c, "multi")
  <2>1. PICK k \in Keys, target \in Keys \cup {None} : k = cmd.k /\ target = cmd.dst
    OBVIOUS
  <2>2. PICK q \in Seq(Keys) : q = <<k>> /\ ToSet(q) = {k}
    <3>1. <<k>> \in Seq(Keys) /\ ToSet(<<k>>) = {k}
      BY DEF ToSet
    <3>2. QED
      BY <3>1
  <2>3. v.c[c].up /\ "blocked" \notin v.c[c].flags
    BY <1>1 DEF MayBlock, Has
  <2>4. PICK h : h = FALSE
    OBVIOUS
  <2>5. u = BlockForKeys(v, c, q, n, target, h)
    BY <1>1, <2>1, <2>2, <2>4 DEF BrpopLpushCommand
  <2>6. \A j \in ToSet(q) : v.db[j] = NoKey
    BY <1>1, <2>1, <2>2
  <2>7. MayWait(v, c, q, target, h)
    BY <2>3, <2>4, <2>6 DEF MayWait
  <2>8. QED
    BY <2>5, <2>7, BlockedRan, Zenon
<1>2. CASE ~(v.db[cmd.k] = NoKey /\ ~Has(v, c, "multi"))
  <2>1. u = RpopLpushCommand(v, c, cmd)
    BY <1>2 DEF BrpopLpushCommand
  <2>2. QED
    BY <2>1, RpopLpushRan
<1>3. QED
  BY <1>1, <1>2

-----------------------------------------------------------------------------
(* The other commands. *)

\* A command that ends in an answer.
LEMMA ThenReplied ==
  ASSUME NEW v, NEW w, NEW p, NEW c \in Clients, Ran(w, v, p, c), NEW t, NEW u, u = Reply(w, c, t)
  PROVE  Ran(u, v, p, c)
<1>1. Good(w, p, {}, {}) /\ Stays(w, v, c) /\ Carries(w, v)
  BY DEF Ran
<1>2. Ran(u, w, p, c)
  BY <1>1, RepliedRan
<1>3. QED
  BY <1>1, <1>2, RanTrans

\* A flag is raised at the end.
LEMMA RaisedRan ==
  ASSUME NEW v, NEW p, NEW c \in Clients, Good(v, p, {}, {}), v.c[c].up, NEW f \in Plain, NEW u, u = Raise(v, c, f)
  PROVE  Ran(u, v, p, c)
<1>1. PICK R, X : R = {} /\ X = {}
  OBVIOUS
<1>2. Good(v, p, R, X)
  BY <1>1
<1>3. Good(u, p, R, X) /\ Stays(u, v, c) /\ Same(u, v)
  BY <1>2, RaiseStays
<1>4. QED
  BY <1>1, <1>3, SameCarries DEF Ran

\* One lemma per command.
LEMMA MultiRan ==
  ASSUME NEW v, NEW p, NEW c \in Clients, Good(v, p, {}, {}), v.c[c].up, NEW u, u = MultiCommand(v, c)
  PROVE  Ran(u, v, p, c)
<1>1. CASE Has(v, c, "multi")
  <2>1. u = Reply(v, c, "err")
    BY <1>1 DEF MultiCommand
  <2>2. QED
    BY <2>1, RepliedRan
<1>2. CASE ~Has(v, c, "multi")
  <2>1. PICK w : w = Raise(v, c, "multi")
    OBVIOUS
  <2>2. Ran(w, v, p, c)
    BY <2>1, RaisedRan DEF Plain
  <2>3. u = Reply(w, c, "ok")
    BY <1>2, <2>1 DEF MultiCommand
  <2>4. QED
    BY <2>2, <2>3, ThenReplied
<1>3. QED
  BY <1>1, <1>2

LEMMA WatchRan ==
  ASSUME NEW v, NEW p, NEW c \in Clients, Good(v, p, {}, {}), v.c[c].up, NEW k \in Keys, v.ready = <<>>,
         NEW u, u = WatchCommand(v, c, k)
  PROVE  Ran(u, v, p, c)
<1>1. CASE Has(v, c, "multi")
  <2>1. u = Reply(v, c, "err")
    BY <1>1 DEF WatchCommand
  <2>2. QED
    BY <2>1, RepliedRan
<1>2. CASE ~Has(v, c, "multi")
  <2>1. PICK w : w = WatchForKey(v, c, k)
    OBVIOUS
  <2>2. Good(w, p, {}, {}) /\ Alters(w, v, {"watchers"}, {"watched", "seen"}, {})
    BY <2>1, WatchForKeyGood
  <2>3. Stays(w, v, c) /\ Carries(w, v)
    BY <2>2, AltersStays, AltersSame, SameCarries
  <2>4. u = Reply(w, c, "ok")
    BY <1>2, <2>1 DEF WatchCommand
  <2>5. QED
    BY <2>2, <2>3, <2>4, ThenReplied DEF Ran
<1>3. QED
  BY <1>1, <1>2

LEMMA UnwatchRan ==
  ASSUME NEW v, NEW p, NEW c \in Clients, Good(v, p, {}, {}), NEW u, u = UnwatchCommand(v, c)
  PROVE  Ran(u, v, p, c)
<1>1. PICK w : w = Clear(UnwatchAllKeys(v, c), c, {"dirty_cas"})
  OBVIOUS
<1>2. PICK R, X : R = {} /\ X = {}
  OBVIOUS
<1>3. Good(v, p, R, X)
  BY <1>2
<1>4. Good(w, p, R, X) /\ Alters(w, v, {"watchers"}, {"watched", "seen"}, {"dirty_cas"})
  BY <1>1, <1>3, UnwatchGood
<1>5. Stays(w, v, c) /\ Carries(w, v)
  BY <1>4, AltersStays, AltersSame, SameCarries
<1>6. Ran(w, v, p, c)
  BY <1>2, <1>4, <1>5 DEF Ran
<1>7. u = Reply(w, c, "ok")
  BY <1>1 DEF UnwatchCommand
<1>8. QED
  BY <1>6, <1>7, ThenReplied

LEMMA DiscardRan ==
  ASSUME NEW v, NEW p, NEW c \in Clients, Good(v, p, {}, {}), NEW u, u = DiscardCommand(v, c)
  PROVE  Good(u, p, {}, {}) /\ Falls(u, v) /\ Carries(u, v)
<1>1. CASE ~Has(v, c, "multi")
  <2>1. u = Reply(v, c, "err")
    BY <1>1 DEF DiscardCommand
  <2>2. Ran(u, v, p, c)
    BY <2>1, RepliedRan
  <2>3. QED
    BY <2>2 DEF Ran, Stays, Falls
<1>2. CASE Has(v, c, "multi")
  <2>1. PICK w : w = DiscardTransaction(v, c)
    OBVIOUS
  <2>2. PICK R, X : R = {} /\ X = {}
    OBVIOUS
  <2>3. Good(v, p, R, X)
    BY <2>2
  <2>4. Good(w, p, R, X) /\ Carries(w, v) /\ \A x \in Clients : w.c[x].up = v.c[x].up
    BY <2>1, <2>3, DiscardGood, SameCarries
  <2>5. u = Reply(w, c, "ok")
    BY <1>2, <2>1 DEF DiscardCommand
  <2>6. Good(w, p, {}, {})
    BY <2>2, <2>4
  <2>7. Ran(u, w, p, c)
    BY <2>5, <2>6, RepliedRan
  <2>8. QED
    BY <2>4, <2>7, CarriesTrans DEF Ran, Stays, Falls
<1>3. QED
  BY <1>1, <1>2

LEMMA PauseRan ==
  ASSUME NEW v, NEW p, NEW c \in Clients, Good(v, p, {}, {}), NEW end, NEW u, u = Reply(PauseClients(v, end), c, "ok")
  PROVE  Ran(u, v, p, c)
<1>1. PICK w : w = PauseClients(v, end)
  OBVIOUS
<1>2. PICK R, X : R = {} /\ X = {}
  OBVIOUS
<1>3. Good(v, p, R, X)
  BY <1>2
<1>4. Good(w, p, R, X) /\ Stays(w, v, c) /\ Same(w, v)
  BY <1>1, <1>3, PauseClientsGood
<1>5. Ran(w, v, p, c)
  BY <1>2, <1>4, SameCarries DEF Ran
<1>6. u = Reply(w, c, "ok")
  BY <1>1
<1>7. QED
  BY <1>5, <1>6, ThenReplied

LEMMA SlaveofRan ==
  ASSUME NEW v, NEW p, NEW c \in Clients, Good(v, p, {}, {}), "master" \notin v.c[c].flags, NEW cmd,
         NEW u, u = SlaveofCommand(v, c, cmd)
  PROVE  Ran(u, v, p, c)
<1>1. PICK R, X : R = {} /\ X = {}
  OBVIOUS
<1>2. Good(v, p, R, X)
  BY <1>1
<1>3. Good(u, p, R, X) /\ Stays(u, v, c) /\ Carries(u, v)
  BY <1>2, SlaveofGood
<1>4. QED
  BY <1>1, <1>3 DEF Ran

LEMMA KillRan ==
  ASSUME NEW v, NEW p, NEW c \in Clients, Good(v, p, {}, {}), v.c[c].up, NEW d \in Clients,
         NEW u, u = ClientKill(v, c, d)
  PROVE  Ran(u, v, p, c)
<1>1. PICK R, X : R = {} /\ X = {}
  OBVIOUS
<1>2. Good(v, p, R, X)
  BY <1>1
<1>3. Good(u, p, R, X) /\ Stays(u, v, c) /\ Same(u, v)
  BY <1>2, ClientKillGood
<1>4. QED
  BY <1>1, <1>3, SameCarries DEF Ran

LEMMA ListeningRan ==
  ASSUME NEW v, NEW p, NEW c \in Clients, Good(v, p, {}, {}), v.c[c].up
  PROVE  /\ \A ch \in Channels : /\ Ran(SubscribeCommand(v, c, ch), v, p, c)
                                 /\ Ran(UnsubscribeCommand(v, c, ch), v, p, c)
                                 /\ Ran(PublishCommand(v, c, ch), v, p, c)
         /\ \A m \in SUBSET Channels : /\ Ran(PsubscribeCommand(v, c, m), v, p, c)
                                       /\ Ran(PunsubscribeCommand(v, c, m), v, p, c)
<1>1. PICK R, X : R = {} /\ X = {}
  OBVIOUS
<1>2. Good(v, p, R, X)
  BY <1>1
<1>3. ASSUME NEW ch \in Channels
      PROVE  /\ Ran(SubscribeCommand(v, c, ch), v, p, c) /\ Ran(UnsubscribeCommand(v, c, ch), v, p, c)
             /\ Ran(PublishCommand(v, c, ch), v, p, c)
  <2>1. PICK a, b, d : a = SubscribeCommand(v, c, ch) /\ b = UnsubscribeCommand(v, c, ch) /\ d = PublishCommand(v, c, ch)
    OBVIOUS
  <2>2. Good(a, p, R, X) /\ Rests(a, v, c) /\ Good(b, p, R, X) /\ Rests(b, v, c)
    BY <1>2, <2>1, PubSubCommandsGood
  <2>3. Good(d, p, R, X) /\ Stays(d, v, c) /\ Same(d, v)
    BY <1>2, <2>1, PublishCommandGood
  <2>4. QED
    BY <1>1, <2>1, <2>2, <2>3, SameCarries DEF Ran, Rests
<1>4. ASSUME NEW m \in SUBSET Channels
      PROVE  Ran(PsubscribeCommand(v, c, m), v, p, c) /\ Ran(PunsubscribeCommand(v, c, m), v, p, c)
  <2>1. PICK a, b : a = PsubscribeCommand(v, c, m) /\ b = PunsubscribeCommand(v, c, m)
    OBVIOUS
  <2>2. Good(a, p, R, X) /\ Rests(a, v, c) /\ Good(b, p, R, X) /\ Rests(b, v, c)
    BY <1>2, <2>1, PubSubCommandsGood
  <2>3. QED
    BY <1>1, <2>1, <2>2, SameCarries DEF Ran, Rests
<1>5. QED
  BY <1>3, <1>4

-----------------------------------------------------------------------------
(* A command runs: by itself, or in a transaction. *)

Runnable(v, p, c, cmd) ==
    /\ cmd \in SentBy(p, c) /\ WellFormed(cmd)
    /\ cmd.op \notin {"exec", "discard", "quit", "nosuch", "part", "noise"}
    /\ cmd.op = "watch" => v.ready = <<>>
    /\ cmd.op = "slaveof" => "master" \notin v.c[c].flags
    /\ cmd.op = "push" => cmd.v \in Elements

\* Whatever the command is.
LEMMA RunRan ==
  ASSUME NEW v, NEW p, NEW c \in Clients, Good(v, p, {}, {}), MayBlock(v, c), NEW cmd, Runnable(v, p, c, cmd),
         NEW u, u = Run(v, c, cmd)
  PROVE  Ran(u, v, p, c)
<1>1. PICK o : o = cmd.op
  OBVIOUS
<1>2. v.c[c].up
  BY DEF MayBlock
<1>3. o \in Ops \ {"exec", "discard", "quit", "nosuch", "part", "noise"}
  BY <1>1 DEF Runnable, WellFormed
<1>4. /\ o \in {"set", "del", "watch", "push", "pop", "rename", "rpoplpush", "brpoplpush"} => cmd.k \in Keys
      /\ o \in {"rename", "rpoplpush", "brpoplpush"} => cmd.dst \in Keys
      /\ o = "bpop" => cmd.keys \in Seq(Keys)
      /\ o \in {"subscribe", "unsubscribe", "publish"} => cmd.ch \in Channels
      /\ o \in {"psubscribe", "punsubscribe"} => cmd.p \in SUBSET Channels
      /\ o = "kill" => cmd.who \in Clients
      /\ o = "watch" => v.ready = <<>>
      /\ o = "slaveof" => "master" \notin v.c[c].flags
      /\ o = "push" => cmd.v \in Elements
  BY <1>1 DEF Runnable, WellFormed
<1>5. CASE o = "set"
  <2>1. cmd.op = "set"
    BY <1>1, <1>5
  <2>2. u = SetCommand(v, c, cmd)
    BY <2>1 DEF Run
  <2>5. QED
    BY <1>2, <1>4, <1>5, <2>1, <2>2, SetRan
<1>6. CASE o = "del"
  <2>1. cmd.op = "del"
    BY <1>1, <1>6
  <2>2. u = DelCommand(v, c, cmd)
    BY <2>1 DEF Run
  <2>5. QED
    BY <1>2, <1>4, <1>6, <2>1, <2>2, DelRan
<1>7. CASE o = "rename"
  <2>1. cmd.op = "rename"
    BY <1>1, <1>7
  <2>2. u = RenameCommand(v, c, cmd)
    BY <2>1 DEF Run
  <2>5. QED
    BY <1>2, <1>4, <1>7, <2>1, <2>2, RenameRan
<1>8. CASE o = "flush"
  <2>1. cmd.op = "flush"
    BY <1>1, <1>8
  <2>2. u = FlushallCommand(v, c, cmd)
    BY <2>1 DEF Run
  <2>5. QED
    BY <1>2, <1>4, <1>8, <2>1, <2>2, FlushallRan
<1>9. CASE o = "push"
  <2>1. cmd.op = "push"
    BY <1>1, <1>9
  <2>2. u = PushCommand(v, c, cmd)
    BY <2>1 DEF Run
  <2>5. QED
    BY <1>2, <1>4, <1>9, <2>1, <2>2, PushRan
<1>10. CASE o = "pop"
  <2>1. cmd.op = "pop"
    BY <1>1, <1>10
  <2>2. u = PopCommand(v, c, cmd)
    BY <2>1 DEF Run
  <2>5. QED
    BY <1>2, <1>4, <1>10, <2>1, <2>2, PopRan
<1>11. CASE o = "rpoplpush"
  <2>1. cmd.op = "rpoplpush"
    BY <1>1, <1>11
  <2>2. u = RpopLpushCommand(v, c, cmd)
    BY <2>1 DEF Run
  <2>5. QED
    BY <1>2, <1>4, <1>11, <2>2, RpopLpushRan
<1>12. CASE o = "bpop"
  <2>1. cmd.op = "bpop"
    BY <1>1, <1>12
  <2>2. u = BlockingPop(v, c, cmd, Until(v, cmd.timeout))
    BY <2>1 DEF Run
  <2>3. PICK n : n = Until(v, cmd.timeout)
    OBVIOUS
  <2>4. u = BlockingPop(v, c, cmd, n)
    BY <2>2, <2>3
  <2>5. QED
    BY <1>2, <1>4, <1>12, <2>4, BlockingPopRan
<1>13. CASE o = "brpoplpush"
  <2>1. cmd.op = "brpoplpush"
    BY <1>1, <1>13
  <2>2. u = BrpopLpushCommand(v, c, cmd, Until(v, cmd.timeout))
    BY <2>1 DEF Run
  <2>3. PICK n : n = Until(v, cmd.timeout)
    OBVIOUS
  <2>4. u = BrpopLpushCommand(v, c, cmd, n)
    BY <2>2, <2>3
  <2>5. QED
    BY <1>2, <1>4, <1>13, <2>4, BrpopLpushRan
<1>14. CASE o = "multi"
  <2>1. cmd.op = "multi"
    BY <1>1, <1>14
  <2>2. u = MultiCommand(v, c)
    BY <2>1 DEF Run
  <2>5. QED
    BY <1>2, <1>4, <1>14, <2>2, MultiRan
<1>15. CASE o = "watch"
  <2>1. cmd.op = "watch"
    BY <1>1, <1>15
  <2>2. u = WatchCommand(v, c, cmd.k)
    BY <2>1 DEF Run
  <2>3. PICK k \in Keys : k = cmd.k
    BY <1>1, <1>4, <1>15
  <2>4. u = WatchCommand(v, c, k)
    BY <2>2, <2>3
  <2>5. QED
    BY <1>2, <1>4, <1>15, <2>4, WatchRan
<1>16. CASE o = "unwatch"
  <2>1. cmd.op = "unwatch"
    BY <1>1, <1>16
  <2>2. u = UnwatchCommand(v, c)
    BY <2>1 DEF Run
  <2>5. QED
    BY <1>2, <1>4, <1>16, <2>2, UnwatchRan
<1>17. CASE o = "subscribe"
  <2>1. cmd.op = "subscribe" /\ cmd.ch \in Channels
    BY <1>1, <1>4, <1>17
  <2>2. u = SubscribeCommand(v, c, cmd.ch)
    BY <2>1 DEF Run
  <2>3. QED
    BY <1>2, <2>1, <2>2, ListeningRan
<1>18. CASE o = "unsubscribe"
  <2>1. cmd.op = "unsubscribe" /\ cmd.ch \in Channels
    BY <1>1, <1>4, <1>18
  <2>2. u = UnsubscribeCommand(v, c, cmd.ch)
    BY <2>1 DEF Run
  <2>3. QED
    BY <1>2, <2>1, <2>2, ListeningRan
<1>19. CASE o = "psubscribe"
  <2>1. cmd.op = "psubscribe" /\ cmd.p \in SUBSET Channels
    BY <1>1, <1>4, <1>19
  <2>2. u = PsubscribeCommand(v, c, cmd.p)
    BY <2>1 DEF Run
  <2>3. QED
    BY <1>2, <2>1, <2>2, ListeningRan
<1>20. CASE o = "punsubscribe"
  <2>1. cmd.op = "punsubscribe" /\ cmd.p \in SUBSET Channels
    BY <1>1, <1>4, <1>20
  <2>2. u = PunsubscribeCommand(v, c, cmd.p)
    BY <2>1 DEF Run
  <2>3. QED
    BY <1>2, <2>1, <2>2, ListeningRan
<1>21. CASE o = "publish"
  <2>1. cmd.op = "publish" /\ cmd.ch \in Channels
    BY <1>1, <1>4, <1>21
  <2>2. u = PublishCommand(v, c, cmd.ch)
    BY <2>1 DEF Run
  <2>3. QED
    BY <1>2, <2>1, <2>2, ListeningRan
<1>22. CASE o = "pause"
  <2>1. cmd.op = "pause"
    BY <1>1, <1>22
  <2>2. u = Reply(PauseClients(v, v.now + cmd.n), c, "ok")
    BY <2>1 DEF Run
  <2>3. PICK end : end = v.now + cmd.n
    OBVIOUS
  <2>4. u = Reply(PauseClients(v, end), c, "ok")
    BY <2>2, <2>3
  <2>5. QED
    BY <1>2, <1>4, <1>22, <2>4, PauseRan
<1>23. CASE o = "kill"
  <2>1. cmd.op = "kill"
    BY <1>1, <1>23
  <2>2. u = ClientKill(v, c, cmd.who)
    BY <2>1 DEF Run
  <2>3. PICK d \in Clients : d = cmd.who
    BY <1>1, <1>4, <1>23
  <2>4. u = ClientKill(v, c, d)
    BY <2>2, <2>3
  <2>5. QED
    BY <1>2, <1>4, <1>23, <2>4, KillRan
<1>24. CASE o = "slaveof"
  <2>1. cmd.op = "slaveof"
    BY <1>1, <1>24
  <2>2. u = SlaveofCommand(v, c, cmd)
    BY <2>1 DEF Run
  <2>5. QED
    BY <1>2, <1>4, <1>24, <2>2, SlaveofRan
<1>25. QED
  BY <1>3, <1>5, <1>6, <1>7, <1>8, <1>9, <1>10, <1>11, <1>12, <1>13, <1>14, <1>15, <1>16, <1>17, <1>18, <1>19, <1>20, <1>21, <1>22, <1>23, <1>24 DEF Ops

\* What a client sends is well-formed; a master does not name another.
LEMMA SentIs ==
  ASSUME NEW p \in DOMAIN Plays, NEW v, NEW R, NEW X, Good(v, p, R, X), NEW c \in Clients, NEW cmd \in SentBy(p, c),
         cmd.op \notin {"exec", "discard", "quit", "nosuch", "part", "noise"}, cmd.op = "watch" => v.ready = <<>>
  PROVE  Runnable(v, p, c, cmd)
<1>1. WellFormed(cmd) /\ (c \in Plays[p].master => cmd.op # "slaveof")
  BY PlaysAssumption
<1>2. "master" \in v.c[c].flags => c \in Plays[p].master
  BY DEF Good, Sent
<1>3. cmd.op = "push" => cmd.v \in Elements
  <2>1. HAVE cmd.op = "push"
  <2>2. cmd \in {d \in UNION {SentBy(p, x) : x \in Clients} : d.op = "push"}
    BY <2>1
  <2>. DEFINE of(q) == {d.v : d \in {e \in UNION {SentBy(q, x) : x \in Clients} : e.op = "push"}}
                       \cup UNION {ToSet(Items(Plays[q].db[k])) : k \in Keys}
  <2>3. Elements = UNION {of(q) : q \in DOMAIN Plays}
    BY DEF Elements
  <2>4. cmd.v \in of(p)
    BY <2>2
  <2>. HIDE DEF of
  <2>5. QED
    BY <2>3, <2>4
<1>4. QED
  BY <1>1, <1>2, <1>3 DEF Runnable

\* What comes of the master changes the copy, of which nobody asks in a slave.
LEMMA MastersCarries ==
  ASSUME NEW v, NEW c \in Clients, "master" \in v.c[c].flags, NEW w, Alters(w, v, {"copy"}, {}, {})
  PROVE  Carries(w, v)
<1>1. w.db = v.db /\ w.slave = v.slave
  BY Zenon DEF Alters, Fields
<1>2. QED
  BY <1>1 DEF Carries, Data

\* call() runs it, and marks who must be told.
LEMMA CallRan ==
  ASSUME NEW v, NEW p, NEW c \in Clients, Good(v, p, {}, {}), MayBlock(v, c), NEW cmd, Runnable(v, p, c, cmd),
         NEW u, u = Call(v, c, cmd)
  PROVE  Ran(u, v, p, c)
<1>1. PICK w : w = [v EXCEPT !.copy = Effect(@, cmd)]
  OBVIOUS
<1>2. (u = Run(w, c, cmd) /\ "master" \in v.c[c].flags) \/ u = Run(v, c, cmd)
  BY <1>1 DEF Call, Has
<1>3. CASE u = Run(v, c, cmd)
  BY <1>3, RunRan
<1>4. CASE u = Run(w, c, cmd) /\ "master" \in v.c[c].flags
  <2>1. Alters(w, v, {"copy"}, {}, {})
    BY <1>1, Zenon DEF Good, Alters, Shape, Fields
  <2>2. Alters(w, v, Quiet, {"out", "got"}, {})
    BY <2>1, AltersMore DEF Quiet
  <2>3. PICK R, X : R = {} /\ X = {}
    OBVIOUS
  <2>4. Good(v, p, R, X)
    BY <2>3
  <2>5. Good(w, p, R, X)
    BY <2>2, <2>4, KeepsGood
  <2>6. Good(w, p, {}, {})
    BY <2>3, <2>5
  <2>7. Stays(w, v, c) /\ Carries(w, v)
    BY <1>4, <2>1, AltersStays, MastersCarries
  <2>8. \A f : f \in w.c[c].flags <=> f \in v.c[c].flags
    BY <2>1 DEF Alters
  <2>9. w.ready = v.ready
    BY <2>1, Zenon DEF Alters, Fields
  <2>10. MayBlock(w, c)
    BY <2>7, <2>8 DEF MayBlock, Stays
  <2>11. Runnable(w, p, c, cmd)
    BY <2>8, <2>9 DEF Runnable
  <2>12. Ran(u, w, p, c)
    BY <1>4, <2>6, <2>10, <2>11, RunRan
  <2>13. QED
    BY <2>7, <2>12, RanTrans
<1>5. QED
  BY <1>2, <1>3, <1>4

\* The commands of a transaction, one after the other.
Executed(w, v, c) == ForEach(w, v.c[c].queue, LAMBDA u, cmd : Call(u, c, cmd))

LEMMA ExecSteps ==
  ASSUME NEW v, NEW w, NEW c, NEW q, q = v.c[c].queue, Len(q) \in Nat
  PROVE  \E f : /\ f[0] = w /\ Executed(w, v, c) = f[Len(q)]
                /\ \A i \in 1 .. Len(q) : f[i] = Step("exec", None, c, f[i - 1], q[i])
<1>1. \A u, x : Step("exec", None, c, u, x) = Call(u, c, x)
  BY DEF Step
<1>2. PICK g : Runs(g, "exec", None, c, w, Len(q), q)
  BY StepsExist
<1>3. g = [i \in 0 .. Len(q) |-> IF i = 0 THEN w ELSE Call(g[i - 1], c, q[i])]
  BY <1>1, <1>2, Zenon DEF Runs
<1>. DEFINE h == CHOOSE h : h = [i \in 0 .. Len(q) |-> IF i = 0 THEN w ELSE Call(h[i - 1], c, q[i])]
<1>4. h = [i \in 0 .. Len(q) |-> IF i = 0 THEN w ELSE Call(h[i - 1], c, q[i])]
  BY <1>3, Zenon
<1>5. Executed(w, v, c) = h[Len(q)]
  BY Zenon DEF Executed, ForEach
<1>. HIDE DEF h
<1>6. h[0] = w /\ \A i \in 1 .. Len(q) : h[i] = Call(h[i - 1], c, q[i])
  <2>1. 0 \in 0 .. Len(q) /\ \A i \in 1 .. Len(q) : i \in 0 .. Len(q) /\ i # 0
    BY Upto
  <2>2. QED
    BY <1>4, <2>1, Zenon
<1>7. \A i \in 1 .. Len(q) : h[i] = Step("exec", None, c, h[i - 1], q[i])
  BY <1>1, <1>6
<1>8. QED
  BY <1>5, <1>6, <1>7

\* EXEC: all of them ...
LEMMA ExecutedGood ==
  ASSUME NEW v, NEW p \in DOMAIN Plays, Good(v, p, {}, {}), NEW c \in Clients, NEW w, Good(w, p, {}, {}),
         w.c[c].up, "multi" \in w.c[c].flags, NEW u, u = Executed(w, v, c)
  PROVE  Good(u, p, {}, {}) /\ Falls(u, w) /\ Carries(u, w)
<1>1. PICK q \in Seq(SentBy(p, c)) : q = v.c[c].queue /\ \A cmd \in ToSet(q) : MayQueue(cmd)
  BY DEF Good, Sent
<1>2. PICK n \in Nat : n = Len(q) /\ \A i \in 1 .. n : q[i] \in SentBy(p, c) /\ MayQueue(q[i])
  BY <1>1, SetOfSeq, LenProperties
<1>3. PICK f : f[0] = w /\ u = f[n] /\ \A i \in 1 .. n : f[i] = Step("exec", None, c, f[i - 1], q[i])
  BY <1>1, <1>2, ExecSteps
<1>. DEFINE Runs1(a) == Good(a, p, {}, {}) /\ a.c[c].up /\ "multi" \in a.c[c].flags /\ Falls(a, w) /\ Carries(a, w)
            T == {i \in 0 .. n : Runs1(f[i])}
<1>4. 0 \in T
  BY <1>3 DEF Falls, Carries
<1>5. \A i \in T : i < n => i + 1 \in T
  <2>1. SUFFICES ASSUME NEW i \in T, i < n PROVE i + 1 \in T
    OBVIOUS
  <2>2. i + 1 \in 1 .. n /\ (i + 1) - 1 = i /\ i + 1 \in 0 .. n /\ Runs1(f[i])
    BY <2>1
  <2>3. PICK a, b, cmd : a = f[i] /\ b = f[i + 1] /\ cmd = q[i + 1]
    OBVIOUS
  <2>. HIDE DEF T, Runs1
  <2>4. \A y, x : Step("exec", None, c, y, x) = Call(y, c, x)
    BY DEF Step
  <2>5. b = Call(a, c, cmd)
    BY <1>3, <2>2, <2>3, <2>4
  <2>6. cmd \in SentBy(p, c) /\ MayQueue(cmd)
    BY <1>2, <2>2, <2>3
  <2>7. Good(a, p, {}, {}) /\ a.c[c].up /\ "multi" \in a.c[c].flags /\ Falls(a, w) /\ Carries(a, w)
    BY <2>2, <2>3 DEF Runs1
  <2>8. Runnable(a, p, c, cmd)
    <3>1. cmd.op \notin {"exec", "discard", "quit", "nosuch", "part", "noise"} /\ cmd.op # "watch"
      BY <2>6 DEF MayQueue, NotQueued
    <3>2. PICK R, X : R = {} /\ X = {}
      OBVIOUS
    <3>3. Good(a, p, R, X)
      BY <2>7, <3>2
    <3>4. QED
      BY <2>6, <3>1, <3>3, SentIs
  <2>9. MayBlock(a, c)
    BY <2>7 DEF MayBlock
  <2>10. Ran(b, a, p, c)
    BY <2>5, <2>7, <2>8, <2>9, CallRan
  <2>11. Runs1(b)
    BY <2>7, <2>10, CarriesTrans DEF Ran, Stays, Falls, Runs1
  <2>12. QED
    BY <2>2, <2>3, <2>11 DEF T
<1>6. T \in SUBSET (0 .. n)
  OBVIOUS
<1>. HIDE DEF T
<1>7. \A i \in 0 .. n : i \in T
  BY <1>4, <1>5, <1>6, IntervalInduct
<1>8. n \in 0 .. n
  OBVIOUS
<1>9. Runs1(f[n])
  BY <1>7, <1>8 DEF T
<1>10. QED
  BY <1>3, <1>9

\* ... or none, when a watched key has changed or a command was refused ...
LEMMA AbandonedGood ==
  ASSUME NEW v, NEW w, NEW p, Good(w, p, {}, {}), Falls(w, v), Carries(w, v), NEW c \in Clients, NEW u, u = DiscardTransaction(w, c)
  PROVE  Good(u, p, {}, {}) /\ Falls(u, v) /\ Carries(u, v)
<1>1. PICK R, X : R = {} /\ X = {}
  OBVIOUS
<1>2. Good(w, p, R, X)
  BY <1>1
<1>3. Good(u, p, R, X) /\ Carries(u, w) /\ \A x \in Clients : u.c[x].up = w.c[x].up
  BY <1>2, DiscardGood, SameCarries
<1>4. QED
  BY <1>1, <1>3, CarriesTrans DEF Falls

\* ... and the client watches nothing, in either case.
LEMMA ExecGood ==
  ASSUME NEW v, NEW p \in DOMAIN Plays, Good(v, p, {}, {}), NEW c \in Clients, v.c[c].up, NEW u, u = ExecCommand(v, c)
  PROVE  Good(u, p, {}, {}) /\ Falls(u, v) /\ Carries(u, v)
<1>1. CASE ~Has(v, c, "multi")
  <2>1. u = Reply(v, c, "err")
    BY <1>1 DEF ExecCommand
  <2>2. Ran(u, v, p, c)
    BY <2>1, RepliedRan
  <2>3. QED
    BY <2>2 DEF Ran, Stays, Falls
<1>2. CASE Has(v, c, "multi") /\ (Has(v, c, "dirty_exec") \/ Has(v, c, "dirty_cas"))
  <2>1. PICK t : u = DiscardTransaction(Reply(v, c, t), c)
    <3>1. u = DiscardTransaction(Reply(v, c, "abort"), c) \/ u = DiscardTransaction(Reply(v, c, "nil"), c)
      BY <1>2 DEF ExecCommand
    <3>2. QED
      BY <3>1
  <2>2. PICK w : w = Reply(v, c, t)
    OBVIOUS
  <2>3. Ran(w, v, p, c)
    BY <2>2, RepliedRan
  <2>4. Good(w, p, {}, {}) /\ Falls(w, v) /\ Carries(w, v)
    BY <2>3 DEF Ran, Stays, Falls
  <2>5. u = DiscardTransaction(w, c)
    BY <2>1, <2>2
  <2>6. QED
    BY <2>4, <2>5, AbandonedGood
<1>3. CASE Has(v, c, "multi") /\ ~Has(v, c, "dirty_exec") /\ ~Has(v, c, "dirty_cas")
  <2>1. PICK a : a = UnwatchAllKeys(v, c)
    OBVIOUS
  <2>2. PICK b : b = Reply(a, c, "exec")
    OBVIOUS
  <2>3. PICK d : d = Executed(b, v, c)
    OBVIOUS
  <2>4. u = DiscardTransaction(d, c)
    BY <1>3, <2>1, <2>2, <2>3, Zenon DEF ExecCommand, Executed
  <2>5. PICK R, X : R = {} /\ X = {}
    OBVIOUS
  <2>6. Good(v, p, R, X)
    BY <2>5
  <2>7. Good(a, p, R, X) /\ Alters(a, v, {"watchers"}, {"watched", "seen"}, {})
    BY <2>1, <2>6, UnwatchAllKeysGood
  <2>8. Stays(a, v, c) /\ Carries(a, v)
    BY <2>7, AltersStays, AltersSame, SameCarries
  <2>9. Ran(a, v, p, c)
    BY <2>5, <2>7, <2>8 DEF Ran
  <2>10. Ran(b, v, p, c)
    BY <2>2, <2>9, ThenReplied
  <2>11. Good(b, p, {}, {}) /\ b.c[c].up /\ "multi" \in b.c[c].flags /\ Falls(b, v) /\ Carries(b, v)
    BY <1>3, <2>10 DEF Ran, Stays, Falls, Has
  <2>12. Good(d, p, {}, {}) /\ Falls(d, b) /\ Carries(d, b)
    BY <2>3, <2>11, ExecutedGood
  <2>13. Falls(d, v) /\ Carries(d, v)
    BY <2>11, <2>12, CarriesTrans DEF Falls
  <2>14. QED
    BY <2>4, <2>12, <2>13, AbandonedGood
<1>4. QED
  BY <1>1, <1>2, <1>3

-----------------------------------------------------------------------------
(* processCommand. *)

\* The state when a command is done: nobody is still to be served.
Done(u, v, p) == Good(u, p, {}, {}) /\ u.ready = <<>> /\ Falls(u, v) /\ Carries(u, v)

\* Refused commands get an answer, and may spoil the transaction.
LEMMA RepliedDone ==
  ASSUME NEW v, NEW w, NEW p, Done(w, v, p), NEW c \in Clients, NEW t, NEW u, u = Reply(w, c, t)
  PROVE  Done(u, v, p)
<1>1. Good(w, p, {}, {}) /\ w.ready = <<>> /\ Falls(w, v) /\ Carries(w, v)
  BY DEF Done
<1>2. PICK R, X : R = {} /\ X = {}
  OBVIOUS
<1>3. Good(w, p, R, X)
  BY <1>1, <1>2
<1>4. Good(u, p, R, X) /\ Replied(u, w)
  BY <1>3, ReplyGood
<1>5. u.ready = w.ready
  BY <1>4, Zenon DEF Replied, Alters, Fields
<1>6. Falls(u, w)
  <2>1. \A x \in Clients : u.c[x].up = w.c[x].up
    BY <1>4, UpOf DEF Replied
  <2>2. QED
    BY <2>1 DEF Falls
<1>7. Carries(u, v)
  <2>1. Carries(u, w)
    BY <1>4, AltersSame, SameCarries DEF Replied
  <2>2. QED
    BY <1>1, <2>1, CarriesTrans
<1>8. QED
  BY <1>1, <1>2, <1>4, <1>5, <1>6, <1>7 DEF Done, Falls

LEMMA RaisedDone ==
  ASSUME NEW v, NEW w, NEW p, Done(w, v, p), NEW c \in Clients, w.c[c].up, NEW f \in Plain, NEW u, u = Raise(w, c, f)
  PROVE  Done(u, v, p) /\ u.c[c].up
<1>1. Good(w, p, {}, {}) /\ w.ready = <<>> /\ Falls(w, v) /\ Carries(w, v)
  BY DEF Done
<1>2. PICK R, X : R = {} /\ X = {}
  OBVIOUS
<1>3. Good(w, p, R, X)
  BY <1>1, <1>2
<1>4. Good(u, p, R, X)
  BY <1>3, RaiseGood
<1>5. Alters(u, w, {}, {}, {f})
  BY <1>1, RaiseAlters DEF Good
<1>6. u.ready = w.ready
  BY <1>5, Zenon DEF Alters, Fields
<1>7. \A x \in Clients : u.c[x].up = w.c[x].up
  BY <1>5, UpOf
<1>8. Carries(u, v)
  <2>1. Carries(u, w)
    BY <1>5, AltersSame, SameCarries DEF Plain
  <2>2. QED
    BY <1>1, <2>1, CarriesTrans
<1>9. QED
  BY <1>1, <1>2, <1>4, <1>6, <1>7, <1>8 DEF Done, Falls

\* When a command or a transaction is done the clients that wait are served.
LEMMA ServedDone ==
  ASSUME NEW v, NEW w, NEW p, Good(w, p, {}, {}), Falls(w, v), Carries(w, v), NEW u, u = HandleClientsBlockedOnLists(w)
  PROVE  Done(u, v, p)
<1>1. Good(u, p, {}, {}) /\ u.ready = <<>> /\ Falls(u, w) /\ Carries(u, w)
  BY HandleGood
<1>2. QED
  BY <1>1, CarriesTrans DEF Done, Falls

\* Whatever processCommand does with the command.
LEMMA ProcessCommandGood ==
  ASSUME NEW v, NEW p \in DOMAIN Plays, Good(v, p, {}, {}), v.ready = <<>>, NEW c \in Clients, v.c[c].up,
         "blocked" \notin v.c[c].flags, NEW cmd \in SentBy(p, c), cmd.op \notin {"part", "noise"},
         NEW u, u = ProcessCommand(v, c, cmd)
  PROVE  Done(u, v, p)
<1>1. Done(v, v, p)
  BY DEF Done, Falls, Carries
<1>2. CASE cmd.op = "quit"
  <2>1. PICK w : w = Reply(v, c, "ok")
    OBVIOUS
  <2>6. cmd.op \notin Writes
    BY <1>2 DEF Writes
  <2>2. u = Raise(w, c, "close_after_reply")
    BY <1>2, <2>1, <2>6, Zenon DEF ProcessCommand
  <2>3. Done(w, v, p)
    BY <1>1, <2>1, RepliedDone
  <2>4. w.c[c].up
    <3>1. Ran(w, v, p, c)
      BY <2>1, RepliedRan
    <3>2. QED
      BY <3>1 DEF Ran, Stays
  <2>5. QED
    BY <2>2, <2>3, <2>4, RaisedDone DEF Plain
<1>3. CASE cmd.op = "nosuch"
  <2>1. PICK w : w = FlagTransaction(v, c)
    OBVIOUS
  <2>6. cmd.op \notin Writes /\ cmd.op # "quit"
    BY <1>3 DEF Writes
  <2>2. u = Reply(w, c, "err")
    BY <1>3, <2>1, <2>6, Zenon DEF ProcessCommand
  <2>3. Done(w, v, p)
    <3>1. CASE w = v
      BY <1>1, <3>1
    <3>2. CASE w = Raise(v, c, "dirty_exec")
      BY <1>1, <3>2, RaisedDone DEF Plain
    <3>3. QED
      BY <2>1, <3>1, <3>2 DEF FlagTransaction
  <2>4. QED
    BY <2>2, <2>3, RepliedDone
<1>4. CASE u = Reply(v, c, "err")
  BY <1>1, <1>4, RepliedDone
<1>5. CASE u = QueueMultiCommand(v, c, cmd) /\ cmd.op \notin NotQueued \cup {"quit", "nosuch"}
  <2>1. MayQueue(cmd)
    BY <1>5 DEF MayQueue
  <2>2. PICK R, X : R = {} /\ X = {}
    OBVIOUS
  <2>3. Good(v, p, R, X)
    BY <2>2
  <2>4. Good(u, p, R, X) /\ Stays(u, v, c) /\ Same(u, v) /\ u.ready = v.ready
    BY <1>5, <2>1, <2>3, QueueMultiGood
  <2>5. QED
    BY <2>2, <2>4, SameCarries DEF Done, Stays, Falls
<1>6. CASE cmd.op = "exec" /\ u = HandleClientsBlockedOnLists(ExecCommand(v, c))
  <2>1. PICK w : w = ExecCommand(v, c)
    OBVIOUS
  <2>2. Good(w, p, {}, {}) /\ Falls(w, v) /\ Carries(w, v)
    BY <2>1, ExecGood
  <2>3. u = HandleClientsBlockedOnLists(w)
    BY <1>6, <2>1
  <2>4. QED
    BY <2>2, <2>3, ServedDone
<1>7. CASE cmd.op \notin {"exec", "quit", "nosuch"} /\ u = HandleClientsBlockedOnLists(Call(v, c, cmd))
  <2>1. PICK w : w = Call(v, c, cmd)
    OBVIOUS
  <2>2. Good(w, p, {}, {}) /\ Falls(w, v) /\ Carries(w, v)
    <3>1. CASE cmd.op = "discard"
      <4>1. PICK a : a = [v EXCEPT !.copy = Effect(@, cmd)]
        OBVIOUS
      <4>2. w = DiscardCommand(v, c) \/ (w = DiscardCommand(a, c) /\ "master" \in v.c[c].flags)
        BY <2>1, <3>1, <4>1 DEF Call, Run, Has
      <4>3. Good(a, p, {}, {}) /\ Falls(a, v) /\ ("master" \in v.c[c].flags => Carries(a, v))
        <5>1. Alters(a, v, {"copy"}, {}, {})
          BY <4>1, Zenon DEF Good, Alters, Shape, Fields
        <5>2. Alters(a, v, Quiet, {"out", "got"}, {})
          BY <5>1, AltersMore DEF Quiet
        <5>3. PICK R, X : R = {} /\ X = {}
          OBVIOUS
        <5>4. Good(v, p, R, X)
          BY <5>3
        <5>5. Good(a, p, R, X)
          BY <5>2, <5>4, KeepsGood
        <5>6. \A x \in Clients : a.c[x].up = v.c[x].up
          BY <5>1, UpOf
        <5>7. QED
          BY <5>1, <5>3, <5>5, <5>6, MastersCarries DEF Falls
      <4>4. CASE w = DiscardCommand(v, c)
        BY <4>4, DiscardRan
      <4>5. CASE w = DiscardCommand(a, c) /\ "master" \in v.c[c].flags
        <5>1. Good(w, p, {}, {}) /\ Falls(w, a) /\ Carries(w, a)
          BY <4>3, <4>5, DiscardRan
        <5>2. QED
          BY <4>3, <4>5, <5>1, CarriesTrans DEF Falls
      <4>6. QED
        BY <4>2, <4>4, <4>5
    <3>2. CASE cmd.op # "discard"
      <4>1. PICK R, X : R = {} /\ X = {}
        OBVIOUS
      <4>2. Good(v, p, R, X)
        BY <4>1
      <4>3. Runnable(v, p, c, cmd)
        BY <1>7, <3>2, <4>2, SentIs
      <4>4. MayBlock(v, c)
        BY DEF MayBlock
      <4>5. Ran(w, v, p, c)
        BY <2>1, <4>3, <4>4, CallRan
      <4>6. QED
        BY <4>5 DEF Ran, Stays, Falls
    <3>3. QED
      BY <3>1, <3>2
  <2>3. u = HandleClientsBlockedOnLists(w)
    BY <1>7, <2>1
  <2>4. QED
    BY <2>2, <2>3, ServedDone
<1>8. cmd.op \notin {"quit", "nosuch"} =>
        \/ u = Reply(v, c, "err")
        \/ u = QueueMultiCommand(v, c, cmd) /\ cmd.op \notin NotQueued
        \/ u = HandleClientsBlockedOnLists(IF cmd.op = "exec" THEN ExecCommand(v, c) ELSE Call(v, c, cmd))
  BY Zenon DEF ProcessCommand
<1>9. QED
  BY <1>2, <1>3, <1>4, <1>5, <1>6, <1>7, <1>8

-----------------------------------------------------------------------------
(* The invariant: a good server, nobody left to be served, no list that is  *)
(* empty, a copy of what there is, and sockets that bring what the play has *)
(* the clients send.                                                        *)

NetFields == {"todo", "sock", "here", "master", "leaves", "slow"}
SocketOk(r, p, x, up) ==
    /\ DOMAIN r = NetFields
    /\ r.todo \in Seq(Seq(SentBy(p, x))) /\ r.sock \in Seq(SentBy(p, x))
    /\ r.master <=> x \in Plays[p].master
    /\ ~r.here /\ r.todo # <<>> => ~up
Sockets(n, v, p) == DOMAIN n = Clients /\ \A x \in Clients : SocketOk(n[x], p, x, v.c[x].up)
Holds(v, n, p) == Good(v, p, {}, {}) /\ v.ready = <<>> /\ Data(v, {}) /\ Sockets(n, v, p)
Inv == \E p \in DOMAIN Plays : Holds(s, net, p)

\* Sockets stay as they are while no client comes.
LEMMA SocketsFall ==
  ASSUME NEW n, NEW v, NEW u, NEW p, Sockets(n, v, p), Falls(u, v)
  PROVE  Sockets(n, u, p)
BY DEF Sockets, SocketOk, Falls

\* A handler that ends well keeps the invariant.
LEMMA HoldsDone ==
  ASSUME NEW n, NEW v, NEW u, NEW p, Holds(v, n, p), Good(u, p, {}, {}), u.ready = v.ready, Falls(u, v), Carries(u, v)
  PROVE  Holds(u, n, p)
BY SocketsFall DEF Holds, Carries

\* One socket changes.
LEMMA SocketSet ==
  ASSUME NEW n, NEW v, NEW u, NEW p, Sockets(n, v, p), NEW c \in Clients, Comes(u, v, c),
         NEW r, SocketOk(r, p, c, u.c[c].up), NEW t, t = [n EXCEPT ![c] = r]
  PROVE  Sockets(t, u, p)
<1>1. DOMAIN t = Clients /\ t[c] = r /\ \A x \in Clients : x # c => t[x] = n[x]
  BY DEF Sockets
<1>2. ASSUME NEW x \in Clients PROVE SocketOk(t[x], p, x, u.c[x].up)
  <2>1. CASE x = c
    BY <1>1, <2>1
  <2>2. CASE x # c
    BY <1>1, <2>2 DEF Sockets, SocketOk, Comes
  <2>3. QED
    BY <2>1, <2>2
<1>3. QED
  BY <1>1, <1>2 DEF Sockets

\* The server starts with empty lists.
LEMMA InitHolds == ASSUME Init PROVE Inv
<1>1. PICK p \in DOMAIN Plays :
      /\ s = [c |-> [c \in Clients |-> [Connection({}) EXCEPT !.up = FALSE]], clients |-> <<>>,
              db |-> Plays[p].db, copy |-> Plays[p].db,
              pushed |-> UNION {ToSet(Items(Plays[p].db[k])) : k \in Keys}, gone |-> {},
              watchers |-> [k \in Keys |-> <<>>], waiting |-> [k \in Keys |-> <<>>],
              ready |-> <<>>, isready |-> {},
              channels |-> [ch \in Channels |-> <<>>], patterns |-> <<>>,
              unblocked |-> <<>>, toclose |-> <<>>, slave |-> FALSE,
              paused |-> FALSE, pauseend |-> 0, now |-> 1, mstime |-> 1]
      /\ net = [c \in Clients |-> [todo |-> Plays[p].sends[c], sock |-> <<>>, here |-> FALSE,
                                   master |-> c \in Plays[p].master, leaves |-> c \in Plays[p].leave,
                                   slow |-> c \in Plays[p].slow]]
  BY DEF Init
<1>2. PICK me : me = [Connection({}) EXCEPT !.up = FALSE]
  OBVIOUS
<1>4. s.c = [c \in Clients |-> me]
  BY <1>1, <1>2
<1>5. DOMAIN me = CFields /\ ~me.up /\ me.flags = {} /\ me.in = <<>> /\ me.queue = <<>> /\ me.watched = <<>>
  BY <1>2 DEF CFields, Connection
<1>6. me.keys = {} /\ me.target = None /\ me.subs = {} /\ me.pats = <<>>
  BY <1>2 DEF Connection
<1>7. \A x \in Clients : s.c[x] = me
  BY <1>4
<1>8. Shape(s)
  <2>1. DOMAIN s = Fields
    BY <1>1 DEF Fields
  <2>2. DOMAIN s.c = Clients
    BY <1>4
  <2>3. QED
    BY <1>5, <1>7, <2>1, <2>2 DEF Shape
<1>9. /\ s.clients = <<>> /\ s.db = Plays[p].db /\ s.ready = <<>> /\ s.isready = {} /\ s.patterns = <<>>
      /\ s.unblocked = <<>> /\ s.toclose = <<>> /\ s.watchers = [k \in Keys |-> <<>>]
      /\ s.waiting = [k \in Keys |-> <<>>] /\ s.channels = [ch \in Channels |-> <<>>]
  BY <1>1
<1>10. PICK v : v = s
  OBVIOUS
<1>11. ToSet(<<>>) = {} /\ Once(<<>>) /\ \A S : <<>> \in Seq(S)
  BY DEF ToSet, Once
<1>12. Ups(v) /\ NoFlags(v) /\ NoLinks(v)
  BY <1>5, <1>6, <1>7, <1>9, <1>10, <1>11 DEF Ups, NoFlags, NoLinks
<1>13. Watches(v)
  <2>1. DOMAIN v.watchers = Keys /\ \A k \in Keys : v.watchers[k] = <<>>
    BY <1>9, <1>10
  <2>2. \A x \in Clients : v.c[x].watched = <<>>
    BY <1>5, <1>7, <1>10
  <2>3. QED
    BY <1>11, <2>1, <2>2 DEF Watches
<1>14. Waits(v)
  <2>1. DOMAIN v.waiting = Keys /\ \A k \in Keys : v.waiting[k] = <<>>
    BY <1>9, <1>10
  <2>2. \A x \in Clients : v.c[x].keys = {} /\ v.c[x].target = None
    BY <1>6, <1>7, <1>10
  <2>3. QED
    BY <1>11, <2>1, <2>2 DEF Waits
<1>15. Listens(v)
  <2>1. DOMAIN v.channels = Channels /\ \A k \in Channels : v.channels[k] = <<>>
    BY <1>9, <1>10
  <2>2. \A x \in Clients : v.c[x].subs = {}
    BY <1>6, <1>7, <1>10
  <2>3. QED
    BY <1>11, <2>1, <2>2 DEF Listens
<1>16. Patterns(v) /\ Closes(v) /\ Unblocks(v)
  <2>1. \A x \in Clients : v.c[x].pats = <<>> /\ v.c[x].flags = {}
    BY <1>5, <1>6, <1>7, <1>10
  <2>2. v.patterns = <<>> /\ v.toclose = <<>> /\ v.unblocked = <<>>
    BY <1>9, <1>10
  <2>3. QED
    BY <1>11, <2>1, <2>2 DEF Patterns, Closes, Unblocks
<1>17. Sent(v, p)
  BY <1>5, <1>7, <1>10, <1>11 DEF Sent
<1>18. Serves(v, {})
  <2>1. DOMAIN v.db = Keys /\ v.ready = <<>> /\ v.isready = {} /\ \A k \in Keys : v.waiting[k] = <<>>
    BY <1>9, <1>10, PlaysAssumption
  <2>2. QED
    BY <1>11, <2>1 DEF Serves
<1>19. Sees(v, {}, {})
  BY <1>5, <1>7, <1>10, <1>11 DEF Sees
<1>20. Good(s, p, {}, {}) /\ s.ready = <<>>
  BY <1>8, <1>9, <1>10, <1>12, <1>13, <1>14, <1>15, <1>16, <1>17, <1>18, <1>19 DEF Good
<1>21. Sockets(net, s, p)
  <2>1. DOMAIN net = Clients
    BY <1>1
  <2>2. ASSUME NEW x \in Clients PROVE SocketOk(net[x], p, x, s.c[x].up)
    <3>1. net[x] = [todo |-> Plays[p].sends[x], sock |-> <<>>, here |-> FALSE, master |-> x \in Plays[p].master,
                    leaves |-> x \in Plays[p].leave, slow |-> x \in Plays[p].slow]
      BY <1>1
    <3>6. DOMAIN net[x] = NetFields /\ net[x].todo = Plays[p].sends[x] /\ net[x].sock = <<>>
      BY <3>1 DEF NetFields
    <3>8. net[x].master = (x \in Plays[p].master)
      BY <3>1
    <3>7. net[x].master <=> x \in Plays[p].master
      BY <3>8, Zenon
    <3>2. DOMAIN net[x] = NetFields /\ net[x].todo = Plays[p].sends[x] /\ net[x].sock = <<>>
          /\ (net[x].master <=> x \in Plays[p].master)
      BY <3>6, <3>7
    <3>3. ~s.c[x].up
      BY <1>5, <1>7
    <3>4. net[x].todo \in Seq(Seq(SentBy(p, x)))
      BY <3>2, PlaysAssumption
    <3>5. QED
      BY <1>11, <3>2, <3>3, <3>4 DEF SocketOk
  <2>3. QED
    BY <2>1, <2>2 DEF Sockets
<1>22. Data(s, {})
  <2>1. s.copy = s.db /\ ~s.slave
    BY <1>1
  <2>2. s.db \in [Keys -> Values] /\ \A k \in Keys : s.db[k] # <<>>
    <3>1. Plays[p].db \in [Keys -> {NoKey, Text} \cup (Seq(Elements) \ {<<>>})]
      BY PlaysAssumption
    <3>2. PICK db \in [Keys -> {NoKey, Text} \cup (Seq(Elements) \ {<<>>})] : db = s.db
      BY <1>9, <3>1
    <3>3. db \in [Keys -> Values] /\ \A k \in Keys : db[k] # <<>>
      BY ValuesAssumption DEF Values
    <3>4. QED
      BY <3>2, <3>3
  <2>3. Kept(s.db) = s.db
    BY <2>2, KeptAll
  <2>4. \A x \in Clients : "master" \notin s.c[x].flags
    BY <1>5, <1>7
  <2>5. QED
    BY <2>1, <2>2, <2>3, <2>4 DEF Data
<1>23. QED
  BY <1>20, <1>21, <1>22 DEF Inv, Holds

-----------------------------------------------------------------------------
(* One lemma per action. *)

\* processUnblockedClients.
LEMMA UnblockedHolds ==
  ASSUME NEW p \in DOMAIN Plays, Holds(s, net, p), Unblocked PROVE Holds(s', net', p)
<1>1. PICK u, v, n : u = s' /\ v = s /\ n = net
  OBVIOUS
<1>2. u = Clear([v EXCEPT !.unblocked = Tail(@)], Head(v.unblocked), {"unblocked"}) /\ v.unblocked # <<>> /\ net' = n
  BY <1>1 DEF Unblocked
<1>3. PICK R, X : R = {} /\ X = {}
  OBVIOUS
<1>4. Holds(v, n, p) /\ Good(v, p, R, X)
  BY <1>1, <1>3 DEF Holds
<1>5. Good(u, p, R, X) /\ u.ready = v.ready /\ Falls(u, v) /\ Carries(u, v)
  BY <1>2, <1>4, UnblockedGood, SameCarries
<1>6. Good(u, p, {}, {})
  BY <1>3, <1>5
<1>7. QED
  BY <1>1, <1>2, <1>4, <1>5, <1>6, HoldsDone

\* beforeSleep and the wait for events.
LEMMA PollHolds ==
  ASSUME NEW p \in DOMAIN Plays, Holds(s, net, p), Poll PROVE Holds(s', net', p)
<1>1. PICK u, v, n : u = s' /\ v = s /\ n = net
  OBVIOUS
<1>2. (u = v \/ u = [v EXCEPT !.now = @ + 1]) /\ net' = n
  BY <1>1 DEF Poll
<1>3. PICK R, X : R = {} /\ X = {}
  OBVIOUS
<1>4. Holds(v, n, p) /\ Good(v, p, R, X)
  BY <1>1, <1>3 DEF Holds
<1>5. CASE u = v
  BY <1>1, <1>2, <1>4, <1>5
<1>6. CASE u = [v EXCEPT !.now = @ + 1]
  <2>1. Alters(u, v, {"now"}, {}, {})
    BY <1>4, <1>6, Zenon DEF Good, Alters, Shape, Fields
  <2>2. Alters(u, v, Quiet, {"out", "got"}, {})
    BY <2>1, AltersMore DEF Quiet
  <2>3. Good(u, p, R, X)
    BY <1>4, <2>2, KeepsGood
  <2>4. u.ready = v.ready
    BY <2>1, Zenon DEF Alters, Fields
  <2>5. Falls(u, v)
    <3>1. \A x \in Clients : u.c[x].up = v.c[x].up
      BY <2>1, UpOf
    <3>2. QED
      BY <3>1 DEF Falls
  <2>8. Carries(u, v)
    BY <2>1, AltersSame, SameCarries
  <2>6. Good(u, p, {}, {})
    BY <1>3, <2>3
  <2>7. QED
    BY <1>1, <1>2, <1>4, <2>4, <2>5, <2>6, <2>8, HoldsDone
<1>7. QED
  BY <1>2, <1>5, <1>6

\* serverCron.
LEMMA CronHolds ==
  ASSUME NEW p \in DOMAIN Plays, Holds(s, net, p), Cron PROVE Holds(s', net', p)
<1>1. PICK u, v, n : u = s' /\ v = s /\ n = net
  OBVIOUS
<1>2. (u = v \/ u = EndPause(FreeClientsInAsyncFreeQueue(Timeouts([v EXCEPT !.mstime = v.now], v)))) /\ net' = n
  <2>1. \/ s' = s
        \/ s' = EndPause(FreeClientsInAsyncFreeQueue(ForEach([s EXCEPT !.mstime = s.now], s.clients, HandleTimeout)))
    BY Zenon DEF Cron
  <2>2. net' = net
    BY DEF Cron
  <2>3. QED
    BY <1>1, <2>1, <2>2, Zenon DEF Timeouts
<1>3. Holds(v, n, p) /\ Good(v, p, {}, {}) /\ v.ready = <<>>
  BY <1>1 DEF Holds
<1>4. CASE u = v
  BY <1>1, <1>2, <1>3, <1>4
<1>5. CASE u = EndPause(FreeClientsInAsyncFreeQueue(Timeouts([v EXCEPT !.mstime = v.now], v)))
  <2>1. Good(u, p, {}, {}) /\ u.ready = <<>> /\ Same(u, v) /\ \A x \in Clients : u.c[x].up => v.c[x].up
    BY <1>3, <1>5, CronGood
  <2>2. Falls(u, v) /\ u.ready = v.ready /\ Carries(u, v)
    BY <1>3, <2>1, SameCarries DEF Falls
  <2>3. QED
    BY <1>1, <1>2, <1>3, <2>1, <2>2, HoldsDone
<1>6. QED
  BY <1>2, <1>4, <1>5

\* readQueryFromClient: one client's socket and its query buffer.
LEMMA ReadHolds ==
  ASSUME NEW p, NEW v, NEW n, Holds(v, n, p), NEW c \in Clients, v.c[c].up,
         NEW u, u = ReadQuery(v, c, n[c].sock), NEW t, t = [n EXCEPT ![c].sock = <<>>]
  PROVE  Holds(u, t, p)
<1>1. PICK R, X : R = {} /\ X = {}
  OBVIOUS
<1>2. Good(v, p, R, X) /\ Sockets(n, v, p) /\ v.ready = <<>> /\ Data(v, {})
  BY <1>1 DEF Holds
<1>3. PICK sock \in Seq(SentBy(p, c)) : sock = n[c].sock
  BY <1>2 DEF Sockets, SocketOk
<1>4. Good(u, p, R, X) /\ u.ready = v.ready /\ Falls(u, v) /\ Carries(u, v)
  BY <1>2, <1>3, ReadQueryGood, SameCarries
<1>5. PICK r : r = [n[c] EXCEPT !.sock = <<>>]
  OBVIOUS
<1>6. SocketOk(n[c], p, c, v.c[c].up)
  BY <1>2 DEF Sockets
<1>7. SocketOk(r, p, c, u.c[c].up)
  <2>1. DOMAIN r = NetFields /\ r.todo = n[c].todo /\ r.sock = <<>> /\ r.master = n[c].master /\ r.here = n[c].here
    BY <1>5, <1>6 DEF SocketOk, NetFields
  <2>2. u.c[c].up => v.c[c].up
    BY <1>4 DEF Falls
  <2>3. <<>> \in Seq(SentBy(p, c))
    OBVIOUS
  <2>4. QED
    BY <1>6, <2>1, <2>2, <2>3 DEF SocketOk
<1>8. t = [n EXCEPT ![c] = r]
  BY <1>5
<1>9. Comes(u, v, c)
  BY <1>4 DEF Falls, Comes
<1>10. Sockets(t, u, p)
  BY <1>2, <1>7, <1>8, <1>9, SocketSet, ZenonT(60)
<1>11. QED
  BY <1>1, <1>2, <1>4, <1>10 DEF Holds, Carries

\* The other events of a socket.
LEMMA EventHolds ==
  ASSUME NEW p \in DOMAIN Plays, Holds(s, net, p), NEW c \in Clients, NEW e, Event(c, e) PROVE Holds(s', net', p)
<1>1. PICK u, v, n : u = s' /\ v = s /\ n = net
  OBVIOUS
<1>2. \/ u = v /\ net' = n
      \/ v.c[c].up /\ u = ReadQuery(v, c, n[c].sock) /\ net' = [n EXCEPT ![c].sock = <<>>]
      \/ v.c[c].up /\ u \in {SendReplyToClient(v, c), FreeClient(v, c)} /\ net' = n
  <2>1. \/ s' = s /\ net' = net
        \/ s.c[c].up /\ s' = ReadQuery(s, c, net[c].sock) /\ net' = [net EXCEPT ![c].sock = <<>>]
        \/ s.c[c].up /\ s' \in {SendReplyToClient(s, c), FreeClient(s, c)} /\ net' = net
    BY DEF Event
  <2>2. QED
    BY <1>1, <2>1
<1>3. PICK R, X : R = {} /\ X = {}
  OBVIOUS
<1>4. Holds(v, n, p) /\ Good(v, p, R, X)
  BY <1>1, <1>3 DEF Holds
<1>5. CASE u = v /\ net' = n
  BY <1>1, <1>4, <1>5
<1>6. CASE v.c[c].up /\ u = ReadQuery(v, c, n[c].sock) /\ net' = [n EXCEPT ![c].sock = <<>>]
  <2>1. PICK t : t = net'
    OBVIOUS
  <2>2. Holds(u, t, p)
    BY <1>4, <1>6, <2>1, ReadHolds
  <2>3. QED
    BY <1>1, <2>1, <2>2
<1>7. CASE v.c[c].up /\ u \in {SendReplyToClient(v, c), FreeClient(v, c)} /\ net' = n
  <2>1. Good(u, p, R, X) /\ u.ready = v.ready /\ Falls(u, v) /\ Carries(u, v)
    <3>1. CASE u = SendReplyToClient(v, c)
      BY <1>4, <1>7, <3>1, SendReplyGood, SameCarries
    <3>2. CASE u = FreeClient(v, c)
      <4>1. Good(u, p, R, X) /\ Freed(u, v, c)
        BY <1>4, <1>7, <3>2, FreeClientGood
      <4>2. QED
        BY <4>1, FreedFalls, SameCarries
    <3>3. QED
      BY <1>7, <3>1, <3>2
  <2>2. Good(u, p, {}, {})
    BY <1>3, <2>1
  <2>3. QED
    BY <1>1, <1>4, <1>7, <2>1, <2>2, HoldsDone
<1>8. QED
  BY <1>2, <1>5, <1>6, <1>7

\* One command of the query buffer.
LEMMA OneCommand ==
  ASSUME NEW p \in DOMAIN Plays, NEW v, Good(v, p, {}, {}), v.ready = <<>>, NEW c \in Clients, MayProcess(v, c),
         NEW cmd, cmd = NextCommand(v.c[c].in), NEW u,
         u = IF cmd.op = "noise" THEN SetProtocolError(v, c) ELSE ProcessCommand(Consume(v, c), c, cmd)
  PROVE  Done(u, v, p)
<1>1. PICK R, X : R = {} /\ X = {}
  OBVIOUS
<1>2. Good(v, p, R, X)
  BY <1>1
<1>3. v.c[c].up /\ Whole(v.c[c].in) /\ "blocked" \notin v.c[c].flags
  BY DEF MayProcess
<1>4. CASE cmd.op = "noise"
  <2>1. u = SetProtocolError(v, c)
    BY <1>4
  <2>2. Good(u, p, R, X) /\ u.ready = v.ready /\ Falls(u, v) /\ Carries(u, v)
    BY <1>2, <1>3, <2>1, ProtocolErrorGood, SameCarries
  <2>3. QED
    BY <1>1, <2>2 DEF Done
<1>5. CASE cmd.op # "noise"
  <2>1. PICK w : w = Consume(v, c)
    OBVIOUS
  <2>2. /\ Good(w, p, R, X) /\ Alters(w, v, {}, {"in"}, {}) /\ w.c[c].flags = v.c[c].flags
        /\ NextCommand(v.c[c].in) \in SentBy(p, c) /\ NextCommand(v.c[c].in).op # "part"
    BY <1>2, <1>3, <2>1, ConsumeGood
  <2>3. w.ready = v.ready
    BY <2>2, Zenon DEF Alters, Fields
  <2>4. \A x \in Clients : w.c[x].up = v.c[x].up
    BY <2>2, UpOf
  <2>5. Good(w, p, {}, {}) /\ w.ready = <<>> /\ w.c[c].up /\ "blocked" \notin w.c[c].flags
    BY <1>1, <1>3, <2>2, <2>3, <2>4
  <2>6. cmd \in SentBy(p, c) /\ cmd.op \notin {"part", "noise"}
    BY <1>5, <2>2
  <2>7. u = ProcessCommand(w, c, cmd)
    BY <1>5, <2>1
  <2>10. Carries(w, v)
    BY <2>2, AltersSame, SameCarries
  <2>8. Done(u, w, p)
    BY <2>5, <2>6, <2>7, ProcessCommandGood
  <2>9. QED
    BY <2>4, <2>8, <2>10, CarriesTrans DEF Done, Falls
<1>6. QED
  BY <1>4, <1>5

\* processInputBuffer.
LEMMA ProcessHolds ==
  ASSUME NEW p \in DOMAIN Plays, Holds(s, net, p), NEW c \in Clients, Process(c) PROVE Holds(s', net', p)
<1>1. PICK u, w, n : u = s' /\ w = s /\ n = net
  OBVIOUS
<1>2. PICK v : /\ v = w \/ v = EndPause(w)
               /\ \/ u = v
                  \/ /\ MayProcess(v, c)
                     /\ u = IF NextCommand(v.c[c].in).op = "noise" THEN SetProtocolError(v, c)
                            ELSE ProcessCommand(Consume(v, c), c, NextCommand(v.c[c].in))
  <2>1. PICK v : /\ v = s \/ v = EndPause(s)
                 /\ \/ s' = v
                    \/ /\ MayProcess(v, c)
                       /\ s' = IF NextCommand(v.c[c].in).op = "noise" THEN SetProtocolError(v, c)
                               ELSE ProcessCommand(Consume(v, c), c, NextCommand(v.c[c].in))
    BY DEF Process
  <2>2. QED
    BY <1>1, <2>1
<1>3. net' = n
  BY <1>1 DEF Process
<1>4. PICK R, X : R = {} /\ X = {}
  OBVIOUS
<1>5. Holds(w, n, p) /\ Good(w, p, R, X) /\ w.ready = <<>>
  BY <1>1, <1>4 DEF Holds
<1>6. Good(v, p, R, X) /\ v.ready = w.ready /\ Falls(v, w) /\ Carries(v, w)
  <2>1. CASE v = w
    BY <1>5, <2>1 DEF Falls, Carries
  <2>2. CASE v = EndPause(w)
    <3>1. Good(v, p, R, X) /\ Unpaused(v, w)
      BY <1>5, <2>2, EndPauseGood
    <3>2. v.ready = w.ready
      BY <3>1, Zenon DEF Unpaused, Alters, Fields
    <3>3. \A x \in Clients : v.c[x].up = w.c[x].up
      BY <3>1, UpOf DEF Unpaused
    <3>4. QED
      BY <3>1, <3>2, <3>3, AltersSame, SameCarries DEF Falls, Unpaused
  <2>3. QED
    BY <1>2, <2>1, <2>2
<1>7. Good(v, p, {}, {}) /\ v.ready = <<>>
  BY <1>4, <1>5, <1>6
<1>8. Done(u, v, p)
  <2>1. CASE u = v
    BY <1>7, <2>1 DEF Done, Falls, Carries
  <2>2. CASE /\ MayProcess(v, c)
             /\ u = IF NextCommand(v.c[c].in).op = "noise" THEN SetProtocolError(v, c)
                    ELSE ProcessCommand(Consume(v, c), c, NextCommand(v.c[c].in))
    <3>1. PICK cmd : cmd = NextCommand(v.c[c].in)
      OBVIOUS
    <3>2. u = IF cmd.op = "noise" THEN SetProtocolError(v, c) ELSE ProcessCommand(Consume(v, c), c, cmd)
      BY <2>2, <3>1
    <3>3. QED
      BY <1>7, <2>2, <3>1, <3>2, OneCommand
  <2>3. QED
    BY <1>2, <2>1, <2>2
<1>9. Good(u, p, {}, {}) /\ u.ready = w.ready /\ Falls(u, w) /\ Carries(u, w)
  BY <1>5, <1>6, <1>8, CarriesTrans DEF Done, Falls
<1>10. QED
  BY <1>1, <1>3, <1>5, <1>9, HoldsDone

\* A client connects.
LEMMA AcceptHolds ==
  ASSUME NEW p \in DOMAIN Plays, Holds(s, net, p), NEW c \in Clients, Accept(c) PROVE Holds(s', net', p)
<1>1. PICK u, v, n, t : u = s' /\ v = s /\ n = net /\ t = net'
  OBVIOUS
<1>2. ~n[c].here /\ n[c].todo # <<>> /\ (n[c].master => v.slave) /\ t = [n EXCEPT ![c].here = TRUE]
  BY <1>1 DEF Accept
<1>3. PICK F \in FirstFlags : F = IF n[c].master THEN {"master"} ELSE {}
  BY DEF FirstFlags
<1>4. u = Accepted(v, c, F)
  BY <1>1, <1>3, Zenon DEF Accept, Accepted
<1>5. PICK R, X : R = {} /\ X = {}
  OBVIOUS
<1>6. Good(v, p, R, X) /\ Sockets(n, v, p) /\ v.ready = <<>> /\ Data(v, {})
  BY <1>1, <1>5 DEF Holds
<1>7. SocketOk(n[c], p, c, v.c[c].up)
  BY <1>6 DEF Sockets
<1>8. ~v.c[c].up /\ ("master" \in F => c \in Plays[p].master) /\ ("master" \in F => v.slave)
  BY <1>2, <1>3, <1>7 DEF SocketOk
<1>9. Good(u, p, R, X) /\ u.ready = v.ready /\ Comes(u, v, c) /\ Carries(u, v)
  BY <1>4, <1>6, <1>8, AcceptedGood
<1>10. PICK r : r = [n[c] EXCEPT !.here = TRUE]
  OBVIOUS
<1>11. SocketOk(r, p, c, u.c[c].up)
  <2>1. DOMAIN r = NetFields /\ r.todo = n[c].todo /\ r.sock = n[c].sock /\ r.master = n[c].master /\ r.here
    BY <1>7, <1>10 DEF SocketOk, NetFields
  <2>2. QED
    BY <1>7, <2>1 DEF SocketOk
<1>12. t = [n EXCEPT ![c] = r]
  BY <1>2, <1>10
<1>13. Sockets(t, u, p)
  BY <1>6, <1>9, <1>11, <1>12, SocketSet, Zenon
<1>14. QED
  BY <1>1, <1>5, <1>6, <1>9, <1>13 DEF Holds, Carries

\* What it sends arrives.
LEMMA ArriveHolds ==
  ASSUME NEW p \in DOMAIN Plays, Holds(s, net, p), NEW c \in Clients, Arrive(c) PROVE Holds(s', net', p)
<1>1. PICK v, n, t : v = s /\ n = net /\ t = net'
  OBVIOUS
<1>2. n[c].here /\ n[c].todo # <<>> /\ t = [n EXCEPT ![c].todo = Tail(@), ![c].sock = @ \o Head(n[c].todo)] /\ s' = v
  BY <1>1 DEF Arrive
<1>3. Good(v, p, {}, {}) /\ Sockets(n, v, p) /\ v.ready = <<>> /\ Data(v, {})
  BY <1>1 DEF Holds
<1>4. SocketOk(n[c], p, c, v.c[c].up)
  BY <1>3 DEF Sockets
<1>5. PICK todo \in Seq(Seq(SentBy(p, c))), sock \in Seq(SentBy(p, c)) : todo = n[c].todo /\ sock = n[c].sock
  BY <1>4 DEF SocketOk
<1>6. Head(todo) \in ToSet(todo) /\ ToSet(todo) \subseteq Seq(SentBy(p, c)) /\ Tail(todo) \in Seq(Seq(SentBy(p, c)))
  <2>1. todo # <<>>
    BY <1>2, <1>5
  <2>2. QED
    BY <2>1, TailSet, SetOfSeq
<1>7. PICK packet \in Seq(SentBy(p, c)), rest \in Seq(Seq(SentBy(p, c))) : packet = Head(todo) /\ rest = Tail(todo)
  BY <1>6
<1>8. PICK more \in Seq(SentBy(p, c)) : more = sock \o packet
  BY ConcatSet
<1>9. PICK r : r = [n[c] EXCEPT !.todo = rest, !.sock = more]
  OBVIOUS
<1>10. t = [n EXCEPT ![c] = r]
  <2>1. DOMAIN n = Clients /\ DOMAIN n[c] = NetFields
    BY <1>3, <1>4 DEF Sockets, SocketOk
  <2>2. t = [n EXCEPT ![c].todo = rest, ![c].sock = more]
    BY <1>2, <1>5, <1>7, <1>8
  <2>3. QED
    BY <1>9, <2>1, <2>2 DEF NetFields
<1>11. SocketOk(r, p, c, v.c[c].up)
  <2>1. DOMAIN r = NetFields /\ r.todo = rest /\ r.sock = more /\ r.master = n[c].master /\ r.here = n[c].here
    BY <1>4, <1>9 DEF SocketOk, NetFields
  <2>2. QED
    BY <1>2, <1>4, <2>1 DEF SocketOk
<1>14. Comes(v, v, c)
  BY DEF Comes
<1>12. Sockets(t, v, p)
  BY <1>3, <1>10, <1>11, <1>14, SocketSet
<1>13. QED
  BY <1>1, <1>2, <1>3, <1>12 DEF Holds

\* It leaves.
LEMMA LeaveHolds ==
  ASSUME NEW p \in DOMAIN Plays, Holds(s, net, p), NEW c \in Clients, Leave(c) PROVE Holds(s', net', p)
<1>1. PICK v, n, t : v = s /\ n = net /\ t = net'
  OBVIOUS
<1>2. n[c].todo = <<>> /\ t = [n EXCEPT ![c].here = FALSE] /\ s' = v
  BY <1>1 DEF Leave
<1>3. Good(v, p, {}, {}) /\ Sockets(n, v, p) /\ v.ready = <<>> /\ Data(v, {})
  BY <1>1 DEF Holds
<1>4. SocketOk(n[c], p, c, v.c[c].up)
  BY <1>3 DEF Sockets
<1>5. PICK r : r = [n[c] EXCEPT !.here = FALSE]
  OBVIOUS
<1>6. SocketOk(r, p, c, v.c[c].up)
  <2>1. DOMAIN r = NetFields /\ r.todo = n[c].todo /\ r.sock = n[c].sock /\ r.master = n[c].master
    BY <1>4, <1>5 DEF SocketOk, NetFields
  <2>2. QED
    BY <1>2, <1>4, <2>1 DEF SocketOk
<1>7. t = [n EXCEPT ![c] = r]
  BY <1>2, <1>5
<1>10. Comes(v, v, c)
  BY DEF Comes
<1>8. Sockets(t, v, p)
  BY <1>3, <1>6, <1>7, <1>10, SocketSet
<1>9. QED
  BY <1>1, <1>2, <1>3, <1>8 DEF Holds

-----------------------------------------------------------------------------
(* The theorems. *)

\* Every step keeps it.
LEMMA NextKeeps == ASSUME Inv, [Next]_vars PROVE Inv'
<1>1. PICK p \in DOMAIN Plays : Holds(s, net, p)
  BY DEF Inv
<1>2. SUFFICES Holds(s', net', p)
  BY DEF Inv
<1>3. CASE Unblocked
  BY <1>1, <1>3, UnblockedHolds
<1>4. CASE Sleep
  BY <1>1, <1>4 DEF Sleep
<1>5. CASE Poll
  BY <1>1, <1>5, PollHolds
<1>6. CASE Cron
  BY <1>1, <1>6, CronHolds
<1>7. ASSUME NEW c \in Clients, Process(c) PROVE Holds(s', net', p)
  BY <1>1, <1>7, ProcessHolds
<1>8. ASSUME NEW c \in Clients, NEW e \in {"read", "write"}, Event(c, e) PROVE Holds(s', net', p)
  BY <1>1, <1>8, EventHolds
<1>9. ASSUME NEW c \in Clients, Accept(c) PROVE Holds(s', net', p)
  BY <1>1, <1>9, AcceptHolds
<1>10. ASSUME NEW c \in Clients, Arrive(c) PROVE Holds(s', net', p)
  BY <1>1, <1>10, ArriveHolds
<1>11. ASSUME NEW c \in Clients, Leave(c) PROVE Holds(s', net', p)
  BY <1>1, <1>11, LeaveHolds
<1>12. CASE UNCHANGED vars
  BY <1>1, <1>12 DEF vars
<1>13. QED
  BY <1>3, <1>4, <1>5, <1>6, <1>7, <1>8, <1>9, <1>10, <1>11, <1>12 DEF Next, Loop

\* Whatever the clients send, and however the event loop, the sockets and the
\* time interleave, the server is good whenever a handler returns: the lists
\* agree with the connections (unblocked_clients has at least those who are flagged),
\* the keys that dbAdd made lists have been served, and a change of a watched key is
\* marked (networking.c, multi.c, t_list.c, pubsub.c).
THEOREM ClientsInvariant == Spec => []Inv
<1>1. Init => Inv
  BY InitHolds
<1>2. Inv /\ [Next]_vars => Inv'
  BY NextKeeps
<1>3. QED
  BY <1>1, <1>2, PTL DEF Spec

\* A client whose watched key holds something else than when it was watched
\* cannot execute its transaction (touchWatchedKey, multi.c).
THEOREM WatchAlwaysSees == Spec => []WatchSees
<1>1. Inv => WatchSees
  <2>1. SUFFICES ASSUME NEW p \in DOMAIN Plays, Holds(s, net, p) PROVE WatchSees
    BY DEF Inv
  <2>2. Sees(s, {}, {})
    BY <2>1 DEF Holds, Good
  <2>3. QED
    BY <2>2 DEF WatchSees, Sees, Dirty, Has
<1>2. QED
  BY <1>1, ClientsInvariant, PTL

\* Nobody waits for a key that holds a list, when lists are made by dbAdd, which
\* signals them (db.c:98): by a push, RENAME, RPOPLPUSH or the serving of a
\* BRPOPLPUSH, on their own or in a transaction (handleClientsBlockedOnLists,
\* t_list.c).  Of dbOverwrite, with which SORT ... STORE makes a list of a key that
\* is there, it says nothing: that one is not signalled.
THEOREM NobodyEverWaits == Spec => []NobodyWaits
<1>1. Inv => NobodyWaits
  <2>1. SUFFICES ASSUME NEW p \in DOMAIN Plays, Holds(s, net, p) PROVE NobodyWaits
    BY DEF Inv
  <2>2. Serves(s, {}) /\ s.ready = <<>>
    BY <2>1 DEF Holds, Good
  <2>3. ToSet(s.ready) = {}
    BY <2>2 DEF ToSet
  <2>4. QED
    BY <2>2, <2>3 DEF NobodyWaits, Serves
<1>2. QED
  BY <1>1, ClientsInvariant, PTL

\* The lists of watchers, of those who wait, who listen and who are to be closed are
\* exactly what each client knows of itself, and one that is gone is in none of them;
\* one that is flagged as unblocked is in unblocked_clients, which may hold others,
\* also one that is gone (freeClient, networking.c).
THEOREM ListsAlwaysAgree == Spec => []ListsAgree
<1>1. Inv => ListsAgree
  <2>1. SUFFICES ASSUME NEW p \in DOMAIN Plays, Holds(s, net, p), NEW c \in Clients
        PROVE  LET me == s.c[c]
                   where(f) == {k \in DOMAIN f : c \in ToSet(f[k])}
               IN /\ where(s.watchers) = ToSet(me.watched) /\ where(s.waiting) = me.keys
                  /\ where(s.channels) = me.subs /\ {r[2] : r \in {q \in ToSet(s.patterns) : q[1] = c}} = ToSet(me.pats)
                  /\ c \in ToSet(s.toclose) <=> Has(s, c, "close_asap")
                  /\ Has(s, c, "unblocked") => c \in ToSet(s.unblocked)
                  /\ (~me.up => me.flags = {} /\ me.watched = <<>> /\ me.keys = {} /\ me.subs = {} /\ me.pats = <<>>)
    BY DEF Inv, ListsAgree
  <2>2. /\ Watches(s) /\ Waits(s) /\ Listens(s) /\ Patterns(s) /\ Closes(s) /\ Unblocks(s)
        /\ NoFlags(s) /\ NoLinks(s)
    BY <2>1 DEF Holds, Good
  <2>3. {k \in DOMAIN s.watchers : c \in ToSet(s.watchers[k])} = ToSet(s.c[c].watched)
    <3>1. ToSet(s.c[c].watched) \subseteq Keys
      BY <2>2, SetOfSeq DEF Watches
    <3>2. QED
      BY <2>2, <3>1 DEF Watches
  <2>4. {k \in DOMAIN s.waiting : c \in ToSet(s.waiting[k])} = s.c[c].keys
    BY <2>2 DEF Waits
  <2>5. {k \in DOMAIN s.channels : c \in ToSet(s.channels[k])} = s.c[c].subs
    BY <2>2 DEF Listens
  <2>6. {r[2] : r \in {q \in ToSet(s.patterns) : q[1] = c}} = ToSet(s.c[c].pats)
    <3>1. ToSet(s.patterns) \subseteq Clients \X SUBSET Channels /\ ToSet(s.c[c].pats) \subseteq SUBSET Channels
      BY <2>2, SetOfSeq DEF Patterns
    <3>2. \A m \in SUBSET Channels : <<c, m>> \in ToSet(s.patterns) <=> m \in ToSet(s.c[c].pats)
      BY <2>2 DEF Patterns
    <3>3. \A r \in ToSet(s.patterns) : r[2] \in SUBSET Channels /\ (r[1] = c => r = <<c, r[2]>>)
      BY <3>1
    <3>4. ASSUME NEW m \in ToSet(s.c[c].pats) PROVE m \in {r[2] : r \in {q \in ToSet(s.patterns) : q[1] = c}}
      <4>1. <<c, m>> \in ToSet(s.patterns)
        BY <3>1, <3>2
      <4>2. PICK r : r = <<c, m>>
        OBVIOUS
      <4>3. r[1] = c /\ r[2] = m /\ r \in ToSet(s.patterns)
        BY <4>1, <4>2
      <4>4. QED
        BY <4>3
    <3>5. ASSUME NEW r \in ToSet(s.patterns), r[1] = c PROVE r[2] \in ToSet(s.c[c].pats)
      BY <3>2, <3>3, <3>5
    <3>6. QED
      BY <3>4, <3>5
  <2>7. (c \in ToSet(s.toclose) <=> Has(s, c, "close_asap")) /\ (Has(s, c, "unblocked") => c \in ToSet(s.unblocked))
    BY <2>2 DEF Closes, Unblocks, Has
  <2>8. ~s.c[c].up => s.c[c].flags = {} /\ s.c[c].watched = <<>> /\ s.c[c].subs = {} /\ s.c[c].pats = <<>>
    BY <2>2 DEF NoFlags, NoLinks
  <2>9. ~s.c[c].up => s.c[c].keys = {}
    BY <2>2, <2>8 DEF Waits
  <2>10. QED
    BY <2>3, <2>4, <2>5, <2>6, <2>7, <2>8, <2>9
<1>2. QED
  BY <1>1, ClientsInvariant, PTL

\* Who reads the stream of commands of a server that is not a slave has the same
\* data: what each command, transaction and serving does is propagated, in the
\* order of its effects (propagate, redis.c, serveClientBlockedOnList, t_list.c).
THEOREM CopyAlwaysAgrees == Spec => [](~s.slave => CopyAgrees)
<1>1. Inv => (~s.slave => CopyAgrees)
  <2>1. SUFFICES ASSUME NEW p \in DOMAIN Plays, Holds(s, net, p), ~s.slave PROVE CopyAgrees
    BY DEF Inv
  <2>2. Data(s, {})
    BY <2>1 DEF Holds
  <2>3. QED
    BY <2>1, <2>2, KeptAll DEF Data, CopyAgrees
<1>2. QED
  BY <1>1, ClientsInvariant, PTL
====
