----------------------------- MODULE DictProofs ------------------------------
(***************************************************************************)
(* Proofs about Dict, for every set of keys and every width of the hash:   *)
(* the invariant of the two tables, the refinement of OneKey and what a    *)
(* safe iterator returns.                                                  *)
(***************************************************************************)
EXTENDS Dict, DataInduction, FiniteSetTheorems

-----------------------------------------------------------------------------
(* Least and greatest elements, and sizes. *)

LEMMA MinIs ==
  ASSUME NEW S \in SUBSET Nat, S # {}
  PROVE  Min(S) \in S /\ \A x \in S : Min(S) <= x
<1>1. \E x \in S : \A y \in S : x <= y
  BY LeastNat
<1>2. QED
  BY <1>1 DEF Min

LEMMA MaxOfTwo ==
  ASSUME NEW a \in Int, NEW b \in Int
  PROVE  Max({a, b}) = IF a >= b THEN a ELSE b
<1>1. PICK c \in Int : c = (IF a >= b THEN a ELSE b) /\ c \in {a, b} /\ \A y \in {a, b} : c >= y
  OBVIOUS
<1>2. PICK m : m = Max({a, b})
  OBVIOUS
<1>3. m \in {a, b} /\ \A y \in {a, b} : m >= y
  BY <1>1, <1>2 DEF Max
<1>4. m = c
  BY <1>1, <1>3
<1>5. QED
  BY <1>1, <1>2, <1>4

LEMMA SizesAre ==
  /\ Sizes \subseteq Nat \ {0} /\ InitialSize \in Sizes
  /\ IsFiniteSet(Keys) /\ Cardinality(Keys) \in Nat
  /\ \E s \in Sizes : s >= 2 * Cardinality(Keys)
<1>1. InitialSize \in Nat \ {0} /\ Bits \in Nat
  BY DictConstants
<1>2. \A i \in 0..Bits : 2^i \in Int
  BY <1>1
<1>3. Sizes \subseteq Nat \ {0}
  BY <1>1, <1>2 DEF Sizes
<1>4. QED
  BY <1>3, DictConstants, FS_CardinalityType

LEMMA SizeIsNat ==
  ASSUME NEW n \in Sizes \cup {0}
  PROVE  n \in Nat
<1>1. \A s \in Sizes : s \in Nat \ {0}
  BY SizesAre
<1>2. CASE n = 0
  BY <1>2
<1>3. CASE n \in Sizes
  BY <1>1, <1>3
<1>4. QED
  BY <1>2, <1>3

LEMMA NextPowerIs ==
  ASSUME NEW n \in Nat, n <= 2 * Cardinality(Keys) \/ n <= InitialSize
  PROVE  NextPower(n) \in Sizes /\ NextPower(n) \in Nat \ {0} /\ NextPower(n) >= n
<1>1. \E s \in Sizes : s >= n
  <2>1. PICK s \in Sizes : s >= 2 * Cardinality(Keys)
    BY SizesAre
  <2>2. s \in Nat /\ InitialSize \in Nat /\ Cardinality(Keys) \in Nat
    BY SizesAre
  <2>3. s >= n \/ InitialSize >= n
    BY <2>1, <2>2
  <2>4. QED
    BY <2>3, SizesAre
<1>2. NextPower(n) \in {s \in Sizes : s >= n}
  <2>1. PICK S : S = {s \in Sizes : s >= n}
    OBVIOUS
  <2>2. S # {} /\ S \in SUBSET Nat
    BY <1>1, <2>1, SizesAre
  <2>3. QED
    BY <2>1, <2>2, MinIs DEF NextPower
<1>3. QED
  BY <1>2, SizesAre

-----------------------------------------------------------------------------
(* One table. *)

LEMMA IndexIn ==
  ASSUME NEW k \in Keys, NEW t, t.size \in Nat \ {0}
  PROVE  Index(t, k) \in 0 .. t.size - 1
<1>1. k \in Nat /\ Bits \in Nat
  BY DictConstants
<1>2. QED
  BY <1>1 DEF Index, Hash, Width

LEMMA TableFacts ==
  ASSUME NEW t, WellPlaced(t)
  PROVE  /\ t.size \in Nat /\ t.size \in Sizes \cup {0}
         /\ t.used \in Nat /\ t.used <= Cardinality(Keys)
         /\ t = [size |-> t.size, used |-> t.used, bucket |-> t.bucket]
         /\ t.bucket \in [0 .. t.size - 1 -> SUBSET Keys]
         /\ Entries(t) \subseteq Keys /\ IsFiniteSet(Entries(t))
         /\ t.used = Cardinality(Entries(t))
         /\ t.used = 0 <=> Entries(t) = {}
<1>1. t.size \in Nat /\ t.bucket \in [0 .. t.size - 1 -> SUBSET Keys] /\ t.used = Cardinality(Entries(t))
  <2>1. /\ t.size \in Sizes \cup {0} /\ t.bucket \in [0 .. t.size - 1 -> SUBSET Keys]
        /\ t.used = Cardinality(Entries(t))
    BY DEF WellPlaced
  <2>2. PICK n : n = t.size /\ n \in Sizes \cup {0}
    BY <2>1
  <2>3. n \in Nat
    BY <2>2, SizeIsNat
  <2>4. QED
    BY <2>1, <2>2, <2>3
<1>2. Entries(t) \subseteq Keys
  BY <1>1 DEF Entries
<1>3. IsFiniteSet(Entries(t)) /\ Cardinality(Entries(t)) <= Cardinality(Keys)
  BY <1>2, SizesAre, FS_Subset
<1>4. t.used = 0 <=> Entries(t) = {}
  BY <1>1, <1>3, FS_EmptySet
<1>5. QED
  BY <1>1, <1>2, <1>3, <1>4 DEF WellPlaced

\* A key is in its chain if it is in the table.
LEMMA ChainIs ==
  ASSUME NEW t, WellPlaced(t), NEW k \in Keys
  PROVE  k \in Chain(t, k) <=> k \in Entries(t)
<1>1. CASE t.size = 0
  <2>1. Entries(t) = {}
    BY <1>1 DEF Entries
  <2>2. QED
    BY <1>1, <2>1 DEF Chain
<1>2. CASE t.size # 0
  <2>1. Index(t, k) \in 0 .. t.size - 1
    BY <1>2, TableFacts, IndexIn
  <2>2. Chain(t, k) = t.bucket[Index(t, k)]
    BY <1>2 DEF Chain
  <2>3. ASSUME k \in Entries(t) PROVE k \in t.bucket[Index(t, k)]
    <3>1. PICK i \in 0 .. t.size - 1 : k \in t.bucket[i]
      BY <2>3 DEF Entries
    <3>2. Index(t, k) = i
      BY <3>1 DEF WellPlaced
    <3>3. QED
      BY <3>1, <3>2
  <2>4. QED
    BY <2>1, <2>2, <2>3 DEF Entries
<1>3. QED
  BY <1>1, <1>2

LEMMA NewTableIs ==
  ASSUME NEW n \in Sizes \cup {0}
  PROVE  WellPlaced(NewTable(n)) /\ Entries(NewTable(n)) = {} /\ NewTable(n).size = n
<1>1. n \in Nat
  BY SizesAre
<1>2. PICK t : t = NewTable(n)
  OBVIOUS
<1>3. /\ t.size = n /\ t.used = 0 /\ t.bucket = [i \in 0..n-1 |-> {}]
      /\ t \in [size : Sizes \cup {0}, used : Nat, bucket : [0..t.size-1 -> SUBSET Keys]]
  BY <1>2 DEF NewTable
<1>4. Entries(t) = {}
  BY <1>3 DEF Entries
<1>5. WellPlaced(t)
  BY <1>3, <1>4, FS_EmptySet DEF WellPlaced
<1>6. QED
  BY <1>2, <1>3, <1>4, <1>5

\* A table with other buckets is well placed if they are, and it counts them.
Placed(t, b) == /\ b \in [0 .. t.size - 1 -> SUBSET Keys]
                /\ \A i \in 0 .. t.size - 1 : \A k \in b[i] : Index(t, k) = i
Filled(t, b) == UNION {b[i] : i \in 0 .. t.size - 1}

LEMMA Rebuilt ==
  ASSUME NEW t, WellPlaced(t), NEW b, Placed(t, b), NEW E, E = Filled(t, b),
         NEW u, u = [size |-> t.size, used |-> Cardinality(E), bucket |-> b]
  PROVE  WellPlaced(u) /\ Entries(u) = E /\ u.size = t.size /\ u.bucket = b
<1>. USE DEF Placed, Filled
<1>1. t.size \in Nat /\ t.size \in Sizes \cup {0}
  BY TableFacts
<1>2. u.size = t.size /\ u.bucket = b /\ u.used = Cardinality(E)
  OBVIOUS
<1>3. Entries(u) = E
  BY <1>2 DEF Entries
<1>4. E \in SUBSET Keys
  OBVIOUS
<1>5. Cardinality(E) \in Nat
  BY <1>4, SizesAre, FS_Subset, FS_CardinalityType
<1>6. \A i \in 0 .. u.size - 1 : \A k \in u.bucket[i] : Index(u, k) = i
  BY <1>2 DEF Index
<1>7. u \in [size : Sizes \cup {0}, used : Nat, bucket : [0..u.size-1 -> SUBSET Keys]]
  BY <1>1, <1>2, <1>5
<1>8. QED
  BY <1>2, <1>3, <1>6, <1>7 DEF WellPlaced

LEMMA InsertIs ==
  ASSUME NEW t, WellPlaced(t), t.size # 0, NEW ks \in SUBSET Keys, ks \cap Entries(t) = {}
  PROVE  LET u == Insert(t, ks)
         IN  /\ WellPlaced(u) /\ Entries(u) = Entries(t) \cup ks /\ u.size = t.size
             /\ \A i \in 0 .. t.size - 1 : u.bucket[i] = t.bucket[i] \cup {k \in ks : Index(t, k) = i}
<1>1. PICK b : b = [i \in 0 .. t.size - 1 |-> t.bucket[i] \cup {k \in ks : Index(t, k) = i}]
  OBVIOUS
<1>2. t.size \in Nat \ {0} /\ t.bucket \in [0 .. t.size - 1 -> SUBSET Keys]
  BY TableFacts
<1>3. Placed(t, b)
  BY <1>1, <1>2 DEF Placed, WellPlaced
<1>5. PICK E : E = Entries(t) \cup ks
  OBVIOUS
<1>6. E = Filled(t, b)
  <2>1. \A k \in ks : Index(t, k) \in 0 .. t.size - 1
    BY <1>2, IndexIn
  <2>2. QED
    BY <1>1, <1>5, <2>1 DEF Entries, Filled
<1>7. Cardinality(E) = t.used + Cardinality(ks)
  <2>1. IsFiniteSet(ks) /\ Cardinality(ks) \in Nat
    BY SizesAre, FS_Subset, FS_CardinalityType
  <2>2. IsFiniteSet(Entries(t)) /\ t.used = Cardinality(Entries(t)) /\ t.used \in Nat
    BY TableFacts
  <2>3. PICK both : both = Entries(t) \cap ks
    OBVIOUS
  <2>4. Cardinality(E) = Cardinality(Entries(t)) + Cardinality(ks) - Cardinality(both)
    BY <1>5, <2>1, <2>2, <2>3, FS_Union
  <2>5. both = {}
    BY <2>3
  <2>6. Cardinality(both) = 0
    BY <2>5, FS_EmptySet
  <2>7. QED
    BY <2>1, <2>2, <2>4, <2>6
<1>8. PICK u : u = Insert(t, ks)
  OBVIOUS
<1>9. u = [size |-> t.size, used |-> Cardinality(E), bucket |-> b]
  <2>1. t = [size |-> t.size, used |-> t.used, bucket |-> t.bucket]
    BY TableFacts
  <2>2. u = [t EXCEPT !.used = Cardinality(E), !.bucket = b]
    BY <1>1, <1>7, <1>8 DEF Insert
  <2>3. QED
    BY <2>1, <2>2
<1>10. WellPlaced(u) /\ Entries(u) = E /\ u.size = t.size /\ u.bucket = b
  BY <1>3, <1>6, <1>9, Rebuilt
<1>11. QED
  BY <1>1, <1>5, <1>8, <1>10

LEMMA UnlinkIs ==
  ASSUME NEW t, WellPlaced(t), NEW k \in Keys, k \in Chain(t, k)
  PROVE  LET u == Unlink(t, k)
         IN  /\ WellPlaced(u) /\ Entries(u) = Entries(t) \ {k} /\ u.size = t.size
             /\ \A i \in 0 .. t.size - 1 : u.bucket[i] = t.bucket[i] \ {k}
<1>1. PICK j : j = Index(t, k)
  OBVIOUS
<1>2. t.size \in Nat \ {0} /\ j \in 0 .. t.size - 1 /\ t.bucket \in [0 .. t.size - 1 -> SUBSET Keys]
  BY <1>1, TableFacts, IndexIn DEF Chain
<1>3. PICK b : b = [t.bucket EXCEPT ![j] = @ \ {k}]
  OBVIOUS
<1>4. b \in [0 .. t.size - 1 -> SUBSET Keys]
  BY <1>2, <1>3
<1>5. \A i \in 0 .. t.size - 1 : k \in t.bucket[i] => i = j
  BY <1>1 DEF WellPlaced
<1>6. \A i \in 0 .. t.size - 1 : b[i] = t.bucket[i] \ {k}
  BY <1>2, <1>3, <1>5
<1>7. Placed(t, b)
  BY <1>4, <1>6 DEF WellPlaced, Placed
<1>8. PICK E : E = Entries(t) \ {k}
  OBVIOUS
<1>9. E = Filled(t, b)
  BY <1>6, <1>8 DEF Entries, Filled
<1>10. Cardinality(E) = t.used - 1
  <2>1. k \in Entries(t)
    BY ChainIs
  <2>2. QED
    <3>1. IsFiniteSet(Entries(t)) /\ t.used = Cardinality(Entries(t))
      BY TableFacts
    <3>2. Cardinality(Entries(t) \ {k}) = Cardinality(Entries(t)) - 1
      BY <2>1, <3>1, FS_RemoveElement
    <3>3. QED
      BY <1>8, <3>1, <3>2
<1>11. PICK u : u = Unlink(t, k)
  OBVIOUS
<1>12. u = [size |-> t.size, used |-> Cardinality(E), bucket |-> b]
  <2>1. t = [size |-> t.size, used |-> t.used, bucket |-> t.bucket]
    BY TableFacts
  <2>2. u = [t EXCEPT !.used = Cardinality(E), !.bucket = b]
    BY <1>1, <1>3, <1>10, <1>11, <2>1 DEF Unlink
  <2>3. QED
    BY <2>1, <2>2
<1>13. WellPlaced(u) /\ Entries(u) = E /\ u.size = t.size /\ u.bucket = b
  BY <1>7, <1>9, <1>12, Rebuilt
<1>14. QED
  BY <1>6, <1>8, <1>11, <1>13

-----------------------------------------------------------------------------
(* The two tables. *)

LEMMA DictFacts ==
  ASSUME NEW e, TablesInv(e)
  PROVE  /\ e = [ht0 |-> e.ht0, ht1 |-> e.ht1, rehashidx |-> e.rehashidx, iterators |-> e.iterators]
         /\ e.rehashidx \in Int /\ e.iterators \in {0, 1}
         /\ WellPlaced(e.ht0) /\ WellPlaced(e.ht1)
         /\ e.ht0.size \in Nat /\ e.ht1.size \in Nat
         /\ Elements(e) \subseteq Keys
         /\ Rehashing(e) => e.ht0.size # 0 /\ e.ht1.size # 0
         /\ ~Rehashing(e) => Elements(e) = Entries(e.ht0) /\ e.ht1.size = 0
<1>1. WellPlaced(e.ht0) /\ WellPlaced(e.ht1)
  BY DEF TablesInv
<1>2. /\ e.ht0.size \in Nat /\ e.ht1.size \in Nat
      /\ Entries(e.ht0) \subseteq Keys /\ Entries(e.ht1) \subseteq Keys
  BY <1>1, TableFacts
<1>3. Rehashing(e) => e.ht0.size # 0 /\ e.ht1.size # 0
  BY <1>2 DEF TablesInv
<1>4. ~Rehashing(e) => Entries(e.ht1) = {} /\ e.ht1.size = 0
  BY NewTableIs DEF TablesInv
<1>5. e \in [ht0 : {e.ht0}, ht1 : {e.ht1}, rehashidx : Int, iterators : {0, 1}]
  BY DEF TablesInv
<1>6. QED
  BY <1>1, <1>2, <1>3, <1>4, <1>5 DEF Elements

LEMMA HoldsIs ==
  ASSUME NEW e, TablesInv(e), NEW k \in Keys
  PROVE  Holds(e, k) <=> k \in Elements(e)
<1>1. WellPlaced(e.ht0) /\ WellPlaced(e.ht1)
  BY DEF TablesInv
<1>2. (k \in Chain(e.ht0, k) <=> k \in Entries(e.ht0)) /\ (k \in Chain(e.ht1, k) <=> k \in Entries(e.ht1))
  BY <1>1, ChainIs
<1>3. ~Rehashing(e) => Elements(e) = Entries(e.ht0)
  BY DictFacts
<1>4. QED
  BY <1>2, <1>3 DEF Holds, Elements

LEMMA EmptyDictIs == TablesInv(EmptyDict) /\ Elements(EmptyDict) = {} /\ EmptyDict.iterators = 0
<1>1. WellPlaced(NewTable(0)) /\ Entries(NewTable(0)) = {}
  BY NewTableIs
<1>2. PICK e : e = EmptyDict
  OBVIOUS
<1>3. /\ e.ht0 = NewTable(0) /\ e.ht1 = NewTable(0) /\ e.rehashidx = -1 /\ e.iterators = 0
      /\ e \in [ht0 : {e.ht0}, ht1 : {e.ht1}, rehashidx : Int, iterators : {0, 1}]
  BY <1>2 DEF EmptyDict
<1>4. TablesInv(e)
  BY <1>1, <1>3 DEF TablesInv, Rehashing
<1>5. QED
  BY <1>1, <1>2, <1>3, <1>4 DEF Elements

\* Growing or shrinking: a second table, empty, is at hand.
LEMMA ExpandIs ==
  ASSUME NEW e, TablesInv(e), NEW n \in Nat, CanExpand(e, n),
         n <= 2 * Cardinality(Keys) \/ n <= InitialSize
  PROVE  LET g == Expand(e, n)
         IN  /\ TablesInv(g) /\ Elements(g) = Elements(e) /\ g.iterators = e.iterators
             /\ g.ht0.size # 0
             /\ e.ht0.size # 0 => g.ht0 = e.ht0 /\ e.ht1.size = 0 /\ Entries(g.ht1) = {} /\ Rehashing(g)
<1>1. PICK s : s = NextPower(n)
  OBVIOUS
<1>2. s \in Sizes /\ s \in Nat \ {0} /\ ~Rehashing(e) /\ s # e.ht0.size
  BY <1>1, NextPowerIs DEF CanExpand
<1>3. WellPlaced(NewTable(s)) /\ Entries(NewTable(s)) = {} /\ NewTable(s).size = s
  BY <1>2, NewTableIs
<1>4. PICK g : g = Expand(e, n)
  OBVIOUS
<1>5. e = [ht0 |-> e.ht0, ht1 |-> e.ht1, rehashidx |-> e.rehashidx, iterators |-> e.iterators]
  BY DictFacts
<1>6. CASE e.ht0.size = 0
  <2>1. /\ g.ht0 = NewTable(s) /\ g.ht1 = e.ht1 /\ g.rehashidx = e.rehashidx /\ g.iterators = e.iterators
        /\ g = [ht0 |-> g.ht0, ht1 |-> g.ht1, rehashidx |-> g.rehashidx, iterators |-> g.iterators]
    BY <1>1, <1>4, <1>5, <1>6 DEF Expand
  <2>2. Entries(e.ht0) = {}
    BY <1>6 DEF Entries
  <2>3. ~Rehashing(g) /\ g.ht1 = NewTable(0)
    BY <1>2, <2>1 DEF TablesInv, Rehashing
  <2>4. Entries(g.ht0) = Entries(e.ht0)
    BY <1>3, <2>1, <2>2
  <2>5. g.rehashidx \in Int /\ g.iterators \in {0, 1}
    BY <2>1, DictFacts
  <2>6. TablesInv(g)
    BY <1>3, <2>1, <2>2, <2>3, <2>4, <2>5 DEF TablesInv
  <2>7. QED
    BY <1>2, <1>3, <1>4, <1>6, <2>1, <2>4, <2>6 DEF Elements
<1>7. CASE e.ht0.size # 0
  <2>1. /\ g.ht0 = e.ht0 /\ g.ht1 = NewTable(s) /\ g.rehashidx = 0 /\ g.iterators = e.iterators
        /\ g = [ht0 |-> g.ht0, ht1 |-> g.ht1, rehashidx |-> g.rehashidx, iterators |-> g.iterators]
    BY <1>1, <1>4, <1>5, <1>7 DEF Expand
  <2>2. Elements(e) = Entries(e.ht0) /\ e.ht0.size \in Nat /\ e.iterators \in {0, 1} /\ e.ht1.size = 0
    BY <1>2, DictFacts
  <2>3. Rehashing(g) /\ g.rehashidx \in 0 .. g.ht0.size - 1
    BY <1>7, <2>1, <2>2 DEF Rehashing
  <2>4. \A i \in 0 .. g.rehashidx - 1 : g.ht0.bucket[i] = {}
    BY <2>1
  <2>5. TablesInv(g)
    BY <1>2, <1>3, <2>1, <2>2, <2>3, <2>4 DEF TablesInv
  <2>6. QED
    BY <1>3, <1>4, <1>7, <2>1, <2>2, <2>3, <2>5 DEF Elements
<1>8. QED
  BY <1>6, <1>7

\* Growing does not fail.
LEMMA WantedIs ==
  ASSUME NEW e, TablesInv(e), Wanted(e) # 0
  PROVE  /\ Wanted(e) \in Nat /\ (Wanted(e) <= 2 * Cardinality(Keys) \/ Wanted(e) <= InitialSize)
         /\ CanExpand(e, Wanted(e))
<1>1. InitialSize \in Nat \ {0} /\ Cardinality(Keys) \in Nat
  BY SizesAre
<1>2. /\ e.ht0.used \in Nat /\ e.ht0.used <= Cardinality(Keys) /\ e.ht0.size \in Nat
      /\ e.ht0.used = 0 <=> Entries(e.ht0) = {}
  BY TableFacts DEF TablesInv
<1>3. ~Rehashing(e)
  BY DEF Wanted
<1>4. PICK n : n = Wanted(e)
  OBVIOUS
<1>5. CASE e.ht0.size = 0
  <2>1. n = InitialSize
    BY <1>3, <1>4, <1>5 DEF Wanted
  <2>2. NextPower(n) \in Nat \ {0}
    BY <1>1, <2>1, NextPowerIs
  <2>3. Entries(e.ht0) = {}
    BY <1>5 DEF Entries
  <2>4. QED
    BY <1>1, <1>2, <1>3, <1>4, <1>5, <2>1, <2>2, <2>3 DEF CanExpand
<1>6. CASE e.ht0.size # 0
  <2>1. n = 2 * e.ht0.used /\ e.ht0.used >= e.ht0.size
    BY <1>3, <1>4, <1>6 DEF Wanted
  <2>2. n \in Nat /\ n <= 2 * Cardinality(Keys) /\ n > e.ht0.size /\ n >= e.ht0.used
    BY <1>1, <1>2, <1>6, <2>1
  <2>3. NextPower(n) \in Nat /\ NextPower(n) >= n
    BY <2>2, NextPowerIs
  <2>4. QED
    BY <1>2, <1>3, <1>4, <2>2, <2>3 DEF CanExpand
<1>7. QED
  BY <1>5, <1>6

\* A step of the rehash moves elements and loses none.
LEMMA MoveToIs ==
  ASSUME NEW e, TablesInv(e), Rehashing(e), NEW j \in e.rehashidx + 1 .. e.ht0.size
  PROVE  LET g == MoveTo(e, j)
         IN  TablesInv(g) /\ Elements(g) = Elements(e) /\ g.iterators = e.iterators
<1>1. PICK r, n : r = e.rehashidx /\ n = e.ht0.size
  OBVIOUS
<1>2. /\ n \in Nat \ {0} /\ r \in 0 .. n - 1 /\ j \in 1 .. n /\ r < j
      /\ e.ht1.size \notin {0, n} /\ \A i \in 0 .. r - 1 : e.ht0.bucket[i] = {}
  BY <1>1, DictFacts DEF TablesInv
<1>3. WellPlaced(e.ht0) /\ WellPlaced(e.ht1) /\ Entries(e.ht0) \cap Entries(e.ht1) = {}
  BY DEF TablesInv
<1>4. /\ e.ht0 = [size |-> n, used |-> e.ht0.used, bucket |-> e.ht0.bucket]
      /\ e.ht0.bucket \in [0 .. n - 1 -> SUBSET Keys] /\ IsFiniteSet(Entries(e.ht0))
      /\ e.ht0.used = Cardinality(Entries(e.ht0)) /\ Entries(e.ht0) \subseteq Keys
  BY <1>1, <1>3, TableFacts
<1>5. PICK mv : mv = Moved(e, j)
  OBVIOUS
<1>6. mv = UNION {e.ht0.bucket[i] : i \in r .. j - 1}
  BY <1>1, <1>5 DEF Moved, Passed
<1>7. \A i \in r .. j - 1 : i \in 0 .. n - 1
  BY <1>2
<1>8. mv \subseteq Entries(e.ht0) /\ mv \in SUBSET Keys /\ mv \cap Entries(e.ht1) = {}
  <2>1. mv \subseteq Entries(e.ht0)
    BY <1>1, <1>6, <1>7 DEF Entries
  <2>2. QED
    BY <1>3, <1>4, <2>1
<1>9. PICK b : b = [i \in 0 .. n - 1 |-> IF i \in r .. j - 1 THEN {} ELSE e.ht0.bucket[i]]
  OBVIOUS
<1>10. Placed(e.ht0, b)
  BY <1>1, <1>3, <1>4, <1>9 DEF Placed, WellPlaced
<1>11. PICK rest : rest = Entries(e.ht0) \ mv
  OBVIOUS
<1>12. rest = Filled(e.ht0, b)
  <2>1. \A x \in rest : \E i \in 0 .. n - 1 : x \in b[i]
    BY <1>1, <1>6, <1>9, <1>11 DEF Entries
  <2>2. \A i \in 0 .. n - 1 : \A x \in b[i] : x \in rest
    <3>1. SUFFICES ASSUME NEW i \in 0 .. n - 1, NEW x \in b[i] PROVE x \in rest
      OBVIOUS
    <3>2. i \notin r .. j - 1 /\ x \in e.ht0.bucket[i] /\ x \in Entries(e.ht0)
      BY <1>1, <1>9, <3>1 DEF Entries
    <3>3. ASSUME NEW k \in r .. j - 1, x \in e.ht0.bucket[k] PROVE FALSE
      <4>1. Index(e.ht0, x) = i /\ Index(e.ht0, x) = k
        BY <1>1, <1>3, <1>7, <3>1, <3>2, <3>3 DEF WellPlaced
      <4>2. QED
        BY <3>2, <3>3, <4>1
    <3>4. QED
      BY <1>6, <1>11, <3>2, <3>3
  <2>3. QED
    BY <1>1, <2>1, <2>2 DEF Filled
<1>13. Cardinality(rest) = e.ht0.used - Cardinality(mv)
  <2>1. Cardinality(Entries(e.ht0) \ mv) = Cardinality(Entries(e.ht0)) - Cardinality(Entries(e.ht0) \cap mv)
    BY <1>4, FS_Difference
  <2>2. Entries(e.ht0) \cap mv = mv
    BY <1>8
  <2>3. QED
    BY <1>4, <1>11, <2>1, <2>2
<1>14. PICK from, to : /\ from = [size |-> n, used |-> Cardinality(rest), bucket |-> b]
                       /\ to = Insert(e.ht1, mv)
  OBVIOUS
<1>15. from = [e.ht0 EXCEPT !.used = @ - Cardinality(Moved(e, j)),
                            !.bucket = [i \in 0..e.ht0.size-1 |->
                                IF i \in Passed(e, j) THEN {} ELSE @[i]]]
  <2>1. Passed(e, j) = r .. j - 1
    BY <1>1 DEF Passed
  <2>2. PICK t : t = e.ht0
    OBVIOUS
  <2>3. t = [size |-> n, used |-> t.used, bucket |-> t.bucket] /\ t.size = n
    BY <1>1, <1>4, <2>2
  <2>4. b = [i \in 0..t.size-1 |-> IF i \in Passed(e, j) THEN {} ELSE t.bucket[i]]
    BY <1>9, <2>1, <2>2, <2>3
  <2>5. Cardinality(rest) = t.used - Cardinality(Moved(e, j))
    BY <1>5, <1>13, <2>2
  <2>6. from = [t EXCEPT !.used = t.used - Cardinality(Moved(e, j)), !.bucket = b]
    <3>1. PICK u : u = [t EXCEPT !.used = t.used - Cardinality(Moved(e, j)), !.bucket = b]
      OBVIOUS
    <3>2. u = [size |-> n, used |-> t.used - Cardinality(Moved(e, j)), bucket |-> b]
      BY <2>3, <3>1
    <3>3. QED
      BY <1>14, <2>5, <3>1, <3>2
  <2>7. QED
    BY <2>2, <2>4, <2>6
<1>16. WellPlaced(from) /\ Entries(from) = rest /\ from.size = n /\ from.bucket = b
  BY <1>1, <1>3, <1>10, <1>12, <1>14, Rebuilt
<1>17. WellPlaced(to) /\ Entries(to) = Entries(e.ht1) \cup mv /\ to.size = e.ht1.size
  BY <1>2, <1>3, <1>8, <1>14, InsertIs
<1>18. Entries(from) \cup Entries(to) = Elements(e) /\ Entries(from) \cap Entries(to) = {}
  BY <1>3, <1>8, <1>11, <1>16, <1>17 DEF Elements
<1>19. e = [ht0 |-> e.ht0, ht1 |-> e.ht1, rehashidx |-> r, iterators |-> e.iterators] /\ e.iterators \in {0, 1}
  BY <1>1, DictFacts
<1>20. PICK g : g = MoveTo(e, j)
  OBVIOUS
<1>21. g = IF from.used = 0
           THEN [e EXCEPT !.ht0 = to, !.ht1 = NewTable(0), !.rehashidx = -1]
           ELSE [e EXCEPT !.ht0 = from, !.ht1 = to, !.rehashidx = j]
  BY <1>5, <1>14, <1>15, <1>20, Zenon DEF MoveTo
<1>22. from.used = 0 <=> Entries(from) = {}
  BY <1>16, TableFacts
<1>23. CASE from.used = 0
  <2>1. g = [ht0 |-> to, ht1 |-> NewTable(0), rehashidx |-> -1, iterators |-> e.iterators]
    <3>1. g = [e EXCEPT !.ht0 = to, !.ht1 = NewTable(0), !.rehashidx = -1]
      BY <1>21, <1>23
    <3>2. QED
      BY <1>19, <3>1
  <2>2. WellPlaced(NewTable(0)) /\ Entries(NewTable(0)) = {}
    BY NewTableIs
  <2>3. TablesInv(g)
    BY <1>17, <1>19, <2>1, <2>2 DEF TablesInv, Rehashing
  <2>4. QED
    BY <1>18, <1>20, <1>22, <1>23, <2>1, <2>2, <2>3 DEF Elements
<1>24. CASE from.used # 0
  <2>1. g = [ht0 |-> from, ht1 |-> to, rehashidx |-> j, iterators |-> e.iterators]
    <3>1. g = [e EXCEPT !.ht0 = from, !.ht1 = to, !.rehashidx = j]
      BY <1>21, <1>24
    <3>2. QED
      BY <1>19, <3>1
  <2>2. \A i \in 0 .. j - 1 : b[i] = {}
    <3>1. \A i \in 0 .. j - 1 : i \in 0 .. n - 1 /\ (i \in r .. j - 1 \/ i \in 0 .. r - 1)
      BY <1>2
    <3>2. QED
      BY <1>2, <1>9, <3>1
  <2>3. j # n
    BY <1>16, <1>22, <1>24, <2>2 DEF Entries
  <2>4. j \in 0 .. n - 1 /\ j # -1
    BY <1>2, <2>3
  <2>5. TablesInv(g)
    BY <1>2, <1>16, <1>17, <1>18, <1>19, <2>1, <2>2, <2>4 DEF TablesInv, Rehashing
  <2>6. QED
    BY <1>18, <1>20, <2>1, <2>5 DEF Elements
<1>25. QED
  BY <1>23, <1>24

\* A rehash has somewhere to stop.
LEMMA StopsAre ==
  ASSUME NEW e, TablesInv(e), Rehashing(e)
  PROVE  Stops(e) # {} /\ Stops(e) \in SUBSET Nat /\ Stops(e) \subseteq e.rehashidx + 1 .. e.ht0.size
<1>1. PICK r, n : r = e.rehashidx /\ n = e.ht0.size
  OBVIOUS
<1>2. /\ n \in Nat \ {0} /\ r \in 0 .. n - 1 /\ \A i \in 0 .. r - 1 : e.ht0.bucket[i] = {}
  BY <1>1, DictFacts DEF TablesInv
<1>3. Stops(e) \subseteq r + 1 .. n
  BY <1>1 DEF Stops
<1>4. CASE e.ht0.used = 0
  <2>1. r + 1 \in Stops(e)
    BY <1>1, <1>2, <1>4 DEF Stops
  <2>2. QED
    BY <1>1, <1>2, <1>3, <2>1
<1>5. CASE e.ht0.used # 0
  <2>1. PICK i \in 0 .. n - 1 : e.ht0.bucket[i] # {}
    <3>1. Entries(e.ht0) # {}
      BY <1>5, TableFacts DEF TablesInv
    <3>2. QED
      BY <1>1, <3>1 DEF Entries
  <2>2. i \in r .. n - 1
    BY <1>2, <2>1
  <2>3. PICK j, S : j = i + 1 /\ S = {r} \cup {k + 1 : k \in ChainsUpTo(e, j)}
    OBVIOUS
  <2>4. j \in S /\ \A y \in S : y \in Int /\ j >= y
    BY <1>1, <1>2, <2>1, <2>2, <2>3 DEF ChainsUpTo, Passed
  <2>5. PICK m : m = Max(S)
    OBVIOUS
  <2>6. m \in S /\ \A y \in S : m >= y
    BY <2>4, <2>5 DEF Max
  <2>7. m = j
    BY <2>4, <2>6
  <2>8. EmptyRun(e, j) = 0
    BY <1>1, <1>2, <2>2, <2>3, <2>5, <2>7 DEF EmptyRun
  <2>9. EmptyRun(e, j) % EmptyVisits = 0
    BY <2>8, DictConstants
  <2>10. j \in Stops(e)
    BY <1>1, <1>2, <2>2, <2>3, <2>9 DEF Stops
  <2>11. QED
    BY <1>1, <1>2, <1>3, <2>10
<1>6. QED
  BY <1>4, <1>5

\* The same elements in tables that are as they should be.
Same(e, g) == TablesInv(g) /\ Elements(g) = Elements(e) /\ g.iterators = e.iterators

LEMMA RehashesAre ==
  ASSUME NEW e, TablesInv(e), NEW g \in Rehashes(e) \cup {Rehash(e), RehashStep(e)}
  PROVE  Same(e, g)
<1>1. ASSUME NEW j \in Stops(e), Rehashing(e) PROVE Same(e, MoveTo(e, j))
  <2>1. j \in e.rehashidx + 1 .. e.ht0.size
    BY <1>1, StopsAre
  <2>2. QED
    BY <1>1, <2>1, MoveToIs DEF Same
<1>2. Same(e, e)
  BY DEF Same
<1>3. Rehashing(e) => Min(Stops(e)) \in Stops(e)
  BY StopsAre, MinIs
<1>4. Same(e, Rehash(e))
  <2>1. CASE Rehashing(e)
    <3>1. PICK j : j = Min(Stops(e))
      OBVIOUS
    <3>2. j \in Stops(e) /\ Rehash(e) = MoveTo(e, j)
      BY <1>3, <2>1, <3>1 DEF Rehash
    <3>3. QED
      BY <1>1, <2>1, <3>2
  <2>2. CASE ~Rehashing(e)
    BY <1>2, <2>2 DEF Rehash
  <2>3. QED
    BY <2>1, <2>2
<1>5. Same(e, RehashStep(e))
  BY <1>2, <1>4 DEF RehashStep
<1>6. \A x \in Rehashes(e) : Same(e, x)
  BY <1>1, <1>2 DEF Rehashes
<1>7. QED
  BY <1>4, <1>5, <1>6

LEMMA TryResizeIs ==
  ASSUME NEW e, TablesInv(e)
  PROVE  Same(e, TryResize(e))
<1>1. PICK m : m = Max({e.ht0.used, InitialSize})
  OBVIOUS
<1>2. InitialSize \in Nat /\ Cardinality(Keys) \in Nat
  BY SizesAre
<1>3. e.ht0.used \in Nat /\ e.ht0.used <= Cardinality(Keys)
  BY TableFacts DEF TablesInv
<1>4. m \in Nat /\ (m <= 2 * Cardinality(Keys) \/ m <= InitialSize)
  BY <1>1, <1>2, <1>3, MaxOfTwo
<1>5. CanExpand(e, m) => Same(e, Expand(e, m))
  BY <1>4, ExpandIs DEF Same
<1>6. Same(e, e)
  BY DEF Same
<1>7. TryResize(e) = e \/ (CanExpand(e, m) /\ TryResize(e) = Expand(e, m))
  BY <1>1, Zenon DEF TryResize
<1>8. QED
  BY <1>5, <1>6, <1>7

-----------------------------------------------------------------------------
(* The buckets of both tables in a row, as an iterator walks them. *)

At(e, p) == IF p < e.ht0.size THEN e.ht0.bucket[p] ELSE e.ht1.bucket[p - e.ht0.size]

LEMMA BucketsAre ==
  ASSUME NEW e, TablesInv(e)
  PROVE  /\ Slots(e) \in Nat
         /\ \A p \in 0 .. Slots(e) - 1 : At(e, p) \subseteq Elements(e)
         /\ \A x \in Elements(e) : \E p \in 0 .. Slots(e) - 1 : x \in At(e, p)
         /\ \A p, q \in 0 .. Slots(e) - 1 : \A x \in At(e, p) : x \in At(e, q) => p = q
<1>1. PICK n, m : n = e.ht0.size /\ m = e.ht1.size
  OBVIOUS
<1>2. /\ n \in Nat /\ m \in Nat /\ WellPlaced(e.ht0) /\ WellPlaced(e.ht1)
      /\ Entries(e.ht0) \cap Entries(e.ht1) = {}
  BY <1>1, DictFacts DEF TablesInv
<1>3. \A x : x \in Entries(e.ht0) <=> \E i \in 0 .. n - 1 : x \in e.ht0.bucket[i]
  BY <1>1 DEF Entries
<1>4. \A x : x \in Entries(e.ht1) <=> \E i \in 0 .. m - 1 : x \in e.ht1.bucket[i]
  BY <1>1 DEF Entries
<1>5. \A p \in 0 .. Slots(e) - 1 :
         \/ p \in 0 .. n - 1 /\ At(e, p) = e.ht0.bucket[p]
         \/ p - n \in 0 .. m - 1 /\ p >= n /\ At(e, p) = e.ht1.bucket[p - n]
  BY <1>1, <1>2 DEF Slots, At
<1>6. \A p \in 0 .. n - 1 : p \in 0 .. Slots(e) - 1 /\ At(e, p) = e.ht0.bucket[p]
  BY <1>1, <1>2 DEF Slots, At
<1>7. \A i \in 0 .. m - 1 : n + i \in 0 .. Slots(e) - 1 /\ At(e, n + i) = e.ht1.bucket[i]
  BY <1>1, <1>2 DEF Slots, At
<1>8. \A p \in 0 .. Slots(e) - 1 : At(e, p) \subseteq Elements(e)
  BY <1>3, <1>4, <1>5 DEF Elements
<1>9. \A x \in Elements(e) : \E p \in 0 .. Slots(e) - 1 : x \in At(e, p)
  BY <1>3, <1>4, <1>6, <1>7 DEF Elements
<1>10. ASSUME NEW p \in 0 .. Slots(e) - 1, NEW q \in 0 .. Slots(e) - 1, NEW x \in At(e, p), x \in At(e, q)
       PROVE  p = q
  <2>1. CASE p < n
    <3>1. x \in Entries(e.ht0) /\ Index(e.ht0, x) = p
      BY <1>1, <1>2, <1>5, <1>10, <2>1 DEF Entries, WellPlaced
    <3>2. x \notin Entries(e.ht1)
      BY <1>2, <3>1
    <3>3. q \in 0 .. n - 1 /\ x \in e.ht0.bucket[q]
      BY <1>4, <1>5, <1>10, <3>2
    <3>4. Index(e.ht0, x) = q
      BY <1>1, <1>2, <3>3 DEF WellPlaced
    <3>5. QED
      BY <3>1, <3>4
  <2>2. CASE ~(p < n)
    <3>1. x \in Entries(e.ht1) /\ Index(e.ht1, x) = p - n
      BY <1>1, <1>2, <1>5, <1>10, <2>2 DEF Entries, WellPlaced
    <3>2. x \notin Entries(e.ht0)
      BY <1>2, <3>1
    <3>3. q - n \in 0 .. m - 1 /\ x \in e.ht1.bucket[q - n]
      BY <1>3, <1>5, <1>10, <3>2
    <3>4. Index(e.ht1, x) = q - n
      BY <1>1, <1>2, <3>3 DEF WellPlaced
    <3>5. QED
      BY <1>2, <3>1, <3>4
  <2>3. QED
    BY <2>1, <2>2
<1>11. Slots(e) \in Nat
  BY <1>1, <1>2 DEF Slots
<1>12. QED
  BY <1>8, <1>9, <1>10, <1>11

\* g has the buckets of e in the same order, but for elements of more that have
\* come and elements of less that have gone.
Near(e, g, more, less) ==
    /\ Slots(e) <= Slots(g)
    /\ \A p \in 0 .. Slots(e) - 1 : \A x :
          /\ x \in At(e, p) => x \in At(g, p) \/ x \in less
          /\ x \in At(g, p) => x \in At(e, p) \/ x \in more
    /\ \A p \in Slots(e) .. Slots(g) - 1 : \A x \in At(g, p) : x \in more

\* Growing moves no bucket while the table is walked.
LEMMA ExpandIsNear ==
  ASSUME NEW e, TablesInv(e), e.ht0.size # 0, NEW n \in Nat, CanExpand(e, n),
         n <= 2 * Cardinality(Keys) \/ n <= InitialSize
  PROVE  Near(e, Expand(e, n), {}, {})
<1>1. PICK g : g = Expand(e, n)
  OBVIOUS
<1>2. TablesInv(g) /\ g.ht0 = e.ht0 /\ e.ht1.size = 0 /\ Entries(g.ht1) = {}
  BY <1>1, ExpandIs
<1>3. g.ht0.size \in Nat /\ g.ht1.size \in Nat
  BY <1>2, DictFacts
<1>4. \A i \in 0 .. g.ht1.size - 1 : g.ht1.bucket[i] = {}
  BY <1>2 DEF Entries
<1>5. Slots(e) = g.ht0.size /\ Slots(g) = g.ht0.size + g.ht1.size
  BY <1>2, <1>3 DEF Slots
<1>6. \A p \in 0 .. Slots(e) - 1 : At(e, p) = At(g, p)
  BY <1>2, <1>3, <1>5 DEF At
<1>7. \A p \in Slots(e) .. Slots(g) - 1 : At(g, p) = {}
  BY <1>3, <1>4, <1>5 DEF At
<1>8. QED
  BY <1>1, <1>3, <1>5, <1>6, <1>7 DEF Near

\* The new key goes to one bucket of the table that takes new keys.
Added(e, k) == IF Rehashing(e) THEN [e EXCEPT !.ht1 = Insert(@, {k})]
               ELSE [e EXCEPT !.ht0 = Insert(@, {k})]

LEMMA AddedIs ==
  ASSUME NEW e, TablesInv(e), e.ht0.size # 0, NEW k \in Keys, k \notin Elements(e),
         NEW g, g = Added(e, k)
  PROVE  /\ TablesInv(g) /\ Elements(g) = Elements(e) \cup {k} /\ g.iterators = e.iterators
         /\ Near(e, g, {k}, {})
<1>1. /\ e = [ht0 |-> e.ht0, ht1 |-> e.ht1, rehashidx |-> e.rehashidx, iterators |-> e.iterators]
      /\ WellPlaced(e.ht0) /\ WellPlaced(e.ht1) /\ e.ht0.size \in Nat /\ e.ht1.size \in Nat
      /\ Entries(e.ht0) \cap Entries(e.ht1) = {} /\ e.iterators \in {0, 1} /\ e.rehashidx \in Int
      /\ Slots(e) \in Nat
  BY DictFacts, BucketsAre DEF TablesInv
<1>2. {k} \in SUBSET Keys /\ {k} \cap Entries(e.ht0) = {} /\ {k} \cap Entries(e.ht1) = {}
  BY DEF Elements
<1>3. CASE Rehashing(e)
  <2>1. PICK t : t = Insert(e.ht1, {k})
    OBVIOUS
  <2>2. e.ht1.size # 0
    BY <1>3, DictFacts
  <2>3. /\ WellPlaced(t) /\ Entries(t) = Entries(e.ht1) \cup {k} /\ t.size = e.ht1.size
        /\ \A i \in 0 .. t.size - 1 : \A x : /\ x \in e.ht1.bucket[i] => x \in t.bucket[i]
                                             /\ x \in t.bucket[i] => x \in e.ht1.bucket[i] \/ x = k
    BY <1>1, <1>2, <2>1, <2>2, InsertIs
  <2>4. g = [e EXCEPT !.ht1 = t]
    BY <1>3, <2>1 DEF Added
  <2>5. g = [ht0 |-> e.ht0, ht1 |-> t, rehashidx |-> e.rehashidx, iterators |-> e.iterators]
    BY <1>1, <2>4
  <2>6. g.ht0 = e.ht0 /\ g.ht1 = t /\ g.rehashidx = e.rehashidx /\ g.iterators = e.iterators
    BY <2>5
  <2>7. TablesInv(g)
    BY <1>1, <1>2, <1>3, <2>3, <2>5, <2>6 DEF TablesInv, Rehashing
  <2>8. Elements(g) = Elements(e) \cup {k}
    BY <2>3, <2>6 DEF Elements
  <2>9. Slots(g) = Slots(e)
    BY <2>3, <2>6 DEF Slots
  <2>10. \A p \in 0 .. Slots(e) - 1 : \A x : (x \in At(e, p) => x \in At(g, p)) /\ (x \in At(g, p) => x \in At(e, p) \/ x = k)
    <3>1. SUFFICES ASSUME NEW p \in 0 .. Slots(e) - 1, NEW x
                   PROVE  (x \in At(e, p) => x \in At(g, p)) /\ (x \in At(g, p) => x \in At(e, p) \/ x = k)
      OBVIOUS
    <3>2. CASE p < e.ht0.size
      BY <2>6, <3>2 DEF At
    <3>3. CASE ~(p < e.ht0.size)
      <4>1. p - e.ht0.size \in 0 .. t.size - 1
        BY <1>1, <2>3, <3>3 DEF Slots
      <4>2. At(e, p) = e.ht1.bucket[p - e.ht0.size] /\ At(g, p) = t.bucket[p - e.ht0.size]
        BY <2>6, <3>3 DEF At
      <4>3. QED
        BY <2>3, <4>1, <4>2
    <3>4. QED
      BY <3>2, <3>3
  <2>11. Near(e, g, {k}, {})
    BY <1>1, <2>9, <2>10 DEF Near
  <2>12. QED
    BY <2>6, <2>7, <2>8, <2>11
<1>4. CASE ~Rehashing(e)
  <2>1. PICK t : t = Insert(e.ht0, {k})
    OBVIOUS
  <2>3. /\ WellPlaced(t) /\ Entries(t) = Entries(e.ht0) \cup {k} /\ t.size = e.ht0.size
        /\ \A i \in 0 .. t.size - 1 : \A x : /\ x \in e.ht0.bucket[i] => x \in t.bucket[i]
                                             /\ x \in t.bucket[i] => x \in e.ht0.bucket[i] \/ x = k
    BY <1>1, <1>2, <2>1, InsertIs
  <2>4. g = [e EXCEPT !.ht0 = t]
    BY <1>4, <2>1 DEF Added
  <2>5. g = [ht0 |-> t, ht1 |-> e.ht1, rehashidx |-> e.rehashidx, iterators |-> e.iterators]
    BY <1>1, <2>4
  <2>6. g.ht0 = t /\ g.ht1 = e.ht1 /\ g.rehashidx = e.rehashidx /\ g.iterators = e.iterators
    BY <2>5
  <2>7. TablesInv(g)
    BY <1>1, <1>2, <1>4, <2>3, <2>5, <2>6 DEF TablesInv, Rehashing
  <2>8. Elements(g) = Elements(e) \cup {k}
    BY <2>3, <2>6 DEF Elements
  <2>9. Slots(g) = Slots(e)
    BY <2>3, <2>6 DEF Slots
  <2>10. \A p \in 0 .. Slots(e) - 1 : \A x : (x \in At(e, p) => x \in At(g, p)) /\ (x \in At(g, p) => x \in At(e, p) \/ x = k)
    <3>1. SUFFICES ASSUME NEW p \in 0 .. Slots(e) - 1, NEW x
                   PROVE  (x \in At(e, p) => x \in At(g, p)) /\ (x \in At(g, p) => x \in At(e, p) \/ x = k)
      OBVIOUS
    <3>2. CASE p < e.ht0.size
      <4>1. p \in 0 .. t.size - 1 /\ At(e, p) = e.ht0.bucket[p] /\ At(g, p) = t.bucket[p]
        BY <1>1, <2>3, <2>6, <3>2 DEF At
      <4>2. QED
        BY <2>3, <4>1
    <3>3. CASE ~(p < e.ht0.size)
      BY <2>3, <2>6, <3>3 DEF At
    <3>4. QED
      BY <3>2, <3>3
  <2>11. Near(e, g, {k}, {})
    BY <1>1, <2>9, <2>10 DEF Near
  <2>12. QED
    BY <2>6, <2>7, <2>8, <2>11
<1>5. QED
  BY <1>3, <1>4

\* The removed key leaves its bucket.
LEMMA DeletedIs ==
  ASSUME NEW e, TablesInv(e), NEW k \in Keys,
         NEW g, g = IF k \in Chain(e.ht0, k) THEN [e EXCEPT !.ht0 = Unlink(@, k)]
                    ELSE IF Holds(e, k) THEN [e EXCEPT !.ht1 = Unlink(@, k)]
                    ELSE e
  PROVE  /\ TablesInv(g) /\ Elements(g) = Elements(e) \ {k} /\ g.iterators = e.iterators
         /\ Near(e, g, {}, {k})
<1>1. /\ e = [ht0 |-> e.ht0, ht1 |-> e.ht1, rehashidx |-> e.rehashidx, iterators |-> e.iterators]
      /\ WellPlaced(e.ht0) /\ WellPlaced(e.ht1) /\ e.ht0.size \in Nat /\ e.ht1.size \in Nat
      /\ Entries(e.ht0) \cap Entries(e.ht1) = {} /\ e.iterators \in {0, 1} /\ e.rehashidx \in Int
      /\ Slots(e) \in Nat
  BY DictFacts, BucketsAre DEF TablesInv
<1>2. /\ k \in Chain(e.ht0, k) <=> k \in Entries(e.ht0)
      /\ k \in Chain(e.ht1, k) <=> k \in Entries(e.ht1)
      /\ Holds(e, k) <=> k \in Elements(e)
  BY <1>1, ChainIs, HoldsIs
<1>3. CASE k \in Chain(e.ht0, k)
  <2>1. PICK t : t = Unlink(e.ht0, k)
    OBVIOUS
  <2>3. /\ WellPlaced(t) /\ Entries(t) = Entries(e.ht0) \ {k} /\ t.size = e.ht0.size
        /\ \A i \in 0 .. t.size - 1 : t.bucket[i] = e.ht0.bucket[i] \ {k}
    BY <1>1, <1>3, <2>1, UnlinkIs
  <2>4. g = [e EXCEPT !.ht0 = t]
    BY <1>3, <2>1
  <2>5. g = [ht0 |-> t, ht1 |-> e.ht1, rehashidx |-> e.rehashidx, iterators |-> e.iterators]
    BY <1>1, <2>4
  <2>6. g.ht0 = t /\ g.ht1 = e.ht1 /\ g.rehashidx = e.rehashidx /\ g.iterators = e.iterators
    BY <2>5
  <2>7. TablesInv(g)
    <3>1. /\ Entries(t) \cap Entries(e.ht1) = {}
          /\ g \in [ht0 : {g.ht0}, ht1 : {g.ht1}, rehashidx : Int, iterators : {0, 1}]
      BY <1>1, <2>3, <2>5, <2>6
    <3>2. CASE Rehashing(e)
      <4>1. /\ e.rehashidx \in 0..e.ht0.size-1 /\ e.ht1.size \notin {0, e.ht0.size}
            /\ \A i \in 0..e.rehashidx-1 : e.ht0.bucket[i] = {}
        BY <3>2 DEF TablesInv
      <4>2. \A i \in 0..e.rehashidx-1 : i \in 0 .. t.size - 1
        BY <1>1, <2>3, <4>1
      <4>3. \A i \in 0..e.rehashidx-1 : t.bucket[i] = {}
        BY <2>3, <4>1, <4>2
      <4>4. QED
        BY <1>1, <2>3, <2>6, <3>1, <3>2, <4>1, <4>3 DEF TablesInv, Rehashing
    <3>3. CASE ~Rehashing(e)
      BY <1>1, <2>3, <2>6, <3>1, <3>3 DEF TablesInv, Rehashing
    <3>4. QED
      BY <3>2, <3>3
  <2>8. Elements(g) = Elements(e) \ {k}
    BY <1>1, <1>2, <1>3, <2>3, <2>6 DEF Elements
  <2>9. Slots(g) = Slots(e)
    BY <2>3, <2>6 DEF Slots
  <2>10. \A p \in 0 .. Slots(e) - 1 : \A x : (x \in At(e, p) => x \in At(g, p) \/ x = k) /\ (x \in At(g, p) => x \in At(e, p))
    <3>1. SUFFICES ASSUME NEW p \in 0 .. Slots(e) - 1, NEW x
                   PROVE  (x \in At(e, p) => x \in At(g, p) \/ x = k) /\ (x \in At(g, p) => x \in At(e, p))
      OBVIOUS
    <3>2. CASE p < e.ht0.size
      <4>1. p \in 0 .. t.size - 1 /\ At(e, p) = e.ht0.bucket[p] /\ At(g, p) = t.bucket[p]
        BY <1>1, <2>3, <2>6, <3>2 DEF At
      <4>2. QED
        BY <2>3, <4>1
    <3>3. CASE ~(p < e.ht0.size)
      BY <2>3, <2>6, <3>3 DEF At
    <3>4. QED
      BY <3>2, <3>3
  <2>11. Near(e, g, {}, {k})
    BY <1>1, <2>9, <2>10 DEF Near
  <2>12. QED
    BY <2>6, <2>7, <2>8, <2>11
<1>4. CASE k \notin Chain(e.ht0, k) /\ Holds(e, k)
  <2>1. PICK t : t = Unlink(e.ht1, k)
    OBVIOUS
  <2>2. k \in Chain(e.ht1, k) /\ Rehashing(e)
    BY <1>4 DEF Holds
  <2>3. /\ WellPlaced(t) /\ Entries(t) = Entries(e.ht1) \ {k} /\ t.size = e.ht1.size
        /\ \A i \in 0 .. t.size - 1 : t.bucket[i] = e.ht1.bucket[i] \ {k}
    BY <1>1, <2>1, <2>2, UnlinkIs
  <2>4. g = [e EXCEPT !.ht1 = t]
    BY <1>4, <2>1
  <2>5. g = [ht0 |-> e.ht0, ht1 |-> t, rehashidx |-> e.rehashidx, iterators |-> e.iterators]
    BY <1>1, <2>4
  <2>6. g.ht0 = e.ht0 /\ g.ht1 = t /\ g.rehashidx = e.rehashidx /\ g.iterators = e.iterators
    BY <2>5
  <2>7. TablesInv(g)
    BY <1>1, <2>2, <2>3, <2>5, <2>6 DEF TablesInv, Rehashing
  <2>8. Elements(g) = Elements(e) \ {k}
    BY <1>1, <1>2, <1>4, <2>3, <2>6 DEF Elements
  <2>9. Slots(g) = Slots(e)
    BY <2>3, <2>6 DEF Slots
  <2>10. \A p \in 0 .. Slots(e) - 1 : \A x : (x \in At(e, p) => x \in At(g, p) \/ x = k) /\ (x \in At(g, p) => x \in At(e, p))
    <3>1. SUFFICES ASSUME NEW p \in 0 .. Slots(e) - 1, NEW x
                   PROVE  (x \in At(e, p) => x \in At(g, p) \/ x = k) /\ (x \in At(g, p) => x \in At(e, p))
      OBVIOUS
    <3>2. CASE p < e.ht0.size
      BY <2>6, <3>2 DEF At
    <3>3. CASE ~(p < e.ht0.size)
      <4>1. p - e.ht0.size \in 0 .. t.size - 1
        BY <1>1, <2>3, <3>3 DEF Slots
      <4>2. At(e, p) = e.ht1.bucket[p - e.ht0.size] /\ At(g, p) = t.bucket[p - e.ht0.size]
        BY <2>6, <3>3 DEF At
      <4>3. QED
        BY <2>3, <4>1, <4>2
    <3>4. QED
      BY <3>2, <3>3
  <2>11. Near(e, g, {}, {k})
    BY <1>1, <2>9, <2>10 DEF Near
  <2>12. QED
    BY <2>6, <2>7, <2>8, <2>11
<1>5. CASE k \notin Chain(e.ht0, k) /\ ~Holds(e, k)
  <2>1. g = e
    BY <1>5
  <2>2. Elements(e) = Elements(e) \ {k}
    BY <1>2, <1>5
  <2>3. QED
    BY <1>1, <2>1, <2>2 DEF Near
<1>6. QED
  BY <1>3, <1>4, <1>5

-----------------------------------------------------------------------------
(* The iterator. *)

Comes(e, it, x) == x \in it.left \/ \E p \in it.pos + 1 .. Slots(e) - 1 : x \in At(e, p)

Walk(e, it) ==
    /\ it = [pos |-> it.pos, left |-> it.left, last |-> it.last, w |-> it.w]
    /\ it.pos \in 0 .. Slots(e) - 1 /\ it.left \in SUBSET Keys /\ it.last \in Keys
    /\ it.w \in {"free", "due", "seen"}
    /\ \A x \in it.left : x \in At(e, it.pos) /\ x # it.last
    /\ it.w = "due" => Comes(e, it, w)
    /\ it.w = "seen" => ~Comes(e, it, w)

\* The invariant of the iterator, in the form in which it is proved.
LEMMA WalkIs ==
  /\ IterInv <=> Walk(d, iter)
  /\ w' = w => (IterInv' <=> Walk(d', iter'))
<1>1. ASSUME NEW e, NEW it
      PROVE  /\ (it \in [pos : 0 .. Slots(e) - 1, left : SUBSET Keys, last : Keys, w : {"free", "due", "seen"}]
                 /\ it.left \subseteq At(e, it.pos) \ {it.last})
             <=> (/\ it = [pos |-> it.pos, left |-> it.left, last |-> it.last, w |-> it.w]
                  /\ it.pos \in 0 .. Slots(e) - 1 /\ it.left \in SUBSET Keys /\ it.last \in Keys
                  /\ it.w \in {"free", "due", "seen"}
                  /\ \A x \in it.left : x \in At(e, it.pos) /\ x # it.last)
  OBVIOUS
<1>2. ASSUME NEW e, NEW it, NEW x
      PROVE  x \in it.left \cup UNION {At(e, p) : p \in it.pos + 1 .. Slots(e) - 1} <=> Comes(e, it, x)
  BY DEF Comes
<1>3. IterInv <=> Walk(d, iter)
  <2>1. /\ \A p : Bucket(p) = At(d, p)
        /\ Coming(iter) = iter.left \cup UNION {At(d, p) : p \in iter.pos + 1 .. Slots(d) - 1}
    BY DEF Bucket, At, Coming, Slots
  <2>2. /\ IterInv <=> /\ iter \in [pos : 0 .. Slots(d) - 1, left : SUBSET Keys, last : Keys, w : {"free", "due", "seen"}]
                       /\ iter.left \subseteq At(d, iter.pos) \ {iter.last}
                       /\ iter.w = "due" => w \in Coming(iter)
                       /\ iter.w = "seen" => w \notin Coming(iter)
    BY <2>1, Zenon DEF IterInv, Slots
  <2>3. w \in Coming(iter) <=> Comes(d, iter, w)
    BY <1>2, <2>1
  <2>4. QED
    BY <1>1, <2>2, <2>3 DEF Walk
<1>4. w' = w => (IterInv' <=> Walk(d', iter'))
  <2>0. SUFFICES ASSUME w' = w PROVE IterInv' <=> Walk(d', iter')
    OBVIOUS
  <2>1. /\ \A p : Bucket(p)' = At(d', p)
        /\ Coming(iter)' = iter'.left \cup UNION {At(d', p) : p \in iter'.pos + 1 .. Slots(d') - 1}
    BY DEF Bucket, At, Coming, Slots
  <2>2. /\ IterInv' <=> /\ iter' \in [pos : 0 .. Slots(d') - 1, left : SUBSET Keys, last : Keys, w : {"free", "due", "seen"}]
                        /\ iter'.left \subseteq At(d', iter'.pos) \ {iter'.last}
                        /\ iter'.w = "due" => w \in Coming(iter)'
                        /\ iter'.w = "seen" => w \notin Coming(iter)'
    BY <2>0, <2>1, Zenon DEF IterInv, Slots
  <2>3. w \in Coming(iter)' <=> Comes(d', iter', w)
    BY <1>2, <2>1
  <2>4. QED
    BY <1>1, <2>2, <2>3 DEF Walk
<1>5. QED
  BY <1>3, <1>4

\* What the command adds or deletes between two calls of dictNext leaves the walk
\* in order, once its history is forgotten.
LEMMA WalkKept ==
  ASSUME NEW e, NEW g, TablesInv(e), TablesInv(g), NEW more, NEW less, Near(e, g, more, less),
         NEW it, Walk(e, it), NEW jt,
         jt = [pos |-> it.pos, left |-> it.left, last |-> it.last, w |-> jt.w],
         jt.w \in {"free", it.w}, w \in more \/ w \in less => jt.w = "free",
         \A x \in it.left : x \notin less
  PROVE  Walk(g, jt)
<1>1. Slots(e) \in Nat /\ Slots(g) \in Nat /\ Slots(e) <= Slots(g)
  BY BucketsAre DEF Near
<1>2. /\ jt.pos = it.pos /\ jt.left = it.left /\ jt.last = it.last
  OBVIOUS
<1>3. /\ it.pos \in 0 .. Slots(e) - 1 /\ it.left \in SUBSET Keys /\ it.last \in Keys
      /\ it.w \in {"free", "due", "seen"}
      /\ \A x \in it.left : x \in At(e, it.pos) /\ x # it.last
      /\ it.w = "due" => Comes(e, it, w)
      /\ it.w = "seen" => ~Comes(e, it, w)
  BY DEF Walk
<1>4. \A x \in it.left : x \in At(g, it.pos)
  BY <1>3 DEF Near
<1>5. jt.pos \in 0 .. Slots(g) - 1
  BY <1>1, <1>2, <1>3
<1>6. ASSUME jt.w = "due" PROVE Comes(g, jt, w)
  <2>1. Comes(e, it, w) /\ w \notin less
    BY <1>3, <1>6
  <2>2. \A p \in it.pos + 1 .. Slots(e) - 1 : p \in 0 .. Slots(e) - 1 /\ p \in it.pos + 1 .. Slots(g) - 1
    BY <1>1, <1>3
  <2>3. QED
    BY <1>2, <2>1, <2>2 DEF Comes, Near
<1>7. ASSUME jt.w = "seen" PROVE ~Comes(g, jt, w)
  <2>1. ~Comes(e, it, w) /\ w \notin more
    BY <1>3, <1>7
  <2>2. ASSUME NEW p \in it.pos + 1 .. Slots(g) - 1, w \in At(g, p) PROVE FALSE
    <3>1. CASE p < Slots(e)
      <4>1. p \in it.pos + 1 .. Slots(e) - 1 /\ p \in 0 .. Slots(e) - 1
        BY <1>1, <1>3, <3>1
      <4>2. QED
        BY <2>1, <2>2, <4>1 DEF Comes, Near
    <3>2. CASE ~(p < Slots(e))
      <4>1. p \in Slots(e) .. Slots(g) - 1
        BY <1>1, <1>3, <3>2
      <4>2. QED
        BY <2>1, <2>2, <4>1 DEF Near
    <3>3. QED
      BY <3>1, <3>2
  <2>3. QED
    BY <1>2, <2>1, <2>2 DEF Comes
<1>8. QED
  BY <1>2, <1>3, <1>4, <1>5, <1>6, <1>7 DEF Walk

\* dictNext: from an iterator that is at work, or before its first element.
LEMMA AdvanceIs ==
  ASSUME TablesInv(d), w \in Keys, NEW it, Advance(it),
         it.pos \in -1 .. Slots(d) - 1, it.left \in SUBSET Keys, it.w \in {"free", "due", "seen"},
         \A x \in it.left : it.pos # -1 /\ x \in At(d, it.pos),
         it.w = "due" => Comes(d, it, w), it.w = "seen" => ~Comes(d, it, w)
  PROVE  Walk(d, iter') /\ (iter'.last = w => w \in Elements(d) /\ it.w # "seen")
<1>1. /\ Slots(d) \in Nat
      /\ \A p \in 0 .. Slots(d) - 1 : At(d, p) \subseteq Elements(d)
      /\ \A p, q \in 0 .. Slots(d) - 1 : \A x \in At(d, p) : x \in At(d, q) => p = q
      /\ Elements(d) \subseteq Keys
  BY BucketsAre, DictFacts
<1>2. \A p : Bucket(p) = At(d, p)
  BY DEF Bucket, At
<1>3. Ahead(it) = {p \in it.pos + 1 .. Slots(d) - 1 : At(d, p) # {}}
  BY <1>2 DEF Ahead, Slots
<1>4. CASE \E k \in it.left : Return(it, k, it.pos, it.left \ {k})
  <2>1. PICK k \in it.left : Return(it, k, it.pos, it.left \ {k})
    BY <1>4
  <2>2. iter' = [pos |-> it.pos, left |-> it.left \ {k}, last |-> k, w |-> IF k = w THEN "seen" ELSE it.w]
    BY <2>1 DEF Return
  <2>3. /\ iter' = [pos |-> iter'.pos, left |-> iter'.left, last |-> iter'.last, w |-> iter'.w]
        /\ iter'.pos = it.pos /\ iter'.left = it.left \ {k} /\ iter'.last = k
        /\ iter'.w = IF k = w THEN "seen" ELSE it.w
    BY <2>2
  <2>4. it.pos \in 0 .. Slots(d) - 1 /\ k \in At(d, it.pos) /\ k \in Keys
    BY <1>1
  <2>5. ASSUME iter'.w = "due" PROVE Comes(d, iter', w)
    <3>1. k # w /\ Comes(d, it, w)
      BY <2>3, <2>5
    <3>2. QED
      BY <2>3, <3>1 DEF Comes
  <2>6. ASSUME iter'.w = "seen" PROVE ~Comes(d, iter', w)
    <3>1. CASE k = w
      <4>1. ASSUME NEW p \in it.pos + 1 .. Slots(d) - 1, w \in At(d, p) PROVE FALSE
        <5>1. p \in 0 .. Slots(d) - 1 /\ p # it.pos
          BY <1>1, <2>4
        <5>2. QED
          BY <1>1, <2>4, <3>1, <4>1, <5>1
      <4>2. QED
        BY <2>3, <3>1, <4>1 DEF Comes
    <3>2. CASE k # w
      <4>1. ~Comes(d, it, w)
        BY <2>3, <2>6, <3>2
      <4>2. QED
        BY <2>3, <4>1 DEF Comes
    <3>3. QED
      BY <3>1, <3>2
  <2>7. /\ iter'.left \in SUBSET Keys /\ iter'.w \in {"free", "due", "seen"}
        /\ \A x \in iter'.left : x \in At(d, iter'.pos) /\ x # iter'.last
    BY <2>3
  <2>8. Walk(d, iter')
    BY <2>3, <2>4, <2>5, <2>6, <2>7 DEF Walk
  <2>9. k = w => w \in Elements(d) /\ it.w # "seen"
    BY <1>1, <2>1, <2>4 DEF Comes
  <2>10. QED
    BY <2>3, <2>8, <2>9
<1>5. CASE /\ it.left = {} /\ Ahead(it) # {}
           /\ LET p == Min(Ahead(it)) IN \E k \in Bucket(p) : Return(it, k, p, Bucket(p) \ {k})
  <2>1. PICK p : p = Min(Ahead(it))
    OBVIOUS
  <2>2. PICK k \in At(d, p) : Return(it, k, p, At(d, p) \ {k})
    BY <1>2, <1>5, <2>1
  <2>3. p \in Ahead(it) /\ \A q \in Ahead(it) : p <= q
    <3>1. Ahead(it) \in SUBSET Nat
      BY <1>1, <1>3
    <3>2. QED
      BY <1>5, <2>1, <3>1, MinIs
  <2>4. p \in 0 .. Slots(d) - 1 /\ p \in it.pos + 1 .. Slots(d) - 1
    BY <1>1, <1>3, <2>3
  <2>5. iter' = [pos |-> p, left |-> At(d, p) \ {k}, last |-> k, w |-> IF k = w THEN "seen" ELSE it.w]
    BY <2>2 DEF Return
  <2>6. /\ iter' = [pos |-> iter'.pos, left |-> iter'.left, last |-> iter'.last, w |-> iter'.w]
        /\ iter'.pos = p /\ iter'.left = At(d, p) \ {k} /\ iter'.last = k
        /\ iter'.w = IF k = w THEN "seen" ELSE it.w
    BY <2>5
  <2>7. ASSUME iter'.w = "due" PROVE Comes(d, iter', w)
    <3>1. k # w /\ Comes(d, it, w)
      BY <2>6, <2>7
    <3>2. PICK q \in it.pos + 1 .. Slots(d) - 1 : w \in At(d, q)
      BY <1>5, <3>1 DEF Comes
    <3>3. p <= q
      BY <1>3, <2>3, <3>2
    <3>4. CASE q = p
      BY <2>6, <3>1, <3>2, <3>4 DEF Comes
    <3>5. CASE q # p
      <4>1. q \in p + 1 .. Slots(d) - 1
        BY <1>1, <2>4, <3>3, <3>5
      <4>2. QED
        BY <2>6, <3>2, <4>1 DEF Comes
    <3>6. QED
      BY <3>4, <3>5
  <2>8. ASSUME iter'.w = "seen" PROVE ~Comes(d, iter', w)
    <3>1. CASE k = w
      <4>1. ASSUME NEW q \in p + 1 .. Slots(d) - 1, w \in At(d, q) PROVE FALSE
        <5>1. q \in 0 .. Slots(d) - 1 /\ q # p
          BY <1>1, <2>4
        <5>2. QED
          BY <1>1, <2>2, <2>4, <3>1, <4>1, <5>1
      <4>2. QED
        BY <2>6, <3>1, <4>1 DEF Comes
    <3>2. CASE k # w
      <4>1. ~Comes(d, it, w)
        BY <2>6, <2>8, <3>2
      <4>2. \A q \in p + 1 .. Slots(d) - 1 : q \in it.pos + 1 .. Slots(d) - 1
        BY <1>1, <2>4
      <4>3. QED
        BY <2>4, <2>6, <4>1, <4>2 DEF Comes
    <3>3. QED
      BY <3>1, <3>2
  <2>9. k \in Keys /\ At(d, p) \subseteq Keys
    BY <1>1, <2>2, <2>4
  <2>10. /\ iter'.left \in SUBSET Keys /\ iter'.w \in {"free", "due", "seen"}
         /\ \A x \in iter'.left : x \in At(d, iter'.pos) /\ x # iter'.last
    BY <2>6, <2>9
  <2>11. Walk(d, iter')
    BY <2>4, <2>6, <2>7, <2>8, <2>9, <2>10 DEF Walk
  <2>12. k = w => w \in Elements(d) /\ it.w # "seen"
    BY <1>1, <2>2, <2>4 DEF Comes
  <2>13. QED
    BY <2>6, <2>11, <2>12
<1>6. QED
  BY <1>4, <1>5, Zenon DEF Advance

-----------------------------------------------------------------------------
(* The steps. *)

LEMMA NearItself ==
  ASSUME NEW e, TablesInv(e)
  PROVE  Near(e, e, {}, {})
<1>1. Slots(e) \in Nat
  BY BucketsAre
<1>2. Slots(e) <= Slots(e) /\ \A p \in Slots(e) .. Slots(e) - 1 : FALSE
  BY <1>1
<1>3. QED
  BY <1>2 DEF Near

\* What has to be shown of a step that neither opens nor ends a walk.
LEMMA InvKept ==
  ASSUME DictInv, TablesInv(d'), d'.iterators = d.iterators, w' = w,
         Idle => iter' = iter, ~Idle => Walk(d', iter')
  PROVE  DictInv'
<1>1. CASE Idle
  <2>1. Idle'
    BY <1>1 DEF Idle, NoIter
  <2>2. QED
    BY <1>1, <2>1 DEF DictInv
<1>2. CASE ~Idle
  <2>1. IterInv'
    BY <1>2, WalkIs
  <2>2. Slots(d') \in Nat /\ iter'.pos \in 0 .. Slots(d') - 1
    BY <1>2, BucketsAre DEF Walk
  <2>3. iter'.pos # -1
    BY <2>2
  <2>4. ~Idle'
    BY <2>3 DEF Idle, NoIter
  <2>5. QED
    BY <1>2, <2>1, <2>4 DEF DictInv
<1>3. QED
  BY <1>1, <1>2

\* While an iterator is at work, no call moves a bucket.
LEMMA StepIs ==
  ASSUME DictInv
  PROVE  /\ Same(d, RehashStep(d))
         /\ ~Idle => RehashStep(d) = d /\ Walk(d, iter) /\ d.ht0.size # 0
<1>1. TablesInv(d) /\ d.iterators = (IF Idle THEN 0 ELSE 1) /\ (Idle \/ IterInv)
  BY DEF DictInv
<1>2. Same(d, RehashStep(d))
  BY <1>1, RehashesAre
<1>3. ASSUME ~Idle PROVE RehashStep(d) = d /\ Walk(d, iter) /\ d.ht0.size # 0
  <2>1. RehashStep(d) = d
    BY <1>1, <1>3 DEF RehashStep
  <2>2. Walk(d, iter)
    BY <1>1, <1>3, WalkIs
  <2>3. iter.pos \in 0 .. Slots(d) - 1 /\ Slots(d) \in Nat
    BY <1>1, <2>2, BucketsAre DEF Walk
  <2>4. d.ht0.size = 0 => Slots(d) = 0
    BY <1>1, DictFacts DEF Slots
  <2>5. QED
    BY <2>1, <2>2, <2>3, <2>4
<1>4. QED
  BY <1>2, <1>3

LEMMA AddIs ==
  ASSUME DictInv, NEW k \in Keys, Add(k)
  PROVE  /\ DictInv' /\ w' = w /\ Elements(d') = Elements(d) \cup {k}
         /\ answer' = IF k # w THEN "none" ELSE IF k \in Elements(d) THEN "exists" ELSE "added"
<1>1. PICK e : e = RehashStep(d)
  OBVIOUS
<1>2. /\ TablesInv(e) /\ Elements(e) = Elements(d) /\ e.iterators = d.iterators
      /\ ~Idle => e = d /\ Walk(e, iter) /\ e.ht0.size # 0
  BY <1>1, StepIs DEF Same
<1>3. PICK n : n = Wanted(e)
  OBVIOUS
<1>4. PICK g : g = IF n # 0 /\ CanExpand(e, n) THEN Expand(e, n) ELSE e
  OBVIOUS
<1>5. n # 0 => n \in Nat /\ (n <= 2 * Cardinality(Keys) \/ n <= InitialSize) /\ CanExpand(e, n)
  BY <1>2, <1>3, WantedIs
<1>6. /\ TablesInv(g) /\ Elements(g) = Elements(e) /\ g.iterators = e.iterators /\ g.ht0.size # 0
      /\ e.ht0.size # 0 => Near(e, g, {}, {})
  <2>1. CASE n # 0
    BY <1>2, <1>4, <1>5, <2>1, ExpandIs, ExpandIsNear
  <2>2. CASE n = 0
    <3>1. g = e /\ Near(e, g, {}, {})
      BY <1>2, <1>4, <2>2, NearItself
    <3>2. e.ht0.size # 0
      <4>1. InitialSize # 0
        BY SizesAre
      <4>2. QED
        BY <1>2, <1>3, <2>2, <4>1, DictFacts DEF Wanted
    <3>3. QED
      BY <1>2, <3>1, <3>2
  <2>3. QED
    BY <2>1, <2>2
<1>7. Holds(g, k) <=> k \in Elements(d)
  BY <1>2, <1>6, HoldsIs
<1>8. ~Idle => Walk(g, iter)
  <2>1. SUFFICES ASSUME ~Idle PROVE Walk(g, iter)
    OBVIOUS
  <2>2. Near(e, g, {}, {}) /\ Walk(e, iter)
    BY <1>2, <1>6, <2>1
  <2>3. /\ iter = [pos |-> iter.pos, left |-> iter.left, last |-> iter.last, w |-> iter.w]
        /\ iter.w \in {"free", iter.w} /\ \A x \in iter.left : x \notin {}
    BY <2>2 DEF Walk
  <2>4. QED
    BY <1>2, <1>6, <2>2, <2>3, WalkKept
<1>9. /\ d' = IF Holds(g, k) THEN g
               ELSE Added(g, k)
      /\ Says(k, IF Holds(g, k) THEN "exists" ELSE "added")
      /\ IF Holds(g, k) THEN UNCHANGED iter ELSE Forget(k)
      /\ w' = w
  BY <1>1, <1>3, <1>4, <1>5 DEF Add, Added
<1>10. CASE k \in Elements(d)
  <2>1. d' = g /\ iter' = iter /\ w' = w /\ Says(k, "exists")
    BY <1>7, <1>9, <1>10
  <2>2. DictInv'
    BY <1>2, <1>6, <1>8, <2>1, InvKept
  <2>3. Elements(d') = Elements(d) \cup {k}
    BY <1>2, <1>6, <1>10, <2>1
  <2>4. QED
    BY <1>10, <2>1, <2>2, <2>3 DEF Says
<1>11. CASE k \notin Elements(d)
  <2>1. PICK h : h = Added(g, k)
    OBVIOUS
  <2>2. d' = h /\ Forget(k) /\ w' = w /\ Says(k, "added")
    BY <1>7, <1>9, <1>11, <2>1
  <2>3. TablesInv(h) /\ Elements(h) = Elements(g) \cup {k} /\ h.iterators = g.iterators /\ Near(g, h, {k}, {})
    BY <1>2, <1>6, <1>11, <2>1, AddedIs
  <2>4. ~Idle => Walk(h, iter')
    <3>1. SUFFICES ASSUME ~Idle PROVE Walk(h, iter')
      OBVIOUS
    <3>2. Walk(g, iter) /\ iter' = IF k = w THEN [iter EXCEPT !.w = "free"] ELSE iter
      BY <1>8, <2>2, <3>1 DEF Forget
    <3>3. iter = [pos |-> iter.pos, left |-> iter.left, last |-> iter.last, w |-> iter.w]
      BY <3>2 DEF Walk
    <3>4. /\ iter' = [pos |-> iter.pos, left |-> iter.left, last |-> iter.last, w |-> iter'.w]
          /\ iter'.w \in {"free", iter.w} /\ (k = w => iter'.w = "free")
      BY <3>2, <3>3
    <3>5. QED
      BY <1>6, <2>3, <3>2, <3>4, WalkKept
  <2>5. Idle => iter' = iter
    BY <2>2 DEF Forget
  <2>6. DictInv'
    BY <1>2, <1>6, <2>2, <2>3, <2>4, <2>5, InvKept
  <2>7. QED
    BY <1>2, <1>6, <1>11, <2>2, <2>3, <2>6 DEF Says
<1>12. QED
  BY <1>10, <1>11

LEMMA DeleteIs ==
  ASSUME DictInv, NEW k \in Keys, Delete(k)
  PROVE  /\ DictInv' /\ w' = w /\ Elements(d') = Elements(d) \ {k}
         /\ answer' = IF k # w THEN "none" ELSE IF k \in Elements(d) THEN "deleted" ELSE "absent"
<1>1. PICK e : e = IF d.ht0.size = 0 THEN d ELSE RehashStep(d)
  OBVIOUS
<1>2. /\ TablesInv(e) /\ Elements(e) = Elements(d) /\ e.iterators = d.iterators
      /\ ~Idle => e = d /\ Walk(e, iter)
  BY <1>1, StepIs DEF Same, DictInv
<1>3. PICK g : g = IF k \in Chain(e.ht0, k) THEN [e EXCEPT !.ht0 = Unlink(@, k)]
                   ELSE IF Holds(e, k) THEN [e EXCEPT !.ht1 = Unlink(@, k)]
                   ELSE e
  OBVIOUS
<1>4. TablesInv(g) /\ Elements(g) = Elements(e) \ {k} /\ g.iterators = e.iterators /\ Near(e, g, {}, {k})
  BY <1>2, <1>3, DeletedIs
<1>5. /\ Idle \/ k = iter.last
      /\ d' = g \/ (Idle /\ d' = TryResize(g))
      /\ Says(k, IF Holds(e, k) THEN "deleted" ELSE "absent")
      /\ Forget(k) /\ w' = w
  BY <1>1, <1>3, Zenon DEF Delete
<1>6. Same(g, TryResize(g)) /\ Same(g, g)
  BY <1>4, TryResizeIs DEF Same
<1>7. Same(g, d') /\ (~Idle => d' = g)
  BY <1>5, <1>6
<1>8. ~Idle => Walk(d', iter')
  <2>1. SUFFICES ASSUME ~Idle PROVE Walk(g, iter')
    BY <1>7
  <2>2. Walk(e, iter) /\ iter' = IF k = w THEN [iter EXCEPT !.w = "free"] ELSE iter
    BY <1>2, <1>5, <2>1 DEF Forget
  <2>3. /\ iter = [pos |-> iter.pos, left |-> iter.left, last |-> iter.last, w |-> iter.w]
        /\ \A x \in iter.left : x \notin {k}
    BY <1>5, <2>1, <2>2 DEF Walk
  <2>4. /\ iter' = [pos |-> iter.pos, left |-> iter.left, last |-> iter.last, w |-> iter'.w]
        /\ iter'.w \in {"free", iter.w} /\ (w \in {k} => iter'.w = "free")
    BY <2>2, <2>3
  <2>5. QED
    BY <1>2, <1>4, <2>2, <2>3, <2>4, WalkKept
<1>9. Idle => iter' = iter
  BY <1>5 DEF Forget
<1>10. TablesInv(d') /\ Elements(d') = Elements(g) /\ d'.iterators = g.iterators
  BY <1>7 DEF Same
<1>11. DictInv'
  BY <1>2, <1>4, <1>5, <1>8, <1>9, <1>10, InvKept
<1>12. Holds(e, k) <=> k \in Elements(d)
  BY <1>2, HoldsIs
<1>13. QED
  BY <1>2, <1>4, <1>5, <1>10, <1>11, <1>12 DEF Says

\* A step that leaves the elements and the iterator alone.
LEMMA SameIs ==
  ASSUME DictInv, Same(d, d'), ~Idle => d' = d, UNCHANGED <<iter, w>>
  PROVE  DictInv' /\ w' = w /\ Elements(d') = Elements(d)
<1>1. TablesInv(d') /\ Elements(d') = Elements(d) /\ d'.iterators = d.iterators
  BY DEF Same
<1>2. ~Idle => Walk(d', iter')
  BY StepIs
<1>3. QED
  BY <1>1, <1>2, InvKept

LEMMA FindIs ==
  ASSUME DictInv, NEW k \in Keys, Find(k)
  PROVE  /\ DictInv' /\ w' = w /\ Elements(d') = Elements(d)
         /\ answer' = IF k # w THEN "none" ELSE IF k \in Elements(d) THEN "found" ELSE "absent"
<1>1. d' \in {d, RehashStep(d)} /\ Says(k, IF Holds(d', k) THEN "found" ELSE "absent") /\ UNCHANGED <<iter, w>>
  BY DEF Find
<1>2. Same(d, d') /\ (~Idle => d' = d)
  BY <1>1, StepIs DEF Same, DictInv
<1>3. DictInv' /\ w' = w /\ Elements(d') = Elements(d)
  BY <1>1, <1>2, SameIs
<1>4. Holds(d', k) <=> k \in Elements(d')
  BY <1>2, HoldsIs DEF Same
<1>5. QED
  BY <1>1, <1>3, <1>4 DEF Says

LEMMA GetRandomKeyIs ==
  ASSUME DictInv, GetRandomKey
  PROVE  /\ DictInv' /\ w' = w /\ Elements(d') = Elements(d)
         /\ answer' = "none" \/ (answer' = "found" /\ w \in Elements(d))
<1>1. /\ Idle /\ d' \in {d, RehashStep(d)} /\ UNCHANGED <<iter, w>>
      /\ Quiet \/ \E k \in RandomKeys(d') : Says(k, "found")
  BY DEF GetRandomKey
<1>2. Same(d, d')
  BY <1>1, StepIs DEF Same, DictInv
<1>3. DictInv' /\ w' = w /\ Elements(d') = Elements(d)
  BY <1>1, <1>2, SameIs
<1>4. ASSUME NEW k \in RandomKeys(d') PROVE k \in Elements(d')
  <2>1. PICK e : e = d'
    OBVIOUS
  <2>2. TablesInv(e) /\ k \in RandomKeys(e)
    BY <1>2, <1>4, <2>1 DEF Same
  <2>3. PICK draws, h : /\ draws = (IF Rehashing(e) THEN e.rehashidx .. Slots(e) - 1 ELSE 0 .. e.ht0.size - 1)
                        /\ h \in draws
                        /\ k \in IF h >= e.ht0.size THEN e.ht1.bucket[h - e.ht0.size] ELSE e.ht0.bucket[h]
    BY <2>2 DEF RandomKeys
  <2>4. /\ e.ht0.size \in Nat /\ e.ht1.size \in Nat /\ (~Rehashing(e) => e.ht1.size = 0)
        /\ Rehashing(e) => e.rehashidx \in 0 .. e.ht0.size - 1
    BY <2>2, DictFacts DEF TablesInv
  <2>5. h \in 0 .. Slots(e) - 1
    BY <2>3, <2>4 DEF Slots
  <2>6. k \in At(e, h)
    BY <2>3, <2>4, <2>5 DEF At
  <2>7. QED
    BY <2>1, <2>2, <2>5, <2>6, BucketsAre
<1>5. QED
  BY <1>1, <1>3, <1>4 DEF Says, Quiet

LEMMA IterStartIs ==
  ASSUME DictInv, IterStart
  PROVE  DictInv' /\ w' = w /\ Elements(d') = Elements(d)
<1>1. PICK it : it = [pos |-> -1, left |-> {}, w |-> IF w \in Elements(d) THEN "due" ELSE "free"]
  OBVIOUS
<1>2. Idle /\ Advance(it) /\ d' = [d EXCEPT !.iterators = @ + 1] /\ w' = w
  BY <1>1, Zenon DEF IterStart
<1>3. TablesInv(d) /\ w \in Keys /\ d.iterators = 0
  BY <1>2 DEF DictInv
<1>4. it.pos = -1 /\ it.left = {} /\ it.w = IF w \in Elements(d) THEN "due" ELSE "free"
  BY <1>1
<1>5. Slots(d) \in Nat /\ (w \in Elements(d) => \E p \in 0 .. Slots(d) - 1 : w \in At(d, p))
  BY <1>3, BucketsAre
<1>6. w \in Elements(d) => Comes(d, it, w)
  BY <1>4, <1>5 DEF Comes
<1>7. Walk(d, iter')
  <2>1. /\ it.pos \in -1 .. Slots(d) - 1 /\ it.left \in SUBSET Keys /\ it.w \in {"free", "due", "seen"}
        /\ \A x \in it.left : it.pos # -1 /\ x \in At(d, it.pos)
        /\ it.w = "due" => Comes(d, it, w)
        /\ it.w = "seen" => ~Comes(d, it, w)
    BY <1>4, <1>5, <1>6
  <2>2. QED
    BY <1>2, <1>3, <2>1, AdvanceIs
<1>8. d = [ht0 |-> d.ht0, ht1 |-> d.ht1, rehashidx |-> d.rehashidx, iterators |-> d.iterators]
  BY <1>3, DictFacts
<1>9. PICK e : e = d'
  OBVIOUS
<1>10. e = [ht0 |-> d.ht0, ht1 |-> d.ht1, rehashidx |-> d.rehashidx, iterators |-> 1]
  <2>1. e = [d EXCEPT !.iterators = 1]
    BY <1>2, <1>3, <1>9
  <2>2. QED
    BY <1>8, <2>1
<1>11. e.ht0 = d.ht0 /\ e.ht1 = d.ht1 /\ e.rehashidx = d.rehashidx /\ e.iterators = 1
  BY <1>10
<1>12. TablesInv(e) /\ Elements(e) = Elements(d)
  <2>1. d.rehashidx \in Int
    BY <1>3, DictFacts
  <2>2. QED
    BY <1>3, <1>10, <1>11, <2>1 DEF TablesInv, Elements, Rehashing
<1>13. Walk(e, iter')
  BY <1>7, <1>11 DEF Walk, Comes, At, Slots
<1>14. IterInv'
  BY <1>2, <1>9, <1>13, WalkIs
<1>15. ~Idle'
  <2>1. iter'.pos \in 0 .. Slots(d) - 1
    BY <1>7 DEF Walk
  <2>2. iter'.pos # -1
    BY <1>5, <2>1
  <2>3. QED
    BY <2>2 DEF Idle, NoIter
<1>16. DictInv'
  BY <1>2, <1>3, <1>9, <1>11, <1>12, <1>14, <1>15 DEF DictInv
<1>17. QED
  BY <1>2, <1>9, <1>12, <1>16

LEMMA IterNextIs ==
  ASSUME DictInv, IterNext
  PROVE  /\ DictInv' /\ w' = w /\ Elements(d') = Elements(d)
         /\ iter'.last = w => w \in Elements(d) /\ iter.w # "seen"
<1>1. ~Idle /\ Advance(iter) /\ d' = d /\ w' = w
  BY DEF IterNext
<1>2. TablesInv(d) /\ w \in Keys /\ Walk(d, iter)
  BY <1>1, StepIs DEF DictInv
<1>3. /\ iter.pos \in 0 .. Slots(d) - 1 /\ iter.left \in SUBSET Keys /\ iter.w \in {"free", "due", "seen"}
      /\ \A x \in iter.left : x \in At(d, iter.pos)
      /\ iter.w = "due" => Comes(d, iter, w)
      /\ iter.w = "seen" => ~Comes(d, iter, w)
  BY <1>2 DEF Walk
<1>4. Slots(d) \in Nat
  BY <1>2, BucketsAre
<1>5. iter.pos \in -1 .. Slots(d) - 1 /\ iter.pos # -1
  BY <1>3, <1>4
<1>6. Walk(d, iter') /\ (iter'.last = w => w \in Elements(d) /\ iter.w # "seen")
  BY <1>1, <1>2, <1>3, <1>5, AdvanceIs
<1>7. DictInv'
  BY <1>1, <1>2, <1>6, InvKept
<1>8. QED
  BY <1>1, <1>6, <1>7

\* The iterator is released: before the end, or when nothing is left, and then
\* no element is still to come.
LEMMA IterEndIs ==
  ASSUME DictInv, IterEnd \/ IterRelease
  PROVE  /\ DictInv' /\ w' = w /\ Elements(d') = Elements(d)
         /\ IterEnd => iter.w # "due"
<1>1. ~Idle /\ d' = [d EXCEPT !.iterators = @ - 1] /\ iter' = NoIter /\ w' = w
  BY DEF IterEnd, IterRelease
<1>2. TablesInv(d) /\ w \in Keys /\ d.iterators = 1 /\ Walk(d, iter)
  BY <1>1, StepIs DEF DictInv
<1>3. d = [ht0 |-> d.ht0, ht1 |-> d.ht1, rehashidx |-> d.rehashidx, iterators |-> d.iterators]
  BY <1>2, DictFacts
<1>4. PICK e : e = d'
  OBVIOUS
<1>5. e = [ht0 |-> d.ht0, ht1 |-> d.ht1, rehashidx |-> d.rehashidx, iterators |-> 0]
  <2>1. e = [d EXCEPT !.iterators = 0]
    BY <1>1, <1>2, <1>4
  <2>2. QED
    BY <1>3, <2>1
<1>6. e.ht0 = d.ht0 /\ e.ht1 = d.ht1 /\ e.rehashidx = d.rehashidx /\ e.iterators = 0
  BY <1>5
<1>7. TablesInv(e) /\ Elements(e) = Elements(d)
  <2>1. d.rehashidx \in Int
    BY <1>2, DictFacts
  <2>2. QED
    BY <1>2, <1>5, <1>6, <2>1 DEF TablesInv, Elements, Rehashing
<1>8. Idle'
  BY <1>1 DEF Idle, NoIter
<1>9. DictInv'
  BY <1>1, <1>2, <1>4, <1>6, <1>7, <1>8 DEF DictInv
<1>10. ASSUME IterEnd PROVE iter.w # "due"
  <2>1. iter.left = {} /\ Ahead(iter) = {}
    BY <1>10 DEF IterEnd
  <2>2. \A p \in iter.pos + 1 .. Slots(d) - 1 : At(d, p) = {}
    BY <2>1 DEF Ahead, Bucket, At
  <2>3. ~Comes(d, iter, w)
    BY <2>1, <2>2 DEF Comes
  <2>4. QED
    BY <1>2, <2>3 DEF Walk
<1>11. QED
  BY <1>1, <1>4, <1>7, <1>9, <1>10

LEMMA CronIs ==
  ASSUME DictInv, Cron
  PROVE  DictInv' /\ w' = w /\ Elements(d') = Elements(d)
<1>1. PICK e \in {d, TryResize(d)} : d' \in Rehashes(e)
  BY DEF Cron
<1>2. Idle /\ UNCHANGED <<iter, w>>
  BY DEF Cron
<1>3. Same(d, e)
  BY <1>1, TryResizeIs DEF DictInv, Same
<1>4. Same(e, d')
  BY <1>1, <1>3, RehashesAre DEF Same
<1>5. Same(d, d')
  BY <1>3, <1>4 DEF Same
<1>6. QED
  BY <1>2, <1>5, SameIs

LEMMA OthersAre ==
  ASSUME DictInv, GetSomeKeys \/ Scan \/ Child \/ UNCHANGED vars
  PROVE  DictInv' /\ w' = w /\ Elements(d') = Elements(d)
<1>1. d' = d \/ (Idle /\ d' \in Rehashes(d))
  BY DEF GetSomeKeys, Scan, Child, vars
<1>2. UNCHANGED <<iter, w>>
  BY DEF GetSomeKeys, Scan, Child, vars
<1>3. Same(d, d') /\ (~Idle => d' = d)
  BY <1>1, RehashesAre DEF DictInv, Same
<1>4. QED
  BY <1>2, <1>3, SameIs

LEMMA EmptyIs ==
  ASSUME DictInv, Empty
  PROVE  DictInv' /\ w' = w /\ Elements(d') = {}
<1>1. Idle /\ d' = EmptyDict /\ iter' = iter /\ w' = w
  BY DEF Empty
<1>2. TablesInv(d') /\ Elements(d') = {} /\ d'.iterators = 0
  BY <1>1, EmptyDictIs
<1>3. d.iterators = 0
  BY <1>1 DEF DictInv
<1>4. DictInv'
  BY <1>1, <1>2, <1>3, InvKept
<1>5. QED
  BY <1>1, <1>2, <1>4

LEMMA NextIs ==
  ASSUME DictInv, [Next]_vars
  PROVE  DictInv'
<1>1. ASSUME NEW k \in Keys, Add(k) \/ Delete(k) \/ Find(k) PROVE DictInv'
  BY <1>1, AddIs, DeleteIs, FindIs
<1>2. CASE GetRandomKey
  BY <1>2, GetRandomKeyIs
<1>3. CASE GetSomeKeys \/ Scan \/ Child \/ UNCHANGED vars
  BY <1>3, OthersAre
<1>4. CASE Empty
  BY <1>4, EmptyIs
<1>5. CASE IterStart
  BY <1>5, IterStartIs
<1>6. CASE IterNext
  BY <1>6, IterNextIs
<1>7. CASE IterEnd \/ IterRelease
  BY <1>7, IterEndIs
<1>8. CASE Cron
  BY <1>8, CronIs
<1>9. QED
  BY <1>1, <1>2, <1>3, <1>4, <1>5, <1>6, <1>7, <1>8 DEF Next

LEMMA InitIs == Init => DictInv /\ Elements(d) = {}
<1>1. SUFFICES ASSUME Init PROVE DictInv /\ Elements(d) = {}
  OBVIOUS
<1>2. d = EmptyDict /\ iter = NoIter /\ w \in Keys
  BY <1>1 DEF Init
<1>3. QED
  BY <1>2, EmptyDictIs DEF DictInv, Idle

-----------------------------------------------------------------------------
(* The theorems. *)

\* Both tables, their counters and the iterator are consistent in every state:
\* each element is in the one bucket that a look-up searches, in one table only,
\* and no bucket behind rehashidx is filled, whatever calls, rehash steps and
\* resizes there have been (dict.c).
THEOREM TablesConsistent == Spec => []DictInv
<1>1. Init => DictInv
  BY InitIs
<1>2. DictInv /\ [Next]_vars => DictInv'
  BY NextIs
<1>3. QED
  BY <1>1, <1>2, PTL DEF Spec

\* For whoever uses one key, the dictionary is a set that holds it or not: no
\* resize, rehash step, walk or call about another key loses the key, brings it
\* back or falsifies an answer about it (dictAdd, dictGenericDelete, dictFind,
\* dictGetRandomKey, dictEmpty).
THEOREM RefinesOneKey == Spec => ImplementsOneKey
<1>1. Init => Key!Init
  <2>1. SUFFICES ASSUME Init PROVE Key!Init
    OBVIOUS
  <2>2. Elements(d) = {} /\ answer = "none"
    BY <2>1, InitIs DEF Init
  <2>3. QED
    BY <2>2 DEF Key!Init
<1>2. DictInv /\ [Next]_vars => [Key!Next]_Key!kvars
  <2>1. SUFFICES ASSUME DictInv, [Next]_vars PROVE [Key!Next]_Key!kvars
    OBVIOUS
  <2>. USE DEF Key!Next, Key!kvars
  <2>2. ASSUME NEW k \in Keys, Add(k) PROVE Key!Next
    <3>1. /\ w' = w /\ Elements(d') = Elements(d) \cup {k}
          /\ answer' = IF k # w THEN "none" ELSE IF k \in Elements(d) THEN "exists" ELSE "added"
      BY <2>1, <2>2, AddIs
    <3>2. CASE k = w
      BY <3>1, <3>2 DEF Key!Add
    <3>3. CASE k # w
      BY <3>1, <3>3 DEF Key!Quiet
    <3>4. QED
      BY <3>2, <3>3
  <2>3. ASSUME NEW k \in Keys, Delete(k) PROVE Key!Next
    <3>1. /\ w' = w /\ Elements(d') = Elements(d) \ {k}
          /\ answer' = IF k # w THEN "none" ELSE IF k \in Elements(d) THEN "deleted" ELSE "absent"
      BY <2>1, <2>3, DeleteIs
    <3>2. CASE k = w
      BY <3>1, <3>2 DEF Key!Delete
    <3>3. CASE k # w
      BY <3>1, <3>3 DEF Key!Quiet
    <3>4. QED
      BY <3>2, <3>3
  <2>4. ASSUME NEW k \in Keys, Find(k) PROVE Key!Next
    <3>1. /\ w' = w /\ Elements(d') = Elements(d)
          /\ answer' = IF k # w THEN "none" ELSE IF k \in Elements(d) THEN "found" ELSE "absent"
      BY <2>1, <2>4, FindIs
    <3>2. CASE k = w
      BY <3>1, <3>2 DEF Key!Find
    <3>3. CASE k # w
      BY <3>1, <3>3 DEF Key!Quiet
    <3>4. QED
      BY <3>2, <3>3
  <2>5. CASE GetRandomKey
    BY <2>1, <2>5, GetRandomKeyIs DEF Key!Picked, Key!Quiet
  <2>6. CASE Empty
    <3>1. answer' = "none" /\ Elements(d') = {} /\ w' = w
      BY <2>1, <2>6, EmptyIs DEF Empty, Quiet
    <3>2. QED
      BY <3>1 DEF Key!Empty
  <2>7. CASE GetSomeKeys \/ Scan \/ Child \/ Cron \/ IterStart \/ IterNext \/ IterEnd \/ IterRelease
    <3>1. w' = w /\ Elements(d') = Elements(d)
      BY <2>1, <2>7, OthersAre, CronIs, IterStartIs, IterNextIs, IterEndIs
    <3>2. answer' = "none"
      BY <2>7 DEF GetSomeKeys, Scan, Child, Cron, IterStart, IterNext, IterEnd, IterRelease, Quiet
    <3>3. QED
      BY <3>1, <3>2 DEF Key!Quiet
  <2>8. CASE UNCHANGED vars
    BY <2>8 DEF vars
  <2>9. QED
    BY <2>1, <2>2, <2>3, <2>4, <2>5, <2>6, <2>7, <2>8 DEF Next
<1>3. QED
  BY <1>1, <1>2, TablesConsistent, PTL DEF Spec, ImplementsOneKey, Key!Spec

\* A safe iterator returns elements of the dictionary, none twice, and at its end
\* has returned each that was there all the time (dictNext), whatever the command
\* adds, finds or deletes meanwhile.
THEOREM IteratorExact == Spec => IterExact
<1>. DEFINE Exact == /\ iter'.last = w /\ IterNext => w \in Elements(d) /\ iter.w # "seen"
                     /\ iter.w = "due" => ~IterEnd
<1>1. DictInv /\ [Next]_vars => [Exact]_vars
  <2>1. SUFFICES ASSUME DictInv, Next PROVE Exact
    OBVIOUS
  <2>2. IterNext => (iter'.last = w => w \in Elements(d) /\ iter.w # "seen")
    BY <2>1, IterNextIs
  <2>3. IterEnd => iter.w # "due"
    BY <2>1, IterEndIs
  <2>4. QED
    BY <2>2, <2>3
<1>2. QED
  BY <1>1, TablesConsistent, PTL DEF Spec, IterExact
=============================================================================
