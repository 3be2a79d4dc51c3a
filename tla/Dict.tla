-------------------------------- MODULE Dict --------------------------------
(***************************************************************************)
(* The hash table of the server (dict.c): every database, every large set, *)
(* hash and sorted set is one.  A resize allocates a second table and      *)
(* moves the buckets to it one at a time, in the calls that come along     *)
(* (_dictRehashStep) and in serverCron; meanwhile look-ups search both     *)
(* tables, new keys go to the second.  Over this run two kinds of walks:   *)
(* safe iterators, which stop the moving for the time of one command, and  *)
(* SCAN, whose cursor survives any number of commands and resizes.         *)
(*                                                                         *)
(* A key is a number and its hash is the number modulo 2^Bits.  A chain is *)
(* the set of its keys: its order decides nothing the properties tell      *)
(* apart.  Values are left out.  The functions act on a record d with the  *)
(* fields of struct dict and return it changed, so that they compose as    *)
(* the calls do.                                                           *)
(*                                                                         *)
(* What callers get is recorded for one key, w, chosen in the initial      *)
(* state: it may be any key, so that what holds of w holds of every key.   *)
(***************************************************************************)
EXTENDS Integers, FiniteSets, FiniteSetsExt

CONSTANTS Keys,         \* a finite set of natural numbers
          NoKey,        \* no key: an iterator has returned none
          Bits,         \* width of hashes and cursors (64 in the code)
          InitialSize,  \* DICT_HT_INITIAL_SIZE
          MinFill,      \* REDIS_HT_MINFILL, in percent
          ForceRatio,   \* dict_force_resize_ratio
          EmptyVisits   \* empty buckets a rehash may pass per bucket to move

Width == 2^Bits
Sizes == {s \in {2^i : i \in 0..Bits} : s >= InitialSize}

ASSUME DictConstants ==
    /\ Keys \in SUBSET Nat /\ IsFiniteSet(Keys) /\ NoKey \notin Keys
    /\ {Bits, MinFill, ForceRatio} \subseteq Nat
    /\ {InitialSize, EmptyVisits} \subseteq Nat \ {0}
    /\ InitialSize \in Sizes
    /\ \E s \in Sizes : s >= 2 * Cardinality(Keys)

VARIABLES d,        \* the dictionary
          child,    \* an RDB or AOF child exists: dict_can_resize = 0
          scan,     \* one client's SCAN
          iter,     \* the safe iterator of the running command, or NoIter
          w,        \* the key whose fate is recorded
          answer    \* history: what the call just made has answered about w

vars == <<d, child, scan, iter, w, answer>>

-----------------------------------------------------------------------------
(* Tables.                                                                 *)

Hash(k) == k % Width
Index(t, k) == Hash(k) % t.size
NewTable(n) == [size |-> n, used |-> 0, bucket |-> [i \in 0..n-1 |-> {}]]
Entries(t) == UNION {t.bucket[i] : i \in 0..t.size-1}
Chain(t, k) == IF t.size = 0 THEN {} ELSE t.bucket[Index(t, k)]

Insert(t, ks) ==
    [t EXCEPT !.used = @ + Cardinality(ks),
              !.bucket = [i \in 0..t.size-1 |->
                            @[i] \cup {k \in ks : Index(t, k) = i}]]

Unlink(t, k) == [t EXCEPT !.used = @ - 1, !.bucket[Index(t, k)] = @ \ {k}]

\* _dictInit, and dictEmpty
EmptyDict == [ht0 |-> NewTable(0), ht1 |-> NewTable(0),
              rehashidx |-> -1, iterators |-> 0]

Rehashing(e) == e.rehashidx # -1
Elements(e) == Entries(e.ht0) \cup Entries(e.ht1)
DictSize(e) == e.ht0.used + e.ht1.used
Slots(e) == e.ht0.size + e.ht1.size

\* Fault: only the first table is searched.
Holds_FirstTable(e, k) == k \in Chain(e.ht0, k)

Holds(e, k) == k \in Chain(e.ht0, k) \/ (Rehashing(e) /\ k \in Chain(e.ht1, k))

NextPower(n) == Min({s \in Sizes : s >= n})

CanExpand(e, n) ==
    ~Rehashing(e) /\ e.ht0.used <= n /\ NextPower(n) # e.ht0.size

Expand(e, n) ==
    IF e.ht0.size = 0
    THEN [e EXCEPT !.ht0 = NewTable(NextPower(n))]
    ELSE [e EXCEPT !.ht1 = NewTable(NextPower(n)), !.rehashidx = 0]

-----------------------------------------------------------------------------
(* Incremental rehashing.                                                  *)

\* The first table's buckets from rehashidx up to j, and their elements.
Passed(e, j) == e.rehashidx .. j-1
Moved(e, j) == UNION {e.ht0.bucket[i] : i \in Passed(e, j)}

\* The chains up to bucket j move to the second table, which takes the place of
\* the first when that has no element left.
MoveTo(e, j) ==
    LET from == [e.ht0 EXCEPT !.used = @ - Cardinality(Moved(e, j)),
                              !.bucket = [i \in 0..e.ht0.size-1 |->
                                  IF i \in Passed(e, j) THEN {} ELSE @[i]]]
        to == Insert(e.ht1, Moved(e, j))
    IN  IF from.used = 0
        THEN [e EXCEPT !.ht0 = to, !.ht1 = NewTable(0), !.rehashidx = -1]
        ELSE [e EXCEPT !.ht0 = from, !.ht1 = to, !.rehashidx = j]

\* Where one or more calls of dictRehash(e, 1) may stop: each after a chain that
\* it has moved, or after EmptyVisits empty buckets.
ChainsUpTo(e, j) == {i \in Passed(e, j) : e.ht0.bucket[i] # {}}
EmptyRun(e, j) == j - Max({e.rehashidx} \cup {i + 1 : i \in ChainsUpTo(e, j)})
Stops(e) == {j \in e.rehashidx + 1 .. e.ht0.size :
                \/ EmptyRun(e, j) % EmptyVisits = 0
                \/ e.ht0.used = 0}

Rehash(e) == IF Rehashing(e) THEN MoveTo(e, Min(Stops(e))) ELSE e

\* any number of calls in a row
Rehashes(e) ==
    {e} \cup (IF Rehashing(e) THEN {MoveTo(e, j) : j \in Stops(e)} ELSE {})

\* Fault: iterators do not stop the rehash.
RehashStep_InIterator(e) == Rehash(e)

\* _dictRehashStep, the share of every call
RehashStep(e) == IF e.iterators = 0 THEN Rehash(e) ELSE e

\* dictResize, where htNeedsResize says so
TryResize(e) ==
    LET minimal == Max({e.ht0.used, InitialSize})
    IN  IF /\ Slots(e) > InitialSize /\ DictSize(e) > 0
           /\ (DictSize(e) * 100) \div Slots(e) < MinFill
           /\ ~child /\ CanExpand(e, minimal)
        THEN Expand(e, minimal) ELSE e

\* _dictExpandIfNeeded asks for this size; 0 for none
Wanted(e) ==
    IF Rehashing(e) THEN 0
    ELSE IF e.ht0.size = 0 THEN InitialSize
    ELSE IF /\ e.ht0.used >= e.ht0.size
            /\ ~child \/ e.ht0.used \div e.ht0.size > ForceRatio
    THEN 2 * e.ht0.used ELSE 0

-----------------------------------------------------------------------------
(* The calls.  Each begins with a step of the rehash in progress.          *)

\* pos counts the buckets of both tables; left is the rest of the chain at pos,
\* last the element returned.  History: whether w has been there from the start
\* and is still to come ("due"), has been returned ("seen"), or neither.
NoIter == [pos |-> -1, left |-> {}, last |-> NoKey, w |-> "free"]
Idle == iter = NoIter

Init ==
    /\ d = EmptyDict /\ child = FALSE
    /\ scan = [on |-> FALSE, cursor |-> 0, missing |-> FALSE, skewed |-> FALSE]
    /\ iter = NoIter
    /\ w \in Keys /\ answer = "none"

Says(k, what) == answer' = IF k = w THEN what ELSE "none"
Quiet == answer' = "none"

\* history: once added or deleted, w need not be visited, and may be
Forget(k) == iter' = IF k = w /\ ~Idle THEN [iter EXCEPT !.w = "free"] ELSE iter

\* dictAddRaw: the table is grown first if it is full; the call fails if the
\* key is there, or if growing fails
Add(k) ==
    LET e == RehashStep(d)
        grow == Wanted(e) # 0
        g == IF grow /\ CanExpand(e, Wanted(e)) THEN Expand(e, Wanted(e)) ELSE e
        new == ~(grow /\ ~CanExpand(e, Wanted(e))) /\ ~Holds(g, k)
    IN  /\ d' = IF ~new THEN g
                ELSE IF Rehashing(g) THEN [g EXCEPT !.ht1 = Insert(@, {k})]
                ELSE [g EXCEPT !.ht0 = Insert(@, {k})]
        /\ Says(k, IF new THEN "added" ELSE "exists")
        /\ IF new THEN Forget(k) ELSE UNCHANGED iter
        /\ UNCHANGED <<child, scan, w>>

\* dictGenericDelete; the code that removes members of sets, hashes and sorted
\* sets then tries to shrink the table.  While an iterator is open, only the
\* element it has just returned may be deleted.
Delete(k) ==
    LET e == IF d.ht0.size = 0 THEN d ELSE RehashStep(d)
        rest == IF k \in Chain(e.ht0, k) THEN [e EXCEPT !.ht0 = Unlink(@, k)]
                ELSE IF Holds(e, k) THEN [e EXCEPT !.ht1 = Unlink(@, k)]
                ELSE e
    IN  /\ Idle \/ k = iter.last
        /\ d' = rest \/ (Idle /\ Holds(e, k) /\ d' = TryResize(rest))
        /\ Says(k, IF Holds(e, k) THEN "deleted" ELSE "absent")
        /\ scan' = [scan EXCEPT !.missing = @ /\ k # w]
        /\ Forget(k)
        /\ UNCHANGED <<child, w>>

Find(k) ==
    /\ d' = IF d.ht0.size = 0 THEN d ELSE RehashStep(d)
    /\ Says(k, IF Holds(d', k) THEN "found" ELSE "absent")
    /\ UNCHANGED <<child, scan, iter, w>>

\* the chains dictGetRandomKey may come upon: it draws an index below the sum
\* of the sizes, not below rehashidx, and draws again if the bucket is empty
RandomKeys(e) ==
    LET draws == IF Rehashing(e) THEN e.rehashidx .. Slots(e) - 1
                 ELSE 0 .. e.ht0.size - 1
    IN  UNION {IF h >= e.ht0.size THEN e.ht1.bucket[h - e.ht0.size]
               ELSE e.ht0.bucket[h] : h \in draws}

GetRandomKey ==
    /\ Idle
    /\ d' = IF DictSize(d) = 0 THEN d ELSE RehashStep(d)
    /\ \/ DictSize(d) = 0 /\ Quiet
       \/ DictSize(d) > 0 /\ \E k \in RandomKeys(d') : Says(k, "found")
    /\ UNCHANGED <<child, scan, iter, w>>

\* dictGetSomeKeys: a _dictRehashStep for every key it is to sample
GetSomeKeys ==
    /\ Idle
    /\ DictSize(d) > 0
    /\ d' \in Rehashes(d)
    /\ Quiet /\ UNCHANGED <<child, scan, iter, w>>

\* dictEmpty (FLUSHALL)
Empty ==
    /\ Idle
    /\ d' = EmptyDict
    /\ scan' = [scan EXCEPT !.missing = FALSE]
    /\ Quiet /\ UNCHANGED <<child, iter, w>>

-----------------------------------------------------------------------------
(* Safe iterators: a command opens one, walks and releases it; nothing else *)
(* runs meanwhile but the calls the command makes itself.                   *)

Bucket(p) == IF p < d.ht0.size THEN d.ht0.bucket[p]
             ELSE d.ht1.bucket[p - d.ht0.size]

\* dictNext: the rest of the chain, then the next chain of the two tables
Ahead(it) == {p \in it.pos + 1 .. Slots(d) - 1 : Bucket(p) # {}}

Return(it, k, p, rest) ==
    iter' = [pos |-> p, left |-> rest, last |-> k,
             w |-> IF k = w THEN "seen" ELSE it.w]

Advance(it) ==
    \/ \E k \in it.left : Return(it, k, it.pos, it.left \ {k})
    \/ /\ it.left = {} /\ Ahead(it) # {}
       /\ LET p == Min(Ahead(it))
          IN  \E k \in Bucket(p) : Return(it, k, p, Bucket(p) \ {k})

\* the first dictNext, which tells the dictionary that it is walked
IterStart ==
    /\ Idle
    /\ Advance([pos |-> -1, left |-> {},
                w |-> IF w \in Elements(d) THEN "due" ELSE "free"])
    /\ d' = [d EXCEPT !.iterators = @ + 1]
    /\ Quiet /\ UNCHANGED <<child, scan, w>>

IterNext ==
    /\ ~Idle /\ Advance(iter)
    /\ Quiet /\ UNCHANGED <<d, child, scan, w>>

\* dictNext returns NULL, and the command releases the iterator
IterEnd ==
    /\ ~Idle /\ iter.left = {} /\ Ahead(iter) = {}
    /\ d' = [d EXCEPT !.iterators = @ - 1]
    /\ iter' = NoIter
    /\ Quiet /\ UNCHANGED <<child, scan, w>>

\* dictReleaseIterator before the end
IterRelease ==
    /\ ~Idle
    /\ d' = [d EXCEPT !.iterators = @ - 1]
    /\ iter' = NoIter
    /\ Quiet /\ UNCHANGED <<child, scan, w>>

-----------------------------------------------------------------------------
(* SCAN: each call returns the chains of one bucket, and the cursor of the  *)
(* next, which counts from the high bits down.                              *)

Bit(v, i) == (v \div 2^i) % 2
Rev == [v \in 0..Width-1 |-> CHOOSE u \in 0..Width-1 :
                               \A i \in 0..Bits-1 : Bit(u, i) = Bit(v, Bits-1-i)]

\* Fault: the cursor counts up from its low bits.
NextCursor_LowBits(v, size) == (v + 1) % size
\* Fault: the bits above the mask are not set before the increment.
NextCursor_Unmasked(v, size) == Rev[(Rev[v % size] + 1) % Width]

\* v |= ~m0; v = rev(v); v++; v = rev(v), for a table of the given size
NextCursor(v, size) == Rev[(Rev[(v % size) + Width - size] + 1) % Width]

\* dictScan with cursor v: the bucket of v in the smaller table, and in the
\* larger one those of its expansions that the loop reaches from v
ScanFrom(v) ==
    LET swap  == Rehashing(d) /\ d.ht0.size > d.ht1.size
        small == IF swap THEN d.ht1 ELSE d.ht0
        large == IF swap \/ ~Rehashing(d) THEN d.ht0 ELSE d.ht1
        low   == v % small.size
        high  == (v % large.size) \div small.size
        expansions == {h * small.size + low :
                           h \in high .. (large.size \div small.size) - 1}
    IN  IF DictSize(d) = 0 THEN [keys |-> {}, next |-> 0, skewed |-> FALSE]
        ELSE [keys |-> small.bucket[low] \cup
                           UNION {large.bucket[i] : i \in expansions},
              next |-> NextCursor(v, small.size),
              skewed |-> high # 0 /\ large.size >= 4 * small.size]

\* history: missing tells that w has been there since the scan began and was not
\* returned, skewed that a call came upon tables that differ fourfold or more
\* with a cursor of the larger one
Scan ==
    /\ Idle
    /\ LET r == ScanFrom(scan.cursor)
           left == /\ IF scan.on THEN scan.missing ELSE w \in Elements(d)
                   /\ w \notin r.keys
       IN  scan' = [on |-> r.next # 0, cursor |-> r.next, missing |-> left,
                    skewed |-> left /\ (r.skewed \/ (scan.on /\ scan.skewed))]
    /\ Quiet /\ UNCHANGED <<d, child, iter, w>>

-----------------------------------------------------------------------------
(* The server around it.                                                   *)

\* databasesCron; the rehash goes on for a millisecond, however far that is, and
\* is left out if another dictionary had its turn.  A call of dictRehash(d, 100)
\* counts as up to a hundred calls of dictRehash(d, 1).
Cron ==
    /\ Idle /\ ~child
    /\ \E e \in {d, TryResize(d)} : d' \in Rehashes(e)
    /\ Quiet /\ UNCHANGED <<child, scan, iter, w>>

\* updateDictResizePolicy, when a child is forked and when it has ended
Child ==
    /\ Idle
    /\ child' = ~child
    /\ Quiet /\ UNCHANGED <<d, scan, iter, w>>

Next ==
    \/ \E k \in Keys : Add(k) \/ Delete(k) \/ Find(k)
    \/ GetRandomKey \/ GetSomeKeys \/ Empty
    \/ IterStart \/ IterNext \/ IterEnd \/ IterRelease
    \/ Scan
    \/ Cron \/ Child

Spec == Init /\ [][Next]_vars

\* a command that iterates ends, and the client that scans goes on calling
Fairness == WF_vars(IterNext \/ IterEnd) /\ SF_vars(scan.on /\ Scan)

LiveSpec == Spec /\ Fairness

-----------------------------------------------------------------------------
(* Properties.                                                             *)

WellPlaced(t) ==
    /\ t \in [size : Sizes \cup {0}, used : Nat, bucket : [0..t.size-1 -> SUBSET Keys]]
    /\ \A i \in 0..t.size-1 : \A k \in t.bucket[i] : Index(t, k) = i
    /\ t.used = Cardinality(Entries(t))

(* The invariant of the two tables (dict.c:713: "up to the indexes      *)
(* already visited in ht[0] during the rehashing, there are no populated     *)
(* buckets"): every element is in its bucket and in one table only, the      *)
(* counters count, and no bucket behind rehashidx is filled.                 *)
TablesInv(e) ==
    /\ e \in [ht0 : {e.ht0}, ht1 : {e.ht1}, rehashidx : Int, iterators : {0, 1}]
    /\ WellPlaced(e.ht0) /\ WellPlaced(e.ht1)
    /\ Entries(e.ht0) \cap Entries(e.ht1) = {}
    /\ IF Rehashing(e)
       THEN /\ e.rehashidx \in 0..e.ht0.size-1
            /\ e.ht1.size \notin {0, e.ht0.size}
            /\ \A i \in 0..e.rehashidx-1 : e.ht0.bucket[i] = {}
       ELSE e.ht1 = NewTable(0)

\* The elements an iterator has still to return; w is one of them if it is due,
\* and none if it has been returned.
Coming(it) == it.left \cup UNION {Bucket(p) : p \in it.pos + 1 .. Slots(d) - 1}

IterInv ==
    /\ iter \in [pos : 0 .. Slots(d) - 1, left : SUBSET Keys, last : Keys,
                 w : {"free", "due", "seen"}]
    /\ iter.left \subseteq Bucket(iter.pos) \ {iter.last}
    /\ iter.w = "due" => w \in Coming(iter)
    /\ iter.w = "seen" => w \notin Coming(iter)

\* The count of iterators tells whether one is at work.
DictInv ==
    /\ TablesInv(d) /\ w \in Keys
    /\ d.iterators = IF Idle THEN 0 ELSE 1
    /\ Idle \/ IterInv

(* For whoever uses a key, the dictionary is a plain set: every call about   *)
(* it is answered as the calls before decide, and no call about another key, *)
(* resize, step of a rehash or walk loses the key or brings it back.         *)
Key == INSTANCE OneKey WITH present <- w \in Elements(d)
ImplementsOneKey == Key!Spec

(* A safe iterator (dict.h:84-87) returns elements of the dictionary, none   *)
(* twice, and by its end every one that was there all the time, whatever the *)
(* command adds, looks up or deletes between two calls of dictNext.          *)
IterExact ==
    [][ /\ iter'.last = w /\ IterNext => w \in Elements(d) /\ iter.w # "seen"
        /\ iter.w = "due" => ~IterEnd ]_vars

(* A complete SCAN has returned every element that was present from its      *)
(* start to its end, through all resizes and rehash steps, unless a call     *)
(* came upon two tables that differ fourfold with a cursor of the larger.    *)
ScanComplete == scan.on \/ ~scan.missing \/ scan.skewed

(* dict.c:774: "The function guarantees all elements present in the          *)
(* dictionary get returned between the start and end of the iteration."      *)
ScanReturnsAll == scan.on \/ ~scan.missing

(* A client that goes on with the cursors it gets comes to the end of its    *)
(* scan, however often the table is resized meanwhile.                       *)
ScanEnds == scan.on ~> ~scan.on
=============================================================================
