-------------------------------- MODULE Sets --------------------------------
(* The set commands (src/t_set.c).  A set is a dictionary whose values are    *)
(* NULL (0 here), as in the hash table encoding.  It is an intset until       *)
(* something that is not an integer, or too many integers, are added.         *)
EXTENDS Keyspace, FiniteSetsExt, SequencesExt, Functions

CONSTANTS
    SetMaxIntsetEntries    \* set-max-intset-entries

ASSUME SetsAssumption == SetMaxIntsetEntries \in Nat

Members(o) == DOMAIN o.val
SetObj(enc, xs) == Obj("set", enc, [x \in xs |-> 0])

(* What setTypeAdd makes of a set: once a hash table, always a hash table. *)
SetTypeAdd(o, x) ==
    LET ms == Members(o) \cup {x}
    IN  SetObj(IF o.enc = "ht" \/ x >= Text \/ (x \notin Members(o) /\
                    Cardinality(ms) > SetMaxIntsetEntries) THEN "ht" ELSE "intset", ms)

SetTypeRemove(o, x) == SetObj(o.enc, Members(o) \ {x})

(* setTypeCreate: the encoding that can hold the value. *)
SetTypeCreate(x) == SetObj(IF x < Text THEN "intset" ELSE "ht", {})

AddAll(o, xs) == FoldLeft(SetTypeAdd, o, xs)

-----------------------------------------------------------------------------
SAdd(s, c) ==
    LET e   == LookupKey(s, c.name)
        old == IF Exists(e, c.name) THEN e.keys[c.name] ELSE SetTypeCreate(c.v[1])
        new == AddAll(old, c.v)
        k   == Cardinality(Members(new)) - Cardinality(Members(old))
    IN  IF WrongType(e, c.name, "set") \/ k = 0 THEN e ELSE Changed(e, c.name, new, k)

SRem(s, c) ==
    LET e    == LookupKey(s, c.name)
        o    == e.keys[c.name]
        gone == Members(o) \cap Range(c.v)
    IN  IF o.type # "set" \/ gone = {} THEN e
        ELSE Changed(e, c.name, SetObj(o.enc, Members(o) \ gone), Cardinality(gone))

(* SMOVE signals the destination even if it has the element already. *)
SMove(s, c) ==
    LET src == c.name
        dst == c.to
        e   == LookupKey(LookupKey(s, src), dst)
        o   == e.keys[src]
        cut == SetTypeRemove(o, c.n)
        one == IF Members(cut) = {} THEN DbDelete(e, src) ELSE DbPut(e, src, cut)
        old == IF Exists(e, dst) THEN e.keys[dst] ELSE SetTypeCreate(c.n)
        new == SetTypeAdd(old, c.n)
        k   == Cardinality(Members(new)) - Cardinality(Members(old))
    IN  IF o.type # "set" \/ WrongType(e, dst, "set") \/ src = dst \/ c.n \notin Members(o)
        THEN e
        ELSE Dirty(DbPut(SignalModifiedKey(SignalModifiedKey(one, src), dst), dst, new), 1 + k)

(* SPOP takes any element, and tells the others which.  c.pick chooses: the   *)
(* element of that rank, counted around.                                      *)
SPop(s, c) ==
    LET e == LookupKey(s, c.name)
        o == e.keys[c.name]
        x == SetToSortSeq(Members(o), <)[1 + (c.pick % Cardinality(Members(o)))]
    IN  IF o.type # "set" THEN e
        ELSE Changed(Rewrite(e, [op |-> "SREM", name |-> c.name, v |-> <<x>>]),
                     c.name, SetTypeRemove(o, x), 1)

(* The set under a name; a name without a key is an empty set. *)
SetOf(s, n) == IF Exists(s, n) THEN Members(s.keys[n]) ELSE {}

(* What an intset becomes when the elements of a set are added to it. *)
FromIntset(xs) ==
    IF (\E x \in xs : x >= Text) \/ Cardinality(xs) > SetMaxIntsetEntries THEN "ht" ELSE "intset"

(* SINTERSTORE stops at the first source that is not there or is no set; in   *)
(* the first case the intersection is empty.                                  *)
SInterResult(e, bad, c) ==
    LET clean == DbDelete(e, c.to)
        inter == {x \in SetOf(e, c.names[1]) :
                    \A i \in 2 .. Len(c.names) : x \in SetOf(e, c.names[i])}
        new   == IF inter = {} THEN clean ELSE DbPut(clean, c.to, SetObj(FromIntset(inter), inter))
    IN  CASE bad <= Len(c.names) /\ Exists(e, c.names[bad]) -> e
          [] bad <= Len(c.names) /\ ~Exists(e, c.names[bad]) ->
                IF Exists(e, c.to) THEN Dirty(SignalModifiedKey(clean, c.to), 1) ELSE e
          [] OTHER -> Dirty(SignalModifiedKey(new, c.to), 1)

SInterStore(s, c) ==
    SInterResult(LookupUntilBad(s, c.names, {"set"}), FirstBad(s, c.names, {"set"}), c)

(* SUNIONSTORE and SDIFFSTORE.  The second algorithm of SDIFF puts all of the *)
(* first set into the result before it removes the others, so that the        *)
(* encoding of the result depends on which algorithm looks cheaper.           *)
SUnionDiffResult(e, c) ==
    LET size(n) == Cardinality(SetOf(e, n))
        first  == SetOf(e, c.names[1])
        others == UNION {SetOf(e, c.names[i]) : i \in 2 .. Len(c.names)}
        there  == SelectSeq(c.names, LAMBDA n : Exists(e, n))
        one    == (size(c.names[1]) * Len(there)) \div 2
        two    == FoldLeft(LAMBDA sum, n : sum + size(n), 0, there)
        xs     == IF c.op = "SUNIONSTORE" THEN first \cup others ELSE first \ others
        pass   == IF c.op = "SUNIONSTORE" \/ one <= two THEN xs ELSE first
        clean  == DbDelete(e, c.to)
        new    == IF xs = {} THEN clean ELSE DbPut(clean, c.to, SetObj(FromIntset(pass), xs))
    IN  Dirty(SignalModifiedKey(new, c.to), 1)

SUnionDiffStore(s, c) ==
    LET store(e) == IF FirstBad(s, c.names, {"none", "set"}) <= Len(c.names) THEN e
                    ELSE SUnionDiffResult(e, c)
    IN  store(LookupUntilBad(s, c.names, {"none", "set"}))

SIsMember(s, c) ==
    LET e == LookupKey(s, c.name)
    IN  IF WrongType(e, c.name, "set") THEN e
        ELSE Reply(e, <<IF c.n \in SetOf(e, c.name) THEN 1 ELSE 0>>)

(* SRANDMEMBER with a count: how many elements are answered.  A negative      *)
(* count asks for that many, the same one again and again if need be.         *)
SRandMember(s, c) ==
    LET e    == LookupKey(s, c.name)
        size == Cardinality(SetOf(e, c.name))
    IN  IF e.keys[c.name].type # "set" THEN e
        ELSE Reply(e, <<IF c.n < 0 THEN -c.n ELSE Min({c.n, size})>>)

SetCommand(s, c) ==
    CASE c.op = "SADD" -> SAdd(s, c)
      [] c.op = "SREM" -> SRem(s, c)
      [] c.op = "SMOVE" -> SMove(s, c)
      [] c.op = "SPOP" -> SPop(s, c)
      [] c.op = "SISMEMBER" -> SIsMember(s, c)
      [] c.op = "SRANDMEMBER" -> SRandMember(s, c)
      [] c.op = "SINTERSTORE" -> SInterStore(s, c)
      [] c.op \in {"SUNIONSTORE", "SDIFFSTORE"} -> SUnionDiffStore(s, c)
      [] OTHER -> s
=============================================================================
