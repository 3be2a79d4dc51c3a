------------------------------- MODULE Hashes -------------------------------
(* The hash commands (src/t_hash.c).  A hash is a function from its fields to *)
(* its values, both elements.  It is a ziplist until a long argument or too   *)
(* many fields make it a hash table.                                          *)
EXTENDS Keyspace, SequencesExt, Functions

CONSTANTS
    HashMaxZiplistEntries   \* hash-max-ziplist-entries

ASSUME HashesAssumption == HashMaxZiplistEntries \in Nat

HashLLongMax == Text - 1    \* LLONG_MAX: the largest element that is an integer

Fields(o) == DOMAIN o.val

EmptyHash == Obj("hash", "ziplist", <<>>)

HashOrNew(s, n) == IF Exists(s, n) THEN s.keys[n] ELSE EmptyHash

(* hashTypeTryConversion over the arguments that a command passes to it. *)
HashTypeTryConversion(o, args) ==
    IF Long \in args THEN [o EXCEPT !.enc = "ht"] ELSE o

(* hashTypeSet counts after it has added. *)
HashTypeSet(o, f, v) ==
    LET val == [x \in Fields(o) \cup {f} |-> IF x = f THEN v ELSE o.val[x]]
    IN  Obj("hash", IF o.enc = "ht" \/ Cardinality(DOMAIN val) > HashMaxZiplistEntries
                    THEN "ht" ELSE "ziplist", val)

-----------------------------------------------------------------------------
(* HSET and HSETNX, which leaves a field that is there alone, but has         *)
(* converted the hash for its arguments by then.                              *)
HSet(s, c) ==
    LET e   == LookupKey(s, c.name)
        o   == HashTypeTryConversion(HashOrNew(e, c.name), {c.f, c.n})
    IN  CASE WrongType(e, c.name, "hash") -> e
          [] ~WrongType(e, c.name, "hash") /\ c.op = "HSETNX" /\ c.f \in Fields(o) ->
                DbPut(e, c.name, o)
          [] OTHER -> Changed(e, c.name, HashTypeSet(o, c.f, c.n), 1)

(* HMSET counts once, whatever the number of pairs <<field, value>>. *)
HMSet(s, c) ==
    LET e    == LookupKey(s, c.name)
        args == UNION {Range(p) : p \in Range(c.pairs)}
        o    == HashTypeTryConversion(HashOrNew(e, c.name), args)
    IN  IF WrongType(e, c.name, "hash") THEN e
        ELSE Changed(e, c.name,
                FoldLeft(LAMBDA h, p : HashTypeSet(h, p[1], p[2]), o, c.pairs), 1)

(* HINCRBY does not look at the length of the field. *)
HIncrBy(s, c) ==
    LET e   == LookupKey(s, c.name)
        o   == HashOrNew(e, c.name)
        old == IF c.f \in Fields(o) THEN o.val[c.f] ELSE 0
    IN  IF \/ WrongType(e, c.name, "hash")
           \/ old >= Text
           \/ c.n > 0 /\ old > 0 /\ c.n > HashLLongMax - old
        THEN e
        ELSE Changed(e, c.name, HashTypeSet(o, c.f, old + c.n), 1)

(* HINCRBYFLOAT, on whole numbers that remain elements: an HSET of the result *)
(* is what the slaves and the AOF are given.                                  *)
HIncrByFloat(s, c) ==
    LET e   == LookupKey(s, c.name)
        o   == HashOrNew(e, c.name)
        old == IF c.f \in Fields(o) THEN o.val[c.f] ELSE 0
        sum == old + c.n
    IN  IF WrongType(e, c.name, "hash") \/ old >= Text \/ sum > HashLLongMax THEN e
        ELSE Changed(Rewrite(e, [op |-> "HSET", name |-> c.name, f |-> c.f, n |-> sum]),
                     c.name, HashTypeSet(o, c.f, sum), 1)

HDel(s, c) ==
    LET e    == LookupKey(s, c.name)
        o    == e.keys[c.name]
        gone == Fields(o) \cap Range(c.v)
    IN  IF o.type # "hash" \/ gone = {} THEN e
        ELSE Changed(e, c.name, [o EXCEPT !.val = Restrict(@, Fields(o) \ gone)],
                     Cardinality(gone))

(* HGET and HMGET: one answer for each field, none for those missing. *)
HMGet(s, c) ==
    LET e == LookupKey(s, c.name)
        o == e.keys[c.name]
    IN  IF WrongType(e, c.name, "hash") THEN e
        ELSE Reply(e, [i \in 1 .. Len(c.v) |->
                         IF c.v[i] \in Fields(o) THEN <<o.val[c.v[i]]>> ELSE <<>>])

HashCommand(s, c) ==
    CASE c.op \in {"HSET", "HSETNX"} -> HSet(s, c)
      [] c.op = "HMSET" -> HMSet(s, c)
      [] c.op = "HINCRBY" -> HIncrBy(s, c)
      [] c.op = "HINCRBYFLOAT" -> HIncrByFloat(s, c)
      [] c.op = "HDEL" -> HDel(s, c)
      [] c.op = "HMGET" -> HMGet(s, c)
      [] OTHER -> s
=============================================================================
