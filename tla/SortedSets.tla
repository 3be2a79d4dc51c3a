----------------------------- MODULE SortedSets -----------------------------
(* The sorted set commands that change or create one (src/t_zset.c).  A       *)
(* sorted set is a function from members to scores.  Scores are the integers  *)
(* up to MaxScore in size and the two infinities: a sum beyond MaxScore is    *)
(* infinite, as a double's is beyond its range.  It is a ziplist until a long *)
(* member or too many members make it a skiplist.                             *)
EXTENDS Keyspace, FiniteSetsExt, SequencesExt, Functions

CONSTANTS
    MaxScore,               \* the largest finite score
    ZsetMaxZiplistEntries   \* zset-max-ziplist-entries

ASSUME SortedSetsAssumption == MaxScore \in Nat /\ ZsetMaxZiplistEntries \in Nat

Inf == MaxScore + 1
NaN == MaxScore + 2

Double(x) == IF x > MaxScore THEN Inf ELSE IF x < -MaxScore THEN -Inf ELSE x
Plus(x, y) == IF NaN \in {x, y} \/ {x, y} = {Inf, -Inf} THEN NaN
              ELSE IF x \in {Inf, -Inf} THEN x ELSE IF y \in {Inf, -Inf} THEN y ELSE Double(x + y)
Times(x, y) == IF 0 \in {x, y} /\ {x, y} \cap {Inf, -Inf} # {} THEN NaN ELSE Double(x * y)

ZMembers(o) == DOMAIN o.val

(* The members by score, those of one score by name. *)
ZOrder(val) ==
    SetToSortSeq(DOMAIN val, LAMBDA x, y : val[x] < val[y] \/ (val[x] = val[y] /\ x < y))

ZSetObj(enc, val) == Obj("zset", enc, val)

(* The object ZADD makes for a new key, after its first member. *)
ZSetNew(x) ==
    ZSetObj(IF ZsetMaxZiplistEntries = 0 \/ x = Long THEN "skiplist" ELSE "ziplist", <<>>)

(* A new member: zzlInsert first, the limits are looked at afterwards. *)
ZInsert(o, score, x) ==
    LET val == [y \in ZMembers(o) \cup {x} |-> IF y = x THEN score ELSE o.val[y]]
    IN  ZSetObj(IF \/ o.enc = "skiplist" \/ x = Long
                   \/ Cardinality(DOMAIN val) > ZsetMaxZiplistEntries
                THEN "skiplist" ELSE "ziplist", val)

(* One pair <<score, member>> of ZADD.  z holds the sorted set, how many of   *)
(* the pairs have changed it, and whether a NaN has put an end to the loop.   *)
ZAddPair(z, pair, flags) ==
    LET o     == z.obj
        x     == pair[2]
        known == x \in ZMembers(o)
        score == IF known /\ "incr" \in flags THEN Plus(pair[1], o.val[x]) ELSE pair[1]
    IN  CASE z.nan \/ (known /\ "nx" \in flags) \/ (~known /\ "xx" \in flags) -> z
          [] ~z.nan /\ known /\ "nx" \notin flags /\ score = NaN -> [z EXCEPT !.nan = TRUE]
          [] ~z.nan /\ known /\ "nx" \notin flags /\ score # NaN ->
                IF score = o.val[x] THEN z
                ELSE [z EXCEPT !.obj = [o EXCEPT !.val[x] = score], !.k = @ + 1]
          [] OTHER -> [z EXCEPT !.obj = ZInsert(o, score, x), !.k = @ + 1]

-----------------------------------------------------------------------------
(* ZADD and ZINCRBY.  NX and XX exclude each other, INCR takes one pair. *)
ZAddGeneric(s, c) ==
    LET e   == LookupKey(s, c.name)
        old == IF Exists(e, c.name) THEN e.keys[c.name] ELSE ZSetNew(c.pairs[1][2])
        z   == FoldLeft(LAMBDA a, p : ZAddPair(a, p, c.flags),
                        [obj |-> old, k |-> 0, nan |-> FALSE], c.pairs)
    IN  CASE {"nx", "xx"} \subseteq c.flags \/ ("incr" \in c.flags /\ Len(c.pairs) > 1) -> s
          [] OTHER -> IF WrongType(e, c.name, "zset") \/ z.k = 0 THEN e
                      ELSE Changed(e, c.name, z.obj, z.k)

(* The sorted set without some of its members. *)
ZWithout(e, n, gone) ==
    LET o == e.keys[n]
    IN  Changed(e, n, [o EXCEPT !.val = Restrict(@, ZMembers(o) \ gone)], Cardinality(gone))

ZRem(s, c) ==
    LET e    == LookupKey(s, c.name)
        gone == ZMembers(e.keys[c.name]) \cap Range(c.v)
    IN  IF e.keys[c.name].type # "zset" \/ gone = {} THEN e ELSE ZWithout(e, c.name, gone)

InScores(x, c) == /\ IF c.minex THEN x > c.from ELSE x >= c.from
                  /\ IF c.maxex THEN x < c.last ELSE x <= c.last

(* ZREMRANGEBYRANK and ZREMRANGEBYSCORE (c.minex, c.maxex: the bound itself   *)
(* is excluded).                                                              *)
ZRemRangeByRank(s, c) ==
    LET e     == LookupKey(s, c.name)
        o     == e.keys[c.name]
        len   == Cardinality(ZMembers(o))
        start == Max({0, IF c.from < 0 THEN len + c.from ELSE c.from})
        end   == IF c.last < 0 THEN len + c.last ELSE c.last
        order == ZOrder(o.val)
        gone  == {order[i] : i \in start + 1 .. Min({end + 1, len})}
    IN  IF o.type # "zset" \/ start > end \/ start >= len THEN e ELSE ZWithout(e, c.name, gone)

ZRemRangeByScore(s, c) ==
    LET e    == LookupKey(s, c.name)
        o    == e.keys[c.name]
        gone == {x \in ZMembers(o) : InScores(o.val[x], c)}
    IN  IF o.type # "zset" \/ gone = {} THEN e ELSE ZWithout(e, c.name, gone)

(* The union and the intersection take sets as well: their scores are 1. *)
SourceScore(o, x) == IF o.type = "set" THEN 1 ELSE o.val[x]

NotNaN(x) == IF x = NaN THEN 0 ELSE x

Aggregate(target, x, how) ==
    CASE how = "sum" -> NotNaN(Plus(target, x))
      [] how = "min" -> IF x < target THEN x ELSE target
      [] how = "max" -> IF x # NaN /\ x > target THEN x ELSE target

(* ZUNIONSTORE and ZINTERSTORE go through the sources from the smallest to    *)
(* the largest; the first score is kept free of NaN, those that are added are *)
(* multiplied by their weight first.  The result is a ziplist if it fits.     *)
ZStoreResult(e, to, new) ==
    LET clean == IF Exists(e, to) THEN Dirty(SignalModifiedKey(DbDelete(e, to), to), 1) ELSE e
    IN  IF DOMAIN new = {} THEN clean
        ELSE Dirty(SignalModifiedKey(
                DbPut(clean, to, ZSetObj(IF /\ Cardinality(DOMAIN new) <= ZsetMaxZiplistEntries
                                            /\ Long \notin DOMAIN new
                                         THEN "ziplist" ELSE "skiplist", new)), to), 1)

ZCombined(e, c) ==
    LET size(i) == Cardinality(DOMAIN e.keys[c.names[i]].val)
        order == SetToSortSeq(1 .. Len(c.names),
                    LAMBDA i, j : size(i) < size(j) \/ (size(i) = size(j) /\ i < j))
        in(i) == DOMAIN e.keys[c.names[i]].val
        xs    == IF c.op = "ZUNIONSTORE" THEN UNION {in(i) : i \in 1 .. Len(c.names)}
                 ELSE {x \in in(1) : \A i \in 2 .. Len(c.names) : x \in in(i)}
        weighed(x, i) == Times(c.weights[i], SourceScore(e.keys[c.names[i]], x))
        score(x) ==
            LET with == SelectSeq(order, LAMBDA i : x \in in(i))
                add(i) == IF c.op = "ZUNIONSTORE" THEN NotNaN(weighed(x, i)) ELSE weighed(x, i)
            IN  FoldLeft(LAMBDA t, i : Aggregate(t, add(i), c.how),
                         NotNaN(weighed(x, with[1])), Tail(with))
    IN  [x \in xs |-> score(x)]

ZUnionInterStore(s, c) ==
    LET types    == {"none", "set", "zset"}
        store(e) == IF FirstBad(s, c.names, types) <= Len(c.names) THEN e
                    ELSE ZStoreResult(e, c.to, ZCombined(e, c))
    IN  store(LookupUntilBad(s, c.names, types))

-----------------------------------------------------------------------------
(* The reads.  The reverse forms go through the same members from the other   *)
(* end.                                                                       *)
Scored(val, xs) == [i \in 1 .. Len(xs) |-> <<xs[i], val[xs[i]]>>]

Facing(xs, rev) == IF rev THEN Reverse(xs) ELSE xs

(* The members and scores under a name, none if it is no sorted set. *)
ZVal(s, n) ==
    LET e == LookupKey(s, n) IN IF e.keys[n].type = "zset" THEN e.keys[n].val ELSE <<>>

ZReply(s, n, answer) ==
    LET e == LookupKey(s, n) IN IF WrongType(e, n, "zset") THEN e ELSE Reply(e, answer)

(* ZRANGE and ZREVRANGE. *)
ZRangeGeneric(s, c) ==
    LET val   == ZVal(s, c.name)
        len   == Cardinality(DOMAIN val)
        start == Max({0, IF c.from < 0 THEN len + c.from ELSE c.from})
        end   == IF c.last < 0 THEN len + c.last ELSE c.last
        all   == Facing(ZOrder(val), c.rev)
    IN  ZReply(s, c.name, IF start > end \/ start >= len THEN <<>>
                          ELSE Scored(val, SubSeq(all, start + 1, Min({end + 1, len}))))

(* LIMIT: a negative offset skips everything, a negative count is no limit. *)
Limited(xs, c) ==
    IF c.offset < 0 \/ c.offset >= Len(xs) THEN <<>>
    ELSE SubSeq(xs, c.offset + 1, IF c.n < 0 THEN Len(xs) ELSE Min({c.offset + c.n, Len(xs)}))

(* ZRANGEBYSCORE and ZREVRANGEBYSCORE: the walk begins at the first member in *)
(* the range and ends at the first one behind it.                             *)
ZRangeByScore(s, c) ==
    LET val == ZVal(s, c.name)
        in  == SelectSeq(Facing(ZOrder(val), c.rev), LAMBDA x : InScores(val[x], c))
    IN  ZReply(s, c.name, Scored(val, Limited(in, c)))

ZCount(s, c) ==
    LET val == ZVal(s, c.name)
    IN  ZReply(s, c.name, <<Cardinality({x \in DOMAIN val : InScores(val[x], c)})>>)

(* The lexicographical ranges take the members as their bounds; they are used *)
(* where the members are in that order, as they are when all scores are equal.*)
ZRangeByLex(s, c) ==
    LET in == SelectSeq(Facing(ZOrder(ZVal(s, c.name)), c.rev), LAMBDA x : InScores(x, c))
    IN  ZReply(s, c.name, Limited(in, c))

ZLexCount(s, c) ==
    ZReply(s, c.name, <<Cardinality({x \in DOMAIN ZVal(s, c.name) : InScores(x, c)})>>)

ZScore(s, c) ==
    LET val == ZVal(s, c.name)
    IN  ZReply(s, c.name, IF c.n \in DOMAIN val THEN <<val[c.n]>> ELSE <<>>)

(* ZRANK and ZREVRANK. *)
ZRankGeneric(s, c) ==
    LET all == Facing(ZOrder(ZVal(s, c.name)), c.rev)
    IN  ZReply(s, c.name, [i \in 1 .. Cardinality(Range(all) \cap {c.n}) |->
                              CHOOSE r \in 0 .. Len(all) - 1 : all[r + 1] = c.n])

ZSetCommand(s, c) ==
    CASE c.op = "ZADD" -> ZAddGeneric(s, c)
      [] c.op = "ZREM" -> ZRem(s, c)
      [] c.op = "ZREMRANGEBYRANK" -> ZRemRangeByRank(s, c)
      [] c.op = "ZREMRANGEBYSCORE" -> ZRemRangeByScore(s, c)
      [] c.op \in {"ZUNIONSTORE", "ZINTERSTORE"} -> ZUnionInterStore(s, c)
      [] c.op = "ZRANGE" -> ZRangeGeneric(s, c)
      [] c.op = "ZRANGEBYSCORE" -> ZRangeByScore(s, c)
      [] c.op = "ZCOUNT" -> ZCount(s, c)
      [] c.op = "ZRANGEBYLEX" -> ZRangeByLex(s, c)
      [] c.op = "ZLEXCOUNT" -> ZLexCount(s, c)
      [] c.op = "ZSCORE" -> ZScore(s, c)
      [] c.op = "ZRANK" -> ZRankGeneric(s, c)
      [] OTHER -> s
=============================================================================
