------------------------------ MODULE Commands ------------------------------
(* A master and one of its slaves execute commands.  The master runs call()   *)
(* of src/redis.c for a client's command: if the data set has become dirty,   *)
(* the command, as it was rewritten, is propagated, after the DELs of the     *)
(* keys it found expired.  The slave executes what arrives over the link, in  *)
(* order and any time later.  Between commands time passes, the master        *)
(* expires keys in the background and evicts keys for memory.                 *)
EXTENDS Strings, Lists, Sets, Hashes, SortedSets

CONSTANTS
    Workloads,     \* the mixes of commands that the clients may send: by name, a
                   \* record of commands, of lag, how much may wait in the link
                   \* when the master goes on, and of evict, whether it evicts
    MaxSize        \* bound: no value of a key has more elements

VARIABLES
    workload,      \* what the clients send
    master, slave, \* the two servers
    link           \* the commands on their way to the slave

vars == <<workload, master, slave, link>>

Mix == Workloads[workload]

(* SORT of a list, a set or a sorted set, by value or (c.nosort) as it is     *)
(* kept, with STORE.  A set that is stored is always sorted, a sorted set is  *)
(* converted to a skiplist on the way.  Without ALPHA only numbers can be     *)
(* sorted, and nothing is stored if one is not.                               *)
SortRange(all, c) ==
    LET first == IF c.from < 0 THEN 0 ELSE c.from
        last  == IF c.n < 0 THEN Len(all) - 1 ELSE Min({first + c.n - 1, Len(all) - 1})
    IN  IF first >= Len(all) THEN <<>> ELSE SubSeq(all, first + 1, last + 1)

SortStore(e, c, out) ==
    CASE out # <<>> -> Dirty(SetKey(e, c.to, PushAll(EmptyList, out, "tail")), Len(out))
      [] out = <<>> /\ Exists(e, c.to) ->
            Dirty(SignalModifiedKey(DbDelete(e, c.to), c.to), 1)
      [] OTHER -> e

Sorted(e, c) ==
    LET o     == e.keys[c.name]
        conv  == IF o.type = "zset" THEN DbPut(e, c.name, [o EXCEPT !.enc = "skiplist"]) ELSE e
        lists == o.type \in {"none", "list"}
        asis  == c.nosort /\ o.type # "set"
        xs    == IF lists THEN o.val
                 ELSE IF asis THEN ZOrder(o.val) ELSE SetToSortSeq(DOMAIN o.val, <)
        up    == IF asis THEN xs ELSE SortSeq(xs, <)
        all   == IF c.desc /\ (~asis \/ o.type = "zset") THEN Reverse(up) ELSE up
        alpha == c.alpha \/ (c.nosort /\ o.type = "set")
    IN  CASE o.type \in {"string", "hash"} -> e
          [] o.type \notin {"string", "hash"} /\ ~asis /\ ~alpha /\ Long \in Range(all) -> conv
          [] OTHER -> SortStore(conv, c, SortRange(all, c))

Sort(s, c) == Sorted(LookupKey(s, c.name), c)

(* The command table. *)
Execute(s, c) ==
    CASE c.op \in {"SET", "GETRANGE", "GETSET", "SETRANGE", "MSET", "MSETNX",
                   "INCRBY", "INCRBYFLOAT", "APPEND"} -> StringCommand(s, c)
      [] c.op \in {"PUSH", "PUSHX", "LINSERT", "LINDEX", "LSET", "POP", "LRANGE",
                   "LTRIM", "LREM", "RPOPLPUSH"} -> ListCommand(s, c)
      [] c.op \in {"SADD", "SREM", "SMOVE", "SPOP", "SINTERSTORE", "SUNIONSTORE",
                   "SDIFFSTORE", "SISMEMBER", "SRANDMEMBER"} -> SetCommand(s, c)
      [] c.op \in {"HSET", "HSETNX", "HMSET", "HINCRBY", "HINCRBYFLOAT", "HDEL",
                   "HMGET"} -> HashCommand(s, c)
      [] c.op \in {"ZADD", "ZREM", "ZREMRANGEBYRANK", "ZREMRANGEBYSCORE",
                   "ZUNIONSTORE", "ZINTERSTORE", "ZRANGE", "ZRANGEBYSCORE", "ZCOUNT",
                   "ZRANGEBYLEX", "ZLEXCOUNT", "ZSCORE", "ZRANK"} -> ZSetCommand(s, c)
      [] c.op = "SORT" -> Sort(s, c)
      [] OTHER -> GenericCommand(s, c)

(* call(): what the command leaves behind, fed complete. *)
Propagate(r) == IF r.dirty > 0 THEN [r EXCEPT !.fed = Append(@, r.argv)] ELSE r
Call(s, c) == Propagate(Execute([s EXCEPT !.argv = c], c))

(* A server between two commands. *)
Idle(s) == [s EXCEPT !.dirty = 0, !.touched = {}, !.fed = <<>>,
                     !.argv = [op |-> "none"], !.reply = <<>>]

Small(s) == \A n \in Names : Cardinality(DOMAIN s.keys[n].val) <= MaxSize

-----------------------------------------------------------------------------
Init ==
    /\ workload \in DOMAIN Workloads
    /\ master = EmptyServer(FALSE)
    /\ slave = EmptyServer(TRUE)
    /\ link = <<>>

(* A client's command on the master. *)
ProcessCommand ==
    /\ Len(link) <= Mix.lag
    /\ \E c \in Mix.commands : \E r \in {Call(master, c)} :
        /\ Small(r)
        /\ master' = Idle(r)
        /\ link' = link \o r.fed
    /\ UNCHANGED <<workload, slave>>

(* activeExpireCycle: a key that has expired, and that no one asked for. *)
ActiveExpire ==
    /\ Len(link) <= Mix.lag
    /\ \E n \in Names :
        /\ master.ttl[n] < 0
        /\ LET r == ExpireIfNeeded(master, n)
           IN  /\ master' = Idle(r)
               /\ link' = link \o r.fed
    /\ UNCHANGED <<workload, slave>>

(* freeMemoryIfNeeded: some key goes, and the slaves are told. *)
Evict ==
    /\ Mix.evict
    /\ Len(link) <= Mix.lag
    /\ \E n \in Names :
        /\ Exists(master, n)
        /\ LET r == DbDelete(PropagateExpire(master, n), n)
           IN  /\ master' = Idle(r)
               /\ link' = link \o r.fed
    /\ UNCHANGED <<workload, slave>>

(* The slave executes the next command of its master. *)
SlaveExecutes ==
    /\ link # <<>>
    /\ slave' = Idle(Call(slave, Head(link)))
    /\ link' = Tail(link)
    /\ UNCHANGED <<workload, master>>

Aged(s) == [s EXCEPT !.ttl = [n \in Names |-> IF @[n] = Never \/ @[n] < 0 THEN @[n] ELSE @[n] - 1]]

Tick ==
    /\ master' = Aged(master)
    /\ slave' = Aged(slave)
    /\ <<master', slave'>> # <<master, slave>>
    /\ UNCHANGED <<workload, link>>

Next == ProcessCommand \/ ActiveExpire \/ Evict \/ SlaveExecutes \/ Tick

Spec == Init /\ [][Next]_vars

-----------------------------------------------------------------------------
(* What an object may be: no aggregate is empty, and the compact encodings    *)
(* hold neither too much nor anything too long.                               *)
ObjInv(o) ==
    LET size == Cardinality(DOMAIN o.val)
        longIn == Long \in DOMAIN o.val \cup Range(o.val)
    IN  CASE o.type = "string" -> Fits(size) /\ (o.enc = "int" => IsNumeral(o.val))
          [] o.type = "list" -> size > 0 /\
                (o.enc = "ziplist" => size <= ListMaxZiplistEntries /\ Long \notin Range(o.val))
          [] o.type = "set" -> size > 0 /\ (o.enc = "intset" =>
                size <= SetMaxIntsetEntries /\ \A x \in DOMAIN o.val : x < Text)
          [] o.type = "hash" -> size > 0 /\ (o.enc = "ziplist" => size <= HashMaxZiplistEntries)
          [] o.type = "zset" -> size > 0 /\ NaN \notin Range(o.val) /\ (o.enc = "ziplist" =>
                size <= ZsetMaxZiplistEntries /\ Long \notin DOMAIN o.val)
          [] OTHER -> o = NoObj

(* INVARIANT.  Both servers are well formed after any sequence of commands:   *)
(* only keys that exist have a time to live, no command leaves an empty list, *)
(* set, hash or sorted set behind, no score is NaN, and an object is in a     *)
(* compact encoding (ziplist, intset) only within the configured limits.  The *)
(* length of a hash's fields is not part of it: HINCRBY and HINCRBYFLOAT      *)
(* (t_hash.c) put a long field into a ziplist.                                *)
DbInv ==
    \A s \in {master, slave} : \A n \in Names :
        ObjInv(s.keys[n]) /\ (s.ttl[n] # Never => Exists(s, n))

(* INVARIANT.  Whatever is lost, rewritten or expired on the way, a slave     *)
(* that has executed all it was sent has the master's value under every name  *)
(* (encodings may differ), and never expects a key to go before the master    *)
(* does: commands that do not do the same thing twice (SPOP, INCRBYFLOAT,     *)
(* EXPIRE in the past, a read that expires) are propagated as something that  *)
(* does.                                                                      *)
ReplicaFollows ==
    link = <<>> =>
        \A n \in Names : /\ slave.keys[n].type = master.keys[n].type
                         /\ slave.keys[n].val = master.keys[n].val
                         /\ slave.ttl[n] >= master.ttl[n]

(* INVARIANT.  Every key whose value a command would change is signalled, so  *)
(* that an EXEC of a client that watches it fails; only a key that goes       *)
(* because it had expired, and what MOVE does, is not.                        *)
ModificationsSignalled ==
    \A c \in Mix.commands : \A r \in {Call(master, c)} : \A n \in Names :
            \/ r.keys[n].type = master.keys[n].type /\ r.keys[n].val = master.keys[n].val
            \/ n \in r.touched
            \/ master.ttl[n] < 0 /\ ~Exists(r, n)
            \/ c.op = "MOVE"

(* The master without the keys whose time has come. *)
Purged == [master EXCEPT
    !.keys = [n \in Names |-> IF master.ttl[n] < 0 THEN NoObj ELSE @[n]],
    !.ttl  = [n \in Names |-> IF @[n] < 0 THEN Never ELSE @[n]]]

(* INVARIANT.  An expired key that is still in the dictionary is as good as   *)
(* gone on a master: any command but PERSIST answers and leaves the same      *)
(* values as it would without the key, whatever it does with the name.        *)
ExpiredIsGone ==
    \A c \in {x \in Mix.commands : x.op # "PERSIST" /\ \E n \in Names : master.ttl[n] < 0} :
        \A r \in {Call(master, c)}, q \in {Call(Purged, c)} :
            /\ r.reply = q.reply
            /\ \A n \in Names :
                    \/ r.keys[n].type = q.keys[n].type /\ r.keys[n].val = q.keys[n].val
                    \/ r.ttl[n] < 0 /\ master.ttl[n] < 0 /\ ~Exists(q, n)

(* INVARIANT that does not hold.  A slave that has executed all it was sent   *)
(* has a time to live on the same keys as its master.  t_string.c says that   *)
(* INCRBYFLOAT is replicated as a SET so that differences in float precision  *)
(* "will not create differences in replicas or after an AOF restart", but the *)
(* SET takes the time to live of the key away.                                *)
ReplicaKeepsTtl ==
    link = <<>> =>
        \A n \in Names : (slave.ttl[n] = Never) <=> (master.ttl[n] = Never)
=============================================================================
