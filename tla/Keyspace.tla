------------------------------ MODULE Keyspace ------------------------------
(* The key space of a Redis server (src/db.c) and the commands that work on   *)
(* keys of any type.  The C code keeps its state in globals; here a server is *)
(* a record, and every function of the API takes one and returns the next:    *)
(*   keys     the dictionaries db->dict of all databases: a name is a pair    *)
(*            <<database, key>>                                               *)
(*   ttl      db->expires, as the time that is left; Never: no entry          *)
(*   slave    whether server.masterhost is set                                *)
(*   dirty    server.dirty, counted since the current command was called      *)
(*   touched  the keys signalModifiedKey() was told of during that command    *)
(*   fed      what was sent to the slaves and to the AOF during that command  *)
(*   argv     the command as it will be propagated: commands rewrite it       *)
(*   reply    what is answered, where an answer is modelled                   *)
(* A command is a record whose field op is its name.                          *)
EXTENDS Integers, Sequences, FiniteSets

CONSTANTS
    Names,         \* the names <<database, key>> that clients use
    MaxTTL,        \* the longest time to live that is set
    Text,          \* elements of aggregates are numbers: below Text, integers
    Long           \* the element, no integer, too long for a ziplist

ASSUME KeyspaceAssumption == MaxTTL \in Nat /\ Names # {} /\ Text \in Nat /\ Long >= Text

Types == {"string", "list", "set", "hash", "zset"}

NoObj == [type |-> "none", enc |-> "none", val |-> <<>>]

Never == MaxTTL + 1000     \* no entry in db->expires

Obj(type, enc, val) == [type |-> type, enc |-> enc, val |-> val]

(* A server with no key. *)
EmptyServer(slave) ==
    [keys |-> [n \in Names |-> NoObj], ttl |-> [n \in Names |-> Never],
     slave |-> slave, dirty |-> 0, touched |-> {}, fed |-> <<>>,
     argv |-> [op |-> "none"], reply |-> <<>>]

-----------------------------------------------------------------------------
(* The API of db.c.                                                           *)

Exists(s, n) == s.keys[n] # NoObj

(* The names of one database. *)
InDb(db) == {n \in Names : n[1] = db}

Dirty(s, k) == [s EXCEPT !.dirty = @ + k]

SignalModifiedKey(s, n) == [s EXCEPT !.touched = @ \cup {n}]

(* touchWatchedKeysOnFlush: only the keys that are there are modified by a    *)
(* flush.                                                                     *)
SignalFlushedDb(s, names) == [s EXCEPT !.touched = @ \cup {n \in names : Exists(s, n)}]

DbDelete(s, n) == [s EXCEPT !.keys[n] = NoObj, !.ttl[n] = Never]

(* dbAdd and dbOverwrite: neither looks at the time to live of the key. *)
DbPut(s, n, o) == [s EXCEPT !.keys[n] = o]

RemoveExpire(s, n) == [s EXCEPT !.ttl[n] = Never]

(* A time in the past is kept as -1, whatever its distance. *)
SetExpire(s, n, left) == [s EXCEPT !.ttl[n] = IF left < 0 THEN -1 ELSE left]

Reply(s, r) == [s EXCEPT !.reply = r]

DelOf(n) == [op |-> "DEL", names |-> <<n>>]

PropagateExpire(s, n) == [s EXCEPT !.fed = Append(@, DelOf(n))]

\* Fault: the slaves are not told.
ExpireIfNeeded_Untold(s, n) == IF s.ttl[n] >= 0 \/ s.slave THEN s ELSE DbDelete(s, n)

(* A slave waits for the DEL of its master; the clock must have passed the    *)
(* time of the key, not only reached it.                                      *)
ExpireIfNeeded(s, n) ==
    IF s.ttl[n] >= 0 \/ s.slave THEN s ELSE DbDelete(PropagateExpire(s, n), n)

(* The names of a sequence, looked up one after the other. *)
ExpireEach(s, names) ==
    LET after[i \in 0 .. Len(names)] ==
            IF i = 0 THEN s ELSE ExpireIfNeeded(after[i - 1], names[i])
    IN  after[Len(names)]

(* The names of a command are looked up in order, until one has no object of  *)
(* the types wanted: its place is FirstBad (beyond the last one if all are    *)
(* good), and the names behind it are not looked at, so not expired.          *)
FirstBad(s, names, types) ==
    CHOOSE i \in 1 .. Len(names) + 1 :
        /\ i <= Len(names) => ExpireIfNeeded(s, names[i]).keys[names[i]].type \notin types
        /\ \A j \in 1 .. i - 1 : ExpireIfNeeded(s, names[j]).keys[names[j]].type \in types

LookupUntilBad(s, names, types) ==
    LET bad == FirstBad(s, names, types)
    IN  ExpireEach(s, IF bad > Len(names) THEN names ELSE SubSeq(names, 1, bad))

\* Fault: the key is looked up as it is.
LookupKey_Late(s, n) == s

(* What lookupKeyRead and lookupKeyWrite leave behind: the key is expired     *)
(* first.  The object itself is then s.keys[n].                               *)
LookupKey(s, n) == ExpireIfNeeded(s, n)

SetKey(s, n, o) ==
    SignalModifiedKey(RemoveExpire(DbPut(LookupKey(s, n), n, o), n), n)

(* checkType: an object of another type is an error, no object is none. *)
WrongType(s, n, type) == s.keys[n].type \notin {"none", type}

(* rewriteClientCommandVector: what is propagated instead of the command. *)
Rewrite(s, c) == [s EXCEPT !.argv = c]

\* Fault: a key that goes is not signalled.
Changed_Quietly(s, n, o, k) ==
    Dirty(IF o.val = <<>> THEN DbDelete(s, n) ELSE SignalModifiedKey(DbPut(s, n, o), n), k)

(* A key of an aggregate type after a change: written, or deleted when it has *)
(* become empty, signalled and counted.                                       *)
Changed(s, n, o, k) ==
    Dirty(SignalModifiedKey(IF o.val = <<>> THEN DbDelete(s, n) ELSE DbPut(s, n, o), n), k)

-----------------------------------------------------------------------------
(* The commands of db.c that work on any type.                                *)

Del(s, c) ==
    LET after[i \in 0 .. Len(c.names)] ==
            IF i = 0 THEN s
            ELSE LET n == c.names[i]
                     e == ExpireIfNeeded(after[i - 1], n)
                 IN  IF Exists(e, n)
                     THEN Dirty(SignalModifiedKey(DbDelete(e, n), n), 1) ELSE e
    IN  after[Len(c.names)]

ExistsCommand(s, c) ==
    LET e == ExpireEach(s, c.names)
    IN  Reply(e, <<Cardinality({i \in 1 .. Len(c.names) : Exists(e, c.names[i])})>>)

RenameGeneric(s, c) ==
    LET src == c.name
        dst == c.to
        e   == LookupKey(s, src)
        e2  == LookupKey(e, dst)
        put == DbPut(DbDelete(e2, dst), dst, e2.keys[src])
        new == IF e.ttl[src] = Never THEN put ELSE SetExpire(put, dst, e.ttl[src])
    IN  CASE src = dst -> s
          [] src # dst /\ ~Exists(e, src) -> e
          [] src # dst /\ Exists(e, src) /\ c.op = "RENAMENX" /\ Exists(e2, dst) -> e2
          [] OTHER -> Dirty(SignalModifiedKey(SignalModifiedKey(
                                DbDelete(new, src), src), dst), 1)

(* MOVE tells no one that the two keys have changed. *)
Move(s, c) ==
    LET src == c.name
        dst == <<c.db, src[2]>>
        e   == LookupKey(s, src)
        e2  == LookupKey(e, dst)
        put == DbPut(e2, dst, e2.keys[src])
        new == IF e.ttl[src] = Never THEN put ELSE SetExpire(put, dst, e.ttl[src])
    IN  CASE dst = src \/ dst \notin Names -> s
          [] dst # src /\ dst \in Names /\ ~Exists(e, src) -> e
          [] dst # src /\ dst \in Names /\ Exists(e, src) /\ Exists(e2, dst) -> e2
          [] OTHER -> Dirty(DbDelete(new, src), 1)

(* EXPIRE, PEXPIRE, EXPIREAT, PEXPIREAT.  A time that has come is a DEL on a  *)
(* master; a slave takes it as it is and waits for the DEL.                   *)
ExpireGeneric(s, c) ==
    LET n == c.name
        e == LookupKey(s, n)
    IN  CASE ~Exists(e, n) -> e
          [] Exists(e, n) /\ c.left <= 0 /\ ~e.slave ->
                SignalModifiedKey(Rewrite(Dirty(DbDelete(e, n), 1), DelOf(n)), n)
          [] OTHER -> Dirty(SignalModifiedKey(SetExpire(e, n, c.left), n), 1)

(* PERSIST looks the key up without expiring it, and signals nothing. *)
Persist(s, c) ==
    IF ~Exists(s, c.name) \/ s.ttl[c.name] = Never THEN s
    ELSE Dirty(RemoveExpire(s, c.name), 1)

TtlGeneric(s, c) ==
    LET e == LookupKey(s, c.name)
        t == e.ttl[c.name]
    IN  Reply(e, <<IF ~Exists(e, c.name) THEN -2
                   ELSE IF t = Never THEN -1 ELSE IF t < 0 THEN 0 ELSE t>>)

Emptied(s, names) ==
    [s EXCEPT !.keys = [n \in Names |-> IF n \in names THEN NoObj ELSE @[n]],
              !.ttl  = [n \in Names |-> IF n \in names THEN Never ELSE @[n]]]

FlushDb(s, c) ==
    LET names == InDb(c.db)
        there == {n \in names : Exists(s, n)}
    IN  Emptied(SignalFlushedDb(Dirty(s, Cardinality(there)), names), names)

FlushAll(s, c) ==
    LET there == {n \in Names : Exists(s, n)}
    IN  Dirty(Emptied(SignalFlushedDb(s, Names), Names), Cardinality(there) + 1)

(* Any command that only looks names up: TYPE, KEYS, SCAN, OBJECT and the     *)
(* reads of the data types expire what they meet and change nothing else.     *)
Read(s, c) == ExpireEach(s, c.names)

GenericCommand(s, c) ==
    CASE c.op = "DEL" -> Del(s, c)
      [] c.op = "EXISTS" -> ExistsCommand(s, c)
      [] c.op \in {"RENAME", "RENAMENX"} -> RenameGeneric(s, c)
      [] c.op = "MOVE" -> Move(s, c)
      [] c.op = "EXPIRE" -> ExpireGeneric(s, c)
      [] c.op = "PERSIST" -> Persist(s, c)
      [] c.op = "TTL" -> TtlGeneric(s, c)
      [] c.op = "FLUSHDB" -> FlushDb(s, c)
      [] c.op = "FLUSHALL" -> FlushAll(s, c)
      [] c.op = "READ" -> Read(s, c)
      [] OTHER -> s
=============================================================================
