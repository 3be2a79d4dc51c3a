-------------------------- MODULE ReplicationState --------------------------
(***************************************************************************)
(* One Redis server as replication.c and rdb.c see it: its data, the       *)
(* backlog and the slaves it feeds, the child that saves, and its own link *)
(* with a master.                                                          *)
(* The stream is a sequence of tokens, each of which counts as one byte: a *)
(* write is a `head' and a `tail', and takes effect at its tail.  The data *)
(* is the sequence of writes that took effect, with the database of each.  *)
(* An operation maps the state of a server to its next one; `sent' says    *)
(* what it writes on which connection, `shut' what it closes.              *)
(***************************************************************************)
EXTENDS Integers, FiniteSets, SequencesExt

CONSTANTS Conns,  \* the connections between a slave and its master
          None

NoLog == [on |-> FALSE, buf |-> <<>>, idx |-> 0, histlen |-> 0, first |-> 0]
NoChild == [type |-> "none", data |-> <<>>, before |-> 0, done |-> FALSE, to |-> {}, got |-> {}]

\* A server that starts from its dump file.
\* told: the last offset the master was told on this connection.
Started(run, rdb, cfg) ==
    [up |-> TRUE, run |-> run, data |-> rdb, rdb |-> rdb, of |-> cfg.of,
     size |-> cfg.size, diskless |-> cfg.diskless, capa |-> cfg.capa,
     off |-> 0, log |-> NoLog, seldb |-> -1, clients |-> <<>>, slaves |-> <<>>, child |-> NoChild,
     dirty |-> 0, woff |-> [off |-> 0, len |-> 0], waits |-> 0, getack |-> FALSE,
     state |-> IF cfg.of = None THEN "none" ELSE "connect", conn |-> None,
     master |-> None, cached |-> None, init |-> [run |-> None, off |-> -1],
     sent |-> [c \in Conns |-> <<>>], shut |-> {}]

Slaves(v) == ToSet(v.slaves)
InState(v, st) == {c \in Slaves(v) : v.clients[c].st = st}
SendAll(v, C, msgs) == [v EXCEPT !.sent = [c \in Conns |-> IF c \in C THEN @[c] \o msgs ELSE @[c]]]
Send(v, c, msgs) == SendAll(v, {c}, msgs)
\* The clients in C change in the same way.
Each(v, C, New(_)) == [v EXCEPT !.clients = [c \in DOMAIN @ |-> IF c \in C THEN New(@[c]) ELSE @[c]]]

Sel(d) == [t |-> "sel", n |-> d]
Ping == [t |-> "ping", n |-> 0]
GetAck == [t |-> "getack", n |-> 0]
Command(id) == <<[t |-> "head", n |-> id], [t |-> "tail", n |-> id]>>

-----------------------------------------------------------------------------
(* The backlog: the last bytes of the stream in a circular buffer. *)

\* The offset moves on, so that no slave of before can continue.
CreateBacklog(v) ==
    [v EXCEPT !.off = @ + 1,
              !.log = [on |-> TRUE, buf |-> [k \in 0..(v.size - 1) |-> Ping], idx |-> 0,
                       histlen |-> 0, first |-> v.off + 2]]
FreeBacklog(v) == [v EXCEPT !.log = NoLog]
ResizeBacklog(v, size) ==
    IF ~v.log.on \/ size = v.size THEN [v EXCEPT !.size = size]
    ELSE [v EXCEPT !.size = size,
                   !.log = [on |-> TRUE, buf |-> [k \in 0..(size - 1) |-> Ping], idx |-> 0,
                            histlen |-> 0, first |-> v.off + 1]]

PutByte(l, size, b) ==
    [l EXCEPT !.buf[l.idx] = b,
              !.idx = IF l.idx + 1 = size THEN 0 ELSE l.idx + 1,
              !.histlen = IF @ = size THEN @ ELSE @ + 1]
FeedBacklog(v, p) ==
    LET log[n \in 0..Len(p)] == IF n = 0 THEN v.log ELSE PutByte(log[n - 1], v.size, p[n])
    IN [v EXCEPT !.off = @ + Len(p),
                 !.log = [log[Len(p)] EXCEPT !.first = v.off + Len(p) - log[Len(p)].histlen + 1]]

\* What addReplyReplicationBacklog sends to a slave that wants to go on at off.
BacklogFrom(v, off) ==
    LET l == v.log
        skip == off - l.first
        j == (((l.idx + (v.size - l.histlen)) % v.size) + skip) % v.size
    IN [k \in 1..(IF l.histlen = 0 THEN 0 ELSE l.histlen - skip) |-> l.buf[(j + k - 1) % v.size]]

-----------------------------------------------------------------------------
(* The slaves of a server.  One that is online is written to; for the others *)
(* the stream is kept in the output buffer, unless no snapshot of theirs is  *)
(* begun yet.                                                                *)

AddReply(v, C, p) ==
    LET open == {c \in C : v.clients[c].st = "online" /\ ~v.clients[c].onack}
    IN Each(SendAll(v, open, p), C \ open, LAMBDA k : [k EXCEPT !.out = @ \o p])

FeedSlaves(v, d, cmd) ==
    LET p == (IF v.seldb = d THEN <<>> ELSE <<Sel(d)>>) \o cmd
        fed == IF v.log.on THEN FeedBacklog([v EXCEPT !.seldb = d], p) ELSE [v EXCEPT !.seldb = d]
    IN IF ~v.log.on /\ Slaves(v) = {} THEN v
       ELSE AddReply(fed, Slaves(v) \ InState(v, "start"), p)

\* freeClient, for slaves.
FreeSlaves(v, C) ==
    [v EXCEPT !.clients = [c \in Slaves(v) \ C |-> @[c]], !.shut = @ \cup C,
              !.slaves = SelectSeq(@, LAMBDA c : c \notin C)]
AddSlave(v, c, client) ==
    [v EXCEPT !.clients = (c :> client) @@ @, !.slaves = Append(@, c)]
DisconnectSlaves(v) == FreeSlaves(v, Slaves(v))

\* The output buffer is written to the socket from now on.
PutSlaveOnline(v, c) ==
    Send([v EXCEPT !.clients[c].st = "online", !.clients[c].onack = FALSE,
                   !.clients[c].out = <<>>], c, v.clients[c].out)

\* A call changes the data (and tells the slaves).
Write(v, d, id) ==
    FeedSlaves([v EXCEPT !.data = Append(@, <<d, id>>), !.dirty = @ + 1], d, Command(id))

-----------------------------------------------------------------------------
(* Snapshots. *)

InitialOffset(v) == IF v.log.on THEN v.off ELSE v.off + 1

SetupForFullResync(v, C, off) ==
    LET set == Each([v EXCEPT !.seldb = -1], C, LAMBDA k : [k EXCEPT !.init = off, !.st = "end"])
    IN SendAll(set, {c \in C : ~v.clients[c].pre}, <<[t |-> "full", run |-> v.run, off |-> off]>>)

SaveBackground(v) ==
    [v EXCEPT !.child = [NoChild EXCEPT !.type = "disk", !.data = v.data, !.before = v.dirty]]
SaveToSlavesSockets(v) ==
    [v EXCEPT !.child = [NoChild EXCEPT !.type = "socket", !.data = v.data, !.to = InState(v, "start")]]
\* The child could not be made.  Those who wait are slaves no more; the error for
\* them stays in the output buffer, since no write handler is installed for a client
\* that waits for a snapshot (prepareClientToWrite), and nobody closes the
\* connection: the slave's own timeout does.
Refuse(v, C) ==
    [v EXCEPT !.clients = [c \in Slaves(v) \ C |-> @[c]],
              !.slaves = SelectSeq(@, LAMBDA c : c \notin C)]

\* capa: all who wait can read a stream with a mark at its end.  For a
\* snapshot to sockets they are told before the fork, which may fail.
StartBgsaveForReplication(v, capa, ok) ==
    LET waiting == InState(v, "start")
        saving == CASE ~ok -> v
                    [] ok /\ v.diskless /\ capa -> SaveToSlavesSockets(v)
                    [] OTHER -> SaveBackground(v)
        told == IF ok \/ (v.diskless /\ capa) THEN SetupForFullResync(saving, waiting, InitialOffset(v)) ELSE v
    IN IF ok THEN told ELSE Refuse(told, waiting)
CapaOfWaiting(v) == \A c \in InState(v, "start") : v.clients[c].capa

\* Fault: those whose snapshot failed go on waiting.
UpdateSlavesWaitingBgsave_Kept(v, done, type, ok) ==
    LET ended == InState(v, "end")
        served == CASE type = "socket" -> Each(v, ended, LAMBDA k : [k EXCEPT !.st = "online", !.onack = TRUE])
                    [] type = "disk" /\ done -> Each(v, ended, LAMBDA k : [k EXCEPT !.st = "bulk", !.file = v.rdb])
                    [] OTHER -> v
    IN IF InState(v, "start") = {} THEN served
       ELSE StartBgsaveForReplication(served, CapaOfWaiting(v), ok)
\* At the end of a child: for those who waited for it, and for those who wait
\* for another one.
UpdateSlavesWaitingBgsave(v, done, type, ok) ==
    LET ended == InState(v, "end")
        served == CASE type = "socket" -> Each(v, ended, LAMBDA k : [k EXCEPT !.st = "online", !.onack = TRUE])
                    [] type = "disk" /\ done -> Each(v, ended, LAMBDA k : [k EXCEPT !.st = "bulk", !.file = v.rdb])
                    [] OTHER -> FreeSlaves(v, ended)
    IN IF InState(v, "start") = {} THEN served
       ELSE StartBgsaveForReplication(served, CapaOfWaiting(v), ok)

\* Fault: the changes that were made while the child saved are forgotten.
DoneDisk_Clean(v, done, ok) ==
    LET saved == IF done THEN [v EXCEPT !.dirty = 0] ELSE v
    IN UpdateSlavesWaitingBgsave([saved EXCEPT !.child = NoChild], done, "disk", ok)
DoneDisk(v, done, ok) ==
    LET saved == IF done THEN [v EXCEPT !.dirty = @ - v.child.before] ELSE v
    IN UpdateSlavesWaitingBgsave([saved EXCEPT !.child = NoChild], done, "disk", ok)

\* good: the slaves that got all of it, as the child reports.
DoneSocket(v, good, ok) ==
    LET kept == FreeSlaves([v EXCEPT !.child = NoChild], InState(v, "end") \ good)
    IN UpdateSlavesWaitingBgsave(kept, good # {}, "socket", ok)

-----------------------------------------------------------------------------
(* SYNC and PSYNC. *)

NewClient(r) == [st |-> "start", out |-> <<>>, init |-> 0, ack |-> 0, onack |-> FALSE,
                 pre |-> r.t = "sync", capa |-> r.capa, file |-> <<>>]

CanContinue(v, r) ==
    /\ r.t = "psync" /\ r.run = v.run /\ v.log.on
    /\ v.log.first <= r.off /\ r.off <= v.log.first + v.log.histlen

TryPartialResynchronization(v, c, r) ==
    Send(AddSlave(v, c, [NewClient(r) EXCEPT !.st = "online"]), c, <<[t |-> "continue"]>> \o BacklogFrom(v, r.off))

\* Who comes while a snapshot is made that others wait for joins them.
Waiting(v) == SelectSeq(v.slaves, LAMBDA c : v.clients[c].st = "end")
CanJoin(v, r) == Waiting(v) # <<>> /\ (v.clients[Head(Waiting(v))].capa => r.capa)
\* Fault: at the offset of today.
Join_Today(v, c) ==
    LET like == v.clients[Head(Waiting(v))]
    IN SetupForFullResync([v EXCEPT !.clients[c].out = like.out], {c}, v.off)
\* Fault: with an output buffer of its own, which starts now.
Join_Empty(v, c) ==
    LET like == v.clients[Head(Waiting(v))]
    IN SetupForFullResync(v, {c}, like.init)
Join(v, c) ==
    LET like == v.clients[Head(Waiting(v))]
    IN SetupForFullResync([v EXCEPT !.clients[c].out = like.out], {c}, like.init)

\* A snapshot to sockets waits for replicationCron.
FullResynchronization(v, c, r, ok) ==
    LET added == AddSlave(v, c, NewClient(r))
        logged(u) == IF Len(u.slaves) = 1 /\ ~u.log.on THEN CreateBacklog(u) ELSE u
    IN IF v.child.type = "disk" THEN logged(IF CanJoin(v, r) THEN Join(added, c) ELSE added)
       ELSE IF v.child.type = "socket" \/ (v.diskless /\ r.capa) THEN logged(added)
       ELSE IF ok THEN logged(StartBgsaveForReplication(added, r.capa, ok))
       ELSE StartBgsaveForReplication(added, r.capa, ok)

Sync(v, c, r, ok) ==
    IF c \in Slaves(v) THEN v
    ELSE IF v.of # None /\ v.state # "connected" THEN Send(v, c, <<[t |-> "err"]>>)
    ELSE IF CanContinue(v, r) THEN TryPartialResynchronization(v, c, r)
    ELSE FullResynchronization(v, c, r, ok)

ReplconfAck(v, c, off) ==
    IF c \notin Slaves(v) THEN v
    ELSE LET noted == [v EXCEPT !.clients[c].ack = IF off > @ THEN off ELSE @]
         IN IF noted.clients[c].onack /\ noted.clients[c].st = "online"
            THEN PutSlaveOnline(noted, c) ELSE noted

CountAcks(v, off) == Cardinality({c \in InState(v, "online") : v.clients[c].ack >= off})

-----------------------------------------------------------------------------
(* The link with the master. *)

NoMaster(v) == [v EXCEPT !.master = None, !.state = "connect", !.conn = None]
DiscardCachedMaster(v) == [v EXCEPT !.cached = None]

\* freeClient, for the master, and the end of a handshake or a transfer.
LoseMaster(v) ==
    LET shut == IF v.conn = None THEN v ELSE [v EXCEPT !.shut = @ \cup {v.conn}]
    IN IF v.master = None THEN NoMaster(shut)
       ELSE [NoMaster(shut) EXCEPT !.cached = v.master]

\* Clients that are blocked are disconnected; the client of the model starts
\* anew.
SetMaster(v, i) ==
    LET lost == FreeBacklog(DiscardCachedMaster(DisconnectSlaves(LoseMaster([v EXCEPT !.of = i]))))
    IN [lost EXCEPT !.off = 0, !.waits = 0, !.woff = [off |-> 0, len |-> 0]]

UnsetMaster(v) ==
    LET heir == IF v.master # None /\ Slaves(v) = {}
                THEN FreeBacklog([v EXCEPT !.off = v.master.off]) ELSE v
    IN [DiscardCachedMaster(LoseMaster(heir)) EXCEPT !.of = None, !.state = "none"]

SendPsync(v) ==
    LET r == IF v.cached = None THEN [run |-> None, off |-> -1]
             ELSE [run |-> v.cached.run, off |-> v.cached.off + 1]
    IN Send([v EXCEPT !.state = "psync", !.init.off = -1], v.conn,
            <<[t |-> "psync", run |-> r.run, off |-> r.off, capa |-> v.capa]>>)

\* The answer to PSYNC.  Without a partial resynchronization the own slaves
\* have to start again too.
ReadReply(v, m) ==
    LET again == FreeBacklog(DisconnectSlaves(DiscardCachedMaster([v EXCEPT !.state = "transfer"])))
    IN IF m.t = "continue"
       THEN [v EXCEPT !.master = [v.cached EXCEPT !.told = -1], !.cached = None, !.state = "connected"]
       ELSE IF m.t = "full" THEN [again EXCEPT !.init = [run |-> m.run, off |-> m.off]]
       ELSE Send(again, v.conn, <<[t |-> "sync", capa |-> v.capa]>>)

ReadPayload(v, m) ==
    IF m.t = "rdb"
    THEN [v EXCEPT !.data = m.data, !.rdb = m.data, !.state = "connected",
                   !.master = [run |-> v.init.run, off |-> v.init.off, sel |-> 0, part |-> 0,
                               pre |-> v.init.off = -1, told |-> -1]]
    ELSE LoseMaster(v)

SendAck(v) ==
    IF v.master = None THEN v
    ELSE Send([v EXCEPT !.master.told = v.master.off], v.conn,
              <<[t |-> "ack", off |-> v.master.off]>>)

\* A token of the stream.  What is in the query buffer counts as read.
ReadStream(v, m) ==
    LET u == [v EXCEPT !.master.off = @ + 1]
    IN CASE m.t = "sel"    -> [u EXCEPT !.master.sel = m.n]
         [] m.t = "head"   -> [u EXCEPT !.master.part = m.n]
         [] m.t = "tail"   -> Write([u EXCEPT !.master.part = 0], u.master.sel,
                                    IF u.master.part = m.n THEN m.n ELSE 0)
         [] m.t = "getack" -> SendAck(u)
         [] OTHER -> u
=============================================================================
