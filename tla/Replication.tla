----------------------------- MODULE Replication -----------------------------
(***************************************************************************)
(* Servers that replicate one another over connections that break: the     *)
(* handshake, full and partial resynchronization, snapshots on disk and to *)
(* sockets, the stream and its acknowledgements, WAIT, SLAVEOF, and        *)
(* crashes.  A play (a scenario) says which servers there are, how they    *)
(* are configured, and how often each disturbance may happen.              *)
(***************************************************************************)
EXTENDS ReplicationState

CONSTANTS Plays     \* name |-> [cfg |-> server |-> configuration, left, dbs, sizes,
                    \*         eager, old]
\* How often it may happen, of each.
Disturbances == {"writes", "waits", "slaveof", "resizes", "saves", "fails",
                 "pings", "idles", "breaks", "crashes"}
\* A backlog has room for a byte at least (CONFIG_REPL_BACKLOG_MIN_SIZE).
ASSUME PlaysAssumption ==
    \A p \in DOMAIN Plays :
       /\ Plays[p].left \in [Disturbances -> Nat]
       /\ Plays[p].sizes \subseteq Nat \ {0}
       /\ \A i \in DOMAIN Plays[p].cfg : Plays[p].cfg[i].size \in Nat \ {0}

VARIABLES play,     \* the name of the play
          server,   \* name of a server |-> its state (see Started)
          conn,     \* connection |-> its two ends and what is on its way
          left      \* what may still happen, and how often

vars == <<play, server, conn, left>>

Servers == DOMAIN server
P == Plays[play]

\* s: the slave, m: the master; down: what the master sent, up: the slave.
Free == [s |-> None, m |-> None, sopen |-> FALSE, mopen |-> FALSE, down |-> <<>>, up |-> <<>>]
IsOpen(k) == k.sopen \/ k.mopen
\* The child that writes to the sockets has a copy of them.
HeldByChild(c) == \E i \in Servers : c \in server[i].child.to
FreeConns == {c \in Conns : ~IsOpen(conn[c]) /\ ~HeldByChild(c)}
Link(i) == conn[server[i].conn]

Init == /\ play \in DOMAIN Plays
        /\ server = [i \in DOMAIN P.cfg |-> Started(<<i, 0>>, <<>>, P.cfg[i])]
        /\ conn = [c \in Conns |-> Free]
        /\ left = P.left

-----------------------------------------------------------------------------
(* What server i did to its connections.  What is sent to a closed end is  *)
(* lost; a closed end reads nothing more, the other end reads what was     *)
(* sent before.                                                            *)

Sent(k, i, msgs) ==
    IF i = k.m /\ k.mopen /\ k.sopen THEN [k EXCEPT !.down = @ \o msgs]
    ELSE IF i = k.s /\ k.mopen /\ k.sopen THEN [k EXCEPT !.up = @ \o msgs] ELSE k
Shut(k, i) ==
    LET shut == IF i = k.m THEN [k EXCEPT !.mopen = FALSE, !.up = <<>>]
                ELSE [k EXCEPT !.sopen = FALSE, !.down = <<>>]
    IN IF IsOpen(shut) THEN shut ELSE Free
Wired(k, i, msgs, shut) == LET sent == Sent(k, i, msgs) IN IF shut THEN Shut(sent, i) ELSE sent

Settled(u) == [u EXCEPT !.sent = [c \in Conns |-> <<>>], !.shut = {}]
\* Server i becomes u; k is the state of the connections before.
PutOn(k, i, u) ==
    /\ server' = [server EXCEPT ![i] = Settled(u)]
    /\ conn' = [c \in Conns |-> IF c \in u.shut \/ u.sent[c] # <<>>
                                THEN Wired(k[c], i, u.sent[c], c \in u.shut) ELSE k[c]]
    /\ UNCHANGED play
Put(i, u) == PutOn(conn, i, u)
Spend(what) == left[what] > 0 /\ left' = [left EXCEPT ![what] = @ - 1]
Forks == {TRUE} \cup (IF left.fails > 0 THEN {FALSE} ELSE {})
\* A fork that fails is paid for.
Paid(ok) == left' = IF ok THEN left ELSE [left EXCEPT !.fails = @ - 1]

-----------------------------------------------------------------------------
(* Clients. *)

IsMaster(i) == server[i].up /\ server[i].of = None

\* Slaves are read only.
ClientWrite(i, d) ==
    /\ IsMaster(i)
    /\ Spend("writes")
    /\ \E u \in {Write(server[i], d, left.writes)} :
         Put(i, [u EXCEPT !.woff = [off |-> u.off, len |-> Len(u.data)]])

\* WAIT for more slaves than have what was last written blocks the client.
ClientWait(i) ==
    /\ IsMaster(i)
    /\ Spend("waits")
    /\ CountAcks(server[i], server[i].woff.off) < 1
    /\ Put(i, [server[i] EXCEPT !.waits = @ + 1, !.getack = TRUE])

\* beforeSleep
BeforeSleep(i) ==
    LET v == server[i]
        served == v.waits > 0 /\ CountAcks(v, v.woff.off) >= 1
        asked == IF v.getack THEN FeedSlaves([v EXCEPT !.getack = FALSE], v.seldb, <<GetAck>>) ELSE v
    IN /\ v.up
       /\ v.getack \/ served
       /\ \E u \in {IF served THEN [asked EXCEPT !.waits = 0] ELSE asked} : Put(i, u)
       /\ UNCHANGED left

\* Bound: no ring, in which a write would go round for ever.
Follows(j, i) == server[j].of = i \/ (server[j].of # None /\ server[server[j].of].of = i)
SlaveOf(i, j) ==
    /\ server[i].up /\ i # j /\ server[i].of # j /\ ~Follows(j, i)
    /\ Spend("slaveof")
    /\ \E u \in {SetMaster(server[i], j)} : Put(i, u)

SlaveOfNoOne(i) ==
    /\ server[i].up /\ server[i].of # None
    /\ Spend("slaveof")
    /\ \E u \in {UnsetMaster(server[i])} : Put(i, u)

ConfigBacklog(i, size) ==
    /\ server[i].up /\ server[i].size # size
    /\ Spend("resizes")
    /\ Put(i, ResizeBacklog(server[i], size))

-----------------------------------------------------------------------------
(* Snapshots. *)

\* BGSAVE, and the save points of serverCron.
BgSave(i) ==
    /\ server[i].up /\ server[i].child.type = "none"
    /\ Spend("saves")
    /\ Put(i, SaveBackground(server[i]))

\* SAVE, SHUTDOWN and DEBUG RELOAD save in the foreground.
Save(i) ==
    /\ server[i].up /\ server[i].child.type = "none"
    /\ Spend("saves")
    /\ Put(i, [server[i] EXCEPT !.rdb = server[i].data, !.dirty = 0])

\* The child renames its file over dump.rdb and ends.
ChildSaves(i) ==
    /\ server[i].up /\ server[i].child.type = "disk" /\ ~server[i].child.done
    /\ Put(i, [server[i] EXCEPT !.rdb = server[i].child.data, !.child.done = TRUE])
    /\ UNCHANGED left

\* serverCron finds that the child has ended.
ReapDisk(i) ==
    /\ server[i].up /\ server[i].child.type = "disk"
    /\ \E ok \in Forks :
         /\ server[i].child.done
         /\ \E u \in {DoneDisk(server[i], TRUE, ok)} : Put(i, u)
         /\ Paid(ok)
ReapKilled(i) ==
    /\ server[i].up /\ server[i].child.type = "disk" /\ ~server[i].child.done
    /\ Spend("fails")
    /\ \E u \in {DoneDisk(server[i], FALSE, TRUE)} : Put(i, u)

\* The child has written all of its payload to c.
ChildSends(i, c) ==
    /\ server[i].up /\ c \in server[i].child.to
    /\ server' = [server EXCEPT ![i].child.to = @ \ {c},
                                ![i].child.got = IF conn[c].sopen THEN @ \cup {c} ELSE @]
    /\ conn' = [conn EXCEPT ![c].down =
                   IF conn[c].sopen THEN Append(@, [t |-> "rdb", data |-> server[i].child.data]) ELSE @]
    /\ UNCHANGED <<play, left>>

ReapSocket(i) ==
    /\ server[i].up /\ server[i].child.type = "socket" /\ server[i].child.to = {}
    /\ \E ok \in Forks :
         /\ \E u \in {DoneSocket(server[i], server[i].child.got, ok)} : Put(i, u)
         /\ Paid(ok)
\* A child that is killed reports nothing.
ReapKilledSocket(i) ==
    /\ server[i].up /\ server[i].child.type = "socket"
    /\ Spend("fails")
    /\ \E u \in {DoneSocket(server[i], {}, TRUE)} : Put(i, u)

\* The whole file has been sent.
SendBulkToSlave(i, c) ==
    /\ server[i].up /\ c \in InState(server[i], "bulk")
    /\ \E u \in {Send(server[i], c, <<[t |-> "rdb", data |-> server[i].clients[c].file]>>)} :
         Put(i, PutSlaveOnline([u EXCEPT !.clients[c].file = <<>>], c))
    /\ UNCHANGED left

-----------------------------------------------------------------------------
(* replicationCron, once a second. *)

\* Bound: at most P.old old connections of i are still open at a master.
CanConnect(i) ==
    /\ server[i].up /\ server[i].state = "connect" /\ server[server[i].of].up
    /\ FreeConns # {} /\ Cardinality({c \in Conns : conn[c].s = i}) <= P.old
CronConnect(i) ==
    /\ CanConnect(i)
    /\ LET c == CHOOSE x \in FreeConns : \A y \in FreeConns : x <= y
       IN /\ conn' = [conn EXCEPT ![c] = [Free EXCEPT !.s = i, !.m = server[i].of,
                                                      !.sopen = TRUE, !.mopen = TRUE]]
          /\ server' = [server EXCEPT ![i].state = "handshake", ![i].conn = c]
    /\ UNCHANGED <<play, left>>

\* An acknowledgement that changes nothing at the master is left out, and, but
\* in an eager play, one that the next token or the next read would overtake.
Awaited(c) ==
    LET m == server[conn[c].m] IN c \in InState(m, "online") /\ m.clients[c].onack /\ conn[c].up = <<>>
AckDue(i) ==
    /\ server[i].up /\ server[i].master # None /\ ~server[i].master.pre
    /\ server[i].master.told # server[i].master.off \/ Awaited(server[i].conn)
    /\ P.eager \/ (Link(i).up = <<>> /\ Link(i).down = <<>>)
CronAck(i) ==
    /\ AckDue(i)
    /\ Put(i, SendAck(server[i]))
    /\ UNCHANGED left

CronPing(i) ==
    /\ server[i].up /\ (Slaves(server[i]) # {} \/ server[i].log.on)
    /\ Spend("pings")
    /\ \E u \in {FeedSlaves(server[i], server[i].seldb, <<Ping>>)} : Put(i, u)

CronStartBgsave(i) ==
    /\ server[i].up /\ server[i].child.type = "none" /\ InState(server[i], "start") # {}
    /\ \E ok \in Forks :
         /\ \E u \in {StartBgsaveForReplication(server[i], CapaOfWaiting(server[i]), ok)} : Put(i, u)
         /\ Paid(ok)

CronFreeBacklog(i) ==
    /\ server[i].up /\ Slaves(server[i]) = {} /\ server[i].log.on
    /\ Spend("idles")
    /\ Put(i, FreeBacklog(server[i]))

\* A slave that waits for an answer or a payload, of a master that has neither and
\* sends it no newlines either: it is none of its slaves.
CanTimeOut(i) ==
    /\ server[i].up /\ server[i].state \in {"psync", "transfer"} /\ server[i].conn # None
    /\ Link(i).mopen /\ Link(i).up = <<>> /\ Link(i).down = <<>>
    /\ server[i].conn \notin Slaves(server[Link(i).m])
CronTransferTimeout(i) ==
    /\ CanTimeOut(i)
    /\ Put(i, LoseMaster(server[i]))
    /\ UNCHANGED left

\* The other timeouts, and the errors of a network that is cut.
CronMasterTimeout(i) ==
    /\ server[i].up /\ server[i].conn # None
    /\ Spend("breaks")
    /\ Put(i, LoseMaster(server[i]))
CronSlaveTimeout(i, c) ==
    /\ server[i].up /\ c \in Slaves(server[i])
    /\ Spend("breaks")
    /\ Put(i, FreeSlaves(server[i], {c}))

-----------------------------------------------------------------------------
(* The event loop. *)

\* PING, AUTH and REPLCONF are answered.
SyncWithMaster(i) ==
    /\ server[i].up /\ server[i].state = "handshake" /\ Link(i).mopen
    /\ \E u \in {SendPsync(server[i])} : Put(i, u)
    /\ UNCHANGED left

\* A slave reads what its master sent next.
ReadDown(i) ==
    /\ server[i].up /\ server[i].state \in {"psync", "transfer", "connected"}
    /\ server[i].conn # None /\ Link(i).down # <<>>
    /\ LET m == Head(Link(i).down)
           k == [conn EXCEPT ![server[i].conn].down = Tail(@)]
       IN \E u \in {CASE server[i].state = "psync"     -> ReadReply(server[i], m)
                      [] server[i].state = "transfer"  -> ReadPayload(server[i], m)
                      [] server[i].state = "connected" -> ReadStream(server[i], m)} : PutOn(k, i, u)
    /\ UNCHANGED left

ReadClosed(i) ==
    /\ server[i].up /\ server[i].conn # None
    /\ ~Link(i).mopen /\ Link(i).down = <<>> /\ ~HeldByChild(server[i].conn)
    /\ Put(i, LoseMaster(server[i]))
    /\ UNCHANGED left

\* A master reads what a slave sent next.
ReadUp(i, c) ==
    /\ conn[c].m = i /\ conn[c].mopen /\ conn[c].up # <<>>
    /\ LET m == Head(conn[c].up)
           k == [conn EXCEPT ![c].up = Tail(@)]
       IN IF m.t = "ack"
          THEN /\ \E u \in {ReplconfAck(server[i], c, m.off)} : PutOn(k, i, u)
               /\ UNCHANGED left
          ELSE \E ok \in Forks : /\ \E u \in {Sync(server[i], c, m, ok)} : PutOn(k, i, u)
                                 /\ Paid(ok)

ReadUpClosed(i, c) ==
    /\ conn[c].m = i /\ conn[c].mopen /\ ~conn[c].sopen /\ conn[c].up = <<>>
    /\ Put(i, FreeSlaves(server[i], {c}))
    /\ UNCHANGED left

-----------------------------------------------------------------------------
(* Crashes. *)

Crash(i) ==
    /\ server[i].up
    /\ Spend("crashes")
    /\ server' = [server EXCEPT ![i] = [Started(server[i].run, server[i].rdb, P.cfg[i])
                                          EXCEPT !.up = FALSE]]
    /\ conn' = [c \in Conns |-> IF i \in {conn[c].s, conn[c].m} THEN Shut(conn[c], i) ELSE conn[c]]
    /\ UNCHANGED play

Restart(i) ==
    /\ ~server[i].up
    /\ server' = [server EXCEPT ![i] = Started(<<i, server[i].run[2] + 1>>, server[i].rdb, P.cfg[i])]
    /\ UNCHANGED <<play, conn, left>>

-----------------------------------------------------------------------------
Next ==
    \/ \E i \in Servers :
         \/ \E d \in P.dbs : ClientWrite(i, d)
         \/ ClientWait(i) \/ BeforeSleep(i)
         \/ \E j \in Servers : SlaveOf(i, j)
         \/ SlaveOfNoOne(i)
         \/ \E size \in P.sizes : ConfigBacklog(i, size)
         \/ BgSave(i) \/ Save(i) \/ ChildSaves(i) \/ ReapDisk(i) \/ ReapKilled(i)
         \/ ReapSocket(i) \/ ReapKilledSocket(i)
         \/ CronConnect(i) \/ CronAck(i) \/ CronPing(i) \/ CronStartBgsave(i) \/ CronFreeBacklog(i)
         \/ CronTransferTimeout(i) \/ CronMasterTimeout(i)
         \/ SyncWithMaster(i) \/ ReadDown(i) \/ ReadClosed(i)
         \/ Crash(i) \/ Restart(i)
    \/ \E i \in Servers, c \in Conns :
         \/ ChildSends(i, c) \/ SendBulkToSlave(i, c) \/ CronSlaveTimeout(i, c)
         \/ ReadUp(i, c) \/ ReadUpClosed(i, c)

Spec == Init /\ [][Next]_vars

-----------------------------------------------------------------------------
(* The dump file and the backlog. *)

\* No server was given another master.
NotMoved == left.slaveof = P.left.slaveof

\* The count of changes since the last save is 0 only if the dump file of a
\* master has every write, so that no save point is missed
\* (rdbSaveBackground, backgroundSaveDoneHandlerDisk).  Not so of a server that
\* was a slave before: a payload it loads while its child saves is not known to
\* the child, which then renames an older file over dump.rdb
\* (readSyncBulkPayload).
DirtyCounts ==
    NotMoved => \A i \in Servers :
       IsMaster(i) /\ ~server[i].child.done
          => (server[i].dirty = 0 => server[i].rdb = server[i].data)

\* What makes DirtyCounts inductive: what the child of a master saves, and the
\* count of when it began.
DumpKnown(v) ==
    LET k == v.child IN
    /\ v.dirty \in Nat
    /\ DOMAIN k = DOMAIN NoChild /\ k.done \in BOOLEAN
    /\ IF k.type = "disk"
       THEN /\ k.before \in 0..v.dirty
            /\ v.dirty = k.before => v.data = k.data
            /\ IF k.done THEN v.rdb = k.data ELSE v.dirty = 0 => v.rdb = v.data
       ELSE ~k.done /\ (v.dirty = 0 => v.rdb = v.data)

\* The index is inside the backlog, and what was not yet written to lies after
\* it (feedReplicationBacklog).
LogInRange(l, size) ==
    /\ l = [on |-> TRUE, buf |-> l.buf, idx |-> l.idx, histlen |-> l.histlen, first |-> l.first]
    /\ l.buf = [k \in 0..(size - 1) |-> l.buf[k]]
    /\ l.idx \in 0..(size - 1)
    /\ l.histlen \in 0..size
    /\ l.histlen < size => l.idx = l.histlen
BacklogInRange(v) ==
    /\ v.size \in Nat \ {0}
    /\ v.log.on => LogInRange(v.log, v.size)

\* The offset of its first byte, its length and the offset of the server agree.
BacklogAgrees(v) ==
    /\ v.off \in Nat
    /\ v.log.on => v.log.histlen <= v.off /\ v.log.first = v.off - v.log.histlen + 1

BacklogInv == \A i \in Servers : BacklogInRange(server[i])
OffsetsAgree == NotMoved => \A i \in Servers : BacklogAgrees(server[i])
LeftInv == /\ play \in DOMAIN Plays /\ DOMAIN server = DOMAIN P.cfg
           /\ left \in [Disturbances -> Nat] /\ left.slaveof <= P.left.slaveof
=============================================================================
