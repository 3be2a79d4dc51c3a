---------------------------- MODULE MCReplication ----------------------------
(***************************************************************************)
(* A master and up to two slaves, in plays small enough for TLC.           *)
(***************************************************************************)
EXTENDS Replication

Nothing == [writes |-> 0, waits |-> 0, slaveof |-> 0, resizes |-> 0, saves |-> 0, fails |-> 0,
            pings |-> 0, idles |-> 0, breaks |-> 0, crashes |-> 0]
Config(of) == [of |-> of, size |-> 4, diskless |-> FALSE, capa |-> TRUE]
Play(cfg, may, dbs) == [cfg |-> cfg, left |-> may @@ Nothing, dbs |-> dbs, sizes |-> {}, eager |-> FALSE, old |-> 1]

Pair == "m" :> Config(None) @@ "s" :> Config("m")
Three == Pair @@ "t" :> Config("m")
Diskless == [i \in {"m", "s", "t"} |-> [Three[i] EXCEPT !.diskless = TRUE]]

\* Two slaves arrive while a snapshot is made, or after.
Arrive == Play(Three, "writes" :> 1 @@ "saves" :> 1, {0})
\* A link breaks, and the stream goes on from a backlog of four bytes.
Break == Play(Pair, "writes" :> 3 @@ "breaks" :> 1, {0, 1})
Break2 == Play(Pair, "writes" :> 2 @@ "breaks" :> 2, {0})
Resize == [Play(Pair, "writes" :> 1 @@ "breaks" :> 1 @@ "pings" :> 1 @@ "resizes" :> 1 @@ "idles" :> 1, {0})
           EXCEPT !.sizes = {3}]
\* The payload goes to the sockets of those who can read it.
Sockets == Play([Diskless EXCEPT !["t"].capa = FALSE], "writes" :> 1, {0})
Streams == Play(Diskless, "writes" :> 1 @@ "fails" :> 1, {0})
Streams2 == Play([i \in {"m", "s"} |-> Diskless[i]], "writes" :> 2 @@ "fails" :> 1 @@ "breaks" :> 1, {0})
\* A slave of a slave.
Chain == [Play([Three EXCEPT !["t"].of = "s"], "writes" :> 2 @@ "breaks" :> 1, {0}) EXCEPT !.old = 0]
\* Servers fall and come back with what they saved.
Crashes == Play(Pair, "writes" :> 2 @@ "saves" :> 1 @@ "fails" :> 1 @@ "crashes" :> 1, {0})
\* A client waits for a slave to have its write.
Waits == [Play(Pair, "writes" :> 1 @@ "waits" :> 1 @@ "breaks" :> 1, {0}) EXCEPT !.eager = TRUE]
\* SLAVEOF.
Switch == [Play(Pair, "writes" :> 2 @@ "slaveof" :> 2 @@ "breaks" :> 1, {0}) EXCEPT !.old = 0]
Regroup == [Play(Three, "writes" :> 1 @@ "slaveof" :> 2, {0}) EXCEPT !.old = 0]

MCPlays == "arrive" :> Arrive @@ "break" :> Break @@ "break2" :> Break2 @@ "resize" :> Resize @@ "sockets" :> Sockets @@ "streams" :> Streams @@ "streams2" :> Streams2
           @@ "chain" :> Chain @@ "crashes" :> Crashes @@ "waits" :> Waits @@ "switch" :> Switch
RegroupPlays == "regroup" :> Regroup

-----------------------------------------------------------------------------
(* Properties. *)

\* What a message of the master makes of a slave's [data, sel, part].
Read(x, m) ==
    CASE m.t = "rdb"  -> [data |-> m.data, sel |-> 0, part |-> 0]
      [] m.t = "sel"  -> [x EXCEPT !.sel = m.n]
      [] m.t = "head" -> [x EXCEPT !.part = m.n]
      [] m.t = "tail" -> [x EXCEPT !.data = Append(@, <<x.sel, IF x.part = m.n THEN m.n ELSE 0>>), !.part = 0]
      [] OTHER -> x
Held(v) ==
    LET link == IF v.master # None THEN v.master ELSE v.cached
    IN IF link = None THEN [data |-> v.data, sel |-> 0, part |-> 0]
       ELSE [data |-> v.data, sel |-> link.sel, part |-> link.part]
Rdb(data) == <<[t |-> "rdb", data |-> data]>>
\* What the master m still has to send to its slave on c.
Pending(m, c) ==
    LET k == m.clients[c]
        payload == CASE k.st = "bulk" -> Rdb(k.file)
                     [] k.st = "end" /\ (m.child.type = "disk" \/ c \in m.child.to) -> Rdb(m.child.data)
                     [] OTHER -> <<>>
    IN payload \o k.out

\* Once a master has begun to count a slave in, the snapshot, the output
\* buffer, the backlog and what is on its way make of the slave's data exactly
\* its own: no write is missing, doubled, torn or in another database
\* (replicationFeedSlaves, syncCommand, updateSlavesWaitingBgsave).
StreamFaithful ==
    \A c \in Conns :
       LET k == conn[c] IN
       k.mopen /\ k.sopen /\ server[k.s].conn = c /\ c \in Slaves(server[k.m]) \ InState(server[k.m], "start")
          => FoldLeft(Read, Held(server[k.s]), k.down \o Pending(server[k.m], c)).data = server[k.m].data

\* A slave that has acknowledged the offset of a client's write has it, and all
\* before it: what WAIT promises (replicationCountAcksByOffset).
AckedIsHeld ==
    \A c \in Conns :
       LET k == conn[c] IN
       k.mopen /\ k.sopen /\ server[k.s].conn = c /\ IsMaster(k.m) /\ c \in InState(server[k.m], "online")
         => LET w == server[k.m].woff IN
            w.off > 0 /\ server[k.m].clients[c].ack >= w.off
               => IsPrefix(SubSeq(server[k.m].data, 1, w.len), server[k.s].data)

\* A slave that is told to continue goes on from what its master has: a server
\* that follows a new master does not "allow our chained slaves to PSYNC"
\* (replicationSetMaster).
ContinuesInStep ==
    \A c \in Conns :
       LET k == conn[c] IN
       k.mopen /\ k.sopen /\ c \in Slaves(server[k.m]) /\ k.down # <<>> /\ k.down[1].t = "continue"
          => FoldLeft(Read, Held(server[k.s]), k.down \o Pending(server[k.m], c)).data = server[k.m].data

\* Weak fairness, written out, of what the event loop, the timer and the child
\* of i do for its own link (Follow) and for its clients (Serve): "Due" says
\* that one of them is enabled.
FollowDue(i) ==
    LET v == server[i] IN
    \/ ~v.up
    \/ CanConnect(i)
    \/ AckDue(i)
    \/ CanTimeOut(i)
    \/ /\ v.conn # None
       /\ \/ Link(i).mopen /\ v.state = "handshake"
          \/ Link(i).down # <<>>
          \/ ~Link(i).mopen /\ ~HeldByChild(v.conn)
Follow(i) ==
    \/ CronConnect(i) \/ CronAck(i) \/ CronTransferTimeout(i)
    \/ SyncWithMaster(i) \/ ReadDown(i) \/ ReadClosed(i) \/ Restart(i)
ServeDue(i) ==
    LET v == server[i] IN
    \/ v.getack \/ (v.waits > 0 /\ CountAcks(v, v.woff.off) >= 1)
    \/ v.child.type # "none" \/ InState(v, "start") # {} \/ InState(v, "bulk") # {}
    \/ \E c \in Conns : conn[c].m = i /\ conn[c].mopen /\ (conn[c].up # <<>> \/ ~conn[c].sopen)
Serve(i) ==
    \/ BeforeSleep(i) \/ ChildSaves(i) \/ ReapDisk(i) \/ ReapSocket(i) \/ CronStartBgsave(i)
    \/ \E c \in Conns : ChildSends(i, c) \/ SendBulkToSlave(i, c) \/ ReadUp(i, c) \/ ReadUpClosed(i, c)
Fairness ==
    \/ <>[](\A i \in Servers : ~FollowDue(i) /\ ~ServeDue(i))
    \/ \A i \in {"m", "s", "t"} :
          /\ []<><<(i \in Servers => ~FollowDue(i)) \/ Follow(i)>>_vars
          /\ []<><<(i \in Servers => ~ServeDue(i)) \/ Serve(i)>>_vars

LiveSpec == Spec /\ Fairness

\* However often links break, children fail and servers crash, a slave comes to
\* have what its master has (syncWithMaster, replicationCron).  A slave whose snapshot
\* could not be forked hears nothing of it and starts again after its own timeout.
InStep(i) == server[i].up /\ server[i].state = "connected" /\ server[i].data = server[server[i].of].data
CatchUp == <>[](\A i \in Servers : server[i].of # None => InStep(i))
=============================================================================
