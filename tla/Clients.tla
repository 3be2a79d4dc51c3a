------------------------------ MODULE Clients ------------------------------
(***************************************************************************)
(* The event loop, and the clients that it serves.  Each iteration ends    *)
(* with what serverCron does for clients when its time has come, and       *)
(* begins with the clients that were unblocked; in between the sockets     *)
(* that are ready are served, in any order, each read before it is         *)
(* written, and one command of a query buffer is processed after the       *)
(* other.                                                                  *)
(* A play says what the clients send: a sequence of packets each, with one *)
(* or more commands in a packet.                                           *)
(***************************************************************************)
EXTENDS Connections

CONSTANTS Plays

VARIABLES s,     \* the server
          net,   \* per client: what it has still to send, what is on its way, whether it is there
          at     \* where the loop is: its stage, what is ready, whose turn it is, and who is in
               \* processInputBuffer

vars == <<s, net, at>>

\* What a client may send; the names of keys, channels and clients exist.
Ops == {"set", "del", "rename", "flush", "push", "pop", "rpoplpush", "bpop", "brpoplpush", "multi", "exec",
        "discard", "watch", "unwatch", "subscribe", "unsubscribe", "psubscribe", "punsubscribe", "publish",
        "pause", "kill", "slaveof", "quit", "nosuch", "noise", "part"}
WellFormed(cmd) ==
    /\ cmd.op \in Ops
    /\ cmd.op \in {"set", "del", "watch", "push", "pop", "rename", "rpoplpush", "brpoplpush"} => cmd.k \in Keys
    /\ cmd.op \in {"rename", "rpoplpush", "brpoplpush"} => cmd.dst \in Keys
    /\ cmd.op = "bpop" => cmd.keys \in Seq(Keys)
    /\ cmd.op \in {"subscribe", "unsubscribe", "publish"} => cmd.ch \in Channels
    /\ cmd.op \in {"psubscribe", "punsubscribe"} => cmd.p \in SUBSET Channels
    /\ cmd.op = "kill" => cmd.who \in Clients
SentBy(p, c) == UNION {ToSet(Plays[p].sends[c][i]) : i \in DOMAIN Plays[p].sends[c]}
\* What the lists are made of.
Elements ==
    UNION {{cmd.v : cmd \in {d \in UNION {SentBy(p, c) : c \in Clients} : d.op = "push"}}
             \cup UNION {ToSet(Items(Plays[p].db[k])) : k \in Keys} : p \in DOMAIN Plays}

\* A key that is not there, a text and a list are three things.
ASSUME ValuesAssumption == /\ NoKey # Text /\ <<>> \notin {NoKey, Text}
                           /\ \A v \in {NoKey, Text} : v \notin Seq(Elements)
\* There are finitely many connections (maxclients, redis.c).
ASSUME ClientsAssumption == IsFiniteSet(Clients)
\* What a play has clients send is well-formed, and a master sends writes and what
\* goes with them: SLAVEOF is not replicated (redisCommandTable, redis.c).
ASSUME PlaysAssumption ==
    \A p \in DOMAIN Plays :
      /\ Plays[p].db \in [Keys -> {NoKey, Text} \cup (Seq(Elements) \ {<<>>})]
      /\ \A c \in Clients :
           /\ Plays[p].sends[c] \in Seq(Seq(SentBy(p, c)))
           /\ \A cmd \in SentBy(p, c) : WellFormed(cmd) /\ (c \in Plays[p].master => cmd.op # "slaveof")

-----------------------------------------------------------------------------
(* Commands. *)

Flushed(v) == [v EXCEPT !.db = [k \in Keys |-> NoKey],
                        !.gone = @ \cup UNION {ToSet(Items(v.db[k])) : k \in Keys}]

SetCommand(v, c, cmd) ==
    LET t == [v EXCEPT !.gone = @ \cup ToSet(Items(v.db[cmd.k])), !.db[cmd.k] = Text]
    IN Propagate(Reply(TouchWatchedKey(t, cmd.k), c, "ok"), cmd)
DelCommand(v, c, cmd) ==
    IF v.db[cmd.k] = NoKey THEN Reply(v, c, "int")
    ELSE Propagate(Reply(TouchWatchedKey(DbDelete(v, cmd.k), cmd.k), c, "int"), cmd)
\* The old key goes last; dst is deleted first and added as new.
RenameCommand(v, c, cmd) ==
    LET t == DbAdd(DbDelete(v, cmd.dst), cmd.dst, v.db[cmd.k])
        u == TouchWatchedKey(TouchWatchedKey([t EXCEPT !.db[cmd.k] = NoKey], cmd.k), cmd.dst)
    IN IF v.db[cmd.k] = NoKey \/ cmd.k = cmd.dst THEN Reply(v, c, "err")
       ELSE Propagate(Reply(u, c, "ok"), cmd)
FlushallCommand(v, c, cmd) ==
    Propagate(Reply(Flushed(TouchWatchedKeysOnFlush(v)), c, "ok"), cmd)

\* Fault: the clients that wait go on to.
ReplicationSetMaster_Waits(v) == [v EXCEPT !.slave = TRUE]
\* Of replicationSetMaster, what its clients see.
ReplicationSetMaster(v) == DisconnectAllBlockedClients([v EXCEPT !.slave = TRUE])
\* The copy is that of the slaves that come to the new master.
ReplicationUnsetMaster(v) ==
    LET t == ForEach(v, v.clients, LAMBDA u, c : IF Has(u, c, "master") THEN FreeClient(u, c) ELSE u)
    IN [t EXCEPT !.slave = FALSE, !.copy = t.db]
SlaveofCommand(v, c, cmd) ==
    LET t == IF cmd.on /\ ~v.slave THEN ReplicationSetMaster(v)
             ELSE IF ~cmd.on /\ v.slave THEN ReplicationUnsetMaster(v) ELSE v
    IN Reply(t, c, "ok")

Until(v, n) == IF n = 0 THEN 0 ELSE v.now + n

\* cmd->proc(c), of a command but EXEC.
Run(v, c, cmd) ==
    CASE cmd.op = "set" -> SetCommand(v, c, cmd)
      [] cmd.op = "del" -> DelCommand(v, c, cmd)
      [] cmd.op = "rename" -> RenameCommand(v, c, cmd)
      [] cmd.op = "flush" -> FlushallCommand(v, c, cmd)
      [] cmd.op = "push" -> PushCommand(v, c, cmd)
      [] cmd.op = "pop" -> PopCommand(v, c, cmd)
      [] cmd.op = "rpoplpush" -> RpopLpushCommand(v, c, cmd)
      [] cmd.op = "bpop" -> BlockingPop(v, c, cmd, Until(v, cmd.timeout))
      [] cmd.op = "brpoplpush" -> BrpopLpushCommand(v, c, cmd, Until(v, cmd.timeout))
      [] cmd.op = "multi" -> MultiCommand(v, c)
      [] cmd.op = "discard" -> DiscardCommand(v, c)
      [] cmd.op = "watch" -> WatchCommand(v, c, cmd.k)
      [] cmd.op = "unwatch" -> UnwatchCommand(v, c)
      [] cmd.op = "subscribe" -> SubscribeCommand(v, c, cmd.ch)
      [] cmd.op = "unsubscribe" -> UnsubscribeCommand(v, c, cmd.ch)
      [] cmd.op = "psubscribe" -> PsubscribeCommand(v, c, cmd.p)
      [] cmd.op = "punsubscribe" -> PunsubscribeCommand(v, c, cmd.p)
      [] cmd.op = "publish" -> PublishCommand(v, c, cmd.ch)
      [] cmd.op = "pause" -> Reply(PauseClients(v, v.now + cmd.n), c, "ok")
      [] cmd.op = "kill" -> ClientKill(v, c, cmd.who)
      [] cmd.op = "slaveof" -> SlaveofCommand(v, c, cmd)

\* What comes of the master is what its data is, too.
Call(v, c, cmd) ==
    Run(IF Has(v, c, "master") THEN [v EXCEPT !.copy = Effect(@, cmd)] ELSE v, c, cmd)

ExecCommand(v, c) ==
    LET all(u) == ForEach(u, v.c[c].queue, LAMBDA w, cmd : Call(w, c, cmd))
    IN IF ~Has(v, c, "multi") THEN Reply(v, c, "err")
       ELSE IF Has(v, c, "dirty_exec") THEN DiscardTransaction(Reply(v, c, "abort"), c)
       ELSE IF Has(v, c, "dirty_cas") THEN DiscardTransaction(Reply(v, c, "nil"), c)
       ELSE DiscardTransaction(all(Reply(UnwatchAllKeys(v, c), c, "exec")), c)

Writes == {"set", "del", "rename", "flush", "push", "pop", "rpoplpush", "bpop", "brpoplpush"}
OfSubscribers == {"subscribe", "unsubscribe", "psubscribe", "punsubscribe"}
NotQueued == {"exec", "discard", "multi", "watch"}

\* processCommand.
ProcessCommand(v, c, cmd) ==
    CASE cmd.op = "quit" -> Raise(Reply(v, c, "ok"), c, "close_after_reply")
      [] cmd.op = "nosuch" -> Reply(FlagTransaction(v, c), c, "err")
      [] v.slave /\ ~Has(v, c, "master") /\ cmd.op \in Writes -> Reply(v, c, "err")
      [] Has(v, c, "pubsub") /\ cmd.op \notin OfSubscribers \cup {"quit", "nosuch"} -> Reply(v, c, "err")
      [] OTHER -> IF Has(v, c, "multi") /\ cmd.op \notin NotQueued THEN QueueMultiCommand(v, c, cmd)
                  ELSE HandleClientsBlockedOnLists(IF cmd.op = "exec" THEN ExecCommand(v, c) ELSE Call(v, c, cmd))

-----------------------------------------------------------------------------
(* The world outside. *)

\* acceptCommonHandler; the link with the master is there once there is one.
Accept(c) ==
    /\ at.stage = "poll" /\ ~net[c].here /\ net[c].todo # <<>>
    /\ net[c].master => s.slave
    /\ net' = [net EXCEPT ![c].here = TRUE]
    /\ s' = [s EXCEPT !.c[c] = Connection(IF net[c].master THEN {"master"} ELSE {}),
                      !.clients = Append(@, c)]
    /\ UNCHANGED at

\* A client sends its next packet; one that will not send again may leave.
Arrive(c) ==
    /\ at.stage = "poll" /\ net[c].here /\ net[c].todo # <<>>
    /\ net' = [net EXCEPT ![c].todo = Tail(@), ![c].sock = @ \o Head(net[c].todo)]
    /\ UNCHANGED <<s, at>>

Leave(c) ==
    /\ at.stage = "poll" /\ net[c].here /\ net[c].leaves /\ net[c].todo = <<>>
    /\ net' = [net EXCEPT ![c].here = FALSE]
    /\ UNCHANGED <<s, at>>

-----------------------------------------------------------------------------
(* The event loop. *)

\* beforeSleep: processUnblockedClients takes the next one.
Unblocked ==
    /\ at.stage = "sleep" /\ at.cur = None /\ s.unblocked # <<>>
    /\ s' = Clear([s EXCEPT !.unblocked = Tail(@)], Head(s.unblocked), {"unblocked"})
    /\ at' = [at EXCEPT !.cur = Head(s.unblocked)]
    /\ UNCHANGED net
Sleep ==
    /\ at.stage = "sleep" /\ at.cur = None /\ s.unblocked = <<>>
    /\ at' = [at EXCEPT !.stage = "poll"]
    /\ UNCHANGED <<s, net>>

Readable == {c \in Clients : s.c[c].up /\ (net[c].sock # <<>> \/ ~net[c].here)}
Writable == {c \in Clients : s.c[c].up /\ s.c[c].out # <<>> /\ ~(net[c].slow /\ net[c].here)}
Ready == (Readable \X {"read"}) \cup (Writable \X {"write"})

\* There is something that time will bring about.
TimeMatters ==
    \/ s.paused \/ s.toclose # <<>>
    \/ \E c \in Clients : Has(s, c, "blocked") /\ s.c[c].timeout # 0

\* aeApiPoll returns with the sockets that are ready, and the cron may be due.
Poll ==
    /\ at.stage = "poll"
    /\ \E due \in BOOLEAN :
         /\ IF due THEN TimeMatters ELSE Ready # {}
         /\ at' = [at EXCEPT !.stage = "events", !.fired = Ready, !.due = due]
         /\ s' = IF due THEN [s EXCEPT !.now = @ + 1] ELSE s
    /\ UNCHANGED net

\* One handler of a socket: reading comes first, and writing at once after it.
Event(c, e) ==
    /\ at.stage = "events" /\ at.cur = None /\ <<c, e>> \in at.fired
    /\ at.turn \in {None, c} /\ (e = "write" => <<c, "read">> \notin at.fired)
    /\ LET left == at.fired \ {<<c, e>>}
           turn == IF <<c, "write">> \in left THEN c ELSE None
       IN IF ~s.c[c].up
          THEN at' = [at EXCEPT !.fired = left, !.turn = turn] /\ UNCHANGED <<s, net>>
          ELSE IF e = "read"
          THEN /\ s' = ReadQuery(s, c, net[c].sock)
               /\ net' = [net EXCEPT ![c].sock = <<>>]
               /\ at' = [at EXCEPT !.fired = left, !.turn = turn, !.cur = IF s'.c[c].up THEN c ELSE None]
          ELSE /\ s' \in {SendReplyToClient(s, c)} \cup (IF net[c].here THEN {} ELSE {FreeClient(s, c)})
               /\ at' = [at EXCEPT !.fired = left, !.turn = turn]
               /\ UNCHANGED net

\* One turn of the loop of processInputBuffer.
Process(c) ==
    /\ at.cur = c
    /\ \E v \in {IF s.c[c].in # <<>> THEN EndPause(s) ELSE s} :
         IF MayProcess(v, c)
         THEN /\ \E cmd \in {NextCommand(v.c[c].in)} :
                   s' = IF cmd.op = "noise" THEN SetProtocolError(v, c)
                        ELSE ProcessCommand(Consume(v, c), c, cmd)
              /\ UNCHANGED at
         ELSE s' = v /\ at' = [at EXCEPT !.cur = None]
    /\ UNCHANGED net

\* serverCron, as far as clients are concerned.
Cron ==
    /\ at.stage = "events" /\ at.cur = None /\ at.fired = {}
    /\ s' = IF at.due
            THEN EndPause(FreeClientsInAsyncFreeQueue(ForEach([s EXCEPT !.mstime = s.now], s.clients, HandleTimeout)))
            ELSE s
    /\ at' = [at EXCEPT !.stage = "sleep", !.due = FALSE]
    /\ UNCHANGED net

-----------------------------------------------------------------------------

\* One who has nothing to send was never there.
Init ==
    \E p \in DOMAIN Plays :
      /\ s = [c |-> [c \in Clients |-> [Connection({}) EXCEPT !.up = FALSE]], clients |-> <<>>,
              db |-> Plays[p].db, copy |-> Plays[p].db,
              pushed |-> UNION {ToSet(Items(Plays[p].db[k])) : k \in Keys}, gone |-> {},
              watchers |-> [k \in Keys |-> <<>>], waiting |-> [k \in Keys |-> <<>>],
              ready |-> <<>>, isready |-> {},
              channels |-> [ch \in Channels |-> <<>>], patterns |-> <<>>,
              unblocked |-> <<>>, toclose |-> <<>>, slave |-> FALSE,
              paused |-> FALSE, pauseend |-> 0, now |-> 1, mstime |-> 1]
      /\ net = [c \in Clients |-> [todo |-> Plays[p].sends[c], sock |-> <<>>, here |-> FALSE,
                                   master |-> c \in Plays[p].master, leaves |-> c \in Plays[p].leave,
                                   slow |-> c \in Plays[p].slow]]
      /\ at = [stage |-> "poll", fired |-> {}, due |-> FALSE, turn |-> None, cur |-> None]

Loop == \/ Unblocked \/ Sleep \/ Poll \/ Cron
        \/ \E c \in Clients : Process(c) \/ \E e \in {"read", "write"} : Event(c, e)
Next == Loop \/ \E c \in Clients : Accept(c) \/ Arrive(c) \/ Leave(c)

Spec == Init /\ [][Next]_vars
\* The loop never stops: a step of it comes as long as one is due.  Written out,
\* as WF_vars(Loop) would be: the steps of the others come to an end.
Due == at.stage = "poll" => Ready # {} \/ TimeMatters
Fairness == []<>~Due \/ []<><<TRUE>>_<<s, at>>
LiveSpec == Spec /\ Fairness

-----------------------------------------------------------------------------
(* Properties. *)

\* Nobody waits for a key that holds a list which dbAdd has put there (db.c:98), as
\* all the commands above do that make a list - a push, RENAME, RPOPLPUSH and the
\* serving of a BRPOPLPUSH: those who wait are served before the next command
\* (handleClientsBlockedOnLists, t_list.c).  SORT ... STORE over a key that is there
\* is not one of these commands: dbOverwrite (db.c:107) signals nothing, and the
\* code leaves clients waiting for that list.
NobodyWaits == \A k \in Keys : IsList(s.db[k]) => s.waiting[k] = <<>>

\* A client whose watched key holds something else than when it was watched
\* cannot execute its transaction any more (touchWatchedKey, multi.c).
WatchSees ==
    \A c \in Clients : \A k \in ToSet(s.c[c].watched) :
        s.db[k] # s.c[c].seen[k] => Has(s, c, "dirty_cas")

\* Who watches, waits, listens or is to be closed is in exactly the lists it knows of,
\* and a client that is gone is in none of these (freeClient, networking.c).  Of
\* unblocked_clients one direction only: who is flagged as unblocked is in that list.
\* The other is not true of the code: clientsArePaused may list a client twice, and
\* freeClient takes nobody off whose flag went with the first node (networking.c:738).
ListsAgree ==
    \A c \in Clients :
      LET me == s.c[c]
          where(f) == {k \in DOMAIN f : c \in ToSet(f[k])}
      IN /\ where(s.watchers) = ToSet(me.watched) /\ where(s.waiting) = me.keys
         /\ where(s.channels) = me.subs /\ {p[2] : p \in {q \in ToSet(s.patterns) : q[1] = c}} = ToSet(me.pats)
         /\ c \in ToSet(s.toclose) <=> Has(s, c, "close_asap")
         /\ Has(s, c, "unblocked") => c \in ToSet(s.unblocked)
         /\ (~me.up => me.flags = {} /\ me.watched = <<>> /\ me.keys = {} /\ me.subs = {} /\ me.pats = <<>>)

\* Who reads the stream of commands has the same data: what is served is
\* propagated in the order of its effects; and a slave has the data of its
\* master, nobody else's writes (disconnectAllBlockedClients, blocked.c).
CopyAgrees == s.copy = s.db

=============================================================================
