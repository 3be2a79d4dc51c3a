----------------------------- MODULE ClusterBus -----------------------------
(***************************************************************************)
(* The messages of the cluster bus, what a node does with each of them     *)
(* (clusterProcessPacket), the votes and the failover of a slave, all as   *)
(* operations on the state of one node (ClusterState).                     *)
(*                                                                         *)
(* `via' says on which of its links a node gets a message: its own link to *)
(* a node it knows ("node"), its link to a node in handshake ("shake"),    *)
(* where only the PONGs to its own PINGs arrive, or a link the other side  *)
(* opened ("in").                                                          *)
(***************************************************************************)
EXTENDS ClusterState

\* clusterBuildMessageHdr: a slave announces the slots and the epoch of its
\* master.  The gossip section of a heartbeat says of the nodes told about
\* which ones are bad (PFAIL or FAIL).
Msg(s, type, to, via, about) ==
    LET boss == IF NodeIsSlave(s, s.me) /\ MyMaster(s) # None THEN MyMaster(s) ELSE s.me
        told == IF type \in {"ping", "pong", "meet"} THEN Others(s) \ {to} ELSE {}
    IN [type |-> type, from |-> s.me, to |-> to, via |-> via,
        cur |-> s.cur, epoch |-> s.view[boss].epoch, slots |-> SlotsOf(s, boss),
        role |-> Me(s).role, of |-> MyMaster(s), offset |-> s.offset,
        paused |-> NodeIsMaster(s, s.me) /\ s.mf.on,
        force |-> type = "auth_request" /\ s.mf.on,
        told |-> told, bad |-> {n \in told : s.view[n].fail # "no"},
        about |-> about,
        aboutEpoch |-> IF type = "update" THEN s.view[about].epoch ELSE 0,
        aboutSlots |-> IF type = "update" THEN SlotsOf(s, about) ELSE {}]

Send(s, type, to, via, about) == [s EXCEPT !.out = @ \cup {Msg(s, type, to, via, about)}]

Broadcast(s, type, to, about) ==
    [s EXCEPT !.out = @ \cup {Msg(s, type, n, "in", about) : n \in to}]

LocalSlaves(s) ==
    {n \in Others(s) : /\ NodeIsSlave(s, n) /\ s.view[n].of # None
                        /\ s.view[n].of \in {s.me, MyMaster(s)}}

-----------------------------------------------------------------------------
(* A heartbeat: PING, PONG, MEET. *)

\* What the header of a known node changes before anything else.  A newer
\* currentEpoch alone is not saved.
NoteHeader(s, m) ==
    LET newer == m.epoch > s.view[m.from].epoch
        a == [s EXCEPT !.cur = IF m.cur > @ THEN m.cur ELSE @,
                       !.view[m.from].epoch = IF newer THEN m.epoch ELSE @,
                       !.mf.offset =
                          IF /\ s.mf.on /\ NodeIsSlave(s, s.me) /\ MyMaster(s) = m.from
                             /\ m.paused /\ @ = 0
                          THEN m.offset ELSE @]
    IN IF newer THEN DoBeforeSleep(a, {"save"}) ELSE a

PongReceived(s, n) ==
    LET a == [s EXCEPT !.view[n].pinged = FALSE]
    IN IF NodeTimedOut(s, n)
       THEN DoBeforeSleep([a EXCEPT !.view[n].fail = "no"], {"save", "state"})
       ELSE IF NodeFailed(s, n) THEN ClearNodeFailureIfNeeded(a, n) ELSE a

RoleSwitch(s, m) ==
    LET n == m.from
        slave == IF NodeIsSlave(s, n) THEN s
                 ELSE DoBeforeSleep(
                        [DelSlots(s, SlotsOf(s, n)) EXCEPT
                           !.view[n].role = "slave", !.view[n].migrateTo = FALSE,
                           !.view[n].slaves = {}], {"save", "state"})
    IN CASE m.of = None -> SetNodeAsMaster(s, n)
         [] m.of # None /\ s.view[m.of].known /\ s.view[n].of # m.of ->
              DoBeforeSleep(
                NodeAddSlave([LeaveMaster(slave, n) EXCEPT !.view[n].of = m.of], m.of, n),
                {"save"})
         [] OTHER -> slave

\* The slots a heartbeat claims: take what is newer, and tell the sender who
\* has a slot it claims with an older epoch (only the first such slot).
ServedSlots(s, m) ==
    LET n == m.from
        boss == IF NodeIsMaster(s, n) THEN n ELSE s.view[n].of
        dirty == boss # None /\ SlotsOf(s, boss) # m.slots
        tell(a, stale) == IF stale = {} THEN a ELSE Send(a, "update", n, "in", a.owner[Min(stale)])
        check(a) == tell(a, {x \in m.slots : /\ a.owner[x] \notin {n, None}
                                            /\ a.view[a.owner[x]].epoch > m.epoch})
    IN IF ~dirty THEN s
       ELSE check(IF NodeIsMaster(s, n) THEN UpdateSlotsConfigWith(s, n, m.epoch, m.slots) ELSE s)

StartHandshake(s, n) == IF s.shake[n] = "no" THEN [s EXCEPT !.shake[n] = "meet"] ELSE s

\* clusterProcessGossipSection, from a node we know.  Only masters report,
\* and whoever is marked as failing is announced to everybody.
ProcessGossip(s, m) ==
    LET bad == m.bad \cap Others(s)
        good == (m.told \ m.bad) \cap Others(s)
        report(t) == [t EXCEPT !.view = [n \in Nodes |->
            [@[n] EXCEPT !.reports = IF n \in bad THEN @ \cup {m.from}
                                     ELSE IF n \in good THEN @ \ {m.from} ELSE @]]]
        mark(t) == FoldSet(LAMBDA n, u : MarkNodeAsFailingIfNeeded(u, n), t, bad)
        announce(t) ==
            FoldSet(LAMBDA n, u : Broadcast(u, "fail", Others(u), n), t,
                    IF NodeIsMaster(s, s.me)
                    THEN {n \in bad : NodeFailed(t, n) /\ ~NodeFailed(s, n)} ELSE {})
    IN FoldSet(LAMBDA n, t : StartHandshake(t, n),
               IF NodeIsMaster(s, m.from) THEN announce(mark(report(s))) ELSE s,
               (m.told \ Known(s)) \ s.banned)

\* What a heartbeat of a known node says of its configuration.
Heartbeat(s, m) ==
    LET collide(a) == IF NodeIsMaster(a, m.from) /\ m.epoch = Me(a).epoch
                      THEN HandleConfigEpochCollision(a, m.from) ELSE a
    IN ProcessGossip(collide(ServedSlots(RoleSwitch(s, m), m)), m)

\* A PONG on the link of a handshake: the node gets its name, or turns out
\* to be one we have.
FinishHandshake(s, m) ==
    IF s.view[m.from].known THEN [s EXCEPT !.shake[m.from] = "no"]
    ELSE DoBeforeSleep([s EXCEPT !.shake[m.from] = "no",
                                 !.view[m.from] = [NewNode EXCEPT !.role = m.role]],
                       {"save"})

-----------------------------------------------------------------------------
(* Votes. *)

\* Fault: a master votes again in an epoch in which it has voted.
SendFailoverAuthIfNeeded_Again(s, m) ==
    IF NodeIsMaster(s, s.me) /\ m.cur >= s.cur /\ NodeIsSlave(s, m.from)
    THEN Send(s, "auth_ack", m.from, "in", None) ELSE s
\* The vote is not saved, and nothing asks for it to be.
SendFailoverAuthIfNeeded(s, m) ==
    LET master == s.view[m.from].of
        mayVote == NodeIsMaster(s, s.me) /\ SlotsOf(s, s.me) # {}
        deserved == /\ NodeIsSlave(s, m.from) /\ master # None
                    /\ NodeFailed(s, master) \/ m.force
                    /\ ~s.view[master].votedLately
        outdated == \E x \in m.slots : s.owner[x] # None /\ s.view[s.owner[x]].epoch > m.epoch
    IN IF mayVote /\ m.cur >= s.cur /\ s.vote # s.cur /\ deserved /\ ~outdated
       THEN [Send(s, "auth_ack", m.from, "in", None) EXCEPT
               !.vote = s.cur, !.view[master].votedLately = TRUE]
       ELSE s

AckReceived(s, m) ==
    IF /\ NodeIsMaster(s, m.from) /\ SlotsOf(s, m.from) # {}
       /\ m.cur >= s.el.epoch
    THEN DoBeforeSleep([s EXCEPT !.el.count = @ + 1], {"failover"})
    ELSE s

-----------------------------------------------------------------------------
(* clusterProcessPacket *)

FailReceived(s, m) ==
    IF s.view[m.about].known /\ m.about # s.me /\ ~NodeFailed(s, m.about)
    THEN DoBeforeSleep([s EXCEPT !.view[m.about].fail = "fail",
                                 !.view[m.about].failedLong = FALSE], {"save", "state"})
    ELSE s

MFStartReceived(s, m) ==
    IF s.view[m.from].of # s.me THEN s
    ELSE [ResetManualFailover(s) EXCEPT
            !.mf = [NoManual EXCEPT !.on = TRUE, !.slave = m.from], !.paused = TRUE]

UpdateReceived(s, m) ==
    LET n == m.about
    IN IF ~s.view[n].known \/ s.view[n].epoch >= m.aboutEpoch THEN s
       ELSE UpdateSlotsConfigWith(
              DoBeforeSleep([SetNodeAsMaster(s, n) EXCEPT !.view[n].epoch = m.aboutEpoch],
                            {"save"}),
              n, m.aboutEpoch, m.aboutSlots)

PingReceived(s, m) ==
    LET a == IF m.type = "meet" /\ ~s.view[m.from].known
             THEN DoBeforeSleep([s EXCEPT !.shake[m.from] = IF @ = "no" THEN "ping" ELSE @],
                                {"save"})
             ELSE s
    IN Send(a, "pong", m.from, m.via, None)

\* A PONG on a link that is gone is lost, and so is everything but a PING, a
\* MEET or the PONG of a handshake from a node we do not know.
Handle(s, m) ==
    LET known == s.view[m.from].known
        shaking == m.type = "pong" /\ m.via = "shake"
        heard == CASE m.type \in {"ping", "meet"}          -> PingReceived(s, m)
                   [] m.type = "pong" /\ m.via = "node"   -> PongReceived(s, m.from)
                   [] OTHER -> s
    IN CASE shaking /\ s.shake[m.from] # "no" -> FinishHandshake(s, m)
         [] known /\ ~shaking /\ m.type \in {"ping", "meet", "pong"} -> Heartbeat(heard, m)
         [] ~known /\ m.type \in {"ping", "meet"} -> PingReceived(s, m)
         [] known /\ m.type = "fail" -> FailReceived(s, m)
         [] known /\ m.type = "auth_request" -> SendFailoverAuthIfNeeded(s, m)
         [] known /\ m.type = "auth_ack" -> AckReceived(s, m)
         [] known /\ m.type = "mfstart" -> MFStartReceived(s, m)
         [] known /\ m.type = "update" -> UpdateReceived(s, m)
         [] OTHER -> s

ProcessPacket(s, m) == Handle(IF s.view[m.from].known THEN NoteHeader(s, m) ELSE s, m)

-----------------------------------------------------------------------------
(* The failover of a slave. *)

\* clusterFailoverReplaceYourMaster
FailoverReplaceYourMaster(s) ==
    LET take(a) == AddSlots(a, s.me, SlotsOf(a, MyMaster(s)))
        tell(a) == Broadcast(DoBeforeSleep(a, {"save"}), "pong", Others(a), None)
    IN IF NodeIsMaster(s, s.me) \/ MyMaster(s) = None THEN s
       ELSE ResetManualFailover(tell(UpdateState(take(SetNodeAsMaster(s, s.me)))))

ScheduleElection(s) ==
    Broadcast([s EXCEPT !.el.phase = IF s.mf.on THEN "open" ELSE "delay",
                        !.el.sent = FALSE, !.el.count = 0],
              "pong", LocalSlaves(s), None)

AskForVotes(s) ==
    DoBeforeSleep(
      Broadcast([s EXCEPT !.cur = @ + 1, !.el.epoch = s.cur + 1, !.el.sent = TRUE],
                "auth_request", Others(s), None),
      {"save", "state"})

WinElection(s) ==
    FailoverReplaceYourMaster(
      [s EXCEPT !.view[s.me].epoch = IF @ < s.el.epoch THEN s.el.epoch ELSE @])

\* clusterHandleSlaveFailover.  The phase is what failover_auth_time says of
\* now: "delay" before it, "open" while votes count, "expired" after the
\* timeout, and "over" when the retry time has passed too.  The rank of the
\* slave only makes the delay longer.
HandleSlaveFailover(s) ==
    LET manual == s.mf.on /\ s.mf.start
        master == MyMaster(s)
        may == /\ NodeIsSlave(s, s.me) /\ master # None
               /\ NodeFailed(s, master) \/ manual
               /\ SlotsOf(s, master) # {}
               /\ s.aged => manual
    IN CASE may /\ s.el.phase = "over" -> ScheduleElection(s)
         [] may /\ s.el.phase = "open" /\ ~s.el.sent -> AskForVotes(s)
         [] may /\ s.el.phase = "open" /\ s.el.sent /\ s.el.count >= Quorum(s) -> WinElection(s)
         [] OTHER -> s

\* Fault: the failover starts as soon as the master has said its offset.
HandleManualFailover_Early(s) ==
    IF s.mf.on /\ s.mf.offset # 0 THEN [s EXCEPT !.mf.start = TRUE] ELSE s
HandleManualFailover(s) ==
    IF s.mf.on /\ s.mf.offset # 0 /\ s.mf.offset = s.offset
    THEN [s EXCEPT !.mf.start = TRUE] ELSE s

\* clusterHandleSlaveMigration: a slave of the master with the most slaves
\* moves to a master that has lost all of its own.
MigrationTargets(s) ==
    LET works(n) == s.view[n].fail = "no"
        masters == {n \in Others(s) : NodeIsMaster(s, n)}
        healthy == {n \in masters : ~NodeFailed(s, n)}
        most == Max({0} \cup {CountNonFailingSlaves(s, n) : n \in healthy})
        rivals == UNION {s.view[n].slaves : n \in {k \in masters : CountNonFailingSlaves(s, k) = most}}
        mine == MyMaster(s)
        may == /\ s.ok /\ NodeIsSlave(s, s.me) /\ mine # None
               /\ Cardinality({n \in s.view[mine].slaves : works(n)}) > Barrier
               /\ most >= 2 /\ mine \in healthy /\ CountNonFailingSlaves(s, mine) = most
               /\ \A n \in rivals : IdOf[n] >= IdOf[s.me]
    IN IF ~may THEN {}
       ELSE {n \in healthy : /\ s.view[n].migrateTo /\ SlotsOf(s, n) # {}
                             /\ CountNonFailingSlaves(s, n) = 0}

\* What clusterCron does besides the links, the PINGs and the timeouts.
Cron(s) ==
    LET settle(a) == IF a.ok THEN a ELSE UpdateState(a)
    IN settle(IF NodeIsSlave(s, s.me) THEN HandleSlaveFailover(HandleManualFailover(s)) ELSE s)

BeforeSleep(s) ==
    LET settle(a) == IF "state" \in a.todo THEN UpdateState(a) ELSE a
    IN settle(IF "failover" \in s.todo THEN HandleSlaveFailover(s) ELSE s)
=============================================================================
