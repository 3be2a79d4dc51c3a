------------------------------ MODULE Cluster ------------------------------
(***************************************************************************)
(* A Redis Cluster: nodes that run ClusterBus on the messages they get, on *)
(* the ticks of clusterCron and on the commands of an administrator, that  *)
(* crash and load nodes.conf again, over links that lose what is on them;  *)
(* and clients that follow the redirections while a slot moves.            *)
(*                                                                         *)
(* A step of a node is an iteration of its event loop: one handler, then   *)
(* clusterBeforeSleep, which saves nodes.conf if asked to; what it queued  *)
(* goes out after that.  A crash in the middle loses the same as a crash   *)
(* before the step and the loss of the message it took.                    *)
(*                                                                         *)
(* A play says what happens in one run of the system: where it starts, who *)
(* pings whom, and which events besides the messages and the timers occur. *)
(***************************************************************************)
EXTENDS ClusterBus, TLC

CONSTANTS Plays,      \* name -> [node, nodes, ops, pings, flight, epochs, losses, ...]
          Clients

VARIABLES play, node, disk, net, up,
          client,     \* what each client wants, and where it was sent
          winners,    \* <<epoch, node>> for every election won
          faults,     \* what went wrong so far: losses, crashes, late answers
          writes,     \* the replication offset of each master, as written
          data,       \* the keys clients have written and not deleted
          unsure,     \* keys a failed MIGRATE may have left in two places
          moving      \* where redis-trib is with moving a slot

vars == <<play, node, disk, net, up, client, winners, faults, writes, data, unsure, moving>>
keyVars == <<client, data, unsure, moving>>

Idle == [keys |-> {}, to |-> None, asking |-> FALSE]

On(op) == op \in Plays[play].ops

Init ==
    /\ play \in DOMAIN Plays
    /\ node = Plays[play].node
    /\ disk = [n \in Nodes |-> SavedConfig(node[n])]
    /\ net = {} /\ up = Plays[play].nodes
    /\ client = [c \in Clients |-> Idle]
    /\ winners = {}
    /\ faults = [lost |-> 0, crashed |-> {}, late |-> FALSE, forgot |-> FALSE]
    /\ writes = [n \in Nodes |-> node[n].offset]
    /\ data = UNION {node[n].keys : n \in Nodes} /\ unsure = {}
    /\ moving = [step |-> "import", told |-> {}]

-----------------------------------------------------------------------------
(* The links.  A node has one to each node it knows, and one to each it is  *)
(* in handshake with; each keeps its order in both directions.  `at' is the *)
(* place of a message in its queue.                                         *)

Queue(m) ==
    <<m.from, m.to, CASE m.type = "pong" /\ m.via # "in" -> m.via
                      [] m.via = "shake" -> "shake out"
                      [] OTHER -> "out">>

Put(q, m) ==
    q \cup {[at |-> 1 + Cardinality({o \in q : Queue(o) = Queue(m)})] @@ m}
Remove(gone) == FoldSet(LAMBDA m, q :
                          {IF Queue(o) = Queue(m)
                           THEN [o EXCEPT !.at = 1 + Cardinality({p \in q : Queue(p) = Queue(m) /\ p.at < o.at})]
                           ELSE o : o \in q}, net \ gone, gone)

InFlight(n, k, via) ==
    {m \in net : /\ m.via = via
                 /\ \/ m.type \in {"ping", "meet"} /\ m.from = n /\ m.to = k
                    \/ m.type = "pong" /\ m.from = k /\ m.to = n}

-----------------------------------------------------------------------------
(* The step of a node. *)

\* Node n, a slave, has just got the majority and become a master.
Won(n, t) ==
    /\ NodeIsSlave(node[n], n) /\ NodeIsMaster(t, n)
    /\ t.el.sent /\ t.el.phase = "open" /\ t.el.count >= Quorum(node[n])
    /\ Me(t).epoch = t.el.epoch

\* What was sent for an election or a manual failover that is over.  Unless
\* the play says "late", no message outlives the timeouts of its purpose.
Outdated(n, t) ==
    {m \in net :
       \/ /\ node[n].el.sent /\ ~t.el.sent
          /\ \/ m.type = "auth_ack" /\ m.to = n
             \/ m.type = "auth_request" /\ m.from = n
       \/ node[n].mf.on /\ ~t.mf.on /\ n \in {m.from, m.to} /\ m.paused}

\* The node is in state t when it goes to sleep.
Commit(n, t, gone) ==
    LET old == Outdated(n, t) \ gone
    IN /\ t.cur <= Plays[play].epochs
       /\ node' = [node EXCEPT ![n] = [t EXCEPT !.out = {}, !.todo = {}]]
       /\ disk' = IF "save" \in t.todo THEN [disk EXCEPT ![n] = SavedConfig(t)] ELSE disk
       /\ net' = FoldSet(LAMBDA m, q : Put(q, m),
                         Remove(IF On("late") THEN gone ELSE gone \cup old),
                         {m \in t.out : m.to \in up})
       /\ Cardinality(net') <= Plays[play].flight
       /\ winners' = IF Won(n, t) THEN winners \cup {<<t.el.epoch, n>>} ELSE winners
       /\ faults' = [faults EXCEPT !.late = @ \/ (old # {} /\ On("late"))]
       /\ writes' = IF Won(n, t) THEN [writes EXCEPT ![n] = t.offset] ELSE writes
       /\ UNCHANGED <<play, up>>

\* gone: the messages the step takes from the links, or breaks with them.
Step(n, s, gone) == Commit(n, BeforeSleep(s), gone)

Deliver(m) ==
    /\ m \in net /\ m.at = 1
    /\ Step(m.to, ProcessPacket(node[m.to], m), {m})
    /\ UNCHANGED keyVars

\* The link breaks, or the other side is too slow and it is freed.
Lose(m) ==
    /\ m \in net /\ faults.lost < Plays[play].losses
    /\ net' = Remove({m}) /\ faults' = [faults EXCEPT !.lost = @ + 1]
    /\ UNCHANGED <<play, node, disk, up, winners, writes, keyVars>>

-----------------------------------------------------------------------------
(* clusterCron *)

\* A PING to a node that owes no PONG, or to the slave a paused master waits for.
SendPing(n, k) ==
    /\ n \in up /\ <<n, k>> \in Plays[play].pings /\ k \in Others(node[n])
    /\ ~node[n].view[k].pinged \/ (NodeIsMaster(node[n], n) /\ node[n].mf.on /\ node[n].mf.slave = k)
    /\ InFlight(n, k, "node") = {}
    /\ Step(n, Send([node[n] EXCEPT !.view[k].pinged = TRUE], "ping", k, "node", None), {})
    /\ UNCHANGED keyVars

\* The link to a node that owes a PONG for half the timeout is freed and made
\* again; a PING goes out at once and the time of the first one stays.
Reconnect(n, k) ==
    /\ n \in up /\ k \in Others(node[n]) /\ node[n].view[k].pinged
    /\ k \in up /\ InFlight(n, k, "node") = {}
    /\ Step(n, Send(node[n], "ping", k, "node", None), {})
    /\ UNCHANGED keyVars

\* The link of a handshake: MEET if that is how it began, a PING otherwise.
ConnectShake(n, k) ==
    /\ n \in up /\ k \in up /\ node[n].shake[k] \in {"meet", "ping"}
    /\ Step(n, [Send(node[n], node[n].shake[k], k, "shake", None) EXCEPT !.shake[k] = "sent"], {})
    /\ UNCHANGED keyVars

ShakeTimeout(n, k) ==
    /\ On("shake_timeout") /\ n \in up /\ node[n].shake[k] = "sent"
    /\ Step(n, [node[n] EXCEPT !.shake[k] = "no"], InFlight(n, k, "shake"))
    /\ UNCHANGED keyVars

\* No PONG for the whole timeout: the node is down, or slow.
Suspect(n, k) ==
    /\ n \in up /\ k \in Others(node[n]) /\ (k \notin up \/ On("slow"))
    /\ node[n].view[k].pinged /\ node[n].view[k].fail = "no"
    /\ Step(n, UpdateState([node[n] EXCEPT !.view[k].fail = "pfail"]), {})
    /\ UNCHANGED keyVars

CronStep(n) ==
    /\ n \in up
    /\ \E s \in {Cron(node[n])} \ {node[n]} : Step(n, s, {})
    /\ UNCHANGED keyVars

SlaveMigration(n) ==
    /\ On("migration") /\ n \in up
    /\ \E k \in MigrationTargets(node[n]) : Step(n, SetMaster(node[n], k), {})
    /\ UNCHANGED keyVars

\* Timers that only the clock moves.
Tick(n) ==
    LET s == node[n]
        next == CASE s.el.phase = "delay" -> "open" [] s.el.phase = "open" -> "expired"
                  [] s.el.phase \in {"expired", "over"} -> "over"
    IN /\ n \in up
       /\ \/ s.el.phase # "over" /\ On("tick") /\ Step(n, [s EXCEPT !.el.phase = next], {})
          \/ s.starting /\ Step(n, [s EXCEPT !.starting = FALSE], {})
          \/ s.minority /\ Step(n, [s EXCEPT !.minority = FALSE], {})
       /\ UNCHANGED keyVars

\* Those that take several node timeouts end only in a play that is "long".
FailedLong(n, k) ==
    /\ On("long") /\ n \in up /\ NodeFailed(node[n], k) /\ ~node[n].view[k].failedLong
    /\ Step(n, [node[n] EXCEPT !.view[k].failedLong = TRUE], {})
    /\ UNCHANGED keyVars

Expire(n, k) ==
    LET s == node[n]
    IN /\ On("long") /\ n \in up
       /\ \/ s.view[k].votedLately /\ Step(n, [s EXCEPT !.view[k].votedLately = FALSE], {})
          \/ k \in s.banned /\ Step(n, [s EXCEPT !.banned = @ \ {k}], {})
          \/ \E r \in s.view[k].reports :
                Step(n, [s EXCEPT !.view[k].reports = @ \ {r}], {})
       /\ UNCHANGED keyVars

\* manualFailoverCheckTimeout.  The slave asked first and its time ends first.
ManualTimeout(n) ==
    /\ n \in up /\ node[n].mf.on
    /\ NodeIsMaster(node[n], n) => \A k \in up : NodeIsSlave(node[k], k) => ~node[k].mf.on
    /\ Step(n, ResetManualFailover(node[n]), {})
    /\ UNCHANGED keyVars

-----------------------------------------------------------------------------
(* Crashes. *)

\* Each node crashes at most once.  `forgot' notes a vote that was not saved.
Crash(n) ==
    /\ n \in up /\ n \in Plays[play].mortal \ faults.crashed
    /\ up' = up \ {n}
    /\ net' = {m \in net : m.to # n}
    /\ faults' = [faults EXCEPT !.crashed = @ \cup {n},
                                !.forgot = @ \/ node[n].vote # disk[n].vote]
    /\ UNCHANGED <<play, node, disk, winners, writes, keyVars>>

Restart(n) ==
    /\ On("restart") /\ n \in faults.crashed /\ n \notin up
    /\ up' = up \cup {n}
    /\ LET s == VerifyConfigWithData(LoadedConfig(n, disk[n], node[n].keys, node[n].offset))
       IN /\ node' = [node EXCEPT ![n] = [s EXCEPT !.todo = {}]]
          /\ disk' = [disk EXCEPT ![n] = SavedConfig(s)]
    /\ UNCHANGED <<play, net, winners, faults, writes, keyVars>>

-----------------------------------------------------------------------------
(* CLUSTER, the command. *)

Meet(n, k) ==
    /\ On("meet") /\ n \in up /\ k \in Plays[play].nodes \ {n} /\ node[n].shake[k] = "no" /\ k \notin Known(node[n])
    /\ Step(n, StartHandshake(node[n], k), {})
    /\ UNCHANGED keyVars

Forget(n, k) ==
    /\ On("forget") /\ n \in up /\ k \in Others(node[n])
    /\ ~(NodeIsSlave(node[n], n) /\ MyMaster(node[n]) = k)
    /\ Step(n, DoBeforeSleep([DelNode(node[n], k) EXCEPT !.banned = @ \cup {k}], {"state", "save"}),
            InFlight(n, k, "node"))
    /\ UNCHANGED keyVars

Replicate(n, k) ==
    LET s == node[n]
    IN /\ On("replicate") /\ n \in up /\ k \in Others(s) /\ NodeIsMaster(s, k)
       /\ NodeIsMaster(s, n) => SlotsOf(s, n) = {} /\ s.keys = {}
       /\ k # MyMaster(s)
       /\ Step(n, DoBeforeSleep(SetMaster(s, k), {"state", "save"}), {})
       /\ UNCHANGED keyVars

\* ADDSLOTS, DELSLOTS and FLUSHSLOTS.  DELSLOTS takes slots of anybody.
ChangeSlots(n) ==
    LET s == node[n]
        unimport(X) == [x \in Slots |-> IF x \in X THEN None ELSE s.importing[x]]
        done(t) == Step(n, DoBeforeSleep(t, {"state", "save"}), {})
    IN /\ n \in up
       /\ \/ /\ On("addslots")
             /\ \E X \in (SUBSET {x \in Plays[play].slots : s.owner[x] = None}) \ {{}} :
                   done([AddSlots(s, n, X) EXCEPT !.importing = unimport(X)])
          \/ /\ On("delslots")
             /\ \E X \in (SUBSET {x \in Plays[play].slots : s.owner[x] # None}) \ {{}} :
                   done([DelSlots(s, X) EXCEPT !.importing = unimport(X)])
          \/ /\ On("flushslots") /\ s.keys = {}
             /\ done(DelSlots(s, SlotsOf(s, n)))
       /\ UNCHANGED keyVars

SetConfigEpoch(n, e) ==
    /\ On("set_epoch") /\ n \in up /\ Others(node[n]) = {} /\ Me(node[n]).epoch = 0
    /\ \A k \in Nodes : node[n].shake[k] = "no"
    /\ Step(n, DoBeforeSleep([node[n] EXCEPT !.view[n].epoch = e, !.cur = IF @ < e THEN e ELSE @],
                             {"state", "save"}), {})
    /\ UNCHANGED keyVars

\* CLUSTER RESET SOFT.  HARD also takes a new name, which is a new node.
Reset(n) ==
    LET s == node[n]
        a == [SetNodeAsMaster(s, n) EXCEPT !.keys = IF NodeIsSlave(s, n) THEN {} ELSE @]
        b == DelSlots(ResetManualFailover(CloseAllSlots(a)), Slots)
        c == [FoldSet(LAMBDA k, t : DelNode(t, k), b, Others(s)) EXCEPT
                !.shake = [k \in Nodes |-> "no"]]
    IN /\ On("reset") /\ n \in up
       /\ NodeIsMaster(s, n) => s.keys = {}
       /\ Step(n, DoBeforeSleep(c, {"state", "save"}),
               UNION {InFlight(n, k, v) : k \in Nodes, v \in {"node", "shake"}})
       /\ UNCHANGED keyVars

\* CLUSTER FAILOVER, FORCE and TAKEOVER.
Failover(n, how) ==
    LET s == node[n]
        a == [ResetManualFailover(s) EXCEPT !.mf = [NoManual EXCEPT !.on = TRUE]]
    IN /\ On(how) /\ n \in up /\ NodeIsSlave(s, n) /\ MyMaster(s) # None /\ ~s.mf.on
       /\ how = "failover" => ~NodeFailed(s, MyMaster(s))
       /\ Step(n, CASE how = "takeover" ->
                         FailoverReplaceYourMaster(BumpConfigEpochWithoutConsensus(a))
                    [] how = "force" -> [a EXCEPT !.mf.start = TRUE]
                    [] how = "failover" -> Send(a, "mfstart", MyMaster(s), "in", None), {})
       /\ UNCHANGED keyVars

-----------------------------------------------------------------------------
(* Writes and replication, as far as the offsets go. *)

Write(n) ==
    /\ n \in up \cap Plays[play].writers /\ NodeIsMaster(node[n], n) /\ ~node[n].paused
    /\ writes[n] < 2
    /\ writes' = [writes EXCEPT ![n] = @ + 1]
    /\ node' = [node EXCEPT ![n].offset = @ + 1]
    /\ UNCHANGED <<play, disk, net, up, winners, faults, keyVars>>

Follow(n) ==
    LET m == MyMaster(node[n])
    IN /\ n \in up /\ m # None /\ m \in up /\ NodeIsMaster(node[m], m)
       /\ node[n].offset < node[m].offset
       /\ node' = [node EXCEPT ![n].offset = @ + 1]
       /\ UNCHANGED <<play, disk, net, up, winners, faults, writes, keyVars>>
=============================================================================
