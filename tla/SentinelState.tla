--------------------------- MODULE SentinelState ---------------------------
(***************************************************************************)
(* What a Sentinel knows about the one master it monitors (struct          *)
(* sentinelRedisInstance of sentinel.c, with the tables of its slaves and  *)
(* of the other Sentinels) and the operations on it: what is down, votes,  *)
(* the phases of a failover, the reconfiguration of the slaves.            *)
(* An operation maps this state to its next one.  `out' collects the       *)
(* requests for other Sentinels, `orders' the SLAVEOF commands, and `save' *)
(* says that the configuration file is to be written.                      *)
(* Times are sets and flags that only the clock of module Sentinel sets:   *)
(* `silent' instances have not answered PING for down-after-milliseconds,  *)
(* what an `aged' one reports has not changed for long, `wait' forbids     *)
(* another failover so soon, and the present phase of one is `late'.       *)
(***************************************************************************)
EXTENDS Integers, FiniteSets, FiniteSetsExt, Sequences

CONSTANTS Sentinels, Instances, None,
          Quorum,         \* sentinel monitor <name> <ip> <port> <quorum>
          ParallelSyncs,  \* parallel-syncs
          Preference      \* the order of compareSlavesForPromotion

ASSUME SentinelAssumption ==
    /\ IsFiniteSet(Sentinels) /\ IsFiniteSet(Instances)
    /\ Quorum \in Nat \ {0} /\ ParallelSyncs \in Nat
    /\ Preference \in [Instances -> Nat]
    /\ \A i, j \in Instances : Preference[i] = Preference[j] => i = j

NoFailover == [state |-> "none", epoch |-> 0, promoted |-> None, forced |-> FALSE]
NoPeer == [run |-> 0, down |-> FALSE, for |-> None, epoch |-> 0]

\* A Sentinel that has just been told to monitor the master at a.  `on': it
\* monitors it still; `run': how often it was started, its run id.
NewMaster(s, run, a) ==
    [me |-> s, run |-> run, on |-> TRUE, cur |-> 0, tilt |-> FALSE,
     vote |-> [for |-> None, epoch |-> 0], conf |-> 0, addr |-> a, slaves |-> {},
     silent |-> {}, sdown |-> {}, odown |-> FALSE, aged |-> {},
     role |-> [i \in Instances |-> IF i = a THEN "master" ELSE "slave"],
     boss |-> [i \in Instances |-> None], reconf |-> [i \in Instances |-> "no"],
     fo |-> NoFailover, wait |-> FALSE, late |-> FALSE,
     peer |-> [p \in Sentinels \ {s} |-> NoPeer],
     out |-> {}, orders |-> <<>>, save |-> FALSE]

Id(t) == <<t.me, t.run>>
Peers(t) == {p \in DOMAIN t.peer : t.peer[p].run # 0}
Voters(t) == Cardinality(Peers(t)) + 1
InFailover(t) == t.fo.state # "none"

FlushConfig(t) == [t EXCEPT !.save = TRUE]
Phase(t, state) == [t EXCEPT !.fo.state = state, !.late = FALSE]
SendSlaveOf(t, i, a) == [t EXCEPT !.orders = Append(@, [to |-> i, of |-> a])]

\* sentinelGetCurrentMasterAddress: the promoted slave once it is a master.
CurrentAddress(t) ==
    IF t.fo.state = "reconf" /\ t.fo.promoted # None THEN t.fo.promoted ELSE t.addr

-----------------------------------------------------------------------------
(* Reset. *)

Fresh(t, X) ==
    [t EXCEPT !.silent = @ \ X, !.sdown = @ \ X, !.aged = @ \ X,
              !.role = [i \in Instances |-> IF i = t.addr THEN "master"
                                            ELSE IF i \in X THEN "slave" ELSE @[i]],
              !.boss = [i \in Instances |-> IF i \in X THEN None ELSE @[i]],
              !.reconf = [i \in Instances |-> IF i \in X THEN "no" ELSE @[i]]]

\* The vote loses its name and keeps its epoch.
ResetMaster(t) ==
    [Fresh(t, Instances) EXCEPT
       !.slaves = {}, !.odown = FALSE, !.vote.for = None, !.wait = FALSE,
       !.late = FALSE, !.fo = NoFailover]

\* Fault: the old master is forgotten.
ResetMasterAndChangeAddress_Forgets(t, a) ==
    FlushConfig([ResetMaster([t EXCEPT !.addr = a]) EXCEPT !.slaves = t.slaves \ {a}])
\* The old master is kept as a slave.
ResetMasterAndChangeAddress(t, a) ==
    FlushConfig([ResetMaster([t EXCEPT !.addr = a]) EXCEPT
                   !.slaves = (t.slaves \cup {t.addr}) \ {a}])

-----------------------------------------------------------------------------
(* What is down. *)

\* A master that says it is a slave is down too, in the end.
CheckSubjectivelyDown(t, i) ==
    LET down == i \in t.silent \/ (i = t.addr /\ t.role[i] = "slave" /\ i \in t.aged)
    IN [t EXCEPT !.sdown = IF down THEN @ \cup {i} ELSE @ \ {i},
                 !.aged = IF down /\ i # t.addr THEN @ \ {i} ELSE @]

CheckObjectivelyDown(t) ==
    [t EXCEPT !.odown =
        /\ t.addr \in t.sdown
        /\ 1 + Cardinality({p \in Peers(t) : t.peer[p].down}) >= Quorum]

MasterLooksSane(t) == t.role[t.addr] = "master" /\ t.addr \notin t.sdown /\ ~t.odown

-----------------------------------------------------------------------------
(* Votes. *)

\* One vote for each epoch.  Who votes for another one does not start a
\* failover itself for a while.
VoteLeader(t, epoch, run) ==
    LET a == IF epoch > t.cur THEN FlushConfig([t EXCEPT !.cur = epoch]) ELSE t
    IN IF a.vote.epoch < epoch /\ a.cur <= epoch
       THEN FlushConfig([a EXCEPT !.vote = [for |-> run, epoch |-> a.cur],
                                  !.wait = @ \/ run # Id(t)])
       ELSE a

\* The answer to is-master-down-by-addr, and what it does to the one asked.
IsMasterDown(t, q) ==
    LET mine == t.on /\ q.addr = t.addr
        voted == IF mine /\ q.for # None THEN VoteLeader(t, q.epoch, q.for) ELSE t
    IN [state |-> voted,
        reply |-> [type |-> "reply", down |-> mine /\ ~t.tilt /\ t.addr \in t.sdown,
                   for |-> IF mine /\ q.for # None THEN voted.vote.for ELSE None,
                   epoch |-> IF mine /\ q.for # None THEN voted.vote.epoch ELSE 0]]

ReceiveIsMasterDownReply(t, p, r) ==
    [t EXCEPT !.peer[p].down = r.down,
              !.peer[p].for = IF r.for = None THEN @ ELSE r.for,
              !.peer[p].epoch = IF r.for = None THEN @ ELSE r.epoch]

AskMasterState(t, P) ==
    IF t.addr \notin t.sdown THEN t
    ELSE [t EXCEPT !.out = @ \cup {[type |-> "ask", to |-> p, addr |-> t.addr, epoch |-> t.cur,
                                    for |-> IF InFailover(t) THEN Id(t) ELSE None] : p \in P}]

\* sentinelGetLeader.  The votes of the others count if they are of the
\* current epoch, the own one if it is of the epoch of the failover.
VotesOf(t, run) ==
    Cardinality({p \in Peers(t) : t.peer[p].for = run /\ t.peer[p].epoch = t.cur})
MostVoted(t) ==
    LET runs == {t.peer[p].for : p \in Peers(t)} \ {None}
    IN {r \in runs : VotesOf(t, r) > 0 /\ \A q \in runs : VotesOf(t, q) <= VotesOf(t, r)}
Leader(t, best) ==
    LET mine == IF t.vote.epoch = t.fo.epoch THEN t.vote.for ELSE None
        others == IF best = None THEN 0 ELSE VotesOf(t, best)
        withMine == IF mine = None THEN 0 ELSE VotesOf(t, mine) + 1
        votes == IF withMine > others THEN withMine ELSE others
    IN IF votes >= Voters(t) \div 2 + 1 /\ votes >= Quorum
       THEN IF withMine > others THEN mine ELSE best
       ELSE None

-----------------------------------------------------------------------------
(* The phases of a failover, as the sets of states they may lead to. *)

StartFailover(t) ==
    Phase([t EXCEPT !.cur = @ + 1, !.wait = TRUE,
                    !.fo = [NoFailover EXCEPT !.epoch = t.cur + 1]], "start")

AbortFailover(t) ==
    [t EXCEPT !.fo = [NoFailover EXCEPT !.epoch = t.fo.epoch], !.late = FALSE]

WaitStart(t) ==
    LET elected(u, best) == Leader(u, best) = Id(t) \/ t.fo.forced
        go(u, best) == IF elected(u, best) THEN Phase(u, "select")
                       ELSE IF t.late THEN AbortFailover(u) ELSE u
    IN IF MostVoted(t) = {} THEN {go(VoteLeader(t, t.fo.epoch, Id(t)), None)}
       ELSE {go(VoteLeader(t, t.fo.epoch, best), best) : best \in MostVoted(t)}

\* cut: the instances with no connection.
SelectSlave(t, cut) ==
    LET good == t.slaves \ (t.sdown \cup cut \cup t.silent)
    IN IF good = {} THEN None
       ELSE CHOOSE i \in good : \A j \in good : Preference[i] <= Preference[j]
FailoverSelectSlave(t, cut) ==
    IF SelectSlave(t, cut) = None THEN AbortFailover(t)
    ELSE Phase([t EXCEPT !.fo.promoted = SelectSlave(t, cut)], "noone")

SendSlaveOfNoOne(t, cut) ==
    IF t.fo.promoted \in cut THEN (IF t.late THEN AbortFailover(t) ELSE t)
    ELSE Phase(SendSlaveOf(t, t.fo.promoted, None), "promote")

WaitPromotion(t) == IF t.late THEN AbortFailover(t) ELSE t

\* The flags RECONF_SENT, INPROG and DONE of a slave: "no" none of them, "sent",
\* "stuck" sent for too long, "inprog", "done", and with DONE "resent" and "resync".
Busy == {"sent", "stuck", "inprog", "resent", "resync"}
Done == {"done", "resent", "resync"}

\* At most ParallelSyncs slaves at a time.  One that is stuck counts as done when
\* the loop gets to it, and is told once more unless it is disconnected.
ReconfNextSlave(t, cut) ==
    LET open == {i \in t.slaves \ {t.fo.promoted} : t.reconf[i] \in {"no", "stuck"}}
        given_up == {i \in open \cap cut : t.reconf[i] = "stuck"}
        reached == open \ cut
        room == ParallelSyncs - Cardinality({i \in t.slaves : t.reconf[i] \in Busy})
        tell(i, u) == SendSlaveOf([u EXCEPT !.reconf[i] = IF @ = "stuck" THEN "resent" ELSE "sent"],
                                  i, t.fo.promoted)
        next(R, L) ==
            FoldSet(tell, [t EXCEPT !.reconf = [i \in Instances |-> IF i \in L THEN "done" ELSE @[i]]], R)
    IN IF room <= 0 THEN {t}
       ELSE {next(R, L) : R \in {X \in SUBSET reached : Cardinality(X) = Min({room, Cardinality(reached)})},
                          L \in IF Cardinality(reached) < room THEN {given_up} ELSE SUBSET given_up}

\* The end, when all are reconfigured or it takes too long: then SLAVEOF goes
\* to all that do not seem to be done, the promoted one among them.
DetectEnd(t, cut) ==
    LET todo == {i \in t.slaves \ {t.fo.promoted} : t.reconf[i] \notin Done /\ i \notin t.sdown}
        late == {i \in t.slaves \ cut : t.reconf[i] \in {"no", "inprog"}}
        told(u) == FoldSet(LAMBDA i, v : SendSlaveOf(v, i, t.fo.promoted), u, late)
    IN IF t.fo.promoted = None \/ t.fo.promoted \in t.sdown THEN t
       ELSE IF t.late THEN Phase(told(t), "update")
       ELSE IF todo = {} THEN Phase(t, "update") ELSE t

FailoverStateMachine(t, cut) ==
    CASE t.fo.state = "start"   -> WaitStart(t)
      [] t.fo.state = "select"  -> {FailoverSelectSlave(t, cut)}
      [] t.fo.state = "noone"   -> {SendSlaveOfNoOne(t, cut)}
      [] t.fo.state = "promote" -> {WaitPromotion(t)}
      [] t.fo.state = "reconf"  -> {DetectEnd(u, cut) : u \in ReconfNextSlave(t, cut)}
      [] OTHER -> {t}

SwitchToPromotedSlave(t) ==
    IF t.fo.state # "update" THEN t
    ELSE ResetMasterAndChangeAddress(t, IF t.fo.promoted # None THEN t.fo.promoted ELSE t.addr)

-----------------------------------------------------------------------------
(* sentinelTimer.  reach: the Sentinels with a connection; due: those whose  *)
(* last answer is a second old, and who owe none.                            *)

StartFailoverIfNeeded(t, reach) ==
    IF t.odown /\ ~InFailover(t) /\ ~t.wait
    THEN AskMasterState(StartFailover(t), reach) ELSE t

CheckSlaves(t) == FoldSet(LAMBDA i, u : CheckSubjectivelyDown(u, i), t, t.slaves)

Timer(t, cut, reach, due) ==
    LET judged == CheckObjectivelyDown(CheckSubjectivelyDown(t, t.addr))
    IN IF ~t.on \/ t.tilt THEN {t}
       ELSE {SwitchToPromotedSlave(CheckSlaves(AskMasterState(u, due))) :
               u \in FailoverStateMachine(StartFailoverIfNeeded(judged, reach), cut)}

-----------------------------------------------------------------------------
(* INFO and Hello. *)

\* What INFO tells is remembered; a change of it makes it young again.
NoteInfo(t, i, info) ==
    LET changed == \/ info.role # t.role[i]
                   \/ info.role = "slave" /\ info.of # t.boss[i]
        found == IF i = t.addr THEN info.slaves \ t.slaves ELSE {}
    IN [t EXCEPT !.role[i] = info.role,
                 !.boss[i] = IF info.role = "slave" THEN info.of ELSE @,
                 !.aged = IF changed THEN @ \ {i} ELSE @,
                 !.slaves = @ \cup found, !.save = @ \/ found # {}]

\* A slave says it is a master: the one we promote, or one to be put right.
SlaveIsMaster(t, i) ==
    IF i = t.fo.promoted /\ t.fo.state = "promote"
    THEN FlushConfig(Phase([t EXCEPT !.conf = t.fo.epoch], "reconf"))
    ELSE IF i # t.fo.promoted /\ MasterLooksSane(t) /\ i \in t.aged
    THEN SendSlaveOf(t, i, t.addr) ELSE t

\* A slave says whom it follows.
SlaveIsSlave(t, i, info) ==
    LET put == IF info.of # t.addr /\ MasterLooksSane(t) /\ i \in t.aged
               THEN SendSlaveOf(t, i, t.addr) ELSE t
        was == t.reconf[i]
        told == was \in {"sent", "stuck", "resent"} /\ info.of = t.fo.promoted
    IN [put EXCEPT !.reconf[i] = IF (told \/ was \in {"inprog", "resync"}) /\ info.linked THEN "done"
                                 ELSE IF told THEN (IF was = "resent" THEN "resync" ELSE "inprog") ELSE was]

RefreshInstanceInfo(t, i, info) ==
    LET noted == NoteInfo(t, i, info)
    IN IF t.tilt \/ i \notin t.slaves THEN noted
       ELSE IF info.role = "master" THEN SlaveIsMaster(noted, i)
       ELSE SlaveIsSlave(noted, i, info)

Hello(t) == [from |-> t.me, run |-> t.run, cur |-> t.cur,
             addr |-> CurrentAddress(t), conf |-> t.conf]

ProcessHello(t, h) ==
    LET met == IF t.peer[h.from].run = h.run THEN t
               ELSE FlushConfig([t EXCEPT !.peer[h.from] = [NoPeer EXCEPT !.run = h.run]])
        later == IF h.cur > met.cur THEN FlushConfig([met EXCEPT !.cur = h.cur]) ELSE met
    IN IF h.conf <= t.conf THEN later
       ELSE IF h.addr = t.addr THEN [later EXCEPT !.conf = h.conf]
       ELSE ResetMasterAndChangeAddress([later EXCEPT !.conf = h.conf], h.addr)

-----------------------------------------------------------------------------
(* The configuration file. *)

SavedConfig(t) ==
    [on |-> t.on, cur |-> t.cur, voted |-> t.vote.epoch, conf |-> t.conf,
     addr |-> CurrentAddress(t),
     slaves |-> (t.slaves \cup {t.addr}) \ {CurrentAddress(t)},
     run |-> [p \in DOMAIN t.peer |-> t.peer[p].run]]

LoadedConfig(s, run, d) ==
    [NewMaster(s, run, d.addr) EXCEPT
       !.on = d.on, !.cur = IF d.conf > d.cur THEN d.conf ELSE d.cur,
       !.vote.epoch = d.voted, !.conf = d.conf, !.slaves = d.slaves,
       !.peer = [p \in DOMAIN @ |-> [NoPeer EXCEPT !.run = d.run[p]]]]
=============================================================================
