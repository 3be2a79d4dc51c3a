---------------------------- MODULE ClusterState ----------------------------
(***************************************************************************)
(* What one node of a Redis Cluster holds in memory (clusterState and      *)
(* clusterNode of cluster.h) and the operations of cluster.c on it: the    *)
(* table of the nodes it knows, who it believes serves each slot, the      *)
(* epochs, the failure reports.  An operation maps the state of the node   *)
(* to its next state; the messages it sends are collected in `out' and the *)
(* work it leaves for the end of the iteration of the event loop in        *)
(* `todo' (clusterDoBeforeSleep), until the step of Cluster takes both.    *)
(* A node is named by its id, and its address is fixed.                    *)
(***************************************************************************)
EXTENDS Integers, FiniteSets, FiniteSetsExt

CONSTANTS Nodes, Slots, Keys, None,
          IdOf,          \* the order of the node ids (memcmp of the names)
          SlotOf,        \* keyHashSlot: the slot of each key
          FullCoverage,  \* cluster-require-full-coverage
          Barrier        \* cluster-migration-barrier

ASSUME ClusterAssumption ==
    /\ IsFiniteSet(Nodes) /\ IsFiniteSet(Slots) /\ None \notin Nodes
    /\ IdOf \in [Nodes -> Nat] /\ \A m, n \in Nodes : IdOf[m] = IdOf[n] => m = n
    /\ SlotOf \in [Keys -> Slots]
    /\ FullCoverage \in BOOLEAN /\ Barrier \in Nat

\* What a node knows of another one it has just heard of.
NewNode == [known |-> TRUE, role |-> "master", of |-> None, slaves |-> {},
            epoch |-> 0, fail |-> "no", failedLong |-> FALSE, reports |-> {},
            pinged |-> FALSE, votedLately |-> FALSE, migrateTo |-> FALSE]
Unknown == [NewNode EXCEPT !.known = FALSE]

NoElection == [phase |-> "over", sent |-> FALSE, count |-> 0, epoch |-> 0]
NoManual == [on |-> FALSE, start |-> FALSE, slave |-> None, offset |-> 0]

\* clusterInit: a node that has no nodes.conf.
FreshNode(n) ==
    [me |-> n, cur |-> 0, vote |-> 0,
     view |-> [m \in Nodes |-> IF m = n THEN NewNode ELSE Unknown],
     owner |-> [x \in Slots |-> None], migrating |-> [x \in Slots |-> None],
     importing |-> [x \in Slots |-> None], size |-> 1, ok |-> FALSE,
     minority |-> FALSE, starting |-> TRUE, shake |-> [m \in Nodes |-> "no"],
     banned |-> {}, keys |-> {}, offset |-> 0, aged |-> FALSE, paused |-> FALSE,
     el |-> NoElection, mf |-> NoManual, todo |-> {}, out |-> {}]

DoBeforeSleep(s, what) == [s EXCEPT !.todo = @ \cup what]

Me(s) == s.view[s.me]
MyMaster(s) == Me(s).of
Known(s) == {n \in Nodes : s.view[n].known}
Others(s) == Known(s) \ {s.me}
NodeIsMaster(s, n) == s.view[n].role = "master"
NodeIsSlave(s, n) == s.view[n].role = "slave"
NodeFailed(s, n) == s.view[n].fail = "fail"
NodeTimedOut(s, n) == s.view[n].fail = "pfail"
SlotsOf(s, n) == {x \in Slots : s.owner[x] = n}
KeysIn(s, X) == {k \in s.keys : SlotOf[k] \in X}

-----------------------------------------------------------------------------
(* Slots. *)

DelSlots(s, X) ==
    [s EXCEPT !.owner = [x \in Slots |-> IF x \in X THEN None ELSE @[x]]]
AddSlots(s, n, X) ==
    [s EXCEPT !.owner = [x \in Slots |-> IF x \in X THEN n ELSE @[x]]]
CloseAllSlots(s) ==
    [s EXCEPT !.migrating = [x \in Slots |-> None], !.importing = [x \in Slots |-> None]]

-----------------------------------------------------------------------------
(* Masters and their slaves.  The list a master has of its slaves and the  *)
(* master each slave points to are two things, and can disagree.           *)

NodeRemoveSlave(s, m, n) ==
    IF n \notin s.view[m].slaves THEN s
    ELSE [s EXCEPT !.view[m].slaves = @ \ {n},
                   !.view[m].migrateTo = @ /\ s.view[m].slaves # {n}]
NodeAddSlave(s, m, n) ==
    IF n \in s.view[m].slaves THEN s
    ELSE [s EXCEPT !.view[m].slaves = @ \cup {n}, !.view[m].migrateTo = TRUE]

LeaveMaster(s, n) ==
    IF s.view[n].of = None THEN s ELSE NodeRemoveSlave(s, s.view[n].of, n)

CountNonFailingSlaves(s, m) ==
    Cardinality({n \in s.view[m].slaves : ~NodeFailed(s, n)})

SetNodeAsMaster(s, n) ==
    IF NodeIsMaster(s, n) THEN s
    ELSE DoBeforeSleep(
           [LeaveMaster(s, n) EXCEPT
              !.view[n].role = "master", !.view[n].of = None,
              !.view[n].migrateTo = @ \/ (n # s.me /\ s.view[n].of # None)],
           {"save", "state"})

ResetManualFailover(s) ==
    [s EXCEPT !.mf = NoManual, !.paused = @ /\ ~s.mf.on]

\* clusterSetMaster: this node becomes a slave of n, or moves to it.
SetMaster(s, n) ==
    LET a == IF NodeIsMaster(s, s.me)
             THEN CloseAllSlots([s EXCEPT !.view[s.me].role = "slave",
                                          !.view[s.me].migrateTo = FALSE])
             ELSE LeaveMaster(s, s.me)
    IN ResetManualFailover(NodeAddSlave([a EXCEPT !.view[s.me].of = n], n, s.me))

\* clusterDelNode and freeClusterNode: only the slaves the node lists lose
\* their master, and only if it is a master now.
DelNode(s, n) ==
    LET noSlot(f) == [x \in Slots |-> IF f[x] = n THEN None ELSE f[x]]
        orphans == IF NodeIsMaster(s, n) THEN s.view[n].slaves ELSE {}
        a == IF NodeIsSlave(s, n) THEN LeaveMaster(s, n) ELSE s
    IN [a EXCEPT !.owner = noSlot(@), !.migrating = noSlot(@), !.importing = noSlot(@),
                 !.view = [m \in Nodes |->
                    IF m = n THEN Unknown
                    ELSE [@[m] EXCEPT !.reports = @ \ {n},
                                      !.of = IF m \in orphans THEN None ELSE @]]]

-----------------------------------------------------------------------------
(* Epochs. *)

GetMaxEpoch(s) == Max({s.cur} \cup {s.view[n].epoch : n \in Known(s)})

TakeNextEpoch(s) == [s EXCEPT !.cur = @ + 1, !.view[s.me].epoch = s.cur + 1]

BumpConfigEpochWithoutConsensus(s) ==
    IF Me(s).epoch = 0 \/ Me(s).epoch # GetMaxEpoch(s)
    THEN DoBeforeSleep(TakeNextEpoch(s), {"save"})
    ELSE s

\* Of two nodes that collide the one with the smaller id moves on.
HandleConfigEpochCollision(s, sender) ==
    IF /\ s.view[sender].epoch = Me(s).epoch
       /\ NodeIsMaster(s, sender) /\ NodeIsMaster(s, s.me)
       /\ IdOf[sender] > IdOf[s.me]
    THEN DoBeforeSleep(TakeNextEpoch(s), {"save"})
    ELSE s

\* clusterUpdateSlotsConfigWith: the slots X that n claims with epoch e.
UpdateSlotsConfigWith(s, n, e, X) ==
    LET curmaster == IF NodeIsMaster(s, s.me) THEN s.me ELSE MyMaster(s)
        newer(x) == s.owner[x] = None \/ s.view[s.owner[x]].epoch < e
        moved == {x \in X : s.owner[x] # n /\ s.importing[x] = None /\ newer(x)}
        dirty == KeysIn(s, moved \cap SlotsOf(s, s.me))
        a == IF moved = {} THEN s
             ELSE DoBeforeSleep(AddSlots(s, n, moved), {"save", "state"})
        robbed == curmaster # None /\ moved \cap SlotsOf(s, curmaster) # {}
    IN IF n = s.me THEN s
       ELSE IF robbed /\ SlotsOf(a, curmaster) = {}
            THEN DoBeforeSleep(SetMaster(a, n), {"save", "state"})
            ELSE [a EXCEPT !.keys = @ \ dirty]

-----------------------------------------------------------------------------
(* Failure detection and the state of the cluster. *)

Quorum(s) == s.size \div 2 + 1

\* The caller broadcasts FAIL when the node is newly marked and this node is
\* a master.
MarkNodeAsFailingIfNeeded(s, n) ==
    LET failures == Cardinality(s.view[n].reports) + (IF NodeIsMaster(s, s.me) THEN 1 ELSE 0)
    IN IF ~NodeTimedOut(s, n) \/ failures < Quorum(s) THEN s
       ELSE DoBeforeSleep([s EXCEPT !.view[n].fail = "fail", !.view[n].failedLong = FALSE],
                          {"save", "state"})

\* Fault: a master that still has slots stays failed for ever.
ClearNodeFailureIfNeeded_Never(s, n) ==
    IF NodeIsSlave(s, n) \/ SlotsOf(s, n) = {}
    THEN DoBeforeSleep([s EXCEPT !.view[n].fail = "no"], {"save", "state"})
    ELSE s
ClearNodeFailureIfNeeded(s, n) ==
    IF NodeIsSlave(s, n) \/ SlotsOf(s, n) = {} \/ s.view[n].failedLong
    THEN DoBeforeSleep([s EXCEPT !.view[n].fail = "no"], {"save", "state"})
    ELSE s

\* clusterUpdateState.  `starting' and `minority' stand for the two delays
\* of a master: 2 seconds after its start, and the rejoin delay since it was
\* last with the minority.
UpdateState(s) ==
    LET masters == {n \in Known(s) : NodeIsMaster(s, n) /\ SlotsOf(s, n) # {}}
        reachable == {n \in masters : s.view[n].fail = "no"}
        covered == \A x \in Slots : s.owner[x] # None /\ ~NodeFailed(s, s.owner[x])
        few == Cardinality(reachable) < Cardinality(masters) \div 2 + 1
        up == (FullCoverage => covered) /\ ~few
        a == [s EXCEPT !.todo = @ \ {"state"}, !.size = Cardinality(masters),
                       !.minority = @ \/ few]
    IN IF NodeIsMaster(s, s.me) /\ ~s.ok /\ s.starting
       THEN [s EXCEPT !.todo = @ \ {"state"}]
       ELSE IF up /\ ~s.ok /\ NodeIsMaster(s, s.me) /\ a.minority THEN a
       ELSE [a EXCEPT !.ok = up]

-----------------------------------------------------------------------------
(* nodes.conf *)

SavedConfig(s) ==
    [cur |-> s.cur, vote |-> s.vote, owner |-> s.owner,
     migrating |-> s.migrating, importing |-> s.importing,
     nodes |-> [n \in Nodes |->
        [known |-> s.view[n].known, role |-> s.view[n].role, of |-> s.view[n].of,
         epoch |-> s.view[n].epoch, fail |-> s.view[n].fail, pinged |-> s.view[n].pinged]]]

\* clusterLoadConfig, when the node starts again with the keys it loads.
LoadedConfig(n, d, keys, offset) ==
    LET known(m) == d.nodes[m].known
        slavesOf(m) == {k \in Nodes : known(k) /\ d.nodes[k].of = m}
        entry(m) == [NewNode EXCEPT
                       !.role = d.nodes[m].role, !.of = d.nodes[m].of,
                       !.slaves = slavesOf(m), !.migrateTo = slavesOf(m) # {},
                       !.epoch = d.nodes[m].epoch, !.fail = d.nodes[m].fail,
                       !.pinged = d.nodes[m].pinged]
    IN [FreshNode(n) EXCEPT
          !.cur = Max({d.cur} \cup {d.nodes[m].epoch : m \in {k \in Nodes : known(k)}}),
          !.vote = d.vote, !.owner = d.owner,
          !.migrating = d.migrating, !.importing = d.importing,
          !.keys = keys, !.offset = offset,
          !.view = [m \in Nodes |-> IF known(m) THEN entry(m) ELSE Unknown]]

\* verifyClusterConfigWithData: a master with keys in a slot takes the slot if
\* nobody has it, and imports it if another node does.
VerifyConfigWithData(s) ==
    LET stray == {x \in {SlotOf[k] : k \in s.keys} :
                    s.owner[x] # s.me /\ s.importing[x] = None}
    IN IF NodeIsSlave(s, s.me) THEN s
       ELSE [s EXCEPT
               !.owner = [x \in Slots |-> IF x \in stray /\ @[x] = None THEN s.me ELSE @[x]],
               !.importing = [x \in Slots |-> IF x \in stray THEN s.owner[x] ELSE @[x]],
               !.todo = IF stray = {} THEN {} ELSE {"save"}]
=============================================================================
