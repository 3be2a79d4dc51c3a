----------------------------- MODULE MCCluster -----------------------------
(***************************************************************************)
(* A cluster of the masters A, B and C and the slaves S and T, in plays    *)
(* small enough for TLC, each about one thing that is hard to test.        *)
(***************************************************************************)
EXTENDS Reshard

NodesDef == {"A", "B", "C", "S", "T"}
IdOfDef == "A" :> 1 @@ "B" :> 2 @@ "C" :> 3 @@ "S" :> 4 @@ "T" :> 5
SlotOfDef == "k" :> 1 @@ "l" :> 1

\* A cluster where everybody knows the same: who serves each slot, who
\* replicates whom (slaves), the epoch of each master, and the nodes that
\* are in it.
Agreed(nodes, owner, master, epoch) ==
    LET masters == {n \in nodes : n \notin DOMAIN master}
        slavesOf(m) == {n \in DOMAIN master : master[n] = m}
        epochOf(n) == IF n \in masters THEN epoch[n] ELSE epoch[master[n]]
        entry(n) == [NewNode EXCEPT
                       !.role = IF n \in masters THEN "master" ELSE "slave",
                       !.of = IF n \in masters THEN None ELSE master[n],
                       !.slaves = slavesOf(n), !.migrateTo = slavesOf(n) # {},
                       !.epoch = epochOf(n)]
    IN [n \in Nodes |->
          IF n \notin nodes THEN FreshNode(n)
          ELSE [FreshNode(n) EXCEPT
                  !.view = [m \in Nodes |-> IF m \in nodes THEN entry(m) ELSE Unknown],
                  !.owner = owner, !.starting = FALSE,
                  !.cur = Max({epochOf(m) : m \in masters}),
                  !.size = Cardinality({owner[x] : x \in Slots} \ {None}),
                  !.ok = \A x \in Slots : owner[x] # None]]

\* What a play leaves at these values: no losses, no crashes, nothing moves.
Play(nodes, start, ops, pings, flight, epochs) ==
    [nodes |-> nodes, node |-> start, ops |-> ops, pings |-> pings, flight |-> flight,
     epochs |-> epochs, losses |-> 0, mortal |-> {},
     slot |-> 1, from |-> None, to |-> None, masters |-> {}, writers |-> {}, slots |-> {}]

ThreeSlots == 1 :> "A" @@ 2 :> "B" @@ 3 :> "C"
ThreeEpochs == "A" :> 1 @@ "B" :> 2 @@ "C" :> 3

\* The master C is down and everybody knows; S and T want its place.
Bereaved(start) ==
    [n \in Nodes |-> IF start[n].view["C"].known
                     THEN [start[n] EXCEPT !.view["C"].fail = "fail",
                                           !.view["C"].failedLong = TRUE, !.ok = FALSE]
                     ELSE start[n]]
Orphans(nodes) == [n \in nodes \cap {"S", "T"} |-> "C"]
ElectionStart(nodes) == Bereaved(Agreed(nodes, ThreeSlots, Orphans(nodes), ThreeEpochs))
Election == Play(Nodes \ {"C"}, ElectionStart(Nodes), {"tick"}, {}, 5, 4)
\* The same, the delays of both just over, and the voters may crash.
Revote == [Play(Nodes \ {"C"}, [n \in Nodes |-> [ElectionStart(Nodes)[n] EXCEPT
                 !.el.phase = IF n \in {"S", "T"} THEN "open" ELSE @]],
                {"restart"}, {}, 5, 4) EXCEPT !.mortal = {"A", "B"}]

\* Three masters that have just met: they all have the same epoch.
Trio == {"A", "B", "C"}
Ring == {<<"A", "B">>, <<"B", "C">>, <<"A", "C">>}
Collide == Play(Trio, Agreed(Trio, ThreeSlots, <<>>, [n \in Nodes |-> 0]), {}, Ring, 3, 5)

\* C fails, or is only slow, and comes back; nobody can take its place.
Detect == [Play(Trio, Agreed(Trio, ThreeSlots, <<>>, ThreeEpochs),
                {"restart", "long"}, Ring, 2, 4)
             EXCEPT !.mortal = {"C"}]

\* B took the place of C, the old master of slot 2, which comes back.
Rejoin ==
    LET new == Agreed(Trio, 1 :> "A" @@ 2 :> "B" @@ 3 :> "B", <<>>, [n \in Nodes |-> IF n = "B" THEN 2 ELSE IF n = "A" THEN 1 ELSE 0])
        old == Agreed(Trio, 1 :> "A" @@ 2 :> "C" @@ 3 :> "C", "B" :> "C", [n \in Nodes |-> IF n = "A" THEN 1 ELSE 0])
    IN [Play(Trio, [new EXCEPT !["C"] = [old["C"] EXCEPT !.cur = 1]], {}, Ring, 3, 4)
          EXCEPT !.losses = 2]

\* The slave S takes over from its living master B, which is written to.
Pair == {"B", "S"}
ManualStart == Agreed(Pair, [x \in Slots |-> "B"], "S" :> "B", ThreeEpochs)
Manual == [Play(Pair, [n \in Nodes |-> [ManualStart[n] EXCEPT !.offset = 1]],
                {"failover"}, {<<"B", "S">>}, 3, 3)
             EXCEPT !.writers = {"B", "S"}]
Forced == Play(Pair, ManualStart, {"tick", "force", "takeover"}, {}, 3, 4)

\* Slot 1 with the keys k and l moves from A to B.
MoveSlot1 == [Play({"A", "B"},
                  LET s == Agreed({"A", "B"}, 1 :> "A" @@ 2 :> "B" @@ 3 :> "B", <<>>, ThreeEpochs)
                  IN [s EXCEPT !["A"].keys = {"k", "l"}],
                  {"clients", "move", "migrate_timeout"}, {<<"A", "B">>}, 2, 3)
               EXCEPT !.from = "A", !.to = "B", !.masters = {"A", "B"}]

\* Two nodes get to know each other, and one is thrown out again.
Join == [Play({"A", "B"}, [n \in Nodes |-> FreshNode(n)],
              {"meet", "addslots", "set_epoch", "shake_timeout"}, {<<"A", "B">>}, 2, 2)
           EXCEPT !.slots = {1}]

\* Slots are given up, and B is thrown out or leaves.
Leave == [Play({"A", "B"}, Agreed({"A", "B"}, 1 :> "A" @@ 2 :> "B" @@ 3 :> "B", <<>>, ThreeEpochs),
               {"delslots", "flushslots", "replicate", "forget", "reset"}, {<<"A", "B">>}, 2, 3)
            EXCEPT !.slots = {1}]

\* A has lost its slaves, and C has two.
Migration ==
    Play({"A", "C", "S", "T"},
         LET s == Agreed({"A", "C", "S", "T"}, 1 :> "A" @@ 2 :> "C" @@ 3 :> "C",
                         "S" :> "C" @@ "T" :> "C", ThreeEpochs)
         IN [n \in Nodes |-> IF s[n].view["A"].known THEN [s[n] EXCEPT !.view["A"].migrateTo = TRUE] ELSE s[n]],
         {"migration"}, {<<"S", "A">>, <<"S", "C">>, <<"S", "T">>}, 2, 3)

MCPlays == "election" :> Election @@ "collide" :> Collide @@ "detect" :> Detect
           @@ "rejoin" :> Rejoin @@ "manual" :> Manual @@ "forced" :> Forced @@ "reshard" :> MoveSlot1
           @@ "join" :> Join @@ "leave" :> Leave @@ "migration" :> Migration
VotePlays == "revote" :> Revote
-----------------------------------------------------------------------------
Next ==
    \/ \E m \in net : Deliver(m) \/ Lose(m)
    \/ \E n, k \in Nodes : \/ SendPing(n, k) \/ Reconnect(n, k) \/ ConnectShake(n, k)
                           \/ ShakeTimeout(n, k) \/ Suspect(n, k)
                           \/ FailedLong(n, k) \/ Expire(n, k)
                           \/ Meet(n, k) \/ Forget(n, k) \/ Replicate(n, k)
    \/ \E n \in Nodes : \/ CronStep(n) \/ SlaveMigration(n) \/ Tick(n) \/ ManualTimeout(n)
                        \/ Crash(n) \/ Restart(n) \/ ChangeSlots(n) \/ Reset(n)
                        \/ Write(n) \/ Follow(n)
                        \/ SetConfigEpoch(n, 1)
                        \/ \E how \in {"failover", "force", "takeover"} : Failover(n, how)
    \/ \E c \in Clients : Start(c) \/ Command(c)
    \/ MoveSlot

\* The bus works: a link carries what is on it in both directions, a node
\* pings whom it should, links are made again, and clocks run.  This is weak
\* fairness of each of these actions, with the condition under which it can
\* happen written out (ENABLED of these steps is beyond TLC), for plays whose
\* nodes ping each other for ever.  A step is never due that a bound forbids.
First(n, k, back) ==
    {m \in net : m.from = n /\ m.to = k /\ m.at = 1 /\ (m.type = "pong" /\ m.via = "node") = back}
Arrives(n, k, back) ==
    \/ First(n, k, back) = {} \/ node[k].cur = Plays[play].epochs
    \/ \E m \in First(n, k, back) : Deliver(m)
Pings(n, k) ==
    \/ n \notin up \/ k \notin up \/ InFlight(n, k, "node") # {}
    \/ SendPing(n, k) \/ Reconnect(n, k)
Clock(n, k) ==
    \/ /\ ~node[n].starting /\ ~node[n].minority
       /\ node[n].view[k].fail = "fail" => node[n].view[k].failedLong
    \/ n \notin up \/ Tick(n) \/ FailedLong(n, k)
Fairness ==
    /\ \A p \in Ring :
          []<><<Pings(p[1], p[2])>>_vars
    /\ \A p \in {q \in Trio \X Trio : q[1] # q[2]} :
          /\ []<><<Clock(p[1], p[2])>>_vars
          /\ \A back \in BOOLEAN : []<><<Arrives(p[1], p[2], back)>>_vars

Spec == Init /\ [][Next]_vars /\ Fairness

-----------------------------------------------------------------------------
(* Two slaves never win the same epoch, unless a master forgot its vote in a *)
(* crash, or an answer came after the slave had started all over.            *)
OneWinnerPerEpoch ==
    (~faults.late /\ ~faults.forgot) =>
        \A v, w \in winners : v[1] = w[1] => v = w

NoTwoWinners == \A v, w \in winners : v[1] = w[1] => v = w

(* A slave that takes over by agreement with its master has all its writes.  *)
ManualKeepsWrites ==
    [][\A n \in Nodes :
         /\ NodeIsSlave(node[n], n) /\ NodeIsMaster(node'[n], n)
         /\ node[n].mf.offset # 0
         => node[n].offset = writes[MyMaster(node[n])]]_vars

(* A key lives on one master at most, unless a MIGRATE could not tell; and   *)
(* what clients have written is somewhere.                                   *)
KeysHaveOneHome ==
    /\ \A k \in Keys \ unsure :
          Cardinality({n \in up : NodeIsMaster(node[n], n) /\ k \in node[n].keys}) <= 1
    /\ play = "reshard" => data \subseteq UNION {node[n].keys : n \in Nodes}

(* Messages, losses, a crash and a return end in one view of the cluster:    *)
(* who serves each slot, no two masters with one epoch, nobody who is there  *)
(* believed to have failed.                                                  *)
Settled ==
    \A n, k \in up :
       /\ node[n].owner = node[k].owner
       /\ node[n].view[k].known => ~NodeFailed(node[n], k)
       /\ n # k /\ NodeIsMaster(node[n], n) /\ NodeIsMaster(node[k], k)
             => Me(node[n]).epoch # Me(node[k]).epoch
ClusterSettles == play \in {"collide", "detect", "rejoin"} => <>[]Settled
=============================================================================
