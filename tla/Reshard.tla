------------------------------ MODULE Reshard ------------------------------
(***************************************************************************)
(* A slot moves from one master to another while clients use its keys:     *)
(* CLUSTER SETSLOT on both sides, MIGRATE of the keys, and the node that   *)
(* each command of a client is sent on to (getNodeByQuery).                *)
(***************************************************************************)
EXTENDS Cluster

\* getNodeByQuery on node state s, for a command on the keys K of a client
\* that has sent ASKING or not: who serves it, and the error otherwise.
\* Fault: a master that is migrating a slot serves the keys it lacks too.
GetNodeByQuery_NoAsk(s, K, asking, readonly) ==
    LET x == SlotOf[CHOOSE k \in K : TRUE]
        owner == s.owner[x]
    IN [node |-> IF s.importing[x] # None /\ asking THEN s.me ELSE owner,
        error |-> IF owner = s.me \/ (s.importing[x] # None /\ asking) THEN "none" ELSE "moved"]
GetNodeByQuery(s, K, asking, readonly) ==
    LET x == SlotOf[CHOOSE k \in K : TRUE]
        owner == s.owner[x]
        missing == K \ s.keys # {}
        migrating == owner = s.me /\ s.migrating[x] # None
        importing == ~migrating /\ s.importing[x] # None
        to(n, error) == [node |-> n, error |-> error]
    IN CASE owner = None -> to(None, "unbound")
         [] \E k \in K : SlotOf[k] # x -> to(None, "crossslot")
         [] migrating /\ missing -> to(s.migrating[x], "ask")
         [] importing /\ asking ->
              IF Cardinality(K) > 1 /\ missing THEN to(None, "tryagain") ELSE to(s.me, "none")
         [] readonly /\ NodeIsSlave(s, s.me) /\ MyMaster(s) = owner -> to(s.me, "none")
         [] OTHER -> to(owner, IF owner = s.me THEN "none" ELSE "moved")

\* processCommand: nothing is served while the cluster is down.
Route(s, K, asking, readonly) ==
    IF s.ok THEN GetNodeByQuery(s, K, asking, readonly) ELSE [node |-> None, error |-> "down"]

-----------------------------------------------------------------------------
(* Clients.  A write creates the keys it lacks; a DEL removes them. *)

Start(c) ==
    /\ On("clients") /\ client[c] = Idle
    /\ \E K \in (SUBSET Keys) \ {{}}, n \in up :
          client' = [client EXCEPT ![c] = [keys |-> K, to |-> n, asking |-> FALSE]]
    /\ UNCHANGED <<play, node, disk, net, up, winners, faults, writes, data, unsure, moving>>

Command(c) ==
    LET q == client[c]
        n == q.to
        r == Route(node[n], q.keys, q.asking, FALSE)
        run(had, now) ==
            /\ node' = [node EXCEPT ![n].keys = now]
            /\ data' = (data \ had) \cup (now \cap q.keys)
            /\ client' = [client EXCEPT ![c] = Idle]
    IN /\ q # Idle /\ n \in up
       /\ CASE r.error = "none" -> \/ run({}, node[n].keys \cup q.keys)
                                   \/ run(q.keys, node[n].keys \ q.keys)
            [] r.error \in {"ask", "moved"} ->
                 /\ client' = [client EXCEPT ![c] =
                      [keys |-> q.keys, to |-> r.node, asking |-> r.error = "ask"]]
                 /\ UNCHANGED <<node, data>>
            [] OTHER -> client' = [client EXCEPT ![c] = Idle] /\ UNCHANGED <<node, data>>
       /\ UNCHANGED <<play, disk, net, up, winners, faults, writes, unsure, moving>>

-----------------------------------------------------------------------------
(* CLUSTER SETSLOT, on the state of a node. *)

\* MIGRATING of a slot it has, IMPORTING of one it has not.
SetSlotOpen(s, x, k) ==
    DoBeforeSleep(IF s.owner[x] = s.me THEN [s EXCEPT !.migrating[x] = k]
                  ELSE [s EXCEPT !.importing[x] = k], {"save", "state"})

\* NODE: refused while there are keys of a slot that goes away.  The node that
\* imported the slot takes a new epoch for it.
SetSlotNode(s, x, k) ==
    LET a == IF KeysIn(s, {x}) = {} THEN [s EXCEPT !.migrating[x] = None] ELSE s
        b == IF k = s.me /\ s.importing[x] # None
             THEN [BumpConfigEpochWithoutConsensus(a) EXCEPT !.importing[x] = None] ELSE a
    IN IF s.owner[x] = s.me /\ k # s.me /\ KeysIn(s, {x}) # {} THEN s
       ELSE DoBeforeSleep(AddSlots(b, k, {x}), {"save", "state"})

-----------------------------------------------------------------------------
(* MIGRATE: a RESTORE-ASKING of each key, and a DEL here of those the target *)
(* acknowledges.  The source waits for the replies, or for a timeout: then   *)
(* some keys may have arrived with no reply read, and stay on both sides.    *)
(* `moving' is the client that does it all, move_slot of redis-trib.         *)

\* RESTORE-ASKING without REPLACE: a key that is there is busy.
Restores(s, key) == Route(s, {key}, TRUE, FALSE).error = "none" /\ key \notin s.keys

Migrate(n, k, K) ==
    LET taken == {key \in K : Restores(node[k], key)}
    IN \E arrived \in SUBSET taken : \E read \in SUBSET arrived :
         /\ arrived # taken \/ read # arrived => On("migrate_timeout")
         /\ node' = [node EXCEPT ![n].keys = @ \ read,
                                 ![k].keys = @ \cup arrived]
         /\ unsure' = (unsure \cup (arrived \ read)) \ read
         /\ moving' = [moving EXCEPT !.step = IF read = K THEN "keys" ELSE "failed"]

MoveSlot ==
    LET x == Plays[play].slot
        from == Plays[play].from
        to == Plays[play].to
        next(n, s, step) ==
            /\ n \in up
            /\ Step(n, s, {}) /\ moving' = [moving EXCEPT !.step = step]
            /\ UNCHANGED <<client, data, unsure>>
    IN /\ On("move")
       /\ \/ /\ moving.step = "import"
             /\ next(to, SetSlotOpen(node[to], x, from), "migrate")
          \/ /\ moving.step = "migrate"
             /\ next(from, SetSlotOpen(node[from], x, to), "keys")
          \/ /\ moving.step = "keys" /\ {from, to} \subseteq up
             /\ LET K == KeysIn(node[from], {x})
                IN IF K = {}
                   THEN moving' = [moving EXCEPT !.step = "tell"] /\ UNCHANGED <<node, unsure>>
                   ELSE Migrate(from, to, K)
             /\ UNCHANGED <<play, disk, net, up, client, winners, faults, writes, data>>
          \/ /\ moving.step = "tell"
             /\ \E n \in Plays[play].masters \ moving.told :
                  /\ Step(n, SetSlotNode(node[n], x, to), {})
                  /\ moving' = [moving EXCEPT !.told = @ \cup {n}]
                  /\ UNCHANGED <<client, data, unsure>>
=============================================================================
