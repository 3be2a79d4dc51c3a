------------------------------ MODULE Blocking ------------------------------
(***************************************************************************)
(* BLPOP, BRPOP and BRPOPLPUSH: clients that wait for a list, in the order *)
(* in which they began to, and the keys that became lists while a command  *)
(* ran, which are served when it is done.                                  *)
(***************************************************************************)
EXTENDS Transactions

\* `isready' is db->ready_keys, the set beside the list server.ready_keys.
SignalListAsReady(s, k) ==
    IF s.waiting[k] = <<>> \/ k \in s.isready THEN s
    ELSE [s EXCEPT !.ready = Append(@, k), !.isready = @ \cup {k}]

\* dbAdd.
DbAdd(s, k, v) ==
    LET t == [s EXCEPT !.db[k] = v]
    IN IF IsList(v) THEN SignalListAsReady(t, k) ELSE t
DbDelete(s, k) == [s EXCEPT !.db[k] = NoKey, !.gone = @ \cup ToSet(Items(s.db[k]))]
DeleteIfEmpty(s, k) == IF s.db[k] = <<>> THEN DbDelete(s, k) ELSE s

-----------------------------------------------------------------------------

BlockForKeys(s, c, keys, timeout, target, head) ==
    LET new == ToSet(keys)
    IN [Raise(s, c, "blocked") EXCEPT
            !.c[c] = [@ EXCEPT !.keys = new, !.timeout = timeout, !.target = target, !.head = head],
            !.waiting = [k \in Keys |-> IF k \in new THEN Append(@[k], c) ELSE @[k]]]

UnblockClientWaitingData(s, c) ==
    [s EXCEPT !.waiting = [k \in Keys |-> IF k \in s.c[c].keys THEN Without(@[k], c) ELSE @[k]],
              !.c[c].keys = {}, !.c[c].target = None]

\* Fault: what is in the query buffer is left to the next read.
UnblockClient_Unlisted(s, c) == Clear(UnblockClientWaitingData(s, c), c, {"blocked"})
UnblockClient(s, c) ==
    [Raise(Clear(UnblockClientWaitingData(s, c), c, {"blocked"}), c, "unblocked")
        EXCEPT !.unblocked = Append(@, c)]

DisconnectAllBlockedClients(s) ==
    ForEach(s, s.clients,
            LAMBDA u, c : IF Has(u, c, "blocked")
                          THEN Raise(UnblockClient(Reply(u, c, "unblocked"), c), c, "close_after_reply")
                          ELSE u)

\* BLPOP and BRPOPLPUSH answer alike when their time is over.
ReplyToBlockedClientTimedOut(s, c) == Reply(s, c, "nil")

-----------------------------------------------------------------------------
(* Serving. *)

\* Fault: the key that gets the element is not signalled as modified.
RpopLpushHandlePush_Quietly(s, c, k, v) ==
    LET t == IF s.db[k] = NoKey THEN DbAdd(s, k, <<>>) ELSE s
    IN ReplyWith([t EXCEPT !.db = Pushed(@, k, v, TRUE)], c, "moved", <<>>)
RpopLpushHandlePush(s, c, k, v) ==
    LET t == TouchWatchedKey(IF s.db[k] = NoKey THEN DbAdd(s, k, <<>>) ELSE s, k)
    IN ReplyWith([t EXCEPT !.db = Pushed(@, k, v, TRUE)], c, "moved", <<>>)

\* serveClientBlockedOnList and the pop before it, undone when the push fails.
\* Fault: it is not undone.
ServeClient_Drops(s, k, c) ==
    LET me == s.c[c]
        v == First(s.db, k, me.head)
        t == UnblockClient([s EXCEPT !.db = Rest(@, k, me.head)], c)
    IN IF me.target = None
       THEN ReplyWith(Propagate(t, [op |-> "pop", k |-> k, head |-> me.head]), c, "pop", <<v>>)
       ELSE IF s.db[me.target] = Text THEN Reply(t, c, "wrongtype")
       ELSE Propagate(RpopLpushHandlePush(Propagate(t, [op |-> "pop", k |-> k, head |-> FALSE]), c, me.target, v),
                      [op |-> "push", k |-> me.target, v |-> v, head |-> TRUE])
ServeClient(s, k, c) ==
    LET me == s.c[c]
        v == First(s.db, k, me.head)
        t == UnblockClient([s EXCEPT !.db = Rest(@, k, me.head)], c)
    IN IF me.target = None
       THEN ReplyWith(Propagate(t, [op |-> "pop", k |-> k, head |-> me.head]), c, "pop", <<v>>)
       ELSE IF s.db[me.target] = Text
       THEN Reply([t EXCEPT !.db = Pushed(@, k, v, me.head)], c, "wrongtype")
       ELSE Propagate(RpopLpushHandlePush(Propagate(t, [op |-> "pop", k |-> k, head |-> FALSE]), c, me.target, v),
                      [op |-> "push", k |-> me.target, v |-> v, head |-> TRUE])

\* The clients that wait for k, as long as it has elements.
ServeKey(s, k) ==
    LET t == [s EXCEPT !.isready = @ \ {k}]
        served == ForEach(t, t.waiting[k], LAMBDA u, c : IF u.db[k] = <<>> THEN u ELSE ServeClient(u, k, c))
    IN IF IsList(t.db[k]) THEN DeleteIfEmpty(served, k) ELSE t

ServeKeys(s) ==
    IF s.ready = <<>> THEN s ELSE ForEach([s EXCEPT !.ready = <<>>], s.ready, ServeKey)

\* Fault: what became ready while others were served waits for the next command.
HandleClientsBlockedOnLists_Once(s) == ServeKeys(s)
\* Serving a BRPOPLPUSH makes another key ready, and takes its client away:
\* there are no more rounds than clients, and one.
HandleClientsBlockedOnLists(s) ==
    ForEach(s, [n \in 1..(Cardinality(Clients) + 1) |-> n], LAMBDA u, n : ServeKeys(u))

-----------------------------------------------------------------------------
(* Commands.  `multi' is set while EXEC runs. *)

\* blockingPopGenericCommand: the first key that holds a list decides.
BlockingPop(s, c, cmd, until) ==
    LET used == {i \in DOMAIN cmd.keys : s.db[cmd.keys[i]] # NoKey}
        k == cmd.keys[CHOOSE i \in used : \A j \in used : i <= j]
        t == [s EXCEPT !.db = Rest(@, k, cmd.head)]
    IN IF used = {}
       THEN IF Has(s, c, "multi") THEN Reply(s, c, "nil")
            ELSE BlockForKeys(s, c, cmd.keys, until, None, cmd.head)
       ELSE IF s.db[k] = Text THEN Reply(s, c, "wrongtype")
       ELSE Propagate(TouchWatchedKey(DeleteIfEmpty(ReplyWith(t, c, "pop", <<First(s.db, k, cmd.head)>>), k), k),
                      [op |-> "pop", k |-> k, head |-> cmd.head])

RpopLpushCommand(s, c, cmd) ==
    LET t == RpopLpushHandlePush([s EXCEPT !.db = Rest(@, cmd.k, FALSE)], c, cmd.dst, First(s.db, cmd.k, FALSE))
    IN IF s.db[cmd.k] = NoKey THEN Reply(s, c, "nil")
       ELSE IF Text \in {s.db[cmd.k], s.db[cmd.dst]} THEN Reply(s, c, "wrongtype")
       ELSE Propagate(TouchWatchedKey(DeleteIfEmpty(t, cmd.k), cmd.k),
                      [op |-> "rpoplpush", k |-> cmd.k, dst |-> cmd.dst])

BrpopLpushCommand(s, c, cmd, until) ==
    IF s.db[cmd.k] = NoKey /\ ~Has(s, c, "multi")
    THEN BlockForKeys(s, c, <<cmd.k>>, until, cmd.dst, FALSE)
    ELSE RpopLpushCommand(s, c, cmd)

\* LPUSH and RPUSH.
PushCommand(s, c, cmd) ==
    LET t == IF s.db[cmd.k] = NoKey THEN DbAdd(s, cmd.k, <<>>) ELSE s
    IN IF s.db[cmd.k] = Text THEN Reply(s, c, "wrongtype")
       ELSE Propagate(Reply(TouchWatchedKey([t EXCEPT !.db = Pushed(@, cmd.k, cmd.v, cmd.head), !.pushed = @ \cup {cmd.v}],
                                            cmd.k), c, "int"), cmd)

\* LPOP and RPOP.
PopCommand(s, c, cmd) ==
    LET t == [s EXCEPT !.db = Rest(@, cmd.k, cmd.head)]
    IN IF s.db[cmd.k] = NoKey THEN Reply(s, c, "nil")
       ELSE IF s.db[cmd.k] = Text THEN Reply(s, c, "wrongtype")
       ELSE Propagate(TouchWatchedKey(DeleteIfEmpty(ReplyWith(t, c, "pop", <<First(s.db, cmd.k, cmd.head)>>), cmd.k),
                                      cmd.k), cmd)

=============================================================================
