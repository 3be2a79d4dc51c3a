---------------------------- MODULE Transactions ----------------------------
(***************************************************************************)
(* MULTI, DISCARD and WATCH.  A key leads to the clients that watch it, a  *)
(* client to the keys it watches; `seen' keeps what a key held when the    *)
(* client began to watch it.  EXEC runs commands: it is in Clients.        *)
(***************************************************************************)
EXTENDS ClientState

WatchForKey(s, c, k) ==
    IF k \in ToSet(s.c[c].watched) THEN s
    ELSE [s EXCEPT !.watchers[k] = Append(@, c),
                   !.c[c].watched = Append(@, k),
                   !.c[c].seen = [j \in DOMAIN @ \cup {k} |-> IF j = k THEN s.db[k] ELSE @[j]]]

UnwatchAllKeys(s, c) ==
    [s EXCEPT !.watchers = [k \in Keys |-> IF k \in ToSet(s.c[c].watched) THEN Without(@[k], c) ELSE @[k]],
              !.c[c].watched = <<>>, !.c[c].seen = <<>>]

TouchWatchedKey(s, k) == ForEach(s, s.watchers[k], LAMBDA u, c : Raise(u, c, "dirty_cas"))

\* Only the keys that exist are removed by a flush.
TouchWatchedKeysOnFlush(s) ==
    ForEach(s, s.clients, LAMBDA u, c : IF \E k \in ToSet(u.c[c].watched) : u.db[k] # NoKey
                                        THEN Raise(u, c, "dirty_cas") ELSE u)

DiscardTransaction(s, c) ==
    UnwatchAllKeys([Clear(s, c, {"multi", "dirty_cas", "dirty_exec"}) EXCEPT !.c[c].queue = <<>>], c)

FlagTransaction(s, c) == IF Has(s, c, "multi") THEN Raise(s, c, "dirty_exec") ELSE s

QueueMultiCommand(s, c, cmd) == Reply([s EXCEPT !.c[c].queue = Append(@, cmd)], c, "queued")

MultiCommand(s, c) ==
    IF Has(s, c, "multi") THEN Reply(s, c, "err") ELSE Reply(Raise(s, c, "multi"), c, "ok")
DiscardCommand(s, c) ==
    IF ~Has(s, c, "multi") THEN Reply(s, c, "err") ELSE Reply(DiscardTransaction(s, c), c, "ok")
WatchCommand(s, c, k) ==
    IF Has(s, c, "multi") THEN Reply(s, c, "err") ELSE Reply(WatchForKey(s, c, k), c, "ok")
UnwatchCommand(s, c) == Reply(Clear(UnwatchAllKeys(s, c), c, {"dirty_cas"}), c, "ok")

=============================================================================
