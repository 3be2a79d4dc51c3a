------------------------------- MODULE PubSub -------------------------------
(***************************************************************************)
(* Channels and patterns.  The server has, per channel, the list of its    *)
(* clients, and one list of pairs of a client and a pattern; a client has  *)
(* its channels and its patterns.                                          *)
(***************************************************************************)
EXTENDS ClientState

SubscriptionsCount(s, c) == Cardinality(s.c[c].subs) + Len(s.c[c].pats)
\* UNSUBSCRIBE leaves the mode of a subscriber with the last channel.
LeavePubSub(s, c) == IF SubscriptionsCount(s, c) = 0 THEN Clear(s, c, {"pubsub"}) ELSE s

SubscribeChannel(s, c, ch) ==
    IF ch \in s.c[c].subs THEN s
    ELSE [s EXCEPT !.c[c].subs = @ \cup {ch}, !.channels[ch] = Append(@, c)]
UnsubscribeChannel(s, c, ch) ==
    IF ch \notin s.c[c].subs THEN s
    ELSE [s EXCEPT !.c[c].subs = @ \ {ch}, !.channels[ch] = Without(@, c)]
SubscribePattern(s, c, p) ==
    IF p \in ToSet(s.c[c].pats) THEN s
    ELSE [s EXCEPT !.c[c].pats = Append(@, p), !.patterns = Append(@, <<c, p>>)]
UnsubscribePattern(s, c, p) ==
    IF p \notin ToSet(s.c[c].pats) THEN s
    ELSE [s EXCEPT !.c[c].pats = Without(@, p), !.patterns = Without(@, <<c, p>>)]

\* Its channels one after the other; their order makes no difference.
UnsubscribeAllChannels(s, c) ==
    [s EXCEPT !.c[c].subs = {},
              !.channels = [ch \in Channels |-> IF ch \in s.c[c].subs THEN Without(@[ch], c) ELSE @[ch]]]
UnsubscribeAllPatterns(s, c) ==
    ForEach(s, s.c[c].pats, LAMBDA u, p : UnsubscribePattern(u, c, p))
UnsubscribeAll(s, c) == UnsubscribeAllPatterns(UnsubscribeAllChannels(s, c), c)

SubscribeCommand(s, c, ch) ==
    Raise(Reply(SubscribeChannel(s, c, ch), c, "subscribe"), c, "pubsub")
UnsubscribeCommand(s, c, ch) ==
    LeavePubSub(Reply(UnsubscribeChannel(s, c, ch), c, "unsubscribe"), c)
PsubscribeCommand(s, c, p) ==
    Raise(Reply(SubscribePattern(s, c, p), c, "psubscribe"), c, "pubsub")
PunsubscribeCommand(s, c, p) ==
    LeavePubSub(Reply(UnsubscribePattern(s, c, p), c, "punsubscribe"), c)

\* Those who listen to the channel first, then those of the patterns.
PublishMessage(s, ch) ==
    LET t == ForEach(s, s.channels[ch], LAMBDA u, c : Reply(u, c, "message"))
    IN ForEach(t, s.patterns, LAMBDA u, p : IF ch \in p[2] THEN Reply(u, p[1], "pmessage") ELSE u)
PublishCommand(s, c, ch) == Reply(PublishMessage(s, ch), c, "int")

=============================================================================
