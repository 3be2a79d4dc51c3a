---------------------------- MODULE ClientState ----------------------------
(***************************************************************************)
(* The server as its clients see it: the connections, a small key space,   *)
(* and the lists that lead from a key or a channel to the clients that     *)
(* watch it, wait for it or listen to it.                                  *)
(* A key holds NoKey, Text (a string) or a list: a sequence of elements.   *)
(* An operation maps the state of the server to its next one.              *)
(***************************************************************************)
EXTENDS Integers, FiniteSets, SequencesExt

CONSTANTS Clients, Keys, Channels,   \* a pattern is a set of channels
          NoKey, Text, None,
          OutLimit    \* client-output-buffer-limit pubsub, in replies

\* createClient.
Connection(flags) ==
    [up |-> TRUE, flags |-> flags, in |-> <<>>, out |-> <<>>, got |-> <<>>,
     queue |-> <<>>, watched |-> <<>>, seen |-> <<>>,
     keys |-> {}, target |-> None, timeout |-> 0, head |-> TRUE,
     subs |-> {}, pats |-> <<>>]

Has(s, c, f) == f \in s.c[c].flags
Raise(s, c, f) == [s EXCEPT !.c[c].flags = @ \cup {f}]
Clear(s, c, F) == [s EXCEPT !.c[c].flags = @ \ F]

\* A list of clients without the first node that names c.
Without(l, c) == IF c \in ToSet(l) THEN RemoveAt(l, CHOOSE k \in DOMAIN l : l[k] = c /\ \A j \in 1..(k - 1) : l[j] # c)
                 ELSE l

\* Op for one element of q after the other.
ForEach(s, q, Op(_, _)) ==
    LET u[n \in 0..Len(q)] == IF n = 0 THEN s ELSE Op(u[n - 1], q[n]) IN u[Len(q)]

-----------------------------------------------------------------------------
(* Replies. *)

FreeClientAsync(s, c) ==
    IF Has(s, c, "close_asap") THEN s
    ELSE [Raise(s, c, "close_asap") EXCEPT !.toclose = Append(@, c)]

\* checkClientOutputBufferLimits: only the class of c has a limit here.
OverLimit(s, c) == Has(s, c, "pubsub") /\ Len(s.c[c].out) >= OutLimit

\* addReply; e are the elements the reply takes to the client.
ReplyWith(s, c, t, e) ==
    IF Has(s, c, "master") \/ Has(s, c, "close_after_reply") THEN s
    ELSE LET r == [s EXCEPT !.c[c].out = Append(@, [t |-> t, e |-> e])]
         IN IF OverLimit(r, c) THEN FreeClientAsync(r, c) ELSE r
Reply(s, c, t) == ReplyWith(s, c, t, <<>>)

-----------------------------------------------------------------------------
(* The data, and the copy that those who read the stream of commands have. *)

IsList(v) == v \notin {NoKey, Text}
Items(v) == IF IsList(v) THEN v ELSE <<>>
Pushed(db, k, v, head) == [db EXCEPT ![k] = IF head THEN <<v>> \o Items(@) ELSE Append(Items(@), v)]
First(db, k, head) == IF head THEN Head(db[k]) ELSE Last(db[k])
Rest(db, k, head) == [db EXCEPT ![k] = IF head THEN Tail(@) ELSE Front(@)]
\* A list that is empty goes.
Trimmed(db, k) == IF db[k] = <<>> THEN [db EXCEPT ![k] = NoKey] ELSE db
Popped(db, k, head) ==
    IF IsList(db[k]) /\ db[k] # <<>> THEN Trimmed(Rest(db, k, head), k) ELSE db

\* What a command of the stream does to the data of its reader.
Effect(db, cmd) ==
    CASE cmd.op = "set" -> [db EXCEPT ![cmd.k] = Text]
      [] cmd.op = "del" -> [db EXCEPT ![cmd.k] = NoKey]
      [] cmd.op = "push" -> Pushed(db, cmd.k, cmd.v, cmd.head)
      [] cmd.op = "pop" -> Popped(db, cmd.k, cmd.head)
      [] cmd.op = "rpoplpush" ->
            LET v == First(db, cmd.k, FALSE)
            IN Trimmed(Pushed(Rest(db, cmd.k, FALSE), cmd.dst, v, TRUE), cmd.k)
      [] cmd.op = "rename" -> [db EXCEPT ![cmd.dst] = db[cmd.k], ![cmd.k] = NoKey]
      [] cmd.op = "flush" -> [k \in Keys |-> NoKey]

\* propagate: the slaves and the log get the command.
Propagate(s, cmd) == IF s.slave THEN s ELSE [s EXCEPT !.copy = Effect(@, cmd)]

=============================================================================
