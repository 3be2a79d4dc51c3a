---------------------------- MODULE Connections ----------------------------
(***************************************************************************)
(* networking.c: clients come and go, are paused, and read and write their *)
(* sockets.  What the socket of a client brings is a sequence of commands; *)
(* `part' stands for a piece of the command after it, `noise' for what is  *)
(* not the protocol.                                                       *)
(***************************************************************************)
EXTENDS Blocking, PubSub

\* Fault: the client stays in the lists of those that watch.
FreeClient_Watches(s, c) ==
    LET t == IF Has(s, c, "blocked") THEN UnblockClient(s, c) ELSE s
        u == UnsubscribeAll(t, c)
    IN [u EXCEPT !.c[c] = [@ EXCEPT !.up = FALSE, !.in = <<>>, !.flags = {}, !.queue = <<>>],
                 !.clients = Without(@, c), !.toclose = Without(@, c),
                 !.unblocked = IF Has(u, c, "unblocked") THEN Without(@, c) ELSE @]
FreeClient(s, c) ==
    LET t == IF Has(s, c, "blocked") THEN UnblockClient(s, c) ELSE s
        u == UnsubscribeAll(UnwatchAllKeys(t, c), c)
    IN [u EXCEPT !.c[c] = [@ EXCEPT !.up = FALSE, !.in = <<>>, !.flags = {}, !.queue = <<>>],
                 !.clients = Without(@, c), !.toclose = Without(@, c),
                 !.unblocked = IF Has(u, c, "unblocked") THEN Without(@, c) ELSE @]

FreeClientsInAsyncFreeQueue(s) == ForEach(s, s.toclose, FreeClient)

-----------------------------------------------------------------------------
(* CLIENT PAUSE and CLIENT KILL. *)

PauseClients(s, end) ==
    [s EXCEPT !.pauseend = IF ~s.paused \/ end > @ THEN end ELSE @, !.paused = TRUE]

PauseIsOver(s) == s.paused /\ s.pauseend < s.mstime
\* What clientsArePaused does beside telling it: the time of the last cron
\* decides, and all that wait for the end are looked at again.
EndPause(s) ==
    IF ~PauseIsOver(s) THEN s
    ELSE ForEach([s EXCEPT !.paused = FALSE], s.clients,
                 LAMBDA u, c : IF Has(u, c, "blocked") THEN u
                               ELSE [Raise(u, c, "unblocked") EXCEPT !.unblocked = Append(@, c)])

ClientKill(s, c, d) ==
    IF ~s.c[d].up THEN Reply(s, c, "err")
    ELSE IF d = c THEN Raise(Reply(s, c, "ok"), c, "close_after_reply")
    ELSE Reply(FreeClient(s, d), c, "ok")

-----------------------------------------------------------------------------
(* Sockets. *)

\* readQueryFromClient, up to the processing; a peer that went away ends the
\* connection once there is nothing more to read.
ReadQuery(s, c, sock) ==
    IF sock = <<>> THEN FreeClient(s, c) ELSE [s EXCEPT !.c[c].in = @ \o sock]

\* sendReplyToClient.
SendReplyToClient(s, c) ==
    LET t == [s EXCEPT !.c[c].got = @ \o s.c[c].out, !.c[c].out = <<>>]
    IN IF Has(s, c, "close_after_reply") THEN FreeClient(t, c) ELSE t

\* processInputBuffer goes on with the next command ...
Whole(in) == \E i \in DOMAIN in : in[i].op # "part"
MayProcess(s, c) ==
    s.c[c].up /\ Whole(s.c[c].in) /\ ~s.paused
      /\ {"blocked", "close_after_reply"} \cap s.c[c].flags = {}
\* ... which is parsed and taken off the query buffer.
EndOfCommand(in) == CHOOSE i \in DOMAIN in : in[i].op # "part" /\ \A j \in 1..(i - 1) : in[j].op = "part"
NextCommand(in) == in[EndOfCommand(in)]
Consume(s, c) == [s EXCEPT !.c[c].in = SubSeq(@, EndOfCommand(@) + 1, Len(@))]
SetProtocolError(s, c) == Raise(Reply(s, c, "err"), c, "close_after_reply")

\* clientsCronHandleTimeout.
HandleTimeout(s, c) ==
    IF Has(s, c, "blocked") /\ s.c[c].timeout # 0 /\ s.c[c].timeout < s.now
    THEN UnblockClient(ReplyToBlockedClientTimedOut(s, c), c) ELSE s

=============================================================================
