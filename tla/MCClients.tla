----------------------------- MODULE MCClients -----------------------------
(***************************************************************************)
(* Three clients, two keys, and a link with a master, in plays small       *)
(* enough for TLC.                                                         *)
(***************************************************************************)
EXTENDS Clients

CONSTANTS c1, c2, c3, m, x, y

Op(o) == [op |-> o]
On(o, k) == [op |-> o, k |-> k]
Push(k, v) == [op |-> "push", k |-> k, v |-> v, head |-> TRUE]
Pop(k) == [op |-> "pop", k |-> k, head |-> FALSE]
Move(o, k, dst, n) == [op |-> o, k |-> k, dst |-> dst, timeout |-> n]
Bpop(keys, n) == [op |-> "bpop", keys |-> keys, timeout |-> n, head |-> TRUE]
Brpop(keys, n) == [Bpop(keys, n) EXCEPT !.head = FALSE]
To(o, ch) == [op |-> o, ch |-> ch]
Pat(o, p) == [op |-> o, p |-> p]
Slaveof(on) == [op |-> "slaveof", on |-> on]
Pause == [op |-> "pause", n |-> 1]
Kill(c) == [op |-> "kill", who |-> c]

\* A connection for each of the sequences of packets.
Play(one, two, three) ==
    [sends |-> c1 :> one @@ c2 :> two @@ c3 :> three @@ m :> <<>>, db |-> [k \in Keys |-> NoKey],
     master |-> {}, leave |-> {}, slow |-> {}]

\* Serving one makes the key of the next ready.
Chain == Play(<< <<Move("brpoplpush", x, y, 0), Pop(y)>> >>, << <<Bpop(<<y, x>>, 0), Push(y, 3)>> >>,
              << <<Push(x, 1), Push(x, 2)>> >>)
\* Three clients want what comes in one transaction.
Queue == Play(<< <<Brpop(<<x>>, 0)>>, <<Push(x, 4)>> >>, << <<Bpop(<<x, y>>, 0)>> >>,
              << <<Op("multi"), Push(x, 1), Push(y, 2), Op("part")>>, <<Push(x, 3), Op("exec")>> >>)
\* The key to move to holds a string; or will.
Wrong == [Play(<< <<Move("brpoplpush", x, y, 0), Push(x, 3)>> >>, << <<Bpop(<<x>>, 0)>> >>,
               << <<On("set", y)>>, <<Push(x, 1)>>, <<Push(x, 2), Pop(y)>> >>) EXCEPT !.leave = {c2}]
\* A list that goes round, by way of a client that waits and of one that does not.
Round == Play(<< <<Move("brpoplpush", x, x, 0)>> >>, << <<Push(x, 1)>>, <<Move("rpoplpush", x, y, 0)>> >>,
              << <<Bpop(<<x>>, 1), Move("rename", x, y, 0)>> >>)
\* The time of a client is over when its element comes, with more in its query buffer.
Timeout == Play(<< <<Bpop(<<x>>, 1), Push(y, 1)>> >>, << <<Move("brpoplpush", y, x, 1), Op("part")>>, <<On("del", x)>> >>,
                << <<Push(x, 2)>> >>)
\* What is watched changes while someone else is served.
Watch == Play(<< <<On("watch", y), Op("multi"), Push(y, 3)>>, <<Op("exec"), Push(y, 4)>> >>,
              << <<Move("brpoplpush", x, y, 0)>> >>, << <<Push(x, 1)>>, <<Pop(y)>> >>)
Watch2 == Play(<< <<On("watch", x), On("watch", y)>>, <<Op("multi"), Pop(x), Op("exec")>> >>,
               << <<Op("flush")>>, <<Move("rename", y, x, 0)>> >>,
               << <<Push(x, 1), Push(y, 2)>>, <<Kill(c1)>> >>)
Watch3 == [Play(<< <<On("watch", x), Op("unwatch"), On("watch", x), Op("multi"), On("watch", y)>>, <<Op("nosuch"), Op("exec")>> >>,
                << <<On("watch", x), Op("multi"), Push(x, 1), Op("discard")>>, <<Op("multi"), Op("multi"), Push(y, 5), Op("exec")>> >>,
                << <<On("set", x), Op("exec"), Op("discard"), Op("quit"), Push(x, 2)>> >>) EXCEPT !.leave = {c2}]
\* Those who listen, one of them too slowly.
Listen == [Play(<< <<To("subscribe", "news"), Pat("psubscribe", {"news", "more"}), Push(x, 1)>>,
                   <<To("unsubscribe", "news"), Pat("punsubscribe", {"news", "more"}), Push(x, 2)>> >>,
                << <<To("subscribe", "more")>> >>,
                << <<To("publish", "news"), To("publish", "more")>>, <<To("publish", "news"), Op("noise"), Push(x, 3)>> >>)
           EXCEPT !.leave = {c2}, !.slow = {c1}]
\* Nobody is served for a while.
Paused == Play(<< <<Pause, Push(x, 1)>> >>, << <<Push(x, 2)>>, <<Pop(x)>> >>, << <<Pop(x), Pause>> >>)
\* Some of them had begun to wait, or do so when the pause is over.
Paused2 == Play(<< <<Bpop(<<x>>, 1), Push(y, 1)>>, <<Pop(y)>> >>, << <<Pause, Bpop(<<x, y>>, 1)>> >>, << <<Push(x, 2), Push(x, 3)>> >>)
\* The server turns into a slave, and back.
Slave == [Play(<< <<Bpop(<<x>>, 0), Push(y, 1)>> >>, << <<Slaveof(TRUE)>>, <<Push(y, 2), Slaveof(FALSE), Push(x, 5)>> >>, <<>>)
          EXCEPT !.sends[m] = << <<Push(x, 3)>>, <<Push(x, 4)>> >>, !.master = {m}]
\* A client that waits is killed, or goes away.
Killed == [Play(<< <<Bpop(<<x, y>>, 1)>> >>, << <<Kill(c1), Kill(c2)>> >>, << <<Push(x, 1), Push(y, 2)>> >>)
           EXCEPT !.leave = {c1, c2, c3}]
\* A transaction is begun at a master and executed at a slave.
Late == [Play(<< <<Op("multi"), Push(x, 1)>>, <<Op("exec")>> >>, << <<Slaveof(TRUE)>> >>, <<>>)
         EXCEPT !.sends[m] = << <<Push(x, 3)>> >>, !.master = {m}]

MCPlays == "chain" :> Chain @@ "queue" :> Queue @@ "wrong" :> Wrong @@ "round" :> Round @@ "timeout" :> Timeout
           @@ "watch" :> Watch @@ "watch2" :> Watch2 @@ "watch3" :> Watch3 @@ "listen" :> Listen @@ "paused" :> Paused @@ "paused2" :> Paused2
           @@ "slave" :> Slave @@ "killed" :> Killed
LatePlays == "late" :> Late

-----------------------------------------------------------------------------
(* Properties. *)

\* An element that was pushed is in one list, or in one reply, or was deleted;
\* and never in two places (the pop that is undone, serveClientBlockedOnList).
Places(v) ==
    LET in(q) == Cardinality({i \in DOMAIN q : q[i] = v})
        told(q) == Cardinality({i \in DOMAIN q : v \in ToSet(q[i].e)})
    IN MapThenSumSet(LAMBDA k : in(Items(s.db[k])), Keys)
         + MapThenSumSet(LAMBDA c : told(s.c[c].got) + told(s.c[c].out), Clients)
ElementsOnce == \A v \in s.pushed : Places(v) = IF v \in s.gone THEN 0 ELSE 1

\* A command that was read is answered, also when it came behind one that blocked
\* or while clients were paused (processUnblockedClients, blocked.c).
Unanswered(c) ==
    /\ Whole(s.c[c].in) /\ ~Has(s, c, "close_after_reply")
    /\ Has(s, c, "blocked") => s.c[c].timeout # 0
Answered == \A c \in Clients : Unanswered(c) ~> ~Unanswered(c)

=============================================================================
