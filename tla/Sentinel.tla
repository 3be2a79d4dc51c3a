------------------------------ MODULE Sentinel ------------------------------
(***************************************************************************)
(* Sentinels that watch a master and its slaves, ask each other whether it *)
(* is down and for votes, fail over to a slave and tell each other about   *)
(* it.  Instances, links and Sentinels go down and come back.              *)
(*                                                                         *)
(* A request to a Sentinel and its answer take a way of their own each,    *)
(* and so does a SLAVEOF to an instance; PING, INFO and Hello take effect  *)
(* at once.  A play says where a run starts and what happens in it.        *)
(***************************************************************************)
EXTENDS SentinelState, TLC

CONSTANTS Plays    \* name -> [sen, inst, ops, epochs, mortal, back,
                   \*          cut, idle]

VARIABLES play, sen,
          up,       \* the Sentinels that run
          disk,     \* the configuration file of each
          inst,     \* the instances: up or not, and whom they follow
          chan,     \* between two Sentinels: requests, and answers not yet read
          wire,     \* SLAVEOF commands on their way
          cut,      \* broken links, <<Sentinel, Sentinel or instance>>
          broke,    \* what broke so far
          loose     \* history: epochs given without an election, and those in which a
                    \* Sentinel has forgotten its vote

vars == <<play, sen, up, disk, inst, chan, wire, cut, broke, loose>>

On(op) == op \in Plays[play].ops
Pairs == {p \in Sentinels \X Sentinels : p[1] # p[2]}

Init ==
    /\ play \in DOMAIN Plays
    /\ sen = Plays[play].sen /\ inst = Plays[play].inst
    /\ up = Sentinels /\ disk = [s \in Sentinels |-> SavedConfig(sen[s])]
    /\ chan = [p \in Pairs |-> <<>>]
    /\ wire = [p \in Sentinels \X Instances |-> <<>>]
    /\ cut = Plays[play].cut /\ broke = {} /\ loose = {}

Reaches(s, p) == p \in up /\ <<s, p>> \notin cut /\ <<p, s>> \notin cut
Reached(s) == {p \in Peers(sen[s]) : Reaches(s, p)}
Disconnected(s) == {i \in Instances : ~inst[i].up \/ <<s, i>> \in cut}

-----------------------------------------------------------------------------
(* The step of Sentinel s, which is in state t after it. *)

\* Of two equal commands that wait, the second changes nothing.
Sent(q, m) == IF q # <<>> /\ q[Len(q)] = m THEN q ELSE Append(q, m)

Written(s, t) ==
    /\ t.cur <= Plays[play].epochs
    /\ sen' = [sen EXCEPT ![s] = [t EXCEPT !.out = {}, !.orders = <<>>, !.save = FALSE]]
    /\ disk' = IF t.save THEN [disk EXCEPT ![s] = SavedConfig(t)] ELSE disk
    /\ wire' = [w \in DOMAIN wire |->
                  IF w[1] # s THEN wire[w]
                  ELSE LET mine == SelectSeq(t.orders, LAMBDA o : o.to = w[2])
                       IN IF mine = <<>> THEN wire[w] ELSE Sent(wire[w], mine[1])]

Asked(s, t) ==
    [c \in Pairs |->
       LET q == {m \in t.out : m.to = c[2]}
       IN IF c[1] # s \/ q = {} THEN chan[c] ELSE Sent(chan[c], CHOOSE m \in q : TRUE)]

StepBut(s, t) ==
    /\ s \in up /\ Written(s, t) /\ chan' = Asked(s, t)
    /\ UNCHANGED <<play, up, inst, cut, broke>>
Step(s, t) == StepBut(s, t) /\ UNCHANGED loose

Tick(s) ==
    LET due == {p \in Reached(s) : chan[<<s, p>>] = <<>>}
        near == {p \in Reached(s) : Len(chan[<<s, p>>]) < 2}
    IN /\ s \notin Plays[play].idle
       /\ \E t \in Timer(sen[s], Disconnected(s), near, due) : Step(s, t)

\* p gets the request of s, and answers.
Receive(s, p) ==
    LET q == chan[<<s, p>>]
        at == CHOOSE k \in 1..Len(q) : q[k].type = "ask" /\ \A j \in 1..(k - 1) : q[j].type = "reply"
    IN /\ \E k \in 1..Len(q) : q[k].type = "ask"
       /\ p \in up
       /\ \E r \in {IsMasterDown(sen[p], q[at])} :
            /\ Written(p, r.state)
            /\ chan' = [chan EXCEPT ![<<s, p>>] = [q EXCEPT ![at] = r.reply]]
       /\ UNCHANGED <<play, up, inst, cut, broke, loose>>

Answer(s, p) ==
    LET q == chan[<<s, p>>]
    IN /\ s \in up /\ q # <<>> /\ q[1].type = "reply"
       /\ sen' = [sen EXCEPT ![s] = IF p \in Peers(@) THEN ReceiveIsMasterDownReply(@, p, q[1]) ELSE @]
       /\ chan' = [chan EXCEPT ![<<s, p>>] = Tail(q)]
       /\ UNCHANGED <<play, up, disk, inst, wire, cut, broke, loose>>

InfoOf(i) ==
    [role |-> IF inst[i].of = None THEN "master" ELSE "slave", of |-> inst[i].of,
     slaves |-> {j \in Instances : inst[j].up /\ inst[j].of = i},
     linked |-> inst[i].of \notin {None, i} /\ inst[inst[i].of].up]

Info(s, i) ==
    /\ s \notin Plays[play].idle
    /\ sen[s].on /\ i \in sen[s].slaves \cup {sen[s].addr} /\ i \notin Disconnected(s)
    /\ Step(s, RefreshInstanceInfo(sen[s], i, InfoOf(i)))

\* A Hello is published on the instances both are connected to.
Heard(s, p) ==
    /\ On("hello") /\ sen[s].on /\ sen[p].on /\ s # p /\ s \in up
    /\ Reaches(s, p) \/ (sen[s].slaves \cup {sen[s].addr}) \ (Disconnected(s) \cup Disconnected(p)) # {}
    /\ Step(p, ProcessHello(sen[p], Hello(sen[s])))

\* SLAVEOF.  The instance writes its configuration and keeps it over a crash.
Obey(s, i) ==
    /\ wire[<<s, i>>] # <<>> /\ inst[i].up
    /\ inst' = [inst EXCEPT ![i].of = wire[<<s, i>>][1].of]
    /\ wire' = [wire EXCEPT ![<<s, i>>] = Tail(@)]
    /\ UNCHANGED <<play, sen, up, disk, chan, cut, broke, loose>>

-----------------------------------------------------------------------------
(* The clock of a Sentinel. *)

Silence(s, i) ==
    /\ On("clock") /\ i \in sen[s].slaves \cup {sen[s].addr} /\ i \in Disconnected(s) \ sen[s].silent
    /\ Step(s, [sen[s] EXCEPT !.silent = @ \cup {i}])
Pong(s, i) ==
    /\ On("clock") /\ i \in sen[s].silent \ Disconnected(s)
    /\ Step(s, [sen[s] EXCEPT !.silent = @ \ {i}])

\* What an instance reports is not what it should, and has been so for long:
\* longer than a Hello of another Sentinel takes, and it was not down either.
Age(s, i) ==
    LET t == sen[s]
    IN /\ On("age") /\ i \notin t.aged
       /\ \A p \in Reached(s) : sen[p].conf <= t.conf
       /\ \/ i = t.addr /\ t.role[i] = "slave"
          \/ i \in t.slaves \ (t.silent \cup t.sdown) /\ (t.role[i] = "master" \/ t.boss[i] \notin {None, t.addr})
       /\ Step(s, [t EXCEPT !.aged = @ \cup {i}])

\* SENTINEL_SLAVE_RECONF_TIMEOUT
Stuck(s, i) ==
    /\ On("late") /\ sen[s].reconf[i] = "sent"
    /\ Step(s, [sen[s] EXCEPT !.reconf[i] = "stuck"])
\* SENTINEL_ELECTION_TIMEOUT and failover-timeout
Late(s) ==
    /\ On("late") /\ InFailover(sen[s]) /\ ~sen[s].late
    /\ Step(s, [sen[s] EXCEPT !.late = TRUE])
Retry(s) ==
    /\ On("retry") /\ sen[s].wait /\ ~InFailover(sen[s])
    /\ Step(s, [sen[s] EXCEPT !.wait = FALSE])
\* No answer for five times SENTINEL_ASK_PERIOD.
Expire(s, p) ==
    LET t == sen[s]
    IN /\ On("clock") /\ p \in Peers(t) /\ (~Reaches(s, p) \/ t.addr \notin t.sdown) /\ chan[<<s, p>>] = <<>>
       /\ t.peer[p].down \/ t.peer[p].for # None
       /\ Step(s, [t EXCEPT !.peer[p].down = FALSE, !.peer[p].for = None])
Tilt(s) ==
    /\ On("tilt") /\ Step(s, [sen[s] EXCEPT !.tilt = ~@])

-----------------------------------------------------------------------------
(* What breaks, and comes back. *)

Lost(s, x) == chan' = [c \in Pairs |-> IF {s, x} = {c[1], c[2]} THEN <<>> ELSE chan[c]]
Break(x) == x \in Plays[play].mortal \ broke /\ broke' = broke \cup {x}

InstanceDown(i) ==
    /\ Break(<<i>>) /\ inst[i].up
    /\ inst' = [inst EXCEPT ![i].up = FALSE]
    /\ wire' = [w \in DOMAIN wire |-> IF w[2] = i THEN <<>> ELSE wire[w]]
    /\ UNCHANGED <<play, sen, up, disk, chan, cut, loose>>
InstanceUp(i) ==
    /\ i \in Plays[play].back /\ ~inst[i].up
    /\ inst' = [inst EXCEPT ![i].up = TRUE]
    /\ UNCHANGED <<play, sen, up, disk, chan, wire, cut, broke, loose>>

LinkDown(s, x) ==
    /\ s \in Sentinels /\ Break(<<s, x>>)
    /\ cut' = cut \cup {<<s, x>>} /\ Lost(s, x)
    /\ wire' = [w \in DOMAIN wire |-> IF w = <<s, x>> THEN <<>> ELSE wire[w]]
    /\ UNCHANGED <<play, sen, up, disk, inst, loose>>
LinkUp(s, x) ==
    /\ <<s, x>> \in cut /\ On("heal")
    /\ cut' = cut \ {<<s, x>>}
    /\ UNCHANGED <<play, sen, up, disk, inst, chan, wire, broke, loose>>

SentinelDown(s) ==
    /\ s \in up /\ Break(<<s>>)
    /\ up' = up \ {s}
    /\ chan' = [c \in Pairs |-> IF s \in {c[1], c[2]} THEN <<>> ELSE chan[c]]
    /\ wire' = [w \in DOMAIN wire |-> IF w[1] = s THEN <<>> ELSE wire[w]]
    /\ UNCHANGED <<play, sen, disk, inst, cut, loose>>
\* A new run, with a new run id, from the configuration file.
SentinelUp(s) ==
    /\ s \notin up
    /\ up' = up \cup {s}
    /\ sen' = [sen EXCEPT ![s] = LoadedConfig(s, @.run + 1, disk[s])]
    /\ UNCHANGED <<play, disk, inst, chan, wire, cut, broke, loose>>

-----------------------------------------------------------------------------
(* SENTINEL, the command. *)

\* SENTINEL FAILOVER: the next epoch is taken, and nobody is asked for a vote.
ForceFailover(s) ==
    LET t == sen[s]
    IN /\ On("force") /\ t.on /\ ~InFailover(t) /\ SelectSlave(t, Disconnected(s)) # None
       /\ StepBut(s, [StartFailover(t) EXCEPT !.fo.forced = TRUE])
       /\ loose' = loose \cup {t.cur + 1}

\* The other Sentinels are forgotten, and nothing is written.
ResetCommand(s) ==
    /\ On("reset") /\ sen[s].on
    /\ Step(s, [ResetMaster(sen[s]) EXCEPT !.peer = [p \in DOMAIN @ |-> NoPeer]])

Remove(s) ==
    /\ On("remove") /\ sen[s].on
    /\ Step(s, FlushConfig([NewMaster(s, sen[s].run, sen[s].addr) EXCEPT !.on = FALSE, !.cur = sen[s].cur]))

\* SENTINEL MONITOR: the epoch of the votes starts at 0 again.
Monitor(s, a) ==
    /\ On("remove") /\ ~sen[s].on
    /\ StepBut(s, FlushConfig([NewMaster(s, sen[s].run, a) EXCEPT !.cur = sen[s].cur]))
    /\ loose' = loose \cup {sen[s].cur}
=============================================================================
