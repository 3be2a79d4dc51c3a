----------------------------- MODULE MCSentinel -----------------------------
(***************************************************************************)
(* Three Sentinels with a quorum of two, the master M and its slaves X and *)
(* Y, in plays small enough for TLC.                                       *)
(***************************************************************************)
EXTENDS Sentinel

PreferenceDef == "X" :> 1 @@ "Y" :> 2 @@ "M" :> 3

\* All know each other and have seen what the instances are.
Watching(a, slaves, boss) ==
    [s \in Sentinels |->
       [NewMaster(s, 1, a) EXCEPT
          !.slaves = slaves, !.boss = [i \in Instances |-> IF i = a THEN None ELSE boss],
          !.peer = [p \in DOMAIN @ |-> [NoPeer EXCEPT !.run = 1]]]]
Following(a, down) == [i \in Instances |-> [up |-> i \notin down, of |-> IF i = a THEN None ELSE a]]

Play(start, instances, ops, epochs, mortal, idle) ==
    [sen |-> start, inst |-> instances, ops |-> ops, epochs |-> epochs, mortal |-> mortal,
     back |-> {}, cut |-> {}, idle |-> idle]

\* M is down, all have seen it, and know it of each other; some wait.
Bereft(slaves, waiting) ==
    [s \in Sentinels |-> [Watching("M", slaves, "M")[s] EXCEPT
        !.silent = {"M"}, !.sdown = {"M"}, !.odown = TRUE,
        !.peer = [p \in DOMAIN @ |-> [@[p] EXCEPT !.down = TRUE]], !.wait = s \in waiting]]

\* Only s acts; the others answer.
Only(s) == Sentinels \ {s}

\* Two start at once, one of them with no way to X.  A third one votes,
\* crashes and comes back.
Restart == [Play(Bereft({"X", "Y"}, {"s3"}), Following("M", {"M"}), {}, 1, {<<"s3">>}, {"s3"})
            EXCEPT !.cut = {<<"s2", "X">>}]
\* An election or a failover takes too long and another one begins.
Slow == Play(Bereft({"X", "Y"}, {"s2", "s3"}), Following("M", {"M"}), {"late", "retry"}, 2,
             {<<"X">>}, Only("s1"))
\* Two Sentinels that know of each other only, and M falls silent.
Two(start) ==
    [s \in Sentinels |-> [start[s] EXCEPT !.on = s # "s3", !.wait = s # "s1",
        !.peer = [p \in DOMAIN @ |-> IF p = "s3" THEN NoPeer ELSE @[p]]]]
Fail == Play(Two(Watching("M", {"X", "Y"}, "M")), Following("M", {}),
             {"clock", "hello"}, 1, {<<"M">>}, {"s3"})
\* M comes back during the failover or after it.
Promoting ==
    [Two(Bereft({"X", "Y"}, {})) EXCEPT !["s1"].cur = 1, !["s2"].cur = 1, !["s1"].wait = TRUE,
       !["s1"].fo = [state |-> "noone", epoch |-> 1, promoted |-> "X", forced |-> FALSE]]
Return == [Play(Promoting, Following("M", {"M"}), {"clock", "hello", "age"}, 1, {}, Only("s1"))
           EXCEPT !.back = {"M"}]

\* By command, at two Sentinels, with the master alive and well, and links that fail.
Force == Play(Watching("M", {"X", "Y"}, "M"), Following("M", {}),
              {"force", "tilt", "heal"}, 1, {<<"s1", "X">>, <<"s1", "s2">>}, {"s3"})
\* Changes of the configuration by hand.
Admin == Play(Watching("M", {"X"}, "M"), Following("M", {}), {"reset", "remove", "hello"}, 0, {}, Only("s1"))

MCPlays == "restart" :> Restart @@ "slow" :> Slow @@ "fail" :> Fail @@ "return" :> Return
           @@ "force" :> Force @@ "admin" :> Admin
-----------------------------------------------------------------------------
Next ==
    \/ \E s \in Sentinels : \/ Tick(s) \/ Late(s) \/ Retry(s) \/ Tilt(s)
                            \/ SentinelDown(s) \/ SentinelUp(s)
                            \/ ForceFailover(s) \/ ResetCommand(s) \/ Remove(s)
    \/ \E p \in Pairs : Receive(p[1], p[2]) \/ Answer(p[1], p[2]) \/ Heard(p[1], p[2]) \/ Expire(p[1], p[2])
    \/ \E s \in Sentinels, i \in Instances :
          \/ Info(s, i) \/ Obey(s, i) \/ Silence(s, i) \/ Pong(s, i) \/ Age(s, i) \/ Stuck(s, i)
          \/ LinkDown(s, i) \/ LinkUp(s, i) \/ Monitor(s, i)
    \/ \E p \in Pairs : LinkDown(p[1], p[2]) \/ LinkUp(p[1], p[2])
    \/ \E i \in Instances : InstanceDown(i) \/ InstanceUp(i)

(* Weak fairness of what the timer and the event loop of s do, written out:  *)
(* "Due" says that an action is enabled and changes something.               *)

Changes(s, t) ==
    /\ s \in up /\ t.cur <= Plays[play].epochs
    /\ \/ [t EXCEPT !.out = {}, !.orders = <<>>, !.save = FALSE] # sen[s]
       \/ t.save /\ SavedConfig(t) # disk[s]
       \/ \E m \in t.out : Sent(chan[<<s, m.to>>], m) # chan[<<s, m.to>>]
       \/ \E k \in DOMAIN t.orders : LET o == t.orders[k] IN Sent(wire[<<s, o.to>>], o) # wire[<<s, o.to>>]

Fair == play \in {"fail", "return"}

TickDue(s) ==
    LET due == {p \in Reached(s) : chan[<<s, p>>] = <<>>}
        near == {p \in Reached(s) : Len(chan[<<s, p>>]) < 2}
    IN s \notin Plays[play].idle /\ \E t \in Timer(sen[s], Disconnected(s), near, due) : Changes(s, t)
Known(s) == sen[s].slaves \cup {sen[s].addr}
InfoDue(s) ==
    /\ s \notin Plays[play].idle /\ sen[s].on
    /\ \E i \in Known(s) \ Disconnected(s) : Changes(s, RefreshInstanceInfo(sen[s], i, InfoOf(i)))
Listens(s, p) == On("hello") /\ sen[s].on /\ sen[p].on /\ s \in up /\ Known(s) \ (Disconnected(s) \cup Disconnected(p)) # {}
HearDue(s) == \E p \in Sentinels \ {s} : Listens(p, s) /\ Changes(s, ProcessHello(sen[s], Hello(sen[p])))
ObeyDue(s) == \E i \in Instances : wire[<<s, i>>] # <<>> /\ inst[i].up
AnswerDue(s) == \E p \in Sentinels \ {s} : chan[<<s, p>>] # <<>> /\ chan[<<s, p>>][1].type = "reply"
ReceiveDue(s) ==
    \E p \in Sentinels \ {s} : \E k \in DOMAIN chan[<<p, s>>] : chan[<<p, s>>][k].type = "ask"
ClockDue(s) ==
    LET t == sen[s]
        near == Reached(s)
    IN \/ On("clock") /\ (t.silent # Known(s) \cap Disconnected(s))
       \/ \E p \in Peers(t) : /\ On("clock") /\ (~Reaches(s, p) \/ t.addr \notin t.sdown)
                              /\ chan[<<s, p>>] = <<>> /\ (t.peer[p].down \/ t.peer[p].for # None)
       \/ On("age") /\ (\A p \in near : sen[p].conf <= t.conf)
          /\ \E i \in Known(s) \ t.aged :
                IF i = t.addr THEN t.role[i] = "slave"
                ELSE i \notin t.silent \cup t.sdown /\ (t.role[i] = "master" \/ t.boss[i] \notin {None, t.addr})

InfoOn(s) == \E i \in Instances : Info(s, i)
Hear(s) == \E p \in Sentinels \ {s} : Heard(p, s)
ObeyAny(s) == \E i \in Instances : Obey(s, i)
AnswerAny(s) == \E p \in Sentinels \ {s} : Answer(s, p)
ReceiveAny(s) == \E p \in Sentinels \ {s} : Receive(p, s)
Clock(s) == \/ \E i \in Instances : Silence(s, i) \/ Pong(s, i) \/ Age(s, i)
            \/ \E p \in Sentinels \ {s} : Expire(s, p)

Due(s) == TickDue(s) \/ InfoDue(s) \/ HearDue(s) \/ ObeyDue(s)
          \/ AnswerDue(s) \/ ReceiveDue(s) \/ ClockDue(s)
Watchers == {"s1", "s2"}
Fairness ==
    \/ <>[](Fair => \A s \in Watchers : ~Due(s))
    \/ \A s \in Watchers :
          /\ []<><<(Fair => ~TickDue(s)) \/ Tick(s)>>_vars  /\ []<><<(Fair => ~InfoDue(s)) \/ InfoOn(s)>>_vars
          /\ []<><<(Fair => ~HearDue(s)) \/ Hear(s)>>_vars  /\ []<><<(Fair => ~ObeyDue(s)) \/ ObeyAny(s)>>_vars
          /\ []<><<(Fair => ~AnswerDue(s)) \/ AnswerAny(s)>>_vars
          /\ []<><<(Fair => ~ReceiveDue(s)) \/ ReceiveAny(s)>>_vars
          /\ []<><<(Fair => ~ClockDue(s)) \/ Clock(s)>>_vars

Spec == Init /\ [][Next]_vars /\ Fairness

-----------------------------------------------------------------------------
(* Properties. *)


\* A master that falls silent is replaced, all Sentinels come to name the same
\* new one, and every instance that is up follows it, the old master too when
\* it comes back (sentinelHandleRedisInstance to the end of the failover).
Settled ==
    \E a \in Instances :
       /\ inst[a].up /\ inst[a].of = None
       /\ \A s \in up : sen[s].on => CurrentAddress(sen[s]) = a
       /\ \A i \in Instances \ {a} : inst[i].up => inst[i].of = a
FailoverEnds == Fair => <>[]Settled

\* SLAVEOF makes an instance follow another one: "to replicate with the new
\* master" (sentinelFailoverDetectEnd).
NoSelfSlave == \A i \in Instances : inst[i].of # i
=============================================================================
