------------------------- MODULE ReplicationProofs -------------------------
(***************************************************************************)
(* Proofs about Replication: the circular backlog holds the last part of   *)
(* the stream, and the count of changes agrees with the dump file.         *)
(***************************************************************************)
EXTENDS Replication, DataInduction

-----------------------------------------------------------------------------
(* What an operation on a server leaves alone. *)

Fields == {"up", "run", "data", "rdb", "of", "size", "diskless", "capa", "off", "log", "seldb",
           "clients", "slaves", "child", "dirty", "woff", "waits", "getack", "state", "conn",
           "master", "cached", "init", "sent", "shut"}
Changes(u, v, G) == DOMAIN u = DOMAIN v /\ \A f \in DOMAIN v \ G : u[f] = v[f]

\* From a backlog in order, the operation makes one in order.
LogStep(u, v) ==
    /\ BacklogInRange(v) => BacklogInRange(u)
    /\ BacklogInRange(v) /\ BacklogAgrees(v) => BacklogAgrees(u)
Evolves(u, v, G) == Changes(u, v, G) /\ LogStep(u, v)

SlaveFields == {"clients", "slaves", "sent", "shut", "seldb", "off", "log"}

\* Operations one after the other.
LEMMA EvolvesTrans ==
  ASSUME NEW u, NEW v, NEW w, NEW G, Evolves(u, v, G), Evolves(w, u, G)
  PROVE  Evolves(w, v, G)
BY DEF Evolves, Changes, LogStep

LEMMA EvolvesMore ==
  ASSUME NEW u, NEW v, NEW G, NEW H, Evolves(u, v, G), G \subseteq H
  PROVE  Evolves(u, v, H)
BY DEF Evolves, Changes

LEMMA EvolvesNot ==
  ASSUME NEW v, NEW G
  PROVE  Evolves(v, v, G)
BY DEF Evolves, Changes, LogStep

\* An operation that changes nothing of the backlog.
LEMMA SameLog ==
  ASSUME NEW u, NEW v, NEW G, DOMAIN v = Fields, Changes(u, v, G),
         "log" \notin G, "size" \notin G, "off" \notin G
  PROVE  Evolves(u, v, G)
<1>1. u.log = v.log /\ u.size = v.size /\ u.off = v.off
  BY DEF Changes, Fields
<1>2. QED
  BY <1>1 DEF Evolves, LogStep, BacklogInRange, BacklogAgrees

LEMMA SendAllKeeps ==
  ASSUME NEW v, NEW C, NEW msgs, DOMAIN v = Fields
  PROVE  Evolves(SendAll(v, C, msgs), v, {"sent"})
<1>1. Changes(SendAll(v, C, msgs), v, {"sent"})
  BY DEF Changes, SendAll
<1>2. QED
  BY <1>1, SameLog

LEMMA FreeSlavesKeeps ==
  ASSUME NEW v, NEW C, DOMAIN v = Fields
  PROVE  Evolves(FreeSlaves(v, C), v, {"clients", "slaves", "shut"})
<1>1. Changes(FreeSlaves(v, C), v, {"clients", "slaves", "shut"})
  BY DEF Changes, FreeSlaves
<1>2. QED
  BY <1>1, SameLog

LEMMA AddReplyKeeps ==
  ASSUME NEW v, NEW C, NEW p, DOMAIN v = Fields
  PROVE  Evolves(AddReply(v, C, p), v, {"clients", "sent"})
<1>1. Changes(AddReply(v, C, p), v, {"clients", "sent"})
  BY DEF Changes, AddReply, Each, SendAll
<1>2. QED
  BY <1>1, SameLog

-----------------------------------------------------------------------------
(* The circular backlog. *)

\* A byte is put at the index; the index and the length stay in range.
LEMMA PutByteIs ==
  ASSUME NEW l, NEW size \in Nat \ {0}, NEW b, LogInRange(l, size)
  PROVE  PutByte(l, size, b) =
           [on |-> TRUE, buf |-> [l.buf EXCEPT ![l.idx] = b],
            idx |-> IF l.idx + 1 = size THEN 0 ELSE l.idx + 1,
            histlen |-> IF l.histlen = size THEN l.histlen ELSE l.histlen + 1, first |-> l.first]
<1>1. PICK buf, idx, histlen, first : buf = l.buf /\ idx = l.idx /\ histlen = l.histlen /\ first = l.first
  OBVIOUS
<1>2. l = [on |-> TRUE, buf |-> buf, idx |-> idx, histlen |-> histlen, first |-> first]
  BY <1>1, Zenon DEF LogInRange
<1>3. PICK put : put = [buf EXCEPT ![idx] = b]
  OBVIOUS
<1>4. PICK i : i = IF idx + 1 = size THEN 0 ELSE idx + 1
  OBVIOUS
<1>5. PICK h : h = IF histlen = size THEN histlen ELSE histlen + 1
  OBVIOUS
<1>6. PICK u : u = [[[l EXCEPT !.buf = put] EXCEPT !.idx = i] EXCEPT !.histlen = h]
  OBVIOUS
<1>7. PutByte(l, size, b) = u
  BY <1>1, <1>3, <1>4, <1>5, <1>6, Zenon DEF PutByte
<1>8. u = [on |-> TRUE, buf |-> put, idx |-> i, histlen |-> h, first |-> first]
  BY <1>2, <1>6
<1>9. QED
  BY <1>1, <1>3, <1>4, <1>5, <1>7, <1>8, Zenon

LEMMA PutByteInRange ==
  ASSUME NEW l, NEW size \in Nat \ {0}, NEW b, LogInRange(l, size)
  PROVE  LogInRange(PutByte(l, size, b), size)
<1>1. PICK m : m = PutByte(l, size, b)
  OBVIOUS
<1>2. PICK buf : buf = [l.buf EXCEPT ![l.idx] = b]
  OBVIOUS
<1>3. buf = [k \in 0..(size - 1) |-> buf[k]]
  BY <1>2 DEF LogInRange
<1>4. m = [on |-> TRUE, buf |-> buf, idx |-> IF l.idx + 1 = size THEN 0 ELSE l.idx + 1,
            histlen |-> IF l.histlen = size THEN l.histlen ELSE l.histlen + 1, first |-> l.first]
  BY <1>1, <1>2, PutByteIs
<1>5. /\ m.buf = buf /\ m.idx = IF l.idx + 1 = size THEN 0 ELSE l.idx + 1
      /\ m.histlen = IF l.histlen = size THEN l.histlen ELSE l.histlen + 1
      /\ m.first = l.first
  BY <1>4
<1>6. m = [on |-> TRUE, buf |-> m.buf, idx |-> m.idx, histlen |-> m.histlen, first |-> m.first]
  BY <1>4, Zenon
<1>7. /\ l.idx \in 0..(size - 1) /\ l.histlen \in 0..size
      /\ l.histlen < size => l.idx = l.histlen
  BY DEF LogInRange
<1>8. m.idx \in 0..(size - 1) /\ m.histlen \in 0..size /\ (m.histlen < size => m.idx = m.histlen)
  BY <1>5, <1>7
<1>9. QED
  BY <1>1, <1>3, <1>5, <1>6, <1>8 DEF LogInRange

\* The function by which FeedBacklog puts the bytes of p one by one.
Fed(v, p) ==
  CHOOSE log : log = [n \in 0..Len(p) |-> IF n = 0 THEN v.log ELSE PutByte(log[n - 1], v.size, p[n])]

LEMMA FedDef ==
  ASSUME NEW v, BacklogInRange(v), v.log.on, NEW S, NEW p \in Seq(S)
  PROVE  /\ Fed(v, p)[0] = v.log
         /\ \A n \in 1 .. Len(p) : Fed(v, p)[n] = PutByte(Fed(v, p)[n - 1], v.size, p[n])
         /\ \A n \in 0 .. Len(p) : LogInRange(Fed(v, p)[n], v.size)
<1>1. PICK m \in Nat : m = Len(p)
  BY LenProperties
<1>2. PICK size \in Nat \ {0} : size = v.size
  BY DEF BacklogInRange
<1>3. LogInRange(v.log, size)
  BY <1>2 DEF BacklogInRange
<1>. DEFINE T == {v.log.buf[k] : k \in 0 .. size - 1} \cup {p[k] : k \in 1 .. m}
            L == {l \in [on : {TRUE}, buf : [0 .. size - 1 -> T], idx : 0 .. size - 1,
                         histlen : 0 .. size, first : {v.log.first}] : LogInRange(l, size)}
<1>4. v.log \in L
  <2>1. PICK buf, idx, histlen, first :
          v.log = [on |-> TRUE, buf |-> buf, idx |-> idx, histlen |-> histlen, first |-> first]
    BY <1>3, Zenon DEF LogInRange
  <2>2. /\ buf = [k \in 0..(size - 1) |-> buf[k]] /\ idx \in 0..(size - 1) /\ histlen \in 0..size
    BY <1>3, <2>1 DEF LogInRange
  <2>3. buf \in [0 .. size - 1 -> T]
    BY <2>1, <2>2
  <2>. HIDE DEF T
  <2>4. v.log \in [on : {TRUE}, buf : [0 .. size - 1 -> T], idx : 0 .. size - 1,
                         histlen : 0 .. size, first : {v.log.first}]
    BY <2>1, <2>2, <2>3
  <2>5. QED
    BY <1>3, <2>4
<1>5. \A n \in 1 .. m : \A l \in L : PutByte(l, size, p[n]) \in L
  <2>1. SUFFICES ASSUME NEW n \in 1 .. m, NEW l \in L PROVE PutByte(l, size, p[n]) \in L
    OBVIOUS
  <2>2. p[n] \in T
    OBVIOUS
  <2>. HIDE DEF T
  <2>3. PICK b \in T : b = p[n]
    BY <2>2
  <2>4. LogInRange(l, size)
    OBVIOUS
  <2>5. LogInRange(PutByte(l, size, b), size)
    BY <2>4, PutByteInRange
  <2>6. PICK buf : buf = [l.buf EXCEPT ![l.idx] = b]
    OBVIOUS
  <2>7. buf \in [0 .. size - 1 -> T]
    BY <2>3, <2>6
  <2>8. PICK o : o = PutByte(l, size, b)
    OBVIOUS
  <2>9. o = [on |-> TRUE, buf |-> buf,
            idx |-> IF l.idx + 1 = size THEN 0 ELSE l.idx + 1,
            histlen |-> IF l.histlen = size THEN l.histlen ELSE l.histlen + 1, first |-> l.first]
    BY <2>4, <2>6, <2>8, PutByteIs
  <2>10. o.idx \in 0..(size - 1) /\ o.histlen \in 0..size
    BY <2>5, <2>8 DEF LogInRange
  <2>11. l.first \in {v.log.first}
    OBVIOUS
  <2>12. o \in [on : {TRUE}, buf : [0 .. size - 1 -> T], idx : 0 .. size - 1,
                         histlen : 0 .. size, first : {v.log.first}]
    BY <2>7, <2>9, <2>10, <2>11
  <2>13. QED
    BY <2>3, <2>5, <2>8, <2>12
<1>6. \A l \in L : LogInRange(l, size)
  OBVIOUS
<1>. HIDE DEF L
<1>7. PICK g : g = [n \in 1 .. m |-> [l \in L |-> PutByte(l, size, p[n])]]
  OBVIOUS
<1>8. IsStepOf(g, m, L)
  BY <1>5, <1>7 DEF IsStepOf
<1>9. PICK f : IsRecursionOf(f, g, v.log, m, L)
  BY <1>4, <1>8, RecursionExists
<1>10. f = [n \in 0 .. m |-> IF n = 0 THEN v.log ELSE PutByte(f[n - 1], size, p[n])]
  <2>1. \A n \in 0 .. m : f[n] = IF n = 0 THEN v.log ELSE PutByte(f[n - 1], size, p[n])
    BY <1>7, <1>9 DEF IsRecursionOf
  <2>2. QED
    BY <1>9, <2>1 DEF IsRecursionOf
<1>11. Fed(v, p) = [n \in 0 .. m |-> IF n = 0 THEN v.log ELSE PutByte(Fed(v, p)[n - 1], size, p[n])]
  BY <1>1, <1>2, <1>10 DEF Fed
<1>12. PICK h : h = Fed(v, p)
  OBVIOUS
<1>13. \A n \in 0 .. m : h[n] = IF n = 0 THEN v.log ELSE PutByte(h[n - 1], size, p[n])
  BY <1>11, <1>12
<1>14. h = [n \in 0 .. m |-> h[n]] /\ h[0] = v.log
  BY <1>11, <1>12, <1>13
<1>15. \A n \in 1 .. m : h[n - 1] \in L => h[n] = g[n][h[n - 1]]
  BY <1>7, <1>13
<1>16. IsRecursionOf(h, g, v.log, m, L)
  BY <1>4, <1>8, <1>14, <1>15, RecursionMeets
<1>17. \A n \in 0 .. m : h[n] \in L
  BY <1>16 DEF IsRecursionOf
<1>18. QED
  BY <1>1, <1>2, <1>6, <1>12, <1>13, <1>17

\* What FeedBacklog makes of a server.
LEMMA FeedBacklogIs ==
  ASSUME NEW v, DOMAIN v = Fields, BacklogInRange(v), v.log.on, NEW S, NEW p \in Seq(S)
  PROVE  /\ Changes(FeedBacklog(v, p), v, {"off", "log"})
         /\ FeedBacklog(v, p).off = v.off + Len(p)
         /\ LogInRange(Fed(v, p)[Len(p)], v.size)
         /\ FeedBacklog(v, p).log =
              [on |-> TRUE, buf |-> Fed(v, p)[Len(p)].buf, idx |-> Fed(v, p)[Len(p)].idx,
               histlen |-> Fed(v, p)[Len(p)].histlen,
               first |-> v.off + Len(p) - Fed(v, p)[Len(p)].histlen + 1]
         /\ LogInRange(FeedBacklog(v, p).log, v.size)
<1>1. PICK l : l = Fed(v, p)[Len(p)]
  OBVIOUS
<1>2. PICK first : first = v.off + Len(p) - l.histlen + 1
  OBVIOUS
<1>3. PICK u : u = FeedBacklog(v, p)
  OBVIOUS
<1>4. u = [v EXCEPT !.off = v.off + Len(p), !.log = [l EXCEPT !.first = first]]
  BY <1>1, <1>2, <1>3, Zenon DEF FeedBacklog, Fed
<1>5. PICK o : o = [l EXCEPT !.first = first]
  OBVIOUS
<1>6. Changes(u, v, {"off", "log"}) /\ u.off = v.off + Len(p) /\ u.log = o
  BY <1>4, <1>5, Zenon DEF Changes, Fields
<1>7. LogInRange(l, v.size)
  BY <1>1, FedDef, LenProperties
<1>8. PICK buf, idx, histlen, was : buf = l.buf /\ idx = l.idx /\ histlen = l.histlen /\ was = l.first
  OBVIOUS
<1>9. l = [on |-> TRUE, buf |-> buf, idx |-> idx, histlen |-> histlen, first |-> was]
  BY <1>7, <1>8, Zenon DEF LogInRange
<1>10. o = [on |-> TRUE, buf |-> buf, idx |-> idx, histlen |-> histlen, first |-> first]
  BY <1>5, <1>9
<1>11. o.buf = l.buf /\ o.idx = l.idx /\ o.histlen = l.histlen /\ o.first = first
  BY <1>8, <1>10
<1>12. o = [on |-> TRUE, buf |-> o.buf, idx |-> o.idx, histlen |-> o.histlen, first |-> o.first]
  BY <1>8, <1>10, <1>11, Zenon
<1>13. LogInRange(o, v.size)
  BY <1>7, <1>11, <1>12, Zenon DEF LogInRange
<1>14. QED
  BY <1>1, <1>2, <1>3, <1>6, <1>7, <1>8, <1>10, <1>13, Zenon

\* Where the k-th byte of the backlog is.
Slot(l, size, k) ==
    IF l.idx + size - l.histlen + k - 1 < size THEN l.idx + size - l.histlen + k - 1
    ELSE l.idx - l.histlen + k - 1
\* The backlog holds the end of the stream s, of which off bytes were written.
Holds(l, size, s, off) == \A k \in 1 .. l.histlen : l.buf[Slot(l, size, k)] = s[off - l.histlen + k]

\* One more byte: the oldest one is lost when the backlog is full.
LEMMA PutByteHolds ==
  ASSUME NEW l, NEW size \in Nat \ {0}, LogInRange(l, size), NEW s, NEW off \in Nat, NEW b,
         Holds(l, size, s, off), s[off + 1] = b
  PROVE  Holds(PutByte(l, size, b), size, s, off + 1)
<1>1. PICK idx \in 0..(size - 1), histlen \in 0..size : idx = l.idx /\ histlen = l.histlen
  BY DEF LogInRange
<1>. DEFINE buf == l.buf
<1>2. /\ buf = [k \in 0..(size - 1) |-> buf[k]]
      /\ histlen < size => idx = histlen
  BY <1>1 DEF LogInRange
<1>3. PICK m : m = PutByte(l, size, b)
  OBVIOUS
<1>4. PICK put : put = [buf EXCEPT ![idx] = b]
  OBVIOUS
<1>5. /\ m.buf = put /\ m.idx = IF idx + 1 = size THEN 0 ELSE idx + 1
      /\ m.histlen = IF histlen = size THEN histlen ELSE histlen + 1
  BY <1>1, <1>3, <1>4, PutByteIs
<1>6. put[idx] = b /\ \A k \in 0 .. size - 1 : k # idx => put[k] = buf[k]
  BY <1>2, <1>4
<1>7. \A k \in 1 .. histlen : buf[Slot(l, size, k)] = s[off - histlen + k]
  BY <1>1 DEF Holds
<1>8. PICK i \in 0..(size - 1), h \in 0..size : i = m.idx /\ h = m.histlen
  BY <1>3, PutByteInRange DEF LogInRange
<1>9. /\ idx + 1 = size => i = 0
      /\ idx + 1 < size => i = idx + 1
      /\ histlen = size => h = histlen
      /\ histlen < size => h = histlen + 1
  BY <1>5, <1>8
<1>10. SUFFICES Holds(m, size, s, off + 1)
  BY <1>3
<1>11. SUFFICES ASSUME NEW k \in 1 .. m.histlen
                PROVE  m.buf[Slot(m, size, k)] = s[(off + 1) - m.histlen + k]
  BY Zenon DEF Holds
<1>12. k \in 1 .. h
  BY <1>8
<1>13. PICK c : c = IF i + size - h + k - 1 < size THEN i + size - h + k - 1 ELSE i - h + k - 1
  OBVIOUS
<1>14. Slot(m, size, k) = c
  BY <1>8, <1>13, Zenon DEF Slot
<1>15. put[c] = s[off + 1 - h + k]
  <2>1. CASE k = h
    <3>1. c = idx
      BY <1>2, <1>9, <1>13, <2>1
    <3>2. off + 1 - h + k = off + 1
      BY <1>9, <2>1
    <3>3. QED
      BY <1>6, <3>1, <3>2
  <2>2. CASE k # h
    <3>1. PICK j \in 1 .. histlen : j = IF histlen = size THEN k + 1 ELSE k
      BY <1>2, <1>9, <1>12, <2>2
    <3>2. PICK d : d = IF idx + size - histlen + j - 1 < size THEN idx + size - histlen + j - 1
                       ELSE idx - histlen + j - 1
      OBVIOUS
    <3>3. Slot(l, size, j) = d
      BY <1>1, <3>2, Zenon DEF Slot
    <3>4. c = d /\ d # idx /\ d \in 0 .. size - 1
      <4>1. CASE histlen = size
        BY <1>2, <1>9, <1>12, <1>13, <2>2, <3>1, <3>2, <4>1
      <4>2. CASE histlen < size
        BY <1>2, <1>9, <1>12, <1>13, <2>2, <3>1, <3>2, <4>2
      <4>3. QED
        BY <1>2, <4>1, <4>2
    <3>5. off + 1 - h + k = off - histlen + j
      BY <1>2, <1>9, <1>12, <2>2, <3>1
    <3>6. QED
      BY <1>6, <1>7, <3>1, <3>3, <3>4, <3>5
  <2>3. QED
    BY <2>1, <2>2
<1>16. (off + 1) - m.histlen + k = off + 1 - h + k
  BY <1>8, <1>9, <1>12
<1>17. QED
  BY <1>5, <1>14, <1>15, <1>16, Zenon

\* ... and what FeedBacklog writes.
BacklogHolds(v, s) == Holds(v.log, v.size, s, v.off)

LEMMA FedHolds ==
  ASSUME NEW v, BacklogInRange(v), BacklogAgrees(v), v.log.on,
         NEW S, NEW s \in Seq(S), Len(s) = v.off, BacklogHolds(v, s), NEW p \in Seq(S)
  PROVE  Holds(Fed(v, p)[Len(p)], v.size, s \o p, v.off + Len(p))
<1>1. PICK m \in Nat : m = Len(p)
  BY LenProperties
<1>2. PICK size \in Nat \ {0} : size = v.size
  BY DEF BacklogInRange
<1>3. PICK off \in Nat : off = v.off
  BY DEF BacklogAgrees
<1>4. PICK t : t = s \o p
  OBVIOUS
<1>5. (\A i \in 1 .. off : t[i] = s[i]) /\ \A i \in 1 .. m : t[off + i] = p[i]
  BY <1>1, <1>3, <1>4, Concatenated
<1>6. PICK h : h = Fed(v, p)
  OBVIOUS
<1>7. /\ h[0] = v.log /\ \A n \in 1 .. m : h[n] = PutByte(h[n - 1], size, p[n])
      /\ \A n \in 0 .. m : LogInRange(h[n], size)
  BY <1>1, <1>2, <1>6, FedDef
<1>. DEFINE T == {n \in 0 .. m : Holds(h[n], size, t, off + n)}
<1>8. 0 \in T
  <2>1. PICK l : l = v.log
    OBVIOUS
  <2>2. l.histlen \in 0 .. off /\ LogInRange(l, size)
    BY <1>2, <1>3, <2>1 DEF BacklogInRange, BacklogAgrees, LogInRange
  <2>3. Holds(l, size, s, off)
    BY <1>2, <1>3, <2>1 DEF BacklogHolds
  <2>4. \A k \in 1 .. l.histlen : off - l.histlen + k \in 1 .. off
    BY <2>2
  <2>5. Holds(l, size, t, off)
    BY <1>5, <2>3, <2>4 DEF Holds
  <2>6. QED
    BY <1>7, <2>1, <2>5
<1>9. \A n \in T : n < m => n + 1 \in T
  <2>1. SUFFICES ASSUME NEW n \in T, n < m PROVE n + 1 \in T
    OBVIOUS
  <2>2. PICK k \in 0 .. m : k = n
    OBVIOUS
  <2>3. /\ k + 1 \in 1 .. m /\ k + 1 \in 0 .. m /\ (k + 1) - 1 = k /\ off + k \in Nat
        /\ off + (k + 1) = off + k + 1
    BY <2>1, <2>2
  <2>4. h[k + 1] = PutByte(h[k], size, p[k + 1]) /\ LogInRange(h[k], size) /\ t[off + k + 1] = p[k + 1]
    BY <1>5, <1>7, <2>3
  <2>5. Holds(h[k], size, t, off + k)
    BY <2>2
  <2>6. Holds(h[k + 1], size, t, off + k + 1)
    BY <2>3, <2>4, <2>5, PutByteHolds
  <2>7. QED
    BY <2>2, <2>3, <2>6
<1>10. T \in SUBSET (0 .. m)
  OBVIOUS
<1>. HIDE DEF T
<1>11. \A n \in 0 .. m : n \in T
  BY <1>8, <1>9, <1>10, IntervalInduct
<1>12. Holds(h[m], size, t, off + m)
  BY <1>11 DEF T
<1>13. QED
  BY <1>1, <1>2, <1>3, <1>4, <1>6, <1>12, Zenon

\* The length of the backlog never exceeds what was written.
LEMMA FedLength ==
  ASSUME NEW v, BacklogInRange(v), BacklogAgrees(v), v.log.on, NEW S, NEW p \in Seq(S)
  PROVE  Fed(v, p)[Len(p)].histlen <= v.off + Len(p)
<1>1. PICK m \in Nat : m = Len(p)
  BY LenProperties
<1>2. PICK size \in Nat \ {0} : size = v.size
  BY DEF BacklogInRange
<1>3. PICK off \in Nat : off = v.off
  BY DEF BacklogAgrees
<1>4. PICK h : h = Fed(v, p)
  OBVIOUS
<1>5. /\ h[0] = v.log /\ \A n \in 1 .. m : h[n] = PutByte(h[n - 1], size, p[n])
      /\ \A n \in 0 .. m : LogInRange(h[n], size)
  BY <1>1, <1>2, <1>4, FedDef
<1>. DEFINE T == {n \in 0 .. m : h[n].histlen <= off + n}
<1>6. 0 \in T
  BY <1>3, <1>5 DEF BacklogAgrees
<1>7. \A n \in T : n < m => n + 1 \in T
  <2>1. SUFFICES ASSUME NEW n \in T, n < m PROVE n + 1 \in T
    OBVIOUS
  <2>2. PICK k \in 0 .. m : k = n
    OBVIOUS
  <2>3. k + 1 \in 1 .. m /\ k + 1 \in 0 .. m /\ (k + 1) - 1 = k
    BY <2>1, <2>2
  <2>4. h[k + 1] = PutByte(h[k], size, p[k + 1]) /\ LogInRange(h[k], size)
    BY <1>5, <2>3
  <2>5. PICK o : o = PutByte(h[k], size, p[k + 1])
    OBVIOUS
  <2>6. o.histlen = IF h[k].histlen = size THEN h[k].histlen ELSE h[k].histlen + 1
    BY <2>4, <2>5, PutByteIs
  <2>7. h[k].histlen \in 0 .. size /\ h[k].histlen <= off + k
    BY <2>2, <2>4 DEF LogInRange
  <2>8. o.histlen <= off + (k + 1)
    BY <2>6, <2>7
  <2>9. QED
    BY <2>2, <2>3, <2>4, <2>5, <2>8
<1>8. T \in SUBSET (0 .. m)
  OBVIOUS
<1>. HIDE DEF T
<1>9. \A n \in 0 .. m : n \in T
  BY <1>6, <1>7, <1>8, IntervalInduct
<1>10. h[m].histlen <= off + m
  BY <1>9 DEF T
<1>11. QED
  BY <1>1, <1>3, <1>4, <1>10, Zenon

LEMMA FeedBacklogKeeps ==
  ASSUME NEW v, DOMAIN v = Fields, v.log.on, NEW S, NEW p \in Seq(S)
  PROVE  Evolves(FeedBacklog(v, p), v, {"off", "log"})
<1>1. PICK u : u = FeedBacklog(v, p)
  OBVIOUS
<1>2. Changes(u, v, {"off", "log"})
  BY <1>1, Zenon DEF Changes, FeedBacklog
<1>3. u.size = v.size
  BY <1>2 DEF Changes, Fields
<1>4. ASSUME BacklogInRange(v) PROVE LogInRange(u.log, u.size)
  BY <1>1, <1>3, <1>4, FeedBacklogIs
<1>5. BacklogInRange(v) => BacklogInRange(u)
  BY <1>3, <1>4 DEF BacklogInRange
<1>6. ASSUME BacklogInRange(v), BacklogAgrees(v) PROVE BacklogAgrees(u)
  <2>1. PICK l, h : l = Fed(v, p)[Len(p)] /\ h = l.histlen
    OBVIOUS
  <2>2. /\ u.off = v.off + Len(p) /\ LogInRange(l, v.size)
        /\ u.log = [on |-> TRUE, buf |-> l.buf, idx |-> l.idx, histlen |-> l.histlen,
                    first |-> v.off + Len(p) - l.histlen + 1]
    BY <1>1, <1>6, <2>1, FeedBacklogIs
  <2>3. u.log.histlen = h /\ u.log.first = v.off + Len(p) - h + 1 /\ h \in Nat /\ v.size \in Nat
    <3>1. h \in 0 .. v.size /\ v.size \in Nat
      BY <1>6, <2>1, <2>2 DEF LogInRange, BacklogInRange
    <3>2. u.log.histlen = h /\ u.log.first = v.off + Len(p) - h + 1
      BY <2>1, <2>2
    <3>3. QED
      BY <3>1, <3>2
  <2>4. h <= v.off + Len(p)
    BY <1>6, <2>1, FedLength
  <2>5. v.off \in Nat /\ Len(p) \in Nat
    BY <1>6, LenProperties DEF BacklogAgrees
  <2>6. QED
    BY <2>2, <2>3, <2>4, <2>5 DEF BacklogAgrees
<1>7. QED
  BY <1>1, <1>2, <1>5, <1>6 DEF Evolves, LogStep

\* What is fed to the backlog continues what it holds, also where its index
\* wraps around and the oldest bytes are lost (feedReplicationBacklog).
THEOREM BacklogKeepsStream ==
  ASSUME NEW v, DOMAIN v = Fields, BacklogInRange(v), BacklogAgrees(v), v.log.on,
         NEW S, NEW s \in Seq(S), Len(s) = v.off, BacklogHolds(v, s), NEW p \in Seq(S)
  PROVE  BacklogHolds(FeedBacklog(v, p), s \o p)
<1>1. PICK u : u = FeedBacklog(v, p)
  OBVIOUS
<1>2. PICK l : l = Fed(v, p)[Len(p)]
  OBVIOUS
<1>3. /\ Changes(u, v, {"off", "log"})
      /\ u.off = v.off + Len(p)
      /\ u.log = [on |-> TRUE, buf |-> l.buf, idx |-> l.idx, histlen |-> l.histlen,
                  first |-> v.off + Len(p) - l.histlen + 1]
  BY <1>1, <1>2, FeedBacklogIs
<1>4. u.size = v.size /\ u.log.buf = l.buf /\ u.log.idx = l.idx /\ u.log.histlen = l.histlen
  BY <1>3 DEF Changes, Fields
<1>5. Holds(l, v.size, s \o p, v.off + Len(p))
  BY <1>2, FedHolds
<1>6. \A k : Slot(u.log, v.size, k) = Slot(l, v.size, k)
  BY <1>4, Zenon DEF Slot
<1>7. Holds(u.log, u.size, s \o p, u.off)
  BY <1>3, <1>4, <1>5, <1>6, Zenon DEF Holds
<1>8. QED
  BY <1>1, <1>7 DEF BacklogHolds

\* Division, where the provers need it.
LEMMA ModOnce ==
  ASSUME NEW n \in Nat, NEW x \in Nat, 0 < n
  PROVE  (x < n => x % n = x) /\ (n <= x /\ x < 2 * n => x % n = x - n)
BY SMT

\* A slave that may continue is sent what the stream has from its offset on,
\* no byte more and none less (addReplyReplicationBacklog).
THEOREM ContinuesWithStream ==
  ASSUME NEW v, BacklogInRange(v), BacklogAgrees(v), NEW S, NEW s \in Seq(S), Len(s) = v.off,
         BacklogHolds(v, s), NEW r, r.off \in Int, CanContinue(v, r)
  PROVE  BacklogFrom(v, r.off) = [k \in 1 .. v.off - r.off + 1 |-> s[r.off + k - 1]]
<1>1. PICK l : l = v.log
  OBVIOUS
<1>2. PICK size \in Nat \ {0} : size = v.size
  BY DEF BacklogInRange
<1>3. PICK off \in Nat : off = v.off
  BY DEF BacklogAgrees
<1>4. PICK o \in Int : o = r.off
  OBVIOUS
<1>5. /\ LogInRange(l, size) /\ l.histlen <= off /\ l.first = off - l.histlen + 1
      /\ l.first <= o /\ o <= l.first + l.histlen
  BY <1>1, <1>2, <1>3, <1>4 DEF CanContinue, BacklogInRange, BacklogAgrees
<1>6. PICK idx \in 0..(size - 1), h \in 0..size : idx = l.idx /\ h = l.histlen
  BY <1>5 DEF LogInRange
<1>7. PICK skip \in 0 .. h : skip = o - l.first
  BY <1>5, <1>6
<1>8. o = off - h + 1 + skip
  BY <1>5, <1>6, <1>7
<1>9. PICK m \in Nat : m = h - skip
  OBVIOUS
<1>10. PICK j : j = (((idx + (size - h)) % size) + skip) % size
  OBVIOUS
<1>11. BacklogFrom(v, r.off) = [k \in 1 .. m |-> l.buf[(j + k - 1) % size]]
  <2>1. m = IF h = 0 THEN 0 ELSE h - skip
    BY <1>9
  <2>2. QED
    BY <1>1, <1>2, <1>4, <1>6, <1>7, <1>10, <2>1, Zenon DEF BacklogFrom
<1>12. \A k \in 1 .. m : l.buf[(j + k - 1) % size] = s[o + k - 1]
  <2>1. SUFFICES ASSUME NEW k \in 1 .. m PROVE l.buf[(j + k - 1) % size] = s[o + k - 1]
    OBVIOUS
  <2>2. skip + k \in 1 .. h
    BY <1>9
  <2>3. l.buf[Slot(l, size, skip + k)] = s[off - h + (skip + k)]
    BY <1>1, <1>2, <1>3, <1>6, <2>2, Zenon DEF BacklogHolds, Holds
  <2>4. off - h + (skip + k) = o + k - 1
    BY <1>8
  <2>5. Slot(l, size, skip + k) = IF idx + size - h + (skip + k) - 1 < size THEN idx + size - h + (skip + k) - 1
                                  ELSE idx - h + (skip + k) - 1
    BY <1>6, Zenon DEF Slot
  <2>6. PICK a : a = (idx + (size - h)) % size
    OBVIOUS
  <2>7. a \in 0 .. size - 1 /\ (a = idx + size - h \/ a = idx - h)
    <3>1. PICK x \in Nat : x = idx + (size - h) /\ x < 2 * size
      OBVIOUS
    <3>2. (x < size => a = x) /\ (size <= x => a = x - size)
      BY <2>6, <3>1, ModOnce
    <3>3. QED
      BY <3>1, <3>2
  <2>8. j \in 0 .. size - 1 /\ (j = a + skip \/ j = a + skip - size)
    <3>1. PICK x \in Nat : x = a + skip /\ x < 2 * size
      BY <2>7
    <3>2. (x < size => j = x) /\ (size <= x => j = x - size)
      BY <1>10, <2>6, <3>1, ModOnce
    <3>3. QED
      BY <2>7, <3>1, <3>2
  <2>9. PICK c : c = (j + k - 1) % size
    OBVIOUS
  <2>10. c \in 0 .. size - 1 /\ (c = j + k - 1 \/ c = j + k - 1 - size)
    <3>1. PICK x \in Nat : x = j + k - 1 /\ x < 2 * size
      BY <2>2, <2>8
    <3>2. (x < size => c = x) /\ (size <= x => c = x - size)
      BY <2>9, <3>1, ModOnce
    <3>3. QED
      BY <2>8, <3>1, <3>2
  <2>11. PICK d : d = IF idx + size - h + (skip + k) - 1 < size THEN idx + size - h + (skip + k) - 1
                      ELSE idx - h + (skip + k) - 1
    OBVIOUS
  <2>12. h < size => idx = h
    BY <1>5, <1>6 DEF LogInRange
  <2>13. d \in 0 .. size - 1 /\ (d = idx + size - h + (skip + k) - 1 \/ d = idx - h + (skip + k) - 1)
    BY <2>2, <2>11, <2>12
  <2>14. c = d
    BY <2>7, <2>8, <2>10, <2>13
  <2>15. l.buf[d] = s[o + k - 1]
    BY <2>3, <2>4, <2>5, <2>11
  <2>16. QED
    BY <2>9, <2>14, <2>15
<1>13. off - o + 1 = m
  BY <1>8, <1>9
<1>14. [k \in 1 .. m |-> l.buf[(j + k - 1) % size]] = [k \in 1 .. m |-> s[o + k - 1]]
  BY <1>12
<1>15. QED
  BY <1>3, <1>4, <1>11, <1>13, <1>14, Zenon

-----------------------------------------------------------------------------
(* The operations, one by one. *)

LEMMA CreateBacklogKeeps ==
  ASSUME NEW v, DOMAIN v = Fields
  PROVE  Evolves(CreateBacklog(v), v, {"off", "log"})
<1>1. PICK u : u = CreateBacklog(v)
  OBVIOUS
<1>2. PICK buf : buf = [k \in 0..(v.size - 1) |-> Ping]
  OBVIOUS
<1>3. /\ Changes(u, v, {"off", "log"}) /\ u.off = v.off + 1
      /\ u.log = [on |-> TRUE, buf |-> buf, idx |-> 0, histlen |-> 0, first |-> v.off + 2]
  BY <1>1, <1>2, Zenon DEF Changes, CreateBacklog, Fields
<1>4. u.size = v.size
  BY <1>3 DEF Changes, Fields
<1>5. /\ u.log.buf = buf /\ u.log.idx = 0 /\ u.log.histlen = 0 /\ u.log.first = v.off + 2
      /\ u.log = [on |-> TRUE, buf |-> u.log.buf, idx |-> u.log.idx, histlen |-> u.log.histlen, first |-> u.log.first]
  BY <1>3
<1>6. u.log.buf = [k \in 0..(v.size - 1) |-> u.log.buf[k]]
  BY <1>2, <1>5
<1>7. BacklogInRange(v) => BacklogInRange(u)
  BY <1>4, <1>5, <1>6 DEF BacklogInRange, LogInRange
<1>8. BacklogAgrees(v) => BacklogAgrees(u)
  BY <1>3, <1>5 DEF BacklogAgrees
<1>9. QED
  BY <1>1, <1>3, <1>7, <1>8 DEF Evolves, LogStep

LEMMA FreeBacklogKeeps ==
  ASSUME NEW v, DOMAIN v = Fields
  PROVE  Evolves(FreeBacklog(v), v, {"log"}) /\ ~FreeBacklog(v).log.on
<1>1. PICK u : u = FreeBacklog(v)
  OBVIOUS
<1>2. Changes(u, v, {"log"}) /\ u.log = NoLog
  BY <1>1, Zenon DEF Changes, FreeBacklog, Fields
<1>3. u.size = v.size /\ u.off = v.off /\ ~u.log.on
  BY <1>2 DEF Changes, Fields, NoLog
<1>4. QED
  BY <1>1, <1>2, <1>3 DEF Evolves, LogStep, BacklogInRange, BacklogAgrees

LEMMA ResizeBacklogKeeps ==
  ASSUME NEW v, DOMAIN v = Fields, NEW size \in Nat \ {0}
  PROVE  Evolves(ResizeBacklog(v, size), v, {"size", "log"})
<1>1. PICK u : u = ResizeBacklog(v, size)
  OBVIOUS
<1>2. CASE ~v.log.on \/ size = v.size
  <2>1. u = [v EXCEPT !.size = size]
    BY <1>1, <1>2 DEF ResizeBacklog
  <2>2. Changes(u, v, {"size", "log"}) /\ u.log = v.log /\ u.off = v.off /\ u.size = size
    BY <2>1, Zenon DEF Changes, Fields
  <2>3. QED
    BY <1>1, <1>2, <2>2 DEF Evolves, LogStep, BacklogInRange, BacklogAgrees
<1>3. CASE ~(~v.log.on \/ size = v.size)
  <2>1. PICK buf : buf = [k \in 0..(size - 1) |-> Ping]
    OBVIOUS
  <2>2. u = [v EXCEPT !.size = size,
                      !.log = [on |-> TRUE, buf |-> buf, idx |-> 0, histlen |-> 0, first |-> v.off + 1]]
    BY <1>1, <1>3, <2>1, Zenon DEF ResizeBacklog
  <2>3. /\ Changes(u, v, {"size", "log"}) /\ u.off = v.off /\ u.size = size
        /\ u.log = [on |-> TRUE, buf |-> buf, idx |-> 0, histlen |-> 0, first |-> v.off + 1]
    BY <2>2, Zenon DEF Changes, Fields
  <2>4. /\ u.log.buf = buf /\ u.log.idx = 0 /\ u.log.histlen = 0 /\ u.log.first = v.off + 1
        /\ u.log = [on |-> TRUE, buf |-> u.log.buf, idx |-> u.log.idx, histlen |-> u.log.histlen, first |-> u.log.first]
    BY <2>3
  <2>5. u.log.buf = [k \in 0..(size - 1) |-> u.log.buf[k]]
    BY <2>1, <2>4
  <2>6. BacklogInRange(u)
    BY <2>3, <2>4, <2>5 DEF BacklogInRange, LogInRange
  <2>7. BacklogAgrees(v) => BacklogAgrees(u)
    BY <2>3, <2>4 DEF BacklogAgrees
  <2>8. QED
    BY <1>1, <2>3, <2>6, <2>7 DEF Evolves, LogStep
<1>4. QED
  BY <1>2, <1>3

\* What is written to the slaves.
LEMMA FeedSlavesKeeps ==
  ASSUME NEW v, DOMAIN v = Fields, NEW d, NEW S, NEW cmd \in Seq(S)
  PROVE  Evolves(FeedSlaves(v, d, cmd), v, SlaveFields)
<1>1. PICK T : T = S \cup {Sel(d)}
  OBVIOUS
<1>2. PICK p : p = (IF v.seldb = d THEN <<>> ELSE <<Sel(d)>>) \o cmd
  OBVIOUS
<1>3. p \in Seq(T)
  <2>1. cmd \in Seq(T) /\ <<>> \in Seq(T) /\ <<Sel(d)>> \in Seq(T)
    BY <1>1
  <2>2. <<>> \o cmd \in Seq(T) /\ <<Sel(d)>> \o cmd \in Seq(T)
    BY <2>1, ConcatProperties
  <2>3. QED
    BY <1>2, <2>2
<1>4. PICK w : w = [v EXCEPT !.seldb = d]
  OBVIOUS
<1>5. Changes(w, v, {"seldb"})
  BY <1>4, Zenon DEF Changes
<1>6. Evolves(w, v, {"seldb"}) /\ DOMAIN w = Fields /\ w.log = v.log
  BY <1>5, SameLog DEF Changes, Fields
<1>7. Evolves(w, v, SlaveFields)
  BY <1>6, EvolvesMore DEF SlaveFields
<1>8. PICK fed : fed = IF v.log.on THEN FeedBacklog(w, p) ELSE w
  OBVIOUS
<1>9. Evolves(fed, v, SlaveFields) /\ DOMAIN fed = Fields
  <2>1. CASE v.log.on
    <3>1. fed = FeedBacklog(w, p)
      BY <1>8, <2>1
    <3>2. Evolves(fed, w, {"off", "log"})
      BY <1>3, <1>6, <2>1, <3>1, FeedBacklogKeeps
    <3>3. Evolves(fed, w, SlaveFields)
      BY <3>2, EvolvesMore DEF SlaveFields
    <3>4. QED
      BY <1>6, <1>7, <3>2, <3>3, EvolvesTrans DEF Evolves, Changes
  <2>2. CASE ~v.log.on
    BY <1>6, <1>7, <1>8, <2>2
  <2>3. QED
    BY <2>1, <2>2
<1>10. PICK C : C = Slaves(v) \ InState(v, "start")
  OBVIOUS
<1>11. FeedSlaves(v, d, cmd) = IF ~v.log.on /\ Slaves(v) = {} THEN v ELSE AddReply(fed, C, p)
  BY <1>2, <1>4, <1>8, <1>10, Zenon DEF FeedSlaves
<1>12. Evolves(AddReply(fed, C, p), fed, SlaveFields)
  <2>1. Evolves(AddReply(fed, C, p), fed, {"clients", "sent"})
    BY <1>9, AddReplyKeeps
  <2>2. QED
    BY <2>1, EvolvesMore DEF SlaveFields
<1>13. Evolves(AddReply(fed, C, p), v, SlaveFields)
  BY <1>9, <1>12, EvolvesTrans
<1>14. QED
  BY <1>11, <1>13, EvolvesNot

\* The slaves are told, added, freed and put online.
LEMMA SlaveOperationsKeep ==
  ASSUME NEW v, DOMAIN v = Fields
  PROVE  /\ \A C, msgs : Evolves(SendAll(v, C, msgs), v, SlaveFields)
         /\ \A c, msgs : Evolves(Send(v, c, msgs), v, SlaveFields)
         /\ \A C : Evolves(FreeSlaves(v, C), v, SlaveFields)
         /\ \A C : Evolves(Refuse(v, C), v, SlaveFields)
         /\ \A c, client : Evolves(AddSlave(v, c, client), v, SlaveFields)
         /\ \A C, off : Evolves(SetupForFullResync(v, C, off), v, SlaveFields)
<1>1. \A C, msgs : Changes(SendAll(v, C, msgs), v, SlaveFields \ {"off", "log"})
  BY DEF Changes, SendAll, SlaveFields
<1>2. \A c, msgs : Changes(Send(v, c, msgs), v, SlaveFields \ {"off", "log"})
  BY <1>1 DEF Send
<1>3. \A C : Changes(FreeSlaves(v, C), v, SlaveFields \ {"off", "log"})
  BY DEF Changes, FreeSlaves, SlaveFields
<1>4. \A c, client : Changes(AddSlave(v, c, client), v, SlaveFields \ {"off", "log"})
  BY DEF Changes, AddSlave, SlaveFields
<1>5. \A C, off : Changes(SetupForFullResync(v, C, off), v, SlaveFields \ {"off", "log"})
  BY DEF Changes, SetupForFullResync, SendAll, Each, SlaveFields
<1>6. \A u : Changes(u, v, SlaveFields \ {"off", "log"}) => Evolves(u, v, SlaveFields)
  <2>1. TAKE u
  <2>2. HAVE Changes(u, v, SlaveFields \ {"off", "log"})
  <2>3. Evolves(u, v, SlaveFields \ {"off", "log"})
    BY <2>2, SameLog DEF SlaveFields
  <2>4. QED
    BY <2>3, EvolvesMore DEF SlaveFields
<1>7. \A C : Changes(Refuse(v, C), v, SlaveFields \ {"off", "log"})
  BY DEF Changes, Refuse, SlaveFields
<1>8. QED
  BY <1>1, <1>2, <1>3, <1>4, <1>5, <1>6, <1>7

LEMMA PutSlaveOnlineKeeps ==
  ASSUME NEW v, DOMAIN v = Fields, NEW c
  PROVE  Evolves(PutSlaveOnline(v, c), v, SlaveFields)
<1>1. Changes(PutSlaveOnline(v, c), v, {"clients", "sent"})
  BY DEF Changes, PutSlaveOnline, Send, SendAll
<1>2. Evolves(PutSlaveOnline(v, c), v, {"clients", "sent"})
  BY <1>1, SameLog
<1>3. QED
  BY <1>2, EvolvesMore DEF SlaveFields

\* A snapshot is started only where none is made, and of the data of now.
IsSnapshot(k, v) ==
    \/ k = v.child
    \/ k = [NoChild EXCEPT !.type = "disk", !.data = v.data, !.before = v.dirty]
    \/ \E to : k = [NoChild EXCEPT !.type = "socket", !.data = v.data, !.to = to]
SaveFields == SlaveFields \cup {"child"}

LEMMA StartBgsaveKeeps ==
  ASSUME NEW v, DOMAIN v = Fields, NEW capa, NEW ok
  PROVE  /\ Evolves(StartBgsaveForReplication(v, capa, ok), v, SaveFields)
         /\ IsSnapshot(StartBgsaveForReplication(v, capa, ok).child, v)
<1>1. PICK W : W = InState(v, "start")
  OBVIOUS
<1>2. PICK saving : saving = CASE ~ok -> v
                               [] ok /\ v.diskless /\ capa -> SaveToSlavesSockets(v)
                               [] OTHER -> SaveBackground(v)
  OBVIOUS
<1>3. saving = v \/ saving = SaveToSlavesSockets(v) \/ saving = SaveBackground(v)
  BY <1>2
<1>4. Changes(saving, v, {"child"}) /\ IsSnapshot(saving.child, v)
  <2>1. CASE saving = v
    BY <2>1 DEF Changes, IsSnapshot
  <2>2. CASE saving = SaveBackground(v)
    <3>1. Changes(saving, v, {"child"})
      BY <2>2, Zenon DEF Changes, SaveBackground
    <3>2. saving.child = [NoChild EXCEPT !.type = "disk", !.data = v.data, !.before = v.dirty]
      BY <2>2, Zenon DEF SaveBackground, Fields
    <3>3. QED
      BY <3>1, <3>2 DEF IsSnapshot
  <2>3. CASE saving = SaveToSlavesSockets(v)
    <3>1. Changes(saving, v, {"child"})
      BY <2>3, Zenon DEF Changes, SaveToSlavesSockets
    <3>2. saving.child = [NoChild EXCEPT !.type = "socket", !.data = v.data, !.to = InState(v, "start")]
      BY <2>3, Zenon DEF SaveToSlavesSockets, Fields
    <3>3. QED
      BY <3>1, <3>2 DEF IsSnapshot
  <2>4. QED
    BY <1>3, <2>1, <2>2, <2>3
<1>5. Evolves(saving, v, {"child"}) /\ DOMAIN saving = Fields
  BY <1>4, SameLog DEF Changes
<1>6. Evolves(saving, v, SaveFields)
  BY <1>5, EvolvesMore DEF SaveFields
<1>7. PICK set : set = SetupForFullResync(saving, W, InitialOffset(v))
  OBVIOUS
<1>8. Evolves(set, saving, SlaveFields)
  BY <1>5, <1>7, SlaveOperationsKeep
<1>9. Evolves(set, saving, SaveFields) /\ set.child = saving.child
  BY <1>5, <1>8, EvolvesMore DEF SaveFields, SlaveFields, Fields, Evolves, Changes
<1>10. PICK told : told = IF ok \/ (v.diskless /\ capa) THEN set ELSE v
  OBVIOUS
<1>11. Evolves(told, v, SaveFields) /\ DOMAIN told = Fields /\ IsSnapshot(told.child, v)
  <2>1. Evolves(set, v, SaveFields)
    BY <1>6, <1>9, EvolvesTrans
  <2>2. CASE told = set
    BY <1>4, <1>9, <2>1, <2>2 DEF Evolves, Changes
  <2>3. CASE told = v
    BY <2>3, EvolvesNot DEF IsSnapshot
  <2>4. QED
    BY <1>10, <2>2, <2>3
<1>12. PICK w : w = Refuse(told, W)
  OBVIOUS
<1>13. Evolves(w, told, SlaveFields)
  BY <1>11, <1>12, SlaveOperationsKeep
<1>14. Evolves(w, told, SaveFields) /\ w.child = told.child
  BY <1>11, <1>13, EvolvesMore DEF SaveFields, SlaveFields, Fields, Evolves, Changes
<1>15. Evolves(w, v, SaveFields)
  BY <1>11, <1>14, EvolvesTrans
<1>16. StartBgsaveForReplication(v, capa, ok) = IF ok THEN told ELSE w
  BY <1>1, <1>2, <1>7, <1>10, <1>12, Zenon DEF StartBgsaveForReplication
<1>17. QED
  BY <1>11, <1>14, <1>15, <1>16

LEMMA UpdateSlavesKeeps ==
  ASSUME NEW v, DOMAIN v = Fields, NEW done, NEW type, NEW ok
  PROVE  /\ Evolves(UpdateSlavesWaitingBgsave(v, done, type, ok), v, SaveFields)
         /\ IsSnapshot(UpdateSlavesWaitingBgsave(v, done, type, ok).child, v)
<1>1. PICK E : E = InState(v, "end")
  OBVIOUS
<1>2. PICK a : a = Each(v, E, LAMBDA k : [k EXCEPT !.st = "online", !.onack = TRUE])
  OBVIOUS
<1>3. PICK b : b = Each(v, E, LAMBDA k : [k EXCEPT !.st = "bulk", !.file = v.rdb])
  OBVIOUS
<1>4. Changes(a, v, {"clients"}) /\ Changes(b, v, {"clients"})
  BY <1>2, <1>3 DEF Changes, Each
<1>5. Evolves(a, v, {"clients"}) /\ Evolves(b, v, {"clients"})
  BY <1>4, SameLog
<1>6. Evolves(a, v, SlaveFields) /\ Evolves(b, v, SlaveFields) /\ Evolves(FreeSlaves(v, E), v, SlaveFields)
  BY <1>5, EvolvesMore, SlaveOperationsKeep DEF SlaveFields
<1>7. PICK served : served = CASE type = "socket" -> a
                               [] type = "disk" /\ done -> b
                               [] OTHER -> FreeSlaves(v, E)
  OBVIOUS
<1>8. Evolves(served, v, SlaveFields)
  BY <1>6, <1>7
<1>9. /\ Evolves(served, v, SaveFields) /\ DOMAIN served = Fields
      /\ served.child = v.child /\ served.data = v.data /\ served.dirty = v.dirty
  BY <1>8, EvolvesMore DEF SaveFields, SlaveFields, Fields, Evolves, Changes
<1>10. PICK w : w = StartBgsaveForReplication(served, CapaOfWaiting(v), ok)
  OBVIOUS
<1>11. Evolves(w, served, SaveFields) /\ IsSnapshot(w.child, served)
  BY <1>9, <1>10, StartBgsaveKeeps
<1>12. Evolves(w, v, SaveFields)
  BY <1>9, <1>11, EvolvesTrans
<1>13. IsSnapshot(w.child, v)
  BY <1>9, <1>11, Zenon DEF IsSnapshot
<1>14. IsSnapshot(served.child, v)
  BY <1>9 DEF IsSnapshot
<1>15. UpdateSlavesWaitingBgsave(v, done, type, ok) = IF InState(v, "start") = {} THEN served ELSE w
  BY <1>1, <1>2, <1>3, <1>7, <1>10, Zenon DEF UpdateSlavesWaitingBgsave
<1>16. QED
  BY <1>9, <1>12, <1>13, <1>14, <1>15

\* What has ended is no longer there, before what follows.
Ended(u, v, dirty) ==
    \E w : /\ Changes(w, v, {"dirty", "child"}) /\ w.child = NoChild /\ w.dirty = dirty
           /\ Evolves(u, v, SaveFields \cup {"dirty"}) /\ Evolves(u, w, SaveFields) /\ IsSnapshot(u.child, w)

LEMMA DoneDiskEnds ==
  ASSUME NEW v, DOMAIN v = Fields, NEW done, NEW ok
  PROVE  Ended(DoneDisk(v, done, ok), v, IF done THEN v.dirty - v.child.before ELSE v.dirty)
<1>1. PICK saved : saved = IF done THEN [v EXCEPT !.dirty = v.dirty - v.child.before] ELSE v
  OBVIOUS
<1>2. PICK w : w = [saved EXCEPT !.child = NoChild]
  OBVIOUS
<1>3. PICK u : u = UpdateSlavesWaitingBgsave(w, done, "disk", ok)
  OBVIOUS
<1>4. DoneDisk(v, done, ok) = u
  BY <1>1, <1>2, <1>3, Zenon DEF DoneDisk
<1>5. /\ Changes(saved, v, {"dirty"})
      /\ saved.dirty = IF done THEN v.dirty - v.child.before ELSE v.dirty
  BY <1>1, Zenon DEF Changes, Fields
<1>6. Changes(w, saved, {"child"}) /\ w.child = NoChild
  BY <1>2, <1>5, Zenon DEF Changes, Fields
<1>7. Changes(w, v, {"dirty", "child"}) /\ w.dirty = saved.dirty /\ DOMAIN w = Fields
  BY <1>5, <1>6 DEF Changes, Fields
<1>8. Evolves(w, v, SaveFields \cup {"dirty"})
  <2>1. Evolves(w, v, {"dirty", "child"})
    BY <1>7, SameLog
  <2>2. QED
    BY <2>1, EvolvesMore DEF SaveFields
<1>9. Evolves(u, w, SaveFields) /\ IsSnapshot(u.child, w)
  BY <1>3, <1>7, UpdateSlavesKeeps
<1>10. Evolves(u, w, SaveFields \cup {"dirty"})
  BY <1>9, EvolvesMore
<1>11. Evolves(u, v, SaveFields \cup {"dirty"})
  BY <1>8, <1>10, EvolvesTrans
<1>12. QED
  BY <1>4, <1>5, <1>6, <1>7, <1>9, <1>11, Zenon DEF Ended

LEMMA DoneSocketEnds ==
  ASSUME NEW v, DOMAIN v = Fields, NEW good, NEW ok
  PROVE  Ended(DoneSocket(v, good, ok), v, v.dirty)
<1>1. PICK w : w = [v EXCEPT !.child = NoChild]
  OBVIOUS
<1>2. Changes(w, v, {"child"}) /\ w.child = NoChild
  BY <1>1, Zenon DEF Changes, Fields
<1>3. Changes(w, v, {"dirty", "child"}) /\ w.dirty = v.dirty /\ DOMAIN w = Fields
  BY <1>2 DEF Changes, Fields
<1>4. PICK C : C = InState(v, "end") \ good
  OBVIOUS
<1>5. PICK kept : kept = FreeSlaves(w, C)
  OBVIOUS
<1>6. Evolves(kept, w, SlaveFields) /\ DOMAIN kept = Fields
  BY <1>3, <1>5, SlaveOperationsKeep DEF Evolves, Changes
<1>7. /\ Evolves(kept, w, SaveFields) /\ kept.child = w.child
      /\ kept.data = w.data /\ kept.dirty = w.dirty
  BY <1>3, <1>6, EvolvesMore DEF SaveFields, SlaveFields, Fields, Evolves, Changes
<1>8. PICK u : u = UpdateSlavesWaitingBgsave(kept, good # {}, "socket", ok)
  OBVIOUS
<1>9. DoneSocket(v, good, ok) = u
  BY <1>1, <1>4, <1>5, <1>8, Zenon DEF DoneSocket
<1>10. Evolves(u, kept, SaveFields) /\ IsSnapshot(u.child, kept)
  BY <1>6, <1>8, UpdateSlavesKeeps
<1>11. Evolves(u, w, SaveFields)
  BY <1>7, <1>10, EvolvesTrans
<1>12. IsSnapshot(u.child, w)
  BY <1>7, <1>10, Zenon DEF IsSnapshot
<1>13. Evolves(w, v, SaveFields \cup {"dirty"})
  <2>1. Evolves(w, v, {"child"})
    BY <1>2, SameLog
  <2>2. QED
    BY <2>1, EvolvesMore DEF SaveFields
<1>14. Evolves(u, w, SaveFields \cup {"dirty"})
  BY <1>11, EvolvesMore
<1>15. Evolves(u, v, SaveFields \cup {"dirty"})
  BY <1>13, <1>14, EvolvesTrans
<1>16. QED
  BY <1>2, <1>3, <1>9, <1>11, <1>12, <1>15, Zenon DEF Ended

\* A slave that comes.  No snapshot is started over one that is saved to disk.
LEMMA JoinKeeps ==
  ASSUME NEW v, DOMAIN v = Fields, NEW c
  PROVE  Evolves(Join(v, c), v, SlaveFields)
<1>1. PICK like : like = v.clients[Head(Waiting(v))]
  OBVIOUS
<1>2. PICK w : w = [v EXCEPT !.clients[c].out = like.out]
  OBVIOUS
<1>3. Changes(w, v, {"clients"})
  BY <1>2, Zenon DEF Changes
<1>4. Evolves(w, v, {"clients"}) /\ DOMAIN w = Fields
  BY <1>3, SameLog DEF Changes
<1>5. Evolves(w, v, SlaveFields)
  BY <1>4, EvolvesMore DEF SlaveFields
<1>6. Join(v, c) = SetupForFullResync(w, {c}, like.init)
  BY <1>1, <1>2, Zenon DEF Join
<1>7. Evolves(Join(v, c), w, SlaveFields)
  BY <1>4, <1>6, SlaveOperationsKeep
<1>8. QED
  BY <1>5, <1>7, EvolvesTrans

Comes(u, v) == /\ Evolves(u, v, SaveFields) /\ IsSnapshot(u.child, v)
               /\ v.child.type = "disk" => u.child = v.child

LEMMA OnlySlaveFields ==
  ASSUME NEW v, DOMAIN v = Fields, NEW u, Evolves(u, v, SlaveFields)
  PROVE  Comes(u, v) /\ DOMAIN u = Fields /\ u.child = v.child /\ u.data = v.data /\ u.dirty = v.dirty
<1>1. DOMAIN u = Fields /\ u.child = v.child /\ u.data = v.data /\ u.dirty = v.dirty
  BY DEF Evolves, Changes, SlaveFields, Fields
<1>2. Evolves(u, v, SaveFields)
  BY EvolvesMore DEF SaveFields
<1>3. QED
  BY <1>1, <1>2 DEF Comes, IsSnapshot

\* The first slave begins a backlog.
Logged(u) == IF Len(u.slaves) = 1 /\ ~u.log.on THEN CreateBacklog(u) ELSE u

LEMMA LoggedKeeps ==
  ASSUME NEW v, DOMAIN v = Fields
  PROVE  Evolves(Logged(v), v, SlaveFields)
<1>1. Evolves(CreateBacklog(v), v, SlaveFields)
  BY CreateBacklogKeeps, EvolvesMore DEF SlaveFields
<1>2. QED
  BY <1>1, EvolvesNot DEF Logged

LEMMA FullResynchronizationKeeps ==
  ASSUME NEW v, DOMAIN v = Fields, NEW c, NEW r, NEW ok
  PROVE  Comes(FullResynchronization(v, c, r, ok), v)
<1>1. PICK added : added = AddSlave(v, c, NewClient(r))
  OBVIOUS
<1>2. Evolves(added, v, SlaveFields)
  BY <1>1, SlaveOperationsKeep
<1>3. DOMAIN added = Fields /\ added.child = v.child /\ added.data = v.data /\ added.dirty = v.dirty
  BY <1>2, OnlySlaveFields
<1>4. PICK joined : joined = IF CanJoin(v, r) THEN Join(added, c) ELSE added
  OBVIOUS
<1>5. Evolves(joined, v, SlaveFields) /\ DOMAIN joined = Fields
  <2>1. Evolves(Join(added, c), added, SlaveFields)
    BY <1>3, JoinKeeps
  <2>2. Evolves(Join(added, c), v, SlaveFields)
    BY <1>2, <2>1, EvolvesTrans
  <2>3. Evolves(joined, v, SlaveFields)
    BY <1>2, <1>4, <2>2
  <2>4. QED
    BY <2>3, OnlySlaveFields
<1>6. Comes(Logged(joined), v) /\ Comes(Logged(added), v)
  <2>1. Evolves(Logged(joined), joined, SlaveFields) /\ Evolves(Logged(added), added, SlaveFields)
    BY <1>3, <1>5, LoggedKeeps
  <2>2. Evolves(Logged(joined), v, SlaveFields) /\ Evolves(Logged(added), v, SlaveFields)
    BY <1>2, <1>5, <2>1, EvolvesTrans
  <2>3. QED
    BY <2>2, OnlySlaveFields
<1>7. PICK started : started = StartBgsaveForReplication(added, r.capa, ok)
  OBVIOUS
<1>8. Evolves(started, added, SaveFields) /\ IsSnapshot(started.child, added)
  BY <1>3, <1>7, StartBgsaveKeeps
<1>9. Evolves(started, v, SaveFields) /\ DOMAIN started = Fields
  <2>1. Evolves(added, v, SaveFields)
    BY <1>2, EvolvesMore DEF SaveFields
  <2>2. Evolves(started, v, SaveFields)
    BY <1>8, <2>1, EvolvesTrans
  <2>3. QED
    BY <2>2 DEF Evolves, Changes
<1>10. IsSnapshot(started.child, v)
  BY <1>3, <1>8, Zenon DEF IsSnapshot
<1>11. Evolves(Logged(started), v, SaveFields) /\ Logged(started).child = started.child
  <2>1. Evolves(Logged(started), started, SlaveFields)
    BY <1>9, LoggedKeeps
  <2>2. Evolves(Logged(started), started, SaveFields)
    BY <2>1, EvolvesMore DEF SaveFields
  <2>3. Logged(started).child = started.child
    BY <1>9, <2>1, OnlySlaveFields
  <2>4. QED
    BY <1>9, <2>2, <2>3, EvolvesTrans
<1>12. ASSUME v.child.type # "disk" PROVE Comes(started, v) /\ Comes(Logged(started), v)
  <2>1. IsSnapshot(Logged(started).child, v)
    BY <1>10, <1>11, Zenon
  <2>2. QED
    BY <1>9, <1>10, <1>11, <1>12, <2>1 DEF Comes
<1>13. FullResynchronization(v, c, r, ok) =
         IF v.child.type = "disk" THEN Logged(joined)
         ELSE IF v.child.type = "socket" \/ (v.diskless /\ r.capa) THEN Logged(added)
         ELSE IF ok THEN Logged(started) ELSE started
  BY <1>1, <1>4, <1>7, Zenon DEF FullResynchronization, Logged
<1>14. QED
  BY <1>6, <1>12, <1>13

LEMMA SyncKeeps ==
  ASSUME NEW v, DOMAIN v = Fields, NEW c, NEW r, NEW ok
  PROVE  Comes(Sync(v, c, r, ok), v)
<1>1. Comes(v, v)
  BY EvolvesNot, OnlySlaveFields
<1>2. Comes(Send(v, c, <<[t |-> "err"]>>), v)
  BY SlaveOperationsKeep, OnlySlaveFields
<1>3. Comes(TryPartialResynchronization(v, c, r), v)
  <2>1. PICK added : added = AddSlave(v, c, [NewClient(r) EXCEPT !.st = "online"])
    OBVIOUS
  <2>2. Evolves(added, v, SlaveFields) /\ DOMAIN added = Fields
    BY <2>1, SlaveOperationsKeep, OnlySlaveFields
  <2>3. PICK w : w = Send(added, c, <<[t |-> "continue"]>> \o BacklogFrom(v, r.off))
    OBVIOUS
  <2>4. Evolves(w, added, SlaveFields)
    BY <2>2, <2>3, SlaveOperationsKeep
  <2>5. Evolves(w, v, SlaveFields)
    BY <2>2, <2>4, EvolvesTrans
  <2>6. TryPartialResynchronization(v, c, r) = w
    BY <2>1, <2>3, Zenon DEF TryPartialResynchronization
  <2>7. QED
    BY <2>5, <2>6, OnlySlaveFields
<1>4. Comes(FullResynchronization(v, c, r, ok), v)
  BY FullResynchronizationKeeps
<1>5. QED
  BY <1>1, <1>2, <1>3, <1>4 DEF Sync

LEMMA ReplconfAckKeeps ==
  ASSUME NEW v, DOMAIN v = Fields, NEW c, NEW off
  PROVE  Evolves(ReplconfAck(v, c, off), v, SlaveFields)
<1>1. PICK noted : noted = [v EXCEPT !.clients[c].ack = IF off > v.clients[c].ack THEN off ELSE v.clients[c].ack]
  OBVIOUS
<1>2. Changes(noted, v, {"clients"})
  BY <1>1, Zenon DEF Changes
<1>3. Evolves(noted, v, {"clients"}) /\ DOMAIN noted = Fields
  BY <1>2, SameLog DEF Changes
<1>4. Evolves(noted, v, SlaveFields)
  BY <1>3, EvolvesMore DEF SlaveFields
<1>5. Evolves(PutSlaveOnline(noted, c), v, SlaveFields)
  BY <1>3, <1>4, PutSlaveOnlineKeeps, EvolvesTrans
<1>6. ReplconfAck(v, c, off) = IF c \notin Slaves(v) THEN v
        ELSE IF noted.clients[c].onack /\ noted.clients[c].st = "online" THEN PutSlaveOnline(noted, c) ELSE noted
  BY <1>1, Zenon DEF ReplconfAck
<1>7. QED
  BY <1>4, <1>5, <1>6, EvolvesNot

LEMMA WriteKeeps ==
  ASSUME NEW v, DOMAIN v = Fields, NEW d, NEW id
  PROVE  /\ Evolves(Write(v, d, id), v, SlaveFields \cup {"data", "dirty"})
         /\ Write(v, d, id).dirty = v.dirty + 1
<1>1. PICK w : w = [v EXCEPT !.data = Append(v.data, <<d, id>>), !.dirty = v.dirty + 1]
  OBVIOUS
<1>2. Changes(w, v, {"data", "dirty"}) /\ w.dirty = v.dirty + 1
  BY <1>1, Zenon DEF Changes, Fields
<1>3. Evolves(w, v, {"data", "dirty"}) /\ DOMAIN w = Fields
  BY <1>2, SameLog DEF Changes
<1>4. PICK S : S = {[t |-> "head", n |-> id], [t |-> "tail", n |-> id]}
  OBVIOUS
<1>5. Command(id) \in Seq(S)
  BY <1>4 DEF Command
<1>6. PICK u : u = FeedSlaves(w, d, Command(id))
  OBVIOUS
<1>7. Write(v, d, id) = u
  BY <1>1, <1>6, Zenon DEF Write
<1>8. Evolves(u, w, SlaveFields)
  BY <1>3, <1>5, <1>6, FeedSlavesKeeps
<1>9. u.dirty = w.dirty
  BY <1>3, <1>8, OnlySlaveFields
<1>10. /\ Evolves(u, w, SlaveFields \cup {"data", "dirty"})
       /\ Evolves(w, v, SlaveFields \cup {"data", "dirty"})
  BY <1>3, <1>8, EvolvesMore
<1>11. QED
  BY <1>2, <1>7, <1>9, <1>10, EvolvesTrans

\* What a slave does for its own link leaves its place alone: it keeps its
\* master, and its backlog in order.
LinkFields == Fields \ {"of"}

LEMMA LinkChanges ==
  ASSUME NEW v, DOMAIN v = Fields, NEW u, NEW G, Changes(u, v, G),
         G \subseteq Fields \ {"of", "log", "size", "off"}
  PROVE  Evolves(u, v, LinkFields) /\ DOMAIN u = Fields
<1>1. Evolves(u, v, G)
  BY SameLog
<1>2. QED
  BY <1>1, EvolvesMore DEF LinkFields, Changes

LEMMA LinkThen ==
  ASSUME NEW v, NEW u, NEW w, DOMAIN u = Fields,
         Evolves(u, v, LinkFields), Evolves(w, u, LinkFields)
  PROVE  Evolves(w, v, LinkFields) /\ DOMAIN w = Fields
BY EvolvesTrans DEF Evolves, Changes

LEMMA LinkSend ==
  ASSUME NEW v, NEW u, DOMAIN u = Fields, Evolves(u, v, LinkFields), NEW c, NEW msgs
  PROVE  Evolves(Send(u, c, msgs), v, LinkFields)
<1>1. Evolves(Send(u, c, msgs), u, SlaveFields)
  BY SlaveOperationsKeep
<1>2. Evolves(Send(u, c, msgs), u, LinkFields)
  BY <1>1, EvolvesMore DEF SlaveFields, LinkFields, Fields
<1>3. QED
  BY <1>2, EvolvesTrans

LEMMA LoseMasterKeeps ==
  ASSUME NEW v, DOMAIN v = Fields
  PROVE  Evolves(LoseMaster(v), v, LinkFields) /\ DOMAIN LoseMaster(v) = Fields
<1>. DEFINE G == {"shut", "master", "state", "conn", "cached"}
<1>1. Changes(LoseMaster(v), v, G)
  BY DEF Changes, LoseMaster, NoMaster
<1>2. G \subseteq Fields \ {"of", "log", "size", "off"}
  BY DEF Fields
<1>. HIDE DEF G
<1>3. QED
  BY <1>1, <1>2, LinkChanges

LEMMA SendPsyncKeeps ==
  ASSUME NEW v, DOMAIN v = Fields
  PROVE  Evolves(SendPsync(v), v, LinkFields)
<1>1. PICK w : w = [v EXCEPT !.state = "psync", !.init.off = -1]
  OBVIOUS
<1>2. Changes(w, v, {"state", "init"})
  BY <1>1, Zenon DEF Changes
<1>3. Evolves(w, v, LinkFields) /\ DOMAIN w = Fields
  BY <1>2, LinkChanges DEF Fields
<1>4. \E msgs : SendPsync(v) = Send(w, v.conn, msgs)
  BY <1>1, Zenon DEF SendPsync
<1>5. QED
  BY <1>3, <1>4, LinkSend

LEMMA SendAckKeeps ==
  ASSUME NEW v, DOMAIN v = Fields
  PROVE  Evolves(SendAck(v), v, LinkFields)
<1>1. PICK w : w = [v EXCEPT !.master.told = v.master.off]
  OBVIOUS
<1>2. Changes(w, v, {"master"})
  BY <1>1, Zenon DEF Changes
<1>3. Evolves(w, v, LinkFields) /\ DOMAIN w = Fields
  BY <1>2, LinkChanges DEF Fields
<1>4. v.master # None => \E msgs : SendAck(v) = Send(w, v.conn, msgs)
  BY <1>1, Zenon DEF SendAck
<1>5. v.master = None => SendAck(v) = v
  BY DEF SendAck
<1>6. QED
  BY <1>3, <1>4, <1>5, LinkSend, EvolvesNot

LEMMA ReadReplyKeeps ==
  ASSUME NEW v, DOMAIN v = Fields, NEW m
  PROVE  Evolves(ReadReply(v, m), v, LinkFields)
<1>1. PICK a : a = [v EXCEPT !.state = "transfer"]
  OBVIOUS
<1>2. PICK b : b = DiscardCachedMaster(a)
  OBVIOUS
<1>3. PICK d : d = DisconnectSlaves(b)
  OBVIOUS
<1>4. PICK again : again = FreeBacklog(d)
  OBVIOUS
<1>5. Evolves(b, v, LinkFields) /\ DOMAIN b = Fields
  <2>1. Changes(b, v, {"state", "cached"})
    BY <1>1, <1>2, Zenon DEF Changes, DiscardCachedMaster
  <2>2. QED
    BY <2>1, LinkChanges DEF Fields
<1>6. Evolves(d, v, LinkFields) /\ DOMAIN d = Fields
  <2>1. Evolves(d, b, SlaveFields)
    BY <1>3, <1>5, SlaveOperationsKeep DEF DisconnectSlaves
  <2>2. Evolves(d, b, LinkFields)
    BY <2>1, EvolvesMore DEF SlaveFields, LinkFields, Fields
  <2>3. QED
    BY <1>5, <2>2, LinkThen
<1>7. Evolves(again, v, LinkFields) /\ DOMAIN again = Fields
  <2>1. Evolves(again, d, {"log"})
    BY <1>4, <1>6, FreeBacklogKeeps
  <2>2. Evolves(again, d, LinkFields)
    BY <2>1, EvolvesMore DEF LinkFields, Fields
  <2>3. QED
    BY <1>6, <2>2, LinkThen
<1>8. CASE m.t = "continue"
  <2>1. Changes(ReadReply(v, m), v, {"master", "cached", "state"})
    BY <1>8, Zenon DEF Changes, ReadReply
  <2>2. QED
    BY <2>1, LinkChanges DEF Fields
<1>9. CASE m.t # "continue" /\ m.t = "full"
  <2>1. ReadReply(v, m) = [again EXCEPT !.init = [run |-> m.run, off |-> m.off]]
    BY <1>1, <1>2, <1>3, <1>4, <1>9, Zenon DEF ReadReply
  <2>2. Changes(ReadReply(v, m), again, {"init"})
    BY <2>1, Zenon DEF Changes
  <2>3. Evolves(ReadReply(v, m), again, LinkFields)
    BY <1>7, <2>2, LinkChanges DEF Fields
  <2>4. QED
    BY <1>7, <2>3, LinkThen
<1>10. CASE m.t # "continue" /\ m.t # "full"
  <2>1. ReadReply(v, m) = Send(again, v.conn, <<[t |-> "sync", capa |-> v.capa]>>)
    BY <1>1, <1>2, <1>3, <1>4, <1>10, Zenon DEF ReadReply
  <2>2. QED
    BY <1>7, <2>1, LinkSend
<1>11. QED
  BY <1>8, <1>9, <1>10

LEMMA ReadPayloadKeeps ==
  ASSUME NEW v, DOMAIN v = Fields, NEW m
  PROVE  Evolves(ReadPayload(v, m), v, LinkFields)
<1>1. CASE m.t = "rdb"
  <2>1. Changes(ReadPayload(v, m), v, {"data", "rdb", "state", "master"})
    BY <1>1, Zenon DEF Changes, ReadPayload
  <2>2. QED
    BY <2>1, LinkChanges DEF Fields
<1>2. CASE m.t # "rdb"
  BY <1>2, LoseMasterKeeps DEF ReadPayload
<1>3. QED
  BY <1>1, <1>2

LEMMA ReadStreamKeeps ==
  ASSUME NEW v, DOMAIN v = Fields, NEW m
  PROVE  Evolves(ReadStream(v, m), v, LinkFields)
<1>1. PICK u : u = [v EXCEPT !.master.off = v.master.off + 1]
  OBVIOUS
<1>2. Changes(u, v, {"master"})
  BY <1>1, Zenon DEF Changes
<1>3. Evolves(u, v, LinkFields) /\ DOMAIN u = Fields
  BY <1>2, LinkChanges DEF Fields
<1>4. PICK a : a = [u EXCEPT !.master.sel = m.n]
  OBVIOUS
<1>5. PICK b : b = [u EXCEPT !.master.part = m.n]
  OBVIOUS
<1>6. PICK d : d = [u EXCEPT !.master.part = 0]
  OBVIOUS
<1>7. Changes(a, u, {"master"}) /\ Changes(b, u, {"master"}) /\ Changes(d, u, {"master"})
  BY <1>4, <1>5, <1>6, Zenon DEF Changes
<1>8. /\ Evolves(a, u, LinkFields) /\ Evolves(b, u, LinkFields)
      /\ Evolves(d, u, LinkFields) /\ DOMAIN d = Fields
  BY <1>3, <1>7, LinkChanges DEF Fields
<1>9. /\ Evolves(a, v, LinkFields) /\ Evolves(b, v, LinkFields) /\ Evolves(d, v, LinkFields)
  BY <1>3, <1>8, LinkThen
<1>10. \A sel, id : Evolves(Write(d, sel, id), v, LinkFields)
  <2>1. TAKE sel, id
  <2>2. Evolves(Write(d, sel, id), d, SlaveFields \cup {"data", "dirty"})
    BY <1>8, WriteKeeps
  <2>3. Evolves(Write(d, sel, id), d, LinkFields)
    BY <2>2, EvolvesMore DEF SlaveFields, LinkFields, Fields
  <2>4. QED
    BY <1>8, <1>9, <2>3, LinkThen
<1>11. Evolves(SendAck(u), v, LinkFields)
  BY <1>3, SendAckKeeps, LinkThen
<1>12. \/ ReadStream(v, m) = a \/ ReadStream(v, m) = b \/ ReadStream(v, m) = SendAck(u)
       \/ ReadStream(v, m) = u \/ \E sel, id : ReadStream(v, m) = Write(d, sel, id)
  BY <1>1, <1>4, <1>5, <1>6, Zenon DEF ReadStream
<1>13. QED
  BY <1>3, <1>9, <1>10, <1>11, <1>12

\* Another master, or none any more.
LEMMA MovesKeepRange ==
  ASSUME NEW v, DOMAIN v = Fields, BacklogInRange(v), NEW i
  PROVE  /\ DOMAIN SetMaster(v, i) = Fields /\ BacklogInRange(SetMaster(v, i))
         /\ DOMAIN UnsetMaster(v) = Fields /\ BacklogInRange(UnsetMaster(v))
<1>1. /\ DOMAIN SetMaster(v, i) = Fields
      /\ SetMaster(v, i).size = v.size /\ SetMaster(v, i).log = NoLog
  BY Zenon DEF SetMaster, FreeBacklog, DiscardCachedMaster, DisconnectSlaves, FreeSlaves, LoseMaster,
               NoMaster, Fields
<1>2. /\ DOMAIN UnsetMaster(v) = Fields
      /\ UnsetMaster(v).size = v.size /\ UnsetMaster(v).log \in {v.log, NoLog}
  BY Zenon DEF UnsetMaster, FreeBacklog, DiscardCachedMaster, LoseMaster, NoMaster, Fields
<1>3. ~NoLog.on
  BY DEF NoLog
<1>4. QED
  BY <1>1, <1>2, <1>3 DEF BacklogInRange

-----------------------------------------------------------------------------
(* What every server keeps, while no server was given another master. *)

Unmoved(v) == /\ BacklogAgrees(v)
              /\ v.of = None => v.conn = None /\ v.state = "none" /\ DumpKnown(v)
Keeps(u, v) == /\ DOMAIN u = Fields /\ BacklogInRange(u)
               /\ Unmoved(v) => Unmoved(u)

QuietFields == Fields \ {"of", "conn", "state", "child", "dirty", "rdb", "data"}

LEMMA QuietKeeps ==
  ASSUME NEW v, DOMAIN v = Fields, BacklogInRange(v), NEW u, Evolves(u, v, QuietFields)
  PROVE  Keeps(u, v)
<1>1. /\ DOMAIN u = Fields /\ u.of = v.of /\ u.conn = v.conn /\ u.state = v.state
      /\ u.child = v.child /\ u.dirty = v.dirty /\ u.rdb = v.rdb /\ u.data = v.data
  BY DEF Evolves, Changes, QuietFields, Fields
<1>2. BacklogInRange(u) /\ (BacklogAgrees(v) => BacklogAgrees(u))
  BY DEF Evolves, LogStep
<1>3. DumpKnown(v) => DumpKnown(u)
  BY <1>1, Zenon DEF DumpKnown
<1>4. QED
  BY <1>1, <1>2, <1>3 DEF Keeps, Unmoved

LEMMA SlaveFieldsKeep ==
  ASSUME NEW v, DOMAIN v = Fields, BacklogInRange(v), NEW u, Evolves(u, v, SlaveFields)
  PROVE  Keeps(u, v)
<1>1. Evolves(u, v, QuietFields)
  BY EvolvesMore DEF SlaveFields, QuietFields, Fields
<1>2. QED
  BY <1>1, QuietKeeps

LEMMA LinkKeeps ==
  ASSUME NEW v, DOMAIN v = Fields, BacklogInRange(v), NEW u, Evolves(u, v, LinkFields),
         v.of # None \/ v.conn # None \/ v.state # "none"
  PROVE  Keeps(u, v)
<1>1. DOMAIN u = Fields /\ u.of = v.of
  BY DEF Evolves, Changes, LinkFields, Fields
<1>2. QED
  BY <1>1 DEF Evolves, LogStep, Keeps, Unmoved

LEMMA SettledKeeps ==
  ASSUME NEW v, NEW u, Keeps(u, v)
  PROVE  Keeps(Settled(u), v)
<1>1. DOMAIN u = Fields /\ BacklogInRange(u)
  BY DEF Keeps
<1>2. Changes(Settled(u), u, {"sent", "shut"})
  BY Zenon DEF Changes, Settled
<1>3. Evolves(Settled(u), u, {"sent", "shut"})
  BY <1>1, <1>2, SameLog
<1>4. Evolves(Settled(u), u, SlaveFields)
  BY <1>3, EvolvesMore DEF SlaveFields
<1>5. Keeps(Settled(u), u)
  BY <1>1, <1>4, SlaveFieldsKeep
<1>6. QED
  BY <1>5 DEF Keeps

LEMMA WriteStays ==
  ASSUME NEW v, DOMAIN v = Fields, BacklogInRange(v), NEW d, NEW id
  PROVE  Keeps(Write(v, d, id), v)
<1>1. PICK u : u = Write(v, d, id)
  OBVIOUS
<1>2. Evolves(u, v, SlaveFields \cup {"data", "dirty"}) /\ u.dirty = v.dirty + 1
  BY <1>1, WriteKeeps
<1>3. /\ DOMAIN u = Fields /\ u.of = v.of /\ u.conn = v.conn /\ u.state = v.state
      /\ u.child = v.child /\ u.rdb = v.rdb
  BY <1>2 DEF Evolves, Changes, SlaveFields, Fields
<1>4. BacklogInRange(u) /\ (BacklogAgrees(v) => BacklogAgrees(u))
  BY <1>2 DEF Evolves, LogStep
<1>5. DumpKnown(v) => DumpKnown(u)
  <2>1. HAVE DumpKnown(v)
  <2>2. PICK k : k = v.child
    OBVIOUS
  <2>3. v.dirty \in Nat /\ u.dirty \in Nat /\ u.dirty # 0
    BY <1>2, <2>1 DEF DumpKnown
  <2>4. k.type = "disk" => k.before \in 0..u.dirty /\ u.dirty # k.before
    BY <1>2, <2>1, <2>2, <2>3 DEF DumpKnown
  <2>5. QED
    BY <1>3, <2>1, <2>2, <2>3, <2>4 DEF DumpKnown
<1>6. QED
  BY <1>1, <1>3, <1>4, <1>5 DEF Keeps, Unmoved

\* A snapshot begins from a dump file that is known.
LEMMA SnapshotKnown ==
  ASSUME NEW v, DumpKnown(v), v.child.type # "disk", NEW k, IsSnapshot(k, v),
         NEW u, u.child = k, u.dirty = v.dirty, u.rdb = v.rdb, u.data = v.data
  PROVE  DumpKnown(u)
<1>1. CASE k = v.child
  BY <1>1, Zenon DEF DumpKnown
<1>2. CASE k = [NoChild EXCEPT !.type = "disk", !.data = v.data, !.before = v.dirty]
  <2>1. /\ DOMAIN k = DOMAIN NoChild /\ k.done = FALSE /\ k.type = "disk"
        /\ k.data = v.data /\ k.before = v.dirty
    BY <1>2 DEF NoChild
  <2>2. v.dirty \in Nat /\ (v.dirty = 0 => v.rdb = v.data)
    BY DEF DumpKnown
  <2>3. v.dirty \in 0..v.dirty
    BY <2>2
  <2>4. ~k.done /\ k.done \in BOOLEAN
    BY <2>1, Zenon
  <2>5. QED
    BY <2>1, <2>2, <2>3, <2>4, Zenon DEF DumpKnown
<1>3. CASE \E to : k = [NoChild EXCEPT !.type = "socket", !.data = v.data, !.to = to]
  <2>1. PICK to : k = [NoChild EXCEPT !.type = "socket", !.data = v.data, !.to = to]
    BY <1>3
  <2>2. DOMAIN k = DOMAIN NoChild /\ k.done = FALSE /\ k.type = "socket"
    BY <2>1 DEF NoChild
  <2>3. v.dirty \in Nat /\ (v.dirty = 0 => v.rdb = v.data)
    BY DEF DumpKnown
  <2>4. QED
    BY <2>2, <2>3 DEF DumpKnown
<1>4. QED
  BY <1>1, <1>2, <1>3 DEF IsSnapshot

LEMMA ComesKeeps ==
  ASSUME NEW v, DOMAIN v = Fields, BacklogInRange(v), NEW u, Comes(u, v)
  PROVE  Keeps(u, v)
<1>1. Evolves(u, v, SaveFields) /\ IsSnapshot(u.child, v) /\ (v.child.type = "disk" => u.child = v.child)
  BY DEF Comes
<1>2. /\ DOMAIN u = Fields /\ u.of = v.of /\ u.conn = v.conn /\ u.state = v.state
      /\ u.dirty = v.dirty /\ u.rdb = v.rdb /\ u.data = v.data
  BY <1>1 DEF Evolves, Changes, SaveFields, SlaveFields, Fields
<1>3. BacklogInRange(u) /\ (BacklogAgrees(v) => BacklogAgrees(u))
  BY <1>1 DEF Evolves, LogStep
<1>4. DumpKnown(v) => DumpKnown(u)
  <2>1. CASE v.child.type = "disk"
    BY <1>1, <1>2, <2>1, Zenon DEF DumpKnown
  <2>2. CASE v.child.type # "disk"
    BY <1>1, <1>2, <2>2, SnapshotKnown
  <2>3. QED
    BY <2>1, <2>2
<1>5. QED
  BY <1>2, <1>3, <1>4 DEF Keeps, Unmoved

\* What a child that ended leaves: the changes that were made while it saved.
LEMMA EndedKeeps ==
  ASSUME NEW v, DOMAIN v = Fields, BacklogInRange(v), NEW u, NEW dirty, Ended(u, v, dirty),
         DumpKnown(v) => dirty \in Nat /\ (dirty = 0 => v.rdb = v.data)
  PROVE  Keeps(u, v)
<1>1. PICK w : /\ Changes(w, v, {"dirty", "child"}) /\ w.child = NoChild /\ w.dirty = dirty
               /\ Evolves(u, v, SaveFields \cup {"dirty"}) /\ Evolves(u, w, SaveFields) /\ IsSnapshot(u.child, w)
  BY DEF Ended
<1>2. DOMAIN w = Fields /\ w.rdb = v.rdb /\ w.data = v.data
  BY <1>1 DEF Changes, Fields
<1>3. u.dirty = w.dirty /\ u.rdb = w.rdb /\ u.data = w.data
  BY <1>1, <1>2 DEF Evolves, Changes, SaveFields, SlaveFields, Fields
<1>4. DOMAIN u = Fields /\ u.of = v.of /\ u.conn = v.conn /\ u.state = v.state
  BY <1>1 DEF Evolves, Changes, SaveFields, SlaveFields, Fields
<1>5. BacklogInRange(u) /\ (BacklogAgrees(v) => BacklogAgrees(u))
  BY <1>1 DEF Evolves, LogStep
<1>6. NoChild.type = "none" /\ NoChild.done = FALSE
  BY DEF NoChild
<1>7. ASSUME DumpKnown(v) PROVE DumpKnown(u)
  <2>1. DumpKnown(w) /\ w.child.type # "disk"
    BY <1>1, <1>2, <1>6, <1>7 DEF DumpKnown
  <2>2. PICK k : k = u.child
    OBVIOUS
  <2>3. QED
    BY <1>1, <1>3, <2>1, <2>2, SnapshotKnown
<1>8. QED
  BY <1>4, <1>5, <1>7 DEF Keeps, Unmoved

-----------------------------------------------------------------------------
(* The invariant of the servers together. *)

ServersInv   == \A i \in Servers : DOMAIN server[i] = Fields /\ BacklogInRange(server[i])
UnmovedInv   == NotMoved => \A i \in Servers : Unmoved(server[i])
\* The inductive invariant.
ReplicationInv == LeftInv /\ ServersInv /\ UnmovedInv

LeftStep == left' \in [Disturbances -> Nat] /\ left'.slaveof <= left.slaveof

LEMMA LeftAsBefore ==
  ASSUME LeftInv, UNCHANGED left
  PROVE  LeftStep
BY DEF LeftInv, LeftStep, Disturbances

LEMMA LeftSpent ==
  ASSUME LeftInv, NEW what \in Disturbances, Spend(what)
  PROVE  LeftStep /\ (what = "slaveof" => left'.slaveof < left.slaveof)
<1>1. /\ left \in [Disturbances -> Nat] /\ left[what] > 0
      /\ left' = [left EXCEPT ![what] = left[what] - 1]
  BY DEF LeftInv, Spend
<1>2. "slaveof" \in Disturbances /\ left["slaveof"] \in Nat
  BY <1>1 DEF Disturbances
<1>3. left' \in [Disturbances -> Nat]
  BY <1>1
<1>4. left'["slaveof"] = IF what = "slaveof" THEN left["slaveof"] - 1 ELSE left["slaveof"]
  BY <1>1, <1>2
<1>5. QED
  BY <1>2, <1>3, <1>4 DEF LeftStep

LEMMA LeftPaid ==
  ASSUME LeftInv, NEW ok \in Forks, Paid(ok)
  PROVE  LeftStep
<1>1. left \in [Disturbances -> Nat] /\ "fails" \in Disturbances /\ "slaveof" \in Disturbances
  BY DEF LeftInv, Disturbances
<1>2. CASE ok
  <2>1. UNCHANGED left
    BY <1>2 DEF Paid
  <2>2. QED
    BY <2>1, LeftAsBefore
<1>3. CASE ~ok
  <2>1. left.fails > 0 /\ left' = [left EXCEPT !.fails = left.fails - 1]
    BY <1>3 DEF Forks, Paid
  <2>2. Spend("fails")
    BY <2>1 DEF Spend
  <2>3. QED
    BY <1>1, <2>2, LeftSpent
<1>4. QED
  BY <1>2, <1>3

\* One server changes.
LEMMA OneChanges ==
  ASSUME ReplicationInv, NEW i \in Servers, NEW w, server' = [server EXCEPT ![i] = w], play' = play,
         LeftStep, DOMAIN w = Fields, BacklogInRange(w),
         left'.slaveof = left.slaveof => Keeps(w, server[i])
  PROVE  ReplicationInv'
<1>1. /\ DOMAIN server' = DOMAIN server /\ server'[i] = w
      /\ \A j \in Servers : j # i => server'[j] = server[j]
  BY DEF Servers
<1>2. P' = P
  BY DEF P
<1>3. LeftInv'
  <2>1. P.left \in [Disturbances -> Nat]
    BY PlaysAssumption DEF ReplicationInv, LeftInv, P
  <2>2. left.slaveof \in Nat /\ left'.slaveof \in Nat /\ P.left.slaveof \in Nat
    BY <2>1 DEF ReplicationInv, LeftInv, LeftStep, Disturbances
  <2>3. left'.slaveof <= P.left.slaveof
    BY <2>2 DEF ReplicationInv, LeftInv, LeftStep
  <2>4. QED
    BY <1>1, <1>2, <2>3 DEF ReplicationInv, LeftInv, LeftStep
<1>4. ServersInv'
  BY <1>1 DEF ReplicationInv, ServersInv, Servers
<1>5. UnmovedInv'
  <2>1. SUFFICES ASSUME NotMoved' PROVE \A j \in Servers' : Unmoved(server'[j])
    BY DEF UnmovedInv
  <2>2. left'.slaveof = left.slaveof /\ NotMoved
    <3>1. P.left \in [Disturbances -> Nat]
      BY PlaysAssumption DEF ReplicationInv, LeftInv, P
    <3>2. left.slaveof \in Nat /\ left'.slaveof \in Nat /\ P.left.slaveof \in Nat
      BY <3>1 DEF ReplicationInv, LeftInv, LeftStep, Disturbances
    <3>3. left'.slaveof = P.left.slaveof
      BY <1>2, <2>1 DEF NotMoved
    <3>4. QED
      BY <3>2, <3>3 DEF ReplicationInv, LeftInv, LeftStep, NotMoved
  <2>3. \A j \in Servers : Unmoved(server[j])
    BY <2>2 DEF ReplicationInv, UnmovedInv
  <2>4. Unmoved(w)
    BY <2>2, <2>3 DEF Keeps
  <2>5. QED
    BY <1>1, <2>3, <2>4 DEF Servers
<1>6. QED
  BY <1>3, <1>4, <1>5 DEF ReplicationInv

LEMMA PutInv ==
  ASSUME ReplicationInv, NEW i \in Servers, NEW u, NEW k, PutOn(k, i, u), LeftStep, Keeps(u, server[i])
  PROVE  ReplicationInv'
<1>1. PICK w : w = Settled(u)
  OBVIOUS
<1>2. server' = [server EXCEPT ![i] = w] /\ play' = play
  BY <1>1 DEF PutOn
<1>3. Keeps(w, server[i])
  BY <1>1, SettledKeeps
<1>4. DOMAIN w = Fields /\ BacklogInRange(w)
  BY <1>3 DEF Keeps
<1>5. QED
  BY <1>2, <1>3, <1>4, OneChanges

LEMMA KeepsThen ==
  ASSUME NEW v, NEW u, Keeps(u, v), NEW w, NEW G, Changes(w, u, G),
         G \subseteq QuietFields \ {"log", "size", "off"}
  PROVE  Keeps(w, v)
<1>1. DOMAIN u = Fields /\ BacklogInRange(u)
  BY DEF Keeps
<1>2. Evolves(w, u, G)
  BY <1>1, SameLog
<1>3. Evolves(w, u, QuietFields)
  BY <1>2, EvolvesMore
<1>4. Keeps(w, u)
  BY <1>1, <1>3, QuietKeeps
<1>5. QED
  BY <1>4 DEF Keeps

LEMMA KeepsBoth ==
  ASSUME NEW u, NEW v, NEW w, Keeps(u, v), Keeps(w, u)
  PROVE  Keeps(w, v)
BY DEF Keeps

LEMMA KeepsSelf ==
  ASSUME NEW v, DOMAIN v = Fields, BacklogInRange(v)
  PROVE  Keeps(v, v)
BY DEF Keeps

\* A server that starts has all of it.
LEMMA StartedOk ==
  ASSUME NEW run, NEW rdb, NEW cfg, cfg.size \in Nat \ {0}, NEW up
  PROVE  LET w == [Started(run, rdb, cfg) EXCEPT !.up = up]
         IN  /\ DOMAIN Started(run, rdb, cfg) = Fields /\ BacklogInRange(Started(run, rdb, cfg))
             /\ Unmoved(Started(run, rdb, cfg))
             /\ DOMAIN w = Fields /\ BacklogInRange(w) /\ Unmoved(w)
<1>. DEFINE v == Started(run, rdb, cfg)
            w == [v EXCEPT !.up = up]
<1>1. /\ DOMAIN v = Fields
      /\ v.size = cfg.size /\ v.log = NoLog /\ v.off = 0 /\ v.of = cfg.of
      /\ v.conn = None /\ v.state = (IF cfg.of = None THEN "none" ELSE "connect")
      /\ v.child = NoChild /\ v.dirty = 0 /\ v.rdb = rdb /\ v.data = rdb
  BY DEF Started, Fields
<1>2. Changes(w, v, {"up"})
  BY Zenon DEF Changes
<1>. HIDE DEF v, w
<1>3. ~NoLog.on /\ ~NoChild.done /\ NoChild.done \in BOOLEAN /\ NoChild.type # "disk" /\ 0 \in Nat
  BY DEF NoLog, NoChild
<1>4. BacklogInRange(v) /\ BacklogAgrees(v)
  BY <1>1, <1>3 DEF BacklogInRange, BacklogAgrees
<1>5. DumpKnown(v)
  BY <1>1, <1>3, Zenon DEF DumpKnown
<1>6. Unmoved(v)
  BY <1>1, <1>4, <1>5 DEF Unmoved
<1>7. Keeps(v, v)
  BY <1>1, <1>4, KeepsSelf
<1>8. Keeps(w, v)
  BY <1>2, <1>7, KeepsThen DEF QuietFields, Fields
<1>9. QED
  BY <1>1, <1>4, <1>6, <1>8 DEF Keeps, v, w

LEMMA InitInv == Init => ReplicationInv
<1>1. SUFFICES ASSUME Init PROVE ReplicationInv
  OBVIOUS
<1>2. /\ play \in DOMAIN Plays /\ left = P.left
      /\ server = [i \in DOMAIN P.cfg |-> Started(<<i, 0>>, <<>>, P.cfg[i])]
  BY <1>1 DEF Init
<1>3. /\ P.left \in [Disturbances -> Nat]
      /\ \A i \in DOMAIN P.cfg : P.cfg[i].size \in Nat \ {0}
  BY <1>2, PlaysAssumption DEF P
<1>4. LeftInv
  BY <1>2, <1>3 DEF LeftInv, Disturbances
<1>5. \A i \in Servers : /\ DOMAIN server[i] = Fields /\ BacklogInRange(server[i])
                         /\ Unmoved(server[i])
  BY <1>2, <1>3, StartedOk DEF Servers
<1>6. QED
  BY <1>4, <1>5 DEF ReplicationInv, ServersInv, UnmovedInv

-----------------------------------------------------------------------------
(* The steps. *)

LEMMA ClientSteps ==
  ASSUME ReplicationInv, NEW i \in Servers,
         \/ \E d \in P.dbs : ClientWrite(i, d)
         \/ ClientWait(i) \/ BeforeSleep(i)
         \/ \E j \in Servers : SlaveOf(i, j)
         \/ SlaveOfNoOne(i)
         \/ \E size \in P.sizes : ConfigBacklog(i, size)
  PROVE  ReplicationInv'
<1>1. PICK v : v = server[i]
  OBVIOUS
<1>2. DOMAIN v = Fields /\ BacklogInRange(v) /\ LeftInv
  BY <1>1 DEF ReplicationInv, ServersInv
<1>3. ASSUME NEW d \in P.dbs, ClientWrite(i, d) PROVE ReplicationInv'
  <2>1. PICK u : u = Write(v, d, left.writes)
    OBVIOUS
  <2>2. PICK w : w = [u EXCEPT !.woff = [off |-> u.off, len |-> Len(u.data)]]
    OBVIOUS
  <2>3. Put(i, w) /\ Spend("writes")
    BY <1>1, <1>3, <2>1, <2>2 DEF ClientWrite
  <2>4. Changes(w, u, {"woff"})
    BY <2>2, Zenon DEF Changes
  <2>5. Keeps(w, v)
    BY <1>2, <2>1, <2>4, WriteStays, KeepsThen DEF QuietFields, Fields
  <2>6. LeftStep
    BY <1>2, <2>3, LeftSpent DEF Disturbances
  <2>7. QED
    BY <1>1, <2>3, <2>5, <2>6, PutInv DEF Put
<1>4. ASSUME ClientWait(i) PROVE ReplicationInv'
  <2>1. PICK w : w = [v EXCEPT !.waits = v.waits + 1, !.getack = TRUE]
    OBVIOUS
  <2>2. Put(i, w) /\ Spend("waits")
    BY <1>1, <1>4, <2>1 DEF ClientWait
  <2>3. Changes(w, v, {"waits", "getack"})
    BY <2>1, Zenon DEF Changes
  <2>4. Keeps(w, v)
    BY <1>2, <2>3, KeepsSelf, KeepsThen DEF QuietFields, Fields
  <2>5. LeftStep
    BY <1>2, <2>2, LeftSpent DEF Disturbances
  <2>6. QED
    BY <1>1, <2>2, <2>4, <2>5, PutInv DEF Put
<1>5. ASSUME BeforeSleep(i) PROVE ReplicationInv'
  <2>1. PICK a : a = [v EXCEPT !.getack = FALSE]
    OBVIOUS
  <2>2. PICK b : b = FeedSlaves(a, v.seldb, <<GetAck>>)
    OBVIOUS
  <2>3. PICK asked : asked = IF v.getack THEN b ELSE v
    OBVIOUS
  <2>4. PICK w : w = [asked EXCEPT !.waits = 0]
    OBVIOUS
  <2>5. (Put(i, w) \/ Put(i, asked)) /\ UNCHANGED left
    BY <1>1, <1>5, <2>1, <2>2, <2>3, <2>4 DEF BeforeSleep
  <2>6. Changes(a, v, {"getack"}) /\ Changes(w, asked, {"waits"})
    BY <2>1, <2>4, Zenon DEF Changes
  <2>7. Keeps(a, v)
    BY <1>2, <2>6, KeepsSelf, KeepsThen DEF QuietFields, Fields
  <2>8. Keeps(b, a)
    <3>1. PICK S : S = {GetAck}
      OBVIOUS
    <3>2. <<GetAck>> \in Seq(S)
      BY <3>1
    <3>3. DOMAIN a = Fields /\ BacklogInRange(a)
      BY <2>7 DEF Keeps
    <3>4. Evolves(b, a, SlaveFields)
      BY <2>2, <3>2, <3>3, FeedSlavesKeeps
    <3>5. QED
      BY <3>3, <3>4, SlaveFieldsKeep
  <2>9. Keeps(asked, v)
    BY <1>2, <2>3, <2>7, <2>8, KeepsBoth, KeepsSelf
  <2>10. Keeps(w, v)
    BY <2>6, <2>9, KeepsThen DEF QuietFields, Fields
  <2>11. LeftStep
    BY <1>2, <2>5, LeftAsBefore
  <2>12. QED
    BY <1>1, <2>5, <2>9, <2>10, <2>11, PutInv DEF Put
<1>6. ASSUME NEW u, Put(i, u), Spend("slaveof"), DOMAIN u = Fields, BacklogInRange(u)
      PROVE  ReplicationInv'
  <2>1. PICK w : w = Settled(u)
    OBVIOUS
  <2>2. server' = [server EXCEPT ![i] = w] /\ play' = play
    BY <1>6, <2>1 DEF Put, PutOn
  <2>3. DOMAIN w = Fields /\ BacklogInRange(w)
    BY <1>6, <2>1, KeepsSelf, SettledKeeps DEF Keeps
  <2>4. LeftStep /\ left'.slaveof < left.slaveof
    BY <1>2, <1>6, LeftSpent DEF Disturbances
  <2>5. left'.slaveof # left.slaveof
    BY <2>4 DEF ReplicationInv, LeftInv, LeftStep, Disturbances
  <2>6. QED
    BY <2>2, <2>3, <2>4, <2>5, OneChanges
<1>7. ASSUME NEW j \in Servers, SlaveOf(i, j) PROVE ReplicationInv'
  <2>1. PICK u : u = SetMaster(v, j)
    OBVIOUS
  <2>2. Put(i, u) /\ Spend("slaveof")
    BY <1>1, <1>7, <2>1 DEF SlaveOf
  <2>3. DOMAIN u = Fields /\ BacklogInRange(u)
    BY <1>2, <2>1, MovesKeepRange
  <2>4. QED
    BY <1>6, <2>2, <2>3
<1>8. ASSUME SlaveOfNoOne(i) PROVE ReplicationInv'
  <2>1. PICK u : u = UnsetMaster(v)
    OBVIOUS
  <2>2. Put(i, u) /\ Spend("slaveof")
    BY <1>1, <1>8, <2>1 DEF SlaveOfNoOne
  <2>3. DOMAIN u = Fields /\ BacklogInRange(u)
    BY <1>2, <2>1, MovesKeepRange
  <2>4. QED
    BY <1>6, <2>2, <2>3
<1>9. ASSUME NEW size \in P.sizes, ConfigBacklog(i, size) PROVE ReplicationInv'
  <2>1. size \in Nat \ {0}
    BY PlaysAssumption DEF ReplicationInv, LeftInv, P
  <2>2. PICK u : u = ResizeBacklog(v, size)
    OBVIOUS
  <2>3. Put(i, u) /\ Spend("resizes")
    BY <1>1, <1>9, <2>2 DEF ConfigBacklog
  <2>4. Evolves(u, v, {"size", "log"})
    BY <1>2, <2>1, <2>2, ResizeBacklogKeeps
  <2>5. Evolves(u, v, QuietFields)
    BY <2>4, EvolvesMore DEF QuietFields, Fields
  <2>6. Keeps(u, v)
    BY <1>2, <2>5, QuietKeeps
  <2>7. LeftStep
    BY <1>2, <2>3, LeftSpent DEF Disturbances
  <2>8. QED
    BY <1>1, <2>3, <2>6, <2>7, PutInv DEF Put
<1>10. QED
  BY <1>3, <1>4, <1>5, <1>7, <1>8, <1>9

LEMMA SnapshotSteps ==
  ASSUME ReplicationInv, NEW i \in Servers,
         \/ BgSave(i) \/ Save(i) \/ ChildSaves(i) \/ ReapDisk(i) \/ ReapKilled(i)
         \/ ReapSocket(i) \/ ReapKilledSocket(i)
         \/ \E c \in Conns : ChildSends(i, c) \/ SendBulkToSlave(i, c)
  PROVE  ReplicationInv'
<1>1. PICK v : v = server[i]
  OBVIOUS
<1>2. DOMAIN v = Fields /\ BacklogInRange(v) /\ LeftInv
  BY <1>1 DEF ReplicationInv, ServersInv
<1>3. ASSUME BgSave(i) PROVE ReplicationInv'
  <2>1. PICK u : u = SaveBackground(v)
    OBVIOUS
  <2>2. Put(i, u) /\ Spend("saves") /\ v.child.type = "none"
    BY <1>1, <1>3, <2>1 DEF BgSave
  <2>3. Changes(u, v, {"child"}) /\ u.child = [NoChild EXCEPT !.type = "disk", !.data = v.data, !.before = v.dirty]
    BY <1>2, <2>1, Zenon DEF Changes, SaveBackground, Fields
  <2>4. Evolves(u, v, {"child"})
    BY <1>2, <2>3, SameLog
  <2>5. Evolves(u, v, SaveFields)
    BY <2>4, EvolvesMore DEF SaveFields
  <2>6. Comes(u, v)
    BY <2>2, <2>3, <2>5 DEF Comes, IsSnapshot
  <2>7. Keeps(u, v)
    BY <1>2, <2>6, ComesKeeps
  <2>8. LeftStep
    BY <1>2, <2>2, LeftSpent DEF Disturbances
  <2>9. QED
    BY <1>1, <2>2, <2>7, <2>8, PutInv DEF Put
<1>4. ASSUME Save(i) PROVE ReplicationInv'
  <2>1. PICK u : u = [v EXCEPT !.rdb = v.data, !.dirty = 0]
    OBVIOUS
  <2>2. Put(i, u) /\ Spend("saves") /\ v.child.type = "none"
    BY <1>1, <1>4, <2>1 DEF Save
  <2>3. Changes(u, v, {"rdb", "dirty"}) /\ u.rdb = v.data /\ u.dirty = 0
    BY <1>2, <2>1, Zenon DEF Changes, Fields
  <2>4. Evolves(u, v, {"rdb", "dirty"})
    BY <1>2, <2>3, SameLog
  <2>5. /\ DOMAIN u = Fields /\ u.of = v.of /\ u.conn = v.conn /\ u.state = v.state
        /\ u.child = v.child /\ u.data = v.data
    BY <1>2, <2>3 DEF Changes, Fields
  <2>6. DumpKnown(v) => DumpKnown(u)
    BY <2>2, <2>3, <2>5 DEF DumpKnown
  <2>7. Keeps(u, v)
    BY <1>2, <2>4, <2>5, <2>6 DEF Evolves, LogStep, Keeps, Unmoved
  <2>8. LeftStep
    BY <1>2, <2>2, LeftSpent DEF Disturbances
  <2>9. QED
    BY <1>1, <2>2, <2>7, <2>8, PutInv DEF Put
<1>5. ASSUME ChildSaves(i) PROVE ReplicationInv'
  <2>1. PICK k : k = v.child
    OBVIOUS
  <2>2. PICK u : u = [v EXCEPT !.rdb = k.data, !.child.done = TRUE]
    OBVIOUS
  <2>3. Put(i, u) /\ UNCHANGED left /\ k.type = "disk"
    BY <1>1, <1>5, <2>1, <2>2 DEF ChildSaves
  <2>4. /\ Changes(u, v, {"rdb", "child"}) /\ u.rdb = k.data
        /\ u.child = [k EXCEPT !.done = TRUE]
    BY <1>2, <2>1, <2>2, Zenon DEF Changes, Fields
  <2>5. Evolves(u, v, {"rdb", "child"})
    BY <1>2, <2>4, SameLog
  <2>6. /\ DOMAIN u = Fields /\ u.of = v.of /\ u.conn = v.conn /\ u.state = v.state
        /\ u.dirty = v.dirty /\ u.data = v.data
    BY <1>2, <2>4 DEF Changes, Fields
  <2>7. ASSUME DumpKnown(v) PROVE DumpKnown(u)
    <3>1. DOMAIN k = DOMAIN NoChild
      BY <2>1, <2>7 DEF DumpKnown
    <3>2. /\ DOMAIN u.child = DOMAIN NoChild /\ u.child.done = TRUE /\ u.child.type = k.type
          /\ u.child.data = k.data /\ u.child.before = k.before
      BY <2>4, <3>1 DEF NoChild
    <3>3. u.child.done \in BOOLEAN /\ u.child.done
      BY <3>2
    <3>4. QED
      BY <2>1, <2>3, <2>4, <2>6, <2>7, <3>2, <3>3, Zenon DEF DumpKnown
  <2>8. Keeps(u, v)
    BY <1>2, <2>5, <2>6, <2>7 DEF Evolves, LogStep, Keeps, Unmoved
  <2>9. LeftStep
    BY <1>2, <2>3, LeftAsBefore
  <2>10. QED
    BY <1>1, <2>3, <2>8, <2>9, PutInv DEF Put
<1>6. ASSUME ReapDisk(i) PROVE ReplicationInv'
  <2>1. PICK ok \in Forks : /\ v.child.done /\ Put(i, DoneDisk(v, TRUE, ok)) /\ Paid(ok)
                            /\ v.child.type = "disk"
    BY <1>1, <1>6 DEF ReapDisk
  <2>2. PICK u : u = DoneDisk(v, TRUE, ok)
    OBVIOUS
  <2>3. Ended(u, v, v.dirty - v.child.before)
    BY <1>2, <2>2, DoneDiskEnds
  <2>4. ASSUME DumpKnown(v)
        PROVE  v.dirty - v.child.before \in Nat /\ (v.dirty - v.child.before = 0 => v.rdb = v.data)
    <3>1. /\ v.dirty \in Nat /\ v.child.before \in 0..v.dirty /\ v.rdb = v.child.data
          /\ v.dirty = v.child.before => v.data = v.child.data
      BY <2>1, <2>4 DEF DumpKnown
    <3>2. QED
      BY <3>1
  <2>5. Keeps(u, v)
    BY <1>2, <2>3, <2>4, EndedKeeps
  <2>6. LeftStep
    BY <1>2, <2>1, LeftPaid
  <2>7. QED
    BY <1>1, <2>1, <2>2, <2>5, <2>6, PutInv DEF Put
<1>7. ASSUME ReapKilled(i) PROVE ReplicationInv'
  <2>1. PICK u : u = DoneDisk(v, FALSE, TRUE)
    OBVIOUS
  <2>2. v.child.type = "disk" /\ ~v.child.done /\ Put(i, u) /\ Spend("fails")
    BY <1>1, <1>7, <2>1 DEF ReapKilled
  <2>3. Ended(u, v, v.dirty)
    BY <1>2, <2>1, DoneDiskEnds
  <2>4. DumpKnown(v) => v.dirty \in Nat /\ (v.dirty = 0 => v.rdb = v.data)
    BY <2>2 DEF DumpKnown
  <2>5. Keeps(u, v)
    BY <1>2, <2>3, <2>4, EndedKeeps
  <2>6. LeftStep
    BY <1>2, <2>2, LeftSpent DEF Disturbances
  <2>7. QED
    BY <1>1, <2>2, <2>5, <2>6, PutInv DEF Put
<1>8. ASSUME NEW good, NEW ok, Put(i, DoneSocket(v, good, ok)), v.child.type = "socket", LeftStep
      PROVE  ReplicationInv'
  <2>1. PICK u : u = DoneSocket(v, good, ok)
    OBVIOUS
  <2>2. Ended(u, v, v.dirty)
    BY <1>2, <2>1, DoneSocketEnds
  <2>3. DumpKnown(v) => v.dirty \in Nat /\ (v.dirty = 0 => v.rdb = v.data)
    BY <1>8 DEF DumpKnown
  <2>4. Keeps(u, v)
    BY <1>2, <2>2, <2>3, EndedKeeps
  <2>5. QED
    BY <1>1, <1>8, <2>1, <2>4, PutInv DEF Put
<1>9. ASSUME ReapSocket(i) PROVE ReplicationInv'
  <2>1. PICK ok \in Forks : Put(i, DoneSocket(v, v.child.got, ok)) /\ Paid(ok) /\ v.child.type = "socket"
    BY <1>1, <1>9 DEF ReapSocket
  <2>2. LeftStep
    BY <1>2, <2>1, LeftPaid
  <2>3. QED
    BY <1>8, <2>1, <2>2
<1>10. ASSUME ReapKilledSocket(i) PROVE ReplicationInv'
  <2>1. Put(i, DoneSocket(v, {}, TRUE)) /\ Spend("fails") /\ v.child.type = "socket"
    BY <1>1, <1>10 DEF ReapKilledSocket
  <2>2. LeftStep
    BY <1>2, <2>1, LeftSpent DEF Disturbances
  <2>3. QED
    BY <1>8, <2>1, <2>2
<1>11. ASSUME NEW c \in Conns, ChildSends(i, c) PROVE ReplicationInv'
  <2>1. PICK k : k = v.child
    OBVIOUS
  <2>2. PICK got : got = IF conn[c].sopen THEN k.got \cup {c} ELSE k.got
    OBVIOUS
  <2>3. PICK j : j = [k EXCEPT !.to = k.to \ {c}, !.got = got]
    OBVIOUS
  <2>4. PICK u : u = [v EXCEPT !.child = j]
    OBVIOUS
  <2>5. server' = [server EXCEPT ![i] = u] /\ play' = play /\ UNCHANGED left
    BY <1>1, <1>11, <2>1, <2>2, <2>3, <2>4, Zenon DEF ChildSends
  <2>6. Changes(u, v, {"child"}) /\ u.child = j
    BY <1>2, <2>4, Zenon DEF Changes, Fields
  <2>7. Evolves(u, v, {"child"})
    BY <1>2, <2>6, SameLog
  <2>8. /\ DOMAIN u = Fields /\ u.of = v.of /\ u.conn = v.conn /\ u.state = v.state
        /\ u.dirty = v.dirty /\ u.data = v.data /\ u.rdb = v.rdb
    BY <1>2, <2>6 DEF Changes, Fields
  <2>9. ASSUME DumpKnown(v) PROVE DumpKnown(u)
    <3>1. DOMAIN k = DOMAIN NoChild
      BY <2>1, <2>9 DEF DumpKnown
    <3>2. /\ DOMAIN j = DOMAIN NoChild /\ j.done = k.done /\ j.type = k.type
          /\ j.data = k.data /\ j.before = k.before
      BY <2>3, <3>1 DEF NoChild
    <3>3. QED
      BY <2>1, <2>6, <2>8, <2>9, <3>2, Zenon DEF DumpKnown
  <2>10. Keeps(u, v)
    BY <1>2, <2>7, <2>8, <2>9 DEF Evolves, LogStep, Keeps, Unmoved
  <2>11. LeftStep
    BY <1>2, <2>5, LeftAsBefore
  <2>12. DOMAIN u = Fields /\ BacklogInRange(u)
    BY <2>10 DEF Keeps
  <2>13. QED
    BY <1>1, <2>5, <2>10, <2>11, <2>12, OneChanges
<1>12. ASSUME NEW c \in Conns, SendBulkToSlave(i, c) PROVE ReplicationInv'
  <2>1. PICK a : a = Send(v, c, <<[t |-> "rdb", data |-> v.clients[c].file]>>)
    OBVIOUS
  <2>2. PICK b : b = [a EXCEPT !.clients[c].file = <<>>]
    OBVIOUS
  <2>3. PICK u : u = PutSlaveOnline(b, c)
    OBVIOUS
  <2>4. Put(i, u) /\ UNCHANGED left
    BY <1>1, <1>12, <2>1, <2>2, <2>3 DEF SendBulkToSlave
  <2>5. Evolves(a, v, SlaveFields)
    BY <1>2, <2>1, SlaveOperationsKeep
  <2>6. Keeps(a, v)
    BY <1>2, <2>5, SlaveFieldsKeep
  <2>7. Changes(b, a, {"clients"})
    BY <2>2, Zenon DEF Changes
  <2>8. Keeps(b, v)
    BY <2>6, <2>7, KeepsThen DEF QuietFields, Fields
  <2>9. DOMAIN b = Fields /\ BacklogInRange(b)
    BY <2>8 DEF Keeps
  <2>10. Keeps(u, b)
    BY <2>3, <2>9, PutSlaveOnlineKeeps, SlaveFieldsKeep
  <2>11. Keeps(u, v)
    BY <2>8, <2>10, KeepsBoth
  <2>12. LeftStep
    BY <1>2, <2>4, LeftAsBefore
  <2>13. QED
    BY <1>1, <2>4, <2>11, <2>12, PutInv DEF Put
<1>13. QED
  BY <1>3, <1>4, <1>5, <1>6, <1>7, <1>9, <1>10, <1>11, <1>12

LEMMA CronSteps ==
  ASSUME ReplicationInv, NEW i \in Servers,
         \/ CronConnect(i) \/ CronAck(i) \/ CronPing(i) \/ CronStartBgsave(i) \/ CronFreeBacklog(i)
         \/ CronTransferTimeout(i) \/ CronMasterTimeout(i)
         \/ \E c \in Conns : CronSlaveTimeout(i, c)
  PROVE  ReplicationInv'
<1>1. PICK v : v = server[i]
  OBVIOUS
<1>2. DOMAIN v = Fields /\ BacklogInRange(v) /\ LeftInv
  BY <1>1 DEF ReplicationInv, ServersInv
<1>3. ASSUME CronConnect(i) PROVE ReplicationInv'
  <2>1. PICK c : server' = [server EXCEPT ![i].state = "handshake", ![i].conn = c]
    BY <1>3 DEF CronConnect
  <2>2. PICK u : u = [v EXCEPT !.state = "handshake", !.conn = c]
    OBVIOUS
  <2>3. server' = [server EXCEPT ![i] = u]
    BY <1>1, <2>1, <2>2, Zenon
  <2>4. v.state = "connect" /\ UNCHANGED <<play, left>>
    BY <1>1, <1>3 DEF CronConnect, CanConnect
  <2>5. Changes(u, v, {"state", "conn"})
    BY <2>2, Zenon DEF Changes
  <2>6. Evolves(u, v, LinkFields)
    BY <1>2, <2>5, LinkChanges DEF Fields
  <2>7. Keeps(u, v)
    BY <1>2, <2>4, <2>6, LinkKeeps
  <2>8. LeftStep
    BY <1>2, <2>4, LeftAsBefore
  <2>9. QED
    BY <1>1, <2>3, <2>4, <2>7, <2>8, OneChanges DEF Keeps
<1>4. ASSUME CronAck(i) PROVE ReplicationInv'
  <2>1. PICK u : u = SendAck(v)
    OBVIOUS
  <2>2. Put(i, u) /\ UNCHANGED left
    BY <1>1, <1>4, <2>1 DEF CronAck
  <2>3. Changes(u, v, {"master", "sent"})
    BY <2>1, Zenon DEF Changes, SendAck, Send, SendAll
  <2>4. Keeps(u, v)
    BY <1>2, <2>3, KeepsSelf, KeepsThen DEF QuietFields, Fields
  <2>5. LeftStep
    BY <1>2, <2>2, LeftAsBefore
  <2>6. QED
    BY <1>1, <2>2, <2>4, <2>5, PutInv DEF Put
<1>5. ASSUME CronPing(i) PROVE ReplicationInv'
  <2>1. PICK u : u = FeedSlaves(v, v.seldb, <<Ping>>)
    OBVIOUS
  <2>2. Put(i, u) /\ Spend("pings")
    BY <1>1, <1>5, <2>1 DEF CronPing
  <2>3. PICK S : S = {Ping}
    OBVIOUS
  <2>4. <<Ping>> \in Seq(S)
    BY <2>3
  <2>5. Evolves(u, v, SlaveFields)
    BY <1>2, <2>1, <2>4, FeedSlavesKeeps
  <2>6. Keeps(u, v)
    BY <1>2, <2>5, SlaveFieldsKeep
  <2>7. LeftStep
    BY <1>2, <2>2, LeftSpent DEF Disturbances
  <2>8. QED
    BY <1>1, <2>2, <2>6, <2>7, PutInv DEF Put
<1>6. ASSUME CronStartBgsave(i) PROVE ReplicationInv'
  <2>1. PICK ok \in Forks : /\ v.child.type = "none" /\ Paid(ok)
                            /\ Put(i, StartBgsaveForReplication(v, CapaOfWaiting(v), ok))
    BY <1>1, <1>6 DEF CronStartBgsave
  <2>2. PICK u : u = StartBgsaveForReplication(v, CapaOfWaiting(v), ok)
    OBVIOUS
  <2>3. Comes(u, v)
    BY <1>2, <2>1, <2>2, StartBgsaveKeeps DEF Comes
  <2>4. Keeps(u, v)
    BY <1>2, <2>3, ComesKeeps
  <2>5. LeftStep
    BY <1>2, <2>1, LeftPaid
  <2>6. QED
    BY <1>1, <2>1, <2>2, <2>4, <2>5, PutInv DEF Put
<1>7. ASSUME CronFreeBacklog(i) PROVE ReplicationInv'
  <2>1. PICK u : u = FreeBacklog(v)
    OBVIOUS
  <2>2. Put(i, u) /\ Spend("idles")
    BY <1>1, <1>7, <2>1 DEF CronFreeBacklog
  <2>3. Evolves(u, v, {"log"})
    BY <1>2, <2>1, FreeBacklogKeeps
  <2>4. Evolves(u, v, QuietFields)
    BY <2>3, EvolvesMore DEF QuietFields, Fields
  <2>5. Keeps(u, v)
    BY <1>2, <2>4, QuietKeeps
  <2>6. LeftStep
    BY <1>2, <2>2, LeftSpent DEF Disturbances
  <2>7. QED
    BY <1>1, <2>2, <2>5, <2>6, PutInv DEF Put
<1>8. ASSUME CronMasterTimeout(i) PROVE ReplicationInv'
  <2>1. PICK u : u = LoseMaster(v)
    OBVIOUS
  <2>2. Put(i, u) /\ Spend("breaks") /\ v.conn # None
    BY <1>1, <1>8, <2>1 DEF CronMasterTimeout
  <2>3. Keeps(u, v)
    BY <1>2, <2>1, <2>2, LoseMasterKeeps, LinkKeeps
  <2>4. LeftStep
    BY <1>2, <2>2, LeftSpent DEF Disturbances
  <2>5. QED
    BY <1>1, <2>2, <2>3, <2>4, PutInv DEF Put
<1>9. ASSUME NEW c \in Conns, CronSlaveTimeout(i, c) PROVE ReplicationInv'
  <2>1. PICK u : u = FreeSlaves(v, {c})
    OBVIOUS
  <2>2. Put(i, u) /\ Spend("breaks")
    BY <1>1, <1>9, <2>1 DEF CronSlaveTimeout
  <2>3. Keeps(u, v)
    BY <1>2, <2>1, SlaveOperationsKeep, SlaveFieldsKeep
  <2>4. LeftStep
    BY <1>2, <2>2, LeftSpent DEF Disturbances
  <2>5. QED
    BY <1>1, <2>2, <2>3, <2>4, PutInv DEF Put
<1>10. ASSUME CronTransferTimeout(i) PROVE ReplicationInv'
  <2>1. PICK u : u = LoseMaster(v)
    OBVIOUS
  <2>2. Put(i, u) /\ UNCHANGED left /\ v.conn # None
    BY <1>1, <1>10, <2>1 DEF CronTransferTimeout, CanTimeOut
  <2>3. Keeps(u, v)
    BY <1>2, <2>1, <2>2, LoseMasterKeeps, LinkKeeps
  <2>4. LeftStep
    BY <1>2, <2>2, LeftAsBefore
  <2>5. QED
    BY <1>1, <2>2, <2>3, <2>4, PutInv DEF Put
<1>11. QED
  BY <1>3, <1>4, <1>5, <1>6, <1>7, <1>8, <1>9, <1>10

LEMMA EventSteps ==
  ASSUME ReplicationInv, NEW i \in Servers,
         \/ SyncWithMaster(i) \/ ReadDown(i) \/ ReadClosed(i)
         \/ \E c \in Conns : ReadUp(i, c) \/ ReadUpClosed(i, c)
  PROVE  ReplicationInv'
<1>1. PICK v : v = server[i]
  OBVIOUS
<1>2. DOMAIN v = Fields /\ BacklogInRange(v) /\ LeftInv
  BY <1>1 DEF ReplicationInv, ServersInv
<1>3. ASSUME SyncWithMaster(i) PROVE ReplicationInv'
  <2>1. PICK u : u = SendPsync(v)
    OBVIOUS
  <2>2. Put(i, u) /\ UNCHANGED left /\ v.state = "handshake"
    BY <1>1, <1>3, <2>1 DEF SyncWithMaster
  <2>3. Keeps(u, v)
    BY <1>2, <2>1, <2>2, SendPsyncKeeps, LinkKeeps
  <2>4. LeftStep
    BY <1>2, <2>2, LeftAsBefore
  <2>5. QED
    BY <1>1, <2>2, <2>3, <2>4, PutInv DEF Put
<1>4. ASSUME ReadDown(i) PROVE ReplicationInv'
  <2>1. PICK m : m = Head(Link(i).down)
    OBVIOUS
  <2>2. PICK u : /\ \/ u = ReadReply(v, m) \/ u = ReadPayload(v, m) \/ u = ReadStream(v, m)
                 /\ \E k : PutOn(k, i, u)
                 /\ UNCHANGED left /\ v.conn # None
    <3>1. PICK u \in {CASE v.state = "psync"     -> ReadReply(v, m)
                        [] v.state = "transfer"  -> ReadPayload(v, m)
                        [] v.state = "connected" -> ReadStream(v, m)} : \E k : PutOn(k, i, u)
      BY <1>1, <1>4, <2>1, Zenon DEF ReadDown
    <3>2. v.state \in {"psync", "transfer", "connected"} /\ UNCHANGED left /\ v.conn # None
      BY <1>1, <1>4 DEF ReadDown
    <3>3. u = ReadReply(v, m) \/ u = ReadPayload(v, m) \/ u = ReadStream(v, m)
      BY <3>1, <3>2
    <3>4. QED
      BY <3>1, <3>2, <3>3
  <2>3. Evolves(u, v, LinkFields)
    BY <1>2, <2>2, ReadReplyKeeps, ReadPayloadKeeps, ReadStreamKeeps
  <2>4. Keeps(u, v)
    BY <1>2, <2>2, <2>3, LinkKeeps
  <2>5. LeftStep
    BY <1>2, <2>2, LeftAsBefore
  <2>6. QED
    BY <1>1, <2>2, <2>4, <2>5, PutInv
<1>5. ASSUME ReadClosed(i) PROVE ReplicationInv'
  <2>1. PICK u : u = LoseMaster(v)
    OBVIOUS
  <2>2. Put(i, u) /\ UNCHANGED left /\ v.conn # None
    BY <1>1, <1>5, <2>1 DEF ReadClosed
  <2>3. Keeps(u, v)
    BY <1>2, <2>1, <2>2, LoseMasterKeeps, LinkKeeps
  <2>4. LeftStep
    BY <1>2, <2>2, LeftAsBefore
  <2>5. QED
    BY <1>1, <2>2, <2>3, <2>4, PutInv DEF Put
<1>6. ASSUME NEW c \in Conns, ReadUp(i, c) PROVE ReplicationInv'
  <2>1. PICK m : m = Head(conn[c].up)
    OBVIOUS
  <2>2. PICK k : k = [conn EXCEPT ![c].up = Tail(conn[c].up)]
    OBVIOUS
  <2>3. CASE m.t = "ack"
    <3>1. PICK u : u = ReplconfAck(v, c, m.off)
      OBVIOUS
    <3>2. PutOn(k, i, u) /\ UNCHANGED left
      BY <1>1, <1>6, <2>1, <2>2, <2>3, <3>1 DEF ReadUp
    <3>3. Keeps(u, v)
      BY <1>2, <3>1, ReplconfAckKeeps, SlaveFieldsKeep
    <3>4. LeftStep
      BY <1>2, <3>2, LeftAsBefore
    <3>5. QED
      BY <1>1, <3>2, <3>3, <3>4, PutInv
  <2>4. CASE m.t # "ack"
    <3>1. PICK ok \in Forks : PutOn(k, i, Sync(v, c, m, ok)) /\ Paid(ok)
      BY <1>1, <1>6, <2>1, <2>2, <2>4 DEF ReadUp
    <3>2. PICK u : u = Sync(v, c, m, ok)
      OBVIOUS
    <3>3. Keeps(u, v)
      BY <1>2, <3>2, SyncKeeps, ComesKeeps
    <3>4. LeftStep
      BY <1>2, <3>1, LeftPaid
    <3>5. QED
      BY <1>1, <3>1, <3>2, <3>3, <3>4, PutInv
  <2>5. QED
    BY <2>3, <2>4
<1>7. ASSUME NEW c \in Conns, ReadUpClosed(i, c) PROVE ReplicationInv'
  <2>1. PICK u : u = FreeSlaves(v, {c})
    OBVIOUS
  <2>2. Put(i, u) /\ UNCHANGED left
    BY <1>1, <1>7, <2>1 DEF ReadUpClosed
  <2>3. Keeps(u, v)
    BY <1>2, <2>1, SlaveOperationsKeep, SlaveFieldsKeep
  <2>4. LeftStep
    BY <1>2, <2>2, LeftAsBefore
  <2>5. QED
    BY <1>1, <2>2, <2>3, <2>4, PutInv DEF Put
<1>8. QED
  BY <1>3, <1>4, <1>5, <1>6, <1>7

LEMMA CrashSteps ==
  ASSUME ReplicationInv, NEW i \in Servers, Crash(i) \/ Restart(i)
  PROVE  ReplicationInv'
<1>1. P.cfg[i].size \in Nat \ {0} /\ LeftInv
  BY PlaysAssumption DEF ReplicationInv, LeftInv, P, Servers
<1>2. ASSUME NEW w, server' = [server EXCEPT ![i] = w], play' = play, LeftStep,
             DOMAIN w = Fields, BacklogInRange(w), Unmoved(w)
      PROVE  ReplicationInv'
  <2>1. Keeps(w, server[i])
    BY <1>2 DEF Keeps
  <2>2. QED
    BY <1>2, <2>1, OneChanges
<1>3. CASE Crash(i)
  <2>1. PICK w : w = [Started(server[i].run, server[i].rdb, P.cfg[i]) EXCEPT !.up = FALSE]
    OBVIOUS
  <2>2. server' = [server EXCEPT ![i] = w] /\ play' = play /\ Spend("crashes")
    BY <1>3, <2>1 DEF Crash
  <2>3. DOMAIN w = Fields /\ BacklogInRange(w) /\ Unmoved(w)
    BY <1>1, <2>1, StartedOk
  <2>4. LeftStep
    BY <1>1, <2>2, LeftSpent DEF Disturbances
  <2>5. QED
    BY <1>2, <2>2, <2>3, <2>4
<1>4. CASE Restart(i)
  <2>1. PICK w : w = Started(<<i, server[i].run[2] + 1>>, server[i].rdb, P.cfg[i])
    OBVIOUS
  <2>2. server' = [server EXCEPT ![i] = w] /\ UNCHANGED <<play, left>>
    BY <1>4, <2>1 DEF Restart
  <2>3. DOMAIN w = Fields /\ BacklogInRange(w) /\ Unmoved(w)
    BY <1>1, <2>1, StartedOk
  <2>4. LeftStep
    BY <1>1, <2>2, LeftAsBefore
  <2>5. QED
    BY <1>2, <2>2, <2>3, <2>4
<1>5. QED
  BY <1>3, <1>4

-----------------------------------------------------------------------------
(* The theorems. *)

\* While no server was given another master: every backlog is in order and
\* agrees with the replication offset (feedReplicationBacklog,
\* createReplicationBacklog, resizeReplicationBacklog, freeReplicationBacklog),
\* a master has no link of its own, and what its dump file lacks is known
\* (rdbSaveBackground, backgroundSaveDoneHandlerDisk).  A backlog is inside its
\* buffer always.
THEOREM ReplicationInvariant == Spec => []ReplicationInv
<1>1. ReplicationInv /\ [Next]_vars => ReplicationInv'
  <2>1. SUFFICES ASSUME ReplicationInv, [Next]_vars PROVE ReplicationInv'
    OBVIOUS
  <2>2. CASE UNCHANGED vars
    BY <2>1, <2>2 DEF vars, ReplicationInv, LeftInv, ServersInv, UnmovedInv, NotMoved, P, Servers
  <2>3. CASE Next
    BY <2>1, <2>3, ClientSteps, SnapshotSteps, CronSteps, EventSteps, CrashSteps DEF Next
  <2>4. QED
    BY <2>1, <2>2, <2>3
<1>2. QED
  BY <1>1, InitInv, PTL DEF Spec

\* The index and the length of every backlog stay inside its buffer, through
\* every interleaving of writes, resizes, resynchronizations, moves to another
\* master and crashes (feedReplicationBacklog, resizeReplicationBacklog).
THEOREM BacklogsInRange == Spec => []BacklogInv
<1>1. ReplicationInv => BacklogInv
  BY DEF ReplicationInv, ServersInv, BacklogInv
<1>2. QED
  BY <1>1, ReplicationInvariant, PTL

\* The first offset and the length of the backlog are those of the last bytes
\* of the stream up to the replication offset of the server, so that
\* masterTryPartialResynchronization lets no slave go on at an offset whose
\* byte the backlog does not have.
THEOREM OffsetsAlwaysAgree == Spec => []OffsetsAgree
<1>1. ReplicationInv => OffsetsAgree
  BY DEF ReplicationInv, UnmovedInv, Unmoved, OffsetsAgree
<1>2. QED
  BY <1>1, ReplicationInvariant, PTL

\* A master that counts no change since its last save has all of its data in
\* its dump file, whatever children saved, failed or were killed meanwhile:
\* the count of backgroundSaveDoneHandlerDisk loses no write.
THEOREM DirtyAlwaysCounts == Spec => []DirtyCounts
<1>1. ReplicationInv => DirtyCounts
  <2>1. SUFFICES ASSUME ReplicationInv, NotMoved, NEW i \in Servers, IsMaster(i), ~server[i].child.done,
                        server[i].dirty = 0
                 PROVE  server[i].rdb = server[i].data
    BY DEF DirtyCounts
  <2>2. DumpKnown(server[i])
    BY <2>1 DEF ReplicationInv, UnmovedInv, Unmoved, IsMaster
  <2>3. QED
    BY <2>1, <2>2 DEF DumpKnown
<1>2. QED
  BY <1>1, ReplicationInvariant, PTL
=============================================================================
