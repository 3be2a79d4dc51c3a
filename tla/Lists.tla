------------------------------- MODULE Lists --------------------------------
(* The list commands (src/t_list.c) that do not block.  A list is a sequence  *)
(* of elements.  It is a ziplist until an element longer than                 *)
(* list-max-ziplist-value (Long) or too many elements make it a linked list;  *)
(* it never turns back.                                                       *)
EXTENDS Keyspace, SequencesExt

CONSTANTS
    ListMaxZiplistEntries  \* list-max-ziplist-entries

ASSUME ListsAssumption == ListMaxZiplistEntries \in Nat

EmptyList == Obj("list", "ziplist", <<>>)

(* listTypeTryConversion, the length left out. *)
TryConversion(o, x) == IF x = Long THEN [o EXCEPT !.enc = "linkedlist"] ELSE o

\* Fault: one element too many for a ziplist.
ListTypePush_Late(o, x, where) ==
    LET o1 == TryConversion(o, x)
        o2 == IF Len(o1.val) > ListMaxZiplistEntries
              THEN [o1 EXCEPT !.enc = "linkedlist"] ELSE o1
    IN  [o2 EXCEPT !.val = IF where = "head" THEN <<x>> \o @ ELSE Append(@, x)]

(* listTypePush looks at the length before it adds. *)
ListTypePush(o, x, where) ==
    LET o1 == TryConversion(o, x)
        o2 == IF Len(o1.val) >= ListMaxZiplistEntries
              THEN [o1 EXCEPT !.enc = "linkedlist"] ELSE o1
    IN  [o2 EXCEPT !.val = IF where = "head" THEN <<x>> \o @ ELSE Append(@, x)]

PushAll(o, xs, where) == FoldLeft(LAMBDA l, x : ListTypePush(l, x, where), o, xs)

ListOrNew(s, n) == IF Exists(s, n) THEN s.keys[n] ELSE EmptyList

(* The place in the list of an index, which counts from the end if negative;  *)
(* 0 when there is none.                                                      *)
ListIndex(l, i) ==
    LET p == IF i < 0 THEN Len(l) + i + 1 ELSE i + 1
    IN  IF p \in 1 .. Len(l) THEN p ELSE 0

(* The list without the places of a set. *)
WithoutAt(l, gone) ==
    LET keep == {i \in 1 .. Len(l) : i \notin gone}
    IN  [k \in 1 .. Cardinality(keep) |->
            l[CHOOSE i \in keep : Cardinality({j \in keep : j <= i}) = k]]

(* What LTRIM keeps and LRANGE answers. *)
ListRange(l, start, end) ==
    LET len == Len(l)
        st0 == IF start < 0 THEN len + start ELSE start
        en0 == IF end < 0 THEN len + end ELSE end
        st  == IF st0 < 0 THEN 0 ELSE st0
        en  == IF en0 >= len THEN len - 1 ELSE en0
    IN  IF st > en0 \/ st >= len THEN <<>> ELSE SubSeq(l, st + 1, en + 1)

-----------------------------------------------------------------------------
PushGeneric(s, c) ==
    LET e == LookupKey(s, c.name)
    IN  IF WrongType(e, c.name, "list") THEN e
        ELSE Dirty(SignalModifiedKey(
                DbPut(e, c.name, PushAll(ListOrNew(e, c.name), c.v, c.where)), c.name),
                Len(c.v))

(* LPUSHX and RPUSHX. *)
PushX(s, c) ==
    LET e == LookupKey(s, c.name)
    IN  IF e.keys[c.name].type # "list" THEN e
        ELSE Dirty(SignalModifiedKey(
                DbPut(e, c.name, ListTypePush(e.keys[c.name], c.n, c.where)), c.name), 1)

(* LINSERT converts the list for the new element before it looks for the      *)
(* pivot, and for the length after it has inserted.                           *)
LInsert(s, c) ==
    LET e   == LookupKey(s, c.name)
        o   == TryConversion(e.keys[c.name], c.n)
        at  == {i \in 1 .. Len(o.val) : o.val[i] = c.pivot}
        p   == (CHOOSE i \in at : \A j \in at : i <= j) + (IF c.where = "head" THEN 0 ELSE 1)
        new == [o EXCEPT !.val = InsertAt(@, p, c.n)]
        fit == IF Len(new.val) > ListMaxZiplistEntries
               THEN [new EXCEPT !.enc = "linkedlist"] ELSE new
    IN  CASE e.keys[c.name].type # "list" -> e
          [] e.keys[c.name].type = "list" /\ at = {} -> DbPut(e, c.name, o)
          [] OTHER -> Dirty(SignalModifiedKey(DbPut(e, c.name, fit), c.name), 1)

LIndex(s, c) ==
    LET e == LookupKey(s, c.name)
        l == e.keys[c.name].val
        p == ListIndex(l, c.from)
    IN  IF e.keys[c.name].type # "list" \/ p = 0 THEN Reply(e, <<>>) ELSE Reply(e, <<l[p]>>)

(* LSET converts the list even when the index is out of range. *)
LSet(s, c) ==
    LET e == LookupKey(s, c.name)
        o == TryConversion(e.keys[c.name], c.n)
        p == ListIndex(o.val, c.from)
    IN  CASE e.keys[c.name].type # "list" -> e
          [] e.keys[c.name].type = "list" /\ p = 0 -> DbPut(e, c.name, o)
          [] OTHER -> Dirty(SignalModifiedKey(
                        DbPut(e, c.name, [o EXCEPT !.val[p] = c.n]), c.name), 1)

ListTypePop(o, where) ==
    [o EXCEPT !.val = IF where = "head" THEN Tail(@) ELSE Front(@)]

Popped(l, where) == IF where = "head" THEN Head(l) ELSE Last(l)

PopGeneric(s, c) ==
    LET e == LookupKey(s, c.name)
        o == e.keys[c.name]
    IN  IF o.type # "list" THEN e
        ELSE Changed(Reply(e, <<Popped(o.val, c.where)>>), c.name, ListTypePop(o, c.where), 1)

LRange(s, c) ==
    LET e == LookupKey(s, c.name)
    IN  IF WrongType(e, c.name, "list") THEN e
        ELSE Reply(e, ListRange(e.keys[c.name].val, c.from, c.last))

(* LTRIM counts as a change even if it takes nothing away. *)
LTrim(s, c) ==
    LET e == LookupKey(s, c.name)
        o == e.keys[c.name]
    IN  IF o.type # "list" THEN e
        ELSE Changed(e, c.name, [o EXCEPT !.val = ListRange(@, c.from, c.last)], 1)

(* LREM removes the first occurrences, or the last ones for a negative count, *)
(* or all of them for 0.                                                      *)
LRem(s, c) ==
    LET e    == LookupKey(s, c.name)
        o    == e.keys[c.name]
        at   == {i \in 1 .. Len(o.val) : o.val[i] = c.pivot}
        rank(i) == IF c.n < 0 THEN Cardinality({j \in at : j >= i})
                   ELSE Cardinality({j \in at : j <= i})
        max  == IF c.n < 0 THEN -c.n ELSE c.n
        gone == {i \in at : max = 0 \/ rank(i) <= max}
    IN  IF o.type # "list" \/ gone = {} THEN e
        ELSE Changed(e, c.name, [o EXCEPT !.val = WithoutAt(@, gone)], Cardinality(gone))

(* RPOPLPUSH: both lists may be the same one. *)
RPopLPush(s, c) ==
    LET src == c.name
        dst == c.to
        e   == LookupKey(s, src)
        e2  == LookupKey(e, dst)
        x   == Last(e2.keys[src].val)
        pop == DbPut(e2, src, ListTypePop(e2.keys[src], "tail"))
        new == DbPut(pop, dst, ListTypePush(ListOrNew(pop, dst), x, "head"))
        end == IF new.keys[src].val = <<>> THEN DbDelete(new, src) ELSE new
    IN  CASE e.keys[src].type # "list" -> e
          [] e.keys[src].type = "list" /\ WrongType(e2, dst, "list") -> e2
          [] OTHER -> Dirty(SignalModifiedKey(SignalModifiedKey(end, dst), src), 1)

ListCommand(s, c) ==
    CASE c.op = "PUSH" -> PushGeneric(s, c)
      [] c.op = "PUSHX" -> PushX(s, c)
      [] c.op = "LINSERT" -> LInsert(s, c)
      [] c.op = "LINDEX" -> LIndex(s, c)
      [] c.op = "LSET" -> LSet(s, c)
      [] c.op = "POP" -> PopGeneric(s, c)
      [] c.op = "LRANGE" -> LRange(s, c)
      [] c.op = "LTRIM" -> LTrim(s, c)
      [] c.op = "LREM" -> LRem(s, c)
      [] c.op = "RPOPLPUSH" -> RPopLPush(s, c)
      [] OTHER -> s
=============================================================================
