------------------------------ MODULE Strings -------------------------------
(* The string commands (src/t_string.c).  A string is a sequence of           *)
(* characters: the digits 0 and 1 (numerals are written in base 2), 2 for any *)
(* other byte, the zero byte of SETRANGE included, and 3 for the minus sign.  *)
(* An object is encoded as an integer ("int") or as its bytes ("raw", which   *)
(* stands for EMBSTR too).                                                    *)
EXTENDS Keyspace, SequencesExt

CONSTANTS
    MaxLen,        \* the 512 MB that a string may have
    MaxDigits      \* what string2ll accepts: numerals of so many digits

ASSUME StringsAssumption == MaxLen \in Nat /\ MaxDigits \in Nat \ {0}

NumMax == 2 ^ MaxDigits - 1      \* LLONG_MAX
NumMin == -NumMax                \* LLONG_MIN

Digits(n) == LET d[i \in 0 .. MaxLen] == IF i = 0 THEN n ELSE d[i - 1] \div 2
                 used == {i \in 1 .. MaxLen : d[i - 1] > 0}
             IN  IF n = 0 THEN <<0>>
                 ELSE [i \in 1 .. Cardinality(used) |-> d[Cardinality(used) - i] % 2]

(* ll2string writes, string2ll reads: no leading zero, no minus zero.  It     *)
(* decides what is kept as an integer.                                        *)
TextOf(n) == IF n < 0 THEN <<3>> \o Digits(-n) ELSE Digits(n)
Numerals  == {TextOf(n) : n \in NumMin .. NumMax}
IsNumeral(v) == v \in Numerals

(* strtoll, by which getLongLongFromObject reads an argument of arithmetic,   *)
(* accepts more: leading zeros, nothing at all (0), and it stops at the first *)
(* zero byte.                                                                 *)
Parsed(v) == SubSeq(v, 1, Cardinality({i \in 1 .. Len(v) : \A j \in 1 .. i : v[j] # 2}))
Magnitude(b) == IF b # <<>> /\ b[1] = 3 THEN Tail(b) ELSE b
IsNumber(v) == /\ \A i \in 1 .. Len(Magnitude(Parsed(v))) : Magnitude(Parsed(v))[i] # 3
               /\ Parsed(v) # <<3>>
NumOf(v) == LET b == Parsed(v)
                d == Magnitude(b)
                n == FoldLeft(LAMBDA sum, x : 2 * sum + x, 0, d)
            IN  IF b = d THEN n ELSE -n
IsLongLong(v) == IsNumber(v) /\ NumOf(v) \in NumMin .. NumMax

TryObjectEncoding(v) == Obj("string", IF IsNumeral(v) THEN "int" ELSE "raw", v)
Raw(v) == Obj("string", "raw", v)

Fits(len) == len <= MaxLen       \* checkStringLength

(* The bytes from start to end as GETRANGE takes them: a negative index       *)
(* counts from the end, and what still is negative becomes 0.                 *)
SubRange(v, start, end) ==
    LET len == Len(v)
        Abs(i) == IF i < 0 THEN (IF len + i < 0 THEN 0 ELSE len + i) ELSE i
        st  == Abs(start)
        en  == IF Abs(end) >= len THEN len - 1 ELSE Abs(end)
    IN  IF len = 0 \/ st > en THEN <<>> ELSE SubSeq(v, st + 1, en + 1)

-----------------------------------------------------------------------------
(* SET with NX, XX, EX; SETNX, SETEX and PSETEX are forms of it.  An expire   *)
(* that is not positive is an error (c.left = Never: none is given).          *)
SetGeneric(s, c) ==
    LET n    == c.name
        e    == IF c.flag \in {"NX", "XX"} THEN LookupKey(s, n) ELSE s
        skip == \/ c.flag = "NX" /\ Exists(e, n)
                \/ c.flag = "XX" /\ ~Exists(e, n)
        set  == Dirty(SetKey(e, n, TryObjectEncoding(c.v)), 1)
    IN  CASE c.left <= 0 -> s
          [] c.left > 0 /\ skip -> e
          [] OTHER -> IF c.left = Never THEN set ELSE SetExpire(set, n, c.left)

GetRange(s, c) ==
    LET e == LookupKey(s, c.name)
    IN  IF WrongType(e, c.name, "string") THEN e
        ELSE Reply(e, SubRange(e.keys[c.name].val, c.from, c.last))

GetSet(s, c) ==
    LET e == LookupKey(s, c.name)
    IN  IF WrongType(e, c.name, "string") THEN e
        ELSE Dirty(SetKey(Reply(e, e.keys[c.name].val), c.name, TryObjectEncoding(c.v)), 1)

(* The string grows with zero bytes up to the offset; nothing is written, and *)
(* no key made, for an empty value.                                           *)
SetRange(s, c) ==
    LET e    == LookupKey(s, c.name)
        old  == e.keys[c.name].val
        size == c.from + Len(c.v)
        new  == [i \in 1 .. (IF size > Len(old) THEN size ELSE Len(old)) |->
                    IF i \in c.from + 1 .. size THEN c.v[i - c.from]
                    ELSE IF i <= Len(old) THEN old[i] ELSE 2]
    IN  CASE c.from < 0 -> s
          [] c.from >= 0 /\ (WrongType(e, c.name, "string") \/ c.v = <<>> \/ ~Fits(size)) -> e
          [] OTHER -> Dirty(SignalModifiedKey(DbPut(e, c.name, Raw(new)), c.name), 1)

(* MSET, and MSETNX which sets nothing when one of the keys is there.  c.vs   *)
(* holds one value for each of c.names.                                       *)
MSetGeneric(s, c) ==
    LET e == IF c.op = "MSETNX" THEN ExpireEach(s, c.names) ELSE s
        busy == c.op = "MSETNX" /\ \E i \in 1 .. Len(c.names) : Exists(e, c.names[i])
        after[i \in 0 .. Len(c.names)] ==
            IF i = 0 THEN e ELSE SetKey(after[i - 1], c.names[i], TryObjectEncoding(c.vs[i]))
    IN  IF busy THEN e ELSE Dirty(after[Len(c.names)], Len(c.names))

(* INCR, DECR, INCRBY, DECRBY: no object counts as 0; the sum is checked      *)
(* before it is made, and the result is kept as an integer.                   *)
IncrDecr(s, c) ==
    LET e   == LookupKey(s, c.name)
        v   == e.keys[c.name].val
        old == NumOf(v)
        new == Obj("string", "int", TextOf(old + c.n))
        bad == \/ WrongType(e, c.name, "string")
               \/ ~IsLongLong(v)
        overflow == \/ c.n < 0 /\ old < 0 /\ c.n < NumMin - old
                    \/ c.n > 0 /\ old > 0 /\ c.n > NumMax - old
    IN  IF bad \/ overflow THEN e
        ELSE Dirty(SignalModifiedKey(DbPut(e, c.name, new), c.name), 1)

(* INCRBYFLOAT on the whole numbers, up to those whose text a string holds:   *)
(* the result is kept as its text, and a SET of it is what the slaves and the *)
(* AOF are given.                                                             *)
IncrByFloat(s, c) ==
    LET e   == LookupKey(s, c.name)
        v   == e.keys[c.name].val
        sum == NumOf(v) + c.n
        bad == WrongType(e, c.name, "string") \/ ~IsNumber(v)
    IN  IF bad \/ sum \notin 1 - 2 ^ (MaxLen - 1) .. 2 ^ MaxLen - 1 THEN e
        ELSE Rewrite(Dirty(SignalModifiedKey(DbPut(e, c.name, Raw(TextOf(sum))), c.name), 1),
                     [op |-> "SET", name |-> c.name, v |-> TextOf(sum), flag |-> "none", left |-> Never])

AppendCommand(s, c) ==
    LET e   == LookupKey(s, c.name)
        old == e.keys[c.name].val
        new == IF Exists(e, c.name) THEN Raw(old \o c.v) ELSE TryObjectEncoding(c.v)
    IN  IF WrongType(e, c.name, "string") \/ (Exists(e, c.name) /\ ~Fits(Len(old) + Len(c.v)))
        THEN e
        ELSE Dirty(SignalModifiedKey(DbPut(e, c.name, new), c.name), 1)

StringCommand(s, c) ==
    CASE c.op = "SET" -> SetGeneric(s, c)
      [] c.op = "GETRANGE" -> GetRange(s, c)
      [] c.op = "GETSET" -> GetSet(s, c)
      [] c.op = "SETRANGE" -> SetRange(s, c)
      [] c.op \in {"MSET", "MSETNX"} -> MSetGeneric(s, c)
      [] c.op = "INCRBY" -> IncrDecr(s, c)
      [] c.op = "INCRBYFLOAT" -> IncrByFloat(s, c)
      [] c.op = "APPEND" -> AppendCommand(s, c)
      [] OTHER -> s
=============================================================================
