----------------------------- MODULE MCCommands -----------------------------
\* Instances of the commands for TLC: one workload for each data type, one for
\* the commands on any key, with time passing, and one that mixes the types.
EXTENDS Commands

K1 == <<0, 1>>
K2 == <<0, 2>>
K3 == <<1, 1>>
TheNames == {K1, K2, K3}

Two == {K1, K2}
Pairs == {<<K1, K2>>, <<K2, K1>>}
Src == {[name |-> p[1], to |-> p[2]] : p \in Pairs}

Set(n, v, left, flag) == [op |-> "SET", name |-> n, v |-> v, left |-> left, flag |-> flag]
Keyed(op, names) == {[op |-> op, name |-> n] : n \in names}
Multi(op, seqs) == {[op |-> op, names |-> ns] : ns \in seqs}

Generic ==
    {Set(n, <<1>>, left, "none") : n \in Two, left \in {Never, 1}}
    \cup Multi("DEL", {<<K1, K2>>, <<K3>>}) \cup Multi("EXISTS", {<<K1, K2>>})
    \cup Multi("READ", {<<K2>>})
    \cup {[op |-> op, name |-> p[1], to |-> p[2]] : op \in {"RENAME", "RENAMENX"},
            p \in Pairs \cup {<<K1, K1>>}}
    \cup {[op |-> "MOVE", name |-> K1, db |-> 1], [op |-> "MOVE", name |-> K3, db |-> 0]}
    \cup {[op |-> "EXPIRE", name |-> K1, left |-> left] : left \in {-1, 1}}
    \cup Keyed("PERSIST", {K1}) \cup Keyed("TTL", {K1})
    \cup {[op |-> "FLUSHDB", db |-> 0], [op |-> "FLUSHALL"]}

StringsMix ==
    {Set(K1, v, Never, flag) : v \in {<<>>, <<0, 1>>}, flag \in {"none", "NX", "XX"}}
    \cup {Set(K2, <<1>>, left, "none") : left \in {0, 1}}
    \cup {[op |-> "GETRANGE", name |-> K1, from |-> f, last |-> l] : f \in {0, -2}, l \in {1, -1}}
    \cup {[op |-> "GETSET", name |-> K1, v |-> <<1, 1>>]}
    \cup {[op |-> "SETRANGE", name |-> K1, from |-> f, v |-> <<1>>] : f \in {-1, 1, 3}}
    \cup {[op |-> op, names |-> <<K1, K2>>, vs |-> <<<<1>>, <<0, 2>>>>] : op \in {"MSET", "MSETNX"}}
    \cup {[op |-> op, name |-> K2, n |-> n] : op \in {"INCRBY", "INCRBYFLOAT"}, n \in {-2, 3}}
    \cup {[op |-> "APPEND", name |-> n, v |-> <<0>>] : n \in Two}

ListsMix ==
    {[op |-> op, name |-> n, v |-> xs, where |-> w] : op \in {"PUSH"}, n \in Two,
        xs \in {<<1>>, <<2, 1>>}, w \in {"tail"}}
    \cup {[op |-> "PUSH", name |-> K1, v |-> <<Long>>, where |-> "head"]}
    \cup {[op |-> "PUSHX", name |-> K1, n |-> 2, where |-> "head"]}
    \cup {[op |-> "LINSERT", name |-> K1, n |-> x, pivot |-> 2, where |-> w] :
            x \in {1, Long}, w \in {"head"}}
    \cup {[op |-> "LINDEX", name |-> K1, from |-> -1]}
    \cup {[op |-> "LSET", name |-> K1, from |-> f, n |-> 1] : f \in {1, -1}}
    \cup {[op |-> "LSET", name |-> K1, from |-> 2, n |-> Long]}
    \cup {[op |-> "POP", name |-> n, where |-> w] : n \in Two, w \in {"head", "tail"}}
    \cup {[op |-> op, name |-> K1, from |-> f, last |-> l] : op \in {"LRANGE", "LTRIM"},
            f \in {0, 1, -2}, l \in {1, -1}}
    \cup {[op |-> "LREM", name |-> K1, n |-> n, pivot |-> 1] : n \in {-1, 0, 1}}
    \cup {[op |-> "RPOPLPUSH", name |-> p[1], to |-> p[2]] : p \in Pairs \cup {<<K1, K1>>}}

SetsMix ==
    {[op |-> "SADD", name |-> K1, v |-> xs] : xs \in {<<1, 2>>, <<Text>>}}
    \cup {[op |-> "SADD", name |-> K2, v |-> <<0, 1>>]}
    \cup {[op |-> "SREM", name |-> K1, v |-> <<1, Text>>]}
    \cup {[op |-> "SMOVE", name |-> p[1], to |-> p[2], n |-> x] : p \in Pairs \cup {<<K1, K1>>},
            x \in {1, Text}}
    \cup {[op |-> "SPOP", name |-> K1, pick |-> i] : i \in {0, 1}}
    \cup {[op |-> op, names |-> ns, to |-> to] :
            op \in {"SINTERSTORE", "SUNIONSTORE", "SDIFFSTORE"},
            ns \in {<<K1, K2>>, <<K2, K3, K1>>}, to \in {K2}}
    \cup {Set(K3, <<1>>, 1, "none"), [op |-> "SISMEMBER", name |-> K2, n |-> 2],
          [op |-> "SRANDMEMBER", name |-> K1, n |-> 2]}

HashesMix ==
    {[op |-> op, name |-> K1, f |-> f, n |-> x] : op \in {"HSET", "HSETNX"}, f \in {0, Long},
        x \in {1, Long}}
    \cup {[op |-> "HMSET", name |-> n, pairs |-> <<<<0, 2>>, <<1, Text>>>>] : n \in Two}
    \cup {[op |-> op, name |-> K1, f |-> f, n |-> x] : op \in {"HINCRBY", "HINCRBYFLOAT"},
            f \in {1, Long}, x \in {2}}
    \cup {[op |-> "HDEL", name |-> K1, v |-> v] : v \in {<<0, 1>>, <<Long>>}}
    \cup {[op |-> "HMGET", name |-> n, v |-> <<1, 2>>] : n \in Two}
    \cup {Set(K2, <<1>>, 1, "none"), [op |-> "EXPIRE", name |-> K1, left |-> 1]}

ZSetsMix ==
    {[op |-> "ZADD", name |-> K1, pairs |-> <<<<sc, x>>>>, flags |-> fl] :
        sc \in {1, Inf}, x \in {0}, fl \in {{}, {"nx"}, {"xx"}}}
    \cup {[op |-> "ZADD", name |-> K1, pairs |-> <<<<1, Long>>, <<1, 0>>>>, flags |-> {}]}
    \cup {[op |-> "ZADD", name |-> K1, pairs |-> <<<<-Inf, 0>>>>, flags |-> {"incr"}]}
    \cup {[op |-> "ZADD", name |-> K2, pairs |-> <<<<1, 0>>, <<2, 1>>>>, flags |-> {}]}
    \cup {[op |-> "ZREM", name |-> n, v |-> <<0, 2>>] : n \in {K2, K3}}
    \cup {[op |-> "ZREMRANGEBYRANK", name |-> n, from |-> f, last |-> l] : n \in {K1},
            f \in {1, -1}, l \in {0, -1}}
    \cup {[op |-> "ZREMRANGEBYSCORE", name |-> K2, from |-> 1, last |-> 2, minex |-> e,
            maxex |-> FALSE] : e \in BOOLEAN}
    \cup {[op |-> "ZRANGE", name |-> K2, from |-> f, last |-> -1, rev |-> r] :
            f \in {1, -1}, r \in BOOLEAN}
    \cup {[op |-> op, name |-> K2, from |-> 1, last |-> 2, minex |-> FALSE, maxex |-> TRUE,
            rev |-> r, offset |-> 0, n |-> -1] : r \in BOOLEAN,
            op \in {"ZRANGEBYSCORE", "ZCOUNT", "ZRANGEBYLEX", "ZLEXCOUNT"}}
    \cup {[op |-> "ZSCORE", name |-> K2, n |-> 0],
          [op |-> "ZRANK", name |-> K1, n |-> Long, rev |-> TRUE],
          [op |-> "EXPIRE", name |-> K2, left |-> 1]}
    \cup {[op |-> op, names |-> <<K1, K2>>, weights |-> ws, how |-> h, to |-> K3] :
            op \in {"ZUNIONSTORE", "ZINTERSTORE"}, ws \in {<<0, -1>>},
            h \in {"sum", "min", "max"}}

Mixed ==
    {[op |-> "PUSH", name |-> K1, v |-> <<2, 0>>, where |-> "tail"],
     [op |-> "PUSH", name |-> K1, v |-> <<Long>>, where |-> "head"],
     [op |-> "SADD", name |-> K2, v |-> <<1, 2>>], [op |-> "SADD", name |-> K2, v |-> <<Long>>],
     [op |-> "ZADD", name |-> K2, pairs |-> <<<<2, 0>>, <<1, 1>>>>, flags |-> {}],
     [op |-> "ZUNIONSTORE", names |-> <<K2, K3>>, weights |-> <<1, 2>>, how |-> "sum", to |-> K3],
     [op |-> "SMOVE", name |-> K2, to |-> K1, n |-> 1],
     [op |-> "APPEND", name |-> K3, v |-> <<1>>],
     Set(K1, <<1>>, 1, "none"), [op |-> "DEL", names |-> <<K2, K3>>]}
    \cup {[op |-> "SORT", name |-> n, to |-> K3, nosort |-> no, desc |-> de, alpha |-> al,
            from |-> 0, n |-> len] :
            n \in Two, no \in BOOLEAN, de \in {TRUE}, al \in BOOLEAN, len \in {1}}
    \cup {[op |-> "SORT", name |-> K2, to |-> K1, nosort |-> FALSE, desc |-> FALSE,
            alpha |-> TRUE, from |-> 0, n |-> -1]}

With(commands, lag, evict) == [commands |-> commands, lag |-> lag, evict |-> evict]

TheWorkloads ==
    [generic |-> With(Generic, 1, TRUE), strings |-> With(StringsMix, 0, FALSE),
     lists |-> With(ListsMix, 0, FALSE), sets |-> With(SetsMix, 0, FALSE),
     hashes |-> With(HashesMix, 0, FALSE), zsets |-> With(ZSetsMix, 0, FALSE),
     mixed |-> With(Mixed, 0, FALSE)]
=============================================================================
