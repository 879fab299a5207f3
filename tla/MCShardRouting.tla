---------------------------- MODULE MCShardRouting ----------------------------
(* A small hash space for TLC, and one request of every kind.                *)
EXTENDS ShardRouting, TLC
CONSTANTS c1, c2, v1, v2
Sym == Permutations({c1, c2}) \cup Permutations({v1, v2})

Cmd(name, argc, key, value, word, num) ==
    [name |-> name, argc |-> argc, key |-> key, value |-> value,
     word |-> word, num |-> num]

Bare(name, argc, word) == Cmd(name, argc, Empty, Nil, word, FALSE)

\* SETs of two keys with different owners, GETs of all keys, and what is rejected
\* for every command.
MCRequests ==
    {Cmd("SET", 3, h, v, FALSE, FALSE) : h \in {1, 2}, v \in Values}
    \cup {Cmd("SET", 5, 1, v, TRUE, n) : v \in Values, n \in BOOLEAN}
    \cup {Cmd("GET", 2, h, Nil, FALSE, FALSE) : h \in Hashes}
    \cup {Bare("INFO", 1, FALSE), Bare("INFO", 2, FALSE), Bare("NODE_INFO", 2, TRUE),
          Bare("NODE_INFO", 2, FALSE), Bare("QUIT", 1, FALSE), Bare("unknown", 1, FALSE),
          Bare("SET", 3, FALSE), Bare("SET", 4, TRUE), Bare("GET", 2, FALSE),
          Bare("GET", 3, FALSE), Bare("INFO", 3, TRUE), Bare("NODE_INFO", 3, TRUE)}
=============================================================================
