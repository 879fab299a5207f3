----------------------------- MODULE MCStartup -----------------------------
(* Launches of every kind: no file, a messy file, a file one level up, a pool  *)
(* that does not fit, and a fraction that is negative.                         *)
EXTENDS Startup

Text(s)   == [u64 |-> Bad, double |-> Bad, bool |-> Bad, text |-> s]
Whole(n)  == [u64 |-> n, double |-> 100 * n, text |-> "n",
              bool |-> IF n = 0 THEN FALSE ELSE IF n = 1 THEN TRUE ELSE Bad]
Part(n)   == [u64 |-> Bad, double |-> n, bool |-> Bad, text |-> "x"]
Flag(b)   == [u64 |-> Bad, double |-> Bad, bool |-> b, text |-> "b"]
Sets(k, v) == [key |-> k, value |-> v]

Entries == << Sets("page_size_goal", Whole(3)), Sets("key_reserve", Whole(1)) >>

Messy ==
    << Sets("# comment", Text("")), Sets("port", Whole(1)),
       Sets("page_size_goal", Whole(9)), Sets("page_size_goal", Part(50)),
       Sets("pool_max_memory_percent", Part(80)),
       Sets("pool_max_memory_percent", Text("most")),
       Sets("probationary_pool_size", Part(75)), Sets("hard_trigger", Whole(1)),
       Sets("soft_throttle", Flag(TRUE)),
       Sets("send_shard_details_on_connect", Flag(TRUE)),
       Sets("db_port", Whole(70000)), Sets("hash", Text("md5")) >> \o Entries

Plain    == << Sets("pool_max_memory_percent", Whole(1)) >> \o Entries
TooMuch  == << Sets("pool_max_memory_percent", Whole(3)) >> \o Entries
Negative == << Sets("pool_max_memory_percent", Part(-100)),
               Sets("page_size_goal", Whole(9)), Sets("base_port", Whole(2)) >>

MCLaunches ==
    { [disk |-> <<Nil, Nil, Nil>>, port |-> Nil],
      [disk |-> <<Messy, Nil, Nil>>, port |-> Nil],
      [disk |-> <<Nil, Plain, Messy>>, port |-> 4],
      [disk |-> <<Nil, Nil, TooMuch>>, port |-> Nil],
      [disk |-> <<Negative, Plain, Nil>>, port |-> Nil] }
=============================================================================
