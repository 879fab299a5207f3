---------------------------- MODULE ShardRouting ----------------------------
(***************************************************************************)
(* Requests from the command table to the shard that owns the key.          *)
(* handle_request finds the command, whose handler checks the arguments;    *)
(* SET and GET are forwarded with submit_to unless the connection happens   *)
(* to live on the owner; INFO asks every shard; NODE_INFO tells clients     *)
(* which hashes a shard owns.  A key is its 64-bit hash.  A shard's store   *)
(* is a table that may lose keys; KvStore refines it (see ShardCache).      *)
(***************************************************************************)
EXTENDS Integers, FiniteSets

CONSTANTS Space,      \* the number of hashes, 2^64
          Smp,        \* seastar::smp::count
          First,      \* g_first_data_shard, and 1 or 0 for port_offset
          Conns,      \* the requests in flight
          Requests,   \* what clients send
          Values, Empty, Nil

Hashes == 0..(Space - 1)
Shards == 0..(Smp - 1)
D      == Smp - First          \* the number of data shards
Index  == 0..(D - 1)

shard_for(h) == First + (h * D) \div Space

\* Mutant: the upper end of a range reaches into the next one.
RangeHiOverlap(i) == (Space * (i + 1)) \div D

\* compute_hash_ranges: the range of hashes advertised for shard First + i.
RangeLo(i) == (Space * i) \div D
RangeHi(i) == (Space * (i + 1)) \div D - 1

Advertised(h, i) == RangeLo(i) <= h /\ h <= RangeHi(i)

-----------------------------------------------------------------------------
(* Commands.  A request without arguments, or with the extractor's error in *)
(* their place, counts as an unknown one.  word says of a SET that its       *)
(* fourth argument is EX, and of INFO and NODE_INFO that their second one is *)
(* a keyword they know; num says that the number there (a TTL, a shard) is   *)
(* good.                                                                     *)

Names == {"SET", "GET", "QUIT", "NODE_INFO", "INFO", "unknown"}

Command == [name : Names, argc : Nat, key : Hashes \cup {Empty},
            value : Values \cup {Nil}, word : BOOLEAN, num : BOOLEAN]

ASSUME RoutingAssumption ==
    /\ Space \in Nat \ {0}
    /\ Smp \in Nat /\ First \in Nat /\ First < Smp /\ Smp <= Space
    /\ Nil \notin Values /\ Empty \notin Hashes
    /\ Requests \subseteq Command

SetRejects(r) ==
    \/ r.argc \notin {3, 5}
    \/ r.key = Empty
    \/ r.argc = 5 /\ ~(r.word /\ r.num)

GetRejects(r) == r.argc # 2 \/ r.key = Empty

NodeInfoRejects(r) == r.argc \notin {1, 2} \/ (r.argc = 2 /\ ~r.word /\ ~r.num)

InfoRejects(r) == r.argc > 2 \/ (r.argc = 2 /\ ~r.word)

Rejects(r) ==
    \/ r.name = "unknown"
    \/ r.name = "SET" /\ SetRejects(r)
    \/ r.name = "GET" /\ GetRejects(r)
    \/ r.name = "NODE_INFO" /\ NodeInfoRejects(r)
    \/ r.name = "INFO" /\ InfoRejects(r)

-----------------------------------------------------------------------------
VARIABLES data,    \* the table of each shard
          req,     \* the requests in flight
          latest,  \* history: the last value stored under each key, Nil when
                   \* there is none or a store has lost it
          past,    \* history: the values that the key of each request has had
                   \* since the request came
          kept,    \* history: the keys that were stored all the time since each
                   \* INFO came
          came     \* history: those that were stored at some time since then

vars == <<data, req, latest, past, kept, came>>

Request == [pc : {"handle", "remote", "collect", "answer"}, at : Shards,
            cmd : Command, value : Values \cup {Nil},
            todo : SUBSET Shards, count : Nat]

Init ==
    /\ data = [s \in Shards |-> [h \in Hashes |-> Nil]]
    /\ req = [c \in Conns |-> Nil]
    /\ latest = [h \in Hashes |-> Nil]
    /\ past = [c \in Conns |-> {}]
    /\ kept = [c \in Conns |-> {}] /\ came = [c \in Conns |-> {}]

\* The keys that an INFO finds stored when it comes.
Held(r) == {h \in Hashes : r.name = "INFO" /\ latest[h] # Nil}

\* A connection on any shard delivers a request.
Issue(c) ==
    /\ req[c] = Nil
    /\ \E s \in Shards, r \in Requests :
           /\ req' = [req EXCEPT ![c] = [pc |-> "handle", at |-> s, cmd |-> r,
                          value |-> Nil, todo |-> {}, count |-> 0]]
           /\ past' = [past EXCEPT ![c] = IF r.key = Empty THEN {}
                                          ELSE {latest[r.key]}]
           /\ kept' = [kept EXCEPT ![c] = Held(r)]
           /\ came' = [came EXCEPT ![c] = Held(r)]
    /\ UNCHANGED <<data, latest>>

Handling(c, name) ==
    /\ req[c] # Nil /\ req[c].pc = "handle"
    /\ req[c].cmd.name = name /\ ~Rejects(req[c].cmd)

Answered(c) ==
    /\ req' = [req EXCEPT ![c].pc = "answer"]
    /\ UNCHANGED <<data, latest, past, kept, came>>

\* An error, written by the handler or made of what it throws.
Reject(c) ==
    /\ req[c] # Nil /\ req[c].pc = "handle" /\ Rejects(req[c].cmd)
    /\ Answered(c)

Quit(c) == Handling(c, "QUIT") /\ Answered(c)

NodeInfo(c) == Handling(c, "NODE_INFO") /\ Answered(c)

\* The table of shard s has v under h now.
Stored(s, h, v) ==
    /\ data' = [data EXCEPT ![s][h] = v]
    /\ latest' = [latest EXCEPT ![h] = v]
    /\ past' = [c \in Conns |-> IF req[c] # Nil /\ req[c].cmd.key = h
                                THEN past[c] \cup {v} ELSE past[c]]
    /\ kept' = [c \in Conns |-> IF v = Nil THEN kept[c] \ {h} ELSE kept[c]]
    /\ came' = [c \in Conns |->
                   IF v # Nil /\ req[c] # Nil /\ req[c].cmd.name = "INFO"
                   THEN came[c] \cup {h} ELSE came[c]]

\* local_set or local_get on shard s.
ExecuteAt(c, s) ==
    LET r == req[c].cmd IN
    \/ /\ r.name = "SET"
       /\ Stored(s, r.key, r.value)
       /\ req' = [req EXCEPT ![c].pc = "answer"]
    \/ /\ r.name = "GET"
       /\ req' = [req EXCEPT ![c].pc = "answer", ![c].value = data[s][r.key]]
       /\ UNCHANGED <<data, latest, past, kept, came>>

HandlingKey(c) == Handling(c, "SET") \/ Handling(c, "GET")

\* The handler runs on the connection's shard, which owns the key.
Local(c) ==
    /\ HandlingKey(c)
    /\ shard_for(req[c].cmd.key) = req[c].at
    /\ ExecuteAt(c, req[c].at)

\* It does not: smp::submit_to(shard_for(key)).
Forward(c) ==
    /\ HandlingKey(c)
    /\ shard_for(req[c].cmd.key) # req[c].at
    /\ req' = [req EXCEPT ![c].pc = "remote"]
    /\ UNCHANGED <<data, latest, past, kept, came>>

\* Mutant: the forwarded request runs on the connection's own shard.
RemoteStays(c) ==
    /\ req[c] # Nil /\ req[c].pc = "remote"
    /\ ExecuteAt(c, req[c].at)

\* Mutant: what was forwarded may be run more than once.
RemoteRepeats(c) ==
    /\ req[c] # Nil /\ req[c].pc = "remote"
    /\ \/ ExecuteAt(c, shard_for(req[c].cmd.key))
       \/ /\ req[c].cmd.name = "SET" /\ UNCHANGED req
          /\ Stored(shard_for(req[c].cmd.key), req[c].cmd.key, req[c].cmd.value)

Remote(c) ==
    /\ req[c] # Nil /\ req[c].pc = "remote"
    /\ ExecuteAt(c, shard_for(req[c].cmd.key))

\* INFO asks all shards at once.
Info(c) ==
    /\ Handling(c, "INFO")
    /\ req' = [req EXCEPT ![c].pc = "collect", ![c].todo = Shards]
    /\ UNCHANGED <<data, latest, past, kept, came>>

KeysAt(s) == {h \in Hashes : data[s][h] # Nil}

\* Mutant: the same shard may be asked again.
CollectAgain(c, s) ==
    /\ req[c] # Nil /\ req[c].pc = "collect" /\ s \in req[c].todo
    /\ \E t \in {req[c].todo, req[c].todo \ {s}} :
           req' = [req EXCEPT ![c].todo = t, ![c].count = @ + Cardinality(KeysAt(s))]
    /\ UNCHANGED <<data, latest, past, kept, came>>

\* collect_statistics on shard s: its number of keys is added up.
Collect(c, s) ==
    /\ req[c] # Nil /\ req[c].pc = "collect" /\ s \in req[c].todo
    /\ req' = [req EXCEPT ![c].todo = @ \ {s},
                          ![c].count = @ + Cardinality(KeysAt(s))]
    /\ UNCHANGED <<data, latest, past, kept, came>>

\* when_all_succeed.
Collected(c) ==
    /\ req[c] # Nil /\ req[c].pc = "collect" /\ req[c].todo = {}
    /\ Answered(c)

Answer(c) ==
    /\ req[c] # Nil /\ req[c].pc = "answer"
    /\ req' = [req EXCEPT ![c] = Nil]
    /\ past' = [past EXCEPT ![c] = {}]
    /\ kept' = [kept EXCEPT ![c] = {}]
    /\ came' = [came EXCEPT ![c] = {}]
    /\ UNCHANGED <<data, latest>>

\* A store evicts or expires a key.
Lose(s, h) == data[s][h] # Nil /\ Stored(s, h, Nil) /\ UNCHANGED req

Next ==
    \/ \E c \in Conns :
           \/ Issue(c) \/ Reject(c) \/ Quit(c) \/ NodeInfo(c)
           \/ Local(c) \/ Forward(c) \/ Remote(c)
           \/ Info(c) \/ Collected(c) \/ Answer(c)
           \/ \E s \in Shards : Collect(c, s)
    \/ \E s \in Shards, h \in Hashes : Lose(s, h)

Spec == Init /\ [][Next]_vars

-----------------------------------------------------------------------------
(* Properties.                                                               *)

\* Every variable keeps its type.
TypeOK ==
    /\ data \in [Shards -> [Hashes -> Values \cup {Nil}]]
    /\ req \in [Conns -> Request \cup {Nil}]
    /\ latest \in [Hashes -> Values \cup {Nil}]
    /\ past \in [Conns -> SUBSET (Values \cup {Nil})]
    /\ kept \in [Conns -> SUBSET Hashes] /\ came \in [Conns -> SUBSET Hashes]

\* The share-nothing rule: whichever shard a request arrives on, a key is only
\* ever stored on the shard that shard_for names, so all shards together hold
\* one table.
OneTable ==
    \A s \in Shards, h \in Hashes :
        data[s][h] = IF s = shard_for(h) THEN latest[h] ELSE Nil

\* What a command is to the service as a whole.
Kind(r) == IF Rejects(r) \/ r.name \notin {"SET", "GET"} THEN "other"
           ELSE IF r.name = "SET" THEN "set" ELSE "get"

Meaning(r) ==
    [kind |-> Kind(r), key |-> IF r.key = Empty THEN Nil ELSE r.key, value |-> r.value]

Whole == INSTANCE Service WITH
    Keys <- Hashes, Callers <- Conns,
    table <- [h \in Hashes |-> data[shard_for(h)][h]],
    call <- [c \in Conns |-> IF req[c] = Nil THEN Nil ELSE Meaning(req[c].cmd)],
    done <- [c \in Conns |-> req[c] # Nil /\ req[c].pc = "answer"],
    result <- [c \in Conns |-> IF req[c] = Nil THEN Nil ELSE req[c].value]

\* Nil stands for no request and no command.
ASSUME AbsentAssumption == Nil \notin Request /\ Nil \notin Whole!Command

\* The shards together are one table: wherever a request arrives and however long
\* it is on its way to the key's shard, it takes effect there at once and once, and
\* a GET answers what that one table has (see Service).
ImplementsService == Whole!Spec

\* Forwarding keeps reads coherent: what a GET answers is a value that the key
\* had, on whichever shard, at some time between request and answer.
ReadsCoherent ==
    \A c \in Conns :
        req[c] # Nil /\ req[c].pc = "answer" /\ req[c].cmd.name = "GET"
            /\ ~Rejects(req[c].cmd) => req[c].value \in past[c]

\* The hashes of the shards that have answered the INFO of c.
Reported(c) == {h \in Hashes : shard_for(h) \notin req[c].todo}

\* INFO adds up numbers that the shards report at different times, while SETs and
\* evictions go on, so its count need not be the size of the table at any one time.
\* It is still bounded by what the table had since the request: a key that was there
\* all the time is counted, one that never was is not, and none is counted twice.
InfoCountsOnce ==
    \A c \in Conns :
        req[c] # Nil /\ req[c].cmd.name = "INFO" /\ req[c].pc # "handle"
            /\ ~Rejects(req[c].cmd) =>
        /\ Cardinality(Reported(c) \cap kept[c]) <= req[c].count
        /\ req[c].count <= Cardinality(Reported(c) \cap came[c])

\* What a client learns from NODE_INFO names one shard for every key: the key of
\* each request is in the range of exactly one.
RangesTile ==
    \A c \in Conns : req[c] # Nil /\ req[c].cmd.key # Empty =>
        \E i \in Index : \A j \in Index : Advertised(req[c].cmd.key, j) <=> j = i

\* docs/commands.md calls lo and hi the inclusive boundaries of a range and
\* docs/connection_model.md calls it the range owned by the shard: a key that a shard
\* holds is in the range advertised for that shard.
RangesOwned ==
    \A i \in Index, h \in Hashes : data[First + i][h] # Nil => Advertised(h, i)
=============================================================================
