-------------------------- MODULE ShardRoutingProofs --------------------------
(***************************************************************************)
(* Routing for every size of the hash space and every number of shards.     *)
(***************************************************************************)
EXTENDS ShardRouting, FiniteSetTheorems, TLAPS

\* Integer division is bounded by its products.
LEMMA DivFacts ==
    ASSUME NEW a \in Nat, NEW b \in Nat \ {0}, NEW c \in Nat
    PROVE  /\ a \div b \in Nat
           /\ c <= a \div b <=> c * b <= a
           /\ a \div b < c <=> a < c * b
<1> DEFINE q == a \div b
           r == a % b
<1>1. q \in Int /\ r \in 0..(b - 1) /\ a = b * q + r
  OBVIOUS
<1> HIDE DEF q, r
<1>2. q \in Nat
  <2> SUFFICES ASSUME q <= -1 PROVE FALSE
    BY <1>1
  <2>1. b * q <= -b
    BY <1>1
  <2> QED
    BY <1>1, <2>1
<1>3. c <= q => c * b <= a
  <2> SUFFICES ASSUME c <= q PROVE c * b <= a
    OBVIOUS
  <2>1. q - c \in Nat /\ b * q = b * c + b * (q - c)
    BY <1>2
  <2>2. b * (q - c) \in Nat
    BY <2>1
  <2> QED
    BY <1>1, <1>2, <2>1, <2>2
<1>4. q < c => a < c * b
  <2> SUFFICES ASSUME q < c PROVE a < c * b
    OBVIOUS
  <2>1. c - q - 1 \in Nat /\ b * c = b * q + b + b * (c - q - 1)
    BY <1>2
  <2>2. b * (c - q - 1) \in Nat
    BY <2>1
  <2> QED
    BY <1>1, <1>2, <2>1, <2>2
<1>5. c * b \in Nat
  OBVIOUS
<1> QED
  BY <1>2, <1>3, <1>4, <1>5 DEF q

\* shard_for names a data shard: the index j with j/D <= h/Space < (j+1)/D.
LEMMA OwnerFacts ==
    ASSUME NEW h \in Hashes
    PROVE  /\ D \in Nat \ {0} /\ Space \in Nat \ {0} /\ D <= Space
           /\ shard_for(h) \in Shards
           /\ \E j \in Index : /\ shard_for(h) = First + j
                               /\ j * Space <= h * D /\ h * D < (j + 1) * Space
<1> DEFINE j == (h * D) \div Space
<1>1. /\ D \in Nat \ {0} /\ Space \in Nat \ {0} /\ D <= Space /\ First + D = Smp
      /\ First \in Nat
  BY RoutingAssumption DEF D
<1>2. h \in Nat /\ Space - 1 - h \in Nat
  BY <1>1 DEF Hashes
<1>3. h * D \in Nat /\ D * Space \in Nat /\ h * D < D * Space
  <2> DEFINE d == Space - h
  <2> HIDE DEF D
  <2>1. d \in Nat \ {0} /\ Space = h + d
    BY <1>1, <1>2
  <2> HIDE DEF d
  <2>2. D * Space = h * D + D * d
    BY <1>1, <1>2, <2>1
  <2>3. D * d \in Nat \ {0} /\ h * D \in Nat
    BY <1>1, <1>2, <2>1
  <2> QED
    BY <2>2, <2>3
<1> HIDE DEF D
<1>4. j \in Nat
  BY <1>1, <1>3, DivFacts
<1>5. j < D
  BY <1>1, <1>3, DivFacts
<1>6. j * Space <= h * D
  <2>1. j <= j
    BY <1>4
  <2> QED
    BY <1>1, <1>3, <1>4, <2>1, DivFacts
<1>7. h * D < (j + 1) * Space
  <2>1. j + 1 \in Nat /\ j < j + 1
    BY <1>4
  <2> QED
    BY <1>1, <1>3, <2>1, DivFacts
<1> HIDE DEF j
<1>8. shard_for(h) = First + j
  BY DEF shard_for, j
<1>9. j \in Index /\ First + j \in Shards
  BY <1>1, <1>4, <1>5 DEF Index, Shards
<1> QED
  BY <1>1, <1>6, <1>7, <1>8, <1>9

\* What it takes for compute_hash_ranges to advertise a hash in range i.
LEMMA AdvertisedFacts ==
    ASSUME NEW h \in Nat, NEW i \in Nat, D \in Nat \ {0}, Space \in Nat \ {0}
    PROVE  /\ Advertised(h, i) <=> /\ Space * i < (h + 1) * D
                                   /\ (h + 1) * D <= Space * (i + 1)
           /\ h <= RangeLo(i) <=> h * D <= Space * i
           /\ RangeLo(i) \in Nat
<1> USE DEF RangeLo, RangeHi
<1> HIDE DEF D
<1>1. Space * i \in Nat /\ Space * (i + 1) \in Nat /\ h + 1 \in Nat
  OBVIOUS
<1>2. /\ RangeLo(i) \in Nat
      /\ RangeLo(i) < h + 1 <=> Space * i < (h + 1) * D
      /\ h <= RangeLo(i) <=> h * D <= Space * i
  BY <1>1, DivFacts
<1>3. /\ (Space * (i + 1)) \div D \in Nat
      /\ h + 1 <= (Space * (i + 1)) \div D <=> (h + 1) * D <= Space * (i + 1)
  BY <1>1, DivFacts
<1>4. RangeLo(i) <= h <=> RangeLo(i) < h + 1
  BY <1>2
<1>5. h <= RangeHi(i) <=> h + 1 <= (Space * (i + 1)) \div D
  BY <1>3
<1> QED
  BY <1>2, <1>3, <1>4, <1>5 DEF Advertised

\* The ranges tile the hash space, and the range that a hash is advertised in is
\* its owner's, or the one behind it when the hash is the first of the range.
LEMMA RangeOfHash ==
    ASSUME NEW h \in Hashes
    PROVE  \E i \in Index :
               /\ Advertised(h, i)
               /\ \A k \in Index : Advertised(h, k) => k = i
               /\ \/ shard_for(h) = First + i
                  \/ shard_for(h) = First + i - 1 /\ h = RangeLo(i)
<1> HIDE DEF D
<1>1. PICK j \in Index : /\ shard_for(h) = First + j
                         /\ j * Space <= h * D /\ h * D < (j + 1) * Space
  BY OwnerFacts
<1>2. /\ D \in Nat \ {0} /\ Space \in Nat \ {0} /\ D <= Space /\ First \in Nat
      /\ h \in Nat /\ h + 1 <= Space /\ j \in Nat /\ j < D
  BY OwnerFacts, RoutingAssumption DEF Hashes, Index
<1> DEFINE a == (h + 1) * D
<1>3. a \in Nat /\ a = h * D + D /\ h * D \in Nat
  BY <1>2
<1>4. a <= D * Space
  <2> DEFINE d == Space - (h + 1)
  <2>1. d \in Nat /\ Space = h + 1 + d
    BY <1>2
  <2> HIDE DEF d
  <2>2. D * Space = (h + 1) * D + D * d /\ D * d \in Nat
    BY <1>2, <2>1
  <2> QED
    BY <1>3, <2>2
<1> HIDE DEF a
<1>5. \A k \in Nat : Advertised(h, k) <=> Space * k < a /\ a <= Space * (k + 1)
  BY <1>2, AdvertisedFacts DEF a
<1>6. ASSUME NEW i \in Index, NEW k \in Index, Advertised(h, i), Advertised(h, k), i < k
      PROVE  FALSE
  <2>1. i \in Nat /\ k \in Nat /\ k - i - 1 \in Nat
    BY <1>2, <1>6 DEF Index
  <2>2. a <= Space * (i + 1) /\ Space * k < a
    BY <1>5, <1>6, <2>1
  <2>3. Space * k = Space * (i + 1) + Space * (k - i - 1)
    BY <1>2, <2>1
  <2>4. Space * (k - i - 1) \in Nat /\ Space * (i + 1) \in Nat
    BY <1>2, <2>1
  <2> QED
    BY <1>3, <2>2, <2>3, <2>4
<1>7. ASSUME NEW i \in Index, Advertised(h, i)
      PROVE  \A k \in Index : Advertised(h, k) => k = i
  <2> SUFFICES ASSUME NEW k \in Index, Advertised(h, k), k # i PROVE FALSE
    OBVIOUS
  <2>1. i < k \/ k < i
    BY <1>2 DEF Index
  <2> QED
    BY <1>6, <1>7, <2>1
<1>8. CASE a <= Space * (j + 1)
  <2>1. Space * j < a
    BY <1>1, <1>2, <1>3
  <2>2. Advertised(h, j)
    BY <1>2, <1>5, <1>8, <2>1
  <2> QED
    BY <1>1, <1>7, <2>2
<1>9. CASE Space * (j + 1) < a
  <2> DEFINE i == j + 1
  <2>1. i \in Nat /\ Space * (i + 1) = Space * i + Space /\ Space * i \in Nat
        /\ (j + 1) * Space = Space * i
    BY <1>2
  <2>2. Advertised(h, i)
    BY <1>1, <1>2, <1>3, <1>5, <1>9, <2>1
  <2>3. i \in Index
    <3>1. j + 1 # D
      <4> SUFFICES ASSUME j + 1 = D PROVE FALSE
        OBVIOUS
      <4>1. Space * (j + 1) = D * Space /\ D * Space \in Nat
        BY <1>2
      <4> QED
        BY <1>3, <1>4, <1>9, <4>1
    <3> QED
      BY <1>2, <3>1 DEF Index
  <2>4. h = RangeLo(i)
    <3>1. h * D <= Space * i
      BY <1>1, <1>3, <2>1
    <3> HIDE DEF i
    <3>2. h <= RangeLo(i) /\ RangeLo(i) \in Nat
      BY <1>2, <2>1, <3>1, AdvertisedFacts
    <3>3. RangeLo(i) <= h
      BY <2>2 DEF Advertised
    <3> QED
      BY <1>2, <3>2, <3>3
  <2>5. shard_for(h) = First + i - 1
    BY <1>1, <1>2
  <2> QED
    BY <1>7, <2>2, <2>3, <2>4, <2>5
<1> QED
  <2>1. Space * (j + 1) \in Nat
    BY <1>2
  <2> QED
    BY <1>3, <1>8, <1>9, <2>1

-----------------------------------------------------------------------------
(* Requests.                                                                 *)

\* What a request in flight relies on.
InFlight(c) ==
    /\ req[c].cmd.key # Empty => latest[req[c].cmd.key] \in past[c]
    /\ req[c].pc = "handle" => req[c].count = 0
    /\ req[c].pc = "remote" => /\ req[c].cmd.name \in {"SET", "GET"}
                               /\ req[c].cmd.key # Empty
    /\ req[c].pc = "collect" => req[c].cmd.name = "INFO"

InFlightOK == \A c \in Conns : req[c] # Nil => InFlight(c)

\* The properties that are inductive together.
IInv == TypeOK /\ OneTable /\ InFlightOK /\ ReadsCoherent

\* A key that gets a value on its owner, or loses it.
LEMMA StoredPreserves ==
    ASSUME IInv, NEW h \in Hashes, NEW v \in Values \cup {Nil},
           Stored(shard_for(h), h, v)
    PROVE  /\ data' \in [Shards -> [Hashes -> Values \cup {Nil}]]
           /\ latest' \in [Hashes -> Values \cup {Nil}]
           /\ past' \in [Conns -> SUBSET (Values \cup {Nil})]
           /\ kept' \in [Conns -> SUBSET Hashes] /\ came' \in [Conns -> SUBSET Hashes]
           /\ OneTable'
           /\ \A c \in Conns : past[c] \subseteq past'[c]
           /\ \A c \in Conns : req[c] # Nil /\ req[c].cmd.key # Empty
                                   => latest'[req[c].cmd.key] \in past'[c]
<1> DEFINE s == shard_for(h)
<1>1. s \in Shards
  BY OwnerFacts
<1> HIDE DEF s
<1>2. /\ data' = [data EXCEPT ![s][h] = v]
      /\ latest' = [latest EXCEPT ![h] = v]
      /\ past' = [c \in Conns |-> IF req[c] # Nil /\ req[c].cmd.key = h
                                  THEN past[c] \cup {v} ELSE past[c]]
  BY DEF Stored, s
<1>3. /\ data' \in [Shards -> [Hashes -> Values \cup {Nil}]]
      /\ latest' \in [Hashes -> Values \cup {Nil}]
      /\ past' \in [Conns -> SUBSET (Values \cup {Nil})]
      /\ kept' \in [Conns -> SUBSET Hashes] /\ came' \in [Conns -> SUBSET Hashes]
  <2>1. /\ kept' = [c \in Conns |-> IF v = Nil THEN kept[c] \ {h} ELSE kept[c]]
        /\ came' = [c \in Conns |->
                       IF v # Nil /\ req[c] # Nil /\ req[c].cmd.name = "INFO"
                       THEN came[c] \cup {h} ELSE came[c]]
    BY DEF Stored
  <2>2. kept' \in [Conns -> SUBSET Hashes] /\ came' \in [Conns -> SUBSET Hashes]
    BY <2>1 DEF IInv, TypeOK
  <2> QED
    BY <1>1, <1>2, <2>2 DEF IInv, TypeOK
<1>4. OneTable'
  <2> SUFFICES ASSUME NEW t \in Shards, NEW g \in Hashes
               PROVE  data'[t][g] = IF t = shard_for(g) THEN latest'[g] ELSE Nil
    BY DEF OneTable
  <2>1. data[t][g] = IF t = shard_for(g) THEN latest[g] ELSE Nil
    BY DEF IInv, OneTable
  <2>2. CASE g = h /\ t = s
    BY <1>1, <1>2, <2>2 DEF IInv, TypeOK, s
  <2>3. CASE g = h /\ t # s
    BY <1>1, <1>2, <2>1, <2>3 DEF IInv, TypeOK, s
  <2>4. CASE g # h
    BY <1>1, <1>2, <2>1, <2>4 DEF IInv, TypeOK
  <2> QED
    BY <2>2, <2>3, <2>4
<1>5. \A c \in Conns : past[c] \subseteq past'[c]
  BY <1>2
<1>6. ASSUME NEW c \in Conns, req[c] # Nil, req[c].cmd.key # Empty
      PROVE  latest'[req[c].cmd.key] \in past'[c]
  <2>1. req[c].cmd.key \in Hashes
    BY <1>6 DEF IInv, TypeOK, Request, Command
  <2>2. latest[req[c].cmd.key] \in past[c]
    BY <1>6 DEF IInv, InFlightOK, InFlight
  <2> QED
    BY <1>2, <1>6, <2>1, <2>2 DEF IInv, TypeOK
<1> QED
  BY <1>3, <1>4, <1>5, <1>6

\* A step that changes nothing but the request c, which becomes r.
LEMMA RequestPreserves ==
    ASSUME IInv, NEW c \in Conns, NEW r \in Request,
           req' = [req EXCEPT ![c] = r], UNCHANGED <<data, latest, past, kept, came>>,
           req[c] # Nil, r.cmd = req[c].cmd,
           r.pc # "handle",
           r.pc = "remote" => r.cmd.name \in {"SET", "GET"} /\ r.cmd.key # Empty,
           r.pc = "collect" => r.cmd.name = "INFO",
           r.pc = "answer" /\ r.cmd.name = "GET" /\ ~Rejects(r.cmd) => r.value \in past[c]
    PROVE  IInv'
<1>1. /\ req'[c] = r
      /\ \A d \in Conns : d # c => req'[d] = req[d]
  BY DEF IInv, TypeOK
<1>2. TypeOK'
  BY DEF IInv, TypeOK
<1>3. OneTable'
  BY DEF IInv, OneTable
<1>4. InFlightOK'
  BY <1>1 DEF IInv, InFlightOK, InFlight
<1>5. ReadsCoherent'
  BY <1>1 DEF IInv, ReadsCoherent
<1> QED
  BY <1>2, <1>3, <1>4, <1>5 DEF IInv

\* local_set or local_get on the owner of the key.
LEMMA ExecutePreserves ==
    ASSUME IInv, NEW c \in Conns, req[c] # Nil, req[c].cmd.key # Empty,
           ExecuteAt(c, shard_for(req[c].cmd.key))
    PROVE  IInv'
<1> DEFINE h == req[c].cmd.key
<1>1. req[c] \in Request /\ h \in Hashes /\ req[c].cmd.value \in Values \cup {Nil}
  BY DEF IInv, TypeOK, Request, Command
<1>2. shard_for(h) \in Shards
  BY <1>1, OwnerFacts
<1>3. CASE /\ req[c].cmd.name = "SET" /\ Stored(shard_for(h), h, req[c].cmd.value)
           /\ req' = [req EXCEPT ![c].pc = "answer"]
  <2>1. /\ data' \in [Shards -> [Hashes -> Values \cup {Nil}]]
        /\ latest' \in [Hashes -> Values \cup {Nil}]
        /\ past' \in [Conns -> SUBSET (Values \cup {Nil})]
        /\ kept' \in [Conns -> SUBSET Hashes] /\ came' \in [Conns -> SUBSET Hashes]
        /\ OneTable'
        /\ \A d \in Conns : past[d] \subseteq past'[d]
        /\ \A d \in Conns : req[d] # Nil /\ req[d].cmd.key # Empty
                                => latest'[req[d].cmd.key] \in past'[d]
    BY <1>1, <1>3, StoredPreserves
  <2>2. /\ req'[c] = [req[c] EXCEPT !.pc = "answer"]
        /\ \A d \in Conns : d # c => req'[d] = req[d]
    BY <1>3 DEF IInv, TypeOK
  <2>3. req' \in [Conns -> Request \cup {Nil}]
    BY <1>1, <1>3 DEF IInv, TypeOK, Request
  <2>4. /\ req'[c].cmd = req[c].cmd /\ req'[c].pc = "answer"
    BY <1>1, <2>2 DEF Request
  <2>5. InFlightOK'
    <3>1. ASSUME NEW d \in Conns, d # c, req'[d] # Nil PROVE InFlight(d)'
      <4>1. req'[d] = req[d] /\ req[d] # Nil
        BY Zenon, <2>2, <3>1
      <4>2. InFlight(d)
        BY Zenon, <4>1 DEF IInv, InFlightOK
      <4> QED
        BY Zenon, <2>1, <4>1, <4>2 DEF InFlight
    <3>2. InFlight(c)'
      BY Zenon, <2>1, <2>4 DEF InFlight
    <3> QED
      BY Zenon, <3>1, <3>2 DEF InFlightOK
  <2>6. ReadsCoherent'
    BY <1>3, <2>1, <2>2, <2>4 DEF IInv, ReadsCoherent
  <2> QED
    BY <2>1, <2>3, <2>5, <2>6 DEF IInv, TypeOK
<1>4. CASE /\ req[c].cmd.name = "GET" /\ UNCHANGED <<data, latest, past, kept, came>>
           /\ req' = [req EXCEPT ![c].pc = "answer", ![c].value = data[shard_for(h)][h]]
  <2> DEFINE r == [req[c] EXCEPT !.pc = "answer", !.value = data[shard_for(h)][h]]
  <2>1. data[shard_for(h)][h] = latest[h] /\ latest[h] \in Values \cup {Nil}
    BY <1>1, <1>2 DEF IInv, TypeOK, OneTable
  <2>2. latest[h] \in past[c]
    BY DEF IInv, InFlightOK, InFlight
  <2>3. /\ r \in Request /\ r.cmd = req[c].cmd /\ r.pc = "answer"
        /\ r.value = latest[h]
    BY Zenon, <1>1, <2>1 DEF Request
  <2>4. req' = [req EXCEPT ![c] = r]
    BY Zenon, <1>4
  <2> HIDE DEF r
  <2> QED
    BY Zenon, <1>4, <2>2, <2>3, <2>4, RequestPreserves
<1> QED
  BY <1>3, <1>4 DEF ExecuteAt

\* A request comes.
LEMMA IssuePreserves ==
    ASSUME IInv, NEW c \in Conns, Issue(c) PROVE IInv'
<1>1. PICK s \in Shards, q \in Requests :
          /\ req' = [req EXCEPT ![c] = [pc |-> "handle", at |-> s, cmd |-> q,
                         value |-> Nil, todo |-> {}, count |-> 0]]
          /\ past' = [past EXCEPT ![c] = IF q.key = Empty THEN {} ELSE {latest[q.key]}]
          /\ kept' = [kept EXCEPT ![c] = Held(q)] /\ came' = [came EXCEPT ![c] = Held(q)]
          /\ UNCHANGED <<data, latest>>
  BY Zenon DEF Issue
<1> DEFINE r == [pc |-> "handle", at |-> s, cmd |-> q,
                 value |-> Nil, todo |-> {}, count |-> 0]
<1>2. q \in Command
  BY RoutingAssumption
<1>3. r \in Request /\ r.pc = "handle" /\ r.cmd = q /\ r.count = 0
  BY <1>2 DEF Request
<1>4. /\ req' = [req EXCEPT ![c] = r] /\ req'[c] = r
      /\ \A d \in Conns : d # c => req'[d] = req[d] /\ past'[d] = past[d]
      /\ past'[c] = IF q.key = Empty THEN {} ELSE {latest[q.key]}
  BY <1>1 DEF IInv, TypeOK
<1> HIDE DEF r
<1>5. q.key # Empty => latest[q.key] \in Values \cup {Nil}
  BY <1>2 DEF Command, IInv, TypeOK
<1>6. TypeOK'
  <2>1. req' \in [Conns -> Request \cup {Nil}]
    BY <1>3, <1>4 DEF IInv, TypeOK
  <2>2. past' \in [Conns -> SUBSET (Values \cup {Nil})]
    BY <1>1, <1>5 DEF IInv, TypeOK
  <2>3. kept' \in [Conns -> SUBSET Hashes] /\ came' \in [Conns -> SUBSET Hashes]
    BY <1>1 DEF IInv, TypeOK, Held
  <2> QED
    BY <1>1, <2>1, <2>2, <2>3 DEF IInv, TypeOK
<1>7. OneTable'
  BY <1>1 DEF IInv, OneTable
<1>8. InFlightOK'
  BY <1>1, <1>3, <1>4 DEF IInv, InFlightOK, InFlight
<1>9. ReadsCoherent'
  BY <1>3, <1>4 DEF IInv, ReadsCoherent
<1> QED
  BY <1>6, <1>7, <1>8, <1>9 DEF IInv

\* An answer goes out.
LEMMA AnswerPreserves ==
    ASSUME IInv, NEW c \in Conns, Answer(c) PROVE IInv'
<1>1. /\ req'[c] = Nil
      /\ \A d \in Conns : d # c => req'[d] = req[d] /\ past'[d] = past[d]
      /\ UNCHANGED <<data, latest>>
  BY DEF Answer, IInv, TypeOK
<1>2. TypeOK'
  BY DEF Answer, IInv, TypeOK
<1>3. OneTable' /\ InFlightOK'
  BY <1>1 DEF IInv, OneTable, InFlightOK, InFlight
<1>4. ReadsCoherent'
  BY <1>1 DEF IInv, ReadsCoherent
<1> QED
  BY <1>2, <1>3, <1>4 DEF IInv

\* A store loses a key.
LEMMA LosePreserves ==
    ASSUME IInv, NEW s \in Shards, NEW h \in Hashes, Lose(s, h) PROVE IInv'
<1>1. s = shard_for(h)
  BY DEF Lose, IInv, OneTable
<1>2. Stored(shard_for(h), h, Nil) /\ req' = req
  BY <1>1 DEF Lose
<1>3. /\ data' \in [Shards -> [Hashes -> Values \cup {Nil}]]
      /\ latest' \in [Hashes -> Values \cup {Nil}]
      /\ past' \in [Conns -> SUBSET (Values \cup {Nil})]
      /\ kept' \in [Conns -> SUBSET Hashes] /\ came' \in [Conns -> SUBSET Hashes]
      /\ OneTable'
      /\ \A c \in Conns : past[c] \subseteq past'[c]
      /\ \A c \in Conns : req[c] # Nil /\ req[c].cmd.key # Empty
                              => latest'[req[c].cmd.key] \in past'[c]
  BY <1>2, StoredPreserves
<1>4. TypeOK' /\ InFlightOK'
  BY Zenon, <1>2, <1>3 DEF IInv, TypeOK, InFlightOK, InFlight
<1>5. ReadsCoherent'
  BY <1>2, <1>3 DEF IInv, ReadsCoherent
<1> QED
  BY <1>3, <1>4, <1>5 DEF IInv

\* The handlers, up to the point where they wait or answer.
LEMMA HandlerPreserves ==
    ASSUME IInv, NEW c \in Conns,
           Reject(c) \/ Quit(c) \/ NodeInfo(c) \/ Forward(c) \/ Info(c)
    PROVE  IInv'
<1>1. req[c] # Nil /\ req[c].pc = "handle"
  BY DEF Reject, Quit, NodeInfo, Forward, Info, HandlingKey, Handling
<1>2. req[c] \in Request /\ req[c].count = 0
  BY <1>1 DEF IInv, TypeOK, InFlightOK, InFlight
<1>3. CASE Reject(c) \/ Quit(c) \/ NodeInfo(c)
  <2> DEFINE r == [req[c] EXCEPT !.pc = "answer"]
  <2>1. /\ req' = [req EXCEPT ![c] = r] /\ UNCHANGED <<data, latest, past, kept, came>>
        /\ req[c].cmd.name = "GET" => Rejects(req[c].cmd)
    BY <1>3 DEF Reject, Quit, NodeInfo, Answered, Handling
  <2>2. r \in Request /\ r.cmd = req[c].cmd /\ r.pc = "answer" /\ r.count = 0
    BY <1>2 DEF Request
  <2> HIDE DEF r
  <2> QED
    BY Zenon, <1>1, <2>1, <2>2, RequestPreserves
<1>4. CASE Forward(c)
  <2> DEFINE r == [req[c] EXCEPT !.pc = "remote"]
  <2>1. /\ req' = [req EXCEPT ![c] = r] /\ UNCHANGED <<data, latest, past, kept, came>>
        /\ req[c].cmd.name \in {"SET", "GET"} /\ req[c].cmd.key # Empty
    BY Zenon, <1>4 DEF Forward, HandlingKey, Handling, Rejects, SetRejects, GetRejects
  <2>2. r \in Request /\ r.cmd = req[c].cmd /\ r.pc = "remote" /\ r.count = 0
    BY <1>2 DEF Request
  <2> HIDE DEF r
  <2> QED
    BY Zenon, <1>1, <2>1, <2>2, RequestPreserves
<1>5. CASE Info(c)
  <2> DEFINE r == [req[c] EXCEPT !.pc = "collect", !.todo = Shards]
  <2>1. /\ req' = [req EXCEPT ![c] = r] /\ UNCHANGED <<data, latest, past, kept, came>>
        /\ req[c].cmd.name = "INFO"
    BY Zenon, <1>5 DEF Info, Handling
  <2>2. r \in Request /\ r.cmd = req[c].cmd /\ r.pc = "collect" /\ r.count = 0
    BY Zenon, <1>2 DEF Request
  <2> HIDE DEF r
  <2> QED
    BY Zenon, <1>1, <2>1, <2>2, RequestPreserves
<1> QED
  BY <1>3, <1>4, <1>5

\* A number of keys is a number.
LEMMA HashSets ==
    ASSUME NEW A \in SUBSET Hashes, NEW B \in SUBSET A
    PROVE  /\ IsFiniteSet(A) /\ IsFiniteSet(B)
           /\ Cardinality(A) \in Nat /\ Cardinality(B) \in Nat
           /\ Cardinality(B) <= Cardinality(A)
<1>1. IsFiniteSet(Hashes)
  BY RoutingAssumption, FS_Interval DEF Hashes
<1>2. IsFiniteSet(A)
  BY <1>1, FS_Subset
<1> QED
  BY <1>2, FS_Subset, FS_CardinalityType

\* INFO hears from a shard.
LEMMA CollectPreserves ==
    ASSUME IInv, NEW c \in Conns, NEW s \in Shards, Collect(c, s) PROVE IInv'
<1> DEFINE q == req[c]
           t == q.todo \ {s}
           n == q.count + Cardinality(KeysAt(s))
           r == [q EXCEPT !.todo = t, !.count = n]
<1>1. q # Nil /\ q \in Request /\ q.pc = "collect" /\ s \in q.todo
  BY DEF Collect, IInv, TypeOK
<1>2. t \in SUBSET Shards /\ n \in Nat
  <2>1. q.todo \in SUBSET Shards /\ q.count \in Nat
    BY <1>1 DEF Request
  <2>2. KeysAt(s) \in SUBSET Hashes
    BY DEF KeysAt
  <2>3. Cardinality(KeysAt(s)) \in Nat
    BY <2>2, HashSets
  <2> QED
    BY <2>1, <2>3
<1>3. q.cmd.name = "INFO"
  BY <1>1 DEF IInv, InFlightOK, InFlight
<1>4. req' = [req EXCEPT ![c] = r] /\ UNCHANGED <<data, latest, past, kept, came>>
  BY Zenon DEF Collect
<1> HIDE DEF t, n
<1>5. r \in Request /\ r.cmd = q.cmd /\ r.pc = "collect"
  BY Zenon, <1>1, <1>2 DEF Request
<1> HIDE DEF r
<1> QED
  BY Zenon, <1>1, <1>3, <1>4, <1>5, RequestPreserves

\* The end of INFO.
LEMMA CollectedPreserves ==
    ASSUME IInv, NEW c \in Conns, Collected(c) PROVE IInv'
<1> DEFINE r == [req[c] EXCEPT !.pc = "answer"]
<1>1. req[c] # Nil /\ req[c] \in Request /\ req[c].pc = "collect"
  BY DEF Collected, IInv, TypeOK
<1>2. r \in Request /\ r.cmd = req[c].cmd /\ r.pc = "answer"
  BY <1>1 DEF Request
<1>3. req' = [req EXCEPT ![c] = r] /\ UNCHANGED <<data, latest, past, kept, came>>
  BY DEF Collected, Answered
<1>4. req[c].cmd.name = "INFO"
  BY <1>1 DEF IInv, InFlightOK, InFlight
<1> HIDE DEF r
<1> QED
  BY Zenon, <1>1, <1>2, <1>3, <1>4, RequestPreserves

\* The invariant holds for every number of shards, hashes and connections.
LEMMA RoutingInvariant == Spec => []IInv
<1>1. Init => IInv
  BY DEF Init, IInv, TypeOK, OneTable, InFlightOK, ReadsCoherent
<1>2. ASSUME IInv, [Next]_vars PROVE IInv'
  <2> USE <1>2
  <2>1. ASSUME NEW c \in Conns, Local(c) \/ Remote(c) PROVE IInv'
    <3>1. req[c] # Nil /\ ExecuteAt(c, shard_for(req[c].cmd.key))
      BY <2>1 DEF Local, Remote, HandlingKey, Handling
    <3>2. req[c].cmd.key # Empty
      BY Zenon, <2>1, <3>1 DEF Local, Remote, HandlingKey, Handling, Rejects, SetRejects,
                        GetRejects, IInv, InFlightOK, InFlight
    <3> QED
      BY <3>1, <3>2, ExecutePreserves
  <2>2. CASE UNCHANGED vars
    BY <2>2 DEF vars, IInv, TypeOK, OneTable, InFlightOK, InFlight, ReadsCoherent
  <2> QED
    BY <2>1, <2>2, IssuePreserves, HandlerPreserves, CollectPreserves,
       CollectedPreserves, AnswerPreserves, LosePreserves DEF Next
<1> QED
  BY <1>1, <1>2, PTL DEF Spec

\* It implies the invariants of the routing.
LEMMA IInvImplies ==
    IInv => TypeOK /\ OneTable /\ ReadsCoherent /\ RangesTile
<1>1. ASSUME IInv, NEW c \in Conns, req[c] # Nil, req[c].cmd.key # Empty
      PROVE  req[c].cmd.key \in Hashes
  BY <1>1 DEF IInv, TypeOK, Request, Command
<1>2. IInv => RangesTile
  BY <1>1, RangeOfHash DEF RangesTile
<1> QED
  BY <1>2 DEF IInv

\* handle_request, the handlers and the forwarding keep the types.
THEOREM RoutingTypes == Spec => []TypeOK
  BY RoutingInvariant, IInvImplies, PTL

\* Whichever shard a connection lives on, handle_set and handle_get keep every key
\* on the one shard that shard_for names.
THEOREM RoutingOneTable == Spec => []OneTable
  BY RoutingInvariant, IInvImplies, PTL

\* A GET, forwarded or not, answers a value its key had between request and answer.
THEOREM RoutingReadsCoherent == Spec => []ReadsCoherent
  BY RoutingInvariant, IInvImplies, PTL

\* The ranges that compute_hash_ranges makes for NODE_INFO tile the hash space, for
\* every number of data shards.
THEOREM RoutingRangesTile == Spec => []RangesTile
  BY RoutingInvariant, IInvImplies, PTL

-----------------------------------------------------------------------------
(* The count that INFO adds up.                                              *)

\* The two histories of an INFO enclose what is stored now.
Encloses(c) ==
    \A h \in Hashes : /\ h \in kept[c] => latest[h] # Nil
                      /\ latest[h] # Nil => h \in came[c]

Enclosed == \A c \in Conns : req[c] # Nil /\ req[c].cmd.name = "INFO" => Encloses(c)

Counting(c) ==
    /\ req[c] # Nil /\ req[c].cmd.name = "INFO" /\ req[c].pc # "handle"
    /\ ~Rejects(req[c].cmd)

CountOK(c) ==
    /\ Cardinality(Reported(c) \cap kept[c]) <= req[c].count
    /\ req[c].count <= Cardinality(Reported(c) \cap came[c])

\* InfoCountsOnce, one request at a time.
LEMMA CountsApart == InfoCountsOnce <=> \A c \in Conns : Counting(c) => CountOK(c)
  BY Zenon DEF InfoCountsOnce, Counting, CountOK

\* A count stays right while the histories grow apart.
LEMMA CountStays ==
    ASSUME TypeOK, TypeOK', NEW c \in Conns, req[c] # Nil, CountOK(c),
           req'[c].todo = req[c].todo, req'[c].count = req[c].count, req[c].count \in Nat,
           kept'[c] \subseteq kept[c], came[c] \subseteq came'[c]
    PROVE  CountOK(c)'
<1> DEFINE A == Reported(c) \cap kept[c]
           B == Reported(c) \cap came[c]
           X == Reported(c) \cap kept'[c]
           Y == Reported(c) \cap came'[c]
<1>1. Reported(c)' = Reported(c)
  BY Zenon DEF Reported
<1>2. Y \in SUBSET Hashes /\ A \in SUBSET Hashes
  BY Zenon DEF Reported
<1>3. X \in SUBSET A /\ B \in SUBSET Y
  BY Zenon
<1> HIDE DEF A, B, X, Y
<1>4. /\ Cardinality(X) \in Nat /\ Cardinality(A) \in Nat /\ Cardinality(X) <= Cardinality(A)
      /\ Cardinality(B) \in Nat /\ Cardinality(Y) \in Nat /\ Cardinality(B) <= Cardinality(Y)
  BY Zenon, <1>2, <1>3, HashSets
<1>5. Cardinality(A) <= req[c].count /\ req[c].count <= Cardinality(B)
  BY Zenon DEF CountOK, A, B
<1>6. Cardinality(X) <= req[c].count /\ req[c].count <= Cardinality(Y)
  BY <1>4, <1>5
<1> QED
  BY Zenon, <1>1, <1>6 DEF CountOK, X, Y

\* A step that leaves the tables alone, and of the requests changes only how far c is
\* and what it found.
LEMMA CountUntouched ==
    ASSUME IInv, TypeOK', Enclosed, InfoCountsOnce, NEW c \in Conns, NEW r \in Request,
           req[c] # Nil, req' = [req EXCEPT ![c] = r], UNCHANGED <<latest, kept, came>>,
           r.cmd = req[c].cmd, r.todo = req[c].todo, r.count = req[c].count,
           r.cmd.name = "INFO" => req[c].pc # "handle" \/ Rejects(r.cmd)
    PROVE  Enclosed' /\ InfoCountsOnce'
<1>1. req'[c] = r /\ \A d \in Conns : d # c => req'[d] = req[d]
  BY DEF IInv, TypeOK
<1>2. \A d \in Conns : req'[d] # Nil => /\ req[d] # Nil /\ req'[d].cmd = req[d].cmd
                                        /\ req'[d].todo = req[d].todo
                                        /\ req'[d].count = req[d].count
  BY Zenon, <1>1
<1>3. Enclosed'
  BY Zenon, <1>2 DEF Enclosed, Encloses
<1>4. ASSUME NEW d \in Conns, Counting(d)' PROVE CountOK(d)'
  <2>1. Counting(d)
    BY Zenon, <1>1, <1>2, <1>4 DEF Counting
  <2>2. CountOK(d) /\ req[d] # Nil
    BY Zenon, <2>1, CountsApart DEF Counting
  <2>3. req[d].count \in Nat
    BY Zenon, <2>2 DEF IInv, TypeOK, Request
  <2>4. req'[d].todo = req[d].todo /\ req'[d].count = req[d].count
    BY Zenon, <1>2, <1>4 DEF Counting
  <2>5. kept'[d] \subseteq kept[d] /\ came[d] \subseteq came'[d]
    BY Zenon
  <2> QED
    BY Zenon, <2>2, <2>3, <2>4, <2>5, CountStays DEF IInv
<1> QED
  BY Zenon, <1>3, <1>4 DEF InfoCountsOnce, Counting, CountOK

\* A key gets a value or loses it, and no INFO moves.
LEMMA CountStored ==
    ASSUME IInv, TypeOK', Enclosed, InfoCountsOnce, NEW s, NEW h \in Hashes, NEW v,
           Stored(s, h, v),
           \A d \in Conns : req'[d] # Nil /\ req'[d].cmd.name = "INFO" => req'[d] = req[d]
    PROVE  Enclosed' /\ InfoCountsOnce'
<1>1. ASSUME NEW d \in Conns, req'[d] # Nil, req'[d].cmd.name = "INFO"
      PROVE  /\ req'[d] = req[d] /\ req[d] # Nil /\ req[d].cmd.name = "INFO"
             /\ kept'[d] = IF v = Nil THEN kept[d] \ {h} ELSE kept[d]
             /\ came'[d] = IF v # Nil THEN came[d] \cup {h} ELSE came[d]
  <2>1. req'[d] = req[d] /\ req[d] # Nil /\ req[d].cmd.name = "INFO"
    BY Zenon, <1>1
  <2> QED
    BY <2>1 DEF Stored
<1>2. latest' = [latest EXCEPT ![h] = v] /\ latest \in [Hashes -> Values \cup {Nil}]
  BY Zenon DEF Stored, IInv, TypeOK
<1>3. ASSUME NEW d \in Conns, req'[d] # Nil, req'[d].cmd.name = "INFO"
      PROVE  Encloses(d)'
  <2>1. Encloses(d)
    BY Zenon, <1>1, <1>3 DEF Enclosed
  <2> SUFFICES ASSUME NEW g \in Hashes
               PROVE  /\ g \in kept'[d] => latest'[g] # Nil
                      /\ latest'[g] # Nil => g \in came'[d]
    BY Zenon DEF Encloses
  <2>2. CASE g = h
    BY Zenon, <1>1, <1>2, <1>3, <2>2
  <2>3. CASE g # h
    BY Zenon, <1>1, <1>2, <1>3, <2>1, <2>3 DEF Encloses
  <2> QED
    BY Zenon, <2>2, <2>3
<1>4. ASSUME NEW d \in Conns, Counting(d)' PROVE CountOK(d)'
  <2>1. /\ req'[d] = req[d] /\ req[d] # Nil
        /\ kept'[d] \subseteq kept[d] /\ came[d] \subseteq came'[d]
    BY Zenon, <1>1, <1>4 DEF Counting
  <2>2. Counting(d)
    BY Zenon, <1>4, <2>1 DEF Counting
  <2>3. CountOK(d)
    BY Zenon, <2>2, CountsApart
  <2>4. req[d].count \in Nat
    BY Zenon, <2>1 DEF IInv, TypeOK, Request
  <2> QED
    BY Zenon, <2>1, <2>3, <2>4, CountStays DEF IInv
<1> QED
  BY Zenon, <1>3, <1>4 DEF Enclosed, InfoCountsOnce, Counting, CountOK

\* A shard reports its keys: they are hashes of its own, all that were kept there
\* among them and none that never came.
LEMMA CountCollected ==
    ASSUME IInv, TypeOK', Enclosed, InfoCountsOnce, NEW c \in Conns, NEW s \in Shards,
           Collect(c, s)
    PROVE  Enclosed' /\ InfoCountsOnce'
<1> DEFINE K == KeysAt(s)
           n == req[c].count
           A == Reported(c) \cap kept[c]
           B == Reported(c) \cap came[c]
           X == Reported(c)' \cap kept[c]
           Y == Reported(c)' \cap came[c]
<1>1. /\ req[c] # Nil /\ req[c] \in Request /\ req[c].pc = "collect" /\ s \in req[c].todo
      /\ req[c].cmd.name = "INFO" /\ n \in Nat
  BY DEF Collect, IInv, TypeOK, InFlightOK, InFlight, Request
<1>2. /\ req' = [req EXCEPT ![c].todo = @ \ {s}, ![c].count = @ + Cardinality(K)]
      /\ UNCHANGED <<data, latest, past, kept, came>>
  BY Zenon DEF Collect
<1>3. /\ req'[c].cmd = req[c].cmd /\ req'[c].pc = req[c].pc
      /\ req'[c].todo = req[c].todo \ {s} /\ req'[c].count = n + Cardinality(K)
      /\ \A d \in Conns : d # c => req'[d] = req[d]
  <2>1. req'[c] = [req[c] EXCEPT !.todo = req[c].todo \ {s}, !.count = n + Cardinality(K)]
    BY Zenon, <1>2 DEF IInv, TypeOK
  <2>2. \A d \in Conns : d # c => req'[d] = req[d]
    BY Zenon, <1>2 DEF IInv, TypeOK
  <2> QED
    BY Zenon, <1>1, <2>1, <2>2 DEF Request
<1>4. Enclosed'
  BY Zenon, <1>1, <1>2, <1>3 DEF Enclosed, Encloses
<1>5. \A h \in Hashes : h \in K <=> shard_for(h) = s /\ latest[h] # Nil
  BY DEF KeysAt, IInv, OneTable
<1>6. Encloses(c) /\ K \in SUBSET Hashes
  BY Zenon, <1>1 DEF Enclosed, KeysAt
<1> HIDE DEF K
<1>7. \A h \in Hashes : h \in Reported(c)' <=> h \in Reported(c) \/ shard_for(h) = s
  BY Zenon, <1>3 DEF Reported
<1>8. \A h \in K : h \notin Reported(c)
  BY Zenon, <1>1, <1>5, <1>6 DEF Reported
<1>9. /\ A \in SUBSET Hashes /\ B \in SUBSET Hashes /\ X \in SUBSET (A \cup K)
      /\ Y \in SUBSET Hashes /\ B \cup K \in SUBSET Y /\ B \cap K = {}
  <2>1. Reported(c) \subseteq Hashes /\ Reported(c)' \subseteq Hashes
    BY Zenon DEF Reported
  <2>2. \A h \in X : h \in A \cup K
    BY Zenon, <1>5, <1>6, <1>7, <2>1 DEF Encloses
  <2>3. \A h \in B \cup K : h \in Y
    BY Zenon, <1>5, <1>6, <1>7, <2>1 DEF Encloses
  <2> QED
    BY Zenon, <1>8, <2>1, <2>2, <2>3
<1> DEFINE a == Cardinality(A)
           b == Cardinality(B)
           k == Cardinality(K)
           x == Cardinality(X)
           y == Cardinality(Y)
<1>10. /\ IsFiniteSet(A) /\ IsFiniteSet(B) /\ IsFiniteSet(K)
       /\ a \in Nat /\ b \in Nat /\ k \in Nat
  <2> HIDE DEF A, B
  <2> QED
    BY Zenon, <1>6, <1>9, HashSets
<1>11. x \in Nat /\ x <= a + k
  <2> HIDE DEF A, X
  <2>1. A \cup K \in SUBSET Hashes
    BY Zenon, <1>6, <1>9
  <2>2. x \in Nat /\ x <= Cardinality(A \cup K)
    BY Zenon, <1>9, <2>1, HashSets
  <2>3. /\ Cardinality(A \cup K) = a + k - Cardinality(A \cap K)
        /\ Cardinality(A \cup K) \in Nat /\ Cardinality(A \cap K) \in Nat
    <3>1. Cardinality(A \cup K) = a + k - Cardinality(A \cap K)
      BY <1>10, FS_Union
    <3>2. A \cap K \in SUBSET Hashes
      BY Zenon, <1>6
    <3> QED
      BY Zenon, <2>1, <3>1, <3>2, HashSets
  <2> HIDE DEF a, k, x
  <2> QED
    BY <1>10, <2>2, <2>3
<1>12. y \in Nat /\ b + k <= y
  <2> HIDE DEF B, Y
  <2>1. y \in Nat /\ Cardinality(B \cup K) <= y
    BY Zenon, <1>9, HashSets
  <2>2. Cardinality(B \cup K) = b + k - Cardinality(B \cap K)
    BY <1>10, FS_Union
  <2>3. Cardinality(B \cap K) = 0
    BY <1>9, FS_EmptySet
  <2> HIDE DEF b, k, y
  <2> QED
    BY <1>10, <2>1, <2>2, <2>3
<1>13. ~Rejects(req[c].cmd) => CountOK(c)'
  <2> SUFFICES ASSUME ~Rejects(req[c].cmd) PROVE CountOK(c)'
    OBVIOUS
  <2>1. Counting(c)
    BY <1>1 DEF Counting
  <2>2. a <= n /\ n <= b
    BY Zenon, <2>1, CountsApart DEF CountOK
  <2> HIDE DEF a, b, k, x, y, n
  <2>3. x <= n + k /\ n + k <= y
    BY <1>1, <1>10, <1>11, <1>12, <2>2
  <2> QED
    BY Zenon, <1>2, <1>3, <2>3 DEF CountOK, k, x, y
<1>14. ASSUME NEW d \in Conns, d # c, Counting(d)' PROVE CountOK(d)'
  <2>1. req'[d] = req[d] /\ kept' = kept /\ came' = came
    BY Zenon, <1>2, <1>3, <1>14
  <2>2. CountOK(d)
    BY Zenon, <1>14, <2>1, CountsApart DEF Counting
  <2> QED
    BY Zenon, <2>1, <2>2 DEF CountOK, Reported
<1>15. \A d \in Conns : Counting(d)' => CountOK(d)'
  BY Zenon, <1>3, <1>13, <1>14 DEF Counting
<1> QED
  BY Zenon, <1>4, <1>15 DEF InfoCountsOnce, Counting, CountOK

\* A request comes, or an answer goes out.
LEMMA CountEnds ==
    ASSUME IInv, TypeOK', Enclosed, InfoCountsOnce, NEW c \in Conns, Issue(c) \/ Answer(c)
    PROVE  Enclosed' /\ InfoCountsOnce'
<1>1. /\ latest' = latest
      /\ \A d \in Conns : d # c => /\ req'[d] = req[d]
                                   /\ kept'[d] = kept[d] /\ came'[d] = came[d]
  <2>1. CASE Issue(c)
    <3>1. /\ latest' = latest /\ \E r : req' = [req EXCEPT ![c] = r]
          /\ \E H : kept' = [kept EXCEPT ![c] = H] /\ came' = [came EXCEPT ![c] = H]
      BY Zenon, <2>1 DEF Issue
    <3> QED
      BY Zenon, <3>1 DEF IInv, TypeOK
  <2>2. CASE Answer(c)
    BY Zenon, <2>2 DEF Answer, IInv, TypeOK
  <2> QED
    BY Zenon, <2>1, <2>2
<1>2. req'[c] # Nil => /\ req'[c].pc = "handle"
                       /\ req'[c].cmd.name = "INFO" => Encloses(c)'
  <2>1. CASE Answer(c)
    BY Zenon, <2>1 DEF Answer, IInv, TypeOK
  <2>2. CASE Issue(c)
    <3>1. PICK s \in Shards, q \in Requests :
              /\ req' = [req EXCEPT ![c] = [pc |-> "handle", at |-> s, cmd |-> q,
                             value |-> Nil, todo |-> {}, count |-> 0]]
              /\ kept' = [kept EXCEPT ![c] = Held(q)] /\ came' = [came EXCEPT ![c] = Held(q)]
      BY Zenon, <2>2 DEF Issue
    <3>2. kept'[c] = Held(q) /\ came'[c] = Held(q)
      BY Zenon, <3>1 DEF IInv, TypeOK
    <3>3. req'[c] = [pc |-> "handle", at |-> s, cmd |-> q,
                     value |-> Nil, todo |-> {}, count |-> 0]
      BY Zenon, <3>1 DEF IInv, TypeOK
    <3>4. req'[c].pc = "handle" /\ req'[c].cmd = q
      BY <3>3
    <3> QED
      BY Zenon, <1>1, <3>2, <3>4 DEF Encloses, Held
  <2> QED
    BY Zenon, <2>1, <2>2
<1>3. Enclosed'
  BY Zenon, <1>1, <1>2 DEF Enclosed, Encloses
<1>4. ASSUME NEW d \in Conns, Counting(d)' PROVE CountOK(d)'
  <2>1. d # c
    BY Zenon, <1>2, <1>4 DEF Counting
  <2>2. CountOK(d)
    BY Zenon, <1>1, <1>4, <2>1, CountsApart DEF Counting
  <2> QED
    BY Zenon, <1>1, <2>1, <2>2 DEF CountOK, Reported
<1> QED
  BY Zenon, <1>3, <1>4 DEF InfoCountsOnce, Counting, CountOK

\* INFO begins, with nothing counted and no shard heard.
LEMMA CountBegins ==
    ASSUME IInv, TypeOK', Enclosed, InfoCountsOnce, NEW c \in Conns, Info(c)
    PROVE  Enclosed' /\ InfoCountsOnce'
<1>1. /\ req[c] # Nil /\ req[c] \in Request /\ req[c].count = 0
      /\ UNCHANGED <<latest, kept, came>>
      /\ req' = [req EXCEPT ![c].pc = "collect", ![c].todo = Shards]
  BY Zenon DEF Info, Handling, IInv, TypeOK, InFlightOK, InFlight
<1>2. /\ req'[c].cmd = req[c].cmd /\ req'[c].todo = Shards /\ req'[c].count = 0
      /\ \A d \in Conns : d # c => req'[d] = req[d]
  <2> DEFINE r == [req[c] EXCEPT !.pc = "collect", !.todo = Shards]
  <2>1. req'[c] = r /\ \A d \in Conns : d # c => req'[d] = req[d]
    BY Zenon, <1>1 DEF IInv, TypeOK
  <2>2. r.cmd = req[c].cmd /\ r.count = req[c].count /\ r.todo = Shards
    BY Zenon, <1>1 DEF Request
  <2> HIDE DEF r
  <2> QED
    BY Zenon, <1>1, <2>1, <2>2
<1>3. Enclosed'
  BY Zenon, <1>1, <1>2 DEF Enclosed, Encloses
<1>4. CountOK(c)'
  <2>1. \A h \in Hashes : shard_for(h) \in Shards
    BY Zenon, OwnerFacts
  <2>2. Reported(c)' = {}
    BY Zenon, <1>2, <2>1 DEF Reported
  <2>3. Reported(c)' \cap kept'[c] = {} /\ Reported(c)' \cap came'[c] = {}
    BY Zenon, <2>2
  <2>4. Cardinality({}) = 0
    BY FS_EmptySet
  <2>5. 0 <= 0
    OBVIOUS
  <2> QED
    BY Zenon, <1>2, <2>3, <2>4, <2>5 DEF CountOK
<1>5. ASSUME NEW d \in Conns, d # c, Counting(d)' PROVE CountOK(d)'
  <2>1. req'[d] = req[d] /\ kept' = kept /\ came' = came
    BY Zenon, <1>1, <1>2, <1>5
  <2>2. CountOK(d)
    BY Zenon, <1>5, <2>1, CountsApart DEF Counting
  <2> QED
    BY Zenon, <2>1, <2>2 DEF CountOK, Reported
<1> QED
  BY Zenon, <1>3, <1>4, <1>5 DEF InfoCountsOnce, Counting, CountOK

\* The handlers of the other commands, and the end of INFO.
LEMMA CountHandlers ==
    ASSUME IInv, TypeOK', Enclosed, InfoCountsOnce, NEW c \in Conns,
           Reject(c) \/ Quit(c) \/ NodeInfo(c) \/ Forward(c) \/ Collected(c)
    PROVE  Enclosed' /\ InfoCountsOnce'
<1>1. req[c] # Nil /\ UNCHANGED <<latest, kept, came>>
  BY Zenon DEF Reject, Quit, NodeInfo, Forward, Collected, Answered, HandlingKey, Handling
<1>2. req[c] \in Request
  BY Zenon, <1>1 DEF IInv, TypeOK
<1>3. \E p \in {"remote", "answer"} : req' = [req EXCEPT ![c].pc = p]
  BY Zenon DEF Reject, Quit, NodeInfo, Forward, Collected, Answered
<1>4. PICK p \in {"remote", "answer"} : req' = [req EXCEPT ![c].pc = p]
  BY Zenon, <1>3
<1> DEFINE r == [req[c] EXCEPT !.pc = p]
<1>5. /\ r \in Request /\ r.cmd = req[c].cmd /\ r.todo = req[c].todo
      /\ r.count = req[c].count
  BY <1>2 DEF Request
<1>6. req' = [req EXCEPT ![c] = r]
  BY Zenon, <1>4
<1> HIDE DEF r
<1>7. r.cmd.name = "INFO" => req[c].pc # "handle" \/ Rejects(r.cmd)
  <2>1. "collect" # "handle" /\ "QUIT" # "INFO" /\ "NODE_INFO" # "INFO"
        /\ "SET" # "INFO" /\ "GET" # "INFO"
    OBVIOUS
  <2> QED
    BY Zenon, <1>5, <2>1 DEF Reject, Quit, NodeInfo, Forward, Collected, HandlingKey, Handling
<1> QED
  BY Zenon, <1>1, <1>5, <1>6, <1>7, CountUntouched

\* SET and GET on the owner of the key.
LEMMA CountExecute ==
    ASSUME IInv, TypeOK', Enclosed, InfoCountsOnce, NEW c \in Conns, req[c] # Nil,
           req[c].cmd.key # Empty, ExecuteAt(c, shard_for(req[c].cmd.key))
    PROVE  Enclosed' /\ InfoCountsOnce'
<1> DEFINE h == req[c].cmd.key
           s == shard_for(h)
<1>1. req[c] \in Request /\ h \in Hashes
  BY DEF IInv, TypeOK, Request, Command
<1>2. CASE /\ req[c].cmd.name = "SET" /\ Stored(s, h, req[c].cmd.value)
           /\ req' = [req EXCEPT ![c].pc = "answer"]
  <2>1. /\ req'[c] = [req[c] EXCEPT !.pc = "answer"]
        /\ \A d \in Conns : d # c => req'[d] = req[d]
    BY Zenon, <1>2 DEF IInv, TypeOK
  <2>2. req'[c].cmd.name # "INFO"
    BY <1>1, <1>2, <2>1 DEF Request
  <2>3. \A d \in Conns : req'[d] # Nil /\ req'[d].cmd.name = "INFO" => req'[d] = req[d]
    BY Zenon, <2>1, <2>2
  <2> HIDE DEF s, h
  <2> QED
    BY Zenon, <1>1, <1>2, <2>3, CountStored
<1>3. CASE /\ req[c].cmd.name = "GET" /\ UNCHANGED <<data, latest, past, kept, came>>
           /\ req' = [req EXCEPT ![c].pc = "answer", ![c].value = data[s][h]]
  <2> DEFINE r == [req[c] EXCEPT !.pc = "answer", !.value = data[s][h]]
  <2>1. s \in Shards /\ data[s][h] \in Values \cup {Nil}
    BY <1>1, OwnerFacts DEF IInv, TypeOK
  <2> HIDE DEF s, h
  <2>2. /\ r \in Request /\ r.cmd = req[c].cmd /\ r.todo = req[c].todo
        /\ r.count = req[c].count
    <3> DEFINE v == data[s][h]
    <3>1. v \in Values \cup {Nil}
      BY <2>1
    <3> HIDE DEF v
    <3>2. r = [req[c] EXCEPT !.pc = "answer", !.value = v]
      BY DEF v
    <3>3. r \in Request
      BY Zenon, <1>1, <3>1, <3>2 DEF Request
    <3>4. r.cmd = req[c].cmd /\ r.todo = req[c].todo /\ r.count = req[c].count
      BY <1>1, <3>2 DEF Request
    <3> QED
      BY Zenon, <3>3, <3>4
  <2>3. req' = [req EXCEPT ![c] = r]
    BY Zenon, <1>3
  <2> HIDE DEF r
  <2>4. r.cmd.name # "INFO"
    BY <1>3, <2>2
  <2> QED
    BY Zenon, <1>3, <2>2, <2>3, <2>4, CountUntouched
<1> QED
  BY Zenon, <1>2, <1>3 DEF ExecuteAt

\* What INFO counts lies between the keys that were there all the time since the
\* request and those that were there at some time, for every number of shards, however
\* their reports interleave with SETs and evictions.
THEOREM RoutingInfoCountsOnce == Spec => []InfoCountsOnce
<1>1. Init => Enclosed /\ InfoCountsOnce
  BY Zenon DEF Init, Enclosed, InfoCountsOnce
<1>2. ASSUME IInv, IInv', Enclosed, InfoCountsOnce, [Next]_vars
      PROVE  Enclosed' /\ InfoCountsOnce'
  <2>1. TypeOK' /\ OneTable
    BY Zenon, <1>2 DEF IInv
  <2>2. ASSUME NEW c \in Conns, Local(c) \/ Remote(c) PROVE Enclosed' /\ InfoCountsOnce'
    <3>1. req[c] # Nil /\ ExecuteAt(c, shard_for(req[c].cmd.key))
      BY Zenon, <2>2 DEF Local, Remote, HandlingKey, Handling
    <3>2. req[c].cmd.key # Empty
      BY Zenon, <1>2, <2>2, <3>1 DEF Local, Remote, HandlingKey, Handling, Rejects,
                SetRejects, GetRejects, IInv, InFlightOK, InFlight
    <3> QED
      BY Zenon, <1>2, <2>1, <3>1, <3>2, CountExecute
  <2>3. ASSUME NEW s \in Shards, NEW h \in Hashes, Lose(s, h)
        PROVE  Enclosed' /\ InfoCountsOnce'
    <3>1. Stored(s, h, Nil) /\ \A d \in Conns : req'[d] = req[d]
      BY Zenon, <2>3 DEF Lose
    <3> QED
      BY Zenon, <1>2, <2>1, <3>1, CountStored
  <2>4. CASE UNCHANGED vars
    BY Zenon, <1>2, <2>4 DEF vars, Enclosed, Encloses, InfoCountsOnce, Reported
  <2>5. CASE Next
    BY Zenon, <1>2, <2>1, <2>2, <2>3, <2>5, CountEnds, CountBegins, CountHandlers,
       CountCollected DEF Next
  <2> QED
    BY Zenon, <1>2, <2>4, <2>5
<1> QED
  BY <1>1, <1>2, RoutingInvariant, PTL DEF Spec

-----------------------------------------------------------------------------
(* What NODE_INFO says of a key that a shard holds.                          *)

\* A key that a shard holds is advertised for that shard, or is the first hash that
\* is advertised for the next one.
RangesNear ==
    \A i \in Index, h \in Hashes : data[First + i][h] # Nil =>
        Advertised(h, i) \/ (i + 1 \in Index /\ h = RangeLo(i + 1))

\* A hash in terms of its owner's index.
LEMMA OwnerRange ==
    ASSUME OneTable, NEW i \in Index, NEW h \in Hashes, data[First + i][h] # Nil
    PROVE  /\ shard_for(h) = First + i
           /\ Advertised(h, i) \/ (i + 1 \in Index /\ h = RangeLo(i + 1))
<1>1. First + i \in Shards /\ i \in Int /\ First \in Int
  <2> HIDE DEF D
  <2>1. D \in Nat /\ First + D = Smp /\ First \in Nat
    BY RoutingAssumption DEF D
  <2> QED
    BY <2>1 DEF Index, Shards
<1>2. shard_for(h) = First + i
  BY <1>1 DEF OneTable
<1> HIDE DEF shard_for
<1>3. PICK k \in Index : /\ Advertised(h, k)
                         /\ \/ shard_for(h) = First + k
                            \/ shard_for(h) = First + k - 1 /\ h = RangeLo(k)
  BY Zenon, RangeOfHash
<1>4. k = i \/ (k = i + 1 /\ h = RangeLo(k))
  <2>1. k \in Int
    BY DEF Index
  <2>2. First + i = First + k => k = i
    BY <1>1, <2>1
  <2>3. First + i = First + k - 1 => k = i + 1
    BY <1>1, <2>1
  <2> QED
    BY Zenon, <1>2, <1>3, <2>2, <2>3
<1> QED
  BY Zenon, <1>2, <1>3, <1>4

\* The ranges are never further off than one hash: a shard holds no key outside its
\* advertised range but the first hash of the next range.
THEOREM RoutingRangesNear == Spec => []RangesNear
<1>1. IInv => RangesNear
  BY Zenon, OwnerRange DEF IInv, RangesNear
<1> QED
  BY <1>1, RoutingInvariant, PTL

\* The number of data shards divides the number of hashes, 2^64: it is a power of two.
Even == \E q \in Nat : Space = q * D

\* Then the ranges are exact: a shard holds no key outside its advertised range.
THEOREM RoutingRangesOwned == ASSUME Even PROVE Spec => []RangesOwned
<1>1. ASSUME OneTable, NEW i \in Index, NEW h \in Hashes, data[First + i][h] # Nil
      PROVE  Advertised(h, i)
  <2> SUFFICES ASSUME i + 1 \in Index, h = RangeLo(i + 1) PROVE FALSE
    BY <1>1, OwnerRange
  <2> HIDE DEF D
  <2>1. PICK q \in Nat : Space = q * D
    BY DEF Even
  <2>2. PICK j \in Index : shard_for(h) = First + j /\ h * D < (j + 1) * Space
    BY OwnerFacts
  <2>3. /\ D \in Nat \ {0} /\ Space \in Nat \ {0} /\ First \in Nat
        /\ h \in Nat /\ i \in Nat /\ j \in Nat
    BY OwnerFacts, RoutingAssumption DEF Hashes, Index
  <2>4. j = i
    <3>1. First + j = First + i
      BY <1>1, <2>2, OwnerRange
    <3> QED
      BY <2>3, <3>1
  <2> DEFINE m == i + 1
             a == Space * m
             c == q * m
  <2>5. m \in Nat /\ a \in Nat /\ c \in Nat
    BY <2>1, <2>3
  <2>6. c * D = a
    <3> HIDE DEF m
    <3>1. (q * m) * D = (q * D) * m
      BY <2>1, <2>3, <2>5
    <3> QED
      BY <2>1, <3>1
  <2>7. h = a \div D
    BY DEF RangeLo
  <2> HIDE DEF m, a, c
  <2>8. c <= h
    <3>1. c <= a \div D <=> c * D <= a
      BY <2>3, <2>5, DivFacts
    <3>2. a <= a
      BY <2>5
    <3> QED
      BY Zenon, <2>6, <2>7, <3>1, <3>2
  <2>9. c * D <= h * D
    <3> DEFINE e == h - c
    <3>1. e \in Nat /\ h = c + e
      BY <2>3, <2>5, <2>8
    <3> HIDE DEF e
    <3>2. h * D = c * D + e * D /\ e * D \in Nat /\ c * D \in Nat
      BY <2>3, <2>5, <3>1
    <3> QED
      BY <3>2
  <2>10. h * D < a
    <3>1. m * Space = Space * m
      BY <2>3, <2>5
    <3> QED
      BY Zenon, <2>2, <2>4, <3>1 DEF m, a
  <2>11. h * D \in Nat
    BY <2>3
  <2> QED
    BY <2>5, <2>6, <2>9, <2>10, <2>11
<1>2. IInv => RangesOwned
  BY Zenon, <1>1 DEF IInv, RangesOwned
<1> QED
  BY <1>2, RoutingInvariant, PTL

-----------------------------------------------------------------------------
(* The shards together implement Service.                                    *)

\* What the service as a whole is in terms of the shards and the requests.
Table  == [h \in Hashes |-> data[shard_for(h)][h]]
Called == [c \in Conns |-> IF req[c] = Nil THEN Nil ELSE Meaning(req[c].cmd)]
Done   == [c \in Conns |-> req[c] # Nil /\ req[c].pc = "answer"]
Result == [c \in Conns |-> IF req[c] = Nil THEN Nil ELSE req[c].value]

\* What the mapping needs beyond IInv: a request that is not answered yet has found
\* nothing, and one that is forwarded has passed its checks.
Waiting ==
    \A c \in Conns : req[c] # Nil =>
        /\ req[c].pc # "answer" => req[c].value = Nil
        /\ req[c].pc = "remote" => ~Rejects(req[c].cmd)

\* The steps of the service under the mapping.
ServiceCall(c) ==
    /\ Called[c] = Nil
    /\ \E r \in Whole!Command : Called' = [Called EXCEPT ![c] = r]
    /\ Table' = Table /\ Done' = Done /\ Result' = Result

ServicePending(c, kind) == Called[c] # Nil /\ Called[c].kind = kind /\ ~Done[c]

ServiceSet(c) ==
    /\ ServicePending(c, "set")
    /\ Table' = [Table EXCEPT ![Called[c].key] = Called[c].value]
    /\ Done' = [Done EXCEPT ![c] = TRUE]
    /\ Called' = Called /\ Result' = Result

ServiceGet(c) ==
    /\ ServicePending(c, "get")
    /\ Result' = [Result EXCEPT ![c] = Table[Called[c].key]]
    /\ Done' = [Done EXCEPT ![c] = TRUE]
    /\ Table' = Table /\ Called' = Called

ServiceOther(c) ==
    /\ ServicePending(c, "other")
    /\ Done' = [Done EXCEPT ![c] = TRUE]
    /\ Table' = Table /\ Called' = Called /\ Result' = Result

ServiceReturn(c) ==
    /\ Called[c] # Nil /\ Done[c]
    /\ Called' = [Called EXCEPT ![c] = Nil]
    /\ Done' = [Done EXCEPT ![c] = FALSE]
    /\ Result' = [Result EXCEPT ![c] = Nil]
    /\ Table' = Table

ServiceLose(h) ==
    /\ Table' = [Table EXCEPT ![h] = Nil]
    /\ Called' = Called /\ Done' = Done /\ Result' = Result

ServiceIdle == Table' = Table /\ Called' = Called /\ Done' = Done /\ Result' = Result

ServiceStep ==
    \/ \E c \in Conns : \/ ServiceCall(c) \/ ServiceSet(c) \/ ServiceGet(c)
                        \/ ServiceOther(c) \/ ServiceReturn(c)
    \/ \E h \in Hashes : ServiceLose(h)
    \/ ServiceIdle

LEMMA ServiceSteps == ServiceStep => [Whole!Next]_(Whole!vars)
<1> USE DEF Table, Called, Done, Result
<1>1. ServiceIdle => UNCHANGED Whole!vars
  BY Zenon DEF ServiceIdle, Whole!vars
<1>2. ASSUME NEW h \in Hashes, ServiceLose(h) PROVE Whole!Lose(h)
  BY Zenon, <1>2 DEF ServiceLose, Whole!Lose
<1>3. ASSUME NEW c \in Conns, ServiceCall(c) PROVE Whole!Call(c)
  BY Zenon, <1>3 DEF ServiceCall, Whole!Call
<1>4. ASSUME NEW c \in Conns, ServiceSet(c) PROVE Whole!Set(c)
  BY Zenon, <1>4 DEF ServiceSet, ServicePending, Whole!Set, Whole!Pending
<1>5. ASSUME NEW c \in Conns, ServiceGet(c) PROVE Whole!Get(c)
  BY Zenon, <1>5 DEF ServiceGet, ServicePending, Whole!Get, Whole!Pending
<1>6. ASSUME NEW c \in Conns, ServiceOther(c) PROVE Whole!Other(c)
  BY Zenon, <1>6 DEF ServiceOther, ServicePending, Whole!Other, Whole!Pending
<1>7. ASSUME NEW c \in Conns, ServiceReturn(c) PROVE Whole!Return(c)
  BY Zenon, <1>7 DEF ServiceReturn, Whole!Return
<1> HIDE DEF Table, Called, Done, Result
<1> QED
  BY Zenon, <1>1, <1>2, <1>3, <1>4, <1>5, <1>6, <1>7 DEF ServiceStep, Whole!Next

\* Writing what is there already changes nothing.
LEMMA ExceptSame ==
    ASSUME NEW S, NEW f, f = [d \in S |-> f[d]], NEW c \in S
    PROVE  [f EXCEPT ![c] = f[c]] = f
  OBVIOUS

\* Every command means something to the service.
LEMMA MeaningFacts ==
    ASSUME NEW r \in Command
    PROVE  /\ Meaning(r) \in Whole!Command /\ Meaning(r) # Nil
           /\ Meaning(r).kind = Kind(r) /\ Meaning(r).value = r.value
           /\ r.key # Empty => Meaning(r).key = r.key
<1>1. Kind(r) \in {"set", "get", "other"}
  BY Zenon DEF Kind
<1>2. r.key \in Hashes \cup {Empty} /\ r.value \in Values \cup {Nil}
  BY DEF Command
<1> HIDE DEF Kind
<1>3. Meaning(r) \in Whole!Command
  BY <1>1, <1>2 DEF Meaning, Whole!Command
<1>4. /\ Meaning(r).kind = Kind(r) /\ Meaning(r).value = r.value
      /\ r.key # Empty => Meaning(r).key = r.key
  BY DEF Meaning
<1> QED
  BY Zenon, <1>3, <1>4, AbsentAssumption

\* What the service sees of a request that changes.
LEMMA OneRequest ==
    ASSUME TypeOK, NEW c \in Conns, NEW r, req' = [req EXCEPT ![c] = r]
    PROVE  /\ req'[c] = r /\ \A d \in Conns \ {c} : req'[d] = req[d]
           /\ Called' = [Called EXCEPT ![c] = IF r = Nil THEN Nil ELSE Meaning(r.cmd)]
           /\ Done' = [Done EXCEPT ![c] = (r # Nil /\ r.pc = "answer")]
           /\ Result' = [Result EXCEPT ![c] = IF r = Nil THEN Nil ELSE r.value]
<1>1. req'[c] = r /\ \A d \in Conns \ {c} : req'[d] = req[d]
  BY DEF TypeOK
<1>2. \A d \in Conns : d # c => req'[d] = req[d]
  BY Zenon, <1>1
<1>3. Called' = [Called EXCEPT ![c] = IF r = Nil THEN Nil ELSE Meaning(r.cmd)]
  <2> DEFINE P(x) == IF x = Nil THEN Nil ELSE Meaning(x.cmd)
  <2>1. Called = [d \in Conns |-> P(req[d])] /\ Called' = [d \in Conns |-> P(req'[d])]
    BY Zenon DEF Called
  <2> HIDE DEF P
  <2>2. Called' = [Called EXCEPT ![c] = P(r)]
    BY <1>1, <1>2, <2>1
  <2> QED
    BY Zenon, <2>2 DEF P
<1>4. Done' = [Done EXCEPT ![c] = (r # Nil /\ r.pc = "answer")]
  <2> DEFINE P(x) == x # Nil /\ x.pc = "answer"
  <2>1. Done = [d \in Conns |-> P(req[d])] /\ Done' = [d \in Conns |-> P(req'[d])]
    BY Zenon DEF Done
  <2> HIDE DEF P
  <2>2. Done' = [Done EXCEPT ![c] = P(r)]
    BY <1>1, <1>2, <2>1
  <2> QED
    BY Zenon, <2>2 DEF P
<1>5. Result' = [Result EXCEPT ![c] = IF r = Nil THEN Nil ELSE r.value]
  <2> DEFINE P(x) == IF x = Nil THEN Nil ELSE x.value
  <2>1. Result = [d \in Conns |-> P(req[d])] /\ Result' = [d \in Conns |-> P(req'[d])]
    BY Zenon DEF Result
  <2> HIDE DEF P
  <2>2. Result' = [Result EXCEPT ![c] = P(r)]
    BY <1>1, <1>2, <2>1
  <2> QED
    BY Zenon, <2>2 DEF P
<1> QED
  BY Zenon, <1>1, <1>3, <1>4, <1>5

\* A request goes on, or is answered, and the tables stay as they are.
LEMMA HandlerStep ==
    ASSUME TypeOK, Waiting, NEW c \in Conns, NEW r \in Request, req[c] # Nil,
           req[c].pc # "answer", req' = [req EXCEPT ![c] = r], data' = data,
           r.cmd = req[c].cmd, r.value = Nil, r.pc = "remote" => ~Rejects(r.cmd),
           r.pc = "answer" => Kind(r.cmd) = "other"
    PROVE  Waiting' /\ ServiceStep
<1>1. /\ req'[c] = r /\ \A d \in Conns \ {c} : req'[d] = req[d]
      /\ Called' = [Called EXCEPT ![c] = Meaning(r.cmd)]
      /\ Done' = [Done EXCEPT ![c] = (r.pc = "answer")]
      /\ Result' = [Result EXCEPT ![c] = Nil]
  <2>1. r # Nil
    BY AbsentAssumption
  <2>2. (r # Nil /\ r.pc = "answer") = (r.pc = "answer")
    BY Zenon, <2>1
  <2>3. (IF r = Nil THEN Nil ELSE Meaning(r.cmd)) = Meaning(r.cmd)
    BY Zenon, <2>1
  <2>4. (IF r = Nil THEN Nil ELSE r.value) = Nil
    BY Zenon, <2>1
  <2>5. /\ req'[c] = r /\ \A d \in Conns \ {c} : req'[d] = req[d]
        /\ Called' = [Called EXCEPT ![c] = IF r = Nil THEN Nil ELSE Meaning(r.cmd)]
        /\ Done' = [Done EXCEPT ![c] = (r # Nil /\ r.pc = "answer")]
        /\ Result' = [Result EXCEPT ![c] = IF r = Nil THEN Nil ELSE r.value]
    BY Zenon, OneRequest
  <2> QED
    BY Zenon, <2>2, <2>3, <2>4, <2>5
<1>2. Waiting'
  <2> SUFFICES ASSUME NEW d \in Conns, req'[d] # Nil
               PROVE  /\ req'[d].pc # "answer" => req'[d].value = Nil
                      /\ req'[d].pc = "remote" => ~Rejects(req'[d].cmd)
    BY Zenon DEF Waiting
  <2> QED
    BY Zenon, <1>1 DEF Waiting
<1>3. req[c] \in Request /\ req[c].value = Nil /\ r.cmd \in Command
  BY Zenon DEF TypeOK, Waiting, Request
<1>4. Called[c] = Meaning(r.cmd) /\ Done[c] = FALSE /\ Result[c] = Nil
  BY Zenon, <1>3 DEF Called, Done, Result
<1>5. Called' = Called /\ Result' = Result
  <2>1. Called = [d \in Conns |-> Called[d]] /\ Result = [d \in Conns |-> Result[d]]
    BY Zenon DEF Called, Result
  <2> QED
    BY Zenon, <1>1, <1>4, <2>1, ExceptSame
<1>6. Table' = Table
  BY Zenon DEF Table
<1>7. CASE r.pc # "answer"
  <2>1. Done = [d \in Conns |-> Done[d]]
    BY Zenon DEF Done
  <2>2. Done' = [Done EXCEPT ![c] = FALSE]
    BY Zenon, <1>1, <1>7
  <2>3. Done' = Done
    BY Zenon, <1>4, <2>1, <2>2, ExceptSame
  <2> QED
    BY Zenon, <1>2, <1>5, <1>6, <2>3 DEF ServiceStep, ServiceIdle
<1>8. CASE r.pc = "answer"
  <2>1. Done' = [Done EXCEPT ![c] = TRUE]
    BY Zenon, <1>1, <1>8
  <2>2. ServicePending(c, "other")
    BY Zenon, <1>3, <1>4, <1>8, MeaningFacts DEF ServicePending
  <2>3. ServiceOther(c)
    BY Zenon, <1>5, <1>6, <2>1, <2>2 DEF ServiceOther
  <2> QED
    BY Zenon, <1>2, <2>3 DEF ServiceStep
<1> QED
  BY Zenon, <1>7, <1>8

\* A key that gets a value on its owner gets it in the one table.
LEMMA OneTableStep ==
    ASSUME TypeOK, NEW h \in Hashes, NEW v, Stored(shard_for(h), h, v)
    PROVE  Table' = [Table EXCEPT ![h] = v]
<1>1. data' = [data EXCEPT ![shard_for(h)][h] = v]
  BY Zenon DEF Stored
<1>2. shard_for(h) \in Shards
  BY OwnerFacts
<1>3. ASSUME NEW g \in Hashes PROVE data'[shard_for(g)][g] = IF g = h THEN v ELSE data[shard_for(g)][g]
  <2> DEFINE s == shard_for(h)
             t == shard_for(g)
  <2>1. s \in Shards /\ t \in Shards /\ (g = h => t = s)
    BY OwnerFacts
  <2>2. data' = [data EXCEPT ![s][h] = v]
    BY Zenon, <1>1
  <2> HIDE DEF s, t
  <2>3. data'[t][g] = IF g = h THEN v ELSE data[t][g]
    BY <2>1, <2>2 DEF TypeOK
  <2> QED
    BY Zenon, <2>3 DEF t
<1> HIDE DEF shard_for
<1>4. ASSUME NEW g \in Hashes PROVE Table'[g] = IF g = h THEN v ELSE Table[g]
  BY Zenon, <1>3 DEF Table
<1>5. Table = [g \in Hashes |-> Table[g]] /\ Table' = [g \in Hashes |-> Table'[g]]
  BY Zenon DEF Table
<1> HIDE DEF Table
<1> QED
  BY <1>4, <1>5

\* local_set or local_get on the owner of the key is the service's SET or GET.
LEMMA ExecuteStep ==
    ASSUME TypeOK, Waiting, NEW c \in Conns, req[c] # Nil, req[c].pc # "answer",
           ~Rejects(req[c].cmd), req[c].cmd.key # Empty,
           ExecuteAt(c, shard_for(req[c].cmd.key))
    PROVE  Waiting' /\ ServiceStep
<1> DEFINE q == req[c]
           h == q.cmd.key
<1>1. q \in Request /\ q.cmd \in Command /\ h \in Hashes /\ q.value = Nil
  BY Zenon DEF TypeOK, Request, Command, Waiting
<1>2. /\ Called[c] = Meaning(q.cmd) /\ Called[c] # Nil /\ Called[c].key = h
      /\ Called[c].value = q.cmd.value /\ Called[c].kind = Kind(q.cmd)
      /\ Done[c] = FALSE /\ Result[c] = Nil
  <2>1. Called[c] = Meaning(q.cmd) /\ Done[c] = FALSE /\ Result[c] = Nil
    BY Zenon, <1>1 DEF Called, Done, Result
  <2> QED
    BY Zenon, <1>1, <2>1, MeaningFacts
<1>3. ASSUME NEW r \in Request, req' = [req EXCEPT ![c] = r], r.cmd = q.cmd, r.pc = "answer"
      PROVE  /\ Waiting' /\ Called' = Called /\ Done' = [Done EXCEPT ![c] = TRUE]
             /\ Result' = [Result EXCEPT ![c] = r.value]
  <2>1. r # Nil
    BY <1>3, AbsentAssumption
  <2>2. /\ req'[c] = r /\ \A d \in Conns \ {c} : req'[d] = req[d]
        /\ Called' = [Called EXCEPT ![c] = Meaning(r.cmd)]
        /\ Done' = [Done EXCEPT ![c] = (r # Nil /\ r.pc = "answer")]
        /\ Result' = [Result EXCEPT ![c] = r.value]
    BY Zenon, <1>3, <2>1, OneRequest
  <2>3. (r # Nil /\ r.pc = "answer") = TRUE
    BY Zenon, <1>3, <2>1
  <2>4. Called = [d \in Conns |-> Called[d]]
    BY Zenon DEF Called
  <2>5. Called' = Called
    BY Zenon, <1>2, <1>3, <2>2, <2>4, ExceptSame
  <2>6. Waiting'
    <3> SUFFICES ASSUME NEW d \in Conns, req'[d] # Nil
                 PROVE  /\ req'[d].pc # "answer" => req'[d].value = Nil
                        /\ req'[d].pc = "remote" => ~Rejects(req'[d].cmd)
      BY Zenon DEF Waiting
    <3>1. CASE d = c
      BY Zenon, <1>3, <2>2, <3>1
    <3>2. CASE d # c
      BY Zenon, <2>2, <3>2 DEF Waiting
    <3> QED
      BY Zenon, <3>1, <3>2
  <2> QED
    BY Zenon, <2>2, <2>3, <2>5, <2>6
<1>4. CASE /\ q.cmd.name = "SET" /\ Stored(shard_for(h), h, q.cmd.value)
           /\ req' = [req EXCEPT ![c].pc = "answer"]
  <2> DEFINE r == [q EXCEPT !.pc = "answer"]
  <2>1. r \in Request /\ r.cmd = q.cmd /\ r.pc = "answer" /\ r.value = Nil
    BY Zenon, <1>1 DEF Request
  <2>2. req' = [req EXCEPT ![c] = r]
    BY Zenon, <1>4
  <2> HIDE DEF r
  <2>3. /\ Waiting' /\ Called' = Called /\ Done' = [Done EXCEPT ![c] = TRUE]
        /\ Result' = [Result EXCEPT ![c] = Nil]
    BY Zenon, <1>3, <2>1, <2>2
  <2>4. Result = [d \in Conns |-> Result[d]]
    BY Zenon DEF Result
  <2>5. Result' = Result
    BY Zenon, <1>2, <2>3, <2>4, ExceptSame
  <2>6. Kind(q.cmd) = "set"
    BY <1>4 DEF Kind
  <2>7. Table' = [Table EXCEPT ![h] = q.cmd.value]
    BY Zenon, <1>1, <1>4, OneTableStep
  <2>8. ServiceSet(c)
    BY Zenon, <1>2, <2>3, <2>5, <2>6, <2>7 DEF ServiceSet, ServicePending
  <2> QED
    BY Zenon, <2>3, <2>8 DEF ServiceStep
<1>5. CASE /\ q.cmd.name = "GET" /\ UNCHANGED <<data, latest, past, kept, came>>
           /\ req' = [req EXCEPT ![c].pc = "answer", ![c].value = data[shard_for(h)][h]]
  <2> DEFINE r == [q EXCEPT !.pc = "answer", !.value = data[shard_for(h)][h]]
  <2>1. data[shard_for(h)][h] \in Values \cup {Nil}
    <3>1. shard_for(h) \in Shards
      BY Zenon, <1>1, OwnerFacts
    <3>2. data \in [Shards -> [Hashes -> Values \cup {Nil}]]
      BY Zenon DEF TypeOK
    <3>3. data[shard_for(h)] \in [Hashes -> Values \cup {Nil}]
      BY Zenon, <3>1, <3>2
    <3> QED
      BY Zenon, <1>1, <3>3
  <2>2. /\ r \in Request /\ r.cmd = q.cmd /\ r.pc = "answer"
        /\ r.value = data[shard_for(h)][h]
    BY Zenon, <1>1, <2>1 DEF Request
  <2>3. req' = [req EXCEPT ![c] = r]
    BY Zenon, <1>5
  <2>4. Table[h] = data[shard_for(h)][h]
    BY Zenon, <1>1 DEF Table
  <2>5. Table' = Table
    BY Zenon, <1>5 DEF Table
  <2> HIDE DEF r
  <2>6. /\ Waiting' /\ Called' = Called /\ Done' = [Done EXCEPT ![c] = TRUE]
        /\ Result' = [Result EXCEPT ![c] = Table[h]]
    BY Zenon, <1>3, <2>2, <2>3, <2>4
  <2>7. Kind(q.cmd) = "get"
    BY <1>5 DEF Kind
  <2>8. ServiceGet(c)
    BY Zenon, <1>2, <2>5, <2>6, <2>7 DEF ServiceGet, ServicePending
  <2> QED
    BY Zenon, <2>6, <2>8 DEF ServiceStep
<1> QED
  BY Zenon, <1>4, <1>5 DEF ExecuteAt

\* A request comes: the service is called.
LEMMA IssueStep ==
    ASSUME TypeOK, Waiting, NEW c \in Conns, Issue(c)
    PROVE  Waiting' /\ ServiceStep
<1>1. PICK s \in Shards, q \in Requests :
          /\ req' = [req EXCEPT ![c] = [pc |-> "handle", at |-> s, cmd |-> q,
                         value |-> Nil, todo |-> {}, count |-> 0]]
          /\ data' = data
  BY Zenon DEF Issue
<1> DEFINE r == [pc |-> "handle", at |-> s, cmd |-> q,
                 value |-> Nil, todo |-> {}, count |-> 0]
<1>2. q \in Command
  BY RoutingAssumption
<1>3. r \in Request /\ r.pc = "handle" /\ r.cmd = q /\ r.value = Nil
  BY Zenon, <1>2 DEF Request
<1>4. req' = [req EXCEPT ![c] = r] /\ req[c] = Nil
  BY Zenon, <1>1 DEF Issue
<1> HIDE DEF r
<1>5. r # Nil
  BY <1>3, AbsentAssumption
<1>6. /\ req'[c] = r /\ \A d \in Conns \ {c} : req'[d] = req[d]
      /\ Called' = [Called EXCEPT ![c] = Meaning(q)]
      /\ Done' = [Done EXCEPT ![c] = (r # Nil /\ r.pc = "answer")]
      /\ Result' = [Result EXCEPT ![c] = Nil]
  <2>1. /\ req'[c] = r /\ \A d \in Conns \ {c} : req'[d] = req[d]
        /\ Called' = [Called EXCEPT ![c] = IF r = Nil THEN Nil ELSE Meaning(r.cmd)]
        /\ Done' = [Done EXCEPT ![c] = (r # Nil /\ r.pc = "answer")]
        /\ Result' = [Result EXCEPT ![c] = IF r = Nil THEN Nil ELSE r.value]
    BY Zenon, <1>4, OneRequest
  <2>2. (IF r = Nil THEN Nil ELSE Meaning(r.cmd)) = Meaning(q)
    BY Zenon, <1>3, <1>5
  <2>3. (IF r = Nil THEN Nil ELSE r.value) = Nil
    BY Zenon, <1>3, <1>5
  <2> QED
    BY Zenon, <2>1, <2>2, <2>3
<1>7. (r # Nil /\ r.pc = "answer") = FALSE
  BY <1>3
<1>8. Called[c] = Nil /\ Done[c] = FALSE /\ Result[c] = Nil
  BY Zenon, <1>4 DEF Called, Done, Result
<1>9. Done = [d \in Conns |-> Done[d]] /\ Result = [d \in Conns |-> Result[d]]
  BY Zenon DEF Done, Result
<1>10. Done' = Done /\ Result' = Result
  BY Zenon, <1>6, <1>7, <1>8, <1>9, ExceptSame
<1>11. Table' = Table
  BY Zenon, <1>1 DEF Table
<1>12. Meaning(q) \in Whole!Command
  BY Zenon, <1>2, MeaningFacts
<1>13. ServiceCall(c)
  BY Zenon, <1>6, <1>8, <1>10, <1>11, <1>12 DEF ServiceCall
<1>14. Waiting'
  <2> SUFFICES ASSUME NEW d \in Conns, req'[d] # Nil
               PROVE  /\ req'[d].pc # "answer" => req'[d].value = Nil
                      /\ req'[d].pc = "remote" => ~Rejects(req'[d].cmd)
    BY Zenon DEF Waiting
  <2>1. CASE d = c
    BY <1>3, <1>6, <2>1
  <2>2. CASE d # c
    BY Zenon, <1>6, <2>2 DEF Waiting
  <2> QED
    BY Zenon, <2>1, <2>2
<1> QED
  BY Zenon, <1>13, <1>14 DEF ServiceStep

\* An answer goes out: the service returns.
LEMMA AnswerStep ==
    ASSUME TypeOK, Waiting, NEW c \in Conns, Answer(c)
    PROVE  Waiting' /\ ServiceStep
<1>1. req[c] # Nil /\ req[c].pc = "answer" /\ req' = [req EXCEPT ![c] = Nil] /\ data' = data
  BY Zenon DEF Answer
<1>2. /\ req'[c] = Nil /\ \A d \in Conns \ {c} : req'[d] = req[d]
      /\ Called' = [Called EXCEPT ![c] = Nil]
      /\ Done' = [Done EXCEPT ![c] = (Nil # Nil /\ Nil.pc = "answer")]
      /\ Result' = [Result EXCEPT ![c] = Nil]
  BY Zenon, <1>1, OneRequest
<1>3. (Nil # Nil /\ Nil.pc = "answer") = FALSE
  OBVIOUS
<1>4. req[c].cmd \in Command
  BY <1>1 DEF TypeOK, Request
<1>5. Called[c] = Meaning(req[c].cmd) /\ Done[c]
  BY Zenon, <1>1 DEF Called, Done
<1>6. Called[c] # Nil
  BY Zenon, <1>4, <1>5, MeaningFacts
<1>7. Table' = Table
  BY Zenon, <1>1 DEF Table
<1>8. ServiceReturn(c)
  BY Zenon, <1>2, <1>3, <1>5, <1>6, <1>7 DEF ServiceReturn
<1>9. Waiting'
  BY Zenon, <1>2 DEF Waiting
<1> QED
  BY Zenon, <1>8, <1>9 DEF ServiceStep

\* A shard loses a key: the service does.
LEMMA LoseStep ==
    ASSUME TypeOK, OneTable, Waiting, NEW s \in Shards, NEW h \in Hashes, Lose(s, h)
    PROVE  Waiting' /\ ServiceStep
<1>1. s = shard_for(h)
  BY DEF Lose, OneTable
<1>2. Stored(shard_for(h), h, Nil) /\ req' = req
  BY Zenon, <1>1 DEF Lose
<1>3. Table' = [Table EXCEPT ![h] = Nil]
  BY Zenon, <1>2, OneTableStep
<1>4. Called' = Called /\ Done' = Done /\ Result' = Result
  BY Zenon, <1>2 DEF Called, Done, Result
<1>5. Waiting'
  BY Zenon, <1>2 DEF Waiting
<1> QED
  BY Zenon, <1>3, <1>4, <1>5 DEF ServiceStep, ServiceLose

\* The handlers up to the point where they wait or answer, and INFO's rounds.
LEMMA HandlersStep ==
    ASSUME IInv, Waiting, NEW c \in Conns,
           \/ Reject(c) \/ Quit(c) \/ NodeInfo(c) \/ Forward(c) \/ Info(c) \/ Collected(c)
           \/ \E s \in Shards : Collect(c, s)
    PROVE  Waiting' /\ ServiceStep
<1>0. TypeOK
  BY Zenon DEF IInv
<1>1. req[c] # Nil /\ req[c].pc # "answer"
  BY Zenon DEF Reject, Quit, NodeInfo, Forward, Info, HandlingKey, Handling, Collected, Collect
<1>2. req[c] \in Request /\ req[c].value = Nil
  BY Zenon, <1>0, <1>1 DEF TypeOK, Waiting
<1>3. CASE Reject(c) \/ Quit(c) \/ NodeInfo(c) \/ Collected(c)
  <2> DEFINE r == [req[c] EXCEPT !.pc = "answer"]
  <2>1. /\ req' = [req EXCEPT ![c] = r] /\ data' = data
    BY <1>3 DEF Reject, Quit, NodeInfo, Collected, Answered
  <2>2. Rejects(req[c].cmd) \/ req[c].cmd.name \notin {"SET", "GET"}
    <3>1. Collected(c) => req[c].cmd.name = "INFO"
      BY Zenon, <1>1 DEF Collected, IInv, InFlightOK, InFlight
    <3> QED
      BY Zenon, <1>3, <3>1 DEF Reject, Quit, NodeInfo, Handling
  <2>3. Kind(req[c].cmd) = "other"
    BY Zenon, <2>2 DEF Kind
  <2>4. r \in Request /\ r.cmd = req[c].cmd /\ r.pc = "answer" /\ r.value = Nil
    BY <1>2 DEF Request
  <2> HIDE DEF r
  <2>5. r.pc # "remote"
    BY <2>4
  <2> QED
    BY Zenon, <1>0, <1>1, <2>1, <2>3, <2>4, <2>5, HandlerStep
<1>4. CASE Forward(c)
  <2> DEFINE r == [req[c] EXCEPT !.pc = "remote"]
  <2>1. req' = [req EXCEPT ![c] = r] /\ data' = data /\ ~Rejects(req[c].cmd)
    BY Zenon, <1>4 DEF Forward, HandlingKey, Handling
  <2>2. r \in Request /\ r.cmd = req[c].cmd /\ r.pc = "remote" /\ r.value = Nil
    BY <1>2 DEF Request
  <2> HIDE DEF r
  <2>3. r.pc # "answer"
    BY <2>2
  <2> QED
    BY Zenon, <1>0, <1>1, <2>1, <2>2, <2>3, HandlerStep
<1>5. CASE Info(c)
  <2> DEFINE r == [req[c] EXCEPT !.pc = "collect", !.todo = Shards]
  <2>1. req' = [req EXCEPT ![c] = r] /\ data' = data
    BY Zenon, <1>5 DEF Info
  <2>2. r \in Request /\ r.cmd = req[c].cmd /\ r.pc = "collect" /\ r.value = Nil
    BY Zenon, <1>2 DEF Request
  <2> HIDE DEF r
  <2>3. r.pc # "answer" /\ r.pc # "remote"
    BY <2>2
  <2> QED
    BY Zenon, <1>0, <1>1, <2>1, <2>2, <2>3, HandlerStep
<1>6. ASSUME NEW s \in Shards, Collect(c, s) PROVE Waiting' /\ ServiceStep
  <2> DEFINE q == req[c]
             t == q.todo \ {s}
             n == q.count + Cardinality(KeysAt(s))
             r == [q EXCEPT !.todo = t, !.count = n]
  <2>1. q.todo \in SUBSET Shards /\ q.count \in Nat /\ q.pc = "collect" /\ s \in q.todo
    BY <1>2, <1>6 DEF Request, Collect
  <2>2. Cardinality(KeysAt(s)) \in Nat
    <3>1. KeysAt(s) \in SUBSET Hashes
      BY DEF KeysAt
    <3> QED
      BY <3>1, HashSets
  <2>3. t \in SUBSET Shards /\ n \in Nat
    <3>1. t \in SUBSET Shards
      BY Zenon, <2>1
    <3>2. \A i, j \in Nat : i + j \in Nat
      OBVIOUS
    <3> QED
      BY Zenon, <2>1, <2>2, <3>1, <3>2
  <2>4. req' = [req EXCEPT ![c] = r] /\ data' = data
    BY Zenon, <1>6 DEF Collect
  <2> HIDE DEF t, n
  <2>5. r \in Request /\ r.cmd = q.cmd /\ r.pc = "collect" /\ r.value = Nil
    BY Zenon, <1>2, <2>1, <2>3 DEF Request
  <2> HIDE DEF r
  <2>6. r.pc # "answer" /\ r.pc # "remote"
    BY <2>5
  <2> QED
    BY Zenon, <1>0, <1>1, <2>4, <2>5, <2>6, HandlerStep
<1> QED
  BY Zenon, <1>3, <1>4, <1>5, <1>6

\* Every step of the shards is a step of the service or none.
LEMMA RoutingStep ==
    ASSUME IInv, Waiting, [Next]_vars PROVE Waiting' /\ ServiceStep
<1>1. TypeOK /\ OneTable
  BY Zenon DEF IInv
<1>2. ASSUME NEW c \in Conns, Local(c) \/ Remote(c) PROVE Waiting' /\ ServiceStep
  <2>1. /\ req[c] # Nil /\ req[c].pc \in {"handle", "remote"}
        /\ ExecuteAt(c, shard_for(req[c].cmd.key))
    BY Zenon, <1>2 DEF Local, Remote, HandlingKey, Handling
  <2>2. ~Rejects(req[c].cmd)
    BY Zenon, <1>2 DEF Local, Remote, HandlingKey, Handling, Waiting
  <2>3. req[c].cmd.key # Empty
    BY Zenon, <2>1, <2>2 DEF ExecuteAt, Rejects, SetRejects, GetRejects
  <2>4. req[c].pc # "answer"
    BY <2>1
  <2> QED
    BY Zenon, <1>1, <2>1, <2>2, <2>3, <2>4, ExecuteStep
<1>3. CASE UNCHANGED vars
  <2>1. data' = data /\ req' = req
    BY Zenon, <1>3 DEF vars
  <2> QED
    BY Zenon, <2>1 DEF Waiting, ServiceStep, ServiceIdle, Table, Called, Done, Result
<1>4. CASE Next
  BY Zenon, <1>1, <1>2, <1>4, IssueStep, HandlersStep, AnswerStep, LoseStep DEF Next
<1> QED
  BY Zenon, <1>3, <1>4

\* The shards together are one table, for every number of shards, hashes and
\* connections: handle_set and handle_get, forwarded with submit_to or not, take
\* effect once, at one moment, between the request and its answer.
THEOREM RoutingImplementsService == Spec => ImplementsService
<1>1. Init => Waiting /\ Whole!Init
  <2> SUFFICES ASSUME Init PROVE Waiting /\ Whole!Init
    OBVIOUS
  <2>1. req = [c \in Conns |-> Nil] /\ data = [s \in Shards |-> [h \in Hashes |-> Nil]]
    BY Zenon DEF Init
  <2>2. Waiting
    BY Zenon, <2>1 DEF Waiting
  <2>3. \A h \in Hashes : shard_for(h) \in Shards
    BY OwnerFacts
  <2>4. Table = [h \in Hashes |-> Nil]
    BY <2>1, <2>3 DEF Table
  <2>5. /\ Called = [c \in Conns |-> Nil] /\ Done = [c \in Conns |-> FALSE]
        /\ Result = [c \in Conns |-> Nil]
    BY Zenon, <2>1 DEF Called, Done, Result
  <2> QED
    BY Zenon, <2>2, <2>4, <2>5 DEF Whole!Init, Table, Called, Done, Result
<1>2. IInv /\ Waiting /\ [Next]_vars => Waiting' /\ ServiceStep
  BY RoutingStep
<1>3. ServiceStep => [Whole!Next]_(Whole!vars)
  BY ServiceSteps
<1> QED
  BY <1>1, <1>2, <1>3, RoutingInvariant, PTL DEF Spec, ImplementsService, Whole!Spec
=============================================================================
