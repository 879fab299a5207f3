------------------------- MODULE SocketServerProofs -------------------------
(***************************************************************************)
(* The life of the servers for any number of shards and clients.  The gate  *)
(* counts the accept loop, its round and the handlers exactly; from that it *)
(* follows that a server whose gate is empty is referred to by nobody.      *)
(***************************************************************************)
EXTENDS Startup, FiniteSetTheorems, TLAPS

\* How often the accept loop of shard s is in the gate.
Rounds(s) ==
    IF shard[s].accept \in {"wait", "got", "failed"} THEN 2
    ELSE IF shard[s].accept = "loop" THEN 1 ELSE 0

\* The connections whose handler is in the gate of shard s.
Held(s) == {c \in Conns : conn[c].pc \in {"processing", "finished"} /\ conn[c].at = s}

GateCounts == \A s \in Shards : shard[s].gate = Rounds(s) + Cardinality(Held(s))

\* An accepted connection is the one that its shard's accept loop has got.
AcceptedOK ==
    /\ \A c \in Conns :
           /\ conn[c].pc = "away" <=> conn[c].at = Nil
           /\ conn[c].pc = "accepted" => shard[conn[c].at].accept = "got"
           /\ conn[c].pc # "away" => shard[conn[c].at].accept # "idle"
    /\ \A c, d \in Conns : conn[c].pc = "accepted" /\ conn[d].pc = "accepted"
                           /\ conn[c].at = conn[d].at => c = d

\* Nobody refers to the server of shard s.
Unused(s) == shard[s].server = "none" \/ (shard[s].server = "stopping" /\ shard[s].gate = 0)

\* What each phase of init finds done.
PhasesOK ==
    \A s \in Shards :
        /\ main # "details" \/ s \in done => shard[s].details
        /\ main = "services" /\ ~failed /\ s \in done => shard[s].service = "up"
        /\ main \in {"start", "handler", "listen", "sleep"} => shard[s].service = "up"
        /\ main \in {"handler", "listen", "sleep"} => shard[s].server = "up"
        /\ main = "start" /\ s \in done => shard[s].server = "up"
        /\ main \in {"details", "services", "start", "handler"} => shard[s].accept = "idle"
        /\ main = "listen" /\ s \notin done => shard[s].accept = "idle"
        /\ main = "stop" /\ s \in done => Unused(s)
        /\ main = "destroy" => Unused(s)
        /\ main = "sleep" => s \notin done

\* A listener is opened only after every shard's service is up.
AcceptsReady ==
    \A s \in Shards : shard[s].accept # "idle" =>
        \A t \in Shards : shard[t].details /\ shard[t].service = "up"

IInv ==
    /\ TypeOK /\ GateCounts /\ CurrentIsLinked /\ AcceptedOK /\ PhasesOK
    /\ AcceptsReady /\ NoneOutlivesServer /\ StopReachesAll

-----------------------------------------------------------------------------
(* Types.                                                                    *)

Accepts == {"idle", "wait", "got", "failed", "loop", "ended"}

ShardRec ==
    [details : BOOLEAN, service : {"down", "starting", "up"},
     server : {"none", "up", "stopping"}, handler : BOOLEAN,
     accept : Accepts, gate : Nat, current : Nat]

ConnRec ==
    [pc : {"away", "accepted", "processing", "finished", "gone"},
     at : Shards \cup {Nil}, down : BOOLEAN]

\* The type invariant in terms of the records.
LEMMA TypeRecs ==
    TypeOK <=> /\ main \in Phases /\ done \subseteq Shards
               /\ failed \in BOOLEAN /\ aborted \in BOOLEAN
               /\ shard \in [Shards -> ShardRec] /\ conn \in [Conns -> ConnRec]
  BY DEF TypeOK, ShardRec, ConnRec, Accepts

\* A shard whose accept loop moves and whose gate counts keeps its type.
LEMMA LoopType ==
    ASSUME shard \in [Shards -> ShardRec], NEW s \in Shards,
           NEW a \in Accepts, NEW n \in Nat
    PROVE  [shard EXCEPT ![s].accept = a, ![s].gate = n] \in [Shards -> ShardRec]
<1> DEFINE f == [shard EXCEPT ![s].accept = a]
<1>1. f \in [Shards -> ShardRec]
  BY DEF ShardRec
<1>2. [shard EXCEPT ![s].accept = a, ![s].gate = n] = [f EXCEPT ![s].gate = n]
  OBVIOUS
<1> HIDE DEF f
<1>3. [f EXCEPT ![s].gate = n] \in [Shards -> ShardRec]
  BY <1>1 DEF ShardRec
<1> QED
  BY <1>2, <1>3

\* So does one that links a connection.
LEMMA FlagType ==
    ASSUME shard \in [Shards -> ShardRec], NEW s \in Shards
    PROVE  /\ [shard EXCEPT ![s].details = TRUE] \in [Shards -> ShardRec]
           /\ [shard EXCEPT ![s].handler = TRUE] \in [Shards -> ShardRec]
<1>1. shard[s] \in ShardRec
  BY Zenon
<1>2. /\ [shard[s] EXCEPT !.details = TRUE] \in ShardRec
      /\ [shard[s] EXCEPT !.handler = TRUE] \in ShardRec
  BY Zenon, <1>1 DEF ShardRec
<1> QED
  BY Zenon, <1>2

LEMMA LinkType ==
    ASSUME shard \in [Shards -> ShardRec], NEW s \in Shards,
           NEW a \in Accepts, NEW n \in Nat
    PROVE  [shard EXCEPT ![s].current = n, ![s].accept = a] \in [Shards -> ShardRec]
<1> DEFINE f == [shard EXCEPT ![s].current = n]
<1>1. f \in [Shards -> ShardRec]
  BY DEF ShardRec
<1>2. [shard EXCEPT ![s].current = n, ![s].accept = a] = [f EXCEPT ![s].accept = a]
  OBVIOUS
<1> HIDE DEF f
<1>3. [f EXCEPT ![s].accept = a] \in [Shards -> ShardRec]
  BY <1>1 DEF ShardRec
<1> QED
  BY <1>2, <1>3

-----------------------------------------------------------------------------
(* Facts about states.                                                       *)

\* What is counted is finite.
LEMMA FiniteParts ==
    ASSUME NEW s
    PROVE  /\ IsFiniteSet(Held(s)) /\ Cardinality(Held(s)) \in Nat
           /\ IsFiniteSet(Linked(s)) /\ Cardinality(Linked(s)) \in Nat
<1>1. Held(s) \subseteq Conns /\ Linked(s) \subseteq Conns
  BY DEF Held, Linked
<1>2. IsFiniteSet(Held(s)) /\ IsFiniteSet(Linked(s))
  BY <1>1, ServerAssumption, FS_Subset
<1> QED
  BY <1>2, FS_CardinalityType

\* A server that nobody refers to has no accept loop and no connections.
LEMMA UnusedFacts ==
    ASSUME IInv, NEW s \in Shards, Unused(s)
    PROVE  /\ shard[s].accept \in {"idle", "ended"}
           /\ \A c \in Conns : conn[c].at = s => conn[c].pc = "gone"
<1>1. CASE shard[s].server = "none"
  BY <1>1 DEF IInv, NoneOutlivesServer
<1>2. CASE shard[s].gate = 0
  <2>1. Rounds(s) \in 0..2 /\ 0 = Rounds(s) + Cardinality(Held(s))
    BY <1>2 DEF IInv, GateCounts, Rounds
  <2>2. Rounds(s) = 0 /\ Cardinality(Held(s)) = 0
    BY <2>1, FiniteParts
  <2>3. Held(s) = {}
    BY <2>2, FiniteParts, FS_EmptySet
  <2>4. shard[s].accept \in {"idle", "ended"}
    <3>1. shard[s].accept \in {"idle", "wait", "got", "failed", "loop", "ended"}
      BY DEF IInv, TypeOK
    <3> QED
      BY <2>2, <3>1 DEF Rounds
  <2>5. ASSUME NEW c \in Conns, conn[c].at = s PROVE conn[c].pc = "gone"
    <3>1. conn[c].pc \in {"away", "accepted", "processing", "finished", "gone"}
      BY DEF IInv, TypeOK
    <3>2. s # Nil
      BY ServerAssumption
    <3>3. conn[c].pc # "away" /\ conn[c].pc # "accepted"
      BY <2>4, <2>5, <3>2 DEF IInv, AcceptedOK
    <3>4. conn[c].pc \notin {"processing", "finished"}
      BY <2>3, <2>5 DEF Held
    <3> QED
      BY <3>1, <3>3, <3>4
  <2> QED
    BY <2>4, <2>5
<1> QED
  BY <1>1, <1>2 DEF Unused

-----------------------------------------------------------------------------
(* Kinds of steps.                                                           *)

\* A step of init that leaves loops, gates and connections alone.
LEMMA QuietStep ==
    ASSUME IInv, conn' = conn,
           \A t \in Shards : /\ shard'[t].accept = shard[t].accept
                             /\ shard'[t].gate = shard[t].gate
                             /\ shard'[t].current = shard[t].current
    PROVE  GateCounts' /\ CurrentIsLinked' /\ AcceptedOK'
<1>1. \A t \in Shards : Held(t)' = Held(t) /\ Linked(t)' = Linked(t)
  BY DEF Held, Linked
<1>2. \A t \in Shards : Rounds(t)' = Rounds(t)
  BY DEF Rounds
<1>3. GateCounts'
  BY <1>1, <1>2 DEF IInv, GateCounts
<1>4. CurrentIsLinked'
  BY <1>1 DEF IInv, CurrentIsLinked
<1>5. AcceptedOK'
  <2>1. \A c \in Conns : conn[c].pc # "away" => conn[c].at \in Shards
    BY DEF IInv, TypeOK, AcceptedOK
  <2> QED
    BY <2>1 DEF IInv, AcceptedOK
<1> QED
  BY <1>3, <1>4, <1>5

\* A step of the accept loop of shard s or of a connection there: the loop was not
\* over or the connection was not gone, so the server is in use.
LEMMA BusyStep ==
    ASSUME IInv, NEW s \in Shards, UNCHANGED <<main, done, failed>>,
           \/ shard[s].accept \notin {"idle", "ended"}
           \/ \E c \in Conns : conn[c].at = s /\ conn[c].pc # "gone",
           \A t \in Shards : t # s => shard'[t] = shard[t],
           /\ shard'[s].details = shard[s].details
           /\ shard'[s].service = shard[s].service
           /\ shard'[s].server = shard[s].server
           /\ shard'[s].accept # "idle",
           \A c \in Conns : conn'[c] = conn[c] \/ conn'[c].at = s
    PROVE  PhasesOK' /\ AcceptsReady' /\ NoneOutlivesServer'
<1>1. ~Unused(s)
  BY UnusedFacts
<1>2. shard[s].accept # "idle"
  BY ServerAssumption DEF IInv, AcceptedOK
<1>3. ASSUME NEW t \in Shards
      PROVE  /\ shard'[t].details = shard[t].details
             /\ shard'[t].service = shard[t].service
             /\ shard'[t].server = shard[t].server
             /\ shard'[t].accept # "idle" => shard[t].accept # "idle"
  BY <1>2
<1>4. PhasesOK'
  <2> SUFFICES ASSUME NEW t \in Shards
               PROVE  (/\ main # "details" \/ t \in done => shard[t].details
                       /\ main = "services" /\ ~failed /\ t \in done => shard[t].service = "up"
                       /\ main \in {"start", "handler", "listen", "sleep"} => shard[t].service = "up"
                       /\ main \in {"handler", "listen", "sleep"} => shard[t].server = "up"
                       /\ main = "start" /\ t \in done => shard[t].server = "up"
                       /\ main \in {"details", "services", "start", "handler"} => shard[t].accept = "idle"
                       /\ main = "listen" /\ t \notin done => shard[t].accept = "idle"
                       /\ main = "stop" /\ t \in done => Unused(t)
                       /\ main = "destroy" => Unused(t)
                       /\ main = "sleep" => t \notin done)'
    BY DEF PhasesOK
  <2>1. CASE t = s
    BY <1>1, <1>2, <1>3, <2>1 DEF IInv, PhasesOK
  <2>2. CASE t # s
    BY <2>2 DEF IInv, PhasesOK, Unused
  <2> QED
    BY <2>1, <2>2
<1>5. AcceptsReady'
  BY <1>2, <1>3 DEF IInv, AcceptsReady
<1>6. NoneOutlivesServer'
  <2> SUFFICES ASSUME NEW t \in Shards, shard'[t].server = "none"
               PROVE  /\ shard'[t].accept \in {"idle", "ended"}
                      /\ \A c \in Conns : conn'[c].at = t => conn'[c].pc = "gone"
    BY DEF NoneOutlivesServer
  <2>1. t # s
    BY <1>1 DEF Unused
  <2> QED
    BY <2>1 DEF IInv, NoneOutlivesServer
<1> QED
  BY <1>4, <1>5, <1>6

-----------------------------------------------------------------------------
(* The steps of init.                                                        *)

\* The initial state satisfies the invariant.
LEMMA InitIInv == Init => IInv
<1> SUFFICES ASSUME Init PROVE IInv
  OBVIOUS
<1>1. \A s \in Shards : Held(s) = {} /\ Linked(s) = {} /\ Rounds(s) = 0
  BY DEF Init, Held, Linked, Rounds
<1>2. GateCounts /\ CurrentIsLinked
  <2>1. Cardinality({}) = 0
    BY FS_EmptySet
  <2>2. \A s \in Shards : shard[s].gate = 0 /\ shard[s].current = 0
    BY DEF Init
  <2>3. \A s \in Shards : Cardinality(Held(s)) = 0 /\ Cardinality(Linked(s)) = 0
    BY <1>1, <2>1
  <2> QED
    BY <1>1, <2>2, <2>3 DEF GateCounts, CurrentIsLinked
<1>3. TypeOK
  BY Zenon DEF Init, TypeOK, Phases
<1>4. AcceptedOK /\ PhasesOK /\ AcceptsReady
  BY DEF Init, AcceptedOK, PhasesOK, AcceptsReady, Unused
<1>5. NoneOutlivesServer /\ StopReachesAll
  BY ServerAssumption DEF Init, NoneOutlivesServer, StopReachesAll
<1> QED
  BY <1>2, <1>3, <1>4, <1>5 DEF IInv

\* The phases that prepare a shard preserve the invariant.
LEMMA PreparePreserves ==
    ASSUME IInv, NEW s \in Shards,
           SetDetails(s) \/ ServiceStart(s) \/ StoreStart(s) \/ ServerStart(s) \/ SetHandler(s)
    PROVE  IInv'
<1> USE DEF Phase, PhaseDone
<1>1. SetDetails(s) \/ ServiceStart(s) \/ StoreStart(s) \/ ServerStart(s) \/ SetHandler(s)
  OBVIOUS
<1>0. TypeOK
  BY DEF IInv
<1>t. TypeOK'
  <2>0. shard \in [Shards -> ShardRec]
    BY <1>0, TypeRecs
  <2>1. shard' \in [Shards -> ShardRec]
    <3>1. CASE SetDetails(s)
      BY Zenon, <2>0, <3>1, FlagType DEF SetDetails
    <3>2. CASE ServiceStart(s)
      BY <2>0, <3>2 DEF ShardRec, ServiceStart
    <3>3. CASE StoreStart(s)
      BY <2>0, <3>3 DEF ShardRec, StoreStart
    <3>4. CASE ServerStart(s)
      BY <2>0, <3>4 DEF ShardRec, ServerStart
    <3>5. CASE SetHandler(s)
      BY Zenon, <2>0, <3>5, FlagType DEF SetHandler
    <3> QED
      BY <1>1, <3>1, <3>2, <3>3, <3>4, <3>5
  <2>2. /\ main' = main /\ done' \subseteq done \cup {s}
        /\ aborted' = aborted /\ conn' = conn
    BY <1>1 DEF SetDetails, ServiceStart, StoreStart, ServerStart, SetHandler
  <2>3. failed' \in BOOLEAN
    BY Zenon, <1>0, <1>1 DEF TypeOK, SetDetails, ServiceStart, StoreStart, ServerStart, SetHandler
  <2> QED
    BY <1>0, <2>1, <2>2, <2>3 DEF TypeOK, ShardRec, Accepts
<1>2. /\ conn' = conn /\ main' = main
      /\ main \in {"details", "services", "start", "handler"}
  BY <1>1 DEF SetDetails, ServiceStart, StoreStart, ServerStart, SetHandler
<1>3. \A t \in Shards : /\ shard'[t].accept = shard[t].accept
                        /\ shard'[t].gate = shard[t].gate
                        /\ shard'[t].current = shard[t].current
  <2>1. CASE SetDetails(s)
    BY <1>0, <2>1 DEF TypeOK, SetDetails
  <2>2. CASE ServiceStart(s)
    BY <1>0, <2>2 DEF TypeOK, ServiceStart
  <2>3. CASE StoreStart(s)
    BY <1>0, <2>3 DEF TypeOK, StoreStart
  <2>4. CASE ServerStart(s)
    BY <1>0, <2>4 DEF TypeOK, ServerStart
  <2>5. CASE SetHandler(s)
    BY <1>0, <2>5 DEF TypeOK, SetHandler
  <2> QED
    BY <1>1, <2>1, <2>2, <2>3, <2>4, <2>5
<1>4. GateCounts' /\ CurrentIsLinked' /\ AcceptedOK'
  BY <1>2, <1>3, QuietStep
<1>5. \A t \in Shards : shard'[t].accept = "idle"
  BY <1>2, <1>3 DEF IInv, PhasesOK
<1>6. \A c \in Conns : conn'[c].pc = "away" /\ conn'[c].at = Nil
  BY <1>2, <1>4, <1>5, <1>t DEF AcceptedOK, TypeOK
<1>7. AcceptsReady' /\ NoneOutlivesServer' /\ StopReachesAll'
  BY <1>5, <1>6, ServerAssumption DEF AcceptsReady, NoneOutlivesServer, StopReachesAll
<1>8. PhasesOK'
  <2>1. CASE SetDetails(s)
    BY <2>1, <1>5 DEF IInv, TypeOK, PhasesOK, SetDetails
  <2>2. CASE ServiceStart(s)
    BY <2>2, <1>5 DEF IInv, TypeOK, PhasesOK, ServiceStart
  <2>3. CASE StoreStart(s)
    BY <2>3, <1>5 DEF IInv, TypeOK, PhasesOK, StoreStart
  <2>4. CASE ServerStart(s)
    BY <2>4, <1>5 DEF IInv, TypeOK, PhasesOK, ServerStart
  <2>5. CASE SetHandler(s)
    BY <2>5, <1>5 DEF IInv, TypeOK, PhasesOK, SetHandler
  <2> QED
    BY <1>1, <2>1, <2>2, <2>3, <2>4, <2>5
<1> QED
  BY <1>t, <1>4, <1>7, <1>8 DEF IInv

\* Opening a listener preserves the invariant.
LEMMA ListenPreserves ==
    ASSUME IInv, NEW s \in Shards, Listen(s)
    PROVE  IInv'
<1> USE DEF Phase, PhaseDone
<1>0. TypeOK
  BY DEF IInv
<1>t. TypeOK'
  <2>1. shard' \in [Shards -> ShardRec]
    <3>1. CASE shard' = [shard EXCEPT ![s].accept = "wait", ![s].gate = @ + 2]
      <4> DEFINE n == shard[s].gate + 2
                 a == "wait"
      <4>1. n \in Nat /\ a \in Accepts
        BY <1>0 DEF TypeOK, Accepts
      <4>2. shard' = [shard EXCEPT ![s].accept = a, ![s].gate = n]
        BY <1>0, <3>1 DEF TypeOK
      <4> HIDE DEF n, a
      <4> QED
        BY Zenon, <1>0, <4>1, <4>2, LoopType, TypeRecs
    <3>2. CASE shard' = shard
      BY <1>0, <3>2 DEF TypeOK, ShardRec, Accepts
    <3> QED
      BY <3>1, <3>2 DEF Listen
  <2>2. main' = main /\ done' = done \cup {s} /\ aborted' = aborted /\ conn' = conn
    BY DEF Listen
  <2>3. failed' \in BOOLEAN
    BY Zenon, <1>0 DEF Listen, TypeOK
  <2> QED
    BY <1>0, <2>1, <2>2, <2>3 DEF TypeOK, ShardRec, Accepts
<1>1. main = "listen" /\ main' = main /\ s \notin done /\ done' = done \cup {s} /\ conn' = conn
  BY DEF Listen
<1>2. shard[s].accept = "idle"
  BY <1>1 DEF IInv, PhasesOK
<1>3. \A t \in Shards : shard[t].service = "up" /\ shard[t].server = "up" /\ shard[t].details
  BY <1>1 DEF IInv, PhasesOK
<1>4. ASSUME NEW t \in Shards
      PROVE  /\ shard'[t].details = shard[t].details
             /\ shard'[t].service = shard[t].service
             /\ shard'[t].server = shard[t].server
             /\ shard'[t].current = shard[t].current
             /\ \/ /\ shard'[t].accept = shard[t].accept
                   /\ shard'[t].gate = shard[t].gate
                \/ /\ t = s
                   /\ shard'[t].accept = "wait"
                   /\ shard'[t].gate = shard[t].gate + 2
  BY DEF Listen, IInv, TypeOK
<1>5. ASSUME NEW t \in Shards PROVE Held(t)' = Held(t) /\ Linked(t)' = Linked(t)
  BY <1>1 DEF Held, Linked
<1>6. GateCounts'
  <2> SUFFICES ASSUME NEW t \in Shards
               PROVE  shard'[t].gate = Rounds(t)' + Cardinality(Held(t))
    BY <1>5 DEF GateCounts
  <2>1. shard[t].gate = Rounds(t) + Cardinality(Held(t)) /\ Cardinality(Held(t)) \in Nat
    BY FiniteParts DEF IInv, GateCounts
  <2> QED
    BY <1>2, <1>4, <2>1 DEF Rounds
<1>7. CurrentIsLinked'
  BY <1>4, <1>5 DEF IInv, CurrentIsLinked
<1>8. AcceptedOK'
  <2>1. \A c \in Conns : conn[c].pc # "away" => conn[c].at \in Shards /\ conn[c].at # s
    BY <1>2 DEF IInv, TypeOK, AcceptedOK
  <2> QED
    BY <1>1, <1>4, <2>1 DEF IInv, AcceptedOK
<1>9. PhasesOK' /\ AcceptsReady'
  BY <1>1, <1>3, <1>4 DEF IInv, PhasesOK, AcceptsReady
<1>10. NoneOutlivesServer'
  BY <1>3, <1>4 DEF NoneOutlivesServer
<1>11. StopReachesAll'
  <2>1. \A c \in Conns : conn[c].pc = "processing" => conn[c].at \in Shards
    BY DEF IInv, TypeOK, AcceptedOK
  <2> QED
    BY <1>1, <1>3, <1>4, <2>1 DEF StopReachesAll, Closed
<1> QED
  BY <1>t, <1>6, <1>7, <1>8, <1>9, <1>10, <1>11 DEF IInv

\* What changes no shard and no connection preserves the invariant.
LEMMA ControlPreserves ==
    ASSUME IInv, Continue \/ Signal \/ Wake
                 \/ \E s \in Shards : Stopped(s) \/ LogCounters(s)
    PROVE  IInv'
<1>1. shard' = shard /\ conn' = conn
  BY DEF Continue, Signal, Wake, Stopped, LogCounters, PhaseDone
<1>2. GateCounts' /\ CurrentIsLinked' /\ AcceptedOK'
  BY <1>1, QuietStep
<1>3. AcceptsReady' /\ NoneOutlivesServer' /\ StopReachesAll'
  BY <1>1 DEF IInv, AcceptsReady, NoneOutlivesServer, StopReachesAll, Closed
<1>4. CASE Continue
  <2>1. TypeOK'
    BY <1>1, <1>4 DEF IInv, TypeOK, Continue, After, Phases
  <2>2. PhasesOK'
    <3>1. main \in Phases /\ done = Shards /\ done' = {} /\ main \notin {"sleep", "exit"}
      BY <1>4 DEF IInv, TypeOK, Continue, AllDone
    <3>2. main' = IF failed /\ main \in {"services", "listen"} THEN "stop" ELSE After(main)
      BY <1>4 DEF Continue
    <3>3. main' # "details" /\ \A t \in Shards : shard[t].details
      BY <3>1, <3>2 DEF After, Phases, IInv, PhasesOK
    <3>4. ASSUME NEW t \in Shards
          PROVE  /\ main' \in {"start", "handler", "listen", "sleep"} => shard[t].service = "up"
                 /\ main' \in {"handler", "listen", "sleep"} => shard[t].server = "up"
      BY Zenon, <3>1, <3>2 DEF After, Phases, IInv, PhasesOK
    <3>5. ASSUME NEW t \in Shards
          PROVE  /\ main' \in {"details", "services", "start", "handler", "listen"}
                      => shard[t].accept = "idle"
                 /\ main' = "destroy" => Unused(t)
      BY Zenon, <3>1, <3>2 DEF After, Phases, IInv, PhasesOK
    <3> QED
      BY <1>1, <3>1, <3>3, <3>4, <3>5 DEF PhasesOK, Unused
  <2> QED
    BY <1>2, <1>3, <2>1, <2>2 DEF IInv
<1>5. CASE Signal
  <2>1. TypeOK' /\ PhasesOK'
    BY <1>5 DEF IInv, TypeOK, PhasesOK, Signal, Unused
  <2> QED
    BY <1>2, <1>3, <2>1 DEF IInv
<1>6. CASE Wake
  <2>0. main = "sleep" /\ main' = "stop" /\ UNCHANGED <<done, failed, shard>>
    BY <1>6 DEF Wake
  <2>1. TypeOK'
    BY <1>6 DEF IInv, TypeOK, Phases, Wake
  <2>2. \A t \in Shards : t \notin done
    BY <2>0 DEF IInv, PhasesOK
  <2>3. PhasesOK'
    BY Zenon, <2>0, <2>2 DEF IInv, PhasesOK
  <2> QED
    BY <1>2, <1>3, <2>1, <2>3 DEF IInv
<1>7. ASSUME NEW s \in Shards, Stopped(s) PROVE IInv'
  <2>1. TypeOK'
    BY <1>7 DEF IInv, TypeOK, Stopped, Phase, PhaseDone
  <2>2. PhasesOK'
    BY Zenon, <1>7 DEF IInv, PhasesOK, Stopped, Unused, Phase, PhaseDone
  <2> QED
    BY <1>2, <1>3, <2>1, <2>2 DEF IInv
<1>8. ASSUME NEW s \in Shards, LogCounters(s) PROVE IInv'
  <2>1. TypeOK'
    BY <1>8 DEF IInv, TypeOK, LogCounters, Phase, PhaseDone
  <2>2. PhasesOK'
    BY <1>8 DEF IInv, PhasesOK, LogCounters, Unused, Phase, PhaseDone
  <2> QED
    BY <1>2, <1>3, <2>1, <2>2 DEF IInv
<1> QED
  BY <1>4, <1>5, <1>6, <1>7, <1>8

\* Destroying a server preserves the invariant: its gate is empty.
LEMMA DestroyPreserves ==
    ASSUME IInv, NEW s \in Shards, Destroy(s)
    PROVE  IInv'
<1> USE DEF Phase, PhaseDone
<1>0. TypeOK
  BY DEF IInv
<1>1. /\ main = "destroy" /\ main' = main /\ done' = done \cup {s}
      /\ failed' = failed /\ aborted' = aborted /\ conn' = conn
  BY DEF Destroy
<1>2. TypeOK'
  <2>1. shard' \in [Shards -> ShardRec]
    <3> DEFINE f == [shard EXCEPT ![s].server = "none"]
               b == FALSE
    <3>1. f \in [Shards -> ShardRec]
      BY <1>0, TypeRecs DEF ShardRec
    <3>2. shard' = [f EXCEPT ![s].handler = b] /\ b \in BOOLEAN
      BY <1>0 DEF Destroy, TypeOK
    <3> HIDE DEF f, b
    <3> QED
      BY <3>1, <3>2 DEF ShardRec
  <2> QED
    BY <1>0, <1>1, <2>1 DEF TypeOK, ShardRec, Accepts
<1>3. ASSUME NEW t \in Shards
      PROVE  /\ shard'[t].details = shard[t].details
             /\ shard'[t].service = shard[t].service
             /\ shard'[t].accept = shard[t].accept
             /\ shard'[t].gate = shard[t].gate
             /\ shard'[t].current = shard[t].current
             /\ shard'[t].server = IF t = s THEN "none" ELSE shard[t].server
  BY <1>0 DEF Destroy, TypeOK
<1>4. GateCounts' /\ CurrentIsLinked' /\ AcceptedOK'
  BY <1>1, <1>3, QuietStep
<1>5. Unused(s)
  BY <1>1 DEF IInv, PhasesOK
<1>6. PhasesOK' /\ AcceptsReady'
  BY <1>1, <1>3 DEF IInv, PhasesOK, AcceptsReady, Unused
<1>7. NoneOutlivesServer'
  BY <1>1, <1>3, <1>5, UnusedFacts DEF IInv, NoneOutlivesServer
<1>8. StopReachesAll'
  <2>1. \A c \in Conns : conn[c].pc = "processing" => conn[c].at \in Shards /\ conn[c].at # s
    BY <1>0, <1>5, UnusedFacts DEF IInv, TypeOK, AcceptedOK
  <2> QED
    BY <1>1, <1>3, <2>1 DEF IInv, StopReachesAll, Closed
<1> QED
  BY <1>2, <1>4, <1>6, <1>7, <1>8 DEF IInv

\* Stopping a server preserves the invariant.
LEMMA StopPreserves ==
    ASSUME IInv, NEW s \in Shards, Stop(s)
    PROVE  IInv'
<1>0. TypeOK
  BY DEF IInv
<1>1. /\ main = "stop" /\ s \notin done /\ UNCHANGED <<main, done, failed, aborted>>
      /\ shard[s].server = "up"
  BY DEF Stop, Phase
<1>2. TypeOK'
  <2>1. shard' \in [Shards -> ShardRec]
    <3> DEFINE f == [shard EXCEPT ![s].server = "stopping"]
               a == IF shard[s].accept = "wait" THEN "failed" ELSE shard[s].accept
    <3>1. f \in [Shards -> ShardRec]
      BY <1>0, TypeRecs DEF ShardRec
    <3>2. a \in Accepts
      BY <1>0 DEF TypeOK, Accepts
    <3>3. shard' = [f EXCEPT ![s].accept = a]
      BY <1>0 DEF Stop, TypeOK
    <3> HIDE DEF f, a
    <3> QED
      BY <3>1, <3>2, <3>3 DEF ShardRec
  <2>2. conn' \in [Conns -> ConnRec]
    <3>1. conn \in [Conns -> ConnRec]
      BY <1>0, TypeRecs
    <3>2. \A c \in Conns : [conn[c] EXCEPT !.down = TRUE] \in ConnRec
      BY Zenon, <3>1 DEF ConnRec
    <3> QED
      BY <3>1, <3>2 DEF Stop
  <2> QED
    BY <1>0, <1>1, <2>1, <2>2 DEF TypeOK, ShardRec, ConnRec, Accepts
<1>3. ASSUME NEW t \in Shards
      PROVE  /\ shard'[t].details = shard[t].details
             /\ shard'[t].service = shard[t].service
             /\ shard'[t].gate = shard[t].gate
             /\ shard'[t].current = shard[t].current
             /\ t # s => shard'[t] = shard[t]
  BY <1>0 DEF Stop, TypeOK
<1>4. /\ shard'[s].server = "stopping"
      /\ shard'[s].accept = IF shard[s].accept = "wait" THEN "failed" ELSE shard[s].accept
  BY <1>0 DEF Stop, TypeOK
<1>5. ASSUME NEW c \in Conns
      PROVE  /\ conn'[c].pc = conn[c].pc
             /\ conn'[c].at = conn[c].at
             /\ conn[c].down => conn'[c].down
             /\ c \in Linked(s) => conn'[c].down
  <2>1. conn[c] \in ConnRec
    BY <1>0, TypeRecs
  <2>2. conn'[c] = IF c \in Linked(s) THEN [conn[c] EXCEPT !.down = TRUE] ELSE conn[c]
    BY DEF Stop
  <2> QED
    BY <2>1, <2>2 DEF ConnRec
<1>6. ASSUME NEW t \in Shards PROVE Held(t)' = Held(t) /\ Linked(t)' = Linked(t)
  BY <1>5 DEF Held, Linked
<1>7. ASSUME NEW t \in Shards PROVE Rounds(t)' = Rounds(t)
  BY <1>3, <1>4 DEF Rounds
<1>8. GateCounts'
  BY <1>3, <1>6, <1>7 DEF IInv, GateCounts
<1>9. CurrentIsLinked'
  BY <1>3, <1>6 DEF IInv, CurrentIsLinked
<1>10. ASSUME NEW t \in Shards
       PROVE  /\ shard'[t].accept = "got" <=> shard[t].accept = "got"
              /\ shard'[t].accept = "idle" <=> shard[t].accept = "idle"
              /\ shard[t].accept = "ended" => shard'[t].accept = "ended"
              /\ shard'[t].server = "none" <=> shard[t].server = "none"
  BY <1>1, <1>3, <1>4
<1>11. AcceptedOK'
  <2>1. \A c \in Conns : conn[c].pc # "away" => conn[c].at \in Shards
    BY <1>0 DEF IInv, TypeOK, AcceptedOK
  <2>2. ASSUME NEW c \in Conns
        PROVE  /\ conn'[c].pc = "away" <=> conn'[c].at = Nil
               /\ conn'[c].pc = "accepted" => shard'[conn'[c].at].accept = "got"
               /\ conn'[c].pc # "away" => shard'[conn'[c].at].accept # "idle"
    <3>1. /\ conn[c].pc = "away" <=> conn[c].at = Nil
          /\ conn[c].pc = "accepted" => shard[conn[c].at].accept = "got"
          /\ conn[c].pc # "away" => shard[conn[c].at].accept # "idle"
      BY Zenon DEF IInv, AcceptedOK
    <3>2. conn'[c].pc = conn[c].pc /\ conn'[c].at = conn[c].at
      BY Zenon, <1>5
    <3>3. conn[c].pc # "away" =>
              /\ shard'[conn[c].at].accept = "got" <=> shard[conn[c].at].accept = "got"
              /\ shard'[conn[c].at].accept = "idle" <=> shard[conn[c].at].accept = "idle"
      BY Zenon, <1>10, <2>1
    <3> QED
      BY Zenon, <3>1, <3>2, <3>3
  <2> QED
    BY <1>5, <2>2 DEF IInv, AcceptedOK
<1>12. PhasesOK'
  <2>1. ASSUME NEW t \in Shards
        PROVE  shard'[t].details /\ (t \in done => Unused(t)')
    <3>1. shard[t].details /\ (t \in done => Unused(t))
      BY <1>1 DEF IInv, PhasesOK
    <3>2. shard'[t].details = shard[t].details
      BY Zenon, <1>3
    <3>3. t \in done => t # s /\ shard'[t] = shard[t]
      BY Zenon, <1>1, <1>3
    <3>4. t \in done => Unused(t)'
      BY Zenon, <3>1, <3>3 DEF Unused
    <3> QED
      BY Zenon, <3>1, <3>2, <3>4
  <2>2. main' = "stop" /\ done' = done
    BY <1>1
  <2> HIDE DEF Unused
  <2> QED
    BY <2>1, <2>2 DEF PhasesOK
<1>13. AcceptsReady'
  BY <1>3, <1>10 DEF IInv, AcceptsReady
<1>14. NoneOutlivesServer'
  BY <1>5, <1>10 DEF IInv, NoneOutlivesServer
<1>15. StopReachesAll'
  <2> SUFFICES ASSUME NEW c \in Conns, conn'[c].pc = "processing",
                      shard'[conn'[c].at].server # "up"
               PROVE  conn'[c].down
    BY DEF StopReachesAll, Closed
  <2>1. conn[c].pc = "processing" /\ conn[c].at \in Shards /\ conn'[c].at = conn[c].at
    BY <1>0, <1>5 DEF IInv, TypeOK, AcceptedOK
  <2>2. CASE conn[c].at = s
    BY <1>5, <2>1, <2>2 DEF Linked
  <2>3. CASE conn[c].at # s
    BY <1>3, <1>5, <2>1, <2>3 DEF IInv, StopReachesAll, Closed
  <2> QED
    BY <2>2, <2>3
<1> QED
  BY <1>2, <1>8, <1>9, <1>11, <1>12, <1>13, <1>14, <1>15 DEF IInv

-----------------------------------------------------------------------------
(* The accept loop.                                                          *)

\* A step of the accept loop that touches no connection.
LEMMA LoopStep ==
    ASSUME IInv, NEW s \in Shards, UNCHANGED <<main, done, failed, conn>>,
           shard[s].accept \in {"wait", "failed", "loop"},
           \A t \in Shards : t # s => shard'[t] = shard[t],
           /\ shard'[s].details = shard[s].details
           /\ shard'[s].service = shard[s].service
           /\ shard'[s].server = shard[s].server
           /\ shard'[s].current = shard[s].current
           /\ shard'[s].accept \notin {"idle", "got"}
           /\ shard'[s].gate + Rounds(s) = shard[s].gate + Rounds(s)'
           /\ shard'[s].gate \in Nat
    PROVE  /\ GateCounts' /\ CurrentIsLinked' /\ AcceptedOK'
           /\ PhasesOK' /\ AcceptsReady' /\ NoneOutlivesServer' /\ StopReachesAll'
<1>0. TypeOK
  BY DEF IInv
<1>1. ASSUME NEW t \in Shards
      PROVE  Held(t)' = Held(t) /\ Linked(t)' = Linked(t) /\ Cardinality(Held(t)) \in Nat
  BY Zenon, FiniteParts DEF Held, Linked
<1>2. GateCounts'
  <2> SUFFICES ASSUME NEW t \in Shards
               PROVE  shard'[t].gate = Rounds(t)' + Cardinality(Held(t))
    BY <1>1 DEF GateCounts
  <2>1. shard[t].gate = Rounds(t) + Cardinality(Held(t))
    BY DEF IInv, GateCounts
  <2>2. CASE t = s
    <3>1. Rounds(s) \in Nat /\ Rounds(s)' \in Nat
      BY DEF Rounds
    <3> QED
      BY <1>1, <2>1, <2>2, <3>1
  <2>3. CASE t # s
    <3>1. Rounds(t)' = Rounds(t)
      BY <2>3 DEF Rounds
    <3> QED
      BY <2>1, <2>3, <3>1
  <2> QED
    BY <2>2, <2>3
<1>3. CurrentIsLinked'
  BY <1>1 DEF IInv, CurrentIsLinked
<1>4. AcceptedOK'
  <2>1. \A c \in Conns : conn[c].pc # "away" => conn[c].at \in Shards
    BY Zenon, <1>0 DEF IInv, TypeOK, AcceptedOK
  <2>2. \A c \in Conns : conn[c].pc = "accepted" => conn[c].at # s
    BY Zenon DEF IInv, AcceptedOK
  <2> QED
    BY Zenon, <2>1, <2>2 DEF IInv, AcceptedOK
<1>5. PhasesOK' /\ AcceptsReady' /\ NoneOutlivesServer'
  BY Zenon, BusyStep
<1>6. StopReachesAll'
  <2>1. \A c \in Conns : conn[c].pc = "processing" => conn[c].at \in Shards
    BY Zenon, <1>0 DEF IInv, TypeOK, AcceptedOK
  <2> QED
    BY Zenon, <2>1 DEF IInv, StopReachesAll, Closed
<1> QED
  BY Zenon, <1>2, <1>3, <1>4, <1>5, <1>6

\* A failed accept, the round that it ends and the next round preserve the
\* invariant.
LEMMA LoopPreserves ==
    ASSUME IInv, NEW s \in Shards, AcceptError(s) \/ AcceptFailed(s) \/ Loop(s)
    PROVE  IInv'
<1>0. TypeOK /\ shard \in [Shards -> ShardRec]
  BY TypeRecs DEF IInv
<1>1. UNCHANGED <<main, done, failed, aborted, conn>>
  BY DEF AcceptError, AcceptFailed, Loop
<1>2. /\ shard[s].gate = Rounds(s) + Cardinality(Held(s))
      /\ Cardinality(Held(s)) \in Nat
  BY FiniteParts DEF IInv, GateCounts
<1>3. PICK a \in Accepts, n \in Nat :
         /\ shard' = [shard EXCEPT ![s].accept = a, ![s].gate = n]
         /\ a \notin {"idle", "got"}
         /\ shard[s].accept \in {"wait", "failed", "loop"}
         /\ n + Rounds(s) = shard[s].gate +
               (IF a \in {"wait", "got", "failed"} THEN 2 ELSE IF a = "loop" THEN 1 ELSE 0)
  <2>1. CASE AcceptError(s)
    <3>1. shard' = [shard EXCEPT ![s].accept = "failed", ![s].gate = shard[s].gate]
      BY Zenon, <1>0, <2>1 DEF AcceptError, ShardRec
    <3>2. shard[s].accept = "wait" /\ shard[s].gate \in Nat
      BY <1>0, <2>1 DEF AcceptError, TypeOK
    <3> QED
      BY Zenon, <3>1, <3>2 DEF Accepts, Rounds
  <2>2. CASE AcceptFailed(s)
    <3>1. shard' = [shard EXCEPT ![s].accept = "loop", ![s].gate = shard[s].gate - 1]
      BY <1>0, <2>2 DEF AcceptFailed, ShardRec
    <3>2. shard[s].accept = "failed" /\ Rounds(s) = 2
      BY <2>2 DEF AcceptFailed, Rounds
    <3>3. shard[s].gate - 1 \in Nat
      BY <1>2, <3>2
    <3> DEFINE n == shard[s].gate - 1
               a == "loop"
    <3>4. /\ n \in Nat /\ a \in Accepts /\ a \notin {"idle", "got"}
          /\ shard' = [shard EXCEPT ![s].accept = a, ![s].gate = n]
          /\ n + Rounds(s) = shard[s].gate +
                (IF a \in {"wait", "got", "failed"} THEN 2 ELSE IF a = "loop" THEN 1 ELSE 0)
      BY <1>2, <3>1, <3>2, <3>3 DEF Accepts
    <3> HIDE DEF n, a
    <3> QED
      BY Zenon, <3>2, <3>4
  <2>3. CASE Loop(s) /\ Closed(s)
    <3>1. shard' = [shard EXCEPT ![s].accept = "ended", ![s].gate = shard[s].gate - 1]
      BY <1>0, <2>3 DEF Loop, ShardRec
    <3>2. shard[s].accept = "loop" /\ Rounds(s) = 1
      BY <2>3 DEF Loop, Rounds
    <3>3. shard[s].gate - 1 \in Nat
      BY <1>2, <3>2
    <3> DEFINE n == shard[s].gate - 1
               a == "ended"
    <3>4. /\ n \in Nat /\ a \in Accepts /\ a \notin {"idle", "got"}
          /\ shard' = [shard EXCEPT ![s].accept = a, ![s].gate = n]
          /\ n + Rounds(s) = shard[s].gate +
                (IF a \in {"wait", "got", "failed"} THEN 2 ELSE IF a = "loop" THEN 1 ELSE 0)
      BY <1>2, <3>1, <3>2, <3>3 DEF Accepts
    <3> HIDE DEF n, a
    <3> QED
      BY Zenon, <3>2, <3>4
  <2>4. CASE Loop(s) /\ ~Closed(s)
    <3>1. shard' = [shard EXCEPT ![s].accept = "wait", ![s].gate = shard[s].gate + 1]
      BY <1>0, <2>4 DEF Loop, ShardRec
    <3>2. shard[s].accept = "loop" /\ Rounds(s) = 1
      BY <2>4 DEF Loop, Rounds
    <3>3. shard[s].gate + 1 \in Nat
      BY <1>2, <3>2
    <3> DEFINE n == shard[s].gate + 1
               a == "wait"
    <3>4. /\ n \in Nat /\ a \in Accepts /\ a \notin {"idle", "got"}
          /\ shard' = [shard EXCEPT ![s].accept = a, ![s].gate = n]
          /\ n + Rounds(s) = shard[s].gate +
                (IF a \in {"wait", "got", "failed"} THEN 2 ELSE IF a = "loop" THEN 1 ELSE 0)
      BY <1>2, <3>1, <3>2, <3>3 DEF Accepts
    <3> HIDE DEF n, a
    <3> QED
      BY Zenon, <3>2, <3>4
  <2> QED
    BY Zenon, <2>1, <2>2, <2>3, <2>4
<1>4. TypeOK'
  <2>1. shard' \in [Shards -> ShardRec]
    BY Zenon, <1>0, <1>3, LoopType
  <2> QED
    BY <1>0, <1>1, <2>1 DEF TypeOK, ShardRec, Accepts
<1>5. /\ shard'[s].details = shard[s].details
      /\ shard'[s].service = shard[s].service
      /\ shard'[s].server = shard[s].server
      /\ shard'[s].current = shard[s].current
      /\ shard'[s].accept = a
      /\ shard'[s].gate = n
      /\ \A t \in Shards : t # s => shard'[t] = shard[t]
  BY <1>0, <1>3 DEF ShardRec
<1>6. shard'[s].gate + Rounds(s) = shard[s].gate + Rounds(s)'
  BY <1>3, <1>5 DEF Rounds
<1>7. /\ GateCounts' /\ CurrentIsLinked' /\ AcceptedOK'
      /\ PhasesOK' /\ AcceptsReady' /\ NoneOutlivesServer' /\ StopReachesAll'
  BY Zenon, <1>1, <1>3, <1>5, <1>6, LoopStep
<1> QED
  BY <1>4, <1>7 DEF IInv

-----------------------------------------------------------------------------
(* Steps of a connection.                                                    *)

\* A step that moves connection c of shard s on to q, when the counts agree after it.
LEMMA ConnStep ==
    ASSUME IInv, NEW s \in Shards, NEW c \in Conns, NEW q,
           UNCHANGED <<main, done, failed>>,
           conn[c].pc \in {"accepted", "processing", "finished"}, conn[c].at = s,
           q \in {"processing", "finished", "gone"},
           conn' = [conn EXCEPT ![c].pc = q],
           \A t \in Shards : t # s => shard'[t] = shard[t],
           /\ shard'[s].details = shard[s].details
           /\ shard'[s].service = shard[s].service
           /\ shard'[s].server = shard[s].server
           /\ shard'[s].accept # "idle"
           /\ shard'[s].accept # shard[s].accept => conn[c].pc = "accepted",
           shard'[s].gate = Rounds(s)' + Cardinality(Held(s)'),
           shard'[s].current = Cardinality(Linked(s)'),
           q = "processing" => ~Closed(s)
    PROVE  /\ GateCounts' /\ CurrentIsLinked' /\ AcceptedOK'
           /\ PhasesOK' /\ AcceptsReady' /\ NoneOutlivesServer' /\ StopReachesAll'
<1>0. TypeOK
  BY DEF IInv
<1>1. /\ \A d \in Conns : d # c => conn'[d] = conn[d]
      /\ conn'[c].pc = q /\ conn'[c].at = s
  BY <1>0 DEF TypeOK
<1>2. ASSUME NEW t \in Shards, t # s
      PROVE  Held(t)' = Held(t) /\ Linked(t)' = Linked(t) /\ Rounds(t)' = Rounds(t)
  <2>1. Held(t)' = Held(t)
    BY <1>1, <1>2 DEF Held
  <2>2. Linked(t)' = Linked(t)
    BY <1>1, <1>2 DEF Linked
  <2>3. Rounds(t)' = Rounds(t)
    BY <1>2 DEF Rounds
  <2> QED
    BY <2>1, <2>2, <2>3
<1>3. GateCounts'
  BY <1>2 DEF IInv, GateCounts
<1>4. CurrentIsLinked'
  BY <1>2 DEF IInv, CurrentIsLinked
<1>5. AcceptedOK'
  <2>1. ASSUME NEW d \in Conns
        PROVE  /\ conn'[d].pc = "away" <=> conn'[d].at = Nil
               /\ conn'[d].pc = "accepted" => shard'[conn'[d].at].accept = "got"
               /\ conn'[d].pc # "away" => shard'[conn'[d].at].accept # "idle"
    <3>1. CASE d = c
      BY <1>1, <3>1, ServerAssumption
    <3>2. CASE d # c
      <4>1. conn'[d] = conn[d] /\ (conn[d].pc # "away" => conn[d].at \in Shards)
        BY <1>0, <1>1, <3>2 DEF IInv, TypeOK, AcceptedOK
      <4>2. CASE conn[d].at = s
        BY <3>2, <4>1, <4>2 DEF IInv, AcceptedOK
      <4>3. CASE conn[d].at # s
        BY <4>1, <4>3 DEF IInv, AcceptedOK
      <4> QED
        BY Zenon, <4>2, <4>3
    <3> QED
      BY <3>1, <3>2
  <2>2. \A d, e \in Conns : conn'[d].pc = "accepted" /\ conn'[e].pc = "accepted"
                            /\ conn'[d].at = conn'[e].at => d = e
    BY <1>1 DEF IInv, AcceptedOK
  <2> QED
    BY <2>1, <2>2 DEF AcceptedOK
<1>6. PhasesOK' /\ AcceptsReady' /\ NoneOutlivesServer'
  <2>1. \A d \in Conns : conn'[d] = conn[d] \/ conn'[d].at = s
    BY <1>1
  <2>2. \E d \in Conns : conn[d].at = s /\ conn[d].pc # "gone"
    OBVIOUS
  <2> QED
    BY <2>1, <2>2, BusyStep
<1>7. StopReachesAll'
  <2> SUFFICES ASSUME NEW d \in Conns, conn'[d].pc = "processing",
                      shard'[conn'[d].at].server # "up"
               PROVE  conn'[d].down
    BY DEF StopReachesAll, Closed
  <2>1. d # c
    BY <1>1 DEF Closed
  <2>2. conn'[d] = conn[d] /\ conn[d].at \in Shards
    BY <1>0, <1>1, <2>1 DEF IInv, TypeOK, AcceptedOK
  <2>3. shard'[conn[d].at].server = shard[conn[d].at].server
    BY <2>2
  <2> QED
    BY <2>2, <2>3 DEF IInv, StopReachesAll, Closed
<1> QED
  BY <1>3, <1>4, <1>5, <1>6, <1>7

\* A new connection preserves the invariant.
LEMMA IncomingPreserves ==
    ASSUME IInv, NEW s \in Shards, NEW c \in Conns, Incoming(s, c)
    PROVE  IInv'
<1>0. TypeOK /\ shard \in [Shards -> ShardRec] /\ conn \in [Conns -> ConnRec]
  BY TypeRecs DEF IInv
<1>1. /\ UNCHANGED <<main, done, failed, aborted>>
      /\ shard[s].accept = "wait" /\ conn[c].pc = "away"
  BY DEF Incoming
<1>2. TypeOK'
  <2>1. shard' \in [Shards -> ShardRec]
    BY <1>0 DEF Incoming, ShardRec, Accepts
  <2>2. conn' \in [Conns -> ConnRec]
    <3> DEFINE f == [conn EXCEPT ![c].pc = "accepted"]
    <3>1. f \in [Conns -> ConnRec]
      BY <1>0 DEF ConnRec
    <3>2. conn' = [f EXCEPT ![c].at = s]
      BY <1>0 DEF Incoming
    <3> HIDE DEF f
    <3> QED
      BY <3>1, <3>2 DEF ConnRec
  <2> QED
    BY <1>0, <1>1, <2>1, <2>2 DEF TypeOK, ShardRec, ConnRec, Accepts
<1>3. /\ shard'[s].details = shard[s].details
      /\ shard'[s].service = shard[s].service
      /\ shard'[s].server = shard[s].server
      /\ shard'[s].current = shard[s].current
      /\ shard'[s].gate = shard[s].gate
      /\ shard'[s].accept = "got"
      /\ \A t \in Shards : t # s => shard'[t] = shard[t]
  BY <1>0 DEF Incoming, ShardRec
<1>4. /\ \A d \in Conns : d # c => conn'[d] = conn[d]
      /\ conn'[c].pc = "accepted" /\ conn'[c].at = s
  BY <1>0 DEF Incoming, ConnRec
<1>5. ASSUME NEW t \in Shards
      PROVE  Held(t)' = Held(t) /\ Linked(t)' = Linked(t) /\ Rounds(t)' = Rounds(t)
  <2>1. Held(t)' = Held(t)
    BY <1>1, <1>4 DEF Held
  <2>2. Linked(t)' = Linked(t)
    BY <1>1, <1>4 DEF Linked
  <2>3. Rounds(t)' = Rounds(t)
    BY <1>1, <1>3 DEF Rounds
  <2> QED
    BY <2>1, <2>2, <2>3
<1>6. GateCounts'
  BY <1>3, <1>5 DEF IInv, GateCounts
<1>7. CurrentIsLinked'
  BY <1>3, <1>5 DEF IInv, CurrentIsLinked
<1>8. AcceptedOK'
  <2>1. ASSUME NEW d \in Conns, conn[d].pc = "accepted" PROVE conn[d].at # s
    BY Zenon, <1>1, <2>1 DEF IInv, AcceptedOK
  <2>2. ASSUME NEW d \in Conns
        PROVE  /\ conn'[d].pc = "away" <=> conn'[d].at = Nil
               /\ conn'[d].pc = "accepted" => shard'[conn'[d].at].accept = "got"
               /\ conn'[d].pc # "away" => shard'[conn'[d].at].accept # "idle"
    <3>1. CASE d = c
      BY Zenon, <1>3, <1>4, <3>1, ServerAssumption
    <3>2. CASE d # c
      <4>1. conn'[d] = conn[d] /\ (conn[d].pc # "away" => conn[d].at \in Shards)
        BY Zenon, <1>0, <1>4, <3>2 DEF IInv, TypeOK, AcceptedOK
      <4>2. /\ conn[d].pc = "away" <=> conn[d].at = Nil
            /\ conn[d].pc = "accepted" => shard[conn[d].at].accept = "got" /\ conn[d].at # s
            /\ conn[d].pc # "away" => shard[conn[d].at].accept # "idle"
        BY Zenon, <2>1 DEF IInv, AcceptedOK
      <4> QED
        BY Zenon, <1>3, <4>1, <4>2
    <3> QED
      BY Zenon, <3>1, <3>2
  <2>3. ASSUME NEW d \in Conns, NEW e \in Conns, conn'[d].pc = "accepted",
               conn'[e].pc = "accepted", conn'[d].at = conn'[e].at
        PROVE  d = e
    <3>1. \A x \in Conns : x # c => conn'[x] = conn[x]
      BY Zenon, <1>4
    <3>2. CASE d # c /\ e # c
      BY Zenon, <2>3, <3>1, <3>2 DEF IInv, AcceptedOK
    <3>3. conn'[c].at = s
      BY Zenon, <1>4
    <3>4. ASSUME NEW x \in Conns, x # c, conn'[x].pc = "accepted" PROVE conn'[x].at # s
      BY Zenon, <2>1, <3>1, <3>4
    <3> QED
      BY Zenon, <2>3, <3>2, <3>3, <3>4
  <2> QED
    BY Zenon, <2>2, <2>3 DEF AcceptedOK
<1>9. PhasesOK' /\ AcceptsReady' /\ NoneOutlivesServer'
  <2>1. \A d \in Conns : conn'[d] = conn[d] \/ conn'[d].at = s
    BY <1>4
  <2> QED
    BY Zenon, <1>1, <1>3, <2>1, BusyStep
<1>10. StopReachesAll'
  <2> SUFFICES ASSUME NEW d \in Conns, conn'[d].pc = "processing",
                      shard'[conn'[d].at].server # "up"
               PROVE  conn'[d].down
    BY DEF StopReachesAll, Closed
  <2>1. conn'[d] = conn[d] /\ conn[d].at \in Shards
    BY Zenon, <1>0, <1>4 DEF IInv, TypeOK, AcceptedOK
  <2> QED
    BY Zenon, <1>3, <2>1 DEF IInv, StopReachesAll, Closed
<1> QED
  BY <1>2, <1>6, <1>7, <1>8, <1>9, <1>10 DEF IInv

\* The continuation of accept preserves the invariant.
LEMMA AcceptOnePreserves ==
    ASSUME IInv, NEW s \in Shards, NEW c \in Conns, AcceptOne(s, c)
    PROVE  IInv'
<1>0. TypeOK /\ shard \in [Shards -> ShardRec] /\ conn \in [Conns -> ConnRec]
  BY TypeRecs DEF IInv
<1>1. /\ UNCHANGED <<main, done, failed, aborted>>
      /\ shard[s].accept = "got" /\ conn[c].pc = "accepted" /\ conn[c].at = s
  BY DEF AcceptOne
<1>2. /\ shard[s].gate = 2 + Cardinality(Held(s)) /\ shard[s].current = Cardinality(Linked(s))
      /\ Cardinality(Held(s)) \in Nat /\ Cardinality(Linked(s)) \in Nat
      /\ IsFiniteSet(Held(s)) /\ IsFiniteSet(Linked(s))
  BY Zenon, <1>1, FiniteParts DEF IInv, GateCounts, CurrentIsLinked, Rounds
<1>3. c \notin Held(s) /\ c \notin Linked(s)
  BY <1>1 DEF Held, Linked
<1>4. CASE /\ Serves(s)
           /\ conn' = [conn EXCEPT ![c].pc = "processing"]
           /\ shard' = [shard EXCEPT ![s].current = @ + 1, ![s].accept = "loop"]
  <2> DEFINE n == shard[s].current + 1
             a == "loop"
  <2>1. n \in Nat /\ a \in Accepts /\ shard' = [shard EXCEPT ![s].current = n, ![s].accept = a]
    BY <1>0, <1>2, <1>4 DEF Accepts
  <2>2. shard' \in [Shards -> ShardRec]
    <3> HIDE DEF n, a
    <3> QED
      BY Zenon, <1>0, <2>1, LinkType
  <2>3. conn' \in [Conns -> ConnRec]
    BY <1>0, <1>4 DEF ConnRec
  <2>4. TypeOK'
    BY <1>0, <1>1, <2>2, <2>3 DEF TypeOK, ShardRec, ConnRec, Accepts
  <2>5. /\ shard'[s].details = shard[s].details
        /\ shard'[s].service = shard[s].service
        /\ shard'[s].server = shard[s].server
        /\ shard'[s].gate = shard[s].gate
        /\ shard'[s].current = shard[s].current + 1
        /\ shard'[s].accept = "loop"
        /\ \A t \in Shards : t # s => shard'[t] = shard[t]
    BY <1>0, <1>4 DEF ShardRec
  <2>6. /\ \A d \in Conns : d # c => conn'[d] = conn[d]
        /\ conn'[c].pc = "processing" /\ conn'[c].at = s
    BY <1>0, <1>1, <1>4 DEF ConnRec
  <2>7. Held(s)' = Held(s) \cup {c}
    BY <2>6 DEF Held
  <2>8. Linked(s)' = Linked(s) \cup {c}
    BY <2>6 DEF Linked
  <2>9. Cardinality(Held(s)') = Cardinality(Held(s)) + 1
    BY Zenon, <1>2, <1>3, <2>7, FS_AddElement
  <2>10. Cardinality(Linked(s)') = Cardinality(Linked(s)) + 1
    BY Zenon, <1>2, <1>3, <2>8, FS_AddElement
  <2>11. Rounds(s)' = 1
    BY <2>5 DEF Rounds
  <2>12. shard'[s].gate = Rounds(s)' + Cardinality(Held(s)')
    <3>1. shard'[s].gate = shard[s].gate
      BY Zenon, <2>5
    <3> QED
      BY <1>2, <2>9, <2>11, <3>1
  <2>13. shard'[s].current = Cardinality(Linked(s)')
    BY Zenon, <1>2, <2>5, <2>10
  <2>14. ~Closed(s)
    BY <1>4 DEF Serves
  <2>15. /\ GateCounts' /\ CurrentIsLinked' /\ AcceptedOK'
         /\ PhasesOK' /\ AcceptsReady' /\ NoneOutlivesServer' /\ StopReachesAll'
    BY Zenon, <1>1, <1>4, <2>5, <2>12, <2>13, <2>14, ConnStep
  <2> QED
    BY <2>4, <2>15 DEF IInv
<1>5. CASE /\ ~Serves(s)
           /\ conn' = [conn EXCEPT ![c].pc = "gone"]
           /\ shard' = [shard EXCEPT ![s].accept = "loop", ![s].gate = @ - 1]
  <2> DEFINE n == shard[s].gate - 1
             a == "loop"
  <2>1. n \in Nat /\ a \in Accepts /\ shard' = [shard EXCEPT ![s].accept = a, ![s].gate = n]
    BY <1>0, <1>2, <1>5 DEF Accepts
  <2>2. shard' \in [Shards -> ShardRec]
    <3> HIDE DEF n, a
    <3> QED
      BY Zenon, <1>0, <2>1, LoopType
  <2>3. conn' \in [Conns -> ConnRec]
    BY <1>0, <1>5 DEF ConnRec
  <2>4. TypeOK'
    BY <1>0, <1>1, <2>2, <2>3 DEF TypeOK, ShardRec, ConnRec, Accepts
  <2>5. /\ shard'[s].details = shard[s].details
        /\ shard'[s].service = shard[s].service
        /\ shard'[s].server = shard[s].server
        /\ shard'[s].gate = shard[s].gate - 1
        /\ shard'[s].current = shard[s].current
        /\ shard'[s].accept = "loop"
        /\ \A t \in Shards : t # s => shard'[t] = shard[t]
    BY <1>0, <1>5 DEF ShardRec
  <2>6. /\ \A d \in Conns : d # c => conn'[d] = conn[d]
        /\ conn'[c].pc = "gone" /\ conn'[c].at = s
    BY <1>0, <1>1, <1>5 DEF ConnRec
  <2>7. Held(s)' = Held(s)
    BY <1>1, <2>6 DEF Held
  <2>8. Linked(s)' = Linked(s)
    BY <1>1, <2>6 DEF Linked
  <2>9. Rounds(s)' = 1
    BY <2>5 DEF Rounds
  <2>10. shard'[s].gate = Rounds(s)' + Cardinality(Held(s)')
    <3>1. shard'[s].gate = shard[s].gate - 1 /\ Cardinality(Held(s)') = Cardinality(Held(s))
      BY Zenon, <2>5, <2>7
    <3> QED
      BY <1>2, <2>9, <3>1
  <2>11. shard'[s].current = Cardinality(Linked(s)')
    BY Zenon, <1>2, <2>5, <2>8
  <2>12. /\ GateCounts' /\ CurrentIsLinked' /\ AcceptedOK'
         /\ PhasesOK' /\ AcceptsReady' /\ NoneOutlivesServer' /\ StopReachesAll'
    <3> DEFINE q == "gone"
    <3>1. /\ q \in {"processing", "finished", "gone"} /\ q # "processing"
          /\ conn' = [conn EXCEPT ![c].pc = q]
      BY <1>5
    <3> HIDE DEF q
    <3> QED
      BY Zenon, <1>1, <2>5, <2>10, <2>11, <3>1, ConnStep
  <2> QED
    BY <2>4, <2>12 DEF IInv
<1> QED
  BY <1>4, <1>5 DEF AcceptOne

\* The end of a handler preserves the invariant: one connection fewer is linked.
LEMMA ProcessEndsPreserves ==
    ASSUME IInv, NEW c \in Conns, NEW s \in Shards, conn[c].at = s, ProcessEnds(c)
    PROVE  IInv'
<1>0. TypeOK /\ shard \in [Shards -> ShardRec] /\ conn \in [Conns -> ConnRec]
  BY TypeRecs DEF IInv
<1>1. /\ UNCHANGED <<main, done, failed, aborted>>
      /\ conn[c].pc = "processing" /\ conn' = [conn EXCEPT ![c].pc = "finished"]
      /\ shard' = [shard EXCEPT ![s].current = shard[s].current - 1]
  BY <1>0 DEF ProcessEnds
<1>2. shard[s].accept # "idle"
  BY <1>1 DEF IInv, AcceptedOK
<1>3. /\ shard[s].gate = Rounds(s) + Cardinality(Held(s))
      /\ shard[s].current = Cardinality(Linked(s))
      /\ Rounds(s) \in Nat
  BY DEF IInv, GateCounts, CurrentIsLinked, Rounds
<1>4. c \in Linked(s)
  BY <1>1 DEF Linked
<1>5. /\ Cardinality(Linked(s)) \in Nat
      /\ Cardinality(Linked(s) \ {c}) = Cardinality(Linked(s)) - 1
      /\ Cardinality(Linked(s) \ {c}) \in Nat
  <2>1. IsFiniteSet(Linked(s)) /\ Cardinality(Linked(s)) \in Nat
    BY FiniteParts
  <2>2. IsFiniteSet(Linked(s) \ {c})
    BY <2>1, FS_RemoveElement
  <2> QED
    BY <1>4, <2>1, <2>2, FS_RemoveElement, FS_CardinalityType
<1>6. TypeOK'
  <2> DEFINE n == shard[s].current - 1
  <2>1. n \in Nat
    BY <1>3, <1>5
  <2>2. shard' = [shard EXCEPT ![s].current = n]
    BY <1>1
  <2>3. shard' \in [Shards -> ShardRec]
    <3> HIDE DEF n
    <3> QED
      BY <1>0, <2>1, <2>2 DEF ShardRec
  <2>4. conn' \in [Conns -> ConnRec]
    BY <1>0, <1>1 DEF ConnRec
  <2> QED
    BY <1>0, <1>1, <2>3, <2>4 DEF TypeOK, ShardRec, ConnRec, Accepts
<1>7. /\ shard'[s].details = shard[s].details
      /\ shard'[s].service = shard[s].service
      /\ shard'[s].server = shard[s].server
      /\ shard'[s].accept = shard[s].accept
      /\ shard'[s].current = shard[s].current - 1
      /\ shard'[s].gate = shard[s].gate
      /\ \A t \in Shards : t # s => shard'[t] = shard[t]
  BY <1>0, <1>1 DEF ShardRec
<1>8. /\ \A d \in Conns : d # c => conn'[d] = conn[d]
      /\ conn'[c].pc = "finished" /\ conn'[c].at = s
  BY <1>0, <1>1 DEF ConnRec
<1>9. Held(s)' = Held(s)
  BY <1>1, <1>8 DEF Held
<1>10. Linked(s)' = Linked(s) \ {c}
  BY <1>1, <1>8 DEF Linked
<1>11. Rounds(s)' = Rounds(s)
  BY <1>7 DEF Rounds
<1>12. shard'[s].gate = Rounds(s)' + Cardinality(Held(s)')
  BY Zenon, <1>3, <1>5, <1>7, <1>9, <1>11
<1>13. shard'[s].current = Cardinality(Linked(s)')
  BY Zenon, <1>3, <1>5, <1>7, <1>10
<1>14. /\ GateCounts' /\ CurrentIsLinked' /\ AcceptedOK'
       /\ PhasesOK' /\ AcceptsReady' /\ NoneOutlivesServer' /\ StopReachesAll'
  <2> DEFINE q == "finished"
  <2>1. /\ q \in {"processing", "finished", "gone"} /\ q # "processing"
        /\ conn' = [conn EXCEPT ![c].pc = q]
    BY <1>1
  <2> HIDE DEF q
  <2> QED
    BY Zenon, <1>1, <1>2, <1>7, <1>12, <1>13, <2>1, ConnStep
<1> QED
  BY <1>6, <1>14 DEF IInv

\* A handler's leaving the gate preserves the invariant.
LEMMA LeaveGatePreserves ==
    ASSUME IInv, NEW c \in Conns, NEW s \in Shards, conn[c].at = s, LeaveGate(c)
    PROVE  IInv'
<1>0. TypeOK /\ shard \in [Shards -> ShardRec] /\ conn \in [Conns -> ConnRec]
  BY TypeRecs DEF IInv
<1>1. /\ UNCHANGED <<main, done, failed, aborted>>
      /\ conn[c].pc = "finished" /\ conn' = [conn EXCEPT ![c].pc = "gone"]
      /\ shard' = [shard EXCEPT ![s].gate = shard[s].gate - 1]
  BY <1>0 DEF LeaveGate
<1>2. shard[s].accept # "idle"
  BY <1>1 DEF IInv, AcceptedOK
<1>3. /\ shard[s].gate = Rounds(s) + Cardinality(Held(s))
      /\ shard[s].current = Cardinality(Linked(s))
      /\ Rounds(s) \in Nat
  BY DEF IInv, GateCounts, CurrentIsLinked, Rounds
<1>4. c \in Held(s)
  BY <1>1 DEF Held
<1>5. /\ Cardinality(Held(s)) \in Nat
      /\ Cardinality(Held(s) \ {c}) = Cardinality(Held(s)) - 1
      /\ Cardinality(Held(s) \ {c}) \in Nat
  <2>1. IsFiniteSet(Held(s)) /\ Cardinality(Held(s)) \in Nat
    BY FiniteParts
  <2>2. IsFiniteSet(Held(s) \ {c})
    BY <2>1, FS_RemoveElement
  <2> QED
    BY <1>4, <2>1, <2>2, FS_RemoveElement, FS_CardinalityType
<1>6. TypeOK'
  <2> DEFINE n == shard[s].gate - 1
  <2>1. n \in Nat
    BY <1>3, <1>5
  <2>2. shard' = [shard EXCEPT ![s].gate = n]
    BY <1>1
  <2>3. shard' \in [Shards -> ShardRec]
    <3> HIDE DEF n
    <3> QED
      BY <1>0, <2>1, <2>2 DEF ShardRec
  <2>4. conn' \in [Conns -> ConnRec]
    BY <1>0, <1>1 DEF ConnRec
  <2> QED
    BY <1>0, <1>1, <2>3, <2>4 DEF TypeOK, ShardRec, ConnRec, Accepts
<1>7. /\ shard'[s].details = shard[s].details
      /\ shard'[s].service = shard[s].service
      /\ shard'[s].server = shard[s].server
      /\ shard'[s].accept = shard[s].accept
      /\ shard'[s].gate = shard[s].gate - 1
      /\ shard'[s].current = shard[s].current
      /\ \A t \in Shards : t # s => shard'[t] = shard[t]
  BY <1>0, <1>1 DEF ShardRec
<1>8. /\ \A d \in Conns : d # c => conn'[d] = conn[d]
      /\ conn'[c].pc = "gone" /\ conn'[c].at = s
  BY <1>0, <1>1 DEF ConnRec
<1>9. Held(s)' = Held(s) \ {c}
  BY <1>1, <1>8 DEF Held
<1>10. Linked(s)' = Linked(s)
  BY <1>1, <1>8 DEF Linked
<1>11. Rounds(s)' = Rounds(s)
  BY Zenon, <1>7 DEF Rounds
<1>12. shard'[s].gate = Rounds(s)' + Cardinality(Held(s)')
  <2>1. /\ shard'[s].gate = shard[s].gate - 1
        /\ Cardinality(Held(s)') = Cardinality(Held(s) \ {c})
    BY Zenon, <1>7, <1>9
  <2> QED
    BY <1>3, <1>5, <1>11, <2>1
<1>13. shard'[s].current = Cardinality(Linked(s)')
  BY Zenon, <1>3, <1>5, <1>7, <1>10
<1>14. /\ GateCounts' /\ CurrentIsLinked' /\ AcceptedOK'
       /\ PhasesOK' /\ AcceptsReady' /\ NoneOutlivesServer' /\ StopReachesAll'
  <2> DEFINE q == "gone"
  <2>1. /\ q \in {"processing", "finished", "gone"} /\ q # "processing"
        /\ conn' = [conn EXCEPT ![c].pc = q]
    BY <1>1
  <2> HIDE DEF q
  <2> QED
    BY Zenon, <1>1, <1>2, <1>7, <1>12, <1>13, <2>1, ConnStep
<1> QED
  BY <1>6, <1>14 DEF IInv

-----------------------------------------------------------------------------
(* The theorem.                                                              *)

\* The gate counts what refers to the server (IInv), whatever the interleaving of
\* init, the accept loops, the handlers and the signal.
LEMMA NextIInv == IInv /\ [Next]_vars => IInv'
<1> SUFFICES ASSUME IInv, [Next]_vars PROVE IInv'
  OBVIOUS
<1>1. CASE UNCHANGED vars
  <2>1. UNCHANGED <<main, done, failed, aborted, shard, conn>>
    BY Zenon, <1>1 DEF vars
  <2>t. TypeOK'
    BY <2>1 DEF IInv, TypeOK
  <2>2. AcceptedOK' /\ AcceptsReady'
    BY Zenon, <2>1 DEF IInv, AcceptedOK, AcceptsReady
  <2>3. GateCounts' /\ CurrentIsLinked'
    BY Zenon, <2>1 DEF IInv, GateCounts, Rounds, Held, CurrentIsLinked, Linked
  <2>4. PhasesOK' /\ NoneOutlivesServer' /\ StopReachesAll'
    BY Zenon, <2>1 DEF IInv, PhasesOK, Unused, NoneOutlivesServer, StopReachesAll, Closed
  <2> QED
    BY Zenon, <2>t, <2>2, <2>3, <2>4 DEF IInv
<1>2. CASE Continue \/ Signal \/ Wake
  BY <1>2, ControlPreserves
<1>3. ASSUME NEW s \in Shards, InitStep(s) PROVE IInv'
  BY <1>3, PreparePreserves, ListenPreserves, StopPreserves, ControlPreserves,
     DestroyPreserves DEF InitStep
<1>4. ASSUME NEW s \in Shards, AcceptStep(s) \/ AcceptError(s) PROVE IInv'
  BY <1>4, LoopPreserves, AcceptOnePreserves DEF AcceptStep
<1>5. ASSUME NEW s \in Shards, NEW c \in Conns, Incoming(s, c) PROVE IInv'
  BY <1>5, IncomingPreserves
<1>6. ASSUME NEW c \in Conns, ProcessEnds(c) \/ LeaveGate(c) PROVE IInv'
  <2>1. conn[c].at \in Shards
    BY <1>6 DEF IInv, TypeOK, AcceptedOK, ProcessEnds, LeaveGate
  <2>2. PICK s \in Shards : conn[c].at = s
    BY <2>1
  <2> QED
    BY <1>6, <2>2, ProcessEndsPreserves, LeaveGatePreserves
<1> QED
  BY <1>1, <1>2, <1>3, <1>4, <1>5, <1>6 DEF Next

\* The invariant holds for any number of shards and clients.
LEMMA ServerInvariant == Spec => []IInv
  BY InitIInv, NextIInv, PTL DEF Spec

\* It implies the invariants of the server.
LEMMA IInvImplies ==
    IInv => TypeOK /\ ReadyFirst /\ NoneOutlivesServer /\ StopReachesAll /\ CurrentIsLinked
<1> SUFFICES ASSUME IInv PROVE ReadyFirst
  BY DEF IInv
<1>1. ASSUME NEW c \in Conns, conn[c].pc = "processing"
      PROVE  \A s \in Shards : shard[s].details /\ shard[s].service = "up"
  <2>1. conn[c].at \in Shards /\ shard[conn[c].at].accept # "idle"
    BY <1>1 DEF IInv, TypeOK, AcceptedOK
  <2> QED
    BY <2>1 DEF IInv, AcceptsReady
<1> QED
  BY <1>1 DEF ReadyFirst

\* Start-up, accept loop, connections and stop keep the types.
THEOREM ServerTypes == Spec => []TypeOK
  BY ServerInvariant, IInvImplies, PTL

\* No connection is served before every shard's details and service are up.
THEOREM ServerReadyFirst == Spec => []ReadyFirst
  BY ServerInvariant, IInvImplies, PTL

\* No accept loop and no connection refers to a server that is destroyed.
THEOREM ServerNoneOutlives == Spec => []NoneOutlivesServer
  BY ServerInvariant, IInvImplies, PTL

\* stop shuts down every connection that is still served.
THEOREM ServerStopReachesAll == Spec => []StopReachesAll
  BY ServerInvariant, IInvImplies, PTL

\* current_connections is the number of connections linked into the server's list.
THEOREM ServerCurrentIsLinked == Spec => []CurrentIsLinked
  BY ServerInvariant, IInvImplies, PTL

-----------------------------------------------------------------------------
(* Launch and configuration.                                                 *)

\* What the fields hold: numbers where sizes are computed from them.
ConfigOK(c) ==
    /\ c = [f \in Fields |-> c[f]]
    /\ \A f \in IntegerKeys : c[f] \in Nat
    /\ \A f \in DoubleKeys : c[f] \in Int

\* The lines among the first k that say something of field f, and what they leave it at.
SaidBy(k, f) == {i \in 1..k : Field(file[i].key) = f /\ Says(file[i]) # Bad}

Left(k, f) ==
    IF SaidBy(k, f) = {} THEN Default[f]
    ELSE Says(file[LastOf(SaidBy(k, f))])

LoadInv ==
    /\ launch \in Launches /\ stage \in {"open", "read", "options", "run"}
    /\ file \in Seq(Line) /\ read \in 0..Len(file) /\ ConfigOK(config)
    /\ stage = "open" => read = 0
    /\ stage # "open" => file = File
    /\ stage \in {"options", "run"} => read = Len(file)
    /\ \A f \in UsedFields :
           config[f] = IF stage = "run" /\ f = "db_port" /\ launch.port # Nil
                       THEN launch.port ELSE Left(read, f)

PoolInv ==
    /\ pool \in [Shards -> PoolInit(config) \cup {Nil}]
    /\ stage # "run" => pool = [s \in Shards |-> Nil]
    /\ \A s \in Shards : shard[s].service = "up" => pool[s] # Nil
    /\ stage # "run" => \A c \in Conns : conn[c].pc # "processing"

LEMMA KeyFacts ==
    /\ \A k \in Keys : Field(k) \in Fields
    /\ \A k \in IntegerKeys \cup DoubleKeys : Field(k) = k /\ k \in Fields
    /\ \A k \in Keys : Field(k) \in IntegerKeys => k \in IntegerKeys
    /\ \A k \in Keys : Field(k) \in DoubleKeys => k \in DoubleKeys
    /\ "db_port" \in Fields /\ "db_port" \notin IntegerKeys \cup DoubleKeys
  BY DEF Keys, Fields, Field, PortKeys, IntegerKeys, DoubleKeys, BoolKeys

LEMMA DefaultFacts == ConfigOK(Default)
<1>1. Default = [f \in Fields |-> Default[f]]
  BY Zenon DEF Default
<1>2. \A f \in IntegerKeys \cup DoubleKeys : Default[f] \in Nat
  <2> SUFFICES ASSUME NEW f \in IntegerKeys \cup DoubleKeys PROVE Default[f] \in Nat
    OBVIOUS
  <2>1. f \in Fields /\ f # "db_port" /\ f # "hash" /\ f \notin BoolKeys
    BY KeyFacts DEF IntegerKeys, DoubleKeys, BoolKeys
  <2>2. Default[f] = IF f = "memory_reserve_percentage" THEN 15 ELSE 0
    BY <2>1 DEF Default
  <2> QED
    BY <2>2
<1> QED
  BY <1>1, <1>2 DEF ConfigOK

\* What a line sets is fit for its field.
LEMMA SettingFacts ==
    ASSUME NEW l \in Line, Setting(l) # Bad
    PROVE  /\ l.key \in Keys
           /\ l.key \in IntegerKeys => Setting(l) \in Nat
           /\ l.key \in DoubleKeys => Setting(l) \in Int
<1>1. l.value.u64 \in Nat \cup {Bad} /\ l.value.double \in Int \cup {Bad}
  BY DEF Line, Value
<1>2. ASSUME l.key \in DoubleKeys PROVE Setting(l) = l.value.double
  BY <1>2 DEF Setting, PortKeys, DoubleKeys, IntegerKeys
<1>3. ASSUME l.key \in IntegerKeys PROVE Setting(l) = l.value.u64
  BY <1>3 DEF Setting, PortKeys, DoubleKeys, IntegerKeys
<1>4. l.key \in Keys
  BY Zenon DEF Setting, Keys, BoolKeys
<1> QED
  BY <1>1, <1>2, <1>3, <1>4

\* Of every field in use, a line sets what it says.
LEMMA SaysFacts ==
    ASSUME NEW l \in Line, Field(l.key) \in UsedFields
    PROVE  Says(l) = Setting(l)
<1>1. l.key # "soft_throttle"
  BY DEF Field, PortKeys, UsedFields
<1>2. CASE l.key \in PortKeys
  <2>1. l.key \notin IntegerKeys \cup DoubleKeys \cup BoolKeys \cup {"hash"}
    BY <1>2 DEF PortKeys, IntegerKeys, DoubleKeys, BoolKeys
  <2>2. Reader(l.key) = "u64" /\ l.key \in Keys
    BY <1>2, <2>1 DEF Reader, Keys
  <2> QED
    BY Zenon, <1>2, <2>1, <2>2 DEF Says, Setting, BoolKeys
<1>3. CASE l.key \in IntegerKeys
  <2>1. l.key \notin PortKeys \cup DoubleKeys \cup BoolKeys
    BY <1>3 DEF PortKeys, IntegerKeys, DoubleKeys, BoolKeys
  <2>2. Reader(l.key) = "u64" /\ l.key \in Keys
    BY <1>3, <2>1 DEF Reader, Keys
  <2> QED
    BY Zenon, <1>3, <2>1, <2>2 DEF Says, Setting
<1>4. CASE l.key \in DoubleKeys
  <2>1. l.key \notin PortKeys \cup IntegerKeys \cup BoolKeys
    BY <1>4 DEF PortKeys, IntegerKeys, DoubleKeys, BoolKeys
  <2>2. Reader(l.key) = "double" /\ l.key \in Keys
    BY <1>4, <2>1 DEF Reader, Keys
  <2> QED
    BY Zenon, <1>4, <2>1, <2>2 DEF Says, Setting
<1>5. CASE l.key = "send_shard_details_on_connect"
  <2>1. l.key \notin PortKeys \cup IntegerKeys \cup DoubleKeys /\ l.key \in BoolKeys
    BY <1>5 DEF PortKeys, IntegerKeys, DoubleKeys, BoolKeys
  <2>2. Reader(l.key) = "bool" /\ l.key \in Keys
    BY <2>1 DEF Reader, Keys
  <2> QED
    BY Zenon, <1>1, <1>5, <2>1, <2>2 DEF Says, Setting
<1>6. CASE l.key = "hash"
  <2>1. l.key \notin PortKeys \cup IntegerKeys \cup DoubleKeys \cup BoolKeys
    BY <1>6 DEF PortKeys, IntegerKeys, DoubleKeys, BoolKeys
  <2>2. Reader(l.key) = "text" /\ l.key \in Keys
    BY <1>6, <2>1 DEF Reader, Keys
  <2> QED
    BY Zenon, <1>1, <1>6, <2>1, <2>2 DEF Says, Setting, BoolKeys
<1>7. CASE l.key \notin Keys
  BY Zenon, <1>7 DEF Says, Setting, Keys, BoolKeys
<1> QED
  BY Zenon, <1>1, <1>2, <1>3, <1>4, <1>5, <1>6, <1>7 DEF Keys, BoolKeys

LEMMA AssignFacts ==
    ASSUME NEW c, ConfigOK(c), NEW l \in Line
    PROVE  /\ ConfigOK(Assign(c, l))
           /\ \A f \in UsedFields : Assign(c, l)[f] =
                  IF Says(l) # Bad /\ Field(l.key) = f THEN Says(l) ELSE c[f]
<1>0. \A f \in UsedFields : f \in Fields /\ (Field(l.key) = f => Says(l) = Setting(l))
  BY Zenon, SaysFacts DEF UsedFields
<1>1. CASE Setting(l) = Bad
  BY Zenon, <1>0, <1>1 DEF Assign
<1>2. CASE Setting(l) # Bad
  <2> DEFINE g == Field(l.key)
             v == Setting(l)
             d == Assign(c, l)
  <2>1. /\ l.key \in Keys
        /\ l.key \in IntegerKeys => v \in Nat
        /\ l.key \in DoubleKeys => v \in Int
    BY <1>2, SettingFacts
  <2>2. g \in Fields /\ (g \in IntegerKeys => v \in Nat) /\ (g \in DoubleKeys => v \in Int)
    BY <2>1, KeyFacts
  <2>3. d = [c EXCEPT ![g] = v]
    BY <1>2 DEF Assign
  <2>4. c = [f \in Fields |-> c[f]]
    BY DEF ConfigOK
  <2> HIDE DEF g, v, d
  <2>5. d = [f \in Fields |-> IF f = g THEN v ELSE c[f]]
    BY Zenon, <2>3, <2>4
  <2>6. d = [f \in Fields |-> d[f]] /\ \A f \in Fields : d[f] = IF f = g THEN v ELSE c[f]
    BY Zenon, <2>5
  <2>7. \A f \in IntegerKeys : d[f] \in Nat
    BY <2>2, <2>6, KeyFacts DEF ConfigOK
  <2>8. \A f \in DoubleKeys : d[f] \in Int
    BY <2>2, <2>6, KeyFacts DEF ConfigOK
  <2>9. ConfigOK(d)
    BY Zenon, <2>6, <2>7, <2>8 DEF ConfigOK
  <2> QED
    BY Zenon, <1>0, <1>2, <2>6, <2>9 DEF g, v, d
<1> QED
  BY <1>1, <1>2

\* Integer division is bounded by its products.
LEMMA QuotientFacts ==
    ASSUME NEW a \in Nat, NEW b \in Nat \ {0}
    PROVE  a \div b \in Nat /\ (a \div b) * b <= a
<1> DEFINE q == a \div b
           r == a % b
<1>1. q \in Int /\ r \in 0..(b - 1) /\ a = b * q + r
  OBVIOUS
<1> HIDE DEF q, r
<1>2. q \in Nat
  <2> SUFFICES ASSUME q <= -1 PROVE FALSE
    BY <1>1
  <2>1. b * q <= -b
    BY <1>1
  <2> QED
    BY <1>1, <2>1
<1>3. q * b <= a
  BY <1>1, <1>2
<1> QED
  BY <1>2, <1>3 DEF q

\* A share of f percent of a size.
Percent == 0..100
Share(n, f) == (n * f) \div 100

\* It is a size that is not greater.
LEMMA ShareFacts ==
    ASSUME NEW n \in 0..MaxSize, NEW f \in Percent
    PROVE  /\ Share(n, f) \in 0..n
           /\ ToSize(n * f) = {Share(n, f)} /\ ToSize(f * n) = {Share(n, f)}
           /\ FloorToSize(f * n) = {Share(n, f)}
<1> USE DEF Percent, Share
<1>1. n \in Nat /\ f \in Nat /\ 100 - f \in Nat /\ MaxSize \in Nat /\ MaxSize - n \in Nat
  BY StartupAssumption
<1>2. n * f \in Nat /\ n * (100 - f) \in Nat /\ 100 * n = n * f + n * (100 - f)
  BY <1>1
<1>3. n * f <= 100 * n /\ n * f <= 100 * MaxSize
  BY <1>1, <1>2
<1> DEFINE a == n * f
           q == a \div 100
<1>4. q \in Nat /\ q * 100 <= a
  BY <1>2, QuotientFacts
<1>5. ToSize(a) = {q} /\ FloorToSize(a) = {q}
  <2> HIDE DEF q
  <2>1. a > -100 /\ a < 100 * (MaxSize + 1) /\ ~(a < 0)
    BY <1>1, <1>2, <1>3
  <2> HIDE DEF a
  <2> QED
    BY <2>1 DEF ToSize, FloorToSize, q
<1>6. f * n = a
  BY <1>1
<1> HIDE DEF q
<1>7. q <= n
  BY <1>1, <1>3, <1>4
<1> QED
  BY <1>1, <1>3, <1>4, <1>5, <1>6, <1>7 DEF q

\* Sane fractions determine the sizes, and bound them.
LEMMA SizesFacts ==
    ASSUME NEW c, ConfigOK(c), Sane(c), NEW p \in PoolInit(c)
    PROVE  /\ 100 * p.max * PerEntry(c) <= (100 - c["memory_reserve_percentage"]) * Memory
           /\ p.prob <= p.max /\ p.threshold <= p.prob
           /\ \A r \in PoolInit(c) : r = p
<1> DEFINE f == 100 - c["memory_reserve_percentage"]
           g == c["pool_max_memory_percent"]
           h == c["probationary_pool_size"]
           k == c["hard_trigger"]
           u == Share(Memory, f)
           t == Share(u, g)
           m == OptimalSize(c, t)
           b == Share(m, h)
           e == Share(b, k)
<1>1. f \in Percent /\ g \in Percent /\ h \in Percent /\ k \in Percent
  <2>1. c["memory_reserve_percentage"] \in 0..100 /\ g \in Percent /\ h \in Percent
        /\ k \in Percent
    BY Zenon DEF Sane, Fraction, Percent
  <2>2. f \in Percent
    BY <2>1 DEF Percent
  <2> QED
    BY Zenon, <2>1, <2>2
<1>2. PerEntry(c) \in Nat \ {0}
  BY StartupAssumption, KeyFacts DEF PerEntry, ConfigOK, IntegerKeys
<1>3. Memory \in 0..MaxSize /\ MaxSize \in Nat
  BY StartupAssumption
<1> HIDE DEF f, g, h, k
<1>4. u \in 0..Memory /\ 100 * u <= Memory * f /\ ToSize(f * Memory) = {u}
  <2>1. u \in 0..Memory /\ ToSize(f * Memory) = {u}
    BY Zenon, <1>1, <1>3, ShareFacts
  <2>2. Memory * f \in Nat
    BY <1>1, <1>3 DEF Percent
  <2>3. \A a \in Nat : 100 * (a \div 100) <= a
    BY QuotientFacts
  <2> QED
    BY <2>1, <2>2, <2>3 DEF Share
<1>5. u \in 0..MaxSize
  BY <1>3, <1>4
<1>6. t \in 0..u /\ ToSize(u * g) = {t}
  BY Zenon, <1>1, <1>5, ShareFacts
<1>7. Targets(c) = {t}
  <2>1. Targets(c) = UNION {ToSize(x * g) : x \in ToSize(f * Memory)}
    BY Zenon DEF Targets, f, g
  <2> HIDE DEF u, t
  <2> QED
    BY <1>4, <1>6, <2>1
<1>8. m \in 0..t /\ m * PerEntry(c) <= t
  <2>1. CASE t = 0
    BY <1>2, <2>1 DEF OptimalSize
  <2>2. CASE t # 0
    <3> DEFINE q == t \div PerEntry(c)
    <3>1. t \in Nat /\ q \in Nat /\ q * PerEntry(c) <= t
      BY <1>2, <1>3, <1>5, <1>6, QuotientFacts
    <3>2. m = q
      BY <2>2 DEF OptimalSize
    <3> HIDE DEF q, m, t
    <3>3. q <= q * PerEntry(c)
      BY <1>2, <3>1
    <3> QED
      BY <1>2, <3>1, <3>2, <3>3
  <2> QED
    BY Zenon, <2>1, <2>2
<1> HIDE DEF u, t, m
<1>9. m \in 0..MaxSize
  BY <1>3, <1>4, <1>6, <1>8
<1>10. b \in 0..m /\ FloorToSize(h * m) = {b}
  BY Zenon, <1>1, <1>9, ShareFacts
<1>11. b \in 0..MaxSize
  BY <1>3, <1>9, <1>10
<1>12. e \in 0..b /\ ToSize(k * b) = {e}
  BY Zenon, <1>1, <1>11, ShareFacts
<1> HIDE DEF b, e
<1>13. ASSUME NEW r \in PoolInit(c)
       PROVE  r = [max |-> m, prob |-> b, threshold |-> e]
  <2>1. r \in [max : {m}, prob : 0..MaxSize, threshold : 0..MaxSize]
    <3>1. {OptimalSize(c, x) : x \in Targets(c)} = {m}
      BY Zenon, <1>7 DEF m
    <3>2. r \in Sizes(c)
      BY Zenon, <1>13 DEF PoolInit
    <3> QED
      BY Zenon, <3>1, <3>2 DEF Sizes
  <2>2. r.max = m /\ r = [max |-> r.max, prob |-> r.prob, threshold |-> r.threshold]
    BY <2>1
  <2>3. r.prob \in FloorToSize(h * r.max) /\ r.threshold \in ToSize(k * r.prob)
    BY <1>13 DEF PoolInit, h, k
  <2>4. r.prob = b
    BY <1>10, <2>2, <2>3
  <2>5. r.threshold = e
    BY <1>12, <2>3, <2>4
  <2> QED
    BY <2>2, <2>4, <2>5
<1>14. p.max = m /\ p.prob = b /\ p.threshold = e
  BY <1>13
<1>15. 100 * (m * PerEntry(c)) <= f * Memory
  <2>1. m * PerEntry(c) \in Nat
    BY <1>2, <1>9
  <2>2. f * Memory = Memory * f
    BY <1>1, <1>3 DEF Percent
  <2>3. Memory * f \in Nat
    BY <1>1, <1>3 DEF Percent
  <2>4. \A x, y \in Nat : x <= t /\ 100 * u <= y => 100 * x <= y
    BY <1>3, <1>4, <1>6
  <2> QED
    BY <1>4, <1>8, <2>1, <2>2, <2>3, <2>4
<1>16. 100 * m * PerEntry(c) = 100 * (m * PerEntry(c))
  BY <1>2, <1>9
<1> QED
  BY <1>10, <1>12, <1>13, <1>14, <1>15, <1>16, <1>9, <1>11 DEF f

\* A server step is a step of SocketServer, and loading leaves the server alone.
LEMMA StartSteps ==
    /\ StartInit => Init
    /\ [StartNext]_startVars => [Next]_vars
<1>1. Load => UNCHANGED vars
  BY DEF Load, Open, ReadLine, EndOfFile, Options
<1>2. Run(Next) => Next
  BY DEF Run
<1>3. UNCHANGED startVars => UNCHANGED vars
  BY DEF startVars
<1> QED
  BY <1>1, <1>2, <1>3 DEF StartInit, StartNext

\* The last line that says something of a field decides.
LEMMA LeftFacts ==
    ASSUME NEW f, NEW k \in Nat, k < Len(file), file \in Seq(Line)
    PROVE  Left(k + 1, f) = IF Says(file[k + 1]) # Bad /\ Field(file[k + 1].key) = f
                            THEN Says(file[k + 1]) ELSE Left(k, f)
<1> DEFINE hit == Says(file[k + 1]) # Bad /\ Field(file[k + 1].key) = f
           S == SaidBy(k, f)
           T == SaidBy(k + 1, f)
<1>1. \A i : i \in 1..(k + 1) <=> i \in 1..k \/ i = k + 1
  OBVIOUS
<1>2. S \subseteq 1..k
  BY DEF SaidBy
<1>3. CASE ~hit
  <2>1. T = S
    BY <1>1, <1>3 DEF SaidBy
  <2> QED
    BY <1>3, <2>1 DEF Left
<1>4. CASE hit
  <2>1. k + 1 \in T /\ \A j \in T : j \in Nat /\ j <= k + 1
    BY <1>1, <1>4 DEF SaidBy
  <2> HIDE DEF T
  <2>2. LastOf(T) = k + 1
    <3>1. ASSUME NEW i \in T, \A j \in T : j <= i PROVE i = k + 1
      BY <2>1, <3>1
    <3> QED
      BY <2>1, <3>1 DEF LastOf
  <2>3. T # {}
    BY <2>1
  <2> QED
    BY <1>4, <2>2, <2>3 DEF Left, T
<1> QED
  BY <1>3, <1>4

LEMMA FileFacts == launch \in Launches => File \in Seq(Line)
<1> SUFFICES ASSUME launch \in Launches PROVE File \in Seq(Line)
  OBVIOUS
<1>1. \A i \in 1..3 : launch.disk[i] = Nil \/ launch.disk[i] \in Seq(Line)
  BY StartupAssumption
<1>2. CASE Readable = {}
  BY <1>2 DEF File
<1>3. CASE Readable # {}
  <2>1. \E i \in Readable : \A j \in Readable : i <= j
    BY <1>3 DEF Readable
  <2>2. PICK i \in Readable : File = launch.disk[i]
    BY Zenon, <1>3, <2>1 DEF File
  <2> QED
    BY <1>1, <2>2 DEF Readable
<1> QED
  BY <1>2, <1>3

LEMMA LoadInit == StartInit => LoadInv /\ PoolInv
<1> SUFFICES ASSUME StartInit PROVE LoadInv /\ PoolInv
  OBVIOUS
<1>1. \A f : Left(0, f) = Default[f]
  BY DEF Left, SaidBy
<1>2. /\ launch \in Launches /\ stage = "open" /\ file = <<>> /\ read = 0
      /\ config = Default /\ pool = [s \in Shards |-> Nil] /\ Init
  BY DEF StartInit
<1>3. ConfigOK(config) /\ \A f \in UsedFields : config[f] = Left(read, f)
  BY <1>1, <1>2, DefaultFacts
<1>4. LoadInv
  BY <1>2, <1>3 DEF LoadInv
<1>5. \A s \in Shards : shard[s].service # "up"
  BY Zenon, <1>2 DEF Init
<1>6. \A c \in Conns : conn[c].pc # "processing"
  BY Zenon, <1>2 DEF Init
<1> QED
  BY <1>2, <1>4, <1>5, <1>6 DEF PoolInv

LEMMA LoadPreserves ==
    ASSUME LoadInv, PoolInv, Load
    PROVE  LoadInv' /\ PoolInv'
<1>1. /\ launch \in Launches /\ file \in Seq(Line) /\ Len(file) \in Nat /\ read \in Nat
      /\ read <= Len(file) /\ ConfigOK(config) /\ UNCHANGED <<launch, pool, shard, conn>>
  <2>1. UNCHANGED <<launch, pool, shard, conn>>
    BY Zenon DEF Load, Open, ReadLine, EndOfFile, Options, vars
  <2>2. launch \in Launches /\ file \in Seq(Line) /\ read \in 0..Len(file) /\ ConfigOK(config)
    BY Zenon DEF LoadInv
  <2> QED
    BY <2>1, <2>2
<1>2. stage # "run" /\ stage' # "open"
  BY DEF Load, Open, ReadLine, EndOfFile, Options
<1>3. File' = File
  BY <1>1 DEF File, Readable
<1>4. PoolInv'
  <2>1. pool = [s \in Shards |-> Nil] /\ \A c \in Conns : conn[c].pc # "processing"
    BY Zenon, <1>2 DEF PoolInv
  <2>2. \A s \in Shards : shard[s].service # "up"
    BY <2>1 DEF PoolInv
  <2> QED
    BY Zenon, <1>1, <2>1, <2>2 DEF PoolInv
<1>5. \A f \in UsedFields : config[f] = Left(read, f)
  BY <1>2 DEF LoadInv
<1>6. CASE Open
  <2>1. file' = File /\ read' = 0 /\ config' = config /\ stage' = "read" /\ read = 0
    BY Zenon, <1>6 DEF Open, LoadInv
  <2>2. \A f : Left(0, f) = Default[f] /\ Left(0, f)' = Default[f]
    <3>0. 1..0 = {}
      OBVIOUS
    <3>1. \A f : SaidBy(0, f) = {} /\ SaidBy(0, f)' = {}
      BY Zenon, <3>0 DEF SaidBy
    <3> QED
      BY Zenon, <3>1 DEF Left
  <2>3. \A f \in UsedFields : config'[f] = Left(read, f)'
    BY Zenon, <1>5, <2>1, <2>2 DEF Left, SaidBy
  <2>4. File \in Seq(Line) /\ 0 \in 0..Len(File)
    BY <1>1, FileFacts
  <2> QED
    BY Zenon, <1>1, <1>3, <1>4, <2>1, <2>3, <2>4 DEF LoadInv
<1>7. CASE ReadLine
  <2> DEFINE l == file[read + 1]
  <2>1. /\ read < Len(file) /\ config' = Assign(config, l) /\ read' = read + 1
        /\ stage' = "read" /\ stage = "read" /\ file' = file
    BY <1>7 DEF ReadLine
  <2>2. l \in Line
    BY <1>1, <2>1
  <2>3. /\ ConfigOK(config')
        /\ \A f \in UsedFields : config'[f] = IF Says(l) # Bad /\ Field(l.key) = f
                                              THEN Says(l) ELSE config[f]
    BY Zenon, <1>1, <2>1, <2>2, AssignFacts
  <2>4. \A f : Left(read + 1, f) = IF Says(l) # Bad /\ Field(l.key) = f
                                   THEN Says(l) ELSE Left(read, f)
    BY <1>1, <2>1, LeftFacts
  <2>5. \A f : Left(read, f)' = Left(read + 1, f)
    BY <2>1 DEF Left, SaidBy
  <2> HIDE DEF l
  <2>6. \A f \in UsedFields : config'[f] = Left(read, f)'
    BY Zenon, <1>5, <2>3, <2>4, <2>5
  <2>7. read + 1 \in 0..Len(file)
    BY <1>1, <2>1
  <2>8. file = File
    BY Zenon, <2>1 DEF LoadInv
  <2> QED
    BY Zenon, <1>1, <1>3, <1>4, <2>1, <2>3, <2>6, <2>7, <2>8 DEF LoadInv
<1>8. CASE EndOfFile
  <2>1. \A f : Left(read, f)' = Left(read, f)
    BY <1>8 DEF EndOfFile, Left, SaidBy
  <2> QED
    BY Zenon, <1>1, <1>3, <1>4, <1>5, <1>8, <2>1 DEF LoadInv, EndOfFile
<1>9. CASE Options
  <2>1. \A f : Left(read, f)' = Left(read, f)
    BY <1>9 DEF Options, Left, SaidBy
  <2>2. config = [f \in Fields |-> config[f]] /\ "db_port" \in Fields
    BY <1>1, KeyFacts DEF ConfigOK
  <2>3. CASE launch.port = Nil
    BY <1>1, <1>3, <1>4, <1>5, <1>9, <2>1, <2>3 DEF LoadInv, Options
  <2>4. CASE launch.port # Nil
    <3>1. config' = [config EXCEPT !["db_port"] = launch.port]
      BY <1>9, <2>4 DEF Options
    <3>2. config' = [f \in Fields |-> IF f = "db_port" THEN launch.port ELSE config[f]]
      BY Zenon, <2>2, <3>1
    <3>3. /\ config' = [f \in Fields |-> config'[f]]
          /\ \A f \in Fields : config'[f] = IF f = "db_port" THEN launch.port ELSE config[f]
      BY Zenon, <3>2
    <3>4. \A f \in IntegerKeys \cup DoubleKeys : config'[f] = config[f]
      BY <3>3, KeyFacts
    <3>5. ConfigOK(config')
      BY Zenon, <1>1, <3>3, <3>4 DEF ConfigOK
    <3>6. \A f \in UsedFields : f \in Fields
      BY Zenon DEF UsedFields
    <3> QED
      BY Zenon, <1>1, <1>3, <1>4, <1>5, <1>9, <2>1, <2>4, <3>3, <3>5, <3>6 DEF LoadInv, Options
  <2> QED
    BY <2>3, <2>4
<1> QED
  BY <1>4, <1>6, <1>7, <1>8, <1>9 DEF Load

\* Whatever the fractions are, an initialized pool has sizes.
LEMMA PoolTypes ==
    ASSUME NEW c, ConfigOK(c), NEW p \in PoolInit(c)
    PROVE  p # Nil
<1>1. PerEntry(c) \in Nat \ {0}
  BY StartupAssumption, KeyFacts DEF PerEntry, ConfigOK, IntegerKeys
<1>2. \A n \in Int : ToSize(n) \subseteq Nat
  <2>1. \A n \in Nat : n \div 100 \in Nat
    OBVIOUS
  <2> QED
    BY <2>1, StartupAssumption DEF ToSize
<1>3. c["memory_reserve_percentage"] \in Int /\ c["pool_max_memory_percent"] \in Int
  BY DEF ConfigOK, DoubleKeys
<1>4. Targets(c) \subseteq Nat
  <2>1. (100 - c["memory_reserve_percentage"]) * Memory \in Int
    BY <1>3, StartupAssumption
  <2>2. \A u \in Nat : u * c["pool_max_memory_percent"] \in Int
    BY <1>3
  <2> QED
    BY <1>2, <2>1, <2>2 DEF Targets
<1>5. ASSUME NEW t \in Targets(c) PROVE OptimalSize(c, t) \in Nat
  <2>1. t \in Nat /\ t \div PerEntry(c) \in Nat
    BY <1>1, <1>4, QuotientFacts
  <2> QED
    BY <2>1 DEF OptimalSize
<1>6. 0..MaxSize \subseteq Nat
  BY StartupAssumption
<1>7. {OptimalSize(c, t) : t \in Targets(c)} \subseteq Nat
  BY Zenon, <1>5
<1>8. p \in Sizes(c)
  BY Zenon DEF PoolInit
<1>9. Sizes(c) \subseteq [max : Nat, prob : Nat, threshold : Nat]
  BY <1>6, <1>7 DEF Sizes
<1> QED
  BY Zenon, <1>8, <1>9, StartupAssumption

\* Only the start of its store brings a service up, one shard at a time.
LEMMA ServiceStep ==
    ASSUME TypeOK, Next
    PROVE  \A s, t \in Shards :
               /\ shard'[s].service = "up" => shard[s].service = "up" \/ Starts(s)
               /\ Starts(s) /\ Starts(t) => s = t
<1> USE DEF Starts
<1>1. shard \in [Shards -> ShardRec]
  BY TypeRecs
<1>2. CASE \E s \in Shards : StoreStart(s)
  BY <1>1, <1>2 DEF StoreStart
<1>3. ASSUME \A s \in Shards : shard'[s].service = "up" => shard[s].service = "up"
      PROVE  \A s, t \in Shards :
               /\ shard'[s].service = "up" => shard[s].service = "up" \/ Starts(s)
               /\ Starts(s) /\ Starts(t) => s = t
  BY <1>3
<1>4. CASE Continue \/ Signal \/ Wake
  BY Zenon, <1>3, <1>4 DEF Continue, Signal, Wake
<1>5. ASSUME NEW s \in Shards, InitStep(s), ~StoreStart(s)
      PROVE  \A t \in Shards : shard'[t].service = "up" => shard[t].service = "up"
  <2>1. CASE SetDetails(s) \/ ServiceStart(s) \/ ServerStart(s) \/ SetHandler(s)
    BY <1>1, <2>1 DEF SetDetails, ServiceStart, ServerStart, SetHandler, ShardRec
  <2>2. CASE Listen(s)
    BY <1>1, <2>2 DEF Listen, ShardRec
  <2>3. CASE Stop(s) \/ Stopped(s) \/ Destroy(s) \/ LogCounters(s)
    BY <1>1, <2>3 DEF Stop, Stopped, Destroy, LogCounters, ShardRec
  <2> QED
    BY Zenon, <1>5, <2>1, <2>2, <2>3 DEF InitStep
<1>6. ASSUME NEW s \in Shards, AcceptStep(s) \/ AcceptError(s)
      PROVE  \A t \in Shards : shard'[t].service = "up" => shard[t].service = "up"
  BY <1>1, <1>6 DEF AcceptStep, AcceptFailed, Loop, AcceptOne, AcceptError, ShardRec
<1>7. ASSUME NEW s \in Shards, NEW c \in Conns, Incoming(s, c)
      PROVE  \A t \in Shards : shard'[t].service = "up" => shard[t].service = "up"
  BY <1>1, <1>7 DEF Incoming, ShardRec
<1>8. ASSUME NEW c \in Conns, ProcessEnds(c) \/ LeaveGate(c)
      PROVE  \A t \in Shards : shard'[t].service = "up" => shard[t].service = "up"
  BY <1>1, <1>8 DEF ProcessEnds, LeaveGate, ShardRec
<1> QED
  BY Zenon, <1>2, <1>3, <1>4, <1>5, <1>6, <1>7, <1>8 DEF Next

LEMMA RunPreserves ==
    ASSUME TypeOK, LoadInv, PoolInv, Run(Next)
    PROVE  LoadInv' /\ PoolInv'
<1>1. /\ stage = "run" /\ Next /\ SizePools
      /\ UNCHANGED <<launch, stage, file, read, config>>
  BY DEF Run, loader
<1>2. LoadInv'
  <2>1. \A f : Left(read, f)' = Left(read, f)
    BY <1>1 DEF Left, SaidBy
  <2>2. File' = File
    BY <1>1 DEF File, Readable
  <2> QED
    BY Zenon, <1>1, <2>1, <2>2 DEF LoadInv
<1>3. PoolInit(config)' = PoolInit(config)
  BY <1>1
<1>4. /\ pool \in [Shards -> PoolInit(config) \cup {Nil}]
      /\ \A s \in Shards : shard[s].service = "up" => pool[s] # Nil
  BY DEF PoolInv
<1>5. \A s, t \in Shards :
          /\ shard'[s].service = "up" => shard[s].service = "up" \/ Starts(s)
          /\ Starts(s) /\ Starts(t) => s = t
  BY <1>1, ServiceStep
<1>6. CASE \E s \in Shards : /\ Starts(s)
                             /\ \E p \in PoolInit(config) : pool' = [pool EXCEPT ![s] = p]
  <2>1. PICK s \in Shards, p \in PoolInit(config) :
            Starts(s) /\ pool' = [pool EXCEPT ![s] = p]
    BY Zenon, <1>6
  <2>2. p # Nil
    BY Zenon, PoolTypes DEF LoadInv
  <2>3. pool' \in [Shards -> PoolInit(config) \cup {Nil}]
    BY <1>4, <2>1
  <2>4. \A t \in Shards : shard'[t].service = "up" => pool'[t] # Nil
    BY Zenon, <1>4, <1>5, <2>1, <2>2
  <2> QED
    BY Zenon, <1>1, <1>2, <1>3, <2>3, <2>4 DEF PoolInv
<1>7. CASE (\A s \in Shards : ~Starts(s)) /\ UNCHANGED pool
  <2>1. \A t \in Shards : shard'[t].service = "up" => pool'[t] # Nil
    BY Zenon, <1>4, <1>5, <1>7
  <2> QED
    BY Zenon, <1>1, <1>2, <1>3, <1>4, <1>7, <2>1 DEF PoolInv
<1> QED
  BY <1>1, <1>6, <1>7 DEF SizePools

\* Launching refines serving: whatever the configuration, the process brings its
\* servers up and takes them down as SocketServer does, so that what holds of
\* SocketServer holds of it.
THEOREM StartupImplementsServer == StartSpec => Spec
  BY StartSteps, PTL DEF StartSpec, Spec

LEMMA StartInvariant == StartSpec => [](IInv /\ LoadInv /\ PoolInv)
<1>1. Spec => []IInv
  BY ServerInvariant
<1>2. StartInit => LoadInv /\ PoolInv
  BY LoadInit
<1>3. IInv /\ LoadInv /\ PoolInv /\ [StartNext]_startVars => (LoadInv /\ PoolInv)'
  <2> SUFFICES ASSUME IInv, LoadInv, PoolInv, [StartNext]_startVars
               PROVE  LoadInv' /\ PoolInv'
    OBVIOUS
  <2>1. CASE Load
    BY <2>1, LoadPreserves
  <2>2. CASE Run(Next)
    BY <2>2, RunPreserves DEF IInv
  <2>3. CASE UNCHANGED startVars
    <3>1. UNCHANGED <<launch, stage, file, read, config, pool, shard, conn>>
      BY <2>3 DEF startVars, vars, loader
    <3>2. LoadInv'
      <4>1. \A f : Left(read, f)' = Left(read, f)
        BY <3>1 DEF Left, SaidBy
      <4>2. File' = File
        <5>1. launch' = launch
          BY Zenon, <3>1
        <5>2. Readable' = Readable
          BY Zenon, <5>1 DEF Readable
        <5> QED
          BY <5>1, <5>2 DEF File
      <4> QED
        BY Zenon, <3>1, <4>1, <4>2 DEF LoadInv
    <3> QED
      BY Zenon, <3>1, <3>2 DEF PoolInv
  <2> QED
    BY <2>1, <2>2, <2>3 DEF StartNext
<1> QED
  BY <1>1, <1>2, <1>3, StartupImplementsServer, PTL DEF StartSpec

\* Whenever the fractions of the configuration are fractions, the sizes that
\* ObjectPool's init computes from it and from the shard's memory fit: PoolsSound
\* for every configuration file and any amount of memory.
THEOREM StartPoolsSound == StartSpec => []PoolsSound
<1>1. LoadInv /\ PoolInv => PoolsSound
  <2> SUFFICES ASSUME LoadInv, PoolInv, NEW s \in Shards, pool[s] # Nil, Sane(config)
               PROVE  /\ 100 * pool[s].max * PerEntry(config)
                             <= (100 - config["memory_reserve_percentage"]) * Memory
                      /\ pool[s].prob <= pool[s].max /\ pool[s].threshold <= pool[s].prob
    BY Zenon DEF PoolsSound
  <2>1. ConfigOK(config) /\ pool[s] \in PoolInit(config)
    BY Zenon DEF LoadInv, PoolInv
  <2> QED
    BY Zenon, <2>1, SizesFacts
<1> QED
  BY <1>1, StartInvariant, PTL

\* load_config_file, the command line and init together, for every launch: a
\* client is only ever served by the configuration that the launch asks for.
THEOREM StartServesAsAsked == StartSpec => []ServesAsAsked
<1>1. IInv /\ LoadInv /\ PoolInv => ServesAsAsked
  <2> SUFFICES ASSUME IInv, LoadInv, PoolInv, NEW c \in Conns, conn[c].pc = "processing"
               PROVE  /\ \A f \in UsedFields : config[f] = Asked(f)
                      /\ \A s, t \in Shards :
                             pool[s] # Nil /\ (Sane(config) => pool[s] = pool[t])
    BY Zenon DEF ServesAsAsked
  <2>1. stage = "run"
    BY DEF PoolInv
  <2>2. /\ file \in Seq(Line) /\ file = File /\ read = Len(file) /\ ConfigOK(config)
        /\ \A f \in UsedFields : config[f] = IF f = "db_port" /\ launch.port # Nil
                                             THEN launch.port ELSE Left(read, f)
    BY <2>1 DEF LoadInv
  <2>3. ASSUME NEW f \in UsedFields PROVE config[f] = Asked(f)
    <3>1. DOMAIN File = 1..read
      BY <2>2
    <3>2. {i \in DOMAIN File : Field(File[i].key) = f /\ Says(File[i]) # Bad} = SaidBy(read, f)
      BY Zenon, <2>2, <3>1 DEF SaidBy
    <3> QED
      BY Zenon, <2>2, <2>3, <3>2 DEF Asked, Left
  <2>4. ASSUME NEW s \in Shards PROVE pool[s] # Nil /\ pool[s] \in PoolInit(config)
    <3>1. shard[s].service = "up"
      BY Zenon, IInvImplies DEF ReadyFirst
    <3> QED
      BY Zenon, <3>1 DEF PoolInv
  <2>5. ASSUME NEW s \in Shards, NEW t \in Shards, Sane(config) PROVE pool[s] = pool[t]
    BY Zenon, <2>2, <2>4, <2>5, SizesFacts
  <2> QED
    BY <2>3, <2>4, <2>5
<1> QED
  BY <1>1, StartInvariant, PTL
=============================================================================
