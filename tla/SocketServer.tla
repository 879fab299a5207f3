---------------------------- MODULE SocketServer ----------------------------
(***************************************************************************)
(* The life of the process: init in main.cc brings up, on every shard in    *)
(* turn, the connect flag, the service, the socket_server, its handler and  *)
(* its listener, sleeps until a signal, and takes the servers down again.   *)
(* Meanwhile each shard's accept loop takes connections, and the server's   *)
(* gate counts the loop and the handlers that run.  smp::invoke_on_all and  *)
(* sharded<> do a phase on every shard in any order and wait for all.       *)
(***************************************************************************)
EXTENDS Integers, FiniteSets

CONSTANTS Shards, Conns, Nil

ASSUME ServerAssumption ==
    /\ Shards # {} /\ IsFiniteSet(Shards) /\ IsFiniteSet(Conns)
    /\ Nil \notin Shards

VARIABLES main,     \* the phase that init is in
          done,     \* the shards that are through with it
          failed,   \* a shard threw
          aborted,  \* as.request_abort has been called
          shard,    \* per shard: service and socket_server
          conn      \* per client: the connection object and its handler

vars == <<main, done, failed, aborted, shard, conn>>

Phases == {"details", "services", "start", "handler", "listen", "sleep",
           "stop", "destroy", "log", "exit"}

After(p) ==
    CASE p = "details" -> "services"
      [] p = "services" -> "start"
      [] p = "start" -> "handler"
      [] p = "handler" -> "listen"
      [] p = "listen" -> "sleep"
      [] p = "stop" -> "destroy"
      [] p = "destroy" -> "log"
      [] p = "log" -> "exit"

Init ==
    /\ main = "details" /\ done = {} /\ failed = FALSE /\ aborted = FALSE
    /\ shard = [s \in Shards |->
                  [details |-> FALSE, service |-> "down", server |-> "none",
                   handler |-> FALSE, accept |-> "idle",
                   gate |-> 0, current |-> 0]]
    /\ conn = [c \in Conns |-> [pc |-> "away", at |-> Nil, down |-> FALSE]]

-----------------------------------------------------------------------------
(* init.                                                                     *)

Phase(p, s) == main = p /\ s \notin done
PhaseDone(s) == done' = done \cup {s} /\ UNCHANGED <<main, aborted>>

\* set_send_shard_details_on_connect.
SetDetails(s) ==
    /\ Phase("details", s)
    /\ shard' = [shard EXCEPT ![s].details = TRUE]
    /\ PhaseDone(s) /\ UNCHANGED <<failed, conn>>

\* Mutant: nobody waits for the store.
ServiceNotAwaited(s) ==
    /\ Phase("services", s)
    /\ shard' = [shard EXCEPT ![s].service = "starting"]
    /\ PhaseDone(s) /\ UNCHANGED <<failed, conn>>

\* service::start says that it has started before the store has.
ServiceStart(s) ==
    /\ Phase("services", s) /\ shard[s].service = "down"
    /\ shard' = [shard EXCEPT ![s].service = "starting"]
    /\ UNCHANGED <<main, done, failed, aborted, conn>>

StoreStart(s) ==
    /\ Phase("services", s) /\ shard[s].service = "starting"
    /\ \/ /\ shard' = [shard EXCEPT ![s].service = "up"] /\ UNCHANGED failed
       \/ failed' = TRUE /\ UNCHANGED shard
    /\ PhaseDone(s) /\ UNCHANGED conn

\* sharded<socket_server>::start.
ServerStart(s) ==
    /\ Phase("start", s)
    /\ shard' = [shard EXCEPT ![s].server = "up"]
    /\ PhaseDone(s) /\ UNCHANGED <<failed, conn>>

SetHandler(s) ==
    /\ Phase("handler", s)
    /\ shard' = [shard EXCEPT ![s].handler = TRUE]
    /\ PhaseDone(s) /\ UNCHANGED <<failed, conn>>

\* listen and do_accepts: the gate is entered for the loop and for its first
\* round.  The port may be taken.
Listen(s) ==
    /\ Phase("listen", s)
    /\ \/ /\ shard' = [shard EXCEPT ![s].accept = "wait", ![s].gate = @ + 2]
          /\ UNCHANGED failed
       \/ failed' = TRUE /\ UNCHANGED shard
    /\ PhaseDone(s) /\ UNCHANGED conn

\* Every shard is through with the phase.
AllDone == done = Shards

\* The next continuation of init, or finally when a shard threw.
Continue ==
    /\ main \notin {"sleep", "exit"} /\ AllDone
    /\ main' = IF failed /\ main \in {"services", "listen"} THEN "stop" ELSE After(main)
    /\ done' = {}
    /\ UNCHANGED <<failed, aborted, shard, conn>>

\* SIGINT or SIGTERM, at any time.
Signal ==
    /\ ~aborted /\ main # "exit"
    /\ aborted' = TRUE
    /\ UNCHANGED <<main, done, failed, shard, conn>>

\* sleep_abortable throws, also when it is entered after the signal.
Wake ==
    /\ main = "sleep" /\ aborted
    /\ main' = "stop"
    /\ UNCHANGED <<done, failed, aborted, shard, conn>>

-----------------------------------------------------------------------------
(* socket_server.                                                            *)

Closed(s) == shard[s].server # "up"

Linked(s) == {c \in Conns : conn[c].pc = "processing" /\ conn[c].at = s}

\* Mutant: the accept that is waiting is not aborted.
StopNoAbort(s) ==
    /\ Phase("stop", s) /\ shard[s].server = "up"
    /\ shard' = [shard EXCEPT ![s].server = "stopping"]
    /\ conn' = [c \in Conns |-> IF c \in Linked(s) THEN [conn[c] EXCEPT !.down = TRUE]
                                ELSE conn[c]]
    /\ UNCHANGED <<main, done, failed, aborted>>

\* stop: abort_accept, shutdown of every connection, and the gate closes.
Stop(s) ==
    /\ Phase("stop", s) /\ shard[s].server = "up"
    /\ shard' = [shard EXCEPT ![s].server = "stopping",
                              ![s].accept = IF @ = "wait" THEN "failed" ELSE @]
    /\ conn' = [c \in Conns |-> IF c \in Linked(s) THEN [conn[c] EXCEPT !.down = TRUE]
                                ELSE conn[c]]
    /\ UNCHANGED <<main, done, failed, aborted>>

\* The gate is empty, or there never was a server.
Stopped(s) ==
    /\ Phase("stop", s)
    /\ \/ shard[s].server = "stopping" /\ shard[s].gate = 0
       \/ shard[s].server = "none"
    /\ PhaseDone(s) /\ UNCHANGED <<failed, shard, conn>>

Destroy(s) ==
    /\ Phase("destroy", s)
    /\ shard' = [shard EXCEPT ![s].server = "none", ![s].handler = FALSE]
    /\ PhaseDone(s) /\ UNCHANGED <<failed, conn>>

\* log_request_counters_on_shutdown.
LogCounters(s) ==
    /\ Phase("log", s)
    /\ PhaseDone(s) /\ UNCHANGED <<failed, shard, conn>>

\* accept() resolves with a new connection, or fails.
Incoming(s, c) ==
    /\ shard[s].accept = "wait" /\ conn[c].pc = "away"
    /\ shard' = [shard EXCEPT ![s].accept = "got"]
    /\ conn' = [conn EXCEPT ![c].pc = "accepted", ![c].at = s]
    /\ UNCHANGED <<main, done, failed, aborted>>

AcceptError(s) ==
    /\ shard[s].accept = "wait"
    /\ shard' = [shard EXCEPT ![s].accept = "failed"]
    /\ UNCHANGED <<main, done, failed, aborted, conn>>

\* A handler can be made for a connection, and the gate lets it in.
Serves(s) == shard[s].handler /\ ~Closed(s)

\* Mutant: the handler runs outside the gate.
AcceptUngated(s, c) ==
    /\ shard[s].accept = "got" /\ conn[c].pc = "accepted" /\ conn[c].at = s
    /\ conn' = [conn EXCEPT ![c].pc = "processing"]
    /\ shard' = [shard EXCEPT ![s].current = @ + 1,
                              ![s].accept = "loop", ![s].gate = @ - 1]
    /\ UNCHANGED <<main, done, failed, aborted>>

\* Mutant: the handler runs although the gate has closed.
AcceptLate(s, c) ==
    /\ shard[s].accept = "got" /\ conn[c].pc = "accepted" /\ conn[c].at = s
    /\ conn' = [conn EXCEPT ![c].pc = "processing"]
    /\ shard' = [shard EXCEPT ![s].current = @ + 1, ![s].accept = "loop"]
    /\ UNCHANGED <<main, done, failed, aborted>>

\* The continuation of accept().  The connection object links itself to the
\* server; when the gate has closed meanwhile it goes away at once.  The round
\* of the loop leaves the gate.
AcceptOne(s, c) ==
    /\ shard[s].accept = "got" /\ conn[c].pc = "accepted" /\ conn[c].at = s
    /\ \/ /\ Serves(s)
          /\ conn' = [conn EXCEPT ![c].pc = "processing"]
          /\ shard' = [shard EXCEPT ![s].current = @ + 1, ![s].accept = "loop"]
       \/ /\ ~Serves(s)
          /\ conn' = [conn EXCEPT ![c].pc = "gone"]
          /\ shard' = [shard EXCEPT ![s].accept = "loop", ![s].gate = @ - 1]
    /\ UNCHANGED <<main, done, failed, aborted>>

\* Mutant: a failed round leaves the gate twice.
AcceptFailedLeavesTwice(s) ==
    /\ shard[s].accept = "failed"
    /\ shard' = [shard EXCEPT ![s].accept = "loop", ![s].gate = @ - 2]
    /\ UNCHANGED <<main, done, failed, aborted, conn>>

\* A failure is logged unless it is ECONNABORTED, and the loop goes on.
AcceptFailed(s) ==
    /\ shard[s].accept = "failed"
    /\ shard' = [shard EXCEPT ![s].accept = "loop", ![s].gate = @ - 1]
    /\ UNCHANGED <<main, done, failed, aborted, conn>>

\* keep_doing: the next round, or the end when the gate has closed.
Loop(s) ==
    /\ shard[s].accept = "loop"
    /\ shard' = IF Closed(s) THEN [shard EXCEPT ![s].accept = "ended", ![s].gate = @ - 1]
                ELSE [shard EXCEPT ![s].accept = "wait", ![s].gate = @ + 1]
    /\ UNCHANGED <<main, done, failed, aborted, conn>>

-----------------------------------------------------------------------------
(* A connection.                                                             *)

\* Mutant: a close is counted by the connection and by on_conn_close.
ProcessCountsTwice(c) ==
    /\ conn[c].pc = "processing"
    /\ conn' = [conn EXCEPT ![c].pc = "finished"]
    /\ shard' = [shard EXCEPT ![conn[c].at].current = @ - 2]
    /\ UNCHANGED <<main, done, failed, aborted>>

\* process returns or throws, and ~connection unlinks itself from the server.
ProcessEnds(c) ==
    /\ conn[c].pc = "processing"
    /\ conn' = [conn EXCEPT ![c].pc = "finished"]
    /\ shard' = [shard EXCEPT ![conn[c].at].current = @ - 1]
    /\ UNCHANGED <<main, done, failed, aborted>>

LeaveGate(c) ==
    /\ conn[c].pc = "finished"
    /\ conn' = [conn EXCEPT ![c].pc = "gone"]
    /\ shard' = [shard EXCEPT ![conn[c].at].gate = @ - 1]
    /\ UNCHANGED <<main, done, failed, aborted>>

-----------------------------------------------------------------------------
InitStep(s) ==
    \/ SetDetails(s) \/ ServiceStart(s) \/ StoreStart(s) \/ ServerStart(s)
    \/ SetHandler(s) \/ Listen(s)
    \/ Stop(s) \/ Stopped(s) \/ Destroy(s) \/ LogCounters(s)

AcceptStep(s) == AcceptFailed(s) \/ Loop(s) \/ \E c \in Conns : AcceptOne(s, c)

Next ==
    \/ Continue \/ Signal \/ Wake
    \/ \E s \in Shards : InitStep(s) \/ AcceptStep(s) \/ AcceptError(s)
    \/ \E s \in Shards, c \in Conns : Incoming(s, c)
    \/ \E c \in Conns : ProcessEnds(c) \/ LeaveGate(c)

Spec == Init /\ [][Next]_vars

\* The reactor runs what is ready.  Clients, handlers, errors and signals owe
\* nothing.
FairSpec ==
    /\ Spec
    /\ WF_vars(Continue \/ Wake)
    /\ \A s \in Shards : WF_vars(InitStep(s)) /\ WF_vars(AcceptStep(s))
    /\ \A c \in Conns : WF_vars(LeaveGate(c))

-----------------------------------------------------------------------------
(* Properties.                                                               *)

\* Every variable keeps its type.
TypeOK ==
    /\ main \in Phases /\ done \subseteq Shards
    /\ failed \in BOOLEAN /\ aborted \in BOOLEAN
    /\ shard \in [Shards ->
           [details : BOOLEAN, service : {"down", "starting", "up"},
            server : {"none", "up", "stopping"}, handler : BOOLEAN,
            accept : {"idle", "wait", "got", "failed", "loop", "ended"},
            gate : Nat, current : Nat]]
    /\ conn \in [Conns -> [pc : {"away", "accepted", "processing", "finished", "gone"},
                           at : Shards \cup {Nil}, down : BOOLEAN]]

\* No connection is served before every shard can be asked: handlers forward to
\* any shard, and local_set and local_get wait for nothing once _started is set.
ReadyFirst ==
    \A c \in Conns : conn[c].pc = "processing" =>
        \A s \in Shards : shard[s].details /\ shard[s].service = "up"

\* The gate covers everything that refers to the server: when it is destroyed, its
\* accept loop has ended and no connection will unlink itself from it any more.
NoneOutlivesServer ==
    \A s \in Shards : shard[s].server = "none" =>
        /\ shard[s].accept \in {"idle", "ended"}
        /\ \A c \in Conns : conn[c].at = s => conn[c].pc = "gone"

\* No connection slips past stop: whatever is being served by a server that is
\* stopping has had its socket shut down.
StopReachesAll ==
    \A c \in Conns : conn[c].pc = "processing" /\ Closed(conn[c].at) => conn[c].down

\* current_connections is the number of connections that are linked.
CurrentIsLinked == \A s \in Shards : shard[s].current = Cardinality(Linked(s))

\* The handler of a connection whose socket has been shut down returns.
HandlersReturn == \A c \in Conns : conn[c].down ~> (conn[c].pc # "processing")

\* The handlers are all that a signal waits for: provided that those return whose
\* sockets stop has shut down, a signal ends the process, whenever it comes, in the
\* middle of init or of an accept.  (The read loop of PipelinedConnection does not
\* always return, see GiveUpCloses there: then stop waits for ever.)
SignalExits == HandlersReturn => (aborted ~> (main = "exit"))
=============================================================================
