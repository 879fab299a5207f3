------------------------------- MODULE Session -------------------------------
(***************************************************************************)
(* A client's session: the pipelined connection together with what its      *)
(* commands do to the store.  The read loop starts handle_request for one    *)
(* request after the other without waiting for the one before; a handler     *)
(* reaches the store some time between its start and its answer, because     *)
(* local_set and local_get co_await first, a SET waits for an object, and    *)
(* either may be forwarded to another shard.                                 *)
(*                                                                           *)
(* All commands are about one key, and every SET makes a new version of its  *)
(* entry, at once as ShardCache promises.  Evictions and the SETs of other    *)
(* clients, which ShardRouting has, would only add versions.                  *)
(***************************************************************************)
EXTENDS PipelinedConnection

CONSTANT Commands     \* what the client sends: some of SET, GET, QUIT

ASSUME SessionAssumption == Commands \subseteq {"SET", "GET", "QUIT"}

VARIABLES cmd,       \* the command of each request, Unread before it is started
          seen,      \* the answers the client may have had when it sent a request
          version,   \* the version of the key's entry
          at         \* the version a SET made or a GET read, 0 before that

session == <<cmd, seen, version, at>>
svars == <<vars, session>>

Unread == "unread"

SessionInit ==
    /\ Init
    /\ cmd = [i \in Requests |-> Unread]
    /\ seen = [i \in Requests |-> 0]
    /\ version = 1
    /\ at = [i \in Requests |-> 0]

\* Answers that are written may reach the client before the writer flushes.
SendCommand ==
    /\ Send
    /\ seen' = [seen EXCEPT ![sent + 1] = Len(out)]
    /\ UNCHANGED <<cmd, version, at>>

\* handle_request finds the command; QUIT is answered at once, SET and GET wait.
\* What throws before it waits is an error answer, or fails the future.
StartCommand ==
    /\ StartRequest
    /\ \E c \in Commands :
           /\ cmd' = [cmd EXCEPT ![taken + 1] = c]
           /\ c = "QUIT" => fut'[taken + 1] = "ready"
    /\ UNCHANGED <<seen, version, at>>

\* Mutant: the handler answers without waiting for the store.
ExecuteLate(i) ==
    /\ fut[i] \in {"pending", "ready"} /\ at[i] = 0
    /\ \/ /\ cmd[i] = "SET"
          /\ version' = version + 1 /\ at' = [at EXCEPT ![i] = version + 1]
       \/ /\ cmd[i] = "GET"
          /\ at' = [at EXCEPT ![i] = version] /\ UNCHANGED version
    /\ UNCHANGED <<vars, cmd, seen>>

\* The handler's operation on the store, wherever that is.  It does not need the
\* connection any more.
Execute(i) ==
    /\ fut[i] = "pending" /\ at[i] = 0
    /\ \/ /\ cmd[i] = "SET"
          /\ version' = version + 1 /\ at' = [at EXCEPT ![i] = version + 1]
       \/ /\ cmd[i] = "GET"
          /\ at' = [at EXCEPT ![i] = version] /\ UNCHANGED version
    /\ UNCHANGED <<vars, cmd, seen>>

\* The two loops, the rest of process, and what the connection has to expect.
ReadLoop ==
    \/ StartCommand
    \/ (ReadChunk \/ ReadEnd \/ NeedMore \/ TakeSlot) /\ UNCHANGED session

WriteLoop == WriteStep /\ UNCHANGED session

Process == (Greet \/ Close) /\ UNCHANGED session

Outside ==
    /\ Hangup \/ Break \/ \E i \in Requests : Finish(i)
    /\ UNCHANGED session

SessionNext ==
    \/ SendCommand \/ (\E i \in Requests : Execute(i))
    \/ ReadLoop \/ WriteLoop \/ Process \/ Outside

SessionSpec == SessionInit /\ [][SessionNext]_svars

\* As for the connection: the reactor runs process and both loops.
FairSession ==
    /\ SessionSpec
    /\ WF_svars(ReadLoop) /\ WF_svars(WriteLoop) /\ WF_svars(Process)

-----------------------------------------------------------------------------
(* Properties.                                                               *)

\* Every variable keeps its type.
SessionTypeOK ==
    /\ cmd \in [Requests -> Commands \cup {Unread}]
    /\ seen \in [Requests -> 0..MaxRequests]
    /\ version \in Nat /\ at \in [Requests -> Nat]

\* What a client can rely on although the handlers of pipelined requests reach
\* the store in any order: a command sent when the answer to an earlier one was
\* there comes after it in the order of the versions.  A GET reads no older
\* version than a SET or GET answered before it was sent, and a SET makes a newer
\* one.  Nothing is promised to a GET sent behind a SET without waiting.
AnsweredBeforeSent ==
    \A i, j \in Requests :
        i <= seen[j] /\ at[i] # 0 /\ at[j] # 0 =>
            at[i] <= at[j] /\ (cmd[j] = "SET" => at[i] < at[j])
=============================================================================
