------------------------- MODULE PipelinedConnection -------------------------
(***************************************************************************)
(* One client connection: PipelinedSocketHandler::process and its two       *)
(* loops (src/conn/socket_handler.cc).  The read loop starts a handler for  *)
(* each request it extracts and queues the future of the answer; the write  *)
(* loop waits for the futures in turn and sends the answers.  A semaphore   *)
(* bounds the requests in flight, a condition variable wakes the writer.    *)
(*                                                                          *)
(* Requests are numbered in the order the client sends them.  Both loops    *)
(* run on one reactor thread: a step is the code between two co_awaits.     *)
(***************************************************************************)
EXTENDS Integers, Sequences

CONSTANTS MaxInflight,   \* max_inflight, 1024 in the code
          MaxRequests    \* bound: the client sends so many requests

ASSUME ConnAssumption == MaxInflight \in Nat \ {0} /\ MaxRequests \in Nat

VARIABLES
    sent,      \* requests the client has sent
    hungup,    \* the client has closed its side, or the socket was shut down
    broken,    \* the socket is dead: reads end, writes may fail
    got,       \* requests the read loop has received in its buffer
    taken,     \* requests extracted and handed to handle_request
    rd,        \* the read loop: "read", "extract", "slot" (holds one), "done";
               \* "greet" before process has started the loops
    slots,     \* _slots
    respq,     \* _respq: the requests whose futures are queued
    fut,       \* the future of each request
    wr,        \* the write loop
    cur,       \* the request it has popped, 0 when none
    eof,       \* _eof
    out,       \* answers written to the output stream
    flushed,   \* how many of them have been flushed
    failed,    \* the write loop gave up
    closed     \* process has closed both streams

vars == <<sent, hungup, broken, got, taken, rd, slots, respq, fut, wr, cur, eof,
          out, flushed, failed, closed>>

client == <<sent, hungup, broken>>
reader == <<got, taken, rd>>
writer == <<wr, cur, out, flushed, failed>>

Requests == 1..MaxRequests

Init ==
    /\ sent = 0 /\ hungup = FALSE /\ broken = FALSE
    /\ got = 0 /\ taken = 0 /\ rd = "greet"
    /\ slots = MaxInflight /\ respq = <<>>
    /\ fut = [i \in Requests |-> "none"]
    /\ wr = "greet" /\ cur = 0 /\ eof = FALSE
    /\ out = <<>> /\ flushed = 0
    /\ failed = FALSE /\ closed = FALSE

\* _cv.signal and _cv.broadcast: only the write loop ever waits.
Signal == wr' = IF wr = "waiting" THEN "top" ELSE wr

-----------------------------------------------------------------------------
(* The client, the network and the handlers.                                 *)

Send ==
    /\ ~ hungup /\ sent < MaxRequests
    /\ sent' = sent + 1
    /\ UNCHANGED <<hungup, broken, reader, slots, respq, fut, eof, writer, closed>>

Hangup ==
    /\ ~ hungup
    /\ hungup' = TRUE
    /\ UNCHANGED <<sent, broken, reader, slots, respq, fut, eof, writer, closed>>

\* The peer is gone, or socket_server::stop called connection::shutdown.
Break ==
    /\ ~ broken
    /\ hungup' = TRUE /\ broken' = TRUE
    /\ UNCHANGED <<sent, reader, slots, respq, fut, eof, writer, closed>>

\* A handler finishes, in any order, with an answer or with an exception.
Finish(i) ==
    /\ fut[i] = "pending"
    /\ \E v \in {"ready", "failed"} : fut' = [fut EXCEPT ![i] = v]
    /\ UNCHANGED <<client, reader, slots, respq, eof, writer, closed>>

\* process sends the shard details when it is configured to, then runs both
\* loops; when that fails it goes straight to closing the streams.
Greet ==
    /\ rd = "greet"
    /\ \/ rd' = "read" /\ wr' = "top"
       \/ broken /\ rd' = "done" /\ wr' = "done"
    /\ UNCHANGED <<client, got, taken, slots, respq, fut, eof, cur, out, flushed,
                   failed, closed>>

-----------------------------------------------------------------------------
(* read_loop_impl.                                                           *)

\* in.read returns a chunk; it may end anywhere in what has arrived.
ReadChunk ==
    /\ rd = "read" /\ got < sent
    /\ \E n \in (got + 1)..sent : got' = n
    /\ rd' = "extract"
    /\ UNCHANGED <<client, taken, slots, respq, fut, eof, writer, closed>>

\* Mutant: the writer is not told that no request will follow.
ReadEndNoSignal ==
    /\ rd = "read" /\ hungup /\ (got = sent \/ broken)
    /\ rd' = "done"
    /\ eof' = TRUE
    /\ UNCHANGED <<client, got, taken, slots, respq, fut, writer, closed>>

\* in.read returns an empty buffer or throws: the loop ends.
ReadEnd ==
    /\ rd = "read" /\ hungup /\ (got = sent \/ broken)
    /\ rd' = "done"
    /\ eof' = TRUE
    /\ Signal
    /\ UNCHANGED <<client, got, taken, slots, respq, fut, cur, out, flushed,
                   failed, closed>>

\* try_extract_request finds no complete request: read on.
NeedMore ==
    /\ rd = "extract" /\ taken = got
    /\ rd' = "read"
    /\ UNCHANGED <<client, got, taken, slots, respq, fut, eof, writer, closed>>

\* Mutant: the semaphore is not waited for.
TakeSlotUnchecked ==
    /\ rd = "extract" /\ taken < got
    /\ slots' = slots - 1
    /\ rd' = "slot"
    /\ UNCHANGED <<client, got, taken, respq, fut, eof, writer, closed>>

\* co_await _slots.wait(1) is granted.
TakeSlot ==
    /\ rd = "extract" /\ taken < got /\ slots > 0
    /\ slots' = slots - 1
    /\ rd' = "slot"
    /\ UNCHANGED <<client, got, taken, respq, fut, eof, writer, closed>>

\* Mutant: the answer is queued in front.
StartFront ==
    /\ rd = "slot"
    /\ taken' = taken + 1
    /\ respq' = <<taken + 1>> \o respq
    /\ \E v \in {"pending", "ready", "failed"} :
           fut' = [fut EXCEPT ![taken + 1] = v]
    /\ Signal
    /\ rd' = "extract"
    /\ UNCHANGED <<client, got, slots, eof, cur, out, flushed, failed, closed>>

\* Mutant: the writer is not woken.
StartNoSignal ==
    /\ rd = "slot"
    /\ taken' = taken + 1
    /\ respq' = Append(respq, taken + 1)
    /\ \E v \in {"pending", "ready", "failed"} :
           fut' = [fut EXCEPT ![taken + 1] = v]
    /\ rd' = "extract"
    /\ UNCHANGED <<client, got, slots, eof, writer, closed>>

\* handle_request is called and runs at once; it may finish without waiting.
StartRequest ==
    /\ rd = "slot"
    /\ taken' = taken + 1
    /\ respq' = Append(respq, taken + 1)
    /\ \E v \in {"pending", "ready", "failed"} :
           fut' = [fut EXCEPT ![taken + 1] = v]
    /\ Signal
    /\ rd' = "extract"
    /\ UNCHANGED <<client, got, slots, eof, cur, out, flushed, failed, closed>>

-----------------------------------------------------------------------------
(* write_loop_impl.                                                          *)

Sleep ==
    /\ wr = "top" /\ respq = <<>> /\ ~ eof
    /\ wr' = "waiting"
    /\ UNCHANGED <<client, reader, slots, respq, fut, eof, cur, out, flushed,
                   failed, closed>>

\* Mutant: the end of the requests ends the loop with futures still queued.
WriteDoneAtEof ==
    /\ wr = "top" /\ eof
    /\ wr' = "done"
    /\ UNCHANGED <<client, reader, slots, respq, fut, eof, cur, out, flushed,
                   failed, closed>>

WriteDone ==
    /\ wr = "top" /\ respq = <<>> /\ eof
    /\ wr' = "done"
    /\ UNCHANGED <<client, reader, slots, respq, fut, eof, cur, out, flushed,
                   failed, closed>>

Pop ==
    /\ wr = "top" /\ respq # <<>>
    /\ cur' = Head(respq)
    /\ respq' = Tail(respq)
    /\ wr' = "await"
    /\ UNCHANGED <<client, reader, slots, fut, eof, out, flushed, failed, closed>>

Resolved ==
    /\ wr = "await" /\ fut[cur] = "ready"
    /\ wr' = "write"
    /\ UNCHANGED <<client, reader, slots, respq, fut, eof, cur, out, flushed,
                   failed, closed>>

\* Both catch blocks: set _eof, broadcast, release max_inflight slots, return.
GiveUp ==
    /\ wr' = "done"
    /\ failed' = TRUE
    /\ eof' = TRUE
    /\ slots' = slots + MaxInflight
    /\ UNCHANGED <<client, reader, respq, fut, cur, out, flushed, closed>>

\* The future failed, or with_timeout gave up on it after two seconds.
Stuck == wr = "await" /\ fut[cur] # "ready" /\ GiveUp

\* Mutant: the slot is given back although a flush is still to come.
WriteSignalsTwice ==
    /\ wr = "write"
    /\ out' = Append(out, cur)
    /\ wr' = IF respq = <<>> THEN "flush" ELSE "top"
    /\ slots' = slots + 1
    /\ cur' = IF respq = <<>> THEN cur ELSE 0
    /\ UNCHANGED <<client, reader, respq, fut, eof, flushed, failed, closed>>

\* Mutant: the last answer is never flushed.
WriteNoFlush ==
    /\ wr = "write"
    /\ out' = Append(out, cur)
    /\ wr' = "top" /\ cur' = 0 /\ slots' = slots + 1
    /\ UNCHANGED <<client, reader, respq, fut, eof, flushed, failed, closed>>

\* out.write; the answer is flushed only when the queue is empty by then.
Write ==
    /\ wr = "write"
    /\ out' = Append(out, cur)
    /\ \/ /\ respq = <<>>
          /\ wr' = "flush"
          /\ UNCHANGED <<cur, slots>>
       \/ /\ respq # <<>>
          /\ wr' = "top" /\ cur' = 0 /\ slots' = slots + 1
    /\ UNCHANGED <<client, reader, respq, fut, eof, flushed, failed, closed>>

Flush ==
    /\ wr = "flush"
    /\ flushed' = Len(out)
    /\ wr' = "top" /\ cur' = 0 /\ slots' = slots + 1
    /\ UNCHANGED <<client, reader, respq, fut, eof, out, failed, closed>>

\* A broken socket makes a write or a flush throw, at once or only later.
WriteFails == wr \in {"write", "flush"} /\ broken /\ GiveUp

-----------------------------------------------------------------------------
\* when_all of the two loops is done: close out, which flushes it, and in.
Close ==
    /\ rd = "done" /\ wr = "done" /\ ~ closed
    /\ closed' = TRUE
    /\ flushed' = IF broken THEN flushed ELSE Len(out)
    /\ UNCHANGED <<client, reader, slots, respq, fut, eof, wr, cur, out, failed>>

ReadStep == ReadChunk \/ ReadEnd \/ NeedMore \/ TakeSlot \/ StartRequest
WriteStep == Sleep \/ WriteDone \/ Pop \/ Resolved \/ Stuck \/ Write \/ Flush
             \/ WriteFails

Next ==
    \/ Send \/ Hangup \/ Break
    \/ \E i \in Requests : Finish(i)
    \/ Greet \/ ReadStep \/ WriteStep \/ Close

Spec == Init /\ [][Next]_vars

\* The reactor runs process and both loops; the two-second timer makes "await"
\* end even when the handler never does.
FairSpec ==
    /\ Spec
    /\ WF_vars(ReadStep) /\ WF_vars(WriteStep) /\ WF_vars(Close)
    /\ WF_vars(Greet)

\* A client that closes its side in the end.
PoliteSpec == FairSpec /\ WF_vars(Hangup)

-----------------------------------------------------------------------------
(* Properties.                                                               *)

\* Every variable keeps its type.
TypeOK ==
    /\ sent \in 0..MaxRequests /\ got \in 0..sent /\ taken \in 0..got
    /\ hungup \in BOOLEAN /\ broken \in BOOLEAN /\ eof \in BOOLEAN
    /\ failed \in BOOLEAN /\ closed \in BOOLEAN
    /\ rd \in {"greet", "read", "extract", "slot", "done"}
    /\ wr \in {"greet", "top", "waiting", "await", "write", "flush", "done"}
    /\ slots \in Nat
    /\ respq \in Seq(Requests) /\ out \in Seq(Requests)
    /\ fut \in [Requests -> {"none", "pending", "ready", "failed"}]
    /\ cur \in 0..MaxRequests
    /\ flushed \in Nat

\* The answers go out in the order of the requests, one each, although the
\* handlers finish in any order.
AnswersInOrder == \A i \in DOMAIN out : out[i] = i

\* Until the writer gives up, a slot is free, or belongs to one request that
\* has been admitted and not yet answered: at most MaxInflight are in flight.
SlotsBalance ==
    ~ failed => slots + Len(respq) + (IF rd = "slot" THEN 1 ELSE 0)
                      + (IF cur # 0 THEN 1 ELSE 0) = MaxInflight

\* The writer never sleeps while there is something for it to do.
NoLostWakeup == wr = "waiting" => respq = <<>> /\ ~ eof

\* While the writer is idle every answer it wrote has left the buffer.
IdleMeansFlushed == wr = "waiting" => flushed = Len(out)

\* process returns, and with it the connection and its place in the server's gate
\* go, only when no handler is running any more, unless the writer gave up: then
\* with_timeout has left handlers behind that still run without a connection.
CloseWaitsForHandlers ==
    closed /\ ~ failed => \A i \in Requests : fut[i] # "pending"

\* A request that was read is answered and the answer flushed, or the writer
\* gives up.
RequestsAnswered ==
    \A i \in Requests : taken >= i ~> (flushed >= i \/ failed)

\* Once the client has hung up the connection is closed, unless the writer has
\* given up on it.
HangupCloses == hungup ~> (closed \/ failed)

\* "dropping connection": a connection whose writer gave up is closed.
GiveUpCloses == failed ~> closed
=============================================================================
