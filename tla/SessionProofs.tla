---------------------------- MODULE SessionProofs ----------------------------
(***************************************************************************)
(* The safety of one connection, and what a client's session may rely on,   *)
(* for every number of slots and requests.                                  *)
(***************************************************************************)
EXTENDS Session, TLAPS

-----------------------------------------------------------------------------
(* The connection.                                                           *)

\* The requests the write loop holds without having written an answer.
Holding == IF wr \in {"await", "write"} THEN 1 ELSE 0

\* Requests in flight are numbered without a gap: the answers written, the
\* request the writer holds, then the queue, up to the last one taken.
Contiguous ==
    /\ \A i \in DOMAIN respq : respq[i] = taken - Len(respq) + i
    /\ wr # "done" => Len(out) + Holding + Len(respq) = taken
    /\ wr \in {"await", "write"} => cur = Len(out) + 1
    /\ wr = "flush" => cur # 0
    /\ wr \in {"greet", "top", "waiting"} => cur = 0
    /\ wr = "done" /\ ~ failed => cur = 0

\* Where the two loops can be, relative to each other.
Phases ==
    /\ rd = "greet" <=> wr = "greet"
    /\ wr = "greet" => taken = 0 /\ flushed = 0
    /\ rd = "slot" => taken < got
    /\ failed => wr = "done"
    /\ wr \in {"top", "waiting"} /\ respq = <<>> => flushed = Len(out)

\* The inductive invariant.
IInv ==
    /\ TypeOK /\ Contiguous /\ Phases
    /\ AnswersInOrder /\ SlotsBalance /\ NoLostWakeup

\* Append, as the queue and the output stream use it.
LEMMA AppendFacts ==
    ASSUME NEW S, NEW s \in Seq(S), NEW e \in S
    PROVE  /\ Append(s, e) \in Seq(S)
           /\ Len(Append(s, e)) = Len(s) + 1
           /\ DOMAIN Append(s, e) = 1..(Len(s) + 1)
           /\ \A i \in 1..Len(s) : Append(s, e)[i] = s[i]
           /\ Append(s, e)[Len(s) + 1] = e
  OBVIOUS

\* Head and Tail of the queue.
LEMMA TailFacts ==
    ASSUME NEW S, NEW s \in Seq(S), s # <<>>
    PROVE  /\ Head(s) = s[1] /\ Head(s) \in S
           /\ Tail(s) \in Seq(S)
           /\ Len(s) \in Nat \ {0}
           /\ Len(Tail(s)) = Len(s) - 1
           /\ DOMAIN s = 1..Len(s)
           /\ DOMAIN Tail(s) = 1..(Len(s) - 1)
           /\ \A i \in 1..(Len(s) - 1) : Tail(s)[i] = s[i + 1]
  OBVIOUS

\* A new connection satisfies the invariant.
LEMMA InitEstablishes == Init => IInv
<1> SUFFICES ASSUME Init PROVE IInv
  OBVIOUS
<1> USE ConnAssumption DEF Init
<1>1. TypeOK
  <2>1. respq \in Seq(Requests) /\ out \in Seq(Requests)
    OBVIOUS
  <2>2. fut \in [Requests -> {"none", "pending", "ready", "failed"}]
    OBVIOUS
  <2>3. /\ sent \in 0..MaxRequests /\ got \in 0..sent /\ taken \in 0..got
        /\ cur \in 0..MaxRequests /\ slots \in Nat /\ flushed \in Nat
    OBVIOUS
  <2>4. /\ hungup \in BOOLEAN /\ broken \in BOOLEAN /\ eof \in BOOLEAN
        /\ failed \in BOOLEAN /\ closed \in BOOLEAN
    BY Zenon
  <2> QED
    BY <2>1, <2>2, <2>3, <2>4 DEF TypeOK
<1>2. Contiguous /\ Phases
  BY DEF Contiguous, Phases, Holding
<1>3. AnswersInOrder /\ SlotsBalance /\ NoLostWakeup
  BY DEF AnswersInOrder, SlotsBalance, NoLostWakeup
<1> QED
  BY <1>1, <1>2, <1>3 DEF IInv

\* A request is started: its future joins the queue at the end.
LEMMA StartPreserves ==
    ASSUME IInv, StartRequest
    PROVE  IInv'
<1>1. /\ taken + 1 \in Requests /\ taken \in Nat
      /\ taken + 1 \in 0..got /\ sent \in 0..MaxRequests /\ got \in 0..sent
      /\ respq \in Seq(Requests)
  BY ConnAssumption DEF IInv, TypeOK, Phases, Requests, StartRequest
<1>2. /\ respq' \in Seq(Requests)
      /\ Len(respq) \in Nat
      /\ Len(respq') = Len(respq) + 1
      /\ DOMAIN respq = 1..Len(respq)
      /\ DOMAIN respq' = 1..(Len(respq) + 1)
      /\ \A i \in 1..Len(respq) : respq'[i] = respq[i]
      /\ respq'[Len(respq) + 1] = taken + 1
  BY <1>1, AppendFacts DEF StartRequest
<1>3. taken' = taken + 1
  BY DEF StartRequest
<1>4. \A i \in DOMAIN respq : respq[i] = taken - Len(respq) + i
  BY DEF IInv, Contiguous
<1>5. \A i \in DOMAIN respq' : respq'[i] = taken' - Len(respq') + i
  BY <1>1, <1>2, <1>3, <1>4
<1>6. fut' \in [Requests -> {"none", "pending", "ready", "failed"}]
  BY Zenon DEF IInv, TypeOK, StartRequest
<1>7. respq' # <<>>
  BY <1>2
<1>8. TypeOK'
  BY <1>1, <1>2, <1>3, <1>6
  DEF IInv, TypeOK, StartRequest, Signal, client, reader, writer
<1>9. Len(out) \in Nat
  BY DEF IInv, TypeOK
<1>10. Contiguous'
  <2>1. /\ out' = out /\ cur' = cur /\ failed' = failed
        /\ wr' = IF wr = "waiting" THEN "top" ELSE wr
    BY DEF StartRequest, Signal
  <2>2. wr # "done" => Len(out) + Holding + Len(respq) = taken
    BY DEF IInv, Contiguous
  <2>3. Holding \in Nat /\ Holding' = Holding
    BY <2>1 DEF Holding
  <2>4. wr' # "done" => Len(out') + Holding' + Len(respq') = taken'
    BY <1>1, <1>2, <1>3, <1>9, <2>1, <2>2, <2>3
  <2> QED
    BY <1>5, <2>1, <2>4 DEF IInv, Contiguous
<1>11. (Phases /\ AnswersInOrder /\ NoLostWakeup)'
  BY <1>7 DEF IInv, Phases, AnswersInOrder, NoLostWakeup, StartRequest, Signal
<1>12. SlotsBalance'
  BY <1>2 DEF IInv, TypeOK, SlotsBalance, StartRequest
<1> QED
  BY <1>8, <1>10, <1>11, <1>12 DEF IInv

\* The writer takes the oldest request of the queue.
LEMMA PopPreserves ==
    ASSUME IInv, Pop
    PROVE  IInv'
<1>1. respq \in Seq(Requests) /\ respq # <<>> /\ taken \in Nat
  BY DEF IInv, TypeOK, Pop
<1>2. /\ cur' = respq[1] /\ cur' \in Requests
      /\ respq' \in Seq(Requests)
      /\ Len(respq) \in Nat \ {0}
      /\ Len(respq') = Len(respq) - 1
      /\ DOMAIN respq = 1..Len(respq)
      /\ DOMAIN respq' = 1..(Len(respq) - 1)
      /\ \A i \in 1..(Len(respq) - 1) : respq'[i] = respq[i + 1]
  BY <1>1, TailFacts DEF Pop
<1>3. \A i \in DOMAIN respq : respq[i] = taken - Len(respq) + i
  BY DEF IInv, Contiguous
<1>4. taken' = taken /\ out' = out /\ wr = "top" /\ wr' = "await"
  BY DEF Pop, reader
<1>5. ASSUME NEW i \in DOMAIN respq'
      PROVE  respq'[i] = taken' - Len(respq') + i
  <2>1. i \in Nat /\ i + 1 \in DOMAIN respq
    BY <1>2, <1>5
  <2>2. respq[i + 1] = taken - Len(respq) + (i + 1)
    BY <1>3, <2>1
  <2> QED
    BY <1>1, <1>2, <1>4, <1>5, <2>1, <2>2
<1>6. Len(out) \in Nat /\ Len(out) + Len(respq) = taken
  BY <1>1, <1>2, <1>4 DEF IInv, TypeOK, Contiguous, Holding
<1>7. cur' = Len(out) + 1
  BY <1>2, <1>3, <1>6
<1>8. TypeOK'
  BY <1>2, ConnAssumption DEF IInv, TypeOK, Requests, Pop, client, reader
<1>9. Contiguous'
  <2>a. Holding' = 1 /\ Len(out') = Len(out) /\ taken' = taken
    BY <1>4 DEF Holding
  <2>b. Len(respq) \in Nat /\ Len(respq') = Len(respq) - 1
    BY <1>2
  <2>1. Len(out') + Holding' + Len(respq') = taken'
    BY <1>6, <2>a, <2>b
  <2>2. \A i \in DOMAIN respq' : respq'[i] = taken' - Len(respq') + i
    BY <1>5
  <2>3. wr' \in {"await", "write"} => cur' = Len(out') + 1
    BY <1>4, <1>7
  <2> QED
    BY <1>4, <2>1, <2>2, <2>3 DEF Contiguous
<1>10. (Phases /\ AnswersInOrder /\ NoLostWakeup)'
  BY <1>4 DEF IInv, Phases, AnswersInOrder, NoLostWakeup, Pop, reader
<1>11. cur = 0 /\ cur' # 0
  BY <1>4, <1>6, <1>7 DEF IInv, Contiguous
<1>12. SlotsBalance'
  BY <1>2, <1>11 DEF IInv, TypeOK, SlotsBalance, Pop, reader
<1> QED
  BY <1>8, <1>9, <1>10, <1>12 DEF IInv

\* The writer writes the answer it holds.
LEMMA WritePreserves ==
    ASSUME IInv, Write
    PROVE  IInv'
<1>1. /\ cur \in Requests /\ cur = Len(out) + 1 /\ cur # 0
      /\ out \in Seq(Requests) /\ Len(out) \in Nat
  BY ConnAssumption DEF IInv, TypeOK, Contiguous, Requests, Write
<1>2. /\ out' \in Seq(Requests)
      /\ Len(out') = Len(out) + 1
      /\ DOMAIN out = 1..Len(out)
      /\ DOMAIN out' = 1..(Len(out) + 1)
      /\ \A i \in 1..Len(out) : out'[i] = out[i]
      /\ out'[Len(out) + 1] = cur
  BY <1>1, AppendFacts DEF Write
<1>3. AnswersInOrder'
  <2>1. \A i \in 1..Len(out) : out[i] = i
    BY <1>2 DEF IInv, AnswersInOrder
  <2> QED
    BY <1>1, <1>2, <2>1 DEF AnswersInOrder
<1>4. /\ taken' = taken /\ respq' = respq /\ taken \in Nat
      /\ Len(respq) \in Nat /\ wr = "write" /\ failed' = failed
      /\ slots \in Nat
  BY DEF IInv, TypeOK, Write, reader
<1>5. \/ respq = <<>> /\ wr' = "flush" /\ cur' = cur /\ slots' = slots
      \/ respq # <<>> /\ wr' = "top" /\ cur' = 0 /\ slots' = slots + 1
  BY DEF Write
<1>6. TypeOK'
  BY <1>2, <1>4, <1>5, ConnAssumption DEF IInv, TypeOK, Write, client, reader
<1>7. Contiguous'
  <2>1. /\ \A i \in DOMAIN respq : respq[i] = taken - Len(respq) + i
        /\ Len(out) + 1 + Len(respq) = taken
    BY <1>4 DEF IInv, Contiguous, Holding
  <2> QED
    BY <1>1, <1>2, <1>4, <1>5, <2>1 DEF Contiguous, Holding
<1>8. (Phases /\ NoLostWakeup)'
  BY <1>4, <1>5 DEF IInv, Phases, NoLostWakeup, Write, reader
<1>9. SlotsBalance'
  <2>1. ~ failed => slots + Len(respq) + (IF rd = "slot" THEN 1 ELSE 0) + 1
                        = MaxInflight
    BY <1>1 DEF IInv, SlotsBalance
  <2>2. rd' = rd
    BY DEF Write, reader
  <2> QED
    BY <1>1, <1>4, <1>5, <2>1, <2>2 DEF SlotsBalance
<1> QED
  BY <1>3, <1>6, <1>7, <1>8, <1>9 DEF IInv

\* Every step preserves the invariant.
LEMMA StepPreserves == IInv /\ [Next]_vars => IInv'
<1> SUFFICES ASSUME IInv, [Next]_vars PROVE IInv'
  OBVIOUS
<1> USE ConnAssumption DEF IInv, TypeOK, Contiguous, Phases, Holding,
        AnswersInOrder, SlotsBalance, NoLostWakeup, Requests, client, reader,
        writer, Signal, GiveUp
<1>1. CASE Send
  BY <1>1 DEF Send
<1>2. CASE Hangup
  BY <1>2 DEF Hangup
<1>3. CASE Break
  BY <1>3 DEF Break
<1>4. CASE Greet
  BY <1>4 DEF Greet
<1>5. CASE ReadChunk
  BY <1>5 DEF ReadChunk
<1>6. CASE ReadEnd
  BY <1>6 DEF ReadEnd
<1>7. CASE NeedMore
  BY <1>7 DEF NeedMore
<1>8. CASE TakeSlot
  BY <1>8 DEF TakeSlot
<1>9. CASE StartRequest
  BY Zenon, <1>9, StartPreserves
<1>10. CASE Sleep
  BY <1>10 DEF Sleep
<1>11. CASE WriteDone
  BY <1>11 DEF WriteDone
<1>12. CASE Pop
  BY Zenon, <1>12, PopPreserves
<1>13. CASE Resolved
  BY <1>13 DEF Resolved
<1>14. CASE Stuck
  BY <1>14 DEF Stuck
<1>15. CASE Write
  BY Zenon, <1>15, WritePreserves
<1>16. CASE Flush
  BY <1>16 DEF Flush
<1>17. CASE WriteFails
  BY <1>17 DEF WriteFails
<1>18. CASE Close
  BY <1>18 DEF Close
<1>19. ASSUME NEW i \in Requests, Finish(i) PROVE IInv'
  BY <1>19 DEF Finish
<1>20. CASE UNCHANGED vars
  BY <1>20 DEF vars
<1>21. QED
  BY Zenon, <1>1, <1>2, <1>3, <1>4, <1>5, <1>6, <1>7, <1>8, <1>9, <1>10, <1>11, <1>12, <1>13, <1>14, <1>15, <1>16, <1>17, <1>18, <1>19, <1>20 DEF Next, ReadStep, WriteStep

\* Which handlers are done: the ones whose answers are written, and all of them
\* once the writer has ended without giving up.
Settled ==
    /\ \A i \in 1..Len(out) : fut[i] = "ready"
    /\ wr = "write" => fut[cur] = "ready"
    /\ \A i \in Requests : i > taken => fut[i] = "none"
    /\ eof /\ ~ failed => rd = "done"
    /\ wr = "done" /\ ~ failed => rd = "done" /\ Len(out) = taken
    /\ closed => rd = "done" /\ wr = "done"

\* Every step preserves that too.
LEMMA StepSettles == IInv /\ Settled /\ [Next]_vars => Settled'
<1> SUFFICES ASSUME IInv, Settled, [Next]_vars PROVE Settled'
  OBVIOUS
<1>t. /\ sent \in 0..MaxRequests /\ got \in 0..sent /\ taken \in 0..got
      /\ out \in Seq(Requests) /\ Len(out) \in Nat /\ cur \in 0..MaxRequests
      /\ respq \in Seq(Requests) /\ Len(respq) \in Nat
      /\ fut \in [Requests -> {"none", "pending", "ready", "failed"}]
      /\ (rd = "slot" => taken < got) /\ (failed => wr = "done")
      /\ (rd = "greet" <=> wr = "greet") /\ (wr = "greet" => taken = 0)
      /\ (wr # "done" => Len(out) + Holding + Len(respq) = taken)
      /\ (wr \in {"await", "write"} => cur = Len(out) + 1)
      /\ MaxRequests \in Nat
  BY ConnAssumption DEF IInv, TypeOK, Phases, Contiguous
<1> USE <1>t DEF Settled, Requests, client, reader, writer, Signal, GiveUp, Holding
<1>1. CASE Send
  BY <1>1 DEF Send
<1>2. CASE Hangup \/ Break
  BY <1>2 DEF Hangup, Break
<1>3. CASE Greet
  BY <1>3 DEF Greet
<1>4. CASE ReadChunk \/ ReadEnd \/ NeedMore \/ TakeSlot
  BY <1>4 DEF ReadChunk, ReadEnd, NeedMore, TakeSlot
<1>5. CASE StartRequest
  <2>1. taken + 1 \in Requests /\ taken + 1 \notin 1..taken
    BY <1>5 DEF StartRequest
  <2>2. /\ \A i \in Requests \ {taken + 1} : fut'[i] = fut[i]
        /\ taken' = taken + 1
    BY <1>5 DEF StartRequest
  <2>3. \A i \in 1..Len(out) : i # taken + 1
    BY <2>1
  <2>4. \A i \in 1..Len(out) : i \in Requests => fut'[i] = "ready"
    BY <2>2, <2>3
  <2> QED
    BY <1>5, <2>1, <2>2, <2>4 DEF StartRequest
<1>6. CASE Sleep \/ WriteDone \/ Pop \/ Resolved \/ Stuck \/ Flush \/ WriteFails
  <2>1. CASE Sleep
    BY <2>1 DEF Sleep
  <2>2. CASE WriteDone
    BY <2>2 DEF WriteDone
  <2>3. CASE Pop
    BY <2>3 DEF Pop
  <2>4. CASE Resolved
    BY <2>4 DEF Resolved
  <2>5. CASE Stuck
    BY <2>5 DEF Stuck
  <2>6. CASE Flush
    BY <2>6 DEF Flush
  <2>7. CASE WriteFails
    BY <2>7 DEF WriteFails
  <2> QED
    BY Zenon, <1>6, <2>1, <2>2, <2>3, <2>4, <2>5, <2>6, <2>7
<1>7. CASE Write
  <2>1. cur \in Requests /\ cur = Len(out) + 1 /\ Len(out') = Len(out) + 1
    BY <1>7 DEF Write
  <2> QED
    BY <1>7, <2>1 DEF Write
<1>8. CASE Close
  BY <1>8 DEF Close
<1>9. ASSUME NEW i \in Requests, Finish(i) PROVE Settled'
  BY <1>9 DEF Finish
<1>10. CASE UNCHANGED vars
  BY <1>10 DEF vars
<1> QED
  BY Zenon, <1>1, <1>2, <1>3, <1>4, <1>5, <1>6, <1>7, <1>8, <1>9, <1>10
     DEF Next, ReadStep, WriteStep

\* The invariant holds for every MaxInflight and every number of requests.
LEMMA ConnectionInvariant == Spec => [](IInv /\ Settled)
<1>1. Init => IInv /\ Settled
  BY InitEstablishes, ConnAssumption DEF Init, Settled, Requests
<1> QED
  BY <1>1, StepPreserves, StepSettles, PTL DEF Spec

\* It implies the invariants of the connection.
LEMMA IInvImplies ==
    IInv /\ Settled =>
        TypeOK /\ AnswersInOrder /\ SlotsBalance /\ NoLostWakeup
        /\ IdleMeansFlushed /\ CloseWaitsForHandlers
<1>1. IInv => TypeOK /\ AnswersInOrder /\ SlotsBalance /\ NoLostWakeup
              /\ IdleMeansFlushed
  BY DEF IInv, NoLostWakeup, Phases, IdleMeansFlushed
<1>2. IInv /\ Settled => CloseWaitsForHandlers
  <2> SUFFICES ASSUME IInv, Settled, closed, ~ failed, NEW i \in Requests
               PROVE  fut[i] # "pending"
    BY DEF CloseWaitsForHandlers
  <2>1. Len(out) = taken /\ taken \in Nat /\ i \in Nat /\ i >= 1
    BY ConnAssumption DEF IInv, TypeOK, Settled, Requests
  <2>2. CASE i > taken
    BY <2>2 DEF Settled
  <2>3. CASE i <= taken
    <3>1. i \in 1..Len(out)
      BY <2>1, <2>3
    <3> QED
      BY <3>1 DEF Settled
  <2> QED
    BY <2>1, <2>2, <2>3
<1> QED
  BY <1>1, <1>2

\* The two loops keep the types of the connection's state.
THEOREM ConnectionTypes == Spec => []TypeOK
  BY ConnectionInvariant, IInvImplies, PTL

\* The write loop sends one answer per request, in the order of the requests, in
\* whatever order the handlers finish.
THEOREM ConnectionAnswersInOrder == Spec => []AnswersInOrder
  BY ConnectionInvariant, IInvImplies, PTL

\* Until the writer gives up, _slots accounts for every request in flight: there
\* are never more than max_inflight.
THEOREM ConnectionSlotsBalance == Spec => []SlotsBalance
  BY ConnectionInvariant, IInvImplies, PTL

\* The writer does not sleep on _cv while a future is queued or _eof is set.
THEOREM ConnectionNoLostWakeup == Spec => []NoLostWakeup
  BY ConnectionInvariant, IInvImplies, PTL

\* Flushing only behind the last queued answer leaves nothing in the buffer when
\* the writer goes to sleep.
THEOREM ConnectionIdleMeansFlushed == Spec => []IdleMeansFlushed
  BY ConnectionInvariant, IInvImplies, PTL

\* process closes a connection whose writer did not give up only when the handlers
\* of all its requests are done, in whatever order they finish.
THEOREM ConnectionCloseWaits == Spec => []CloseWaitsForHandlers
  BY ConnectionInvariant, IInvImplies, PTL

-----------------------------------------------------------------------------
(* The session.                                                              *)

\* No handler reaches the store after its answer is written, no version is ahead
\* of the entry's, and the client knows of written answers only.
SessionInv ==
    /\ IInv /\ Settled /\ SessionTypeOK /\ AnsweredBeforeSent
    /\ \A i \in Requests : at[i] <= version /\ (at[i] # 0 => i <= taken)
    /\ \A j \in Requests : seen[j] <= Len(out)

\* A session is a connection with something to do.
LEMMA SessionSteps ==
    /\ SessionInit => Init
    /\ [SessionNext]_svars => [Next]_vars
<1>1. SessionNext => [Next]_vars
  BY DEF SessionNext, SendCommand, Execute, ReadLoop, StartCommand, WriteLoop,
         Process, Outside, Next, ReadStep, vars
<1>2. UNCHANGED svars => UNCHANGED vars
  BY DEF svars
<1> QED
  BY <1>1, <1>2 DEF SessionInit

\* The connection's steps take no request and no answer back.
LEMMA OnlyForward ==
    ASSUME IInv, [Next]_vars
    PROVE  taken <= taken' /\ Len(out) <= Len(out')
<1>1. taken \in Nat /\ out \in Seq(Requests) /\ Len(out) \in Nat
  BY ConnAssumption DEF IInv, TypeOK
<1>2. CASE StartRequest \/ Write
  BY <1>1, <1>2 DEF StartRequest, Write, reader, writer
<1>3. CASE ~ (StartRequest \/ Write)
  <2>1. UNCHANGED <<taken, out>>
    BY Zenon, <1>3 DEF Next, vars, client, reader, writer, Send, Hangup, Break, Finish,
       Greet, ReadStep, ReadChunk, ReadEnd, NeedMore, TakeSlot, WriteStep, Sleep,
       WriteDone, Pop, Resolved, Stuck, GiveUp, Flush, WriteFails, Close
  <2> QED
    BY <1>1, <2>1
<1> QED
  BY <1>2, <1>3

\* The client has had no more answers than there are requests.
LEMMA AnswersBounded == IInv => Len(out) \in 0..MaxRequests
<1> SUFFICES ASSUME IInv PROVE Len(out) \in 0..MaxRequests
  OBVIOUS
<1>1. out \in Seq(Requests) /\ Len(out) \in Nat /\ MaxRequests \in Nat
  BY ConnAssumption DEF IInv, TypeOK
<1>2. Len(out) # 0 => out[Len(out)] = Len(out) /\ out[Len(out)] \in Requests
  BY <1>1 DEF IInv, AnswersInOrder
<1> QED
  BY <1>1, <1>2 DEF Requests

\* Every step of the session preserves its invariant.
LEMMA SessionPreserves == SessionInv /\ [SessionNext]_svars => SessionInv'
<1> SUFFICES ASSUME SessionInv, [SessionNext]_svars PROVE SessionInv'
  OBVIOUS
<1>0. IInv /\ Settled /\ [Next]_vars
  BY SessionSteps DEF SessionInv
<1>1. IInv' /\ Settled'
  BY <1>0, StepPreserves, StepSettles
<1>2. taken <= taken' /\ Len(out) <= Len(out')
  BY <1>0, OnlyForward
<1>3. /\ Len(out) \in 0..MaxRequests /\ Len(out') \in 0..MaxRequests
      /\ taken \in Nat /\ taken' \in Nat /\ sent \in 0..MaxRequests /\ taken <= sent
      /\ MaxRequests \in Nat
  <2>1. /\ sent \in 0..MaxRequests /\ got \in 0..sent /\ taken \in 0..got
        /\ sent' \in 0..MaxRequests /\ got' \in 0..sent' /\ taken' \in 0..got'
    BY <1>0, <1>1 DEF IInv, TypeOK
  <2>2. (IInv => Len(out) \in 0..MaxRequests)'
    BY AnswersBounded, PTL
  <2> QED
    BY <1>0, <1>1, <2>1, <2>2, AnswersBounded, ConnAssumption
<1>4. /\ SessionTypeOK /\ AnsweredBeforeSent
      /\ \A i \in Requests : at[i] <= version /\ (at[i] # 0 => i <= taken)
      /\ \A j \in Requests : seen[j] <= Len(out)
  BY DEF SessionInv
<1> SUFFICES /\ SessionTypeOK' /\ AnsweredBeforeSent'
             /\ \A i \in Requests : at'[i] <= version' /\ (at'[i] # 0 => i <= taken')
             /\ \A j \in Requests : seen'[j] <= Len(out')
  BY <1>1 DEF SessionInv
<1> USE <1>2, <1>3, <1>4 DEF SessionTypeOK, AnsweredBeforeSent, Requests
<1>5. CASE SendCommand
  BY <1>5 DEF SendCommand, Send
<1>6. CASE StartCommand
  <2>1. taken + 1 \in Requests /\ at[taken + 1] = 0
    BY <1>0, <1>6 DEF StartCommand, StartRequest, IInv, TypeOK, Phases
  <2>2. SessionTypeOK'
    BY Zenon, <1>6 DEF StartCommand
  <2>3. /\ at' = at /\ seen' = seen /\ version' = version
        /\ \E c \in Commands : cmd' = [cmd EXCEPT ![taken + 1] = c]
    BY Zenon, <1>6 DEF StartCommand
  <2>4. \A i \in Requests : at'[i] <= version' /\ (at'[i] # 0 => i <= taken')
    BY <1>2, <1>3, <1>4, <2>3
  <2>5. \A j \in Requests : seen'[j] <= Len(out')
    BY <1>2, <1>3, <1>4, <2>3
  <2>6. AnsweredBeforeSent'
    BY <1>4, <2>1, <2>3
  <2> QED
    BY Zenon, <2>2, <2>4, <2>5, <2>6
<1>7. ASSUME NEW i \in Requests, Execute(i) PROVE SessionInv'
  <2>1. \A j \in Requests : ~ (i <= seen[j])
    <3>1. i \notin 1..Len(out)
      BY <1>0, <1>7 DEF Execute, Settled
    <3>2. \A j \in Requests : seen[j] \in 0..MaxRequests /\ seen[j] <= Len(out)
      OBVIOUS
    <3> QED
      BY <3>1, <3>2
  <2>2. i <= taken
    BY <1>0, <1>7 DEF Execute, Settled
  <2>3. /\ taken' = taken /\ out' = out /\ cmd' = cmd /\ seen' = seen
        /\ \A j \in Requests \ {i} : at'[j] = at[j]
        /\ \/ cmd[i] = "SET" /\ version' = version + 1 /\ at'[i] = version + 1
           \/ cmd[i] = "GET" /\ version' = version /\ at'[i] = version
    BY <1>7 DEF Execute, vars
  <2>4. /\ at \in [Requests -> Nat] /\ version \in Nat
        /\ at' \in [Requests -> Nat] /\ version' \in Nat
    <3>1. at \in [Requests -> Nat] /\ version \in Nat
      BY <1>4 DEF SessionTypeOK
    <3>2. CASE version' = version + 1 /\ at' = [at EXCEPT ![i] = version + 1]
      BY <3>1, <3>2
    <3>3. CASE version' = version /\ at' = [at EXCEPT ![i] = version]
      BY <3>1, <3>3
    <3> QED
      BY Zenon, <1>7, <3>1, <3>2, <3>3 DEF Execute
  <2>5. \A a \in Requests : at'[a] <= version' /\ (at'[a] # 0 => a <= taken')
    <3> SUFFICES ASSUME NEW a \in Requests
                 PROVE  at'[a] <= version' /\ (at'[a] # 0 => a <= taken')
      OBVIOUS
    <3>1. CASE a = i
      BY <2>2, <2>3, <2>4, <3>1
    <3>2. CASE a # i
      BY <2>3, <2>4, <3>2
    <3> QED
      BY <3>1, <3>2
  <2>6. ASSUME NEW a \in Requests, NEW b \in Requests,
               a <= seen'[b], at'[a] # 0, at'[b] # 0
        PROVE  at'[a] <= at'[b] /\ (cmd'[b] = "SET" => at'[a] < at'[b])
    <3>1. a # i /\ at'[a] = at[a] /\ at[a] <= version
      BY <2>1, <2>3, <2>6
    <3>2. CASE b = i
      BY <2>3, <3>1, <3>2
    <3>3. CASE b # i
      BY Zenon, <2>3, <2>6, <3>1, <3>3
    <3> QED
      BY <3>2, <3>3
  <2> QED
    BY <1>1, <2>3, <2>4, <2>5, <2>6 DEF SessionInv
<1>8. CASE UNCHANGED session
  BY <1>8 DEF session
<1> QED
  BY Zenon, <1>5, <1>6, <1>7, <1>8
     DEF SessionNext, ReadLoop, WriteLoop, Process, Outside, svars, SessionInv

\* The invariant holds for every number of slots and requests.
LEMMA SessionInvariant == SessionSpec => []SessionInv
<1>1. SessionInit => SessionInv
  <2> SUFFICES ASSUME SessionInit PROVE SessionInv
    OBVIOUS
  <2>1. IInv /\ Settled
    BY InitEstablishes, ConnAssumption DEF SessionInit, Init, Settled, Requests
  <2>2. Len(out) \in 0..MaxRequests
    BY <2>1, AnswersBounded
  <2> QED
    BY <2>1, <2>2, ConnAssumption
       DEF SessionInv, SessionInit, SessionTypeOK, AnsweredBeforeSent, Requests
<1> QED
  BY <1>1, SessionPreserves, PTL DEF SessionSpec

\* What is proved of the connection holds in every session.
THEOREM SessionImplementsConnection == SessionSpec => Spec
  BY SessionSteps, PTL DEF SessionSpec, Spec

\* The variables of the session keep their types.
THEOREM SessionTypes == SessionSpec => []SessionTypeOK
<1>1. SessionInv => SessionTypeOK
  BY DEF SessionInv
<1> QED
  BY <1>1, SessionInvariant, PTL

\* Handlers of pipelined requests reach the store in any order, and still a client
\* that waits for an answer before it sends the next command finds the effect of
\* what was answered: handle_request resolves its future only after the store did.
THEOREM SessionAnsweredBeforeSent == SessionSpec => []AnsweredBeforeSent
<1>1. SessionInv => AnsweredBeforeSent
  BY DEF SessionInv
<1> QED
  BY <1>1, SessionInvariant, PTL
=============================================================================
