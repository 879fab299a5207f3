--------------------------- MODULE RespStreamTrack ---------------------------
(***************************************************************************)
(* What the RESP extractor makes of a stream, for every stream, every way   *)
(* of cutting it into chunks and every limit: the requests that were sent,  *)
(* and an error where the stream is malformed.  Every step keeps the parser *)
(* on the track of the stream (Tracked).                                    *)
(***************************************************************************)
EXTENDS RespStreamProofs

-----------------------------------------------------------------------------
(* Every step keeps the parser on the track of the stream.                   *)

\* What the parser does with the buffer where it is.
LEMMA Still ==
    ASSUME Faithful, UNCHANGED <<sent, rest, buf>>
    PROVE  Faithful' /\ Off' = Off /\ Arrived' = Arrived /\ Here' = Off + pos'
<1>1. sent' = sent /\ rest' = rest /\ buf' = buf
  OBVIOUS
<1>2. Arrived' = Arrived
  BY Zenon, <1>1 DEF Arrived
<1>3. Off' = Off
  BY Zenon, <1>1, <1>2 DEF Off
<1>4. Here' = Off + pos'
  BY Zenon, <1>3 DEF Here
<1> QED
  BY Zenon, <1>1, <1>2, <1>3, <1>4 DEF Faithful

\* The place of the parser depends on nothing else.
LEMMA SamePlace ==
    ASSUME sent' = sent, Off' = Off, Here' = Here, st' = st, cmd_start' = cmd_start,
           argc' = argc, argi' = argi, bulk_len' = bulk_len, slices' = slices, NEW m
    PROVE  (BetweenPieces(m) => BetweenPieces(m)') /\ (InPiece(m) => InPiece(m)')
<1>1. BetweenPieces(m) => BetweenPieces(m)'
  BY Zenon DEF BetweenPieces
<1>2. \A at : InArgument(m, at) => InArgument(m, at)'
  BY Zenon DEF InArgument
<1>3. SlicesTrue(m) => SlicesTrue(m)'
  BY Zenon DEF SlicesTrue
<1>4. \A at : Layout(sent, m, argc, at) => Layout(sent, m, argc, at)'
  BY Zenon DEF Layout
<1>5. InPiece(m) => InPiece(m)'
  BY Zenon, <1>2, <1>3, <1>4 DEF InPiece
<1> QED
  BY <1>1, <1>5

LEMMA SameTrack ==
    ASSUME Tracked, Faithful', sent' = sent, Off' = Off, Here' = Here, out' = out,
           st' = st, cmd_start' = cmd_start, argc' = argc, argi' = argi,
           bulk_len' = bulk_len, slices' = slices, ~sent.wide => Idle'
    PROVE  Tracked'
<1>1. SUFFICES ASSUME ~sent.wide
               PROVE  \E m \in 0..Len(sent.says) :
                          /\ Said(out, sent.says, m)
                          /\ IF st = "need_star" THEN BetweenPieces(m)' ELSE InPiece(m + 1)'
  BY Zenon DEF Tracked
<1>2. PICK m \in 0..Len(sent.says) :
               /\ Said(out, sent.says, m)
               /\ IF st = "need_star" THEN BetweenPieces(m) ELSE InPiece(m + 1)
  BY Zenon, <1>1 DEF Tracked
<1>3. (BetweenPieces(m) => BetweenPieces(m)') /\ (InPiece(m + 1) => InPiece(m + 1)')
  BY Zenon, SamePlace
<1> QED
  BY Zenon, <1>2, <1>3

\* The parser waits, for bytes that are still to come.
LEMMA NothingTracks ==
    ASSUME IInv, Tracked, Nothing, UNCHANGED <<buf, pos, parser, sent, rest>>,
           ~sent.wide => rest # <<>>
    PROVE  Tracked'
<1>1. /\ sent' = sent /\ rest' = rest /\ buf' = buf /\ pos' = pos /\ st' = st
      /\ cmd_start' = cmd_start /\ argc' = argc /\ argi' = argi /\ bulk_len' = bulk_len
      /\ slices' = slices /\ loop' = "read" /\ out' = out
  BY DEF Nothing, parser
<1>2. Faithful' /\ Off' = Off /\ Here' = Here
  BY Zenon, <1>1, Still DEF Tracked, Here
<1>3. ~sent.wide => Idle'
  BY <1>1 DEF Idle
<1> QED
  BY Zenon, <1>1, <1>2, <1>3, SameTrack

LEMMA ReadTracks == ASSUME IInv, Tracked, Read PROVE Tracked'
<1> DEFINE b == sent.bytes
<1>1. PICK n \in 1..Len(rest) : /\ buf' = buf \o SubSeq(rest, 1, n)
                               /\ rest' = SubSeq(rest, n + 1, Len(rest))
  BY Zenon DEF Read
<1>2. /\ buf \in Seq(Byte) /\ rest \in Seq(Byte) /\ Len(buf) \in Nat /\ Len(rest) \in Nat
      /\ n \in Nat /\ n <= Len(rest) /\ n >= 1 /\ Len(b) \in Nat
  BY RespAssumption DEF IInv, TypeOK
<1>3. /\ SubSeq(rest, 1, n) \in Seq(Byte) /\ Len(SubSeq(rest, 1, n)) = n
      /\ \A i \in 1..n : SubSeq(rest, 1, n)[i] = rest[i]
  BY <1>2, SubSeqFacts, SubSeqElements
<1>4. /\ Len(rest') = Len(rest) - n
      /\ \A i \in 1..(Len(rest) - n) : rest'[i] = rest[n + i]
  <2>1. n + 1 \in Int /\ Len(rest) \in Int /\ n + 1 >= 1 /\ Len(rest) <= Len(rest)
    BY <1>2
  <2>2. /\ Len(rest') = IF n + 1 <= Len(rest) THEN Len(rest) - (n + 1) + 1 ELSE 0
        /\ \A i \in 1..(Len(rest) - (n + 1) + 1) : rest'[i] = rest[(n + 1) + i - 1]
    BY <1>1, <1>2, <2>1, SubSeqFacts, SubSeqElements
  <2> QED
    BY <1>2, <2>2
<1>5. /\ Len(buf') = Len(buf) + n
      /\ \A i \in 1..(Len(buf) + n) :
             buf'[i] = IF i <= Len(buf) THEN buf[i] ELSE SubSeq(rest, 1, n)[i - Len(buf)]
  BY <1>1, <1>2, <1>3, ConcatProperties
<1>6. /\ sent' = sent /\ pos' = pos /\ st' = st /\ cmd_start' = cmd_start /\ argc' = argc
      /\ argi' = argi /\ bulk_len' = bulk_len /\ slices' = slices /\ out' = out
      /\ loop' = "call"
  BY DEF Read, parser
<1>7. /\ Len(rest) + Len(buf) <= Len(b)
      /\ \A i \in 1..Len(buf) : buf[i] = b[Off + i]
      /\ \A i \in 1..Len(rest) : rest[i] = b[Arrived + i]
  BY Zenon DEF Tracked, Faithful
<1>8. Arrived = Len(b) - Len(rest) /\ Off = Arrived - Len(buf)
  BY DEF Arrived, Off
<1>9. /\ Arrived' = Arrived + n /\ Off' = Off /\ Here' = Here
      /\ Arrived \in Nat /\ Off \in Nat /\ Arrived = Off + Len(buf)
  <2>1. Arrived' = Len(b) - Len(rest') /\ Off' = Arrived' - Len(buf')
    BY <1>6 DEF Arrived, Off
  <2>2. \A l, r, u, k \in Nat : k <= r /\ r + u <= l =>
            /\ l - (r - k) = (l - r) + k /\ ((l - r) + k) - (u + k) = (l - r) - u
            /\ l - r \in Nat /\ (l - r) - u \in Nat /\ l - r = ((l - r) - u) + u
    OBVIOUS
  <2>3. /\ Len(b) - (Len(rest) - n) = (Len(b) - Len(rest)) + n
        /\ ((Len(b) - Len(rest)) + n) - (Len(buf) + n) = (Len(b) - Len(rest)) - Len(buf)
        /\ Len(b) - Len(rest) \in Nat /\ (Len(b) - Len(rest)) - Len(buf) \in Nat
        /\ Len(b) - Len(rest) = ((Len(b) - Len(rest)) - Len(buf)) + Len(buf)
    BY <1>2, <1>7, <2>2
  <2>4. Arrived' = Arrived + n /\ Off' = Off
    BY Zenon, <1>4, <1>5, <1>8, <2>1, <2>3
  <2> QED
    BY Zenon, <1>6, <1>8, <2>3, <2>4 DEF Here
<1>10. ASSUME NEW i \in 1..Len(buf') PROVE buf'[i] = b[Off + i]
  <2>1. CASE i <= Len(buf)
    <3>1. i \in 1..Len(buf) /\ i \in 1..(Len(buf) + n)
      BY <1>2, <1>5, <2>1
    <3> QED
      BY Zenon, <1>5, <1>7, <2>1, <3>1
  <2>2. CASE ~(i <= Len(buf))
    <3>1. /\ i \in 1..(Len(buf) + n) /\ i - Len(buf) \in 1..n /\ i - Len(buf) \in 1..Len(rest)
          /\ Arrived + (i - Len(buf)) = Off + i
      BY <1>2, <1>5, <1>9, <2>2
    <3>2. buf'[i] = SubSeq(rest, 1, n)[i - Len(buf)]
      BY Zenon, <1>5, <2>2, <3>1
    <3>3. SubSeq(rest, 1, n)[i - Len(buf)] = rest[i - Len(buf)]
      BY Zenon, <1>3, <3>1
    <3>4. rest[i - Len(buf)] = b[Arrived + (i - Len(buf))]
      BY Zenon, <1>7, <3>1
    <3> QED
      BY Zenon, <3>1, <3>2, <3>3, <3>4
  <2> QED
    BY <2>1, <2>2
<1>11. ASSUME NEW i \in 1..Len(rest') PROVE rest'[i] = b[(Arrived + n) + i]
  <2>1. i \in 1..(Len(rest) - n)
    BY Zenon, <1>4
  <2>2. n + i \in 1..Len(rest) /\ Arrived + (n + i) = (Arrived + n) + i
    BY <1>2, <1>9, <2>1
  <2> QED
    BY Zenon, <1>4, <1>7, <2>1, <2>2
<1>12. Len(rest') + Len(buf') <= Len(b)
  BY <1>2, <1>4, <1>5, <1>7
<1>13. Faithful'
  BY Zenon, <1>6, <1>9, <1>10, <1>11, <1>12 DEF Faithful
<1>14. Idle'
  BY <1>6 DEF Idle
<1> QED
  BY Zenon, <1>6, <1>9, <1>13, <1>14, SameTrack

LEMMA LoopTracks == ASSUME IInv, Tracked, Eof \/ Call PROVE Tracked'
<1>1. /\ UNCHANGED <<sent, rest, buf, parser, out>> /\ pos' = pos
  BY DEF IInv, TypeOK, Eof, Call
<1>2. Faithful' /\ Off' = Off /\ Here' = Here
  BY Zenon, <1>1, Still DEF Tracked, Here
<1>3. /\ sent' = sent /\ rest' = rest /\ st' = st /\ cmd_start' = cmd_start /\ argc' = argc
      /\ argi' = argi /\ bulk_len' = bulk_len /\ slices' = slices /\ out' = out
  BY <1>1 DEF parser
<1>4. ASSUME ~sent.wide PROVE Idle'
  <2>1. CASE Eof
    <3>1. loop = "read" /\ rest = <<>> /\ loop' = "closed"
      BY <2>1 DEF Eof
    <3>2. st = "need_star" /\ Here = Len(sent.bytes)
      BY <1>4, <3>1 DEF Tracked, Idle
    <3> QED
      BY Zenon, <1>2, <1>3, <3>1, <3>2 DEF Idle
  <2>2. CASE Call
    BY <2>2 DEF Call, Idle
  <2> QED
    BY <2>1, <2>2
<1> QED
  BY Zenon, <1>2, <1>3, <1>4, SameTrack

\* An error: everything up to the next '*' that has arrived is passed over, which
\* is the rest of this piece, and malformed pieces behind it.
LEMMA ResyncTracks ==
    ASSUME IInv, Faithful, NEW k \in 1..Len(sent.says), ~sent.wide, sent.says[k] = Error,
           Said(out, sent.says, k - 1), NEW p \in 0..Len(buf),
           sent.start[k] < Off + p, Off + p <= sent.start[k + 1],
           ConsumeTo(Find(buf, p, Star)), Return(Error), st' = "need_star",
           UNCHANGED <<sent, rest>>
    PROVE  Tracked'
<1> DEFINE says == sent.says
           start == sent.start
           b == sent.bytes
           n == Len(says)
           f == Find(buf, p, Star)
           P == Off + f
<1>1. /\ buf \in Seq(Byte) /\ Len(buf) \in Nat /\ Off \in Nat /\ p \in Nat /\ p <= Len(buf)
      /\ Off + Len(buf) <= Len(b) /\ Len(b) \in Nat
  BY BufIsStream
<1>2. \A i \in 1..Len(buf) : buf[i] = b[Off + i]
  BY Zenon, BufIsStream
<1>3. /\ says \in Seq(Args \cup {Error}) /\ n \in Nat
      /\ start \in [1..(n + 1) -> 0..Len(b)] /\ start[n + 1] = Len(b)
      /\ \A i, j \in 1..(n + 1) : i < j => start[i] < start[j]
  BY Zenon, Pieces
<1>4. /\ f \in p..Len(buf) /\ \A j \in p..(f - 1) : buf[j + 1] # Star
  BY Zenon, <1>1, FindFacts
<1>5. Faithful' /\ Here' = P
  <2>1. f \in 0..Len(buf)
    BY <1>1, <1>4
  <2> QED
    BY Zenon, <2>1, ConsumeStream
<1>6. /\ out \in Seq(Args \cup {Error}) /\ out' = Append(out, Error) /\ loop' = "call"
      /\ sent' = sent /\ Append(out, Error) \in Seq(Args \cup {Error})
  <2>1. out \in Seq(Args \cup {Error}) /\ out' = Append(out, Error) /\ loop' = "call"
    BY StateTypes DEF Return
  <2> QED
    BY <2>1, AppendProperties
<1> HIDE DEF f
<1>7. f \in Nat /\ f <= Len(buf) /\ p <= f /\ P \in Nat /\ Off + p <= P /\ P <= Len(b)
  BY <1>1, <1>4
<1>8. Said(out', says, k)
  <2>1. k - 1 \in Nat /\ k - 1 < Len(says) /\ (k - 1) + 1 = k
    BY <1>3
  <2>2. Said(Append(out, says[(k - 1) + 1]), says, (k - 1) + 1)
    BY Zenon, <1>3, <1>6, <2>1, SaidNext
  <2> QED
    BY Zenon, <1>6, <2>1, <2>2
<1> DEFINE T == {m \in k..n : P <= start[m + 1]}
<1>9. PICK m \in T : \A y \in T : m <= y
  <2>1. T \subseteq Nat
    BY <1>3
  <2>2. n \in T
    BY <1>3, <1>7
  <2> HIDE DEF T
  <2> QED
    BY Zenon, <2>1, <2>2, LeastNat
<1>10. m \in k..n /\ P <= start[m + 1] /\ m \in Nat /\ m > 0 /\ m <= n
  BY <1>3
<1> HIDE DEF P
<1>11. ASSUME NEW j \in (k + 1)..m PROVE start[j] < P /\ says[j] = Error
  <2>1. j - 1 \in k..n /\ ~(m <= j - 1) /\ (j - 1) + 1 = j /\ j \in 1..n /\ j \in 1..(n + 1)
        /\ k + 1 \in 1..(n + 1) /\ (k + 1 = j \/ k + 1 < j)
    <3>1. n \in Nat /\ m \in k..n
      BY <1>3, <1>10
    <3> HIDE DEF T, says, start, b
    <3> QED
      BY <3>1
  <2>2. ~(P <= start[j])
    <3>1. j - 1 \notin T
      BY Zenon, <1>9, <2>1
    <3> QED
      BY Zenon, <2>1, <3>1
  <2>3. start[j] \in Nat /\ start[k + 1] \in Nat /\ start[k + 1] <= start[j]
    <3>1. start[j] \in 0..Len(b) /\ start[k + 1] \in 0..Len(b)
      BY Zenon, <1>3, <2>1
    <3>2. k + 1 = j \/ start[k + 1] < start[j]
      BY Zenon, <1>3, <2>1
    <3>3. start[j] \in Nat /\ start[k + 1] \in Nat
      BY <1>1, <3>1
    <3> HIDE DEF start
    <3> QED
      BY <3>2, <3>3
  <2>4. start[j] < P
    BY <1>7, <2>2, <2>3
  <2>5. b[start[j] + 1] # Star
    <3> DEFINE i == start[j] - Off
    <3>1. i \in p..(f - 1) /\ i + 1 \in 1..Len(buf) /\ Off + (i + 1) = start[j] + 1
      <4>1. start[k + 1] >= Off + p
        OBVIOUS
      <4>2. \A s, q, o, a \in Nat : \A g \in Nat :
                q >= o + a /\ q <= s /\ s < o + g =>
                    s - o \in a..(g - 1) /\ s - o >= 0 /\ o + ((s - o) + 1) = s + 1
        OBVIOUS
      <4>3. start[j] < Off + f
        BY <2>4 DEF P
      <4>4. /\ start[j] - Off \in p..(f - 1) /\ start[j] - Off >= 0
            /\ Off + ((start[j] - Off) + 1) = start[j] + 1
        BY Zenon, <1>1, <1>7, <2>3, <4>1, <4>2, <4>3
      <4> HIDE DEF i
      <4>5. i \in p..(f - 1) /\ Off + (i + 1) = start[j] + 1
        BY Zenon, <4>4 DEF i
      <4>6. i + 1 \in 1..Len(buf)
        BY <1>1, <1>7, <4>5
      <4> QED
        BY <4>5, <4>6
    <3> HIDE DEF i
    <3>2. buf[i + 1] # Star /\ buf[i + 1] = b[start[j] + 1]
      BY Zenon, <1>2, <1>4, <3>1
    <3> QED
      BY Zenon, <3>2
  <2>6. says[j] = Error
    BY Zenon, <2>1, <2>5, PieceFacts
  <2> QED
    BY Zenon, <2>4, <2>6
<1>12. start[m] < P /\ says[m] = Error
  <2>1. CASE m = k
    <3>1. start[k] < Off + p /\ Off + p <= P
      BY <1>7
    <3>2. start[k] \in Nat
      BY Zenon, PieceFacts
    <3> QED
      BY <1>1, <1>7, <2>1, <3>1, <3>2
  <2>2. CASE m # k
    <3>1. m \in (k + 1)..m
      BY <1>10, <2>2
    <3> QED
      BY Zenon, <1>11, <3>1
  <2> QED
    BY <2>1, <2>2
<1>13. Said(out', says, m)
  <2>1. CASE m = k
    BY Zenon, <1>8, <2>1
  <2>2. CASE m # k
    <3>1. k < m /\ k \in Nat /\ k > 0
      BY <1>10, <2>2
    <3>2. \A j \in k..m : says[j] = Error
      <4> SUFFICES ASSUME NEW j \in k..m PROVE says[j] = Error
        OBVIOUS
      <4>1. j = k \/ j \in (k + 1)..m
        OBVIOUS
      <4> QED
        BY Zenon, <1>11, <4>1
    <3> QED
      BY Zenon, <1>3, <1>6, <1>8, <1>10, <3>1, <3>2, SaidSkip
  <2> QED
    BY <2>1, <2>2
<1>14. BetweenPieces(m)'
  BY Zenon, <1>5, <1>6, <1>10, <1>12 DEF BetweenPieces
<1>15. Idle'
  BY <1>6 DEF Idle
<1>16. m \in 0..n
  BY <1>3, <1>10
<1> QED
  BY Zenon, <1>5, <1>6, <1>13, <1>14, <1>15, <1>16 DEF Tracked

\* The buffer stays a part of the stream, also where the stream is wide.
LEMMA FaithfulStep == ASSUME IInv, Faithful, try_extract_request PROVE Faithful'
<1>1. /\ buf \in Seq(Byte) /\ Len(buf) \in Nat /\ pos \in Nat /\ pos <= Len(buf)
      /\ pos \in 0..Len(buf)
  BY BufIsStream
<1>2. UNCHANGED <<sent, rest>>
  BY Zenon DEF try_extract_request, NeedStar, NeedArgc, NeedDollar, NeedBulkLen,
               NeedBulkData, NeedBulkCrlf
<1>3. UNCHANGED buf => Faithful'
  BY <1>2, Still
<1>4. ASSUME NEW p \in 0..Len(buf), ConsumeTo(p) PROVE Faithful'
  BY <1>2, <1>4, ConsumeStream
<1>5. ASSUME NEW p \in 0..Len(buf), reset_and_resync(p) PROVE Faithful'
  <2>1. Find(buf, p, Star) \in p..Len(buf)
    BY <1>1, FindFacts
  <2>2. Find(buf, p, Star) \in 0..Len(buf)
    BY <1>1, <2>1
  <2> QED
    BY Zenon, <1>4, <1>5, <2>2 DEF reset_and_resync
<1>6. ASSUME NeedStar PROVE Faithful'
  <2>1. pos < Len(buf) => EndOfLine \in 0..Len(buf)
    <3>1. pos < Len(buf) => EndOfLine \in (pos + 1)..Len(buf)
      BY <1>1, EndOfLineFacts
    <3> QED
      BY <1>1, <3>1
  <2> QED
    BY Zenon, <1>1, <1>3, <1>4, <1>6, <2>1 DEF NeedStar
<1>7. parse_int_crlf.status = "ok" => parse_int_crlf.next \in 0..Len(buf)
  <2>1. parse_int_crlf.status = "ok" => parse_int_crlf.next \in (pos + 1)..Len(buf)
    BY <1>1, ParseFacts
  <2> QED
    BY <1>1, <2>1
<1>8. ASSUME NeedArgc PROVE Faithful'
  BY Zenon, <1>1, <1>3, <1>5, <1>7, <1>8 DEF NeedArgc
<1>9. ASSUME NeedDollar PROVE Faithful'
  BY Zenon, <1>1, <1>3, <1>5, <1>9 DEF NeedDollar
<1>10. ASSUME NeedBulkLen PROVE Faithful'
  BY Zenon, <1>1, <1>3, <1>5, <1>7, <1>10 DEF NeedBulkLen
<1>11. ASSUME NeedBulkData PROVE Faithful'
  BY Zenon, <1>1, <1>3, <1>11 DEF NeedBulkData
<1>12. ASSUME NeedBulkCrlf PROVE Faithful'
  <2>1. pos + 2 <= Len(buf) => pos + 2 \in 0..Len(buf)
    BY <1>1
  <2> QED
    BY Zenon, <1>1, <1>3, <1>4, <1>5, <1>12, <2>1 DEF NeedBulkCrlf
<1> QED
  BY Zenon, <1>6, <1>8, <1>9, <1>10, <1>11, <1>12 DEF try_extract_request

\* What a step has to show.
LEMMA InPieceTracks ==
    ASSUME NEW k \in 1..Len(sent.says), Said(out', sent.says, k - 1), Faithful', sent' = sent,
           Len(sent.says) \in Nat, st' # "need_star", InPiece(k)', loop' = "switch"
    PROVE  Tracked'
<1>1. k - 1 \in 0..Len(sent.says) /\ (k - 1) + 1 = k
  OBVIOUS
<1>2. Idle'
  BY DEF Idle
<1> QED
  BY Zenon, <1>1, <1>2 DEF Tracked

LEMMA BetweenTracks ==
    ASSUME NEW m \in 0..Len(sent.says), Said(out', sent.says, m), Faithful', sent' = sent,
           st' = "need_star", BetweenPieces(m)', Idle'
    PROVE  Tracked'
BY Zenon DEF Tracked

\* When what is waited for has not arrived there is more to come.
LEMMA MoreToCome ==
    ASSUME IInv, Faithful, NEW e \in Int, e > Arrived, e <= Len(sent.bytes)
    PROVE  rest # <<>>
<1>1. Len(rest) \in Nat /\ Len(sent.bytes) \in Nat /\ Arrived = Len(sent.bytes) - Len(rest)
  BY BufIsStream DEF Arrived
<1>2. Len(rest) # 0
  BY <1>1
<1> QED
  BY <1>2

LEMMA NeedStarTracks == ASSUME IInv, Tracked, NeedStar PROVE Tracked'
<1> DEFINE says == sent.says
           start == sent.start
           b == sent.bytes
           n == Len(says)
<1>1. /\ buf \in Seq(Byte) /\ Len(buf) \in Nat /\ pos \in Nat /\ pos <= Len(buf)
      /\ pos \in 0..Len(buf) /\ Off \in Nat /\ Here \in Nat /\ Arrived \in Nat
      /\ Arrived = Off + Len(buf) /\ Arrived <= Len(b) /\ Here = Off + pos /\ Len(b) \in Nat
  BY BufIsStream DEF Tracked
<1>2. \A i \in 1..Len(buf) : buf[i] = b[Off + i]
  BY Zenon, BufIsStream DEF Tracked
<1>3. st = "need_star" /\ sent' = sent /\ rest' = rest
  BY DEF NeedStar, At
<1>4. Faithful'
  BY Zenon, FaithfulStep DEF Tracked, try_extract_request
<1>5. SUFFICES ASSUME ~sent.wide PROVE Tracked'
  BY Zenon, <1>3, <1>4 DEF Tracked
<1>6. PICK m \in 0..n : Said(out, says, m) /\ BetweenPieces(m)
  BY Zenon, <1>3, <1>5 DEF Tracked
<1>7. n \in Nat /\ m \in Nat /\ m <= n /\ start[n + 1] = Len(b) /\ says \in Seq(Args \cup {Error})
  <2>1. n \in Nat /\ start[n + 1] = Len(b) /\ says \in Seq(Args \cup {Error})
    BY Zenon, <1>5, Pieces
  <2>2. m \in Nat /\ m <= n
    BY <2>1
  <2> QED
    BY Zenon, <2>1, <2>2
<1>8. /\ Here <= start[m + 1]
      /\ Here = start[m + 1] \/ (m > 0 /\ start[m] < Here /\ says[m] = Error)
  BY Zenon, <1>6 DEF BetweenPieces
<1>9. out \in Seq(Args \cup {Error})
  BY StateTypes
<1>10. Here = start[m + 1] /\ pos < Len(buf) => m < n /\ m + 1 \in 1..n
  <2>1. m = n => start[m + 1] = Len(b)
    BY <1>7
  <2> HIDE DEF start, b, n
  <2> QED
    BY <1>1, <1>7, <2>1
<1>11. pos < Len(buf) => buf[pos + 1] = b[Here + 1]
  <2> SUFFICES ASSUME pos < Len(buf) PROVE buf[pos + 1] = b[Here + 1]
    OBVIOUS
  <2>1. pos + 1 \in 1..Len(buf) /\ Off + (pos + 1) = Here + 1
    BY <1>1
  <2>2. buf[pos + 1] = b[Off + (pos + 1)]
    BY Zenon, <1>2, <2>1
  <2> QED
    BY Zenon, <2>1, <2>2
<1>12. ASSUME m > 0 PROVE m \in 1..n /\ m - 1 \in Nat /\ m - 1 < n /\ (m - 1) + 1 = m
  BY <1>7, <1>12
<1>13. CASE pos >= Len(buf) /\ ConsumeTo(pos) /\ Nothing /\ UNCHANGED parser
  <2>1. Here' = Here
    BY Zenon, <1>1, <1>3, <1>13, ConsumeStream DEF Tracked
  <2>2. st' = st /\ out' = out
    BY <1>13 DEF parser, Nothing
  <2>3. BetweenPieces(m)'
    BY Zenon, <1>3, <1>8, <2>1 DEF BetweenPieces
  <2>4. rest = <<>> => Here = Len(b)
    <3>1. Here = Arrived
      BY <1>1, <1>13
    <3>2. rest = <<>> => Arrived = Len(b)
      BY <1>1 DEF Arrived
    <3> QED
      BY Zenon, <3>1, <3>2
  <2>5. loop' = "read"
    BY <1>13 DEF Nothing
  <2>6. Idle'
    BY <1>3, <2>1, <2>2, <2>4, <2>5 DEF Idle
  <2> QED
    BY Zenon, <1>3, <1>4, <1>6, <2>2, <2>3, <2>6, BetweenTracks
<1>14. CASE /\ pos < Len(buf) /\ buf[pos + 1] # Star
            /\ ConsumeTo(EndOfLine) /\ Return(Error) /\ UNCHANGED parser
  <2>1. out' = Append(out, Error) /\ loop' = "call" /\ st' = "need_star"
    BY <1>3, <1>14 DEF parser, Return
  <2>2. \E k \in 1..n : /\ start[k] <= Here /\ Here < start[k + 1] /\ says[k] = Error
                        /\ Said(Append(out, Error), says, k)
    <3>1. CASE Here = start[m + 1]
      <4> DEFINE k == m + 1
      <4>1. k \in 1..n /\ m < n
        BY Zenon, <1>10, <1>14, <3>1
      <4>2. says[k] = Error /\ start[k] \in Nat /\ start[k + 1] \in Nat /\ start[k] < start[k + 1]
        BY Zenon, <1>5, <1>11, <1>14, <3>1, <4>1, PieceFacts
      <4>3. Said(Append(out, says[k]), says, k)
        BY Zenon, <1>6, <1>7, <1>9, <4>1, SaidNext
      <4>4. start[k] = Here /\ start[k] <= Here /\ Here < start[k + 1]
        BY <1>1, <3>1, <4>2
      <4> HIDE DEF k
      <4> QED
        BY Zenon, <4>1, <4>2, <4>3, <4>4
    <3>2. CASE Here # start[m + 1]
      <4>1. m > 0 /\ start[m] < Here /\ says[m] = Error
        BY Zenon, <1>8, <3>2
      <4>2. m \in 1..n /\ m - 1 \in Nat /\ m - 1 < n /\ (m - 1) + 1 = m
        BY Zenon, <1>12, <4>1
      <4>3. start[m] \in Nat /\ start[m + 1] \in Nat
        BY Zenon, <1>5, <4>2, PieceFacts
      <4>4. start[m] <= Here /\ Here < start[m + 1]
        BY <1>1, <1>8, <3>2, <4>1, <4>3
      <4>5. Said(Append(out, Error), says, (m - 1) + 1)
        BY Zenon, <1>6, <1>7, <1>9, <4>1, <4>2, SaidAgain
      <4> QED
        BY Zenon, <4>1, <4>2, <4>4, <4>5
    <3> QED
      BY <3>1, <3>2
  <2>3. PICK k \in 1..n : /\ start[k] <= Here /\ Here < start[k + 1] /\ says[k] = Error
                          /\ Said(Append(out, Error), says, k)
    BY Zenon, <2>2
  <2> DEFINE q == start[k + 1]
             i == Find(buf, pos, LF)
  <2>4. /\ start[k] \in Nat /\ q \in Nat /\ q <= Len(b) /\ b[q] = LF /\ k \in Nat /\ k > 0
    <3>1. start[k] \in Nat /\ q \in Nat /\ q <= Len(b) /\ b[q] = LF
      BY Zenon, <1>5, <2>3, PieceFacts
    <3> QED
      BY <3>1
  <2>5. i \in pos..Len(buf) /\ \A j \in pos..(i - 1) : buf[j + 1] # LF
    BY Zenon, <1>1, FindFacts
  <2>6. EndOfLine = IF i = Len(buf) THEN i ELSE i + 1
    BY Zenon DEF EndOfLine
  <2> HIDE DEF i, q
  <2>7. i \in Nat /\ i <= Len(buf) /\ pos <= i
    BY <1>1, <2>5
  <2>8. q <= Arrived => Off + i < q
    <3> SUFFICES ASSUME q <= Arrived, ~(Off + i < q) PROVE FALSE
      OBVIOUS
    <3> DEFINE j == q - 1 - Off
    <3>1. Here < q
      BY Zenon, <2>3 DEF q
    <3>2. j \in pos..(i - 1) /\ j + 1 \in 1..Len(buf) /\ Off + (j + 1) = q
      BY <1>1, <2>4, <2>7, <3>1
    <3> HIDE DEF j
    <3>3. buf[j + 1] # LF /\ buf[j + 1] = b[q]
      BY Zenon, <1>2, <2>5, <3>2
    <3> QED
      BY Zenon, <2>4, <3>3
  <2>9. EndOfLine \in 0..Len(buf) /\ Here < Off + EndOfLine /\ Off + EndOfLine <= q
    <3>1. Here < q
      BY Zenon, <2>3 DEF q
    <3>2. \A l, o, p, x, y \in Nat : p <= x /\ x <= l /\ p < l /\ o + p < y =>
              /\ x = l /\ (y <= o + l => o + x < y) => o + p < o + x /\ o + x <= y
              /\ x # l /\ (y <= o + l => o + x < y) =>
                     x + 1 \in 0..l /\ o + p < o + (x + 1) /\ o + (x + 1) <= y
      OBVIOUS
    <3>3. /\ i = Len(buf) => i \in 0..Len(buf) /\ Off + pos < Off + i /\ Off + i <= q
          /\ i # Len(buf) =>
                 i + 1 \in 0..Len(buf) /\ Off + pos < Off + (i + 1) /\ Off + (i + 1) <= q
      <4>1. q <= Off + Len(buf) => Off + i < q
        BY Zenon, <1>1, <2>8
      <4>2. pos < Len(buf) /\ Off + pos < q
        BY Zenon, <1>1, <1>14, <3>1
      <4>3. q \in Nat /\ Off \in Nat /\ pos \in Nat /\ Len(buf) \in Nat
        BY Zenon, <1>1, <2>4
      <4>4. i = Len(buf) => i \in 0..Len(buf)
        BY <2>7
      <4> QED
        BY <2>7, <3>2, <4>1, <4>2, <4>3, <4>4
    <3> QED
      BY Zenon, <1>1, <2>6, <3>3
  <2>10. Here' = Off + EndOfLine
    BY Zenon, <1>3, <1>14, <2>9, ConsumeStream DEF Tracked
  <2>11. start[k] < Here'
    <3>1. start[k] <= Here /\ Off + EndOfLine \in Int
      BY <1>1, <2>3, <2>9
    <3>2. \A x, y, z \in Int : x <= y /\ y < z => x < z
      OBVIOUS
    <3>3. start[k] \in Int /\ Here \in Int
      BY <1>1, <2>4
    <3> HIDE DEF start
    <3> QED
      BY Zenon, <2>9, <2>10, <3>1, <3>2, <3>3
  <2>12. BetweenPieces(k)'
    BY Zenon, <1>3, <2>3, <2>4, <2>9, <2>10, <2>11 DEF BetweenPieces, q
  <2>13. Idle'
    BY <2>1 DEF Idle
  <2>14. k \in 0..n
    BY <1>7
  <2> QED
    BY Zenon, <1>3, <1>4, <2>1, <2>3, <2>12, <2>13, <2>14, BetweenTracks
<1>15. CASE /\ pos < Len(buf) /\ buf[pos + 1] = Star
            /\ cmd_start' = pos /\ pos' = pos + 1 /\ st' = "need_argc"
            /\ Continue /\ UNCHANGED <<buf, argc, argi, bulk_len, slices>>
  <2>1. out' = out /\ loop' = "switch" /\ buf' = buf
    BY <1>15 DEF Continue, NeedStar, At
  <2>2. Here = start[m + 1]
    <3> SUFFICES ASSUME Here # start[m + 1] PROVE FALSE
      OBVIOUS
    <3>1. m > 0 /\ start[m] < Here /\ says[m] = Error
      BY Zenon, <1>8
    <3>2. m \in 1..n
      BY Zenon, <1>12, <3>1
    <3>3. /\ start[m] \in Nat /\ start[m + 1] \in Nat
          /\ \A i \in (start[m] + 2)..start[m + 1] : b[i] # Star
      BY Zenon, <1>5, <3>1, <3>2, PieceFacts
    <3>4. Here + 1 \in (start[m] + 2)..start[m + 1]
      <4>1. Here <= start[m + 1] /\ start[m] < Here /\ Here \in Nat
        BY Zenon, <1>1, <1>8, <3>1
      <4>2. \A h, x, y \in Nat : h <= y /\ h # y /\ x < h => h + 1 \in (x + 2)..y
        OBVIOUS
      <4> QED
        BY Zenon, <3>3, <4>1, <4>2
    <3> QED
      BY Zenon, <1>11, <1>15, <3>3, <3>4
  <2> DEFINE k == m + 1
  <2>3. k \in 1..n /\ k - 1 = m
    BY <1>7, <1>10, <1>15, <2>2
  <2>4. Off' = Off /\ Here' = Off + pos'
    BY Zenon, <1>3, <2>1, Still DEF Tracked
  <2>5. Off + cmd_start' = start[k] /\ Here' = start[k] + 1 /\ k <= n
    <3>1. Off + pos = start[k] /\ Off + (pos + 1) = Here + 1
      BY <1>1, <2>2
    <3>2. k <= n
      BY <1>7, <2>3
    <3> QED
      BY Zenon, <1>15, <2>2, <2>4, <3>1, <3>2
  <2> HIDE DEF k
  <2>6. InPiece(k)'
    BY <1>3, <1>15, <2>4, <2>5 DEF InPiece
  <2>7. st' # "need_star"
    BY <1>15
  <2>8. Said(out', says, k - 1)
    BY Zenon, <1>6, <2>1, <2>3
  <2> QED
    BY Zenon, <1>3, <1>4, <1>7, <2>1, <2>3, <2>6, <2>7, <2>8, InPieceTracks
<1> QED
  BY Zenon, <1>13, <1>14, <1>15 DEF NeedStar

\* The piece that the parser is in.
LEMMA PieceHere ==
    ASSUME IInv, Tracked, ~sent.wide, st # "need_star"
    PROVE  \E k \in 1..Len(sent.says) :
               Said(out, sent.says, k - 1) /\ InPiece(k) /\ sent.start[k] < Here
<1>1. PICK m \in 0..Len(sent.says) : Said(out, sent.says, m) /\ InPiece(m + 1)
  BY Zenon DEF Tracked
<1>2. m + 1 <= Len(sent.says) /\ Off + cmd_start = sent.start[m + 1]
  BY Zenon, <1>1 DEF InPiece
<1>3. Len(sent.says) \in Nat
  BY Pieces
<1>4. m + 1 \in 1..Len(sent.says) /\ (m + 1) - 1 = m
  BY <1>2, <1>3
<1>5. sent.start[m + 1] < Here
  <2>1. cmd_start \in Nat /\ pos \in Nat /\ cmd_start < pos
    BY DEF IInv, TypeOK
  <2>2. Off \in Nat /\ Here = Off + pos
    BY BufIsStream DEF Tracked
  <2>3. Off + cmd_start < Here
    BY <2>1, <2>2
  <2> QED
    BY Zenon, <1>2, <2>3
<1> QED
  BY Zenon, <1>1, <1>4, <1>5

\* In a request: its arguments, and the one that the parser is in.
LEMMA ArgumentHere ==
    ASSUME IInv, Tracked, ~sent.wide, st \notin {"need_star", "need_argc"}
    PROVE  \E k \in 1..Len(sent.says), at \in Seq(0..Len(sent.bytes)) :
               /\ Said(out, sent.says, k - 1) /\ sent.start[k] < Here
               /\ Off + cmd_start = sent.start[k]
               /\ Layout(sent, k, argc, at) /\ InArgument(k, at) /\ SlicesTrue(k)
<1>1. PICK k \in 1..Len(sent.says) :
               Said(out, sent.says, k - 1) /\ InPiece(k) /\ sent.start[k] < Here
  <2>1. st # "need_star"
    OBVIOUS
  <2> QED
    BY Zenon, <2>1, PieceHere
<1>2. st # "need_argc"
  OBVIOUS
<1> QED
  BY Zenon, <1>1, <1>2 DEF InPiece

\* The line should be a number of the range and is none.
LEMMA BadNumberTracks ==
    ASSUME IInv, Tracked, ~sent.wide, NEW k \in 1..Len(sent.says), sent.says[k] = Error,
           Said(out, sent.says, k - 1), sent.start[k] < Here,
           NEW e \in Here..sent.start[k + 1], NEW R, BadNumberAt(sent.bytes, Here, e, R),
           UNCHANGED <<sent, rest>>,
           LET n == parse_int_crlf IN
           \/ n.status = "need_more" /\ Nothing /\ UNCHANGED <<buf, pos, parser>>
           \/ n.status = "invalid" /\ reset_and_resync(pos)
           \/ n.status = "ok" /\ reset_and_resync(n.next)
    PROVE  Tracked'
<1> DEFINE q == sent.start[k + 1]
           n == parse_int_crlf
<1>1. /\ Faithful /\ Len(sent.bytes) \in Nat /\ Here \in Nat /\ Here = Off + pos /\ Off \in Nat
      /\ pos \in Nat /\ pos <= Len(buf) /\ Len(buf) \in Nat /\ buf \in Seq(Byte)
      /\ pos \in 0..Len(buf)
  <2>1. Faithful
    BY Zenon DEF Tracked
  <2>2. /\ Len(sent.bytes) \in Nat /\ Here \in Nat /\ Here = Off + pos /\ Off \in Nat
        /\ pos \in Nat /\ pos <= Len(buf) /\ Len(buf) \in Nat /\ buf \in Seq(Byte)
    BY Zenon, <2>1, BufIsStream
  <2>3. pos \in 0..Len(buf)
    BY <2>2
  <2> QED
    BY Zenon, <2>1, <2>2, <2>3
<1>2. sent.start[k] \in Nat /\ q \in Nat /\ q <= Len(sent.bytes)
  BY Zenon, PieceFacts
<1>3. e \in Int /\ e <= q /\ Here <= e /\ e <= Len(sent.bytes) /\ Here <= q /\ sent.start[k] < e
  <2>1. \A s, h, x, l \in Nat : \A y \in h..x : s < h /\ x <= l =>
            y \in Int /\ y <= x /\ h <= y /\ y <= l /\ h <= x /\ s < y
    OBVIOUS
  <2>2. e \in Here..q /\ sent.start[k] < Here
    OBVIOUS
  <2>3. sent.start[k] \in Nat /\ Here \in Nat /\ q \in Nat /\ Len(sent.bytes) \in Nat
    BY Zenon, <1>1, <1>2
  <2>4. q <= Len(sent.bytes)
    BY Zenon, <1>2
  <2> HIDE DEF q
  <2> QED
    BY <2>1, <2>2, <2>3, <2>4
<1>4. /\ n.status = "need_more" => e > Arrived
      /\ n.status = "ok" => Off + n.next = e
  BY Zenon, <1>1, <1>3, BadParse
<1>5. CASE n.status = "need_more" /\ Nothing /\ UNCHANGED <<buf, pos, parser>>
  <2>1. rest # <<>>
    BY <1>1, <1>3, <1>4, <1>5, MoreToCome
  <2> QED
    BY Zenon, <1>5, <2>1, NothingTracks
<1>6. ASSUME NEW p \in 0..Len(buf), sent.start[k] < Off + p, Off + p <= q, reset_and_resync(p)
      PROVE  Tracked'
  BY Zenon, <1>1, <1>6, ResyncTracks DEF reset_and_resync
<1>7. CASE n.status = "invalid" /\ reset_and_resync(pos)
  BY Zenon, <1>1, <1>3, <1>6, <1>7
<1>8. CASE n.status = "ok" /\ reset_and_resync(n.next)
  <2>1. n.next \in (pos + 1)..Len(buf)
    BY <1>1, <1>8, ParseFacts
  <2>2. n.next \in 0..Len(buf)
    BY <1>1, <2>1
  <2> QED
    BY Zenon, <1>3, <1>4, <1>6, <1>8, <2>2
<1> QED
  BY Zenon, <1>5, <1>7, <1>8

LEMMA NeedArgcTracks == ASSUME IInv, Tracked, NeedArgc PROVE Tracked'
<1> DEFINE b == sent.bytes
           n == parse_int_crlf
<1>1. /\ st = "need_argc" /\ st # "need_star" /\ loop = "switch" /\ sent' = sent /\ rest' = rest
      /\ Faithful
  BY DEF NeedArgc, At, Tracked
<1>2. Faithful'
  BY Zenon, FaithfulStep DEF Tracked, try_extract_request
<1>3. SUFFICES ASSUME ~sent.wide PROVE Tracked'
  BY Zenon, <1>1, <1>2 DEF Tracked
<1>4. PICK k \in 1..Len(sent.says) :
               Said(out, sent.says, k - 1) /\ InPiece(k) /\ sent.start[k] < Here
  BY Zenon, <1>1, <1>3, PieceHere
<1>5. Off + cmd_start = sent.start[k] /\ Here = sent.start[k] + 1 /\ k <= Len(sent.says)
  BY Zenon, <1>1, <1>4 DEF InPiece
<1>6. /\ Off \in Nat /\ pos \in Nat /\ Len(buf) \in Nat /\ pos <= Len(buf) /\ Len(b) \in Nat
      /\ buf \in Seq(Byte) /\ pos \in 0..Len(buf) /\ Arrived \in Nat
  BY <1>1, BufIsStream
<1>7. b[sent.start[k] + 1] = Star
  <2>1. cmd_start \in Nat /\ cmd_start < pos /\ buf[cmd_start + 1] = Star
    BY <1>1 DEF IInv, TypeOK
  <2>2. cmd_start + 1 \in 1..Len(buf) /\ Off + (cmd_start + 1) = (Off + cmd_start) + 1
    BY <1>6, <2>1
  <2>3. buf[cmd_start + 1] = b[Off + (cmd_start + 1)]
    BY Zenon, <1>1, <2>2, BufIsStream
  <2> QED
    BY Zenon, <1>5, <2>1, <2>2, <2>3
<1>8. n.status = "ok" => n.values \subseteq Int
  BY <1>6, ParseFacts
<1>9. \/ n.status = "need_more" /\ Nothing /\ UNCHANGED <<buf, pos, parser>>
      \/ n.status = "invalid" /\ reset_and_resync(pos)
      \/ n.status = "ok" /\ (\E v \in n.values : ~ArgcOK(v)) /\ reset_and_resync(n.next)
      \/ /\ n.status = "ok" /\ \E v \in n.values : ArgcOK(v) /\ argc' = v
         /\ pos' = n.next /\ argi' = 0 /\ slices' = <<>> /\ st' = "need_dollar"
         /\ Continue /\ UNCHANGED <<buf, cmd_start, bulk_len>>
  BY Zenon DEF NeedArgc
<1>10. Len(sent.says) \in Nat /\ kMaxArgs \in Nat
  BY <1>3, Pieces, RespAssumption
<1> HIDE DEF n
<1>11. ASSUME sent.says[k] = Error,
              NEW e \in (sent.start[k] + 1)..sent.start[k + 1],
              BadNumberAt(b, sent.start[k] + 1, e, 1..kMaxArgs)
       PROVE  Tracked'
  <2>0. e \in Int
    OBVIOUS
  <2>1. e \in Here..sent.start[k + 1] /\ BadNumberAt(b, Here, e, 1..kMaxArgs)
    BY Zenon, <1>5, <1>11
  <2>2. n.status = "ok" => \E v : v \notin 1..kMaxArgs /\ n.values = {v}
    BY Zenon, <1>1, <2>0, <2>1, BadParse DEF n
  <2>3. ~(n.status = "ok" /\ \E v \in n.values : ArgcOK(v))
    <3> SUFFICES ASSUME n.status = "ok", NEW v \in n.values, ArgcOK(v) PROVE FALSE
      BY Zenon
    <3>1. v \notin 1..kMaxArgs /\ v \in Int
      BY Zenon, <1>8, <2>2
    <3> QED
      BY <1>10, <3>1 DEF ArgcOK
  <2> QED
    BY Zenon, <1>1, <1>3, <1>4, <1>9, <1>11, <2>1, <2>3, BadNumberTracks DEF n
<1>12. ASSUME NEW c \in 1..kMaxArgs, NEW at \in Seq(0..Len(b)), Layout(sent, k, c, at)
       PROVE  Tracked'
  <2>1. /\ NumberAt(b, Here, at[1], c) /\ Len(at) >= 1 /\ at[1] \in Int /\ at[1] <= Len(b)
    <3>1. NumberAt(b, sent.start[k] + 1, at[1], c) /\ Len(at) \in 1..(c + 1)
      BY Zenon, <1>12 DEF Layout, FrameAt
    <3>2. Len(at) >= 1
      BY <1>10, <3>1
    <3>3. at[1] \in 0..Len(b)
      BY <3>2
    <3>4. at[1] \in Int /\ at[1] <= Len(b)
      BY <1>6, <3>3
    <3> QED
      BY Zenon, <1>5, <3>1, <3>2, <3>4
  <2>2. /\ n.status \in {"need_more", "ok"}
        /\ n.status = "need_more" => at[1] > Arrived
        /\ n.status = "ok" => Off + n.next = at[1] /\ n.values = {c}
    BY Zenon, <1>1, <2>1, NumberParse DEF n
  <2>3. n.status # "invalid" /\ ArgcOK(c)
    BY <1>10, <2>2 DEF ArgcOK
  <2>4. CASE n.status = "need_more" /\ Nothing /\ UNCHANGED <<buf, pos, parser>>
    <3>1. rest # <<>>
      BY Zenon, <1>1, <2>1, <2>2, <2>4, MoreToCome
    <3> QED
      BY Zenon, <1>1, <2>4, <3>1, NothingTracks
  <2>5. CASE /\ n.status = "ok" /\ \E v \in n.values : ArgcOK(v) /\ argc' = v
             /\ pos' = n.next /\ argi' = 0 /\ slices' = <<>> /\ st' = "need_dollar"
             /\ Continue /\ UNCHANGED <<buf, cmd_start, bulk_len>>
    <3>1. argc' = c
      BY Zenon, <2>2, <2>5
    <3>2. out' = out /\ loop' = "switch" /\ buf' = buf /\ cmd_start' = cmd_start
      BY <1>1, <2>5 DEF Continue
    <3>3. Off' = Off /\ Here' = at[1]
      <4>1. Off' = Off /\ Here' = Off + pos'
        BY Zenon, <1>1, <3>2, Still
      <4> QED
        BY Zenon, <2>2, <2>5, <4>1
    <3>4. InArgument(k, at)'
      <4>1. argi' + 1 = 1
        BY <2>5
      <4>2. argi' + 1 <= Len(at) /\ Here' = at[argi' + 1]
        BY <2>1, <3>3, <4>1
      <4>3. st' = "need_dollar" /\ st' # "need_bulk_len" /\ st' # "need_bulk_data"
            /\ st' # "need_bulk_crlf"
        BY <2>5
      <4> QED
        BY Zenon, <4>2, <4>3 DEF InArgument
    <3>5. SlicesTrue(k)'
      BY <2>5 DEF SlicesTrue
    <3>6. Layout(sent, k, argc, at)'
      BY Zenon, <1>1, <1>12, <3>1 DEF Layout
    <3>7. st' # "need_star" /\ st' # "need_argc"
      BY <2>5
    <3>8. InPiece(k)'
      BY Zenon, <1>1, <1>5, <3>2, <3>3, <3>4, <3>5, <3>6, <3>7 DEF InPiece
    <3> QED
      BY Zenon, <1>1, <1>2, <1>4, <1>10, <3>2, <3>7, <3>8, InPieceTracks
  <2> QED
    BY Zenon, <1>9, <2>2, <2>3, <2>4, <2>5
<1> QED
  BY Zenon, <1>3, <1>7, <1>11, <1>12, PieceHeader

LEMMA NeedDollarTracks == ASSUME IInv, Tracked, NeedDollar PROVE Tracked'
<1> DEFINE b == sent.bytes
<1>1. /\ st = "need_dollar" /\ st \notin {"need_star", "need_argc"} /\ loop = "switch"
      /\ sent' = sent /\ rest' = rest /\ Faithful
  BY DEF NeedDollar, At, Tracked
<1>2. Faithful'
  BY Zenon, FaithfulStep DEF Tracked, try_extract_request
<1>3. SUFFICES ASSUME ~sent.wide PROVE Tracked'
  BY Zenon, <1>1, <1>2 DEF Tracked
<1>4. PICK k \in 1..Len(sent.says), at \in Seq(0..Len(b)) :
               /\ Said(out, sent.says, k - 1) /\ sent.start[k] < Here
               /\ Off + cmd_start = sent.start[k]
               /\ Layout(sent, k, argc, at) /\ InArgument(k, at) /\ SlicesTrue(k)
  BY Zenon, <1>1, <1>3, ArgumentHere
<1> DEFINE x == at[argi + 1]
<1>5. argi + 1 <= Len(at) /\ Here = x
  BY Zenon, <1>1, <1>4 DEF InArgument
<1>6. /\ Off \in Nat /\ pos \in Nat /\ Len(buf) \in Nat /\ pos <= Len(buf) /\ Len(b) \in Nat
      /\ buf \in Seq(Byte) /\ pos \in 0..Len(buf) /\ Arrived \in Nat /\ Here = Off + pos
      /\ Arrived = Off + Len(buf) /\ Here \in Nat
  BY <1>1, BufIsStream
<1>7. argi < argc
  BY <1>1 DEF IInv
<1>8. /\ Here < Len(b)
      /\ b[Here + 1] # Dollar => sent.says[k] = Error /\ Here <= sent.start[k + 1]
  BY Zenon, <1>3, <1>4, <1>5, <1>7, ArgumentFacts DEF ArgAt
<1>9. pos < Len(buf) => buf[pos + 1] = b[Here + 1]
  <2> SUFFICES ASSUME pos < Len(buf) PROVE buf[pos + 1] = b[Here + 1]
    OBVIOUS
  <2>1. pos + 1 \in 1..Len(buf) /\ Off + (pos + 1) = Here + 1
    BY <1>6
  <2>2. buf[pos + 1] = b[Off + (pos + 1)]
    BY Zenon, <1>1, <2>1, BufIsStream
  <2> QED
    BY Zenon, <2>1, <2>2
<1>10. CASE pos >= Len(buf) /\ Nothing /\ UNCHANGED <<buf, pos, parser>>
  <2>1. Here + 1 \in Int /\ Here + 1 > Arrived /\ Here + 1 <= Len(b)
    BY <1>6, <1>8, <1>10
  <2>2. rest # <<>>
    BY Zenon, <1>1, <2>1, MoreToCome
  <2> QED
    BY Zenon, <1>1, <1>10, <2>2, NothingTracks
<1>11. CASE pos < Len(buf) /\ buf[pos + 1] # Dollar /\ reset_and_resync(pos)
  <2>1. sent.says[k] = Error /\ Off + pos <= sent.start[k + 1] /\ sent.start[k] < Off + pos
    BY Zenon, <1>4, <1>6, <1>8, <1>9, <1>11
  <2> QED
    BY Zenon, <1>1, <1>3, <1>4, <1>6, <1>11, <2>1, ResyncTracks DEF reset_and_resync
<1>12. CASE /\ pos < Len(buf) /\ buf[pos + 1] = Dollar
            /\ pos' = pos + 1 /\ st' = "need_bulk_len"
            /\ Continue /\ UNCHANGED <<buf, cmd_start, argc, argi, bulk_len, slices>>
  <2>1. /\ out' = out /\ loop' = "switch" /\ buf' = buf /\ cmd_start' = cmd_start /\ argc' = argc
        /\ argi' = argi /\ slices' = slices
        /\ st' = "need_bulk_len" /\ st' \notin {"need_star", "need_argc"}
        /\ st' # "need_star" /\ st' # "need_argc" /\ st' # "need_dollar"
        /\ st' # "need_bulk_data" /\ st' # "need_bulk_crlf" /\ st # "need_bulk_crlf"
    BY <1>1, <1>12 DEF Continue
  <2>2. Off' = Off /\ Here' = Here + 1
    <3>1. Off' = Off /\ Here' = Off + pos'
      BY Zenon, <1>1, <2>1, Still
    <3>2. Off + (pos + 1) = Here + 1
      BY <1>6
    <3> QED
      BY Zenon, <1>12, <3>1, <3>2
  <2>3. InArgument(k, at)'
    BY Zenon, <1>1, <1>5, <1>9, <1>12, <2>1, <2>2 DEF InArgument
  <2>4. SlicesTrue(k)'
    BY Zenon, <1>1, <1>4, <2>1, <2>2 DEF SlicesTrue
  <2>5. Layout(sent, k, argc, at)'
    BY Zenon, <1>1, <1>4, <2>1 DEF Layout
  <2>6. k <= Len(sent.says) /\ Len(sent.says) \in Nat
    BY <1>3, Pieces
  <2>7. InPiece(k)'
    BY Zenon, <1>1, <1>4, <2>1, <2>2, <2>3, <2>4, <2>5, <2>6 DEF InPiece
  <2> QED
    BY Zenon, <1>1, <1>2, <1>4, <2>1, <2>6, <2>7, InPieceTracks
<1> QED
  BY Zenon, <1>10, <1>11, <1>12 DEF NeedDollar

LEMMA NeedBulkLenTracks == ASSUME IInv, Tracked, NeedBulkLen PROVE Tracked'
<1> DEFINE b == sent.bytes
           n == parse_int_crlf
<1>1. /\ st = "need_bulk_len" /\ st \notin {"need_star", "need_argc"} /\ loop = "switch"
      /\ sent' = sent /\ rest' = rest /\ Faithful /\ st # "need_dollar"
  BY DEF NeedBulkLen, At, Tracked
<1>2. Faithful'
  BY Zenon, FaithfulStep DEF Tracked, try_extract_request
<1>3. SUFFICES ASSUME ~sent.wide PROVE Tracked'
  BY Zenon, <1>1, <1>2 DEF Tracked
<1>4. PICK k \in 1..Len(sent.says), at \in Seq(0..Len(b)) :
               /\ Said(out, sent.says, k - 1) /\ sent.start[k] < Here
               /\ Off + cmd_start = sent.start[k]
               /\ Layout(sent, k, argc, at) /\ InArgument(k, at) /\ SlicesTrue(k)
  BY Zenon, <1>1, <1>3, ArgumentHere
<1> DEFINE x == at[argi + 1]
<1>5. argi + 1 <= Len(at) /\ Here = x + 1 /\ b[x + 1] = Dollar
  BY Zenon, <1>1, <1>4 DEF InArgument
<1>6. /\ Off \in Nat /\ pos \in Nat /\ Len(buf) \in Nat /\ pos <= Len(buf) /\ Len(b) \in Nat
      /\ buf \in Seq(Byte) /\ pos \in 0..Len(buf) /\ Arrived \in Nat /\ Here = Off + pos
  BY <1>1, BufIsStream
<1>7. argi < argc /\ kMaxBulk \in Nat
  BY <1>1, RespAssumption DEF IInv
<1>8. n.status = "ok" => n.values \subseteq Int
  BY <1>6, ParseFacts
<1>9. \/ n.status = "need_more" /\ Nothing /\ UNCHANGED <<buf, pos, parser>>
      \/ n.status = "invalid" /\ reset_and_resync(pos)
      \/ n.status = "ok" /\ (\E v \in n.values : ~BulkOK(v)) /\ reset_and_resync(n.next)
      \/ /\ n.status = "ok" /\ \E v \in n.values : BulkOK(v) /\ bulk_len' = v
         /\ pos' = n.next /\ st' = "need_bulk_data"
         /\ Continue /\ UNCHANGED <<buf, cmd_start, argc, argi, slices>>
  BY Zenon DEF NeedBulkLen
<1>10. k <= Len(sent.says) /\ Len(sent.says) \in Nat /\ sent.start[k + 1] \in Nat
       /\ sent.start[k + 1] <= Len(b)
  <2>1. Len(sent.says) \in Nat
    BY <1>3, Pieces
  <2>2. sent.start[k + 1] \in Nat /\ sent.start[k + 1] <= Len(b)
    BY Zenon, <1>3, PieceFacts
  <2> QED
    BY <2>1, <2>2
<1> HIDE DEF n
<1>11. ASSUME sent.says[k] = Error, NEW e \in (x + 1)..sent.start[k + 1],
              BadNumberAt(b, x + 1, e, 0..kMaxBulk)
       PROVE  Tracked'
  <2>0. e \in Int
    OBVIOUS
  <2>1. e \in Here..sent.start[k + 1] /\ BadNumberAt(b, Here, e, 0..kMaxBulk)
    BY Zenon, <1>5, <1>11
  <2>2. n.status = "ok" => \E v : v \notin 0..kMaxBulk /\ n.values = {v}
    BY Zenon, <1>1, <2>0, <2>1, BadParse DEF n
  <2>3. ~(n.status = "ok" /\ \E v \in n.values : BulkOK(v))
    <3> SUFFICES ASSUME n.status = "ok", NEW v \in n.values, BulkOK(v) PROVE FALSE
      BY Zenon
    <3>1. v \notin 0..kMaxBulk /\ v \in Int
      BY Zenon, <1>8, <2>2
    <3> QED
      BY <1>7, <3>1 DEF BulkOK
  <2> QED
    BY Zenon, <1>1, <1>3, <1>4, <1>9, <1>11, <2>1, <2>3, BadNumberTracks DEF n
<1>12. ASSUME NEW e \in Int, NEW l \in 0..kMaxBulk, e <= Len(b), NumberAt(b, x + 1, e, l)
       PROVE  Tracked'
  <2>1. NumberAt(b, Here, e, l)
    BY Zenon, <1>5, <1>12
  <2>2. /\ n.status \in {"need_more", "ok"}
        /\ n.status = "need_more" => e > Arrived
        /\ n.status = "ok" => Off + n.next = e /\ n.values = {l}
    BY Zenon, <1>1, <2>1, NumberParse DEF n
  <2>3. n.status # "invalid" /\ BulkOK(l)
    BY <1>7, <2>2 DEF BulkOK
  <2>4. CASE n.status = "need_more" /\ Nothing /\ UNCHANGED <<buf, pos, parser>>
    <3>1. rest # <<>>
      BY Zenon, <1>1, <1>12, <2>2, <2>4, MoreToCome
    <3> QED
      BY Zenon, <1>1, <2>4, <3>1, NothingTracks
  <2>5. CASE /\ n.status = "ok" /\ \E v \in n.values : BulkOK(v) /\ bulk_len' = v
             /\ pos' = n.next /\ st' = "need_bulk_data"
             /\ Continue /\ UNCHANGED <<buf, cmd_start, argc, argi, slices>>
    <3>1. bulk_len' = l
      BY Zenon, <2>2, <2>5
    <3>2. /\ out' = out /\ loop' = "switch" /\ buf' = buf /\ cmd_start' = cmd_start
          /\ argc' = argc /\ argi' = argi /\ slices' = slices
          /\ st' # "need_star" /\ st' # "need_argc" /\ st' # "need_dollar"
          /\ st' # "need_bulk_len" /\ st' # "need_bulk_crlf" /\ st # "need_bulk_crlf"
      BY <1>1, <2>5 DEF Continue
    <3>3. Off' = Off /\ Here' = e
      <4>1. Off' = Off /\ Here' = Off + pos'
        BY Zenon, <1>1, <3>2, Still
      <4> QED
        BY Zenon, <2>2, <2>5, <4>1
    <3>4. InArgument(k, at)'
      BY Zenon, <1>1, <1>5, <1>12, <3>1, <3>2, <3>3 DEF InArgument
    <3>5. SlicesTrue(k)'
      BY Zenon, <1>1, <1>4, <3>2, <3>3 DEF SlicesTrue
    <3>6. Layout(sent, k, argc, at)'
      BY Zenon, <1>1, <1>4, <3>2 DEF Layout
    <3>7. InPiece(k)'
      BY Zenon, <1>1, <1>4, <1>10, <3>2, <3>3, <3>4, <3>5, <3>6 DEF InPiece
    <3> QED
      BY Zenon, <1>1, <1>2, <1>4, <1>10, <3>2, <3>7, InPieceTracks
  <2> QED
    BY Zenon, <1>9, <2>2, <2>3, <2>4, <2>5
<1>13. \/ \E d \in Nat : ArgAt(b, x, d, at[argi + 2]) /\ at[argi + 2] \in Nat
       \/ sent.says[k] = Error /\ BrokenAt(b, x, sent.start[k + 1])
  BY Zenon, <1>3, <1>4, <1>5, <1>7, ArgumentFacts
<1>14. ASSUME NEW d \in Nat, ArgAt(b, x, d, at[argi + 2]), at[argi + 2] \in Nat PROVE Tracked'
  <2> DEFINE l == at[argi + 2] - 2 - d
  <2>1. /\ d + 2 <= at[argi + 2] /\ at[argi + 2] <= Len(b)
        /\ l <= kMaxBulk /\ NumberAt(b, x + 1, d, l)
    BY Zenon, <1>14 DEF ArgAt
  <2>2. l \in 0..kMaxBulk /\ d <= Len(b) /\ d \in Int
    <3>1. \A y, z, u, v \in Nat : y + 2 <= z /\ z <= u /\ z - 2 - y <= v =>
              z - 2 - y \in 0..v /\ y <= u /\ y \in Int
      OBVIOUS
    <3> QED
      BY Zenon, <1>6, <1>7, <1>14, <2>1, <3>1
  <2> HIDE DEF l
  <2> QED
    BY Zenon, <1>12, <2>1, <2>2
<1>15. ASSUME sent.says[k] = Error, BrokenAt(b, x, sent.start[k + 1]) PROVE Tracked'
  <2>1. \/ \E e \in (x + 1)..sent.start[k + 1] : BadNumberAt(b, x + 1, e, 0..kMaxBulk)
        \/ \E e \in (x + 1)..sent.start[k + 1], l \in 0..kMaxBulk : NumberAt(b, x + 1, e, l)
    BY Zenon, <1>5, <1>15 DEF BrokenAt
  <2>2. ASSUME NEW e \in (x + 1)..sent.start[k + 1], NEW l \in 0..kMaxBulk, NumberAt(b, x + 1, e, l)
        PROVE  Tracked'
    <3>1. e \in Int /\ e <= Len(b)
      <4> HIDE DEF x
      <4> QED
        BY <1>6, <1>10
    <3> QED
      BY Zenon, <1>12, <2>2, <3>1
  <2> QED
    BY Zenon, <1>11, <1>15, <2>1, <2>2
<1> QED
  BY Zenon, <1>13, <1>14, <1>15

LEMMA NeedBulkDataTracks == ASSUME IInv, Tracked, NeedBulkData PROVE Tracked'
<1> DEFINE b == sent.bytes
<1>1. /\ st = "need_bulk_data" /\ st \notin {"need_star", "need_argc"} /\ loop = "switch"
      /\ sent' = sent /\ rest' = rest /\ Faithful /\ st # "need_dollar" /\ st # "need_bulk_crlf"
  BY DEF NeedBulkData, At, Tracked
<1>2. Faithful'
  BY Zenon, FaithfulStep DEF Tracked, try_extract_request
<1>3. SUFFICES ASSUME ~sent.wide PROVE Tracked'
  BY Zenon, <1>1, <1>2 DEF Tracked
<1>4. PICK k \in 1..Len(sent.says), at \in Seq(0..Len(b)) :
               /\ Said(out, sent.says, k - 1) /\ sent.start[k] < Here
               /\ Off + cmd_start = sent.start[k]
               /\ Layout(sent, k, argc, at) /\ InArgument(k, at) /\ SlicesTrue(k)
  BY Zenon, <1>1, <1>3, ArgumentHere
<1> DEFINE x == at[argi + 1]
<1>5. argi + 1 <= Len(at) /\ b[x + 1] = Dollar /\ NumberAt(b, x + 1, Here, bulk_len)
  BY Zenon, <1>1, <1>4 DEF InArgument
<1>6. /\ Off \in Nat /\ pos \in Nat /\ Len(buf) \in Nat /\ pos <= Len(buf) /\ Len(b) \in Nat
      /\ Arrived \in Nat /\ Here = Off + pos /\ Arrived = Off + Len(buf)
      /\ Here \in Nat /\ Here \in Int
  BY <1>1, BufIsStream
<1>7. argi < argc /\ bulk_len \in Nat /\ argi \in Nat /\ slices \in Seq(Slice)
  BY <1>1, StateTypes DEF IInv
<1> DEFINE y == Here + bulk_len + 2
<1>8. /\ y <= Len(b)
      /\ sent.says[k] # Error =>
             sent.says[k][argi + 1] = SubSeq(b, Here + 1, Here + bulk_len)
  BY Zenon, <1>3, <1>4, <1>5, <1>6, <1>7, ArgumentEnd
<1>9. k <= Len(sent.says) /\ Len(sent.says) \in Nat
  BY <1>3, Pieces
<1>10. CASE pos + bulk_len > Len(buf) /\ Nothing /\ UNCHANGED <<buf, pos, parser>>
  <2>1. y \in Int /\ y > Arrived
    BY <1>6, <1>7, <1>10
  <2> HIDE DEF y
  <2>2. rest # <<>>
    BY Zenon, <1>1, <1>8, <2>1, MoreToCome
  <2> QED
    BY Zenon, <1>1, <1>10, <2>2, NothingTracks
<1>11. CASE /\ pos + bulk_len <= Len(buf)
            /\ slices' = Append(slices, [off |-> pos, len |-> bulk_len])
            /\ pos' = pos + bulk_len /\ st' = "need_bulk_crlf"
            /\ Continue /\ UNCHANGED <<buf, cmd_start, argc, argi, bulk_len>>
  <2>1. /\ out' = out /\ loop' = "switch" /\ buf' = buf /\ cmd_start' = cmd_start /\ argc' = argc
        /\ argi' = argi /\ bulk_len' = bulk_len
        /\ st' # "need_star" /\ st' # "need_argc" /\ st' # "need_dollar"
        /\ st' # "need_bulk_data" /\ st' # "need_bulk_len" /\ st' = "need_bulk_crlf"
    BY <1>1, <1>11 DEF Continue
  <2>2. Off' = Off /\ Here' - bulk_len = Here
    <3>1. Off' = Off /\ Here' = Off + pos'
      BY Zenon, <1>1, <2>1, Still
    <3>2. (Off + (pos + bulk_len)) - bulk_len = Here
      BY <1>6, <1>7
    <3> QED
      BY Zenon, <1>11, <3>1, <3>2
  <2>3. InArgument(k, at)'
    BY Zenon, <1>1, <1>5, <2>1, <2>2 DEF InArgument
  <2> DEFINE r == [off |-> pos, len |-> bulk_len]
  <2>4. r \in Slice /\ r.off = pos /\ r.len = bulk_len
    BY <1>6, <1>7 DEF Slice
  <2>5. Len(slices) = argi /\ (sent.says[k] # Error =>
               \A j \in 1..Len(slices) :
                   sent.says[k][j] = SubSeq(b, Off + slices[j].off + 1,
                                            Off + slices[j].off + slices[j].len))
    BY Zenon, <1>1, <1>4 DEF SlicesTrue
  <2> HIDE DEF r
  <2>6. /\ Len(slices') = argi + 1 /\ slices'[argi + 1] = r
        /\ \A j \in 1..argi : slices'[j] = slices[j]
    <3>1. slices' = Append(slices, r)
      BY Zenon, <1>11 DEF r
    <3>2. /\ Len(Append(slices, r)) = Len(slices) + 1
          /\ \A j \in 1..Len(slices) : Append(slices, r)[j] = slices[j]
          /\ Append(slices, r)[Len(slices) + 1] = r
      <4>1. slices \in Seq(Slice) /\ r \in Slice
        BY Zenon, <1>7, <2>4
      <4> QED
        BY <4>1, AppendProperties
    <3>3. Len(slices) = argi
      BY Zenon, <2>5
    <3> QED
      BY Zenon, <3>1, <3>2, <3>3
  <2>7. ASSUME sent.says[k] # Error, NEW j \in 1..(argi + 1)
        PROVE  sent.says[k][j] = SubSeq(b, Off + slices'[j].off + 1,
                                        Off + slices'[j].off + slices'[j].len)
    <3>1. CASE j = argi + 1
      BY Zenon, <1>6, <1>8, <2>4, <2>6, <2>7, <3>1
    <3>2. CASE j # argi + 1
      <4>1. j \in 1..argi
        BY <1>7, <3>2
      <4> QED
        BY Zenon, <2>5, <2>6, <2>7, <4>1
    <3> QED
      BY Zenon, <3>1, <3>2
  <2>8. SlicesTrue(k)'
    BY Zenon, <1>1, <2>1, <2>2, <2>6, <2>7 DEF SlicesTrue
  <2>9. Layout(sent, k, argc, at)'
    BY Zenon, <1>1, <1>4, <2>1 DEF Layout
  <2>10. InPiece(k)'
    BY Zenon, <1>1, <1>4, <1>9, <2>1, <2>2, <2>3, <2>8, <2>9 DEF InPiece
  <2> QED
    BY Zenon, <1>1, <1>2, <1>4, <1>9, <2>1, <2>10, InPieceTracks
<1> QED
  BY Zenon, <1>10, <1>11 DEF NeedBulkData

\* The arguments that are cut out of the frame are the ones sent.
LEMMA ArgvTrue ==
    ASSUME IInv, Faithful, st = "need_bulk_crlf", pos + 2 <= Len(buf), NEW k,
           sent.says[k] # Error, SlicesTrue(k), sent.says[k] \in Args,
           Len(sent.says[k]) = Len(slices)
    PROVE  Argv(pos + 2) = sent.says[k]
<1> DEFINE frame == SubSeq(buf, cmd_start + 1, pos + 2)
           argv == Argv(pos + 2)
           b == sent.bytes
<1>1. /\ buf \in Seq(Byte) /\ Len(buf) \in Nat /\ pos \in Nat /\ Off \in Nat
  BY BufIsStream
<1>2. cmd_start \in Nat /\ cmd_start < pos /\ slices \in Seq(Slice) /\ Len(slices) \in Nat
  BY StateTypes DEF IInv
<1>3. /\ frame \in Seq(Byte) /\ Len(frame) = pos + 2 - cmd_start
      /\ \A i \in 1..(pos + 2 - cmd_start) : frame[i] = buf[cmd_start + i]
  <2>1. /\ cmd_start + 1 \in Int /\ pos + 2 \in Int /\ cmd_start + 1 >= 1
        /\ cmd_start + 1 <= pos + 2
        /\ (pos + 2) - (cmd_start + 1) + 1 = pos + 2 - cmd_start
    BY <1>1, <1>2
  <2>2. /\ frame \in Seq(Byte) /\ Len(frame) = (pos + 2) - (cmd_start + 1) + 1
        /\ \A i \in 1..((pos + 2) - (cmd_start + 1) + 1) : frame[i] = buf[(cmd_start + 1) + i - 1]
    BY <1>1, <2>1, SubSeqFacts, SubSeqElements
  <2>3. \A i \in 1..(pos + 2 - cmd_start) : (cmd_start + 1) + i - 1 = cmd_start + i
    BY <1>1, <1>2
  <2> QED
    BY Zenon, <2>1, <2>2, <2>3
<1>4. argv = [i \in DOMAIN slices |->
                 SubSeq(frame, (slices[i].off - cmd_start) + 1,
                        (slices[i].off - cmd_start) + slices[i].len)]
  BY Zenon DEF Argv
<1> HIDE DEF frame
<1>5. argv \in Args
  BY Zenon, ArgvFacts
<1>6. DOMAIN slices = 1..Len(slices)
  BY <1>2
<1> HIDE DEF argv
<1>7. Len(argv) = Len(slices)
  <2>1. DOMAIN argv = 1..Len(slices)
    BY Zenon, <1>4, <1>6
  <2> QED
    BY <1>2, <1>5, <2>1 DEF Args
<1>8. ASSUME NEW j \in 1..Len(slices) PROVE argv[j] = sent.says[k][j]
  <2> DEFINE o == slices[j].off
             l == slices[j].len
  <2>1. o \in Nat /\ l \in Nat
    <3>1. slices[j] \in Slice
      BY <1>2
    <3> QED
      BY <3>1 DEF Slice
  <2>2. o + l <= pos /\ o > cmd_start
    BY <1>6 DEF IInv, SlicesSound, EndOf
  <2>3. sent.says[k][j] = SubSeq(b, Off + o + 1, Off + o + l)
    BY Zenon DEF SlicesTrue
  <2>4. argv[j] = SubSeq(frame, (o - cmd_start) + 1, (o - cmd_start) + l)
    BY Zenon, <1>4, <1>6
  <2> HIDE DEF o, l
  <2> DEFINE u == (o - cmd_start) + 1
             v == (o - cmd_start) + l
  <2>5. /\ u \in Int /\ v \in Int /\ u >= 1 /\ v <= Len(frame)
        /\ u + cmd_start = o + 1 /\ v + cmd_start = o + l
        /\ o + 1 \in Int /\ o + l \in Int /\ o + 1 >= 1 /\ o + l <= Len(buf)
        /\ Off + (o + 1) = Off + o + 1 /\ Off + (o + l) = Off + o + l
        /\ cmd_start \in Int
    <3>1. Len(frame) = pos + 2 - cmd_start
      BY Zenon, <1>3
    <3> QED
      BY <1>1, <1>2, <2>1, <2>2, <3>1
  <2>6. \A i \in u..v : frame[i] = buf[i + cmd_start]
    <3> SUFFICES ASSUME NEW i \in u..v PROVE frame[i] = buf[i + cmd_start]
      BY Zenon
    <3>1. i \in 1..(pos + 2 - cmd_start) /\ cmd_start + i = i + cmd_start
      BY <1>1, <1>2, <2>1, <2>2
    <3> QED
      BY Zenon, <1>3, <3>1
  <2> HIDE DEF u, v
  <2>7. SubSeq(frame, u, v) = SubSeq(buf, u + cmd_start, v + cmd_start)
    <3>1. ASSUME NEW d \in Int, d = cmd_start
          PROVE  SubSeq(frame, u, v) = SubSeq(buf, u + d, v + d)
      <4>1. /\ frame \in Seq(Byte) /\ buf \in Seq(Byte) /\ u \in Int /\ v \in Int
            /\ u >= 1 /\ v <= Len(frame) /\ u + d >= 1 /\ v + d <= Len(buf)
        BY Zenon, <1>1, <1>3, <2>5, <3>1
      <4>2. \A i \in u..v : frame[i] = buf[i + d]
        BY Zenon, <2>6, <3>1
      <4> QED
        BY <4>1, <4>2, SamePart
    <3> QED
      BY Zenon, <2>5, <3>1
  <2>8. SubSeq(buf, o + 1, o + l) = SubSeq(b, Off + (o + 1), Off + (o + l))
    BY Zenon, <2>5, BufPart
  <2> QED
    BY Zenon, <2>3, <2>4, <2>5, <2>7, <2>8 DEF u, v
<1>9. argv = sent.says[k]
  BY <1>5, <1>7, <1>8, SeqEqual DEF Args
<1> QED
  BY Zenon, <1>9 DEF argv

LEMMA NeedBulkCrlfTracks == ASSUME IInv, Tracked, NeedBulkCrlf PROVE Tracked'
<1> DEFINE b == sent.bytes
           says == sent.says
<1>1. /\ st = "need_bulk_crlf" /\ st \notin {"need_star", "need_argc"} /\ loop = "switch"
      /\ sent' = sent /\ rest' = rest /\ Faithful /\ st # "need_dollar"
  BY DEF NeedBulkCrlf, At, Tracked
<1>2. Faithful'
  BY Zenon, FaithfulStep DEF Tracked, try_extract_request
<1>3. SUFFICES ASSUME ~sent.wide PROVE Tracked'
  BY Zenon, <1>1, <1>2 DEF Tracked
<1>4. PICK k \in 1..Len(says), at \in Seq(0..Len(b)) :
               /\ Said(out, says, k - 1) /\ sent.start[k] < Here
               /\ Off + cmd_start = sent.start[k]
               /\ Layout(sent, k, argc, at) /\ InArgument(k, at) /\ SlicesTrue(k)
  BY Zenon, <1>1, <1>3, ArgumentHere
<1> DEFINE x == at[argi + 1]
<1>5. argi + 1 <= Len(at) /\ b[x + 1] = Dollar /\ NumberAt(b, x + 1, Here - bulk_len, bulk_len)
  BY Zenon, <1>1, <1>4 DEF InArgument
<1>6. /\ Off \in Nat /\ pos \in Nat /\ Len(buf) \in Nat /\ pos <= Len(buf) /\ Len(b) \in Nat
      /\ Arrived \in Nat /\ Here = Off + pos /\ Arrived = Off + Len(buf)
      /\ Here \in Nat /\ pos \in 0..Len(buf)
  BY <1>1, BufIsStream
<1>7. argi < argc /\ bulk_len \in Nat /\ argi \in Nat /\ argc \in Nat /\ slices \in Seq(Slice)
  BY <1>1, StateTypes DEF IInv
<1>8. /\ Here - bulk_len \in Int /\ (Here - bulk_len) + bulk_len = Here
      /\ (Here + 2) - 1 = Here + 1
  BY <1>6, <1>7
<1> DEFINE y == Here + 2
           D == Here - bulk_len
<1>9. /\ y <= Len(b)
      /\ \/ argi + 2 <= Len(at) /\ at[argi + 2] = y /\ b[Here + 1] = CR /\ b[y] = LF
         \/ says[k] = Error /\ Here <= sent.start[k + 1] /\ <<b[Here + 1], b[y]>> # <<CR, LF>>
  <2>1. D \in Int /\ NumberAt(b, x + 1, D, bulk_len) /\ D + bulk_len = Here /\ y - 1 = Here + 1
    BY Zenon, <1>5, <1>8
  <2> HIDE DEF D, y
  <2>2. /\ D + bulk_len + 2 <= Len(b)
        /\ \/ /\ argi + 2 <= Len(at) /\ at[argi + 2] = D + bulk_len + 2
              /\ b[(D + bulk_len + 2) - 1] = CR /\ b[D + bulk_len + 2] = LF
           \/ /\ says[k] = Error /\ D + bulk_len <= sent.start[k + 1]
              /\ <<b[(D + bulk_len + 2) - 1], b[D + bulk_len + 2]>> # <<CR, LF>>
    BY Zenon, <1>3, <1>4, <1>5, <1>7, <2>1, ArgumentEnd
  <2> QED
    BY Zenon, <2>1, <2>2 DEF y
<1>10. pos + 2 <= Len(buf) => buf[pos + 1] = b[Here + 1] /\ buf[pos + 2] = b[y]
  <2> SUFFICES ASSUME pos + 2 <= Len(buf) PROVE buf[pos + 1] = b[Here + 1] /\ buf[pos + 2] = b[y]
    OBVIOUS
  <2>1. /\ pos + 1 \in 1..Len(buf) /\ Off + (pos + 1) = Here + 1
        /\ pos + 2 \in 1..Len(buf) /\ Off + (pos + 2) = y
    BY <1>6
  <2>2. buf[pos + 1] = b[Off + (pos + 1)] /\ buf[pos + 2] = b[Off + (pos + 2)]
    BY Zenon, <1>1, <2>1, BufIsStream
  <2> QED
    BY Zenon, <2>1, <2>2
<1>11. says \in Seq(Args \cup {Error}) /\ Len(says) \in Nat /\ k <= Len(says)
  <2>1. says \in Seq(Args \cup {Error}) /\ Len(says) \in Nat
    BY Zenon, <1>3, Pieces
  <2> QED
    BY <2>1
<1>12. CASE pos + 2 > Len(buf) /\ Nothing /\ UNCHANGED <<buf, pos, parser>>
  <2>1. y \in Int /\ y > Arrived
    BY <1>6, <1>12
  <2> HIDE DEF y
  <2>2. rest # <<>>
    BY Zenon, <1>1, <1>9, <2>1, MoreToCome
  <2> QED
    BY Zenon, <1>1, <1>12, <2>2, NothingTracks
<1>13. CASE /\ pos + 2 <= Len(buf) /\ <<buf[pos + 1], buf[pos + 2]>> # <<CR, LF>>
            /\ reset_and_resync(pos)
  <2>1. says[k] = Error /\ Here <= sent.start[k + 1]
    BY Zenon, <1>9, <1>10, <1>13
  <2>2. Off + pos <= sent.start[k + 1] /\ sent.start[k] < Off + pos
    BY Zenon, <1>4, <1>6, <2>1
  <2> QED
    BY Zenon, <1>1, <1>3, <1>4, <1>6, <1>13, <2>1, <2>2, ResyncTracks DEF reset_and_resync
<1>14. ASSUME pos + 2 <= Len(buf), <<buf[pos + 1], buf[pos + 2]>> = <<CR, LF>>
       PROVE  argi + 2 <= Len(at) /\ at[argi + 2] = y
  <2>1. buf[pos + 1] = CR /\ buf[pos + 2] = LF
    BY <1>14
  <2>2. b[Here + 1] = CR /\ b[y] = LF
    BY Zenon, <1>10, <1>14, <2>1
  <2> QED
    BY Zenon, <1>9, <2>2
<1>15. CASE /\ pos + 2 <= Len(buf) /\ <<buf[pos + 1], buf[pos + 2]>> = <<CR, LF>>
            /\ argi' = argi + 1 /\ UNCHANGED <<cmd_start, argc, bulk_len, slices>>
            /\ argi' = argc /\ st' = "need_star" /\ ConsumeTo(pos + 2) /\ Return(Argv(pos + 2))
  <2>1. argi + 2 <= Len(at) /\ at[argi + 2] = y /\ argc = argi + 1
    BY Zenon, <1>14, <1>15
  <2>2. /\ says[k] # Error /\ Len(at) = argc + 1 /\ Len(says[k]) = argc
        /\ at[Len(at)] = sent.start[k + 1]
    <3>1. /\ says[k] = Error => Len(at) <= argc
          /\ says[k] # Error => /\ Len(at) = argc + 1 /\ Len(says[k]) = argc
                                /\ at[Len(at)] = sent.start[k + 1]
      BY Zenon, <1>4 DEF Layout
    <3>2. ~(Len(at) <= argc)
      <4>1. Len(at) \in Nat
        OBVIOUS
      <4> QED
        BY <1>7, <2>1, <4>1
    <3> QED
      BY Zenon, <3>1, <3>2
  <2>3. y = sent.start[k + 1]
    <3>1. argc + 1 = argi + 2
      BY <1>7, <2>1
    <3> QED
      BY Zenon, <2>1, <2>2, <3>1
  <2>4. says[k] \in Args
    <3>1. says[k] \in Args \cup {Error}
      BY <1>11
    <3> QED
      BY Zenon, <2>2, <3>1
  <2>5. Len(slices) = argc
    BY Zenon, <1>1, <1>4, <2>1 DEF SlicesTrue
  <2>6. out' = Append(out, says[k]) /\ loop' = "call"
    <3>1. Argv(pos + 2) = says[k]
      BY Zenon, <1>1, <1>4, <1>15, <2>2, <2>4, <2>5, ArgvTrue
    <3> QED
      BY Zenon, <1>15, <3>1 DEF Return
  <2>7. Said(out', says, k)
    <3>1. k - 1 \in Nat /\ k - 1 < Len(says) /\ (k - 1) + 1 = k
      BY <1>11
    <3>2. out \in Seq(Args \cup {Error})
      BY Zenon, StateTypes
    <3>3. Said(Append(out, says[(k - 1) + 1]), says, (k - 1) + 1)
      BY Zenon, <1>4, <1>11, <3>1, <3>2, SaidNext
    <3> QED
      BY Zenon, <2>6, <3>1, <3>3
  <2>8. Here' = sent.start[k + 1]
    <3>1. pos + 2 \in 0..Len(buf) /\ Off + (pos + 2) = y
      BY <1>6, <1>15
    <3>2. Here' = Off + (pos + 2)
      BY Zenon, <1>1, <1>15, <3>1, ConsumeStream
    <3> QED
      BY Zenon, <2>3, <3>1, <3>2
  <2>9. BetweenPieces(k)'
    <3>1. sent.start[k + 1] <= sent.start[k + 1]
      <4>1. sent.start[k + 1] \in Nat
        BY Zenon, <1>3, PieceFacts
      <4> QED
        BY <4>1
    <3> QED
      BY Zenon, <1>1, <2>8, <3>1 DEF BetweenPieces
  <2>10. Idle'
    BY <2>6 DEF Idle
  <2>11. k \in 0..Len(says) /\ st' = "need_star"
    BY <1>11, <1>15
  <2> QED
    BY Zenon, <1>1, <1>2, <2>7, <2>9, <2>10, <2>11, BetweenTracks
<1>16. CASE /\ pos + 2 <= Len(buf) /\ <<buf[pos + 1], buf[pos + 2]>> = <<CR, LF>>
            /\ argi' = argi + 1 /\ UNCHANGED <<cmd_start, argc, bulk_len, slices>>
            /\ st' = "need_dollar" /\ pos' = pos + 2 /\ Continue /\ UNCHANGED buf
  <2>1. /\ out' = out /\ loop' = "switch" /\ buf' = buf /\ cmd_start' = cmd_start /\ argc' = argc
        /\ argi' = argi + 1 /\ slices' = slices
        /\ st' # "need_star" /\ st' # "need_argc" /\ st' = "need_dollar"
        /\ st' # "need_bulk_data" /\ st' # "need_bulk_len" /\ st' # "need_bulk_crlf"
    BY <1>1, <1>16 DEF Continue
  <2>2. Off' = Off /\ Here' = y
    <3>1. Off' = Off /\ Here' = Off + pos'
      BY Zenon, <1>1, <2>1, Still
    <3>2. Off + (pos + 2) = y
      BY <1>6
    <3> QED
      BY Zenon, <1>16, <3>1, <3>2
  <2>3. InArgument(k, at)'
    <3>1. argi + 2 <= Len(at) /\ at[argi + 2] = y
      BY Zenon, <1>14, <1>16
    <3>2. argi' + 1 = argi + 2
      BY <1>7, <2>1
    <3>3. argi' + 1 <= Len(at) /\ Here' = at[argi' + 1]
      BY Zenon, <2>2, <3>1, <3>2
    <3> QED
      BY Zenon, <2>1, <3>3 DEF InArgument
  <2>4. SlicesTrue(k)'
    BY Zenon, <1>1, <1>4, <2>1, <2>2 DEF SlicesTrue
  <2>5. Layout(sent, k, argc, at)'
    BY Zenon, <1>1, <1>4, <2>1 DEF Layout
  <2>6. InPiece(k)'
    BY Zenon, <1>1, <1>4, <1>11, <2>1, <2>2, <2>3, <2>4, <2>5 DEF InPiece
  <2> QED
    BY Zenon, <1>1, <1>2, <1>4, <1>11, <2>1, <2>6, InPieceTracks
<1> QED
  BY Zenon, <1>12, <1>13, <1>15, <1>16 DEF NeedBulkCrlf

LEMMA TrackedInit == Init => Tracked
<1> SUFFICES ASSUME Init PROVE Tracked
  OBVIOUS
<1> DEFINE b == sent.bytes
<1>1. /\ sent \in Streams /\ rest = b /\ buf = <<>> /\ pos = 0 /\ st = "need_star"
      /\ loop = "read" /\ out = <<>>
  BY DEF Init
<1>2. b \in Seq(Byte) /\ Len(b) \in Nat
  BY <1>1, RespAssumption
<1>3. Arrived = 0 /\ Off = 0 /\ Here = 0
  <2>1. Len(b) - Len(b) = 0 /\ Len(<<>>) = 0 /\ 0 - 0 = 0 /\ 0 + 0 = 0
    BY <1>2
  <2>2. Arrived = 0
    BY Zenon, <1>1, <2>1 DEF Arrived
  <2>3. Off = 0
    BY Zenon, <1>1, <2>1, <2>2 DEF Off
  <2> QED
    BY Zenon, <1>1, <2>1, <2>2, <2>3 DEF Here
<1>4. Faithful
  <2>1. \A i \in 1..Len(rest) : rest[i] = b[Arrived + i]
    BY <1>1, <1>2, <1>3
  <2>2. Len(rest) + Len(buf) <= Len(b) /\ 1..Len(buf) = {}
    BY <1>1, <1>2
  <2> QED
    BY Zenon, <2>1, <2>2 DEF Faithful
<1>5. ASSUME ~sent.wide PROVE Said(out, sent.says, 0) /\ BetweenPieces(0) /\ 0 \in 0..Len(sent.says)
  <2>1. /\ sent.says \in Seq(Args \cup {Error}) /\ Len(sent.says) \in Nat /\ sent.start[1] = 0
    BY Zenon, <1>5, Pieces, RespInit
  <2>2. SubSeq(sent.says, 1, 0) = <<>>
    BY <2>1
  <2>3. Said(out, sent.says, 0)
    BY Zenon, <1>1, <2>2 DEF Said
  <2>4. sent.start[0 + 1] = 0 /\ 0 <= 0
    BY <2>1
  <2>5. BetweenPieces(0)
    BY Zenon, <1>3, <2>4 DEF BetweenPieces
  <2>6. 0 \in 0..Len(sent.says)
    BY <2>1
  <2> QED
    BY Zenon, <2>3, <2>5, <2>6
<1>6. Idle
  <2>1. rest = <<>> => Here = Len(b)
    BY <1>1, <1>2, <1>3
  <2> QED
    BY <1>1, <2>1 DEF Idle
<1> QED
  BY Zenon, <1>1, <1>4, <1>5, <1>6 DEF Tracked

LEMMA TrackedStep == IInv /\ Tracked /\ [Next]_vars => Tracked'
<1> SUFFICES ASSUME IInv, Tracked, [Next]_vars PROVE Tracked'
  OBVIOUS
<1>1. CASE Read \/ Eof \/ Call
  BY Zenon, <1>1, ReadTracks, LoopTracks
<1>2. CASE NeedStar \/ NeedArgc \/ NeedDollar
  BY Zenon, <1>2, NeedStarTracks, NeedArgcTracks, NeedDollarTracks
<1>3. CASE NeedBulkLen \/ NeedBulkData \/ NeedBulkCrlf
  BY Zenon, <1>3, NeedBulkLenTracks, NeedBulkDataTracks, NeedBulkCrlfTracks
<1>4. CASE UNCHANGED vars
  <2>1. /\ sent' = sent /\ rest' = rest /\ buf' = buf /\ pos' = pos /\ st' = st
        /\ cmd_start' = cmd_start /\ argc' = argc /\ argi' = argi /\ bulk_len' = bulk_len
        /\ slices' = slices /\ loop' = loop /\ out' = out
    BY <1>4 DEF vars, parser
  <2>2. Faithful' /\ Off' = Off /\ Here' = Here
    BY Zenon, <2>1, Still DEF Tracked, Here
  <2>3. ~sent.wide => Idle'
    BY Zenon, <2>1, <2>2 DEF Idle, Tracked
  <2> QED
    BY Zenon, <2>1, <2>2, <2>3, SameTrack
<1> QED
  BY Zenon, <1>1, <1>2, <1>3, <1>4 DEF Next, try_extract_request

\* However a connection's bytes are cut into chunks, try_extract_request and the
\* read loop extract from them every request, once, in order and byte for byte,
\* also behind malformed lines, and answer what is malformed with an error.
THEOREM RespStreamUnderstood == Spec => []StreamUnderstood
<1>1. Spec => [](IInv /\ Tracked)
  <2>1. Spec => []IInv
    BY RespInvariant
  <2>2. Init => Tracked
    BY TrackedInit
  <2>3. IInv /\ Tracked /\ [Next]_vars => Tracked'
    BY TrackedStep
  <2> QED
    BY <2>1, <2>2, <2>3, PTL DEF Spec
<1>2. IInv /\ Tracked => StreamUnderstood
  <2> SUFFICES ASSUME IInv, Tracked, ~sent.wide
               PROVE  /\ Len(Good(out)) <= Len(Good(sent.says))
                      /\ Good(out) = SubSeq(Good(sent.says), 1, Len(Good(out)))
                      /\ loop = "closed" => Collapse(out) = Collapse(sent.says)
    BY Zenon DEF StreamUnderstood
  <2> DEFINE says == sent.says
             n == Len(says)
  <2>1. PICK m \in 0..n : /\ Said(out, says, m)
                          /\ IF st = "need_star" THEN BetweenPieces(m) ELSE InPiece(m + 1)
    BY Zenon DEF Tracked
  <2>2. /\ says \in Seq(Args \cup {Error}) /\ n \in Nat
        /\ sent.start \in [1..(n + 1) -> 0..Len(sent.bytes)]
        /\ sent.start[n + 1] = Len(sent.bytes)
        /\ \A i, j \in 1..(n + 1) : i < j => sent.start[i] < sent.start[j]
    BY Zenon, Pieces
  <2>3. Good(out) = Good(SubSeq(says, 1, m)) /\ Collapse(out) = Collapse(SubSeq(says, 1, m))
    BY Zenon, <2>1 DEF Said
  <2>4. /\ Len(Good(out)) <= Len(Good(says))
        /\ Good(out) = SubSeq(Good(says), 1, Len(Good(out)))
    BY Zenon, <2>2, <2>3, GoodPrefix
  <2>5. ASSUME loop = "closed" PROVE Collapse(out) = Collapse(says)
    <3>1. st = "need_star" /\ Here = Len(sent.bytes)
      BY <2>5 DEF Tracked, Idle
    <3>2. Len(sent.bytes) <= sent.start[m + 1]
      BY Zenon, <2>1, <3>1 DEF BetweenPieces
    <3>3. m = n
      <4> SUFFICES ASSUME m # n PROVE FALSE
        OBVIOUS
      <4>1. m + 1 \in 1..(n + 1) /\ n + 1 \in 1..(n + 1) /\ m + 1 < n + 1
        BY <2>2
      <4>2. sent.start[m + 1] < Len(sent.bytes)
        BY Zenon, <2>2, <4>1
      <4>3. sent.start[m + 1] \in 0..Len(sent.bytes) /\ Len(sent.bytes) \in Nat
        BY Zenon, <2>2, <4>1, StateTypes
      <4> QED
        BY <3>2, <4>2, <4>3
    <3>4. SubSeq(says, 1, n) = says
      BY <2>2
    <3> QED
      BY Zenon, <2>3, <3>3, <3>4
  <2> QED
    BY Zenon, <2>4, <2>5
<1> QED
  BY <1>1, <1>2, PTL
=============================================================================
