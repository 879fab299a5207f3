-------------------------- MODULE RespStreamProofs --------------------------
(***************************************************************************)
(* What the RESP extractor keeps for every stream, every way of cutting it  *)
(* into chunks, every limit and every integer width: types, the soundness   *)
(* of the offsets kept across calls, and that results consume.  Then the    *)
(* invariant that relates the parser to the place in the stream where it    *)
(* is, with what RespStreamTrack needs of results in a row, of lines, of    *)
(* numbers and of the pieces of a stream.                                   *)
(***************************************************************************)
EXTENDS RespStream, SequenceTheorems, WellFoundedInduction, TLAPS

Args == Seq(Seq(Byte))
Slice == [off : Nat, len : Nat]

EndOf(s) == s.off + s.len

\* Where the bytes that no result has used up begin.
Base == IF st = "need_star" THEN pos ELSE cmd_start

\* The arguments found so far, and how far they reach: an argument's line break
\* separates it from the next one.
SlicesSound ==
    \A i \in DOMAIN slices :
        /\ IF st = "need_bulk_crlf" THEN EndOf(slices[i]) <= pos
                                    ELSE EndOf(slices[i]) < pos
        /\ slices[i].off > cmd_start /\ (i # 1 => slices[i].off > EndOf(slices[i - 1]))

IInv ==
    /\ sent \in Streams
    /\ TypeOK
    /\ slices \in Seq(Slice)
    /\ pos <= Len(buf)
    /\ st # "need_star" => cmd_start < pos /\ buf[cmd_start + 1] = Star
    /\ st \notin {"need_star", "need_argc"} => argi < argc /\ SlicesSound
    /\ Len(out) + Len(rest) + (Len(buf) - Base) <= Len(sent.bytes)

-----------------------------------------------------------------------------
(* Helpers.                                                                  *)

\* A nonempty set of numbers has a least element.
LEMMA LeastNat ==
    ASSUME NEW T, T \subseteq Nat, T # {}
    PROVE  \E x \in T : \A y \in T : x <= y
<1>1. PICK x \in T : \A y \in T : ~(<<y, x>> \in OpToRel(<, Nat))
  BY Zenon, NatLessThanWellFounded, WFMin
<1>2. ASSUME NEW y \in T PROVE x <= y
  <2>1. x \in Nat /\ y \in Nat
    OBVIOUS
  <2>2. <<y, x>> \notin OpToRel(<, Nat)
    BY Zenon, <1>1
  <2>3. ~(y < x)
    BY <2>1, <2>2 DEF OpToRel
  <2> QED
    BY <2>1, <2>3
<1> QED
  BY <1>2

\* std::string::find, and the end of the buffer where it finds nothing.
LEMMA FindFacts ==
    ASSUME NEW b \in Seq(Byte), NEW p \in 0..Len(b), NEW c
    PROVE  LET i == Find(b, p, c) IN
           /\ i \in p..Len(b) /\ (i = Len(b) \/ b[i + 1] = c)
           /\ \A j \in p..(i - 1) : b[j + 1] # c
<1> DEFINE T == {i \in p..Len(b) : i = Len(b) \/ b[i + 1] = c}
<1>1. Len(b) \in Nat /\ p \in Nat
  OBVIOUS
<1>2. T \subseteq Nat /\ Len(b) \in T
  BY <1>1
<1>3. PICK i \in T : \A y \in T : i <= y
  BY Zenon, <1>2, LeastNat
<1>4. ASSUME NEW j \in p..(i - 1) PROVE b[j + 1] # c
  <2>1. i \in p..Len(b)
    OBVIOUS
  <2>2. j \in p..Len(b) /\ ~(i <= j)
    BY <1>1, <2>1
  <2>3. j \notin T
    BY <1>3, <2>2
  <2> QED
    BY <2>2, <2>3
<1>5. \E k \in p..Len(b) : /\ k = Len(b) \/ b[k + 1] = c
                          /\ \A j \in p..(k - 1) : b[j + 1] # c
  BY <1>3, <1>4
<1> QED
  BY Zenon, <1>5 DEF Find

\* A part of a string is a string.
LEMMA SubSeqFacts ==
    ASSUME NEW S, NEW s \in Seq(S), NEW m \in Int, NEW n \in Int,
           m >= 1, n <= Len(s)
    PROVE  /\ SubSeq(s, m, n) \in Seq(S)
           /\ Len(SubSeq(s, m, n)) = IF m <= n THEN n - m + 1 ELSE 0
<1>1. \A i \in m..n : s[i] \in S
  BY ElementOfSeq
<1> QED
  BY <1>1, SubSeqProperties

\* Compacting drops consumed bytes only.
LEMMA CompactFacts ==
    ASSUME NEW b \in Seq(Byte), NEW p \in 0..Len(b)
    PROVE  LET c == compact_if_needed(b, p) IN
           /\ c.buf \in Seq(Byte) /\ c.pos \in 0..Len(c.buf)
           /\ Len(c.buf) - c.pos = Len(b) - p
<1>1. Len(b) \in Nat /\ p \in Nat
  OBVIOUS
<1>2. SubSeq(b, p + 1, Len(b)) \in Seq(Byte)
  BY <1>1, SubSeqFacts
<1>3. p < Len(b) => Len(SubSeq(b, p + 1, Len(b))) = Len(b) - p
  BY <1>1, SubSeqFacts
<1>4. <<>> \in Seq(Byte) /\ Len(<<>>) = 0
  OBVIOUS
<1> QED
  BY <1>1, <1>2, <1>3, <1>4 DEF compact_if_needed

\* ConsumeTo loses no byte that is still to be parsed.
LEMMA ConsumeFacts ==
    ASSUME NEW p \in 0..Len(buf), buf \in Seq(Byte), ConsumeTo(p)
    PROVE  /\ buf' \in Seq(Byte) /\ pos' \in 0..Len(buf')
           /\ Len(buf') - pos' = Len(buf) - p
<1> DEFINE c == compact_if_needed(buf, p)
<1>1. /\ c.buf \in Seq(Byte) /\ c.pos \in 0..Len(c.buf)
      /\ Len(c.buf) - c.pos = Len(buf) - p
  BY CompactFacts
<1>2. buf' = c.buf /\ pos' = c.pos
  BY DEF ConsumeTo
<1> HIDE DEF c
<1> QED
  BY <1>1, <1>2

\* What parse_int_crlf says of a number: it is an int64_t, and it is followed by
\* a line break that has arrived.
LEMMA ParseFacts ==
    ASSUME buf \in Seq(Byte), pos \in 0..Len(buf), parse_int_crlf.status = "ok"
    PROVE  /\ parse_int_crlf.values \subseteq Int
           /\ parse_int_crlf.next \in (pos + 1)..Len(buf)
<1> DEFINE nl   == Find(buf, pos, LF)
           line == SubSeq(buf, pos + 1, nl - 1)
           neg  == line # <<>> /\ line[1] = Minus
           num  == IF neg THEN Tail(line) ELSE line
<1>1. nl \in pos..Len(buf)
  BY FindFacts
<1>2. nl # Len(buf) /\ parse_int_crlf.next = nl + 1
      /\ parse_int_crlf.values = Int64(num, neg)
  BY Zenon DEF parse_int_crlf
<1>3. \A x, g : Int64(x, g) \subseteq Int
  BY RespAssumption DEF Int64
<1>4. parse_int_crlf.values \subseteq Int
  BY <1>2, <1>3
<1>5. nl + 1 \in (pos + 1)..Len(buf)
  <2> HIDE DEF nl
  <2> QED
    BY <1>1, <1>2
<1> QED
  BY Zenon, <1>2, <1>4, <1>5

\* Skipping a line consumes something.
LEMMA EndOfLineFacts ==
    ASSUME buf \in Seq(Byte), pos \in 0..Len(buf), pos < Len(buf)
    PROVE  EndOfLine \in (pos + 1)..Len(buf)
<1> DEFINE nl == Find(buf, pos, LF)
<1>1. nl \in pos..Len(buf)
  BY FindFacts
<1>2. EndOfLine = IF nl = Len(buf) THEN nl ELSE nl + 1
  BY DEF EndOfLine
<1> HIDE DEF nl
<1> QED
  BY <1>1, <1>2
-----------------------------------------------------------------------------
(* The invariant.                                                            *)

LEMMA RespInit == Init => IInv
<1> SUFFICES ASSUME Init PROVE IInv
  OBVIOUS
<1>1. sent \in Streams /\ sent.bytes \in Seq(Byte)
  BY RespAssumption DEF Init
<1>2. <<>> \in Seq(Byte) /\ <<>> \in Seq(Slice) /\ <<>> \in Seq(Args \cup {Error})
      /\ Len(<<>>) = 0
  OBVIOUS
<1>3. Len(sent.bytes) \in Nat
  BY <1>1
<1>4. TypeOK
  BY <1>1, <1>2, <1>3, RespAssumption DEF Init, TypeOK, Args
<1>5. Len(out) + Len(rest) + (Len(buf) - Base) <= Len(sent.bytes)
  BY <1>2, <1>3 DEF Init, Base
<1> QED
  BY <1>1, <1>2, <1>4, <1>5 DEF Init, IInv

\* A result: the parser starts over behind bytes that the result has used up.
LEMMA ResultKeeps ==
    ASSUME IInv, NEW p \in Base..Len(buf), p > Base, ConsumeTo(p),
           NEW r \in Args \cup {Error}, out' = Append(out, r),
           st' = "need_star", loop' = "call", UNCHANGED <<sent, rest>>,
           cmd_start' = cmd_start, argc' = argc, bulk_len' = bulk_len,
           argi' \in 0..argc, slices' = slices
    PROVE  IInv'
<1> USE DEF IInv
<1>1. /\ buf \in Seq(Byte) /\ Len(buf) \in Nat /\ pos \in Nat /\ cmd_start \in Nat
      /\ out \in Seq(Args \cup {Error})
  BY DEF TypeOK, Args
<1>2. p \in 0..Len(buf) /\ Base \in Nat
  BY <1>1 DEF Base
<1>3. /\ buf' \in Seq(Byte) /\ pos' \in 0..Len(buf')
      /\ Len(buf') - pos' = Len(buf) - p
  BY <1>1, <1>2, ConsumeFacts
<1>4. out' \in Seq(Args \cup {Error}) /\ Len(out') = Len(out) + 1 /\ Len(out) \in Nat
  BY <1>1, AppendProperties
<1>5. Len(rest) \in Nat /\ Len(sent.bytes) \in Nat
  BY RespAssumption DEF TypeOK
<1>6. Base' = pos'
  BY DEF Base
<1>7. Len(out') + Len(rest') + (Len(buf') - Base') <= Len(sent'.bytes)
  <2>1. Len(out) + Len(rest) + (Len(buf) - Base) <= Len(sent.bytes)
    OBVIOUS
  <2>2. p >= Base + 1
    BY <1>1, <1>2
  <2>3. Len(sent'.bytes) = Len(sent.bytes) /\ Len(rest') = Len(rest)
    OBVIOUS
  <2>4. Len(buf') - Base' = Len(buf) - p
    BY <1>3, <1>6
  <2> HIDE DEF IInv
  <2> QED
    BY <2>1, <2>2, <2>3, <2>4, <1>1, <1>2, <1>4, <1>5
<1>8. TypeOK'
  BY <1>3, <1>4 DEF TypeOK, Args
<1> QED
  BY <1>3, <1>7, <1>8

\* An error in the middle of a request.
LEMMA ResyncKeeps ==
    ASSUME IInv, st # "need_star", NEW p \in pos..Len(buf), reset_and_resync(p),
           UNCHANGED <<sent, rest>>
    PROVE  IInv'
<1> DEFINE q == Find(buf, p, Star)
<1>1. buf \in Seq(Byte) /\ pos \in Nat /\ cmd_start \in Nat /\ cmd_start < pos
      /\ Len(buf) \in Nat
  BY DEF IInv, TypeOK
<1>2. q \in p..Len(buf)
  BY <1>1, FindFacts
<1>3. Base = cmd_start
  BY DEF Base
<1> HIDE DEF q
<1>4. q \in Base..Len(buf) /\ q > Base
  BY <1>1, <1>2, <1>3
<1>5. /\ ConsumeTo(q) /\ out' = Append(out, Error) /\ st' = "need_star"
      /\ loop' = "call" /\ cmd_start' = cmd_start /\ argc' = argc
      /\ bulk_len' = bulk_len /\ argi' = argi /\ slices' = slices
  BY DEF reset_and_resync, Return, q
<1>6. argi' \in 0..argc
  BY <1>5 DEF IInv, TypeOK
<1> QED
  BY <1>4, <1>5, <1>6, ResultKeeps

\* The parser has nothing, and waits where it is.
LEMMA NothingKeeps ==
    ASSUME IInv, Nothing, UNCHANGED <<buf, pos, parser, sent, rest>>
    PROVE  IInv'
BY Zenon DEF IInv, Nothing, parser, TypeOK, SlicesSound, Base, EndOf
-----------------------------------------------------------------------------
(* Each step.                                                                *)

\* A chunk makes the buffer longer and changes nothing that is in it.
LEMMA ReadKeeps == ASSUME IInv, Read PROVE IInv'
<1>1. PICK n \in 1..Len(rest) : /\ buf' = buf \o SubSeq(rest, 1, n)
                               /\ rest' = SubSeq(rest, n + 1, Len(rest))
  BY Zenon DEF Read
<1>2. /\ buf \in Seq(Byte) /\ rest \in Seq(Byte) /\ Len(buf) \in Nat /\ Len(rest) \in Nat
      /\ pos \in Nat /\ cmd_start \in Nat /\ pos <= Len(buf) /\ n \in Nat /\ n <= Len(rest)
  BY DEF IInv, TypeOK
<1>3. /\ SubSeq(rest, 1, n) \in Seq(Byte) /\ Len(SubSeq(rest, 1, n)) = n
      /\ rest' \in Seq(Byte) /\ Len(rest') = Len(rest) - n
  <2>1. SubSeq(rest, 1, n) \in Seq(Byte) /\ Len(SubSeq(rest, 1, n)) = n
    BY <1>2, SubSeqFacts
  <2>2. /\ SubSeq(rest, n + 1, Len(rest)) \in Seq(Byte)
        /\ Len(SubSeq(rest, n + 1, Len(rest))) = IF n + 1 <= Len(rest) THEN Len(rest) - (n + 1) + 1 ELSE 0
    BY <1>2, SubSeqFacts
  <2> QED
    BY <1>1, <1>2, <2>1, <2>2
<1>4. /\ buf' \in Seq(Byte) /\ Len(buf') = Len(buf) + n
      /\ \A i \in 1..Len(buf) : buf'[i] = buf[i]
  BY <1>1, <1>2, <1>3, ConcatProperties
<1>5. /\ sent' = sent /\ pos' = pos /\ st' = st /\ cmd_start' = cmd_start /\ argc' = argc
      /\ argi' = argi /\ bulk_len' = bulk_len /\ slices' = slices /\ out' = out
      /\ loop' = "call"
  BY DEF Read, parser
<1>6. TypeOK'
  BY <1>2, <1>3, <1>4, <1>5, RespAssumption DEF IInv, TypeOK
<1>7. st # "need_star" => cmd_start' < pos' /\ buf'[cmd_start' + 1] = Star
  <2> SUFFICES ASSUME st # "need_star" PROVE cmd_start < pos /\ buf'[cmd_start + 1] = Star
    BY <1>5
  <2>1. cmd_start < pos /\ buf[cmd_start + 1] = Star
    BY DEF IInv
  <2>2. cmd_start + 1 \in 1..Len(buf)
    BY <1>2, <2>1
  <2> QED
    BY <1>4, <2>1, <2>2
<1>8. Len(out') + Len(rest') + (Len(buf') - Base') <= Len(sent'.bytes)
  <2>1. Base' = Base /\ Base \in Nat
    BY <1>2, <1>5 DEF Base
  <2>2. Len(out) \in Nat /\ Len(sent.bytes) \in Nat
    BY RespAssumption DEF IInv, TypeOK
  <2> QED
    <3>1. Len(out) + Len(rest) + (Len(buf) - Base) <= Len(sent.bytes)
      BY DEF IInv
    <3>2. /\ Len(rest') = Len(rest) - n /\ Len(buf') = Len(buf) + n
          /\ Len(out') = Len(out) /\ Len(sent'.bytes) = Len(sent.bytes)
      BY <1>3, <1>4, <1>5
    <3> QED
      BY <1>2, <2>1, <2>2, <3>1, <3>2
<1>9. st \notin {"need_star", "need_argc"} => SlicesSound'
  BY <1>5 DEF IInv, SlicesSound, EndOf
<1> QED
  BY <1>2, <1>4, <1>5, <1>6, <1>7, <1>8, <1>9 DEF IInv

LEMMA LoopKeeps == ASSUME IInv, Eof \/ Call PROVE IInv'
<1>1. /\ UNCHANGED <<sent, rest, buf, parser, out>> /\ pos' = pos
      /\ loop' \in {"closed", "switch"}
  BY DEF IInv, TypeOK, Eof, Call
<1> QED
  BY Zenon, <1>1 DEF IInv, parser, TypeOK, SlicesSound, Base, EndOf

LEMMA NeedStarKeeps == ASSUME IInv, NeedStar PROVE IInv'
<1>1. /\ st = "need_star" /\ buf \in Seq(Byte) /\ Len(buf) \in Nat /\ pos \in Nat
      /\ pos <= Len(buf) /\ Base = pos /\ UNCHANGED <<sent, rest>>
  BY DEF IInv, TypeOK, NeedStar, At, Base
<1>2. CASE pos >= Len(buf) /\ ConsumeTo(pos) /\ Nothing /\ UNCHANGED parser
  <2>1. /\ buf' \in Seq(Byte) /\ pos' \in 0..Len(buf')
        /\ Len(buf') - pos' = Len(buf) - pos
    BY <1>1, <1>2, ConsumeFacts
  <2>2. /\ st' = st /\ cmd_start' = cmd_start /\ argc' = argc /\ argi' = argi
        /\ bulk_len' = bulk_len /\ slices' = slices /\ out' = out /\ loop' = "read"
    BY <1>2 DEF parser, Nothing
  <2>3. TypeOK'
    BY <1>1, <2>1, <2>2 DEF IInv, TypeOK
  <2>4. Base' = pos'
    BY <1>1, <2>2 DEF Base
  <2>5. Len(out') + Len(rest') + (Len(buf') - Base') <= Len(sent'.bytes)
    <3>1. Len(buf') - Base' = Len(buf) - Base
      BY <1>1, <2>1, <2>4
    <3> QED
      BY <1>1, <2>2, <3>1 DEF IInv
  <2> QED
    BY <1>1, <2>1, <2>2, <2>3, <2>5 DEF IInv
<1>3. CASE pos < Len(buf) /\ ConsumeTo(EndOfLine) /\ Return(Error) /\ UNCHANGED parser
  <2> DEFINE p == EndOfLine
  <2>1. p \in (pos + 1)..Len(buf)
    BY <1>1, <1>3, EndOfLineFacts
  <2>2. /\ ConsumeTo(p) /\ out' = Append(out, Error) /\ st' = "need_star"
        /\ loop' = "call" /\ cmd_start' = cmd_start /\ argc' = argc
        /\ bulk_len' = bulk_len /\ argi' = argi /\ slices' = slices
    BY <1>1, <1>3 DEF parser, Return
  <2> HIDE DEF p
  <2>3. p \in Base..Len(buf) /\ p > Base
    BY <1>1, <2>1
  <2>4. argi' \in 0..argc
    BY <2>2 DEF IInv, TypeOK
  <2> QED
    BY <1>1, <2>2, <2>3, <2>4, ResultKeeps
<1>4. CASE /\ pos < Len(buf) /\ buf[pos + 1] = Star
           /\ cmd_start' = pos /\ pos' = pos + 1 /\ st' = "need_argc"
           /\ Continue /\ UNCHANGED <<buf, argc, argi, bulk_len, slices>>
  <2>1. TypeOK'
    BY <1>1, <1>4 DEF IInv, TypeOK, Continue
  <2>2. Base' = Base
    BY <1>1, <1>4 DEF Base
  <2> QED
    BY <1>1, <1>4, <2>1, <2>2 DEF IInv, Continue
<1> QED
  BY <1>2, <1>3, <1>4 DEF NeedStar
LEMMA NeedArgcKeeps == ASSUME IInv, NeedArgc PROVE IInv'
<1>1. /\ st = "need_argc" /\ buf \in Seq(Byte) /\ Len(buf) \in Nat /\ pos \in 0..Len(buf)
      /\ cmd_start \in Nat /\ cmd_start < pos /\ UNCHANGED <<sent, rest>>
  BY DEF IInv, TypeOK, NeedArgc, At
<1> DEFINE n == parse_int_crlf
<1>2. n.status = "ok" => n.values \subseteq Int /\ n.next \in (pos + 1)..Len(buf)
  BY <1>1, ParseFacts
<1>3. \/ Nothing /\ UNCHANGED <<buf, pos, parser>>
      \/ reset_and_resync(pos)
      \/ n.status = "ok" /\ reset_and_resync(n.next)
      \/ /\ n.status = "ok" /\ \E v \in n.values : ArgcOK(v) /\ argc' = v
         /\ pos' = n.next /\ argi' = 0 /\ slices' = <<>> /\ st' = "need_dollar"
         /\ Continue /\ UNCHANGED <<buf, cmd_start, bulk_len>>
  BY DEF NeedArgc
<1> HIDE DEF n
<1>4. CASE Nothing /\ UNCHANGED <<buf, pos, parser>>
  BY <1>1, <1>4, NothingKeeps
<1>5. CASE reset_and_resync(pos)
  BY <1>1, <1>5, ResyncKeeps
<1>6. CASE n.status = "ok" /\ reset_and_resync(n.next)
  BY <1>1, <1>2, <1>6, ResyncKeeps
<1>7. CASE /\ n.status = "ok" /\ \E v \in n.values : ArgcOK(v) /\ argc' = v
           /\ pos' = n.next /\ argi' = 0 /\ slices' = <<>> /\ st' = "need_dollar"
           /\ Continue /\ UNCHANGED <<buf, cmd_start, bulk_len>>
  <2>1. argc' \in 1..kMaxArgs /\ pos' \in (pos + 1)..Len(buf)
    BY <1>2, <1>7, RespAssumption DEF ArgcOK
  <2>2. slices' \in Seq(Slice) /\ SlicesSound'
    BY <1>7 DEF SlicesSound
  <2>3. TypeOK'
    BY <1>1, <1>7, <2>1 DEF IInv, TypeOK, Continue
  <2>4. Base' = Base
    BY <1>1, <1>7 DEF Base
  <2> QED
    BY <1>1, <1>7, <2>1, <2>2, <2>3, <2>4 DEF IInv, Continue
<1> QED
  BY <1>3, <1>4, <1>5, <1>6, <1>7

\* The parser moves on inside a request, over bytes that have arrived.
LEMMA AdvanceKeeps ==
    ASSUME IInv, st \in {"need_dollar", "need_bulk_len"},
           st' \in {"need_bulk_len", "need_bulk_data"},
           pos' \in (pos + 1)..Len(buf), bulk_len' \in 0..kMaxBulk, Continue,
           UNCHANGED <<buf, cmd_start, argc, argi, slices, sent, rest>>
    PROVE  IInv'
<1>1. Len(buf) \in Nat /\ pos \in Nat /\ cmd_start \in Nat
  BY DEF IInv, TypeOK
<1>2. TypeOK'
  BY <1>1 DEF IInv, TypeOK, Continue
<1>3. SlicesSound'
  <2> SUFFICES ASSUME NEW i \in DOMAIN slices
               PROVE  /\ EndOf(slices[i]) < pos'
                      /\ slices[i].off > cmd_start /\ (i # 1 => slices[i].off > EndOf(slices[i - 1]))
    BY DEF SlicesSound, EndOf
  <2>1. slices[i] \in Slice
    BY DEF IInv
  <2>2. EndOf(slices[i]) \in Nat
    BY <2>1 DEF Slice, EndOf
  <2>3. /\ EndOf(slices[i]) < pos
        /\ slices[i].off > cmd_start /\ (i # 1 => slices[i].off > EndOf(slices[i - 1]))
    BY DEF IInv, SlicesSound
  <2> QED
    BY <1>1, <2>2, <2>3
<1>4. Base' = Base
  BY DEF Base
<1> QED
  BY <1>1, <1>2, <1>3, <1>4 DEF IInv, Continue

LEMMA NeedDollarKeeps == ASSUME IInv, NeedDollar PROVE IInv'
<1>1. /\ st = "need_dollar" /\ Len(buf) \in Nat /\ pos \in 0..Len(buf)
      /\ bulk_len \in 0..kMaxBulk /\ UNCHANGED <<sent, rest>>
  BY DEF IInv, TypeOK, NeedDollar, At
<1>2. CASE Nothing /\ UNCHANGED <<buf, pos, parser>>
  BY <1>1, <1>2, NothingKeeps
<1>3. CASE reset_and_resync(pos)
  BY <1>1, <1>3, ResyncKeeps
<1>4. CASE /\ pos < Len(buf)
           /\ pos' = pos + 1 /\ st' = "need_bulk_len"
           /\ Continue /\ UNCHANGED <<buf, cmd_start, argc, argi, bulk_len, slices>>
  BY <1>1, <1>4, AdvanceKeeps
<1> QED
  BY <1>2, <1>3, <1>4 DEF NeedDollar

LEMMA NeedBulkLenKeeps == ASSUME IInv, NeedBulkLen PROVE IInv'
<1>1. /\ st = "need_bulk_len" /\ buf \in Seq(Byte) /\ Len(buf) \in Nat
      /\ pos \in 0..Len(buf) /\ UNCHANGED <<sent, rest>>
  BY DEF IInv, TypeOK, NeedBulkLen, At
<1> DEFINE n == parse_int_crlf
<1>2. n.status = "ok" => n.values \subseteq Int /\ n.next \in (pos + 1)..Len(buf)
  BY <1>1, ParseFacts
<1>3. \/ Nothing /\ UNCHANGED <<buf, pos, parser>>
      \/ reset_and_resync(pos)
      \/ n.status = "ok" /\ reset_and_resync(n.next)
      \/ /\ n.status = "ok" /\ \E v \in n.values : BulkOK(v) /\ bulk_len' = v
         /\ pos' = n.next /\ st' = "need_bulk_data"
         /\ Continue /\ UNCHANGED <<buf, cmd_start, argc, argi, slices>>
  BY DEF NeedBulkLen
<1> HIDE DEF n
<1>4. CASE Nothing /\ UNCHANGED <<buf, pos, parser>>
  BY <1>1, <1>4, NothingKeeps
<1>5. CASE reset_and_resync(pos)
  BY <1>1, <1>5, ResyncKeeps
<1>6. CASE n.status = "ok" /\ reset_and_resync(n.next)
  BY <1>1, <1>2, <1>6, ResyncKeeps
<1>7. CASE /\ n.status = "ok" /\ \E v \in n.values : BulkOK(v) /\ bulk_len' = v
           /\ pos' = n.next /\ st' = "need_bulk_data"
           /\ Continue /\ UNCHANGED <<buf, cmd_start, argc, argi, slices>>
  <2>1. bulk_len' \in 0..kMaxBulk /\ pos' \in (pos + 1)..Len(buf)
    BY <1>2, <1>7, RespAssumption DEF BulkOK
  <2> QED
    BY <1>1, <1>7, <2>1, AdvanceKeeps
<1> QED
  BY <1>3, <1>4, <1>5, <1>6, <1>7
\* The bytes of an argument have arrived: its slice ends where the parser is, and
\* begins behind the one before it.
LEMMA NeedBulkDataKeeps == ASSUME IInv, NeedBulkData PROVE IInv'
<1>1. /\ st = "need_bulk_data" /\ Len(buf) \in Nat /\ pos \in Nat /\ cmd_start \in Nat
      /\ bulk_len \in Nat /\ slices \in Seq(Slice) /\ cmd_start < pos
      /\ UNCHANGED <<sent, rest>>
  BY DEF IInv, TypeOK, NeedBulkData, At
<1>2. CASE Nothing /\ UNCHANGED <<buf, pos, parser>>
  BY <1>1, <1>2, NothingKeeps
<1>3. CASE /\ pos + bulk_len <= Len(buf)
           /\ slices' = Append(slices, [off |-> pos, len |-> bulk_len])
           /\ pos' = pos + bulk_len /\ st' = "need_bulk_crlf"
           /\ Continue /\ UNCHANGED <<buf, cmd_start, argc, argi, bulk_len>>
  <2> DEFINE e == [off |-> pos, len |-> bulk_len]
  <2>1. e \in Slice /\ EndOf(e) = pos' /\ e.off = pos
    BY <1>1, <1>3 DEF Slice, EndOf
  <2>2. slices' = Append(slices, e)
    BY <1>3
  <2> HIDE DEF e
  <2>3. /\ slices' \in Seq(Slice) /\ Len(slices') = Len(slices) + 1
        /\ \A i \in 1..Len(slices) : slices'[i] = slices[i]
        /\ slices'[Len(slices) + 1] = e /\ Len(slices) \in Nat
    BY <1>1, <2>1, <2>2, AppendProperties
  <2>4. \A i \in 1..Len(slices) :
            /\ slices[i] \in Slice /\ EndOf(slices[i]) \in Nat /\ EndOf(slices[i]) < pos
            /\ slices[i].off > cmd_start /\ (i # 1 => slices[i].off > EndOf(slices[i - 1]))
    <3> SUFFICES ASSUME NEW i \in 1..Len(slices)
                 PROVE  /\ slices[i] \in Slice /\ EndOf(slices[i]) \in Nat /\ EndOf(slices[i]) < pos
                        /\ slices[i].off > cmd_start /\ (i # 1 => slices[i].off > EndOf(slices[i - 1]))
      OBVIOUS
    <3>1. slices[i] \in Slice /\ i \in DOMAIN slices
      BY <1>1
    <3>2. EndOf(slices[i]) \in Nat
      BY <3>1 DEF EndOf, Slice
    <3>3. SlicesSound /\ st # "need_bulk_crlf"
      BY <1>1 DEF IInv
    <3> QED
      BY <3>1, <3>2, <3>3 DEF SlicesSound
  <2>5. SlicesSound'
    <3> SUFFICES ASSUME NEW i \in 1..(Len(slices) + 1)
                 PROVE  /\ EndOf(slices'[i]) <= pos'
                        /\ slices'[i].off > cmd_start /\ (i # 1 => slices'[i].off > EndOf(slices'[i - 1]))
      BY <1>3, <2>3 DEF SlicesSound, EndOf
    <3>1. pos <= pos' /\ pos' \in Nat
      BY <1>1, <1>3
    <3>2. CASE i \in 1..Len(slices)
      <4>1. slices'[i] = slices[i]
        BY <2>3, <3>2
      <4>2. i # 1 => slices'[i - 1] = slices[i - 1]
        BY <2>3, <3>2
      <4> QED
        BY <1>1, <2>4, <3>1, <3>2, <4>1, <4>2
    <3>3. CASE i = Len(slices) + 1
      <4>1. slices'[i] = e
        BY <2>3, <3>3
      <4>2. i # 1 => i - 1 \in 1..Len(slices)
        BY <2>3, <3>3
      <4>3. i # 1 => slices'[i - 1] = slices[i - 1] /\ EndOf(slices[i - 1]) < pos
        BY <2>3, <2>4, <4>2
      <4> QED
        BY <1>1, <2>1, <3>1, <4>1, <4>3
    <3> QED
      BY <2>3, <3>2, <3>3
  <2>6. TypeOK'
    BY <1>1, <1>3 DEF IInv, TypeOK, Continue
  <2>7. Base' = Base
    BY <1>1, <1>3 DEF Base
  <2> QED
    BY <1>1, <1>3, <2>3, <2>5, <2>6, <2>7 DEF IInv, Continue
<1> QED
  BY <1>2, <1>3 DEF NeedBulkData

\* Every slice lies in the frame, so that every argument is a string of bytes.
LEMMA ArgvFacts ==
    ASSUME IInv, st = "need_bulk_crlf", pos + 2 <= Len(buf)
    PROVE  Argv(pos + 2) \in Args
<1>1. /\ buf \in Seq(Byte) /\ Len(buf) \in Nat /\ pos \in Nat /\ cmd_start \in Nat
      /\ slices \in Seq(Slice) /\ cmd_start < pos
  BY DEF IInv, TypeOK
<1> DEFINE frame == SubSeq(buf, cmd_start + 1, pos + 2)
<1>2. frame \in Seq(Byte) /\ Len(frame) = pos + 2 - cmd_start
  BY <1>1, SubSeqFacts
<1> HIDE DEF frame
<1>3. ASSUME NEW i \in 1..Len(slices)
      PROVE  LET off == slices[i].off - cmd_start
             IN  SubSeq(frame, off + 1, off + slices[i].len) \in Seq(Byte)
  <2>1. slices[i] \in Slice
    BY <1>1
  <2>2. slices[i].off \in Nat /\ slices[i].len \in Nat
    BY <2>1 DEF Slice
  <2>3. slices[i].off + slices[i].len <= pos
    BY <1>1 DEF IInv, SlicesSound, EndOf
  <2>4. slices[i].off > cmd_start
    BY <1>1 DEF IInv, SlicesSound
  <2>5. ASSUME NEW o \in Nat, NEW l \in Nat, o + l <= pos, o > cmd_start
        PROVE  SubSeq(frame, o - cmd_start + 1, o - cmd_start + l) \in Seq(Byte)
    <3>1. /\ o - cmd_start + 1 \in Int /\ o - cmd_start + l \in Int
          /\ o - cmd_start + 1 >= 1 /\ o - cmd_start + l <= pos + 2 - cmd_start
      BY <1>1, <2>5
    <3> QED
      BY <1>2, <3>1, SubSeqFacts
  <2> QED
    BY <2>2, <2>3, <2>4, <2>5
<1>4. Argv(pos + 2) = [i \in 1..Len(slices) |->
          LET off == slices[i].off - cmd_start
          IN  SubSeq(frame, off + 1, off + slices[i].len)]
  BY <1>1 DEF Argv, frame
<1>5. Len(slices) \in Nat
  BY <1>1
<1> DEFINE arg(i) == LET off == slices[i].off - cmd_start
                     IN  SubSeq(frame, off + 1, off + slices[i].len)
<1>6. \A i \in 1..Len(slices) : arg(i) \in Seq(Byte)
  BY <1>3
<1>7. Argv(pos + 2) = [i \in 1..Len(slices) |-> arg(i)]
  BY <1>4
<1> HIDE DEF arg
<1>8. [i \in 1..Len(slices) |-> arg(i)] \in [1..Len(slices) -> Seq(Byte)]
  BY <1>6
<1> QED
  BY <1>5, <1>7, <1>8, SeqDef DEF Args
\* The line break behind an argument: the next argument, or the request.
LEMMA NeedBulkCrlfKeeps == ASSUME IInv, NeedBulkCrlf PROVE IInv'
<1>1. /\ st = "need_bulk_crlf" /\ Len(buf) \in Nat /\ pos \in 0..Len(buf)
      /\ cmd_start \in Nat /\ cmd_start < pos /\ argi \in Nat /\ argc \in Nat
      /\ argi < argc /\ SlicesSound /\ slices \in Seq(Slice)
      /\ Base = cmd_start /\ UNCHANGED <<sent, rest>>
  BY RespAssumption DEF IInv, TypeOK, NeedBulkCrlf, At, Base
<1>2. CASE Nothing /\ UNCHANGED <<buf, pos, parser>>
  BY <1>1, <1>2, NothingKeeps
<1>3. CASE reset_and_resync(pos)
  BY <1>1, <1>3, ResyncKeeps
<1>4. CASE /\ pos + 2 <= Len(buf) /\ argi' = argi + 1
           /\ UNCHANGED <<cmd_start, argc, bulk_len, slices>>
           /\ st' = "need_star" /\ ConsumeTo(pos + 2) /\ Return(Argv(pos + 2))
  <2> DEFINE p == pos + 2
             r == Argv(pos + 2)
  <2>1. r \in Args \cup {Error}
    BY <1>1, <1>4, ArgvFacts
  <2>2. p \in Base..Len(buf) /\ p > Base
    BY <1>1, <1>4
  <2>3. argi' \in 0..argc
    BY <1>1, <1>4
  <2>4. ConsumeTo(p) /\ out' = Append(out, r) /\ loop' = "call"
    BY <1>4 DEF Return
  <2> HIDE DEF p, r
  <2> QED
    BY <1>1, <1>4, <2>1, <2>2, <2>3, <2>4, ResultKeeps
<1>5. CASE /\ pos + 2 <= Len(buf) /\ argi' = argi + 1 /\ argi' # argc
           /\ UNCHANGED <<cmd_start, argc, bulk_len, slices>>
           /\ st' = "need_dollar" /\ pos' = pos + 2 /\ Continue /\ UNCHANGED buf
  <2>1. TypeOK'
    BY <1>1, <1>5 DEF IInv, TypeOK, Continue
  <2>2. SlicesSound'
    <3> SUFFICES ASSUME NEW i \in DOMAIN slices
                 PROVE  /\ EndOf(slices[i]) < pos'
                        /\ slices[i].off > cmd_start /\ (i # 1 => slices[i].off > EndOf(slices[i - 1]))
      BY <1>5 DEF SlicesSound, EndOf
    <3>1. slices[i] \in Slice
      BY <1>1
    <3>2. EndOf(slices[i]) \in Nat
      BY <3>1 DEF Slice, EndOf
    <3>3. /\ EndOf(slices[i]) <= pos
          /\ slices[i].off > cmd_start /\ (i # 1 => slices[i].off > EndOf(slices[i - 1]))
      BY <1>1 DEF SlicesSound
    <3> QED
      BY <1>1, <1>5, <3>2, <3>3
  <2>3. Base' = Base
    BY <1>1, <1>5 DEF Base
  <2>4. argi' < argc'
    BY <1>1, <1>5
  <2> QED
    BY <1>1, <1>5, <2>1, <2>2, <2>3, <2>4 DEF IInv, Continue
<1> QED
  BY <1>2, <1>3, <1>4, <1>5 DEF NeedBulkCrlf

LEMMA RespStep == IInv /\ [Next]_vars => IInv'
<1> SUFFICES ASSUME IInv, [Next]_vars PROVE IInv'
  OBVIOUS
<1>1. CASE Read
  BY <1>1, ReadKeeps
<1>2. CASE Eof \/ Call
  BY <1>2, LoopKeeps
<1>3. CASE NeedStar
  BY <1>3, NeedStarKeeps
<1>4. CASE NeedArgc
  BY <1>4, NeedArgcKeeps
<1>5. CASE NeedDollar
  BY <1>5, NeedDollarKeeps
<1>6. CASE NeedBulkLen
  BY <1>6, NeedBulkLenKeeps
<1>7. CASE NeedBulkData
  BY <1>7, NeedBulkDataKeeps
<1>8. CASE NeedBulkCrlf
  BY <1>8, NeedBulkCrlfKeeps
<1>9. CASE UNCHANGED vars
  BY Zenon, <1>9 DEF vars, IInv, parser, TypeOK, SlicesSound, Base, EndOf
<1> QED
  BY <1>1, <1>2, <1>3, <1>4, <1>5, <1>6, <1>7, <1>8, <1>9 DEF Next, try_extract_request

LEMMA RespInvariant == Spec => []IInv
  BY RespInit, RespStep, PTL DEF Spec

\* try_extract_request hands on nothing but strings of bytes and errors, and
\* keeps argc and the bulk length within kMaxArgs and kMaxBulk, whatever number
\* overflowed.
THEOREM RespTypes == Spec => []TypeOK
<1>1. IInv => TypeOK
  BY DEF IInv
<1> QED
  BY <1>1, RespInvariant, PTL

\* The offsets that the processor keeps from one chunk to the next stay good, for
\* every chunking and every compaction of the buffer.
THEOREM RespOffsetsSound == Spec => []OffsetsSound
<1>1. ASSUME IInv PROVE OffsetsSound
  <2>1. pos \in 0..Len(buf) /\ pos \in Nat /\ slices \in Seq(Slice)
    BY <1>1 DEF IInv, TypeOK
  <2>2. ASSUME st \notin {"need_star", "need_argc"}, NEW i \in DOMAIN slices
        PROVE  /\ slices[i].off + slices[i].len <= pos
               /\ slices[i].off > IF i = 1 THEN cmd_start
                                  ELSE slices[i - 1].off + slices[i - 1].len
    <3>1. slices[i] \in Slice
      BY <2>1
    <3>2. EndOf(slices[i]) \in Nat
      BY <3>1 DEF Slice, EndOf
    <3>3. SlicesSound
      BY <1>1, <2>2 DEF IInv
    <3>4. EndOf(slices[i]) <= pos
      BY <2>1, <3>2, <3>3 DEF SlicesSound
    <3>5. slices[i].off > IF i = 1 THEN cmd_start ELSE EndOf(slices[i - 1])
      BY <3>3 DEF SlicesSound
    <3> QED
      BY <3>4, <3>5 DEF EndOf
  <2> QED
    BY <1>1, <2>1, <2>2 DEF IInv, OffsetsSound
<1> QED
  BY <1>1, RespInvariant, PTL

\* No result is produced twice from the same bytes: the loop that calls the
\* processor until it has nothing ends for every buffer.
THEOREM RespResultsConsume == Spec => []ResultsConsume
<1>1. ASSUME IInv PROVE ResultsConsume
  <2>1. /\ Len(out) \in Nat /\ Len(rest) \in Nat /\ Len(buf) \in Nat
        /\ Len(sent.bytes) \in Nat /\ pos \in Nat /\ cmd_start \in Nat
    BY <1>1, RespAssumption DEF IInv, TypeOK
  <2>2. Base <= pos /\ Base \in Nat
    BY <1>1, <2>1 DEF IInv, Base
  <2>3. Len(out) + Len(rest) + (Len(buf) - Base) <= Len(sent.bytes)
    BY <1>1 DEF IInv
  <2> QED
    BY <2>1, <2>2, <2>3 DEF ResultsConsume
<1> QED
  BY <1>1, RespInvariant, PTL

-----------------------------------------------------------------------------
(* Good and Collapse, one element at a time.                                 *)

\* The recursion of Without, up to n.
WithoutRec(s, drop, n, w) ==
    w = [i \in 0..n |->
            IF i = 0 THEN <<>> ELSE IF i \in drop THEN w[i - 1] ELSE Append(w[i - 1], s[i])]

EndsInError(s) == s # <<>> /\ s[Len(s)] = Error

\* The recursion has a solution: if it had none for some length, there would be a
\* first one.
LEMMA WithoutExists ==
    ASSUME NEW s, NEW drop, NEW n \in Nat
    PROVE  \E w : WithoutRec(s, drop, n, w)
<1> DEFINE T == {k \in Nat : ~\E w : WithoutRec(s, drop, k, w)}
<1> SUFFICES ASSUME T # {} PROVE FALSE
  OBVIOUS
<1>1. PICK k \in T : \A y \in T : k <= y
  <2>1. T \subseteq Nat
    OBVIOUS
  <2> HIDE DEF T
  <2> QED
    BY Zenon, <2>1, LeastNat
<1>2. CASE k = 0
  <2> DEFINE w == [i \in 0..0 |-> <<>>]
  <2>1. WithoutRec(s, drop, 0, w)
    BY DEF WithoutRec
  <2> QED
    BY <1>2, <2>1
<1>3. CASE k # 0
  <2>1. k - 1 \in Nat /\ k - 1 \notin T
    BY <1>1, <1>3
  <2>2. PICK w : WithoutRec(s, drop, k - 1, w)
    BY <2>1
  <2> DEFINE last == IF k \in drop THEN w[k - 1] ELSE Append(w[k - 1], s[k])
             h == [i \in 0..k |-> IF i = k THEN last ELSE w[i]]
  <2>3. \A i \in 0..(k - 1) : h[i] = w[i]
    OBVIOUS
  <2>4. \A i \in 0..(k - 1) : w[i] =
            IF i = 0 THEN <<>> ELSE IF i \in drop THEN w[i - 1] ELSE Append(w[i - 1], s[i])
    BY Zenon, <2>2 DEF WithoutRec
  <2>5. h[k] = last
    OBVIOUS
  <2> HIDE DEF last
  <2>6. \A i \in 0..k : h[i] =
            IF i = 0 THEN <<>> ELSE IF i \in drop THEN h[i - 1] ELSE Append(h[i - 1], s[i])
    <3> SUFFICES ASSUME NEW i \in 0..k
                 PROVE  h[i] = IF i = 0 THEN <<>>
                               ELSE IF i \in drop THEN h[i - 1] ELSE Append(h[i - 1], s[i])
      OBVIOUS
    <3>1. CASE i = k
      <4>1. h[i - 1] = w[k - 1]
        BY <2>1, <2>3, <3>1
      <4> HIDE DEF h
      <4> QED
        BY Zenon, <1>3, <2>5, <3>1, <4>1 DEF last
    <3>2. CASE i # k
      <4>1. i \in 0..(k - 1)
        BY <3>2
      <4>2. i # 0 => i - 1 \in 0..(k - 1)
        BY <3>2
      <4> HIDE DEF h
      <4> QED
        BY Zenon, <2>3, <2>4, <4>1, <4>2
    <3> QED
      BY <3>1, <3>2
  <2>7. h = [i \in 0..k |-> h[i]]
    OBVIOUS
  <2> HIDE DEF h
  <2>8. WithoutRec(s, drop, k, h)
    BY Zenon, <2>6, <2>7 DEF WithoutRec
  <2> QED
    BY <2>8
<1> QED
  BY <1>2, <1>3

\* Two solutions agree as far as the sequences and the positions dropped do.
LEMMA WithoutAgree ==
    ASSUME NEW n \in Nat, NEW p \in Nat, NEW q \in Nat, n <= p, n <= q,
           NEW s, NEW t, NEW drop, NEW leave,
           \A i \in 1..n : s[i] = t[i] /\ (i \in drop <=> i \in leave),
           NEW w, WithoutRec(s, drop, p, w), NEW v, WithoutRec(t, leave, q, v)
    PROVE  w[n] = v[n]
<1> DEFINE T == {k \in 0..n : w[k] # v[k]}
<1> SUFFICES ASSUME T # {} PROVE FALSE
  OBVIOUS
<1>1. PICK k \in T : \A y \in T : k <= y
  <2>1. T \subseteq Nat
    OBVIOUS
  <2> HIDE DEF T
  <2> QED
    BY Zenon, <2>1, LeastNat
<1>2. /\ k \in 0..p /\ k \in 0..q /\ (k = 0 \/ k \in 1..n)
  OBVIOUS
<1>3. /\ w[k] = IF k = 0 THEN <<>> ELSE IF k \in drop THEN w[k - 1] ELSE Append(w[k - 1], s[k])
      /\ v[k] = IF k = 0 THEN <<>> ELSE IF k \in leave THEN v[k - 1] ELSE Append(v[k - 1], t[k])
  BY Zenon, <1>2 DEF WithoutRec
<1>4. k # 0 => w[k - 1] = v[k - 1]
  <2> SUFFICES ASSUME k # 0 PROVE k - 1 \in 0..n /\ ~(k <= k - 1)
    BY <1>1
  <2> QED
    BY <1>2
<1>5. CASE k = 0
  BY Zenon, <1>3, <1>5
<1>6. CASE k # 0
  <2>1. s[k] = t[k] /\ (k \in drop <=> k \in leave)
    BY <1>2, <1>6
  <2>2. w[k] = v[k]
    BY Zenon, <1>3, <1>4, <1>6, <2>1
  <2> QED
    BY <2>2
<1> QED
  BY <1>5, <1>6

\* What Without is when an element is appended.
LEMMA WithoutAppend ==
    ASSUME NEW S, NEW s \in Seq(S), NEW x \in S, NEW drop, NEW leave,
           \A i \in 1..Len(s) : i \in drop <=> i \in leave
    PROVE  Without(Append(s, x), leave) =
               IF Len(s) + 1 \in leave THEN Without(s, drop) ELSE Append(Without(s, drop), x)
<1> DEFINE n == Len(s)
           t == Append(s, x)
           w == CHOOSE f : WithoutRec(s, drop, n, f)
           v == CHOOSE f : WithoutRec(t, leave, n + 1, f)
<1>1. n \in Nat /\ Len(t) = n + 1 /\ t[n + 1] = x /\ \A i \in 1..n : s[i] = t[i]
  BY AppendProperties
<1>2. Without(s, drop) = w[n] /\ Without(t, leave) = v[Len(t)]
  BY Zenon, <1>1 DEF Without, WithoutRec
<1> HIDE DEF n, t
<1>3. WithoutRec(s, drop, n, w) /\ WithoutRec(t, leave, n + 1, v)
  <2>1. (\E f : WithoutRec(s, drop, n, f)) /\ (\E f : WithoutRec(t, leave, n + 1, f))
    <3>1. n + 1 \in Nat
      BY <1>1
    <3> QED
      BY Zenon, <1>1, <3>1, WithoutExists
  <2> QED
    BY Zenon, <2>1
<1> HIDE DEF w, v
<1>4. v[n] = w[n]
  <2>1. \A i \in 1..n : s[i] = t[i] /\ (i \in drop <=> i \in leave)
    BY <1>1 DEF n
  <2>2. n + 1 \in Nat /\ n <= n + 1 /\ n <= n
    BY <1>1
  <2> QED
    BY <1>1, <1>3, <2>1, <2>2, WithoutAgree
<1>5. v[n + 1] = IF n + 1 \in leave THEN v[n] ELSE Append(v[n], t[n + 1])
  <2>1. n + 1 \in 0..(n + 1) /\ n + 1 # 0 /\ (n + 1) - 1 = n
    BY <1>1
  <2>2. v[n + 1] = IF n + 1 = 0 THEN <<>> ELSE IF n + 1 \in leave THEN v[(n + 1) - 1]
                   ELSE Append(v[(n + 1) - 1], t[n + 1])
    BY Zenon, <1>3, <2>1 DEF WithoutRec
  <2> QED
    BY Zenon, <2>1, <2>2
<1> QED
  BY Zenon, <1>1, <1>2, <1>4, <1>5 DEF n, t

LEMMA GoodAppend ==
    ASSUME NEW S, NEW s \in Seq(S), NEW x \in S
    PROVE  Good(Append(s, x)) = IF x = Error THEN Good(s) ELSE Append(Good(s), x)
<1> DEFINE drop == {i \in 1..Len(s) : s[i] = Error}
           leave == {i \in 1..Len(Append(s, x)) : Append(s, x)[i] = Error}
<1>1. /\ Len(s) \in Nat /\ Len(Append(s, x)) = Len(s) + 1 /\ Append(s, x)[Len(s) + 1] = x
      /\ \A i \in 1..Len(s) : Append(s, x)[i] = s[i]
  BY AppendProperties
<1>2. \A i \in 1..Len(s) : i \in drop <=> i \in leave
  BY <1>1
<1>3. Len(s) + 1 \in leave <=> x = Error
  BY <1>1
<1> HIDE DEF drop, leave
<1>4. Without(Append(s, x), leave) =
          IF Len(s) + 1 \in leave THEN Without(s, drop) ELSE Append(Without(s, drop), x)
  BY <1>2, WithoutAppend
<1>5. Good(s) = Without(s, drop) /\ Good(Append(s, x)) = Without(Append(s, x), leave)
  BY Zenon DEF Good, drop, leave
<1> QED
  BY Zenon, <1>3, <1>4, <1>5

LEMMA CollapseAppend ==
    ASSUME NEW S, NEW s \in Seq(S), NEW x \in S
    PROVE  Collapse(Append(s, x)) =
               IF x = Error /\ EndsInError(s) THEN Collapse(s) ELSE Append(Collapse(s), x)
<1> DEFINE t == Append(s, x)
           drop == {i \in 2..Len(s) : s[i] = Error /\ s[i - 1] = Error}
           leave == {i \in 2..Len(t) : t[i] = Error /\ t[i - 1] = Error}
<1>1. /\ Len(s) \in Nat /\ Len(t) = Len(s) + 1 /\ t[Len(s) + 1] = x
      /\ \A i \in 1..Len(s) : t[i] = s[i]
  BY AppendProperties
<1> HIDE DEF t
<1>2. ASSUME NEW i \in 1..Len(s) PROVE i \in drop <=> i \in leave
  <2>1. i # 1 => i - 1 \in 1..Len(s)
    BY <1>1
  <2> QED
    BY <1>1, <2>1
<1>3. Len(s) + 1 \in leave <=> x = Error /\ EndsInError(s)
  <2>1. CASE s = <<>>
    BY <1>1, <2>1 DEF EndsInError
  <2>2. CASE s # <<>>
    <3>1. Len(s) + 1 \in 2..Len(t) /\ (Len(s) + 1) - 1 = Len(s) /\ Len(s) \in 1..Len(s)
      BY <1>1, <2>2, EmptySeq
    <3>2. t[Len(s)] = s[Len(s)]
      BY <1>1, <3>1
    <3> QED
      BY Zenon, <1>1, <2>2, <3>1, <3>2 DEF EndsInError
  <2> QED
    BY <2>1, <2>2
<1> HIDE DEF drop, leave
<1>4. Without(Append(s, x), leave) =
          IF Len(s) + 1 \in leave THEN Without(s, drop) ELSE Append(Without(s, drop), x)
  BY <1>2, WithoutAppend
<1>5. Collapse(s) = Without(s, drop) /\ Collapse(t) = Without(t, leave)
  BY Zenon DEF Collapse, drop, leave
<1> QED
  BY Zenon, <1>3, <1>4, <1>5 DEF t

-----------------------------------------------------------------------------
(* Lines and numbers.                                                        *)

LineAt(b, p, q) ==
    p < q /\ q <= Len(b) /\ b[q] = LF /\ \A i \in (p + 1)..(q - 1) : b[i] # LF

\* Find is the only offset that is as it should be.
LEMMA FindIs ==
    ASSUME NEW b \in Seq(Byte), NEW p \in 0..Len(b), NEW c, NEW i \in p..Len(b),
           i = Len(b) \/ b[i + 1] = c, \A j \in p..(i - 1) : b[j + 1] # c
    PROVE  Find(b, p, c) = i
<1> DEFINE f == Find(b, p, c)
<1>1. /\ f \in p..Len(b) /\ (f = Len(b) \/ b[f + 1] = c)
      /\ \A j \in p..(f - 1) : b[j + 1] # c
  BY FindFacts
<1>2. Len(b) \in Nat /\ p \in Nat
  OBVIOUS
<1> HIDE DEF f
<1>3. ~(f < i)
  <2> SUFFICES ASSUME f < i PROVE FALSE
    OBVIOUS
  <2>1. f \in p..(i - 1) /\ f # Len(b)
    BY <1>1, <1>2
  <2> QED
    BY <1>1, <2>1
<1>4. ~(i < f)
  <2> SUFFICES ASSUME i < f PROVE FALSE
    OBVIOUS
  <2>1. i \in p..(f - 1) /\ i # Len(b)
    BY <1>1, <1>2
  <2> QED
    BY <1>1, <2>1
<1>5. f = i
  BY <1>1, <1>2, <1>3, <1>4
<1> QED
  BY <1>5 DEF f

\* The elements of a part of a string.
LEMMA SubSeqElements ==
    ASSUME NEW S, NEW s \in Seq(S), NEW m \in Int, NEW n \in Int, m >= 1, n <= Len(s)
    PROVE  \A i \in 1..(n - m + 1) : SubSeq(s, m, n)[i] = s[m + i - 1]
<1>1. \A i \in m..n : s[i] \in S
  BY ElementOfSeq
<1> QED
  BY <1>1, SubSeqProperties

\* Two strings that agree, one d places further on than the other, have equal parts.
LEMMA SamePart ==
    ASSUME NEW S, NEW s \in Seq(S), NEW t \in Seq(S),
           NEW m \in Int, NEW n \in Int, NEW d \in Int,
           m >= 1, n <= Len(s), m + d >= 1, n + d <= Len(t),
           \A i \in m..n : s[i] = t[i + d]
    PROVE  SubSeq(s, m, n) = SubSeq(t, m + d, n + d)
<1> DEFINE u == SubSeq(s, m, n)
           v == SubSeq(t, m + d, n + d)
<1>1. /\ u \in Seq(S) /\ Len(u) = IF m <= n THEN n - m + 1 ELSE 0
      /\ \A i \in 1..(n - m + 1) : u[i] = s[m + i - 1]
  BY SubSeqFacts, SubSeqElements
<1>2. m + d \in Int /\ n + d \in Int
  OBVIOUS
<1>3. /\ v \in Seq(S) /\ Len(v) = IF m + d <= n + d THEN (n + d) - (m + d) + 1 ELSE 0
      /\ \A i \in 1..((n + d) - (m + d) + 1) : v[i] = t[(m + d) + i - 1]
  BY <1>2, SubSeqFacts, SubSeqElements
<1> HIDE DEF u, v
<1>4. Len(u) = Len(v)
  BY <1>1, <1>3
<1>5. ASSUME NEW i \in 1..Len(u) PROVE u[i] = v[i]
  <2>1. m <= n /\ i \in 1..(n - m + 1) /\ i \in 1..((n + d) - (m + d) + 1)
    BY <1>1
  <2>2. m + i - 1 \in m..n /\ (m + i - 1) + d = (m + d) + i - 1
    BY <2>1
  <2> QED
    BY <1>1, <1>3, <2>1, <2>2
<1>6. u = v
  BY Zenon, <1>1, <1>3, <1>4, <1>5, SeqEqual
<1> QED
  BY <1>6 DEF u, v

\* A number is a line, whose line break is the only one in it.
LEMMA NumberLine ==
    ASSUME NEW b \in Seq(Byte), NEW p \in Nat, NEW q \in Int, NEW n, NumberAt(b, p, q, n)
    PROVE  LineAt(b, p, q) /\ n \in -MaxInt..MaxInt
<1> DEFINE ds == Digits(b, p, q)
           m == IF b[p + 1] = Minus THEN p + 2 ELSE p + 1
<1>1. /\ p + 2 < q /\ q <= Len(b) /\ b[q - 1] = CR /\ b[q] = LF
      /\ \A i \in DOMAIN ds : ds[i] \in DOMAIN Digit
  BY DEF NumberAt, Numeral
<1>2. ds = SubSeq(b, m, q - 2) /\ m \in Int /\ q - 2 \in Int /\ m >= 1 /\ q - 2 <= Len(b)
  BY <1>1 DEF Digits
<1>3. CR # LF /\ LF \notin DOMAIN Digit /\ Minus # LF /\ MaxInt \in Nat
  BY RespAssumption, StreamAssumption
<1> HIDE DEF ds
<1>4. /\ ds \in Seq(Byte) /\ Len(ds) = IF m <= q - 2 THEN (q - 2) - m + 1 ELSE 0
      /\ \A i \in 1..((q - 2) - m + 1) : ds[i] = b[m + i - 1]
  <2> HIDE DEF m
  <2> DEFINE z == q - 2
  <2>1. z \in Int /\ ds = SubSeq(b, m, z) /\ m >= 1 /\ z <= Len(b) /\ m \in Int
    BY Zenon, <1>2
  <2> HIDE DEF z
  <2>2. /\ ds \in Seq(Byte) /\ Len(ds) = IF m <= z THEN z - m + 1 ELSE 0
        /\ \A i \in 1..(z - m + 1) : ds[i] = b[m + i - 1]
    <3>1. /\ SubSeq(b, m, z) \in Seq(Byte)
          /\ Len(SubSeq(b, m, z)) = IF m <= z THEN z - m + 1 ELSE 0
      BY <2>1, SubSeqFacts
    <3>2. \A i \in 1..(z - m + 1) : SubSeq(b, m, z)[i] = b[m + i - 1]
      BY <2>1, SubSeqElements
    <3> QED
      BY Zenon, <2>1, <3>1, <3>2
  <2> QED
    BY Zenon, <2>2 DEF z
<1>5. ASSUME NEW i \in (p + 1)..(q - 1) PROVE b[i] # LF
  <2>1. CASE i = q - 1
    BY <1>1, <1>3, <2>1
  <2>2. CASE i < m
    <3>1. b[p + 1] = Minus /\ i = p + 1
      BY <2>2
    <3> QED
      BY <1>3, <3>1
  <2>3. CASE m <= i /\ i <= q - 2
    <3> HIDE DEF m
    <3>1. i - m + 1 \in 1..((q - 2) - m + 1) /\ m + (i - m + 1) - 1 = i /\ i - m + 1 \in 1..Len(ds)
      BY <1>2, <1>4, <2>3
    <3>2. ds[i - m + 1] = b[i] /\ i - m + 1 \in DOMAIN ds
      BY <1>4, <3>1
    <3> QED
      BY <1>1, <1>3, <3>2
  <2> HIDE DEF m
  <2> QED
    BY <1>2, <2>1, <2>2, <2>3
<1>6. n \in -MaxInt..MaxInt
  <2> DEFINE v == Value(Digits(b, p, q))
  <2>1. v \in 0..MaxInt /\ n = IF b[p + 1] = Minus THEN -v ELSE v
    BY Zenon DEF NumberAt
  <2> HIDE DEF v
  <2> QED
    BY <1>3, <2>1
<1>7. p < q
  BY <1>1
<1> QED
  BY Zenon, <1>1, <1>5, <1>6, <1>7 DEF LineAt

LEMMA LineUnique ==
    ASSUME NEW b \in Seq(Byte), NEW p \in Nat, NEW q \in Int, NEW e \in Int,
           LineAt(b, p, q), LineAt(b, p, e)
    PROVE  q = e
<1>1. /\ p < q /\ q <= Len(b) /\ b[q] = LF /\ p < e /\ e <= Len(b) /\ b[e] = LF
      /\ \A i \in (p + 1)..(q - 1) : b[i] # LF
      /\ \A i \in (p + 1)..(e - 1) : b[i] # LF
  BY DEF LineAt
<1>2. ~(q < e) /\ ~(e < q)
  BY <1>1
<1> QED
  BY <1>2

\* A line holds at most one number.
LEMMA NumberUnique ==
    ASSUME NEW b \in Seq(Byte), NEW p \in Nat, NEW q \in Int, NEW e \in Int, NEW n, NEW m,
           NumberAt(b, p, q, n), NumberAt(b, p, e, m)
    PROVE  q = e /\ n = m
<1>1. q = e
  BY NumberLine, LineUnique
<1> QED
  BY Zenon, <1>1 DEF NumberAt

-----------------------------------------------------------------------------
(* Where the parser is in the stream.                                        *)

Arrived == Len(sent.bytes) - Len(rest)

\* The offset in the stream of the buffer, and of the parser.
Off == Arrived - Len(buf)
Here == Off + pos

\* The buffer and what has not arrived are the parts of the stream they should be.
Faithful ==
    /\ Len(rest) + Len(buf) <= Len(sent.bytes)
    /\ \A i \in 1..Len(buf) : buf[i] = sent.bytes[Off + i]
    /\ \A i \in 1..Len(rest) : rest[i] = sent.bytes[Arrived + i]

\* What has been handed on, o, accounts for the first m pieces of what was said.
Said(o, says, m) ==
    LET before == SubSeq(says, 1, m) IN
    /\ Good(o) = Good(before) /\ Collapse(o) = Collapse(before)
    /\ EndsInError(o) <=> EndsInError(before)

\* Between two pieces, or in a malformed one for which there is an error already.
BetweenPieces(m) ==
    LET start == sent.start IN
    /\ Here <= start[m + 1]
    /\ Here = start[m + 1] \/ (m > 0 /\ start[m] < Here /\ sent.says[m] = Error)

\* The k-th piece announces n arguments, and at says where they are, up to the end
\* of the request or to where it breaks off.
Layout(s, k, n, at) ==
    LET b == s.bytes
        q == s.start[k + 1]
        l == Len(at)
    IN  /\ at \in Seq(0..Len(b)) /\ l \in 1..(n + 1) /\ FrameAt(b, s.start[k], n, at)
        /\ IF s.says[k] = Error THEN l <= n /\ at[l] <= q /\ BrokenAt(b, at[l], q)
           ELSE /\ l = n + 1 /\ at[l] = q /\ Len(s.says[k]) = n
                /\ \A i \in 1..n : \E d \in at[i]..at[i + 1] :
                       /\ ArgAt(b, at[i], d, at[i + 1])
                       /\ s.says[k][i] = SubSeq(b, d + 1, at[i + 1] - 2)

\* The parser is where at says that the next argument starts, or in it.
InArgument(k, at) ==
    LET b == sent.bytes
        x == at[argi + 1]
    IN  /\ argi + 1 <= Len(at)
        /\ st = "need_dollar" => Here = x
        /\ st # "need_dollar" => b[x + 1] = Dollar
        /\ st = "need_bulk_len" => Here = x + 1
        /\ st = "need_bulk_data" => NumberAt(b, x + 1, Here, bulk_len)
        /\ st = "need_bulk_crlf" => NumberAt(b, x + 1, Here - bulk_len, bulk_len)

\* The arguments found so far are the ones sent.
SlicesTrue(k) ==
    /\ Len(slices) = IF st = "need_bulk_crlf" THEN argi + 1 ELSE argi
    /\ sent.says[k] # Error =>
           \A j \in 1..Len(slices) :
               sent.says[k][j] = SubSeq(sent.bytes, Off + slices[j].off + 1,
                                        Off + slices[j].off + slices[j].len)

InPiece(k) ==
    /\ k <= Len(sent.says) /\ Off + cmd_start = sent.start[k]
    /\ IF st = "need_argc" THEN Here = sent.start[k] + 1
       ELSE /\ \E at \in Seq(0..Len(sent.bytes)) : Layout(sent, k, argc, at) /\ InArgument(k, at)
            /\ SlicesTrue(k)

\* When the read loop waits and nothing more comes, the stream has been parsed.
Idle ==
    /\ loop = "closed" => rest = <<>>
    /\ loop \in {"read", "closed"} /\ rest = <<>> =>
           st = "need_star" /\ Here = Len(sent.bytes)

Tracked ==
    /\ Faithful
    /\ ~sent.wide =>
           /\ \E m \in 0..Len(sent.says) :
                  Said(out, sent.says, m) /\ IF st = "need_star" THEN BetweenPieces(m) ELSE InPiece(m + 1)
           /\ Idle

-----------------------------------------------------------------------------
(* parse_int_crlf on the stream.                                             *)

\* The bytes of the buffer are bytes of the stream.
LEMMA BufIsStream ==
    ASSUME IInv, Faithful
    PROVE  /\ sent.bytes \in Seq(Byte) /\ Len(sent.bytes) \in Nat /\ Len(rest) \in Nat
           /\ buf \in Seq(Byte) /\ Len(buf) \in Nat /\ pos \in Nat /\ pos <= Len(buf)
           /\ Off \in Nat /\ Here \in Nat /\ Arrived \in Nat
           /\ Arrived = Off + Len(buf) /\ Arrived <= Len(sent.bytes)
           /\ Here = Off + pos /\ Here <= Arrived
           /\ \A i \in 1..Len(buf) : buf[i] = sent.bytes[Off + i]
<1>1. /\ sent.bytes \in Seq(Byte) /\ buf \in Seq(Byte) /\ rest \in Seq(Byte)
      /\ pos \in Nat /\ pos <= Len(buf)
  BY RespAssumption DEF IInv, TypeOK
<1>2. Len(sent.bytes) \in Nat /\ Len(rest) \in Nat /\ Len(buf) \in Nat
  BY <1>1
<1>3. /\ Len(rest) + Len(buf) <= Len(sent.bytes)
      /\ \A i \in 1..Len(buf) : buf[i] = sent.bytes[Off + i]
  BY DEF Faithful
<1>4. Arrived = Len(sent.bytes) - Len(rest) /\ Off = Arrived - Len(buf) /\ Here = Off + pos
  BY DEF Arrived, Off, Here
<1> QED
  BY <1>1, <1>2, <1>3, <1>4

LEMMA BufPart ==
    ASSUME IInv, Faithful, NEW m \in Int, NEW n \in Int, m >= 1, n <= Len(buf)
    PROVE  SubSeq(buf, m, n) = SubSeq(sent.bytes, Off + m, Off + n)
<1> DEFINE b == sent.bytes
<1>1. /\ b \in Seq(Byte) /\ buf \in Seq(Byte) /\ Off \in Nat
      /\ Len(b) \in Nat /\ Len(buf) \in Nat /\ Off + Len(buf) <= Len(b)
  BY BufIsStream
<1>2. \A i \in 1..Len(buf) : buf[i] = b[Off + i]
  BY BufIsStream
<1> HIDE DEF b
<1>3. Off \in Int /\ m + Off >= 1 /\ n + Off <= Len(b) /\ m + Off = Off + m /\ n + Off = Off + n
  BY <1>1
<1>4. ASSUME NEW i \in m..n PROVE buf[i] = b[i + Off]
  <2>1. i \in 1..Len(buf) /\ i + Off = Off + i
    BY <1>1
  <2> QED
    BY Zenon, <1>2, <2>1
<1>5. SubSeq(buf, m, n) = SubSeq(b, m + Off, n + Off)
  <2> HIDE DEF Off
  <2>1. ASSUME NEW d \in Int, d = Off PROVE SubSeq(buf, m, n) = SubSeq(b, m + d, n + d)
    BY <1>1, <1>3, <1>4, <2>1, SamePart
  <2> QED
    BY <1>3, <2>1
<1> QED
  BY Zenon, <1>3, <1>5 DEF b

\* Where a line break is that the parser looks for.
LEMMA FindLine ==
    ASSUME IInv, Faithful, NEW e \in Int, LineAt(sent.bytes, Here, e)
    PROVE  Find(buf, pos, LF) = IF e > Arrived THEN Len(buf) ELSE e - 1 - Off
<1> DEFINE b == sent.bytes
<1>1. /\ buf \in Seq(Byte) /\ Len(buf) \in Nat /\ pos \in 0..Len(buf) /\ Off \in Nat
      /\ Here = Off + pos /\ Arrived = Off + Len(buf)
      /\ \A i \in 1..Len(buf) : buf[i] = b[Off + i]
  BY BufIsStream
<1>2. Here < e /\ b[e] = LF /\ \A i \in (Here + 1)..(e - 1) : b[i] # LF
  BY DEF LineAt
<1>3. ASSUME NEW j \in pos..(Len(buf) - 1), j < e - 1 - Off PROVE buf[j + 1] # LF
  <2>1. j + 1 \in 1..Len(buf) /\ Off + (j + 1) \in (Here + 1)..(e - 1)
    BY <1>1, <1>3
  <2> QED
    BY Zenon, <1>1, <1>2, <2>1
<1>4. CASE e > Arrived
  <2>1. \A j \in pos..(Len(buf) - 1) : buf[j + 1] # LF
    BY <1>1, <1>3, <1>4
  <2>2. Len(buf) \in pos..Len(buf)
    BY <1>1
  <2> QED
    BY <1>1, <1>4, <2>1, <2>2, FindIs
<1>5. CASE ~(e > Arrived)
  <2> DEFINE i == e - 1 - Off
  <2>1. i \in pos..Len(buf) /\ i + 1 \in 1..Len(buf) /\ Off + (i + 1) = e
    BY <1>1, <1>2, <1>5
  <2>2. buf[i + 1] = LF
    BY <1>1, <1>2, <2>1
  <2>3. \A j \in pos..(i - 1) : buf[j + 1] # LF
    BY <1>1, <1>3, <2>1
  <2> HIDE DEF i
  <2>4. Find(buf, pos, LF) = i
    BY <1>1, <2>1, <2>2, <2>3, FindIs
  <2> QED
    BY <1>5, <2>4 DEF i
<1> QED
  BY <1>4, <1>5

\* What parse_int_crlf makes of a line: it waits for its end, and takes it for the
\* number it is.
LEMMA ParseLine ==
    ASSUME IInv, Faithful, NEW e \in Int, LineAt(sent.bytes, Here, e)
    PROVE  LET n == parse_int_crlf IN
           /\ n.status \in {"need_more", "invalid", "ok"}
           /\ n.status = "need_more" => e > Arrived
           /\ n.status = "invalid" => ~Numeral(sent.bytes, Here, e)
           /\ n.status = "ok" =>
                  /\ e <= Arrived /\ Off + n.next = e /\ Numeral(sent.bytes, Here, e)
                  /\ n.values = Int64(Digits(sent.bytes, Here, e), sent.bytes[Here + 1] = Minus)
<1> DEFINE b == sent.bytes
           nl   == Find(buf, pos, LF)
           line == SubSeq(buf, pos + 1, nl - 1)
           neg  == line # <<>> /\ line[1] = Minus
           num  == IF neg THEN Tail(line) ELSE line
           bad  == nl = pos \/ buf[nl] # CR \/ num = <<>>
                   \/ \E i \in DOMAIN num : num[i] \notin DOMAIN Digit
<1>1. parse_int_crlf = IF nl = Len(buf) THEN [status |-> "need_more"]
                       ELSE IF bad THEN [status |-> "invalid"]
                       ELSE [status |-> "ok", values |-> Int64(num, neg), next |-> nl + 1]
  BY Zenon DEF parse_int_crlf
<1>2. nl = IF e > Arrived THEN Len(buf) ELSE e - 1 - Off
  BY FindLine
<1>3. /\ b \in Seq(Byte) /\ buf \in Seq(Byte) /\ Len(buf) \in Nat /\ pos \in Nat
      /\ pos <= Len(buf) /\ Off \in Nat /\ Here = Off + pos /\ Arrived = Off + Len(buf)
      /\ Len(b) \in Nat /\ Arrived <= Len(b)
      /\ \A i \in 1..Len(buf) : buf[i] = b[Off + i]
  BY Zenon, BufIsStream
<1>4. Here < e /\ e <= Len(b) /\ b[e] = LF
  BY DEF LineAt
<1>5. /\ Len(buf) \in Nat /\ pos \in Nat /\ Off \in Nat /\ Here = Off + pos
      /\ Arrived = Off + Len(buf) /\ Len(b) \in Nat /\ Arrived <= Len(b)
      /\ Here < e /\ e <= Len(b)
  BY <1>3, <1>4
<1> HIDE DEF nl
<1>6. CASE nl = Len(buf)
  <2>1. e > Arrived
    BY <1>2, <1>5, <1>6
  <2> QED
    BY Zenon, <1>1, <1>6, <2>1
<1>7. CASE nl # Len(buf)
  <2>1. /\ e <= Arrived /\ nl = e - 1 - Off /\ nl \in pos..(Len(buf) - 1) /\ Off + (nl + 1) = e
    BY <1>2, <1>3, <1>4, <1>7
  <2>2. line \in Seq(Byte) /\ Len(line) = IF pos < nl - 1 THEN nl - 1 - pos ELSE 0
    BY <1>3, <2>1, SubSeqFacts
  <2>3. line = SubSeq(b, Here + 1, e - 2)
    <3>1. /\ pos + 1 \in Int /\ nl - 1 \in Int /\ pos + 1 >= 1 /\ nl - 1 <= Len(buf)
      BY <1>3, <2>1
    <3>2. SubSeq(buf, pos + 1, nl - 1) = SubSeq(b, Off + (pos + 1), Off + (nl - 1))
      BY Zenon, <3>1, BufPart
    <3>3. Off + (pos + 1) = Here + 1 /\ Off + (nl - 1) = e - 2
      BY <1>3, <2>1
    <3> QED
      BY Zenon, <3>2, <3>3
  <2> HIDE DEF b, line
  <2>4. CASE ~(Here + 2 < e)
    <3>1. nl = pos \/ line = <<>>
      <4>1. nl = pos \/ Len(line) = 0
        BY <1>5, <2>1, <2>2, <2>4
      <4> QED
        BY <2>2, <4>1, EmptySeq
    <3>2. bad
      BY Zenon, <3>1
    <3>3. ~Numeral(b, Here, e)
      BY Zenon, <2>4 DEF Numeral
    <3>4. parse_int_crlf = [status |-> "invalid"]
      BY Zenon, <1>1, <1>7, <3>2
    <3> QED
      BY <3>3, <3>4 DEF b
  <2>5. CASE Here + 2 < e
    <3>1. /\ nl # pos /\ buf[nl] = b[e - 1] /\ Len(line) >= 1 /\ line # <<>>
          /\ Here + 1 \in 1..Len(b) /\ e - 2 \in (Here + 1)..Len(b)
      <4>1. /\ nl # pos /\ nl \in 1..Len(buf) /\ Off + nl = e - 1 /\ Len(line) >= 1
            /\ Here + 1 \in 1..Len(b) /\ e - 2 \in (Here + 1)..Len(b)
        BY <1>5, <2>1, <2>2, <2>5
      <4>2. buf[nl] = b[e - 1]
        BY Zenon, <1>3, <4>1
      <4>3. line # <<>>
        BY <2>2, <4>1
      <4> QED
        BY Zenon, <4>1, <4>2, <4>3
    <3>2. line[1] = b[Here + 1] /\ Tail(line) = SubSeq(b, Here + 2, e - 2)
      <4>1. /\ Head(SubSeq(b, Here + 1, e - 2)) = b[Here + 1]
            /\ Tail(SubSeq(b, Here + 1, e - 2)) = SubSeq(b, (Here + 1) + 1, e - 2)
        BY Zenon, <1>3, <3>1, HeadTailOfSubSeq
      <4>2. (Here + 1) + 1 = Here + 2
        BY <1>3
      <4>3. Head(line) = line[1]
        BY <2>2, <3>1
      <4> QED
        BY Zenon, <2>3, <4>1, <4>2, <4>3
    <3>3. (neg <=> b[Here + 1] = Minus) /\ num = Digits(b, Here, e)
      BY Zenon, <2>3, <3>1, <3>2 DEF Digits
    <3> HIDE DEF num, neg
    <3>4. bad <=> ~Numeral(b, Here, e)
      BY Zenon, <1>3, <1>4, <2>1, <2>5, <3>1, <3>3 DEF Numeral
    <3>5. Int64(num, neg) = Int64(Digits(b, Here, e), b[Here + 1] = Minus)
      <4>1. neg = (b[Here + 1] = Minus)
        BY Zenon, <3>3 DEF neg
      <4> QED
        BY Zenon, <3>3, <4>1
    <3> HIDE DEF bad
    <3>6. CASE bad
      <4>1. parse_int_crlf = [status |-> "invalid"]
        BY Zenon, <1>1, <1>7, <3>6
      <4> QED
        BY <3>4, <3>6, <4>1 DEF b
    <3>7. CASE ~bad
      <4>1. parse_int_crlf = [status |-> "ok", values |-> Int64(num, neg), next |-> nl + 1]
        BY Zenon, <1>1, <1>7, <3>7
      <4> QED
        BY Zenon, <2>1, <3>4, <3>5, <3>7, <4>1 DEF b
    <3> QED
      BY Zenon, <3>6, <3>7
  <2> QED
    BY Zenon, <2>4, <2>5
<1> QED
  BY Zenon, <1>6, <1>7


\* A number is read as that number, once its line break has arrived.
LEMMA NumberParse ==
    ASSUME IInv, Faithful, NEW e \in Int, NEW v, NumberAt(sent.bytes, Here, e, v)
    PROVE  LET n == parse_int_crlf IN
           /\ n.status \in {"need_more", "ok"}
           /\ n.status = "need_more" => e > Arrived
           /\ n.status = "ok" => e <= Arrived /\ Off + n.next = e /\ n.values = {v}
<1> DEFINE b == sent.bytes
           n == parse_int_crlf
           w == Value(Digits(b, Here, e))
           neg == b[Here + 1] = Minus
<1>1. b \in Seq(Byte) /\ Here \in Nat
  BY BufIsStream
<1>2. LineAt(b, Here, e)
  BY Zenon, <1>1, NumberLine
<1>3. Numeral(b, Here, e) /\ w \in 0..MaxInt /\ v = IF neg THEN -w ELSE w
  BY Zenon DEF NumberAt
<1>4. Int64(Digits(b, Here, e), neg) = {IF neg THEN -w ELSE w}
  BY Zenon, <1>3 DEF Int64
<1>5. /\ n.status \in {"need_more", "invalid", "ok"}
      /\ n.status = "need_more" => e > Arrived
      /\ n.status = "invalid" => ~Numeral(b, Here, e)
      /\ n.status = "ok" => /\ e <= Arrived /\ Off + n.next = e
                            /\ n.values = Int64(Digits(b, Here, e), neg)
  BY Zenon, <1>2, ParseLine
<1> HIDE DEF w, neg, b, n
<1>6. /\ n.status \in {"need_more", "ok"}
      /\ n.status = "need_more" => e > Arrived
      /\ n.status = "ok" => e <= Arrived /\ Off + n.next = e /\ n.values = {v}
  BY Zenon, <1>3, <1>4, <1>5
<1> QED
  BY Zenon, <1>6 DEF n

\* A line that is no number of the range is not read as one.
LEMMA BadParse ==
    ASSUME IInv, Faithful, NEW e \in Int, NEW R, BadNumberAt(sent.bytes, Here, e, R)
    PROVE  LET n == parse_int_crlf IN
           /\ n.status = "need_more" => e > Arrived
           /\ n.status = "ok" => /\ e <= Arrived /\ Off + n.next = e
                                 /\ \E v : v \notin R /\ n.values = {v}
<1> DEFINE b == sent.bytes
           n == parse_int_crlf
<1>1. LineAt(b, Here, e)
  BY Zenon DEF BadNumberAt, LineAt
<1>2. /\ n.status = "need_more" => e > Arrived
      /\ n.status = "ok" => e <= Arrived /\ Off + n.next = e /\ Numeral(b, Here, e)
  BY Zenon, <1>1, ParseLine
<1>3. ASSUME n.status = "ok" PROVE \E v : v \notin R /\ n.values = {v}
  <2>1. PICK v \in (-MaxInt..MaxInt) \ R : NumberAt(b, Here, e, v)
    BY Zenon, <1>2, <1>3 DEF BadNumberAt
  <2>2. n.values = {v}
    BY Zenon, <1>3, <2>1, NumberParse
  <2> QED
    BY Zenon, <2>1, <2>2
<1> QED
  BY Zenon, <1>2, <1>3
-----------------------------------------------------------------------------
(* Consuming the buffer.                                                     *)

\* The place in the stream is kept, whether the buffer is compacted or not.
LEMMA ConsumeStream ==
    ASSUME IInv, Faithful, NEW p \in 0..Len(buf), ConsumeTo(p), UNCHANGED <<sent, rest>>
    PROVE  Faithful' /\ Here' = Off + p /\ Arrived' = Arrived
<1> DEFINE b == sent.bytes
           c == compact_if_needed(buf, p)
<1>1. /\ buf \in Seq(Byte) /\ Len(buf) \in Nat /\ p \in Nat /\ p <= Len(buf) /\ Off \in Nat
      /\ Arrived = Off + Len(buf) /\ Len(b) \in Nat /\ Len(rest) \in Nat
      /\ Arrived = Len(b) - Len(rest)
  BY BufIsStream DEF Arrived
<1>2. \A i \in 1..Len(buf) : buf[i] = b[Off + i]
  BY BufIsStream
<1>3. /\ buf' \in Seq(Byte) /\ pos' \in Nat /\ Len(buf') \in Nat /\ pos' <= Len(buf')
      /\ Len(buf') - pos' = Len(buf) - p
  BY <1>1, ConsumeFacts
<1>4. \/ buf' = <<>>
      \/ buf' = SubSeq(buf, p + 1, Len(buf))
      \/ buf' = buf
  <2>1. buf' = c.buf
    BY DEF ConsumeTo
  <2> QED
    BY <2>1 DEF compact_if_needed
<1>5. /\ Len(buf') <= Len(buf)
      /\ \A i \in 1..Len(buf') : buf'[i] = buf[i + (Len(buf) - Len(buf'))]
  <2>1. CASE buf' = <<>>
    BY <1>1, <2>1
  <2>2. CASE buf' = SubSeq(buf, p + 1, Len(buf))
    <3>1. p + 1 \in Int /\ Len(buf) \in Int /\ p + 1 >= 1 /\ Len(buf) <= Len(buf)
      BY <1>1
    <3>2. /\ Len(buf') = IF p + 1 <= Len(buf) THEN Len(buf) - (p + 1) + 1 ELSE 0
          /\ \A i \in 1..(Len(buf) - (p + 1) + 1) : buf'[i] = buf[(p + 1) + i - 1]
      BY <1>1, <2>2, <3>1, SubSeqFacts, SubSeqElements
    <3>3. CASE p = Len(buf)
      BY <1>1, <3>2, <3>3
    <3>4. CASE p < Len(buf)
      <4>1. /\ Len(buf') = Len(buf) - p
            /\ \A i \in 1..(Len(buf) - p) : buf'[i] = buf[i + p]
        BY <1>1, <3>2, <3>4
      <4>2. Len(buf) - Len(buf') = p /\ Len(buf') <= Len(buf)
        BY <1>1, <4>1
      <4> QED
        BY Zenon, <4>1, <4>2
    <3> QED
      BY <1>1, <3>3, <3>4
  <2>3. CASE buf' = buf
    BY <1>1, <2>3
  <2> QED
    BY <1>4, <2>1, <2>2, <2>3
<1>6. Arrived' = Arrived /\ Off' = Arrived - Len(buf') /\ Here' = Off' + pos'
      /\ sent' = sent /\ rest' = rest
  BY DEF Arrived, Off, Here
<1>7. Off' = Off + (Len(buf) - Len(buf')) /\ Here' = Off + p
  <2>1. /\ Off \in Nat /\ Len(buf) \in Nat /\ p \in Nat /\ pos' \in Nat /\ Len(buf') \in Nat
        /\ Arrived = Off + Len(buf) /\ Len(buf') - pos' = Len(buf) - p
    BY <1>1, <1>3
  <2>2. Off' = Arrived - Len(buf') /\ Here' = Off' + pos'
    BY <1>6
  <2>3. \A o, l, i, j, k \in Nat :
            k - j = l - i => (o + l) - k = o + (l - k) /\ ((o + l) - k) + j = o + i
    OBVIOUS
  <2>4. /\ (Off + Len(buf)) - Len(buf') = Off + (Len(buf) - Len(buf'))
        /\ ((Off + Len(buf)) - Len(buf')) + pos' = Off + p
    BY <2>1, <2>3
  <2> QED
    BY Zenon, <2>1, <2>2, <2>4
<1>8. ASSUME NEW i \in 1..Len(buf') PROVE buf'[i] = b[Off' + i]
  <2>1. i + (Len(buf) - Len(buf')) \in 1..Len(buf)
        /\ Off + (i + (Len(buf) - Len(buf'))) = Off' + i
    BY <1>1, <1>3, <1>5, <1>7
  <2> QED
    BY Zenon, <1>2, <1>5, <2>1
<1>9. Len(rest) + Len(buf') <= Len(b)
  BY <1>1, <1>3, <1>5
<1>10. \A i \in 1..Len(rest) : rest[i] = b[Arrived + i]
  BY Zenon DEF Faithful
<1>11. Faithful'
  BY Zenon, <1>6, <1>8, <1>9, <1>10 DEF Faithful
<1> QED
  BY <1>6, <1>7, <1>11
-----------------------------------------------------------------------------
(* What has been said.                                                       *)

\* The pieces of a stream.
LEMMA Pieces ==
    ASSUME IInv, ~sent.wide
    PROVE  /\ sent.says \in Seq(Args \cup {Error}) /\ Len(sent.says) \in Nat
           /\ sent.start \in [1..(Len(sent.says) + 1) -> 0..Len(sent.bytes)]
           /\ sent.start[1] = 0 /\ sent.start[Len(sent.says) + 1] = Len(sent.bytes)
           /\ \A i, j \in 1..(Len(sent.says) + 1) : i < j => sent.start[i] < sent.start[j]
           /\ \A k \in 1..Len(sent.says) :
                  IF sent.says[k] = Error
                  THEN MalformedAt(sent.bytes, sent.start[k], sent.start[k + 1])
                  ELSE RequestAt(sent.bytes, sent.start[k], sent.start[k + 1], sent.says[k])
<1>1. Says(sent)
  BY StreamAssumption DEF IInv
<1>2. sent.says \in Seq(Args \cup {Error})
  BY Zenon, <1>1 DEF Says, Args
<1>3. Len(sent.says) \in Nat
  BY <1>2
<1> QED
  BY Zenon, <1>1, <1>2, <1>3 DEF Says

\* One piece more.
LEMMA BeforeNext ==
    ASSUME NEW says \in Seq(Args \cup {Error}), NEW m \in Nat, m < Len(says)
    PROVE  /\ SubSeq(says, 1, m) \in Seq(Args \cup {Error}) /\ says[m + 1] \in Args \cup {Error}
           /\ SubSeq(says, 1, m + 1) = Append(SubSeq(says, 1, m), says[m + 1])
           /\ EndsInError(SubSeq(says, 1, m + 1)) <=> says[m + 1] = Error
<1> DEFINE S == Args \cup {Error}
           u == SubSeq(says, 1, m)
           v == SubSeq(says, 1, m + 1)
<1>1. Len(says) \in Nat /\ m + 1 \in 1..Len(says) /\ m + 1 \in Int /\ m \in Int /\ m <= Len(says)
  OBVIOUS
<1>2. says[m + 1] \in S
  BY <1>1, ElementOfSeq
<1> HIDE DEF S
<1>3. /\ u \in Seq(S) /\ Len(u) = m /\ \A i \in 1..m : u[i] = says[i]
  BY <1>1, SubSeqFacts, SubSeqElements DEF S
<1>4. /\ v \in Seq(S) /\ Len(v) = m + 1 /\ \A i \in 1..(m + 1) : v[i] = says[i]
  BY <1>1, SubSeqFacts, SubSeqElements DEF S
<1> HIDE DEF u, v
<1>5. /\ Append(u, says[m + 1]) \in Seq(S) /\ Len(Append(u, says[m + 1])) = m + 1
      /\ \A i \in 1..(m + 1) : Append(u, says[m + 1])[i] = says[i]
  <2>1. /\ Append(u, says[m + 1]) \in Seq(S) /\ Len(Append(u, says[m + 1])) = m + 1
        /\ \A i \in 1..m : Append(u, says[m + 1])[i] = u[i]
        /\ Append(u, says[m + 1])[m + 1] = says[m + 1]
    BY <1>2, <1>3, AppendProperties
  <2> QED
    BY <1>3, <2>1
<1>6. v = Append(u, says[m + 1])
  <2> DEFINE x == Append(u, says[m + 1])
  <2>1. x \in Seq(S) /\ Len(x) = Len(v) /\ \A i \in 1..Len(v) : v[i] = x[i]
    BY <1>4, <1>5
  <2> HIDE DEF x
  <2> QED
    BY <1>4, <2>1, SeqEqual DEF x
<1>7. v # <<>> /\ v[Len(v)] = says[m + 1]
  BY <1>4
<1> QED
  BY Zenon, <1>2, <1>3, <1>6, <1>7 DEF EndsInError, S, u, v

\* A piece is answered by what it says.
LEMMA SaidNext ==
    ASSUME NEW o \in Seq(Args \cup {Error}), NEW says \in Seq(Args \cup {Error}),
           NEW m \in Nat, m < Len(says), Said(o, says, m)
    PROVE  Said(Append(o, says[m + 1]), says, m + 1)
<1> DEFINE x == says[m + 1]
           u == SubSeq(says, 1, m)
           v == SubSeq(says, 1, m + 1)
<1>1. /\ u \in Seq(Args \cup {Error}) /\ x \in Args \cup {Error} /\ v = Append(u, x)
      /\ EndsInError(v) <=> x = Error
  BY BeforeNext
<1>2. EndsInError(Append(o, x)) <=> x = Error
  <2>1. Len(Append(o, x)) = Len(o) + 1 /\ Append(o, x)[Len(o) + 1] = x /\ Len(o) \in Nat
    BY <1>1, AppendProperties
  <2>2. Append(o, x) # <<>>
    BY <2>1
  <2> QED
    BY Zenon, <2>1, <2>2 DEF EndsInError
<1>3. Good(o) = Good(u) /\ Collapse(o) = Collapse(u) /\ (EndsInError(o) <=> EndsInError(u))
  BY Zenon DEF Said
<1> HIDE DEF x, u, v
<1>4. Good(Append(o, x)) = Good(Append(u, x))
  <2>1. /\ Good(Append(o, x)) = IF x = Error THEN Good(o) ELSE Append(Good(o), x)
        /\ Good(Append(u, x)) = IF x = Error THEN Good(u) ELSE Append(Good(u), x)
    <3>1. Good(Append(o, x)) = IF x = Error THEN Good(o) ELSE Append(Good(o), x)
      BY <1>1, GoodAppend
    <3>2. Good(Append(u, x)) = IF x = Error THEN Good(u) ELSE Append(Good(u), x)
      BY <1>1, GoodAppend
    <3> QED
      BY Zenon, <3>1, <3>2
  <2> QED
    BY Zenon, <1>3, <2>1
<1>5. Collapse(Append(o, x)) = Collapse(Append(u, x))
  <2>1. /\ Collapse(Append(o, x)) =
               IF x = Error /\ EndsInError(o) THEN Collapse(o) ELSE Append(Collapse(o), x)
        /\ Collapse(Append(u, x)) =
               IF x = Error /\ EndsInError(u) THEN Collapse(u) ELSE Append(Collapse(u), x)
    BY Zenon, <1>1, CollapseAppend
  <2> QED
    BY Zenon, <1>3, <2>1
<1> QED
  BY Zenon, <1>1, <1>2, <1>4, <1>5 DEF Said, x, v

\* One more error in a malformed piece changes nothing.
LEMMA SaidAgain ==
    ASSUME NEW o \in Seq(Args \cup {Error}), NEW says \in Seq(Args \cup {Error}),
           NEW m \in Nat, m < Len(says), says[m + 1] = Error, Said(o, says, m + 1)
    PROVE  Said(Append(o, Error), says, m + 1)
<1> DEFINE v == SubSeq(says, 1, m + 1)
<1>1. EndsInError(v)
  BY BeforeNext
<1>2. /\ Good(o) = Good(v) /\ Collapse(o) = Collapse(v) /\ EndsInError(o)
  BY Zenon, <1>1 DEF Said
<1>3. Error \in Args \cup {Error}
  OBVIOUS
<1>4. Good(Append(o, Error)) = Good(o) /\ Collapse(Append(o, Error)) = Collapse(o)
  BY Zenon, <1>2, <1>3, GoodAppend, CollapseAppend
<1>5. EndsInError(Append(o, Error))
  <2>1. Len(Append(o, Error)) = Len(o) + 1 /\ Append(o, Error)[Len(o) + 1] = Error /\ Len(o) \in Nat
    BY <1>3, AppendProperties
  <2>2. Append(o, Error) # <<>>
    BY <2>1
  <2> QED
    BY Zenon, <2>1, <2>2 DEF EndsInError
<1> QED
  BY Zenon, <1>1, <1>2, <1>4, <1>5 DEF Said

\* Malformed pieces in a row are answered by one error.
LEMMA SaidSkip ==
    ASSUME NEW o \in Seq(Args \cup {Error}), NEW says \in Seq(Args \cup {Error}),
           NEW k \in Nat, NEW m \in Nat, k < m, m <= Len(says), k > 0,
           \A j \in k..m : says[j] = Error, Said(o, says, k)
    PROVE  Said(o, says, m)
<1> DEFINE T == {j \in k..m : ~Said(o, says, j)}
<1> SUFFICES ASSUME T # {} PROVE FALSE
  OBVIOUS
<1>1. PICK j \in T : \A y \in T : j <= y
  <2>1. T \subseteq Nat
    OBVIOUS
  <2> HIDE DEF T
  <2> QED
    BY Zenon, <2>1, LeastNat
<1>2. j \in k..m /\ j # k /\ Len(says) \in Nat
  OBVIOUS
<1> DEFINE i == j - 1
           h == i - 1
<1>3. /\ i \in k..m /\ i \in Nat /\ i < Len(says) /\ i + 1 = j /\ ~(j <= i)
      /\ h \in Nat /\ h < Len(says) /\ h + 1 = i
  BY <1>2
<1>4. Said(o, says, i)
  BY <1>1, <1>3
<1>5. says[i] = Error /\ says[j] = Error
  BY <1>2, <1>3
<1> HIDE DEF i, h, T
<1>6. EndsInError(SubSeq(says, 1, i))
  BY Zenon, <1>3, <1>5, BeforeNext
<1>7. /\ SubSeq(says, 1, i) \in Seq(Args \cup {Error}) /\ Error \in Args \cup {Error}
      /\ SubSeq(says, 1, j) = Append(SubSeq(says, 1, i), Error)
      /\ EndsInError(SubSeq(says, 1, j))
  BY Zenon, <1>3, <1>5, BeforeNext
<1>8. /\ Good(SubSeq(says, 1, j)) = Good(SubSeq(says, 1, i))
      /\ Collapse(SubSeq(says, 1, j)) = Collapse(SubSeq(says, 1, i))
  BY Zenon, <1>6, <1>7, GoodAppend, CollapseAppend
<1>9. Said(o, says, j)
  BY Zenon, <1>4, <1>6, <1>7, <1>8 DEF Said
<1> QED
  BY <1>1, <1>9 DEF T

-----------------------------------------------------------------------------
(* The pieces of the stream, as the parser meets them.                       *)

LEMMA StateTypes ==
    ASSUME IInv
    PROVE  /\ sent.bytes \in Seq(Byte) /\ Len(sent.bytes) \in Nat
           /\ argc \in Nat /\ argi \in Nat /\ cmd_start \in Nat
           /\ bulk_len \in Nat /\ bulk_len \in 0..kMaxBulk
           /\ slices \in Seq(Slice) /\ Len(slices) \in Nat
           /\ out \in Seq(Args \cup {Error})
<1>1. sent.bytes \in Seq(Byte)
  BY RespAssumption DEF IInv
<1>2. /\ argc \in 0..kMaxArgs /\ argi \in 0..argc /\ cmd_start \in Nat
      /\ bulk_len \in 0..kMaxBulk /\ slices \in Seq(Slice) /\ out \in Seq(Args \cup {Error})
  BY Zenon DEF IInv, TypeOK, Args
<1>3. kMaxArgs \in Nat /\ kMaxBulk \in Nat
  BY RespAssumption
<1>4. argc \in Nat /\ argi \in Nat /\ bulk_len \in Nat
  BY <1>2, <1>3
<1> QED
  BY <1>1, <1>2, <1>4

LEMMA PieceFacts ==
    ASSUME IInv, ~sent.wide, NEW k \in 1..Len(sent.says)
    PROVE  LET p == sent.start[k]
               q == sent.start[k + 1]
           IN  /\ p \in Nat /\ q \in Nat /\ p < q /\ q <= Len(sent.bytes)
               /\ sent.bytes[p + 1] # Star => sent.says[k] = Error
               /\ sent.says[k] = Error => /\ sent.bytes[q] = LF
                                          /\ \A i \in (p + 2)..q : sent.bytes[i] # Star
<1> DEFINE n == Len(sent.says)
           b == sent.bytes
           p == sent.start[k]
           q == sent.start[k + 1]
<1>1. /\ n \in Nat /\ sent.start \in [1..(n + 1) -> 0..Len(b)]
      /\ \A i, j \in 1..(n + 1) : i < j => sent.start[i] < sent.start[j]
      /\ IF sent.says[k] = Error THEN MalformedAt(b, p, q) ELSE RequestAt(b, p, q, sent.says[k])
  BY Zenon, Pieces
<1>2. Len(b) \in Nat
  BY RespAssumption DEF IInv
<1>3. k \in 1..(n + 1) /\ k + 1 \in 1..(n + 1) /\ k < k + 1
  BY <1>1
<1>4. p \in 0..Len(b) /\ q \in 0..Len(b) /\ p < q
  <2> HIDE DEF n, b
  <2> QED
    BY Zenon, <1>1, <1>3
<1>5. b[p + 1] # Star => sent.says[k] = Error
  <2>1. RequestAt(b, p, q, sent.says[k]) => b[p + 1] = Star
    BY Zenon DEF RequestAt, FrameAt
  <2> QED
    BY Zenon, <1>1, <2>1
<1>6. sent.says[k] = Error => b[q] = LF /\ \A i \in (p + 2)..q : b[i] # Star
  BY Zenon, <1>1 DEF MalformedAt
<1> HIDE DEF n, b, p, q
<1>7. p \in Nat /\ q \in Nat /\ q <= Len(b)
  BY <1>2, <1>4
<1> QED
  BY Zenon, <1>4, <1>5, <1>6, <1>7 DEF b, p, q

\* What follows a '*' that starts a piece.
LEMMA PieceHeader ==
    ASSUME IInv, ~sent.wide, NEW k \in 1..Len(sent.says),
           sent.bytes[sent.start[k] + 1] = Star
    PROVE  LET b == sent.bytes
               p == sent.start[k]
               q == sent.start[k + 1]
           IN  \/ /\ sent.says[k] = Error
                  /\ \E e \in (p + 1)..q : BadNumberAt(b, p + 1, e, 1..kMaxArgs)
               \/ \E n \in 1..kMaxArgs, at \in Seq(0..Len(b)) : Layout(sent, k, n, at)
<1> DEFINE b == sent.bytes
           p == sent.start[k]
           q == sent.start[k + 1]
           argv == sent.says[k]
<1>1. p \in Nat /\ q \in Nat /\ p < q /\ q <= Len(b)
  BY Zenon, PieceFacts
<1>2. IF argv = Error THEN MalformedAt(b, p, q) ELSE RequestAt(b, p, q, argv)
  BY Zenon, Pieces
<1>3. ASSUME NEW m \in Nat, NEW at \in [1..m -> p..q]
      PROVE  at \in Seq(0..Len(b)) /\ Len(at) = m
  <2>1. Len(b) \in Nat /\ p..q \subseteq 0..Len(b)
    <3>1. Len(b) \in Nat
      BY RespAssumption DEF IInv
    <3> QED
      BY <1>1, <3>1
  <2>2. at \in [1..m -> 0..Len(b)]
    BY <2>1
  <2>3. at \in Seq(0..Len(b))
    BY <2>2, SeqDef
  <2> QED
    BY <2>2, <2>3, LenProperties
<1>4. CASE argv = Error
  <2>1. \/ \E e \in (p + 1)..q : BadNumberAt(b, p + 1, e, 1..kMaxArgs)
        \/ \E n \in 1..kMaxArgs : \E m \in 1..n : \E at \in [1..m -> p..q] :
               FrameAt(b, p, n, at) /\ BrokenAt(b, at[m], q)
    BY Zenon, <1>2, <1>4 DEF MalformedAt
  <2>2. ASSUME NEW n \in 1..kMaxArgs, NEW m \in 1..n, NEW at \in [1..m -> p..q],
               FrameAt(b, p, n, at), BrokenAt(b, at[m], q)
        PROVE  \E i \in 1..kMaxArgs, f \in Seq(0..Len(b)) : Layout(sent, k, i, f)
    <3>1. m \in Nat /\ n \in Nat /\ m <= n /\ m \in 1..(n + 1) /\ m \in 1..m
      BY RespAssumption
    <3>2. at \in Seq(0..Len(b)) /\ Len(at) = m
      BY Zenon, <1>3, <3>1
    <3>3. at[m] <= q
      BY <1>1, <3>1
    <3>4. Layout(sent, k, n, at)
      BY Zenon, <1>4, <2>2, <3>1, <3>2, <3>3 DEF Layout
    <3> QED
      BY Zenon, <3>2, <3>4
  <2> QED
    BY Zenon, <1>4, <2>1, <2>2
<1>5. CASE argv # Error
  <2>1. PICK at \in [1..(Len(argv) + 1) -> p..q] :
            /\ FrameAt(b, p, Len(argv), at) /\ at[Len(argv) + 1] = q
            /\ \A i \in 1..Len(argv) : \E d \in at[i]..at[i + 1] :
                   ArgAt(b, at[i], d, at[i + 1]) /\ argv[i] = SubSeq(b, d + 1, at[i + 1] - 2)
    BY Zenon, <1>2, <1>5 DEF RequestAt
  <2> DEFINE n == Len(argv)
  <2>2. n \in 1..kMaxArgs
    BY Zenon, <2>1 DEF FrameAt
  <2> HIDE DEF n
  <2>3. n + 1 \in Nat /\ n + 1 \in 1..(n + 1)
    BY <2>2, RespAssumption
  <2>4. at \in Seq(0..Len(b)) /\ Len(at) = n + 1
    BY Zenon, <1>3, <2>1, <2>3 DEF n
  <2>5. Layout(sent, k, n, at)
    BY Zenon, <1>5, <2>1, <2>3, <2>4 DEF Layout, n
  <2> QED
    BY Zenon, <2>2, <2>4, <2>5
<1> QED
  BY Zenon, <1>4, <1>5

\* What the layout of a piece says of the argument that the parser is at: it is
\* there, or the piece breaks off.
LEMMA ArgumentFacts ==
    ASSUME IInv, ~sent.wide, NEW k \in 1..Len(sent.says), NEW at \in Seq(0..Len(sent.bytes)),
           Layout(sent, k, argc, at), argi + 1 <= Len(at), argi < argc
    PROVE  LET b == sent.bytes
               x == at[argi + 1]
               y == at[argi + 2]
           IN  /\ x \in Nat /\ x < Len(b)
               /\ \/ /\ argi + 2 <= Len(at) /\ y \in Nat
                     /\ \E d \in Nat :
                           /\ ArgAt(b, x, d, y)
                           /\ sent.says[k] # Error =>
                                  sent.says[k][argi + 1] = SubSeq(b, d + 1, y - 2)
                  \/ /\ sent.says[k] = Error /\ x <= sent.start[k + 1]
                     /\ BrokenAt(b, x, sent.start[k + 1])
<1> DEFINE b == sent.bytes
           l == Len(at)
           i == argi + 1
           x == at[i]
           q == sent.start[k + 1]
<1>1. argi \in Nat /\ argc \in Nat /\ l \in Nat /\ Len(b) \in Nat
  BY StateTypes
<1>2. i \in 1..l /\ i \in 1..argc /\ argi + 2 = i + 1
  BY <1>1
<1>3. /\ l \in 1..(argc + 1) /\ FrameAt(b, sent.start[k], argc, at)
      /\ IF sent.says[k] = Error THEN l <= argc /\ at[l] <= q /\ BrokenAt(b, at[l], q)
         ELSE /\ l = argc + 1
              /\ \A j \in 1..argc : \E d \in at[j]..at[j + 1] :
                     /\ ArgAt(b, at[j], d, at[j + 1])
                     /\ sent.says[k][j] = SubSeq(b, d + 1, at[j + 1] - 2)
  BY Zenon DEF Layout
<1>4. \A j \in 1..l : at[j] \in 0..Len(b)
  BY ElementOfSeq
<1>5. x \in Nat
  BY <1>1, <1>2, <1>4
<1>6. CASE i < l
  <2>1. i + 1 \in 1..l /\ i \in 1..(l - 1)
    BY <1>1, <1>2, <1>6
  <2>2. at[i + 1] \in Nat
    BY <1>1, <1>4, <2>1
  <2>3. \E d \in x..at[i + 1] :
            /\ ArgAt(b, x, d, at[i + 1])
            /\ sent.says[k] # Error => sent.says[k][i] = SubSeq(b, d + 1, at[i + 1] - 2)
    <3>1. CASE sent.says[k] = Error
      BY Zenon, <1>3, <2>1, <3>1 DEF FrameAt
    <3>2. CASE sent.says[k] # Error
      BY Zenon, <1>2, <1>3, <3>2
    <3> QED
      BY Zenon, <3>1, <3>2
  <2>4. PICK d \in x..at[i + 1] :
            /\ ArgAt(b, x, d, at[i + 1])
            /\ sent.says[k] # Error => sent.says[k][i] = SubSeq(b, d + 1, at[i + 1] - 2)
    BY Zenon, <2>3
  <2>5. d \in Nat
    BY <1>5, <2>2
  <2>6. x < Len(b)
    <3>1. x < d /\ d + 2 <= at[i + 1] /\ at[i + 1] <= Len(b)
      BY Zenon, <2>4 DEF ArgAt
    <3> QED
      BY <1>1, <1>5, <2>2, <2>5, <3>1
  <2>7. argi + 2 <= l
    BY <1>1, <2>1
  <2> HIDE DEF l, i, b, x
  <2>8. \E e \in Nat : /\ ArgAt(b, x, e, at[argi + 2])
                       /\ sent.says[k] # Error =>
                              sent.says[k][i] = SubSeq(b, e + 1, at[argi + 2] - 2)
    BY Zenon, <1>2, <2>4, <2>5
  <2> QED
    BY Zenon, <1>2, <1>5, <2>2, <2>6, <2>7, <2>8 DEF l, i, b, x
<1>7. CASE ~(i < l)
  <2>1. i = l /\ sent.says[k] = Error
    <3>1. i = l
      BY <1>1, <1>2, <1>7
    <3>2. sent.says[k] # Error => l = argc + 1
      BY Zenon, <1>3
    <3> QED
      BY <1>1, <1>2, <3>1, <3>2
  <2>2. x <= q /\ BrokenAt(b, x, q)
    BY Zenon, <1>3, <2>1
  <2>3. x < Len(b)
    BY Zenon, <2>2 DEF BrokenAt
  <2> QED
    BY Zenon, <1>5, <2>1, <2>2, <2>3
<1> QED
  BY Zenon, <1>6, <1>7

\* The same, once the length of the argument has been read: its bytes start at D.
LEMMA ArgumentEnd ==
    ASSUME IInv, ~sent.wide, NEW k \in 1..Len(sent.says), NEW at \in Seq(0..Len(sent.bytes)),
           Layout(sent, k, argc, at), argi + 1 <= Len(at), argi < argc,
           sent.bytes[at[argi + 1] + 1] = Dollar,
           NEW D \in Int, NumberAt(sent.bytes, at[argi + 1] + 1, D, bulk_len)
    PROVE  LET b == sent.bytes
               y == D + bulk_len + 2
           IN  /\ y <= Len(b)
               /\ \/ /\ argi + 2 <= Len(at) /\ at[argi + 2] = y /\ b[y - 1] = CR /\ b[y] = LF
                     /\ sent.says[k] # Error =>
                            sent.says[k][argi + 1] = SubSeq(b, D + 1, D + bulk_len)
                  \/ /\ sent.says[k] = Error /\ D + bulk_len <= sent.start[k + 1]
                     /\ <<b[y - 1], b[y]>> # <<CR, LF>>
<1> DEFINE b == sent.bytes
           x == at[argi + 1]
           z == at[argi + 2]
           q == sent.start[k + 1]
<1>1. b \in Seq(Byte) /\ bulk_len \in 0..kMaxBulk /\ bulk_len \in Nat
  BY StateTypes
<1>2. /\ x \in Nat
      /\ \/ /\ argi + 2 <= Len(at) /\ z \in Nat
            /\ \E d \in Nat : /\ ArgAt(b, x, d, z)
                              /\ sent.says[k] # Error =>
                                     sent.says[k][argi + 1] = SubSeq(b, d + 1, z - 2)
         \/ sent.says[k] = Error /\ BrokenAt(b, x, q)
  BY Zenon, ArgumentFacts
<1>3. x \in Nat /\ q \in Nat
  BY Zenon, <1>2, PieceFacts
<1> HIDE DEF x, z, q, b
<1>4. x + 1 \in Nat
  BY <1>3
<1>5. ASSUME argi + 2 <= Len(at), z \in Nat, NEW d \in Nat, ArgAt(b, x, d, z),
             sent.says[k] # Error => sent.says[k][argi + 1] = SubSeq(b, d + 1, z - 2)
      PROVE  /\ z = D + bulk_len + 2 /\ z <= Len(b) /\ b[z - 1] = CR /\ b[z] = LF
             /\ sent.says[k] # Error => sent.says[k][argi + 1] = SubSeq(b, D + 1, D + bulk_len)
  <2>1. z <= Len(b) /\ b[z - 1] = CR /\ b[z] = LF /\ NumberAt(b, x + 1, d, z - 2 - d)
    BY Zenon, <1>5 DEF ArgAt
  <2>2. NumberAt(b, x + 1, D, bulk_len)
    BY DEF x, b
  <2>3. D = d /\ bulk_len = z - 2 - d
    <3> DEFINE n == z - 2 - d
    <3>0. \A i \in Nat : i \in Int
      OBVIOUS
    <3>1. d \in Int /\ NumberAt(b, x + 1, d, n)
      BY Zenon, <1>5, <2>1, <3>0
    <3> HIDE DEF n
    <3>2. D = d /\ bulk_len = n
      BY Zenon, <1>1, <1>4, <2>2, <3>1, NumberUnique
    <3> QED
      BY Zenon, <3>2 DEF n
  <2>4. z = D + bulk_len + 2 /\ z - 2 = D + bulk_len
    BY <1>5, <2>3
  <2> QED
    BY Zenon, <1>5, <2>1, <2>3, <2>4
<1>6. ASSUME BrokenAt(b, x, q)
      PROVE  LET y == D + bulk_len + 2 IN
             y <= Len(b) /\ D + bulk_len <= q /\ <<b[y - 1], b[y]>> # <<CR, LF>>
  <2>1. b[x + 1] = Dollar /\ NumberAt(b, x + 1, D, bulk_len)
    BY Zenon DEF x, b
  <2>2. \/ \E e \in (x + 1)..q : BadNumberAt(b, x + 1, e, 0..kMaxBulk)
        \/ \E e \in (x + 1)..q, l \in 0..kMaxBulk :
              /\ NumberAt(b, x + 1, e, l) /\ e + l <= q /\ e + l + 2 <= Len(b)
              /\ <<b[e + l + 1], b[e + l + 2]>> # <<CR, LF>>
    BY Zenon, <1>6, <2>1 DEF BrokenAt
  <2>3. ASSUME NEW e \in (x + 1)..q, BadNumberAt(b, x + 1, e, 0..kMaxBulk) PROVE FALSE
    <3>1. e \in Int
      BY <1>3
    <3>2. LineAt(b, x + 1, e) /\ LineAt(b, x + 1, D)
      <4>1. LineAt(b, x + 1, D)
        BY Zenon, <1>1, <1>4, <2>1, NumberLine
      <4> QED
        BY Zenon, <2>3, <4>1 DEF BadNumberAt, LineAt
    <3>3. e = D
      BY Zenon, <1>1, <1>4, <3>1, <3>2, LineUnique
    <3>4. PICK n \in (-MaxInt..MaxInt) \ (0..kMaxBulk) : NumberAt(b, x + 1, e, n)
      BY Zenon, <2>1, <2>3, <3>3 DEF BadNumberAt, NumberAt
    <3>5. n = bulk_len
      BY Zenon, <1>1, <1>4, <2>1, <3>1, <3>4, NumberUnique
    <3> QED
      BY Zenon, <1>1, <3>4, <3>5
  <2>4. ASSUME NEW e \in (x + 1)..q, NEW l \in 0..kMaxBulk,
               NumberAt(b, x + 1, e, l), e + l <= q, e + l + 2 <= Len(b),
               <<b[e + l + 1], b[e + l + 2]>> # <<CR, LF>>
        PROVE  LET y == D + bulk_len + 2 IN
               y <= Len(b) /\ D + bulk_len <= q /\ <<b[y - 1], b[y]>> # <<CR, LF>>
    <3>1. e \in Int
      BY <1>3
    <3>2. e = D /\ l = bulk_len
      BY Zenon, <1>1, <1>4, <2>1, <2>4, <3>1, NumberUnique
    <3> DEFINE y == D + bulk_len + 2
    <3>3. D + bulk_len + 1 = y - 1
      BY <1>1
    <3>4. /\ <<b[D + bulk_len + 1], b[y]>> # <<CR, LF>>
          /\ D + bulk_len <= q /\ y <= Len(b)
      BY Zenon, <2>4, <3>2
    <3> HIDE DEF y
    <3>5. y <= Len(b) /\ D + bulk_len <= q /\ <<b[y - 1], b[y]>> # <<CR, LF>>
      BY Zenon, <3>3, <3>4
    <3> QED
      BY Zenon, <3>5 DEF y
  <2> QED
    BY Zenon, <2>2, <2>3, <2>4
<1> QED
  BY Zenon, <1>2, <1>5, <1>6 DEF b, z, q

-----------------------------------------------------------------------------
(* What a part of the pieces says is a part of what they say.                *)

LEMMA GoodEmpty == Good(<<>>) = <<>>
<1> DEFINE drop == {i \in 1..Len(<<>>) : <<>>[i] = Error}
           w == CHOOSE f : WithoutRec(<<>>, drop, 0, f)
<1>1. Len(<<>>) = 0
  OBVIOUS
<1>2. Good(<<>>) = w[0]
  BY Zenon, <1>1 DEF Good, Without, WithoutRec
<1> HIDE DEF drop
<1>3. WithoutRec(<<>>, drop, 0, w)
  <2>1. \E f : WithoutRec(<<>>, drop, 0, f)
    <3>1. 0 \in Nat
      OBVIOUS
    <3> QED
      BY Zenon, <3>1, WithoutExists
  <2> QED
    BY Zenon, <2>1
<1> HIDE DEF w
<1>4. 0 \in 0..0
  OBVIOUS
<1>5. w[0] = <<>>
  BY Zenon, <1>3, <1>4 DEF WithoutRec
<1> QED
  BY Zenon, <1>2, <1>5

LEMMA GoodSeq ==
    ASSUME NEW says \in Seq(Args \cup {Error}), NEW m \in 0..Len(says)
    PROVE  Good(SubSeq(says, 1, m)) \in Seq(Args \cup {Error})
<1> DEFINE G(j) == Good(SubSeq(says, 1, j))
           T == {j \in 0..Len(says) : G(j) \notin Seq(Args \cup {Error})}
<1> SUFFICES ASSUME T # {} PROVE FALSE
  OBVIOUS
<1>0. Len(says) \in Nat
  OBVIOUS
<1>1. PICK j \in T : \A y \in T : j <= y
  <2>1. T \subseteq Nat
    BY <1>0
  <2> HIDE DEF T
  <2> QED
    BY Zenon, <2>1, LeastNat
<1>2. j \in 0..Len(says) /\ G(j) \notin Seq(Args \cup {Error})
  OBVIOUS
<1>3. j # 0
  <2>1. SubSeq(says, 1, 0) = <<>> /\ <<>> \in Seq(Args \cup {Error})
    OBVIOUS
  <2> QED
    BY Zenon, <1>2, <2>1, GoodEmpty
<1> DEFINE i == j - 1
<1>4. i \in 0..Len(says) /\ i \in Nat /\ i < Len(says) /\ i + 1 = j /\ ~(j <= i)
  BY <1>0, <1>2, <1>3
<1>5. G(i) \in Seq(Args \cup {Error})
  BY Zenon, <1>1, <1>4
<1> HIDE DEF i, T
<1>6. /\ SubSeq(says, 1, i) \in Seq(Args \cup {Error}) /\ says[j] \in Args \cup {Error}
      /\ SubSeq(says, 1, j) = Append(SubSeq(says, 1, i), says[j])
  BY Zenon, <1>4, BeforeNext
<1>7. G(j) = IF says[j] = Error THEN G(i) ELSE Append(G(i), says[j])
  <2>1. Good(Append(SubSeq(says, 1, i), says[j])) =
            IF says[j] = Error THEN Good(SubSeq(says, 1, i))
            ELSE Append(Good(SubSeq(says, 1, i)), says[j])
    BY Zenon, <1>6, GoodAppend
  <2> QED
    BY Zenon, <1>6, <2>1
<1> HIDE DEF G
<1>8. Append(G(i), says[j]) \in Seq(Args \cup {Error})
  BY <1>5, <1>6, AppendProperties
<1> QED
  BY Zenon, <1>2, <1>5, <1>7, <1>8

LEMMA GoodPrefix ==
    ASSUME NEW says \in Seq(Args \cup {Error}), NEW m \in 0..Len(says)
    PROVE  LET g == Good(SubSeq(says, 1, m)) IN
           Len(g) <= Len(Good(says)) /\ g = SubSeq(Good(says), 1, Len(g))
<1> DEFINE A == Args \cup {Error}
           G(j) == Good(SubSeq(says, 1, j))
           g == G(m)
           P(h) == Len(g) <= Len(h) /\ g = SubSeq(h, 1, Len(g))
           T == {j \in m..Len(says) : ~P(G(j))}
<1>0. Len(says) \in Nat /\ SubSeq(says, 1, Len(says)) = says /\ Len(says) \in m..Len(says)
  OBVIOUS
<1>1. \A j \in 0..Len(says) : G(j) \in Seq(A)
  BY Zenon, GoodSeq
<1> HIDE DEF A, G
<1>2. g \in Seq(A) /\ Len(g) \in Nat
  BY <1>1
<1> HIDE DEF g
<1>3. T = {}
  <2> SUFFICES ASSUME T # {} PROVE FALSE
    OBVIOUS
  <2>1. PICK j \in T : \A y \in T : j <= y
    <3>1. T \subseteq Nat
      BY <1>0
    <3> HIDE DEF T
    <3> QED
      BY Zenon, <3>1, LeastNat
  <2>2. j \in m..Len(says) /\ ~P(G(j))
    BY Zenon
  <2>3. j # m
    <3>1. P(g)
      BY <1>2
    <3> QED
      BY Zenon, <2>2, <3>1 DEF g
  <2> DEFINE i == j - 1
  <2>4. i \in m..Len(says) /\ i \in 0..Len(says) /\ i \in Nat /\ i < Len(says) /\ i + 1 = j /\ ~(j <= i)
    BY <1>0, <2>2, <2>3
  <2>5. P(G(i)) /\ G(i) \in Seq(A)
    BY Zenon, <1>1, <2>1, <2>4
  <2> HIDE DEF i, T
  <2>6. /\ SubSeq(says, 1, i) \in Seq(A) /\ says[j] \in A
        /\ SubSeq(says, 1, j) = Append(SubSeq(says, 1, i), says[j])
    BY Zenon, <2>4, BeforeNext DEF A
  <2>7. G(j) = IF says[j] = Error THEN G(i) ELSE Append(G(i), says[j])
    BY Zenon, <2>6, GoodAppend DEF G
  <2>8. P(Append(G(i), says[j]))
    <3> DEFINE h == G(i)
               z == Append(h, says[j])
    <3>1. h \in Seq(A) /\ Len(g) <= Len(h) /\ g = SubSeq(h, 1, Len(g))
      BY Zenon, <2>5
    <3> HIDE DEF h
    <3>2. /\ z \in Seq(A) /\ Len(z) = Len(h) + 1 /\ \A x \in 1..Len(h) : z[x] = h[x]
      BY <2>6, <3>1, AppendProperties
    <3> HIDE DEF z
    <3>3. /\ Len(g) \in Int /\ 1 \in Int /\ 0 \in Int /\ 1 >= 1 /\ 1 + 0 = 1 /\ Len(g) + 0 = Len(g)
          /\ Len(g) <= Len(z)
      BY <1>2, <3>1, <3>2
    <3>4. \A x \in 1..Len(g) : h[x] = z[x + 0]
      <4> SUFFICES ASSUME NEW x \in 1..Len(g) PROVE h[x] = z[x + 0]
        BY Zenon
      <4>1. x \in 1..Len(h) /\ x + 0 = x
        BY <1>2, <3>1
      <4> QED
        BY Zenon, <3>2, <4>1
    <3>5. SubSeq(h, 1, Len(g)) = SubSeq(z, 1 + 0, Len(g) + 0)
      BY <3>1, <3>2, <3>3, <3>4, SamePart
    <3>6. P(z)
      BY Zenon, <3>1, <3>3, <3>5
    <3> QED
      BY Zenon, <3>6 DEF z, h
  <2> QED
    BY Zenon, <2>2, <2>5, <2>7, <2>8
<1>4. P(G(Len(says)))
  BY Zenon, <1>0, <1>3
<1> HIDE DEF P
<1>5. P(Good(says))
  BY Zenon, <1>0, <1>4 DEF G
<1> QED
  BY Zenon, <1>5 DEF P, g, G
=============================================================================
