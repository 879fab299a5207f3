----------------------------- MODULE RespStream -----------------------------
(***************************************************************************)
(* RespStreamProcessor::try_extract_request, called by the read loop of a   *)
(* connection: bytes arrive in chunks cut anywhere, requests and protocol   *)
(* errors come out.  Offsets count from 0 as in the code, so buf[_pos] is   *)
(* buf[pos + 1].  A stream is a string of bytes, what its pieces say (a     *)
(* request, the sequence of its arguments, or Error for a malformed line)   *)
(* and the offsets where they start.  In a wide stream there is a number    *)
(* that overflows parse_int_crlf's int64_t, so that what the stream says is *)
(* undefined.                                                               *)
(***************************************************************************)
EXTENDS Integers, Sequences

CONSTANTS Byte,
          Streams,      \* what clients may send: [bytes, says, start, wide]
          kMaxArgs, kMaxBulk,
          MaxInt,       \* the greatest int64_t
          CompactAt,    \* 4096 in compact_if_needed
          CR, LF, Star, Dollar, Minus,
          Digit,        \* the value of each digit byte
          Error         \* a ParsedRequest without argv

-----------------------------------------------------------------------------
(* What a stream says.  A part of b from p to q holds b[p + 1] to b[q].      *)

\* The number that a sequence of digits stands for.
Value(num) ==
    LET v[i \in 0..Len(num)] == IF i = 0 THEN 0 ELSE 10 * v[i - 1] + Digit[num[i]]
    IN  v[Len(num)]

\* A number and its line break, from p to q.
Digits(b, p, q) == SubSeq(b, IF b[p + 1] = Minus THEN p + 2 ELSE p + 1, q - 2)

Numeral(b, p, q) ==
    /\ p + 2 < q /\ q <= Len(b) /\ b[q - 1] = CR /\ b[q] = LF
    /\ Digits(b, p, q) # <<>>
    /\ \A i \in DOMAIN Digits(b, p, q) : Digits(b, p, q)[i] \in DOMAIN Digit

NumberAt(b, p, q, n) ==
    LET v == Value(Digits(b, p, q)) IN
    Numeral(b, p, q) /\ v \in 0..MaxInt /\ n = IF b[p + 1] = Minus THEN -v ELSE v

\* A line that is no number of the range.
BadNumberAt(b, p, q, range) ==
    /\ p < q /\ q <= Len(b) /\ b[q] = LF /\ \A i \in (p + 1)..(q - 1) : b[i] # LF
    /\ Numeral(b, p, q) => \E n \in (-MaxInt..MaxInt) \ range : NumberAt(b, p, q, n)

\* An argument from x to y: its length up to d, its bytes, a line break.
ArgAt(b, x, d, y) ==
    /\ x < d /\ d + 2 <= y /\ y <= Len(b) /\ b[x + 1] = Dollar
    /\ y - 2 - d <= kMaxBulk /\ NumberAt(b, x + 1, d, y - 2 - d)
    /\ b[y - 1] = CR /\ b[y] = LF

\* A request for n arguments that starts at p, and the first of them: at gives
\* the offset where each starts, and where the last one ends.
FrameAt(b, p, n, at) ==
    /\ b[p + 1] = Star /\ n \in 1..kMaxArgs /\ NumberAt(b, p + 1, at[1], n)
    /\ \A i \in 1..(Len(at) - 1) :
           \E d \in at[i]..at[i + 1] : ArgAt(b, at[i], d, at[i + 1])

RequestAt(b, p, q, argv) ==
    \E at \in [1..(Len(argv) + 1) -> p..q] :
        /\ FrameAt(b, p, Len(argv), at) /\ at[Len(argv) + 1] = q
        /\ \A i \in 1..Len(argv) : \E d \in at[i]..at[i + 1] :
               ArgAt(b, at[i], d, at[i + 1]) /\ argv[i] = SubSeq(b, d + 1, at[i + 1] - 2)

\* What starts at x, in a piece that ends at q, is no argument: no '$', no length,
\* or no line break where the length says.
BrokenAt(b, x, q) ==
    /\ x < Len(b)
    /\ b[x + 1] = Dollar =>
           \/ \E e \in (x + 1)..q : BadNumberAt(b, x + 1, e, 0..kMaxBulk)
           \/ \E e \in (x + 1)..q, l \in 0..kMaxBulk :
                 /\ NumberAt(b, x + 1, e, l) /\ e + l <= q /\ e + l + 2 <= Len(b)
                 /\ <<b[e + l + 1], b[e + l + 2]>> # <<CR, LF>>

\* A malformed line, or lines: one that is no request, or a request that breaks off.
MalformedAt(b, p, q) ==
    /\ b[q] = LF /\ \A i \in (p + 2)..q : b[i] # Star
    /\ b[p + 1] = Star =>
           \/ \E e \in (p + 1)..q : BadNumberAt(b, p + 1, e, 1..kMaxArgs)
           \/ \E n \in 1..kMaxArgs : \E m \in 1..n : \E at \in [1..m -> p..q] :
                  FrameAt(b, p, n, at) /\ BrokenAt(b, at[m], q)

Says(s) ==
    LET n == Len(s.says) IN
    /\ s.says \in Seq(Seq(Seq(Byte)) \cup {Error})
    /\ s.start \in [1..(n + 1) -> 0..Len(s.bytes)]
    /\ s.start[1] = 0 /\ s.start[n + 1] = Len(s.bytes)
    /\ \A i, j \in 1..(n + 1) : i < j => s.start[i] < s.start[j]
    /\ \A k \in 1..n :
           IF s.says[k] = Error
           THEN MalformedAt(s.bytes, s.start[k], s.start[k + 1])
           ELSE RequestAt(s.bytes, s.start[k], s.start[k + 1], s.says[k])

ASSUME RespAssumption ==
    /\ kMaxArgs \in Nat /\ kMaxBulk \in Nat /\ CompactAt \in Nat /\ MaxInt \in Nat
    /\ kMaxArgs <= MaxInt /\ kMaxBulk <= MaxInt
    /\ \A s \in Streams : s.bytes \in Seq(Byte)

ASSUME StreamAssumption ==
    /\ CR # LF /\ {CR, LF, Minus} \cap DOMAIN Digit = {} /\ Minus \notin {CR, LF}
    /\ \A s \in Streams : ~s.wide => Says(s)

-----------------------------------------------------------------------------

VARIABLES sent,         \* the stream of this connection
          rest,         \* the bytes of it that have not arrived
          buf,          \* the read loop's buffer
          st, pos, cmd_start, argc, argi, bulk_len, slices,
          loop,         \* the read loop: read, call, switch (in the parser), closed
          out           \* the requests and errors handed on

parser == <<st, cmd_start, argc, argi, bulk_len, slices>>
vars == <<sent, rest, buf, pos, parser, loop, out>>

Init ==
    /\ sent \in Streams /\ rest = sent.bytes
    /\ buf = <<>> /\ pos = 0 /\ st = "need_star"
    /\ cmd_start = 0 /\ argc = 0 /\ argi = 0 /\ bulk_len = 0 /\ slices = <<>>
    /\ loop = "read" /\ out = <<>>

-----------------------------------------------------------------------------
(* Helpers of the parser.                                                    *)

\* The first offset from p on that holds c, or the end.
Find(b, p, c) ==
    CHOOSE i \in p..Len(b) :
        /\ i = Len(b) \/ b[i + 1] = c
        /\ \A j \in p..(i - 1) : b[j + 1] # c

\* Mutant: the part before the offset is dropped and the offset kept.
CompactKeepsPos(b, p) ==
    IF p > 0 /\ p < Len(b) /\ (p >= CompactAt \/ p * 2 >= Len(b))
    THEN [buf |-> SubSeq(b, p + 1, Len(b)), pos |-> p]
    ELSE [buf |-> b, pos |-> p]

compact_if_needed(b, p) ==
    IF p >= Len(b) THEN [buf |-> <<>>, pos |-> 0]
    ELSE IF p > 0 /\ (p >= CompactAt \/ p * 2 >= Len(b))
    THEN [buf |-> SubSeq(b, p + 1, Len(b)), pos |-> 0]
    ELSE [buf |-> b, pos |-> p]

\* The buffer is consumed up to p, and compacted.
ConsumeTo(p) ==
    LET c == compact_if_needed(buf, p) IN buf' = c.buf /\ pos' = c.pos

\* What an int64_t may hold after the loop has read num: signed overflow is
\* undefined, and leaves any of them.
Int64(num, neg) ==
    LET v == Value(num) IN
    IF v \in 0..MaxInt THEN {IF neg THEN -v ELSE v} ELSE (-MaxInt - 1)..MaxInt

\* The number in front of the next line break.
parse_int_crlf ==
    LET nl   == Find(buf, pos, LF)
        line == SubSeq(buf, pos + 1, nl - 1)
        neg  == line # <<>> /\ line[1] = Minus
        num  == IF neg THEN Tail(line) ELSE line
    IN  IF nl = Len(buf) THEN [status |-> "need_more"]
        ELSE IF nl = pos \/ buf[nl] # CR \/ num = <<>>
                \/ \E i \in DOMAIN num : num[i] \notin DOMAIN Digit
        THEN [status |-> "invalid"]
        ELSE [status |-> "ok", values |-> Int64(num, neg), next |-> nl + 1]

\* Mutant: no limit.
ArgcPositive(n) == n > 0

ArgcOK(n) == n > 0 /\ n <= kMaxArgs
BulkOK(n) == n >= 0 /\ n <= kMaxBulk

\* Mutant: skipping a line stops in front of its line break.
EndOfLineShort == Find(buf, pos, LF)

\* Behind the line break that is next, or at the end of what has arrived.
EndOfLine ==
    LET nl == Find(buf, pos, LF) IN IF nl = Len(buf) THEN nl ELSE nl + 1

\* Mutant: the read loop asks again instead of waiting for a chunk.
NothingAgain == loop' = "call" /\ UNCHANGED out

\* try_extract_request returns nullopt, or something for the read loop, or goes on.
Nothing == loop' = "read" /\ UNCHANGED out
Return(r) == loop' = "call" /\ out' = Append(out, r)
Continue == UNCHANGED <<loop, out>>

\* Mutant: all that has arrived is dropped, a request behind the error included.
ResyncDropsAll(p) ==
    /\ st' = "need_star"
    /\ ConsumeTo(Len(buf))
    /\ Return(Error)
    /\ UNCHANGED <<cmd_start, argc, argi, bulk_len, slices>>

\* With p consumed: an error, and on to the next '*' if it has arrived.
reset_and_resync(p) ==
    /\ st' = "need_star"
    /\ ConsumeTo(Find(buf, p, Star))
    /\ Return(Error)
    /\ UNCHANGED <<cmd_start, argc, argi, bulk_len, slices>>

-----------------------------------------------------------------------------
(* The read loop.                                                            *)

\* A chunk of any size arrives.
Read ==
    /\ loop = "read"
    /\ \E n \in 1..Len(rest) :
           /\ buf' = buf \o SubSeq(rest, 1, n)
           /\ rest' = SubSeq(rest, n + 1, Len(rest))
    /\ loop' = "call"
    /\ UNCHANGED <<sent, pos, parser, out>>

Eof ==
    /\ loop = "read" /\ rest = <<>>
    /\ loop' = "closed"
    /\ UNCHANGED <<sent, rest, buf, pos, parser, out>>

Call ==
    /\ loop = "call"
    /\ pos' = IF pos > Len(buf) THEN Len(buf) ELSE pos
    /\ loop' = "switch"
    /\ UNCHANGED <<sent, rest, buf, parser, out>>

-----------------------------------------------------------------------------
(* The cases of the switch.                                                  *)

At(s) == loop = "switch" /\ st = s

NeedStar ==
    /\ At("need_star") /\ UNCHANGED <<sent, rest>>
    /\ \/ /\ pos >= Len(buf)
          /\ ConsumeTo(pos) /\ Nothing /\ UNCHANGED parser
       \/ /\ pos < Len(buf) /\ buf[pos + 1] # Star
          /\ ConsumeTo(EndOfLine) /\ Return(Error) /\ UNCHANGED parser
       \/ /\ pos < Len(buf) /\ buf[pos + 1] = Star
          /\ cmd_start' = pos /\ pos' = pos + 1 /\ st' = "need_argc"
          /\ Continue /\ UNCHANGED <<buf, argc, argi, bulk_len, slices>>

NeedArgc ==
    /\ At("need_argc") /\ UNCHANGED <<sent, rest>>
    /\ LET n == parse_int_crlf IN
       \/ n.status = "need_more" /\ Nothing /\ UNCHANGED <<buf, pos, parser>>
       \/ n.status = "invalid" /\ reset_and_resync(pos)
       \/ /\ n.status = "ok" /\ \E v \in n.values : ~ArgcOK(v)
          /\ reset_and_resync(n.next)
       \/ /\ n.status = "ok" /\ \E v \in n.values : ArgcOK(v) /\ argc' = v
          /\ pos' = n.next /\ argi' = 0 /\ slices' = <<>> /\ st' = "need_dollar"
          /\ Continue /\ UNCHANGED <<buf, cmd_start, bulk_len>>

NeedDollar ==
    /\ At("need_dollar") /\ UNCHANGED <<sent, rest>>
    /\ \/ /\ pos >= Len(buf)
          /\ Nothing /\ UNCHANGED <<buf, pos, parser>>
       \/ /\ pos < Len(buf) /\ buf[pos + 1] # Dollar
          /\ reset_and_resync(pos)
       \/ /\ pos < Len(buf) /\ buf[pos + 1] = Dollar
          /\ pos' = pos + 1 /\ st' = "need_bulk_len"
          /\ Continue /\ UNCHANGED <<buf, cmd_start, argc, argi, bulk_len, slices>>

NeedBulkLen ==
    /\ At("need_bulk_len") /\ UNCHANGED <<sent, rest>>
    /\ LET n == parse_int_crlf IN
       \/ n.status = "need_more" /\ Nothing /\ UNCHANGED <<buf, pos, parser>>
       \/ n.status = "invalid" /\ reset_and_resync(pos)
       \/ /\ n.status = "ok" /\ \E v \in n.values : ~BulkOK(v)
          /\ reset_and_resync(n.next)
       \/ /\ n.status = "ok" /\ \E v \in n.values : BulkOK(v) /\ bulk_len' = v
          /\ pos' = n.next /\ st' = "need_bulk_data"
          /\ Continue /\ UNCHANGED <<buf, cmd_start, argc, argi, slices>>

NeedBulkData ==
    /\ At("need_bulk_data") /\ UNCHANGED <<sent, rest>>
    /\ \/ /\ pos + bulk_len > Len(buf)
          /\ Nothing /\ UNCHANGED <<buf, pos, parser>>
       \/ /\ pos + bulk_len <= Len(buf)
          /\ slices' = Append(slices, [off |-> pos, len |-> bulk_len])
          /\ pos' = pos + bulk_len /\ st' = "need_bulk_crlf"
          /\ Continue /\ UNCHANGED <<buf, cmd_start, argc, argi, bulk_len>>

\* The arguments, cut out of the frame that starts at cmd_start.
Argv(end) ==
    LET frame == SubSeq(buf, cmd_start + 1, end) IN
    [i \in DOMAIN slices |->
        LET off == slices[i].off - cmd_start
        IN  SubSeq(frame, off + 1, off + slices[i].len)]

NeedBulkCrlf ==
    /\ At("need_bulk_crlf") /\ UNCHANGED <<sent, rest>>
    /\ \/ /\ pos + 2 > Len(buf)
          /\ Nothing /\ UNCHANGED <<buf, pos, parser>>
       \/ /\ pos + 2 <= Len(buf) /\ <<buf[pos + 1], buf[pos + 2]>> # <<CR, LF>>
          /\ reset_and_resync(pos)
       \/ /\ pos + 2 <= Len(buf) /\ <<buf[pos + 1], buf[pos + 2]>> = <<CR, LF>>
          /\ argi' = argi + 1
          /\ UNCHANGED <<cmd_start, argc, bulk_len, slices>>
          /\ \/ /\ argi' = argc
                /\ st' = "need_star" /\ ConsumeTo(pos + 2)
                /\ Return(Argv(pos + 2))
             \/ /\ argi' # argc
                /\ st' = "need_dollar" /\ pos' = pos + 2
                /\ Continue /\ UNCHANGED buf

try_extract_request ==
    NeedStar \/ NeedArgc \/ NeedDollar \/ NeedBulkLen \/ NeedBulkData \/ NeedBulkCrlf

Next == Read \/ Eof \/ Call \/ try_extract_request

Spec == Init /\ [][Next]_vars

\* The client closes in the end, and the reactor runs the read loop.
FairSpec == Spec /\ WF_vars(Next)

-----------------------------------------------------------------------------
(* Properties.                                                               *)

\* Every variable keeps its type: argc and the bulk length are in range whatever
\* an overflow leaves, and every argument handed on is a string of bytes.
TypeOK ==
    /\ rest \in Seq(Byte) /\ buf \in Seq(Byte)
    /\ Len(rest) <= Len(sent.bytes)
    /\ pos \in Nat /\ cmd_start \in Nat /\ out \in Seq(Seq(Seq(Byte)) \cup {Error})
    /\ st \in {"need_star", "need_argc", "need_dollar", "need_bulk_len",
               "need_bulk_data", "need_bulk_crlf"}
    /\ loop \in {"read", "call", "switch", "closed"}
    /\ argc \in 0..kMaxArgs /\ argi \in 0..argc /\ bulk_len \in 0..kMaxBulk

\* The offsets kept while a request is incomplete stay good whatever arrives and
\* whenever the buffer is compacted: the parser is inside the buffer, and the
\* arguments found so far lie in order between the request's '*' and the parser.
OffsetsSound ==
    /\ pos \in 0..Len(buf)
    /\ st # "need_star" =>
           /\ cmd_start < pos /\ buf[cmd_start + 1] = Star
           /\ st \notin {"need_argc"} =>
              \A i \in DOMAIN slices :
                  /\ slices[i].off + slices[i].len <= pos
                  /\ slices[i].off > IF i = 1 THEN cmd_start
                                     ELSE slices[i - 1].off + slices[i - 1].len

\* The elements of s without those at the positions of drop.
Without(s, drop) ==
    LET w[i \in 0..Len(s)] ==
            IF i = 0 THEN <<>> ELSE IF i \in drop THEN w[i - 1] ELSE Append(w[i - 1], s[i])
    IN  w[Len(s)]

\* The requests without the errors; errors in a row count as one.
Good(s) == Without(s, {i \in 1..Len(s) : s[i] = Error})
Collapse(s) == Without(s, {i \in 2..Len(s) : s[i] = Error /\ s[i - 1] = Error})

\* However the stream is cut into chunks, every request in it is extracted, once,
\* in order and byte for byte, also behind a malformed line, and where a malformed
\* line was there is an error (more than one when chunks cut the line).
StreamUnderstood ==
    ~sent.wide =>
        /\ Len(Good(out)) <= Len(Good(sent.says))
        /\ Good(out) = SubSeq(Good(sent.says), 1, Len(Good(out)))
        /\ loop = "closed" => Collapse(out) = Collapse(sent.says)

\* Every result has used up bytes of its own, so the read loop, which calls the
\* parser until it has nothing, ends for every buffer.
ResultsConsume == Len(out) <= Len(sent.bytes) - Len(rest) - (Len(buf) - pos)

\* The read loop gets to the end of the stream.
Drains == <>(loop = "closed")
=============================================================================
