---------------------------- MODULE MCRespStream ----------------------------
(* Streams of a few short pieces for TLC.                                    *)
EXTENDS RespStream, SequencesExt

MCDigit == [c \in {"0", "1", "2", "3", "9"} |->
               CASE c = "0" -> 0 [] c = "1" -> 1 [] c = "2" -> 2 [] c = "3" -> 3
                 [] c = "9" -> 9]

D(n) == CHOOSE c \in {"0", "1", "2", "3"} : MCDigit[c] = n

NL == <<"cr", "lf">>

Bulk(b) == <<"$", D(Len(b))>> \o NL \o b \o NL

Request(argv) ==
    [says  |-> argv,
     bytes |-> <<"*", D(Len(argv))>> \o NL
               \o FlattenSeq([i \in DOMAIN argv |-> Bulk(argv[i])])]

Bad(bytes) == [says |-> Error, bytes |-> bytes]

\* A short request, an empty argument, arguments full of markers.
GoodPieces ==
    { Request(<< <<"x">> >>), Request(<< <<>>, <<"x">> >>),
      Request(<< <<"*", "lf">>, <<"cr", "lf">> >>) }

\* Malformed lines: they end with a line break and have no '*' inside.
BadPieces ==
    { Bad(b) : b \in {
        <<"x">> \o NL,                                     \* no request at all
        <<"*">> \o NL, <<"*", "x">> \o NL, <<"*", "1", "lf">>,
        <<"*", "-", "1">> \o NL, <<"*", "0">> \o NL, <<"*", "9">> \o NL,
        <<"*", "1", "2">> \o NL,
        <<"*", "1">> \o NL \o <<"x">> \o NL,               \* no '$'
        <<"*", "1">> \o NL \o <<"$", "-", "1">> \o NL,
        <<"*", "1">> \o NL \o <<"$", "9">> \o NL,
        <<"*", "1">> \o NL \o <<"$", "1">> \o NL \o <<"x", "x">> \o NL,  \* too long
        <<"*", "1">> \o NL \o <<"$", "2">> \o NL \o <<"x">> \o NL,       \* too short
        <<"*", "2">> \o NL \o <<"$", "1">> \o NL \o <<"x">> \o NL } }    \* one missing

Bytes(pieces) == FlattenSeq([i \in DOMAIN pieces |-> pieces[i].bytes])

Stream(pieces) ==
    [bytes |-> Bytes(pieces), says |-> [i \in DOMAIN pieces |-> pieces[i].says],
     start |-> [k \in 1..(Len(pieces) + 1) |-> Len(Bytes(SubSeq(pieces, 1, k - 1)))],
     wide  |-> FALSE]

\* Numbers too wide for parse_int_crlf: any argc, any length may come of them.
WideStreams ==
    { [bytes |-> b, says |-> <<>>, start |-> <<>>, wide |-> TRUE] : b \in {
        <<"*", "9", "9">> \o NL \o Bulk(<<"x">>) \o Bulk(<<"*">>),
        <<"*", "1">> \o NL \o <<"$", "9", "9">> \o NL \o <<"*", "x">> \o NL,
        <<"*", "-", "9", "9">> \o NL \o <<"$", "9", "9">> \o NL \o <<"x">> \o NL } }

\* Every piece before every request, and two malformed lines before one.
MCStreams ==
    { Stream(<<p, g>>) : p \in GoodPieces \cup BadPieces, g \in GoodPieces }
    \cup { Stream(<<b, c, Request(<< <<"x">> >>)>>) : b \in BadPieces, c \in BadPieces }
    \cup WideStreams
=============================================================================
