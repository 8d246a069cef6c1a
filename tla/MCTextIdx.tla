------------------------------- MODULE MCTextIdx -------------------------------
(* Small files for TextIdx.                                                 *)
EXTENDS TextIdx

\* Bytes: 0 and 1 are digits, 2 is the colon, 3 and 4 are letters.
MCColon == 2
A == <<3>>
A1 == <<3, 1>>          \* between the bare callsign A and its years
A0ed == <<3, 2, 0>>
A1ed == <<3, 2, 1>>
AA == <<3, 3>>
MCAsked == {A, A1, A1ed, AA, <<4>>}

Entry(k, o) == [key |-> k, offset |-> o, kind |-> "entry"]
Malformed == [key |-> <<>>, offset |-> 0, kind |-> "malformed"]
Rest == [key |-> <<>>, offset |-> 0, kind |-> "unterminated"]

\* Any keys in any order, with the offsets of well-formed files.
AnyKeys == {[i \in 1..n |-> Entry(ks[i], 2 * i)] :
                n \in 0..3, ks \in [1..3 -> {A, A1, A0ed, A1ed, AA}]}
\* Sorted, with the bare callsign and a year once or twice.
Long == {<<Entry(A, 1)>> \o again \o <<Entry(A1, 5), Entry(A0ed, 6), Entry(A1ed, 7)>>
             \o more \o <<Entry(AA, 9)>> :
             again \in {<<>>, <<Entry(A, 2)>>}, more \in {<<>>, <<Entry(A1ed, 8)>>}}
\* Offsets that repeat or go back, lines that do not parse or do not end.
Odd == {<<Entry(A, o)>> \o between \o <<Entry(A0ed, 3), Entry(A1ed, p)>> \o rest :
            o \in {1, 3, 5}, p \in {2, 3, 5}, between \in {<<>>, <<Malformed>>},
            rest \in {<<>>, <<Rest>>}}
           \cup {<<Rest>>, <<Malformed>>}

MCFiles == AnyKeys \cup Long \cup Odd
=============================================================================
