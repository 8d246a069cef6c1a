------------------------------ MODULE MCDatScan ------------------------------
(* Small files for DatScan.                                                 *)
EXTENDS DatScan, DatCodec

K == <<"k">>
N == <<"n">>
\* "s" is a small letter, "-" no part of a callsign.
MCCharacters == {"k", "n", "s", "-"}
MCCallCharacters == {"k", "n", "s"}
MCKeyCharacters == {"k", "n"}
MCYears == {10}
MCTexts == {"p", "pp", "kp", "none"}
MCCalls == {K, N}
MCWindowLengths == <<8>>

MCCodes == {"known", "unknown"}
MCKnown == {"known"}
MCCodesOf ==
    [t \in MCTexts |-> CASE t = "p" -> <<"unknown">>
                         [] t = "pp" -> <<"unknown", "unknown">>
                         [] t = "kp" -> <<"known", "unknown">>
                         [] t = "none" -> <<>>]

I(v) == Tagged("interest_codes", v)
C(v) == Tagged("city", v)

\* The last five: in small letters, no callsign, too long for the parser, too
\* long for a callsign, and with something behind the year.
KeyParts ==
    {<<>>, <<YearPart(10)>>, <<Letter("k")>>, <<Letter("k"), YearPart(10)>>,
     <<Letter("n")>>,
     <<Letter("s"), YearPart(10)>>, <<Letter("k"), Letter("-")>>,
     <<Letter("k"), Letter("n"), Letter("k")>>,
     <<Letter("k"), Letter("n"), Letter("k"), Letter("k")>>,
     <<Letter("k"), YearPart(10), Letter("n")>>}
TagParts ==
    {<<>>, <<I("kp")>>, <<C("p"), I("pp")>>, <<I("p"), C("p")>>,
     <<I("pp"), I("kp")>>, <<I("p"), I(NoText)>>, <<I("none"), C(NoText)>>}

Record(k, t) == <<Mark>> \o k \o t

\* Any two records, the second one cut off or with the start of a third, and
\* the end of a record before the first.
Pairs ==
    {before \o Record(k1, t1) \o Record(k2, t2) :
        before \in {<<>>, <<Letter("n"), I("p")>>},
        k1 \in KeyParts, t1 \in TagParts, k2 \in KeyParts, t2 \in TagParts}

\* Four records with the same interests.
Short == {<<Letter("k")>>, <<Letter("k"), YearPart(10)>>, <<Letter("n")>>,
          <<Letter("n"), YearPart(10)>>}
Fours ==
    {Record(a, <<I("pp")>>) \o Record(b, <<I("p")>>) \o Record(c, <<I("p")>>)
         \o Record(d, <<I("pp")>>) :
        a \in Short, b \in Short, c \in Short, d \in Short}

\* Every record that can be is under the IDX key of K or of its year.
Slices(dat) ==
    <<[key |-> [call |-> K, year |-> NoYear], offset |-> 1],
      [key |-> [call |-> K, year |-> 10],
       offset |-> Max({i \in 1..Len(dat) : IsMark(dat[i])})],
      [key |-> [call |-> N, year |-> NoYear], offset |-> Len(dat) + 5]>>

MCDatabases ==
    {[csv |-> [c \in MCCalls |-> NoSnapshot], dat |-> dat, idx |-> Slices(dat),
      hci |-> [k \in {} |-> <<>>], years |-> <<>>] : dat \in Pairs \cup Fours}

\* Around the places where a cycle of the keys or of the phase begins again.
MCSliceOffsets == {0, 1, 48, 49, 96, 97, 98, 100, 101, 202}
=============================================================================
