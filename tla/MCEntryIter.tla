------------------------------ MODULE MCEntryIter ------------------------------
(* Small databases for EntryIter.                                           *)
EXTENDS EntryIter

K == <<"K">>
LowerK == <<"k">>   \* the same callsign, as an IDX may spell it
N == <<"N">>
D == <<"D">>
Bad == <<"*">>      \* a catalog row that is no callsign
Z == <<"Z">>        \* the sentinel

MCCharacters == {"K", "k", "N", "D", "*", "Z"}
MCYears == {10, 12, 99}
MCPlausibleYears == {10, 12}
MCTexts == {"x"}
MCCalls == {K, N, D, Bad, Z}
MCSpellings == MCCalls \cup {LowerK}
MCRefused == {Bad}
MCNormal == [t \in MCSpellings \ MCRefused |-> IF t = LowerK THEN K ELSE t]
MCSentinels == {Z}
MCWindowLengths == <<8>>

Rec(call, year) ==
    <<Mark>> \o [i \in 1..Len(call) |-> Letter(call[i])]
        \o (IF year = NoYear THEN <<>> ELSE <<YearPart(year)>>)
        \o <<Tagged("city", "x")>>

\* Records at cells 1, 5, 8, 11 and 15.
Dat == Rec(K, 10) \o Rec(K, NoYear) \o Rec(N, NoYear) \o Rec(N, 12) \o Rec(D, 10)

Entr(call, year, offset) == [key |-> [call |-> call, year |-> year],
                             offset |-> offset]
EndOfIdx == Entr(Z, NoYear, Len(Dat) + 5)
\* Keys in any of these selections, in key order (lower case comes last); a
\* bare key may be there twice or in two spellings, lead to an archive record
\* only (D), or have a year that is none (D again), and the current record of
\* K may be reached over the HCI only.
Keys == <<Entr(D, NoYear, 15), Entr(D, 99, 15), Entr(K, NoYear, 5),
          Entr(K, NoYear, 5), Entr(K, 10, 1), Entr(N, NoYear, 8),
          Entr(N, 12, 11)>>
\* The sentinel is one as a bare key only.
Behind == <<Entr(Z, 10, 1), Entr(LowerK, NoYear, 5)>>
Selections ==
    {[i \in 1..Cardinality(s) |->
          Keys[CHOOSE n \in s : Cardinality({m \in s : m <= n}) = i]] :
        s \in SUBSET (1..7)}

Row(c) == [call |-> c, vintage |-> NoYear, sources |-> {"UsCsv"},
           text |-> [f \in Fields |-> IF f = "city" THEN "x" ELSE NoText]]

Hci(posted) == [k \in {[call |-> K, year |-> NoYear]} |-> posted]

MCDatabases ==
    {[csv |-> [c \in MCCalls |-> IF c \in rows THEN Row(c) ELSE NoSnapshot],
      dat |-> Dat, idx |-> idx \o <<EndOfIdx>> \o behind, hci |-> Hci(posted),
      years |-> <<>>] :
        rows \in {{}, {K}, {Bad, N}, {K, Bad, D}}, idx \in Selections,
        behind \in {<<>>, Behind}, posted \in {<<>>, <<5>>}}

=============================================================================
