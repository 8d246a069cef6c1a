------------------------------- MODULE MCLookup -------------------------------
(* Small databases for Lookup.                                              *)
EXTENDS Lookup

K == <<"k", "a">>           \* the callsign most lookups are about
N == <<"n", "a">>           \* shares its suffix with K
KD == <<"k", "a", "d">>     \* begins with K
J == <<"j", "a">>           \* shares its suffix with K and precedes KD
Z == <<"z">>                \* the sentinel at the end of the IDX

MCCharacters == {"k", "n", "a", "d", "z", "j"}
MCYears == {10, 12}
MCTexts == {"x", "y", "z"}
MCPlainFields == {"city"}
MCRawTags == {"tag_d3"}
MCCalls == {K, N, KD}
MCWindowLengths == <<4, 5, 6, 12>>
MCShortWindows == <<3, 5, 6, 7>>

Record(call, year, fields) ==
    <<Mark>> \o [i \in 1..Len(call) |-> Letter(call[i])]
        \o (IF year = NoYear THEN <<>> ELSE <<YearPart(year)>>) \o fields

\* K, its edition of 10 and one of 12 without a callsign of its own, then the
\* neighbours, and a second edition of 10.  The records start at cells 1, 6,
\* 11, 14, 19 and 23.
Dat ==
    Record(K, NoYear, <<Tagged("first_name", "x"), Tagged("city", "y")>>)
    \o Record(K, 10, <<Tagged("last_name", "x")>>)
    \o Record(<<>>, 12, <<Tagged("tag_d3", "z")>>)
    \o Record(KD, NoYear, <<Tagged("city", "y")>>)
    \o Record(N, NoYear, <<Tagged("city", "x")>>)
    \o Record(K, 10, <<Tagged("first_name", "z"), Tagged("last_name", "y"),
                       Tagged("city", "x"), Tagged("city", "y"),
                       Tagged("tag_d3", "x")>>)
    \o Record(K, 12, <<Tagged("tag_d3", "y")>>)

At(call, year, offset) == [key |-> [call |-> call, year |-> year],
                           offset |-> offset]

FullIdx == <<At(K, NoYear, 1), At(K, 10, 6), At(K, 12, 11), At(KD, NoYear, 14),
             At(N, NoYear, 19), At(Z, NoYear, Len(Dat) + 5)>>
\* One entry whose slice holds several records, and a duplicate.
CoarseIdx == <<At(K, 10, 6), At(KD, NoYear, 14), At(KD, NoYear, 19)>>
\* An entry that points behind its successor, one past the end of the file.
OddIdx == <<At(K, NoYear, 23), At(K, 10, 6), At(K, 12, Len(Dat) + 2),
            At(N, NoYear, 19)>>

Posted(call, year) == [call |-> call, year |-> year]

CleanHci ==
    [k \in {Posted(K, NoYear), Posted(<<"a">>, NoYear), Posted(K, 10),
            Posted(<<"a">>, 10), Posted(<<"a">>, 12), Posted(KD, NoYear)} |->
        CASE k = Posted(K, NoYear) -> <<1>>
          [] k = Posted(<<"a">>, NoYear) -> <<1, 19>>
          [] k = Posted(K, 10) -> <<6, 23>>
          [] k = Posted(<<"a">>, 10) -> <<6, 23, 6>>
          [] k = Posted(<<"a">>, 12) -> <<32>>
          [] k = Posted(KD, NoYear) -> <<14>>]
\* Postings inside a record, past the end, and in front of the record.
LooseHci ==
    [k \in {Posted(K, NoYear), Posted(K, 12), Posted(N, NoYear)} |->
        CASE k = Posted(K, NoYear) -> <<4, 99>>
          [] k = Posted(K, 12) -> <<19, 14>>
          [] k = Posted(N, NoYear) -> <<14, 21>>]
NoHci == [k \in {} |-> <<>>]

Catalog(calls) ==
    [c \in MCCalls |->
        IF c \in calls
        THEN [call |-> c, vintage |-> NoYear, sources |-> {"UsCsv"},
              text |-> [f \in Fields |-> IF f \in {"last_name", "city"}
                                         THEN "z" ELSE NoText]]
        ELSE NoSnapshot]

MCDatabases ==
    {[csv |-> Catalog(calls), dat |-> Dat, idx |-> idx, hci |-> hci,
      years |-> IF hci = NoHci THEN <<>> ELSE <<10, 12>>] :
        calls \in {{}, {K}}, idx \in {FullIdx, CoarseIdx, OddIdx},
        hci \in {CleanHci, LooseHci, NoHci}}

\* K is looked up and nothing but its neighbours exists.
NeighbourDat == Record(J, NoYear, <<Tagged("city", "x")>>)
                    \o Record(KD, NoYear, <<Tagged("city", "y")>>)
NeighbourDatabases ==
    {[csv |-> Catalog({}), dat |-> NeighbourDat,
      idx |-> <<At(J, NoYear, 1), At(KD, NoYear, 5)>>,
      hci |-> [k \in {Posted(<<"a">>, NoYear)} |-> <<1>>], years |-> <<>>]}
=============================================================================
