------------------------------ MODULE MCHciIndex ------------------------------
(* Small HCI files.                                                         *)
EXTENDS HciIndex, SequencesExt

\* k, k:10 and n collide; `w` is a word; k:77 has a year out of range.
MCKeys == {"k", "k:10", "k:77", "n", "w"}
MCYearOf == [k \in MCKeys |-> CASE k = "k:10" -> 10 [] k = "k:77" -> 77
                                [] OTHER -> NoYear]
MCHash == [k \in MCKeys |-> CASE k \in {"k", "k:10", "n"} -> 2
                              [] k = "k:77" -> 1 [] k = "w" -> 3]
MCCallKeys == MCKeys \ {"w"}

H(k) == [kind |-> "header", key |-> k, offset |-> 0]
P(n) == [kind |-> "posting", key |-> NoKey, offset |-> n]
Close == [kind |-> "close", key |-> NoKey, offset |-> 0]

File(table, dat) ==
    [table |-> table, dat |-> dat,
     misread |-> [p \in 1..Len(dat) |-> [q \in 1..Len(dat) |-> <<9>>]]]

\* Two records of k (the second among those of others), one without postings.
Dat == <<H("n"), P(7), Close, H("k"), P(1), P(2), Close, H("k:10"), P(3), Close,
         H("k"), P(4), Close, H("w"), Close, H("k:77"), P(5), Close>>

\* Tables with any four offsets of interest, in any order: starts of records,
\* a posting, the end of the file and past it.
Damaged == {File(t, Dat) : t \in [1..4 -> {1, 4, 5, 8, 11, 16, 19, 21}]}

\* Any row of up to three records, each with its start in the table.
Records == {<<H("k"), P(1), P(2), Close>>, <<H("k"), P(1), Close>>,
            <<H("k:10"), P(1), P(1), Close>>, <<H("n"), Close>>,
            <<H("k:77"), P(3), Close>>, <<H("w"), P(2), Close>>}
Written(rs) ==
    LET dat == FlattenSeq(rs)
    IN  File([i \in 1..Len(rs) |-> 1 + Len(FlattenSeq(SubSeq(rs, 1, i - 1)))], dat)

MCFiles ==
    Damaged \cup {File(<<1, 4, 8, 11, 14, 16>>, Dat)}
        \cup {Written(rs) : rs \in UNION {[1..n -> Records] : n \in 0..3}}

=============================================================================
