------------------------------ MODULE MCCountTable ------------------------------
(* Small tables for CountTable.                                             *)
EXTENDS CountTable

\* Keys: 1 is made of `!`, 2 to 4 are callsigns, 5 is made of `z`.
MCBangs == {1}
MCZeds == {5}
MCAsked == 1..4

Of(key) == [key |-> key, counted |-> TRUE]
Uncounted(key) == [key |-> key, counted |-> FALSE]

\* Anything up to four slots, ordered or not.
ShortTables ==
    UNION {[1..n -> {Of(k) : k \in {0, 1, 2, 3, 5}} \cup {Uncounted(3)}] :
              n \in 0..4}
\* Prologue, three slots of any kind and sentinel, with and without the `!`.
FramedTables ==
    {<<Of(0), first, second>> \o middle \o <<Of(5)>> :
        first \in {Of(0), Of(1)}, second \in {Of(1), Of(2)},
        middle \in [1..3 -> {Of(k) : k \in {0, 2, 3, 4}} \cup {Uncounted(3)}]}
\* Eight slots, blanks first.
LongTables ==
    {[i \in 1..8 |-> IF i <= blanks THEN Of(0) ELSE Of(((i - blanks) * 4) \div 5)] :
        blanks \in 0..8}

MCTables == ShortTables \cup FramedTables \cup LongTables
=============================================================================
