------------------------------- MODULE HciIndex -------------------------------
(***************************************************************************)
(* The HCI, the inverted index of HamCall (HciFile of hci.rs): hciindex.dat *)
(* is a table of offsets into hci.dat, where each record has a search key   *)
(* as its header, the postings of the key and a closing byte.  Opening      *)
(* builds a list of (hash, ordinal) pairs sorted by hash; a search walks    *)
(* the run of its hash and compares the headers.                            *)
(*                                                                          *)
(* hci.dat is a sequence of cells: a whole header, one posting of five      *)
(* bytes, or a closing byte.  The table may be damaged: unordered, past the *)
(* end, or pointing at no header, so that a record ends in the middle of    *)
(* the next one and its bytes are taken for postings that are none.         *)
(***************************************************************************)
EXTENDS Naturals, Sequences, FiniteSets

CONSTANTS
    Files,          \* the HCI files that may be opened
    Keys,           \* search keys
    NoKey,          \* what a cell that is no header holds
    YearOf,         \* the year of an archive key, NoYear otherwise
    PlausibleYears, \* 1900..=2099
    CallKeys,       \* keys that look like a callsign
    Hash            \* hash_key

NoYear == 0
HciCell == [kind : {"header", "posting", "close"}, key : Keys \cup {NoKey},
            offset : Nat]
\* f.misread[p][q]: the offsets that the bytes of the cells from p to q give
\* when they are no row of postings and are read five at a time all the same.
IsFile(f) ==
    /\ f.table \in Seq(Nat \ {0})
    /\ f.dat \in Seq(HciCell)
    /\ \A p \in 1..Len(f.dat) : f.dat[p].kind = "header" => f.dat[p].key \in Keys
    /\ f.misread \in [1..Len(f.dat) -> [1..Len(f.dat) -> Seq(Nat)]]

ASSUME FilesAssumption == \A f \in Files : IsFile(f)
ASSUME KeysAssumption ==
    /\ NoKey \notin Keys
    /\ CallKeys \subseteq Keys
    /\ YearOf \in [Keys -> Nat]
    /\ PlausibleYears \subseteq Nat \ {NoYear}
ASSUME HashAssumption == Hash \in [Keys -> Nat]

-----------------------------------------------------------------------------
(* Records (raw_record, decode_header_key).                                 *)

Ordinals(f) == 1..Len(f.table)
Start(f, i) == f.table[i]
\* The record ends where the next one of the table begins, the last one with
\* the file.
End(f, i) == IF i = Len(f.table) THEN Len(f.dat) + 1 ELSE f.table[i + 1]

\* raw_record: both ends lie in the file and are in order.
InBounds(f, i) == Start(f, i) <= End(f, i) /\ End(f, i) <= Len(f.dat) + 1

\* decode_header_key.
HasHeader(f, i) ==
    /\ InBounds(f, i)
    /\ Start(f, i) < End(f, i)
    /\ f.dat[Start(f, i)].kind = "header"
Header(f, i) == f.dat[Start(f, i)].key

\* visit_postings of what is behind the header, but for its last byte: the
\* cells that are read as the postings they are, and what comes of the bytes
\* from the first cell on that is no posting.
Misfits(f, i) ==
    {p \in (Start(f, i) + 1)..(End(f, i) - 1) :
        \/ f.dat[p].kind = "header"
        \/ f.dat[p].kind = "close" /\ p < End(f, i) - 1}
ReadRight(f, i) ==
    {q \in (Start(f, i) + 1)..(End(f, i) - 2) :
        \A p \in Misfits(f, i) : q < p}
ReadWrong(f, i) ==
    IF Misfits(f, i) = {} THEN <<>>
    ELSE LET p == CHOOSE p \in Misfits(f, i) : \A q \in Misfits(f, i) : p <= q
         IN  f.misread[p][End(f, i) - 1]
OffsetsOf(f, i) ==
    {f.dat[q].offset : q \in ReadRight(f, i)}
        \cup {ReadWrong(f, i)[n] : n \in 1..Len(ReadWrong(f, i))}

VARIABLES
    hci,        \* the file
    phase,      \* "index", "idle", "visit" or "count"
    next,       \* the next ordinal, or the next position in entries
    entries,    \* key_index
    years,      \* publication_years
    key,        \* the key searched for
    visited,    \* the ordinals of the records visited for it
    counted     \* counted[y]: of callsign_posting_statistics, the postings so
                \* far and their offsets, current (NoYear) or of one year

vars == <<hci, phase, next, entries, years, key, visited, counted>>

Editions == PlausibleYears \cup {NoYear}
NothingCounted == [y \in Editions |-> [postings |-> 0, offsets |-> {}]]

Init ==
    /\ hci \in Files
    /\ phase = "index"
    /\ next = 1
    /\ entries = <<>>
    /\ years = <<>>
    /\ key = NoKey
    /\ visited = <<>>
    /\ counted = NothingCounted

-----------------------------------------------------------------------------
(* Opening: build_key_index.                                                *)

\* push_hci_key_ref passes over a record without bounds or header.
PassRecord ==
    /\ phase = "index"
    /\ next <= Len(hci.table)
    /\ ~HasHeader(hci, next)
    /\ next' = next + 1
    /\ UNCHANGED <<hci, phase, entries, years, key, visited, counted>>

\* push_hci_key_ref of a record with a header.
IndexRecord ==
    /\ phase = "index"
    /\ next <= Len(hci.table)
    /\ HasHeader(hci, next)
    /\ entries' = Append(entries, [hash |-> Hash[Header(hci, next)], index |-> next])
    /\ years' = IF YearOf[Header(hci, next)] = NoYear THEN years
                ELSE Append(years, YearOf[Header(hci, next)])
    /\ next' = next + 1
    /\ UNCHANGED <<hci, phase, key, visited, counted>>

\* The order of the list: by hash, then by ordinal.
Before(a, b) == a.hash < b.hash \/ (a.hash = b.hash /\ a.index < b.index)

\* sort_unstable_by: what was pushed, in order.
SortedEntries(s) ==
    {t \in [1..Len(s) -> {s[i] : i \in 1..Len(s)}] :
        /\ {t[i] : i \in 1..Len(s)} = {s[i] : i \in 1..Len(s)}
        /\ \A i, j \in 1..Len(s) : i < j => Before(t[i], t[j])}

\* Deviation: sorted but not deduplicated.
SortedRepeating(s) ==
    {t \in [1..Len(s) -> {s[i] : i \in 1..Len(s)}] :
        /\ {t[i] : i \in 1..Len(s)} = {s[i] : i \in 1..Len(s)}
        /\ \A i, j \in 1..Len(s) : i < j => t[i] <= t[j]}

\* sort_unstable and dedup of the years.
SortedYears(s) ==
    LET all == {s[i] : i \in 1..Len(s)}
    IN  UNION {{t \in [1..n -> all] :
                   /\ {t[i] : i \in 1..n} = all
                   /\ \A i, j \in 1..n : i < j => t[i] < t[j]} : n \in 0..Len(s)}

Opened ==
    /\ phase = "index"
    /\ next > Len(hci.table)
    /\ entries' \in SortedEntries(entries)
    /\ years' \in SortedYears(years)
    /\ phase' = "idle"
    /\ next' = 1
    /\ UNCHANGED <<hci, key, visited, counted>>

-----------------------------------------------------------------------------
(* Searching: visit_postings_for_key and visit_records_for_key.             *)

\* partition_point: how many entries come first that have a smaller hash, or
\* one that is not greater.
Smaller(h) ==
    CHOOSE n \in 0..Len(entries) :
        /\ \A i \in 1..n : entries[i].hash < h
        /\ \A i \in (n + 1)..Len(entries) : entries[i].hash >= h
NotGreater(h) ==
    CHOOSE n \in 0..Len(entries) :
        /\ \A i \in 1..n : entries[i].hash <= h
        /\ \A i \in (n + 1)..Len(entries) : entries[i].hash > h

Ask(k) ==
    /\ phase = "idle"
    /\ phase' = "visit"
    /\ key' = k
    /\ visited' = <<>>
    /\ next' = Smaller(Hash[k]) + 1
    /\ UNCHANGED <<hci, entries, years, counted>>

InRun == phase = "visit" /\ next <= NotGreater(Hash[key])
Here == entries[next].index

\* decoded_header_matches: the record is the key's.
Visit ==
    /\ InRun
    /\ Header(hci, Here) = key
    /\ visited' = Append(visited, Here)
    /\ next' = next + 1
    /\ UNCHANGED <<hci, phase, entries, years, key, counted>>

\* Deviation: the first record of another key ends the search.
CollisionEnds ==
    /\ InRun
    /\ Header(hci, Here) # key
    /\ phase' = "idle"
    /\ next' = 1
    /\ UNCHANGED <<hci, entries, years, key, visited, counted>>

\* A record of another key with the same hash.
Collision ==
    /\ InRun
    /\ Header(hci, Here) # key
    /\ next' = next + 1
    /\ UNCHANGED <<hci, phase, entries, years, key, visited, counted>>

Answered ==
    /\ phase = "visit"
    /\ next > NotGreater(Hash[key])
    /\ phase' = "idle"
    /\ next' = 1
    /\ UNCHANGED <<hci, entries, years, key, visited, counted>>

-----------------------------------------------------------------------------
(* callsign_posting_statistics: a pass over all records, without the key    *)
(* index.  The totals of the archive are sums and unions over its years.    *)

Count ==
    /\ phase = "idle"
    /\ phase' = "count"
    /\ counted' = NothingCounted
    /\ key' = NoKey
    /\ visited' = <<>>
    /\ next' = 1
    /\ UNCHANGED <<hci, entries, years>>

\* The record counts: it has a callsign for a key, of a plausible year if any.
Counts(f, i) ==
    /\ HasHeader(f, i)
    /\ Header(f, i) \in CallKeys
    /\ YearOf[Header(f, i)] \in Editions

\* Deviation: a posting counts only if its offset is a new one.
CountedNew(f, i, so) ==
    LET y == YearOf[Header(f, i)]
    IN  [so EXCEPT ![y] =
            [postings |-> @.postings + Cardinality(OffsetsOf(f, i) \ @.offsets),
             offsets |-> @.offsets \cup OffsetsOf(f, i)]]

\* Every posting of the record counts, and its offset if it is a new one.
CountedWith(f, i, so) ==
    LET y == YearOf[Header(f, i)]
    IN  [so EXCEPT ![y] =
            [postings |-> @.postings + Cardinality(ReadRight(f, i))
                              + Len(ReadWrong(f, i)),
             offsets |-> @.offsets \cup OffsetsOf(f, i)]]

CountRecord ==
    /\ phase = "count"
    /\ next <= Len(hci.table)
    /\ counted' = IF Counts(hci, next) THEN CountedWith(hci, next, counted)
                  ELSE counted
    /\ next' = next + 1
    /\ UNCHANGED <<hci, phase, entries, years, key, visited>>

Counted ==
    /\ phase = "count"
    /\ next > Len(hci.table)
    /\ phase' = "idle"
    /\ next' = 1
    /\ UNCHANGED <<hci, entries, years, key, visited, counted>>

Next ==
    \/ PassRecord \/ IndexRecord \/ Opened
    \/ \E k \in Keys : Ask(k)
    \/ Visit \/ Collision \/ Answered
    \/ Count \/ CountRecord \/ Counted

Spec == Init /\ [][Next]_vars

-----------------------------------------------------------------------------
(* Properties.                                                              *)

RecordsOf(f, k) == {i \in Ordinals(f) : HasHeader(f, i) /\ Header(f, i) = k}
Visited == {visited[n] : n \in 1..Len(visited)}

\* Types, and what the key index holds: valid records with their hashes.
TypeOK ==
    /\ hci \in Files
    /\ phase \in {"index", "idle", "visit", "count"}
    /\ next \in Nat \ {0}
    /\ entries \in Seq([hash : Nat, index : Ordinals(hci)])
    /\ years \in Seq(Nat)
    /\ key \in Keys \cup {NoKey}
    /\ visited \in Seq(Ordinals(hci))
    /\ counted \in [Editions -> [postings : Nat, offsets : SUBSET Nat]]

\* A search visits the records with this header, each once and in the order
\* of the table, whatever hashes collide and whichever entries of the table
\* are damaged: what a pass over the whole table finds.
SearchIsScan ==
    /\ Visited \subseteq RecordsOf(hci, key)
    /\ \A m, n \in 1..Len(visited) : m < n => visited[m] < visited[n]
    /\ phase = "idle" => Visited = RecordsOf(hci, key)

\* The publication years, which every lookup of an archive key runs through,
\* are those of all headers, each once and in order.
YearsComplete ==
    phase # "index" =>
        /\ {years[n] : n \in 1..Len(years)}
               = {YearOf[Header(hci, i)] : i \in {j \in Ordinals(hci) : HasHeader(hci, j)}}
                     \ {NoYear}
        /\ \A m, n \in 1..Len(years) : m < n => years[m] < years[n]

\* A file as it is written: records of a header, postings and a closing byte,
\* and a table of their starts in order.
WellFormed(f) ==
    /\ {f.table[i] : i \in Ordinals(f)}
           = {p \in 1..Len(f.dat) : f.dat[p].kind = "header"}
    /\ \A i, j \in Ordinals(f) : i < j => f.table[i] < f.table[j]
    /\ Len(f.dat) > 0 => f.dat[1].kind = "header"
    /\ \A p \in 1..Len(f.dat) :
           f.dat[p].kind = "close" <=>
               p = Len(f.dat) \/ f.dat[p + 1].kind = "header"

\* The postings of an edition: those whose nearest header is a callsign of it.
PostingsOf(f, y) ==
    {q \in 1..Len(f.dat) :
        /\ f.dat[q].kind = "posting"
        /\ \E p \in 1..q :
               /\ f.dat[p].kind = "header"
               /\ \A r \in (p + 1)..q : f.dat[r].kind # "header"
               /\ f.dat[p].key \in CallKeys
               /\ YearOf[f.dat[p].key] = y}

\* The statistics of an undamaged HCI are those of its postings, seen one by
\* one without the table: every posting under a callsign counts once and in
\* the year of its own header, the first record's and the last one's, those of
\* a key that has two records, and an offset that many keys share is one.
StatisticsComplete ==
    phase = "count" /\ next > Len(hci.table) /\ WellFormed(hci) =>
        \A y \in Editions :
            /\ counted[y].postings = Cardinality(PostingsOf(hci, y))
            /\ counted[y].offsets = {hci.dat[q].offset : q \in PostingsOf(hci, y)}
=============================================================================
