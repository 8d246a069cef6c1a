------------------------------ MODULE HamCallData ------------------------------
(***************************************************************************)
(* An open database as a lookup sees it: the US catalog, hamcall.dat, the   *)
(* sorted hamcall.idx and the HCI, and what the indexes answer (TextIdxFile *)
(* of idx_text.rs, HciFile of hci.rs, raw_record_for and the record bounds  *)
(* of db.rs).  The database never changes while it is open.                 *)
(***************************************************************************)
EXTENDS Records

CONSTANTS
    Databases,      \* the databases that may be open
    Calls,          \* the callsigns that are looked up, as normalized
    WindowLengths   \* lengths of the windows behind a posting, ascending

\* An open database: the current US catalog, hamcall.dat, hamcall.idx in
\* sorted order, the postings under each HCI key and the publication years.
\* Offsets count cells from 1.
Key == [call : Call, year : Vintage]
Entry == [key : Key, offset : Nat \ {0}]
IsDatabase(d) ==
    /\ d.csv \in [Calls -> Snapshot \cup {NoSnapshot}]
    /\ \A c \in Calls : d.csv[c] # NoSnapshot =>
           /\ d.csv[c].call = c /\ d.csv[c].vintage = NoYear
           /\ \A f \in RawTags : d.csv[c].text[f] = NoText
    /\ d.dat \in Seq(Cell)
    /\ d.idx \in Seq(Entry)
    /\ DOMAIN d.hci \subseteq Key
    /\ \A k \in DOMAIN d.hci : d.hci[k] \in Seq(Nat \ {0})
    /\ d.years \in Seq(Years)

ASSUME DatabasesAssumption == \A d \in Databases : IsDatabase(d)
ASSUME CallsAssumption ==
    /\ Calls \subseteq Call
    /\ \A c \in Calls : c # <<>>
ASSUME WindowsAssumption ==
    /\ WindowLengths \in Seq(Nat \ {0})
    /\ Len(WindowLengths) > 0

-----------------------------------------------------------------------------
(* What the indexes and the file say.                                       *)

\* Deviation: the pass over `call:YYYY` is left out when the bare callsign is
\* listed.
EntriesOfOnePass(d, call) ==
    LET bare == {i \in 1..Len(d.idx) :
                    d.idx[i].key = [call |-> call, year |-> NoYear]}
    IN  IF bare # {} THEN {Min(bare)}
        ELSE {i \in 1..Len(d.idx) : d.idx[i].key.call = call}

\* find_callsign_all: the positions of the first entry of the bare callsign
\* and of every entry of `call:YYYY`.
EntriesOf(d, call) ==
    {i \in 1..Len(d.idx) :
        /\ d.idx[i].key.call = call
        /\ d.idx[i].key.year = NoYear =>
               \A j \in 1..(i - 1) : d.idx[j].key # d.idx[i].key}

\* Where the slice of entry i ends: next_entry_after_key finds the first
\* entry with a greater key, and its offset is clamped to the file.
SliceEnd(d, i) ==
    LET later == {j \in (i + 1)..Len(d.idx) : d.idx[j].key # d.idx[i].key}
        next == IF later = {} THEN Len(d.dat) + 1 ELSE d.idx[Min(later)].offset
    IN  IF next <= Len(d.dat) THEN next - 1 ELSE Len(d.dat)

Suffix(call) == IF Len(call) > 1 THEN Tail(call) ELSE call

\* The postings of every record with this header (visit_postings_for_key).
PostingsUnder(d, key) == IF key \in DOMAIN d.hci THEN d.hci[key] ELSE <<>>

\* visit_hci_lookup_keys: the callsign and its suffix, bare or of one year.
PostingsOf(d, call, year) ==
    LET under(c) == PostingsUnder(d, [call |-> c, year |-> year])
    IN  IF Suffix(call) = call THEN under(call)
        ELSE under(call) \o under(Suffix(call))

\* The first record start at or behind a position, or the end of the file.
NextMark(d, from) ==
    LET marks == {i \in from..Len(d.dat) : IsMark(d.dat[i])}
    IN  IF marks = {} THEN Len(d.dat) + 1 ELSE Min(marks)

\* record_bounds_for_hci_posting: first and last position of the record that
\* starts at the offset, or of the one that contains it.
RecordAt(d, offset) ==
    LET starts == {i \in 1..offset : i <= Len(d.dat) /\ IsMark(d.dat[i])}
    IN  IF offset > Len(d.dat) \/ starts = {} THEN <<1, 0>>
        ELSE <<Max(starts), NextMark(d, Max(starts) + 1) - 1>>

\* decode_from_offset_into.
PositionsFrom(d, offset, length) ==
    IF offset > Len(d.dat) THEN <<1, 0>>
    ELSE <<offset, Min({offset + length - 1, Len(d.dat)})>>

\* The windows 1024, 2048 and 4096 are parsed for complete records only, the
\* last one of 8192 bytes is not (attempt 0 is the record itself).
CompleteOnly(attempt) == attempt > 0 /\ attempt < Len(WindowLengths)

NoAnswer == [query |-> <<>>, status |-> "none", current |-> NoSnapshot,
             history |-> <<>>]
Rejection == [NoAnswer EXCEPT !.status = "InvalidCallsign"]
=============================================================================
