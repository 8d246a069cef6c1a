------------------------------- MODULE CountTable -------------------------------
(***************************************************************************)
(* The lookup-count table of counts.dat: the binary search and the listing  *)
(* of its fixed-width slots (LookupCountFile, LookupCounts and              *)
(* LookupCountIter of sidecar.rs).                                          *)
(*                                                                          *)
(* A slot has a key, maybe blank, and a count that may not be a number.     *)
(* Keys are numbered in byte order.  The file is mapped when it is opened   *)
(* and nothing checks its order, so any table may be there; positions count *)
(* from 0, as in the code.                                                  *)
(***************************************************************************)
EXTENDS Integers, FiniteSets, Sequences

CONSTANTS
    Tables,     \* the tables that may be opened
    Asked,      \* the keys that are looked up, upper case and not blank
    Bangs,      \* the keys made of `!` only
    Zeds        \* the keys made of `z` only

Blank == 0
Slot == [key : Nat, counted : BOOLEAN]

ASSUME TablesAssumption == Tables \subseteq Seq(Slot)
ASSUME KeysAssumption == Asked \subseteq Nat \ {Blank}

VARIABLES
    table,      \* the mapped slots
    pc,         \* "idle", "searching" or "listing"
    target,     \* the key searched for
    low, high,  \* what is left of the search
    outcome,    \* how the last search ended: "none", "record" or "nothing"
    index,      \* the slot of the record that was found
    next,       \* the next slot of the listing
    listed      \* the slots whose records the listing gave

vars == <<table, pc, target, low, high, outcome, index, next, listed>>

Records == Len(table)
KeyAt(i) == table[i + 1].key
CountedAt(i) == table[i + 1].counted

\* has_prologue_and_sentinels
HasPrologue ==
    /\ Records >= 4
    /\ KeyAt(0) = Blank
    /\ KeyAt(2) \in Bangs
    /\ KeyAt(Records - 1) \in Zeds

\* Deviation: the `!` sentinel is searched too.
FirstSearchableAtBang == IF HasPrologue THEN 2 ELSE 0

\* searchable_record_range: from the first slot up to the end.
FirstSearchable == IF HasPrologue THEN 3 ELSE 0
EndSearchable == IF HasPrologue THEN Records - 1 ELSE Records
Searchable == FirstSearchable..(EndSearchable - 1)

\* parse_count_record: no record without a key and a count.
IsRecord(i) == KeyAt(i) # Blank /\ CountedAt(i)

Init ==
    /\ table \in Tables
    /\ pc = "idle"
    /\ target = Blank
    /\ low = 0
    /\ high = 0
    /\ outcome = "none"
    /\ index = 0
    /\ next = 0
    /\ listed = {}

\* lookup(callsign)
Ask(key) ==
    /\ pc = "idle"
    /\ pc' = "searching"
    /\ target' = key
    /\ low' = FirstSearchable
    /\ high' = EndSearchable
    /\ outcome' = "none"
    /\ UNCHANGED <<table, index, next, listed>>

\* lookup of a callsign that is empty once trimmed.
AskBlank ==
    /\ pc = "idle"
    /\ outcome' = "nothing"
    /\ target' = Blank
    /\ UNCHANGED <<table, pc, low, high, index, next, listed>>

Middle == low + ((high - low) \div 2)

Searching == pc = "searching" /\ low < high

\* The middle slot is blank, or its key is smaller than the target.
GoRight ==
    /\ Searching
    /\ KeyAt(Middle) = Blank \/ KeyAt(Middle) < target
    /\ low' = Middle + 1
    /\ UNCHANGED <<table, pc, target, high, outcome, index, next, listed>>

\* Deviation: one slot too many is given up.
GoLeftTooFar ==
    /\ Searching
    /\ KeyAt(Middle) > target
    /\ high' = Middle - 1
    /\ UNCHANGED <<table, pc, target, low, outcome, index, next, listed>>

GoLeft ==
    /\ Searching
    /\ KeyAt(Middle) > target
    /\ high' = Middle
    /\ UNCHANGED <<table, pc, target, low, outcome, index, next, listed>>

\* The key is there; its record may still not parse.
Hit ==
    /\ Searching
    /\ KeyAt(Middle) = target
    /\ pc' = "idle"
    /\ outcome' = IF IsRecord(Middle) THEN "record" ELSE "nothing"
    /\ index' = Middle
    /\ UNCHANGED <<table, target, low, high, next, listed>>

Miss ==
    /\ pc = "searching"
    /\ low >= high
    /\ pc' = "idle"
    /\ outcome' = "nothing"
    /\ UNCHANGED <<table, target, low, high, index, next, listed>>

\* LookupCounts::iter
StartListing ==
    /\ pc = "idle"
    /\ pc' = "listing"
    /\ next' = FirstSearchable
    /\ listed' = {}
    /\ UNCHANGED <<table, target, low, high, outcome, index>>

\* Deviation: the listing ends at the first slot that does not parse.
ListNextStrict ==
    /\ pc = "listing"
    /\ next < EndSearchable
    /\ next' = IF IsRecord(next) THEN next + 1 ELSE EndSearchable
    /\ listed' = IF IsRecord(next) THEN listed \cup {next} ELSE listed
    /\ UNCHANGED <<table, pc, target, low, high, outcome, index>>

\* LookupCountIter::next, one slot of its loop: a slot that does not parse is
\* passed over.
ListNext ==
    /\ pc = "listing"
    /\ next < EndSearchable
    /\ next' = next + 1
    /\ listed' = IF IsRecord(next) THEN listed \cup {next} ELSE listed
    /\ UNCHANGED <<table, pc, target, low, high, outcome, index>>

ListEnds ==
    /\ pc = "listing"
    /\ next >= EndSearchable
    /\ pc' = "idle"
    /\ UNCHANGED <<table, target, low, high, outcome, index, next, listed>>

Step == GoRight \/ GoLeft \/ Hit \/ Miss \/ ListNext \/ ListEnds

Next == (\E key \in Asked : Ask(key)) \/ AskBlank \/ StartListing \/ Step

Spec == Init /\ [][Next]_vars

-----------------------------------------------------------------------------
(* Properties.                                                              *)

\* The type invariant; the search stays inside the searchable slots and its
\* bounds never cross.
TypeOK ==
    /\ table \in Tables
    /\ pc \in {"idle", "searching", "listing"}
    /\ target \in Asked \cup {Blank}
    /\ low \in 0..Records
    /\ high \in 0..Records
    /\ pc = "searching" => FirstSearchable <= low /\ low <= high
                           /\ high <= EndSearchable
    /\ outcome \in {"none", "record", "nothing"}
    /\ index \in Nat
    /\ next \in 0..Records
    /\ listed \subseteq 0..(Records - 1)

\* Whatever the table holds, a record that is returned is the record of the
\* callsign asked for, and neither part of the prologue nor a sentinel (the
\* Equal arm of LookupCountFile::lookup and the range it starts from).
FoundIsAsked ==
    outcome = "record" =>
        /\ index \in 0..(Records - 1)
        /\ KeyAt(index) = target
        /\ CountedAt(index)
        /\ HasPrologue => index \notin {0, 1, 2, Records - 1}

\* Blank slots come first and the keys increase.
Ordered ==
    \A i, j \in Searchable :
        i < j => KeyAt(i) < KeyAt(j) \/ (KeyAt(i) = Blank /\ KeyAt(j) = Blank)

\* In an ordered table a lookup finds nothing only when there is no record
\* under that key: skipping to the right of a blank slot loses nothing there.
MissMeansAbsent ==
    (Ordered /\ outcome = "nothing") =>
        \A i \in Searchable : KeyAt(i) = target => ~IsRecord(i)

\* A listing gives the record of every searchable slot that parses, whatever
\* stands between them, and in an ordered table no two of one key
\* (LookupCountIter::next; the C catalog is collected from it).
ListingComplete ==
    /\ (pc = "listing" /\ next >= EndSearchable) =>
           listed = {i \in Searchable : IsRecord(i)}
    /\ Ordered => \A i, j \in listed : KeyAt(i) = KeyAt(j) => i = j
=============================================================================
