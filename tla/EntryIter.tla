------------------------------- MODULE EntryIter -------------------------------
(***************************************************************************)
(* CallBook::entries: the walk over every callsign of the IDX and the US    *)
(* catalog, each looked up once (Entries, EntryIter and stat_key_parts of   *)
(* db.rs).  The walk is consumed item by item (`iterate`) or by             *)
(* Entries::run, which gives up at the first error (`run`).                 *)
(*                                                                          *)
(* A candidate is the text of a key or of a catalog row as it is spelled    *)
(* there.  Its lookup is CallBook::lookup, that is LookupReport of the      *)
(* callsign that Callsign::parse makes of the text, or an error for a text  *)
(* that it refuses.  The catalog folds its rows to upper case when it is    *)
(* opened; the keys of the IDX are taken as they are.                       *)
(***************************************************************************)
EXTENDS LookupAnswers

CONSTANTS
    Spellings,      \* texts of IDX keys and catalog rows, upper case or not
    Refused,        \* those that Callsign::parse refuses
    Normal,         \* Normal[t]: the callsign that it makes of any other text
    Sentinels,      \* `!!!` and `ZZZZZZZZ`
    PlausibleYears  \* 1900 to 2099

ASSUME SpellingsAssumption ==
    /\ Calls \subseteq Spellings
    /\ <<>> \in Spellings => <<>> \in Refused
ASSUME NormalAssumption ==
    /\ Refused \subseteq Spellings
    /\ Normal \in [Spellings \ Refused -> Calls \ Refused]
    /\ \A c \in Calls \ Refused : Normal[c] = c
ASSUME KeysAssumption ==
    \A d \in Databases : \A i \in 1..Len(d.idx) :
        d.idx[i].key.call \in Spellings
ASSUME PlausibleAssumption == PlausibleYears \subseteq Years
ASSUME FiniteAssumption == IsFiniteSet(Spellings)

VARIABLES
    db,         \* the open database
    catalog,    \* the callsigns of the US catalog, sorted (in any order here)
    history,    \* include_history
    consumer,   \* "iterate" or "run"
    phase,      \* "ModernIdx", "UsCsv", "Done", or "stopped" by run
    position,   \* the next key of the phase
    candidate,  \* the text that next_callsign came up with
    seen,       \* texts that were candidates
    items       \* what the iterator returned

vars == <<db, catalog, history, consumer, phase, position, candidate, seen,
          items>>

NoCandidate == <<>>
Item(kind, report) == [kind |-> kind, report |-> report]
FailureOf(text) == Item("Err", [Rejection EXCEPT !.query = text])

Init ==
    /\ db \in Databases
    /\ catalog \in SetToSeqs({c \in Calls : db.csv[c] # NoSnapshot})
    /\ history \in BOOLEAN
    /\ consumer \in {"iterate", "run"}
    /\ phase = "ModernIdx"
    /\ position = 1
    /\ candidate = NoCandidate
    /\ seen = {}
    /\ items = <<>>

\* stat_key_parts gives the text of a callsign, and the walk wants keys of this
\* vintage.
Selected(key) ==
    /\ key.call \notin Refused
    /\ key.year = NoYear => key.call \notin Sentinels
    /\ key.year \in {NoYear} \cup PlausibleYears
    /\ ~history => key.year = NoYear

Searching == candidate = NoCandidate

PassKey ==
    /\ phase = "ModernIdx" /\ Searching
    /\ position <= Len(db.idx)
    /\ ~Selected(db.idx[position].key)
    /\ position' = position + 1
    /\ UNCHANGED <<db, catalog, history, consumer, phase, candidate, seen, items>>

TakeKey ==
    /\ phase = "ModernIdx" /\ Searching
    /\ position <= Len(db.idx)
    /\ Selected(db.idx[position].key)
    /\ candidate' = db.idx[position].key.call
    /\ position' = position + 1
    /\ UNCHANGED <<db, catalog, history, consumer, phase, seen, items>>

\* Deviation: the walk ends with the IDX.
KeysDoneForGood ==
    /\ phase = "ModernIdx" /\ Searching
    /\ position > Len(db.idx)
    /\ phase' = "Done"
    /\ position' = 1
    /\ UNCHANGED <<db, catalog, history, consumer, candidate, seen, items>>

\* Deviation: the walk starts over.
KeysDoneAgain ==
    /\ phase = "ModernIdx" /\ Searching
    /\ position > Len(db.idx)
    /\ position' = 1
    /\ UNCHANGED <<db, catalog, history, consumer, phase, candidate, seen, items>>

KeysDone ==
    /\ phase = "ModernIdx" /\ Searching
    /\ position > Len(db.idx)
    /\ phase' = "UsCsv"
    /\ position' = 1
    /\ UNCHANGED <<db, catalog, history, consumer, candidate, seen, items>>

TakeRow ==
    /\ phase = "UsCsv" /\ Searching
    /\ position <= Len(catalog)
    /\ candidate' = catalog[position]
    /\ position' = position + 1
    /\ UNCHANGED <<db, catalog, history, consumer, phase, seen, items>>

RowsDone ==
    /\ phase = "UsCsv" /\ Searching
    /\ position > Len(catalog)
    /\ phase' = "Done"
    /\ UNCHANGED <<db, catalog, history, consumer, position, candidate, seen,
                   items>>

\* Deviation: a candidate is considered however often it comes up.
ConsiderAlways ==
    /\ candidate # NoCandidate
    /\ seen' = seen \cup {candidate}
    /\ candidate' = NoCandidate
    /\ UNCHANGED <<db, catalog, history, consumer, position>>

\* A new candidate is marked as seen before it is looked up.
Consider ==
    /\ candidate # NoCandidate
    /\ candidate \notin seen
    /\ seen' = seen \cup {candidate}
    /\ candidate' = NoCandidate
    /\ UNCHANGED <<db, catalog, history, consumer, position>>

Repeated ==
    /\ candidate # NoCandidate
    /\ candidate \in seen
    /\ candidate' = NoCandidate
    /\ UNCHANGED <<db, catalog, history, consumer, phase, position, seen, items>>

\* Deviation: run goes on after an error.
FailGoingOn ==
    /\ Consider
    /\ candidate \in Refused
    /\ items' = Append(items, FailureOf(candidate))
    /\ UNCHANGED phase

\* The lookup fails; `entry?` ends run.
Fail ==
    /\ Consider
    /\ candidate \in Refused
    /\ items' = Append(items, FailureOf(candidate))
    /\ phase' = IF consumer = "run" THEN "stopped" ELSE phase

\* Without history there is nothing left of an entry without a current record.
Suppress ==
    /\ Consider
    /\ candidate \notin Refused
    /\ ~history
    /\ AllReports[db][Normal[candidate]].current = NoSnapshot
    /\ UNCHANGED <<phase, items>>

Presented(report) ==
    IF history THEN report ELSE [report EXCEPT !.history = <<>>]

Return ==
    /\ Consider
    /\ candidate \notin Refused
    /\ LET report == AllReports[db][Normal[candidate]]
       IN  /\ history \/ report.current # NoSnapshot
           /\ items' = Append(items, Item("Ok", Presented(report)))
    /\ UNCHANGED phase

Next ==
    \/ PassKey \/ TakeKey \/ KeysDone \/ TakeRow \/ RowsDone
    \/ Repeated \/ Fail \/ Suppress \/ Return

Spec == Init /\ [][Next]_vars
FairSpec == Spec /\ WF_vars(Next)

-----------------------------------------------------------------------------
(* Properties.                                                              *)

ReportType == [query : Call, status : {"Current", "ArchiveOnly", "NotFound",
                                       "InvalidCallsign"},
               current : Snapshot \cup {NoSnapshot}, history : Seq(Snapshot)]

\* The type invariant.
TypeOK ==
    /\ db \in Databases
    /\ Range(catalog) \subseteq Calls
    /\ history \in BOOLEAN
    /\ consumer \in {"iterate", "run"}
    /\ phase \in {"ModernIdx", "UsCsv", "Done", "stopped"}
    /\ position \in 1..(Max({Len(db.idx), Len(catalog)}) + 1)
    /\ candidate \in Spellings \cup {NoCandidate}
    /\ seen \subseteq Spellings
    /\ items \in Seq([kind : {"Ok", "Err"}, report : ReportType])

\* The texts a walk is to come to, in either source.
KeyTexts(years) == {db.idx[i].key.call : i \in {j \in 1..Len(db.idx) :
                                              db.idx[j].key.year \in years}}
Known ==
    (KeyTexts({NoYear}) \ Sentinels)
        \cup (IF history THEN KeyTexts(PlausibleYears) ELSE {})
        \cup Range(catalog)

\* What an item made of a text is called by.
NameOf(text) == IF text \in Refused THEN text ELSE Normal[text]
ItemsOf(name) == {i \in 1..Len(items) : items[i].report.query = name}
SpellingsOf(name) == {t \in Known : NameOf(t) = name}

\* A callsign comes up no more often than its IDX keys and its catalog row
\* spell it differently: once when all are upper case, however many there are,
\* twice when there is a lower-case key too, for EntryIter::seen compares
\* texts.  The error of a text that cannot be looked up comes once.
EachOnce ==
    \A i \in 1..Len(items) :
        LET name == items[i].report.query
        IN  Cardinality(ItemsOf(name)) <= Cardinality(SpellingsOf(name))

Given == {items[i].report.query : i \in {j \in 1..Len(items) : items[j].kind = "Ok"}}

\* A finished walk has given every callsign of the two sources that it was to
\* give: none is lost to a repetition, a suppressed entry or an error before.
NothingLost ==
    phase = "Done" =>
        LET callsigns == {Normal[t] : t \in Known \ Refused}
        IN  Given = {c \in callsigns :
                        history \/ AllReports[db][c].current # NoSnapshot}

\* Entries::run sees no more than one error, and nothing after it.
RunStopsAtError ==
    consumer = "run" =>
        \A i \in 1..Len(items) : items[i].kind = "Err" => i = Len(items)

\* Every walk ends.
WalkEnds == <>(phase \in {"Done", "stopped"})
=============================================================================
