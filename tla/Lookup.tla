-------------------------------- MODULE Lookup --------------------------------
(***************************************************************************)
(* BatchLookup over an open database: one callsign after the other, with a  *)
(* scratch that is reused (lookup_report_with_scratch, lookup_dat_idx and   *)
(* lookup_hci_into of db.rs, the parse loops of v2_record.rs).              *)
(*                                                                          *)
(* A lookup starts from the US catalog, decodes the slice of hamcall.dat of *)
(* each IDX entry of the callsign, merges what it found, then decodes the   *)
(* record under every HCI posting of the callsign's keys, retrying with     *)
(* larger windows when that record is not the callsign's, merges again and  *)
(* sorts the history.  The database is immutable; any that `Databases`      *)
(* holds may have been opened.                                              *)
(***************************************************************************)
EXTENDS LookupAnswers

CONSTANT
    MaxLookups      \* bound: lookups of one batch

ASSUME LookupBound == MaxLookups \in Nat

VARIABLES
    db,         \* the open database
    pc,         \* what the lookup is doing
    query,      \* the callsign being looked up
    report,     \* current and history so far
    source,     \* the index being visited
    at,         \* the last IDX position visited, or how many publication
                \* years have been searched in the HCI
    todo,       \* postings of the present keys not yet visited
    queue,      \* snapshots parsed from this index, not yet merged
    window,     \* what the parser was given: positions first..last of dat,
                \* the default call, the posting and the attempt
    cursor,     \* where the next segment starts
    found,      \* snapshots of this window
    seen,       \* scratch: offsets already decoded for this callsign
    answer,     \* what the last lookup returned
    lookups,    \* lookups done
    partial     \* a matching record was cut by the end of a window (history)

vars == <<db, pc, query, report, source, at, todo, queue, window, cursor,
          found, seen, answer, lookups, partial>>

EmptyReport == [current |-> NoSnapshot, history |-> <<>>]

Init ==
    /\ db \in Databases
    /\ pc = "idle"
    /\ query = <<>>
    /\ report = EmptyReport
    /\ source = "HamCallDatIdx"
    /\ at = 0
    /\ todo = <<>>
    /\ queue = <<>>
    /\ window = Window(1, 0, NoDefault, 1, 0)
    /\ cursor = 1
    /\ found = <<>>
    /\ seen = {}
    /\ answer = NoAnswer
    /\ lookups = 0
    /\ partial = FALSE

-----------------------------------------------------------------------------
(* The lookup.                                                              *)

\* Callsign::parse refuses the input: the error leaves the scratch alone.
Reject ==
    /\ pc = "idle" /\ lookups < MaxLookups
    /\ answer' = Rejection
    /\ lookups' = lookups + 1
    /\ UNCHANGED <<db, pc, query, report, source, at, todo, queue, window,
                   cursor, found, seen, partial>>

Begin(c) ==
    /\ pc = "idle" /\ lookups < MaxLookups
    /\ pc' = "visit"
    /\ query' = c
    /\ report' = [current |-> db.csv[c], history |-> <<>>]
    /\ source' = "HamCallDatIdx"
    /\ at' = 0
    /\ queue' = <<>>
    /\ partial' = FALSE
    /\ UNCHANGED <<db, todo, window, cursor, found, seen, answer, lookups>>

\* The parser is given a window; it starts with nothing found.
StartParse(w) ==
    /\ pc' = "parse"
    /\ window' = w
    /\ cursor' = w.first
    /\ found' = <<>>

\* Entry i of the IDX is the next one of the callsign.
NextEntry(i) ==
    /\ pc = "visit" /\ source = "HamCallDatIdx"
    /\ i \in EntriesOf(db, query)
    /\ \A j \in EntriesOf(db, query) : j > at => i <= j
    /\ i > at
    /\ at' = i

\* The slice of the entry is parsed with the call of its key as default.
VisitEntry(i) ==
    LET e == db.idx[i]
    IN  /\ NextEntry(i)
        /\ e.offset <= Len(db.dat) /\ SliceEnd(db, i) >= e.offset - 1
        /\ StartParse(Window(e.offset, SliceEnd(db, i), e.key.call, e.offset, 0))
        /\ UNCHANGED <<db, query, report, source, todo, queue, seen, answer,
                       lookups, partial>>

\* raw_record_for fails: the entry points past the end of the file or behind
\* its successor.
SkipEntry(i) ==
    /\ NextEntry(i)
    /\ \/ db.idx[i].offset > Len(db.dat)
       \/ SliceEnd(db, i) < db.idx[i].offset - 1
    /\ UNCHANGED <<db, pc, query, report, source, todo, queue, window, cursor,
                   found, seen, answer, lookups, partial>>

\* Every entry is visited: what lookup_dat_idx returns is merged next.
EntriesDone ==
    /\ pc = "visit" /\ source = "HamCallDatIdx"
    /\ \A i \in EntriesOf(db, query) : i <= at
    /\ pc' = "merge"
    /\ UNCHANGED <<db, query, report, source, at, todo, queue, window, cursor,
                   found, seen, answer, lookups, partial>>

\* Deviation: the scratch is not cleared.
StartHciWithoutClear ==
    /\ pc' = "visit"
    /\ source' = "HamCallHci"
    /\ at' = 0
    /\ todo' = PostingsOf(db, query, NoYear)
    /\ queue' = <<>>
    /\ UNCHANGED seen

\* lookup_hci_into clears the scratch and visits the bare keys first.
StartHci ==
    /\ pc' = "visit"
    /\ source' = "HamCallHci"
    /\ at' = 0
    /\ todo' = PostingsOf(db, query, NoYear)
    /\ queue' = <<>>
    /\ seen' = {}

\* The next publication year: its archive keys.
NextYear ==
    /\ pc = "visit" /\ source = "HamCallHci" /\ todo = <<>>
    /\ at < Len(db.years)
    /\ at' = at + 1
    /\ todo' = PostingsOf(db, query, db.years[at'])
    /\ UNCHANGED <<db, pc, query, report, source, queue, window, cursor, found,
                   seen, answer, lookups, partial>>

\* An offset not seen under another key: its record is parsed.
VisitPosting ==
    /\ pc = "visit" /\ source = "HamCallHci" /\ todo # <<>>
    /\ Head(todo) \notin seen
    /\ seen' = seen \cup {Head(todo)}
    /\ todo' = Tail(todo)
    /\ LET r == RecordAt(db, Head(todo))
       IN  StartParse(Window(r[1], r[2], NoDefault, Head(todo), 0))
    /\ UNCHANGED <<db, query, report, source, at, queue, answer, lookups, partial>>

SkipPosting ==
    /\ pc = "visit" /\ source = "HamCallHci" /\ todo # <<>>
    /\ Head(todo) \in seen
    /\ todo' = Tail(todo)
    /\ UNCHANGED <<db, pc, query, report, source, at, queue, window, cursor,
                   found, seen, answer, lookups, partial>>

PostingsDone ==
    /\ pc = "visit" /\ source = "HamCallHci" /\ todo = <<>>
    /\ at = Len(db.years)
    /\ pc' = "merge"
    /\ UNCHANGED <<db, query, report, source, at, todo, queue, window, cursor,
                   found, seen, answer, lookups, partial>>

\* Deviation: the search for the next mark starts at the segment's own.
NextSegmentAtMark(w, c) == Min({NextMark(db, c), w.last + 1})

\* Where the segment behind the one at c starts.
NextSegment(w, c) == Min({NextMark(db, c + 1), w.last + 1})

\* The loop is over, or the rest of the window is an incomplete record.
ParseEnds ==
    \/ cursor > window.last
    \/ CompleteOnly(window.attempt) /\ NextSegment(window, cursor) > window.last

Segment == SubSeq(db.dat, cursor, NextSegment(window, cursor) - 1)

\* The window ends before the record of this segment does.
CutSegment ==
    LET next == NextSegment(window, cursor)
    IN  next > window.last /\ next <= Len(db.dat) /\ ~IsMark(db.dat[next])

ParseSegment ==
    /\ pc = "parse" /\ ~ParseEnds
    /\ cursor' = NextSegment(window, cursor)
    /\ IF SegmentMatches(Segment, window.default, query)
       THEN /\ found' = Append(found, Parsed(Segment, window.default, source))
            /\ partial' = (partial \/ CutSegment)
       ELSE UNCHANGED <<found, partial>>
    /\ UNCHANGED <<db, pc, query, report, source, at, todo, queue, window, seen,
                   answer, lookups>>

\* Nothing of the callsign behind this posting yet: a larger window from the
\* posting on, as long as there is one.
Widen ==
    /\ pc = "parse" /\ ParseEnds
    /\ source = "HamCallHci" /\ found = <<>>
    /\ window.attempt < Len(WindowLengths)
    /\ LET p == PositionsFrom(db, window.posting, WindowLengths[window.attempt + 1])
       IN  StartParse(Window(p[1], p[2], NoDefault, window.posting,
                             window.attempt + 1))
    /\ UNCHANGED <<db, query, report, source, at, todo, queue, seen, answer,
                   lookups, partial>>

ParseDone ==
    /\ pc = "parse" /\ ParseEnds
    /\ \/ source = "HamCallDatIdx" \/ found # <<>>
       \/ window.attempt = Len(WindowLengths)
    /\ queue' = queue \o found
    /\ pc' = "visit"
    /\ UNCHANGED <<db, query, report, source, at, todo, window, cursor, found,
                   seen, answer, lookups, partial>>

MergeNext ==
    /\ pc = "merge" /\ queue # <<>>
    /\ report' = Absorb(report, Head(queue))
    /\ queue' = Tail(queue)
    /\ UNCHANGED <<db, pc, query, source, at, todo, window, cursor, found, seen,
                   answer, lookups, partial>>

\* The IDX is merged: the HCI is next.
TurnToHci ==
    /\ pc = "merge" /\ queue = <<>> /\ source = "HamCallDatIdx"
    /\ StartHci
    /\ UNCHANGED <<db, query, report, window, cursor, found, answer, lookups,
                   partial>>

\* Both are merged: the history is sorted by vintage (a vintage occurs once,
\* so the second criterion never decides) and the lookup returns.
Return ==
    /\ pc = "merge" /\ queue = <<>> /\ source = "HamCallHci"
    /\ \E order \in Bijection(DOMAIN report.history, DOMAIN report.history) :
        LET sorted == [i \in DOMAIN report.history |-> report.history[order[i]]]
        IN  /\ \A i, j \in DOMAIN report.history :
                   i < j => sorted[i].vintage <= sorted[j].vintage
            /\ answer' = [query |-> query, status |-> Status(report),
                          current |-> report.current, history |-> sorted]
    /\ lookups' = lookups + 1
    /\ pc' = "idle"
    /\ UNCHANGED <<db, query, report, source, at, todo, queue, window, cursor,
                   found, seen, partial>>

Step ==
    \/ \E i \in 1..Len(db.idx) : VisitEntry(i) \/ SkipEntry(i)
    \/ EntriesDone
    \/ NextYear
    \/ VisitPosting
    \/ SkipPosting
    \/ PostingsDone
    \/ ParseSegment
    \/ Widen
    \/ ParseDone
    \/ MergeNext
    \/ TurnToHci
    \/ Return

Next == Reject \/ (\E c \in Calls : Begin(c)) \/ Step

Spec == Init /\ [][Next]_vars

\* The thread that performs a lookup keeps running.
FairSpec == Spec /\ WF_vars(Step)

-----------------------------------------------------------------------------
(* Properties.                                                              *)

\* Every variable has its type; the parser stays within its window.
TypeOK ==
    /\ db \in Databases
    /\ pc \in {"idle", "visit", "parse", "merge"}
    /\ query \in Calls \cup {<<>>}
    /\ report \in Report
    /\ source \in {"HamCallDatIdx", "HamCallHci"}
    /\ at \in Nat
    /\ todo \in Seq(Nat \ {0})
    /\ queue \in Seq(Snapshot)
    /\ window \in [first : Nat \ {0}, last : Nat, default : Call,
                   posting : Nat \ {0}, attempt : 0..Len(WindowLengths)]
    /\ window.last <= Len(db.dat)
    /\ cursor \in Nat \ {0}
    /\ pc = "parse" => window.first <= cursor /\ cursor <= window.last + 1
    /\ found \in Seq(Snapshot)
    /\ seen \subseteq Nat \ {0}
    /\ lookups \in Nat
    /\ partial \in BOOLEAN

SnapshotsOf(r) ==
    {r.history[i] : i \in 1..Len(r.history)}
        \cup (IF r.current = NoSnapshot THEN {} ELSE {r.current})

Parsing == pc = "parse"
Busy == pc # "idle"

\* Nothing that is parsed, queued, merged or returned belongs to a callsign
\* other than the one looked up: slices, windows and suffix keys all lead
\* through records of other calls, and the scratch held those of the previous
\* lookup.
OwnCallOnly ==
    /\ \A i \in 1..Len(queue) : Busy => queue[i].call = query
    /\ \A i \in 1..Len(found) : Parsing => found[i].call = query
    /\ \A s \in SnapshotsOf(report) : Busy => s.call = query
    /\ \A s \in SnapshotsOf(answer) : s.call = answer.query

\* A history has one entry per vintage, whichever of the two indexes, keys and
\* windows contributed to it, and is returned in order of vintage.
OneEntryPerVintage ==
    /\ \A i, j \in 1..Len(report.history) :
           report.history[i].vintage = report.history[j].vintage => i = j
    /\ \A i, j \in 1..Len(answer.history) :
           i < j => answer.history[i].vintage < answer.history[j].vintage

\* A whole record of the file: the positions from one mark to the next.
RecordOf(p) == SubSeq(db.dat, p, NextMark(db, p + 1) - 1)
Records == {p \in 1..Len(db.dat) : IsMark(db.dat[p])}

\* Whose record it is.  A `:YYYY` record continues the call before it.
Owner(p) ==
    LET named == {q \in Records : q <= p /\ SegmentCall(RecordOf(q), <<>>) # <<>>}
    IN  IF named = {} THEN <<>> ELSE SegmentCall(RecordOf(Max(named)), <<>>)

RecordsOf(call, vintage) ==
    {p \in Records : Owner(p) = call /\ SegmentVintage(RecordOf(p)) = vintage}

InCatalog(s, f) ==
    /\ s.vintage = NoYear
    /\ db.csv[s.call] # NoSnapshot
    /\ db.csv[s.call].text[f] = s.text[f]

\* Every snapshot returned stands for whole records of that callsign and
\* vintage, and each of its values is in one of them or in the US catalog.
Backed ==
    \A s \in SnapshotsOf(answer) :
        /\ \/ RecordsOf(s.call, s.vintage) # {}
           \/ s.vintage = NoYear /\ db.csv[s.call] # NoSnapshot
        /\ \A f \in Fields : s.text[f] # NoText =>
              \/ InCatalog(s, f)
              \/ \E p \in RecordsOf(s.call, s.vintage) :
                     \E i \in 1..Len(RecordOf(p)) :
                         /\ RecordOf(p)[i].kind = f
                         /\ RecordOf(p)[i].text = s.text[f]

\* As long as no record was cut by the end of a window, a report holds nothing
\* but what the file and the catalog say of the callsign.
BackedUnlessCut == Busy \/ partial \/ Backed

\* What the comments on the parsers of v2_record.rs say: only logical records
\* whose key matches the callsign are parsed.
OnlyLogicalRecords == Busy \/ Backed

PostedAt(call, p) ==
    \E year \in {NoYear} \cup {db.years[i] : i \in 1..Len(db.years)} :
        \E i \in 1..Len(PostingsOf(db, call, year)) :
            PostingsOf(db, call, year)[i] = p

ListedAt(call, p) ==
    \E i \in 1..Len(db.idx) :
        /\ db.idx[i].key.call = call
        /\ db.idx[i].offset = p
        /\ NextMark(db, p + 1) - 1 <= SliceEnd(db, i)

\* Completeness: each record of the callsign that an IDX key or an HCI posting
\* leads to is in the report under its vintage, and each of its fields that
\* is filled is filled in the report.
IndexedRecordsReported ==
    \A p \in Records :
        LET r == RecordOf(p)
            v == SegmentVintage(r)
            same == {s \in SnapshotsOf(answer) : s.vintage = v}
        IN  (/\ answer.query # <<>>
             /\ SegmentCall(r, <<>>) = answer.query
             /\ PostedAt(answer.query, p) \/ ListedAt(answer.query, p))
            => /\ same # {}
               /\ \A s \in same, f \in Fields :
                     SegmentText(r)[f] # NoText => s.text[f] # NoText

\* The US catalog is current: the older dataset only fills what the catalog
\* leaves open, but for the last name that a split name brings along.
CatalogWins ==
    answer.query # <<>> /\ db.csv[answer.query] # NoSnapshot =>
        \A f \in Fields \ {"last_name"} :
            db.csv[answer.query].text[f] # NoText =>
                answer.current.text[f] = db.csv[answer.query].text[f]

\* Every lookup returns: the parse loops and the walks over the indexes end.
EveryLookupReturns == Busy ~> ~Busy

-----------------------------------------------------------------------------
(* A batch answers like a lookup service without any scratch.               *)

Service == INSTANCE LookupService

\* What one lookup leaves behind never changes what a later one returns.
ImplementsLookupService == Service!ServiceSpec
=============================================================================
