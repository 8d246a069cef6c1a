----------------------------- MODULE LookupAnswers -----------------------------
(***************************************************************************)
(* The report of a callsign as a function of the open database alone: the   *)
(* merge of everything the indexes lead to, in the order they lead to it.   *)
(* It is what CallBook::lookup returns; Lookup models how.                  *)
(***************************************************************************)
EXTENDS HamCallData, SequencesExt

\* The first k of n sequences joined, for every k.
Joining(parts, n) ==
    LET joined[k \in 0..n] == IF k = 0 THEN <<>> ELSE joined[k - 1] \o parts[k]
    IN  joined
Joined(parts, n) == Joining(parts, n)[n]

\* A window of the file: positions first..last, the call of a record without one
\* of its own, and for the HCI the posting and the attempt.
Window(first, last, default, posting, attempt) ==
    [first |-> first, last |-> last, default |-> default,
     posting |-> posting, attempt |-> attempt]
NoDefault == <<>>

\* The snapshot that each position of a window begins: one of the callsign where
\* a segment starts that is a record of it.
SnapshotsBy(d, call, source, w) ==
    LET end(i) == Min({NextMark(d, i + 1), w.last + 1}) - 1
        segment(i) == SubSeq(d.dat, i, end(i))
        chosen(i) == /\ i >= w.first
                     /\ i = w.first \/ IsMark(d.dat[i])
                     /\ CompleteOnly(w.attempt) => end(i) < w.last
                     /\ SegmentMatches(segment(i), w.default, call)
    IN  [i \in 1..w.last |->
            IF chosen(i) THEN <<Parsed(segment(i), w.default, source)>> ELSE <<>>]
SnapshotsIn(d, call, source, w) == Joined(SnapshotsBy(d, call, source, w), w.last)

EntryWindow(d, i) ==
    Window(d.idx[i].offset, SliceEnd(d, i), d.idx[i].key.call, d.idx[i].offset, 0)

\* What each position of the IDX gives.
EntryParts(d, call) ==
    [i \in 1..Len(d.idx) |->
        IF i \in EntriesOf(d, call) /\ d.idx[i].offset <= Len(d.dat)
        THEN SnapshotsIn(d, call, "HamCallDatIdx", EntryWindow(d, i)) ELSE <<>>]
FromEntries(d, call) == Joined(EntryParts(d, call), Len(d.idx))

\* What attempt n finds behind a posting.
PostingWindow(d, offset, n) ==
    LET p == IF n = 0 THEN RecordAt(d, offset)
             ELSE PositionsFrom(d, offset, WindowLengths[n])
    IN  Window(p[1], p[2], NoDefault, offset, n)
Attempt(d, call, offset, n) ==
    SnapshotsIn(d, call, "HamCallHci", PostingWindow(d, offset, n))

\* The first attempt that finds anything.
FromPosting(d, call, offset) ==
    LET hits == {n \in 0..Len(WindowLengths) : Attempt(d, call, offset, n) # <<>>}
    IN  IF hits = {} THEN <<>> ELSE Attempt(d, call, offset, Min(hits))

\* Every offset once, at its first posting.
PostingParts(d, call, offsets) ==
    [n \in 1..Len(offsets) |->
        IF \E j \in 1..(n - 1) : offsets[j] = offsets[n] THEN <<>>
        ELSE FromPosting(d, call, offsets[n])]
FromPostings(d, call, offsets) ==
    Joined(PostingParts(d, call, offsets), Len(offsets))

\* The postings of the bare keys and of the first k publication years.
PostingsUntil(d, call, k) ==
    PostingsOf(d, call, NoYear)
        \o Joining([n \in 1..Len(d.years) |-> PostingsOf(d, call, d.years[n])],
                   Len(d.years))[k]

Everything(d, call) ==
    FromEntries(d, call)
        \o FromPostings(d, call, PostingsUntil(d, call, Len(d.years)))

\* A report with the first k snapshots merged in, for every k.
Merging(report, snapshots) ==
    LET merged[k \in 0..Len(snapshots)] ==
            IF k = 0 THEN report ELSE Absorb(merged[k - 1], snapshots[k])
    IN  merged
MergedInto(report, snapshots) == Merging(report, snapshots)[Len(snapshots)]

\* The US catalog's record with everything merged in.
Begun(d, call) == [current |-> d.csv[call], history |-> <<>>]
Merged(d, call) == MergedInto(Begun(d, call), Everything(d, call))

Arrangements(snapshots) ==
    {[i \in DOMAIN snapshots |-> snapshots[order[i]]] :
        order \in Bijection(DOMAIN snapshots, DOMAIN snapshots)}
OldestFirst(snapshots) ==
    \A i, j \in DOMAIN snapshots : i < j => snapshots[i].vintage <= snapshots[j].vintage
ByVintage(snapshots) ==
    CHOOSE sorted \in Arrangements(snapshots) : OldestFirst(sorted)

LookupReport(d, call) ==
    [query |-> call,
     status |-> Status(Merged(d, call)),
     current |-> Merged(d, call).current,
     history |-> ByVintage(Merged(d, call).history)]

\* What CallBook::lookup returns.
AllReports == [d \in Databases |-> [c \in Calls |-> LookupReport(d, c)]]
=============================================================================
