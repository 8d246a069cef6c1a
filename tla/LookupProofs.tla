----------------------------- MODULE LookupProofs -----------------------------
(***************************************************************************)
(* Proofs about Lookup for every database, batch and set of callsigns.      *)
(***************************************************************************)
EXTENDS Lookup, TLAPS, WellFoundedInduction, SequenceTheorems

-----------------------------------------------------------------------------
(* Least and greatest positions.                                            *)

LEMMA LeastNatural ==
    ASSUME NEW S \in SUBSET Nat, S # {}
    PROVE  \E n \in S : \A m \in S : n <= m
<1>1. PICK n \in S : \A m \in S : ~(<<m, n>> \in OpToRel(<, Nat))
  BY NatLessThanWellFounded, WFMin, Zenon
<1>2. \A m \in S : ~(m < n)
  BY <1>1 DEF OpToRel
<1>. QED
  BY <1>2

LEMMA MinOfNat ==
    ASSUME NEW S \in SUBSET Nat, S # {}
    PROVE  Min(S) \in S /\ \A y \in S : Min(S) <= y
<1>1. PICK n \in S : \A m \in S : n <= m
  BY LeastNatural
<1>. QED
  BY <1>1, Zenon DEF Min

LEMMA MaxOfInterval ==
    ASSUME NEW n \in Nat, NEW S \in SUBSET (1..n), S # {}
    PROVE  Max(S) \in S /\ \A y \in S : y <= Max(S)
<1>. DEFINE gaps == {n - i : i \in S}
<1>1. \A i \in S : n - i \in Nat /\ i \in Nat
  BY SMT
<1>2. gaps \subseteq Nat /\ gaps # {}
  BY <1>1, Zenon
<1>3. PICK g \in gaps : \A m \in gaps : g <= m
  BY <1>2, LeastNatural, Zenon
<1>4. PICK x \in S : g = n - x
  BY Zenon
<1>5. \A y \in S : n - x <= n - y
  BY <1>3, <1>4, Zenon
<1>6. \A y \in S : x >= y
  BY <1>1, <1>5, SMT
<1>7. Max(S) \in S /\ \A y \in S : Max(S) >= y
  BY <1>6, Zenon DEF Max
<1>. QED
  BY <1>7, <1>1, SMT

\* The search for the next record start goes forward and ends at the end of
\* the file.
LEMMA NextMarkBounds ==
    ASSUME NEW d, IsDatabase(d), NEW from \in Nat \ {0}
    PROVE  /\ NextMark(d, from) \in Nat \ {0}
           /\ NextMark(d, from) <= Len(d.dat) + 1
           /\ from <= Len(d.dat) + 1 => from <= NextMark(d, from)
<1>. DEFINE marks == {i \in from..Len(d.dat) : IsMark(d.dat[i])}
<1>1. Len(d.dat) \in Nat
  BY DEF IsDatabase
<1>2. CASE marks = {}
  BY <1>1, <1>2 DEF NextMark
<1>3. CASE marks # {}
  <2>1. marks \in SUBSET Nat
    BY <1>1
  <2>2. Min(marks) \in marks
    BY <2>1, <1>3, MinOfNat
  <2>3. NextMark(d, from) = Min(marks)
    BY <1>3 DEF NextMark
  <2>. QED
    BY <1>1, <2>2, <2>3
<1>. QED
  BY <1>2, <1>3

-----------------------------------------------------------------------------
(* Parsing a segment.                                                       *)

LEMMA CallEndBounds ==
    ASSUME NEW segment \in Seq(Cell)
    PROVE  CallEnd(segment) \in 1..(Len(segment) + 1)
<1>. DEFINE ends == {i \in KeyStart(segment)..(Len(segment) + 1) :
                        i <= Len(segment) => segment[i].kind # "character"}
<1>1. Len(segment) \in Nat
  OBVIOUS
<1>2. KeyStart(segment) \in Nat /\ 1 <= KeyStart(segment)
      /\ KeyStart(segment) <= Len(segment) + 1
  BY <1>1, EmptySeq DEF KeyStart
<1>3. ends \in SUBSET Nat /\ Len(segment) + 1 \in ends
  BY <1>1, <1>2
<1>4. Min(ends) \in ends
  BY <1>3, MinOfNat
<1>. QED
  BY <1>1, <1>2, <1>4 DEF CallEnd

LEMMA VintageOfSegment ==
    ASSUME NEW segment \in Seq(Cell)
    PROVE  SegmentVintage(segment) \in Vintage
<1>1. \A i \in 1..Len(segment) : segment[i] \in Cell
  BY ElementOfSeq
<1>2. CASE HasYear(segment)
  <2>1. CallEnd(segment) \in 1..Len(segment)
    BY <1>2, CallEndBounds DEF HasYear
  <2>. QED
    BY <1>1, <1>2, <2>1 DEF SegmentVintage, Cell
<1>3. CASE ~HasYear(segment)
  BY <1>3 DEF SegmentVintage, Vintage
<1>. QED
  BY <1>2, <1>3

\* A segment that matches is parsed into a snapshot of the callsign.
LEMMA ParsedType ==
    ASSUME NEW segment \in Seq(Cell), NEW default, NEW q \in Call,
           NEW src \in Sources, SegmentMatches(segment, default, q)
    PROVE  /\ Parsed(segment, default, src) \in Snapshot
           /\ Parsed(segment, default, src).call = q
<1>1. SegmentCall(segment, default) = q
  BY DEF SegmentMatches
<1>2. \A i \in 1..Len(segment) : segment[i] \in Cell
  BY ElementOfSeq
<1>3. SegmentVintage(segment) \in Vintage
  BY VintageOfSegment
<1>4. SegmentText(segment) \in [Fields -> Texts \cup {NoText}]
  <2>. SUFFICES ASSUME NEW f \in Fields
                PROVE  SegmentText(segment)[f] \in Texts \cup {NoText}
    BY DEF SegmentText
  <2>. DEFINE hits == {i \in 1..Len(segment) : /\ segment[i].kind = f
                                               /\ segment[i].text # NoText}
  <2>1. CASE hits = {}
    BY <2>1 DEF SegmentText
  <2>2. CASE hits # {}
    <3>1. Max(hits) \in 1..Len(segment)
      <4>1. Len(segment) \in Nat /\ hits \in SUBSET (1..Len(segment))
        OBVIOUS
      <4>. HIDE DEF hits
      <4>. QED
        BY <2>2, <4>1, MaxOfInterval
    <3>2. SegmentText(segment)[f] = segment[Max(hits)].text
      BY <2>2 DEF SegmentText
    <3>. QED
      BY <3>1, <3>2, <1>2 DEF Cell
  <2>. QED
    BY <2>1, <2>2
<1>. QED
  BY <1>1, <1>3, <1>4 DEF Parsed, Snapshot

-----------------------------------------------------------------------------
(* Merging.                                                                 *)

\* Merging keeps the callsign and the vintage of what is merged into.
LEMMA MergeType ==
    ASSUME NEW self \in Snapshot, NEW other \in Snapshot
    PROVE  /\ MergeMissing(self, other) \in Snapshot
           /\ MergeMissing(self, other).call = self.call
           /\ MergeMissing(self, other).vintage = self.vintage
<1>. DEFINE merged == MergeMissing(self, other)
<1>1. merged = [self EXCEPT !.sources = merged.sources, !.text = merged.text]
  BY DEF MergeMissing, Snapshot
<1>2. merged.sources = self.sources \cup other.sources
  BY DEF MergeMissing, Snapshot
<1>3. merged.text \in [Fields -> Texts \cup {NoText}]
  BY DEF MergeMissing, Snapshot
<1>. QED
  BY <1>1, <1>2, <1>3 DEF Snapshot

LEMMA SnapshotVintage ==
    ASSUME NEW s \in Snapshot
    PROVE  s.vintage \in Nat
<1>1. s.vintage \in Vintage
  BY DEF Snapshot
<1>2. s.vintage \in Years \/ s.vintage = 0
  BY <1>1, Zenon DEF Vintage, NoYear
<1>3. Years \subseteq Nat
  BY YearsAssumption, Zenon
<1>4. 0 \in Nat
  OBVIOUS
<1>. QED
  BY <1>2, <1>3, <1>4, Zenon

\* A report of one callsign, with one entry per vintage.
ReportOf(r, q) ==
    /\ r \in Report
    /\ \A s \in SnapshotsOf(r) : s.call = q
    /\ \A i, j \in 1..Len(r.history) :
           r.history[i].vintage = r.history[j].vintage => i = j

\* Absorbing a snapshot of the callsign leaves it one.
LEMMA AbsorbKeepsReport ==
    ASSUME NEW q, NEW r, ReportOf(r, q), NEW s \in Snapshot, s.call = q
    PROVE  ReportOf(Absorb(r, s), q)
<1>. DEFINE h == r.history
            n == Len(h)
<1>1. h \in Seq(Snapshot) /\ n \in Nat /\ r.current \in Snapshot \cup {NoSnapshot}
      /\ r = [current |-> r.current, history |-> h]
  BY DEF ReportOf, Report
<1>2. /\ \A i \in 1..n : h[i] \in Snapshot /\ h[i].call = q
      /\ r.current # NoSnapshot => r.current.call = q
      /\ \A i, j \in 1..n : h[i].vintage = h[j].vintage => i = j
  BY <1>1, ElementOfSeq DEF ReportOf, SnapshotsOf
<1>3. CASE s.vintage = NoYear
  <2>. DEFINE c == IF r.current = NoSnapshot THEN s
                   ELSE MergeMissing(r.current, s)
  <2>1. c \in Snapshot /\ c.call = q
    BY <1>1, <1>2, MergeType
  <2>2. Absorb(r, s) = [current |-> c, history |-> h]
    BY <1>1, <1>3 DEF Absorb
  <2>. HIDE DEF c
  <2>. QED
    BY <1>1, <1>2, <2>1, <2>2 DEF ReportOf, Report, SnapshotsOf
<1>4. CASE s.vintage # NoYear /\ SameEdition(r, s) = {}
  <2>. DEFINE g == Append(h, s)
  <2>1. Absorb(r, s) = [current |-> r.current, history |-> g]
    BY <1>1, <1>4 DEF Absorb
  <2>2. /\ g \in Seq(Snapshot) /\ Len(g) = n + 1
        /\ \A i \in 1..n : g[i] = h[i]
        /\ g[n + 1] = s
    BY <1>1, AppendProperties
  <2>3. \A i \in 1..n : h[i].vintage # s.vintage
    BY <1>1, <1>2, <1>4 DEF SameEdition
  <2>4. \A i \in 1..Len(g) : g[i].call = q
    BY <1>1, <1>2, <2>2
  <2>5. \A i, j \in 1..Len(g) : g[i].vintage = g[j].vintage => i = j
    BY <1>1, <1>2, <2>2, <2>3
  <2>. HIDE DEF g, h, n
  <2>. QED
    BY <1>1, <1>2, <2>1, <2>2, <2>4, <2>5 DEF ReportOf, Report, SnapshotsOf
<1>5. CASE s.vintage # NoYear /\ SameEdition(r, s) # {}
  <2>. DEFINE k == Min(SameEdition(r, s))
              m == MergeMissing(h[k], s)
              g == [h EXCEPT ![k] = m]
  <2>1. k \in 1..n
    <3>1. SameEdition(r, s) \in SUBSET Nat
      BY <1>1 DEF SameEdition
    <3>2. k \in SameEdition(r, s)
      BY <3>1, <1>5, MinOfNat
    <3>. QED
      BY <3>2 DEF SameEdition
  <2>2. Absorb(r, s) = [current |-> r.current, history |-> g]
    BY <1>1, <1>5 DEF Absorb
  <2>3. m \in Snapshot /\ m.call = q /\ m.vintage = h[k].vintage
    BY <2>1, <1>2, MergeType
  <2>. HIDE DEF k, m
  <2>4. /\ g \in Seq(Snapshot) /\ Len(g) = n
        /\ \A i \in 1..n : g[i] = IF i = k THEN m ELSE h[i]
    BY <1>1, <2>1, <2>3, ExceptSeq
  <2>5. \A i \in 1..n : g[i].call = q /\ g[i].vintage = h[i].vintage
    BY <1>2, <2>3, <2>4
  <2>6. \A i, j \in 1..n : g[i].vintage = g[j].vintage => i = j
    BY <1>2, <2>5
  <2>. HIDE DEF g, h, n
  <2>. QED
    BY <1>1, <1>2, <2>2, <2>4, <2>5, <2>6 DEF ReportOf, Report, SnapshotsOf
<1>. QED
  BY <1>3, <1>4, <1>5

-----------------------------------------------------------------------------
(* What the indexes and the file say.                                       *)

LEMMA DatabaseTypes ==
    ASSUME NEW d, IsDatabase(d)
    PROVE  /\ d.dat \in Seq(Cell) /\ Len(d.dat) \in Nat
           /\ d.idx \in Seq(Entry) /\ Len(d.idx) \in Nat
           /\ \A i \in 1..Len(d.idx) : /\ d.idx[i].offset \in Nat \ {0}
                                       /\ d.idx[i].key.call \in Call
<1>1. /\ d.dat \in Seq(Cell) /\ Len(d.dat) \in Nat
      /\ d.idx \in Seq(Entry) /\ Len(d.idx) \in Nat
  BY DEF IsDatabase
<1>2. \A i \in 1..Len(d.idx) : d.idx[i] \in Entry
  BY <1>1, ElementOfSeq
<1>. QED
  BY <1>1, <1>2 DEF Entry, Key

\* A slice of the IDX ends within the file.
LEMMA SliceEndBounds ==
    ASSUME NEW d, IsDatabase(d), NEW i \in 1..Len(d.idx)
    PROVE  SliceEnd(d, i) \in Nat /\ SliceEnd(d, i) <= Len(d.dat)
<1>. DEFINE later == {j \in (i + 1)..Len(d.idx) : d.idx[j].key # d.idx[i].key}
            next == IF later = {} THEN Len(d.dat) + 1 ELSE d.idx[Min(later)].offset
<1>1. next \in Nat \ {0}
  <2>1. CASE later = {}
    BY <2>1, DatabaseTypes
  <2>2. CASE later # {}
    <3>1. later \in SUBSET Nat
      BY DatabaseTypes
    <3>2. Min(later) \in later
      BY <3>1, <2>2, MinOfNat
    <3>3. Min(later) \in 1..Len(d.idx)
      BY <3>2, DatabaseTypes
    <3>. QED
      BY <2>2, <3>3, DatabaseTypes
  <2>. QED
    BY <2>1, <2>2
<1>2. SliceEnd(d, i) = IF next <= Len(d.dat) THEN next - 1 ELSE Len(d.dat)
  BY DEF SliceEnd
<1>. HIDE DEF next
<1>. QED
  BY <1>1, <1>2, DatabaseTypes

LEMMA PostingsType ==
    ASSUME NEW d, IsDatabase(d), NEW call, NEW year
    PROVE  PostingsOf(d, call, year) \in Seq(Nat \ {0})
<1>1. \A key : PostingsUnder(d, key) \in Seq(Nat \ {0})
  BY DEF PostingsUnder, IsDatabase
<1>. QED
  BY <1>1, ConcatProperties DEF PostingsOf

\* A window lies within the file and its first position is at most one past
\* its last.
WithinFile(d, first, last) ==
    /\ first \in Nat \ {0} /\ last \in Nat
    /\ last <= Len(d.dat)
    /\ first <= last + 1

LEMMA RecordAtBounds ==
    ASSUME NEW d, IsDatabase(d), NEW offset \in Nat \ {0}
    PROVE  WithinFile(d, RecordAt(d, offset)[1], RecordAt(d, offset)[2])
<1>. DEFINE starts == {i \in 1..offset : i <= Len(d.dat) /\ IsMark(d.dat[i])}
<1>1. CASE offset > Len(d.dat) \/ starts = {}
  <2>1. RecordAt(d, offset) = <<1, 0>>
    BY <1>1 DEF RecordAt
  <2>. QED
    BY <2>1, DatabaseTypes DEF WithinFile
<1>2. CASE ~(offset > Len(d.dat) \/ starts = {})
  <2>. DEFINE m == Max(starts)
  <2>1. m \in starts
    <3>1. starts \in SUBSET (1..offset)
      OBVIOUS
    <3>. HIDE DEF starts
    <3>. QED
      BY <1>2, <3>1, MaxOfInterval
  <2>2. RecordAt(d, offset)[1] = m
        /\ RecordAt(d, offset)[2] = NextMark(d, m + 1) - 1
    BY <1>2 DEF RecordAt
  <2>. HIDE DEF m
  <2>3. m \in Nat \ {0} /\ m <= Len(d.dat)
    BY <2>1
  <2>4. /\ NextMark(d, m + 1) \in Nat
        /\ NextMark(d, m + 1) <= Len(d.dat) + 1
        /\ m + 1 <= NextMark(d, m + 1)
    BY <2>3, NextMarkBounds, DatabaseTypes
  <2>. QED
    BY <2>2, <2>3, <2>4, DatabaseTypes DEF WithinFile
<1>. QED
  BY <1>1, <1>2

LEMMA PositionsFromBounds ==
    ASSUME NEW d, IsDatabase(d), NEW offset \in Nat \ {0},
           NEW length \in Nat \ {0}
    PROVE  WithinFile(d, PositionsFrom(d, offset, length)[1],
                         PositionsFrom(d, offset, length)[2])
<1>1. CASE offset > Len(d.dat)
  BY <1>1, DatabaseTypes DEF PositionsFrom, WithinFile
<1>2. CASE ~(offset > Len(d.dat))
  <2>. DEFINE ends == {offset + length - 1, Len(d.dat)}
  <2>1. ends \in SUBSET Nat /\ ends # {}
    BY DatabaseTypes
  <2>2. Min(ends) \in ends /\ \A y \in ends : Min(ends) <= y
    BY <2>1, MinOfNat
  <2>3. PositionsFrom(d, offset, length)[1] = offset
        /\ PositionsFrom(d, offset, length)[2] = Min(ends)
    BY <1>2 DEF PositionsFrom
  <2>. QED
    BY <1>2, <2>2, <2>3, DatabaseTypes DEF WithinFile
<1>. QED
  BY <1>1, <1>2

\* Every turn of the parse loop moves the cursor forward, within the window.
LEMMA NextSegmentBounds ==
    ASSUME IsDatabase(db), NEW w, w.last \in Nat, w.last <= Len(db.dat),
           NEW c \in Nat \ {0}, c <= w.last
    PROVE  /\ NextSegment(w, c) \in Nat \ {0}
           /\ c < NextSegment(w, c)
           /\ NextSegment(w, c) <= w.last + 1
<1>. DEFINE ends == {NextMark(db, c + 1), w.last + 1}
<1>1. /\ NextMark(db, c + 1) \in Nat \ {0}
      /\ c + 1 <= NextMark(db, c + 1)
  BY NextMarkBounds, DatabaseTypes
<1>2. ends \in SUBSET Nat /\ ends # {}
  BY <1>1
<1>3. Min(ends) \in ends /\ \A y \in ends : Min(ends) <= y
  BY <1>2, MinOfNat
<1>4. NextSegment(w, c) = Min(ends)
  BY DEF NextSegment
<1>. QED
  BY <1>1, <1>3, <1>4

-----------------------------------------------------------------------------
(* The inductive invariant.                                                 *)

\* A lookup under way has a callsign that was asked for; with it, the named
\* parts are inductive together.
Inv ==
    /\ TypeOK
    /\ Busy => query \in Calls
    /\ OwnCallOnly
    /\ OneEntryPerVintage

LEMMA InitInv == Init => Inv
<1>. SUFFICES ASSUME Init PROVE Inv
  OBVIOUS
<1>1. IsDatabase(db)
  BY DatabasesAssumption DEF Init
<1>2. TypeOK
  <2>1. report \in Report
    BY DEF Init, EmptyReport, Report
  <2>2. window \in [first : Nat \ {0}, last : Nat, default : Call,
                   posting : Nat \ {0}, attempt : 0..Len(WindowLengths)]
    BY WindowsAssumption DEF Init, Window, NoDefault, Call
  <2>3. window.last <= Len(db.dat)
    BY <1>1, DatabaseTypes DEF Init, Window
  <2>4. /\ todo \in Seq(Nat \ {0}) /\ queue \in Seq(Snapshot)
        /\ found \in Seq(Snapshot)
    BY DEF Init
  <2>5. at \in Nat /\ cursor \in Nat \ {0} /\ seen \subseteq Nat \ {0}
        /\ lookups \in Nat
    BY DEF Init
  <2>6. /\ db \in Databases /\ pc = "idle" /\ query \in Calls \cup {<<>>}
        /\ source \in {"HamCallDatIdx", "HamCallHci"} /\ partial \in BOOLEAN
    BY DEF Init
  <2>. QED
    BY <2>1, <2>2, <2>3, <2>4, <2>5, <2>6 DEF TypeOK
<1>3. OwnCallOnly /\ OneEntryPerVintage
  BY DEF Init, OwnCallOnly, OneEntryPerVintage, EmptyReport, NoAnswer,
         SnapshotsOf, Busy, Parsing
<1>. QED
  BY <1>2, <1>3 DEF Inv, Init, Busy

\* What the present report is, while a lookup is under way.
LEMMA BusyReport ==
    ASSUME Inv, Busy
    PROVE  ReportOf(report, query)
BY DEF Inv, TypeOK, OwnCallOnly, OneEntryPerVintage, ReportOf

\* The parser is given a window within the file.
LEMMA StartParseType ==
    ASSUME Inv, NEW first, NEW last, NEW dflt \in Call, NEW posting \in Nat \ {0},
           NEW attempt \in 0..Len(WindowLengths), WithinFile(db, first, last),
           StartParse(Window(first, last, dflt, posting, attempt))
    PROVE  /\ pc' = "parse"
           /\ window' \in [first : Nat \ {0}, last : Nat, default : Call,
                            posting : Nat \ {0}, attempt : 0..Len(WindowLengths)]
           /\ window'.last <= Len(db.dat)
           /\ cursor' \in Nat \ {0}
           /\ window'.first <= cursor' /\ cursor' <= window'.last + 1
           /\ found' = <<>>
BY DEF StartParse, Window, WithinFile

LEMMA RejectInv == Inv /\ Reject => Inv'
BY DEF Inv, Reject, TypeOK, OwnCallOnly, OneEntryPerVintage, Rejection, NoAnswer,
       SnapshotsOf, Busy, Parsing

LEMMA BeginInv ==
    ASSUME Inv, NEW c \in Calls, Begin(c)
    PROVE  Inv'
<1>1. IsDatabase(db)
  BY DatabasesAssumption DEF Inv, TypeOK
<1>2. db.csv[c] \in Snapshot \cup {NoSnapshot}
      /\ (db.csv[c] # NoSnapshot => db.csv[c].call = c)
  BY <1>1 DEF IsDatabase
<1>3. TypeOK'
  <2>1. report' \in Report
    BY <1>2 DEF Begin, Report
  <2>2. TypeOK
    BY DEF Inv
  <2>3. queue' \in Seq(Snapshot) /\ at' \in Nat
    BY DEF Begin
  <2>4. pc' = "visit" /\ query' \in Calls /\ source' \in {"HamCallDatIdx", "HamCallHci"}
        /\ partial' \in BOOLEAN
    BY DEF Begin
  <2>5. UNCHANGED <<db, todo, window, cursor, found, seen, answer, lookups>>
    BY DEF Begin
  <2>. HIDE DEF TypeOK
  <2>. QED
    BY <2>1, <2>2, <2>3, <2>4, <2>5 DEF TypeOK
<1>4. OwnCallOnly' /\ OneEntryPerVintage'
  BY <1>2 DEF Inv, Begin, OwnCallOnly, OneEntryPerVintage, SnapshotsOf, Parsing
<1>. QED
  BY <1>3, <1>4 DEF Inv, Begin

LEMMA VisitEntryInv ==
    ASSUME Inv, NEW i \in 1..Len(db.idx), VisitEntry(i)
    PROVE  Inv'
<1>1. IsDatabase(db)
  BY DatabasesAssumption DEF Inv, TypeOK
<1>. DEFINE e == db.idx[i]
<1>2. e.offset \in Nat \ {0} /\ e.key.call \in Call
  BY <1>1, DatabaseTypes
<1>3. WithinFile(db, e.offset, SliceEnd(db, i))
  BY <1>1, <1>2, SliceEndBounds DEF VisitEntry, WithinFile
<1>4. 0 \in 0..Len(WindowLengths)
  BY WindowsAssumption
<1>5. StartParse(Window(e.offset, SliceEnd(db, i), e.key.call, e.offset, 0))
  BY DEF VisitEntry
<1>. HIDE DEF e
<1>6. TypeOK'
  <2>1. /\ window' \in [first : Nat \ {0}, last : Nat, default : Call,
                        posting : Nat \ {0}, attempt : 0..Len(WindowLengths)]
        /\ window'.last <= Len(db.dat)
        /\ cursor' \in Nat \ {0}
        /\ window'.first <= cursor' /\ cursor' <= window'.last + 1
        /\ found' = <<>> /\ pc' = "parse"
    BY <1>2, <1>3, <1>4, <1>5, StartParseType
  <2>2. TypeOK /\ at' \in Nat
    BY DEF Inv, VisitEntry, NextEntry
  <2>. QED
    BY <2>1, <2>2 DEF TypeOK, VisitEntry
<1>7. OwnCallOnly' /\ OneEntryPerVintage' /\ query' \in Calls
  BY <1>5 DEF Inv, VisitEntry, NextEntry, StartParse, OwnCallOnly,
              OneEntryPerVintage, SnapshotsOf, Busy
<1>. QED
  BY <1>6, <1>7 DEF Inv

LEMMA SkipEntryInv ==
    ASSUME Inv, NEW i \in 1..Len(db.idx), SkipEntry(i)
    PROVE  Inv'
<1>1. TypeOK'
  <2>1. at' \in Nat
    BY DEF SkipEntry, NextEntry
  <2>2. TypeOK /\ UNCHANGED <<db, pc, query, report, source, todo, queue, window,
                              cursor, found, seen, answer, lookups, partial>>
    BY DEF Inv, SkipEntry
  <2>. QED
    BY <2>1, <2>2 DEF TypeOK
<1>2. OwnCallOnly' /\ OneEntryPerVintage' /\ (Busy => query \in Calls)'
  BY DEF Inv, SkipEntry, OwnCallOnly, OneEntryPerVintage, SnapshotsOf, Busy, Parsing
<1>. QED
  BY <1>1, <1>2 DEF Inv

LEMMA EntriesDoneInv == Inv /\ EntriesDone => Inv'
BY DEF Inv, EntriesDone, TypeOK, OwnCallOnly, OneEntryPerVintage, SnapshotsOf,
       Busy, Parsing

LEMMA NextYearInv ==
    ASSUME Inv, NextYear
    PROVE  Inv'
<1>1. IsDatabase(db)
  BY DatabasesAssumption DEF Inv, TypeOK
<1>2. todo' \in Seq(Nat \ {0}) /\ at' \in Nat
  BY <1>1, PostingsType DEF Inv, TypeOK, NextYear
<1>3. TypeOK /\ UNCHANGED <<db, pc, query, report, source, queue, window, cursor,
                            found, seen, answer, lookups, partial>>
  BY DEF Inv, NextYear
<1>4. TypeOK'
  BY <1>2, <1>3 DEF TypeOK
<1>5. OwnCallOnly' /\ OneEntryPerVintage' /\ (Busy => query \in Calls)'
  BY <1>3 DEF Inv, OwnCallOnly, OneEntryPerVintage, SnapshotsOf, Busy, Parsing
<1>. QED
  BY <1>4, <1>5 DEF Inv

LEMMA VisitPostingInv ==
    ASSUME Inv, VisitPosting
    PROVE  Inv'
<1>1. IsDatabase(db) /\ TypeOK
  BY DatabasesAssumption DEF Inv, TypeOK
<1>. DEFINE p == Head(todo)
            r == RecordAt(db, p)
<1>2. /\ p \in Nat \ {0}
      /\ Tail(todo) \in Seq(Nat \ {0})
  BY <1>1, HeadTailProperties DEF VisitPosting, TypeOK
<1>3. WithinFile(db, r[1], r[2])
  BY <1>1, <1>2, RecordAtBounds
<1>4. 0 \in 0..Len(WindowLengths) /\ NoDefault \in Call
  BY WindowsAssumption DEF NoDefault, Call
<1>5. StartParse(Window(r[1], r[2], NoDefault, p, 0))
  BY DEF VisitPosting
<1>. HIDE DEF r
<1>6. TypeOK'
  <2>1. /\ window' \in [first : Nat \ {0}, last : Nat, default : Call,
                        posting : Nat \ {0}, attempt : 0..Len(WindowLengths)]
        /\ window'.last <= Len(db.dat)
        /\ cursor' \in Nat \ {0}
        /\ window'.first <= cursor' /\ cursor' <= window'.last + 1
        /\ found' = <<>> /\ pc' = "parse"
    BY <1>2, <1>3, <1>4, <1>5, StartParseType
  <2>2. seen' \subseteq Nat \ {0} /\ todo' \in Seq(Nat \ {0})
    BY <1>1, <1>2 DEF VisitPosting, TypeOK
  <2>3. UNCHANGED <<db, query, report, source, at, queue, answer, lookups, partial>>
    BY DEF VisitPosting
  <2>. QED
    BY <1>1, <2>1, <2>2, <2>3 DEF TypeOK
<1>7. OwnCallOnly' /\ OneEntryPerVintage' /\ query' \in Calls
  BY <1>5 DEF Inv, VisitPosting, StartParse, OwnCallOnly, OneEntryPerVintage,
              SnapshotsOf, Busy
<1>. QED
  BY <1>6, <1>7 DEF Inv

LEMMA SkipPostingInv ==
    ASSUME Inv, SkipPosting
    PROVE  Inv'
<1>1. TypeOK /\ UNCHANGED <<db, pc, query, report, source, at, queue, window, cursor,
                            found, seen, answer, lookups, partial>>
  BY DEF Inv, SkipPosting
<1>2. todo' \in Seq(Nat \ {0})
  BY <1>1, HeadTailProperties DEF SkipPosting, TypeOK
<1>3. TypeOK'
  BY <1>1, <1>2 DEF TypeOK
<1>4. OwnCallOnly' /\ OneEntryPerVintage' /\ (Busy => query \in Calls)'
  BY <1>1 DEF Inv, OwnCallOnly, OneEntryPerVintage, SnapshotsOf, Busy, Parsing
<1>. QED
  BY <1>3, <1>4 DEF Inv

LEMMA PostingsDoneInv == Inv /\ PostingsDone => Inv'
BY DEF Inv, PostingsDone, TypeOK, OwnCallOnly, OneEntryPerVintage, SnapshotsOf,
       Busy, Parsing

LEMMA ParseSegmentInv ==
    ASSUME Inv, ParseSegment
    PROVE  Inv'
<1>1. IsDatabase(db) /\ TypeOK /\ pc = "parse" /\ query \in Calls
  BY DatabasesAssumption DEF Inv, TypeOK, ParseSegment, Busy
<1>2. /\ cursor \in Nat \ {0} /\ window.last \in Nat /\ window.first \in Nat
      /\ window.last <= Len(db.dat) /\ window.first <= cursor
      /\ cursor <= window.last
  BY <1>1 DEF TypeOK, ParseSegment, ParseEnds
<1>3. /\ cursor' \in Nat \ {0} /\ cursor < cursor'
      /\ cursor' <= window.last + 1
  BY <1>1, <1>2, NextSegmentBounds DEF ParseSegment
<1>4. Segment \in Seq(Cell)
  <2>. DEFINE dat == db.dat
              last == cursor' - 1
  <2>1. dat \in Seq(Cell) /\ Len(dat) \in Nat
    BY <1>1, DatabaseTypes
  <2>2. last \in Int /\ last <= Len(dat)
    BY <1>2, <1>3, <2>1
  <2>3. Segment = SubSeq(dat, cursor, last)
    BY DEF Segment, ParseSegment
  <2>. HIDE DEF dat, last
  <2>4. \A j \in cursor..last : dat[j] \in Cell
    BY <1>2, <2>1, <2>2, ElementOfSeq
  <2>. QED
    BY <1>2, <2>2, <2>3, <2>4, SubSeqProperties
<1>5. found' \in Seq(Snapshot) /\ \A i \in 1..Len(found') : found'[i].call = query
  <2>1. found \in Seq(Snapshot) /\ \A i \in 1..Len(found) : found[i].call = query
    BY <1>1 DEF Inv, TypeOK, OwnCallOnly, Parsing
  <2>2. CASE SegmentMatches(Segment, window.default, query)
    <3>. DEFINE s == Parsed(Segment, window.default, source)
    <3>1. query \in Call /\ source \in Sources
      BY <1>1, CallsAssumption DEF TypeOK, Sources
    <3>2. s \in Snapshot /\ s.call = query
      BY <1>4, <2>2, <3>1, ParsedType
    <3>3. found' = Append(found, s)
      BY <2>2 DEF ParseSegment
    <3>. HIDE DEF s
    <3>. QED
      BY <2>1, <3>2, <3>3, AppendProperties
  <2>3. CASE ~SegmentMatches(Segment, window.default, query)
    BY <2>1, <2>3 DEF ParseSegment
  <2>. QED
    BY <2>2, <2>3
<1>6. partial' \in BOOLEAN
  <2>1. partial \in BOOLEAN /\ CutSegment \in BOOLEAN
    BY <1>1 DEF TypeOK, CutSegment
  <2>. HIDE DEF CutSegment
  <2>. QED
    BY <2>1, Zenon DEF ParseSegment
<1>7. UNCHANGED <<db, pc, query, report, source, at, todo, queue, window, seen,
                  answer, lookups>>
  BY DEF ParseSegment
<1>8. TypeOK'
  BY <1>1, <1>2, <1>3, <1>5, <1>6, <1>7 DEF TypeOK
<1>9. OwnCallOnly' /\ OneEntryPerVintage' /\ query' \in Calls
  BY <1>1, <1>5, <1>7 DEF Inv, OwnCallOnly, OneEntryPerVintage, SnapshotsOf, Busy
<1>. QED
  BY <1>8, <1>9 DEF Inv

LEMMA WidenInv ==
    ASSUME Inv, Widen
    PROVE  Inv'
<1>1. IsDatabase(db) /\ TypeOK
  BY DatabasesAssumption DEF Inv, TypeOK
<1>. DEFINE n == window.attempt + 1
            p == PositionsFrom(db, window.posting, WindowLengths[n])
<1>2. /\ window.posting \in Nat \ {0} /\ NoDefault \in Call
      /\ n \in 1..Len(WindowLengths)
  <2>1. window \in [first : Nat \ {0}, last : Nat, default : Call,
                     posting : Nat \ {0}, attempt : 0..Len(WindowLengths)]
    BY <1>1 DEF TypeOK
  <2>2. window.posting \in Nat \ {0} /\ window.attempt \in 0..Len(WindowLengths)
    BY <2>1
  <2>3. window.attempt < Len(WindowLengths) /\ Len(WindowLengths) \in Nat
    BY WindowsAssumption DEF Widen
  <2>4. NoDefault \in Call
    BY DEF NoDefault, Call
  <2>. QED
    BY <2>2, <2>3, <2>4
<1>3. WindowLengths[n] \in Nat \ {0} /\ n \in 0..Len(WindowLengths)
  BY <1>2, WindowsAssumption, ElementOfSeq
<1>4. WithinFile(db, p[1], p[2])
  BY <1>1, <1>2, <1>3, PositionsFromBounds
<1>5. StartParse(Window(p[1], p[2], NoDefault, window.posting, n))
  BY DEF Widen
<1>. HIDE DEF p, n
<1>6. TypeOK'
  <2>1. /\ window' \in [first : Nat \ {0}, last : Nat, default : Call,
                        posting : Nat \ {0}, attempt : 0..Len(WindowLengths)]
        /\ window'.last <= Len(db.dat)
        /\ cursor' \in Nat \ {0}
        /\ window'.first <= cursor' /\ cursor' <= window'.last + 1
        /\ found' = <<>> /\ pc' = "parse"
    BY <1>2, <1>3, <1>4, <1>5, StartParseType
  <2>2. UNCHANGED <<db, query, report, source, at, todo, queue, seen, answer,
                    lookups, partial>>
    BY DEF Widen
  <2>. QED
    BY <1>1, <2>1, <2>2 DEF TypeOK
<1>7. OwnCallOnly' /\ OneEntryPerVintage' /\ query' \in Calls
  BY <1>5 DEF Inv, Widen, StartParse, OwnCallOnly, OneEntryPerVintage,
              SnapshotsOf, Busy
<1>. QED
  BY <1>6, <1>7 DEF Inv

LEMMA ParseDoneInv ==
    ASSUME Inv, ParseDone
    PROVE  Inv'
<1>1. TypeOK /\ pc = "parse" /\ pc' = "visit" /\ queue' = queue \o found
      /\ UNCHANGED <<db, query, report, source, at, todo, window, cursor, found,
                     seen, answer, lookups, partial>>
  BY DEF Inv, ParseDone
<1>2. queue \in Seq(Snapshot) /\ found \in Seq(Snapshot)
  BY <1>1 DEF TypeOK
<1>3. queue' \in Seq(Snapshot) /\ \A i \in 1..Len(queue') : queue'[i].call = query
  <2>1. /\ \A i \in 1..Len(queue) : queue[i].call = query
        /\ \A i \in 1..Len(found) : found[i].call = query
    BY <1>1 DEF Inv, OwnCallOnly, Busy, Parsing
  <2>. QED
    BY <1>1, <1>2, <2>1, ConcatProperties
<1>4. TypeOK'
  BY <1>1, <1>3 DEF TypeOK
<1>5. OwnCallOnly' /\ OneEntryPerVintage' /\ query' \in Calls
  BY <1>1, <1>3 DEF Inv, OwnCallOnly, OneEntryPerVintage, SnapshotsOf, Busy, Parsing
<1>. QED
  BY <1>4, <1>5 DEF Inv

LEMMA MergeNextInv ==
    ASSUME Inv, MergeNext
    PROVE  Inv'
<1>1. TypeOK /\ pc = "merge" /\ report' = Absorb(report, Head(queue))
      /\ queue' = Tail(queue) /\ queue # <<>>
      /\ UNCHANGED <<db, pc, query, source, at, todo, window, cursor, found, seen,
                     answer, lookups, partial>>
  BY DEF Inv, MergeNext
<1>2. Head(queue) \in Snapshot /\ Head(queue).call = query
  BY <1>1, HeadTailProperties DEF Inv, TypeOK, OwnCallOnly, Busy
<1>3. ReportOf(report, query)
  BY <1>1, BusyReport DEF Busy
<1>4. ReportOf(report', query)
  BY <1>1, <1>2, <1>3, AbsorbKeepsReport
<1>5. queue' \in Seq(Snapshot) /\ \A i \in 1..Len(queue') : queue'[i].call = query
  <2>1. queue \in Seq(Snapshot) /\ \A i \in 1..Len(queue) : queue[i].call = query
    BY <1>1 DEF Inv, TypeOK, OwnCallOnly, Busy
  <2>. QED
    BY <1>1, <2>1, HeadTailProperties
<1>6. TypeOK'
  BY <1>1, <1>4, <1>5 DEF TypeOK, ReportOf
<1>7. OwnCallOnly' /\ OneEntryPerVintage' /\ query' \in Calls
  BY <1>1, <1>4, <1>5
  DEF Inv, OwnCallOnly, OneEntryPerVintage, ReportOf, SnapshotsOf, Busy, Parsing
<1>. QED
  BY <1>6, <1>7 DEF Inv

LEMMA TurnToHciInv ==
    ASSUME Inv, TurnToHci
    PROVE  Inv'
<1>1. IsDatabase(db) /\ TypeOK
  BY DatabasesAssumption DEF Inv, TypeOK
<1>2. UNCHANGED <<db, query, report, window, cursor, found, answer, lookups, partial>>
      /\ pc' = "visit" /\ source' = "HamCallHci" /\ at' = 0 /\ queue' = <<>>
      /\ seen' = {}
  BY DEF TurnToHci, StartHci
<1>3. todo' \in Seq(Nat \ {0})
  BY <1>1, PostingsType DEF TurnToHci, StartHci
<1>4. TypeOK'
  <2>1. queue' \in Seq(Snapshot)
    BY <1>2
  <2>. QED
    BY <1>1, <1>2, <1>3, <2>1 DEF TypeOK
<1>5. OwnCallOnly' /\ OneEntryPerVintage' /\ query' \in Calls
  BY <1>2 DEF Inv, TurnToHci, OwnCallOnly, OneEntryPerVintage, SnapshotsOf, Busy,
              Parsing
<1>. QED
  BY <1>4, <1>5 DEF Inv

\* Sorting moves entries of different vintages: the order becomes strict.
LEMMA ReturnInv ==
    ASSUME Inv, Return
    PROVE  Inv'
<1>1. TypeOK /\ Busy /\ pc' = "idle" /\ lookups' = lookups + 1
      /\ UNCHANGED <<db, query, report, source, at, todo, queue, window, cursor,
                     found, seen, partial>>
  BY DEF Inv, Return, Busy
<1>. DEFINE h == report.history
            n == Len(h)
<1>2. ReportOf(report, query) /\ h \in Seq(Snapshot) /\ n \in Nat
      /\ DOMAIN h = 1..n
  BY <1>1, BusyReport DEF ReportOf, Report
<1>3. PICK order \in Bijection(1..n, 1..n) :
        /\ \A i, j \in 1..n : i < j => h[order[i]].vintage <= h[order[j]].vintage
        /\ answer' = [query |-> query, status |-> Status(report),
                      current |-> report.current,
                      history |-> [i \in 1..n |-> h[order[i]]]]
  BY <1>2 DEF Return
<1>4. /\ order \in [1..n -> 1..n]
      /\ \A i, j \in 1..n : order[i] = order[j] => i = j
  BY <1>3 DEF Bijection, Injection, IsInjective
<1>. DEFINE g == [i \in 1..n |-> h[order[i]]]
<1>5. g \in Seq(Snapshot) /\ Len(g) = n
  BY <1>2, <1>4, ElementOfSeq
<1>6. \A i \in 1..n : g[i].call = query
  BY <1>2, <1>4 DEF ReportOf, SnapshotsOf
<1>7. \A i, j \in 1..n : i < j => g[i].vintage < g[j].vintage
  <2>1. \A i \in 1..n : h[i] \in Snapshot
    BY <1>2, ElementOfSeq
  <2>2. \A i \in 1..n : h[i].vintage \in Nat
    <3>. HIDE DEF h, n
    <3>. QED
      BY <2>1, SnapshotVintage
  <2>3. \A i, j \in 1..n : h[i].vintage = h[j].vintage => i = j
    BY <1>2 DEF ReportOf
  <2>. HIDE DEF h, n
  <2>. SUFFICES ASSUME NEW i \in 1..n, NEW j \in 1..n, i < j
                PROVE  h[order[i]].vintage < h[order[j]].vintage
    OBVIOUS
  <2>4. order[i] \in 1..n /\ order[j] \in 1..n /\ order[i] # order[j]
    BY <1>2, <1>4
  <2>5. h[order[i]].vintage <= h[order[j]].vintage
    BY <1>3
  <2>. QED
    BY <2>2, <2>3, <2>4, <2>5
<1>8. answer'.query = query /\ answer'.history = g
      /\ answer'.current = report.current
  BY <1>3
<1>9. TypeOK'
  BY <1>1 DEF TypeOK
<1>10. OwnCallOnly'
  <2>1. report.current # NoSnapshot => report.current.call = query
    BY <1>2 DEF SnapshotsOf, ReportOf
  <2>. HIDE DEF g
  <2>2. \A s \in SnapshotsOf(answer') : s.call = query
    BY <1>5, <1>6, <1>8, <2>1 DEF SnapshotsOf
  <2>. QED
    BY <1>1, <1>8, <2>2 DEF OwnCallOnly, Busy, Parsing
<1>11. OneEntryPerVintage'
  BY <1>1, <1>5, <1>7, <1>8 DEF Inv, OneEntryPerVintage
<1>. QED
  BY <1>1, <1>9, <1>10, <1>11 DEF Inv, Busy

LEMMA StutterInv == Inv /\ UNCHANGED vars => Inv'
<1>. SUFFICES ASSUME Inv, UNCHANGED vars PROVE Inv'
  OBVIOUS
<1>1. TypeOK'
  BY DEF Inv, vars, TypeOK
<1>2. OwnCallOnly' /\ OneEntryPerVintage' /\ (Busy => query \in Calls)'
  BY DEF Inv, vars, OwnCallOnly, OneEntryPerVintage, SnapshotsOf, Busy, Parsing
<1>. QED
  BY <1>1, <1>2 DEF Inv

LEMMA NextInv == Inv /\ [Next]_vars => Inv'
<1>. SUFFICES ASSUME Inv, [Next]_vars PROVE Inv'
  OBVIOUS
<1>1. CASE Reject
  BY <1>1, RejectInv
<1>2. CASE \E c \in Calls : Begin(c)
  BY <1>2, BeginInv
<1>3. CASE \E i \in 1..Len(db.idx) : VisitEntry(i) \/ SkipEntry(i)
  BY <1>3, VisitEntryInv, SkipEntryInv
<1>4. CASE EntriesDone \/ PostingsDone
  BY <1>4, EntriesDoneInv, PostingsDoneInv
<1>5. CASE NextYear
  BY <1>5, NextYearInv
<1>6. CASE VisitPosting
  BY <1>6, VisitPostingInv
<1>7. CASE SkipPosting
  BY <1>7, SkipPostingInv
<1>8. CASE ParseSegment
  BY <1>8, ParseSegmentInv
<1>9. CASE Widen
  BY <1>9, WidenInv
<1>10. CASE ParseDone
  BY <1>10, ParseDoneInv
<1>11. CASE MergeNext
  BY <1>11, MergeNextInv
<1>12. CASE TurnToHci
  BY <1>12, TurnToHciInv
<1>13. CASE Return
  BY <1>13, ReturnInv
<1>14. CASE UNCHANGED vars
  BY <1>14, StutterInv
<1>. QED
  BY <1>1, <1>2, <1>3, <1>4, <1>5, <1>6, <1>7, <1>8, <1>9, <1>10, <1>11, <1>12,
     <1>13, <1>14 DEF Next, Step

LEMMA Invariance == Spec => []Inv
BY InitInv, NextInv, PTL DEF Spec

-----------------------------------------------------------------------------
(* The theorems.                                                            *)

\* Every variable keeps its type, and the parser never leaves its window: no
\* slice, posting or window makes lookup_report_with_scratch index outside
\* hamcall.dat.
THEOREM TypeCorrect == Spec => []TypeOK
<1>1. Inv => TypeOK
  BY DEF Inv
<1>. QED
  BY <1>1, Invariance, PTL

\* No lookup of a batch, over any database, parses, merges or returns a
\* snapshot of another callsign.
THEOREM OwnCalls == Spec => []OwnCallOnly
<1>1. Inv => OwnCallOnly
  BY DEF Inv
<1>. QED
  BY <1>1, Invariance, PTL

\* merge_snapshot keeps one history entry per vintage and the lookup returns
\* them in strictly ascending order.
THEOREM VintagesUnique == Spec => []OneEntryPerVintage
<1>1. Inv => OneEntryPerVintage
  BY DEF Inv
<1>. QED
  BY <1>1, Invariance, PTL

-----------------------------------------------------------------------------
(* The catalog wins.                                                         *)

\* What the catalog says of q is what the current snapshot of r says.
CatalogKept(d, r, q) ==
    d.csv[q] # NoSnapshot =>
        /\ r.current \in Snapshot
        /\ \A f \in Fields \ {"last_name"} :
               d.csv[q].text[f] # NoText => r.current.text[f] = d.csv[q].text[f]

\* A value that is there is kept, but for raw tags and the last name.
LEMMA MergeKeepsValue ==
    ASSUME NEW self \in Snapshot, NEW other \in Snapshot,
           NEW f \in Fields \ {"last_name"}, f \notin RawTags, self.text[f] # NoText
    PROVE  MergeMissing(self, other).text[f] = self.text[f]
BY DEF MergeMissing, Snapshot

LEMMA AbsorbKeepsCatalog ==
    ASSUME NEW d, IsDatabase(d), NEW q \in Calls, NEW r, ReportOf(r, q),
           CatalogKept(d, r, q), NEW s \in Snapshot
    PROVE  CatalogKept(d, Absorb(r, s), q)
<1>. SUFFICES ASSUME d.csv[q] # NoSnapshot
              PROVE  /\ Absorb(r, s).current \in Snapshot
                     /\ \A f \in Fields \ {"last_name"} :
                            d.csv[q].text[f] # NoText =>
                                Absorb(r, s).current.text[f] = d.csv[q].text[f]
  BY DEF CatalogKept
<1>1. /\ r.current \in Snapshot /\ r.current # NoSnapshot
      /\ \A f \in Fields \ {"last_name"} :
             d.csv[q].text[f] # NoText => r.current.text[f] = d.csv[q].text[f]
      /\ r = [current |-> r.current, history |-> r.history]
  BY SnapshotAssumption DEF CatalogKept, ReportOf, Report
<1>2. CASE s.vintage = NoYear
  <2>1. Absorb(r, s).current = MergeMissing(r.current, s)
    BY <1>1, <1>2 DEF Absorb
  <2>2. \A f \in RawTags : d.csv[q].text[f] = NoText
    BY DEF IsDatabase
  <2>. QED
    BY <1>1, <2>1, <2>2, MergeType, MergeKeepsValue
<1>3. CASE s.vintage # NoYear
  <2>1. Absorb(r, s).current = r.current
    BY <1>1, <1>3 DEF Absorb
  <2>. QED
    BY <1>1, <2>1
<1>. QED
  BY <1>2, <1>3

CatalogInv ==
    /\ Busy => CatalogKept(db, report, query)
    /\ answer.query # <<>> => CatalogKept(db, answer, answer.query)

LEMMA CatalogStep ==
    ASSUME Inv, CatalogInv, [Next]_vars
    PROVE  CatalogInv'
<1>0. IsDatabase(db)
  BY DatabasesAssumption DEF Inv, TypeOK
<1>1. CASE Reject
  BY <1>1 DEF Reject, CatalogInv, Busy, Rejection, NoAnswer
<1>2. ASSUME NEW c \in Calls, Begin(c)
      PROVE  CatalogInv'
  <2>1. /\ query' = c /\ report'.current = db.csv[c]
        /\ UNCHANGED <<db, answer>>
    BY <1>2 DEF Begin
  <2>2. db.csv[c] \in Snapshot \cup {NoSnapshot}
    BY <1>0 DEF IsDatabase
  <2>3. CatalogKept(db', report', query')
    BY <2>1, <2>2 DEF CatalogKept
  <2>. QED
    BY <2>1, <2>3 DEF CatalogInv
<1>3. CASE MergeNext
  <2>1. /\ Busy /\ report' = Absorb(report, Head(queue)) /\ Head(queue) \in Snapshot
        /\ UNCHANGED <<db, query, answer>>
    BY <1>3, HeadTailProperties DEF MergeNext, Busy, Inv, TypeOK
  <2>2. query \in Calls /\ ReportOf(report, query)
    BY <2>1, BusyReport DEF Inv
  <2>3. CatalogKept(db, report', query)
    BY <1>0, <2>1, <2>2, AbsorbKeepsCatalog DEF CatalogInv
  <2>. QED
    BY <2>1, <2>3 DEF CatalogInv
<1>4. CASE Return
  <2>1. /\ Busy /\ pc' = "idle" /\ answer'.query = query
        /\ answer'.current = report.current /\ UNCHANGED db
    BY <1>4 DEF Return, Busy
  <2>. QED
    BY <2>1 DEF CatalogInv, CatalogKept, Busy
<1>5. CASE \/ \E i \in 1..Len(db.idx) : VisitEntry(i) \/ SkipEntry(i)
           \/ EntriesDone \/ NextYear \/ VisitPosting \/ SkipPosting \/ PostingsDone
           \/ ParseSegment \/ Widen \/ ParseDone \/ TurnToHci
           \/ UNCHANGED vars
  <2>1. UNCHANGED <<db, report, query, answer>> /\ (Busy' => Busy)
    BY <1>5 DEF VisitEntry, SkipEntry, NextEntry, EntriesDone, NextYear, VisitPosting,
                SkipPosting, PostingsDone, ParseSegment, Widen, ParseDone, TurnToHci,
                StartHci, StartParse, Busy, vars
  <2>. QED
    BY <2>1 DEF CatalogInv
<1>. QED
  BY <1>1, <1>2, <1>3, <1>4, <1>5 DEF Next, Step

\* For any database: whatever the indexes lead to, and in whatever order it is
\* merged, a report keeps what the US catalog says of its callsign.
THEOREM CatalogStays == Spec => []CatalogWins
<1>1. Init => CatalogInv
  BY DEF Init, CatalogInv, Busy, NoAnswer
<1>2. Inv /\ CatalogInv /\ [Next]_vars => CatalogInv'
  BY CatalogStep
<1>3. CatalogInv => CatalogWins
  BY DEF CatalogInv, CatalogKept, CatalogWins
<1>. QED
  BY <1>1, <1>2, <1>3, Invariance, PTL DEF Spec

-----------------------------------------------------------------------------
(* Nothing that an index leads to is left out.  Under way, a record of the    *)
(* callsign that a visited entry or posting leads to is in the report, in the *)
(* queue, or, while its window is parsed, among what was found there; those   *)
(* not reached yet lie behind the cursor, or are still to be visited.         *)

MarksOf(d) == {p \in 1..Len(d.dat) : IsMark(d.dat[p])}
RecordEnd(d, p) == NextMark(d, p + 1) - 1
RecordFrom(d, p) == SubSeq(d.dat, p, RecordEnd(d, p))

\* The record at p has q's callsign in its key.
Theirs(d, q, p) == p \in MarksOf(d) /\ SegmentCall(RecordFrom(d, p), <<>>) = q

\* The snapshot s is of the edition of the record at p and has all its fields.
Carries(d, s, p) ==
    /\ s.vintage = SegmentVintage(RecordFrom(d, p))
    /\ \A f \in Fields : SegmentText(RecordFrom(d, p))[f] # NoText => s.text[f] # NoText

Among(d, snapshots, p) == \E i \in 1..Len(snapshots) : Carries(d, snapshots[i], p)

InReport(d, r, p) ==
    \/ r.current # NoSnapshot /\ Carries(d, r.current, p)
    \/ Among(d, r.history, p)

\* The record at p lies in the window from first to last.
Whole(d, first, last, p) == first <= p /\ RecordEnd(d, p) <= last

\* A report files snapshots without a vintage as current and no others.
Filed(r) ==
    /\ r.current # NoSnapshot => r.current.vintage = NoYear
    /\ \A i \in 1..Len(r.history) : r.history[i].vintage # NoYear

-----------------------------------------------------------------------------
(* Records and windows.                                                      *)

\* The search for a record start does not pass one.
LEMMA NextMarkReaches ==
    ASSUME NEW d, IsDatabase(d), NEW p \in MarksOf(d), NEW from \in Nat, from <= p
    PROVE  NextMark(d, from) <= p
<1>. DEFINE marks == {i \in from..Len(d.dat) : IsMark(d.dat[i])}
<1>1. p \in marks /\ marks \in SUBSET Nat
  BY DatabaseTypes DEF MarksOf
<1>2. Min(marks) <= p
  BY <1>1, MinOfNat
<1>. QED
  BY <1>1, <1>2 DEF NextMark

LEMMA RecordBounds ==
    ASSUME NEW d, IsDatabase(d), NEW p \in MarksOf(d)
    PROVE  /\ p \in Nat \ {0} /\ p <= Len(d.dat) /\ Len(d.dat) \in Nat
           /\ RecordEnd(d, p) \in Nat
           /\ p <= RecordEnd(d, p) /\ RecordEnd(d, p) <= Len(d.dat)
<1>1. p \in Nat \ {0} /\ p <= Len(d.dat) /\ Len(d.dat) \in Nat
  BY DatabaseTypes DEF MarksOf
<1>2. /\ NextMark(d, p + 1) \in Nat \ {0} /\ NextMark(d, p + 1) <= Len(d.dat) + 1
      /\ p + 1 <= NextMark(d, p + 1)
  BY <1>1, NextMarkBounds
<1>. QED
  BY <1>1, <1>2 DEF RecordEnd

LEMMA RecordVintage ==
    ASSUME NEW d, IsDatabase(d), NEW p \in MarksOf(d)
    PROVE  SegmentVintage(RecordFrom(d, p)) \in Nat
<1>1. RecordFrom(d, p) \in Seq(Cell)
  BY RecordBounds, DatabaseTypes DEF RecordFrom
<1>2. SegmentVintage(RecordFrom(d, p)) \in Vintage
  BY <1>1, VintageOfSegment
<1>3. SegmentVintage(RecordFrom(d, p)) \in Years \/ SegmentVintage(RecordFrom(d, p)) = 0
  BY <1>2, Zenon DEF Vintage, NoYear
<1>4. Years \subseteq Nat
  BY YearsAssumption, Zenon
<1>5. 0 \in Nat
  OBVIOUS
<1>. QED
  BY <1>3, <1>4, <1>5, Zenon

\* A posting at the start of a record leads to that record.
LEMMA RecordAtStart ==
    ASSUME NEW d, IsDatabase(d), NEW p \in MarksOf(d)
    PROVE  RecordAt(d, p) = <<p, RecordEnd(d, p)>>
<1>. DEFINE starts == {i \in 1..p : i <= Len(d.dat) /\ IsMark(d.dat[i])}
<1>1. p \in Nat /\ p <= Len(d.dat) /\ p \in starts
  BY RecordBounds DEF MarksOf
<1>2. starts \in SUBSET (1..p)
  OBVIOUS
<1>3. Max(starts) \in starts /\ \A y \in starts : y <= Max(starts)
  <2>. HIDE DEF starts
  <2>. QED
    BY <1>1, <1>2, MaxOfInterval
<1>4. Max(starts) = p
  BY <1>1, <1>2, <1>3
<1>5. RecordAt(d, p) = <<Max(starts), NextMark(d, Max(starts) + 1) - 1>>
  <2>1. ~(p > Len(d.dat) \/ starts = {})
    BY <1>1, RecordBounds
  <2>. QED
    BY <2>1 DEF RecordAt
<1>. HIDE DEF starts
<1>. QED
  BY <1>4, <1>5 DEF RecordEnd

\* The record of a callsign is parsed, whatever the default call, into a
\* snapshot that carries it.
LEMMA ParsedCarries ==
    ASSUME NEW d, NEW q, LooksLikeKey(q), NEW p, Theirs(d, q, p),
           NEW default, NEW src
    PROVE  /\ SegmentMatches(RecordFrom(d, p), default, q)
           /\ Carries(d, Parsed(RecordFrom(d, p), default, src), p)
<1>. DEFINE r == RecordFrom(d, p)
<1>1. SegmentCall(r, <<>>) = q
  BY DEF Theirs
<1>2. SegmentCall(r, default) = q
  BY <1>1 DEF SegmentCall, LooksLikeKey
<1>. HIDE DEF r
<1>3. SegmentMatches(r, default, q)
  BY <1>2 DEF SegmentMatches
<1>4. /\ Parsed(r, default, src).vintage = SegmentVintage(r)
      /\ Parsed(r, default, src).text = SegmentText(r)
  BY DEF Parsed
<1>. QED
  BY <1>3, <1>4 DEF Carries, r

-----------------------------------------------------------------------------
(* Merging loses nothing.                                                    *)

\* Merging fills, and never empties, a field.
LEMMA MergeCarries ==
    ASSUME NEW d, NEW p, NEW self \in Snapshot, NEW other \in Snapshot,
           self.vintage = other.vintage, Carries(d, self, p) \/ Carries(d, other, p)
    PROVE  Carries(d, MergeMissing(self, other), p)
<1>1. MergeMissing(self, other).vintage = self.vintage
  BY MergeType
<1>2. ASSUME NEW f \in Fields, self.text[f] # NoText \/ other.text[f] # NoText
      PROVE  MergeMissing(self, other).text[f] # NoText
  BY <1>2 DEF MergeMissing, Snapshot
<1>. QED
  BY <1>1, <1>2 DEF Carries

LEMMA AbsorbCarries ==
    ASSUME NEW d, NEW q, NEW r, ReportOf(r, q), Filed(r), NEW s \in Snapshot, s.call = q
    PROVE  /\ Filed(Absorb(r, s))
           /\ \A p : InReport(d, r, p) \/ Carries(d, s, p) => InReport(d, Absorb(r, s), p)
<1>. DEFINE h == r.history
            n == Len(h)
<1>1. h \in Seq(Snapshot) /\ n \in Nat /\ r.current \in Snapshot \cup {NoSnapshot}
      /\ r = [current |-> r.current, history |-> h]
  BY DEF ReportOf, Report
<1>2. /\ \A i \in 1..n : h[i] \in Snapshot /\ h[i].call = q /\ h[i].vintage # NoYear
      /\ r.current # NoSnapshot => r.current.vintage = NoYear
  BY <1>1, ElementOfSeq DEF ReportOf, SnapshotsOf, Filed
<1>3. CASE s.vintage = NoYear
  <2>. DEFINE c == IF r.current = NoSnapshot THEN s
                   ELSE MergeMissing(r.current, s)
  <2>1. c \in Snapshot /\ c.vintage = NoYear /\ c # NoSnapshot
    BY <1>1, <1>2, <1>3, MergeType, SnapshotAssumption
  <2>2. Absorb(r, s) = [current |-> c, history |-> h]
    BY <1>1, <1>3 DEF Absorb
  <2>3. ASSUME NEW p, (r.current # NoSnapshot /\ Carries(d, r.current, p)) \/ Carries(d, s, p)
        PROVE  Carries(d, c, p)
    <3>1. CASE r.current = NoSnapshot
      BY <2>3, <3>1
    <3>2. CASE r.current # NoSnapshot
      BY <1>1, <1>2, <1>3, <2>3, <3>2, MergeCarries
    <3>. QED
      BY <3>1, <3>2
  <2>. HIDE DEF c, h
  <2>4. Absorb(r, s).current = c /\ Absorb(r, s).history = h
    BY <2>2
  <2>5. Filed(Absorb(r, s))
    BY <1>2, <2>1, <2>4 DEF Filed
  <2>6. ASSUME NEW p, InReport(d, r, p) \/ Carries(d, s, p)
        PROVE  InReport(d, Absorb(r, s), p)
    BY <2>1, <2>3, <2>4, <2>6 DEF InReport, h
  <2>. QED
    BY <2>5, <2>6
<1>4. CASE s.vintage # NoYear /\ SameEdition(r, s) = {}
  <2>. DEFINE g == Append(h, s)
  <2>1. Absorb(r, s) = [current |-> r.current, history |-> g]
    BY <1>1, <1>4 DEF Absorb
  <2>2. /\ g \in Seq(Snapshot) /\ Len(g) = n + 1
        /\ \A i \in 1..n : g[i] = h[i]
        /\ g[n + 1] = s
    BY <1>1, AppendProperties
  <2>. HIDE DEF g
  <2>3. Absorb(r, s).current = r.current /\ Absorb(r, s).history = g
    BY <2>1
  <2>4. Filed(Absorb(r, s))
    BY <1>1, <1>2, <1>4, <2>2, <2>3 DEF Filed
  <2>5. ASSUME NEW p, Among(d, h, p) \/ Carries(d, s, p)
        PROVE  Among(d, g, p)
    BY <1>1, <2>2, <2>5 DEF Among
  <2>. QED
    BY <2>3, <2>4, <2>5 DEF InReport
<1>5. CASE s.vintage # NoYear /\ SameEdition(r, s) # {}
  <2>. DEFINE k == Min(SameEdition(r, s))
              m == MergeMissing(h[k], s)
              g == [h EXCEPT ![k] = m]
  <2>1. k \in 1..n /\ h[k].vintage = s.vintage
    <3>1. SameEdition(r, s) \in SUBSET Nat
      BY <1>1 DEF SameEdition
    <3>2. k \in SameEdition(r, s)
      BY <3>1, <1>5, MinOfNat
    <3>. QED
      BY <3>2 DEF SameEdition
  <2>2. Absorb(r, s) = [current |-> r.current, history |-> g]
    BY <1>1, <1>5 DEF Absorb
  <2>3. m \in Snapshot /\ m.vintage = h[k].vintage
        /\ \A p : Carries(d, h[k], p) \/ Carries(d, s, p) => Carries(d, m, p)
    BY <2>1, <1>2, MergeType, MergeCarries
  <2>. HIDE DEF k, m
  <2>4. /\ g \in Seq(Snapshot) /\ Len(g) = n
        /\ \A i \in 1..n : g[i] = IF i = k THEN m ELSE h[i]
    BY <1>1, <2>1, <2>3, ExceptSeq
  <2>. HIDE DEF g
  <2>5. Absorb(r, s).current = r.current /\ Absorb(r, s).history = g
    BY <2>2
  <2>6. Filed(Absorb(r, s))
    BY <1>2, <2>1, <2>3, <2>4, <2>5 DEF Filed
  <2>7. ASSUME NEW p, Among(d, h, p) \/ Carries(d, s, p)
        PROVE  Among(d, g, p)
    <3>1. CASE Carries(d, s, p)
      BY <2>1, <2>3, <2>4, <3>1 DEF Among
    <3>2. CASE Among(d, h, p)
      <4>1. PICK i \in 1..n : Carries(d, h[i], p)
        BY <3>2 DEF Among
      <4>2. Carries(d, g[i], p)
        BY <2>3, <2>4, <4>1
      <4>. QED
        BY <2>4, <4>2 DEF Among
    <3>. QED
      BY <2>7, <3>1, <3>2
  <2>. QED
    BY <2>5, <2>6, <2>7 DEF InReport
<1>. QED
  BY <1>3, <1>4, <1>5

-----------------------------------------------------------------------------
(* The invariant.                                                            *)

Kept(p) == InReport(db, report, p) \/ Among(db, queue, p)

\* Every record of the callsign in the slice of entry i is kept.
EntryKept(i) ==
    \A p : Theirs(db, query, p) /\ Whole(db, db.idx[i].offset, SliceEnd(db, i), p)
               => Kept(p)

\* Of the first window, what lies before the cursor is found.
WindowDone ==
    Parsing /\ window.attempt = 0 =>
        \A p : Theirs(db, query, p) /\ Whole(db, window.first, window.last, p) =>
            cursor <= p \/ Among(db, found, p)

\* The first window is that of the entry or posting; a larger one is tried only
\* when no record of the callsign starts at the posting.
WindowOf ==
    Parsing =>
        /\ source = "HamCallDatIdx" =>
               /\ window.attempt = 0 /\ at \in 1..Len(db.idx)
               /\ window.first = db.idx[at].offset /\ window.last = SliceEnd(db, at)
        /\ source = "HamCallHci" =>
               /\ window.attempt = 0 =>
                      /\ window.first = RecordAt(db, window.posting)[1]
                      /\ window.last = RecordAt(db, window.posting)[2]
               /\ window.attempt # 0 => ~Theirs(db, query, window.posting)

\* The entries visited, all of them once the queue is merged or the HCI is next.
EntriesKept ==
    Busy => \A i \in EntriesOf(db, query) :
        (\/ source = "HamCallHci" \/ pc = "merge"
         \/ i < at \/ (i = at /\ pc = "visit")) => EntryKept(i)

SeenKept ==
    Busy /\ source = "HamCallHci" =>
        \A p \in seen : Theirs(db, query, p) =>
            Kept(p) \/ (pc = "parse" /\ p = window.posting)

YearAt(d, k) == IF k = 0 THEN NoYear ELSE d.years[k]

\* Every posting of the years searched is seen or still to be visited.
PostingsInHand ==
    Busy /\ source = "HamCallHci" =>
        /\ at <= Len(db.years)
        /\ pc = "merge" => todo = <<>> /\ at = Len(db.years)
        /\ \A k \in 0..at : \A n \in 1..Len(PostingsOf(db, query, YearAt(db, k))) :
               LET p == PostingsOf(db, query, YearAt(db, k))[n]
               IN  p \in seen \/ \E m \in 1..Len(todo) : todo[m] = p

PostedIn(d, q, p) ==
    \E k \in 0..Len(d.years) : \E n \in 1..Len(PostingsOf(d, q, YearAt(d, k))) :
        PostingsOf(d, q, YearAt(d, k))[n] = p

SlicedIn(d, q, p) ==
    \E i \in EntriesOf(d, q) : Whole(d, d.idx[i].offset, SliceEnd(d, i), p)

AnswerComplete ==
    answer.query # <<>> =>
        \A p : Theirs(db, answer.query, p)
                   /\ (PostedIn(db, answer.query, p) \/ SlicedIn(db, answer.query, p))
               => InReport(db, answer, p)

AllFiled == Filed(answer) /\ (Busy => Filed(report))

Complete ==
    /\ AllFiled /\ AnswerComplete
    /\ EntriesKept /\ SeenKept /\ PostingsInHand
    /\ WindowDone /\ WindowOf

\* The callsigns looked up are those that a key of hamcall.dat can have.
KeyCalls == \A c \in Calls : LooksLikeKey(c)

-----------------------------------------------------------------------------
(* The steps.                                                                *)

\* What is kept stays so while report and queue do, or the queue grows.
LEMMA KeptStays ==
    ASSUME UNCHANGED <<db, query, report>>, queue' = queue
    PROVE  (\A p : Kept(p)' <=> Kept(p)) /\ (\A i : EntryKept(i)' <=> EntryKept(i))
BY DEF Kept, EntryKept

LEMMA QuietComplete ==
    ASSUME Inv, Complete,
           UNCHANGED <<db, query, report, queue, source, window, cursor, found,
                       seen, answer, at, todo, pc>>
    PROVE  Complete'
<1>1. Busy' = Busy /\ Parsing' = Parsing
  BY DEF Busy, Parsing
<1>2. AllFiled' /\ AnswerComplete' /\ WindowDone' /\ WindowOf' /\ PostingsInHand'
  BY <1>1 DEF Complete, AllFiled, AnswerComplete, WindowDone, WindowOf, PostingsInHand
<1>3. EntriesKept' /\ SeenKept'
  BY <1>1, KeptStays DEF Complete, EntriesKept, SeenKept
<1>. QED
  BY <1>2, <1>3 DEF Complete

LEMMA IdleComplete ==
    ASSUME Inv, Complete, NEW c \in Calls, Reject \/ Begin(c)
    PROVE  Complete'
<1>1. CASE Reject
  <2>1. ~Busy /\ ~Busy' /\ ~Parsing' /\ answer' = Rejection
    BY <1>1 DEF Reject, Busy, Parsing
  <2>2. Filed(Rejection) /\ Rejection.query = <<>>
    BY DEF Filed, Rejection, NoAnswer
  <2>. QED
    BY <2>1, <2>2 DEF Complete, AllFiled, AnswerComplete, WindowDone, WindowOf,
                      PostingsInHand, EntriesKept, SeenKept
<1>2. CASE Begin(c)
  <2>1. /\ pc' = "visit" /\ query' = c /\ source' = "HamCallDatIdx" /\ at' = 0
        /\ report' = [current |-> db.csv[c], history |-> <<>>]
        /\ UNCHANGED <<db, answer>>
    BY <1>2 DEF Begin
  <2>2. IsDatabase(db)
    BY DatabasesAssumption DEF Inv, TypeOK
  <2>3. Filed(report')
    BY <2>1, <2>2 DEF Filed, IsDatabase
  <2>4. AllFiled' /\ AnswerComplete'
    BY <2>1, <2>3 DEF Complete, AllFiled, AnswerComplete
  <2>5. ~Parsing' /\ source' # "HamCallHci"
    BY <2>1 DEF Parsing
  <2>6. \A i \in EntriesOf(db', query') : ~(i < at') /\ i # at'
    <3>1. \A i \in EntriesOf(db', query') : i \in 1..Len(db.idx)
      BY <2>1 DEF EntriesOf
    <3>2. Len(db.idx) \in Nat
      BY <2>2, DatabaseTypes
    <3>. QED
      BY <2>1, <3>1, <3>2
  <2>7. EntriesKept'
    BY <2>1, <2>5, <2>6 DEF EntriesKept
  <2>. QED
    BY <2>4, <2>5, <2>7 DEF Complete, WindowDone, WindowOf, PostingsInHand, SeenKept
<1>. QED
  BY <1>1, <1>2

\* Steps over the entries of the IDX.
LEMMA VisitEntryComplete ==
    ASSUME Inv, Complete, NEW i \in 1..Len(db.idx), VisitEntry(i)
    PROVE  Complete'
<1>0. IsDatabase(db)
  BY DatabasesAssumption DEF Inv, TypeOK
<1>1. /\ pc = "visit" /\ pc' = "parse" /\ source = "HamCallDatIdx" /\ at' = i
      /\ i \in EntriesOf(db, query) /\ at \in Nat /\ i \in Nat
      /\ \A j \in EntriesOf(db, query) : j > at => i <= j
      /\ window' = Window(db.idx[i].offset, SliceEnd(db, i), db.idx[i].key.call,
                          db.idx[i].offset, 0)
      /\ cursor' = db.idx[i].offset /\ found' = <<>>
      /\ UNCHANGED <<db, query, report, source, todo, queue, seen, answer>>
  BY <1>0, DatabaseTypes DEF VisitEntry, NextEntry, StartParse, Window, Inv, TypeOK
<1>2. Busy /\ Busy' /\ Parsing'
  BY <1>1 DEF Busy, Parsing
<1>3. AllFiled' /\ AnswerComplete'
  BY <1>1, <1>2 DEF Complete, AllFiled, AnswerComplete
<1>4. /\ window'.attempt = 0 /\ window'.first = db.idx[i].offset
      /\ window'.last = SliceEnd(db, i)
  BY <1>1 DEF Window
<1>5. WindowDone'
  BY <1>1, <1>4 DEF WindowDone, Whole
<1>6. WindowOf'
  BY <1>1, <1>4 DEF WindowOf
<1>7. EntriesKept'
  <2>. SUFFICES ASSUME NEW j \in EntriesOf(db, query), j < i
                PROVE  EntryKept(j)'
    BY <1>1 DEF EntriesKept
  <2>1. j <= at
    <3>1. j \in Nat
      BY <1>0, DatabaseTypes DEF EntriesOf
    <3>. QED
      BY <1>1, <3>1
  <2>2. EntryKept(j)
    <3>1. j \in Nat
      BY <1>0, DatabaseTypes DEF EntriesOf
    <3>. QED
      BY <1>1, <1>2, <2>1, <3>1 DEF Complete, EntriesKept
  <2>. QED
    BY <1>1, <2>2, KeptStays
<1>8. SeenKept' /\ PostingsInHand'
  BY <1>1 DEF SeenKept, PostingsInHand
<1>. QED
  BY <1>3, <1>5, <1>6, <1>7, <1>8 DEF Complete

LEMMA SkipEntryComplete ==
    ASSUME Inv, Complete, NEW i \in 1..Len(db.idx), SkipEntry(i)
    PROVE  Complete'
<1>0. IsDatabase(db)
  BY DatabasesAssumption DEF Inv, TypeOK
<1>1. /\ pc = "visit" /\ source = "HamCallDatIdx" /\ at' = i
      /\ i \in EntriesOf(db, query) /\ at \in Nat /\ i \in Nat
      /\ \A j \in EntriesOf(db, query) : j > at => i <= j
      /\ db.idx[i].offset > Len(db.dat) \/ SliceEnd(db, i) < db.idx[i].offset - 1
      /\ UNCHANGED <<db, pc, query, report, source, todo, queue, window, cursor,
                     found, seen, answer>>
  BY <1>0, DatabaseTypes DEF SkipEntry, NextEntry, Inv, TypeOK
<1>2. Busy /\ Busy' /\ ~Parsing'
  BY <1>1 DEF Busy, Parsing
<1>3. AllFiled' /\ AnswerComplete'
  BY <1>1, <1>2 DEF Complete, AllFiled, AnswerComplete
<1>4. EntryKept(i)
  <2>. SUFFICES ASSUME NEW p, Theirs(db, query, p),
                       Whole(db, db.idx[i].offset, SliceEnd(db, i), p)
                PROVE  FALSE
    BY DEF EntryKept
  <2>1. /\ p \in Nat /\ p <= Len(db.dat) /\ RecordEnd(db, p) \in Nat
        /\ p <= RecordEnd(db, p) /\ Len(db.dat) \in Nat
    BY <1>0, RecordBounds DEF Theirs
  <2>2. db.idx[i].offset \in Nat /\ SliceEnd(db, i) \in Nat
    BY <1>0, DatabaseTypes, SliceEndBounds
  <2>. QED
    BY <1>1, <2>1, <2>2 DEF Whole
<1>5. EntriesKept'
  <2>. SUFFICES ASSUME NEW j \in EntriesOf(db, query), j < i \/ j = i
                PROVE  EntryKept(j)'
    BY <1>1 DEF EntriesKept
  <2>1. j \in Nat
    BY <1>0, DatabaseTypes DEF EntriesOf
  <2>2. CASE j = i
    BY <1>1, <1>4, <2>2, KeptStays
  <2>3. CASE j < i
    <3>1. j <= at
      BY <1>1, <2>1, <2>3
    <3>2. EntryKept(j)
      BY <1>1, <1>2, <2>1, <3>1 DEF Complete, EntriesKept
    <3>. QED
      BY <1>1, <3>2, KeptStays
  <2>. QED
    BY <2>2, <2>3
<1>6. SeenKept' /\ PostingsInHand' /\ WindowDone' /\ WindowOf'
  BY <1>1, <1>2 DEF SeenKept, PostingsInHand, WindowDone, WindowOf
<1>. QED
  BY <1>3, <1>5, <1>6 DEF Complete

LEMMA EntriesDoneComplete ==
    ASSUME Inv, Complete, EntriesDone
    PROVE  Complete'
<1>0. IsDatabase(db)
  BY DatabasesAssumption DEF Inv, TypeOK
<1>1. /\ pc = "visit" /\ pc' = "merge" /\ source = "HamCallDatIdx"
      /\ at \in Nat /\ \A i \in EntriesOf(db, query) : i <= at
      /\ UNCHANGED <<db, query, report, source, queue, answer>>
  BY DEF EntriesDone, Inv, TypeOK
<1>2. Busy /\ Busy' /\ ~Parsing'
  BY <1>1 DEF Busy, Parsing
<1>3. AllFiled' /\ AnswerComplete'
  BY <1>1, <1>2 DEF Complete, AllFiled, AnswerComplete
<1>4. EntriesKept'
  <2>. SUFFICES ASSUME NEW j \in EntriesOf(db, query)
                PROVE  EntryKept(j)'
    BY <1>1 DEF EntriesKept
  <2>1. j \in Nat /\ j <= at
    BY <1>0, <1>1, DatabaseTypes DEF EntriesOf
  <2>2. EntryKept(j)
    BY <1>1, <1>2, <2>1 DEF Complete, EntriesKept
  <2>. QED
    BY <1>1, <2>2, KeptStays
<1>5. SeenKept' /\ PostingsInHand' /\ WindowDone' /\ WindowOf'
  BY <1>1, <1>2 DEF SeenKept, PostingsInHand, WindowDone, WindowOf
<1>. QED
  BY <1>3, <1>4, <1>5 DEF Complete

\* Steps over the postings of the HCI.
LEMMA EntriesStay ==
    ASSUME EntriesKept, Busy, source = "HamCallHci",
           UNCHANGED <<db, query, report, queue>>
    PROVE  EntriesKept'
<1>1. \A i \in EntriesOf(db, query) : EntryKept(i)
  BY DEF EntriesKept
<1>. QED
  BY <1>1, KeptStays DEF EntriesKept

LEMMA NextYearComplete ==
    ASSUME Inv, Complete, NextYear
    PROVE  Complete'
<1>1. /\ pc = "visit" /\ source = "HamCallHci" /\ todo = <<>>
      /\ at \in Nat /\ at < Len(db.years) /\ at' = at + 1
      /\ todo' = PostingsOf(db, query, db.years[at'])
      /\ UNCHANGED <<db, pc, query, report, source, queue, seen, answer>>
  BY DEF NextYear, Inv, TypeOK
<1>2. Busy /\ Busy' /\ ~Parsing'
  BY <1>1 DEF Busy, Parsing
<1>3. AllFiled' /\ AnswerComplete'
  BY <1>1, <1>2 DEF Complete, AllFiled, AnswerComplete
<1>4. EntriesKept' /\ SeenKept'
  <2>1. EntriesKept'
    BY <1>1, <1>2, EntriesStay DEF Complete
  <2>2. SeenKept'
    BY <1>1, <1>2, KeptStays DEF Complete, SeenKept
  <2>. QED
    BY <2>1, <2>2
<1>5. PostingsInHand'
  <2>1. at' <= Len(db.years)
    <3>1. Len(db.years) \in Nat
      BY DatabasesAssumption DEF Inv, TypeOK, IsDatabase
    <3>. QED
      BY <1>1, <3>1
  <2>2. ASSUME NEW k \in 0..at',
               NEW n \in 1..Len(PostingsOf(db, query, YearAt(db, k)))
        PROVE  LET p == PostingsOf(db, query, YearAt(db, k))[n]
               IN  p \in seen \/ \E m \in 1..Len(todo') : todo'[m] = p
    <3>1. CASE k = at'
      <4>1. YearAt(db, k) = db.years[at']
        BY <1>1, <3>1 DEF YearAt
      <4>. QED
        BY <1>1, <4>1
    <3>2. CASE k # at'
      <4>1. k \in 0..at
        BY <1>1, <3>2
      <4>. QED
        BY <1>1, <1>2, <4>1 DEF Complete, PostingsInHand
    <3>. QED
      BY <3>1, <3>2
  <2>. QED
    BY <1>1, <2>1, <2>2 DEF PostingsInHand
<1>. QED
  BY <1>2, <1>3, <1>4, <1>5 DEF Complete, WindowDone, WindowOf

\* Taking the head off the postings leaves it, or finds it, among the seen.
LEMMA HeadSeen ==
    ASSUME todo \in Seq(Nat \ {0}), todo # <<>>, NEW p,
           p \in seen \/ \E m \in 1..Len(todo) : todo[m] = p
    PROVE  \/ p \in seen \cup {Head(todo)}
           \/ \E m \in 1..Len(Tail(todo)) : Tail(todo)[m] = p
<1>1. CASE p \in seen
  BY <1>1
<1>2. CASE \E m \in 1..Len(todo) : todo[m] = p
  <2>1. PICK m \in 1..Len(todo) : todo[m] = p
    BY <1>2
  <2>2. CASE m = 1
    BY <2>1, <2>2
  <2>3. CASE m # 1
    <3>1. m - 1 \in 1..Len(Tail(todo)) /\ Tail(todo)[m - 1] = todo[m]
      BY <2>1, <2>3
    <3>. QED
      BY <2>1, <3>1
  <2>. QED
    BY <2>2, <2>3
<1>. QED
  BY <1>1, <1>2

LEMMA VisitPostingComplete ==
    ASSUME Inv, Complete, VisitPosting
    PROVE  Complete'
<1>. DEFINE p == Head(todo)
            r == RecordAt(db, p)
<1>1. /\ pc = "visit" /\ pc' = "parse" /\ source = "HamCallHci" /\ todo # <<>>
      /\ todo \in Seq(Nat \ {0}) /\ seen' = seen \cup {p} /\ todo' = Tail(todo)
      /\ window' = Window(r[1], r[2], NoDefault, p, 0)
      /\ cursor' = r[1] /\ found' = <<>>
      /\ UNCHANGED <<db, query, report, source, at, queue, answer>>
  BY DEF VisitPosting, StartParse, Window, Inv, TypeOK
<1>. HIDE DEF r
<1>2. Busy /\ Busy' /\ Parsing'
  BY <1>1 DEF Busy, Parsing
<1>3. AllFiled' /\ AnswerComplete'
  BY <1>1, <1>2 DEF Complete, AllFiled, AnswerComplete
<1>4. /\ window'.attempt = 0 /\ window'.first = r[1] /\ window'.last = r[2]
      /\ window'.posting = p
  BY <1>1 DEF Window
<1>5. WindowDone'
  BY <1>1, <1>4 DEF WindowDone, Whole
<1>6. WindowOf'
  BY <1>1, <1>4 DEF WindowOf, r
<1>7. EntriesKept'
  BY <1>1, <1>2, EntriesStay DEF Complete
<1>8. SeenKept'
  <2>1. \A x \in seen : Theirs(db, query, x) => Kept(x)
    BY <1>1, <1>2 DEF Complete, SeenKept
  <2>. QED
    BY <1>1, <1>4, <2>1, KeptStays DEF SeenKept
<1>9. PostingsInHand'
  <2>1. ASSUME NEW k \in 0..at,
               NEW n \in 1..Len(PostingsOf(db, query, YearAt(db, k)))
        PROVE  LET x == PostingsOf(db, query, YearAt(db, k))[n]
               IN  x \in seen' \/ \E m \in 1..Len(todo') : todo'[m] = x
    <3>. DEFINE x == PostingsOf(db, query, YearAt(db, k))[n]
    <3>1. x \in seen \/ \E m \in 1..Len(todo) : todo[m] = x
      BY <1>1, <1>2 DEF Complete, PostingsInHand
    <3>. HIDE DEF x
    <3>2. x \in seen' \/ \E m \in 1..Len(todo') : todo'[m] = x
      BY <1>1, <3>1, HeadSeen
    <3>. QED
      BY <3>2 DEF x
  <2>2. at <= Len(db.years)
    BY <1>1, <1>2 DEF Complete, PostingsInHand
  <2>. QED
    BY <1>1, <2>1, <2>2 DEF PostingsInHand
<1>. QED
  BY <1>3, <1>5, <1>6, <1>7, <1>8, <1>9 DEF Complete

LEMMA SkipPostingComplete ==
    ASSUME Inv, Complete, SkipPosting
    PROVE  Complete'
<1>1. /\ pc = "visit" /\ source = "HamCallHci" /\ todo # <<>>
      /\ todo \in Seq(Nat \ {0}) /\ Head(todo) \in seen /\ todo' = Tail(todo)
      /\ UNCHANGED <<db, pc, query, report, source, at, queue, seen, answer>>
  BY DEF SkipPosting, Inv, TypeOK
<1>2. Busy /\ Busy' /\ ~Parsing'
  BY <1>1 DEF Busy, Parsing
<1>3. AllFiled' /\ AnswerComplete'
  BY <1>1, <1>2 DEF Complete, AllFiled, AnswerComplete
<1>4. EntriesKept'
  BY <1>1, <1>2, EntriesStay DEF Complete
<1>5. SeenKept'
  BY <1>1, <1>2, KeptStays DEF Complete, SeenKept
<1>6. PostingsInHand'
  <2>1. ASSUME NEW k \in 0..at,
               NEW n \in 1..Len(PostingsOf(db, query, YearAt(db, k)))
        PROVE  LET x == PostingsOf(db, query, YearAt(db, k))[n]
               IN  x \in seen \/ \E m \in 1..Len(todo') : todo'[m] = x
    <3>. DEFINE x == PostingsOf(db, query, YearAt(db, k))[n]
    <3>1. x \in seen \/ \E m \in 1..Len(todo) : todo[m] = x
      BY <1>1, <1>2 DEF Complete, PostingsInHand
    <3>. HIDE DEF x
    <3>2. x \in seen \/ \E m \in 1..Len(todo') : todo'[m] = x
      BY <1>1, <3>1, HeadSeen
    <3>. QED
      BY <3>2 DEF x
  <2>2. at <= Len(db.years)
    BY <1>1, <1>2 DEF Complete, PostingsInHand
  <2>. QED
    BY <1>1, <2>1, <2>2 DEF PostingsInHand
<1>. QED
  BY <1>2, <1>3, <1>4, <1>5, <1>6 DEF Complete, WindowDone, WindowOf

LEMMA PostingsDoneComplete ==
    ASSUME Inv, Complete, PostingsDone
    PROVE  Complete'
<1>1. /\ pc = "visit" /\ pc' = "merge" /\ source = "HamCallHci" /\ todo = <<>>
      /\ at = Len(db.years)
      /\ UNCHANGED <<db, query, report, source, at, todo, queue, seen, answer>>
  BY DEF PostingsDone
<1>2. Busy /\ Busy' /\ ~Parsing'
  BY <1>1 DEF Busy, Parsing
<1>3. AllFiled' /\ AnswerComplete'
  BY <1>1, <1>2 DEF Complete, AllFiled, AnswerComplete
<1>4. EntriesKept'
  BY <1>1, <1>2, EntriesStay DEF Complete
<1>5. SeenKept'
  BY <1>1, <1>2, KeptStays DEF Complete, SeenKept
<1>6. PostingsInHand'
  BY <1>1, <1>2 DEF Complete, PostingsInHand
<1>. QED
  BY <1>2, <1>3, <1>4, <1>5, <1>6 DEF Complete, WindowDone, WindowOf

-----------------------------------------------------------------------------
(* Parsing.                                                                  *)

LEMMA AmongAppend ==
    ASSUME NEW d, NEW p, NEW ss \in Seq(Snapshot), NEW x,
           Among(d, ss, p) \/ Carries(d, x, p)
    PROVE  Among(d, Append(ss, x), p)
<1>1. /\ Len(Append(ss, x)) = Len(ss) + 1 /\ Len(ss) \in Nat
      /\ \A i \in 1..Len(ss) : Append(ss, x)[i] = ss[i]
      /\ Append(ss, x)[Len(ss) + 1] = x
  OBVIOUS
<1>2. CASE Carries(d, x, p)
  BY <1>1, <1>2 DEF Among
<1>3. CASE Among(d, ss, p)
  BY <1>1, <1>3 DEF Among
<1>. QED
  BY <1>2, <1>3

LEMMA ParseSegmentComplete ==
    ASSUME Inv, Complete, KeyCalls, ParseSegment
    PROVE  Complete'
<1>0. IsDatabase(db)
  BY DatabasesAssumption DEF Inv, TypeOK
<1>1. /\ pc = "parse" /\ cursor' = NextSegment(window, cursor)
      /\ UNCHANGED <<db, pc, query, report, source, at, todo, queue, window, seen,
                     answer>>
  BY DEF ParseSegment
<1>2. Busy /\ Busy' /\ Parsing /\ Parsing'
  BY <1>1 DEF Busy, Parsing
<1>3. AllFiled' /\ AnswerComplete' /\ PostingsInHand' /\ WindowOf'
  BY <1>1, <1>2 DEF Complete, AllFiled, AnswerComplete, PostingsInHand, WindowOf
<1>4. EntriesKept' /\ SeenKept'
  BY <1>1, <1>2, KeptStays DEF Complete, EntriesKept, SeenKept
<1>5. /\ cursor \in Nat \ {0} /\ window.last \in Nat /\ window.last <= Len(db.dat)
      /\ cursor <= window.last /\ found \in Seq(Snapshot)
      /\ Len(db.dat) \in Nat
  BY <1>0, <1>2, DatabaseTypes DEF Inv, TypeOK, ParseSegment, ParseEnds
<1>6. LooksLikeKey(query)
  BY <1>2, CallsAssumption DEF Inv, KeyCalls
<1>. DEFINE ends == {NextMark(db, cursor + 1), window.last + 1}
<1>7. /\ NextMark(db, cursor + 1) \in Nat
      /\ NextSegment(window, cursor) \in ends
      /\ NextSegment(window, cursor) <= NextMark(db, cursor + 1)
      /\ NextSegment(window, cursor) <= window.last + 1
  <2>1. NextMark(db, cursor + 1) \in Nat
    BY <1>0, <1>5, NextMarkBounds
  <2>2. ends \in SUBSET Nat /\ ends # {}
    BY <1>5, <2>1
  <2>3. Min(ends) \in ends /\ \A y \in ends : Min(ends) <= y
    BY <2>2, MinOfNat
  <2>. QED
    BY <2>1, <2>3 DEF NextSegment
<1>8. ASSUME window.attempt = 0, NEW p, Theirs(db, query, p),
             Whole(db, window.first, window.last, p)
      PROVE  cursor' <= p \/ Among(db, found', p)
  <2>1. /\ p \in MarksOf(db) /\ p \in Nat \ {0} /\ RecordEnd(db, p) \in Nat
        /\ RecordEnd(db, p) <= window.last
    BY <1>0, <1>8, RecordBounds DEF Theirs, Whole
  <2>2. cursor <= p \/ Among(db, found, p)
    BY <1>2, <1>8 DEF Complete, WindowDone
  <2>3. CASE Among(db, found, p)
    <3>1. CASE SegmentMatches(Segment, window.default, query)
      <4>1. found' = Append(found, Parsed(Segment, window.default, source))
        BY <3>1 DEF ParseSegment
      <4>. QED
        BY <1>5, <2>3, <4>1, AmongAppend
    <3>2. CASE ~SegmentMatches(Segment, window.default, query)
      BY <2>3, <3>2 DEF ParseSegment
    <3>. QED
      BY <3>1, <3>2
  <2>4. CASE cursor < p
    <3>1. NextMark(db, cursor + 1) <= p
      BY <1>0, <1>5, <2>1, <2>4, NextMarkReaches
    <3>. QED
      BY <1>1, <1>5, <1>7, <2>1, <3>1
  <2>5. CASE cursor = p
    <3>1. NextSegment(window, cursor) = NextMark(db, p + 1)
      BY <1>5, <1>7, <2>1, <2>5 DEF RecordEnd
    <3>2. Segment = RecordFrom(db, p)
      BY <2>5, <3>1 DEF Segment, RecordFrom, RecordEnd
    <3>3. /\ SegmentMatches(Segment, window.default, query)
          /\ Carries(db, Parsed(Segment, window.default, source), p)
      BY <1>6, <1>8, <3>2, ParsedCarries
    <3>4. found' = Append(found, Parsed(Segment, window.default, source))
      BY <3>3 DEF ParseSegment
    <3>. QED
      BY <1>5, <3>3, <3>4, AmongAppend
  <2>. QED
    BY <1>5, <2>1, <2>2, <2>3, <2>4, <2>5
<1>9. WindowDone'
  BY <1>1, <1>8 DEF WindowDone
<1>. QED
  BY <1>3, <1>4, <1>9 DEF Complete

\* When the first window is parsed to its end, its records are found.
LEMMA FirstWindowFound ==
    ASSUME Inv, Complete, pc = "parse", ParseEnds, window.attempt = 0, NEW p,
           Theirs(db, query, p), Whole(db, window.first, window.last, p)
    PROVE  Among(db, found, p)
<1>1. IsDatabase(db) /\ cursor \in Nat /\ window.last \in Nat
  BY DatabasesAssumption DEF Inv, TypeOK
<1>2. cursor > window.last
  BY DEF ParseEnds, CompleteOnly
<1>3. p \in Nat /\ RecordEnd(db, p) \in Nat /\ p <= RecordEnd(db, p)
  BY <1>1, RecordBounds DEF Theirs
<1>4. ~(cursor <= p)
  BY <1>1, <1>2, <1>3 DEF Whole
<1>. QED
  BY <1>4 DEF Complete, WindowDone, Parsing

LEMMA PostingFound ==
    ASSUME Inv, Complete, pc = "parse", ParseEnds, source = "HamCallHci",
           Theirs(db, query, window.posting)
    PROVE  Among(db, found, window.posting)
<1>. DEFINE p == window.posting
<1>1. IsDatabase(db) /\ p \in MarksOf(db)
  BY DatabasesAssumption DEF Inv, TypeOK, Theirs
<1>2. /\ window.attempt = 0 /\ window.first = RecordAt(db, p)[1]
      /\ window.last = RecordAt(db, p)[2]
  BY DEF Complete, WindowOf, Parsing
<1>3. window.first = p /\ window.last = RecordEnd(db, p)
  BY <1>1, <1>2, RecordAtStart
<1>4. Whole(db, window.first, window.last, p)
  BY <1>1, <1>3, RecordBounds DEF Whole
<1>. QED
  BY <1>2, <1>4, FirstWindowFound

LEMMA WidenComplete ==
    ASSUME Inv, Complete, Widen
    PROVE  Complete'
<1>1. /\ pc = "parse" /\ pc' = "parse" /\ ParseEnds /\ source = "HamCallHci"
      /\ found = <<>> /\ window.attempt \in Nat
      /\ window'.posting = window.posting /\ window'.attempt = window.attempt + 1
      /\ UNCHANGED <<db, query, report, source, at, todo, queue, seen, answer>>
  BY WindowsAssumption DEF Widen, StartParse, Window, Inv, TypeOK
<1>2. Busy /\ Busy' /\ Parsing'
  BY <1>1 DEF Busy, Parsing
<1>3. ~Theirs(db, query, window.posting)
  <2>1. ~Among(db, found, window.posting)
    BY <1>1 DEF Among
  <2>. QED
    BY <1>1, <2>1, PostingFound
<1>4. AllFiled' /\ AnswerComplete' /\ PostingsInHand'
  BY <1>1, <1>2 DEF Complete, AllFiled, AnswerComplete, PostingsInHand
<1>5. EntriesKept'
  BY <1>1, <1>2, EntriesStay DEF Complete
<1>6. SeenKept'
  BY <1>1, <1>2, KeptStays DEF Complete, SeenKept
<1>7. WindowDone' /\ WindowOf'
  BY <1>1, <1>3 DEF WindowDone, WindowOf
<1>. QED
  BY <1>4, <1>5, <1>6, <1>7 DEF Complete

LEMMA ParseDoneComplete ==
    ASSUME Inv, Complete, ParseDone
    PROVE  Complete'
<1>0. IsDatabase(db)
  BY DatabasesAssumption DEF Inv, TypeOK
<1>1. /\ pc = "parse" /\ pc' = "visit" /\ ParseEnds /\ queue' = queue \o found
      /\ queue \in Seq(Snapshot) /\ found \in Seq(Snapshot)
      /\ source \in {"HamCallDatIdx", "HamCallHci"}
      /\ UNCHANGED <<db, query, report, source, at, todo, window, seen, answer>>
  BY DEF ParseDone, Inv, TypeOK
<1>2. Busy /\ Busy' /\ Parsing /\ ~Parsing'
  BY <1>1 DEF Busy, Parsing
<1>3. AllFiled' /\ AnswerComplete' /\ PostingsInHand'
  BY <1>1, <1>2 DEF Complete, AllFiled, AnswerComplete, PostingsInHand
<1>4. ASSUME NEW p, Kept(p) \/ Among(db, found, p)
      PROVE  Kept(p)'
  <2>1. /\ Len(queue') = Len(queue) + Len(found)
        /\ Len(queue) \in Nat /\ Len(found) \in Nat
        /\ \A i \in 1..Len(queue) : queue'[i] = queue[i]
        /\ \A i \in 1..Len(found) : queue'[Len(queue) + i] = found[i]
    BY <1>1, ConcatProperties
  <2>2. Among(db, queue, p) \/ Among(db, found, p) => Among(db, queue', p)
    <3>1. ASSUME NEW i \in 1..Len(queue), Carries(db, queue[i], p)
          PROVE  Among(db, queue', p)
      BY <2>1, <3>1 DEF Among
    <3>2. ASSUME NEW i \in 1..Len(found), Carries(db, found[i], p)
          PROVE  Among(db, queue', p)
      <4>1. Len(queue) + i \in 1..Len(queue')
        BY <2>1
      <4>. QED
        BY <2>1, <3>2, <4>1 DEF Among
    <3>. QED
      BY <3>1, <3>2 DEF Among
  <2>. QED
    BY <1>1, <1>4, <2>2 DEF Kept
<1>5. EntriesKept'
  <2>. SUFFICES ASSUME NEW i \in EntriesOf(db, query),
                       source = "HamCallHci" \/ i < at \/ i = at,
                       NEW p, Theirs(db, query, p),
                       Whole(db, db.idx[i].offset, SliceEnd(db, i), p)
                PROVE  Kept(p) \/ Among(db, found, p)
    BY <1>1, <1>4 DEF EntriesKept, EntryKept
  <2>1. CASE source = "HamCallHci" \/ i < at
    BY <1>2, <2>1 DEF Complete, EntriesKept, EntryKept
  <2>2. CASE source # "HamCallHci" /\ i = at
    <3>1. /\ window.attempt = 0 /\ window.first = db.idx[i].offset
          /\ window.last = SliceEnd(db, i)
      BY <1>1, <1>2, <2>2 DEF Complete, WindowOf
    <3>. QED
      BY <1>1, <3>1, FirstWindowFound
  <2>. QED
    BY <2>1, <2>2
<1>6. SeenKept'
  <2>. SUFFICES ASSUME source = "HamCallHci", NEW p \in seen, Theirs(db, query, p)
                PROVE  Kept(p) \/ Among(db, found, p)
    BY <1>1, <1>4 DEF SeenKept
  <2>1. Kept(p) \/ p = window.posting
    BY <1>2 DEF Complete, SeenKept
  <2>. QED
    BY <1>1, <2>1, PostingFound
<1>7. WindowDone' /\ WindowOf'
  BY <1>2 DEF WindowDone, WindowOf
<1>. QED
  BY <1>3, <1>5, <1>6, <1>7 DEF Complete

-----------------------------------------------------------------------------
(* Merging and returning.                                                    *)

LEMMA MergeNextComplete ==
    ASSUME Inv, Complete, MergeNext
    PROVE  Complete'
<1>1. /\ pc = "merge" /\ queue # <<>> /\ queue \in Seq(Snapshot)
      /\ report' = Absorb(report, Head(queue)) /\ queue' = Tail(queue)
      /\ UNCHANGED <<db, pc, query, source, at, todo, seen, answer>>
  BY DEF MergeNext, Inv, TypeOK
<1>2. Busy /\ Busy' /\ ~Parsing /\ ~Parsing'
  BY <1>1 DEF Busy, Parsing
<1>3. Head(queue) = queue[1] /\ Head(queue) \in Snapshot /\ Head(queue).call = query
  BY <1>1, <1>2, HeadTailProperties DEF Inv, OwnCallOnly
<1>4. ReportOf(report, query) /\ Filed(report)
  BY <1>2, BusyReport DEF Complete, AllFiled
<1>5. /\ Filed(report')
      /\ \A p : InReport(db, report, p) \/ Carries(db, Head(queue), p)
                    => InReport(db, report', p)
  BY <1>1, <1>3, <1>4, AbsorbCarries
<1>6. ASSUME NEW p, Kept(p)
      PROVE  Kept(p)'
  <2>1. CASE InReport(db, report, p)
    BY <1>1, <1>5, <2>1 DEF Kept
  <2>2. CASE Among(db, queue, p)
    <3>1. PICK i \in 1..Len(queue) : Carries(db, queue[i], p)
      BY <2>2 DEF Among
    <3>2. CASE i = 1
      BY <1>1, <1>3, <1>5, <3>1, <3>2 DEF Kept
    <3>3. CASE i # 1
      <4>1. i - 1 \in 1..Len(Tail(queue)) /\ Tail(queue)[i - 1] = queue[i]
        BY <1>1, <3>1, <3>3
      <4>2. Among(db, Tail(queue), p)
        BY <3>1, <4>1 DEF Among
      <4>. QED
        BY <1>1, <4>2 DEF Kept
    <3>. QED
      BY <3>2, <3>3
  <2>. QED
    BY <1>6, <2>1, <2>2 DEF Kept
<1>7. AllFiled' /\ AnswerComplete' /\ PostingsInHand'
  BY <1>1, <1>2, <1>5 DEF Complete, AllFiled, AnswerComplete, PostingsInHand
<1>8. EntriesKept'
  BY <1>1, <1>2, <1>6 DEF Complete, EntriesKept, EntryKept
<1>9. SeenKept'
  BY <1>1, <1>2, <1>6 DEF Complete, SeenKept
<1>. QED
  BY <1>2, <1>7, <1>8, <1>9 DEF Complete, WindowDone, WindowOf

LEMMA TurnToHciComplete ==
    ASSUME Inv, Complete, TurnToHci
    PROVE  Complete'
<1>1. /\ pc = "merge" /\ pc' = "visit" /\ queue = <<>> /\ queue' = <<>>
      /\ source' = "HamCallHci" /\ at' = 0 /\ seen' = {}
      /\ todo' = PostingsOf(db, query, NoYear)
      /\ UNCHANGED <<db, query, report, answer>>
  BY DEF TurnToHci, StartHci
<1>2. Busy /\ Busy' /\ ~Parsing'
  BY <1>1 DEF Busy, Parsing
<1>3. AllFiled' /\ AnswerComplete'
  BY <1>1, <1>2 DEF Complete, AllFiled, AnswerComplete
<1>4. EntriesKept'
  <2>1. \A i \in EntriesOf(db, query) : EntryKept(i)
    BY <1>1, <1>2 DEF Complete, EntriesKept
  <2>. QED
    BY <1>1, <2>1, KeptStays DEF EntriesKept
<1>5. SeenKept'
  BY <1>1 DEF SeenKept
<1>6. PostingsInHand'
  <2>1. Len(db.years) \in Nat
    BY DatabasesAssumption DEF Inv, TypeOK, IsDatabase
  <2>. QED
    BY <1>1, <2>1 DEF PostingsInHand, YearAt
<1>. QED
  BY <1>2, <1>3, <1>4, <1>5, <1>6 DEF Complete, WindowDone, WindowOf

LEMMA ReturnComplete ==
    ASSUME Inv, Complete, Return
    PROVE  Complete'
<1>1. /\ pc = "merge" /\ pc' = "idle" /\ queue = <<>> /\ source = "HamCallHci"
      /\ UNCHANGED <<db, query, report>>
  BY DEF Return
<1>2. Busy /\ ~Busy' /\ ~Parsing'
  BY <1>1 DEF Busy, Parsing
<1>. DEFINE h == report.history
            n == Len(h)
<1>3. n \in Nat /\ DOMAIN h = 1..n /\ Filed(report)
  BY <1>2 DEF Complete, AllFiled, Inv, TypeOK, Report
<1>4. PICK order \in Bijection(1..n, 1..n) :
        answer' = [query |-> query, status |-> Status(report),
                   current |-> report.current,
                   history |-> [i \in 1..n |-> h[order[i]]]]
  BY <1>3 DEF Return
<1>5. /\ order \in [1..n -> 1..n]
      /\ \A i \in 1..n : \E j \in 1..n : order[j] = i
  BY <1>4 DEF Bijection, Surjection
<1>. DEFINE g == [i \in 1..n |-> h[order[i]]]
<1>6. /\ answer'.query = query /\ answer'.current = report.current
      /\ answer'.history = g /\ Len(g) = n
      /\ \A i \in 1..n : g[i] = h[order[i]]
  BY <1>3, <1>4
<1>. HIDE DEF g, h
<1>7. Filed(answer')
  <2>1. \A i \in 1..n : order[i] \in 1..n
    BY <1>5
  <2>2. \A j \in 1..n : h[j].vintage # NoYear
    BY <1>3 DEF Filed, h
  <2>3. \A i \in 1..n : g[i].vintage # NoYear
    BY <1>6, <2>1, <2>2
  <2>4. report.current # NoSnapshot => report.current.vintage = NoYear
    BY <1>3 DEF Filed
  <2>. QED
    BY <1>6, <2>3, <2>4 DEF Filed
<1>8. ASSUME NEW p, InReport(db, report, p)
      PROVE  InReport(db, answer', p)
  <2>1. CASE report.current # NoSnapshot /\ Carries(db, report.current, p)
    BY <1>6, <2>1 DEF InReport
  <2>2. CASE Among(db, h, p)
    <3>1. PICK i \in 1..n : Carries(db, h[i], p)
      BY <2>2 DEF Among
    <3>2. PICK j \in 1..n : order[j] = i
      BY <1>5
    <3>3. Carries(db, g[j], p)
      BY <1>6, <3>1, <3>2
    <3>4. Among(db, g, p)
      BY <1>6, <3>3 DEF Among
    <3>. QED
      BY <1>6, <3>4 DEF InReport
  <2>. QED
    BY <1>8, <2>1, <2>2 DEF InReport, h
<1>9. ASSUME NEW p, Theirs(db, query, p), PostedIn(db, query, p) \/ SlicedIn(db, query, p)
      PROVE  InReport(db, report, p)
  <2>1. Kept(p)
    <3>1. CASE PostedIn(db, query, p)
      <4>1. /\ todo = <<>> /\ at = Len(db.years)
            /\ \A k \in 0..at : \A m \in 1..Len(PostingsOf(db, query, YearAt(db, k))) :
                   LET x == PostingsOf(db, query, YearAt(db, k))[m]
                   IN  x \in seen \/ \E l \in 1..Len(todo) : todo[l] = x
        BY <1>1, <1>2 DEF Complete, PostingsInHand
      <4>2. p \in seen
        BY <3>1, <4>1 DEF PostedIn
      <4>. QED
        BY <1>1, <1>2, <1>9, <4>2 DEF Complete, SeenKept
    <3>2. CASE SlicedIn(db, query, p)
      BY <1>1, <1>2, <1>9, <3>2 DEF Complete, EntriesKept, EntryKept, SlicedIn
    <3>. QED
      BY <1>9, <3>1, <3>2
  <2>2. ~Among(db, queue, p)
    BY <1>1 DEF Among
  <2>. QED
    BY <2>1, <2>2 DEF Kept
<1>10. AnswerComplete'
  BY <1>1, <1>6, <1>8, <1>9 DEF AnswerComplete
<1>. QED
  BY <1>2, <1>7, <1>10 DEF Complete, AllFiled, EntriesKept, SeenKept, PostingsInHand,
                           WindowDone, WindowOf

LEMMA CompleteStep ==
    ASSUME Inv, Complete, KeyCalls, [Next]_vars
    PROVE  Complete'
<1>1. ASSUME NEW c \in Calls, Begin(c)
      PROVE  Complete'
  BY <1>1, IdleComplete
<1>2. CASE Reject
  <2>1. CASE Calls = {}
    <3>1. ~Busy /\ ~Busy' /\ ~Parsing' /\ answer' = Rejection
      BY <1>2 DEF Reject, Busy, Parsing
    <3>2. Filed(Rejection) /\ Rejection.query = <<>>
      BY DEF Filed, Rejection, NoAnswer
    <3>. QED
      BY <3>1, <3>2 DEF Complete, AllFiled, AnswerComplete, WindowDone, WindowOf,
                        PostingsInHand, EntriesKept, SeenKept
  <2>2. CASE Calls # {}
    BY <1>2, <2>2, IdleComplete
  <2>. QED
    BY <2>1, <2>2
<1>3. CASE \E i \in 1..Len(db.idx) : VisitEntry(i) \/ SkipEntry(i)
  BY <1>3, VisitEntryComplete, SkipEntryComplete
<1>4. CASE EntriesDone \/ NextYear \/ VisitPosting \/ SkipPosting \/ PostingsDone
  BY <1>4, EntriesDoneComplete, NextYearComplete, VisitPostingComplete,
     SkipPostingComplete, PostingsDoneComplete
<1>5. CASE ParseSegment \/ Widen \/ ParseDone
  BY <1>5, ParseSegmentComplete, WidenComplete, ParseDoneComplete
<1>6. CASE MergeNext \/ TurnToHci \/ Return
  BY <1>6, MergeNextComplete, TurnToHciComplete, ReturnComplete
<1>7. CASE UNCHANGED vars
  BY <1>7, QuietComplete DEF vars
<1>. QED
  BY <1>1, <1>2, <1>3, <1>4, <1>5, <1>6, <1>7 DEF Next, Step

-----------------------------------------------------------------------------
(* The IDX as it is built: equal keys stand together, in order of offset.    *)

EntriesInOrder(d) ==
    \A i, j \in 1..Len(d.idx) : i < j /\ d.idx[i].key = d.idx[j].key =>
        /\ d.idx[i].offset <= d.idx[j].offset
        /\ \A k \in i..j : d.idx[k].key = d.idx[i].key

\* An entry that the search passes over repeats an earlier one, whose slice
\* begins no later and ends at the same place.
LEMMA RepeatedEntry ==
    ASSUME NEW d, IsDatabase(d), EntriesInOrder(d), NEW q,
           NEW i \in 1..Len(d.idx), d.idx[i].key.call = q
    PROVE  \E j \in EntriesOf(d, q) : /\ d.idx[j].offset <= d.idx[i].offset
                                      /\ SliceEnd(d, j) = SliceEnd(d, i)
<1>. DEFINE same == {j \in 1..Len(d.idx) : d.idx[j].key = d.idx[i].key}
            j == Min(same)
<1>0. Len(d.idx) \in Nat /\ \A k \in 1..Len(d.idx) : d.idx[k].offset \in Nat
  BY DatabaseTypes
<1>1. same \in SUBSET Nat /\ i \in same
  BY <1>0
<1>2. j \in same /\ \A y \in same : j <= y
  BY <1>1, MinOfNat
<1>. HIDE DEF j
<1>3. j \in 1..Len(d.idx) /\ d.idx[j].key = d.idx[i].key /\ j <= i
  BY <1>1, <1>2
<1>4. \A k \in 1..(j - 1) : d.idx[k].key # d.idx[j].key
  <2>. SUFFICES ASSUME NEW k \in 1..(j - 1), d.idx[k].key = d.idx[j].key
                PROVE  FALSE
    OBVIOUS
  <2>1. k \in same /\ k < j
    BY <1>0, <1>3
  <2>. QED
    BY <1>2, <2>1, <1>0, <1>3
<1>5. j \in EntriesOf(d, q)
  BY <1>3, <1>4 DEF EntriesOf
<1>6. CASE j = i
  BY <1>0, <1>5, <1>6
<1>7. CASE j # i
  <2>1. j < i
    BY <1>3, <1>7
  <2>2. /\ d.idx[j].offset <= d.idx[i].offset
        /\ \A k \in j..i : d.idx[k].key = d.idx[j].key
    BY <1>3, <2>1 DEF EntriesInOrder
  <2>3. {k \in (j + 1)..Len(d.idx) : d.idx[k].key # d.idx[j].key}
            = {k \in (i + 1)..Len(d.idx) : d.idx[k].key # d.idx[i].key}
    <3>1. ASSUME NEW k \in (j + 1)..Len(d.idx), d.idx[k].key # d.idx[j].key
          PROVE  k \in (i + 1)..Len(d.idx)
      BY <1>3, <2>2, <3>1
    <3>. QED
      BY <1>3, <2>1, <3>1
  <2>4. SliceEnd(d, j) = SliceEnd(d, i)
    BY <2>3 DEF SliceEnd
  <2>. QED
    BY <1>5, <2>2, <2>4
<1>. QED
  BY <1>6, <1>7

LEMMA CompleteReports ==
    ASSUME Inv, Complete, EntriesInOrder(db)
    PROVE  IndexedRecordsReported
<1>0. IsDatabase(db)
  BY DatabasesAssumption DEF Inv, TypeOK
<1>. DEFINE q == answer.query
<1>. SUFFICES ASSUME NEW p \in Records, q # <<>>,
                     SegmentCall(RecordOf(p), <<>>) = q,
                     PostedAt(q, p) \/ ListedAt(q, p)
              PROVE  LET r == RecordOf(p)
                         same == {s \in SnapshotsOf(answer) : s.vintage = SegmentVintage(r)}
                     IN  /\ same # {}
                         /\ \A s \in same, f \in Fields :
                                SegmentText(r)[f] # NoText => s.text[f] # NoText
  BY DEF IndexedRecordsReported
<1>. DEFINE r == RecordOf(p)
            v == SegmentVintage(r)
<1>1. r = RecordFrom(db, p) /\ Theirs(db, q, p)
  BY DEF RecordOf, RecordFrom, RecordEnd, Records, MarksOf, Theirs
<1>2. PostedIn(db, q, p) \/ SlicedIn(db, q, p)
  <2>1. CASE PostedAt(q, p)
    <3>1. PICK year \in {NoYear} \cup {db.years[k] : k \in 1..Len(db.years)} :
              \E m \in 1..Len(PostingsOf(db, q, year)) : PostingsOf(db, q, year)[m] = p
      BY <2>1 DEF PostedAt
    <3>2. Len(db.years) \in Nat
      BY <1>0 DEF IsDatabase
    <3>3. \E k \in 0..Len(db.years) : YearAt(db, k) = year
      BY <3>1, <3>2 DEF YearAt
    <3>. QED
      BY <3>1, <3>3 DEF PostedIn
  <2>2. CASE ListedAt(q, p)
    <3>1. PICK i \in 1..Len(db.idx) :
              /\ db.idx[i].key.call = q /\ db.idx[i].offset = p
              /\ RecordEnd(db, p) <= SliceEnd(db, i)
      BY <2>2 DEF ListedAt, RecordEnd
    <3>2. PICK j \in EntriesOf(db, q) : /\ db.idx[j].offset <= db.idx[i].offset
                                        /\ SliceEnd(db, j) = SliceEnd(db, i)
      BY <1>0, <3>1, RepeatedEntry
    <3>. QED
      BY <3>1, <3>2 DEF SlicedIn, Whole
  <2>. QED
    BY <2>1, <2>2
<1>3. InReport(db, answer, p)
  BY <1>1, <1>2 DEF Complete, AnswerComplete
<1>4. /\ answer.current # NoSnapshot => answer.current.vintage = NoYear
      /\ \A i \in 1..Len(answer.history) : answer.history[i].vintage # NoYear
  BY DEF Complete, AllFiled, Filed
<1>. HIDE DEF r
<1>5. CASE answer.current # NoSnapshot /\ Carries(db, answer.current, p)
  <2>1. v = NoYear
    BY <1>1, <1>4, <1>5 DEF Carries
  <2>2. {s \in SnapshotsOf(answer) : s.vintage = v} = {answer.current}
    BY <1>4, <1>5, <2>1 DEF SnapshotsOf
  <2>. QED
    BY <1>1, <1>5, <2>2 DEF Carries, r
<1>6. CASE Among(db, answer.history, p)
  <2>1. PICK i \in 1..Len(answer.history) : Carries(db, answer.history[i], p)
    BY <1>6 DEF Among
  <2>2. answer.history[i].vintage = v /\ v # NoYear
    BY <1>1, <1>4, <2>1 DEF Carries
  <2>3. \A j \in 1..Len(answer.history) : answer.history[j].vintage = v => j = i
    <3>1. \A j, k \in 1..Len(answer.history) :
             j < k => answer.history[j].vintage < answer.history[k].vintage
      BY DEF Inv, OneEntryPerVintage
    <3>2. v \in Nat
      BY <1>0, <1>1, RecordVintage DEF Theirs
    <3>3. SUFFICES ASSUME NEW j \in 1..Len(answer.history),
                          answer.history[j].vintage = v, j # i
                   PROVE  FALSE
      OBVIOUS
    <3>4. i < j \/ j < i
      BY <3>3
    <3>. QED
      BY <2>2, <3>1, <3>2, <3>3, <3>4
  <2>4. {s \in SnapshotsOf(answer) : s.vintage = v} = {answer.history[i]}
    BY <1>4, <2>1, <2>2, <2>3 DEF SnapshotsOf
  <2>. QED
    BY <1>1, <2>1, <2>4 DEF Carries, r
<1>. QED
  BY <1>3, <1>5, <1>6 DEF InReport

\* Nothing is left out, for any database whose IDX has equal keys together and in
\* order of offset, and any callsigns that a key can hold (Callsign::parse
\* takes up to 26 characters, looks_like_key 12): each record of the callsign that
\* the IDX or the HCI leads to is in the report, with every field it fills.
THEOREM NothingLeftOut ==
    ASSUME KeyCalls, \A d \in Databases : EntriesInOrder(d)
    PROVE  Spec => []IndexedRecordsReported
<1>1. Init => Complete
  BY DEF Init, Complete, AllFiled, AnswerComplete, EntriesKept, SeenKept, PostingsInHand,
         WindowDone, WindowOf, Busy, Parsing, Filed, NoAnswer
<1>2. Inv /\ Complete /\ [Next]_vars => Complete'
  BY CompleteStep
<1>3. Inv /\ Complete => IndexedRecordsReported
  <2>1. Inv => EntriesInOrder(db)
    BY DEF Inv, TypeOK
  <2>. QED
    BY <2>1, CompleteReports
<1>. QED
  BY <1>1, <1>2, <1>3, Invariance, PTL DEF Spec

-----------------------------------------------------------------------------
(* Nothing is made up.  As long as no record was cut by the end of a window,  *)
(* every snapshot parsed, queued, merged and returned stands for whole records *)
(* of its callsign and vintage, and has its values from them or the catalog.   *)

\* The callsign of the last record up to p that names one.
OwnerIn(d, p) ==
    LET named == {q \in MarksOf(d) : q <= p /\ SegmentCall(RecordFrom(d, q), <<>>) # <<>>}
    IN  IF named = {} THEN <<>> ELSE SegmentCall(RecordFrom(d, Max(named)), <<>>)

StandsFor(d, s, p) ==
    /\ p \in MarksOf(d) /\ OwnerIn(d, p) = s.call
    /\ SegmentVintage(RecordFrom(d, p)) = s.vintage

Says(segment, f, value) ==
    \E i \in 1..Len(segment) : segment[i].kind = f /\ segment[i].text = value

FromCatalog(d, s, f) ==
    s.vintage = NoYear /\ d.csv[s.call] # NoSnapshot /\ d.csv[s.call].text[f] = s.text[f]

Sourced(d, s) ==
    /\ \/ \E p : StandsFor(d, s, p)
       \/ s.vintage = NoYear /\ d.csv[s.call] # NoSnapshot
    /\ \A f \in Fields : s.text[f] # NoText =>
           \/ FromCatalog(d, s, f)
           \/ \E p : StandsFor(d, s, p) /\ Says(RecordFrom(d, p), f, s.text[f])

EachSourced(d, snapshots) == \A i \in 1..Len(snapshots) : Sourced(d, snapshots[i])

ReportSourced(d, r) ==
    /\ r.current # NoSnapshot => Sourced(d, r.current)
    /\ EachSourced(d, r.history)

\* A position that is not inside the key of a record.
OutsideKey(d, p) == p <= Len(d.dat) => d.dat[p].kind \notin {"character", "year"}

\* Indexes as they are built: none points into a key, and a record without a
\* callsign of its own that is in the slice of an entry continues its callsign.
IndexesFit(d) ==
    /\ \A i \in 1..Len(d.idx) : OutsideKey(d, d.idx[i].offset)
    /\ \A k \in DOMAIN d.hci : \A n \in 1..Len(d.hci[k]) : OutsideKey(d, d.hci[k][n])
    /\ \A i \in 1..Len(d.idx), p \in MarksOf(d) :
           /\ d.idx[i].offset <= p /\ p <= SliceEnd(d, i)
           /\ SegmentCall(RecordFrom(d, p), <<>>) = <<>>
           /\ HasYear(RecordFrom(d, p))
           => OwnerIn(d, p) = d.idx[i].key.call

LEMMA NamedOwner ==
    ASSUME NEW d, IsDatabase(d), NEW p \in MarksOf(d),
           SegmentCall(RecordFrom(d, p), <<>>) # <<>>
    PROVE  OwnerIn(d, p) = SegmentCall(RecordFrom(d, p), <<>>)
<1>. DEFINE named == {q \in MarksOf(d) : q <= p /\ SegmentCall(RecordFrom(d, q), <<>>) # <<>>}
<1>1. p \in Nat \ {0} /\ MarksOf(d) \subseteq Nat \ {0}
  BY DatabaseTypes DEF MarksOf
<1>2. p \in named /\ named \in SUBSET (1..p)
  BY <1>1
<1>3. OwnerIn(d, p) = SegmentCall(RecordFrom(d, Max(named)), <<>>)
  BY <1>2 DEF OwnerIn
<1>. HIDE DEF named
<1>4. Max(named) \in 1..p /\ p <= Max(named)
  BY <1>1, <1>2, MaxOfInterval
<1>5. Max(named) = p
  BY <1>1, <1>4
<1>. QED
  BY <1>3, <1>5

LEMMA RecordCells ==
    ASSUME NEW d, IsDatabase(d), NEW p \in MarksOf(d)
    PROVE  RecordFrom(d, p) \in Seq(Cell) /\ Len(RecordFrom(d, p)) \in Nat
<1>1. RecordFrom(d, p) \in Seq(Cell)
  BY RecordBounds, DatabaseTypes DEF RecordFrom
<1>. QED
  BY <1>1

\* What is parsed from a whole record has its source there.
LEMMA ParsedSourced ==
    ASSUME NEW d, IsDatabase(d), NEW p \in MarksOf(d), NEW default, NEW src,
           OwnerIn(d, p) = SegmentCall(RecordFrom(d, p), default)
    PROVE  Sourced(d, Parsed(RecordFrom(d, p), default, src))
<1>. DEFINE r == RecordFrom(d, p)
            s == Parsed(r, default, src)
<1>1. Len(r) \in Nat
  BY RecordCells
<1>2. StandsFor(d, s, p)
  BY DEF StandsFor, Parsed
<1>3. ASSUME NEW f \in Fields, s.text[f] # NoText
      PROVE  Says(r, f, s.text[f])
  <2>. DEFINE filled == {i \in 1..Len(r) : r[i].kind = f /\ r[i].text # NoText}
  <2>1. s.text[f] = IF filled = {} THEN NoText ELSE r[Max(filled)].text
    BY DEF Parsed, SegmentText
  <2>2. filled # {} /\ filled \in SUBSET (1..Len(r))
    BY <1>3, <2>1
  <2>3. Max(filled) \in filled
    <3>. HIDE DEF filled
    <3>. QED
      BY <1>1, <2>2, MaxOfInterval
  <2>. QED
    BY <2>1, <2>2, <2>3 DEF Says
<1>. HIDE DEF s
<1>. QED
  BY <1>2, <1>3 DEF Sourced, s

LEMMA MergeSourced ==
    ASSUME NEW d, NEW self \in Snapshot, NEW other \in Snapshot,
           self.call = other.call, self.vintage = other.vintage,
           Sourced(d, self), Sourced(d, other)
    PROVE  Sourced(d, MergeMissing(self, other))
<1>. DEFINE m == MergeMissing(self, other)
<1>1. m.call = self.call /\ m.vintage = self.vintage
  BY MergeType
<1>2. \A f \in Fields : m.text[f] = self.text[f] \/ m.text[f] = other.text[f]
  BY DEF MergeMissing, Snapshot
<1>. HIDE DEF m
<1>3. \A p : StandsFor(d, self, p) \/ StandsFor(d, other, p) => StandsFor(d, m, p)
  BY <1>1 DEF StandsFor
<1>4. ASSUME NEW f \in Fields, m.text[f] # NoText
      PROVE  FromCatalog(d, m, f)
                \/ \E p : StandsFor(d, m, p) /\ Says(RecordFrom(d, p), f, m.text[f])
  <2>1. CASE m.text[f] = self.text[f]
    BY <1>1, <1>3, <1>4, <2>1 DEF Sourced, FromCatalog
  <2>2. CASE m.text[f] = other.text[f]
    BY <1>1, <1>3, <1>4, <2>2 DEF Sourced, FromCatalog
  <2>. QED
    BY <1>2, <2>1, <2>2
<1>5. (\E p : StandsFor(d, m, p)) \/ (m.vintage = NoYear /\ d.csv[m.call] # NoSnapshot)
  BY <1>1, <1>3 DEF Sourced
<1>. QED
  BY <1>4, <1>5 DEF Sourced, m

LEMMA AbsorbSourced ==
    ASSUME NEW d, NEW q, NEW r, ReportOf(r, q), Filed(r), NEW s \in Snapshot, s.call = q,
           ReportSourced(d, r), Sourced(d, s)
    PROVE  ReportSourced(d, Absorb(r, s))
<1>. DEFINE h == r.history
            n == Len(h)
<1>1. h \in Seq(Snapshot) /\ n \in Nat /\ r.current \in Snapshot \cup {NoSnapshot}
      /\ r = [current |-> r.current, history |-> h]
  BY DEF ReportOf, Report
<1>2. /\ \A i \in 1..n : h[i] \in Snapshot /\ h[i].call = q /\ Sourced(d, h[i])
      /\ r.current # NoSnapshot => /\ r.current.vintage = NoYear /\ r.current.call = q
                                   /\ Sourced(d, r.current)
  BY <1>1, ElementOfSeq DEF ReportOf, SnapshotsOf, Filed, ReportSourced, EachSourced
<1>3. CASE s.vintage = NoYear
  <2>. DEFINE c == IF r.current = NoSnapshot THEN s
                   ELSE MergeMissing(r.current, s)
  <2>1. Absorb(r, s) = [current |-> c, history |-> h]
    BY <1>1, <1>3 DEF Absorb
  <2>2. Sourced(d, c)
    <3>1. CASE r.current = NoSnapshot
      BY <3>1
    <3>2. CASE r.current # NoSnapshot
      BY <1>1, <1>2, <1>3, <3>2, MergeSourced
    <3>. QED
      BY <3>1, <3>2
  <2>. HIDE DEF c, h
  <2>. QED
    BY <1>2, <2>1, <2>2 DEF ReportSourced, EachSourced
<1>4. CASE s.vintage # NoYear /\ SameEdition(r, s) = {}
  <2>. DEFINE g == Append(h, s)
  <2>1. Absorb(r, s) = [current |-> r.current, history |-> g]
    BY <1>1, <1>4 DEF Absorb
  <2>2. /\ Len(g) = n + 1 /\ g[n + 1] = s
        /\ \A i \in 1..n : g[i] = h[i]
    BY <1>1, AppendProperties
  <2>. HIDE DEF g
  <2>3. EachSourced(d, g)
    BY <1>1, <1>2, <2>2 DEF EachSourced
  <2>. QED
    BY <1>2, <2>1, <2>3 DEF ReportSourced
<1>5. CASE s.vintage # NoYear /\ SameEdition(r, s) # {}
  <2>. DEFINE k == Min(SameEdition(r, s))
              m == MergeMissing(h[k], s)
              g == [h EXCEPT ![k] = m]
  <2>1. k \in 1..n /\ h[k].vintage = s.vintage
    <3>1. SameEdition(r, s) \in SUBSET Nat
      BY <1>1 DEF SameEdition
    <3>2. k \in SameEdition(r, s)
      BY <3>1, <1>5, MinOfNat
    <3>. QED
      BY <3>2 DEF SameEdition
  <2>2. Absorb(r, s) = [current |-> r.current, history |-> g]
    BY <1>1, <1>5 DEF Absorb
  <2>3. m \in Snapshot /\ Sourced(d, m)
    BY <2>1, <1>2, MergeType, MergeSourced
  <2>. HIDE DEF k, m
  <2>4. /\ Len(g) = n
        /\ \A i \in 1..n : g[i] = IF i = k THEN m ELSE h[i]
    BY <1>1, <2>1, <2>3, ExceptSeq
  <2>. HIDE DEF g
  <2>5. EachSourced(d, g)
    BY <1>2, <2>3, <2>4 DEF EachSourced
  <2>. QED
    BY <1>2, <2>2, <2>5 DEF ReportSourced
<1>. QED
  BY <1>3, <1>4, <1>5

-----------------------------------------------------------------------------
(* The segment under the cursor.                                             *)

\* A segment that begins with neither a mark nor a part of a key has no call.
LEMMA KeylessSegment ==
    ASSUME NEW segment \in Seq(Cell), segment # <<>>, NEW default,
           segment[1].kind \notin {"mark", "character", "year"}
    PROVE  SegmentCall(segment, default) = <<>>
<1>. DEFINE ends == {i \in 1..(Len(segment) + 1) :
                        i <= Len(segment) => segment[i].kind # "character"}
<1>1. Len(segment) \in Nat \ {0}
  BY EmptySeq
<1>2. KeyStart(segment) = 1
  BY DEF KeyStart, IsMark
<1>3. CallEnd(segment) = Min(ends)
  BY <1>2 DEF CallEnd
<1>4. 1 \in ends /\ ends \in SUBSET Nat /\ \A i \in ends : 1 <= i
  BY <1>1
<1>. HIDE DEF ends
<1>5. Min(ends) \in ends /\ Min(ends) <= 1
  BY <1>4, MinOfNat
<1>6. CallEnd(segment) = 1
  <2>1. Min(ends) \in Nat /\ 1 <= Min(ends)
    BY <1>4, <1>5
  <2>. QED
    BY <1>3, <1>5, <2>1
<1>. QED
  BY <1>2, <1>6 DEF SegmentCall, HasYear

\* A segment that begins at a mark and is not cut is a whole record.
LEMMA WholeSegment ==
    ASSUME IsDatabase(db), cursor \in MarksOf(db), window.last \in Nat,
           cursor <= window.last, window.last <= Len(db.dat), ~CutSegment
    PROVE  Segment = RecordFrom(db, cursor)
<1>. DEFINE mark == NextMark(db, cursor + 1)
            next == NextSegment(window, cursor)
            ends == {mark, window.last + 1}
<1>1. cursor \in Nat \ {0} /\ Len(db.dat) \in Nat
  BY DatabaseTypes DEF MarksOf
<1>2. mark \in Nat /\ mark <= Len(db.dat) + 1 /\ cursor + 1 <= mark
  BY <1>1, NextMarkBounds
<1>. HIDE DEF mark
<1>3. ends \in SUBSET Nat /\ ends # {}
  BY <1>2
<1>4. Min(ends) \in ends /\ \A y \in ends : Min(ends) <= y
  BY <1>3, MinOfNat
<1>5. next = Min(ends)
  BY DEF NextSegment, mark
<1>. HIDE DEF next
<1>6. next = mark
  <2>1. SUFFICES ASSUME next # mark PROVE FALSE
    OBVIOUS
  <2>2. next = window.last + 1 /\ next < mark
    BY <1>2, <1>4, <1>5, <2>1
  <2>3. next \in 1..Len(db.dat) /\ cursor + 1 <= next
    BY <1>1, <1>2, <2>2
  <2>4. IsMark(db.dat[next])
    BY <2>2, <2>3 DEF CutSegment, next
  <2>5. NextMark(db, cursor + 1) <= next
    BY <1>1, <2>3, <2>4, NextMarkReaches DEF MarksOf
  <2>. QED
    BY <1>2, <2>2, <2>3, <2>5 DEF mark
<1>. QED
  BY <1>6 DEF Segment, RecordFrom, RecordEnd, mark, next

LEMMA SegmentCells ==
    ASSUME Inv, ParseSegment
    PROVE  /\ Segment \in Seq(Cell) /\ Segment # <<>>
           /\ Segment[1] = db.dat[cursor]
<1>1. IsDatabase(db) /\ TypeOK /\ pc = "parse"
  BY DatabasesAssumption DEF Inv, TypeOK, ParseSegment
<1>2. /\ cursor \in Nat \ {0} /\ window.last \in Nat
      /\ window.last <= Len(db.dat) /\ cursor <= window.last
  BY <1>1 DEF TypeOK, ParseSegment, ParseEnds
<1>. DEFINE dat == db.dat
            last == NextSegment(window, cursor) - 1
<1>3. NextSegment(window, cursor) \in Nat /\ cursor <= last /\ last <= window.last
  BY <1>1, <1>2, NextSegmentBounds
<1>4. dat \in Seq(Cell) /\ Len(dat) \in Nat
  BY <1>1, DatabaseTypes
<1>5. last \in Int /\ last <= Len(dat)
  BY <1>2, <1>3, <1>4
<1>6. Segment = SubSeq(dat, cursor, last)
  BY DEF Segment
<1>. HIDE DEF dat, last
<1>7. \A j \in cursor..last : dat[j] \in Cell
  BY <1>2, <1>4, <1>5, ElementOfSeq
<1>8. /\ SubSeq(dat, cursor, last) \in Seq(Cell)
      /\ Len(SubSeq(dat, cursor, last)) = last - cursor + 1
      /\ \A i \in 1..(last - cursor + 1) : SubSeq(dat, cursor, last)[i] = dat[cursor + i - 1]
  BY <1>2, <1>3, <1>5, <1>7, SubSeqProperties
<1>9. last - cursor + 1 \in Nat \ {0} /\ cursor + 1 - 1 = cursor
  BY <1>2, <1>3, <1>5
<1>10. Segment \in Seq(Cell) /\ Len(Segment) # 0
  BY <1>6, <1>8, <1>9
<1>11. Segment[1] = dat[cursor]
  <2>1. 1 \in 1..(last - cursor + 1)
    BY <1>9
  <2>. QED
    BY <1>6, <1>8, <1>9, <2>1
<1>. QED
  BY <1>10, <1>11 DEF dat

\* Behind a segment that ends before the window does, there is a mark.
LEMMA MarkAhead ==
    ASSUME IsDatabase(db), cursor \in Nat \ {0}, window.last \in Nat,
           cursor <= window.last, window.last <= Len(db.dat),
           NextSegment(window, cursor) <= window.last
    PROVE  IsMark(db.dat[NextSegment(window, cursor)])
<1>. DEFINE marks == {i \in (cursor + 1)..Len(db.dat) : IsMark(db.dat[i])}
            ends == {NextMark(db, cursor + 1), window.last + 1}
<1>1. Len(db.dat) \in Nat /\ NextMark(db, cursor + 1) \in Nat
  BY DatabaseTypes, NextMarkBounds
<1>2. ends \in SUBSET Nat /\ ends # {}
  BY <1>1
<1>3. Min(ends) \in ends
  BY <1>2, MinOfNat
<1>4. NextSegment(window, cursor) = NextMark(db, cursor + 1)
  BY <1>3 DEF NextSegment
<1>5. marks # {}
  BY <1>1, <1>4 DEF NextMark
<1>6. NextMark(db, cursor + 1) = Min(marks)
  BY <1>5 DEF NextMark
<1>7. Min(marks) \in marks
  <2>1. marks \in SUBSET Nat
    BY <1>1
  <2>. HIDE DEF marks
  <2>. QED
    BY <1>5, <2>1, MinOfNat
<1>. QED
  BY <1>4, <1>6, <1>7

-----------------------------------------------------------------------------
(* The invariant.                                                            *)

\* The window and the postings still to be visited are those that an index
\* gave, and the cursor is where the window or a record begins.
WindowFits ==
    Parsing =>
        /\ window.first <= window.last => OutsideKey(db, window.first)
        /\ cursor = window.first \/ cursor > window.last \/ IsMark(db.dat[cursor])
        /\ source = "HamCallDatIdx" =>
               \E i \in 1..Len(db.idx) :
                   /\ window.first = db.idx[i].offset /\ window.last = SliceEnd(db, i)
                   /\ window.default = db.idx[i].key.call
        /\ source = "HamCallHci" =>
               window.default = <<>> /\ OutsideKey(db, window.posting)

PostingsFit ==
    Busy /\ source = "HamCallHci" => \A n \in 1..Len(todo) : OutsideKey(db, todo[n])

SourcedInv ==
    /\ Busy => Filed(report)
    /\ Busy /\ ~partial => ReportSourced(db, report) /\ EachSourced(db, queue)
    /\ Parsing /\ ~partial => EachSourced(db, found)
    /\ ~Busy /\ ~partial => ReportSourced(db, answer)
    /\ WindowFits /\ PostingsFit

-----------------------------------------------------------------------------
(* The steps.                                                                *)

LEMMA PostingsOutsideKeys ==
    ASSUME NEW d, IsDatabase(d), IndexesFit(d), NEW q, NEW year,
           NEW n \in 1..Len(PostingsOf(d, q, year))
    PROVE  OutsideKey(d, PostingsOf(d, q, year)[n])
<1>. DEFINE Under(c) == PostingsUnder(d, [call |-> c, year |-> year])
<1>1. \A key : \A m \in 1..Len(PostingsUnder(d, key)) : OutsideKey(d, PostingsUnder(d, key)[m])
  BY DEF PostingsUnder, IndexesFit
<1>2. \A key : PostingsUnder(d, key) \in Seq(Nat \ {0})
  BY DEF PostingsUnder, IsDatabase
<1>3. \A c : Under(c) \in Seq(Nat \ {0})
             /\ \A m \in 1..Len(Under(c)) : OutsideKey(d, Under(c)[m])
  BY <1>1, <1>2
<1>4. PostingsOf(d, q, year) = IF Suffix(q) = q THEN Under(q)
                               ELSE Under(q) \o Under(Suffix(q))
  BY DEF PostingsOf
<1>. HIDE DEF Under
<1>5. CASE Suffix(q) = q
  BY <1>3, <1>4, <1>5
<1>6. CASE Suffix(q) # q
  <2>. DEFINE a == Under(q)
              b == Under(Suffix(q))
  <2>1. /\ a \in Seq(Nat \ {0}) /\ b \in Seq(Nat \ {0})
        /\ \A m \in 1..Len(a) : OutsideKey(d, a[m])
        /\ \A m \in 1..Len(b) : OutsideKey(d, b[m])
    BY <1>3
  <2>2. PostingsOf(d, q, year) = a \o b
    BY <1>4, <1>6
  <2>. HIDE DEF a, b
  <2>3. /\ Len(a) \in Nat /\ Len(b) \in Nat /\ Len(a \o b) = Len(a) + Len(b)
        /\ \A m \in 1..Len(a \o b) :
              (a \o b)[m] = IF m <= Len(a) THEN a[m] ELSE b[m - Len(a)]
    BY <2>1, ConcatProperties, LenProperties
  <2>4. ASSUME NEW m \in 1..Len(a \o b)
        PROVE  OutsideKey(d, (a \o b)[m])
    <3>1. CASE m <= Len(a)
      <4>1. m \in 1..Len(a) /\ (a \o b)[m] = a[m]
        BY <2>3, <3>1
      <4> QED BY <2>1, <4>1
    <3>2. CASE m > Len(a)
      <4>1. m - Len(a) \in 1..Len(b) /\ (a \o b)[m] = b[m - Len(a)]
        BY <2>3, <3>2
      <4> QED BY <2>1, <4>1
    <3> QED BY <2>3, <3>1, <3>2
  <2>. QED
    BY <2>2, <2>4
<1>. QED
  BY <1>5, <1>6

\* A record behind a posting starts outside its key.
LEMMA RecordAtOutsideKey ==
    ASSUME NEW d, IsDatabase(d), NEW offset \in Nat \ {0},
           RecordAt(d, offset)[1] <= RecordAt(d, offset)[2]
    PROVE  OutsideKey(d, RecordAt(d, offset)[1])
<1>. DEFINE starts == {i \in 1..offset : i <= Len(d.dat) /\ IsMark(d.dat[i])}
<1>1. ~(offset > Len(d.dat) \/ starts = {})
  BY DEF RecordAt
<1>2. RecordAt(d, offset)[1] = Max(starts)
  BY <1>1 DEF RecordAt
<1>3. Max(starts) \in starts
  <2>1. starts \in SUBSET (1..offset)
    OBVIOUS
  <2>. HIDE DEF starts
  <2>. QED
    BY <1>1, <2>1, MaxOfInterval
<1>. QED
  BY <1>2, <1>3 DEF OutsideKey, IsMark

\* Steps that leave what is parsed, merged and answered alone.
LEMMA QuietSourced ==
    ASSUME SourcedInv, UNCHANGED <<db, query, report, queue, answer, partial, source, todo>>,
           Busy' = Busy, Parsing' => Parsing /\ UNCHANGED <<window, cursor, found>>
    PROVE  SourcedInv'
BY DEF SourcedInv, WindowFits, PostingsFit

LEMMA BeginSourced ==
    ASSUME Inv, SourcedInv, NEW c \in Calls, Begin(c)
    PROVE  SourcedInv'
<1>1. /\ report' = [current |-> db.csv[c], history |-> <<>>] /\ queue' = <<>>
      /\ source' = "HamCallDatIdx" /\ UNCHANGED db
      /\ Busy' /\ ~Parsing'
  BY DEF Begin, Busy, Parsing
<1>2. IsDatabase(db)
  BY DatabasesAssumption DEF Inv, TypeOK
<1>3. db.csv[c] # NoSnapshot => db.csv[c].call = c /\ db.csv[c].vintage = NoYear
  BY <1>2 DEF IsDatabase
<1>4. db.csv[c] # NoSnapshot => Sourced(db, db.csv[c])
  BY <1>3 DEF Sourced, FromCatalog
<1>5. Filed(report') /\ ReportSourced(db, report') /\ EachSourced(db, queue')
  BY <1>1, <1>3, <1>4 DEF Filed, ReportSourced, EachSourced
<1>. QED
  BY <1>1, <1>5 DEF SourcedInv, WindowFits, PostingsFit

LEMMA VisitEntrySourced ==
    ASSUME Inv, SourcedInv, IndexesFit(db), NEW i \in 1..Len(db.idx), VisitEntry(i)
    PROVE  SourcedInv'
<1>1. /\ pc = "visit" /\ pc' = "parse" /\ source = "HamCallDatIdx" /\ found' = <<>>
      /\ cursor' = db.idx[i].offset
      /\ window'.first = db.idx[i].offset /\ window'.last = SliceEnd(db, i)
      /\ window'.default = db.idx[i].key.call
      /\ UNCHANGED <<db, query, report, source, todo, queue, answer, partial>>
  BY DEF VisitEntry, NextEntry, StartParse, Window
<1>2. Busy /\ Busy' /\ Parsing'
  BY <1>1 DEF Busy, Parsing
<1>3. WindowFits'
  BY <1>1 DEF WindowFits, IndexesFit
<1>4. PostingsFit' /\ EachSourced(db, found')
  BY <1>1 DEF PostingsFit, EachSourced
<1>. QED
  BY <1>1, <1>2, <1>3, <1>4 DEF SourcedInv

LEMMA NextYearSourced ==
    ASSUME Inv, SourcedInv, IndexesFit(db), NextYear
    PROVE  SourcedInv'
<1>1. /\ pc = "visit" /\ todo' = PostingsOf(db, query, db.years[at'])
      /\ UNCHANGED <<db, pc, query, report, source, queue, window, cursor, found,
                     answer, partial>>
  BY DEF NextYear
<1>2. Busy' = Busy /\ ~Parsing'
  BY <1>1 DEF Busy, Parsing
<1>3. IsDatabase(db)
  BY DatabasesAssumption DEF Inv, TypeOK
<1>4. \A n \in 1..Len(todo') : OutsideKey(db, todo'[n])
  BY <1>1, <1>3, PostingsOutsideKeys
<1>. QED
  BY <1>1, <1>2, <1>4 DEF SourcedInv, WindowFits, PostingsFit

LEMMA VisitPostingSourced ==
    ASSUME Inv, SourcedInv, VisitPosting
    PROVE  SourcedInv'
<1>. DEFINE p == Head(todo)
            r == RecordAt(db, p)
<1>1. /\ pc = "visit" /\ pc' = "parse" /\ source = "HamCallHci" /\ found' = <<>>
      /\ todo # <<>> /\ todo' = Tail(todo) /\ cursor' = r[1]
      /\ window'.first = r[1] /\ window'.last = r[2]
      /\ window'.default = <<>> /\ window'.posting = p
      /\ UNCHANGED <<db, query, report, source, queue, answer, partial>>
  BY DEF VisitPosting, StartParse, Window, NoDefault
<1>2. Busy /\ Busy' /\ Parsing'
  BY <1>1 DEF Busy, Parsing
<1>3. IsDatabase(db) /\ todo \in Seq(Nat \ {0})
  BY DatabasesAssumption DEF Inv, TypeOK
<1>4. /\ p \in Nat \ {0} /\ p = todo[1] /\ Len(todo) \in Nat \ {0}
      /\ Len(todo') = Len(todo) - 1
      /\ \A n \in 1..Len(todo') : todo'[n] = todo[n + 1]
  BY <1>1, <1>3, HeadTailProperties, EmptySeq
<1>5. \A n \in 1..Len(todo) : OutsideKey(db, todo[n])
  BY <1>1, <1>2 DEF SourcedInv, PostingsFit
<1>6. OutsideKey(db, p) /\ \A n \in 1..Len(todo') : OutsideKey(db, todo'[n])
  BY <1>4, <1>5
<1>7. WithinFile(db, r[1], r[2]) /\ (r[1] <= r[2] => OutsideKey(db, r[1]))
  BY <1>3, <1>4, RecordAtBounds, RecordAtOutsideKey
<1>. HIDE DEF p, r
<1>8. WindowFits' /\ PostingsFit' /\ EachSourced(db, found')
  BY <1>1, <1>6, <1>7 DEF WindowFits, PostingsFit, EachSourced
<1>. QED
  BY <1>1, <1>2, <1>8 DEF SourcedInv

LEMMA SkipPostingSourced ==
    ASSUME Inv, SourcedInv, SkipPosting
    PROVE  SourcedInv'
<1>1. /\ pc = "visit" /\ source = "HamCallHci" /\ todo # <<>> /\ todo' = Tail(todo)
      /\ UNCHANGED <<db, pc, query, report, source, queue, window, cursor, found,
                     answer, partial>>
  BY DEF SkipPosting
<1>2. Busy /\ Busy' = Busy /\ ~Parsing'
  BY <1>1 DEF Busy, Parsing
<1>3. todo \in Seq(Nat \ {0})
  BY DEF Inv, TypeOK
<1>4. /\ Len(todo) \in Nat \ {0} /\ Len(todo') = Len(todo) - 1
      /\ \A n \in 1..Len(todo') : todo'[n] = todo[n + 1]
  BY <1>1, <1>3, HeadTailProperties, EmptySeq
<1>5. \A n \in 1..Len(todo) : OutsideKey(db, todo[n])
  BY <1>1, <1>2 DEF SourcedInv, PostingsFit
<1>6. \A n \in 1..Len(todo') : OutsideKey(db, todo'[n])
  BY <1>4, <1>5
<1>. QED
  BY <1>1, <1>2, <1>6 DEF SourcedInv, WindowFits, PostingsFit

\* A matching segment that is not cut is a whole record, and so has its source.
LEMMA SegmentSourced ==
    ASSUME Inv, SourcedInv, IndexesFit(db), ParseSegment,
           SegmentMatches(Segment, window.default, query), ~CutSegment
    PROVE  Sourced(db, Parsed(Segment, window.default, source))
<1>1. IsDatabase(db) /\ Parsing /\ TypeOK
  BY DatabasesAssumption DEF Inv, TypeOK, ParseSegment, Parsing
<1>2. /\ cursor \in Nat \ {0} /\ window.last \in Nat /\ window.first \in Nat
      /\ window.last <= Len(db.dat) /\ window.first <= cursor
      /\ cursor <= window.last /\ Len(db.dat) \in Nat
  BY <1>1, DatabaseTypes DEF TypeOK, ParseSegment, ParseEnds, Parsing
<1>3. SegmentCall(Segment, window.default) = query /\ query # <<>>
  BY DEF SegmentMatches, LooksLikeKey
<1>4. cursor \in MarksOf(db)
  <2>1. SUFFICES ASSUME ~IsMark(db.dat[cursor]) PROVE FALSE
    BY <1>2 DEF MarksOf
  <2>2. cursor = window.first /\ OutsideKey(db, cursor)
    BY <1>1, <1>2, <2>1 DEF SourcedInv, WindowFits
  <2>3. /\ Segment \in Seq(Cell) /\ Segment # <<>>
        /\ Segment[1] = db.dat[cursor]
    BY SegmentCells
  <2>4. Segment[1].kind \notin {"mark", "character", "year"}
    BY <1>2, <2>1, <2>2, <2>3 DEF OutsideKey, IsMark
  <2>5. SegmentCall(Segment, window.default) = <<>>
    BY <2>3, <2>4, KeylessSegment
  <2>. QED
    BY <1>3, <2>5
<1>5. Segment = RecordFrom(db, cursor)
  BY <1>1, <1>2, <1>4, WholeSegment
<1>6. OwnerIn(db, cursor) = query
  <2>1. CASE SegmentCall(Segment, <<>>) # <<>>
    <3>1. OwnerIn(db, cursor) = SegmentCall(Segment, <<>>)
      BY <1>1, <1>4, <1>5, <2>1, NamedOwner
    <3>2. SegmentCall(Segment, <<>>) = SegmentCall(Segment, window.default)
      BY <2>1 DEF SegmentCall
    <3>. QED
      BY <1>3, <3>1, <3>2
  <2>2. CASE SegmentCall(Segment, <<>>) = <<>>
    <3>1. window.default # <<>>
      BY <1>3, <2>2
    <3>2. source = "HamCallDatIdx"
      BY <1>1, <3>1 DEF SourcedInv, WindowFits, TypeOK
    <3>3. PICK i \in 1..Len(db.idx) :
              /\ window.first = db.idx[i].offset /\ window.last = SliceEnd(db, i)
              /\ window.default = db.idx[i].key.call
      BY <1>1, <3>2 DEF SourcedInv, WindowFits
    <3>4. HasYear(Segment) /\ SegmentCall(Segment, window.default) = window.default
      <4>1. SegmentCall(Segment, <<>>) # SegmentCall(Segment, window.default)
        BY <1>3, <2>2
      <4>. QED
        BY <4>1 DEF SegmentCall
    <3>5. OwnerIn(db, cursor) = db.idx[i].key.call
      BY <1>2, <1>4, <1>5, <2>2, <3>3, <3>4 DEF IndexesFit
    <3>. QED
      BY <1>3, <3>3, <3>4, <3>5
  <2>. QED
    BY <2>1, <2>2
<1>. QED
  BY <1>1, <1>3, <1>4, <1>5, <1>6, ParsedSourced

LEMMA EachSourcedAppend ==
    ASSUME NEW d, NEW q \in Seq(Snapshot), EachSourced(d, q), NEW s, Sourced(d, s)
    PROVE  EachSourced(d, Append(q, s))
<1>1. /\ Len(Append(q, s)) = Len(q) + 1 /\ Len(q) \in Nat
      /\ \A i \in 1..Len(q) : Append(q, s)[i] = q[i]
      /\ Append(q, s)[Len(q) + 1] = s
  OBVIOUS
<1>. QED
  BY <1>1 DEF EachSourced

LEMMA ParseSegmentSourced ==
    ASSUME Inv, SourcedInv, IndexesFit(db), ParseSegment
    PROVE  SourcedInv'
<1>1. /\ pc = "parse" /\ cursor' = NextSegment(window, cursor)
      /\ UNCHANGED <<db, pc, query, report, source, todo, queue, window, answer>>
  BY DEF ParseSegment
<1>2. Busy /\ Busy' /\ Parsing /\ Parsing' /\ TypeOK /\ IsDatabase(db)
  BY <1>1, DatabasesAssumption DEF Busy, Parsing, Inv, TypeOK
<1>3. found \in Seq(Snapshot)
  BY <1>2 DEF TypeOK
<1>4. ~partial' => ~partial /\ EachSourced(db, found')
  <2>1. CASE SegmentMatches(Segment, window.default, query)
    <3>1. /\ found' = Append(found, Parsed(Segment, window.default, source))
          /\ partial' = (partial \/ CutSegment)
      BY <2>1 DEF ParseSegment
    <3>2. SUFFICES ASSUME ~partial, ~CutSegment
                   PROVE  EachSourced(db, found')
      BY <3>1
    <3>3. Sourced(db, Parsed(Segment, window.default, source))
      BY <2>1, <3>2, SegmentSourced
    <3>4. EachSourced(db, found)
      BY <1>2, <3>2 DEF SourcedInv
    <3>. QED
      BY <1>3, <3>1, <3>3, <3>4, EachSourcedAppend
  <2>2. CASE ~SegmentMatches(Segment, window.default, query)
    BY <1>2, <2>2 DEF ParseSegment, SourcedInv
  <2>. QED
    BY <2>1, <2>2
<1>5. cursor' > window.last \/ IsMark(db.dat[cursor'])
  <2>1. /\ cursor \in Nat \ {0} /\ window.last \in Nat
        /\ window.last <= Len(db.dat) /\ cursor <= window.last
    BY <1>2 DEF TypeOK, ParseSegment, ParseEnds
  <2>2. cursor' \in Nat
    BY <1>1, <1>2, <2>1, NextSegmentBounds
  <2>3. cursor' <= window.last => IsMark(db.dat[cursor'])
    BY <1>1, <1>2, <2>1, MarkAhead
  <2>. QED
    BY <2>1, <2>2, <2>3
<1>6. WindowFits' /\ PostingsFit'
  <2>1. WindowFits /\ PostingsFit
    BY DEF SourcedInv
  <2>2. PostingsFit'
    BY <1>1, <1>2, <2>1 DEF PostingsFit
  <2>3. WindowFits'
    BY <1>1, <1>2, <1>5, <2>1 DEF WindowFits
  <2>. QED
    BY <2>2, <2>3
<1>. QED
  BY <1>1, <1>2, <1>4, <1>6 DEF SourcedInv

LEMMA WidenSourced ==
    ASSUME Inv, SourcedInv, Widen
    PROVE  SourcedInv'
<1>. DEFINE p == PositionsFrom(db, window.posting, WindowLengths[window.attempt + 1])
<1>1. /\ pc = "parse" /\ pc' = "parse" /\ source = "HamCallHci" /\ found' = <<>>
      /\ cursor' = p[1] /\ window'.first = p[1] /\ window'.last = p[2]
      /\ window'.default = <<>> /\ window'.posting = window.posting
      /\ UNCHANGED <<db, query, report, source, todo, queue, answer, partial>>
  BY DEF Widen, StartParse, Window, NoDefault
<1>2. Busy /\ Busy' /\ Parsing /\ Parsing'
  BY <1>1 DEF Busy, Parsing
<1>3. OutsideKey(db, window.posting)
  BY <1>1, <1>2 DEF SourcedInv, WindowFits
<1>4. p[1] <= p[2] => OutsideKey(db, p[1])
  <2>1. CASE window.posting > Len(db.dat)
    <3>1. p = <<1, 0>>
      BY <2>1 DEF PositionsFrom
    <3>. QED
      BY <3>1
  <2>2. CASE ~(window.posting > Len(db.dat))
    BY <1>3, <2>2 DEF PositionsFrom
  <2>. QED
    BY <2>1, <2>2
<1>. HIDE DEF p
<1>5. WindowFits' /\ EachSourced(db, found')
  BY <1>1, <1>3, <1>4 DEF WindowFits, EachSourced
<1>6. PostingsFit'
  BY <1>1, <1>2 DEF SourcedInv, PostingsFit
<1>. QED
  BY <1>1, <1>2, <1>5, <1>6 DEF SourcedInv

LEMMA ParseDoneSourced ==
    ASSUME Inv, SourcedInv, ParseDone
    PROVE  SourcedInv'
<1>1. /\ pc = "parse" /\ pc' = "visit" /\ queue' = queue \o found
      /\ UNCHANGED <<db, query, report, source, todo, answer, partial>>
  BY DEF ParseDone
<1>2. Busy /\ Busy' /\ Parsing /\ ~Parsing'
  BY <1>1 DEF Busy, Parsing
<1>3. queue \in Seq(Snapshot) /\ found \in Seq(Snapshot)
  BY DEF Inv, TypeOK
<1>4. EachSourced(db, queue) /\ EachSourced(db, found) => EachSourced(db, queue \o found)
  BY <1>3, ConcatProperties DEF EachSourced
<1>. QED
  BY <1>1, <1>2, <1>4 DEF SourcedInv, WindowFits, PostingsFit

LEMMA MergeNextSourced ==
    ASSUME Inv, SourcedInv, MergeNext
    PROVE  SourcedInv'
<1>1. /\ pc = "merge" /\ queue # <<>> /\ report' = Absorb(report, Head(queue))
      /\ queue' = Tail(queue)
      /\ UNCHANGED <<db, pc, query, source, todo, answer, partial>>
  BY DEF MergeNext
<1>2. Busy /\ Busy' /\ ~Parsing'
  BY <1>1 DEF Busy, Parsing
<1>3. queue \in Seq(Snapshot) /\ Head(queue) \in Snapshot /\ Head(queue).call = query
  BY <1>1, <1>2, HeadTailProperties DEF Inv, TypeOK, OwnCallOnly
<1>4. /\ Head(queue) = queue[1] /\ Len(queue) \in Nat \ {0}
      /\ Len(queue') = Len(queue) - 1
      /\ \A n \in 1..Len(queue') : queue'[n] = queue[n + 1]
  BY <1>1, <1>3, HeadTailProperties, EmptySeq
<1>5. ReportOf(report, query) /\ Filed(report)
  BY <1>2, BusyReport DEF SourcedInv
<1>6. Filed(report')
  BY <1>1, <1>3, <1>5, AbsorbCarries
<1>7. ~partial => ReportSourced(db, report') /\ EachSourced(db, queue')
  <2>1. SUFFICES ASSUME ~partial
                 PROVE  ReportSourced(db, report') /\ EachSourced(db, queue')
    OBVIOUS
  <2>2. ReportSourced(db, report) /\ \A n \in 1..Len(queue) : Sourced(db, queue[n])
    BY <1>2, <2>1 DEF SourcedInv, EachSourced
  <2>3. Sourced(db, Head(queue))
    BY <1>4, <2>2
  <2>4. ReportSourced(db, report')
    BY <1>1, <1>3, <1>5, <2>2, <2>3, AbsorbSourced
  <2>5. \A n \in 1..Len(queue') : Sourced(db, queue'[n])
    BY <1>4, <2>2
  <2>. QED
    BY <2>4, <2>5 DEF EachSourced
<1>. QED
  BY <1>1, <1>2, <1>6, <1>7 DEF SourcedInv, WindowFits, PostingsFit

LEMMA TurnToHciSourced ==
    ASSUME Inv, SourcedInv, IndexesFit(db), TurnToHci
    PROVE  SourcedInv'
<1>1. /\ pc = "merge" /\ pc' = "visit" /\ queue' = <<>>
      /\ todo' = PostingsOf(db, query, NoYear)
      /\ UNCHANGED <<db, query, report, answer, partial>>
  BY DEF TurnToHci, StartHci
<1>2. Busy /\ Busy' /\ ~Parsing'
  BY <1>1 DEF Busy, Parsing
<1>3. IsDatabase(db)
  BY DatabasesAssumption DEF Inv, TypeOK
<1>4. (\A n \in 1..Len(todo') : OutsideKey(db, todo'[n])) /\ EachSourced(db, queue')
  BY <1>1, <1>3, PostingsOutsideKeys DEF EachSourced
<1>. QED
  BY <1>1, <1>2, <1>4 DEF SourcedInv, WindowFits, PostingsFit

LEMMA ReturnSourced ==
    ASSUME Inv, SourcedInv, Return
    PROVE  SourcedInv'
<1>1. /\ pc = "merge" /\ pc' = "idle" /\ UNCHANGED <<db, query, report, partial>>
  BY DEF Return
<1>2. Busy /\ ~Busy' /\ ~Parsing'
  BY <1>1 DEF Busy, Parsing
<1>. DEFINE h == report.history
            n == Len(h)
<1>3. n \in Nat /\ DOMAIN h = 1..n
  BY <1>2 DEF Inv, TypeOK, Report
<1>4. PICK order \in Bijection(1..n, 1..n) :
        answer' = [query |-> query, status |-> Status(report),
                   current |-> report.current,
                   history |-> [i \in 1..n |-> h[order[i]]]]
  BY <1>3 DEF Return
<1>5. order \in [1..n -> 1..n]
  BY <1>4 DEF Bijection, Injection
<1>. DEFINE g == [i \in 1..n |-> h[order[i]]]
<1>6. /\ answer'.current = report.current /\ answer'.history = g /\ Len(g) = n
      /\ \A i \in 1..n : order[i] \in 1..n /\ g[i] = h[order[i]]
  <2>1. answer'.current = report.current /\ answer'.history = g
    BY <1>4
  <2>2. Len(g) = n
    BY <1>3
  <2>3. \A i \in 1..n : order[i] \in 1..n
    BY <1>5
  <2>. QED
    BY <2>1, <2>2, <2>3
<1>. HIDE DEF g
<1>7. ReportSourced(db, report) => ReportSourced(db, answer')
  <2>1. (\A i \in 1..n : Sourced(db, h[i])) => \A i \in 1..n : Sourced(db, g[i])
    BY <1>6
  <2>2. EachSourced(db, h) => EachSourced(db, answer'.history)
    BY <1>6, <2>1 DEF EachSourced
  <2>. QED
    BY <1>6, <2>2 DEF ReportSourced
<1>. QED
  BY <1>1, <1>2, <1>7 DEF SourcedInv, WindowFits, PostingsFit

LEMMA SourcedStep ==
    ASSUME Inv, SourcedInv, IndexesFit(db), [Next]_vars
    PROVE  SourcedInv'
<1>1. CASE Reject
  <2>1. ~Busy' /\ ~Parsing' /\ ReportSourced(db, Rejection) /\ answer' = Rejection
        /\ UNCHANGED <<db, partial>>
    BY <1>1 DEF Reject, Busy, Parsing, ReportSourced, EachSourced, Rejection, NoAnswer
  <2>. QED
    BY <2>1 DEF SourcedInv, WindowFits, PostingsFit
<1>2. ASSUME NEW c \in Calls, Begin(c)
      PROVE  SourcedInv'
  BY <1>2, BeginSourced
<1>3. ASSUME NEW i \in 1..Len(db.idx), VisitEntry(i)
      PROVE  SourcedInv'
  BY <1>3, VisitEntrySourced
<1>4. CASE \/ \E i \in 1..Len(db.idx) : SkipEntry(i)
           \/ EntriesDone \/ PostingsDone \/ UNCHANGED vars
  <2>1. /\ UNCHANGED <<db, query, report, queue, answer, partial, source, todo>>
        /\ Busy' = Busy
        /\ Parsing' => Parsing /\ UNCHANGED <<window, cursor, found>>
    BY <1>4 DEF SkipEntry, NextEntry, EntriesDone, PostingsDone, vars, Busy, Parsing
  <2>. QED
    BY <2>1, QuietSourced
<1>5. CASE NextYear \/ VisitPosting \/ SkipPosting
  BY <1>5, NextYearSourced, VisitPostingSourced, SkipPostingSourced
<1>6. CASE ParseSegment \/ Widen \/ ParseDone
  BY <1>6, ParseSegmentSourced, WidenSourced, ParseDoneSourced
<1>7. CASE MergeNext \/ TurnToHci \/ Return
  BY <1>7, MergeNextSourced, TurnToHciSourced, ReturnSourced
<1>. QED
  BY <1>1, <1>2, <1>3, <1>4, <1>5, <1>6, <1>7 DEF Next, Step

\* For any database whose indexes do not point into a key and whose records
\* without a callsign of their own follow one of the callsign that the IDX has
\* for them: unless a record was cut by the end of a window, a report has no
\* snapshot and no value that is not in a record of its callsign and vintage
\* or in the US catalog.
THEOREM NothingMadeUp ==
    ASSUME \A d \in Databases : IndexesFit(d)
    PROVE  Spec => []BackedUnlessCut
<1>1. Init => SourcedInv
  BY DEF Init, SourcedInv, WindowFits, PostingsFit, Busy, Parsing, ReportSourced,
         EachSourced, NoAnswer
<1>2. Inv /\ SourcedInv /\ [Next]_vars => SourcedInv'
  <2>1. Inv => IndexesFit(db)
    BY DEF Inv, TypeOK
  <2>. QED
    BY <2>1, SourcedStep
<1>3. SourcedInv => BackedUnlessCut
  <2>1. SUFFICES ASSUME ReportSourced(db, answer)
                 PROVE  Backed
    BY DEF SourcedInv, BackedUnlessCut
  <2>2. \A s \in SnapshotsOf(answer) : Sourced(db, s)
    BY <2>1 DEF SnapshotsOf, ReportSourced, EachSourced
  <2>3. /\ \A p : RecordOf(p) = RecordFrom(db, p)
        /\ Records = MarksOf(db)
    BY DEF RecordOf, RecordFrom, RecordEnd, Records, MarksOf
  <2>4. \A p : Owner(p) = OwnerIn(db, p)
    BY <2>3 DEF Owner, OwnerIn
  <2>5. \A s, p : StandsFor(db, s, p) => p \in RecordsOf(s.call, s.vintage)
    BY <2>3, <2>4 DEF StandsFor, RecordsOf
  <2>6. ASSUME NEW s, Sourced(db, s)
        PROVE  /\ \/ RecordsOf(s.call, s.vintage) # {}
                  \/ s.vintage = NoYear /\ db.csv[s.call] # NoSnapshot
               /\ \A f \in Fields : s.text[f] # NoText =>
                     \/ InCatalog(s, f)
                     \/ \E p \in RecordsOf(s.call, s.vintage) :
                            \E i \in 1..Len(RecordOf(p)) :
                                /\ RecordOf(p)[i].kind = f
                                /\ RecordOf(p)[i].text = s.text[f]
    <3>1. RecordsOf(s.call, s.vintage) # {}
             \/ (s.vintage = NoYear /\ db.csv[s.call] # NoSnapshot)
      BY <2>5, <2>6 DEF Sourced
    <3>2. ASSUME NEW f \in Fields, s.text[f] # NoText, ~InCatalog(s, f)
          PROVE  \E p \in RecordsOf(s.call, s.vintage) :
                     \E i \in 1..Len(RecordOf(p)) :
                         /\ RecordOf(p)[i].kind = f
                         /\ RecordOf(p)[i].text = s.text[f]
      <4>1. PICK p : StandsFor(db, s, p) /\ Says(RecordFrom(db, p), f, s.text[f])
        BY <2>6, <3>2 DEF Sourced, FromCatalog, InCatalog
      <4>. QED
        BY <2>3, <2>5, <4>1 DEF Says
    <3>. QED
      BY <3>1, <3>2
  <2>. QED
    BY <2>2, <2>6 DEF Backed
<1>. QED
  BY <1>1, <1>2, <1>3, Invariance, PTL DEF Spec

-----------------------------------------------------------------------------
(* Joining and merging.                                                      *)

\* The first k parts joined are the first k - 1 and then part k.  (There is no
\* least number of parts for which no function joins them.)
LEMMA JoiningIs ==
    ASSUME NEW parts, NEW n \in Nat
    PROVE  \A k \in 0..n : Joining(parts, n)[k] =
               IF k = 0 THEN <<>> ELSE Joining(parts, n)[k - 1] \o parts[k]
<1>. DEFINE Upto(g, m) == g = [k \in 0..m |-> IF k = 0 THEN <<>> ELSE g[k - 1] \o parts[k]]
            bad == {m \in Nat : \A g : ~Upto(g, m)}
<1>1. bad = {}
  <2>1. SUFFICES ASSUME bad # {} PROVE FALSE
    OBVIOUS
  <2>2. bad \in SUBSET Nat
    OBVIOUS
  <2>3. PICK m \in bad : \A l \in bad : m <= l
    <3>. HIDE DEF bad
    <3>. QED
      BY <2>1, <2>2, LeastNatural
  <2>4. m \in Nat /\ \A g : ~Upto(g, m)
    BY <2>3
  <2>5. m # 0
    <3>. DEFINE g == [k \in 0..0 |-> <<>>]
    <3>1. g = [k \in 0..0 |-> IF k = 0 THEN <<>> ELSE g[k - 1] \o parts[k]]
      <4>1. \A k \in 0..0 : k = 0
        OBVIOUS
      <4>. QED
        BY <4>1
    <3>. QED
      BY <2>4, <3>1
  <2>6. m - 1 \in Nat /\ ~(m <= m - 1)
    BY <2>4, <2>5
  <2>7. PICK g : Upto(g, m - 1)
    <3>1. m - 1 \notin bad
      <4>. HIDE DEF bad
      <4>. QED
        BY <2>3, <2>6
    <3>. HIDE DEF Upto
    <3>. QED
      BY <2>6, <3>1
  <2>. DEFINE h == [k \in 0..m |-> IF k = m THEN g[m - 1] \o parts[m] ELSE g[k]]
  <2>8. ASSUME NEW k \in 0..m
        PROVE  h[k] = IF k = 0 THEN <<>> ELSE h[k - 1] \o parts[k]
    <3>1. CASE k = m
      <4>1. m - 1 \in 0..m /\ m - 1 # m
        BY <2>4, <2>5
      <4>. QED
        BY <2>4, <2>5, <3>1, <4>1
    <3>2. CASE k # m
      <4>1. k \in 0..(m - 1) /\ (k # 0 => k - 1 \in 0..m /\ k - 1 # m)
        BY <2>4, <3>2
      <4>2. g[k] = IF k = 0 THEN <<>> ELSE g[k - 1] \o parts[k]
        BY <2>7, <4>1
      <4>. QED
        BY <3>2, <4>1, <4>2
    <3>. QED
      BY <3>1, <3>2
  <2>9. Upto(h, m)
    <3>1. h = [k \in 0..m |-> h[k]]
      OBVIOUS
    <3>. HIDE DEF h
    <3>. QED
      BY <2>8, <3>1
  <2>. QED
    BY <2>4, <2>9
<1>2. \E f : Upto(f, n)
  <2>1. n \in Nat /\ n \notin bad
    <3>. HIDE DEF bad
    <3>. QED
      BY <1>1
  <2>. HIDE DEF Upto
  <2>. QED
    BY <2>1
<1>. DEFINE joined == CHOOSE f : Upto(f, n)
<1>3. Upto(joined, n)
  <2>. HIDE DEF Upto
  <2>. QED
    BY <1>2
<1>4. Joining(parts, n) = joined
  BY DEF Joining
<1>. HIDE DEF joined
<1>. QED
  BY <1>3, <1>4

\* What is joined of the first k parts does not depend on later ones.
LEMMA JoiningAgrees ==
    ASSUME NEW parts, NEW n \in Nat, NEW others, NEW m \in Nat, NEW l \in Nat,
           l <= n, l <= m, \A i \in 1..l : parts[i] = others[i]
    PROVE  Joining(parts, n)[l] = Joining(others, m)[l]
<1>. DEFINE bad == {k \in 0..l : Joining(parts, n)[k] # Joining(others, m)[k]}
<1>1. bad = {}
  <2>1. SUFFICES ASSUME bad # {} PROVE FALSE
    OBVIOUS
  <2>2. bad \in SUBSET Nat
    OBVIOUS
  <2>3. PICK k \in bad : \A i \in bad : k <= i
    <3>. HIDE DEF bad
    <3>. QED
      BY <2>1, <2>2, LeastNatural
  <2>4. k \in 0..l /\ k \in 0..n /\ k \in 0..m
    OBVIOUS
  <2>5. CASE k = 0
    BY <2>3, <2>4, <2>5, JoiningIs
  <2>6. CASE k # 0
    <3>1. k - 1 \in 0..l /\ ~(k <= k - 1) /\ k \in 1..l
      BY <2>4, <2>6
    <3>2. Joining(parts, n)[k - 1] = Joining(others, m)[k - 1]
      BY <2>3, <3>1
    <3>3. /\ Joining(parts, n)[k] = Joining(parts, n)[k - 1] \o parts[k]
          /\ Joining(others, m)[k] = Joining(others, m)[k - 1] \o others[k]
      BY <2>4, <2>6, JoiningIs
    <3>. QED
      BY <2>3, <3>1, <3>2, <3>3
  <2>. QED
    BY <2>5, <2>6
<1>. QED
  BY <1>1

\* Joining sequences gives one.
LEMMA JoiningType ==
    ASSUME NEW S, NEW n \in Nat, NEW parts, \A i \in 1..n : parts[i] \in Seq(S)
    PROVE  \A k \in 0..n : Joining(parts, n)[k] \in Seq(S)
<1>. DEFINE bad == {k \in 0..n : Joining(parts, n)[k] \notin Seq(S)}
<1>1. bad = {}
  <2>1. SUFFICES ASSUME bad # {} PROVE FALSE
    OBVIOUS
  <2>2. bad \in SUBSET Nat
    OBVIOUS
  <2>3. PICK k \in bad : \A i \in bad : k <= i
    <3>. HIDE DEF bad
    <3>. QED
      BY <2>1, <2>2, LeastNatural
  <2>4. k \in 0..n
    OBVIOUS
  <2>5. CASE k = 0
    <3>1. Joining(parts, n)[k] = <<>>
      BY <2>4, <2>5, JoiningIs
    <3>2. <<>> \in Seq(S)
      OBVIOUS
    <3>3. Joining(parts, n)[k] \notin Seq(S)
      BY <2>3
    <3>. QED
      BY <3>1, <3>2, <3>3
  <2>6. CASE k # 0
    <3>1. k - 1 \in 0..n /\ ~(k <= k - 1) /\ k \in 1..n
      BY <2>4, <2>6
    <3>2. Joining(parts, n)[k - 1] \in Seq(S)
      BY <2>3, <3>1
    <3>3. Joining(parts, n)[k] = Joining(parts, n)[k - 1] \o parts[k]
      BY <2>4, <2>6, JoiningIs
    <3>4. Joining(parts, n)[k - 1] \o parts[k] \in Seq(S)
      BY <3>1, <3>2, ConcatProperties
    <3>5. Joining(parts, n)[k] \notin Seq(S)
      BY <2>3
    <3>. QED
      BY <3>3, <3>4, <3>5
  <2>. QED
    BY <2>5, <2>6
<1>. QED
  BY <1>1

\* Parts that are empty add nothing.
LEMMA JoiningSkips ==
    ASSUME NEW S, NEW n \in Nat, NEW parts, \A i \in 1..n : parts[i] \in Seq(S),
           NEW a \in 0..n, NEW b \in 0..n, a <= b, \A i \in (a + 1)..b : parts[i] = <<>>
    PROVE  Joining(parts, n)[b] = Joining(parts, n)[a]
<1>. DEFINE bad == {k \in a..b : Joining(parts, n)[k] # Joining(parts, n)[a]}
<1>1. bad = {}
  <2>1. SUFFICES ASSUME bad # {} PROVE FALSE
    OBVIOUS
  <2>2. bad \in SUBSET Nat
    OBVIOUS
  <2>3. PICK k \in bad : \A i \in bad : k <= i
    <3>. HIDE DEF bad
    <3>. QED
      BY <2>1, <2>2, LeastNatural
  <2>4. k # a
    BY <2>3
  <2>5. k \in a..b
    OBVIOUS
  <2>6. k - 1 \in a..b /\ ~(k <= k - 1) /\ k \in (a + 1)..b /\ k \in 0..n /\ k # 0 /\ k - 1 \in 0..n
    BY <2>4, <2>5
  <2>7. Joining(parts, n)[k - 1] = Joining(parts, n)[a]
    BY <2>3, <2>6
  <2>8. Joining(parts, n)[k] = Joining(parts, n)[k - 1] \o <<>>
    BY <2>6, JoiningIs
  <2>9. Joining(parts, n)[k - 1] \in Seq(S)
    BY <2>6, JoiningType
  <2>. QED
    BY <2>3, <2>7, <2>8, <2>9, ConcatEmptySeq
<1>2. b \in a..b
  OBVIOUS
<1>. QED
  BY <1>1, <1>2

\* The first k snapshots merged in are the first k - 1 and then snapshot k.
LEMMA MergingIs ==
    ASSUME NEW r, NEW s, Len(s) \in Nat
    PROVE  \A k \in 0..Len(s) : Merging(r, s)[k] =
               IF k = 0 THEN r ELSE Absorb(Merging(r, s)[k - 1], s[k])
<1>. DEFINE Upto(g, m) == g = [k \in 0..m |-> IF k = 0 THEN r ELSE Absorb(g[k - 1], s[k])]
            bad == {m \in Nat : \A g : ~Upto(g, m)}
<1>1. bad = {}
  <2>1. SUFFICES ASSUME bad # {} PROVE FALSE
    OBVIOUS
  <2>2. bad \in SUBSET Nat
    OBVIOUS
  <2>3. PICK m \in bad : \A l \in bad : m <= l
    <3>. HIDE DEF bad
    <3>. QED
      BY <2>1, <2>2, LeastNatural
  <2>4. m \in Nat /\ \A g : ~Upto(g, m)
    BY <2>3
  <2>5. m # 0
    <3>. DEFINE g == [k \in 0..0 |-> r]
    <3>1. g = [k \in 0..0 |-> IF k = 0 THEN r ELSE Absorb(g[k - 1], s[k])]
      <4>1. \A k \in 0..0 : k = 0
        OBVIOUS
      <4>. QED
        BY <4>1
    <3>. QED
      BY <2>4, <3>1
  <2>6. m - 1 \in Nat /\ ~(m <= m - 1)
    BY <2>4, <2>5
  <2>7. PICK g : Upto(g, m - 1)
    <3>1. m - 1 \notin bad
      <4>. HIDE DEF bad
      <4>. QED
        BY <2>3, <2>6
    <3>. HIDE DEF Upto
    <3>. QED
      BY <2>6, <3>1
  <2>. DEFINE h == [k \in 0..m |-> IF k = m THEN Absorb(g[m - 1], s[m]) ELSE g[k]]
  <2>8. ASSUME NEW k \in 0..m
        PROVE  h[k] = IF k = 0 THEN r ELSE Absorb(h[k - 1], s[k])
    <3>1. CASE k = m
      <4>1. m - 1 \in 0..m /\ m - 1 # m
        BY <2>4, <2>5
      <4>. QED
        BY <2>4, <2>5, <3>1, <4>1
    <3>2. CASE k # m
      <4>1. k \in 0..(m - 1) /\ (k # 0 => k - 1 \in 0..m /\ k - 1 # m)
        BY <2>4, <3>2
      <4>2. g[k] = IF k = 0 THEN r ELSE Absorb(g[k - 1], s[k])
        BY <2>7, <4>1
      <4>. QED
        BY <3>2, <4>1, <4>2
    <3>. QED
      BY <3>1, <3>2
  <2>9. Upto(h, m)
    <3>1. h = [k \in 0..m |-> h[k]]
      OBVIOUS
    <3>. HIDE DEF h
    <3>. QED
      BY <2>8, <3>1
  <2>. QED
    BY <2>4, <2>9
<1>2. \E f : Upto(f, Len(s))
  <2>1. Len(s) \in Nat /\ Len(s) \notin bad
    <3>. HIDE DEF bad
    <3>. QED
      BY <1>1
  <2>. HIDE DEF Upto
  <2>. QED
    BY <2>1
<1>. DEFINE merged == CHOOSE f : Upto(f, Len(s))
<1>3. Upto(merged, Len(s))
  <2>. HIDE DEF Upto
  <2>. QED
    BY <1>2
<1>4. Merging(r, s) = merged
  BY DEF Merging
<1>. HIDE DEF merged
<1>. QED
  BY <1>3, <1>4

\* One more snapshot is merged in last.
LEMMA MergedAppend ==
    ASSUME NEW r, NEW S, NEW s \in Seq(S), NEW x \in S
    PROVE  /\ MergedInto(r, <<>>) = r
           /\ MergedInto(r, Append(s, x)) = Absorb(MergedInto(r, s), x)
<1>. DEFINE t == Append(s, x)
            bad == {k \in 0..Len(s) : Merging(r, t)[k] # Merging(r, s)[k]}
<1>1. /\ Len(s) \in Nat /\ Len(t) = Len(s) + 1 /\ t[Len(t)] = x
      /\ \A i \in 1..Len(s) : t[i] = s[i]
  BY AppendProperties
<1>. HIDE DEF t
<1>2. bad = {}
  <2>1. SUFFICES ASSUME bad # {} PROVE FALSE
    OBVIOUS
  <2>2. bad \in SUBSET Nat
    BY <1>1
  <2>3. PICK k \in bad : \A i \in bad : k <= i
    <3>. HIDE DEF bad
    <3>. QED
      BY <2>1, <2>2, LeastNatural
  <2>4. k \in 0..Len(s) /\ k \in 0..Len(t) /\ Len(t) \in Nat
    BY <1>1
  <2>5. CASE k = 0
    BY <1>1, <2>3, <2>4, <2>5, MergingIs
  <2>6. CASE k # 0
    <3>1. k - 1 \in 0..Len(s) /\ ~(k <= k - 1) /\ k \in 1..Len(s)
      BY <1>1, <2>4, <2>6
    <3>2. Merging(r, t)[k - 1] = Merging(r, s)[k - 1]
      BY <2>3, <3>1
    <3>3. /\ Merging(r, t)[k] = Absorb(Merging(r, t)[k - 1], t[k])
          /\ Merging(r, s)[k] = Absorb(Merging(r, s)[k - 1], s[k])
      <4>1. Len(s) \in Nat
        BY <1>1
      <4>2. \A i \in 0..Len(s) : Merging(r, s)[i] =
               IF i = 0 THEN r ELSE Absorb(Merging(r, s)[i - 1], s[i])
        BY <4>1, MergingIs
      <4>3. \A i \in 0..Len(t) : Merging(r, t)[i] =
               IF i = 0 THEN r ELSE Absorb(Merging(r, t)[i - 1], t[i])
        BY <2>4, MergingIs
      <4>. QED
        BY <2>4, <2>6, <4>2, <4>3
    <3>4. t[k] = s[k] /\ Merging(r, t)[k] # Merging(r, s)[k]
      BY <1>1, <2>3, <3>1
    <3>. QED
      BY <3>2, <3>3, <3>4
  <2>. QED
    BY <2>5, <2>6
<1>3. Merging(r, t)[Len(s)] = Merging(r, s)[Len(s)]
  <2>1. Len(s) \in 0..Len(s)
    BY <1>1
  <2>. QED
    BY <1>2, <2>1
<1>4. Merging(r, t)[Len(t)] = Absorb(Merging(r, t)[Len(s)], x)
  <2>1. Len(t) \in 0..Len(t) /\ Len(t) # 0 /\ Len(t) - 1 = Len(s) /\ Len(t) \in Nat
    BY <1>1
  <2>2. Merging(r, t)[Len(t)] = Absorb(Merging(r, t)[Len(t) - 1], t[Len(t)])
    BY <2>1, MergingIs
  <2>. QED
    BY <1>1, <2>1, <2>2
<1>5. MergedInto(r, <<>>) = r
  <2>1. Len(<<>>) = 0
    OBVIOUS
  <2>. QED
    BY <2>1, MergingIs DEF MergedInto
<1>. QED
  BY <1>3, <1>4, <1>5 DEF MergedInto, t

\* Moving the head of a sequence to the end of another changes nothing.
LEMMA HeadMoves ==
    ASSUME NEW S, NEW s \in Seq(S), NEW q \in Seq(S), q # <<>>
    PROVE  /\ Append(s, Head(q)) \in Seq(S) /\ Head(q) \in S /\ Tail(q) \in Seq(S)
           /\ Append(s, Head(q)) \o Tail(q) = s \o q
<1>1. Head(q) \in S /\ Tail(q) \in Seq(S) /\ q = <<Head(q)>> \o Tail(q)
  BY HeadTailProperties
<1>2. Append(s, Head(q)) = s \o <<Head(q)>> /\ <<Head(q)>> \in Seq(S)
  BY <1>1, AppendIsConcat
<1>3. (s \o <<Head(q)>>) \o Tail(q) = s \o (<<Head(q)>> \o Tail(q))
  BY <1>1, <1>2, ConcatAssociative
<1>. QED
  BY <1>1, <1>2, <1>3, AppendProperties

-----------------------------------------------------------------------------
(* What a window gives.                                                      *)

InFile(w) == w.first \in Nat \ {0} /\ w.last \in Nat /\ w.last <= Len(db.dat)

\* A position that the search for a mark gives within the file is one.
LEMMA NextMarkIsMark ==
    ASSUME NEW d, IsDatabase(d), NEW from \in Nat \ {0}, NextMark(d, from) <= Len(d.dat)
    PROVE  IsMark(d.dat[NextMark(d, from)])
<1>. DEFINE marks == {i \in from..Len(d.dat) : IsMark(d.dat[i])}
<1>1. Len(d.dat) \in Nat
  BY DatabaseTypes
<1>2. marks # {}
  BY <1>1 DEF NextMark
<1>3. marks \in SUBSET Nat
  BY <1>1
<1>4. Min(marks) \in marks
  BY <1>2, <1>3, MinOfNat
<1>. QED
  BY <1>2, <1>4 DEF NextMark

\* A position gives a snapshot when a segment of the callsign starts there.
LEMMA PartIs ==
    ASSUME IsDatabase(db), NEW call, NEW src, NEW w, InFile(w), NEW i \in 1..w.last
    PROVE  SnapshotsBy(db, call, src, w)[i] =
               IF /\ i >= w.first
                  /\ i = w.first \/ IsMark(db.dat[i])
                  /\ CompleteOnly(w.attempt) => NextSegment(w, i) <= w.last
                  /\ SegmentMatches(SubSeq(db.dat, i, NextSegment(w, i) - 1), w.default, call)
               THEN <<Parsed(SubSeq(db.dat, i, NextSegment(w, i) - 1), w.default, src)>>
               ELSE <<>>
<1>1. NextSegment(w, i) \in Nat /\ w.last \in Nat /\ i \in Nat \ {0} /\ i <= w.last
  BY NextSegmentBounds DEF InFile
<1>2. NextSegment(w, i) - 1 < w.last <=> NextSegment(w, i) <= w.last
  BY <1>1
<1>3. NextSegment(w, i) = Min({NextMark(db, i + 1), w.last + 1})
  BY DEF NextSegment
<1>. DEFINE segment == SubSeq(db.dat, i, NextSegment(w, i) - 1)
<1>4. SnapshotsBy(db, call, src, w)[i] =
        IF /\ i >= w.first
           /\ i = w.first \/ IsMark(db.dat[i])
           /\ CompleteOnly(w.attempt) => NextSegment(w, i) - 1 < w.last
           /\ SegmentMatches(segment, w.default, call)
        THEN <<Parsed(segment, w.default, src)>> ELSE <<>>
  BY <1>3, Zenon DEF SnapshotsBy
<1>. HIDE DEF segment
<1>5. SnapshotsBy(db, call, src, w)[i] =
        IF /\ i >= w.first
           /\ i = w.first \/ IsMark(db.dat[i])
           /\ CompleteOnly(w.attempt) => NextSegment(w, i) <= w.last
           /\ SegmentMatches(segment, w.default, call)
        THEN <<Parsed(segment, w.default, src)>> ELSE <<>>
  BY <1>2, <1>4, Zenon
<1>. QED
  BY <1>5, Zenon DEF segment

\* Each position gives snapshots, one or none.
LEMMA PartType ==
    ASSUME IsDatabase(db), NEW call \in Call, NEW src \in Sources, NEW w, InFile(w)
    PROVE  \A i \in 1..w.last : SnapshotsBy(db, call, src, w)[i] \in Seq(Snapshot)
<1>. SUFFICES ASSUME NEW i \in 1..w.last
              PROVE  SnapshotsBy(db, call, src, w)[i] \in Seq(Snapshot)
  OBVIOUS
<1>. DEFINE segment == SubSeq(db.dat, i, NextSegment(w, i) - 1)
<1>1. /\ NextSegment(w, i) \in Nat /\ NextSegment(w, i) <= w.last + 1 /\ w.last \in Nat
      /\ i \in Nat \ {0} /\ w.last <= Len(db.dat) /\ Len(db.dat) \in Nat /\ db.dat \in Seq(Cell)
  BY NextSegmentBounds, DatabaseTypes DEF InFile
<1>2. segment \in Seq(Cell)
  <2>. DEFINE dat == db.dat
              last == NextSegment(w, i) - 1
  <2>1. last \in Int /\ last <= Len(dat)
    BY <1>1
  <2>2. dat \in Seq(Cell)
    BY <1>1
  <2>. HIDE DEF dat, last
  <2>3. \A j \in i..last : dat[j] \in Cell
    BY <1>1, <2>1, <2>2, ElementOfSeq
  <2>4. SubSeq(dat, i, last) \in Seq(Cell)
    BY <1>1, <2>1, <2>3, SubSeqProperties
  <2>. QED
    BY <2>4 DEF dat, last
<1>3. SegmentMatches(segment, w.default, call) => Parsed(segment, w.default, src) \in Snapshot
  <2>. HIDE DEF segment
  <2>. QED
    BY <1>2, ParsedType
<1>4. \/ SnapshotsBy(db, call, src, w)[i] = <<>>
      \/ /\ SnapshotsBy(db, call, src, w)[i] = <<Parsed(segment, w.default, src)>>
         /\ SegmentMatches(segment, w.default, call)
  BY PartIs
<1>. DEFINE one == Parsed(segment, w.default, src)
<1>5. CASE SnapshotsBy(db, call, src, w)[i] = <<>>
  BY <1>5
<1>6. CASE SnapshotsBy(db, call, src, w)[i] = <<one>> /\ one \in Snapshot
  <2>. HIDE DEF one
  <2>1. <<one>> \in Seq(Snapshot)
    BY <1>6
  <2>. QED
    BY <1>6, <2>1
<1>. HIDE DEF one
<1>7. one = Parsed(segment, w.default, src)
  BY DEF one
<1>. HIDE DEF segment
<1>. QED
  BY <1>3, <1>4, <1>5, <1>6, <1>7, Zenon

\* Nothing is found before the window begins.
LEMMA BeforeWindow ==
    ASSUME IsDatabase(db), NEW call \in Call, NEW src \in Sources, NEW w, InFile(w),
           NEW k \in 0..w.last, k < w.first
    PROVE  Joining(SnapshotsBy(db, call, src, w), w.last)[k] = <<>>
<1>. DEFINE parts == SnapshotsBy(db, call, src, w)
<1>1. w.last \in Nat /\ 0 \in 0..w.last /\ 0 <= k /\ w.first \in Nat
  BY DEF InFile
<1>2. \A i \in 1..w.last : parts[i] \in Seq(Snapshot)
  BY PartType
<1>3. ASSUME NEW i \in (0 + 1)..k
      PROVE  parts[i] = <<>>
  <2>1. i \in 1..w.last /\ ~(i >= w.first)
    BY <1>1
  <2>. QED
    BY <2>1, PartIs
<1>. HIDE DEF parts
<1>4. Joining(parts, w.last)[k] = Joining(parts, w.last)[0]
  BY <1>1, <1>2, <1>3, JoiningSkips
<1>5. Joining(parts, w.last)[0] = <<>>
  BY <1>1, JoiningIs
<1>. QED
  BY <1>4, <1>5 DEF parts

\* From one segment of the window to the next.
LEMMA SegmentStep ==
    ASSUME IsDatabase(db), NEW call \in Call, NEW src \in Sources, NEW w, InFile(w),
           NEW c \in 1..w.last, c >= w.first
    PROVE  /\ Joining(SnapshotsBy(db, call, src, w), w.last)[NextSegment(w, c) - 1]
                = Joining(SnapshotsBy(db, call, src, w), w.last)[c - 1]
                      \o SnapshotsBy(db, call, src, w)[c]
           /\ NextSegment(w, c) <= w.last => IsMark(db.dat[NextSegment(w, c)])
<1>. DEFINE parts == SnapshotsBy(db, call, src, w)
            ends == {NextMark(db, c + 1), w.last + 1}
<1>1. /\ w.last \in Nat /\ w.first \in Nat /\ c \in Nat \ {0} /\ c + 1 \in Nat \ {0}
      /\ w.last <= Len(db.dat) /\ Len(db.dat) \in Nat
  BY DatabaseTypes DEF InFile
<1>2. \A i \in 1..w.last : parts[i] \in Seq(Snapshot)
  BY PartType
<1>3. /\ NextSegment(w, c) \in Nat /\ c < NextSegment(w, c)
      /\ NextSegment(w, c) <= w.last + 1
  BY <1>1, NextSegmentBounds
<1>4. NextMark(db, c + 1) \in Nat
  BY <1>1, NextMarkBounds
<1>5. /\ NextSegment(w, c) \in ends /\ NextSegment(w, c) <= NextMark(db, c + 1)
  <2>1. ends \in SUBSET Nat /\ ends # {}
    BY <1>1, <1>4
  <2>2. Min(ends) \in ends /\ \A y \in ends : Min(ends) <= y
    BY <2>1, MinOfNat
  <2>. QED
    BY <2>2 DEF NextSegment
<1>6. ASSUME NEW i \in (c + 1)..(NextSegment(w, c) - 1)
      PROVE  parts[i] = <<>>
  <2>1. /\ i \in 1..w.last /\ i # w.first /\ i \in Nat
        /\ c + 1 <= i /\ i < NextSegment(w, c)
        /\ c + 1 \in Nat
    BY <1>1, <1>3
  <2>2. ~IsMark(db.dat[i])
    <3>1. SUFFICES ASSUME IsMark(db.dat[i]) PROVE FALSE
      OBVIOUS
    <3>2. i \in MarksOf(db)
      BY <1>1, <2>1, <3>1 DEF MarksOf
    <3>3. NextMark(db, c + 1) <= i
      BY <2>1, <3>2, NextMarkReaches
    <3>. QED
      BY <1>3, <1>4, <1>5, <2>1, <3>3
  <2>. QED
    BY <2>1, <2>2, PartIs
<1>. HIDE DEF parts
<1>7. Joining(parts, w.last)[NextSegment(w, c) - 1] = Joining(parts, w.last)[c]
  <2>. DEFINE b == NextSegment(w, c) - 1
  <2>1. c \in 0..w.last /\ b \in 0..w.last /\ c <= b
    BY <1>1, <1>3
  <2>2. \A i \in (c + 1)..b : parts[i] = <<>>
    BY <1>6
  <2>. DEFINE n == w.last
  <2>3. /\ n \in Nat /\ c \in 0..n /\ b \in 0..n
        /\ \A i \in 1..n : parts[i] \in Seq(Snapshot)
    BY <1>1, <1>2, <2>1
  <2>. HIDE DEF b, n
  <2>4. Joining(parts, n)[b] = Joining(parts, n)[c]
    BY <2>1, <2>2, <2>3, JoiningSkips
  <2>. QED
    BY <2>4 DEF b, n
<1>8. Joining(parts, w.last)[c] = Joining(parts, w.last)[c - 1] \o parts[c]
  <2>1. c \in 0..w.last /\ c # 0
    BY <1>1
  <2>. QED
    BY <1>1, <2>1, JoiningIs
<1>9. ASSUME NextSegment(w, c) <= w.last
      PROVE  IsMark(db.dat[NextSegment(w, c)])
  <2>1. NextSegment(w, c) = NextMark(db, c + 1)
    BY <1>1, <1>3, <1>5, <1>9
  <2>2. NextMark(db, c + 1) <= Len(db.dat)
    BY <1>1, <1>3, <1>9, <2>1
  <2>. QED
    BY <1>1, <2>1, <2>2, NextMarkIsMark
<1>. QED
  BY <1>7, <1>8, <1>9 DEF parts

\* What a window gives is a sequence of snapshots.
LEMMA SnapshotsInType ==
    ASSUME IsDatabase(db), NEW call \in Call, NEW src \in Sources, NEW w, InFile(w)
    PROVE  /\ SnapshotsIn(db, call, src, w) \in Seq(Snapshot)
           /\ \A k \in 0..w.last :
                  Joining(SnapshotsBy(db, call, src, w), w.last)[k] \in Seq(Snapshot)
<1>. DEFINE parts == SnapshotsBy(db, call, src, w)
<1>1. w.last \in Nat /\ w.last \in 0..w.last
  BY DEF InFile
<1>2. \A i \in 1..w.last : parts[i] \in Seq(Snapshot)
  BY PartType
<1>. HIDE DEF parts
<1>3. \A k \in 0..w.last : Joining(parts, w.last)[k] \in Seq(Snapshot)
  BY <1>1, <1>2, JoiningType
<1>. QED
  BY <1>1, <1>3 DEF parts, SnapshotsIn, Joined

\* When the parse loop is over, what it found is all that the window gives.
LEMMA WindowFinished ==
    ASSUME IsDatabase(db), NEW call \in Call, NEW src \in Sources, NEW w, InFile(w),
           NEW c \in Nat \ {0}, w.first <= c, c <= w.last + 1,
           c > w.last \/ (CompleteOnly(w.attempt) /\ NextSegment(w, c) > w.last)
    PROVE  Joining(SnapshotsBy(db, call, src, w), w.last)[c - 1]
               = SnapshotsIn(db, call, src, w)
<1>. DEFINE parts == SnapshotsBy(db, call, src, w)
<1>1. w.last \in Nat
  BY DEF InFile
<1>2. CASE c > w.last
  <2>1. c - 1 = w.last
    BY <1>1, <1>2
  <2>. QED
    BY <2>1 DEF SnapshotsIn, Joined
<1>3. CASE c <= w.last /\ CompleteOnly(w.attempt) /\ NextSegment(w, c) > w.last
  <2>1. c \in 1..w.last /\ c - 1 \in 0..w.last
    BY <1>1, <1>3
  <2>2. NextSegment(w, c) \in Nat /\ NextSegment(w, c) <= w.last + 1
    BY <1>3, NextSegmentBounds DEF InFile
  <2>3. NextSegment(w, c) - 1 = w.last /\ ~(NextSegment(w, c) <= w.last)
    BY <1>1, <1>3, <2>2
  <2>4. parts[c] = <<>>
    BY <1>3, <2>1, <2>3, PartIs
  <2>5. Joining(parts, w.last)[NextSegment(w, c) - 1]
            = Joining(parts, w.last)[c - 1] \o parts[c]
    BY <2>1, SegmentStep
  <2>6. Joining(parts, w.last)[c - 1] \in Seq(Snapshot)
    BY <2>1, SnapshotsInType
  <2>. HIDE DEF parts
  <2>7. Joining(parts, w.last)[w.last] = Joining(parts, w.last)[c - 1]
    BY <2>3, <2>4, <2>5, <2>6, ConcatEmptySeq
  <2>. QED
    BY <2>7 DEF parts, SnapshotsIn, Joined
<1>. QED
  BY <1>1, <1>2, <1>3

-----------------------------------------------------------------------------
(* What the entries and the postings give.                                   *)

\* The slices lie in the file, and the entries give snapshots.
LEMMA EntryPartsType ==
    ASSUME IsDatabase(db), NEW call \in Call
    PROVE  /\ \A i \in 1..Len(db.idx) : /\ InFile(EntryWindow(db, i))
                                        /\ EntryParts(db, call)[i] \in Seq(Snapshot)
           /\ FromEntries(db, call) \in Seq(Snapshot)
<1>. DEFINE parts == EntryParts(db, call)
            n == Len(db.idx)
<1>1. n \in Nat /\ n \in 0..n
  BY DatabaseTypes
<1>2. ASSUME NEW i \in 1..n
      PROVE  InFile(EntryWindow(db, i)) /\ parts[i] \in Seq(Snapshot)
  <2>1. SliceEnd(db, i) \in Nat /\ SliceEnd(db, i) <= Len(db.dat)
    BY SliceEndBounds
  <2>2. db.idx[i].offset \in Nat \ {0}
    BY DatabaseTypes
  <2>3. InFile(EntryWindow(db, i))
    BY <2>1, <2>2 DEF InFile, EntryWindow, Window
  <2>4. "HamCallDatIdx" \in Sources
    BY DEF Sources
  <2>5. SnapshotsIn(db, call, "HamCallDatIdx", EntryWindow(db, i)) \in Seq(Snapshot)
    BY <2>3, <2>4, SnapshotsInType
  <2>6. \/ parts[i] = SnapshotsIn(db, call, "HamCallDatIdx", EntryWindow(db, i))
        \/ parts[i] = <<>>
    BY Zenon DEF EntryParts
  <2>7. <<>> \in Seq(Snapshot)
    OBVIOUS
  <2>. HIDE DEF parts
  <2>. QED
    BY <2>3, <2>5, <2>6, <2>7, Zenon
<1>. HIDE DEF parts
<1>3. Joining(parts, n)[n] \in Seq(Snapshot)
  <2>. HIDE DEF n
  <2>. QED
    BY <1>1, <1>2, JoiningType
<1>. QED
  BY <1>2, <1>3 DEF parts, FromEntries, Joined

\* Positions that are no entry of the callsign add nothing.
LEMMA EntriesBetween ==
    ASSUME IsDatabase(db), NEW call \in Call, NEW a \in 0..Len(db.idx),
           NEW b \in 0..Len(db.idx), a <= b,
           \A j \in EntriesOf(db, call) : ~(a < j /\ j <= b)
    PROVE  Joining(EntryParts(db, call), Len(db.idx))[b]
               = Joining(EntryParts(db, call), Len(db.idx))[a]
<1>. DEFINE parts == EntryParts(db, call)
            n == Len(db.idx)
<1>1. n \in Nat
  BY DatabaseTypes
<1>2. \A i \in 1..n : parts[i] \in Seq(Snapshot)
  BY EntryPartsType
<1>3. ASSUME NEW i \in (a + 1)..b
      PROVE  parts[i] = <<>>
  <2>1. i \in 1..n /\ a < i /\ i <= b
    BY <1>1
  <2>2. i \notin EntriesOf(db, call)
    BY <2>1
  <2>. QED
    BY <2>1, <2>2 DEF EntryParts
<1>. HIDE DEF parts
<1>4. a \in 0..n /\ b \in 0..n
  OBVIOUS
<1>. HIDE DEF n
<1>5. Joining(parts, n)[b] = Joining(parts, n)[a]
  BY <1>1, <1>2, <1>3, <1>4, JoiningSkips
<1>. QED
  BY <1>5 DEF parts, n

\* The window of every attempt lies in the file.
LEMMA PostingWindowInFile ==
    ASSUME IsDatabase(db), NEW offset \in Nat \ {0}, NEW n \in 0..Len(WindowLengths)
    PROVE  /\ InFile(PostingWindow(db, offset, n))
           /\ PostingWindow(db, offset, n).first <= PostingWindow(db, offset, n).last + 1
           /\ PostingWindow(db, offset, n).posting = offset
           /\ PostingWindow(db, offset, n).attempt = n
<1>. DEFINE p == IF n = 0 THEN RecordAt(db, offset)
                 ELSE PositionsFrom(db, offset, WindowLengths[n])
<1>1. WithinFile(db, p[1], p[2])
  <2>1. CASE n = 0
    BY <2>1, RecordAtBounds
  <2>2. CASE n # 0
    <3>1. WindowLengths[n] \in Nat \ {0}
      BY <2>2, WindowsAssumption, ElementOfSeq
    <3>. QED
      BY <2>2, <3>1, PositionsFromBounds
  <2>. QED
    BY <2>1, <2>2
<1>2. PostingWindow(db, offset, n) = Window(p[1], p[2], NoDefault, offset, n)
  BY DEF PostingWindow
<1>. HIDE DEF p
<1>. QED
  BY <1>1, <1>2 DEF InFile, WithinFile, Window

\* An attempt gives snapshots.
LEMMA AttemptType ==
    ASSUME IsDatabase(db), NEW call \in Call, NEW offset \in Nat \ {0},
           NEW n \in 0..Len(WindowLengths)
    PROVE  Attempt(db, call, offset, n) \in Seq(Snapshot)
<1>1. "HamCallHci" \in Sources
  BY DEF Sources
<1>. QED
  BY <1>1, PostingWindowInFile, SnapshotsInType DEF Attempt

\* A posting gives snapshots.
LEMMA FromPostingType ==
    ASSUME IsDatabase(db), NEW call \in Call, NEW offset \in Nat \ {0}
    PROVE  FromPosting(db, call, offset) \in Seq(Snapshot)
<1>. DEFINE hits == {n \in 0..Len(WindowLengths) : Attempt(db, call, offset, n) # <<>>}
<1>1. Len(WindowLengths) \in Nat
  BY WindowsAssumption
<1>2. CASE hits = {}
  BY <1>2 DEF FromPosting
<1>3. CASE hits # {}
  <2>1. hits \in SUBSET Nat
    BY <1>1
  <2>2. Min(hits) \in hits
    <3>. HIDE DEF hits
    <3>. QED
      BY <1>3, <2>1, MinOfNat
  <2>3. Min(hits) \in 0..Len(WindowLengths)
    BY <2>2
  <2>4. FromPosting(db, call, offset) = Attempt(db, call, offset, Min(hits))
    BY <1>3 DEF FromPosting
  <2>. HIDE DEF hits
  <2>. QED
    BY <2>3, <2>4, AttemptType
<1>. QED
  BY <1>2, <1>3

\* The attempt that ends the search behind a posting gives what the posting does:
\* the earlier ones found nothing, and there is none behind the last.
LEMMA SearchEnds ==
    ASSUME NEW d, NEW call, NEW offset, NEW n \in 0..Len(WindowLengths),
           \A k \in 0..(n - 1) : Attempt(d, call, offset, k) = <<>>,
           Attempt(d, call, offset, n) # <<>> \/ n = Len(WindowLengths)
    PROVE  FromPosting(d, call, offset) = Attempt(d, call, offset, n)
<1>. DEFINE hits == {k \in 0..Len(WindowLengths) : Attempt(d, call, offset, k) # <<>>}
<1>1. Len(WindowLengths) \in Nat
  BY WindowsAssumption
<1>2. CASE Attempt(d, call, offset, n) # <<>>
  <2>1. n \in hits /\ hits \in SUBSET Nat
    BY <1>1, <1>2
  <2>2. Min(hits) \in hits /\ \A y \in hits : Min(hits) <= y
    <3>. HIDE DEF hits
    <3>. QED
      BY <2>1, MinOfNat
  <2>3. Min(hits) = n
    <3>1. Min(hits) <= n /\ Min(hits) \in 0..Len(WindowLengths)
      BY <2>1, <2>2
    <3>2. Min(hits) \notin 0..(n - 1)
      BY <2>2
    <3>. HIDE DEF hits
    <3>. QED
      BY <1>1, <3>1, <3>2
  <2>4. FromPosting(d, call, offset) = Attempt(d, call, offset, Min(hits))
    BY <2>1 DEF FromPosting
  <2>. QED
    BY <2>3, <2>4
<1>3. CASE Attempt(d, call, offset, n) = <<>>
  <2>1. ASSUME NEW k \in 0..Len(WindowLengths)
        PROVE  Attempt(d, call, offset, k) = <<>>
    <3>1. k = n \/ k \in 0..(n - 1)
      BY <1>1, <1>3
    <3>. QED
      BY <1>3, <3>1
  <2>2. hits = {}
    BY <2>1
  <2>. QED
    BY <1>3, <2>2 DEF FromPosting
<1>. QED
  BY <1>2, <1>3

OffsetsIn(s) == {s[i] : i \in 1..Len(s)}

\* One more posting adds what is behind it, unless its offset was there before.
LEMMA FromPostingsAppend ==
    ASSUME IsDatabase(db), NEW call \in Call, NEW done \in Seq(Nat \ {0}),
           NEW p \in Nat \ {0}
    PROVE  /\ FromPostings(db, call, done) \in Seq(Snapshot)
           /\ FromPostings(db, call, Append(done, p)) =
                  IF p \in OffsetsIn(done) THEN FromPostings(db, call, done)
                  ELSE FromPostings(db, call, done) \o FromPosting(db, call, p)
           /\ OffsetsIn(Append(done, p)) = OffsetsIn(done) \cup {p}
<1>. DEFINE more == Append(done, p)
            n == Len(done)
            parts == PostingParts(db, call, done)
            others == PostingParts(db, call, more)
<1>1. /\ n \in Nat /\ Len(more) = n + 1 /\ more[n + 1] = p
      /\ \A i \in 1..n : more[i] = done[i] /\ done[i] \in Nat \ {0}
  BY AppendProperties, ElementOfSeq
<1>. HIDE DEF more
<1>2. \A i \in 1..n : parts[i] =
          IF \E j \in 1..(i - 1) : done[j] = done[i] THEN <<>>
          ELSE FromPosting(db, call, done[i])
  BY DEF PostingParts
<1>3. \A i \in 1..(n + 1) : others[i] =
          IF \E j \in 1..(i - 1) : more[j] = more[i] THEN <<>>
          ELSE FromPosting(db, call, more[i])
  BY <1>1 DEF PostingParts
<1>4. FromPostings(db, call, done) = Joining(parts, n)[n]
      /\ FromPostings(db, call, more) = Joining(others, n + 1)[n + 1]
  BY <1>1 DEF FromPostings, Joined
<1>. HIDE DEF parts, others, n
<1>5. ASSUME NEW i \in 1..n
      PROVE  others[i] = parts[i] /\ parts[i] \in Seq(Snapshot)
  <2>1. i \in 1..(n + 1) /\ \A j \in 1..(i - 1) : j \in 1..n
    BY <1>1
  <2>2. FromPosting(db, call, done[i]) \in Seq(Snapshot) /\ <<>> \in Seq(Snapshot)
    BY <1>1, FromPostingType
  <2>3. (\E j \in 1..(i - 1) : more[j] = more[i])
            <=> (\E j \in 1..(i - 1) : done[j] = done[i])
    BY <1>1, <2>1
  <2>4. more[i] = done[i]
    BY <1>1
  <2>5. parts[i] \in Seq(Snapshot)
    BY <1>2, <2>2, Zenon
  <2>6. others[i] = parts[i]
    BY <1>2, <1>3, <2>1, <2>3, <2>4, Zenon
  <2>. QED
    BY <2>5, <2>6
<1>6. Joining(parts, n)[n] \in Seq(Snapshot)
  BY <1>1, <1>5, JoiningType
<1>7. Joining(others, n + 1)[n] = Joining(parts, n)[n]
  <2>1. n <= n + 1 /\ n <= n /\ n + 1 \in Nat
    BY <1>1
  <2>. QED
    BY <1>1, <1>5, <2>1, JoiningAgrees
<1>8. Joining(others, n + 1)[n + 1] = Joining(others, n + 1)[n] \o others[n + 1]
  <2>. DEFINE m == n + 1
  <2>1. m \in 0..m /\ m # 0 /\ m - 1 = n /\ m \in Nat
    BY <1>1
  <2>. HIDE DEF m
  <2>2. Joining(others, m)[m] = Joining(others, m)[m - 1] \o others[m]
    BY <2>1, JoiningIs
  <2>. QED
    BY <2>1, <2>2 DEF m
<1>9. (\E j \in 1..n : more[j] = p) <=> p \in OffsetsIn(done)
  BY <1>1 DEF OffsetsIn, n
<1>10. others[n + 1] = IF p \in OffsetsIn(done) THEN <<>> ELSE FromPosting(db, call, p)
  <2>1. n + 1 \in 1..(n + 1) /\ n + 1 - 1 = n
    BY <1>1
  <2>. QED
    BY <1>1, <1>3, <1>9, <2>1
<1>11. OffsetsIn(more) = OffsetsIn(done) \cup {p}
  <2>1. ASSUME NEW x PROVE x \in OffsetsIn(more) <=> x \in OffsetsIn(done) \cup {p}
    <3>1. x \in OffsetsIn(more) <=> \E i \in 1..(n + 1) : x = more[i]
      BY <1>1 DEF OffsetsIn
    <3>2. x \in OffsetsIn(done) <=> \E i \in 1..n : x = done[i]
      BY DEF OffsetsIn, n
    <3>3. \A i : i \in 1..(n + 1) <=> i \in 1..n \/ i = n + 1
      BY <1>1
    <3>. QED
      BY <1>1, <3>1, <3>2, <3>3
  <2>. QED
    BY <2>1
<1>12. FromPostings(db, call, more) =
          IF p \in OffsetsIn(done) THEN FromPostings(db, call, done)
          ELSE FromPostings(db, call, done) \o FromPosting(db, call, p)
  <2>1. CASE p \in OffsetsIn(done)
    BY <1>4, <1>6, <1>7, <1>8, <1>10, <2>1, ConcatEmptySeq
  <2>2. CASE p \notin OffsetsIn(done)
    BY <1>4, <1>7, <1>8, <1>10, <2>2
  <2>. QED
    BY <2>1, <2>2
<1>. QED
  BY <1>4, <1>6, <1>11, <1>12 DEF more

\* The postings of one more year come behind those of the years before.
LEMMA PostingsUntilStep ==
    ASSUME IsDatabase(db), NEW call
    PROVE  /\ PostingsUntil(db, call, 0) = PostingsOf(db, call, NoYear)
           /\ \A k \in 0..Len(db.years) : PostingsUntil(db, call, k) \in Seq(Nat \ {0})
           /\ \A k \in 1..Len(db.years) :
                  PostingsUntil(db, call, k) =
                      PostingsUntil(db, call, k - 1) \o PostingsOf(db, call, db.years[k])
<1>. DEFINE parts == [n \in 1..Len(db.years) |-> PostingsOf(db, call, db.years[n])]
            bare == PostingsOf(db, call, NoYear)
            m == Len(db.years)
<1>1. m \in Nat
  BY DEF IsDatabase
<1>2. bare \in Seq(Nat \ {0})
  BY PostingsType
<1>3. \A i \in 1..m : /\ parts[i] \in Seq(Nat \ {0})
                      /\ parts[i] = PostingsOf(db, call, db.years[i])
  BY PostingsType
<1>4. \A k : PostingsUntil(db, call, k) = bare \o Joining(parts, m)[k]
  BY Zenon DEF PostingsUntil
<1>. HIDE DEF parts, m, bare
<1>5. \A k \in 0..m : Joining(parts, m)[k] \in Seq(Nat \ {0})
  BY <1>1, <1>3, JoiningType
<1>6. Joining(parts, m)[0] = <<>>
  BY <1>1, JoiningIs
<1>7. PostingsUntil(db, call, 0) = bare
  BY <1>2, <1>4, <1>6, ConcatEmptySeq
<1>8. ASSUME NEW k \in 0..m
      PROVE  PostingsUntil(db, call, k) \in Seq(Nat \ {0})
  <2>. DEFINE before == Joining(parts, m)[k]
              S == Nat \ {0}
  <2>1. before \in Seq(S) /\ bare \in Seq(S)
    BY <1>2, <1>5
  <2>2. PostingsUntil(db, call, k) = bare \o before
    BY <1>4
  <2>. HIDE DEF before, S
  <2>3. PostingsUntil(db, call, k) \in Seq(S)
    BY <2>1, <2>2, ConcatProperties
  <2>. QED
    BY <2>3 DEF S
<1>9. ASSUME NEW k \in 1..m
      PROVE  PostingsUntil(db, call, k) = PostingsUntil(db, call, k - 1) \o parts[k]
  <2>. DEFINE l == k - 1
  <2>1. k \in 0..m /\ k # 0 /\ l \in 0..m
    BY <1>1
  <2>2. Joining(parts, m)[k] = Joining(parts, m)[l] \o parts[k]
    BY <1>1, <2>1, JoiningIs
  <2>. HIDE DEF l
  <2>3. /\ Joining(parts, m)[l] \in Seq(Nat \ {0}) /\ parts[k] \in Seq(Nat \ {0})
    BY <1>3, <1>5, <2>1
  <2>. DEFINE before == Joining(parts, m)[l]
              new == parts[k]
              S == Nat \ {0}
  <2>7. before \in Seq(S) /\ new \in Seq(S) /\ bare \in Seq(S)
    BY <1>2, <2>3
  <2>4. /\ Joining(parts, m)[k] = before \o new
        /\ PostingsUntil(db, call, k) = bare \o Joining(parts, m)[k]
        /\ PostingsUntil(db, call, l) = bare \o before
    BY <1>4, <2>2
  <2>. HIDE DEF before, new, S
  <2>5. (bare \o before) \o new = bare \o (before \o new)
    BY <2>7, ConcatAssociative
  <2>6. PostingsUntil(db, call, k) = PostingsUntil(db, call, l) \o new
    BY <2>4, <2>5
  <2>. QED
    BY <2>6 DEF l, new
<1>. QED
  BY <1>3, <1>7, <1>8, <1>9 DEF bare, m

-----------------------------------------------------------------------------
(* How far a lookup is with the report that it will return.                 *)

FoundSoFar ==
    /\ found = Joining(SnapshotsBy(db, query, source, window), window.last)[cursor - 1]
    /\ cursor = window.first \/ cursor > window.last \/ IsMark(db.dat[cursor])

\* What is queued is the end of all that this index gives.
MergedSoFar(all) ==
    \E before \in Seq(Snapshot) :
        /\ all = before \o queue
        /\ report = MergedInto(Begun(db, query), before)

EntriesUntil(i) == queue = Joining(EntryParts(db, query), Len(db.idx))[i]

VisitingEntries ==
    /\ report = Begun(db, query)
    /\ at \in 0..Len(db.idx)
    /\ EntriesUntil(at)

ParsingEntry ==
    /\ report = Begun(db, query)
    /\ at \in 1..Len(db.idx) /\ at \in EntriesOf(db, query)
    /\ db.idx[at].offset <= Len(db.dat)
    /\ EntriesUntil(at - 1)
    /\ window = EntryWindow(db, at)

AfterEntries ==
    /\ report = MergedInto(Begun(db, query), FromEntries(db, query))
    /\ at \in 0..Len(db.years)

VisitingPostings ==
    /\ AfterEntries
    /\ \E done \in Seq(Nat \ {0}) :
           /\ done \o todo = PostingsUntil(db, query, at)
           /\ seen = OffsetsIn(done)
           /\ queue = FromPostings(db, query, done)

\* The posting being parsed is a new one, and no smaller window gave anything.
ParsingPosting ==
    /\ AfterEntries
    /\ \E done \in Seq(Nat \ {0}) :
           /\ Append(done, window.posting) \o todo = PostingsUntil(db, query, at)
           /\ window.posting \notin OffsetsIn(done)
           /\ seen = OffsetsIn(done) \cup {window.posting}
           /\ queue = FromPostings(db, query, done)
    /\ window = PostingWindow(db, window.posting, window.attempt)
    /\ \A n \in 0..(window.attempt - 1) :
           Attempt(db, query, window.posting, n) = <<>>

AnsweringIdx ==
    /\ pc = "visit" => VisitingEntries
    /\ pc = "parse" => ParsingEntry
    /\ pc = "merge" => MergedSoFar(FromEntries(db, query))

AnsweringHci ==
    /\ pc = "visit" => VisitingPostings
    /\ pc = "parse" => ParsingPosting
    /\ pc = "merge" => MergedSoFar(Everything(db, query))

Answering ==
    /\ pc = "parse" => FoundSoFar
    /\ Busy /\ source = "HamCallDatIdx" => AnsweringIdx
    /\ Busy /\ source = "HamCallHci" => AnsweringHci

\* What the proofs below keep needing of the invariant.
LEMMA BusyTypes ==
    ASSUME Inv, Busy
    PROVE  /\ IsDatabase(db) /\ query \in Calls /\ query \in Call
           /\ source \in {"HamCallDatIdx", "HamCallHci"} /\ source \in Sources
           /\ todo \in Seq(Nat \ {0}) /\ queue \in Seq(Snapshot)
           /\ found \in Seq(Snapshot) /\ at \in Nat
           /\ pc \in {"visit", "parse", "merge"}
           /\ Len(db.idx) \in Nat /\ Len(db.years) \in Nat
<1>1. TypeOK /\ query \in Calls
  BY DEF Inv
<1>2. IsDatabase(db)
  BY <1>1, DatabasesAssumption DEF TypeOK
<1>3. Len(db.idx) \in Nat /\ Len(db.years) \in Nat
  BY <1>2 DEF IsDatabase
<1>. QED
  BY <1>1, <1>2, <1>3, CallsAssumption DEF TypeOK, Busy, Sources

\* And while a window is parsed.
LEMMA ParseTypes ==
    ASSUME Inv, pc = "parse"
    PROVE  /\ InFile(window) /\ cursor \in Nat \ {0}
           /\ window.first <= cursor /\ cursor <= window.last + 1
           /\ window.posting \in Nat \ {0} /\ window.attempt \in 0..Len(WindowLengths)
           /\ window.attempt \in Nat /\ Len(WindowLengths) \in Nat
<1>1. TypeOK
  BY DEF Inv
<1>2. window \in [first : Nat \ {0}, last : Nat, default : Call,
                   posting : Nat \ {0}, attempt : 0..Len(WindowLengths)]
  BY <1>1 DEF TypeOK
<1>3. /\ window.first \in Nat \ {0} /\ window.last \in Nat
      /\ window.posting \in Nat \ {0} /\ window.attempt \in 0..Len(WindowLengths)
  BY <1>2
<1>4. Len(WindowLengths) \in Nat /\ window.attempt \in Nat
  BY <1>3, WindowsAssumption
<1>. QED
  BY <1>1, <1>3, <1>4 DEF TypeOK, InFile

\* A window is begun with nothing found.
LEMMA StartParseFound ==
    ASSUME IsDatabase(db), query \in Call, source \in Sources, NEW w, InFile(w),
           w.first <= w.last + 1, StartParse(w), UNCHANGED <<db, query, source>>
    PROVE  pc' = "parse" /\ window' = w /\ FoundSoFar'
<1>1. pc' = "parse" /\ window' = w /\ cursor' = w.first /\ found' = <<>>
  BY DEF StartParse
<1>2. w.first \in Nat \ {0} /\ w.last \in Nat
  BY DEF InFile
<1>3. Joining(SnapshotsBy(db, query, source, w), w.last)[w.first - 1] = <<>>
  <2>. DEFINE k == w.first - 1
  <2>1. k \in 0..w.last /\ k < w.first
    BY <1>2
  <2>. HIDE DEF k
  <2>2. Joining(SnapshotsBy(db, query, source, w), w.last)[k] = <<>>
    BY <2>1, BeforeWindow
  <2>. QED
    BY <2>2 DEF k
<1>4. db' = db /\ query' = query /\ source' = source
  OBVIOUS
<1>5. FoundSoFar' <=>
        /\ found' = Joining(SnapshotsBy(db', query', source', window'),
                            window'.last)[cursor' - 1]
        /\ cursor' = window'.first \/ cursor' > window'.last \/ IsMark(db'.dat[cursor'])
  BY DEF FoundSoFar
<1>. QED
  BY <1>1, <1>3, <1>4, <1>5

-----------------------------------------------------------------------------
(* Every step keeps it.                                                      *)

\* A lookup begins with the catalog's record and no entry visited.
LEMMA BeginAnswering ==
    ASSUME Inv, NEW c \in Calls, Begin(c)
    PROVE  Answering'
<1>1. /\ pc' = "visit" /\ query' = c /\ source' = "HamCallDatIdx" /\ at' = 0
      /\ queue' = <<>> /\ db' = db /\ report' = Begun(db, c)
  BY DEF Begin, Begun
<1>2. IsDatabase(db)
  BY DatabasesAssumption DEF Inv, TypeOK
<1>3. Len(db.idx) \in Nat
  BY <1>2, DatabaseTypes
<1>4. Joining(EntryParts(db, c), Len(db.idx))[0] = <<>>
  BY <1>3, JoiningIs
<1>5. VisitingEntries'
  BY <1>1, <1>3, <1>4 DEF VisitingEntries, EntriesUntil
<1>. QED
  BY <1>1, <1>5 DEF Answering, AnsweringIdx

\* The entries between the last one and the next are none of the callsign.
LEMMA NextEntryReached ==
    ASSUME Inv, Answering, NEW i \in 1..Len(db.idx), NextEntry(i)
    PROVE  /\ report = Begun(db, query) /\ EntriesUntil(i - 1)
           /\ i \in EntriesOf(db, query) /\ at' = i
<1>1. /\ pc = "visit" /\ source = "HamCallDatIdx" /\ Busy
      /\ \A j \in EntriesOf(db, query) : j > at => i <= j
      /\ i \in EntriesOf(db, query) /\ i > at /\ at' = i
  BY DEF NextEntry, Busy
<1>2. VisitingEntries
  BY <1>1 DEF Answering, AnsweringIdx
<1>3. IsDatabase(db) /\ query \in Call /\ Len(db.idx) \in Nat /\ at \in Nat
  BY <1>1, BusyTypes
<1>. DEFINE k == i - 1
<1>4. k \in 0..Len(db.idx) /\ at \in 0..Len(db.idx) /\ at <= k
  BY <1>1, <1>2, <1>3 DEF VisitingEntries
<1>5. \A j \in EntriesOf(db, query) : j \in 1..Len(db.idx)
  BY DEF EntriesOf
<1>6. \A j \in EntriesOf(db, query) : ~(at < j /\ j <= k)
  BY <1>1, <1>3, <1>5
<1>. HIDE DEF k
<1>7. Joining(EntryParts(db, query), Len(db.idx))[k]
          = Joining(EntryParts(db, query), Len(db.idx))[at]
  BY <1>3, <1>4, <1>6, EntriesBetween
<1>8. EntriesUntil(k)
  BY <1>2, <1>7 DEF VisitingEntries, EntriesUntil
<1>. QED
  BY <1>1, <1>2, <1>8 DEF VisitingEntries, k

\* An entry's slice is what the parser is given, with nothing found in it.
LEMMA VisitEntryAnswering ==
    ASSUME Inv, Answering, NEW i \in 1..Len(db.idx), VisitEntry(i)
    PROVE  Answering'
<1>1. /\ NextEntry(i) /\ db.idx[i].offset <= Len(db.dat)
      /\ SliceEnd(db, i) >= db.idx[i].offset - 1
      /\ StartParse(EntryWindow(db, i))
      /\ UNCHANGED <<db, query, report, source, todo, queue, seen>>
  BY DEF VisitEntry, EntryWindow
<1>2. Busy /\ source = "HamCallDatIdx"
  BY <1>1 DEF NextEntry, Busy
<1>3. IsDatabase(db) /\ query \in Call /\ source \in Sources
  BY <1>2, BusyTypes
<1>4. /\ report = Begun(db, query) /\ EntriesUntil(i - 1)
      /\ i \in EntriesOf(db, query) /\ at' = i
  BY <1>1, NextEntryReached
<1>5. InFile(EntryWindow(db, i))
  BY <1>3, EntryPartsType
<1>6. EntryWindow(db, i).first <= EntryWindow(db, i).last + 1
  <2>1. /\ EntryWindow(db, i).first = db.idx[i].offset
        /\ EntryWindow(db, i).last = SliceEnd(db, i)
    BY DEF EntryWindow, Window
  <2>2. db.idx[i].offset \in Nat /\ SliceEnd(db, i) \in Nat
    BY <1>3, DatabaseTypes, SliceEndBounds
  <2>. QED
    BY <1>1, <2>1, <2>2
<1>7. pc' = "parse" /\ window' = EntryWindow(db, i) /\ FoundSoFar'
  BY <1>1, <1>3, <1>5, <1>6, StartParseFound
<1>8. ParsingEntry'
  BY <1>1, <1>4, <1>7 DEF ParsingEntry, EntriesUntil
<1>. QED
  BY <1>1, <1>2, <1>7, <1>8 DEF Answering, AnsweringIdx

\* A slice that cannot be had gives nothing.
LEMMA SkipEntryAnswering ==
    ASSUME Inv, Answering, NEW i \in 1..Len(db.idx), SkipEntry(i)
    PROVE  Answering'
<1>1. /\ NextEntry(i)
      /\ db.idx[i].offset > Len(db.dat) \/ SliceEnd(db, i) < db.idx[i].offset - 1
      /\ UNCHANGED <<db, pc, query, report, source, queue>>
  BY DEF SkipEntry
<1>2. Busy /\ source = "HamCallDatIdx" /\ pc = "visit"
  BY <1>1 DEF NextEntry, Busy
<1>3. /\ IsDatabase(db) /\ query \in Call /\ source \in Sources
      /\ Len(db.idx) \in Nat /\ queue \in Seq(Snapshot) /\ Len(db.dat) \in Nat
  BY <1>2, BusyTypes, DatabaseTypes
<1>4. /\ report = Begun(db, query) /\ EntriesUntil(i - 1)
      /\ i \in EntriesOf(db, query) /\ at' = i
  BY <1>1, NextEntryReached
<1>. DEFINE w == EntryWindow(db, i)
<1>5. InFile(w) /\ w.first = db.idx[i].offset /\ w.last = SliceEnd(db, i)
  BY <1>3, EntryPartsType DEF EntryWindow, Window
<1>6. db.idx[i].offset \in Nat \ {0}
  BY <1>3, DatabaseTypes
<1>7. EntryParts(db, query)[i] = <<>>
  <2>1. CASE db.idx[i].offset > Len(db.dat)
    <3>1. ~(db.idx[i].offset <= Len(db.dat))
      BY <1>3, <1>6, <2>1
    <3>. QED
      BY <3>1 DEF EntryParts
  <2>2. CASE SliceEnd(db, i) < db.idx[i].offset - 1
    <3>. HIDE DEF w
    <3>1. w.last \in 0..w.last /\ w.last < w.first
      BY <1>5, <1>6, <2>2 DEF InFile
    <3>2. Joining(SnapshotsBy(db, query, source, w), w.last)[w.last] = <<>>
      BY <1>3, <1>5, <3>1, BeforeWindow
    <3>3. SnapshotsIn(db, query, "HamCallDatIdx", w) = <<>>
      BY <1>2, <3>2 DEF SnapshotsIn, Joined
    <3>. QED
      BY <3>3 DEF EntryParts, w
  <2>. QED
    BY <1>1, <2>1, <2>2
<1>8. Joining(EntryParts(db, query), Len(db.idx))[i] = queue
  <2>1. i \in 0..Len(db.idx) /\ i # 0
    BY <1>3
  <2>2. Joining(EntryParts(db, query), Len(db.idx))[i] = queue \o EntryParts(db, query)[i]
    BY <1>3, <1>4, <2>1, JoiningIs DEF EntriesUntil
  <2>. QED
    BY <1>3, <1>7, <2>2, ConcatEmptySeq
<1>9. VisitingEntries'
  <2>1. i \in 0..Len(db.idx)
    BY <1>3
  <2>. QED
    BY <1>1, <1>4, <1>8, <2>1 DEF VisitingEntries, EntriesUntil
<1>. QED
  BY <1>1, <1>2, <1>9 DEF Answering, AnsweringIdx

\* Behind the last entry there is nothing of the callsign: all is queued.
LEMMA EntriesDoneAnswering ==
    ASSUME Inv, Answering, EntriesDone
    PROVE  Answering'
<1>1. /\ pc = "visit" /\ source = "HamCallDatIdx" /\ Busy /\ pc' = "merge"
      /\ \A i \in EntriesOf(db, query) : i <= at
      /\ UNCHANGED <<db, query, report, source, at, queue>>
  BY DEF EntriesDone, Busy
<1>2. VisitingEntries
  BY <1>1 DEF Answering, AnsweringIdx
<1>3. /\ IsDatabase(db) /\ query \in Call /\ Len(db.idx) \in Nat /\ at \in Nat
      /\ queue \in Seq(Snapshot)
  BY <1>1, BusyTypes
<1>4. FromEntries(db, query) = queue
  <2>. DEFINE n == Len(db.idx)
  <2>1. n \in 0..Len(db.idx) /\ at \in 0..Len(db.idx) /\ at <= n
    BY <1>2, <1>3 DEF VisitingEntries
  <2>2. \A j \in EntriesOf(db, query) : ~(at < j /\ j <= n)
    <3>1. \A j \in EntriesOf(db, query) : j \in Nat
      BY <1>3 DEF EntriesOf
    <3>. QED
      BY <1>1, <1>3, <3>1
  <2>. HIDE DEF n
  <2>3. Joining(EntryParts(db, query), Len(db.idx))[n]
            = Joining(EntryParts(db, query), Len(db.idx))[at]
    BY <1>3, <2>1, <2>2, EntriesBetween
  <2>. QED
    BY <1>2, <2>3 DEF VisitingEntries, EntriesUntil, FromEntries, Joined, n
<1>5. MergedSoFar(FromEntries(db, query))'
  <2>1. <<>> \in Seq(Snapshot) /\ FromEntries(db, query) = <<>> \o queue
    BY <1>3, <1>4, ConcatEmptySeq
  <2>2. report = MergedInto(Begun(db, query), <<>>)
    <3>. DEFINE r == Begun(db, query)
                s == <<>>
    <3>1. s \in Seq({0}) /\ 0 \in {0}
      OBVIOUS
    <3>2. MergedInto(r, <<>>) = r
      <4>. HIDE DEF r
      <4>. QED
        BY <3>1, MergedAppend
    <3>. QED
      BY <1>2, <3>2 DEF VisitingEntries
  <2>3. /\ FromEntries(db', query') = <<>> \o queue'
        /\ report' = MergedInto(Begun(db', query'), <<>>)
    BY <1>1, <2>1, <2>2
  <2>. QED
    BY <2>1, <2>3, Zenon DEF MergedSoFar
<1>. QED
  BY <1>1, <1>5 DEF Answering, AnsweringIdx, Busy

\* One segment further, the window gives what that segment does.
LEMMA ParseSegmentAnswering ==
    ASSUME Inv, Answering, ParseSegment
    PROVE  Answering'
<1>1. /\ pc = "parse" /\ Busy /\ ~ParseEnds /\ cursor' = NextSegment(window, cursor)
      /\ UNCHANGED <<db, pc, query, report, source, at, todo, queue, window, seen>>
  BY DEF ParseSegment, Busy
<1>2. /\ IsDatabase(db) /\ query \in Call /\ source \in Sources
      /\ source \in {"HamCallDatIdx", "HamCallHci"} /\ found \in Seq(Snapshot)
  BY <1>1, BusyTypes
<1>3. /\ InFile(window) /\ cursor \in Nat \ {0}
      /\ window.first <= cursor /\ cursor <= window.last + 1
  BY <1>1, ParseTypes
<1>4. /\ cursor \in 1..window.last /\ window.last \in Nat
      /\ CompleteOnly(window.attempt) => NextSegment(window, cursor) <= window.last
  <2>1. window.last \in Nat /\ cursor <= window.last
    BY <1>1, <1>3 DEF ParseEnds, InFile
  <2>2. NextSegment(window, cursor) \in Nat
    BY <1>2, <1>3, <2>1, NextSegmentBounds DEF InFile
  <2>. QED
    BY <1>1, <1>3, <2>1, <2>2 DEF ParseEnds
<1>5. /\ found = Joining(SnapshotsBy(db, query, source, window), window.last)[cursor - 1]
      /\ cursor = window.first \/ IsMark(db.dat[cursor])
  BY <1>1, <1>4 DEF Answering, FoundSoFar
<1>. DEFINE part == SnapshotsBy(db, query, source, window)[cursor]
<1>6. /\ Joining(SnapshotsBy(db, query, source, window), window.last)[cursor' - 1]
             = found \o part
      /\ cursor' <= window.last => IsMark(db.dat[cursor'])
  BY <1>1, <1>2, <1>3, <1>4, <1>5, SegmentStep
<1>7. found' = found \o part
  <2>. DEFINE s == Parsed(Segment, window.default, source)
  <2>1. Segment = SubSeq(db.dat, cursor, NextSegment(window, cursor) - 1)
    BY DEF Segment
  <2>2. part = IF SegmentMatches(Segment, window.default, query) THEN <<s>> ELSE <<>>
    BY <1>2, <1>3, <1>4, <1>5, <2>1, PartIs
  <2>3. CASE SegmentMatches(Segment, window.default, query)
    <3>1. s \in Snapshot
      <4>1. Segment \in Seq(Cell)
        <5>. DEFINE dat == db.dat
                    last == cursor' - 1
        <5>1. dat \in Seq(Cell) /\ Len(dat) \in Nat
          BY <1>2, DatabaseTypes
        <5>2. last \in Int /\ last <= Len(dat)
          BY <1>1, <1>2, <1>3, <1>4, <5>1, NextSegmentBounds DEF InFile
        <5>3. Segment = SubSeq(dat, cursor, last)
          BY <1>1 DEF Segment
        <5>. HIDE DEF dat, last
        <5>4. \A j \in cursor..last : dat[j] \in Cell
          BY <1>3, <5>1, <5>2, ElementOfSeq
        <5>. QED
          BY <1>3, <5>2, <5>3, <5>4, SubSeqProperties
      <4>. QED
        BY <1>2, <2>3, <4>1, ParsedType
    <3>2. found' = Append(found, s)
      BY <2>3 DEF ParseSegment
    <3>3. part = <<s>>
      BY <2>2, <2>3
    <3>. HIDE DEF s, part
    <3>. QED
      BY <1>2, <3>1, <3>2, <3>3, AppendIsConcat
  <2>4. CASE ~SegmentMatches(Segment, window.default, query)
    <3>1. found' = found /\ part = <<>>
      BY <2>2, <2>4 DEF ParseSegment
    <3>. HIDE DEF part
    <3>. QED
      BY <1>2, <3>1, ConcatEmptySeq
  <2>. QED
    BY <2>3, <2>4
<1>8. FoundSoFar'
  <2>1. cursor' \in Nat
    BY <1>1, <1>2, <1>3, <1>4, NextSegmentBounds DEF InFile
  <2>2. cursor' > window.last \/ IsMark(db.dat[cursor'])
    BY <1>4, <1>6, <2>1
  <2>3. found' = Joining(SnapshotsBy(db, query, source, window), window.last)[cursor' - 1]
    BY <1>6, <1>7
  <2>4. db' = db /\ query' = query /\ source' = source /\ window' = window
    BY <1>1
  <2>5. FoundSoFar' <=>
          /\ found' = Joining(SnapshotsBy(db', query', source', window'),
                            window'.last)[cursor' - 1]
          /\ cursor' = window'.first \/ cursor' > window'.last \/ IsMark(db'.dat[cursor'])
    BY DEF FoundSoFar
  <2>. QED
    BY <2>2, <2>3, <2>4, <2>5
<1>9. ParsingEntry => ParsingEntry'
  BY <1>1 DEF ParsingEntry, EntriesUntil
<1>10. ParsingPosting => ParsingPosting'
  BY <1>1 DEF ParsingPosting, AfterEntries
<1>. QED
  BY <1>1, <1>2, <1>8, <1>9, <1>10 DEF Answering, AnsweringIdx, AnsweringHci, Busy

\* When the loop is over, all of the window is found.
LEMMA FoundAll ==
    ASSUME Inv, Answering, pc = "parse", ParseEnds
    PROVE  found = SnapshotsIn(db, query, source, window)
<1>1. IsDatabase(db) /\ query \in Call /\ source \in Sources
  BY BusyTypes DEF Busy
<1>2. /\ InFile(window) /\ cursor \in Nat \ {0}
      /\ window.first <= cursor /\ cursor <= window.last + 1
  BY ParseTypes
<1>3. Joining(SnapshotsBy(db, query, source, window), window.last)[cursor - 1]
          = SnapshotsIn(db, query, source, window)
  BY <1>1, <1>2, WindowFinished DEF ParseEnds
<1>. QED
  BY <1>3 DEF Answering, FoundSoFar

\* Behind a posting that is this attempt.
LEMMA FoundAttempt ==
    ASSUME Inv, Answering, pc = "parse", ParseEnds, source = "HamCallHci"
    PROVE  ParsingPosting /\ found = Attempt(db, query, window.posting, window.attempt)
<1>1. ParsingPosting
  BY DEF Answering, AnsweringHci, Busy
<1>2. window = PostingWindow(db, window.posting, window.attempt)
  BY <1>1 DEF ParsingPosting
<1>3. found = SnapshotsIn(db, query, "HamCallHci", window)
  BY FoundAll
<1>. QED
  BY <1>1, <1>2, <1>3, Zenon DEF Attempt

\* The next attempt begins with none before it having found anything.
LEMMA WidenAnswering ==
    ASSUME Inv, Answering, Widen
    PROVE  Answering'
<1>1. /\ pc = "parse" /\ Busy /\ ParseEnds /\ source = "HamCallHci" /\ found = <<>>
      /\ window.attempt < Len(WindowLengths)
      /\ UNCHANGED <<db, query, report, source, at, todo, queue, seen>>
  BY DEF Widen, Busy
<1>2. IsDatabase(db) /\ query \in Call /\ source \in Sources
  BY <1>1, BusyTypes
<1>3. /\ window.posting \in Nat \ {0} /\ window.attempt \in Nat
      /\ Len(WindowLengths) \in Nat
  BY <1>1, ParseTypes
<1>4. ParsingPosting /\ Attempt(db, query, window.posting, window.attempt) = <<>>
  BY <1>1, FoundAttempt
<1>. DEFINE n == window.attempt + 1
            offset == window.posting
            w == PostingWindow(db, offset, n)
<1>5. n \in 0..Len(WindowLengths) /\ n # 0 /\ n \in Nat
  BY <1>1, <1>3
<1>6. StartParse(w)
  <2>. DEFINE p == PositionsFrom(db, offset, WindowLengths[n])
  <2>1. w = Window(p[1], p[2], NoDefault, offset, n)
    <3>. HIDE DEF n, offset, p
    <3>1. PostingWindow(db, offset, n) =
             LET r == IF n = 0 THEN RecordAt(db, offset)
                      ELSE PositionsFrom(db, offset, WindowLengths[n])
             IN  Window(r[1], r[2], NoDefault, offset, n)
      BY DEF PostingWindow
    <3>. QED
      BY <1>5, <3>1 DEF p
  <2>2. StartParse(Window(p[1], p[2], NoDefault, offset, n))
    BY DEF Widen
  <2>. QED
    BY <2>1, <2>2
<1>7. /\ InFile(w) /\ w.first <= w.last + 1 /\ w.posting = offset /\ w.attempt = n
  <2>. HIDE DEF n, offset
  <2>1. offset \in Nat \ {0}
    BY <1>3 DEF offset
  <2>. QED
    BY <1>2, <1>5, <2>1, PostingWindowInFile
<1>8. \A k \in 0..(n - 1) : Attempt(db, query, offset, k) = <<>>
  <2>1. \A k \in 0..(n - 1) : k \in 0..(window.attempt - 1) \/ k = window.attempt
    BY <1>3
  <2>2. \A k \in 0..(window.attempt - 1) : Attempt(db, query, offset, k) = <<>>
    BY <1>4 DEF ParsingPosting
  <2>. HIDE DEF n
  <2>. QED
    BY <1>4, <2>1, <2>2
<1>9. PICK done \in Seq(Nat \ {0}) :
        /\ Append(done, offset) \o todo = PostingsUntil(db, query, at)
        /\ offset \notin OffsetsIn(done)
        /\ seen = OffsetsIn(done) \cup {offset}
        /\ queue = FromPostings(db, query, done)
  BY <1>4 DEF ParsingPosting
<1>. HIDE DEF w, n, offset
<1>10. pc' = "parse" /\ window' = w /\ FoundSoFar'
  BY <1>1, <1>2, <1>6, <1>7, StartParseFound
<1>11. ParsingPosting'
  <2>1. AfterEntries'
    BY <1>1, <1>4 DEF ParsingPosting, AfterEntries
  <2>2. \E before \in Seq(Nat \ {0}) :
          /\ Append(before, offset) \o todo' = PostingsUntil(db', query', at')
          /\ offset \notin OffsetsIn(before)
          /\ seen' = OffsetsIn(before) \cup {offset}
          /\ queue' = FromPostings(db', query', before)
    BY <1>1, <1>9, Zenon
  <2>3. window'.posting = offset /\ window'.attempt = n
    BY <1>7, <1>10
  <2>4. window' = PostingWindow(db', offset, n)
    BY <1>1, <1>10 DEF w
  <2>5. \A k \in 0..(n - 1) : Attempt(db', query', offset, k) = <<>>
    BY <1>1, <1>8
  <2>. QED
    BY <2>1, <2>2, <2>3, <2>4, <2>5 DEF ParsingPosting
<1>. QED
  BY <1>1, <1>10, <1>11 DEF Answering, AnsweringHci

\* What the window gave is queued behind what came before.
LEMMA ParseDoneAnswering ==
    ASSUME Inv, Answering, ParseDone
    PROVE  Answering'
<1>1. /\ pc = "parse" /\ Busy /\ ParseEnds /\ pc' = "visit" /\ queue' = queue \o found
      /\ UNCHANGED <<db, query, report, source, at, todo, seen>>
  BY DEF ParseDone, Busy
<1>2. /\ IsDatabase(db) /\ query \in Call /\ Len(db.idx) \in Nat
      /\ source \in {"HamCallDatIdx", "HamCallHci"}
      /\ queue \in Seq(Snapshot) /\ todo \in Seq(Nat \ {0})
  BY <1>1, BusyTypes
<1>3. CASE source = "HamCallDatIdx"
  <2>1. ParsingEntry
    BY <1>1, <1>3 DEF Answering, AnsweringIdx
  <2>2. found = EntryParts(db, query)[at]
    <3>1. found = SnapshotsIn(db, query, "HamCallDatIdx", EntryWindow(db, at))
      BY <1>1, <1>3, <2>1, FoundAll DEF ParsingEntry
    <3>. QED
      BY <2>1, <3>1 DEF ParsingEntry, EntryParts
  <2>3. Joining(EntryParts(db, query), Len(db.idx))[at] = queue \o found
    <3>1. at \in 0..Len(db.idx) /\ at # 0
      BY <1>2, <2>1 DEF ParsingEntry
    <3>. QED
      BY <1>2, <2>1, <2>2, <3>1, JoiningIs DEF ParsingEntry, EntriesUntil
  <2>4. VisitingEntries'
    <3>1. at \in 0..Len(db.idx)
      BY <1>2, <2>1 DEF ParsingEntry
    <3>. QED
      BY <1>1, <2>1, <2>3, <3>1 DEF VisitingEntries, ParsingEntry, EntriesUntil
  <2>. QED
    BY <1>1, <1>3, <2>4 DEF Answering, AnsweringIdx
<1>4. CASE source = "HamCallHci"
  <2>. DEFINE n == window.attempt
              offset == window.posting
  <2>1. ParsingPosting /\ found = Attempt(db, query, offset, n)
    BY <1>1, <1>4, FoundAttempt
  <2>2. offset \in Nat \ {0} /\ n \in 0..Len(WindowLengths)
    BY <1>1, ParseTypes
  <2>3. FromPosting(db, query, offset) = found
    <3>1. found # <<>> \/ n = Len(WindowLengths)
      BY <1>4 DEF ParseDone
    <3>2. \A k \in 0..(n - 1) : Attempt(db, query, offset, k) = <<>>
      BY <2>1 DEF ParsingPosting
    <3>. HIDE DEF n, offset
    <3>. QED
      BY <2>1, <2>2, <3>1, <3>2, SearchEnds
  <2>4. PICK done \in Seq(Nat \ {0}) :
          /\ Append(done, offset) \o todo = PostingsUntil(db, query, at)
          /\ offset \notin OffsetsIn(done)
          /\ seen = OffsetsIn(done) \cup {offset}
          /\ queue = FromPostings(db, query, done)
    BY <2>1 DEF ParsingPosting
  <2>. HIDE DEF offset, n
  <2>5. /\ FromPostings(db, query, Append(done, offset)) = queue \o found
        /\ OffsetsIn(Append(done, offset)) = seen
    BY <1>2, <2>2, <2>3, <2>4, FromPostingsAppend
  <2>6. Append(done, offset) \in Seq(Nat \ {0})
    BY <2>2, AppendProperties
  <2>7. VisitingPostings'
    <3>1. AfterEntries'
      BY <1>1, <2>1 DEF ParsingPosting, AfterEntries
    <3>2. \E all \in Seq(Nat \ {0}) :
            /\ all \o todo' = PostingsUntil(db', query', at')
            /\ seen' = OffsetsIn(all)
            /\ queue' = FromPostings(db', query', all)
      BY <1>1, <2>4, <2>5, <2>6, Zenon
    <3>. QED
      BY <3>1, <3>2, Zenon DEF VisitingPostings
  <2>. QED
    BY <1>1, <1>4, <2>7 DEF Answering, AnsweringHci
<1>. QED
  BY <1>2, <1>3, <1>4

\* The postings of the next year come behind those visited.
LEMMA NextYearAnswering ==
    ASSUME Inv, Answering, NextYear
    PROVE  Answering'
<1>1. /\ pc = "visit" /\ Busy /\ source = "HamCallHci" /\ todo = <<>>
      /\ at < Len(db.years)
      /\ at' = at + 1 /\ todo' = PostingsOf(db, query, db.years[at'])
      /\ UNCHANGED <<db, pc, query, report, source, queue, seen>>
  BY DEF NextYear, Busy
<1>2. VisitingPostings
  BY <1>1 DEF Answering, AnsweringHci
<1>3. IsDatabase(db) /\ at \in Nat /\ Len(db.years) \in Nat
  BY <1>1, BusyTypes
<1>4. PICK done \in Seq(Nat \ {0}) :
        /\ done \o todo = PostingsUntil(db, query, at)
        /\ seen = OffsetsIn(done)
        /\ queue = FromPostings(db, query, done)
  BY <1>2 DEF VisitingPostings
<1>5. done = PostingsUntil(db, query, at)
  BY <1>1, <1>4, ConcatEmptySeq
<1>6. at' \in 1..Len(db.years) /\ at' - 1 = at /\ at' \in 0..Len(db.years)
  BY <1>1, <1>3
<1>7. PostingsUntil(db, query, at') = done \o todo'
  BY <1>1, <1>3, <1>5, <1>6, PostingsUntilStep
<1>8. VisitingPostings'
  <2>1. AfterEntries'
    BY <1>1, <1>2, <1>6 DEF VisitingPostings, AfterEntries
  <2>2. \E all \in Seq(Nat \ {0}) :
          /\ all \o todo' = PostingsUntil(db', query', at')
          /\ seen' = OffsetsIn(all)
          /\ queue' = FromPostings(db', query', all)
    BY <1>1, <1>4, <1>7, Zenon
  <2>. QED
    BY <2>1, <2>2, Zenon DEF VisitingPostings
<1>. QED
  BY <1>1, <1>8 DEF Answering, AnsweringHci

\* A new offset is parsed from its record on.
LEMMA VisitPostingAnswering ==
    ASSUME Inv, Answering, VisitPosting
    PROVE  Answering'
<1>1. /\ pc = "visit" /\ Busy /\ source = "HamCallHci" /\ todo # <<>>
      /\ Head(todo) \notin seen /\ seen' = seen \cup {Head(todo)} /\ todo' = Tail(todo)
      /\ UNCHANGED <<db, query, report, source, at, queue>>
  BY DEF VisitPosting, Busy
<1>2. VisitingPostings
  BY <1>1 DEF Answering, AnsweringHci
<1>3. /\ IsDatabase(db) /\ query \in Call /\ source \in Sources
      /\ todo \in Seq(Nat \ {0})
  BY <1>1, BusyTypes
<1>4. PICK done \in Seq(Nat \ {0}) :
        /\ done \o todo = PostingsUntil(db, query, at)
        /\ seen = OffsetsIn(done)
        /\ queue = FromPostings(db, query, done)
  BY <1>2 DEF VisitingPostings
<1>. DEFINE offset == Head(todo)
            w == PostingWindow(db, offset, 0)
<1>5. /\ offset \in Nat \ {0}
      /\ Append(done, offset) \o Tail(todo) = PostingsUntil(db, query, at)
  <2>. DEFINE S == Nat \ {0}
  <2>1. done \in Seq(S) /\ todo \in Seq(S) /\ todo # <<>>
    BY <1>1, <1>3
  <2>. HIDE DEF S
  <2>2. offset \in S /\ Append(done, offset) \o Tail(todo) = done \o todo
    BY <2>1, HeadMoves
  <2>. QED
    BY <1>4, <2>2 DEF S
<1>6. StartParse(w)
  BY Zenon DEF VisitPosting, PostingWindow
<1>. HIDE DEF offset
<1>7. InFile(w) /\ w.first <= w.last + 1 /\ w.posting = offset /\ w.attempt = 0
  <2>1. 0 \in 0..Len(WindowLengths)
    BY WindowsAssumption
  <2>. QED
    BY <1>3, <1>5, <2>1, PostingWindowInFile
<1>. HIDE DEF w
<1>8. pc' = "parse" /\ window' = w /\ FoundSoFar'
  BY <1>1, <1>3, <1>6, <1>7, StartParseFound
<1>9. ParsingPosting'
  <2>1. AfterEntries'
    BY <1>1, <1>2 DEF VisitingPostings, AfterEntries
  <2>2. \E before \in Seq(Nat \ {0}) :
          /\ Append(before, offset) \o todo' = PostingsUntil(db', query', at')
          /\ offset \notin OffsetsIn(before)
          /\ seen' = OffsetsIn(before) \cup {offset}
          /\ queue' = FromPostings(db', query', before)
    <3>1. /\ offset \notin seen /\ seen' = seen \cup {offset}
      BY <1>1 DEF offset
    <3>. QED
      BY <1>1, <1>4, <1>5, <3>1, Zenon
  <2>3. window'.posting = offset /\ window'.attempt = 0
    BY <1>7, <1>8
  <2>4. window' = PostingWindow(db', offset, 0)
    BY <1>1, <1>8 DEF w
  <2>5. \A n \in 0..(0 - 1) : Attempt(db', query', offset, n) = <<>>
    OBVIOUS
  <2>. QED
    BY <2>1, <2>2, <2>3, <2>4, <2>5 DEF ParsingPosting
<1>. QED
  BY <1>1, <1>8, <1>9 DEF Answering, AnsweringHci

\* An offset that was there before adds nothing.
LEMMA SkipPostingAnswering ==
    ASSUME Inv, Answering, SkipPosting
    PROVE  Answering'
<1>1. /\ pc = "visit" /\ Busy /\ source = "HamCallHci" /\ todo # <<>>
      /\ Head(todo) \in seen /\ todo' = Tail(todo)
      /\ UNCHANGED <<db, pc, query, report, source, at, queue, seen>>
  BY DEF SkipPosting, Busy
<1>2. VisitingPostings
  BY <1>1 DEF Answering, AnsweringHci
<1>3. IsDatabase(db) /\ query \in Call /\ todo \in Seq(Nat \ {0})
  BY <1>1, BusyTypes
<1>4. PICK done \in Seq(Nat \ {0}) :
        /\ done \o todo = PostingsUntil(db, query, at)
        /\ seen = OffsetsIn(done)
        /\ queue = FromPostings(db, query, done)
  BY <1>2 DEF VisitingPostings
<1>. DEFINE offset == Head(todo)
<1>5. /\ offset \in Nat \ {0} /\ Append(done, offset) \in Seq(Nat \ {0})
      /\ Append(done, offset) \o Tail(todo) = PostingsUntil(db, query, at)
  <2>. DEFINE S == Nat \ {0}
  <2>1. done \in Seq(S) /\ todo \in Seq(S) /\ todo # <<>>
    BY <1>1, <1>3
  <2>. HIDE DEF S
  <2>2. /\ offset \in S /\ Append(done, offset) \in Seq(S)
        /\ Append(done, offset) \o Tail(todo) = done \o todo
    BY <2>1, HeadMoves
  <2>. QED
    BY <1>4, <2>2 DEF S
<1>6. offset \in seen
  BY <1>1
<1>. HIDE DEF offset
<1>7. /\ FromPostings(db, query, Append(done, offset)) = queue
      /\ OffsetsIn(Append(done, offset)) = seen
  <2>1. OffsetsIn(Append(done, offset)) = OffsetsIn(done) \cup {offset}
        /\ FromPostings(db, query, Append(done, offset)) = FromPostings(db, query, done)
    BY <1>3, <1>4, <1>5, <1>6, FromPostingsAppend
  <2>. QED
    BY <1>4, <1>6, <2>1
<1>8. VisitingPostings'
  <2>1. AfterEntries'
    BY <1>1, <1>2 DEF VisitingPostings, AfterEntries
  <2>2. \E all \in Seq(Nat \ {0}) :
          /\ all \o todo' = PostingsUntil(db', query', at')
          /\ seen' = OffsetsIn(all)
          /\ queue' = FromPostings(db', query', all)
    BY <1>1, <1>5, <1>7, Zenon
  <2>. QED
    BY <2>1, <2>2, Zenon DEF VisitingPostings
<1>. QED
  BY <1>1, <1>8 DEF Answering, AnsweringHci

\* With the last year the queue is all that the postings give.
LEMMA PostingsDoneAnswering ==
    ASSUME Inv, Answering, PostingsDone
    PROVE  Answering'
<1>1. /\ pc = "visit" /\ Busy /\ source = "HamCallHci" /\ todo = <<>>
      /\ at = Len(db.years) /\ pc' = "merge"
      /\ UNCHANGED <<db, query, report, source, at, queue>>
  BY DEF PostingsDone, Busy
<1>2. VisitingPostings
  BY <1>1 DEF Answering, AnsweringHci
<1>3. IsDatabase(db) /\ query \in Call
  BY <1>1, BusyTypes
<1>4. PICK done \in Seq(Nat \ {0}) :
        /\ done \o todo = PostingsUntil(db, query, at)
        /\ queue = FromPostings(db, query, done)
  BY <1>2 DEF VisitingPostings
<1>5. done = PostingsUntil(db, query, Len(db.years))
  BY <1>1, <1>4, ConcatEmptySeq
<1>6. Everything(db, query) = FromEntries(db, query) \o queue
  BY <1>4, <1>5 DEF Everything
<1>7. FromEntries(db, query) \in Seq(Snapshot)
  BY <1>3, EntryPartsType
<1>8. MergedSoFar(Everything(db, query))'
  <2>1. /\ Everything(db', query') = FromEntries(db, query) \o queue'
        /\ report' = MergedInto(Begun(db', query'), FromEntries(db, query))
    BY <1>1, <1>2, <1>6 DEF VisitingPostings, AfterEntries
  <2>. QED
    BY <1>7, <2>1, Zenon DEF MergedSoFar
<1>. QED
  BY <1>1, <1>8 DEF Answering, AnsweringHci

\* The head of the queue is merged in last.
LEMMA MergeHead ==
    ASSUME queue \in Seq(Snapshot), NEW all, MergedSoFar(all), MergeNext
    PROVE  \E before \in Seq(Snapshot) :
               /\ all = before \o queue'
               /\ report' = MergedInto(Begun(db, query), before)
<1>1. PICK before \in Seq(Snapshot) :
        all = before \o queue /\ report = MergedInto(Begun(db, query), before)
  BY DEF MergedSoFar
<1>2. queue # <<>> /\ queue' = Tail(queue) /\ report' = Absorb(report, Head(queue))
  BY DEF MergeNext
<1>3. /\ Append(before, Head(queue)) \in Seq(Snapshot) /\ Head(queue) \in Snapshot
      /\ Append(before, Head(queue)) \o Tail(queue) = before \o queue
  BY <1>2, HeadMoves
<1>4. MergedInto(Begun(db, query), Append(before, Head(queue))) = report'
  BY <1>1, <1>2, <1>3, MergedAppend
<1>. QED
  BY <1>1, <1>2, <1>3, <1>4, Zenon

\* Merging moves the head of the queue to the end of what is merged.
LEMMA MergeNextAnswering ==
    ASSUME Inv, Answering, MergeNext
    PROVE  Answering'
<1>1. pc = "merge" /\ Busy /\ UNCHANGED <<db, pc, query, source>>
  BY DEF MergeNext, Busy
<1>2. queue \in Seq(Snapshot) /\ source \in {"HamCallDatIdx", "HamCallHci"}
  BY <1>1, BusyTypes
<1>3. ASSUME NEW all, MergedSoFar(all)
      PROVE  \E before \in Seq(Snapshot) :
                 /\ all = before \o queue'
                 /\ report' = MergedInto(Begun(db', query'), before)
  BY <1>1, <1>2, <1>3, MergeHead
<1>4. CASE source = "HamCallDatIdx"
  <2>1. MergedSoFar(FromEntries(db, query))
    BY <1>1, <1>4 DEF Answering, AnsweringIdx
  <2>2. MergedSoFar(FromEntries(db, query))'
    BY <1>1, <1>3, <2>1 DEF MergedSoFar
  <2>. QED
    BY <1>1, <1>4, <2>2 DEF Answering, AnsweringIdx
<1>5. CASE source = "HamCallHci"
  <2>1. MergedSoFar(Everything(db, query))
    BY <1>1, <1>5 DEF Answering, AnsweringHci
  <2>2. MergedSoFar(Everything(db, query))'
    BY <1>1, <1>3, <2>1 DEF MergedSoFar
  <2>. QED
    BY <1>1, <1>5, <2>2 DEF Answering, AnsweringHci
<1>. QED
  BY <1>2, <1>4, <1>5

\* The HCI begins with the entries merged and no offset seen.
LEMMA TurnToHciAnswering ==
    ASSUME Inv, Answering, TurnToHci
    PROVE  Answering'
<1>1. /\ pc = "merge" /\ Busy /\ queue = <<>> /\ source = "HamCallDatIdx"
      /\ pc' = "visit" /\ source' = "HamCallHci" /\ at' = 0
      /\ todo' = PostingsOf(db, query, NoYear) /\ queue' = <<>> /\ seen' = {}
      /\ UNCHANGED <<db, query, report>>
  BY DEF TurnToHci, StartHci, Busy
<1>2. MergedSoFar(FromEntries(db, query))
  BY <1>1 DEF Answering, AnsweringIdx
<1>3. IsDatabase(db) /\ query \in Call /\ Len(db.years) \in Nat
  BY <1>1, BusyTypes
<1>4. report = MergedInto(Begun(db, query), FromEntries(db, query))
  <2>1. PICK before \in Seq(Snapshot) :
          /\ FromEntries(db, query) = before \o queue
          /\ report = MergedInto(Begun(db, query), before)
    BY <1>2 DEF MergedSoFar
  <2>2. FromEntries(db, query) = before
    BY <1>1, <2>1, ConcatEmptySeq
  <2>. QED
    BY <2>1, <2>2
<1>. DEFINE none == <<>>
<1>5. none \in Seq(Nat \ {0}) /\ OffsetsIn(none) = {}
  BY DEF OffsetsIn
<1>6. none \o todo' = PostingsUntil(db, query, 0)
  <2>1. todo' \in Seq(Nat \ {0})
    BY <1>1, <1>3, PostingsType
  <2>2. PostingsUntil(db, query, 0) = todo'
    BY <1>1, <1>3, PostingsUntilStep
  <2>. QED
    BY <2>1, <2>2, ConcatEmptySeq
<1>7. FromPostings(db, query, none) = <<>>
  <2>1. Len(none) = 0
    OBVIOUS
  <2>2. FromPostings(db, query, none) = Joining(PostingParts(db, query, none), 0)[0]
    BY <2>1 DEF FromPostings, Joined
  <2>. QED
    BY <2>2, JoiningIs
<1>8. VisitingPostings'
  <2>1. AfterEntries'
    BY <1>1, <1>3, <1>4 DEF AfterEntries
  <2>2. \E done \in Seq(Nat \ {0}) :
          /\ done \o todo' = PostingsUntil(db', query', at')
          /\ seen' = OffsetsIn(done)
          /\ queue' = FromPostings(db', query', done)
    <3>. HIDE DEF none
    <3>1. /\ none \o todo' = PostingsUntil(db', query', at')
          /\ seen' = OffsetsIn(none)
          /\ queue' = FromPostings(db', query', none)
      BY <1>1, <1>5, <1>6, <1>7
    <3>. QED
      BY <1>5, <3>1, Zenon
  <2>. QED
    BY <2>1, <2>2, Zenon DEF VisitingPostings
<1>. QED
  BY <1>1, <1>8 DEF Answering, AnsweringHci

\* Where no lookup is under way nothing is claimed.
LEMMA IdleAnswering == pc' = "idle" => Answering'
BY DEF Answering, Busy

\* Nothing that it is about changes.
LEMMA StutterAnswering == Answering /\ UNCHANGED vars => Answering'
<1>. SUFFICES ASSUME Answering, UNCHANGED vars PROVE Answering'
  OBVIOUS
<1>1. UNCHANGED <<db, pc, query, report, source, at, todo, queue, window, cursor,
                  found, seen>>
  BY DEF vars
<1>2. (pc = "parse" => FoundSoFar)'
  BY <1>1 DEF Answering, FoundSoFar
<1>3. (VisitingEntries => VisitingEntries') /\ (ParsingEntry => ParsingEntry')
  BY <1>1 DEF VisitingEntries, ParsingEntry, EntriesUntil
<1>4. (VisitingPostings => VisitingPostings') /\ (ParsingPosting => ParsingPosting')
  BY <1>1 DEF VisitingPostings, ParsingPosting, AfterEntries
<1>5. /\ MergedSoFar(FromEntries(db, query)) => MergedSoFar(FromEntries(db, query))'
      /\ MergedSoFar(Everything(db, query)) => MergedSoFar(Everything(db, query))'
  BY <1>1 DEF MergedSoFar
<1>. QED
  BY <1>1, <1>2, <1>3, <1>4, <1>5 DEF Answering, AnsweringIdx, AnsweringHci, Busy

-----------------------------------------------------------------------------
(* What is returned.                                                         *)

\* Entries of different vintages have one order: at the first position where two
\* arrangements differ, the entry of each comes later in the other.
LEMMA SortUnique ==
    ASSUME NEW h \in Seq(Snapshot), NEW x \in Arrangements(h), NEW y \in Arrangements(h),
           OldestFirst(x), OldestFirst(y),
           \A i, j \in 1..Len(h) : h[i].vintage = h[j].vintage => i = j
    PROVE  x = y
<1>. DEFINE n == Len(h)
<1>1. n \in Nat /\ DOMAIN h = 1..n /\ \A i \in 1..n : h[i].vintage \in Nat
  <2>1. \A i \in 1..n : h[i] \in Snapshot
    BY ElementOfSeq
  <2>. QED
    BY <2>1, SnapshotVintage
<1>2. PICK o \in Bijection(1..n, 1..n) : x = [i \in 1..n |-> h[o[i]]]
  BY <1>1 DEF Arrangements
<1>3. PICK p \in Bijection(1..n, 1..n) : y = [i \in 1..n |-> h[p[i]]]
  BY <1>1 DEF Arrangements
<1>. HIDE DEF n
<1>4. /\ o \in [1..n -> 1..n] /\ p \in [1..n -> 1..n]
      /\ \A i, j \in 1..n : o[i] = o[j] => i = j
      /\ \A i, j \in 1..n : p[i] = p[j] => i = j
      /\ \A k \in 1..n : \E j \in 1..n : o[j] = k
      /\ \A k \in 1..n : \E j \in 1..n : p[j] = k
  BY <1>2, <1>3 DEF Bijection, Injection, Surjection, IsInjective
<1>5. /\ \A i, j \in 1..n : i < j => h[o[i]].vintage <= h[o[j]].vintage
      /\ \A i, j \in 1..n : i < j => h[p[i]].vintage <= h[p[j]].vintage
  BY <1>2, <1>3 DEF OldestFirst
<1>. DEFINE bad == {i \in 1..n : o[i] # p[i]}
<1>6. bad = {}
  <2>1. SUFFICES ASSUME bad # {} PROVE FALSE
    OBVIOUS
  <2>2. bad \in SUBSET Nat
    BY <1>1
  <2>3. PICK k \in bad : \A i \in bad : k <= i
    <3>. HIDE DEF bad
    <3>. QED
      BY <2>1, <2>2, LeastNatural
  <2>4. k \in 1..n /\ o[k] # p[k] /\ o[k] \in 1..n /\ p[k] \in 1..n
    BY <1>4
  <2>5. \A i \in 1..n : i < k => o[i] = p[i]
    <3>. SUFFICES ASSUME NEW i \in 1..n, i < k, o[i] # p[i] PROVE FALSE
      OBVIOUS
    <3>1. i \in bad
      OBVIOUS
    <3>. QED
      BY <1>1, <2>3, <2>4, <3>1
  <2>6. PICK j \in 1..n : p[j] = o[k]
    BY <1>4, <2>4
  <2>7. PICK l \in 1..n : o[l] = p[k]
    BY <1>4, <2>4
  <2>8. k < j
    <3>1. j # k
      BY <2>4, <2>6
    <3>2. ~(j < k)
      <4>1. SUFFICES ASSUME j < k PROVE FALSE
        OBVIOUS
      <4>2. o[j] = o[k]
        BY <2>5, <2>6, <4>1
      <4>. QED
        BY <1>4, <2>4, <3>1, <4>2
    <3>. QED
      BY <1>1, <2>4, <3>1, <3>2
  <2>9. k < l
    <3>1. l # k
      BY <2>4, <2>7
    <3>2. ~(l < k)
      <4>1. SUFFICES ASSUME l < k PROVE FALSE
        OBVIOUS
      <4>2. p[l] = p[k]
        BY <2>5, <2>7, <4>1
      <4>. QED
        BY <1>4, <2>4, <3>1, <4>2
    <3>. QED
      BY <1>1, <2>4, <3>1, <3>2
  <2>10. h[p[k]].vintage <= h[o[k]].vintage
    BY <1>5, <2>4, <2>6, <2>8
  <2>11. h[o[k]].vintage <= h[p[k]].vintage
    BY <1>5, <2>4, <2>7, <2>9
  <2>12. h[o[k]].vintage = h[p[k]].vintage
    BY <1>1, <2>4, <2>10, <2>11
  <2>13. o[k] = p[k]
    BY <2>4, <2>12 DEF n
  <2>. QED
    BY <2>4, <2>13
<1>7. \A i \in 1..n : o[i] = p[i]
  BY <1>6
<1>. QED
  BY <1>2, <1>3, <1>7

\* The sorted history is the one of the report, and the report is everything that
\* the indexes lead to.
LEMMA ReturnAnswers ==
    ASSUME Inv, Answering, Return
    PROVE  answer' = AllReports[db][query] /\ query \in Calls /\ db' = db
<1>1. /\ pc = "merge" /\ Busy /\ queue = <<>> /\ source = "HamCallHci" /\ db' = db
  BY DEF Return, Busy
<1>2. query \in Calls /\ IsDatabase(db) /\ db \in Databases
  BY <1>1, BusyTypes DEF Inv, TypeOK
<1>3. report = Merged(db, query)
  <2>1. PICK before \in Seq(Snapshot) :
          /\ Everything(db, query) = before \o queue
          /\ report = MergedInto(Begun(db, query), before)
    BY <1>1 DEF Answering, AnsweringHci, MergedSoFar
  <2>2. Everything(db, query) = before
    BY <1>1, <2>1, ConcatEmptySeq
  <2>. QED
    BY <2>1, <2>2 DEF Merged
<1>. DEFINE h == report.history
<1>4. /\ h \in Seq(Snapshot)
      /\ \A i, j \in 1..Len(h) : h[i].vintage = h[j].vintage => i = j
  BY <1>1 DEF Inv, TypeOK, Report, OneEntryPerVintage
<1>5. PICK order \in Bijection(DOMAIN h, DOMAIN h) :
        /\ \A i, j \in DOMAIN h : i < j => h[order[i]].vintage <= h[order[j]].vintage
        /\ answer' = [query |-> query, status |-> Status(report),
                      current |-> report.current,
                      history |-> [i \in DOMAIN h |-> h[order[i]]]]
  <2>1. \E order \in Bijection(DOMAIN h, DOMAIN h) :
          LET sorted == [i \in DOMAIN h |-> h[order[i]]]
          IN  /\ \A i, j \in DOMAIN h : i < j => sorted[i].vintage <= sorted[j].vintage
              /\ answer' = [query |-> query, status |-> Status(report),
                            current |-> report.current, history |-> sorted]
    BY DEF Return
  <2>. HIDE DEF h
  <2>. QED
    BY <2>1
<1>. DEFINE sorted == [i \in DOMAIN h |-> h[order[i]]]
<1>6. sorted \in Arrangements(h) /\ OldestFirst(sorted)
  <2>. HIDE DEF h
  <2>1. sorted \in Arrangements(h)
    BY <1>5 DEF Arrangements
  <2>2. OldestFirst(sorted)
    BY <1>5 DEF OldestFirst
  <2>. QED
    BY <2>1, <2>2
<1>. HIDE DEF h, sorted
<1>7. ByVintage(h) \in Arrangements(h) /\ OldestFirst(ByVintage(h))
  BY <1>6, Zenon DEF ByVintage
<1>8. ByVintage(h) = sorted
  BY <1>4, <1>6, <1>7, SortUnique
<1>9. answer' = [query |-> query, status |-> Status(report),
                 current |-> report.current, history |-> sorted]
  BY <1>5 DEF sorted
<1>10. answer' = LookupReport(db, query)
  BY <1>3, <1>8, <1>9, Zenon DEF LookupReport, h
<1>. QED
  BY <1>1, <1>2, <1>10, Zenon DEF AllReports

-----------------------------------------------------------------------------
(* The refinement.                                                           *)

\* Inv and Answering together are kept by every step.
LEMMA AnsweringStep == Inv /\ Answering /\ [Next]_vars => Answering'
<1>. SUFFICES ASSUME Inv, Answering, [Next]_vars PROVE Answering'
  OBVIOUS
<1>1. CASE Reject \/ Return
  <2>1. pc' = "idle"
    BY <1>1 DEF Reject, Return
  <2>. QED
    BY <2>1, IdleAnswering
<1>2. CASE \E c \in Calls : Begin(c)
  BY <1>2, BeginAnswering
<1>3. CASE \E i \in 1..Len(db.idx) : VisitEntry(i) \/ SkipEntry(i)
  BY <1>3, VisitEntryAnswering, SkipEntryAnswering
<1>4. CASE EntriesDone \/ PostingsDone
  BY <1>4, EntriesDoneAnswering, PostingsDoneAnswering
<1>5. CASE NextYear
  BY <1>5, NextYearAnswering
<1>6. CASE VisitPosting
  BY <1>6, VisitPostingAnswering
<1>7. CASE SkipPosting
  BY <1>7, SkipPostingAnswering
<1>8. CASE ParseSegment
  BY <1>8, ParseSegmentAnswering
<1>9. CASE Widen
  BY <1>9, WidenAnswering
<1>10. CASE ParseDone
  BY <1>10, ParseDoneAnswering
<1>11. CASE MergeNext
  BY <1>11, MergeNextAnswering
<1>12. CASE TurnToHci
  BY <1>12, TurnToHciAnswering
<1>13. CASE UNCHANGED vars
  BY <1>13, StutterAnswering
<1>. QED
  BY <1>1, <1>2, <1>3, <1>4, <1>5, <1>6, <1>7, <1>8, <1>9, <1>10, <1>11, <1>12,
     <1>13 DEF Next, Step

\* A step answers one callsign, refuses one, or is not seen.
LEMMA StepIsServed ==
    ASSUME Inv, Answering, [Next]_vars
    PROVE  [Service!Refuse \/ \E c \in Calls : Service!Answer(c)]_(Service!serviceVars)
<1>1. CASE Reject
  BY <1>1 DEF Reject, Service!Refuse
<1>2. CASE Return
  BY <1>2, ReturnAnswers DEF Service!Answer
<1>3. CASE UNCHANGED <<db, answer>>
  BY <1>3 DEF Service!serviceVars
<1>4. (\E c \in Calls : Begin(c)) => UNCHANGED <<db, answer>>
  BY DEF Begin
<1>5. ASSUME NEW i \in 1..Len(db.idx), VisitEntry(i) \/ SkipEntry(i)
      PROVE  UNCHANGED <<db, answer>>
  BY <1>5 DEF VisitEntry, SkipEntry
<1>6. EntriesDone \/ NextYear \/ VisitPosting \/ SkipPosting \/ PostingsDone
          => UNCHANGED <<db, answer>>
  BY DEF EntriesDone, NextYear, VisitPosting, SkipPosting, PostingsDone
<1>7. ParseSegment \/ Widen \/ ParseDone \/ MergeNext \/ TurnToHci
          => UNCHANGED <<db, answer>>
  BY DEF ParseSegment, Widen, ParseDone, MergeNext, TurnToHci
<1>8. UNCHANGED vars => UNCHANGED <<db, answer>>
  BY DEF vars
<1>. QED
  BY <1>1, <1>2, <1>3, <1>4, <1>5, <1>6, <1>7, <1>8 DEF Next, Step

\* BatchLookup answers like a service without a scratch: what lookup_report_with_scratch
\* returns depends on the open database and the callsign alone, and is the merge of
\* everything the indexes lead to, in the order they lead to it.
THEOREM AnswersLikeService == Spec => ImplementsLookupService
<1>1. Init => Answering /\ Service!ServiceInit
  BY DEF Init, Answering, Busy, Service!ServiceInit
<1>2. Inv /\ Answering /\ [Next]_vars => Answering'
  BY AnsweringStep
<1>3. Inv /\ Answering /\ [Next]_vars =>
          [Service!Refuse \/ \E c \in Calls : Service!Answer(c)]_(Service!serviceVars)
  BY StepIsServed
<1>. QED
  BY <1>1, <1>2, <1>3, Invariance, PTL
  DEF Spec, ImplementsLookupService, Service!ServiceSpec
=============================================================================
