-------------------------------- MODULE TextIdx --------------------------------
(***************************************************************************)
(* hamcall.idx, the text index of HamCall (TextIdxFile of idx_text.rs):     *)
(* lines of a key and an offset, meant to be sorted by key.  Opening parses *)
(* every line into a table and anchors every stride-th one in a directory;  *)
(* searches bisect the table; verify walks the lines again and reports what *)
(* is out of order.                                                         *)
(*                                                                          *)
(* A key is a sequence of bytes, numbered in their order: a callsign, or a  *)
(* callsign with `:YYYY`.  A line is an entry, one that does not parse, or  *)
(* the unterminated rest of the file.  All bytes are printable, so that the *)
(* count of others that verify keeps is left out.                           *)
(***************************************************************************)
EXTENDS Naturals, Sequences, FiniteSets

CONSTANTS
    Files,      \* the index files that may be opened
    Strides,    \* directory strides
    Colon,      \* the byte between callsign and year
    Asked       \* the keys and callsigns that are looked up

Key == Seq(Nat)
Line == [key : Key, offset : Nat, kind : {"entry", "malformed", "unterminated"}]
IsFile(f) ==
    /\ f \in Seq(Line)
    /\ \A i \in 1..Len(f) : f[i].kind = "unterminated" => i = Len(f)

ASSUME FilesAssumption == \A f \in Files : IsFile(f)
ASSUME StridesAssumption == Strides \subseteq Nat \ {0}
ASSUME AskedAssumption == Asked \subseteq Key /\ Colon \in Nat

\* Byte order: at the first difference a ends or has the smaller byte.
Less(a, b) ==
    \E n \in 1..Len(b) :
        /\ n <= Len(a) + 1
        /\ \A i \in 1..(n - 1) : a[i] = b[i]
        /\ n = Len(a) + 1 \/ a[n] < b[n]

StartsWith(k, prefix) ==
    Len(prefix) <= Len(k) /\ \A i \in 1..Len(prefix) : k[i] = prefix[i]

VARIABLES
    file,       \* the lines of the mapped file
    stride,
    phase,      \* "index", "failed", "idle", "bisect", "collect" or "verify"
    line,       \* the next line that is read
    entries,    \* the lines of the table's entries
    directory,  \* the lines that are anchored
    lineCount,
    goal,       \* what is searched: "none", "exact", "first", "after", "bare"
                \* or "years"
    target,     \* the key searched for
    low, high,  \* the part of the table not yet decided
    hits,       \* the entries that the search returns
    report      \* what verify has counted

vars == <<file, stride, phase, line, entries, directory, lineCount, goal,
          target, low, high, hits, report>>

NoReport == [entries |-> 0, order |-> 0, offsets |-> 0, failures |-> 0,
             last |-> 0, complete |-> FALSE]

Init ==
    /\ file \in Files
    /\ stride \in Strides
    /\ phase = "index"
    /\ line = 1
    /\ entries = <<>>
    /\ directory = <<>>
    /\ lineCount = 0
    /\ goal = "none"
    /\ target = <<>>
    /\ low = 1
    /\ high = 1
    /\ hits = <<>>
    /\ report = NoReport

KeyAt(n) == file[entries[n]].key
OffsetAt(n) == file[entries[n]].offset

\* The next line is there and ends with CR LF.
Terminated == line <= Len(file) /\ file[line].kind # "unterminated"

-----------------------------------------------------------------------------
(* Opening: build_index.                                                    *)

\* Every stride-th line is anchored, an unterminated one too.
Anchored ==
    IF lineCount % stride = 0 /\ line <= Len(file)
    THEN Append(directory, line) ELSE directory

IndexLine ==
    /\ phase = "index"
    /\ Terminated
    /\ directory' = Anchored
    /\ entries' = IF file[line].kind = "entry" THEN Append(entries, line) ELSE entries
    /\ lineCount' = lineCount + 1
    /\ line' = line + 1
    /\ UNCHANGED <<file, stride, phase, goal, target, low, high, hits, report>>

\* A file without a line is refused.
Opened ==
    /\ phase = "index"
    /\ ~Terminated
    /\ directory' = Anchored
    /\ phase' = IF lineCount = 0 THEN "failed" ELSE "idle"
    /\ UNCHANGED <<file, stride, line, entries, lineCount, goal, target, low, high,
                   hits, report>>

-----------------------------------------------------------------------------
(* Searching: find_exact, find_first_key_at_least, next_entry_after_key and *)
(* find_callsign_all.                                                       *)

Bisect(g, k) ==
    /\ goal' = g
    /\ target' = k
    /\ low' = 1
    /\ high' = Len(entries) + 1

Ask(g, k) ==
    /\ phase = "idle"
    /\ phase' = "bisect"
    /\ Bisect(g, k)
    /\ hits' = <<>>
    /\ report' = NoReport
    /\ UNCHANGED <<file, stride, line, entries, directory, lineCount>>

\* The predicate of the partition point.
Comes(n) ==
    IF goal = "after" THEN ~Less(target, KeyAt(n)) ELSE Less(KeyAt(n), target)

\* partition_point looks at some entry of the part that is undecided; which
\* one is its own affair.
Probe ==
    /\ phase = "bisect"
    /\ \E mid \in low..(high - 1) :
           IF Comes(mid) THEN low' = mid + 1 /\ UNCHANGED high
                         ELSE high' = mid /\ UNCHANGED low
    /\ UNCHANGED <<file, stride, phase, line, entries, directory, lineCount, goal,
                   target, hits, report>>

Decided == phase = "bisect" /\ low = high
InTable == low <= Len(entries)

\* The entry at the partition point, whatever its key.
PointDone ==
    /\ Decided
    /\ goal \in {"first", "after"}
    /\ hits' = IF InTable THEN <<low>> ELSE <<>>
    /\ phase' = "idle"
    /\ UNCHANGED <<file, stride, line, entries, directory, lineCount, goal, target,
                   low, high, report>>

\* The entry at the partition point if its key is the one asked for.
ExactDone ==
    /\ Decided
    /\ goal = "exact"
    /\ hits' = IF InTable /\ KeyAt(low) = target THEN <<low>> ELSE <<>>
    /\ phase' = "idle"
    /\ UNCHANGED <<file, stride, line, entries, directory, lineCount, goal, target,
                   low, high, report>>

\* Deviation: the years are taken to follow the bare callsign.
BareDoneContiguous ==
    /\ Decided
    /\ goal = "bare"
    /\ hits' = IF InTable /\ KeyAt(low) = target THEN <<low>> ELSE <<>>
    /\ goal' = "years"
    /\ target' = Append(target, Colon)
    /\ phase' = "collect"
    /\ low' = IF InTable /\ KeyAt(low) = target THEN low + 1 ELSE low
    /\ UNCHANGED <<file, stride, line, entries, directory, lineCount, high, report>>

\* Pass 1 of find_callsign_all ends, pass 2 bisects for `callsign:`.
BareDone ==
    /\ Decided
    /\ goal = "bare"
    /\ hits' = IF InTable /\ KeyAt(low) = target THEN <<low>> ELSE <<>>
    /\ Bisect("years", Append(target, Colon))
    /\ UNCHANGED <<file, stride, phase, line, entries, directory, lineCount, report>>

YearsBegin ==
    /\ Decided
    /\ goal = "years"
    /\ phase' = "collect"
    /\ UNCHANGED <<file, stride, line, entries, directory, lineCount, goal, target,
                   low, high, hits, report>>

InYears == InTable /\ StartsWith(KeyAt(low), target)

Collect ==
    /\ phase = "collect"
    /\ InYears
    /\ hits' = Append(hits, low)
    /\ low' = low + 1
    /\ UNCHANGED <<file, stride, phase, line, entries, directory, lineCount, goal,
                   target, high, report>>

YearsDone ==
    /\ phase = "collect"
    /\ ~InYears
    /\ phase' = "idle"
    /\ UNCHANGED <<file, stride, line, entries, directory, lineCount, goal, target,
                   low, high, hits, report>>

-----------------------------------------------------------------------------
(* Verifying: verify, over the lines that TextIdxIter gives.                *)

Verify ==
    /\ phase = "idle"
    /\ phase' = "verify"
    /\ line' = 1
    /\ goal' = "none"
    /\ target' = <<>>
    /\ low' = 1
    /\ high' = 1
    /\ hits' = <<>>
    /\ report' = NoReport
    /\ UNCHANGED <<file, stride, entries, directory, lineCount>>

\* Deviation: records may begin at one and the same offset.
SeenAllowingEqual(r, l) ==
    LET back == r.last # 0 /\ Less(file[l].key, file[r.last].key)
    IN  [r EXCEPT
            !.entries = @ + 1,
            !.order = @ + (IF back THEN 1 ELSE 0),
            !.offsets = @ + (IF /\ r.last # 0
                                /\ file[l].offset < file[r.last].offset
                             THEN 1 ELSE 0),
            !.last = l]

\* An entry is compared with the one before it.
Seen(r, l) ==
    LET back == r.last # 0 /\ Less(file[l].key, file[r.last].key)
    IN  [r EXCEPT
            !.entries = @ + 1,
            !.order = @ + (IF back THEN 1 ELSE 0),
            !.offsets = @ + (IF /\ r.last # 0
                                /\ file[l].offset <= file[r.last].offset
                             THEN 1 ELSE 0),
            !.last = l]

VerifyLine ==
    /\ phase = "verify"
    /\ Terminated
    /\ report' = IF file[line].kind = "entry" THEN Seen(report, line) ELSE report
    /\ line' = line + 1
    /\ UNCHANGED <<file, stride, phase, entries, directory, lineCount, goal, target,
                   low, high, hits>>

\* The lines that opening counted and the walk did not give are failures.
Verified ==
    /\ phase = "verify"
    /\ ~Terminated
    /\ report' = [report EXCEPT
                     !.failures = IF lineCount > report.entries
                                  THEN lineCount - report.entries ELSE 0,
                     !.complete = TRUE]
    /\ phase' = "idle"
    /\ UNCHANGED <<file, stride, line, entries, directory, lineCount, goal, target,
                   low, high, hits>>

Next ==
    \/ IndexLine \/ Opened
    \/ \E k \in Asked, g \in {"exact", "first", "after", "bare"} : Ask(g, k)
    \/ Probe \/ PointDone \/ ExactDone \/ BareDone \/ YearsBegin \/ Collect
    \/ YearsDone
    \/ Verify \/ VerifyLine \/ Verified

Spec == Init /\ [][Next]_vars

-----------------------------------------------------------------------------
(* Properties.                                                              *)

Positions == 1..Len(entries)
Report == [entries : Nat, order : Nat, offsets : Nat, failures : Nat,
           last : 0..Len(file), complete : BOOLEAN]

\* Types; the anchors are the lines that their place in the directory says,
\* the undecided part of the table is inside it.
TypeOK ==
    /\ file \in Files
    /\ stride \in Strides
    /\ phase \in {"index", "failed", "idle", "bisect", "collect", "verify"}
    /\ line \in 1..(Len(file) + 1)
    /\ entries \in Seq(1..Len(file))
    /\ directory \in Seq(1..Len(file))
    /\ \A i \in 1..Len(directory) : directory[i] = (i - 1) * stride + 1
    /\ lineCount \in Nat
    /\ goal \in {"none", "exact", "first", "after", "bare", "years"}
    /\ target \in Key
    /\ low \in 1..(Len(entries) + 1)
    /\ high \in 1..(Len(entries) + 1)
    /\ phase = "bisect" => low <= high
    /\ hits \in Seq(Positions)
    /\ report \in Report

Hits == {hits[i] : i \in 1..Len(hits)}
Callsign == SubSeq(target, 1, Len(target) - 1)
Sorted == \A m, n \in Positions : m < n => ~Less(KeyAt(n), KeyAt(m))
Answered(g) == phase = "idle" /\ goal = g

\* Whatever the order of the file, a search for a key returns only entries of
\* that key, and one for a callsign only its bare entry and its years.
OwnEntriesOnly ==
    /\ goal = "exact" => \A n \in Hits : KeyAt(n) = target
    /\ goal = "years" =>
           \A n \in Hits : KeyAt(n) = Callsign \/ StartsWith(KeyAt(n), target)

\* In a sorted file a search returns what a scan of the table would: the first
\* entry of the key, the first that is not less or that is greater, and for a
\* callsign its first bare entry and all its years, which other callsigns
\* separate from it, each once and in the order of the file.
SearchesAreScans ==
    Sorted =>
        /\ Answered("exact") =>
               Hits = {n \in Positions : KeyAt(n) = target
                           /\ \A m \in Positions : m < n => KeyAt(m) # target}
        /\ Answered("first") =>
               Hits = {n \in Positions : ~Less(KeyAt(n), target)
                           /\ \A m \in Positions : m < n => Less(KeyAt(m), target)}
        /\ Answered("after") =>
               Hits = {n \in Positions : Less(target, KeyAt(n))
                           /\ \A m \in Positions : m < n => ~Less(target, KeyAt(m))}
        /\ Answered("years") =>
               /\ Hits = {n \in Positions : StartsWith(KeyAt(n), target)}
                    \cup {n \in Positions : KeyAt(n) = Callsign
                           /\ \A m \in Positions : m < n => KeyAt(m) # Callsign}
               /\ \A i, j \in 1..Len(hits) : i < j => hits[i] < hits[j]

Clean(r) == r.order = 0 /\ r.offsets = 0 /\ r.failures = 0 /\ r.entries > 0

\* What verify calls clean is what the searches and the record slices rely on:
\* every line is in the table, the table is sorted, and every entry's record
\* begins behind those of all entries before it.
CleanMeansSound ==
    report.complete =>
        (Clean(report) <=>
             /\ Len(entries) = lineCount
             /\ Sorted
             /\ \A m, n \in Positions : m < n => OffsetAt(m) < OffsetAt(n))
=============================================================================
