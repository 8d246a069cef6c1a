------------------------------- MODULE Records -------------------------------
(***************************************************************************)
(* The decoded contents of hamcall.dat, the snapshots parsed from it and    *)
(* how snapshots are merged (v2_record.rs, modern.rs, merge_snapshot of     *)
(* db.rs).                                                                  *)
(*                                                                          *)
(* The decoded file is a sequence of cells.  A cell is the start mark of a  *)
(* record (byte 0xb5), one character of a callsign, a `:YYYY` key part, or  *)
(* a tag byte with its value.  A window of the file can therefore begin or  *)
(* end inside a record, between any two characters of a callsign, but not   *)
(* inside a year or a value.                                                *)
(***************************************************************************)
EXTENDS Naturals, Sequences, FiniteSetsExt

CONSTANTS
    Characters,     \* characters of a callsign
    KeyCharacters,  \* those that a key of hamcall.dat may have: A-Z, 0-9, /
    Years,          \* publication years
    Texts,          \* field values
    PlainFields,    \* fields that MergeMissing fills one by one
    RawTags,        \* tags without a field of their own (raw_tags)
    MaxKeyCall,     \* length of the longest callsign of a key
    NoText,         \* a field without a value
    NoSnapshot      \* the report has no current snapshot

NoYear == 0

ASSUME YearsAssumption == Years \subseteq Nat \ {NoYear}
ASSUME TextsAssumption == NoText \notin Texts
ASSUME LimitAssumption == MaxKeyCall \in Nat /\ KeyCharacters \subseteq Characters

NameFields == {"first_name", "middle_name", "last_name"}
Fields == NameFields \cup PlainFields \cup RawTags
Sources == {"UsCsv", "HamCallDatIdx", "HamCallHci"}
Call == Seq(Characters)
Vintage == Years \cup {NoYear}

Snapshot == [call : Call, vintage : Vintage, sources : SUBSET Sources,
             text : [Fields -> Texts \cup {NoText}]]

ASSUME SnapshotAssumption == NoSnapshot \notin Snapshot

-----------------------------------------------------------------------------
(* Cells.                                                                   *)

Kinds == {"mark", "character", "year"} \cup Fields

Cell == [kind : Kinds, character : Characters \cup {""}, year : Vintage,
         text : Texts \cup {NoText}]

BlankCell == [kind |-> "mark", character |-> "", year |-> NoYear,
              text |-> NoText]
Mark == BlankCell
Letter(c) == [BlankCell EXCEPT !.kind = "character", !.character = c]
YearPart(y) == [BlankCell EXCEPT !.kind = "year", !.year = y]
Tagged(f, v) == [BlankCell EXCEPT !.kind = f, !.text = v]

IsMark(cell) == cell.kind = "mark"

-----------------------------------------------------------------------------
(* One segment of a decoded window: the cells from a record start, or from  *)
(* the start of the window, up to the next mark or the end of the window.   *)

KeyStart(segment) ==
    IF segment # <<>> /\ IsMark(segment[1]) THEN 2 ELSE 1

\* Where the callsign of the key ends.
CallEnd(segment) ==
    Min({i \in KeyStart(segment)..(Len(segment) + 1) :
               i <= Len(segment) => segment[i].kind # "character"})

HasYear(segment) ==
    CallEnd(segment) <= Len(segment) /\ segment[CallEnd(segment)].kind = "year"

\* split_key: behind the colon there is a year and nothing else.
SplitFails(segment) ==
    /\ HasYear(segment)
    /\ CallEnd(segment) < Len(segment)
    /\ segment[CallEnd(segment) + 1].kind \in {"character", "year"}

\* The callsign of the key; a key that is only `:YYYY` continues the record
\* of the IDX key, and there is none (the empty call) under an HCI posting.
SegmentCall(segment, default) ==
    IF SplitFails(segment) THEN <<>>
    ELSE IF CallEnd(segment) > KeyStart(segment)
    THEN [i \in 1..(CallEnd(segment) - KeyStart(segment)) |->
              segment[KeyStart(segment) + i - 1].character]
    ELSE IF HasYear(segment) THEN default ELSE <<>>

SegmentVintage(segment) ==
    IF HasYear(segment) THEN segment[CallEnd(segment)].year ELSE NoYear

\* A tag that occurs twice keeps its last value, blank ones left aside.
SegmentText(segment) ==
    [f \in Fields |->
        LET at == {i \in 1..Len(segment) : /\ segment[i].kind = f
                                            /\ segment[i].text # NoText}
        IN  IF at = {} THEN NoText ELSE segment[Max(at)].text]

\* looks_like_key.
LooksLikeKey(call) ==
    /\ call # <<>>
    /\ Len(call) <= MaxKeyCall
    /\ \A i \in 1..Len(call) : call[i] \in KeyCharacters

\* Deviation: the key is compared with starts_with.
SegmentMatchesPrefix(segment, default, query) ==
    LET call == SegmentCall(segment, default)
    IN  /\ LooksLikeKey(call)
        /\ \A i \in 1..Len(query) : i <= Len(call) => call[i] = query[i]

\* segment_matches, and the key passes looks_like_key and split_key in
\* parse_segment.
SegmentMatches(segment, default, query) ==
    LET call == SegmentCall(segment, default)
    IN  LooksLikeKey(call) /\ call = query

Parsed(segment, default, source) ==
    [call |-> SegmentCall(segment, default),
     vintage |-> SegmentVintage(segment),
     sources |-> {source},
     text |-> SegmentText(segment)]

-----------------------------------------------------------------------------
(* Merging.                                                                 *)

\* Deviation: what is merged in overwrites what is there.
MergeOverwriting(self, other) ==
    [self EXCEPT
        !.sources = @ \cup other.sources,
        !.text = [f \in Fields |-> IF other.text[f] # NoText
                                   THEN other.text[f] ELSE self.text[f]]]

\* merge_missing_from.  A last name follows the split name it comes with, and
\* the raw tags of `other` overwrite (BTreeMap::extend).
MergeMissing(self, other) ==
    LET filled == [f \in Fields |-> IF self.text[f] = NoText
                                    THEN other.text[f] ELSE self.text[f]]
        split == /\ \/ other.text["first_name"] # NoText
                    \/ other.text["middle_name"] # NoText
                 /\ filled["first_name"] # NoText
        overwritten == {f \in RawTags \cup (IF split THEN {"last_name"} ELSE {}) :
                            other.text[f] # NoText}
    IN  [self EXCEPT
            !.sources = @ \cup other.sources,
            !.text = [f \in Fields |-> IF f \in overwritten
                                       THEN other.text[f] ELSE filled[f]]]

Report == [current : Snapshot \cup {NoSnapshot}, history : Seq(Snapshot)]

SameEdition(r, s) ==
    {i \in 1..Len(r.history) : /\ r.history[i].call = s.call
                               /\ r.history[i].vintage = s.vintage}

\* Deviation: an archived snapshot always makes an entry of its own.
AbsorbAppending(r, s) ==
    IF s.vintage = NoYear
    THEN [r EXCEPT !.current = IF @ = NoSnapshot THEN s ELSE MergeMissing(@, s)]
    ELSE [r EXCEPT !.history = Append(@, s)]

\* Deviation: an archived snapshot fills what the current one lacks.
AbsorbIntoCurrent(r, s) ==
    IF s.vintage = NoYear \/ r.current # NoSnapshot
    THEN [r EXCEPT !.current = IF @ = NoSnapshot THEN s ELSE MergeMissing(@, s)]
    ELSE [r EXCEPT !.history = Append(@, s)]

\* merge_snapshot: a snapshot without vintage belongs to the current one, any
\* other to the history entry of its callsign and vintage.
Absorb(r, s) ==
    IF s.vintage = NoYear
    THEN [r EXCEPT !.current = IF @ = NoSnapshot THEN s ELSE MergeMissing(@, s)]
    ELSE IF SameEdition(r, s) = {}
    THEN [r EXCEPT !.history = Append(@, s)]
    ELSE [r EXCEPT !.history[Min(SameEdition(r, s))] = MergeMissing(@, s)]

Status(r) ==
    IF r.current # NoSnapshot THEN "Current"
    ELSE IF r.history = <<>> THEN "NotFound"
    ELSE "ArchiveOnly"
=============================================================================
