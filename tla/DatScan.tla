-------------------------------- MODULE DatScan --------------------------------
(***************************************************************************)
(* The scans over the whole of hamcall.dat (db.rs): search_interest         *)
(* (InterestSearchScan), the interest statistics (InterestScan) and the tag *)
(* inventory (TagScan).  They read the decoded file once, byte by byte, and *)
(* keep a small state between the bytes; the segment parser of a lookup     *)
(* reads the same records from whole segments.                              *)
(*                                                                          *)
(* The three scans go in step here, the search for every code at once.  A   *)
(* cell is read whole: a tag and its value are one step.                    *)
(***************************************************************************)
EXTENDS LookupAnswers

CONSTANTS
    CallCharacters, \* those of a callsign (Callsign::parse): small letters too
    MaxCall,        \* KEY_LEN, the length of the longest callsign
    InterestField,  \* the field of tag 0xd5
    Codes,          \* four-digit interest codes
    Known,          \* those of the interest catalog
    CodesOf         \* InterestTable::codes of a field value

ASSUME CallAssumption ==
    /\ KeyCharacters \subseteq CallCharacters /\ CallCharacters \subseteq Characters
    /\ MaxCall \in Nat /\ MaxKeyCall <= MaxCall
ASSUME InterestAssumption == InterestField \in PlainFields
ASSUME FieldsAssumption == {"mark", "character", "year", "none"} \cap Fields = {}
ASSUME CodesAssumption == CodesOf \in [Texts -> Seq(Codes)] /\ Known \subseteq Codes

VARIABLES
    db,         \* the open database
    position,   \* the next cell of hamcall.dat
    inRecord,   \* in_record
    key,        \* the cells of the key
    tag,        \* current_tag: a field, or "none" while the key is read
    value,      \* the value of that tag (TagScan)
    raw,        \* interest_raw (the other two)
    vintage,    \* TagScan's vintage of the record
    matches,    \* of the search for each code
    statistics, \* of InterestScan
    tags,       \* of TagScan
    done        \* the scans have finished

vars == <<db, position, inRecord, key, tag, value, raw, vintage, matches,
          statistics, tags, done>>

MaxExamples == 3
Tags == Fields
NoTag == "none"
KeyComplete == tag # NoTag
InterestMatch == [call : Call, vintage : Vintage]
NoKey == [call |-> <<>>, vintage |-> NoYear]

\* Callsign::parse, which takes longer callsigns than looks_like_key and those
\* in small letters.
IsCallsign(call) ==
    /\ Len(call) \in 1..MaxCall
    /\ \A i \in 1..Len(call) : call[i] \in CallCharacters

\* interest_record_key: the callsign as it stands in the key and the year
\* behind the colon, or nothing when either is not one.
RecordKey(cells) ==
    LET years == {i \in 1..Len(cells) : cells[i].kind = "year"}
        length == IF years = {} THEN Len(cells) ELSE Min(years) - 1
        call == [i \in 1..length |-> cells[i].character]
    IN  IF ~IsCallsign(call) \/ Len(cells) > length + 1 THEN NoKey
        ELSE [call |-> call,
              vintage |-> IF years = {} THEN NoYear ELSE cells[Min(years)].year]

RangeOf(s) == {s[i] : i \in 1..Len(s)}

Init ==
    /\ db \in Databases
    /\ position = 1
    /\ inRecord = FALSE
    /\ key = <<>>
    /\ tag = NoTag
    /\ value = NoText
    /\ raw = NoText
    /\ vintage = NoYear
    /\ matches = [c \in Codes |-> {}]
    /\ statistics = [current |-> 0, archive |-> 0, calls |-> {}, resolved |-> {},
                     unknown |-> [c \in Codes |-> [current |-> 0, archive |-> 0,
                                                   examples |-> <<>>]]]
    /\ tags = [f \in Tags |-> [current |-> 0, archive |-> 0, samples |-> <<>>]]
    /\ done = FALSE

-----------------------------------------------------------------------------
(* The end of a record.                                                     *)

\* The record that ends has a key and interests to report.
Reportable == inRecord /\ raw # NoText /\ RecordKey(key) # NoKey

\* InterestSearchScan::finish_record.
MatchRecord ==
    matches' = IF Reportable
               THEN [c \in Codes |-> IF c \in RangeOf(CodesOf[raw])
                                     THEN matches[c] \cup {RecordKey(key)}
                                     ELSE matches[c]]
               ELSE matches

\* Deviation: an example is pushed for every occurrence.
PushAlways(samples, item) ==
    IF Len(samples) < MaxExamples THEN Append(samples, item) ELSE samples

\* Push unless it is there or there are enough of them.
PushSample(samples, item) ==
    IF Len(samples) < MaxExamples /\ item \notin RangeOf(samples)
    THEN Append(samples, item) ELSE samples

\* The accumulator of a code that the record lists n times.
Occurs(acc, k, n) ==
    IF n = 0 THEN acc
    ELSE [current |-> acc.current + (IF k.vintage = NoYear THEN n ELSE 0),
          archive |-> acc.archive + (IF k.vintage = NoYear THEN 0 ELSE n),
          examples |-> PushSample(acc.examples, k)]

\* InterestScan::finish_record.
CountRecord ==
    LET k == RecordKey(key)
        codes == CodesOf[raw]
        times(c) == Cardinality({i \in 1..Len(codes) : codes[i] = c})
        current == k.vintage = NoYear
        resolved == RangeOf(codes) \cap Known # {}
    IN  statistics' =
            IF ~Reportable \/ CodesOf[raw] = <<>> THEN statistics
            ELSE [current |-> statistics.current + (IF current THEN 1 ELSE 0),
                  archive |-> statistics.archive + (IF current THEN 0 ELSE 1),
                  calls |-> statistics.calls \cup (IF current THEN {k.call} ELSE {}),
                  resolved |-> statistics.resolved
                                   \cup (IF current /\ resolved THEN {k.call} ELSE {}),
                  unknown |-> [c \in Codes |->
                                   IF c \in Known THEN statistics.unknown[c]
                                   ELSE Occurs(statistics.unknown[c], k, times(c))]]

\* TagScan's vintage once the key is complete: taken from the key at the
\* first tag, and tried again while there is none.
TagVintage ==
    IF inRecord /\ vintage = NoYear THEN RecordKey(key).vintage ELSE vintage

\* TagScan::finish_value for the tag read last.
CountValue ==
    tags' = IF tag = NoTag \/ value = NoText THEN tags
            ELSE [tags EXCEPT ![tag] =
                    [current |-> @.current + (IF TagVintage = NoYear THEN 1 ELSE 0),
                     archive |-> @.archive + (IF TagVintage = NoYear THEN 0 ELSE 1),
                     samples |-> PushSample(@.samples, value)]]

-----------------------------------------------------------------------------
(* One step for each cell of the file.                                      *)

Reading == ~done /\ position <= Len(db.dat)
Here == db.dat[position]

\* Deviation: start_record leaves the interests of the record before.
TakeMarkKeepingRaw ==
    /\ Reading
    /\ Here.kind = "mark"
    /\ MatchRecord /\ CountRecord /\ CountValue
    /\ inRecord' = TRUE
    /\ key' = <<>>
    /\ tag' = NoTag
    /\ value' = NoText
    /\ vintage' = NoYear
    /\ position' = position + 1
    /\ UNCHANGED <<db, raw, done>>

\* Deviation: start_record leaves TagScan's vintage of the record before.
TakeMarkKeepingVintage ==
    /\ Reading
    /\ Here.kind = "mark"
    /\ MatchRecord /\ CountRecord /\ CountValue
    /\ inRecord' = TRUE
    /\ key' = <<>>
    /\ tag' = NoTag
    /\ value' = NoText
    /\ raw' = NoText
    /\ vintage' = TagVintage
    /\ position' = position + 1
    /\ UNCHANGED <<db, done>>

\* 0xb5: the record before ends and one begins.
TakeMark ==
    /\ Reading
    /\ Here.kind = "mark"
    /\ MatchRecord /\ CountRecord /\ CountValue
    /\ inRecord' = TRUE
    /\ key' = <<>>
    /\ tag' = NoTag
    /\ value' = NoText
    /\ raw' = NoText
    /\ vintage' = NoYear
    /\ position' = position + 1
    /\ UNCHANGED <<db, done>>

\* 0xb6..=0xdf in a record: the value before ends and one begins.
TakeTag ==
    /\ Reading
    /\ inRecord
    /\ Here.kind \in Tags
    /\ CountValue
    /\ vintage' = TagVintage
    /\ tag' = Here.kind
    /\ value' = Here.text
    /\ raw' = IF Here.kind = InterestField THEN Here.text ELSE raw
    /\ position' = position + 1
    /\ UNCHANGED <<db, inRecord, key, matches, statistics, done>>

\* A byte of the key.
TakeKeyPart ==
    /\ Reading
    /\ inRecord /\ ~KeyComplete
    /\ Here.kind \in {"character", "year"}
    /\ key' = Append(key, Here)
    /\ position' = position + 1
    /\ UNCHANGED <<db, inRecord, tag, value, raw, vintage, matches, statistics,
                   tags, done>>

\* What lies before the first record.
Skip ==
    /\ Reading
    /\ ~inRecord
    /\ Here.kind # "mark"
    /\ position' = position + 1
    /\ UNCHANGED <<db, inRecord, key, tag, value, raw, vintage, matches,
                   statistics, tags, done>>

\* The end of the file ends the last record.
End ==
    /\ ~done
    /\ position > Len(db.dat)
    /\ MatchRecord /\ CountRecord /\ CountValue
    /\ done' = TRUE
    /\ UNCHANGED <<db, position, inRecord, key, tag, value, raw, vintage>>

Next == TakeMark \/ TakeTag \/ TakeKeyPart \/ Skip \/ End
Spec == Init /\ [][Next]_vars

-----------------------------------------------------------------------------
(* What the segment parser makes of the same file.                          *)

Segment(i) == SubSeq(db.dat, i, NextMark(db, i + 1) - 1)
Starts == {i \in 1..Len(db.dat) : IsMark(db.dat[i])}

\* The records that the scans have finished with.
Finished ==
    {i \in Starts : IF done THEN TRUE ELSE NextMark(db, i + 1) < position}

\* A record with a key of its own, not a `:YYYY` one, that is a callsign; the
\* parser reads it if the key looks like one to it, too.
OwnKey(i) == IsCallsign(SegmentCall(Segment(i), <<>>))
Readable(i) == SegmentMatches(Segment(i), <<>>, SegmentCall(Segment(i), <<>>))
Edition(i) == Parsed(Segment(i), <<>>, "HamCallDatIdx")
MatchOf(i) == [call |-> Edition(i).call, vintage |-> Edition(i).vintage]
CodesIn(i) ==
    IF Edition(i).text[InterestField] = NoText THEN <<>>
    ELSE CodesOf[Edition(i).text[InterestField]]

\* The last interest value of the record is blank (it undoes the one before
\* in the scans, and is passed over by the parser).
BlankLast(i) ==
    LET at == {j \in 1..Len(Segment(i)) : Segment(i)[j].kind = InterestField}
    IN  at # {} /\ Segment(i)[Max(at)].text = NoText

Listing(c) ==
    {i \in Finished : OwnKey(i) /\ ~BlankLast(i) /\ c \in RangeOf(CodesIn(i))}

NonBlank(s, f) ==
    {j \in 1..Len(s) : s[j].kind = f /\ s[j].text # NoText}

-----------------------------------------------------------------------------
(* Properties.                                                              *)

\* Type correctness, and what is known of the state between two cells.
TypeOK ==
    /\ db.dat \in Seq(Cell)
    /\ position \in 1..(Len(db.dat) + 1)
    /\ inRecord \in BOOLEAN /\ done \in BOOLEAN
    /\ key \in Seq(Cell)
    /\ tag \in Tags \cup {NoTag}
    /\ value \in Texts \cup {NoText} /\ raw \in Texts \cup {NoText}
    /\ vintage \in Vintage
    /\ \A c \in Codes : \A m \in matches[c] : m \in InterestMatch
    /\ ~inRecord => key = <<>> /\ tag = NoTag /\ raw = NoText

\* Search finds what the segment parser reads: byte by byte and with a state
\* carried from record to record, the search comes to the same callsigns and
\* vintages as parsing each record on its own does (for records with a key of
\* their own whose last interest value is not blank).  What it finds besides
\* has a key that is a callsign, longer than twelve characters or with a small
\* letter, which the parser refuses, so that no lookup shows the record.
SearchAsParsed ==
    \A c \in Codes :
        LET read == {i \in Listing(c) : Readable(i)}
        IN  /\ {m \in matches[c] : LooksLikeKey(m.call)} = {MatchOf(i) : i \in read}
            /\ matches[c] = {MatchOf(i) : i \in Listing(c)}

\* The statistics agree with the searches: the callsigns counted are those
\* that a search for some code finds (for a known code: resolved), and the
\* examples of an unknown code are matches, no two the same, and as many as
\* there are up to three, although a record may list a code twice.
StatisticsAgreeWithSearch ==
    LET current(codes) == {m.call : m \in {k \in UNION {matches[c] : c \in codes} :
                                              k.vintage = NoYear}}
    IN  /\ statistics.calls = current(Codes)
        /\ statistics.resolved = current(Known)
        /\ \A c \in Codes \ Known :
              LET acc == statistics.unknown[c]
              IN  /\ RangeOf(acc.examples) \subseteq matches[c]
                  /\ Cardinality(RangeOf(acc.examples)) = Len(acc.examples)
                  /\ Len(acc.examples)
                         = Min({MaxExamples, Cardinality(matches[c])})
                  /\ acc.current + acc.archive >= Cardinality(matches[c])

\* The tag inventory is complete: once the scan is done, every value that is
\* not blank in a record is counted under its tag, with the archive those of
\* records whose own key has a year.
InventoryComplete ==
    done =>
        \A f \in Tags :
            /\ tags[f].current + tags[f].archive
                   = Cardinality(NonBlank(db.dat, f)
                         \cap {j \in 1..Len(db.dat) : \E i \in Starts : i < j})
            /\ tags[f].archive
                   = Cardinality({j \in NonBlank(db.dat, f) :
                         \E i \in Starts : /\ j > i /\ j < NextMark(db, i + 1)
                                             /\ OwnKey(i)
                                             /\ Edition(i).vintage # NoYear})
=============================================================================
