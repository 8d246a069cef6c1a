----------------------------- MODULE CountryTable -----------------------------
(***************************************************************************)
(* The country-prefix tables `countrys', `gcmcountrys' and `COUNTRYS.PC'   *)
(* and the lookup of a callsign in them (country.rs).  Prefixes and        *)
(* callsigns are sequences of bytes, compared as strings are.  A line of   *)
(* the file is a record of its parts: whether it is long enough and no     *)
(* comment, the two trimmed prefixes, and the text of the country, which   *)
(* is a label in parts that " - " separates and some tags.                 *)
(*                                                                         *)
(* Prefixes and callsigns are ASCII (AsciiText), as all of the tables and  *)
(* all parsed callsigns are.  With other characters the code panics: the   *)
(* index has 128 entries (country.rs:216), and heads are cut at a width in *)
(* bytes, which may lie inside a character (country.rs:235).  A callsign has *)
(* no blanks around it, which lookup_info trims.                           *)
(***************************************************************************)
EXTENDS Naturals, SequencesExt

None == <<>>
Some(x) == <<x>>

Ascii == 0..127
Byte == 0..255
Text == Seq(Byte)
AsciiText == Seq(Ascii)

to_ascii_uppercase(text) ==
    [i \in DOMAIN text |-> IF text[i] \in 97..122 THEN text[i] - 32 ELSE text[i]]

Take(text, width) ==
    SubSeq(text, 1, IF width < Len(text) THEN width ELSE Len(text))
StartsWith(text, head) == Len(head) <= Len(text) /\ Take(text, Len(head)) = head

\* The order of strings.
Precedes(left, right) ==
    \E i \in DOMAIN left \cap DOMAIN right :
        left[i] < right[i] /\ \A j \in 1..(i - 1) : left[j] = right[j]
AtMost(left, right) == StartsWith(right, left) \/ Precedes(left, right)

-----------------------------------------------------------------------------
US == <<85, 83>>
CA == <<67, 65>>

classify(name, code) ==
    IF code = Some(US) \/ name = <<"UNITED STATES">> THEN "UnitedStates"
    ELSE IF code = Some(CA) \/ name = <<"CANADA">> THEN "Canada"
    ELSE "International"

\* A label of no parts is an empty name; the label up to " - " is the cleaned name.
parse_country_info(rest, source) ==
    [name |-> rest.label, cleaned_name |-> Take(rest.label, 1), code |-> rest.code,
     jurisdiction |-> classify(rest.label, rest.code),
     latitude |-> rest.latitude, longitude |-> rest.longitude, source |-> source]

\* The order of the rules, which the sort leaves as they stood where it is equal.
Before(left, right) ==
    \/ Len(left.start) > Len(right.start)
    \/ Len(left.start) = Len(right.start) /\ Precedes(left.start, right.start)

\* The stable sort, by insertion: a rule goes before the first one that it comes before.
Insert(rules, rule) ==
    LET later == {i \in DOMAIN rules : Before(rule, rules[i])}
        place == Min(later \cup {Len(rules) + 1})
    IN SubSeq(rules, 1, place - 1) \o <<rule>> \o SubSeq(rules, place, Len(rules))

IsRule(line) ==
    line.usable /\ line.start # <<>> /\ line.end # <<>> /\ line.rest.label # <<>>
RuleOf(line, source) ==
    [start |-> to_ascii_uppercase(line.start), end |-> to_ascii_uppercase(line.end),
     country |-> parse_country_info(line.rest, source)]

\* The rules of the first n lines, for every n.
Parsing(lines, source) ==
    LET rules[n \in 0..Len(lines)] ==
            IF n = 0 THEN <<>>
            ELSE IF IsRule(lines[n]) THEN Insert(rules[n - 1], RuleOf(lines[n], source))
            ELSE rules[n - 1]
    IN rules

parse_with_source(lines, source) == Parsing(lines, source)[Len(lines)]

-----------------------------------------------------------------------------
FirstByte(text, default) == IF text = <<>> THEN default ELSE text[1]

\* Deviation: the first byte of a range is that of its start.
StartByteOnly(start, end) == {FirstByte(start, 0)}

\* The first bytes of the callsigns that a rule may match.
matching_first_bytes(start, end) ==
    LET first == FirstByte(start, 0)
        last == FirstByte(end, first)
    IN {byte \in Ascii : byte \in first..last \/ byte \in last..first}

\* The positions of the rules to try for each first byte, in their order.
build_first_byte_index(rules) ==
    [byte \in Ascii |->
        {i \in DOMAIN rules : byte \in matching_first_bytes(rules[i].start, rules[i].end)}]

prefix_range_matches(call, start, end) ==
    IF start = end THEN StartsWith(call, start)
    ELSE LET longest == IF Len(start) > Len(end) THEN Len(start) ELSE Len(end)
             head == Take(call, longest)
         IN /\ AtMost(Take(start, Len(head)), head)
            /\ AtMost(head, Take(end, Len(head)))

\* The country of the first of these rules that matches.
FirstMatch(rules, positions, call) ==
    LET hits == {i \in positions : prefix_range_matches(call, rules[i].start, rules[i].end)}
    IN IF hits = {} THEN None
       ELSE Some(rules[CHOOSE i \in hits : \A j \in hits : i <= j].country)

\* A callsign without a first byte in the index (the empty one) is tried against all rules.
lookup_info(rules, callsign) ==
    LET call == to_ascii_uppercase(callsign)
    IN FirstMatch(rules,
                  IF call # <<>> /\ call[1] \in Ascii
                  THEN build_first_byte_index(rules)[call[1]] ELSE DOMAIN rules,
                  call)

lookup_linear(rules, callsign) ==
    FirstMatch(rules, DOMAIN rules, to_ascii_uppercase(callsign))

\* The countries of a table in the order in which rules are tried.
records(rules) == [i \in DOMAIN rules |-> rules[i].country]
=============================================================================
