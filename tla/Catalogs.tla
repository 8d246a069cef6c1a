------------------------------- MODULE Catalogs -------------------------------
(***************************************************************************)
(* The two tables that are read whole when the database is opened: the     *)
(* current US catalog (us_csv.rs) and the interest codes (interest.rs).    *)
(*                                                                         *)
(* A callsign is written [call, spelling]: its number in upper case (0 for *)
(* an empty one) and the way the row spells it.                            *)
(***************************************************************************)
EXTENDS Integers, Sequences, FiniteSets

LOCAL INSTANCE SequencesExt

CONSTANTS HasColon  \* the numbers of callsigns that contain a colon

CallsIn(rows) == {rows[i].callsign.call : i \in 1..Len(rows)} \ {0}

\* The map of read_csv: the last row of a callsign stays.  A row that is not CSV
\* fails the whole file.
read_csv(rows) ==
    IF \E i \in 1..Len(rows) : rows[i].broken
        THEN [ok |-> FALSE]
        ELSE [ok |-> TRUE,
              records |-> [c \in CallsIn(rows) |->
                  SelectSeq(rows, LAMBDA row : row.callsign.call = c)
                      [Len(SelectSeq(rows, LAMBDA row : row.callsign.call = c))]]]

\* The keys of the map, sorted once when the file is opened.
callsigns(records) == SetToSortSeq(DOMAIN records, LAMBDA c, d : c < d)

\* UsCsvFile::records.
UsRows(records) == [i \in 1..Len(callsigns(records)) |-> records[callsigns(records)[i]]]

\* UsCsvFile::get: a spelling makes no difference, an empty callsign and one with a
\* colon are not looked up.
UsGet(records, callsign) ==
    IF callsign.call \in DOMAIN records \ HasColon THEN <<records[callsign.call]>> ELSE <<>>

-----------------------------------------------------------------------------
(* A line of the interest table is a heading [heading |-> category], a code *)
(* [code, label] or something else, which is passed over.                   *)

\* InterestTable::parse: the category is that of the last heading; every code is listed,
\* and the last one with its digits is the one a lookup finds.
InterestParse(lines) ==
    FoldLeft(LAMBDA table, line :
                 IF "heading" \in DOMAIN line
                     THEN [table EXCEPT !.category = line.heading]
                 ELSE IF "code" \in DOMAIN line
                     THEN [table EXCEPT
                              !.definitions = Append(@, [code |-> line.code,
                                                         category |-> table.category,
                                                         label |-> line.label])]
                 ELSE table,
             [category |-> <<>>, definitions |-> <<>>], lines).definitions

\* InterestTable::lookup.
InterestLookup(definitions, code) ==
    LET same == SelectSeq(definitions, LAMBDA d : d.code = code)
    IN IF same = <<>> THEN <<>> ELSE <<same[Len(same)]>>

\* InterestTable::resolve_raw, of codes already cut from the raw text.
InterestResolve(definitions, codes) ==
    LET known == SelectSeq(codes, LAMBDA code : InterestLookup(definitions, code) # <<>>)
    IN [i \in 1..Len(known) |-> InterestLookup(definitions, known[i])[1]]
=============================================================================
