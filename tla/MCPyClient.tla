------------------------------ MODULE MCPyClient ------------------------------
(* A small library for PyClient.                                            *)
EXTENDS PyClient, TLC

CONSTANTS t1, t2, a1, a2, a3, o1, o2, g1

\* An allocator that hands out the same addresses again and again: the first one free.
Order == <<a1, a2, a3>>
FirstFree(h) ==
    LET free == {i \in 1..Len(Order) : h[Order[i]] = Freed}
    IN {Order[i] : i \in {i \in free : \A j \in free : i <= j}}

\* Texts are told apart by whose and which they are.
Text(of, member) == <<of, member>>
Ok(value) == [ok |-> TRUE, value |-> value, error |-> "none"]
Failed(error) == [ok |-> FALSE, value |-> None, error |-> error]

\* The catalogs as they are parsed: rows and codes that repeat, an empty callsign.
C == INSTANCE Catalogs WITH HasColon <- {}
Row(call, which) ==
    [m \in {us_member[f] : f \in DOMAIN us_member} \cup {"broken"} |->
        CASE m = "broken" -> FALSE
          [] m = "callsign" -> [call |-> call, spelling |-> "upper"]
          [] OTHER -> Text(which, m)]
Parsed == C!read_csv(<<Row(2, "late"), Row(1, "old"), Row(0, "none"), Row(1, "new")>>).records
Calls == [K1A |-> [call |-> 1, spelling |-> "lower"], XX |-> [call |-> 9, spelling |-> "upper"]]

Definitions == C!InterestParse(
    <<[heading |-> Text("heading", "A")], [code |-> Text("code", "K1A"), label |-> Text("l", "1")],
      [heading |-> Text("heading", "B")], [code |-> Text("code", "K1A"), label |-> Text("l", "2")]>>)

\* Programs of a few methods that use each kind of object at least once.
MCPrograms == {{"lookup", "country_info"}, {"profile", "map_svg"},
               {"search_interest", "interest_definition"}, {"interest_definitions"},
               {"country_catalog", "lookup_count"}, {"counts_catalog", "lookup_json"},
               {"current_us_lookup"}, {"current_us_records", "lookup_json"}}

\* Two arguments: one that the library knows, as a callsign and as a code, and one it does not.
MCArgument == {"K1A", "XX"}

Snapshot(of, vintage, codes) ==
    [texts |-> [m \in {set_field[f] : f \in DOMAIN set_field} |->
                   IF m = "suffix" THEN None ELSE Some(Text(of, m))],
     vintage |-> vintage, sources |-> {"UsCsv", "HamCallHci"}, jurisdiction |-> "UnitedStates",
     interest_codes |-> codes, interests |-> C!InterestResolve(Definitions, codes)]
Now == Snapshot("now", None, <<Text("code", "K1A"), Text("code", "XX")>>)
Then == Snapshot("then", Some(1999), <<>>)
Country ==
    [name |-> Text("c", "name"), raw_name |-> Text("c", "raw"), cleaned_name |-> Text("c", "clean"),
     code |-> None, jurisdiction |-> "Canada", itu_zone |-> Some(0), cq_zone |-> None,
     continent |-> Some(Text("c", "NA")), latitude |-> Some(Text("c", "lat")), longitude |-> None,
     numeric_code |-> Some(1), source |-> "CountrysPc"]
Count == [key |-> Text("k", "key"), count |-> 7, updated_yyyymmdd |-> None,
          status |-> Some(Text("k", "s"))]
File(kind, n) == [kind |-> kind, key |-> Text("f", n), media_type |-> Text("m", n),
                  path |-> Text("p", n)]
Profile ==
    [callsign |-> Text("q", "K1A"), status |-> "ArchiveOnly", current |-> None,
     snapshot_count |-> 2, vintages |-> <<1999>>, country |-> Some(Country),
     lookup_count |-> Some(Count), photos |-> <<File("Photo", 1), File("Photo", 2)>>,
     bio |-> Some(File("Biography", 1)), country_flag |-> None,
     country_map |-> Some(File("Map", 1))]

\* A function of the arguments that a client may pass.
Unread(answer) == [x \in {Unreadable} |-> answer]

MCLibrary ==
    [lookup |-> [K1A |-> Ok([query |-> Text("q", "K1A"), status |-> "Current",
                             current |-> Some(Now), history |-> <<Then, Then>>]),
                 XX |-> Failed("Io")] @@ Unread(Failed("Usage")),
     profile |-> [K1A |-> {Ok(Profile), Ok([Profile EXCEPT !.lookup_count = None])},
                  XX |-> {Failed("Other")}] @@ Unread({Failed("Other")}),
     country |-> [K1A |-> Some(Country), XX |-> None] @@ Unread(None),
     count |-> [K1A |-> {Ok(Some(Count)), Failed("Io")}, XX |-> {Ok(None)}] @@ Unread({Ok(None)}),
     countries |-> <<Country, [Country EXCEPT !.source = "Countrys"]>>,
     counts |-> {Ok(Some(<<Count, Count>>)), Ok(None), Failed("Io")},
     us |-> Some([rows |-> C!UsRows(Parsed),
                  found |-> [x \in {"K1A", "XX"} |-> C!UsGet(Parsed, Calls[x])]]),
     interests |-> Some([rows |-> Definitions,
                         found |-> [x \in {"K1A", "XX"} |->
                                       C!InterestLookup(Definitions, Text("code", x))]]),
     search |-> [K1A |-> Ok([code |-> Text("code", "K1A"),
                             definition |-> C!InterestLookup(Definitions, Text("code", "K1A")),
                             matches |-> <<[callsign |-> Text("q", "K1A"), vintage |-> None],
                                           [callsign |-> Text("q", "K1A"), vintage |-> Some(1999)]>>]),
                 XX |-> Failed("Usage")] @@ Unread(Failed("Usage")),
     map |-> [K1A |-> {"marked"}, XX |-> {"bare", "error"}]]
=============================================================================
