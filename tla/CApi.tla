--------------------------------- MODULE CApi ---------------------------------
(***************************************************************************)
(* The C interface of callbook-rs (ffi.rs): one operator for each exported *)
(* function.  An object that the library boxes for a client lives at an    *)
(* address of the heap, and the address may be used again once the object  *)
(* is freed.  A pointer is NULL, the address of a boxed object, or such an *)
(* address followed by the way to a part of the object (a borrowed         *)
(* pointer).                                                               *)
(*                                                                         *)
(* What the library answers is the constant Library.  An Option is a       *)
(* sequence of at most one element, an empty string the empty sequence.    *)
(***************************************************************************)
EXTENDS Integers, Sequences

CONSTANTS Address,    \* where objects can be boxed
          Malloc(_),  \* the addresses that the allocator may hand out, of a heap
          Library,    \* what the open database answers (see IsLibrary)
          Unreadable  \* an argument that is NULL or is not UTF-8

VARIABLES heap,       \* heap[a]: the object boxed at address a, or Freed
          worldFile   \* wc.dat: "absent", "intact" or "broken"

cvars == <<heap, worldFile>>

NULL == <<>>
Empty == <<>>
None == <<>>
Some(x) == <<x>>
OrElse(option, default) == IF option = None THEN default ELSE option[1]

-----------------------------------------------------------------------------
(* Return codes *)

OK == 0
NOT_FOUND == -1
USAGE == -2
OPEN_FAILED == -3
BUFFER_TOO_SMALL == -4

\* Io, Zip and Csv errors of a lookup or a profile read as a failed open.
ErrorCode(error) == IF error \in {"Io", "Zip", "Csv"} THEN OPEN_FAILED ELSE USAGE

-----------------------------------------------------------------------------
(* The boxed objects and the conversions that make them *)

Freed == [kind |-> "free", body |-> NULL]
Box(kind, body) == [kind |-> kind, body |-> body]

Status == [Current |-> 0, ArchiveOnly |-> 1, NotFound |-> 2]
Jurisdiction == [UnitedStates |-> 0, Canada |-> 1, International |-> 2, Unknown |-> 3]
CountrySource == [Unknown |-> 0, Countrys |-> 1, GcMcountrys |-> 2, CountrysPc |-> 3]
AssetKind == [Biography |-> 0, Photo |-> 1, Flag |-> 2, Map |-> 3, SidecarData |-> 4]

\* The discriminants of callbook_modern_field and callbook_us_field: the first is 0.
modern_field ==
    <<"Callsign", "Name", "FirstName", "MiddleName", "LastName", "Suffix", "Address", "City",
      "StateOrProvince", "PostalCode", "County", "Country", "LicenseClass", "RecordCode",
      "BirthDate", "FirstIssued", "Expires", "LastChanged", "GmtOffset", "Latitude",
      "Longitude", "Grid", "AreaCode", "PreviousCall", "PreviousClass",
      "FccTransactionType", "Email", "Qsl", "Url", "Interests", "LicenseId", "Frn",
      "NumericId", "FaxNumber", "Iota">>
us_field ==
    <<"Callsign", "Class", "Name", "Address", "City", "State", "Zip", "County",
      "LicenseIssueDate", "FccTransactionType">>

\* The member of the library's snapshot (of its catalog row) that is put into a slot.
set_field ==
    [Callsign |-> "callsign", Name |-> "display_name", FirstName |-> "first_name",
     MiddleName |-> "middle_name", LastName |-> "last_name", Suffix |-> "suffix",
     Address |-> "address", City |-> "city", StateOrProvince |-> "state_or_province",
     PostalCode |-> "postal_code", County |-> "county", Country |-> "country",
     LicenseClass |-> "license_class", RecordCode |-> "record_code",
     BirthDate |-> "birth_date", FirstIssued |-> "first_issued", Expires |-> "expires",
     LastChanged |-> "last_changed", GmtOffset |-> "gmt_offset", Latitude |-> "latitude",
     Longitude |-> "longitude", Grid |-> "grid", AreaCode |-> "area_code",
     PreviousCall |-> "previous_call", PreviousClass |-> "previous_class",
     FccTransactionType |-> "fcc_transaction_type", Email |-> "email", Qsl |-> "qsl",
     Url |-> "url", FaxNumber |-> "fax_number", Iota |-> "iota",
     Interests |-> "interest_codes_raw", LicenseId |-> "license_id", Frn |-> "frn",
     NumericId |-> "numeric_id"]
us_member ==
    [Callsign |-> "callsign", Class |-> "class", Name |-> "name", Address |-> "address",
     City |-> "city", State |-> "state", Zip |-> "zip", County |-> "county",
     LicenseIssueDate |-> "license_issue_date",
     FccTransactionType |-> "fcc_transaction_type"]

Each(Convert(_), items) == [i \in 1..Len(items) |-> Convert(items[i])]

\* SOURCE_US_CSV, SOURCE_HAMCALL_DAT_IDX and SOURCE_HAMCALL_HCI, or-ed.
source_flags(sources) ==
    (IF "UsCsv" \in sources THEN 1 ELSE 0) + (IF "HamCallDatIdx" \in sources THEN 2 ELSE 0)
        + (IF "HamCallHci" \in sources THEN 4 ELSE 0)

callbook_snapshot(s) ==
    [fields |-> [i \in 1..Len(modern_field) |->
                    OrElse(s.texts[set_field[modern_field[i]]], Empty)],
     interest_codes |-> s.interest_codes,
     interests |-> s.interests,
     vintage |-> OrElse(s.vintage, -1),
     source_flags |-> source_flags(s.sources),
     jurisdiction |-> Jurisdiction[s.jurisdiction]]

callbook_lookup_result(r) ==
    [query |-> r.query, status |-> Status[r.status],
     current |-> Each(callbook_snapshot, r.current),
     history |-> Each(callbook_snapshot, r.history)]

callbook_country_info(c) ==
    [name |-> c.name, raw_name |-> c.raw_name, cleaned_name |-> c.cleaned_name,
     code |-> OrElse(c.code, Empty), jurisdiction |-> Jurisdiction[c.jurisdiction],
     itu_zone |-> OrElse(c.itu_zone, -1), cq_zone |-> OrElse(c.cq_zone, -1),
     continent |-> OrElse(c.continent, Empty), latitude |-> c.latitude,
     longitude |-> c.longitude, numeric_code |-> OrElse(c.numeric_code, -1),
     source |-> CountrySource[c.source]]

callbook_lookup_count(c) ==
    [key |-> c.key, count |-> c.count, updated_yyyymmdd |-> OrElse(c.updated_yyyymmdd, -1),
     status |-> OrElse(c.status, Empty)]

callbook_asset(a) == [a EXCEPT !.kind = AssetKind[@]]

\* Photos first, then the biography, the flag and the map of the country.
callbook_profile(p) ==
    [callsign |-> p.callsign, status |-> Status[p.status],
     current |-> Each(callbook_snapshot, p.current),
     history_snapshot_count |-> p.snapshot_count, history_vintages |-> p.vintages,
     country |-> Each(callbook_country_info, p.country),
     lookup_count |-> Each(callbook_lookup_count, p.lookup_count),
     assets |-> Each(callbook_asset,
                     p.photos \o p.bio \o p.country_flag \o p.country_map)]

callbook_us_record(r) ==
    [fields |-> [i \in 1..Len(us_field) |-> r[us_member[us_field[i]]]]]

callbook_interest_definition(d) == [code |-> d.code, category |-> d.category, label |-> d.label]

callbook_interest_search_match(e) ==
    [callsign |-> e.callsign, vintage |-> OrElse(e.vintage, -1)]

callbook_interest_search_result(s) ==
    [code |-> s.code, definition |-> Each(callbook_interest_definition, s.definition),
     matches |-> Each(callbook_interest_search_match, s.matches)]

-----------------------------------------------------------------------------
(* What the library answers: its types, as far as the conversions depend on them *)

IsOption(x) == x = None \/ x = Some(x[1])
\* A number of an unsigned type, a text that is not empty when it is there.
IsNumber(x) == IsOption(x) /\ (x # None => x[1] \in Nat)
IsText(x) == IsOption(x) /\ x # Some(Empty)
IsSequence(s) == Len(s) \in Nat /\ s = [i \in 1..Len(s) |-> s[i]]
All(Is(_), s) == IsSequence(s) /\ \A i \in 1..Len(s) : Is(s[i])

IsDefinition(d) == d = [code |-> d.code, category |-> d.category, label |-> d.label]
IsSnapshot(s) == /\ IsNumber(s.vintage) /\ s.jurisdiction \in DOMAIN Jurisdiction
                 /\ All(IsDefinition, s.interests)
IsCountry(c) == /\ IsText(c.code) /\ IsText(c.continent)
                /\ IsNumber(c.itu_zone) /\ IsNumber(c.cq_zone) /\ IsNumber(c.numeric_code)
                /\ c.jurisdiction \in DOMAIN Jurisdiction
IsCount(c) == /\ c = [key |-> c.key, count |-> c.count,
                      updated_yyyymmdd |-> c.updated_yyyymmdd, status |-> c.status]
              /\ IsNumber(c.updated_yyyymmdd) /\ IsText(c.status)
IsAsset(a) == /\ a = [kind |-> a.kind, key |-> a.key, media_type |-> a.media_type,
                      path |-> a.path]
              /\ a.kind \in DOMAIN AssetKind
IsMatch(e) == e = [callsign |-> e.callsign, vintage |-> e.vintage] /\ IsNumber(e.vintage)

IsResult(r) == /\ r.status \in DOMAIN Status
               /\ IsOption(r.current) /\ All(IsSnapshot, r.current) /\ All(IsSnapshot, r.history)
IsProfile(p) ==
    /\ p.status \in DOMAIN Status
    /\ IsOption(p.current) /\ All(IsSnapshot, p.current) /\ IsSequence(p.vintages)
    /\ IsOption(p.country) /\ All(IsCountry, p.country)
    /\ IsOption(p.lookup_count) /\ All(IsCount, p.lookup_count)
    /\ All(IsAsset, p.photos) /\ All(IsAsset, p.bio)
    /\ All(IsAsset, p.country_flag) /\ All(IsAsset, p.country_map)
IsSearch(s) == IsOption(s.definition) /\ All(IsMatch, s.matches)

\* As long as its files stay as they are, a database gives every map of a station alike.
IsLibrary(lib) ==
    /\ DOMAIN lib = {"lookup", "profile", "country", "count", "countries", "counts",
                     "us", "interests", "search", "map"}
    /\ \A x \in DOMAIN lib.lookup : lib.lookup[x].ok => IsResult(lib.lookup[x].value)
    /\ \A x \in DOMAIN lib.profile : \A a \in lib.profile[x] : a.ok => IsProfile(a.value)
    /\ \A x \in DOMAIN lib.search : lib.search[x].ok => IsSearch(lib.search[x].value)
    /\ \A x \in DOMAIN lib.country : IsOption(lib.country[x]) /\ All(IsCountry, lib.country[x])
    /\ \A x \in DOMAIN lib.count : \A a \in lib.count[x] :
          a.ok => IsOption(a.value) /\ All(IsCount, a.value)
    /\ All(IsCountry, lib.countries)
    /\ \A a \in lib.counts : a.ok => IsOption(a.value) /\ (a.value # None => All(IsCount, a.value[1]))
    /\ \A catalog \in {lib.us, lib.interests} :
          /\ IsOption(catalog)
          /\ catalog # None =>
                /\ IsSequence(catalog[1].rows)
                /\ \A x \in DOMAIN catalog[1].found : IsOption(catalog[1].found[x])
    /\ \A x \in DOMAIN lib.map : \A s, u \in lib.map[x] \ {"error"} : s = u

ASSUME LibraryAssumption == IsLibrary(Library)

-----------------------------------------------------------------------------
(* Accessors.  A NULL object reads as a default. *)

\* What p points to: a boxed object, an item of one of its arrays, or an item of that.
At(p) ==
    LET body == heap[p[1]].body
    IN CASE Len(p) = 1 -> body
         [] Len(p) = 3 -> body[p[2]][p[3]]
         [] Len(p) = 5 -> body[p[2]][p[3]][p[4]][p[5]]

Member(p, member, default) == IF p = NULL THEN default ELSE At(p)[member]
\* The element of a zero-based index: a borrowed pointer, or NULL out of range.
Get(p, member, index) ==
    IF p # NULL /\ index >= 0 /\ index < Len(At(p)[member])
        THEN p \o <<member, index + 1>> ELSE NULL
First(p, member) == Get(p, member, 0)
Length(p, member, default) == IF p = NULL THEN default ELSE Len(At(p)[member])
\* The string or number of a zero-based index.
Element(p, member, index, default) ==
    IF Get(p, member, index) = NULL THEN default ELSE At(p)[member][index + 1]

callbook_result_query(result) == Member(result, "query", Empty)
callbook_result_status(result) == Member(result, "status", Status.NotFound)
callbook_result_current(result) == First(result, "current")
callbook_result_history_len(result) == Length(result, "history", USAGE)
callbook_result_history_get(result, index) == Get(result, "history", index)

callbook_snapshot_field(snapshot, field_id) == Element(snapshot, "fields", field_id, Empty)
callbook_snapshot_vintage(snapshot) == Member(snapshot, "vintage", -1)
callbook_snapshot_source_flags(snapshot) == Member(snapshot, "source_flags", 0)
callbook_snapshot_jurisdiction(snapshot) ==
    Member(snapshot, "jurisdiction", Jurisdiction.Unknown)
callbook_snapshot_interest_codes_raw(snapshot) ==
    callbook_snapshot_field(snapshot, (CHOOSE i \in DOMAIN modern_field :
                                           modern_field[i] = "Interests") - 1)
callbook_snapshot_interest_code_len(snapshot) == Length(snapshot, "interest_codes", 0)
callbook_snapshot_interest_code_get(snapshot, index) ==
    Element(snapshot, "interest_codes", index, Empty)
callbook_snapshot_interest_len(snapshot) == Length(snapshot, "interests", 0)
callbook_snapshot_interest_get(snapshot, index) == Get(snapshot, "interests", index)
callbook_interest_code(interest) == Member(interest, "code", Empty)
callbook_interest_category(interest) == Member(interest, "category", Empty)
callbook_interest_label(interest) == Member(interest, "label", Empty)

callbook_profile_callsign(profile) == Member(profile, "callsign", Empty)
callbook_profile_status(profile) == Member(profile, "status", Status.NotFound)
callbook_profile_current(profile) == First(profile, "current")
callbook_profile_history_snapshot_count(profile) ==
    Member(profile, "history_snapshot_count", 0)
callbook_profile_history_vintage_len(profile) == Length(profile, "history_vintages", 0)
callbook_profile_history_vintage_get(profile, index) ==
    Element(profile, "history_vintages", index, -1)
callbook_profile_country(profile) == First(profile, "country")
callbook_profile_lookup_count(profile) == First(profile, "lookup_count")
callbook_profile_asset_len(profile) == Length(profile, "assets", 0)
callbook_profile_asset_get(profile, index) == Get(profile, "assets", index)

callbook_country_name(country) == Member(country, "name", Empty)
callbook_country_raw_name(country) == Member(country, "raw_name", Empty)
callbook_country_cleaned_name(country) == Member(country, "cleaned_name", Empty)
callbook_country_code(country) == Member(country, "code", Empty)
callbook_country_jurisdiction(country) ==
    Member(country, "jurisdiction", Jurisdiction.Unknown)
callbook_country_itu_zone(country) == Member(country, "itu_zone", -1)
callbook_country_cq_zone(country) == Member(country, "cq_zone", -1)
callbook_country_continent(country) == Member(country, "continent", Empty)
callbook_country_numeric_code(country) == Member(country, "numeric_code", -1)
callbook_country_source_value(country) == Member(country, "source", CountrySource.Unknown)

\* A coordinate has a code of its own, as no number is left to stand for "none".
Coordinate(country, member) ==
    IF country = NULL THEN [code |-> USAGE, out |-> None]
    ELSE IF At(country)[member] = None THEN [code |-> NOT_FOUND, out |-> None]
    ELSE [code |-> OK, out |-> At(country)[member]]
callbook_country_latitude(country) == Coordinate(country, "latitude")
callbook_country_longitude(country) == Coordinate(country, "longitude")

callbook_lookup_count_key(count) == Member(count, "key", Empty)
callbook_lookup_count_value(count) == Member(count, "count", 0)
callbook_lookup_count_updated_yyyymmdd(count) == Member(count, "updated_yyyymmdd", -1)
callbook_lookup_count_status(count) == Member(count, "status", Empty)

callbook_asset_kind_value(asset) == Member(asset, "kind", AssetKind.SidecarData)
callbook_asset_key(asset) == Member(asset, "key", Empty)
callbook_asset_media_type(asset) == Member(asset, "media_type", Empty)
callbook_asset_path(asset) == Member(asset, "path", Empty)

callbook_us_record_field(record, field_id) == Element(record, "fields", field_id, Empty)

callbook_interest_definition_code(definition) == Member(definition, "code", Empty)
callbook_interest_definition_category(definition) == Member(definition, "category", Empty)
callbook_interest_definition_label(definition) == Member(definition, "label", Empty)

callbook_interest_search_code(search) == Member(search, "code", Empty)
callbook_interest_search_definition(search) == First(search, "definition")
callbook_interest_search_match_len(search) == Length(search, "matches", 0)
callbook_interest_search_match_get(search, index) == Get(search, "matches", index)
callbook_interest_search_match_callsign(match) == Member(match, "callsign", Empty)
callbook_interest_search_match_vintage(match) == Member(match, "vintage", -1)

callbook_country_catalog_len(catalog) == Length(catalog, "records", 0)
callbook_country_catalog_get(catalog, index) == Get(catalog, "records", index)
callbook_lookup_counts_catalog_len(catalog) == Length(catalog, "records", 0)
callbook_lookup_counts_catalog_get(catalog, index) == Get(catalog, "records", index)

-----------------------------------------------------------------------------
(* Functions that box an answer.  They give a return code and, with OK, the *)
(* object; the caller gets its address through `out', and NULL otherwise.   *)

Fails(code) == [code |-> code, new |-> None]
Boxed(kind, body) == [code |-> OK, new |-> Some(Box(kind, body))]

\* Answering guards the handle and the argument.
Answering(db, argument, answer) ==
    IF db = NULL \/ argument = Unreadable THEN Fails(USAGE) ELSE answer

callbook_open(path, opened) ==
    IF path = Unreadable THEN Fails(USAGE)
    ELSE IF opened THEN Boxed("db", [world |-> "unread"]) ELSE Fails(OPEN_FAILED)

callbook_lookup_modern(db, callsign, result) ==
    Answering(db, callsign,
              IF result.ok THEN Boxed("result", callbook_lookup_result(result.value))
              ELSE Fails(ErrorCode(result.error)))

callbook_profile_for_callsign(db, callsign, profile) ==
    Answering(db, callsign,
              IF profile.ok THEN Boxed("profile", callbook_profile(profile.value))
              ELSE Fails(ErrorCode(profile.error)))

callbook_country_info_for_callsign(db, callsign, country) ==
    Answering(db, callsign,
              IF country = None THEN Fails(NOT_FOUND)
              ELSE Boxed("country", callbook_country_info(country[1])))

callbook_country_catalog_open(db) ==
    Answering(db, "",
              Boxed("country_catalog",
                    [records |-> Each(callbook_country_info, Library.countries)]))

\* Any error of the counts is a USAGE error.
callbook_lookup_count_for_callsign(db, callsign, count) ==
    Answering(db, callsign,
              IF ~count.ok THEN Fails(USAGE)
              ELSE IF count.value = None THEN Fails(NOT_FOUND)
              ELSE Boxed("count", callbook_lookup_count(count.value[1])))

callbook_lookup_counts_catalog_open(db, counts) ==
    Answering(db, "",
              IF ~counts.ok THEN Fails(USAGE)
              ELSE IF counts.value = None THEN Fails(NOT_FOUND)
              ELSE Boxed("counts_catalog",
                         [records |-> Each(callbook_lookup_count, counts.value[1])]))

\* The rows of a catalog that is there: the catalog's records, the table's definitions.
Rows(catalog) == IF catalog = None THEN <<>> ELSE catalog[1].rows
\* What its `get' (`lookup') finds.
Found(catalog, key) == IF catalog = None THEN None ELSE catalog[1].found[key]

callbook_current_us_record_count(db) == IF db = NULL THEN 0 ELSE Len(Rows(Library.us))
callbook_current_us_record_get(db, index) ==
    Answering(db, "",
              IF index < 0 THEN Fails(USAGE)
              ELSE IF index >= Len(Rows(Library.us)) THEN Fails(NOT_FOUND)
              ELSE Boxed("us_record", callbook_us_record(Rows(Library.us)[index + 1])))
callbook_current_us_lookup(db, callsign) ==
    Answering(db, callsign,
              IF Found(Library.us, callsign) = None THEN Fails(NOT_FOUND)
              ELSE Boxed("us_record", callbook_us_record(Found(Library.us, callsign)[1])))

callbook_interest_catalog_len(db) == IF db = NULL THEN 0 ELSE Len(Rows(Library.interests))
callbook_interest_catalog_get(db, index) ==
    Answering(db, "",
              IF index < 0 THEN Fails(USAGE)
              ELSE IF index >= Len(Rows(Library.interests)) THEN Fails(NOT_FOUND)
              ELSE Boxed("definition",
                         callbook_interest_definition(Rows(Library.interests)[index + 1])))
callbook_interest_catalog_lookup(db, code) ==
    Answering(db, code,
              IF Found(Library.interests, code) = None THEN Fails(NOT_FOUND)
              ELSE Boxed("definition",
                         callbook_interest_definition(Found(Library.interests, code)[1])))

callbook_interest_search_for_code(db, code, search) ==
    Answering(db, code,
              IF search.ok THEN Boxed("search", callbook_interest_search_result(search.value))
              ELSE Fails(USAGE))

-----------------------------------------------------------------------------
(* Sized buffers *)

write_buf(cap, need) ==
    IF cap <= 0 THEN USAGE ELSE IF need + 1 > cap THEN BUFFER_TOO_SMALL ELSE need

\* A text is what is drawn in it; its length grows with that.
Bytes(text) == 1 + (IF "world" \in text THEN 2 ELSE 0) + (IF "marker" \in text THEN 1 ELSE 0)
                 + (IF "report" \in text THEN 3 ELSE 0)

\* The world layer for an open database: the file is looked at first, then the cache.
WorldLayer(db) ==
    IF worldFile = "absent" THEN "none"
    ELSE IF At(db).world = "loaded" \/ worldFile = "intact" THEN "drawn" ELSE "error"

\* The map of a station ("marked" with a location, "bare" without, or "error").
map_svg(db, station) ==
    LET world == WorldLayer(db) IN
    IF station = "error" \/ world = "error" THEN [code |-> USAGE, text |-> {}]
    ELSE IF station = "bare" /\ world = "none" THEN [code |-> NOT_FOUND, text |-> {}]
    ELSE [code |-> OK, text |-> {x \in {"marker", "world"} :
                                    IF x = "marker" THEN station = "marked"
                                    ELSE world = "drawn"}]

lookup_json(result) ==
    IF result.ok THEN [code |-> OK, text |-> {"report"}] ELSE [code |-> USAGE, text |-> {}]

\* What rendering leaves in the cache of the database.
Rendered(db, station) ==
    IF station # "error" /\ worldFile = "intact"
        THEN [heap EXCEPT ![db[1]].body.world = "loaded"] ELSE heap

\* Deviation: the NUL that ends the text is not counted.
RequiredWithoutNul(rendering) ==
    IF rendering.code = OK THEN Bytes(rendering.text) ELSE rendering.code

callbook_map_svg_required_len(rendering) ==
    IF rendering.code = OK THEN Bytes(rendering.text) + 1 ELSE rendering.code
callbook_map_svg(rendering, cap) ==
    IF rendering.code = OK THEN write_buf(cap, Bytes(rendering.text)) ELSE rendering.code
callbook_lookup_json_required_len(rendering) ==
    IF rendering.code = OK THEN Bytes(rendering.text) + 1 ELSE USAGE
callbook_lookup_json(rendering, cap) ==
    IF cap <= 0 THEN USAGE
    ELSE IF rendering.code = OK THEN write_buf(cap, Bytes(rendering.text)) ELSE USAGE

-----------------------------------------------------------------------------
(* The heap *)

\* The object that a function boxed is put where nothing else is.
Allocate(answer, p) ==
    IF answer.new = None THEN p = NULL /\ heap' = heap
    ELSE \E a \in Address \cap Malloc(heap) :
            /\ heap[a] = Freed
            /\ p = <<a>>
            /\ heap' = [heap EXCEPT ![a] = answer.new[1]]

\* NULL is ignored.
Release(p) == heap' = IF p = NULL THEN heap ELSE [heap EXCEPT ![p[1]] = Freed]

callbook_close(db) == Release(db)
callbook_result_free(result) == Release(result)
callbook_profile_free(profile) == Release(profile)
callbook_country_info_free(country) == Release(country)
callbook_country_catalog_free(catalog) == Release(catalog)
callbook_lookup_count_free(count) == Release(count)
callbook_lookup_counts_catalog_free(catalog) == Release(catalog)
callbook_us_record_free(record) == Release(record)
callbook_interest_definition_free(definition) == Release(definition)
callbook_interest_search_free(search) == Release(search)
=============================================================================
