------------------------------- MODULE PyClient -------------------------------
(***************************************************************************)
(* Programs over the C interface: the Python package (_api.py), and a C    *)
(* program for the catalogs and the JSON that the package leaves out.      *)
(* Several threads share the wrappers; a wrapper holds the address of a    *)
(* boxed object until it is closed, a temporary one is freed by the call   *)
(* that got it, and a suspended generator holds one record.  ctypes runs   *)
(* every call of the library without the interpreter's lock, so threads    *)
(* interleave between any two of them.                                     *)
(*                                                                         *)
(* The contract of ffi.rs ("Callers must not call callbook_close until all *)
(* concurrent calls using the handle have returned") is assumed of the     *)
(* programs: a call of the library is one step, and a wrapper that another *)
(* thread is closing is not used or closed (Usable).  The package does not *)
(* enforce it, and nothing is said of programs that break it.              *)
(***************************************************************************)
EXTENDS CApi, FiniteSets

Ext == INSTANCE SequencesExt

CONSTANTS Thread, Object, Generator,
          Programs,         \* sets of methods that programs use
          Argument,         \* callsigns and interest codes that clients ask for
          MaxWorldChanges   \* how often wc.dat may come, go or break

ASSUME ArgumentAssumption ==
    /\ \A answers \in {"lookup", "profile", "search", "country", "count", "map"} :
          Argument \subseteq DOMAIN Library[answers]
    /\ \A catalog \in {"us", "interests"} :
          Library[catalog] # None => Argument \subseteq DOMAIN Library[catalog][1].found

VARIABLES program,  \* the methods that this one uses
          objects,  \* the wrappers: kind, `_pointer', and what it was asked for
          jobs,     \* the method that each thread is in
          gens,     \* generators of current_us_records and interest_definitions
          changes   \* number of changes of wc.dat

vars == <<heap, worldFile, program, objects, jobs, gens, changes>>

Books == {o \in Object : objects[o].kind = "db"}
Unbound == [kind |-> "none", pointer |-> NULL, of |-> ""]
Idle == [at |-> "idle", does |-> "nothing", on |-> None, of |-> "", out |-> NULL,
         code |-> OK, required |-> 0, changed |-> FALSE, error |-> OK, value |-> None]
NoGen == [at |-> "unused", does |-> "nothing", on |-> None, index |-> 0, count |-> 0,
          out |-> NULL, yielded |-> <<>>, began |-> FALSE, error |-> OK]

-----------------------------------------------------------------------------
(* The copies that the package makes of what pointers show *)

FIELD_NAMES ==
    [callsign |-> 0, name |-> 1, first_name |-> 2, middle_name |-> 3, last_name |-> 4,
     suffix |-> 5, address |-> 6, city |-> 7, state_or_province |-> 8, postal_code |-> 9,
     county |-> 10, country |-> 11, license_class |-> 12, record_code |-> 13,
     birth_date |-> 14, first_issued |-> 15, expires |-> 16, last_changed |-> 17,
     gmt_offset |-> 18, latitude |-> 19, longitude |-> 20, grid |-> 21, area_code |-> 22,
     previous_call |-> 23, previous_class |-> 24, fcc_transaction_type |-> 25,
     email |-> 26, qsl |-> 27, url |-> 28, interests |-> 29, license_id |-> 30,
     frn |-> 31, numeric_id |-> 32, fax_number |-> 33, iota |-> 34]
US_FIELD_NAMES ==
    [callsign |-> 0, class_ |-> 1, name |-> 2, address |-> 3, city |-> 4, state |-> 5,
     zip |-> 6, county |-> 7, license_issue_date |-> 8, fcc_transaction_type |-> 9]
LOOKUP_STATUS == <<"current", "archive_only", "not_found">>
JURISDICTION == <<"united_states", "canada", "international", "unknown">>
ASSET_KIND == <<"biography", "photo", "flag", "map", "sidecar_data">>

\* dict.get with a default, of a table that is numbered from 0.
Named(table, number, default) ==
    IF number + 1 \in DOMAIN table THEN table[number + 1] ELSE default

\* Deviation: zero is taken for "none" as well.
OptionalPositive(value) == IF value <= 0 THEN None ELSE Some(value)

_optional_int(value) == IF value < 0 THEN None ELSE Some(value)
_optional_text(value) == IF value = Empty THEN None ELSE Some(value)
_optional_float_from(reading) == IF reading.code = NOT_FOUND THEN None ELSE reading.out

\* Each item for i in range(length) is copied, and appended unless it is NULL.
Items(length, Item(_), Copy(_)) == Ext!FlattenSeq([i \in 1..length |-> Copy(Item(i - 1))])

ResolvedInterest(p) ==
    IF p = NULL THEN None
    ELSE Some([code |-> callbook_interest_code(p), category |-> callbook_interest_category(p),
               label |-> callbook_interest_label(p)])

CallSnapshot(p) ==
    IF p = NULL THEN None
    ELSE Some([fields |-> [n \in DOMAIN FIELD_NAMES |->
                              callbook_snapshot_field(p, FIELD_NAMES[n])],
               vintage |-> _optional_int(callbook_snapshot_vintage(p)),
               source_flags |-> callbook_snapshot_source_flags(p),
               jurisdiction |-> Named(JURISDICTION, callbook_snapshot_jurisdiction(p), "unknown"),
               interests |-> Items(callbook_snapshot_interest_len(p),
                                   LAMBDA i : callbook_snapshot_interest_get(p, i),
                                   ResolvedInterest)])

LookupResult(p) ==
    [query |-> callbook_result_query(p),
     status |-> Named(LOOKUP_STATUS, callbook_result_status(p), "not_found"),
     current |-> CallSnapshot(callbook_result_current(p)),
     history |-> Items(callbook_result_history_len(p),
                       LAMBDA i : callbook_result_history_get(p, i), CallSnapshot)]

CountryInfo(p) ==
    IF p = NULL THEN None
    ELSE Some([name |-> callbook_country_name(p),
               cleaned_name |-> callbook_country_cleaned_name(p),
               code |-> _optional_text(callbook_country_code(p)),
               jurisdiction |-> Named(JURISDICTION, callbook_country_jurisdiction(p), "unknown"),
               itu_zone |-> _optional_int(callbook_country_itu_zone(p)),
               cq_zone |-> _optional_int(callbook_country_cq_zone(p)),
               continent |-> _optional_text(callbook_country_continent(p)),
               latitude |-> _optional_float_from(callbook_country_latitude(p)),
               longitude |-> _optional_float_from(callbook_country_longitude(p)),
               numeric_code |-> _optional_int(callbook_country_numeric_code(p)),
               source |-> callbook_country_source_value(p)])

LookupCount(p) ==
    IF p = NULL THEN None
    ELSE Some([key |-> callbook_lookup_count_key(p), count |-> callbook_lookup_count_value(p),
               updated_yyyymmdd |-> _optional_int(callbook_lookup_count_updated_yyyymmdd(p)),
               status |-> _optional_text(callbook_lookup_count_status(p))])

Asset(p) ==
    IF p = NULL THEN None
    ELSE Some([kind |-> Named(ASSET_KIND, callbook_asset_kind_value(p), "sidecar_data"),
               key |-> callbook_asset_key(p), media_type |-> callbook_asset_media_type(p),
               path |-> callbook_asset_path(p)])

StationProfile(p) ==
    [callsign |-> callbook_profile_callsign(p),
     status |-> Named(LOOKUP_STATUS, callbook_profile_status(p), "not_found"),
     current |-> CallSnapshot(callbook_profile_current(p)),
     history_snapshot_count |-> callbook_profile_history_snapshot_count(p),
     history_vintages |-> [i \in 1..callbook_profile_history_vintage_len(p) |->
                              callbook_profile_history_vintage_get(p, i - 1)],
     country |-> CountryInfo(callbook_profile_country(p)),
     lookup_count |-> LookupCount(callbook_profile_lookup_count(p)),
     assets |-> Items(callbook_profile_asset_len(p),
                      LAMBDA i : callbook_profile_asset_get(p, i), Asset)]

UsRecord(p) ==
    IF p = NULL THEN None
    ELSE Some([n \in DOMAIN US_FIELD_NAMES |-> callbook_us_record_field(p, US_FIELD_NAMES[n])])

InterestDefinition(p) ==
    IF p = NULL THEN None
    ELSE Some([code |-> callbook_interest_definition_code(p),
               category |-> callbook_interest_definition_category(p),
               label |-> callbook_interest_definition_label(p)])

InterestSearchMatch(p) ==
    IF p = NULL THEN None
    ELSE Some([callsign |-> callbook_interest_search_match_callsign(p),
               vintage |-> _optional_int(callbook_interest_search_match_vintage(p))])

InterestSearch(p) ==
    [code |-> callbook_interest_search_code(p),
     definition |-> InterestDefinition(callbook_interest_search_definition(p)),
     matches |-> Items(callbook_interest_search_match_len(p),
                       LAMBDA i : callbook_interest_search_match_get(p, i),
                       InterestSearchMatch)]

\* A C program's walk through a catalog.
CountryCatalog(p) ==
    Items(callbook_country_catalog_len(p),
          LAMBDA i : callbook_country_catalog_get(p, i), CountryInfo)
CountsCatalog(p) ==
    Items(callbook_lookup_counts_catalog_len(p),
          LAMBDA i : callbook_lookup_counts_catalog_get(p, i), LookupCount)

\* All that the properties of a wrapper show.
Shown(kind, p) ==
    CASE kind = "result" -> LookupResult(p)
      [] kind = "profile" -> StationProfile(p)
      [] kind = "search" -> InterestSearch(p)
      [] kind = "country_catalog" -> CountryCatalog(p)
      [] kind = "counts_catalog" -> CountsCatalog(p)

\* from_ptr of an object that is freed by the call that got it.
Copied(kind, p) ==
    CASE kind = "country" -> CountryInfo(p)
      [] kind = "count" -> LookupCount(p)
      [] kind = "us_record" -> UsRecord(p)
      [] kind = "definition" -> InterestDefinition(p)

-----------------------------------------------------------------------------
(* Methods that get a boxed object *)

\* The kind of object that a method gets.
Wrapping == [lookup |-> "result", profile |-> "profile", search_interest |-> "search",
             country_catalog |-> "country_catalog", counts_catalog |-> "counts_catalog"]
Passing == [country_info |-> "country", lookup_count |-> "count",
            current_us_lookup |-> "us_record", interest_definition |-> "definition"]
Kind == [m \in DOMAIN Wrapping \cup DOMAIN Passing \cup {"open"} |->
            IF m = "open" THEN "db"
            ELSE IF m \in DOMAIN Wrapping THEN Wrapping[m] ELSE Passing[m]]

Arguments(method) ==
    IF method \in {"country_catalog", "counts_catalog"} THEN {""} ELSE Argument \cup {Unreadable}

\* What the library may answer to a method on the handle db.
Answers(method, db, x) ==
    CASE method = "lookup" -> {callbook_lookup_modern(db, x, Library.lookup[x])}
      [] method = "profile" ->
            {callbook_profile_for_callsign(db, x, answer) : answer \in Library.profile[x]}
      [] method = "search_interest" ->
            {callbook_interest_search_for_code(db, x, Library.search[x])}
      [] method = "country_catalog" -> {callbook_country_catalog_open(db)}
      [] method = "counts_catalog" ->
            {callbook_lookup_counts_catalog_open(db, answer) : answer \in Library.counts}
      [] method = "country_info" ->
            {callbook_country_info_for_callsign(db, x, Library.country[x])}
      [] method = "lookup_count" ->
            {callbook_lookup_count_for_callsign(db, x, answer) : answer \in Library.count[x]}
      [] method = "current_us_lookup" -> {callbook_current_us_lookup(db, x)}
      [] method = "interest_definition" -> {callbook_interest_catalog_lookup(db, x)}

\* No thread is between freeing the object and forgetting its address: a program
\* that keeps the contract does not use a wrapper, or close it, at this point.
Usable(o) == \A t \in Thread : ~(jobs[t].at = "closing" /\ jobs[t].on = <<o>>)

\* The call has returned `answer', with its object at `out'.
Received(t, method, o, x, answer) ==
    \E out \in {NULL} \cup {<<a>> : a \in Address} :
        /\ Allocate(answer, out)
        /\ jobs' = [jobs EXCEPT ![t] =
                      [Idle EXCEPT !.at = "received", !.does = method, !.on = o, !.of = x,
                                   !.out = out, !.code = answer.code]]

\* A bound: there is a wrapper left for whatever threads are getting.
Room(method) ==
    method \in DOMAIN Passing
        \/ Cardinality({o \in Object : objects[o] = Unbound})
              > Cardinality({t \in Thread : jobs[t].at = "received"
                                                /\ jobs[t].does \notin DOMAIN Passing})

\* CallBook.open; whether the tree opens is not this module's affair.
CallOpen(t) ==
    /\ jobs[t].at = "idle"
    /\ Room("open")
    /\ \E path \in {"tree", Unreadable}, opened \in BOOLEAN :
          Received(t, "open", None, "", callbook_open(path, opened))
    /\ UNCHANGED <<worldFile, program, objects, gens, changes>>

\* A method of a CallBook, open or closed.
CallMethod(t) ==
    /\ jobs[t].at = "idle"
    /\ \E b \in Books, method \in program \cap (DOMAIN Wrapping \cup DOMAIN Passing) :
          /\ Usable(b) /\ Room(method)
          /\ \E x \in Arguments(method) : \E answer \in Answers(method, objects[b].pointer, x) :
                Received(t, method, <<b>>, x, answer)
    /\ UNCHANGED <<worldFile, program, objects, gens, changes>>

Answer(t, error, value) ==
    jobs' = [jobs EXCEPT ![t].at = "answered", ![t].out = NULL, ![t].error = error,
                         ![t].value = value]

\* _check, then a new wrapper for the address.
Wrap(t) ==
    /\ jobs[t].at = "received" /\ jobs[t].does \notin DOMAIN Passing
    /\ IF jobs[t].code # OK THEN Answer(t, jobs[t].code, None) /\ UNCHANGED objects
       ELSE \E o \in Object :
               /\ objects[o] = Unbound
               /\ objects' = [objects EXCEPT ![o] =
                     [kind |-> Kind[jobs[t].does], pointer |-> jobs[t].out, of |-> jobs[t].of]]
               /\ Answer(t, OK, None)
    /\ UNCHANGED <<heap, worldFile, program, gens, changes>>

\* A temporary object: NOT_FOUND is None, another error is raised, else it is copied.
Copy(t) ==
    /\ jobs[t].at = "received" /\ jobs[t].does \in DOMAIN Passing
    /\ IF jobs[t].code = NOT_FOUND THEN Answer(t, OK, None)
       ELSE IF jobs[t].code # OK THEN Answer(t, jobs[t].code, None)
       ELSE jobs' = [jobs EXCEPT ![t].at = "copied",
                        ![t].value = Copied(Kind[jobs[t].does], jobs[t].out)]
    /\ UNCHANGED <<heap, worldFile, program, objects, gens, changes>>

FreeKind(kind, p) ==
    CASE kind = "db" -> callbook_close(p)
      [] kind = "result" -> callbook_result_free(p)
      [] kind = "profile" -> callbook_profile_free(p)
      [] kind = "search" -> callbook_interest_search_free(p)
      [] kind = "country_catalog" -> callbook_country_catalog_free(p)
      [] kind = "counts_catalog" -> callbook_lookup_counts_catalog_free(p)
      [] kind = "country" -> callbook_country_info_free(p)
      [] kind = "count" -> callbook_lookup_count_free(p)
      [] kind = "us_record" -> callbook_us_record_free(p)
      [] kind = "definition" -> callbook_interest_definition_free(p)

\* The `finally' of a method with a temporary object.
FreeTemporary(t) ==
    /\ jobs[t].at = "copied"
    /\ FreeKind(Kind[jobs[t].does], jobs[t].out)
    /\ Answer(t, OK, jobs[t].value)
    /\ UNCHANGED <<worldFile, program, objects, gens, changes>>

\* The properties of a wrapper that is not a CallBook.
Read(t) ==
    /\ jobs[t].at = "idle"
    /\ \E o \in Object :
          /\ objects[o].kind \in {"result", "profile", "search", "country_catalog",
                                  "counts_catalog"}
          /\ Usable(o)
          /\ jobs' = [jobs EXCEPT ![t] =
                [Idle EXCEPT !.at = "answered", !.does = "read", !.on = <<o>>,
                             !.of = objects[o].of, !.code = IF objects[o].pointer = NULL
                                                                THEN USAGE ELSE OK,
                             !.value = Some(Shown(objects[o].kind, objects[o].pointer))]]
    /\ UNCHANGED <<heap, worldFile, program, objects, gens, changes>>

Return(t) ==
    /\ jobs[t].at = "answered"
    /\ jobs' = [jobs EXCEPT ![t] = Idle]
    /\ UNCHANGED <<heap, worldFile, program, objects, gens, changes>>

-----------------------------------------------------------------------------
(* close, __exit__ and __del__ *)

\* `if self._pointer' and the call that frees.
CloseBegin(t) ==
    /\ jobs[t].at = "idle"
    /\ \E o \in Object :
          /\ objects[o].pointer # NULL /\ Usable(o)
          /\ FreeKind(objects[o].kind, objects[o].pointer)
          /\ jobs' = [jobs EXCEPT ![t] = [Idle EXCEPT !.at = "closing", !.on = <<o>>]]
    /\ UNCHANGED <<worldFile, program, objects, gens, changes>>

\* Deviation: the address of the freed object stays in the wrapper.
CloseEndKeepingPointer(t) ==
    /\ jobs[t].at = "closing"
    /\ jobs' = [jobs EXCEPT ![t] = Idle]
    /\ UNCHANGED <<heap, worldFile, program, objects, gens, changes>>

\* self._pointer = 0
CloseEnd(t) ==
    /\ jobs[t].at = "closing"
    /\ objects' = [objects EXCEPT ![jobs[t].on[1]].pointer = NULL]
    /\ jobs' = [jobs EXCEPT ![t] = Idle]
    /\ UNCHANGED <<heap, worldFile, program, gens, changes>>

Referenced(o) == \/ \E t \in Thread : jobs[t].on = <<o>>
                 \/ \E g \in Generator : gens[g].on = <<o>>

\* A closed wrapper that nothing refers to any more.
Collect(o) ==
    /\ objects[o] # Unbound /\ objects[o].pointer = NULL /\ ~Referenced(o)
    /\ objects' = [objects EXCEPT ![o] = Unbound]
    /\ UNCHANGED <<heap, worldFile, program, jobs, gens, changes>>

-----------------------------------------------------------------------------
(* Generators *)

GeneratorMethods == {"current_us_records", "interest_definitions"}
RecordKind(method) == IF method = "current_us_records" THEN "us_record" ELSE "definition"
CountOf(method, db) ==
    IF method = "current_us_records" THEN callbook_current_us_record_count(db)
    ELSE callbook_interest_catalog_len(db)
RecordAt(method, db, index) ==
    IF method = "current_us_records" THEN callbook_current_us_record_get(db, index)
    ELSE callbook_interest_catalog_get(db, index)

\* The call makes a generator and runs nothing of it.
Generate(g) ==
    /\ gens[g].at = "unused"
    /\ \E b \in Books, method \in program \cap GeneratorMethods :
          gens' = [gens EXCEPT ![g] = [NoGen EXCEPT !.at = "fresh", !.does = method, !.on = <<b>>]]
    /\ UNCHANGED <<heap, worldFile, program, objects, jobs, changes>>

Pointer(g) == objects[gens[g].on[1]].pointer

\* Deviation: the record that was yielded is not freed when the loop goes on.
NextWithoutFree(g) ==
    /\ gens[g].at = "suspended" /\ Usable(gens[g].on[1])
    /\ gens' = [gens EXCEPT ![g].at = "running", ![g].index = @ + 1, ![g].out = NULL]
    /\ UNCHANGED <<heap, worldFile, program, objects, jobs, changes>>

\* Deviation: the position is not moved on.
NextInPlace(g) ==
    /\ gens[g].at = "suspended" /\ Usable(gens[g].on[1])
    /\ FreeKind(RecordKind(gens[g].does), gens[g].out)
    /\ gens' = [gens EXCEPT ![g].at = "running", ![g].out = NULL]
    /\ UNCHANGED <<worldFile, program, objects, jobs, changes>>

\* The first `next' asks for the length, once.
FirstNext(g) ==
    /\ gens[g].at = "fresh" /\ Usable(gens[g].on[1])
    /\ gens' = [gens EXCEPT ![g].at = "running", ![g].began = Pointer(g) # NULL,
                            ![g].count = CountOf(gens[g].does, Pointer(g))]
    /\ UNCHANGED <<heap, worldFile, program, objects, jobs, changes>>

\* A later one comes back from the `yield' and through the `finally'.
LaterNext(g) ==
    /\ gens[g].at = "suspended" /\ Usable(gens[g].on[1])
    /\ FreeKind(RecordKind(gens[g].does), gens[g].out)
    /\ gens' = [gens EXCEPT ![g].at = "running", ![g].index = @ + 1, ![g].out = NULL]
    /\ UNCHANGED <<worldFile, program, objects, jobs, changes>>

\* The rest of the step: the end, an error, or the next record, copied and yielded.
Fetch(g) ==
    /\ gens[g].at = "running" /\ Usable(gens[g].on[1])
    /\ IF gens[g].index >= gens[g].count
         THEN gens' = [gens EXCEPT ![g].at = "ended", ![g].on = None] /\ heap' = heap
         ELSE LET answer == RecordAt(gens[g].does, Pointer(g), gens[g].index) IN
              \E out \in {NULL} \cup {<<a>> : a \in Address} :
                 /\ Allocate(answer, out)
                 /\ gens' = [gens EXCEPT ![g] =
                       IF answer.code # OK
                           THEN [@ EXCEPT !.at = "ended", !.on = None, !.error = answer.code]
                           ELSE [@ EXCEPT !.at = "yielding", !.out = out]]
    /\ UNCHANGED <<worldFile, program, objects, jobs, changes>>

Yield(g) ==
    /\ gens[g].at = "yielding"
    /\ gens' = [gens EXCEPT ![g].at = "suspended",
                   ![g].yielded = @ \o Copied(RecordKind(gens[g].does), gens[g].out)]
    /\ UNCHANGED <<heap, worldFile, program, objects, jobs, changes>>

\* The generator is closed or collected: GeneratorExit at the `yield'.
Exit(g) ==
    /\ gens[g].at \in {"fresh", "suspended", "ended"}
    /\ FreeKind(RecordKind(gens[g].does), gens[g].out)
    /\ gens' = [gens EXCEPT ![g] = NoGen]
    /\ UNCHANGED <<worldFile, program, objects, jobs, changes>>

-----------------------------------------------------------------------------
(* A text whose length is asked for in one call and that is filled in by the next. *)

SizedMethods == {"map_svg", "lookup_json"}
Renderings(method, db, x) ==
    IF db = NULL THEN {[code |-> USAGE, text |-> {}, heap |-> heap]}
    ELSE IF method = "lookup_json"
        THEN {[code |-> lookup_json(Library.lookup[x]).code,
               text |-> lookup_json(Library.lookup[x]).text, heap |-> heap]}
    ELSE {[code |-> map_svg(db, station).code, text |-> map_svg(db, station).text,
           heap |-> Rendered(db, station)] : station \in Library.map[x]}
RequiredLen(method, rendering) ==
    IF method = "map_svg" THEN callbook_map_svg_required_len(rendering)
    ELSE callbook_lookup_json_required_len(rendering)
FilledLen(method, rendering, cap) ==
    IF method = "map_svg" THEN callbook_map_svg(rendering, cap)
    ELSE callbook_lookup_json(rendering, cap)

\* NOT_FOUND is None, another error is raised, else a buffer of that length is made.
Ask(t, b, method, x) ==
    /\ Usable(b)
    /\ \E rendering \in Renderings(method, objects[b].pointer, x) :
          LET required == RequiredLen(method, rendering) IN
          /\ heap' = rendering.heap
          /\ jobs' = [jobs EXCEPT ![t] =
                [Idle EXCEPT !.at = IF required < 0 THEN "answered" ELSE "sized",
                             !.does = method, !.on = <<b>>, !.of = x,
                             !.required = required,
                             !.error = IF required < 0 /\ required # NOT_FOUND
                                           THEN required ELSE OK]]
    /\ UNCHANGED <<worldFile, program, objects, gens, changes>>

AskLength(t) ==
    /\ jobs[t].at = "idle"
    /\ \E b \in Books, method \in program \cap SizedMethods, x \in Argument : Ask(t, b, method, x)

\* Any error of the second call is raised, NOT_FOUND as well.
Fill(t) ==
    /\ jobs[t].at = "sized" /\ Usable(jobs[t].on[1])
    /\ \E rendering \in Renderings(jobs[t].does, objects[jobs[t].on[1]].pointer, jobs[t].of) :
          LET written == FilledLen(jobs[t].does, rendering, jobs[t].required) IN
          /\ heap' = rendering.heap
          /\ IF written < 0 THEN Answer(t, written, None)
             ELSE Answer(t, OK, Some(rendering.text))
    /\ UNCHANGED <<worldFile, program, objects, gens, changes>>

ChangeWorldFile ==
    /\ "map_svg" \in program   \* nobody else looks at it
    /\ changes < MaxWorldChanges
    /\ \E now \in {"absent", "intact", "broken"} \ {worldFile} : worldFile' = now
    /\ changes' = changes + 1
    /\ jobs' = [t \in Thread |-> IF jobs[t].at = "sized"
                                     THEN [jobs[t] EXCEPT !.changed = TRUE] ELSE jobs[t]]
    /\ UNCHANGED <<heap, program, objects, gens>>

-----------------------------------------------------------------------------
Init ==
    /\ program \in Programs
    /\ heap = [a \in Address |-> Freed]
    /\ worldFile \in {"absent", "intact", "broken"}
    /\ objects = [o \in Object |-> Unbound]
    /\ jobs = [t \in Thread |-> Idle]
    /\ gens = [g \in Generator |-> NoGen]
    /\ changes = 0

\* The steps of a method that a thread is in.
Progress(t) == Wrap(t) \/ Copy(t) \/ FreeTemporary(t) \/ CloseEnd(t) \/ Fill(t)

Next ==
    \/ \E t \in Thread : \/ CallOpen(t) \/ CallMethod(t) \/ Read(t) \/ Return(t)
                         \/ CloseBegin(t) \/ AskLength(t) \/ Progress(t)
    \/ \E o \in Object : Collect(o)
    \/ \E g \in Generator : \/ Generate(g) \/ FirstNext(g) \/ LaterNext(g) \/ Fetch(g)
                            \/ Yield(g) \/ Exit(g)
    \/ ChangeWorldFile

Spec == Init /\ [][Next]_vars

-----------------------------------------------------------------------------
(* What the library's answers mean to a reader: the reference for the copies *)

Snake == [UnitedStates |-> "united_states", Canada |-> "canada",
          International |-> "international", Unknown |-> "unknown",
          Current |-> "current", ArchiveOnly |-> "archive_only", NotFound |-> "not_found",
          Biography |-> "biography", Photo |-> "photo", Flag |-> "flag", Map |-> "map",
          SidecarData |-> "sidecar_data"]
\* The library's name of an attribute where it has another one.
LibraryName(n) == CASE n = "name" -> "display_name"
                    [] n = "interests" -> "interest_codes_raw" [] OTHER -> n
UsName(n) == IF n = "class_" THEN "class" ELSE n

MeantSnapshot(s) ==
    [fields |-> [n \in DOMAIN FIELD_NAMES |-> OrElse(s.texts[LibraryName(n)], Empty)],
     vintage |-> s.vintage, source_flags |-> source_flags(s.sources),
     jurisdiction |-> Snake[s.jurisdiction], interests |-> s.interests]
MeantCountry(c) ==
    [name |-> c.name, cleaned_name |-> c.cleaned_name, code |-> c.code,
     jurisdiction |-> Snake[c.jurisdiction], itu_zone |-> c.itu_zone, cq_zone |-> c.cq_zone,
     continent |-> c.continent, latitude |-> c.latitude, longitude |-> c.longitude,
     numeric_code |-> c.numeric_code, source |-> CountrySource[c.source]]
MeantCount(c) == c
MeantAsset(a) == [a EXCEPT !.kind = Snake[@]]
MeantResult(r) ==
    [query |-> r.query, status |-> Snake[r.status], current |-> Each(MeantSnapshot, r.current),
     history |-> Each(MeantSnapshot, r.history)]
MeantProfile(p) ==
    [callsign |-> p.callsign, status |-> Snake[p.status],
     current |-> Each(MeantSnapshot, p.current), history_snapshot_count |-> p.snapshot_count,
     history_vintages |-> p.vintages, country |-> Each(MeantCountry, p.country),
     lookup_count |-> Each(MeantCount, p.lookup_count),
     assets |-> Each(MeantAsset, p.photos \o p.bio \o p.country_flag \o p.country_map)]
MeantUs(r) == [n \in DOMAIN US_FIELD_NAMES |-> r[UsName(n)]]
MeantDefinition(d) == [code |-> d.code, category |-> d.category, label |-> d.label]
MeantSearch(s) ==
    [code |-> s.code, definition |-> Each(MeantDefinition, s.definition), matches |-> s.matches]

Values(answers) == {a.value : a \in {b \in answers : b.ok}}

MeantShown(kind, x) ==
    CASE kind = "result" -> {MeantResult(Library.lookup[x].value)}
      [] kind = "profile" -> {MeantProfile(p) : p \in Values(Library.profile[x])}
      [] kind = "search" -> {MeantSearch(Library.search[x].value)}
      [] kind = "country_catalog" -> {Each(MeantCountry, Library.countries)}
      [] kind = "counts_catalog" -> {Each(MeantCount, c[1]) : c \in Values(Library.counts) \ {None}}
MeantCopied(method, x) ==
    CASE method = "country_info" -> {Each(MeantCountry, Library.country[x])}
      [] method = "lookup_count" -> {Each(MeantCount, c) : c \in Values(Library.count[x])}
      [] method = "current_us_lookup" -> {Each(MeantUs, Found(Library.us, x))}
      [] method = "interest_definition" -> {Each(MeantDefinition, Found(Library.interests, x))}
MeantRows(method) ==
    IF method = "current_us_records" THEN Each(MeantUs, Rows(Library.us))
    ELSE Each(MeantDefinition, Rows(Library.interests))

-----------------------------------------------------------------------------
(* Properties *)

\* Who is to free an object: a wrapper that is not being closed, a thread with a
\* temporary object or one that is not wrapped yet, a generator.
Holders ==
    {<<"object", o>> : o \in {o \in Object : objects[o].pointer # NULL /\ Usable(o)}}
        \cup {<<"job", t>> : t \in {t \in Thread : jobs[t].out # NULL}}
        \cup {<<"generator", g>> : g \in {g \in Generator : gens[g].out # NULL}}
Held(h) == CASE h[1] = "object" -> objects[h[2]].pointer
             [] h[1] = "job" -> jobs[h[2]].out
             [] h[1] = "generator" -> gens[h[2]].out
HeldKind(h) == CASE h[1] = "object" -> objects[h[2]].kind
                 [] h[1] = "job" -> Kind[jobs[h[2]].does]
                 [] h[1] = "generator" -> RecordKind(gens[h[2]].does)

ObjectKinds == {"db", "result", "profile", "search", "country_catalog", "counts_catalog"}
PointerValues == {NULL} \cup {<<a>> : a \in Address}

\* The variables have their types; a pointer that is kept is the address of a whole object.
TypeOK ==
    /\ \A a \in Address : heap[a].kind \in {"free"} \cup {Kind[m] : m \in DOMAIN Kind}
    /\ worldFile \in {"absent", "intact", "broken"}
    /\ \A o \in Object : /\ objects[o].kind \in ObjectKinds \cup {"none"}
                         /\ objects[o].pointer \in PointerValues
    /\ \A t \in Thread : /\ jobs[t].out \in PointerValues
                         /\ jobs[t].on \in {None} \cup {<<o>> : o \in Object}
    /\ \A g \in Generator : /\ gens[g].out \in PointerValues
                            /\ gens[g].on \in {None} \cup {<<o>> : o \in Object}
    /\ changes \in 0..MaxWorldChanges

\* Every address that the package keeps is that of a live object of the kind it takes it
\* for, and nothing else keeps it: no call of the library meets a freed object, and none
\* is freed twice, whatever is closed, collected, suspended or raised meanwhile.
OneOwner ==
    /\ \A h \in Holders : heap[Held(h)[1]].kind = HeldKind(h)
    /\ \A h, k \in Holders : Held(h) = Held(k) => h = k

\* Every live object will be freed by somebody: no error, early end or exception of a
\* method, a `with' block or a generator loses one.
NothingLeaks ==
    \A a \in Address : heap[a] # Freed => \E h \in Holders : Held(h) = <<a>>

\* What a program gets to see is the library's answer to what it asked for, attribute by
\* attribute through the field numbers, enumerations and defaults of both languages,
\* also when the address was another object's before or the CallBook is closed by then.
ReadsOwnAnswer ==
    \A t \in Thread :
        LET job == jobs[t] IN
        job.at = "answered" /\ job.error = OK =>
            /\ job.does \in DOMAIN Passing => job.value \in MeantCopied(job.does, job.of)
            /\ job.does = "read" /\ job.code = OK
                  => job.value[1] \in MeantShown(objects[job.on[1]].kind, job.of)

\* A generator yields the rows of the catalog in their order, each once; unless it ends with
\* an error it has yielded all of them, if the CallBook was open when it began.
GeneratorsYieldRows ==
    \A g \in Generator :
        LET gen == gens[g] IN
        gen.at # "unused" =>
            /\ gen.yielded = SubSeq(MeantRows(gen.does), 1, Len(gen.yielded))
            /\ gen.at = "ended" /\ gen.began /\ gen.error = OK
                  => gen.yielded = MeantRows(gen.does)

\* The length that was asked for is enough for the text, unless wc.dat changed between the
\* two calls: both render the map anew, from a cache that other threads may fill.
TooSmallMeansChanged ==
    \A t \in Thread :
        jobs[t].at = "answered" /\ jobs[t].error = BUFFER_TOO_SMALL => jobs[t].changed
=============================================================================
