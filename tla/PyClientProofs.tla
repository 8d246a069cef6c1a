---------------------------- MODULE PyClientProofs ----------------------------
(***************************************************************************)
(* Theorems about PyClient: for any number of threads, wrappers, addresses *)
(* and generators, whatever the allocator hands out and the library        *)
(* answers, every boxed object has exactly one owner and is what this one  *)
(* asked for, and programs read nothing else.                              *)
(*                                                                         *)
(* The owners are wrappers, methods and generators.  A step gives an       *)
(* object to an owner that has none (Take), frees it (Drop), hands it over *)
(* (Move) or leaves it where it is (Keep); a lemma for each says that the  *)
(* ownership (Owned) is preserved, and the proof of an action shows which  *)
(* of them it is.                                                          *)
(***************************************************************************)
EXTENDS PyClient, TLAPS, WellFoundedInduction, SequenceTheorems

Owner == ({"object"} \X Object) \cup ({"job"} \X Thread) \cup ({"generator"} \X Generator)

\* What an owner is to free, NULL if nothing, and what it takes it for.
OwnedBy(h) == IF h[1] = "object" THEN IF Usable(h[2]) THEN objects[h[2]].pointer ELSE NULL
              ELSE IF h[1] = "job" THEN jobs[h[2]].out ELSE gens[h[2]].out
\* What the library may put into a box of a kind, asked for x.
Bodies(kind, x) ==
    CASE kind = "db" -> {[world |-> w] : w \in {"unread", "loaded"}}
      [] kind = "result" -> {callbook_lookup_result(r) : r \in Values({Library.lookup[x]})}
      [] kind = "profile" -> {callbook_profile(p) : p \in Values(Library.profile[x])}
      [] kind = "search" ->
            {callbook_interest_search_result(s) : s \in Values({Library.search[x]})}
      [] kind = "country" ->
            {callbook_country_info(c[1]) : c \in {Library.country[x]} \ {None}}
      [] kind = "count" ->
            {callbook_lookup_count(c[1]) : c \in Values(Library.count[x]) \ {None}}
      [] kind = "us_record" ->
            {callbook_us_record(r[1]) : r \in {Found(Library.us, x)} \ {None}}
      [] kind = "definition" ->
            {callbook_interest_definition(d[1]) : d \in {Found(Library.interests, x)} \ {None}}
      [] kind = "country_catalog" ->
            {[records |-> Each(callbook_country_info, Library.countries)]}
      [] kind = "counts_catalog" ->
            {[records |-> Each(callbook_lookup_count, c[1])] :
                c \in Values(Library.counts) \ {None}}
\* An argument that is not a text gets nothing.
Asked(kind, x) == kind \in {"db", "country_catalog", "counts_catalog"} \/ x \in Argument
Boxes(kind, x) == {Box(kind, body) : body \in IF Asked(kind, x) THEN Bodies(kind, x) ELSE {}}
CallBooks == Boxes("db", "")

\* The record of a catalog at an index, as a generator of the method gets it.
RowBoxes(method, index) ==
    IF method = "current_us_records"
        THEN {Box("us_record", callbook_us_record(Rows(Library.us)[i + 1])) :
                 i \in IF index < 0 \/ index >= Len(Rows(Library.us)) THEN {} ELSE {index}}
        ELSE {Box("definition", callbook_interest_definition(Rows(Library.interests)[i + 1])) :
                 i \in IF index < 0 \/ index >= Len(Rows(Library.interests)) THEN {} ELSE {index}}

TakenFor(h) == IF h[1] = "object" THEN Boxes(objects[h[2]].kind, objects[h[2]].of)
               ELSE IF h[1] = "job" THEN Boxes(Kind[jobs[h[2]].does], jobs[h[2]].of)
               ELSE RowBoxes(gens[h[2]].does, gens[h[2]].index)
Own == [h \in Owner |-> OwnedBy(h)]
For == [h \in Owner |-> TakenFor(h)]

\* Every owned object is live and what it is taken for, and every live object has exactly
\* one owner.
Owned(cells, own, for) ==
    /\ \A h \in Owner : own[h] # NULL =>
          /\ own[h] \in PointerValues
          /\ Freed \notin for[h]
          /\ cells[own[h][1]] \in for[h]
    /\ \A h, k \in Owner : own[h] # NULL /\ own[h] = own[k] => h = k
    /\ \A a \in Address : cells[a] # Freed => \E h \in Owner : own[h] = <<a>>

-----------------------------------------------------------------------------
(* What a step does to the ownership *)

\* The address of a box is not NULL.
LEMMA AddressIsNotNull ==
    ASSUME NEW a
    PROVE  <<a>> # NULL /\ <<a>>[1] = a
  <1>1. Len(<<a>>) = 1 /\ Len(NULL) = 0
    BY DEF NULL
  <1> QED
    BY <1>1

\* An owner without an object gets a new one.
LEMMA Take ==
    ASSUME NEW cells, NEW own, NEW for, NEW own2, NEW for2, NEW cells2,
           Owned(cells, own, for),
           NEW h \in Owner, own[h] = NULL,
           NEW a \in Address, cells[a] = Freed,
           cells2[a] \in for2[h], Freed \notin for2[h],
           \A b \in Address : b # a => cells2[b] = cells[b],
           own2[h] = <<a>>,
           \A k \in Owner : k # h => own2[k] = own[k] /\ (own[k] # NULL => for2[k] = for[k])
    PROVE  Owned(cells2, own2, for2)
  <1>2. ASSUME NEW k \in Owner, k # h, own2[k] # NULL
        PROVE  own2[k] \in PointerValues /\ own2[k][1] \in Address /\ own2[k][1] # a
    <2>1. own[k] # NULL /\ own[k] \in PointerValues /\ Freed \notin for[k]
          /\ cells[own[k][1]] \in for[k] /\ own2[k] = own[k]
      BY <1>2 DEF Owned
    <2>2. PICK b \in Address : own[k] = <<b>>
      BY <2>1 DEF PointerValues
    <2> QED
      BY <2>1, <2>2
  <1>3. ASSUME NEW k \in Owner, own2[k] # NULL
        PROVE  own2[k] \in PointerValues /\ Freed \notin for2[k] /\ cells2[own2[k][1]] \in for2[k]
    <2>1. CASE k = h
      BY <2>1 DEF PointerValues
    <2>2. CASE k # h
      <3>1. own2[k] = own[k] /\ for2[k] = for[k]
        BY <1>3, <2>2
      <3>2. Freed \notin for[k] /\ cells[own[k][1]] \in for[k]
        BY <1>3, <3>1 DEF Owned
      <3> QED
        BY <1>2, <1>3, <2>2, <3>1, <3>2
    <2> QED
      BY <2>1, <2>2
  <1>4. ASSUME NEW k \in Owner, NEW l \in Owner, own2[k] # NULL, own2[k] = own2[l]
        PROVE  k = l
    <2>1. ASSUME k # h, l # h
          PROVE  k = l
      BY <1>4, <2>1 DEF Owned
    <2>2. ASSUME k = h, l # h
          PROVE  FALSE
      BY <1>2, <1>4, <2>2
    <2>3. ASSUME k # h, l = h
          PROVE  FALSE
      BY <1>2, <1>4, <2>3
    <2> QED
      BY <2>1, <2>2, <2>3
  <1>5. ASSUME NEW b \in Address, cells2[b] # Freed
        PROVE  \E k \in Owner : own2[k] = <<b>>
    <2>1. CASE b = a
      BY <2>1
    <2>2. CASE b # a
      <3>1. cells[b] # Freed
        BY <1>5, <2>2
      <3>2. PICK k \in Owner : own[k] = <<b>>
        BY <3>1 DEF Owned
      <3>3. k # h
        BY <3>2, AddressIsNotNull
      <3> QED
        BY <3>2, <3>3
    <2> QED
      BY <2>1, <2>2
  <1> QED
    BY <1>3, <1>4, <1>5 DEF Owned

\* An owner frees what it has, if it has something.
LEMMA Drop ==
    ASSUME NEW cells, NEW own, NEW for, NEW own2, NEW for2, NEW cells2,
           Owned(cells, own, for),
           NEW h \in Owner,
           \A b \in Address : cells2[b] = IF own[h] = <<b>> THEN Freed ELSE cells[b],
           own2[h] = NULL,
           \A k \in Owner : k # h => own2[k] = own[k] /\ (own[k] # NULL => for2[k] = for[k])
    PROVE  Owned(cells2, own2, for2)
  <1>1. ASSUME NEW k \in Owner, own2[k] # NULL
        PROVE  own2[k] \in PointerValues /\ Freed \notin for2[k] /\ cells2[own2[k][1]] \in for2[k]
    <2>1. k # h /\ own2[k] = own[k] /\ for2[k] = for[k]
      BY <1>1
    <2>2. own[k] \in PointerValues /\ Freed \notin for[k] /\ cells[own[k][1]] \in for[k]
      BY <1>1, <2>1 DEF Owned
    <2>3. PICK b \in Address : own[k] = <<b>>
      BY <1>1, <2>1, <2>2 DEF PointerValues
    <2>4. own[h] # <<b>>
      <3>1. own[h] # own[k]
        BY <1>1, <2>1 DEF Owned
      <3> QED
        BY <2>3, <3>1
    <2>5. cells2[b] = cells[b]
      BY <2>4
    <2> QED
      BY <2>1, <2>2, <2>3, <2>5
  <1>2. ASSUME NEW k \in Owner, NEW l \in Owner, own2[k] # NULL, own2[k] = own2[l]
        PROVE  k = l
    <2>1. k # h /\ l # h
      BY <1>2
    <2> QED
      BY <1>2, <2>1 DEF Owned
  <1>3. ASSUME NEW b \in Address, cells2[b] # Freed
        PROVE  \E k \in Owner : own2[k] = <<b>>
    <2>1. cells[b] # Freed
      BY <1>3
    <2>2. PICK k \in Owner : own[k] = <<b>>
      BY <2>1 DEF Owned
    <2>3. k # h
      <3>1. ASSUME k = h
            PROVE  FALSE
        <4>1. cells2[b] = Freed
          BY <2>2, <3>1
        <4> QED
          BY <1>3, <4>1
      <3> QED
        BY <3>1
    <2> QED
      BY <2>2, <2>3
  <1> QED
    BY <1>1, <1>2, <1>3 DEF Owned

\* An owner hands what it has to one that has nothing.
LEMMA Move ==
    ASSUME NEW cells, NEW own, NEW for, NEW own2, NEW for2,
           Owned(cells, own, for),
           NEW h \in Owner, NEW to \in Owner, h # to,
           own[to] = NULL, own2[h] = NULL, own2[to] = own[h], for2[to] = for[h],
           \A k \in Owner : k # h /\ k # to => own2[k] = own[k] /\ (own[k] # NULL => for2[k] = for[k])
    PROVE  Owned(cells, own2, for2)
  <1>1. ASSUME NEW k \in Owner, own2[k] # NULL
        PROVE  own2[k] \in PointerValues /\ Freed \notin for2[k] /\ cells[own2[k][1]] \in for2[k]
    <2>1. CASE k = to
      BY <1>1, <2>1 DEF Owned
    <2>2. CASE k # to
      BY <1>1, <2>2 DEF Owned
    <2> QED
      BY <2>1, <2>2
  <1>2. ASSUME NEW k \in Owner, NEW l \in Owner, own2[k] # NULL, own2[k] = own2[l]
        PROVE  k = l
    <2>1. k # h /\ l # h
      BY <1>2
    <2>2. CASE k = to
      <3>1. ASSUME l # to
            PROVE  FALSE
        BY <1>2, <2>1, <2>2, <3>1 DEF Owned
      <3> QED
        BY <2>2, <3>1
    <2>3. CASE l = to
      <3>1. ASSUME k # to
            PROVE  FALSE
        BY <1>2, <2>1, <2>3, <3>1 DEF Owned
      <3> QED
        BY <2>3, <3>1
    <2>4. CASE k # to /\ l # to
      BY <1>2, <2>1, <2>4 DEF Owned
    <2> QED
      BY <2>2, <2>3, <2>4
  <1>3. ASSUME NEW b \in Address, cells[b] # Freed
        PROVE  \E k \in Owner : own2[k] = <<b>>
    <2>1. PICK k \in Owner : own[k] = <<b>>
      BY <1>3 DEF Owned
    <2>2. k # to
      BY <2>1, AddressIsNotNull
    <2> QED
      BY <2>1, <2>2
  <1> QED
    BY <1>1, <1>2, <1>3 DEF Owned

\* Nobody gets or loses an object, and an object stays what it is taken for.
LEMMA Keep ==
    ASSUME NEW cells, NEW own, NEW for, NEW own2, NEW for2, NEW cells2,
           Owned(cells, own, for),
           \A a \in Address : cells2[a] # Freed => cells[a] # Freed,
           \A a \in Address, k \in Owner : cells[a] \in for[k] => cells2[a] \in for[k],
           \A k \in Owner : own2[k] = own[k] /\ (own[k] # NULL => for2[k] = for[k])
    PROVE  Owned(cells2, own2, for2)
  <1>1. ASSUME NEW k \in Owner, own2[k] # NULL
        PROVE  own2[k] \in PointerValues /\ Freed \notin for2[k] /\ cells2[own2[k][1]] \in for2[k]
    <2>1. own[k] \in PointerValues /\ Freed \notin for[k] /\ cells[own[k][1]] \in for[k]
      BY <1>1 DEF Owned
    <2>2. PICK b \in Address : own[k] = <<b>>
      BY <1>1, <2>1 DEF PointerValues
    <2> QED
      BY <1>1, <2>1, <2>2
  <1>2. ASSUME NEW k \in Owner, NEW l \in Owner, own2[k] # NULL, own2[k] = own2[l]
        PROVE  k = l
    BY <1>2 DEF Owned
  <1>3. ASSUME NEW b \in Address, cells2[b] # Freed
        PROVE  \E k \in Owner : own2[k] = <<b>>
    BY <1>3 DEF Owned
  <1> QED
    BY <1>1, <1>2, <1>3 DEF Owned

-----------------------------------------------------------------------------
(* The inductive invariant *)

HeapShape == DOMAIN heap = Address /\ \A a \in Address : "kind" \in DOMAIN heap[a]

\* A wrapper with a pointer is of a kind that can be closed.
WrapperShape(wrapper) ==
    /\ DOMAIN wrapper = DOMAIN Unbound
    /\ wrapper.pointer \in PointerValues
    /\ wrapper.pointer # NULL => wrapper.kind \in ObjectKinds
ObjectsShape == DOMAIN objects = Object /\ \A o \in Object : WrapperShape(objects[o])

\* A method between its two calls, or one that may begin again with the first.
Sizing(job) == job.at = "sized" \/ (job.at = "answered" /\ job.error = BUFFER_TOO_SMALL)

\* A method has an object only between the call that got it and its end, and only if
\* that call was successful; what it frees itself is a temporary one.
JobShape(job) ==
    /\ DOMAIN job = DOMAIN Idle
    /\ job.out # NULL => job.at \in {"received", "copied"}
    /\ job.at \in {"received", "copied"} => job.does \in DOMAIN Kind
    /\ job.at = "received" /\ job.code # OK => job.out = NULL
    /\ job.at = "copied" => job.does \in DOMAIN Passing
    /\ job.on = None \/ \E o \in Object : job.on = <<o>>
    /\ job.at = "received" => job.code # BUFFER_TOO_SMALL
    /\ job.at = "received" /\ job.code = OK => job.out # NULL
    /\ job.at = "closing" => job.on # None
    /\ Sizing(job) => job.on # None /\ job.does \in SizedMethods
JobsShape == DOMAIN jobs = Thread /\ \A t \in Thread : JobShape(jobs[t])

\* A generator has a record only while it is suspended at the `yield', or about to be.
GenShape(gen) ==
    /\ DOMAIN gen = DOMAIN NoGen
    /\ gen.out # NULL => gen.at \in {"yielding", "suspended"}
GensShape == DOMAIN gens = Generator /\ \A g \in Generator : GenShape(gens[g])

Closing(t, o) == jobs[t].at = "closing" /\ jobs[t].on = <<o>>

\* One thread closes a wrapper, and until it is done the wrapper is not used again.
OneCloser ==
    /\ \A t \in Thread, o \in Object : Closing(t, o) => objects[o].pointer # NULL
    /\ \A s, t \in Thread, o \in Object : Closing(s, o) /\ Closing(t, o) => s = t

\* A wrapper is not collected while a method runs on it; a sized call is one of a CallBook.
JobKnown(job) ==
    \A o \in Object : job.on = <<o>> =>
        /\ objects[o].kind # "none"
        /\ Sizing(job) => objects[o].kind = "db"
JobsKnown == \A t \in Thread : JobKnown(jobs[t])

Ownership == /\ HeapShape /\ ObjectsShape /\ JobsShape /\ JobsKnown /\ GensShape /\ OneCloser
             /\ Owned(heap, Own, For)

-----------------------------------------------------------------------------
(* The owners *)

\* An owner is a wrapper, a method or a generator, and only one of them.
LEMMA OwnerCases ==
    /\ \A h \in Owner : \/ \E o \in Object : h = <<"object", o>>
                        \/ \E t \in Thread : h = <<"job", t>>
                        \/ \E g \in Generator : h = <<"generator", g>>
    /\ \A o \in Object : <<"object", o>> \in Owner
    /\ \A t \in Thread : <<"job", t>> \in Owner
    /\ \A g \in Generator : <<"generator", g>> \in Owner
    /\ \A o \in Object, t \in Thread : <<"object", o>> # <<"job", t>>
    /\ \A o \in Object, g \in Generator : <<"object", o>> # <<"generator", g>>
    /\ \A t \in Thread, g \in Generator : <<"job", t>> # <<"generator", g>>
    /\ \A o, p \in Object : <<"object", o>> = <<"object", p>> => o = p
    /\ \A s, t \in Thread : <<"job", s>> = <<"job", t>> => s = t
    /\ \A f, g \in Generator : <<"generator", f>> = <<"generator", g>> => f = g
  BY DEF Owner

\* What each of them has.
LEMMA OwnValues ==
    /\ \A o \in Object :
          /\ Own[<<"object", o>>] = IF Usable(o) THEN objects[o].pointer ELSE NULL
          /\ For[<<"object", o>>] = Boxes(objects[o].kind, objects[o].of)
    /\ \A t \in Thread : /\ Own[<<"job", t>>] = jobs[t].out
                         /\ For[<<"job", t>>] = Boxes(Kind[jobs[t].does], jobs[t].of)
    /\ \A g \in Generator :
          /\ Own[<<"generator", g>>] = gens[g].out
          /\ For[<<"generator", g>>] = RowBoxes(gens[g].does, gens[g].index)
  BY OwnerCases DEF Own, For, OwnedBy, TakenFor

\* The same of the next state.
LEMMA OwnValuesNext ==
    /\ \A o \in Object :
          /\ Own'[<<"object", o>>] = IF Usable(o)' THEN objects'[o].pointer ELSE NULL
          /\ For'[<<"object", o>>] = Boxes(objects'[o].kind, objects'[o].of)
    /\ \A t \in Thread : /\ Own'[<<"job", t>>] = jobs'[t].out
                         /\ For'[<<"job", t>>] = Boxes(Kind[jobs'[t].does], jobs'[t].of)
    /\ \A g \in Generator :
          /\ Own'[<<"generator", g>>] = gens'[g].out
          /\ For'[<<"generator", g>>] = RowBoxes(gens'[g].does, gens'[g].index)
  BY OwnerCases DEF Own, For, OwnedBy, TakenFor

\* A method that does not close leaves what others have, and who closes what.
LEMMA JobOthers ==
    ASSUME OneCloser, NEW t \in Thread,
           \A s \in Thread : s # t => jobs'[s] = jobs[s],
           jobs[t].at # "closing", jobs'[t].at # "closing",
           objects' = objects, gens' = gens
    PROVE  /\ \A h \in Owner : h # <<"job", t>> => Own'[h] = Own[h] /\ For'[h] = For[h]
           /\ OneCloser'
  <1>1. \A s \in Thread, o \in Object : Closing(s, o)' <=> Closing(s, o)
    BY DEF Closing
  <1>2. \A o \in Object : Usable(o)' <=> Usable(o)
    BY <1>1 DEF Usable, Closing
  <1>3. OneCloser'
    BY <1>1 DEF OneCloser
  <1>4. ASSUME NEW h \in Owner, h # <<"job", t>>
        PROVE  Own'[h] = Own[h] /\ For'[h] = For[h]
    <2>1. ASSUME NEW o \in Object, h = <<"object", o>>
          PROVE  Own'[h] = Own[h] /\ For'[h] = For[h]
      BY <1>2, <2>1, OwnValues, OwnValuesNext
    <2>2. ASSUME NEW s \in Thread, h = <<"job", s>>
          PROVE  Own'[h] = Own[h] /\ For'[h] = For[h]
      <3>1. s # t /\ jobs'[s] = jobs[s]
        BY <1>4, <2>2
      <3> QED
        BY <2>2, <3>1, OwnValues, OwnValuesNext
    <2>3. ASSUME NEW g \in Generator, h = <<"generator", g>>
          PROVE  Own'[h] = Own[h] /\ For'[h] = For[h]
      BY <2>3, OwnValues, OwnValuesNext
    <2> QED
      BY <2>1, <2>2, <2>3, OwnerCases
  <1> QED
    BY <1>3, <1>4

\* A generator leaves what others have, and who closes what.
LEMMA GenOthers ==
    ASSUME OneCloser, NEW g \in Generator,
           \A f \in Generator : f # g => gens'[f] = gens[f],
           objects' = objects, jobs' = jobs
    PROVE  /\ \A h \in Owner : h # <<"generator", g>> => Own'[h] = Own[h] /\ For'[h] = For[h]
           /\ OneCloser'
  <1>1. \A o \in Object : Usable(o)' <=> Usable(o)
    BY DEF Usable
  <1>2. OneCloser'
    BY DEF OneCloser, Closing
  <1>3. ASSUME NEW h \in Owner, h # <<"generator", g>>
        PROVE  Own'[h] = Own[h] /\ For'[h] = For[h]
    <2>1. ASSUME NEW o \in Object, h = <<"object", o>>
          PROVE  Own'[h] = Own[h] /\ For'[h] = For[h]
      BY <1>1, <2>1, OwnValues, OwnValuesNext
    <2>2. ASSUME NEW s \in Thread, h = <<"job", s>>
          PROVE  Own'[h] = Own[h] /\ For'[h] = For[h]
      BY <2>2, OwnValues, OwnValuesNext
    <2>3. ASSUME NEW f \in Generator, h = <<"generator", f>>
          PROVE  Own'[h] = Own[h] /\ For'[h] = For[h]
      <3>1. f # g /\ gens'[f] = gens[f]
        BY <1>3, <2>3
      <3> QED
        BY <2>3, <3>1, OwnValues, OwnValuesNext
    <2> QED
      BY <2>1, <2>2, <2>3, OwnerCases
  <1> QED
    BY <1>2, <1>3

-----------------------------------------------------------------------------
(* What the library does with the heap *)

\* What a box of a kind is made of.
LEMMA BoxesHaveKinds ==
    /\ \A kind, x : \A box \in Boxes(kind, x) : box.kind = kind /\ "kind" \in DOMAIN box
    /\ \A method, index : \A box \in RowBoxes(method, index) :
          box.kind = RecordKind(method) /\ "kind" \in DOMAIN box
    /\ \A kind, x : kind # "free" => Freed \notin Boxes(kind, x)
    /\ \A method, index : Freed \notin RowBoxes(method, index)
    /\ \A x : Boxes("db", x) = CallBooks
  <1>1. \A kind, body : /\ Box(kind, body).kind = kind /\ "kind" \in DOMAIN Box(kind, body)
                        /\ kind # "free" => Box(kind, body) # Freed
    BY DEF Box, Freed
  <1>2. \A x : Bodies("db", x) = Bodies("db", "")
    BY DEF Bodies
  <1> HIDE DEF Box, Bodies
  <1> QED
    BY <1>1, <1>2 DEF Asked, Boxes, RowBoxes, RecordKind, CallBooks

\* An answer is a failure without an object, or one of the boxes with OK.
IsAnswer(answer, boxes) ==
    \/ answer.new = None /\ answer.code \in {NOT_FOUND, USAGE, OPEN_FAILED}
    \/ answer.code = OK /\ \E box \in boxes : answer.new = Some(box)

\* Neither guard of a function lets an object through that is not its own.
LEMMA AnsweringIsAnswer ==
    ASSUME NEW db, NEW x, NEW boxes, NEW answer, x = Unreadable \/ IsAnswer(answer, boxes)
    PROVE  IsAnswer(Answering(db, x, answer), boxes)
  BY DEF IsAnswer, Answering, Fails

\* A failure has no object, and a boxed answer has what is put into the box.
LEMMA FailsAndBoxed ==
    /\ \A boxes : \A code \in {NOT_FOUND, USAGE, OPEN_FAILED} : IsAnswer(Fails(code), boxes)
    /\ \A error, boxes : IsAnswer(Fails(ErrorCode(error)), boxes)
    /\ \A kind, x : Asked(kind, x) =>
          \A body \in Bodies(kind, x) : IsAnswer(Boxed(kind, body), Boxes(kind, x))
  BY DEF IsAnswer, Fails, Boxed, Boxes, ErrorCode

\* Every method gets what it asked for.
LEMMA AnswersAreAnswers ==
    ASSUME NEW method \in DOMAIN Wrapping \cup DOMAIN Passing, NEW db,
           NEW x \in Arguments(method), NEW answer \in Answers(method, db, x)
    PROVE  IsAnswer(answer, Boxes(Kind[method], x))
  <1>a. method \notin {"country_catalog", "counts_catalog"} =>
           x = Unreadable \/ \A kind : Asked(kind, x)
    BY DEF Arguments, Asked
  <1>b. Asked("country_catalog", x) /\ Asked("counts_catalog", x)
    BY DEF Asked
  <1>1. CASE method = "lookup"
    <2> DEFINE a == Library.lookup[x]
    <2>1. answer = callbook_lookup_modern(db, x, a)
      BY <1>1 DEF Answers
    <2>2. Kind[method] = "result"
      BY <1>1 DEF Kind, Wrapping, Passing
    <2>3. ASSUME a.ok
          PROVE  callbook_lookup_result(a.value) \in Bodies("result", x)
      BY <2>3 DEF Bodies, Values
    <2>a. x = Unreadable \/ \A kind : Asked(kind, x)
      BY <1>a, <1>1
    <2>4. \/ x = Unreadable
          \/ IsAnswer(IF a.ok THEN Boxed("result", callbook_lookup_result(a.value))
                      ELSE Fails(ErrorCode(a.error)),
                      Boxes("result", x))
      BY <2>3, <2>a, FailsAndBoxed
    <2> QED
      BY <2>1, <2>2, <2>4, AnsweringIsAnswer DEF callbook_lookup_modern
  <1>2. CASE method = "profile"
    <2>1. PICK a \in Library.profile[x] : answer = callbook_profile_for_callsign(db, x, a)
      BY <1>2 DEF Answers
    <2>2. Kind[method] = "profile"
      BY <1>2 DEF Kind, Wrapping, Passing
    <2>3. ASSUME a.ok
          PROVE  callbook_profile(a.value) \in Bodies("profile", x)
      BY <2>1, <2>3 DEF Bodies, Values
    <2>a. x = Unreadable \/ \A kind : Asked(kind, x)
      BY <1>a, <1>2
    <2>4. \/ x = Unreadable
          \/ IsAnswer(IF a.ok THEN Boxed("profile", callbook_profile(a.value))
                      ELSE Fails(ErrorCode(a.error)),
                      Boxes("profile", x))
      BY <2>3, <2>a, FailsAndBoxed
    <2> QED
      BY <2>1, <2>2, <2>4, AnsweringIsAnswer DEF callbook_profile_for_callsign
  <1>3. CASE method = "search_interest"
    <2> DEFINE a == Library.search[x]
    <2>1. answer = callbook_interest_search_for_code(db, x, a)
      BY <1>3 DEF Answers
    <2>2. Kind[method] = "search"
      BY <1>3 DEF Kind, Wrapping, Passing
    <2>3. ASSUME a.ok
          PROVE  callbook_interest_search_result(a.value) \in Bodies("search", x)
      BY <2>3 DEF Bodies, Values
    <2>a. x = Unreadable \/ \A kind : Asked(kind, x)
      BY <1>a, <1>3
    <2>4. \/ x = Unreadable
          \/ IsAnswer(IF a.ok THEN Boxed("search", callbook_interest_search_result(a.value))
                      ELSE Fails(USAGE),
                      Boxes("search", x))
      BY <2>3, <2>a, FailsAndBoxed
    <2> QED
      BY <2>1, <2>2, <2>4, AnsweringIsAnswer DEF callbook_interest_search_for_code
  <1>4. CASE method = "country_catalog"
    <2> DEFINE body == [records |-> Each(callbook_country_info, Library.countries)]
    <2>1. answer = callbook_country_catalog_open(db) /\ Kind[method] = "country_catalog"
      BY <1>4 DEF Answers, Kind, Wrapping, Passing
    <2>2. body \in Bodies("country_catalog", x)
      BY DEF Bodies
    <2>3. IsAnswer(Boxed("country_catalog", body), Boxes("country_catalog", x))
      BY <1>b, <2>2, FailsAndBoxed
    <2> QED
      BY <2>1, <2>3, AnsweringIsAnswer DEF callbook_country_catalog_open
  <1>5. CASE method = "counts_catalog"
    <2>1. PICK a \in Library.counts : answer = callbook_lookup_counts_catalog_open(db, a)
      BY <1>5 DEF Answers
    <2>2. Kind[method] = "counts_catalog"
      BY <1>5 DEF Kind, Wrapping, Passing
    <2>3. ASSUME a.ok, a.value # None
          PROVE  [records |-> Each(callbook_lookup_count, a.value[1])] \in Bodies("counts_catalog", x)
      BY <2>1, <2>3 DEF Bodies, Values
    <2>4. IsAnswer(IF ~a.ok THEN Fails(USAGE) ELSE IF a.value = None THEN Fails(NOT_FOUND)
                   ELSE Boxed("counts_catalog",
                              [records |-> Each(callbook_lookup_count, a.value[1])]),
                   Boxes("counts_catalog", x))
      BY <1>b, <2>3, FailsAndBoxed
    <2> QED
      BY <2>1, <2>2, <2>4, AnsweringIsAnswer DEF callbook_lookup_counts_catalog_open
  <1>6. CASE method = "country_info"
    <2> DEFINE a == Library.country[x]
    <2>1. answer = callbook_country_info_for_callsign(db, x, a)
      BY <1>6 DEF Answers
    <2>2. Kind[method] = "country"
      BY <1>6 DEF Kind, Wrapping, Passing
    <2>3. ASSUME a # None
          PROVE  callbook_country_info(a[1]) \in Bodies("country", x)
      BY <2>3 DEF Bodies, Values
    <2>a. x = Unreadable \/ \A kind : Asked(kind, x)
      BY <1>a, <1>6
    <2>4. \/ x = Unreadable
          \/ IsAnswer(IF a = None THEN Fails(NOT_FOUND)
                      ELSE Boxed("country", callbook_country_info(a[1])),
                      Boxes("country", x))
      BY <2>3, <2>a, FailsAndBoxed
    <2> QED
      BY <2>1, <2>2, <2>4, AnsweringIsAnswer DEF callbook_country_info_for_callsign
  <1>7. CASE method = "lookup_count"
    <2>1. PICK a \in Library.count[x] : answer = callbook_lookup_count_for_callsign(db, x, a)
      BY <1>7 DEF Answers
    <2>2. Kind[method] = "count"
      BY <1>7 DEF Kind, Wrapping, Passing
    <2>3. ASSUME a.ok, a.value # None
          PROVE  callbook_lookup_count(a.value[1]) \in Bodies("count", x)
      BY <2>1, <2>3 DEF Bodies, Values
    <2>a. x = Unreadable \/ \A kind : Asked(kind, x)
      BY <1>a, <1>7
    <2>4. \/ x = Unreadable
          \/ IsAnswer(IF ~a.ok THEN Fails(USAGE) ELSE IF a.value = None THEN Fails(NOT_FOUND)
                      ELSE Boxed("count", callbook_lookup_count(a.value[1])),
                      Boxes("count", x))
      BY <2>3, <2>a, FailsAndBoxed
    <2> QED
      BY <2>1, <2>2, <2>4, AnsweringIsAnswer DEF callbook_lookup_count_for_callsign
  <1>8. CASE method = "current_us_lookup"
    <2> DEFINE a == Found(Library.us, x)
    <2>1. answer = callbook_current_us_lookup(db, x)
      BY <1>8 DEF Answers
    <2>2. Kind[method] = "us_record"
      BY <1>8 DEF Kind, Wrapping, Passing
    <2>3. ASSUME a # None
          PROVE  callbook_us_record(a[1]) \in Bodies("us_record", x)
      BY <2>3 DEF Bodies, Values
    <2>a. x = Unreadable \/ \A kind : Asked(kind, x)
      BY <1>a, <1>8
    <2>4. \/ x = Unreadable
          \/ IsAnswer(IF a = None THEN Fails(NOT_FOUND)
                      ELSE Boxed("us_record", callbook_us_record(a[1])),
                      Boxes("us_record", x))
      BY <2>3, <2>a, FailsAndBoxed
    <2> QED
      BY <2>1, <2>2, <2>4, AnsweringIsAnswer DEF callbook_current_us_lookup
  <1>9. CASE method = "interest_definition"
    <2> DEFINE a == Found(Library.interests, x)
    <2>1. answer = callbook_interest_catalog_lookup(db, x)
      BY <1>9 DEF Answers
    <2>2. Kind[method] = "definition"
      BY <1>9 DEF Kind, Wrapping, Passing
    <2>3. ASSUME a # None
          PROVE  callbook_interest_definition(a[1]) \in Bodies("definition", x)
      BY <2>3 DEF Bodies, Values
    <2>a. x = Unreadable \/ \A kind : Asked(kind, x)
      BY <1>a, <1>9
    <2>4. \/ x = Unreadable
          \/ IsAnswer(IF a = None THEN Fails(NOT_FOUND)
                      ELSE Boxed("definition", callbook_interest_definition(a[1])),
                      Boxes("definition", x))
      BY <2>3, <2>a, FailsAndBoxed
    <2> QED
      BY <2>1, <2>2, <2>4, AnsweringIsAnswer DEF callbook_interest_catalog_lookup
  <1>10. method \in {"lookup", "profile", "search_interest", "country_catalog", "counts_catalog",
                     "country_info", "lookup_count", "current_us_lookup",
                     "interest_definition"}
    BY DEF Wrapping, Passing
  <1> QED
    BY <1>1, <1>2, <1>3, <1>4, <1>5, <1>6, <1>7, <1>8, <1>9, <1>10

\* So do the generators.
LEMMA RecordAtIsAnswer ==
    ASSUME NEW method, NEW db, NEW index
    PROVE  IsAnswer(RecordAt(method, db, index), RowBoxes(method, index))
  <1>1. ASSUME method = "current_us_records"
        PROVE  IsAnswer(callbook_current_us_record_get(db, index), RowBoxes(method, index))
    <2> DEFINE rows == Rows(Library.us)
               body == callbook_us_record(rows[index + 1])
    <2>1. ASSUME ~(index < 0), ~(index >= Len(rows))
          PROVE  Box("us_record", body) \in RowBoxes(method, index)
      BY <1>1, <2>1 DEF RowBoxes
    <2>2. IsAnswer(IF index < 0 THEN Fails(USAGE) ELSE IF index >= Len(rows) THEN Fails(NOT_FOUND)
                   ELSE Boxed("us_record", body), RowBoxes(method, index))
      BY <2>1 DEF IsAnswer, Boxed, Fails
    <2> QED
      BY <2>2, AnsweringIsAnswer DEF callbook_current_us_record_get
  <1>2. ASSUME method # "current_us_records"
        PROVE  IsAnswer(callbook_interest_catalog_get(db, index), RowBoxes(method, index))
    <2> DEFINE rows == Rows(Library.interests)
               body == callbook_interest_definition(rows[index + 1])
    <2>1. ASSUME ~(index < 0), ~(index >= Len(rows))
          PROVE  Box("definition", body) \in RowBoxes(method, index)
      BY <1>2, <2>1 DEF RowBoxes
    <2>2. IsAnswer(IF index < 0 THEN Fails(USAGE) ELSE IF index >= Len(rows) THEN Fails(NOT_FOUND)
                   ELSE Boxed("definition", body), RowBoxes(method, index))
      BY <2>1 DEF IsAnswer, Boxed, Fails
    <2> QED
      BY <2>2, AnsweringIsAnswer DEF callbook_interest_catalog_get
  <1> QED
    BY <1>1, <1>2 DEF RecordAt

\* No kind of object is that of a freed one.
LEMMA KindsAreLive ==
    /\ \A m \in DOMAIN Kind : Kind[m] # "free"
    /\ \A m : RecordKind(m) # "free"
    /\ \A m \in DOMAIN Kind : m \notin DOMAIN Passing => Kind[m] \in ObjectKinds
    /\ \A m \in DOMAIN Passing : Kind[m] \in {"country", "count", "us_record", "definition"}
    /\ DOMAIN Passing \subseteq DOMAIN Kind
  BY DEF Kind, Wrapping, Passing, RecordKind, ObjectKinds

\* Boxing takes an address that is free.
LEMMA Boxing ==
    ASSUME NEW answer, NEW boxes, NEW p, IsAnswer(answer, boxes), Allocate(answer, p)
    PROVE  \/ /\ answer.code \in {NOT_FOUND, USAGE, OPEN_FAILED}
              /\ p = NULL /\ heap' = heap
           \/ /\ answer.code = OK
              /\ \E a \in Address : \E box \in boxes :
                    heap[a] = Freed /\ p = <<a>> /\ heap' = [heap EXCEPT ![a] = box]
  <1>1. CASE answer.new = None /\ answer.code \in {NOT_FOUND, USAGE, OPEN_FAILED}
    BY <1>1 DEF Allocate
  <1>2. ASSUME answer.code = OK, NEW box \in boxes, answer.new = Some(box)
        PROVE  \E a \in Address :
                   heap[a] = Freed /\ p = <<a>> /\ heap' = [heap EXCEPT ![a] = box]
    <2>1. answer.new # None /\ answer.new[1] = box
      BY <1>2, AddressIsNotNull DEF Some, None, NULL
    <2> QED
      BY <2>1 DEF Allocate
  <1> QED
    BY <1>1, <1>2 DEF IsAnswer

\* The heap stays as it is, but for what a CallBook has read.
HeapStays == \A a \in Address : \/ heap'[a] = heap[a]
                                \/ heap[a] \in CallBooks /\ heap'[a] \in CallBooks

\* Nobody's object is another one then.
LEMMA StaysTakenFor ==
    ASSUME HeapStays, NEW a \in Address
    PROVE  /\ heap'[a] # Freed => heap[a] # Freed
           /\ \A k \in Owner : heap[a] \in For[k] => heap'[a] \in For[k]
  <1>1. CASE heap'[a] = heap[a]
    BY <1>1
  <1>2. CASE heap[a] \in CallBooks /\ heap'[a] \in CallBooks
    <2>1. heap[a] # Freed /\ heap[a].kind = "db"
      BY <1>2, BoxesHaveKinds DEF CallBooks
    <2>2. ASSUME NEW k \in Owner, heap[a] \in For[k]
          PROVE  For[k] = CallBooks
      <3>1. ASSUME NEW o \in Object, k = <<"object", o>>
            PROVE  For[k] = CallBooks
        BY <2>1, <2>2, <3>1, OwnValues, BoxesHaveKinds
      <3>2. ASSUME NEW t \in Thread, k = <<"job", t>>
            PROVE  For[k] = CallBooks
        BY <2>1, <2>2, <3>2, OwnValues, BoxesHaveKinds
      <3>3. ASSUME NEW g \in Generator, k = <<"generator", g>>
            PROVE  FALSE
        <4>1. heap[a].kind = RecordKind(gens[g].does)
          BY <2>2, <3>3, OwnValues, BoxesHaveKinds
        <4> QED
          BY <2>1, <4>1 DEF RecordKind
      <3> QED
        BY <3>1, <3>2, <3>3, OwnerCases
    <2> QED
      BY <1>2, <2>1, <2>2
  <1> QED
    BY <1>1, <1>2 DEF HeapStays

\* Every kind is freed in the same way.
LEMMA Freeing ==
    ASSUME NEW kind \in ObjectKinds \cup {"country", "count", "us_record", "definition"},
           NEW p, FreeKind(kind, p)
    PROVE  heap' = IF p = NULL THEN heap ELSE [heap EXCEPT ![p[1]] = Freed]
  BY DEF ObjectKinds, FreeKind, Release, callbook_close, callbook_result_free,
         callbook_profile_free, callbook_interest_search_free, callbook_country_catalog_free,
         callbook_lookup_counts_catalog_free, callbook_country_info_free,
         callbook_lookup_count_free, callbook_us_record_free,
         callbook_interest_definition_free

\* The heap keeps its shape.
LEMMA HeapKeepsShape ==
    ASSUME HeapShape, NEW a, NEW box, "kind" \in DOMAIN box, heap' = [heap EXCEPT ![a] = box]
    PROVE  HeapShape'
  BY DEF HeapShape

-----------------------------------------------------------------------------
(* Steps of one method *)

\* If the method is in shape after the step, then so is all but the ownership.
LEMMA JobStep ==
    ASSUME Ownership, NEW t \in Thread, DOMAIN jobs' = Thread,
           \A s \in Thread : s # t => jobs'[s] = jobs[s],
           JobShape(jobs'[t]), JobKnown(jobs'[t]), objects' = objects, gens' = gens
    PROVE  ObjectsShape' /\ JobsShape' /\ JobsKnown' /\ GensShape'
  <1>1. JobsShape'
    BY DEF Ownership, JobsShape
  <1>2. ObjectsShape'
    BY DEF Ownership, ObjectsShape
  <1>3. GensShape'
    BY DEF Ownership, GensShape
  <1>4. JobsKnown'
    BY DEF Ownership, JobsKnown, JobKnown
  <1> QED
    BY <1>1, <1>2, <1>3, <1>4

\* A method that neither gets nor frees an object.
LEMMA JobKeeps ==
    ASSUME Ownership, NEW t \in Thread, DOMAIN jobs' = Thread,
           \A s \in Thread : s # t => jobs'[s] = jobs[s],
           jobs[t].at # "closing", jobs'[t].at # "closing",
           JobShape(jobs'[t]), JobKnown(jobs'[t]), objects' = objects, gens' = gens,
           HeapShape', HeapStays,
           jobs'[t].out = jobs[t].out,
           jobs[t].out # NULL => jobs'[t].does = jobs[t].does /\ jobs'[t].of = jobs[t].of
    PROVE  Ownership'
  <1>1. OneCloser' /\ \A h \in Owner : h # <<"job", t>> => Own'[h] = Own[h] /\ For'[h] = For[h]
    BY JobOthers DEF Ownership
  <1>2. \A h \in Owner : Own'[h] = Own[h] /\ (Own[h] # NULL => For'[h] = For[h])
    <2>1. Own'[<<"job", t>>] = jobs'[t].out /\ Own[<<"job", t>>] = jobs[t].out
          /\ For'[<<"job", t>>] = Boxes(Kind[jobs'[t].does], jobs'[t].of)
          /\ For[<<"job", t>>] = Boxes(Kind[jobs[t].does], jobs[t].of)
      BY OwnValues, OwnValuesNext
    <2> QED
      BY <1>1, <2>1
  <1>3. Owned(heap', Own', For')
    <2> DEFINE own == Own  for == For  own2 == Own'  for2 == For'  cells2 == heap'
    <2>1. Owned(heap, own, for) /\ \A h \in Owner : own2[h] = own[h] /\ (own[h] # NULL => for2[h] = for[h])
      BY <1>2 DEF Ownership
    <2>2. /\ \A a \in Address : cells2[a] # Freed => heap[a] # Freed
          /\ \A a \in Address, k \in Owner : heap[a] \in for[k] => cells2[a] \in for[k]
      BY StaysTakenFor
    <2> HIDE DEF own, for, own2, for2, cells2
    <2>3. Owned(cells2, own2, for2)
      BY <2>1, <2>2, Keep
    <2> QED
      BY <2>3 DEF own2, for2, cells2
  <1> QED
    BY <1>1, <1>3, JobStep DEF Ownership

\* A method that gets an answer.
LEMMA JobReceives ==
    ASSUME Ownership, NEW t \in Thread, jobs[t].at = "idle",
           NEW method \in DOMAIN Kind,
           NEW o, o = None \/ \E b \in Object : o = <<b>>,
           \A b \in Object : o = <<b>> => objects[b].kind # "none",
           NEW x, NEW answer, IsAnswer(answer, Boxes(Kind[method], x)),
           Received(t, method, o, x, answer), objects' = objects, gens' = gens
    PROVE  Ownership'
  <1>1. PICK out \in {NULL} \cup {<<a>> : a \in Address} :
            /\ Allocate(answer, out)
            /\ jobs' = [jobs EXCEPT ![t] =
                          [Idle EXCEPT !.at = "received", !.does = method, !.on = o, !.of = x,
                                       !.out = out, !.code = answer.code]]
    BY DEF Received
  <1> DEFINE job == [Idle EXCEPT !.at = "received", !.does = method, !.on = o, !.of = x,
                                 !.out = out, !.code = answer.code]
  <1>2. /\ DOMAIN job = DOMAIN Idle /\ job.at = "received" /\ job.does = method /\ job.on = o
        /\ job.of = x /\ job.out = out /\ job.code = answer.code
    BY DEF Idle
  <1> HIDE DEF job
  <1>3. DOMAIN jobs' = Thread /\ jobs'[t] = job /\ \A s \in Thread : s # t => jobs'[s] = jobs[s]
    BY <1>1 DEF Ownership, JobsShape, job
  <1>4. jobs[t].out = NULL
    BY DEF Ownership, JobsShape, JobShape
  <1>7. JobKnown(job)
    BY <1>2 DEF JobKnown, Sizing
  <1>5. CASE answer.code \in {NOT_FOUND, USAGE, OPEN_FAILED} /\ out = NULL /\ heap' = heap
    <2>1. JobShape(job)
      BY <1>2, <1>5 DEF JobShape, Sizing, NOT_FOUND, USAGE, OPEN_FAILED, BUFFER_TOO_SMALL, OK
    <2> QED
      BY <1>2, <1>3, <1>4, <1>5, <1>7, <2>1, JobKeeps DEF Ownership, HeapShape, HeapStays
  <1>6. ASSUME answer.code = OK, NEW a \in Address, NEW box \in Boxes(Kind[method], x),
               heap[a] = Freed, out = <<a>>, heap' = [heap EXCEPT ![a] = box]
        PROVE  Ownership'
    <2>1. JobShape(job)
      BY <1>2, <1>6, AddressIsNotNull DEF JobShape, Sizing, BUFFER_TOO_SMALL, OK
    <2>2. HeapShape'
      BY <1>6, BoxesHaveKinds, HeapKeepsShape DEF Ownership
    <2>3. OneCloser' /\ \A h \in Owner : h # <<"job", t>> => Own'[h] = Own[h] /\ For'[h] = For[h]
      BY <1>2, <1>3, JobOthers DEF Ownership
    <2>4. Own'[<<"job", t>>] = <<a>> /\ Own[<<"job", t>>] = NULL
          /\ For'[<<"job", t>>] = Boxes(Kind[method], x) /\ <<"job", t>> \in Owner
      BY <1>2, <1>3, <1>4, <1>6, OwnValues, OwnValuesNext, OwnerCases
    <2>5. Owned(heap', Own', For')
      <3> DEFINE own == Own  for == For  own2 == Own'  for2 == For'  h == <<"job", t>>
                 cells2 == heap'
      <3>1. Owned(heap, own, for) /\ DOMAIN heap = Address
        BY DEF Ownership, HeapShape
      <3>2. own[h] = NULL /\ own2[h] = <<a>> /\ for2[h] = Boxes(Kind[method], x) /\ h \in Owner
            /\ \A k \in Owner : k # h => own2[k] = own[k] /\ for2[k] = for[k]
        BY <2>3, <2>4
      <3>3. Freed \notin Boxes(Kind[method], x)
        BY KindsAreLive, BoxesHaveKinds
      <3>4. cells2[a] = box /\ \A b \in Address : b # a => cells2[b] = heap[b]
        BY <1>6, <3>1
      <3> HIDE DEF own, for, own2, for2, h, cells2
      <3>5. cells2[a] \in for2[h] /\ Freed \notin for2[h] /\ heap[a] = Freed
        BY <1>6, <3>2, <3>3, <3>4
      <3>6. Owned(cells2, own2, for2)
        BY <3>1, <3>2, <3>4, <3>5, Take
      <3> QED
        BY <3>6 DEF own2, for2, cells2
    <2>6. ObjectsShape' /\ JobsShape' /\ JobsKnown' /\ GensShape'
      BY <1>3, <1>7, <2>1, JobStep
    <2> QED
      BY <2>2, <2>3, <2>5, <2>6 DEF Ownership
  <1> QED
    BY <1>1, <1>5, <1>6, Boxing

\* What `Answer' makes of a method.
LEMMA AnswerJob ==
    ASSUME JobsShape, NEW t \in Thread, NEW error, NEW value, Answer(t, error, value)
    PROVE  /\ DOMAIN jobs' = Thread
           /\ \A s \in Thread : s # t => jobs'[s] = jobs[s]
           /\ DOMAIN jobs'[t] = DOMAIN Idle
           /\ jobs'[t].at = "answered" /\ jobs'[t].out = NULL /\ jobs'[t].error = error
           /\ jobs'[t].does = jobs[t].does /\ jobs'[t].on = jobs[t].on
           /\ jobs'[t].of = jobs[t].of /\ jobs'[t].code = jobs[t].code
           /\ jobs'[t].value = value /\ jobs'[t].changed = jobs[t].changed
  BY DEF JobsShape, JobShape, Answer, Idle

\* A method that answers without an object, or having freed it.
LEMMA JobAnswers ==
    ASSUME Ownership, NEW t \in Thread, NEW error, NEW value, Answer(t, error, value),
           jobs[t].at # "closing", error = BUFFER_TOO_SMALL => jobs[t].at = "sized"
    PROVE  /\ DOMAIN jobs' = Thread
           /\ \A s \in Thread : s # t => jobs'[s] = jobs[s]
           /\ jobs'[t].at = "answered" /\ jobs'[t].out = NULL
           /\ JobShape(jobs'[t]) /\ JobKnown(jobs'[t])
  <1>1. JobsShape /\ JobShape(jobs[t]) /\ JobKnown(jobs[t])
    BY DEF Ownership, JobsShape, JobsKnown
  <1>2. /\ DOMAIN jobs' = Thread
        /\ \A s \in Thread : s # t => jobs'[s] = jobs[s]
        /\ DOMAIN jobs'[t] = DOMAIN Idle
        /\ jobs'[t].at = "answered" /\ jobs'[t].out = NULL /\ jobs'[t].error = error
        /\ jobs'[t].on = jobs[t].on /\ jobs'[t].does = jobs[t].does
    BY <1>1, AnswerJob
  <1>3. JobShape(jobs'[t])
    BY <1>1, <1>2 DEF JobShape, Sizing
  <1>4. JobKnown(jobs'[t])
    BY <1>1, <1>2 DEF JobKnown, Sizing
  <1> QED
    BY <1>2, <1>3, <1>4

\* A method that frees its temporary object.
LEMMA JobFrees ==
    ASSUME Ownership, NEW t \in Thread, DOMAIN jobs' = Thread,
           \A s \in Thread : s # t => jobs'[s] = jobs[s],
           jobs[t].at # "closing", jobs'[t].at # "closing",
           JobShape(jobs'[t]), JobKnown(jobs'[t]),
           objects' = objects, gens' = gens, jobs'[t].out = NULL,
           heap' = IF jobs[t].out = NULL THEN heap ELSE [heap EXCEPT ![jobs[t].out[1]] = Freed]
    PROVE  Ownership'
  <1>1. OneCloser' /\ \A h \in Owner : h # <<"job", t>> => Own'[h] = Own[h] /\ For'[h] = For[h]
    BY JobOthers DEF Ownership
  <1>2. /\ <<"job", t>> \in Owner
        /\ Own'[<<"job", t>>] = NULL /\ Own[<<"job", t>>] = jobs[t].out
    BY OwnValues, OwnValuesNext, OwnerCases
  <1>3. jobs[t].out \in PointerValues
    BY <1>2, AddressIsNotNull DEF Ownership, Owned, PointerValues
  <1>4. HeapShape' /\ \A b \in Address : heap'[b] = IF jobs[t].out = <<b>> THEN Freed ELSE heap[b]
    <2>1. CASE jobs[t].out = NULL
      BY <2>1, AddressIsNotNull DEF Ownership, HeapShape
    <2>2. CASE jobs[t].out # NULL
      <3>1. PICK a \in Address : jobs[t].out = <<a>>
        BY <1>3, <2>2 DEF PointerValues
      <3>2. heap' = [heap EXCEPT ![a] = Freed]
        BY <2>2, <3>1
      <3>3. "kind" \in DOMAIN Freed
        BY DEF Freed
      <3> QED
        BY <3>1, <3>2, <3>3, HeapKeepsShape DEF Ownership, HeapShape
    <2> QED
      BY <2>1, <2>2
  <1>5. Owned(heap', Own', For')
    <2> DEFINE own == Own  for == For  own2 == Own'  for2 == For'  h == <<"job", t>>
               cells2 == heap'
    <2>1. Owned(heap, own, for) /\ h \in Owner /\ own2[h] = NULL
          /\ \A k \in Owner : k # h => own2[k] = own[k] /\ for2[k] = for[k]
      BY <1>1, <1>2 DEF Ownership
    <2>2. \A b \in Address : cells2[b] = IF own[h] = <<b>> THEN Freed ELSE heap[b]
      BY <1>2, <1>4
    <2> HIDE DEF own, for, own2, for2, h, cells2
    <2>3. Owned(cells2, own2, for2)
      BY <2>1, <2>2, Drop
    <2> QED
      BY <2>3 DEF own2, for2, cells2
  <1> QED
    BY <1>1, <1>4, <1>5, JobStep DEF Ownership

\* CallOpen gets a CallBook or an error of its own.
LEMMA CallOpenOwns ==
    ASSUME Ownership, NEW t \in Thread, CallOpen(t)
    PROVE  Ownership'
  <1>1. PICK path \in {"tree", Unreadable}, opened \in BOOLEAN :
            Received(t, "open", None, "", callbook_open(path, opened))
    BY DEF CallOpen
  <1> DEFINE answer == callbook_open(path, opened)
  <1>2. IsAnswer(answer, Boxes("db", ""))
    <2>1. [world |-> "unread"] \in Bodies("db", "") /\ Asked("db", "")
      BY DEF Bodies, Asked
    <2> QED
      BY <2>1, FailsAndBoxed DEF callbook_open
  <1>3. "open" \in DOMAIN Kind /\ Kind["open"] = "db"
    BY DEF Kind
  <1>4. jobs[t].at = "idle" /\ objects' = objects /\ gens' = gens
    BY DEF CallOpen
  <1>5. Received(t, "open", None, "", answer)
    BY <1>1
  <1>6. \A b \in Object : None # <<b>>
    BY AddressIsNotNull DEF None, NULL
  <1> HIDE DEF answer
  <1> QED
    BY <1>2, <1>3, <1>4, <1>5, <1>6, JobReceives

\* CallMethod gets an object of the method's kind.
LEMMA CallMethodOwns ==
    ASSUME Ownership, NEW t \in Thread, CallMethod(t)
    PROVE  Ownership'
  <1>1. PICK b \in Books, method \in program \cap (DOMAIN Wrapping \cup DOMAIN Passing) :
            \E x \in Arguments(method) : \E answer \in Answers(method, objects[b].pointer, x) :
                Received(t, method, <<b>>, x, answer)
    BY DEF CallMethod
  <1>a. PICK x \in Arguments(method) : \E answer \in Answers(method, objects[b].pointer, x) :
            Received(t, method, <<b>>, x, answer)
    BY <1>1
  <1>2. PICK answer \in Answers(method, objects[b].pointer, x) :
            Received(t, method, <<b>>, x, answer)
    BY <1>a
  <1>3. IsAnswer(answer, Boxes(Kind[method], x))
    BY AnswersAreAnswers
  <1>4. method \in DOMAIN Kind
    BY DEF Kind
  <1>5. b \in Object /\ \A c \in Object : <<b>> = <<c>> => objects[c].kind # "none"
    BY AddressIsNotNull DEF Books
  <1>6. jobs[t].at = "idle" /\ objects' = objects /\ gens' = gens
    BY DEF CallMethod
  <1> QED
    BY <1>2, <1>3, <1>4, <1>5, <1>6, JobReceives

\* Copy keeps what it got, or it had got nothing.
LEMMA CopyOwns ==
    ASSUME Ownership, NEW t \in Thread, Copy(t)
    PROVE  Ownership'
  <1>1. /\ jobs[t].at = "received" /\ jobs[t].does \in DOMAIN Passing
        /\ heap' = heap /\ objects' = objects /\ gens' = gens
    BY DEF Copy
  <1>2. JobShape(jobs[t]) /\ JobKnown(jobs[t]) /\ DOMAIN jobs = Thread /\ HeapShape'
    BY <1>1 DEF Ownership, JobsShape, JobsKnown, HeapShape
  <1>3. CASE jobs[t].code # OK
    <2>1. PICK error : Answer(t, error, None) /\ (error = OK \/ error = jobs[t].code)
      BY <1>3 DEF Copy
    <2>2. error # BUFFER_TOO_SMALL
      BY <1>1, <1>2, <2>1 DEF JobShape, OK, BUFFER_TOO_SMALL
    <2>3. jobs[t].out = NULL
      BY <1>1, <1>2, <1>3 DEF JobShape
    <2>4. /\ DOMAIN jobs' = Thread
          /\ \A s \in Thread : s # t => jobs'[s] = jobs[s]
          /\ jobs'[t].at = "answered" /\ jobs'[t].out = NULL
          /\ JobShape(jobs'[t]) /\ JobKnown(jobs'[t])
      BY <1>1, <2>1, <2>2, JobAnswers
    <2> QED
      BY <1>1, <1>2, <2>3, <2>4, JobKeeps DEF HeapStays
  <1>4. CASE jobs[t].code = OK
    <2> DEFINE value == Copied(Kind[jobs[t].does], jobs[t].out)
    <2>1. jobs' = [jobs EXCEPT ![t].at = "copied", ![t].value = value]
      BY <1>4 DEF Copy, OK, NOT_FOUND
    <2> HIDE DEF value
    <2>2. /\ DOMAIN jobs' = Thread
          /\ \A s \in Thread : s # t => jobs'[s] = jobs[s]
          /\ DOMAIN jobs'[t] = DOMAIN Idle /\ jobs'[t].at = "copied"
          /\ jobs'[t].out = jobs[t].out /\ jobs'[t].does = jobs[t].does
          /\ jobs'[t].on = jobs[t].on /\ jobs'[t].of = jobs[t].of
      BY <1>2, <2>1 DEF JobShape, Idle
    <2>3. JobShape(jobs'[t]) /\ JobKnown(jobs'[t])
      BY <1>1, <1>2, <2>2, KindsAreLive DEF JobShape, JobKnown, Sizing
    <2> QED
      BY <1>1, <1>2, <2>2, <2>3, JobKeeps DEF HeapStays
  <1> QED
    BY <1>3, <1>4

\* FreeTemporary frees it.
LEMMA FreeTemporaryOwns ==
    ASSUME Ownership, NEW t \in Thread, FreeTemporary(t)
    PROVE  Ownership'
  <1>1. /\ jobs[t].at = "copied" /\ objects' = objects /\ gens' = gens
        /\ FreeKind(Kind[jobs[t].does], jobs[t].out) /\ Answer(t, OK, jobs[t].value)
    BY DEF FreeTemporary
  <1>2. Kind[jobs[t].does] \in {"country", "count", "us_record", "definition"}
    BY <1>1, KindsAreLive DEF Ownership, JobsShape, JobShape
  <1>3. heap' = IF jobs[t].out = NULL THEN heap ELSE [heap EXCEPT ![jobs[t].out[1]] = Freed]
    BY <1>1, <1>2, Freeing
  <1>4. OK # BUFFER_TOO_SMALL
    BY DEF OK, BUFFER_TOO_SMALL
  <1>5. /\ DOMAIN jobs' = Thread
        /\ \A s \in Thread : s # t => jobs'[s] = jobs[s]
        /\ jobs'[t].at = "answered" /\ jobs'[t].out = NULL
        /\ JobShape(jobs'[t]) /\ JobKnown(jobs'[t])
    BY <1>1, <1>4, JobAnswers
  <1> QED
    BY <1>1, <1>3, <1>5, JobFrees

\* Reading shows an object and leaves it.
LEMMA ReadOwns ==
    ASSUME Ownership, NEW t \in Thread, Read(t)
    PROVE  Ownership'
  <1>1. PICK o \in Object :
          /\ objects[o].kind # "none"
          /\ jobs' = [jobs EXCEPT ![t] =
                [Idle EXCEPT !.at = "answered", !.does = "read", !.on = <<o>>,
                             !.of = objects[o].of, !.code = IF objects[o].pointer = NULL
                                                                THEN USAGE ELSE OK,
                             !.value = Some(Shown(objects[o].kind, objects[o].pointer))]]
    BY DEF Read
  <1> DEFINE code == IF objects[o].pointer = NULL THEN USAGE ELSE OK
             value == Some(Shown(objects[o].kind, objects[o].pointer))
             job == [Idle EXCEPT !.at = "answered", !.does = "read", !.on = <<o>>,
                                 !.of = objects[o].of, !.code = code, !.value = value]
  <1>2. jobs' = [jobs EXCEPT ![t] = job]
    BY <1>1
  <1> HIDE DEF code, value
  <1>3. /\ DOMAIN job = DOMAIN Idle /\ job.at = "answered" /\ job.on = <<o>> /\ job.out = NULL
        /\ job.error # BUFFER_TOO_SMALL
    BY DEF Idle, OK, BUFFER_TOO_SMALL
  <1> HIDE DEF job
  <1>4. DOMAIN jobs' = Thread /\ jobs'[t] = job /\ \A s \in Thread : s # t => jobs'[s] = jobs[s]
    BY <1>2 DEF Ownership, JobsShape
  <1>5. JobShape(job) /\ JobKnown(job)
    BY <1>1, <1>3, AddressIsNotNull DEF JobShape, JobKnown, Sizing
  <1>6. /\ jobs[t].at = "idle" /\ jobs[t].out = NULL
        /\ heap' = heap /\ objects' = objects /\ gens' = gens /\ HeapShape'
    BY DEF Read, Ownership, JobsShape, JobShape, HeapShape
  <1> QED
    BY <1>3, <1>4, <1>5, <1>6, JobKeeps DEF HeapStays

\* A method that is over has nothing left.
LEMMA ReturnOwns ==
    ASSUME Ownership, NEW t \in Thread, Return(t)
    PROVE  Ownership'
  <1>1. DOMAIN jobs' = Thread /\ jobs'[t] = Idle /\ \A s \in Thread : s # t => jobs'[s] = jobs[s]
    BY DEF Return, Ownership, JobsShape
  <1>2. JobShape(Idle) /\ JobKnown(Idle) /\ Idle.out = NULL /\ Idle.at = "idle"
    BY AddressIsNotNull DEF JobShape, JobKnown, Sizing, Idle, None, NULL
  <1>3. /\ jobs[t].at = "answered" /\ jobs[t].out = NULL
        /\ heap' = heap /\ objects' = objects /\ gens' = gens /\ HeapShape'
    BY DEF Return, Ownership, JobsShape, JobShape, HeapShape
  <1> HIDE DEF Idle
  <1> QED
    BY <1>1, <1>2, <1>3, JobKeeps DEF HeapStays

-----------------------------------------------------------------------------
(* Sized calls *)

\* Rendering a map leaves every object as it is, but for what the CallBook has read.
LEMMA RenderingHeap ==
    ASSUME HeapShape, NEW p \in PointerValues, p # NULL => heap[p[1]] \in CallBooks,
           NEW method, NEW x, NEW rendering \in Renderings(method, p, x),
           heap' = rendering.heap
    PROVE  HeapShape' /\ HeapStays
  <1>1. CASE rendering.heap = heap
    BY <1>1 DEF HeapShape, HeapStays
  <1>2. CASE rendering.heap # heap
    <2>1. p # NULL /\ method # "lookup_json"
      BY <1>2 DEF Renderings
    <2>2. PICK station \in Library.map[x] : rendering.heap = Rendered(p, station)
      BY <2>1 DEF Renderings
    <2>3. PICK a \in Address : p = <<a>>
      BY <2>1 DEF PointerValues
    <2>4. heap' = [heap EXCEPT ![a].body.world = "loaded"]
      BY <1>2, <2>2, <2>3 DEF Rendered
    <2>5. heap[a] \in CallBooks
      BY <2>1, <2>3, AddressIsNotNull
    <2>6. PICK w : heap[a] = Box("db", [world |-> w])
      BY <2>5 DEF CallBooks, Boxes, Asked, Bodies
    <2>7. [heap[a] EXCEPT !.body.world = "loaded"] = Box("db", [world |-> "loaded"])
      BY <2>6 DEF Box
    <2>8. Box("db", [world |-> "loaded"]) \in CallBooks
      BY DEF CallBooks, Boxes, Asked, Bodies
    <2>9. heap' = [heap EXCEPT ![a] = Box("db", [world |-> "loaded"])]
      BY <2>4, <2>7
    <2>10. "kind" \in DOMAIN Box("db", [world |-> "loaded"])
      BY DEF Box
    <2> QED
      BY <2>5, <2>8, <2>9, <2>10 DEF HeapShape, HeapStays
  <1> QED
    BY <1>1, <1>2

\* A CallBook that is not being closed has a live one of the library, or none.
LEMMA UsableIsLive ==
    ASSUME Ownership, NEW o \in Object, Usable(o), objects[o].kind = "db"
    PROVE  /\ objects[o].pointer \in PointerValues
           /\ objects[o].pointer # NULL => heap[objects[o].pointer[1]] \in CallBooks
  <1>1. /\ Own[<<"object", o>>] = objects[o].pointer /\ <<"object", o>> \in Owner
        /\ For[<<"object", o>>] = CallBooks
    BY OwnValues, OwnerCases, BoxesHaveKinds
  <1> QED
    BY <1>1 DEF Ownership, Owned, ObjectsShape, WrapperShape

\* The first call of the two.
LEMMA AskOwns ==
    ASSUME Ownership, NEW t \in Thread, NEW b \in Object, objects[b].kind = "db",
           NEW method \in SizedMethods, NEW x,
           Ask(t, b, method, x), jobs[t].at = "idle",
           objects' = objects, gens' = gens
    PROVE  Ownership'
  <1>1. Usable(b)
    BY DEF Ask
  <1>2. PICK rendering \in Renderings(method, objects[b].pointer, x) :
            LET required == RequiredLen(method, rendering) IN
            /\ heap' = rendering.heap
            /\ jobs' = [jobs EXCEPT ![t] =
                  [Idle EXCEPT !.at = IF required < 0 THEN "answered" ELSE "sized",
                               !.does = method, !.on = <<b>>, !.of = x,
                               !.required = required,
                               !.error = IF required < 0 /\ required # NOT_FOUND
                                             THEN required ELSE OK]]
    BY DEF Ask
  <1> DEFINE required == RequiredLen(method, rendering)
             at == IF required < 0 THEN "answered" ELSE "sized"
             error == IF required < 0 /\ required # NOT_FOUND THEN required ELSE OK
             job == [Idle EXCEPT !.at = at, !.does = method, !.on = <<b>>, !.of = x,
                                 !.required = required, !.error = error]
  <1>3. heap' = rendering.heap /\ jobs' = [jobs EXCEPT ![t] = job]
    BY <1>2
  <1>4. at \in {"answered", "sized"}
    OBVIOUS
  <1> HIDE DEF required, at, error
  <1>5. /\ DOMAIN job = DOMAIN Idle /\ job.at = at /\ job.on = <<b>> /\ job.out = NULL
        /\ job.does = method
    BY DEF Idle
  <1> HIDE DEF job
  <1>6. DOMAIN jobs' = Thread /\ jobs'[t] = job /\ \A s \in Thread : s # t => jobs'[s] = jobs[s]
    BY <1>3 DEF Ownership, JobsShape
  <1>7. JobShape(job) /\ JobKnown(job)
    BY <1>4, <1>5, AddressIsNotNull DEF JobShape, JobKnown, Sizing, None, NULL
  <1>8. jobs[t].out = NULL
    BY DEF Ownership, JobsShape, JobShape
  <1>9. HeapShape' /\ HeapStays
    BY <1>1, <1>3, UsableIsLive, RenderingHeap DEF Ownership
  <1> QED
    BY <1>4, <1>5, <1>6, <1>7, <1>8, <1>9, JobKeeps

\* AskLength asks for the first time.
LEMMA AskLengthOwns ==
    ASSUME Ownership, NEW t \in Thread, AskLength(t)
    PROVE  Ownership'
  <1>1. PICK b \in Books, method \in program \cap SizedMethods, x \in Argument :
            Ask(t, b, method, x)
    BY DEF AskLength
  <1>2. b \in Object /\ objects[b].kind = "db" /\ jobs[t].at = "idle"
    BY DEF AskLength, Books
  <1>3. objects' = objects /\ gens' = gens
    BY <1>1 DEF Ask
  <1> QED
    BY <1>1, <1>2, <1>3, AskOwns

\* Fill is the second call.
LEMMA FillOwns ==
    ASSUME Ownership, NEW t \in Thread, Fill(t)
    PROVE  Ownership'
  <1>1. jobs[t].at = "sized" /\ Usable(jobs[t].on[1]) /\ objects' = objects /\ gens' = gens
    BY DEF Fill
  <1>2. JobShape(jobs[t]) /\ jobs[t].on # None /\ jobs[t].out = NULL
    BY <1>1 DEF Ownership, JobsShape, JobShape, Sizing
  <1>3. PICK b \in Object : jobs[t].on = <<b>>
    BY <1>2 DEF JobShape
  <1>a. objects[b].kind = "db"
    BY <1>1, <1>3 DEF Ownership, JobsKnown, JobKnown, Sizing
  <1>4. jobs[t].on[1] = b
    BY <1>3, AddressIsNotNull
  <1>5. PICK rendering \in Renderings(jobs[t].does, objects[b].pointer, jobs[t].of) :
            /\ heap' = rendering.heap
            /\ \E error, value : Answer(t, error, value)
    BY <1>4 DEF Fill
  <1>6. PICK error, value : Answer(t, error, value)
    BY <1>5
  <1>7. /\ DOMAIN jobs' = Thread
        /\ \A s \in Thread : s # t => jobs'[s] = jobs[s]
        /\ jobs'[t].at = "answered" /\ jobs'[t].out = NULL
        /\ JobShape(jobs'[t]) /\ JobKnown(jobs'[t])
    BY <1>1, <1>2, <1>6, JobAnswers
  <1>8. HeapShape' /\ HeapStays
    BY <1>1, <1>4, <1>5, <1>a, UsableIsLive, RenderingHeap DEF Ownership
  <1> QED
    BY <1>1, <1>2, <1>7, <1>8, JobKeeps

\* A change of wc.dat is noted in the methods and changes nothing else of them.
LEMMA ChangeWorldFileOwns ==
    ASSUME Ownership, ChangeWorldFile
    PROVE  Ownership'
  <1> DEFINE yes == TRUE
             noted == [t \in Thread |-> IF jobs[t].at = "sized"
                                            THEN [jobs[t] EXCEPT !.changed = yes] ELSE jobs[t]]
  <1>1. jobs' = noted /\ heap' = heap /\ objects' = objects /\ gens' = gens
    BY DEF ChangeWorldFile
  <1> HIDE DEF yes
  <1>2. \A t \in Thread : DOMAIN jobs[t] = DOMAIN Idle
    BY DEF Ownership, JobsShape, JobShape
  <1>3. /\ DOMAIN jobs' = Thread
        /\ \A t \in Thread :
              /\ DOMAIN jobs'[t] = DOMAIN Idle
              /\ jobs'[t].at = jobs[t].at /\ jobs'[t].out = jobs[t].out
              /\ jobs'[t].does = jobs[t].does /\ jobs'[t].on = jobs[t].on
              /\ jobs'[t].of = jobs[t].of
              /\ jobs'[t].code = jobs[t].code /\ jobs'[t].error = jobs[t].error
    BY <1>1, <1>2 DEF Idle
  <1> HIDE DEF noted
  <1>4. JobsShape'
    BY <1>3 DEF Ownership, JobsShape, JobShape, Sizing
  <1>b. JobsKnown'
    BY <1>1, <1>3 DEF Ownership, JobsKnown, JobKnown, Sizing
  <1>5. \A s \in Thread, o \in Object : Closing(s, o)' <=> Closing(s, o)
    BY <1>3 DEF Closing
  <1>6. \A o \in Object : Usable(o)' <=> Usable(o)
    BY <1>3 DEF Usable
  <1>7. \A h \in Owner : Own'[h] = Own[h] /\ For'[h] = For[h]
    BY <1>1, <1>3, <1>6, OwnValues, OwnValuesNext, OwnerCases
  <1>8. HeapShape' /\ ObjectsShape' /\ GensShape' /\ OneCloser'
    BY <1>1, <1>5 DEF Ownership, HeapShape, ObjectsShape, GensShape, OneCloser
  <1>9. Owned(heap', Own', For')
    <2> DEFINE own == Own  for == For  own2 == Own'  for2 == For'
    <2>1. Owned(heap, own, for) /\ \A h \in Owner : own2[h] = own[h] /\ for2[h] = for[h]
      BY <1>7 DEF Ownership
    <2> HIDE DEF own, for, own2, for2
    <2>2. Owned(heap', own2, for2)
      BY <1>1, <2>1, Keep
    <2> QED
      BY <2>2 DEF own2, for2
  <1> QED
    BY <1>4, <1>8, <1>9, <1>b DEF Ownership

-----------------------------------------------------------------------------
(* Wrappers *)

\* Wrap hands what the method got to a new wrapper.
LEMMA WrapOwns ==
    ASSUME Ownership, NEW t \in Thread, Wrap(t)
    PROVE  Ownership'
  <1>1. /\ jobs[t].at = "received" /\ jobs[t].does \notin DOMAIN Passing
        /\ heap' = heap /\ gens' = gens /\ HeapShape'
    BY DEF Wrap, Ownership, HeapShape
  <1>2. JobShape(jobs[t]) /\ JobsShape
    BY DEF Ownership, JobsShape
  <1>3. CASE jobs[t].code # OK
    <2>1. Answer(t, jobs[t].code, None) /\ objects' = objects
      BY <1>3 DEF Wrap
    <2>2. jobs[t].code # BUFFER_TOO_SMALL
      BY <1>1, <1>2 DEF JobShape
    <2>3. jobs[t].out = NULL
      BY <1>1, <1>2, <1>3 DEF JobShape
    <2>4. /\ DOMAIN jobs' = Thread
          /\ \A s \in Thread : s # t => jobs'[s] = jobs[s]
          /\ jobs'[t].at = "answered" /\ jobs'[t].out = NULL
          /\ JobShape(jobs'[t]) /\ JobKnown(jobs'[t])
      BY <1>1, <2>1, <2>2, JobAnswers
    <2> QED
      BY <1>1, <2>1, <2>3, <2>4, JobKeeps DEF HeapStays
  <1>4. CASE jobs[t].code = OK
    <2>1. PICK o \in Object :
            /\ objects[o] = Unbound
            /\ objects' = [objects EXCEPT ![o] =
                  [kind |-> Kind[jobs[t].does], pointer |-> jobs[t].out, of |-> jobs[t].of]]
            /\ Answer(t, OK, None)
      BY <1>4 DEF Wrap
    <2> DEFINE wrapper == [kind |-> Kind[jobs[t].does], pointer |-> jobs[t].out,
                           of |-> jobs[t].of]
    <2>2. OK # BUFFER_TOO_SMALL
      BY DEF OK, BUFFER_TOO_SMALL
    <2>3. /\ DOMAIN jobs' = Thread
          /\ \A s \in Thread : s # t => jobs'[s] = jobs[s]
          /\ jobs'[t].at = "answered" /\ jobs'[t].out = NULL
          /\ JobShape(jobs'[t]) /\ JobKnown(jobs'[t])
      BY <1>1, <2>1, <2>2, JobAnswers
    <2>4. /\ wrapper.kind = Kind[jobs[t].does] /\ wrapper.pointer = jobs[t].out
          /\ wrapper.of = jobs[t].of
          /\ DOMAIN wrapper = DOMAIN Unbound
      BY DEF Unbound
    <2> HIDE DEF wrapper
    <2>5. /\ DOMAIN objects' = Object /\ objects'[o] = wrapper
          /\ \A p \in Object : p # o => objects'[p] = objects[p]
      BY <2>1 DEF Ownership, ObjectsShape, wrapper
    <2>6. objects[o].pointer = NULL /\ objects[o].kind = "none"
      <3>1. Unbound.pointer = NULL /\ Unbound.kind = "none"
        BY DEF Unbound
      <3> QED
        BY <2>1, <3>1
    <2>a. JobsKnown'
      <3>1. ASSUME NEW s \in Thread, NEW p \in Object, jobs'[s].on = <<p>>
            PROVE  JobKnown(jobs'[s]) /\ objects'[p] = objects[p]
        <4>1. JobKnown(jobs'[s])
          BY <2>3 DEF Ownership, JobsKnown
        <4>2. p # o
          BY <2>6, <3>1, <4>1 DEF JobKnown
        <4> QED
          BY <2>5, <4>1, <4>2
      <3> QED
        BY <3>1 DEF JobsKnown, JobKnown
    <2>7. \A s \in Thread : ~Closing(s, o)
      BY <2>6 DEF Ownership, OneCloser
    <2>8. \A s \in Thread, p \in Object : Closing(s, p)' <=> Closing(s, p)
      BY <1>1, <2>3 DEF Closing
    <2>9. /\ \A p \in Object : Usable(p)' <=> Usable(p)
          /\ Usable(o)'
      BY <2>7, <2>8 DEF Usable, Closing
    <2>10. OneCloser'
      <3>1. ASSUME NEW s \in Thread, NEW p \in Object, Closing(s, p)'
            PROVE  objects'[p].pointer # NULL
        <4>1. p # o /\ Closing(s, p)
          BY <2>7, <2>8, <3>1
        <4> QED
          BY <2>5, <4>1 DEF Ownership, OneCloser
      <3> QED
        BY <2>8, <3>1 DEF Ownership, OneCloser
    <2>11. jobs[t].out \in PointerValues
      <3>1. Own[<<"job", t>>] = jobs[t].out /\ <<"job", t>> \in Owner
        BY OwnValues, OwnerCases
      <3> QED
        BY <3>1 DEF Ownership, Owned, PointerValues
    <2>12. WrapperShape(wrapper)
      BY <1>1, <1>2, <2>4, <2>11, KindsAreLive DEF WrapperShape, JobShape
    <2>13. ObjectsShape' /\ JobsShape' /\ GensShape'
      BY <1>1, <2>3, <2>5, <2>12 DEF Ownership, ObjectsShape, JobsShape, GensShape
    <2>14. Owned(heap', Own', For')
      <3> DEFINE own == Own  for == For  own2 == Own'  for2 == For'
                 h == <<"job", t>>  to == <<"object", o>>
      <3>1. /\ h \in Owner /\ to \in Owner /\ h # to
            /\ own[to] = NULL /\ own2[h] = NULL /\ own2[to] = own[h] /\ for2[to] = for[h]
        BY <2>3, <2>4, <2>5, <2>6, <2>9, OwnValues, OwnValuesNext, OwnerCases
      <3>2. ASSUME NEW k \in Owner, k # h, k # to
            PROVE  own2[k] = own[k] /\ for2[k] = for[k]
        <4>1. ASSUME NEW p \in Object, k = <<"object", p>>
              PROVE  own2[k] = own[k] /\ for2[k] = for[k]
          <5>1. p # o /\ objects'[p] = objects[p]
            BY <2>5, <3>2, <4>1
          <5> QED
            BY <2>9, <4>1, <5>1, OwnValues, OwnValuesNext
        <4>2. ASSUME NEW s \in Thread, k = <<"job", s>>
              PROVE  own2[k] = own[k] /\ for2[k] = for[k]
          <5>1. s # t /\ jobs'[s] = jobs[s]
            BY <2>3, <3>2, <4>2
          <5> QED
            BY <4>2, <5>1, OwnValues, OwnValuesNext
        <4>3. ASSUME NEW g \in Generator, k = <<"generator", g>>
              PROVE  own2[k] = own[k] /\ for2[k] = for[k]
          BY <1>1, <4>3, OwnValues, OwnValuesNext
        <4> QED
          BY <4>1, <4>2, <4>3, OwnerCases
      <3>3. Owned(heap, own, for)
        BY DEF Ownership
      <3> HIDE DEF own, for, own2, for2, h, to
      <3>4. Owned(heap, own2, for2)
        BY <3>1, <3>2, <3>3, Move
      <3> QED
        BY <1>1, <3>4 DEF own2, for2
    <2> QED
      BY <1>1, <2>10, <2>13, <2>14, <2>a DEF Ownership
  <1> QED
    BY <1>3, <1>4

\* CloseBegin frees the object of a wrapper, which is not usable from then on.
LEMMA CloseBeginOwns ==
    ASSUME Ownership, NEW t \in Thread, CloseBegin(t)
    PROVE  Ownership'
  <1>1. PICK o \in Object :
          /\ objects[o].pointer # NULL /\ Usable(o)
          /\ FreeKind(objects[o].kind, objects[o].pointer)
          /\ jobs' = [jobs EXCEPT ![t] = [Idle EXCEPT !.at = "closing", !.on = <<o>>]]
    BY DEF CloseBegin
  <1> DEFINE job == [Idle EXCEPT !.at = "closing", !.on = <<o>>]
  <1>2. DOMAIN job = DOMAIN Idle /\ job.at = "closing" /\ job.on = <<o>> /\ job.out = NULL
    BY DEF Idle
  <1> HIDE DEF job
  <1>3. DOMAIN jobs' = Thread /\ jobs'[t] = job /\ \A s \in Thread : s # t => jobs'[s] = jobs[s]
    BY <1>1 DEF Ownership, JobsShape, job
  <1>4. /\ jobs[t].at = "idle" /\ jobs[t].out = NULL
        /\ objects' = objects /\ gens' = gens
    BY DEF CloseBegin, Ownership, JobsShape, JobShape
  <1>5. JobShape(job) /\ JobKnown(job)
    <2>1. objects[o].kind # "none"
      BY <1>1 DEF Ownership, ObjectsShape, WrapperShape, ObjectKinds
    <2> QED
      BY <1>2, <2>1, AddressIsNotNull DEF JobShape, JobKnown, Sizing, None, NULL
  <1>6. PICK a \in Address : objects[o].pointer = <<a>>
    BY <1>1 DEF Ownership, ObjectsShape, WrapperShape, PointerValues
  <1>7. heap' = [heap EXCEPT ![a] = Freed]
    <2>1. objects[o].kind \in ObjectKinds
      BY <1>1 DEF Ownership, ObjectsShape, WrapperShape
    <2>2. heap' = IF objects[o].pointer = NULL THEN heap
                  ELSE [heap EXCEPT ![objects[o].pointer[1]] = Freed]
      BY <1>1, <2>1, Freeing
    <2>3. objects[o].pointer[1] = a
      BY <1>6, AddressIsNotNull
    <2> QED
      BY <1>1, <2>2, <2>3
  <1>8. HeapShape'
    <2>1. "kind" \in DOMAIN Freed
      BY DEF Freed
    <2> QED
      BY <1>7, <2>1, HeapKeepsShape DEF Ownership
  <1>9. \A p \in Object : <<p>> = <<o>> => p = o
    BY AddressIsNotNull
  <1>10. /\ Closing(t, o)' /\ \A p \in Object : Closing(t, p)' => p = o
         /\ \A s \in Thread, p \in Object : s # t => (Closing(s, p)' <=> Closing(s, p))
         /\ \A p \in Object : ~Closing(t, p)
         /\ \A s \in Thread : ~Closing(s, o)
    BY <1>1, <1>2, <1>3, <1>4, <1>9 DEF Closing, Usable
  <1>11. OneCloser'
    BY <1>1, <1>4, <1>10 DEF Ownership, OneCloser
  <1>12. ~Usable(o)' /\ \A p \in Object : p # o => (Usable(p)' <=> Usable(p))
    BY <1>10 DEF Usable, Closing
  <1>13. ObjectsShape' /\ JobsShape' /\ JobsKnown' /\ GensShape'
    BY <1>3, <1>4, <1>5, JobStep
  <1>14. Owned(heap', Own', For')
    <2> DEFINE own == Own  for == For  own2 == Own'  for2 == For'
               h == <<"object", o>>  cells2 == heap'
    <2>1. h \in Owner /\ own[h] = <<a>> /\ own2[h] = NULL
      BY <1>1, <1>6, <1>12, OwnValues, OwnValuesNext, OwnerCases
    <2>2. ASSUME NEW k \in Owner, k # h
          PROVE  own2[k] = own[k] /\ (own[k] # NULL => for2[k] = for[k])
      <3>1. ASSUME NEW p \in Object, k = <<"object", p>>
            PROVE  own2[k] = own[k] /\ for2[k] = for[k]
        <4>1. p # o
          BY <2>2, <3>1
        <4> QED
          BY <1>4, <1>12, <3>1, <4>1, OwnValues, OwnValuesNext
      <3>2. ASSUME NEW s \in Thread, k = <<"job", s>>
            PROVE  own2[k] = own[k] /\ (own[k] # NULL => for2[k] = for[k])
        <4>1. CASE s = t
          BY <1>2, <1>3, <1>4, <3>2, <4>1, OwnValues, OwnValuesNext
        <4>2. CASE s # t
          BY <1>3, <3>2, <4>2, OwnValues, OwnValuesNext
        <4> QED
          BY <4>1, <4>2
      <3>3. ASSUME NEW g \in Generator, k = <<"generator", g>>
            PROVE  own2[k] = own[k] /\ for2[k] = for[k]
        BY <1>4, <3>3, OwnValues, OwnValuesNext
      <3> QED
        BY <3>1, <3>2, <3>3, OwnerCases
    <2>3. \A b \in Address : cells2[b] = IF own[h] = <<b>> THEN Freed ELSE heap[b]
      <3>1. \A b \in Address : cells2[b] = IF a = b THEN Freed ELSE heap[b]
        BY <1>7 DEF Ownership, HeapShape
      <3>2. \A b \in Address : <<a>> = <<b>> <=> a = b
        BY AddressIsNotNull
      <3> QED
        BY <2>1, <3>1, <3>2
    <2>4. Owned(heap, own, for)
      BY DEF Ownership
    <2> HIDE DEF own, for, own2, for2, h, cells2
    <2>5. Owned(cells2, own2, for2)
      BY <2>1, <2>2, <2>3, <2>4, Drop
    <2> QED
      BY <2>5 DEF own2, for2, cells2
  <1> QED
    BY <1>8, <1>11, <1>13, <1>14 DEF Ownership

\* CloseEnd forgets the address of what is freed.
LEMMA CloseEndOwns ==
    ASSUME Ownership, NEW t \in Thread, CloseEnd(t)
    PROVE  Ownership'
  <1>1. /\ jobs[t].at = "closing" /\ heap' = heap /\ gens' = gens
        /\ objects' = [objects EXCEPT ![jobs[t].on[1]].pointer = NULL]
        /\ jobs' = [jobs EXCEPT ![t] = Idle]
    BY DEF CloseEnd
  <1>2. jobs[t].out = NULL /\ jobs[t].on # None /\ (jobs[t].on = None \/ \E o \in Object : jobs[t].on = <<o>>)
    BY <1>1 DEF Ownership, JobsShape, JobShape
  <1>3. PICK o \in Object : jobs[t].on = <<o>>
    BY <1>2
  <1>4. jobs[t].on[1] = o
    BY <1>3, AddressIsNotNull
  <1>5. DOMAIN jobs' = Thread /\ jobs'[t] = Idle /\ \A s \in Thread : s # t => jobs'[s] = jobs[s]
    BY <1>1 DEF Ownership, JobsShape
  <1>6. JobShape(Idle) /\ Idle.out = NULL /\ Idle.at = "idle" /\ Idle.on = None
    BY DEF JobShape, Sizing, Idle
  <1>7. /\ DOMAIN objects' = Object /\ DOMAIN objects'[o] = DOMAIN objects[o]
        /\ objects'[o].pointer = NULL /\ objects'[o].kind = objects[o].kind
        /\ objects'[o].of = objects[o].of
        /\ \A p \in Object : p # o => objects'[p] = objects[p]
    BY <1>1, <1>4 DEF Ownership, ObjectsShape, WrapperShape, Unbound
  <1>8. WrapperShape(objects'[o])
    BY <1>7 DEF Ownership, ObjectsShape, WrapperShape, PointerValues
  <1>9. Closing(t, o)
    BY <1>1, <1>3 DEF Closing
  <1>10. /\ \A p \in Object : ~Closing(t, p)'
         /\ \A p \in Object : Closing(t, p) => p = o
         /\ \A s \in Thread, p \in Object : s # t => (Closing(s, p)' <=> Closing(s, p))
         /\ \A s \in Thread : Closing(s, o) => s = t
    <2>1. \A p \in Object : <<p>> = <<o>> => p = o
      BY AddressIsNotNull
    <2>2. \A s \in Thread : Closing(s, o) => s = t
      BY <1>9 DEF Ownership, OneCloser
    <2> QED
      BY <1>3, <1>5, <1>6, <2>1, <2>2 DEF Closing
  <1>11. OneCloser'
    <2>1. ASSUME NEW s \in Thread, NEW p \in Object, Closing(s, p)'
          PROVE  objects'[p].pointer # NULL
      <3>1. s # t /\ Closing(s, p) /\ p # o
        BY <1>10, <2>1
      <3> QED
        BY <1>7, <3>1 DEF Ownership, OneCloser
    <2>2. ASSUME NEW r \in Thread, NEW s \in Thread, NEW p \in Object,
                 Closing(r, p)', Closing(s, p)'
          PROVE  r = s
      <3>1. r # t /\ s # t /\ Closing(r, p) /\ Closing(s, p)
        BY <1>10, <2>2
      <3> QED
        BY <3>1 DEF Ownership, OneCloser
    <2> QED
      BY <2>1, <2>2 DEF OneCloser
  <1>12. ~Usable(o) /\ \A p \in Object : p # o => (Usable(p)' <=> Usable(p))
    BY <1>9, <1>10 DEF Usable, Closing
  <1>13. HeapShape' /\ ObjectsShape' /\ JobsShape' /\ GensShape'
    BY <1>1, <1>5, <1>6, <1>7, <1>8 DEF Ownership, HeapShape, ObjectsShape, JobsShape, GensShape
  <1> HIDE DEF Idle
  <1>15. JobsKnown'
    <2>1. \A p \in Object : objects'[p].kind = objects[p].kind
      BY <1>7
    <2>2. \A p \in Object : None # <<p>>
      BY AddressIsNotNull DEF None, NULL
    <2>3. ASSUME NEW s \in Thread, NEW p \in Object, jobs'[s].on = <<p>>
          PROVE  /\ objects'[p].kind # "none"
                 /\ Sizing(jobs'[s]) => objects'[p].kind = "db"
      <3>1. s # t
        BY <1>5, <1>6, <2>2, <2>3
      <3>2. jobs'[s] = jobs[s] /\ JobKnown(jobs[s])
        BY <1>5, <3>1 DEF Ownership, JobsKnown
      <3>3. /\ objects[p].kind # "none"
            /\ Sizing(jobs[s]) => objects[p].kind = "db"
        BY <2>3, <3>2 DEF JobKnown
      <3> QED
        BY <2>1, <3>2, <3>3
    <2> QED
      BY <2>3 DEF JobsKnown, JobKnown
  <1>14. Owned(heap', Own', For')
    <2> DEFINE own == Own  for == For  own2 == Own'  for2 == For'
    <2>1. ASSUME NEW k \in Owner
          PROVE  own2[k] = own[k] /\ (own[k] # NULL => for2[k] = for[k])
      <3>1. ASSUME NEW p \in Object, k = <<"object", p>>
            PROVE  own2[k] = own[k] /\ (own[k] # NULL => for2[k] = for[k])
        <4>1. CASE p = o
          BY <1>7, <1>12, <3>1, <4>1, OwnValues, OwnValuesNext
        <4>2. CASE p # o
          BY <1>7, <1>12, <3>1, <4>2, OwnValues, OwnValuesNext
        <4> QED
          BY <4>1, <4>2
      <3>2. ASSUME NEW s \in Thread, k = <<"job", s>>
            PROVE  own2[k] = own[k] /\ (own[k] # NULL => for2[k] = for[k])
        <4>1. CASE s = t
          BY <1>2, <1>5, <1>6, <3>2, <4>1, OwnValues, OwnValuesNext
        <4>2. CASE s # t
          BY <1>5, <3>2, <4>2, OwnValues, OwnValuesNext
        <4> QED
          BY <4>1, <4>2
      <3>3. ASSUME NEW g \in Generator, k = <<"generator", g>>
            PROVE  own2[k] = own[k] /\ for2[k] = for[k]
        BY <1>1, <3>3, OwnValues, OwnValuesNext
      <3> QED
        BY <3>1, <3>2, <3>3, OwnerCases
    <2>2. Owned(heap, own, for)
      BY DEF Ownership
    <2> HIDE DEF own, for, own2, for2
    <2>3. Owned(heap, own2, for2)
      BY <2>1, <2>2, Keep
    <2> QED
      BY <1>1, <2>3 DEF own2, for2
  <1> QED
    BY <1>11, <1>13, <1>14, <1>15 DEF Ownership

\* A closed wrapper is nobody's when it is collected.
LEMMA CollectOwns ==
    ASSUME Ownership, NEW o \in Object, Collect(o)
    PROVE  Ownership'
  <1>1. /\ objects[o].pointer = NULL /\ objects' = [objects EXCEPT ![o] = Unbound]
        /\ ~Referenced(o)
        /\ heap' = heap /\ jobs' = jobs /\ gens' = gens
    BY DEF Collect
  <1>2. /\ DOMAIN objects' = Object /\ objects'[o] = Unbound
        /\ \A p \in Object : p # o => objects'[p] = objects[p]
    BY <1>1 DEF Ownership, ObjectsShape
  <1>3. WrapperShape(Unbound) /\ Unbound.pointer = NULL
    BY DEF WrapperShape, Unbound, PointerValues
  <1>4. \A s \in Thread, p \in Object : Closing(s, p)' <=> Closing(s, p)
    BY <1>1 DEF Closing
  <1>5. OneCloser'
    BY <1>1, <1>2, <1>4 DEF Ownership, OneCloser
  <1>6. \A p \in Object : Usable(p)' <=> Usable(p)
    BY <1>1 DEF Usable
  <1>7. HeapShape' /\ ObjectsShape' /\ JobsShape' /\ GensShape'
    BY <1>1, <1>2, <1>3 DEF Ownership, HeapShape, ObjectsShape, JobsShape, GensShape
  <1>8. Owned(heap', Own', For')
    <2> DEFINE own == Own  for == For  own2 == Own'  for2 == For'
    <2>1. ASSUME NEW k \in Owner
          PROVE  own2[k] = own[k] /\ (own[k] # NULL => for2[k] = for[k])
      <3>1. ASSUME NEW p \in Object, k = <<"object", p>>
            PROVE  own2[k] = own[k] /\ (own[k] # NULL => for2[k] = for[k])
        <4>1. CASE p = o
          BY <1>1, <1>2, <1>3, <3>1, <4>1, OwnValues, OwnValuesNext
        <4>2. CASE p # o
          BY <1>2, <1>6, <3>1, <4>2, OwnValues, OwnValuesNext
        <4> QED
          BY <4>1, <4>2
      <3>2. ASSUME NEW s \in Thread, k = <<"job", s>>
            PROVE  own2[k] = own[k] /\ for2[k] = for[k]
        BY <1>1, <3>2, OwnValues, OwnValuesNext
      <3>3. ASSUME NEW g \in Generator, k = <<"generator", g>>
            PROVE  own2[k] = own[k] /\ for2[k] = for[k]
        BY <1>1, <3>3, OwnValues, OwnValuesNext
      <3> QED
        BY <3>1, <3>2, <3>3, OwnerCases
    <2>2. Owned(heap, own, for)
      BY DEF Ownership
    <2> HIDE DEF own, for, own2, for2
    <2>3. Owned(heap, own2, for2)
      BY <2>1, <2>2, Keep
    <2> QED
      BY <1>1, <2>3 DEF own2, for2
  <1>9. JobsKnown'
    BY <1>1, <1>2 DEF Referenced, Ownership, JobsKnown, JobKnown
  <1> QED
    BY <1>5, <1>7, <1>8, <1>9 DEF Ownership

-----------------------------------------------------------------------------
(* Generators *)

\* A step of a generator, as to everything but the ownership.
LEMMA GenStep ==
    ASSUME Ownership, NEW g \in Generator, DOMAIN gens' = Generator,
           \A f \in Generator : f # g => gens'[f] = gens[f],
           GenShape(gens'[g]), objects' = objects, jobs' = jobs
    PROVE  ObjectsShape' /\ JobsShape' /\ JobsKnown' /\ GensShape'
  <1>1. GensShape'
    BY DEF Ownership, GensShape
  <1>2. ObjectsShape'
    BY DEF Ownership, ObjectsShape
  <1>3. JobsShape' /\ JobsKnown'
    BY DEF Ownership, JobsShape, JobsKnown, JobKnown
  <1> QED
    BY <1>1, <1>2, <1>3

\* A generator that keeps what it has.
LEMMA GenKeeps ==
    ASSUME Ownership, NEW g \in Generator, DOMAIN gens' = Generator,
           \A f \in Generator : f # g => gens'[f] = gens[f],
           GenShape(gens'[g]), objects' = objects, jobs' = jobs, heap' = heap,
           gens'[g].out = gens[g].out,
           gens[g].out # NULL => gens'[g].does = gens[g].does /\ gens'[g].index = gens[g].index
    PROVE  Ownership'
  <1>1. OneCloser' /\ \A h \in Owner : h # <<"generator", g>> => Own'[h] = Own[h] /\ For'[h] = For[h]
    BY GenOthers DEF Ownership
  <1>2. \A h \in Owner : Own'[h] = Own[h] /\ (Own[h] # NULL => For'[h] = For[h])
    <2>1. Own'[<<"generator", g>>] = gens'[g].out /\ Own[<<"generator", g>>] = gens[g].out
          /\ For'[<<"generator", g>>] = RowBoxes(gens'[g].does, gens'[g].index)
          /\ For[<<"generator", g>>] = RowBoxes(gens[g].does, gens[g].index)
      BY OwnValues, OwnValuesNext
    <2> QED
      BY <1>1, <2>1
  <1>3. Owned(heap', Own', For')
    <2> DEFINE own == Own  for == For  own2 == Own'  for2 == For'
    <2>1. Owned(heap, own, for) /\ \A h \in Owner : own2[h] = own[h] /\ (own[h] # NULL => for2[h] = for[h])
      BY <1>2 DEF Ownership
    <2> HIDE DEF own, for, own2, for2
    <2>2. Owned(heap, own2, for2)
      BY <2>1, Keep
    <2> QED
      BY <2>2 DEF own2, for2
  <1>4. HeapShape'
    BY DEF Ownership, HeapShape
  <1> QED
    BY <1>1, <1>3, <1>4, GenStep DEF Ownership

\* A generator that frees the record it has, if it has one.
LEMMA GenFrees ==
    ASSUME Ownership, NEW g \in Generator, DOMAIN gens' = Generator,
           \A f \in Generator : f # g => gens'[f] = gens[f],
           GenShape(gens'[g]), objects' = objects, jobs' = jobs, gens'[g].out = NULL,
           FreeKind(RecordKind(gens[g].does), gens[g].out)
    PROVE  Ownership'
  <1>1. OneCloser' /\ \A h \in Owner : h # <<"generator", g>> => Own'[h] = Own[h] /\ For'[h] = For[h]
    BY GenOthers DEF Ownership
  <1>2. /\ <<"generator", g>> \in Owner
        /\ Own'[<<"generator", g>>] = NULL /\ Own[<<"generator", g>>] = gens[g].out
    BY OwnValues, OwnValuesNext, OwnerCases
  <1>3. gens[g].out \in PointerValues
    BY <1>2 DEF Ownership, Owned, PointerValues
  <1>4. heap' = IF gens[g].out = NULL THEN heap ELSE [heap EXCEPT ![gens[g].out[1]] = Freed]
    <2>1. RecordKind(gens[g].does) \in ObjectKinds \cup {"country", "count", "us_record", "definition"}
      BY DEF RecordKind
    <2> QED
      BY <2>1, Freeing
  <1>5. HeapShape' /\ \A b \in Address : heap'[b] = IF gens[g].out = <<b>> THEN Freed ELSE heap[b]
    <2>1. CASE gens[g].out = NULL
      BY <1>4, <2>1, AddressIsNotNull DEF Ownership, HeapShape
    <2>2. CASE gens[g].out # NULL
      <3>1. PICK a \in Address : gens[g].out = <<a>>
        BY <1>3, <2>2 DEF PointerValues
      <3>2. heap' = [heap EXCEPT ![a] = Freed]
        BY <1>4, <2>2, <3>1
      <3>3. "kind" \in DOMAIN Freed
        BY DEF Freed
      <3> QED
        BY <3>1, <3>2, <3>3, HeapKeepsShape DEF Ownership, HeapShape
    <2> QED
      BY <2>1, <2>2
  <1>6. Owned(heap', Own', For')
    <2> DEFINE own == Own  for == For  own2 == Own'  for2 == For'  h == <<"generator", g>>
               cells2 == heap'
    <2>1. Owned(heap, own, for) /\ h \in Owner /\ own2[h] = NULL
          /\ \A k \in Owner : k # h => own2[k] = own[k] /\ for2[k] = for[k]
      BY <1>1, <1>2 DEF Ownership
    <2>2. \A b \in Address : cells2[b] = IF own[h] = <<b>> THEN Freed ELSE heap[b]
      BY <1>2, <1>5
    <2> HIDE DEF own, for, own2, for2, h, cells2
    <2>3. Owned(cells2, own2, for2)
      BY <2>1, <2>2, Drop
    <2> QED
      BY <2>3 DEF own2, for2, cells2
  <1> QED
    BY <1>1, <1>5, <1>6, GenStep DEF Ownership

\* Generate, FirstNext and Yield neither get nor free a record.
LEMMA GenerateOwns ==
    ASSUME Ownership, NEW g \in Generator, Generate(g) \/ FirstNext(g) \/ Yield(g)
    PROVE  Ownership'
  <1>1. GenShape(gens[g]) /\ DOMAIN gens = Generator
    BY DEF Ownership, GensShape
  <1>2. heap' = heap /\ objects' = objects /\ jobs' = jobs
    BY Zenon DEF Generate, FirstNext, Yield
  <1>3. CASE Generate(g)
    <2>1. PICK b \in Books, method \in program \cap GeneratorMethods :
            gens' = [gens EXCEPT ![g] = [NoGen EXCEPT !.at = "fresh", !.does = method,
                                                      !.on = <<b>>]]
      BY <1>3 DEF Generate
    <2> DEFINE gen == [NoGen EXCEPT !.at = "fresh", !.does = method, !.on = <<b>>]
    <2>2. DOMAIN gen = DOMAIN NoGen /\ gen.out = NULL
      BY DEF NoGen
    <2> HIDE DEF gen
    <2>3. DOMAIN gens' = Generator /\ gens'[g] = gen /\ \A f \in Generator : f # g => gens'[f] = gens[f]
      BY <1>1, <2>1 DEF gen
    <2>4. gens[g].out = NULL
      BY <1>1, <1>3 DEF Generate, GenShape
    <2>5. GenShape(gen)
      BY <2>2 DEF GenShape
    <2> QED
      BY <1>2, <2>2, <2>3, <2>4, <2>5, GenKeeps
  <1>4. CASE FirstNext(g)
    <2> DEFINE began == Pointer(g) # NULL
               count == CountOf(gens[g].does, Pointer(g))
    <2>1. gens' = [gens EXCEPT ![g].at = "running", ![g].began = began, ![g].count = count]
      BY <1>4 DEF FirstNext
    <2> HIDE DEF began, count
    <2>2. /\ DOMAIN gens' = Generator
          /\ \A f \in Generator : f # g => gens'[f] = gens[f]
          /\ DOMAIN gens'[g] = DOMAIN gens[g] /\ gens'[g].out = gens[g].out
      BY <1>1, <2>1 DEF GenShape, NoGen
    <2>3. gens[g].out = NULL
      BY <1>1, <1>4 DEF FirstNext, GenShape
    <2>4. GenShape(gens'[g])
      BY <1>1, <2>2, <2>3 DEF GenShape
    <2> QED
      BY <1>1, <1>2, <2>2, <2>3, <2>4, GenKeeps
  <1>5. CASE Yield(g)
    <2> DEFINE yielded == gens[g].yielded \o Copied(RecordKind(gens[g].does), gens[g].out)
    <2>1. gens' = [gens EXCEPT ![g].at = "suspended", ![g].yielded = yielded]
      BY <1>5 DEF Yield
    <2> HIDE DEF yielded
    <2>2. /\ DOMAIN gens' = Generator
          /\ \A f \in Generator : f # g => gens'[f] = gens[f]
          /\ DOMAIN gens'[g] = DOMAIN gens[g] /\ gens'[g].out = gens[g].out
          /\ gens'[g].does = gens[g].does /\ gens'[g].index = gens[g].index
          /\ gens'[g].at = "suspended"
      BY <1>1, <2>1 DEF GenShape, NoGen
    <2>3. GenShape(gens'[g])
      BY <1>1, <2>2 DEF GenShape
    <2> QED
      BY <1>2, <2>2, <2>3, GenKeeps
  <1> QED
    BY <1>3, <1>4, <1>5

\* LaterNext and Exit free the record.
LEMMA LaterNextOwns ==
    ASSUME Ownership, NEW g \in Generator, LaterNext(g) \/ Exit(g)
    PROVE  Ownership'
  <1>1. GenShape(gens[g]) /\ DOMAIN gens = Generator
    BY DEF Ownership, GensShape
  <1>2. /\ objects' = objects /\ jobs' = jobs
        /\ FreeKind(RecordKind(gens[g].does), gens[g].out)
    BY DEF LaterNext, Exit
  <1>3. CASE LaterNext(g)
    <2> DEFINE index == gens[g].index + 1
    <2>1. gens' = [gens EXCEPT ![g].at = "running", ![g].index = index, ![g].out = NULL]
      BY <1>3 DEF LaterNext
    <2> HIDE DEF index
    <2>2. /\ DOMAIN gens' = Generator
          /\ \A f \in Generator : f # g => gens'[f] = gens[f]
          /\ DOMAIN gens'[g] = DOMAIN gens[g] /\ gens'[g].out = NULL
      BY <1>1, <2>1 DEF GenShape, NoGen
    <2>3. GenShape(gens'[g])
      BY <1>1, <2>2 DEF GenShape
    <2> QED
      BY <1>2, <2>2, <2>3, GenFrees
  <1>4. CASE Exit(g)
    <2>1. DOMAIN gens' = Generator /\ gens'[g] = NoGen /\ \A f \in Generator : f # g => gens'[f] = gens[f]
      BY <1>1, <1>4 DEF Exit
    <2>2. GenShape(NoGen) /\ NoGen.out = NULL
      BY DEF GenShape, NoGen
    <2> QED
      BY <1>2, <2>1, <2>2, GenFrees
  <1> QED
    BY <1>3, <1>4

\* Fetch ends the generator or gets one record.
LEMMA FetchOwns ==
    ASSUME Ownership, NEW g \in Generator, Fetch(g)
    PROVE  Ownership'
  <1>1. GenShape(gens[g]) /\ DOMAIN gens = Generator /\ HeapShape
    BY DEF Ownership, GensShape
  <1>2. gens[g].at = "running" /\ objects' = objects /\ jobs' = jobs /\ gens[g].out = NULL
    BY <1>1 DEF Fetch, GenShape
  <1>3. CASE gens[g].index >= gens[g].count
    <2>1. heap' = heap /\ gens' = [gens EXCEPT ![g].at = "ended", ![g].on = None]
      BY <1>3 DEF Fetch
    <2>2. /\ DOMAIN gens' = Generator
          /\ \A f \in Generator : f # g => gens'[f] = gens[f]
          /\ DOMAIN gens'[g] = DOMAIN gens[g] /\ gens'[g].out = gens[g].out
      BY <1>1, <2>1 DEF GenShape, NoGen
    <2>3. GenShape(gens'[g])
      BY <1>1, <1>2, <2>2 DEF GenShape
    <2> QED
      BY <1>2, <2>1, <2>2, <2>3, GenKeeps
  <1>4. CASE ~(gens[g].index >= gens[g].count)
    <2> DEFINE answer == RecordAt(gens[g].does, Pointer(g), gens[g].index)
               boxes == RowBoxes(gens[g].does, gens[g].index)
    <2>1. IsAnswer(answer, boxes)
      BY RecordAtIsAnswer
    <2>a. \A box \in boxes : "kind" \in DOMAIN box
      BY BoxesHaveKinds
    <2>b. Freed \notin boxes
      BY BoxesHaveKinds
    <2>2. PICK out \in {NULL} \cup {<<a>> : a \in Address} :
                 /\ Allocate(answer, out)
                 /\ gens' = [gens EXCEPT ![g] =
                       IF answer.code # OK
                           THEN [gens[g] EXCEPT !.at = "ended", !.on = None, !.error = answer.code]
                           ELSE [gens[g] EXCEPT !.at = "yielding", !.out = out]]
      BY <1>4 DEF Fetch
    <2> HIDE DEF answer
    <2>3. /\ DOMAIN gens' = Generator
          /\ \A f \in Generator : f # g => gens'[f] = gens[f]
          /\ DOMAIN gens'[g] = DOMAIN NoGen
          /\ gens'[g].does = gens[g].does /\ gens'[g].index = gens[g].index
          /\ answer.code # OK => gens'[g].out = NULL
          /\ answer.code = OK => gens'[g].out = out /\ gens'[g].at = "yielding"
      BY <1>1, <1>2, <2>2 DEF GenShape, NoGen
    <2>4. GenShape(gens'[g])
      BY <2>3 DEF GenShape
    <2>5. CASE answer.code \in {NOT_FOUND, USAGE, OPEN_FAILED} /\ out = NULL /\ heap' = heap
      <3>1. gens'[g].out = gens[g].out
        BY <1>2, <2>3, <2>5
      <3> QED
        BY <1>2, <2>3, <2>4, <2>5, <3>1, GenKeeps
    <2>6. ASSUME answer.code = OK, NEW a \in Address, NEW box \in boxes, heap[a] = Freed,
                 out = <<a>>, heap' = [heap EXCEPT ![a] = box]
          PROVE  Ownership'
      <3>1. HeapShape'
        BY <1>1, <2>6, <2>a, HeapKeepsShape
      <3>2. OneCloser' /\ \A h \in Owner : h # <<"generator", g>> => Own'[h] = Own[h] /\ For'[h] = For[h]
        BY <1>2, <2>3, GenOthers DEF Ownership
      <3>3. Owned(heap', Own', For')
        <4> DEFINE own == Own  for == For  own2 == Own'  for2 == For'  h == <<"generator", g>>
                   cells2 == heap'
        <4>1. Owned(heap, own, for)
          BY DEF Ownership
        <4>2. own[h] = NULL /\ own2[h] = <<a>> /\ for2[h] = boxes /\ h \in Owner
              /\ \A k \in Owner : k # h => own2[k] = own[k] /\ for2[k] = for[k]
          BY <1>2, <2>3, <2>6, <3>2, OwnValues, OwnValuesNext, OwnerCases
        <4>4. cells2[a] = box /\ \A b \in Address : b # a => cells2[b] = heap[b]
          BY <1>1, <2>6 DEF HeapShape
        <4> HIDE DEF own, for, own2, for2, h, cells2
        <4>5. cells2[a] \in for2[h] /\ Freed \notin for2[h] /\ heap[a] = Freed
          BY <2>6, <2>b, <4>2, <4>4
        <4>6. Owned(cells2, own2, for2)
          BY <4>1, <4>2, <4>4, <4>5, Take
        <4> QED
          BY <4>6 DEF own2, for2, cells2
      <3>4. ObjectsShape' /\ JobsShape' /\ JobsKnown' /\ GensShape'
        BY <1>2, <2>3, <2>4, GenStep
      <3> QED
        BY <3>1, <3>2, <3>3, <3>4 DEF Ownership
    <2> QED
      BY <2>1, <2>2, <2>5, <2>6, Boxing
  <1> QED
    BY <1>3, <1>4

-----------------------------------------------------------------------------
(* The theorems *)

\* Nothing is boxed when a program begins.
LEMMA InitOwns ==
    ASSUME Init
    PROVE  Ownership
  <1>1. HeapShape
    BY DEF Init, HeapShape, Freed
  <1>2. ObjectsShape /\ \A o \in Object : objects[o].pointer = NULL
    BY DEF Init, ObjectsShape, WrapperShape, Unbound, PointerValues
  <1>3. \A t \in Thread : /\ jobs[t] = Idle /\ jobs[t].at = "idle" /\ jobs[t].out = NULL
                         /\ jobs[t].on = None
    BY DEF Init, Idle
  <1>4. JobsShape
    <2>1. JobShape(Idle)
      BY DEF JobShape, Sizing, Idle
    <2> QED
      BY <1>3, <2>1 DEF Init, JobsShape
  <1>a. JobsKnown
    <2>1. \A o \in Object : None # <<o>>
      BY AddressIsNotNull DEF None, NULL
    <2> QED
      BY <1>3, <2>1 DEF JobsKnown, JobKnown
  <1>5. \A g \in Generator : gens[g] = NoGen /\ gens[g].out = NULL
    BY DEF Init, NoGen
  <1>6. GensShape
    <2>1. GenShape(NoGen)
      BY DEF GenShape, NoGen
    <2> QED
      BY <1>5, <2>1 DEF Init, GensShape
  <1>7. OneCloser
    BY <1>3 DEF OneCloser, Closing
  <1>8. \A h \in Owner : Own[h] = NULL
    BY <1>2, <1>3, <1>5, OwnValues, OwnerCases
  <1>9. Owned(heap, Own, For)
    BY <1>8 DEF Init, Owned
  <1> QED
    BY <1>1, <1>2, <1>4, <1>6, <1>7, <1>9, <1>a DEF Ownership

\* No step gives an object a second owner or none.
LEMMA NextOwns ==
    ASSUME Ownership, [Next]_vars
    PROVE  Ownership'
  <1>1. ASSUME NEW t \in Thread,
               \/ CallOpen(t) \/ CallMethod(t) \/ Read(t) \/ Return(t)
               \/ CloseBegin(t) \/ AskLength(t) \/ Progress(t)
        PROVE  Ownership'
    BY <1>1, CallOpenOwns, CallMethodOwns, ReadOwns, ReturnOwns, CloseBeginOwns,
       AskLengthOwns, WrapOwns, CopyOwns, FreeTemporaryOwns, CloseEndOwns, FillOwns
       DEF Progress
  <1>2. ASSUME NEW o \in Object, Collect(o)
        PROVE  Ownership'
    BY <1>2, CollectOwns
  <1>3. ASSUME NEW g \in Generator,
               \/ Generate(g) \/ FirstNext(g) \/ LaterNext(g) \/ Fetch(g)
               \/ Yield(g) \/ Exit(g)
        PROVE  Ownership'
    BY <1>3, GenerateOwns, LaterNextOwns, FetchOwns
  <1>4. CASE ChangeWorldFile
    BY <1>4, ChangeWorldFileOwns
  <1>5. CASE UNCHANGED vars
    BY <1>5 DEF vars, Ownership, HeapShape, ObjectsShape, JobsShape, JobsKnown, JobKnown,
                GensShape, OneCloser, Closing, Own, For, OwnedBy, TakenFor, Usable
  <1> QED
    BY <1>1, <1>2, <1>3, <1>4, <1>5 DEF Next

\* The inductive invariant.
THEOREM OwnershipHolds == Spec => []Ownership
  <1>1. Init => Ownership
    BY InitOwns
  <1>2. Ownership /\ [Next]_vars => Ownership'
    BY NextOwns
  <1> QED
    BY <1>1, <1>2, PTL DEF Spec

\* The holders of the properties are the owners of the proof.
LEMMA HoldersAreOwners ==
    ASSUME Ownership
    PROVE  /\ Holders = {h \in Owner : Own[h] # NULL}
           /\ \A h \in Holders : Held(h) = Own[h] /\ \A box \in For[h] : box.kind = HeldKind(h)
  <1>1. \A h \in Holders : h \in Owner /\ Own[h] # NULL /\ Held(h) = Own[h]
        /\ \A box \in For[h] : box.kind = HeldKind(h)
    <2> SUFFICES ASSUME NEW h \in Holders
                 PROVE  h \in Owner /\ Own[h] # NULL /\ Held(h) = Own[h]
        /\ \A box \in For[h] : box.kind = HeldKind(h)
      OBVIOUS
    <2>1. ASSUME NEW o \in Object, objects[o].pointer # NULL, Usable(o), h = <<"object", o>>
          PROVE  h \in Owner /\ Own[h] # NULL /\ Held(h) = Own[h]
        /\ \A box \in For[h] : box.kind = HeldKind(h)
      BY <2>1, OwnValues, OwnerCases, BoxesHaveKinds DEF Held, HeldKind
    <2>2. ASSUME NEW t \in Thread, jobs[t].out # NULL, h = <<"job", t>>
          PROVE  h \in Owner /\ Own[h] # NULL /\ Held(h) = Own[h]
        /\ \A box \in For[h] : box.kind = HeldKind(h)
      BY <2>2, OwnValues, OwnerCases, BoxesHaveKinds DEF Held, HeldKind
    <2>3. ASSUME NEW g \in Generator, gens[g].out # NULL, h = <<"generator", g>>
          PROVE  h \in Owner /\ Own[h] # NULL /\ Held(h) = Own[h]
        /\ \A box \in For[h] : box.kind = HeldKind(h)
      BY <2>3, OwnValues, OwnerCases, BoxesHaveKinds DEF Held, HeldKind
    <2> QED
      BY <2>1, <2>2, <2>3 DEF Holders
  <1>2. ASSUME NEW h \in Owner, Own[h] # NULL
        PROVE  h \in Holders
    <2>1. ASSUME NEW o \in Object, h = <<"object", o>>
          PROVE  h \in Holders
      BY <1>2, <2>1, OwnValues DEF Holders
    <2>2. ASSUME NEW t \in Thread, h = <<"job", t>>
          PROVE  h \in Holders
      BY <1>2, <2>2, OwnValues DEF Holders
    <2>3. ASSUME NEW g \in Generator, h = <<"generator", g>>
          PROVE  h \in Holders
      BY <1>2, <2>3, OwnValues DEF Holders
    <2> QED
      BY <2>1, <2>2, <2>3, OwnerCases
  <1> QED
    BY <1>1, <1>2

\* No call meets an object that is freed or of another kind, and none is freed twice, for
\* any number of threads that call, close, suspend and collect (_api.py).
THEOREM OneOwnerHolds == Spec => []OneOwner
  <1>1. Ownership => OneOwner
    BY HoldersAreOwners DEF Ownership, Owned, OneOwner
  <1> QED
    BY <1>1, OwnershipHolds, PTL

\* No method, `with' block or generator loses an object.
THEOREM NothingLeaksHolds == Spec => []NothingLeaks
  <1>1. ASSUME Ownership
        PROVE  NothingLeaks
    <2>1. ASSUME NEW a \in Address, heap[a] # Freed
          PROVE  \E h \in Holders : Held(h) = <<a>>
      <3>1. PICK h \in Owner : Own[h] = <<a>>
        BY <1>1, <2>1 DEF Ownership, Owned
      <3>2. h \in Holders /\ Held(h) = Own[h]
        BY <1>1, <3>1, AddressIsNotNull, HoldersAreOwners
      <3> QED
        BY <3>1, <3>2
    <2> QED
      BY <2>1 DEF NothingLeaks
  <1> QED
    BY <1>1, OwnershipHolds, PTL
-----------------------------------------------------------------------------
(* One method at a time *)

\* A step of a method changes no other one, no generator and not wc.dat.
LEMMA OneMethod ==
    ASSUME JobsShape, NEW t \in Thread,
           \/ CallOpen(t) \/ CallMethod(t) \/ Read(t) \/ Return(t)
           \/ CloseBegin(t) \/ AskLength(t) \/ Progress(t)
    PROVE  /\ worldFile' = worldFile /\ gens' = gens
           /\ DOMAIN jobs' = Thread /\ \A s \in Thread : s # t => jobs'[s] = jobs[s]
  <1> DEFINE Only(new) == jobs' = [jobs EXCEPT ![t] = new]
             Goal == /\ worldFile' = worldFile /\ gens' = gens
                     /\ DOMAIN jobs' = Thread /\ \A s \in Thread : s # t => jobs'[s] = jobs[s]
  <1>1. ASSUME worldFile' = worldFile, gens' = gens, NEW new, Only(new)
        PROVE  Goal
    BY <1>1 DEF JobsShape
  <1>2. ASSUME NEW error, NEW value, Answer(t, error, value)
        PROVE  DOMAIN jobs' = Thread /\ \A s \in Thread : s # t => jobs'[s] = jobs[s]
    BY <1>2, AnswerJob
  <1>3. CASE CallOpen(t) \/ CallMethod(t)
    <2>1. worldFile' = worldFile /\ gens' = gens /\ \E new : Only(new)
      BY <1>3 DEF CallOpen, CallMethod, Received
    <2>2. PICK new : Only(new)
      BY <2>1
    <2>3. Goal
      BY <1>1, <2>1, <2>2
    <2> QED
      BY <2>3
  <1>4. CASE Read(t) \/ Return(t) \/ CloseBegin(t) \/ CloseEnd(t)
    <2>1. worldFile' = worldFile /\ gens' = gens /\ \E new : Only(new)
      BY <1>4, Zenon DEF Read, Return, CloseBegin, CloseEnd
    <2>2. PICK new : Only(new)
      BY <2>1
    <2>3. Goal
      BY <1>1, <2>1, <2>2
    <2> QED
      BY <2>3
  <1>5. ASSUME NEW b, NEW method, NEW x, Ask(t, b, method, x)
        PROVE  Goal
    <2>1. worldFile' = worldFile /\ gens' = gens /\ \E new : Only(new)
      BY <1>5 DEF Ask
    <2>2. PICK new : Only(new)
      BY <2>1
    <2>3. Goal
      BY <1>1, <2>1, <2>2
    <2> QED
      BY <2>3
  <1>6. CASE AskLength(t)
    <2>1. PICK b, method, x : Ask(t, b, method, x)
      BY <1>6 DEF AskLength
    <2>2. Goal
      BY <1>5, <2>1
    <2> QED
      BY <2>2
  <1>7. CASE Wrap(t) \/ FreeTemporary(t) \/ Fill(t)
    <2>1. worldFile' = worldFile /\ gens' = gens /\ \E error, value : Answer(t, error, value)
      BY <1>7 DEF Wrap, FreeTemporary, Fill
    <2> QED
      BY <1>2, <2>1
  <1>8. CASE Copy(t)
    <2>1. /\ worldFile' = worldFile /\ gens' = gens
          /\ \/ \E error, value : Answer(t, error, value)
             \/ \E value : jobs' = [jobs EXCEPT ![t].at = "copied", ![t].value = value]
      BY <1>8 DEF Copy
    <2>2. ASSUME NEW value, jobs' = [jobs EXCEPT ![t].at = "copied", ![t].value = value]
          PROVE  DOMAIN jobs' = Thread /\ \A s \in Thread : s # t => jobs'[s] = jobs[s]
      BY <2>2 DEF JobsShape
    <2> QED
      BY <1>2, <2>1, <2>2
  <1> QED
    BY <1>3, <1>4, <1>6, <1>7, <1>8 DEF Progress

\* A generator, the collector and a change of wc.dat leave the methods where they are.
LEMMA NoMethod ==
    ASSUME JobsShape,
           \/ \E o \in Object : Collect(o)
           \/ \E g \in Generator : \/ Generate(g) \/ FirstNext(g) \/ LaterNext(g) \/ Fetch(g)
                                   \/ Yield(g) \/ Exit(g)
           \/ UNCHANGED vars
    PROVE  jobs' = jobs /\ worldFile' = worldFile
  BY Zenon DEF Collect, Generate, FirstNext, LaterNext, Fetch, Yield, Exit, vars

-----------------------------------------------------------------------------
(* Buffers that are large enough *)

\* What is drawn in the map of a station.
Drawn(station, world) ==
    {x \in {"marker", "world"} : IF x = "marker" THEN station = "marked" ELSE world}
\* The text that the second call writes, if it writes one, as wc.dat is.
Needs(job, need) ==
    IF job.does = "lookup_json" THEN need = Bytes({"report"})
    ELSE \E station \in Library.map[job.of] \ {"error"} :
            need = Bytes(Drawn(station, worldFile # "absent"))

\* A buffer has room for it until wc.dat changes, and is too small only then.
BufferFits(job) ==
    /\ Sizing(job) => job.of \in Argument
    /\ job.at = "sized" /\ ~job.changed => \E need \in Nat : Needs(job, need) /\ job.required = need + 1
    /\ job.at = "answered" /\ job.error = BUFFER_TOO_SMALL => job.changed
BuffersFit == \A t \in Thread : BufferFits(jobs[t])

\* A length is a number.
LEMMA BytesAreNat ==
    ASSUME NEW text
    PROVE  Bytes(text) \in Nat
  BY DEF Bytes

\* As long as wc.dat stays, the two calls write the same text or fail.
LEMMA NeedsOnce ==
    ASSUME NEW job, job.of \in Argument, NEW m, Needs(job, m), NEW n, Needs(job, n)
    PROVE  m = n
  <1>1. CASE job.does = "lookup_json"
    BY <1>1 DEF Needs
  <1>2. CASE job.does # "lookup_json"
    <2>1. job.of \in DOMAIN Library.map
      BY ArgumentAssumption
    <2>2. \A s, u \in Library.map[job.of] \ {"error"} : s = u
      BY <2>1, LibraryAssumption DEF IsLibrary
    <2> QED
      BY <1>2, <2>2 DEF Needs
  <1> QED
    BY <1>1, <1>2

\* A rendering that succeeds is the text that is needed.
LEMMA RenderingNeeds ==
    ASSUME NEW job, job.does \in SizedMethods, NEW p,
           NEW rendering \in Renderings(job.does, p, job.of)
    PROVE  /\ rendering.code \in {OK, USAGE, NOT_FOUND}
           /\ rendering.code = OK => Needs(job, Bytes(rendering.text))
  <1>1. CASE p = NULL
    BY <1>1 DEF Renderings, OK, USAGE, NOT_FOUND
  <1>2. CASE p # NULL /\ job.does = "lookup_json"
    <2> DEFINE made == lookup_json(Library.lookup[job.of])
    <2>1. rendering.code = made.code /\ rendering.text = made.text
      BY <1>2 DEF Renderings
    <2>2. \/ made.code = OK /\ made.text = {"report"}
          \/ made.code = USAGE
      BY DEF lookup_json
    <2> HIDE DEF made
    <2> QED
      BY <1>2, <2>1, <2>2 DEF Needs, OK, USAGE
  <1>3. CASE p # NULL /\ job.does = "map_svg"
    <2>1. PICK station \in Library.map[job.of] :
             rendering.code = map_svg(p, station).code /\ rendering.text = map_svg(p, station).text
      BY <1>3 DEF Renderings
    <2>2. WorldLayer(p) \in {"none", "drawn", "error"}
          /\ (WorldLayer(p) = "drawn" => worldFile # "absent")
          /\ (WorldLayer(p) = "none" => worldFile = "absent")
      BY DEF WorldLayer
    <2>3. \/ map_svg(p, station).code = USAGE
          \/ map_svg(p, station).code = NOT_FOUND
          \/ /\ map_svg(p, station).code = OK /\ station # "error" /\ WorldLayer(p) # "error"
             /\ map_svg(p, station).text = Drawn(station, WorldLayer(p) = "drawn")
      BY DEF map_svg, Drawn
    <2>4. WorldLayer(p) # "error" => (WorldLayer(p) = "drawn" <=> worldFile # "absent")
      BY <2>2
    <2>5. WorldLayer(p) # "error" =>
             Drawn(station, WorldLayer(p) = "drawn") = Drawn(station, worldFile # "absent")
      BY <2>4 DEF Drawn
    <2> QED
      BY <1>3, <2>1, <2>3, <2>5 DEF Needs, OK, USAGE, NOT_FOUND
  <1> QED
    BY <1>1, <1>2, <1>3 DEF SizedMethods

\* A method that is in no sized call has no buffer.
LEMMA NoBuffer ==
    ASSUME NEW job, ~Sizing(job)
    PROVE  BufferFits(job)
  BY DEF BufferFits, Sizing

\* A method that stays as it is keeps its buffer, as long as wc.dat stays.
LEMMA SameBuffer ==
    ASSUME BuffersFit, NEW s \in Thread, jobs'[s] = jobs[s], worldFile' = worldFile
    PROVE  BufferFits(jobs[s])'
  BY DEF BuffersFit, BufferFits, Needs, Sizing

\* No other step begins a sized call.
LEMMA OtherStepsDoNotSize ==
    ASSUME Ownership, NEW t \in Thread,
           \/ CallOpen(t) \/ CallMethod(t) \/ Read(t) \/ Return(t) \/ CloseBegin(t)
           \/ Wrap(t) \/ Copy(t) \/ FreeTemporary(t) \/ CloseEnd(t)
    PROVE  ~Sizing(jobs'[t])
  <1>1. JobsShape /\ JobShape(jobs[t]) /\ DOMAIN jobs = Thread
    BY DEF Ownership, JobsShape
  <1>a. ASSUME NEW method, NEW o, NEW x, NEW answer, Received(t, method, o, x, answer)
        PROVE  ~Sizing(jobs'[t])
    <2>1. PICK out :
             jobs' = [jobs EXCEPT ![t] =
                          [Idle EXCEPT !.at = "received", !.does = method, !.on = o, !.of = x,
                                       !.out = out, !.code = answer.code]]
      BY <1>a DEF Received
    <2>2. jobs'[t].at = "received"
      BY <1>1, <2>1 DEF Idle
    <2> QED
      BY <2>2 DEF Sizing
  <1>b. CASE CallOpen(t)
    <2>1. PICK path \in {"tree", Unreadable}, opened \in BOOLEAN :
              Received(t, "open", None, "", callbook_open(path, opened))
      BY <1>b DEF CallOpen
    <2> QED
      BY <1>a, <2>1
  <1>2. CASE CallMethod(t)
    <2>1. PICK b \in Books, method \in program \cap (DOMAIN Wrapping \cup DOMAIN Passing) :
              \E x \in Arguments(method) : \E answer \in Answers(method, objects[b].pointer, x) :
                  Received(t, method, <<b>>, x, answer)
      BY <1>2 DEF CallMethod
    <2>2. PICK x \in Arguments(method) : \E answer \in Answers(method, objects[b].pointer, x) :
              Received(t, method, <<b>>, x, answer)
      BY <2>1
    <2> QED
      BY <1>a, <2>2
  <1>3. CASE Read(t)
    <2>1. PICK o \in Object :
             jobs' = [jobs EXCEPT ![t] =
                [Idle EXCEPT !.at = "answered", !.does = "read", !.on = <<o>>,
                             !.of = objects[o].of, !.code = IF objects[o].pointer = NULL
                                                                THEN USAGE ELSE OK,
                             !.value = Some(Shown(objects[o].kind, objects[o].pointer))]]
      BY <1>3 DEF Read
    <2> DEFINE code == IF objects[o].pointer = NULL THEN USAGE ELSE OK
               value == Some(Shown(objects[o].kind, objects[o].pointer))
    <2>2. jobs' = [jobs EXCEPT ![t] =
                [Idle EXCEPT !.at = "answered", !.does = "read", !.on = <<o>>,
                             !.of = objects[o].of, !.code = code, !.value = value]]
      BY <2>1
    <2> HIDE DEF code, value
    <2>3. jobs'[t].error = OK /\ jobs'[t].at = "answered"
      BY <1>1, <2>2 DEF Idle
    <2> QED
      BY <2>3 DEF Sizing, OK, BUFFER_TOO_SMALL
  <1>4. CASE Return(t) \/ CloseEnd(t)
    <2>1. jobs' = [jobs EXCEPT ![t] = Idle]
      BY <1>4 DEF Return, CloseEnd
    <2>2. jobs'[t].at = "idle"
      BY <1>1, <2>1 DEF Idle
    <2> QED
      BY <2>2 DEF Sizing
  <1>5. CASE CloseBegin(t)
    <2>1. PICK o : jobs' = [jobs EXCEPT ![t] = [Idle EXCEPT !.at = "closing", !.on = <<o>>]]
      BY <1>5 DEF CloseBegin
    <2>2. jobs'[t].at = "closing"
      BY <1>1, <2>1 DEF Idle
    <2> QED
      BY <2>2 DEF Sizing
  <1>6. ASSUME NEW error, NEW value, Answer(t, error, value), error # BUFFER_TOO_SMALL
        PROVE  ~Sizing(jobs'[t])
    BY <1>1, <1>6, AnswerJob DEF Sizing
  <1>7. CASE Wrap(t) \/ FreeTemporary(t)
    <2>1. PICK error, value : Answer(t, error, value) /\ (error = OK \/ (Wrap(t) /\ error = jobs[t].code))
      BY <1>7 DEF Wrap, FreeTemporary
    <2>2. error # BUFFER_TOO_SMALL
      BY <1>1, <2>1 DEF Wrap, JobShape, OK, BUFFER_TOO_SMALL
    <2> QED
      BY <1>6, <2>1, <2>2
  <1>8. CASE Copy(t)
    <2>1. jobs[t].code # BUFFER_TOO_SMALL
      BY <1>1, <1>8 DEF Copy, JobShape
    <2>2. ASSUME NEW value, jobs' = [jobs EXCEPT ![t].at = "copied", ![t].value = value]
          PROVE  ~Sizing(jobs'[t])
      <3>1. jobs'[t].at = "copied"
        BY <1>1, <2>2 DEF JobShape, Idle
      <3> QED
        BY <3>1 DEF Sizing
    <2>3. \/ \E error, value : Answer(t, error, value) /\ (error = OK \/ error = jobs[t].code)
          \/ \E value : jobs' = [jobs EXCEPT ![t].at = "copied", ![t].value = value]
      BY <1>8 DEF Copy
    <2>4. OK # BUFFER_TOO_SMALL
      BY DEF OK, BUFFER_TOO_SMALL
    <2> QED
      BY <1>6, <2>1, <2>2, <2>3, <2>4
  <1> QED
    BY <1>b, <1>2, <1>3, <1>4, <1>5, <1>7, <1>8

\* The first call asks for the length of the text that is needed.
LEMMA AskFits ==
    ASSUME Ownership, NEW t \in Thread, NEW b, NEW method \in SizedMethods, NEW x \in Argument,
           Ask(t, b, method, x)
    PROVE  BufferFits(jobs[t])'
  <1>1. PICK rendering \in Renderings(method, objects[b].pointer, x) :
            jobs' = [jobs EXCEPT ![t] =
                  [Idle EXCEPT !.at = IF RequiredLen(method, rendering) < 0 THEN "answered" ELSE "sized",
                               !.does = method, !.on = <<b>>, !.of = x,
                               !.required = RequiredLen(method, rendering),
                               !.error = IF RequiredLen(method, rendering) < 0
                                            /\ RequiredLen(method, rendering) # NOT_FOUND
                                             THEN RequiredLen(method, rendering) ELSE OK]]
    BY DEF Ask
  <1> DEFINE required == RequiredLen(method, rendering)
             at == IF required < 0 THEN "answered" ELSE "sized"
             error == IF required < 0 /\ required # NOT_FOUND THEN required ELSE OK
             job == jobs'[t]
  <1>2. jobs' = [jobs EXCEPT ![t] = [Idle EXCEPT !.at = at, !.does = method, !.on = <<b>>, !.of = x,
                                                 !.required = required, !.error = error]]
    BY <1>1
  <1>3. worldFile' = worldFile
    BY DEF Ask
  <1> HIDE DEF required, at, error
  <1>4. /\ job.at = at /\ job.does = method /\ job.of = x
        /\ job.required = required /\ job.error = error
    BY <1>2 DEF Idle, Ownership, JobsShape
  <1> HIDE DEF job
  <1>5. /\ rendering.code \in {OK, USAGE, NOT_FOUND}
        /\ rendering.code = OK => Needs(job, Bytes(rendering.text))
    BY <1>4, RenderingNeeds
  <1>6. \/ required \in {USAGE, NOT_FOUND}
        \/ rendering.code = OK /\ required = Bytes(rendering.text) + 1
    BY <1>5 DEF required, RequiredLen, callbook_map_svg_required_len,
                callbook_lookup_json_required_len
  <1>7. Bytes(rendering.text) \in Nat
    BY BytesAreNat
  <1>8. CASE required \in {USAGE, NOT_FOUND}
    <2>1. job.at = "answered" /\ job.error # BUFFER_TOO_SMALL
      BY <1>4, <1>8 DEF at, error, USAGE, NOT_FOUND, OK, BUFFER_TOO_SMALL
    <2> QED
      BY <2>1 DEF BufferFits, Sizing, job
  <1>9. CASE rendering.code = OK /\ required = Bytes(rendering.text) + 1
    <2>1. job.at = "sized"
      BY <1>4, <1>7, <1>9 DEF at
    <2>2. Needs(job, Bytes(rendering.text)) /\ Bytes(rendering.text) \in Nat
          /\ job.required = Bytes(rendering.text) + 1 /\ job.of \in Argument
      BY <1>4, <1>5, <1>7, <1>9
    <2> DEFINE need == Bytes(rendering.text)
    <2> HIDE DEF need
    <2>3. Needs(jobs[t], need)'
      BY <1>3, <2>2 DEF Needs, job, need
    <2>4. jobs'[t].at = "sized" /\ jobs'[t].of \in Argument
          /\ need \in Nat /\ jobs'[t].required = need + 1
      BY <2>1, <2>2 DEF job, need
    <2>5. \E n \in Nat : Needs(jobs[t], n)' /\ jobs'[t].required = n + 1
      BY <2>3, <2>4
    <2> QED
      BY <2>4, <2>5 DEF BufferFits
  <1> QED
    BY <1>6, <1>8, <1>9

\* The second call finds its buffer too small only if wc.dat changed since the first.
LEMMA FillFits ==
    ASSUME Ownership, BuffersFit, NEW t \in Thread, Fill(t)
    PROVE  BufferFits(jobs[t])'
  <1> DEFINE job == jobs[t]
  <1>1. /\ JobsShape /\ JobShape(job) /\ job.at = "sized" /\ BufferFits(job)
    BY DEF Fill, Ownership, JobsShape, BuffersFit
  <1>2. job.does \in SizedMethods /\ job.of \in Argument
    BY <1>1 DEF JobShape, Sizing, BufferFits
  <1>3. PICK rendering \in Renderings(job.does, objects[job.on[1]].pointer, job.of) :
          LET written == FilledLen(job.does, rendering, job.required) IN
          IF written < 0 THEN Answer(t, written, None) ELSE Answer(t, OK, Some(rendering.text))
    BY DEF Fill
  <1> DEFINE written == FilledLen(job.does, rendering, job.required)
             need == Bytes(rendering.text)
  <1>4. PICK error, value : Answer(t, error, value) /\ (error = OK \/ error = written)
    BY <1>3
  <1>5. /\ jobs'[t].at = "answered" /\ jobs'[t].error = error
        /\ jobs'[t].of = job.of /\ jobs'[t].changed = job.changed
    BY <1>1, <1>4, AnswerJob
  <1>6. ASSUME error = BUFFER_TOO_SMALL
        PROVE  job.changed
    <2>1. written = BUFFER_TOO_SMALL
      BY <1>4, <1>6 DEF OK, BUFFER_TOO_SMALL
    <2>2. /\ rendering.code \in {OK, USAGE, NOT_FOUND}
          /\ rendering.code = OK => Needs(job, need)
      BY <1>2, RenderingNeeds
    <2>3. need \in Nat
      BY BytesAreNat
    <2> HIDE DEF need
    <2>4. rendering.code = OK /\ need + 1 > job.required
      BY <2>1, <2>2, <2>3 DEF FilledLen, callbook_map_svg, callbook_lookup_json, write_buf,
                              OK, USAGE, NOT_FOUND, BUFFER_TOO_SMALL, need
    <2>5. ASSUME ~job.changed
          PROVE  FALSE
      <3>1. PICK n \in Nat : Needs(job, n) /\ job.required = n + 1
        BY <1>1, <2>5 DEF BufferFits
      <3>2. n = need
        BY <1>2, <2>2, <2>4, <3>1, NeedsOnce
      <3> QED
        BY <2>3, <2>4, <3>1, <3>2
    <2> QED
      BY <2>5
  <1> QED
    BY <1>2, <1>5, <1>6 DEF BufferFits, Sizing

\* No step leaves a buffer that is too small for no reason.
LEMMA NextFits ==
    ASSUME Ownership, BuffersFit, [Next]_vars
    PROVE  BuffersFit'
  <1>1. JobsShape
    BY DEF Ownership
  <1>2. ASSUME NEW t \in Thread,
               \/ CallOpen(t) \/ CallMethod(t) \/ Read(t) \/ Return(t)
               \/ CloseBegin(t) \/ AskLength(t) \/ Progress(t)
        PROVE  BuffersFit'
    <2>1. worldFile' = worldFile /\ \A s \in Thread : s # t => jobs'[s] = jobs[s]
      BY <1>1, <1>2, OneMethod
    <2>2. BufferFits(jobs[t])'
      <3>1. CASE AskLength(t)
        BY <3>1, AskFits DEF AskLength
      <3>3. CASE Fill(t)
        BY <3>3, FillFits
      <3>4. CASE \/ CallOpen(t) \/ CallMethod(t) \/ Read(t) \/ Return(t) \/ CloseBegin(t)
                 \/ Wrap(t) \/ Copy(t) \/ FreeTemporary(t) \/ CloseEnd(t)
        <4>1. ~Sizing(jobs'[t])
          BY <3>4, OtherStepsDoNotSize
        <4> QED
          BY <4>1 DEF BufferFits, Sizing
      <3> QED
        BY <1>2, <3>1, <3>3, <3>4 DEF Progress
    <2>3. ASSUME NEW s \in Thread
          PROVE  BufferFits(jobs[s])'
      BY <2>1, <2>2, SameBuffer
    <2> QED
      BY <2>3 DEF BuffersFit
  <1>3. CASE \/ \E o \in Object : Collect(o)
             \/ \E g \in Generator : \/ Generate(g) \/ FirstNext(g) \/ LaterNext(g) \/ Fetch(g)
                                     \/ Yield(g) \/ Exit(g)
             \/ UNCHANGED vars
    <2>1. jobs' = jobs /\ worldFile' = worldFile
      BY <1>1, <1>3, NoMethod
    <2>2. ASSUME NEW s \in Thread
          PROVE  BufferFits(jobs[s])'
      BY <2>1, SameBuffer
    <2> QED
      BY <2>2 DEF BuffersFit
  <1>4. CASE ChangeWorldFile
    <2> DEFINE yes == TRUE
    <2>1. jobs' = [t \in Thread |-> IF jobs[t].at = "sized"
                                        THEN [jobs[t] EXCEPT !.changed = yes] ELSE jobs[t]]
      BY <1>4 DEF ChangeWorldFile
    <2>2. ASSUME NEW s \in Thread
          PROVE  BufferFits(jobs[s])'
      <3>1. CASE jobs[s].at = "sized"
        <4>1. jobs'[s] = [jobs[s] EXCEPT !.changed = yes]
          BY <2>1, <3>1
        <4> HIDE DEF yes
        <4>2. jobs'[s].at = "sized" /\ jobs'[s].of = jobs[s].of /\ jobs'[s].changed = yes
          BY <3>1, <4>1, <1>1 DEF JobsShape, JobShape, Idle
        <4>3. jobs[s].of \in Argument
          BY <3>1 DEF BuffersFit, BufferFits, Sizing
        <4> QED
          BY <4>2, <4>3 DEF BufferFits, Sizing, yes
      <3>2. CASE jobs[s].at # "sized"
        <4>1. jobs'[s] = jobs[s]
          BY <2>1, <3>2
        <4> QED
          BY <3>2, <4>1 DEF BuffersFit, BufferFits, Sizing
      <3> QED
        BY <3>1, <3>2
    <2> QED
      BY <2>2 DEF BuffersFit
  <1> QED
    BY <1>2, <1>3, <1>4 DEF Next

\* A call that asked for the length of its text is told that the buffer is too small only
\* if wc.dat came, went or broke between its two calls, whatever other threads render,
\* load or close in between (ffi.rs map_svg, lookup_json and their _required_len).
THEOREM TooSmallMeansChangedHolds == Spec => []TooSmallMeansChanged
  <1>1. Init => BuffersFit
    <2>1. ASSUME Init, NEW t \in Thread
          PROVE  jobs[t].at = "idle"
      BY <2>1 DEF Init, Idle
    <2> QED
      BY <2>1, NoBuffer DEF BuffersFit, BufferFits, Sizing
  <1>2. Ownership /\ BuffersFit /\ [Next]_vars => BuffersFit'
    BY NextFits
  <1>3. BuffersFit => TooSmallMeansChanged
    BY DEF BuffersFit, BufferFits, TooSmallMeansChanged
  <1> QED
    BY <1>1, <1>2, <1>3, OwnershipHolds, PTL DEF Spec
-----------------------------------------------------------------------------
(* What pointers show *)

\* The address of an object, and the way to an item of one of its arrays.
Path(p) == \/ \E a : p = <<a>>
           \/ \E a, member, i : p = <<a, member, i>>

\* Such a way is longer by two.
LEMMA Longer ==
    /\ \A a, m, i : <<a>> \o <<m, i>> = <<a, m, i>>
    /\ \A a, m, i, n, j : <<a, m, i>> \o <<n, j>> = <<a, m, i, n, j>>
  <1>1. ASSUME NEW a, NEW m, NEW i
        PROVE  <<a>> \o <<m, i>> = <<a, m, i>>
    <2> DEFINE S == {a, m, i}  s == <<a>>  t == <<m, i>>  u == <<a, m, i>>
    <2>1. s \in Seq(S) /\ t \in Seq(S) /\ u \in Seq(S)
      OBVIOUS
    <2>2. Len(s) = 1 /\ Len(t) = 2 /\ Len(u) = 3 /\ s[1] = a /\ t[1] = m /\ t[2] = i
          /\ u[1] = a /\ u[2] = m /\ u[3] = i
      OBVIOUS
    <2> HIDE DEF S, s, t, u
    <2> DEFINE st == s \o t
    <2>3. /\ st \in Seq(S) /\ Len(st) = Len(s) + Len(t)
          /\ \A k \in 1..Len(s) + Len(t) :
                 st[k] = IF k <= Len(s) THEN s[k] ELSE t[k - Len(s)]
      BY <2>1, ConcatProperties
    <2> HIDE DEF st
    <2>4. Len(st) = Len(u) /\ \A k \in 1..Len(st) : st[k] = u[k]
      BY <2>2, <2>3
    <2>5. st = u
      BY <2>1, <2>3, <2>4, SeqEqual
    <2> QED
      BY <2>5 DEF st, s, t, u
  <1>2. ASSUME NEW a, NEW m, NEW i, NEW n, NEW j
        PROVE  <<a, m, i>> \o <<n, j>> = <<a, m, i, n, j>>
    <2> DEFINE S == {a, m, i, n, j}  s == <<a, m, i>>  t == <<n, j>>  u == <<a, m, i, n, j>>
    <2>1. s \in Seq(S) /\ t \in Seq(S) /\ u \in Seq(S)
      OBVIOUS
    <2>2. Len(s) = 3 /\ Len(t) = 2 /\ Len(u) = 5 /\ s[1] = a /\ s[2] = m /\ s[3] = i
          /\ t[1] = n /\ t[2] = j
          /\ u[1] = a /\ u[2] = m /\ u[3] = i /\ u[4] = n /\ u[5] = j
      OBVIOUS
    <2> HIDE DEF S, s, t, u
    <2> DEFINE st == s \o t
    <2>3. /\ st \in Seq(S) /\ Len(st) = Len(s) + Len(t)
          /\ \A k \in 1..Len(s) + Len(t) :
                 st[k] = IF k <= Len(s) THEN s[k] ELSE t[k - Len(s)]
      BY <2>1, ConcatProperties
    <2> HIDE DEF st
    <2>4. Len(st) = Len(u) /\ \A k \in 1..Len(st) : st[k] = u[k]
      BY <2>2, <2>3
    <2>5. st = u
      BY <2>1, <2>3, <2>4, SeqEqual
    <2> QED
      BY <2>5 DEF st, s, t, u
  <1> QED
    BY <1>1, <1>2

\* An item is one step further on the way.
LEMMA Paths ==
    ASSUME NEW p, Path(p), NEW member, NEW i
    PROVE  /\ p # NULL /\ p \o <<member, i>> # NULL
           /\ At(p \o <<member, i>>) = At(p)[member][i]
  <1>1. ASSUME NEW a, p = <<a>>
        PROVE  p # NULL /\ p \o <<member, i>> # NULL
               /\ At(p \o <<member, i>>) = At(p)[member][i]
    <2>1. p \o <<member, i>> = <<a, member, i>>
      BY <1>1, Longer
    <2>2. Len(p) = 1 /\ Len(<<a, member, i>>) = 3 /\ Len(NULL) = 0
      BY <1>1 DEF NULL
    <2>3. At(p) = heap[a].body
      BY <1>1, <2>2 DEF At
    <2>4. At(<<a, member, i>>) = heap[a].body[member][i]
      BY <2>2 DEF At
    <2>5. p # NULL /\ <<a, member, i>> # NULL
      BY <1>1, <2>2
    <2>6. At(p)[member][i] = heap[a].body[member][i]
      BY <2>3
    <2> QED
      BY <2>1, <2>4, <2>5, <2>6
  <1>2. ASSUME NEW a, NEW m, NEW j, p = <<a, m, j>>
        PROVE  p # NULL /\ p \o <<member, i>> # NULL
               /\ At(p \o <<member, i>>) = At(p)[member][i]
    <2>1. p \o <<member, i>> = <<a, m, j, member, i>>
      BY <1>2, Longer
    <2>2. Len(p) = 3 /\ Len(<<a, m, j, member, i>>) = 5 /\ Len(NULL) = 0
      BY <1>2 DEF NULL
    <2>3. At(p) = heap[a].body[m][j]
      BY <1>2, <2>2 DEF At
    <2>4. At(<<a, m, j, member, i>>) = heap[a].body[m][j][member][i]
      BY <2>2 DEF At
    <2>5. p # NULL /\ <<a, m, j, member, i>> # NULL
      BY <1>2, <2>2
    <2>6. At(p)[member][i] = heap[a].body[m][j][member][i]
      BY <2>3
    <2> QED
      BY <2>1, <2>4, <2>5, <2>6
  <1> QED
    BY <1>1, <1>2 DEF Path

\* A whole object.
LEMMA Wholes ==
    ASSUME NEW a
    PROVE  Path(<<a>>) /\ At(<<a>>) = heap[a].body
  <1>1. Len(<<a>>) = 1
    OBVIOUS
  <1> QED
    BY <1>1 DEF Path, At

\* An item of an array of it.
LEMMA Parts ==
    ASSUME NEW a, NEW member, NEW i
    PROVE  Path(<<a>> \o <<member, i>>)
  BY Longer DEF Path

\* The string or number of a slot.
LEMMA Slots ==
    ASSUME NEW p, Path(p), NEW member, NEW default, NEW i \in Nat, 1 <= i,
           Len(At(p)[member]) \in Nat, i <= Len(At(p)[member])
    PROVE  Element(p, member, i - 1, default) = At(p)[member][i]
  <1>1. p # NULL /\ p \o <<member, i>> # NULL
    BY Paths
  <1>2. i - 1 >= 0 /\ i - 1 < Len(At(p)[member]) /\ (i - 1) + 1 = i
    OBVIOUS
  <1> QED
    BY <1>1, <1>2 DEF Get, Element

\* The item of a slot.
LEMMA ItemsAt ==
    ASSUME NEW p, Path(p), NEW member, NEW i \in Nat, 1 <= i,
           Len(At(p)[member]) \in Nat, i <= Len(At(p)[member])
    PROVE  /\ Get(p, member, i - 1) = p \o <<member, i>>
           /\ Get(p, member, i - 1) # NULL
           /\ At(Get(p, member, i - 1)) = At(p)[member][i]
  <1>1. /\ p # NULL /\ p \o <<member, i>> # NULL
        /\ At(p \o <<member, i>>) = At(p)[member][i]
    BY Paths
  <1>2. i - 1 >= 0 /\ i - 1 < Len(At(p)[member]) /\ (i - 1) + 1 = i
    OBVIOUS
  <1>3. Get(p, member, i - 1) = p \o <<member, i>>
    BY <1>1, <1>2 DEF Get
  <1> QED
    BY <1>1, <1>3

\* The only item of an option, if it is there.
LEMMA Firsts ==
    ASSUME NEW p, Path(p), NEW member
    PROVE  /\ Len(At(p)[member]) = 0 => First(p, member) = NULL
           /\ Len(At(p)[member]) = 1 =>
                 /\ First(p, member) = p \o <<member, 1>>
                 /\ First(p, member) # NULL
                 /\ At(First(p, member)) = At(p)[member][1]
  <1>1. /\ p # NULL /\ p \o <<member, 1>> # NULL
        /\ At(p \o <<member, 1>>) = At(p)[member][1]
    BY Paths
  <1>2. Len(At(p)[member]) = 0 => First(p, member) = NULL
    BY DEF First, Get
  <1>3. Len(At(p)[member]) = 1 => First(p, member) = p \o <<member, 1>>
    BY <1>1 DEF First, Get
  <1> QED
    BY <1>1, <1>2, <1>3

\* A set of numbers that is not empty has a least one.
LEMMA LeastNumber ==
    ASSUME NEW S \in SUBSET Nat, S # {}
    PROVE  \E n \in S : \A m \in S : n <= m
  <1>1. PICK n \in S : \A m \in S : ~(<<m, n>> \in OpToRel(<, Nat))
    BY NatLessThanWellFounded, WFMin, Zenon
  <1>2. \A m \in S : ~(m < n)
    BY <1>1 DEF OpToRel
  <1> QED
    BY <1>2

\* A sequence and one more item.
LEMMA OneMore ==
    ASSUME NEW n \in Nat, NEW v, NEW i \in 1..n
    PROVE  [k \in 1..(i - 1) |-> v[k]] \o <<v[i]>> = [k \in 1..i |-> v[k]]
  <1> DEFINE S == {v[k] : k \in 1..n}
             s == [k \in 1..(i - 1) |-> v[k]]
             t == <<v[i]>>
             u == [k \in 1..i |-> v[k]]
  <1>1. /\ s \in Seq(S) /\ Len(s) = i - 1 /\ \A k \in 1..(i - 1) : s[k] = v[k]
    OBVIOUS
  <1>2. /\ u \in Seq(S) /\ Len(u) = i /\ \A k \in 1..i : u[k] = v[k]
    OBVIOUS
  <1>3. /\ t \in Seq(S) /\ Len(t) = 1 /\ t[1] = v[i]
    OBVIOUS
  <1>a. s \in Seq(S) /\ t \in Seq(S)
    BY <1>1, <1>3
  <1> HIDE DEF S, s, t, u
  <1> DEFINE st == s \o t
  <1>4. /\ st \in Seq(S) /\ Len(st) = Len(s) + Len(t)
        /\ \A k \in 1..Len(s) + Len(t) :
               st[k] = IF k <= Len(s) THEN s[k] ELSE t[k - Len(s)]
    BY <1>a, ConcatProperties
  <1> HIDE DEF st
  <1>b. Len(st) = i /\ Len(u) = i
    BY <1>1, <1>2, <1>3, <1>4
  <1>5. ASSUME NEW k \in 1..Len(st)
        PROVE  st[k] = u[k]
    <2>1. k \in 1..i
      BY <1>b
    <2>2. CASE k <= i - 1
      BY <1>1, <1>2, <1>3, <1>4, <2>1, <2>2
    <2>3. CASE k = i
      BY <1>1, <1>2, <1>3, <1>4, <2>1, <2>3
    <2> QED
      BY <2>1, <2>2, <2>3
  <1>6. st = u
    BY <1>b,  <1>2, <1>4, <1>5, SeqEqual
  <1> QED
    BY <1>6 DEF st, s, t, u

\* Items that are all there are appended one by one.
LEMMA Appended ==
    ASSUME NEW n \in Nat, NEW v
    PROVE  Ext!FlattenSeq([i \in 1..n |-> <<v[i]>>]) = [i \in 1..n |-> v[i]]
  <1> DEFINE seqs == [i \in 1..n |-> <<v[i]>>]
             prefix(i) == [k \in 1..i |-> v[k]]
             Next1(f) == [i \in 1..Len(seqs) |-> IF i = 1 THEN seqs[i] ELSE f[i - 1] \o seqs[i]]
             flatten == CHOOSE f : f = Next1(f)
  <1>1. Len(seqs) = n /\ \A i \in 1..n : seqs[i] = <<v[i]>>
    OBVIOUS
  <1>2. CASE n = 0
    <2>1. Ext!FlattenSeq(seqs) = seqs
      BY <1>1, <1>2 DEF Ext!FlattenSeq
    <2> QED
      BY <1>2, <2>1
  <1>3. CASE n > 0
    <2>1. Ext!FlattenSeq(seqs) = flatten[Len(seqs)]
      BY <1>1, <1>3 DEF Ext!FlattenSeq
    <2>2. \A i \in 1..n : i > 1 => prefix(i - 1) \o <<v[i]>> = prefix(i)
      BY OneMore
    <2>3. prefix(1) = <<v[1]>>
      OBVIOUS
    <2> HIDE DEF prefix, seqs
    <2> DEFINE g == [i \in 1..n |-> prefix(i)]
    <2>4. g = Next1(g)
      <3>1. ASSUME NEW i \in 1..n
            PROVE  prefix(i) = IF i = 1 THEN seqs[i] ELSE g[i - 1] \o seqs[i]
        <4>1. CASE i = 1
          BY <1>1, <2>3, <4>1
        <4>2. CASE i # 1
          <5>1. i > 1 /\ i - 1 \in 1..n
            BY <4>2
          <5> QED
            BY <1>1, <2>2, <4>2, <5>1
        <4> QED
          BY <4>1, <4>2
      <3> QED
        BY <1>1, <3>1
    <2>5. flatten = Next1(flatten)
      BY <2>4, Zenon
    <2> HIDE DEF flatten, g
    <2>6. \A i \in 1..n : flatten[i] = IF i = 1 THEN seqs[i] ELSE flatten[i - 1] \o seqs[i]
      BY <1>1, <2>5
    <2> DEFINE bad == {i \in 1..n : flatten[i] # prefix(i)}
    <2>7. bad = {}
      <3>1. ASSUME bad # {}
            PROVE  FALSE
        <4>1. PICK m \in bad : \A i \in bad : m <= i
          <5>1. bad \in SUBSET Nat
            OBVIOUS
          <5> HIDE DEF bad
          <5> QED
            BY <3>1, <5>1, LeastNumber
        <4>2. CASE m = 1
          BY <1>1, <2>3, <2>6, <4>1, <4>2
        <4>3. CASE m # 1
          <5>1. m \in 1..n /\ m > 1 /\ m - 1 \in 1..n /\ ~(m <= m - 1)
            BY <4>1, <4>3
          <5>2. flatten[m - 1] = prefix(m - 1)
            BY <4>1, <5>1
          <5>3. flatten[m] = prefix(m)
            BY <1>1, <2>2, <2>6, <4>3, <5>1, <5>2
          <5> QED
            BY <4>1, <5>3
        <4> QED
          BY <4>2, <4>3
      <3> QED
        BY <3>1
    <2>8. flatten[n] = prefix(n)
      BY <1>3, <2>7
    <2> QED
      BY <1>1, <2>1, <2>8 DEF prefix, seqs
  <1> QED
    BY <1>2, <1>3

-----------------------------------------------------------------------------
(* The copies that the package makes *)

\* The number that a name has in the package is the slot of the library's member.
LEMMA FieldNumbers ==
    /\ \A n \in DOMAIN FIELD_NAMES :
          \E i \in 1..35 : FIELD_NAMES[n] = i - 1 /\ set_field[modern_field[i]] = LibraryName(n)
    /\ \A n \in DOMAIN US_FIELD_NAMES :
          \E i \in 1..10 : US_FIELD_NAMES[n] = i - 1 /\ us_member[us_field[i]] = UsName(n)
    /\ Len(modern_field) = 35 /\ Len(us_field) = 10
  <1>1. ASSUME NEW n \in DOMAIN FIELD_NAMES
        PROVE  /\ FIELD_NAMES[n] + 1 \in 1..35 /\ FIELD_NAMES[n] = (FIELD_NAMES[n] + 1) - 1
               /\ set_field[modern_field[FIELD_NAMES[n] + 1]] = LibraryName(n)
    BY DEF FIELD_NAMES, modern_field, set_field, LibraryName
  <1>2. ASSUME NEW n \in DOMAIN US_FIELD_NAMES
        PROVE  /\ US_FIELD_NAMES[n] + 1 \in 1..10 /\ US_FIELD_NAMES[n] = (US_FIELD_NAMES[n] + 1) - 1
               /\ us_member[us_field[US_FIELD_NAMES[n] + 1]] = UsName(n)
    BY DEF US_FIELD_NAMES, us_field, us_member, UsName
  <1>3. Len(modern_field) = 35 /\ Len(us_field) = 10
    BY DEF modern_field, us_field
  <1> QED
    BY <1>1, <1>2, <1>3

\* The names of the package for the library's enumerations.
LEMMA EnumerationNames ==
    /\ \A j \in DOMAIN Jurisdiction : Named(JURISDICTION, Jurisdiction[j], "unknown") = Snake[j]
    /\ \A s \in DOMAIN Status : Named(LOOKUP_STATUS, Status[s], "not_found") = Snake[s]
    /\ \A k \in DOMAIN AssetKind : Named(ASSET_KIND, AssetKind[k], "sidecar_data") = Snake[k]
  <1>1. \A j \in DOMAIN Jurisdiction : Named(JURISDICTION, Jurisdiction[j], "unknown") = Snake[j]
    BY DEF Jurisdiction, Named, JURISDICTION, Snake
  <1>2. \A s \in DOMAIN Status : Named(LOOKUP_STATUS, Status[s], "not_found") = Snake[s]
    BY DEF Status, Named, LOOKUP_STATUS, Snake
  <1>3. \A k \in DOMAIN AssetKind : Named(ASSET_KIND, AssetKind[k], "sidecar_data") = Snake[k]
    BY DEF AssetKind, Named, ASSET_KIND, Snake
  <1> QED
    BY <1>1, <1>2, <1>3

\* An option that has a default on the way is the same at its end.
LEMMA OptionsCopied ==
    /\ \A x : IsNumber(x) => _optional_int(OrElse(x, -1)) = x
    /\ \A x : IsText(x) => _optional_text(OrElse(x, Empty)) = x
  <1>1. ASSUME NEW x, x = Some(x[1])
        PROVE  x # None
    BY <1>1, AddressIsNotNull DEF Some, None, NULL
  <1>2. ASSUME NEW x, IsNumber(x)
        PROVE  _optional_int(OrElse(x, -1)) = x
    <2>1. CASE x = None
      BY <2>1 DEF OrElse, _optional_int
    <2>2. CASE x # None
      BY <1>2, <2>2 DEF IsNumber, IsOption, OrElse, _optional_int
    <2> QED
      BY <2>1, <2>2
  <1>3. ASSUME NEW x, IsText(x)
        PROVE  _optional_text(OrElse(x, Empty)) = x
    <2>1. CASE x = None
      BY <2>1 DEF OrElse, _optional_text
    <2>2. CASE x # None
      <3>1. x = Some(x[1]) /\ x # Some(Empty)
        BY <1>3, <2>2 DEF IsText, IsOption
      <3> QED
        BY <2>2, <3>1 DEF OrElse, _optional_text
    <2> QED
      BY <2>1, <2>2
  <1> QED
    BY <1>2, <1>3

\* A row of the catalog.
LEMMA UsCopied ==
    ASSUME NEW p, Path(p), NEW r, At(p) = callbook_us_record(r)
    PROVE  UsRecord(p) = Some(MeantUs(r))
  <1>1. Len(At(p)["fields"]) = 10 /\ \A i \in 1..10 : At(p)["fields"][i] = r[us_member[us_field[i]]]
    BY FieldNumbers DEF callbook_us_record
  <1>a. \A i \in 1..10 : Element(p, "fields", i - 1, Empty) = At(p)["fields"][i]
    <2>1. Len(At(p)["fields"]) = 10
      BY <1>1
    <2> QED
      BY <2>1, Slots
  <1>2. ASSUME NEW n \in DOMAIN US_FIELD_NAMES
        PROVE  callbook_us_record_field(p, US_FIELD_NAMES[n]) = r[UsName(n)]
    <2>1. PICK i \in 1..10 : US_FIELD_NAMES[n] = i - 1 /\ us_member[us_field[i]] = UsName(n)
      BY FieldNumbers
    <2> QED
      BY <1>1, <1>a, <2>1 DEF callbook_us_record_field
  <1>3. p # NULL
    BY Paths
  <1> QED
    BY <1>2, <1>3 DEF UsRecord, MeantUs

\* A definition of an interest, from the catalog or of a search.
LEMMA DefinitionCopied ==
    ASSUME NEW p, Path(p), NEW d, At(p) = callbook_interest_definition(d)
    PROVE  InterestDefinition(p) = Some(MeantDefinition(d))
  <1>1. p # NULL
    BY Paths
  <1> QED
    BY <1>1 DEF InterestDefinition, MeantDefinition, Member, callbook_interest_definition,
                callbook_interest_definition_code, callbook_interest_definition_category,
                callbook_interest_definition_label

\* An interest of a snapshot.
LEMMA InterestCopied ==
    ASSUME NEW p, p # NULL, NEW d, IsDefinition(d), At(p) = d
    PROVE  ResolvedInterest(p) = Some(d)
  BY DEF ResolvedInterest, IsDefinition, Member, callbook_interest_code,
         callbook_interest_category, callbook_interest_label

\* A country of the tables.
LEMMA CountryCopied ==
    ASSUME NEW p, Path(p), NEW c, IsCountry(c), At(p) = callbook_country_info(c)
    PROVE  CountryInfo(p) = Some(MeantCountry(c))
  <1>1. p # NULL
    BY Paths
  <1>2. /\ At(p).name = c.name /\ At(p).cleaned_name = c.cleaned_name
        /\ At(p).code = OrElse(c.code, Empty)
        /\ At(p).jurisdiction = Jurisdiction[c.jurisdiction]
        /\ At(p).itu_zone = OrElse(c.itu_zone, -1) /\ At(p).cq_zone = OrElse(c.cq_zone, -1)
        /\ At(p).continent = OrElse(c.continent, Empty)
        /\ At(p).latitude = c.latitude /\ At(p).longitude = c.longitude
        /\ At(p).numeric_code = OrElse(c.numeric_code, -1)
        /\ At(p).source = CountrySource[c.source]
    BY DEF callbook_country_info
  <1>3. /\ _optional_text(OrElse(c.code, Empty)) = c.code
        /\ _optional_text(OrElse(c.continent, Empty)) = c.continent
        /\ _optional_int(OrElse(c.itu_zone, -1)) = c.itu_zone
        /\ _optional_int(OrElse(c.cq_zone, -1)) = c.cq_zone
        /\ _optional_int(OrElse(c.numeric_code, -1)) = c.numeric_code
        /\ Named(JURISDICTION, Jurisdiction[c.jurisdiction], "unknown") = Snake[c.jurisdiction]
    BY OptionsCopied, EnumerationNames DEF IsCountry
  <1>4. /\ _optional_float_from(Coordinate(p, "latitude")) = At(p).latitude
        /\ _optional_float_from(Coordinate(p, "longitude")) = At(p).longitude
    BY <1>1 DEF Coordinate, _optional_float_from, OK, NOT_FOUND
  <1> QED
    BY <1>1, <1>2, <1>3, <1>4
       DEF CountryInfo, MeantCountry, Member, callbook_country_name,
           callbook_country_cleaned_name, callbook_country_code, callbook_country_jurisdiction,
           callbook_country_itu_zone, callbook_country_cq_zone, callbook_country_continent,
           callbook_country_latitude, callbook_country_longitude,
           callbook_country_numeric_code, callbook_country_source_value

\* An entry of the counts.
LEMMA CountCopied ==
    ASSUME NEW p, Path(p), NEW c, IsCount(c), At(p) = callbook_lookup_count(c)
    PROVE  LookupCount(p) = Some(MeantCount(c))
  <1>1. p # NULL
    BY Paths
  <1>2. /\ At(p).key = c.key /\ At(p).count = c.count
        /\ At(p).updated_yyyymmdd = OrElse(c.updated_yyyymmdd, -1)
        /\ At(p).status = OrElse(c.status, Empty)
    BY DEF callbook_lookup_count
  <1>3. /\ _optional_int(OrElse(c.updated_yyyymmdd, -1)) = c.updated_yyyymmdd
        /\ _optional_text(OrElse(c.status, Empty)) = c.status
    BY OptionsCopied DEF IsCount
  <1> DEFINE copy == [key |-> c.key, count |-> c.count,
                      updated_yyyymmdd |-> c.updated_yyyymmdd, status |-> c.status]
  <1>4. LookupCount(p) = Some(copy)
    BY <1>1, <1>2, <1>3
       DEF LookupCount, Member, callbook_lookup_count_key, callbook_lookup_count_value,
           callbook_lookup_count_updated_yyyymmdd, callbook_lookup_count_status
  <1>5. copy = c
    BY DEF IsCount
  <1> HIDE DEF copy
  <1> QED
    BY <1>4, <1>5 DEF MeantCount

\* A photo, the biography, the flag or the map of a profile.
LEMMA AssetCopied ==
    ASSUME NEW p, p # NULL, NEW a, IsAsset(a), At(p) = callbook_asset(a)
    PROVE  Asset(p) = Some(MeantAsset(a))
  <1> DEFINE b == [kind |-> a.kind, key |-> a.key, media_type |-> a.media_type, path |-> a.path]
  <1>1. a = b /\ a.kind \in DOMAIN AssetKind
    BY DEF IsAsset
  <1>2. /\ At(p).kind = AssetKind[a.kind] /\ At(p).key = a.key
        /\ At(p).media_type = a.media_type /\ At(p).path = a.path
    BY <1>1 DEF callbook_asset
  <1>3. MeantAsset(a) = [kind |-> Snake[a.kind], key |-> a.key, media_type |-> a.media_type,
                         path |-> a.path]
    BY <1>1 DEF MeantAsset
  <1>4. Named(ASSET_KIND, AssetKind[a.kind], "sidecar_data") = Snake[a.kind]
    BY <1>1, EnumerationNames
  <1> HIDE DEF b
  <1> QED
    BY <1>2, <1>3, <1>4
       DEF Asset, Member, callbook_asset_kind_value, callbook_asset_key,
           callbook_asset_media_type, callbook_asset_path

\* A record that an interest search found.
LEMMA MatchCopied ==
    ASSUME NEW p, p # NULL, NEW e, IsMatch(e), At(p) = callbook_interest_search_match(e)
    PROVE  InterestSearchMatch(p) = Some(e)
  <1> DEFINE copy == [callsign |-> e.callsign, vintage |-> e.vintage]
  <1>1. copy = e /\ _optional_int(OrElse(e.vintage, -1)) = e.vintage
    BY OptionsCopied DEF IsMatch
  <1>2. At(p).callsign = e.callsign /\ At(p).vintage = OrElse(e.vintage, -1)
    BY DEF callbook_interest_search_match
  <1>3. InterestSearchMatch(p) = Some(copy)
    BY <1>1, <1>2 DEF InterestSearchMatch, Member, callbook_interest_search_match_callsign,
                      callbook_interest_search_match_vintage
  <1> HIDE DEF copy
  <1> QED
    BY <1>1, <1>3

\* Items that are all there are gathered in their order.
LEMMA Gathered ==
    ASSUME NEW n \in Nat, NEW v, NEW item,
           item = [i \in 1..n |-> item[i]], v = [i \in 1..n |-> v[i]],
           \A i \in 1..n : item[i] = Some(v[i])
    PROVE  Ext!FlattenSeq(item) = v
  <1>1. item = [i \in 1..n |-> <<v[i]>>]
    BY DEF Some
  <1> QED
    BY <1>1, Appended

\* A snapshot of a result or a profile.
LEMMA SnapshotCopied ==
    ASSUME NEW p, Path(p), NEW s, IsSnapshot(s), At(p) = callbook_snapshot(s)
    PROVE  CallSnapshot(p) = Some(MeantSnapshot(s))
  <1> DEFINE fields == [n \in DOMAIN FIELD_NAMES |-> callbook_snapshot_field(p, FIELD_NAMES[n])]
             interests == Items(callbook_snapshot_interest_len(p),
                                LAMBDA i : callbook_snapshot_interest_get(p, i), ResolvedInterest)
  <1>1. p # NULL
    BY Paths
  <1>a. At(p)["fields"] = [i \in 1..35 |-> OrElse(s.texts[set_field[modern_field[i]]], Empty)]
    <2>1. Len(modern_field) = 35
      BY FieldNumbers
    <2>2. At(p)["fields"] = [i \in 1..Len(modern_field) |->
                                OrElse(s.texts[set_field[modern_field[i]]], Empty)]
      BY DEF callbook_snapshot
    <2> QED
      BY <2>1, <2>2
  <1>b. /\ At(p).interests = s.interests /\ At(p).vintage = OrElse(s.vintage, -1)
        /\ At(p).source_flags = source_flags(s.sources)
        /\ At(p).jurisdiction = Jurisdiction[s.jurisdiction]
    BY DEF callbook_snapshot
  <1>2. /\ Len(At(p)["fields"]) = 35
        /\ \A i \in 1..35 : At(p)["fields"][i] = OrElse(s.texts[set_field[modern_field[i]]], Empty)
        /\ At(p).interests = s.interests /\ At(p).vintage = OrElse(s.vintage, -1)
        /\ At(p).source_flags = source_flags(s.sources)
        /\ At(p).jurisdiction = Jurisdiction[s.jurisdiction]
    BY <1>a, <1>b
  <1>3. fields = [n \in DOMAIN FIELD_NAMES |-> OrElse(s.texts[LibraryName(n)], Empty)]
    <2>1. ASSUME NEW n \in DOMAIN FIELD_NAMES
          PROVE  callbook_snapshot_field(p, FIELD_NAMES[n]) = OrElse(s.texts[LibraryName(n)], Empty)
      <3>1. PICK i \in 1..35 : FIELD_NAMES[n] = i - 1 /\ set_field[modern_field[i]] = LibraryName(n)
        BY FieldNumbers
      <3>2. Element(p, "fields", i - 1, Empty) = At(p)["fields"][i]
        <4>1. i \in Nat /\ 1 <= i /\ Len(At(p)["fields"]) \in Nat /\ i <= Len(At(p)["fields"])
          BY <1>2
        <4> QED
          BY <4>1, Slots
      <3> QED
        BY <1>2, <3>1, <3>2 DEF callbook_snapshot_field
    <2> QED
      BY <2>1
  <1>4. interests = s.interests
    <2> DEFINE n == Len(s.interests)
               v == s.interests
               item == [i \in 1..n |-> ResolvedInterest(callbook_snapshot_interest_get(p, i - 1))]
    <2>1. n \in Nat /\ v = [i \in 1..n |-> v[i]] /\ \A i \in 1..n : IsDefinition(v[i])
      BY DEF IsSnapshot, All, IsSequence
    <2>2. Len(At(p)["interests"]) = n /\ \A i \in 1..n : At(p)["interests"][i] = v[i]
      BY <1>2
    <2>3. callbook_snapshot_interest_len(p) = n
      BY <1>1, <2>2 DEF callbook_snapshot_interest_len, Length
    <2>4. interests = Ext!FlattenSeq(item)
      BY <2>3 DEF Items
    <2>5. ASSUME NEW i \in 1..n
          PROVE  item[i] = Some(v[i])
      <3>1. /\ Get(p, "interests", i - 1) # NULL
            /\ At(Get(p, "interests", i - 1)) = v[i]
        <4>1. i \in Nat /\ 1 <= i /\ Len(At(p)["interests"]) \in Nat /\ i <= Len(At(p)["interests"])
          BY <2>1, <2>2
        <4> QED
          BY <2>2, <4>1, ItemsAt
      <3>2. ResolvedInterest(Get(p, "interests", i - 1)) = Some(v[i])
        BY <2>1, <3>1, InterestCopied
      <3> QED
        BY <3>2 DEF callbook_snapshot_interest_get
    <2>6. item = [i \in 1..n |-> item[i]]
      OBVIOUS
    <2> HIDE DEF item, n, v, interests
    <2>7. interests = [i \in 1..n |-> v[i]]
      BY <2>1, <2>4, <2>5, <2>6, Gathered
    <2> QED
      BY <2>1, <2>7 DEF v
  <1>5. /\ _optional_int(OrElse(s.vintage, -1)) = s.vintage
        /\ Named(JURISDICTION, Jurisdiction[s.jurisdiction], "unknown") = Snake[s.jurisdiction]
    BY OptionsCopied, EnumerationNames DEF IsSnapshot
  <1>6. /\ callbook_snapshot_vintage(p) = At(p).vintage
        /\ callbook_snapshot_source_flags(p) = At(p).source_flags
        /\ callbook_snapshot_jurisdiction(p) = At(p).jurisdiction
    BY <1>1 DEF Member, callbook_snapshot_vintage, callbook_snapshot_source_flags,
                callbook_snapshot_jurisdiction
  <1>7. CallSnapshot(p) =
          Some([fields |-> fields, vintage |-> _optional_int(callbook_snapshot_vintage(p)),
                source_flags |-> callbook_snapshot_source_flags(p),
                jurisdiction |-> Named(JURISDICTION, callbook_snapshot_jurisdiction(p), "unknown"),
                interests |-> interests])
    BY <1>1 DEF CallSnapshot
  <1> HIDE DEF fields, interests
  <1> QED
    BY <1>2, <1>3, <1>4, <1>5, <1>6, <1>7 DEF MeantSnapshot

\* The only item of an option, converted to f[1].
LEMMA OptionShown ==
    ASSUME NEW a, NEW member, NEW x, IsOption(x), NEW f,
           At(<<a>>)[member] = [i \in 1..Len(x) |-> f[i]]
    PROVE  \/ x = <<>> /\ First(<<a>>, member) = NULL
           \/ /\ Len(x) = 1 /\ x = Some(x[1])
              /\ Path(First(<<a>>, member)) /\ At(First(<<a>>, member)) = f[1]
  <1> DEFINE p == First(<<a>>, member)
  <1>1. CASE x = None
    <2>1. Len(At(<<a>>)[member]) = 0
      BY <1>1 DEF None
    <2>2. p = NULL
      BY <2>1, Wholes, Firsts
    <2> QED
      BY <1>1, <2>2 DEF None
  <1>2. CASE x # None
    <2>1. x = Some(x[1]) /\ Len(x) = 1
      BY <1>2 DEF IsOption, Some
    <2>2. Len(At(<<a>>)[member]) = 1 /\ At(<<a>>)[member][1] = f[1]
      BY <2>1
    <2>a. Path(<<a>>)
      BY Wholes
    <2>3. p = <<a>> \o <<member, 1>> /\ At(p) = f[1]
      BY <2>2, <2>a, Firsts
    <2>b. Path(<<a>> \o <<member, 1>>)
      BY Parts
    <2>4. Path(p)
      BY <2>3, <2>b
    <2> QED
      BY <2>1, <2>3, <2>4
  <1> QED
    BY <1>1, <1>2

\* An item of an array of an object.
LEMMA ItemShown ==
    ASSUME NEW a, NEW member, NEW i \in Nat, 1 <= i,
           Len(At(<<a>>)[member]) \in Nat, i <= Len(At(<<a>>)[member])
    PROVE  /\ Path(Get(<<a>>, member, i - 1))
           /\ Get(<<a>>, member, i - 1) # NULL
           /\ At(Get(<<a>>, member, i - 1)) = At(<<a>>)[member][i]
  <1> DEFINE p == <<a>>
  <1>1. Path(p) /\ Path(p \o <<member, i>>)
    BY Wholes, Parts
  <1> HIDE DEF p
  <1>2. Len(At(p)[member]) \in Nat /\ i <= Len(At(p)[member])
    BY DEF p
  <1>3. /\ Get(p, member, i - 1) = p \o <<member, i>>
        /\ Get(p, member, i - 1) # NULL
        /\ At(Get(p, member, i - 1)) = At(p)[member][i]
    BY <1>1, <1>2, ItemsAt
  <1> QED
    BY <1>1, <1>3 DEF p

\* The current snapshot, that may be missing.
LEMMA CurrentCopied ==
    ASSUME NEW a, NEW x, IsOption(x), All(IsSnapshot, x),
           At(<<a>>)["current"] = Each(callbook_snapshot, x)
    PROVE  CallSnapshot(First(<<a>>, "current")) = Each(MeantSnapshot, x)
  <1> DEFINE p == First(<<a>>, "current")
             f == [i \in 1..Len(x) |-> callbook_snapshot(x[i])]
  <1>1. At(<<a>>)["current"] = [i \in 1..Len(x) |-> f[i]]
    BY DEF Each
  <1>2. f[1] = callbook_snapshot(x[1]) \/ Len(x) # 1
    OBVIOUS
  <1> HIDE DEF f
  <1>3. \/ x = <<>> /\ p = NULL
        \/ Len(x) = 1 /\ x = Some(x[1]) /\ Path(p) /\ At(p) = f[1]
    BY <1>1, OptionShown
  <1>4. CASE x = <<>> /\ p = NULL
    <2>1. Each(MeantSnapshot, x) = <<>>
      BY <1>4 DEF Each
    <2> QED
      BY <1>4, <2>1 DEF CallSnapshot, None
  <1>5. CASE Len(x) = 1 /\ x = Some(x[1]) /\ Path(p) /\ At(p) = f[1]
    <2>1. IsSnapshot(x[1])
      BY <1>5 DEF All
    <2>2. CallSnapshot(p) = Some(MeantSnapshot(x[1]))
      BY <1>2, <1>5, <2>1, SnapshotCopied
    <2>3. Each(MeantSnapshot, x) = <<MeantSnapshot(x[1])>>
      BY <1>5 DEF Each
    <2> QED
      BY <2>2, <2>3 DEF Some
  <1> QED
    BY <1>3, <1>4, <1>5

\* The country of a profile.
LEMMA ProfileCountryCopied ==
    ASSUME NEW a, NEW x, IsOption(x), All(IsCountry, x),
           At(<<a>>)["country"] = Each(callbook_country_info, x)
    PROVE  CountryInfo(First(<<a>>, "country")) = Each(MeantCountry, x)
  <1> DEFINE p == First(<<a>>, "country")
             f == [i \in 1..Len(x) |-> callbook_country_info(x[i])]
  <1>1. At(<<a>>)["country"] = [i \in 1..Len(x) |-> f[i]]
    BY DEF Each
  <1>2. f[1] = callbook_country_info(x[1]) \/ Len(x) # 1
    OBVIOUS
  <1> HIDE DEF f
  <1>3. \/ x = <<>> /\ p = NULL
        \/ Len(x) = 1 /\ x = Some(x[1]) /\ Path(p) /\ At(p) = f[1]
    BY <1>1, OptionShown
  <1>4. CASE x = <<>> /\ p = NULL
    <2>1. Each(MeantCountry, x) = <<>>
      BY <1>4 DEF Each
    <2> QED
      BY <1>4, <2>1 DEF CountryInfo, None
  <1>5. CASE Len(x) = 1 /\ x = Some(x[1]) /\ Path(p) /\ At(p) = f[1]
    <2>2. CountryInfo(p) = Some(MeantCountry(x[1]))
      BY <1>2, <1>5, CountryCopied DEF All
    <2>3. Each(MeantCountry, x) = <<MeantCountry(x[1])>>
      BY <1>5 DEF Each
    <2> QED
      BY <2>2, <2>3 DEF Some
  <1> QED
    BY <1>3, <1>4, <1>5

\* The count of a profile.
LEMMA ProfileCountCopied ==
    ASSUME NEW a, NEW x, IsOption(x), All(IsCount, x),
           At(<<a>>)["lookup_count"] = Each(callbook_lookup_count, x)
    PROVE  LookupCount(First(<<a>>, "lookup_count")) = Each(MeantCount, x)
  <1> DEFINE p == First(<<a>>, "lookup_count")
             f == [i \in 1..Len(x) |-> callbook_lookup_count(x[i])]
  <1>1. At(<<a>>)["lookup_count"] = [i \in 1..Len(x) |-> f[i]]
    BY DEF Each
  <1>2. f[1] = callbook_lookup_count(x[1]) \/ Len(x) # 1
    OBVIOUS
  <1> HIDE DEF f
  <1>3. \/ x = <<>> /\ p = NULL
        \/ Len(x) = 1 /\ x = Some(x[1]) /\ Path(p) /\ At(p) = f[1]
    BY <1>1, OptionShown
  <1>4. CASE x = <<>> /\ p = NULL
    <2>1. Each(MeantCount, x) = <<>>
      BY <1>4 DEF Each
    <2> QED
      BY <1>4, <2>1 DEF LookupCount, None
  <1>5. CASE Len(x) = 1 /\ x = Some(x[1]) /\ Path(p) /\ At(p) = f[1]
    <2>2. LookupCount(p) = Some(MeantCount(x[1]))
      BY <1>2, <1>5, CountCopied DEF All
    <2>3. Each(MeantCount, x) = <<MeantCount(x[1])>>
      BY <1>5 DEF Each
    <2> QED
      BY <2>2, <2>3 DEF Some
  <1> QED
    BY <1>3, <1>4, <1>5

\* The definition of the code that was searched for.
LEMMA SearchDefinitionCopied ==
    ASSUME NEW a, NEW x, IsOption(x),
           At(<<a>>)["definition"] = Each(callbook_interest_definition, x)
    PROVE  InterestDefinition(First(<<a>>, "definition")) = Each(MeantDefinition, x)
  <1> DEFINE p == First(<<a>>, "definition")
             f == [i \in 1..Len(x) |-> callbook_interest_definition(x[i])]
  <1>1. At(<<a>>)["definition"] = [i \in 1..Len(x) |-> f[i]]
    BY DEF Each
  <1>2. f[1] = callbook_interest_definition(x[1]) \/ Len(x) # 1
    OBVIOUS
  <1> HIDE DEF f
  <1>3. \/ x = <<>> /\ p = NULL
        \/ Len(x) = 1 /\ x = Some(x[1]) /\ Path(p) /\ At(p) = f[1]
    BY <1>1, OptionShown
  <1>4. CASE x = <<>> /\ p = NULL
    <2>1. Each(MeantDefinition, x) = <<>>
      BY <1>4 DEF Each
    <2> QED
      BY <1>4, <2>1 DEF InterestDefinition, None
  <1>5. CASE Len(x) = 1 /\ x = Some(x[1]) /\ Path(p) /\ At(p) = f[1]
    <2>2. InterestDefinition(p) = Some(MeantDefinition(x[1]))
      BY <1>2, <1>5, DefinitionCopied
    <2>3. Each(MeantDefinition, x) = <<MeantDefinition(x[1])>>
      BY <1>5 DEF Each
    <2> QED
      BY <2>2, <2>3 DEF Some
  <1> QED
    BY <1>3, <1>4, <1>5

\* The older snapshots of a result.
LEMMA HistoryCopied ==
    ASSUME NEW a, NEW x, All(IsSnapshot, x),
           At(<<a>>)["history"] = Each(callbook_snapshot, x)
    PROVE  Items(Length(<<a>>, "history", USAGE), LAMBDA i : Get(<<a>>, "history", i), CallSnapshot)
             = Each(MeantSnapshot, x)
  <1> DEFINE n == Len(x)
             f == [i \in 1..n |-> callbook_snapshot(x[i])]
             v == [i \in 1..n |-> MeantSnapshot(x[i])]
             item == [i \in 1..n |-> CallSnapshot(Get(<<a>>, "history", i - 1))]
             items == Items(Length(<<a>>, "history", USAGE),
                            LAMBDA i : Get(<<a>>, "history", i), CallSnapshot)
  <1>1. n \in Nat /\ x = [i \in 1..n |-> x[i]] /\ \A i \in 1..n : IsSnapshot(x[i])
    BY DEF All, IsSequence
  <1>2. At(<<a>>)["history"] = [i \in 1..n |-> f[i]] /\ \A i \in 1..n : f[i] = callbook_snapshot(x[i])
    BY DEF Each
  <1>3. \A i \in 1..n : v[i] = MeantSnapshot(x[i])
    OBVIOUS
  <1>4. v = Each(MeantSnapshot, x)
    BY DEF Each
  <1>5. \A i \in 1..n : item[i] = CallSnapshot(Get(<<a>>, "history", i - 1))
    OBVIOUS
  <1> HIDE DEF n, f
  <1>a. /\ Len(At(<<a>>)["history"]) = n
        /\ \A i \in 1..n : At(<<a>>)["history"][i] = f[i]
    BY <1>1, <1>2
  <1>6. ASSUME NEW i \in 1..n
        PROVE  /\ Path(Get(<<a>>, "history", i - 1))
               /\ Get(<<a>>, "history", i - 1) # NULL
               /\ At(Get(<<a>>, "history", i - 1)) = f[i]
    <2>1. i \in Nat /\ 1 <= i /\ Len(At(<<a>>)["history"]) \in Nat
          /\ i <= Len(At(<<a>>)["history"])
      BY <1>1, <1>a
    <2> QED
      BY <1>a, <2>1, ItemShown
  <1>7. Length(<<a>>, "history", USAGE) = n
    BY <1>a, AddressIsNotNull DEF Length
  <1>8. items = Ext!FlattenSeq(item)
    BY <1>7 DEF Items
  <1>9. item = [i \in 1..n |-> item[i]] /\ v = [i \in 1..n |-> v[i]]
    OBVIOUS
  <1> HIDE DEF item, items, v
  <1>10. ASSUME NEW i \in 1..n
         PROVE  item[i] = Some(v[i])
    <2> DEFINE p == Get(<<a>>, "history", i - 1)
    <2>1. Path(p) /\ p # NULL /\ At(p) = callbook_snapshot(x[i]) /\ IsSnapshot(x[i])
      BY <1>1, <1>2, <1>6
    <2>2. item[i] = CallSnapshot(p) /\ v[i] = MeantSnapshot(x[i])
      BY <1>3, <1>5
    <2> HIDE DEF p
    <2>3. CallSnapshot(p) = Some(MeantSnapshot(x[i]))
      BY <2>1, SnapshotCopied
    <2> QED
      BY <2>2, <2>3
  <1>b. n \in Nat /\ \A i \in 1..n : item[i] = Some(v[i])
    BY <1>1, <1>10
  <1>c. Ext!FlattenSeq(item) = v
    BY <1>9, <1>b, Gathered
  <1>11. items = v
    BY <1>8, <1>c
  <1> QED
    BY <1>4, <1>11 DEF items

\* The files of a profile.
LEMMA AssetsCopied ==
    ASSUME NEW a, NEW x, All(IsAsset, x),
           At(<<a>>)["assets"] = Each(callbook_asset, x)
    PROVE  Items(Length(<<a>>, "assets", 0), LAMBDA i : Get(<<a>>, "assets", i), Asset)
             = Each(MeantAsset, x)
  <1> DEFINE n == Len(x)
             f == [i \in 1..n |-> callbook_asset(x[i])]
             v == [i \in 1..n |-> MeantAsset(x[i])]
             item == [i \in 1..n |-> Asset(Get(<<a>>, "assets", i - 1))]
             items == Items(Length(<<a>>, "assets", 0),
                            LAMBDA i : Get(<<a>>, "assets", i), Asset)
  <1>1. n \in Nat /\ x = [i \in 1..n |-> x[i]] /\ \A i \in 1..n : IsAsset(x[i])
    BY DEF All, IsSequence
  <1>2. At(<<a>>)["assets"] = [i \in 1..n |-> f[i]] /\ \A i \in 1..n : f[i] = callbook_asset(x[i])
    BY DEF Each
  <1>3. \A i \in 1..n : v[i] = MeantAsset(x[i])
    OBVIOUS
  <1>4. v = Each(MeantAsset, x)
    BY DEF Each
  <1>5. \A i \in 1..n : item[i] = Asset(Get(<<a>>, "assets", i - 1))
    OBVIOUS
  <1> HIDE DEF n, f
  <1>a. /\ Len(At(<<a>>)["assets"]) = n
        /\ \A i \in 1..n : At(<<a>>)["assets"][i] = f[i]
    BY <1>1, <1>2
  <1>6. ASSUME NEW i \in 1..n
        PROVE  /\ Path(Get(<<a>>, "assets", i - 1))
               /\ Get(<<a>>, "assets", i - 1) # NULL
               /\ At(Get(<<a>>, "assets", i - 1)) = f[i]
    <2>1. i \in Nat /\ 1 <= i /\ Len(At(<<a>>)["assets"]) \in Nat
          /\ i <= Len(At(<<a>>)["assets"])
      BY <1>1, <1>a
    <2> QED
      BY <1>a, <2>1, ItemShown
  <1>7. Length(<<a>>, "assets", 0) = n
    BY <1>a, AddressIsNotNull DEF Length
  <1>8. items = Ext!FlattenSeq(item)
    BY <1>7 DEF Items
  <1>9. item = [i \in 1..n |-> item[i]] /\ v = [i \in 1..n |-> v[i]]
    OBVIOUS
  <1> HIDE DEF item, items, v
  <1>10. ASSUME NEW i \in 1..n
         PROVE  item[i] = Some(v[i])
    <2> DEFINE p == Get(<<a>>, "assets", i - 1)
    <2>1. Path(p) /\ p # NULL /\ At(p) = callbook_asset(x[i]) /\ IsAsset(x[i])
      BY <1>1, <1>2, <1>6
    <2>2. item[i] = Asset(p) /\ v[i] = MeantAsset(x[i])
      BY <1>3, <1>5
    <2> HIDE DEF p
    <2>3. Asset(p) = Some(MeantAsset(x[i]))
      BY <2>1, AssetCopied
    <2> QED
      BY <2>2, <2>3
  <1>b. n \in Nat /\ \A i \in 1..n : item[i] = Some(v[i])
    BY <1>1, <1>10
  <1>c. Ext!FlattenSeq(item) = v
    BY <1>9, <1>b, Gathered
  <1>11. items = v
    BY <1>8, <1>c
  <1> QED
    BY <1>4, <1>11 DEF items

\* What a search found.
LEMMA MatchesCopied ==
    ASSUME NEW a, NEW x, All(IsMatch, x),
           At(<<a>>)["matches"] = Each(callbook_interest_search_match, x)
    PROVE  Items(Length(<<a>>, "matches", 0), LAMBDA i : Get(<<a>>, "matches", i), InterestSearchMatch)
             = x
  <1> DEFINE n == Len(x)
             f == [i \in 1..n |-> callbook_interest_search_match(x[i])]
             v == [i \in 1..n |-> x[i]]
             item == [i \in 1..n |-> InterestSearchMatch(Get(<<a>>, "matches", i - 1))]
             items == Items(Length(<<a>>, "matches", 0),
                            LAMBDA i : Get(<<a>>, "matches", i), InterestSearchMatch)
  <1>1. n \in Nat /\ x = [i \in 1..n |-> x[i]] /\ \A i \in 1..n : IsMatch(x[i])
    BY DEF All, IsSequence
  <1>2. At(<<a>>)["matches"] = [i \in 1..n |-> f[i]] /\ \A i \in 1..n : f[i] = callbook_interest_search_match(x[i])
    BY DEF Each
  <1>3. \A i \in 1..n : v[i] = x[i]
    OBVIOUS
  <1>4. v = x
    BY <1>1
  <1>5. \A i \in 1..n : item[i] = InterestSearchMatch(Get(<<a>>, "matches", i - 1))
    OBVIOUS
  <1> HIDE DEF n, f
  <1>a. /\ Len(At(<<a>>)["matches"]) = n
        /\ \A i \in 1..n : At(<<a>>)["matches"][i] = f[i]
    BY <1>1, <1>2
  <1>6. ASSUME NEW i \in 1..n
        PROVE  /\ Path(Get(<<a>>, "matches", i - 1))
               /\ Get(<<a>>, "matches", i - 1) # NULL
               /\ At(Get(<<a>>, "matches", i - 1)) = f[i]
    <2>1. i \in Nat /\ 1 <= i /\ Len(At(<<a>>)["matches"]) \in Nat
          /\ i <= Len(At(<<a>>)["matches"])
      BY <1>1, <1>a
    <2> QED
      BY <1>a, <2>1, ItemShown
  <1>7. Length(<<a>>, "matches", 0) = n
    BY <1>a, AddressIsNotNull DEF Length
  <1>8. items = Ext!FlattenSeq(item)
    BY <1>7 DEF Items
  <1>9. item = [i \in 1..n |-> item[i]] /\ v = [i \in 1..n |-> v[i]]
    OBVIOUS
  <1> HIDE DEF item, items, v
  <1>10. ASSUME NEW i \in 1..n
         PROVE  item[i] = Some(v[i])
    <2> DEFINE p == Get(<<a>>, "matches", i - 1)
    <2>1. Path(p) /\ p # NULL /\ At(p) = callbook_interest_search_match(x[i]) /\ IsMatch(x[i])
      BY <1>1, <1>2, <1>6
    <2>2. item[i] = InterestSearchMatch(p) /\ v[i] = x[i]
      BY <1>3, <1>5
    <2> HIDE DEF p
    <2>3. InterestSearchMatch(p) = Some(x[i])
      BY <2>1, MatchCopied
    <2> QED
      BY <2>2, <2>3
  <1>b. n \in Nat /\ \A i \in 1..n : item[i] = Some(v[i])
    BY <1>1, <1>10
  <1>c. Ext!FlattenSeq(item) = v
    BY <1>9, <1>b, Gathered
  <1>11. items = v
    BY <1>8, <1>c
  <1> QED
    BY <1>4, <1>11 DEF items

\* The countries of the catalog.
LEMMA CountriesCopied ==
    ASSUME NEW a, NEW x, All(IsCountry, x),
           At(<<a>>)["records"] = Each(callbook_country_info, x)
    PROVE  Items(Length(<<a>>, "records", 0), LAMBDA i : Get(<<a>>, "records", i), CountryInfo)
             = Each(MeantCountry, x)
  <1> DEFINE n == Len(x)
             f == [i \in 1..n |-> callbook_country_info(x[i])]
             v == [i \in 1..n |-> MeantCountry(x[i])]
             item == [i \in 1..n |-> CountryInfo(Get(<<a>>, "records", i - 1))]
             items == Items(Length(<<a>>, "records", 0),
                            LAMBDA i : Get(<<a>>, "records", i), CountryInfo)
  <1>1. n \in Nat /\ x = [i \in 1..n |-> x[i]] /\ \A i \in 1..n : IsCountry(x[i])
    BY DEF All, IsSequence
  <1>2. At(<<a>>)["records"] = [i \in 1..n |-> f[i]] /\ \A i \in 1..n : f[i] = callbook_country_info(x[i])
    BY DEF Each
  <1>3. \A i \in 1..n : v[i] = MeantCountry(x[i])
    OBVIOUS
  <1>4. v = Each(MeantCountry, x)
    BY DEF Each
  <1>5. \A i \in 1..n : item[i] = CountryInfo(Get(<<a>>, "records", i - 1))
    OBVIOUS
  <1> HIDE DEF n, f
  <1>a. /\ Len(At(<<a>>)["records"]) = n
        /\ \A i \in 1..n : At(<<a>>)["records"][i] = f[i]
    BY <1>1, <1>2
  <1>6. ASSUME NEW i \in 1..n
        PROVE  /\ Path(Get(<<a>>, "records", i - 1))
               /\ Get(<<a>>, "records", i - 1) # NULL
               /\ At(Get(<<a>>, "records", i - 1)) = f[i]
    <2>1. i \in Nat /\ 1 <= i /\ Len(At(<<a>>)["records"]) \in Nat
          /\ i <= Len(At(<<a>>)["records"])
      BY <1>1, <1>a
    <2> QED
      BY <1>a, <2>1, ItemShown
  <1>7. Length(<<a>>, "records", 0) = n
    BY <1>a, AddressIsNotNull DEF Length
  <1>8. items = Ext!FlattenSeq(item)
    BY <1>7 DEF Items
  <1>9. item = [i \in 1..n |-> item[i]] /\ v = [i \in 1..n |-> v[i]]
    OBVIOUS
  <1> HIDE DEF item, items, v
  <1>10. ASSUME NEW i \in 1..n
         PROVE  item[i] = Some(v[i])
    <2> DEFINE p == Get(<<a>>, "records", i - 1)
    <2>1. Path(p) /\ p # NULL /\ At(p) = callbook_country_info(x[i]) /\ IsCountry(x[i])
      BY <1>1, <1>2, <1>6
    <2>2. item[i] = CountryInfo(p) /\ v[i] = MeantCountry(x[i])
      BY <1>3, <1>5
    <2> HIDE DEF p
    <2>3. CountryInfo(p) = Some(MeantCountry(x[i]))
      BY <2>1, CountryCopied
    <2> QED
      BY <2>2, <2>3
  <1>b. n \in Nat /\ \A i \in 1..n : item[i] = Some(v[i])
    BY <1>1, <1>10
  <1>c. Ext!FlattenSeq(item) = v
    BY <1>9, <1>b, Gathered
  <1>11. items = v
    BY <1>8, <1>c
  <1> QED
    BY <1>4, <1>11 DEF items

\* The counts of the catalog.
LEMMA CountsCopied ==
    ASSUME NEW a, NEW x, All(IsCount, x),
           At(<<a>>)["records"] = Each(callbook_lookup_count, x)
    PROVE  Items(Length(<<a>>, "records", 0), LAMBDA i : Get(<<a>>, "records", i), LookupCount)
             = Each(MeantCount, x)
  <1> DEFINE n == Len(x)
             f == [i \in 1..n |-> callbook_lookup_count(x[i])]
             v == [i \in 1..n |-> MeantCount(x[i])]
             item == [i \in 1..n |-> LookupCount(Get(<<a>>, "records", i - 1))]
             items == Items(Length(<<a>>, "records", 0),
                            LAMBDA i : Get(<<a>>, "records", i), LookupCount)
  <1>1. n \in Nat /\ x = [i \in 1..n |-> x[i]] /\ \A i \in 1..n : IsCount(x[i])
    BY DEF All, IsSequence
  <1>2. At(<<a>>)["records"] = [i \in 1..n |-> f[i]] /\ \A i \in 1..n : f[i] = callbook_lookup_count(x[i])
    BY DEF Each
  <1>3. \A i \in 1..n : v[i] = MeantCount(x[i])
    OBVIOUS
  <1>4. v = Each(MeantCount, x)
    BY DEF Each
  <1>5. \A i \in 1..n : item[i] = LookupCount(Get(<<a>>, "records", i - 1))
    OBVIOUS
  <1> HIDE DEF n, f
  <1>a. /\ Len(At(<<a>>)["records"]) = n
        /\ \A i \in 1..n : At(<<a>>)["records"][i] = f[i]
    BY <1>1, <1>2
  <1>6. ASSUME NEW i \in 1..n
        PROVE  /\ Path(Get(<<a>>, "records", i - 1))
               /\ Get(<<a>>, "records", i - 1) # NULL
               /\ At(Get(<<a>>, "records", i - 1)) = f[i]
    <2>1. i \in Nat /\ 1 <= i /\ Len(At(<<a>>)["records"]) \in Nat
          /\ i <= Len(At(<<a>>)["records"])
      BY <1>1, <1>a
    <2> QED
      BY <1>a, <2>1, ItemShown
  <1>7. Length(<<a>>, "records", 0) = n
    BY <1>a, AddressIsNotNull DEF Length
  <1>8. items = Ext!FlattenSeq(item)
    BY <1>7 DEF Items
  <1>9. item = [i \in 1..n |-> item[i]] /\ v = [i \in 1..n |-> v[i]]
    OBVIOUS
  <1> HIDE DEF item, items, v
  <1>10. ASSUME NEW i \in 1..n
         PROVE  item[i] = Some(v[i])
    <2> DEFINE p == Get(<<a>>, "records", i - 1)
    <2>1. Path(p) /\ p # NULL /\ At(p) = callbook_lookup_count(x[i]) /\ IsCount(x[i])
      BY <1>1, <1>2, <1>6
    <2>2. item[i] = LookupCount(p) /\ v[i] = MeantCount(x[i])
      BY <1>3, <1>5
    <2> HIDE DEF p
    <2>3. LookupCount(p) = Some(MeantCount(x[i]))
      BY <2>1, CountCopied
    <2> QED
      BY <2>2, <2>3
  <1>b. n \in Nat /\ \A i \in 1..n : item[i] = Some(v[i])
    BY <1>1, <1>10
  <1>c. Ext!FlattenSeq(item) = v
    BY <1>9, <1>b, Gathered
  <1>11. items = v
    BY <1>8, <1>c
  <1> QED
    BY <1>4, <1>11 DEF items

-----------------------------------------------------------------------------
(* What a wrapper shows and what a temporary object is copied to *)

\* Two arrays one after the other.
LEMMA AssetsTogether ==
    ASSUME NEW s, NEW t, All(IsAsset, s), All(IsAsset, t)
    PROVE  All(IsAsset, s \o t)
  <1> DEFINE S == {s[i] : i \in 1..Len(s)} \cup {t[i] : i \in 1..Len(t)}
             m == Len(s)
             n == Len(t)
  <1>1. /\ m \in Nat /\ s = [i \in 1..m |-> s[i]] /\ \A i \in 1..m : IsAsset(s[i])
        /\ n \in Nat /\ t = [i \in 1..n |-> t[i]] /\ \A i \in 1..n : IsAsset(t[i])
    BY DEF All, IsSequence
  <1>2. s \in Seq(S) /\ t \in Seq(S)
    <2>1. [i \in 1..m |-> s[i]] \in Seq(S)
      BY <1>1
    <2>2. [i \in 1..n |-> t[i]] \in Seq(S)
      BY <1>1
    <2> QED
      BY <1>1, <2>1, <2>2
  <1> DEFINE u == s \o t
  <1> HIDE DEF S
  <1>3. /\ u \in Seq(S) /\ Len(u) = m + n
        /\ \A i \in 1..m + n : u[i] = IF i <= m THEN s[i] ELSE t[i - m]
    BY <1>2, ConcatProperties
  <1> HIDE DEF u, m, n
  <1>4. u = [i \in 1..Len(u) |-> u[i]] /\ Len(u) \in Nat
    BY <1>3
  <1>5. ASSUME NEW i \in 1..Len(u)
        PROVE  IsAsset(u[i])
    <2>1. CASE i <= m
      BY <1>1, <1>3, <2>1
    <2>2. CASE ~(i <= m)
      <3>1. i - m \in 1..n /\ u[i] = t[i - m]
        BY <1>1, <1>3, <2>2
      <3> QED
        BY <1>1, <3>1
    <2> QED
      BY <2>1, <2>2
  <1>6. All(IsAsset, u)
    BY <1>4, <1>5 DEF All, IsSequence
  <1> QED
    BY <1>6 DEF u

\* The result of a lookup.
LEMMA ResultShown ==
    ASSUME NEW a, NEW r, IsResult(r), heap[a].body = callbook_lookup_result(r)
    PROVE  LookupResult(<<a>>) = MeantResult(r)
  <1>1. /\ At(<<a>>).query = r.query /\ At(<<a>>).status = Status[r.status]
        /\ At(<<a>>)["current"] = Each(callbook_snapshot, r.current)
        /\ At(<<a>>)["history"] = Each(callbook_snapshot, r.history)
    BY Wholes DEF callbook_lookup_result
  <1>2. CallSnapshot(callbook_result_current(<<a>>)) = Each(MeantSnapshot, r.current)
    BY <1>1, CurrentCopied DEF IsResult, callbook_result_current
  <1>3. Items(callbook_result_history_len(<<a>>), LAMBDA i : callbook_result_history_get(<<a>>, i),
              CallSnapshot) = Each(MeantSnapshot, r.history)
    BY <1>1, HistoryCopied DEF IsResult, callbook_result_history_len, callbook_result_history_get
  <1>4. /\ callbook_result_query(<<a>>) = r.query
        /\ callbook_result_status(<<a>>) = Status[r.status]
    BY <1>1, AddressIsNotNull DEF Member, callbook_result_query, callbook_result_status
  <1>5. Named(LOOKUP_STATUS, Status[r.status], "not_found") = Snake[r.status]
    BY EnumerationNames DEF IsResult
  <1> QED
    BY <1>2, <1>3, <1>4, <1>5 DEF LookupResult, MeantResult

\* The profile of a station.
LEMMA ProfileShown ==
    ASSUME NEW a, NEW p, IsProfile(p), heap[a].body = callbook_profile(p)
    PROVE  StationProfile(<<a>>) = MeantProfile(p)
  <1> DEFINE files == p.photos \o p.bio \o p.country_flag \o p.country_map
             n == Len(p.vintages)
             vintages == [i \in 1..callbook_profile_history_vintage_len(<<a>>) |->
                              callbook_profile_history_vintage_get(<<a>>, i - 1)]
  <1>1. /\ At(<<a>>).callsign = p.callsign /\ At(<<a>>).status = Status[p.status]
        /\ At(<<a>>)["current"] = Each(callbook_snapshot, p.current)
        /\ At(<<a>>).history_snapshot_count = p.snapshot_count
        /\ At(<<a>>)["history_vintages"] = p.vintages
        /\ At(<<a>>)["country"] = Each(callbook_country_info, p.country)
        /\ At(<<a>>)["lookup_count"] = Each(callbook_lookup_count, p.lookup_count)
        /\ At(<<a>>)["assets"] = Each(callbook_asset, files)
    BY Wholes DEF callbook_profile
  <1>2. All(IsAsset, files)
    BY AssetsTogether DEF IsProfile
  <1> HIDE DEF files
  <1>3. CallSnapshot(callbook_profile_current(<<a>>)) = Each(MeantSnapshot, p.current)
    BY <1>1, CurrentCopied DEF IsProfile, callbook_profile_current
  <1>4. CountryInfo(callbook_profile_country(<<a>>)) = Each(MeantCountry, p.country)
    BY <1>1, ProfileCountryCopied DEF IsProfile, callbook_profile_country
  <1>5. LookupCount(callbook_profile_lookup_count(<<a>>)) = Each(MeantCount, p.lookup_count)
    BY <1>1, ProfileCountCopied DEF IsProfile, callbook_profile_lookup_count
  <1>6. Items(callbook_profile_asset_len(<<a>>), LAMBDA i : callbook_profile_asset_get(<<a>>, i),
              Asset) = Each(MeantAsset, files)
    BY <1>1, <1>2, AssetsCopied DEF callbook_profile_asset_len, callbook_profile_asset_get
  <1>7. vintages = p.vintages
    <2>1. n \in Nat /\ p.vintages = [i \in 1..n |-> p.vintages[i]]
      BY DEF IsProfile, IsSequence
    <2>2. Len(At(<<a>>)["history_vintages"]) = n
      BY <1>1
    <2>3. callbook_profile_history_vintage_len(<<a>>) = n
      BY <2>2, AddressIsNotNull DEF Length, callbook_profile_history_vintage_len
    <2>4. ASSUME NEW i \in 1..n
          PROVE  callbook_profile_history_vintage_get(<<a>>, i - 1) = p.vintages[i]
      <3> DEFINE q == <<a>>
      <3>1. i \in Nat /\ 1 <= i /\ Len(At(q)["history_vintages"]) \in Nat
            /\ i <= Len(At(q)["history_vintages"]) /\ Path(q)
        BY <2>1, <2>2, Wholes
      <3> HIDE DEF q
      <3>2. Element(q, "history_vintages", i - 1, -1) = At(q)["history_vintages"][i]
        BY <3>1, Slots
      <3> QED
        BY <1>1, <3>2 DEF q, callbook_profile_history_vintage_get
    <2> HIDE DEF n
    <2> QED
      BY <2>1, <2>3, <2>4
  <1>8. /\ callbook_profile_callsign(<<a>>) = p.callsign
        /\ callbook_profile_status(<<a>>) = Status[p.status]
        /\ callbook_profile_history_snapshot_count(<<a>>) = p.snapshot_count
    BY <1>1, AddressIsNotNull DEF Member, callbook_profile_callsign, callbook_profile_status,
                                  callbook_profile_history_snapshot_count
  <1>9. Named(LOOKUP_STATUS, Status[p.status], "not_found") = Snake[p.status]
    BY EnumerationNames DEF IsProfile
  <1> HIDE DEF vintages
  <1>10. StationProfile(<<a>>) =
           [callsign |-> p.callsign, status |-> Snake[p.status],
            current |-> Each(MeantSnapshot, p.current),
            history_snapshot_count |-> p.snapshot_count, history_vintages |-> p.vintages,
            country |-> Each(MeantCountry, p.country),
            lookup_count |-> Each(MeantCount, p.lookup_count),
            assets |-> Each(MeantAsset, files)]
    BY <1>3, <1>4, <1>5, <1>6, <1>7, <1>8, <1>9 DEF StationProfile, vintages
  <1> QED
    BY <1>10 DEF MeantProfile, files

\* A search for an interest.
LEMMA SearchShown ==
    ASSUME NEW a, NEW s, IsSearch(s), heap[a].body = callbook_interest_search_result(s)
    PROVE  InterestSearch(<<a>>) = MeantSearch(s)
  <1>1. /\ At(<<a>>).code = s.code
        /\ At(<<a>>)["definition"] = Each(callbook_interest_definition, s.definition)
        /\ At(<<a>>)["matches"] = Each(callbook_interest_search_match, s.matches)
    BY Wholes DEF callbook_interest_search_result
  <1>2. InterestDefinition(callbook_interest_search_definition(<<a>>))
          = Each(MeantDefinition, s.definition)
    BY <1>1, SearchDefinitionCopied DEF IsSearch, callbook_interest_search_definition
  <1>3. Items(callbook_interest_search_match_len(<<a>>),
              LAMBDA i : callbook_interest_search_match_get(<<a>>, i),
              InterestSearchMatch) = s.matches
    BY <1>1, MatchesCopied DEF IsSearch, callbook_interest_search_match_len,
                               callbook_interest_search_match_get
  <1>4. callbook_interest_search_code(<<a>>) = s.code
    BY <1>1, AddressIsNotNull DEF Member, callbook_interest_search_code
  <1> QED
    BY <1>2, <1>3, <1>4 DEF InterestSearch, MeantSearch

\* The catalogs.
LEMMA CatalogsShown ==
    ASSUME NEW a, NEW x
    PROVE  /\ All(IsCountry, x) /\ heap[a].body = [records |-> Each(callbook_country_info, x)]
                => CountryCatalog(<<a>>) = Each(MeantCountry, x)
           /\ All(IsCount, x) /\ heap[a].body = [records |-> Each(callbook_lookup_count, x)]
                => CountsCatalog(<<a>>) = Each(MeantCount, x)
  <1>1. ASSUME All(IsCountry, x), heap[a].body = [records |-> Each(callbook_country_info, x)]
        PROVE  CountryCatalog(<<a>>) = Each(MeantCountry, x)
    <2>1. At(<<a>>)["records"] = Each(callbook_country_info, x)
      BY <1>1, Wholes
    <2>2. Items(Length(<<a>>, "records", 0), LAMBDA i : Get(<<a>>, "records", i), CountryInfo)
            = Each(MeantCountry, x)
      BY <1>1, <2>1, CountriesCopied
    <2> QED
      BY <2>2 DEF CountryCatalog, callbook_country_catalog_len, callbook_country_catalog_get
  <1>2. ASSUME All(IsCount, x), heap[a].body = [records |-> Each(callbook_lookup_count, x)]
        PROVE  CountsCatalog(<<a>>) = Each(MeantCount, x)
    <2>1. At(<<a>>)["records"] = Each(callbook_lookup_count, x)
      BY <1>2, Wholes
    <2>2. Items(Length(<<a>>, "records", 0), LAMBDA i : Get(<<a>>, "records", i), LookupCount)
            = Each(MeantCount, x)
      BY <1>2, <2>1, CountsCopied
    <2> QED
      BY <2>2 DEF CountsCatalog, callbook_lookup_counts_catalog_len,
                  callbook_lookup_counts_catalog_get
  <1> QED
    BY <1>1, <1>2

\* What a wrapper shows is what the library answered, asked for x.
LEMMA ShownIsMeant ==
    ASSUME NEW kind \in {"result", "profile", "search", "country_catalog", "counts_catalog"},
           NEW x, NEW a, heap[a] \in Boxes(kind, x)
    PROVE  Shown(kind, <<a>>) \in MeantShown(kind, x)
  <1>1. Asked(kind, x) /\ heap[a].body \in Bodies(kind, x)
    BY DEF Boxes, Box
  <1>2. IsLibrary(Library)
    BY LibraryAssumption
  <1>3. CASE kind = "result"
    <2>1. Library.lookup[x].ok /\ heap[a].body = callbook_lookup_result(Library.lookup[x].value)
      BY <1>1, <1>3 DEF Bodies, Values
    <2>2. x \in DOMAIN Library.lookup
      BY <1>1, <1>3, ArgumentAssumption DEF Asked
    <2>3. IsResult(Library.lookup[x].value)
      BY <1>2, <2>1, <2>2 DEF IsLibrary
    <2>4. LookupResult(<<a>>) = MeantResult(Library.lookup[x].value)
      BY <2>1, <2>3, ResultShown
    <2> QED
      BY <1>3, <2>4 DEF Shown, MeantShown
  <1>4. CASE kind = "profile"
    <2>1. PICK p \in Values(Library.profile[x]) : heap[a].body = callbook_profile(p)
      BY <1>1, <1>4 DEF Bodies
    <2>2. x \in DOMAIN Library.profile
      BY <1>1, <1>4, ArgumentAssumption DEF Asked
    <2>3. PICK answer \in Library.profile[x] : answer.ok /\ p = answer.value
      BY DEF Values
    <2>4. IsProfile(p)
      BY <1>2, <2>2, <2>3 DEF IsLibrary
    <2>5. StationProfile(<<a>>) = MeantProfile(p)
      BY <2>1, <2>4, ProfileShown
    <2> QED
      BY <1>4, <2>5 DEF Shown, MeantShown
  <1>5. CASE kind = "search"
    <2>1. Library.search[x].ok
          /\ heap[a].body = callbook_interest_search_result(Library.search[x].value)
      BY <1>1, <1>5 DEF Bodies, Values
    <2>2. x \in DOMAIN Library.search
      BY <1>1, <1>5, ArgumentAssumption DEF Asked
    <2>3. IsSearch(Library.search[x].value)
      BY <1>2, <2>1, <2>2 DEF IsLibrary
    <2>4. InterestSearch(<<a>>) = MeantSearch(Library.search[x].value)
      BY <2>1, <2>3, SearchShown
    <2> QED
      BY <1>5, <2>4 DEF Shown, MeantShown
  <1>6. CASE kind = "country_catalog"
    <2>1. heap[a].body = [records |-> Each(callbook_country_info, Library.countries)]
      BY <1>1, <1>6 DEF Bodies
    <2>2. All(IsCountry, Library.countries)
      BY <1>2 DEF IsLibrary
    <2>3. CountryCatalog(<<a>>) = Each(MeantCountry, Library.countries)
      BY <2>1, <2>2, CatalogsShown
    <2> QED
      BY <1>6, <2>3 DEF Shown, MeantShown
  <1>7. CASE kind = "counts_catalog"
    <2>1. PICK c \in Values(Library.counts) \ {None} :
              heap[a].body = [records |-> Each(callbook_lookup_count, c[1])]
      BY <1>1, <1>7 DEF Bodies
    <2>2. PICK answer \in Library.counts : answer.ok /\ c = answer.value
      BY DEF Values
    <2>3. All(IsCount, c[1])
      BY <1>2, <2>1, <2>2 DEF IsLibrary
    <2>4. CountsCatalog(<<a>>) = Each(MeantCount, c[1])
      BY <2>1, <2>3, CatalogsShown
    <2> QED
      BY <1>7, <2>4 DEF Shown, MeantShown
  <1> QED
    BY <1>3, <1>4, <1>5, <1>6, <1>7

\* A copy is an option with one item.
LEMMA OneOfEach ==
    ASSUME NEW o, IsOption(o), o # None
    PROVE  /\ Each(MeantCountry, o) = Some(MeantCountry(o[1]))
           /\ Each(MeantCount, o) = Some(MeantCount(o[1]))
           /\ Each(MeantUs, o) = Some(MeantUs(o[1]))
           /\ Each(MeantDefinition, o) = Some(MeantDefinition(o[1]))
           /\ All(IsCountry, o) => IsCountry(o[1])
           /\ All(IsCount, o) => IsCount(o[1])
  <1>1. o = <<o[1]>> /\ Len(o) = 1
    BY DEF IsOption, Some
  <1>2. Each(MeantCountry, o) = Some(MeantCountry(o[1]))
    BY <1>1 DEF Each, Some
  <1>3. Each(MeantCount, o) = Some(MeantCount(o[1]))
    BY <1>1 DEF Each, Some
  <1>4. Each(MeantUs, o) = Some(MeantUs(o[1]))
    BY <1>1 DEF Each, Some
  <1>5. Each(MeantDefinition, o) = Some(MeantDefinition(o[1]))
    BY <1>1 DEF Each, Some
  <1>6. /\ All(IsCountry, o) => IsCountry(o[1])
        /\ All(IsCount, o) => IsCount(o[1])
    BY <1>1 DEF All
  <1> QED
    BY <1>2, <1>3, <1>4, <1>5, <1>6

\* What the catalogs find is an option.
LEMMA FoundIsOption ==
    ASSUME NEW x \in Argument
    PROVE  IsOption(Found(Library.us, x)) /\ IsOption(Found(Library.interests, x))
  <1>1. ASSUME NEW catalog \in {Library.us, Library.interests}, catalog # None
        PROVE  IsOption(catalog[1].found[x])
    <2>1. x \in DOMAIN catalog[1].found
      BY <1>1, ArgumentAssumption
    <2> QED
      BY <1>1, <2>1, LibraryAssumption DEF IsLibrary
  <1> QED
    BY <1>1 DEF Found, IsOption

\* What is copied from a temporary object is what the library answered, asked for x.
LEMMA CopiedIsMeant ==
    ASSUME NEW method \in DOMAIN Passing, NEW x, NEW a, heap[a] \in Boxes(Kind[method], x)
    PROVE  Copied(Kind[method], <<a>>) \in MeantCopied(method, x)
  <1> DEFINE kind == Kind[method]
  <1>1. Asked(kind, x) /\ heap[a].body \in Bodies(kind, x)
    BY DEF Boxes, Box
  <1>2. IsLibrary(Library)
    BY LibraryAssumption
  <1>3. \/ method = "country_info" /\ kind = "country"
        \/ method = "lookup_count" /\ kind = "count"
        \/ method = "current_us_lookup" /\ kind = "us_record"
        \/ method = "interest_definition" /\ kind = "definition"
    BY DEF Kind, Passing, Wrapping
  <1> HIDE DEF kind
  <1>4. x \in Argument
    BY <1>1, <1>3 DEF Asked
  <1>5. Path(<<a>>) /\ At(<<a>>) = heap[a].body
    BY Wholes
  <1>6. CASE method = "country_info" /\ kind = "country"
    <2> DEFINE c == Library.country[x]
    <2>1. c # None /\ heap[a].body = callbook_country_info(c[1])
      BY <1>1, <1>6 DEF Bodies
    <2>2. x \in DOMAIN Library.country
      BY <1>4, ArgumentAssumption
    <2>3. IsOption(c) /\ All(IsCountry, c)
      BY <1>2, <2>2 DEF IsLibrary
    <2>4. IsCountry(c[1]) /\ Each(MeantCountry, c) = Some(MeantCountry(c[1]))
      BY <2>1, <2>3, OneOfEach
    <2>5. CountryInfo(<<a>>) = Each(MeantCountry, c)
      BY <1>5, <2>1, <2>4, CountryCopied
    <2>6. Copied(kind, <<a>>) \in MeantCopied(method, x)
      BY <1>6, <2>5 DEF Copied, MeantCopied
    <2> QED
      BY <2>6 DEF kind
  <1>7. CASE method = "lookup_count" /\ kind = "count"
    <2>1. PICK c \in Values(Library.count[x]) \ {None} : heap[a].body = callbook_lookup_count(c[1])
      BY <1>1, <1>7 DEF Bodies
    <2>2. x \in DOMAIN Library.count
      BY <1>4, ArgumentAssumption
    <2>3. PICK answer \in Library.count[x] : answer.ok /\ c = answer.value
      BY <2>1 DEF Values
    <2>4. IsOption(c) /\ All(IsCount, c)
      BY <1>2, <2>2, <2>3 DEF IsLibrary
    <2>5. IsCount(c[1]) /\ Each(MeantCount, c) = Some(MeantCount(c[1]))
      BY <2>1, <2>4, OneOfEach
    <2>6. LookupCount(<<a>>) = Each(MeantCount, c)
      BY <1>5, <2>1, <2>5, CountCopied
    <2>7. Copied(kind, <<a>>) \in MeantCopied(method, x)
      BY <1>7, <2>6 DEF Copied, MeantCopied
    <2> QED
      BY <2>7 DEF kind
  <1>8. CASE method = "current_us_lookup" /\ kind = "us_record"
    <2> DEFINE r == Found(Library.us, x)
    <2>1. r # None /\ heap[a].body = callbook_us_record(r[1])
      BY <1>1, <1>8 DEF Bodies
    <2>2. IsOption(r)
      BY <1>4, FoundIsOption
    <2>3. Each(MeantUs, r) = Some(MeantUs(r[1]))
      BY <2>1, <2>2, OneOfEach
    <2>4. UsRecord(<<a>>) = Each(MeantUs, r)
      BY <1>5, <2>1, <2>3, UsCopied
    <2>5. Copied(kind, <<a>>) \in MeantCopied(method, x)
      BY <1>8, <2>4 DEF Copied, MeantCopied
    <2> QED
      BY <2>5 DEF kind
  <1>9. CASE method = "interest_definition" /\ kind = "definition"
    <2> DEFINE d == Found(Library.interests, x)
    <2>1. d # None /\ heap[a].body = callbook_interest_definition(d[1])
      BY <1>1, <1>9 DEF Bodies
    <2>2. IsOption(d)
      BY <1>4, FoundIsOption
    <2>3. Each(MeantDefinition, d) = Some(MeantDefinition(d[1]))
      BY <2>1, <2>2, OneOfEach
    <2>4. InterestDefinition(<<a>>) = Each(MeantDefinition, d)
      BY <1>5, <2>1, <2>3, DefinitionCopied
    <2>5. Copied(kind, <<a>>) \in MeantCopied(method, x)
      BY <1>9, <2>4 DEF Copied, MeantCopied
    <2> QED
      BY <2>5 DEF kind
  <1> QED
    BY <1>3, <1>6, <1>7, <1>8, <1>9

\* A method that finds nothing answers None, and so does the library.
LEMMA NotFoundIsMeant ==
    ASSUME NEW method \in DOMAIN Passing, NEW db, NEW x,
           NEW answer \in Answers(method, db, x), answer.code = NOT_FOUND
    PROVE  None \in MeantCopied(method, x)
  <1>1. /\ Each(MeantCountry, None) = None /\ Each(MeantCount, None) = None
        /\ Each(MeantUs, None) = None /\ Each(MeantDefinition, None) = None
    BY DEF Each, None
  <1>2. /\ \A code : Fails(code).code = code
        /\ \A kind, body : Boxed(kind, body).code = OK
        /\ NOT_FOUND # USAGE /\ NOT_FOUND # OK
    BY DEF Fails, Boxed, NOT_FOUND, USAGE, OK
  <1>3. CASE method = "country_info"
    <2>1. answer = callbook_country_info_for_callsign(db, x, Library.country[x])
      BY <1>3 DEF Answers
    <2>2. Library.country[x] = None
      BY <1>2, <2>1 DEF callbook_country_info_for_callsign, Answering
    <2> QED
      BY <1>1, <1>3, <2>2 DEF MeantCopied
  <1>4. CASE method = "lookup_count"
    <2>1. PICK a \in Library.count[x] : answer = callbook_lookup_count_for_callsign(db, x, a)
      BY <1>4 DEF Answers
    <2>2. a.ok /\ a.value = None
      BY <1>2, <2>1 DEF callbook_lookup_count_for_callsign, Answering
    <2>3. None \in Values(Library.count[x])
      BY <2>1, <2>2 DEF Values
    <2> QED
      BY <1>1, <1>4, <2>3 DEF MeantCopied
  <1>5. CASE method = "current_us_lookup"
    <2>1. answer = callbook_current_us_lookup(db, x)
      BY <1>5 DEF Answers
    <2>2. Found(Library.us, x) = None
      BY <1>2, <2>1 DEF callbook_current_us_lookup, Answering
    <2> QED
      BY <1>1, <1>5, <2>2 DEF MeantCopied
  <1>6. CASE method = "interest_definition"
    <2>1. answer = callbook_interest_catalog_lookup(db, x)
      BY <1>6 DEF Answers
    <2>2. Found(Library.interests, x) = None
      BY <1>2, <2>1 DEF callbook_interest_catalog_lookup, Answering
    <2> QED
      BY <1>1, <1>6, <2>2 DEF MeantCopied
  <1> QED
    BY <1>3, <1>4, <1>5, <1>6 DEF Passing

\* The record of an index is copied to the row of the catalog.
LEMMA RowIsMeant ==
    ASSUME NEW method \in GeneratorMethods, NEW index \in Nat, NEW a,
           heap[a] \in RowBoxes(method, index)
    PROVE  /\ index < Len(MeantRows(method))
           /\ Copied(RecordKind(method), <<a>>) = <<MeantRows(method)[index + 1]>>
  <1>1. Path(<<a>>) /\ At(<<a>>) = heap[a].body
    BY Wholes
  <1>2. CASE method = "current_us_records"
    <2> DEFINE rows == Rows(Library.us)
    <2>1. index < Len(rows) /\ heap[a].body = callbook_us_record(rows[index + 1])
      BY <1>2 DEF RowBoxes, Box
    <2>2. UsRecord(<<a>>) = Some(MeantUs(rows[index + 1]))
      BY <1>1, <2>1, UsCopied
    <2>3. Len(rows) \in Nat
      BY LibraryAssumption DEF IsLibrary, Rows, IsSequence
    <2>4. MeantRows(method) = [i \in 1..Len(rows) |-> MeantUs(rows[i])]
      BY <1>2 DEF MeantRows, Each
    <2> HIDE DEF rows
    <2>5. Len(MeantRows(method)) = Len(rows) /\ MeantRows(method)[index + 1] = MeantUs(rows[index + 1])
      BY <2>1, <2>3, <2>4
    <2> QED
      BY <1>2, <2>1, <2>2, <2>5 DEF Copied, RecordKind, Some
  <1>3. CASE method = "interest_definitions"
    <2> DEFINE rows == Rows(Library.interests)
    <2>1. index < Len(rows) /\ heap[a].body = callbook_interest_definition(rows[index + 1])
      BY <1>3 DEF RowBoxes, Box
    <2>2. InterestDefinition(<<a>>) = Some(MeantDefinition(rows[index + 1]))
      BY <1>1, <2>1, DefinitionCopied
    <2>3. Len(rows) \in Nat
      BY LibraryAssumption DEF IsLibrary, Rows, IsSequence
    <2>4. MeantRows(method) = [i \in 1..Len(rows) |-> MeantDefinition(rows[i])]
      BY <1>3 DEF MeantRows, Each
    <2> HIDE DEF rows
    <2>5. Len(MeantRows(method)) = Len(rows)
          /\ MeantRows(method)[index + 1] = MeantDefinition(rows[index + 1])
      BY <2>1, <2>3, <2>4
    <2> QED
      BY <1>3, <2>1, <2>2, <2>5 DEF Copied, RecordKind, Some
  <1> QED
    BY <1>2, <1>3 DEF GeneratorMethods

-----------------------------------------------------------------------------
(* Generators yield the rows of their catalog *)

\* As many rows as a generator has copied: one more while it is suspended at the `yield'.
Passed(gen) == IF gen.at = "suspended" THEN gen.index + 1 ELSE gen.index
\* What it has yielded are the first of them; it ends at the length that it was told.
GenTold(gen) ==
    gen.at # "unused" =>
        /\ gen.does \in GeneratorMethods
        /\ gen.index \in Nat /\ Passed(gen) <= Len(MeantRows(gen.does))
        /\ gen.yielded = SubSeq(MeantRows(gen.does), 1, Passed(gen))
        /\ gen.began => gen.count = Len(MeantRows(gen.does))
        /\ gen.at = "fresh" => gen.index = 0
        /\ gen.at = "yielding" => gen.out # NULL
        /\ gen.at = "ended" /\ gen.error = OK => gen.index >= gen.count
GensTold == \A g \in Generator : GenTold(gens[g])

\* The rows are a sequence, and the length is theirs.
LEMMA RowsAreRows ==
    ASSUME NEW method \in GeneratorMethods
    PROVE  /\ Len(MeantRows(method)) \in Nat
           /\ MeantRows(method) = [i \in 1..Len(MeantRows(method)) |-> MeantRows(method)[i]]
           /\ \A db : db # NULL => CountOf(method, db) = Len(MeantRows(method))
  <1>1. Len(Rows(Library.us)) \in Nat /\ Len(Rows(Library.interests)) \in Nat
    BY LibraryAssumption DEF IsLibrary, Rows, IsSequence
  <1>2. CASE method = "current_us_records"
    <2> DEFINE n == Len(Rows(Library.us))
    <2>1. MeantRows(method) = [i \in 1..n |-> MeantUs(Rows(Library.us)[i])]
      BY <1>2 DEF MeantRows, Each
    <2>2. n \in Nat /\ \A db : db # NULL => CountOf(method, db) = n
      BY <1>1, <1>2 DEF CountOf, callbook_current_us_record_count
    <2> HIDE DEF n
    <2>3. Len(MeantRows(method)) = n
      BY <2>1, <2>2
    <2> QED
      BY <2>1, <2>2, <2>3
  <1>3. CASE method = "interest_definitions"
    <2> DEFINE n == Len(Rows(Library.interests))
    <2>1. MeantRows(method) = [i \in 1..n |-> MeantDefinition(Rows(Library.interests)[i])]
      BY <1>3 DEF MeantRows, Each
    <2>2. n \in Nat /\ \A db : db # NULL => CountOf(method, db) = n
      BY <1>1, <1>3 DEF CountOf, callbook_interest_catalog_len
    <2> HIDE DEF n
    <2>3. Len(MeantRows(method)) = n
      BY <2>1, <2>2
    <2> QED
      BY <2>1, <2>2, <2>3
  <1> QED
    BY <1>2, <1>3 DEF GeneratorMethods

\* The first rows of a sequence.
LEMMA FirstRows ==
    ASSUME NEW rows, Len(rows) \in Nat, rows = [i \in 1..Len(rows) |-> rows[i]],
           NEW n \in Nat, n <= Len(rows)
    PROVE  /\ SubSeq(rows, 1, 0) = <<>>
           /\ Len(SubSeq(rows, 1, n)) = n
           /\ n = Len(rows) => SubSeq(rows, 1, n) = rows
           /\ n < Len(rows) => SubSeq(rows, 1, n) \o <<rows[n + 1]>> = SubSeq(rows, 1, n + 1)
  <1> DEFINE S == {rows[i] : i \in 1..Len(rows)}
             first == SubSeq(rows, 1, n)
  <1>1. rows \in Seq(S)
    OBVIOUS
  <1> HIDE DEF S
  <1>2. first \in Seq(S) /\ Len(first) = n /\ \A i \in 1..n : first[i] = rows[i]
    BY <1>1, SubSeqProperties
  <1>3. SubSeq(rows, 1, 0) = <<>>
    BY <1>1, SubSeqProperties
  <1>4. ASSUME n = Len(rows)
        PROVE  first = rows
    BY <1>1, <1>2, <1>4
  <1>5. ASSUME n < Len(rows)
        PROVE  first \o <<rows[n + 1]>> = SubSeq(rows, 1, n + 1)
    <2> DEFINE more == SubSeq(rows, 1, n + 1)
               last == rows[n + 1]
    <2>1. more \in Seq(S) /\ Len(more) = n + 1 /\ \A i \in 1..n + 1 : more[i] = rows[i]
      BY <1>1, <1>5, SubSeqProperties
    <2>2. last \in S
      BY <1>5 DEF S
    <2> HIDE DEF more, first, last
    <2>3. first \o <<last>> \in Seq(S) /\ Len(first \o <<last>>) = n + 1
      BY <1>2, <2>2
    <2>4. \A i \in 1..n + 1 : (first \o <<last>>)[i] = more[i]
      BY <1>2, <2>1 DEF last
    <2>5. first \o <<last>> = more
      BY <2>1, <2>3, <2>4, SeqEqual
    <2> QED
      BY <2>5 DEF more, first, last
  <1> QED
    BY <1>2, <1>3, <1>4, <1>5

\* Generate and FirstNext: nothing has been yielded.
LEMMA GenerateTold ==
    ASSUME Ownership, GensTold, NEW g \in Generator, Generate(g) \/ FirstNext(g)
    PROVE  GenTold(gens'[g]) /\ \A f \in Generator : f # g => gens'[f] = gens[f]
  <1>1. GenShape(gens[g]) /\ DOMAIN gens = Generator /\ GenTold(gens[g])
    BY DEF Ownership, GensShape, GensTold
  <1>2. CASE Generate(g)
    <2>1. PICK b \in Books, method \in program \cap GeneratorMethods :
            gens' = [gens EXCEPT ![g] = [NoGen EXCEPT !.at = "fresh", !.does = method,
                                                      !.on = <<b>>]]
      BY <1>2 DEF Generate
    <2> DEFINE gen == [NoGen EXCEPT !.at = "fresh", !.does = method, !.on = <<b>>]
    <2>2. /\ gen.at = "fresh" /\ gen.does = method /\ gen.index = 0
          /\ gen.yielded = <<>> /\ gen.began = FALSE
      BY DEF NoGen
    <2> HIDE DEF gen
    <2>3. gens'[g] = gen /\ \A f \in Generator : f # g => gens'[f] = gens[f]
      BY <1>1, <2>1 DEF gen
    <2>4. Len(MeantRows(method)) \in Nat /\ SubSeq(MeantRows(method), 1, 0) = <<>>
      BY RowsAreRows, FirstRows
    <2>5. method \in GeneratorMethods /\ Passed(gen) = 0
      BY <2>2 DEF Passed
    <2>6. GenTold(gen)
      BY <2>2, <2>4, <2>5 DEF GenTold
    <2> QED
      BY <2>3, <2>6
  <1>3. CASE FirstNext(g)
    <2> DEFINE began == Pointer(g) # NULL
               count == CountOf(gens[g].does, Pointer(g))
    <2>1. gens' = [gens EXCEPT ![g].at = "running", ![g].began = began, ![g].count = count]
          /\ gens[g].at = "fresh"
      BY <1>3 DEF FirstNext
    <2>2. began => count = Len(MeantRows(gens[g].does))
      BY <1>1, <2>1, RowsAreRows DEF GenTold
    <2> HIDE DEF began, count
    <2>3. /\ \A f \in Generator : f # g => gens'[f] = gens[f]
          /\ gens'[g].at = "running" /\ gens'[g].began = began /\ gens'[g].count = count
          /\ gens'[g].does = gens[g].does /\ gens'[g].index = gens[g].index
          /\ gens'[g].yielded = gens[g].yielded
      BY <1>1, <2>1 DEF GenShape, NoGen
    <2> QED
      BY <1>1, <2>1, <2>2, <2>3 DEF GenTold, Passed
  <1> QED
    BY <1>2, <1>3

\* LaterNext moves on past the row, and Exit forgets all.
LEMMA LaterNextTold ==
    ASSUME Ownership, GensTold, NEW g \in Generator, LaterNext(g) \/ Exit(g)
    PROVE  GenTold(gens'[g]) /\ \A f \in Generator : f # g => gens'[f] = gens[f]
  <1>1. GenShape(gens[g]) /\ DOMAIN gens = Generator /\ GenTold(gens[g])
    BY DEF Ownership, GensShape, GensTold
  <1>2. CASE LaterNext(g)
    <2> DEFINE index == gens[g].index + 1
    <2>1. gens' = [gens EXCEPT ![g].at = "running", ![g].index = index, ![g].out = NULL]
          /\ gens[g].at = "suspended"
      BY <1>2 DEF LaterNext
    <2> HIDE DEF index
    <2>2. /\ \A f \in Generator : f # g => gens'[f] = gens[f]
          /\ gens'[g].at = "running" /\ gens'[g].index = index
          /\ gens'[g].does = gens[g].does /\ gens'[g].began = gens[g].began
          /\ gens'[g].count = gens[g].count /\ gens'[g].yielded = gens[g].yielded
      BY <1>1, <2>1 DEF GenShape, NoGen
    <2>3. gens[g].index \in Nat => index \in Nat
      BY DEF index
    <2>4. Passed(gens'[g]) = Passed(gens[g])
      BY <2>1, <2>2 DEF Passed, index
    <2> QED
      BY <1>1, <2>1, <2>2, <2>3, <2>4 DEF GenTold
  <1>3. CASE Exit(g)
    <2>1. gens'[g] = NoGen /\ NoGen.at = "unused" /\ \A f \in Generator : f # g => gens'[f] = gens[f]
      BY <1>1, <1>3 DEF Exit, NoGen
    <2> QED
      BY <2>1 DEF GenTold
  <1> QED
    BY <1>2, <1>3

\* Fetch ends behind the last row, or with an error.
LEMMA FetchTold ==
    ASSUME Ownership, GensTold, NEW g \in Generator, Fetch(g)
    PROVE  GenTold(gens'[g]) /\ \A f \in Generator : f # g => gens'[f] = gens[f]
  <1>1. GenShape(gens[g]) /\ DOMAIN gens = Generator /\ GenTold(gens[g]) /\ gens[g].at = "running"
    BY DEF Fetch, Ownership, GensShape, GensTold
  <1>2. CASE gens[g].index >= gens[g].count
    <2>1. gens' = [gens EXCEPT ![g].at = "ended", ![g].on = None]
      BY <1>2 DEF Fetch
    <2>2. /\ \A f \in Generator : f # g => gens'[f] = gens[f]
          /\ gens'[g].at = "ended" /\ gens'[g].index = gens[g].index
          /\ gens'[g].does = gens[g].does /\ gens'[g].began = gens[g].began
          /\ gens'[g].count = gens[g].count /\ gens'[g].yielded = gens[g].yielded
      BY <1>1, <2>1 DEF GenShape, NoGen
    <2> QED
      BY <1>1, <1>2, <2>2 DEF GenTold, Passed
  <1>3. CASE ~(gens[g].index >= gens[g].count)
    <2> DEFINE answer == RecordAt(gens[g].does, Pointer(g), gens[g].index)
               boxes == RowBoxes(gens[g].does, gens[g].index)
    <2>1. IsAnswer(answer, boxes)
      BY RecordAtIsAnswer
    <2>2. PICK out \in {NULL} \cup {<<a>> : a \in Address} :
                 /\ Allocate(answer, out)
                 /\ gens' = [gens EXCEPT ![g] =
                       IF answer.code # OK
                           THEN [gens[g] EXCEPT !.at = "ended", !.on = None, !.error = answer.code]
                           ELSE [gens[g] EXCEPT !.at = "yielding", !.out = out]]
      BY <1>3 DEF Fetch
    <2> HIDE DEF answer, boxes
    <2>3. answer.code = OK => out # NULL
      <3>1. NOT_FOUND # OK /\ USAGE # OK /\ OPEN_FAILED # OK
        BY DEF NOT_FOUND, USAGE, OPEN_FAILED, OK
      <3> QED
        BY <2>1, <2>2, <3>1, Boxing, AddressIsNotNull
    <2>4. /\ \A f \in Generator : f # g => gens'[f] = gens[f]
          /\ gens'[g].index = gens[g].index
          /\ gens'[g].does = gens[g].does /\ gens'[g].began = gens[g].began
          /\ gens'[g].count = gens[g].count /\ gens'[g].yielded = gens[g].yielded
          /\ \/ answer.code = OK /\ gens'[g].at = "yielding" /\ gens'[g].out = out
             \/ answer.code # OK /\ gens'[g].at = "ended" /\ gens'[g].error = answer.code
      BY <1>1, <2>2 DEF GenShape, NoGen
    <2> QED
      BY <1>1, <2>3, <2>4 DEF GenTold, Passed
  <1> QED
    BY <1>2, <1>3

\* Yield copies the row that is next.
LEMMA YieldTold ==
    ASSUME Ownership, GensTold, NEW g \in Generator, Yield(g)
    PROVE  GenTold(gens'[g]) /\ \A f \in Generator : f # g => gens'[f] = gens[f]
  <1> DEFINE gen == gens[g]
             rows == MeantRows(gen.does)
             new == Copied(RecordKind(gen.does), gen.out)
             yielded == gen.yielded \o new
  <1>1. GenShape(gen) /\ DOMAIN gens = Generator /\ GenTold(gen) /\ gen.at = "yielding"
    BY DEF Yield, Ownership, GensShape, GensTold
  <1>2. gens' = [gens EXCEPT ![g].at = "suspended", ![g].yielded = yielded]
    BY DEF Yield
  <1>3. gen.does \in GeneratorMethods /\ gen.index \in Nat /\ gen.out # NULL
        /\ gen.yielded = SubSeq(rows, 1, gen.index)
    BY <1>1 DEF GenTold, Passed
  <1>4. gen.out \in PointerValues /\ heap[gen.out[1]] \in RowBoxes(gen.does, gen.index)
    <2>1. /\ <<"generator", g>> \in Owner /\ Own[<<"generator", g>>] = gen.out
          /\ For[<<"generator", g>>] = RowBoxes(gen.does, gen.index)
      BY OwnValues, OwnerCases
    <2> QED
      BY <1>3, <2>1 DEF Ownership, Owned
  <1>5. PICK a \in Address : gen.out = <<a>>
    BY <1>3, <1>4 DEF PointerValues
  <1>6. heap[a] \in RowBoxes(gen.does, gen.index)
    BY <1>4, <1>5, AddressIsNotNull
  <1>7. gen.index < Len(rows) /\ new = <<rows[gen.index + 1]>>
    BY <1>3, <1>5, <1>6, RowIsMeant
  <1>8. Len(rows) \in Nat /\ rows = [i \in 1..Len(rows) |-> rows[i]]
    BY <1>3, RowsAreRows
  <1>9. yielded = SubSeq(rows, 1, gen.index + 1)
    <2> DEFINE all == rows
    <2>1. /\ Len(all) \in Nat /\ all = [i \in 1..Len(all) |-> all[i]]
          /\ gen.index < Len(all) /\ gen.index <= Len(all) /\ gen.index \in Nat
      BY <1>3, <1>7, <1>8
    <2>2. gen.yielded = SubSeq(all, 1, gen.index) /\ new = <<all[gen.index + 1]>>
      BY <1>3, <1>7
    <2> HIDE DEF all
    <2>3. SubSeq(all, 1, gen.index) \o <<all[gen.index + 1]>> = SubSeq(all, 1, gen.index + 1)
      BY <2>1, FirstRows
    <2>4. yielded = SubSeq(all, 1, gen.index + 1)
      BY <2>2, <2>3
    <2> QED
      BY <2>4 DEF all
  <1> HIDE DEF yielded, new
  <1>10. /\ \A f \in Generator : f # g => gens'[f] = gens[f]
         /\ gens'[g].at = "suspended" /\ gens'[g].yielded = yielded
         /\ gens'[g].index = gen.index /\ gens'[g].does = gen.does
         /\ gens'[g].began = gen.began /\ gens'[g].count = gen.count
    BY <1>1, <1>2 DEF GenShape, NoGen
  <1>11. Passed(gens'[g]) = gen.index + 1
    BY <1>10 DEF Passed
  <1> QED
    BY <1>1, <1>3, <1>7, <1>8, <1>9, <1>10, <1>11 DEF GenTold

\* A generator never leaves the rows out, repeats one or changes their order.
LEMMA NextTold ==
    ASSUME Ownership, GensTold, [Next]_vars
    PROVE  GensTold'
  <1>1. ASSUME NEW g \in Generator,
               \/ Generate(g) \/ FirstNext(g) \/ LaterNext(g) \/ Fetch(g)
               \/ Yield(g) \/ Exit(g)
        PROVE  GensTold'
    <2>1. GenTold(gens'[g]) /\ \A f \in Generator : f # g => gens'[f] = gens[f]
      BY <1>1, GenerateTold, LaterNextTold, FetchTold, YieldTold
    <2> QED
      BY <2>1 DEF GensTold
  <1>2. ASSUME gens' = gens
        PROVE  GensTold'
    BY <1>2 DEF GensTold
  <1>3. ASSUME NEW t \in Thread,
               \/ CallOpen(t) \/ CallMethod(t) \/ Read(t) \/ Return(t)
               \/ CloseBegin(t) \/ AskLength(t) \/ Progress(t)
        PROVE  gens' = gens
    BY <1>3, OneMethod DEF Ownership
  <1>4. CASE (\E o \in Object : Collect(o)) \/ ChangeWorldFile \/ UNCHANGED vars
    BY <1>4, <1>2 DEF Collect, ChangeWorldFile, vars
  <1> QED
    BY <1>1, <1>2, <1>3, <1>4 DEF Next

\* A generator yields the rows of its catalog in their order, each once and, unless it ends
\* with an error, all of them, whoever suspends it, closes its CallBook or frees and boxes
\* other objects at the same addresses meanwhile (_api.py current_us_records and
\* interest_definitions).
THEOREM GeneratorsYieldRowsHolds == Spec => []GeneratorsYieldRows
  <1>1. Init => GensTold
    <2>1. ASSUME Init, NEW g \in Generator
          PROVE  gens[g].at = "unused"
      BY <2>1 DEF Init, NoGen
    <2> QED
      BY <2>1 DEF GensTold, GenTold
  <1>2. Ownership /\ GensTold /\ [Next]_vars => GensTold'
    BY NextTold
  <1>3. ASSUME GensTold
        PROVE  GeneratorsYieldRows
    <2> SUFFICES ASSUME NEW g \in Generator, gens[g].at # "unused"
                 PROVE  /\ gens[g].yielded = SubSeq(MeantRows(gens[g].does), 1, Len(gens[g].yielded))
                        /\ gens[g].at = "ended" /\ gens[g].began /\ gens[g].error = OK
                              => gens[g].yielded = MeantRows(gens[g].does)
      BY DEF GeneratorsYieldRows
    <2> DEFINE gen == gens[g]
               rows == MeantRows(gen.does)
               n == Passed(gen)
    <2>1. /\ gen.does \in GeneratorMethods /\ gen.index \in Nat
          /\ n <= Len(rows) /\ gen.yielded = SubSeq(rows, 1, n)
          /\ gen.began => gen.count = Len(rows)
          /\ gen.at = "ended" /\ gen.error = OK => gen.index >= gen.count
      BY <1>3 DEF GensTold, GenTold
    <2>2. Len(rows) \in Nat /\ rows = [i \in 1..Len(rows) |-> rows[i]]
      BY <2>1, RowsAreRows
    <2>3. n \in Nat /\ (gen.at = "ended" => n = gen.index)
      BY <2>1 DEF Passed
    <2> HIDE DEF rows, n
    <2>4. Len(SubSeq(rows, 1, n)) = n /\ (n = Len(rows) => SubSeq(rows, 1, n) = rows)
      BY <2>1, <2>2, <2>3, FirstRows
    <2>5. gen.yielded = SubSeq(rows, 1, Len(gen.yielded))
      BY <2>1, <2>4
    <2>6. gen.at = "ended" /\ gen.began /\ gen.error = OK => gen.yielded = rows
      BY <2>1, <2>2, <2>3, <2>4
    <2> QED
      BY <2>5, <2>6 DEF rows
  <1> QED
    BY <1>1, <1>2, <1>3, OwnershipHolds, PTL DEF Spec

-----------------------------------------------------------------------------
(* Programs read what they asked for *)

\* What a method has copied, or will answer, is what the library means.
IsTold(job) ==
    /\ job.at = "received" /\ job.does \in DOMAIN Passing /\ job.code = NOT_FOUND
          => None \in MeantCopied(job.does, job.of)
    /\ job.at = "copied" => job.value \in MeantCopied(job.does, job.of)
    /\ job.at = "answered" /\ job.error = OK /\ job.does \in DOMAIN Passing
          => job.value \in MeantCopied(job.does, job.of)
    /\ job.at = "answered" /\ job.error = OK /\ job.does = "read" /\ job.code = OK
          => \E o \in Object : /\ job.on = <<o>>
                               /\ job.value[1] \in MeantShown(objects[o].kind, job.of)
JobsTold == \A t \in Thread : IsTold(jobs[t])

\* Methods of the three sorts have names of their own.
LEMMA MethodsDiffer ==
    /\ "read" \notin DOMAIN Kind /\ "read" \notin DOMAIN Passing /\ "open" \notin DOMAIN Passing
    /\ \A method \in SizedMethods : method \notin DOMAIN Passing /\ method # "read"
  BY DEF Kind, Wrapping, Passing, SizedMethods

\* A wrapper that a method runs on, or that one has read, stays of its kind.
LEMMA KindsStay ==
    ASSUME Ownership, [Next]_vars, NEW s \in Thread, NEW p \in Object, jobs[s].on = <<p>>
    PROVE  objects'[p].kind = objects[p].kind
  <1>1. objects[p].kind # "none"
    BY DEF Ownership, JobsKnown, JobKnown
  <1>2. ASSUME NEW t \in Thread, Wrap(t)
        PROVE  objects'[p].kind = objects[p].kind
    <2>1. CASE objects' = objects
      BY <2>1
    <2>2. ASSUME NEW o \in Object, NEW wrapper, objects[o] = Unbound,
                 objects' = [objects EXCEPT ![o] = wrapper]
          PROVE  objects'[p].kind = objects[p].kind
      <3>a. Unbound.kind = "none"
        BY DEF Unbound
      <3>1. o # p
        BY <1>1, <2>2, <3>a
      <3> QED
        BY <2>2, <3>1 DEF Ownership, ObjectsShape
    <2>3. objects' = objects \/ \E o \in Object : \E wrapper :
              objects[o] = Unbound /\ objects' = [objects EXCEPT ![o] = wrapper]
      BY <1>2 DEF Wrap
    <2> QED
      BY <2>1, <2>2, <2>3
  <1>3. ASSUME NEW t \in Thread, CloseEnd(t)
        PROVE  objects'[p].kind = objects[p].kind
    <2> DEFINE o == jobs[t].on[1]
    <2>1. objects' = [objects EXCEPT ![o].pointer = NULL]
      BY <1>3 DEF CloseEnd
    <2> HIDE DEF o
    <2> QED
      BY <2>1 DEF Ownership, ObjectsShape, WrapperShape, Unbound
  <1>4. ASSUME NEW o \in Object, Collect(o)
        PROVE  objects'[p].kind = objects[p].kind
    <2>1. o # p
      BY <1>4 DEF Collect, Referenced
    <2> QED
      BY <1>4, <2>1 DEF Collect, Ownership, ObjectsShape
  <1>5. ASSUME NEW t \in Thread,
               \/ CallOpen(t) \/ CallMethod(t) \/ Read(t) \/ Return(t)
               \/ CloseBegin(t) \/ AskLength(t)
        PROVE  objects' = objects
    BY <1>5, Zenon DEF CallOpen, CallMethod, Read, Return, CloseBegin, AskLength, Ask
  <1>6. ASSUME NEW t \in Thread, Copy(t) \/ FreeTemporary(t) \/ Fill(t)
        PROVE  objects' = objects
    BY <1>6, Zenon DEF Copy, FreeTemporary, Fill
  <1>7. ASSUME NEW g \in Generator,
               \/ Generate(g) \/ FirstNext(g) \/ LaterNext(g) \/ Fetch(g)
               \/ Yield(g) \/ Exit(g)
        PROVE  objects' = objects
    BY <1>7, Zenon DEF Generate, FirstNext, LaterNext, Fetch, Yield, Exit
  <1>8. CASE ChangeWorldFile \/ UNCHANGED vars
    BY <1>8 DEF ChangeWorldFile, vars
  <1> QED
    BY <1>2, <1>3, <1>4, <1>5, <1>6, <1>7, <1>8 DEF Next, Progress

\* A method that stays as it is remains right.
LEMMA SameTold ==
    ASSUME Ownership, JobsTold, [Next]_vars, NEW s \in Thread, jobs'[s] = jobs[s]
    PROVE  IsTold(jobs[s])'
  <1>1. \A o \in Object : jobs[s].on = <<o>> => objects'[o].kind = objects[o].kind
    BY KindsStay
  <1>2. IsTold(jobs[s])
    BY DEF JobsTold
  <1> QED
    BY <1>1, <1>2 DEF IsTold

\* CallOpen and CallMethod: what is not found is not there.
LEMMA CallTold ==
    ASSUME Ownership, NEW t \in Thread, CallOpen(t) \/ CallMethod(t)
    PROVE  IsTold(jobs[t])'
  <1>1. DOMAIN jobs = Thread
    BY DEF Ownership, JobsShape
  <1>2. ASSUME NEW method, NEW o, NEW x, NEW answer, Received(t, method, o, x, answer),
               method \in DOMAIN Passing /\ answer.code = NOT_FOUND
                   => None \in MeantCopied(method, x)
        PROVE  IsTold(jobs[t])'
    <2>1. PICK out :
             jobs' = [jobs EXCEPT ![t] =
                          [Idle EXCEPT !.at = "received", !.does = method, !.on = o, !.of = x,
                                       !.out = out, !.code = answer.code]]
      BY <1>2 DEF Received
    <2> DEFINE code == answer.code
    <2>2. jobs'[t].at = "received" /\ jobs'[t].does = method /\ jobs'[t].of = x
          /\ jobs'[t].code = code
      BY <1>1, <2>1 DEF Idle
    <2> QED
      BY <1>2, <2>2 DEF IsTold
  <1>3. CASE CallOpen(t)
    <2>1. PICK path \in {"tree", Unreadable}, opened \in BOOLEAN :
              Received(t, "open", None, "", callbook_open(path, opened))
      BY <1>3 DEF CallOpen
    <2> QED
      BY <1>2, <2>1, MethodsDiffer
  <1>4. CASE CallMethod(t)
    <2>1. PICK b \in Books, method \in program \cap (DOMAIN Wrapping \cup DOMAIN Passing) :
              \E x \in Arguments(method) : \E answer \in Answers(method, objects[b].pointer, x) :
                  Received(t, method, <<b>>, x, answer)
      BY <1>4 DEF CallMethod
    <2>2. PICK x \in Arguments(method) : \E answer \in Answers(method, objects[b].pointer, x) :
              Received(t, method, <<b>>, x, answer)
      BY <2>1
    <2>3. PICK answer \in Answers(method, objects[b].pointer, x) :
              Received(t, method, <<b>>, x, answer)
      BY <2>2
    <2>4. method \in DOMAIN Passing /\ answer.code = NOT_FOUND => None \in MeantCopied(method, x)
      BY NotFoundIsMeant
    <2> QED
      BY <1>2, <2>3, <2>4
  <1> QED
    BY <1>3, <1>4

\* Copy reads the object that was boxed for it.
LEMMA CopyTold ==
    ASSUME Ownership, JobsTold, NEW t \in Thread, Copy(t)
    PROVE  IsTold(jobs[t])'
  <1> DEFINE job == jobs[t]
  <1>1. /\ JobsShape /\ JobShape(job) /\ IsTold(job)
        /\ job.at = "received" /\ job.does \in DOMAIN Passing
    BY DEF Copy, Ownership, JobsShape, JobsTold
  <1>2. job.does # "read"
    BY <1>1, MethodsDiffer
  <1>3. CASE job.code = NOT_FOUND
    <2>1. Answer(t, OK, None)
      BY <1>3 DEF Copy
    <2>2. /\ jobs'[t].at = "answered" /\ jobs'[t].does = job.does /\ jobs'[t].of = job.of
          /\ jobs'[t].value = None
      BY <1>1, <2>1, AnswerJob
    <2>3. None \in MeantCopied(job.does, job.of)
      BY <1>1, <1>3 DEF IsTold
    <2> QED
      BY <1>2, <2>2, <2>3 DEF IsTold
  <1>4. CASE job.code # NOT_FOUND /\ job.code # OK
    <2>1. Answer(t, job.code, None)
      BY <1>4 DEF Copy
    <2>2. jobs'[t].at = "answered" /\ jobs'[t].error = job.code
      BY <1>1, <2>1, AnswerJob
    <2> QED
      BY <1>4, <2>2 DEF IsTold
  <1>5. CASE job.code = OK
    <2> DEFINE value == Copied(Kind[job.does], job.out)
    <2>1. jobs' = [jobs EXCEPT ![t].at = "copied", ![t].value = value]
      BY <1>5 DEF Copy, OK, NOT_FOUND
    <2>2. job.out # NULL
      BY <1>1, <1>5 DEF JobShape
    <2>3. job.out \in PointerValues /\ heap[job.out[1]] \in Boxes(Kind[job.does], job.of)
      <3>1. /\ <<"job", t>> \in Owner /\ Own[<<"job", t>>] = job.out
            /\ For[<<"job", t>>] = Boxes(Kind[job.does], job.of)
        BY OwnValues, OwnerCases
      <3> QED
        BY <2>2, <3>1 DEF Ownership, Owned
    <2>4. PICK a \in Address : job.out = <<a>>
      BY <2>2, <2>3 DEF PointerValues
    <2>5. heap[a] \in Boxes(Kind[job.does], job.of)
      BY <2>3, <2>4, AddressIsNotNull
    <2>6. Copied(Kind[job.does], <<a>>) \in MeantCopied(job.does, job.of)
      BY <1>1, <2>5, CopiedIsMeant
    <2>7. value \in MeantCopied(job.does, job.of)
      BY <2>4, <2>6
    <2> HIDE DEF value
    <2>8. /\ jobs'[t].at = "copied" /\ jobs'[t].does = job.does /\ jobs'[t].of = job.of
          /\ jobs'[t].value = value
      BY <1>1, <2>1 DEF JobsShape, JobShape, Idle
    <2> QED
      BY <2>7, <2>8 DEF IsTold
  <1> QED
    BY <1>3, <1>4, <1>5

\* Read reads the object that its wrapper owns.
LEMMA ReadTold ==
    ASSUME Ownership, NEW t \in Thread, Read(t)
    PROVE  IsTold(jobs[t])'
  <1> DEFINE Kinds == {"result", "profile", "search", "country_catalog", "counts_catalog"}
  <1>1. PICK o \in Object :
          /\ objects[o].kind \in Kinds
          /\ Usable(o)
          /\ jobs' = [jobs EXCEPT ![t] =
                [Idle EXCEPT !.at = "answered", !.does = "read", !.on = <<o>>,
                             !.of = objects[o].of, !.code = IF objects[o].pointer = NULL
                                                                THEN USAGE ELSE OK,
                             !.value = Some(Shown(objects[o].kind, objects[o].pointer))]]
    BY DEF Read
  <1> DEFINE code == IF objects[o].pointer = NULL THEN USAGE ELSE OK
             shown == Shown(objects[o].kind, objects[o].pointer)
             value == Some(shown)
             of == objects[o].of
  <1>2. jobs' = [jobs EXCEPT ![t] =
                [Idle EXCEPT !.at = "answered", !.does = "read", !.on = <<o>>,
                             !.of = of, !.code = code, !.value = value]]
    BY <1>1
  <1>3. ASSUME code = OK
        PROVE  shown \in MeantShown(objects[o].kind, of)
    <2>1. objects[o].pointer # NULL
      BY <1>3 DEF OK, USAGE
    <2>2. objects[o].pointer \in PointerValues
          /\ heap[objects[o].pointer[1]] \in Boxes(objects[o].kind, of)
      <3>1. /\ <<"object", o>> \in Owner /\ Own[<<"object", o>>] = objects[o].pointer
            /\ For[<<"object", o>>] = Boxes(objects[o].kind, of)
        BY <1>1, OwnValues, OwnerCases
      <3> QED
        BY <2>1, <3>1 DEF Ownership, Owned
    <2>3. PICK a \in Address : objects[o].pointer = <<a>>
      BY <2>1, <2>2 DEF PointerValues
    <2>4. heap[a] \in Boxes(objects[o].kind, of)
      BY <2>2, <2>3, AddressIsNotNull
    <2>5. Shown(objects[o].kind, <<a>>) \in MeantShown(objects[o].kind, of)
      BY <1>1, <2>4, ShownIsMeant
    <2> QED
      BY <2>3, <2>5
  <1>4. objects' = objects /\ value[1] = shown
    BY DEF Read, Some
  <1> HIDE DEF code, shown, value, of
  <1>5. /\ jobs'[t].at = "answered" /\ jobs'[t].does = "read" /\ jobs'[t].on = <<o>>
        /\ jobs'[t].of = of /\ jobs'[t].code = code /\ jobs'[t].value = value
    BY <1>2 DEF Ownership, JobsShape, Idle
  <1>6. jobs'[t].code = OK =>
            \E p \in Object : /\ jobs'[t].on = <<p>>
                              /\ jobs'[t].value[1] \in MeantShown(objects'[p].kind, jobs'[t].of)
    BY <1>3, <1>4, <1>5
  <1> QED
    BY <1>5, <1>6, MethodsDiffer DEF IsTold

\* The steps that answer without an object, or forget what was answered.
LEMMA OtherStepsTell ==
    ASSUME Ownership, JobsTold, NEW t \in Thread,
           \/ Wrap(t) \/ FreeTemporary(t) \/ Return(t) \/ CloseBegin(t) \/ CloseEnd(t)
           \/ AskLength(t) \/ Fill(t)
    PROVE  IsTold(jobs[t])'
  <1> DEFINE job == jobs[t]
  <1>1. JobsShape /\ JobShape(job) /\ IsTold(job) /\ DOMAIN jobs = Thread
    BY DEF Ownership, JobsShape, JobsTold
  <1>2. CASE Return(t) \/ CloseEnd(t)
    <2>1. jobs' = [jobs EXCEPT ![t] = Idle]
      BY <1>2 DEF Return, CloseEnd
    <2>2. jobs'[t].at = "idle"
      BY <1>1, <2>1 DEF Idle
    <2> QED
      BY <2>2 DEF IsTold
  <1>3. CASE CloseBegin(t)
    <2>1. PICK o : jobs' = [jobs EXCEPT ![t] = [Idle EXCEPT !.at = "closing", !.on = <<o>>]]
      BY <1>3 DEF CloseBegin
    <2>2. jobs'[t].at = "closing"
      BY <1>1, <2>1 DEF Idle
    <2> QED
      BY <2>2 DEF IsTold
  <1>4. ASSUME NEW b, NEW method \in SizedMethods, NEW x, Ask(t, b, method, x)
        PROVE  IsTold(jobs[t])'
    <2>1. PICK at \in {"answered", "sized"} : \E required, error :
              jobs' = [jobs EXCEPT ![t] = [Idle EXCEPT !.at = at, !.does = method, !.on = <<b>>,
                                                       !.of = x, !.required = required,
                                                       !.error = error]]
      BY <1>4 DEF Ask
    <2>2. jobs'[t].at = at /\ jobs'[t].does = method
      BY <1>1, <2>1 DEF Idle
    <2> QED
      BY <2>2, MethodsDiffer DEF IsTold
  <1>5. CASE AskLength(t)
    <2>1. PICK b \in Books, method \in program \cap SizedMethods, x \in Argument :
              Ask(t, b, method, x)
      BY <1>5 DEF AskLength
    <2> QED
      BY <1>4, <2>1
  <1>7. CASE Wrap(t) \/ Fill(t)
    <2>1. PICK error, value : Answer(t, error, value)
      BY <1>7 DEF Wrap, Fill
    <2>2. jobs'[t].at = "answered" /\ jobs'[t].does = job.does
      BY <1>1, <2>1, AnswerJob
    <2>3. job.does \notin DOMAIN Passing /\ job.does # "read"
      BY <1>1, <1>7, MethodsDiffer DEF Wrap, Fill, JobShape, Sizing
    <2> QED
      BY <2>2, <2>3 DEF IsTold
  <1>8. CASE FreeTemporary(t)
    <2>1. job.at = "copied" /\ Answer(t, OK, job.value)
      BY <1>8 DEF FreeTemporary
    <2>2. /\ jobs'[t].at = "answered" /\ jobs'[t].does = job.does /\ jobs'[t].of = job.of
          /\ jobs'[t].value = job.value
      BY <1>1, <2>1, AnswerJob
    <2>3. job.does # "read" /\ job.value \in MeantCopied(job.does, job.of)
      BY <1>1, <2>1, MethodsDiffer DEF JobShape, IsTold
    <2> QED
      BY <2>2, <2>3 DEF IsTold
  <1> QED
    BY <1>2, <1>3, <1>5, <1>7, <1>8

\* No step makes an answer wrong.
LEMMA NextIsTold ==
    ASSUME Ownership, JobsTold, [Next]_vars
    PROVE  JobsTold'
  <1>1. JobsShape
    BY DEF Ownership
  <1>2. ASSUME NEW t \in Thread,
               \/ CallOpen(t) \/ CallMethod(t) \/ Read(t) \/ Return(t)
               \/ CloseBegin(t) \/ AskLength(t) \/ Progress(t)
        PROVE  JobsTold'
    <2>1. \A s \in Thread : s # t => jobs'[s] = jobs[s]
      BY <1>1, <1>2, OneMethod
    <2>2. IsTold(jobs[t])'
      BY <1>2, CallTold, ReadTold, CopyTold, OtherStepsTell DEF Progress
    <2>3. ASSUME NEW s \in Thread
          PROVE  IsTold(jobs[s])'
      BY <2>1, <2>2, SameTold
    <2> QED
      BY <2>3 DEF JobsTold
  <1>3. CASE \/ \E o \in Object : Collect(o)
             \/ \E g \in Generator : \/ Generate(g) \/ FirstNext(g) \/ LaterNext(g) \/ Fetch(g)
                                     \/ Yield(g) \/ Exit(g)
             \/ UNCHANGED vars
    <2>1. jobs' = jobs
      BY <1>1, <1>3, NoMethod
    <2>2. ASSUME NEW s \in Thread
          PROVE  IsTold(jobs[s])'
      BY <2>1, SameTold
    <2> QED
      BY <2>2 DEF JobsTold
  <1>4. CASE ChangeWorldFile
    <2> DEFINE yes == TRUE
    <2>1. jobs' = [t \in Thread |-> IF jobs[t].at = "sized"
                                        THEN [jobs[t] EXCEPT !.changed = yes] ELSE jobs[t]]
      BY <1>4 DEF ChangeWorldFile
    <2> HIDE DEF yes
    <2>2. ASSUME NEW s \in Thread
          PROVE  IsTold(jobs[s])'
      <3>1. CASE jobs[s].at = "sized"
        <4>1. jobs'[s].at = "sized"
          BY <2>1, <3>1, <1>1 DEF JobsShape, JobShape, Idle
        <4> QED
          BY <4>1 DEF IsTold
      <3>2. CASE jobs[s].at # "sized"
        <4>1. jobs'[s] = jobs[s]
          BY <2>1, <3>2
        <4> QED
          BY <4>1, SameTold
      <3> QED
        BY <3>1, <3>2
    <2> QED
      BY <2>2 DEF JobsTold
  <1> QED
    BY <1>2, <1>3, <1>4 DEF Next

\* A program that asked for a callsign, a catalog or an interest code reads what the library
\* answers to it, whatever the allocator reuses and other threads close meanwhile: neither
\* side's field numbers, enumerations and defaults change a text or a number (_api.py
\* from_ptr, ffi.rs).
THEOREM ReadsOwnAnswerHolds == Spec => []ReadsOwnAnswer
  <1>1. Init => JobsTold
    <2>1. ASSUME Init, NEW t \in Thread
          PROVE  jobs[t].at = "idle"
      BY <2>1 DEF Init, Idle
    <2> QED
      BY <2>1 DEF JobsTold, IsTold
  <1>2. Ownership /\ JobsTold /\ [Next]_vars => JobsTold'
    BY NextIsTold
  <1>3. JobsTold => ReadsOwnAnswer
    BY AddressIsNotNull DEF JobsTold, IsTold, ReadsOwnAnswer
  <1> QED
    BY <1>1, <1>2, <1>3, OwnershipHolds, PTL DEF Spec
=============================================================================
