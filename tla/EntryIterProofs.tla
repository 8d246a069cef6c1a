----------------------------- MODULE EntryIterProofs -----------------------------
(***************************************************************************)
(* Theorems about EntryIter, for every database, catalog and consumer.      *)
(*                                                                          *)
(* None of the invariants is inductive alone.  What they need is what every *)
(* item can be (Shape), that items and `seen` tell the same story (Told),   *)
(* each item by a spelling of its own (Witnessed), that candidates are      *)
(* texts of the two sources (Listed), that everything behind the position   *)
(* is seen or the candidate (Covered), and that run stops with the first    *)
(* error (Stops).                                                           *)
(***************************************************************************)
EXTENDS EntryIter, TLAPS, FiniteSetTheorems

\* A text that makes an entry, and what the iterator can return.
Entered(t) ==
    t \notin Refused /\ (history \/ AllReports[db][Normal[t]].current # NoSnapshot)
EntryOf(t) == Item("Ok", Presented(AllReports[db][Normal[t]]))
Possible == {FailureOf(t) : t \in Refused}
                \cup {EntryOf(t) : t \in {x \in Spellings : Entered(x)}}

Shape ==
    /\ db \in Databases
    /\ catalog \in Seq(Calls)
    /\ history \in BOOLEAN
    /\ position \in Nat \ {0}
    /\ candidate \in Spellings \cup {NoCandidate}
    /\ seen \subseteq Spellings
    /\ items \in Seq(Possible)

\* The callsign of an item, or the text that was refused.
QueryOf(item) == item.report.query

Told ==
    \A t \in seen : Entered(t) =>
        \E i \in 1..Len(items) : items[i].kind = "Ok" /\ QueryOf(items[i]) = Normal[t]

\* Text i is the one that item i comes from.
Witness(from) ==
    /\ from \in [1..Len(items) -> seen]
    /\ \A i, j \in 1..Len(items) : from[i] = from[j] => i = j
    /\ \A i \in 1..Len(items) : NameOf(from[i]) = QueryOf(items[i])
Witnessed == \E from : Witness(from)

Listed == seen \cup ({candidate} \ {NoCandidate}) \subseteq Known

Stops ==
    /\ phase \in {"ModernIdx", "UsCsv", "Done", "stopped"}
    /\ phase \in {"Done", "stopped"} => candidate = NoCandidate
    /\ (phase # "stopped" /\ consumer = "run") =>
           \A i \in 1..Len(items) : items[i].kind = "Ok"

\* The texts of the selected keys before key n and of the rows before row n, and
\* those the walk has come to.
TextsBefore(n) ==
    {db.idx[i].key.call : i \in {j \in 1..Len(db.idx) : j < n /\ Selected(db.idx[j].key)}}
Rows(n) == {catalog[i] : i \in {j \in 1..Len(catalog) : j < n}}
Reached ==
    TextsBefore(IF phase = "ModernIdx" THEN position ELSE Len(db.idx) + 1)
        \cup Rows(IF phase = "ModernIdx" THEN 1
                  ELSE IF phase = "UsCsv" THEN position ELSE Len(catalog) + 1)

Covered ==
    phase # "stopped" => seen \cup ({candidate} \ {NoCandidate}) = Reached

\* A report has its callsign.
LEMMA ReportQuery ==
    ASSUME NEW d \in Databases, NEW c \in Calls
    PROVE  AllReports[d][c].query = c
<1>1. AllReports[d][c] = LookupReport(d, c)
  BY DEF AllReports
<1> QED BY <1>1 DEF LookupReport

\* An entry is called by what Callsign::parse makes of its text.
LEMMA EntryFields ==
    ASSUME db \in Databases, NEW t \in Spellings \ Refused
    PROVE  EntryOf(t).kind = "Ok" /\ EntryOf(t).report.query = NameOf(t)
<1>1. EntryOf(t).kind = "Ok" /\ EntryOf(t).report = Presented(AllReports[db][Normal[t]])
  BY DEF EntryOf, Item
<1>2. NameOf(t) = Normal[t] /\ Normal[t] \in Calls
  BY NormalAssumption DEF NameOf
<1>3. AllReports[db][Normal[t]].query = Normal[t]
  BY <1>2, ReportQuery
<1>4. CASE history
  BY <1>1, <1>2, <1>3, <1>4 DEF Presented
<1>5. CASE ~history
  <2>1. Presented(AllReports[db][Normal[t]])
            = [AllReports[db][Normal[t]] EXCEPT !.history = <<>>]
    BY <1>5 DEF Presented
  <2>2. AllReports[db][Normal[t]] = LookupReport(db, Normal[t])
    BY <1>2 DEF AllReports
  <2>3. Presented(AllReports[db][Normal[t]]).query = Normal[t]
    BY <2>1, <2>2, <1>3 DEF LookupReport
  <2> QED BY <1>1, <1>2, <2>3
<1> QED BY <1>4, <1>5

\* An error is about its text.
LEMMA FailureFields ==
    ASSUME NEW t \in Refused
    PROVE  FailureOf(t).kind = "Err" /\ FailureOf(t).report.query = NameOf(t)
BY DEF FailureOf, Item, Rejection, NoAnswer, NameOf

\* What an item is, told from its kind.
LEMMA ItemFacts ==
    ASSUME Shape, NEW i \in 1..Len(items)
    PROVE  \/ items[i].kind = "Err"
           \/ /\ items[i].kind = "Ok"
              /\ \E t \in Spellings : Entered(t) /\ QueryOf(items[i]) = Normal[t]
<1>1. items[i] \in Possible
  BY DEF Shape
<1>2. CASE items[i] \in {FailureOf(t) : t \in Refused}
  BY <1>2, FailureFields
<1>3. CASE items[i] \in {EntryOf(t) : t \in {x \in Spellings : Entered(x)}}
  <2>1. PICK t \in Spellings : Entered(t) /\ items[i] = EntryOf(t)
    BY <1>3
  <2>2. QueryOf(items[i]) = NameOf(t) /\ items[i].kind = "Ok"
    BY <2>1, EntryFields DEF Shape, QueryOf, Entered
  <2>3. NameOf(t) = Normal[t]
    BY <2>1 DEF NameOf, Entered
  <2> QED BY <2>1, <2>2, <2>3
<1> QED BY <1>1, <1>2, <1>3 DEF Possible

\* The catalog's rows are callsigns.
LEMMA CatalogIsSequence ==
    ASSUME Init
    PROVE  catalog \in Seq(Calls)
<1> DEFINE S == {c \in Calls : db.csv[c] # NoSnapshot}
<1>1. IsFiniteSet(S) /\ Cardinality(S) \in Nat
  BY FiniteAssumption, SpellingsAssumption, FS_Subset, FS_CardinalityType
<1>2. catalog \in [1..Cardinality(S) -> S]
  BY DEF Init, SetToSeqs
<1>3. S \subseteq Calls
  OBVIOUS
<1> DEFINE n == Cardinality(S)
<1>4. n \in Nat /\ catalog \in [1..n -> S]
  BY <1>1, <1>2
<1> HIDE DEF n, S
<1>5. catalog \in [1..n -> Calls]
  BY <1>3, <1>4
<1> QED BY <1>4, <1>5

\* What the iterator can return depends only on what never changes.
LEMMA FixedInputs ==
    ASSUME UNCHANGED <<db, history>>
    PROVE  /\ Possible' = Possible
           /\ \A c : Entered(c)' = Entered(c)
           /\ \A c : EntryOf(c)' = EntryOf(c)
BY DEF Possible, Entered, EntryOf, Presented

\* The walk keeps its shape: the phase and the cursor stay within the IDX and
\* the catalog, candidates are callsigns of the database and every item is an
\* entry or an error of one (EntryIter::next_callsign).
THEOREM ShapeKept == Spec => []Shape
<1>1. Init => Shape
  <2> SUFFICES ASSUME Init PROVE Shape
    OBVIOUS
  <2>1. items \in Seq(Possible)
    BY DEF Init
  <2> QED BY <2>1, CatalogIsSequence DEF Init, Shape
<1>2. Shape /\ [Next]_vars => Shape'
  <2> SUFFICES ASSUME Shape, [Next]_vars PROVE Shape'
    OBVIOUS
  <2>0. UNCHANGED <<db, catalog, history, consumer>>
    BY DEF Next, vars, PassKey, TakeKey, KeysDone, TakeRow, RowsDone, Repeated,
           Fail, Suppress, Return, Consider
  <2>1. Possible' = Possible
    BY <2>0, FixedInputs
  <2>2. CASE Fail
    <3>1. FailureOf(candidate) \in Possible
      BY <2>2 DEF Fail, Possible
    <3>2. items' \in Seq(Possible)
      BY <2>2, <3>1 DEF Fail, Shape
    <3> QED BY <2>0, <2>1, <2>2, <3>2 DEF Fail, Consider, Shape
  <2>3. CASE Return
    <3>1. candidate \in Spellings /\ Entered(candidate)
      BY <2>3 DEF Return, Consider, Shape, Entered
    <3>2. EntryOf(candidate) \in Possible
      BY <3>1 DEF Possible
    <3>3. items' = Append(items, EntryOf(candidate))
      BY <2>3 DEF Return, EntryOf
    <3>4. items' \in Seq(Possible)
      BY <3>2, <3>3 DEF Shape
    <3> QED BY <2>0, <2>1, <2>3, <3>4 DEF Return, Consider, Shape
  <2>4. CASE Suppress
    BY <2>0, <2>1, <2>4 DEF Suppress, Consider, Shape
  <2>5. CASE PassKey \/ KeysDone \/ RowsDone \/ Repeated
    BY <2>0, <2>1, <2>5 DEF PassKey, KeysDone, RowsDone, Repeated, Shape
  <2>6. CASE TakeKey
    <3>1. position \in 1..Len(db.idx)
      BY <2>6, DatabasesAssumption DEF TakeKey, Shape, IsDatabase
    <3>2. candidate' \in Spellings
      BY <2>6, <3>1, KeysAssumption DEF TakeKey, Shape
    <3> QED BY <2>0, <2>1, <2>6, <3>2 DEF TakeKey, Shape
  <2>7. CASE TakeRow
    <3>1. candidate' \in Spellings
      BY <2>7, SpellingsAssumption DEF TakeRow, Shape
    <3> QED BY <2>0, <2>1, <2>7, <3>1 DEF TakeRow, Shape
  <2>8. CASE UNCHANGED vars
    BY <2>0, <2>1, <2>8 DEF vars, Shape
  <2> QED BY <2>2, <2>3, <2>4, <2>5, <2>6, <2>7, <2>8 DEF Next
<1> QED BY <1>1, <1>2, PTL DEF Spec

\* The items' callsigns after an item has been added.
LEMMA Added ==
    ASSUME Shape, NEW item, items' = Append(items, item)
    PROVE  /\ Len(items') = Len(items) + 1
           /\ items'[Len(items) + 1] = item
           /\ \A i \in 1..Len(items) : items'[i] = items[i]
           /\ Len(items) \in Nat
BY DEF Shape

\* An entry that has just come is among the items, the older ones still are,
\* and each still has a spelling of its own.
LEMMA ToldKept ==
    ASSUME Shape, Told, Witnessed, [Next]_vars
    PROVE  Told' /\ Witnessed'
<1>0. UNCHANGED <<db, catalog, history, consumer>>
  BY DEF Next, vars, PassKey, TakeKey, KeysDone, TakeRow, RowsDone, Repeated,
         Fail, Suppress, Return, Consider
<1>00. \A t : Entered(t)' = Entered(t)
  BY <1>0, FixedInputs
<1>1. ASSUME NEW item, items' = Append(items, item),
             item.report.query = NameOf(candidate),
             item.kind = "Ok" \/ candidate \in Refused, Consider
      PROVE  Told' /\ Witnessed'
  <2>1. /\ Len(items') = Len(items) + 1
        /\ items'[Len(items) + 1] = item
        /\ \A i \in 1..Len(items) : items'[i] = items[i]
        /\ Len(items) \in Nat
    BY <1>1, Added
  <2>2. seen' = seen \cup {candidate} /\ candidate \notin seen
    BY <1>1 DEF Consider
  <2>3. ASSUME NEW t \in seen', Entered(t)
        PROVE  \E i \in 1..Len(items') :
                   items'[i].kind = "Ok" /\ QueryOf(items'[i]) = Normal[t]
    <3>1. CASE t = candidate
      <4>1. candidate \notin Refused /\ NameOf(candidate) = Normal[t]
        BY <2>3, <3>1 DEF Entered, NameOf
      <4>2. Len(items) + 1 \in 1..Len(items')
        BY <2>1
      <4>3. items'[Len(items) + 1].kind = "Ok"
        BY <4>1, <2>1, <1>1
      <4>4. QueryOf(items'[Len(items) + 1]) = Normal[t]
        BY <4>1, <2>1, <1>1 DEF QueryOf
      <4> QED BY <4>2, <4>3, <4>4
    <3>2. CASE t \in seen
      <4>1. PICK i \in 1..Len(items) : items[i].kind = "Ok" /\ QueryOf(items[i]) = Normal[t]
        BY <3>2, <2>3 DEF Told
      <4>2. i \in 1..Len(items') /\ items'[i] = items[i]
        BY <2>1
      <4>3. QueryOf(items'[i]) = Normal[t]
        BY <4>1, <4>2 DEF QueryOf
      <4> QED BY <4>1, <4>2, <4>3
    <3> QED BY <2>2, <3>1, <3>2
  <2>4. Told'
    BY <2>3, <1>00 DEF Told
  <2>5. PICK from : Witness(from)
    BY DEF Witnessed
  <2> DEFINE n == Len(items)
             longer == [i \in 1..(n + 1) |-> IF i = n + 1 THEN candidate ELSE from[i]]
  <2>6. /\ n \in Nat /\ from \in [1..n -> seen]
        /\ \A i, j \in 1..n : from[i] = from[j] => i = j
        /\ \A i \in 1..n : NameOf(from[i]) = QueryOf(items[i])
    BY <2>1, <2>5 DEF Witness
  <2>7. /\ longer[n + 1] = candidate
        /\ \A i \in 1..n : longer[i] = from[i]
        /\ longer \in [1..(n + 1) -> seen']
    BY <2>2, <2>6
  <2>8. \A i \in 1..(n + 1) : i \in 1..n \/ i = n + 1
    BY <2>6
  <2>9. Len(items') = n + 1 /\ \A i \in 1..n : QueryOf(items'[i]) = QueryOf(items[i])
    BY <2>1 DEF QueryOf
  <2>10. QueryOf(items'[n + 1]) = NameOf(candidate)
    BY <1>1, <2>1 DEF QueryOf
  <2> HIDE DEF n, longer
  <2>11. \A i, j \in 1..(n + 1) : longer[i] = longer[j] => i = j
    BY <2>2, <2>6, <2>7, <2>8
  <2>12. \A i \in 1..(n + 1) : NameOf(longer[i]) = QueryOf(items'[i])
    BY <2>6, <2>7, <2>8, <2>9, <2>10
  <2>13. PICK added : added = longer
    OBVIOUS
  <2>14. Witness(added)'
    BY <2>7, <2>9, <2>11, <2>12, <2>13 DEF Witness, QueryOf, NameOf
  <2> QED BY <2>4, <2>14 DEF Witnessed
<1>2. CASE Fail
  BY <1>2, <1>1, FailureFields DEF Fail
<1>3. CASE Return
  <2>1. items' = Append(items, EntryOf(candidate)) /\ Consider /\ candidate \notin Refused
    BY <1>3 DEF Return, EntryOf
  <2>2. candidate \in Spellings \ Refused
    BY <2>1 DEF Consider, Shape
  <2>3. EntryOf(candidate).report.query = NameOf(candidate) /\ EntryOf(candidate).kind = "Ok"
    BY <2>2, EntryFields DEF Shape
  <2> QED BY <2>1, <2>3, <1>1
<1>4. CASE Suppress
  <2>1. items' = items /\ seen' = seen \cup {candidate} /\ ~Entered(candidate)
    BY <1>4 DEF Suppress, Consider, Entered
  <2>2. Told'
    BY <2>1, <1>00 DEF Told, QueryOf
  <2>3. \A from : Witness(from) => Witness(from)'
    BY <2>1 DEF Witness, QueryOf, NameOf
  <2> QED BY <2>2, <2>3 DEF Witnessed
<1>5. CASE UNCHANGED <<items, seen>>
  <2>1. Told'
    BY <1>5, <1>00 DEF Told, QueryOf
  <2>2. Witnessed'
    BY <1>5 DEF Witnessed, Witness, QueryOf, NameOf
  <2> QED BY <2>1, <2>2
<1> QED BY <1>2, <1>3, <1>4, <1>5
        DEF Next, vars, PassKey, TakeKey, KeysDone, TakeRow, RowsDone, Repeated

\* What the walk comes to is a text of the IDX or of the catalog.
LEMMA ListedKept ==
    ASSUME Shape, Listed, [Next]_vars
    PROVE  Listed'
<1>0. UNCHANGED <<db, catalog, history, consumer>>
  BY DEF Next, vars, PassKey, TakeKey, KeysDone, TakeRow, RowsDone, Repeated,
         Fail, Suppress, Return, Consider
<1>1. Known' = Known
  BY <1>0 DEF Known, KeyTexts
<1>2. CASE TakeKey
  <2>1. /\ position \in 1..Len(db.idx) /\ Selected(db.idx[position].key)
        /\ candidate' = db.idx[position].key.call /\ seen' = seen
    BY <1>2, DatabasesAssumption DEF TakeKey, Shape, IsDatabase
  <2>2. candidate' \in Known
    <3>1. CASE db.idx[position].key.year = NoYear
      BY <2>1, <3>1 DEF Selected, Known, KeyTexts
    <3>2. CASE db.idx[position].key.year # NoYear
      BY <2>1, <3>2 DEF Selected, Known, KeyTexts
    <3> QED BY <3>1, <3>2
  <2> QED BY <1>1, <2>1, <2>2 DEF Listed
<1>3. CASE TakeRow
  <2>1. /\ position \in 1..Len(catalog) /\ candidate' = catalog[position]
        /\ seen' = seen
    BY <1>3 DEF TakeRow, Shape
  <2>2. candidate' \in Known
    BY <2>1 DEF Known, Range, Shape
  <2> QED BY <1>1, <2>1, <2>2 DEF Listed
<1>4. CASE Fail \/ Suppress \/ Return
  BY <1>1, <1>4 DEF Fail, Suppress, Return, Consider, Listed
<1>5. CASE PassKey \/ KeysDone \/ RowsDone \/ Repeated \/ UNCHANGED vars
  BY <1>1, <1>5 DEF PassKey, KeysDone, RowsDone, Repeated, vars, Listed
<1> QED BY <1>2, <1>3, <1>4, <1>5 DEF Next

\* The two sources hold finitely many texts.
LEMMA KnownIsFinite ==
    ASSUME Shape
    PROVE  Known \subseteq Spellings /\ IsFiniteSet(Known)
<1>1. \A years : KeyTexts(years) \subseteq Spellings
  BY KeysAssumption DEF KeyTexts, Shape
<1>2. Range(catalog) \subseteq Spellings
  BY SpellingsAssumption DEF Range, Shape
<1>3. Known \subseteq Spellings
  BY <1>1, <1>2 DEF Known
<1> QED BY <1>3, FiniteAssumption, FS_Subset

\* No callsign comes up more often than it is spelled, as an entry or as an
\* error.
THEOREM ComesOnce == Spec => []EachOnce
<1>1. Init => Told /\ Witnessed /\ Listed
  <2> SUFFICES ASSUME Init PROVE Told /\ Witnessed /\ Listed
    OBVIOUS
  <2>1. Witness(<<>>)
    BY DEF Init, Witness
  <2> QED BY <2>1 DEF Init, Told, Witnessed, Listed
<1>2. Shape /\ Told /\ Witnessed /\ [Next]_vars => Told' /\ Witnessed'
  BY ToldKept
<1>3. Shape /\ Listed /\ [Next]_vars => Listed'
  BY ListedKept
<1>4. Shape /\ Witnessed /\ Listed => EachOnce
  <2> SUFFICES ASSUME Shape, Witnessed, Listed, NEW name
               PROVE  Cardinality(ItemsOf(name)) <= Cardinality(SpellingsOf(name))
    BY DEF EachOnce
  <2>1. PICK from : Witness(from)
    BY DEF Witnessed
  <2> DEFINE its == [i \in ItemsOf(name) |-> from[i]]
  <2>2. \A i \in ItemsOf(name) : its[i] = from[i]
    OBVIOUS
  <2>3. \A i \in ItemsOf(name) : from[i] \in SpellingsOf(name)
    BY <2>1 DEF Witness, ItemsOf, SpellingsOf, QueryOf, Listed
  <2>4. \A i, j \in ItemsOf(name) : its[i] = its[j] => i = j
    BY <2>1, <2>2 DEF Witness, ItemsOf
  <2>5. its \in [ItemsOf(name) -> SpellingsOf(name)]
    BY <2>3
  <2> HIDE DEF its
  <2>6. its \in Injection(ItemsOf(name), SpellingsOf(name))
    BY <2>4, <2>5 DEF Injection, IsInjective
  <2>7. SpellingsOf(name) \subseteq Known
    BY DEF SpellingsOf
  <2>8. IsFiniteSet(SpellingsOf(name))
    BY <2>7, KnownIsFinite, FS_Subset
  <2> QED BY <2>6, <2>8, FS_Injection
<1> QED BY <1>1, <1>2, <1>3, <1>4, ShapeKept, PTL DEF Spec

\* run stops at the first error, and what has stopped returns nothing more.
LEMMA StopsKept ==
    ASSUME Shape, Stops, RunStopsAtError, [Next]_vars
    PROVE  Stops' /\ RunStopsAtError'
<1>1. CASE Fail
  <2>1. /\ phase # "stopped" /\ consumer' = consumer /\ candidate' = NoCandidate
        /\ phase' = IF consumer = "run" THEN "stopped" ELSE phase
        /\ items' = Append(items, FailureOf(candidate))
    BY <1>1 DEF Fail, Consider, Stops
  <2>2. /\ Len(items') = Len(items) + 1 /\ Len(items) \in Nat
        /\ \A i \in 1..Len(items) : items'[i] = items[i]
    BY <2>1, Added
  <2>3. consumer = "run" => \A i \in 1..Len(items) : items'[i].kind = "Ok"
    BY <2>1, <2>2 DEF Stops
  <2>4. RunStopsAtError'
    BY <2>1, <2>2, <2>3 DEF RunStopsAtError
  <2>5. Stops'
    BY <2>1 DEF Stops
  <2> QED BY <2>4, <2>5
<1>2. CASE Return
  <2>1. /\ phase # "stopped" /\ consumer' = consumer /\ candidate' = NoCandidate
        /\ phase' = phase
        /\ items' = Append(items, EntryOf(candidate))
    BY <1>2 DEF Return, Consider, Stops, EntryOf
  <2>2. /\ Len(items') = Len(items) + 1 /\ Len(items) \in Nat
        /\ items'[Len(items) + 1] = EntryOf(candidate)
        /\ \A i \in 1..Len(items) : items'[i] = items[i]
    BY <2>1, Added
  <2>3. EntryOf(candidate).kind = "Ok"
    BY DEF EntryOf, Item
  <2>4. consumer = "run" => \A i \in 1..Len(items') : items'[i].kind = "Ok"
    BY <2>1, <2>2, <2>3 DEF Stops
  <2>5. RunStopsAtError'
    BY <2>1, <2>3, <2>4 DEF RunStopsAtError
  <2>6. Stops'
    BY <2>1, <2>4 DEF Stops
  <2> QED BY <2>5, <2>6
<1>3. CASE Suppress
  BY <1>3 DEF Suppress, Consider, Stops, RunStopsAtError
<1>4. CASE PassKey \/ TakeKey \/ KeysDone \/ TakeRow \/ RowsDone \/ Repeated
  BY <1>4 DEF PassKey, TakeKey, KeysDone, TakeRow, RowsDone, Repeated,
              Searching, Stops, RunStopsAtError
<1>5. CASE UNCHANGED vars
  BY <1>5 DEF vars, Stops, RunStopsAtError
<1> QED BY <1>1, <1>2, <1>3, <1>4, <1>5 DEF Next

\* Nothing comes behind the error that ends run.
THEOREM RunEndsAtError == Spec => []RunStopsAtError
<1>1. Init => Stops /\ RunStopsAtError
  BY DEF Init, Stops, RunStopsAtError
<1>2. Shape /\ Stops /\ RunStopsAtError /\ [Next]_vars
        => Stops' /\ RunStopsAtError'
  BY StopsKept
<1> QED BY <1>1, <1>2, ShapeKept, PTL DEF Spec

\* Whatever lies behind the position has been seen, but for the candidate.
LEMMA CoveredKept ==
    ASSUME Shape, Stops, Covered, [Next]_vars
    PROVE  Covered'
<1>0. UNCHANGED <<db, catalog, history, consumer>>
  BY DEF Next, vars, PassKey, TakeKey, KeysDone, TakeRow, RowsDone, Repeated,
         Fail, Suppress, Return, Consider
<1>1. \A n : TextsBefore(n)' = TextsBefore(n) /\ Rows(n)' = Rows(n)
  BY <1>0 DEF TextsBefore, Rows, Selected
<1>2. Rows(1) = {}
  BY DEF Rows
<1>3. CASE PassKey
  <2>1. /\ phase = "ModernIdx" /\ phase' = phase /\ position' = position + 1
        /\ UNCHANGED <<seen, candidate>> /\ ~Selected(db.idx[position].key)
    BY <1>3 DEF PassKey
  <2>2. TextsBefore(position + 1) = TextsBefore(position)
    BY <2>1 DEF TextsBefore, Shape
  <2> QED BY <1>0, <1>1, <2>1, <2>2 DEF Covered, Reached
<1>4. CASE TakeKey
  <2>1. /\ phase = "ModernIdx" /\ phase' = phase /\ position' = position + 1
        /\ seen' = seen /\ candidate = NoCandidate
        /\ position <= Len(db.idx) /\ Selected(db.idx[position].key)
        /\ candidate' = db.idx[position].key.call
    BY <1>4 DEF TakeKey, Searching
  <2>2. position \in 1..Len(db.idx)
    BY <2>1, DatabasesAssumption DEF Shape, IsDatabase
  <2>3. TextsBefore(position + 1) = TextsBefore(position) \cup {candidate'}
    BY <2>1, <2>2 DEF TextsBefore, Shape
  <2>4. candidate' # NoCandidate
    BY <2>1, <2>2, KeysAssumption, SpellingsAssumption
       DEF Shape, NoCandidate, Selected
  <2> QED BY <1>0, <1>1, <2>1, <2>3, <2>4 DEF Covered, Reached
<1>5. CASE KeysDone
  <2>1. /\ phase = "ModernIdx" /\ phase' = "UsCsv" /\ position' = 1
        /\ UNCHANGED <<seen, candidate>> /\ position > Len(db.idx)
    BY <1>5 DEF KeysDone
  <2>2. TextsBefore(Len(db.idx) + 1) = TextsBefore(position)
    BY <2>1, DatabasesAssumption DEF TextsBefore, Shape, IsDatabase
  <2> QED BY <1>0, <1>1, <2>1, <2>2 DEF Covered, Reached
<1>6. CASE TakeRow
  <2>1. /\ phase = "UsCsv" /\ phase' = phase /\ position' = position + 1
        /\ seen' = seen /\ candidate = NoCandidate
        /\ position <= Len(catalog) /\ candidate' = catalog[position]
    BY <1>6 DEF TakeRow, Searching
  <2>2. position \in 1..Len(catalog) /\ candidate' \in Calls
    BY <2>1 DEF Shape
  <2>3. Rows(position + 1) = Rows(position) \cup {candidate'}
    BY <2>1, <2>2 DEF Rows, Shape
  <2>4. candidate' # NoCandidate
    BY <2>2, CallsAssumption DEF NoCandidate
  <2> QED BY <1>0, <1>1, <2>1, <2>3, <2>4 DEF Covered, Reached
<1>7. CASE RowsDone
  <2>1. /\ phase = "UsCsv" /\ phase' = "Done" /\ position' = position
        /\ UNCHANGED <<seen, candidate>> /\ position > Len(catalog)
    BY <1>7 DEF RowsDone
  <2>2. Rows(Len(catalog) + 1) = Rows(position)
    BY <2>1 DEF Rows, Shape
  <2> QED BY <1>0, <1>1, <2>1, <2>2 DEF Covered, Reached
<1>8. CASE Fail \/ Suppress \/ Return
  <2>1. /\ Consider /\ phase' \in {phase, "stopped"} /\ position' = position
        /\ phase # "stopped"
    BY <1>8 DEF Fail, Suppress, Return, Consider, Stops
  <2>2. seen' \cup ({candidate'} \ {NoCandidate})
            = seen \cup ({candidate} \ {NoCandidate})
    BY <2>1 DEF Consider
  <2> QED BY <1>0, <1>1, <2>1, <2>2 DEF Covered, Reached
<1>9. CASE Repeated
  <2>1. /\ candidate \in seen /\ candidate' = NoCandidate
        /\ UNCHANGED <<seen, phase, position>>
    BY <1>9 DEF Repeated
  <2> QED BY <1>0, <1>1, <2>1 DEF Covered, Reached
<1>10. CASE UNCHANGED vars
  BY <1>0, <1>1, <1>10 DEF vars, Covered, Reached
<1> QED BY <1>3, <1>4, <1>5, <1>6, <1>7, <1>8, <1>9, <1>10 DEF Next

\* A finished walk has given every callsign it was to give, and no other.
THEOREM NoneLost == Spec => []NothingLost
<1>1. Init => Told /\ Witnessed /\ Stops /\ RunStopsAtError /\ Covered
  <2> SUFFICES ASSUME Init
               PROVE  Told /\ Witnessed /\ Stops /\ RunStopsAtError /\ Covered
    OBVIOUS
  <2>1. Witness(<<>>)
    BY DEF Init, Witness
  <2>2. Covered
    BY DEF Init, Covered, Reached, TextsBefore, Rows
  <2> QED BY <2>1, <2>2 DEF Init, Told, Witnessed, Stops, RunStopsAtError
<1>2. Shape /\ Stops /\ Covered /\ [Next]_vars => Covered'
  BY CoveredKept
<1>3. Shape /\ Told /\ Witnessed /\ [Next]_vars => Told' /\ Witnessed'
  BY ToldKept
<1>4. Shape /\ Told /\ Witnessed /\ Stops /\ Covered => NothingLost
  <2> SUFFICES ASSUME Shape, Told, Witnessed, Stops, Covered, phase = "Done"
               PROVE  NothingLost
    BY DEF NothingLost
  <2>1. seen = TextsBefore(Len(db.idx) + 1) \cup Rows(Len(catalog) + 1)
    BY DEF Covered, Reached, Stops
  <2>2. Rows(Len(catalog) + 1) = Range(catalog)
    BY DEF Rows, Range, Shape
  <2>3. TextsBefore(Len(db.idx) + 1)
            = ((KeyTexts({NoYear}) \ Sentinels)
                  \cup (IF history THEN KeyTexts(PlausibleYears) ELSE {})) \ Refused
    <3>1. Len(db.idx) \in Nat
      BY DatabasesAssumption DEF Shape, IsDatabase
    <3>2. TextsBefore(Len(db.idx) + 1)
              = {db.idx[i].key.call :
                     i \in {j \in 1..Len(db.idx) : Selected(db.idx[j].key)}}
      BY <3>1 DEF TextsBefore
    <3>3. NoYear \notin PlausibleYears
      BY YearsAssumption, PlausibleAssumption
    <3>4. CASE history
      BY <3>2, <3>3, <3>4 DEF KeyTexts, Selected
    <3>5. CASE ~history
      BY <3>2, <3>5 DEF KeyTexts, Selected
    <3> QED BY <3>4, <3>5
  <2>4. seen \ Refused = Known \ Refused
    BY <2>1, <2>2, <2>3 DEF Known
  <2>5. ASSUME NEW i \in 1..Len(items), items[i].kind = "Ok"
        PROVE  \E t \in seen : Entered(t) /\ items[i].report.query = Normal[t]
    <3>1. PICK t \in Spellings : Entered(t) /\ QueryOf(items[i]) = Normal[t]
      BY <2>5, ItemFacts
    <3>2. PICK from : Witness(from)
      BY DEF Witnessed
    <3>3. from[i] \in seen /\ NameOf(from[i]) = Normal[t]
      BY <3>1, <3>2 DEF Witness
    <3>4. Normal[t] \notin Refused
      BY <3>1, NormalAssumption DEF Entered
    <3>5. from[i] \notin Refused /\ Normal[from[i]] = Normal[t]
      BY <3>3, <3>4 DEF NameOf
    <3>6. Entered(from[i])
      BY <3>1, <3>5 DEF Entered
    <3> QED BY <3>1, <3>3, <3>5, <3>6 DEF QueryOf
  <2>6. Given = {Normal[t] : t \in {u \in seen : Entered(u)}}
    <3>1. \A c \in Given : c \in {Normal[t] : t \in {u \in seen : Entered(u)}}
      BY <2>5 DEF Given
    <3>2. ASSUME NEW t \in seen, Entered(t) PROVE Normal[t] \in Given
      BY <3>2 DEF Told, QueryOf, Given
    <3> QED BY <3>1, <3>2
  <2>7. {Normal[t] : t \in {u \in seen : Entered(u)}}
            = {c \in {Normal[t] : t \in Known \ Refused} :
                   history \/ AllReports[db][c].current # NoSnapshot}
    BY <2>4 DEF Entered
  <2> QED BY <2>6, <2>7 DEF NothingLost
<1>5. Shape /\ Stops /\ RunStopsAtError /\ [Next]_vars
        => Stops' /\ RunStopsAtError'
  BY StopsKept
<1> QED BY <1>1, <1>2, <1>3, <1>4, <1>5, ShapeKept, PTL DEF Spec
=============================================================================
