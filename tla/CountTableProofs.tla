---------------------------- MODULE CountTableProofs ----------------------------
(***************************************************************************)
(* Theorems about CountTable, for every set of tables, in order or not.     *)
(*                                                                          *)
(* MissMeansAbsent is not inductive: what is needed is that, in an ordered  *)
(* table, the slots given up on the left have smaller keys than the target  *)
(* and those given up on the right greater ones (Bracketed).                *)
(***************************************************************************)
EXTENDS CountTable, TLAPS

\* What has been given up is not what is searched for.
Bracketed ==
    (Ordered /\ pc = "searching") =>
        \A i \in Searchable : /\ i < low => KeyAt(i) < target
                              /\ i >= high => KeyAt(i) > target

\* A search is always for a key, never for the blank.
TargetGiven == pc = "searching" => target \in Asked

\* A table has natural length and natural keys.
LEMMA TableFacts ==
    ASSUME TypeOK
    PROVE  /\ Records \in Nat
           /\ table \in Seq(Slot)
           /\ FirstSearchable \in Nat /\ EndSearchable \in Nat
           /\ FirstSearchable <= EndSearchable
           /\ EndSearchable <= Records
<1>1. table \in Seq(Slot)
  BY TablesAssumption DEF TypeOK
<1>2. Records \in Nat
  BY <1>1 DEF Records
<1>3. HasPrologue => Records >= 4
  BY DEF HasPrologue
<1> QED BY <1>1, <1>2, <1>3 DEF FirstSearchable, EndSearchable

\* The keys of existing slots are naturals.
LEMMA KeysAreNaturals ==
    ASSUME TypeOK, NEW i \in 0..(Records - 1)
    PROVE  KeyAt(i) \in Nat /\ CountedAt(i) \in BOOLEAN
<1>1. table \in Seq(Slot) /\ Records \in Nat
  BY TableFacts
<1>2. i + 1 \in 1..Len(table)
  BY <1>1 DEF Records
<1>3. table[i + 1] \in Slot
  BY <1>1, <1>2
<1> QED BY <1>3 DEF KeyAt, CountedAt, Slot

\* The middle of a non-empty range lies in it.
LEMMA MiddleInside ==
    ASSUME TypeOK, pc = "searching", low < high
    PROVE  /\ Middle \in Nat
           /\ low <= Middle /\ Middle < high
           /\ Middle \in Searchable
           /\ Middle \in 0..(Records - 1)
<1>1. /\ low \in Nat /\ high \in Nat
      /\ FirstSearchable <= low /\ high <= EndSearchable
  BY TableFacts DEF TypeOK
<1>2. Middle \in Nat /\ low <= Middle /\ Middle < high
  BY <1>1 DEF Middle
<1> QED BY <1>1, <1>2, TableFacts DEF Searchable

\* The type invariant, for every table.
THEOREM TypeCorrect == Spec => []TypeOK
<1>1. Init => TypeOK
  <2> SUFFICES ASSUME Init PROVE TypeOK
    OBVIOUS
  <2>1. table \in Seq(Slot)
    BY TablesAssumption DEF Init
  <2> QED BY <2>1 DEF Init, TypeOK, Records
<1>2. TypeOK /\ [Next]_vars => TypeOK'
  <2> SUFFICES ASSUME TypeOK, [Next]_vars PROVE TypeOK'
    OBVIOUS
  <2> USE DEF TypeOK
  <2>0. /\ Records \in Nat /\ FirstSearchable \in Nat /\ EndSearchable \in Nat
        /\ FirstSearchable <= EndSearchable /\ EndSearchable <= Records
    BY TableFacts
  <2>t. table' = table => /\ Records' = Records
                          /\ FirstSearchable' = FirstSearchable
                          /\ EndSearchable' = EndSearchable
    BY DEF Records, FirstSearchable, EndSearchable, HasPrologue, KeyAt
  <2>1. ASSUME NEW key \in Asked, Ask(key) PROVE TypeOK'
    BY <2>0, <2>t, <2>1 DEF Ask
  <2>2. CASE AskBlank
    BY <2>0, <2>t, <2>2 DEF AskBlank
  <2>3. CASE StartListing
    BY <2>0, <2>t, <2>3 DEF StartListing
  <2>4. CASE GoRight
    BY <2>0, <2>t, <2>4, MiddleInside DEF GoRight, Searching
  <2>5. CASE GoLeft
    BY <2>0, <2>t, <2>5, MiddleInside DEF GoLeft, Searching
  <2>6. CASE Hit
    BY <2>0, <2>t, <2>6, MiddleInside DEF Hit, Searching
  <2>7. CASE Miss
    BY <2>0, <2>t, <2>7 DEF Miss
  <2>8. CASE ListNext
    BY <2>0, <2>t, <2>8 DEF ListNext
  <2>9. CASE ListEnds
    BY <2>0, <2>t, <2>9 DEF ListEnds
  <2>10. CASE UNCHANGED vars
    BY <2>0, <2>t, <2>10 DEF vars
  <2> QED BY <2>1, <2>2, <2>3, <2>4, <2>5, <2>6, <2>7, <2>8, <2>9, <2>10
          DEF Next, Step
<1> QED BY <1>1, <1>2, PTL DEF Spec

\* A record that is returned is that of the callsign asked for and no
\* sentinel, in any table.
THEOREM FoundAsked == Spec => []FoundIsAsked
<1>1. Init => FoundIsAsked
  BY DEF Init, FoundIsAsked
<1>2. TypeOK /\ FoundIsAsked /\ [Next]_vars => FoundIsAsked'
  <2> SUFFICES ASSUME TypeOK, FoundIsAsked, [Next]_vars PROVE FoundIsAsked'
    OBVIOUS
  <2>t. table' = table => /\ Records' = Records
                          /\ HasPrologue' = HasPrologue
                          /\ \A i : KeyAt(i)' = KeyAt(i)
                          /\ \A i : CountedAt(i)' = CountedAt(i)
    BY DEF Records, HasPrologue, KeyAt, CountedAt
  <2>1. CASE Hit
    <3>1. table' = table /\ target' = target /\ index' = Middle
      BY <2>1 DEF Hit
    <3>2. /\ Middle \in 0..(Records - 1) /\ Middle \in Searchable
          /\ KeyAt(Middle) = target
      BY <2>1, MiddleInside DEF Hit, Searching
    <3>3. outcome' = "record" => CountedAt(Middle)
      BY <2>1 DEF Hit, IsRecord
    <3>4. HasPrologue => Middle \notin {0, 1, 2, Records - 1}
      BY <3>2, TableFacts DEF Searchable, FirstSearchable, EndSearchable
    <3>5. KeyAt(index') = KeyAt(Middle) /\ CountedAt(index') = CountedAt(Middle)
      BY <3>1
    <3>6. /\ KeyAt(index)' = KeyAt(Middle) /\ CountedAt(index)' = CountedAt(Middle)
      BY <3>1 DEF KeyAt, CountedAt
    <3> QED BY <2>t, <3>1, <3>2, <3>3, <3>4, <3>6 DEF FoundIsAsked
  <2>2. ASSUME NEW key \in Asked, Ask(key) PROVE FoundIsAsked'
    BY <2>2 DEF Ask, FoundIsAsked
  <2>3. CASE AskBlank \/ Miss
    BY <2>3 DEF AskBlank, Miss, FoundIsAsked
  <2>4. CASE \/ StartListing \/ GoRight \/ GoLeft \/ ListNext \/ ListEnds
             \/ UNCHANGED vars
    <3>1. UNCHANGED <<table, target, outcome, index>>
      BY <2>4 DEF StartListing, GoRight, GoLeft, ListNext, ListEnds, vars
    <3>2. KeyAt(index)' = KeyAt(index) /\ CountedAt(index)' = CountedAt(index)
      BY <3>1 DEF KeyAt, CountedAt
    <3> QED BY <2>t, <3>1, <3>2 DEF FoundIsAsked
  <2> QED BY <2>1, <2>2, <2>3, <2>4 DEF Next, Step
<1> QED BY <1>1, <1>2, TypeCorrect, PTL DEF Spec

\* A step that leaves the table alone leaves its order and its keys alone.
LEMMA TableStays ==
    ASSUME table' = table
    PROVE  /\ Records' = Records
           /\ Searchable' = Searchable
           /\ FirstSearchable' = FirstSearchable
           /\ EndSearchable' = EndSearchable
           /\ Ordered' = Ordered
           /\ \A i : KeyAt(i)' = KeyAt(i) /\ IsRecord(i)' = IsRecord(i)
<1>1. /\ Records' = Records
      /\ \A i : KeyAt(i)' = KeyAt(i) /\ CountedAt(i)' = CountedAt(i)
  BY DEF Records, KeyAt, CountedAt
<1>2. HasPrologue' = HasPrologue
  BY <1>1 DEF HasPrologue, Records, KeyAt
<1>3. /\ FirstSearchable' = FirstSearchable
      /\ EndSearchable' = EndSearchable
      /\ Searchable' = Searchable
  BY <1>1, <1>2 DEF FirstSearchable, EndSearchable, Searchable
<1>4. Ordered' = Ordered
  BY <1>1, <1>3 DEF Ordered, KeyAt
<1> QED BY <1>1, <1>3, <1>4 DEF IsRecord

\* Searchable slots exist.
LEMMA SearchableSlots ==
    ASSUME TypeOK, NEW i \in Searchable
    PROVE  i \in 0..(Records - 1) /\ KeyAt(i) \in Nat
<1>1. i \in 0..(Records - 1)
  BY TableFacts DEF Searchable
<1> QED BY <1>1, KeysAreNaturals

\* The brackets of a search hold at its start and are kept by every probe.
LEMMA BracketsKept ==
    ASSUME TypeOK, TargetGiven, Bracketed, [Next]_vars
    PROVE  Bracketed' /\ TargetGiven'
<1>1. ASSUME NEW key \in Asked, Ask(key) PROVE Bracketed' /\ TargetGiven'
  <2>1. table' = table /\ low' = FirstSearchable /\ high' = EndSearchable
        /\ target' = key
    BY <1>1 DEF Ask
  <2>2. \A i \in Searchable : ~(i < FirstSearchable) /\ ~(i >= EndSearchable)
    BY TableFacts DEF Searchable
  <2>3. \A i \in Searchable' : ~(i < low') /\ ~(i >= high')
    BY <2>1, <2>2, TableStays
  <2> QED BY <2>1, <2>3 DEF Bracketed, TargetGiven
<1>2. CASE GoRight
  <2>1. /\ table' = table /\ target' = target /\ high' = high /\ pc' = pc
        /\ low' = Middle + 1 /\ pc = "searching" /\ low < high
        /\ KeyAt(Middle) = Blank \/ KeyAt(Middle) < target
    BY <1>2 DEF GoRight, Searching
  <2>2. /\ Middle \in Nat /\ Middle \in Searchable /\ low <= Middle
        /\ Middle \in 0..(Records - 1)
    BY <2>1, MiddleInside
  <2>3. target \in Nat /\ target # Blank /\ KeyAt(Middle) \in Nat
    BY <2>1, <2>2, KeysAssumption, SearchableSlots DEF TargetGiven
  <2>4. KeyAt(Middle) < target
    BY <2>1, <2>3 DEF Blank
  <2>5. ASSUME Ordered, NEW i \in Searchable, i < Middle + 1
        PROVE  KeyAt(i) < target
    <3>1. i \in Int /\ KeyAt(i) \in Nat
      BY TableFacts, SearchableSlots DEF Searchable
    <3>2. CASE i = Middle
      BY <3>2, <2>4
    <3>3. CASE i < Middle
      <4>1. KeyAt(i) < KeyAt(Middle)
            \/ (KeyAt(i) = Blank /\ KeyAt(Middle) = Blank)
        BY <2>2, <2>5, <3>3 DEF Ordered
      <4> QED BY <4>1, <3>1, <2>3, <2>4
    <3> QED BY <2>2, <2>5, <3>1, <3>2, <3>3
  <2>6. ASSUME Ordered', NEW i \in Searchable'
        PROVE  /\ i < low' => KeyAt(i)' < target'
               /\ i >= high' => KeyAt(i)' > target'
    <3>1. Ordered /\ i \in Searchable /\ KeyAt(i)' = KeyAt(i)
      BY <2>1, <2>6, TableStays
    <3>2. i >= high => KeyAt(i) > target
      BY <3>1, <2>1 DEF Bracketed
    <3> QED BY <2>1, <2>5, <3>1, <3>2
  <2> QED BY <2>1, <2>6 DEF Bracketed, TargetGiven
<1>3. CASE GoLeft
  <2>1. /\ table' = table /\ target' = target /\ low' = low /\ pc' = pc
        /\ high' = Middle /\ pc = "searching" /\ low < high
        /\ KeyAt(Middle) > target
    BY <1>3 DEF GoLeft, Searching
  <2>2. /\ Middle \in Nat /\ Middle \in Searchable /\ low <= Middle
        /\ Middle \in 0..(Records - 1)
    BY <2>1, MiddleInside
  <2>3. target \in Nat /\ target # Blank /\ KeyAt(Middle) \in Nat
    BY <2>1, <2>2, KeysAssumption, SearchableSlots DEF TargetGiven
  <2>5. ASSUME Ordered, NEW i \in Searchable, i >= Middle
        PROVE  KeyAt(i) > target
    <3>1. i \in Int /\ KeyAt(i) \in Nat
      BY TableFacts, SearchableSlots DEF Searchable
    <3>2. CASE i = Middle
      BY <3>2, <2>1
    <3>3. CASE Middle < i
      <4>1. KeyAt(Middle) < KeyAt(i)
            \/ (KeyAt(Middle) = Blank /\ KeyAt(i) = Blank)
        BY <2>2, <2>5, <3>3 DEF Ordered
      <4> QED BY <4>1, <3>1, <2>1, <2>3 DEF Blank
    <3> QED BY <2>2, <2>5, <3>1, <3>2, <3>3
  <2>6. ASSUME Ordered', NEW i \in Searchable'
        PROVE  /\ i < low' => KeyAt(i)' < target'
               /\ i >= high' => KeyAt(i)' > target'
    <3>1. Ordered /\ i \in Searchable /\ KeyAt(i)' = KeyAt(i)
      BY <2>1, <2>6, TableStays
    <3>2. i < low => KeyAt(i) < target
      BY <3>1, <2>1 DEF Bracketed
    <3> QED BY <2>1, <2>5, <3>1, <3>2
  <2> QED BY <2>1, <2>6 DEF Bracketed, TargetGiven
<1>4. CASE Hit \/ Miss \/ StartListing
  BY <1>4 DEF Hit, Miss, StartListing, Bracketed, TargetGiven
<1>5. CASE AskBlank \/ ListNext \/ ListEnds
  BY <1>5 DEF AskBlank, ListNext, ListEnds, Bracketed, TargetGiven
<1>6. CASE UNCHANGED vars
  <2>1. UNCHANGED <<table, pc, target, low, high>>
    BY <1>6 DEF vars
  <2> QED BY <2>1, TableStays DEF Bracketed, TargetGiven
<1> QED BY <1>1, <1>2, <1>3, <1>4, <1>5, <1>6 DEF Next, Step

\* In an ordered table a search that finds nothing has missed no record.
THEOREM MissIsAbsence == Spec => []MissMeansAbsent
<1> DEFINE Inv == TargetGiven /\ Bracketed /\ MissMeansAbsent
<1>1. Init => Inv
  BY DEF Init, TargetGiven, Bracketed, MissMeansAbsent
<1>2. TypeOK /\ Inv /\ [Next]_vars => Inv'
  <2> SUFFICES ASSUME TypeOK, Inv, [Next]_vars PROVE MissMeansAbsent'
    BY BracketsKept
  <2>1. CASE Miss
    <3>1. /\ table' = table /\ target' = target
          /\ pc = "searching" /\ low >= high
      BY <2>1 DEF Miss
    <3>2. ASSUME Ordered, NEW i \in Searchable PROVE KeyAt(i) # target
      <4>1. /\ i \in Nat /\ low \in Nat /\ high \in Nat /\ KeyAt(i) \in Nat
            /\ target \in Nat
        BY <3>1, SearchableSlots, KeysAssumption, TableFacts
           DEF TypeOK, TargetGiven
      <4>2. i < low \/ i >= high
        BY <3>1, <4>1
      <4> QED BY <3>1, <3>2, <4>1, <4>2 DEF Bracketed
    <3> QED BY <3>1, <3>2, TableStays DEF MissMeansAbsent
  <2>2. CASE Hit
    <3>1. /\ table' = table /\ target' = target
          /\ pc = "searching" /\ low < high /\ KeyAt(Middle) = target
          /\ outcome' = "nothing" => ~IsRecord(Middle)
      BY <2>2 DEF Hit, Searching
    <3>2. Middle \in Searchable /\ KeyAt(Middle) \in Nat /\ target # Blank
      BY <3>1, MiddleInside, SearchableSlots, KeysAssumption DEF TargetGiven
    <3>3. ASSUME Ordered, NEW i \in Searchable, KeyAt(i) = target
          PROVE  i = Middle
      <4>1. i \in Int /\ Middle \in Int /\ KeyAt(i) \in Nat
        BY <3>2, SearchableSlots, TableFacts DEF Searchable
      <4>2. /\ i < Middle => KeyAt(i) < KeyAt(Middle)
            /\ Middle < i => KeyAt(Middle) < KeyAt(i)
        BY <3>1, <3>2, <3>3 DEF Ordered
      <4> QED BY <3>1, <3>2, <3>3, <4>1, <4>2
    <3> QED BY <3>1, <3>3, TableStays DEF MissMeansAbsent
  <2>3. ASSUME NEW key \in Asked, Ask(key) PROVE MissMeansAbsent'
    BY <2>3 DEF Ask, MissMeansAbsent
  <2>4. CASE AskBlank
    <3>1. table' = table /\ target' = Blank
      BY <2>4 DEF AskBlank
    <3>2. \A i : KeyAt(i) = Blank => ~IsRecord(i)
      BY DEF IsRecord
    <3> QED BY <3>1, <3>2, TableStays DEF MissMeansAbsent
  <2>5. CASE \/ StartListing \/ GoRight \/ GoLeft \/ ListNext \/ ListEnds
             \/ UNCHANGED vars
    <3>1. UNCHANGED <<table, target, outcome>>
      BY <2>5 DEF StartListing, GoRight, GoLeft, ListNext, ListEnds, vars
    <3> QED BY <3>1, TableStays DEF MissMeansAbsent
  <2> QED BY <2>1, <2>2, <2>3, <2>4, <2>5 DEF Next, Step
<1>3. Inv => MissMeansAbsent
  OBVIOUS
<1> QED BY <1>1, <1>2, <1>3, TypeCorrect, PTL DEF Spec

-----------------------------------------------------------------------------
(* The listing.  ListingComplete speaks of its end; on the way there it has   *)
(* given the records before its cursor, and afterwards it keeps them.         *)

ListedSoFar ==
    /\ \A i \in listed : i \in Searchable /\ IsRecord(i)
    /\ pc = "listing" =>
          /\ FirstSearchable <= next /\ next <= EndSearchable
          /\ \A i \in Searchable : i < next /\ IsRecord(i) => i \in listed

LEMMA ListingStep ==
    ASSUME TypeOK, ListedSoFar, [Next]_vars
    PROVE  ListedSoFar'
<1>0. /\ FirstSearchable \in Nat /\ EndSearchable \in Nat
      /\ FirstSearchable <= EndSearchable
  BY TableFacts
<1>1. CASE StartListing
  <2>1. table' = table /\ listed' = {} /\ next' = FirstSearchable
    BY <1>1 DEF StartListing
  <2>2. \A i \in Searchable : ~(i < FirstSearchable)
    BY <1>0 DEF Searchable
  <2> QED BY <1>0, <2>1, <2>2, TableStays DEF ListedSoFar
<1>2. CASE ListNext
  <2>1. /\ table' = table /\ pc = "listing" /\ next' = next + 1
        /\ next < EndSearchable
        /\ listed' = IF IsRecord(next) THEN listed \cup {next} ELSE listed
    BY <1>2 DEF ListNext
  <2>2. /\ next \in Nat /\ FirstSearchable <= next /\ next \in Searchable
    BY <1>0, <2>1 DEF ListedSoFar, TypeOK, Searchable
  <2>3. \A i \in listed' : i \in Searchable /\ IsRecord(i)
    BY <2>1, <2>2 DEF ListedSoFar
  <2>4. ASSUME NEW i \in Searchable, i < next + 1, IsRecord(i)
        PROVE  i \in listed'
    <3>1. i < next \/ i = next
      BY <2>2, <2>4, <1>0 DEF Searchable
    <3> QED BY <2>1, <2>4, <3>1 DEF ListedSoFar
  <2>5. FirstSearchable <= next + 1 /\ next + 1 <= EndSearchable
    BY <1>0, <2>1, <2>2
  <2> QED BY <2>1, <2>3, <2>4, <2>5, TableStays DEF ListedSoFar
<1>3. ASSUME NEW key \in Asked, Ask(key) PROVE ListedSoFar'
  BY <1>3, TableStays DEF Ask, ListedSoFar
<1>4. CASE AskBlank \/ GoRight \/ GoLeft \/ Hit \/ Miss \/ ListEnds
  <2>1. UNCHANGED <<table, next, listed>> /\ (pc' = "listing" => pc = "listing")
    BY <1>4 DEF AskBlank, GoRight, GoLeft, Hit, Miss, ListEnds
  <2> QED BY <2>1, TableStays DEF ListedSoFar
<1>5. CASE UNCHANGED vars
  <2>1. UNCHANGED <<table, pc, next, listed>>
    BY <1>5 DEF vars
  <2> QED BY <2>1, TableStays DEF ListedSoFar
<1> QED BY <1>1, <1>2, <1>3, <1>4, <1>5 DEF Next, Step

LEMMA ListedImpliesComplete ==
    ASSUME TypeOK, ListedSoFar
    PROVE  ListingComplete
<1>1. ASSUME pc = "listing", next >= EndSearchable
      PROVE  listed = {i \in Searchable : IsRecord(i)}
  <2>1. \A i \in Searchable : i < next
    BY <1>1, TableFacts DEF TypeOK, Searchable
  <2> QED BY <1>1, <2>1 DEF ListedSoFar
<1>2. ASSUME Ordered, NEW i \in listed, NEW j \in listed, KeyAt(i) = KeyAt(j)
      PROVE  i = j
  <2>1. /\ i \in Searchable /\ j \in Searchable /\ KeyAt(i) # Blank
    BY DEF ListedSoFar, IsRecord
  <2>2. i \in Int /\ j \in Int /\ KeyAt(i) \in Nat
    BY <2>1, SearchableSlots, TableFacts DEF Searchable
  <2>3. /\ i < j => KeyAt(i) < KeyAt(j)
        /\ j < i => KeyAt(j) < KeyAt(i)
    BY <1>2, <2>1 DEF Ordered
  <2> QED BY <1>2, <2>2, <2>3
<1> QED BY <1>1, <1>2 DEF ListingComplete

\* Whatever the table holds, a listing that has come to its end gave the record
\* of every slot that parses, and in an ordered table no key twice.
THEOREM ListingIsComplete == Spec => []ListingComplete
<1>1. Init => ListedSoFar
  BY DEF Init, ListedSoFar
<1>2. TypeOK /\ ListedSoFar /\ [Next]_vars => ListedSoFar'
  BY ListingStep
<1>3. TypeOK /\ ListedSoFar => ListingComplete
  BY ListedImpliesComplete
<1> QED BY <1>1, <1>2, <1>3, TypeCorrect, PTL DEF Spec
=============================================================================
