---------------------------- MODULE HciIndexProofs ----------------------------
(***************************************************************************)
(* Proofs about HciIndex, for any file, any keys and any hash function:     *)
(* a search through the sorted key index visits what a pass over the whole  *)
(* table finds.  The argument: once open, the list holds the records with a *)
(* header and their hashes (Indexed) in the order of the hashes (Ordered),  *)
(* so that no record of the key lies outside the two partition points, and  *)
(* a search has visited what lies before its cursor (Searching).            *)
(* And the statistics of an undamaged file are those of its postings,       *)
(* because its records lie end to end (EndToEnd) and each adds its own.     *)
(***************************************************************************)
EXTENDS HciIndex, TLAPS, WellFoundedInduction, FiniteSetTheorems

Indexable == {i \in Ordinals(hci) : HasHeader(hci, i)}
Read == {i \in Indexable : phase = "index" => i < next}
Pushed == {entries[n].index : n \in 1..Len(entries)}
YearSet == {years[n] : n \in 1..Len(years)}
YearsRead == {YearOf[Header(hci, i)] : i \in Read} \ {NoYear}

\* The list holds what opening has read, each record with the hash of its
\* header.
Indexed ==
    /\ Pushed = Read
    /\ \A n \in 1..Len(entries) :
           entries[n].hash = Hash[Header(hci, entries[n].index)]
    /\ YearSet = YearsRead
    /\ phase = "index" => /\ next <= Len(hci.table) + 1
                          /\ key = NoKey /\ visited = <<>>

\* There is a key while a search is under way.
Keyed == phase = "visit" => key \in Keys

\* The order of the list and of the years once they are sorted.
Ordered ==
    phase # "index" =>
        /\ \A m, n \in 1..Len(entries) : m < n => Before(entries[m], entries[n])
        /\ \A m, n \in 1..Len(years) : m < n => years[m] < years[n]

\* The positions of a key in the list.
Own(k) == {n \in 1..Len(entries) : Header(hci, entries[n].index) = k}

\* A search has visited what the list holds for the key up to the cursor.
Searching ==
    /\ phase = "visit" =>
           /\ next <= Len(entries) + 1
           /\ Visited = {entries[n].index : n \in {m \in Own(key) : m < next}}
    /\ phase \in {"idle", "count"} => Visited = RecordsOf(hci, key)
    /\ \A m, n \in 1..Len(visited) : m < n => visited[m] < visited[n]

\* Where the first n - 1 records end, and the postings of a year before that.
Limit(f, n) == IF n <= Len(f.table) THEN Start(f, n) ELSE Len(f.dat) + 1
PostingsBefore(f, y, n) == {q \in PostingsOf(f, y) : q < Limit(f, n)}

\* A count of an undamaged file has counted the postings it has passed.
Counting ==
    phase = "count" =>
        /\ next <= Len(hci.table) + 1
        /\ WellFormed(hci) =>
               \A y \in Editions :
                   LET passed == PostingsBefore(hci, y, next)
                   IN  /\ counted[y].postings = Cardinality(passed)
                       /\ counted[y].offsets = {hci.dat[q].offset : q \in passed}

-----------------------------------------------------------------------------
(* Partition points and files.                                              *)

LEMMA LeastNatural ==
    ASSUME NEW S \in SUBSET Nat, S # {}
    PROVE  \E n \in S : \A m \in S : n <= m
<1>1. PICK n \in S : \A m \in S : ~(<<m, n>> \in OpToRel(<, Nat))
  BY NatLessThanWellFounded, WFMin, Zenon
<1>2. \A m \in S : ~(m < n)
  BY <1>1 DEF OpToRel
<1>. QED
  BY <1>2

\* A set of positions that goes on to the end, once begun, has a point at
\* which it begins.
LEMMA PointOf ==
    ASSUME NEW len \in Nat, NEW S \in SUBSET (1..len),
           \A i \in S : \A j \in 1..len : i < j => j \in S
    PROVE  \E n \in 0..len : /\ \A i \in 1..n : i \notin S
                             /\ \A i \in (n + 1)..len : i \in S
<1>1. CASE S = {}
  <2>1. len \in 0..len /\ \A i \in (len + 1)..len : i \in S
    OBVIOUS
  <2> QED BY <1>1, <2>1
<1>2. CASE S # {}
  <2>1. PICK x \in S : \A y \in S : x <= y
    BY <1>2, LeastNatural
  <2>2. x - 1 \in 0..len /\ \A i \in 1..(x - 1) : i \notin S
    BY <2>1
  <2>3. \A i \in ((x - 1) + 1)..len : i \in S
    BY <2>1
  <2> QED BY <2>2, <2>3
<1> QED BY <1>1, <1>2

LEMMA ElementsOf ==
    ASSUME NEW S, NEW s \in Seq(S)
    PROVE  Len(s) \in Nat /\ \A i \in 1..Len(s) : s[i] \in S
OBVIOUS

LEMMA FunctionIsSequence ==
    ASSUME NEW S, NEW n \in Nat, NEW f \in [1..n -> S]
    PROVE  f \in Seq(S) /\ Len(f) = n
OBVIOUS

LEMMA EntryType ==
    ASSUME TypeOK
    PROVE  /\ Len(entries) \in Nat
           /\ \A i \in 1..Len(entries) :
                  /\ entries[i] \in [hash : Nat, index : Ordinals(hci)]
                  /\ entries[i].hash \in Nat
                  /\ entries[i].index \in Ordinals(hci)
<1> DEFINE Entry == [hash : Nat, index : Ordinals(hci)]
<1>1. entries \in Seq(Entry)
  BY DEF TypeOK
<1>2. \A e \in Entry : e.hash \in Nat /\ e.index \in Ordinals(hci)
  OBVIOUS
<1> HIDE DEF Entry
<1>3. Len(entries) \in Nat /\ \A i \in 1..Len(entries) : entries[i] \in Entry
  BY <1>1, ElementsOf
<1>4. \A i \in 1..Len(entries) : /\ entries[i].hash \in Nat
                                 /\ entries[i].index \in Ordinals(hci)
  BY <1>2, <1>3
<1> QED BY <1>3, <1>4 DEF Entry

\* What the two binary searches return on the sorted list.
LEMMA Points ==
    ASSUME TypeOK, Ordered, phase # "index", NEW h \in Nat
    PROVE  /\ Smaller(h) \in 0..Len(entries)
           /\ \A i \in 1..Smaller(h) : entries[i].hash < h
           /\ NotGreater(h) \in 0..Len(entries)
           /\ \A i \in 1..NotGreater(h) : entries[i].hash <= h
           /\ \A i \in (NotGreater(h) + 1)..Len(entries) : entries[i].hash > h
<1> DEFINE len == Len(entries)
           reaching == {i \in 1..len : entries[i].hash >= h}
           beyond == {i \in 1..len : entries[i].hash > h}
<1>1. len \in Nat /\ \A i \in 1..len : entries[i].hash \in Nat
  BY EntryType
<1>2. \A i, j \in 1..len : i < j => entries[i].hash <= entries[j].hash
  <2> SUFFICES ASSUME NEW i \in 1..len, NEW j \in 1..len, i < j
               PROVE  entries[i].hash <= entries[j].hash
    OBVIOUS
  <2>1. Before(entries[i], entries[j])
    BY DEF Ordered
  <2> QED BY <2>1, <1>1 DEF Before
<1>3. \E n \in 0..len : /\ \A i \in 1..n : i \notin reaching
                        /\ \A i \in (n + 1)..len : i \in reaching
  <2>1. ASSUME NEW i \in reaching, NEW j \in 1..len, i < j
        PROVE  j \in reaching
    <3>1. /\ i \in 1..len /\ entries[i].hash >= h
          /\ entries[i].hash <= entries[j].hash
      BY <1>2, <2>1
    <3>2. entries[i].hash \in Nat /\ entries[j].hash \in Nat /\ h \in Nat
      BY <1>1, <3>1
    <3>3. entries[j].hash >= h
      BY <3>1, <3>2
    <3> QED BY <3>3
  <2>2. len \in Nat /\ reaching \in SUBSET (1..len)
    BY <1>1
  <2> HIDE DEF len, reaching
  <2> QED BY <2>1, <2>2, PointOf
<1>4. \E n \in 0..len : /\ \A i \in 1..n : i \notin beyond
                        /\ \A i \in (n + 1)..len : i \in beyond
  <2>1. ASSUME NEW i \in beyond, NEW j \in 1..len, i < j
        PROVE  j \in beyond
    <3>1. /\ i \in 1..len /\ entries[i].hash > h
          /\ entries[i].hash <= entries[j].hash
      BY <1>2, <2>1
    <3>2. entries[i].hash \in Nat /\ entries[j].hash \in Nat /\ h \in Nat
      BY <1>1, <3>1
    <3>3. entries[j].hash > h
      BY <3>1, <3>2
    <3> QED BY <3>3
  <2>2. len \in Nat /\ beyond \in SUBSET (1..len)
    BY <1>1
  <2> HIDE DEF len, beyond
  <2> QED BY <2>1, <2>2, PointOf
<1>5. \E n \in 0..len : /\ \A i \in 1..n : entries[i].hash < h
                        /\ \A i \in (n + 1)..len : entries[i].hash >= h
  <2>1. PICK n \in 0..len : /\ \A i \in 1..n : i \notin reaching
                            /\ \A i \in (n + 1)..len : i \in reaching
    BY <1>3
  <2>2. \A i \in 1..n : entries[i].hash < h
    BY <2>1, <1>1
  <2>3. \A i \in (n + 1)..len : entries[i].hash >= h
    BY <2>1
  <2> QED BY <2>2, <2>3
<1>6. \E n \in 0..len : /\ \A i \in 1..n : entries[i].hash <= h
                        /\ \A i \in (n + 1)..len : entries[i].hash > h
  <2>1. PICK n \in 0..len : /\ \A i \in 1..n : i \notin beyond
                            /\ \A i \in (n + 1)..len : i \in beyond
    BY <1>4
  <2>2. \A i \in 1..n : entries[i].hash <= h
    BY <2>1, <1>1
  <2>3. \A i \in (n + 1)..len : entries[i].hash > h
    BY <2>1
  <2> QED BY <2>2, <2>3
<1>7. /\ Smaller(h) \in 0..len
      /\ \A i \in 1..Smaller(h) : entries[i].hash < h
  BY <1>5, Zenon DEF Smaller
<1>8. /\ NotGreater(h) \in 0..len
      /\ \A i \in 1..NotGreater(h) : entries[i].hash <= h
      /\ \A i \in (NotGreater(h) + 1)..len : entries[i].hash > h
  BY <1>6, Zenon DEF NotGreater
<1> QED BY <1>7, <1>8

LEMMA FileType ==
    ASSUME NEW f \in Files
    PROVE  /\ Len(f.table) \in Nat /\ Len(f.dat) \in Nat
           /\ \A i \in Ordinals(f) : i \in Nat \ {0} /\ Start(f, i) \in Nat \ {0}
           /\ \A i \in Ordinals(f) : End(f, i) \in Nat
           /\ \A p \in 1..Len(f.dat) :
                  /\ f.dat[p].kind \in {"header", "posting", "close"}
                  /\ f.dat[p].kind = "header" => f.dat[p].key \in Keys
                  /\ f.dat[p].offset \in Nat
           /\ \A p, q \in 1..Len(f.dat) : f.misread[p][q] \in Seq(Nat)
<1>1. /\ f.table \in Seq(Nat \ {0}) /\ f.dat \in Seq(HciCell)
      /\ \A p \in 1..Len(f.dat) : f.dat[p].kind = "header" => f.dat[p].key \in Keys
      /\ f.misread \in [1..Len(f.dat) -> [1..Len(f.dat) -> Seq(Nat)]]
  BY FilesAssumption DEF IsFile
<1>2. \A i \in Ordinals(f) : i \in Nat \ {0} /\ Start(f, i) \in Nat \ {0}
  BY <1>1 DEF Ordinals, Start
<1>3. \A i \in Ordinals(f) : End(f, i) \in Nat
  BY <1>1 DEF Ordinals, End
<1>4. \A c \in HciCell : /\ c.kind \in {"header", "posting", "close"}
                         /\ c.offset \in Nat
  BY DEF HciCell
<1>5. \A p \in 1..Len(f.dat) : f.dat[p] \in HciCell
  BY <1>1, ElementsOf
<1>6. \A p \in 1..Len(f.dat) : /\ f.dat[p].kind \in {"header", "posting", "close"}
                               /\ f.dat[p].offset \in Nat
  BY <1>4, <1>5, Zenon
<1>7. Len(f.table) \in Nat /\ Len(f.dat) \in Nat
  BY <1>1
<1>8. \A p, q \in 1..Len(f.dat) : f.misread[p][q] \in Seq(Nat)
  BY <1>1, Zenon
<1> QED BY <1>1, <1>2, <1>3, <1>6, <1>7, <1>8, Zenon

\* A record with a header has a key for it.
LEMMA HeaderIsKey ==
    ASSUME NEW f \in Files, NEW i \in Ordinals(f), HasHeader(f, i)
    PROVE  /\ Start(f, i) \in 1..Len(f.dat) /\ End(f, i) - 1 \in 1..Len(f.dat)
           /\ Header(f, i) \in Keys
           /\ Hash[Header(f, i)] \in Nat
           /\ YearOf[Header(f, i)] \in Nat
<1>1. /\ Start(f, i) \in Nat \ {0} /\ End(f, i) \in Nat
      /\ Len(f.dat) \in Nat
  BY FileType
<1>2. Start(f, i) \in 1..Len(f.dat) /\ End(f, i) - 1 \in 1..Len(f.dat)
  BY <1>1 DEF HasHeader, InBounds
<1>3. Header(f, i) \in Keys
  BY <1>2, FileType DEF HasHeader, Header
<1> QED BY <1>2, <1>3, HashAssumption, KeysAssumption

\* A search with its cursor in the run is at an entry of the list.
LEMMA InRunBounds ==
    ASSUME TypeOK, Ordered, Keyed, InRun
    PROVE  /\ next \in 1..Len(entries)
           /\ Here \in Ordinals(hci)
           /\ entries[next].hash <= Hash[key]
           /\ Hash[key] \in Nat
<1>1. key \in Keys /\ Hash[key] \in Nat /\ phase # "index"
  BY HashAssumption DEF InRun, Keyed
<1>2. /\ NotGreater(Hash[key]) \in 0..Len(entries)
      /\ \A i \in 1..NotGreater(Hash[key]) : entries[i].hash <= Hash[key]
  BY <1>1, Points
<1>3. next \in Nat \ {0} /\ next <= NotGreater(Hash[key])
  BY DEF TypeOK, InRun
<1>4. next \in 1..NotGreater(Hash[key]) /\ next \in 1..Len(entries)
  BY <1>2, <1>3, EntryType
<1> QED BY <1>1, <1>2, <1>4, EntryType DEF Here

-----------------------------------------------------------------------------
(* What a record adds to a count.                                           *)

LEMMA NothingCountedType ==
    NothingCounted \in [Editions -> [postings : Nat, offsets : SUBSET Nat]]
BY DEF NothingCounted

LEMMA ReadType ==
    ASSUME NEW f \in Files, NEW i \in Ordinals(f), HasHeader(f, i)
    PROVE  /\ ReadRight(f, i) \subseteq 1..Len(f.dat)
           /\ IsFiniteSet(ReadRight(f, i)) /\ Cardinality(ReadRight(f, i)) \in Nat
           /\ ReadWrong(f, i) \in Seq(Nat)
           /\ OffsetsOf(f, i) \subseteq Nat
<1>1. /\ Start(f, i) \in Nat \ {0} /\ End(f, i) \in Nat /\ Len(f.dat) \in Nat
      /\ End(f, i) - 1 \in 1..Len(f.dat)
  BY FileType, HeaderIsKey
<1>2. ReadRight(f, i) \subseteq 1..Len(f.dat)
  BY <1>1 DEF ReadRight
<1>3. IsFiniteSet(ReadRight(f, i)) /\ Cardinality(ReadRight(f, i)) \in Nat
  <2>1. IsFiniteSet(1..Len(f.dat))
    <3>1. 1 \in Int /\ Len(f.dat) \in Int
      BY <1>1
    <3> QED BY <3>1, FS_Interval, Zenon
  <2> QED BY <1>2, <2>1, FS_Subset, FS_CardinalityType
<1>4. ReadWrong(f, i) \in Seq(Nat)
  <2>1. CASE Misfits(f, i) = {}
    BY <2>1 DEF ReadWrong
  <2>2. CASE Misfits(f, i) # {}
    <3>1. Misfits(f, i) \subseteq 1..Len(f.dat) /\ Misfits(f, i) \in SUBSET Nat
      BY <1>1 DEF Misfits
    <3>2. \E p \in Misfits(f, i) : \A q \in Misfits(f, i) : p <= q
      BY <2>2, <3>1, LeastNatural
    <3>3. PICK p \in Misfits(f, i) : ReadWrong(f, i) = f.misread[p][End(f, i) - 1]
      BY <2>2, <3>2, Zenon DEF ReadWrong
    <3> QED BY <1>1, <3>1, <3>3, FileType
  <2> QED BY <2>1, <2>2
<1>5. OffsetsOf(f, i) \subseteq Nat
  <2>1. \A n \in 1..Len(ReadWrong(f, i)) : ReadWrong(f, i)[n] \in Nat
    BY <1>4, ElementsOf
  <2>2. \A q \in ReadRight(f, i) : f.dat[q].offset \in Nat
    BY <1>2, FileType
  <2> QED BY <2>1, <2>2 DEF OffsetsOf
<1> QED BY <1>2, <1>3, <1>4, <1>5

LEMMA CountedWithType ==
    ASSUME NEW f \in Files, NEW i \in Ordinals(f), Counts(f, i),
           NEW so \in [Editions -> [postings : Nat, offsets : SUBSET Nat]]
    PROVE  CountedWith(f, i, so) \in [Editions -> [postings : Nat, offsets : SUBSET Nat]]
<1> DEFINE y == YearOf[Header(f, i)]
           added == Cardinality(ReadRight(f, i)) + Len(ReadWrong(f, i))
           total == [postings |-> so[y].postings + added,
                     offsets |-> so[y].offsets \cup OffsetsOf(f, i)]
<1>1. y \in Editions
  BY DEF Counts
<1>2. added \in Nat /\ OffsetsOf(f, i) \subseteq Nat
  BY ReadType, ElementsOf DEF Counts
<1>3. CountedWith(f, i, so) = [so EXCEPT ![y] = total]
  <2>1. so[y].postings \in Nat
    BY <1>1
  <2>2. Cardinality(ReadRight(f, i)) \in Nat /\ Len(ReadWrong(f, i)) \in Nat
    BY ReadType, ElementsOf DEF Counts
  <2>3. total.postings = so[y].postings + Cardinality(ReadRight(f, i))
                             + Len(ReadWrong(f, i))
    BY <2>1, <2>2
  <2> QED BY <2>3 DEF CountedWith
<1> HIDE DEF y, added
<1>4. total \in [postings : Nat, offsets : SUBSET Nat]
  BY <1>1, <1>2
<1> HIDE DEF total
<1> QED BY <1>1, <1>3, <1>4

\* The records of an undamaged file lie end to end: the cells of each are a
\* header, postings and a closing byte.
LEMMA EndToEnd ==
    ASSUME NEW f \in Files, WellFormed(f), NEW i \in Ordinals(f)
    PROVE  /\ HasHeader(f, i)
           /\ End(f, i) = Limit(f, i + 1) /\ Start(f, i) = Limit(f, i)
           /\ \A p \in (Start(f, i) + 1)..(End(f, i) - 1) :
                  /\ p \in 1..Len(f.dat)
                  /\ f.dat[p].kind = "posting" <=> p < End(f, i) - 1
                  /\ f.dat[p].kind # "header"
<1> DEFINE starts == {f.table[j] : j \in Ordinals(f)}
<1>0. /\ starts = {p \in 1..Len(f.dat) : f.dat[p].kind = "header"}
      /\ \A j, k \in Ordinals(f) : j < k => f.table[j] < f.table[k]
      /\ \A p \in 1..Len(f.dat) :
             f.dat[p].kind = "close" <=>
                 p = Len(f.dat) \/ f.dat[p + 1].kind = "header"
  BY DEF WellFormed
<1>1. /\ Len(f.table) \in Nat /\ Len(f.dat) \in Nat /\ i \in 1..Len(f.table)
      /\ \A j \in 1..Len(f.table) : f.table[j] \in 1..Len(f.dat)
                                   /\ f.dat[f.table[j]].kind = "header"
      /\ \A p \in 1..Len(f.dat) : f.dat[p].kind = "header" =>
             \E j \in 1..Len(f.table) : f.table[j] = p
      /\ \A j, k \in 1..Len(f.table) : j < k => f.table[j] < f.table[k]
      /\ \A p \in 1..Len(f.dat) :
             f.dat[p].kind = "close" <=>
                 p = Len(f.dat) \/ f.dat[p + 1].kind = "header"
  <2>1. \A j \in 1..Len(f.table) : f.table[j] \in 1..Len(f.dat)
                                  /\ f.dat[f.table[j]].kind = "header"
    BY <1>0 DEF Ordinals
  <2>2. \A p \in 1..Len(f.dat) : f.dat[p].kind = "header" =>
            \E j \in 1..Len(f.table) : f.table[j] = p
    <3>1. ASSUME NEW p \in 1..Len(f.dat), f.dat[p].kind = "header"
          PROVE  p \in starts
      BY <1>0, <3>1
    <3> QED BY <3>1, Zenon DEF Ordinals
  <2>3. \A j, k \in 1..Len(f.table) : j < k => f.table[j] < f.table[k]
    BY <1>0, Zenon DEF Ordinals
  <2>4. Len(f.table) \in Nat /\ Len(f.dat) \in Nat /\ i \in 1..Len(f.table)
    BY FileType DEF Ordinals
  <2> QED BY <1>0, <2>1, <2>2, <2>3, <2>4, Zenon
<1> HIDE DEF starts
<1>2. /\ Start(f, i) \in 1..Len(f.dat) /\ f.dat[Start(f, i)].kind = "header"
      /\ Start(f, i) = f.table[i] /\ Start(f, i) = Limit(f, i)
  BY <1>1 DEF Start, Limit
<1>3. /\ End(f, i) \in (Start(f, i) + 1)..(Len(f.dat) + 1)
      /\ End(f, i) = Limit(f, i + 1)
      /\ End(f, i) = Len(f.dat) + 1 \/ f.dat[End(f, i)].kind = "header"
  <2>1. CASE i = Len(f.table)
    BY <1>1, <1>2, <2>1 DEF End, Limit
  <2>2. CASE i # Len(f.table)
    <3>1. i + 1 \in 1..Len(f.table) /\ i < i + 1
      BY <1>1, <2>2
    <3>2. f.table[i] < f.table[i + 1] /\ f.table[i + 1] \in 1..Len(f.dat)
          /\ f.dat[f.table[i + 1]].kind = "header"
      BY <1>1, <3>1
    <3> QED BY <1>1, <1>2, <2>2, <3>1, <3>2 DEF End, Limit, Start
  <2> QED BY <2>1, <2>2
<1>4. HasHeader(f, i)
  BY <1>1, <1>2, <1>3 DEF HasHeader, InBounds
<1>5. ASSUME NEW p \in (Start(f, i) + 1)..(End(f, i) - 1)
      PROVE  p \in 1..Len(f.dat) /\ f.dat[p].kind # "header"
  <2>1. p \in 1..Len(f.dat)
    BY <1>1, <1>2, <1>3
  <2>2. ASSUME f.dat[p].kind = "header" PROVE FALSE
    <3>1. PICK j \in 1..Len(f.table) : f.table[j] = p
      BY <1>1, <2>1, <2>2
    <3>2. i < j
      <4>1. f.table[i] < f.table[j]
        BY <1>1, <1>2, <1>3, <3>1
      <4>2. ~(j < i)
        <5>1. j < i => f.table[j] < f.table[i]
          BY <1>1
        <5> QED BY <1>1, <4>1, <5>1
      <4> QED BY <1>1, <4>1, <4>2
    <3>3. i + 1 \in 1..Len(f.table) /\ End(f, i) = f.table[i + 1]
      BY <1>1, <3>2 DEF End
    <3>4. f.table[i + 1] <= f.table[j]
      <4>1. i + 1 < j => f.table[i + 1] < f.table[j]
        BY <1>1, <3>3
      <4>2. i + 1 < j \/ i + 1 = j
        BY <1>1, <3>2
      <4>3. f.table[i + 1] \in Nat /\ f.table[j] \in Nat
        BY <1>1, <3>3
      <4> QED BY <4>1, <4>2, <4>3
    <3> QED BY <1>1, <1>2, <1>3, <3>1, <3>3, <3>4
  <2> QED BY <2>1, <2>2
<1>6. ASSUME NEW p \in (Start(f, i) + 1)..(End(f, i) - 1)
      PROVE  f.dat[p].kind = "close" <=> p = End(f, i) - 1
  <2>1. p \in 1..Len(f.dat)
    BY <1>5
  <2>2. CASE p = End(f, i) - 1
    <3>1. p = Len(f.dat) \/ f.dat[p + 1].kind = "header"
      BY <1>1, <1>2, <1>3, <2>2
    <3> QED BY <1>0, <2>1, <2>2, <3>1
  <2>3. CASE p # End(f, i) - 1
    <3>1. p + 1 \in (Start(f, i) + 1)..(End(f, i) - 1) /\ p # Len(f.dat)
      <4>1. /\ Start(f, i) \in Nat /\ End(f, i) \in Nat /\ Len(f.dat) \in Nat
            /\ End(f, i) <= Len(f.dat) + 1
        BY <1>1, <1>2, <1>3
      <4> QED BY <4>1, <2>3
    <3>2. f.dat[p + 1].kind # "header"
      BY <1>5, <3>1
    <3> QED BY <1>0, <2>1, <2>3, <3>1, <3>2
  <2> QED BY <2>2, <2>3
<1>7. ASSUME NEW p \in (Start(f, i) + 1)..(End(f, i) - 1)
      PROVE  f.dat[p].kind = "posting" <=> p < End(f, i) - 1
  <2>1. p <= End(f, i) - 1 /\ (p < End(f, i) - 1 <=> p # End(f, i) - 1)
    <3>1. Start(f, i) \in Nat /\ End(f, i) \in Nat
      BY <1>2, <1>3
    <3> QED BY <3>1
  <2>2. f.dat[p].kind \in {"header", "posting", "close"}
    BY <1>5, FileType, Zenon
  <2> QED BY <1>5, <1>6, <2>1, <2>2
<1> QED BY <1>2, <1>3, <1>4, <1>5, <1>7

\* Its postings are read, and nothing else is.
LEMMA ReadAsWritten ==
    ASSUME NEW f \in Files, WellFormed(f), NEW i \in Ordinals(f)
    PROVE  /\ ReadWrong(f, i) = <<>>
           /\ OffsetsOf(f, i) = {f.dat[q].offset : q \in ReadRight(f, i)}
           /\ \A q \in 1..Len(f.dat) :
                  q \in ReadRight(f, i) <=>
                      /\ Limit(f, i) <= q /\ q < Limit(f, i + 1)
                      /\ f.dat[q].kind = "posting"
<1>1. /\ End(f, i) = Limit(f, i + 1) /\ Start(f, i) = Limit(f, i)
      /\ \A p \in (Start(f, i) + 1)..(End(f, i) - 1) :
             /\ p \in 1..Len(f.dat)
             /\ f.dat[p].kind = "posting" <=> p < End(f, i) - 1
             /\ f.dat[p].kind # "header"
      /\ HasHeader(f, i)
  BY EndToEnd
<1>2. Start(f, i) \in Nat /\ End(f, i) \in Nat /\ Len(f.dat) \in Nat
  BY FileType
<1>3. Misfits(f, i) = {}
  BY <1>1 DEF Misfits
<1>4. ReadWrong(f, i) = <<>>
  BY <1>3 DEF ReadWrong
<1>5. OffsetsOf(f, i) = {f.dat[q].offset : q \in ReadRight(f, i)}
  BY <1>4 DEF OffsetsOf
<1>6. ReadRight(f, i) = (Start(f, i) + 1)..(End(f, i) - 2)
  BY <1>3 DEF ReadRight
<1>7. f.dat[Start(f, i)].kind # "posting"
  BY <1>1 DEF HasHeader
<1>8. ASSUME NEW q \in 1..Len(f.dat)
      PROVE  q \in ReadRight(f, i) <=>
                 /\ Limit(f, i) <= q /\ q < Limit(f, i + 1)
                 /\ f.dat[q].kind = "posting"
  <2>1. CASE q \in (Start(f, i) + 1)..(End(f, i) - 1)
    <3>1. q \in ReadRight(f, i) <=> q < End(f, i) - 1
      BY <1>2, <1>6, <2>1
    <3> QED BY <1>1, <1>2, <2>1, <3>1
  <2>2. CASE q \notin (Start(f, i) + 1)..(End(f, i) - 1)
    <3>1. q = Start(f, i) \/ q < Start(f, i) \/ q >= End(f, i)
      BY <1>2, <2>2
    <3>2. q \notin ReadRight(f, i)
      BY <1>2, <1>6, <3>1
    <3> QED BY <1>1, <1>2, <1>7, <3>1, <3>2
  <2> QED BY <2>1, <2>2
<1> QED BY <1>4, <1>5, <1>8

\* The nearest header of a posting is that of its record.
LEMMA OwnPostings ==
    ASSUME NEW f \in Files, WellFormed(f), NEW i \in Ordinals(f),
           NEW q \in ReadRight(f, i), NEW y
    PROVE  q \in PostingsOf(f, y) <=>
               Header(f, i) \in CallKeys /\ YearOf[Header(f, i)] = y
<1>1. /\ q \in 1..Len(f.dat) /\ f.dat[q].kind = "posting"
      /\ Limit(f, i) <= q /\ q < Limit(f, i + 1)
  BY EndToEnd, ReadType, ReadAsWritten
<1>2. /\ Limit(f, i) = Start(f, i) /\ Limit(f, i + 1) = End(f, i)
      /\ HasHeader(f, i)
      /\ \A p \in (Start(f, i) + 1)..(End(f, i) - 1) : f.dat[p].kind # "header"
  BY EndToEnd
<1>3. /\ Start(f, i) \in Nat \ {0} /\ End(f, i) \in Nat /\ Len(f.dat) \in Nat
  BY FileType
<1>4. /\ Start(f, i) \in 1..q /\ f.dat[Start(f, i)].kind = "header"
      /\ \A r \in (Start(f, i) + 1)..q : f.dat[r].kind # "header"
  BY <1>1, <1>2, <1>3 DEF HasHeader
<1>5. ASSUME NEW p \in 1..q, f.dat[p].kind = "header",
             \A r \in (p + 1)..q : f.dat[r].kind # "header"
      PROVE  p = Start(f, i)
  BY <1>1, <1>3, <1>4, <1>5
<1> QED BY <1>1, <1>4, <1>5 DEF PostingsOf, Header

\* What lies before the next record is what lies before this one and, if the
\* record counts for the year, its postings.
LEMMA PostingsGrow ==
    ASSUME NEW f \in Files, WellFormed(f), NEW i \in Ordinals(f), NEW y
    PROVE  LET mine == IF Header(f, i) \in CallKeys /\ YearOf[Header(f, i)] = y
                       THEN ReadRight(f, i) ELSE {}
           IN  /\ PostingsBefore(f, y, i + 1) = PostingsBefore(f, y, i) \cup mine
               /\ PostingsBefore(f, y, i) \cap ReadRight(f, i) = {}
<1>1. /\ Limit(f, i) \in Nat /\ Limit(f, i + 1) \in Nat
      /\ Limit(f, i) <= Limit(f, i + 1)
  BY EndToEnd, FileType DEF HasHeader
<1>2. /\ ReadRight(f, i) \subseteq 1..Len(f.dat) /\ Len(f.dat) \in Nat
      /\ PostingsOf(f, y) \subseteq 1..Len(f.dat)
  BY EndToEnd, ReadType, FileType DEF PostingsOf
<1>3. \A q \in ReadRight(f, i) :
          /\ Limit(f, i) <= q /\ q < Limit(f, i + 1)
          /\ q \in PostingsOf(f, y) <=>
                 Header(f, i) \in CallKeys /\ YearOf[Header(f, i)] = y
  BY <1>2, ReadAsWritten, OwnPostings
<1>4. \A q \in PostingsOf(f, y) :
          Limit(f, i) <= q /\ q < Limit(f, i + 1) => q \in ReadRight(f, i)
  BY <1>2, ReadAsWritten DEF PostingsOf
<1>5. PostingsBefore(f, y, i) \cap ReadRight(f, i) = {}
  BY <1>1, <1>2, <1>3 DEF PostingsBefore
<1>6. CASE Header(f, i) \in CallKeys /\ YearOf[Header(f, i)] = y
  <2>1. ReadRight(f, i) \subseteq PostingsOf(f, y)
    BY <1>3, <1>6
  <2>2. PostingsBefore(f, y, i + 1) = PostingsBefore(f, y, i) \cup ReadRight(f, i)
    BY <1>1, <1>2, <1>3, <1>4, <2>1 DEF PostingsBefore
  <2> QED BY <1>5, <1>6, <2>2
<1>7. CASE ~(Header(f, i) \in CallKeys /\ YearOf[Header(f, i)] = y)
  <2>1. ReadRight(f, i) \cap PostingsOf(f, y) = {}
    BY <1>3, <1>7
  <2>2. PostingsBefore(f, y, i + 1) = PostingsBefore(f, y, i)
    BY <1>1, <1>2, <1>4, <2>1 DEF PostingsBefore
  <2> QED BY <1>5, <1>7, <2>2
<1> QED BY <1>6, <1>7

\* No posting lies before the first record.
LEMMA NoneBeforeFirst ==
    ASSUME NEW f \in Files, WellFormed(f), NEW y
    PROVE  PostingsBefore(f, y, 1) = {}
<1> SUFFICES ASSUME NEW q \in PostingsBefore(f, y, 1) PROVE FALSE
  OBVIOUS
<1>1. /\ q \in 1..Len(f.dat) /\ Len(f.dat) \in Nat /\ Len(f.table) \in Nat
      /\ q < Limit(f, 1)
  BY FileType DEF PostingsBefore, PostingsOf
<1>2. PICK p \in 1..q : f.dat[p].kind = "header"
  BY DEF PostingsBefore, PostingsOf
<1>3. PICK j \in Ordinals(f) : f.table[j] = p
  BY <1>1, <1>2 DEF WellFormed
<1>4. j \in 1..Len(f.table) /\ 1 \in 1..Len(f.table)
  BY <1>1, <1>3 DEF Ordinals
<1>5. f.table[1] <= f.table[j] /\ Limit(f, 1) = f.table[1]
  <2>1. f.table[1] \in Nat /\ f.table[j] \in Nat
    BY <1>4, FileType DEF Start, Ordinals
  <2>2. j = 1 \/ f.table[1] < f.table[j]
    BY <1>4 DEF WellFormed, Ordinals
  <2> QED BY <1>4, <2>1, <2>2 DEF Limit, Start
<1> QED BY <1>1, <1>2, <1>3, <1>5, <1>4, FileType DEF Start, Ordinals

-----------------------------------------------------------------------------
(* Types.                                                                   *)

LEMMA TypeKept ==
    ASSUME TypeOK, Ordered, Keyed, [Next]_vars
    PROVE  TypeOK'
<1>1. CASE PassRecord
  BY <1>1 DEF PassRecord, TypeOK
<1>2. CASE IndexRecord
  <2>1. next \in Ordinals(hci) /\ hci \in Files
    BY <1>2 DEF IndexRecord, Ordinals, TypeOK
  <2>2. HasHeader(hci, next)
    BY <1>2 DEF IndexRecord
  <2>3. Hash[Header(hci, next)] \in Nat /\ YearOf[Header(hci, next)] \in Nat
    BY <2>1, <2>2, HeaderIsKey
  <2>4. [hash |-> Hash[Header(hci, next)], index |-> next]
            \in [hash : Nat, index : Ordinals(hci)]
    BY <2>1, <2>3
  <2>5. entries' \in Seq([hash : Nat, index : Ordinals(hci)])
    BY <1>2, <2>4 DEF IndexRecord, TypeOK
  <2>6. years' \in Seq(Nat)
    BY <1>2, <2>3 DEF IndexRecord, TypeOK
  <2> QED BY <1>2, <2>5, <2>6 DEF IndexRecord, TypeOK
<1>3. CASE Opened
  <2>1. entries' \in Seq([hash : Nat, index : Ordinals(hci)])
    <3> DEFINE held == {entries[i] : i \in 1..Len(entries)}
    <3>1. entries' \in [1..Len(entries) -> held]
      BY <1>3 DEF Opened, SortedEntries
    <3>2. held \subseteq [hash : Nat, index : Ordinals(hci)]
      BY EntryType
    <3>3. Len(entries) \in Nat
      BY EntryType
    <3> DEFINE Entry == [hash : Nat, index : Ordinals(hci)]
    <3> HIDE DEF held, Entry
    <3>4. entries' \in [1..Len(entries) -> Entry]
      BY <3>1, <3>2 DEF Entry
    <3>5. entries' \in Seq(Entry)
      BY <3>3, <3>4, FunctionIsSequence
    <3> QED BY <3>5 DEF Entry
  <2>2. years' \in Seq(Nat)
    <3> DEFINE held == {years[i] : i \in 1..Len(years)}
    <3>1. PICK n \in 0..Len(years) : years' \in [1..n -> held]
      BY <1>3 DEF Opened, SortedYears
    <3>2. held \subseteq Nat /\ n \in Nat
      BY <3>1 DEF TypeOK
    <3> HIDE DEF held
    <3>3. years' \in [1..n -> Nat]
      BY <3>1, <3>2
    <3> QED BY <3>2, <3>3, FunctionIsSequence
  <2> QED BY <1>3, <2>1, <2>2 DEF Opened, TypeOK
<1>4. ASSUME NEW k \in Keys, Ask(k) PROVE TypeOK'
  <2>1. phase # "index" /\ Hash[k] \in Nat
    BY <1>4, HashAssumption DEF Ask
  <2>2. Smaller(Hash[k]) \in Nat
    <3>1. Smaller(Hash[k]) \in 0..Len(entries)
      BY <2>1, Points
    <3> HIDE DEF Smaller
    <3> QED BY <3>1, EntryType
  <2>3. next' \in Nat \ {0}
    BY <1>4, <2>2 DEF Ask
  <2> QED BY <1>4, <2>3 DEF Ask, TypeOK
<1>5. CASE Visit
  <2>1. Here \in Ordinals(hci)
    BY <1>5, InRunBounds DEF Visit
  <2>2. visited' \in Seq(Ordinals(hci))
    BY <1>5, <2>1 DEF Visit, TypeOK
  <2> QED BY <1>5, <2>2 DEF Visit, TypeOK
<1>6. CASE Collision
  BY <1>6 DEF Collision, TypeOK
<1>7. CASE Answered
  BY <1>7 DEF Answered, TypeOK
<1>8. CASE Count
  BY <1>8, NothingCountedType DEF Count, TypeOK
<1>9. CASE CountRecord
  <2>1. /\ next \in Ordinals(hci) /\ hci \in Files /\ next' = next + 1
        /\ UNCHANGED <<hci, phase, entries, years, key, visited>>
    BY <1>9 DEF CountRecord, Ordinals, TypeOK
  <2>2. CASE Counts(hci, next)
    <3>1. counted' = CountedWith(hci, next, counted)
      BY <1>9, <2>2 DEF CountRecord
    <3>2. counted' \in [Editions -> [postings : Nat, offsets : SUBSET Nat]]
      BY <2>1, <2>2, <3>1, CountedWithType DEF TypeOK
    <3> QED BY <2>1, <3>2 DEF TypeOK
  <2>3. CASE ~Counts(hci, next)
    BY <1>9, <2>1, <2>3 DEF CountRecord, TypeOK
  <2> QED BY <2>2, <2>3
<1>10. CASE Counted
  BY <1>10 DEF Counted, TypeOK
<1>11. CASE UNCHANGED vars
  BY <1>11 DEF vars, TypeOK
<1> QED
  BY <1>1, <1>2, <1>3, <1>4, <1>5, <1>6, <1>7, <1>8, <1>9, <1>10, <1>11
  DEF Next

LEMMA OrderKept ==
    ASSUME TypeOK, Ordered, Keyed, [Next]_vars
    PROVE  Ordered' /\ Keyed'
<1>1. CASE Opened
  <2>1. /\ phase' = "idle"
        /\ entries' \in SortedEntries(entries)
        /\ years' \in SortedYears(years)
    BY <1>1 DEF Opened
  <2>2. Len(entries') = Len(entries)
    <3>1. entries' \in [1..Len(entries) -> {entries[i] : i \in 1..Len(entries)}]
      BY <2>1 DEF SortedEntries
    <3> QED BY <3>1, EntryType
  <2>3. \A m, n \in 1..Len(entries') : m < n => Before(entries'[m], entries'[n])
    BY <2>1, <2>2 DEF SortedEntries
  <2>4. PICK n \in 0..Len(years) :
            /\ years' \in [1..n -> {years[i] : i \in 1..Len(years)}]
            /\ \A i, j \in 1..n : i < j => years'[i] < years'[j]
    BY <2>1 DEF SortedYears
  <2>5. Len(years') = n
    BY <2>4 DEF TypeOK
  <2> QED BY <2>1, <2>3, <2>4, <2>5 DEF Ordered, Keyed
<1>2. ASSUME NEW k \in Keys, Ask(k) PROVE Ordered' /\ Keyed'
  BY <1>2 DEF Ask, Ordered, Keyed
<1>3. CASE PassRecord \/ IndexRecord
  BY <1>3 DEF PassRecord, IndexRecord, Ordered, Keyed
<1>4. CASE Visit \/ Collision \/ Answered
  BY <1>4 DEF Visit, Collision, Answered, InRun, Ordered, Keyed
<1>5. CASE Count \/ CountRecord \/ Counted \/ UNCHANGED vars
  BY <1>5 DEF Count, CountRecord, Counted, vars, Ordered, Keyed
<1> QED BY <1>1, <1>2, <1>3, <1>4, <1>5 DEF Next

-----------------------------------------------------------------------------
(* What the list holds.                                                     *)

\* What a sequence holds after an element is appended to it.
LEMMA ValuesAppended ==
    ASSUME NEW S, NEW s \in Seq(S), NEW e
    PROVE  /\ Len(Append(s, e)) = Len(s) + 1
           /\ \A n \in 1..Len(s) : Append(s, e)[n] = s[n]
           /\ Append(s, e)[Len(s) + 1] = e
OBVIOUS

LEMMA IndexedKept ==
    ASSUME TypeOK, Ordered, Keyed, Indexed, [Next]_vars
    PROVE  Indexed'
<1>0. Len(entries) \in Nat /\ Len(years) \in Nat /\ next \in Nat
  BY EntryType DEF TypeOK
<1>1. CASE PassRecord
  <2>1. /\ UNCHANGED <<hci, phase, entries, years, key, visited>>
        /\ next' = next + 1 /\ phase = "index" /\ ~HasHeader(hci, next)
        /\ next <= Len(hci.table)
    BY <1>1 DEF PassRecord
  <2>2. Indexable' = Indexable /\ next \notin Indexable
    BY <2>1 DEF Indexable
  <2>3. \A i \in Indexable : i \in Nat
    BY DEF Indexable, Ordinals
  <2>4. Read' = Read
    BY <2>1, <2>2, <2>3, <1>0 DEF Read
  <2>5. Pushed' = Pushed /\ YearSet' = YearSet
    BY <2>1 DEF Pushed, YearSet
  <2>6. YearsRead' = YearsRead
    BY <2>1, <2>4 DEF YearsRead
  <2>7. Len(hci.table) \in Nat
    BY FilesAssumption DEF TypeOK, IsFile
  <2> QED BY <2>1, <2>4, <2>5, <2>6, <2>7, <1>0 DEF Indexed
<1>2. CASE IndexRecord
  <2> DEFINE e == [hash |-> Hash[Header(hci, next)], index |-> next]
             y == YearOf[Header(hci, next)]
  <2>1. /\ UNCHANGED <<hci, phase, key, visited>>
        /\ entries' = Append(entries, e)
        /\ years' = IF y = NoYear THEN years ELSE Append(years, y)
        /\ next' = next + 1 /\ phase = "index" /\ HasHeader(hci, next)
        /\ next <= Len(hci.table)
    BY <1>2 DEF IndexRecord
  <2>2. Len(hci.table) \in Nat
    BY FilesAssumption DEF TypeOK, IsFile
  <2>3. next \in Ordinals(hci)
    BY <2>1, <2>2 DEF Ordinals, TypeOK
  <2>4. Indexable' = Indexable /\ next \in Indexable
    BY <2>1, <2>3 DEF Indexable
  <2>5. \A i \in Indexable : i \in Nat
    BY DEF Indexable, Ordinals
  <2>6. Read' = Read \cup {next}
    <3>1. Read' = {i \in Indexable : i < next + 1}
      BY <2>1, <2>4 DEF Read
    <3>2. Read = {i \in Indexable : i < next}
      BY <2>1 DEF Read
    <3>3. \A i \in Indexable : i < next + 1 <=> i < next \/ i = next
      BY <2>5, <1>0
    <3>4. Read' \subseteq Read \cup {next}
      BY <3>1, <3>2, <3>3
    <3>5. Read \subseteq Read'
      BY <3>1, <3>2, <3>3
    <3>6. next \in Read'
      BY <3>1, <3>3, <2>4
    <3> QED BY <3>4, <3>5, <3>6
  <2>7. /\ Len(entries') = Len(entries) + 1
        /\ \A n \in 1..Len(entries) : entries'[n] = entries[n]
        /\ entries'[Len(entries) + 1] = e
    BY <2>1, ValuesAppended DEF TypeOK
  <2>8. e.index = next /\ e.hash = Hash[Header(hci, next)]
    OBVIOUS
  <2>9. Pushed' = Pushed \cup {next}
    <3> HIDE DEF e
    <3> QED BY <2>7, <2>8, <1>0 DEF Pushed
  <2>10. \A n \in 1..Len(entries') :
             entries'[n].hash = Hash[Header(hci, entries'[n].index)]
    <3> HIDE DEF e
    <3>1. ASSUME NEW n \in 1..Len(entries')
          PROVE  entries'[n].hash = Hash[Header(hci, entries'[n].index)]
      <4>1. CASE n \in 1..Len(entries)
        BY <4>1, <2>7 DEF Indexed
      <4>2. CASE n = Len(entries) + 1
        BY <4>2, <2>7, <2>8
      <4> QED BY <4>1, <4>2, <2>7, <1>0
    <3> QED BY <3>1
  <2>11. YearSet' = YearsRead'
    <3>0. Header(hci, next)' = Header(hci, next') /\ hci' = hci
      BY <2>1 DEF Header
    <3>1. YearsRead' = YearsRead \cup ({y} \ {NoYear})
      BY <2>1, <2>6 DEF YearsRead
    <3>2. CASE y = NoYear
      <4>1. YearSet' = YearSet
        BY <2>1, <3>2 DEF YearSet
      <4> QED BY <3>1, <3>2, <4>1 DEF Indexed
    <3>3. CASE y # NoYear
      <4>1. years' = Append(years, y)
        BY <2>1, <3>3
      <4> HIDE DEF y
      <4>2. /\ Len(years') = Len(years) + 1
            /\ \A n \in 1..Len(years) : years'[n] = years[n]
            /\ years'[Len(years) + 1] = y
        BY <4>1, ValuesAppended DEF TypeOK
      <4>3. YearSet' = YearSet \cup {y}
        BY <4>2, <1>0 DEF YearSet
      <4> QED BY <3>1, <3>3, <4>3 DEF Indexed
    <3> QED BY <3>2, <3>3
  <2>12. Pushed' = Read'
    BY <2>6, <2>9 DEF Indexed
  <2>13. \A n \in 1..Len(entries') :
             entries'[n].hash = Hash[Header(hci', entries'[n].index)]
    BY <2>1, <2>10
  <2>14. /\ next' <= Len(hci'.table) + 1
         /\ key' = NoKey /\ visited' = <<>>
    BY <2>1, <2>2, <1>0 DEF Indexed
  <2> QED BY <2>11, <2>12, <2>13, <2>14 DEF Indexed
<1>3. CASE Opened
  <2>1. /\ UNCHANGED <<hci, key, visited>>
        /\ phase = "index" /\ next > Len(hci.table) /\ phase' = "idle"
        /\ entries' \in SortedEntries(entries)
        /\ years' \in SortedYears(years)
    BY <1>3 DEF Opened
  <2>2. Len(hci.table) \in Nat
    BY FilesAssumption DEF TypeOK, IsFile
  <2>3. Indexable' = Indexable
    BY <2>1 DEF Indexable
  <2>4. Read' = Read
    BY <2>1, <2>2, <2>3, <1>0 DEF Read, Indexable, Ordinals
  <2>5. /\ entries' \in [1..Len(entries) -> {entries[i] : i \in 1..Len(entries)}]
        /\ {entries'[i] : i \in 1..Len(entries)}
               = {entries[i] : i \in 1..Len(entries)}
    BY <2>1 DEF SortedEntries
  <2>6. Len(entries') = Len(entries)
    BY <2>5, <1>0
  <2>7. \A n \in 1..Len(entries') :
            \E m \in 1..Len(entries) : entries'[n] = entries[m]
    BY <2>5, <2>6
  <2>8. \A m \in 1..Len(entries) :
            \E n \in 1..Len(entries') : entries'[n] = entries[m]
    BY <2>5, <2>6
  <2>9. Pushed' = Pushed
    BY <2>7, <2>8 DEF Pushed
  <2>10. \A n \in 1..Len(entries') :
             entries'[n].hash = Hash[Header(hci', entries'[n].index)]
    BY <2>1, <2>7 DEF Indexed
  <2>11. PICK n \in 0..Len(years) :
            /\ years' \in [1..n -> {years[i] : i \in 1..Len(years)}]
            /\ {years'[i] : i \in 1..n} = {years[i] : i \in 1..Len(years)}
    BY <2>1 DEF SortedYears
  <2>12. Len(years') = n
    BY <2>11, <1>0
  <2>13. YearSet' = YearSet
    BY <2>11, <2>12 DEF YearSet
  <2>14. YearsRead' = YearsRead
    BY <2>1, <2>4 DEF YearsRead
  <2>15. Pushed' = Read' /\ YearSet' = YearsRead'
    BY <2>4, <2>9, <2>13, <2>14 DEF Indexed
  <2> QED BY <2>1, <2>10, <2>15 DEF Indexed
<1>4. ASSUME UNCHANGED <<hci, entries, years>>, phase # "index", phase' # "index"
      PROVE  Indexed'
  <2>1. Indexable' = Indexable /\ Pushed' = Pushed /\ YearSet' = YearSet
    BY <1>4 DEF Indexable, Pushed, YearSet
  <2>2. Read' = Read
    BY <1>4, <2>1 DEF Read
  <2>3. YearsRead' = YearsRead
    BY <1>4, <2>2 DEF YearsRead
  <2> QED BY <1>4, <2>1, <2>2, <2>3 DEF Indexed
<1>5. ASSUME NEW k \in Keys, Ask(k) PROVE Indexed'
  BY <1>4, <1>5 DEF Ask
<1>6. CASE Visit \/ Collision \/ Answered
  BY <1>4, <1>6 DEF Visit, Collision, Answered, InRun
<1>7. CASE Count \/ CountRecord \/ Counted
  BY <1>4, <1>7 DEF Count, CountRecord, Counted
<1>8. CASE UNCHANGED vars
  <2>1. /\ UNCHANGED <<hci, phase, next, entries, years, key, visited>>
    BY <1>8 DEF vars
  <2>2. Indexable' = Indexable /\ Pushed' = Pushed /\ YearSet' = YearSet
    BY <2>1 DEF Indexable, Pushed, YearSet
  <2>3. Read' = Read
    BY <2>1, <2>2 DEF Read
  <2>4. YearsRead' = YearsRead
    BY <2>1, <2>3 DEF YearsRead
  <2> QED BY <2>1, <2>2, <2>3, <2>4 DEF Indexed
<1> QED BY <1>1, <1>2, <1>3, <1>5, <1>6, <1>7, <1>8 DEF Next

-----------------------------------------------------------------------------
(* What a search has visited.                                               *)

\* Once open, the records of a key are those at its positions in the list.
LEMMA RecordsAreOwn ==
    ASSUME Indexed, phase # "index", NEW k
    PROVE  RecordsOf(hci, k) = {entries[n].index : n \in Own(k)}
<1>1. Pushed = Indexable
  BY DEF Indexed, Read
<1>2. RecordsOf(hci, k) = {i \in Indexable : Header(hci, i) = k}
  BY DEF RecordsOf, Indexable
<1> QED BY <1>1, <1>2 DEF Pushed, Own

\* A position of a key holds the key's hash.
LEMMA OwnHash ==
    ASSUME Indexed, NEW k, NEW n \in Own(k)
    PROVE  n \in 1..Len(entries) /\ entries[n].hash = Hash[k]
BY DEF Indexed, Own

\* No record has the key NoKey.
LEMMA NoneOfNoKey == ASSUME TypeOK PROVE RecordsOf(hci, NoKey) = {}
BY HeaderIsKey, KeysAssumption DEF TypeOK, RecordsOf

LEMMA SearchingKept ==
    ASSUME TypeOK, Ordered, Keyed, Indexed, Searching, [Next]_vars
    PROVE  Searching'
<1>0. Len(entries) \in Nat /\ next \in Nat \ {0}
  BY EntryType DEF TypeOK
<1>1. CASE PassRecord \/ IndexRecord
  <2>1. phase' = "index" /\ UNCHANGED visited
    BY <1>1 DEF PassRecord, IndexRecord
  <2> QED BY <2>1 DEF Searching
<1>2. CASE Opened
  <2>1. phase = "index" /\ phase' = "idle" /\ UNCHANGED <<hci, key, visited>>
    BY <1>2 DEF Opened
  <2>2. key = NoKey /\ visited = <<>>
    BY <2>1 DEF Indexed
  <2>3. Visited' = {}
    BY <2>1, <2>2 DEF Visited
  <2>4. RecordsOf(hci, key)' = {}
    BY <2>1, <2>2, NoneOfNoKey
  <2> QED BY <2>1, <2>2, <2>3, <2>4 DEF Searching
<1>3. ASSUME NEW k \in Keys, Ask(k) PROVE Searching'
  <2>1. /\ phase = "idle" /\ phase' = "visit" /\ key' = k /\ visited' = <<>>
        /\ next' = Smaller(Hash[k]) + 1
        /\ UNCHANGED <<hci, entries, years>>
    BY <1>3 DEF Ask
  <2>2. Hash[k] \in Nat
    BY HashAssumption
  <2>3. /\ Smaller(Hash[k]) \in 0..Len(entries)
        /\ \A i \in 1..Smaller(Hash[k]) : entries[i].hash < Hash[k]
    BY <2>1, <2>2, Points
  <2>4. ASSUME NEW m \in Own(k), m < next' PROVE FALSE
    <3>1. m \in 1..Len(entries) /\ entries[m].hash = Hash[k]
      BY OwnHash
    <3>2. m \in 1..Smaller(Hash[k])
      BY <2>1, <2>3, <2>4, <3>1
    <3> QED BY <2>2, <2>3, <3>1, <3>2
  <2>5. Own(key)' = Own(k)
    BY <2>1 DEF Own
  <2>6. Visited' = {}
    BY <2>1 DEF Visited
  <2>7. {entries[n].index : n \in {m \in Own(key) : m < next}}' = {}
    BY <2>4, <2>5
  <2>8. next' <= Len(entries') + 1
    BY <2>1, <2>3, <1>0
  <2>9. Visited' = {entries[n].index : n \in {m \in Own(key) : m < next}}'
    BY <2>6, <2>7
  <2>10. \A m, n \in 1..Len(visited') : m < n => visited'[m] < visited'[n]
    BY <2>1
  <2> QED BY <2>1, <2>8, <2>9, <2>10 DEF Searching
<1>4. CASE Visit
  <2>1. /\ InRun /\ Header(hci, Here) = key
        /\ visited' = Append(visited, Here) /\ next' = next + 1
        /\ UNCHANGED <<hci, phase, entries, years, key>>
    BY <1>4 DEF Visit
  <2>2. phase = "visit" /\ phase # "index"
    BY <2>1 DEF InRun
  <2>3. next \in 1..Len(entries) /\ Hash[key] \in Nat
    BY <2>1, InRunBounds
  <2>4. next \in Own(key) /\ Here = entries[next].index
    BY <2>1, <2>3 DEF Own, Here
  <2>5. Len(visited) \in Nat
    BY DEF TypeOK
  <2>6. /\ Len(visited') = Len(visited) + 1
        /\ \A n \in 1..Len(visited) : visited'[n] = visited[n]
        /\ visited'[Len(visited) + 1] = Here
    BY <2>1, ValuesAppended DEF TypeOK
  <2>7. Visited' = Visited \cup {Here}
    BY <2>5, <2>6 DEF Visited
  <2>8. Own(key)' = Own(key)
    BY <2>1 DEF Own
  <2>9. \A m \in Own(key) : m < next' <=> m < next \/ m = next
    BY <2>1, <1>0 DEF Own
  <2>10. {entries[n].index : n \in {m \in Own(key) : m < next}}'
            = {entries[n].index : n \in {m \in Own(key) : m < next}} \cup {Here}
    BY <2>1, <2>4, <2>8, <2>9
  <2>11. Visited' = {entries[n].index : n \in {m \in Own(key) : m < next}}'
    BY <2>2, <2>7, <2>10 DEF Searching
  <2>12. \A v \in Visited : v < Here
    <3> SUFFICES ASSUME NEW v \in Visited PROVE v < Here
      OBVIOUS
    <3>1. PICK n \in Own(key) : n < next /\ v = entries[n].index
      BY <2>2 DEF Searching
    <3>2. n \in 1..Len(entries) /\ entries[n].hash = Hash[key]
      BY OwnHash
    <3>3. entries[next].hash = Hash[key]
      BY <2>4, OwnHash
    <3>4. Before(entries[n], entries[next])
      BY <2>2, <2>3, <3>1, <3>2 DEF Ordered
    <3> QED BY <2>3, <2>4, <3>1, <3>2, <3>3, <3>4 DEF Before
  <2>13. ASSUME NEW m \in 1..Len(visited'), NEW n \in 1..Len(visited'), m < n
         PROVE  visited'[m] < visited'[n]
    <3>1. m \in 1..Len(visited)
      BY <2>5, <2>6, <2>13
    <3>2. CASE n \in 1..Len(visited)
      BY <2>6, <2>13, <3>1, <3>2 DEF Searching
    <3>3. CASE n = Len(visited) + 1
      <4>1. visited[m] \in Visited
        BY <3>1 DEF Visited
      <4> QED BY <2>6, <2>12, <3>1, <3>3, <4>1
    <3> QED BY <2>5, <2>6, <3>2, <3>3
  <2>14. next' <= Len(entries') + 1
    BY <2>1, <2>3, <1>0
  <2> QED BY <2>1, <2>2, <2>11, <2>13, <2>14 DEF Searching
<1>5. CASE Collision
  <2>1. /\ InRun /\ Header(hci, Here) # key /\ next' = next + 1
        /\ UNCHANGED <<hci, phase, entries, years, key, visited>>
    BY <1>5 DEF Collision
  <2>2. phase = "visit" /\ next \in 1..Len(entries)
    BY <2>1, InRunBounds DEF InRun
  <2>3. next \notin Own(key)
    BY <2>1 DEF Own, Here
  <2>4. Own(key)' = Own(key) /\ Visited' = Visited
    BY <2>1 DEF Own, Visited
  <2>5. \A m \in Own(key) : m < next' <=> m < next
    BY <2>1, <2>3, <1>0 DEF Own
  <2>6. Visited' = {entries[n].index : n \in {m \in Own(key) : m < next}}'
    BY <2>1, <2>2, <2>4, <2>5 DEF Searching
  <2>7. next' <= Len(entries') + 1
    BY <2>1, <2>2, <1>0
  <2> QED BY <2>1, <2>2, <2>6, <2>7 DEF Searching
<1>6. CASE Answered
  <2>1. /\ phase = "visit" /\ next > NotGreater(Hash[key]) /\ phase' = "idle"
        /\ UNCHANGED <<hci, entries, years, key, visited>>
    BY <1>6 DEF Answered
  <2>2. key \in Keys /\ Hash[key] \in Nat /\ phase # "index"
    BY <2>1, HashAssumption DEF Keyed
  <2>3. /\ NotGreater(Hash[key]) \in 0..Len(entries)
        /\ \A i \in (NotGreater(Hash[key]) + 1)..Len(entries) :
               entries[i].hash > Hash[key]
    BY <2>2, Points
  <2>4. ASSUME NEW m \in Own(key) PROVE m < next
    <3>1. m \in 1..Len(entries) /\ entries[m].hash = Hash[key]
      BY OwnHash
    <3>2. m \notin (NotGreater(Hash[key]) + 1)..Len(entries)
      BY <2>2, <2>3, <3>1
    <3>3. \A g \in Nat : m \notin (g + 1)..Len(entries) /\ next > g => m < next
      BY <3>1, <1>0
    <3>4. NotGreater(Hash[key]) \in Nat
      BY <2>3, <1>0
    <3> QED BY <2>1, <3>2, <3>3, <3>4
  <2>5. Visited = {entries[n].index : n \in Own(key)}
    <3>1. {m \in Own(key) : m < next} = Own(key)
      BY <2>4
    <3> QED BY <2>1, <3>1 DEF Searching
  <2>6. Visited = RecordsOf(hci, key)
    BY <2>2, <2>5, RecordsAreOwn
  <2>7. Visited' = RecordsOf(hci', key')
    BY <2>1, <2>6 DEF Visited
  <2> QED BY <2>1, <2>7 DEF Searching
<1>7. CASE Count
  <2>1. phase' = "count" /\ key' = NoKey /\ visited' = <<>> /\ hci' = hci
    BY <1>7 DEF Count
  <2>2. RecordsOf(hci', key') = {} /\ Visited' = {}
    BY <2>1, NoneOfNoKey DEF Visited
  <2> QED BY <2>1, <2>2 DEF Searching
<1>8. CASE CountRecord \/ Counted
  <2>1. /\ phase = "count" /\ phase' \in {"idle", "count"}
        /\ UNCHANGED <<hci, key, visited>>
    BY <1>8 DEF CountRecord, Counted
  <2>2. Visited' = Visited /\ RecordsOf(hci', key') = RecordsOf(hci, key)
    BY <2>1 DEF Visited
  <2> QED BY <2>1, <2>2 DEF Searching
<1>9. CASE UNCHANGED vars
  BY <1>9 DEF vars, Searching, Visited, Own
<1> QED BY <1>1, <1>2, <1>3, <1>4, <1>5, <1>6, <1>7, <1>8, <1>9 DEF Next

\* A record adds to its own edition, and to no other.
LEMMA CountedOwn ==
    ASSUME NEW f, NEW i, YearOf[Header(f, i)] \in Editions,
           NEW so \in [Editions -> [postings : Nat, offsets : SUBSET Nat]]
    PROVE  LET y == YearOf[Header(f, i)]
               new == CountedWith(f, i, so)
           IN  /\ new[y].postings = so[y].postings + Cardinality(ReadRight(f, i))
                                        + Len(ReadWrong(f, i))
               /\ new[y].offsets = so[y].offsets \cup OffsetsOf(f, i)
BY DEF CountedWith

LEMMA CountedOther ==
    ASSUME NEW f, NEW i, NEW y \in Editions, YearOf[Header(f, i)] # y,
           NEW so \in [Editions -> [postings : Nat, offsets : SUBSET Nat]]
    PROVE  CountedWith(f, i, so)[y] = so[y]
BY DEF CountedWith

LEMMA CountingKept ==
    ASSUME TypeOK, Counting, [Next]_vars
    PROVE  Counting'
<1>0. /\ hci \in Files /\ Len(hci.table) \in Nat /\ next \in Nat \ {0}
      /\ counted \in [Editions -> [postings : Nat, offsets : SUBSET Nat]]
  BY FileType DEF TypeOK
<1>2. CASE Count
  <2>1. /\ phase' = "count" /\ counted' = NothingCounted /\ next' = 1
        /\ hci' = hci
    BY <1>2 DEF Count
  <2>2. ASSUME WellFormed(hci), NEW y \in Editions
        PROVE  /\ counted'[y].postings = Cardinality(PostingsBefore(hci, y, 1))
               /\ counted'[y].offsets
                      = {hci.dat[q].offset : q \in PostingsBefore(hci, y, 1)}
    <3>1. PostingsBefore(hci, y, 1) = {}
      BY <1>0, <2>2, NoneBeforeFirst
    <3>2. counted'[y].postings = 0 /\ counted'[y].offsets = {}
      BY <2>1 DEF NothingCounted
    <3> QED BY <3>1, <3>2, FS_EmptySet
  <2> QED BY <1>0, <2>1, <2>2 DEF Counting
<1>3. CASE CountRecord
  <2>1. /\ phase = "count" /\ next \in Ordinals(hci) /\ next' = next + 1
        /\ next' <= Len(hci.table) + 1
        /\ counted' = IF Counts(hci, next) THEN CountedWith(hci, next, counted)
                      ELSE counted
        /\ UNCHANGED <<hci, phase>>
    BY <1>0, <1>3 DEF CountRecord, Ordinals
  <2>2. ASSUME WellFormed(hci), NEW y \in Editions
        PROVE  /\ counted'[y].postings = Cardinality(PostingsBefore(hci, y, next'))
               /\ counted'[y].offsets
                      = {hci.dat[q].offset : q \in PostingsBefore(hci, y, next')}
    <3> DEFINE before == PostingsBefore(hci, y, next)
               record == ReadRight(hci, next)
               own == Header(hci, next) \in CallKeys /\ YearOf[Header(hci, next)] = y
               behind == PostingsBefore(hci, y, next')
    <3>1. /\ counted[y].postings = Cardinality(before)
          /\ counted[y].offsets = {hci.dat[q].offset : q \in before}
      BY <2>1, <2>2 DEF Counting
    <3>2. /\ behind = before \cup (IF own THEN record ELSE {})
          /\ before \cap record = {}
      BY <1>0, <2>1, <2>2, PostingsGrow
    <3>3. HasHeader(hci, next)
      BY <1>0, <2>1, <2>2, EndToEnd
    <3>4. /\ IsFiniteSet(record) /\ IsFiniteSet(before)
          /\ Cardinality(record) \in Nat /\ Cardinality(before) \in Nat
      <4>1. IsFiniteSet(1..Len(hci.dat))
        <5>1. 1 \in Int /\ Len(hci.dat) \in Int
          <6>1. Len(hci.dat) \in Nat
            BY <1>0, FileType, Zenon
          <6> QED BY <6>1
        <5> QED BY <5>1, FS_Interval, Zenon
      <4>2. before \subseteq 1..Len(hci.dat)
        BY DEF PostingsBefore, PostingsOf
      <4> QED BY <1>0, <2>1, <3>3, <4>1, <4>2, ReadType, FS_Subset, FS_CardinalityType
    <3>5. CASE own
      <4>1. Counts(hci, next)
        BY <2>2, <3>3, <3>5 DEF Counts
      <4>2. /\ counted'[y].postings = counted[y].postings + Cardinality(record)
                                          + Len(ReadWrong(hci, next))
            /\ counted'[y].offsets = counted[y].offsets \cup OffsetsOf(hci, next)
        BY <1>0, <2>1, <2>2, <3>5, <4>1, Zenon, CountedOwn
      <4>3. /\ ReadWrong(hci, next) = <<>>
            /\ OffsetsOf(hci, next) = {hci.dat[q].offset : q \in record}
        BY <1>0, <2>1, <2>2, ReadAsWritten
      <4>4. behind = before \cup record
        BY <3>2, <3>5
      <4>5. Cardinality(behind) = Cardinality(before) + Cardinality(record)
        <5>1. Cardinality(before \cap record) = 0
          BY <3>2, FS_EmptySet
        <5> HIDE DEF before, record, behind
        <5>2. Cardinality(before \cup record) = Cardinality(before)
                  + Cardinality(record) - Cardinality(before \cap record)
          BY <3>4, FS_Union, Zenon
        <5> QED BY <3>4, <4>4, <5>1, <5>2
      <4>6. Len(ReadWrong(hci, next)) = 0
        BY <4>3
      <4>7. counted'[y].postings = Cardinality(behind)
        <5> HIDE DEF before, record, behind
        <5> QED BY <3>1, <3>4, <4>2, <4>5, <4>6
      <4>8. counted'[y].offsets = {hci.dat[q].offset : q \in behind}
        <5> HIDE DEF before, record, behind
        <5> QED BY <3>1, <4>2, <4>3, <4>4
      <4> QED BY <4>7, <4>8
    <3>6. CASE ~own
      <4>1. behind = before
        BY <3>2, <3>6
      <4>2. counted'[y] = counted[y]
        <5>1. CASE Counts(hci, next)
          <6>1. YearOf[Header(hci, next)] # y
            BY <3>6, <5>1 DEF Counts
          <6> QED BY <1>0, <2>1, <2>2, <5>1, <6>1, CountedOther
        <5>2. CASE ~Counts(hci, next)
          BY <2>1, <5>2
        <5> QED BY <5>1, <5>2
      <4> QED BY <3>1, <4>1, <4>2
    <3> QED BY <3>5, <3>6
  <2> QED BY <2>1, <2>2 DEF Counting
<1>4. ASSUME NEW k \in Keys, Ask(k) PROVE Counting'
  BY <1>4 DEF Ask, Counting
<1>5. CASE PassRecord \/ IndexRecord \/ Opened
  BY <1>5 DEF PassRecord, IndexRecord, Opened, Counting
<1>6. CASE Visit \/ Collision \/ Answered \/ Counted
  BY <1>6 DEF Visit, Collision, Answered, Counted, InRun, Counting
<1>7. CASE UNCHANGED vars
  BY <1>7 DEF vars, Counting
<1> QED BY <1>2, <1>3, <1>4, <1>5, <1>6, <1>7 DEF Next

-----------------------------------------------------------------------------
(* The theorems.                                                            *)

HInv == TypeOK /\ Ordered /\ Keyed /\ Indexed /\ Searching /\ Counting

LEMMA InitHolds == Init => HInv
<1> SUFFICES ASSUME Init PROVE HInv
  OBVIOUS
<1>1. /\ hci \in Files /\ phase = "index" /\ next = 1 /\ entries = <<>>
      /\ years = <<>> /\ key = NoKey /\ visited = <<>>
      /\ counted = NothingCounted
  BY DEF Init
<1>2. Len(hci.table) \in Nat
  BY <1>1, FilesAssumption DEF IsFile
<1>3. TypeOK /\ Ordered /\ Keyed /\ Searching /\ Counting
  BY <1>1, NothingCountedType DEF TypeOK, Ordered, Keyed, Searching, Counting
<1>4. Read = {}
  BY <1>1, <1>2 DEF Read, Indexable, Ordinals
<1>5. Pushed = {} /\ YearSet = {} /\ YearsRead = {}
  BY <1>1, <1>4 DEF Pushed, YearSet, YearsRead
<1>6. Indexed
  BY <1>1, <1>2, <1>4, <1>5 DEF Indexed
<1> QED BY <1>3, <1>6 DEF HInv

\* The list, its order, and the progress of searches and counts: inductive.
THEOREM IndexCorrect == Spec => []HInv
<1>1. HInv /\ [Next]_vars => HInv'
  BY TypeKept, OrderKept, IndexedKept, SearchingKept, CountingKept DEF HInv
<1> QED BY InitHolds, <1>1, PTL DEF Spec

\* A search through the key index finds what a pass over the table finds,
\* for every hash function and every damaged table
\* (visit_postings_for_key, visit_records_for_key).
THEOREM SearchCorrect == Spec => []SearchIsScan
<1>1. HInv => SearchIsScan
  <2> SUFFICES ASSUME HInv PROVE SearchIsScan
    OBVIOUS
  <2>1. TypeOK /\ Indexed /\ Searching
    BY DEF HInv
  <2>2. CASE phase = "index"
    <3>1. visited = <<>>
      BY <2>1, <2>2 DEF Indexed
    <3>2. Visited = {}
      BY <3>1 DEF Visited
    <3> QED BY <2>2, <3>1, <3>2 DEF SearchIsScan
  <2>3. CASE phase = "visit"
    <3>1. Visited \subseteq {entries[n].index : n \in Own(key)}
      BY <2>1, <2>3 DEF Searching
    <3>2. Visited \subseteq RecordsOf(hci, key)
      BY <2>1, <2>3, <3>1, RecordsAreOwn
    <3> QED BY <2>1, <2>3, <3>2 DEF SearchIsScan, Searching
  <2>4. CASE phase \in {"idle", "count"}
    BY <2>1, <2>4 DEF SearchIsScan, Searching
  <2> QED BY <2>1, <2>2, <2>3, <2>4 DEF TypeOK
<1> QED BY IndexCorrect, <1>1, PTL

\* The publication years are those of all headers (build_key_index), so that
\* a lookup that runs through them misses no archive key.
THEOREM YearsCorrect == Spec => []YearsComplete
<1>1. HInv => YearsComplete
  <2> SUFFICES ASSUME HInv, phase # "index" PROVE YearsComplete
    BY DEF YearsComplete
  <2>1. YearSet = YearsRead /\ Read = Indexable
    BY DEF HInv, Indexed, Read
  <2>2. \A m, n \in 1..Len(years) : m < n => years[m] < years[n]
    BY DEF HInv, Ordered
  <2> QED BY <2>1, <2>2 DEF YearsComplete, YearSet, YearsRead, Indexable
<1> QED BY IndexCorrect, <1>1, PTL

\* The statistics of any undamaged file are those of its postings, seen one
\* by one without the table (callsign_posting_statistics, visit_postings): the
\* records lie end to end (EndToEnd), so that what the count has passed is what
\* lies before the next record (Counting).
THEOREM StatisticsCorrect == Spec => []StatisticsComplete
<1>1. HInv => StatisticsComplete
  <2> SUFFICES ASSUME HInv, phase = "count", next > Len(hci.table),
                      WellFormed(hci), NEW y \in Editions
               PROVE  /\ counted[y].postings = Cardinality(PostingsOf(hci, y))
                      /\ counted[y].offsets
                             = {hci.dat[q].offset : q \in PostingsOf(hci, y)}
    BY DEF StatisticsComplete
  <2>1. /\ counted[y].postings = Cardinality(PostingsBefore(hci, y, next))
        /\ counted[y].offsets
               = {hci.dat[q].offset : q \in PostingsBefore(hci, y, next)}
    BY DEF HInv, Counting
  <2>2. Len(hci.table) \in Nat /\ Len(hci.dat) \in Nat /\ next \in Nat
    BY FileType DEF HInv, TypeOK
  <2>3. Limit(hci, next) = Len(hci.dat) + 1
    BY <2>2 DEF Limit
  <2>4. PostingsBefore(hci, y, next) = PostingsOf(hci, y)
    BY <2>2, <2>3 DEF PostingsBefore, PostingsOf
  <2> QED BY <2>1, <2>4
<1> QED BY IndexCorrect, <1>1, PTL

\* Type correctness: the ordinals of the list and of what is visited stay
\* within the table (push_hci_key_ref, visit_postings_for_key).
THEOREM TypeCorrect == Spec => []TypeOK
<1>1. HInv => TypeOK
  BY DEF HInv
<1> QED BY IndexCorrect, <1>1, PTL
=============================================================================
