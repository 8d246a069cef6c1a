----------------------------- MODULE TextIdxProofs -----------------------------
(***************************************************************************)
(* Proofs about TextIdx, for any file, stride and keys: whatever entries a  *)
(* bisection looks at, a search of a sorted file is a scan, a search of any *)
(* file returns only what it was asked for, and a file that verify calls    *)
(* clean is one that the searches can rely on.                              *)
(***************************************************************************)
EXTENDS TextIdx, TLAPS, WellFoundedInduction, SequenceTheorems

-----------------------------------------------------------------------------
(* The order of keys.                                                       *)

LEMMA LeastNatural ==
    ASSUME NEW S \in SUBSET Nat, S # {}
    PROVE  \E n \in S : \A m \in S : n <= m
<1>1. PICK n \in S : \A m \in S : ~(<<m, n>> \in OpToRel(<, Nat))
  BY NatLessThanWellFounded, WFMin, Zenon
<1>2. \A m \in S : ~(m < n)
  BY <1>1 DEF OpToRel
<1>. QED
  BY <1>2

\* Where two keys first differ, or the shorter one ends.
LEMMA FirstDifference ==
    ASSUME NEW a \in Key, NEW b \in Key, a # b
    PROVE  \E n \in Nat \ {0} :
               /\ n <= Len(a) + 1 /\ n <= Len(b) + 1
               /\ \A i \in 1..(n - 1) : a[i] = b[i]
               /\ \/ n = Len(a) + 1 /\ n <= Len(b)
                  \/ n = Len(b) + 1 /\ n <= Len(a)
                  \/ n <= Len(a) /\ n <= Len(b) /\ a[n] # b[n]
<1> DEFINE D == {n \in Nat \ {0} : /\ n <= Len(a) + 1 /\ n <= Len(b) + 1
                                   /\ \/ n = Len(a) + 1 \/ n = Len(b) + 1
                                      \/ a[n] # b[n]}
<1>1. Len(a) \in Nat /\ Len(b) \in Nat
  BY DEF Key
<1>2. D \in SUBSET Nat /\ D # {}
  <2>1. CASE Len(a) <= Len(b)
    <3>1. Len(a) + 1 \in D
      BY <1>1, <2>1
    <3> QED BY <3>1
  <2>2. CASE Len(b) < Len(a)
    <3>1. Len(b) + 1 \in D
      BY <1>1, <2>2
    <3> QED BY <3>1
  <2> QED BY <1>1, <2>1, <2>2
<1>3. PICK n \in D : \A m \in D : n <= m
  <2> HIDE DEF D
  <2> QED BY <1>2, LeastNatural
<1>4. \A i \in 1..(n - 1) : a[i] = b[i]
  <2> SUFFICES ASSUME NEW i \in 1..(n - 1), a[i] # b[i] PROVE FALSE
    OBVIOUS
  <2>1. i \in D
    BY <1>1, <1>3
  <2> QED BY <1>1, <1>3, <2>1
<1>5. ~(n = Len(a) + 1 /\ n = Len(b) + 1)
  <2> SUFFICES ASSUME n = Len(a) + 1, n = Len(b) + 1 PROVE FALSE
    OBVIOUS
  <2>1. \A i \in 1..Len(a) : a[i] = b[i]
    BY <1>1, <1>4
  <2>2. a = b
    BY <1>1, <2>1, SeqEqual DEF Key
  <2> QED BY <2>2
<1> QED BY <1>1, <1>3, <1>4, <1>5

LEMMA LessTotal ==
    ASSUME NEW a \in Key, NEW b \in Key, a # b
    PROVE  Less(a, b) \/ Less(b, a)
<1>1. PICK n \in Nat \ {0} :
          /\ n <= Len(a) + 1 /\ n <= Len(b) + 1
          /\ \A i \in 1..(n - 1) : a[i] = b[i]
          /\ \/ n = Len(a) + 1 /\ n <= Len(b)
             \/ n = Len(b) + 1 /\ n <= Len(a)
             \/ n <= Len(a) /\ n <= Len(b) /\ a[n] # b[n]
  BY FirstDifference
<1>2. Len(a) \in Nat /\ Len(b) \in Nat
  BY DEF Key
<1>3. CASE n = Len(a) + 1 /\ n <= Len(b)
  BY <1>1, <1>2, <1>3 DEF Less
<1>4. CASE n = Len(b) + 1 /\ n <= Len(a)
  BY <1>1, <1>2, <1>4 DEF Less
<1>5. CASE n <= Len(a) /\ n <= Len(b) /\ a[n] # b[n]
  <2>1. a[n] \in Nat /\ b[n] \in Nat
    BY <1>2, <1>5 DEF Key
  <2>2. CASE a[n] < b[n]
    BY <1>1, <1>2, <1>5, <2>2 DEF Less
  <2>3. CASE b[n] < a[n]
    BY <1>1, <1>2, <1>5, <2>3 DEF Less
  <2> QED BY <1>5, <2>1, <2>2, <2>3
<1> QED BY <1>1, <1>3, <1>4, <1>5

LEMMA LessIrreflexive == ASSUME NEW a \in Key PROVE ~Less(a, a)
<1>1. Len(a) \in Nat /\ \A i \in 1..Len(a) : a[i] \in Nat
  BY DEF Key
<1> QED BY <1>1 DEF Less

LEMMA LessTransitive ==
    ASSUME NEW a \in Key, NEW b \in Key, NEW c \in Key, Less(a, b), Less(b, c)
    PROVE  Less(a, c)
<1>1. PICK m \in 1..Len(b) : /\ m <= Len(a) + 1
                             /\ \A i \in 1..(m - 1) : a[i] = b[i]
                             /\ m = Len(a) + 1 \/ a[m] < b[m]
  BY DEF Less
<1>2. PICK n \in 1..Len(c) : /\ n <= Len(b) + 1
                             /\ \A i \in 1..(n - 1) : b[i] = c[i]
                             /\ n = Len(b) + 1 \/ b[n] < c[n]
  BY DEF Less
<1>3. /\ Len(a) \in Nat /\ Len(b) \in Nat /\ Len(c) \in Nat
      /\ \A i \in 1..Len(a) : a[i] \in Nat
      /\ \A i \in 1..Len(b) : b[i] \in Nat
      /\ \A i \in 1..Len(c) : c[i] \in Nat
  BY DEF Key
<1>4. CASE m < n
  <2>1. m \in 1..Len(c) /\ \A i \in 1..(m - 1) : a[i] = c[i]
    BY <1>1, <1>2, <1>3, <1>4
  <2>2. m = Len(a) + 1 \/ a[m] < c[m]
    BY <1>1, <1>2, <1>3, <1>4
  <2> QED BY <1>1, <2>1, <2>2 DEF Less
<1>5. CASE n < m
  <2>1. n <= Len(a) + 1 /\ \A i \in 1..(n - 1) : a[i] = c[i]
    BY <1>1, <1>2, <1>3, <1>5
  <2>2. a[n] = b[n] /\ n # Len(b) + 1
    BY <1>1, <1>2, <1>3, <1>5
  <2> QED BY <1>2, <2>1, <2>2 DEF Less
<1>6. CASE m = n
  <2>1. \A i \in 1..(n - 1) : a[i] = c[i]
    BY <1>1, <1>2, <1>3, <1>6
  <2>2. n = Len(a) + 1 \/ a[n] < c[n]
    <3>1. b[n] < c[n]
      BY <1>1, <1>2, <1>3, <1>6
    <3>2. CASE n # Len(a) + 1
      <4>1. a[n] < b[n] /\ n \in 1..Len(a) /\ n \in 1..Len(b)
        BY <1>1, <1>2, <1>3, <1>6, <3>2
      <4> QED BY <1>2, <1>3, <3>1, <4>1
    <3> QED BY <3>2
  <2> QED BY <1>1, <1>2, <1>6, <2>1, <2>2 DEF Less
<1> QED BY <1>3, <1>4, <1>5, <1>6

\* What is not after something that comes before c comes before c.
LEMMA NotLessThenLess ==
    ASSUME NEW a \in Key, NEW b \in Key, NEW c \in Key, ~Less(b, a), Less(b, c)
    PROVE  Less(a, c)
BY LessTotal, LessTransitive

LEMMA LessThenNotLess ==
    ASSUME NEW a \in Key, NEW b \in Key, NEW c \in Key, Less(a, b), ~Less(c, b)
    PROVE  Less(a, c)
BY LessTotal, LessTransitive

\* Keys with a prefix do not come before it, and what lies between the prefix
\* and such a key has the prefix too.
LEMMA PrefixNotAfter ==
    ASSUME NEW k \in Key, NEW p \in Key, StartsWith(k, p)
    PROVE  ~Less(k, p)
<1>1. /\ Len(k) \in Nat /\ Len(p) \in Nat
      /\ \A i \in 1..Len(k) : k[i] \in Nat
  BY DEF Key
<1> QED BY <1>1 DEF Less, StartsWith

LEMMA Between ==
    ASSUME NEW p \in Key, NEW b \in Key, NEW c \in Key,
           ~Less(b, p), ~Less(c, b), StartsWith(c, p)
    PROVE  StartsWith(b, p)
<1> SUFFICES ASSUME ~StartsWith(b, p) PROVE FALSE
  OBVIOUS
<1>1. /\ Len(b) \in Nat /\ Len(p) \in Nat /\ Len(c) \in Nat
      /\ \A i \in 1..Len(b) : b[i] \in Nat
      /\ \A i \in 1..Len(p) : p[i] \in Nat
  BY DEF Key
<1>2. b # p
  BY <1>1 DEF StartsWith
<1>3. PICK n \in Nat \ {0} :
          /\ n <= Len(b) + 1 /\ n <= Len(p) + 1
          /\ \A i \in 1..(n - 1) : b[i] = p[i]
          /\ \/ n = Len(b) + 1 /\ n <= Len(p)
             \/ n = Len(p) + 1 /\ n <= Len(b)
             \/ n <= Len(b) /\ n <= Len(p) /\ b[n] # p[n]
  BY <1>2, FirstDifference
<1>4. CASE n = Len(b) + 1 /\ n <= Len(p)
  BY <1>1, <1>3, <1>4 DEF Less
<1>5. CASE n = Len(p) + 1 /\ n <= Len(b)
  BY <1>1, <1>3, <1>5 DEF StartsWith
<1>6. CASE n <= Len(b) /\ n <= Len(p) /\ b[n] # p[n]
  <2>1. CASE b[n] < p[n]
    BY <1>1, <1>3, <1>6, <2>1 DEF Less
  <2>2. CASE p[n] < b[n]
    <3>1. c[n] = p[n] /\ n <= Len(c)
      BY <1>1, <1>6 DEF StartsWith
    <3>2. \A i \in 1..(n - 1) : c[i] = b[i]
      BY <1>1, <1>3, <1>6 DEF StartsWith
    <3> QED BY <1>1, <1>6, <2>2, <3>1, <3>2 DEF Less
  <2> QED BY <1>1, <1>6, <2>1, <2>2
<1> QED BY <1>3, <1>4, <1>5, <1>6

-----------------------------------------------------------------------------
(* Opening: the table and the directory.                                    *)

\* Division by the stride.
LEMMA DivMod ==
    ASSUME NEW c \in Nat, NEW s \in Nat \ {0}
    PROVE  /\ c \div s \in Nat
           /\ c % s \in 0..(s - 1)
           /\ c = s * (c \div s) + (c % s)
OBVIOUS

LEMMA Cancel ==
    ASSUME NEW a \in Nat, NEW b \in Nat, NEW s \in Nat \ {0}, a * s < b * s
    PROVE  a < b
OBVIOUS

\* The lines counted lie in the last stride that is anchored.
AnchorsReach ==
    /\ lineCount <= Len(directory) * stride
    /\ Len(directory) * stride < lineCount + stride

\* The table holds the entries among the lines counted, in their order, and
\* once open these are all lines that end.
Table ==
    /\ lineCount <= Len(file)
    /\ Len(entries) <= lineCount
    /\ \A l \in 1..lineCount : file[l].kind # "unterminated"
    /\ \A n \in Positions : /\ entries[n] <= lineCount
                            /\ file[entries[n]].kind = "entry"
    /\ \A m, n \in Positions : m < n => entries[m] < entries[n]
    /\ \A l \in 1..lineCount : file[l].kind = "entry" =>
           \E n \in Positions : entries[n] = l
    /\ phase = "index" => line = lineCount + 1 /\ AnchorsReach
    /\ phase # "index" =>
           lineCount = Len(file) \/ file[lineCount + 1].kind = "unterminated"
    /\ phase \notin {"index", "failed"} => lineCount > 0

LEMMA FileFacts ==
    ASSUME TypeOK
    PROVE  /\ Len(file) \in Nat /\ Len(entries) \in Nat
           /\ \A i \in 1..Len(file) :
                  /\ file[i].key \in Key /\ file[i].offset \in Nat
                  /\ file[i].kind \in {"entry", "malformed", "unterminated"}
                  /\ file[i].kind = "unterminated" => i = Len(file)
           /\ \A n \in Positions : /\ entries[n] \in 1..Len(file)
                                   /\ KeyAt(n) \in Key
                                   /\ OffsetAt(n) \in Nat
<1>1. /\ file \in Seq(Line)
      /\ \A i \in 1..Len(file) : file[i].kind = "unterminated" => i = Len(file)
  BY FilesAssumption DEF TypeOK, IsFile
<1>2. \A i \in 1..Len(file) : file[i] \in Line
  BY <1>1
<1>3. \A x \in Line : /\ x.key \in Key /\ x.offset \in Nat
                      /\ x.kind \in {"entry", "malformed", "unterminated"}
  BY DEF Line
<1>4. Len(file) \in Nat /\ Len(entries) \in Nat
  BY <1>1 DEF TypeOK
<1>5. \A n \in Positions : entries[n] \in 1..Len(file)
  BY <1>4 DEF TypeOK, Positions
<1> QED BY <1>1, <1>2, <1>3, <1>4, <1>5 DEF KeyAt, OffsetAt

\* The anchor of a line at which a stride begins is the next of its place.
LEMMA NextAnchor ==
    ASSUME NEW c \in Nat, NEW d \in Nat, NEW s \in Nat \ {0},
           c <= d * s, d * s < c + s
    PROVE  /\ c % s = 0 => c = d * s
           /\ c % s # 0 => c < d * s
<1> DEFINE q == c \div s
<1>1. q \in Nat /\ c % s \in 0..(s - 1) /\ c = s * q + (c % s)
  BY DivMod
<1> HIDE DEF q
<1>2. CASE c % s = 0
  <2>1. c = q * s /\ (q + 1) * s = c + s
    BY <1>1, <1>2
  <2>2. d * s < (q + 1) * s
    BY <2>1
  <2>3. d < q + 1
    BY <1>1, <2>2, Cancel
  <2>4. ~(d < q)
    <3> SUFFICES ASSUME d < q PROVE FALSE
      OBVIOUS
    <3>1. d * s < q * s
      BY <1>1
    <3> QED BY <2>1, <3>1
  <2> QED BY <1>1, <1>2, <2>1, <2>3, <2>4
<1>3. CASE c % s # 0
  <2> SUFFICES ASSUME c = d * s PROVE FALSE
    BY <1>3
  <2>1. q * s < d * s /\ d * s < (q + 1) * s
    BY <1>1, <1>3
  <2>2. q < d /\ d < q + 1
    BY <1>1, <2>1, Cancel
  <2> QED BY <1>1, <2>2
<1> QED BY <1>2, <1>3

\* What a line adds to the directory.
LEMMA AnchoredFacts ==
    ASSUME TypeOK, Table, phase = "index"
    PROVE  /\ Anchored \in Seq(1..Len(file))
           /\ \A i \in 1..Len(Anchored) : Anchored[i] = (i - 1) * stride + 1
           /\ line <= Len(file) =>
                  /\ lineCount + 1 <= Len(Anchored) * stride
                  /\ Len(Anchored) * stride < lineCount + 1 + stride
<1>1. /\ line = lineCount + 1 /\ lineCount \in Nat /\ stride \in Nat \ {0}
      /\ Len(directory) \in Nat /\ directory \in Seq(1..Len(file))
      /\ Len(file) \in Nat
      /\ \A i \in 1..Len(directory) : directory[i] = (i - 1) * stride + 1
  BY FileFacts, StridesAssumption DEF Table, TypeOK
<1>2. /\ lineCount <= Len(directory) * stride
      /\ Len(directory) * stride < lineCount + stride
  BY DEF Table, AnchorsReach
<1>3. CASE lineCount % stride = 0 /\ line <= Len(file)
  <2>1. lineCount = Len(directory) * stride
    BY <1>1, <1>2, <1>3, NextAnchor
  <2>2. Anchored = Append(directory, line)
    BY <1>3 DEF Anchored
  <2>3. /\ Len(Anchored) = Len(directory) + 1
        /\ Anchored \in Seq(1..Len(file))
        /\ \A i \in 1..Len(directory) : Anchored[i] = directory[i]
        /\ Anchored[Len(directory) + 1] = line
    BY <1>1, <1>3, <2>2
  <2>4. (Len(directory) + 1) * stride = lineCount + stride
    BY <1>1, <2>1
  <2>5. ASSUME NEW i \in 1..Len(Anchored)
        PROVE  Anchored[i] = (i - 1) * stride + 1
    <3>1. CASE i \in 1..Len(directory)
      BY <1>1, <2>3, <3>1
    <3>2. CASE i = Len(directory) + 1
      <4>1. (i - 1) * stride = Len(directory) * stride
        BY <1>1, <3>2
      <4> QED BY <1>1, <2>1, <2>3, <3>2, <4>1
    <3> QED BY <1>1, <2>3, <3>1, <3>2
  <2>6. /\ lineCount + 1 <= Len(Anchored) * stride
        /\ Len(Anchored) * stride < lineCount + 1 + stride
    BY <1>1, <2>3, <2>4
  <2> QED BY <2>3, <2>5, <2>6
<1>4. CASE lineCount % stride # 0 /\ line <= Len(file)
  <2>1. lineCount < Len(directory) * stride
    BY <1>1, <1>2, <1>4, NextAnchor
  <2>2. Anchored = directory
    BY <1>4 DEF Anchored
  <2>3. Len(directory) * stride \in Nat
    BY <1>1
  <2> QED BY <1>1, <1>2, <2>1, <2>2, <2>3
<1>5. CASE ~(line <= Len(file))
  BY <1>1, <1>5 DEF Anchored
<1> QED BY <1>3, <1>4, <1>5

\* The partition point, if it is in the table, is a hit.
LEMMA HitAtPoint ==
    ASSUME TypeOK, NEW h, h \in {<<low>>, <<>>}, h = <<low>> => InTable
    PROVE  h \in Seq(Positions)
<1>1. low \in 1..(Len(entries) + 1) /\ Len(entries) \in Nat
  BY FileFacts DEF TypeOK
<1>2. CASE h = <<>>
  BY <1>2
<1>3. CASE h = <<low>>
  <2>1. low \in Positions
    BY <1>1, <1>3 DEF InTable, Positions
  <2> QED BY <1>3, <2>1
<1> QED BY <1>2, <1>3

\* A report is the record of its fields.
LEMMA ReportParts ==
    ASSUME NEW r \in Report
    PROVE  /\ r = [entries |-> r.entries, order |-> r.order, offsets |-> r.offsets,
                   failures |-> r.failures, last |-> r.last,
                   complete |-> r.complete]
           /\ r.entries \in Nat /\ r.order \in Nat /\ r.offsets \in Nat
           /\ r.failures \in Nat /\ r.last \in 0..Len(file)
           /\ r.complete \in BOOLEAN
<1>1. r = [entries |-> r.entries, order |-> r.order, offsets |-> r.offsets,
           failures |-> r.failures, last |-> r.last, complete |-> r.complete]
  BY Zenon DEF Report
<1>2. /\ r.entries \in Nat /\ r.order \in Nat /\ r.offsets \in Nat
      /\ r.failures \in Nat /\ r.last \in 0..Len(file)
      /\ r.complete \in BOOLEAN
  BY DEF Report
<1> QED BY <1>1, <1>2

LEMMA ReportMade ==
    ASSUME NEW e \in Nat, NEW o \in Nat, NEW f \in Nat, NEW m \in Nat,
           NEW l \in 0..Len(file), NEW c \in BOOLEAN
    PROVE  [entries |-> e, order |-> o, offsets |-> f, failures |-> m,
            last |-> l, complete |-> c] \in Report
BY Zenon DEF Report

\* What verify counts.
LEMMA SeenTyped ==
    ASSUME NEW r \in Report, NEW l \in 1..Len(file), Len(file) \in Nat
    PROVE  /\ Seen(r, l) \in Report
           /\ Seen(r, l).entries = r.entries + 1
           /\ Seen(r, l).order =
                  IF r.last # 0 /\ Less(file[l].key, file[r.last].key)
                  THEN r.order + 1 ELSE r.order
           /\ Seen(r, l).offsets =
                  IF r.last # 0 /\ file[l].offset <= file[r.last].offset
                  THEN r.offsets + 1 ELSE r.offsets
           /\ Seen(r, l).failures = r.failures
           /\ Seen(r, l).last = l
           /\ Seen(r, l).complete = r.complete
<1> DEFINE back == r.last # 0 /\ Less(file[l].key, file[r.last].key)
           dent == r.last # 0 /\ file[l].offset <= file[r.last].offset
           o == IF back THEN r.order + 1 ELSE r.order
           f == IF dent THEN r.offsets + 1 ELSE r.offsets
<1>1. /\ r.order + (IF back THEN 1 ELSE 0) = o
      /\ r.offsets + (IF dent THEN 1 ELSE 0) = f
      /\ o \in Nat /\ f \in Nat
  BY DEF Report
<1>2. Seen(r, l) = [r EXCEPT !.entries = r.entries + 1, !.order = o,
                             !.offsets = f, !.last = l]
  BY <1>1 DEF Seen
<1> HIDE DEF back, dent, o, f
<1> DEFINE e == r.entries + 1
           s == [r EXCEPT !.entries = e, !.order = o, !.offsets = f, !.last = l]
<1>3. e \in Nat /\ l \in 0..Len(file)
  BY ReportParts
<1>4. DOMAIN r = {"entries", "order", "offsets", "failures", "last", "complete"}
  BY DEF Report
<1> HIDE DEF e
<1>5. s \in Report
  BY <1>1, <1>3, Zenon DEF Report
<1>6. /\ s.entries = e /\ s.order = o /\ s.offsets = f /\ s.last = l
      /\ s.failures = r.failures /\ s.complete = r.complete
  BY <1>4
<1>7. Seen(r, l) = s
  BY <1>2 DEF e
<1> HIDE DEF s
<1> QED BY <1>5, <1>6, <1>7 DEF o, f, back, dent, e

\* The report is closed with the failures.
LEMMA ClosedTyped ==
    ASSUME NEW r \in Report, NEW m \in Nat, NEW c \in BOOLEAN,
           NEW s, s = [r EXCEPT !.failures = m, !.complete = c]
    PROVE  /\ s \in Report
           /\ s = [entries |-> r.entries, order |-> r.order, offsets |-> r.offsets,
                   failures |-> m, last |-> r.last, complete |-> c]
<1>1. r = [entries |-> r.entries, order |-> r.order, offsets |-> r.offsets,
           failures |-> r.failures, last |-> r.last, complete |-> r.complete]
  BY ReportParts
<1>2. s = [entries |-> r.entries, order |-> r.order, offsets |-> r.offsets,
           failures |-> m, last |-> r.last, complete |-> c]
  BY <1>1, Zenon
<1>3. /\ r.entries \in Nat /\ r.order \in Nat /\ r.offsets \in Nat
      /\ r.last \in 0..Len(file)
  BY ReportParts
<1>4. s \in Report
  BY <1>2, <1>3, Zenon DEF Report
<1> QED BY <1>2, <1>4

LEMMA TypeKept ==
    ASSUME TypeOK, Table, [Next]_vars
    PROVE  TypeOK'
<1>0. /\ Len(file) \in Nat /\ Len(entries) \in Nat
      /\ target \in Key /\ entries \in Seq(1..Len(file))
  BY FileFacts DEF TypeOK
<1>1. CASE IndexLine
  <2>1. /\ line \in 1..Len(file) /\ phase = "index"
        /\ UNCHANGED <<file, stride, phase, goal, target, low, high, hits, report>>
        /\ directory' = Anchored /\ line' = line + 1 /\ lineCount' = lineCount + 1
        /\ entries' = IF file[line].kind = "entry" THEN Append(entries, line)
                      ELSE entries
    BY <1>0, <1>1 DEF IndexLine, Terminated, TypeOK
  <2>2. /\ directory' \in Seq(1..Len(file))
        /\ \A i \in 1..Len(directory') : directory'[i] = (i - 1) * stride + 1
    BY <2>1, AnchoredFacts
  <2>3. entries' \in Seq(1..Len(file)) /\ Len(entries') >= Len(entries)
    <3>1. CASE file[line].kind = "entry"
      <4>1. entries' = Append(entries, line)
        BY <2>1, <3>1
      <4>2. Append(entries, line) \in Seq(1..Len(file))
            /\ Len(Append(entries, line)) = Len(entries) + 1
        BY <1>0, <2>1, AppendProperties
      <4> QED BY <1>0, <4>1, <4>2
    <3>2. CASE file[line].kind # "entry"
      BY <1>0, <2>1, <3>2
    <3> QED BY <3>1, <3>2
  <2>4. Len(entries') \in Nat /\ 1..Len(entries) \subseteq 1..Len(entries')
    BY <1>0, <2>3
  <2>5. hits \in Seq(1..Len(entries'))
    <3>1. hits \in Seq(1..Len(entries))
      BY DEF TypeOK, Positions
    <3> QED BY <2>4, <3>1, SeqMonotonic
  <2>6. low \in 1..(Len(entries') + 1) /\ high \in 1..(Len(entries') + 1)
    <3>1. low \in 1..(Len(entries) + 1) /\ high \in 1..(Len(entries) + 1)
      BY DEF TypeOK
    <3> HIDE DEF Anchored
    <3> QED BY <1>0, <2>3, <2>4, <3>1
  <2> QED BY <1>0, <2>1, <2>2, <2>3, <2>5, <2>6 DEF TypeOK, Positions, Report
<1>2. CASE Opened
  <2>1. /\ UNCHANGED <<file, stride, line, entries, lineCount, goal, target, low,
                       high, hits, report>>
        /\ directory' = Anchored /\ phase' \in {"failed", "idle"}
        /\ phase = "index"
    BY <1>2 DEF Opened
  <2>2. /\ directory' \in Seq(1..Len(file))
        /\ \A i \in 1..Len(directory') : directory'[i] = (i - 1) * stride + 1
    BY <2>1, AnchoredFacts
  <2> QED BY <2>1, <2>2 DEF TypeOK, Positions, Report
<1>3. ASSUME NEW k \in Asked, NEW g \in {"exact", "first", "after", "bare"}, Ask(g, k)
      PROVE  TypeOK'
  <2>1. k \in Key
    BY AskedAssumption
  <2> QED BY <1>0, <1>3, <2>1 DEF Ask, Bisect, TypeOK, Positions, Report, NoReport
<1>4. CASE Probe
  <2>1. PICK mid \in low..(high - 1) :
            IF Comes(mid) THEN low' = mid + 1 /\ UNCHANGED high
                          ELSE high' = mid /\ UNCHANGED low
    BY <1>4 DEF Probe
  <2>2. /\ low' \in 1..(Len(entries) + 1) /\ high' \in 1..(Len(entries) + 1)
        /\ low' <= high'
    <3>1. low \in 1..(Len(entries) + 1) /\ high \in 1..(Len(entries) + 1)
      BY DEF TypeOK
    <3> QED BY <1>0, <2>1, <3>1
  <2>3. UNCHANGED <<file, stride, phase, line, entries, directory, lineCount, goal,
                   target, hits, report>>
    BY <1>4 DEF Probe
  <2> QED BY <2>2, <2>3 DEF TypeOK, Positions, Report
<1>5. CASE PointDone \/ ExactDone
  <2>1. /\ UNCHANGED <<file, stride, line, entries, directory, lineCount, goal,
                       target, low, high, report>>
        /\ phase' = "idle"
        /\ hits' \in {<<low>>, <<>>} /\ (hits' = <<low>> => InTable)
    BY <1>5 DEF PointDone, ExactDone
  <2>2. hits' \in Seq(Positions)
    BY <1>0, <2>1, HitAtPoint
  <2> QED BY <2>1, <2>2 DEF TypeOK, Positions, Report
<1>6. CASE BareDone
  <2>1. /\ UNCHANGED <<file, stride, phase, line, entries, directory, lineCount,
                       report>>
        /\ goal' = "years" /\ target' = Append(target, Colon)
        /\ low' = 1 /\ high' = Len(entries) + 1
        /\ hits' \in {<<low>>, <<>>} /\ (hits' = <<low>> => InTable)
    BY <1>6 DEF BareDone, Bisect
  <2>2. hits' \in Seq(Positions)
    BY <1>0, <2>1, HitAtPoint
  <2>3. target' \in Key
    BY <1>0, <2>1, AskedAssumption DEF Key
  <2> QED BY <1>0, <2>1, <2>2, <2>3 DEF TypeOK, Positions, Report
<1>7. CASE YearsBegin \/ YearsDone
  BY <1>7 DEF YearsBegin, YearsDone, TypeOK, Positions, Report
<1>8. CASE Collect
  <2>1. /\ UNCHANGED <<file, stride, phase, line, entries, directory, lineCount,
                       goal, target, high, report>>
        /\ low <= Len(entries) /\ phase = "collect"
        /\ hits' = Append(hits, low) /\ low' = low + 1
    BY <1>8 DEF Collect, InYears, InTable
  <2>2. low \in Positions /\ low' \in 1..(Len(entries) + 1)
    BY <1>0, <2>1 DEF TypeOK, Positions, Report
  <2>3. hits' \in Seq(Positions)
    <3>1. hits \in Seq(Positions)
      BY DEF TypeOK
    <3> QED BY <2>1, <2>2, <3>1
  <2>4. Positions' = Positions /\ Report' = Report
    BY <2>1 DEF Positions, Report
  <2> QED BY <2>1, <2>2, <2>3, <2>4 DEF TypeOK
<1>9. CASE Verify
  BY <1>0, <1>9 DEF Verify, TypeOK, Positions, Report, NoReport, Key
<1>10. CASE VerifyLine
  <2>1. /\ line \in 1..Len(file)
        /\ UNCHANGED <<file, stride, phase, entries, directory, lineCount, goal,
                       target, low, high, hits>>
        /\ line' = line + 1
        /\ report' = IF file[line].kind = "entry" THEN Seen(report, line) ELSE report
    BY <1>0, <1>10 DEF VerifyLine, Terminated, TypeOK
  <2>2. report \in Report
    BY DEF TypeOK
  <2>3. \A r \in Report : Seen(r, line) \in Report
    BY <1>0, <2>1, SeenTyped
  <2>4. report' \in Report
    BY <2>1, <2>2, <2>3
  <2>5. Report' = Report /\ Positions' = Positions
    BY <2>1 DEF Report, Positions
  <2>6. line' \in 1..(Len(file) + 1)
    BY <1>0, <2>1
  <2> QED BY <2>1, <2>4, <2>5, <2>6 DEF TypeOK
<1>11. CASE Verified
  <2>1. /\ UNCHANGED <<file, stride, line, entries, directory, lineCount, goal,
                       target, low, high, hits>>
        /\ phase' = "idle"
        /\ report' = [report EXCEPT
                         !.failures = IF lineCount > report.entries
                                      THEN lineCount - report.entries ELSE 0,
                         !.complete = TRUE]
    BY <1>11 DEF Verified
  <2>2. report \in Report /\ lineCount \in Nat
    BY DEF TypeOK
  <2> DEFINE m == IF lineCount > report.entries
                  THEN lineCount - report.entries ELSE 0
  <2>3. m \in Nat
    BY <2>2, ReportParts
  <2>4. report' = [report EXCEPT !.failures = m, !.complete = TRUE]
    BY <2>1
  <2> HIDE DEF m
  <2>5. report' \in Report
    BY <2>2, <2>3, <2>4, ClosedTyped
  <2> QED BY <2>1, <2>5 DEF TypeOK, Positions, Report
<1>12. CASE UNCHANGED vars
  BY <1>12 DEF vars, TypeOK, Positions, Report
<1> QED
  BY <1>1, <1>2, <1>3, <1>4, <1>5, <1>6, <1>7, <1>8, <1>9, <1>10, <1>11, <1>12
  DEF Next

LEMMA TableKept ==
    ASSUME TypeOK, Table, [Next]_vars
    PROVE  Table'
<1>0. /\ Len(file) \in Nat /\ Len(entries) \in Nat /\ lineCount \in Nat
      /\ line \in Nat \ {0}
      /\ \A i \in 1..Len(file) : file[i].kind = "unterminated" => i = Len(file)
  BY FileFacts DEF TypeOK
<1>1. CASE IndexLine
  <2>1. /\ phase = "index" /\ phase' = "index" /\ file' = file /\ stride' = stride
        /\ line = lineCount + 1 /\ line <= Len(file)
        /\ file[line].kind # "unterminated"
        /\ directory' = Anchored /\ line' = line + 1 /\ lineCount' = line
        /\ entries' = IF file[line].kind = "entry" THEN Append(entries, line)
                      ELSE entries
    BY <1>1 DEF IndexLine, Terminated, Table
  <2>2. AnchorsReach'
    BY <2>1, AnchoredFacts DEF AnchorsReach
  <2>3. \A l \in 1..lineCount' : l \in 1..lineCount \/ l = line
    BY <1>0, <2>1
  <2>4. \A l \in 1..lineCount' : file[l].kind # "unterminated"
    BY <2>1, <2>3 DEF Table
  <2>5. CASE file[line].kind = "entry"
    <3>1. /\ Len(entries') = Len(entries) + 1
          /\ \A n \in 1..Len(entries) : entries'[n] = entries[n]
          /\ entries'[Len(entries) + 1] = line
      BY <1>0, <2>1, <2>5 DEF TypeOK
    <3>2. \A n \in 1..Len(entries') : n \in 1..Len(entries) \/ n = Len(entries) + 1
      BY <1>0, <3>1
    <3>3. \A n \in 1..Len(entries) : entries[n] <= lineCount
                                    /\ file[entries[n]].kind = "entry"
                                    /\ entries[n] \in Nat
      BY FileFacts DEF Table, Positions
    <3>4. \A n \in 1..Len(entries') : entries'[n] <= lineCount'
                                     /\ file[entries'[n]].kind = "entry"
      BY <1>0, <2>1, <2>5, <3>1, <3>2, <3>3
    <3>5. \A m, n \in 1..Len(entries') : m < n => entries'[m] < entries'[n]
      <4>1. ASSUME NEW m \in 1..Len(entries'), NEW n \in 1..Len(entries'), m < n
            PROVE  entries'[m] < entries'[n]
        <5>1. m \in 1..Len(entries)
          BY <1>0, <3>1, <4>1
        <5>2. CASE n \in 1..Len(entries)
          BY <3>1, <4>1, <5>1, <5>2 DEF Table, Positions
        <5>3. CASE n = Len(entries) + 1
          BY <1>0, <2>1, <3>1, <3>3, <5>1, <5>3
        <5> QED BY <3>2, <5>2, <5>3
      <4> QED BY <4>1
    <3>6. \A l \in 1..lineCount' : file[l].kind = "entry" =>
              \E n \in 1..Len(entries') : entries'[n] = l
      <4>1. ASSUME NEW l \in 1..lineCount', file[l].kind = "entry"
            PROVE  \E n \in 1..Len(entries') : entries'[n] = l
        <5>1. CASE l = line
          <6>1. Len(entries) + 1 \in 1..Len(entries')
            BY <1>0, <3>1
          <6> QED BY <3>1, <5>1, <6>1
        <5>2. CASE l \in 1..lineCount
          <6>1. PICK n \in 1..Len(entries) : entries[n] = l
            BY <4>1, <5>2 DEF Table, Positions
          <6>2. n \in 1..Len(entries')
            BY <1>0, <3>1
          <6> QED BY <3>1, <6>1, <6>2
        <5> QED BY <2>3, <5>1, <5>2
      <4> QED BY <4>1
    <3>7. Len(entries') <= lineCount'
      BY <1>0, <2>1, <3>1 DEF Table
    <3> QED BY <1>0, <2>1, <2>2, <2>4, <3>4, <3>5, <3>6, <3>7 DEF Table, Positions
  <2>6. CASE file[line].kind # "entry"
    <3>1. entries' = entries
      BY <2>1, <2>6
    <3>2. \A n \in 1..Len(entries) : entries[n] <= lineCount /\ entries[n] \in Nat
      BY FileFacts DEF Table, Positions
    <3>3. \A n \in 1..Len(entries') : entries'[n] <= lineCount'
      BY <1>0, <2>1, <3>1, <3>2
    <3>4. \A l \in 1..lineCount' : file[l].kind = "entry" =>
              \E n \in 1..Len(entries') : entries'[n] = l
      BY <2>3, <2>6, <3>1 DEF Table, Positions
    <3>5. Len(entries') <= lineCount'
      BY <1>0, <2>1, <3>1 DEF Table
    <3> QED BY <1>0, <2>1, <2>2, <2>4, <3>1, <3>3, <3>4, <3>5 DEF Table, Positions
  <2> QED BY <2>5, <2>6
<1>2. CASE Opened
  <2>1. /\ phase = "index" /\ phase' \in {"failed", "idle"}
        /\ phase' = "idle" => lineCount # 0
        /\ UNCHANGED <<file, entries, lineCount>>
        /\ line > Len(file) \/ file[line].kind = "unterminated"
    BY <1>0, <1>2 DEF Opened, Terminated
  <2>2. lineCount = Len(file) \/ file[lineCount + 1].kind = "unterminated"
    BY <1>0, <2>1 DEF Table
  <2> QED BY <1>0, <2>1, <2>2 DEF Table, Positions
<1>3. ASSUME UNCHANGED <<file, entries, lineCount>>, phase # "index",
             phase' # "index", phase = "failed" => phase' = "failed"
      PROVE  Table'
  BY <1>3 DEF Table, Positions
<1>4. ASSUME NEW k \in Asked, NEW g \in {"exact", "first", "after", "bare"}, Ask(g, k)
      PROVE  Table'
  BY <1>3, <1>4 DEF Ask
<1>5. CASE Probe \/ PointDone \/ ExactDone \/ BareDone \/ YearsBegin
  BY <1>3, <1>5 DEF Probe, PointDone, ExactDone, BareDone, YearsBegin, Decided
<1>6. CASE Collect \/ YearsDone \/ Verify \/ VerifyLine \/ Verified
  BY <1>3, <1>6 DEF Collect, YearsDone, Verify, VerifyLine, Verified
<1>7. CASE UNCHANGED vars
  BY <1>7 DEF vars, Table, Positions, AnchorsReach
<1> QED BY <1>1, <1>2, <1>4, <1>5, <1>6, <1>7 DEF Next

-----------------------------------------------------------------------------
(* Searching.                                                               *)

\* Where a search stands.
Flow ==
    /\ phase \in {"index", "failed"} =>
           goal = "none" /\ hits = <<>> /\ report = NoReport
    /\ phase = "bisect" => goal # "none" /\ (goal # "years" => hits = <<>>)
    /\ phase = "collect" => goal = "years"
    /\ phase = "verify" => goal = "none" /\ hits = <<>>
    /\ phase = "idle" => goal # "bare"
    /\ goal = "years" => Callsign \in Key /\ target = Append(Callsign, Colon)

\* Outside the undecided part the predicate is known.
Cut ==
    /\ \A n \in Positions : n < low => Comes(n)
    /\ \A n \in Positions : n >= high => ~Comes(n)

FirstOf(k) ==
    {n \in Positions : KeyAt(n) = k /\ \A m \in Positions : m < n => KeyAt(m) # k}

\* The years are collected up to the next entry to look at.
Collected ==
    /\ \A n \in Positions : n >= low => ~Less(KeyAt(n), target)
    /\ Hits = FirstOf(Callsign)
                 \cup {n \in Positions : n < low /\ StartsWith(KeyAt(n), target)}
    /\ \A i \in 1..Len(hits) : hits[i] < low
    /\ \A i, j \in 1..Len(hits) : i < j => hits[i] < hits[j]

Knows ==
    Sorted =>
        /\ phase = "bisect" => Cut
        /\ phase = "bisect" /\ goal = "years" =>
               Len(hits) <= 1 /\ Hits = FirstOf(Callsign)
        /\ phase = "collect" => Collected

\* The callsign is what is left of a target without its colon, and less.
LEMMA FrontOfAppend ==
    ASSUME NEW t \in Key
    PROVE  /\ Append(t, Colon) \in Key
           /\ SubSeq(Append(t, Colon), 1, Len(Append(t, Colon)) - 1) = t
           /\ Less(t, Append(t, Colon))
<1>1. /\ Len(t) \in Nat /\ Colon \in Nat
      /\ Append(t, Colon) \in Key
      /\ Len(Append(t, Colon)) = Len(t) + 1
      /\ \A i \in 1..Len(t) : Append(t, Colon)[i] = t[i]
  BY AskedAssumption, AppendProperties DEF Key
<1>2. Less(t, Append(t, Colon))
  BY <1>1 DEF Less
<1> DEFINE u == Append(t, Colon)
<1>3. /\ SubSeq(u, 1, Len(t)) \in Seq(Nat)
      /\ Len(SubSeq(u, 1, Len(t))) = Len(t)
      /\ \A i \in 1..Len(t) : SubSeq(u, 1, Len(t))[i] = u[i]
  <2> HIDE DEF u
  <2>1. u \in Seq(Nat) /\ Len(u) = Len(t) + 1 /\ Len(t) \in Nat
    BY <1>1 DEF u, Key
  <2> QED BY <2>1
<1>4. SubSeq(u, 1, Len(t)) = t
  <2> HIDE DEF u
  <2>1. \A i \in 1..Len(t) : SubSeq(u, 1, Len(t))[i] = t[i]
    BY <1>1, <1>3 DEF u
  <2> QED BY <1>1, <1>3, <2>1, SeqEqual DEF Key
<1>5. Len(u) - 1 = Len(t)
  BY <1>1
<1> QED BY <1>1, <1>2, <1>4, <1>5

LEMMA FlowKept ==
    ASSUME TypeOK, Flow, [Next]_vars
    PROVE  Flow'
<1>1. CASE IndexLine \/ Opened
  BY <1>1 DEF IndexLine, Opened, Flow, Callsign
<1>2. ASSUME NEW k \in Asked, NEW g \in {"exact", "first", "after", "bare"}, Ask(g, k)
      PROVE  Flow'
  BY <1>2 DEF Ask, Bisect, Flow
<1>3. CASE Probe \/ YearsBegin
  BY <1>3 DEF Probe, YearsBegin, Decided, Flow, Callsign
<1>4. CASE PointDone \/ ExactDone
  BY <1>4 DEF PointDone, ExactDone, Decided, Flow, Callsign
<1>5. CASE BareDone
  <2>1. target \in Key
    BY DEF TypeOK
  <2>2. /\ phase = "bisect" /\ phase' = "bisect" /\ goal' = "years"
        /\ target' = Append(target, Colon)
    BY <1>5 DEF BareDone, Bisect, Decided
  <2>3. Callsign' = target
    BY <2>1, <2>2, FrontOfAppend DEF Callsign
  <2> QED BY <2>1, <2>2, <2>3 DEF Flow
<1>6. CASE Collect \/ YearsDone
  BY <1>6 DEF Collect, YearsDone, Flow, Callsign
<1>7. CASE Verify
  BY <1>7 DEF Verify, Flow
<1>8. CASE VerifyLine \/ Verified
  BY <1>8 DEF VerifyLine, Verified, Flow
<1>9. CASE UNCHANGED vars
  BY <1>9 DEF vars, Flow, Callsign
<1> QED BY <1>1, <1>2, <1>3, <1>4, <1>5, <1>6, <1>7, <1>8, <1>9 DEF Next

\* In a sorted table the predicate holds up to some place only.
LEMMA ComesMonotone ==
    ASSUME TypeOK, Sorted, NEW m \in Positions, NEW n \in Positions, m < n,
           Comes(n)
    PROVE  Comes(m)
<1>1. KeyAt(m) \in Key /\ KeyAt(n) \in Key /\ target \in Key
  BY FileFacts DEF TypeOK
<1>2. ~Less(KeyAt(n), KeyAt(m))
  BY DEF Sorted
<1>3. CASE goal = "after"
  <2>1. ~Less(target, KeyAt(n))
    BY <1>3 DEF Comes
  <2>2. ~Less(target, KeyAt(m))
    BY <1>1, <1>2, <2>1, LessThenNotLess
  <2> QED BY <1>3, <2>2 DEF Comes
<1>4. CASE goal # "after"
  <2>1. Less(KeyAt(n), target)
    BY <1>4 DEF Comes
  <2>2. Less(KeyAt(m), target)
    BY <1>1, <1>2, <2>1, NotLessThenLess
  <2> QED BY <1>4, <2>2 DEF Comes
<1> QED BY <1>3, <1>4

\* At the end of a bisection for the first entry that is not less.
LEMMA FirstAtCut ==
    ASSUME TypeOK, Sorted, Cut, low = high, goal # "after"
    PROVE  /\ \A n \in Positions : n < low <=> Less(KeyAt(n), target)
           /\ FirstOf(target) = IF InTable /\ KeyAt(low) = target THEN {low} ELSE {}
<1>1. /\ Len(entries) \in Nat /\ low \in 1..(Len(entries) + 1) /\ target \in Key
      /\ \A n \in Positions : KeyAt(n) \in Key /\ n \in Nat
      /\ InTable <=> low \in Positions
  BY FileFacts DEF TypeOK, Positions, InTable
<1>2. \A n \in Positions : n < low <=> Less(KeyAt(n), target)
  BY <1>1 DEF Cut, Comes
<1>3. \A n \in Positions : KeyAt(n) = target => n >= low
  BY <1>1, <1>2, LessIrreflexive
<1>4. CASE InTable /\ KeyAt(low) = target
  <2>1. low \in FirstOf(target)
    <3>1. \A m \in Positions : m < low => KeyAt(m) # target
      BY <1>1, <1>3
    <3> QED BY <1>1, <1>4, <3>1 DEF FirstOf
  <2>2. ASSUME NEW n \in FirstOf(target) PROVE n = low
    <3>1. n \in Positions /\ KeyAt(n) = target /\ ~(low < n)
      BY <1>1, <1>4 DEF FirstOf
    <3> QED BY <1>1, <1>3, <3>1
  <2>3. FirstOf(target) = {low}
    BY <2>1, <2>2
  <2> QED BY <1>2, <1>4, <2>3
<1>5. CASE ~(InTable /\ KeyAt(low) = target)
  <2>1. ASSUME NEW n \in FirstOf(target) PROVE FALSE
    <3>1. n \in Positions /\ KeyAt(n) = target
      BY DEF FirstOf
    <3>2. low < n /\ low \in Positions /\ KeyAt(low) # target
      BY <1>1, <1>3, <1>5, <3>1 DEF Positions
    <3>3. ~Less(KeyAt(low), target)
      BY <1>1, <1>2, <3>2
    <3>4. ~Less(target, KeyAt(low))
      BY <3>1, <3>2 DEF Sorted
    <3> QED BY <1>1, <3>2, <3>3, <3>4, LessTotal
  <2>2. FirstOf(target) = {}
    BY <2>1
  <2> QED BY <1>2, <1>5, <2>2
<1> QED BY <1>4, <1>5

\* A step that leaves the table alone leaves alone what is said of it.
LEMMA TableStill ==
    ASSUME UNCHANGED <<file, entries>>
    PROVE  /\ Positions' = Positions
           /\ \A n : KeyAt(n)' = KeyAt(n)
           /\ Sorted' <=> Sorted
           /\ FirstOf(Callsign)' = {n \in Positions : KeyAt(n) = Callsign'
                  /\ \A m \in Positions : m < n => KeyAt(m) # Callsign'}
<1>1. Positions' = Positions
  BY DEF Positions
<1>2. \A n : KeyAt(n)' = KeyAt(n)
  BY DEF KeyAt
<1>3. Sorted' <=> Sorted
  BY <1>1, <1>2 DEF Sorted
<1>4. FirstOf(Callsign)' = {n \in Positions : KeyAt(n) = Callsign'
          /\ \A m \in Positions : m < n => KeyAt(m) # Callsign'}
  BY <1>1, <1>2 DEF FirstOf
<1> QED BY <1>1, <1>2, <1>3, <1>4

\* A bisection begins with everything undecided.
LEMMA CutBegins ==
    ASSUME TypeOK, UNCHANGED <<file, entries>>, low' = 1, high' = Len(entries) + 1
    PROVE  Cut'
<1>1. Len(entries) \in Nat /\ Positions' = 1..Len(entries)
  BY FileFacts DEF Positions
<1>2. \A n \in Positions' : ~(n < low') /\ ~(n >= high')
  BY <1>1
<1> QED BY <1>2 DEF Cut

LEMMA ProbeCuts ==
    ASSUME TypeOK, Sorted, Cut, Probe
    PROVE  Cut'
<1>1. /\ Positions' = Positions /\ \A n : Comes(n)' <=> Comes(n)
      /\ \A n \in Positions : n \in Nat
  BY DEF Probe, Positions, Comes, KeyAt
<1>2. PICK mid \in low..(high - 1) :
          IF Comes(mid) THEN low' = mid + 1 /\ UNCHANGED high
                        ELSE high' = mid /\ UNCHANGED low
  BY DEF Probe
<1>3. mid \in Positions
  BY <1>2, FileFacts DEF TypeOK, Positions
<1>4. low \in Nat /\ high \in Nat /\ mid \in Nat
  BY <1>1, <1>3 DEF TypeOK
<1>5. CASE Comes(mid)
  <2>1. ASSUME NEW n \in Positions, n < low' PROVE Comes(n)
    <3>1. n < mid \/ n = mid
      BY <1>1, <1>2, <1>4, <1>5, <2>1
    <3> QED BY <1>3, <1>5, <3>1, ComesMonotone
  <2> QED BY <1>1, <1>2, <1>5, <2>1 DEF Cut
<1>6. CASE ~Comes(mid)
  <2>1. ASSUME NEW n \in Positions, n >= high' PROVE ~Comes(n)
    <3>1. mid < n \/ n = mid
      BY <1>1, <1>2, <1>4, <1>6, <2>1
    <3> QED BY <1>3, <1>6, <3>1, ComesMonotone
  <2> QED BY <1>1, <1>2, <1>6, <2>1 DEF Cut
<1> QED BY <1>5, <1>6

LEMMA HitsOf ==
    /\ hits = <<>> => Hits = {}
    /\ \A x : hits = <<x>> => Hits = {x} /\ Len(hits) = 1
<1>1. hits = <<>> => Hits = {}
  BY DEF Hits
<1>2. ASSUME NEW x, hits = <<x>> PROVE Hits = {x} /\ Len(hits) = 1
  <2>1. Len(hits) = 1 /\ hits[1] = x
    BY <1>2
  <2>2. \A i \in 1..Len(hits) : i = 1
    BY <2>1
  <2>3. 1 \in 1..Len(hits)
    BY <2>1
  <2> QED BY <2>1, <2>2, <2>3 DEF Hits
<1> QED BY <1>1, <1>2

\* The bare entry that the first pass leaves behind.
LEMMA BareKept ==
    ASSUME TypeOK, Sorted, Cut, BareDone
    PROVE  Len(hits') <= 1 /\ Hits' = FirstOf(Callsign)'
<1>1. /\ low = high /\ goal = "bare" /\ target \in Key
      /\ target' = Append(target, Colon)
      /\ UNCHANGED <<file, entries>>
      /\ hits' = IF InTable /\ KeyAt(low) = target THEN <<low>> ELSE <<>>
  BY DEF BareDone, Decided, Bisect, TypeOK
<1>2. FirstOf(target) = IF InTable /\ KeyAt(low) = target THEN {low} ELSE {}
  BY <1>1, FirstAtCut
<1>3. Callsign' = target
  BY <1>1, FrontOfAppend DEF Callsign
<1>4. FirstOf(Callsign)' = FirstOf(target)
  BY <1>1, <1>3, TableStill DEF FirstOf
<1>5. CASE InTable /\ KeyAt(low) = target
  <2>1. hits' = <<low>> /\ FirstOf(Callsign)' = {low}
    BY <1>1, <1>2, <1>4, <1>5
  <2>2. Hits' = {low} /\ Len(hits') = 1
    <3>1. Len(hits') = 1 /\ hits'[1] = low
      BY <2>1
    <3>2. \A n \in 1..Len(hits') : n = 1
      BY <3>1
    <3>3. 1 \in 1..Len(hits')
      BY <3>1
    <3> QED BY <3>1, <3>2, <3>3 DEF Hits
  <2> QED BY <2>1, <2>2
<1>6. CASE ~(InTable /\ KeyAt(low) = target)
  <2>1. hits' = <<>> /\ FirstOf(Callsign)' = {}
    BY <1>1, <1>2, <1>4, <1>6
  <2>2. Hits' = {} /\ Len(hits') = 0
    BY <2>1 DEF Hits
  <2> QED BY <2>1, <2>2
<1> QED BY <1>5, <1>6

\* The years begin where the second bisection ends.
LEMMA CollectBegins ==
    ASSUME TypeOK, Flow, Sorted, Cut, YearsBegin,
           Len(hits) <= 1, Hits = FirstOf(Callsign)
    PROVE  Collected'
<1>1. /\ low = high /\ goal = "years" /\ target \in Key /\ Callsign \in Key
      /\ target = Append(Callsign, Colon)
      /\ UNCHANGED <<file, entries, low, hits, target>>
  BY DEF YearsBegin, Decided, Flow, TypeOK
<1>2. \A n \in Positions : n < low <=> Less(KeyAt(n), target)
  BY <1>1, FirstAtCut
<1>3. /\ Positions' = Positions /\ Callsign' = Callsign /\ Hits' = Hits
      /\ \A n : KeyAt(n)' = KeyAt(n)
  BY <1>1 DEF Positions, Callsign, Hits, KeyAt
<1>4. FirstOf(Callsign)' = FirstOf(Callsign)
  BY <1>1, <1>3, TableStill DEF FirstOf
<1>5. \A n \in Positions : KeyAt(n) \in Key /\ n \in Nat
  BY FileFacts DEF Positions
<1>6. Len(hits) \in Nat /\ low \in Nat
  BY DEF TypeOK
<1>7. \A n \in Positions : n >= low => ~Less(KeyAt(n), target)
  BY <1>2, <1>5, <1>6
<1>8. \A n \in Positions : n < low => ~StartsWith(KeyAt(n), target)
  BY <1>1, <1>2, <1>5, PrefixNotAfter
<1>9. \A i \in 1..Len(hits) : hits[i] < low
  <2> SUFFICES ASSUME NEW i \in 1..Len(hits) PROVE hits[i] < low
    OBVIOUS
  <2>1. hits[i] \in FirstOf(Callsign)
    BY DEF Hits
  <2>2. hits[i] \in Positions /\ KeyAt(hits[i]) = Callsign
    BY <2>1 DEF FirstOf
  <2>3. Less(KeyAt(hits[i]), target)
    BY <1>1, <2>2, FrontOfAppend
  <2> QED BY <1>2, <2>2, <2>3
<1>10. \A i, j \in 1..Len(hits) : i < j => hits[i] < hits[j]
  BY <1>6
<1>11. Hits = FirstOf(Callsign)
                 \cup {n \in Positions : n < low /\ StartsWith(KeyAt(n), target)}
  BY <1>8
<1>12. Hits' = FirstOf(Callsign)'
           \cup {n \in Positions : n < low' /\ StartsWith(KeyAt(n)', target')}
  BY <1>1, <1>3, <1>4, <1>11
<1> QED BY <1>1, <1>3, <1>7, <1>9, <1>10, <1>12 DEF Collected

LEMMA CollectGoesOn ==
    ASSUME TypeOK, Sorted, Collected, Collect
    PROVE  Collected'
<1>1. /\ UNCHANGED <<file, entries, target>>
      /\ hits' = Append(hits, low) /\ low' = low + 1
      /\ low <= Len(entries) /\ StartsWith(KeyAt(low), target)
  BY DEF Collect, InYears, InTable
<1>2. /\ Positions' = Positions /\ Callsign' = Callsign
      /\ \A n : KeyAt(n)' = KeyAt(n)
  BY <1>1 DEF Positions, Callsign, KeyAt
<1>3. FirstOf(Callsign)' = FirstOf(Callsign)
  BY <1>1, <1>2, TableStill DEF FirstOf
<1>4. /\ Len(hits) \in Nat /\ low \in Positions /\ low \in Nat
      /\ \A n \in Positions : n \in Nat
      /\ \A i \in 1..Len(hits) : hits[i] \in Positions
  <2>1. Len(entries) \in Nat /\ low \in 1..(Len(entries) + 1)
    BY FileFacts DEF TypeOK
  <2>2. hits \in Seq(Positions)
    BY DEF TypeOK
  <2>3. Len(hits) \in Nat /\ \A i \in 1..Len(hits) : hits[i] \in Positions
    BY <2>2
  <2> QED BY <1>1, <2>1, <2>3 DEF Positions
<1>5. /\ Len(hits') = Len(hits) + 1
      /\ hits'[Len(hits) + 1] = low
      /\ \A i \in 1..Len(hits) : hits'[i] = hits[i]
  BY <1>1 DEF TypeOK
<1>6. \A i \in 1..Len(hits') : i \in 1..Len(hits) \/ i = Len(hits) + 1
  BY <1>4, <1>5
<1>7. Hits' = Hits \cup {low}
  <2>1. \A i \in 1..Len(hits) : i \in 1..Len(hits')
    BY <1>4, <1>5
  <2>2. Len(hits) + 1 \in 1..Len(hits')
    BY <1>4, <1>5
  <2> QED BY <1>5, <1>6, <2>1, <2>2 DEF Hits
<1>8. {n \in Positions : n < low' /\ StartsWith(KeyAt(n), target)}
        = {n \in Positions : n < low /\ StartsWith(KeyAt(n), target)} \cup {low}
  <2>1. \A n \in Positions : n < low' <=> n < low \/ n = low
    BY <1>1, <1>4
  <2> QED BY <1>1, <1>4, <2>1
<1>9. Hits' = FirstOf(Callsign)'
          \cup {n \in Positions' : n < low' /\ StartsWith(KeyAt(n)', target')}
  BY <1>1, <1>2, <1>3, <1>7, <1>8 DEF Collected
<1>10. \A n \in Positions' : n >= low' => ~Less(KeyAt(n)', target')
  <2>1. \A n \in Positions : n >= low => ~Less(KeyAt(n), target)
    BY DEF Collected
  <2>2. \A n \in Positions : n >= low' => n >= low
    BY <1>1, <1>4
  <2> QED BY <1>1, <1>2, <2>1, <2>2
<1>11. \A i \in 1..Len(hits') : hits'[i] < low'
  <2>1. \A i \in 1..Len(hits) : hits[i] < low /\ hits[i] \in Nat
    BY <1>4 DEF Collected
  <2>2. low < low' /\ low' \in Nat
    BY <1>1, <1>4
  <2> QED BY <1>4, <1>5, <1>6, <2>1, <2>2
<1>12. \A i, j \in 1..Len(hits') : i < j => hits'[i] < hits'[j]
  <2> SUFFICES ASSUME NEW i \in 1..Len(hits'), NEW j \in 1..Len(hits'), i < j
               PROVE  hits'[i] < hits'[j]
    OBVIOUS
  <2>1. i \in 1..Len(hits)
    BY <1>4, <1>5
  <2> QED BY <1>5, <1>6, <2>1 DEF Collected
<1> QED BY <1>9, <1>10, <1>11, <1>12 DEF Collected

LEMMA KnowsKept ==
    ASSUME TypeOK, Flow, Knows, [Next]_vars
    PROVE  Knows'
<1>1. CASE IndexLine \/ Opened
  <2>1. phase' \notin {"bisect", "collect"}
    BY <1>1 DEF IndexLine, Opened
  <2> QED BY <2>1 DEF Knows
<1>2. ASSUME NEW k \in Asked, NEW g \in {"exact", "first", "after", "bare"}, Ask(g, k)
      PROVE  Knows'
  <2>1. phase' = "bisect" /\ goal' # "years"
    BY <1>2 DEF Ask, Bisect
  <2>2. Cut'
    BY <1>2, CutBegins DEF Ask, Bisect
  <2> QED BY <2>1, <2>2 DEF Knows
<1>3. CASE Probe
  <2>1. /\ UNCHANGED <<file, entries, hits, goal, target>>
        /\ phase = "bisect" /\ phase' = "bisect"
    BY <1>3 DEF Probe
  <2>2. /\ Sorted' <=> Sorted
        /\ Hits' = Hits /\ Callsign' = Callsign
    BY <2>1, TableStill DEF Hits, Callsign
  <2>3. FirstOf(Callsign)' = FirstOf(Callsign)
    BY <2>1, <2>2, TableStill DEF FirstOf
  <2>4. Sorted => Cut'
    BY <1>3, <2>1, ProbeCuts DEF Knows
  <2> QED BY <2>1, <2>2, <2>3, <2>4 DEF Knows
<1>4. CASE PointDone \/ ExactDone \/ YearsDone \/ Verify \/ VerifyLine \/ Verified
  <2>1. phase' \notin {"bisect", "collect"}
    BY <1>4 DEF PointDone, ExactDone, YearsDone, Verify, VerifyLine, Verified
  <2> QED BY <2>1 DEF Knows
<1>5. CASE BareDone
  <2>1. /\ UNCHANGED <<file, entries>> /\ phase = "bisect" /\ phase' = "bisect"
        /\ low' = 1 /\ high' = Len(entries) + 1
    BY <1>5 DEF BareDone, Bisect, Decided
  <2>2. Sorted' <=> Sorted
    BY <2>1, TableStill
  <2>3. Cut'
    BY <2>1, CutBegins
  <2>4. Sorted => Len(hits') <= 1 /\ Hits' = FirstOf(Callsign)'
    BY <1>5, <2>1, BareKept DEF Knows
  <2> QED BY <2>1, <2>2, <2>3, <2>4 DEF Knows
<1>6. CASE YearsBegin
  <2>1. /\ UNCHANGED <<file, entries>> /\ phase = "bisect" /\ phase' = "collect"
        /\ goal = "years"
    BY <1>6 DEF YearsBegin, Decided
  <2>2. Sorted' <=> Sorted
    BY <2>1, TableStill
  <2>3. Sorted => Collected'
    BY <1>6, <2>1, CollectBegins DEF Knows
  <2> QED BY <2>1, <2>2, <2>3 DEF Knows
<1>7. CASE Collect
  <2>1. /\ UNCHANGED <<file, entries>> /\ phase = "collect" /\ phase' = "collect"
    BY <1>7 DEF Collect
  <2>2. Sorted' <=> Sorted
    BY <2>1, TableStill
  <2>3. Sorted => Collected'
    BY <1>7, <2>1, CollectGoesOn DEF Knows
  <2> QED BY <2>1, <2>2, <2>3 DEF Knows
<1>8. CASE UNCHANGED vars
  <2>1. UNCHANGED <<file, entries, hits, goal, target, low, high, phase>>
    BY <1>8 DEF vars
  <2>2. /\ Positions' = Positions /\ \A n : KeyAt(n)' = KeyAt(n)
        /\ \A n : Comes(n)' <=> Comes(n)
        /\ Sorted' <=> Sorted
        /\ Hits' = Hits /\ Callsign' = Callsign
    BY <2>1, TableStill DEF Hits, Callsign, Comes, KeyAt
  <2>3. FirstOf(Callsign)' = FirstOf(Callsign)
    BY <2>1, <2>2, TableStill DEF FirstOf
  <2>4. Cut' <=> Cut
    BY <2>1, <2>2 DEF Cut
  <2>5. Collected' <=> Collected
    BY <2>1, <2>2, <2>3 DEF Collected
  <2> QED BY <2>1, <2>2, <2>3, <2>4, <2>5 DEF Knows
<1> QED BY <1>1, <1>2, <1>3, <1>4, <1>5, <1>6, <1>7, <1>8 DEF Next

\* A key that is found is the first of its kind; the point is the first entry
\* for which the predicate fails.
LEMMA ExactAnswer ==
    ASSUME TypeOK, Sorted, Cut, ExactDone
    PROVE  Hits' = FirstOf(target)
<1>1. /\ low = high /\ goal = "exact"
      /\ hits' = IF InTable /\ KeyAt(low) = target THEN <<low>> ELSE <<>>
  BY DEF ExactDone, Decided
<1>2. FirstOf(target) = IF InTable /\ KeyAt(low) = target THEN {low} ELSE {}
  BY <1>1, FirstAtCut
<1>3. hits' = <<>> => Hits' = {}
  BY DEF Hits
<1>4. hits' = <<low>> => Hits' = {low}
  <2> SUFFICES ASSUME hits' = <<low>> PROVE Hits' = {low}
    OBVIOUS
  <2>1. Len(hits') = 1 /\ hits'[1] = low
    OBVIOUS
  <2>2. \A n \in 1..Len(hits') : n = 1
    BY <2>1
  <2>3. 1 \in 1..Len(hits')
    BY <2>1
  <2> QED BY <2>1, <2>2, <2>3 DEF Hits
<1> QED BY <1>1, <1>2, <1>3, <1>4

LEMMA PointAnswer ==
    ASSUME TypeOK, Sorted, Cut, PointDone
    PROVE  Hits' = {n \in Positions : ~Comes(n)
                       /\ \A m \in Positions : m < n => Comes(m)}
<1> DEFINE Point == {n \in Positions : ~Comes(n)
                        /\ \A m \in Positions : m < n => Comes(m)}
<1>1. /\ low = high
      /\ hits' = IF InTable THEN <<low>> ELSE <<>>
  BY DEF PointDone, Decided
<1>2. /\ \A n \in Positions : n \in Nat
      /\ low \in Nat \ {0} /\ Len(entries) \in Nat
      /\ InTable <=> low \in Positions
  BY FileFacts DEF TypeOK, Positions, InTable
<1>3. \A n \in Positions : n < low <=> Comes(n)
  BY <1>1, <1>2 DEF Cut
<1>4. CASE InTable
  <2>1. low \in Point
    BY <1>2, <1>3, <1>4
  <2>2. \A n \in Point : n = low
    BY <1>2, <1>3, <1>4
  <2>3. Len(hits') = 1 /\ hits'[1] = low
    BY <1>1, <1>4
  <2>4. \A n \in 1..Len(hits') : n = 1
    BY <2>3
  <2>5. 1 \in 1..Len(hits')
    BY <2>3
  <2>6. Hits' = {low}
    BY <2>3, <2>4, <2>5 DEF Hits
  <2>7. Point = {low}
    BY <2>1, <2>2
  <2> QED BY <2>6, <2>7
<1>5. CASE ~InTable
  <2>1. Hits' = {}
    BY <1>1, <1>5 DEF Hits
  <2>2. \A n \in Positions : n < low
    BY <1>2, <1>5 DEF InTable, Positions
  <2>3. Point = {}
    BY <1>3, <2>2
  <2> QED BY <2>1, <2>3
<1> QED BY <1>4, <1>5

\* Behind the entry that ends the collecting there is no year any more.
LEMMA YearsAnswer ==
    ASSUME TypeOK, Sorted, Collected, ~InYears
    PROVE  Hits = FirstOf(Callsign)
                     \cup {n \in Positions : StartsWith(KeyAt(n), target)}
<1>1. /\ \A n \in Positions : n \in Nat /\ KeyAt(n) \in Key
      /\ low \in Nat \ {0} /\ Len(entries) \in Nat /\ target \in Key
      /\ InTable <=> low \in Positions
  BY FileFacts DEF TypeOK, Positions, InTable
<1>2. ASSUME NEW n \in Positions, StartsWith(KeyAt(n), target) PROVE n < low
  <2> SUFFICES ASSUME n >= low PROVE FALSE
    BY <1>1
  <2>1. low \in Positions
    BY <1>1 DEF Positions
  <2>2. ~StartsWith(KeyAt(low), target) /\ ~Less(KeyAt(low), target)
    BY <1>1, <2>1 DEF InYears, Collected
  <2>3. low < n
    BY <1>1, <1>2, <2>2
  <2>4. ~Less(KeyAt(n), KeyAt(low))
    BY <2>1, <2>3 DEF Sorted
  <2> QED BY <1>1, <1>2, <2>1, <2>2, <2>4, Between
<1>3. Hits = FirstOf(Callsign)
                \cup {n \in Positions : n < low /\ StartsWith(KeyAt(n), target)}
  BY DEF Collected
<1>4. {n \in Positions : n < low /\ StartsWith(KeyAt(n), target)}
        = {n \in Positions : StartsWith(KeyAt(n), target)}
  BY <1>2
<1> QED BY <1>3, <1>4

\* What SearchesAreScans says once a search is answered.
Scanned ==
    /\ Answered("exact") => Hits = FirstOf(target)
    /\ Answered("first") =>
           Hits = {n \in Positions : ~Less(KeyAt(n), target)
                       /\ \A m \in Positions : m < n => Less(KeyAt(m), target)}
    /\ Answered("after") =>
           Hits = {n \in Positions : Less(target, KeyAt(n))
                       /\ \A m \in Positions : m < n => ~Less(target, KeyAt(m))}
    /\ Answered("years") =>
           /\ Hits = {n \in Positions : StartsWith(KeyAt(n), target)}
                        \cup FirstOf(Callsign)
           /\ \A i, j \in 1..Len(hits) : i < j => hits[i] < hits[j]

LEMMA ScannedIsScan ==
    /\ SearchesAreScans <=> (Sorted => Scanned)
    /\ SearchesAreScans' <=> (Sorted' => Scanned')
BY DEF SearchesAreScans, Scanned, FirstOf

LEMMA ScannedStill ==
    ASSUME UNCHANGED <<file, entries, goal, target, hits>>
    PROVE  /\ Positions' = Positions /\ Hits' = Hits /\ Callsign' = Callsign
           /\ \A n : KeyAt(n)' = KeyAt(n)
           /\ FirstOf(target)' = FirstOf(target)
           /\ FirstOf(Callsign)' = FirstOf(Callsign)
           /\ Sorted' <=> Sorted
<1>1. /\ Positions' = Positions /\ Hits' = Hits /\ Callsign' = Callsign
      /\ \A n : KeyAt(n)' = KeyAt(n)
  BY DEF Positions, Hits, Callsign, KeyAt
<1>2. FirstOf(target)' = FirstOf(target) /\ FirstOf(Callsign)' = FirstOf(Callsign)
  BY <1>1 DEF FirstOf
<1>3. Sorted' <=> Sorted
  BY TableStill
<1> QED BY <1>1, <1>2, <1>3

LEMMA ScansKept ==
    ASSUME TypeOK, Flow, Knows, SearchesAreScans, [Next]_vars
    PROVE  SearchesAreScans'
<1>1. CASE IndexLine \/ Opened \/ Verify \/ VerifyLine \/ Verified
  <2>1. goal' = "none"
    BY <1>1 DEF IndexLine, Opened, Verify, VerifyLine, Verified, Flow
  <2> QED BY <2>1 DEF SearchesAreScans, Answered
<1>2. CASE \/ \E k \in Asked, g \in {"exact", "first", "after", "bare"} : Ask(g, k)
           \/ Probe \/ BareDone \/ YearsBegin \/ Collect
  <2>1. phase' # "idle"
    BY <1>2 DEF Ask, Probe, BareDone, YearsBegin, Collect, Decided
  <2> QED BY <2>1 DEF SearchesAreScans, Answered
<1>3. CASE ExactDone
  <2>1. /\ UNCHANGED <<file, entries, goal, target>> /\ phase = "bisect"
        /\ goal = "exact"
    BY <1>3 DEF ExactDone, Decided
  <2>2. Sorted' <=> Sorted
    BY <2>1, TableStill
  <2>3. FirstOf(target)' = FirstOf(target)
    BY <2>1, TableStill DEF FirstOf
  <2>4. Sorted => Hits' = FirstOf(target)
    BY <1>3, <2>1, ExactAnswer DEF Knows
  <2>5. Sorted' => Scanned'
    BY <2>1, <2>2, <2>3, <2>4 DEF Scanned, Answered
  <2> QED BY <2>5, ScannedIsScan
<1>4. CASE PointDone
  <2>1. /\ UNCHANGED <<file, entries, goal, target>> /\ phase = "bisect"
        /\ goal \in {"first", "after"}
    BY <1>4 DEF PointDone, Decided
  <2>2. /\ Sorted' <=> Sorted /\ Positions' = Positions
        /\ \A n : KeyAt(n)' = KeyAt(n)
    BY <2>1, TableStill
  <2>3. Sorted => Hits' = {n \in Positions : ~Comes(n)
                             /\ \A m \in Positions : m < n => Comes(m)}
    BY <1>4, <2>1, PointAnswer DEF Knows
  <2>4. CASE goal = "first"
    <3>1. Sorted' => Hits' = {n \in Positions : ~Less(KeyAt(n), target)
                       /\ \A m \in Positions : m < n => Less(KeyAt(m), target)}
      BY <2>2, <2>3, <2>4 DEF Comes
    <3>2. Sorted' => Scanned'
      BY <2>1, <2>2, <2>4, <3>1 DEF Scanned, Answered
    <3> QED BY <3>2, ScannedIsScan
  <2>5. CASE goal = "after"
    <3>1. Sorted' => Hits' = {n \in Positions : Less(target, KeyAt(n))
                       /\ \A m \in Positions : m < n => ~Less(target, KeyAt(m))}
      BY <2>2, <2>3, <2>5 DEF Comes
    <3>2. Sorted' => Scanned'
      BY <2>1, <2>2, <2>5, <3>1 DEF Scanned, Answered
    <3> QED BY <3>2, ScannedIsScan
  <2> QED BY <2>1, <2>4, <2>5
<1>5. CASE YearsDone
  <2>1. /\ UNCHANGED <<file, entries, goal, target, hits>> /\ phase = "collect"
        /\ ~InYears /\ goal = "years"
    BY <1>5 DEF YearsDone, Flow
  <2>2. /\ Positions' = Positions /\ Hits' = Hits /\ Callsign' = Callsign
        /\ \A n : KeyAt(n)' = KeyAt(n)
        /\ FirstOf(Callsign)' = FirstOf(Callsign)
        /\ Sorted' <=> Sorted
    BY <2>1, ScannedStill
  <2>3. Sorted => Hits = FirstOf(Callsign)
                     \cup {n \in Positions : StartsWith(KeyAt(n), target)}
    BY <2>1, YearsAnswer DEF Knows
  <2>4. Sorted => \A i, j \in 1..Len(hits) : i < j => hits[i] < hits[j]
    BY <2>1 DEF Knows, Collected
  <2>5. Sorted' => Scanned'
    BY <2>1, <2>2, <2>3, <2>4 DEF Scanned, Answered
  <2> QED BY <2>5, ScannedIsScan
<1>6. CASE UNCHANGED vars
  <2>1. UNCHANGED <<file, entries, goal, target, hits, phase>>
    BY <1>6 DEF vars
  <2>2. Scanned' <=> Scanned
    BY <2>1, ScannedStill DEF Scanned, Answered
  <2> QED BY <2>1, <2>2, ScannedStill, ScannedIsScan
<1> QED BY <1>1, <1>2, <1>3, <1>4, <1>5, <1>6 DEF Next

LEMMA OwnKept ==
    ASSUME TypeOK, Flow, OwnEntriesOnly, [Next]_vars
    PROVE  OwnEntriesOnly'
<1>1. ASSUME UNCHANGED <<file, entries, goal, target, hits>> PROVE OwnEntriesOnly'
  BY <1>1, ScannedStill DEF OwnEntriesOnly
<1>2. ASSUME hits' = <<>> PROVE OwnEntriesOnly'
  <2>1. Hits' = {}
    BY <1>2 DEF Hits
  <2> QED BY <2>1 DEF OwnEntriesOnly
<1>3. CASE IndexLine \/ Opened \/ Verify \/ VerifyLine \/ Verified
  BY <1>2, <1>3 DEF IndexLine, Opened, Verify, VerifyLine, Verified, Flow
<1>4. ASSUME NEW k \in Asked, NEW g \in {"exact", "first", "after", "bare"}, Ask(g, k)
      PROVE  OwnEntriesOnly'
  BY <1>2, <1>4 DEF Ask
<1>5. CASE Probe \/ YearsBegin \/ YearsDone
  BY <1>1, <1>5 DEF Probe, YearsBegin, YearsDone
<1>6. CASE PointDone
  BY <1>6 DEF PointDone, OwnEntriesOnly
<1>7. CASE ExactDone \/ BareDone
  <2>1. /\ UNCHANGED <<file, entries>> /\ target \in Key
        /\ hits' = IF InTable /\ KeyAt(low) = target THEN <<low>> ELSE <<>>
    BY <1>7 DEF ExactDone, BareDone, Bisect, TypeOK
  <2>2. CASE hits' # <<>>
    <3>1. hits' = <<low>> /\ KeyAt(low) = target
      BY <2>1, <2>2
    <3>2. Len(hits') = 1 /\ hits'[1] = low
      BY <3>1
    <3>3. \A i \in 1..Len(hits') : i = 1
      BY <3>2
    <3>4. \A n \in Hits' : n = low
      BY <3>2, <3>3 DEF Hits
    <3>5. \A n \in Hits' : KeyAt(n)' = target
      BY <2>1, <3>1, <3>4, TableStill
    <3>6. CASE ExactDone
      BY <3>5, <3>6 DEF ExactDone, OwnEntriesOnly
    <3>7. CASE BareDone
      <4>1. goal' = "years" /\ target' = Append(target, Colon)
        BY <3>7 DEF BareDone, Bisect
      <4>2. Callsign' = target
        BY <2>1, <4>1, FrontOfAppend DEF Callsign
      <4> QED BY <3>5, <4>1, <4>2 DEF OwnEntriesOnly
    <3> QED BY <1>7, <3>6, <3>7
  <2> QED BY <1>2, <2>2
<1>8. CASE Collect
  <2>1. /\ UNCHANGED <<file, entries, target, goal>> /\ goal = "years"
        /\ StartsWith(KeyAt(low), target) /\ hits' = Append(hits, low)
    BY <1>8 DEF Collect, InYears, Flow
  <2>2. /\ Len(hits) \in Nat /\ Len(hits') = Len(hits) + 1
        /\ hits'[Len(hits) + 1] = low
        /\ \A i \in 1..Len(hits) : hits'[i] = hits[i]
    BY <2>1 DEF TypeOK
  <2>3. \A i \in 1..Len(hits') : i \in 1..Len(hits) \/ i = Len(hits) + 1
    BY <2>2
  <2>4. \A n \in Hits' : n \in Hits \/ n = low
    BY <2>2, <2>3 DEF Hits
  <2>5. Callsign' = Callsign /\ \A n : KeyAt(n)' = KeyAt(n)
    BY <2>1, TableStill DEF Callsign
  <2> QED BY <2>1, <2>4, <2>5 DEF OwnEntriesOnly
<1>9. CASE UNCHANGED vars
  BY <1>1, <1>9 DEF vars
<1> QED BY <1>3, <1>4, <1>5, <1>6, <1>7, <1>8, <1>9 DEF Next

-----------------------------------------------------------------------------
(* Verifying.                                                               *)

\* The first k entries are in order of their keys, and of their offsets.
SortedTo(k) == \A m, n \in 1..k : m < n => ~Less(KeyAt(n), KeyAt(m))
RisingTo(k) == \A m, n \in 1..k : m < n => OffsetAt(m) < OffsetAt(n)

\* What verify has counted of the first entries tells whether they are.
Counted ==
    /\ report.entries <= Len(entries)
    /\ report.last = IF report.entries = 0 THEN 0 ELSE entries[report.entries]
    /\ report.order = 0 <=> SortedTo(report.entries)
    /\ report.offsets = 0 <=> RisingTo(report.entries)

\* The walk has given the entries of the lines it has passed.
Walked ==
    /\ phase = "verify" =>
           /\ Counted
           /\ ~report.complete
           /\ \A n \in Positions : n <= report.entries <=> entries[n] < line
    /\ report.complete =>
           /\ Counted
           /\ report.entries = Len(entries)
           /\ report.failures = IF lineCount > report.entries
                                THEN lineCount - report.entries ELSE 0
           /\ phase \notin {"index", "failed"}

LEMMA CountedStill ==
    ASSUME UNCHANGED <<file, entries, report>>
    PROVE  Counted' <=> Counted
BY DEF Counted, SortedTo, RisingTo, KeyAt, OffsetAt

\* The walk gives the entry behind the ones it has given.
LEMMA NextWalked ==
    ASSUME TypeOK, Table, Walked, phase = "verify", Terminated,
           file[line].kind = "entry"
    PROVE  /\ report.entries + 1 \in Positions
           /\ entries[report.entries + 1] = line
<1>1. /\ Len(entries) \in Nat /\ lineCount \in Nat /\ report.entries \in Nat
      /\ line \in 1..Len(file) /\ Len(file) \in Nat
      /\ \A n \in Positions : n \in Nat \ {0} /\ entries[n] \in Nat
  <2>1. Len(entries) \in Nat /\ lineCount \in Nat /\ Len(file) \in Nat
    BY FileFacts DEF TypeOK
  <2>2. report.entries \in Nat
    BY ReportParts DEF TypeOK
  <2>3. line \in 1..Len(file)
    BY <2>1 DEF TypeOK, Terminated
  <2>4. \A n \in Positions : n \in Nat \ {0} /\ entries[n] \in Nat
    BY <2>1, FileFacts DEF Positions
  <2> QED BY <2>1, <2>2, <2>3, <2>4
<1>2. line \in 1..lineCount
  <2>1. lineCount = Len(file) \/ file[lineCount + 1].kind = "unterminated"
    BY DEF Table
  <2>2. CASE file[lineCount + 1].kind = "unterminated" /\ lineCount < Len(file)
    <3>1. lineCount + 1 = Len(file)
      BY <1>1, <2>2, FileFacts
    <3>2. line # lineCount + 1
      BY <2>2 DEF Terminated
    <3> QED BY <1>1, <3>1, <3>2
  <2>3. lineCount <= Len(file)
    BY DEF Table
  <2> QED BY <1>1, <2>1, <2>2, <2>3
<1>3. PICK n \in Positions : entries[n] = line
  BY <1>2 DEF Table
<1>4. ~(n <= report.entries)
  BY <1>1, <1>3 DEF Walked
<1>5. report.entries + 1 \in Positions
  BY <1>1, <1>4 DEF Positions
<1>6. ~(report.entries + 1 < n)
  <2> SUFFICES ASSUME report.entries + 1 < n PROVE FALSE
    OBVIOUS
  <2>1. entries[report.entries + 1] < line
    BY <1>3, <1>5 DEF Table
  <2> QED BY <1>1, <1>5, <2>1 DEF Walked
<1> QED BY <1>1, <1>3, <1>4, <1>5, <1>6

\* One entry more is in order if it is in order with the one before it.
LEMMA SortedOn ==
    ASSUME TypeOK, NEW k \in Nat, k + 1 \in Positions
    PROVE  SortedTo(k + 1) <=>
               SortedTo(k) /\ ~(k # 0 /\ Less(KeyAt(k + 1), KeyAt(k)))
<1>1. \A n \in 1..(k + 1) : n \in Positions /\ KeyAt(n) \in Key /\ n \in Nat
  BY FileFacts DEF Positions
<1>2. \A n \in 1..(k + 1) : n \in 1..k \/ n = k + 1
  OBVIOUS
<1>3. ASSUME SortedTo(k + 1)
      PROVE  SortedTo(k) /\ ~(k # 0 /\ Less(KeyAt(k + 1), KeyAt(k)))
  <2>1. \A n \in 1..k : n \in 1..(k + 1)
    OBVIOUS
  <2>2. k # 0 => k \in 1..(k + 1) /\ k + 1 \in 1..(k + 1) /\ k < k + 1
    OBVIOUS
  <2> QED BY <1>3, <2>1, <2>2 DEF SortedTo
<1>4. ASSUME SortedTo(k), ~(k # 0 /\ Less(KeyAt(k + 1), KeyAt(k))),
             NEW m \in 1..(k + 1), NEW n \in 1..(k + 1), m < n
      PROVE  ~Less(KeyAt(n), KeyAt(m))
  <2>1. m \in 1..k
    BY <1>4
  <2>2. CASE n \in 1..k
    BY <1>4, <2>1, <2>2 DEF SortedTo
  <2>3. CASE n = k + 1
    <3>1. k \in 1..k /\ ~Less(KeyAt(k + 1), KeyAt(k))
      BY <1>4, <2>1
    <3>2. CASE m = k
      BY <2>3, <3>1, <3>2
    <3>3. CASE m < k
      <4>1. ~Less(KeyAt(k), KeyAt(m))
        BY <1>4, <2>1, <3>1, <3>3 DEF SortedTo
      <4> QED BY <1>1, <1>4, <2>1, <2>3, <3>1, <4>1, LessThenNotLess
    <3> QED BY <2>1, <3>2, <3>3
  <2> QED BY <1>2, <2>2, <2>3
<1>5. ASSUME SortedTo(k), ~(k # 0 /\ Less(KeyAt(k + 1), KeyAt(k)))
      PROVE  SortedTo(k + 1)
  BY <1>4, <1>5 DEF SortedTo
<1> QED BY <1>3, <1>5

LEMMA RisingOn ==
    ASSUME TypeOK, NEW k \in Nat, k + 1 \in Positions
    PROVE  RisingTo(k + 1) <=>
               RisingTo(k) /\ ~(k # 0 /\ OffsetAt(k + 1) <= OffsetAt(k))
<1>1. \A n \in 1..(k + 1) : n \in Positions /\ OffsetAt(n) \in Nat
  BY FileFacts DEF Positions
<1>2. \A n \in 1..(k + 1) : n \in 1..k \/ n = k + 1
  OBVIOUS
<1>3. ASSUME RisingTo(k + 1)
      PROVE  RisingTo(k) /\ ~(k # 0 /\ OffsetAt(k + 1) <= OffsetAt(k))
  <2>1. \A n \in 1..k : n \in 1..(k + 1)
    OBVIOUS
  <2>2. k # 0 => k \in 1..(k + 1) /\ k + 1 \in 1..(k + 1) /\ k < k + 1
    OBVIOUS
  <2>3. k # 0 => OffsetAt(k) < OffsetAt(k + 1)
    BY <1>3, <2>2 DEF RisingTo
  <2>4. ~(k # 0 /\ OffsetAt(k + 1) <= OffsetAt(k))
    BY <1>1, <2>2, <2>3
  <2> QED BY <1>3, <2>1, <2>4 DEF RisingTo
<1>4. ASSUME RisingTo(k), ~(k # 0 /\ OffsetAt(k + 1) <= OffsetAt(k)),
             NEW m \in 1..(k + 1), NEW n \in 1..(k + 1), m < n
      PROVE  OffsetAt(m) < OffsetAt(n)
  <2>1. m \in 1..k
    BY <1>4
  <2>2. CASE n \in 1..k
    BY <1>4, <2>1, <2>2 DEF RisingTo
  <2>3. CASE n = k + 1
    <3>1. k \in 1..k /\ k \in 1..(k + 1) /\ k + 1 \in 1..(k + 1) /\ k # 0
      BY <2>1
    <3>2. OffsetAt(k) < OffsetAt(k + 1)
      BY <1>1, <1>4, <3>1
    <3>3. CASE m < k
      <4>1. OffsetAt(m) < OffsetAt(k)
        BY <1>4, <2>1, <3>1, <3>3 DEF RisingTo
      <4>2. OffsetAt(m) \in Nat /\ OffsetAt(k) \in Nat /\ OffsetAt(k + 1) \in Nat
        BY <1>1, <3>1
      <4> QED BY <2>3, <3>2, <4>1, <4>2
    <3> QED BY <2>1, <2>3, <3>2, <3>3
  <2> QED BY <1>2, <2>2, <2>3
<1>5. ASSUME RisingTo(k), ~(k # 0 /\ OffsetAt(k + 1) <= OffsetAt(k))
      PROVE  RisingTo(k + 1)
  BY <1>4, <1>5 DEF RisingTo
<1> QED BY <1>3, <1>5

LEMMA WalkGoesOn ==
    ASSUME TypeOK, Table, Walked, VerifyLine
    PROVE  Walked'
<1>1. /\ UNCHANGED <<file, entries, lineCount, phase>> /\ phase = "verify"
      /\ Terminated /\ line' = line + 1
      /\ report' = IF file[line].kind = "entry" THEN Seen(report, line) ELSE report
  BY DEF VerifyLine
<1>2. /\ Len(entries) \in Nat /\ Len(file) \in Nat /\ line \in 1..Len(file)
      /\ \A n \in Positions : n \in Nat \ {0} /\ entries[n] \in 1..Len(file)
  <2>1. Len(entries) \in Nat /\ Len(file) \in Nat
    BY FileFacts
  <2>2. line \in 1..Len(file)
    BY <1>1, <2>1 DEF TypeOK, Terminated
  <2>3. \A n \in Positions : n \in Nat \ {0} /\ entries[n] \in 1..Len(file)
    BY <2>1, FileFacts DEF Positions
  <2> QED BY <2>1, <2>2, <2>3
<1>3. report \in Report /\ Counted /\ ~report.complete
      /\ \A n \in Positions : n <= report.entries <=> entries[n] < line
  BY <1>1 DEF TypeOK, Walked
<1> DEFINE k == report.entries
<1>4. /\ k \in Nat /\ k <= Len(entries) /\ Positions' = Positions
      /\ \A n \in Positions : n <= k <=> entries[n] < line
  BY <1>1, <1>3, ReportParts DEF Counted, Positions
<1> HIDE DEF k
<1>5. CASE file[line].kind = "entry"
  <2>1. k + 1 \in Positions /\ entries[k + 1] = line
    BY <1>1, <1>5, NextWalked DEF k
  <2>2. /\ report' = Seen(report, line)
        /\ report'.entries = k + 1 /\ report'.last = line
        /\ report'.complete = report.complete
        /\ report'.order =
               IF report.last # 0 /\ Less(file[line].key, file[report.last].key)
               THEN report.order + 1 ELSE report.order
        /\ report'.offsets =
               IF report.last # 0 /\ file[line].offset <= file[report.last].offset
               THEN report.offsets + 1 ELSE report.offsets
    BY <1>1, <1>2, <1>3, <1>5, SeenTyped DEF k
  <2>3. /\ report.last # 0 <=> k # 0
        /\ k # 0 => report.last = entries[k] /\ k \in Positions
    <3>1. k # 0 => k \in Positions
      BY <1>4 DEF Positions
    <3> QED BY <1>2, <1>3, <3>1 DEF Counted, k
  <2>4. /\ KeyAt(k + 1) = file[line].key /\ OffsetAt(k + 1) = file[line].offset
        /\ k # 0 => /\ KeyAt(k) = file[report.last].key
                    /\ OffsetAt(k) = file[report.last].offset
    BY <2>1, <2>3 DEF KeyAt, OffsetAt
  <2>5. report.order \in Nat /\ report.offsets \in Nat
    BY <1>3, ReportParts
  <2>6. report'.order = 0 <=>
            report.order = 0 /\ ~(k # 0 /\ Less(KeyAt(k + 1), KeyAt(k)))
    BY <2>2, <2>3, <2>4, <2>5
  <2>7. report'.offsets = 0 <=>
            report.offsets = 0 /\ ~(k # 0 /\ OffsetAt(k + 1) <= OffsetAt(k))
    BY <2>2, <2>3, <2>4, <2>5
  <2>8. (report.order = 0 <=> SortedTo(k)) /\ (report.offsets = 0 <=> RisingTo(k))
    BY <1>3 DEF Counted, k
  <2>9. /\ report'.order = 0 <=> SortedTo(k + 1)
        /\ report'.offsets = 0 <=> RisingTo(k + 1)
    BY <1>4, <2>1, <2>6, <2>7, <2>8, SortedOn, RisingOn
  <2>10. /\ \A n : KeyAt(n)' = KeyAt(n) /\ OffsetAt(n)' = OffsetAt(n)
    BY <1>1 DEF KeyAt, OffsetAt
  <2>11. /\ SortedTo(report.entries)' <=> SortedTo(k + 1)
         /\ RisingTo(report.entries)' <=> RisingTo(k + 1)
    BY <2>2, <2>10 DEF SortedTo, RisingTo
  <2>12. k + 1 <= Len(entries) /\ k + 1 # 0
    BY <1>2, <1>4, <2>1 DEF Positions
  <2>13. Counted'
    BY <1>1, <2>1, <2>2, <2>9, <2>11, <2>12 DEF Counted
  <2>14. \A n \in Positions : n <= k + 1 <=> entries[n] < line + 1
    <3> SUFFICES ASSUME NEW n \in Positions
                 PROVE  n <= k + 1 <=> entries[n] < line + 1
      OBVIOUS
    <3>1. CASE n <= k + 1
      <4>1. n <= k \/ n = k + 1
        BY <1>2, <1>4, <3>1
      <4> QED BY <1>2, <1>4, <2>1, <3>1, <4>1
    <3>2. CASE ~(n <= k + 1)
      <4>1. k + 1 < n
        BY <1>2, <1>4, <3>2
      <4>2. line < entries[n]
        BY <2>1, <4>1 DEF Table
      <4> QED BY <1>2, <3>2, <4>2
    <3> QED BY <3>1, <3>2
  <2> QED BY <1>1, <1>3, <1>4, <2>2, <2>13, <2>14 DEF Walked
<1>6. CASE file[line].kind # "entry"
  <2>1. report' = report
    BY <1>1, <1>6
  <2>2. \A n \in Positions : entries[n] # line
    BY <1>6 DEF Table
  <2>3. \A n \in Positions : n <= k <=> entries[n] < line + 1
    BY <1>2, <1>4, <2>2
  <2>4. Counted'
    BY <1>1, <1>3, <2>1, CountedStill
  <2> QED BY <1>1, <1>3, <1>4, <2>1, <2>3, <2>4 DEF Walked, k
<1> QED BY <1>5, <1>6

\* At the end of the walk it has given all entries.
LEMMA WalkEnds ==
    ASSUME TypeOK, Table, Walked, Verified
    PROVE  Walked'
<1>1. /\ UNCHANGED <<file, entries, lineCount, line>> /\ phase = "verify"
      /\ phase' = "idle" /\ ~Terminated
  BY DEF Verified
<1>2. report \in Report /\ Counted
      /\ \A n \in Positions : n <= report.entries <=> entries[n] < line
  BY <1>1 DEF TypeOK, Walked
<1>3. lineCount \in Nat /\ report.entries \in Nat
  BY <1>2, ReportParts DEF TypeOK
<1> DEFINE m == IF lineCount > report.entries
                THEN lineCount - report.entries ELSE 0
<1>4. m \in Nat
  BY <1>3
<1>5. report' = [report EXCEPT !.failures = m, !.complete = TRUE]
  BY DEF Verified
<1>6. /\ report'.entries = report.entries /\ report'.order = report.order
      /\ report'.offsets = report.offsets /\ report'.failures = m
      /\ report'.last = report.last
  <2> HIDE DEF m
  <2> DEFINE c == TRUE
  <2>1. c \in BOOLEAN
    OBVIOUS
  <2>2. report' = [report EXCEPT !.failures = m, !.complete = c]
    BY <1>5
  <2>3. report \in Report
    BY <1>2
  <2> HIDE DEF c
  <2>4. report' = [entries |-> report.entries, order |-> report.order,
                   offsets |-> report.offsets, failures |-> m,
                   last |-> report.last, complete |-> c]
    BY <1>4, <2>1, <2>2, <2>3, ClosedTyped, Zenon
  <2> QED BY <2>4
<1>7. report.entries = Len(entries)
  <2>1. /\ Len(entries) \in Nat /\ Len(file) \in Nat /\ line \in Nat \ {0}
        /\ \A n \in Positions : entries[n] \in Nat
    BY FileFacts DEF TypeOK
  <2>2. lineCount < line
    <3>1. line > Len(file) \/ file[line].kind = "unterminated"
      BY <1>1, <2>1 DEF Terminated
    <3>2. lineCount <= Len(file)
          /\ \A l \in 1..lineCount : file[l].kind # "unterminated"
      BY DEF Table
    <3> QED BY <1>3, <2>1, <3>1, <3>2
  <2>3. \A n \in Positions : entries[n] < line
    BY <1>3, <2>1, <2>2 DEF Table
  <2>4. CASE Len(entries) = 0
    BY <1>2, <1>3, <2>4 DEF Counted
  <2>5. CASE Len(entries) # 0
    <3>1. Len(entries) \in Positions
      BY <2>1, <2>5 DEF Positions
    <3>2. Len(entries) <= report.entries
      BY <1>2, <2>3, <3>1
    <3> QED BY <1>2, <1>3, <2>1, <3>2 DEF Counted
  <2> QED BY <2>4, <2>5
<1>8. Counted'
  <2>1. /\ \A n : KeyAt(n)' = KeyAt(n) /\ OffsetAt(n)' = OffsetAt(n)
    BY <1>1 DEF KeyAt, OffsetAt
  <2>2. /\ SortedTo(report.entries)' <=> SortedTo(report.entries)
        /\ RisingTo(report.entries)' <=> RisingTo(report.entries)
    BY <1>6, <2>1 DEF SortedTo, RisingTo
  <2> QED BY <1>1, <1>2, <1>6, <2>2 DEF Counted
<1> QED BY <1>1, <1>6, <1>7, <1>8 DEF Walked

LEMMA WalkedKept ==
    ASSUME TypeOK, Table, Flow, Walked, [Next]_vars
    PROVE  Walked'
<1>1. CASE IndexLine \/ Opened
  <2>1. phase' # "verify" /\ ~report'.complete
    BY <1>1 DEF IndexLine, Opened, Flow, NoReport
  <2> QED BY <2>1 DEF Walked
<1>2. ASSUME NEW k \in Asked, NEW g \in {"exact", "first", "after", "bare"}, Ask(g, k)
      PROVE  Walked'
  <2>1. phase' # "verify" /\ ~report'.complete
    BY <1>2 DEF Ask, NoReport
  <2> QED BY <2>1 DEF Walked
<1>3. CASE Probe \/ PointDone \/ ExactDone \/ BareDone \/ YearsBegin \/ Collect
           \/ YearsDone
  <2>1. /\ UNCHANGED <<file, entries, lineCount, report>>
        /\ phase' \notin {"verify", "index", "failed"}
    BY <1>3 DEF Probe, PointDone, ExactDone, BareDone, YearsBegin, Collect, YearsDone,
                Bisect, Decided
  <2>2. Counted' <=> Counted
    BY <2>1, CountedStill
  <2> QED BY <2>1, <2>2 DEF Walked
<1>4. CASE Verify
  <2>1. /\ UNCHANGED <<file, entries>> /\ phase' = "verify" /\ line' = 1
        /\ report' = NoReport
    BY <1>4 DEF Verify
  <2>2. /\ report'.entries = 0 /\ report'.order = 0 /\ report'.offsets = 0
        /\ report'.last = 0 /\ ~report'.complete
    BY <2>1 DEF NoReport
  <2>3. /\ Len(entries) \in Nat /\ Positions' = Positions
        /\ \A n \in Positions : n \in Nat \ {0} /\ entries[n] \in Nat \ {0}
    <3>1. Len(entries) \in Nat /\ Len(file) \in Nat
      BY FileFacts
    <3>2. \A n \in Positions : n \in Nat \ {0} /\ entries[n] \in 1..Len(file)
      BY <3>1, FileFacts DEF Positions
    <3> QED BY <2>1, <3>1, <3>2 DEF Positions
  <2>4. SortedTo(report.entries)' /\ RisingTo(report.entries)'
    <3>1. \A n \in 1..report'.entries : FALSE
      BY <2>2
    <3> QED BY <3>1 DEF SortedTo, RisingTo
  <2>5. Counted'
    BY <2>1, <2>2, <2>3, <2>4 DEF Counted
  <2>6. \A n \in Positions' : ~(n <= report'.entries) /\ ~(entries'[n] < line')
    BY <2>1, <2>2, <2>3
  <2> QED BY <2>1, <2>2, <2>5, <2>6 DEF Walked
<1>5. CASE VerifyLine
  BY <1>5, WalkGoesOn
<1>6. CASE Verified
  BY <1>6, WalkEnds
<1>7. CASE UNCHANGED vars
  <2>1. UNCHANGED <<file, entries, lineCount, report, phase, line>>
    BY <1>7 DEF vars
  <2> QED BY <2>1, CountedStill DEF Walked, Positions
<1> QED BY <1>1, <1>2, <1>3, <1>4, <1>5, <1>6, <1>7 DEF Next

LEMMA WalkedIsSound ==
    ASSUME TypeOK, Table, Walked
    PROVE  CleanMeansSound
<1> SUFFICES ASSUME report.complete
             PROVE  Clean(report) <=>
                        /\ Len(entries) = lineCount
                        /\ Sorted
                        /\ \A m, n \in Positions : m < n => OffsetAt(m) < OffsetAt(n)
  BY DEF CleanMeansSound
<1>1. /\ Counted /\ report.entries = Len(entries)
      /\ report.failures = IF lineCount > report.entries
                           THEN lineCount - report.entries ELSE 0
      /\ phase \notin {"index", "failed"}
  BY DEF Walked
<1>2. /\ Len(entries) \in Nat /\ lineCount \in Nat
      /\ lineCount > 0 /\ Len(entries) <= lineCount
  BY <1>1, FileFacts DEF TypeOK, Table
<1>3. report.failures = 0 <=> Len(entries) = lineCount
  BY <1>1, <1>2
<1>4. report.order = 0 <=> Sorted
  BY <1>1 DEF Counted, SortedTo, Sorted, Positions
<1>5. report.offsets = 0 <=>
          \A m, n \in Positions : m < n => OffsetAt(m) < OffsetAt(n)
  BY <1>1 DEF Counted, RisingTo, Positions
<1>6. Len(entries) = lineCount => report.entries > 0
  BY <1>1, <1>2
<1> QED BY <1>3, <1>4, <1>5, <1>6 DEF Clean

-----------------------------------------------------------------------------
(* The theorems.                                                            *)

IndInv ==
    /\ TypeOK
    /\ Table
    /\ Flow
    /\ Knows
    /\ SearchesAreScans
    /\ OwnEntriesOnly
    /\ Walked

LEMMA Initially == Init => IndInv
<1> SUFFICES ASSUME Init PROVE IndInv
  OBVIOUS
<1>1. /\ Len(file) \in Nat /\ stride \in Nat \ {0}
      /\ \A i \in 1..Len(file) : file[i].kind = "unterminated" => i = Len(file)
  BY FilesAssumption, StridesAssumption DEF Init, IsFile
<1>2. NoReport \in Report
  <2>1. 0 \in Nat /\ 0 \in 0..Len(file) /\ FALSE \in BOOLEAN
    BY <1>1
  <2> QED BY <2>1, Zenon DEF NoReport, Report
<1>3. TypeOK
  BY <1>1, <1>2 DEF Init, TypeOK, Positions, Key
<1>4. Table
  BY <1>1 DEF Init, Table, Positions, AnchorsReach
<1>5. Flow /\ Knows
  BY DEF Init, Flow, Knows
<1>6. SearchesAreScans /\ OwnEntriesOnly
  BY DEF Init, SearchesAreScans, Answered, OwnEntriesOnly
<1>7. Walked
  BY DEF Init, Walked, NoReport
<1> QED BY <1>3, <1>4, <1>5, <1>6, <1>7 DEF IndInv

LEMMA Kept == IndInv /\ [Next]_vars => IndInv'
BY TypeKept, TableKept, FlowKept, KnowsKept, ScansKept, OwnKept, WalkedKept
DEF IndInv

\* All that the theorems need is inductive together.
THEOREM Invariant == Spec => []IndInv
BY Initially, Kept, PTL DEF Spec

\* The table, the directory and the undecided part of it keep their types, for
\* any file and stride.
THEOREM TypeCorrect == Spec => []TypeOK
<1>1. IndInv => TypeOK
  BY DEF IndInv
<1> QED BY <1>1, Invariant, PTL

\* A search returns only entries of what was asked for, however a file is
\* ordered and whichever entries the bisection looks at.
THEOREM OwnEntries == Spec => []OwnEntriesOnly
<1>1. IndInv => OwnEntriesOnly
  BY DEF IndInv
<1> QED BY <1>1, Invariant, PTL

\* In a sorted file every search is a scan, whichever entries the bisection looks
\* at.
THEOREM SearchesCorrect == Spec => []SearchesAreScans
<1>1. IndInv => SearchesAreScans
  BY DEF IndInv
<1> QED BY <1>1, Invariant, PTL

\* verify calls exactly those files clean that the searches can rely on.
THEOREM CleanSound == Spec => []CleanMeansSound
<1>1. IndInv => CleanMeansSound
  BY WalkedIsSound DEF IndInv
<1> QED BY <1>1, Invariant, PTL
=============================================================================
