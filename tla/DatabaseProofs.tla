---------------------------- MODULE DatabaseProofs ----------------------------
(***************************************************************************)
(* Theorems about what a database is made of: how it is opened (Station,   *)
(* OpenDb), its country tables (CountryTable), the keys and the scans of   *)
(* hamcall.dat (DatCodec, DatScan), and the assets of a station (Assets).  *)
(***************************************************************************)
EXTENDS Station, DatCodec, DatScan, TLAPS, WellFoundedInduction, SequenceTheorems,
        FiniteSetTheorems

\* A set of natural numbers has a least one.
LEMMA LeastNumber ==
    ASSUME NEW S \in SUBSET Nat, S # {}
    PROVE  \E n \in S : \A m \in S : n <= m
  <1>1. PICK n \in S : \A m \in S : ~(<<m, n>> \in OpToRel(<, Nat))
    BY NatLessThanWellFounded, WFMin, Zenon
  <1>2. \A m \in S : ~(m < n)
    BY <1>1 DEF OpToRel
  <1> QED
    BY <1>2

\* The least of a set of numbers is the one that is at most every other.
LEMMA MinIs ==
    ASSUME NEW S \in SUBSET Nat, NEW m \in S, \A y \in S : m <= y
    PROVE  Min(S) = m
  <1>1. \A x \in S : (\A y \in S : x <= y) => x = m
    OBVIOUS
  <1>2. Min(S) \in S /\ \A y \in S : Min(S) <= y
    BY DEF Min
  <1> QED
    BY <1>1, <1>2

\* The greatest is the one that is at least every other.
LEMMA MaxIs ==
    ASSUME NEW S \in SUBSET Nat, NEW m \in S, \A y \in S : y <= m
    PROVE  Max(S) = m
  <1>1. \A x \in S : (\A y \in S : x >= y) => x = m
    OBVIOUS
  <1>2. \A y \in S : m >= y
    OBVIOUS
  <1>3. Max(S) \in S /\ \A y \in S : Max(S) >= y
    BY <1>2 DEF Max
  <1> QED
    BY <1>1, <1>3

Prefix == Text \ {<<>>}

\* ASCII characters are bytes.
LEMMA AsciiIsText ==
    ASSUME NEW text \in AsciiText
    PROVE  text \in Text
  BY DEF AsciiText, Text, Ascii, Byte

\* A byte is a number.
LEMMA ByteIsNat ==
    ASSUME NEW b \in Byte
    PROVE  b \in Nat /\ b <= 255
  BY DEF Byte

-----------------------------------------------------------------------------
(* The country tables *)

\* A head of a text that is not empty has the text's first byte.
LEMMA TakeFirst ==
    ASSUME NEW text \in Text, text # <<>>, NEW width \in Nat, width > 0
    PROVE  /\ Take(text, width) \in Text
           /\ Len(Take(text, width)) > 0
           /\ Len(Take(text, width)) = IF width < Len(text) THEN width ELSE Len(text)
           /\ Take(text, width)[1] = text[1]
  <1>1. Len(text) \in Nat /\ Len(text) > 0
    BY DEF Text
  <1> DEFINE w == IF width < Len(text) THEN width ELSE Len(text)
  <1>2. w \in 1..Len(text)
    BY <1>1
  <1>3. /\ SubSeq(text, 1, w) \in Seq(Byte)
        /\ Len(SubSeq(text, 1, w)) = w
        /\ SubSeq(text, 1, w)[1] = text[1]
    BY <1>1, <1>2 DEF Text
  <1>4. Take(text, width) = SubSeq(text, 1, w)
    BY DEF Take
  <1> QED
    BY <1>1, <1>2, <1>3, <1>4 DEF Text

\* A text that is at most another does not begin with a greater byte.
LEMMA AtMostFirst ==
    ASSUME NEW lower \in Text, NEW upper \in Text, lower # <<>>, upper # <<>>,
           AtMost(lower, upper)
    PROVE  lower[1] <= upper[1]
  <1>1. /\ Len(lower) \in Nat /\ Len(lower) > 0 /\ Len(upper) \in Nat /\ Len(upper) > 0
        /\ DOMAIN lower = 1..Len(lower) /\ DOMAIN upper = 1..Len(upper)
        /\ lower[1] \in Nat /\ upper[1] \in Nat
    <2>1. /\ Len(lower) \in Nat /\ Len(lower) > 0 /\ Len(upper) \in Nat /\ Len(upper) > 0
          /\ DOMAIN lower = 1..Len(lower) /\ DOMAIN upper = 1..Len(upper)
          /\ lower[1] \in Byte /\ upper[1] \in Byte
      BY DEF Text
    <2> QED
      BY <2>1, ByteIsNat
  <1>2. CASE StartsWith(upper, lower)
    <2>1. Take(upper, Len(lower))[1] = upper[1]
      BY <1>1, TakeFirst
    <2>2. lower[1] = upper[1]
      BY <1>2, <2>1 DEF StartsWith
    <2> QED
      BY <1>1, <2>2
  <1>3. CASE Precedes(lower, upper)
    <2>1. PICK i \in DOMAIN lower \cap DOMAIN upper :
              lower[i] < upper[i] /\ \A j \in 1..(i - 1) : lower[j] = upper[j]
      BY <1>3 DEF Precedes
    <2>2. CASE i = 1
      BY <2>1, <2>2, <1>1
    <2>3. CASE i # 1
      <3>1. 1 \in 1..(i - 1)
        BY <2>1, <2>3, <1>1
      <3> QED
        BY <2>1, <3>1, <1>1
    <2> QED
      BY <2>2, <2>3
  <1> QED
    BY <1>2, <1>3 DEF AtMost

\* The index of first bytes offers every rule that matches a callsign: no prefix that ends
\* in a range of letters is overlooked (build_first_byte_index, prefix_range_matches).
THEOREM MatchingRuleOffered ==
    ASSUME NEW call \in Text, call # <<>>, call[1] \in Ascii,
           NEW start \in Prefix, NEW end \in Prefix,
           prefix_range_matches(call, start, end)
    PROVE  call[1] \in matching_first_bytes(start, end)
  <1>1. /\ call \in Text /\ start \in Text /\ end \in Text
        /\ start # <<>> /\ end # <<>>
        /\ Len(start) \in Nat /\ Len(end) \in Nat /\ Len(start) > 0 /\ Len(end) > 0
        /\ start[1] \in Nat /\ end[1] \in Nat /\ call[1] \in Nat
    <2>1. /\ call \in Text /\ start \in Text /\ end \in Text
          /\ start # <<>> /\ end # <<>>
          /\ Len(start) \in Nat /\ Len(end) \in Nat /\ Len(start) > 0 /\ Len(end) > 0
          /\ start[1] \in Byte /\ end[1] \in Byte /\ call[1] \in Byte
      BY DEF Prefix, Text
    <2> QED
      BY <2>1, ByteIsNat
  <1> DEFINE low == start[1]
             high == end[1]
  <1>a. matching_first_bytes(start, end)
          = {byte \in Ascii : byte \in low..high \/ byte \in high..low}
    BY <1>1 DEF matching_first_bytes, FirstByte
  <1>2. CASE start = end
    <2>1. Take(call, Len(start)) = start
      BY <1>2 DEF prefix_range_matches, StartsWith
    <2>2. call[1] = start[1]
      BY <1>1, <2>1, TakeFirst
    <2> QED
      BY <1>1, <1>2, <1>a, <2>2
  <1>3. CASE start # end
    <2> DEFINE longest == IF Len(start) > Len(end) THEN Len(start) ELSE Len(end)
               head == Take(call, longest)
    <2>1. longest \in Nat /\ longest > 0
      BY <1>1
    <2>2. head \in Text /\ Len(head) > 0 /\ Len(head) \in Nat /\ head # <<>> /\ head[1] = call[1]
      <3> HIDE DEF longest
      <3>1. head \in Text /\ Len(head) > 0 /\ head[1] = call[1]
        BY <2>1, TakeFirst
      <3> QED
        BY <3>1 DEF Text
    <2>3. AtMost(Take(start, Len(head)), head) /\ AtMost(head, Take(end, Len(head)))
      BY <1>3 DEF prefix_range_matches
    <2> HIDE DEF head
    <2>4. /\ Take(start, Len(head)) \in Text /\ Take(start, Len(head)) # <<>>
          /\ Take(start, Len(head))[1] = start[1]
      <3>1. /\ Take(start, Len(head)) \in Text /\ Len(Take(start, Len(head))) > 0
            /\ Take(start, Len(head))[1] = start[1]
        BY <1>1, <2>2, TakeFirst
      <3> QED
        BY <3>1 DEF Text
    <2>5. /\ Take(end, Len(head)) \in Text /\ Take(end, Len(head)) # <<>>
          /\ Take(end, Len(head))[1] = end[1]
      <3>1. /\ Take(end, Len(head)) \in Text /\ Len(Take(end, Len(head))) > 0
            /\ Take(end, Len(head))[1] = end[1]
        BY <1>1, <2>2, TakeFirst
      <3> QED
        BY <3>1 DEF Text
    <2>6. start[1] <= call[1] /\ call[1] <= end[1]
      BY <2>2, <2>3, <2>4, <2>5, AtMostFirst
    <2> QED
      BY <1>1, <1>a, <2>6
  <1> QED
    BY <1>2, <1>3

\* Upper-casing leaves a text a text of the same length.
LEMMA UpperCaseText ==
    ASSUME NEW text \in Text
    PROVE  to_ascii_uppercase(text) \in Text
  <1> DEFINE upper == [i \in 1..Len(text) |->
                          IF text[i] \in 97..122 THEN text[i] - 32 ELSE text[i]]
  <1>1. to_ascii_uppercase(text) = upper
    BY DEF to_ascii_uppercase, Text
  <1>2. ASSUME NEW i \in 1..Len(text)
        PROVE  upper[i] \in Byte
    <2>1. text[i] \in Byte
      BY DEF Text
    <2> QED
      BY <2>1 DEF Byte
  <1>3. Len(text) \in Nat
    BY DEF Text
  <1> QED
    BY <1>1, <1>2, <1>3 DEF Text

\* Whatever the rules are, the lookup through the index finds the country that the walk
\* through the whole table finds (CountryTable::lookup_info, lookup_linear).
THEOREM IndexedLookupIsLinear ==
    ASSUME NEW Country, NEW rules \in Seq([start : Prefix, end : Prefix, country : Country]),
           NEW callsign \in Text
    PROVE  lookup_info(rules, callsign) = lookup_linear(rules, callsign)
  <1> DEFINE call == to_ascii_uppercase(callsign)
             indexed == call # <<>> /\ call[1] \in Ascii
             Hits(positions) == {i \in positions :
                                    prefix_range_matches(call, rules[i].start, rules[i].end)}
  <1>1. call \in Text
    BY UpperCaseText
  <1>2. CASE ~indexed
    BY <1>2 DEF lookup_info, lookup_linear
  <1>3. CASE indexed
    <2>1. build_first_byte_index(rules)[call[1]]
            = {i \in DOMAIN rules : call[1] \in matching_first_bytes(rules[i].start, rules[i].end)}
      BY <1>3 DEF build_first_byte_index
    <2>2. ASSUME NEW i \in DOMAIN rules,
                 prefix_range_matches(call, rules[i].start, rules[i].end)
          PROVE  call[1] \in matching_first_bytes(rules[i].start, rules[i].end)
      <3> DEFINE Rule == [start : Prefix, end : Prefix, country : Country]
      <3>1. rules[i] \in Rule
        <4>1. rules \in Seq(Rule)
          OBVIOUS
        <4> HIDE DEF Rule
        <4> QED
          BY <4>1
      <3>2. rules[i].start \in Prefix /\ rules[i].end \in Prefix
        BY <3>1
      <3> HIDE DEF call
      <3> QED
        BY <1>1, <1>3, <2>2, <3>2, MatchingRuleOffered
    <2>3. Hits(build_first_byte_index(rules)[call[1]]) = Hits(DOMAIN rules)
      BY <2>1, <2>2
    <2>4. FirstMatch(rules, build_first_byte_index(rules)[call[1]], call)
            = FirstMatch(rules, DOMAIN rules, call)
      <3> DEFINE Least(hits) == IF hits = {} THEN None
                                ELSE Some(rules[CHOOSE i \in hits :
                                                    \A j \in hits : i <= j].country)
      <3>1. ASSUME NEW positions
            PROVE  FirstMatch(rules, positions, call) = Least(Hits(positions))
        <4> HIDE DEF call
        <4> QED
          BY DEF FirstMatch
      <3> HIDE DEF Least, Hits, call
      <3> QED
        BY <2>3, <3>1
    <2> QED
      BY <1>3, <2>4 DEF lookup_info, lookup_linear
  <1> QED
    BY <1>2, <1>3


-----------------------------------------------------------------------------
(* The order of the country rules *)

\* The order of strings is one: nothing precedes itself, what precedes what precedes a third
\* precedes it, and of two texts of a length that are not the same one precedes the other.
LEMMA PrecedesIsOrder ==
    /\ \A a \in Text : ~Precedes(a, a)
    /\ \A a, b, c \in Text : Precedes(a, b) /\ Precedes(b, c) => Precedes(a, c)
    /\ \A a, b \in Text : Len(a) = Len(b) /\ a # b => Precedes(a, b) \/ Precedes(b, a)
  <1>1. \A a \in Text : \A i \in DOMAIN a : a[i] \in Nat
    <2>1. \A a \in Text : \A i \in DOMAIN a : a[i] \in Byte
      BY DEF Text
    <2> QED
      BY <2>1, ByteIsNat
  <1>2. \A a \in Text : Len(a) \in Nat /\ DOMAIN a = 1..Len(a)
    BY DEF Text
  <1>3. \A a \in Text : ~Precedes(a, a)
    BY <1>1 DEF Precedes
  <1>4. ASSUME NEW a \in Text, NEW b \in Text, NEW c \in Text, Precedes(a, b), Precedes(b, c)
        PROVE  Precedes(a, c)
    <2>1. PICK i \in DOMAIN a \cap DOMAIN b : a[i] < b[i] /\ \A j \in 1..(i - 1) : a[j] = b[j]
      BY <1>4 DEF Precedes
    <2>2. PICK k \in DOMAIN b \cap DOMAIN c : b[k] < c[k] /\ \A j \in 1..(k - 1) : b[j] = c[j]
      BY <1>4 DEF Precedes
    <2>3. /\ i \in 1..Len(a) /\ i \in 1..Len(b) /\ k \in 1..Len(b) /\ k \in 1..Len(c)
          /\ Len(a) \in Nat /\ Len(b) \in Nat /\ Len(c) \in Nat
      BY <1>2
    <2>4. CASE i < k
      <3>1. i \in DOMAIN a \cap DOMAIN c /\ b[i] = c[i]
        BY <1>2, <2>2, <2>3, <2>4
      <3>2. \A j \in 1..(i - 1) : a[j] = c[j]
        <4>1. \A j \in 1..(i - 1) : j \in 1..(k - 1)
          BY <2>3, <2>4
        <4> QED
          BY <2>1, <2>2, <4>1
      <3> QED
        BY <2>1, <3>1, <3>2 DEF Precedes
    <2>5. CASE k < i
      <3>1. k \in DOMAIN a \cap DOMAIN c /\ a[k] = b[k]
        BY <1>2, <2>1, <2>3, <2>5
      <3>2. \A j \in 1..(k - 1) : a[j] = c[j]
        <4>1. \A j \in 1..(k - 1) : j \in 1..(i - 1)
          BY <2>3, <2>5
        <4> QED
          BY <2>1, <2>2, <4>1
      <3> QED
        BY <2>2, <3>1, <3>2 DEF Precedes
    <2>6. CASE i = k
      <3>1. i \in DOMAIN a \cap DOMAIN c /\ a[i] \in Nat /\ b[i] \in Nat /\ c[i] \in Nat
        BY <1>1, <2>6
      <3>2. a[i] < c[i]
        BY <2>1, <2>2, <2>6, <3>1
      <3>3. \A j \in 1..(i - 1) : a[j] = c[j]
        BY <2>1, <2>2, <2>6
      <3> QED
        BY <3>1, <3>2, <3>3 DEF Precedes
    <2> QED
      BY <2>3, <2>4, <2>5, <2>6
  <1>5. ASSUME NEW a \in Text, NEW b \in Text, Len(a) = Len(b), a # b
        PROVE  Precedes(a, b) \/ Precedes(b, a)
    <2> DEFINE D == {i \in 1..Len(a) : a[i] # b[i]}
    <2>1. D # {}
      BY <1>5 DEF Text
    <2>2. D \in SUBSET Nat
      BY <1>2
    <2>3. PICK i \in D : \A j \in D : i <= j
      <3> HIDE DEF D
      <3> QED
        BY <2>1, <2>2, LeastNumber
    <2>4. i \in DOMAIN a \cap DOMAIN b /\ i \in Nat /\ a[i] \in Nat /\ b[i] \in Nat /\ a[i] # b[i]
      BY <1>1, <1>2, <1>5, <2>3
    <2>5. ASSUME NEW j \in 1..(i - 1)
          PROVE  a[j] = b[j]
      <3>1. j \in 1..Len(a) /\ j < i /\ j \in Nat
        BY <1>2, <2>3, <2>4
      <3>2. j \notin D
        BY <2>3, <2>4, <3>1
      <3> QED
        BY <3>1, <3>2
    <2>6. a[i] < b[i] \/ b[i] < a[i]
      BY <2>4
    <2> QED
      BY <2>4, <2>5, <2>6 DEF Precedes
  <1> QED
    BY <1>3, <1>4, <1>5

\* The order of the rules is one, in which rules of one prefix are equal.
LEMMA BeforeIsOrder ==
    ASSUME NEW r, NEW s, NEW t, r.start \in Text, s.start \in Text, t.start \in Text
    PROVE  /\ ~Before(r, r)
           /\ Before(r, s) /\ Before(s, t) => Before(r, t)
           /\ Before(r, t) => Before(r, s) \/ Before(s, t)
  <1> DEFINE a == r.start  b == s.start  c == t.start
  <1>1. Len(a) \in Nat /\ Len(b) \in Nat /\ Len(c) \in Nat
    BY DEF Text
  <1>2. /\ ~Precedes(a, a)
        /\ Precedes(a, b) /\ Precedes(b, c) => Precedes(a, c)
        /\ Len(a) = Len(b) => a = b \/ Precedes(a, b) \/ Precedes(b, a)
        /\ Precedes(b, a) /\ Precedes(a, c) => Precedes(b, c)
    BY PrecedesIsOrder
  <1> HIDE DEF a, b, c
  <1>3. /\ Before(r, r) <=> Len(a) > Len(a) \/ (Len(a) = Len(a) /\ Precedes(a, a))
        /\ Before(r, s) <=> Len(a) > Len(b) \/ (Len(a) = Len(b) /\ Precedes(a, b))
        /\ Before(s, t) <=> Len(b) > Len(c) \/ (Len(b) = Len(c) /\ Precedes(b, c))
        /\ Before(r, t) <=> Len(a) > Len(c) \/ (Len(a) = Len(c) /\ Precedes(a, c))
    BY DEF Before, a, b, c
  <1> QED
    BY <1>1, <1>2, <1>3

\* A rule comes before none that stands ahead of it.
InOrder(rules) == \A i, j \in DOMAIN rules : i < j => ~Before(rules[j], rules[i])

\* Where a rule is inserted.
LEMMA InsertIs ==
    ASSUME NEW R, NEW rules \in Seq(R), NEW rule \in R
    PROVE  \E place \in 1..(Len(rules) + 1) :
              /\ Insert(rules, rule) \in Seq(R)
              /\ Len(Insert(rules, rule)) = Len(rules) + 1
              /\ \A i \in 1..(place - 1) : /\ Insert(rules, rule)[i] = rules[i]
                                           /\ ~Before(rule, rules[i])
              /\ Insert(rules, rule)[place] = rule
              /\ \A i \in (place + 1)..(Len(rules) + 1) : Insert(rules, rule)[i] = rules[i - 1]
              /\ place <= Len(rules) => Before(rule, rules[place])
  <1> DEFINE later == {i \in DOMAIN rules : Before(rule, rules[i])}
             places == later \cup {Len(rules) + 1}
  <1>1. Len(rules) \in Nat /\ DOMAIN rules = 1..Len(rules)
    OBVIOUS
  <1>2. places \in SUBSET Nat /\ places # {}
    BY <1>1
  <1>3. PICK place \in places : \A i \in places : place <= i
    <2> HIDE DEF places
    <2> QED
      BY <1>2, LeastNumber
  <1>4. Min(places) = place
    <2> HIDE DEF places
    <2> QED
      BY <1>2, <1>3, MinIs
  <1>5. place \in 1..(Len(rules) + 1) /\ place \in Nat
    BY <1>1, <1>3
  <1> DEFINE front == SubSeq(rules, 1, place - 1)
             back == SubSeq(rules, place, Len(rules))
  <1>6. Insert(rules, rule) = (front \o <<rule>>) \o back
    BY <1>4 DEF Insert
  <1>7. /\ front \in Seq(R) /\ Len(front) = place - 1
        /\ \A i \in 1..(place - 1) : front[i] = rules[i]
    BY <1>1, <1>5
  <1>8. /\ back \in Seq(R) /\ Len(back) = Len(rules) - place + 1
        /\ \A i \in 1..(Len(rules) - place + 1) : back[i] = rules[place + i - 1]
    BY <1>1, <1>5
  <1>9. \A i \in 1..(place - 1) : ~Before(rule, rules[i])
    <2>1. ASSUME NEW i \in 1..(place - 1)
          PROVE  i \in DOMAIN rules /\ ~(place <= i)
      BY <1>1, <1>5
    <2> QED
      BY <1>3, <2>1
  <1>10. place <= Len(rules) => Before(rule, rules[place])
    BY <1>1, <1>3
  <1> HIDE DEF front, back, places
  <1>11. /\ front \o <<rule>> \in Seq(R) /\ Len(front \o <<rule>>) = place
         /\ \A i \in 1..(place - 1) : (front \o <<rule>>)[i] = rules[i]
         /\ (front \o <<rule>>)[place] = rule
    BY <1>5, <1>7
  <1> DEFINE head == front \o <<rule>>
  <1>12. /\ head \in Seq(R) /\ Len(head) = place /\ head[place] = rule
         /\ \A i \in 1..(place - 1) : head[i] = rules[i]
    BY <1>11
  <1>13. Insert(rules, rule) = head \o back
    BY <1>6
  <1> HIDE DEF head
  <1>14. /\ Insert(rules, rule) \in Seq(R) /\ Len(Insert(rules, rule)) = Len(rules) + 1
    BY <1>1, <1>5, <1>8, <1>12, <1>13
  <1>15. \A i \in 1..place : Insert(rules, rule)[i] = head[i]
    BY <1>5, <1>8, <1>12, <1>13
  <1>16. ASSUME NEW i \in (place + 1)..(Len(rules) + 1)
         PROVE  Insert(rules, rule)[i] = rules[i - 1]
    <2>1. i - place \in 1..(Len(rules) - place + 1) /\ i = place + (i - place) /\ place + (i - place) - 1 = i - 1
      BY <1>1, <1>5
    <2>2. (head \o back)[i] = back[i - place]
      BY <1>5, <1>8, <1>12, <2>1
    <2> QED
      BY <1>8, <1>13, <2>1, <2>2
  <1>17. /\ \A i \in 1..(place - 1) : Insert(rules, rule)[i] = rules[i]
         /\ Insert(rules, rule)[place] = rule
    <2>1. place \in 1..place /\ \A i \in 1..(place - 1) : i \in 1..place
      BY <1>5
    <2> QED
      BY <1>12, <1>15, <2>1
  <1>18. /\ \A i \in 1..(place - 1) : /\ Insert(rules, rule)[i] = rules[i]
                                       /\ ~Before(rule, rules[i])
         /\ \A i \in (place + 1)..(Len(rules) + 1) : Insert(rules, rule)[i] = rules[i - 1]
    BY <1>9, <1>16, <1>17
  <1>19. place \in 1..(Len(rules) + 1)
    BY <1>5
  <1> QED
    BY <1>10, <1>14, <1>17, <1>18, <1>19, Zenon

\* Rules that are in order stay in order when one is inserted.
LEMMA InsertKeepsOrder ==
    ASSUME NEW R, \A r \in R : r.start \in Text,
           NEW rules \in Seq(R), NEW rule \in R, InOrder(rules)
    PROVE  Insert(rules, rule) \in Seq(R) /\ InOrder(Insert(rules, rule))
  <1> DEFINE new == Insert(rules, rule)
  <1>1. Len(rules) \in Nat /\ DOMAIN rules = 1..Len(rules) /\ \A i \in DOMAIN rules : rules[i] \in R
    OBVIOUS
  <1>2. PICK place \in 1..(Len(rules) + 1) :
              /\ new \in Seq(R) /\ Len(new) = Len(rules) + 1
              /\ \A i \in 1..(place - 1) : new[i] = rules[i] /\ ~Before(rule, rules[i])
              /\ new[place] = rule
              /\ \A i \in (place + 1)..(Len(rules) + 1) : new[i] = rules[i - 1]
              /\ place <= Len(rules) => Before(rule, rules[place])
    BY InsertIs
  <1> HIDE DEF new
  <1>3. ASSUME NEW i \in 1..(Len(rules) + 1), NEW j \in 1..(Len(rules) + 1), i < j
        PROVE  ~Before(new[j], new[i])
    <2>1. CASE j < place
      <3>1. i \in 1..(place - 1) /\ j \in 1..(place - 1) /\ i \in DOMAIN rules /\ j \in DOMAIN rules
        BY <1>1, <1>3, <2>1
      <3> QED
        BY <1>2, <1>3, <3>1 DEF InOrder
    <2>2. CASE j = place
      <3>1. i \in 1..(place - 1)
        BY <1>1, <1>3, <2>2
      <3> QED
        BY <1>2, <2>2, <3>1
    <2>3. CASE j > place /\ i < place
      <3>1. /\ i \in 1..(place - 1) /\ j \in (place + 1)..(Len(rules) + 1)
            /\ i \in DOMAIN rules /\ j - 1 \in DOMAIN rules /\ i < j - 1
        BY <1>1, <2>3
      <3> QED
        BY <1>2, <3>1 DEF InOrder
    <2>4. CASE j > place /\ i > place
      <3>1. /\ i \in (place + 1)..(Len(rules) + 1) /\ j \in (place + 1)..(Len(rules) + 1)
            /\ i - 1 \in DOMAIN rules /\ j - 1 \in DOMAIN rules /\ i - 1 < j - 1
        BY <1>1, <1>3, <2>4
      <3> QED
        BY <1>2, <3>1 DEF InOrder
    <2>5. CASE j > place /\ i = place
      <3>1. /\ j \in (place + 1)..(Len(rules) + 1) /\ place \in DOMAIN rules /\ j - 1 \in DOMAIN rules
            /\ place = j - 1 \/ place < j - 1
        BY <1>1, <2>5
      <3>2. new[j] = rules[j - 1] /\ new[i] = rule /\ Before(rule, rules[place])
        BY <1>1, <1>2, <2>5, <3>1
      <3>3. /\ rules[j - 1].start \in Text /\ rule.start \in Text /\ rules[place].start \in Text
        BY <1>1, <3>1
      <3>4. ~Before(rules[j - 1], rules[place])
        <4>1. CASE place = j - 1
          BY <4>1, <3>3, BeforeIsOrder
        <4>2. CASE place < j - 1
          BY <4>2, <3>1 DEF InOrder
        <4> QED
          BY <3>1, <4>1, <4>2
      <3>5. Before(rules[j - 1], rule) /\ Before(rule, rules[place]) => Before(rules[j - 1], rules[place])
        BY <3>3, BeforeIsOrder
      <3> QED
        BY <3>2, <3>4, <3>5
    <2> QED
      BY <2>1, <2>2, <2>3, <2>4, <2>5
  <1>4. new \in Seq(R) /\ DOMAIN new = 1..(Len(rules) + 1)
    BY <1>1, <1>2
  <1>5. InOrder(new)
    BY <1>3, <1>4 DEF InOrder
  <1> QED
    BY <1>4, <1>5 DEF new

-----------------------------------------------------------------------------
(* Parsing a country table *)

\* Upper-casing leaves a text that is not empty such a text.
LEMMA UpperCasePrefix ==
    ASSUME NEW text \in Text, text # <<>>
    PROVE  to_ascii_uppercase(text) \in Prefix
  <1>1. to_ascii_uppercase(text) \in Text
    BY UpperCaseText
  <1>2. DOMAIN to_ascii_uppercase(text) = DOMAIN text
    BY DEF to_ascii_uppercase
  <1>3. 1 \in DOMAIN text
    BY DEF Text
  <1>4. to_ascii_uppercase(text) # <<>>
    <2>1. 1 \notin DOMAIN <<>>
      OBVIOUS
    <2> QED
      BY <1>2, <1>3, <2>1
  <1> QED
    BY <1>1, <1>4 DEF Prefix

\* The rules of the first n lines are those of one line less and that of line n.  (A function
\* that satisfies this exists for every number of lines: there is no least one without.)
LEMMA ParsingIs ==
    ASSUME NEW lines, NEW source, Len(lines) \in Nat
    PROVE  \A n \in 0..Len(lines) : Parsing(lines, source)[n] =
               IF n = 0 THEN <<>>
               ELSE IF IsRule(lines[n])
                   THEN Insert(Parsing(lines, source)[n - 1], RuleOf(lines[n], source))
               ELSE Parsing(lines, source)[n - 1]
  <1> DEFINE More(n, rules) == IF IsRule(lines[n]) THEN Insert(rules, RuleOf(lines[n], source)) ELSE rules
             IsParsing(g, N) == g = [n \in 0..N |-> IF n = 0 THEN <<>> ELSE More(n, g[n - 1])]
             bad == {N \in Nat : \A g : ~IsParsing(g, N)}
  <1>1. bad = {}
    <2>1. SUFFICES ASSUME bad # {} PROVE FALSE
      OBVIOUS
    <2>2. bad \in SUBSET Nat
      OBVIOUS
    <2>3. PICK N \in bad : \A m \in bad : N <= m
      <3> HIDE DEF bad
      <3> QED
        BY <2>1, <2>2, LeastNumber
    <2>4. N \in Nat /\ \A g : ~IsParsing(g, N)
      BY <2>3
    <2>5. N # 0
      <3> DEFINE g == [n \in 0..0 |-> <<>>]
      <3>1. ASSUME N = 0 PROVE FALSE
        <4>1. g = [n \in 0..0 |-> IF n = 0 THEN <<>> ELSE More(n, g[n - 1])]
          <5>1. \A n \in 0..0 : n = 0
            OBVIOUS
          <5> HIDE DEF More
          <5> QED
            BY <5>1
        <4> QED
          BY <2>4, <3>1, <4>1
      <3> QED
        BY <3>1
    <2>6. N - 1 \in Nat /\ N - 1 \notin bad
      BY <2>3, <2>4, <2>5
    <2>7. PICK g : IsParsing(g, N - 1)
      BY <2>6
    <2> DEFINE h == [n \in 0..N |-> IF n = N THEN More(N, g[N - 1]) ELSE g[n]]
    <2> HIDE DEF More
    <2>8. h = [n \in 0..N |-> IF n = 0 THEN <<>> ELSE More(n, h[n - 1])]
      <3>1. ASSUME NEW n \in 0..N
            PROVE  h[n] = IF n = 0 THEN <<>> ELSE More(n, h[n - 1])
        <4>1. CASE n = N
          <5>1. N - 1 \in 0..N /\ N - 1 # N
            BY <2>4, <2>5
          <5> QED
            BY <2>4, <2>5, <4>1, <5>1
        <4>2. CASE n # N
          <5>1. n \in 0..(N - 1) /\ (n # 0 => n - 1 \in 0..N /\ n - 1 # N)
            BY <2>4, <4>2
          <5>2. g[n] = IF n = 0 THEN <<>> ELSE More(n, g[n - 1])
            BY <2>7, <5>1
          <5> QED
            BY <4>2, <5>1, <5>2
        <4> QED
          BY <4>1, <4>2
      <3> HIDE DEF h
      <3>2. h = [n \in 0..N |-> h[n]]
        BY DEF h
      <3> QED
        BY <3>1, <3>2
    <2>9. IsParsing(h, N)
      BY <2>8
    <2> QED
      BY <2>4, <2>9
  <1>2. PICK g : IsParsing(g, Len(lines))
    BY <1>1
  <1> DEFINE parsing == CHOOSE rules : IsParsing(rules, Len(lines))
  <1>3. IsParsing(parsing, Len(lines))
    <2> HIDE DEF IsParsing
    <2> QED
      BY <1>2
  <1>4. Parsing(lines, source) = parsing
    BY DEF Parsing
  <1> HIDE DEF parsing
  <1>5. \A n \in 0..Len(lines) : parsing[n] = IF n = 0 THEN <<>> ELSE More(n, parsing[n - 1])
    <2> HIDE DEF More
    <2> QED
      BY <1>3
  <1> QED
    BY <1>4, <1>5

\* The countries that lines may give.
CountriesOf(lines, source) ==
    {parse_country_info(lines[i].rest, source) : i \in 1..Len(lines)}
RulesOf(lines, source) ==
    [start : Prefix, end : Prefix, country : CountriesOf(lines, source)]

\* A table that is parsed consists of rules with prefixes, the longer ones first
\* (CountryTable::parse_with_source).
THEOREM ParsedInOrder ==
    ASSUME NEW lines, NEW source, Len(lines) \in Nat,
           \A i \in 1..Len(lines) : lines[i].start \in Text /\ lines[i].end \in Text
    PROVE  /\ parse_with_source(lines, source) \in Seq(RulesOf(lines, source))
           /\ InOrder(parse_with_source(lines, source))
  <1> DEFINE R == RulesOf(lines, source)
             parsing == Parsing(lines, source)
             bad == {n \in 0..Len(lines) : ~(parsing[n] \in Seq(R) /\ InOrder(parsing[n]))}
  <1>1. \A r \in R : r.start \in Text
    BY DEF RulesOf, Prefix
  <1>2. bad = {}
    <2>1. SUFFICES ASSUME bad # {} PROVE FALSE
      OBVIOUS
    <2>2. bad \in SUBSET Nat
      OBVIOUS
    <2>3. PICK n \in bad : \A m \in bad : n <= m
      <3> HIDE DEF bad
      <3> QED
        BY <2>1, <2>2, LeastNumber
    <2>4. n \in 0..Len(lines)
      OBVIOUS
    <2>5. CASE n = 0
      <3>1. parsing[n] = <<>>
        BY <2>4, <2>5, ParsingIs
      <3>2. <<>> \in Seq(R) /\ InOrder(<<>>)
        BY DEF InOrder
      <3> QED
        BY <2>3, <3>1, <3>2
    <2>6. CASE n # 0
      <3>1. n - 1 \in 0..Len(lines) /\ n \in 1..Len(lines) /\ ~(n <= n - 1)
        BY <2>4, <2>6
      <3>2. parsing[n - 1] \in Seq(R) /\ InOrder(parsing[n - 1])
        BY <2>3, <3>1
      <3>3. parsing[n] = IF IsRule(lines[n]) THEN Insert(parsing[n - 1], RuleOf(lines[n], source))
                         ELSE parsing[n - 1]
        <4> HIDE DEF parsing
        <4>1. \A k \in 0..Len(lines) : parsing[k] =
                 IF k = 0 THEN <<>>
                 ELSE IF IsRule(lines[k]) THEN Insert(parsing[k - 1], RuleOf(lines[k], source))
                 ELSE parsing[k - 1]
          BY ParsingIs DEF parsing
        <4> QED
          BY <2>4, <2>6, <4>1
      <3>4. ASSUME IsRule(lines[n])
            PROVE  RuleOf(lines[n], source) \in R
        <4>1. lines[n].start # <<>> /\ lines[n].end # <<>>
          BY <3>4 DEF IsRule
        <4>2. to_ascii_uppercase(lines[n].start) \in Prefix /\ to_ascii_uppercase(lines[n].end) \in Prefix
          BY <3>1, <4>1, UpperCasePrefix
        <4>3. parse_country_info(lines[n].rest, source) \in CountriesOf(lines, source)
          BY <3>1 DEF CountriesOf
        <4> QED
          BY <4>2, <4>3 DEF RuleOf, RulesOf
      <3> HIDE DEF R, parsing
      <3>5. parsing[n] \in Seq(R) /\ InOrder(parsing[n])
        BY <1>1, <3>2, <3>3, <3>4, InsertKeepsOrder
      <3> QED
        BY <2>3, <3>5
    <2> QED
      BY <2>5, <2>6
  <1>3. Len(lines) \in 0..Len(lines)
    OBVIOUS
  <1> QED
    BY <1>2, <1>3 DEF parse_with_source

\* What the lookup finds in a table: the country of the first rule that matches, or none.
LEMMA FirstMatchIs ==
    ASSUME NEW rules, NEW positions \in SUBSET Nat, NEW call
    PROVE  \/ /\ FirstMatch(rules, positions, call) = None
              /\ \A i \in positions : ~prefix_range_matches(call, rules[i].start, rules[i].end)
           \/ \E i \in positions :
                 /\ FirstMatch(rules, positions, call) = Some(rules[i].country)
                 /\ prefix_range_matches(call, rules[i].start, rules[i].end)
                 /\ \A j \in positions :
                       prefix_range_matches(call, rules[j].start, rules[j].end) => i <= j
  <1> DEFINE hits == {i \in positions : prefix_range_matches(call, rules[i].start, rules[i].end)}
             first == CHOOSE i \in hits : \A j \in hits : i <= j
  <1>1. FirstMatch(rules, positions, call) = IF hits = {} THEN None ELSE Some(rules[first].country)
    BY DEF FirstMatch
  <1>2. ASSUME hits # {}
        PROVE  first \in hits /\ \A j \in hits : first <= j
    <2>1. hits \in SUBSET Nat
      OBVIOUS
    <2>2. \E i \in hits : \A j \in hits : i <= j
      <3> HIDE DEF hits
      <3> QED
        BY <1>2, <2>1, LeastNumber
    <2> HIDE DEF hits
    <2> QED
      BY <2>2
  <1> HIDE DEF first
  <1> QED
    BY <1>1, <1>2

\* A callsign is matched to a rule that matches it, and none that matches it has a longer
\* prefix (CountryTable::lookup_info, `the most specific country-prefix rule').
THEOREM LongestPrefixWins ==
    ASSUME NEW lines, NEW source, Len(lines) \in Nat,
           \A i \in 1..Len(lines) : lines[i].start \in Text /\ lines[i].end \in Text,
           NEW callsign \in Text
    PROVE  LET rules == parse_with_source(lines, source)
               Matches(i) == prefix_range_matches(to_ascii_uppercase(callsign),
                                                  rules[i].start, rules[i].end)
           IN \/ lookup_info(rules, callsign) = None /\ \A i \in DOMAIN rules : ~Matches(i)
              \/ \E i \in DOMAIN rules :
                    /\ lookup_info(rules, callsign) = Some(rules[i].country) /\ Matches(i)
                    /\ \A j \in DOMAIN rules : Matches(j) => Len(rules[j].start) <= Len(rules[i].start)
  <1> DEFINE rules == parse_with_source(lines, source)
             call == to_ascii_uppercase(callsign)
             Matches(i) == prefix_range_matches(call, rules[i].start, rules[i].end)
  <1>1. rules \in Seq(RulesOf(lines, source)) /\ InOrder(rules)
    BY ParsedInOrder
  <1>2. lookup_info(rules, callsign) = FirstMatch(rules, DOMAIN rules, call)
    <2>1. rules \in Seq([start : Prefix, end : Prefix, country : CountriesOf(lines, source)])
      BY <1>1 DEF RulesOf
    <2> HIDE DEF rules
    <2> QED
      BY <2>1, IndexedLookupIsLinear DEF lookup_linear
  <1> HIDE DEF rules, call
  <1>3. DOMAIN rules \in SUBSET Nat
    BY <1>1
  <1>4. ASSUME NEW i \in DOMAIN rules, NEW j \in DOMAIN rules, i <= j
        PROVE  Len(rules[j].start) <= Len(rules[i].start)
    <2>1. ~Before(rules[j], rules[i]) \/ i = j
      BY <1>1, <1>3, <1>4 DEF InOrder
    <2>2. rules[i] \in RulesOf(lines, source) /\ rules[j] \in RulesOf(lines, source)
      BY <1>1
    <2>3. Len(rules[i].start) \in Nat /\ Len(rules[j].start) \in Nat
      BY <2>2 DEF RulesOf, Prefix, Text
    <2>4. CASE i = j
      BY <2>3, <2>4
    <2>5. CASE ~Before(rules[j], rules[i])
      BY <2>3, <2>5 DEF Before
    <2> QED
      BY <2>1, <2>4, <2>5
  <1>5. \/ lookup_info(rules, callsign) = None /\ \A i \in DOMAIN rules : ~Matches(i)
        \/ \E i \in DOMAIN rules :
              /\ lookup_info(rules, callsign) = Some(rules[i].country) /\ Matches(i)
              /\ \A j \in DOMAIN rules : Matches(j) => Len(rules[j].start) <= Len(rules[i].start)
    BY <1>2, <1>3, <1>4, FirstMatchIs
  <1> QED
    BY <1>5 DEF rules, call
-----------------------------------------------------------------------------
(* The keys of hamcall.dat *)

\* The first byte of a slice has the key of its place in the file, although it is computed
\* from a phase that counts the place twice (phase_for_dat_offset, decode_phase_into).
THEOREM SliceBeginsWithByteKey ==
    ASSUME NEW offset \in Nat
    PROVE  FirstKey(offset, phase_for_dat_offset(offset)) = decode_dat_byte(offset)
  BY DEF FirstKey, phase_for_dat_offset, decode_dat_byte

\* The invariant of the loop over the chunks: if the key is that of the place, then so are the
\* keys of the whole chunk, and behind it the cycle begins again unless the slice ends.
THEOREM ChunksKeepByteKeys ==
    ASSUME NEW place \in Nat, NEW remaining \in Nat, remaining > 0,
           NEW from \in 0..100, from = decode_dat_byte(place)
    PROVE  LET n == ChunkLength(from, remaining) IN
           /\ n \in 1..remaining
           /\ \A i \in 1..n : Chunk(from, n)[i] = decode_dat_byte(place + i - 1)
           /\ n < remaining => decode_dat_byte(place + n) = 0
  <1> DEFINE n == ChunkLength(from, remaining)
  <1>1. n \in 1..remaining /\ n <= 101 - from
    BY DEF ChunkLength
  <1>2. ASSUME NEW i \in 1..n
        PROVE  Chunk(from, n)[i] = decode_dat_byte(place + i - 1)
    <2>1. Chunk(from, n)[i] = from + i - 1
      BY DEF Chunk
    <2>2. i \in Nat /\ i >= 1 /\ i <= 101 - from
      BY <1>1
    <2> QED
      BY <2>1, <2>2 DEF decode_dat_byte
  <1>3. n < remaining => n = 101 - from
    BY DEF ChunkLength
  <1>4. n < remaining => decode_dat_byte(place + n) = 0
    BY <1>3 DEF decode_dat_byte
  <1> QED
    BY <1>1, <1>2, <1>4

\* The keys that bytes get one after the other, beginning with the key `from'.
Keys(from, length) == [i \in 1..length |-> (from + i - 1) % 101]

\* The keys of so many bytes from a key on.
LEMMA KeysOfChunk ==
    ASSUME NEW from \in 0..100, NEW remaining \in Nat, remaining > 0
    PROVE  LET n == ChunkLength(from, remaining)
           IN /\ n \in 1..remaining
              /\ Chunk(from, n) \o Keys(0, remaining - n) = Keys(from, remaining)
  <1> DEFINE n == ChunkLength(from, remaining)
             head == Chunk(from, n)
             tail == Keys(0, remaining - n)
             all == Keys(from, remaining)
             both == head \o tail
  <1>1. n \in 1..remaining /\ n <= 101 - from /\ (n < remaining => n = 101 - from)
    BY DEF ChunkLength
  <1> HIDE DEF n
  <1>2. /\ head \in Seq(Int) /\ Len(head) = n
        /\ \A i \in 1..n : head[i] = from + i - 1
    BY <1>1 DEF Chunk
  <1>3. /\ tail \in Seq(Int) /\ Len(tail) = remaining - n
        /\ \A i \in 1..(remaining - n) : tail[i] = (i - 1) % 101
    BY <1>1 DEF Keys
  <1>4. /\ all \in Seq(Int) /\ Len(all) = remaining
        /\ \A i \in 1..remaining : all[i] = (from + i - 1) % 101
    BY DEF Keys
  <1> HIDE DEF head, tail, all
  <1>5. /\ both \in Seq(Int) /\ Len(both) = Len(head) + Len(tail)
        /\ \A i \in 1..Len(head) + Len(tail) :
              both[i] = IF i <= Len(head) THEN head[i] ELSE tail[i - Len(head)]
    BY <1>2, <1>3, ConcatProperties
  <1> HIDE DEF both
  <1>6. Len(both) = remaining
    BY <1>1, <1>2, <1>3, <1>5
  <1>7. ASSUME NEW i \in 1..remaining
        PROVE  both[i] = all[i]
    <2>1. CASE i <= n
      <3>a. i \in 1..n /\ i \in 1..(Len(head) + Len(tail)) /\ i <= Len(head)
        BY <1>1, <1>2, <1>3, <2>1
      <3>1. both[i] = from + i - 1 /\ all[i] = (from + i - 1) % 101
        BY <1>2, <1>4, <1>5, <3>a
      <3>2. from + i - 1 \in 0..100
        <4>1. n <= 101 - from /\ n \in Int /\ i >= 1
          BY <1>1
        <4> QED
          BY <2>1, <4>1
      <3>3. \A k \in 0..100 : k % 101 = k
        OBVIOUS
      <3> QED
        BY <3>1, <3>2, <3>3
    <2>2. CASE i > n
      <3>1. i - n \in 1..(remaining - n) /\ n = 101 - from
        BY <1>1, <2>2
      <3>a. i \in 1..(Len(head) + Len(tail)) /\ ~(i <= Len(head))
        BY <1>1, <1>2, <1>3, <2>2
      <3>2. both[i] = tail[i - n]
        BY <1>2, <1>5, <3>a
      <3>3. both[i] = (i - n - 1) % 101
        BY <1>3, <3>1, <3>2
      <3>4. i - n - 1 = (from + i - 1) - 101 /\ i - n - 1 \in Nat
        BY <3>1
      <3>5. \A k \in Nat : k % 101 = (k + 101) % 101
        OBVIOUS
      <3>6. (i - n - 1) % 101 = ((i - n - 1) + 101) % 101
        BY <3>4, <3>5
      <3>7. (i - n - 1) + 101 = from + i - 1
        BY <3>4, <1>1
      <3> QED
        BY <1>4, <3>3, <3>6, <3>7
    <2> QED
      BY <1>1, <2>1, <2>2
  <1>8. both = all
    BY <1>4, <1>5, <1>6, <1>7, SeqEqual
  <1> QED
    BY <1>1, <1>8 DEF n, head, tail, all, both

\* A slice is decoded with the keys that follow each other from its first one on, however many
\* chunks that takes (decode_phase_into).
THEOREM SlicesDecoded ==
    ASSUME NEW offset \in Nat, NEW phase \in Nat, NEW length \in Nat
    PROVE  decode_phase_into(offset, phase, length) = Keys(FirstKey(offset, phase), length)
  <1> DEFINE Loops == [key : 0..100, remaining : 0..length]
             Rest(loop) == [key |-> 0,
                             remaining |-> loop.remaining - ChunkLength(loop.key, loop.remaining)]
             Body(f, loop) ==
                IF loop.remaining = 0 THEN <<>>
                ELSE Chunk(loop.key, ChunkLength(loop.key, loop.remaining)) \o f[Rest(loop)]
             decode == CHOOSE f : f = [loop \in Loops |-> Body(f, loop)]
             first == [key |-> FirstKey(offset, phase), remaining |-> length]
             all == [loop \in Loops |-> Keys(loop.key, loop.remaining)]
  <1>1. decode_phase_into(offset, phase, length) = decode[first]
    BY DEF decode_phase_into
  <1>2. first \in Loops
    BY DEF FirstKey
  <1>3. ASSUME NEW loop \in Loops, loop.remaining > 0
        PROVE  /\ Rest(loop) \in Loops /\ Rest(loop).remaining < loop.remaining
               /\ Chunk(loop.key, ChunkLength(loop.key, loop.remaining))
                     \o Keys(Rest(loop).key, Rest(loop).remaining) = Keys(loop.key, loop.remaining)
    <2>1. loop.key \in 0..100 /\ loop.remaining \in Nat /\ loop.remaining \in 0..length
      OBVIOUS
    <2>2. /\ ChunkLength(loop.key, loop.remaining) \in 1..loop.remaining
          /\ Chunk(loop.key, ChunkLength(loop.key, loop.remaining))
                \o Keys(0, loop.remaining - ChunkLength(loop.key, loop.remaining))
                = Keys(loop.key, loop.remaining)
      BY <1>3, <2>1, KeysOfChunk
    <2> QED
      BY <2>1, <2>2
  <1>4. ASSUME NEW loop \in Loops, loop.remaining = 0
        PROVE  Keys(loop.key, loop.remaining) = <<>>
    BY <1>4 DEF Keys
  <1> HIDE DEF Rest
  <1>5. all = [loop \in Loops |-> Body(all, loop)]
    <2>1. ASSUME NEW loop \in Loops
          PROVE  Keys(loop.key, loop.remaining) = Body(all, loop)
      <3>1. CASE loop.remaining = 0
        BY <1>4, <3>1
      <3>2. CASE loop.remaining # 0
        <4>1. loop.remaining > 0
          BY <3>2
        <4>2. Rest(loop) \in Loops
          BY <1>3, <4>1
        <4>3. all[Rest(loop)] = Keys(Rest(loop).key, Rest(loop).remaining)
          BY <4>2
        <4> HIDE DEF all, Loops
        <4> QED
          BY <1>3, <3>2, <4>1, <4>3
      <3> QED
        BY <3>1, <3>2
    <2> QED
      BY <2>1
  <1>6. decode = [loop \in Loops |-> Body(decode, loop)]
    <2> HIDE DEF all, Body, Loops
    <2> QED
      BY <1>5
  <1> HIDE DEF decode
  <1>7. \A loop \in Loops : decode[loop] = Body(decode, loop)
    BY <1>6
  <1> DEFINE bad == {loop \in Loops : decode[loop] # Keys(loop.key, loop.remaining)}
             sizes == {loop.remaining : loop \in bad}
  <1>8. bad = {}
    <2>1. ASSUME bad # {}
          PROVE  FALSE
      <3>1. sizes \in SUBSET Nat /\ sizes # {}
        BY <2>1
      <3>2. PICK n \in sizes : \A m \in sizes : n <= m
        BY <3>1, LeastNumber
      <3>3. PICK loop \in bad : loop.remaining = n
        BY <3>2
      <3>4. \A other \in bad : loop.remaining <= other.remaining
        BY <3>2, <3>3
      <3>5. loop \in Loops /\ decode[loop] # Keys(loop.key, loop.remaining)
        BY <3>3
      <3>6. decode[loop] = Body(decode, loop)
        BY <1>7, <3>5
      <3>7. CASE loop.remaining = 0
        BY <1>4, <3>5, <3>6, <3>7
      <3>8. CASE loop.remaining # 0
        <4>1. loop.remaining > 0
          BY <3>5, <3>8
        <4>2. Rest(loop) \in Loops /\ ~(loop.remaining <= Rest(loop).remaining)
          <5>1. Rest(loop) \in Loops /\ Rest(loop).remaining < loop.remaining
            BY <1>3, <3>5, <4>1
          <5>2. Rest(loop).remaining \in Int /\ loop.remaining \in Int
            BY <3>5, <5>1
          <5> QED
            BY <5>1, <5>2
        <4>3. decode[Rest(loop)] = Keys(Rest(loop).key, Rest(loop).remaining)
          BY <3>4, <4>2
        <4> HIDE DEF Loops
        <4> QED
          BY <1>3, <3>5, <3>6, <3>8, <4>1, <4>3
      <3> QED
        BY <3>7, <3>8
    <2> QED
      BY <2>1
  <1>9. decode[first] = Keys(first.key, first.remaining)
    BY <1>2, <1>8
  <1> QED
    BY <1>1, <1>9


\* A lookup decodes a slice, chunk by chunk, with the keys with which a scan decodes the same
\* bytes, wherever the slice begins and however long it is (v2_dat.rs, decode_dat_byte of db.rs).
THEOREM SliceKeysAreByteKeysHolds == SliceKeysAreByteKeys
  <1>1. ASSUME NEW offset \in Nat, NEW length \in Nat
        PROVE  decode_phase_into(offset, phase_for_dat_offset(offset), length)
                 = [i \in 1..length |-> decode_dat_byte(offset + i - 1)]
    <2>1. phase_for_dat_offset(offset) \in Nat
      BY DEF phase_for_dat_offset
    <2>2. FirstKey(offset, phase_for_dat_offset(offset)) = (offset + 4) % 101
      BY DEF FirstKey, phase_for_dat_offset
    <2>3. ASSUME NEW i \in 1..length
          PROVE  (((offset + 4) % 101) + i - 1) % 101 = decode_dat_byte(offset + i - 1)
      <3> DEFINE k == (offset + 4) % 101
                 q == (offset + 4) \div 101
      <3>1. offset + 4 = 101 * q + k /\ k \in 0..100 /\ q \in Nat
        OBVIOUS
      <3> HIDE DEF k, q
      <3>2. (k + i - 1) % 101 = (101 * q + k + i - 1) % 101
        BY <3>1
      <3>3. 101 * q + k + i - 1 = offset + i - 1 + 4
        BY <3>1
      <3> QED
        BY <3>2, <3>3 DEF decode_dat_byte, k
    <2>4. decode_phase_into(offset, phase_for_dat_offset(offset), length)
            = Keys((offset + 4) % 101, length)
      BY <2>1, <2>2, SlicesDecoded
    <2> QED
      BY <2>3, <2>4 DEF Keys
  <1> QED
    BY <1>1, OffsetsAssumption DEF SliceKeysAreByteKeys

-----------------------------------------------------------------------------
(* The interest statistics *)

\* The smaller of two numbers.
LEMMA MinOfTwo ==
    ASSUME NEW m \in Nat, NEW n \in Nat
    PROVE  Min({m, n}) = IF m <= n THEN m ELSE n
  <1> DEFINE least == IF m <= n THEN m ELSE n
  <1>1. least \in {m, n} /\ \A y \in {m, n} : least <= y
    OBVIOUS
  <1>2. \A x \in {m, n} : (\A y \in {m, n} : x <= y) => x = least
    OBVIOUS
  <1> HIDE DEF least
  <1>3. Min({m, n}) \in {m, n} /\ \A y \in {m, n} : Min({m, n}) <= y
    BY <1>1 DEF Min
  <1> QED
    BY <1>2, <1>3 DEF least

\* The accumulator of a code keeps matches of the code only, all of them while there are
\* fewer than the limit.
Samples(acc, found) ==
    /\ IsFiniteSet(found)
    /\ acc.current \in Nat /\ acc.archive \in Nat
    /\ acc.current + acc.archive >= Cardinality(found)
    /\ acc.examples \in Seq(found) /\ Len(acc.examples) <= MaxExamples
    /\ IsFiniteSet(RangeOf(acc.examples))
    /\ Cardinality(RangeOf(acc.examples)) = Len(acc.examples)
    /\ Len(acc.examples) < MaxExamples => RangeOf(acc.examples) = found

\* What the accumulator keeps says how many examples there are.
LEMMA SamplesAreEnough ==
    ASSUME NEW acc, NEW found, Samples(acc, found)
    PROVE  /\ RangeOf(acc.examples) \subseteq found
           /\ Cardinality(RangeOf(acc.examples)) = Len(acc.examples)
           /\ Len(acc.examples) = Min({MaxExamples, Cardinality(found)})
           /\ acc.current + acc.archive >= Cardinality(found)
  <1>1. Len(acc.examples) \in Nat /\ RangeOf(acc.examples) \subseteq found
    BY DEF Samples, RangeOf
  <1>2. Cardinality(found) \in Nat
    BY FS_CardinalityType DEF Samples
  <1>3. Cardinality(RangeOf(acc.examples)) <= Cardinality(found)
    BY <1>1, FS_Subset DEF Samples
  <1>4. Min({MaxExamples, Cardinality(found)})
          = IF MaxExamples <= Cardinality(found) THEN MaxExamples ELSE Cardinality(found)
    BY <1>2, MinOfTwo DEF MaxExamples
  <1>5. Len(acc.examples) = IF MaxExamples <= Cardinality(found) THEN MaxExamples
                            ELSE Cardinality(found)
    BY <1>1, <1>2, <1>3 DEF Samples, MaxExamples
  <1> QED
    BY <1>1, <1>4, <1>5 DEF Samples

\* What a sequence has after a push.
LEMMA RangeAfterPush ==
    ASSUME NEW S, NEW s \in Seq(S), NEW x
    PROVE  /\ RangeOf(Append(s, x)) = RangeOf(s) \cup {x}
           /\ Append(s, x) \in Seq(S \cup {x}) /\ Len(Append(s, x)) = Len(s) + 1
  <1>1. Len(s) \in Nat /\ s \in Seq(S \cup {x})
    OBVIOUS
  <1>2. /\ Append(s, x) \in Seq(S \cup {x}) /\ Len(Append(s, x)) = Len(s) + 1
        /\ \A i \in 1..Len(s) : Append(s, x)[i] = s[i]
        /\ Append(s, x)[Len(s) + 1] = x
    BY <1>1
  <1>3. RangeOf(s) \cup {x} \subseteq RangeOf(Append(s, x))
    <2>1. \A i \in 1..Len(s) : i \in 1..(Len(s) + 1)
      BY <1>1
    <2>2. Len(s) + 1 \in 1..(Len(s) + 1)
      BY <1>1
    <2> QED
      BY <1>2, <2>1, <2>2 DEF RangeOf
  <1>4. RangeOf(Append(s, x)) \subseteq RangeOf(s) \cup {x}
    <2>1. \A i \in 1..(Len(s) + 1) : i \in 1..Len(s) \/ i = Len(s) + 1
      BY <1>1
    <2> QED
      BY <1>2, <2>1 DEF RangeOf
  <1> QED
    BY <1>2, <1>3, <1>4

\* It goes on to do so with the next match, which may be listed more than once.
LEMMA SamplesGoOn ==
    ASSUME NEW acc, NEW found, NEW k, NEW n \in Nat, n > 0, Samples(acc, found)
    PROVE  Samples(Occurs(acc, k, n), found \cup {k})
  <1> DEFINE next == Occurs(acc, k, n)
             all == found \cup {k}
  <1>1. /\ next.current = acc.current + (IF k.vintage = NoYear THEN n ELSE 0)
        /\ next.archive = acc.archive + (IF k.vintage = NoYear THEN 0 ELSE n)
        /\ next.examples = PushSample(acc.examples, k)
    BY DEF Occurs
  <1>2. /\ IsFiniteSet(found) /\ acc.current \in Nat /\ acc.archive \in Nat
        /\ acc.current + acc.archive >= Cardinality(found)
        /\ acc.examples \in Seq(found) /\ Len(acc.examples) \in Nat
        /\ Len(acc.examples) <= MaxExamples
        /\ IsFiniteSet(RangeOf(acc.examples))
        /\ Cardinality(RangeOf(acc.examples)) = Len(acc.examples)
        /\ Len(acc.examples) < MaxExamples => RangeOf(acc.examples) = found
    BY DEF Samples
  <1>3. /\ IsFiniteSet(all) /\ Cardinality(found) \in Nat
        /\ Cardinality(all) = IF k \in found THEN Cardinality(found) ELSE Cardinality(found) + 1
    BY <1>2, FS_AddElement, FS_CardinalityType
  <1>4. next.current \in Nat /\ next.archive \in Nat
    BY <1>1, <1>2
  <1>5. next.current + next.archive >= Cardinality(all)
    <2>1. next.current + next.archive = acc.current + acc.archive + n
      BY <1>1, <1>2
    <2> QED
      BY <1>2, <1>3, <2>1
  <1>6. CASE Len(acc.examples) < MaxExamples /\ k \notin RangeOf(acc.examples)
    <2>1. next.examples = Append(acc.examples, k)
      BY <1>1, <1>6 DEF PushSample
    <2>2. /\ RangeOf(next.examples) = RangeOf(acc.examples) \cup {k}
          /\ next.examples \in Seq(all) /\ Len(next.examples) = Len(acc.examples) + 1
      BY <1>2, <2>1, RangeAfterPush
    <2>3. /\ IsFiniteSet(RangeOf(acc.examples) \cup {k})
          /\ Cardinality(RangeOf(acc.examples) \cup {k}) = Len(acc.examples) + 1
      BY <1>2, <1>6, FS_AddElement
    <2>4. RangeOf(next.examples) = all
      BY <1>2, <1>6, <2>2
    <2>5. Len(next.examples) <= MaxExamples
      BY <1>2, <1>6, <2>2 DEF MaxExamples
    <2> QED
      BY <1>3, <1>4, <1>5, <2>2, <2>3, <2>4, <2>5 DEF Samples
  <1>7. CASE ~(Len(acc.examples) < MaxExamples /\ k \notin RangeOf(acc.examples))
    <2>1. next.examples = acc.examples
      BY <1>1, <1>7 DEF PushSample
    <2>2. next.examples \in Seq(all)
      BY <1>2, <2>1
    <2>3. Len(next.examples) < MaxExamples => RangeOf(next.examples) = all
      BY <1>2, <1>7, <2>1
    <2> QED
      BY <1>2, <1>3, <1>4, <1>5, <2>1, <2>2, <2>3 DEF Samples
  <1> QED
    BY <1>6, <1>7

\* The callsigns of today that a search for some of the codes finds.
FoundToday(codes) ==
    {m.call : m \in {k \in UNION {matches[c] : c \in codes} : k.vintage = NoYear}}

\* What the statistics have of every code agrees with what the search has of it.
StatisticsInv ==
    /\ db \in Databases /\ position \in Nat \ {0} /\ raw \in Texts \cup {NoText}
    /\ matches = [c \in Codes |-> matches[c]]
    /\ statistics.calls = FoundToday(Codes) /\ statistics.resolved = FoundToday(Known)
    /\ \A c \in Codes \ Known : Samples(statistics.unknown[c], matches[c])

\* The end of a record keeps the statistics in step with the searches.
LEMMA EndOfRecordCounted ==
    ASSUME StatisticsInv, MatchRecord, CountRecord
    PROVE  /\ matches' = [c \in Codes |-> matches'[c]]
           /\ statistics'.calls = FoundToday(Codes)' /\ statistics'.resolved = FoundToday(Known)'
           /\ \A c \in Codes \ Known : Samples(statistics'.unknown[c], matches'[c])
  <1> DEFINE k == RecordKey(key)
             codes == CodesOf[raw]
  <1>1. Known \subseteq Codes
    BY CodesAssumption
  <1>2. CASE ~Reportable
    <2>1. UNCHANGED <<matches, statistics>>
      BY <1>2 DEF MatchRecord, CountRecord
    <2> QED
      BY <2>1 DEF StatisticsInv, FoundToday
  <1>3. CASE Reportable
    <2>1. raw \in Texts /\ codes \in Seq(Codes)
      BY <1>3, CodesAssumption DEF Reportable, StatisticsInv
    <2>2. RangeOf(codes) \subseteq Codes
      BY <2>1 DEF RangeOf
    <2>3. matches' = [c \in Codes |-> IF c \in RangeOf(codes) THEN matches[c] \cup {k}
                                      ELSE matches[c]]
      BY <1>3 DEF MatchRecord
    <2>4. CASE codes = <<>>
      <3>1. statistics' = statistics
        BY <2>4 DEF CountRecord
      <3>2. RangeOf(codes) = {}
        BY <2>4 DEF RangeOf
      <3>3. matches' = matches
        BY <2>3, <3>2 DEF StatisticsInv
      <3> QED
        BY <3>1, <3>3 DEF StatisticsInv, FoundToday
    <2>5. CASE codes # <<>>
      <3> DEFINE times(c) == Cardinality({i \in 1..Len(codes) : codes[i] = c})
                 today == k.vintage = NoYear
                 resolved == RangeOf(codes) \cap Known # {}
      <3>1. /\ statistics'.calls = statistics.calls \cup (IF today THEN {k.call} ELSE {})
            /\ statistics'.resolved
                  = statistics.resolved \cup (IF today /\ resolved THEN {k.call} ELSE {})
            /\ \A c \in Codes \ Known : statistics'.unknown[c] = Occurs(statistics.unknown[c], k, times(c))
        BY <1>3, <2>5 DEF CountRecord
      <3>2. RangeOf(codes) \cap Codes # {}
        <4>1. Len(codes) \in Nat /\ Len(codes) > 0 /\ 1 \in 1..Len(codes)
          BY <2>1, <2>5
        <4>2. codes[1] \in RangeOf(codes)
          BY <4>1 DEF RangeOf
        <4> QED
          BY <2>2, <4>2
      <3>3. ASSUME NEW some, some \subseteq Codes
            PROVE  FoundToday(some)'
                     = FoundToday(some)
                          \cup (IF today /\ RangeOf(codes) \cap some # {} THEN {k.call} ELSE {})
        <4> DEFINE old == UNION {matches[c] : c \in some}
                   new == UNION {matches'[c] : c \in some}
        <4>1. new = old \cup (IF RangeOf(codes) \cap some # {} THEN {k} ELSE {})
          <5> HIDE DEF codes, k
          <5>1. \A c \in some : matches'[c] = IF c \in RangeOf(codes) THEN matches[c] \cup {k}
                                              ELSE matches[c]
            BY <2>3, <3>3
          <5>2. ASSUME NEW m
                PROVE  m \in new <=> m \in old \/ (m = k /\ RangeOf(codes) \cap some # {})
            BY <5>1
          <5> QED
            BY <5>2
        <4>2. FoundToday(some) = {m.call : m \in {e \in old : e.vintage = NoYear}}
          BY DEF FoundToday
        <4>3. FoundToday(some)' = {m.call : m \in {e \in new : e.vintage = NoYear}}
          BY DEF FoundToday
        <4> HIDE DEF old, new, k, codes
        <4> QED
          BY <4>1, <4>2, <4>3
      <3>4. statistics'.calls = FoundToday(Codes)'
        BY <3>1, <3>2, <3>3 DEF StatisticsInv
      <3>5. statistics'.resolved = FoundToday(Known)'
        BY <1>1, <3>1, <3>3 DEF StatisticsInv
      <3>6. ASSUME NEW c \in Codes \ Known
            PROVE  Samples(statistics'.unknown[c], matches'[c])
        <4> DEFINE places == {i \in 1..Len(codes) : codes[i] = c}
        <4>1. Samples(statistics.unknown[c], matches[c])
          BY DEF StatisticsInv
        <4>2. IsFiniteSet(places)
          <5>1. Len(codes) \in Nat
            BY <2>1
          <5>2. IsFiniteSet(1..Len(codes))
            BY <5>1, FS_Interval
          <5> QED
            BY <5>2, FS_Subset
        <4>3. times(c) \in Nat /\ (times(c) = 0 <=> places = {})
          BY <4>2, FS_CardinalityType, FS_EmptySet
        <4>4. CASE c \in RangeOf(codes)
          <5>1. places # {}
            BY <4>4 DEF RangeOf
          <5>2. times(c) > 0
            BY <4>3, <5>1
          <5>3. matches'[c] = matches[c] \cup {k}
            BY <2>3, <4>4
          <5> HIDE DEF times, k
          <5>4. Samples(Occurs(statistics.unknown[c], k, times(c)), matches[c] \cup {k})
            BY <4>1, <4>3, <5>2, SamplesGoOn
          <5> QED
            BY <3>1, <5>3, <5>4
        <4>5. CASE c \notin RangeOf(codes)
          <5>1. times(c) = 0
            BY <4>3, <4>5 DEF RangeOf
          <5>2. matches'[c] = matches[c]
            BY <2>3, <4>5
          <5>3. statistics'.unknown[c] = statistics.unknown[c]
            BY <3>1, <5>1 DEF Occurs
          <5> QED
            BY <4>1, <5>2, <5>3
        <4> QED
          BY <4>4, <4>5
      <3>7. matches' = [c \in Codes |-> matches'[c]]
        BY <2>3
      <3> QED
        BY <3>4, <3>5, <3>6, <3>7
    <2> QED
      BY <2>4, <2>5
  <1> QED
    BY <1>2, <1>3

\* The interest statistics agree with the searches, over whatever file (InterestScan and
\* InterestSearchScan of db.rs): the callsigns counted are those that are found, and there
\* are as many examples of a code as there are matches, up to three.
THEOREM StatisticsAgreeWithSearchHolds == Spec => []StatisticsAgreeWithSearch
  <1>1. Init => StatisticsInv
    <2>1. SUFFICES ASSUME Init
                   PROVE  StatisticsInv
      OBVIOUS
    <2>2. Known \subseteq Codes
      BY CodesAssumption
    <2>3. \A c \in Codes : matches[c] = {}
      BY <2>1 DEF Init
    <2>4. FoundToday(Codes) = {} /\ FoundToday(Known) = {}
      BY <2>2, <2>3 DEF FoundToday
    <2>5. ASSUME NEW c \in Codes \ Known
          PROVE  Samples(statistics.unknown[c], matches[c])
      <3> DEFINE acc == statistics.unknown[c]
      <3>1. acc.current = 0 /\ acc.archive = 0 /\ acc.examples = <<>> /\ matches[c] = {}
        BY <2>1 DEF Init
      <3>2. RangeOf(acc.examples) = {} /\ Len(acc.examples) = 0 /\ acc.examples \in Seq({})
        BY <3>1 DEF RangeOf
      <3>3. IsFiniteSet({}) /\ Cardinality({}) = 0
        BY FS_EmptySet
      <3> HIDE DEF acc
      <3>4. acc.current \in Nat /\ acc.archive \in Nat /\ acc.current + acc.archive >= 0
        BY <3>1
      <3>5. Len(acc.examples) <= 3 /\ RangeOf(acc.examples) = {}
        BY <3>2
      <3>6. Samples(acc, {})
        BY <3>2, <3>3, <3>4, <3>5, Zenon DEF Samples, MaxExamples
      <3> QED
        BY <3>1, <3>6 DEF acc
    <2> QED
      BY <2>1, <2>4, <2>5 DEF Init, StatisticsInv
  <1>2. StatisticsInv /\ [Next]_vars => StatisticsInv'
    <2>1. SUFFICES ASSUME StatisticsInv, [Next]_vars
                   PROVE  StatisticsInv'
      OBVIOUS
    <2>2. CASE UNCHANGED <<matches, statistics>>
      <3>1. db' = db /\ position' \in Nat \ {0}
        BY <2>1, <2>2 DEF StatisticsInv, Next, TakeMark, TakeTag, TakeKeyPart, Skip, End, vars
      <3>2. raw' \in Texts \cup {NoText}
        <4>1. CASE TakeTag
          <5>1. position \in 1..Len(db.dat) /\ db.dat \in Seq(Cell)
            BY <2>1, <4>1, DatabasesAssumption DEF StatisticsInv, TakeTag, Reading, IsDatabase
          <5>2. Here \in Cell
            BY <5>1 DEF Here
          <5>3. Here.text \in Texts \cup {NoText}
            BY <5>2 DEF Cell
          <5> QED
            BY <2>1, <4>1, <5>3 DEF StatisticsInv, TakeTag
        <4>2. CASE raw' = raw \/ raw' = NoText
          BY <2>1, <4>2 DEF StatisticsInv
        <4> QED
          BY <2>1, <4>1, <4>2 DEF Next, TakeMark, TakeKeyPart, Skip, End, vars
      <3> QED
        BY <2>1, <2>2, <3>1, <3>2 DEF StatisticsInv, FoundToday
    <2>3. CASE TakeMark \/ End
      <3>1. MatchRecord /\ CountRecord /\ db' = db /\ position' \in Nat \ {0}
            /\ raw' \in Texts \cup {NoText}
        BY <2>1, <2>3 DEF StatisticsInv, TakeMark, End
      <3> QED
        BY <2>1, <3>1, EndOfRecordCounted DEF StatisticsInv
    <2>4. TakeTag \/ TakeKeyPart \/ Skip \/ UNCHANGED vars => UNCHANGED <<matches, statistics>>
      BY DEF TakeTag, TakeKeyPart, Skip, vars
    <2> QED
      BY <2>1, <2>2, <2>3, <2>4 DEF Next
  <1>3. StatisticsInv => StatisticsAgreeWithSearch
    <2>1. SUFFICES ASSUME StatisticsInv
                   PROVE  StatisticsAgreeWithSearch
      OBVIOUS
    <2>2. statistics.calls = FoundToday(Codes) /\ statistics.resolved = FoundToday(Known)
      BY <2>1 DEF StatisticsInv
    <2>3. ASSUME NEW c \in Codes \ Known
          PROVE  LET acc == statistics.unknown[c]
                 IN  /\ RangeOf(acc.examples) \subseteq matches[c]
                     /\ Cardinality(RangeOf(acc.examples)) = Len(acc.examples)
                     /\ Len(acc.examples) = Min({MaxExamples, Cardinality(matches[c])})
                     /\ acc.current + acc.archive >= Cardinality(matches[c])
      <3>1. Samples(statistics.unknown[c], matches[c])
        BY <2>1 DEF StatisticsInv
      <3> QED
        BY <3>1, SamplesAreEnough
    <2> QED
      BY <2>2, <2>3 DEF StatisticsAgreeWithSearch, FoundToday
  <1> QED
    BY <1>1, <1>2, <1>3, PTL DEF Spec

-----------------------------------------------------------------------------
(* A record, as the scans and as the segment parser read it *)

\* No kind of a cell is two.
LEMMA KindsDiffer ==
    /\ "mark" \notin Tags /\ "character" \notin Tags /\ "year" \notin Tags /\ NoTag \notin Tags
    /\ InterestField \in Tags /\ InterestField # "mark"
    /\ InterestField # "character" /\ InterestField # "year"
  <1>1. "mark" \notin Tags /\ "character" \notin Tags /\ "year" \notin Tags /\ NoTag \notin Tags
    BY FieldsAssumption DEF Tags, NoTag
  <1>2. InterestField \in Tags
    BY InterestAssumption DEF Tags, Fields
  <1> QED
    BY <1>1, <1>2

\* A file is a sequence of cells.
LEMMA FileIsRead ==
    ASSUME db \in Databases
    PROVE  /\ db.dat \in Seq(Cell) /\ Len(db.dat) \in Nat
           /\ \A i \in 1..Len(db.dat) : db.dat[i] \in Cell
           /\ Starts \subseteq 1..Len(db.dat)
  <1>1. db.dat \in Seq(Cell)
    BY DatabasesAssumption DEF IsDatabase
  <1> QED
    BY <1>1 DEF Starts

\* The next mark is at a mark or behind the end, and there is none before it.
LEMMA NextMarkIs ==
    ASSUME db \in Databases, NEW from \in 1..(Len(db.dat) + 1)
    PROVE  /\ NextMark(db, from) \in from..(Len(db.dat) + 1)
           /\ NextMark(db, from) \in Starts \cup {Len(db.dat) + 1}
           /\ \A j \in from..(NextMark(db, from) - 1) : ~IsMark(db.dat[j])
  <1> DEFINE marks == {i \in from..Len(db.dat) : IsMark(db.dat[i])}
  <1>1. Len(db.dat) \in Nat
    BY FileIsRead
  <1>2. NextMark(db, from) = IF marks = {} THEN Len(db.dat) + 1 ELSE Min(marks)
    BY DEF NextMark
  <1>3. CASE marks = {}
    BY <1>1, <1>2, <1>3
  <1>4. CASE marks # {}
    <2>1. marks \in SUBSET Nat
      BY <1>1
    <2>2. PICK m \in marks : \A y \in marks : m <= y
      <3> HIDE DEF marks
      <3> QED
        BY <1>4, <2>1, LeastNumber
    <2>3. NextMark(db, from) = m
      <3> HIDE DEF marks
      <3> QED
        BY <1>2, <1>4, <2>1, <2>2, MinIs
    <2>4. m \in from..Len(db.dat) /\ IsMark(db.dat[m])
      OBVIOUS
    <2>5. \A j \in from..(m - 1) : j \notin marks
      BY <1>1, <2>2, <2>4
    <2> QED
      BY <1>1, <2>3, <2>4, <2>5 DEF Starts
  <1> QED
    BY <1>3, <1>4

\* Where a record ends if no mark lies in between.
LEMMA RecordEndsAt ==
    ASSUME db \in Databases, NEW from \in 1..(Len(db.dat) + 1),
           NEW at \in from..(Len(db.dat) + 1), at <= Len(db.dat) => IsMark(db.dat[at]),
           \A j \in from..(at - 1) : ~IsMark(db.dat[j])
    PROVE  NextMark(db, from) = at
  <1> DEFINE next == NextMark(db, from)
  <1>1. Len(db.dat) \in Nat /\ Starts \subseteq 1..Len(db.dat)
    BY FileIsRead
  <1>2. /\ next \in from..(Len(db.dat) + 1) /\ next \in Starts \cup {Len(db.dat) + 1}
        /\ \A j \in from..(next - 1) : ~IsMark(db.dat[j])
    BY NextMarkIs
  <1> HIDE DEF next
  <1>3. next <= Len(db.dat) => IsMark(db.dat[next])
    BY <1>1, <1>2 DEF Starts
  <1>4. ~(next < at)
    <2>1. next < at => next \in from..(at - 1) /\ next <= Len(db.dat)
      BY <1>1, <1>2
    <2> QED
      BY <1>3, <2>1
  <1>5. ~(at < next)
    <2>1. at < next => at \in from..(next - 1) /\ at <= Len(db.dat)
      BY <1>1, <1>2
    <2> QED
      BY <1>2, <2>1
  <1> QED
    BY <1>1, <1>2, <1>4, <1>5 DEF next

\* A segment of the parser has the cells from its mark to the next.
LEMMA SegmentIs ==
    ASSUME db \in Databases, NEW s \in Starts
    PROVE  /\ Segment(s) \in Seq(Cell) /\ Len(Segment(s)) = NextMark(db, s + 1) - s
           /\ \A j \in 1..Len(Segment(s)) : Segment(s)[j] = db.dat[s + j - 1]
           /\ Segment(s) # <<>> /\ IsMark(Segment(s)[1])
           /\ NextMark(db, s + 1) \in (s + 1)..(Len(db.dat) + 1)
           /\ KeyStart(Segment(s)) = 2
  <1> DEFINE last == NextMark(db, s + 1) - 1
  <1>1. db.dat \in Seq(Cell) /\ Len(db.dat) \in Nat /\ s \in 1..Len(db.dat) /\ IsMark(db.dat[s])
    BY FileIsRead DEF Starts
  <1>2. s + 1 \in 1..(Len(db.dat) + 1)
    BY <1>1
  <1>3. NextMark(db, s + 1) \in (s + 1)..(Len(db.dat) + 1)
    BY <1>2, NextMarkIs
  <1>4. last \in s..Len(db.dat) /\ last + 1 = NextMark(db, s + 1)
    BY <1>1, <1>3
  <1> HIDE DEF last
  <1>5. Segment(s) = SubSeq(db.dat, s, last)
    BY DEF Segment, last
  <1>6. /\ Segment(s) \in Seq(Cell) /\ Len(Segment(s)) = last - s + 1
        /\ \A j \in 1..(last - s + 1) : Segment(s)[j] = db.dat[s + j - 1]
    BY <1>1, <1>4, <1>5, SubSeqProperties
  <1>7. Segment(s)[1] = db.dat[s] /\ Len(Segment(s)) > 0
    BY <1>1, <1>4, <1>6
  <1>8. Segment(s) # <<>>
    BY <1>7
  <1>9. Len(Segment(s)) = NextMark(db, s + 1) - s
    BY <1>1, <1>3, <1>4, <1>6
  <1> QED
    BY <1>1, <1>3, <1>4, <1>6, <1>7, <1>8, <1>9 DEF KeyStart

\* The key cells k are those of the record at s, and there are no more.
WholeKey(s, k) ==
    /\ k \in Seq(Cell)
    /\ s + Len(k) < NextMark(db, s + 1)
    /\ \A j \in 1..Len(k) : k[j] = db.dat[s + j] /\ k[j].kind \in {"character", "year"}
    /\ s + Len(k) + 1 = NextMark(db, s + 1) \/ db.dat[s + Len(k) + 1].kind \in Tags

\* Where the callsign of a whole key ends, and what it is.
LEMMA KeyInSegment ==
    ASSUME db \in Databases, NEW s \in Starts, NEW k, WholeKey(s, k),
           NEW n \in 0..Len(k), \A j \in 1..n : k[j].kind = "character",
           n = Len(k) \/ k[n + 1].kind = "year"
    PROVE  /\ SegmentCall(Segment(s), <<>>)
                 = IF n + 1 < Len(k) THEN <<>> ELSE [i \in 1..n |-> k[i].character]
           /\ SegmentVintage(Segment(s)) = IF n = Len(k) THEN NoYear ELSE k[n + 1].year
  <1> DEFINE segment == Segment(s)
             ends == {i \in 2..(Len(segment) + 1) :
                         i <= Len(segment) => segment[i].kind # "character"}
  <1>1. /\ Len(k) \in Nat /\ s \in Nat /\ s + Len(k) < NextMark(db, s + 1)
        /\ \A j \in 1..Len(k) : k[j] = db.dat[s + j] /\ k[j].kind \in {"character", "year"}
        /\ s + Len(k) + 1 = NextMark(db, s + 1) \/ db.dat[s + Len(k) + 1].kind \in Tags
    BY FileIsRead DEF WholeKey
  <1>2. /\ Len(segment) = NextMark(db, s + 1) - s
        /\ \A j \in 1..Len(segment) : segment[j] = db.dat[s + j - 1]
        /\ NextMark(db, s + 1) \in Nat /\ KeyStart(segment) = 2
    BY SegmentIs, FileIsRead
  <1> HIDE DEF segment
  <1>3. Len(segment) \in Nat /\ Len(k) + 1 <= Len(segment)
    BY <1>1, <1>2
  <1>4. ASSUME NEW j \in 1..Len(k)
        PROVE  segment[j + 1] = k[j] /\ j + 1 \in 2..Len(segment)
    <2>1. j + 1 \in 1..Len(segment) /\ j + 1 \in 2..Len(segment) /\ s + (j + 1) - 1 = s + j
      BY <1>1, <1>3
    <2>2. segment[j + 1] = db.dat[s + (j + 1) - 1]
      BY <1>2, <2>1
    <2> QED
      BY <1>1, <2>1, <2>2
  <1>5. n \in Nat /\ n + 2 \in 2..(Len(segment) + 1)
    BY <1>1, <1>3
  <1>a. n = Len(k) /\ n + 2 <= Len(segment) => segment[n + 2].kind \in Tags
    <2>1. SUFFICES ASSUME n = Len(k), n + 2 <= Len(segment)
                   PROVE  segment[n + 2].kind \in Tags
      OBVIOUS
    <2>2. /\ n + 2 \in 1..Len(segment) /\ s + (n + 2) - 1 = s + Len(k) + 1
          /\ s + Len(k) + 1 # NextMark(db, s + 1)
      <3>1. Len(segment) = NextMark(db, s + 1) - s /\ NextMark(db, s + 1) \in Nat /\ s \in Nat
            /\ Len(k) \in Nat
        BY <1>1, <1>2
      <3> QED
        BY <1>5, <2>1, <3>1
    <2> QED
      BY <1>1, <1>2, <2>2
  <1>6. n + 2 \in ends
    <2>1. CASE n # Len(k)
      <3>1. n + 1 \in 1..Len(k) /\ k[n + 1].kind = "year"
        BY <1>1, <1>5, <2>1
      <3>2. segment[(n + 1) + 1].kind = "year"
        BY <1>4, <2>1, <3>1
      <3>3. (n + 1) + 1 = n + 2
        BY <1>5
      <3> QED
        BY <1>5, <3>2, <3>3
    <2>2. CASE n = Len(k)
      <3>1. n + 2 <= Len(segment) => segment[n + 2].kind # "character"
        BY <1>a, <2>2, KindsDiffer
      <3> QED
        BY <1>5, <3>1
    <2> QED
      BY <2>1, <2>2
  <1>7. \A y \in ends : n + 2 <= y
    <2>1. ASSUME NEW y \in ends, ~(n + 2 <= y)
          PROVE  FALSE
      <3>1. y - 1 \in 1..n /\ y - 1 \in 1..Len(k)
        <4>1. y \in 2..(Len(segment) + 1) /\ Len(segment) \in Nat
          BY <1>3
        <4>2. y \in Int /\ 2 <= y /\ n \in Nat /\ n <= Len(k) /\ Len(k) \in Nat
          BY <1>1, <4>1
        <4> HIDE DEF ends
        <4> QED
          BY <2>1, <4>2
      <3>2. segment[(y - 1) + 1].kind = "character" /\ (y - 1) + 1 \in 2..Len(segment)
        BY <1>4, <3>1
      <3>3. (y - 1) + 1 = y
        BY <1>3
      <3> QED
        BY <1>3, <2>1, <3>2, <3>3
    <2> QED
      BY <2>1
  <1>8. CallEnd(segment) = n + 2
    <2>1. CallEnd(segment) = Min(ends)
      BY <1>2 DEF CallEnd
    <2>2. ends \in SUBSET Nat
      BY <1>3
    <2> HIDE DEF ends
    <2> QED
      BY <1>6, <1>7, <2>1, <2>2, MinIs
  <1>9. HasYear(segment) <=> n # Len(k)
    <2>1. CASE n = Len(k)
      <3>1. n + 2 <= Len(segment) => segment[n + 2].kind # "year"
        BY <1>a, <2>1, KindsDiffer
      <3> QED
        BY <1>8, <2>1, <3>1 DEF HasYear
    <2>2. CASE n # Len(k)
      <3>1. n + 1 \in 1..Len(k) /\ k[n + 1].kind = "year"
        BY <1>1, <1>5, <2>2
      <3>2. segment[(n + 1) + 1].kind = "year" /\ (n + 1) + 1 \in 2..Len(segment)
        BY <1>4, <3>1
      <3>3. (n + 1) + 1 = n + 2
        BY <1>5
      <3> QED
        BY <1>3, <1>8, <2>2, <3>2, <3>3 DEF HasYear
    <2> QED
      BY <2>1, <2>2
  <1>10. SegmentVintage(segment) = IF n = Len(k) THEN NoYear ELSE k[n + 1].year
    <2>1. n # Len(k) => segment[n + 2] = k[n + 1]
      <3>1. n # Len(k) => n + 1 \in 1..Len(k) /\ (n + 1) + 1 = n + 2
        BY <1>1, <1>5
      <3> QED
        BY <1>4, <3>1
    <2> QED
      BY <1>8, <1>9, <2>1 DEF SegmentVintage
  <1>11. SplitFails(segment) <=> n + 1 < Len(k)
    <2>1. CASE n + 1 < Len(k)
      <3>1. n + 2 \in 1..Len(k) /\ (n + 2) + 1 = n + 3 /\ n # Len(k)
        BY <1>1, <1>5, <2>1
      <3>2. segment[n + 3].kind \in {"character", "year"} /\ n + 3 \in 2..Len(segment)
        <4>1. segment[(n + 2) + 1] = k[n + 2] /\ (n + 2) + 1 \in 2..Len(segment)
          BY <1>4, <3>1
        <4> QED
          BY <1>1, <3>1, <4>1
      <3>3. n + 2 < Len(segment) /\ (n + 2) + 1 = n + 3
        BY <1>3, <1>5, <3>2
      <3> QED
        BY <1>8, <1>9, <2>1, <3>1, <3>2, <3>3 DEF SplitFails
    <2>2. CASE n = Len(k)
      BY <1>1, <1>9, <2>2 DEF SplitFails
    <2>3. CASE n + 1 = Len(k)
      <3>1. SUFFICES ASSUME n + 2 < Len(segment)
                     PROVE  segment[n + 3].kind \in Tags
        <4>1. (n + 2) + 1 = n + 3 /\ ~(n + 1 < Len(k))
          BY <1>1, <1>5, <2>3
        <4> QED
          BY <1>8, <4>1, KindsDiffer DEF SplitFails
      <3>2. /\ n + 3 \in 1..Len(segment) /\ s + (n + 3) - 1 = s + Len(k) + 1
            /\ s + Len(k) + 1 # NextMark(db, s + 1)
        <4>1. Len(segment) = NextMark(db, s + 1) - s /\ NextMark(db, s + 1) \in Nat
              /\ s \in Nat /\ Len(k) \in Nat /\ Len(segment) \in Nat
          BY <1>1, <1>2, <1>3
        <4> QED
          BY <1>5, <2>3, <3>1, <4>1
      <3> QED
        BY <1>1, <1>2, <3>2
    <2>4. n + 1 < Len(k) \/ n = Len(k) \/ n + 1 = Len(k)
      BY <1>1, <1>5
    <2> QED
      BY <2>1, <2>2, <2>3, <2>4
  <1>12. ~SplitFails(segment) =>
            SegmentCall(segment, <<>>) = [i \in 1..n |-> k[i].character]
    <2> SUFFICES ASSUME ~SplitFails(segment)
                 PROVE  SegmentCall(segment, <<>>) = [i \in 1..n |-> k[i].character]
      OBVIOUS
    <2>1. CASE n > 0
      <3>1. SegmentCall(segment, <<>>)
              = [i \in 1..(n + 2 - 2) |-> segment[2 + i - 1].character]
        BY <1>2, <1>5, <1>8, <2>1 DEF SegmentCall
      <3>2. n + 2 - 2 = n
        BY <1>5
      <3>3. ASSUME NEW i \in 1..n
            PROVE  segment[2 + i - 1] = k[i]
        <4>1. i \in 1..Len(k) /\ 2 + i - 1 = i + 1
          BY <1>1, <1>5
        <4> QED
          BY <1>4, <4>1
      <3> QED
        BY <3>1, <3>2, <3>3
    <2>2. CASE n = 0
      <3>1. SegmentCall(segment, <<>>) = <<>>
        BY <1>2, <1>8, <2>2 DEF SegmentCall
      <3>2. [i \in 1..0 |-> k[i].character] = <<>>
        OBVIOUS
      <3> QED
        BY <2>2, <3>1, <3>2
    <2> QED
      BY <1>5, <2>1, <2>2
  <1>13. SplitFails(segment) => SegmentCall(segment, <<>>) = <<>>
    BY DEF SegmentCall
  <1> QED
    BY <1>10, <1>11, <1>12, <1>13 DEF segment

\* No text at all is a callsign.
LEMMA NoCallsign == ~IsCallsign(<<>>)
  BY DEF IsCallsign

\* The key that the scans keep is read as the segment parser reads it.
LEMMA KeyIsParsed ==
    ASSUME db \in Databases, NEW s \in Starts, NEW k, WholeKey(s, k)
    PROVE  /\ OwnKey(s) => RecordKey(k) = MatchOf(s) /\ RecordKey(k) # NoKey
           /\ ~OwnKey(s) => RecordKey(k) = NoKey
  <1> DEFINE years == {i \in 1..Len(k) : k[i].kind = "year"}
             n == IF years = {} THEN Len(k) ELSE Min(years) - 1
             letters == [i \in 1..n |-> k[i].character]
             call == SegmentCall(Segment(s), <<>>)
             year == SegmentVintage(Segment(s))
  <1>1. /\ Len(k) \in Nat
        /\ \A j \in 1..Len(k) : k[j].kind \in {"character", "year"}
    BY DEF WholeKey
  <1>2. years # {} => /\ Min(years) \in years
                      /\ \A i \in years : Min(years) <= i
    <2>1. SUFFICES ASSUME years # {}
                   PROVE  Min(years) \in years /\ \A i \in years : Min(years) <= i
      OBVIOUS
    <2>2. years \in SUBSET Nat
      BY <1>1
    <2> HIDE DEF years
    <2>3. PICK m \in years : \A i \in years : m <= i
      BY <2>1, <2>2, LeastNumber
    <2>4. Min(years) = m
      BY <2>2, <2>3, MinIs
    <2> QED
      BY <2>3, <2>4
  <1>3. /\ n \in 0..Len(k)
        /\ years # {} => n + 1 = Min(years) /\ n + 1 \in 1..Len(k)
        /\ n = Len(k) <=> years = {}
        /\ n = Len(k) \/ k[n + 1].kind = "year"
    <2>1. CASE years = {}
      BY <1>1, <2>1
    <2>2. CASE years # {}
      <3>1. Min(years) \in 1..Len(k) /\ k[Min(years)].kind = "year"
        BY <1>2, <2>2
      <3>2. n = Min(years) - 1
        BY <2>2
      <3> HIDE DEF n, years
      <3>3. n + 1 = Min(years) /\ n \in 0..Len(k) /\ n # Len(k)
        BY <1>1, <3>1, <3>2
      <3> QED
        BY <2>2, <3>1, <3>3
    <2> QED
      BY <2>1, <2>2
  <1>4. \A j \in 1..n : k[j].kind = "character"
    <2>1. ASSUME NEW j \in 1..n
          PROVE  k[j].kind = "character"
      <3>1. j \in 1..Len(k) /\ j < n + 1
        <4> HIDE DEF n
        <4> QED
          BY <1>1, <1>3
      <3>2. j \notin years
        <4>1. CASE years = {}
          BY <4>1
        <4>2. CASE years # {}
          <5>1. ASSUME j \in years
                PROVE  FALSE
            <6>1. n + 1 <= j /\ n \in Nat
              <7>1. n + 1 = Min(years) /\ Min(years) <= j /\ n \in 0..Len(k)
                BY <1>2, <1>3, <4>2, <5>1, Zenon
              <7> HIDE DEF n, years
              <7> QED
                BY <1>1, <7>1
            <6> HIDE DEF n
            <6> QED
              BY <3>1, <6>1
          <5> QED
            BY <5>1
        <4> QED
          BY <4>1, <4>2
      <3> QED
        BY <1>1, <3>1, <3>2
    <2> QED
      BY <2>1
  <1>5. /\ call = IF n + 1 < Len(k) THEN <<>> ELSE letters
        /\ year = IF n = Len(k) THEN NoYear ELSE k[n + 1].year
    <2> HIDE DEF n
    <2> QED
      BY <1>3, <1>4, KeyInSegment
  <1>6. RecordKey(k) = IF ~IsCallsign(letters) \/ Len(k) > n + 1 THEN NoKey
                       ELSE [call |-> letters,
                             vintage |-> IF years = {} THEN NoYear ELSE k[Min(years)].year]
    BY DEF RecordKey
  <1>7. n \in Nat /\ (Len(k) > n + 1 <=> n + 1 < Len(k))
    BY <1>1, <1>3
  <1>8. year = IF years = {} THEN NoYear ELSE k[Min(years)].year
    BY <1>3, <1>5
  <1>9. MatchOf(s) = [call |-> call, vintage |-> year]
    BY DEF MatchOf, Edition, Parsed
  <1>10. OwnKey(s) <=> IsCallsign(call)
    BY DEF OwnKey
  <1> HIDE DEF n, years, letters, call, year
  <1>11. OwnKey(s) <=> IsCallsign(letters) /\ ~(Len(k) > n + 1)
    BY <1>5, <1>7, <1>10, NoCallsign
  <1>12. ASSUME OwnKey(s)
         PROVE  RecordKey(k) = MatchOf(s) /\ MatchOf(s) # NoKey
    <2>1. call = letters /\ call # <<>>
      BY <1>5, <1>7, <1>10, <1>11, <1>12, NoCallsign
    <2>2. RecordKey(k) = [call |-> call, vintage |-> year]
      BY <1>6, <1>8, <1>11, <1>12, <2>1
    <2> QED
      BY <1>9, <2>1, <2>2 DEF NoKey
  <1> QED
    BY <1>6, <1>11, <1>12

\* The scans are in the record that begins at s: its key, its last tag and its last interest
\* value are those of the cells from there to the position.
Within(s) ==
    /\ s \in Starts /\ s < position
    /\ \A j \in (s + 1)..(position - 1) : ~IsMark(db.dat[j])
    /\ s + Len(key) < position
    /\ \A j \in 1..Len(key) : key[j] = db.dat[s + j] /\ key[j].kind \in {"character", "year"}
    /\ \A j \in (s + Len(key) + 1)..(position - 1) : db.dat[j].kind \in Tags
    /\ s + Len(key) + 1 = position => tag = NoTag /\ value = NoText /\ vintage = NoYear
    /\ s + Len(key) + 1 # position =>
          /\ tag = db.dat[position - 1].kind /\ value = db.dat[position - 1].text
          /\ vintage \in {NoYear, RecordKey(key).vintage}
    /\ \/ /\ raw = NoText
          /\ \A j \in (s + 1)..(position - 1) : db.dat[j].kind # InterestField
       \/ \E j \in (s + 1)..(position - 1) :
             /\ db.dat[j].kind = InterestField /\ db.dat[j].text = raw
             /\ \A m \in (j + 1)..(position - 1) : db.dat[m].kind # InterestField

\* A scan is in the record of the last mark, or before the first one.
ScanInv ==
    /\ db \in Databases /\ position \in 1..(Len(db.dat) + 1) /\ key \in Seq(Cell)
    /\ done \in BOOLEAN /\ inRecord \in BOOLEAN
    /\ done => position = Len(db.dat) + 1
    /\ ~inRecord => /\ key = <<>> /\ tag = NoTag /\ value = NoText /\ raw = NoText /\ vintage = NoYear
                    /\ \A j \in 1..(position - 1) : ~IsMark(db.dat[j])
    /\ inRecord => \E s \in Starts : Within(s)

\* A mark begins a record.
LEMMA MarkKeepsScan ==
    ASSUME ScanInv, TakeMark
    PROVE  ScanInv'
  <1>1. /\ db \in Databases /\ position \in 1..Len(db.dat) /\ IsMark(db.dat[position])
        /\ db' = db /\ position' = position + 1 /\ key' = <<>> /\ inRecord' = TRUE /\ done' = FALSE
        /\ tag' = NoTag /\ value' = NoText /\ vintage' = NoYear /\ raw' = NoText
    BY DEF ScanInv, TakeMark, Reading, Here, IsMark
  <1>2. Len(db.dat) \in Nat /\ position \in Nat /\ position \in Starts
    BY <1>1, FileIsRead DEF Starts
  <1>3. PICK at \in Starts : at = position
    BY <1>2
  <1>5. Starts' = Starts
    BY <1>1 DEF Starts
  <1>6. Within(at)'
    <2>1. /\ Len(key') = 0 /\ (at + 1)..(position' - 1) = {} /\ 1..Len(key') = {}
          /\ at + Len(key') + 1 = position' /\ at < position' /\ at + Len(key') < position'
          /\ (at + Len(key') + 1)..(position' - 1) = {}
      BY <1>1, <1>2, <1>3
    <2> QED
      BY <1>1, <1>3, <1>5, <2>1 DEF Within
  <1>4. position' \in 1..(Len(db.dat) + 1) /\ key' \in Seq(Cell)
    BY <1>1, <1>2
  <1> QED
    BY <1>1, <1>4, <1>5, <1>6 DEF ScanInv

\* A tag completes the key and becomes the last one.
LEMMA TagKeepsScan ==
    ASSUME ScanInv, TakeTag
    PROVE  ScanInv'
  <1>1. /\ db \in Databases /\ position \in 1..Len(db.dat) /\ db.dat[position].kind \in Tags
        /\ db' = db /\ position' = position + 1 /\ key' = key /\ inRecord' = inRecord /\ inRecord
        /\ done' = FALSE /\ done = FALSE /\ key \in Seq(Cell)
        /\ tag' = db.dat[position].kind /\ value' = db.dat[position].text /\ vintage' = TagVintage
        /\ raw' = IF db.dat[position].kind = InterestField THEN db.dat[position].text ELSE raw
    BY DEF ScanInv, TakeTag, Reading, Here
  <1>2. Len(db.dat) \in Nat /\ Starts \subseteq 1..Len(db.dat) /\ Starts' = Starts
    BY <1>1, FileIsRead DEF Starts
  <1>3. PICK s \in Starts : Within(s)
    BY <1>1 DEF ScanInv
  <1>4. /\ s \in Nat /\ s < position /\ Len(key) \in Nat /\ s + Len(key) < position
        /\ \A j \in (s + 1)..(position - 1) : ~IsMark(db.dat[j])
        /\ \A j \in 1..Len(key) : key[j] = db.dat[s + j] /\ key[j].kind \in {"character", "year"}
        /\ \A j \in (s + Len(key) + 1)..(position - 1) : db.dat[j].kind \in Tags
    BY <1>1, <1>2, <1>3 DEF Within
  <1>5. \A j \in (s + 1)..position : j \in (s + 1)..(position - 1) \/ j = position
    BY <1>1, <1>4
  <1>6. \A j \in (s + Len(key) + 1)..position : j \in (s + Len(key) + 1)..(position - 1) \/ j = position
    BY <1>1, <1>4
  <1>7. ~IsMark(db.dat[position])
    BY <1>1, KindsDiffer DEF IsMark
  <1>8. vintage' \in {NoYear, RecordKey(key).vintage}
    <2>1. vintage \in {NoYear, RecordKey(key).vintage}
      BY <1>3 DEF Within
    <2> QED
      BY <1>1, <2>1 DEF TagVintage
  <1>9. \/ /\ raw' = NoText
           /\ \A j \in (s + 1)..position : db.dat[j].kind # InterestField
        \/ \E j \in (s + 1)..position :
              /\ db.dat[j].kind = InterestField /\ db.dat[j].text = raw'
              /\ \A m \in (j + 1)..position : db.dat[m].kind # InterestField
    <2>1. CASE db.dat[position].kind = InterestField
      <3>1. position \in (s + 1)..position /\ (position + 1)..position = {}
        BY <1>1, <1>4
      <3> QED
        BY <1>1, <2>1, <3>1
    <2>2. CASE db.dat[position].kind # InterestField
      <3>1. CASE /\ raw = NoText
                 /\ \A j \in (s + 1)..(position - 1) : db.dat[j].kind # InterestField
        BY <1>1, <1>5, <2>2, <3>1
      <3>2. CASE \E j \in (s + 1)..(position - 1) :
                    /\ db.dat[j].kind = InterestField /\ db.dat[j].text = raw
                    /\ \A m \in (j + 1)..(position - 1) : db.dat[m].kind # InterestField
        <4>1. PICK j \in (s + 1)..(position - 1) :
                    /\ db.dat[j].kind = InterestField /\ db.dat[j].text = raw
                    /\ \A m \in (j + 1)..(position - 1) : db.dat[m].kind # InterestField
          BY <3>2
        <4>2. \A m \in (j + 1)..position : m \in (j + 1)..(position - 1) \/ m = position
          BY <1>1, <1>4
        <4>3. \A m \in (j + 1)..position : db.dat[m].kind # InterestField
          BY <2>2, <4>1, <4>2
        <4>4. j \in (s + 1)..position
          BY <1>1, <1>4
        <4>5. raw' = raw
          BY <1>1, <2>2
        <4> QED
          BY <4>1, <4>3, <4>4, <4>5
      <3> QED
        BY <1>3, <3>1, <3>2 DEF Within
    <2> QED
      BY <2>1, <2>2
  <1>10. Within(s)'
    <2>1. position' - 1 = position /\ s < position' /\ s + Len(key') < position'
          /\ s + Len(key') + 1 # position'
      BY <1>1, <1>4
    <2>2. RecordKey(key') = RecordKey(key)
      BY <1>1
    <2>3. \A j \in (s + 1)..(position' - 1) : ~IsMark(db'.dat[j])
      BY <1>1, <1>4, <1>5, <1>7, <2>1
    <2>4. \A j \in (s + Len(key') + 1)..(position' - 1) : db'.dat[j].kind \in Tags
      BY <1>1, <1>4, <1>6, <2>1
    <2>5. \A j \in 1..Len(key') : key'[j] = db'.dat[s + j] /\ key'[j].kind \in {"character", "year"}
      BY <1>1, <1>4
    <2>6. /\ tag' = db'.dat[position' - 1].kind /\ value' = db'.dat[position' - 1].text
          /\ vintage' \in {NoYear, RecordKey(key').vintage}
      BY <1>1, <1>8, <2>1, <2>2
    <2>7. \/ /\ raw' = NoText
             /\ \A j \in (s + 1)..(position' - 1) : db'.dat[j].kind # InterestField
          \/ \E j \in (s + 1)..(position' - 1) :
                /\ db'.dat[j].kind = InterestField /\ db'.dat[j].text = raw'
                /\ \A m \in (j + 1)..(position' - 1) : db'.dat[m].kind # InterestField
      BY <1>1, <1>9, <2>1
    <2> QED
      BY <1>2, <2>1, <2>3, <2>4, <2>5, <2>6, <2>7 DEF Within
  <1>11. position' \in 1..(Len(db.dat) + 1)
    BY <1>1, <1>2
  <1> QED
    BY <1>1, <1>2, <1>10, <1>11 DEF ScanInv

\* A cell of the key is taken while no tag has been.
LEMMA KeyPartKeepsScan ==
    ASSUME ScanInv, TakeKeyPart
    PROVE  ScanInv'
  <1>1. /\ db \in Databases /\ position \in 1..Len(db.dat)
        /\ db.dat[position].kind \in {"character", "year"}
        /\ db' = db /\ position' = position + 1 /\ key' = Append(key, db.dat[position])
        /\ inRecord' = inRecord /\ inRecord /\ done' = FALSE /\ done = FALSE /\ key \in Seq(Cell)
        /\ tag = NoTag /\ UNCHANGED <<tag, value, vintage, raw>>
    BY DEF ScanInv, TakeKeyPart, KeyComplete, Reading, Here
  <1>2. /\ Len(db.dat) \in Nat /\ Starts \subseteq 1..Len(db.dat) /\ Starts' = Starts
        /\ db.dat[position] \in Cell
    BY <1>1, FileIsRead DEF Starts
  <1>3. PICK s \in Starts : Within(s)
    BY <1>1 DEF ScanInv
  <1>4. /\ s \in Nat /\ s < position /\ Len(key) \in Nat /\ s + Len(key) < position
        /\ \A j \in (s + 1)..(position - 1) : ~IsMark(db.dat[j])
        /\ \A j \in 1..Len(key) : key[j] = db.dat[s + j] /\ key[j].kind \in {"character", "year"}
        /\ \A j \in (s + Len(key) + 1)..(position - 1) : db.dat[j].kind \in Tags
    BY <1>1, <1>2, <1>3 DEF Within
  <1>5. s + Len(key) + 1 = position
    <2>1. CASE s + Len(key) + 1 # position
      <3>1. position - 1 \in (s + Len(key) + 1)..(position - 1)
        <4>1. /\ s \in Nat /\ Len(key) \in Nat /\ position \in Nat
              /\ s + Len(key) < position
          BY <1>1, <1>2, <1>4
        <4> QED
          BY <2>1, <4>1
      <3>2. tag \in Tags
        BY <1>3, <1>4, <2>1, <3>1 DEF Within
      <3> QED
        BY <1>1, <3>2, KindsDiffer
    <2> QED
      BY <2>1
  <1>6. value = NoText /\ vintage = NoYear
    BY <1>3, <1>5 DEF Within
  <1>7. /\ key' \in Seq(Cell) /\ Len(key') = Len(key) + 1
        /\ \A j \in 1..Len(key) : key'[j] = key[j]
        /\ key'[Len(key) + 1] = db.dat[position]
    BY <1>1, <1>2
  <1>8. \A j \in (s + 1)..position : j \in (s + 1)..(position - 1) \/ j = position
    BY <1>1, <1>4
  <1>9. ~IsMark(db.dat[position]) /\ db.dat[position].kind # InterestField
    BY <1>1, KindsDiffer DEF IsMark
  <1>10. /\ raw = NoText
         /\ \A j \in (s + 1)..(position - 1) : db.dat[j].kind # InterestField
    <2>1. \A j \in (s + 1)..(position - 1) : db.dat[j].kind # InterestField
      <3>1. ASSUME NEW j \in (s + 1)..(position - 1)
            PROVE  db.dat[j].kind # InterestField
        <4>1. j - s \in 1..Len(key) /\ s + (j - s) = j
          BY <1>4, <1>5
        <4>2. db.dat[j].kind \in {"character", "year"}
          BY <1>4, <4>1
        <4> QED
          BY <4>2, KindsDiffer
      <3> QED
        BY <3>1
    <2> QED
      BY <1>3, <2>1 DEF Within
  <1>11. Within(s)'
    <2>1. position' - 1 = position /\ s < position' /\ s + Len(key') < position'
          /\ s + Len(key') + 1 = position' /\ (s + Len(key') + 1)..(position' - 1) = {}
      BY <1>1, <1>4, <1>5, <1>7
    <2>2. \A j \in (s + 1)..(position' - 1) : ~IsMark(db'.dat[j])
      BY <1>1, <1>4, <1>8, <1>9, <2>1
    <2>3. \A j \in (s + 1)..(position' - 1) : db'.dat[j].kind # InterestField
      BY <1>1, <1>8, <1>9, <1>10, <2>1
    <2>4. \A j \in 1..Len(key') : key'[j] = db'.dat[s + j] /\ key'[j].kind \in {"character", "year"}
      <3>1. ASSUME NEW j \in 1..Len(key')
            PROVE  key'[j] = db'.dat[s + j] /\ key'[j].kind \in {"character", "year"}
        <4>1. j \in 1..Len(key) \/ (j = Len(key) + 1 /\ s + j = position)
          <5>1. s \in Nat /\ Len(key) \in Nat /\ j \in 1..(Len(key) + 1)
            BY <1>4, <1>7
          <5> QED
            BY <1>5, <5>1
        <4>2. CASE j \in 1..Len(key)
          BY <1>1, <1>4, <1>7, <4>2
        <4>3. CASE j = Len(key) + 1 /\ s + j = position
          <5>1. key'[j] = db.dat[position] /\ db'.dat[s + j] = db.dat[position]
            BY <1>1, <1>7, <4>3
          <5> QED
            BY <1>1, <5>1
        <4> QED
          BY <4>1, <4>2, <4>3
      <3> QED
        BY <3>1
    <2> QED
      BY <1>1, <1>2, <1>6, <1>10, <2>1, <2>2, <2>3, <2>4 DEF Within
  <1>12. position' \in 1..(Len(db.dat) + 1)
    BY <1>1, <1>2
  <1> QED
    BY <1>1, <1>2, <1>7, <1>11, <1>12 DEF ScanInv

\* What lies before the first record is not one.
LEMMA SkipKeepsScan ==
    ASSUME ScanInv, Skip
    PROVE  ScanInv'
  <1>1. /\ db \in Databases /\ position \in 1..Len(db.dat) /\ ~IsMark(db.dat[position])
        /\ db' = db /\ position' = position + 1 /\ done = FALSE /\ done' = FALSE
        /\ inRecord = FALSE /\ inRecord' = FALSE
        /\ UNCHANGED <<key, tag, value, raw, vintage>>
    BY DEF ScanInv, Skip, Reading, Here, IsMark
  <1>2. Len(db.dat) \in Nat
    BY <1>1, FileIsRead
  <1>3. position' \in 1..(Len(db.dat) + 1) /\ position' - 1 = position
    BY <1>1, <1>2
  <1>4. \A j \in 1..position : j \in 1..(position - 1) \/ j = position
    BY <1>1, <1>2
  <1>5. \A j \in 1..(position' - 1) : ~IsMark(db'.dat[j])
    BY <1>1, <1>3, <1>4 DEF ScanInv
  <1> QED
    BY <1>1, <1>3, <1>5 DEF ScanInv

\* The scans know of the record they are in what the file has.
LEMMA ScanInvHolds ==
    /\ Init => ScanInv
    /\ ScanInv /\ [Next]_vars => ScanInv'
  <1>1. ASSUME Init
        PROVE  ScanInv
    <2>1. Len(db.dat) \in Nat /\ position = 1 /\ db \in Databases
      BY <1>1, FileIsRead DEF Init
    <2>2. position \in 1..(Len(db.dat) + 1) /\ 1..(position - 1) = {}
      BY <2>1
    <2>3. /\ key = <<>> /\ tag = NoTag /\ value = NoText /\ raw = NoText /\ vintage = NoYear
          /\ done = FALSE /\ inRecord = FALSE /\ key \in Seq(Cell)
      BY <1>1 DEF Init
    <2> QED
      BY <2>1, <2>2, <2>3 DEF ScanInv
  <1>2. ASSUME ScanInv, [Next]_vars
        PROVE  ScanInv'
    <2>1. CASE End \/ UNCHANGED vars
      <3>1. /\ UNCHANGED <<db, position, inRecord, key, tag, value, raw, vintage>>
            /\ (done' = done \/ (done' = TRUE /\ position > Len(db.dat)))
        BY <2>1 DEF End, vars
      <3>2. position > Len(db.dat) => position = Len(db.dat) + 1
        <4>1. db \in Databases /\ position \in 1..(Len(db.dat) + 1)
          BY <1>2 DEF ScanInv
        <4>2. Len(db.dat) \in Nat
          BY <4>1, FileIsRead
        <4> QED
          BY <4>1, <4>2
      <3>3. Starts' = Starts /\ \A s : Within(s)' <=> Within(s)
        BY <3>1 DEF Starts, Within
      <3>4. done' \in BOOLEAN /\ (done' => position' = Len(db'.dat) + 1)
        <4>1. done \in BOOLEAN /\ (done => position = Len(db.dat) + 1)
          BY <1>2 DEF ScanInv
        <4>2. CASE done' = done
          BY <3>1, <4>1, <4>2
        <4>3. CASE done' = TRUE /\ position > Len(db.dat)
          BY <3>1, <3>2, <4>3
        <4> QED
          BY <3>1, <4>2, <4>3
      <3>5. inRecord' => \E s \in Starts' : Within(s)'
        BY <1>2, <3>1, <3>3 DEF ScanInv
      <3> QED
        BY <1>2, <3>1, <3>4, <3>5 DEF ScanInv
    <2> QED
      BY <1>2, <2>1, MarkKeepsScan, TagKeepsScan, KeyPartKeepsScan, SkipKeepsScan DEF Next
  <1> QED
    BY <1>1, <1>2

\* No record lies within another: those before a record end at its mark or before it, those
\* behind it begin where it ends or later.
LEMMA RecordsApart ==
    ASSUME db \in Databases, NEW s \in Starts, NEW p \in (s + 1)..(Len(db.dat) + 1),
           \A j \in (s + 1)..(p - 1) : ~IsMark(db.dat[j])
    PROVE  /\ \A i \in Starts : i < s => NextMark(db, i + 1) <= s
           /\ \A i \in Starts : i > s => i >= p /\ NextMark(db, i + 1) > p
           /\ NextMark(db, s + 1) >= p
  <1>1. Len(db.dat) \in Nat /\ Starts \subseteq 1..Len(db.dat) /\ \A i \in Starts : IsMark(db.dat[i])
    BY FileIsRead DEF Starts
  <1>2. ASSUME NEW i \in Starts
        PROVE  /\ NextMark(db, i + 1) \in (i + 1)..(Len(db.dat) + 1)
               /\ NextMark(db, i + 1) \in Starts \cup {Len(db.dat) + 1}
               /\ \A j \in (i + 1)..(NextMark(db, i + 1) - 1) : ~IsMark(db.dat[j])
    <2>1. i + 1 \in 1..(Len(db.dat) + 1)
      BY <1>1
    <2> QED
      BY <2>1, NextMarkIs
  <1>3. ASSUME NEW i \in Starts, i < s
        PROVE  NextMark(db, i + 1) <= s
    <2> DEFINE next == NextMark(db, i + 1)
    <2>1. next \in Nat /\ i \in Nat /\ s \in Nat
      BY <1>1, <1>2
    <2>2. s \notin (i + 1)..(next - 1)
      BY <1>1, <1>2
    <2> HIDE DEF next
    <2>3. next <= s
      BY <1>3, <2>1, <2>2
    <2> QED
      BY <2>3 DEF next
  <1>4. ASSUME NEW i \in Starts, i > s
        PROVE  i >= p /\ NextMark(db, i + 1) > p
    <2>1. i \notin (s + 1)..(p - 1)
      BY <1>1
    <2>2. i \in Nat /\ s \in Nat /\ p \in Nat /\ NextMark(db, i + 1) \in Nat
          /\ NextMark(db, i + 1) >= i + 1
      BY <1>1, <1>2
    <2> QED
      BY <1>4, <2>1, <2>2
  <1>5. NextMark(db, s + 1) >= p
    <2> DEFINE next == NextMark(db, s + 1)
    <2>1. next \in (s + 1)..(Len(db.dat) + 1) /\ next \in Starts \cup {Len(db.dat) + 1}
      BY <1>2
    <2> HIDE DEF next
    <2>2. next \notin (s + 1)..(p - 1)
      <3>1. ASSUME next \in (s + 1)..(p - 1)
            PROVE  FALSE
        <4>1. next # Len(db.dat) + 1
          BY <1>1, <3>1
        <4> QED
          BY <1>1, <2>1, <3>1, <4>1
      <3> QED
        BY <3>1
    <2>3. next >= p
      BY <1>1, <2>1, <2>2
    <2> QED
      BY <2>3 DEF next
  <1> QED
    BY <1>3, <1>4, <1>5

\* What the position is to the record that the scans are in.
LEMMA WithinRecord ==
    ASSUME ScanInv, NEW s \in Starts, Within(s)
    PROVE  /\ db \in Databases /\ position \in (s + 1)..(Len(db.dat) + 1) /\ s \in Nat
           /\ \A j \in (s + 1)..(position - 1) : ~IsMark(db.dat[j])
           /\ Len(key) \in Nat /\ key \in Seq(Cell)
  <1>1. /\ db \in Databases /\ position \in 1..(Len(db.dat) + 1) /\ key \in Seq(Cell)
        /\ s < position
    BY DEF ScanInv, Within
  <1>2. Len(db.dat) \in Nat /\ s \in 1..Len(db.dat)
    BY <1>1, FileIsRead
  <1> QED
    BY <1>1, <1>2 DEF Within

\* The key is whole once a tag is read or the record ends.
LEMMA KeyIsWhole ==
    ASSUME ScanInv, NEW s \in Starts, Within(s),
           tag # NoTag \/ NextMark(db, s + 1) = position
    PROVE  WholeKey(s, key)
  <1>1. /\ db \in Databases /\ position \in (s + 1)..(Len(db.dat) + 1) /\ s \in Nat
        /\ \A j \in (s + 1)..(position - 1) : ~IsMark(db.dat[j])
        /\ Len(key) \in Nat /\ key \in Seq(Cell)
    BY WithinRecord
  <1>2. NextMark(db, s + 1) >= position /\ NextMark(db, s + 1) \in Nat /\ position \in Nat
    <2>1. NextMark(db, s + 1) >= position
      BY <1>1, RecordsApart
    <2>2. NextMark(db, s + 1) \in (s + 1)..(Len(db.dat) + 1)
      BY <1>1, SegmentIs
    <2>3. Len(db.dat) \in Nat
      BY <1>1, FileIsRead
    <2> QED
      BY <1>1, <2>1, <2>2, <2>3
  <1>3. /\ s + Len(key) < position
        /\ \A j \in 1..Len(key) : key[j] = db.dat[s + j] /\ key[j].kind \in {"character", "year"}
        /\ \A j \in (s + Len(key) + 1)..(position - 1) : db.dat[j].kind \in Tags
        /\ s + Len(key) + 1 = position => tag = NoTag
    BY DEF Within
  <1>4. s + Len(key) < NextMark(db, s + 1)
    BY <1>1, <1>2, <1>3
  <1>5. s + Len(key) + 1 = NextMark(db, s + 1) \/ db.dat[s + Len(key) + 1].kind \in Tags
    <2>1. CASE s + Len(key) + 1 = position
      BY <1>3, <2>1
    <2>2. CASE s + Len(key) + 1 # position
      <3>1. s + Len(key) + 1 \in (s + Len(key) + 1)..(position - 1)
        <4>1. s + Len(key) \in Nat /\ s + Len(key) < position
          BY <1>1, <1>3
        <4> QED
          BY <1>2, <2>2, <4>1
      <3> QED
        BY <1>3, <3>1
    <2> QED
      BY <2>1, <2>2
  <1> QED
    BY <1>1, <1>3, <1>4, <1>5 DEF WholeKey

\* A search for c reports the record at i.
Reported(c, i) == OwnKey(i) /\ ~BlankLast(i) /\ c \in RangeOf(CodesIn(i))

\* The scans end a record with the interests that the segment parser reads there.
LEMMA InterestIsParsed ==
    ASSUME ScanInv, NEW s \in Starts, Within(s), NextMark(db, s + 1) = position
    PROVE  /\ raw = NoText => BlankLast(s) \/ CodesIn(s) = <<>>
           /\ raw # NoText => ~BlankLast(s) /\ CodesIn(s) = CodesOf[raw]
  <1> DEFINE segment == Segment(s)
             all == {j \in 1..Len(segment) : segment[j].kind = InterestField}
             given == {j \in 1..Len(segment) : /\ segment[j].kind = InterestField
                                                /\ segment[j].text # NoText}
  <1>1. /\ db \in Databases /\ position \in (s + 1)..(Len(db.dat) + 1) /\ s \in Nat
    BY WithinRecord
  <1>2. /\ Len(segment) = position - s /\ IsMark(segment[1]) /\ Len(db.dat) \in Nat
        /\ \A j \in 1..Len(segment) : segment[j] = db.dat[s + j - 1]
    BY <1>1, SegmentIs, FileIsRead
  <1> HIDE DEF segment
  <1>3. position \in Nat /\ Len(segment) \in Nat
    BY <1>1, <1>2
  <1>4. InterestField \in Fields
    BY KindsDiffer DEF Tags
  <1>5. Edition(s).text[InterestField]
          = IF given = {} THEN NoText ELSE segment[Max(given)].text
    BY <1>4 DEF Edition, Parsed, SegmentText, segment
  <1>6. BlankLast(s) <=> all # {} /\ segment[Max(all)].text = NoText
    BY DEF BlankLast, segment
  <1>7. ASSUME NEW j \in all
        PROVE  /\ s + j - 1 \in (s + 1)..(position - 1)
               /\ db.dat[s + j - 1].kind = InterestField
               /\ db.dat[s + j - 1].text = segment[j].text
    <2>1. j # 1
      BY <1>2, KindsDiffer DEF IsMark
    <2>2. s + j - 1 \in (s + 1)..(position - 1)
      <3>1. j \in 1..Len(segment) /\ Len(segment) = position - s
        BY <1>2
      <3> QED
        BY <1>1, <1>3, <2>1, <3>1
    <2> QED
      BY <1>2, <2>2
  <1>8. CASE /\ raw = NoText
             /\ \A j \in (s + 1)..(position - 1) : db.dat[j].kind # InterestField
    <2>1. all = {}
      BY <1>7, <1>8
    <2>2. given = {}
      BY <2>1
    <2> QED
      BY <1>5, <1>8, <2>2 DEF CodesIn
  <1>9. CASE \E j \in (s + 1)..(position - 1) :
                /\ db.dat[j].kind = InterestField /\ db.dat[j].text = raw
                /\ \A m \in (j + 1)..(position - 1) : db.dat[m].kind # InterestField
    <2>1. PICK last \in (s + 1)..(position - 1) :
                /\ db.dat[last].kind = InterestField /\ db.dat[last].text = raw
                /\ \A m \in (last + 1)..(position - 1) : db.dat[m].kind # InterestField
      BY <1>9
    <2> DEFINE l == last - s + 1
    <2>2. l \in 1..Len(segment) /\ s + l - 1 = last
      BY <1>1, <1>2, <1>3
    <2> HIDE DEF l
    <2>3. segment[l].kind = InterestField /\ segment[l].text = raw /\ l \in all
      BY <1>2, <2>1, <2>2
    <2>4. ASSUME NEW j \in all
          PROVE  j <= l
      <3>1. s + j - 1 \notin (last + 1)..(position - 1) /\ s + j - 1 <= position - 1
        <4>1. s + j - 1 \in (s + 1)..(position - 1) /\ db.dat[s + j - 1].kind = InterestField
          BY <1>7
        <4>2. s + j - 1 \notin (last + 1)..(position - 1)
          BY <2>1, <4>1
        <4> HIDE DEF all
        <4> QED
          BY <1>1, <1>3, <4>1, <4>2
      <3>2. j \in Nat /\ l \in Nat /\ last \in Nat
        BY <1>1, <1>3, <2>2
      <3> HIDE DEF all
      <3> QED
        BY <1>1, <1>3, <2>2, <3>1, <3>2
    <2>5. all \in SUBSET Nat /\ given \in SUBSET Nat /\ given \subseteq all
      BY <1>3
    <2>6. Max(all) = l
      <3> HIDE DEF all
      <3> QED
        BY <2>3, <2>4, <2>5, MaxIs
    <2>7. BlankLast(s) <=> raw = NoText
      BY <1>6, <2>3, <2>6
    <2>8. raw # NoText => CodesIn(s) = CodesOf[raw]
      <3>1. SUFFICES ASSUME raw # NoText
                     PROVE  CodesIn(s) = CodesOf[raw]
        OBVIOUS
      <3>2. l \in given
        BY <2>2, <2>3, <3>1
      <3>3. Max(given) = l
        <4>1. \A j \in given : j <= l
          BY <2>4, <2>5
        <4> HIDE DEF all, given
        <4> QED
          BY <2>5, <3>2, <4>1, MaxIs
      <3>4. Edition(s).text[InterestField] = raw
        <4> HIDE DEF given
        <4> QED
          BY <1>5, <2>3, <3>2, <3>3
      <3> QED
        BY <3>1, <3>4 DEF CodesIn
    <2> QED
      BY <2>7, <2>8
  <1> QED
    BY <1>8, <1>9 DEF Within

\* The scans end a record with the match that the segment parser comes to.
LEMMA EndOfRecordParsed ==
    ASSUME ScanInv, inRecord, NEW s \in Starts, Within(s),
           NextMark(db, s + 1) = position
    PROVE  /\ \A c \in Codes : Reportable /\ c \in RangeOf(CodesOf[raw]) <=> Reported(c, s)
           /\ Reportable => RecordKey(key) = MatchOf(s)
  <1>1. WholeKey(s, key) /\ db \in Databases
    BY KeyIsWhole DEF ScanInv
  <1>2. /\ OwnKey(s) => RecordKey(key) = MatchOf(s) /\ RecordKey(key) # NoKey
        /\ ~OwnKey(s) => RecordKey(key) = NoKey
    BY <1>1, KeyIsParsed
  <1>3. Reportable <=> raw # NoText /\ OwnKey(s)
    BY <1>2 DEF Reportable
  <1>4. /\ raw = NoText => BlankLast(s) \/ CodesIn(s) = <<>>
        /\ raw # NoText => ~BlankLast(s) /\ CodesIn(s) = CodesOf[raw]
    BY InterestIsParsed
  <1>5. \A c : c \notin RangeOf(<<>>)
    BY DEF RangeOf
  <1> QED
    BY <1>2, <1>3, <1>4, <1>5 DEF Reported

\* What the search has reported of a code are the records with it that have ended.
SearchInv ==
    /\ ScanInv
    /\ matches = [c \in Codes |-> matches[c]]
    /\ \A c \in Codes : matches[c] = {MatchOf(i) : i \in {j \in Finished : Reported(c, j)}}

\* A record that ends is the only one that is finished with it.
LEMMA RecordFinished ==
    ASSUME SearchInv, MatchRecord, db' = db, ~done,
           IF inRecord THEN \E s \in Starts : /\ Within(s) /\ NextMark(db, s + 1) = position
                                               /\ Finished' = Finished \cup {s}
                       ELSE Finished' = Finished
    PROVE  /\ matches' = [c \in Codes |-> matches'[c]]
           /\ \A c \in Codes : matches'[c] = {MatchOf(i) : i \in {j \in Finished' : Reported(c, j)}}
  <1>1. CASE ~inRecord
    <2>1. matches' = matches /\ Finished' = Finished
      BY <1>1 DEF MatchRecord, Reportable
    <2> QED
      BY <2>1 DEF SearchInv
  <1>2. CASE inRecord
    <2>1. PICK s \in Starts : /\ Within(s) /\ NextMark(db, s + 1) = position
                              /\ Finished' = Finished \cup {s}
      BY <1>2
    <2>2. /\ \A c \in Codes : Reportable /\ c \in RangeOf(CodesOf[raw]) <=> Reported(c, s)
          /\ Reportable => RecordKey(key) = MatchOf(s)
      BY <1>2, <2>1, EndOfRecordParsed DEF SearchInv
    <2>3. \A c \in Codes : matches'[c] = IF Reported(c, s) THEN matches[c] \cup {MatchOf(s)}
                                         ELSE matches[c]
      BY <2>2 DEF MatchRecord, SearchInv
    <2>4. matches' = [c \in Codes |-> matches'[c]]
      BY DEF MatchRecord, SearchInv
    <2>5. ASSUME NEW c \in Codes
          PROVE  matches'[c] = {MatchOf(i) : i \in {j \in Finished' : Reported(c, j)}}
      <3>1. matches[c] = {MatchOf(i) : i \in {j \in Finished : Reported(c, j)}}
        BY DEF SearchInv
      <3>2. {j \in Finished' : Reported(c, j)}
              = {j \in Finished : Reported(c, j)} \cup (IF Reported(c, s) THEN {s} ELSE {})
        BY <2>1
      <3> QED
        BY <2>3, <3>1, <3>2
    <2> QED
      BY <2>4, <2>5
  <1> QED
    BY <1>1, <1>2

\* What the parser reads depends on the file alone.
LEMMA ParsedFromFile ==
    ASSUME db' = db
    PROVE  /\ Starts' = Starts
           /\ \A i : (MatchOf(i)' = MatchOf(i)) /\ (OwnKey(i)' <=> OwnKey(i))
                     /\ Edition(i)' = Edition(i)
           /\ \A c, i : Reported(c, i)' <=> Reported(c, i)
  <1>1. Starts' = Starts
    BY DEF Starts
  <1>2. ASSUME NEW i
        PROVE  Segment(i)' = Segment(i)
    BY DEF Segment
  <1>3. ASSUME NEW i
        PROVE  Edition(i)' = Edition(i)
    BY <1>2 DEF Edition
  <1>4. ASSUME NEW i
        PROVE  (MatchOf(i)' = MatchOf(i)) /\ (OwnKey(i)' <=> OwnKey(i))
    BY <1>2, <1>3 DEF MatchOf, OwnKey
  <1>5. ASSUME NEW i, NEW c
        PROVE  Reported(c, i)' <=> Reported(c, i)
    <2>1. CodesIn(i)' = CodesIn(i)
      BY <1>3 DEF CodesIn
    <2>2. BlankLast(i)' <=> BlankLast(i)
      BY <1>2 DEF BlankLast
    <2> QED
      BY <1>4, <2>1, <2>2 DEF Reported
  <1> QED
    BY <1>1, <1>3, <1>4, <1>5

\* What is finished when a mark or the end of the file is read, and when anything else is.
LEMMA NowFinished ==
    ASSUME ScanInv, db' = db, ~done
    PROVE  /\ TakeMark \/ End =>
                  IF inRecord
                  THEN \E s \in Starts : /\ Within(s) /\ NextMark(db, s + 1) = position
                                          /\ Finished' = Finished \cup {s}
                  ELSE Finished' = Finished
           /\ TakeTag \/ TakeKeyPart \/ Skip => Finished' = Finished
  <1>1. /\ db \in Databases /\ position \in 1..(Len(db.dat) + 1) /\ Len(db.dat) \in Nat
        /\ position \in Nat /\ Starts \subseteq 1..Len(db.dat) /\ Starts' = Starts
        /\ \A i \in Starts : IsMark(db.dat[i])
    <2>1. db \in Databases /\ position \in 1..(Len(db.dat) + 1)
      BY DEF ScanInv
    <2> QED
      BY <2>1, FileIsRead DEF Starts
  <1>2. ASSUME NEW i \in Starts
        PROVE  /\ NextMark(db, i + 1) \in (i + 1)..(Len(db.dat) + 1)
               /\ NextMark(db, i + 1) \in Starts \cup {Len(db.dat) + 1}
               /\ NextMark(db, i + 1) \in Nat
    <2>1. i + 1 \in 1..(Len(db.dat) + 1)
      BY <1>1
    <2>2. /\ NextMark(db, i + 1) \in (i + 1)..(Len(db.dat) + 1)
          /\ NextMark(db, i + 1) \in Starts \cup {Len(db.dat) + 1}
      BY <1>1, <2>1, NextMarkIs
    <2> QED
      BY <1>1, <2>2
  <1>3. Finished = {i \in Starts : NextMark(db, i + 1) < position}
    BY DEF Finished
  <1>4. Finished' = {i \in Starts : IF done' THEN TRUE ELSE NextMark(db, i + 1) < position'}
    BY <1>1 DEF Finished
  <1>5. ASSUME TakeMark \/ End, inRecord
        PROVE  \E s \in Starts : /\ Within(s) /\ NextMark(db, s + 1) = position
                                  /\ Finished' = Finished \cup {s}
    <2>1. PICK s \in Starts : Within(s)
      BY <1>5 DEF ScanInv
    <2>2. /\ position \in (s + 1)..(Len(db.dat) + 1) /\ s \in Nat
          /\ \A j \in (s + 1)..(position - 1) : ~IsMark(db.dat[j])
      BY <2>1, WithinRecord
    <2>3. /\ \A i \in Starts : i < s => NextMark(db, i + 1) <= s
          /\ \A i \in Starts : i > s => i >= position /\ NextMark(db, i + 1) > position
      BY <1>1, <2>2, RecordsApart
    <2>4. position <= Len(db.dat) => IsMark(db.dat[position])
      <3>1. CASE TakeMark
        BY <3>1 DEF TakeMark, Here, IsMark
      <3>2. CASE End
        BY <1>1, <3>2 DEF End
      <3> QED
        BY <1>5, <3>1, <3>2
    <2>5. NextMark(db, s + 1) = position
      <3>1. s + 1 \in 1..(Len(db.dat) + 1)
        BY <1>1, <2>2
      <3> QED
        BY <1>1, <2>2, <2>4, <3>1, RecordEndsAt
    <2>6. ASSUME NEW i \in Starts
          PROVE  (IF done' THEN TRUE ELSE NextMark(db, i + 1) < position')
                     <=> NextMark(db, i + 1) < position \/ i = s
      <3>1. i \in Nat /\ NextMark(db, i + 1) \in Nat
        BY <1>1, <1>2
      <3>2. CASE i < s
        <4>1. NextMark(db, i + 1) < position
          BY <2>2, <2>3, <3>1, <3>2
        <4>2. position' = position \/ position' = position + 1
          BY <1>5 DEF TakeMark, End
        <4>3. NextMark(db, i + 1) < position'
          BY <1>1, <3>1, <4>1, <4>2
        <4> QED
          BY <4>1, <4>3
      <3>3. CASE i > s
        <4>1. NextMark(db, i + 1) > position /\ i >= position
          BY <2>3, <3>3
        <4>2. CASE TakeMark
          <5>1. done' = FALSE /\ position' = position + 1
            BY <4>2 DEF TakeMark
          <5>2. ~(NextMark(db, i + 1) < position') /\ ~(NextMark(db, i + 1) < position) /\ i # s
            BY <1>1, <2>2, <3>1, <3>3, <4>1, <5>1
          <5> QED
            BY <5>1, <5>2
        <4>3. CASE End
          BY <1>1, <4>1, <4>3 DEF End
        <4> QED
          BY <1>5, <4>2, <4>3
      <3>4. CASE i = s
        <4>1. done' \/ position' = position + 1
          BY <1>5 DEF TakeMark, End
        <4> QED
          BY <1>1, <2>5, <3>4, <4>1
      <3> QED
        BY <2>2, <3>1, <3>2, <3>3, <3>4
    <2>7. Finished' = Finished \cup {s}
      BY <1>3, <1>4, <2>1, <2>6
    <2> QED
      BY <2>1, <2>5, <2>7
  <1>6. ASSUME TakeMark \/ End, ~inRecord
        PROVE  Finished' = Finished
    <2>1. \A j \in 1..(position - 1) : ~IsMark(db.dat[j])
      BY <1>6 DEF ScanInv
    <2>2. ASSUME NEW i \in Starts
          PROVE  i >= position /\ NextMark(db, i + 1) > position
      <3>1. i \notin 1..(position - 1)
        BY <1>1, <2>1
      <3>2. i \in Nat /\ i >= 1 /\ NextMark(db, i + 1) \in Nat /\ NextMark(db, i + 1) >= i + 1
        BY <1>1, <1>2
      <3> QED
        BY <1>1, <3>1, <3>2
    <2>3. Finished = {}
      <3>1. \A i \in Starts : ~(NextMark(db, i + 1) < position)
        BY <1>1, <1>2, <2>2
      <3> QED
        BY <1>3, <3>1
    <2>4. CASE TakeMark
      <3>1. done' = FALSE /\ position' = position + 1
        BY <2>4 DEF TakeMark
      <3>2. \A i \in Starts : ~(NextMark(db, i + 1) < position')
        BY <1>1, <1>2, <2>2, <3>1
      <3> QED
        BY <1>4, <2>3, <3>1, <3>2
    <2>5. CASE End
      <3>1. Starts = {}
        BY <1>1, <2>2, <2>5 DEF End
      <3> QED
        BY <1>4, <2>3, <3>1
    <2> QED
      BY <1>6, <2>4, <2>5
  <1>7. ASSUME TakeTag \/ TakeKeyPart \/ Skip
        PROVE  Finished' = Finished
    <2>1. position' = position + 1 /\ done' = FALSE /\ position <= Len(db.dat)
      BY <1>7 DEF TakeTag, TakeKeyPart, Skip, Reading
    <2>2. ~IsMark(db.dat[position])
      BY <1>7, KindsDiffer DEF TakeTag, TakeKeyPart, Skip, Here, IsMark
    <2>3. ASSUME NEW i \in Starts
          PROVE  NextMark(db, i + 1) < position' <=> NextMark(db, i + 1) < position
      <3>1. NextMark(db, i + 1) # position
        BY <1>1, <1>2, <2>1, <2>2
      <3> QED
        BY <1>1, <1>2, <2>1, <3>1
    <2> QED
      BY <1>3, <1>4, <2>1, <2>3
  <1> QED
    BY <1>5, <1>6, <1>7

\* Byte by byte, with a state that is carried from record to record, a search for a code comes
\* to the matches that the segment parser finds and to the keys that it alone takes for a
\* callsign (InterestSearchScan and interest_record_key of db.rs, looks_like_key), in every
\* file and for every two limits of a key.
THEOREM SearchAsParsedHolds ==
    Spec => []SearchAsParsed
  <1>1. Init => SearchInv
    <2>1. SUFFICES ASSUME Init
                   PROVE  SearchInv
      OBVIOUS
    <2>2. ScanInv
      BY <2>1, ScanInvHolds
    <2>3. Finished = {}
      <3>1. ASSUME NEW i \in Starts
            PROVE  ~(NextMark(db, i + 1) < position)
        <4>1. db \in Databases /\ position = 1 /\ Len(db.dat) \in Nat
          BY <2>1, FileIsRead DEF Init
        <4>2. NextMark(db, i + 1) \in (i + 1)..(Len(db.dat) + 1) /\ i \in 1..Len(db.dat)
          BY <4>1, SegmentIs, FileIsRead
        <4> QED
          BY <4>1, <4>2
      <3> QED
        BY <2>1, <3>1 DEF Finished, Init
    <2> QED
      BY <2>1, <2>2, <2>3 DEF SearchInv, Init
  <1>2. SearchInv /\ [Next]_vars => SearchInv'
    <2>1. SUFFICES ASSUME SearchInv, [Next]_vars
                   PROVE  SearchInv'
      OBVIOUS
    <2>2. ScanInv' /\ ScanInv
      BY <2>1, ScanInvHolds DEF SearchInv
    <2>3. db' = db
      BY <2>1 DEF Next, TakeMark, TakeTag, TakeKeyPart, Skip, End, vars
    <2>4. /\ matches' = [c \in Codes |-> matches'[c]]
          /\ \A c \in Codes : matches'[c] = {MatchOf(i) : i \in {j \in Finished' : Reported(c, j)}}
      <3>1. CASE TakeMark \/ End
        <4>1. ~done /\ MatchRecord
          BY <3>1 DEF TakeMark, End, Reading
        <4>2. IF inRecord THEN \E s \in Starts : /\ Within(s) /\ NextMark(db, s + 1) = position
                                                  /\ Finished' = Finished \cup {s}
                          ELSE Finished' = Finished
          BY <2>2, <2>3, <3>1, <4>1, NowFinished
        <4> QED
          BY <2>1, <2>3, <4>1, <4>2, RecordFinished
      <3>2. CASE TakeTag \/ TakeKeyPart \/ Skip
        <4>1. ~done /\ matches' = matches
          BY <3>2 DEF TakeTag, TakeKeyPart, Skip, Reading
        <4>2. Finished' = Finished
          BY <2>2, <2>3, <3>2, <4>1, NowFinished
        <4> QED
          BY <2>1, <4>1, <4>2 DEF SearchInv
      <3>3. CASE UNCHANGED vars
        <4>1. matches' = matches /\ Finished' = Finished
          BY <3>3 DEF vars, Finished, Starts
        <4> QED
          BY <2>1, <4>1 DEF SearchInv
      <3> QED
        BY <2>1, <3>1, <3>2, <3>3 DEF Next
    <2>5. /\ \A i : MatchOf(i)' = MatchOf(i)
          /\ \A c, i : Reported(c, i)' <=> Reported(c, i)
      BY <2>3, ParsedFromFile
    <2> QED
      BY <2>2, <2>4, <2>5 DEF SearchInv
  <1>3. SearchInv => SearchAsParsed
    <2>1. SUFFICES ASSUME SearchInv, NEW c \in Codes
                   PROVE  LET read == {i \in Listing(c) : Readable(i)}
                          IN  /\ {m \in matches[c] : LooksLikeKey(m.call)}
                                    = {MatchOf(i) : i \in read}
                              /\ matches[c] = {MatchOf(i) : i \in Listing(c)}
      BY DEF SearchAsParsed
    <2>2. matches[c] = {MatchOf(i) : i \in Listing(c)}
      BY <2>1 DEF SearchInv, Listing, Reported
    <2>3. \A i : Readable(i) <=> LooksLikeKey(MatchOf(i).call)
      BY DEF Readable, SegmentMatches, MatchOf, Edition, Parsed
    <2> QED
      BY <2>2, <2>3
  <1> QED
    BY <1>1, <1>2, <1>3, PTL DEF Spec

-----------------------------------------------------------------------------
(* The tag inventory *)

\* How many of the places come before n.
Tally(places, n) == Cardinality({j \in places : j < n})

\* One more place counts one more when it is one of them.
LEMMA TallyNext ==
    ASSUME NEW places \in SUBSET Nat, NEW n \in Nat
    PROVE  /\ Tally(places, n) \in Nat
           /\ Tally(places, n + 1) = Tally(places, n) + (IF n \in places THEN 1 ELSE 0)
  <1> DEFINE before == {j \in places : j < n}
             after == {j \in places : j < n + 1}
  <1>1. IsFiniteSet(before)
    <2>1. IsFiniteSet(0..n)
      BY FS_Interval
    <2>2. \A j \in before : j \in 0..n
      OBVIOUS
    <2>3. before \in SUBSET (0..n)
      <3> HIDE DEF before
      <3> QED
        BY <2>2
    <2> HIDE DEF before
    <2> QED
      BY <2>1, <2>3, FS_Subset
  <1>2. after = IF n \in places THEN before \cup {n} ELSE before
    <2>1. \A j \in places : j < n + 1 <=> j < n \/ j = n
      OBVIOUS
    <2> QED
      BY <2>1
  <1>3. n \notin before
    OBVIOUS
  <1> HIDE DEF before, after
  <1>4. /\ Cardinality(before) \in Nat
        /\ Cardinality(before \cup {n}) = Cardinality(before) + 1
    BY <1>1, <1>3, FS_AddElement, FS_CardinalityType
  <1>5. Cardinality(after) = Cardinality(before) + (IF n \in places THEN 1 ELSE 0)
    BY <1>2, <1>4
  <1> QED
    BY <1>4, <1>5 DEF Tally, before, after

\* The places of the values of a tag in the records, and those of the archived editions.
ValuesOf(f) == {j \in NonBlank(db.dat, f) : \E i \in Starts : i < j}
ArchivedOf(f) ==
    {j \in NonBlank(db.dat, f) :
        \E i \in Starts : /\ j > i /\ j < NextMark(db, i + 1)
                           /\ OwnKey(i) /\ Edition(i).vintage # NoYear}

\* The inventory has counted the values before n.
Counts(inventory, n) ==
    \A f \in Tags :
        /\ inventory[f].current \in Nat /\ inventory[f].archive \in Nat
        /\ inventory[f].current + inventory[f].archive = Tally(ValuesOf(f), n)
        /\ inventory[f].archive = Tally(ArchivedOf(f), n)

\* Where the value lies that the scan is still to count.
Uncounted == IF tag = NoTag \/ done THEN position ELSE position - 1

\* The inventory counts what lies before the value that is still to be counted.
InventoryInv ==
    /\ ScanInv
    /\ tags = [f \in Tags |-> tags[f]]
    /\ \A n \in Nat : n = Uncounted => Counts(tags, n)

\* Values lie at places of the file.
LEMMA PlacesOfValues ==
    ASSUME db \in Databases, NEW f
    PROVE  /\ ValuesOf(f) \in SUBSET Nat /\ ArchivedOf(f) \in SUBSET Nat
           /\ \A j \in ValuesOf(f) \cup ArchivedOf(f) :
                 j \in 1..Len(db.dat) /\ db.dat[j].kind = f /\ db.dat[j].text # NoText
                 /\ \E i \in Starts : i < j
  <1>1. Len(db.dat) \in Nat /\ Starts \subseteq 1..Len(db.dat)
    BY FileIsRead
  <1>2. \A j \in NonBlank(db.dat, f) : /\ j \in 1..Len(db.dat) /\ j \in Nat
                                       /\ db.dat[j].kind = f /\ db.dat[j].text # NoText
    BY <1>1 DEF NonBlank
  <1>3. ValuesOf(f) \subseteq NonBlank(db.dat, f) /\ ArchivedOf(f) \subseteq NonBlank(db.dat, f)
    BY DEF ValuesOf, ArchivedOf
  <1>4. \A j \in ValuesOf(f) : \E i \in Starts : i < j
    BY DEF ValuesOf
  <1>5. \A j \in ArchivedOf(f) : \E i \in Starts : i < j
    <2>1. ASSUME NEW j \in ArchivedOf(f)
          PROVE  \E i \in Starts : i < j
      <3>1. PICK i \in Starts : j > i
        BY DEF ArchivedOf
      <3>2. i \in Nat /\ j \in Nat
        BY <1>1, <1>2, <1>3
      <3> QED
        BY <3>1, <3>2
    <2> QED
      BY <2>1
  <1> QED
    BY <1>2, <1>3, <1>4, <1>5

\* What is counted goes on over a place where no value lies.
LEMMA NothingToCount ==
    ASSUME db \in Databases, NEW n \in Nat, NEW inventory, Counts(inventory, n),
           \A f \in Tags : n \notin ValuesOf(f) /\ n \notin ArchivedOf(f)
    PROVE  Counts(inventory, n + 1)
  <1>1. ASSUME NEW f \in Tags
        PROVE  /\ Tally(ValuesOf(f), n + 1) = Tally(ValuesOf(f), n)
               /\ Tally(ArchivedOf(f), n + 1) = Tally(ArchivedOf(f), n)
    <2>1. ValuesOf(f) \in SUBSET Nat /\ ArchivedOf(f) \in SUBSET Nat
      BY PlacesOfValues
    <2>2. /\ Tally(ValuesOf(f), n) \in Nat /\ Tally(ArchivedOf(f), n) \in Nat
          /\ Tally(ValuesOf(f), n + 1) = Tally(ValuesOf(f), n) + 0
          /\ Tally(ArchivedOf(f), n + 1) = Tally(ArchivedOf(f), n) + 0
      BY <2>1, TallyNext
    <2> QED
      BY <2>2
  <1> QED
    BY <1>1 DEF Counts

\* The value that is still to count is of an archived edition when the key says so.
LEMMA VintageOfValue ==
    ASSUME ScanInv, tag # NoTag
    PROVE  /\ position - 1 \in 1..Len(db.dat)
           /\ db.dat[position - 1].kind = tag /\ db.dat[position - 1].text = value
           /\ position - 1 \in ArchivedOf(tag) <=> value # NoText /\ TagVintage # NoYear
           /\ position - 1 \in ValuesOf(tag) <=> value # NoText
  <1>1. inRecord
    BY DEF ScanInv
  <1>2. PICK s \in Starts : Within(s)
    BY <1>1 DEF ScanInv
  <1>3. /\ db \in Databases /\ position \in (s + 1)..(Len(db.dat) + 1) /\ s \in Nat
        /\ \A j \in (s + 1)..(position - 1) : ~IsMark(db.dat[j])
        /\ Len(key) \in Nat /\ key \in Seq(Cell)
    BY <1>2, WithinRecord
  <1>4. /\ Len(db.dat) \in Nat /\ position \in Nat /\ Starts \subseteq 1..Len(db.dat)
    BY <1>3, FileIsRead
  <1>5. /\ s + Len(key) + 1 # position /\ s + Len(key) < position
        /\ tag = db.dat[position - 1].kind /\ value = db.dat[position - 1].text
        /\ vintage \in {NoYear, RecordKey(key).vintage}
    BY <1>2 DEF Within
  <1>6. TagVintage = RecordKey(key).vintage
    BY <1>1, <1>5 DEF TagVintage
  <1>7. /\ OwnKey(s) => RecordKey(key) = MatchOf(s) /\ RecordKey(key) # NoKey
        /\ ~OwnKey(s) => RecordKey(key) = NoKey
    <2>1. WholeKey(s, key)
      BY <1>2, KeyIsWhole
    <2> QED
      BY <1>3, <2>1, KeyIsParsed
  <1>8. TagVintage # NoYear <=> OwnKey(s) /\ Edition(s).vintage # NoYear
    <2>1. NoKey.vintage = NoYear /\ MatchOf(s).vintage = Edition(s).vintage
      BY DEF NoKey, MatchOf
    <2> QED
      BY <1>6, <1>7, <2>1
  <1>9. position - 1 \in 1..Len(db.dat) /\ s < position - 1
    <2>1. s + Len(key) \in Nat /\ s + Len(key) + 1 < position /\ s >= 1
      BY <1>3, <1>4, <1>5
    <2> QED
      BY <1>3, <1>4, <2>1
  <1>10. position - 1 \in NonBlank(db.dat, tag) <=> value # NoText
    BY <1>5, <1>9 DEF NonBlank
  <1>11. /\ \A i \in Starts : i < s => NextMark(db, i + 1) <= s
         /\ \A i \in Starts : i > s => i >= position
         /\ NextMark(db, s + 1) >= position
    BY <1>3, RecordsApart
  <1>12. NextMark(db, s + 1) \in Nat /\ position - 1 < NextMark(db, s + 1)
    <2>1. NextMark(db, s + 1) \in (s + 1)..(Len(db.dat) + 1)
      BY <1>3, SegmentIs
    <2> QED
      BY <1>3, <1>4, <1>11, <2>1
  <1>13. ASSUME NEW i \in Starts, position - 1 > i, position - 1 < NextMark(db, i + 1)
         PROVE  i = s
    <2>1. i \in Nat /\ NextMark(db, i + 1) \in Nat
      <3>1. NextMark(db, i + 1) \in (i + 1)..(Len(db.dat) + 1)
        BY <1>3, SegmentIs
      <3> QED
        BY <1>4, <3>1
    <2>2. ~(i < s)
      BY <1>4, <1>9, <1>11, <1>13, <2>1, <1>3
    <2>3. ~(i > s)
      BY <1>4, <1>11, <1>13, <2>1
    <2> QED
      BY <1>3, <2>1, <2>2, <2>3
  <1>14. (\E i \in Starts : /\ position - 1 > i /\ position - 1 < NextMark(db, i + 1)
                             /\ OwnKey(i) /\ Edition(i).vintage # NoYear)
            <=> TagVintage # NoYear
    <2>1. position - 1 > s
      BY <1>3, <1>4, <1>9
    <2> QED
      BY <1>8, <1>12, <1>13, <2>1
  <1>15. position - 1 \in ArchivedOf(tag) <=> value # NoText /\ TagVintage # NoYear
    BY <1>10, <1>14 DEF ArchivedOf
  <1>16. position - 1 \in ValuesOf(tag) <=> value # NoText
    BY <1>9, <1>10 DEF ValuesOf
  <1> QED
    BY <1>5, <1>9, <1>15, <1>16

\* The end of a value counts it.
LEMMA ValueCounted ==
    ASSUME InventoryInv, ~done, CountValue, NEW n \in Nat, n = position, db' = db
    PROVE  /\ tags' = [f \in Tags |-> tags'[f]]
           /\ Counts(tags', n)
  <1>1. ScanInv /\ db \in Databases /\ tags = [f \in Tags |-> tags[f]]
    BY DEF InventoryInv, ScanInv
  <1>2. CASE tag = NoTag
    <2>1. tags' = tags
      BY <1>2 DEF CountValue
    <2>2. Counts(tags, n)
      BY <1>2 DEF InventoryInv, Uncounted
    <2> QED
      BY <1>1, <2>1, <2>2
  <1>3. CASE tag # NoTag
    <2> DEFINE at == n - 1
    <2>1. /\ at \in 1..Len(db.dat) /\ db.dat[at].kind = tag /\ db.dat[at].text = value
          /\ at \in ArchivedOf(tag) <=> value # NoText /\ TagVintage # NoYear
          /\ at \in ValuesOf(tag) <=> value # NoText
      BY <1>1, <1>3, VintageOfValue
    <2>2. Len(db.dat) \in Nat
      BY <1>1, FileIsRead
    <2>3. at \in Nat /\ at + 1 = n
      BY <2>1, <2>2
    <2>4. Counts(tags, at)
      BY <1>3, <2>3 DEF InventoryInv, Uncounted
    <2> HIDE DEF at
    <2>5. ASSUME NEW f \in Tags
          PROVE  /\ tags[f].current \in Nat /\ tags[f].archive \in Nat
                 /\ Tally(ValuesOf(f), n) = tags[f].current + tags[f].archive
                                               + (IF at \in ValuesOf(f) THEN 1 ELSE 0)
                 /\ Tally(ArchivedOf(f), n) = tags[f].archive
                                                 + (IF at \in ArchivedOf(f) THEN 1 ELSE 0)
      <3>1. ValuesOf(f) \in SUBSET Nat /\ ArchivedOf(f) \in SUBSET Nat
        BY <1>1, PlacesOfValues
      <3>2. /\ Tally(ValuesOf(f), at + 1)
                 = Tally(ValuesOf(f), at) + (IF at \in ValuesOf(f) THEN 1 ELSE 0)
            /\ Tally(ArchivedOf(f), at + 1)
                 = Tally(ArchivedOf(f), at) + (IF at \in ArchivedOf(f) THEN 1 ELSE 0)
        BY <2>3, <3>1, TallyNext
      <3> QED
        BY <2>3, <2>4, <3>2 DEF Counts
    <2>6. \A f \in Tags : at \in ValuesOf(f) \cup ArchivedOf(f) => f = tag /\ value # NoText
      <3>1. ASSUME NEW f \in Tags, at \in ValuesOf(f) \cup ArchivedOf(f)
            PROVE  f = tag /\ value # NoText
        <4>1. db.dat[at].kind = f /\ db.dat[at].text # NoText
          BY <1>1, <3>1, PlacesOfValues
        <4> QED
          BY <2>1, <4>1
      <3> QED
        BY <3>1
    <2>7. CASE value = NoText
      <3>1. tags' = tags
        BY <2>7 DEF CountValue
      <3>2. \A f \in Tags : at \notin ValuesOf(f) /\ at \notin ArchivedOf(f)
        BY <2>6, <2>7
      <3> QED
        BY <1>1, <2>5, <3>1, <3>2 DEF Counts
    <2>8. CASE value # NoText
      <3>1. tags' = [tags EXCEPT ![tag] =
                       [current |-> @.current + (IF TagVintage = NoYear THEN 1 ELSE 0),
                        archive |-> @.archive + (IF TagVintage = NoYear THEN 0 ELSE 1),
                        samples |-> PushSample(@.samples, value)]]
        BY <1>3, <2>8 DEF CountValue
      <3>2. tags' = [f \in Tags |-> tags'[f]]
        BY <1>1, <3>1
      <3>3. ASSUME NEW f \in Tags
            PROVE  /\ tags'[f].current \in Nat /\ tags'[f].archive \in Nat
                   /\ tags'[f].current + tags'[f].archive = Tally(ValuesOf(f), n)
                   /\ tags'[f].archive = Tally(ArchivedOf(f), n)
        <4>1. CASE f # tag
          <5>1. tags'[f] = tags[f]
            BY <1>1, <3>1, <4>1
          <5>2. at \notin ValuesOf(f) /\ at \notin ArchivedOf(f)
            BY <2>6, <4>1
          <5> QED
            BY <2>5, <5>1, <5>2
        <4>2. CASE f = tag
          <5>1. /\ tags'[f].current = tags[f].current + (IF TagVintage = NoYear THEN 1 ELSE 0)
                /\ tags'[f].archive = tags[f].archive + (IF TagVintage = NoYear THEN 0 ELSE 1)
            BY <1>1, <3>1, <4>2
          <5>2. /\ at \in ValuesOf(f) /\ (at \in ArchivedOf(f) <=> TagVintage # NoYear)
            BY <2>1, <2>8, <4>2
          <5> QED
            BY <2>5, <5>1, <5>2
        <4> QED
          BY <4>1, <4>2
      <3> QED
        BY <3>2, <3>3 DEF Counts
    <2> QED
      BY <2>7, <2>8
  <1> QED
    BY <1>2, <1>3

\* Where values lie depends on the file alone.
LEMMA ValuesFromFile ==
    ASSUME db' = db
    PROVE  \A f : ValuesOf(f)' = ValuesOf(f) /\ ArchivedOf(f)' = ArchivedOf(f)
  <1>1. /\ Starts' = Starts
        /\ \A i : (OwnKey(i)' <=> OwnKey(i)) /\ Edition(i)' = Edition(i)
    BY ParsedFromFile
  <1>2. ASSUME NEW f
        PROVE  ValuesOf(f)' = ValuesOf(f)
    BY <1>1 DEF ValuesOf
  <1>3. ASSUME NEW f
        PROVE  ArchivedOf(f)' = ArchivedOf(f)
    BY <1>1 DEF ArchivedOf
  <1> QED
    BY <1>2, <1>3

\* Every step keeps count.
LEMMA InventoryKept ==
    ASSUME InventoryInv, [Next]_vars
    PROVE  InventoryInv'
  <1>1. ScanInv /\ ScanInv'
    BY ScanInvHolds DEF InventoryInv
  <1>2. db' = db /\ db \in Databases /\ position \in Nat
    <2>1. db \in Databases /\ position \in 1..(Len(db.dat) + 1)
      BY <1>1 DEF ScanInv
    <2>2. Len(db.dat) \in Nat
      BY <2>1, FileIsRead
    <2>3. db' = db
      BY DEF Next, TakeMark, TakeTag, TakeKeyPart, Skip, End, vars
    <2> QED
      BY <2>1, <2>2, <2>3
  <1>3. PICK n \in Nat : n = position
    BY <1>2
  <1>4. \A f : ValuesOf(f)' = ValuesOf(f) /\ ArchivedOf(f)' = ArchivedOf(f)
    BY <1>2, ValuesFromFile
  <1>5. ASSUME NEW m \in Nat, Counts(tags', m)
        PROVE  Counts(tags, m)'
    BY <1>4, <1>5 DEF Counts, Tally
  <1>6. ASSUME NEW m \in Nat, tags' = [f \in Tags |-> tags'[f]], Counts(tags', m), Uncounted' = m
        PROVE  InventoryInv'
    <2>1. Counts(tags, m)'
      BY <1>5, <1>6
    <2> QED
      BY <1>1, <1>6, <2>1 DEF InventoryInv
  <1>7. /\ \A f \in Tags : f # "mark" /\ f # "character" /\ f # "year"
        /\ \A f \in Tags, j \in Nat : j \in ValuesOf(f) \/ j \in ArchivedOf(f) =>
              db.dat[j].kind = f /\ \E i \in Starts : i < j
    BY <1>2, KindsDiffer, PlacesOfValues
  <1>8. tags = [f \in Tags |-> tags[f]]
    BY DEF InventoryInv
  <1>9. ASSUME tag = NoTag
        PROVE  Counts(tags, n)
    BY <1>3, <1>9 DEF InventoryInv, Uncounted
  <1>10. CASE TakeMark
    <2>1. ~done /\ CountValue /\ db.dat[n].kind = "mark"
      BY <1>3, <1>10 DEF TakeMark, Reading, Here
    <2>2. Uncounted' = n + 1
      BY <1>3, <1>10 DEF TakeMark, Uncounted
    <2>3. tags' = [f \in Tags |-> tags'[f]] /\ Counts(tags', n)
      BY <1>2, <1>3, <2>1, ValueCounted
    <2>4. Counts(tags', n + 1)
      BY <1>2, <1>7, <2>1, <2>3, NothingToCount
    <2> QED
      BY <1>6, <2>2, <2>3, <2>4
  <1>11. CASE TakeTag
    <2>1. ~done /\ CountValue /\ tag' \in Tags /\ done' = done /\ position' = position + 1
      BY <1>11 DEF TakeTag, Reading
    <2>2. Uncounted' = n
      BY <1>3, <2>1, KindsDiffer DEF Uncounted
    <2>3. tags' = [f \in Tags |-> tags'[f]] /\ Counts(tags', n)
      BY <1>2, <1>3, <2>1, ValueCounted
    <2> QED
      BY <1>6, <2>2, <2>3
  <1>12. CASE End
    <2>1. ~done /\ CountValue
      BY <1>12 DEF End
    <2>2. Uncounted' = n
      BY <1>3, <1>12 DEF End, Uncounted
    <2>3. tags' = [f \in Tags |-> tags'[f]] /\ Counts(tags', n)
      BY <1>2, <1>3, <2>1, ValueCounted
    <2> QED
      BY <1>6, <2>2, <2>3
  <1>13. CASE TakeKeyPart
    <2>1. tag = NoTag /\ tags' = tags /\ db.dat[n].kind \in {"character", "year"}
      BY <1>3, <1>13 DEF TakeKeyPart, KeyComplete, Here
    <2>2. Uncounted' = n + 1
      BY <1>3, <1>13, <2>1 DEF TakeKeyPart, Uncounted
    <2>3. Counts(tags, n + 1)
      BY <1>2, <1>7, <1>9, <2>1, NothingToCount
    <2> QED
      BY <1>6, <1>8, <2>1, <2>2, <2>3
  <1>14. CASE Skip
    <2>1. tag = NoTag /\ tags' = tags /\ \A j \in 1..(position - 1) : ~IsMark(db.dat[j])
      BY <1>1, <1>14 DEF Skip, ScanInv
    <2>2. Uncounted' = n + 1
      BY <1>3, <1>14, <2>1 DEF Skip, Uncounted
    <2>3. \A i \in Starts : ~(i < n)
      <3>1. \A i \in Starts : i \in Nat /\ i >= 1 /\ IsMark(db.dat[i])
        BY <1>2, FileIsRead DEF Starts
      <3> QED
        BY <1>2, <1>3, <2>1, <3>1
    <2>4. Counts(tags, n + 1)
      BY <1>2, <1>7, <1>9, <2>1, <2>3, NothingToCount
    <2> QED
      BY <1>6, <1>8, <2>1, <2>2, <2>4
  <1>15. CASE UNCHANGED vars
    <2>1. tags' = tags /\ Uncounted' = Uncounted
      BY <1>15 DEF vars, Uncounted
    <2>2. ASSUME NEW m \in Nat, m = Uncounted
          PROVE  Counts(tags, m)'
      <3>1. Counts(tags', m)
        BY <2>1, <2>2 DEF InventoryInv
      <3> QED
        BY <1>5, <3>1
    <2> QED
      BY <1>1, <1>8, <2>1, <2>2 DEF InventoryInv
  <1> QED
    BY <1>10, <1>11, <1>12, <1>13, <1>14, <1>15 DEF Next

\* When the scan is done, every value in a record that is not blank is counted under its tag,
\* with the archive those whose own key has a year (TagScan of db.rs), in every file.
THEOREM InventoryCompleteHolds ==
    Spec => []InventoryComplete
  <1>1. Init => InventoryInv
    <2>1. SUFFICES ASSUME Init
                   PROVE  InventoryInv
      OBVIOUS
    <2>2. ScanInv /\ tags = [f \in Tags |-> tags[f]] /\ Uncounted = 1
      BY <2>1, ScanInvHolds DEF Init, Uncounted
    <2>3. ASSUME NEW f \in Tags
          PROVE  /\ tags[f].current = 0 /\ tags[f].archive = 0
                 /\ Tally(ValuesOf(f), 1) = 0 /\ Tally(ArchivedOf(f), 1) = 0
      <3>1. tags[f].current = 0 /\ tags[f].archive = 0
        BY <2>1 DEF Init
      <3>2. /\ {j \in ValuesOf(f) : j < 1} = {} /\ {j \in ArchivedOf(f) : j < 1} = {}
        <4>1. \A j \in ValuesOf(f) \cup ArchivedOf(f) : j \in 1..Len(db.dat)
          BY <2>2, PlacesOfValues DEF ScanInv
        <4> QED
          BY <4>1
      <3> QED
        BY <3>1, <3>2, FS_EmptySet DEF Tally
    <2> QED
      BY <2>2, <2>3 DEF InventoryInv, Counts
  <1>2. InventoryInv /\ [Next]_vars => InventoryInv'
    BY InventoryKept
  <1>3. InventoryInv => InventoryComplete
    <2>1. SUFFICES ASSUME InventoryInv, done
                   PROVE  \A f \in Tags :
                            /\ tags[f].current + tags[f].archive
                                   = Cardinality(NonBlank(db.dat, f)
                                         \cap {j \in 1..Len(db.dat) : \E i \in Starts : i < j})
                            /\ tags[f].archive = Cardinality(ArchivedOf(f))
      BY DEF InventoryComplete, ArchivedOf
    <2>2. db \in Databases /\ position = Len(db.dat) + 1 /\ Len(db.dat) \in Nat
      <3>1. db \in Databases /\ position = Len(db.dat) + 1
        BY <2>1 DEF InventoryInv, ScanInv
      <3> QED
        BY <3>1, FileIsRead
    <2>3. Counts(tags, Len(db.dat) + 1)
      BY <2>1, <2>2 DEF InventoryInv, Uncounted
    <2>4. ASSUME NEW f \in Tags
          PROVE  /\ {j \in ArchivedOf(f) : j < Len(db.dat) + 1} = ArchivedOf(f)
                 /\ {j \in ValuesOf(f) : j < Len(db.dat) + 1}
                       = NonBlank(db.dat, f) \cap {j \in 1..Len(db.dat) : \E i \in Starts : i < j}
      <3>1. \A j \in ValuesOf(f) \cup ArchivedOf(f) : j \in 1..Len(db.dat) /\ j < Len(db.dat) + 1
        <4>1. \A j \in ValuesOf(f) \cup ArchivedOf(f) : j \in 1..Len(db.dat)
          BY <2>2, PlacesOfValues
        <4>2. \A j \in 1..Len(db.dat) : j < Len(db.dat) + 1
          BY <2>2
        <4> QED
          BY <4>1, <4>2
      <3>2. ValuesOf(f) = NonBlank(db.dat, f) \cap {j \in 1..Len(db.dat) : \E i \in Starts : i < j}
        BY <3>1 DEF ValuesOf
      <3> QED
        BY <3>1, <3>2
    <2> QED
      BY <2>3, <2>4 DEF Counts, Tally
  <1> QED
    BY <1>1, <1>2, <1>3, PTL DEF Spec

-----------------------------------------------------------------------------
(* The files of a database *)

\* Every choice takes files, and there is a choice for every table.
LEMMA EachHasFiles ==
    \A t \in TableName :
        /\ Len(Alternatives[t]) \in Nat /\ Len(Alternatives[t]) > 0
        /\ DOMAIN Alternatives[t] = 1..Len(Alternatives[t])
        /\ \A c \in DOMAIN Alternatives[t] :
              /\ Len(Alternatives[t][c]) \in Nat /\ Len(Alternatives[t][c]) > 0
              /\ DOMAIN Alternatives[t][c] = 1..Len(Alternatives[t][c])
  BY DEF TableName, Alternatives

\* Every table is opened once, the records first.
LEMMA TablesInOrder ==
    /\ Len(Tables) = 7
    /\ \A n \in 1..7 : Tables[n] \in TableName /\ (Tables[n] = "records" <=> n = 1)
    /\ \A n, k \in 1..7 : Tables[n] = Tables[k] => n = k
    /\ \A t \in TableName : \E n \in 1..7 : Tables[n] = t
  <1>1. Len(Tables) = 7 /\ \A n \in 1..7 : Tables[n] \in TableName
    BY DEF TableName, Alternatives, Tables
  <1>2. \A n \in 1..7 : Tables[n] = "records" <=> n = 1
    BY DEF Tables
  <1>3. \A n, k \in 1..7 : Tables[n] = Tables[k] => n = k
    BY DEF Tables
  <1>4. \A t \in TableName : \E n \in 1..7 : Tables[n] = t
    BY DEF TableName, Alternatives, Tables
  <1> QED
    BY <1>1, <1>2, <1>3, <1>4

\* No file belongs to two choices, nor to one twice.
LEMMA OnePlace ==
    \A t, u \in TableName : \A c \in DOMAIN Alternatives[t], e \in DOMAIN Alternatives[u] :
    \A i \in DOMAIN Alternatives[t][c], j \in DOMAIN Alternatives[u][e] :
        Alternatives[t][c][i] = Alternatives[u][e][j] => t = u /\ c = e /\ i = j
  <1> DEFINE Place(f) ==
                CASE f = "hamcall.idx" -> <<"records", 1, 1>>
                  [] f = "hamcall.dat" -> <<"records", 1, 2>>
                  [] f = "hci.idx" -> <<"hci", 1, 1>>
                  [] f = "hci.dat" -> <<"hci", 1, 2>>
                  [] f = "usa.csv.zip" -> <<"us_csv", 1, 1>>
                  [] f = "countrys" -> <<"countries", 1, 1>>
                  [] f = "gcmcountrys" -> <<"countries", 2, 1>>
                  [] f = "COUNTRYS.PC" -> <<"pc_countries", 1, 1>>
                  [] f = "countrys.nam" -> <<"country_names", 1, 1>>
                  [] f = "interest" -> <<"interests", 1, 1>>
  <1>1. ASSUME NEW t \in TableName, NEW c \in DOMAIN Alternatives[t],
               NEW i \in DOMAIN Alternatives[t][c]
        PROVE  Place(Alternatives[t][c][i]) = <<t, c, i>>
    <2>1. CASE t = "records"
      BY <2>1 DEF Alternatives
    <2>2. CASE t = "hci"
      BY <2>2 DEF Alternatives
    <2>3. CASE t = "us_csv"
      BY <2>3 DEF Alternatives
    <2>4. CASE t = "countries"
      BY <2>4 DEF Alternatives
    <2>5. CASE t = "pc_countries"
      BY <2>5 DEF Alternatives
    <2>6. CASE t = "country_names"
      BY <2>6 DEF Alternatives
    <2>7. CASE t = "interests"
      BY <2>7 DEF Alternatives
    <2> QED
      BY <2>1, <2>2, <2>3, <2>4, <2>5, <2>6, <2>7 DEF TableName, Alternatives
  <1> HIDE DEF Place
  <1> QED
    BY <1>1

\* The files that are opened are files.
LEMMA FilesAreOpened ==
    ASSUME NEW t \in TableName, NEW c \in DOMAIN Alternatives[t]
    PROVE  /\ \A f \in FilesOf(t, c) : f \in OpenedFiles /\ f \in File
           /\ \A i \in DOMAIN Alternatives[t][c] : Alternatives[t][c][i] \in FilesOf(t, c)
           /\ \A f \in FilesOf(t, c) : \E i \in DOMAIN Alternatives[t][c] : f = Alternatives[t][c][i]
  <1>1. \A i \in DOMAIN Alternatives[t][c] : Alternatives[t][c][i] \in FilesOf(t, c)
    BY DEF FilesOf
  <1>2. \A f \in FilesOf(t, c) : \E i \in DOMAIN Alternatives[t][c] : f = Alternatives[t][c][i]
    BY DEF FilesOf
  <1>3. \A f \in FilesOf(t, c) : f \in OpenedFiles
    BY DEF OpenedFiles
  <1> QED
    BY <1>1, <1>2, <1>3 DEF File

\* A directory has the files of a choice, and has them unharmed.
There(d, t, c) == \A f \in FilesOf(t, c) : d[f] # "absent"
Sound(d, t, c) == \A f \in FilesOf(t, c) : d[f] = "intact"

\* A directory holds the first choice that is there, or none.
LEMMA HeldIs ==
    ASSUME NEW d, NEW t \in TableName
    PROVE  /\ \A c \in DOMAIN Alternatives[t] :
                  There(d, t, c) /\ (\A e \in 1..(c - 1) : ~There(d, t, e)) => Held(d)[t] = c
           /\ (\A c \in DOMAIN Alternatives[t] : ~There(d, t, c)) => Held(d)[t] = NoTable
           /\ Held(d)[t] # NoTable =>
                  Held(d)[t] \in DOMAIN Alternatives[t] /\ There(d, t, Held(d)[t])
  <1> DEFINE there == {c \in DOMAIN Alternatives[t] : There(d, t, c)}
             least == CHOOSE c \in there : \A e \in there : c <= e
  <1>1. Held(d)[t] = IF there = {} THEN NoTable ELSE least
    BY DEF Held, There
  <1>2. DOMAIN Alternatives[t] = 1..Len(Alternatives[t]) /\ Len(Alternatives[t]) \in Nat
    BY EachHasFiles
  <1>3. ASSUME NEW c \in DOMAIN Alternatives[t], There(d, t, c),
               \A e \in 1..(c - 1) : ~There(d, t, e)
        PROVE  Held(d)[t] = c
    <2>1. c \in there
      BY <1>3
    <2>2. \A e \in there : c <= e
      BY <1>2, <1>3
    <2>3. \A e \in there : (\A g \in there : e <= g) => e = c
      BY <1>2, <2>1, <2>2
    <2> HIDE DEF there
    <2>4. least \in there /\ \A e \in there : least <= e
      BY <2>1, <2>2
    <2> QED
      BY <1>1, <2>1, <2>3, <2>4
  <1>4. ASSUME \A c \in DOMAIN Alternatives[t] : ~There(d, t, c)
        PROVE  Held(d)[t] = NoTable
    BY <1>1, <1>4
  <1>5. ASSUME there # {}
        PROVE  least \in there
    <2>1. there \in SUBSET Nat
      BY <1>2
    <2> HIDE DEF there
    <2>2. \E c \in there : \A e \in there : c <= e
      BY <1>5, <2>1, LeastNumber
    <2> QED
      BY <2>2
  <1>6. Held(d)[t] # NoTable => Held(d)[t] \in there
    BY <1>1, <1>5
  <1> QED
    BY <1>3, <1>4, <1>6

-----------------------------------------------------------------------------
(* Opening a database *)

\* Where the opening of a database is.
OpeningType ==
    [at : {"start", "checking", "reading", "done"}, table : Nat, choice : Nat, file : Nat,
     error : {"none", "DataPathNotFound", "NoDataFiles", "Io"}]

ThisTable == Tables[opening.table]
Opening == opening.at \in {"checking", "reading"}

\* The table is opened as the directory d has it.
Settled(d, t) ==
    /\ opened[t] = Held(d)[t]
    /\ Held(d)[t] # NoTable => Sound(d, t, Held(d)[t])
    /\ t = "records" => Held(d)[t] # NoTable

\* All that has been looked at until now is as in the directory d.
Found(d) ==
    /\ \A n \in 1..(opening.table - 1) : Settled(d, Tables[n])
    /\ \A c \in 1..(opening.choice - 1) : ~There(d, ThisTable, c)
    /\ opening.at = "checking" =>
          \A i \in 1..(opening.file - 1) : d[ThisChoice[i]] # "absent"
    /\ opening.at = "reading" =>
          /\ There(d, ThisTable, opening.choice)
          /\ \A i \in 1..(opening.file - 1) : d[ThisChoice[i]] = "intact"

\* What the directory was before is what it is now, but for one file.
OneChange ==
    \/ disks = {disk}
    \/ left = 0 /\ \E f \in OpenedFiles : \A d \in disks : \A g \in File \ {f} : d[g] = disk[g]

\* The file that is looked at is one of the tables', and no later table is opened.
Place ==
    /\ opening.table \in 1..Len(Tables)
    /\ opening.choice \in DOMAIN Alternatives[ThisTable]
    /\ opening.file \in DOMAIN ThisChoice
    /\ opened = [t \in TableName |-> opened[t]]
    /\ \A n \in opening.table..Len(Tables) : opened[Tables[n]] = NoTable

\* At some moment since the opening began all was as it has been found until now.
OpenInv ==
    /\ left \in 0..1
    /\ opening \in OpeningType
    /\ opening.at = "start" => disk \in Disk /\ opened = [t \in TableName |-> NoTable]
    /\ Opening =>
          /\ disk \in disks /\ disks \subseteq Disk
          /\ supplied.is_dir /\ resolve_v2_dir(supplied)
          /\ Place /\ OneChange
          /\ \E d \in disks : Found(d)
    /\ OpenedAsAtOneMoment

\* What Place means for the place that is looked at.
LEMMA ThisPlace ==
    ASSUME Place
    PROVE  /\ opening.table \in 1..7 /\ ThisTable \in TableName
           /\ opening.choice \in DOMAIN Alternatives[ThisTable]
           /\ opening.choice \in 1..Len(Alternatives[ThisTable]) /\ Len(Alternatives[ThisTable]) \in Nat
           /\ ThisChoice = Alternatives[ThisTable][opening.choice]
           /\ Len(ThisChoice) \in Nat
           /\ opening.file \in 1..Len(ThisChoice) /\ DOMAIN ThisChoice = 1..Len(ThisChoice)
           /\ ThisFile = ThisChoice[opening.file]
           /\ ThisFile \in FilesOf(ThisTable, opening.choice) /\ ThisFile \in OpenedFiles
           /\ ThisFile \in File
  <1>1. /\ opening.table \in 1..7 /\ ThisTable \in TableName
        /\ opening.choice \in DOMAIN Alternatives[ThisTable] /\ opening.file \in DOMAIN ThisChoice
    BY TablesInOrder DEF Place, ThisTable
  <1>2. ThisChoice = Alternatives[ThisTable][opening.choice] /\ ThisFile = ThisChoice[opening.file]
    BY DEF ThisChoice, ThisFile, ThisTable
  <1>3. /\ DOMAIN Alternatives[ThisTable] = 1..Len(Alternatives[ThisTable]) /\ Len(Alternatives[ThisTable]) \in Nat
        /\ DOMAIN ThisChoice = 1..Len(ThisChoice) /\ Len(ThisChoice) \in Nat
    BY <1>1, <1>2, EachHasFiles
  <1>4. ThisFile \in FilesOf(ThisTable, opening.choice)
    BY <1>1, <1>2, FilesAreOpened
  <1>5. ThisFile \in OpenedFiles /\ ThisFile \in File
    BY <1>1, <1>4, FilesAreOpened
  <1> QED
    BY <1>1, <1>2, <1>3, <1>4, <1>5

\* The file that is looked at is no other choice's and at no other place of its own.
LEMMA ThisFileOnly ==
    ASSUME Place
    PROVE  /\ \A t \in TableName : \A c \in DOMAIN Alternatives[t] :
                 ThisFile \in FilesOf(t, c) => t = ThisTable /\ c = opening.choice
           /\ \A i \in DOMAIN ThisChoice : ThisChoice[i] = ThisFile => i = opening.file
  <1>1. /\ ThisTable \in TableName /\ opening.choice \in DOMAIN Alternatives[ThisTable]
        /\ ThisChoice = Alternatives[ThisTable][opening.choice]
        /\ opening.file \in DOMAIN ThisChoice /\ ThisFile = ThisChoice[opening.file]
    BY ThisPlace
  <1>2. ASSUME NEW t \in TableName, NEW c \in DOMAIN Alternatives[t], ThisFile \in FilesOf(t, c)
        PROVE  t = ThisTable /\ c = opening.choice
    <2>1. PICK i \in DOMAIN Alternatives[t][c] : ThisFile = Alternatives[t][c][i]
      BY <1>2, FilesAreOpened
    <2>2. /\ opening.file \in DOMAIN Alternatives[ThisTable][opening.choice]
          /\ Alternatives[t][c][i] = Alternatives[ThisTable][opening.choice][opening.file]
      BY <1>1, <2>1
    <2>3. ThisTable \in TableName /\ opening.choice \in DOMAIN Alternatives[ThisTable]
      BY <1>1
    <2> QED
      BY <2>1, <2>2, <2>3, OnePlace
  <1>3. ASSUME NEW i \in DOMAIN ThisChoice, ThisChoice[i] = ThisFile
        PROVE  i = opening.file
    BY <1>1, <1>3, OnePlace
  <1> QED
    BY <1>2, <1>3

\* Directories that agree on the files of a table hold the same of it.
LEMMA AgreeOnTable ==
    ASSUME NEW d, NEW e, NEW t \in TableName,
           \A c \in DOMAIN Alternatives[t] : \A f \in FilesOf(t, c) : d[f] = e[f],
           Settled(d, t)
    PROVE  Settled(e, t)
  <1>1. \A c \in DOMAIN Alternatives[t] :
            (There(d, t, c) <=> There(e, t, c)) /\ (Sound(d, t, c) <=> Sound(e, t, c))
    BY DEF There, Sound
  <1>2. Held(e)[t] = Held(d)[t]
    <2> DEFINE there(x) == {c \in DOMAIN Alternatives[t] : There(x, t, c)}
               first(s) == IF s = {} THEN NoTable ELSE CHOOSE c \in s : \A g \in s : c <= g
    <2>1. there(d) = there(e)
      BY <1>1
    <2>2. Held(d)[t] = first(there(d)) /\ Held(e)[t] = first(there(e))
      BY DEF Held, There
    <2> HIDE DEF there, first
    <2> QED
      BY <2>1, <2>2
  <1>3. Held(d)[t] # NoTable => Held(d)[t] \in DOMAIN Alternatives[t]
    BY HeldIs
  <1> QED
    BY <1>1, <1>2, <1>3 DEF Settled

\* So far a directory does just as well if it differs only in the file that is looked at, unless
\* the one or the other no longer has a file that was there.
LEMMA AlsoFound ==
    ASSUME NEW d, NEW e, Place, Opening, Found(d),
           \A f \in File \ {ThisFile} : d[f] = e[f],
           opening.at = "reading" => e[ThisFile] # "absent"
    PROVE  Found(e)
  <1>1. /\ opening.table \in 1..7 /\ ThisTable \in TableName
        /\ opening.choice \in DOMAIN Alternatives[ThisTable]
        /\ opening.choice \in 1..Len(Alternatives[ThisTable]) /\ Len(Alternatives[ThisTable]) \in Nat
        /\ DOMAIN Alternatives[ThisTable] = 1..Len(Alternatives[ThisTable])
        /\ ThisChoice = Alternatives[ThisTable][opening.choice]
        /\ Len(ThisChoice) \in Nat
        /\ opening.file \in 1..Len(ThisChoice) /\ DOMAIN ThisChoice = 1..Len(ThisChoice)
    BY ThisPlace, EachHasFiles
  <1>2. ASSUME NEW n \in 1..(opening.table - 1)
        PROVE  Settled(e, Tables[n])
    <2>1. Tables[n] \in TableName /\ Tables[n] # ThisTable
      BY <1>1, TablesInOrder DEF ThisTable
    <2>2. ASSUME NEW c \in DOMAIN Alternatives[Tables[n]], NEW f \in FilesOf(Tables[n], c)
          PROVE  d[f] = e[f]
      <3>1. f # ThisFile
        BY <2>1, ThisFileOnly
      <3>2. f \in File
        BY <2>1, FilesAreOpened
      <3> QED
        BY <3>1, <3>2
    <2>3. Settled(d, Tables[n])
      BY DEF Found
    <2> QED
      BY <2>1, <2>2, <2>3, AgreeOnTable
  <1>3. ASSUME NEW c \in 1..(opening.choice - 1)
        PROVE  ~There(e, ThisTable, c)
    <2>1. c \in DOMAIN Alternatives[ThisTable] /\ c # opening.choice
      BY <1>1
    <2>2. ~There(d, ThisTable, c)
      BY DEF Found
    <2>3. PICK f \in FilesOf(ThisTable, c) : d[f] = "absent"
      BY <2>2 DEF There
    <2>4. f # ThisFile /\ f \in File
      BY <1>1, <2>1, ThisFileOnly, FilesAreOpened
    <2> QED
      BY <2>3, <2>4 DEF There
  <1>4. ASSUME NEW i \in 1..(opening.file - 1)
        PROVE  d[ThisChoice[i]] = e[ThisChoice[i]]
    <2>1. i \in DOMAIN ThisChoice /\ i # opening.file
      BY <1>1
    <2>2. ThisChoice[i] # ThisFile
      BY <2>1, ThisFileOnly
    <2>3. ThisChoice[i] \in FilesOf(ThisTable, opening.choice)
      BY <1>1, <2>1, FilesAreOpened
    <2>4. ThisChoice[i] \in File
      BY <1>1, <2>3, FilesAreOpened
    <2> QED
      BY <2>2, <2>4
  <1>5. ASSUME opening.at = "reading"
        PROVE  There(e, ThisTable, opening.choice)
    <2>1. There(d, ThisTable, opening.choice)
      BY <1>5 DEF Found
    <2>2. ASSUME NEW f \in FilesOf(ThisTable, opening.choice)
          PROVE  e[f] # "absent"
      <3>1. f \in File /\ d[f] # "absent"
        BY <1>1, <2>1, FilesAreOpened DEF There
      <3> QED
        BY <1>5, <3>1
    <2> QED
      BY <2>2 DEF There
  <1> QED
    BY <1>2, <1>3, <1>4, <1>5 DEF Found

\* The end with an error.
LEMMA FailedIs ==
    \A error \in {"none", "DataPathNotFound", "NoDataFiles", "Io"} :
        /\ Failed(error) \in OpeningType
        /\ Failed(error).at = "done" /\ Failed(error).error = error
  BY DEF Step, Failed, OpeningType

\* Some directory that was meanwhile is as all that has been looked at and as the file that is
\* looked at now, unless this one was there and has gone.
LEMMA LookedAt ==
    ASSUME OpenInv, Opening
    PROVE  \/ \E d \in disks : Found(d) /\ d[ThisFile] = disk[ThisFile]
           \/ opening.at = "reading" /\ disk[ThisFile] = "absent" /\ Vanished
  <1>1. Place /\ disk \in disks /\ OneChange
    BY DEF OpenInv
  <1>2. PICK d \in disks : Found(d)
    BY DEF OpenInv
  <1>3. ThisFile \in FilesOf(ThisTable, opening.choice) /\ ThisFile \in OpenedFiles
    BY <1>1, ThisPlace
  <1>4. CASE d[ThisFile] = disk[ThisFile]
    BY <1>2, <1>4
  <1>5. CASE d[ThisFile] # disk[ThisFile]
    <2>1. PICK f \in OpenedFiles : \A g \in File \ {f} : d[g] = disk[g]
      <3>1. disks # {disk}
        BY <1>5
      <3> QED
        BY <1>1, <3>1 DEF OneChange
    <2>2. f = ThisFile
      BY <1>1, <1>5, <2>1, ThisPlace
    <2>3. CASE opening.at = "reading" /\ disk[ThisFile] = "absent"
      <3>1. d[ThisFile] # "absent"
        BY <1>2, <1>3, <2>3 DEF Found, There
      <3>2. Vanished
        BY <1>1, <1>2, <1>3, <2>3, <3>1 DEF Vanished
      <3> QED
        BY <2>3, <3>2
    <2>4. CASE ~(opening.at = "reading" /\ disk[ThisFile] = "absent")
      <3>1. Found(disk)
        BY <1>1, <1>2, <2>1, <2>2, <2>4, AlsoFound
      <3> QED
        BY <1>1, <3>1
    <2> QED
      BY <2>3, <2>4
  <1> QED
    BY <1>4, <1>5

\* Going on to another place.
LEMMA GoesOn ==
    ASSUME OpenInv, Opening, UNCHANGED <<supplied, disk, left, disks>>,
           opening' \in OpeningType /\ Opening',
           Place', NEW d \in disks, Found(d)'
    PROVE  OpenInv'
  <1>1. /\ left \in 0..1 /\ disk \in disks /\ disks \subseteq Disk
        /\ supplied.is_dir /\ resolve_v2_dir(supplied) /\ OneChange
    BY DEF OpenInv
  <1>2. opening'.at \in {"checking", "reading"}
    BY DEF Opening
  <1>3. opening' \in OpeningType
    OBVIOUS
  <1>4. OneChange'
    BY <1>1 DEF OneChange
  <1>5. OpenedAsAtOneMoment'
    BY <1>2 DEF OpenedAsAtOneMoment
  <1> QED
    BY <1>1, <1>2, <1>3, <1>4, <1>5 DEF OpenInv, resolve_v2_dir

\* Ending.
LEMMA Ends ==
    ASSUME OpenInv, left' = left, OpenedAsAtOneMoment', opening'.at = "done",
           opening' \in OpeningType
    PROVE  OpenInv'
  BY DEF OpenInv, Opening, OpeningType

\* The directory is refused for what it lacks or for a broken file.
LEMMA RefusedAs ==
    ASSUME OpenInv, Opening, NEW d \in disks, Found(d), NEW tables
    PROVE  /\ opening.at = "reading" /\ d[ThisFile] # "intact" => OpensTo(d, "Io", tables)
           /\ Held(d)["records"] = NoTable => OpensTo(d, "NoDataFiles", tables)
  <1>1. Place /\ supplied.is_dir /\ resolve_v2_dir(supplied)
    BY DEF OpenInv
  <1>2. /\ opening.table \in 1..7 /\ ThisTable \in TableName
        /\ opening.choice \in DOMAIN Alternatives[ThisTable]
        /\ ThisFile \in FilesOf(ThisTable, opening.choice)
    BY <1>1, ThisPlace
  <1>3. ASSUME opening.at = "reading", d[ThisFile] # "intact"
        PROVE  OpensTo(d, "Io", tables)
    <2>1. Held(d)[ThisTable] = opening.choice
      <3>1. There(d, ThisTable, opening.choice) /\ \A c \in 1..(opening.choice - 1) : ~There(d, ThisTable, c)
        BY <1>3 DEF Found
      <3> QED
        BY <1>2, <3>1, HeldIs
    <2>2. opening.choice # NoTable
      BY <1>2, EachHasFiles DEF NoTable
    <2>3. ~Whole(d)
      BY <1>2, <1>3, <2>1, <2>2 DEF Whole
    <2>4. Held(d)["records"] # NoTable
      <3>1. CASE opening.table = 1
        BY <2>1, <2>2, <3>1, TablesInOrder DEF ThisTable
      <3>2. CASE opening.table # 1
        <4>1. 1 \in 1..(opening.table - 1) /\ Tables[1] = "records"
          BY <1>2, <3>2, TablesInOrder
        <4> QED
          BY <4>1 DEF Found, Settled
      <3> QED
        BY <3>1, <3>2
    <2> QED
      BY <1>1, <2>3, <2>4 DEF OpensTo
  <1>4. ASSUME Held(d)["records"] = NoTable
        PROVE  OpensTo(d, "NoDataFiles", tables)
    BY <1>1, <1>4 DEF OpensTo
  <1> QED
    BY <1>3, <1>4

\* The next table, when this one is settled.
LEMMA NextTable ==
    ASSUME OpenInv, Opening, UNCHANGED <<supplied, disk, left, disks>>,
           NEW d \in disks, Found(d), NEW t, t = ThisTable, Settled(d, t)',
           opening' = After(opening.table),
           opened' = [u \in TableName |-> opened'[u]],
           \A u \in TableName \ {t} : opened'[u] = opened[u]
    PROVE  OpenInv'
  <1>1. Place /\ supplied.is_dir /\ resolve_v2_dir(supplied)
    BY DEF OpenInv
  <1>2. /\ opening.table \in 1..7 /\ t \in TableName
        /\ \A n \in 1..7 : n # opening.table => Tables[n] \in TableName \ {t}
    BY <1>1, ThisPlace, TablesInOrder DEF ThisTable
  <1>3. ASSUME NEW n \in 1..opening.table
        PROVE  Settled(d, Tables[n])'
    <2>1. CASE n = opening.table
      BY <2>1 DEF ThisTable
    <2>2. CASE n # opening.table
      <3>1. n \in 1..(opening.table - 1) /\ n \in 1..7
        BY <1>2, <2>2
      <3>2. Settled(d, Tables[n])
        BY <3>1 DEF Found
      <3>3. opened'[Tables[n]] = opened[Tables[n]]
        BY <1>2, <2>2, <3>1
      <3> QED
        BY <3>2, <3>3 DEF Settled
    <2> QED
      BY <2>1, <2>2
  <1>4. CASE opening.table = 7
    <2>1. opening' = Step("done", 1, 1, 1)
      BY <1>4, TablesInOrder DEF After
    <2>2. /\ opening'.at = "done" /\ opening'.error = "none"
          /\ opening' \in OpeningType
      BY <2>1 DEF Step, OpeningType
    <2>3. ASSUME NEW u \in TableName
          PROVE  Settled(d, u)'
      <3>1. PICK n \in 1..7 : Tables[n] = u
        BY TablesInOrder
      <3> QED
        BY <1>3, <1>4, <3>1
    <2>4. Held(d)["records"] # NoTable
      BY <2>3 DEF Settled, TableName, Alternatives
    <2>5. Whole(d)
      BY <2>3 DEF Whole, Settled, Sound
    <2>6. opened' = Held(d)
      <3>1. Held(d) = [u \in TableName |-> Held(d)[u]]
        BY DEF Held
      <3>2. \A u \in TableName : opened'[u] = Held(d)[u]
        BY <2>3 DEF Settled
      <3> QED
        BY <3>1, <3>2
    <2>7. OpensTo(d, opening.error, opened)'
      BY <1>1, <2>2, <2>4, <2>5, <2>6 DEF OpensTo, resolve_v2_dir
    <2>8. OpenedAsAtOneMoment'
      BY <2>7 DEF OpenedAsAtOneMoment
    <2> QED
      BY <2>2, <2>8, Ends
  <1>5. CASE opening.table # 7
    <2>1. opening' = Step("checking", opening.table + 1, 1, 1)
      BY <1>5, TablesInOrder DEF After
    <2>2. /\ opening'.at = "checking" /\ opening'.table = opening.table + 1
          /\ opening'.choice = 1 /\ opening'.file = 1 /\ opening'.error = "none"
      BY <2>1 DEF Step
    <2>3. Tables[opening.table + 1] \in TableName /\ opening.table + 1 \in 1..7
      BY <1>2, <1>5, TablesInOrder
    <2>4. Place'
      <3>1. opening'.table \in 1..Len(Tables)
        BY <2>2, <2>3, TablesInOrder
      <3>2. /\ opening'.choice \in DOMAIN Alternatives[ThisTable']
            /\ opening'.file \in DOMAIN ThisChoice'
        BY <2>2, <2>3, EachHasFiles DEF ThisTable, ThisChoice
      <3>3. ASSUME NEW n \in opening'.table..Len(Tables)
            PROVE  opened'[Tables[n]] = NoTable
        <4>1. n \in 1..7 /\ n # opening.table /\ n \in opening.table..Len(Tables)
          BY <1>2, <2>2, TablesInOrder
        <4> QED
          BY <1>1, <1>2, <4>1 DEF Place
      <3> QED
        BY <3>1, <3>2, <3>3 DEF Place
    <2>5. Found(d)'
      <3>1. \A n \in 1..(opening'.table - 1) : Settled(d, Tables[n])'
        BY <1>2, <1>3, <2>2
      <3> QED
        BY <2>2, <3>1 DEF Found
    <2>6. opening' \in OpeningType /\ Opening'
      BY <1>2, <2>1 DEF Step, OpeningType, Opening
    <2> QED
      BY <2>4, <2>5, <2>6, GoesOn
  <1> QED
    BY <1>4, <1>5

\* Opening begins.
LEMMA OpenPathKeeps ==
    ASSUME OpenInv, OpenPath
    PROVE  OpenInv'
  <1>1. /\ opening.at = "start" /\ left \in 0..1 /\ disk \in Disk
        /\ opened = [t \in TableName |-> NoTable]
    BY DEF OpenInv, OpenPath
  <1>2. disks' = {disk} /\ UNCHANGED <<supplied, disk, opened, left>>
    BY DEF OpenPath
  <1>3. CASE ~supplied.is_dir
    <2>1. opening' = Failed("DataPathNotFound")
      BY <1>3 DEF OpenPath
    <2>2. OpensTo(disk, opening.error, opened)'
      BY <1>2, <1>3, <2>1, FailedIs DEF OpensTo
    <2>3. OpenedAsAtOneMoment'
      BY <1>2, <2>2 DEF OpenedAsAtOneMoment
    <2> QED
      BY <1>2, <2>1, <2>3, FailedIs, Ends
  <1>4. CASE supplied.is_dir /\ ~resolve_v2_dir(supplied)
    <2>1. opening' = Failed("NoDataFiles")
      BY <1>4 DEF OpenPath
    <2>2. OpensTo(disk, opening.error, opened)'
      BY <1>2, <1>4, <2>1, FailedIs DEF OpensTo, resolve_v2_dir
    <2>3. OpenedAsAtOneMoment'
      BY <1>2, <2>2 DEF OpenedAsAtOneMoment
    <2> QED
      BY <1>2, <2>1, <2>3, FailedIs, Ends
  <1>5. CASE supplied.is_dir /\ resolve_v2_dir(supplied)
    <2>1. opening' = Step("checking", 1, 1, 1)
      BY <1>5 DEF OpenPath
    <2>2. /\ opening'.at = "checking" /\ opening'.table = 1 /\ opening'.choice = 1
          /\ opening'.file = 1
      BY <2>1 DEF Step
    <2>3. Place'
      <3>1. 1 \in 1..Len(Tables) /\ Tables[1] \in TableName
        BY TablesInOrder
      <3>2. 1 \in DOMAIN Alternatives[Tables[1]] /\ 1 \in DOMAIN Alternatives[Tables[1]][1]
        BY <3>1, EachHasFiles
      <3>3. \A n \in 1..Len(Tables) : opened'[Tables[n]] = NoTable
        BY <1>1, <1>2, TablesInOrder
      <3>4. opened' = [t \in TableName |-> opened'[t]]
        BY <1>1, <1>2
      <3> QED
        BY <2>2, <3>1, <3>2, <3>3, <3>4 DEF Place, ThisTable, ThisChoice
    <2>4. ASSUME NEW d
          PROVE  Found(d)'
      BY <2>2 DEF Found
    <2>5. OneChange' /\ disk' \in disks' /\ disks' \subseteq Disk /\ disks' # {}
      BY <1>1, <1>2 DEF OneChange
    <2>6. opening' \in OpeningType
      BY <2>1 DEF Step, OpeningType
    <2>7. OpenedAsAtOneMoment'
      BY <2>2 DEF OpenedAsAtOneMoment
    <2>8. \E d \in disks' : Found(d)'
      BY <2>4, <2>5
    <2> QED
      BY <1>1, <1>2, <1>5, <2>2, <2>3, <2>5, <2>6, <2>7, <2>8 DEF OpenInv, resolve_v2_dir
  <1> QED
    BY <1>3, <1>4, <1>5

\* A file that is looked for is there.
LEMMA CheckPresentKeeps ==
    ASSUME OpenInv, CheckPresent
    PROVE  OpenInv'
  <1>1. /\ opening.at = "checking" /\ Opening /\ Place /\ disk[ThisFile] # "absent"
        /\ opening \in OpeningType
        /\ UNCHANGED <<supplied, disk, opened, left, disks>>
    BY DEF OpenInv, CheckPresent, Opening
  <1>2. PICK d \in disks : Found(d) /\ d[ThisFile] = disk[ThisFile]
    BY <1>1, LookedAt
  <1>3. /\ opening.table \in 1..7 /\ ThisTable \in TableName
        /\ opening.choice \in DOMAIN Alternatives[ThisTable]
        /\ ThisChoice = Alternatives[ThisTable][opening.choice]
        /\ opening.file \in 1..Len(ThisChoice) /\ DOMAIN ThisChoice = 1..Len(ThisChoice)
        /\ Len(ThisChoice) \in Nat /\ ThisFile = ThisChoice[opening.file]
    BY <1>1, ThisPlace
  <1>4. \A i \in 1..opening.file : d[ThisChoice[i]] # "absent"
    <2>1. \A i \in 1..(opening.file - 1) : d[ThisChoice[i]] # "absent"
      BY <1>1, <1>2 DEF Found
    <2>2. d[ThisChoice[opening.file]] # "absent"
      BY <1>1, <1>2, <1>3
    <2> QED
      BY <1>3, <2>1, <2>2
  <1>5. CASE opening.file < Len(ThisChoice)
    <2>1. /\ opening' = [opening EXCEPT !.file = opening.file + 1]
          /\ opening'.at = "checking" /\ opening'.table = opening.table
          /\ opening'.choice = opening.choice /\ opening'.file = opening.file + 1
          /\ opening' \in OpeningType /\ Opening'
      BY <1>1, <1>5 DEF CheckPresent, OpeningType, Opening
    <2>2. ThisTable' = ThisTable /\ ThisChoice' = ThisChoice
      BY <2>1 DEF ThisTable, ThisChoice
    <2>3. Place'
      <3>1. opening'.file \in DOMAIN ThisChoice
        BY <1>3, <1>5, <2>1
      <3> QED
        BY <1>1, <2>1, <2>2, <3>1 DEF Place
    <2>4. Found(d)'
      <3>1. \A n \in 1..(opening.table - 1) : Settled(d, Tables[n])'
        BY <1>1, <1>2 DEF Found, Settled
      <3>2. \A c \in 1..(opening.choice - 1) : ~There(d, ThisTable, c)
        BY <1>2 DEF Found
      <3>3. opening'.file - 1 = opening.file
        BY <1>3, <2>1
      <3> QED
        BY <1>4, <2>1, <2>2, <3>1, <3>2, <3>3 DEF Found
    <2> QED
      BY <1>1, <2>1, <2>3, <2>4, GoesOn
  <1>6. CASE ~(opening.file < Len(ThisChoice))
    <2>1. /\ opening' = [opening EXCEPT !.at = "reading", !.file = 1]
          /\ opening'.at = "reading" /\ opening'.table = opening.table
          /\ opening'.choice = opening.choice /\ opening'.file = 1
          /\ opening' \in OpeningType /\ Opening'
      BY <1>1, <1>6 DEF CheckPresent, OpeningType, Opening
    <2>2. ThisTable' = ThisTable /\ ThisChoice' = ThisChoice
      BY <2>1 DEF ThisTable, ThisChoice
    <2>3. Place'
      <3>1. opening'.file \in DOMAIN ThisChoice
        BY <1>3, <2>1
      <3> QED
        BY <1>1, <2>1, <2>2, <3>1 DEF Place
    <2>4. There(d, ThisTable, opening.choice)
      <3>1. opening.file = Len(ThisChoice)
        BY <1>3, <1>6
      <3>2. \A f \in FilesOf(ThisTable, opening.choice) : \E i \in DOMAIN ThisChoice : f = ThisChoice[i]
        BY <1>3, FilesAreOpened
      <3> QED
        BY <1>3, <1>4, <3>1, <3>2 DEF There
    <2>5. Found(d)'
      <3>1. \A n \in 1..(opening.table - 1) : Settled(d, Tables[n])'
        BY <1>1, <1>2 DEF Found, Settled
      <3>2. \A c \in 1..(opening.choice - 1) : ~There(d, ThisTable, c)
        BY <1>2 DEF Found
      <3> QED
        BY <2>1, <2>2, <2>4, <3>1, <3>2 DEF Found
    <2> QED
      BY <1>1, <2>1, <2>3, <2>5, GoesOn
  <1> QED
    BY <1>5, <1>6

\* A file that is looked for is not there.
LEMMA CheckAbsentKeeps ==
    ASSUME OpenInv, CheckAbsent
    PROVE  OpenInv'
  <1>1. /\ opening.at = "checking" /\ Opening /\ Place /\ disk[ThisFile] = "absent"
        /\ UNCHANGED <<supplied, disk, opened, left, disks>>
    BY DEF OpenInv, CheckAbsent, Opening
  <1>2. PICK d \in disks : Found(d) /\ d[ThisFile] = disk[ThisFile]
    BY <1>1, LookedAt
  <1>3. /\ opening.table \in 1..7 /\ ThisTable \in TableName
        /\ opening.choice \in 1..Len(Alternatives[ThisTable]) /\ Len(Alternatives[ThisTable]) \in Nat
        /\ opening.choice \in DOMAIN Alternatives[ThisTable]
        /\ ThisFile \in FilesOf(ThisTable, opening.choice)
    BY <1>1, ThisPlace
  <1>4. \A c \in 1..opening.choice : ~There(d, ThisTable, c)
    <2>1. ~There(d, ThisTable, opening.choice)
      BY <1>1, <1>2, <1>3 DEF There
    <2>2. \A c \in 1..(opening.choice - 1) : ~There(d, ThisTable, c)
      BY <1>2 DEF Found
    <2> QED
      BY <1>3, <2>1, <2>2
  <1>5. CASE opening.choice < Len(Alternatives[ThisTable])
    <2>1. opening' = Step("checking", opening.table, opening.choice + 1, 1)
      BY <1>5 DEF CheckAbsent, ThisTable
    <2>2. /\ opening'.at = "checking" /\ opening'.table = opening.table
          /\ opening'.choice = opening.choice + 1 /\ opening'.file = 1
      BY <2>1 DEF Step
    <2>3. opening' \in OpeningType /\ Opening'
      BY <1>3, <2>1 DEF Step, OpeningType, Opening
    <2>4. ThisTable' = ThisTable
      BY <2>2 DEF ThisTable
    <2>5. Place'
      <3>1. opening.choice + 1 \in DOMAIN Alternatives[ThisTable]
        BY <1>3, <1>5, EachHasFiles
      <3>2. 1 \in DOMAIN Alternatives[ThisTable][opening.choice + 1]
        BY <1>3, <3>1, EachHasFiles
      <3>3. 1 \in DOMAIN ThisChoice'
        BY <2>2, <2>4, <3>2 DEF ThisChoice, ThisTable
      <3> QED
        BY <1>1, <2>2, <2>4, <3>1, <3>3 DEF Place
    <2>6. Found(d)'
      <3>1. \A n \in 1..(opening.table - 1) : Settled(d, Tables[n])'
        BY <1>1, <1>2 DEF Found, Settled
      <3>2. opening'.choice - 1 = opening.choice
        BY <1>3, <2>2
      <3> QED
        BY <1>4, <2>2, <2>4, <3>1, <3>2 DEF Found
    <2> QED
      BY <1>1, <2>3, <2>5, <2>6, GoesOn
  <1>6. CASE ~(opening.choice < Len(Alternatives[ThisTable]))
    <2>1. Held(d)[ThisTable] = NoTable
      <3>1. opening.choice = Len(Alternatives[ThisTable])
        BY <1>3, <1>6
      <3>2. \A c \in DOMAIN Alternatives[ThisTable] : ~There(d, ThisTable, c)
        BY <1>3, <1>4, <3>1, EachHasFiles
      <3> QED
        BY <1>3, <3>2, HeldIs
    <2>2. CASE ThisTable = "records"
      <3>1. opening' = Failed("NoDataFiles")
        BY <1>6, <2>2 DEF CheckAbsent, ThisTable
      <3>2. OpensTo(d, "NoDataFiles", opened')
        BY <1>1, <1>2, <2>1, <2>2, RefusedAs
      <3>3. OpensTo(d, opening.error, opened)'
        BY <1>1, <3>1, <3>2, FailedIs DEF OpensTo, resolve_v2_dir
      <3>4. OpenedAsAtOneMoment'
        BY <1>1, <1>2, <3>3 DEF OpenedAsAtOneMoment
      <3> QED
        BY <1>1, <3>1, <3>4, FailedIs, Ends
    <2>3. CASE ThisTable # "records"
      <3>1. opening' = After(opening.table)
        BY <1>6, <2>3 DEF CheckAbsent, ThisTable
      <3>2. opened[ThisTable] = NoTable
        BY <1>1, <1>3, TablesInOrder DEF Place, ThisTable
      <3>3. ASSUME NEW t, t = ThisTable
            PROVE  Settled(d, t)'
        BY <1>1, <2>1, <2>3, <3>2, <3>3 DEF Settled
      <3>4. opened' = [u \in TableName |-> opened'[u]] /\ \A u \in TableName : opened'[u] = opened[u]
        BY <1>1 DEF Place
      <3>5. PICK t : t = ThisTable
        OBVIOUS
      <3>6. Settled(d, t)'
        BY <3>3, <3>5
      <3> QED
        BY <1>1, <1>2, <3>1, <3>4, <3>5, <3>6, NextTable
    <2> QED
      BY <2>2, <2>3
  <1> QED
    BY <1>5, <1>6

\* A file is opened and parsed, or fails.
LEMMA ReadKeeps ==
    ASSUME OpenInv, Read
    PROVE  OpenInv'
  <1>1. /\ opening.at = "reading" /\ Opening /\ Place
        /\ opening \in OpeningType
        /\ UNCHANGED <<supplied, disk, left, disks>>
    BY DEF OpenInv, Read, Opening, OpeningType
  <1>2. \/ \E d \in disks : Found(d) /\ d[ThisFile] = disk[ThisFile]
        \/ disk[ThisFile] = "absent" /\ Vanished
    BY <1>1, LookedAt
  <1>3. /\ opening.table \in 1..7 /\ ThisTable \in TableName
        /\ opening.choice \in DOMAIN Alternatives[ThisTable]
        /\ opening.choice \in 1..Len(Alternatives[ThisTable]) /\ Len(Alternatives[ThisTable]) \in Nat
        /\ ThisChoice = Alternatives[ThisTable][opening.choice]
        /\ opening.file \in 1..Len(ThisChoice) /\ DOMAIN ThisChoice = 1..Len(ThisChoice)
        /\ Len(ThisChoice) \in Nat /\ ThisFile = ThisChoice[opening.file]
    BY <1>1, ThisPlace
  <1>4. CASE disk[ThisFile] # "intact"
    <2>1. opening' = Failed("Io") /\ opened' = opened
      BY <1>4 DEF Read
    <2>2. OpenedAsAtOneMoment'
      <3>1. opening'.error = "Io"
        BY <2>1, FailedIs
      <3>2. CASE \E d \in disks : Found(d) /\ d[ThisFile] = disk[ThisFile]
        <4>1. PICK d \in disks : Found(d) /\ d[ThisFile] = disk[ThisFile]
          BY <3>2
        <4>2. OpensTo(d, "Io", opened')
          BY <1>1, <1>4, <4>1, RefusedAs
        <4>3. OpensTo(d, opening.error, opened)'
          BY <1>1, <3>1, <4>2 DEF OpensTo, resolve_v2_dir
        <4> QED
          BY <1>1, <4>3 DEF OpenedAsAtOneMoment
      <3>3. CASE Vanished
        <4>1. Vanished'
          BY <1>1, <3>3 DEF Vanished
        <4> QED
          BY <3>1, <4>1 DEF OpenedAsAtOneMoment
      <3> QED
        BY <1>2, <3>2, <3>3
    <2> QED
      BY <1>1, <2>1, <2>2, FailedIs, Ends
  <1>5. CASE disk[ThisFile] = "intact"
    <2>1. PICK d \in disks : Found(d) /\ d[ThisFile] = "intact"
      BY <1>2, <1>5
    <2>2. /\ There(d, ThisTable, opening.choice) /\ \A c \in 1..(opening.choice - 1) : ~There(d, ThisTable, c)
          /\ \A i \in 1..opening.file : d[ThisChoice[i]] = "intact"
      <3>1. /\ There(d, ThisTable, opening.choice)
            /\ \A c \in 1..(opening.choice - 1) : ~There(d, ThisTable, c)
            /\ \A i \in 1..(opening.file - 1) : d[ThisChoice[i]] = "intact"
        BY <1>1, <2>1 DEF Found
      <3> QED
        BY <1>3, <2>1, <3>1
    <2>3. CASE opening.file < Len(ThisChoice)
      <3>1. /\ opening' = [opening EXCEPT !.file = opening.file + 1] /\ opened' = opened
            /\ opening'.at = "reading" /\ opening'.table = opening.table
            /\ opening'.choice = opening.choice /\ opening'.file = opening.file + 1
            /\ opening' \in OpeningType /\ Opening'
        BY <1>1, <1>5, <2>3 DEF Read, OpeningType, Opening
      <3>2. ThisTable' = ThisTable /\ ThisChoice' = ThisChoice
        BY <3>1 DEF ThisTable, ThisChoice
      <3>3. Place'
        <4>1. opening'.file \in DOMAIN ThisChoice
          BY <1>3, <2>3, <3>1
        <4> QED
          BY <1>1, <3>1, <3>2, <4>1 DEF Place
      <3>4. Found(d)'
        <4>1. \A n \in 1..(opening.table - 1) : Settled(d, Tables[n])'
          BY <2>1, <3>1 DEF Found, Settled
        <4>2. opening'.file - 1 = opening.file
          BY <1>3, <3>1
        <4> QED
          BY <2>2, <3>1, <3>2, <4>1, <4>2 DEF Found
      <3> QED
        BY <1>1, <3>1, <3>3, <3>4, GoesOn
    <2>4. CASE ~(opening.file < Len(ThisChoice))
      <3>1. /\ opening' = After(opening.table)
            /\ opened' = [opened EXCEPT ![ThisTable] = opening.choice]
        BY <1>5, <2>4 DEF Read, ThisTable
      <3>2. Held(d)[ThisTable] = opening.choice /\ opening.choice # NoTable
        <4>1. opening.choice # NoTable
          BY <1>3 DEF NoTable
        <4> QED
          BY <1>3, <2>2, <4>1, HeldIs
      <3>3. Sound(d, ThisTable, opening.choice)
        <4>1. opening.file = Len(ThisChoice)
          BY <1>3, <2>4
        <4>2. \A f \in FilesOf(ThisTable, opening.choice) : \E i \in DOMAIN ThisChoice : f = ThisChoice[i]
          BY <1>3, FilesAreOpened
        <4> QED
          BY <1>3, <2>2, <4>1, <4>2 DEF Sound
      <3>4. PICK t : t = ThisTable
        OBVIOUS
      <3>5. /\ opened' = [u \in TableName |-> opened'[u]] /\ opened'[t] = opening.choice
            /\ \A u \in TableName \ {t} : opened'[u] = opened[u]
        <4>1. opened = [u \in TableName |-> opened[u]]
          BY <1>1 DEF Place
        <4> QED
          BY <1>3, <3>1, <3>4, <4>1
      <3>6. Settled(d, t)'
        BY <3>2, <3>3, <3>4, <3>5 DEF Settled
      <3> QED
        BY <1>1, <2>1, <3>1, <3>4, <3>5, <3>6, NextTable
    <2> QED
      BY <2>3, <2>4
  <1> QED
    BY <1>4, <1>5

\* A file changes while the database is opened.
LEMMA ChangeFileKeeps ==
    ASSUME OpenInv, ChangeFile
    PROVE  OpenInv'
  <1>1. /\ Opening /\ left \in 0..1 /\ left > 0 /\ left' = left - 1
        /\ UNCHANGED <<supplied, opening, opened>>
        /\ disks' = disks \cup {disk'}
        /\ disk \in disks /\ disks \subseteq Disk
        /\ supplied.is_dir /\ resolve_v2_dir(supplied)
        /\ Place /\ OneChange
    BY DEF OpenInv, ChangeFile, Opening
  <1>2. left = 1 /\ left' = 0
    BY <1>1
  <1>3. disks = {disk}
    BY <1>1, <1>2 DEF OneChange
  <1>4. PICK f \in OpenedFiles : \E now \in FileState : disk' = [disk EXCEPT ![f] = now]
    BY DEF ChangeFile
  <1>5. disk' \in Disk /\ \A g \in File \ {f} : disk'[g] = disk[g]
    <2>1. disk \in [File -> FileState]
      BY <1>1 DEF Disk
    <2> QED
      BY <1>4, <2>1 DEF Disk
  <1>6. OneChange'
    <2>1. \A d \in disks' : \A g \in File \ {f} : d[g] = disk'[g]
      BY <1>1, <1>3, <1>5
    <2> QED
      BY <1>2, <2>1 DEF OneChange
  <1>7. PICK d \in disks : Found(d)
    BY <1>1 DEF OpenInv
  <1>8. Found(d)'
    <2>1. \A n \in 1..(opening.table - 1) : Settled(d, Tables[n])'
      BY <1>1, <1>7 DEF Found, Settled
    <2>2. ThisTable' = ThisTable /\ ThisChoice' = ThisChoice /\ opening' = opening
      BY <1>1 DEF ThisTable, ThisChoice
    <2> QED
      BY <1>7, <2>1, <2>2 DEF Found
  <1>9. Place'
    <2>1. ThisTable' = ThisTable /\ ThisChoice' = ThisChoice /\ opening' = opening /\ opened' = opened
      BY <1>1 DEF ThisTable, ThisChoice
    <2> QED
      BY <1>1, <2>1 DEF Place
  <1>10. opening.at \in {"checking", "reading"} /\ opening' = opening
    BY <1>1 DEF Opening
  <1>11. OpenedAsAtOneMoment'
    BY <1>10 DEF OpenedAsAtOneMoment
  <1>12. /\ opening' \in OpeningType
         /\ left' \in 0..1 /\ opening'.at # "start"
    BY <1>2, <1>10 DEF OpenInv
  <1>13. /\ disk' \in disks' /\ disks' \subseteq Disk /\ d \in disks'
         /\ supplied'.is_dir /\ resolve_v2_dir(supplied)'
    BY <1>1, <1>5, <1>7 DEF resolve_v2_dir
  <1> QED
    BY <1>6, <1>8, <1>9, <1>11, <1>12, <1>13 DEF OpenInv

\* What comes after the database is opened does not open it again.
LEMMA OpenInvStays ==
    ASSUME OpenInv, UNCHANGED <<supplied, opening, opened, left, disks>>,
           disk' = disk \/ opening.at = "done"
    PROVE  OpenInv'
  <1>1. OpenedAsAtOneMoment'
    <2>1. Vanished' <=> Vanished
      BY DEF Vanished
    <2>2. ASSUME NEW d
          PROVE  OpensTo(d, opening.error, opened)' <=> OpensTo(d, opening.error, opened)
      BY DEF OpensTo, resolve_v2_dir
    <2>3. OpenedAsAtOneMoment
      BY DEF OpenInv
    <2> QED
      BY <2>1, <2>2, <2>3 DEF OpenedAsAtOneMoment
  <1>2. CASE opening.at = "done"
    BY <1>1, <1>2, Ends DEF OpenInv
  <1>3. CASE disk' = disk
    <2>1. ASSUME NEW d
          PROVE  Found(d)' <=> Found(d)
      BY DEF Found, Settled, ThisTable, ThisChoice
    <2>2. (Place' <=> Place) /\ (OneChange' <=> OneChange)
      BY <1>3 DEF Place, OneChange, ThisTable, ThisChoice
    <2> QED
      BY <1>1, <1>3, <2>1, <2>2 DEF OpenInv, Opening, resolve_v2_dir
  <1> QED
    BY <1>2, <1>3

\* Although every file is looked for and opened at another moment, a database is opened as if
\* from the directory at one moment, whatever directory it is, when no more than one file
\* changes meanwhile (open_path, open_v2).
THEOREM OpenedAsAtOneMomentHolds ==
    ASSUME \A b \in Beginnings : b.changes <= 1
    PROVE  StationSpec => []OpenedAsAtOneMoment
  <1>1. StationInit => OpenInv
    <2>1. SUFFICES ASSUME StationInit
                   PROVE  OpenInv
      OBVIOUS
    <2>2. PICK b \in Beginnings : OpenInit(b)
      BY <2>1 DEF StationInit
    <2>3. b.disk \in Disk /\ b.changes \in 0..1
      <3>1. b.disk \in Disk /\ b.changes \in Nat
        BY BeginningsAssumption
      <3>2. b.changes <= 1
        OBVIOUS
      <3> QED
        BY <3>1, <3>2
    <2>4. opening = Step("start", 1, 1, 1) /\ left \in 0..1 /\ disk \in Disk
          /\ opened = [t \in TableName |-> NoTable]
      BY <2>2, <2>3 DEF OpenInit
    <2>5. /\ opening.at = "start"
          /\ opening \in OpeningType
      BY <2>4 DEF Step, OpeningType
    <2> QED
      BY <2>4, <2>5 DEF OpenInv, Opening, OpenedAsAtOneMoment
  <1>2. OpenInv /\ [StationNext]_stationVars => OpenInv'
    <2>1. SUFFICES ASSUME OpenInv, [StationNext]_stationVars
                   PROVE  OpenInv'
      OBVIOUS
    <2>2. CASE OpenPath
      BY <2>1, <2>2, OpenPathKeeps
    <2>3. CASE CheckPresent
      BY <2>1, <2>3, CheckPresentKeeps
    <2>4. CASE CheckAbsent
      BY <2>1, <2>4, CheckAbsentKeeps
    <2>5. CASE Read
      BY <2>1, <2>5, ReadKeeps
    <2>6. CASE ChangeFile
      BY <2>1, <2>6, ChangeFileKeeps
    <2>7. CASE UNCHANGED openVars
      BY <2>1, <2>7, OpenInvStays DEF openVars
    <2>8. CASE ChangeManifest
      BY <2>1, <2>8, OpenInvStays DEF ChangeManifest, IsOpen
    <2>9. AskAssets \/ AskProfile \/ AskMap \/ AskDiagnostics \/ AskCountries => Asking
      BY DEF AskAssets, AskProfile, AskMap, AskDiagnostics, AskCountries
    <2>10. Asking \/ Seen \/ ChangeTree \/ UNCHANGED stationVars => UNCHANGED openVars
      BY DEF Asking, Seen, ChangeTree, stationVars, openVars
    <2> QED
      BY <2>1, <2>2, <2>3, <2>4, <2>5, <2>6, <2>7, <2>8, <2>9, <2>10 DEF StationNext, OpenNext
  <1>3. OpenInv => OpenedAsAtOneMoment
    BY DEF OpenInv
  <1> QED
    BY <1>1, <1>2, <1>3, PTL DEF StationSpec

-----------------------------------------------------------------------------
(* The country of a callsign *)

\* Every table that is open came from one of its choices.
Chosen ==
    /\ opened = [t \in TableName |-> opened[t]]
    /\ \A t \in TableName : opened[t] # NoTable => opened[t] \in DOMAIN Alternatives[t]
    /\ opening \in OpeningType
    /\ Opening => /\ opening.table \in 1..Len(Tables)
                  /\ opening.choice \in DOMAIN Alternatives[ThisTable]

\* The next table has a first choice.
LEMMA AfterIsPlaced ==
    ASSUME NEW n \in 1..Len(Tables)
    PROVE  /\ After(n) \in OpeningType
           /\ After(n).at \in {"checking", "reading"} =>
                 /\ After(n).table \in 1..Len(Tables)
                 /\ After(n).choice \in DOMAIN Alternatives[Tables[After(n).table]]
  <1>1. Len(Tables) = 7
    BY TablesInOrder
  <1>2. CASE n = Len(Tables)
    BY <1>1, <1>2 DEF After, Step, OpeningType
  <1>3. CASE n # Len(Tables)
    <2>1. After(n) = Step("checking", n + 1, 1, 1) /\ n + 1 \in 1..Len(Tables) /\ n + 1 \in Nat
      BY <1>1, <1>3 DEF After
    <2>2. Tables[n + 1] \in TableName
      BY <1>1, <2>1, TablesInOrder
    <2>3. 1 \in DOMAIN Alternatives[Tables[n + 1]]
      BY <2>2, EachHasFiles
    <2> QED
      BY <2>1, <2>3 DEF Step, OpeningType
  <1> QED
    BY <1>2, <1>3

\* No step opens a table from what is none of its choices.
LEMMA ChosenStays ==
    ASSUME Chosen, StationNext \/ UNCHANGED stationVars
    PROVE  Chosen'
  <1>1. CASE opening' = opening /\ opened' = opened
    BY <1>1 DEF Chosen, Opening, ThisTable
  <1>2. CASE OpenPath
    <2>1. opened' = opened
      BY <1>2 DEF OpenPath
    <2>2. CASE opening' = Step("checking", 1, 1, 1)
      <3>1. 1 \in 1..Len(Tables) /\ 1 \in DOMAIN Alternatives[Tables[1]]
        BY TablesInOrder, EachHasFiles
      <3> QED
        BY <2>1, <2>2, <3>1 DEF Chosen, Opening, ThisTable, Step, OpeningType
    <2>3. CASE \E e \in {"DataPathNotFound", "NoDataFiles"} : opening' = Failed(e)
      BY <2>1, <2>3 DEF Chosen, Opening, Failed, Step, OpeningType
    <2> QED
      BY <1>2, <2>2, <2>3 DEF OpenPath
  <1>3. CASE CheckPresent
    <2>1. /\ opened' = opened /\ Opening
          /\ \/ opening' = [opening EXCEPT !.file = @ + 1]
             \/ opening' = [opening EXCEPT !.at = "reading", !.file = 1]
      BY <1>3 DEF CheckPresent, Opening
    <2>2. opening' \in OpeningType /\ opening'.table = opening.table /\ opening'.choice = opening.choice
      <3>1. opening \in OpeningType
        BY DEF Chosen
      <3>2. PICK o : o = opening
        OBVIOUS
      <3>3. \/ opening' = [o EXCEPT !.file = o.file + 1]
            \/ opening' = [o EXCEPT !.at = "reading", !.file = 1]
        BY <2>1, <3>2
      <3>4. CASE opening' = [o EXCEPT !.file = o.file + 1]
        BY <3>1, <3>2, <3>4 DEF OpeningType
      <3>5. CASE opening' = [o EXCEPT !.at = "reading", !.file = 1]
        BY <3>1, <3>2, <3>5 DEF OpeningType
      <3> QED
        BY <3>3, <3>4, <3>5
    <2> QED
      BY <2>1, <2>2 DEF Chosen, ThisTable
  <1>4. CASE CheckAbsent
    <2>1. opened' = opened /\ Opening
      BY <1>4 DEF CheckAbsent, Opening
    <2>2. opening.table \in 1..Len(Tables) /\ opening.choice \in DOMAIN Alternatives[ThisTable]
      BY <2>1 DEF Chosen
    <2>3. /\ ThisTable \in TableName
          /\ Len(Alternatives[ThisTable]) \in Nat
          /\ DOMAIN Alternatives[ThisTable] = 1..Len(Alternatives[ThisTable])
      <3>1. ThisTable \in TableName
        BY <2>2, TablesInOrder DEF ThisTable
      <3> QED
        BY <3>1, EachHasFiles
    <2>4. CASE opening' = Step("checking", opening.table, opening.choice + 1, 1)
               /\ opening.choice < Len(Alternatives[ThisTable])
      <3>1. opening.choice + 1 \in DOMAIN Alternatives[ThisTable] /\ opening.choice + 1 \in Nat
            /\ opening.table \in Nat
        BY <2>2, <2>3, <2>4, TablesInOrder
      <3>2. opening' \in OpeningType /\ opening'.table = opening.table
            /\ opening'.choice = opening.choice + 1
        BY <2>4, <3>1 DEF Step, OpeningType
      <3> QED
        BY <2>1, <2>2, <3>1, <3>2 DEF Chosen, ThisTable
    <2>5. CASE opening' = Failed("NoDataFiles")
      BY <2>1, <2>5 DEF Chosen, Opening, Failed, Step, OpeningType
    <2>6. CASE opening' = After(opening.table)
      BY <2>1, <2>2, <2>6, AfterIsPlaced DEF Chosen, Opening, ThisTable
    <2> QED
      BY <1>4, <2>4, <2>5, <2>6 DEF CheckAbsent, ThisTable
  <1>5. CASE Read
    <2>1. Opening
      BY <1>5 DEF Read, Opening
    <2>2. opening.table \in 1..Len(Tables) /\ opening.choice \in DOMAIN Alternatives[ThisTable]
      BY <2>1 DEF Chosen
    <2>3. CASE opening' = Failed("Io") /\ opened' = opened
      BY <2>3 DEF Chosen, Opening, Failed, Step, OpeningType
    <2>4. CASE opening' = [opening EXCEPT !.file = @ + 1] /\ opened' = opened
      <3>1. /\ opening' \in OpeningType
            /\ opening'.table = opening.table /\ opening'.choice = opening.choice
        BY <2>4 DEF Chosen, OpeningType
      <3> QED
        BY <2>2, <2>4, <3>1 DEF Chosen, ThisTable
    <2>5. CASE /\ opening' = After(opening.table)
               /\ opened' = [opened EXCEPT ![ThisTable] = opening.choice]
      <3>1. opened' = [t \in TableName |-> IF t = ThisTable THEN opening.choice ELSE opened[t]]
        BY <2>5 DEF Chosen
      <3>2. /\ opened' = [t \in TableName |-> opened'[t]]
            /\ \A t \in TableName : opened'[t] # NoTable => opened'[t] \in DOMAIN Alternatives[t]
        BY <2>2, <3>1 DEF Chosen
      <3> QED
        BY <2>2, <2>5, <3>2, AfterIsPlaced DEF Chosen, Opening, ThisTable
    <2> QED
      BY <1>5, <2>3, <2>4, <2>5 DEF Read, ThisTable
  <1>6. AskAssets \/ AskProfile \/ AskMap \/ AskDiagnostics \/ AskCountries => Asking
    BY DEF AskAssets, AskProfile, AskMap, AskDiagnostics, AskCountries
  <1>7. \/ Asking \/ Seen \/ ChangeTree \/ ChangeManifest \/ ChangeFile \/ UNCHANGED stationVars
        => opening' = opening /\ opened' = opened
    BY DEF Asking, Seen, ChangeTree, ChangeManifest, ChangeFile, stationVars, openVars
  <1> QED
    BY <1>1, <1>2, <1>3, <1>4, <1>5, <1>6, <1>7 DEF StationNext, OpenNext

\* An open country table is what one of the files was parsed to.
LEMMA TableIs ==
    ASSUME Chosen, NEW t \in {"countries", "pc_countries"}, Table(t) # None
    PROVE  \E f \in DOMAIN Lines : Table(t) = Some(parse_with_source(Lines[f], f))
  <1>1. opened[t] # NoTable
    BY DEF Table
  <1>2. t \in TableName
    BY DEF TableName, Alternatives
  <1>3. opened[t] \in DOMAIN Alternatives[t]
    BY <1>1, <1>2 DEF Chosen
  <1>4. Alternatives[t][opened[t]][1] \in {"countrys", "gcmcountrys", "COUNTRYS.PC"}
    <2>1. CASE t = "countries"
      BY <1>3, <2>1 DEF Alternatives
    <2>2. CASE t = "pc_countries"
      BY <1>3, <2>2 DEF Alternatives
    <2> QED
      BY <2>1, <2>2
  <1>5. PICK f \in DOMAIN Lines : f = Alternatives[t][opened[t]][1]
    BY <1>4, LinesAssumption
  <1>6. Table(t) = Some(CountryTables[f])
    BY <1>1, <1>5 DEF Table
  <1>7. CountryTables[f] = parse_with_source(Lines[f], f)
    BY DEF CountryTables
  <1> QED
    BY <1>6, <1>7

\* What is found in a table is a country of it, and the walk through all rules finds it.
LEMMA InTableIs ==
    ASSUME Chosen, NEW t \in {"countries", "pc_countries"}, Table(t) # None,
           NEW call \in Callsigns \cup {<<>>}
    PROVE  /\ InTable(t, call) = lookup_linear(Table(t)[1], call)
           /\ InTable(t, call) # None =>
                 \E i \in DOMAIN Table(t)[1] : InTable(t, call) = Some(Table(t)[1][i].country)
           /\ \E f \in DOMAIN Lines : Table(t)[1] \in Seq(RulesOf(Lines[f], f))
  <1>1. PICK f \in DOMAIN Lines : Table(t) = Some(parse_with_source(Lines[f], f))
    BY TableIs
  <1> DEFINE rules == parse_with_source(Lines[f], f)
  <1>2. /\ Len(Lines[f]) \in Nat
        /\ \A i \in 1..Len(Lines[f]) : Lines[f][i].start \in Text /\ Lines[f][i].end \in Text
    BY LinesAssumption, AsciiIsText
  <1>3. rules \in Seq(RulesOf(Lines[f], f))
    BY <1>2, ParsedInOrder
  <1>4. call \in Text
    <2>1. <<>> \in Text
      BY DEF Text
    <2> QED
      BY <2>1, CallsignsAssumption, AsciiIsText
  <1>5. Table(t)[1] = rules
    BY <1>1 DEF Some
  <1>6. InTable(t, call) = lookup_info(rules, call)
    BY <1>5 DEF InTable
  <1>7. lookup_info(rules, call) = lookup_linear(rules, call)
    <2>1. rules \in Seq([start : Prefix, end : Prefix, country : CountriesOf(Lines[f], f)])
      BY <1>3 DEF RulesOf
    <2> HIDE DEF rules
    <2> QED
      BY <1>4, <2>1, IndexedLookupIsLinear
  <1>8. \/ lookup_info(rules, call) = None
        \/ \E i \in DOMAIN rules : lookup_info(rules, call) = Some(rules[i].country)
    BY <1>2, <1>4, LongestPrefixWins
  <1> HIDE DEF rules
  <1> QED
    BY <1>3, <1>5, <1>6, <1>7, <1>8

\* A place from countrys.nam leaves a country its jurisdiction.
LEMMA SameJurisdiction ==
    ASSUME NEW lines, NEW source, NEW info \in CountriesOf(lines, source)
    PROVE  enrich_country_info(info).jurisdiction = info.jurisdiction
  <1>1. PICK i \in 1..Len(lines) : info = parse_country_info(lines[i].rest, source)
    BY DEF CountriesOf
  <1>2. PICK a, b, c, d, x, y, z : info = [name |-> a, cleaned_name |-> b, code |-> c,
                                           jurisdiction |-> d, latitude |-> x, longitude |-> y,
                                           source |-> z]
    BY <1>1 DEF parse_country_info
  <1>3. \A u, v : [info EXCEPT !.latitude = u, !.longitude = v].jurisdiction = info.jurisdiction
    BY <1>2
  <1> DEFINE place == Centroids[info.name]
             here == IF info.latitude = None THEN Some(place.latitude) ELSE info.latitude
             there == IF info.longitude = None THEN Some(place.longitude) ELSE info.longitude
  <1>4. \/ enrich_country_info(info) = info
        \/ enrich_country_info(info) = [info EXCEPT !.latitude = here, !.longitude = there]
    BY DEF enrich_country_info
  <1> HIDE DEF here, there
  <1> QED
    BY <1>3, <1>4

\* The country of a callsign is one of the catalog's records, and its jurisdiction is the one
\* that the callsign's records are given.
LEMMA CountryIsListed ==
    ASSUME Chosen
    PROVE  OneCountry
  <1> DEFINE all(t) == IF Table(t) = None THEN <<>> ELSE records(Table(t)[1])
             listed == all("countries") \o all("pc_countries")
  <1>1. ASSUME NEW t \in {"countries", "pc_countries"}
        PROVE  /\ \E C : all(t) \in Seq(C)
               /\ Table(t) # None => \A i \in DOMAIN Table(t)[1] :
                     i \in DOMAIN all(t) /\ all(t)[i] = Table(t)[1][i].country
    <2>1. CASE Table(t) = None
      <3>1. all(t) \in Seq({})
        BY <2>1
      <3> QED
        BY <2>1, <3>1
    <2>2. CASE Table(t) # None
      <3>1. PICK rules : rules = Table(t)[1]
        OBVIOUS
      <3>2. PICK f \in DOMAIN Lines : rules \in Seq(RulesOf(Lines[f], f))
        BY <2>2, <3>1, InTableIs
      <3> DEFINE R == RulesOf(Lines[f], f)
                 C == {r.country : r \in R}
      <3>3. DOMAIN rules = 1..Len(rules) /\ Len(rules) \in Nat /\ \A i \in DOMAIN rules : rules[i] \in R
        <4> HIDE DEF R
        <4> QED
          BY <3>2 DEF R
      <3>4. all(t) = [i \in 1..Len(rules) |-> rules[i].country]
        BY <2>2, <3>1, <3>3 DEF records
      <3>5. \A i \in 1..Len(rules) : rules[i].country \in C
        BY <3>3
      <3> HIDE DEF R, C, all
      <3>6. all(t) \in Seq(C)
        BY <3>3, <3>4, <3>5
      <3> QED
        BY <3>1, <3>3, <3>4, <3>6
    <2> QED
      BY <2>1, <2>2
  <1>2. CatalogRecords = [k \in DOMAIN listed |-> enrich_country_info(listed[k])]
    BY DEF CatalogRecords
  <1> HIDE DEF all
  <1>3. ASSUME NEW t \in {"countries", "pc_countries"}, NEW i \in DOMAIN all(t)
        PROVE  \E k \in DOMAIN listed : listed[k] = all(t)[i]
    <2>1. PICK C : all("countries") \in Seq(C)
      BY <1>1
    <2>2. PICK D : all("pc_countries") \in Seq(D)
      BY <1>1
    <2>3. PICK p, q : p = all("countries") /\ q = all("pc_countries")
      OBVIOUS
    <2>4. /\ Len(p) \in Nat /\ Len(q) \in Nat /\ DOMAIN p = 1..Len(p) /\ DOMAIN q = 1..Len(q)
          /\ p \in Seq(C \cup D) /\ q \in Seq(C \cup D)
      BY <2>1, <2>2, <2>3
    <2>5. DOMAIN listed = 1..(Len(p) + Len(q))
      BY <2>3, <2>4
    <2>6. CASE t = "countries"
      <3>1. i \in 1..Len(p) /\ i \in DOMAIN listed
        BY <2>3, <2>4, <2>5, <2>6
      <3>2. (p \o q)[i] = p[i]
        BY <2>4, <3>1
      <3> QED
        BY <2>3, <2>6, <3>1, <3>2
    <2>7. CASE t = "pc_countries"
      <3>1. i \in 1..Len(q) /\ Len(p) + i \in DOMAIN listed
        BY <2>3, <2>4, <2>5, <2>7
      <3>2. (p \o q)[Len(p) + i] = q[i]
        BY <2>4, <3>1
      <3> QED
        BY <2>3, <2>7, <3>1, <3>2
    <2> QED
      BY <2>6, <2>7
  <1>4. ASSUME NEW call \in Callsigns \cup {<<>>}
        PROVE  /\ \A t \in {"countries", "pc_countries"} :
                     Table(t) # None => InTable(t, call) = lookup_linear(Table(t)[1], call)
               /\ IF country_info(call) = None THEN classify_callsign(call) = "Unknown"
                  ELSE /\ country_info(call)[1] \in ToSet(CatalogRecords)
                       /\ classify_callsign(call) = country_info(call)[1].jurisdiction
    <2> DEFINE primary == InTable("countries", call)
               found == IF primary # None THEN primary ELSE InTable("pc_countries", call)
    <2>1. \A t \in {"countries", "pc_countries"} :
             Table(t) # None => InTable(t, call) = lookup_linear(Table(t)[1], call)
      BY InTableIs
    <2>2. ASSUME NEW t \in {"countries", "pc_countries"}, InTable(t, call) # None
          PROVE  \E info : /\ InTable(t, call) = Some(info)
                           /\ \E k \in DOMAIN listed : listed[k] = info
                           /\ enrich_country_info(info).jurisdiction = info.jurisdiction
      <3>1. Table(t) # None
        BY <2>2 DEF InTable
      <3>2. PICK rules : rules = Table(t)[1]
        OBVIOUS
      <3>3. PICK i \in DOMAIN rules : InTable(t, call) = Some(rules[i].country)
        BY <2>2, <3>1, <3>2, InTableIs
      <3>4. PICK f \in DOMAIN Lines : rules \in Seq(RulesOf(Lines[f], f))
        BY <3>1, <3>2, InTableIs
      <3>5. rules[i].country \in CountriesOf(Lines[f], f)
        <4>1. rules[i] \in RulesOf(Lines[f], f)
          BY <3>4
        <4> QED
          BY <4>1 DEF RulesOf
      <3>6. enrich_country_info(rules[i].country).jurisdiction = rules[i].country.jurisdiction
        BY <3>5, SameJurisdiction
      <3>7. i \in DOMAIN all(t) /\ all(t)[i] = rules[i].country
        BY <1>1, <3>1, <3>2
      <3>8. \E k \in DOMAIN listed : listed[k] = rules[i].country
        <4> HIDE DEF listed
        <4> QED
          BY <1>3, <3>7
      <3> QED
        BY <3>3, <3>6, <3>8
    <2>3. /\ country_info(call) = IF found = None THEN None ELSE Some(enrich_country_info(found[1]))
          /\ classify_callsign(call) = IF found = None THEN "Unknown" ELSE found[1].jurisdiction
      BY DEF country_info, classify_callsign
    <2>4. found = None \/ \E t \in {"countries", "pc_countries"} :
                              found = InTable(t, call) /\ InTable(t, call) # None
      OBVIOUS
    <2> HIDE DEF found, listed
    <2>5. CASE found = None
      BY <2>1, <2>3, <2>5
    <2>6. CASE found # None
      <3>1. PICK info : /\ found = Some(info)
                        /\ \E k \in DOMAIN listed : listed[k] = info
                        /\ enrich_country_info(info).jurisdiction = info.jurisdiction
        BY <2>2, <2>4, <2>6
      <3>2. found[1] = info
        BY <3>1 DEF Some
      <3>3. /\ country_info(call) = Some(enrich_country_info(info))
            /\ classify_callsign(call) = info.jurisdiction
        BY <2>3, <2>6, <3>2
      <3>4. country_info(call) # None /\ country_info(call)[1] = enrich_country_info(info)
        BY <3>3 DEF Some, None
      <3>5. PICK k \in DOMAIN listed : listed[k] = info
        BY <3>1
      <3>6. enrich_country_info(info) \in ToSet(CatalogRecords)
        BY <1>2, <3>5 DEF ToSet
      <3> QED
        BY <2>1, <3>1, <3>3, <3>4, <3>6
    <2> QED
      BY <2>5, <2>6
  <1> QED
    BY <1>4 DEF OneCountry

\* Whatever the tables' files hold, and from whichever of them a table was opened: the country
\* of a callsign is one of the catalog's records, its jurisdiction is the one of the
\* callsign's records, and the index of first bytes loses no rule (CountryCatalog::
\* lookup_info and records, V2Shard::classify_callsign).
THEOREM OneCountryHolds == StationSpec => []OneCountry
  <1>1. StationInit => Chosen
    <2>1. SUFFICES ASSUME StationInit
                   PROVE  Chosen
      OBVIOUS
    <2>2. PICK b \in Beginnings : OpenInit(b)
      BY <2>1 DEF StationInit
    <2>3. opening = Step("start", 1, 1, 1) /\ opened = [t \in TableName |-> NoTable]
      BY <2>2 DEF OpenInit
    <2> QED
      BY <2>3 DEF Chosen, Opening, Step, OpeningType
  <1>2. Chosen /\ [StationNext]_stationVars => Chosen'
    BY ChosenStays
  <1>3. Chosen => OneCountry
    BY CountryIsListed
  <1> QED
    BY <1>1, <1>2, <1>3, PTL DEF StationSpec

-----------------------------------------------------------------------------
(* Sequences that are put in order *)

\* Nothing is ahead of itself, and of two things one is ahead of the other.
StrictOrder(ahead, things) ==
    /\ \A x \in things : <<x, x>> \notin ahead
    /\ \A x, y, z \in things : <<x, y>> \in ahead /\ <<y, z>> \in ahead => <<x, z>> \in ahead
    /\ \A x, y \in things : x # y => <<x, y>> \in ahead \/ <<y, x>> \in ahead

\* The places of s from which t has its elements, in their order.
TakenFrom(at, t, s, chosen, ahead) ==
    /\ \A n \in DOMAIN t : at[n] \in chosen /\ t[n] = s[at[n]]
    /\ \A i \in chosen : \E n \in DOMAIN t : at[n] = i
    /\ \A n, m \in DOMAIN t : n < m => <<at[n], at[m]>> \in ahead

\* Each chosen place is taken once.
LEMMA ArrangedIs ==
    ASSUME NEW s, NEW chosen, IsFiniteSet(chosen), NEW ahead, StrictOrder(ahead, chosen)
    PROVE  /\ Cardinality(chosen) \in Nat
           /\ DOMAIN Arranged(s, chosen, ahead) = 1..Cardinality(chosen)
           /\ Arranged(s, chosen, ahead) =
                 [n \in 1..Cardinality(chosen) |-> Arranged(s, chosen, ahead)[n]]
           /\ \E at : TakenFrom(at, Arranged(s, chosen, ahead), s, chosen, ahead)
  <1> DEFINE N == Cardinality(chosen)
             before(i) == {j \in chosen : <<j, i>> \in ahead}
             place == [i \in chosen |-> Cardinality(before(i))]
             at == [n \in 1..N |-> CHOOSE i \in chosen : place[i] = n - 1]
  <1>1. N \in Nat
    BY FS_CardinalityType
  <1>2. ASSUME NEW i \in chosen
        PROVE  IsFiniteSet(before(i)) /\ place[i] \in Nat /\ place[i] < N
    <2>1. before(i) \in SUBSET chosen
      OBVIOUS
    <2>2. i \notin before(i)
      BY DEF StrictOrder
    <2>3. place[i] = Cardinality(before(i))
      OBVIOUS
    <2> HIDE DEF before, place
    <2>4. /\ IsFiniteSet(before(i)) /\ Cardinality(before(i)) <= N
          /\ N = Cardinality(before(i)) => chosen = before(i)
      BY <2>1, FS_Subset
    <2>5. Cardinality(before(i)) \in Nat
      BY <2>4, FS_CardinalityType
    <2>6. N # Cardinality(before(i))
      BY <2>2, <2>4
    <2> HIDE DEF N
    <2> QED
      BY <1>1, <2>3, <2>4, <2>5, <2>6
  <1>3. ASSUME NEW i \in chosen, NEW k \in chosen, <<i, k>> \in ahead
        PROVE  place[i] < place[k]
    <2>1. before(i) \in SUBSET before(k)
      BY <1>3 DEF StrictOrder
    <2>2. i \in before(k) /\ i \notin before(i)
      BY <1>3 DEF StrictOrder
    <2>3. place[i] = Cardinality(before(i)) /\ place[k] = Cardinality(before(k))
      OBVIOUS
    <2>4. IsFiniteSet(before(k)) /\ place[i] \in Nat /\ place[k] \in Nat
      BY <1>2
    <2> HIDE DEF before, place
    <2>5. /\ Cardinality(before(i)) <= Cardinality(before(k))
          /\ Cardinality(before(k)) = Cardinality(before(i)) => before(k) = before(i)
      BY <2>1, <2>4, FS_Subset
    <2>6. Cardinality(before(k)) # Cardinality(before(i))
      BY <2>2, <2>5
    <2> QED
      BY <2>3, <2>4, <2>5, <2>6
  <1>4. \A i, k \in chosen : place[i] = place[k] => i = k
    <2>1. SUFFICES ASSUME NEW i \in chosen, NEW k \in chosen, place[i] = place[k], i # k
                   PROVE  FALSE
      OBVIOUS
    <2>2. <<i, k>> \in ahead \/ <<k, i>> \in ahead
      BY <2>1 DEF StrictOrder
    <2>3. place[i] \in Nat /\ place[k] \in Nat
      BY <1>2
    <2> HIDE DEF place
    <2> QED
      BY <1>3, <2>1, <2>2, <2>3
  <1>5. \A n \in 1..N : \E i \in chosen : place[i] = n - 1
    <2> DEFINE T == 0..(N - 1)
    <2>1. place \in Injection(chosen, T)
      <3>1. place \in [chosen -> T]
        BY <1>1, <1>2
      <3> HIDE DEF place, T
      <3> QED
        BY <1>4, <3>1 DEF Injection, IsInjective
    <2>2. IsFiniteSet(T) /\ Cardinality(T) = N
      <3> HIDE DEF N
      <3>1. N - 1 \in Int /\ (0 > N - 1 => N = 0) /\ (N - 1) - 0 + 1 = N
        BY <1>1
      <3> DEFINE b == N - 1
      <3>2. b \in Int /\ (0 > b => N = 0) /\ b - 0 + 1 = N
        BY <3>1
      <3> HIDE DEF b
      <3>3. IsFiniteSet(0..b) /\ Cardinality(0..b) = IF 0 > b THEN 0 ELSE b - 0 + 1
        BY <3>2, FS_Interval
      <3> QED
        BY <3>2, <3>3 DEF b
    <2> HIDE DEF place, T
    <2>3. place \in Surjection(chosen, T)
      BY <2>1, <2>2, FS_Injection
    <2>4. \A n \in 1..N : n - 1 \in T
      <3> HIDE DEF N
      <3> QED
        BY <1>1 DEF T
    <2> QED
      BY <2>3, <2>4 DEF Surjection
  <1>6. \A n \in 1..N : at[n] \in chosen /\ place[at[n]] = n - 1
    <2> HIDE DEF place, N
    <2> QED
      BY <1>5
  <1>7. Arranged(s, chosen, ahead) = [n \in 1..N |-> s[at[n]]]
    BY DEF Arranged
  <1>8. ASSUME NEW i \in chosen
        PROVE  \E n \in 1..N : at[n] = i
    <2>1. place[i] + 1 \in 1..N /\ (place[i] + 1) - 1 = place[i]
      <3> HIDE DEF N, before, place
      <3> QED
        BY <1>1, <1>2
    <2> HIDE DEF N, place, at
    <2> QED
      BY <1>4, <1>6, <2>1
  <1>9. ASSUME NEW n \in 1..N, NEW m \in 1..N, n < m
        PROVE  <<at[n], at[m]>> \in ahead
    <2> HIDE DEF N, place, at
    <2>1. at[n] \in chosen /\ at[m] \in chosen /\ place[at[n]] = n - 1 /\ place[at[m]] = m - 1
      BY <1>6
    <2>2. at[n] # at[m]
      BY <1>1, <1>9, <2>1
    <2>3. <<at[m], at[n]>> \notin ahead
      BY <1>1, <1>3, <1>9, <2>1
    <2> QED
      BY <2>1, <2>2, <2>3 DEF StrictOrder
  <1>10. \A n \in 1..N : at[n] \in chosen
    <2> HIDE DEF N, place
    <2> QED
      BY <1>6
  <1> DEFINE t == Arranged(s, chosen, ahead)
  <1>11. DOMAIN t = 1..N /\ \A n \in 1..N : t[n] = s[at[n]]
    BY <1>7
  <1> HIDE DEF t
  <1>12. t = [n \in 1..N |-> t[n]]
    BY <1>7, <1>11 DEF t
  <1> HIDE DEF at, N
  <1>13. TakenFrom(at, t, s, chosen, ahead)
    BY <1>8, <1>9, <1>10, <1>11 DEF TakenFrom
  <1> QED
    BY <1>1, <1>11, <1>12, <1>13 DEF N, t

\* A sequence's places are finitely many.
LEMMA PlacesFinite ==
    ASSUME NEW X, NEW s \in Seq(X)
    PROVE  /\ Len(s) \in Nat /\ DOMAIN s = 1..Len(s)
           /\ \A i \in DOMAIN s : s[i] \in X
           /\ IsFiniteSet(DOMAIN s) /\ Cardinality(DOMAIN s) = Len(s)
  <1>1. Len(s) \in Nat /\ DOMAIN s = 1..Len(s) /\ \A i \in DOMAIN s : s[i] \in X
    OBVIOUS
  <1>2. IsFiniteSet(1..Len(s)) /\ Cardinality(1..Len(s)) = IF 1 > Len(s) THEN 0 ELSE Len(s) - 1 + 1
    BY <1>1, FS_Interval
  <1> QED
    BY <1>1, <1>2

\* What a sequence has it has at some place.
LEMMA RangeIs ==
    ASSUME NEW X, NEW s \in Seq(X)
    PROVE  \A x : x \in RangeOf(s) <=> \E i \in DOMAIN s : x = s[i]
  <1>1. DOMAIN s = 1..Len(s)
    OBVIOUS
  <1> QED
    BY <1>1 DEF RangeOf

\* What is kept is what was chosen, in the order in which it stood.
LEMMA KeptIs ==
    ASSUME NEW X, NEW s \in Seq(X), NEW chosen \in SUBSET DOMAIN s
    PROVE  /\ Kept(s, chosen) \in Seq(X)
           /\ \A i \in chosen : \E n \in DOMAIN Kept(s, chosen) : Kept(s, chosen)[n] = s[i]
           /\ \A n \in DOMAIN Kept(s, chosen) : \E i \in chosen : Kept(s, chosen)[n] = s[i]
           /\ \A n, m \in DOMAIN Kept(s, chosen) :
                 n < m => \E i, j \in chosen :
                             i < j /\ Kept(s, chosen)[n] = s[i] /\ Kept(s, chosen)[m] = s[j]
  <1> DEFINE ahead == {p \in chosen \X chosen : p[1] < p[2]}
             N == Cardinality(chosen)
  <1>1. /\ IsFiniteSet(DOMAIN s) /\ \A i \in DOMAIN s : s[i] \in X /\ i \in Nat
    BY PlacesFinite
  <1>2. IsFiniteSet(chosen) /\ \A i \in chosen : i \in Nat /\ s[i] \in X
    BY <1>1, FS_Subset
  <1>3. StrictOrder(ahead, chosen)
    BY <1>2 DEF StrictOrder
  <1>4. Kept(s, chosen) = Arranged(s, chosen, ahead)
    BY DEF Kept
  <1>5. \A i, j \in chosen : <<i, j>> \in ahead => i < j
    OBVIOUS
  <1> HIDE DEF ahead
  <1>6. /\ N \in Nat /\ DOMAIN Kept(s, chosen) = 1..N
        /\ Kept(s, chosen) = [n \in 1..N |-> Kept(s, chosen)[n]]
    BY <1>2, <1>3, <1>4, ArrangedIs
  <1>7. PICK at : TakenFrom(at, Kept(s, chosen), s, chosen, ahead)
    BY <1>2, <1>3, <1>4, ArrangedIs
  <1> HIDE DEF N
  <1>8. /\ \A n \in 1..N : at[n] \in chosen /\ Kept(s, chosen)[n] = s[at[n]]
        /\ \A i \in chosen : \E n \in 1..N : at[n] = i
        /\ \A n, m \in 1..N : n < m => <<at[n], at[m]>> \in ahead
    BY <1>6, <1>7 DEF TakenFrom
  <1>9. DOMAIN Kept(s, chosen) = 1..N /\ \A n \in 1..N : Kept(s, chosen)[n] = s[at[n]] /\ at[n] \in chosen
    BY <1>6, <1>8
  <1>10. Kept(s, chosen) \in Seq(X)
    BY <1>2, <1>6, <1>8, <1>9
  <1>11. \A n, m \in 1..N : n < m => at[n] < at[m]
    BY <1>5, <1>8, <1>9
  <1> DEFINE t == Kept(s, chosen)
  <1>12. \A i \in chosen : \E n \in DOMAIN t : t[n] = s[i]
    BY <1>8, <1>9
  <1>13. \A n \in DOMAIN t : \E i \in chosen : t[n] = s[i]
    BY <1>9
  <1>14. \A n, m \in DOMAIN t : n < m => \E i, j \in chosen : i < j /\ t[n] = s[i] /\ t[m] = s[j]
    BY <1>9, <1>11
  <1> HIDE DEF t
  <1> QED
    BY <1>10, <1>12, <1>13, <1>14 DEF t

\* A sorted sequence has the elements that it had before, none of which is ahead of one that
\* stands before it, and has none twice that was there once.
LEMMA SortedIs ==
    ASSUME NEW X, NEW s \in Seq(X), NEW ahead, StrictOrder(ahead, X), NEW less,
           \A i, j \in DOMAIN s : <<i, j>> \in less <=> <<s[i], s[j]>> \in ahead
    PROVE  /\ Sorted(s, less) \in Seq(X)
           /\ RangeOf(Sorted(s, less)) = RangeOf(s)
           /\ \A n, m \in DOMAIN Sorted(s, less) :
                 n < m => <<Sorted(s, less)[m], Sorted(s, less)[n]>> \notin ahead
           /\ (\A i, j \in DOMAIN s : i # j => s[i] # s[j]) =>
                 \A n, m \in DOMAIN Sorted(s, less) :
                    n # m => Sorted(s, less)[n] # Sorted(s, less)[m]
  <1> DEFINE places == DOMAIN s
             order == {p \in places \X places :
                          p \in less \/ (<<p[2], p[1]>> \notin less /\ p[1] < p[2])}
             N == Len(s)
  <1>1. /\ N \in Nat /\ places = 1..N /\ \A i \in places : s[i] \in X
        /\ IsFiniteSet(places) /\ Cardinality(places) = N
    BY PlacesFinite
  <1>2. \A i, j \in places : <<i, j>> \in less <=> <<s[i], s[j]>> \in ahead
    OBVIOUS
  <1>3. \A i, j \in places : <<i, j>> \in order <=> \/ <<i, j>> \in less
                                                    \/ <<j, i>> \notin less /\ i < j
    OBVIOUS
  <1>4. Sorted(s, less) = Arranged(s, places, order)
    BY DEF Sorted
  <1> HIDE DEF order, places, N
  <1>5. StrictOrder(order, places)
    <2>1. \A i \in places : i \in Nat
      BY <1>1
    <2>2. \A i, j \in places : <<i, j>> \notin less /\ <<j, i>> \notin less => s[i] = s[j]
      BY <1>1, <1>2 DEF StrictOrder
    <2>3. \A i \in places : <<i, i>> \notin less
      BY <1>1, <1>2 DEF StrictOrder
    <2>4. ASSUME NEW i \in places, NEW j \in places, NEW k \in places,
                 <<i, j>> \in less, <<j, k>> \in less
          PROVE  <<i, k>> \in less
      <3>1. s[i] \in X /\ s[j] \in X /\ s[k] \in X
        BY <1>1
      <3>2. <<s[i], s[j]>> \in ahead /\ <<s[j], s[k]>> \in ahead
        BY <1>2, <2>4
      <3>3. <<s[i], s[k]>> \in ahead
        BY <3>1, <3>2 DEF StrictOrder
      <3> QED
        BY <1>2, <3>3
    <2>5. ASSUME NEW i \in places
          PROVE  <<i, i>> \notin order
      <3>1. i \in Nat /\ <<i, i>> \notin less
        BY <2>1, <2>3
      <3>2. ~(i < i)
        BY <3>1
      <3> QED
        BY <1>3, <3>1, <3>2
    <2>6. \A i, j \in places : i # j => <<i, j>> \in order \/ <<j, i>> \in order
      BY <1>3, <2>1
    <2>7. ASSUME NEW i \in places, NEW j \in places, NEW k \in places,
                 <<i, j>> \in order, <<j, k>> \in order
          PROVE  <<i, k>> \in order
      <3>1. CASE <<i, j>> \in less /\ <<j, k>> \in less
        <4>1. <<i, k>> \in less
          BY <2>4, <3>1
        <4> QED
          BY <1>3, <4>1
      <3>2. CASE <<i, j>> \in less /\ <<j, k>> \notin less
        <4>1. s[j] = s[k]
          BY <1>3, <2>2, <2>7, <3>2
        <4> QED
          BY <1>2, <1>3, <3>2, <4>1
      <3>3. CASE <<i, j>> \notin less /\ <<j, k>> \in less
        <4>1. s[i] = s[j]
          BY <1>3, <2>2, <2>7, <3>3
        <4> QED
          BY <1>2, <1>3, <3>3, <4>1
      <3>4. CASE <<i, j>> \notin less /\ <<j, k>> \notin less
        <4>1. i < j /\ j < k /\ s[i] = s[j] /\ s[j] = s[k]
          BY <1>3, <2>2, <2>7, <3>4
        <4>2. i < k
          BY <2>1, <4>1
        <4>3. <<k, i>> \notin less
          BY <1>2, <2>3, <4>1
        <4> QED
          BY <1>3, <4>2, <4>3
      <3> QED
        BY <3>1, <3>2, <3>3, <3>4
    <2> QED
      BY <2>5, <2>6, <2>7 DEF StrictOrder
  <1> DEFINE t == Sorted(s, less)
  <1>6. DOMAIN t = 1..N /\ t = [n \in 1..N |-> t[n]]
    <2> DEFINE M == Cardinality(places)
    <2>1. DOMAIN t = 1..M /\ t = [n \in 1..M |-> t[n]]
      BY <1>1, <1>4, <1>5, ArrangedIs
    <2>2. M = N
      BY <1>1
    <2> HIDE DEF M
    <2> QED
      BY <2>1, <2>2
  <1>7. PICK at : TakenFrom(at, t, s, places, order)
    BY <1>1, <1>4, <1>5, ArrangedIs
  <1> HIDE DEF t
  <1>8. /\ \A n \in 1..N : at[n] \in places /\ t[n] = s[at[n]]
        /\ \A i \in places : \E n \in 1..N : at[n] = i
        /\ \A n, m \in 1..N : n < m => <<at[n], at[m]>> \in order
    BY <1>6, <1>7 DEF TakenFrom
  <1>9. DOMAIN t = 1..N /\ \A n \in 1..N : t[n] = s[at[n]]
    BY <1>6, <1>8
  <1>10. t \in Seq(X) /\ Len(t) = N
    <2>1. \A n \in 1..N : s[at[n]] \in X
      BY <1>1, <1>8
    <2>2. t \in Seq(X)
      BY <1>1, <1>6, <1>9, <2>1
    <2> QED
      BY <1>1, <1>9, <2>2
  <1>11. RangeOf(t) = RangeOf(s)
    <2>1. Len(s) = N /\ places = 1..N
      BY <1>1 DEF N
    <2>2. ASSUME NEW x \in RangeOf(t)
          PROVE  x \in RangeOf(s)
      <3>1. PICK n \in 1..N : x = t[n]
        BY <1>9, <1>10, RangeIs
      <3>2. at[n] \in DOMAIN s /\ x = s[at[n]]
        BY <1>8, <3>1 DEF places
      <3> QED
        BY <3>2, RangeIs
    <2>3. ASSUME NEW x \in RangeOf(s)
          PROVE  x \in RangeOf(t)
      <3>1. PICK i \in DOMAIN s : x = s[i]
        BY RangeIs
      <3>2. PICK n \in 1..N : at[n] = i
        BY <1>8, <3>1 DEF places
      <3>3. n \in DOMAIN t /\ x = t[n]
        BY <1>8, <1>9, <3>1, <3>2
      <3> QED
        BY <1>10, <3>3, RangeIs
    <2> QED
      BY <2>2, <2>3
  <1>12. ASSUME NEW n \in 1..N, NEW m \in 1..N, n < m
         PROVE  <<t[m], t[n]>> \notin ahead /\ at[n] # at[m]
    <2>1. <<at[n], at[m]>> \in order /\ at[n] \in places /\ at[m] \in places
      BY <1>8, <1>12
    <2>2. <<at[m], at[n]>> \notin order
      BY <1>5, <2>1 DEF StrictOrder
    <2>3. <<at[m], at[n]>> \notin less /\ at[n] # at[m]
      BY <1>3, <1>5, <2>1, <2>2 DEF StrictOrder
    <2> QED
      BY <1>2, <1>9, <2>1, <2>3
  <1>13. ASSUME \A i, j \in places : i # j => s[i] # s[j], NEW n \in 1..N, NEW m \in 1..N, n # m
         PROVE  t[n] # t[m]
    <2>1. at[n] # at[m]
      <3>1. n < m \/ m < n
        BY <1>1, <1>13
      <3> QED
        BY <1>12, <3>1
    <2> QED
      BY <1>8, <1>9, <1>13, <2>1
  <1>14. /\ \A n, m \in DOMAIN t : n < m => <<t[m], t[n]>> \notin ahead
         /\ (\A i, j \in DOMAIN s : i # j => s[i] # s[j]) =>
               \A n, m \in DOMAIN t : n # m => t[n] # t[m]
    BY <1>9, <1>12, <1>13 DEF places
  <1> QED
    BY <1>10, <1>11, <1>14 DEF t

\* There is one way to put things in order.
LEMMA OneOrder ==
    ASSUME NEW X, NEW s \in Seq(X), NEW t \in Seq(X), NEW ahead, StrictOrder(ahead, X),
           RangeOf(s) = RangeOf(t),
           \A n, m \in DOMAIN s : n < m => <<s[m], s[n]>> \notin ahead /\ s[n] # s[m],
           \A n, m \in DOMAIN t : n < m => <<t[m], t[n]>> \notin ahead /\ t[n] # t[m]
    PROVE  s = t
  <1>1. /\ Len(s) \in Nat /\ DOMAIN s = 1..Len(s) /\ \A i \in DOMAIN s : s[i] \in X
        /\ Len(t) \in Nat /\ DOMAIN t = 1..Len(t) /\ \A i \in DOMAIN t : t[i] \in X
    OBVIOUS
  <1>2. /\ \A n, m \in DOMAIN s : n < m => <<s[n], s[m]>> \in ahead
        /\ \A n, m \in DOMAIN t : n < m => <<t[n], t[m]>> \in ahead
    BY <1>1 DEF StrictOrder
  <1>3. /\ \A n \in DOMAIN s : \E m \in DOMAIN t : s[n] = t[m]
        /\ \A n \in DOMAIN t : \E m \in DOMAIN s : t[n] = s[m]
    BY <1>1 DEF RangeOf
  <1>4. /\ \A i, j \in DOMAIN s : s[i] = s[j] => i = j
        /\ \A i, j \in DOMAIN t : t[i] = t[j] => i = j
    <2>1. /\ \A i, j \in DOMAIN s : i # j => i < j \/ j < i
          /\ \A i, j \in DOMAIN t : i # j => i < j \/ j < i
      BY <1>1
    <2>2. /\ \A x \in X : <<x, x>> \notin ahead
      BY DEF StrictOrder
    <2> QED
      BY <1>1, <1>2, <2>1, <2>2
  <1> DEFINE D == {n \in (DOMAIN s) \cap (DOMAIN t) : s[n] # t[n]}
  <1>5. D = {}
    <2>1. SUFFICES ASSUME D # {} PROVE FALSE
      OBVIOUS
    <2>2. D \in SUBSET Nat
      BY <1>1
    <2>3. PICK n \in D : \A m \in D : n <= m
      <3> HIDE DEF D
      <3> QED
        BY <2>1, <2>2, LeastNumber
    <2>4. /\ n \in DOMAIN s /\ n \in DOMAIN t /\ n \in Nat /\ s[n] # t[n]
          /\ \A j \in 1..(n - 1) : j \in DOMAIN s /\ j \in DOMAIN t /\ s[j] = t[j]
      <3>1. n \in DOMAIN s /\ n \in DOMAIN t /\ n \in Nat /\ s[n] # t[n]
        BY <1>1
      <3>2. \A j \in 1..(n - 1) : j \in DOMAIN s /\ j \in DOMAIN t /\ ~(n <= j)
        BY <1>1, <3>1
      <3> QED
        BY <2>3, <3>1, <3>2
    <2>5. PICK m \in DOMAIN t : s[n] = t[m]
      BY <1>3, <2>4
    <2>6. PICK k \in DOMAIN s : t[n] = s[k]
      BY <1>3, <2>4
    <2> HIDE DEF D
    <2>7. n < m
      <3>1. ~(m \in 1..(n - 1))
        <4>1. SUFFICES ASSUME m \in 1..(n - 1) PROVE FALSE
          OBVIOUS
        <4>2. s[m] = s[n] /\ m \in DOMAIN s /\ m # n
          BY <2>4, <2>5, <4>1
        <4> QED
          BY <1>4, <2>4, <4>2
      <3>2. m # n
        BY <2>4, <2>5
      <3> QED
        BY <1>1, <2>4, <3>1, <3>2
    <2>8. n < k
      <3>1. ~(k \in 1..(n - 1))
        <4>1. SUFFICES ASSUME k \in 1..(n - 1) PROVE FALSE
          OBVIOUS
        <4>2. t[k] = t[n] /\ k \in DOMAIN t /\ k # n
          BY <2>4, <2>6, <4>1
        <4> QED
          BY <1>4, <2>4, <4>2
      <3>2. k # n
        BY <2>4, <2>6
      <3> QED
        BY <1>1, <2>4, <3>1, <3>2
    <2>9. <<t[n], s[n]>> \in ahead /\ <<s[n], t[n]>> \in ahead
      BY <1>2, <2>4, <2>5, <2>6, <2>7, <2>8
    <2>10. s[n] \in X /\ t[n] \in X
      BY <1>1, <2>4
    <2> QED
      BY <2>9, <2>10 DEF StrictOrder
  <1>6. \A n : n \in DOMAIN s /\ n \in DOMAIN t => s[n] = t[n]
    BY <1>5
  <1>7. ~(Len(s) < Len(t))
    <2>1. SUFFICES ASSUME Len(s) < Len(t) PROVE FALSE
      OBVIOUS
    <2> DEFINE n == Len(s) + 1
    <2>2. n \in DOMAIN t /\ n \notin DOMAIN s /\ \A m \in DOMAIN s : m \in DOMAIN t
      BY <1>1, <2>1
    <2> HIDE DEF n
    <2>3. PICK m \in DOMAIN s : t[n] = s[m]
      BY <1>3, <2>2
    <2> QED
      BY <1>4, <1>6, <2>2, <2>3
  <1>8. ~(Len(t) < Len(s))
    <2>1. SUFFICES ASSUME Len(t) < Len(s) PROVE FALSE
      OBVIOUS
    <2> DEFINE n == Len(t) + 1
    <2>2. n \in DOMAIN s /\ n \notin DOMAIN t /\ \A m \in DOMAIN t : m \in DOMAIN s
      BY <1>1, <2>1
    <2> HIDE DEF n
    <2>3. PICK m \in DOMAIN t : s[n] = t[m]
      BY <1>3, <2>2
    <2> QED
      BY <1>4, <1>6, <2>2, <2>3
  <1>9. DOMAIN s = DOMAIN t
    <2> DEFINE n == Len(s)  m == Len(t)
    <2>1. n = m
      <3>1. n \in Nat /\ m \in Nat /\ ~(n < m) /\ ~(m < n)
        BY <1>1, <1>7, <1>8
      <3> HIDE DEF n, m
      <3> QED
        BY <3>1
    <2> QED
      BY <1>1, <2>1
  <1>10. s = [n \in DOMAIN s |-> s[n]] /\ t = [n \in DOMAIN t |-> t[n]]
    OBVIOUS
  <1> QED
    BY <1>6, <1>9, <1>10

-----------------------------------------------------------------------------
(* The order of paths *)

\* The lexical order: the first place where two sequences differ, or where one ends, decides.
DecidesAt(i, a, b, less) ==
    /\ i \in 1..(Len(a) + 1) /\ i \in 1..Len(b)
    /\ \A j \in 1..(i - 1) : a[j] = b[j]
    /\ i <= Len(a) => <<a[i], b[i]>> \in less
Lexical(a, b, less) == \E i \in Nat : DecidesAt(i, a, b, less)

\* The lexical order is strict when that of the elements is.
LEMMA LexicalIsOrder ==
    ASSUME NEW S, NEW less, StrictOrder(less, S)
    PROVE  StrictOrder({p \in Seq(S) \X Seq(S) : Lexical(p[1], p[2], less)}, Seq(S))
  <1>1. \A a \in Seq(S) : Len(a) \in Nat /\ DOMAIN a = 1..Len(a) /\ \A i \in 1..Len(a) : a[i] \in S
    OBVIOUS
  <1>2. ASSUME NEW a \in Seq(S)
        PROVE  ~Lexical(a, a, less)
    <2>1. SUFFICES ASSUME NEW i \in Nat, DecidesAt(i, a, a, less)
                   PROVE  FALSE
      BY DEF Lexical
    <2>2. i \in 1..Len(a) /\ a[i] \in S /\ i <= Len(a)
      BY <1>1, <2>1 DEF DecidesAt
    <2> QED
      BY <2>1, <2>2 DEF DecidesAt, StrictOrder
  <1>3. ASSUME NEW a \in Seq(S), NEW b \in Seq(S), NEW c \in Seq(S),
               Lexical(a, b, less), Lexical(b, c, less)
        PROVE  Lexical(a, c, less)
    <2>1. PICK i \in Nat : DecidesAt(i, a, b, less)
      BY <1>3 DEF Lexical
    <2>2. PICK k \in Nat : DecidesAt(k, b, c, less)
      BY <1>3 DEF Lexical
    <2>3. /\ Len(a) \in Nat /\ Len(b) \in Nat /\ Len(c) \in Nat
          /\ i >= 1 /\ i <= Len(a) + 1 /\ i <= Len(b)
          /\ k >= 1 /\ k <= Len(b) + 1 /\ k <= Len(c)
      BY <1>1, <2>1, <2>2 DEF DecidesAt
    <2>4. /\ \A j \in 1..(i - 1) : a[j] = b[j]
          /\ \A j \in 1..(k - 1) : b[j] = c[j]
          /\ i <= Len(a) => <<a[i], b[i]>> \in less
          /\ k <= Len(b) => <<b[k], c[k]>> \in less
      BY <2>1, <2>2 DEF DecidesAt
    <2>5. CASE i < k
      <3>1. i \in 1..(k - 1) /\ \A j \in 1..(i - 1) : j \in 1..(k - 1)
        BY <2>3, <2>5
      <3>2. \A j \in 1..(i - 1) : a[j] = c[j]
        BY <2>4, <3>1
      <3>3. i <= Len(a) => <<a[i], c[i]>> \in less
        BY <2>4, <3>1
      <3>4. i \in 1..(Len(a) + 1) /\ i \in 1..Len(c)
        BY <2>3, <2>5
      <3>5. DecidesAt(i, a, c, less)
        BY <3>2, <3>3, <3>4 DEF DecidesAt
      <3> QED
        BY <3>5 DEF Lexical
    <2>6. CASE k < i
      <3>1. k \in 1..(i - 1) /\ \A j \in 1..(k - 1) : j \in 1..(i - 1)
        BY <2>3, <2>6
      <3>2. \A j \in 1..(k - 1) : a[j] = c[j]
        BY <2>4, <3>1
      <3>3. <<a[k], c[k]>> \in less
        <4>1. k <= Len(b)
          BY <2>3, <2>6
        <4> QED
          BY <2>4, <3>1, <4>1
      <3>4. k \in 1..(Len(a) + 1) /\ k \in 1..Len(c)
        BY <2>3, <2>6
      <3>5. DecidesAt(k, a, c, less)
        BY <3>2, <3>3, <3>4 DEF DecidesAt
      <3> QED
        BY <3>5 DEF Lexical
    <2>7. CASE i = k
      <3>1. \A j \in 1..(i - 1) : a[j] = c[j]
        BY <2>4, <2>7
      <3>2. ASSUME i <= Len(a)
            PROVE  <<a[i], c[i]>> \in less
        <4>1. a[i] \in S /\ b[i] \in S /\ c[i] \in S
          BY <1>1, <2>3, <2>7, <3>2
        <4>2. <<a[i], b[i]>> \in less /\ <<b[i], c[i]>> \in less
          BY <2>3, <2>4, <2>7, <3>2
        <4> QED
          BY <4>1, <4>2 DEF StrictOrder
      <3>3. i \in 1..(Len(a) + 1) /\ i \in 1..Len(c)
        BY <2>3, <2>7
      <3>4. DecidesAt(i, a, c, less)
        BY <3>1, <3>2, <3>3 DEF DecidesAt
      <3> QED
        BY <3>4 DEF Lexical
    <2> QED
      BY <2>3, <2>5, <2>6, <2>7
  <1>4. ASSUME NEW a \in Seq(S), NEW b \in Seq(S), a # b
        PROVE  Lexical(a, b, less) \/ Lexical(b, a, less)
    <2> DEFINE differ(i) == i > Len(a) \/ i > Len(b) \/ a[i] # b[i]
               D == {i \in Nat : i >= 1 /\ differ(i)}
    <2>1. Len(a) \in Nat /\ Len(b) \in Nat
      BY <1>1
    <2>2. D \in SUBSET Nat /\ D # {}
      <3>1. Len(a) + 1 \in D
        BY <2>1
      <3> QED
        BY <3>1
    <2>3. PICK i \in D : \A j \in D : i <= j
      <3> HIDE DEF D
      <3> QED
        BY <2>2, LeastNumber
    <2>4. i \in Nat /\ i >= 1 /\ differ(i)
      BY <2>3
    <2>5. ASSUME NEW j \in 1..(i - 1)
          PROVE  j \in 1..Len(a) /\ j \in 1..Len(b) /\ a[j] = b[j]
      <3>1. j \in Nat /\ j >= 1 /\ ~(i <= j)
        BY <2>4
      <3>2. ~differ(j)
        <4>1. j \notin D
          BY <2>3, <3>1
        <4> HIDE DEF differ
        <4> QED
          BY <3>1, <4>1
      <3> QED
        BY <2>1, <3>1, <3>2
    <2>6. i <= Len(a) + 1 /\ i <= Len(b) + 1
      <3>1. CASE i = 1
        BY <2>1, <3>1
      <3>2. CASE i # 1
        <4>1. i - 1 \in 1..(i - 1)
          BY <2>4, <3>2
        <4>2. i - 1 \in 1..Len(a) /\ i - 1 \in 1..Len(b)
          BY <2>5, <4>1
        <4> QED
          BY <2>1, <2>4, <4>2
      <3> QED
        BY <3>1, <3>2
    <2> HIDE DEF D
    <2>7. ~(i > Len(a) /\ i > Len(b))
      <3>1. SUFFICES ASSUME i > Len(a), i > Len(b) PROVE FALSE
        OBVIOUS
      <3>2. Len(a) = i - 1 /\ Len(b) = i - 1
        BY <2>1, <2>4, <2>6, <3>1
      <3>3. DOMAIN a = 1..(i - 1) /\ DOMAIN b = 1..(i - 1)
        BY <1>1, <3>2
      <3>4. \A j \in 1..(i - 1) : a[j] = b[j]
        BY <2>5
      <3>5. a = [j \in DOMAIN a |-> a[j]] /\ b = [j \in DOMAIN b |-> b[j]]
        OBVIOUS
      <3> QED
        BY <1>4, <3>3, <3>4, <3>5
    <2>8. CASE i > Len(a)
      <3>1. DecidesAt(i, a, b, less)
        BY <2>1, <2>4, <2>5, <2>6, <2>7, <2>8 DEF DecidesAt
      <3> QED
        BY <2>4, <3>1 DEF Lexical
    <2>9. CASE i > Len(b)
      <3>1. DecidesAt(i, b, a, less)
        BY <2>1, <2>4, <2>5, <2>6, <2>7, <2>9 DEF DecidesAt
      <3> QED
        BY <2>4, <3>1 DEF Lexical
    <2>10. CASE i <= Len(a) /\ i <= Len(b)
      <3>1. i \in 1..Len(a) /\ i \in 1..Len(b) /\ a[i] # b[i]
        BY <2>1, <2>4, <2>10
      <3>2. a[i] \in S /\ b[i] \in S
        BY <1>1, <3>1
      <3>3. i \in 1..(Len(a) + 1) /\ i \in 1..(Len(b) + 1)
        BY <2>1, <2>4, <2>6
      <3>4. CASE <<a[i], b[i]>> \in less
        <4>1. DecidesAt(i, a, b, less)
          BY <2>5, <3>1, <3>3, <3>4 DEF DecidesAt
        <4> QED
          BY <2>4, <4>1 DEF Lexical
      <3>5. CASE <<b[i], a[i]>> \in less
        <4>1. DecidesAt(i, b, a, less)
          BY <2>5, <3>1, <3>3, <3>5 DEF DecidesAt
        <4> QED
          BY <2>4, <4>1 DEF Lexical
      <3> QED
        BY <3>1, <3>2, <3>4, <3>5 DEF StrictOrder
    <2> QED
      BY <2>1, <2>4, <2>8, <2>9, <2>10
  <1> DEFINE order == {p \in Seq(S) \X Seq(S) : Lexical(p[1], p[2], less)}
  <1>5. \A a, b \in Seq(S) : <<a, b>> \in order <=> Lexical(a, b, less)
    OBVIOUS
  <1> HIDE DEF order
  <1>6. StrictOrder(order, Seq(S))
    BY <1>2, <1>3, <1>4, <1>5 DEF StrictOrder
  <1> QED
    BY <1>6 DEF order

\* A sequence is a head of another.
LEMMA HeadIs ==
    ASSUME NEW S, NEW a \in Seq(S), NEW b \in Seq(S), Len(a) <= Len(b)
    PROVE  Take(b, Len(a)) = a <=> \A j \in 1..Len(a) : a[j] = b[j]
  <1>1. Len(a) \in Nat /\ Len(b) \in Nat
    OBVIOUS
  <1>2. Take(b, Len(a)) = SubSeq(b, 1, Len(a))
    <2>1. Len(a) < Len(b) \/ Len(b) = Len(a)
      BY <1>1
    <2> QED
      BY <2>1 DEF Take
  <1> DEFINE n == Len(a)  head == SubSeq(b, 1, n)
  <1>3. n \in Nat /\ n <= Len(b) /\ Len(b) \in Nat
    BY <1>1
  <1>4. DOMAIN a = 1..n
    OBVIOUS
  <1> HIDE DEF n
  <1>5. DOMAIN head = 1..n /\ \A j \in 1..n : head[j] = b[j]
    BY <1>3
  <1>6. head = [j \in 1..n |-> head[j]] /\ a = [j \in 1..n |-> a[j]]
    <2>1. head \in Seq(S)
      BY <1>3
    <2> HIDE DEF head
    <2> QED
      BY <1>4, <1>5, <2>1
  <1> HIDE DEF head
  <1>7. head = a <=> \A j \in 1..n : a[j] = b[j]
    BY <1>5, <1>6
  <1> QED
    BY <1>2, <1>7 DEF n, head

\* Two sequences of which one is before the other at a place, or is a head of it.
LEMMA LexicalIs ==
    ASSUME NEW S, NEW a \in Seq(S), NEW b \in Seq(S), NEW less
    PROVE  Lexical(a, b, less) <=>
              \/ \E i \in DOMAIN a \cap DOMAIN b :
                    /\ <<a[i], b[i]>> \in less
                    /\ \A j \in 1..(i - 1) : a[j] = b[j]
              \/ Len(a) < Len(b) /\ Take(b, Len(a)) = a
  <1>1. Len(a) \in Nat /\ Len(b) \in Nat /\ DOMAIN a = 1..Len(a) /\ DOMAIN b = 1..Len(b)
    OBVIOUS
  <1>2. ASSUME NEW i \in Nat, DecidesAt(i, a, b, less)
        PROVE  \/ \E k \in DOMAIN a \cap DOMAIN b :
                     /\ <<a[k], b[k]>> \in less
                     /\ \A j \in 1..(k - 1) : a[j] = b[j]
               \/ Len(a) < Len(b) /\ Take(b, Len(a)) = a
    <2>1. /\ i >= 1 /\ i <= Len(a) + 1 /\ i <= Len(b)
          /\ \A j \in 1..(i - 1) : a[j] = b[j]
          /\ i <= Len(a) => <<a[i], b[i]>> \in less
      BY <1>1, <1>2 DEF DecidesAt
    <2>2. CASE i <= Len(a)
      <3>1. i \in DOMAIN a \cap DOMAIN b
        BY <1>1, <2>1, <2>2
      <3> QED
        BY <2>1, <2>2, <3>1
    <2>3. CASE i = Len(a) + 1
      <3>1. Len(a) < Len(b) /\ i - 1 = Len(a)
        BY <1>1, <2>1, <2>3
      <3>2. \A j \in 1..Len(a) : a[j] = b[j]
        BY <2>1, <3>1
      <3>3. Len(a) <= Len(b)
        BY <1>1, <3>1
      <3>4. Take(b, Len(a)) = a
        BY <3>2, <3>3, HeadIs
      <3> QED
        BY <3>1, <3>4
    <2>4. i <= Len(a) \/ i = Len(a) + 1
      BY <1>1, <2>1
    <2> QED
      BY <2>2, <2>3, <2>4
  <1>3. ASSUME NEW i \in DOMAIN a \cap DOMAIN b,
               <<a[i], b[i]>> \in less, \A j \in 1..(i - 1) : a[j] = b[j]
        PROVE  Lexical(a, b, less)
    <2>1. i \in Nat /\ i \in 1..(Len(a) + 1) /\ i \in 1..Len(b)
      BY <1>1
    <2>2. DecidesAt(i, a, b, less)
      BY <1>3, <2>1 DEF DecidesAt
    <2> QED
      BY <2>1, <2>2 DEF Lexical
  <1>4. ASSUME Len(a) < Len(b), Take(b, Len(a)) = a
        PROVE  Lexical(a, b, less)
    <2> DEFINE i == Len(a) + 1
    <2>1. i \in Nat /\ i \in 1..(Len(a) + 1) /\ i \in 1..Len(b) /\ ~(i <= Len(a)) /\ i - 1 = Len(a)
      BY <1>1, <1>4
    <2>2. \A j \in 1..Len(a) : a[j] = b[j]
      BY <1>1, <1>4, HeadIs
    <2> HIDE DEF i
    <2>3. DecidesAt(i, a, b, less)
      BY <2>1, <2>2 DEF DecidesAt
    <2> QED
      BY <2>1, <2>3 DEF Lexical
  <1> QED
    BY <1>2, <1>3, <1>4 DEF Lexical

\* Names are in a strict order, and so are paths.
NameOrder == {p \in Text \X Text : Below(p[1], p[2])}
PathOrder == {p \in Seq(Text) \X Seq(Text) : PathBelow(p[1], p[2])}
LEMMA PathsAreOrdered == StrictOrder(PathOrder, Seq(Text))
  <1> DEFINE less == {p \in Byte \X Byte : p[1] < p[2]}
  <1>1. \A x, y \in Byte : <<x, y>> \in less <=> x < y
    OBVIOUS
  <1>2. \A x \in Byte : x \in Nat
    BY ByteIsNat
  <1> HIDE DEF less
  <1>3. StrictOrder(less, Byte)
    <2>1. \A x \in Byte : ~(x < x)
      BY <1>2
    <2>2. \A x, y, z \in Byte : x < y /\ y < z => x < z
      BY <1>2
    <2>3. \A x, y \in Byte : x # y => x < y \/ y < x
      BY <1>2
    <2> QED
      BY <1>1, <2>1, <2>2, <2>3 DEF StrictOrder
  <1>4. ASSUME NEW a \in Text, NEW b \in Text
        PROVE  Below(a, b) <=> Lexical(a, b, less)
    <2>1. a \in Seq(Byte) /\ b \in Seq(Byte)
      BY DEF Text
    <2>2. /\ Len(a) \in Nat /\ Len(b) \in Nat /\ DOMAIN a = 1..Len(a) /\ DOMAIN b = 1..Len(b)
          /\ \A i \in DOMAIN a : a[i] \in Byte
          /\ \A i \in DOMAIN b : b[i] \in Byte
      BY <2>1
    <2>3. Precedes(a, b) <=> \E i \in DOMAIN a \cap DOMAIN b :
                                 /\ <<a[i], b[i]>> \in less
                                 /\ \A j \in 1..(i - 1) : a[j] = b[j]
      <3>1. \A i \in DOMAIN a \cap DOMAIN b : <<a[i], b[i]>> \in less <=> a[i] < b[i]
        BY <1>1, <2>2
      <3> QED
        BY <3>1 DEF Precedes
    <2>4. a # b /\ StartsWith(b, a) <=> Len(a) < Len(b) /\ Take(b, Len(a)) = a
      <3>1. ASSUME a # b, Len(a) <= Len(b), Take(b, Len(a)) = a
            PROVE  Len(a) < Len(b)
        <4> DEFINE n == Len(a)  m == Len(b)
        <4>1. n < m \/ n = m
          <5>1. n \in Nat /\ m \in Nat /\ n <= m
            BY <2>2, <3>1
          <5> HIDE DEF n, m
          <5> QED
            BY ONLY <5>1
        <4>2. SUFFICES ASSUME Len(a) = Len(b) PROVE FALSE
          BY <4>1
        <4>3. \A j \in 1..Len(a) : a[j] = b[j]
          BY <2>1, <3>1, HeadIs
        <4>4. a = [j \in DOMAIN a |-> a[j]] /\ b = [j \in DOMAIN b |-> b[j]]
          BY <2>1
        <4> QED
          BY <2>2, <3>1, <4>2, <4>3, <4>4
      <3>2. Len(a) < Len(b) => a # b /\ Len(a) <= Len(b)
        BY <2>2
      <3> QED
        BY <3>1, <3>2 DEF StartsWith
    <2>5. Precedes(a, b) => a # b
      BY PrecedesIsOrder
    <2>6. Below(a, b) <=> Precedes(a, b) \/ (a # b /\ StartsWith(b, a))
      BY <2>5 DEF Below, AtMost
    <2> QED
      BY <2>1, <2>3, <2>4, <2>6, LexicalIs
  <1>5. StrictOrder({p \in Seq(Byte) \X Seq(Byte) : Lexical(p[1], p[2], less)}, Seq(Byte))
    BY <1>3, LexicalIsOrder
  <1>6. StrictOrder(NameOrder, Text)
    <2>1. NameOrder = {p \in Text \X Text : Lexical(p[1], p[2], less)}
      BY <1>4 DEF NameOrder
    <2> QED
      BY <1>5, <2>1 DEF Text
  <1>7. StrictOrder({p \in Seq(Text) \X Seq(Text) : Lexical(p[1], p[2], NameOrder)}, Seq(Text))
    BY <1>6, LexicalIsOrder
  <1>8. ASSUME NEW a \in Seq(Text), NEW b \in Seq(Text)
        PROVE  PathBelow(a, b) <=> Lexical(a, b, NameOrder)
    <2>1. \A i \in DOMAIN a \cap DOMAIN b : <<a[i], b[i]>> \in NameOrder <=> Below(a[i], b[i])
      BY DEF NameOrder
    <2> QED
      BY <2>1, LexicalIs DEF PathBelow
  <1>9. PathOrder = {p \in Seq(Text) \X Seq(Text) : Lexical(p[1], p[2], NameOrder)}
    BY <1>8 DEF PathOrder
  <1> QED
    BY <1>7, <1>9

-----------------------------------------------------------------------------
(* What is collected *)

AssetKinds == {"Biography", "Photo", "Flag", "Map"}

\* The assets that a question may collect, when keys are those of each kind.
AssetsWith(keys) ==
    {asset_metadata(kind, keys[kind], path) : kind \in AssetKinds, path \in Seq(Text)}
AssetOrder(keys) == {p \in AssetsWith(keys) \X AssetsWith(keys) : ByRankAndPath(p[1], p[2])}

\* Kind and path say which asset it is, and kinds have ranks of their own.
LEMMA AssetIs ==
    ASSUME NEW keys
    PROVE  /\ \A x \in AssetsWith(keys) :
                 /\ x.kind \in AssetKinds /\ x.path \in Seq(Text)
                 /\ cmp_rank[x.kind] \in Nat
           /\ \A x, y \in AssetsWith(keys) : x.kind = y.kind /\ x.path = y.path => x = y
           /\ \A j, k \in AssetKinds : cmp_rank[j] = cmp_rank[k] => j = k
           /\ \A kind \in AssetKinds, path \in Seq(Text) :
                 /\ asset_metadata(kind, keys[kind], path) \in AssetsWith(keys)
                 /\ asset_metadata(kind, keys[kind], path).kind = kind
                 /\ asset_metadata(kind, keys[kind], path).path = path
  <1>1. \A kind \in AssetKinds : cmp_rank[kind] \in Nat
    BY DEF AssetKinds, cmp_rank
  <1>2. \A j, k \in AssetKinds : cmp_rank[j] = cmp_rank[k] => j = k
    BY DEF AssetKinds, cmp_rank
  <1>3. \A x \in AssetsWith(keys) : /\ x.kind \in AssetKinds /\ x.path \in Seq(Text)
                                    /\ x = asset_metadata(x.kind, keys[x.kind], x.path)
    BY DEF AssetsWith, asset_metadata
  <1>4. \A x, y \in AssetsWith(keys) : x.kind = y.kind /\ x.path = y.path => x = y
    BY <1>3
  <1>5. \A kind \in AssetKinds, path \in Seq(Text) :
           /\ asset_metadata(kind, keys[kind], path) \in AssetsWith(keys)
           /\ asset_metadata(kind, keys[kind], path).kind = kind
           /\ asset_metadata(kind, keys[kind], path).path = path
    BY DEF AssetsWith, asset_metadata
  <1> QED
    BY <1>1, <1>2, <1>3, <1>4, <1>5

\* The order by rank and path is strict.
LEMMA AssetsAreOrdered ==
    ASSUME NEW keys
    PROVE  StrictOrder(AssetOrder(keys), AssetsWith(keys))
  <1> DEFINE A == AssetsWith(keys)
             rank(x) == cmp_rank[x.kind]
             path(x, y) == <<x.path, y.path>> \in PathOrder
  <1>1. \A x \in A : rank(x) \in Nat /\ x.kind \in AssetKinds /\ x.path \in Seq(Text)
    BY AssetIs
  <1>2. \A x, y \in A : rank(x) = rank(y) /\ x.path = y.path => x = y
    BY <1>1, AssetIs
  <1>3. \A x, y \in A : path(x, y) <=> PathBelow(x.path, y.path)
    BY <1>1 DEF PathOrder
  <1>4. \A x, y \in A : <<x, y>> \in AssetOrder(keys) <=>
                            rank(x) < rank(y) \/ (rank(x) = rank(y) /\ path(x, y))
    BY <1>3 DEF AssetOrder, ByRankAndPath
  <1>5. /\ \A x \in A : ~path(x, x)
        /\ \A x, y, z \in A : path(x, y) /\ path(y, z) => path(x, z)
        /\ \A x, y \in A : x.path # y.path => path(x, y) \/ path(y, x)
    BY <1>1, PathsAreOrdered DEF StrictOrder
  <1> HIDE DEF A, rank, path
  <1>6. \A x \in A : <<x, x>> \notin AssetOrder(keys)
    <2>1. \A x \in A : ~(rank(x) < rank(x))
      BY <1>1
    <2> QED
      BY <1>4, <1>5, <2>1
  <1>7. ASSUME NEW x \in A, NEW y \in A, NEW z \in A,
               <<x, y>> \in AssetOrder(keys), <<y, z>> \in AssetOrder(keys)
        PROVE  <<x, z>> \in AssetOrder(keys)
    <2>1. /\ rank(x) < rank(y) \/ (rank(x) = rank(y) /\ path(x, y))
          /\ rank(y) < rank(z) \/ (rank(y) = rank(z) /\ path(y, z))
      BY <1>4, <1>7
    <2>2. rank(x) \in Nat /\ rank(y) \in Nat /\ rank(z) \in Nat
      BY <1>1
    <2>3. rank(x) < rank(z) \/ (rank(x) = rank(z) /\ path(x, z))
      BY <1>5, <2>1, <2>2
    <2> QED
      BY <1>4, <2>3
  <1>8. ASSUME NEW x \in A, NEW y \in A, x # y
        PROVE  <<x, y>> \in AssetOrder(keys) \/ <<y, x>> \in AssetOrder(keys)
    <2>1. rank(x) \in Nat /\ rank(y) \in Nat
      BY <1>1
    <2>2. \/ rank(x) < rank(y) \/ rank(y) < rank(x)
          \/ rank(x) = rank(y) /\ x.path # y.path
      BY <1>2, <1>8, <2>1
    <2> QED
      BY <1>4, <1>5, <2>2
  <1> QED
    BY <1>6, <1>7, <1>8 DEF StrictOrder, A

\* Two sequences of the same things.
SameRange(s, t, X) == s \in Seq(X) /\ t \in Seq(X) /\ RangeOf(s) = RangeOf(t)

\* One sequence behind another has what both have.
LEMMA ConcatenationIs ==
    ASSUME NEW X, NEW s \in Seq(X), NEW t \in Seq(X)
    PROVE  s \o t \in Seq(X) /\ RangeOf(s \o t) = RangeOf(s) \cup RangeOf(t)
  <1>1. /\ Len(s) \in Nat /\ Len(t) \in Nat /\ s \o t \in Seq(X) /\ Len(s \o t) = Len(s) + Len(t)
        /\ DOMAIN s = 1..Len(s) /\ DOMAIN t = 1..Len(t) /\ DOMAIN (s \o t) = 1..(Len(s) + Len(t))
    OBVIOUS
  <1>2. /\ \A i \in 1..Len(s) : i \in DOMAIN (s \o t) /\ (s \o t)[i] = s[i]
        /\ \A i \in 1..Len(t) : Len(s) + i \in DOMAIN (s \o t) /\ (s \o t)[Len(s) + i] = t[i]
    BY <1>1
  <1>3. \A i \in DOMAIN (s \o t) : (s \o t)[i] \in RangeOf(s) \cup RangeOf(t)
    <2>1. SUFFICES ASSUME NEW i \in DOMAIN (s \o t)
                   PROVE  (s \o t)[i] \in RangeOf(s) \cup RangeOf(t)
      OBVIOUS
    <2>2. CASE i \in 1..Len(s)
      BY <1>1, <1>2, <2>2, RangeIs
    <2>3. CASE i \notin 1..Len(s)
      <3>1. i - Len(s) \in 1..Len(t) /\ Len(s) + (i - Len(s)) = i
        BY <1>1, <2>1, <2>3
      <3>2. (s \o t)[i] = t[i - Len(s)]
        BY <1>2, <3>1
      <3> QED
        BY <1>1, <3>1, <3>2, RangeIs
    <2> QED
      BY <2>2, <2>3
  <1> DEFINE u == s \o t
  <1>4. u \in Seq(X) /\ \A i \in DOMAIN u : u[i] \in RangeOf(s) \cup RangeOf(t)
    BY <1>1, <1>3
  <1>5. /\ \A i \in DOMAIN s : \E k \in DOMAIN u : u[k] = s[i]
        /\ \A i \in DOMAIN t : \E k \in DOMAIN u : u[k] = t[i]
    BY <1>1, <1>2
  <1> HIDE DEF u
  <1>6. \A x \in RangeOf(u) : x \in RangeOf(s) \cup RangeOf(t)
    BY <1>4, RangeIs
  <1>7. /\ \A x \in RangeOf(s) : x \in RangeOf(u)
        /\ \A x \in RangeOf(t) : x \in RangeOf(u)
    BY <1>4, <1>5, RangeIs
  <1>8. RangeOf(u) = RangeOf(s) \cup RangeOf(t)
    BY <1>6, <1>7
  <1> QED
    BY <1>4, <1>8 DEF u

\* A flattened sequence has what its members have.
LEMMA FlattenedIs ==
    ASSUME NEW X, NEW n \in Nat, NEW lists \in [1..n -> Seq(X)]
    PROVE  /\ Flattened(lists) \in Seq(X)
           /\ \A x : x \in RangeOf(Flattened(lists)) <=> \E i \in 1..n : x \in RangeOf(lists[i])
  <1> DEFINE row(i) == {i} \X (DOMAIN lists[i])
             places == UNION {row(i) : i \in DOMAIN lists}
             s == [p \in places |-> lists[p[1]][p[2]]]
             ahead == {q \in places \X places :
                          \/ q[1][1] < q[2][1]
                          \/ q[1][1] = q[2][1] /\ q[1][2] < q[2][2]}
             t == Arranged(s, places, ahead)
             N == Cardinality(places)
  <1>1. DOMAIN lists = 1..n /\ \A i \in 1..n : lists[i] \in Seq(X)
    OBVIOUS
  <1>2. /\ \A p \in places : /\ p = <<p[1], p[2]>> /\ p[1] \in 1..n /\ p[2] \in DOMAIN lists[p[1]]
        /\ \A i \in 1..n : \A k \in DOMAIN lists[i] : <<i, k>> \in places
    BY <1>1
  <1>3. IsFiniteSet(places)
    <2> DEFINE rows == {row(i) : i \in 1..n}
               f == [i \in 1..n |-> row(i)]
    <2>1. IsFiniteSet(1..n)
      BY FS_Interval
    <2>2. f \in Surjection(1..n, rows)
      <3>1. f \in [1..n -> rows] /\ \A r \in rows : \E i \in 1..n : f[i] = r
        OBVIOUS
      <3> HIDE DEF f, rows
      <3> QED
        BY <3>1 DEF Surjection
    <2>3. IsFiniteSet(rows)
      <3> HIDE DEF f, rows
      <3> QED
        BY <2>1, <2>2, FS_Surjection
    <2>4. ASSUME NEW i \in 1..n
          PROVE  IsFiniteSet(row(i))
      <3>1. IsFiniteSet({i}) /\ IsFiniteSet(DOMAIN lists[i])
        BY <1>1, FS_Singleton, PlacesFinite
      <3> QED
        BY <3>1, FS_Product
    <2>5. \A r \in rows : IsFiniteSet(r)
      BY <2>4
    <2>6. places = UNION rows
      BY <1>1
    <2> HIDE DEF rows, places
    <2> QED
      BY <2>3, <2>5, <2>6, FS_UNION
  <1>4. \A p, q \in places : <<p, q>> \in ahead <=> \/ p[1] < q[1]
                                                    \/ p[1] = q[1] /\ p[2] < q[2]
    OBVIOUS
  <1>5. \A p \in places : s[p] = lists[p[1]][p[2]]
    OBVIOUS
  <1>6. Flattened(lists) = t
    BY DEF Flattened
  <1> HIDE DEF ahead, places, s
  <1>7. \A p \in places : p[1] \in Nat /\ p[2] \in Nat /\ s[p] \in X
    <2>1. SUFFICES ASSUME NEW p \in places
                   PROVE  p[1] \in Nat /\ p[2] \in Nat /\ s[p] \in X
      OBVIOUS
    <2>2. p[1] \in 1..n /\ p[2] \in DOMAIN lists[p[1]] /\ lists[p[1]] \in Seq(X)
      BY <1>1, <1>2
    <2> QED
      BY <1>5, <2>2
  <1>8. StrictOrder(ahead, places)
    <2>1. \A p \in places : <<p, p>> \notin ahead
      <3>1. \A p \in places : ~(p[1] < p[1]) /\ ~(p[2] < p[2])
        BY <1>7
      <3> QED
        BY <1>4, <3>1
    <2>2. ASSUME NEW p \in places, NEW q \in places, NEW r \in places,
                 <<p, q>> \in ahead, <<q, r>> \in ahead
          PROVE  <<p, r>> \in ahead
      <3>1. /\ p[1] < q[1] \/ (p[1] = q[1] /\ p[2] < q[2])
            /\ q[1] < r[1] \/ (q[1] = r[1] /\ q[2] < r[2])
        BY <1>4, <2>2
      <3>2. p[1] < r[1] \/ (p[1] = r[1] /\ p[2] < r[2])
        BY <1>7, <3>1
      <3> QED
        BY <1>4, <3>2
    <2>3. ASSUME NEW p \in places, NEW q \in places, p # q
          PROVE  <<p, q>> \in ahead \/ <<q, p>> \in ahead
      <3>1. p[1] # q[1] \/ p[2] # q[2]
        BY <1>2, <2>3
      <3>2. \/ p[1] < q[1] \/ q[1] < p[1]
            \/ p[1] = q[1] /\ p[2] < q[2]
            \/ q[1] = p[1] /\ q[2] < p[2]
        BY <1>7, <3>1
      <3> QED
        BY <1>4, <3>2
    <2> QED
      BY <2>1, <2>2, <2>3 DEF StrictOrder
  <1>9. N \in Nat /\ DOMAIN t = 1..N /\ t = [k \in 1..N |-> t[k]]
    BY <1>3, <1>8, ArrangedIs
  <1>10. PICK at : TakenFrom(at, t, s, places, ahead)
    BY <1>3, <1>8, ArrangedIs
  <1> HIDE DEF t, N
  <1>11. /\ \A k \in DOMAIN t : at[k] \in places /\ t[k] = s[at[k]]
         /\ \A p \in places : \E k \in DOMAIN t : at[k] = p
    BY <1>10 DEF TakenFrom
  <1>12. t \in Seq(X)
    <2>1. \A k \in 1..N : t[k] \in X
      BY <1>7, <1>9, <1>11
    <2> QED
      BY <1>9, <2>1
  <1>13. ASSUME NEW x \in RangeOf(t)
         PROVE  \E i \in 1..n : x \in RangeOf(lists[i])
    <2>1. PICK k \in DOMAIN t : x = t[k]
      BY <1>12, RangeIs
    <2>2. PICK p \in places : x = lists[p[1]][p[2]]
      BY <1>5, <1>11, <2>1
    <2>3. p[1] \in 1..n /\ p[2] \in DOMAIN lists[p[1]] /\ lists[p[1]] \in Seq(X)
      BY <1>1, <1>2
    <2>4. x \in RangeOf(lists[p[1]])
      BY <2>2, <2>3, RangeIs
    <2> QED
      BY <2>3, <2>4
  <1>14. ASSUME NEW i \in 1..n, NEW x \in RangeOf(lists[i])
         PROVE  x \in RangeOf(t)
    <2>1. PICK k \in DOMAIN lists[i] : x = lists[i][k]
      BY <1>1, RangeIs
    <2> DEFINE p == <<i, k>>
    <2>2. p \in places /\ p[1] = i /\ p[2] = k
      BY <1>2
    <2> HIDE DEF p
    <2>3. PICK m \in DOMAIN t : t[m] = s[p]
      BY <1>11, <2>2
    <2>4. t[m] = x
      BY <1>5, <2>1, <2>2, <2>3
    <2> QED
      BY <1>12, <2>4, RangeIs
  <1> QED
    BY <1>6, <1>12, <1>13, <1>14

\* The files of a root, and those among them that are chosen.
FilesIn(root) == {f \in tree.files : f.root = root}

\* What is known of the directories.
TreeTyped ==
    /\ IsFiniteSet(tree.files)
    /\ \A f \in tree.files : f.path \in Seq(Text) /\ f.path # <<>>
    /\ tree.manifest \in Seq(ManifestLine)
    /\ \A i \in DOMAIN tree.manifest : Len(tree.manifest[i].file) <= 1

\* A listing has the files of each root, all of them.
LEMMA ListingIs ==
    ASSUME TreeTyped, NEW listing \in Listings, NEW root \in Roots
    PROVE  /\ listing[root] \in Seq(FilesIn(root))
           /\ \A f \in FilesIn(root) : \E i \in DOMAIN listing[root] : listing[root][i] = f
  <1> DEFINE S == FilesIn(root)  N == Cardinality(S)  s == listing[root]
  <1>1. IsFiniteSet(S) /\ N \in Nat
    <2>1. S \in SUBSET tree.files
      BY DEF FilesIn
    <2>2. IsFiniteSet(S)
      BY <2>1, FS_Subset DEF TreeTyped
    <2> QED
      BY <2>2, FS_CardinalityType
  <1>2. s \in SetToSeqs(S)
    <2>1. PICK bios \in Orders("bios"), photos \in Orders("photos"),
               flags \in Orders("flags"), maps \in Orders("maps") :
                  listing = [bios |-> bios, photos |-> photos, flags |-> flags, maps |-> maps]
      BY DEF Listings
    <2>2. listing[root] \in Orders(root)
      BY <2>1 DEF Roots
    <2> QED
      BY <2>2 DEF Orders, FilesIn
  <1> HIDE DEF S, s
  <1>3. s \in [1..N -> S] /\ \A i, j \in 1..N : i # j => s[i] # s[j]
    BY <1>2 DEF SetToSeqs
  <1>4. s \in Seq(S)
    <2> HIDE DEF N
    <2> QED
      BY <1>1, <1>3
  <1>5. s \in Injection(1..N, S)
    <2> HIDE DEF N
    <2> QED
      BY <1>3 DEF Injection, IsInjective
  <1>6. Cardinality(1..N) = N
    <2> HIDE DEF N
    <2>1. Cardinality(1..N) = IF 1 > N THEN 0 ELSE N - 1 + 1
      BY <1>1, FS_Interval
    <2> QED
      BY <1>1, <2>1
  <1>7. s \in Surjection(1..N, S)
    <2> DEFINE P == 1..N
    <2>1. s \in Injection(P, S) /\ Cardinality(P) = Cardinality(S)
      BY <1>5, <1>6
    <2> HIDE DEF P
    <2>2. s \in Surjection(P, S)
      BY <1>1, <2>1, FS_Injection
    <2> QED
      BY <2>2 DEF P
  <1> HIDE DEF N
  <1>8. \A f \in S : \E i \in DOMAIN s : s[i] = f
    BY <1>3, <1>7 DEF Surjection
  <1> QED
    BY <1>4, <1>8 DEF S, s

\* A sequence has the assets of these files.
AssetsOf(s, keys, kind, files) ==
    /\ s \in Seq(AssetsWith(keys))
    /\ \A x : x \in RangeOf(s) <=> \E f \in files : x = asset_metadata(kind, keys[kind], f.path)

\* However a directory is listed, what is collected from it are the files that pass.
LEMMA CollectIs ==
    ASSUME TreeTyped, NEW listing \in Listings, NEW keys, NEW kind \in AssetKinds,
           NEW passing \in SUBSET FilesIn(RootOf[kind]),
           NEW chosen \in SUBSET DOMAIN listing[RootOf[kind]],
           \A i \in DOMAIN listing[RootOf[kind]] : i \in chosen <=> listing[RootOf[kind]][i] \in passing
    PROVE  AssetsOf(Collect(listing[RootOf[kind]], chosen, kind, keys[kind]), keys, kind, passing)
  <1> DEFINE root == RootOf[kind]
             files == listing[root]
             F == FilesIn(root)
             found == Kept(files, chosen)
             t == Collect(files, chosen, kind, keys[kind])
             asset(f) == asset_metadata(kind, keys[kind], f.path)
  <1>1. root \in Roots
    BY DEF AssetKinds, RootOf, Roots
  <1>2. files \in Seq(F) /\ \A f \in F : \E i \in DOMAIN files : files[i] = f
    <2> HIDE DEF root
    <2> QED
      BY <1>1, ListingIs
  <1>3. \A f \in F : asset(f) \in AssetsWith(keys)
    <2>1. \A f \in F : f.path \in Seq(Text)
      BY DEF FilesIn, TreeTyped
    <2> QED
      BY <2>1, AssetIs
  <1>4. t = [i \in DOMAIN found |-> asset(found[i])]
    BY DEF Collect
  <1>5. chosen \in SUBSET DOMAIN files /\ \A i \in DOMAIN files : i \in chosen <=> files[i] \in passing
    OBVIOUS
  <1>6. passing \subseteq F
    OBVIOUS
  <1> HIDE DEF files, F, root, asset
  <1>7. /\ found \in Seq(F)
        /\ \A i \in chosen : \E n \in DOMAIN found : found[n] = files[i]
        /\ \A n \in DOMAIN found : \E i \in chosen : found[n] = files[i]
    BY <1>2, <1>5, KeptIs
  <1> HIDE DEF found, t
  <1>8. Len(found) \in Nat /\ DOMAIN found = 1..Len(found) /\ \A n \in DOMAIN found : found[n] \in F
    BY <1>7
  <1>9. t \in Seq(AssetsWith(keys)) /\ DOMAIN t = DOMAIN found
        /\ \A n \in DOMAIN found : t[n] = asset(found[n])
    BY <1>3, <1>4, <1>8
  <1>10. ASSUME NEW x \in RangeOf(t)
         PROVE  \E f \in passing : x = asset(f)
    <2>1. PICK n \in DOMAIN found : x = asset(found[n])
      BY <1>9, RangeIs
    <2>2. found[n] \in passing
      BY <1>5, <1>7
    <2> QED
      BY <2>1, <2>2
  <1>11. ASSUME NEW f \in passing
         PROVE  asset(f) \in RangeOf(t)
    <2>1. PICK i \in DOMAIN files : files[i] = f
      BY <1>2, <1>6
    <2>2. PICK n \in DOMAIN found : found[n] = f
      BY <1>5, <1>7, <2>1
    <2> QED
      BY <1>9, <2>2, RangeIs
  <1> QED
    BY <1>9, <1>10, <1>11 DEF AssetsOf, asset, t, files, root

\* A manifest that is read is a sequence of these.
EntryType == {e \in [callsign : Text, file : Seq(Seq(Part))] : Len(e.file) <= 1}

\* It has no other entries, since every line has at most one path.
LEMMA ManifestIs ==
    ASSUME TreeTyped
    PROVE  parse_photo_manifest(tree.manifest) \in Seq(EntryType)
  <1> DEFINE lines == tree.manifest
             chosen == {i \in DOMAIN lines : ~lines[i].comment /\ lines[i].callsign # <<>>}
             kept == Kept(lines, chosen)
             entry(l) == [callsign |-> to_ascii_uppercase(l.callsign), file |-> l.file]
  <1>1. lines \in Seq(ManifestLine) /\ \A i \in DOMAIN lines : Len(lines[i].file) <= 1
    BY DEF TreeTyped
  <1>2. chosen \in SUBSET DOMAIN lines
    OBVIOUS
  <1>3. parse_photo_manifest(lines) = [i \in DOMAIN kept |-> entry(kept[i])]
    BY DEF parse_photo_manifest
  <1> HIDE DEF lines, chosen
  <1>4. /\ kept \in Seq(ManifestLine)
        /\ \A n \in DOMAIN kept : \E i \in chosen : kept[n] = lines[i]
    BY <1>1, <1>2, KeptIs
  <1> HIDE DEF kept
  <1>5. \A n \in DOMAIN kept : kept[n] \in ManifestLine /\ Len(kept[n].file) <= 1
    BY <1>1, <1>2, <1>4
  <1>6. \A l \in ManifestLine : Len(l.file) <= 1 => entry(l) \in EntryType
    BY UpperCaseText DEF ManifestLine, EntryType
  <1> HIDE DEF entry
  <1>7. Len(kept) \in Nat /\ DOMAIN kept = 1..Len(kept) /\ \A n \in DOMAIN kept : entry(kept[n]) \in EntryType
    BY <1>4, <1>5, <1>6
  <1>8. parse_photo_manifest(lines) \in Seq(EntryType)
    BY <1>3, <1>7
  <1> QED
    BY <1>8 DEF lines

\* The entries of a callsign are entries.
LEMMA PhotoLookupIs ==
    ASSUME NEW entries \in Seq(EntryType), NEW callsign
    PROVE  PhotoLookup(entries, callsign) \in Seq(EntryType)
  <1> DEFINE chosen == {i \in DOMAIN entries : entries[i].callsign = to_ascii_uppercase(callsign)}
  <1>1. chosen \in SUBSET DOMAIN entries /\ PhotoLookup(entries, callsign) = Kept(entries, chosen)
    BY DEF PhotoLookup
  <1> HIDE DEF chosen
  <1> QED
    BY <1>1, KeptIs

\* A path of the manifest that leads to a file ends with a name.
LEMMA RelativeIs ==
    ASSUME NEW file \in Seq(Part)
    PROVE  /\ Parts(file) \in Seq(Part)
           /\ safe_manifest_photo_path(file) # None =>
                 /\ safe_manifest_photo_path(file)[1] \in Seq(Text)
                 /\ Parts(file) # <<>> /\ Len(Parts(file)) \in DOMAIN Parts(file)
                 /\ FileName(Parts(file)).is = "Normal"
                 /\ Len(safe_manifest_photo_path(file)[1]) = Len(Parts(file))
                 /\ FileName(safe_manifest_photo_path(file)[1]) = FileName(Parts(file)).name
  <1> DEFINE chosen == {i \in DOMAIN file : file[i].is # "CurDir"}
             parts == Parts(file)
             names == [i \in DOMAIN parts |-> parts[i].name]
  <1>1. chosen \in SUBSET DOMAIN file /\ parts = Kept(file, chosen)
    BY DEF Parts
  <1> HIDE DEF chosen, parts
  <1>2. parts \in Seq(Part)
    BY <1>1, KeptIs
  <1>3. /\ Len(parts) \in Nat /\ DOMAIN parts = 1..Len(parts)
        /\ \A i \in DOMAIN parts : parts[i].name \in Text
    <2>1. \A i \in DOMAIN parts : parts[i] \in Part
      BY <1>2
    <2>2. \A p \in Part : p.name \in Text
      BY DEF Part
    <2>3. Len(parts) \in Nat /\ DOMAIN parts = 1..Len(parts)
      BY <1>2
    <2> QED
      BY <2>1, <2>2, <2>3
  <1>4. names \in Seq(Text) /\ Len(names) = Len(parts) /\ \A i \in DOMAIN parts : names[i] = parts[i].name
    BY <1>3
  <1>5. safe_manifest_photo_path(file) =
            IF parts = <<>> \/ \E i \in DOMAIN parts : parts[i].is # "Normal"
            THEN None ELSE Some(names)
    BY DEF safe_manifest_photo_path, parts
  <1> HIDE DEF names
  <1>6. ASSUME safe_manifest_photo_path(file) # None
        PROVE  /\ safe_manifest_photo_path(file)[1] = names
               /\ parts # <<>> /\ Len(parts) \in DOMAIN parts
               /\ FileName(parts).is = "Normal" /\ FileName(names) = FileName(parts).name
    <2>1. /\ safe_manifest_photo_path(file) = Some(names)
          /\ parts # <<>> /\ \A i \in DOMAIN parts : parts[i].is = "Normal"
      BY <1>5, <1>6
    <2>2. safe_manifest_photo_path(file)[1] = names
      BY <2>1 DEF Some
    <2>3. Len(parts) \in DOMAIN parts
      BY <1>2, <1>3, <2>1
    <2> QED
      BY <1>4, <2>1, <2>2, <2>3 DEF FileName
  <1> QED
    BY <1>2, <1>4, <1>6 DEF parts

\* The photos that an entry of the manifest stands for.
MeantFiles(relative) == {g \in FilesIn("photos") : Meant(g, relative)}
MeantBy(callsign, file) ==
    LET relative == safe_manifest_photo_path(file)
    IN IF relative = None THEN {}
       ELSE IF \E f \in FilesIn("photos") : f.path = relative[1] /\ f.link # "file"
       THEN {asset_metadata("Photo", callsign, relative[1])}
       ELSE {asset_metadata("Photo", callsign, f.path) :
                f \in MeantFiles(relative[1])}

\* The search through the directories finds the files that are meant.
LEMMA FallbackIs ==
    ASSUME TreeTyped, NEW listing \in Listings, NEW keys, NEW relative
    PROVE  AssetsOf(collect_manifest_photo_fallback(listing, keys["Photo"], relative),
                    keys, "Photo", MeantFiles(relative))
  <1> DEFINE passing == MeantFiles(relative)
             chosen == {i \in DOMAIN listing["photos"] : Meant(listing["photos"][i], relative)}
  <1>1. "Photo" \in AssetKinds /\ RootOf["Photo"] = "photos" /\ "photos" \in Roots
    BY DEF AssetKinds, RootOf, Roots
  <1>2. listing["photos"] \in Seq(FilesIn("photos"))
    BY <1>1, ListingIs
  <1>3. \A i \in DOMAIN listing["photos"] : listing["photos"][i] \in FilesIn("photos")
    BY <1>2
  <1>4. /\ passing \in SUBSET FilesIn("photos")
        /\ chosen \in SUBSET DOMAIN listing["photos"]
        /\ \A i \in DOMAIN listing["photos"] : i \in chosen <=> listing["photos"][i] \in passing
    BY <1>3 DEF MeantFiles
  <1>5. collect_manifest_photo_fallback(listing, keys["Photo"], relative) =
            Collect(listing["photos"], chosen, "Photo", keys["Photo"])
    BY DEF collect_manifest_photo_fallback
  <1> HIDE DEF passing, chosen
  <1>6. AssetsOf(Collect(listing["photos"], chosen, "Photo", keys["Photo"]), keys, "Photo", passing)
    <2>1. PICK kind \in AssetKinds : kind = "Photo"
      BY <1>1
    <2>2. /\ passing \in SUBSET FilesIn(RootOf[kind])
          /\ chosen \in SUBSET DOMAIN listing[RootOf[kind]]
          /\ \A i \in DOMAIN listing[RootOf[kind]] : i \in chosen <=> listing[RootOf[kind]][i] \in passing
      BY <1>1, <1>4, <2>1
    <2>3. AssetsOf(Collect(listing[RootOf[kind]], chosen, kind, keys[kind]), keys, kind, passing)
      BY <2>2, CollectIs
    <2> QED
      BY <1>1, <2>1, <2>3
  <1> QED
    BY <1>5, <1>6 DEF passing

\* Whether a photo is there does not depend on the listing.
LEMMA IsPhotoIs ==
    ASSUME TreeTyped, NEW listing \in Listings, NEW path
    PROVE  IsPhoto(listing, path) <=> \E f \in FilesIn("photos") : f.path = path /\ f.link # "file"
  <1>1. /\ listing["photos"] \in Seq(FilesIn("photos"))
        /\ \A f \in FilesIn("photos") : \E i \in DOMAIN listing["photos"] : listing["photos"][i] = f
    BY ListingIs DEF Roots
  <1>2. \A i \in DOMAIN listing["photos"] : listing["photos"][i] \in FilesIn("photos")
    BY <1>1
  <1> QED
    BY <1>1, <1>2 DEF IsPhoto

\* An entry has the photos that it stands for.
LEMMA EntryPhotosAre ==
    ASSUME TreeTyped, NEW listing \in Listings, NEW keys, NEW file \in Seq(Part)
    PROVE  /\ EntryPhotos(listing, keys["Photo"], file) \in Seq(AssetsWith(keys))
           /\ RangeOf(EntryPhotos(listing, keys["Photo"], file)) = MeantBy(keys["Photo"], file)
  <1> DEFINE relative == safe_manifest_photo_path(file)
             photos == EntryPhotos(listing, keys["Photo"], file)
             path == relative[1]
             there == \E f \in FilesIn("photos") : f.path = path /\ f.link # "file"
             one == asset_metadata("Photo", keys["Photo"], path)
  <1>1. relative # None => path \in Seq(Text)
    BY RelativeIs
  <1>2. IsPhoto(listing, path) <=> there
    BY IsPhotoIs
  <1>3. photos = IF relative = None THEN <<>>
                 ELSE IF IsPhoto(listing, path) THEN <<one>>
                 ELSE collect_manifest_photo_fallback(listing, keys["Photo"], path)
    BY DEF EntryPhotos
  <1>4. MeantBy(keys["Photo"], file) =
            IF relative = None THEN {} ELSE IF there THEN {one}
            ELSE {asset_metadata("Photo", keys["Photo"], f.path) : f \in MeantFiles(path)}
    BY DEF MeantBy
  <1>5. "Photo" \in AssetKinds
    BY DEF AssetKinds
  <1> HIDE DEF relative, photos, path, there, one
  <1>6. CASE relative = None
    <2>1. photos = <<>> /\ MeantBy(keys["Photo"], file) = {}
      BY <1>3, <1>4, <1>6
    <2>2. RangeOf(<<>>) = {}
      BY DEF RangeOf
    <2> QED
      BY <2>1, <2>2 DEF photos
  <1>7. CASE relative # None /\ there
    <2>1. photos = <<one>> /\ MeantBy(keys["Photo"], file) = {one}
      BY <1>2, <1>3, <1>4, <1>7
    <2>2. one \in AssetsWith(keys)
      BY <1>1, <1>5, <1>7, AssetIs DEF one
    <2>3. <<one>> \in Seq(AssetsWith(keys)) /\ RangeOf(<<one>>) = {one}
      BY <2>2 DEF RangeOf
    <2> QED
      BY <2>1, <2>3 DEF photos
  <1>8. CASE relative # None /\ ~there
    <2>1. photos = collect_manifest_photo_fallback(listing, keys["Photo"], path)
      BY <1>2, <1>3, <1>8
    <2>2. MeantBy(keys["Photo"], file) =
              {asset_metadata("Photo", keys["Photo"], f.path) : f \in MeantFiles(path)}
      BY <1>4, <1>8
    <2>3. AssetsOf(photos, keys, "Photo", MeantFiles(path))
      BY <2>1, FallbackIs
    <2>4. /\ photos \in Seq(AssetsWith(keys))
          /\ \A x : x \in RangeOf(photos) <=>
                \E f \in MeantFiles(path) : x = asset_metadata("Photo", keys["Photo"], f.path)
      BY <2>3 DEF AssetsOf
    <2>5. \A x : x \in RangeOf(photos) <=> x \in MeantBy(keys["Photo"], file)
      BY <2>2, <2>4
    <2>6. RangeOf(photos) = MeantBy(keys["Photo"], file)
      BY <2>5
    <2> QED
      BY <2>4, <2>6 DEF photos
  <1> QED
    BY <1>6, <1>7, <1>8

\* The manifest's photos of a callsign are those of its entries.
LEMMA ManifestPhotosAre ==
    ASSUME TreeTyped, NEW listing \in Listings, NEW keys, NEW entries \in Seq(EntryType)
    PROVE  /\ collect_manifest_photos(listing, keys["Photo"], entries) \in Seq(AssetsWith(keys))
           /\ \A x : x \in RangeOf(collect_manifest_photos(listing, keys["Photo"], entries)) <=>
                 \E i \in DOMAIN PhotoLookup(entries, keys["Photo"]) :
                    /\ PhotoLookup(entries, keys["Photo"])[i].file # None
                    /\ x \in MeantBy(keys["Photo"], PhotoLookup(entries, keys["Photo"])[i].file[1])
  <1> DEFINE mine == PhotoLookup(entries, keys["Photo"])
             chosen == {i \in DOMAIN mine : mine[i].file # None}
             named == Kept(mine, chosen)
             lists == [i \in DOMAIN named |-> EntryPhotos(listing, keys["Photo"], named[i].file[1])]
             n == Len(named)
  <1>1. mine \in Seq(EntryType)
    BY PhotoLookupIs
  <1>2. collect_manifest_photos(listing, keys["Photo"], entries) = Flattened(lists)
    BY DEF collect_manifest_photos
  <1>3. chosen \in SUBSET DOMAIN mine
    OBVIOUS
  <1>4. \A i \in DOMAIN mine : i \in chosen <=> mine[i].file # None
    OBVIOUS
  <1> HIDE DEF mine, chosen
  <1>5. /\ named \in Seq(EntryType)
        /\ \A i \in chosen : \E k \in DOMAIN named : named[k] = mine[i]
        /\ \A k \in DOMAIN named : \E i \in chosen : named[k] = mine[i]
    BY <1>1, <1>3, KeptIs
  <1>6. \A e \in EntryType : e.file # None => e.file[1] \in Seq(Part)
    <2>1. SUFFICES ASSUME NEW e \in EntryType, e.file # None
                   PROVE  e.file[1] \in Seq(Part)
      OBVIOUS
    <2>2. e.file \in Seq(Seq(Part)) /\ e.file # <<>>
      BY <2>1 DEF EntryType, None
    <2>3. 1 \in DOMAIN e.file
      BY <2>2
    <2> QED
      BY <2>2, <2>3
  <1>7. \A k \in DOMAIN named : named[k].file[1] \in Seq(Part)
    <2>1. \A k \in DOMAIN named : named[k] \in EntryType
      BY <1>5
    <2> QED
      BY <1>3, <1>4, <1>5, <1>6, <2>1
  <1> HIDE DEF named
  <1>8. n \in Nat /\ DOMAIN named = 1..n
    BY <1>5
  <1> HIDE DEF n
  <1>9. \A k \in 1..n : /\ lists[k] \in Seq(AssetsWith(keys))
                        /\ RangeOf(lists[k]) = MeantBy(keys["Photo"], named[k].file[1])
    BY <1>7, <1>8, EntryPhotosAre
  <1>10. lists \in [1..n -> Seq(AssetsWith(keys))]
    <2>1. DOMAIN lists = 1..n /\ lists = [k \in 1..n |-> lists[k]]
      BY <1>8
    <2> HIDE DEF lists
    <2> QED
      BY <1>9, <2>1
  <1> HIDE DEF lists
  <1>11. /\ Flattened(lists) \in Seq(AssetsWith(keys))
         /\ \A x : x \in RangeOf(Flattened(lists)) <=> \E k \in 1..n : x \in RangeOf(lists[k])
    BY <1>8, <1>10, FlattenedIs
  <1>12. \A x : x \in RangeOf(Flattened(lists)) <=>
                   \E k \in DOMAIN named : x \in MeantBy(keys["Photo"], named[k].file[1])
    BY <1>8, <1>9, <1>11
  <1>13. \A x : x \in RangeOf(Flattened(lists)) <=>
                   \E i \in DOMAIN mine : /\ mine[i].file # None
                                          /\ x \in MeantBy(keys["Photo"], mine[i].file[1])
    <2>1. ASSUME NEW x, NEW k \in DOMAIN named, x \in MeantBy(keys["Photo"], named[k].file[1])
          PROVE  \E i \in DOMAIN mine : /\ mine[i].file # None
                                        /\ x \in MeantBy(keys["Photo"], mine[i].file[1])
      BY <1>3, <1>4, <1>5, <2>1
    <2>2. ASSUME NEW x, NEW i \in DOMAIN mine, mine[i].file # None,
                 x \in MeantBy(keys["Photo"], mine[i].file[1])
          PROVE  \E k \in DOMAIN named : x \in MeantBy(keys["Photo"], named[k].file[1])
      BY <1>4, <1>5, <2>2
    <2> QED
      BY <1>12, <2>1, <2>2
  <1> QED
    BY <1>2, <1>11, <1>13 DEF mine

-----------------------------------------------------------------------------
(* One order of the assets *)

SortedAs(s, X, ahead) ==
    /\ s \in Seq(X)
    /\ \A n, m \in DOMAIN s : n < m => <<s[m], s[n]>> \notin ahead

\* What is sorted by rank and path.
LEMMA ByRankAndPathIs ==
    ASSUME NEW keys, NEW s \in Seq(AssetsWith(keys))
    PROVE  /\ SortedAs(SortedByRankAndPath(s), AssetsWith(keys), AssetOrder(keys))
           /\ RangeOf(SortedByRankAndPath(s)) = RangeOf(s)
  <1> DEFINE X == AssetsWith(keys)
             ahead == AssetOrder(keys)
             less == {p \in (DOMAIN s) \X (DOMAIN s) : ByRankAndPath(s[p[1]], s[p[2]])}
  <1>1. StrictOrder(ahead, X)
    BY AssetsAreOrdered
  <1>2. \A i \in DOMAIN s : s[i] \in X
    OBVIOUS
  <1>3. \A i, j \in DOMAIN s : <<i, j>> \in less <=> <<s[i], s[j]>> \in ahead
    BY <1>2 DEF AssetOrder
  <1>4. SortedByRankAndPath(s) = Sorted(s, less)
    BY DEF SortedByRankAndPath
  <1>5. s \in Seq(X)
    OBVIOUS
  <1> HIDE DEF X, ahead, less
  <1>6. /\ Sorted(s, less) \in Seq(X) /\ RangeOf(Sorted(s, less)) = RangeOf(s)
        /\ \A n, m \in DOMAIN Sorted(s, less) :
              n < m => <<Sorted(s, less)[m], Sorted(s, less)[n]>> \notin ahead
    BY <1>1, <1>3, <1>5, SortedIs
  <1> QED
    BY <1>4, <1>6 DEF SortedAs, X, ahead

\* The first of a kind is the least of that kind.
LEMMA FirstIs ==
    ASSUME NEW keys, NEW s, SortedAs(s, AssetsWith(keys), AssetOrder(keys)), NEW kind
    PROVE  \/ /\ FirstOf(s, kind) = None
              /\ \A x \in RangeOf(s) : x.kind # kind
           \/ \E x \in RangeOf(s) :
                 /\ FirstOf(s, kind) = Some(x) /\ x.kind = kind
                 /\ \A y \in RangeOf(s) : y.kind = kind => <<y, x>> \notin AssetOrder(keys)
  <1> DEFINE X == AssetsWith(keys)
             ahead == AssetOrder(keys)
             places == {i \in DOMAIN s : s[i].kind = kind}
  <1>1. /\ s \in Seq(X) /\ DOMAIN s = 1..Len(s) /\ Len(s) \in Nat
        /\ \A n, m \in DOMAIN s : n < m => <<s[m], s[n]>> \notin ahead
    BY DEF SortedAs
  <1>2. \A x : x \in RangeOf(s) <=> \E i \in DOMAIN s : x = s[i]
    BY <1>1, RangeIs
  <1>3. FirstOf(s, kind) = IF places = {} THEN None ELSE Some(s[Min(places)])
    BY DEF FirstOf
  <1>4. StrictOrder(ahead, X) /\ \A i \in DOMAIN s : s[i] \in X
    BY <1>1, AssetsAreOrdered
  <1>5. CASE places = {}
    <2>1. \A i \in DOMAIN s : s[i].kind # kind
      BY <1>5
    <2> HIDE DEF places
    <2> QED
      BY <1>2, <1>3, <1>5, <2>1
  <1>6. CASE places # {}
    <2>1. places \in SUBSET Nat
      BY <1>1
    <2>2. PICK n \in places : \A m \in places : n <= m
      <3> HIDE DEF places
      <3> QED
        BY <1>6, <2>1, LeastNumber
    <2>3. Min(places) = n
      <3> HIDE DEF places
      <3> QED
        BY <2>1, <2>2, MinIs
    <2>4. n \in DOMAIN s /\ s[n].kind = kind /\ n \in Nat
      BY <1>1
    <2>5. ASSUME NEW y \in RangeOf(s), y.kind = kind
          PROVE  <<y, s[n]>> \notin ahead
      <3>1. PICK m \in DOMAIN s : y = s[m]
        BY <1>2
      <3>2. n <= m /\ m \in Nat
        BY <1>1, <2>2, <2>5, <3>1
      <3>3. CASE n = m
        BY <1>4, <3>1, <3>3 DEF StrictOrder
      <3>4. CASE n # m
        <4>1. n < m
          BY <2>4, <3>2, <3>4
        <4> QED
          BY <1>1, <2>4, <3>1, <4>1
      <3> QED
        BY <3>3, <3>4
    <2>6. FirstOf(s, kind) = Some(s[n]) /\ s[n] \in RangeOf(s)
      <3> HIDE DEF places
      <3> QED
        BY <1>2, <1>3, <1>6, <2>3, <2>4
    <2> QED
      BY <2>4, <2>5, <2>6
  <1> QED
    BY <1>5, <1>6

\* Two sequences of the same assets, sorted alike, have the same first asset of a kind.
LEMMA OneFirst ==
    ASSUME NEW keys, NEW s, NEW t, RangeOf(s) = RangeOf(t),
           SortedAs(s, AssetsWith(keys), AssetOrder(keys)),
           SortedAs(t, AssetsWith(keys), AssetOrder(keys)), NEW kind
    PROVE  FirstOf(s, kind) = FirstOf(t, kind)
  <1> DEFINE X == AssetsWith(keys)
             ahead == AssetOrder(keys)
             R == RangeOf(s)
             least(x, u) == /\ FirstOf(u, kind) = Some(x) /\ x.kind = kind
                            /\ \A y \in R : y.kind = kind => <<y, x>> \notin ahead
  <1>1. /\ \/ FirstOf(s, kind) = None /\ \A x \in R : x.kind # kind
           \/ \E x \in R : least(x, s)
        /\ \/ FirstOf(t, kind) = None /\ \A x \in R : x.kind # kind
           \/ \E x \in R : least(x, t)
    BY FirstIs
  <1>2. StrictOrder(ahead, X)
    BY AssetsAreOrdered
  <1>3. \A x \in R : x \in X
    <2>1. s \in Seq(X) /\ \A i \in DOMAIN s : s[i] \in X
      BY DEF SortedAs
    <2> HIDE DEF X
    <2> QED
      BY <2>1, RangeIs
  <1> HIDE DEF X, ahead, R
  <1>4. ASSUME NEW x \in R, NEW y \in R, least(x, s), least(y, t)
        PROVE  x = y
    <2>1. <<y, x>> \notin ahead /\ <<x, y>> \notin ahead
      BY <1>4
    <2> QED
      BY <1>2, <1>3, <2>1 DEF StrictOrder
  <1>5. CASE \E x \in R : least(x, s)
    <2>1. PICK x \in R : least(x, s)
      BY <1>5
    <2>2. PICK y \in R : least(y, t)
      BY <1>1, <2>1
    <2> QED
      BY <1>4, <2>1, <2>2
  <1>6. CASE ~\E x \in R : least(x, s)
    <2>1. FirstOf(s, kind) = None /\ \A x \in R : x.kind # kind
      BY <1>1, <1>6
    <2> QED
      BY <1>1, <2>1
  <1> QED
    BY <1>5, <1>6

-----------------------------------------------------------------------------
(* The photos in the order of the manifest *)

PhotosWith(keys) == {x \in AssetsWith(keys) : x.kind = "Photo"}
RankOrder(keys, manifest) ==
    {p \in PhotosWith(keys) \X PhotosWith(keys) :
        \/ photo_manifest_rank(p[1], manifest) < photo_manifest_rank(p[2], manifest)
        \/ /\ photo_manifest_rank(p[1], manifest) = photo_manifest_rank(p[2], manifest)
           /\ PathBelow(p[1].path, p[2].path)}

\* The rank of a photo is a number, and 1 in a manifest of which the first entry names it.
LEMMA RankIs ==
    ASSUME NEW manifest \in Seq(EntryType), NEW asset
    PROVE  /\ photo_manifest_rank(asset, manifest) \in Nat
           /\ \A e \in EntryType :
                 /\ manifest = <<e>> /\ e.file # None
                 /\ Parts(e.file[1]) # <<>> /\ FileName(Parts(e.file[1])).is = "Normal"
                 /\ SameName(FileName(Parts(e.file[1])).name, FileName(asset.path))
                 => photo_manifest_rank(asset, manifest) = 1
  <1> DEFINE Naming(e) ==
                 /\ e.file # None
                 /\ LET parts == Parts(e.file[1])
                    IN /\ parts # <<>> /\ FileName(parts).is = "Normal"
                       /\ SameName(FileName(parts).name, FileName(asset.path))
             naming == {i \in DOMAIN manifest : Naming(manifest[i])}
             n == Len(manifest)
             S == naming \cup {n + 1}
  <1>1. photo_manifest_rank(asset, manifest) = Min(S)
    BY DEF photo_manifest_rank
  <1>2. n \in Nat /\ DOMAIN manifest = 1..n
    OBVIOUS
  <1> HIDE DEF n, Naming
  <1>3. S \in SUBSET Nat /\ n + 1 \in S /\ naming \in SUBSET (1..n) /\ \A i \in S : 1 <= i
    BY <1>2
  <1>4. \A i \in 1..n : i \in S <=> Naming(manifest[i])
    BY <1>2
  <1> HIDE DEF S
  <1>5. PICK m \in S : \A i \in S : m <= i
    BY <1>3, LeastNumber
  <1>6. Min(S) = m /\ m \in Nat
    BY <1>3, <1>5, MinIs
  <1>7. ASSUME NEW e \in EntryType, manifest = <<e>>, Naming(e)
        PROVE  m = 1
    <2>1. n = 1 /\ manifest[1] = e
      BY <1>7 DEF n
    <2>2. 1 \in S
      BY <1>4, <1>7, <2>1
    <2>3. m <= 1 /\ 1 <= m
      BY <1>3, <1>5, <2>2
    <2> QED
      BY <1>6, <2>3
  <1>8. \A e \in EntryType :
           /\ manifest = <<e>> /\ e.file # None
           /\ Parts(e.file[1]) # <<>> /\ FileName(Parts(e.file[1])).is = "Normal"
           /\ SameName(FileName(Parts(e.file[1])).name, FileName(asset.path))
           => m = 1
    BY <1>7 DEF Naming
  <1> QED
    BY <1>1, <1>6, <1>8

\* By rank, and then by path: of two photos one is before the other.
LEMMA PhotosAreOrdered ==
    ASSUME NEW keys, NEW manifest \in Seq(EntryType)
    PROVE  StrictOrder(RankOrder(keys, manifest), PhotosWith(keys))
  <1> DEFINE A == PhotosWith(keys)
             rank(x) == photo_manifest_rank(x, manifest)
             path(x, y) == <<x.path, y.path>> \in PathOrder
             order == RankOrder(keys, manifest)
  <1>1. \A x \in A : rank(x) \in Nat
    BY RankIs
  <1>2. \A x \in A : x.path \in Seq(Text)
    BY AssetIs DEF PhotosWith
  <1>3. \A x, y \in A : x.path = y.path => x = y
    BY AssetIs DEF PhotosWith
  <1>4. \A x, y \in A : path(x, y) <=> PathBelow(x.path, y.path)
    BY <1>2 DEF PathOrder
  <1>5. \A x, y \in A : <<x, y>> \in order <=>
                            rank(x) < rank(y) \/ (rank(x) = rank(y) /\ path(x, y))
    BY <1>4 DEF RankOrder
  <1>6. /\ \A x \in A : ~path(x, x)
        /\ \A x, y, z \in A : path(x, y) /\ path(y, z) => path(x, z)
        /\ \A x, y \in A : x.path # y.path => path(x, y) \/ path(y, x)
    BY <1>2, PathsAreOrdered DEF StrictOrder
  <1> HIDE DEF A, rank, path, order
  <1>7. \A x \in A : <<x, x>> \notin order
    <2>1. \A x \in A : ~(rank(x) < rank(x))
      BY <1>1
    <2> QED
      BY <1>5, <1>6, <2>1
  <1>8. ASSUME NEW x \in A, NEW y \in A, NEW z \in A, <<x, y>> \in order, <<y, z>> \in order
        PROVE  <<x, z>> \in order
    <2>1. /\ rank(x) < rank(y) \/ (rank(x) = rank(y) /\ path(x, y))
          /\ rank(y) < rank(z) \/ (rank(y) = rank(z) /\ path(y, z))
      BY <1>5, <1>8
    <2>2. rank(x) \in Nat /\ rank(y) \in Nat /\ rank(z) \in Nat
      BY <1>1
    <2>3. rank(x) < rank(z) \/ (rank(x) = rank(z) /\ path(x, z))
      BY <1>6, <2>1, <2>2
    <2> QED
      BY <1>5, <2>3
  <1>9. ASSUME NEW x \in A, NEW y \in A, x # y
        PROVE  <<x, y>> \in order \/ <<y, x>> \in order
    <2>1. rank(x) \in Nat /\ rank(y) \in Nat
      BY <1>1
    <2>2. \/ rank(x) < rank(y) \/ rank(y) < rank(x)
          \/ rank(x) = rank(y) /\ x.path # y.path
      BY <1>3, <1>9, <2>1
    <2> QED
      BY <1>5, <1>6, <2>2
  <1> QED
    BY <1>7, <1>8, <1>9 DEF StrictOrder, A, order

\* The photos that a profile shows of some assets.
PhotosOf(assets, manifest) ==
    ByManifest(dedup_assets_by_path(OfKind(assets, "Photo")), manifest)

\* They are the photos among the assets, each once, in the order of the manifest.
LEMMA PhotosOfAre ==
    ASSUME NEW keys, NEW manifest \in Seq(EntryType), NEW s \in Seq(AssetsWith(keys))
    PROVE  /\ PhotosOf(s, manifest) \in Seq(PhotosWith(keys))
           /\ \A x : x \in RangeOf(PhotosOf(s, manifest)) <=> x \in RangeOf(s) /\ x.kind = "Photo"
           /\ \A n, m \in DOMAIN PhotosOf(s, manifest) :
                 n < m => /\ <<PhotosOf(s, manifest)[m], PhotosOf(s, manifest)[n]>>
                                \notin RankOrder(keys, manifest)
                          /\ PhotosOf(s, manifest)[n] # PhotosOf(s, manifest)[m]
  <1> DEFINE X == AssetsWith(keys)
             P == PhotosWith(keys)
             order == RankOrder(keys, manifest)
             chosen == {i \in DOMAIN s : s[i].kind = "Photo"}
             t == OfKind(s, "Photo")
             first == {i \in DOMAIN t : \A j \in 1..(i - 1) : t[j].path # t[i].path}
             u == dedup_assets_by_path(t)
             rank == [i \in DOMAIN u |-> photo_manifest_rank(u[i], manifest)]
             less == {p \in (DOMAIN u) \X (DOMAIN u) :
                         \/ rank[p[1]] < rank[p[2]]
                         \/ rank[p[1]] = rank[p[2]] /\ PathBelow(u[p[1]].path, u[p[2]].path)}
             v == ByManifest(u, manifest)
  <1>1. /\ s \in Seq(X) /\ chosen \in SUBSET DOMAIN s /\ t = Kept(s, chosen)
        /\ \A i \in DOMAIN s : i \in chosen <=> s[i].kind = "Photo"
        /\ \A x : x \in P <=> x \in X /\ x.kind = "Photo"
    BY DEF OfKind, PhotosWith
  <1>2. /\ first \in SUBSET DOMAIN t /\ u = Kept(t, first)
        /\ \A i \in DOMAIN t : i \in first <=> \A j \in 1..(i - 1) : t[j].path # t[i].path
    BY DEF dedup_assets_by_path
  <1>3. v = Sorted(u, less)
    BY DEF ByManifest
  <1>4. \A x, y \in P : x.path = y.path => x = y
    BY AssetIs DEF PhotosWith
  <1>5. PhotosOf(s, manifest) = v
    BY DEF PhotosOf
  <1> HIDE DEF X, P, chosen, t, first, u, v
  <1>6. /\ t \in Seq(X)
        /\ \A i \in chosen : \E n \in DOMAIN t : t[n] = s[i]
        /\ \A n \in DOMAIN t : \E i \in chosen : t[n] = s[i]
    BY <1>1, KeptIs
  <1>7. DOMAIN t = 1..Len(t) /\ Len(t) \in Nat /\ \A n \in DOMAIN t : t[n] \in P
    <2>1. DOMAIN t = 1..Len(t) /\ Len(t) \in Nat /\ \A n \in DOMAIN t : t[n] \in X
      BY <1>6
    <2> QED
      BY <1>1, <1>6, <2>1
  <1>8. t \in Seq(P)
    <2>1. t = [n \in DOMAIN t |-> t[n]]
      BY <1>6
    <2> QED
      BY <1>7, <2>1
  <1>9. /\ u \in Seq(P)
        /\ \A i \in first : \E n \in DOMAIN u : u[n] = t[i]
        /\ \A n \in DOMAIN u : \E i \in first : u[n] = t[i]
        /\ \A n, m \in DOMAIN u : n < m => \E i, j \in first : i < j /\ u[n] = t[i] /\ u[m] = t[j]
    BY <1>2, <1>8, KeptIs
  <1>10. /\ DOMAIN u = 1..Len(u) /\ Len(u) \in Nat
         /\ \A i \in DOMAIN u : u[i] \in P
    BY <1>9
  <1>11. \A i, j \in DOMAIN u : i # j => u[i] # u[j]
    <2>1. ASSUME NEW i \in first, NEW j \in first, i < j
          PROVE  t[i] # t[j]
      <3>1. i \in 1..(j - 1)
        BY <1>2, <1>7, <2>1
      <3> QED
        BY <1>2, <3>1
    <2>2. ASSUME NEW i \in DOMAIN u, NEW j \in DOMAIN u, i < j
          PROVE  u[i] # u[j]
      <3>1. PICK k \in first, l \in first : k < l /\ u[i] = t[k] /\ u[j] = t[l]
        BY <1>9, <2>2
      <3> QED
        BY <2>1, <3>1
    <2>3. ASSUME NEW i \in DOMAIN u, NEW j \in DOMAIN u, i # j
          PROVE  i < j \/ j < i
      BY <1>10, <2>3
    <2> QED
      BY <2>2, <2>3
  <1>12. \A i, j \in DOMAIN u : <<i, j>> \in less <=> <<u[i], u[j]>> \in order
    <2>1. ASSUME NEW i \in DOMAIN u, NEW j \in DOMAIN u
          PROVE  <<i, j>> \in less <=> <<u[i], u[j]>> \in order
      <3>1. u[i] \in P /\ u[j] \in P
        BY <1>10
      <3>2. rank[i] = photo_manifest_rank(u[i], manifest) /\ rank[j] = photo_manifest_rank(u[j], manifest)
        OBVIOUS
      <3>3. <<i, j>> \in less <=> \/ rank[i] < rank[j]
                                  \/ rank[i] = rank[j] /\ PathBelow(u[i].path, u[j].path)
        <4> HIDE DEF rank
        <4> QED
          OBVIOUS
      <3> HIDE DEF rank, less
      <3>4. <<u[i], u[j]>> \in order <=>
                \/ photo_manifest_rank(u[i], manifest) < photo_manifest_rank(u[j], manifest)
                \/ /\ photo_manifest_rank(u[i], manifest) = photo_manifest_rank(u[j], manifest)
                   /\ PathBelow(u[i].path, u[j].path)
        BY <3>1 DEF RankOrder, P
      <3> HIDE DEF order
      <3> QED
        BY <3>2, <3>3, <3>4
    <2> QED
      BY <2>1
  <1>13. StrictOrder(order, P)
    BY PhotosAreOrdered DEF P
  <1> HIDE DEF rank, less, order
  <1>14. /\ v \in Seq(P) /\ RangeOf(v) = RangeOf(u)
         /\ \A n, m \in DOMAIN v : n < m => <<v[m], v[n]>> \notin order
         /\ \A n, m \in DOMAIN v : n # m => v[n] # v[m]
    BY <1>3, <1>9, <1>11, <1>12, <1>13, SortedIs
  <1>15. \A n, m \in DOMAIN v : n < m => <<v[m], v[n]>> \notin order /\ v[n] # v[m]
    <2>1. \A n, m \in DOMAIN v : n < m => n # m
      <3>1. \A n \in DOMAIN v : n \in Nat
        BY <1>14
      <3> QED
        BY <3>1
    <2> QED
      BY <1>14, <2>1
  <1>16. ASSUME NEW x \in RangeOf(u)
         PROVE  x \in RangeOf(s) /\ x.kind = "Photo"
    <2>1. PICK n \in DOMAIN u : x = u[n]
      BY <1>9, RangeIs
    <2>2. PICK j \in first : x = t[j]
      BY <1>9, <2>1
    <2>3. j \in DOMAIN t
      BY <1>2
    <2>4. PICK i \in chosen : t[j] = s[i]
      BY <1>6, <2>3
    <2>5. i \in DOMAIN s /\ s[i].kind = "Photo"
      BY <1>1
    <2> QED
      BY <1>1, <2>2, <2>4, <2>5, RangeIs
  <1>17. ASSUME NEW x \in RangeOf(s), x.kind = "Photo"
         PROVE  x \in RangeOf(u)
    <2>1. PICK i \in DOMAIN s : x = s[i]
      BY <1>1, RangeIs
    <2>2. PICK n \in DOMAIN t : t[n] = x
      BY <1>1, <1>6, <1>17, <2>1
    <2> DEFINE same == {k \in DOMAIN t : t[k].path = x.path}
    <2>3. same \in SUBSET Nat /\ same # {}
      BY <1>7, <2>2
    <2>4. PICK k \in same : \A j \in same : k <= j
      <3> HIDE DEF same
      <3> QED
        BY <2>3, LeastNumber
    <2>5. k \in DOMAIN t /\ k \in Nat /\ t[k].path = x.path
      BY <1>7
    <2>6. t[k] = x
      BY <1>4, <1>7, <2>2, <2>5
    <2>7. \A j \in 1..(k - 1) : t[j].path # t[k].path
      <3>1. \A j \in 1..(k - 1) : j \in DOMAIN t /\ ~(k <= j)
        BY <1>7, <2>5
      <3> QED
        BY <2>4, <2>5, <3>1
    <2>8. k \in first
      BY <1>2, <2>5, <2>7
    <2>9. PICK m \in DOMAIN u : u[m] = x
      BY <1>9, <2>6, <2>8
    <2> QED
      BY <1>9, <2>9, RangeIs
  <1> QED
    BY <1>5, <1>14, <1>15, <1>16, <1>17 DEF P, order

\* The same assets in whatever order have the same photos to be shown.
LEMMA OnePhotoOrder ==
    ASSUME NEW keys, NEW manifest \in Seq(EntryType),
           NEW s \in Seq(AssetsWith(keys)), NEW t \in Seq(AssetsWith(keys)), RangeOf(s) = RangeOf(t)
    PROVE  PhotosOf(s, manifest) = PhotosOf(t, manifest)
  <1> DEFINE P == PhotosWith(keys)
             order == RankOrder(keys, manifest)
             u == PhotosOf(s, manifest)
             v == PhotosOf(t, manifest)
  <1>1. /\ u \in Seq(P) /\ \A n, m \in DOMAIN u : n < m => <<u[m], u[n]>> \notin order /\ u[n] # u[m]
        /\ \A x : x \in RangeOf(u) <=> x \in RangeOf(s) /\ x.kind = "Photo"
    BY PhotosOfAre
  <1>2. /\ v \in Seq(P) /\ \A n, m \in DOMAIN v : n < m => <<v[m], v[n]>> \notin order /\ v[n] # v[m]
        /\ \A x : x \in RangeOf(v) <=> x \in RangeOf(t) /\ x.kind = "Photo"
    BY PhotosOfAre
  <1>3. StrictOrder(order, P)
    BY PhotosAreOrdered
  <1> HIDE DEF P, order, u, v
  <1>4. RangeOf(u) = RangeOf(v)
    <2>1. \A x : x \in RangeOf(u) <=> x \in RangeOf(v)
      BY <1>1, <1>2
    <2> QED
      BY <2>1
  <1>5. u = v
    BY <1>1, <1>2, <1>3, <1>4, OneOrder
  <1> QED
    BY <1>5 DEF u, v

-----------------------------------------------------------------------------
(* Two listings of the same directories *)

CallsignKinds == {"Biography", "Photo"}
KeysOf(callsign, country) ==
    [kind \in AssetKinds |-> IF kind \in CallsignKinds THEN callsign ELSE country[1].code[1]]

\* The files about a station or a country.
AssetFiles(kind, keys) ==
    {f \in FilesIn(RootOf[kind]) : IF kind \in CallsignKinds THEN OfCallsign(f, kind, keys[kind])
                                   ELSE OfCountry(f, keys[kind])}
Walk(listing, kind, keys) ==
    IF kind \in CallsignKinds THEN collect_callsign_assets(listing, kind, keys[kind])
    ELSE collect_country_assets(listing, kind, keys[kind])

\* A walk collects all of them.
LEMMA WalkIs ==
    ASSUME TreeTyped, NEW listing \in Listings, NEW keys, NEW kind \in AssetKinds
    PROVE  AssetsOf(Walk(listing, kind, keys), keys, kind, AssetFiles(kind, keys))
  <1> DEFINE files == listing[RootOf[kind]]
             passing == AssetFiles(kind, keys)
             chosen == {i \in DOMAIN files : IF kind \in CallsignKinds
                                             THEN OfCallsign(files[i], kind, keys[kind])
                                             ELSE OfCountry(files[i], keys[kind])}
             root == RootOf[kind]
  <1>1. root \in Roots
    BY DEF AssetKinds, RootOf, Roots
  <1>2. \A i \in DOMAIN files : files[i] \in FilesIn(root)
    <2>1. listing[root] \in Seq(FilesIn(root))
      <3> HIDE DEF root
      <3> QED
        BY <1>1, ListingIs
    <2> QED
      BY <2>1
  <1>3. /\ passing \in SUBSET FilesIn(root) /\ chosen \in SUBSET DOMAIN files
        /\ \A i \in DOMAIN files : i \in chosen <=> files[i] \in passing
    BY <1>2 DEF AssetFiles
  <1>4. Walk(listing, kind, keys) = Collect(files, chosen, kind, keys[kind])
    <2>1. CASE kind \in CallsignKinds
      <3>1. chosen = {i \in DOMAIN files : OfCallsign(files[i], kind, keys[kind])}
        BY <2>1
      <3> QED
        BY <2>1, <3>1 DEF Walk, collect_callsign_assets
    <2>2. CASE kind \notin CallsignKinds
      <3>1. chosen = {i \in DOMAIN files : OfCountry(files[i], keys[kind])}
        BY <2>2
      <3> QED
        BY <2>2, <3>1 DEF Walk, collect_country_assets
    <2> QED
      BY <2>1, <2>2
  <1> HIDE DEF passing, chosen
  <1>5. AssetsOf(Collect(files, chosen, kind, keys[kind]), keys, kind, passing)
    BY <1>3, CollectIs
  <1> QED
    BY <1>4, <1>5 DEF passing

\* What two listings have of the same files is the same.
LEMMA SameAssets ==
    ASSUME NEW keys, NEW kind, NEW files, NEW s, NEW t,
           AssetsOf(s, keys, kind, files), AssetsOf(t, keys, kind, files)
    PROVE  SameRange(s, t, AssetsWith(keys))
  <1>1. s \in Seq(AssetsWith(keys)) /\ t \in Seq(AssetsWith(keys))
    BY DEF AssetsOf
  <1>2. \A x : x \in RangeOf(s) <=> x \in RangeOf(t)
    BY DEF AssetsOf
  <1>3. RangeOf(s) = RangeOf(t)
    BY <1>2
  <1> QED
    BY <1>1, <1>3 DEF SameRange

\* So it is when others are put behind them.
LEMMA SameConcatenation ==
    ASSUME NEW X, NEW s, NEW t, NEW u, NEW v, SameRange(s, t, X), SameRange(u, v, X)
    PROVE  SameRange(s \o u, t \o v, X)
  <1>1. /\ s \in Seq(X) /\ t \in Seq(X) /\ RangeOf(s) = RangeOf(t)
        /\ u \in Seq(X) /\ v \in Seq(X) /\ RangeOf(u) = RangeOf(v)
    BY DEF SameRange
  <1>2. /\ s \o u \in Seq(X) /\ RangeOf(s \o u) = RangeOf(s) \cup RangeOf(u)
        /\ t \o v \in Seq(X) /\ RangeOf(t \o v) = RangeOf(t) \cup RangeOf(v)
    BY <1>1, ConcatenationIs
  <1> QED
    BY <1>1, <1>2 DEF SameRange

\* So it is when they are sorted.
LEMMA SameSorted ==
    ASSUME NEW keys, NEW s, NEW t, SameRange(s, t, AssetsWith(keys))
    PROVE  SameRange(SortedByRankAndPath(s), SortedByRankAndPath(t), AssetsWith(keys))
  <1>1. s \in Seq(AssetsWith(keys)) /\ t \in Seq(AssetsWith(keys)) /\ RangeOf(s) = RangeOf(t)
    BY DEF SameRange
  <1>2. /\ SortedByRankAndPath(s) \in Seq(AssetsWith(keys))
        /\ SortedByRankAndPath(t) \in Seq(AssetsWith(keys))
        /\ RangeOf(SortedByRankAndPath(s)) = RangeOf(s)
        /\ RangeOf(SortedByRankAndPath(t)) = RangeOf(t)
    BY <1>1, ByRankAndPathIs DEF SortedAs
  <1> QED
    BY <1>1, <1>2 DEF SameRange

\* What finds nothing finds nothing either way.
LEMMA NothingIsSame == ASSUME NEW X PROVE SameRange(<<>>, <<>>, X)
  BY DEF SameRange

\* A manifest, or none.
PhotoManifests == {None} \cup {Some(m) : m \in Seq(EntryType)}

\* The files that a profile collects do not depend on the listing; those of the manifest are
\* among them.
LEMMA CollectedAgree ==
    ASSUME TreeTyped, NEW here \in Listings, NEW there \in Listings,
           NEW callsign, NEW country, NEW photos \in PhotoManifests
    PROVE  /\ SameRange(Collected(here, callsign, country, photos),
                        Collected(there, callsign, country, photos),
                        AssetsWith(KeysOf(callsign, country)))
           /\ photos # None =>
                 \A x \in RangeOf(collect_manifest_photos(here, callsign, photos[1])) :
                    x \in RangeOf(Collected(here, callsign, country, photos))
  <1> DEFINE keys == KeysOf(callsign, country)
             X == AssetsWith(keys)
             named(listing) == IF photos = None THEN <<>>
                               ELSE collect_manifest_photos(listing, callsign, photos[1])
  <1>1. /\ keys["Biography"] = callsign /\ keys["Photo"] = callsign
        /\ keys["Flag"] = country[1].code[1] /\ keys["Map"] = country[1].code[1]
    BY DEF KeysOf, AssetKinds, CallsignKinds
  <1>2. \A kind \in AssetKinds : SameRange(Walk(here, kind, keys), Walk(there, kind, keys), X)
    <2> HIDE DEF keys
    <2> QED
      BY WalkIs, SameAssets
  <1>3. SameRange(<<>>, <<>>, X)
    BY NothingIsSame
  <1> HIDE DEF keys, X
  <1>4. SameRange(callsign_assets(here, callsign), callsign_assets(there, callsign), X)
    <2> DEFINE found(listing) == collect_callsign_assets(listing, "Biography", callsign)
                                     \o collect_callsign_assets(listing, "Photo", callsign)
    <2>1. /\ "Biography" \in AssetKinds /\ "Biography" \in CallsignKinds
          /\ "Photo" \in AssetKinds /\ "Photo" \in CallsignKinds
      BY DEF AssetKinds, CallsignKinds
    <2>2. \A listing : /\ Walk(listing, "Biography", keys) =
                                collect_callsign_assets(listing, "Biography", callsign)
                       /\ Walk(listing, "Photo", keys) =
                                collect_callsign_assets(listing, "Photo", callsign)
      BY <1>1, <2>1 DEF Walk
    <2>3. /\ SameRange(collect_callsign_assets(here, "Biography", callsign),
                       collect_callsign_assets(there, "Biography", callsign), X)
          /\ SameRange(collect_callsign_assets(here, "Photo", callsign),
                       collect_callsign_assets(there, "Photo", callsign), X)
      BY <1>2, <2>1, <2>2
    <2>4. SameRange(found(here), found(there), X)
      BY <2>3, SameConcatenation
    <2>5. \A listing : callsign_assets(listing, callsign) =
              IF callsign = <<>> THEN <<>> ELSE SortedByRankAndPath(found(listing))
      BY DEF callsign_assets
    <2> HIDE DEF found
    <2>6. SameRange(SortedByRankAndPath(found(here)), SortedByRankAndPath(found(there)), X)
      BY <2>4, SameSorted DEF X
    <2> QED
      BY <1>3, <2>5, <2>6
  <1>5. SameRange(CountryFiles(here, country), CountryFiles(there, country), X)
    <2> DEFINE code == country[1].code[1]
               found(listing) == collect_country_assets(listing, "Flag", code)
                                     \o collect_country_assets(listing, "Map", code)
    <2>1. /\ "Flag" \in AssetKinds /\ "Flag" \notin CallsignKinds
          /\ "Map" \in AssetKinds /\ "Map" \notin CallsignKinds
      BY DEF AssetKinds, CallsignKinds
    <2>2. \A listing : /\ Walk(listing, "Flag", keys) = collect_country_assets(listing, "Flag", code)
                       /\ Walk(listing, "Map", keys) = collect_country_assets(listing, "Map", code)
      BY <1>1, <2>1 DEF Walk
    <2>3. /\ SameRange(collect_country_assets(here, "Flag", code),
                       collect_country_assets(there, "Flag", code), X)
          /\ SameRange(collect_country_assets(here, "Map", code),
                       collect_country_assets(there, "Map", code), X)
      BY <1>2, <2>1, <2>2
    <2>4. SameRange(found(here), found(there), X)
      BY <2>3, SameConcatenation
    <2>5. \A listing : CountryFiles(listing, country) =
              IF country = None \/ country[1].code = None THEN <<>> ELSE found(listing)
      BY DEF CountryFiles
    <2> HIDE DEF found
    <2> QED
      BY <1>3, <2>4, <2>5
  <1>6. SameRange(named(here), named(there), X)
    <2>1. CASE photos = None
      BY <1>3, <2>1
    <2>2. CASE photos # None
      <3>1. PICK m \in Seq(EntryType) : photos = Some(m)
        BY <2>2 DEF PhotoManifests
      <3>2. photos[1] = m
        BY <3>1 DEF Some
      <3> DEFINE from(listing) == collect_manifest_photos(listing, keys["Photo"], m)
                 named_(x) == \E i \in DOMAIN PhotoLookup(m, keys["Photo"]) :
                    /\ PhotoLookup(m, keys["Photo"])[i].file # None
                    /\ x \in MeantBy(keys["Photo"], PhotoLookup(m, keys["Photo"])[i].file[1])
      <3>3. \A listing \in Listings : /\ from(listing) \in Seq(AssetsWith(keys))
                                      /\ \A x : x \in RangeOf(from(listing)) <=> named_(x)
        BY ManifestPhotosAre
      <3>4. named(here) = from(here) /\ named(there) = from(there)
        BY <1>1, <2>2, <3>2
      <3> HIDE DEF from, named_
      <3>5. from(here) \in Seq(X) /\ from(there) \in Seq(X)
        BY <3>3 DEF X
      <3>6. \A x : x \in RangeOf(from(here)) <=> x \in RangeOf(from(there))
        BY <3>3
      <3>7. RangeOf(from(here)) = RangeOf(from(there))
        BY <3>6
      <3> QED
        BY <3>4, <3>5, <3>7 DEF SameRange
    <2> QED
      BY <2>1, <2>2
  <1>7. /\ Collected(here, callsign, country, photos) =
              callsign_assets(here, callsign) \o named(here) \o CountryFiles(here, country)
        /\ Collected(there, callsign, country, photos) =
              callsign_assets(there, callsign) \o named(there) \o CountryFiles(there, country)
    BY DEF Collected
  <1> HIDE DEF named
  <1>8. SameRange(callsign_assets(here, callsign) \o named(here),
                  callsign_assets(there, callsign) \o named(there), X)
    BY <1>4, <1>6, SameConcatenation
  <1>9. SameRange(callsign_assets(here, callsign) \o named(here) \o CountryFiles(here, country),
                  callsign_assets(there, callsign) \o named(there) \o CountryFiles(there, country), X)
    BY <1>5, <1>8, SameConcatenation
  <1>10. SameRange(Collected(here, callsign, country, photos),
                   Collected(there, callsign, country, photos), X)
    BY <1>7, <1>9, Zenon
  <1>11. \A x \in RangeOf(named(here)) : x \in RangeOf(Collected(here, callsign, country, photos))
    <2> DEFINE a == callsign_assets(here, callsign)
               b == named(here)
               c == CountryFiles(here, country)
    <2>1. a \in Seq(X) /\ b \in Seq(X) /\ c \in Seq(X)
      BY <1>4, <1>5, <1>6 DEF SameRange
    <2>2. Collected(here, callsign, country, photos) = (a \o b) \o c
      BY <1>7
    <2> HIDE DEF a, b, c
    <2> DEFINE d == a \o b
    <2>3. d \in Seq(X) /\ RangeOf(d) = RangeOf(a) \cup RangeOf(b)
      BY <2>1, ConcatenationIs
    <2> HIDE DEF d
    <2>4. RangeOf(d \o c) = RangeOf(d) \cup RangeOf(c)
      BY <2>1, <2>3, ConcatenationIs
    <2> QED
      BY <2>2, <2>3, <2>4 DEF b, d
  <1> QED
    BY <1>10, <1>11 DEF X, keys, named

\* What the manifest has for a callsign, if there is one.
ManifestOf(photos, callsign) == IF photos = None THEN <<>> ELSE PhotoLookup(photos[1], callsign)

\* It has entries of the manifest only.
LEMMA ManifestOfIs ==
    ASSUME NEW photos \in PhotoManifests, NEW callsign
    PROVE  ManifestOf(photos, callsign) \in Seq(EntryType)
  <1>1. CASE photos = None
    BY <1>1 DEF ManifestOf
  <1>2. CASE photos # None
    <2>1. PICK m \in Seq(EntryType) : photos = Some(m)
      BY <1>2 DEF PhotoManifests
    <2>2. photos[1] = m
      BY <2>1 DEF Some
    <2> QED
      BY <1>2, <2>2, PhotoLookupIs DEF ManifestOf
  <1> QED
    BY <1>1, <1>2

\* A profile's assets, with what is collected and the manifest by their names.
LEMMA ProfileIs ==
    ASSUME NEW listing, NEW callsign, NEW country, NEW photos, NEW assets,
           assets = SortedByRankAndPath(Collected(listing, callsign, country, photos))
    PROVE  profile_assets(listing, callsign, country, photos) =
              [photos |-> PhotosOf(assets, ManifestOf(photos, callsign)),
               bio |-> FirstOf(assets, "Biography"),
               country_flag |-> FirstOf(assets, "Flag"),
               country_map |-> FirstOf(assets, "Map")]
  BY DEF profile_assets, PhotosOf, ManifestOf

\* The order of the listings makes no difference for a profile.
LEMMA ProfilesAgree ==
    ASSUME TreeTyped, NEW here \in Listings, NEW there \in Listings,
           NEW callsign, NEW country, NEW photos \in PhotoManifests
    PROVE  profile_assets(here, callsign, country, photos) =
              profile_assets(there, callsign, country, photos)
  <1> DEFINE keys == KeysOf(callsign, country)
             X == AssetsWith(keys)
             ahead == AssetOrder(keys)
             c == Collected(here, callsign, country, photos)
             d == Collected(there, callsign, country, photos)
             s == SortedByRankAndPath(c)
             t == SortedByRankAndPath(d)
             manifest == ManifestOf(photos, callsign)
  <1>1. SameRange(c, d, X)
    BY CollectedAgree
  <1>2. manifest \in Seq(EntryType)
    BY ManifestOfIs
  <1>3. profile_assets(here, callsign, country, photos) =
            [photos |-> PhotosOf(s, manifest), bio |-> FirstOf(s, "Biography"),
             country_flag |-> FirstOf(s, "Flag"), country_map |-> FirstOf(s, "Map")]
    BY ProfileIs
  <1>4. profile_assets(there, callsign, country, photos) =
            [photos |-> PhotosOf(t, manifest), bio |-> FirstOf(t, "Biography"),
             country_flag |-> FirstOf(t, "Flag"), country_map |-> FirstOf(t, "Map")]
    BY ProfileIs
  <1> HIDE DEF keys, c, d, manifest
  <1>5. c \in Seq(X) /\ d \in Seq(X) /\ RangeOf(c) = RangeOf(d)
    BY <1>1 DEF SameRange
  <1>6. /\ SortedAs(s, X, ahead) /\ SortedAs(t, X, ahead)
        /\ RangeOf(s) = RangeOf(c) /\ RangeOf(t) = RangeOf(d)
    BY <1>5, ByRankAndPathIs
  <1> HIDE DEF s, t
  <1>7. \A kind : FirstOf(s, kind) = FirstOf(t, kind)
    BY <1>5, <1>6, OneFirst
  <1>8. s \in Seq(X) /\ t \in Seq(X) /\ RangeOf(s) = RangeOf(t)
    BY <1>5, <1>6 DEF SortedAs
  <1>9. PhotosOf(s, manifest) = PhotosOf(t, manifest)
    BY <1>2, <1>8, OnePhotoOrder
  <1> QED
    BY <1>3, <1>4, <1>7, <1>9

\* Each photo of a profile is there once, those that the manifest names before the others, and
\* every photo that is collected is there.
LEMMA ProfilePhotosAre ==
    ASSUME TreeTyped, NEW listing \in Listings,
           NEW callsign, NEW country, NEW photos \in PhotoManifests, NEW shown,
           shown = profile_assets(listing, callsign, country, photos)
    PROVE  /\ \A i, j \in DOMAIN shown.photos :
                 i < j => /\ shown.photos[i].path # shown.photos[j].path
                          /\ photo_manifest_rank(shown.photos[i], ManifestOf(photos, callsign))
                                <= photo_manifest_rank(shown.photos[j], ManifestOf(photos, callsign))
           /\ \A x \in RangeOf(Collected(listing, callsign, country, photos)) :
                 x.kind = "Photo" => \E k \in DOMAIN shown.photos : shown.photos[k] = x
  <1> DEFINE keys == KeysOf(callsign, country)
             X == AssetsWith(keys)
             P == PhotosWith(keys)
             c == Collected(listing, callsign, country, photos)
             s == SortedByRankAndPath(c)
             manifest == ManifestOf(photos, callsign)
             order == RankOrder(keys, manifest)
             v == PhotosOf(s, manifest)
             rank(x) == photo_manifest_rank(x, manifest)
  <1>1. manifest \in Seq(EntryType)
    BY ManifestOfIs
  <1>2. shown.photos = v
    <2>1. profile_assets(listing, callsign, country, photos) =
              [photos |-> v, bio |-> FirstOf(s, "Biography"),
               country_flag |-> FirstOf(s, "Flag"), country_map |-> FirstOf(s, "Map")]
      BY ProfileIs
    <2> HIDE DEF v, s
    <2> QED
      BY <2>1
  <1>3. c \in Seq(X)
    BY CollectedAgree DEF SameRange
  <1> HIDE DEF c, keys, manifest
  <1>4. s \in Seq(X) /\ RangeOf(s) = RangeOf(c)
    BY <1>3, ByRankAndPathIs DEF SortedAs
  <1> HIDE DEF s
  <1>5. /\ v \in Seq(P)
        /\ \A x : x \in RangeOf(v) <=> x \in RangeOf(s) /\ x.kind = "Photo"
        /\ \A n, m \in DOMAIN v : n < m => <<v[m], v[n]>> \notin order /\ v[n] # v[m]
    BY <1>1, <1>4, PhotosOfAre
  <1>6. \A x, y \in P : x.path = y.path => x = y
    BY AssetIs DEF PhotosWith
  <1>7. \A x \in P : rank(x) \in Nat
    BY <1>1, RankIs
  <1>8. \A x, y \in P : rank(x) < rank(y) => <<x, y>> \in order
    BY DEF RankOrder
  <1> HIDE DEF v, P, order, rank, X
  <1>9. ASSUME NEW i \in DOMAIN v, NEW j \in DOMAIN v, i < j
        PROVE  v[i].path # v[j].path /\ rank(v[i]) <= rank(v[j])
    <2>1. v[i] \in P /\ v[j] \in P
      BY <1>5
    <2>2. <<v[j], v[i]>> \notin order /\ v[i] # v[j]
      BY <1>5, <1>9
    <2>3. ~(rank(v[j]) < rank(v[i]))
      BY <1>8, <2>1, <2>2
    <2>4. rank(v[i]) \in Nat /\ rank(v[j]) \in Nat
      BY <1>7, <2>1
    <2> QED
      BY <1>6, <2>1, <2>2, <2>3, <2>4
  <1>10. ASSUME NEW x \in RangeOf(c), x.kind = "Photo"
         PROVE  \E k \in DOMAIN v : v[k] = x
    BY <1>4, <1>5, <1>10, RangeIs
  <1> QED
    BY <1>2, <1>9, <1>10 DEF rank, manifest, c

-----------------------------------------------------------------------------
(* What is found is shown *)

\* A file that an entry's path means has the name with which the path ends.
LEMMA MeantHasName ==
    ASSUME TreeTyped, NEW f \in FilesIn("photos"), NEW path \in Seq(Text), path # <<>>, Meant(f, path)
    PROVE  SameName(FileName(path), FileName(f.path))
  <1>1. f.path \in Seq(Text) /\ f.path # <<>>
    BY DEF TreeTyped, FilesIn
  <1>2. Len(path) \in Nat /\ Len(path) \in DOMAIN path
    OBVIOUS
  <1>3. CASE Len(path) = 1
    BY <1>3 DEF Meant, SameName, FileName
  <1>4. CASE Len(path) # 1
    <2> DEFINE q == PhotosDirectory \o f.path
    <2>1. path_ends_with_components_ignore_ascii_case(q, path)
      BY <1>4 DEF Meant
    <2>2. PhotosDirectory \in Seq(Text)
      <3>1. <<112, 104, 111, 116, 111, 115>> \in Text
        BY DEF Text, Byte
      <3>2. <<<<112, 104, 111, 116, 111, 115>>>> \in Seq(Text)
        BY <3>1
      <3> QED
        BY <3>2, BaseAssumption DEF PhotosDirectory
    <2>3. /\ Len(q) \in Nat /\ q[Len(q)] = f.path[Len(f.path)]
      BY <1>1, <2>2
    <2> HIDE DEF q
    <2>4. SameName(q[Len(q) - Len(path) + Len(path)], path[Len(path)])
      BY <1>2, <2>1 DEF path_ends_with_components_ignore_ascii_case
    <2>5. Len(q) - Len(path) + Len(path) = Len(q)
      BY <1>2, <2>3
    <2> QED
      BY <2>3, <2>4, <2>5 DEF SameName, FileName
  <1> QED
    BY <1>3, <1>4

\* An entry of which the file exists stands for a photo under the name that it gives.
LEMMA FoundIsMeant ==
    ASSUME TreeTyped, NEW listing \in Listings, NEW file \in Seq(Part), NEW owner, NEW callsign,
           manifest_photo_exists(listing, owner, file)
    PROVE  /\ Parts(file) # <<>> /\ FileName(Parts(file)).is = "Normal"
           /\ \E x \in MeantBy(callsign, file) :
                 x.kind = "Photo" /\ SameName(FileName(Parts(file)).name, FileName(x.path))
  <1> DEFINE relative == safe_manifest_photo_path(file)
             path == relative[1]
             parts == Parts(file)
             there == \E f \in FilesIn("photos") : f.path = path /\ f.link # "file"
             asset(p) == asset_metadata("Photo", callsign, p)
             fallback == collect_manifest_photo_fallback(listing, owner, path)
  <1>1. relative # None /\ (IsPhoto(listing, path) \/ fallback # <<>>)
    BY DEF manifest_photo_exists
  <1>2. /\ path \in Seq(Text) /\ parts \in Seq(Part) /\ parts # <<>>
        /\ FileName(parts).is = "Normal"
        /\ Len(path) = Len(parts) /\ FileName(path) = FileName(parts).name
    BY <1>1, RelativeIs
  <1>3. path # <<>>
    <2>1. Len(parts) \in Nat /\ Len(parts) # 0
      BY <1>2
    <2> HIDE DEF path, parts
    <2> QED
      BY <1>2, <2>1
  <1>4. IsPhoto(listing, path) <=> there
    BY IsPhotoIs
  <1>5. MeantBy(callsign, file) =
            IF relative = None THEN {} ELSE IF there THEN {asset(path)}
            ELSE {asset(f.path) : f \in MeantFiles(path)}
    BY DEF MeantBy
  <1>6. \A p : asset(p).kind = "Photo" /\ asset(p).path = p
    BY DEF asset_metadata
  <1> HIDE DEF relative, path, parts, there, asset, fallback
  <1>7. CASE there
    <2>1. asset(path) \in MeantBy(callsign, file)
      BY <1>1, <1>5, <1>7
    <2>2. SameName(FileName(parts).name, FileName(asset(path).path))
      BY <1>2, <1>6 DEF SameName
    <2> QED
      BY <1>2, <1>6, <2>1, <2>2 DEF parts
  <1>8. CASE ~there
    <2>1. PICK f \in MeantFiles(path) : TRUE
      <3> DEFINE keys == [kind \in AssetKinds |-> owner]
      <3>1. keys["Photo"] = owner
        BY DEF AssetKinds
      <3> HIDE DEF keys
      <3>2. AssetsOf(collect_manifest_photo_fallback(listing, keys["Photo"], path),
                     keys, "Photo", MeantFiles(path))
        BY FallbackIs
      <3>3. AssetsOf(fallback, keys, "Photo", MeantFiles(path))
        BY <3>1, <3>2 DEF fallback
      <3>4. /\ fallback \in Seq(AssetsWith(keys))
            /\ \A x : x \in RangeOf(fallback) <=>
                  \E f \in MeantFiles(path) : x = asset_metadata("Photo", keys["Photo"], f.path)
        BY <3>3 DEF AssetsOf
      <3>5. fallback # <<>>
        BY <1>1, <1>4, <1>8
      <3>6. 1 \in DOMAIN fallback
        BY <3>4, <3>5
      <3>7. fallback[1] \in RangeOf(fallback)
        BY <3>4, <3>6, RangeIs
      <3> QED
        BY <3>4, <3>7
    <2>2. f \in FilesIn("photos") /\ Meant(f, path)
      BY <2>1 DEF MeantFiles
    <2>3. SameName(FileName(path), FileName(f.path))
      BY <1>2, <1>3, <2>2, MeantHasName
    <2>4. asset(f.path) \in MeantBy(callsign, file)
      BY <1>1, <1>5, <1>8
    <2>5. SameName(FileName(parts).name, FileName(asset(f.path).path))
      BY <1>2, <1>6, <2>3
    <2> QED
      BY <1>2, <1>6, <2>4, <2>5 DEF parts
  <1> QED
    BY <1>7, <1>8

\* A profile shows a photo for each entry of which the file exists.
LEMMA ProfileShows ==
    ASSUME TreeTyped, NEW listing \in Listings, NEW callsign, NEW country,
           NEW photos \in PhotoManifests, NEW shown,
           shown = profile_assets(listing, callsign, country, photos),
           NEW i \in DOMAIN ManifestOf(photos, callsign), NEW owner,
           ManifestOf(photos, callsign)[i].file # None,
           manifest_photo_exists(listing, owner, ManifestOf(photos, callsign)[i].file[1])
    PROVE  \E k \in DOMAIN shown.photos :
              photo_manifest_rank(shown.photos[k], <<ManifestOf(photos, callsign)[i]>>) = 1
  <1> DEFINE e == ManifestOf(photos, callsign)[i]
             keys == KeysOf(callsign, country)
  <1>1. /\ e.file # None /\ manifest_photo_exists(listing, owner, e.file[1])
        /\ keys["Photo"] = callsign
    BY DEF KeysOf, AssetKinds, CallsignKinds
  <1>2. e \in EntryType
    <2>1. ManifestOf(photos, callsign) \in Seq(EntryType)
      BY ManifestOfIs
    <2> QED
      BY <2>1
  <1>3. e.file[1] \in Seq(Part)
    <2> HIDE DEF e
    <2>1. e.file \in Seq(Seq(Part)) /\ e.file # <<>>
      BY <1>1, <1>2 DEF EntryType, None
    <2>2. 1 \in DOMAIN e.file
      BY <2>1
    <2> QED
      BY <2>1, <2>2
  <1>4. photos # None
    <2>1. SUFFICES ASSUME photos = None PROVE FALSE
      OBVIOUS
    <2>2. ManifestOf(photos, callsign) = <<>> /\ DOMAIN <<>> = {}
      BY <2>1 DEF ManifestOf
    <2> QED
      BY <2>2
  <1>5. PICK m \in Seq(EntryType) : photos = Some(m)
    BY <1>4 DEF PhotoManifests
  <1>6. photos[1] = m /\ ManifestOf(photos, callsign) = PhotoLookup(m, callsign)
    BY <1>4, <1>5 DEF Some, ManifestOf
  <1>7. e = PhotoLookup(m, callsign)[i] /\ i \in DOMAIN PhotoLookup(m, callsign)
    BY <1>6
  <1> HIDE DEF e, keys
  <1>8. /\ Parts(e.file[1]) # <<>> /\ FileName(Parts(e.file[1])).is = "Normal"
        /\ \E x \in MeantBy(callsign, e.file[1]) :
              x.kind = "Photo" /\ SameName(FileName(Parts(e.file[1])).name, FileName(x.path))
    BY <1>1, <1>3, FoundIsMeant
  <1>9. PICK x \in MeantBy(callsign, e.file[1]) :
              x.kind = "Photo" /\ SameName(FileName(Parts(e.file[1])).name, FileName(x.path))
    BY <1>8
  <1>10. x \in RangeOf(collect_manifest_photos(listing, callsign, m))
    <2>1. x \in RangeOf(collect_manifest_photos(listing, keys["Photo"], m)) <=>
             \E j \in DOMAIN PhotoLookup(m, keys["Photo"]) :
                /\ PhotoLookup(m, keys["Photo"])[j].file # None
                /\ x \in MeantBy(keys["Photo"], PhotoLookup(m, keys["Photo"])[j].file[1])
      BY ManifestPhotosAre
    <2> QED
      BY <1>1, <1>7, <1>9, <2>1
  <1>11. x \in RangeOf(Collected(listing, callsign, country, photos))
    BY <1>4, <1>6, <1>10, CollectedAgree
  <1>12. PICK k \in DOMAIN shown.photos : shown.photos[k] = x
    BY <1>9, <1>11, ProfilePhotosAre
  <1>13. photo_manifest_rank(x, <<e>>) = 1
    <2>1. <<e>> \in Seq(EntryType)
      BY <1>2
    <2> DEFINE one == <<e>>
    <2>2. one \in Seq(EntryType) /\ one = <<e>>
      BY <2>1
    <2> HIDE DEF one
    <2>3. photo_manifest_rank(x, one) = 1
      BY <1>1, <1>2, <1>8, <1>9, <2>2, RankIs
    <2> QED
      BY <2>2, <2>3
  <1> QED
    BY <1>12, <1>13 DEF e

-----------------------------------------------------------------------------
(* What was shown, as long as it is looked at *)

\* A picture that is looked at was taken of the directories and the manifest as they are.
Taken ==
    Pictured => \E listing \in Listings :
                    Shown = profile_assets(listing, answer.call, answer.value[1].country,
                                           PhotoCatalog.value)
Pictures ==
    /\ TreeTyped
    /\ catalog \in PhotoManifests
    /\ answer # Nothing => IsOpen
    /\ Taken

\* The manifest is what was kept of it or what the file holds.
LEMMA PhotoCatalogIs ==
    ASSUME TreeTyped, catalog \in PhotoManifests
    PROVE  PhotoCatalog.value \in PhotoManifests /\ Remembered \in PhotoManifests
  <1>1. None \in PhotoManifests /\ Some(parse_photo_manifest(tree.manifest)) \in PhotoManifests
    BY ManifestIs DEF PhotoManifests
  <1>2. PhotoCatalog.value \in {None, catalog, Some(parse_photo_manifest(tree.manifest))}
    BY DEF PhotoCatalog
  <1> QED
    BY <1>1, <1>2 DEF Remembered

\* A question keeps the manifest that it read, and it is the one that the next question has.
LEMMA CatalogIsKept ==
    ASSUME TreeTyped, catalog \in PhotoManifests, UNCHANGED <<disk, tree>>,
           catalog' = catalog \/ catalog' = Remembered
    PROVE  /\ TreeTyped' /\ catalog' \in PhotoManifests
           /\ PhotoCatalog.value' = PhotoCatalog.value /\ Listings' = Listings
  <1>1. TreeTyped' /\ catalog' \in PhotoManifests
    BY PhotoCatalogIs DEF TreeTyped
  <1>2. Listings' = Listings
    BY DEF Listings, Orders
  <1>3. Some(parse_photo_manifest(tree.manifest)) # None
    BY DEF Some, None
  <1>4. PhotoCatalog.value' = PhotoCatalog.value
    <2> DEFINE m == Some(parse_photo_manifest(tree.manifest))
    <2>1. PhotoCatalog.value = IF disk[Manifest] = "absent" THEN None
                               ELSE IF catalog # None THEN catalog
                               ELSE IF disk[Manifest] = "broken" THEN None ELSE m
      BY DEF PhotoCatalog
    <2>2. PhotoCatalog.value' = IF disk[Manifest] = "absent" THEN None
                                ELSE IF catalog' # None THEN catalog'
                                ELSE IF disk[Manifest] = "broken" THEN None ELSE m
      BY DEF PhotoCatalog
    <2>3. Remembered = IF PhotoCatalog.value # None THEN PhotoCatalog.value ELSE catalog
      BY DEF Remembered
    <2> HIDE DEF m
    <2> QED
      BY <1>3, <2>1, <2>2, <2>3 DEF m
  <1> QED
    BY <1>1, <1>2, <1>4

\* A profile and a map show what is there when they are asked for.
LEMMA PicturesTaken ==
    ASSUME Pictures, AskProfile \/ AskMap
    PROVE  Pictures'
  <1>1. /\ IsOpen /\ UNCHANGED openVars /\ UNCHANGED tree
        /\ catalog' = catalog \/ catalog' = Remembered
    BY DEF AskProfile, AskMap, Asking
  <1>2. \/ answer'.value = None
        \/ \E call \in Callsigns, listing \in Listings :
              /\ answer'.call = call
              /\ answer'.value[1].country = country_info(call)
              /\ answer'.value[1].assets =
                    profile_assets(listing, call, country_info(call), PhotoCatalog.value)
    <2>1. CASE AskProfile
      BY <2>1 DEF AskProfile, Answered, Some
    <2>2. CASE AskMap
      BY <2>2 DEF AskMap, Answered, Some
    <2> QED
      BY <2>1, <2>2
  <1>3. /\ TreeTyped' /\ catalog' \in PhotoManifests
        /\ PhotoCatalog.value' = PhotoCatalog.value /\ Listings' = Listings
    BY <1>1, CatalogIsKept DEF Pictures, openVars
  <1>4. IsOpen'
    BY <1>1 DEF IsOpen, openVars
  <1>5. Taken'
    BY <1>2, <1>3 DEF Taken, Pictured, Shown
  <1> QED
    BY <1>3, <1>4, <1>5 DEF Pictures

\* What is shown changes with nothing before it was looked at.
LEMMA PicturesStay ==
    ASSUME Pictures, StationNext \/ UNCHANGED stationVars
    PROVE  Pictures'
  <1>1. CASE AskProfile \/ AskMap
    BY <1>1, PicturesTaken
  <1>2. CASE AskAssets \/ AskDiagnostics \/ AskCountries
    <2>1. /\ IsOpen /\ UNCHANGED openVars /\ UNCHANGED tree
          /\ catalog' = catalog \/ catalog' = Remembered
      BY <1>2 DEF AskAssets, AskDiagnostics, AskCountries, Asking
    <2>2. answer'.asked \in {"assets", "diagnostics", "countries"}
      <3>1. CASE AskAssets
        BY <3>1 DEF AskAssets, Answered
      <3>2. CASE AskDiagnostics
        BY <3>2 DEF AskDiagnostics, Answered
      <3>3. CASE AskCountries
        BY <3>3 DEF AskCountries, Answered
      <3> QED
        BY <1>2, <3>1, <3>2, <3>3
    <2>3. TreeTyped' /\ catalog' \in PhotoManifests
      BY <2>1, CatalogIsKept DEF Pictures, openVars
    <2>4. IsOpen'
      BY <2>1 DEF IsOpen, openVars
    <2>5. Taken'
      BY <2>2 DEF Taken, Pictured
    <2> QED
      BY <2>3, <2>4, <2>5 DEF Pictures
  <1>3. ASSUME answer' = Nothing, TreeTyped', catalog' = catalog
        PROVE  Pictures'
    <2>1. Taken'
      BY <1>3 DEF Taken, Pictured, Nothing
    <2> QED
      BY <1>3, <2>1 DEF Pictures
  <1>4. CASE Seen
    <2>1. answer' = Nothing /\ tree' = tree /\ catalog' = catalog
      BY <1>4 DEF Seen
    <2>2. TreeTyped'
      BY <2>1 DEF TreeTyped, Pictures
    <2> QED
      BY <1>3, <2>1, <2>2
  <1>5. CASE ChangeTree
    <2>1. answer' = Nothing /\ tree' \in Trees /\ catalog' = catalog
      BY <1>5 DEF ChangeTree
    <2>2. TreeTyped'
      BY <2>1, TreesAssumption DEF TreeTyped
    <2> QED
      BY <1>3, <2>1, <2>2
  <1>6. CASE ChangeManifest
    <2>1. answer' = Nothing /\ tree' = tree /\ catalog' = catalog
      BY <1>6 DEF ChangeManifest
    <2>2. TreeTyped'
      BY <2>1 DEF TreeTyped, Pictures
    <2> QED
      BY <1>3, <2>1, <2>2
  <1>7. CASE OpenNext /\ UNCHANGED <<tree, catalog, answer, changes>>
    <2>1. opening.at # "done"
      <3>1. CASE OpenPath
        BY <3>1 DEF OpenPath
      <3>2. CASE CheckPresent
        BY <3>2 DEF CheckPresent
      <3>3. CASE CheckAbsent
        BY <3>3 DEF CheckAbsent
      <3>4. CASE Read
        BY <3>4 DEF Read
      <3>5. CASE ChangeFile
        BY <3>5 DEF ChangeFile
      <3> QED
        BY <1>7, <3>1, <3>2, <3>3, <3>4, <3>5 DEF OpenNext
    <2>2. answer' = Nothing /\ tree' = tree /\ catalog' = catalog
      BY <1>7, <2>1 DEF Pictures, IsOpen
    <2>3. TreeTyped'
      BY <2>2 DEF TreeTyped, Pictures
    <2> QED
      BY <1>3, <2>2, <2>3
  <1>8. CASE UNCHANGED stationVars
    <2>1. UNCHANGED <<disk, tree, catalog, answer, opening>>
      BY <1>8 DEF stationVars
    <2>2. /\ TreeTyped' /\ catalog' \in PhotoManifests
          /\ PhotoCatalog.value' = PhotoCatalog.value /\ Listings' = Listings
      BY <2>1, CatalogIsKept DEF Pictures
    <2>3. Taken'
      BY <2>1, <2>2 DEF Taken, Pictured, Shown, Pictures
    <2> QED
      BY <2>1, <2>2, <2>3 DEF Pictures, IsOpen
  <1> QED
    BY <1>1, <1>2, <1>4, <1>5, <1>6, <1>7, <1>8 DEF StationNext

\* At first nothing is shown.
LEMMA PicturesAtFirst ==
    ASSUME StationInit
    PROVE  Pictures
  <1>1. PICK b \in Beginnings : tree = b.tree
    BY DEF StationInit
  <1>2. TreeTyped
    BY <1>1, TreesAssumption DEF TreeTyped
  <1>3. catalog = None /\ answer = Nothing
    BY DEF StationInit
  <1>4. Taken
    BY <1>3 DEF Taken, Pictured, Nothing
  <1> QED
    BY <1>2, <1>3, <1>4 DEF Pictures, PhotoManifests

\* Whatever the directories and the manifest hold, and in whatever order they are read: a
\* profile shows the same assets, each photo once, and first those that the manifest names
\* first (profile_assets, dedup_assets_by_path, photo_manifest_rank).
THEOREM AssetsInOneOrderHolds == StationSpec => []AssetsInOneOrder
  <1>1. StationInit => Pictures
    BY PicturesAtFirst
  <1>2. Pictures /\ [StationNext]_stationVars => Pictures'
    BY PicturesStay
  <1>3. Pictures => AssetsInOneOrder
    <2>1. SUFFICES ASSUME Pictures, Pictured
                   PROVE  /\ \A listing \in Listings :
                                Shown = profile_assets(listing, answer.call,
                                           answer.value[1].country, PhotoCatalog.value)
                          /\ \A i, j \in DOMAIN Shown.photos :
                                i < j => /\ Shown.photos[i].path # Shown.photos[j].path
                                         /\ photo_manifest_rank(Shown.photos[i], Named)
                                               <= photo_manifest_rank(Shown.photos[j], Named)
      BY DEF AssetsInOneOrder
    <2> DEFINE call == answer.call
               country == answer.value[1].country
               photos == PhotoCatalog.value
               shown == Shown
    <2>2. TreeTyped /\ photos \in PhotoManifests
      BY <2>1, PhotoCatalogIs DEF Pictures
    <2>3. PICK listing \in Listings : shown = profile_assets(listing, call, country, photos)
      BY <2>1 DEF Pictures, Taken
    <2>4. Named = ManifestOf(photos, call)
      BY DEF Named, ManifestOf
    <2> HIDE DEF call, country, photos, shown
    <2>5. \A other \in Listings : shown = profile_assets(other, call, country, photos)
      BY <2>2, <2>3, ProfilesAgree
    <2>6. \A i, j \in DOMAIN shown.photos :
              i < j => /\ shown.photos[i].path # shown.photos[j].path
                       /\ photo_manifest_rank(shown.photos[i], ManifestOf(photos, call))
                             <= photo_manifest_rank(shown.photos[j], ManifestOf(photos, call))
      BY <2>2, <2>3, ProfilePhotosAre
    <2> QED
      BY <2>4, <2>5, <2>6 DEF call, country, photos, shown
  <1> QED
    BY <1>1, <1>2, <1>3, PTL DEF StationSpec

\* What the diagnostics count as found, a profile of its callsign shows, although the one
\* looks for a file and the other for all files (manifest_photo_exists,
\* collect_manifest_photos), and although the manifest that is kept may not be the file's.
THEOREM FoundPhotosAreShownHolds == StationSpec => []FoundPhotosAreShown
  <1>1. StationInit => Pictures
    BY PicturesAtFirst
  <1>2. Pictures /\ [StationNext]_stationVars => Pictures'
    BY PicturesStay
  <1>3. Pictures => FoundPhotosAreShown
    <2>1. SUFFICES ASSUME Pictures, Pictured, NEW i \in DOMAIN Named, NEW listing \in Listings,
                          Named[i].file # None,
                          manifest_photo_exists(listing, Named[i].callsign, Named[i].file[1])
                   PROVE  \E k \in DOMAIN Shown.photos :
                             photo_manifest_rank(Shown.photos[k], <<Named[i]>>) = 1
      BY DEF FoundPhotosAreShown
    <2> DEFINE call == answer.call
               country == answer.value[1].country
               photos == PhotoCatalog.value
               shown == Shown
               owner == Named[i].callsign
    <2>2. TreeTyped /\ photos \in PhotoManifests
      BY <2>1, PhotoCatalogIs DEF Pictures
    <2>3. PICK other \in Listings : shown = profile_assets(other, call, country, photos)
      BY <2>1 DEF Pictures, Taken
    <2>4. Named = ManifestOf(photos, call)
      BY DEF Named, ManifestOf
    <2>5. /\ i \in DOMAIN ManifestOf(photos, call)
          /\ ManifestOf(photos, call)[i].file # None
          /\ manifest_photo_exists(listing, owner, ManifestOf(photos, call)[i].file[1])
      BY <2>1, <2>4
    <2> HIDE DEF call, country, photos, shown, owner
    <2>6. shown = profile_assets(listing, call, country, photos)
      BY <2>2, <2>3, ProfilesAgree
    <2>7. \E k \in DOMAIN shown.photos :
              photo_manifest_rank(shown.photos[k], <<ManifestOf(photos, call)[i]>>) = 1
      BY <2>2, <2>5, <2>6, ProfileShows
    <2> QED
      BY <2>4, <2>7 DEF shown
  <1> QED
    BY <1>1, <1>2, <1>3, PTL DEF StationSpec
=============================================================================
