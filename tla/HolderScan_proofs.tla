-------------------------- MODULE HolderScan_proofs --------------------------
(***************************************************************************)
(* What a scan misses and repeats, and how old a list of holders gets, for *)
(* any wallets, page size, limit, times to live, latency and number of     *)
(* callers, moves and failures.                                            *)
(***************************************************************************)
EXTENDS HolderScan, FiniteSetTheorems, SequenceTheorems, TLAPS

-----------------------------------------------------------------------------
(***************************************************************************)
(* One place less, one place more.                                         *)
(***************************************************************************)
LEMMA RemoveAtPlaces ==
    ASSUME NEW S, NEW list \in Seq(S), NEW j \in 1..Len(list)
    PROVE  /\ RemoveAt(list, j) \in Seq(S)
           /\ Len(RemoveAt(list, j)) = Len(list) - 1
           /\ \A k \in 1..Len(list) - 1 :
                 RemoveAt(list, j)[k] = IF k < j THEN list[k] ELSE list[k + 1]
  <1> DEFINE a == SubSeq(list, 1, j - 1)
             b == SubSeq(list, j + 1, Len(list))
  <1>1. Len(list) \in Nat /\ \A k \in 1..Len(list) : list[k] \in S
    BY LenProperties, ElementOfSeq
  <1>2. /\ a \in Seq(S) /\ Len(a) = j - 1
        /\ \A k \in 1..j - 1 : a[k] = list[k]
    OBVIOUS
  <1>3. /\ b \in Seq(S) /\ Len(b) = Len(list) - j
        /\ \A k \in 1..Len(list) - j : b[k] = list[k + j]
    OBVIOUS
  <1>4. RemoveAt(list, j) = a \o b
    BY DEF RemoveAt
  <1> HIDE DEF a, b
  <1>5. /\ a \o b \in Seq(S) /\ Len(a \o b) = Len(a) + Len(b)
        /\ \A k \in 1..Len(a) + Len(b) :
              (a \o b)[k] = IF k <= Len(a) THEN a[k] ELSE b[k - Len(a)]
    BY <1>2, <1>3, ConcatProperties, Zenon
  <1>6. Len(a) + Len(b) = Len(list) - 1
    BY <1>1, <1>2, <1>3
  <1>7. ASSUME NEW k \in 1..Len(list) - 1
        PROVE  (a \o b)[k] = IF k < j THEN list[k] ELSE list[k + 1]
    <2>1. (a \o b)[k] = IF k <= Len(a) THEN a[k] ELSE b[k - Len(a)]
      BY <1>5, <1>6
    <2>2. CASE k < j
      <3>1. k \in 1..j - 1 /\ k <= Len(a)
        BY <1>1, <1>2, <2>2
      <3> QED
        BY <1>2, <2>1, <2>2, <3>1, Zenon
    <2>3. CASE ~(k < j)
      <3> DEFINE h == k - (j - 1)
      <3>1. h \in 1..Len(list) - j /\ h + j = k + 1 /\ ~(k <= j - 1)
        BY <1>1, <2>3
      <3>2. (a \o b)[k] = b[h]
        BY <1>2, <2>1, <3>1, Zenon
      <3> HIDE DEF h
      <3>3. b[h] = list[h + j]
        BY <1>3, <3>1, Zenon
      <3> QED
        BY <2>3, <3>1, <3>2, <3>3, Zenon
    <2> QED
      BY <2>2, <2>3
  <1> QED
    BY <1>4, <1>5, <1>6, <1>7, Zenon

LEMMA InsertAtPlaces ==
    ASSUME NEW S, NEW list \in Seq(S), NEW i \in 1..Len(list) + 1, NEW w \in S
    PROVE  /\ InsertAt(list, i, w) \in Seq(S)
           /\ Len(InsertAt(list, i, w)) = Len(list) + 1
           /\ \A k \in 1..Len(list) + 1 :
                 InsertAt(list, i, w)[k] =
                    IF k < i THEN list[k] ELSE IF k = i THEN w ELSE list[k - 1]
  <1> DEFINE a == SubSeq(list, 1, i - 1)
             one == <<w>>
             b == SubSeq(list, i, Len(list))
  <1>1. Len(list) \in Nat /\ \A k \in 1..Len(list) : list[k] \in S
    BY LenProperties, ElementOfSeq
  <1>2. /\ a \in Seq(S) /\ Len(a) = i - 1
        /\ \A k \in 1..i - 1 : a[k] = list[k]
    OBVIOUS
  <1>3. /\ b \in Seq(S) /\ Len(b) = Len(list) - i + 1
        /\ \A k \in 1..Len(list) - i + 1 : b[k] = list[k + i - 1]
    OBVIOUS
  <1>4. one \in Seq(S) /\ Len(one) = 1 /\ one[1] = w
    OBVIOUS
  <1>5. InsertAt(list, i, w) = (a \o one) \o b
    BY DEF InsertAt
  <1> HIDE DEF a, one, b
  <1>6. /\ a \o one \in Seq(S) /\ Len(a \o one) = Len(a) + Len(one)
        /\ \A k \in 1..Len(a) + Len(one) :
              (a \o one)[k] = IF k <= Len(a) THEN a[k] ELSE one[k - Len(a)]
    BY <1>2, <1>4, ConcatProperties, Zenon
  <1>7. Len(a \o one) = i
    BY <1>2, <1>4, <1>6
  <1>8. \A k \in 1..i : (a \o one)[k] = IF k < i THEN list[k] ELSE w
    <2>1. ASSUME NEW k \in 1..i - 1
          PROVE  (a \o one)[k] = list[k]
      <3>1. k \in 1..Len(a) + Len(one) /\ k <= Len(a) /\ k \in 1..i - 1
        BY <1>2, <1>4
      <3> QED
        BY <1>2, <1>6, <3>1, Zenon
    <2>2. (a \o one)[i] = w
      <3>1. i \in 1..Len(a) + Len(one) /\ ~(i <= Len(a)) /\ i - Len(a) = 1
        BY <1>2, <1>4
      <3> QED
        BY <1>4, <1>6, <3>1, Zenon
    <2>3. \A k \in 1..i : k < i => k \in 1..i - 1
      OBVIOUS
    <2>4. \A k \in 1..i : k = i \/ k < i
      OBVIOUS
    <2>5. ~(i < i)
      OBVIOUS
    <2> QED
      BY <2>1, <2>2, <2>3, <2>4, <2>5, Zenon
  <1> DEFINE c == a \o one
  <1>9. c \in Seq(S) /\ Len(c) = i /\ \A k \in 1..i : c[k] = IF k < i THEN list[k] ELSE w
    BY <1>6, <1>7, <1>8, Zenon
  <1> HIDE DEF c
  <1>10. /\ c \o b \in Seq(S) /\ Len(c \o b) = Len(c) + Len(b)
         /\ \A k \in 1..Len(c) + Len(b) :
               (c \o b)[k] = IF k <= Len(c) THEN c[k] ELSE b[k - Len(c)]
    BY <1>3, <1>9, ConcatProperties, Zenon
  <1>11. Len(c) + Len(b) = Len(list) + 1
    BY <1>1, <1>3, <1>9
  <1>12. ASSUME NEW k \in 1..Len(list) + 1
         PROVE  (c \o b)[k] =
                   IF k < i THEN list[k] ELSE IF k = i THEN w ELSE list[k - 1]
    <2>1. (c \o b)[k] = IF k <= i THEN c[k] ELSE b[k - i]
      BY <1>9, <1>10, <1>11, Zenon
    <2>2. CASE k <= i
      <3>1. k \in 1..i /\ (~(k < i) => k = i)
        BY <1>1, <2>2
      <3> QED
        BY <1>9, <2>1, <2>2, <3>1, Zenon
    <2>3. CASE ~(k <= i)
      <3> DEFINE h == k - i
      <3>1. h \in 1..Len(list) - i + 1 /\ h + i - 1 = k - 1 /\ ~(k < i) /\ k # i
        BY <1>1, <2>3
      <3>2. (c \o b)[k] = b[h]
        BY <2>1, <2>3, Zenon
      <3> HIDE DEF h
      <3>3. b[h] = list[h + i - 1]
        BY <1>3, <3>1, Zenon
      <3> QED
        BY <3>1, <3>2, <3>3, Zenon
    <2> QED
      BY <2>2, <2>3
  <1> QED
    BY <1>5, <1>10, <1>11, <1>12, Zenon DEF c

-----------------------------------------------------------------------------
(***************************************************************************)
(* The places that a scan at an offset has passed, and those ahead of it.  *)
(***************************************************************************)
Passed(list, offset) == {list[k] : k \in {k \in 1..Len(list) : k <= offset}}
Ahead(list, offset) == {list[k] : k \in {k \in 1..Len(list) : k > offset}}

LEMMA SetOfPlaces ==
    ASSUME NEW S, NEW list \in Seq(S)
    PROVE  ToSet(list) = {list[k] : k \in 1..Len(list)} /\ ToSet(list) \subseteq S
  BY LenProperties, ElementOfSeq DEF ToSet

LEMMA PlacesDiffer ==
    ASSUME NEW S, NEW list \in Seq(S)
    PROVE  IsInjective(list) <=>
              \A i \in 1..Len(list) : \A j \in 1..Len(list) : list[i] = list[j] => i = j
  BY LenProperties DEF IsInjective

\* A wallet that goes leaves its place to those behind it: only the first of
\* those ahead of the scan gets behind it, and only if it was behind it itself.
LEMMA RemovedPlaces ==
    ASSUME NEW S, NEW list \in Seq(S), NEW j \in 1..Len(list), NEW offset \in Nat
    PROVE  LET rest == RemoveAt(list, j)
           IN  /\ ToSet(rest) \subseteq ToSet(list)
               /\ Passed(rest, offset) \subseteq Passed(list, offset) \cup {list[offset + 1]}
               /\ j > offset => Passed(rest, offset) \subseteq Passed(list, offset)
               /\ Ahead(rest, offset) \subseteq Ahead(list, offset)
               /\ IsInjective(list) => IsInjective(rest) /\ list[j] \notin ToSet(rest)
  <1> DEFINE rest == RemoveAt(list, j)
             At1(k) == IF k < j THEN k ELSE k + 1
  <1>1. Len(list) \in Nat
    BY LenProperties
  <1>2. rest \in Seq(S) /\ Len(rest) = Len(list) - 1
    BY RemoveAtPlaces
  <1>3. \A k \in 1..Len(rest) : rest[k] = list[At1(k)]
    <2>1. \A k \in 1..Len(list) - 1 : rest[k] = IF k < j THEN list[k] ELSE list[k + 1]
      BY RemoveAtPlaces
    <2> QED
      BY <1>2, <2>1
  <1>4. \A k \in 1..Len(rest) :
           At1(k) \in 1..Len(list) /\ At1(k) # j /\ (At1(k) = k \/ At1(k) = k + 1)
    BY <1>1, <1>2
  <1>5. \A k \in 1..Len(rest) : \A l \in 1..Len(rest) : At1(k) = At1(l) => k = l
    BY <1>1, <1>2
  <1>6. \A k \in 1..Len(rest) : j > offset /\ k <= offset => At1(k) = k
    BY <1>1, <1>2
  <1> HIDE DEF rest, At1
  <1>7. ToSet(rest) \subseteq ToSet(list)
    <2>1. /\ ToSet(list) = {list[k] : k \in 1..Len(list)}
          /\ ToSet(rest) = {rest[k] : k \in 1..Len(rest)}
      BY <1>2, SetOfPlaces, Zenon
    <2> QED
      BY <1>3, <1>4, <2>1, Zenon
  <1>8. Passed(rest, offset) \subseteq Passed(list, offset) \cup {list[offset + 1]}
    <2>1. ASSUME NEW k \in 1..Len(rest), k <= offset
          PROVE  At1(k) <= offset \/ At1(k) = offset + 1
      BY <1>1, <1>2, <1>4, <2>1
    <2> QED
      BY <1>3, <1>4, <2>1, Zenon DEF Passed
  <1>9. j > offset => Passed(rest, offset) \subseteq Passed(list, offset)
    BY <1>3, <1>4, <1>6, Zenon DEF Passed
  <1>10. Ahead(rest, offset) \subseteq Ahead(list, offset)
    <2>1. ASSUME NEW k \in 1..Len(rest), k > offset
          PROVE  At1(k) > offset
      BY <1>1, <1>2, <1>4, <2>1
    <2> QED
      BY <1>3, <1>4, <2>1, Zenon DEF Ahead
  <1>11. ASSUME IsInjective(list)
         PROVE  IsInjective(rest) /\ list[j] \notin ToSet(rest)
    <2>1. \A i \in 1..Len(list) : \A l \in 1..Len(list) : list[i] = list[l] => i = l
      BY <1>11, PlacesDiffer, Zenon
    <2>2. \A i \in 1..Len(rest) : \A l \in 1..Len(rest) : rest[i] = rest[l] => i = l
      BY <1>3, <1>4, <1>5, <2>1, Zenon
    <2>3. \A i \in 1..Len(rest) : rest[i] # list[j]
      BY <1>3, <1>4, <2>1, Zenon
    <2>4. ToSet(rest) = {rest[k] : k \in 1..Len(rest)}
      BY <1>2, SetOfPlaces, Zenon
    <2> QED
      BY <1>2, <2>2, <2>3, <2>4, PlacesDiffer, Zenon
  <1> QED
    BY <1>7, <1>8, <1>9, <1>10, <1>11 DEF rest

\* A wallet that comes pushes the others on: it may itself be ahead, or else
\* the last of those behind the scan gets ahead of it.
LEMMA InsertedPlaces ==
    ASSUME NEW S, NEW list \in Seq(S), NEW i \in 1..Len(list) + 1, NEW w \in S,
           NEW offset \in Nat
    PROVE  LET more == InsertAt(list, i, w)
           IN  /\ ToSet(list) \subseteq ToSet(more)
               /\ Passed(more, offset) \subseteq Passed(list, offset) \cup {w}
               /\ \E y : Ahead(more, offset) \subseteq Ahead(list, offset) \cup {y}
               /\ IsInjective(list) /\ w \notin ToSet(list) => IsInjective(more)
  <1> DEFINE more == InsertAt(list, i, w)
             At1(k) == IF k < i THEN k ELSE k - 1
             Back(k) == IF k < i THEN k ELSE k + 1
  <1>1. Len(list) \in Nat
    BY LenProperties
  <1>2. more \in Seq(S) /\ Len(more) = Len(list) + 1 /\ i \in 1..Len(more)
    BY <1>1, InsertAtPlaces
  <1>3. more[i] = w /\ \A k \in 1..Len(more) : k # i => more[k] = list[At1(k)]
    <2>1. \A k \in 1..Len(list) + 1 :
             more[k] = IF k < i THEN list[k] ELSE IF k = i THEN w ELSE list[k - 1]
      BY InsertAtPlaces
    <2> QED
      BY <1>1, <1>2, <2>1
  <1>4. \A k \in 1..Len(more) : k # i =>
           At1(k) \in 1..Len(list) /\ (At1(k) = k \/ At1(k) = k - 1)
    BY <1>1, <1>2
  <1>5. \A k \in 1..Len(more) : \A l \in 1..Len(more) :
           k # i /\ l # i /\ At1(k) = At1(l) => k = l
    BY <1>1, <1>2
  <1>6. \A k \in 1..Len(list) : Back(k) \in 1..Len(more) /\ Back(k) # i /\ At1(Back(k)) = k
    BY <1>1, <1>2
  <1>7. \A k \in 1..Len(more) : i > offset /\ k # i /\ k > offset => At1(k) > offset
    BY <1>1, <1>2
  <1> HIDE DEF more, At1, Back
  <1>8. ToSet(list) \subseteq ToSet(more)
    <2>1. \A k \in 1..Len(list) : list[k] = more[Back(k)] /\ Back(k) \in 1..Len(more)
      BY <1>3, <1>6, Zenon
    <2>2. ToSet(list) = {list[k] : k \in 1..Len(list)}
          /\ ToSet(more) = {more[k] : k \in 1..Len(more)}
      BY <1>2, SetOfPlaces, Zenon
    <2> QED
      BY <2>1, <2>2, Zenon
  <1>9. Passed(more, offset) \subseteq Passed(list, offset) \cup {w}
    <2>1. ASSUME NEW k \in 1..Len(more), k <= offset, k # i
          PROVE  At1(k) <= offset
      BY <1>1, <1>2, <1>4, <2>1
    <2> QED
      BY <1>3, <1>4, <2>1, Zenon DEF Passed
  <1>10. \E y : Ahead(more, offset) \subseteq Ahead(list, offset) \cup {y}
    <2>1. CASE i > offset
      <3>1. Ahead(more, offset) \subseteq Ahead(list, offset) \cup {w}
        BY <1>3, <1>4, <1>7, <2>1, Zenon DEF Ahead
      <3> QED
        BY <3>1, Zenon
    <2>2. CASE ~(i > offset)
      <3>1. ASSUME NEW k \in 1..Len(more), k > offset
            PROVE  k # i /\ (At1(k) > offset \/ At1(k) = offset)
        BY <1>1, <1>2, <1>4, <2>2, <3>1
      <3>2. Ahead(more, offset) \subseteq Ahead(list, offset) \cup {list[offset]}
        BY <1>3, <1>4, <3>1, Zenon DEF Ahead
      <3> QED
        BY <3>2, Zenon
    <2> QED
      BY <2>1, <2>2, Zenon
  <1>11. ASSUME IsInjective(list), w \notin ToSet(list)
         PROVE  IsInjective(more)
    <2>1. \A k \in 1..Len(list) : \A l \in 1..Len(list) : list[k] = list[l] => k = l
      BY <1>11, PlacesDiffer, Zenon
    <2>2. \A k \in 1..Len(list) : list[k] # w
      <3>1. ToSet(list) = {list[k] : k \in 1..Len(list)}
        BY SetOfPlaces, Zenon
      <3> QED
        BY <1>11, <3>1, Zenon
    <2>3. \A k \in 1..Len(more) : \A l \in 1..Len(more) : more[k] = more[l] => k = l
      <3> SUFFICES ASSUME NEW k \in 1..Len(more), NEW l \in 1..Len(more), more[k] = more[l]
                   PROVE  k = l
        OBVIOUS
      <3>1. CASE k = i \/ l = i
        BY <1>3, <1>4, <2>2, <3>1, Zenon
      <3>2. CASE k # i /\ l # i
        BY <1>3, <1>4, <1>5, <2>1, <3>2, Zenon
      <3> QED
        BY <3>1, <3>2, Zenon
    <2> QED
      BY <1>2, <2>3, PlacesDiffer, Zenon
  <1> QED
    BY <1>8, <1>9, <1>10, <1>11 DEF more

\* One move puts at most one wallet behind the scan that was not there, and
\* at most one ahead of it.
LEMMA MovedPlaces ==
    ASSUME NEW list \in Seq(Wallets), IsInjective(list), NEW other \in Moved(list),
           NEW offset \in Nat
    PROVE  /\ other \in Seq(Wallets) /\ IsInjective(other)
           /\ \E x : Passed(other, offset) \subseteq Passed(list, offset) \cup {x}
           /\ \E y : Ahead(other, offset) \subseteq Ahead(list, offset) \cup {y}
  <1>1. Len(list) \in Nat
    BY LenProperties
  <1>2. CASE \E j \in 1..Len(list) : other = RemoveAt(list, j)
    <2>1. PICK j \in 1..Len(list) : other = RemoveAt(list, j)
      BY <1>2
    <2>2. other \in Seq(Wallets)
      BY <2>1, RemoveAtPlaces, Zenon
    <2> QED
      BY <2>1, <2>2, RemovedPlaces, Zenon
  <1>3. CASE \E i \in 1..Len(list) + 1 : \E w \in Wallets \ ToSet(list) :
                other = InsertAt(list, i, w)
    <2>1. PICK i \in 1..Len(list) + 1, w \in Wallets \ ToSet(list) :
                  other = InsertAt(list, i, w)
      BY <1>3
    <2>2. w \in Wallets /\ w \notin ToSet(list)
      OBVIOUS
    <2>3. other \in Seq(Wallets)
      BY <2>1, <2>2, InsertAtPlaces, Zenon
    <2>4. /\ Passed(other, offset) \subseteq Passed(list, offset) \cup {w}
          /\ \E y : Ahead(other, offset) \subseteq Ahead(list, offset) \cup {y}
          /\ IsInjective(other)
      BY <2>1, <2>2, InsertedPlaces
    <2> QED
      BY <2>3, <2>4, Zenon
  <1>4. CASE \E i \in 1..Len(list) : \E j \in 1..Len(list) :
                other = InsertAt(RemoveAt(list, j), i, list[j])
    <2>1. PICK i \in 1..Len(list), j \in 1..Len(list) :
                  other = InsertAt(RemoveAt(list, j), i, list[j])
      BY <1>4
    <2> DEFINE rest == RemoveAt(list, j)
               w == list[j]
    <2>2. rest \in Seq(Wallets) /\ Len(rest) = Len(list) - 1
      BY RemoveAtPlaces
    <2>3. i \in 1..Len(rest) + 1 /\ w \in Wallets
      BY <1>1, <2>2, ElementOfSeq
    <2>4. /\ Passed(rest, offset) \subseteq Passed(list, offset) \cup {list[offset + 1]}
          /\ j > offset => Passed(rest, offset) \subseteq Passed(list, offset)
          /\ Ahead(rest, offset) \subseteq Ahead(list, offset)
          /\ IsInjective(rest) /\ w \notin ToSet(rest)
      BY RemovedPlaces
    <2>5. j > offset \/ w \in Passed(list, offset)
      <3>1. j > offset \/ j <= offset
        OBVIOUS
      <3> QED
        BY <3>1, Zenon DEF Passed
    <2> HIDE DEF rest, w
    <2>6. other = InsertAt(rest, i, w)
      BY <2>1, Zenon DEF rest, w
    <2>7. other \in Seq(Wallets)
      BY <2>2, <2>3, <2>6, InsertAtPlaces, Zenon
    <2>8. /\ Passed(other, offset) \subseteq Passed(rest, offset) \cup {w}
          /\ \E y : Ahead(other, offset) \subseteq Ahead(rest, offset) \cup {y}
          /\ IsInjective(other)
      <3>1. LET more == InsertAt(rest, i, w)
            IN  /\ Passed(more, offset) \subseteq Passed(rest, offset) \cup {w}
                /\ \E y : Ahead(more, offset) \subseteq Ahead(rest, offset) \cup {y}
                /\ IsInjective(rest) /\ w \notin ToSet(rest) => IsInjective(more)
        BY <2>2, <2>3, InsertedPlaces, SMTT(30)
      <3> QED
        BY <2>4, <2>6, <3>1, Zenon
    <2>9. \E y : Ahead(other, offset) \subseteq Ahead(list, offset) \cup {y}
      BY <2>4, <2>8
    <2>10. \E x : Passed(other, offset) \subseteq Passed(list, offset) \cup {x}
      <3>1. CASE j > offset
        <4>1. Passed(other, offset) \subseteq Passed(list, offset) \cup {w}
          BY <2>4, <2>8, <3>1
        <4> QED
          BY <4>1
      <3>2. CASE w \in Passed(list, offset)
        <4>1. Passed(other, offset) \subseteq Passed(list, offset) \cup {list[offset + 1]}
          BY <2>4, <2>8, <3>2
        <4> QED
          BY <4>1
      <3> QED
        BY <2>5, <3>1, <3>2
    <2> QED
      BY <2>7, <2>8, <2>9, <2>10
  <1>5. \/ \E j \in 1..Len(list) : other = RemoveAt(list, j)
        \/ \E i \in 1..Len(list) + 1 : \E w \in Wallets \ ToSet(list) :
              other = InsertAt(list, i, w)
        \/ \E i \in 1..Len(list) : \E j \in 1..Len(list) :
              other = InsertAt(RemoveAt(list, j), i, list[j])
    BY SMT DEF Moved
  <1> QED
    BY <1>2, <1>3, <1>4, <1>5, Zenon

-----------------------------------------------------------------------------
(***************************************************************************)
(* How many wallets are on a list.                                         *)
(***************************************************************************)
LEMMA FiniteList ==
    ASSUME NEW S, NEW list \in Seq(S)
    PROVE  /\ IsFiniteSet(ToSet(list)) /\ Cardinality(ToSet(list)) \in Nat
           /\ IsInjective(list) => Cardinality(ToSet(list)) = Len(list)
  <1> DEFINE T == ToSet(list)
             Places == 1..Len(list)
  <1>1. Len(list) \in Nat /\ list \in [Places -> S] /\ T = {list[k] : k \in Places}
    BY LenProperties, SetOfPlaces, Zenon
  <1>2. IsFiniteSet(Places) /\ Cardinality(Places) = Len(list)
    BY <1>1, FS_Interval
  <1> HIDE DEF T, Places
  <1>3. list \in [Places -> T]
    BY <1>1
  <1>4. list \in Surjection(Places, T)
    BY <1>1, <1>3, Zenon DEF Surjection
  <1>5. IsFiniteSet(T)
    BY <1>2, <1>4, FS_Surjection, Zenon
  <1>6. ASSUME IsInjective(list)
        PROVE  Cardinality(T) = Len(list)
    <2>1. list \in Injection(Places, T)
      BY <1>3, <1>6, Zenon DEF Injection
    <2>2. Cardinality(T) = Cardinality(Places)
      BY <1>2, <1>4, <2>1, FS_Surjection, Zenon
    <2> QED
      BY <1>2, <2>2, Zenon
  <1> QED
    BY <1>5, <1>6, FS_CardinalityType DEF T

LEMMA JoinedLists ==
    ASSUME NEW S, NEW s \in Seq(S), NEW t \in Seq(S)
    PROVE  /\ s \o t \in Seq(S) /\ Len(s \o t) = Len(s) + Len(t)
           /\ ToSet(s \o t) = ToSet(s) \cup ToSet(t)
  <1> DEFINE u == s \o t
  <1>1. /\ u \in Seq(S) /\ Len(u) = Len(s) + Len(t)
        /\ \A i \in 1..Len(s) + Len(t) :
              u[i] = IF i <= Len(s) THEN s[i] ELSE t[i - Len(s)]
    BY ConcatProperties
  <1>2. Len(s) \in Nat /\ Len(t) \in Nat
    BY LenProperties
  <1> HIDE DEF u
  <1>3. /\ ToSet(s) = {s[i] : i \in 1..Len(s)} /\ ToSet(t) = {t[i] : i \in 1..Len(t)}
        /\ ToSet(u) = {u[i] : i \in 1..Len(s) + Len(t)}
    BY <1>1, SetOfPlaces, Zenon
  <1>4. \A i \in 1..Len(s) : i \in 1..Len(s) + Len(t) /\ i <= Len(s)
    BY <1>2
  <1>5. \A i \in 1..Len(t) :
           i + Len(s) \in 1..Len(s) + Len(t) /\ ~(i + Len(s) <= Len(s))
             /\ (i + Len(s)) - Len(s) = i
    BY <1>2
  <1>6. \A i \in 1..Len(s) + Len(t) :
           IF i <= Len(s) THEN i \in 1..Len(s) ELSE i - Len(s) \in 1..Len(t)
    BY <1>2
  <1>7. ToSet(u) \subseteq ToSet(s) \cup ToSet(t)
    BY <1>1, <1>3, <1>6, Zenon
  <1>8. ToSet(s) \subseteq ToSet(u)
    BY <1>1, <1>3, <1>4, Zenon
  <1>9. ToSet(t) \subseteq ToSet(u)
    BY <1>1, <1>3, <1>5, Zenon
  <1> QED
    BY <1>1, <1>7, <1>8, <1>9, Zenon DEF u

\* What is added to a finite set, and what two have in common.
LEMMA OneMore ==
    ASSUME NEW T, IsFiniteSet(T), NEW x, NEW U, U \subseteq T \cup {x}
    PROVE  IsFiniteSet(U) /\ Cardinality(U) \in Nat /\ Cardinality(U) <= Cardinality(T) + 1
  <1>1. IsFiniteSet(T \cup {x}) /\ Cardinality(T \cup {x}) <= Cardinality(T) + 1
    <2>1. Cardinality(T) \in Nat
      BY FS_CardinalityType
    <2>2. IsFiniteSet(T \cup {x})
          /\ (\/ Cardinality(T \cup {x}) = Cardinality(T)
              \/ Cardinality(T \cup {x}) = Cardinality(T) + 1)
      BY FS_AddElement, Zenon
    <2> QED
      BY <2>1, <2>2
  <1>2. IsFiniteSet(U) /\ Cardinality(U) <= Cardinality(T \cup {x})
    BY <1>1, FS_Subset
  <1> QED
    BY <1>1, <1>2, FS_CardinalityType

LEMMA Smaller ==
    ASSUME NEW T, IsFiniteSet(T), NEW U, U \subseteq T
    PROVE  /\ IsFiniteSet(U) /\ Cardinality(U) \in Nat
           /\ Cardinality(T) \in Nat /\ Cardinality(U) <= Cardinality(T)
  BY FS_Subset, FS_CardinalityType

LEMMA Together ==
    ASSUME NEW T, IsFiniteSet(T), NEW U, IsFiniteSet(U)
    PROVE  /\ IsFiniteSet(T \cup U) /\ IsFiniteSet(T \cap U)
           /\ Cardinality(T) \in Nat /\ Cardinality(U) \in Nat
           /\ Cardinality(T \cup U) \in Nat /\ Cardinality(T \cap U) \in Nat
           /\ Cardinality(T \cup U) + Cardinality(T \cap U) = Cardinality(T) + Cardinality(U)
  <1>1. IsFiniteSet(T \cap U)
    BY FS_Subset
  <1>2. /\ IsFiniteSet(T \cup U)
        /\ Cardinality(T \cup U) = Cardinality(T) + Cardinality(U) - Cardinality(T \cap U)
    BY FS_Union
  <1>3. /\ Cardinality(T) \in Nat /\ Cardinality(U) \in Nat
        /\ Cardinality(T \cup U) \in Nat /\ Cardinality(T \cap U) \in Nat
    BY <1>1, <1>2, FS_CardinalityType
  <1> QED
    BY <1>1, <1>2, <1>3

\* A page is the places between two offsets.
LEMMA PartPlaces ==
    ASSUME ledger \in Seq(Wallets), IsInjective(ledger),
           NEW offset \in Nat, NEW size \in Nat
    PROVE  LET page == Part(offset + 1, offset + size)
           IN  /\ page \in Seq(Wallets) /\ IsInjective(page)
               /\ Len(page) \in 0..size
               /\ Len(page) < size => Len(ledger) < offset + size
               /\ Passed(ledger, offset + size) = Passed(ledger, offset) \cup ToSet(page)
               /\ Ahead(ledger, offset) = ToSet(page) \cup Ahead(ledger, offset + size)
               /\ ToSet(page) \cap Ahead(ledger, offset + size) = {}
  <1> DEFINE page == Part(offset + 1, offset + size)
             n == Len(ledger)
             last == Least(offset + size, n)
             Here == {k \in 1..n : k > offset /\ k <= offset + size}
  <1>1. n \in Nat /\ \A k \in 1..n : ledger[k] \in Wallets
    BY LenProperties, ElementOfSeq
  <1>2. last \in Nat /\ last <= n /\ last <= offset + size /\ (last = n \/ last = offset + size)
    BY <1>1 DEF Least
  <1>3. page = SubSeq(ledger, offset + 1, last)
    BY DEF Part
  <1> HIDE DEF page, last
  <1>4. \A k \in offset + 1..last : ledger[k] \in Wallets
    BY <1>1, <1>2
  <1>5. /\ page \in Seq(Wallets)
        /\ Len(page) = IF offset + 1 <= last THEN last - (offset + 1) + 1 ELSE 0
        /\ \A i \in 1..last - (offset + 1) + 1 : page[i] = ledger[(offset + 1) + i - 1]
    <2>1. offset + 1 \in Int /\ last \in Int
      BY <1>2
    <2> QED
      BY <1>3, <1>4, <2>1, SubSeqProperties
  <1>6. /\ Len(page) = IF offset <= last THEN last - offset ELSE 0
        /\ Len(page) \in 0..size
        /\ Len(page) < size => n < offset + size
    BY <1>1, <1>2, <1>5
  <1>7. \A i \in 1..Len(page) : page[i] = ledger[offset + i]
    <2>1. \A i \in 1..Len(page) : i \in 1..last - (offset + 1) + 1 /\ (offset + 1) + i - 1 = offset + i
      BY <1>2, <1>5
    <2> QED
      BY <1>5, <2>1
  <1>8. \A i \in 1..Len(page) : offset + i \in Here
    BY <1>1, <1>2, <1>6
  <1>9. \A k \in Here : k - offset \in 1..Len(page) /\ offset + (k - offset) = k
    BY <1>1, <1>2, <1>6
  <1>10. /\ \A i \in 1..n : \A k \in 1..n : ledger[i] = ledger[k] => i = k
         /\ ToSet(page) = {page[i] : i \in 1..Len(page)}
    <2>1. \A i \in 1..n : \A k \in 1..n : ledger[i] = ledger[k] => i = k
      BY PlacesDiffer
    <2>2. ToSet(page) = {page[i] : i \in 1..Len(page)}
      BY <1>5, SetOfPlaces
    <2> QED
      BY <2>1, <2>2
  <1>11. ToSet(page) = {ledger[k] : k \in Here}
    <2>1. \A i \in 1..Len(page) : page[i] \in {ledger[k] : k \in Here}
      BY <1>7, <1>8, Zenon
    <2>2. \A k \in Here : ledger[k] = page[k - offset] /\ k - offset \in 1..Len(page)
      <3> HIDE DEF Here
      <3> QED
        BY <1>7, <1>9, Zenon
    <2> HIDE DEF Here
    <2>3. ToSet(page) \subseteq {ledger[k] : k \in Here}
      BY <1>10, <2>1, Zenon
    <2>4. {ledger[k] : k \in Here} \subseteq ToSet(page)
      <3>1. \A k \in Here : ledger[k] \in ToSet(page)
        BY <1>10, <2>2
      <3> QED
        BY <3>1
    <2> QED
      BY <2>3, <2>4, Zenon
  <1>12. IsInjective(page)
    <2>1. \A i \in 1..Len(page) : \A k \in 1..Len(page) : offset + i = offset + k => i = k
      BY <1>6
    <2>2. \A i \in 1..Len(page) : \A k \in 1..Len(page) : page[i] = page[k] => i = k
      BY <1>7, <1>8, <1>10, <2>1, Zenon
    <2> QED
      BY <1>5, <2>2, PlacesDiffer, Zenon
  <1>13. Passed(ledger, offset + size) = Passed(ledger, offset) \cup ToSet(page)
    <2>1. \A k \in 1..n : k <= offset + size <=> k <= offset \/ k \in Here
      BY <1>1
    <2>2. Here \subseteq 1..n
      OBVIOUS
    <2> QED
      BY <1>11, <2>1, <2>2, Zenon DEF Passed
  <1>14. Ahead(ledger, offset) = ToSet(page) \cup Ahead(ledger, offset + size)
    <2>1. \A k \in 1..n : k > offset <=> k > offset + size \/ k \in Here
      BY <1>1
    <2>2. Here \subseteq 1..n
      OBVIOUS
    <2> QED
      BY <1>11, <2>1, <2>2, Zenon DEF Ahead
  <1>15. ToSet(page) \cap Ahead(ledger, offset + size) = {}
    <2>1. \A k \in Here : k \in 1..n /\ ~(k > offset + size)
      BY <1>1
    <2> QED
      BY <1>10, <1>11, <2>1, Zenon DEF Ahead
  <1> QED
    BY <1>5, <1>6, <1>12, <1>13, <1>14, <1>15 DEF page

-----------------------------------------------------------------------------
(***************************************************************************)
(* The invariant.  In the middle of a scan the misses are counted among    *)
(* the places passed only, and a wallet counts as a repetition as soon as  *)
(* it is ahead although it was read: a move makes each of the two counts   *)
(* one larger at most, and reading a page leaves both as they are.         *)
(***************************************************************************)
Lists == [list : Seq(Wallets), born : Nat, expires : Nat]

Scans == [at : Stages, offset : Nat, got : Seq(Wallets), born : Nat, began : Nat,
          moves : Nat, steady : SUBSET Wallets]

MaxHolders == MaxPages * PageSize

Typed ==
    /\ left \in [moves : Nat, ticks : Nat, calls : Nat]
    /\ faults \in 0..MaxFaults /\ now \in Nat
    /\ ledger \in Seq(Wallets) /\ IsInjective(ledger)
    /\ cache \in [Keys -> Lists \cup {None}]
    /\ scan \in [Callers -> Scans]

Missed(s, list) == (Passed(list, s.offset) \cap s.steady) \ ToSet(s.got)
Again(s, list) == ToSet(s.got) \cap Ahead(list, s.offset)

Partway(s, list) ==
    /\ \E n \in 0..MaxPages - 1 : s.offset = n * PageSize
    /\ Len(s.got) = s.offset
    /\ s.steady \subseteq ToSet(list)
    /\ Cardinality(Missed(s, list)) <= s.moves
    /\ Len(s.got) + Cardinality(Again(s, list)) <= Cardinality(ToSet(s.got)) + s.moves

Stored == {"storeHolders", "storeRpc"}

Complete(s) ==
    /\ Cardinality(ToSet(s.got)) + s.moves >= Least(Cardinality(s.steady), MaxHolders)
    /\ Len(s.got) <= Cardinality(ToSet(s.got)) + s.moves

\* A call that lasts has not lasted longer than MaxLatency; what it has read
\* itself was read since it was called, and what it found was fresh then.
Timely(s, time) ==
    /\ s.at \in Busy => s.began <= time /\ time <= s.began + MaxLatency
    /\ s.at \in Reading \cup Stored => s.began <= s.born
    /\ s.at = "storeAnalysis" => s.began <= s.born + Age("holders")
    /\ s.at = "answered" => s.began <= s.born + Age("analysis")

Sound(s, list, time) ==
    /\ Len(s.got) <= MaxHolders
    /\ s.at = "pages" => Partway(s, list)
    /\ s.at = "rpc" => s.moves = 0
    /\ s.at \in Stored => Complete(s)
    /\ Timely(s, time)

Fresh(k, entry, time) ==
    entry # None =>
        /\ Len(entry.list) <= MaxHolders
        /\ time < entry.expires
        /\ entry.expires <= entry.born + Age(k)

IInv ==
    /\ Typed
    /\ \A k \in Keys : Fresh(k, cache[k], now)
    /\ \A c \in Callers : Sound(scan[c], ledger, now)

-----------------------------------------------------------------------------
(***************************************************************************)
(* Numbers, and the invariant at the beginning.                            *)
(***************************************************************************)
LEMMA Limits ==
    /\ PageSize \in Nat \ {0} /\ MaxPages \in Nat \ {0} /\ MaxHolders \in Nat
    /\ \A n \in 0..MaxPages - 1 :
          /\ n * PageSize \in Nat
          /\ n * PageSize + PageSize = (n + 1) * PageSize
          /\ n * PageSize + PageSize <= MaxHolders
          /\ n * PageSize + PageSize < MaxHolders => n + 1 \in 0..MaxPages - 1
  <1>1. PageSize \in Nat \ {0} /\ MaxPages \in Nat \ {0}
    BY HolderScanAssumption
  <1>2. MaxHolders \in Nat
    BY <1>1 DEF MaxHolders
  <1>3. ASSUME NEW n \in 0..MaxPages - 1
        PROVE  /\ n * PageSize \in Nat
               /\ n * PageSize + PageSize = (n + 1) * PageSize
               /\ n * PageSize + PageSize <= MaxHolders
               /\ n * PageSize + PageSize < MaxHolders => n + 1 \in 0..MaxPages - 1
    <2>1. n \in Nat /\ n * PageSize \in Nat /\ n * PageSize + PageSize = (n + 1) * PageSize
      BY <1>1
    <2> DEFINE d == MaxPages - (n + 1)
    <2>2. d \in Nat /\ d * PageSize \in Nat
      BY <1>1
    <2>3. MaxHolders = (n + 1) * PageSize + d * PageSize
      <3>1. MaxPages = (n + 1) + d
        BY <1>1
      <3> HIDE DEF d
      <3> QED
        BY <1>1, <2>1, <2>2, <3>1 DEF MaxHolders
    <2>4. d = 0 => d * PageSize = 0
      BY <1>1
    <2>5. d # 0 => n + 1 \in 0..MaxPages - 1
      BY <1>1
    <2> DEFINE p == n * PageSize
               q == d * PageSize
    <2>6. p \in Nat /\ q \in Nat /\ MaxHolders = (p + PageSize) + q
      BY <2>1, <2>2, <2>3
    <2> HIDE DEF d, p, q
    <2>7. p + PageSize <= MaxHolders /\ (p + PageSize < MaxHolders => q # 0)
      BY <1>1, <2>6
    <2>8. p + PageSize < MaxHolders => n + 1 \in 0..MaxPages - 1
      BY <2>4, <2>5, <2>7, Zenon DEF q
    <2> QED
      BY <2>1, <2>7, <2>8, Zenon DEF p
  <1> QED
    BY <1>1, <1>2, <1>3

LEMMA Times ==
    /\ HoldersTtl \in Nat \ {0} /\ AnalysisTtl \in Nat \ {0} /\ MaxLatency \in Nat
    /\ Age("holders") = HoldersTtl + MaxLatency
    /\ Age("analysis") = HoldersTtl + AnalysisTtl + 2 * MaxLatency
    /\ \A k \in Keys : Age(k) \in Nat
  BY HolderScanAssumption DEF Age, Keys

LEMMA LeastOf ==
    ASSUME NEW a \in Nat, NEW b \in Nat
    PROVE  Least(a, b) \in Nat /\ Least(a, b) <= a /\ Least(a, b) <= b
  BY DEF Least

LEMMA EndsOfList ==
    ASSUME NEW list \in Seq(Wallets)
    PROVE  /\ Passed(list, 0) = {}
           /\ \A offset \in Nat : Len(list) <= offset => Passed(list, offset) = ToSet(list)
  <1>1. Len(list) \in Nat /\ ToSet(list) = {list[k] : k \in 1..Len(list)}
    BY LenProperties, SetOfPlaces
  <1>2. Passed(list, 0) = {}
    BY <1>1 DEF Passed
  <1>3. ASSUME NEW offset \in Nat, Len(list) <= offset
        PROVE  Passed(list, offset) = ToSet(list)
    <2>1. \A k \in 1..Len(list) : k <= offset
      BY <1>1, <1>3
    <2> QED
      BY <1>1, <2>1, Zenon DEF Passed
  <1> QED
    BY <1>2, <1>3

LEMMA EmptyList ==
    <<>> \in Seq(Wallets) /\ Len(<<>>) = 0 /\ ToSet(<<>>) = {} /\ Cardinality({}) = 0
  BY FS_EmptySet DEF ToSet

LEMMA IdleScan ==
    /\ Idle \in Scans /\ Len(Idle.got) = 0
    /\ Idle.at = "idle" /\ Idle.born = 0 /\ Idle.began = 0
  <1>1. <<>> \in Seq(Wallets) /\ Len(<<>>) = 0
    OBVIOUS
  <1> QED
    BY <1>1 DEF Idle, Scans, Stages, Busy, Reading, Ended

LEMMA InitIInv == Init => IInv
  <1> SUFFICES ASSUME Init
               PROVE  IInv
    OBVIOUS
  <1>1. ledger \in Seq(Wallets) /\ IsInjective(ledger)
    <2>1. Cardinality(Wallets) \in Nat
      BY HolderScanAssumption, FS_CardinalityType
    <2>2. PICK n \in 0..Cardinality(Wallets) : ledger \in Injection(1..n, Wallets)
      BY DEF Init
    <2>3. ledger \in [1..n -> Wallets] /\ IsInjective(ledger)
      BY <2>2, Zenon DEF Injection
    <2>4. n \in Nat
      BY <2>1
    <2> QED
      BY <2>3, <2>4, SeqDef
  <1>2. /\ left \in [moves : Nat, ticks : Nat, calls : Nat]
        /\ faults \in 0..MaxFaults /\ now \in Nat
    BY HolderScanAssumption DEF Init
  <1>3. cache \in [Keys -> Lists \cup {None}] /\ \A k \in Keys : cache[k] = None
    BY DEF Init
  <1>4. scan \in [Callers -> Scans] /\ \A c \in Callers : scan[c] = Idle
    BY IdleScan DEF Init
  <1>5. Sound(Idle, ledger, now)
    <2>1. Idle.at \notin Busy /\ Idle.at \notin Reading \cup Stored
          /\ Idle.at \notin {"storeAnalysis", "answered", "pages", "rpc"}
      BY IdleScan DEF Busy, Reading, Stored
    <2>2. Len(Idle.got) <= MaxHolders
      BY Limits, IdleScan
    <2> QED
      BY <2>1, <2>2, IdleScan, Zenon DEF Sound, Timely, Stored
  <1> QED
    BY <1>1, <1>2, <1>3, <1>4, <1>5 DEF IInv, Typed, Fresh

-----------------------------------------------------------------------------
(***************************************************************************)
(* A move.                                                                 *)
(***************************************************************************)
LEMMA MovePartway ==
    ASSUME NEW s \in Scans, NEW list \in Seq(Wallets), IsInjective(list),
           NEW other \in Moved(list), Partway(s, list)
    PROVE  LET t == [s EXCEPT !.moves = @ + 1, !.steady = @ \cap ToSet(other)]
           IN  t \in Scans /\ Partway(t, other)
  <1> DEFINE t == [s EXCEPT !.moves = @ + 1, !.steady = @ \cap ToSet(other)]
             o == s.offset
             g == ToSet(s.got)
  <1>1. /\ o \in Nat /\ s.got \in Seq(Wallets) /\ s.moves \in Nat
        /\ s.steady \subseteq Wallets
    BY DEF Scans
  <1>2. /\ t \in Scans /\ t.offset = o /\ t.got = s.got /\ t.moves = s.moves + 1
        /\ t.steady = s.steady \cap ToSet(other)
    <2> DEFINE kept == s.steady \cap ToSet(other)
    <2>1. kept \in SUBSET Wallets
      BY <1>1
    <2> HIDE DEF kept
    <2>2. t = [s EXCEPT !.moves = s.moves + 1, !.steady = kept]
      BY DEF kept
    <2> HIDE DEF t
    <2>3. t = [at |-> s.at, offset |-> s.offset, got |-> s.got, born |-> s.born,
               began |-> s.began, moves |-> s.moves + 1, steady |-> kept]
      BY <2>2 DEF Scans
    <2>4. s.at \in Stages /\ s.born \in Nat /\ s.began \in Nat /\ s.moves + 1 \in Nat
      BY DEF Scans
    <2>5. t \in Scans
      BY <1>1, <2>1, <2>3, <2>4 DEF Scans
    <2>6. t.offset = o /\ t.got = s.got /\ t.moves = s.moves + 1 /\ t.steady = kept
      BY <2>3
    <2> QED
      BY <2>5, <2>6, Zenon DEF kept
  <1> HIDE DEF t
  <1>14. /\ \E x : Passed(other, o) \subseteq Passed(list, o) \cup {x}
        /\ \E y : Ahead(other, o) \subseteq Ahead(list, o) \cup {y}
    <2> HIDE DEF o
    <2> QED
      BY <1>1, MovedPlaces, Zenon
  <1>3. PICK x : Passed(other, o) \subseteq Passed(list, o) \cup {x}
    BY <1>14, Zenon
  <1>4. PICK y : Ahead(other, o) \subseteq Ahead(list, o) \cup {y}
    BY <1>14, Zenon
  <1>5. IsFiniteSet(g) /\ Cardinality(g) \in Nat /\ Len(s.got) \in Nat
    BY <1>1, FiniteList, LenProperties
  <1>6. IsFiniteSet(Missed(s, list)) /\ IsFiniteSet(Again(s, list))
    <2>1. Missed(s, list) \subseteq Wallets
      BY <1>1 DEF Missed
    <2>2. Again(s, list) \subseteq g
      BY DEF Again
    <2> QED
      BY <1>5, <2>1, <2>2, Smaller, HolderScanAssumption
  <1>7. Cardinality(Missed(s, list)) \in Nat /\ Cardinality(Again(s, list)) \in Nat
    BY <1>6, FS_CardinalityType
  <1>8. /\ Cardinality(Missed(t, other)) \in Nat
        /\ Cardinality(Missed(t, other)) <= Cardinality(Missed(s, list)) + 1
    <2>1. Missed(t, other) \subseteq Missed(s, list) \cup {x}
      BY <1>2, <1>3, Zenon DEF Missed
    <2> QED
      BY <1>6, <2>1, OneMore
  <1>9. /\ Cardinality(Again(t, other)) \in Nat
        /\ Cardinality(Again(t, other)) <= Cardinality(Again(s, list)) + 1
    <2>1. Again(t, other) \subseteq Again(s, list) \cup {y}
      BY <1>2, <1>4, Zenon DEF Again
    <2> QED
      BY <1>6, <2>1, OneMore
  <1>10. \E n \in 0..MaxPages - 1 : t.offset = n * PageSize
    BY <1>2, Zenon DEF Partway
  <1>11. Len(t.got) = t.offset /\ t.steady \subseteq ToSet(other)
    BY <1>2 DEF Partway
  <1>12. Cardinality(Missed(t, other)) <= t.moves
    <2>1. Cardinality(Missed(s, list)) <= s.moves
      BY DEF Partway
    <2> QED
      BY <1>1, <1>2, <1>7, <1>8, <2>1
  <1>13. Len(t.got) + Cardinality(Again(t, other)) <= Cardinality(ToSet(t.got)) + t.moves
    <2>1. Len(s.got) + Cardinality(Again(s, list)) <= Cardinality(g) + s.moves
      BY DEF Partway
    <2> QED
      BY <1>1, <1>2, <1>5, <1>7, <1>9, <2>1
  <1> QED
    BY <1>2, <1>10, <1>11, <1>12, <1>13 DEF Partway, t

LEMMA MoveKeeps == ASSUME IInv, Move PROVE IInv'
  <1>1. /\ ledger \in Seq(Wallets) /\ IsInjective(ledger) /\ scan \in [Callers -> Scans]
        /\ \A c \in Callers : Sound(scan[c], ledger, now)
    BY DEF IInv, Typed
  <1>2. ledger' \in Moved(ledger)
    BY DEF Move
  <1>3. ledger' \in Seq(Wallets) /\ IsInjective(ledger')
    <2>1. 0 \in Nat
      OBVIOUS
    <2> QED
      BY <1>1, <1>2, <2>1, MovedPlaces, Zenon
  <1>4. UNCHANGED <<faults, now, cache>>
    BY DEF Move
  <1>5. left' \in [moves : Nat, ticks : Nat, calls : Nat]
    <2>1. left \in [moves : Nat, ticks : Nat, calls : Nat]
      BY DEF IInv, Typed
    <2>2. left.moves > 0 /\ left' = [left EXCEPT !.moves = @ - 1]
      BY DEF Move
    <2>3. left.moves - 1 \in Nat
      BY <2>1, <2>2
    <2> QED
      BY <2>1, <2>2, <2>3
  <1> DEFINE Next1(c) == [scan[c] EXCEPT !.moves = @ + 1, !.steady = @ \cap ToSet(ledger')]
  <1>6. scan' = [c \in Callers |-> IF At(c, "pages") THEN Next1(c) ELSE scan[c]]
    BY DEF Move
  <1>7. ASSUME NEW c \in Callers
        PROVE  scan'[c] \in Scans /\ Sound(scan'[c], ledger', now)
    <2>1. scan[c] \in Scans /\ Sound(scan[c], ledger, now)
      BY <1>1
    <2>2. CASE At(c, "pages")
      <3> DEFINE t == Next1(c)
      <3>1. scan'[c] = t
        BY <1>6, <2>2
      <3>2. scan[c].at = "pages" /\ Partway(scan[c], ledger)
        BY <2>1, <2>2 DEF At, Sound
      <3>3. t \in Scans /\ Partway(t, ledger')
        BY <1>1, <1>2, <2>1, <3>2, MovePartway, Zenon
      <3>4. t.at = "pages" /\ t.got = scan[c].got /\ t.born = scan[c].born /\ t.began = scan[c].began
        BY <2>1, <3>2 DEF Scans
      <3> HIDE DEF t
      <3>5. t.at \notin Stored /\ t.at # "rpc"
        BY <3>4 DEF Stored
      <3>6. Timely(t, now)
        BY <2>1, <3>2, <3>4, Zenon DEF Sound, Timely
      <3>7. Len(t.got) <= MaxHolders
        BY <2>1, <3>4, Zenon DEF Sound
      <3> QED
        BY <3>1, <3>3, <3>5, <3>6, <3>7, Zenon DEF Sound
    <2>3. CASE ~At(c, "pages")
      <3>1. scan'[c] = scan[c]
        BY <1>6, <2>3
      <3>2. scan[c].at # "pages"
        BY <2>3 DEF At
      <3>3. Sound(scan[c], ledger', now)
        BY <2>1, <3>2, Zenon DEF Sound
      <3> QED
        BY <2>1, <3>1, <3>3, Zenon
    <2> QED
      BY <2>2, <2>3
  <1>8. scan' \in [Callers -> Scans]
    <2>1. scan' = [c \in Callers |-> scan'[c]]
      BY <1>6
    <2> QED
      BY <1>7, <2>1, Zenon
  <1> QED
    BY <1>3, <1>4, <1>5, <1>7, <1>8 DEF IInv, Typed

LEMMA TickKeeps == ASSUME IInv, Tick PROVE IInv'
  <1>1. /\ cache \in [Keys -> Lists \cup {None}]
        /\ now \in Nat /\ now' = now + 1 /\ scan \in [Callers -> Scans]
        /\ \A k \in Keys : Fresh(k, cache[k], now)
        /\ \A c \in Callers : Sound(scan[c], ledger, now)
    BY DEF IInv, Typed, Tick
  <1>2. left' \in [moves : Nat, ticks : Nat, calls : Nat]
    <2>1. left \in [moves : Nat, ticks : Nat, calls : Nat]
      BY DEF IInv, Typed
    <2>2. left.ticks > 0 /\ left' = [left EXCEPT !.ticks = @ - 1]
      BY DEF Tick
    <2>3. left.ticks - 1 \in Nat
      BY <2>1, <2>2
    <2> QED
      BY <2>1, <2>2, <2>3
  <1>3. cache' = [k \in Keys |->
                    IF cache[k] # None /\ cache[k].expires <= now' THEN None ELSE cache[k]]
    BY DEF Tick
  <1>4. UNCHANGED <<faults, ledger, scan>>
    BY DEF Tick
  <1>5. cache' \in [Keys -> Lists \cup {None}]
    <2>1. \A k \in Keys : cache[k] \in Lists \cup {None}
      BY <1>1
    <2> QED
      BY <1>3, <2>1, Zenon
  <1>6. ASSUME NEW k \in Keys
        PROVE  Fresh(k, cache'[k], now')
    <2>1. CASE cache[k] # None /\ cache[k].expires <= now'
      BY <1>3, <2>1, Zenon DEF Fresh
    <2>2. CASE ~(cache[k] # None /\ cache[k].expires <= now')
      <3>1. cache'[k] = cache[k]
        BY <1>3, <2>2, Zenon
      <3>2. CASE cache[k] = None
        BY <3>1, <3>2, Zenon DEF Fresh
      <3>3. CASE cache[k] # None
        <4>1. cache[k].expires \in Nat
          BY <1>1, <3>3 DEF Lists
        <4>2. now' < cache[k].expires
          BY <1>1, <2>2, <3>3, <4>1
        <4> QED
          BY <1>1, <3>1, <4>2, Zenon DEF Fresh
      <3> QED
        BY <3>2, <3>3
    <2> QED
      BY <2>1, <2>2
  <1>7. ASSUME NEW c \in Callers
        PROVE  Sound(scan[c], ledger, now')
    <2>1. scan[c] \in Scans /\ Sound(scan[c], ledger, now)
      BY <1>1
    <2>2. scan[c].began \in Nat /\ MaxLatency \in Nat
      BY <2>1, Times DEF Scans
    <2>3. scan[c].at \in Busy => now < scan[c].began + MaxLatency
      BY DEF Tick, Running
    <2>4. scan[c].at \in Busy => scan[c].began <= now
      BY <2>1, Zenon DEF Sound, Timely
    <2>5. scan[c].at \in Busy => scan[c].began <= now' /\ now' <= scan[c].began + MaxLatency
      BY <1>1, <2>2, <2>3, <2>4
    <2>6. Timely(scan[c], now')
      BY <2>1, <2>5, Zenon DEF Sound, Timely
    <2> QED
      BY <2>1, <2>6, Zenon DEF Sound
  <1> QED
    BY <1>1, <1>2, <1>4, <1>5, <1>6, <1>7 DEF IInv, Typed

-----------------------------------------------------------------------------
(***************************************************************************)
(* The steps of a call.                                                    *)
(***************************************************************************)
LEMMA StepOfOne ==
    ASSUME IInv, NEW c \in Callers, NEW s \in Scans, scan' = [scan EXCEPT ![c] = s],
           Sound(s, ledger, now), UNCHANGED <<now, ledger>>,
           left' \in [moves : Nat, ticks : Nat, calls : Nat], faults' \in 0..MaxFaults,
           cache' \in [Keys -> Lists \cup {None}],
           \A k \in Keys : Fresh(k, cache'[k], now)
    PROVE  IInv'
  <1>1. ledger \in Seq(Wallets) /\ IsInjective(ledger) /\ now \in Nat
        /\ scan \in [Callers -> Scans] /\ \A d \in Callers : Sound(scan[d], ledger, now)
    BY DEF IInv, Typed
  <1>2. scan' \in [Callers -> Scans]
    BY <1>1
  <1>3. \A d \in Callers : Sound(scan'[d], ledger, now)
    <2>1. \A d \in Callers : scan'[d] = IF d = c THEN s ELSE scan[d]
      BY <1>1
    <2> QED
      BY <1>1, <2>1, Zenon
  <1> QED
    BY <1>1, <1>2, <1>3 DEF IInv, Typed

\* The same, when the cache stays as it is.
LEMMA StepWithoutCache ==
    ASSUME IInv, NEW c \in Callers, NEW s \in Scans, scan' = [scan EXCEPT ![c] = s],
           Sound(s, ledger, now), UNCHANGED <<left, now, ledger, cache>>,
           faults' \in 0..MaxFaults
    PROVE  IInv'
  <1>1. /\ left \in [moves : Nat, ticks : Nat, calls : Nat]
        /\ cache \in [Keys -> Lists \cup {None}]
        /\ \A k \in Keys : Fresh(k, cache[k], now)
    BY DEF IInv, Typed
  <1>2. cache' = cache /\ left' = left
    OBVIOUS
  <1> QED
    BY <1>1, <1>2, StepOfOne

LEMMA Failures ==
    ASSUME IInv, Well \/ Fault
    PROVE  faults' \in 0..MaxFaults
  BY HolderScanAssumption DEF IInv, Typed, Well, Fault

\* What a call is.
LEMMA CallOf ==
    ASSUME IInv, NEW c \in Callers
    PROVE  LET s == scan[c]
           IN  /\ s \in Scans /\ Sound(s, ledger, now)
               /\ s.at \in Stages /\ s.offset \in Nat /\ s.got \in Seq(Wallets)
               /\ s.born \in Nat /\ s.began \in Nat /\ s.moves \in Nat
               /\ s.steady \in SUBSET Wallets
               /\ s = [at |-> s.at, offset |-> s.offset, got |-> s.got, born |-> s.born,
                       began |-> s.began, moves |-> s.moves, steady |-> s.steady]
  <1>1. scan[c] \in Scans /\ Sound(scan[c], ledger, now)
    BY DEF IInv, Typed
  <1> QED
    BY <1>1 DEF Scans

\* A call that ends, or looks elsewhere, keeps what it holds.
Plain == {"holders", "metadata", "null", "threw"}

LEMMA GotoKeeps ==
    ASSUME IInv, NEW c \in Callers, NEW stage \in Plain, Goto(c, stage),
           Running(c)
    PROVE  LET s == [scan[c] EXCEPT !.at = stage]
           IN  s \in Scans /\ Sound(s, ledger, now) /\ scan' = [scan EXCEPT ![c] = s]
  <1> DEFINE r == scan[c]
             s == [r EXCEPT !.at = stage]
  <1>1. /\ r \in Scans /\ Sound(r, ledger, now)
        /\ r = [at |-> r.at, offset |-> r.offset, got |-> r.got, born |-> r.born,
                began |-> r.began, moves |-> r.moves, steady |-> r.steady]
    BY CallOf
  <1>2. r.at \in Busy
    BY DEF Running
  <1>3. scan' = [scan EXCEPT ![c] = s]
    BY DEF Goto
  <1> HIDE DEF r
  <1>4. s = [at |-> stage, offset |-> r.offset, got |-> r.got, born |-> r.born,
             began |-> r.began, moves |-> r.moves, steady |-> r.steady]
    BY <1>1
  <1>5. stage \in Stages
    BY DEF Plain, Stages, Busy, Ended, Reading
  <1>6. s \in Scans
    BY <1>1, <1>4, <1>5 DEF Scans
  <1>7. s.at = stage /\ s.began = r.began /\ s.got = r.got
    BY <1>4
  <1> HIDE DEF s
  <1>8. stage \notin {"pages", "rpc", "storeAnalysis", "answered"} /\ stage \notin Reading \cup Stored
    BY DEF Plain, Reading, Stored
  <1>9. r.began <= now /\ now <= r.began + MaxLatency
    BY <1>1, <1>2, Zenon DEF Sound, Timely
  <1>10. Timely(s, now)
    BY <1>7, <1>8, <1>9, Zenon DEF Timely
  <1>11. Len(s.got) <= MaxHolders
    BY <1>1, <1>7, Zenon DEF Sound
  <1>12. Sound(s, ledger, now)
    <2>1. stage \notin Stored /\ stage # "pages" /\ stage # "rpc"
      BY <1>8
    <2> QED
      BY <1>7, <1>10, <1>11, <2>1, Zenon DEF Sound
  <1> QED
    BY <1>3, <1>6, <1>12 DEF s, r

\* The beginning of a scan: nothing is passed yet.
LEMMA BeginKeeps ==
    ASSUME IInv, NEW c \in Callers, NEW stage \in Reading, Begin(c, stage), Running(c)
    PROVE  \E s \in Scans : Sound(s, ledger, now) /\ scan' = [scan EXCEPT ![c] = s]
  <1> DEFINE r == scan[c]
             s == [r EXCEPT !.at = stage, !.offset = 0, !.got = <<>>, !.born = now,
                            !.moves = 0, !.steady = ToSet(ledger)]
  <1>1. r \in Scans /\ Sound(r, ledger, now) /\ r.began \in Nat
    BY CallOf
  <1>2. r.at \in Busy
    BY DEF Running
  <1>3. scan' = [scan EXCEPT ![c] = s]
    BY DEF Begin
  <1> HIDE DEF r
  <1>4. ledger \in Seq(Wallets) /\ now \in Nat
    BY DEF IInv, Typed
  <1>5. ToSet(ledger) \in SUBSET Wallets
    BY <1>4, SetOfPlaces
  <1>6. stage \in Stages /\ (stage = "pages" \/ stage = "rpc") /\ stage \notin Stored
    BY DEF Stages, Busy, Reading, Stored
  <1>7. /\ s \in Scans
        /\ s.at = stage /\ s.offset = 0 /\ s.got = <<>> /\ s.born = now
        /\ s.began = r.began /\ s.moves = 0 /\ s.steady = ToSet(ledger)
    <2> DEFINE got == <<>>
               all == ToSet(ledger)
    <2>1. got \in Seq(Wallets) /\ all \in SUBSET Wallets
      BY <1>5, EmptyList
    <2>2. s = [r EXCEPT !.at = stage, !.offset = 0, !.got = got, !.born = now,
                        !.moves = 0, !.steady = all]
      OBVIOUS
    <2> HIDE DEF s, got, all
    <2>3. /\ s \in Scans
          /\ s.at = stage /\ s.offset = 0 /\ s.got = got /\ s.born = now
          /\ s.began = r.began /\ s.moves = 0 /\ s.steady = all
      <3>1. s \in Scans
        BY <1>1, <1>4, <1>6, <2>1, <2>2 DEF Scans
      <3>2. s.at = stage /\ s.offset = 0 /\ s.got = got /\ s.born = now
        BY <1>1, <1>4, <1>6, <2>1, <2>2 DEF Scans
      <3>3. s.began = r.began /\ s.moves = 0 /\ s.steady = all
        BY <1>1, <1>4, <1>6, <2>1, <2>2 DEF Scans
      <3> QED
        BY <3>1, <3>2, <3>3
    <2> QED
      BY <2>3, Zenon DEF got, all
  <1>8. r.began <= now /\ now <= r.began + MaxLatency
    BY <1>1, <1>2, Zenon DEF Sound, Timely
  <1> HIDE DEF s
  <1>9. Timely(s, now)
    <2>1. stage # "storeAnalysis" /\ stage # "answered"
      BY <1>6
    <2> QED
      BY <1>8, <1>7, <2>1, Zenon DEF Timely
  <1>10. Partway(s, ledger)
    <2>1. \E n \in 0..MaxPages - 1 : s.offset = n * PageSize
      <3>1. 0 \in 0..MaxPages - 1 /\ 0 = 0 * PageSize
        BY Limits
      <3> QED
        BY <1>7, <3>1, Zenon
    <2>2. Missed(s, ledger) = {} /\ Again(s, ledger) = {}
      BY <1>4, <1>7, EmptyList, EndsOfList DEF Missed, Again
    <2>3. Len(s.got) = s.offset /\ s.steady \subseteq ToSet(ledger)
      BY <1>7, EmptyList
    <2>4. Cardinality(Missed(s, ledger)) <= s.moves
      BY <1>7, <2>2, EmptyList
    <2>5. Len(s.got) + Cardinality(Again(s, ledger)) <= Cardinality(ToSet(s.got)) + s.moves
      <3>1. Len(s.got) = 0 /\ Cardinality(Again(s, ledger)) = 0
            /\ Cardinality(ToSet(s.got)) = 0 /\ s.moves = 0
        BY <1>7, <2>2, EmptyList, Zenon
      <3> QED
        BY <3>1
    <2> QED
      BY <2>1, <2>3, <2>4, <2>5 DEF Partway
  <1>11. Len(s.got) <= MaxHolders
    BY <1>7, EmptyList, Limits
  <1>12. Sound(s, ledger, now)
    BY <1>6, <1>7, <1>9, <1>10, <1>11, Zenon DEF Sound
  <1> QED
    BY <1>3, <1>7, <1>12, Zenon

\* One more page: the counts of the invariant stay as they are.
LEMMA PageRead ==
    ASSUME ledger \in Seq(Wallets), IsInjective(ledger), NEW s \in Scans, Partway(s, ledger)
    PROVE  LET page == Page(s.offset)
               got == s.got \o page
               next == s.offset + PageSize
               missed == (Passed(ledger, next) \cap s.steady) \ ToSet(got)
               again == ToSet(got) \cap Ahead(ledger, next)
           IN  /\ got \in Seq(Wallets)
               /\ Len(page) \in 0..PageSize /\ Len(got) = s.offset + Len(page)
               /\ Len(page) < PageSize => Passed(ledger, next) = ToSet(ledger)
               /\ Cardinality(missed) <= s.moves
               /\ Len(got) + Cardinality(again) <= Cardinality(ToSet(got)) + s.moves
  <1> DEFINE o == s.offset
             page == Page(o)
             got == s.got \o page
             next == o + PageSize
             g == ToSet(s.got)
             q == ToSet(page)
             ahead == Ahead(ledger, next)
             missed == (Passed(ledger, next) \cap s.steady) \ ToSet(got)
             again == ToSet(got) \cap ahead
  <1>1. /\ o \in Nat /\ s.got \in Seq(Wallets) /\ s.moves \in Nat
        /\ s.steady \subseteq Wallets /\ PageSize \in Nat /\ next \in Nat
    BY Limits DEF Scans
  <1>2. /\ page \in Seq(Wallets) /\ IsInjective(page)
        /\ Len(page) \in 0..PageSize
        /\ Len(page) < PageSize => Len(ledger) < next
        /\ Passed(ledger, next) = Passed(ledger, o) \cup q
        /\ Ahead(ledger, o) = q \cup ahead
        /\ q \cap ahead = {}
    <2> HIDE DEF o
    <2> QED
      BY <1>1, PartPlaces DEF Page
  <1>3. /\ Len(s.got) = o
        /\ Cardinality(Missed(s, ledger)) <= s.moves
        /\ Len(s.got) + Cardinality(Again(s, ledger)) <= Cardinality(g) + s.moves
    BY DEF Partway
  <1>4. Missed(s, ledger) = (Passed(ledger, o) \cap s.steady) \ g
        /\ Again(s, ledger) = g \cap Ahead(ledger, o)
    BY DEF Missed, Again
  <1> HIDE DEF o, page, g, q, ahead, missed, again, next
  <1>5. /\ got \in Seq(Wallets) /\ Len(got) = o + Len(page)
        /\ ToSet(got) = g \cup q
    BY <1>1, <1>2, <1>3, JoinedLists, Zenon DEF g, q
  <1> HIDE DEF got
  <1>6. Len(page) < PageSize => Passed(ledger, next) = ToSet(ledger)
    <2>1. Len(ledger) \in Nat
      BY LenProperties
    <2>2. Len(ledger) < next => Len(ledger) <= next
      BY <1>1, <2>1
    <2> QED
      BY <1>1, <1>2, <2>2, EndsOfList, Zenon
  <1>7. /\ IsFiniteSet(g) /\ IsFiniteSet(q) /\ Cardinality(q) = Len(page)
    BY <1>1, <1>2, FiniteList, Zenon DEF g, q
  <1>8. Cardinality(missed) <= s.moves
    <2>1. missed \subseteq Missed(s, ledger)
      BY <1>2, <1>4, <1>5, Zenon DEF missed
    <2>2. IsFiniteSet(Missed(s, ledger))
      <3>1. Missed(s, ledger) \subseteq Wallets
        BY <1>1, <1>4
      <3> QED
        BY <3>1, Smaller, HolderScanAssumption
    <2>3. Cardinality(missed) \in Nat /\ Cardinality(Missed(s, ledger)) \in Nat
          /\ Cardinality(missed) <= Cardinality(Missed(s, ledger))
      BY <2>1, <2>2, Smaller, Zenon
    <2> QED
      BY <1>1, <1>3, <2>3
  <1>9. Len(got) + Cardinality(again) <= Cardinality(ToSet(got)) + s.moves
    <2> DEFINE a == g \cap q
               b == g \cap ahead
    <2>1. IsFiniteSet(a) /\ IsFiniteSet(b)
      <3>1. a \subseteq g /\ b \subseteq g
        OBVIOUS
      <3> QED
        BY <1>7, <3>1, Smaller, Zenon
    <2>2. /\ Cardinality(g \cup q) + Cardinality(a) = Cardinality(g) + Cardinality(q)
          /\ Cardinality(g) \in Nat /\ Cardinality(q) \in Nat /\ Cardinality(a) \in Nat
          /\ Cardinality(g \cup q) \in Nat
      BY <1>7, Together
    <2>3. a \cap b = {} /\ a \cup b = Again(s, ledger)
      BY <1>2, <1>4
    <2>4. again = b
      BY <1>2, <1>5 DEF again
    <2> HIDE DEF a, b
    <2>5. /\ Cardinality(a \cup b) + Cardinality(a \cap b) = Cardinality(a) + Cardinality(b)
          /\ Cardinality(b) \in Nat /\ Cardinality(a \cup b) \in Nat
      BY <2>1, Together
    <2>6. Cardinality(Again(s, ledger)) = Cardinality(a) + Cardinality(b)
          /\ Cardinality(Again(s, ledger)) \in Nat
      <3>1. Cardinality(a \cap b) = 0
        BY <2>3, FS_EmptySet, Zenon
      <3>2. Cardinality(Again(s, ledger)) = Cardinality(a \cup b)
        BY <2>3, Zenon
      <3> QED
        BY <2>2, <2>5, <3>1, <3>2
    <2>7. Len(got) = o + Cardinality(q) /\ ToSet(got) = g \cup q
      BY <1>5, <1>7
    <2>8. o + Cardinality(q) + Cardinality(b) <= Cardinality(g \cup q) + s.moves
      <3>1. o + (Cardinality(a) + Cardinality(b)) <= Cardinality(g) + s.moves
        BY <1>3, <2>6, Zenon
      <3> QED
        BY <1>1, <2>2, <2>5, <3>1
    <2> QED
      BY <2>4, <2>7, <2>8
  <1> QED
    BY <1>2, <1>5, <1>6, <1>8, <1>9 DEF o, page, got, next, missed, again, ahead

\* Whom a list of a set leaves out.
LEMMA LeftOut ==
    ASSUME NEW T, IsFiniteSet(T), NEW U, IsFiniteSet(U)
    PROVE  /\ Cardinality(T) \in Nat /\ Cardinality(U) \in Nat /\ Cardinality(T \ U) \in Nat
           /\ Cardinality(T) <= Cardinality(U) + Cardinality(T \ U)
  <1> DEFINE a == T \cap U
             b == T \ U
  <1>1. /\ IsFiniteSet(a) /\ Cardinality(a) \in Nat /\ Cardinality(U) \in Nat
        /\ Cardinality(a) <= Cardinality(U)
    <2>1. a \subseteq U
      OBVIOUS
    <2> QED
      BY <2>1, Smaller, Zenon
  <1>2. IsFiniteSet(b) /\ Cardinality(b) \in Nat
    <2>1. b \subseteq T
      OBVIOUS
    <2> QED
      BY <2>1, Smaller, Zenon
  <1>3. a \cup b = T /\ a \cap b = {}
    OBVIOUS
  <1> HIDE DEF a, b
  <1>4. Cardinality(a \cup b) + Cardinality(a \cap b) = Cardinality(a) + Cardinality(b)
        /\ Cardinality(a \cup b) \in Nat
    BY <1>1, <1>2, Together
  <1>5. Cardinality(T) = Cardinality(a) + Cardinality(b) /\ Cardinality(T) \in Nat
    BY <1>1, <1>2, <1>3, <1>4, FS_EmptySet
  <1> QED
    BY <1>1, <1>2, <1>5 DEF b

LEMMA ReadPageKeeps == ASSUME IInv, NEW c \in Callers, ReadPage(c), UNCHANGED <<left, now, ledger, cache>>
                       PROVE  IInv'
  <1> DEFINE r == scan[c]
             o == r.offset
             page == Page(o)
             got == r.got \o page
             next == o + PageSize
             g == ToSet(got)
             missed == (Passed(ledger, next) \cap r.steady) \ g
             again == g \cap Ahead(ledger, next)
             over == Len(page) < PageSize \/ next >= MaxPages * PageSize
  <1>1. /\ r \in Scans /\ Sound(r, ledger, now)
        /\ o \in Nat /\ r.got \in Seq(Wallets) /\ r.moves \in Nat /\ r.steady \in SUBSET Wallets
    BY CallOf
  <1>2. At(c, "pages") /\ r.at = "pages" /\ faults' \in 0..MaxFaults
    BY Failures DEF ReadPage, At
  <1>3. Running(c)
    BY <1>2 DEF Running, Busy, Reading
  <1>4. \/ over /\ Read(c, got)
        \/ ~over /\ scan' = [scan EXCEPT ![c].got = got, ![c].offset = next]
        \/ Begin(c, "rpc")
    BY DEF ReadPage
  <1>5. ledger \in Seq(Wallets) /\ IsInjective(ledger)
    BY DEF IInv, Typed
  <1>6. Partway(r, ledger) /\ Timely(r, now)
    BY <1>1, <1>2, Zenon DEF Sound
  <1> HIDE DEF r
  <1>7. /\ got \in Seq(Wallets)
        /\ Len(page) \in 0..PageSize /\ Len(got) = o + Len(page)
        /\ Len(page) < PageSize => Passed(ledger, next) = ToSet(ledger)
        /\ Cardinality(missed) <= r.moves
        /\ Len(got) + Cardinality(again) <= Cardinality(g) + r.moves
    BY <1>1, <1>5, <1>6, PageRead
  <1>8. PICK n \in 0..MaxPages - 1 : o = n * PageSize
    BY <1>6, Zenon DEF Partway
  <1>9. /\ PageSize \in Nat \ {0} /\ MaxHolders \in Nat /\ next \in Nat
        /\ MaxPages * PageSize = MaxHolders
        /\ next = (n + 1) * PageSize /\ next <= MaxHolders
        /\ next < MaxHolders => n + 1 \in 0..MaxPages - 1
    BY <1>8, Limits DEF MaxHolders
  <1> HIDE DEF o, page, missed, again, next, over
  <1>10. Len(got) \in Nat /\ Len(got) <= MaxHolders
    <2>1. Len(got) <= next
      BY <1>1, <1>7, <1>9 DEF next
    <2>2. Len(got) \in Nat
      BY <1>7, LenProperties
    <2> QED
      BY <1>9, <2>1, <2>2
  <1>11. IsFiniteSet(g) /\ IsFiniteSet(missed) /\ IsFiniteSet(again)
         /\ Cardinality(g) \in Nat /\ Cardinality(missed) \in Nat /\ Cardinality(again) \in Nat
    <2>1. IsFiniteSet(g) /\ Cardinality(g) \in Nat
      BY <1>7, FiniteList, Zenon
    <2>2. missed \subseteq Wallets /\ again \subseteq g
      BY <1>1 DEF missed, again
    <2> QED
      BY <2>1, <2>2, Smaller, HolderScanAssumption
  <1> HIDE DEF g, got
  <1>12. r.began <= now /\ now <= r.began + MaxLatency /\ r.began <= r.born
    BY <1>2, <1>6 DEF Timely, Busy, Reading
  <1>13. CASE Begin(c, "rpc")
    <2>1. "rpc" \in Reading
      BY DEF Reading
    <2>2. \E s \in Scans : Sound(s, ledger, now) /\ scan' = [scan EXCEPT ![c] = s]
      BY <1>3, <1>13, <2>1, BeginKeeps, Zenon
    <2> QED
      BY <1>2, <2>2, StepWithoutCache, Zenon
  <1>14. CASE over /\ scan' = [scan EXCEPT ![c].at = "storeHolders", ![c].got = got]
    <2> DEFINE s == [r EXCEPT !.at = "storeHolders", !.got = got]
    <2>1. scan' = [scan EXCEPT ![c] = s]
      BY <1>14 DEF r
    <2>2. "storeHolders" \in Stages
      BY DEF Stages, Busy
    <2>3. /\ s \in Scans /\ s.at = "storeHolders" /\ s.got = got /\ s.began = r.began
          /\ s.born = r.born /\ s.moves = r.moves /\ s.steady = r.steady
      BY <1>1, <1>7, <2>2 DEF Scans
    <2> HIDE DEF s
    <2>4. Timely(s, now)
      BY <1>12, <2>3, Zenon DEF Timely
    <2>5. Len(s.got) <= Cardinality(ToSet(s.got)) + s.moves
      <3>1. Len(got) <= Cardinality(g) + r.moves
        BY <1>1, <1>7, <1>10, <1>11
      <3> QED
        BY <2>3, <3>1, Zenon DEF g
    <2>6. Cardinality(ToSet(s.got)) + s.moves >= Least(Cardinality(s.steady), MaxHolders)
      <3>1. IsFiniteSet(r.steady) /\ Cardinality(r.steady) \in Nat
        BY <1>1, Smaller, HolderScanAssumption
      <3>2. /\ Least(Cardinality(r.steady), MaxHolders) \in Nat
            /\ Least(Cardinality(r.steady), MaxHolders) <= Cardinality(r.steady)
            /\ Least(Cardinality(r.steady), MaxHolders) <= MaxHolders
        BY <1>9, <3>1, LeastOf
      <3>3. CASE Len(page) < PageSize
        <4>1. r.steady \ g = missed
          <5>1. r.steady \subseteq ToSet(ledger) /\ Passed(ledger, next) = ToSet(ledger)
            BY <1>6, <1>7, <3>3, Zenon DEF Partway
          <5> QED
            BY <5>1 DEF missed
        <4>2. Cardinality(r.steady) <= Cardinality(g) + Cardinality(missed)
          BY <1>11, <3>1, <4>1, LeftOut
        <4>3. Cardinality(g) + r.moves >= Least(Cardinality(r.steady), MaxHolders)
          BY <1>1, <1>7, <1>11, <3>1, <3>2, <4>2
        <4> QED
          BY <2>3, <4>3, Zenon DEF g
      <3>4. CASE ~(Len(page) < PageSize)
        <4>1. next >= MaxHolders /\ Len(page) = PageSize
          BY <1>7, <1>9, <1>14, <3>4 DEF over
        <4>2. Len(got) >= MaxHolders
          BY <1>1, <1>7, <1>9, <4>1 DEF next
        <4>3. Cardinality(g) + r.moves >= Least(Cardinality(r.steady), MaxHolders)
          BY <1>1, <1>7, <1>9, <1>10, <1>11, <3>2, <4>2
        <4> QED
          BY <2>3, <4>3, Zenon DEF g
      <3> QED
        BY <3>3, <3>4
    <2>7. Sound(s, ledger, now)
      BY <1>10, <2>3, <2>4, <2>5, <2>6 DEF Sound, Complete
    <2> QED
      BY <1>2, <2>1, <2>3, <2>7, StepWithoutCache, Zenon
  <1>15. CASE ~over /\ scan' = [scan EXCEPT ![c].got = got, ![c].offset = next]
    <2> DEFINE s == [r EXCEPT !.got = got, !.offset = next]
    <2>1. scan' = [scan EXCEPT ![c] = s]
      BY <1>15 DEF r
    <2>2. /\ s \in Scans /\ s.at = "pages" /\ s.got = got /\ s.began = r.began
          /\ s.born = r.born /\ s.moves = r.moves /\ s.steady = r.steady /\ s.offset = next
      BY <1>1, <1>2, <1>7, <1>9 DEF Scans
    <2> HIDE DEF s
    <2>3. Timely(s, now)
      BY <1>2, <1>12, <2>2, Zenon DEF Timely
    <2>4. next < MaxHolders /\ Len(page) = PageSize
      BY <1>7, <1>9, <1>15 DEF over
    <2>5. \E m \in 0..MaxPages - 1 : s.offset = m * PageSize
      BY <1>9, <2>2, <2>4, Zenon
    <2>6. Len(s.got) = s.offset
      BY <1>7, <2>2, <2>4 DEF next
    <2>7. s.steady \subseteq ToSet(ledger)
      BY <1>6, <2>2, Zenon DEF Partway
    <2>8. Missed(s, ledger) = missed /\ Again(s, ledger) = again
      BY <2>2, Zenon DEF Missed, Again, missed, again, g
    <2>9. Cardinality(Missed(s, ledger)) <= s.moves
      BY <1>7, <2>2, <2>8, Zenon
    <2>10. Len(s.got) + Cardinality(Again(s, ledger)) <= Cardinality(ToSet(s.got)) + s.moves
      BY <1>7, <2>2, <2>8, Zenon DEF g
    <2>11. Partway(s, ledger)
      BY <2>5, <2>6, <2>7, <2>9, <2>10, Zenon DEF Partway
    <2>12. Sound(s, ledger, now)
      <3>1. s.at \notin Stored /\ s.at # "rpc"
        BY <2>2 DEF Stored
      <3>2. Len(s.got) <= MaxHolders
        BY <1>10, <2>2, Zenon
      <3> QED
        BY <2>3, <2>11, <3>1, <3>2, Zenon DEF Sound
    <2> QED
      BY <1>2, <2>1, <2>2, <2>12, StepWithoutCache, Zenon
  <1> QED
    BY <1>4, <1>13, <1>14, <1>15 DEF Read

LEMMA CallKeeps == ASSUME IInv, NEW c \in Callers, Call(c) PROVE IInv'
  <1> DEFINE s == [Idle EXCEPT !.at = "analysis", !.began = now]
  <1>1. now \in Nat /\ cache \in [Keys -> Lists \cup {None}] /\ faults \in 0..MaxFaults
        /\ \A k \in Keys : Fresh(k, cache[k], now)
    BY DEF IInv, Typed
  <1>2. scan' = [scan EXCEPT ![c] = s] /\ UNCHANGED <<faults, now, ledger, cache>>
    BY DEF Call
  <1>3. "analysis" \in Stages /\ "analysis" \in Busy
    BY DEF Stages, Busy
  <1>4. s \in Scans /\ s.at = "analysis" /\ s.began = now /\ s.got = Idle.got
    BY <1>1, <1>3, IdleScan DEF Scans
  <1> HIDE DEF s
  <1>5. Timely(s, now)
    <2>1. now <= now /\ now <= now + MaxLatency
      BY <1>1, Times
    <2>2. s.at \notin Reading \cup Stored /\ s.at \notin {"storeAnalysis", "answered"}
      BY <1>4 DEF Reading, Stored
    <2> QED
      BY <1>4, <2>1, <2>2, Zenon DEF Timely
  <1>6. Sound(s, ledger, now)
    <2>1. s.at \notin Stored /\ s.at # "pages" /\ s.at # "rpc"
      BY <1>4 DEF Stored
    <2>2. Len(s.got) <= MaxHolders
      BY <1>4, IdleScan, Limits
    <2> QED
      BY <1>5, <2>1, <2>2, Zenon DEF Sound
  <1>7. left' \in [moves : Nat, ticks : Nat, calls : Nat]
    <2>1. left \in [moves : Nat, ticks : Nat, calls : Nat]
      BY DEF IInv, Typed
    <2>2. left.calls > 0 /\ left' = [left EXCEPT !.calls = @ - 1]
      BY DEF Call
    <2>3. left.calls - 1 \in Nat
      BY <2>1, <2>2
    <2> QED
      BY <2>1, <2>2, <2>3
  <1>8. /\ UNCHANGED <<now, ledger>> /\ faults' \in 0..MaxFaults
        /\ cache' \in [Keys -> Lists \cup {None}]
        /\ \A k \in Keys : Fresh(k, cache'[k], now)
    BY <1>1, <1>2
  <1> QED
    BY <1>2, <1>4, <1>6, <1>7, <1>8, StepOfOne

\* What is found has not expired: it is no older than its bound.
LEMMA FoundKeeps ==
    ASSUME IInv, NEW c \in Callers, NEW k \in Keys, NEW next \in Ended \cup {"storeAnalysis"},
           Found(c, k, next), Running(c),
           next = "storeAnalysis" => k = "holders"
    PROVE  \E s \in Scans : Sound(s, ledger, now) /\ scan' = [scan EXCEPT ![c] = s]
  <1> DEFINE r == scan[c]
             e == cache[k]
             s == [r EXCEPT !.at = next, !.got = e.list, !.born = e.born]
  <1>1. r \in Scans /\ Sound(r, ledger, now) /\ r.began \in Nat
    BY CallOf
  <1>2. scan' = [scan EXCEPT ![c] = s] /\ e # None
    BY DEF Found
  <1>3. e \in Lists /\ Fresh(k, e, now) /\ now \in Nat
    BY <1>2 DEF IInv, Typed
  <1>4. r.at \in Busy
    BY DEF Running
  <1> HIDE DEF r, e
  <1>5. /\ e.list \in Seq(Wallets) /\ e.born \in Nat /\ e.expires \in Nat
        /\ Len(e.list) <= MaxHolders /\ now < e.expires /\ e.expires <= e.born + Age(k)
    BY <1>2, <1>3 DEF Lists, Fresh
  <1>6. next \in Stages
    BY DEF Stages, Busy, Ended
  <1>7. /\ s \in Scans /\ s.at = next /\ s.got = e.list /\ s.born = e.born
        /\ s.began = r.began
    BY <1>1, <1>5, <1>6 DEF Scans
  <1> HIDE DEF s
  <1>8. r.began <= now /\ now <= r.began + MaxLatency
    BY <1>1, <1>4, Zenon DEF Sound, Timely
  <1>9. s.began <= s.born + Age(k)
    BY <1>1, <1>3, <1>5, <1>7, <1>8, Times
  <1>10. s.began <= s.born + Age("analysis")
    <2>1. k = "holders" \/ k = "analysis"
      BY DEF Keys
    <2>2. Age("holders") <= Age("analysis")
      BY Times
    <2> QED
      BY <1>1, <1>5, <1>7, <1>9, <2>1, <2>2, Times
  <1>11. Timely(s, now)
    <2>1. s.at \notin Reading \cup Stored
      BY <1>7 DEF Reading, Stored, Ended
    <2>2. s.at = "storeAnalysis" => s.began <= s.born + Age("holders")
      BY <1>7, <1>9, Zenon
    <2>3. s.began <= now /\ now <= s.began + MaxLatency
      BY <1>7, <1>8, Zenon
    <2> QED
      BY <1>10, <2>1, <2>2, <2>3, Zenon DEF Timely
  <1>12. Sound(s, ledger, now)
    <2>1. s.at \notin Stored /\ s.at # "pages" /\ s.at # "rpc"
      BY <1>7 DEF Stored, Ended
    <2>2. Len(s.got) <= MaxHolders
      BY <1>5, <1>7, Zenon
    <2> QED
      BY <1>11, <2>1, <2>2, Zenon DEF Sound
  <1> QED
    BY <1>2, <1>7, <1>12, Zenon

LEMMA LookUpAnalysisKeeps ==
    ASSUME IInv, NEW c \in Callers, LookUpAnalysis(c), UNCHANGED <<left, now, ledger, cache>>
    PROVE  IInv'
  <1>1. faults' \in 0..MaxFaults /\ Running(c)
    <2>1. Running(c)
      BY DEF LookUpAnalysis, At, Running, Busy
    <2> QED
      BY <2>1, Failures DEF LookUpAnalysis
  <1>2. CASE Found(c, "analysis", "answered")
    <2>1. "analysis" \in Keys /\ "answered" \in Ended \cup {"storeAnalysis"}
      BY DEF Keys, Ended
    <2>2. \E s \in Scans : Sound(s, ledger, now) /\ scan' = [scan EXCEPT ![c] = s]
      BY <1>1, <1>2, <2>1, FoundKeeps
    <2> QED
      BY <1>1, <2>2, StepWithoutCache, Zenon
  <1>3. CASE Goto(c, "holders") \/ Goto(c, "threw")
    <2>1. "holders" \in Plain /\ "threw" \in Plain
      BY DEF Plain
    <2>2. \E s \in Scans : Sound(s, ledger, now) /\ scan' = [scan EXCEPT ![c] = s]
      BY <1>1, <1>3, <2>1, GotoKeeps
    <2> QED
      BY <1>1, <2>2, StepWithoutCache, Zenon
  <1> QED
    BY <1>2, <1>3 DEF LookUpAnalysis

LEMMA LookUpHoldersKeeps ==
    ASSUME IInv, NEW c \in Callers, LookUpHolders(c), UNCHANGED <<left, now, ledger, cache>>
    PROVE  IInv'
  <1>1. faults' \in 0..MaxFaults /\ Running(c)
    <2>1. Running(c)
      BY DEF LookUpHolders, At, Running, Busy
    <2> QED
      BY <2>1, Failures DEF LookUpHolders
  <1>2. CASE Found(c, "holders", "null") \/ Found(c, "holders", "storeAnalysis")
    <2>1. "holders" \in Keys /\ "null" \in Ended \cup {"storeAnalysis"}
          /\ "storeAnalysis" \in Ended \cup {"storeAnalysis"}
      BY DEF Keys, Ended
    <2>2. \E s \in Scans : Sound(s, ledger, now) /\ scan' = [scan EXCEPT ![c] = s]
      BY <1>1, <1>2, <2>1, FoundKeeps
    <2> QED
      BY <1>1, <2>2, StepWithoutCache, Zenon
  <1>3. CASE Goto(c, "metadata") \/ Goto(c, "threw")
    <2>1. "metadata" \in Plain /\ "threw" \in Plain
      BY DEF Plain
    <2>2. \E s \in Scans : Sound(s, ledger, now) /\ scan' = [scan EXCEPT ![c] = s]
      BY <1>1, <1>3, <2>1, GotoKeeps
    <2> QED
      BY <1>1, <2>2, StepWithoutCache, Zenon
  <1> QED
    BY <1>2, <1>3 DEF LookUpHolders

LEMMA MetadataKeeps ==
    ASSUME IInv, NEW c \in Callers, Metadata(c), UNCHANGED <<left, now, ledger, cache>>
    PROVE  IInv'
  <1>1. faults' \in 0..MaxFaults /\ Running(c)
    <2>1. Running(c)
      BY DEF Metadata, At, Running, Busy
    <2> QED
      BY <2>1, Failures DEF Metadata
  <1>2. Begin(c, "pages") \/ Begin(c, "rpc")
    BY DEF Metadata
  <1>3. "pages" \in Reading /\ "rpc" \in Reading
    BY DEF Reading
  <1>4. \E s \in Scans : Sound(s, ledger, now) /\ scan' = [scan EXCEPT ![c] = s]
    BY <1>1, <1>2, <1>3, BeginKeeps, Zenon
  <1> QED
    BY <1>1, <1>4, StepWithoutCache, Zenon

\* At once: nothing can have moved.
LEMMA ReadRpcKeeps ==
    ASSUME IInv, NEW c \in Callers, ReadRpc(c), UNCHANGED <<left, now, ledger, cache>>
    PROVE  IInv'
  <1> DEFINE r == scan[c]
             got == Part(1, MaxPages * PageSize)
             all == ToSet(ledger)
             s == [r EXCEPT !.at = "storeRpc", !.born = now, !.steady = all, !.got = got]
  <1>1. faults' \in 0..MaxFaults /\ At(c, "rpc") /\ r.at = "rpc" /\ Running(c)
    <2>1. At(c, "rpc") /\ r.at = "rpc" /\ Running(c)
      BY DEF ReadRpc, At, Running, Busy, Reading
    <2> QED
      BY <2>1, Failures DEF ReadRpc
  <1>2. CASE Goto(c, "null")
    <2>1. "null" \in Plain
      BY DEF Plain
    <2>2. \E t \in Scans : Sound(t, ledger, now) /\ scan' = [scan EXCEPT ![c] = t]
      BY <1>1, <1>2, <2>1, GotoKeeps
    <2> QED
      BY <1>1, <2>2, StepWithoutCache, Zenon
  <1>3. CASE scan' = [scan EXCEPT ![c] = s]
    <2>1. r \in Scans /\ Sound(r, ledger, now) /\ r.moves \in Nat /\ r.began \in Nat
      BY CallOf
    <2>2. ledger \in Seq(Wallets) /\ IsInjective(ledger) /\ now \in Nat
      BY DEF IInv, Typed
    <2>3. MaxHolders \in Nat /\ MaxPages * PageSize = MaxHolders
      BY Limits DEF MaxHolders
    <2>4. /\ got \in Seq(Wallets) /\ IsInjective(got) /\ Len(got) \in 0..MaxHolders
          /\ Len(got) < MaxHolders => Len(ledger) < MaxHolders
          /\ Passed(ledger, MaxHolders) = ToSet(got)
      <3>1. got = Part(0 + 1, 0 + MaxHolders) /\ MaxHolders = 0 + MaxHolders
        BY <2>3
      <3>2. LET page == Part(0 + 1, 0 + MaxHolders)
            IN  /\ page \in Seq(Wallets) /\ IsInjective(page)
                /\ Len(page) \in 0..MaxHolders
                /\ Len(page) < MaxHolders => Len(ledger) < 0 + MaxHolders
                /\ Passed(ledger, 0 + MaxHolders) = Passed(ledger, 0) \cup ToSet(page)
        <4>1. 0 \in Nat
          OBVIOUS
        <4> QED
          BY <2>2, <2>3, <4>1, PartPlaces
      <3>3. Passed(ledger, 0) = {}
        BY <2>2, EndsOfList
      <3> HIDE DEF got
      <3> QED
        BY <3>1, <3>2, <3>3
    <2>5. all \in SUBSET Wallets
      BY <2>2, SetOfPlaces
    <2>6. Cardinality(ToSet(got)) = Len(got)
      BY <2>4, FiniteList, Zenon
    <2>7. Cardinality(all) \in Nat
      BY <2>2, FiniteList
    <2>8. Len(got) >= Least(Cardinality(all), MaxHolders)
      <3>1. /\ Least(Cardinality(all), MaxHolders) \in Nat
            /\ Least(Cardinality(all), MaxHolders) <= Cardinality(all)
            /\ Least(Cardinality(all), MaxHolders) <= MaxHolders
        BY <2>3, <2>7, LeastOf
      <3>2. CASE Len(got) < MaxHolders
        <4>1. Len(ledger) \in Nat /\ Len(ledger) <= MaxHolders
          BY <2>2, <2>3, <2>4, <3>2, LenProperties
        <4>2. all = ToSet(got)
          BY <2>2, <2>3, <2>4, <4>1, EndsOfList
        <4>3. Cardinality(all) = Len(got)
          BY <2>6, <4>2, Zenon
        <4> QED
          BY <2>4, <3>1, <4>3
      <3>3. CASE ~(Len(got) < MaxHolders)
        BY <2>3, <2>4, <3>1, <3>3
      <3> QED
        BY <3>2, <3>3
    <2>9. r.began <= now /\ now <= r.began + MaxLatency /\ r.moves = 0
      <3>1. r.at \in Busy
        BY <1>1 DEF Busy, Reading
      <3> QED
        BY <1>1, <2>1, <3>1, Zenon DEF Sound, Timely
    <2> HIDE DEF got, all, r
    <2>10. "storeRpc" \in Stages
      BY DEF Stages, Busy
    <2>11. /\ s \in Scans /\ s.at = "storeRpc" /\ s.born = now /\ s.steady = all /\ s.got = got
           /\ s.began = r.began /\ s.moves = r.moves
      BY <2>1, <2>2, <2>4, <2>5, <2>10 DEF Scans
    <2> HIDE DEF s
    <2>12. Timely(s, now)
      BY <2>9, <2>11, Zenon DEF Timely
    <2>13. Complete(s)
      BY <2>4, <2>6, <2>8, <2>9, <2>11 DEF Complete
    <2>14. Sound(s, ledger, now)
      BY <2>4, <2>11, <2>12, <2>13 DEF Sound
    <2> QED
      BY <1>1, <1>3, <2>11, <2>14, StepWithoutCache, Zenon DEF r
  <1> QED
    BY <1>2, <1>3 DEF ReadRpc

-----------------------------------------------------------------------------
(***************************************************************************)
(* The writes.                                                             *)
(***************************************************************************)
LEMMA EntryKeeps ==
    ASSUME IInv, NEW c \in Callers, NEW k \in Keys,
           now + Ttl[k] <= scan[c].born + Age(k)
    PROVE  /\ Entry(c, k) \in [Keys -> Lists \cup {None}]
           /\ \A j \in Keys : Fresh(j, Entry(c, k)[j], now)
  <1> DEFINE e == [list |-> scan[c].got, born |-> scan[c].born, expires |-> now + Ttl[k]]
  <1>1. /\ cache \in [Keys -> Lists \cup {None}] /\ now \in Nat
        /\ \A j \in Keys : Fresh(j, cache[j], now)
    BY DEF IInv, Typed
  <1>2. scan[c].got \in Seq(Wallets) /\ scan[c].born \in Nat /\ Len(scan[c].got) <= MaxHolders
    <2>1. scan[c].got \in Seq(Wallets) /\ scan[c].born \in Nat /\ Sound(scan[c], ledger, now)
      BY CallOf
    <2> QED
      BY <2>1, Zenon DEF Sound
  <1>3. Ttl[k] \in Nat \ {0}
    BY Times DEF Ttl, Keys
  <1>4. e \in Lists
    BY <1>1, <1>2, <1>3 DEF Lists
  <1>5. Fresh(k, e, now)
    BY <1>1, <1>2, <1>3 DEF Fresh
  <1>6. Entry(c, k) = [cache EXCEPT ![k] = e]
    BY DEF Entry
  <1> HIDE DEF e
  <1>7. Entry(c, k) \in [Keys -> Lists \cup {None}]
    BY <1>1, <1>4, <1>6
  <1>8. \A j \in Keys : Entry(c, k)[j] = IF j = k THEN e ELSE cache[j]
    BY <1>1, <1>6
  <1> QED
    BY <1>1, <1>5, <1>7, <1>8, Zenon

\* The list goes into the cache within a latency of the beginning of the call.
LEMMA ListsInTime ==
    ASSUME IInv, NEW c \in Callers, scan[c].at \in Stored
    PROVE  /\ now + Ttl["holders"] <= scan[c].born + Age("holders")
           /\ scan[c].began <= now /\ now <= scan[c].began + MaxLatency
           /\ scan[c].began <= scan[c].born
  <1>1. Sound(scan[c], ledger, now) /\ scan[c].began \in Nat /\ scan[c].born \in Nat
    BY CallOf
  <1>2. now \in Nat
    BY DEF IInv, Typed
  <1>3. scan[c].at \in Busy
    BY DEF Stored, Busy
  <1>4. /\ scan[c].began <= now /\ now <= scan[c].began + MaxLatency
        /\ scan[c].began <= scan[c].born
    BY <1>1, <1>3, Zenon DEF Sound, Timely
  <1>5. Ttl["holders"] = HoldersTtl
    BY DEF Ttl
  <1> QED
    BY <1>1, <1>2, <1>4, <1>5, Times

LEMMA AnalysesInTime ==
    ASSUME IInv, NEW c \in Callers, scan[c].at = "storeAnalysis"
    PROVE  /\ now + Ttl["analysis"] <= scan[c].born + Age("analysis")
           /\ scan[c].began <= now /\ now <= scan[c].began + MaxLatency
           /\ scan[c].began <= scan[c].born + Age("holders")
  <1>1. Sound(scan[c], ledger, now) /\ scan[c].began \in Nat /\ scan[c].born \in Nat
    BY CallOf
  <1>2. now \in Nat
    BY DEF IInv, Typed
  <1>3. scan[c].at \in Busy
    BY DEF Busy
  <1>4. /\ scan[c].began <= now /\ now <= scan[c].began + MaxLatency
        /\ scan[c].began <= scan[c].born + Age("holders")
    BY <1>1, <1>3, Zenon DEF Sound, Timely
  <1>5. Ttl["analysis"] = AnalysisTtl
    BY DEF Ttl
  <1> QED
    BY <1>1, <1>2, <1>4, <1>5, Times

\* The call goes on with what it has just stored.
LEMMA GoesOn ==
    ASSUME IInv, NEW c \in Callers, NEW stage \in {"storeAnalysis", "answered"}, Goto(c, stage),
           Running(c),
           stage = "storeAnalysis" => scan[c].began <= scan[c].born + Age("holders"),
           stage = "answered" => scan[c].began <= scan[c].born + Age("analysis")
    PROVE  \E s \in Scans : Sound(s, ledger, now) /\ scan' = [scan EXCEPT ![c] = s]
  <1> DEFINE r == scan[c]
             s == [r EXCEPT !.at = stage]
  <1>1. r \in Scans /\ Sound(r, ledger, now)
    BY CallOf
  <1>2. r.at \in Busy
    BY DEF Running
  <1>3. scan' = [scan EXCEPT ![c] = s]
    BY DEF Goto
  <1>4. stage = "storeAnalysis" => r.began <= r.born + Age("holders")
    OBVIOUS
  <1>5. stage = "answered" => r.began <= r.born + Age("analysis")
    OBVIOUS
  <1> HIDE DEF r
  <1>6. stage \in Stages
    BY DEF Stages, Busy, Ended
  <1>7. /\ s \in Scans /\ s.at = stage /\ s.began = r.began /\ s.born = r.born
        /\ s.got = r.got
    BY <1>1, <1>6 DEF Scans
  <1> HIDE DEF s
  <1>8. r.began <= now /\ now <= r.began + MaxLatency
    BY <1>1, <1>2, Zenon DEF Sound, Timely
  <1>9. Timely(s, now)
    <2>1. stage \notin Reading \cup Stored
      BY DEF Reading, Stored
    <2> QED
      BY <1>4, <1>5, <1>7, <1>8, <2>1, Zenon DEF Timely
  <1>10. Sound(s, ledger, now)
    <2>1. stage \notin Stored /\ stage # "pages" /\ stage # "rpc"
      BY DEF Stored
    <2>2. Len(s.got) <= MaxHolders
      BY <1>1, <1>7, Zenon DEF Sound
    <2> QED
      BY <1>7, <1>9, <2>1, <2>2, Zenon DEF Sound
  <1> QED
    BY <1>3, <1>7, <1>10, Zenon

LEMMA StoreKeeps ==
    ASSUME IInv, NEW c \in Callers, NEW k \in Keys,
           now + Ttl[k] <= scan[c].born + Age(k),
           cache' = cache \/ cache' = Entry(c, k), Well \/ Fault,
           \E s \in Scans : Sound(s, ledger, now) /\ scan' = [scan EXCEPT ![c] = s],
           UNCHANGED <<left, now, ledger>>
    PROVE  IInv'
  <1>1. faults' \in 0..MaxFaults
    BY Failures
  <1>2. left' \in [moves : Nat, ticks : Nat, calls : Nat] /\ UNCHANGED <<now, ledger>>
    BY DEF IInv, Typed
  <1>3. /\ cache' \in [Keys -> Lists \cup {None}]
        /\ \A j \in Keys : Fresh(j, cache'[j], now)
    <2>1. /\ cache \in [Keys -> Lists \cup {None}]
          /\ \A j \in Keys : Fresh(j, cache[j], now)
      BY DEF IInv, Typed
    <2>2. /\ Entry(c, k) \in [Keys -> Lists \cup {None}]
          /\ \A j \in Keys : Fresh(j, Entry(c, k)[j], now)
      BY EntryKeeps
    <2> QED
      BY <2>1, <2>2, Zenon
  <1>4. PICK s \in Scans : Sound(s, ledger, now) /\ scan' = [scan EXCEPT ![c] = s]
    OBVIOUS
  <1> QED
    BY <1>1, <1>2, <1>3, <1>4, StepOfOne

LEMMA StoreHoldersKeeps ==
    ASSUME IInv, NEW c \in Callers, StoreHolders(c), UNCHANGED <<left, now, ledger>>
    PROVE  IInv'
  <1>1. scan[c].at \in Stored /\ Running(c)
    BY DEF StoreHolders, At, Stored, Running, Busy
  <1>2. /\ now + Ttl["holders"] <= scan[c].born + Age("holders")
        /\ scan[c].began <= scan[c].born
    BY <1>1, ListsInTime
  <1>3. \E s \in Scans : Sound(s, ledger, now) /\ scan' = [scan EXCEPT ![c] = s]
    <2>1. CASE Goto(c, "null")
      <3>1. "null" \in Plain
        BY DEF Plain
      <3> QED
        BY <1>1, <2>1, <3>1, GotoKeeps
    <2>2. CASE Goto(c, "storeAnalysis")
      <3>1. scan[c].began <= scan[c].born + Age("holders")
        <4>1. scan[c].began \in Nat /\ scan[c].born \in Nat /\ Age("holders") \in Nat
          BY CallOf, Times DEF Keys
        <4> QED
          BY <1>2, <4>1
      <3> QED
        BY <1>1, <2>2, <3>1, GoesOn
    <2> QED
      BY <2>1, <2>2 DEF StoreHolders
  <1>4. "holders" \in Keys /\ cache' = Entry(c, "holders") /\ Well
    BY DEF Keys, StoreHolders
  <1> QED
    BY <1>2, <1>3, <1>4, StoreKeeps

LEMMA StoreHoldersFailsKeeps ==
    ASSUME IInv, NEW c \in Callers, StoreHoldersFails(c), UNCHANGED <<left, now, ledger>>
    PROVE  IInv'
  <1>1. scan[c].at \in Stored /\ Running(c)
    BY DEF StoreHoldersFails, At, Stored, Running, Busy
  <1>2. now + Ttl["holders"] <= scan[c].born + Age("holders")
    BY <1>1, ListsInTime
  <1>3. \E s \in Scans : Sound(s, ledger, now) /\ scan' = [scan EXCEPT ![c] = s]
    <2>1. CASE Goto(c, "null")
      <3>1. "null" \in Plain
        BY DEF Plain
      <3> QED
        BY <1>1, <2>1, <3>1, GotoKeeps
    <2>2. CASE Begin(c, "rpc")
      <3>1. "rpc" \in Reading
        BY DEF Reading
      <3> QED
        BY <1>1, <2>2, <3>1, BeginKeeps
    <2> QED
      BY <2>1, <2>2 DEF StoreHoldersFails
  <1>4. "holders" \in Keys /\ (cache' = cache \/ cache' = Entry(c, "holders")) /\ Fault
    BY DEF Keys, StoreHoldersFails
  <1> QED
    BY <1>2, <1>3, <1>4, StoreKeeps

LEMMA StoreAnalysisKeeps ==
    ASSUME IInv, NEW c \in Callers, StoreAnalysis(c), UNCHANGED <<left, now, ledger>>
    PROVE  IInv'
  <1>1. scan[c].at = "storeAnalysis" /\ Running(c)
    BY DEF StoreAnalysis, At, Running, Busy
  <1>2. /\ now + Ttl["analysis"] <= scan[c].born + Age("analysis")
        /\ scan[c].began <= scan[c].born + Age("holders")
    BY <1>1, AnalysesInTime
  <1>3. \E s \in Scans : Sound(s, ledger, now) /\ scan' = [scan EXCEPT ![c] = s]
    <2>1. CASE Goto(c, "threw")
      <3>1. "threw" \in Plain
        BY DEF Plain
      <3> QED
        BY <1>1, <2>1, <3>1, GotoKeeps
    <2>2. CASE Goto(c, "answered")
      <3>1. scan[c].began <= scan[c].born + Age("analysis")
        <4>1. scan[c].began \in Nat /\ scan[c].born \in Nat
          BY CallOf
        <4> QED
          BY <1>2, <4>1, Times
      <3> QED
        BY <1>1, <2>2, <3>1, GoesOn
    <2> QED
      BY <2>1, <2>2 DEF StoreAnalysis
  <1>4. "analysis" \in Keys /\ (cache' = cache \/ cache' = Entry(c, "analysis")) /\ (Well \/ Fault)
    BY DEF Keys, StoreAnalysis
  <1> QED
    BY <1>2, <1>3, <1>4, StoreKeeps

-----------------------------------------------------------------------------
(***************************************************************************)
(* The theorems.                                                           *)
(***************************************************************************)
LEMMA StutterKeeps == ASSUME IInv, UNCHANGED vars PROVE IInv'
  BY DEF IInv, Typed, vars, Fresh, Sound, Partway, Complete, Timely, Missed, Again

LEMMA NextKeeps == IInv /\ [Next]_vars => IInv'
  <1> SUFFICES ASSUME IInv, [Next]_vars
               PROVE  IInv'
    OBVIOUS
  <1>1. CASE Move
    BY <1>1, MoveKeeps
  <1>2. CASE Tick
    BY <1>2, TickKeeps
  <1>3. ASSUME NEW c \in Callers, Call(c)
        PROVE  IInv'
    BY <1>3, CallKeeps
  <1>4. ASSUME NEW c \in Callers, Step(c)
        PROVE  IInv'
    <2>1. UNCHANGED <<left, now, ledger>>
      BY <1>4 DEF Step
    <2>2. CASE UNCHANGED cache /\ LookUpAnalysis(c)
      BY <2>1, <2>2, LookUpAnalysisKeeps
    <2>3. CASE UNCHANGED cache /\ LookUpHolders(c)
      BY <2>1, <2>3, LookUpHoldersKeeps
    <2>4. CASE UNCHANGED cache /\ Metadata(c)
      BY <2>1, <2>4, MetadataKeeps
    <2>5. CASE UNCHANGED cache /\ ReadPage(c)
      BY <2>1, <2>5, ReadPageKeeps
    <2>6. CASE UNCHANGED cache /\ ReadRpc(c)
      BY <2>1, <2>6, ReadRpcKeeps
    <2>7. CASE StoreHolders(c)
      BY <2>1, <2>7, StoreHoldersKeeps
    <2>8. CASE StoreHoldersFails(c)
      BY <2>1, <2>8, StoreHoldersFailsKeeps
    <2>9. CASE StoreAnalysis(c)
      BY <2>1, <2>9, StoreAnalysisKeeps
    <2> QED
      BY <1>4, <2>2, <2>3, <2>4, <2>5, <2>6, <2>7, <2>8, <2>9 DEF Step
  <1>5. CASE UNCHANGED vars
    BY <1>5, StutterKeeps
  <1> QED
    BY <1>1, <1>2, <1>3, <1>4, <1>5 DEF Next

LEMMA Invariance == Spec => []IInv
  <1> QED
    BY InitIInv, NextKeeps, PTL DEF Spec

\* The lists are lists of wallets, the service's without repetitions, and
\* none that is cached or held is longer than maxHolders, although pages are
\* added up until the limit is passed (ShyftClient.ts:214-265).
THEOREM TypeCorrect == Spec => []TypeOK
  <1>1. IInv => TypeOK
    <2> SUFFICES ASSUME IInv
                 PROVE  TypeOK
      OBVIOUS
    <2>1. MaxHolders = MaxPages * PageSize
      BY DEF MaxHolders
    <2>2. ASSUME NEW k \in Keys, cache[k] # None
          PROVE  cache[k].list \in Seq(Wallets) /\ Len(cache[k].list) <= MaxPages * PageSize
      BY <2>1, <2>2 DEF IInv, Typed, Lists, Fresh
    <2>3. ASSUME NEW c \in Callers
          PROVE  /\ scan[c].at \in Stages /\ scan[c].got \in Seq(Wallets)
                 /\ Len(scan[c].got) <= MaxPages * PageSize
      <3>1. scan[c].at \in Stages /\ scan[c].got \in Seq(Wallets) /\ Sound(scan[c], ledger, now)
        BY CallOf
      <3> QED
        BY <2>1, <3>1, Zenon DEF Sound
    <2> QED
      BY <2>2, <2>3 DEF IInv, Typed, TypeOK
  <1> QED
    BY <1>1, Invariance, PTL

\* However large the list, the pages and the limit are, and however often the
\* list moves between two pages: a scan misses no more wallets than the list
\* moved meanwhile (ShyftClient.ts:214-265, HolderScanner.ts:343).
THEOREM MissesAreBounded == Spec => []MissesBounded
  <1>1. IInv => MissesBounded
    BY DEF IInv, Sound, Complete, Stored, MissesBounded, JustRead, At, MaxHolders
  <1> QED
    BY <1>1, Invariance, PTL

\* Nor does it list wallets once too often more often than that
\* (ShyftClient.ts:214-265).
THEOREM RepeatsAreBounded == Spec => []RepeatsBounded
  <1>1. IInv => RepeatsBounded
    BY DEF IInv, Sound, Complete, Stored, RepeatsBounded, JustRead, At
  <1> QED
    BY <1>1, Invariance, PTL

\* For any times to live and any latency, what a cache holds and what is
\* answered is no older than the times to live that it has passed through and
\* one latency for each (HolderScanner.ts:134-141, 316-365).
THEOREM AgesAreBounded == Spec => []AgeBounded
  <1>1. IInv => AgeBounded
    BY DEF IInv, Sound, Timely, Fresh, AgeBounded, At
  <1> QED
    BY <1>1, Invariance, PTL
=============================================================================
