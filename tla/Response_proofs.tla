-------------------------- MODULE Response_proofs --------------------------
(***************************************************************************)
(* Lemmas about a response that grows by an item: what that adds to its    *)
(* result sets and to the rows a stream of it delivers.                    *)
(***************************************************************************)
EXTENDS Response, FiniteSetTheorems, TLAPS

\* The elements of S no greater than x.
Upto(S, x) == {y \in S : y <= x}

\* The elements of S that have n elements no greater.
Ranked(S, n) == {x \in S : Cardinality(Upto(S, x)) = n}

LEMMA NthRanked ==
    ASSUME NEW S, NEW T, NEW n, Ranked(S, n) = Ranked(T, n)
    PROVE  Nth(S, n) = Nth(T, n)
  BY DEF Nth, Ranked, Upto

LEMMA NthOfOne ==
    ASSUME NEW S, NEW n, NEW x, Ranked(S, n) = {x}
    PROVE  Nth(S, n) = x
  BY DEF Nth, Ranked, Upto

LEMMA PlacesFinite ==
    ASSUME NEW n \in Nat, NEW S \in SUBSET (1..n)
    PROVE  IsFiniteSet(S) /\ Cardinality(S) \in Nat
<1>1. IsFiniteSet(1..n)
  BY FS_Interval
<1>2. IsFiniteSet(S)
  BY <1>1, FS_Subset
<1> QED
  BY <1>2, FS_CardinalityType

-----------------------------------------------------------------------------
(* A set of places in order.                                               *)

LEMMA InOrderIsSeq ==
    ASSUME NEW S, Cardinality(S) \in Nat
    PROVE  /\ InOrder(S) \in Seq({Nth(S, k) : k \in 1..Cardinality(S)})
           /\ Len(InOrder(S)) = Cardinality(S)
           /\ \A k \in 1..Cardinality(S) : InOrder(S)[k] = Nth(S, k)
  BY DEF InOrder

\* A place after all those of S comes last, and the others stay in theirs.
LEMMA InOrderGrows ==
    ASSUME NEW n \in Nat, NEW S \in SUBSET (1..n)
    PROVE  InOrder(S \cup {n + 1}) = Append(InOrder(S), n + 1)
<1> DEFINE T == S \cup {n + 1}
           c == Cardinality(S)
<1>1. IsFiniteSet(S) /\ c \in Nat
  BY PlacesFinite
<1>2. Cardinality(T) = c + 1
  BY <1>1, FS_AddElement
<1>3. ASSUME NEW x \in S
      PROVE  Upto(T, x) = Upto(S, x)
  BY DEF Upto
<1>4. Upto(T, n + 1) = T
  <2>1. \A y \in T : y <= n + 1
    OBVIOUS
  <2> HIDE DEF T
  <2> QED
    BY <2>1 DEF Upto
<1>5. ASSUME NEW x \in S
      PROVE  Cardinality(Upto(S, x)) <= c
  BY <1>1, FS_Subset DEF Upto
<1>6. ASSUME NEW k \in 1..c
      PROVE  Nth(T, k) = Nth(S, k)
  <2>1. Ranked(T, k) = Ranked(S, k)
    <3> HIDE DEF c
    <3>1. Cardinality(Upto(T, n + 1)) # k
      <4> HIDE DEF T
      <4> QED
        BY <1>1, <1>2, <1>4
    <3> QED
      BY <1>3, <3>1 DEF Ranked
  <2> QED
    BY <2>1, NthRanked
<1>7. Nth(T, c + 1) = n + 1
  <2>1. ASSUME NEW x \in S
        PROVE  Cardinality(Upto(T, x)) # c + 1
    <3>1. Upto(S, x) \in SUBSET (1..n)
      BY DEF Upto
    <3>2. Cardinality(Upto(S, x)) \in Nat
      BY <3>1, PlacesFinite
    <3> QED
      BY <1>1, <1>3, <1>5, <3>2
  <2>2. Ranked(T, c + 1) = {n + 1}
    BY <1>2, <1>4, <2>1 DEF Ranked
  <2> QED
    BY <2>2, NthOfOne
<1>8. /\ InOrder(S) \in Seq({Nth(S, k) : k \in 1..c}) /\ Len(InOrder(S)) = c
      /\ \A k \in 1..c : InOrder(S)[k] = Nth(S, k)
  BY <1>1, InOrderIsSeq
<1>9. InOrder(T) = [k \in 1..(c + 1) |-> Nth(T, k)]
  BY <1>2 DEF InOrder
<1> DEFINE f == InOrder(S)
<1> HIDE DEF T, c, f
<1>10. Append(f, n + 1) = [k \in 1..(c + 1) |-> IF k = c + 1 THEN n + 1 ELSE f[k]]
  BY <1>1, <1>8 DEF f
<1>11. \A k \in 1..(c + 1) : Nth(T, k) = IF k = c + 1 THEN n + 1 ELSE f[k]
  BY <1>1, <1>6, <1>7, <1>8 DEF f
<1> QED
  BY <1>9, <1>10, <1>11 DEF T, f

LEMMA InOrderOfNone ==
    InOrder({}) = <<>>
  BY FS_EmptySet DEF InOrder

LEMMA InOrderEmpty ==
    ASSUME NEW n \in Nat, NEW S \in SUBSET (1..n), Len(InOrder(S)) = 0
    PROVE  S = {}
  BY PlacesFinite, InOrderIsSeq, FS_EmptySet

\* The one element of a set is the one of its sequence.
LEMMA InOrderSingle ==
    ASSUME NEW n \in Nat, NEW S \in SUBSET (1..n), Len(InOrder(S)) = 1
    PROVE  S = {InOrder(S)[1]}
<1>1. IsFiniteSet(S) /\ Cardinality(S) = 1
  BY PlacesFinite, InOrderIsSeq
<1>2. PICK x : S = {x}
  BY <1>1, FS_Singleton
<1>3. Upto(S, x) = S
  BY <1>2 DEF Upto
<1>4. Ranked(S, 1) = {x}
  BY <1>1, <1>2, <1>3 DEF Ranked
<1>5. InOrder(S)[1] = x
  <2>1. Nth(S, 1) = x
    BY <1>4, NthOfOne
  <2> Cardinality(S) \in Nat
    BY <1>1
  <2>2. \A k \in 1..Cardinality(S) : InOrder(S)[k] = Nth(S, k)
    BY InOrderIsSeq
  <2>3. InOrder(S)[1] = Nth(S, 1)
    BY <1>1, <2>2
  <2> QED
    BY <2>1, <2>3
<1> QED
  BY <1>2, <1>5

-----------------------------------------------------------------------------
(* The result sets of a response.                                          *)

\* The items up to i that open a result set.
Openings(items, i) == {j \in 1..i : items[j] = "meta"}

LEMMA OpenedIsNat ==
    ASSUME NEW items, NEW i \in Nat
    PROVE  SetsOpened(items, i) \in Nat
  BY PlacesFinite, Openings(items, i) \in SUBSET (1..i) DEF SetsOpened, Openings

LEMMA OpenedGrows ==
    ASSUME NEW items, NEW i \in Nat, NEW j \in Nat, i <= j
    PROVE  SetsOpened(items, i) <= SetsOpened(items, j)
<1>1. IsFiniteSet(Openings(items, j))
  BY PlacesFinite DEF Openings
<1>2. Openings(items, i) \in SUBSET Openings(items, j)
  BY DEF Openings
<1>3. Cardinality(Openings(items, i)) <= Cardinality(Openings(items, j))
  BY <1>1, <1>2, FS_Subset
<1> QED
  BY <1>3 DEF SetsOpened, Openings

\* What an item adds to a response is there for the places after it only.
LEMMA OpenedBefore ==
    ASSUME NEW items \in Seq(Items), NEW x \in Items, NEW i \in Nat, i <= Len(items)
    PROVE  SetsOpened(Append(items, x), i) = SetsOpened(items, i)
<1>1. Openings(Append(items, x), i) = Openings(items, i)
  BY DEF Openings
<1> QED
  BY <1>1 DEF SetsOpened, Openings

LEMMA OpenedAfter ==
    ASSUME NEW items \in Seq(Items), NEW x \in Items
    PROVE  SetsOpened(Append(items, x), Len(items) + 1) =
           IF x = "meta" THEN SetsOpened(items, Len(items)) + 1 ELSE SetsOpened(items, Len(items))
<1> DEFINE n == Len(items)
           old == Openings(items, n)
           new == Openings(Append(items, x), n + 1)
<1>1. n \in Nat
  OBVIOUS
<1>2. IsFiniteSet(old) /\ n + 1 \notin old
  <2> HIDE DEF n
  <2>1. old \in SUBSET (1..n)
    BY DEF Openings
  <2> HIDE DEF old
  <2>2. IsFiniteSet(old)
    BY <1>1, <2>1, PlacesFinite
  <2> QED
    BY <1>1, <2>1, <2>2
<1>3. \A j \in 1..n : Append(items, x)[j] = items[j]
  OBVIOUS
<1>4. Append(items, x)[n + 1] = x
  OBVIOUS
<1>5. Cardinality(new) = IF x = "meta" THEN Cardinality(old) + 1 ELSE Cardinality(old)
  <2> DEFINE longer == Append(items, x)
  <2>3. /\ \A j \in 1..n : longer[j] = items[j]
        /\ longer[n + 1] = x
        /\ new = Openings(longer, n + 1)
    BY <1>3, <1>4
  <2>4. 1..(n + 1) = (1..n) \cup {n + 1}
    BY <1>1
  <2> HIDE DEF n, longer, new
  <2>1. CASE x = "meta"
    <3>1. new = old \cup {n + 1}
      BY <2>1, <2>3, <2>4 DEF Openings
    <3>2. Cardinality(old \cup {n + 1}) = Cardinality(old) + 1
      BY <1>2, FS_AddElement
    <3> QED
      BY <2>1, <3>1, <3>2
  <2>2. CASE x # "meta"
    <3>1. new = old
      BY <2>2, <2>3, <2>4 DEF Openings
    <3> QED
      BY <2>2, <3>1
  <2> QED
    BY <2>1, <2>2
<1> QED
  BY <1>5 DEF SetsOpened, Openings

LEMMA NoneOpened ==
    ASSUME NEW items
    PROVE  SetsOpened(items, 0) = 0
<1>1. Openings(items, 0) = {}
  BY DEF Openings
<1> QED
  BY <1>1, FS_EmptySet DEF SetsOpened, Openings

-----------------------------------------------------------------------------
(* The rows of one of them.                                                *)

\* The places of the rows of the k-th result set.
PlacesOfSet(items, k) == {i \in 1..Len(items) : items[i] = "row" /\ InSet(items, k, i)}

LEMMA PlacesOfSetGrow ==
    ASSUME NEW items \in Seq(Items), NEW x \in Items, NEW k
    PROVE  PlacesOfSet(Append(items, x), k) =
           IF x = "row" /\ SetsOpened(items, Len(items)) = k
           THEN PlacesOfSet(items, k) \cup {Len(items) + 1} ELSE PlacesOfSet(items, k)
<1> DEFINE n == Len(items)
<1>1. n \in Nat /\ Len(Append(items, x)) = n + 1
  OBVIOUS
<1>2. \A i \in 1..n : /\ Append(items, x)[i] = items[i]
                      /\ SetsOpened(Append(items, x), i) = SetsOpened(items, i)
  BY OpenedBefore
<1>3. Append(items, x)[n + 1] = x
  OBVIOUS
<1>4. x = "row" => SetsOpened(Append(items, x), n + 1) = SetsOpened(items, n)
  BY OpenedAfter
<1> HIDE DEF n
<1>5. PlacesOfSet(Append(items, x), k) = {i \in 1..(n + 1) : Append(items, x)[i] = "row" /\ SetsOpened(Append(items, x), i) = k}
  BY <1>1 DEF PlacesOfSet, InSet
<1>6. PlacesOfSet(items, k) = {i \in 1..n : items[i] = "row" /\ SetsOpened(items, i) = k}
  BY DEF PlacesOfSet, InSet, n
<1>7. 1..(n + 1) = (1..n) \cup {n + 1}
  BY <1>1
<1> DEFINE new == Append(items, x)
<1> HIDE DEF new
<1> QED
  BY <1>1, <1>2, <1>3, <1>4, <1>5, <1>6, <1>7 DEF n, new

LEMMA RowsOfSetGrow ==
    ASSUME NEW items \in Seq(Items), NEW x \in Items, NEW k
    PROVE  RowsOfSet(Append(items, x), k) =
           IF x = "row" /\ SetsOpened(items, Len(items)) = k
           THEN Append(RowsOfSet(items, k), Len(items) + 1) ELSE RowsOfSet(items, k)
<1>1. PlacesOfSet(items, k) \in SUBSET (1..Len(items)) /\ Len(items) \in Nat
  BY DEF PlacesOfSet
<1>2. RowsOfSet(items, k) = InOrder(PlacesOfSet(items, k))
  BY DEF RowsOfSet, PlacesOfSet
<1>3. RowsOfSet(Append(items, x), k) = InOrder(PlacesOfSet(Append(items, x), k))
  BY DEF RowsOfSet, PlacesOfSet
<1>4. InOrder(PlacesOfSet(items, k) \cup {Len(items) + 1}) = Append(InOrder(PlacesOfSet(items, k)), Len(items) + 1)
  BY <1>1, InOrderGrows
<1> QED
  BY <1>2, <1>3, <1>4, PlacesOfSetGrow

\* A result set that is not open yet has no rows.
LEMMA RowsOfUnopened ==
    ASSUME NEW items \in Seq(Items), NEW k \in Nat, k > SetsOpened(items, Len(items))
    PROVE  RowsOfSet(items, k) = <<>>
<1>1. ASSUME NEW i \in 1..Len(items)
      PROVE  SetsOpened(items, i) # k
  <2>1. SetsOpened(items, i) <= SetsOpened(items, Len(items))
    BY OpenedGrows
  <2> QED
    BY <2>1, OpenedIsNat
<1>2. PlacesOfSet(items, k) = {}
  BY <1>1 DEF PlacesOfSet, InSet
<1> QED
  BY <1>2, InOrderOfNone DEF RowsOfSet, PlacesOfSet

-----------------------------------------------------------------------------
(* The rows a stream delivers.                                             *)

\* No row of the response is one this crate cannot convert.
AllConvert(items) == \A j \in 1..Len(items) : items[j] # "bad"

\* The places of the rows a stream delivers.
FirstPlaces(items) ==
    {i \in 1..Len(items) : /\ items[i] = "row" /\ InSet(items, 1, i)
                           /\ \A j \in 1..i : items[j] # "bad"}

LEMMA AllConvertGrows ==
    ASSUME NEW items \in Seq(Items), NEW x \in Items
    PROVE  AllConvert(Append(items, x)) <=> AllConvert(items) /\ x # "bad"
<1> DEFINE n == Len(items)
           longer == Append(items, x)
<1>1. /\ n \in Nat /\ Len(longer) = n + 1 /\ longer[n + 1] = x
      /\ \A j \in 1..n : longer[j] = items[j]
  OBVIOUS
<1>2. 1..(n + 1) = (1..n) \cup {n + 1}
  BY <1>1
<1> HIDE DEF n, longer
<1> QED
  BY <1>1, <1>2 DEF AllConvert, n, longer

LEMMA FirstPlacesGrow ==
    ASSUME NEW items \in Seq(Items), NEW x \in Items
    PROVE  FirstPlaces(Append(items, x)) =
           IF x = "row" /\ SetsOpened(items, Len(items)) = 1 /\ AllConvert(items)
           THEN FirstPlaces(items) \cup {Len(items) + 1} ELSE FirstPlaces(items)
<1> DEFINE n == Len(items)
           longer == Append(items, x)
           before(s, i) == \A j \in 1..i : s[j] # "bad"
<1>1. n \in Nat /\ Len(longer) = n + 1
  OBVIOUS
<1>2. \A i \in 1..n : /\ longer[i] = items[i]
                      /\ SetsOpened(longer, i) = SetsOpened(items, i)
  BY OpenedBefore
<1>3. longer[n + 1] = x
  OBVIOUS
<1>4. x = "row" => SetsOpened(longer, n + 1) = SetsOpened(items, n)
  BY OpenedAfter
<1>5. 1..(n + 1) = (1..n) \cup {n + 1}
  BY <1>1
<1> HIDE DEF n, longer
<1>6. \A i \in 1..n : before(longer, i) <=> before(items, i)
  <2>1. \A i \in 1..n : \A j \in 1..i : j \in 1..n
    BY <1>1
  <2> QED
    BY <1>2, <2>1
<1>7. x = "row" => (before(longer, n + 1) <=> AllConvert(items))
  <2>1. AllConvert(items) <=> \A j \in 1..n : items[j] # "bad"
    BY DEF AllConvert, n
  <2> QED
    BY <1>2, <1>3, <1>5, <2>1
<1>8. FirstPlaces(longer) =
          {i \in 1..(n + 1) : longer[i] = "row" /\ SetsOpened(longer, i) = 1 /\ before(longer, i)}
  BY <1>1 DEF FirstPlaces, InSet
<1>9. FirstPlaces(items) =
          {i \in 1..n : items[i] = "row" /\ SetsOpened(items, i) = 1 /\ before(items, i)}
  BY DEF FirstPlaces, InSet, n
<1> HIDE DEF before
<1> QED
  BY <1>2, <1>3, <1>4, <1>5, <1>6, <1>7, <1>8, <1>9 DEF n, longer

LEMMA FirstRowsGrow ==
    ASSUME NEW items \in Seq(Items), NEW x \in Items
    PROVE  FirstRows(Append(items, x)) =
           IF x = "row" /\ SetsOpened(items, Len(items)) = 1 /\ AllConvert(items)
           THEN Append(FirstRows(items), Len(items) + 1) ELSE FirstRows(items)
<1>1. FirstPlaces(items) \in SUBSET (1..Len(items)) /\ Len(items) \in Nat
  BY DEF FirstPlaces
<1>2. FirstRows(items) = InOrder(FirstPlaces(items))
  BY DEF FirstRows, FirstPlaces
<1>3. FirstRows(Append(items, x)) = InOrder(FirstPlaces(Append(items, x)))
  BY DEF FirstRows, FirstPlaces
<1>4. InOrder(FirstPlaces(items) \cup {Len(items) + 1}) = Append(InOrder(FirstPlaces(items)), Len(items) + 1)
  BY <1>1, InOrderGrows
<1> QED
  BY <1>2, <1>3, <1>4, FirstPlacesGrow

\* A row that is no good spoils the first result set if that is the one open.
LEMMA FirstSpoiledGrows ==
    ASSUME NEW items \in Seq(Items), NEW x \in Items
    PROVE  FirstSpoiled(Append(items, x)) <=>
               FirstSpoiled(items) \/ (x = "bad" /\ SetsOpened(items, Len(items)) = 1)
<1> DEFINE n == Len(items)
           longer == Append(items, x)
<1>1. /\ n \in Nat /\ Len(longer) = n + 1 /\ longer[n + 1] = x
      /\ \A i \in 1..n : longer[i] = items[i]
  OBVIOUS
<1>2. \A i \in 1..n : SetsOpened(longer, i) = SetsOpened(items, i)
  BY OpenedBefore
<1>3. x = "bad" => SetsOpened(longer, n + 1) = SetsOpened(items, n)
  BY OpenedAfter
<1>4. 1..(n + 1) = (1..n) \cup {n + 1}
  BY <1>1
<1> HIDE DEF n, longer
<1>5. FirstSpoiled(items) <=> \E i \in 1..n : items[i] = "bad" /\ SetsOpened(items, i) = 1
  BY DEF FirstSpoiled, InSet, n
<1>6. FirstSpoiled(longer) <=>
          \E i \in 1..(n + 1) : longer[i] = "bad" /\ SetsOpened(longer, i) = 1
  BY <1>1 DEF FirstSpoiled, InSet
<1>7. ASSUME FirstSpoiled(longer)
      PROVE  FirstSpoiled(items) \/ (x = "bad" /\ SetsOpened(items, n) = 1)
  <2>1. PICK i \in 1..(n + 1) : longer[i] = "bad" /\ SetsOpened(longer, i) = 1
    BY <1>6, <1>7
  <2>2. CASE i \in 1..n
    BY <1>1, <1>2, <1>5, <2>1, <2>2
  <2>3. CASE i = n + 1
    BY <1>1, <1>3, <2>1, <2>3
  <2> QED
    BY <1>4, <2>2, <2>3
<1>8. ASSUME FirstSpoiled(items)
      PROVE  FirstSpoiled(longer)
  <2>1. PICK i \in 1..n : items[i] = "bad" /\ SetsOpened(items, i) = 1
    BY <1>5, <1>8
  <2> QED
    BY <1>1, <1>2, <1>4, <1>6, <2>1
<1>9. ASSUME x = "bad", SetsOpened(items, n) = 1
      PROVE  FirstSpoiled(longer)
  BY <1>1, <1>3, <1>4, <1>6, <1>9
<1> QED
  BY <1>7, <1>8, <1>9 DEF n, longer

\* No row that is no good comes before the first result set.
SpoiledInSets(items) == \A i \in 1..Len(items) : items[i] = "bad" => SetsOpened(items, i) > 0

LEMMA SpoiledInSetsGrows ==
    ASSUME NEW items \in Seq(Items), NEW x \in Items, SpoiledInSets(items),
           x = "bad" => SetsOpened(items, Len(items)) > 0
    PROVE  SpoiledInSets(Append(items, x))
<1> DEFINE n == Len(items)
           longer == Append(items, x)
<1>1. /\ n \in Nat /\ Len(longer) = n + 1 /\ longer[n + 1] = x
      /\ \A i \in 1..n : longer[i] = items[i]
  OBVIOUS
<1>2. \A i \in 1..n : SetsOpened(longer, i) = SetsOpened(items, i)
  BY OpenedBefore
<1>3. x = "bad" => SetsOpened(longer, n + 1) = SetsOpened(items, n)
  BY OpenedAfter
<1>4. 1..(n + 1) = (1..n) \cup {n + 1}
  BY <1>1
<1> HIDE DEF n, longer
<1>5. \A i \in 1..n : items[i] = "bad" => SetsOpened(items, i) > 0
  BY DEF SpoiledInSets, n
<1>6. \A i \in 1..(n + 1) : longer[i] = "bad" => SetsOpened(longer, i) > 0
  BY <1>1, <1>2, <1>3, <1>4, <1>5 DEF n
<1> QED
  BY <1>1, <1>6 DEF SpoiledInSets, longer

LEMMA FirstRowsOfNone ==
    FirstRows(<<>>) = <<>>
<1>1. FirstPlaces(<<>>) = {}
  BY DEF FirstPlaces
<1> QED
  BY <1>1, InOrderOfNone DEF FirstRows, FirstPlaces

\* With every row converted they are all those of the first result set.
LEMMA FirstRowsIfGood ==
    ASSUME NEW items \in Seq(Items), AllConvert(items)
    PROVE  FirstRows(items) = RowsOfSet(items, 1)
<1>1. \A i \in 1..Len(items) : \A j \in 1..i : j \in 1..Len(items)
  OBVIOUS
<1>2. FirstPlaces(items) = PlacesOfSet(items, 1)
  BY <1>1 DEF FirstPlaces, PlacesOfSet, AllConvert
<1> QED
  BY <1>2 DEF FirstRows, FirstPlaces, RowsOfSet, PlacesOfSet

\* It is enough that those of the first result set are.
LEMMA FirstRowsIfUnspoiled ==
    ASSUME NEW items \in Seq(Items), SpoiledInSets(items), ~FirstSpoiled(items)
    PROVE  FirstRows(items) = RowsOfSet(items, 1)
<1>1. ASSUME NEW i \in 1..Len(items), SetsOpened(items, i) = 1,
             NEW j \in 1..i, items[j] = "bad"
      PROVE  FALSE
  <2>1. j \in 1..Len(items) /\ i \in Nat /\ j \in Nat /\ j <= i
    OBVIOUS
  <2>2. SetsOpened(items, j) <= SetsOpened(items, i) /\ SetsOpened(items, j) \in Nat
    BY <2>1, OpenedGrows, OpenedIsNat
  <2>3. SetsOpened(items, j) > 0
    BY <1>1, <2>1 DEF SpoiledInSets
  <2>4. SetsOpened(items, j) = 1
    BY <1>1, <2>2, <2>3
  <2> QED
    BY <1>1, <2>1, <2>4 DEF FirstSpoiled, InSet
<1>2. FirstPlaces(items) = PlacesOfSet(items, 1)
  BY <1>1 DEF FirstPlaces, PlacesOfSet, InSet
<1> QED
  BY <1>2 DEF FirstRows, FirstPlaces, RowsOfSet, PlacesOfSet

=============================================================================
