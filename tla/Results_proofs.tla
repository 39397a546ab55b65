--------------------------- MODULE Results_proofs ---------------------------
(***************************************************************************)
(* Theorems about Results, for responses of every length.                  *)
(***************************************************************************)
EXTENDS Results, Response_proofs

opened == SetsOpened(items, Len(items))

LEMMA Joined ==
    ASSUME NEW S, NEW s \in Seq(S), NEW t \in Seq(S)
    PROVE  /\ s \o t \in Seq(S)
           /\ Len(s \o t) = Len(s) + Len(t)
           /\ \A k \in 1..Len(s) : (s \o t)[k] = s[k]
           /\ \A k \in 1..Len(t) : (s \o t)[Len(s) + k] = t[k]
  OBVIOUS

LEMMA EmptySeq ==
    ASSUME NEW S, NEW s \in Seq(S)
    PROVE  Len(s) \in Nat /\ (s = <<>> <=> Len(s) = 0)
  OBVIOUS

LEMMA OneSeq ==
    ASSUME NEW S, NEW x \in S
    PROVE  <<x>> \in Seq(S) /\ Len(<<x>>) = 1 /\ <<x>>[1] = x
  OBVIOUS

LEMMA NoRows ==
    <<>> \in Seq(Nat)
  OBVIOUS

-----------------------------------------------------------------------------
(* Types.                                                                  *)

LEMMA TypeInit ==
    Init => TypeOK
  BY DEF Init, TypeOK

LEMMA SourcesTyped ==
    ASSUME NEW end \in Endings
    PROVE  Sources(end) \subseteq DriverErrors \cup {"none"}
  BY DEF Sources, Endings, DriverErrors, IoKinds

LEMMA TypeReads ==
    ASSUME TypeOK, ReadMetadata \/ ReadRow \/ ReadBadRow \/ ReadCount
    PROVE  TypeOK'
<1>1. items' \in Seq(Items) /\ UNCHANGED <<ending, source, noticed>>
  <2>1. PICK item \in Items : Read(item)
    BY DEF ReadMetadata, ReadRow, ReadBadRow, ReadCount, Items
  <2> QED
    BY <2>1 DEF Read, TypeOK
<1>2. dataset' \in Seq(Seq(Nat))
  <2>1. dataset' = dataset \/ dataset' = dataset \o current
    BY DEF ReadMetadata, ReadRow, ReadBadRow, ReadCount
  <2> QED
    BY <2>1, Joined DEF TypeOK
<1>3. current' \in Seq(Seq(Nat)) /\ Len(current') <= 1
  <2>1. << <<>> >> \in Seq(Seq(Nat)) /\ Len(<< <<>> >>) = 1
    BY NoRows, OneSeq
  <2>2. CASE ReadRow /\ failure = "none"
    <3>1. current[1] \in Seq(Nat) /\ Len(items') \in Nat
      <4>1. Len(items') \in Nat
        BY <1>1
      <4>2. current # <<>> /\ current \in Seq(Seq(Nat))
        BY <2>2 DEF ReadRow, TypeOK
      <4> QED
        BY <4>1, <4>2
    <3>2. Append(current[1], Len(items')) \in Seq(Nat)
      BY <3>1
    <3>3. current' = << Append(current[1], Len(items')) >>
      BY <2>2 DEF ReadRow
    <3> DEFINE row == Append(current[1], Len(items'))
    <3> HIDE DEF row
    <3> QED
      BY <3>2, <3>3 DEF row
  <2>3. CASE ~(ReadRow /\ failure = "none")
    <3>1. current' = << <<>> >> \/ current' = current
      BY <2>3 DEF ReadMetadata, ReadRow, ReadBadRow, ReadCount
    <3>2. current \in Seq(Seq(Nat)) /\ Len(current) <= 1
      BY DEF TypeOK
    <3>3. CASE current' = << <<>> >>
      BY <2>1, <3>3
    <3>4. CASE current' = current
      BY <3>2, <3>4
    <3> QED
      BY <3>1, <3>3, <3>4
  <2> QED
    BY <2>2, <2>3
<1>4. failure' \in {"none", "bad", "server", "io", "protocol"} /\ total' \in Nat
  BY DEF TypeOK, ReadMetadata, ReadRow, ReadBadRow, ReadCount
<1> QED
  BY <1>1, <1>2, <1>3, <1>4 DEF TypeOK

LEMMA TypeEnding ==
    ASSUME TypeOK, ReadEnding
    PROVE  TypeOK'
<1>1. ending' \in Endings /\ UNCHANGED <<items, total, noticed>>
  BY DEF ReadEnding, Endings
<1>2. source' \in DriverErrors \cup {"none"}
  BY <1>1, SourcesTyped DEF ReadEnding
<1>3. failure' \in {"none", "bad", "server", "io", "protocol"}
  BY <1>1 DEF ReadEnding, TypeOK, Endings
<1>4. dataset' \in Seq(Seq(Nat)) /\ current' \in Seq(Seq(Nat)) /\ Len(current') <= 1
  <2>1. dataset' = dataset \/ dataset' = dataset \o current
    BY DEF ReadEnding
  <2>2. current' = current \/ current' = <<>>
    BY DEF ReadEnding
  <2>3. <<>> \in Seq(Seq(Nat)) /\ Len(<<>>) = 0
    OBVIOUS
  <2>4. dataset \o current \in Seq(Seq(Nat))
    BY Joined DEF TypeOK
  <2>5. /\ dataset \in Seq(Seq(Nat))
        /\ current \in Seq(Seq(Nat)) /\ Len(current) <= 1
    BY DEF TypeOK
  <2>6. dataset' \in Seq(Seq(Nat))
    BY <2>1, <2>4, <2>5
  <2>7. CASE current' = <<>>
    BY <2>3, <2>6, <2>7
  <2>8. CASE current' = current
    BY <2>5, <2>6, <2>8
  <2> QED
    BY <2>2, <2>7, <2>8
<1> QED
  BY <1>1, <1>2, <1>3, <1>4 DEF TypeOK

LEMMA TypeStep ==
    TypeOK /\ [Next]_vars => TypeOK'
<1> SUFFICES ASSUME TypeOK, [Next]_vars
             PROVE  TypeOK'
  OBVIOUS
<1>1. CASE UNCHANGED vars
  BY <1>1 DEF vars, TypeOK
<1> QED
  BY <1>1, TypeReads, TypeEnding DEF Next, Returned

-----------------------------------------------------------------------------
(* The loop.                                                               *)

\* The failure is the first thing that went wrong in what was read, and came
\* from where it says; a driver that knows the connection is gone reads nothing.
CauseInv ==
    /\ ~Over => /\ failure = IF AllConvert(items) THEN "none" ELSE "bad"
                /\ source = "none"
    /\ Over => /\ failure = Failure(items, ending)
               /\ source \in Sources(ending)
               /\ noticed => ending = "io"
    /\ noticed => AllConvert(items)

\* Every result set opened is either complete or the one being read, and
\* unless something went wrong each has all its rows.
SetsInv ==
    /\ opened = Len(dataset) + Len(current)
    /\ ~Over /\ current = <<>> => dataset = <<>>
    /\ Over /\ failure = "none" => current = <<>>
    /\ failure = "none" =>
           /\ \A k \in 1..Len(dataset) : dataset[k] = RowsOfSet(items, k)
           /\ current # <<>> => current[1] = RowsOfSet(items, opened)

LoopInv == CauseInv /\ SetsInv

LEMMA LoopInit ==
    Init => LoopInv
<1> SUFFICES ASSUME Init
             PROVE  LoopInv
  OBVIOUS
<1>1. items = <<>> /\ opened = 0 /\ AllConvert(items)
  BY NoneOpened DEF Init, opened, AllConvert
<1>2. CauseInv
  BY <1>1 DEF Init, CauseInv, Over
<1>3. SetsInv
  BY <1>1 DEF Init, SetsInv, Over
<1> QED
  BY <1>2, <1>3 DEF LoopInv

\* What reading an item adds.
LEMMA ReadGrows ==
    ASSUME TypeOK, NEW item \in Items, Read(item)
    PROVE  /\ items' = Append(items, item) /\ items \in Seq(Items)
           /\ Len(items) \in Nat /\ Len(items') = Len(items) + 1
           /\ ~Over /\ ~Over'
           /\ UNCHANGED <<ending, source, noticed>>
           /\ opened \in Nat
           /\ opened' = IF item = "meta" THEN opened + 1 ELSE opened
           /\ AllConvert(items)' <=> AllConvert(items) /\ item # "bad"
           /\ \A k : RowsOfSet(items', k) = IF item = "row" /\ opened = k
                                             THEN Append(RowsOfSet(items, k), Len(items) + 1)
                                             ELSE RowsOfSet(items, k)
<1>1. items' = Append(items, item) /\ items \in Seq(Items)
  BY DEF Read, TypeOK
<1>2. Len(items) \in Nat /\ Len(Append(items, item)) = Len(items) + 1
  BY <1>1
<1>3. opened \in Nat
  BY <1>2, OpenedIsNat DEF opened
<1>4. SetsOpened(Append(items, item), Len(items) + 1) =
          IF item = "meta" THEN SetsOpened(items, Len(items)) + 1 ELSE SetsOpened(items, Len(items))
  BY <1>1, OpenedAfter
<1>5. AllConvert(Append(items, item)) <=> AllConvert(items) /\ item # "bad"
  BY <1>1, AllConvertGrows
<1>6. \A k : RowsOfSet(Append(items, item), k) =
                 IF item = "row" /\ SetsOpened(items, Len(items)) = k
                 THEN Append(RowsOfSet(items, k), Len(items) + 1) ELSE RowsOfSet(items, k)
  BY <1>1, RowsOfSetGrow
<1>7. ~Over /\ ~Over' /\ UNCHANGED <<ending, source, noticed>>
  BY DEF Read, Over
<1> QED
  BY <1>1, <1>2, <1>3, <1>4, <1>5, <1>6, <1>7 DEF opened

\* A bad row is the only failure while the response is read.
LEMMA CauseReads ==
    ASSUME TypeOK, CauseInv, ReadMetadata \/ ReadRow \/ ReadBadRow \/ ReadCount
    PROVE  CauseInv'
<1>1. PICK item \in Items : Read(item) /\ failure' = IF item = "bad" THEN "bad" ELSE failure
  BY DEF ReadMetadata, ReadRow, ReadBadRow, ReadCount, Items
<1>2. ~Over /\ ~Over' /\ source' = source
  BY <1>1, ReadGrows
<1>3. AllConvert(items)' <=> AllConvert(items) /\ item # "bad"
  BY <1>1, ReadGrows
<1>4. failure = IF AllConvert(items) THEN "none" ELSE "bad"
  BY <1>2 DEF CauseInv
<1>5. failure' = IF AllConvert(items)' THEN "none" ELSE "bad"
  <2>1. CASE item = "bad"
    BY <1>1, <1>3, <2>1
  <2>2. CASE item # "bad"
    BY <1>1, <1>3, <1>4, <2>2
  <2> QED
    BY <2>1, <2>2
<1>6. ~noticed'
  BY <1>1 DEF Read
<1> QED
  BY <1>2, <1>5, <1>6 DEF CauseInv

LEMMA CauseEnding ==
    ASSUME TypeOK, CauseInv, ReadEnding
    PROVE  CauseInv'
<1>1. /\ ~Over /\ Over' /\ items' = items /\ noticed' = noticed
      /\ ending' \in IF noticed THEN {"io"} ELSE Endings
      /\ source' \in Sources(ending')
      /\ failure' = IF failure = "none" /\ ending' # "end" THEN ending' ELSE failure
  BY DEF ReadEnding, Over, Endings
<1>2. failure = IF AllConvert(items) THEN "none" ELSE "bad"
  BY <1>1 DEF CauseInv
<1>3. failure' = Failure(items', ending')
  BY <1>1, <1>2 DEF Failure, AllConvert
<1>4. source' \in Sources(ending)'
  BY <1>1 DEF Sources
<1> QED
  BY <1>1, <1>3, <1>4 DEF CauseInv, AllConvert

LEMMA Lengths ==
    TypeOK => /\ dataset \in Seq(Seq(Nat)) /\ Len(dataset) \in Nat
              /\ current \in Seq(Seq(Nat)) /\ Len(current) \in {0, 1}
              /\ current = <<>> <=> Len(current) = 0
<1> SUFFICES ASSUME TypeOK
             PROVE  /\ dataset \in Seq(Seq(Nat)) /\ Len(dataset) \in Nat
                    /\ current \in Seq(Seq(Nat)) /\ Len(current) \in {0, 1}
                    /\ current = <<>> <=> Len(current) = 0
  OBVIOUS
<1> DEFINE Row == Seq(Nat)
<1>1. dataset \in Seq(Row) /\ current \in Seq(Row) /\ Len(current) <= 1
  BY DEF TypeOK
<1> HIDE DEF Row
<1>2. Len(dataset) \in Nat /\ Len(current) \in Nat /\ (current = <<>> <=> Len(current) = 0)
  BY <1>1, EmptySeq
<1>3. Len(current) \in {0, 1}
  <2> DEFINE c == Len(current)
  <2>1. c \in Nat /\ c <= 1
    BY <1>1, <1>2
  <2> HIDE DEF c
  <2>2. c \in {0, 1}
    BY <2>1
  <2> QED
    BY <2>2 DEF c
<1> QED
  BY <1>1, <1>2, <1>3 DEF Row

LEMMA SetsMetadata ==
    ASSUME TypeOK, SetsInv, ReadMetadata
    PROVE  SetsInv'
<1> DEFINE d == Len(dataset)
           c == Len(current)
<1>1. Read("meta") /\ "meta" \in Items
  BY DEF ReadMetadata, Items
<1>2. dataset' = dataset \o current /\ current' = << <<>> >> /\ failure' = failure
  BY DEF ReadMetadata
<1>3. /\ ~Over /\ ~Over' /\ opened \in Nat /\ opened' = opened + 1
      /\ items \in Seq(Items)
      /\ \A k : RowsOfSet(items', k) = RowsOfSet(items, k)
  BY <1>1, ReadGrows
<1>4. d \in Nat /\ c \in {0, 1} /\ (current = <<>> <=> c = 0)
  BY Lengths
<1>5. /\ Len(dataset') = d + c
      /\ \A k \in 1..d : dataset'[k] = dataset[k]
      /\ \A k \in 1..c : dataset'[d + k] = current[k]
  BY <1>2, Lengths, Joined
<1>6. Len(current') = 1 /\ current' # <<>> /\ current'[1] = <<>>
  BY <1>2
<1>7. RowsOfSet(items', opened') = <<>>
  <2>1. opened + 1 > SetsOpened(items, Len(items)) /\ opened + 1 \in Nat
    BY <1>3 DEF opened
  <2>2. RowsOfSet(items, opened + 1) = <<>>
    BY <1>3, <2>1, RowsOfUnopened
  <2> QED
    BY <1>3, <2>2
<1>8. opened = d + c
  BY DEF SetsInv
<1>9. failure = "none" => /\ \A k \in 1..d : dataset[k] = RowsOfSet(items, k)
                          /\ c = 1 => current[1] = RowsOfSet(items, d + 1)
  <2>1. /\ \A k \in 1..d : failure = "none" => dataset[k] = RowsOfSet(items, k)
        /\ failure = "none" /\ current # <<>> => current[1] = RowsOfSet(items, opened)
    BY DEF SetsInv
  <2>2. c = 1 => current # <<>> /\ opened = d + 1
    BY <1>4, <1>8
  <2> QED
    BY <2>1, <2>2
<1> HIDE DEF d, c
<1>10. failure = "none" => \A k \in 1..(d + c) : dataset'[k] = RowsOfSet(items', k)
  <2> SUFFICES ASSUME failure = "none", NEW k \in 1..(d + c)
               PROVE  dataset'[k] = RowsOfSet(items', k)
    OBVIOUS
  <2>1. CASE k \in 1..d
    BY <1>3, <1>5, <1>9, <2>1
  <2>2. CASE k \notin 1..d
    <3>1. k = d + 1 /\ c = 1
      BY <1>4, <2>2
    <3>2. dataset'[d + 1] = current[1]
      BY <1>5, <3>1
    <3> QED
      BY <1>3, <1>9, <3>1, <3>2
  <2> QED
    BY <2>1, <2>2
<1>11. opened' = Len(dataset') + Len(current')
  BY <1>3, <1>4, <1>5, <1>6, <1>8
<1> QED
  BY <1>2, <1>3, <1>5, <1>6, <1>7, <1>10, <1>11 DEF SetsInv

LEMMA SetsRow ==
    ASSUME TypeOK, SetsInv, ReadRow
    PROVE  SetsInv'
<1> DEFINE d == Len(dataset)
<1>1. Read("row") /\ "row" \in Items
  BY DEF ReadRow, Items
<1>2. /\ dataset' = dataset /\ failure' = failure /\ current # <<>>
      /\ current' = IF failure = "none" THEN << Append(current[1], Len(items')) >> ELSE current
  BY DEF ReadRow
<1>3. /\ ~Over /\ ~Over' /\ opened \in Nat /\ opened' = opened
      /\ Len(items') = Len(items) + 1
      /\ \A k : RowsOfSet(items', k) = IF opened = k THEN Append(RowsOfSet(items, k), Len(items) + 1)
                                       ELSE RowsOfSet(items, k)
  BY <1>1, ReadGrows
<1>4. d \in Nat /\ Len(current) = 1
  BY <1>2, Lengths
<1>5. opened = d + 1
  BY <1>4 DEF SetsInv
<1>6. Len(current') = 1 /\ current' # <<>>
  BY <1>2, <1>4
<1>7. ASSUME failure = "none"
      PROVE  /\ \A k \in 1..d : dataset[k] = RowsOfSet(items', k)
             /\ current'[1] = RowsOfSet(items', opened')
  <2>1. current[1] = RowsOfSet(items, opened) /\ \A k \in 1..d : dataset[k] = RowsOfSet(items, k)
    BY <1>2, <1>7 DEF SetsInv
  <2>2. current'[1] = Append(current[1], Len(items) + 1)
    BY <1>2, <1>3, <1>7
  <2>3. \A k \in 1..d : opened # k
    BY <1>4, <1>5
  <2> QED
    BY <1>3, <2>1, <2>2, <2>3
<1> QED
  BY <1>2, <1>3, <1>4, <1>5, <1>6, <1>7 DEF SetsInv

LEMMA SetsOther ==
    ASSUME TypeOK, SetsInv, ReadBadRow \/ ReadCount
    PROVE  SetsInv'
<1>1. PICK item \in {"bad", "count"} : Read(item)
  BY DEF ReadBadRow, ReadCount
<1>2. UNCHANGED <<dataset, current>> /\ (failure' = "none" => failure = "none")
  BY DEF ReadBadRow, ReadCount
<1>3. item \in Items /\ item # "meta" /\ item # "row"
  BY DEF Items
<1>4. /\ ~Over /\ ~Over' /\ opened' = opened
      /\ \A k : RowsOfSet(items', k) = RowsOfSet(items, k)
  BY <1>1, <1>3, ReadGrows
<1> QED
  BY <1>2, <1>4 DEF SetsInv

LEMMA SetsEnding ==
    ASSUME TypeOK, SetsInv, ReadEnding
    PROVE  SetsInv'
<1> DEFINE d == Len(dataset)
           c == Len(current)
<1>1. ~Over /\ Over' /\ items' = items
  BY DEF ReadEnding, Over, Endings
<1>2. opened' = opened
  BY <1>1 DEF opened
<1>3. CASE failure' # "none"
  <2>1. UNCHANGED <<dataset, current>>
    BY <1>3 DEF ReadEnding
  <2> QED
    BY <1>1, <1>2, <1>3, <2>1 DEF SetsInv
<1>4. CASE failure' = "none"
  <2>1. dataset' = dataset \o current /\ current' = <<>> /\ failure = "none"
    BY <1>4 DEF ReadEnding
  <2>2. d \in Nat /\ c \in {0, 1} /\ (current = <<>> <=> c = 0)
    BY Lengths
  <2>3. /\ Len(dataset') = d + c
        /\ \A k \in 1..d : dataset'[k] = dataset[k]
        /\ \A k \in 1..c : dataset'[d + k] = current[k]
    BY <2>1, Lengths, Joined
  <2>4. opened = d + c
    BY DEF SetsInv
  <2>5. /\ \A k \in 1..d : dataset[k] = RowsOfSet(items, k)
        /\ c = 1 => current[1] = RowsOfSet(items, d + 1)
    BY <2>1, <2>2, <2>4 DEF SetsInv
  <2>6. Len(current') = 0 /\ current' = <<>>
    BY <2>1
  <2> HIDE DEF d, c
  <2>7. \A k \in 1..(d + c) : dataset'[k] = RowsOfSet(items', k)
    <3> TAKE k \in 1..(d + c)
    <3>1. CASE k \in 1..d
      BY <1>1, <2>3, <2>5, <3>1
    <3>2. CASE k \notin 1..d
      <4>1. k = d + 1 /\ c = 1
        BY <2>2, <3>2
      <4>2. dataset'[d + 1] = current[1]
        BY <2>3, <4>1
      <4> QED
        BY <1>1, <2>5, <4>1, <4>2
    <3> QED
      BY <3>1, <3>2
  <2>8. opened' = Len(dataset') + Len(current')
    BY <1>2, <2>2, <2>3, <2>4, <2>6
  <2> QED
    BY <1>1, <2>3, <2>6, <2>7, <2>8 DEF SetsInv
<1> QED
  BY <1>3, <1>4

LEMMA LoopStep ==
    TypeOK /\ LoopInv /\ [Next]_vars => LoopInv'
<1> SUFFICES ASSUME TypeOK, LoopInv, [Next]_vars
             PROVE  LoopInv'
  OBVIOUS
<1>1. CASE UNCHANGED vars
  <2>1. UNCHANGED <<items, ending, dataset, current, failure, source, noticed>>
    BY <1>1 DEF vars
  <2>2. opened' = opened
    BY <2>1 DEF opened
  <2>3. CauseInv'
    BY <2>1 DEF LoopInv, CauseInv, Over, Sources
  <2>4. SetsInv'
    BY <2>1, <2>2 DEF LoopInv, SetsInv, Over
  <2> QED
    BY <2>3, <2>4 DEF LoopInv
<1> QED
  BY <1>1, CauseReads, CauseEnding, SetsMetadata, SetsRow, SetsOther, SetsEnding
     DEF LoopInv, Next, Returned

-----------------------------------------------------------------------------
(* What the calls return.                                                  *)

IInv == TypeOK /\ LoopInv

\* The inductive invariant.
THEOREM Invariance == Spec => []IInv
<1>1. Init => IInv
  BY TypeInit, LoopInit DEF IInv
<1>2. IInv /\ [Next]_vars => IInv'
  BY TypeStep, LoopStep DEF IInv
<1> QED
  BY <1>1, <1>2, PTL DEF Spec

\* Every variable keeps its type; in particular what is read at any time is
\* one result set at most.
THEOREM ResultsTyped == Spec => []TypeOK
<1>1. IInv => TypeOK
  BY DEF IInv
<1> QED
  BY <1>1, Invariance, PTL

\* Without a failure the whole response was read, every row of it converted,
\* and its result sets are the data set.
LEMMA CompleteDataset ==
    ASSUME IInv, Over, failure = "none"
    PROVE  /\ ending = "end" /\ AllConvert(items) /\ items \in Seq(Items)
           /\ opened = Len(dataset)
           /\ \A k \in 1..Len(dataset) : dataset[k] = RowsOfSet(items, k)
           /\ dataset \in Seq(Seq(Nat)) /\ Len(dataset) \in Nat
<1>1. Failure(items, ending) = "none"
  BY DEF IInv, LoopInv, CauseInv
<1>2. ending = "end" /\ AllConvert(items)
  BY <1>1 DEF Failure, AllConvert, Over
<1>3. current = <<>> /\ opened = Len(dataset) + Len(current)
  BY DEF IInv, LoopInv, SetsInv
<1>4. dataset \in Seq(Seq(Nat)) /\ Len(dataset) \in Nat
  BY Lengths DEF IInv
<1>5. Len(current) = 0
  BY <1>3
<1> QED
  BY <1>2, <1>3, <1>4, <1>5 DEF IInv, TypeOK, LoopInv, SetsInv

LEMMA QueryIsFirst ==
    ASSUME IInv, Over, failure = "none"
    PROVE  IntoRows(dataset) = RowsOfSet(items, 1)
<1>1. /\ opened = Len(dataset) /\ items \in Seq(Items)
      /\ \A k \in 1..Len(dataset) : dataset[k] = RowsOfSet(items, k)
      /\ dataset \in Seq(Seq(Nat)) /\ Len(dataset) \in Nat
  BY CompleteDataset
<1>2. dataset = <<>> <=> Len(dataset) = 0
  BY <1>1, EmptySeq
<1>3. CASE dataset = <<>>
  <2>1. SetsOpened(items, Len(items)) = 0
    BY <1>1, <1>2, <1>3 DEF opened
  <2>2. RowsOfSet(items, 1) = <<>>
    BY <1>1, <2>1, RowsOfUnopened
  <2> QED
    BY <1>3, <2>2 DEF IntoRows
<1>4. CASE dataset # <<>>
  <2>1. 1 \in 1..Len(dataset)
    BY <1>1, <1>2, <1>4
  <2> QED
    BY <1>1, <1>4, <2>1 DEF IntoRows
<1> QED
  BY <1>3, <1>4

\* query_dataset returns the response, however many result sets it has, or the
\* first thing that went wrong in any of them.
THEOREM WholeResponse == Spec => []DatasetIsResponse
<1>1. IInv => DatasetIsResponse
  <2> SUFFICES ASSUME IInv, Over
               PROVE  QueryDataset = IF Failure(items, ending) = "none" THEN Ok(ResultSets(items))
                                     ELSE Err(Failure(items, ending))
    BY DEF DatasetIsResponse
  <2>1. failure = Failure(items, ending)
    BY DEF IInv, LoopInv, CauseInv
  <2>2. ASSUME failure = "none"
        PROVE  dataset = ResultSets(items)
    <3>1. /\ opened = Len(dataset)
          /\ \A k \in 1..Len(dataset) : dataset[k] = RowsOfSet(items, k)
          /\ dataset \in Seq(Seq(Nat))
      BY <2>2, CompleteDataset
    <3>2. ResultSets(items) = [k \in 1..Len(dataset) |-> RowsOfSet(items, k)]
      BY <3>1 DEF ResultSets, opened
    <3>3. dataset = [k \in 1..Len(dataset) |-> dataset[k]]
      BY <3>1
    <3> QED
      BY <3>1, <3>2, <3>3
  <2> QED
    BY <2>1, <2>2 DEF QueryDataset
<1> QED
  BY <1>1, Invariance, PTL

LEMMA OkAndErr ==
    \A v, c : IsOk(Ok(v)) /\ ~IsOk(Err(c)) /\ Ok(v).value = v /\ Err(c) # Ok(v)
  BY DEF IsOk, Ok, Err

LEMMA QueryOk ==
    IsOk(Query) => failure = "none" /\ Query = Ok(IntoRows(dataset)) /\ Query.value = IntoRows(dataset)
  BY OkAndErr DEF Query

\* query returns the rows of the first result set, those a stream of the same
\* response delivers.
THEOREM QueryIsStream == Spec => []QueryIsFirstSet
<1>1. IInv => QueryIsFirstSet
  <2> SUFFICES ASSUME IInv, Over, IsOk(Query)
               PROVE  Query.value = FirstRows(items)
    BY DEF QueryIsFirstSet
  <2>1. failure = "none" /\ Query.value = RowsOfSet(items, 1)
    BY QueryOk, QueryIsFirst
  <2>2. AllConvert(items) /\ items \in Seq(Items)
    BY <2>1, CompleteDataset
  <2> QED
    BY <2>1, <2>2, FirstRowsIfGood
<1> QED
  BY <1>1, Invariance, PTL

\* With every row converted, those the server sent in the first result set are
\* the places of its rows.
LEMMA SentIsPlaces ==
    ASSUME NEW its, AllConvert(its)
    PROVE  {i \in 1..Len(its) : its[i] \in {"row", "bad"} /\ InSet(its, 1, i)} = PlacesOfSet(its, 1)
  BY DEF AllConvert, PlacesOfSet

LEMMA QueryOneOk ==
    IsOk(QueryOne) => /\ IsOk(Query) /\ Len(IntoRows(dataset)) = 1
                      /\ QueryOne.value = IntoRows(dataset)[1]
<1> SUFFICES ASSUME IsOk(QueryOne)
             PROVE  /\ IsOk(Query) /\ Len(IntoRows(dataset)) = 1
                    /\ QueryOne.value = IntoRows(dataset)[1]
  OBVIOUS
<1>1. IsOk(Query)
  BY DEF QueryOne
<1>2. Query.value = IntoRows(dataset)
  BY <1>1, QueryOk
<1>3. Len(Query.value) = 1
  BY <1>1, OkAndErr DEF QueryOne
<1>4. QueryOne = Ok(Query.value[1])
  BY <1>1, <1>3 DEF QueryOne
<1> QED
  BY <1>1, <1>2, <1>3, <1>4, OkAndErr

LEMMA QueryScalarOk ==
    ASSUME NEW columns, NEW converts, IsOk(QueryScalar(columns, converts))
    PROVE  IsOk(QueryOne) /\ QueryScalar(columns, converts) = QueryOne
<1>1. IsOk(QueryOne)
  BY DEF QueryScalar
<1> QED
  BY <1>1, OkAndErr DEF QueryScalar

\* A single row is one only if the server sent no other in the first result
\* set, converted or not, and nothing of the response failed; and likewise
\* that there is none.
THEOREM SingleRow == Spec => []SingleRowIsCertain
<1>1. IInv => SingleRowIsCertain
  <2> SUFFICES ASSUME IInv, Over
               PROVE  SingleRowIsCertain
    BY DEF SingleRowIsCertain
  <2> DEFINE Sent == {i \in 1..Len(items) : items[i] \in {"row", "bad"} /\ InSet(items, 1, i)}
  <2>1. ASSUME failure = "none"
        PROVE  /\ ending = "end"
               /\ Sent = PlacesOfSet(items, 1)
               /\ PlacesOfSet(items, 1) \in SUBSET (1..Len(items)) /\ Len(items) \in Nat
               /\ IntoRows(dataset) = InOrder(PlacesOfSet(items, 1))
    <3>1. ending = "end" /\ AllConvert(items) /\ items \in Seq(Items)
      BY <2>1, CompleteDataset
    <3>2. Sent = PlacesOfSet(items, 1)
      BY <3>1, SentIsPlaces
    <3>3. PlacesOfSet(items, 1) \in SUBSET (1..Len(items)) /\ Len(items) \in Nat
      BY <3>1 DEF PlacesOfSet
    <3>4. IntoRows(dataset) = InOrder(PlacesOfSet(items, 1))
      BY <2>1, QueryIsFirst DEF RowsOfSet, PlacesOfSet
    <3> QED
      BY <3>1, <3>2, <3>3, <3>4
  <2> HIDE DEF Sent
  <2>2. IsOk(QueryOne) => Sent = {QueryOne.value} /\ ending = "end"
    <3> SUFFICES ASSUME IsOk(QueryOne)
                 PROVE  Sent = {QueryOne.value} /\ ending = "end"
      OBVIOUS
    <3>1. failure = "none" /\ Len(IntoRows(dataset)) = 1 /\ QueryOne.value = IntoRows(dataset)[1]
      BY QueryOneOk, QueryOk
    <3>2. PlacesOfSet(items, 1) = {InOrder(PlacesOfSet(items, 1))[1]}
      BY <2>1, <3>1, InOrderSingle
    <3> QED
      BY <2>1, <3>1, <3>2
  <2>3. ASSUME NEW columns \in {0, 1}, NEW converts \in BOOLEAN,
               IsOk(QueryScalar(columns, converts))
        PROVE  Sent = {QueryScalar(columns, converts).value} /\ ending = "end"
    BY <2>2, <2>3, QueryScalarOk
  <2>4. QueryOpt = Ok(<<>>) => Sent = {} /\ ending = "end"
    <3> SUFFICES ASSUME QueryOpt = Ok(<<>>)
                 PROVE  Sent = {} /\ ending = "end"
      OBVIOUS
    <3>1. IsOk(Query) /\ Query.value = <<>>
      <4>1. IsOk(QueryOpt) /\ QueryOpt.value = <<>>
        BY OkAndErr
      <4>2. IsOk(Query)
        BY <4>1 DEF QueryOpt
      <4>3. QueryOpt = Ok(Query.value)
        BY <4>1, <4>2, OkAndErr DEF QueryOpt
      <4> QED
        BY <4>1, <4>2, <4>3, OkAndErr
    <3>2. failure = "none" /\ IntoRows(dataset) = <<>>
      BY <3>1, QueryOk
    <3>3. Len(InOrder(PlacesOfSet(items, 1))) = 0
      BY <2>1, <3>2
    <3>4. PlacesOfSet(items, 1) = {}
      BY <2>1, <3>2, <3>3, InOrderEmpty
    <3> QED
      BY <2>1, <3>2, <3>4
  <2> QED
    BY <2>2, <2>3, <2>4 DEF SingleRowIsCertain, Sent
<1> QED
  BY <1>1, Invariance, PTL

-----------------------------------------------------------------------------
(* What the caller is told.                                                *)

\* A failure is a bad row, an error of the server's, an I/O failure that the
\* driver had noticed if it could, or another error of the driver's.
LEMMA FailureSource ==
    ASSUME IInv, Over, failure # "none"
    PROVE  /\ failure \in {"bad", "server", "io", "protocol"}
           /\ noticed => failure = "io"
           /\ failure = "server" => source \in ServerErrors
           /\ failure = "io" => source \in IoKinds /\ (noticed => source = "NotConnected")
           /\ failure = "protocol" => source = "Protocol"
<1>1. failure = Failure(items, ending) /\ source \in Sources(ending) /\ (noticed => ending = "io")
  BY DEF IInv, LoopInv, CauseInv
<1>2. failure = "bad" \/ failure = ending
  BY <1>1 DEF Failure
<1>3. noticed => failure # "bad"
  <2>1. noticed => AllConvert(items)
    BY DEF IInv, LoopInv, CauseInv
  <2>2. failure = "bad" => ~AllConvert(items)
    BY <1>1 DEF Failure, AllConvert, IInv, TypeOK, Endings
  <2> QED
    BY <2>1, <2>2
<1>4. failure \in {"bad", "server", "io", "protocol"}
  BY DEF IInv, TypeOK
<1> QED
  BY <1>1, <1>2, <1>3, <1>4 DEF Sources, IoKinds

\* What becomes of them: of a row that does not convert ...
LEMMA BadRowTold ==
    ASSUME failure = "bad", NEW kind
    PROVE  Raised(kind) = Plain("Conversion") /\ Told(kind) = Plain("Conversion")
  BY DEF Raised, Told, WithStatement, ToldOf, FoundGone, Plain

\* ... and of the driver's errors: one that says the connection was gone
\* before is told as that, every other with the statement it belongs to.
LEMMA DriverErrorTold ==
    ASSUME failure # "bad", NEW kind
    PROVE  LET named == [variant |-> "Query", source |-> source, statement |-> "known", kind |-> kind]
           IN  /\ Raised(kind) = named
               /\ Told(kind) = IF source = "NotConnected" THEN Plain("ConnectionClosed") ELSE named
<1> DEFINE named == [variant |-> "Query", source |-> source, statement |-> "known", kind |-> kind]
<1>1. Raised(kind) = named
  BY DEF Raised, WithStatement, FromDriver
<1>2. named.variant = "Query" /\ named.source = source
  OBVIOUS
<1>3. Told(kind) = IF source = "NotConnected" THEN Plain("ConnectionClosed") ELSE named
  <2> HIDE DEF named
  <2> QED
    BY <1>1, <1>2 DEF Told, ToldOf, FoundGone, IoKinds
<1> QED
  BY <1>1, <1>3

\* However a call was sent, its caller learns that the connection is lost
\* exactly if the task ends over it, and a driver that knew is believed.
THEOREM FailureTold == Spec => []FailureIsTold
<1>1. IInv => FailureIsTold
  <2> SUFFICES ASSUME IInv, Over, failure # "none", NEW kind \in StatementKind
               PROVE  LET e == Told(kind)
                      IN  /\ IsConnectionLost(e) <=> EndsTask(Raised(kind))
                          /\ IsDeadlock(e) => source = Deadlock
                          /\ e.variant = "Query" => e.kind = kind /\ e.statement = "known"
                          /\ noticed => IsConnectionLost(e)
    BY DEF FailureIsTold
  <2> DEFINE named == [variant |-> "Query", source |-> source, statement |-> "known", kind |-> kind]
  <2>1. CASE failure = "bad"
    <3>1. Raised(kind) = Plain("Conversion") /\ Told(kind) = Plain("Conversion") /\ ~noticed
      BY <2>1, BadRowTold, FailureSource
    <3> QED
      BY <3>1 DEF Plain, IsConnectionLost, EndsTask, FoundGone, IsDeadlock, Code, Deadlock
  <2>2. CASE failure = "server"
    <3>1. source \in ServerErrors /\ source # "NotConnected" /\ source \notin IoKinds /\ ~noticed
      BY <2>2, FailureSource DEF ServerErrors, Deadlock, IoKinds
    <3>2. Raised(kind) = named /\ Told(kind) = named
      BY <2>2, <3>1, DriverErrorTold
    <3>3. /\ named.variant = "Query" /\ named.source = source
          /\ named.kind = kind /\ named.statement = "known"
      OBVIOUS
    <3> HIDE DEF named
    <3> QED
      BY <3>1, <3>2, <3>3 DEF IsConnectionLost, EndsTask, FoundGone, IsDeadlock, Code
  <2>3. CASE failure = "io"
    <3>1. source \in IoKinds /\ source \notin ServerErrors /\ (noticed => source = "NotConnected")
      BY <2>3, FailureSource DEF ServerErrors, Deadlock, IoKinds
    <3>2. Raised(kind) = named
          /\ Told(kind) = IF source = "NotConnected" THEN Plain("ConnectionClosed") ELSE named
      BY <2>3, DriverErrorTold
    <3>3. /\ named.variant = "Query" /\ named.source = source
          /\ named.kind = kind /\ named.statement = "known"
      OBVIOUS
    <3> HIDE DEF named
    <3> QED
      BY <3>1, <3>2, <3>3 DEF IsConnectionLost, EndsTask, FoundGone, IsDeadlock, Code, Plain, Deadlock
  <2>4. CASE failure = "protocol"
    <3>1. source = "Protocol" /\ ~noticed
      BY <2>4, FailureSource
    <3>2. Raised(kind) = named /\ Told(kind) = named
      BY <2>4, <3>1, DriverErrorTold
    <3>3. /\ named.variant = "Query" /\ named.source = source
          /\ named.kind = kind /\ named.statement = "known"
      OBVIOUS
    <3>4. source \notin IoKinds /\ source \notin ServerErrors
      BY <3>1 DEF IoKinds, ServerErrors, Deadlock
    <3> HIDE DEF named
    <3> QED
      BY <3>1, <3>2, <3>3, <3>4
         DEF IsConnectionLost, EndsTask, FoundGone, IsDeadlock, Code, Deadlock
  <2> QED
    BY <2>1, <2>2, <2>3, <2>4, FailureSource
<1> QED
  BY <1>1, Invariance, PTL

=============================================================================
