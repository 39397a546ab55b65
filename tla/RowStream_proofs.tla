-------------------------- MODULE RowStream_proofs --------------------------
(***************************************************************************)
(* Theorems about RowStream, for every size of the channel and responses   *)
(* of every length.                                                        *)
(***************************************************************************)
EXTENDS RowStream, Response_proofs

Entry == ({"row"} \X Nat) \cup (({"end"} \cup Failures) \X {0})

LEMMA EntryKinds ==
    ASSUME NEW e \in Entry
    PROVE  /\ e[1] \in {"row", "end"} \cup Failures
           /\ e[1] = "row" => e[2] \in Nat
  BY DEF Entry, Failures

-----------------------------------------------------------------------------
(* The two shapes most steps have: the reading of an item, and the end of  *)
(* the task.                                                               *)

LEMMA ReadKeepsType ==
    ASSUME TypeOK, NEW item \in Items, Read(item)
    PROVE  /\ items' \in Seq(Items)
           /\ UNCHANGED <<ending, attention, rows, consumer, delivered, told, dropped>>
  BY DEF TypeOK, Read, consumerVars

LEMMA EnqueueKeepsType ==
    ASSUME TypeOK, NEW kind, NEW n, <<kind, n>> \in Entry, Enqueue(kind, n)
    PROVE  rows' \in Seq(Entry)
  BY DEF TypeOK, Enqueue, Entry

LEMMA DieKeepsType ==
    ASSUME TypeOK, Die, dropped' \in BOOLEAN
    PROVE  TypeOK'
  BY DEF TypeOK, Die, serverVars, consumerVars

LEMMA LengthIsNat ==
    TypeOK => Len(items) \in Nat
  BY DEF TypeOK

-----------------------------------------------------------------------------
(* Types.                                                                  *)

LEMMA TypeInit ==
    Init => TypeOK
<1>1. <<>> \in Seq(Items) /\ <<>> \in Seq(Entry) /\ <<>> \in Seq(Nat)
  OBVIOUS
<1> QED
  BY <1>1 DEF Init, TypeOK, Entry

LEMMA TypeReads ==
    ASSUME TypeOK, ReadMetadata \/ ReadRow \/ ReadBadRow \/ ReadEnding
    PROVE  TypeOK'
<1>1. CASE ReadMetadata
  <2>1. "meta" \in Items
    BY DEF Items
  <2>2. forwarding' \in BOOLEAN /\ header' \in {"unsent", "columns", "failed", "dropped"}
    BY <1>1 DEF ReadMetadata, TypeOK
  <2> QED
    BY <1>1, <2>1, <2>2, ReadKeepsType DEF ReadMetadata, TypeOK
<1>2. CASE ReadRow
  <2>1. "row" \in Items
    BY DEF Items
  <2>2. pc' \in {"reading", "sending"} /\ UNCHANGED <<header, forwarding, failure>>
    BY <1>2 DEF ReadRow, Read, readerVars
  <2> QED
    BY <1>2, <2>1, <2>2, ReadKeepsType DEF ReadRow, TypeOK
<1>3. CASE ReadBadRow
  <2>1. "bad" \in Items
    BY DEF Items
  <2>2. failure' \in {failure, "bad"} /\ forwarding' \in BOOLEAN /\ UNCHANGED <<pc, header>>
    BY <1>3 DEF ReadBadRow, TypeOK
  <2> QED
    BY <1>3, <2>1, <2>2, ReadKeepsType DEF ReadBadRow, TypeOK, Failures
<1>4. CASE ReadEnding
  <2>1. failure' \in {failure, ending'} /\ ending' \in Endings
    BY <1>4 DEF ReadEnding
  <2>2. ending' = "end" => failure' = failure
    BY <1>4 DEF ReadEnding
  <2>3. failure' \in {"none"} \cup Failures
    BY <2>1, <2>2 DEF TypeOK, Endings, Failures
  <2>4. attention' \in {"none", "sent", "acked"}
    BY <1>4 DEF ReadEnding, TypeOK
  <2> QED
    BY <1>4, <2>3, <2>4 DEF ReadEnding, TypeOK, consumerVars
<1> QED
  BY <1>1, <1>2, <1>3, <1>4

LEMMA TypeSends ==
    ASSUME TypeOK, SendRow \/ SendLast
    PROVE  TypeOK'
<1>1. CASE SendRow
  <2>1. <<"row", Len(items)>> \in Entry
    BY LengthIsNat DEF Entry
  <2>2. rows' \in Seq(Entry)
    BY <1>1, <2>1, EnqueueKeepsType DEF SendRow
  <2> QED
    BY <1>1, <2>2 DEF SendRow, TypeOK, Entry, serverVars, consumerVars
<1>2. CASE SendLast
  <2>1. <<IF failure = "none" THEN "end" ELSE failure, 0>> \in Entry
    BY DEF TypeOK, Entry, Failures
  <2>2. rows' \in Seq(Entry)
    <3>1. CASE header = "unsent" /\ failure # "none"
      BY <1>2, <3>1 DEF SendLast, TypeOK, Entry
    <3>2. CASE ~(header = "unsent" /\ failure # "none")
      BY <1>2, <2>1, <3>2, EnqueueKeepsType DEF SendLast
    <3> QED
      BY <3>1, <3>2
  <2>3. header' \in {"unsent", "columns", "failed", "dropped"}
    BY <1>2 DEF SendLast, TypeOK
  <2>4. pc' \in {"acking", "dead", "done"}
    BY <1>2 DEF SendLast, AfterLast
  <2> QED
    BY <1>2, <2>2, <2>3, <2>4 DEF SendLast, TypeOK, Entry, serverVars, consumerVars
<1> QED
  BY <1>1, <1>2

LEMMA TypeCancels ==
    ASSUME TypeOK, Cancel \/ Acknowledge \/ CancelFails \/ DropTask
    PROVE  TypeOK'
<1>1. CASE Cancel
  BY <1>1 DEF Cancel, TypeOK, serverVars, readerVars, consumerVars
<1>2. CASE Acknowledge
  BY <1>2 DEF Acknowledge, TypeOK, serverVars, readerVars, consumerVars
<1>3. CASE CancelFails
  BY <1>3, DieKeepsType DEF CancelFails, TypeOK
<1>4. CASE DropTask
  BY <1>4, DieKeepsType DEF DropTask
<1> QED
  BY <1>1, <1>2, <1>3, <1>4

\* A header that was sent as a failure has one.
FailedHeader == header = "failed" => failure # "none"

LEMMA TypeConsumer ==
    ASSUME TypeOK, FailedHeader, ConsumerNext
    PROVE  TypeOK'
<1>1. CASE TakeHeader
  <2>1. told' \in {told, "closed"} \cup ({failure} \ {"none"})
    BY <1>1 DEF TakeHeader, FailedHeader
  <2>2. told' \in {"nothing", "end", "closed"} \cup Failures
    BY <2>1 DEF TypeOK
  <2>3. consumer' \in {"streaming", "over"}
    BY <1>1 DEF TakeHeader
  <2> QED
    BY <1>1, <2>2, <2>3 DEF TakeHeader, TypeOK, serverVars, readerVars
<1>2. CASE PollNext
  <2>1. rows \in Seq(Entry) /\ rows # <<>>
    BY <1>2 DEF PollNext, TypeOK, Entry
  <2>2. Head(rows) \in Entry /\ Tail(rows) \in Seq(Entry)
    BY <2>1
  <2>3. rows' \in Seq(Entry)
    BY <1>2, <2>2 DEF PollNext
  <2>4. /\ delivered' \in Seq(Nat)
        /\ told' \in {"nothing", "end", "closed"} \cup Failures
        /\ consumer' \in {"streaming", "over"}
    <3> DEFINE e == Head(rows)
    <3>1. e[1] \in {"row", "end"} \cup Failures /\ (e[1] = "row" => e[2] \in Nat)
      BY <2>2, EntryKinds
    <3>2. delivered \in Seq(Nat) /\ told \in {"nothing", "end", "closed"} \cup Failures
      BY DEF TypeOK
    <3>3. consumer = "streaming"
      BY <1>2 DEF PollNext
    <3> HIDE DEF e
    <3>4. CASE e[1] = "row"
      <4>1. delivered' = Append(delivered, e[2]) /\ UNCHANGED <<consumer, told>>
        BY <1>2, <3>4 DEF PollNext, e
      <4> QED
        BY <3>1, <3>2, <3>3, <3>4, <4>1
    <3>5. CASE e[1] # "row"
      <4>1. told' = e[1] /\ consumer' = "over" /\ delivered' = delivered
        BY <1>2, <3>5 DEF PollNext, e
      <4> QED
        BY <3>1, <3>2, <3>5, <4>1
    <3> QED
      BY <3>4, <3>5
  <2> QED
    BY <1>2, <2>3, <2>4 DEF PollNext, TypeOK, Entry, serverVars, readerVars
<1>3. CASE NextClosed
  BY <1>3 DEF NextClosed, TypeOK, serverVars, readerVars
<1>4. CASE Leave
  BY <1>4 DEF Leave, TypeOK, serverVars, readerVars
<1> QED
  BY <1>1, <1>2, <1>3, <1>4 DEF ConsumerNext

LEMMA TypeStep ==
    TypeOK /\ FailedHeader /\ [Next]_vars => TypeOK'
<1> SUFFICES ASSUME TypeOK, FailedHeader, [Next]_vars
             PROVE  TypeOK'
  OBVIOUS
<1>1. CASE UNCHANGED vars
  BY <1>1 DEF TypeOK, vars, serverVars, readerVars, consumerVars
<1> QED
  BY <1>1, TypeReads, TypeSends, TypeCancels, TypeConsumer DEF Next, TaskNext, Stopped

-----------------------------------------------------------------------------
(* What the task leaves behind.                                            *)

\* The response is over once the loop is, an I/O failure that ended it is known
\* unless a row that did not convert hides it, and a cancel that was sent is
\* waited for before the task goes on.
WireInv ==
    /\ pc \in {"reading", "sending"} => failure \in {"none", "bad"}
    /\ pc \in {"last", "acking", "done"} =>
           /\ ending # "none"
           /\ ending = "io" => failure \in {"io", "bad"}
    /\ CleanHandover

LEMMA WireInit ==
    Init => WireInv
  BY DEF Init, WireInv, CleanHandover

LEMMA WireStep ==
    TypeOK /\ WireInv /\ [Next]_vars => WireInv'
<1> SUFFICES ASSUME TypeOK, WireInv, [Next]_vars
             PROVE  WireInv'
  OBVIOUS
<1> USE DEF CleanHandover
<1>1. CASE ReadMetadata
  BY <1>1 DEF ReadMetadata, Read, WireInv
<1>2. CASE ReadRow
  BY <1>2 DEF ReadRow, Read, WireInv, readerVars
<1>3. CASE ReadBadRow
  BY <1>3 DEF ReadBadRow, Read, WireInv
<1>4. CASE ReadEnding
  BY <1>4 DEF ReadEnding, Endings, WireInv
<1>5. CASE SendRow
  BY <1>5 DEF SendRow, WireInv, serverVars
<1>6. CASE SendLast
  BY <1>6 DEF SendLast, AfterLast, WireInv, TypeOK, Endings, serverVars
<1>7. CASE Cancel
  BY <1>7 DEF Cancel, WireInv, serverVars, readerVars
<1>8. CASE Acknowledge
  BY <1>8 DEF Acknowledge, WireInv, serverVars, readerVars
<1>9. CASE CancelFails \/ DropTask
  BY <1>9 DEF CancelFails, DropTask, Die, WireInv
<1>10. CASE ConsumerNext
  BY <1>10 DEF ConsumerNext, TakeHeader, PollNext, NextClosed, Leave, WireInv,
               serverVars, readerVars
<1>11. CASE UNCHANGED vars
  BY <1>11 DEF vars, serverVars, readerVars, WireInv
<1> QED
  BY <1>1, <1>2, <1>3, <1>4, <1>5, <1>6, <1>7, <1>8, <1>9, <1>10, <1>11
     DEF Next, TaskNext, Stopped

-----------------------------------------------------------------------------
(* What the caller is left with.                                           *)

\* The last entry of the channel says how the stream ended.
Concluded == rows # <<>> /\ rows[Len(rows)][1] # "row"

\* A cancel means that the caller has left.  Otherwise, unless the runtime
\* dropped the task, a caller who is still there when the task is done with
\* the response finds its end: in the header, or as the last of the rows.
VerdictInv ==
    /\ FailedHeader
    /\ attention # "none" => consumer = "gone"
    /\ pc = "acking" => attention # "none"
    /\ header = "dropped" => dropped \/ consumer = "gone"
    /\ consumer = "streaming" => header = "columns"
    /\ pc \in {"acking", "done", "dead"} => header # "unsent"
    /\ pc \in {"acking", "done", "dead"} /\ ~dropped
           /\ consumer \in {"waiting", "streaming"} /\ header = "columns" => Concluded
    /\ ClosedMeansDropped

LEMMA VerdictInit ==
    Init => VerdictInv
  BY DEF Init, VerdictInv, FailedHeader, ClosedMeansDropped

LEMMA EnqueueConcludes ==
    ASSUME TypeOK, NEW kind, kind # "row", Enqueue(kind, 0), consumer # "gone"
    PROVE  Concluded'
<1>1. rows \in Seq(Entry) /\ rows' = Append(rows, <<kind, 0>>)
  BY DEF TypeOK, Enqueue, Entry
<1>2. rows' # <<>> /\ Len(rows') = Len(rows) + 1 /\ rows'[Len(rows) + 1] = <<kind, 0>>
  BY <1>1
<1> QED
  BY <1>2 DEF Concluded

LEMMA VerdictTask ==
    ASSUME TypeOK, VerdictInv, TaskNext
    PROVE  VerdictInv'
<1>1. CASE ReadMetadata
  BY <1>1 DEF ReadMetadata, Read, VerdictInv, FailedHeader, ClosedMeansDropped, consumerVars
<1>2. CASE ReadRow
  BY <1>2 DEF ReadRow, Read, VerdictInv, FailedHeader, ClosedMeansDropped, consumerVars, readerVars
<1>3. CASE ReadBadRow
  BY <1>3 DEF ReadBadRow, Read, VerdictInv, FailedHeader, ClosedMeansDropped, consumerVars
<1>4. CASE ReadEnding
  BY <1>4 DEF ReadEnding, Endings, VerdictInv, FailedHeader, ClosedMeansDropped, consumerVars
<1>5. CASE SendRow
  BY <1>5 DEF SendRow, VerdictInv, FailedHeader, ClosedMeansDropped, consumerVars, serverVars
<1>6. CASE SendLast
  <2>1. FailedHeader' /\ header' \in {"columns", "failed", "dropped"}
    BY <1>6 DEF SendLast, VerdictInv, FailedHeader, TypeOK
  <2>2. header' = "dropped" => header = "dropped"
    BY <1>6 DEF SendLast
  <2>3. ASSUME consumer \in {"waiting", "streaming"}, header' = "columns"
        PROVE  Concluded'
    <3>1. ~(header = "unsent" /\ failure # "none")
      BY <1>6, <2>3 DEF SendLast
    <3>2. Enqueue(IF failure = "none" THEN "end" ELSE failure, 0)
      BY <1>6, <3>1 DEF SendLast
    <3>3. (IF failure = "none" THEN "end" ELSE failure) # "row"
      BY DEF TypeOK, Failures
    <3> QED
      BY <2>3, <3>2, <3>3, EnqueueConcludes
  <2>4. UNCHANGED <<attention, consumer, told, dropped>>
    BY <1>6 DEF SendLast, consumerVars
  <2>5. pc' = "acking" => attention # "none"
    BY <1>6 DEF SendLast, AfterLast
  <2>6. consumer = "streaming" => header' = "columns"
    BY <1>6 DEF SendLast, VerdictInv
  <2> QED
    BY <2>1, <2>2, <2>3, <2>4, <2>5, <2>6 DEF VerdictInv, ClosedMeansDropped
<1>7. CASE Cancel
  BY <1>7 DEF Cancel, VerdictInv, FailedHeader, ClosedMeansDropped, consumerVars, serverVars, readerVars
<1>8. CASE Acknowledge
  BY <1>8 DEF Acknowledge, VerdictInv, FailedHeader, ClosedMeansDropped, Concluded,
              consumerVars, serverVars, readerVars
<1>9. CASE CancelFails
  BY <1>9 DEF CancelFails, Die, VerdictInv, FailedHeader, ClosedMeansDropped, consumerVars, serverVars
<1>10. CASE DropTask
  BY <1>10 DEF DropTask, Die, VerdictInv, FailedHeader, ClosedMeansDropped, consumerVars, serverVars
<1> QED
  BY <1>1, <1>2, <1>3, <1>4, <1>5, <1>6, <1>7, <1>8, <1>9, <1>10 DEF TaskNext

\* Reading a row leaves the last entry where it is.
LEMMA TailConcludes ==
    ASSUME NEW s \in Seq(Entry), s # <<>>, s[Len(s)][1] # "row", Head(s)[1] = "row"
    PROVE  Tail(s) # <<>> /\ Tail(s)[Len(Tail(s))] = s[Len(s)]
<1>1. Len(s) # 1
  BY DEF Entry
<1>2. Len(s) \in Nat /\ Len(s) > 1 /\ Len(Tail(s)) = Len(s) - 1
  BY <1>1
<1> QED
  BY <1>2

LEMMA VerdictConsumer ==
    ASSUME TypeOK, VerdictInv, ConsumerNext
    PROVE  VerdictInv'
<1>1. CASE TakeHeader
  <2>1. told' \in {told, "closed"} \cup ({failure} \ {"none"})
    BY <1>1 DEF TakeHeader, VerdictInv, FailedHeader
  <2>2. told' = "closed" => told = "closed" \/ header = "dropped"
    BY <1>1 DEF TakeHeader, TypeOK, Failures
  <2> QED
    BY <1>1, <2>2 DEF TakeHeader, VerdictInv, FailedHeader, ClosedMeansDropped, Concluded,
                      serverVars, readerVars
<1>2. CASE PollNext
  <2>1. rows \in Seq(Entry) /\ rows # <<>> /\ rows' = Tail(rows)
    BY <1>2 DEF PollNext, TypeOK, Entry
  <2>2. Head(rows) \in Entry
    BY <2>1
  <2>3. CASE Head(rows)[1] = "row"
    <3>1. UNCHANGED <<consumer, told, attention, header, failure, dropped, pc>>
      BY <1>2, <2>3 DEF PollNext, readerVars
    <3>2. Concluded => Concluded'
      BY <2>1, <2>3, TailConcludes DEF Concluded
    <3> QED
      BY <3>1, <3>2 DEF VerdictInv, FailedHeader, ClosedMeansDropped
  <2>4. CASE Head(rows)[1] # "row"
    <3>1. told' # "closed" /\ consumer' = "over"
      BY <1>2, <2>2, <2>4, EntryKinds DEF PollNext, Failures
    <3>2. UNCHANGED <<attention, header, failure, dropped, pc>> /\ consumer = "streaming"
      BY <1>2 DEF PollNext, readerVars
    <3> QED
      BY <3>1, <3>2 DEF VerdictInv, FailedHeader, ClosedMeansDropped
  <2> QED
    BY <2>3, <2>4
<1>3. CASE NextClosed
  <2>1. dropped
    BY <1>3 DEF NextClosed, VerdictInv, Concluded
  <2> QED
    BY <1>3, <2>1 DEF NextClosed, VerdictInv, FailedHeader, ClosedMeansDropped, serverVars, readerVars
<1>4. CASE Leave
  BY <1>4 DEF Leave, VerdictInv, FailedHeader, ClosedMeansDropped, serverVars, readerVars
<1> QED
  BY <1>1, <1>2, <1>3, <1>4 DEF ConsumerNext

LEMMA VerdictStep ==
    TypeOK /\ VerdictInv /\ [Next]_vars => VerdictInv'
<1> SUFFICES ASSUME TypeOK, VerdictInv, [Next]_vars
             PROVE  VerdictInv'
  OBVIOUS
<1>1. CASE UNCHANGED vars
  BY <1>1 DEF VerdictInv, FailedHeader, ClosedMeansDropped, Concluded,
              vars, serverVars, readerVars, consumerVars
<1> QED
  BY <1>1, VerdictTask, VerdictConsumer DEF Next, Stopped

-----------------------------------------------------------------------------
(* The rows on their way.                                                  *)

first == FirstRows(items)
opened == SetsOpened(items, Len(items))

\* The task has not yet said how the response ended.
Busy == pc \in {"reading", "sending", "last"}

\* While the response is read its rows are forwarded up to the end of the
\* first result set or the first that is no good.
ForwardInv ==
    /\ header = "unsent" => opened = 0 /\ AllConvert(items)
    /\ header \in {"unsent", "failed"} => first = <<>>
    /\ Busy => header \in {"unsent", "columns"}
    /\ pc \in {"reading", "sending"} =>
           /\ ending = "none"
           /\ header = "columns" => opened > 0
           /\ header = "columns" /\ forwarding => opened = 1 /\ AllConvert(items)
           /\ header = "columns" /\ ~forwarding /\ consumer # "gone" =>
                  opened # 1 \/ ~AllConvert(items)
    /\ pc = "sending" => forwarding /\ header = "columns"

\* How the response ended, as the task knows it.
EndingInv ==
    /\ pc \in {"reading", "sending"} => failure \in {"none", "bad"}
    /\ failure # "none" => failure \in {"bad", ending}
    /\ pc \in {"last", "acking", "done"} /\ failure = "none" => ending = "end"
    /\ header = "failed" => failure # "none" /\ ending # "none"
    /\ told \in Endings => told = ending
    /\ told = "bad" => ending # "none"

\* Where the caller is.
CallerInv ==
    /\ consumer = "waiting" => delivered = <<>>
    /\ consumer \in {"waiting", "streaming"} => told = "nothing"
    /\ consumer = "gone" => rows = <<>> /\ told = "nothing"
    /\ consumer = "over" => ~Busy
    /\ consumer = "over" => told # "nothing"

\* The rows delivered and those in the channel are those of the response, in
\* order; while the task is busy only the row in hand is missing, and an entry
\* that is no row comes after all of them.
OrderInv ==
    /\ first \in Seq(Nat)
    /\ Len(delivered) <= Len(first)
    /\ \A k \in 1..Len(delivered) : delivered[k] = first[k]
    /\ \A k \in 1..Len(rows) :
           /\ rows[k][1] = "row" => /\ Len(delivered) + k <= Len(first)
                                    /\ rows[k][2] = first[Len(delivered) + k]
           /\ rows[k][1] # "row" => /\ ~Busy
                                    /\ Len(first) + 1 = Len(delivered) + k
                                    /\ k = Len(rows)
                                    /\ ending # "none"
                                    /\ rows[k][1] \in {"bad", ending}
    /\ Len(rows) <= Buffer
    /\ consumer # "gone" =>
           /\ Len(first) <= Len(delivered) + Len(rows) + 1
           /\ pc \in {"reading", "last"} => Len(first) = Len(delivered) + Len(rows)
           /\ pc = "sending" => /\ Len(first) = Len(delivered) + Len(rows) + 1
                                /\ first[Len(first)] = Len(items)
    /\ told \in {"end"} \cup Failures => delivered = first

StreamInv == ForwardInv /\ EndingInv /\ CallerInv /\ OrderInv

LEMMA StreamInit ==
    Init => StreamInv
<1> SUFFICES ASSUME Init
             PROVE  StreamInv
  OBVIOUS
<1>1. items = <<>> /\ first = <<>> /\ opened = 0 /\ AllConvert(items)
  BY FirstRowsOfNone, NoneOpened DEF Init, first, opened, AllConvert
<1>2. OrderInv
  BY <1>1, BufferAssumption DEF Init, OrderInv, Failures
<1>3. ForwardInv /\ EndingInv /\ CallerInv
  BY <1>1 DEF Init, ForwardInv, EndingInv, CallerInv, Busy, Endings
<1> QED
  BY <1>2, <1>3 DEF StreamInv

\* What reading an item adds.
LEMMA ReadGrows ==
    ASSUME TypeOK, NEW item \in Items, Read(item)
    PROVE  /\ items' = Append(items, item)
           /\ Len(items) \in Nat
           /\ opened \in Nat
           /\ opened' = IF item = "meta" THEN opened + 1 ELSE opened
           /\ AllConvert(items)' <=> AllConvert(items) /\ item # "bad"
           /\ first' = IF item = "row" /\ opened = 1 /\ AllConvert(items)
                       THEN Append(first, Len(items) + 1) ELSE first
<1>1. items' = Append(items, item) /\ items \in Seq(Items)
  BY DEF Read, TypeOK
<1>2. Len(items) \in Nat /\ Len(Append(items, item)) = Len(items) + 1
  BY <1>1
<1>3. opened \in Nat
  BY <1>2, OpenedIsNat DEF opened
<1>4. SetsOpened(Append(items, item), Len(items) + 1) =
          IF item = "meta" THEN SetsOpened(items, Len(items)) + 1 ELSE SetsOpened(items, Len(items))
  BY <1>1, OpenedAfter
<1>5. AllConvert(Append(items, item)) <=> AllConvert(items) /\ item # "bad"
  BY <1>1, AllConvertGrows
<1>6. FirstRows(Append(items, item)) =
          IF item = "row" /\ SetsOpened(items, Len(items)) = 1 /\ AllConvert(items)
          THEN Append(FirstRows(items), Len(items) + 1) ELSE FirstRows(items)
  BY <1>1, FirstRowsGrow
<1> QED
  BY <1>1, <1>2, <1>3, <1>4, <1>5, <1>6 DEF opened, first

LEMMA SameItems ==
    items' = items =>
        first' = first /\ opened' = opened /\ (AllConvert(items)' <=> AllConvert(items))
  BY DEF first, opened

\* What no step that leaves the rows alone disturbs.
LEMMA OrderFrame ==
    ASSUME OrderInv, first' = first, UNCHANGED <<delivered, rows>>,
           Busy' => Busy, consumer' # "gone" => consumer # "gone",
           ending # "none" => ending' = ending,
           pc' \in {"reading", "last"} => pc \in {"reading", "last"},
           pc' = "sending" => pc = "sending" /\ items' = items,
           told' \in {"end"} \cup Failures => delivered = first
    PROVE  OrderInv'
  BY DEF OrderInv

LEMMA ForwardFrame ==
    ASSUME ForwardInv, items' = items, Busy' => Busy,
           Busy' => header' = header,
           header' = "unsent" => header = "unsent",
           header' = "failed" => header \in {"unsent", "failed"},
           pc' \in {"reading", "sending"} =>
               /\ UNCHANGED <<ending, forwarding, header>> /\ pc' = pc
               /\ consumer' # "gone" => consumer # "gone"
    PROVE  ForwardInv'
  BY SameItems DEF ForwardInv, Busy

-----------------------------------------------------------------------------
(* The steps of the task.                                                  *)

LEMMA StreamMetadata ==
    ASSUME TypeOK, VerdictInv, StreamInv, ReadMetadata
    PROVE  StreamInv'
<1>1. Read("meta") /\ "meta" \in Items
  BY DEF ReadMetadata, Items
<1>2. /\ first' = first /\ opened' = opened + 1 /\ opened \in Nat
      /\ AllConvert(items)' <=> AllConvert(items)
  BY <1>1, ReadGrows
<1>3. /\ pc = "reading" /\ pc' = "reading"
      /\ UNCHANGED <<ending, attention, rows, consumer, delivered, told, dropped, failure>>
  BY <1>1 DEF ReadMetadata, Read, consumerVars
<1>4. ForwardInv'
  <2>1. consumer \in {"waiting", "gone"} \/ header = "columns"
    BY <1>3 DEF StreamInv, CallerInv, Busy, VerdictInv, TypeOK
  <2>2. header \in {"unsent", "columns"} /\ header' = "columns" /\ ending = "none"
    BY <1>3 DEF StreamInv, ForwardInv, Busy, ReadMetadata
  <2>3. forwarding' = (header = "unsent" /\ consumer = "waiting")
    BY DEF ReadMetadata
  <2>4. header = "unsent" => opened = 0 /\ AllConvert(items)
    BY DEF StreamInv, ForwardInv
  <2>5. header = "columns" => opened > 0
    BY <1>3 DEF StreamInv, ForwardInv
  <2>6. /\ opened' > 0
        /\ ~forwarding' /\ consumer # "gone" => opened' # 1
        /\ forwarding' => opened' = 1
    <3>1. opened' = opened + 1 /\ opened \in Nat
      BY <1>2
    <3>2. header = "unsent" => opened = 0
      BY <2>4
    <3>3. header = "unsent" => (forwarding' <=> consumer = "waiting")
      BY <2>3
    <3>4. header # "unsent" => ~forwarding' /\ opened > 0
      BY <2>2, <2>3, <2>5
    <3>5. header = "unsent" /\ ~forwarding' => consumer = "gone"
      BY <2>1, <3>3
    <3> QED
      BY <3>1, <3>2, <3>4, <3>5
  <2>7. forwarding' => AllConvert(items)'
    BY <1>2, <2>3, <2>4
  <2> QED
    BY <1>3, <2>2, <2>6, <2>7 DEF ForwardInv
<1>5. OrderInv'
  BY <1>2, <1>3, OrderFrame DEF StreamInv, OrderInv, Busy
<1>6. EndingInv' /\ CallerInv'
  <2>1. header' = "failed" => header = "failed"
    BY DEF ReadMetadata
  <2> QED
    BY <1>3, <2>1 DEF StreamInv, EndingInv, CallerInv, Busy
<1> QED
  BY <1>4, <1>5, <1>6 DEF StreamInv

LEMMA StreamRow ==
    ASSUME TypeOK, VerdictInv, StreamInv, ReadRow
    PROVE  StreamInv'
<1>1. Read("row") /\ "row" \in Items
  BY DEF ReadRow, Items
<1>2. /\ opened' = opened /\ opened \in Nat /\ items' = Append(items, "row") /\ Len(items) \in Nat
      /\ AllConvert(items)' <=> AllConvert(items)
      /\ first' = IF opened = 1 /\ AllConvert(items) THEN Append(first, Len(items) + 1) ELSE first
  BY <1>1, ReadGrows
<1>3. /\ pc = "reading" /\ pc' = IF forwarding THEN "sending" ELSE "reading"
      /\ UNCHANGED <<ending, attention, rows, consumer, delivered, told, dropped, failure, header, forwarding>>
      /\ header # "unsent"
  BY <1>1 DEF ReadRow, Read, consumerVars, readerVars
<1>4. header = "columns"
  BY <1>3 DEF StreamInv, ForwardInv, Busy
<1>5. ForwardInv'
  BY <1>2, <1>3, <1>4 DEF StreamInv, ForwardInv
<1>6. EndingInv' /\ CallerInv'
  BY <1>3 DEF StreamInv, EndingInv, CallerInv, Busy
<1>7. OrderInv'
  <2> DEFINE f == Len(first)
             d == Len(delivered)
             r == Len(rows)
  <2>1. /\ first \in Seq(Nat) /\ f \in Nat /\ d \in Nat /\ r \in Nat /\ d <= f
        /\ OrderInv
    BY DEF StreamInv, OrderInv, TypeOK
  <2>2. CASE first' = first
    <3>1. pc' = "reading" \/ consumer = "gone"
      <4>1. \/ ~forwarding
            \/ opened = 1 /\ AllConvert(items) /\ forwarding
        BY <1>3, <1>4 DEF StreamInv, ForwardInv
      <4>2. opened = 1 /\ AllConvert(items) => first' # first
        <5>1. Len(Append(first, Len(items) + 1)) = f + 1
          BY <2>1
        <5> QED
          BY <1>2, <2>1, <5>1
      <4> QED
        BY <1>3, <2>2, <4>1, <4>2
    <3> QED
      BY <1>3, <2>2, <3>1, <2>1 DEF OrderInv, Busy, StreamInv, CallerInv
  <2>3. CASE first' # first
    <3>1. first' = Append(first, Len(items) + 1) /\ opened = 1 /\ AllConvert(items)
      BY <1>2, <2>3
    <3>2. /\ Len(first') = f + 1 /\ first' \in Seq(Nat)
          /\ \A k \in 1..f : first'[k] = first[k]
          /\ first'[f + 1] = Len(items')
      BY <1>2, <2>1, <3>1
    <3>3. consumer # "gone" => forwarding /\ pc' = "sending" /\ f = d + r
      BY <1>3, <1>4, <2>1, <3>1 DEF StreamInv, ForwardInv, OrderInv
    <3>4. consumer = "gone" => r = 0
      BY DEF StreamInv, CallerInv
    <3>5. \A k \in 1..r : rows[k][1] = "row" /\ d + k <= f /\ rows[k][2] = first[d + k]
      BY <1>3, <2>1 DEF OrderInv, Busy
    <3>6. \A k \in 1..d : delivered[k] = first[k]
      BY <2>1 DEF OrderInv
    <3>7. ~(told \in {"end"} \cup Failures)
      BY <1>3 DEF StreamInv, CallerInv, Busy, TypeOK, Failures
    <3>8. r <= Buffer
      BY DEF StreamInv, OrderInv
    <3>9. /\ Len(first') = f + 1 /\ Len(rows') = r /\ Len(delivered') = d
          /\ rows' = rows /\ delivered' = delivered /\ told' = told
          /\ consumer' = consumer
      BY <1>3, <3>2
    <3>10. \A k \in 1..r : d + k \in 1..f
      BY <2>1, <3>5
    <3>11. \A k \in 1..d : k \in 1..f
      BY <2>1
    <3> HIDE DEF f, d, r
    <3>12. \A k \in 1..r : /\ rows[k][1] = "row" /\ d + k <= f + 1
                           /\ rows[k][2] = first'[d + k]
      <4> TAKE k \in 1..r
      <4>1. rows[k][1] = "row" /\ d + k <= f /\ rows[k][2] = first[d + k] /\ d + k \in 1..f
        BY <3>5, <3>10
      <4>2. first'[d + k] = first[d + k]
        BY <3>2, <4>1
      <4>3. d + k <= f + 1
        BY <2>1, <4>1
      <4> QED
        BY <4>1, <4>2, <4>3
    <3>13. \A k \in 1..d : delivered[k] = first'[k]
      BY <3>2, <3>6, <3>11
    <3>14. d <= f + 1 /\ (consumer # "gone" => f + 1 = d + r + 1)
      BY <2>1, <3>3
    <3>15. consumer # "gone" => pc' = "sending"
      BY <3>3
    <3> QED
      BY <3>2, <3>7, <3>8, <3>9, <3>12, <3>13, <3>14, <3>15 DEF OrderInv
  <2> QED
    BY <2>2, <2>3
<1> QED
  BY <1>5, <1>6, <1>7 DEF StreamInv

LEMMA StreamBadRow ==
    ASSUME TypeOK, VerdictInv, StreamInv, ReadBadRow
    PROVE  StreamInv'
<1>1. Read("bad") /\ "bad" \in Items
  BY DEF ReadBadRow, Items
<1>2. /\ first' = first /\ opened' = opened /\ opened \in Nat
      /\ ~AllConvert(items)'
  BY <1>1, ReadGrows
<1>3. /\ pc = "reading" /\ pc' = "reading"
      /\ UNCHANGED <<ending, attention, rows, consumer, delivered, told, dropped, header>>
      /\ header # "unsent"
  BY <1>1 DEF ReadBadRow, Read, consumerVars
<1>4. /\ ~forwarding'
      /\ failure' \in {failure, "bad"}
      /\ failure # "none" => failure' # "none"
  BY DEF ReadBadRow, TypeOK
<1>5. ForwardInv'
  BY <1>2, <1>3, <1>4 DEF StreamInv, ForwardInv, Busy
<1>6. EndingInv' /\ CallerInv'
  BY <1>3, <1>4 DEF StreamInv, EndingInv, CallerInv, Busy
<1>7. OrderInv'
  BY <1>2, <1>3, OrderFrame DEF StreamInv, OrderInv, Busy
<1> QED
  BY <1>5, <1>6, <1>7 DEF StreamInv

LEMMA StreamEnding ==
    ASSUME TypeOK, VerdictInv, StreamInv, ReadEnding
    PROVE  StreamInv'
<1>1. /\ pc = "reading" /\ pc' = "last" /\ ending' \in Endings
      /\ failure' = IF failure = "none" /\ ending' # "end" THEN ending' ELSE failure
      /\ UNCHANGED <<items, header, forwarding, rows, consumer, delivered, told>>
  BY DEF ReadEnding, consumerVars
<1>2. ending = "none"
  BY <1>1 DEF StreamInv, ForwardInv
<1>3. failure \in {"none", "bad"}
  BY <1>1 DEF StreamInv, EndingInv
<1>4. ForwardInv'
  BY <1>1, SameItems DEF StreamInv, ForwardInv, Busy
<1>5. EndingInv'
  <2>1. told \notin Endings
    BY <1>2 DEF StreamInv, EndingInv, Endings
  <2> QED
    BY <1>1, <1>2, <1>3, <2>1 DEF StreamInv, EndingInv, Endings
<1>6. CallerInv'
  BY <1>1 DEF StreamInv, CallerInv, Busy
<1>7. OrderInv'
  BY <1>1, <1>2, SameItems, OrderFrame DEF StreamInv, OrderInv, Busy
<1> QED
  BY <1>4, <1>5, <1>6, <1>7 DEF StreamInv

\* An entry added to the channel, while the caller is there to take it.
LEMMA OrderEnqueue ==
    ASSUME TypeOK, OrderInv, consumer # "gone", Sendable,
           NEW kind, NEW n, <<kind, n>> \in Entry, Enqueue(kind, n),
           UNCHANGED <<items, ending, consumer, delivered, told>>,
           \A k \in 1..Len(rows) : rows[k][1] = "row",
           \/ /\ kind = "row" /\ pc' = "reading"
              /\ Len(first) = Len(delivered) + Len(rows) + 1
              /\ n = first[Len(first)]
           \/ /\ kind # "row" /\ ~Busy'
              /\ Len(first) = Len(delivered) + Len(rows)
              /\ ending # "none" /\ kind \in {"bad", ending}
    PROVE  OrderInv'
<1> DEFINE f == Len(first)
           d == Len(delivered)
           r == Len(rows)
<1>1. first \in Seq(Nat) /\ f \in Nat /\ d \in Nat /\ r \in Nat /\ rows \in Seq(Entry)
  BY DEF OrderInv, TypeOK, Entry
<1>2. rows' = Append(rows, <<kind, n>>) /\ r < Buffer
  BY DEF Enqueue, Sendable
<1>3. /\ Len(rows') = r + 1 /\ rows'[r + 1] = <<kind, n>>
      /\ \A k \in 1..r : rows'[k] = rows[k]
  BY <1>1, <1>2
<1>4. first' = first
  BY SameItems
<1>5. \A k \in 1..r : rows[k][1] = "row" /\ d + k <= f /\ rows[k][2] = first[d + k]
  BY DEF OrderInv
<1>6. /\ d <= f /\ \A k \in 1..d : delivered[k] = first[k]
      /\ told \in {"end"} \cup Failures => delivered = first
  BY DEF OrderInv
<1>7. \A k \in 1..(r + 1) : k \in 1..r \/ k = r + 1
  BY <1>1
<1>8. r + 1 <= Buffer
  BY <1>1, <1>2, BufferAssumption
<1>9. /\ rows'[r + 1][1] = kind /\ rows'[r + 1][2] = n
  BY <1>3
<1>10. \/ kind = "row" /\ pc' = "reading" /\ f = d + r + 1 /\ n = first[d + r + 1]
       \/ kind # "row" /\ ~Busy' /\ f = d + r /\ ending # "none" /\ kind \in {"bad", ending}
  BY <1>1
<1>11. Len(delivered') = d /\ Len(first') = f
  BY <1>4
<1> HIDE DEF f, d, r
<1>12. CASE kind = "row"
  <2>1. pc' = "reading" /\ f = d + (r + 1) /\ n = first[d + (r + 1)]
    BY <1>1, <1>10, <1>12
  <2>2. \A k \in 1..(r + 1) : /\ rows'[k][1] = "row"
                              /\ d + k <= f /\ rows'[k][2] = first[d + k]
    <3> TAKE k \in 1..(r + 1)
    <3>1. CASE k \in 1..r
      BY <1>3, <1>5, <3>1
    <3>2. CASE k = r + 1
      BY <1>1, <1>9, <1>12, <2>1, <3>2
    <3> QED
      BY <1>7, <3>1, <3>2
  <2>3. f <= d + (r + 1) + 1
    BY <1>1, <2>1
  <2> QED
    BY <1>1, <1>3, <1>4, <1>6, <1>8, <1>11, <2>1, <2>2, <2>3 DEF OrderInv
<1>13. CASE kind # "row"
  <2>1. /\ ~Busy' /\ f + 1 = d + (r + 1) /\ ending # "none" /\ kind \in {"bad", ending}
        /\ pc' \notin {"reading", "last", "sending"}
    <3>1. ~Busy' /\ f = d + r /\ ending # "none" /\ kind \in {"bad", ending}
      BY <1>10, <1>13
    <3>2. pc' \notin {"reading", "last", "sending"}
      BY <3>1 DEF Busy
    <3> QED
      BY <1>1, <3>1, <3>2
  <2>2. \A k \in 1..r : rows'[k][1] = "row" /\ d + k <= f /\ rows'[k][2] = first[d + k]
    BY <1>3, <1>5
  <2>3. f <= d + (r + 1) + 1
    BY <1>1, <2>1
  <2> QED
    BY <1>1, <1>3, <1>4, <1>6, <1>7, <1>8, <1>9, <1>11, <1>13, <2>1, <2>2, <2>3 DEF OrderInv
<1> QED
  BY <1>12, <1>13

LEMMA StreamSendRow ==
    ASSUME TypeOK, VerdictInv, StreamInv, SendRow
    PROVE  StreamInv'
<1>1. /\ pc = "sending" /\ pc' = "reading" /\ Sendable /\ Enqueue("row", Len(items))
      /\ forwarding' = (consumer # "gone")
      /\ UNCHANGED <<items, ending, header, failure, consumer, delivered, told>>
  BY DEF SendRow, serverVars, consumerVars
<1>2. ForwardInv'
  BY <1>1, SameItems DEF StreamInv, ForwardInv, Busy
<1>3. EndingInv'
  BY <1>1 DEF StreamInv, EndingInv
<1>4. CallerInv'
  BY <1>1 DEF StreamInv, CallerInv, Busy, Enqueue
<1>5. OrderInv'
  <2>1. CASE consumer = "gone"
    <3>1. rows' = rows
      BY <1>1, <2>1 DEF Enqueue
    <3>2. told = "nothing"
      BY <2>1 DEF StreamInv, CallerInv
    <3> QED
      BY <1>1, <2>1, <3>1, <3>2, SameItems DEF OrderInv, StreamInv, Busy, Failures
  <2>2. CASE consumer # "gone"
    <3>1. OrderInv
      BY DEF StreamInv
    <3>2. \A k \in 1..Len(rows) : rows[k][1] = "row"
      BY <1>1, <3>1 DEF OrderInv, Busy
    <3>3. Len(first) = Len(delivered) + Len(rows) + 1 /\ Len(items) = first[Len(first)]
      BY <1>1, <2>2, <3>1 DEF OrderInv
    <3>4. <<"row", Len(items)>> \in Entry
      BY LengthIsNat DEF Entry
    <3> QED
      BY <1>1, <2>2, <3>1, <3>2, <3>3, <3>4, OrderEnqueue
  <2> QED
    BY <2>1, <2>2
<1> QED
  BY <1>2, <1>3, <1>4, <1>5 DEF StreamInv

LEMMA StreamSendLast ==
    ASSUME TypeOK, WireInv, VerdictInv, StreamInv, SendLast
    PROVE  StreamInv'
<1>1. /\ pc = "last" /\ ~Busy' /\ ending # "none"
      /\ UNCHANGED <<items, ending, attention, forwarding, failure, consumer, delivered, told>>
  BY DEF SendLast, AfterLast, serverVars, consumerVars, Busy, WireInv
<1>2. /\ header' = "unsent" => header = "unsent"
      /\ header' = "failed" => header \in {"unsent", "failed"} /\ (failure # "none" \/ header = "failed")
  BY DEF SendLast
<1>3. ForwardInv'
  BY <1>1, <1>2, ForwardFrame DEF StreamInv, Busy
<1>4. EndingInv'
  BY <1>1, <1>2 DEF StreamInv, EndingInv, Busy
<1>5. CallerInv'
  <2>1. consumer = "gone" => rows' = rows
    BY DEF SendLast, Enqueue
  <2> QED
    BY <1>1, <2>1 DEF StreamInv, CallerInv
<1>6. OrderInv'
  <2>1. CASE rows' = rows
    <3>1. told \in {"end"} \cup Failures => delivered = first
      BY DEF StreamInv, OrderInv
    <3> QED
      BY <1>1, <2>1, <3>1, SameItems, OrderFrame DEF StreamInv, Busy
  <2>2. CASE rows' # rows
    <3> DEFINE kind == IF failure = "none" THEN "end" ELSE failure
    <3>1. consumer # "gone" /\ Sendable /\ Enqueue(kind, 0)
      BY <2>2 DEF SendLast, Enqueue
    <3>2. OrderInv
      BY DEF StreamInv
    <3>3. \A k \in 1..Len(rows) : rows[k][1] = "row"
      BY <1>1, <3>2 DEF OrderInv, Busy
    <3>4. Len(first) = Len(delivered) + Len(rows)
      BY <1>1, <3>1, <3>2 DEF OrderInv
    <3>5. kind # "row" /\ kind \in {"bad", ending} /\ <<kind, 0>> \in Entry
      BY <1>1 DEF StreamInv, EndingInv, TypeOK, Failures, Entry
    <3> HIDE DEF kind
    <3> QED
      BY <1>1, <3>1, <3>2, <3>3, <3>4, <3>5, OrderEnqueue
  <2> QED
    BY <2>1, <2>2
<1> QED
  BY <1>3, <1>4, <1>5, <1>6 DEF StreamInv

\* Cancelling reads and sends no row.
LEMMA StreamCancels ==
    ASSUME TypeOK, VerdictInv, StreamInv, Cancel \/ Acknowledge \/ CancelFails \/ DropTask
    PROVE  StreamInv'
<1>1. UNCHANGED <<items, ending, forwarding, failure, rows, consumer, delivered, told>>
  BY DEF Cancel, Acknowledge, CancelFails, DropTask, Die, serverVars, readerVars, consumerVars
<1>2. /\ pc' = pc \/ pc' = "dead" \/ (pc = "acking" /\ pc' = "done")
      /\ header' = header \/ (pc' = "dead" /\ header' = "dropped")
  BY DEF Cancel, Acknowledge, CancelFails, DropTask, Die, serverVars, readerVars
<1>3. Busy' => Busy /\ pc' = pc /\ header' = header
  BY <1>2 DEF Busy
<1>4. ForwardInv'
  <2>1. pc' \in {"reading", "sending"} => Busy'
    BY DEF Busy
  <2> QED
    BY <1>1, <1>2, <1>3, <2>1, ForwardFrame DEF StreamInv
<1>5. EndingInv'
  BY <1>1, <1>2 DEF StreamInv, EndingInv
<1>6. CallerInv'
  BY <1>1, <1>3 DEF StreamInv, CallerInv
<1>7. OrderInv'
  <2>1. told \in {"end"} \cup Failures => delivered = first
    BY DEF StreamInv, OrderInv
  <2> QED
    BY <1>1, <1>2, <1>3, <2>1, SameItems, OrderFrame DEF StreamInv
<1> QED
  BY <1>4, <1>5, <1>6, <1>7 DEF StreamInv

-----------------------------------------------------------------------------
(* The steps of the caller.                                                *)

LEMMA StreamTakeHeader ==
    ASSUME TypeOK, StreamInv, TakeHeader
    PROVE  StreamInv'
<1>1. /\ consumer = "waiting" /\ told = "nothing" /\ header # "unsent" /\ consumer' # "gone"
      /\ UNCHANGED <<items, ending, pc, header, forwarding, failure, rows, delivered>>
  BY DEF TakeHeader, serverVars, readerVars, StreamInv, CallerInv
<1>2. Busy' <=> Busy
  BY <1>1 DEF Busy
<1>3. ForwardInv'
  BY <1>1, <1>2, ForwardFrame DEF StreamInv
<1>4. EndingInv' /\ CallerInv' /\ (told' \in {"end"} \cup Failures => delivered = first)
  <2>1. CASE header = "columns"
    BY <1>1, <1>2, <2>1 DEF TakeHeader, StreamInv, EndingInv, CallerInv, Endings, Failures
  <2>2. CASE header = "failed"
    <3>1. told' = failure /\ consumer' = "over" /\ failure # "none" /\ ending # "none"
      BY <1>1, <2>2 DEF TakeHeader, StreamInv, EndingInv
    <3>2. ~Busy /\ delivered = <<>> /\ first = <<>>
      BY <1>1, <2>2 DEF StreamInv, ForwardInv, CallerInv
    <3>3. failure \in {"bad", ending} /\ failure # "nothing"
      BY <3>1 DEF StreamInv, EndingInv, TypeOK, Failures
    <3> QED
      BY <1>1, <1>2, <3>1, <3>2, <3>3 DEF StreamInv, EndingInv, CallerInv, Endings
  <2>3. CASE header = "dropped"
    <3>1. told' = "closed" /\ consumer' = "over"
      BY <1>1, <2>3 DEF TakeHeader
    <3>2. ~Busy
      BY <2>3 DEF StreamInv, ForwardInv
    <3> QED
      BY <1>1, <1>2, <3>1, <3>2 DEF StreamInv, EndingInv, CallerInv, Endings, Failures
  <2> QED
    BY <1>1, <2>1, <2>2, <2>3 DEF TypeOK
<1>5. OrderInv'
  BY <1>1, <1>2, <1>4, SameItems, OrderFrame DEF StreamInv
<1> QED
  BY <1>3, <1>4, <1>5 DEF StreamInv

\* The next of the channel is the next row, or comes after all of them.
LEMMA HeadIsNext ==
    ASSUME TypeOK, StreamInv, rows # <<>>
    PROVE  /\ rows[1] = Head(rows)
           /\ rows[1][1] = "row" => /\ Len(delivered) + 1 <= Len(first)
                                    /\ rows[1][2] = first[Len(delivered) + 1]
           /\ rows[1][1] # "row" => /\ delivered = first /\ Len(rows) = 1 /\ ~Busy
                                    /\ ending # "none" /\ rows[1][1] \in {"bad", ending}
<1>1. rows \in Seq(Entry) /\ 1 \in 1..Len(rows) /\ rows[1] = Head(rows)
  BY DEF TypeOK, Entry
<1>2. OrderInv
  BY DEF StreamInv
<1>3. ASSUME rows[1][1] # "row"
      PROVE  delivered = first
  <2>1. Len(first) + 1 = Len(delivered) + 1
    BY <1>1, <1>2, <1>3 DEF OrderInv
  <2>2. first \in Seq(Nat) /\ delivered \in Seq(Nat)
    BY <1>2 DEF OrderInv, TypeOK
  <2>3. Len(first) = Len(delivered) /\ \A k \in 1..Len(delivered) : delivered[k] = first[k]
    BY <1>2, <2>1, <2>2 DEF OrderInv
  <2> QED
    BY <2>2, <2>3
<1> QED
  BY <1>1, <1>2, <1>3 DEF OrderInv

LEMMA StreamPollNext ==
    ASSUME TypeOK, StreamInv, PollNext
    PROVE  StreamInv'
<1>1. /\ consumer = "streaming" /\ told = "nothing" /\ rows # <<>> /\ rows' = Tail(rows)
      /\ UNCHANGED <<items, ending, pc, header, forwarding, failure>>
  BY DEF PollNext, serverVars, readerVars, StreamInv, CallerInv
<1>2. Busy' <=> Busy
  BY <1>1 DEF Busy
<1>3. consumer' # "gone"
  BY <1>1 DEF PollNext
<1>4. ForwardInv'
  BY <1>1, <1>2, <1>3, ForwardFrame DEF StreamInv
<1>5. first' = first /\ OrderInv
  BY <1>1, SameItems DEF StreamInv
<1>6. rows \in Seq(Entry)
  BY DEF TypeOK, Entry
<1>7. CASE Head(rows)[1] = "row"
  <2>1. delivered' = Append(delivered, Head(rows)[2]) /\ UNCHANGED <<consumer, told>>
    BY <1>7 DEF PollNext
  <2>2. EndingInv' /\ CallerInv'
    BY <1>1, <1>2, <2>1 DEF StreamInv, EndingInv, CallerInv
  <2> DEFINE f == Len(first)
             d == Len(delivered)
             r == Len(rows)
  <2>3. f \in Nat /\ d \in Nat /\ r \in Nat /\ r > 0 /\ r <= Buffer /\ Buffer \in Nat
    BY <1>1, <1>5, <1>6, BufferAssumption DEF OrderInv, TypeOK
  <2>4. d + 1 <= f /\ Head(rows)[2] = first[d + 1]
    BY <1>1, <1>7, HeadIsNext
  <2>5. Len(rows') = r - 1 /\ \A k \in 1..(r - 1) : rows'[k] = rows[k + 1]
    BY <1>1, <1>6, <2>3
  <2>6. /\ Len(delivered') = d + 1 /\ delivered'[d + 1] = first[d + 1]
        /\ \A k \in 1..d : delivered'[k] = delivered[k]
    BY <2>1, <2>4 DEF TypeOK
  <2>7. \A k \in 1..d : delivered[k] = first[k]
    BY <1>5 DEF OrderInv
  <2>8. \A k \in 1..r :
           /\ rows[k][1] = "row" => d + k <= f /\ rows[k][2] = first[d + k]
           /\ rows[k][1] # "row" => /\ ~Busy /\ f + 1 = d + k /\ k = r
                                    /\ ending # "none" /\ rows[k][1] \in {"bad", ending}
    BY <1>5 DEF OrderInv
  <2>9. /\ f <= d + r + 1
        /\ pc \in {"reading", "last"} => f = d + r
        /\ pc = "sending" => f = d + r + 1 /\ first[f] = Len(items)
    BY <1>1, <1>5 DEF OrderInv
  <2>10. Len(first') = f /\ first' \in Seq(Nat)
    BY <1>5 DEF OrderInv
  <2> HIDE DEF f, d, r
  <2>11. \A k \in 1..(d + 1) : delivered'[k] = first'[k]
    BY <1>5, <2>3, <2>6, <2>7
  <2>12. \A k \in 1..(r - 1) :
           /\ rows'[k][1] = "row" => (d + 1) + k <= f /\ rows'[k][2] = first'[(d + 1) + k]
           /\ rows'[k][1] # "row" => /\ ~Busy' /\ f + 1 = (d + 1) + k /\ k = r - 1
                                     /\ ending # "none" /\ rows'[k][1] \in {"bad", ending}
    <3> TAKE k \in 1..(r - 1)
    <3>1. /\ k + 1 \in 1..r /\ d + (k + 1) = (d + 1) + k /\ rows'[k] = rows[k + 1]
          /\ k + 1 = r => k = r - 1
      BY <2>3, <2>5
    <3> QED
      BY <1>2, <1>5, <2>8, <3>1
  <2>13. /\ r - 1 <= Buffer /\ d + 1 <= f
         /\ f <= (d + 1) + (r - 1) + 1
         /\ pc' \in {"reading", "last"} => f = (d + 1) + (r - 1)
         /\ pc' = "sending" => f = (d + 1) + (r - 1) + 1 /\ first'[f] = Len(items')
    BY <1>1, <1>5, <2>3, <2>4, <2>9
  <2>14. told' \notin {"end"} \cup Failures
    BY <1>1, <2>1 DEF Failures
  <2>15. OrderInv'
    BY <1>1, <2>5, <2>6, <2>10, <2>11, <2>12, <2>13, <2>14 DEF OrderInv
  <2> QED
    BY <1>4, <2>2, <2>15 DEF StreamInv
<1>8. CASE Head(rows)[1] # "row"
  <2>1. told' = Head(rows)[1] /\ consumer' = "over" /\ delivered' = delivered
    BY <1>8 DEF PollNext
  <2>2. /\ delivered = first /\ Len(rows) = 1 /\ ~Busy
        /\ ending # "none" /\ told' \in {"bad", ending}
    BY <1>1, <1>8, <2>1, HeadIsNext
  <2>3. told' # "nothing"
    BY <2>2 DEF TypeOK, Endings
  <2>4. EndingInv' /\ CallerInv'
    BY <1>1, <1>2, <2>1, <2>2, <2>3 DEF StreamInv, EndingInv, CallerInv, Endings
  <2>5. rows' = <<>> /\ Len(rows') = 0
    BY <1>1, <1>6, <2>2
  <2>6. pc \notin {"reading", "sending", "last"}
    BY <2>2 DEF Busy
  <2>7. Len(first) \in Nat /\ first \in Seq(Nat) /\ Buffer \in Nat
    BY <1>5, BufferAssumption DEF OrderInv
  <2>8. \A k \in 1..Len(first) : delivered'[k] = first'[k]
    BY <1>5, <2>1, <2>2
  <2>9. Len(delivered') = Len(first) /\ first' = first /\ delivered' = first'
    BY <1>5, <2>1, <2>2
  <2>10. OrderInv'
    <3>1. /\ first' \in Seq(Nat)
          /\ Len(delivered') <= Len(first')
          /\ Len(rows') <= Buffer
          /\ Len(first') <= Len(delivered') + Len(rows') + 1
          /\ Len(first') = Len(delivered') + Len(rows')
      BY <2>5, <2>7, <2>9
    <3>2. \A k \in 1..Len(delivered') : delivered'[k] = first'[k]
      BY <2>8, <2>9
    <3>3. 1..Len(rows') = {}
      BY <2>5
    <3>4. pc' \notin {"reading", "sending", "last"}
      BY <1>1, <2>6
    <3> QED
      BY <2>9, <3>1, <3>2, <3>3, <3>4 DEF OrderInv
  <2> QED
    BY <1>4, <2>4, <2>10 DEF StreamInv
<1> QED
  BY <1>7, <1>8

LEMMA StreamNextClosed ==
    ASSUME TypeOK, StreamInv, NextClosed
    PROVE  StreamInv'
<1>1. /\ told' = "closed" /\ consumer' = "over" /\ consumer = "streaming" /\ ~Busy
      /\ UNCHANGED <<items, ending, pc, header, forwarding, failure, rows, delivered>>
  BY DEF NextClosed, serverVars, readerVars, Busy
<1>2. Busy' <=> Busy
  BY <1>1 DEF Busy
<1>3. ForwardInv'
  BY <1>1, <1>2, ForwardFrame DEF StreamInv
<1>4. EndingInv' /\ CallerInv'
  BY <1>1, <1>2 DEF StreamInv, EndingInv, CallerInv, Endings
<1>5. OrderInv'
  BY <1>1, <1>2, SameItems, OrderFrame DEF StreamInv, Failures
<1> QED
  BY <1>3, <1>4, <1>5 DEF StreamInv

LEMMA StreamLeave ==
    ASSUME TypeOK, StreamInv, Leave
    PROVE  StreamInv'
<1>1. /\ consumer' = "gone" /\ rows' = <<>> /\ told' = "nothing"
      /\ UNCHANGED <<items, ending, pc, header, forwarding, failure, delivered>>
  BY DEF Leave, serverVars, readerVars, StreamInv, CallerInv
<1>2. Busy' <=> Busy
  BY <1>1 DEF Busy
<1>3. ForwardInv'
  BY <1>1, <1>2, ForwardFrame DEF StreamInv
<1>4. EndingInv' /\ CallerInv'
  BY <1>1, <1>2 DEF StreamInv, EndingInv, CallerInv, Endings
<1>5. OrderInv'
  <2>1. Len(rows') = 0 /\ Buffer \in Nat
    BY <1>1, BufferAssumption
  <2>2. first' = first
    BY <1>1, SameItems
  <2> QED
    BY <1>1, <2>1, <2>2 DEF StreamInv, OrderInv, Failures
<1> QED
  BY <1>3, <1>4, <1>5 DEF StreamInv

LEMMA StreamStep ==
    TypeOK /\ WireInv /\ VerdictInv /\ StreamInv /\ [Next]_vars => StreamInv'
<1> SUFFICES ASSUME TypeOK, WireInv, VerdictInv, StreamInv, [Next]_vars
             PROVE  StreamInv'
  OBVIOUS
<1>1. CASE TaskNext
  BY <1>1, StreamMetadata, StreamRow, StreamBadRow, StreamEnding, StreamSendRow, StreamSendLast,
     StreamCancels DEF TaskNext
<1>2. CASE ConsumerNext
  BY <1>2, StreamTakeHeader, StreamPollNext, StreamNextClosed, StreamLeave DEF ConsumerNext
<1>3. CASE UNCHANGED vars
  <2>1. UNCHANGED <<items, ending, pc, header, forwarding, failure, rows, consumer, delivered, told>>
    BY <1>3 DEF vars, serverVars, readerVars, consumerVars
  <2>2. Busy' <=> Busy
    BY <2>1 DEF Busy
  <2>3. ForwardInv'
    BY <2>1, <2>2, ForwardFrame DEF StreamInv
  <2>4. EndingInv' /\ CallerInv'
    BY <2>1, <2>2 DEF StreamInv, EndingInv, CallerInv
  <2>5. told \in {"end"} \cup Failures => delivered = first
    BY DEF StreamInv, OrderInv
  <2>6. OrderInv'
    BY <2>1, <2>2, <2>5, SameItems, OrderFrame DEF StreamInv
  <2> QED
    BY <2>3, <2>4, <2>6 DEF StreamInv
<1> QED
  BY <1>1, <1>2, <1>3 DEF Next, Stopped

-----------------------------------------------------------------------------
(* A row that does not convert.                                            *)

\* One of the first result set is the task's failure, unless the caller had
\* left before it was read, and then it is what the caller is told; one of a
\* later set is nobody's.
SpoilInv ==
    /\ SpoiledInSets(items)
    /\ failure = "bad" => FirstSpoiled(items)
    /\ consumer # "gone" /\ FirstSpoiled(items) => failure = "bad"
    /\ pc \in {"reading", "sending"} /\ header = "columns" /\ ~forwarding
           /\ consumer # "gone" /\ opened = 1 => failure = "bad"
    /\ \A k \in 1..Len(rows) :
           rows[k][1] # "row" => (rows[k][1] = "bad" <=> failure = "bad")
    /\ told \in {"end"} \cup Failures => (told = "bad" <=> failure = "bad")

LEMMA SpoilInit ==
    Init => SpoilInv
  BY DEF Init, SpoilInv, SpoiledInSets, FirstSpoiled, Failures

\* Nothing has been said of the response while it is read.
LEMMA NothingSaid ==
    ASSUME TypeOK, StreamInv, pc = "reading"
    PROVE  /\ \A k \in 1..Len(rows) : rows[k][1] = "row"
           /\ told = "nothing" /\ consumer # "over"
           /\ header \in {"unsent", "columns"}
<1>1. Busy
  BY DEF Busy
<1> QED
  BY <1>1 DEF TypeOK, StreamInv, CallerInv, OrderInv, ForwardInv

LEMMA SpoilReads ==
    ASSUME TypeOK, VerdictInv, StreamInv, SpoilInv, ReadMetadata \/ ReadRow \/ ReadBadRow
    PROVE  SpoilInv'
<1>1. PICK item \in Items :
          /\ Read(item)
          /\ \/ item = "meta" /\ ReadMetadata
             \/ item = "row" /\ ReadRow
             \/ item = "bad" /\ ReadBadRow
  BY DEF ReadMetadata, ReadRow, ReadBadRow, Items
<1>2. /\ pc = "reading" /\ items' = Append(items, item) /\ items \in Seq(Items)
      /\ UNCHANGED <<rows, consumer, told>>
  BY <1>1 DEF Read, TypeOK, consumerVars
<1>3. /\ opened \in Nat
      /\ opened' = IF item = "meta" THEN opened + 1 ELSE opened
      /\ FirstSpoiled(items)' <=> FirstSpoiled(items) \/ (item = "bad" /\ opened = 1)
  <2>1. FirstSpoiled(Append(items, item)) <=>
            FirstSpoiled(items) \/ (item = "bad" /\ SetsOpened(items, Len(items)) = 1)
    BY <1>2, FirstSpoiledGrows
  <2> QED
    BY <1>1, <1>2, <2>1, ReadGrows DEF opened
<1>4. /\ \A k \in 1..Len(rows) : rows[k][1] = "row"
      /\ told = "nothing" /\ consumer # "over"
      /\ header \in {"unsent", "columns"}
  BY <1>2, NothingSaid
<1>5. /\ header = "unsent" => opened = 0
      /\ header = "columns" => opened > 0
      /\ header = "columns" /\ forwarding => opened = 1
  BY <1>2 DEF StreamInv, ForwardInv
<1>6. item = "bad" => opened > 0
  BY <1>1, <1>4, <1>5 DEF ReadMetadata, ReadRow, ReadBadRow
<1>7. SpoiledInSets(items)'
  BY <1>2, <1>6, SpoiledInSetsGrows DEF SpoilInv, opened
<1>8. ASSUME failure' = "bad"
      PROVE  FirstSpoiled(items)'
  BY <1>1, <1>3, <1>4, <1>5, <1>8 DEF SpoilInv, ReadMetadata, ReadRow, ReadBadRow, readerVars
<1>9. ASSUME consumer # "gone", FirstSpoiled(items)'
      PROVE  failure' = "bad"
  <2>1. CASE FirstSpoiled(items)
    BY <1>1, <1>9, <2>1 DEF SpoilInv, ReadMetadata, ReadRow, ReadBadRow, readerVars
  <2>2. CASE item = "bad" /\ opened = 1
    <3>1. ReadBadRow /\ header = "columns"
      BY <1>1, <1>4, <2>2 DEF ReadMetadata, ReadRow, ReadBadRow
    <3> QED
      BY <1>2, <1>9, <2>2, <3>1 DEF SpoilInv, ReadBadRow, TypeOK
  <2> QED
    BY <1>3, <1>9, <2>1, <2>2
<1>10. ASSUME header' = "columns", ~forwarding', consumer # "gone", opened' = 1
       PROVE  failure' = "bad"
  <2>1. CASE ReadMetadata /\ item = "meta"
    <3>1. opened = 0 /\ header = "unsent"
      BY <1>3, <1>4, <1>5, <1>10, <2>1
    <3>2. consumer = "waiting"
      BY <1>4, <1>10, <3>1 DEF TypeOK, VerdictInv
    <3> QED
      BY <1>10, <2>1, <3>1, <3>2 DEF ReadMetadata
  <2>2. CASE ReadRow /\ item = "row"
    BY <1>2, <1>3, <1>10, <2>2 DEF ReadRow, SpoilInv, readerVars
  <2>3. CASE ReadBadRow /\ item = "bad"
    <3>1. opened = 1 /\ header = "columns"
      BY <1>3, <1>10, <2>3 DEF ReadBadRow
    <3> QED
      BY <1>2, <1>10, <2>3, <3>1 DEF ReadBadRow, SpoilInv, TypeOK
  <2> QED
    BY <1>1, <2>1, <2>2, <2>3
<1> QED
  BY <1>2, <1>4, <1>7, <1>8, <1>9, <1>10 DEF SpoilInv, Failures

LEMMA SpoilEnding ==
    ASSUME TypeOK, StreamInv, SpoilInv, ReadEnding
    PROVE  SpoilInv'
<1>1. /\ pc = "reading" /\ pc' = "last" /\ UNCHANGED <<items, rows, consumer, told>>
      /\ failure' = "bad" <=> failure = "bad"
  BY DEF ReadEnding, Endings, consumerVars
<1>2. (\A k \in 1..Len(rows) : rows[k][1] = "row") /\ told = "nothing"
  BY <1>1, NothingSaid
<1> QED
  BY <1>1, <1>2 DEF SpoilInv, Failures

\* What the task says at the end is its failure.
LEMMA SpoilSends ==
    ASSUME TypeOK, SpoilInv, SendRow \/ SendLast
    PROVE  SpoilInv'
<1>1. UNCHANGED <<items, failure, consumer, told>> /\ rows \in Seq(Entry)
  BY DEF SendRow, SendLast, serverVars, consumerVars, TypeOK, Entry
<1>2. opened' = opened
  BY <1>1, SameItems
<1>3. /\ pc' \in {"reading", "sending"} => SendRow
      /\ SendRow => forwarding' = (consumer # "gone")
  BY DEF SendRow, SendLast, AfterLast
<1>4. \/ rows' = rows
      \/ \E kind, n : /\ rows' = Append(rows, <<kind, n>>)
                      /\ kind # "row" => (kind = "bad" <=> failure = "bad")
  BY DEF SendRow, SendLast, Enqueue, TypeOK, Failures
<1>5. \A k \in 1..Len(rows') :
          rows'[k][1] # "row" => (rows'[k][1] = "bad" <=> failure = "bad")
  <2>1. CASE rows' = rows
    BY <2>1 DEF SpoilInv
  <2>2. ASSUME NEW kind, NEW n, rows' = Append(rows, <<kind, n>>),
               kind # "row" => (kind = "bad" <=> failure = "bad")
        PROVE  \A k \in 1..Len(rows') :
                   rows'[k][1] # "row" => (rows'[k][1] = "bad" <=> failure = "bad")
    <3>1. /\ Len(rows') = Len(rows) + 1 /\ Len(rows) \in Nat
          /\ \A k \in 1..Len(rows) : rows'[k] = rows[k]
          /\ rows'[Len(rows) + 1] = <<kind, n>>
      BY <1>1, <2>2
    <3>2. \A k \in 1..Len(rows') : k \in 1..Len(rows) \/ k = Len(rows) + 1
      BY <3>1
    <3> QED
      BY <2>2, <3>1, <3>2 DEF SpoilInv
  <2> QED
    BY <1>4, <2>1, <2>2
<1> QED
  BY <1>1, <1>2, <1>3, <1>5 DEF SpoilInv

LEMMA SpoilCancels ==
    ASSUME SpoilInv, Cancel \/ Acknowledge \/ CancelFails \/ DropTask
    PROVE  SpoilInv'
<1>1. /\ UNCHANGED <<items, failure, forwarding, rows, consumer, told>>
      /\ pc' \in {"reading", "sending"} => UNCHANGED <<pc, header>>
  BY DEF Cancel, Acknowledge, CancelFails, DropTask, Die, serverVars, readerVars, consumerVars
<1> QED
  BY <1>1, SameItems DEF SpoilInv

LEMMA SpoilConsumer ==
    ASSUME TypeOK, StreamInv, SpoilInv, ConsumerNext
    PROVE  SpoilInv'
<1>1. /\ UNCHANGED <<items, pc, header, forwarding, failure>> /\ consumer # "gone"
      /\ opened' = opened
  <2>1. UNCHANGED <<items, pc, header, forwarding, failure>> /\ consumer # "gone"
    BY DEF ConsumerNext, TakeHeader, PollNext, NextClosed, Leave, serverVars, readerVars
  <2> QED
    BY <2>1, SameItems
<1>2. CASE TakeHeader
  <2>1. rows' = rows /\ told = "nothing" /\ told' \in {told, failure, "closed"}
    BY <1>2 DEF TakeHeader, StreamInv, CallerInv
  <2> QED
    BY <1>1, <2>1 DEF SpoilInv, Failures
<1>3. CASE PollNext
  <2>1. rows \in Seq(Entry) /\ rows # <<>> /\ rows' = Tail(rows)
    BY <1>3 DEF PollNext, TypeOK, Entry
  <2>2. /\ Len(rows) \in Nat /\ Len(rows') = Len(rows) - 1 /\ Head(rows) = rows[1]
        /\ 1 \in 1..Len(rows)
        /\ \A k \in 1..Len(rows') : rows'[k] = rows[k + 1] /\ k + 1 \in 1..Len(rows)
    BY <2>1
  <2>3. \A k \in 1..Len(rows') :
            rows'[k][1] # "row" => (rows'[k][1] = "bad" <=> failure = "bad")
    BY <2>2 DEF SpoilInv
  <2>4. told = "nothing"
    BY <1>3 DEF PollNext, StreamInv, CallerInv
  <2>5. told' \in {"end"} \cup Failures => (told' = "bad" <=> failure = "bad")
    <3>1. CASE Head(rows)[1] = "row"
      BY <1>3, <2>4, <3>1 DEF PollNext, Failures
    <3>2. CASE Head(rows)[1] # "row"
      BY <1>3, <2>2, <3>2 DEF PollNext, SpoilInv
    <3> QED
      BY <3>1, <3>2
  <2> QED
    BY <1>1, <2>3, <2>5 DEF SpoilInv
<1>4. CASE NextClosed
  BY <1>1, <1>4 DEF NextClosed, SpoilInv, Failures
<1>5. CASE Leave
  <2>1. rows' = <<>> /\ Len(rows') = 0 /\ told' = "nothing" /\ consumer' = "gone"
    BY <1>5 DEF Leave, StreamInv, CallerInv
  <2> QED
    BY <1>1, <2>1 DEF SpoilInv, Failures
<1> QED
  BY <1>2, <1>3, <1>4, <1>5 DEF ConsumerNext

LEMMA SpoilStep ==
    TypeOK /\ VerdictInv /\ StreamInv /\ SpoilInv /\ [Next]_vars => SpoilInv'
<1> SUFFICES ASSUME TypeOK, VerdictInv, StreamInv, SpoilInv, [Next]_vars
             PROVE  SpoilInv'
  OBVIOUS
<1>1. CASE UNCHANGED vars
  <2>1. UNCHANGED <<items, pc, header, forwarding, failure, rows, consumer, told>>
    BY <1>1 DEF vars, serverVars, readerVars, consumerVars
  <2> QED
    BY <2>1, SameItems DEF SpoilInv
<1> QED
  BY <1>1, SpoilReads, SpoilEnding, SpoilSends, SpoilCancels, SpoilConsumer
     DEF Next, TaskNext, Stopped

-----------------------------------------------------------------------------
(* What the model promises.                                                *)

\* Every variable keeps its type; in particular what a caller is told is how
\* the response ended.
THEOREM StreamTyped == Spec => []TypeOK
<1>1. Init => TypeOK /\ VerdictInv
  BY TypeInit, VerdictInit
<1>2. TypeOK /\ VerdictInv /\ [Next]_vars => (TypeOK /\ VerdictInv)'
  BY TypeStep, VerdictStep DEF VerdictInv
<1> QED
  BY <1>1, <1>2, PTL DEF Spec

\* A caller who stays is told how the query ended, unless the runtime dropped
\* the task, whatever the size of the channel and however slowly it is read.
THEOREM ClosedOnlyIfDropped == Spec => []ClosedMeansDropped
<1>1. Init => TypeOK /\ VerdictInv
  BY TypeInit, VerdictInit
<1>2. TypeOK /\ VerdictInv /\ [Next]_vars => (TypeOK /\ VerdictInv)'
  BY TypeStep, VerdictStep DEF VerdictInv
<1>3. VerdictInv => ClosedMeansDropped
  BY DEF VerdictInv
<1> QED
  BY <1>1, <1>2, <1>3, PTL DEF Spec

IInv == TypeOK /\ WireInv /\ VerdictInv /\ StreamInv /\ SpoilInv

\* The inductive invariant.
THEOREM Invariance == Spec => []IInv
<1>1. Init => IInv
  BY TypeInit, WireInit, VerdictInit, StreamInit, SpoilInit DEF IInv
<1>2. IInv /\ [Next]_vars => IInv'
  BY TypeStep, WireStep, VerdictStep, StreamStep, SpoilStep DEF IInv, VerdictInv
<1> QED
  BY <1>1, <1>2, PTL DEF Spec

\* The task goes on to the next request with nothing of this one on the wire
\* but what the driver left unread when it failed otherwise than over I/O,
\* whenever a cancel crossed the response and whatever row did not convert.
THEOREM HandoverIsClean == Spec => []CleanHandover
<1>1. IInv => CleanHandover
  BY DEF IInv, WireInv
<1> QED
  BY <1>1, Invariance, PTL

LEMMA SameRows ==
    ASSUME NEW s \in Seq(Nat), NEW t \in Seq(Nat), Len(s) <= Len(t),
           \A k \in 1..Len(s) : s[k] = t[k]
    PROVE  s = SubSeq(t, 1, Len(s))
  OBVIOUS

\* A caller is given the rows of the first result set in their order, none
\* left out, whatever the size of the channel and whoever is slow.
THEOREM InOrderDelivery == Spec => []DeliversInOrder
<1>1. IInv => DeliversInOrder
  <2> SUFFICES ASSUME IInv
               PROVE  DeliversInOrder
    OBVIOUS
  <2>1. /\ first \in Seq(Nat) /\ delivered \in Seq(Nat) /\ Len(delivered) <= Len(first)
        /\ \A k \in 1..Len(delivered) : delivered[k] = first[k]
    BY DEF IInv, TypeOK, StreamInv, OrderInv
  <2>2. delivered = SubSeq(first, 1, Len(delivered))
    BY <2>1, SameRows
  <2> QED
    BY <2>1, <2>2 DEF DeliversInOrder, first
<1> QED
  BY <1>1, Invariance, PTL

\* A stream says that it is complete only with the whole response read and
\* every row of the first result set handed over: neither a cancel nor a cut
\* connection nor a dropped task looks like an end, nor does a row of that set
\* that does not convert.
THEOREM EndMeansComplete == Spec => []NothingTruncated
<1>1. IInv => NothingTruncated
  <2> SUFFICES ASSUME IInv, told = "end"
               PROVE  /\ ending = "end" /\ attention = "none" /\ ~FirstSpoiled(items)
                      /\ delivered = RowsOfSet(items, 1)
    BY DEF NothingTruncated
  <2>1. ending = "end"
    BY DEF IInv, StreamInv, EndingInv, Endings
  <2>2. attention = "none"
    BY DEF IInv, StreamInv, CallerInv, VerdictInv
  <2>3. delivered = first
    BY DEF IInv, StreamInv, OrderInv
  <2>4. ~FirstSpoiled(items) /\ SpoiledInSets(items)
    BY DEF IInv, SpoilInv, StreamInv, CallerInv
  <2>5. first = RowsOfSet(items, 1)
    BY <2>4, FirstRowsIfUnspoiled DEF IInv, TypeOK, first
  <2> QED
    BY <2>1, <2>2, <2>3, <2>4, <2>5
<1> QED
  BY <1>1, Invariance, PTL

\* While the caller stays, the task reads at most the channel's size and one
\* row ahead of it, however long the result set.
THEOREM ReadAheadBounded == Spec => []ReadAhead
<1>1. IInv => ReadAhead
  <2> SUFFICES ASSUME IInv, consumer # "gone"
               PROVE  Len(first) <= Len(delivered) + Buffer + 1
    BY DEF ReadAhead, first
  <2>1. Len(first) <= Len(delivered) + Len(rows) + 1 /\ Len(rows) <= Buffer
    BY DEF IInv, StreamInv, OrderInv
  <2>2. Len(first) \in Nat /\ Len(delivered) \in Nat /\ Len(rows) \in Nat /\ Buffer \in Nat
    BY BufferAssumption DEF IInv, StreamInv, OrderInv, TypeOK
  <2> QED
    BY <2>1, <2>2
<1> QED
  BY <1>1, Invariance, PTL

-----------------------------------------------------------------------------
(* The delivery it implements.                                             *)

LEMMA SpoiledIsBoolean ==
    FirstSpoiled(items) \in BOOLEAN /\ FirstSpoiled(items)' \in BOOLEAN
  BY DEF FirstSpoiled

LEMMA DeliveryInit ==
    Init => D!Init
<1>1. FirstSpoiled(<<>>) = FALSE
  BY DEF FirstSpoiled
<1> QED
  BY <1>1, FirstRowsOfNone DEF Init, D!Init

\* To Delivery an item is a row, or one that is no good, or nothing at all.
LEMMA DeliveryReads ==
    ASSUME IInv, ReadMetadata \/ ReadRow \/ ReadBadRow
    PROVE  [D!Next]_(D!vars)
<1>1. PICK item \in Items : Read(item)
  BY DEF ReadMetadata, ReadRow, ReadBadRow, Items
<1>2. UNCHANGED <<ending, delivered, told>> /\ ending = "none"
  BY <1>1 DEF Read, consumerVars, IInv, StreamInv, ForwardInv
<1>3. FirstSpoiled(items)' <=> FirstSpoiled(items) \/ (item = "bad" /\ opened = 1)
  <2>1. items' = Append(items, item) /\ items \in Seq(Items)
    BY <1>1 DEF Read, IInv, TypeOK
  <2> QED
    BY <2>1, FirstSpoiledGrows DEF opened
<1>4. CASE item = "row" /\ opened = 1 /\ AllConvert(items)
  <2>1. first \in Seq(Nat) /\ Len(items) + 1 \in Nat
    BY DEF IInv, StreamInv, OrderInv, TypeOK
  <2>2. first' = Append(first, Len(items) + 1)
    BY <1>1, <1>4, ReadGrows DEF IInv
  <2>3. first' \in Seq(Nat) /\ Len(first') = Len(first) + 1 /\ Len(first) \in Nat
    BY <2>1, <2>2
  <2>4. \A k \in 1..Len(first) : first[k] = first'[k]
    BY <2>1, <2>2
  <2>5. first = SubSeq(first', 1, Len(first))
    BY <2>1, <2>3, <2>4, SameRows
  <2>6. ~FirstSpoiled(items) /\ FirstSpoiled(items)' = FirstSpoiled(items)
    <3>1. ~FirstSpoiled(items)
      BY <1>4 DEF FirstSpoiled, AllConvert
    <3> QED
      BY <1>3, <1>4, <3>1, SpoiledIsBoolean
  <2> QED
    BY <1>2, <2>3, <2>5, <2>6 DEF first, D!Next, D!SendRow
<1>5. CASE ~(item = "row" /\ opened = 1 /\ AllConvert(items))
  <2>1. first' = first
    BY <1>1, <1>5, ReadGrows DEF IInv
  <2>2. FirstSpoiled(items)' = FirstSpoiled(items) \/ FirstSpoiled(items)' = TRUE
    BY <1>3, SpoiledIsBoolean
  <2> QED
    BY <1>2, <2>1, <2>2 DEF first, D!Next, D!Spoil, D!vars
<1> QED
  BY <1>4, <1>5

LEMMA DeliveryEnding ==
    ASSUME IInv, ReadEnding
    PROVE  D!EndResponse
<1>1. ending = "none"
  BY DEF ReadEnding, IInv, StreamInv, ForwardInv
<1>2. ending' \in Endings /\ UNCHANGED <<items, delivered, told>>
  BY DEF ReadEnding, consumerVars
<1> QED
  BY <1>1, <1>2, SameItems DEF D!EndResponse, first, Endings

\* It sees the caller only: nothing of the channel, the header or the cancel.
LEMMA DeliveryTask ==
    ASSUME SendRow \/ SendLast \/ Cancel \/ Acknowledge \/ CancelFails \/ DropTask \/ Leave
               \/ UNCHANGED vars
    PROVE  UNCHANGED D!vars
<1>1. UNCHANGED <<items, ending, delivered, told>>
  BY DEF SendRow, SendLast, Cancel, Acknowledge, CancelFails, DropTask, Die, Leave,
         vars, serverVars, consumerVars
<1> QED
  BY <1>1 DEF D!vars

\* What the task fails with is what Delivery lets it say.
LEMMA Verdict ==
    ASSUME IInv, consumer # "gone", ending # "none", NEW kind,
           kind \in {"bad", ending}, kind = "bad" <=> failure = "bad"
    PROVE  kind = IF FirstSpoiled(items) THEN "bad" ELSE ending
  BY DEF IInv, SpoilInv

LEMMA DeliveryHeader ==
    ASSUME IInv, TakeHeader
    PROVE  [D!Next]_(D!vars)
<1>1. UNCHANGED <<items, ending, delivered>> /\ told = "nothing" /\ delivered = <<>>
  BY DEF TakeHeader, serverVars, IInv, StreamInv, CallerInv
<1>2. FirstRows(items)' = FirstRows(items)
  BY <1>1
<1>3. CASE header = "columns"
  <2>1. told' = told
    BY <1>3 DEF TakeHeader
  <2> QED
    BY <1>1, <1>2, <2>1 DEF D!vars
<1>4. CASE header = "failed"
  <2>1. told' = failure /\ failure \in {"bad", ending} /\ ending # "none" /\ first = <<>>
    BY <1>4 DEF TakeHeader, IInv, StreamInv, EndingInv, ForwardInv
  <2>2. failure = IF FirstSpoiled(items) THEN "bad" ELSE ending
    BY <2>1, Verdict DEF TakeHeader
  <2>3. D!Conclude
    BY <1>1, <1>2, <2>1, <2>2 DEF D!Conclude, first
  <2> QED
    BY <2>3 DEF D!Next
<1>5. CASE header \notin {"columns", "failed"}
  <2>1. told' = "closed"
    BY <1>5 DEF TakeHeader
  <2>2. D!Conclude
    BY <1>1, <1>2, <2>1 DEF D!Conclude
  <2> QED
    BY <2>2 DEF D!Next
<1> QED
  BY <1>3, <1>4, <1>5

LEMMA DeliveryPoll ==
    ASSUME IInv, PollNext \/ NextClosed
    PROVE  D!Next
<1>1. UNCHANGED <<items, ending>> /\ told = "nothing"
  BY DEF PollNext, NextClosed, serverVars, IInv, StreamInv, CallerInv
<1>2. FirstRows(items)' = FirstRows(items)
  BY <1>1
<1>3. CASE NextClosed
  <2>1. D!Conclude
    BY <1>1, <1>2, <1>3 DEF NextClosed, D!Conclude
  <2> QED
    BY <2>1 DEF D!Next
<1>4. CASE PollNext /\ Head(rows)[1] = "row"
  <2>1. delivered' = Append(delivered, Head(rows)[2]) /\ told' = told
    BY <1>4 DEF PollNext
  <2>2. Len(delivered) + 1 <= Len(first) /\ Head(rows)[2] = first[Len(delivered) + 1]
    BY <1>4, HeadIsNext DEF PollNext, IInv
  <2>3. Len(delivered) < Len(first)
    BY <2>2 DEF IInv, StreamInv, OrderInv, TypeOK
  <2>4. D!Deliver
    BY <1>1, <1>2, <2>1, <2>2, <2>3 DEF D!Deliver, first
  <2> QED
    BY <2>4 DEF D!Next
<1>5. CASE PollNext /\ Head(rows)[1] # "row"
  <2>1. told' = Head(rows)[1] /\ delivered' = delivered
    BY <1>5 DEF PollNext
  <2>2. delivered = first /\ ending # "none" /\ Head(rows)[1] \in {"bad", ending}
    BY <1>5, HeadIsNext DEF PollNext, IInv
  <2>3. Head(rows)[1] = "bad" <=> failure = "bad"
    <3>1. rows \in Seq(Entry) /\ rows # <<>>
      BY <1>5 DEF PollNext, IInv, TypeOK, Entry
    <3>2. 1 \in 1..Len(rows) /\ Head(rows) = rows[1]
      BY <3>1
    <3> QED
      BY <1>5, <3>2 DEF IInv, SpoilInv
  <2>4. told' = IF FirstSpoiled(items) THEN "bad" ELSE ending
    BY <1>5, <2>1, <2>2, <2>3, Verdict DEF PollNext
  <2>5. D!Conclude
    BY <1>1, <1>2, <2>1, <2>2, <2>4 DEF D!Conclude, first
  <2> QED
    BY <2>5 DEF D!Next
<1> QED
  BY <1>3, <1>4, <1>5

LEMMA DeliveryStep ==
    IInv /\ [Next]_vars => [D!Next]_(D!vars)
<1> SUFFICES ASSUME IInv, [Next]_vars
             PROVE  [D!Next]_(D!vars)
  OBVIOUS
<1>1. CASE ReadEnding
  BY <1>1, DeliveryEnding DEF D!Next
<1> QED
  BY <1>1, DeliveryReads, DeliveryTask, DeliveryHeader, DeliveryPoll
     DEF Next, TaskNext, ConsumerNext, Stopped

\* Channel, oneshot, cancel and lost connection included, a stream is a
\* delivery: each row of the first result set once and in order, then how the
\* response ended, told once.
THEOREM DeliveryImplemented == Spec => ImplementsDelivery
<1>1. Init => D!Init
  BY DeliveryInit
<1>2. IInv /\ [Next]_vars => [D!Next]_(D!vars)
  BY DeliveryStep
<1> QED
  BY <1>1, <1>2, Invariance, PTL DEF Spec, ImplementsDelivery, D!Spec

=============================================================================
