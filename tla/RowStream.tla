------------------------------ MODULE RowStream ------------------------------
(***************************************************************************)
(* One streamed query: the server's response, the connection task reading  *)
(* it in stream_query under `cancellable`, the bounded channel of rows,    *)
(* and the caller holding the RowStream.  The response is a sequence of    *)
(* items -- the metadata that opens a result set, a row, a row this crate  *)
(* cannot convert -- and how it ends.  A row is named by its place in it.  *)
(***************************************************************************)
EXTENDS Response

CONSTANTS
    Buffer,  \* STREAM_BUFFER
    MaxItems \* the longest response looked at

ASSUME BufferAssumption == Buffer \in Nat \ {0}
ASSUME MaxItemsAssumption == MaxItems \in Nat

VARIABLES
    items,      \* what the task has read of the response
    ending,     \* how the response ended, "none" until it has
    attention,  \* whether a cancel was sent, and acknowledged
    pc,         \* where the task is
    header,     \* the oneshot for the columns
    forwarding, \* stream_query's locals of these names
    failure,
    rows,       \* the channel of rows
    consumer,   \* where the caller is
    delivered,  \* the rows it was given
    told,       \* what it was told last, "nothing" while it may get more
    dropped     \* history: the runtime dropped the task

serverVars == <<items, ending>>
readerVars == <<header, forwarding, failure>>
consumerVars == <<consumer, delivered, told>>
vars == <<serverVars, attention, pc, readerVars, rows, consumerVars, dropped>>

Failures == {"bad", "server", "io", "protocol"}

-----------------------------------------------------------------------------
(* The task reads the response.                                            *)

Read(item) ==
    /\ pc = "reading"
    /\ Len(items) < MaxItems
    /\ items' = Append(items, item)
    /\ UNCHANGED <<ending, attention, rows, consumerVars, dropped>>

\* Mutant of ReadMetadata: a second result set is not told from the first.
ReadMetadataOnce ==
    /\ Read("meta")
    /\ header' = IF header = "unsent" THEN "columns" ELSE header
    /\ forwarding' = IF header = "unsent" THEN consumer = "waiting" ELSE forwarding
    /\ UNCHANGED <<pc, failure>>

\* The first metadata go to whoever waits for the columns; more of them mean
\* the first result set is over.
ReadMetadata ==
    /\ Read("meta")
    /\ header' = IF header = "unsent" THEN "columns" ELSE header
    /\ forwarding' = (header = "unsent" /\ consumer = "waiting")
    /\ UNCHANGED <<pc, failure>>

ReadRow ==
    /\ header # "unsent"
    /\ Read("row")
    /\ pc' = IF forwarding THEN "sending" ELSE pc
    /\ UNCHANGED readerVars

\* Mutants of ReadBadRow: the rows after it are still forwarded; nobody is
\* told of it.
ReadBadRowForwards ==
    /\ header # "unsent"
    /\ Read("bad")
    /\ failure' = IF forwarding THEN "bad" ELSE failure
    /\ UNCHANGED <<pc, header, forwarding>>

ReadBadRowSwallowed ==
    /\ header # "unsent"
    /\ Read("bad")
    /\ forwarding' = FALSE
    /\ UNCHANGED <<pc, header, failure>>

ReadBadRow ==
    /\ header # "unsent"
    /\ Read("bad")
    /\ IF forwarding THEN failure' = "bad" /\ forwarding' = FALSE
                     ELSE UNCHANGED <<failure, forwarding>>
    /\ UNCHANGED <<pc, header>>

\* Mutant of ReadEnding: the end itself is taken for a failure.
ReadEndingFails ==
    /\ pc = "reading"
    /\ ending' \in Endings
    /\ failure' = IF failure = "none" THEN ending' ELSE failure
    /\ attention' \in {attention} \cup
           (IF attention = "sent" /\ ending' \in {"end", "server"} THEN {"acked"} ELSE {})
    /\ pc' = "last"
    /\ UNCHANGED <<items, header, forwarding, rows, consumerVars, dropped>>

\* The loop is over, at the end of the response or at an error.  Once a
\* cancel was sent, a response read to its end may hold the acknowledgement.
ReadEnding ==
    /\ pc = "reading"
    /\ ending' \in Endings
    /\ failure' = IF failure = "none" /\ ending' # "end" THEN ending' ELSE failure
    /\ attention' \in {attention} \cup
           (IF attention = "sent" /\ ending' \in {"end", "server"} THEN {"acked"} ELSE {})
    /\ pc' = "last"
    /\ UNCHANGED <<items, header, forwarding, rows, consumerVars, dropped>>

\* Mutant of Sendable: an unbounded channel.
AlwaysSendable == TRUE

\* mpsc::Sender::send: waits for room, fails once the receiver is gone.
Sendable == consumer = "gone" \/ Len(rows) < Buffer
Enqueue(kind, n) == rows' = IF consumer = "gone" THEN rows ELSE Append(rows, <<kind, n>>)

\* The row in hand is the item read last.
SendRow ==
    /\ pc = "sending"
    /\ Sendable
    /\ Enqueue("row", Len(items))
    /\ forwarding' = (consumer # "gone")
    /\ pc' = "reading"
    /\ UNCHANGED <<serverVars, attention, header, failure, consumerVars, dropped>>

\* Mutant of AfterLast: nobody waits for the acknowledgement of a cancel.
AfterLastUnacknowledged == pc' = IF failure = "io" THEN "dead" ELSE "done"

\* Without a cancel, an I/O failure ends the task, and no other; with one,
\* its acknowledgement is waited for.
AfterLast ==
    pc' = CASE attention # "none" -> "acking"
            [] failure = "io"     -> "dead"
            [] OTHER              -> "done"

\* Mutant of SendLast: with no result set to end, no End is sent.
SendLastWithoutEnd ==
    /\ pc = "last"
    /\ IF header = "unsent"
       THEN header' = (IF failure = "none" THEN "columns" ELSE "failed") /\ UNCHANGED rows
       ELSE /\ Sendable
            /\ Enqueue(IF failure = "none" THEN "end" ELSE failure, 0)
            /\ UNCHANGED header
    /\ AfterLast
    /\ UNCHANGED <<serverVars, attention, forwarding, failure, consumerVars, dropped>>

\* The failure, or that there was none, goes to the header if that is still
\* unsent, and after the rows otherwise.
SendLast ==
    /\ pc = "last"
    /\ IF header = "unsent" /\ failure # "none"
       THEN header' = "failed" /\ UNCHANGED rows
       ELSE /\ Sendable
            /\ header' = IF header = "unsent" THEN "columns" ELSE header
            /\ Enqueue(IF failure = "none" THEN "end" ELSE failure, 0)
    /\ AfterLast
    /\ UNCHANGED <<serverVars, attention, forwarding, failure, consumerVars, dropped>>

-----------------------------------------------------------------------------
(* Cancelling: `gone` is rows.closed().                                    *)

\* Mutant of Cancel: it is the header's receiver that is watched, which the
\* task no longer has once the columns are sent.
CancelBeforeHeader ==
    /\ consumer = "gone"
    /\ attention = "none"
    /\ pc = "reading"
    /\ header = "unsent"
    /\ attention' = "sent"
    /\ UNCHANGED <<serverVars, pc, readerVars, rows, consumerVars, dropped>>

Cancel ==
    /\ consumer = "gone"
    /\ attention = "none"
    /\ pc \in {"reading", "sending", "last"}
    /\ attention' = "sent"
    /\ UNCHANGED <<serverVars, pc, readerVars, rows, consumerVars, dropped>>

Acknowledge ==
    /\ pc = "acking"
    /\ ending # "io"
    /\ attention' = "acked"
    /\ pc' = "done"
    /\ UNCHANGED <<serverVars, readerVars, rows, consumerVars, dropped>>

\* The task's end drops the senders it still holds.
Die ==
    /\ pc' = "dead"
    /\ header' = IF header = "unsent" THEN "dropped" ELSE header
    /\ UNCHANGED <<serverVars, attention, forwarding, failure, rows, consumerVars>>

\* CANCEL_TIMEOUT has passed, or waiting for the acknowledgement failed.
CancelFails ==
    /\ attention = "sent"
    /\ pc \notin {"done", "dead"}
    /\ Die
    /\ UNCHANGED dropped

\* The runtime drops the task.
DropTask ==
    /\ pc \notin {"done", "dead"}
    /\ Die
    /\ dropped' = TRUE

-----------------------------------------------------------------------------
(* The caller.                                                             *)

\* Mutant of TakeHeader: a reply nobody will send is waited for.
TakeHeaderSent ==
    /\ consumer = "waiting"
    /\ header \in {"columns", "failed"}
    /\ consumer' = IF header = "columns" THEN "streaming" ELSE "over"
    /\ told' = IF header = "columns" THEN told ELSE failure
    /\ UNCHANGED <<serverVars, attention, pc, readerVars, rows, delivered, dropped>>

\* query_stream returns.
TakeHeader ==
    /\ consumer = "waiting"
    /\ header # "unsent"
    /\ consumer' = IF header = "columns" THEN "streaming" ELSE "over"
    /\ told' = CASE header = "columns" -> told
                 [] header = "failed"  -> failure
                 [] OTHER              -> "closed"
    /\ UNCHANGED <<serverVars, attention, pc, readerVars, rows, delivered, dropped>>

\* RowStream::poll_next, with something in the channel ...
PollNext ==
    /\ consumer = "streaming"
    /\ rows # <<>>
    /\ rows' = Tail(rows)
    /\ LET kind == Head(rows)[1]
       IN  IF kind = "row"
           THEN delivered' = Append(delivered, Head(rows)[2]) /\ UNCHANGED <<consumer, told>>
           ELSE told' = kind /\ consumer' = "over" /\ UNCHANGED delivered
    /\ UNCHANGED <<serverVars, attention, pc, readerVars, dropped>>

\* ... and with its sender gone and nothing left in it.
NextClosed ==
    /\ consumer = "streaming"
    /\ rows = <<>>
    /\ pc \in {"done", "dead"}
    /\ told' = "closed"
    /\ consumer' = "over"
    /\ UNCHANGED <<serverVars, attention, pc, readerVars, rows, delivered, dropped>>

\* The future of query_stream, or the RowStream, is dropped.
Leave ==
    /\ consumer \in {"waiting", "streaming"}
    /\ consumer' = "gone"
    /\ rows' = <<>>
    /\ UNCHANGED <<serverVars, attention, pc, readerVars, delivered, told, dropped>>

-----------------------------------------------------------------------------

Init ==
    /\ items = <<>>
    /\ ending = "none"
    /\ attention = "none"
    /\ pc = "reading"
    /\ header = "unsent"
    /\ forwarding = TRUE
    /\ failure = "none"
    /\ rows = <<>>
    /\ consumer = "waiting"
    /\ delivered = <<>>
    /\ told = "nothing"
    /\ dropped = FALSE

TaskNext ==
    \/ ReadMetadata \/ ReadRow \/ ReadBadRow \/ ReadEnding
    \/ SendRow \/ SendLast
    \/ Cancel \/ Acknowledge \/ CancelFails \/ DropTask

ConsumerNext == TakeHeader \/ PollNext \/ NextClosed \/ Leave

Stopped ==
    pc \in {"done", "dead"} /\ consumer \in {"over", "gone"} /\ UNCHANGED vars

Next == TaskNext \/ ConsumerNext \/ Stopped

Spec == Init /\ [][Next]_vars

\* The task runs when it can, whatever the server does; a cancel is
\* acknowledged or times out.  A caller who stays keeps polling.
Fairness ==
    /\ WF_vars(SendRow \/ SendLast)
    /\ WF_vars(Cancel)
    /\ WF_vars(Acknowledge \/ CancelFails)
    /\ WF_vars(TakeHeader \/ PollNext \/ NextClosed)

FairSpec == Spec /\ Fairness

-----------------------------------------------------------------------------
(* Properties.                                                             *)

TypeOK ==
    /\ items \in Seq(Items)
    /\ ending \in Endings \cup {"none"}
    /\ attention \in {"none", "sent", "acked"}
    /\ pc \in {"reading", "sending", "last", "acking", "done", "dead"}
    /\ header \in {"unsent", "columns", "failed", "dropped"}
    /\ forwarding \in BOOLEAN
    /\ failure \in {"none"} \cup Failures
    /\ rows \in Seq(({"row"} \X Nat) \cup (({"end"} \cup Failures) \X {0}))
    /\ consumer \in {"waiting", "streaming", "over", "gone"}
    /\ delivered \in Seq(Nat)
    /\ told \in {"nothing", "end", "closed"} \cup Failures
    /\ dropped \in BOOLEAN

\* The rows come in order, without a gap, and are those `query` would collect.
DeliversInOrder ==
    /\ Len(delivered) <= Len(FirstRows(items))
    /\ delivered = SubSeq(FirstRows(items), 1, Len(delivered))

\* A stream says it is complete only when the whole response was read, was
\* not cut short, and every row of the first result set was handed over, none
\* of them left out because it does not convert.
NothingTruncated ==
    told = "end" => /\ ending = "end" /\ attention = "none"
                    /\ ~FirstSpoiled(items)
                    /\ delivered = RowsOfSet(items, 1)

\* A caller is left with ConnectionClosed, not knowing how the query ended,
\* only if the task was dropped with it.
ClosedMeansDropped == told = "closed" => dropped

\* While the caller stays, no more is read ahead of it than the channel
\* holds and the row in hand, however long the result.
ReadAhead == consumer # "gone" => Len(FirstRows(items)) <= Len(delivered) + Buffer + 1

\* The task goes on to the next request only when nothing of this one can
\* still come over the wire: no acknowledgement, and no response, which was
\* read to its end, or up to the acknowledgement, or lost with the connection
\* (a loss that a row which does not convert hides from the task).  The one
\* exception the code makes is for an error that is neither the server's nor
\* I/O, without a cancel: then it goes on with what the driver left unread.
CleanHandover ==
    pc = "done" => /\ attention # "sent"
                   /\ \/ ending \in {"end", "server"}
                      \/ attention = "acked"
                      \/ ending = "io" /\ failure = "bad"
                      \/ ending = "protocol"

\* A caller who leaves does not keep the connection busy, even if the
\* response never ends.
LeavingFrees == (consumer = "gone") ~> (pc \in {"done", "dead"})

\* A stream whose response is over ends, if it is read.
EndingArrives == (ending # "none") ~> (consumer \in {"over", "gone"})

\* The whole of it, buffer, oneshot and cancelling included, is a delivery of
\* the first result set: no row lost, repeated or out of order, and its
\* ending after its last row, also an error the server reports in a later set.
D == INSTANCE Delivery WITH sent <- FirstRows(items), spoiled <- FirstSpoiled(items)
ImplementsDelivery == D!Spec

-----------------------------------------------------------------------------
(* What the documentation says and the code does not keep; see README.     *)

\* client.rs, stream_query: "Later result sets are read and dropped, but an
\* error in one still fails the stream, just as it fails `query`."
AgreesWithQuery == told = "end" => Failure(items, ending) = "none"

=============================================================================
