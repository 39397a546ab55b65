------------------------ MODULE ConnectionInvariant -------------------------
(***************************************************************************)
(* The inductive invariant behind the theorems about Connection.           *)
(*                                                                         *)
(* Its idea: whether the request the task received last leaves the         *)
(* connection inside a transaction can be read off that request alone --   *)
(* one made in a transaction and not ending it does, a begin somebody was  *)
(* told about does, nothing else does -- and the task, the session and the *)
(* request that comes next all agree with that.                            *)
(***************************************************************************)
EXTENDS Connection

Tx(i) == requests[i].tx
IsBegin(i) == requests[i].kind = "Begin"
Ends(i) == requests[i].kind \in {"Commit", "Rollback"}

\* Begin t was answered Ok and its caller has read that, or still can.
Claimed(t) ==
    \/ awaiting = t /\ reply = "ok"
    \/ handles # <<>> /\ handles[1] = t
    \/ t < Len(requests) /\ Tx(t + 1) = t

\* After request i the connection is inside a transaction.
Inside(i) == (Tx(i) # 0 /\ ~Ends(i)) \/ (IsBegin(i) /\ Claimed(i))

-----------------------------------------------------------------------------
(* What the caller's order of calls ensures.                               *)

RequestShape ==
    \A i \in Sent : /\ Tx(i) < i
                    /\ IsBegin(i) => Tx(i) = 0
                    /\ Ends(i) => Tx(i) # 0

AwaitShape ==
    /\ awaiting \in {0, Len(requests)}
    /\ reply # "none" => awaiting # 0 /\ (awaiting <= taken \/ pc = "ended")
    /\ reply = "ok" => awaiting <= taken
    /\ awaiting # 0 /\ IsBegin(awaiting) => handles = <<>>
    /\ awaiting # 0 /\ requests[awaiting].kind = "Savepoint" => handles # <<>>
    /\ pc \in {"sent", "answered"} /\ awaiting = taken => reply = "none"

\* While a handle lives, everything since its begin was sent in its
\* transaction and nothing has ended it.
HandleShape ==
    handles # <<>> =>
        /\ handles[1] \in 1..taken
        /\ IsBegin(handles[1])
        /\ handles[1] < Len(requests) =>
               /\ Tx(handles[1] + 1) = handles[1]
               /\ Tx(Len(requests)) = handles[1]
               /\ ~Ends(Len(requests))

\* A transaction's requests follow one another up to the one that ends it.
Chain ==
    /\ \A i \in 1..(Len(requests) - 1) :
           /\ Tx(i) # 0 /\ ~Ends(i) => Tx(i + 1) = Tx(i)
           /\ Tx(i + 1) # 0 => \/ Tx(i + 1) = i /\ IsBegin(i)
                               \/ Tx(i + 1) = Tx(i) /\ ~Ends(i)
    /\ LET n == Len(requests)
       IN  n > 0 /\ Tx(n) # 0 /\ ~Ends(n) /\ pc # "ended"
               => handles # <<>> /\ handles[1] = Tx(n)

ClaimShape ==
    \A t \in Sent : IsBegin(t) /\ Claimed(t) =>
        t <= taken /\ (t = taken => pc \in {"idle", "ended"})

-----------------------------------------------------------------------------
(* What the task and the session make of it, unless an answered begin was  *)
(* dropped unread.                                                         *)

TakenShape ==
    pc = "undoing" => taken > 0 /\ IsBegin(taken)

\* The task's state and the session's, by where the task is.
States ==
    /\ pc = "idle" =>
           /\ txState # "None" <=> (taken # 0 /\ Inside(taken))
           /\ trancount = IF txState = "Open" THEN 1 ELSE 0
    /\ pc \in {"sent", "answered"} =>
           txState = IF Inside(taken) THEN "Open" ELSE "None"
    /\ pc = "sent" => trancount = IF Tx(taken) # 0 THEN 1 ELSE 0
    /\ pc = "answered" =>
           /\ trancount \in {0, 1}
           /\ IsBegin(taken) => (trancount = 1 <=> result = "ok")
           /\ ~IsBegin(taken) /\ ~Inside(taken) => trancount = 0
    /\ pc = "undoing" => txState = "None" /\ trancount = 1
    /\ pc = "restoring" => txState = "None" /\ trancount = 0 /\ taken # 0 /\ ~Inside(taken)

\* The open transaction holds work of its own only.
WorkShape ==
    pc # "ended" =>
        /\ trancount = 0 => work = {}
        /\ \A i \in work : i \in 1..taken /\ Tx(i) # 0 /\ Tx(i) = Tx(taken)

CallerInv == RequestShape /\ AwaitShape /\ HandleShape /\ Chain /\ ClaimShape /\ TakenShape
TaskInv == ~orphaned => States /\ WorkShape
AgreeInv == CallerInv /\ TaskInv

-----------------------------------------------------------------------------
(* What the caller holds, and what it has sent to take back.  None of this *)
(* depends on an orphaned begin.                                           *)

IsSavepoint(i) == requests[i].kind = "Savepoint"
IsBackTo(i) == requests[i].kind = "RollbackTo"

\* Request r was sent and has not been served.
Pending(r) == r > taken \/ (r = taken /\ pc = "sent")

\* Request i was answered Ok, and its caller has still to read that.
OkUnread(i) == \/ awaiting = i /\ reply = "ok"
               \/ pc = "answered" /\ taken = i /\ result = "ok"

\* Everything sent between a begin and a request of its transaction is of
\* that transaction, and does not end it.
Stretch ==
    /\ \A j \in Sent : Tx(j) # 0 => \A i \in (Tx(j) + 1)..(j - 1) : Tx(i) = Tx(j) /\ ~Ends(i)
    /\ handles # <<>> =>
           \A i \in (handles[1] + 1)..Len(requests) : Tx(i) = handles[1] /\ ~Ends(i)

HandleOrder ==
    /\ \A k \in 1..Len(handles) : handles[k] <= taken /\ (k > 1 => IsSavepoint(handles[k]))
    /\ \A k \in 1..Len(handles) : \A j \in 1..(k - 1) : handles[j] < handles[k]
    /\ awaiting # 0 => \A k \in 1..Len(handles) : handles[k] < awaiting

ReplyShape == reply \notin {"none", "closed"} => awaiting = taken

\* A RollbackTo ends the savepoint it names, and gives up what came after.
UndoShape ==
    \A r \in Sent : IsBackTo(r) =>
        LET h == requests[r].undoes
        IN  /\ h \in 1..(r - 1) /\ h <= taken
            /\ IsSavepoint(h) /\ NameOf(h) = NameOf(r)
            /\ Tx(h) = Tx(r) /\ Tx(r) # 0
            /\ \A i \in (h + 1)..(r - 1) : i \in Statements => i \in discarded

\* Savepoints are given up from the inside out.
UndoOrder ==
    \A r \in Sent : IsBackTo(r) /\ Pending(r) =>
        /\ \A k \in 1..Len(handles) : handles[k] < requests[r].undoes
        /\ \A s \in (r + 1)..Len(requests) :
               IsBackTo(s) => requests[s].undoes < requests[r].undoes

\* Unless one shadows another, a savepoint's name finds it.
NameShape == ~shadowed =>
    /\ \A k \in 2..Len(handles) : \A s \in (handles[k] + 1)..Len(requests) :
           IsSavepoint(s) => NameOf(s) # NameOf(handles[k])
    /\ \A r \in Sent : IsBackTo(r) =>
           \A s \in (requests[r].undoes + 1)..(r - 1) :
               IsSavepoint(s) => NameOf(s) # NameOf(r)

GivenUpShape ==
    \A i \in discarded : i \in Statements /\ i # awaiting

HeldInv == /\ Stretch /\ HandleOrder /\ ReplyShape /\ UndoShape /\ UndoOrder
           /\ NameShape /\ GivenUpShape

-----------------------------------------------------------------------------
(* What that makes of the work.                                            *)

\* The task never loses sight of a transaction the caller is in.
TxShape ==
    /\ txState = "Aborted" => trancount = 0 /\ pc \in {"idle", "ended"}
    /\ pc \in {"idle", "sent"} /\ txState = "Open" => trancount > 0
    /\ pc # "ended" /\ taken # 0 /\ Inside(taken) => txState # "None"
    /\ trancount = 0 => work = {}
    /\ reply = "aborted" => trancount = 0

\* While its transaction lasts, a savepoint that has a handle, or is about to
\* get one or to be rolled back to, is set.
MarkShape ==
    /\ \A m \in marks : m \in 1..taken /\ IsSavepoint(m)
    /\ pc # "ended" /\ trancount > 0 =>
           /\ \A k \in 2..Len(handles) : handles[k] \in marks
           /\ \A r \in Sent : IsBackTo(r) /\ Pending(r) => requests[r].undoes \in marks
           /\ taken # 0 /\ IsSavepoint(taken) /\ OkUnread(taken) => taken \in marks

\* Work is done once, and nothing of a transaction is permanent before its
\* commit has been served.
DoneShape ==
    /\ \A i \in work \cup durable :
           i \in Statements /\ i <= taken /\ (pc = "sent" => i # taken)
    /\ \A i \in durable : Tx(i) # 0 /\ Tx(i) = Tx(taken) =>
           Ends(taken) /\ pc # "sent" /\ ~(awaiting = taken /\ reply = "aborted")
    /\ acked \subseteq 1..taken

Doing(i) == i \in work \/ (i = taken /\ pc = "sent")

\* Work given up is not done, or what undoes it is on its way.
UndoneShape ==
    \A i \in discarded :
        /\ Tx(i) = 0 => ~Doing(i) /\ i \notin durable
        /\ ~shadowed /\ pc # "ended" /\ Doing(i) =>
               \E r \in Sent : /\ Pending(r) /\ r > i /\ Tx(r) = Tx(i)
                              /\ \/ requests[r].kind = "Rollback"
                                 \/ IsBackTo(r) /\ requests[r].undoes < i

\* What the caller of a statement was told, or is about to be.
Told(i) == i \in acked \/ OkUnread(i)

ToldShape == ~orphaned =>
    \A i \in Statements : Told(i) =>
        /\ i <= taken /\ (pc = "sent" => i # taken)
        /\ Tx(i) = 0 => i \in durable
        /\ Tx(i) # 0 /\ i \notin discarded /\ Tx(i) = Tx(taken) =>
               /\ pc # "ended" /\ trancount > 0 => i \in work
               /\ requests[taken].kind = "Commit" /\ OkUnread(taken) => i \in durable

\* The level follows the request last received, as the transaction does.
LevelOf(t) == IF requests[t].isolation = "other" THEN "other" ELSE "rc"

LevelShape == ~orphaned =>
    /\ pc \in {"sent", "answered"} =>
           IF IsBegin(taken)
           THEN /\ ~levelChanged
                /\ level = IF pc = "answered" /\ result = "ok" THEN LevelOf(taken) ELSE "rc"
           ELSE level = IF Tx(taken) # 0 THEN LevelOf(Tx(taken)) ELSE "rc"
    /\ pc = "idle" =>
           level = IF taken = 0 \/ ~Inside(taken) THEN "rc"
                   ELSE LevelOf(IF IsBegin(taken) THEN taken ELSE Tx(taken))
    /\ pc # "ended" => \/ levelChanged <=> level = "other"
                       \/ pc = "answered" /\ IsBegin(taken)

WorkInv == /\ TxShape /\ MarkShape /\ DoneShape /\ UndoneShape /\ ToldShape /\ LevelShape
           /\ DiscardedNeverDurable /\ KeptIsDurable

IInv == AgreeInv /\ HeldInv /\ WorkInv

=============================================================================
