----------------------------- MODULE Connection -----------------------------
(***************************************************************************)
(* One connection: the caller that owns the Client, the channel to the     *)
(* connection task, the task, and the server session behind it.            *)
(*                                                                         *)
(* Client and Transaction are used through &mut, so one caller has at most *)
(* one call outstanding; requests still pile up, because a call whose      *)
(* future is dropped leaves its request in the channel.  A request is      *)
(* named by its place in the order of sending, and a handle by the request *)
(* that opened it: the begin of a root Transaction, the savepoint of a     *)
(* nested one.                                                             *)
(*                                                                         *)
(* Query, QueryStream, Execute, Batch, ProcQuery and ProcExecute take the  *)
(* same path through the task and are one kind here, "Statement"; a stream *)
(* counts as awaited until its RowStream is dropped.                       *)
(***************************************************************************)
EXTENDS Naturals, Sequences, FiniteSets

CONSTANTS
    MaxRequests, \* new work is only started while fewer requests were sent
    Levels,      \* the isolation levels transactions are begun at
    UserNames    \* names given to Transaction::savepoint

\* "other" stands for READ UNCOMMITTED, REPEATABLE READ, SERIALIZABLE, SNAPSHOT.
Isolations == {"unspecified", "rc", "other"}

ASSUME MaxRequestsAssumption == MaxRequests \in Nat
ASSUME LevelsAssumption == Levels \subseteq Isolations
ASSUME UserNamesAssumption == UserNames \cap Nat = {}

VARIABLES
    client,       \* whether the Client still exists
    handles,      \* the live Transaction handles, root first
    awaiting,     \* the request the caller waits for, 0 if none
    reply,        \* what is in that request's oneshot
    requests,     \* every request ever sent, in order
    taken,        \* how many of them the task has received
    pc,           \* where the task is with requests[taken]
    txState,      \* the task's `tx`
    levelChanged, \* the task's `level_changed`
    alive,        \* whether the connection works
    result,       \* what the server answered requests[taken]
    trancount,    \* the session's nesting of transactions
    level,        \* the session's isolation level
    work,         \* statements done in the open transaction
    marks,        \* savepoints of the open transaction
    durable,      \* statements whose work is permanent
    acked,        \* history: statements whose caller was told Ok
    kept,         \* history: statements the caller was told are permanent
    discarded,    \* history: statements the caller was told never will be
    orphaned,     \* history: an answered begin was dropped before it was read
    shadowed      \* history: a savepoint took the name of a live handle

callerVars == <<client, handles, awaiting>>
channelVars == <<requests, taken>>
taskVars == <<pc, txState, levelChanged>>
serverVars == <<alive, result, trancount, level, work, marks, durable>>
ledgerVars == <<acked, kept, discarded, orphaned, shadowed>>
vars == <<callerVars, reply, channelVars, taskVars, serverVars, ledgerVars>>

-----------------------------------------------------------------------------
(* Requests.                                                               *)

Kinds == {"Statement", "Begin", "Commit", "Savepoint", "Rollback", "RollbackTo"}

\* `tx` is the begin of the transaction the request was made in, 0 for the
\* bare client; `isolation` is the level of a begin (any of them elsewhere),
\* `name` the name of a savepoint (0 elsewhere).  `undoes` is history: the
\* nested handle that a RollbackTo ends (0 elsewhere).
Request == [kind : Kinds, tx : Nat, isolation : Isolations, name : Nat \cup UserNames,
            undoes : Nat]

Sent == 1..Len(requests)
Statements == {i \in Sent : requests[i].kind = "Statement"}
Current == requests[taken]

\* Mutant of Abandoned: the rollback enqueued by a drop has no reply to wait
\* on, and counts as abandoned too.
AbandonedRollbacks(i) ==
    requests[i].kind \notin {"Commit", "Savepoint"} /\ awaiting # i

\* The caller of request i has stopped waiting, and i is of a kind that is
\* then not started.  Only one reply is waited for at a time.
Abandoned(i) == requests[i].kind \in {"Statement", "Begin"} /\ awaiting # i

-----------------------------------------------------------------------------
(* The caller.  A call on a closed channel comes back ConnectionClosed at  *)
(* once: it changes nothing, so calls that only ask for something are not  *)
(* steps then, and those that consume a handle only consume it.            *)

Idle == client /\ awaiting = 0

Root == IF handles = <<>> THEN 0 ELSE handles[1]
Top == handles[Len(handles)]
NameOf(h) == requests[h].name

Send(kind, isolation, name) ==
    requests' = Append(requests, [kind |-> kind, tx |-> Root,
                                  isolation |-> isolation, name |-> name,
                                  undoes |-> IF kind = "RollbackTo" THEN Top ELSE 0])

\* Client::call: send, then wait.
Call(kind, isolation, name) ==
    /\ Idle
    /\ pc # "ended"
    /\ Send(kind, isolation, name)
    /\ awaiting' = Len(requests) + 1
    /\ UNCHANGED <<client, reply, taken, taskVars, serverVars>>

Start(kind, isolation, name) ==
    Len(requests) < MaxRequests /\ Call(kind, isolation, name)

CallStatement ==
    /\ Start("Statement", "rc", 0)
    /\ UNCHANGED <<handles, ledgerVars>>

CallBegin ==
    /\ handles = <<>>
    /\ \E l \in Levels : Start("Begin", l, 0)
    /\ UNCHANGED <<handles, ledgerVars>>

\* Transaction::transaction makes up a name nothing else has;
\* Transaction::savepoint takes the caller's.
CallSavepoint ==
    /\ handles # <<>>
    /\ \E n \in UserNames \cup {Len(requests) + 1} :
        /\ Start("Savepoint", "rc", n)
        /\ shadowed' = (shadowed \/ \E k \in 2..Len(handles) : NameOf(handles[k]) = n)
    /\ UNCHANGED <<handles, acked, kept, discarded, orphaned>>

\* Everything sent since handle h was opened went through it.
Since(h) == {i \in Statements : i > h}

Pop == handles' = SubSeq(handles, 1, Len(handles) - 1)

CommitRoot ==
    /\ Len(handles) = 1
    /\ Call("Commit", "rc", 0)
    /\ Pop
    /\ UNCHANGED ledgerVars

\* SQL Server has no RELEASE SAVEPOINT, so nothing is sent.
CommitSavepoint ==
    /\ Idle
    /\ Len(handles) > 1
    /\ Pop
    /\ UNCHANGED <<client, awaiting, reply, channelVars, taskVars, serverVars, ledgerVars>>

\* The request that ends the innermost handle without keeping its work.
UndoKind == IF Len(handles) = 1 THEN "Rollback" ELSE "RollbackTo"
UndoName == IF Len(handles) = 1 THEN 0 ELSE NameOf(Top)

Discard ==
    /\ discarded' = discarded \cup Since(Top)
    /\ Pop
    /\ UNCHANGED <<acked, kept, orphaned, shadowed>>

Rollback ==
    /\ handles # <<>>
    /\ Call(UndoKind, "rc", UndoName)
    /\ Discard

\* Transaction::drop, and a commit or rollback whose future is dropped
\* before it is first polled: enqueue the rollback, wait for nothing.
Drop ==
    /\ Idle
    /\ pc # "ended"
    /\ handles # <<>>
    /\ Send(UndoKind, "rc", UndoName)
    /\ Discard
    /\ UNCHANGED <<client, awaiting, reply, taken, taskVars, serverVars>>

\* commit, rollback or drop of a handle on a closed channel.
ConsumeClosed ==
    /\ Idle
    /\ pc = "ended"
    /\ handles # <<>>
    /\ Discard
    /\ UNCHANGED <<client, awaiting, reply, channelVars, taskVars, serverVars>>

\* The future is dropped: the reply's receiver closes, read or not.
GiveUp ==
    /\ awaiting # 0
    /\ awaiting' = 0
    /\ reply' = "none"
    /\ discarded' = IF awaiting > taken THEN discarded \cup ({awaiting} \cap Statements)
                                        ELSE discarded
    /\ orphaned' = (orphaned \/ (requests[awaiting].kind = "Begin" /\ reply = "ok"))
    /\ UNCHANGED <<client, handles, channelVars, taskVars, serverVars, acked, kept, shadowed>>

\* The work a commit keeps, or that turns out to be gone.
Settled(c) == {i \in Since(requests[c].tx) : i < c}

\* The call returns what the oneshot holds.
Return ==
    /\ awaiting # 0
    /\ reply # "none"
    /\ LET r  == requests[awaiting]
           ok == reply = "ok"
       IN  /\ handles' = IF ok /\ r.kind \in {"Begin", "Savepoint"}
                         THEN Append(handles, awaiting) ELSE handles
           /\ acked' = IF ok /\ r.kind = "Statement" THEN acked \cup {awaiting} ELSE acked
           /\ kept' = CASE ok /\ r.kind = "Statement" /\ r.tx = 0 -> kept \cup {awaiting}
                        [] ok /\ r.kind = "Commit" ->
                               kept \cup ((Settled(awaiting) \cap acked) \ discarded)
                        [] OTHER -> kept
           /\ discarded' = IF reply = "aborted" /\ r.kind = "Commit"
                           THEN discarded \cup Settled(awaiting) ELSE discarded
    /\ awaiting' = 0
    /\ reply' = "none"
    /\ UNCHANGED <<client, channelVars, taskVars, serverVars, orphaned, shadowed>>

\* Client::close, or the Client's drop.
Close ==
    /\ Idle
    /\ handles = <<>>
    /\ client' = FALSE
    /\ UNCHANGED <<handles, awaiting, reply, channelVars, taskVars, serverVars, ledgerVars>>

-----------------------------------------------------------------------------
(* The task.                                                               *)

\* reply.send for the request being served: lost if its caller has gone.
Answer(v) == reply' = IF awaiting = taken THEN v ELSE reply

\* Mutant of End: the replies of queued requests outlive the task.
EndKeepsReplies(v) ==
    /\ pc' = "ended"
    /\ alive' = FALSE
    /\ reply' = IF awaiting # 0 /\ reply = "none" /\ awaiting = taken /\ v # "none"
                THEN v ELSE reply
    /\ UNCHANGED <<txState, levelChanged, result, trancount, level, work, marks, durable>>

\* The task returns, last sending v ("none" for nothing).  It drops the
\* driver, which closes the socket, and every reply it still held.
End(v) ==
    /\ pc' = "ended"
    /\ alive' = FALSE
    /\ reply' = IF awaiting = 0 \/ reply # "none" THEN reply
                ELSE IF awaiting = taken /\ v # "none" THEN v
                ELSE "closed"
    /\ UNCHANGED <<txState, levelChanged, result, trancount, level, work, marks, durable>>

\* Mutant of NextRound: nobody looks whether the transaction is still there.
NextRoundUnsettled(tx, n) == pc' = "idle" /\ txState' = tx

\* The end of a round of the loop: has the server, which the driver last
\* heard to be at nesting n, ended the transaction?
NextRound(tx, n) ==
    /\ pc' = "idle"
    /\ txState' = IF tx = "Open" /\ n = 0 THEN "Aborted" ELSE tx

Receive ==
    /\ pc = "idle"
    /\ taken < Len(requests)
    /\ taken' = taken + 1
    /\ UNCHANGED <<callerVars, requests, ledgerVars>>

Skip ==
    /\ Receive
    /\ Abandoned(taken')
    /\ UNCHANGED <<reply, taskVars, serverVars>>

\* Mutant of ReceiveAborted: the level is not put back, there being nothing
\* left to end.
ReceiveAbortedKeepsLevel ==
    /\ txState = "Aborted"
    /\ Receive
    /\ ~Abandoned(taken')
    /\ LET kind == requests[taken'].kind
       IN  /\ txState' = IF kind \in {"Commit", "Rollback"} THEN "None" ELSE txState
           /\ reply' = IF awaiting # taken' THEN reply
                       ELSE IF kind = "Rollback" THEN "ok" ELSE "aborted"
    /\ UNCHANGED <<pc, levelChanged, serverVars>>

\* The server has ended the transaction by itself; its handle does not know.
\* Nothing is sent, except to put the level back once the handle is done.
ReceiveAborted ==
    /\ txState = "Aborted"
    /\ Receive
    /\ ~Abandoned(taken')
    /\ LET kind == requests[taken'].kind
           ends == kind \in {"Commit", "Rollback"}
       IN  /\ txState' = IF ends THEN "None" ELSE txState
           /\ pc' = IF ends /\ levelChanged THEN "restoring" ELSE "idle"
           /\ reply' = IF awaiting # taken' THEN reply
                       ELSE IF kind = "Rollback" THEN "ok" ELSE "aborted"
    /\ UNCHANGED <<levelChanged, serverVars>>

\* Mutants of Dispatch: a request is sent even after the server ended its
\* transaction; the task still believes in one it has just ended.
DispatchAborted ==
    /\ Receive
    /\ ~Abandoned(taken')
    /\ pc' = "sent"
    /\ txState' = IF requests[taken'].kind \in {"Commit", "Rollback"} THEN "None" ELSE txState
    /\ UNCHANGED <<reply, levelChanged, serverVars>>

DispatchKeepsState ==
    /\ txState # "Aborted"
    /\ Receive
    /\ ~Abandoned(taken')
    /\ pc' = "sent"
    /\ UNCHANGED <<reply, txState, levelChanged, serverVars>>

\* Any other request is sent to the server.
Dispatch ==
    /\ txState # "Aborted"
    /\ Receive
    /\ ~Abandoned(taken')
    /\ pc' = "sent"
    /\ txState' = IF requests[taken'].kind \in {"Commit", "Rollback"} THEN "None" ELSE txState
    /\ UNCHANGED <<reply, levelChanged, serverVars>>

\* A statement, a savepoint or a rollback to one has been answered.
Reply ==
    /\ pc = "answered"
    /\ Current.kind \in {"Statement", "Savepoint", "RollbackTo"}
    /\ Answer(result)
    /\ NextRound(txState, trancount)
    /\ UNCHANGED <<callerVars, channelVars, levelChanged, serverVars, ledgerVars>>

\* Mutant of ReplyBegin: what became of the reply is not looked at.
ReplyBeginKept ==
    /\ pc = "answered"
    /\ Current.kind = "Begin"
    /\ Answer(result)
    /\ levelChanged' = (levelChanged \/ (result = "ok" /\ Current.isolation = "other"))
    /\ NextRound(IF result = "ok" /\ awaiting = taken THEN "Open" ELSE txState, trancount)
    /\ UNCHANGED <<callerVars, channelVars, serverVars, ledgerVars>>

\* A begin has been answered.  If it began but nobody waits, it is undone.
ReplyBegin ==
    /\ pc = "answered"
    /\ Current.kind = "Begin"
    /\ Answer(result)
    /\ levelChanged' = (levelChanged \/ (result = "ok" /\ Current.isolation = "other"))
    /\ IF result = "ok" /\ awaiting # taken
       THEN pc' = "undoing" /\ UNCHANGED txState
       ELSE NextRound(IF result = "ok" THEN "Open" ELSE txState, trancount)
    /\ UNCHANGED <<callerVars, channelVars, serverVars, ledgerVars>>

\* A commit or a rollback has been answered.
ReplyEnd ==
    /\ pc = "answered"
    /\ Current.kind \in {"Commit", "Rollback"}
    /\ Answer(result)
    /\ IF levelChanged THEN pc' = "restoring" /\ UNCHANGED txState
                       ELSE NextRound(txState, trancount)
    /\ UNCHANGED <<callerVars, channelVars, levelChanged, serverVars, ledgerVars>>

\* The connection failed before the response was read to its end.
ReplyLost ==
    /\ pc \in {"sent", "answered"}
    /\ ~alive
    /\ End("io")
    /\ UNCHANGED <<callerVars, channelVars, ledgerVars>>

\* The rollback of a begin nobody waits for.
UndoBegin ==
    /\ pc = "undoing"
    /\ alive
    /\ trancount' = 0
    /\ work' = {}
    /\ marks' = {}
    /\ IF levelChanged THEN pc' = "restoring" /\ UNCHANGED txState ELSE NextRound(txState, 0)
    /\ UNCHANGED <<callerVars, reply, channelVars, levelChanged,
                   alive, result, level, durable, ledgerVars>>

\* SET TRANSACTION ISOLATION LEVEL READ COMMITTED.
RestoreIsolation ==
    /\ pc = "restoring"
    /\ alive
    /\ level' = "rc"
    /\ levelChanged' = FALSE
    /\ NextRound(txState, trancount)
    /\ UNCHANGED <<callerVars, reply, channelVars,
                   alive, result, trancount, work, marks, durable, ledgerVars>>

\* Either of those two fails, for whatever reason.
CleanupFails ==
    /\ pc \in {"undoing", "restoring"}
    /\ End("none")
    /\ UNCHANGED <<callerVars, channelVars, ledgerVars>>

\* Mutant of Cancellable: a statement runs to its end, whoever has left.
NeverCancellable == FALSE

\* The caller of the statement in flight has gone, and the cancel it causes
\* is not acknowledged in time.
Cancellable == pc \in {"sent", "answered"} /\ Current.kind = "Statement" /\ awaiting # taken

CancelFails ==
    /\ Cancellable
    /\ End("none")
    /\ UNCHANGED <<callerVars, channelVars, ledgerVars>>

\* The channel is empty and its last sender gone: driver.close().
Shutdown ==
    /\ pc = "idle"
    /\ ~client
    /\ taken = Len(requests)
    /\ End("none")
    /\ UNCHANGED <<callerVars, channelVars, ledgerVars>>

\* The runtime drops the task, wherever it is.
DropTask ==
    /\ pc # "ended"
    /\ End("none")
    /\ UNCHANGED <<callerVars, channelVars, ledgerVars>>

-----------------------------------------------------------------------------
(* The server.  A statement succeeds or fails, and a failing one may end   *)
(* the transaction around it, as may a ROLLBACK in its own text.           *)

Responds(r) == pc' = "answered" /\ result' = r

NoEffect == UNCHANGED <<trancount, level, work, marks, durable>>

Abort ==
    /\ trancount > 0
    /\ trancount' = 0
    /\ work' = {}
    /\ marks' = {}
    /\ UNCHANGED <<level, durable>>

RunStatement ==
    /\ Current.kind = "Statement"
    /\ \/ /\ Responds("ok")
          /\ IF trancount = 0
             THEN durable' = durable \cup {taken} /\ UNCHANGED work
             ELSE work' = work \cup {taken} /\ UNCHANGED durable
          /\ UNCHANGED <<trancount, level, marks>>
       \/ Responds("err") /\ NoEffect
       \/ \E r \in {"ok", "err"} : Responds(r) /\ Abort

\* Mutant of RunBegin: Unspecified is sent as a level of its own.
RunBeginLiteral ==
    /\ Current.kind = "Begin"
    /\ \/ /\ Responds("ok")
          /\ trancount' = trancount + 1
          /\ level' = Current.isolation
          /\ UNCHANGED <<work, marks, durable>>
       \/ Responds("err") /\ NoEffect

RunBegin ==
    /\ Current.kind = "Begin"
    /\ \/ /\ Responds("ok")
          /\ trancount' = trancount + 1
          /\ level' = IF Current.isolation = "unspecified" THEN level ELSE Current.isolation
          /\ UNCHANGED <<work, marks, durable>>
       \/ Responds("err") /\ NoEffect

RunCommit ==
    /\ Current.kind = "Commit"
    /\ \/ /\ trancount > 0
          /\ Responds("ok")
          /\ trancount' = trancount - 1
          /\ IF trancount = 1
             THEN durable' = durable \cup work /\ work' = {} /\ marks' = {}
             ELSE UNCHANGED <<work, marks, durable>>
          /\ UNCHANGED level
       \/ Responds("err") /\ Abort
       \/ trancount = 0 /\ Responds("err") /\ NoEffect

RunRollback ==
    /\ Current.kind = "Rollback"
    /\ IF trancount = 0 THEN Responds("err") /\ NoEffect
                        ELSE Responds("ok") /\ Abort

RunSavepoint ==
    /\ Current.kind = "Savepoint"
    /\ \/ /\ trancount > 0
          /\ Responds("ok")
          /\ marks' = marks \cup {taken}
          /\ UNCHANGED <<trancount, level, work, durable>>
       \/ Responds("err") /\ NoEffect

\* Back to the latest savepoint of that name, which stays.
RunRollbackTo ==
    /\ Current.kind = "RollbackTo"
    /\ LET named == {m \in marks : NameOf(m) = Current.name}
       IN  \/ \E m \in named :
               /\ \A n \in named : n <= m
               /\ Responds("ok")
               /\ work' = {i \in work : i < m}
               /\ marks' = {n \in marks : n <= m}
               /\ UNCHANGED <<trancount, level, durable>>
           \/ named = {} /\ Responds("err") /\ NoEffect
           \/ Responds("err") /\ Abort

Running == pc = "sent" /\ alive /\ UNCHANGED <<callerVars, reply, channelVars,
                                               txState, levelChanged, alive, ledgerVars>>

ServeStatement == Running /\ RunStatement
ServeControl ==
    Running /\ (RunBegin \/ RunCommit \/ RunRollback \/ RunSavepoint \/ RunRollbackTo)

\* A cancel stops the statement before it has done anything; under
\* XACT_ABORT that ends the transaction too.
CancelStops ==
    /\ Running
    /\ Cancellable
    /\ Responds("err")
    /\ NoEffect \/ Abort

\* The socket breaks.  What the session held is void from here on: nothing
\* runs any more, and what the driver last read of it is all it knows.
Lose ==
    /\ alive
    /\ alive' = FALSE
    /\ UNCHANGED <<callerVars, reply, channelVars, taskVars,
                   result, trancount, level, work, marks, durable, ledgerVars>>

\* It breaks under a statement that had already failed, on a row that does
\* not convert.  The statement keeps that failure, which does not say that
\* the connection is gone.
LoseMasked ==
    /\ alive
    /\ pc \in {"sent", "answered"}
    /\ Current.kind = "Statement"
    /\ alive' = FALSE
    /\ Answer("err")
    /\ NextRound(txState, trancount)
    /\ UNCHANGED <<callerVars, channelVars, levelChanged,
                   result, trancount, level, work, marks, durable, ledgerVars>>

-----------------------------------------------------------------------------

Init ==
    /\ client = TRUE
    /\ handles = <<>>
    /\ awaiting = 0
    /\ reply = "none"
    /\ requests = <<>>
    /\ taken = 0
    /\ pc = "idle"
    /\ txState = "None"
    /\ levelChanged = FALSE
    /\ alive = TRUE
    /\ result = "ok"
    /\ trancount = 0
    /\ level = "rc"
    /\ work = {}
    /\ marks = {}
    /\ durable = {}
    /\ acked = {}
    /\ kept = {}
    /\ discarded = {}
    /\ orphaned = FALSE
    /\ shadowed = FALSE

CallerNext ==
    \/ CallStatement \/ CallBegin \/ CallSavepoint
    \/ CommitRoot \/ CommitSavepoint \/ Rollback \/ Drop \/ ConsumeClosed
    \/ GiveUp \/ Return \/ Close

TaskNext ==
    \/ Skip \/ ReceiveAborted \/ Dispatch
    \/ Reply \/ ReplyBegin \/ ReplyEnd \/ ReplyLost
    \/ UndoBegin \/ RestoreIsolation \/ CleanupFails \/ Shutdown

ServerNext == ServeStatement \/ ServeControl \/ CancelStops \/ CancelFails \/ Lose \/ LoseMasked

\* The client is gone and the task has ended: nothing is left to happen.
Stopped == ~client /\ pc = "ended" /\ UNCHANGED vars

Next == CallerNext \/ TaskNext \/ ServerNext \/ DropTask \/ Stopped

Spec == Init /\ [][Next]_vars

\* The task is polled as long as it can run; transaction control is always
\* answered; a cancel is acknowledged or times out.  A statement may run for
\* ever, and the caller owes nothing.
Fairness ==
    /\ WF_vars(TaskNext)
    /\ WF_vars(ServeControl)
    /\ WF_vars(CancelStops \/ CancelFails)

FairSpec == Spec /\ Fairness

-----------------------------------------------------------------------------
(* Properties.                                                             *)

Answers == {"ok", "err", "aborted", "io", "closed"}

TypeOK ==
    /\ client \in BOOLEAN
    /\ handles \in Seq(Sent)
    /\ awaiting \in Sent \cup {0}
    /\ reply \in Answers \cup {"none"}
    /\ requests \in Seq(Request)
    /\ taken \in Sent \cup {0}
    /\ pc \in {"idle", "sent", "answered", "undoing", "restoring", "ended"}
    /\ pc \in {"sent", "answered"} => taken # 0
    /\ txState \in {"None", "Open", "Aborted"}
    /\ levelChanged \in BOOLEAN
    /\ alive \in BOOLEAN
    /\ result \in {"ok", "err"}
    /\ trancount \in Nat
    /\ level \in {"rc", "other"}
    /\ work \subseteq Nat
    /\ marks \subseteq Nat
    /\ durable \subseteq Nat
    /\ acked \subseteq Nat
    /\ kept \subseteq Nat
    /\ discarded \subseteq Nat
    /\ orphaned \in BOOLEAN
    /\ shadowed \in BOOLEAN

\* Work given up on -- rolled back, dropped, lost with an aborted
\* transaction, or never sent because its caller left first -- is never made
\* permanent, whatever is still queued.
DiscardedNeverDurable == ~shadowed => discarded \cap durable = {}

\* Work the caller was told is permanent is: a commit that returned Ok, a
\* statement outside any transaction that did.
KeptIsDurable == ~orphaned => kept \subseteq durable

\* Statements become permanent in two ways only: one made on the bare client
\* as it runs, and those of a transaction when the commit its handle asked
\* for is served.  In particular a transaction never commits by itself, and
\* no statement of one runs outside it after the server has ended it.
CommitsOnlyWhenAsked ==
    [][~orphaned =>
        \A i \in durable' \ durable :
            \/ i = taken /\ requests[i].tx = 0
            \/ Current.kind = "Commit" /\ requests[i].tx = Current.tx]_vars

\* With nothing queued, the task, the session and the handles agree on
\* whether there is a transaction.
Quiet == pc = "idle" /\ taken = Len(requests) /\ awaiting = 0
StatesAgree ==
    Quiet /\ ~orphaned =>
        /\ (handles = <<>>) <=> (txState = "None")
        /\ (txState = "Open") <=> (trancount > 0)
        /\ trancount <= 1

\* A request never runs at a level left over from an earlier transaction,
\* and one made in a transaction runs at the level asked for.
RunsAtItsLevel ==
    pc = "sent" /\ Current.kind = "Statement" /\ ~orphaned =>
        level = IF Current.tx # 0 /\ requests[Current.tx].isolation = "other" THEN "other" ELSE "rc"

\* A caller who has left never keeps the connection busy: the task gets
\* through everything it left behind, or ends.
FreedAfterLeaving ==
    (awaiting = 0) ~> (awaiting # 0 \/ pc = "ended" \/ (pc = "idle" /\ taken = Len(requests)))

\* Transaction control is always answered, whatever is queued before it.
ControlAnswered ==
    (awaiting # 0 /\ requests[awaiting].kind # "Statement") ~> (awaiting = 0 \/ reply # "none")

\* A transaction whose last handle is gone does not stay open.
ReleasedAfterDrop ==
    (handles = <<>> /\ awaiting = 0 /\ ~orphaned)
        ~> (handles # <<>> \/ awaiting # 0 \/ trancount = 0 \/ ~alive)

\* The whole of it is a ledger: all or nothing, in the order asked for, and
\* nothing the caller was told ever turns out false, except after an orphaned
\* begin or a savepoint that shadows another.
L == INSTANCE Ledger WITH open <- work, excused <- orphaned \/ shadowed
ImplementsLedger == L!Spec

-----------------------------------------------------------------------------
(* What the documentation says and the code does not keep; see README.     *)

\* client.rs, Request::abandoned: "A begin nobody waits for is different: no
\* `Transaction` will exist to end it, so it must not start."  So with
\* nothing queued and no handle, no transaction is open.
NoOrphanedTransaction == Quiet /\ handles = <<>> => txState = "None"

\* docs/how-it-works.md on nested transactions: "Rolling it back undoes its
\* own work", whatever its savepoint is called.
RollbackUndoesItsWork == discarded \cap durable = {}

\* transaction.rs, Transaction: once the server has ended the transaction,
\* "`rollback` succeeds, there being nothing left to undo."
RollbackAfterAbortSucceeds ==
    reply = "aborted" => requests[awaiting].kind \notin {"Rollback", "RollbackTo"}

=============================================================================
