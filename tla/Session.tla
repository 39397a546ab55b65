------------------------------ MODULE Session -------------------------------
(***************************************************************************)
(* A whole session: connecting, then the connection, used by async code    *)
(* directly or through the blocking client.  The blocking client owns a    *)
(* runtime, which drives the connection task on a thread of its own; it    *)
(* waits out every call on the thread it is called on, which may or may    *)
(* not be allowed to wait (`context`); and when it is dropped its runtime  *)
(* goes first, the task with it.                                           *)
(***************************************************************************)
EXTENDS Connection

CONSTANTS Servers, Localhost

VARIABLES
    config, stage, cfg, redirected, trail, routed, error, \* of Connecting
    blocking, \* whether the client is the blocking one
    context,  \* where it is called from: "plain", "spawn_blocking" or "async"
    runtime   \* the blocking client's runtime

C == INSTANCE Connecting

connectingVars == <<config, stage, cfg, redirected, trail, routed, error>>
sessionVars == <<vars, connectingVars, blocking, context, runtime>>

\* A runtime is current in the last two; only in "async" does it forbid
\* waiting.
Contexts == {"plain", "spawn_blocking", "async"}
InRuntime == context # "plain"

-----------------------------------------------------------------------------
(* Connecting.                                                             *)

Unconnected == UNCHANGED <<vars, blocking, context>>

Configure == C!Configure /\ Unconnected /\ UNCHANGED runtime

\* blocking::Client::connect, where a runtime is current.
Refuse ==
    /\ stage = "configuring"
    /\ blocking
    /\ InRuntime
    /\ C!Fail(C!Plain("BlockingInAsync"))
    /\ UNCHANGED <<config, cfg, redirected, trail, routed>>
    /\ Unconnected
    /\ UNCHANGED runtime

Connect ==
    /\ blocking => ~InRuntime
    /\ C!BeginConnect
    /\ Unconnected
    /\ UNCHANGED runtime

Open == C!Open /\ Unconnected /\ UNCHANGED runtime
Expire == C!Expire /\ Unconnected /\ UNCHANGED runtime

\* Nobody can drop a future that is waited out.
Leave == ~blocking /\ C!Leave /\ Unconnected /\ UNCHANGED runtime

\* Mutant of Spawn: the client has no runtime of its own.
SpawnOnly ==
    /\ C!Spawn
    /\ UNCHANGED runtime
    /\ Unconnected

\* A runtime whose connect fails has no task and just goes.
Spawn ==
    /\ C!Spawn
    /\ runtime' = IF blocking THEN "running" ELSE "none"
    /\ Unconnected

ConnectingNext == Configure \/ Refuse \/ Connect \/ Open \/ Expire \/ Leave \/ Spawn

-----------------------------------------------------------------------------
(* Calling.  block_on panics in async code: the future it was given is     *)
(* dropped before it is polled, so that a call does nothing and a commit   *)
(* or a rollback is a drop of its handle.                                  *)

Connected == stage = "connected" /\ UNCHANGED <<connectingVars, blocking>>
Usable == Connected /\ UNCHANGED <<context, runtime>> /\ (blocking => runtime = "running")

MayWait == blocking => context # "async"

\* Executor::transaction: a root transaction on a Client, a savepoint with a
\* name of its own on a Transaction.
ExecutorTransaction ==
    \/ /\ handles = <<>>
       /\ Start("Begin", "rc", 0)
       /\ UNCHANGED <<handles, ledgerVars>>
    \/ /\ handles # <<>>
       /\ Start("Savepoint", "rc", Len(requests) + 1)
       /\ UNCHANGED <<handles, ledgerVars>>

\* A helper that takes any Executor.
Executor == CallStatement \/ ExecutorTransaction

Calls == CallBegin \/ CallSavepoint \/ Executor \/ CommitRoot \/ CommitSavepoint \/ Rollback

\* Mutant of Abandonable: a blocking call can be left too.
AlwaysAbandonable == TRUE

\* Only the rows of a query that is under way can be left: a RowIter dropped.
Abandonable ==
    /\ awaiting # 0
    /\ blocking => requests[awaiting].kind = "Statement" /\ awaiting <= taken

\* Close is the inner client of blocking::Client::close, whose runtime goes
\* after it; its drop is DropRuntime and DropInner below.
CallerStep ==
    /\ Usable
    /\ \/ MayWait /\ Calls
       \/ Drop \/ ConsumeClosed \/ Return
       \/ Abandonable /\ GiveUp
       \/ Close

\* The client moves to another thread, or its thread into a runtime.
Move ==
    /\ Connected
    /\ blocking
    /\ runtime = "running"
    /\ client
    /\ awaiting = 0
    /\ context' \in Contexts \ {context}
    /\ UNCHANGED <<vars, runtime>>

-----------------------------------------------------------------------------
(* The connection task and the runtime that drives it.                     *)

TaskStep == Connected /\ TaskNext /\ UNCHANGED <<context, runtime>>
ServerStep == Connected /\ ServerNext /\ UNCHANGED <<context, runtime>>
ControlStep == Connected /\ ServeControl /\ UNCHANGED <<context, runtime>>
CancelStep == Connected /\ (CancelStops \/ CancelFails) /\ UNCHANGED <<context, runtime>>

\* OwnedRuntime::drop, as the client is dropped or, after close, its runtime.
\* Where no runtime is current it waits for the task to be dropped.
DropRuntime ==
    /\ Connected
    /\ runtime = "running"
    /\ awaiting = 0
    /\ handles = <<>>
    /\ runtime' = IF InRuntime THEN "background" ELSE "waiting"
    /\ UNCHANGED <<vars, context>>

\* Mutant of ShuttingDown: a drop that waits lets the task run to its end.
ShuttingDownInBackground == runtime = "background"

ShuttingDown == runtime \in {"waiting", "background"}

\* The runtime drops the task: the blocking client's only as it goes itself.
RuntimeDropsTask ==
    /\ Connected
    /\ blocking => ShuttingDown
    /\ DropTask
    /\ UNCHANGED <<context, runtime>>

\* The fields drop in order: the inner client after the runtime.
DropInner ==
    /\ Connected
    /\ \/ runtime = "waiting" /\ pc = "ended" /\ runtime' = "gone"
       \/ runtime = "background" /\ client /\ UNCHANGED runtime
    /\ client' = FALSE
    /\ UNCHANGED <<handles, awaiting, reply, channelVars, taskVars, serverVars, ledgerVars>>
    /\ UNCHANGED context

-----------------------------------------------------------------------------

SessionInit ==
    /\ Init
    /\ C!Init
    /\ blocking \in BOOLEAN
    /\ context \in IF blocking THEN Contexts ELSE {"async"}
    /\ runtime = "none"

SessionOver ==
    /\ \/ stage \in {"failed", "left"}
       \/ ~client /\ pc = "ended" /\ runtime \notin {"running", "waiting"}
    /\ UNCHANGED sessionVars

SessionNext ==
    \/ ConnectingNext
    \/ CallerStep \/ Move
    \/ TaskStep \/ ServerStep
    \/ DropRuntime \/ RuntimeDropsTask \/ DropInner
    \/ SessionOver

\* As in Connecting and Connection.  A blocking client that is being dropped,
\* or was closed, goes on to the end of that, and its runtime drops the task.
SessionSpec ==
    /\ SessionInit
    /\ [][SessionNext]_sessionVars
    /\ WF_sessionVars(Expire)
    /\ WF_sessionVars(Spawn)
    /\ WF_sessionVars(TaskStep)
    /\ WF_sessionVars(ControlStep)
    /\ WF_sessionVars(CancelStep)
    /\ WF_sessionVars(~client /\ DropRuntime)
    /\ WF_sessionVars(blocking /\ RuntimeDropsTask)
    /\ WF_sessionVars(DropInner)

-----------------------------------------------------------------------------
(* Properties.                                                             *)

\* Every variable keeps its type; nothing happens on a connection before there
\* is one, and a blocking client has its runtime from then on.
SessionTypeOK ==
    /\ TypeOK
    /\ C!TypeOK
    /\ blocking \in BOOLEAN
    /\ context \in Contexts
    /\ runtime \in {"none", "running", "waiting", "background", "gone"}
    /\ stage # "connected" => Init
    /\ runtime # "none" <=> blocking /\ stage = "connected"

ConnectsAsConfigured == C!ConnectsAsConfigured
ConnectEnds == C!ConnectEnds

\* What the async client cannot promise (see NoOrphanedTransaction) the
\* blocking one does: with no handle left and nothing queued, no transaction
\* is open, wherever the client was moved and however its calls ended, in a
\* panic perhaps.
BlockingLeavesNothingOpen ==
    blocking /\ Quiet /\ handles = <<>> => txState = "None" /\ trancount = 0

\* A client that is gone, or on its way out, does not stay connected: the task
\* ends, and a drop that waits for it returns.
Leaving == ~client \/ runtime \in {"waiting", "background"}
GoneClientEnds ==
    Leaving ~> (pc = "ended" /\ ~client /\ runtime \notin {"running", "waiting"})

=============================================================================
