# tdsql in TLA+

A verification project for `tdsql`, an asynchronous SQL Server client in Rust.
TLA+ modules model the parts of the crate whose correctness depends on the order
in which things happen, or on conversions that could go wrong silently; TLC checks
them on small instances; TLAPS proves their safety properties, and both refinements, for
every instance.

Paths below are relative to the crate (`src/src/client.rs` is written
`client.rs`).

## The system

A program holds a `Client`. `Client::connect` opens one TDS connection and
spawns one **connection task** that owns the driver. Everything else is messages:
a call builds a `Request` with a oneshot for its reply, puts it in an unbounded
channel, and awaits the oneshot. The task serves one request at a time. A
streamed query also gets a bounded channel of rows. A `Transaction` borrows the
`Client` mutably, a nested one borrows its parent, so there is one caller, and it
has at most one call outstanding. Requests still pile up: dropping the future
of a call drops its receiver and leaves the request in the channel, and dropping
a `Transaction` enqueues a rollback nobody waits for.

| Component | State | Operations | What makes it correct |
|---|---|---|---|
| Connection task (`client.rs` `connection_task`, `serve`, `cancellable`, `restore_isolation`) | `tx: TxState`, `level_changed`, the driver, the channel's receiving end | one arm per request; skip, fail, cancel, undo, restore, end | `tx` follows the session's real state; nothing of a transaction runs outside it; a level does not outlive its transaction; nobody waits for ever |
| Caller side (`client.rs` `Client`, `transaction.rs` `Transaction`) | the sender, the stack of handles (`Scope`, `done`) | query, execute, batch, ..., begin, savepoint, commit, rollback, drop, close | commit keeps exactly the handle's work; rollback and drop keep none of it |
| Row streaming (`client.rs` `stream_query`, `stream.rs`) | header oneshot, bounded channel, `forwarding`, `failure` | read an item, send a row, send the last item, poll | rows in order and none missing, ends told apart, bounded read-ahead |
| Cancellation (`client.rs` `cancellable`) | the driver's cancel handle, a 30 s timer | send a cancel, wait for the acknowledgement | a caller who leaves frees the connection; the next request never sees this one's acknowledgement |
| Result collection (`client.rs` `collect_query_stream`, `run_proc_query`, `run_proc_execute`, `dataset.rs`) | the result sets so far, the one being read, the first failure | `query`, `query_one`, `query_opt`, `query_scalar`, `batch`, `query_dataset`, `execute_command` | the right result set, counts, a failure wins |
| Commands (`command.rs`) | the region of the text, the last character | `rewrite_placeholders` | a placeholder is rewritten where it is one, nowhere else |
| Values (`value.rs`, `client.rs`) | -- | `ToSql`, `From`, `bind`, `build_proc`, `map_column_data`, `to_decimal`, `to_legacy_datetime`, `FromSql` | no value changes silently, every way to the wire agrees |
| Rows (`row.rs`) | -- | lookup by index and by name | first column of that name |
| Connecting (`config.rs`, `client.rs` `Client::connect`, `open`) | the `Config`; the driver's configuration, `redirected` | setters, connection strings, dial, log in, one redirect, a time limit on all of it | the server configured or the one it redirects to, with the login configured; over in time |
| Blocking client (`blocking.rs`) | a runtime with the connection task on its thread | `block_on` of each asynchronous call, drop of the runtime | refused, panics or works depending on where it is called; nothing is left open; it goes away from anywhere |
| Executor (`executor.rs`, `blocking.rs`) | -- | forwards to `Client`; its `transaction` begins or nests | one transaction at a time, whoever calls |
| Errors (`error.rs`) | -- | wrap, name the statement, `is_connection_lost`, `is_deadlock`, `code` | task and caller agree whether the connection is lost |
| SQL Server, `tds_driver` | session | -- | external, see *Assumptions* |

Hard behaviours, all of them in the models where a module below covers the
component: a future dropped at any point, including between the task's sending
a reply and its caller's reading it; requests left behind; the server ending a
transaction by itself; a cancel that crosses a response; a socket that breaks
between or inside requests; a runtime that drops the task; a slow or absent
reader of a bounded channel; a server that accepts a
connection and never finishes the login; a blocking client used or dropped where
waiting panics. `PROJECT.json` lists each hazard at its line with the properties
that would catch it.

## Modules

| Module | What it is |
|---|---|
| `Connection` | caller, channel, connection task and server session of one connection |
| `ConnectionInvariant` | the inductive invariant of `Connection` |
| `Connection_proofs` | theorems about `Connection` |
| `Ledger` | what `Connection` promises of transactions: work is pending, permanent or gone |
| `Connecting` | from a `Config` to a connection |
| `Session` | `Connecting` and `Connection` composed, asynchronous or under the blocking client |
| `Session_proofs` | theorems about `Connecting`; those and the ones about `Connection`, of a session; what the blocking client adds |
| `Response` | what a response says as a whole; constants only |
| `Response_proofs` | lemmas about `Response`: what one more item changes |
| `RowStream` | one streamed query: response, task, bounded channel, caller |
| `RowStream_proofs` | theorems about `RowStream` |
| `Delivery` | what `RowStream` promises its caller: rows in order, then one verdict |
| `Results` | one call that collects a whole response |
| `Results_proofs` | theorems about `Results` |
| `Errors` | an error from the driver to the caller; operators only |
| `Placeholders` | one text with named placeholders, rewritten |
| `Placeholders_proofs` | theorems about `Placeholders` |
| `TypeMapping` | the way of one value from a Rust type to a column and back |
| `TypeMapping_proofs` | theorems about `TypeMapping` |
| `Values` | the two conversions that may give something up: decimals, legacy datetimes |
| `Values_proofs` | theorems about `Values` |
| `MCConnection`, `MCSession`, `MCRowStream`, `MCResults`, `MCPlaceholders`, `MCTypeMapping`, `MCValues` | what TLC checks of them |

`RowStream` and `Results` read the same response and compare what they make of it
with the same definitions in `Response`. `Connection` abstracts one request to its
outcome, and `RowStream` and `Results` open that request up. `Errors` is used by
`Results` and by `Connecting`, the two places where errors are made. `Session` extends
`Connection` and takes `Connecting` as an instance.

Operators whose comment begins "Mutant of" are faulty variants of the operator
that follows them. No specification uses them. `PROJECT.json` pairs each with the
property it must break: a property no fault in the code could break would show
nothing.

### Connection

A request is a record of its kind, the root transaction it was made in, and the
level or the name it carries; it is named by its place in `requests`. The channel
is `requests` after its first `taken` elements. The six kinds of `Request` that
carry SQL (`Query`, `QueryStream`, `Execute`, `Batch`, `ProcQuery`,
`ProcExecute`) take one path through the task and are one kind, `Statement`.

*Caller.* `handles` is the stack of live handles, each named by the request that
opened it. `CallStatement`, `CallBegin`, `CallSavepoint`, `CommitRoot` and
`Rollback` send and wait (`Client::call`); `CommitSavepoint` sends nothing, as in
the code; `Drop` is `Transaction::drop`, which enqueues; `GiveUp` drops a future
at any point; `Return` reads the oneshot. On a closed channel a call returns
`ConnectionClosed` at once: calls that consume a handle are `ConsumeClosed`.

*Task.* `pc` says where it is in its loop: waiting for a request (`idle`), a
request sent to the server (`sent`), its response read (`answered`), undoing a
begin nobody waited for (`undoing`), putting the level back (`restoring`), or
`ended`. The steps between those points touch the task's own variables only, or
are one send on a oneshot. `NextRound` is the end of the loop's body, which looks
whether the server has ended the transaction; every path that reaches it in the
code includes it here. A connection that fails during a response has two outcomes: the
task ends (`ReplyLost`), or, where a value had already failed to convert, that
failure masks the I/O one, the caller is told of it and the task goes on
(`LoseMasked`), to find the connection gone with the next request.

*Server.* `trancount`, `level`, `work` (statements in the open transaction),
`marks` (its savepoints) and `durable`. A statement succeeds, fails, or fails or
succeeds while ending the transaction.

*History variables.* `acked`, `kept` and `discarded` record what the caller was
told: which statements returned Ok, which are permanent according to the calls
that returned, which are not according to the calls made. A request's `undoes` is the
handle a `RollbackTo` was made by, which the code does not send. `orphaned` and
`shadowed` record that one of two behaviours listed under *Findings* has occurred;
properties that those break are stated for executions without them, and the two
runs that show them carry no such condition.

*What it implements.* `Ledger` has one pending transaction's work, which grows
by a statement, becomes permanent all at once, shrinks to a savepoint, or goes;
work on the bare client is permanent at once. `ImplementsLedger` maps the session's
`work` to its `open` work and `durable`, `kept` and `discarded` to
themselves. Which transaction a statement belongs to, the queue, the
task and the server's state are `Connection`'s own. The two behaviours under
*Findings* that break the promise (`orphaned`, `shadowed`) are mapped to `excused`.

### Connecting

`config` is the `Config`: what it was made from, and of what the setters change the
host, the rest of the login, and the time limit. `BeginConnect` is the start of
`Client::connect`, `Dial`, `LogIn` and `Redirect` are one round of `open`'s loop with its
local `redirected`, `Expire` is the `timeout` around `open`, `Leave` a dropped future,
`Spawn` what `connect` does with the connection. `trail` and `routed` are history: the
servers dialed with the login each was sent, and the servers redirected to. Dialing and
logging in fail with any error of the driver's, the operating system's `TimedOut` among them:
an `Error::Connect` over time need not come from the limit, and nothing is claimed of it.

### Session

`stage` of `Connecting` gates `Connection`: nothing of it moves before the task is
spawned. `blocking` says which client it is. For the blocking one, `context` is
where its thread is: outside any runtime, in a `spawn_blocking` closure (a runtime
is current, waiting is allowed) or in async code (waiting panics). `Refuse` is the check
at connect; `Move` takes the connected client elsewhere. In async code `block_on`
panics before its future is polled, so that a call does nothing and a
commit or a rollback drops its handle: `CallerStep` leaves only the drops there.
A call that is waited for cannot be given up; a `RowIter` can. `DropRuntime` is
`OwnedRuntime::drop`, `RuntimeDropsTask` what the runtime then does to the task, `DropInner`
the drop of the inner client after it, in the order of the fields. `Executor` is a
helper that takes any executor: its `transaction` begins on a `Client` and nests on a
`Transaction`.

### RowStream

The response is a sequence of items, made up as the task reads it: metadata, a row,
a row that does not convert. `ReadMetadata`, `ReadRow`, `ReadBadRow`,
`ReadEnding` are the arms of `stream_query`'s loop, `SendRow` the `rows.send` that
may have to wait, `SendLast` what follows the loop. `Cancel`, `Acknowledge` and
`CancelFails` are `cancellable`, which runs around it. `TakeHeader` is
`Client::query_stream`, `PollNext` and `NextClosed` are `RowStream::poll_next`,
`Leave` drops the future or the stream.

A response ends (`Endings`) with its end, a server error, an I/O failure, or any other error
of the driver's (`"protocol"`: decoding, encoding), at which the code breaks off as at the
others but does not end the task. `FirstRows`, `FirstSpoiled` and `Failure` of `Response` say
what `Client::query` returns for the same response, and are what the stream is
compared with: the good rows of the first result set, whether one of them was not
converted, and what fails the call. `NothingTruncated` wants all three of a stream that says
`End`. `Delivery` is the promise: the rows sent, whether one spoiled the rest, those
delivered, and one verdict: `end` only after all rows and if none was spoiled, the failure of
the spoiled one if there was one, else what the response ended in.
`ImplementsDelivery` maps the rows sent to `FirstRows(items)` and the spoiling to
`FirstSpoiled(items)`.

`CleanHandover` says in what state the next request finds the wire. The code leaves two
exceptions, which it names: an I/O failure behind a row that was not converted, whose
connection is gone though the task goes on; and a `"protocol"` error with no cancel, after
which the task goes on with whatever the driver left unread. `connection_lost`'s
`NotConnected` is one more I/O failure here, so that `"closed"` is only ever the channel's
end; `Results` and `Errors` tell it from the others.

### Results

The loop of `collect_query_stream`, which `run_proc_query` repeats: its actions are
the loop's arms, its variables the loop's locals, a row is named by its place in the
response. `QueryDataset`, `Query`, `QueryOne`, `QueryOpt`, `QueryScalar`, `Batch` and
`ExecuteProc` are what the calls return once the response is over; `ExecuteProc`
reads `total`, which `run_proc_execute` adds up. A row comes after metadata, so the
loop's provision for one that does not is not reached. `source` is the driver's error
the response ended in and `noticed` whether the driver knew before the request
that its socket was gone; `Told` takes that error through `From`, `with_statement` and
`connection_lost` to the caller (`Errors`).

### Placeholders

`rewrite_placeholders` as a state machine over its locals: one action per arm of its
loop, each copying what the code copies. The text is a sequence of characters, of
which those are told apart that the code tells apart. The three quoted regions
differ in their delimiter only and are told apart by what closes them. `Rewritten`
defines the result without the machine: it splits the text into the tokens of
T-SQL -- a quoted region up to a closing character that is not doubled, a line
comment, a nested block comment, a word -- and replaces the words that are `@` and a
name. The two must agree on every text. `"quote"` is the double quote, and the places of
a comment's end and of the rest of a text, `CommentEnd` and `RewrittenFrom`, are recursive
functions, which the proofs can speak about.

### TypeMapping

A behaviour takes one value the whole way: `ToValue` (`ToSql::to_value`, or `From` for
a parameter of a command), `Bind` (`bind`, or `build_proc` with `into_sql`), `Store` and
`Send` (the server), `MapColumn` (`map_column_data`), `Get` (`Row::try_get` with
`FromSql`). It may also start as a `DataValue` without a Rust type, or in a column
somebody else has written. The tables (`Variant`, `NullType`, `Tag`, `NullTypes`,
`ReadVariant`, `Readable`) are the code's own; the reference is the table of
`docs/types.md`. Floats, decimals and times are numbers of small steps, of which an `f32`, a
real, money or datetime column and a parameter sent as `datetime` (`ToLegacyDatetime`) keep
every third and a smalldatetime column every sixth, each rounding to the nearest of its own.
So `ComesBackAsBound` sees what is lost and by how much: nothing if every place on the way has
the value, half a step of the coarsest at most, and less than a whole step for a legacy
parameter in a smalldatetime column, which is rounded twice. Each integer type is an interval, a part of the next wider one, with the
wrapping of Rust's `as` (`IntsAssumption`): two to five bits for TLC, any for the proofs.

### Values

`to_decimal`'s loop, one action per way through it, and `to_legacy_datetime`. Both
are over numbers, with the size of a `Decimal` and of a day as constants, so the
proofs are about the real ones.

## Runs

| Run | Question | Bounds |
|---|---|---|
| `connection` | Do transactions keep and lose exactly the work their handles were told, whatever is dropped, queued, lost or ended by the server? Is the invariant of the proofs one? Does the connection implement the ledger? | 4 requests of new work (the ends of transactions and their enqueued rollbacks come on top), begun at no level or another than the connection's, one name |
| `session` | From a `Config` to the end of its client: is the right server connected to, or given up on in time? Does a caller who leaves free the connection, is control answered, is a dropped transaction ended? Does the blocking client leave nothing open, and does a client that goes take its task with it? | 3 requests, two levels, no names of savepoints; three servers, each of which may redirect to any |
| `connection_orphan`, `connection_shadow`, `connection_aborted` | see *Findings* | 2 to 4 requests |
| `row_stream` | Does a stream deliver the rows of the first result set, know a complete result from a cut one, implement the delivery, leave the wire clean, end, and free the connection when its caller leaves? | responses of 6 items, a channel of 2 |
| `row_stream_later_sets` | see *Findings* | 4 items |
| `results` | Does a call return exactly the response's result sets, or what went wrong first, and say truly whether the connection is lost? | 7 items |
| `results_batch` | see *Findings* | 4 items |
| `placeholders` | Is a text rewritten as its tokens say? | every text of up to 4 characters, and of up to 8 or 6 of the characters that comments, quoted regions, words and written `@P1`s are made of; names one of which is bound twice and one of which is `P1` |
| `type_mapping` | Does a value come back as what it was bound as, or as near it as the coarsest place on its way allows, and does a NULL go into its columns? | every Rust type, every `SqlType`, every pair of column and type read, integers of 2 to 5 bits, two steps of the coarsest grid |
| `values` | Is a numeric read exactly or rightly refused, a time bound as the nearest tick? | mantissas to 1200 at scales to 4 with a `Decimal` of 79 at scale 2; every millisecond of a day of two seconds and its leap second |

Why the bounds are enough. Four requests of new work allow a begin, a
savepoint, a statement and another statement, with each of those given up in the
queue and their rollbacks queued behind them; two transactions in a row with a
statement each, the second at another level than the first (`session` begins some at
`ReadCommitted`, which is the connection's own); a nested savepoint of
the same name with work before and after it. The task keeps one request's
state besides `tx` and `level_changed`, so a further request adds a longer queue
and no new relation between two requests. `MaxRequests` guards only calls that
start new work, so no execution is stopped in the middle of a transaction.
Six items allow two result sets with a bad row in either, more rows than a channel
of 2 and the row in hand hold, and all the ways to end; seven allow three result
sets. Eight characters allow a comment nested in a comment, closed and followed by
a placeholder; six a doubled closing bracket with a name before and after it. Each
integer type holds values the one before does not, which is all that widening and
wrapping depend on. Two steps of the coarsest grid hold a number at every distance from the
finer and the coarser one, the midpoints of the latter included.

## Fairness

`Connection`: the task is polled while it can run (`WF(TaskNext)`), which is what
a runtime does with a spawned task; the server answers begin, commit, rollback and
savepoint (`WF(ServeControl)`); a cancel is acknowledged or times out after
`CANCEL_TIMEOUT` (`WF(CancelStops \/ CancelFails)`). A statement may run for
ever, the socket need not break, and the caller need not do anything.
Liveness of control does not assume that statements queued before it return: their
callers have left, so they are skipped or cancelled.

`Session` assumes the same of a connected session, and of connecting that the timer
fires (`WF(Expire)`) and that a connection opened is handed over (`WF(Spawn)`): not that a
server answers. A blocking client that was closed or is being dropped goes on to the
end of that (`WF(~client /\ DropRuntime)`, `WF(DropInner)`), which is code that runs on its
thread, and a blocking client's runtime that goes drops its task
(`WF(blocking /\ RuntimeDropsTask)`), which is what tokio promises; the asynchronous client's
runtime is the program's and need not. No program has to drop its client.

`RowStream`: the task's own steps and the cancel are weakly fair, reading is not
(the server may stall, or send rows for ever), and for `EndingArrives` a caller who
has not left keeps polling.

## What is proved

Each theorem holds for every value of the constants that satisfies the named
assumptions of its module. The argument is the same throughout: an invariant that
is inductive and implies the property; that it holds initially; that each action
keeps each part of it. The invariants were checked by TLC before they were proved; the one
of `Connection` is a property of a run.

### Connection

`Connection_proofs`, for every bound, every set of levels and every set of
savepoint names. The lemmas are about `AnyNext`, which has the steps of `Next`, a begin
at any level there is, and the client going at any time, so that they serve `Session` too.

- `TypeCorrect`: `Spec => []TypeOK`.
- `AgreeInvariance`: `Spec => []AgreeInv`, and from it
  - `StatesAgreeHolds`: with nothing queued or awaited the handles, the task's `tx`
    and the session agree, and no transaction is nested;
  - `CommitsOnlyWhenAskedHolds`: a statement becomes permanent as it runs on the bare
    client, or by the commit of its own transaction, and in no other step.
- `Invariance`: `Spec => []IInv`, where `IInv == AgreeInv /\ HeldInv /\ WorkInv`, and from it
  - `DiscardedNeverDurableHolds`: work given up never becomes permanent;
  - `KeptIsDurableHolds`: work the caller was told is permanent is;
  - `RunsAtItsLevelHolds`: a statement runs at its transaction's isolation level;
  - `LedgerImplemented`: `Spec => ImplementsLedger`; every step is one of `Ledger` or a
    stutter (`LedgerStep`).
- `RootRollbackSucceedsHolds`: the rollback of a root handle is never refused with
  `TransactionAborted`, whatever the server did to its transaction. Of the two rollbacks
  only that of a nested handle is refused, as `connection_aborted` shows.

None of these properties is inductive: each says nothing of what is still queued.

*`AgreeInv`* says what is true in between of the states. Whether the request last
received leaves the connection inside a transaction can be read off that request alone
(`Inside`): one made in a transaction and not ending it does, a begin whose caller was
told of it does. `States` says that the task's `tx` and the session's `trancount` are
what `Inside` says they should be, at each value of `pc`; `WorkShape` that the open
transaction holds statements of one transaction only; and `CallerInv` what the
caller's order of calls ensures about the queue: requests of one transaction follow
one another up to the one that ends it (`Chain`), so the next request received
starts where the last one left off. `CallerInv` holds without conditions;
`TaskInv` as long as no answered begin was dropped unread. The lemmas `Claimed...` and
`Inside...` carry a fact about the old queue over to the new one.

*`HeldInv`* says what the handles and the queue have to do with one another. Everything
sent between a begin and a request of its transaction is of that transaction
(`Stretch`); handles are older than what they send (`HandleOrder`); a `RollbackTo`
gives up every statement since the savepoint it names (`UndoShape`); those still queued
are in the order of the stack, the innermost first (`UndoOrder`); and unless one
savepoint shadows another, a name finds the savepoint it was given to (`NameShape`).

*`WorkInv`* says what that makes of the work. The task never loses sight of a
transaction its caller is in (`TxShape`); a savepoint that has a handle, or is still to be
rolled back to, is set (`MarkShape`); nothing of a transaction is permanent before its commit
(`DoneShape`). Then the two that carry the theorems: work that was given up and is still
pending has a request on its way that will take it back (`UndoneShape`), and
a statement whose caller was told Ok and which was not given up is pending, or permanent
if its commit was answered (`ToldShape`). Each needs the other's neighbourhood:
`UndoneShape` survives a commit because requests of one transaction are served in order
and the undo comes before it, which is `Stretch`; it survives a `RollbackTo` because the
savepoint found is the one meant and is there, `NameShape` and `MarkShape`. `LevelShape` is
`States` for the isolation level.

`orphaned` and `shadowed`, the two behaviours of *Findings*, are excused exactly where they
break a part, not throughout: `HeldInv`, `TxShape`, `MarkShape` and `DoneShape` hold with an
orphaned begin too, so `DiscardedNeverDurable` does.

### RowStream

`RowStream_proofs`, for a channel of any positive size and responses of any length:

- `StreamTyped`: `Spec => []TypeOK`.
- `HandoverIsClean`: `CleanHandover`, with the two exceptions it names. `WireInv` says for
  each value of `pc` how far the response has been read, and that `acking` is the only way
  from a sent cancel to `done`; `EndingInv` that only a failed conversion hides an I/O failure
  from the task.
- `ClosedOnlyIfDropped`: `ClosedMeansDropped`. `VerdictInv` relates what is
  in the channel to whether the last item has been sent, so that a caller that
  drains a closed channel has found it unless the task was dropped.
- `InOrderDelivery`, `EndMeansComplete`, `ReadAheadBounded`: `DeliversInOrder`,
  `NothingTruncated` and `ReadAhead`, from `Invariance` of `IInv`. The part that says
  it is `OrderInv`: the rows delivered followed by those in the channel are `FirstRows` of the
  items read, but for the row in the task's hand, and an entry that is no row comes after
  all of them. `ForwardInv` says that the task forwards rows exactly while `FirstRows`
  still grows, `EndingInv` how the end the task knows of becomes the caller's, `SpoilInv` that
  a row of the first result set that was not converted is the failure kept, unless its
  caller had left, so that no stream ends as complete behind it.
- `DeliveryImplemented`: `Spec => ImplementsDelivery`. Reading a row of the first result set is
  `Delivery` being given a row, or the one that spoils the rest, a poll delivers one or the
  verdict, everything else stutters.

`Response_proofs` has the lemmas under this: what one more item does to `SetsOpened`,
`RowsOfSet`, `ResultSets`, `FirstRows`, `FirstSpoiled` and `Failure`. A sequence of rows is defined by the
numbers of the items it selects, in ascending order (`InOrder`), not by recursion, so
that "one more row appends it" follows from facts about cardinality.

### Results

`Results_proofs`, for responses of any length: `ResultsTyped`, `WholeResponse`
(`DatasetIsResponse`), `QueryIsStream` (`QueryIsFirstSet`), `SingleRow`
(`SingleRowIsCertain`) and `FailureTold` (`FailureIsTold`), from `Invariance` of
`TypeOK /\ LoopInv`. `SetsInv` is the loop's invariant: each result set opened is complete in
`dataset` or is the one being read, with the rows the response has for it so far.
`CauseInv` says that `failure` is the first thing that went wrong, and where it came from.

### Connecting

`Session_proofs`, for any set of servers that has the one a new builder names, of
`Connecting` as `Session` has it:

- `ConnectingTyped`: `Spec => []TypeOK`.
- `ConnectsAsConfiguredHolds`: `Spec => []ConnectsAsConfigured`. The invariant adds what
  `open`'s locals say (`OpenProgress`): while it runs, the servers dialed are one more than the
  redirects followed, or as many if the last redirect is still to be dialed, and the
  driver's configuration names the server configured or the one redirected to. A redirect is
  the failure only of the second login, since the first is followed.

### Session

`Session_proofs`, of a whole session under either client:

- `SessionConnectsAsConfigured`: `SessionSpec => []ConnectsAsConfigured`, for any set of servers
  that has the one a new builder names. A step of a session is a step of `Connecting`,
  leaves it alone, or is the blocking client's refusal, which keeps the same invariant.
- `SessionSteps`: every step of a session is, of the connection, one of `AnyNext` or a
  stutter. A step of a session is a step of `Connection`, leaves it alone, or is one of
  two of the session's own. `DropInner` is the client going. `ExecutorTransaction` is
  a begin or a `CallSavepoint`, the latter because the name it makes up is the number of its
  request, which no handle has: `MadeUpNames` says that a name that is a number is
  never greater than that of its request, which needs user names not to be numbers
  (`UserNamesAssumption`).
- `SessionInvariance`: `SessionSpec => []IInv`, by the lemmas of `Connection_proofs`, and from
  it `SessionDiscardedNeverDurable`, `SessionKeptIsDurable`, `SessionRunsAtItsLevel`,
  `SessionCommitsOnlyWhenAsked` and `SessionLedger`: what a connection promises it promises
  under either client, and a whole session refines `Ledger`.
- `SessionTyped`: `SessionSpec => []SessionTypeOK`, with the same assumption. Nothing of
  `Connection` moves before the task is spawned, and there is a runtime if and only if a
  blocking client is connected (`RuntimeInv`).
- `BlockingLeavesNothingOpenHolds`: a blocking client waits out every begin, so none
  is orphaned (`NeverOrphaned`), and `AgreeInv` then leaves no transaction open once nothing
  is queued and no handle is left.
- `BlockingKeepsWhatItSaid`: `SessionSpec => [](blocking => kept \subseteq durable)`, which is
  `KeptIsDurable` without its exception.
- `UnnamedRollbackUndoesItsWork`: if `UserNames` is empty, `SessionSpec =>
  []RollbackUndoesItsWork`. Names that the library makes up are never those of a live
  handle (`NameUnused`), so the documented claim that `connection_shadow` refutes holds
  of a program that never calls `Transaction::savepoint`.

### Placeholders

`Placeholders_proofs`, for every text and every list of names:

- `PlaceholdersTyped`: `Spec => []TypeOK`.
- `PlaceholdersRewriting` and, from it, `PlaceholdersRewritten`:
  `Spec => []RewritesPlaceholders`. The loop and the definition by tokens agree on every text.

The definition is recursive, and the library's induction theorems cannot be used. Two
arguments stand in for them. That a recursive function has a value at all is shown once
(`Downwards`): if the value at a place depends on later places only, there is a
function with all those values, for otherwise there would be a last place up to which there is
none. What holds of `CommentEnd` and `RewrittenFrom` at every place is shown by looking at the
last place where it does not (`LeastOf`).

The invariant, `RewriteInv`, is about the token that the loop is in. There is a place `s` where a
token starts such that the text before `s` has been rewritten as it has to be
(`w \o RewrittenFrom[s] = Rewritten`), the text from `s` to `i` has been copied as it is, and the
loop's locals say what they should of the token at `s` (`Scanned`): it is a word that has not
ended and is no placeholder; or a quoted region in which an even number of closing
characters has been seen and none that closes it (`InQuoted`); or a line comment; or a block
comment that ends where a comment ends that is `depth` deep at `i` (`InBlockComment`). A step
copies more of the token, or ends it just where `TokenEnd` says it ends: the pairs that the
loop skips are the ones that make the count of closing characters even. `RewriteInv` also
says why `prev` is enough to tell a word that starts with `@` from one that holds it. At the
end of the text every region has its end by definition, and `RewrittenFrom` is empty.

### TypeMapping

`TypeMapping_proofs`, for integers of every width, so for the 8 to 64 bits of the code:
`TypesCorrect`, `ReadsAsDocumentedHolds`, `ComesBackAsBoundHolds` and `NullsGoInHolds`, from
`Invariance` of `TypeOK /\ WayInv`. `WayInv` says at each place what the places before have
made of the value: what it was bound as (`BindInv`), what its column holds (`StoreInv`), what
that is read as (`ReadInv`). Under it are lemmas about each table of the code (`Tag`,
`NullTypes`, `ReadVariant`, `Readable`) and that two of them agree, and `CastKeepsInteger`: a
cast to a type that holds the number keeps it, which is why widening on the way to a
column and back loses nothing, and `RoundedTwice`: how far the roundings of a legacy
parameter, a column and an `f32` in turn can take a number. It needs integer types to be intervals, and that is all
`IntsAssumption` says besides their inclusion in one another.

### Values

`Values_proofs`, for every size of a `Decimal`, of a tick and of a day:

- `ValuesTyped`: `Spec => []TypeOK`. The tick of a datetime is one of its day, for
  every time `chrono` holds: `LeapAssumption` is what it says of a leap second.
- `DecimalExact`: `Spec => []DecimalIsExact`. The invariant is that the value tried next
  times the factor divided out is the number sent.
- `RefusedRightly`: `Spec => []RefusedHasNoDecimal`. The invariant is that every power of ten
  that has been divided out was tried and did not fit, and that what is left is the number
  sent divided by the last of them; a number with no trailing zero left is divisible by no
  higher power (`NoMoreZeros`). `PowerOfTen` is recursive: that it has values, and that a higher
  power is a multiple of a lower one, is shown by a least counterexample (`LeastOf`).
- `LegacyIsNearest`: `Spec => []BoundIsNearest`, from the bounds of the quotient.

## What is only model-checked

All safety and action properties that the runs find to hold, and both refinements, are
proved. The liveness properties stay with TLC, for the prover does not handle fairness:

- `FreedAfterLeaving`, `ControlAnswered`, `ReleasedAfterDrop`, `ConnectEnds` and
  `GoneClientEnds` of a session;
- `LeavingFrees` and `EndingArrives` of a stream.

## Assumptions about the code outside the repository

- `tds_driver` reports a server error at the end of the response, after its rows. Any other
  of its errors may come before the end; after one that is not an I/O failure the task goes on
  (`client.rs:969-972`, `575-582`), and `Connection`, in which every request starts with a
  clean wire, assumes that the driver then has nothing left over or reads it off first.
- A row is preceded by metadata; the transaction state the driver reports is that of
  the last response read.
- A `COMMIT` the server refuses leaves no transaction open; a `ROLLBACK` to an
  existing savepoint is refused only if the transaction ends; `ROLLBACK TRANSACTION
  name` goes to the latest savepoint of that name; a begin inside a transaction
  nests.
- The SQL a program passes contains neither `BEGIN`/`COMMIT TRANSACTION` nor `SET
  TRANSACTION ISOLATION LEVEL`. A `ROLLBACK` in it is modelled.
- SQL Server converts parameters as `docs/types.md` and the integration tests say: a NULL goes into the columns of its group of types, a string
  into all but the binary ones.
- A float, a decimal or a time goes to the server and back unchanged but for the steps of its
  column. The driver's own conversion of a time to and from the wire, in steps of 100 ns, is
  not looked at, and a tick of 1/300 s counts as a whole number of steps.
- `Decimal::try_from_i128_with_scale` accepts 96 bits at a scale of at most 28.
- A session whose socket is gone commits nothing any more. A statement that was in
  flight then either took effect before the break or not at all. So did one that was
  cancelled, or that the server aborted: a batch of which a part took effect is not modelled.
- No program names a savepoint `_tdsql_sp` and a number, which the library makes up
  (`transaction.rs:160`) and `savepoint` does not refuse (`transaction.rs:259-265`):
  `UserNamesAssumption`.

## Findings

Each of the first five has a run that shows it.

1. **A begin answered in time but dropped before its caller reads the answer stays
   open** (`connection_orphan`; `client.rs:775`). The code undoes a begin whose
   reply cannot be sent. A reply that was sent can still be dropped unread: the
   future of `transaction()` is dropped between the task's `reply.send` and the next
   poll. The task then believes in a transaction no handle can end; what the bare
   client does next runs inside it and is lost with the connection, and a new
   transaction nests in it.
2. **A nested transaction may take the name of a live outer one**
   (`connection_shadow`; `transaction.rs:169`). Rolling the outer one back then goes
   to the inner savepoint, and its earlier work survives.
3. **Rolling back a nested transaction after the server ended the transaction fails**
   (`connection_aborted`; `client.rs:664`) with `TransactionAborted`, where the
   documentation says that `rollback` succeeds; its `commit` succeeds.
4. **A conversion error in a later result set fails `query` but not the stream**
   (`row_stream_later_sets`; `client.rs:966`).
5. **`batch` returns the first result set only** (`results_batch`; `client.rs:1341`),
   where its documentation and `docs/how-it-works.md:38-39` say every row of every
   result set. `batch_dataset` does return them.

Smaller ones came up while modelling and have no run of their own:

- The loops that read a response break at any error of the driver's, with a comment that
  speaks of the server's only (`client.rs:293-294`, `967-968`), and `connection_lost` ends the
  task only for I/O. A decoding or protocol error in the middle of a response may leave the
  rest unread, and the task takes the next request (the exception in `CleanHandover`).
- A `None::<NaiveDateTime>` is bound as `datetime2` also where
  `datetime_parameter_type` makes its values go as `datetime`, although `value.rs:288` says
  that each NULL is declared as the type a value would be.
- `blocking.rs:73` says that dropping a blocking client has already told the connection
  task to stop when its runtime is shut down, but `runtime` is declared, and so dropped,
  before `inner`. Nothing goes wrong: the runtime drops the task anyway
  (`GoneClientEnds`).
- `error.rs:354` says that `is_connection_lost` is true for the statement that found the
  connection dead. It is not if one of that statement's rows had failed to convert before:
  the first failure is the one reported, and the next statement is told
  `ConnectionClosed`. In the same way the error of a deadlock victim is a conversion
  error then, and not `is_deadlock`. The task keeps the same view, so that the two agree
  (`FailureIsTold`).
- `Error::Connect` names the server of the `Config` also when the failure is of the one
  it redirected to (`client.rs:1159`; `Connecting`'s `FailOpen`).
- A setter on a `Config` made from a connection string changes nothing and says
  nothing (`config.rs:118-176`; `Set`).
- `Client::close` says that nothing more is sent to the server (`client.rs:1426`). Requests
  in the channel are still served: a rollback a drop enqueued is sent after `close`
  returned, which `DiscardedNeverDurable` does not need and `ReleasedAfterDrop` does.
- A `@P1` a text holds by itself, with no parameter of that name, is left alone and then reads
  as the first parameter. `RewritesPlaceholders` states what happens.

## Not modelled

- Finding a column by its name or position, which keeps no state: `TypeMapping` starts
  from the column found, `Results` knows how many there are.
- The driver's own sum behind `execute`; SQL Server Browser, TLS and what a login consists of;
  how a connection string is parsed (it is valid or not).
- What a server's error says besides its number; the wording of errors and of SQL;
  comparison of a `DataValue` with a literal.
- The bytes of two requests on one wire. `CleanHandover` says in what state one request
  leaves it, from which the next one starts, but for its exceptions; whether a cancel that crosses the end of
  a response is acknowledged in that response or after it is the driver's to know, and
  the models allow both.
- Several clients: they share nothing. The crate has no pool.

## What could follow

Everything planned is done: the models of all parts listed above, the two abstract
specifications and their refinements, in a whole session too, and a proof of every property
but liveness. Further along the same lines: column lookup over the rows of `Results`, and the
blocking client's own iterators composed with `RowStream`.
