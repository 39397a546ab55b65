------------------------------ MODULE Results -------------------------------
(***************************************************************************)
(* Calls that wait for a whole response: the loop that collects its result *)
(* sets (collect_query_stream; run_proc_query has the same one), and what  *)
(* query, query_one, query_opt, query_scalar, batch, query_dataset and     *)
(* execute_command make of what it returns.                                *)
(***************************************************************************)
EXTENDS Response, Errors

CONSTANT MaxItems \* the longest response looked at

ASSUME MaxItemsAssumption == MaxItems \in Nat

VARIABLES
    items,   \* what has been read of the response
    ending,  \* how it ended, "none" until it has
    dataset, \* the loop's locals: the result sets that are complete,
    current, \* the one being read, as a sequence of none or one,
    failure, \* the first failure,
    total,   \* and, in run_proc_execute, the rows affected so far
    source,  \* the driver's error the response ended in, "none" if in none
    noticed  \* whether the driver knew before that the connection is gone

vars == <<items, ending, dataset, current, failure, total, source, noticed>>

-----------------------------------------------------------------------------

Read(item) ==
    /\ ending = "none"
    /\ Len(items) < MaxItems
    /\ ~noticed
    /\ items' = Append(items, item)
    /\ UNCHANGED <<ending, source, noticed>>

\* Mutants of ReadMetadata: the set just completed stays the one being read;
\* an empty one is not kept.
ReadMetadataKeepsCurrent ==
    /\ Read("meta")
    /\ dataset' = dataset \o current
    /\ current' = Append(current, <<>>)
    /\ UNCHANGED <<failure, total>>

ReadMetadataSkipsEmpty ==
    /\ Read("meta")
    /\ dataset' = IF current = <<>> \/ current = << <<>> >> THEN dataset
                  ELSE Append(dataset, current[1])
    /\ current' = << <<>> >>
    /\ UNCHANGED <<failure, total>>

ReadMetadata ==
    /\ Read("meta")
    /\ dataset' = dataset \o current
    /\ current' = << <<>> >>
    /\ UNCHANGED <<failure, total>>

\* After a failure rows are read and dropped.
ReadRow ==
    /\ current # <<>>
    /\ Read("row")
    /\ current' = IF failure = "none" THEN << Append(current[1], Len(items')) >> ELSE current
    /\ UNCHANGED <<dataset, failure, total>>

ReadBadRow ==
    /\ current # <<>>
    /\ Read("bad")
    /\ failure' = "bad"
    /\ UNCHANGED <<dataset, current, total>>

\* A statement of a procedure reports the rows it affected, here one.
ReadCount ==
    /\ Read("count")
    /\ total' = total + 1
    /\ UNCHANGED <<dataset, current, failure>>

\* What the driver reports of such an ending.
Sources(end) ==
    CASE end = "end"      -> {"none"}
      [] end = "server"   -> ServerErrors
      [] end = "protocol" -> {"Protocol"}
      [] end = "io"       -> IF noticed THEN {"NotConnected"} ELSE IoKinds

\* The end of the response, or an error, after which no more of it is read.
ReadEnding ==
    /\ ending = "none"
    /\ ending' \in IF noticed THEN {"io"} ELSE Endings
    /\ source' \in Sources(ending')
    /\ failure' = IF failure = "none" /\ ending' # "end" THEN ending' ELSE failure
    /\ dataset' = IF failure' = "none" THEN dataset \o current ELSE dataset
    /\ current' = IF failure' = "none" THEN <<>> ELSE current
    /\ UNCHANGED <<items, total, noticed>>

Init ==
    /\ items = <<>>
    /\ ending = "none"
    /\ dataset = <<>>
    /\ current = <<>>
    /\ failure = "none"
    /\ total = 0
    /\ source = "none"
    /\ noticed \in BOOLEAN

Returned == ending # "none" /\ UNCHANGED vars

Next == ReadMetadata \/ ReadRow \/ ReadBadRow \/ ReadCount \/ ReadEnding \/ Returned

Spec == Init /\ [][Next]_vars

-----------------------------------------------------------------------------
(* What the calls return, once the response is over.                       *)

Ok(value) == [value |-> value]
Err(cause) == [cause |-> cause]
IsOk(result) == "value" \in DOMAIN result

QueryDataset == IF failure = "none" THEN Ok(dataset) ELSE Err(failure)

\* Mutant of IntoRows: the rows of all result sets.
AllRows(sets) ==
    LET Upto[k \in 0..Len(sets)] == IF k = 0 THEN <<>> ELSE Upto[k - 1] \o sets[k]
    IN  Upto[Len(sets)]

IntoRows(sets) == IF sets = <<>> THEN <<>> ELSE sets[1]

Query == IF failure = "none" THEN Ok(IntoRows(dataset)) ELSE Err(failure)

Batch == Query

QueryOne ==
    IF ~IsOk(Query) THEN Query
    ELSE IF Len(Query.value) = 1 THEN Ok(Query.value[1]) ELSE Err("row count")

QueryOpt ==
    IF ~IsOk(Query) THEN Query
    ELSE IF Len(Query.value) <= 1 THEN Ok(Query.value) ELSE Err("row count")

\* Mutant of QueryScalar: any first row will do, as one of query's.
QueryScalarFirst(columns, converts) ==
    IF ~IsOk(Query) THEN Query
    ELSE IF Query.value = <<>> THEN Err("row count")
    ELSE IF columns > 0 /\ converts THEN Ok(Query.value[1]) ELSE Err("conversion")

\* The first column of the row query_one returns, if there is one and FromSql
\* takes it.
QueryScalar(columns, converts) ==
    IF ~IsOk(QueryOne) THEN QueryOne
    ELSE IF columns = 0 THEN Err("column index")
    ELSE IF converts THEN QueryOne ELSE Err("conversion")

\* run_proc_execute converts no rows.
ExecuteProc == IF ending = "end" THEN Ok(total) ELSE Err(ending)

\* The error a call of this kind fails with, as it reaches connection_lost: a
\* row that does not convert is no failure of the driver's.
Raised(kind) ==
    WithStatement(IF failure = "bad" THEN Plain("Conversion") ELSE FromDriver(source),
                  kind, "known")

Told(kind) == ToldOf(Raised(kind))

-----------------------------------------------------------------------------
(* Properties.                                                             *)

TypeOK ==
    /\ items \in Seq(Items)
    /\ ending \in Endings \cup {"none"}
    /\ dataset \in Seq(Seq(Nat))
    /\ current \in Seq(Seq(Nat)) /\ Len(current) <= 1
    /\ failure \in {"none", "bad", "server", "io", "protocol"}
    /\ total \in Nat
    /\ source \in DriverErrors \cup {"none"}
    /\ noticed \in BOOLEAN

Over == ending # "none"

\* query_dataset returns every result set, also an empty one, in the server's
\* order and with exactly its rows; or the first thing that went wrong in any
\* of them.
DatasetIsResponse ==
    Over => QueryDataset = IF Failure(items, ending) = "none" THEN Ok(ResultSets(items))
                           ELSE Err(Failure(items, ending))

\* query returns the rows a stream of the same response delivers, or fails.
QueryIsFirstSet ==
    Over /\ IsOk(Query) => Query.value = FirstRows(items)

\* query_one and query_scalar return a row's, and query_opt says there is none,
\* only if that is all the server sent in the first result set, also counting
\* rows that did not convert; a failure anywhere in the response, later sets
\* included, fails them all.
SingleRowIsCertain ==
    Over =>
        LET Sent == {i \in 1..Len(items) : items[i] \in {"row", "bad"} /\ InSet(items, 1, i)}
        IN  /\ IsOk(QueryOne) => Sent = {QueryOne.value} /\ ending = "end"
            /\ \A columns \in {0, 1}, converts \in BOOLEAN :
                   LET scalar == QueryScalar(columns, converts)
                   IN  IsOk(scalar) => Sent = {scalar.value} /\ ending = "end"
            /\ QueryOpt = Ok(<<>>) => Sent = {} /\ ending = "end"

\* However a call was sent, its error says that the connection is lost exactly
\* if the task ends over it, so a pool neither keeps a dead client nor drops a
\* live one; says deadlock only if one ended the response; and, if it came from
\* the driver, names what was sent and how.  What a row that did not convert
\* hides, the loss included, is hidden from the task as well: the next call,
\* whose driver has noticed, is the one told, and the task ends then.
FailureIsTold ==
    Over /\ failure # "none" =>
        \A kind \in StatementKind :
            LET e == Told(kind)
            IN  /\ IsConnectionLost(e) <=> EndsTask(Raised(kind))
                /\ IsDeadlock(e) => source = Deadlock
                /\ e.variant = "Query" => e.kind = kind /\ e.statement = "known"
                /\ noticed => IsConnectionLost(e)

-----------------------------------------------------------------------------
(* What the documentation says and the code does not keep; see README.     *)

\* client.rs, Client::batch: "returns every row whatever result set it came
\* from".
BatchReturnsEveryRow ==
    Over /\ IsOk(Batch) => \A i \in 1..Len(items) :
        items[i] = "row" => \E k \in 1..Len(Batch.value) : Batch.value[k] = i

=============================================================================
