------------------------------- MODULE Ledger -------------------------------
(***************************************************************************)
(* What a connection promises about the work of its statements, whatever   *)
(* is queued, cancelled or lost on the way: statements are numbered in the *)
(* order they were asked for; done in that order; done one at a time or in *)
(* a transaction, all of which becomes permanent in one step or none; and  *)
(* what the caller has been told of a statement's work stays true.         *)
(***************************************************************************)
EXTENDS Naturals

VARIABLES
    open,      \* statements done in the open transaction
    durable,   \* statements whose work is permanent
    kept,      \* those the caller was told are
    discarded, \* those the caller was told never will be
    excused    \* the promise is off: one of the two known gaps was hit

vars == <<open, durable, kept, discarded, excused>>

Init ==
    /\ open = {}
    /\ durable = {}
    /\ kept = {}
    /\ discarded = {}
    /\ excused = FALSE

\* Statement i comes after every one that was done and not undone.
Later(i) == \A j \in open \cup durable : j < i

DoInTransaction(i) ==
    /\ Later(i)
    /\ open' = open \cup {i}
    /\ UNCHANGED <<durable, kept, discarded>>

DoAlone(i) ==
    /\ Later(i)
    /\ open = {}
    /\ i \notin discarded
    /\ durable' = durable \cup {i}
    /\ UNCHANGED <<open, kept, discarded>>

\* Nothing the caller gave up is still in a transaction that commits.
Commit ==
    /\ open # {}
    /\ open \cap discarded = {}
    /\ durable' = durable \cup open
    /\ open' = {}
    /\ UNCHANGED <<kept, discarded>>

\* A rollback, to the start or to a savepoint: from statement i on, nothing
\* is left.
UndoFrom(i) ==
    /\ open' = {j \in open : j < i}
    /\ UNCHANGED <<durable, kept, discarded>>

Promise ==
    /\ kept \subseteq kept' /\ kept' \subseteq durable
    /\ discarded \subseteq discarded' /\ discarded' \cap durable = {}
    /\ UNCHANGED <<open, durable>>

Excuse == ~excused /\ excused'

Next ==
    \/ excused
    \/ Excuse
    \/ /\ ~excused /\ UNCHANGED excused
       /\ \/ \E i \in open' \ open : DoInTransaction(i)
          \/ \E i \in durable' \ durable : DoAlone(i)
          \/ Commit
          \/ \E i \in open : UndoFrom(i)
          \/ Promise

Spec == Init /\ [][Next]_vars

=============================================================================
