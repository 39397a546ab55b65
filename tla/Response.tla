------------------------------ MODULE Response ------------------------------
(***************************************************************************)
(* What a response says, as a whole: the items the driver reads from it -- *)
(* the metadata that opens a result set, a row, a row this crate cannot    *)
(* convert, a count of rows affected -- and how it ends.  A row is named   *)
(* by its place in the response.                                           *)
(*                                                                         *)
(* The loops that read one stop at the first error of the driver's.  One   *)
(* the server reported comes last in the response, and with an I/O failure *)
(* nothing more can come; after any other ("protocol": decoding, encoding) *)
(* the rest of the response may be unread.                                 *)
(***************************************************************************)
EXTENDS Naturals, Sequences, FiniteSets

Items == {"meta", "row", "bad", "count"}
Endings == {"end", "server", "io", "protocol"}

\* A finite set of numbers as a sequence, in ascending order.
Nth(S, n) == CHOOSE i \in {x \in S : Cardinality({y \in S : y <= x}) = n} : TRUE
InOrder(S) == [n \in 1..Cardinality(S) |-> Nth(S, n)]

\* The result sets opened by the time of item i.
SetsOpened(items, i) == Cardinality({j \in 1..i : items[j] = "meta"})

\* Item i belongs to the k-th result set.
InSet(items, k, i) == SetsOpened(items, i) = k

RowsOfSet(items, k) == InOrder({i \in 1..Len(items) : items[i] = "row" /\ InSet(items, k, i)})

ResultSets(items) == [k \in 1..SetsOpened(items, Len(items)) |-> RowsOfSet(items, k)]

\* The rows of the first result set that come before any that is no good.
FirstRows(items) ==
    InOrder({i \in 1..Len(items) : /\ items[i] = "row" /\ InSet(items, 1, i)
                                   /\ \A j \in 1..i : items[j] # "bad"})

\* A row of the first result set is one that is no good.
FirstSpoiled(items) == \E i \in 1..Len(items) : items[i] = "bad" /\ InSet(items, 1, i)

\* What a call fails with that reads the whole response, "none" if nothing.
Failure(items, ending) ==
    IF \E i \in 1..Len(items) : items[i] = "bad" THEN "bad"
    ELSE IF ending = "end" THEN "none" ELSE ending

=============================================================================
