------------------------------ MODULE Delivery ------------------------------
(***************************************************************************)
(* What a streamed query promises, however the rows travel: the server     *)
(* sends rows, perhaps one that is no good, which spoils the rest, and at  *)
(* some point ends the response; the caller is given the good rows before  *)
(* that in order and is then told once that one was no good, or else how   *)
(* the response ended.  Only a caller told "closed" knows neither the end  *)
(* nor whether it has all rows.                                            *)
(***************************************************************************)
EXTENDS Naturals, Sequences

VARIABLES
    sent,      \* the rows of the response so far, up to one that is no good
    spoiled,   \* whether there was such a row
    ending,    \* how the response ended, "none" until it has
    delivered, \* the rows the caller was given
    told       \* what it was told then, "nothing" while it may get more

vars == <<sent, spoiled, ending, delivered, told>>

Init ==
    /\ sent = <<>>
    /\ spoiled = FALSE
    /\ ending = "none"
    /\ delivered = <<>>
    /\ told = "nothing"

SendRow ==
    /\ ending = "none"
    /\ ~spoiled
    /\ Len(sent') = Len(sent) + 1
    /\ sent = SubSeq(sent', 1, Len(sent))
    /\ UNCHANGED <<spoiled, ending, delivered, told>>

Spoil ==
    /\ ending = "none"
    /\ spoiled' = TRUE
    /\ UNCHANGED <<sent, ending, delivered, told>>

EndResponse ==
    /\ ending = "none"
    /\ ending' \in {"end", "server", "io", "protocol"}
    /\ UNCHANGED <<sent, spoiled, delivered, told>>

Deliver ==
    /\ told = "nothing"
    /\ Len(delivered) < Len(sent)
    /\ delivered' = Append(delivered, sent[Len(delivered) + 1])
    /\ UNCHANGED <<sent, spoiled, ending, told>>

\* That it is complete, or in which error it ended, only if so it did, after
\* all rows and if all were good; if one was not, that and nothing else.
Conclude ==
    /\ told = "nothing"
    /\ \/ told' = (IF spoiled THEN "bad" ELSE ending) /\ ending # "none" /\ delivered = sent
       \/ told' = "closed"
    /\ UNCHANGED <<sent, spoiled, ending, delivered>>

Next == SendRow \/ Spoil \/ EndResponse \/ Deliver \/ Conclude

Spec == Init /\ [][Next]_vars

=============================================================================
