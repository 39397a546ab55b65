------------------------------- MODULE Errors -------------------------------
(***************************************************************************)
(* An error on its way from the driver to the caller: wrapped without      *)
(* knowing what was running (From), told which statement it belongs to     *)
(* (with_statement), looked at by the task, which ends if the connection   *)
(* is gone (connection_lost), and by the caller (is_connection_lost,       *)
(* is_deadlock, statement).  Texts are left out; a failure of the driver   *)
(* is its source: an I/O failure its kind, a server's error its number,    *)
(* a redirect that was not expected "Routing", any other -- decoding,      *)
(* encoding, TLS -- "Protocol".                                            *)
(***************************************************************************)

IoKinds == {"NotConnected", "TimedOut", "other I/O"}
Deadlock == "1205"
ServerErrors == {Deadlock, "208"}
DriverErrors == IoKinds \cup ServerErrors \cup {"Routing", "Protocol"}

StatementKind == {"Query", "Batch", "StoredProcedure", "TransactionControl"}

\* The variants that carry no source.
Plain(variant) == [variant |-> variant, source |-> "none", statement |-> "unknown"]

\* From<tds_driver::error::Error>: kind Query until it is known.
FromDriver(source) ==
    [variant |-> "Query", source |-> source, statement |-> "unknown", kind |-> "Query"]

\* Error::Connect, with the server it says was dialed.
Connect(server, source) ==
    [variant |-> "Connect", source |-> source, statement |-> "unknown", server |-> server]

WithStatement(e, kind, statement) ==
    IF e.variant = "Query" /\ e.statement = "unknown"
    THEN [e EXCEPT !.kind = kind, !.statement = statement] ELSE e

\* Mutant of IsConnectionLost: only a connection already closed is a lost one.
IsConnectionClosed(e) == e.variant = "ConnectionClosed"

IsConnectionLost(e) ==
    \/ e.variant \in {"ConnectionClosed", "Io"}
    \/ e.variant = "Query" /\ e.source \in IoKinds

\* The number of the server's error, if that is what it is.
Code(e) ==
    IF e.variant \in {"Connect", "Query"} /\ e.source \in ServerErrors THEN e.source ELSE "none"

IsDeadlock(e) == Code(e) = Deadlock

FoundGone(e) == e.variant = "Query" /\ e.source \in IoKinds

\* connection_lost: what the caller is told ...
ToldOf(e) ==
    IF FoundGone(e) /\ e.source = "NotConnected" THEN Plain("ConnectionClosed") ELSE e

\* ... and whether the task ends.
EndsTask(e) == FoundGone(e)

=============================================================================
