----------------------------- MODULE Connecting -----------------------------
(***************************************************************************)
(* From a Config to a connection: the builder or the connection string,    *)
(* Client::connect, which hands it to the driver under a time limit, and   *)
(* open, which dials a server, logs in, and follows one redirect.  A       *)
(* server stands for its host and port; "login" for what else a setter     *)
(* changes: database, credentials, trust in the certificate, application.  *)
(***************************************************************************)
EXTENDS Naturals, Sequences, Errors

CONSTANTS
    Servers,  \* the servers there are
    Localhost \* the one a new builder names

VARIABLES
    config,     \* the Config
    stage,      \* where connect is
    cfg,        \* the driver's configuration, a copy open changes
    redirected, \* open's local of this name
    trail,      \* history: the servers dialed, and the login each was sent
    routed,     \* history: the servers redirected to
    error       \* what connect failed with

vars == <<config, stage, cfg, redirected, trail, routed, error>>

Logins == {"default", "given"}

\* `limited` is whether there is a time limit, `valid` whether a connection
\* string parses.
Config == [source : {"parts", "ado", "jdbc"}, valid : BOOLEAN,
           host : Servers, login : Logins, limited : BOOLEAN]

NoError == Plain("none")

-----------------------------------------------------------------------------
(* Configuring.                                                            *)

New == [source |-> "parts", valid |-> TRUE,
        host |-> Localhost, login |-> "default", limited |-> TRUE]

FromString == {c \in Config : c.source \in {"ado", "jdbc"}}

\* A setter changes what the builder holds, and nothing a string says.
Set(field, value) ==
    /\ stage = "configuring"
    /\ config' = IF config.source = "parts" THEN [config EXCEPT ![field] = value] ELSE config
    /\ UNCHANGED <<stage, cfg, redirected, trail, routed, error>>

Configure ==
    \/ \E s \in Servers : Set("host", s)
    \/ Set("login", "given")
    \/ \E b \in BOOLEAN : Set("limited", b)

-----------------------------------------------------------------------------
(* Connecting.                                                             *)

ToDriver(c) == [host |-> c.host, login |-> c.login, limited |-> c.limited]

Fail(e) ==
    /\ stage' = "failed"
    /\ error' = e

\* Every failure of the driver names the server configured.
FailOpen(source) == Fail(Connect(config.host, source))

BeginConnect ==
    /\ stage = "configuring"
    /\ IF config.valid THEN /\ stage' = "dialing"
                            /\ cfg' = ToDriver(config)
                            /\ UNCHANGED error
                       ELSE Fail(Plain("Config")) /\ UNCHANGED cfg
    /\ UNCHANGED <<config, redirected, trail, routed>>

\* connect_named: the server may also never answer.  It is the operating
\* system's business how a dial fails, running out of its own time included.
Dial ==
    /\ stage = "dialing"
    /\ trail' = Append(trail, [host |-> cfg.host, login |-> cfg.login])
    /\ \/ stage' = "login" /\ UNCHANGED error
       \/ \E source \in IoKinds \cup {"Protocol"} : FailOpen(source)
    /\ UNCHANGED <<config, cfg, redirected, routed>>

\* Whatever the driver fails with; to be sent elsewhere is Redirect.
LogIn ==
    /\ stage = "login"
    /\ \/ stage' = "open" /\ UNCHANGED error
       \/ \E source \in DriverErrors \ {"Routing"} : FailOpen(source)
    /\ UNCHANGED <<config, cfg, redirected, trail, routed>>

\* Mutant of Redirect: followed wherever it leads.
RedirectAlways ==
    /\ stage = "login"
    /\ \E s \in Servers :
        /\ Len(trail) < 4
        /\ routed' = Append(routed, s)
        /\ cfg' = [cfg EXCEPT !.host = s]
    /\ redirected' = TRUE
    /\ stage' = "dialing"
    /\ UNCHANGED <<config, trail, error>>

\* The server names another, which is logged in to just the same, or, after
\* a first redirect, is not.
Redirect ==
    /\ stage = "login"
    /\ \E s \in Servers :
        /\ routed' = Append(routed, s)
        /\ IF redirected
           THEN FailOpen("Routing") /\ UNCHANGED <<cfg, redirected>>
           ELSE /\ redirected' = TRUE
                /\ cfg' = [cfg EXCEPT !.host = s]
                /\ stage' = "dialing"
                /\ UNCHANGED error
    /\ UNCHANGED <<config, trail>>

\* Mutant of Opening: only the first attempt is timed.
OpeningFirst == stage \in {"dialing", "login"} /\ ~redirected

\* open is running: what the limit is on.
Opening == stage \in {"dialing", "login"}

\* The limit is on the whole of open, redirect and all.
Expire ==
    /\ Opening
    /\ cfg.limited
    /\ FailOpen("TimedOut")
    /\ UNCHANGED <<config, cfg, redirected, trail, routed>>

\* The future of connect is dropped, and the socket with it.
Leave ==
    /\ stage \in {"dialing", "login"}
    /\ stage' = "left"
    /\ UNCHANGED <<config, cfg, redirected, trail, routed, error>>

NoCfg == ToDriver(New)

\* The task is spawned and the Client returned; connect's locals are gone.
Spawn ==
    /\ stage = "open"
    /\ stage' = "connected"
    /\ config' = New
    /\ cfg' = NoCfg
    /\ redirected' = FALSE
    /\ trail' = <<>>
    /\ routed' = <<>>
    /\ UNCHANGED error

-----------------------------------------------------------------------------

Init ==
    /\ config \in {New} \cup FromString
    /\ stage = "configuring"
    /\ cfg = NoCfg
    /\ redirected = FALSE
    /\ trail = <<>>
    /\ routed = <<>>
    /\ error = NoError

Open == Dial \/ LogIn \/ Redirect

Over == stage \in {"connected", "failed", "left"}

Next == Configure \/ BeginConnect \/ Open \/ Expire \/ Leave \/ Spawn

\* Only the timer is sure to fire: a server may never answer.
Spec == Init /\ [][Next]_vars /\ WF_vars(Expire) /\ WF_vars(Spawn)

-----------------------------------------------------------------------------
(* Properties.                                                             *)

TypeOK ==
    /\ config \in Config
    /\ stage \in {"configuring", "dialing", "login", "open", "connected", "failed", "left"}
    /\ cfg \in [host : Servers, login : Logins, limited : BOOLEAN]
    /\ redirected \in BOOLEAN
    /\ trail \in Seq([host : Servers, login : Logins])
    /\ routed \in Seq(Servers)
    /\ error.source \in DriverErrors \cup {"none"}

\* A connection is to the server the Config names, or to the one that server
\* redirected to, never to a third, also if servers redirect in circles; the
\* login sent there is the one configured.  A redirect fails connect only if
\* one had been followed before, whatever else the driver may fail with, and
\* no server is dialed for a string that does not parse.
ConnectsAsConfigured ==
    /\ trail # <<>> => trail[1].host = config.host
    /\ Len(trail) <= 2
    /\ \A i \in 1..Len(trail) : trail[i].login = config.login
    /\ Len(trail) = 2 => trail[2].host = routed[1]
    /\ stage = "open" => Len(trail) = Len(routed) + 1
    /\ stage = "failed" =>
           /\ error.source = "Routing" => Len(trail) = 2 /\ Len(routed) = 2
           /\ trail # <<>> => config.valid /\ error.variant = "Connect"

\* With a limit connect returns, whatever the servers do, unless its caller
\* leaves first.
ConnectEnds == (Opening /\ config.limited) ~> Over

=============================================================================
