---------------------------- MODULE Session_proofs ----------------------------
(***************************************************************************)
(* Theorems about Connecting, and about a whole session: what is proved of *)
(* Connecting and of Connection holds in it, under either client, and what *)
(* the blocking client adds.                                               *)
(***************************************************************************)
EXTENDS Session, Connection_proofs

-----------------------------------------------------------------------------
(* Connecting, for any set of servers that has the one a new builder       *)
(* names, however they redirect.                                           *)

\* How far open has come, from its locals: before it nothing was dialed, and
\* while it runs every redirect but the one being followed has been dialed.
OpenProgress ==
    /\ stage = "configuring" => trail = <<>> /\ routed = <<>> /\ ~redirected
    /\ stage \in {"dialing", "login"} =>
           /\ config.valid
           /\ cfg.login = config.login
           /\ cfg.limited = config.limited
           /\ Len(routed) = IF redirected THEN 1 ELSE 0
           /\ cfg.host = IF redirected THEN routed[1] ELSE config.host
           /\ Len(trail) = IF stage = "login" THEN Len(routed) + 1 ELSE Len(routed)

ConnectingInv == C!TypeOK /\ C!ConnectsAsConfigured /\ OpenProgress

-----------------------------------------------------------------------------

LEMMA BuilderTyped ==
    ASSUME Localhost \in Servers
    PROVE  /\ C!New \in C!Config
           /\ C!NoCfg \in [host : Servers, login : C!Logins, limited : BOOLEAN]
BY DEF C!New, C!NoCfg, C!ToDriver, C!Config, C!Logins

LEMMA NothingDialedTyped ==
    /\ <<>> \in Seq([host : Servers, login : C!Logins])
    /\ <<>> \in Seq(Servers)
OBVIOUS

\* Initially nothing has been dialed.
LEMMA ConnectingInit ==
    ASSUME Localhost \in Servers
    PROVE  C!Init => ConnectingInv
<1> SUFFICES ASSUME C!Init PROVE ConnectingInv
    OBVIOUS
<1>1. C!TypeOK
    BY BuilderTyped, NothingDialedTyped DEF C!Init, C!TypeOK, C!FromString, C!NoError, C!Plain
<1>2. C!ConnectsAsConfigured
    BY DEF C!Init, C!ConnectsAsConfigured
<1>3. OpenProgress
    BY DEF C!Init, OpenProgress
<1> QED
    BY <1>1, <1>2, <1>3 DEF ConnectingInv

\* What connect fails with is one of the driver's errors, or its own.
LEMMA FailTyped ==
    ASSUME NEW source \in C!DriverErrors, C!FailOpen(source)
    PROVE  /\ stage' = "failed"
           /\ error'.source = source
           /\ error'.variant = "Connect"
           /\ error'.source \in C!DriverErrors \cup {"none"}
BY DEF C!FailOpen, C!Fail, C!Connect

\* Types are kept.
LEMMA ConnectingNextTyped ==
    ASSUME Localhost \in Servers, C!TypeOK, [C!Next]_C!vars
    PROVE  C!TypeOK'
<1>1. CASE C!Configure
    BY <1>1 DEF C!TypeOK, C!Configure, C!Set, C!Config, C!Logins
<1>2. CASE C!BeginConnect
    <2>1. cfg' \in [host : Servers, login : C!Logins, limited : BOOLEAN]
        BY <1>2 DEF C!TypeOK, C!BeginConnect, C!ToDriver, C!Config
    <2> QED
        BY <1>2, <2>1 DEF C!TypeOK, C!BeginConnect, C!Fail, C!Plain
<1>3. CASE C!Dial
    <2> DEFINE dialed == [host |-> cfg.host, login |-> cfg.login]
    <2>1. dialed \in [host : Servers, login : C!Logins]
        BY DEF C!TypeOK
    <2>2. trail' = Append(trail, dialed)
        BY <1>3 DEF C!Dial
    <2>3. trail' \in Seq([host : Servers, login : C!Logins])
        <3> HIDE DEF dialed
        <3> QED
            BY <2>1, <2>2 DEF C!TypeOK
    <2>4. \/ stage' = "login" /\ UNCHANGED error
          \/ \E source \in C!DriverErrors : C!FailOpen(source)
        BY <1>3 DEF C!Dial, C!DriverErrors
    <2> QED
        BY <1>3, <2>3, <2>4, FailTyped DEF C!TypeOK, C!Dial
<1>4. CASE C!LogIn
    <2>1. \/ stage' = "open" /\ UNCHANGED error
          \/ \E source \in C!DriverErrors : C!FailOpen(source)
        BY <1>4 DEF C!LogIn
    <2> QED
        BY <1>4, <2>1, FailTyped DEF C!TypeOK, C!LogIn
<1>5. CASE C!Redirect
    <2>1. PICK s \in Servers :
              /\ routed' = Append(routed, s)
              /\ IF redirected
                 THEN C!FailOpen("Routing") /\ UNCHANGED <<cfg, redirected>>
                 ELSE /\ redirected' = TRUE
                      /\ cfg' = [cfg EXCEPT !.host = s]
                      /\ stage' = "dialing"
                      /\ UNCHANGED error
        BY <1>5 DEF C!Redirect
    <2>2. routed' \in Seq(Servers)
        BY <2>1 DEF C!TypeOK
    <2>3. cfg' \in [host : Servers, login : C!Logins, limited : BOOLEAN]
        BY <2>1 DEF C!TypeOK
    <2> QED
        BY <1>5, <2>1, <2>2, <2>3, FailTyped DEF C!TypeOK, C!Redirect, C!DriverErrors
<1>6. CASE C!Expire
    BY <1>6, FailTyped DEF C!TypeOK, C!Expire, C!DriverErrors, C!IoKinds
<1>7. CASE C!Leave
    BY <1>7 DEF C!TypeOK, C!Leave
<1>8. CASE C!Spawn
    BY <1>8, BuilderTyped, NothingDialedTyped DEF C!TypeOK, C!Spawn
<1>9. CASE UNCHANGED C!vars
    BY <1>9 DEF C!TypeOK, C!vars
<1> QED
    BY <1>1, <1>2, <1>3, <1>4, <1>5, <1>6, <1>7, <1>8, <1>9 DEF C!Next, C!Open

\* A step keeps the servers dialed in line with the redirects followed.
LEMMA ConnectingNextProgress ==
    ASSUME ConnectingInv, [C!Next]_C!vars
    PROVE  OpenProgress'
<1> USE DEF ConnectingInv
<1>1. CASE C!Configure
    BY <1>1 DEF OpenProgress, C!Configure, C!Set
<1>2. CASE C!BeginConnect
    BY <1>2 DEF C!TypeOK, C!Config, OpenProgress, C!BeginConnect, C!ToDriver, C!Fail
<1>3. CASE C!Dial
    <2>1. PICK d : trail' = Append(trail, d)
        BY <1>3 DEF C!Dial
    <2>2. Len(trail') = Len(trail) + 1
        BY <2>1 DEF C!TypeOK
    <2>3. stage' \in {"login", "failed"}
        BY <1>3 DEF C!Dial, C!FailOpen, C!Fail
    <2> QED
        BY <1>3, <2>2, <2>3 DEF C!TypeOK, OpenProgress, C!Dial
<1>4. CASE C!LogIn
    BY <1>4 DEF OpenProgress, C!LogIn, C!FailOpen, C!Fail
<1>5. CASE C!Redirect
    <2>1. CASE redirected
        BY <1>5, <2>1 DEF C!Redirect, C!FailOpen, C!Fail, OpenProgress
    <2>2. CASE ~redirected
        <3>1. PICK s \in Servers :
                  /\ routed' = Append(routed, s)
                  /\ redirected' = TRUE
                  /\ cfg' = [cfg EXCEPT !.host = s]
                  /\ stage' = "dialing"
            BY <1>5, <2>2 DEF C!Redirect
        <3>2. Len(routed) = 0 /\ Len(trail) = 1
            BY <1>5, <2>2 DEF C!Redirect, OpenProgress
        <3>3. Len(routed') = 1 /\ routed'[1] = s
            BY <3>1, <3>2 DEF C!TypeOK
        <3>4. cfg'.host = s /\ cfg'.login = cfg.login /\ cfg'.limited = cfg.limited
            BY <3>1 DEF C!TypeOK
        <3> QED
            BY <1>5, <3>1, <3>2, <3>3, <3>4 DEF C!Redirect, OpenProgress
    <2> QED
        BY <2>1, <2>2 DEF C!TypeOK
<1>6. CASE C!Expire
    BY <1>6 DEF OpenProgress, C!Expire, C!FailOpen, C!Fail
<1>7. CASE C!Leave
    BY <1>7 DEF OpenProgress, C!Leave
<1>8. CASE C!Spawn
    BY <1>8 DEF OpenProgress, C!Spawn
<1>9. CASE UNCHANGED C!vars
    BY <1>9 DEF OpenProgress, C!vars
<1> QED
    BY <1>1, <1>2, <1>3, <1>4, <1>5, <1>6, <1>7, <1>8, <1>9 DEF C!Next, C!Open

\* So it connects as configured.
LEMMA ConnectingNextConnects ==
    ASSUME ConnectingInv, [C!Next]_C!vars
    PROVE  C!ConnectsAsConfigured'
<1> USE DEF ConnectingInv
<1>1. CASE C!Configure
    BY <1>1 DEF C!ConnectsAsConfigured, OpenProgress, C!Configure, C!Set
<1>2. CASE C!BeginConnect
    <2>1. trail = <<>> /\ trail' = <<>> /\ stage' # "open" /\ config' = config
        BY <1>2 DEF C!BeginConnect, OpenProgress, C!Fail
    <2>2. stage' = "failed" => error'.source = "none"
        BY <1>2 DEF C!BeginConnect, C!Fail, C!Plain
    <2> QED
        BY <2>1, <2>2 DEF C!ConnectsAsConfigured
<1>3. CASE C!Dial
    <2> DEFINE dialed == [host |-> cfg.host, login |-> cfg.login]
    <2>1. trail' = Append(trail, dialed)
        BY <1>3 DEF C!Dial
    <2>2. /\ Len(trail') = Len(trail) + 1
          /\ \A i \in 1..Len(trail) : trail'[i] = trail[i]
          /\ trail'[Len(trail) + 1] = dialed
        BY <2>1 DEF C!TypeOK
    <2>3. /\ dialed.login = config.login
          /\ Len(trail) = Len(routed)
          /\ config.valid
          /\ IF redirected THEN Len(routed) = 1 /\ dialed.host = routed[1]
                           ELSE Len(routed) = 0 /\ dialed.host = config.host
        BY <1>3 DEF C!Dial, OpenProgress
    <2>4. UNCHANGED <<config, routed>>
        BY <1>3 DEF C!Dial
    <2>5. \/ stage' = "login"
          \/ stage' = "failed" /\ error'.source # "Routing" /\ error'.variant = "Connect"
        BY <1>3, FailTyped DEF C!Dial, C!DriverErrors, C!IoKinds
    <2> HIDE DEF dialed
    <2>6. Len(trail) \in {0, 1}
        BY <2>3
    <2>7. /\ stage' # "open"
          /\ stage' = "failed" => /\ error'.source # "Routing"
                                /\ error'.variant = "Connect"
        BY <2>5
    <2>8. CASE Len(trail) = 0
        <3>1. Len(trail') = 1 /\ trail'[1] = dialed /\ dialed.host = config.host
            BY <2>2, <2>3, <2>8
        <3>2. \A i \in 1..Len(trail') : trail'[i].login = config'.login
            BY <2>3, <2>4, <3>1
        <3> QED
            BY <2>3, <2>4, <2>7, <3>1, <3>2 DEF C!ConnectsAsConfigured
    <2>9. CASE Len(trail) = 1
        <3>1. Len(trail') = 2 /\ trail'[1] = trail[1] /\ trail'[2] = dialed
            BY <2>2, <2>9
        <3>2. dialed.host = routed[1]
            BY <2>3, <2>9
        <3>3. trail # <<>>
            BY <2>9
        <3>4. trail[1].host = config.host
            BY <3>3 DEF C!ConnectsAsConfigured
        <3>5. trail[1].login = config.login
            BY <2>9 DEF C!ConnectsAsConfigured
        <3>6. \A i \in 1..Len(trail') : trail'[i].login = config'.login
            BY <2>3, <2>4, <3>1, <3>5
        <3> QED
            BY <2>3, <2>4, <2>7, <3>1, <3>2, <3>4, <3>6 DEF C!ConnectsAsConfigured
    <2> QED
        BY <2>6, <2>8, <2>9
<1>4. CASE C!LogIn
    <2>1. \/ stage' = "open"
          \/ /\ stage' = "failed"
             /\ error'.source # "Routing" /\ error'.variant = "Connect"
        BY <1>4, FailTyped DEF C!LogIn
    <2>2. config.valid /\ Len(trail) = Len(routed) + 1
        BY <1>4 DEF C!LogIn, OpenProgress
    <2> QED
        BY <1>4, <2>1, <2>2 DEF C!LogIn, C!ConnectsAsConfigured
<1>5. CASE C!Redirect
    <2>1. PICK s \in Servers : routed' = Append(routed, s)
        BY <1>5 DEF C!Redirect
    <2>2. Len(trail) = Len(routed) + 1 /\ config.valid /\ UNCHANGED <<config, trail>>
        BY <1>5 DEF C!Redirect, OpenProgress
    <2>3. Len(routed) > 0 => routed'[1] = routed[1]
        BY <2>1 DEF C!TypeOK
    <2>4. \/ stage' = "dialing"
          \/ /\ stage' = "failed" /\ redirected
             /\ error'.source = "Routing" /\ error'.variant = "Connect"
        BY <1>5, FailTyped DEF C!Redirect, C!DriverErrors
    <2>5. redirected => Len(routed) = 1
        BY <1>5 DEF C!Redirect, OpenProgress
    <2>6. Len(trail) = 2 => Len(routed) > 0
        <3>1. Len(routed) \in Nat
            BY DEF C!TypeOK
        <3> QED
            BY <2>2, <3>1
    <2>7. CASE stage' = "dialing"
        BY <2>2, <2>3, <2>6, <2>7 DEF C!ConnectsAsConfigured
    <2>8. CASE /\ stage' = "failed" /\ redirected
               /\ error'.source = "Routing" /\ error'.variant = "Connect"
        <3>1. Len(routed) = 1
            BY <2>5, <2>8
        <3>2. Len(trail) = 2 /\ Len(routed') = 2 /\ routed'[1] = routed[1]
            BY <2>1, <2>2, <2>3, <3>1 DEF C!TypeOK
        <3> QED
            BY <2>2, <2>8, <3>2 DEF C!ConnectsAsConfigured
    <2> QED
        BY <2>4, <2>7, <2>8
<1>6. CASE C!Expire
    <2>1. stage' = "failed" /\ error'.source = "TimedOut" /\ error'.variant = "Connect"
        BY <1>6, FailTyped DEF C!Expire, C!DriverErrors, C!IoKinds
    <2>2. config.valid
        BY <1>6 DEF C!Expire, C!Opening, OpenProgress
    <2> QED
        BY <1>6, <2>1, <2>2 DEF C!Expire, C!ConnectsAsConfigured
<1>7. CASE C!Leave
    BY <1>7 DEF C!Leave, C!ConnectsAsConfigured
<1>8. CASE C!Spawn
    BY <1>8 DEF C!Spawn, C!ConnectsAsConfigured
<1>9. CASE UNCHANGED C!vars
    BY <1>9 DEF C!vars, C!ConnectsAsConfigured
<1> QED
    BY <1>1, <1>2, <1>3, <1>4, <1>5, <1>6, <1>7, <1>8, <1>9 DEF C!Next, C!Open

-----------------------------------------------------------------------------

\* The invariant: every connect, whatever servers and callers do.
THEOREM ConnectingInvariance ==
    ASSUME Localhost \in Servers
    PROVE  C!Spec => []ConnectingInv
<1>1. C!Init => ConnectingInv
    BY ConnectingInit
<1>2. ConnectingInv /\ [C!Next]_C!vars => ConnectingInv'
    BY ConnectingNextTyped, ConnectingNextProgress, ConnectingNextConnects DEF ConnectingInv
<1> QED
    BY <1>1, <1>2, PTL DEF C!Spec

\* Every variable of Connecting keeps its type.
THEOREM ConnectingTyped ==
    ASSUME Localhost \in Servers
    PROVE  C!Spec => []C!TypeOK
BY ConnectingInvariance, PTL DEF ConnectingInv

\* Client::connect connects to the server its Config names, or the one that
\* redirects to, and to no third, with the login configured; and a redirect
\* fails it only as the second one.
THEOREM ConnectsAsConfiguredHolds ==
    ASSUME Localhost \in Servers
    PROVE  C!Spec => []C!ConnectsAsConfigured
BY ConnectingInvariance, PTL DEF ConnectingInv

-----------------------------------------------------------------------------
(* Connecting in a session.                                                *)

\* A step of a session is one of Connecting, or leaves it alone, or is the
\* blocking client's refusal to connect.
LEMMA SessionStep ==
    ASSUME [SessionNext]_sessionVars
    PROVE  [C!Next]_C!vars \/ Refuse
<1>1. CASE ConnectingNext
    BY <1>1 DEF ConnectingNext, Configure, Connect, Open, Expire, Leave, Spawn, C!Next
<1>2. CASE UNCHANGED connectingVars
    BY <1>2 DEF connectingVars, C!vars
<1> QED
    BY <1>1, <1>2 DEF SessionNext, CallerStep, Usable, Connected, Move, TaskStep, ServerStep,
        DropRuntime, RuntimeDropsTask, DropInner, SessionOver, sessionVars

LEMMA RefuseInv ==
    ASSUME ConnectingInv, Refuse
    PROVE  ConnectingInv'
BY DEF Refuse, C!Fail, C!Plain, ConnectingInv, C!TypeOK, C!ConnectsAsConfigured, OpenProgress

\* The invariant of Connecting is one of a session's.
THEOREM SessionConnectingInvariance ==
    ASSUME Localhost \in Servers
    PROVE  SessionSpec => []ConnectingInv
<1>1. SessionInit => ConnectingInv
    BY ConnectingInit DEF SessionInit
<1>2. ConnectingInv /\ [SessionNext]_sessionVars => ConnectingInv'
    BY SessionStep, RefuseInv, ConnectingNextTyped, ConnectingNextProgress, ConnectingNextConnects
       DEF ConnectingInv
<1> QED
    BY <1>1, <1>2, PTL DEF SessionSpec

\* A session's connection is to the server its Config names, or to the one
\* that redirects to, whichever client it is connected by.
THEOREM SessionConnectsAsConfigured ==
    ASSUME Localhost \in Servers
    PROVE  SessionSpec => []ConnectsAsConfigured
<1>1. ConnectingInv => ConnectsAsConfigured
    BY DEF ConnectingInv, ConnectsAsConfigured
<1> QED
    BY <1>1, SessionConnectingInvariance, PTL

-----------------------------------------------------------------------------
(* The connection in a session.                                            *)

\* What a session does to its connection is a step of Connection, but for a
\* transaction an Executor opens, and the client's drop from under a runtime.
LEMMA ConnectionStep ==
    ASSUME [SessionNext]_sessionVars
    PROVE  [Next]_vars \/ ExecutorTransaction \/ ClientGoes
<1>1. CASE ConnectingNext \/ Move \/ DropRuntime \/ SessionOver \/ UNCHANGED sessionVars
  BY <1>1 DEF ConnectingNext, Configure, Refuse, Connect, Open, Expire, Leave, Spawn, Unconnected,
     Move, DropRuntime, SessionOver, sessionVars
<1>2. CASE CallerStep
  BY <1>2 DEF CallerStep, Calls, Executor, Next, CallerNext
<1>3. CASE TaskStep \/ ServerStep \/ RuntimeDropsTask
  BY <1>3 DEF TaskStep, ServerStep, RuntimeDropsTask, Next
<1>4. CASE DropInner
  BY <1>4 DEF DropInner, ClientGoes
<1>5. QED
  BY <1>1, <1>2, <1>3, <1>4 DEF SessionNext

\* A name made up for a savepoint is the number of its request, so that no
\* request before it has that name.
MadeUpNames == \A i \in Sent : NameOf(i) \in Nat => NameOf(i) <= i

LEMMA MadeUpNamesSend ==
    ASSUME TypeOK, MadeUpNames, NEW kind \in Kinds, NEW isolation \in Isolations,
           NEW name \in Nat \cup UserNames, Send(kind, isolation, name),
           kind = "RollbackTo" => handles # <<>>,
           name \in Nat => name <= Len(requests) + 1
    PROVE  MadeUpNames'
<1>1. Len(requests) \in Nat
  BY SentIsNat
<1>2. /\ Len(requests') = Len(requests) + 1
      /\ requests'[Len(requests) + 1].name = name
      /\ \A i \in Sent : requests'[i] = requests[i]
  <2>1. requests'[Len(requests) + 1] =
            [kind |-> kind, tx |-> Root, isolation |-> isolation, name |-> name,
             undoes |-> IF kind = "RollbackTo" THEN Top ELSE 0]
    BY SendProperties
  <2>2. requests'[Len(requests) + 1].name = name
    BY <2>1
  <2>3. QED
    BY <2>2, SendProperties
<1>3. ASSUME NEW i \in Sent' PROVE (NameOf(i) \in Nat => NameOf(i) <= i)'
  <2>1. i \in Sent \/ i = Len(requests) + 1
    BY <1>1, <1>2 DEF Sent
  <2>2. CASE i \in Sent
    BY <1>2, <2>2 DEF MadeUpNames, NameOf
  <2>3. CASE i = Len(requests) + 1
    BY <1>2, <2>3 DEF NameOf
  <2>4. QED
    BY <2>1, <2>2, <2>3
<1>4. QED
  BY <1>3 DEF MadeUpNames

LEMMA MadeUpNamesStep ==
    ASSUME TypeOK, MadeUpNames, [Next]_vars \/ ExecutorTransaction \/ ClientGoes
    PROVE  MadeUpNames'
<1> USE DEF Kinds, Isolations
<1>1. Len(requests) \in Nat /\ 0 <= Len(requests) + 1
  BY SentIsNat
<1>2. CASE requests' = requests
  BY <1>2 DEF MadeUpNames, NameOf, Sent
<1>3. CASE CallStatement
  <2>1. Send("Statement", "rc", 0)
    BY <1>3 DEF CallStatement, Start, Call
  <2>2. QED
    BY <1>1, <2>1, MadeUpNamesSend
<1>4. CASE AnyBegin
  <2>1. PICK l \in Isolations : Send("Begin", l, 0)
    BY <1>4 DEF AnyBegin, Start, Call
  <2>2. QED
    BY <1>1, <2>1, MadeUpNamesSend
<1>5. CASE CallSavepoint
  <2>1. PICK n \in UserNames \cup {Len(requests) + 1} : Send("Savepoint", "rc", n)
    BY <1>5 DEF CallSavepoint, Start, Call
  <2>2. n \in Nat => n = Len(requests) + 1
    BY UserNamesAssumption
  <2>3. n \in Nat \cup UserNames /\ (n \in Nat => n <= Len(requests) + 1)
    BY <1>1, <2>2
  <2>4. QED
    BY <2>1, <2>3, MadeUpNamesSend
<1>6. CASE CommitRoot
  <2>1. Send("Commit", "rc", 0)
    BY <1>6 DEF CommitRoot, Call
  <2>2. QED
    BY <1>1, <2>1, MadeUpNamesSend
<1>7. CASE Rollback \/ Drop
  <2>1. handles # <<>> /\ Send(UndoKind, "rc", UndoName)
    BY <1>7 DEF Rollback, Drop, Call
  <2>2. UndoKind \in Kinds /\ UndoName \in Nat \cup UserNames
    BY <2>1, UndoTypes DEF UndoKind
  <2>3. UndoName \in Nat => UndoName <= Len(requests) + 1
    <3>1. Top \in Sent
      BY <2>1, HandleBasics DEF Top, Sent
    <3>2. NameOf(Top) \in Nat => NameOf(Top) <= Top
      BY <3>1 DEF MadeUpNames
    <3>3. Top \in Nat /\ Top <= Len(requests)
      BY <1>1, <3>1 DEF Sent
    <3>4. NameOf(Top) \in Nat => NameOf(Top) <= Len(requests) + 1
      BY <1>1, <3>2, <3>3
    <3>5. QED
      BY <1>1, <3>4 DEF UndoName
  <2>4. QED
    BY <2>1, <2>2, <2>3, MadeUpNamesSend
<1>8. CASE ExecutorTransaction
  <2>1. PICK kind \in {"Begin", "Savepoint"}, name \in {0, Len(requests) + 1} : Send(kind, "rc", name)
    BY <1>8 DEF ExecutorTransaction, Start, Call
  <2>2. name \in Nat /\ name <= Len(requests) + 1
    BY <1>1
  <2>3. QED
    BY <2>1, <2>2, MadeUpNamesSend
<1>9. CASE ClientGoes
  BY <1>2, <1>9 DEF ClientGoes, channelVars
<1>10. ASSUME [Next]_vars, ~Sends PROVE requests' = requests
  BY <1>10, AreAny
     DEF Sends, Next, CallerNext, TaskNext, ServerNext, CommitSavepoint, ConsumeClosed, GiveUp,
         Return, Close, Skip, Receive, ReceiveAborted, Dispatch, Reply, ReplyBegin, ReplyEnd,
         ReplyLost, UndoBegin, RestoreIsolation, CleanupFails, Shutdown, ServeStatement,
         ServeControl, CancelStops, Running, CancelFails, Lose, LoseMasked, DropTask, Stopped, vars,
         channelVars
<1>11. QED
  BY <1>2, <1>3, <1>4, <1>5, <1>6, <1>7, <1>8, <1>9, <1>10 DEF Sends

\* The name made up next is that of no handle.
LEMMA NameUnused ==
    ASSUME TypeOK, MadeUpNames
    PROVE  \A k \in 2..Len(handles) : NameOf(handles[k]) # Len(requests) + 1
<1> DEFINE n == Len(requests) + 1
<1>1. n \in Nat /\ Len(requests) \in Nat /\ Len(handles) \in Nat
  BY SentIsNat, HandleBasics
<1>2. ASSUME NEW k \in 2..Len(handles) PROVE NameOf(handles[k]) # n
  <2>1. handles[k] \in Sent
    BY <1>1, HandleBasics DEF Sent
  <2>2. handles[k] < n /\ handles[k] \in Nat
    BY <1>1, <2>1 DEF Sent
  <2>3. NameOf(handles[k]) \in Nat => NameOf(handles[k]) <= handles[k]
    BY <2>1 DEF MadeUpNames
  <2> HIDE DEF n
  <2>4. QED
    BY <1>1, <2>2, <2>3
<1>3. QED
  BY <1>2

\* An Executor opens a root transaction at the level "rc", and its name for a
\* savepoint shadows none.
LEMMA ExecutorIsAny ==
    ASSUME TypeOK, MadeUpNames, ExecutorTransaction
    PROVE  AnyBegin \/ CallSavepoint
<1> DEFINE n == Len(requests) + 1
<1>1. ~\E k \in 2..Len(handles) : NameOf(handles[k]) = n
  BY NameUnused
<1>2. CASE handles = <<>> /\ Start("Begin", "rc", 0) /\ UNCHANGED <<handles, ledgerVars>>
  BY <1>2 DEF AnyBegin, Isolations
<1>3. CASE handles # <<>> /\ Start("Savepoint", "rc", n) /\ UNCHANGED <<handles, ledgerVars>>
  <2>1. shadowed \in BOOLEAN
    BY DEF TypeOK
  <2>2. shadowed' = (shadowed \/ \E k \in 2..Len(handles) : NameOf(handles[k]) = n)
    BY <1>1, <1>3, <2>1 DEF ledgerVars
  <2>3. n \in UserNames \cup {Len(requests) + 1}
    OBVIOUS
  <2> HIDE DEF n
  <2>4. QED
    BY <1>3, <2>2, <2>3 DEF CallSavepoint, ledgerVars
<1>4. QED
  BY <1>2, <1>3 DEF ExecutorTransaction

LEMMA SessionIsAny ==
    ASSUME TypeOK, MadeUpNames, [SessionNext]_sessionVars
    PROVE  [AnyNext]_vars /\ MadeUpNames'
<1>1. [Next]_vars \/ ExecutorTransaction \/ ClientGoes
  BY ConnectionStep
<1>2. ExecutorTransaction => AnyBegin \/ CallSavepoint
  BY ExecutorIsAny
<1>3. [AnyNext]_vars
  BY <1>1, <1>2 DEF AnyNext, Next, CallerNext
<1>4. QED
  BY <1>1, <1>3, MadeUpNamesStep

\* In a session, under either client and with helpers that take any Executor,
\* every step of the connection is one that Connection's invariant allows.
THEOREM SessionSteps == SessionSpec => [](TypeOK /\ MadeUpNames) /\ [][AnyNext]_vars
<1>1. SessionInit => TypeOK /\ MadeUpNames
  <2>1. SessionInit => TypeOK
    BY TypeInit DEF SessionInit
  <2>2. ASSUME SessionInit PROVE Sent = {}
    <3>1. Len(requests) = 0
      BY <2>2, EmptySeq DEF SessionInit, Init
    <3>2. QED
      BY <3>1 DEF Sent
  <2>3. QED
    BY <2>1, <2>2 DEF MadeUpNames
<1>2. TypeOK /\ MadeUpNames /\ [SessionNext]_sessionVars => TypeOK' /\ MadeUpNames'
  BY SessionIsAny, TypeStep
<1>3. TypeOK /\ MadeUpNames /\ [SessionNext]_sessionVars => [AnyNext]_vars
  BY SessionIsAny
<1>4. QED
  BY <1>1, <1>2, <1>3, PTL DEF SessionSpec

\* Everything proved of the task, the session and the handles agreeing holds
\* in a session too, and so does all of the invariant about work.
THEOREM SessionInvariance == SessionSpec => []IInv
<1>1. SessionInit => IInv
  BY InvInit, WorkInit DEF IInv, SessionInit
<1>2. QED
  BY <1>1, SessionSteps, InvariantStep, PTL DEF SessionSpec

\* Whichever client it is used by, directly or through any Executor, work that
\* was given up never becomes permanent, unless a savepoint shadows another.
THEOREM SessionDiscardedNeverDurable == SessionSpec => []DiscardedNeverDurable
<1>1. IInv => DiscardedNeverDurable
  BY DEF IInv, WorkInv
<1>2. QED
  BY <1>1, SessionInvariance, PTL

\* Whichever client it is used by, what the caller was told is permanent is,
\* unless an answered begin was dropped unread.
THEOREM SessionKeptIsDurable == SessionSpec => []KeptIsDurable
<1>1. IInv => KeptIsDurable
  BY DEF IInv, WorkInv
<1>2. QED
  BY <1>1, SessionInvariance, PTL

\* Whichever client it is used by, every statement runs at the level of its
\* transaction, an Executor's at READ COMMITTED.
THEOREM SessionRunsAtItsLevel == SessionSpec => []RunsAtItsLevel
<1>1. TypeOK /\ IInv => RunsAtItsLevel
  BY DEF IInv, WorkInv, LevelShape, LevelOf, Tx, IsBegin, RunsAtItsLevel, Current
<1>2. QED
  BY <1>1, SessionInvariance, SessionSteps, PTL

\* Whichever client it is used by, no step of anybody makes a statement
\* permanent but a statement outside a transaction as it runs, and the commit
\* of the transaction it was made in.
THEOREM SessionCommitsOnlyWhenAsked == SessionSpec => CommitsOnlyWhenAsked
<1>1. IInv => AgreeInv
  BY DEF IInv
<1>2. QED
  BY <1>1, CommitsStep, SessionSteps, SessionInvariance, PTL DEF CommitsOnlyWhenAsked

\* A whole session implements the ledger: whatever becomes of the client and
\* of the runtime, statements are done in the order asked for, alone or all or
\* nothing in a transaction, and what the caller was told stays true, until
\* one of the two known gaps is hit.
THEOREM SessionLedger == SessionSpec => ImplementsLedger
<1>1. SessionInit => L!Init
  BY DEF SessionInit, Init, L!Init
<1>2. QED
  BY <1>1, LedgerStep, SessionSteps, SessionInvariance, PTL DEF SessionSpec, ImplementsLedger, L!Spec

-----------------------------------------------------------------------------
(* The client and its runtime.                                             *)

\* Before there is a connection nothing happens on it, and no runtime exists
\* but a blocking client's.
RuntimeInv ==
    /\ blocking \in BOOLEAN
    /\ context \in Contexts
    /\ runtime \in {"none", "running", "waiting", "background", "gone"}
    /\ stage # "connected" => Init
    /\ runtime # "none" <=> blocking /\ stage = "connected"

LEMMA RuntimeStep ==
    ASSUME RuntimeInv, [SessionNext]_sessionVars
    PROVE  RuntimeInv'
<1>1. ASSUME stage # "connected", UNCHANGED vars PROVE Init'
  BY <1>1 DEF RuntimeInv, Init, vars, callerVars, channelVars, taskVars, serverVars, ledgerVars
<1>2. CASE Spawn
  BY <1>2 DEF Spawn, Unconnected, C!Spawn, RuntimeInv
<1>3. CASE Configure \/ Refuse \/ Connect \/ Open \/ Expire \/ Leave
  <2>1. stage # "connected" /\ stage' # "connected"
    BY <1>3 DEF Configure, Refuse, Connect, Open, Expire, Leave, C!Configure, C!Set,
       C!BeginConnect, C!Fail, C!Open, C!Dial, C!LogIn, C!Redirect, C!Expire, C!Opening,
       C!FailOpen, C!Leave
  <2>2. UNCHANGED vars /\ UNCHANGED <<blocking, context, runtime>>
    BY <1>3 DEF Configure, Refuse, Connect, Open, Expire, Leave, Unconnected
  <2>3. QED
    BY <1>1, <2>1, <2>2 DEF RuntimeInv
<1>4. ASSUME Connected
      PROVE  stage = "connected" /\ stage' = stage /\ blocking' = blocking
  BY <1>4 DEF Connected, connectingVars
<1>5. CASE CallerStep \/ TaskStep \/ ServerStep \/ RuntimeDropsTask
  <2>1. Connected /\ UNCHANGED <<context, runtime>>
    BY <1>5 DEF CallerStep, Usable, TaskStep, ServerStep, RuntimeDropsTask
  <2>2. QED
    BY <1>4, <2>1 DEF RuntimeInv
<1>6. CASE Move
  <2>1. Connected /\ context' \in Contexts /\ UNCHANGED runtime
    BY <1>6 DEF Move
  <2>2. QED
    BY <1>4, <2>1 DEF RuntimeInv
<1>7. CASE DropRuntime \/ DropInner
  <2>1. /\ Connected /\ UNCHANGED context /\ runtime # "none"
        /\ runtime' \in {"waiting", "background", "gone"}
    BY <1>7 DEF DropRuntime, DropInner
  <2>2. QED
    BY <1>4, <2>1 DEF RuntimeInv
<1>8. CASE SessionOver \/ UNCHANGED sessionVars
  <2>1. UNCHANGED vars /\ UNCHANGED <<stage, blocking, context, runtime>>
    BY <1>8 DEF SessionOver, sessionVars, connectingVars
  <2>2. QED
    BY <1>1, <2>1 DEF RuntimeInv
<1>9. QED
  BY <1>2, <1>3, <1>5, <1>6, <1>7, <1>8 DEF SessionNext, ConnectingNext

\* Every variable of a session keeps its type, nothing happens on a connection
\* before there is one, and a blocking client has its runtime from then on.
THEOREM SessionTyped ==
    ASSUME Localhost \in Servers
    PROVE  SessionSpec => []SessionTypeOK
<1>1. SessionInit => RuntimeInv
  BY DEF SessionInit, RuntimeInv, C!Init, Contexts
<1>2. RuntimeInv /\ [SessionNext]_sessionVars => RuntimeInv'
  BY RuntimeStep
<1>3. ConnectingInv /\ TypeOK /\ RuntimeInv => SessionTypeOK
  BY DEF ConnectingInv, RuntimeInv, SessionTypeOK
<1>4. QED
  BY <1>1, <1>2, <1>3, SessionConnectingInvariance, SessionSteps, PTL DEF SessionSpec

-----------------------------------------------------------------------------
(* What the blocking client promises.                                      *)

\* It waits out every begin, so none is ever answered and left unread.
NeverOrphaned == blocking => ~orphaned

LEMMA NeverOrphanedStep ==
    ASSUME NeverOrphaned, [SessionNext]_sessionVars
    PROVE  NeverOrphaned'
<1>1. blocking' = blocking
  BY DEF SessionNext, ConnectingNext, Configure, Refuse, Connect, Open, Expire, Leave, Spawn,
     Unconnected, CallerStep, Usable, Connected, Move, TaskStep, ServerStep, DropRuntime,
     RuntimeDropsTask, DropInner, SessionOver, sessionVars
<1>2. CASE UNCHANGED orphaned
  BY <1>1, <1>2 DEF NeverOrphaned
<1>3. CASE Abandonable /\ GiveUp
  BY <1>1, <1>3 DEF Abandonable, GiveUp, NeverOrphaned
<1>4. ASSUME Calls \/ Drop \/ ConsumeClosed \/ Return \/ Close
      PROVE  NeverOrphaned'
  <2>1. CASE Executor \/ CallBegin \/ CommitRoot \/ CommitSavepoint \/ Close
    BY <1>2, <2>1 DEF Executor, ExecutorTransaction, CallStatement, CallBegin, CommitRoot,
       CommitSavepoint, Close, ledgerVars
  <2>2. CASE CallSavepoint \/ Rollback \/ Drop \/ ConsumeClosed \/ Return
    BY <1>2, <2>2 DEF CallSavepoint, Rollback, Drop, ConsumeClosed, Discard, Return
  <2>3. QED
    BY <1>4, <2>1, <2>2 DEF Calls
<1>5. CASE TaskStep \/ ServerStep \/ RuntimeDropsTask
  <2>1. UNCHANGED ledgerVars
    BY <1>5 DEF TaskStep, ServerStep, RuntimeDropsTask, TaskNext, ServerNext, DropTask,
       Skip, Receive, ReceiveAborted, Dispatch, Reply, ReplyBegin, ReplyEnd, ReplyLost,
       UndoBegin, RestoreIsolation, CleanupFails, Shutdown, ServeStatement, ServeControl,
       Running, CancelStops, CancelFails, Lose, LoseMasked
  <2>2. QED
    BY <1>2, <2>1 DEF ledgerVars
<1>6. CASE ConnectingNext \/ Move \/ DropRuntime \/ SessionOver \/ UNCHANGED sessionVars
  <2>1. UNCHANGED vars
    BY <1>6 DEF ConnectingNext, Configure, Refuse, Connect, Open, Expire, Leave, Spawn,
       Unconnected, Move, DropRuntime, SessionOver, sessionVars
  <2>2. QED
    BY <1>2, <2>1 DEF vars, ledgerVars
<1>7. CASE DropInner
  BY <1>2, <1>7 DEF DropInner, ledgerVars
<1>8. QED
  BY <1>3, <1>4, <1>5, <1>6, <1>7 DEF SessionNext, CallerStep

\* What the async client promises only while no begin is orphaned, the
\* blocking one always does: with no handle left and nothing queued, no
\* transaction is open.
THEOREM BlockingLeavesNothingOpenHolds == SessionSpec => []BlockingLeavesNothingOpen
<1>1. SessionInit => NeverOrphaned
  BY DEF SessionInit, Init, NeverOrphaned
<1>2. NeverOrphaned /\ [SessionNext]_sessionVars => NeverOrphaned'
  BY NeverOrphanedStep
<1>3. TypeOK /\ AgreeInv /\ NeverOrphaned => BlockingLeavesNothingOpen
  <2> SUFFICES ASSUME TypeOK, AgreeInv, NeverOrphaned, blocking, Quiet, handles = <<>>
               PROVE  txState = "None" /\ trancount = 0
    BY DEF BlockingLeavesNothingOpen
  <2>1. (txState = "None") /\ ((txState = "Open") <=> (trancount > 0))
    BY AgreeGivesStates DEF StatesAgree, NeverOrphaned
  <2>2. trancount \in Nat
    BY DEF TypeOK
  <2>3. QED
    BY <2>1, <2>2
<1>4. IInv => AgreeInv
  BY DEF IInv
<1>5. QED
  BY <1>1, <1>2, <1>3, <1>4, SessionSteps, SessionInvariance, PTL DEF SessionSpec

\* With a blocking client everything the caller was told is permanent is so,
\* without exception: the begin that is answered and not read needs a call that
\* can be left, and a blocking call cannot.
THEOREM BlockingKeepsWhatItSaid == SessionSpec => [](blocking => kept \subseteq durable)
<1>1. SessionInit => NeverOrphaned
  BY DEF SessionInit, Init, NeverOrphaned
<1>2. NeverOrphaned /\ [SessionNext]_sessionVars => NeverOrphaned'
  BY NeverOrphanedStep
<1>3. KeptIsDurable /\ NeverOrphaned => (blocking => kept \subseteq durable)
  BY DEF KeptIsDurable, NeverOrphaned
<1>4. QED
  BY <1>1, <1>2, <1>3, SessionKeptIsDurable, PTL DEF SessionSpec

-----------------------------------------------------------------------------
(* What a program is promised that gives its savepoints no names.          *)

\* One savepoint shadows another only if the program named it.
LEMMA NeverShadowedStep ==
    ASSUME UserNames = {}, TypeOK, MadeUpNames, ~shadowed, [AnyNext]_vars
    PROVE  ~shadowed'
<1>1. CASE CallSavepoint
  <2>1. shadowed' = (shadowed \/ \E k \in 2..Len(handles) : NameOf(handles[k]) = Len(requests) + 1)
    BY <1>1 DEF CallSavepoint
  <2>2. QED
    BY <2>1, NameUnused
<1>2. ASSUME ~CallSavepoint PROVE shadowed' = shadowed
  BY <1>2, AreAny
     DEF AnyNext, Next, CallerNext, TaskNext, ServerNext, CallStatement, AnyBegin, ClientGoes,
         CommitRoot, CommitSavepoint, Rollback, Drop, ConsumeClosed, Discard, GiveUp, Return, Skip,
         Receive, ReceiveAborted, Dispatch, Reply, ReplyBegin, ReplyEnd, ReplyLost, UndoBegin,
         RestoreIsolation, CleanupFails, Shutdown, ServeStatement, ServeControl, Running,
         CancelStops, CancelFails, Lose, LoseMasked, DropTask, Stopped, vars, ledgerVars
<1>3. QED
  BY <1>1, <1>2

\* As the documentation says, rolling a nested transaction back undoes its own
\* work, and so does every other way to give work up: in a program that opens
\* them by Transaction::transaction or through an Executor and gives none of
\* them a name.  What connection_shadow shows needs Transaction::savepoint.
THEOREM UnnamedRollbackUndoesItsWork ==
    ASSUME UserNames = {}
    PROVE  SessionSpec => []RollbackUndoesItsWork
<1>1. SessionInit => ~shadowed
  BY DEF SessionInit, Init
<1>2. TypeOK /\ MadeUpNames /\ ~shadowed /\ [AnyNext]_vars => ~shadowed'
  BY NeverShadowedStep
<1>3. DiscardedNeverDurable /\ ~shadowed => RollbackUndoesItsWork
  BY DEF DiscardedNeverDurable, RollbackUndoesItsWork
<1>4. QED
  BY <1>1, <1>2, <1>3, SessionSteps, SessionDiscardedNeverDurable, PTL DEF SessionSpec

=============================================================================
