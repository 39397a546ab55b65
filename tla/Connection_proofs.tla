------------------------- MODULE Connection_proofs --------------------------
(***************************************************************************)
(* Theorems about Connection, for every bound on requests, every set of    *)
(* levels and every set of savepoint names.  First types; then AgreeInv,   *)
(* that the caller, the task and the session agree about the transaction;  *)
(* then the rest of the inductive invariant, about the caller's handles    *)
(* and about work, and that a connection is a Ledger.                      *)
(***************************************************************************)
EXTENDS ConnectionInvariant, SequenceTheorems, WellFoundedInduction, TLAPS

-----------------------------------------------------------------------------
(* Types.                                                                  *)

LEMMA SentIsNat ==
    ASSUME TypeOK
    PROVE  /\ Len(requests) \in Nat
           /\ Sent \subseteq Nat \ {0}
           /\ \A i \in Sent : requests[i] \in Request
BY DEF TypeOK, Sent

\* Sending appends one request of the caller's transaction.
LEMMA SendProperties ==
    ASSUME TypeOK, NEW kind \in Kinds, NEW isolation \in Isolations,
           NEW name \in Nat \cup UserNames, Send(kind, isolation, name),
           kind = "RollbackTo" => handles # <<>>
    PROVE  /\ requests' \in Seq(Request)
           /\ Len(requests') = Len(requests) + 1
           /\ Sent' = Sent \cup {Len(requests) + 1}
           /\ \A i \in Sent : requests'[i] = requests[i]
           /\ requests'[Len(requests) + 1] =
                  [kind |-> kind, tx |-> Root, isolation |-> isolation, name |-> name,
                   undoes |-> IF kind = "RollbackTo" THEN Top ELSE 0]
<1> DEFINE u == IF kind = "RollbackTo" THEN Top ELSE 0
           r == [kind |-> kind, tx |-> Root, isolation |-> isolation, name |-> name,
                 undoes |-> u]
<1>1. Root \in Nat
  BY SentIsNat DEF Root, TypeOK
<1>2. r \in Request
  <2>1. u \in Nat
    <3>1. CASE kind = "RollbackTo"
      <4>1. handles # <<>> /\ handles \in Seq(Sent)
        BY <3>1 DEF TypeOK
      <4>2. Len(handles) \in 1..Len(handles)
        BY <4>1
      <4>3. Top \in Sent
        BY <4>1, <4>2 DEF Top
      <4>4. QED
        BY <3>1, <4>3, SentIsNat
    <3>2. QED
      BY <3>1
  <2> HIDE DEF u
  <2>2. QED
    BY <1>1, <2>1 DEF Request
<1>3. requests \in Seq(Request) /\ requests' = Append(requests, r)
  BY DEF TypeOK, Send
<1>4. QED
  BY <1>2, <1>3 DEF Sent

\* Taking the innermost handle off leaves the others.
LEMMA PopProperties ==
    ASSUME TypeOK, handles # <<>>, Pop
    PROVE  /\ handles' \in Seq(Sent)
           /\ Len(handles') = Len(handles) - 1
           /\ handles' # <<>> => handles'[1] = handles[1]
<1>1. handles \in Seq(Sent) /\ Len(handles) \in Nat /\ Len(handles) >= 1
  BY DEF TypeOK
<1>2. handles' = SubSeq(handles, 1, Len(handles) - 1)
  BY DEF Pop
<1> DEFINE n == Len(handles) - 1
<1>3. n \in Nat /\ \A i \in 1..n : handles[i] \in Sent
  BY <1>1
<1>4. handles' = SubSeq(handles, 1, n)
  BY <1>2
<1> HIDE DEF n
<1>5. /\ handles' \in Seq(Sent)
      /\ Len(handles') = IF 1 <= n THEN n-1+1 ELSE 0
      /\ \A i \in 1..(n-1+1) : handles'[i] = handles[1+i-1]
  BY <1>3, <1>4, SubSeqProperties, SMT
<1>6. Len(handles') = n
  BY <1>3, <1>5
<1>7. handles' # <<>> => n >= 1
  BY <1>3, <1>5, <1>6
<1>8. handles' # <<>> => handles'[1] = handles[1]
  BY <1>3, <1>5, <1>7
<1>9. QED
  BY <1>5, <1>6, <1>8 DEF n

\* What ends the innermost handle is a request.
LEMMA UndoTypes ==
    ASSUME TypeOK, handles # <<>>
    PROVE  UndoKind \in Kinds /\ UndoName \in Nat \cup UserNames /\ Top \in Sent
<1>1. handles \in Seq(Sent) /\ Len(handles) \in 1..Len(handles)
  BY DEF TypeOK
<1>2. Top \in Sent
  BY <1>1 DEF Top
<1>3. requests[Top] \in Request
  BY <1>2, SentIsNat
<1>4. QED
  BY <1>2, <1>3 DEF UndoKind, UndoName, NameOf, Request, Kinds

LEMMA SeqGrows ==
    ASSUME NEW S, NEW T, S \subseteq T, NEW s \in Seq(S)
    PROVE  s \in Seq(T)
OBVIOUS

\* What sending does to the types: the new request is one more of them.
LEMMA SendTypes ==
    ASSUME TypeOK, NEW kind \in Kinds, NEW isolation \in Isolations,
           NEW name \in Nat \cup UserNames, Send(kind, isolation, name),
           kind = "RollbackTo" => handles # <<>>
    PROVE  /\ requests' \in Seq(Request)
           /\ Sent \subseteq Sent'
           /\ Len(requests) + 1 \in Sent'
           /\ handles \in Seq(Sent')
BY SendProperties, SeqGrows DEF TypeOK

\* A call sends one request and waits for it.
LEMMA CallTypes ==
    ASSUME TypeOK, NEW kind \in Kinds, NEW isolation \in Isolations,
           NEW name \in Nat \cup UserNames, Call(kind, isolation, name),
           kind = "RollbackTo" => handles # <<>>,
           handles' \in Seq(Sent'), acked' \subseteq Nat, kept' \subseteq Nat,
           discarded' \subseteq Nat, orphaned' \in BOOLEAN, shadowed' \in BOOLEAN
    PROVE  TypeOK'
<1>1. Send(kind, isolation, name)
  BY DEF Call
<1>2. requests' \in Seq(Request) /\ Sent \subseteq Sent' /\ Len(requests) + 1 \in Sent'
  BY <1>1, SendTypes
<1>3. QED
  BY <1>2 DEF Call, TypeOK, taskVars, serverVars

LEMMA TypeInit == Init => TypeOK
<1> SUFFICES ASSUME Init PROVE TypeOK
  OBVIOUS
<1>1. requests \in Seq(Request) /\ handles \in Seq(Sent)
  BY EmptySeq DEF Init
<1>2. QED
  BY <1>1 DEF Init, TypeOK, Answers

\* What is proved holds whatever levels transactions are begun at -- Levels
\* has those a run looks at -- and whenever the client goes.
AnyBegin ==
    /\ handles = <<>>
    /\ \E l \in Isolations : Start("Begin", l, 0)
    /\ UNCHANGED <<handles, ledgerVars>>

ClientGoes ==
    /\ client' = FALSE
    /\ UNCHANGED <<handles, awaiting, reply, channelVars, taskVars, serverVars, ledgerVars>>

AnyNext == Next \/ AnyBegin \/ ClientGoes

LEMMA AreAny == (CallBegin => AnyBegin) /\ (Close => ClientGoes)
BY LevelsAssumption DEF CallBegin, AnyBegin, Close, ClientGoes

LEMMA NextIsAny == [Next]_vars => [AnyNext]_vars
BY DEF AnyNext

LEMMA TypeStep == TypeOK /\ [AnyNext]_vars => TypeOK'
<1> SUFFICES ASSUME TypeOK, [AnyNext]_vars PROVE TypeOK'
  OBVIOUS
<1> USE DEF Kinds, Isolations
<1>0. Len(requests) \in Nat /\ Sent \subseteq Nat \ {0} /\ \A i \in Sent : requests[i] \in Request
  BY SentIsNat
<1>100. /\ trancount \in Nat /\ level \in {"rc", "other"}
        /\ work \subseteq Nat /\ marks \subseteq Nat /\ durable \subseteq Nat
  BY DEF TypeOK
<1>101. ASSUME NoEffect \/ Abort
        PROVE  /\ trancount' \in Nat /\ level' \in {"rc", "other"}
               /\ work' \subseteq Nat /\ marks' \subseteq Nat /\ durable' \subseteq Nat
  <2>1. CASE NoEffect
    BY <1>100, <2>1 DEF NoEffect
  <2>2. CASE Abort
    BY <1>100, <2>2 DEF Abort
  <2>3. QED
    BY <1>101, <2>1, <2>2
<1>1. CASE CallStatement
  BY <1>1, CallTypes, SendTypes DEF CallStatement, Start, Call, ledgerVars, TypeOK
<1>2. CASE AnyBegin
  <2>1. PICK l \in Isolations : Start("Begin", l, 0)
    BY <1>2 DEF AnyBegin
  <2>2. QED
    BY <1>2, <2>1, CallTypes, SendTypes
       DEF AnyBegin, Start, Call, ledgerVars, TypeOK
<1>3. CASE CallSavepoint
  <2>1. PICK n \in UserNames \cup {Len(requests) + 1} : Start("Savepoint", "rc", n)
    BY <1>3 DEF CallSavepoint
  <2>2. n \in Nat \cup UserNames
    BY <1>0
  <2>3. shadowed' \in BOOLEAN
    BY <1>3 DEF CallSavepoint
  <2>4. QED
    BY <1>3, <2>1, <2>2, <2>3, CallTypes, SendTypes DEF CallSavepoint, Start, Call, TypeOK
<1>4. CASE CommitRoot
  <2>1. handles # <<>> /\ Send("Commit", "rc", 0) /\ Pop
    BY <1>4 DEF CommitRoot, Call
  <2>2. handles' \in Seq(Sent')
    BY <2>1, PopProperties, SendTypes, SeqGrows
  <2>3. QED
    BY <1>4, <2>2, CallTypes DEF CommitRoot, ledgerVars, TypeOK
<1>5. CASE CommitSavepoint
  <2>1. handles # <<>> /\ Pop
    BY <1>5 DEF CommitSavepoint
  <2>2. handles' \in Seq(Sent)
    BY <2>1, PopProperties
  <2>3. QED
    BY <1>5, <2>2 DEF CommitSavepoint, channelVars, taskVars, serverVars, ledgerVars, TypeOK, Sent
<1>6. ASSUME Discard, handles # <<>>
      PROVE  /\ handles' \in Seq(Sent) /\ acked' \subseteq Nat /\ kept' \subseteq Nat
             /\ discarded' \subseteq Nat /\ orphaned' \in BOOLEAN /\ shadowed' \in BOOLEAN
  <2>1. Since(Top) \subseteq Nat
    BY <1>0 DEF Since, Statements
  <2>2. QED
    BY <1>6, <2>1, PopProperties DEF Discard, TypeOK
<1>7. CASE Rollback
  <2>1. handles # <<>> /\ Discard /\ Call(UndoKind, "rc", UndoName)
    BY <1>7 DEF Rollback
  <2>2. Send(UndoKind, "rc", UndoName)
    BY <2>1 DEF Call
  <2>3. handles' \in Seq(Sent')
    BY <1>6, <2>1, <2>2, UndoTypes, SendTypes, SeqGrows
  <2>4. QED
    BY <1>6, <2>1, <2>3, UndoTypes, CallTypes
<1>8. CASE Drop
  <2>1. handles # <<>> /\ Discard /\ Send(UndoKind, "rc", UndoName)
    BY <1>8 DEF Drop
  <2>2. handles' \in Seq(Sent')
    BY <1>6, <2>1, UndoTypes, SendTypes, SeqGrows
  <2>3. requests' \in Seq(Request) /\ Sent \subseteq Sent'
    BY <2>1, UndoTypes, SendTypes
  <2>4. QED
    BY <1>6, <1>8, <2>1, <2>2, <2>3 DEF Drop, taskVars, serverVars, TypeOK
<1>9. CASE ConsumeClosed
  BY <1>6, <1>9 DEF ConsumeClosed, channelVars, taskVars, serverVars, TypeOK, Sent
<1>10. CASE GiveUp
  <2>1. orphaned' \in BOOLEAN
    BY <1>10 DEF GiveUp
  <2>2. discarded' \subseteq Nat
    BY <1>0, <1>10 DEF GiveUp, Statements, TypeOK
  <2>3. QED
    BY <1>10, <2>1, <2>2 DEF GiveUp, channelVars, taskVars, serverVars, TypeOK, Sent
<1>11. CASE Return
  <2>1. handles' \in Seq(Sent)
    BY <1>11 DEF Return, TypeOK
  <2>2. Settled(awaiting) \subseteq Nat
    BY <1>0 DEF Settled, Since, Statements
  <2>3. acked' \subseteq Nat /\ kept' \subseteq Nat /\ discarded' \subseteq Nat
    BY <1>0, <1>11, <2>2 DEF Return, TypeOK
  <2>4. QED
    BY <1>11, <2>1, <2>3 DEF Return, channelVars, taskVars, serverVars, TypeOK, Sent
<1>12. CASE ClientGoes
  <2>1. /\ client' \in BOOLEAN
        /\ UNCHANGED <<handles, awaiting, reply, channelVars, taskVars, serverVars, ledgerVars>>
    BY <1>12 DEF ClientGoes
  <2>2. QED
    BY <2>1 DEF channelVars, taskVars, serverVars, ledgerVars, TypeOK, Sent
<1>13. ASSUME UNCHANGED callerVars, UNCHANGED channelVars, UNCHANGED ledgerVars,
             reply' \in Answers \cup {"none"}, UNCHANGED serverVars,
             pc' \in {"idle", "undoing", "restoring"},
             txState' \in {"None", "Open", "Aborted"}, levelChanged' \in BOOLEAN
      PROVE  TypeOK'
  BY <1>13 DEF callerVars, channelVars, ledgerVars, serverVars, TypeOK, Sent
<1>14. ASSUME Receive PROVE taken' \in Sent /\ Sent' = Sent
  BY <1>0, <1>14 DEF Receive, TypeOK, Sent
<1>15. CASE Skip
  BY <1>14, <1>15 DEF Skip, Receive, callerVars, ledgerVars, taskVars, serverVars, TypeOK
<1>16. CASE ReceiveAborted
  BY <1>14, <1>16 DEF ReceiveAborted, Receive, callerVars, ledgerVars, serverVars, TypeOK, Answers
<1>17. CASE Dispatch
  BY <1>0, <1>14, <1>17 DEF Dispatch, Receive, callerVars, ledgerVars, serverVars, TypeOK
<1>18. CASE Reply
  BY <1>13, <1>18 DEF Reply, Answer, NextRound, TypeOK, Answers
<1>19. CASE ReplyBegin
  <2>1. levelChanged' \in BOOLEAN
    BY <1>19 DEF ReplyBegin
  <2>2. QED
    BY <1>13, <1>19, <2>1 DEF ReplyBegin, Answer, NextRound, TypeOK, Answers
<1>20. CASE ReplyEnd
  BY <1>13, <1>20 DEF ReplyEnd, Answer, NextRound, TypeOK, Answers
<1>21. ASSUME UNCHANGED callerVars, UNCHANGED channelVars, UNCHANGED ledgerVars,
              NEW v \in Answers \cup {"none"}, End(v)
       PROVE  TypeOK'
  <2>1. /\ reply' \in Answers \cup {"none"}
        /\ pc' = "ended"
        /\ alive' \in BOOLEAN
        /\ UNCHANGED <<txState, levelChanged, result, trancount, level, work, marks, durable>>
    BY <1>21 DEF End, TypeOK, Answers
  <2>2. QED
    BY <1>21, <2>1 DEF callerVars, channelVars, ledgerVars, TypeOK, Sent
<1>22. CASE ReplyLost
  BY <1>21, <1>22 DEF ReplyLost, Answers
<1>23. CASE UndoBegin
  BY <1>23 DEF UndoBegin, NextRound, callerVars, channelVars, ledgerVars, TypeOK, Sent
<1>24. CASE RestoreIsolation
  BY <1>24 DEF RestoreIsolation, NextRound, callerVars, channelVars, ledgerVars, TypeOK, Sent
<1>25. CASE CleanupFails
  BY <1>21, <1>25 DEF CleanupFails
<1>26. CASE CancelFails
  BY <1>21, <1>26 DEF CancelFails
<1>27. CASE Shutdown \/ DropTask
  BY <1>21, <1>27 DEF Shutdown, DropTask
<1>28. ASSUME Running, pc' = "answered", result' \in {"ok", "err"}, trancount' \in Nat,
              level' \in {"rc", "other"}, work' \subseteq Nat, marks' \subseteq Nat,
              durable' \subseteq Nat
       PROVE  TypeOK'
  BY <1>28 DEF Running, callerVars, channelVars, ledgerVars, TypeOK, Sent
<1>29. ASSUME Running PROVE taken \in Nat \ {0} /\ Current \in Request
  BY <1>0, <1>29 DEF Running, TypeOK, Current
<1>30. CASE ServeStatement
  <2>1. Running /\ RunStatement
    BY <1>30 DEF ServeStatement
  <2>2. pc' = "answered" /\ result' \in {"ok", "err"}
    BY <2>1 DEF RunStatement, Responds
  <2>3. /\ trancount' \in Nat /\ level' \in {"rc", "other"}
        /\ work' \subseteq Nat /\ marks' \subseteq Nat /\ durable' \subseteq Nat
    <3>1. CASE NoEffect \/ Abort
      BY <1>101, <3>1
    <3>2. CASE ~(NoEffect \/ Abort)
      <4>1. UNCHANGED <<trancount, level, marks>>
        BY <2>1, <3>2 DEF RunStatement
      <4>2. durable' \subseteq durable \cup {taken} /\ work' \subseteq work \cup {taken}
        BY <2>1, <3>2 DEF RunStatement
      <4>3. QED
        BY <1>29, <1>100, <2>1, <4>1, <4>2
    <3>3. QED
      BY <3>1, <3>2
  <2>4. QED
    BY <1>28, <2>1, <2>2, <2>3
<1>31. CASE ServeControl
  <2>1. /\ Running
        /\ RunBegin \/ RunCommit \/ RunRollback \/ RunSavepoint \/ RunRollbackTo
    BY <1>31 DEF ServeControl
  <2>2. pc' = "answered" /\ result' \in {"ok", "err"}
    BY <2>1 DEF RunBegin, RunCommit, RunRollback, RunSavepoint, RunRollbackTo, Responds
  <2>4. /\ trancount' \in Nat /\ level' \in {"rc", "other"}
        /\ work' \subseteq Nat /\ marks' \subseteq Nat /\ durable' \subseteq Nat
    <3>1. CASE RunBegin
      <4>1. Current.isolation \in {"unspecified", "rc", "other"}
        BY <1>29, <2>1 DEF Request
      <4>2. \/ NoEffect
            \/ /\ trancount' = trancount + 1
               /\ level' = IF Current.isolation = "unspecified" THEN level ELSE Current.isolation
               /\ UNCHANGED <<work, marks, durable>>
        BY <3>1 DEF RunBegin
      <4>3. CASE NoEffect
        BY <1>101, <4>3
      <4>4. CASE ~NoEffect
        <5>1. trancount' \in Nat /\ work' = work /\ marks' = marks /\ durable' = durable
          BY <1>100, <4>2, <4>4
        <5>2. level' \in {"rc", "other"}
          BY <1>100, <4>1, <4>2, <4>4
        <5>3. QED
          BY <1>100, <5>1, <5>2
      <4>5. QED
        BY <4>3, <4>4
    <3>2. CASE RunCommit
      <4>1. CASE NoEffect \/ Abort
        BY <1>101, <4>1
      <4>2. CASE ~(NoEffect \/ Abort)
        <5>1. trancount > 0 /\ trancount' = trancount - 1 /\ level' = level
          BY <3>2, <4>2 DEF RunCommit
        <5>2. durable' \subseteq durable \cup work /\ work' \subseteq work /\ marks' \subseteq marks
          BY <3>2, <4>2 DEF RunCommit
        <5>3. QED
          BY <1>100, <5>1, <5>2
      <4>3. QED
        BY <4>1, <4>2
    <3>3. CASE RunRollback
      BY <1>101, <3>3 DEF RunRollback
    <3>4. CASE RunSavepoint
      BY <1>29, <1>100, <1>101, <2>1, <3>4 DEF RunSavepoint
    <3>5. CASE RunRollbackTo
      BY <1>100, <1>101, <3>5 DEF RunRollbackTo
    <3>6. QED
      BY <2>1, <3>1, <3>2, <3>3, <3>4, <3>5
  <2>5. QED
    BY <1>28, <2>1, <2>2, <2>4
<1>32. CASE CancelStops
  <2>1. Running /\ pc' = "answered" /\ result' = "err" /\ (NoEffect \/ Abort)
    BY <1>32 DEF CancelStops, Responds
  <2>2. /\ trancount' \in Nat /\ level' \in {"rc", "other"}
        /\ work' \subseteq Nat /\ marks' \subseteq Nat /\ durable' \subseteq Nat
    BY <1>101, <2>1
  <2>3. QED
    BY <1>28, <2>1, <2>2
<1>33. CASE Lose
  <2>1. /\ alive' \in BOOLEAN
        /\ UNCHANGED <<callerVars, reply, channelVars, taskVars,
                       result, trancount, level, work, marks, durable, ledgerVars>>
    BY <1>33 DEF Lose
  <2>2. QED
    BY <2>1 DEF callerVars, channelVars, taskVars, ledgerVars, TypeOK, Sent
<1>34. CASE LoseMasked
  <2>1. /\ alive' \in BOOLEAN
        /\ reply' \in Answers \cup {"none"}
        /\ pc' = "idle"
        /\ txState' \in {"None", "Open", "Aborted"}
        /\ UNCHANGED <<callerVars, channelVars, levelChanged,
                       result, trancount, level, work, marks, durable, ledgerVars>>
    BY <1>34 DEF LoseMasked, Answer, NextRound, TypeOK, Answers
  <2>2. QED
    BY <2>1 DEF callerVars, channelVars, ledgerVars, TypeOK, Sent
<1>35. CASE Stopped \/ UNCHANGED vars
  <2>1. UNCHANGED vars
    BY <1>35 DEF Stopped
  <2>2. QED
    BY <2>1 DEF vars, callerVars, channelVars, taskVars, serverVars, ledgerVars, TypeOK, Sent
<1>36. QED
  BY <1>1, <1>2, <1>3, <1>4, <1>5, <1>7, <1>8, <1>9, <1>10, <1>11, <1>12, <1>15, <1>16,
     <1>17, <1>18, <1>19, <1>20, <1>22, <1>23, <1>24, <1>25, <1>26, <1>27, <1>30, <1>31,
     <1>32, <1>33, <1>34, <1>35, AreAny
     DEF AnyNext, Next, CallerNext, TaskNext, ServerNext

\* Every variable keeps its type, whatever the caller, the task and the
\* server do.
THEOREM TypeCorrect == Spec => []TypeOK
<1>1. QED
  BY TypeInit, TypeStep, NextIsAny, PTL DEF Spec

-----------------------------------------------------------------------------
(* The caller's order of calls.                                            *)

LEMMA Basics ==
    ASSUME TypeOK
    PROVE  /\ Len(requests) \in Nat
           /\ taken \in 0..Len(requests)
           /\ awaiting \in 0..Len(requests)
           /\ \A i \in 1..Len(requests) : Tx(i) \in Nat
           /\ Root \in 0..Len(requests)
           /\ handles # <<>> => Root = handles[1] /\ Root # 0
           /\ handles = <<>> => Root = 0
<1>1. Len(requests) \in Nat /\ Sent = 1..Len(requests) /\ \A i \in Sent : requests[i] \in Request
  BY SentIsNat DEF Sent
<1>2. \A i \in 1..Len(requests) : Tx(i) \in Nat
  BY <1>1 DEF Tx, Request
<1>3. handles # <<>> => handles[1] \in Sent
  BY EmptySeq DEF TypeOK
<1>4. taken \in Sent \cup {0} /\ awaiting \in Sent \cup {0}
  BY DEF TypeOK
<1>5. QED
  BY <1>1, <1>2, <1>3, <1>4 DEF Root

\* One request more, made through the innermost handle: `handles` loses
\* that handle if the request ends it.
Issue(kind, isolation, name) ==
    /\ pc # "ended"
    /\ awaiting = 0
    /\ Send(kind, isolation, name)
    /\ awaiting' \in {0, Len(requests) + 1}
    /\ UNCHANGED <<reply, taken, pc, txState, trancount, work, result, orphaned>>
    /\ kind = "Begin" => handles = <<>> /\ handles' = <<>>
    /\ kind \in {"Savepoint", "RollbackTo"} => handles # <<>>
    /\ kind \in {"Commit", "Rollback"} => handles # <<>> /\ handles' = <<>>
    /\ kind \notin {"Commit", "Rollback"} =>
           /\ handles' = <<>> <=> handles = <<>>
           /\ handles' # <<>> => handles'[1] = handles[1]

LEMMA IssueCaller ==
    ASSUME TypeOK, CallerInv, NEW kind \in Kinds, NEW isolation \in Isolations,
           NEW name \in Nat \cup UserNames, Issue(kind, isolation, name)
    PROVE  CallerInv'
<1> USE DEF Tx, IsBegin, Ends
<1> DEFINE n == Len(requests)
<1>1. /\ n \in Nat /\ taken \in 0..n /\ Root \in 0..n
      /\ \A i \in 1..n : Tx(i) \in Nat
      /\ handles # <<>> => Root = handles[1] /\ Root # 0
      /\ handles = <<>> => Root = 0
  BY Basics
<1>2. /\ Len(requests') = n + 1
      /\ \A i \in 1..n : requests'[i] = requests[i]
      /\ requests'[n + 1].tx = Root
      /\ requests'[n + 1].kind = kind
  <2>1. Send(kind, isolation, name) /\ (kind = "RollbackTo" => handles # <<>>)
    BY DEF Issue
  <2>2. requests'[n + 1] = [kind |-> kind, tx |-> Root, isolation |-> isolation, name |-> name,
                          undoes |-> IF kind = "RollbackTo" THEN Top ELSE 0]
    BY <2>1, SendProperties
  <2>3. Len(requests') = n + 1 /\ \A i \in Sent : requests'[i] = requests[i]
    BY <2>1, SendProperties
  <2>4. QED
    BY <2>2, <2>3 DEF Sent
<1>3. /\ pc # "ended" /\ pc' = pc /\ taken' = taken /\ reply' = reply
      /\ awaiting = 0 /\ awaiting' \in {0, n + 1}
      /\ kind = "Begin" => handles = <<>> /\ handles' = <<>>
      /\ kind = "Savepoint" => handles # <<>>
      /\ kind \in {"Commit", "Rollback"} => handles # <<>> /\ handles' = <<>>
      /\ kind \notin {"Commit", "Rollback"} =>
             /\ handles' = <<>> <=> handles = <<>>
             /\ handles' # <<>> => handles'[1] = handles[1]
  BY DEF Issue
<1>4. reply = "none"
  BY <1>3 DEF CallerInv, AwaitShape
<1>5. handles # <<>> =>
          /\ Root \in 1..taken /\ IsBegin(Root)
          /\ Root < n => Tx(Root + 1) = Root /\ Tx(n) = Root /\ ~Ends(n)
  BY <1>1 DEF CallerInv, HandleShape
<1> HIDE DEF n
<1>6. RequestShape'
  <2>1. \A i \in 1..n : Tx(i) < i /\ (IsBegin(i) => Tx(i) = 0) /\ (Ends(i) => Tx(i) # 0)
    BY DEF CallerInv, RequestShape, Sent, n
  <2>2. \A i \in 1..(n + 1) : i \in 1..n \/ i = n + 1
    BY <1>1
  <2>3. QED
    BY <1>1, <1>2, <1>3, <2>1, <2>2 DEF RequestShape, Sent
<1>7. AwaitShape'
  BY <1>1, <1>2, <1>3, <1>4 DEF AwaitShape
<1>8. HandleShape'
  BY <1>1, <1>2, <1>3, <1>5 DEF HandleShape
<1>9. Chain'
  <2>1. \A i \in 1..(n - 1) :
            /\ Tx(i) # 0 /\ ~Ends(i) => Tx(i + 1) = Tx(i)
            /\ Tx(i + 1) # 0 => \/ Tx(i + 1) = i /\ IsBegin(i)
                                \/ Tx(i + 1) = Tx(i) /\ ~Ends(i)
    BY DEF CallerInv, Chain, n
  <2>2. n > 0 /\ Tx(n) # 0 /\ ~Ends(n) => handles # <<>> /\ handles[1] = Tx(n)
    BY <1>3 DEF CallerInv, Chain, n
  <2>3. ASSUME NEW i \in 1..n
        PROVE  (/\ Tx(i) # 0 /\ ~Ends(i) => Tx(i + 1) = Tx(i)
                /\ Tx(i + 1) # 0 => \/ Tx(i + 1) = i /\ IsBegin(i)
                                    \/ Tx(i + 1) = Tx(i) /\ ~Ends(i))'
    <3>1. CASE i \in 1..(n - 1)
      <4>1. i + 1 \in 1..n
        BY <1>1, <3>1
      <4>2. QED
        BY <1>2, <2>1, <3>1, <4>1
    <3>2. CASE i = n
      BY <1>1, <1>2, <1>5, <2>2, <3>2
    <3>3. QED
      BY <1>1, <3>1, <3>2
  <2>4. requests'[n + 1].tx # 0 /\ requests'[n + 1].kind \notin {"Commit", "Rollback"}
            => handles' # <<>> /\ handles'[1] = requests'[n + 1].tx
    BY <1>1, <1>2, <1>3
  <2>5. Len(requests') - 1 = n
    BY <1>1, <1>2
  <2>6. (\A i \in 1..(Len(requests) - 1) :
             /\ Tx(i) # 0 /\ ~Ends(i) => Tx(i + 1) = Tx(i)
             /\ Tx(i + 1) # 0 => \/ Tx(i + 1) = i /\ IsBegin(i)
                                 \/ Tx(i + 1) = Tx(i) /\ ~Ends(i))'
    BY <2>3, <2>5
  <2>7. QED
    BY <1>2, <2>4, <2>6 DEF Chain
<1>10. ClaimShape'
  <2>1. ASSUME NEW t \in 1..(n + 1), IsBegin(t)', Claimed(t)'
        PROVE  t <= taken /\ (t = taken => pc \in {"idle", "ended"})
    <3>1. t \in 1..n
      BY <1>1, <1>2, <1>3, <1>4, <1>5, <2>1 DEF Claimed
    <3>2. Claimed(t)
      <4>1. CASE t = n
        BY <1>1, <1>2, <1>3, <1>4, <1>5, <2>1, <4>1 DEF Claimed
      <4>2. CASE t # n
        <5>1. t + 1 \in 1..n
          BY <1>1, <3>1, <4>2
        <5>2. QED
          BY <1>1, <1>2, <1>3, <1>4, <2>1, <3>1, <5>1 DEF Claimed, n
      <4>3. QED
        BY <4>1, <4>2
    <3>3. IsBegin(t)
      BY <1>2, <2>1, <3>1
    <3>4. QED
      BY <3>1, <3>2, <3>3 DEF CallerInv, ClaimShape, Sent, n
  <2>2. QED
    BY <1>2, <1>3, <2>1 DEF ClaimShape, Sent
<1>11. TakenShape'
  BY <1>1, <1>2, <1>3 DEF CallerInv, TakenShape
<1>12. QED
  BY <1>6, <1>7, <1>8, <1>9, <1>10, <1>11 DEF CallerInv

\* The innermost handle goes and nothing is sent.
LEMMA HandleGoesCaller ==
    ASSUME TypeOK, CallerInv, awaiting = 0, awaiting' = 0,
           UNCHANGED <<requests, taken, pc, reply>>,
           handles # <<>>, handles' = <<>> => pc = "ended",
           handles' # <<>> => handles'[1] = handles[1]
    PROVE  CallerInv'
<1> USE DEF Tx, IsBegin, Ends
<1>1. RequestShape' /\ TakenShape'
  BY DEF CallerInv, RequestShape, TakenShape, Sent
<1>2. AwaitShape' /\ HandleShape' /\ Chain'
  BY DEF CallerInv, AwaitShape, HandleShape, Chain
<1>3. ClaimShape'
  BY DEF CallerInv, ClaimShape, Claimed, Sent
<1>4. QED
  BY <1>1, <1>2, <1>3 DEF CallerInv

LEMMA GiveUpCaller ==
    ASSUME TypeOK, CallerInv, GiveUp
    PROVE  CallerInv'
<1> USE DEF Tx, IsBegin, Ends
<1>1. /\ UNCHANGED <<requests, taken, pc, handles>>
      /\ awaiting' = 0 /\ reply' = "none"
  BY DEF GiveUp, channelVars, taskVars
<1>2. RequestShape' /\ TakenShape' /\ HandleShape' /\ Chain'
  BY <1>1 DEF CallerInv, RequestShape, TakenShape, HandleShape, Chain, Sent
<1>3. AwaitShape' /\ ClaimShape'
  BY <1>1 DEF CallerInv, AwaitShape, ClaimShape, Claimed, Sent
<1>4. QED
  BY <1>2, <1>3 DEF CallerInv

\* What a call that returns does to the handles.
LEMMA ReturnFacts ==
    ASSUME TypeOK, CallerInv, Return
    PROVE  /\ UNCHANGED <<requests, taken, pc>>
           /\ awaiting # 0 /\ awaiting' = 0 /\ reply' = "none"
           /\ \/ handles' = handles /\ ~(reply = "ok" /\ IsBegin(awaiting))
              \/ /\ handles # <<>> /\ handles' # <<>> /\ handles'[1] = handles[1]
                 /\ ~IsBegin(awaiting)
              \/ /\ reply = "ok" /\ IsBegin(awaiting) /\ handles = <<>>
                 /\ handles' # <<>> /\ handles'[1] = awaiting
<1>1. /\ UNCHANGED <<requests, taken, pc>>
      /\ awaiting # 0 /\ awaiting' = 0 /\ reply' = "none"
      /\ handles' = IF reply = "ok" /\ requests[awaiting].kind \in {"Begin", "Savepoint"}
                    THEN Append(handles, awaiting) ELSE handles
  BY DEF Return, channelVars, taskVars
<1>2. handles \in Seq(Sent) /\ awaiting \in Sent
  BY <1>1 DEF TypeOK
<1>3. /\ Append(handles, awaiting) # <<>>
      /\ handles # <<>> => Append(handles, awaiting)[1] = handles[1]
      /\ handles = <<>> => Append(handles, awaiting)[1] = awaiting
  <2>1. Len(Append(handles, awaiting)) = Len(handles) + 1 /\ Len(handles) \in Nat
    BY <1>2
  <2>2. Append(handles, awaiting) # <<>>
    BY <1>2, <2>1
  <2>3. CASE handles = <<>>
    BY <1>2, <2>2, <2>3
  <2>4. CASE handles # <<>>
    <3>1. Len(handles) >= 1
      BY <1>2, <2>4
    <3>2. QED
      BY <1>2, <2>2, <2>4, <3>1
  <2>5. QED
    BY <2>3, <2>4
<1>4. /\ IsBegin(awaiting) => handles = <<>>
      /\ requests[awaiting].kind = "Savepoint" => handles # <<>>
  BY <1>1 DEF CallerInv, AwaitShape
<1>5. QED
  BY <1>1, <1>3, <1>4 DEF IsBegin

LEMMA ReturnCaller ==
    ASSUME TypeOK, CallerInv, Return
    PROVE  CallerInv'
<1> USE DEF Tx, IsBegin, Ends
<1>1. /\ UNCHANGED <<requests, taken, pc>>
      /\ awaiting # 0 /\ awaiting' = 0 /\ reply' = "none"
      /\ \/ handles' = handles /\ ~(reply = "ok" /\ IsBegin(awaiting))
         \/ /\ handles # <<>> /\ handles' # <<>> /\ handles'[1] = handles[1]
            /\ ~IsBegin(awaiting)
         \/ /\ reply = "ok" /\ IsBegin(awaiting) /\ handles = <<>>
            /\ handles' # <<>> /\ handles'[1] = awaiting
  BY ReturnFacts
<1>2. awaiting = Len(requests) /\ (reply = "ok" => awaiting <= taken)
  BY <1>1 DEF CallerInv, AwaitShape
<1>3. Len(requests) \in Nat /\ taken \in 0..Len(requests)
  BY Basics
<1>4. RequestShape' /\ TakenShape'
  BY <1>1 DEF CallerInv, RequestShape, TakenShape, Sent
<1>5. AwaitShape'
  BY <1>1 DEF AwaitShape
<1>6. HandleShape'
  BY <1>1, <1>2, <1>3 DEF CallerInv, HandleShape
<1>7. Chain'
  <2>1. handles # <<>> => handles' # <<>> /\ handles'[1] = handles[1]
    BY <1>1
  <2>2. QED
    BY <1>1, <2>1 DEF CallerInv, Chain
<1>8. ClaimShape'
  <2>1. ASSUME NEW t \in Sent, IsBegin(t), Claimed(t)' PROVE Claimed(t)
    BY <1>1, <2>1 DEF Claimed
  <2>2. QED
    BY <1>1, <2>1 DEF CallerInv, ClaimShape, Sent
<1>9. QED
  BY <1>4, <1>5, <1>6, <1>7, <1>8 DEF CallerInv

\* The task takes the next request, or is done with one.
LEMMA ReceiveCaller ==
    ASSUME TypeOK, CallerInv, pc = "idle", taken < Len(requests), taken' = taken + 1,
           UNCHANGED <<callerVars, requests>>, pc' \in {"idle", "sent", "restoring"},
           reply' = reply \/ (awaiting = taken + 1 /\ pc' # "sent"),
           reply' = "ok" /\ IsBegin(awaiting) => reply = "ok"
    PROVE  CallerInv'
<1> USE DEF Tx, IsBegin, Ends
<1>1. Len(requests) \in Nat /\ taken \in 0..Len(requests) /\ awaiting \in 0..Len(requests)
  BY Basics
<1>2. RequestShape' /\ TakenShape'
  BY DEF CallerInv, RequestShape, TakenShape, Sent, callerVars
<1>3. AwaitShape'
  BY <1>1 DEF CallerInv, AwaitShape, callerVars
<1>4. HandleShape' /\ Chain'
  BY <1>1 DEF CallerInv, HandleShape, Chain, callerVars
<1>5. ClaimShape'
  <2>1. ASSUME NEW t \in Sent, IsBegin(t), Claimed(t)' PROVE Claimed(t)
    BY <2>1 DEF Claimed, callerVars
  <2>2. ASSUME NEW t \in Sent, IsBegin(t), Claimed(t) PROVE t < taken'
    BY <1>1, <2>2 DEF CallerInv, ClaimShape, Sent
  <2>3. QED
    BY <1>1, <2>1, <2>2 DEF ClaimShape, Sent, callerVars
<1>6. QED
  BY <1>2, <1>3, <1>4, <1>5 DEF CallerInv

LEMMA TaskCaller ==
    ASSUME TypeOK, CallerInv, UNCHANGED callerVars, UNCHANGED channelVars,
           \/ reply' = reply
           \/ pc' = "ended" /\ awaiting # 0 /\ reply' # "ok"
           \/ pc' \notin {"sent", "answered"} /\ awaiting = taken /\ taken # 0,
           reply' = "ok" /\ IsBegin(taken) /\ awaiting = taken => reply = "ok" \/ pc' = "idle",
           pc = "ended" => pc' = "ended",
           pc = "idle" => pc' \in {"idle", "ended"},
           pc' \in {"sent", "answered"} => pc \in {"sent", "answered"} /\ reply' = reply,
           pc' = "undoing" => pc = "undoing" \/ (taken # 0 /\ IsBegin(taken))
    PROVE  CallerInv'
<1> USE DEF Tx, IsBegin, Ends
<1>1. Len(requests) \in Nat /\ taken \in 0..Len(requests) /\ awaiting \in 0..Len(requests)
  BY Basics
<1>2. UNCHANGED <<handles, awaiting, requests, taken>>
  BY DEF callerVars, channelVars
<1>3. RequestShape' /\ TakenShape'
  <2>1. RequestShape'
    BY <1>2 DEF CallerInv, RequestShape, Sent
  <2>2. TakenShape'
    BY <1>1, <1>2 DEF CallerInv, TakenShape
  <2>3. QED
    BY <2>1, <2>2
<1>4. AwaitShape'
  BY <1>1, <1>2 DEF CallerInv, AwaitShape
<1>5. HandleShape' /\ Chain'
  BY <1>2 DEF CallerInv, HandleShape, Chain
<1>6. ClaimShape'
  <2> SUFFICES ASSUME NEW t \in Sent, IsBegin(t), Claimed(t)'
               PROVE  t <= taken /\ (t = taken => pc' \in {"idle", "ended"})
    BY <1>2 DEF ClaimShape, Sent
  <2>1. CASE Claimed(t)
    BY <2>1 DEF CallerInv, ClaimShape
  <2>2. CASE ~Claimed(t)
    BY <1>1, <1>2, <2>2 DEF Claimed
  <2>3. QED
    BY <2>1, <2>2
<1>7. QED
  BY <1>3, <1>4, <1>5, <1>6 DEF CallerInv

\* Each step that sends something issues one request of the caller's.
Sends == \/ CallStatement \/ AnyBegin \/ CallSavepoint
         \/ CommitRoot \/ Rollback \/ Drop

LEMMA SendsIssue ==
    ASSUME TypeOK, Sends
    PROVE  \E kind \in Kinds, isolation \in Isolations, name \in Nat \cup UserNames :
               Issue(kind, isolation, name)
<1> USE DEF Kinds, Isolations, Issue
<1>1. /\ handles \in Seq(Sent) /\ Len(handles) \in Nat
      /\ handles = <<>> <=> Len(handles) = 0
      /\ Len(requests) + 1 \in Nat
  BY SentIsNat, EmptySeq DEF TypeOK
<1>2. ASSUME NEW kind \in Kinds, NEW isolation \in Isolations, NEW name \in Nat \cup UserNames,
             Call(kind, isolation, name), UNCHANGED orphaned,
             kind = "Begin" => handles = <<>>,
             kind \in {"Statement", "Begin", "Savepoint"} => UNCHANGED handles,
             kind = "Savepoint" => handles # <<>>,
             kind \in {"Commit", "Rollback"} => handles # <<>> /\ handles' = <<>>,
             kind = "RollbackTo" => /\ handles # <<>> /\ handles' # <<>>
                                    /\ handles'[1] = handles[1]
      PROVE  Issue(kind, isolation, name)
  BY <1>2 DEF Call, Idle, taskVars, serverVars
<1>3. CASE CallStatement
  BY <1>2, <1>3 DEF CallStatement, Start, ledgerVars
<1>4. CASE AnyBegin
  <2>1. PICK l \in Isolations : Call("Begin", l, 0)
    BY <1>4 DEF AnyBegin, Start
  <2>2. l \in Isolations
    OBVIOUS
  <2>3. UNCHANGED <<handles, orphaned>> /\ handles = <<>>
    BY <1>4 DEF AnyBegin, ledgerVars
  <2>4. QED
    BY <1>2, <2>1, <2>2, <2>3
<1>5. CASE CallSavepoint
  <2>1. PICK m \in UserNames \cup {Len(requests) + 1} : Call("Savepoint", "rc", m)
    BY <1>5 DEF CallSavepoint, Start
  <2>2. UNCHANGED <<handles, orphaned>> /\ handles # <<>>
    BY <1>5 DEF CallSavepoint
  <2>3. m \in Nat \cup UserNames
    BY <1>1
  <2>4. QED
    BY <1>2, <2>1, <2>2, <2>3
<1>6. ASSUME handles # <<>>, Pop
      PROVE  /\ Len(handles) = 1 => handles' = <<>>
             /\ Len(handles) # 1 => handles' # <<>> /\ handles'[1] = handles[1]
  <2>1. handles' \in Seq(Sent) /\ Len(handles') = Len(handles) - 1
    BY <1>6, PopProperties
  <2>2. handles' = <<>> <=> Len(handles') = 0
    BY <2>1, EmptySeq
  <2>3. QED
    BY <1>1, <1>6, <2>1, <2>2, PopProperties
<1>7. CASE CommitRoot
  <2>1. Call("Commit", "rc", 0) /\ Len(handles) = 1 /\ Pop /\ UNCHANGED orphaned
    BY <1>7 DEF CommitRoot, ledgerVars
  <2>2. handles # <<>> /\ handles' = <<>>
    BY <1>1, <1>6, <2>1
  <2>3. QED
    BY <1>2, <2>1, <2>2
<1>8. CASE Rollback
  <2>1. Call(UndoKind, "rc", UndoName) /\ handles # <<>> /\ Pop /\ UNCHANGED orphaned
    BY <1>8 DEF Rollback, Discard
  <2>2. UndoKind \in {"Rollback", "RollbackTo"} /\ UndoName \in Nat \cup UserNames
    BY <2>1, UndoTypes DEF UndoKind
  <2>3. UndoKind = "Rollback" <=> Len(handles) = 1
    BY DEF UndoKind
  <2>4. QED
    BY <1>2, <1>6, <2>1, <2>2, <2>3
<1>9. CASE Drop
  <2>1. /\ Idle /\ pc # "ended" /\ handles # <<>> /\ Send(UndoKind, "rc", UndoName) /\ Pop
        /\ UNCHANGED <<awaiting, reply, taken, taskVars, serverVars, orphaned>>
    BY <1>9 DEF Drop, Discard
  <2>2. UndoKind \in {"Rollback", "RollbackTo"} /\ UndoName \in Nat \cup UserNames
    BY <2>1, UndoTypes DEF UndoKind
  <2>3. UndoKind = "Rollback" <=> Len(handles) = 1
    BY DEF UndoKind
  <2>4. Issue(UndoKind, "rc", UndoName)
    BY <1>6, <2>1, <2>2, <2>3 DEF Idle, taskVars, serverVars
  <2>5. QED
    BY <2>2, <2>4
<1>10. QED
  BY <1>3, <1>4, <1>5, <1>7, <1>8, <1>9 DEF Sends

LEMMA CallerAgrees == TypeOK /\ CallerInv /\ [AnyNext]_vars => CallerInv'
<1> SUFFICES ASSUME TypeOK, CallerInv, [AnyNext]_vars PROVE CallerInv'
  OBVIOUS
<1> USE DEF Tx, IsBegin
<1>1. CASE Sends
  BY <1>1, SendsIssue, IssueCaller
<1>2. CASE CommitSavepoint \/ ConsumeClosed
  <2>1. /\ awaiting = 0 /\ handles # <<>> /\ Pop
        /\ Len(handles) > 1 \/ pc = "ended"
        /\ UNCHANGED <<awaiting, requests, taken, pc, reply>>
    BY <1>2, EmptySeq DEF CommitSavepoint, ConsumeClosed, Idle, Discard, channelVars, taskVars
  <2>2. handles' \in Seq(Sent) /\ Len(handles') = Len(handles) - 1
        /\ (handles' # <<>> => handles'[1] = handles[1])
    BY <2>1, PopProperties
  <2>3. handles' = <<>> => pc = "ended"
    <3> SUFFICES ASSUME handles' = <<>> PROVE ~(Len(handles) > 1)
      BY <2>1
    <3>1. Len(handles') = 0
      OBVIOUS
    <3>2. Len(handles) \in Nat
      BY DEF TypeOK
    <3>3. Len(handles) = 1
      <4> DEFINE a == Len(handles)
                 b == Len(handles')
      <4>1. a \in Nat /\ b = 0 /\ b = a - 1
        BY <2>2, <3>1, <3>2
      <4> HIDE DEF a, b
      <4>2. a = 1
        BY <4>1
      <4>3. QED
        BY <4>2 DEF a
    <3>4. QED
      BY <3>3
  <2>4. QED
    BY <2>1, <2>2, <2>3, HandleGoesCaller
<1>3. CASE GiveUp
  BY <1>3, GiveUpCaller
<1>4. CASE Return
  BY <1>4, ReturnCaller
<1>5. CASE Skip
  <2>1. /\ pc = "idle" /\ taken < Len(requests) /\ taken' = taken + 1
        /\ UNCHANGED <<callerVars, requests, reply, pc>>
    BY <1>5 DEF Skip, Receive, taskVars
  <2>2. QED
    BY <2>1, ReceiveCaller
<1>6. CASE ReceiveAborted
  <2>1. /\ pc = "idle" /\ taken < Len(requests) /\ taken' = taken + 1
        /\ UNCHANGED <<callerVars, requests>>
        /\ pc' \in {"idle", "restoring"}
        /\ reply' = reply \/ awaiting = taken + 1
        /\ reply' = "ok" => reply = "ok" \/ (awaiting = taken' /\ requests[taken'].kind = "Rollback")
    BY <1>6 DEF ReceiveAborted, Receive
  <2>2. reply' = "ok" /\ IsBegin(awaiting) => reply = "ok"
    BY <2>1
  <2>3. QED
    BY <2>1, <2>2, ReceiveCaller
<1>7. CASE Dispatch
  <2>1. /\ pc = "idle" /\ taken < Len(requests) /\ taken' = taken + 1
        /\ UNCHANGED <<callerVars, requests, reply>> /\ pc' = "sent"
    BY <1>7 DEF Dispatch, Receive
  <2>2. QED
    BY <2>1, ReceiveCaller
<1> DEFINE TaskMoves ==
        /\ UNCHANGED callerVars /\ UNCHANGED channelVars
        /\ \/ reply' = reply
           \/ pc' = "ended" /\ awaiting # 0 /\ reply' # "ok"
           \/ pc' \notin {"sent", "answered"} /\ awaiting = taken /\ taken # 0
        /\ reply' = "ok" /\ IsBegin(taken) /\ awaiting = taken => reply = "ok" \/ pc' = "idle"
        /\ pc = "ended" => pc' = "ended"
        /\ pc = "idle" => pc' \in {"idle", "ended"}
        /\ pc' \in {"sent", "answered"} => pc \in {"sent", "answered"} /\ reply' = reply
        /\ pc' = "undoing" => pc = "undoing" \/ (taken # 0 /\ IsBegin(taken))
<1>8. TaskMoves => CallerInv'
  BY TaskCaller
<1>9. pc \in {"sent", "answered"} => taken # 0
  BY DEF TypeOK
<1>10. CASE Reply
  BY <1>8, <1>9, <1>10 DEF Reply, Answer, NextRound, Current
<1>11. CASE ReplyBegin
  BY <1>8, <1>9, <1>11 DEF ReplyBegin, Answer, NextRound, Current
<1>12. CASE ReplyEnd
  BY <1>8, <1>9, <1>12 DEF ReplyEnd, Answer, NextRound, Current
<1>13. ASSUME NEW v \in {"none", "io"}, End(v), UNCHANGED <<callerVars, channelVars>>
       PROVE  CallerInv'
  BY <1>8, <1>13 DEF End
<1>14. CASE LoseMasked
  <2>1. /\ UNCHANGED <<callerVars, channelVars>> /\ pc \in {"sent", "answered"}
        /\ Answer("err") /\ pc' = "idle"
    BY <1>14 DEF LoseMasked, NextRound
  <2>2. QED
    BY <1>8, <1>9, <2>1 DEF Answer
<1>15. CASE UndoBegin
  BY <1>8, <1>15 DEF UndoBegin, NextRound
<1>16. CASE RestoreIsolation
  BY <1>8, <1>16 DEF RestoreIsolation, NextRound
<1>17. CASE ReplyLost \/ CleanupFails \/ CancelFails \/ Shutdown \/ DropTask
  BY <1>13, <1>17 DEF ReplyLost, CleanupFails, CancelFails, Shutdown, DropTask
<1>18. ASSUME Running, pc' = "answered" PROVE CallerInv'
  BY <1>8, <1>18 DEF Running
<1>19. CASE ServeStatement \/ ServeControl \/ CancelStops
  BY <1>18, <1>19 DEF ServeStatement, ServeControl, CancelStops, Responds, RunStatement,
     RunBegin, RunCommit, RunRollback, RunSavepoint, RunRollbackTo
<1>20. ASSUME UNCHANGED <<handles, awaiting, reply, requests, taken, pc>>
       PROVE  CallerInv'
  <2>1. RequestShape' /\ AwaitShape' /\ TakenShape'
    BY <1>20 DEF CallerInv, RequestShape, AwaitShape, TakenShape, Sent, Ends
  <2>2. HandleShape' /\ Chain'
    BY <1>20 DEF CallerInv, HandleShape, Chain, Ends
  <2>3. ClaimShape'
    BY <1>20 DEF CallerInv, ClaimShape, Claimed, Sent
  <2>4. QED
    BY <2>1, <2>2, <2>3 DEF CallerInv
<1>21. CASE ClientGoes \/ Lose \/ Stopped \/ UNCHANGED vars
  BY <1>20, <1>21 DEF ClientGoes, Lose, Stopped, vars, callerVars, channelVars, taskVars
<1>22. QED
  BY <1>1, <1>2, <1>3, <1>4, <1>5, <1>6, <1>7, <1>10, <1>11, <1>12, <1>14, <1>15, <1>16,
     <1>17, <1>19, <1>21, AreAny DEF Sends, AnyNext, Next, CallerNext, TaskNext, ServerNext

-----------------------------------------------------------------------------
(* The task and the session follow the requests.                           *)

\* Only what these lemmas mention matters to TaskInv.
LEMMA TaskFrame ==
    ASSUME TypeOK, TaskInv, UNCHANGED <<taken, pc, txState, trancount, work, result>>,
           orphaned => orphaned',
           \A i \in 1..taken : requests'[i] = requests[i],
           taken # 0 /\ ~orphaned' => (Inside(taken)' <=> Inside(taken))
    PROVE  TaskInv'
<1> SUFFICES ASSUME ~orphaned' PROVE States' /\ WorkShape'
  BY DEF TaskInv
<1>1. States /\ WorkShape /\ taken \in Nat
  BY Basics DEF TaskInv
<1>2. pc \in {"sent", "answered"} => taken # 0
  BY DEF TypeOK
<1>3. taken # 0 => Tx(taken)' = Tx(taken) /\ IsBegin(taken)' = IsBegin(taken)
  BY <1>1 DEF Tx, IsBegin
<1>4. States'
  BY <1>1, <1>2, <1>3 DEF States
<1>5. pc # "ended" => \A i \in work : i \in 1..taken /\ requests'[i].tx = requests[i].tx
  BY <1>1 DEF WorkShape
<1>6. WorkShape'
  BY <1>1, <1>3, <1>5 DEF WorkShape, Tx
<1>7. QED
  BY <1>4, <1>6

\* A request more does not change what follows from the last one received.
LEMMA IssueInside ==
    ASSUME TypeOK, CallerInv, NEW kind \in Kinds, NEW isolation \in Isolations,
           NEW name \in Nat \cup UserNames, Issue(kind, isolation, name)
    PROVE  /\ taken # 0 => (Inside(taken)' <=> Inside(taken))
           /\ \A i \in 1..taken : requests'[i] = requests[i]
<1> DEFINE n == Len(requests)
<1>1. /\ n \in Nat /\ taken \in 0..n /\ Root \in 0..n
      /\ handles # <<>> => Root = handles[1] /\ Root # 0
      /\ handles = <<>> => Root = 0
  BY Basics
<1>2. /\ Len(requests') = n + 1
      /\ \A i \in 1..n : requests'[i] = requests[i]
      /\ requests'[n + 1].tx = Root
  <2>1. Send(kind, isolation, name) /\ (kind = "RollbackTo" => handles # <<>>)
    BY DEF Issue
  <2>2. requests'[n + 1] = [kind |-> kind, tx |-> Root, isolation |-> isolation, name |-> name,
                          undoes |-> IF kind = "RollbackTo" THEN Top ELSE 0]
    BY <2>1, SendProperties
  <2>3. Len(requests') = n + 1 /\ \A i \in Sent : requests'[i] = requests[i]
    BY <2>1, SendProperties
  <2>4. QED
    BY <2>2, <2>3 DEF Sent
<1>3. /\ UNCHANGED <<reply, taken, pc, txState, trancount, work, result, orphaned>>
      /\ awaiting = 0
      /\ handles' # <<>> => handles # <<>> /\ handles'[1] = handles[1]
  BY DEF Issue
<1>4. reply = "none"
  BY <1>3 DEF CallerInv, AwaitShape
<1>5. handles # <<>> => (Root < n => Tx(Root + 1) = Root)
  BY <1>1 DEF CallerInv, HandleShape
<1> HIDE DEF n
<1>6. ASSUME taken # 0 PROVE Inside(taken)' <=> Inside(taken)
  <2>1. /\ requests'[taken] = requests[taken]
        /\ taken < n => requests'[taken + 1] = requests[taken + 1]
    BY <1>1, <1>2, <1>6
  <2>2. Claimed(taken) <=> \/ handles # <<>> /\ handles[1] = taken
                           \/ taken < n /\ Tx(taken + 1) = taken
    BY <1>3, <1>4 DEF Claimed, n
  <2>3. Claimed(taken)' <=> \/ handles' # <<>> /\ handles'[1] = taken
                            \/ requests'[taken + 1].tx = taken
    BY <1>1, <1>2, <1>3, <1>4 DEF Claimed, Tx
  <2>4. CASE taken < n
    <3>1. Claimed(taken) <=> Tx(taken + 1) = taken
      BY <1>1, <1>5, <2>2, <2>4
    <3>2. Claimed(taken)' <=> Tx(taken + 1) = taken
      BY <1>1, <1>3, <1>5, <2>1, <2>3, <2>4 DEF Tx
    <3>3. QED
      BY <1>3, <2>1, <3>1, <3>2 DEF Inside, Tx, IsBegin, Ends
  <2>5. CASE taken = n
    <3>1. Claimed(taken) <=> Root = taken
      BY <1>1, <1>6, <2>2, <2>5
    <3>2. Claimed(taken)' <=> Root = taken
      BY <1>1, <1>2, <1>3, <1>6, <2>3, <2>5
    <3>3. QED
      BY <1>3, <2>1, <3>1, <3>2 DEF Inside, Tx, IsBegin, Ends
  <2>6. QED
    BY <1>1, <2>4, <2>5
<1>7. \A i \in 1..taken : requests'[i] = requests[i]
  BY <1>1, <1>2
<1>8. QED
  BY <1>6, <1>7

LEMMA IssueTask ==
    ASSUME TypeOK, AgreeInv, NEW kind \in Kinds, NEW isolation \in Isolations,
           NEW name \in Nat \cup UserNames, Issue(kind, isolation, name)
    PROVE  TaskInv'
<1>1. /\ taken # 0 => (Inside(taken)' <=> Inside(taken))
      /\ \A i \in 1..taken : requests'[i] = requests[i]
  BY IssueInside DEF AgreeInv
<1>2. UNCHANGED <<taken, pc, txState, trancount, work, result, orphaned>>
  BY DEF Issue
<1>3. QED
  BY <1>1, <1>2, TaskFrame DEF AgreeInv

LEMMA GiveUpTask ==
    ASSUME TypeOK, AgreeInv, GiveUp
    PROVE  TaskInv'
<1>1. /\ UNCHANGED <<requests, taken, pc, handles, txState, trancount, work, result>>
      /\ awaiting # 0 /\ awaiting' = 0 /\ reply' = "none"
      /\ orphaned' = (orphaned \/ (requests[awaiting].kind = "Begin" /\ reply = "ok"))
  BY DEF GiveUp, channelVars, taskVars, serverVars
<1>2. ASSUME taken # 0, ~orphaned' PROVE Inside(taken)' <=> Inside(taken)
  BY <1>1, <1>2 DEF Inside, Claimed, Tx, IsBegin, Ends
<1>3. QED
  BY <1>1, <1>2, TaskFrame DEF AgreeInv

LEMMA ReturnTask ==
    ASSUME TypeOK, AgreeInv, Return
    PROVE  TaskInv'
<1>1. /\ UNCHANGED <<requests, taken, pc, txState, trancount, work, result, orphaned>>
      /\ awaiting # 0 /\ awaiting' = 0 /\ reply' = "none"
  BY DEF Return, channelVars, taskVars, serverVars
<1>2. \/ handles' = handles /\ ~(reply = "ok" /\ IsBegin(awaiting))
      \/ /\ handles # <<>> /\ handles' # <<>> /\ handles'[1] = handles[1]
         /\ ~IsBegin(awaiting)
      \/ /\ reply = "ok" /\ IsBegin(awaiting) /\ handles = <<>>
         /\ handles' # <<>> /\ handles'[1] = awaiting
  BY ReturnFacts DEF AgreeInv
<1>3. ASSUME taken # 0 PROVE Inside(taken)' <=> Inside(taken)
  <2>1. IsBegin(taken) => (Claimed(taken)' <=> Claimed(taken))
    BY <1>1, <1>2 DEF Claimed, Tx
  <2>2. QED
    BY <1>1, <2>1 DEF Inside, Tx, IsBegin, Ends
<1>4. QED
  BY <1>1, <1>3, TaskFrame DEF AgreeInv

\* The request after one inside a transaction is made in it, and only that.
LEMMA NextInside ==
    ASSUME TypeOK, CallerInv, taken < Len(requests)
    PROVE  /\ Tx(taken + 1) # 0 <=> taken # 0 /\ Inside(taken)
           /\ IsBegin(taken + 1) => ~Claimed(taken + 1)
           /\ IsBegin(taken + 1) => Tx(taken + 1) = 0
           /\ Ends(taken + 1) => Tx(taken + 1) # 0
           /\ taken # 0 /\ Tx(taken) # 0 /\ Tx(taken + 1) # 0 => Tx(taken + 1) = Tx(taken)
<1> DEFINE n == Len(requests)
<1>1. /\ n \in Nat /\ taken \in 0..n /\ awaiting \in {0, n} /\ taken < n
      /\ \A i \in 1..n : Tx(i) \in Nat
      /\ reply = "ok" => awaiting <= taken
  BY Basics DEF CallerInv, AwaitShape
<1>2. /\ Tx(taken + 1) < taken + 1
      /\ IsBegin(taken + 1) => Tx(taken + 1) = 0
      /\ Ends(taken + 1) => Tx(taken + 1) # 0
  <2>1. taken + 1 \in Sent
    BY <1>1 DEF Sent
  <2>2. QED
    BY <2>1 DEF CallerInv, RequestShape
<1>3. IsBegin(taken + 1) => ~Claimed(taken + 1)
  <2>1. taken + 1 \in Sent /\ ~(taken + 1 <= taken)
    BY <1>1 DEF Sent
  <2>2. QED
    BY <2>1 DEF CallerInv, ClaimShape
<1>4. CASE taken = 0
  BY <1>1, <1>2, <1>3, <1>4
<1>5. CASE taken # 0
  <2>1. taken \in 1..(n - 1) /\ taken \in Sent
    BY <1>1, <1>5 DEF Sent
  <2>2. /\ Tx(taken) # 0 /\ ~Ends(taken) => Tx(taken + 1) = Tx(taken)
        /\ Tx(taken + 1) # 0 => \/ Tx(taken + 1) = taken /\ IsBegin(taken)
                                \/ Tx(taken + 1) = Tx(taken) /\ ~Ends(taken)
    BY <2>1 DEF CallerInv, Chain
  <2>3. /\ IsBegin(taken) => Tx(taken) = 0
    BY <2>1 DEF CallerInv, RequestShape
  <2>4. Claimed(taken) <=> Tx(taken + 1) = taken
    <3>1. handles # <<>> /\ handles[1] = taken => Tx(taken + 1) = taken
      BY <1>1 DEF CallerInv, HandleShape
    <3>2. ~(awaiting = taken /\ reply = "ok")
      BY <1>1, <1>5
    <3>3. QED
      BY <1>1, <3>1, <3>2 DEF Claimed
  <2>5. QED
    BY <1>2, <1>3, <1>5, <2>2, <2>3, <2>4 DEF Inside
<1>6. QED
  BY <1>4, <1>5

\* What taking a request has in common for the task.
LEMMA ReceiveInside ==
    ASSUME TypeOK, AgreeInv, Receive, reply' = "ok" /\ IsBegin(awaiting) => reply = "ok"
    PROVE  /\ taken' = taken + 1 /\ taken' # 0
           /\ Inside(taken)' <=> Tx(taken + 1) # 0 /\ ~Ends(taken + 1)
           /\ UNCHANGED <<requests, handles, awaiting, orphaned>>
           /\ pc = "idle"
<1>1. /\ pc = "idle" /\ taken < Len(requests) /\ taken' = taken + 1
      /\ UNCHANGED <<requests, handles, awaiting, orphaned>>
  BY DEF Receive, callerVars, ledgerVars
<1>2. IsBegin(taken + 1) => ~Claimed(taken + 1)
  BY <1>1, NextInside DEF AgreeInv
<1>3. ASSUME IsBegin(taken + 1) PROVE ~Claimed(taken)'
  BY <1>1, <1>2, <1>3 DEF Claimed, Tx, IsBegin
<1>4. taken' # 0
  BY <1>1, Basics
<1>5. Inside(taken)' <=> \/ requests[taken + 1].tx # 0
                               /\ requests[taken + 1].kind \notin {"Commit", "Rollback"}
                         \/ requests[taken + 1].kind = "Begin" /\ Claimed(taken)'
  BY <1>1 DEF Inside, Tx, IsBegin, Ends
<1>6. QED
  BY <1>1, <1>3, <1>4, <1>5 DEF Tx, IsBegin, Ends

\* The work of the open transaction stays that of the request just taken.
LEMMA ReceiveWork ==
    ASSUME TypeOK, AgreeInv, Receive, ~orphaned, UNCHANGED <<trancount, work>>
    PROVE  WorkShape'
<1>1. /\ pc = "idle" /\ taken < Len(requests) /\ taken' = taken + 1 /\ requests' = requests
  BY DEF Receive
<1>2. /\ trancount = 0 => work = {}
      /\ \A i \in work : i \in 1..taken /\ Tx(i) # 0 /\ Tx(i) = Tx(taken)
      /\ txState # "None" <=> (taken # 0 /\ Inside(taken))
      /\ trancount = IF txState = "Open" THEN 1 ELSE 0
  BY <1>1 DEF AgreeInv, TaskInv, States, WorkShape
<1>3. taken \in Nat
  BY Basics
<1>4. ASSUME NEW i \in work PROVE i \in 1..taken' /\ Tx(i) # 0 /\ Tx(i) = Tx(taken + 1)
  <2>1. taken # 0 /\ Inside(taken) /\ Tx(taken) # 0
    BY <1>2, <1>3, <1>4
  <2>2. Tx(taken + 1) # 0 /\ Tx(taken + 1) = Tx(taken)
    BY <1>1, <2>1, NextInside DEF AgreeInv
  <2>3. QED
    BY <1>1, <1>2, <1>3, <1>4, <2>2
<1>5. QED
  BY <1>1, <1>2, <1>4 DEF WorkShape, Tx

LEMMA ReceiveTask ==
    ASSUME TypeOK, AgreeInv, Skip \/ ReceiveAborted \/ Dispatch
    PROVE  TaskInv'
<1> SUFFICES ASSUME ~orphaned' PROVE States' /\ WorkShape'
  BY DEF TaskInv
<1>1. /\ Receive
      /\ UNCHANGED <<trancount, work, orphaned>>
      /\ pc = "idle" /\ taken < Len(requests)
  BY DEF Skip, ReceiveAborted, Dispatch, Receive, serverVars, ledgerVars
<1>2. WorkShape'
  BY <1>1, ReceiveWork
<1>3. /\ txState # "None" <=> (taken # 0 /\ Inside(taken))
      /\ trancount = IF txState = "Open" THEN 1 ELSE 0
      /\ txState \in {"None", "Open", "Aborted"}
  BY <1>1 DEF AgreeInv, TaskInv, States, TypeOK
<1>4. /\ Tx(taken + 1) # 0 <=> taken # 0 /\ Inside(taken)
      /\ IsBegin(taken + 1) => Tx(taken + 1) = 0
      /\ Ends(taken + 1) => Tx(taken + 1) # 0
  BY <1>1, NextInside DEF AgreeInv
<1>5. CASE Skip
  <2>1. UNCHANGED <<reply, pc, txState>> /\ Abandoned(taken')
    BY <1>5 DEF Skip, taskVars
  <2>2. /\ taken' = taken + 1 /\ taken' # 0 /\ pc = "idle"
        /\ Inside(taken)' <=> Tx(taken + 1) # 0 /\ ~Ends(taken + 1)
    BY <1>1, <2>1, ReceiveInside
  <2>3. ~Ends(taken + 1)
    BY <2>1, <2>2 DEF Abandoned, Ends
  <2>4. QED
    BY <1>1, <1>2, <1>3, <1>4, <2>1, <2>2, <2>3 DEF States
<1>6. CASE ReceiveAborted
  <2>1. /\ txState = "Aborted" /\ taken' = taken + 1
        /\ pc' \in {"idle", "restoring"}
        /\ Ends(taken + 1) => txState' = "None"
        /\ ~Ends(taken + 1) => txState' = txState /\ pc' = "idle"
        /\ reply' = "ok" => reply = "ok"
                            \/ (awaiting = taken' /\ requests[taken'].kind = "Rollback")
    BY <1>6 DEF ReceiveAborted, Receive, Ends
  <2>2. reply' = "ok" /\ IsBegin(awaiting) => reply = "ok"
    BY <2>1 DEF IsBegin
  <2>3. /\ taken' # 0
        /\ Inside(taken)' <=> Tx(taken + 1) # 0 /\ ~Ends(taken + 1)
    BY <1>1, <2>2, ReceiveInside
  <2>4. QED
    BY <1>1, <1>2, <1>3, <1>4, <2>1, <2>3 DEF States
<1>7. CASE Dispatch
  <2>1. /\ txState # "Aborted" /\ reply' = reply /\ pc' = "sent" /\ taken' = taken + 1
        /\ requests' = requests
        /\ txState' = IF Ends(taken + 1) THEN "None" ELSE txState
    BY <1>7 DEF Dispatch, Receive, Ends
  <2>2. /\ taken' # 0
        /\ Inside(taken)' <=> Tx(taken + 1) # 0 /\ ~Ends(taken + 1)
    BY <1>1, <2>1, ReceiveInside
  <2>3. requests'[taken'].tx = Tx(taken + 1)
    BY <2>1 DEF Tx
  <2>4. QED
    BY <1>1, <1>2, <1>3, <1>4, <2>1, <2>2, <2>3 DEF States, Tx
<1>8. QED
  BY <1>5, <1>6, <1>7

\* Serving a request changes what follows from it only for a begin, which
\* nobody can have claimed before it was answered.
LEMMA ServingInside ==
    ASSUME TypeOK, CallerInv, UNCHANGED callerVars, UNCHANGED channelVars,
           pc \notin {"idle", "ended"}, taken # 0
    PROVE  /\ ~IsBegin(taken) => (Inside(taken)' <=> Inside(taken))
           /\ IsBegin(taken) => ~Inside(taken)
           /\ IsBegin(taken) => (Inside(taken)' <=> awaiting = taken /\ reply' = "ok")
           /\ Tx(taken)' = Tx(taken) /\ IsBegin(taken)' = IsBegin(taken)
           /\ ~IsBegin(taken) => (Inside(taken) <=> Tx(taken) # 0 /\ ~Ends(taken))
           /\ IsBegin(taken) => Tx(taken) = 0
           /\ Ends(taken) => Tx(taken) # 0
<1>1. UNCHANGED <<handles, awaiting, requests, taken>>
  BY DEF callerVars, channelVars
<1>2. taken \in Sent
  BY Basics DEF Sent
<1>3. /\ IsBegin(taken) => ~Claimed(taken) /\ Tx(taken) = 0
      /\ Ends(taken) => Tx(taken) # 0
  BY <1>2 DEF CallerInv, ClaimShape, RequestShape
<1>4. Tx(taken)' = Tx(taken) /\ IsBegin(taken)' = IsBegin(taken) /\ Ends(taken)' = Ends(taken)
  BY <1>1 DEF Tx, IsBegin, Ends
<1>5. IsBegin(taken) => (Claimed(taken)' <=> awaiting = taken /\ reply' = "ok")
  BY <1>1, <1>3 DEF Claimed, Tx
<1>6. QED
  BY <1>3, <1>4, <1>5 DEF Inside

\* Less work, the same requests.
LEMMA LessWork ==
    ASSUME TypeOK, AgreeInv, UNCHANGED channelVars, ~orphaned, pc # "ended", work' \subseteq work,
           trancount' = 0 => work' = {} \/ (work' = work /\ trancount = 0)
    PROVE  WorkShape'
<1>1. UNCHANGED <<requests, taken>>
  BY DEF channelVars
<1>2. /\ trancount = 0 => work = {}
      /\ \A i \in work : i \in 1..taken /\ Tx(i) # 0 /\ Tx(i) = Tx(taken)
  BY DEF AgreeInv, TaskInv, WorkShape
<1>3. QED
  BY <1>1, <1>2 DEF WorkShape, Tx

\* One round of the task's loop, from the answer on.
LEMMA AnswerTask ==
    ASSUME TypeOK, AgreeInv, Reply \/ ReplyBegin \/ ReplyEnd
    PROVE  TaskInv'
<1> SUFFICES ASSUME ~orphaned' PROVE States' /\ WorkShape'
  BY DEF TaskInv
<1>1. /\ pc = "answered" /\ ~orphaned /\ Answer(result)
      /\ UNCHANGED callerVars /\ UNCHANGED channelVars /\ UNCHANGED <<trancount, work, result>>
  BY DEF Reply, ReplyBegin, ReplyEnd, serverVars, ledgerVars
<1>2. WorkShape'
  BY <1>1, LessWork
<1>3. /\ taken # 0 /\ result \in {"ok", "err"}
      /\ trancount \in {0, 1}
      /\ txState = IF Inside(taken) THEN "Open" ELSE "None"
      /\ IsBegin(taken) => (trancount = 1 <=> result = "ok")
      /\ ~IsBegin(taken) /\ ~Inside(taken) => trancount = 0
  BY <1>1 DEF AgreeInv, TaskInv, States, TypeOK
<1>4. /\ ~IsBegin(taken) => (Inside(taken)' <=> Inside(taken))
      /\ IsBegin(taken) => ~Inside(taken)
      /\ IsBegin(taken) => (Inside(taken)' <=> awaiting = taken /\ reply' = "ok")
      /\ ~IsBegin(taken) => (Inside(taken) <=> Tx(taken) # 0 /\ ~Ends(taken))
      /\ taken' = taken
  BY <1>1, <1>3, ServingInside DEF AgreeInv, channelVars
<1>5. reply' = IF awaiting = taken THEN result ELSE reply
  BY <1>1 DEF Answer
<1>6. CASE Reply
  <2>1. ~IsBegin(taken) /\ NextRound(txState, trancount)
    BY <1>6 DEF Reply, Current, IsBegin
  <2>2. QED
    BY <1>1, <1>2, <1>3, <1>4, <2>1 DEF States, NextRound
<1>7. CASE ReplyBegin
  <2>1. IsBegin(taken)
    BY <1>7 DEF ReplyBegin, Current, IsBegin
  <2>2. IF result = "ok" /\ awaiting # taken
        THEN pc' = "undoing" /\ UNCHANGED txState
        ELSE NextRound(IF result = "ok" THEN "Open" ELSE txState, trancount)
    BY <1>7 DEF ReplyBegin
  <2>3. CASE result = "ok" /\ awaiting # taken
    BY <1>1, <1>2, <1>3, <1>4, <2>1, <2>2, <2>3 DEF States
  <2>4. CASE result = "ok" /\ awaiting = taken
    BY <1>1, <1>2, <1>3, <1>4, <1>5, <2>1, <2>2, <2>4 DEF States, NextRound
  <2>5. CASE result # "ok"
    <3>1. ~Inside(taken)'
      <4>1. ~(awaiting = taken /\ reply' = "ok")
        BY <1>5, <2>5
      <4>2. QED
        BY <1>4, <2>1, <4>1
    <3>2. QED
      BY <1>1, <1>2, <1>3, <1>4, <2>1, <2>2, <2>5, <3>1 DEF States, NextRound
  <2>6. QED
    BY <2>3, <2>4, <2>5
<1>8. CASE ReplyEnd
  <2>1. /\ ~IsBegin(taken) /\ Ends(taken)
        /\ \/ pc' = "restoring" /\ UNCHANGED txState
           \/ NextRound(txState, trancount)
    BY <1>8 DEF ReplyEnd, Current, IsBegin, Ends
  <2>2. QED
    BY <1>1, <1>2, <1>3, <1>4, <2>1 DEF States, NextRound
<1>9. QED
  BY <1>6, <1>7, <1>8

\* A statement whose connection was lost under it, and the cleanup.
LEMMA CleanupTask ==
    ASSUME TypeOK, AgreeInv, LoseMasked \/ UndoBegin \/ RestoreIsolation
    PROVE  TaskInv'
<1> SUFFICES ASSUME ~orphaned' PROVE States' /\ WorkShape'
  BY DEF TaskInv
<1>1. /\ pc \in {"sent", "answered", "undoing", "restoring"} /\ ~orphaned
      /\ UNCHANGED callerVars /\ UNCHANGED channelVars
  BY DEF LoseMasked, UndoBegin, RestoreIsolation, ledgerVars
<1>2. /\ States /\ (pc = "undoing" => taken # 0 /\ IsBegin(taken))
      /\ pc \in {"sent", "answered"} => taken # 0
      /\ taken' = taken
  BY <1>1, Basics DEF AgreeInv, TaskInv, CallerInv, TakenShape, TypeOK, channelVars
<1>3. ASSUME taken # 0
      PROVE  /\ ~IsBegin(taken) => (Inside(taken)' <=> Inside(taken))
             /\ IsBegin(taken) => ~Inside(taken)
             /\ IsBegin(taken) => (Inside(taken)' <=> awaiting = taken /\ reply' = "ok")
             /\ ~IsBegin(taken) => (Inside(taken) <=> Tx(taken) # 0 /\ ~Ends(taken))
  BY <1>1, <1>3, ServingInside DEF AgreeInv
<1>4. CASE LoseMasked
  <2>1. /\ Current.kind = "Statement" /\ NextRound(txState, trancount)
        /\ UNCHANGED <<trancount, work>> /\ pc \in {"sent", "answered"}
    BY <1>4 DEF LoseMasked
  <2>2. ~IsBegin(taken) /\ ~Ends(taken)
    BY <2>1 DEF Current, IsBegin, Ends
  <2>3. WorkShape'
    BY <1>1, <2>1, LessWork
  <2>4. QED
    BY <1>2, <1>3, <2>1, <2>2, <2>3 DEF States, NextRound
<1>5. ASSUME awaiting = taken => reply # "ok", reply' = reply, taken # 0, ~Inside(taken)
      PROVE  ~Inside(taken)'
  BY <1>3, <1>5
<1>6. CASE UndoBegin
  <2>1. /\ pc = "undoing" /\ trancount' = 0 /\ work' = {} /\ reply' = reply
        /\ (pc' = "restoring" /\ UNCHANGED txState) \/ NextRound(txState, 0)
    BY <1>6 DEF UndoBegin
  <2>2. WorkShape'
    BY <1>1, <2>1, LessWork
  <2>3. taken # 0 /\ IsBegin(taken) /\ ~Inside(taken) /\ txState = "None"
    BY <1>2, <1>3, <2>1 DEF States
  <2>4. ~(awaiting = taken /\ reply = "ok")
    <3>1. ~Claimed(taken)
      BY <2>3 DEF Inside
    <3>2. QED
      BY <3>1 DEF Claimed
  <2>5. ~Inside(taken)'
    BY <1>5, <2>1, <2>3, <2>4
  <2>6. QED
    BY <1>2, <2>1, <2>2, <2>3, <2>5 DEF States, NextRound
<1>7. CASE RestoreIsolation
  <2>1. /\ pc = "restoring" /\ reply' = reply /\ NextRound(txState, trancount)
        /\ UNCHANGED <<trancount, work>>
    BY <1>7 DEF RestoreIsolation
  <2>2. WorkShape'
    BY <1>1, <2>1, LessWork
  <2>3. txState = "None" /\ trancount = 0 /\ taken # 0 /\ ~Inside(taken)
    BY <1>2, <2>1 DEF States
  <2>4. ~Inside(taken)'
    <3>1. CASE ~IsBegin(taken)
      BY <1>3, <2>3, <3>1
    <3>2. CASE IsBegin(taken)
      <4>1. ~(awaiting = taken /\ reply = "ok")
        BY <2>3, <3>2 DEF Inside, Claimed
      <4>2. QED
        BY <1>5, <2>1, <2>3, <4>1
    <3>3. QED
      BY <3>1, <3>2
  <2>5. QED
    BY <2>1, <2>2, <2>3, <2>4 DEF States, NextRound
<1>8. QED
  BY <1>4, <1>6, <1>7

\* The server's answer.
LEMMA ServerTask ==
    ASSUME TypeOK, AgreeInv, ServeStatement \/ ServeControl \/ CancelStops
    PROVE  TaskInv'
<1> SUFFICES ASSUME ~orphaned' PROVE States' /\ WorkShape'
  BY DEF TaskInv
<1>1. /\ pc = "sent" /\ pc' = "answered" /\ ~orphaned /\ UNCHANGED <<txState, reply>>
      /\ UNCHANGED callerVars /\ UNCHANGED channelVars
  BY DEF ServeStatement, ServeControl, CancelStops, Running, Responds, RunStatement,
     RunBegin, RunCommit, RunRollback, RunSavepoint, RunRollbackTo, ledgerVars
<1>2. /\ taken # 0 /\ taken \in Nat /\ taken' = taken /\ requests' = requests
      /\ txState = IF Inside(taken) THEN "Open" ELSE "None"
      /\ trancount = IF Tx(taken) # 0 THEN 1 ELSE 0
      /\ trancount = 0 => work = {}
      /\ \A i \in work : i \in 1..taken /\ Tx(i) # 0 /\ Tx(i) = Tx(taken)
  BY <1>1, Basics DEF AgreeInv, TaskInv, States, WorkShape, TypeOK, channelVars
<1>3. /\ ~IsBegin(taken) => (Inside(taken)' <=> Inside(taken))
      /\ IsBegin(taken) => ~Inside(taken)
      /\ IsBegin(taken) => (Inside(taken)' <=> awaiting = taken /\ reply' = "ok")
      /\ Tx(taken)' = Tx(taken) /\ IsBegin(taken)' = IsBegin(taken)
      /\ ~IsBegin(taken) => (Inside(taken) <=> Tx(taken) # 0 /\ ~Ends(taken))
      /\ IsBegin(taken) => Tx(taken) = 0
      /\ Ends(taken) => Tx(taken) # 0
  BY <1>1, <1>2, ServingInside DEF AgreeInv
<1>4. awaiting = taken => reply' # "ok"
  BY <1>1 DEF AgreeInv, CallerInv, AwaitShape
<1>5. ASSUME trancount' \in {0, trancount} \/ (IsBegin(taken) /\ trancount' = 1 /\ result' = "ok"),
             IsBegin(taken) => (trancount' = 1 <=> result' = "ok"),
             Ends(taken) => trancount' = 0
      PROVE  States'
  BY <1>1, <1>2, <1>3, <1>4, <1>5 DEF States
<1>6. ASSUME work' \subseteq work, trancount' = 0 => work' = {} \/ (work' = work /\ trancount = 0)
      PROVE  WorkShape'
  BY <1>1, <1>6, LessWork
<1>7. CASE ServeStatement
  <2>1. RunStatement /\ ~IsBegin(taken) /\ ~Ends(taken)
    BY <1>7 DEF ServeStatement, RunStatement, Current, IsBegin, Ends
  <2>2. /\ trancount' \in {0, trancount}
        /\ \/ work' \subseteq work /\ (trancount' = 0 => work' = {} \/ (work' = work /\ trancount = 0))
           \/ trancount > 0 /\ trancount' = trancount /\ work' = work \cup {taken}
    BY <1>2, <2>1 DEF RunStatement, NoEffect, Abort
  <2>3. States'
    BY <1>5, <2>1, <2>2
  <2>4. WorkShape'
    <3>1. CASE trancount > 0 /\ trancount' = trancount /\ work' = work \cup {taken}
      <4>1. Tx(taken) # 0 /\ taken \in 1..taken
        BY <1>2, <3>1
      <4>2. QED
        BY <1>2, <3>1, <4>1 DEF WorkShape, Tx
    <3>2. QED
      BY <1>6, <2>2, <3>1
  <2>5. QED
    BY <2>3, <2>4
<1>8. CASE CancelStops
  <2>1. /\ ~IsBegin(taken) /\ ~Ends(taken) /\ trancount' \in {0, trancount}
        /\ work' \subseteq work
        /\ trancount' = 0 => work' = {} \/ (work' = work /\ trancount = 0)
    BY <1>8 DEF CancelStops, Cancellable, Current, IsBegin, Ends, NoEffect, Abort
  <2>2. QED
    BY <1>5, <1>6, <2>1
<1>9. CASE ServeControl
  <2>1. CASE RunBegin
    <3>1. IsBegin(taken) /\ ~Ends(taken) /\ trancount = 0 /\ work' = work
      BY <1>2, <1>3, <2>1 DEF RunBegin, Current, IsBegin, Ends, NoEffect
    <3>2. (trancount' = 1 /\ result' = "ok") \/ (trancount' = 0 /\ result' = "err")
      BY <2>1, <3>1 DEF RunBegin, Responds, NoEffect
    <3>3. QED
      BY <1>5, <1>6, <3>1, <3>2
  <2>2. CASE RunCommit
    <3>1. ~IsBegin(taken) /\ trancount = 1
      BY <1>2, <1>3, <2>2 DEF RunCommit, Current, IsBegin, Ends
    <3>2. trancount' = 0 /\ work' = {}
      BY <2>2, <3>1 DEF RunCommit, Abort
    <3>3. QED
      BY <1>5, <1>6, <3>1, <3>2
  <2>3. CASE RunRollback
    <3>1. ~IsBegin(taken) /\ trancount = 1
      BY <1>2, <1>3, <2>3 DEF RunRollback, Current, IsBegin, Ends
    <3>2. trancount' = 0 /\ work' = {}
      BY <2>3, <3>1 DEF RunRollback, Abort
    <3>3. QED
      BY <1>5, <1>6, <3>1, <3>2
  <2>4. CASE RunSavepoint
    <3>1. ~IsBegin(taken) /\ ~Ends(taken) /\ trancount' = trancount /\ work' = work
      BY <2>4 DEF RunSavepoint, NoEffect, Current, IsBegin, Ends
    <3>2. QED
      BY <1>5, <1>6, <3>1
  <2>5. CASE RunRollbackTo
    <3>1. ~IsBegin(taken) /\ ~Ends(taken)
      BY <2>5 DEF RunRollbackTo, Current, IsBegin, Ends
    <3>2. /\ trancount' \in {0, trancount} /\ work' \subseteq work
          /\ trancount' = 0 => work' = {} \/ (work' \subseteq work /\ trancount = 0)
      BY <2>5 DEF RunRollbackTo, NoEffect, Abort
    <3>3. trancount' = 0 => work' = {} \/ (work' = work /\ trancount = 0)
      BY <1>2, <3>2
    <3>4. QED
      BY <1>5, <1>6, <3>1, <3>2, <3>3
  <2>6. QED
    BY <1>9, <2>1, <2>2, <2>3, <2>4, <2>5 DEF ServeControl
<1>10. QED
  BY <1>7, <1>8, <1>9

LEMMA TaskAgrees == TypeOK /\ AgreeInv /\ [AnyNext]_vars => TaskInv'
<1> SUFFICES ASSUME TypeOK, AgreeInv, [AnyNext]_vars PROVE TaskInv'
  OBVIOUS
<1>1. CASE Sends
  BY <1>1, SendsIssue, IssueTask DEF AgreeInv
<1>2. CASE GiveUp \/ Return
  BY <1>2, GiveUpTask, ReturnTask
<1>3. CASE Skip \/ ReceiveAborted \/ Dispatch
  BY <1>3, ReceiveTask
<1>4. CASE Reply \/ ReplyBegin \/ ReplyEnd
  BY <1>4, AnswerTask
<1>5. CASE pc' = "ended"
  BY <1>5 DEF TaskInv, States, WorkShape
<1>6. CASE LoseMasked \/ UndoBegin \/ RestoreIsolation
  BY <1>6, CleanupTask
<1>7. CASE ReplyLost \/ CleanupFails \/ CancelFails \/ Shutdown \/ DropTask
  BY <1>5, <1>7 DEF ReplyLost, CleanupFails, CancelFails, Shutdown, DropTask, End
<1>8. CASE ServeStatement \/ ServeControl \/ CancelStops
  BY <1>8, ServerTask
<1>9. ASSUME UNCHANGED <<requests, awaiting, reply, taken, pc, txState, trancount, work, result,
                         orphaned>>,
             taken # 0 /\ handles' # handles =>
                 handles' # <<>> /\ handles # <<>> /\ handles'[1] = handles[1]
      PROVE  TaskInv'
  <2>1. ASSUME taken # 0 PROVE Inside(taken)' <=> Inside(taken)
    BY <1>9, <2>1 DEF Inside, Claimed, Tx, IsBegin, Ends
  <2>2. QED
    BY <1>9, <2>1, TaskFrame DEF AgreeInv
<1>10. CASE ClientGoes \/ Lose \/ Stopped \/ UNCHANGED vars
  BY <1>9, <1>10 DEF ClientGoes, Lose, Stopped, vars, callerVars, channelVars, taskVars, serverVars,
     ledgerVars
<1>11. CASE CommitSavepoint
  <2>1. /\ UNCHANGED <<requests, awaiting, reply, taken, pc, txState, trancount, work, result,
                       orphaned>>
        /\ Len(handles) > 1 /\ Pop
    BY <1>11 DEF CommitSavepoint, channelVars, taskVars, serverVars, ledgerVars
  <2>2. handles # <<>>
    BY <2>1, EmptySeq
  <2>3. /\ Len(handles') = Len(handles) - 1
        /\ handles' \in Seq(Sent)
        /\ handles' # <<>> => handles'[1] = handles[1]
    BY <2>1, <2>2, PopProperties
  <2>4. handles' # <<>>
    <3> SUFFICES ASSUME handles' = <<>> PROVE FALSE
      OBVIOUS
    <3>1. Len(handles') = 0
      OBVIOUS
    <3>2. Len(handles) \in Nat
      BY DEF TypeOK
    <3> DEFINE a == Len(handles)
               b == Len(handles')
    <3>3. a \in Nat /\ a > 1 /\ b = 0 /\ b = a - 1
      BY <2>1, <2>3, <3>1, <3>2
    <3> HIDE DEF a, b
    <3>4. QED
      BY <3>3
  <2>5. QED
    BY <1>9, <2>1, <2>2, <2>3, <2>4
<1>12. CASE ConsumeClosed
  BY <1>5, <1>12 DEF ConsumeClosed, taskVars
<1>13. QED
  BY <1>1, <1>2, <1>3, <1>4, <1>5, <1>6, <1>7, <1>8, <1>10, <1>11, <1>12, AreAny
     DEF Sends, AnyNext, Next, CallerNext, TaskNext, ServerNext

LEMMA InvInit == Init => AgreeInv
<1> SUFFICES ASSUME Init PROVE AgreeInv
  OBVIOUS
<1>1. /\ handles = <<>> /\ requests = <<>> /\ awaiting = 0 /\ reply = "none" /\ taken = 0
      /\ pc = "idle" /\ txState = "None" /\ trancount = 0 /\ work = {}
  BY DEF Init
<1>2. Len(requests) = 0 /\ Sent = {}
  BY <1>1 DEF Sent
<1>3. RequestShape /\ AwaitShape /\ HandleShape /\ ClaimShape /\ TakenShape
  BY <1>1, <1>2 DEF RequestShape, AwaitShape, HandleShape, ClaimShape, TakenShape
<1>4. Chain
  BY <1>2 DEF Chain
<1>5. States /\ WorkShape
  BY <1>1 DEF States, WorkShape
<1>6. QED
  BY <1>3, <1>4, <1>5 DEF AgreeInv, CallerInv, TaskInv

\* The invariant the theorems below rest on: the task and the session are
\* inside a transaction exactly when the request last received says so.
THEOREM AgreeInvariance == Spec => []AgreeInv
<1>1. TypeOK /\ AgreeInv /\ [AnyNext]_vars => AgreeInv'
  BY CallerAgrees, TaskAgrees DEF AgreeInv
<1>2. QED
  BY <1>1, InvInit, TypeCorrect, NextIsAny, PTL DEF Spec

LEMMA AgreeGivesStates == TypeOK /\ AgreeInv => StatesAgree
<1> SUFFICES ASSUME TypeOK, AgreeInv, Quiet, ~orphaned
             PROVE  /\ (handles = <<>>) <=> (txState = "None")
                    /\ (txState = "Open") <=> (trancount > 0)
                    /\ trancount <= 1
  BY DEF StatesAgree
<1>1. pc = "idle" /\ taken = Len(requests) /\ awaiting = 0 /\ taken \in Nat
  BY Basics DEF Quiet
<1>2. /\ txState # "None" <=> (taken # 0 /\ Inside(taken))
      /\ trancount = IF txState = "Open" THEN 1 ELSE 0
  BY <1>1 DEF AgreeInv, TaskInv, States
<1>3. handles # <<>> => taken # 0 /\ Inside(taken)
  BY <1>1 DEF AgreeInv, CallerInv, HandleShape, Inside, Claimed
<1>4. taken # 0 /\ Inside(taken) => handles # <<>>
  BY <1>1 DEF AgreeInv, CallerInv, Chain, Inside, Claimed
<1>5. QED
  BY <1>2, <1>3, <1>4

\* Whatever calls were made, dropped half way and answered late, once nothing
\* is queued the handles, the task and the session agree about the transaction.
THEOREM StatesAgreeHolds == Spec => []StatesAgree
<1>1. QED
  BY AgreeGivesStates, TypeCorrect, AgreeInvariance, PTL

LEMMA CommitsStep ==
    ASSUME TypeOK, AgreeInv, [AnyNext]_vars, ~orphaned
    PROVE  \A i \in durable' \ durable :
               \/ i = taken /\ requests[i].tx = 0
               \/ Current.kind = "Commit" /\ requests[i].tx = Current.tx
<1> SUFFICES ASSUME NEW i \in durable' \ durable
             PROVE  \/ i = taken /\ requests[i].tx = 0
                    \/ Current.kind = "Commit" /\ requests[i].tx = Current.tx
  OBVIOUS
<1>1. ServeStatement \/ ServeControl \/ CancelStops \/ durable' = durable
  BY AreAny
     DEF AnyNext, Next, CallerNext, TaskNext, ServerNext, CallStatement, AnyBegin, CallSavepoint,
     ClientGoes, CommitRoot, CommitSavepoint, Rollback, Drop, ConsumeClosed, GiveUp, Return,
     Start, Call, Skip, ReceiveAborted, Dispatch, Reply, ReplyBegin, ReplyEnd, ReplyLost, End,
     UndoBegin, RestoreIsolation, CleanupFails, CancelFails, Shutdown, DropTask, Lose, LoseMasked,
     Stopped, vars, serverVars
<1>2. CASE ServeStatement
  <2>1. pc = "sent" /\ i = taken /\ trancount = 0
    BY <1>2 DEF ServeStatement, Running, RunStatement, NoEffect, Abort
  <2>2. trancount = IF Tx(taken) # 0 THEN 1 ELSE 0
    BY <2>1 DEF AgreeInv, TaskInv, States
  <2>3. QED
    BY <2>1, <2>2 DEF Tx
<1>3. CASE ServeControl
  <2>1. pc = "sent" /\ Current.kind = "Commit" /\ i \in work
    BY <1>3 DEF ServeControl, Running, RunBegin, RunCommit, RunRollback, RunSavepoint,
       RunRollbackTo, NoEffect, Abort
  <2>2. Tx(i) = Tx(taken)
    BY <2>1 DEF AgreeInv, TaskInv, WorkShape
  <2>3. QED
    BY <2>1, <2>2 DEF Tx, Current
<1>4. CASE CancelStops
  BY <1>4 DEF CancelStops, NoEffect, Abort
<1>5. QED
  BY <1>1, <1>2, <1>3, <1>4

\* No step of anybody makes a statement permanent but a statement of the bare
\* client as it runs, and the commit of the transaction it was made in.
THEOREM CommitsOnlyWhenAskedHolds == Spec => CommitsOnlyWhenAsked
BY CommitsStep, NextIsAny, TypeCorrect, AgreeInvariance, PTL DEF Spec, CommitsOnlyWhenAsked

-----------------------------------------------------------------------------
(* The caller's steps, in the terms the invariant is stated in.            *)

LEMMA HandleBasics ==
    ASSUME TypeOK
    PROVE  /\ Len(handles) \in Nat
           /\ handles = <<>> <=> Len(handles) = 0
           /\ \A k \in 1..Len(handles) : handles[k] \in 1..Len(requests)
BY EmptySeq DEF TypeOK, Sent

\* The innermost handle goes.
LosesTop ==
    /\ handles # <<>>
    /\ Len(handles') = Len(handles) - 1
    /\ \A k \in 1..(Len(handles) - 1) : handles'[k] = handles[k]

LEMMA PopLosesTop ==
    ASSUME TypeOK, handles # <<>>, Pop
    PROVE  LosesTop
<1> DEFINE n == Len(handles) - 1
<1>1. n \in Nat /\ \A i \in 1..n : handles[i] \in Sent
  BY HandleBasics DEF TypeOK, Sent
<1>2. handles' = SubSeq(handles, 1, n)
  BY DEF Pop
<1> HIDE DEF n
<1>3. /\ Len(handles') = IF 1 <= n THEN n-1+1 ELSE 0
      /\ \A i \in 1..(n-1+1) : handles'[i] = handles[1+i-1]
  BY <1>1, <1>2, SubSeqProperties, SMT
<1>4. Len(handles') = n /\ \A i \in 1..n : handles'[i] = handles[i]
  BY <1>1, <1>3
<1>5. QED
  BY <1>4 DEF LosesTop, n

\* A request of this kind is made through the innermost handle.
Asks(kind) ==
    LET n == Len(requests)
        r == requests'[n + 1]
    IN  /\ pc # "ended" /\ awaiting = 0 /\ awaiting' \in {0, n + 1}
        /\ Len(requests') = n + 1 /\ \A i \in 1..n : requests'[i] = requests[i]
        /\ r.kind = kind /\ r.tx = Root
        /\ kind = "Begin" => handles = <<>>
        /\ kind = "Savepoint" =>
               /\ handles # <<>>
               /\ ~shadowed' => \A k \in 2..Len(handles) : NameOf(handles[k]) # r.name
        /\ kind \in {"Commit", "Rollback"} => Len(handles) = 1
        /\ kind = "RollbackTo" => Len(handles) > 1 /\ r.undoes = Top /\ r.name = NameOf(Top)
        /\ IF kind \in {"Commit", "Rollback", "RollbackTo"} THEN LosesTop ELSE handles' = handles
        /\ discarded' = IF kind \in {"Rollback", "RollbackTo"}
                        THEN discarded \cup Since(Top) ELSE discarded
        /\ shadowed => shadowed'
        /\ UNCHANGED <<reply, taken, taskVars, serverVars, acked, kept, orphaned>>

LEMMA SendsAsk ==
    ASSUME TypeOK, Sends
    PROVE  \E kind \in Kinds : Asks(kind)
<1> USE DEF Kinds, Isolations
<1>1. /\ Len(requests) \in Nat /\ Len(handles) \in Nat
      /\ handles = <<>> <=> Len(handles) = 0
  BY HandleBasics, SentIsNat
<1>2. ASSUME NEW kind \in Kinds, NEW isolation \in Isolations, NEW name \in Nat \cup UserNames,
             Send(kind, isolation, name), kind = "RollbackTo" => handles # <<>>
      PROVE  LET r == requests'[Len(requests) + 1]
             IN  /\ Len(requests') = Len(requests) + 1
                 /\ \A i \in 1..Len(requests) : requests'[i] = requests[i]
                 /\ r.kind = kind /\ r.tx = Root /\ r.name = name
                 /\ kind = "RollbackTo" => r.undoes = Top
  <2>1. requests'[Len(requests) + 1] =
            [kind |-> kind, tx |-> Root, isolation |-> isolation, name |-> name,
             undoes |-> IF kind = "RollbackTo" THEN Top ELSE 0]
    BY <1>2, SendProperties
  <2>2. Len(requests') = Len(requests) + 1 /\ \A i \in Sent : requests'[i] = requests[i]
    BY <1>2, SendProperties
  <2>3. QED
    BY <2>1, <2>2 DEF Sent
<1>3. CASE CallStatement
  <2>1. /\ Call("Statement", "rc", 0) /\ UNCHANGED handles /\ UNCHANGED ledgerVars
    BY <1>3 DEF CallStatement, Start
  <2>2. Send("Statement", "rc", 0)
    BY <2>1 DEF Call
  <2>3. Asks("Statement")
    BY <1>2, <2>1, <2>2 DEF Call, Idle, Asks, ledgerVars
  <2>4. QED
    BY <2>3
<1>4. CASE AnyBegin
  <2>1. PICK l \in Isolations : Call("Begin", l, 0)
    BY <1>4 DEF AnyBegin, Start
  <2>2. l \in Isolations /\ Send("Begin", l, 0) /\ handles = <<>>
        /\ UNCHANGED handles /\ UNCHANGED ledgerVars
    BY <1>4, <2>1 DEF Call, AnyBegin
  <2>3. Asks("Begin")
    BY <1>2, <2>1, <2>2 DEF Call, Idle, Asks, ledgerVars
  <2>4. QED
    BY <2>3
<1>5. CASE CallSavepoint
  <2>1. PICK m \in UserNames \cup {Len(requests) + 1} :
            /\ Call("Savepoint", "rc", m)
            /\ shadowed' = (shadowed \/ \E k \in 2..Len(handles) : NameOf(handles[k]) = m)
    BY <1>5 DEF CallSavepoint, Start
  <2>2. /\ m \in Nat \cup UserNames /\ Send("Savepoint", "rc", m) /\ handles # <<>>
        /\ UNCHANGED <<handles, acked, kept, discarded, orphaned>>
    BY <1>1, <1>5, <2>1 DEF Call, CallSavepoint
  <2>3. Asks("Savepoint")
    BY <1>2, <2>1, <2>2 DEF Call, Idle, Asks
  <2>4. QED
    BY <2>3
<1>6. CASE CommitRoot
  <2>1. /\ Call("Commit", "rc", 0) /\ Send("Commit", "rc", 0) /\ Len(handles) = 1 /\ Pop
        /\ UNCHANGED ledgerVars
    BY <1>6 DEF CommitRoot, Call
  <2>2. LosesTop
    BY <1>1, <2>1, PopLosesTop
  <2>3. Asks("Commit")
    BY <1>2, <2>1, <2>2 DEF Call, Idle, Asks, ledgerVars
  <2>4. QED
    BY <2>3
<1>7. CASE Rollback \/ Drop
  <2>1. /\ handles # <<>> /\ Send(UndoKind, "rc", UndoName) /\ Pop
        /\ Idle /\ pc # "ended" /\ awaiting' \in {0, Len(requests) + 1}
        /\ UNCHANGED <<reply, taken, taskVars, serverVars, acked, kept, orphaned, shadowed>>
        /\ discarded' = discarded \cup Since(Top)
    BY <1>7 DEF Rollback, Drop, Discard, Call, Idle
  <2>2. LosesTop
    BY <2>1, PopLosesTop
  <2>3. /\ UndoKind \in Kinds /\ UndoName \in Nat \cup UserNames
        /\ UndoKind = IF Len(handles) = 1 THEN "Rollback" ELSE "RollbackTo"
        /\ Len(handles) # 1 => Len(handles) > 1 /\ UndoName = NameOf(Top)
    <3>1. Len(handles) # 1 => Len(handles) > 1
      <4> DEFINE n == Len(handles)
      <4>1. n \in Nat /\ n >= 1
        BY <2>1, HandleBasics
      <4> HIDE DEF n
      <4>2. n # 1 => n > 1
        BY <4>1
      <4>3. QED
        BY <4>2 DEF n
    <3>2. UndoKind \in Kinds /\ UndoName \in Nat \cup UserNames
      BY <2>1, UndoTypes
    <3>3. QED
      BY <3>1, <3>2 DEF UndoKind, UndoName
  <2>4. Asks(UndoKind)
    BY <1>2, <2>1, <2>2, <2>3 DEF Asks, Idle
  <2>5. QED
    BY <2>3, <2>4
<1>8. QED
  BY <1>3, <1>4, <1>5, <1>6, <1>7 DEF Sends

-----------------------------------------------------------------------------
(* What the caller holds and has sent.                                     *)

LEMMA AskHeld ==
    ASSUME TypeOK, TypeOK', CallerInv, HeldInv, NEW kind \in Kinds, Asks(kind)
    PROVE  HeldInv'
<1> USE DEF Tx, IsBegin, Ends, IsSavepoint, IsBackTo, NameOf
<1> DEFINE n == Len(requests)
           m == Len(handles)
           p == Len(handles')
           r == requests'[n + 1]
<1>1. /\ n \in Nat /\ m \in Nat /\ taken \in 0..n
      /\ \A i \in 1..n : Tx(i) \in Nat
      /\ \A k \in 1..m : handles[k] \in 1..n
      /\ handles = <<>> <=> m = 0
      /\ m # 0 => Root = handles[1]
      /\ m = 0 => Root = 0
  <2>1. handles = <<>> <=> m = 0
    BY HandleBasics
  <2>2. QED
    BY <2>1, Basics, HandleBasics
<1>2. /\ awaiting = 0 /\ awaiting' \in {0, n + 1}
      /\ Len(requests') = n + 1 /\ \A i \in 1..n : requests'[i] = requests[i]
      /\ r.kind = kind /\ r.tx = Root
      /\ kind = "Savepoint" /\ ~shadowed' => \A k \in 2..m : NameOf(handles[k]) # r.name
      /\ kind = "RollbackTo" => m > 1 /\ r.undoes = Top /\ r.name = NameOf(Top)
      /\ kind \in {"Commit", "Rollback"} => m = 1
      /\ discarded' = IF kind \in {"Rollback", "RollbackTo"}
                      THEN discarded \cup Since(Top) ELSE discarded
      /\ shadowed => shadowed'
      /\ UNCHANGED <<reply, taken, pc>>
  BY DEF Asks, taskVars
<1>3. /\ p \in 0..m /\ \A k \in 1..p : handles'[k] = handles[k]
      /\ IF kind \in {"Commit", "Rollback", "RollbackTo"} THEN m # 0 /\ p = m - 1 ELSE p = m
  <2>1. CASE kind \in {"Commit", "Rollback", "RollbackTo"}
    <3>1. handles # <<>> /\ p = m - 1 /\ \A k \in 1..(m - 1) : handles'[k] = handles[k]
      BY <2>1 DEF Asks, LosesTop
    <3>2. m # 0
      BY <1>1, <3>1
    <3> HIDE DEF m, p
    <3>3. QED
      BY <1>1, <2>1, <3>1, <3>2
  <2>2. CASE kind \notin {"Commit", "Rollback", "RollbackTo"}
    <3>1. handles' = handles
      BY <2>2 DEF Asks
    <3>2. QED
      BY <1>1, <2>2, <3>1
  <2>3. QED
    BY <2>1, <2>2
<1>4. handles' # <<>> => p # 0 /\ m # 0 /\ handles'[1] = handles[1]
  <2>1. handles' # <<>> => p # 0
    BY EmptySeq DEF TypeOK
  <2> HIDE DEF m, p
  <2>2. QED
    BY <1>1, <1>3, <2>1
<1>5. m # 0 => Top = handles[m]
  BY DEF Top
<1> HIDE DEF n, m, p
<1>6. Len(requests) = n /\ Len(handles) = m /\ Len(handles') = p /\ Sent = 1..n /\ Sent' = 1..(n + 1)
  BY <1>1, <1>2 DEF Sent, n, m, p
<1>7. handles # <<>> => \A i \in (handles[1] + 1)..n : Tx(i) = handles[1] /\ ~Ends(i)
  BY <1>6 DEF HeldInv, Stretch
<1>8. /\ \A k \in 1..m : handles[k] <= taken /\ (k > 1 => IsSavepoint(handles[k]))
      /\ \A k \in 1..m : \A j \in 1..(k - 1) : handles[j] < handles[k]
  BY <1>6 DEF HeldInv, HandleOrder
<1>9. ASSUME NEW i \in 1..n PROVE i \in Statements' <=> i \in Statements
  <2>1. requests'[i] = requests[i]
    BY <1>2
  <2>2. i \in Sent /\ i \in Sent'
    <3>1. n \in Nat /\ i \in 1..n /\ i \in 1..(n + 1)
      BY <1>1
    <3>2. QED
      BY <1>6, <3>1
  <2>3. QED
    BY <2>1, <2>2 DEF Statements
<1>10. discarded \subseteq discarded'
  BY <1>2
<1>11. Stretch'
  <2>1. ASSUME NEW j \in 1..(n + 1), requests'[j].tx # 0,
               NEW i \in (requests'[j].tx + 1)..(j - 1)
        PROVE  requests'[i].tx = requests'[j].tx /\ requests'[i].kind \notin {"Commit", "Rollback"}
    <3>1. CASE j = n + 1
      <4>1. m # 0 /\ requests'[j].tx = handles[1] /\ i \in (handles[1] + 1)..n /\ handles # <<>>
        BY <1>1, <1>2, <2>1, <3>1
      <4>2. i \in 1..n
        BY <1>1, <4>1
      <4>3. QED
        BY <1>2, <1>7, <4>1, <4>2
    <3>2. CASE j # n + 1
      <4>1. j \in 1..n /\ requests'[j] = requests[j]
        BY <1>1, <1>2, <3>2
      <4>2. i \in (Tx(j) + 1)..(j - 1) /\ i \in 1..n
        BY <1>1, <2>1, <4>1
      <4>3. Tx(i) = Tx(j) /\ ~Ends(i)
        BY <1>6, <2>1, <4>1, <4>2 DEF HeldInv, Stretch
      <4>4. QED
        BY <1>2, <4>1, <4>2, <4>3
    <3>3. QED
      BY <3>1, <3>2
  <2>2. ASSUME handles' # <<>>, NEW i \in (handles'[1] + 1)..(n + 1)
        PROVE  requests'[i].tx = handles'[1] /\ requests'[i].kind \notin {"Commit", "Rollback"}
    <3>1. m # 0 /\ p # 0 /\ handles'[1] = handles[1] /\ handles # <<>> /\ Root = handles[1]
      BY <1>1, <1>4, <2>2
    <3>2. kind \notin {"Commit", "Rollback"}
      BY <1>1, <1>2, <1>3, <3>1
    <3>3. CASE i = n + 1
      BY <1>2, <3>1, <3>2, <3>3
    <3>4. CASE i # n + 1
      <4>1. i \in (handles[1] + 1)..n /\ i \in 1..n
        BY <1>1, <2>2, <3>1, <3>4
      <4>2. QED
        BY <1>2, <1>7, <3>1, <4>1
    <3>5. QED
      BY <3>3, <3>4
  <2>3. QED
    BY <1>2, <1>6, <2>1, <2>2 DEF Stretch
<1>12. HandleOrder'
  <2>1. ASSUME NEW k \in 1..p
        PROVE  /\ k \in 1..m /\ handles'[k] = handles[k]
               /\ requests'[handles[k]] = requests[handles[k]]
    BY <1>1, <1>2, <1>3
  <2>2. \A k \in 1..p : handles'[k] <= taken' /\ (k > 1 => requests'[handles'[k]].kind = "Savepoint")
    BY <1>2, <1>8, <2>1
  <2>3. \A k \in 1..p : \A j \in 1..(k - 1) : handles'[j] < handles'[k]
    <3> SUFFICES ASSUME NEW k \in 1..p, NEW j \in 1..(k - 1) PROVE handles'[j] < handles'[k]
      OBVIOUS
    <3>1. j \in 1..p
      BY <1>1, <1>3
    <3>2. QED
      BY <1>8, <2>1, <3>1
  <2>4. \A k \in 1..p : handles'[k] < n + 1
    BY <1>1, <1>3, <2>1
  <2>5. QED
    BY <1>2, <1>6, <2>2, <2>3, <2>4 DEF HandleOrder
<1>13. ReplyShape'
  BY <1>2 DEF CallerInv, AwaitShape, ReplyShape
<1>14. ASSUME kind = "RollbackTo"
       PROVE  /\ m > 1 /\ Top = handles[m] /\ Top \in 1..n /\ Top <= taken
              /\ IsSavepoint(Top) /\ Tx(Top) = Root /\ Root # 0 /\ handles # <<>>
  <2>1. m > 1 /\ m \in 1..m /\ Top = handles[m] /\ 1 \in 1..(m - 1)
    BY <1>1, <1>2, <1>5, <1>14
  <2>2. Top \in 1..n /\ Top <= taken /\ IsSavepoint(Top) /\ handles[1] < Top
    BY <1>1, <1>8, <2>1
  <2>3. handles # <<>> /\ Root = handles[1] /\ handles[1] \in 1..n
    BY <1>1, <2>1
  <2>4. Top \in (handles[1] + 1)..n
    BY <1>1, <2>2, <2>3
  <2>5. QED
    BY <1>7, <2>1, <2>2, <2>3, <2>4
<1>15. UndoShape'
  <2> SUFFICES ASSUME NEW s \in 1..(n + 1), requests'[s].kind = "RollbackTo"
               PROVE  LET h == requests'[s].undoes
                      IN  /\ h \in 1..(s - 1) /\ h <= taken
                          /\ requests'[h].kind = "Savepoint" /\ requests'[h].name = requests'[s].name
                          /\ requests'[h].tx = requests'[s].tx /\ requests'[s].tx # 0
                          /\ \A i \in (h + 1)..(s - 1) : i \in Statements' => i \in discarded'
    BY <1>2, <1>6 DEF UndoShape
  <2>1. CASE s # n + 1
    <3>1. s \in 1..n /\ requests'[s] = requests[s]
      BY <1>1, <1>2, <2>1
    <3> DEFINE h == requests[s].undoes
    <3>2. /\ h \in 1..(s - 1) /\ h <= taken /\ IsSavepoint(h) /\ NameOf(h) = NameOf(s)
          /\ Tx(h) = Tx(s) /\ Tx(s) # 0
          /\ \A i \in (h + 1)..(s - 1) : i \in Statements => i \in discarded
      BY <1>6, <3>1 DEF HeldInv, UndoShape
    <3> HIDE DEF h
    <3>3. h \in 1..n /\ \A i \in (h + 1)..(s - 1) : i \in 1..n
      BY <1>1, <3>1, <3>2
    <3>4. requests'[h] = requests[h] /\ requests'[s].undoes = h
      BY <1>2, <3>1, <3>3 DEF h
    <3>5. QED
      BY <1>9, <1>10, <3>1, <3>2, <3>3, <3>4
  <2>2. CASE s = n + 1
    <3>1. kind = "RollbackTo"
      BY <1>2, <2>2
    <3>2. requests'[Top] = requests[Top]
      BY <1>2, <1>14, <3>1
    <3>3. \A i \in (Top + 1)..n : i \in Statements' => i \in discarded'
      <4> SUFFICES ASSUME NEW i \in (Top + 1)..n, i \in Statements' PROVE i \in discarded'
        OBVIOUS
      <4>1. i \in 1..n /\ i > Top
        BY <1>1, <1>14, <3>1
      <4>2. QED
        BY <1>2, <1>9, <3>1, <4>1 DEF Since
    <3>4. QED
      BY <1>1, <1>2, <1>14, <2>2, <3>1, <3>2, <3>3
  <2>3. QED
    BY <2>1, <2>2
<1>16. UndoOrder'
  <2> SUFFICES ASSUME NEW s \in 1..(n + 1), requests'[s].kind = "RollbackTo", Pending(s)'
               PROVE  /\ \A k \in 1..p : handles'[k] < requests'[s].undoes
                      /\ \A t \in (s + 1)..(n + 1) : requests'[t].kind = "RollbackTo" =>
                             requests'[t].undoes < requests'[s].undoes
    BY <1>2, <1>6 DEF UndoOrder
  <2>1. Pending(s)
    BY <1>2 DEF Pending
  <2>2. CASE s # n + 1
    <3>1. s \in 1..n /\ requests'[s] = requests[s]
      BY <1>1, <1>2, <2>2
    <3>2. /\ \A k \in 1..m : handles[k] < requests[s].undoes
          /\ \A t \in (s + 1)..n : IsBackTo(t) => requests[t].undoes < requests[s].undoes
      BY <1>6, <2>1, <3>1 DEF HeldInv, UndoOrder
    <3>3. \A k \in 1..p : handles'[k] < requests'[s].undoes
      BY <1>1, <1>3, <3>1, <3>2
    <3>4. ASSUME NEW t \in (s + 1)..(n + 1), requests'[t].kind = "RollbackTo"
          PROVE  requests'[t].undoes < requests'[s].undoes
      <4>1. CASE t = n + 1
        <5>1. kind = "RollbackTo" /\ requests'[t].undoes = Top
          BY <1>2, <3>4, <4>1
        <5>2. Top = handles[m] /\ m \in 1..m
          BY <1>1, <1>14, <5>1
        <5>3. QED
          BY <3>1, <3>2, <5>1, <5>2
      <4>2. CASE t # n + 1
        <5>1. t \in (s + 1)..n /\ t \in 1..n
          BY <1>1, <3>1, <4>2
        <5>2. QED
          BY <1>2, <3>1, <3>2, <3>4, <5>1
      <4>3. QED
        BY <4>1, <4>2
    <3>5. QED
      BY <3>3, <3>4
  <2>3. CASE s = n + 1
    <3>1. kind = "RollbackTo" /\ requests'[s].undoes = Top
      BY <1>2, <2>3
    <3>2. Top = handles[m] /\ p = m - 1
      BY <1>3, <1>14, <3>1
    <3>3. \A k \in 1..p : handles'[k] < Top
      BY <1>1, <1>3, <1>8, <3>2
    <3>4. QED
      BY <1>1, <2>3, <3>1, <3>3
  <2>4. QED
    BY <2>2, <2>3
<1>17. NameShape'
  <2> SUFFICES ASSUME ~shadowed'
               PROVE  /\ \A k \in 2..p : \A s \in (handles'[k] + 1)..(n + 1) :
                             requests'[s].kind = "Savepoint" =>
                                 requests'[s].name # requests'[handles'[k]].name
                      /\ \A t \in 1..(n + 1) : requests'[t].kind = "RollbackTo" =>
                             \A s \in (requests'[t].undoes + 1)..(t - 1) :
                                 requests'[s].kind = "Savepoint" =>
                                     requests'[s].name # requests'[t].name
    BY <1>2, <1>6 DEF NameShape
  <2>1. /\ \A k \in 2..m : \A s \in (handles[k] + 1)..n :
               IsSavepoint(s) => NameOf(s) # NameOf(handles[k])
        /\ \A t \in 1..n : IsBackTo(t) =>
               \A s \in (requests[t].undoes + 1)..(t - 1) :
                   IsSavepoint(s) => NameOf(s) # NameOf(t)
    BY <1>2, <1>6 DEF HeldInv, NameShape
  <2>2. ASSUME NEW k \in 2..p, NEW s \in (handles'[k] + 1)..(n + 1), requests'[s].kind = "Savepoint"
        PROVE  requests'[s].name # requests'[handles'[k]].name
    <3>1. k \in 2..m /\ k \in 1..p /\ k \in 1..m
      BY <1>1, <1>3
    <3>2. handles'[k] = handles[k] /\ handles[k] \in 1..n /\ requests'[handles[k]] = requests[handles[k]]
      BY <1>1, <1>2, <1>3, <3>1
    <3>3. CASE s = n + 1
      BY <1>2, <2>2, <3>1, <3>2, <3>3
    <3>4. CASE s # n + 1
      <4>1. s \in (handles[k] + 1)..n /\ s \in 1..n
        BY <1>1, <2>2, <3>2, <3>4
      <4>2. QED
        BY <1>2, <2>1, <2>2, <3>1, <3>2, <4>1
    <3>5. QED
      BY <3>3, <3>4
  <2>3. ASSUME NEW t \in 1..(n + 1), requests'[t].kind = "RollbackTo",
               NEW s \in (requests'[t].undoes + 1)..(t - 1), requests'[s].kind = "Savepoint"
        PROVE  requests'[s].name # requests'[t].name
    <3>1. CASE t = n + 1
      <4>1. /\ kind = "RollbackTo" /\ m \in 2..m /\ Top = handles[m] /\ Top \in 1..n
            /\ s \in (Top + 1)..n /\ r.name = NameOf(Top)
        BY <1>1, <1>2, <1>14, <2>3, <3>1
      <4>2. s \in 1..n /\ requests'[s] = requests[s]
        BY <1>1, <1>2, <4>1
      <4>3. QED
        BY <2>1, <2>3, <3>1, <4>1, <4>2
    <3>2. CASE t # n + 1
      <4>1. t \in 1..n /\ requests'[t] = requests[t]
        BY <1>1, <1>2, <3>2
      <4>2. requests[t].undoes \in 1..(t - 1)
        BY <1>6, <2>3, <4>1 DEF HeldInv, UndoShape
      <4>3. s \in 1..n /\ s \in (requests[t].undoes + 1)..(t - 1)
        BY <1>1, <2>3, <4>1, <4>2
      <4>4. QED
        BY <1>2, <2>1, <2>3, <4>1, <4>3
    <3>3. QED
      BY <3>1, <3>2
  <2>4. QED
    BY <2>2, <2>3
<1>18. GivenUpShape'
  <2>1. \A i \in discarded : i \in Statements
    BY DEF HeldInv, GivenUpShape
  <2>2. \A i \in discarded' : i \in Statements
    BY <1>2, <2>1 DEF Since
  <2>3. Statements \subseteq 1..n
    BY <1>6 DEF Statements
  <2>4. \A i \in discarded' : i \in 1..n /\ i \in Statements'
    BY <1>9, <2>2, <2>3
  <2>5. \A i \in 1..n : i # awaiting'
    BY <1>1, <1>2
  <2>6. QED
    BY <2>4, <2>5 DEF GivenUpShape
<1>19. QED
  BY <1>11, <1>12, <1>13, <1>15, <1>16, <1>17, <1>18 DEF HeldInv

\* A step that sends nothing, opens no handle and gives up statements only.
LEMMA HeldFrame ==
    ASSUME TypeOK, TypeOK', HeldInv, requests' = requests, taken <= taken',
           \A r \in Sent : Pending(r)' => Pending(r),
           handles' = handles \/ LosesTop,
           awaiting' \in {0, awaiting},
           discarded \subseteq discarded',
           \A i \in discarded' : i \in Statements /\ i # awaiting',
           shadowed' = shadowed, ReplyShape'
    PROVE  HeldInv'
<1> USE DEF Tx, IsBegin, Ends, IsSavepoint, IsBackTo, NameOf
<1> DEFINE n == Len(requests)
           m == Len(handles)
           p == Len(handles')
<1>1. /\ n \in Nat /\ m \in Nat /\ taken \in 0..n /\ taken' \in 0..n /\ awaiting \in 0..n
      /\ \A k \in 1..m : handles[k] \in 1..n
      /\ handles = <<>> <=> m = 0
  <2>1. handles = <<>> <=> m = 0
    BY HandleBasics
  <2>2. taken' \in 0..n
    BY SentIsNat DEF TypeOK, Sent
  <2>3. QED
    BY <2>1, <2>2, Basics, HandleBasics
<1>2. p \in 0..m /\ \A k \in 1..p : handles'[k] = handles[k]
  <2>1. CASE handles' = handles
    BY <1>1, <2>1
  <2>2. CASE LosesTop
    <3>1. m # 0 /\ p = m - 1 /\ \A k \in 1..(m - 1) : handles'[k] = handles[k]
      BY <1>1, <2>2 DEF LosesTop
    <3> HIDE DEF m, p
    <3>2. QED
      BY <1>1, <3>1
  <2>3. QED
    BY <2>1, <2>2
<1>3. handles' # <<>> => p # 0
  BY EmptySeq DEF TypeOK
<1> HIDE DEF n, m, p
<1>4. handles' # <<>> => handles # <<>> /\ handles'[1] = handles[1]
  BY <1>1, <1>2, <1>3
<1>5. Len(requests) = n /\ Len(handles) = m /\ Len(handles') = p /\ Sent = 1..n /\ Sent' = Sent
      /\ Statements' = Statements
  BY DEF Sent, Statements, n, m, p
<1>6. Stretch'
  BY <1>4, <1>5 DEF HeldInv, Stretch
<1>7. HandleOrder'
  <2>1. /\ \A k \in 1..m : handles[k] <= taken /\ (k > 1 => IsSavepoint(handles[k]))
        /\ \A k \in 1..m : \A j \in 1..(k - 1) : handles[j] < handles[k]
        /\ awaiting # 0 => \A k \in 1..m : handles[k] < awaiting
    BY <1>5 DEF HeldInv, HandleOrder
  <2>2. ASSUME NEW k \in 1..p
        PROVE  /\ k \in 1..m /\ handles'[k] = handles[k]
               /\ \A j \in 1..(k - 1) : handles'[j] = handles[j]
               /\ handles'[k] <= taken'
    <3>1. k \in 1..m /\ \A j \in 1..(k - 1) : j \in 1..p
      BY <1>1, <1>2
    <3>2. QED
      BY <1>1, <1>2, <2>1, <3>1
  <2>3. /\ \A k \in 1..p : handles'[k] <= taken' /\ (k > 1 => requests'[handles'[k]].kind = "Savepoint")
        /\ \A k \in 1..p : \A j \in 1..(k - 1) : handles'[j] < handles'[k]
    BY <2>1, <2>2
  <2>4. awaiting' # 0 => \A k \in 1..p : handles'[k] < awaiting'
    BY <2>1, <2>2
  <2>5. QED
    BY <1>5, <2>3, <2>4 DEF HandleOrder
<1>8. UndoShape'
  <2> SUFFICES ASSUME NEW s \in 1..n, requests[s].kind = "RollbackTo"
               PROVE  LET h == requests[s].undoes
                      IN  /\ h \in 1..(s - 1) /\ h <= taken'
                          /\ requests[h].kind = "Savepoint" /\ requests[h].name = requests[s].name
                          /\ requests[h].tx = requests[s].tx /\ requests[s].tx # 0
                          /\ \A i \in (h + 1)..(s - 1) : i \in Statements => i \in discarded'
    BY <1>5 DEF UndoShape
  <2> DEFINE h == requests[s].undoes
  <2>1. /\ h \in 1..(s - 1) /\ h <= taken /\ IsSavepoint(h) /\ NameOf(h) = NameOf(s)
        /\ Tx(h) = Tx(s) /\ Tx(s) # 0
        /\ \A i \in (h + 1)..(s - 1) : i \in Statements => i \in discarded
    BY <1>5 DEF HeldInv, UndoShape
  <2>2. h <= taken'
    BY <1>1, <2>1
  <2>3. QED
    BY <2>1, <2>2
<1>9. UndoOrder'
  <2> SUFFICES ASSUME NEW s \in 1..n, requests[s].kind = "RollbackTo", Pending(s)'
               PROVE  /\ \A k \in 1..p : handles'[k] < requests[s].undoes
                      /\ \A t \in (s + 1)..n : requests[t].kind = "RollbackTo" =>
                             requests[t].undoes < requests[s].undoes
    BY <1>5 DEF UndoOrder
  <2>1. /\ \A k \in 1..m : handles[k] < requests[s].undoes
        /\ \A t \in (s + 1)..n : IsBackTo(t) => requests[t].undoes < requests[s].undoes
    BY <1>5 DEF HeldInv, UndoOrder
  <2>2. \A k \in 1..p : k \in 1..m /\ handles'[k] = handles[k]
    BY <1>1, <1>2
  <2>3. QED
    BY <2>1, <2>2
<1>10. NameShape'
  <2> SUFFICES ASSUME ~shadowed
               PROVE  /\ \A k \in 2..p : \A s \in (handles'[k] + 1)..n :
                             IsSavepoint(s) => NameOf(s) # NameOf(handles'[k])
                      /\ \A t \in 1..n : IsBackTo(t) =>
                             \A s \in (requests[t].undoes + 1)..(t - 1) :
                                 IsSavepoint(s) => NameOf(s) # NameOf(t)
    BY <1>5 DEF NameShape
  <2>1. /\ \A k \in 2..m : \A s \in (handles[k] + 1)..n :
               IsSavepoint(s) => NameOf(s) # NameOf(handles[k])
        /\ \A t \in 1..n : IsBackTo(t) =>
               \A s \in (requests[t].undoes + 1)..(t - 1) :
                   IsSavepoint(s) => NameOf(s) # NameOf(t)
    BY <1>5 DEF HeldInv, NameShape
  <2>2. \A k \in 2..p : k \in 2..m /\ handles'[k] = handles[k]
    BY <1>1, <1>2
  <2>3. QED
    BY <2>1, <2>2
<1>11. GivenUpShape'
  BY <1>5 DEF GivenUpShape
<1>12. QED
  BY <1>6, <1>7, <1>8, <1>9, <1>10, <1>11 DEF HeldInv

\* The request awaited becomes the innermost handle.
Opens ==
    /\ Len(handles') = Len(handles) + 1
    /\ \A k \in 1..Len(handles) : handles'[k] = handles[k]
    /\ handles'[Len(handles) + 1] = awaiting

LEMMA AppendOpens ==
    ASSUME TypeOK, awaiting \in Sent, handles' = Append(handles, awaiting)
    PROVE  Opens
BY DEF TypeOK, Opens

\* A begin or a savepoint that succeeded opens a handle.
LEMMA OpensHeld ==
    ASSUME TypeOK, CallerInv, HeldInv, reply = "ok", awaiting # 0,
           requests[awaiting].kind \in {"Begin", "Savepoint"},
           Opens, awaiting' = 0, reply' = "none",
           UNCHANGED <<requests, taken, pc, discarded, shadowed>>
    PROVE  HeldInv'
<1> USE DEF Tx, IsBegin, Ends, IsSavepoint, IsBackTo, NameOf
<1> DEFINE n == Len(requests)
           m == Len(handles)
           p == Len(handles')
<1>1. /\ n \in Nat /\ m \in Nat /\ taken \in 0..n /\ awaiting \in 1..n
      /\ \A k \in 1..m : handles[k] \in 1..n
  BY Basics, HandleBasics
<1>2. /\ p = m + 1 /\ \A k \in 1..m : handles'[k] = handles[k]
      /\ handles'[p] = awaiting
      /\ handles # <<>> => m # 0
      /\ handles = <<>> => m = 0
  <2>1. handles = <<>> <=> m = 0
    BY HandleBasics
  <2>2. QED
    BY <2>1 DEF Opens
<1> HIDE DEF n, m, p
<1>3. Len(requests) = n /\ Len(handles) = m /\ Len(handles') = p /\ Sent = 1..n /\ Sent' = Sent
      /\ Statements' = Statements
  BY DEF Sent, Statements, n, m, p
<1>4. /\ awaiting = n /\ awaiting = taken /\ pc # "sent"
      /\ requests[awaiting].kind = "Begin" => m = 0
      /\ requests[awaiting].kind = "Savepoint" => m # 0
  BY <1>2, <1>3 DEF CallerInv, AwaitShape, HeldInv, ReplyShape
<1>5. Stretch'
  <2>1. ASSUME handles' # <<>>, NEW i \in (handles'[1] + 1)..n
        PROVE  requests[i].tx = handles'[1] /\ requests[i].kind \notin {"Commit", "Rollback"}
    <3>1. CASE m = 0
      BY <1>1, <1>2, <1>4, <2>1, <3>1
    <3>2. CASE m # 0
      <4>1. handles'[1] = handles[1] /\ handles # <<>>
        BY <1>1, <1>2, <3>2
      <4>2. QED
        BY <1>3, <2>1, <4>1 DEF HeldInv, Stretch
    <3>3. QED
      BY <3>1, <3>2
  <2>2. QED
    BY <1>3, <2>1 DEF HeldInv, Stretch
<1>6. HandleOrder'
  <2>1. /\ \A k \in 1..m : handles[k] <= taken /\ (k > 1 => IsSavepoint(handles[k]))
        /\ \A k \in 1..m : \A j \in 1..(k - 1) : handles[j] < handles[k]
        /\ \A k \in 1..m : handles[k] < awaiting
    BY <1>1, <1>3 DEF HeldInv, HandleOrder
  <2>2. ASSUME NEW k \in 1..p
        PROVE  /\ handles'[k] <= taken /\ (k > 1 => requests[handles'[k]].kind = "Savepoint")
               /\ \A j \in 1..(k - 1) : handles'[j] < handles'[k]
    <3>1. CASE k = p
      <4>1. ASSUME NEW j \in 1..(k - 1) PROVE handles'[j] < handles'[k]
        <5>1. j \in 1..m /\ handles'[k] = awaiting
          BY <1>1, <1>2, <3>1
        <5>2. handles'[j] = handles[j] /\ handles[j] < awaiting
          BY <1>2, <2>1, <5>1
        <5>3. QED
          BY <5>1, <5>2
      <4>2. k > 1 => m # 0
        BY <1>1, <1>2, <3>1
      <4>3. QED
        BY <1>1, <1>2, <1>4, <3>1, <4>1, <4>2
    <3>2. CASE k # p
      <4>1. k \in 1..m /\ handles'[k] = handles[k] /\ \A j \in 1..(k - 1) : handles'[j] = handles[j]
        BY <1>1, <1>2, <3>2
      <4>2. QED
        BY <2>1, <4>1
    <3>3. QED
      BY <3>1, <3>2
  <2>3. QED
    BY <1>3, <2>2 DEF HandleOrder
<1>7. ReplyShape'
  BY DEF ReplyShape
<1>8. UndoShape'
  BY <1>3 DEF HeldInv, UndoShape
<1>9. UndoOrder'
  <2>1. \A s \in 1..n : ~Pending(s)'
    BY <1>1, <1>4 DEF Pending
  <2>2. QED
    BY <1>3, <2>1 DEF UndoOrder
<1>10. NameShape'
  <2> SUFFICES ASSUME ~shadowed
               PROVE  /\ \A k \in 2..p : \A s \in (handles'[k] + 1)..n :
                             IsSavepoint(s) => NameOf(s) # NameOf(handles'[k])
                      /\ \A t \in 1..n : IsBackTo(t) =>
                             \A s \in (requests[t].undoes + 1)..(t - 1) :
                                 IsSavepoint(s) => NameOf(s) # NameOf(t)
    BY <1>3 DEF NameShape
  <2>1. /\ \A k \in 2..m : \A s \in (handles[k] + 1)..n :
               IsSavepoint(s) => NameOf(s) # NameOf(handles[k])
        /\ \A t \in 1..n : IsBackTo(t) =>
               \A s \in (requests[t].undoes + 1)..(t - 1) :
                   IsSavepoint(s) => NameOf(s) # NameOf(t)
    BY <1>3 DEF HeldInv, NameShape
  <2>2. ASSUME NEW k \in 2..p, NEW s \in (handles'[k] + 1)..n
        PROVE  k \in 2..m /\ handles'[k] = handles[k]
    BY <1>1, <1>2, <1>4
  <2>3. QED
    BY <2>1, <2>2
<1>11. GivenUpShape'
  <2>1. \A i \in Statements : i # 0
    BY <1>1, <1>3 DEF Statements
  <2>2. QED
    BY <1>3, <2>1 DEF HeldInv, GivenUpShape
<1>12. QED
  BY <1>5, <1>6, <1>7, <1>8, <1>9, <1>10, <1>11 DEF HeldInv

\* The steps that leave the caller and the channel alone.
LEMMA TaskHeld ==
    ASSUME TypeOK, TypeOK', CallerInv', HeldInv, UNCHANGED callerVars, requests' = requests,
           UNCHANGED <<discarded, shadowed>>,
           \/ taken' = taken /\ (pc' = "sent" => pc = "sent")
           \/ taken' = taken + 1,
           ReplyShape'
    PROVE  HeldInv'
<1>1. taken \in Nat /\ taken <= taken' /\ Sent \subseteq Nat
  BY Basics, SentIsNat
<1>2. \A r \in Sent : Pending(r)' => Pending(r)
  BY <1>1 DEF Pending
<1>3. \A i \in discarded : i \in Statements /\ i # awaiting
  BY DEF HeldInv, GivenUpShape
<1>4. QED
  BY <1>1, <1>2, <1>3, HeldFrame DEF callerVars

LEMMA HeldStep == TypeOK /\ TypeOK' /\ CallerInv /\ CallerInv' /\ HeldInv /\ [AnyNext]_vars => HeldInv'
<1> SUFFICES ASSUME TypeOK, TypeOK', CallerInv, CallerInv', HeldInv, [AnyNext]_vars PROVE HeldInv'
  OBVIOUS
<1>1. /\ taken \in Nat /\ awaiting \in 0..Len(requests) /\ Len(requests) \in Nat
      /\ taken \in 0..Len(requests)
      /\ Statements \subseteq Nat \ {0}
      /\ \A i \in discarded : i \in Statements /\ i # awaiting
      /\ reply \notin {"none", "closed"} => awaiting = taken
      /\ reply # "none" => awaiting = Len(requests) /\ awaiting # 0
  BY Basics, SentIsNat DEF Statements, HeldInv, GivenUpShape, ReplyShape, CallerInv, AwaitShape
<1>2. CASE Sends
  BY <1>2, SendsAsk, AskHeld
<1>3. CASE CommitSavepoint \/ ConsumeClosed
  <2>1. /\ handles # <<>> /\ Pop
        /\ UNCHANGED <<requests, taken, pc, awaiting, reply, trancount, shadowed>>
        /\ awaiting = 0
        /\ discarded' = discarded \/ discarded' = discarded \cup Since(Top)
    <3>1. CASE CommitSavepoint
      <4>1. handles # <<>>
        BY <3>1, EmptySeq DEF CommitSavepoint
      <4>2. QED
        BY <3>1, <4>1 DEF CommitSavepoint, channelVars, taskVars, serverVars, ledgerVars, Idle
    <3>2. CASE ConsumeClosed
      BY <3>2 DEF ConsumeClosed, Discard, channelVars, taskVars, serverVars, Idle
    <3>3. QED
      BY <1>3, <3>1, <3>2
  <2>2. LosesTop
    BY <2>1, PopLosesTop
  <2>3. /\ discarded \subseteq discarded'
        /\ \A i \in discarded' : i \in Statements /\ i # awaiting'
    BY <1>1, <2>1 DEF Since
  <2>4. ReplyShape' /\ \A r \in Sent : Pending(r)' => Pending(r)
    BY <1>1, <2>1 DEF ReplyShape, Pending
  <2>5. QED
    BY <1>1, <2>1, <2>2, <2>3, <2>4, HeldFrame
<1>4. CASE GiveUp
  <2>1. /\ UNCHANGED <<requests, taken, pc, handles, shadowed>> /\ awaiting' = 0 /\ reply' = "none"
        /\ discarded' \subseteq discarded \cup ({awaiting} \cap Statements)
        /\ discarded \subseteq discarded'
    BY <1>4 DEF GiveUp, channelVars, taskVars
  <2>2. \A i \in discarded' : i \in Statements /\ i # awaiting'
    BY <1>1, <2>1
  <2>3. ReplyShape' /\ \A r \in Sent : Pending(r)' => Pending(r)
    BY <2>1 DEF ReplyShape, Pending
  <2>4. QED
    BY <1>1, <2>1, <2>2, <2>3, HeldFrame
<1>5. CASE Return
  <2>1. /\ UNCHANGED <<requests, taken, pc, shadowed>> /\ awaiting # 0 /\ awaiting' = 0
        /\ reply' = "none"
        /\ handles' = IF reply = "ok" /\ requests[awaiting].kind \in {"Begin", "Savepoint"}
                      THEN Append(handles, awaiting) ELSE handles
        /\ discarded' = IF reply = "aborted" /\ requests[awaiting].kind = "Commit"
                        THEN discarded \cup Settled(awaiting) ELSE discarded
    BY <1>5 DEF Return, channelVars, taskVars
  <2>2. CASE reply = "ok" /\ requests[awaiting].kind \in {"Begin", "Savepoint"}
    <3>1. Opens
      BY <1>1, <2>1, <2>2, AppendOpens DEF Sent
    <3>2. QED
      BY <2>1, <2>2, <3>1, OpensHeld
  <2>3. CASE ~(reply = "ok" /\ requests[awaiting].kind \in {"Begin", "Savepoint"})
    <3>1. handles' = handles
      BY <2>1, <2>3
    <3>2. discarded \subseteq discarded' /\ \A i \in discarded' : i \in Statements /\ i # awaiting'
      BY <1>1, <2>1 DEF Settled, Since
    <3>3. ReplyShape' /\ \A r \in Sent : Pending(r)' => Pending(r)
      BY <2>1 DEF ReplyShape, Pending
    <3>4. QED
      BY <1>1, <2>1, <3>1, <3>2, <3>3, HeldFrame
  <2>4. QED
    BY <2>2, <2>3
<1>6. CASE Skip \/ ReceiveAborted \/ Dispatch
  <2>1. /\ Receive /\ UNCHANGED trancount
        /\ \/ reply' = reply
           \/ ReceiveAborted /\ awaiting = taken' /\ txState = "Aborted"
    BY <1>6 DEF Skip, ReceiveAborted, Dispatch, serverVars
  <2>2. /\ taken < Len(requests) /\ taken' = taken + 1 /\ UNCHANGED callerVars
        /\ requests' = requests /\ UNCHANGED <<discarded, shadowed>>
    BY <2>1 DEF Receive, ledgerVars
  <2>3. reply = "none" \/ reply = "closed"
    BY <1>1, <2>2
  <2>4. ReplyShape'
    BY <2>1, <2>2, <2>3 DEF ReplyShape, callerVars
  <2>5. QED
    BY <2>2, <2>4, TaskHeld
<1>7. CASE Reply \/ ReplyBegin \/ ReplyEnd \/ LoseMasked
  <2>1. /\ UNCHANGED callerVars /\ UNCHANGED channelVars /\ pc' # "sent"
        /\ UNCHANGED <<trancount, discarded, shadowed>>
        /\ Answer(result) \/ Answer("err")
        /\ result \in {"ok", "err"}
    BY <1>7 DEF Reply, ReplyBegin, ReplyEnd, LoseMasked, NextRound, serverVars, ledgerVars, TypeOK
  <2>2. ReplyShape'
    BY <1>1, <2>1 DEF ReplyShape, Answer, callerVars, channelVars
  <2>3. QED
    BY <2>1, <2>2, TaskHeld DEF channelVars
<1>8. CASE ReplyLost \/ CleanupFails \/ CancelFails \/ Shutdown \/ DropTask
  <2>1. PICK v \in {"none", "io"} :
            /\ End(v) /\ UNCHANGED callerVars /\ UNCHANGED channelVars
            /\ UNCHANGED <<discarded, shadowed>>
    BY <1>8 DEF ReplyLost, CleanupFails, CancelFails, Shutdown, DropTask, ledgerVars
  <2>2. ReplyShape' /\ pc' = "ended"
    BY <1>1, <2>1 DEF End, ReplyShape, callerVars, channelVars
  <2>3. QED
    BY <2>1, <2>2, TaskHeld DEF channelVars
<1>9. CASE UndoBegin \/ RestoreIsolation \/ ServeStatement \/ ServeControl \/ CancelStops
  <2>1. /\ UNCHANGED callerVars /\ UNCHANGED channelVars /\ pc' # "sent"
        /\ UNCHANGED <<reply, discarded, shadowed>>
        /\ trancount' \in {0, trancount} \/ pc = "sent"
    BY <1>9 DEF UndoBegin, RestoreIsolation, ServeStatement, ServeControl, CancelStops, Running,
       Responds, RunStatement, RunBegin, RunCommit, RunRollback, RunSavepoint, RunRollbackTo,
       NextRound, ledgerVars
  <2>2. pc = "sent" => reply # "aborted"
    BY <1>1 DEF CallerInv, AwaitShape
  <2>3. ReplyShape'
    BY <1>1, <2>1, <2>2 DEF ReplyShape, callerVars, channelVars
  <2>4. QED
    BY <2>1, <2>3, TaskHeld DEF channelVars
<1>10. CASE ClientGoes \/ Lose \/ Stopped \/ UNCHANGED vars
  <2>1. UNCHANGED <<handles, awaiting, requests, taken, pc, reply, trancount, discarded, shadowed>>
    BY <1>10 DEF ClientGoes, Lose, Stopped, vars, callerVars, channelVars, taskVars, serverVars, ledgerVars
  <2>2. ReplyShape' /\ \A r \in Sent : Pending(r)' => Pending(r)
    BY <1>1, <2>1 DEF ReplyShape, Pending
  <2>3. QED
    BY <1>1, <2>1, <2>2, HeldFrame
<1>11. QED
  BY <1>2, <1>3, <1>4, <1>5, <1>6, <1>7, <1>8, <1>9, <1>10, AreAny
     DEF Sends, AnyNext, Next, CallerNext, TaskNext, ServerNext

-----------------------------------------------------------------------------
(* The steps of Next, as the rest of the invariant sees them.              *)

\* The steps that leave the task and what the session did alone.
CallerMoves ==
    \/ Sends \/ CommitSavepoint \/ ConsumeClosed \/ GiveUp \/ Return
    \/ ClientGoes \/ Lose \/ Stopped \/ UNCHANGED vars

LEMMA CallerMovesFrame ==
    ASSUME TypeOK, AgreeInv, CallerMoves
    PROVE  /\ UNCHANGED <<taken, pc, txState, levelChanged, result, trancount, level, work, marks,
                          durable>>
           /\ reply' \in {reply, "none"}
           /\ awaiting' = taken => awaiting = taken \/ taken = 0
           /\ orphaned => orphaned'
           /\ shadowed => shadowed'
           /\ discarded \subseteq discarded'
           /\ \A i \in 1..taken : requests'[i] = requests[i]
<1>1. taken \in 0..Len(requests) /\ Len(requests) \in Nat
  BY Basics
<1>2. CASE Sends
  <2>1. PICK kind \in Kinds : Asks(kind)
    BY <1>2, SendsAsk
  <2>2. Len(requests) + 1 # taken /\ \A i \in 1..taken : i \in 1..Len(requests)
    BY <1>1
  <2>3. QED
    BY <2>1, <2>2 DEF Asks, taskVars, serverVars
<1>3. CASE CommitSavepoint \/ ConsumeClosed
  BY <1>3 DEF CommitSavepoint, ConsumeClosed, Discard, channelVars, taskVars, serverVars, ledgerVars
<1>4. CASE GiveUp
  BY <1>4 DEF GiveUp, channelVars, taskVars, serverVars
<1>5. CASE Return
  BY <1>5 DEF Return, channelVars, taskVars, serverVars
<1>6. CASE ClientGoes \/ Lose \/ Stopped \/ UNCHANGED vars
  BY <1>6 DEF ClientGoes, Lose, Stopped, vars, callerVars, channelVars, taskVars, serverVars, ledgerVars
<1>7. QED
  BY <1>2, <1>3, <1>4, <1>5, <1>6 DEF CallerMoves

LEMMA CallerMovesInside ==
    ASSUME TypeOK, AgreeInv, CallerMoves, taken # 0, pc # "ended"
    PROVE  /\ Inside(taken)' => Inside(taken)
           /\ ~orphaned' => (Inside(taken)' <=> Inside(taken))
<1>1. CASE Sends
  BY <1>1, SendsIssue, IssueInside DEF AgreeInv
<1>2. CASE CommitSavepoint
  <2>1. UNCHANGED <<requests, awaiting, reply, taken, pc>> /\ Len(handles) > 1 /\ Pop
    BY <1>2 DEF CommitSavepoint, channelVars, taskVars
  <2>2. handles # <<>>
    BY <2>1, EmptySeq
  <2>3. handles' # <<>> /\ handles'[1] = handles[1]
    <3> DEFINE m == Len(handles)
               p == Len(handles')
    <3>1. m \in Nat /\ m > 1 /\ p = m - 1 /\ \A k \in 1..(m - 1) : handles'[k] = handles[k]
      BY <2>1, <2>2, PopLosesTop, HandleBasics DEF LosesTop
    <3>2. handles' = <<>> => p = 0
      BY EmptySeq
    <3> HIDE DEF m, p
    <3>3. QED
      BY <3>1, <3>2
  <2>4. QED
    BY <2>1, <2>2, <2>3 DEF Inside, Claimed, Tx, IsBegin, Ends
<1>3. CASE GiveUp
  <2>1. /\ UNCHANGED <<requests, taken, handles>>
        /\ awaiting # 0 /\ awaiting' = 0 /\ reply' = "none"
        /\ orphaned' = (orphaned \/ (requests[awaiting].kind = "Begin" /\ reply = "ok"))
    BY <1>3 DEF GiveUp, channelVars
  <2>2. QED
    BY <2>1 DEF Inside, Claimed, Tx, IsBegin, Ends
<1>4. CASE Return
  <2>1. /\ UNCHANGED <<requests, taken, pc>>
        /\ awaiting # 0 /\ awaiting' = 0 /\ reply' = "none"
        /\ \/ handles' = handles /\ ~(reply = "ok" /\ IsBegin(awaiting))
           \/ /\ handles # <<>> /\ handles' # <<>> /\ handles'[1] = handles[1]
              /\ ~IsBegin(awaiting)
           \/ /\ reply = "ok" /\ IsBegin(awaiting) /\ handles = <<>>
              /\ handles' # <<>> /\ handles'[1] = awaiting
    BY <1>4, ReturnFacts DEF AgreeInv
  <2>2. IsBegin(taken) => (Claimed(taken)' <=> Claimed(taken))
    BY <2>1 DEF Claimed, Tx
  <2>3. QED
    BY <2>1, <2>2 DEF Inside, Tx, IsBegin, Ends
<1>5. CASE ClientGoes \/ Lose \/ Stopped \/ UNCHANGED vars
  <2>1. UNCHANGED <<handles, awaiting, requests, taken, reply>>
    BY <1>5 DEF ClientGoes, Lose, Stopped, vars, callerVars, channelVars, taskVars
  <2>2. QED
    BY <2>1 DEF Inside, Claimed, Tx, IsBegin, Ends
<1>6. CASE ConsumeClosed
  BY <1>6 DEF ConsumeClosed
<1>7. QED
  BY <1>1, <1>2, <1>3, <1>4, <1>5, <1>6 DEF CallerMoves

Receives == Skip \/ ReceiveAborted \/ Dispatch
Answering == Reply \/ ReplyBegin \/ ReplyEnd \/ LoseMasked
Cleaning == UndoBegin \/ RestoreIsolation
Ending == ReplyLost \/ CleanupFails \/ CancelFails \/ Shutdown \/ DropTask
Serving == ServeStatement \/ ServeControl \/ CancelStops

LEMMA NextCases ==
    ASSUME [AnyNext]_vars
    PROVE  CallerMoves \/ Receives \/ Answering \/ Cleaning \/ Ending \/ Serving
BY AreAny
   DEF AnyNext, Next, CallerNext, TaskNext, ServerNext, CallerMoves, Receives, Answering, Cleaning,
   Ending, Serving, Sends

LEMMA ReceivesFrame ==
    ASSUME TypeOK, AgreeInv, HeldInv, Receives
    PROVE  /\ Receive /\ pc = "idle" /\ taken \in Nat /\ taken < Len(requests) /\ taken' = taken + 1
           /\ UNCHANGED <<handles, awaiting, requests, result, trancount, level, levelChanged, work,
                          marks, durable, acked, kept, discarded, orphaned, shadowed>>
           /\ reply \in {"none", "closed"}
           /\ reply' = "ok" => requests[taken + 1].kind = "Rollback"
           /\ reply' = "aborted" => txState = "Aborted"
           /\ \A i \in 1..taken' : ~OkUnread(i)' \/ requests[i].kind = "Rollback"
<1>1. /\ Receive /\ pc = "idle" /\ taken < Len(requests) /\ taken' = taken + 1
      /\ UNCHANGED <<handles, awaiting, requests, result, trancount, level, levelChanged, work,
                     marks, durable, acked, kept, discarded, orphaned, shadowed>>
      /\ pc' \in {"idle", "sent", "restoring"}
  BY DEF Receives, Skip, ReceiveAborted, Dispatch, Receive, callerVars, taskVars, serverVars,
     ledgerVars
<1>2. taken \in Nat /\ Len(requests) \in Nat /\ awaiting \in {0, Len(requests)}
  BY Basics DEF AgreeInv, CallerInv, AwaitShape
<1>3. reply \notin {"none", "closed"} => awaiting = taken /\ awaiting # 0
  BY DEF HeldInv, ReplyShape, AgreeInv, CallerInv, AwaitShape
<1>4. reply \in {"none", "closed"}
  BY <1>1, <1>2, <1>3
<1>5. /\ reply' = "ok" => requests[taken + 1].kind = "Rollback" /\ awaiting = taken + 1
      /\ reply' = "aborted" => txState = "Aborted"
  BY <1>1, <1>4 DEF Receives, Skip, ReceiveAborted, Dispatch
<1>6. QED
  BY <1>1, <1>2, <1>4, <1>5 DEF OkUnread

LEMMA AnsweringFrame ==
    ASSUME TypeOK, AgreeInv, HeldInv, Answering
    PROVE  /\ pc \in {"sent", "answered"} /\ pc' \in {"idle", "undoing", "restoring"}
           /\ UNCHANGED callerVars /\ UNCHANGED channelVars
           /\ UNCHANGED <<result, trancount, level, work, marks, durable, acked, kept, discarded,
                          orphaned, shadowed>>
           /\ pc = "sent" => requests[taken].kind = "Statement"
           /\ taken # 0
           /\ \A i \in Nat : OkUnread(i)' => OkUnread(i)
           /\ reply' = "aborted" => reply = "aborted"
<1>1. /\ pc \in {"sent", "answered"} /\ pc' \in {"idle", "undoing", "restoring"}
      /\ UNCHANGED callerVars /\ UNCHANGED channelVars
      /\ UNCHANGED <<result, trancount, level, work, marks, durable, acked, kept, discarded,
                     orphaned, shadowed>>
      /\ pc = "sent" => requests[taken].kind = "Statement"
      /\ (pc = "answered" /\ Answer(result)) \/ Answer("err")
  BY DEF Answering, Reply, ReplyBegin, ReplyEnd, LoseMasked, NextRound, serverVars, ledgerVars,
     Current
<1>2. taken # 0 /\ result \in {"ok", "err"}
  BY <1>1 DEF TypeOK
<1>3. \A i \in Nat : OkUnread(i)' => OkUnread(i)
  BY <1>1 DEF OkUnread, Answer, callerVars, channelVars
<1>4. reply' = "aborted" => reply = "aborted"
  BY <1>1, <1>2 DEF Answer
<1>5. QED
  BY <1>1, <1>2, <1>3, <1>4

LEMMA EndingFrame ==
    ASSUME TypeOK, Ending
    PROVE  /\ pc' = "ended"
           /\ UNCHANGED callerVars /\ UNCHANGED channelVars
           /\ UNCHANGED <<txState, levelChanged, result, trancount, level, work, marks, durable,
                          acked, kept, discarded, orphaned, shadowed>>
           /\ reply' = "ok" => reply = "ok"
           /\ reply' = "aborted" => reply = "aborted"
           /\ \A i \in Nat : OkUnread(i)' => OkUnread(i)
<1>1. PICK v \in {"none", "io"} : End(v)
  BY DEF Ending, ReplyLost, CleanupFails, CancelFails, Shutdown, DropTask
<1>2. UNCHANGED callerVars /\ UNCHANGED channelVars /\ UNCHANGED ledgerVars
  BY DEF Ending, ReplyLost, CleanupFails, CancelFails, Shutdown, DropTask
<1>3. reply' \in {reply, v, "closed"}
  BY <1>1 DEF End
<1>4. QED
  BY <1>1, <1>2, <1>3 DEF End, ledgerVars, OkUnread, callerVars, channelVars

LEMMA CleaningFrame ==
    ASSUME TypeOK, Cleaning
    PROVE  /\ pc \in {"undoing", "restoring"} /\ pc' \in {"idle", "restoring"}
           /\ UNCHANGED callerVars /\ UNCHANGED channelVars
           /\ UNCHANGED <<reply, result, durable, acked, kept, discarded, orphaned, shadowed>>
           /\ \/ UndoBegin /\ pc = "undoing" /\ trancount' = 0 /\ work' = {} /\ marks' = {}
                           /\ level' = level
              \/ RestoreIsolation /\ pc = "restoring" /\ UNCHANGED <<trancount, work, marks>>
                                  /\ level' = "rc"
           /\ \A i \in Nat : OkUnread(i)' => OkUnread(i)
<1>1. /\ pc \in {"undoing", "restoring"} /\ pc' \in {"idle", "restoring"}
      /\ UNCHANGED callerVars /\ UNCHANGED channelVars
      /\ UNCHANGED <<reply, result, durable, acked, kept, discarded, orphaned, shadowed>>
      /\ \/ UndoBegin /\ pc = "undoing" /\ trancount' = 0 /\ work' = {} /\ marks' = {}
                      /\ level' = level
         \/ RestoreIsolation /\ pc = "restoring" /\ UNCHANGED <<trancount, work, marks>>
                             /\ level' = "rc"
  BY DEF Cleaning, UndoBegin, RestoreIsolation, NextRound, ledgerVars
<1>2. \A i \in Nat : OkUnread(i)' => OkUnread(i)
  BY <1>1 DEF OkUnread, callerVars, channelVars
<1>3. QED
  BY <1>1, <1>2

\* What serving the request just taken may come to.
Fails ==
    /\ NoEffect /\ result' = "err"
    /\ Current.kind = "Rollback" => trancount = 0
    /\ Current.kind = "RollbackTo" => \A m \in marks : NameOf(m) # Current.name
Aborts ==
    /\ Abort /\ Current.kind \notin {"Begin", "Savepoint"}
    /\ result' = "ok" => Current.kind \in {"Statement", "Rollback"}
DoesAlone ==
    /\ Current.kind = "Statement" /\ result' = "ok" /\ trancount = 0
    /\ durable' = durable \cup {taken} /\ UNCHANGED <<work, trancount, level, marks>>
DoesInside ==
    /\ Current.kind = "Statement" /\ result' = "ok" /\ trancount # 0
    /\ work' = work \cup {taken} /\ UNCHANGED <<durable, trancount, level, marks>>
Begins ==
    /\ Current.kind = "Begin" /\ result' = "ok" /\ trancount' = trancount + 1
    /\ level' = IF Current.isolation = "unspecified" THEN level ELSE Current.isolation
    /\ UNCHANGED <<work, marks, durable>>
CommitsInner ==
    /\ Current.kind = "Commit" /\ result' = "ok" /\ trancount > 0 /\ trancount # 1
    /\ trancount' = trancount - 1 /\ UNCHANGED <<level, work, marks, durable>>
CommitsAll ==
    /\ Current.kind = "Commit" /\ result' = "ok" /\ trancount = 1 /\ trancount' = 0
    /\ durable' = durable \cup work /\ work' = {} /\ marks' = {} /\ level' = level
Marks ==
    /\ Current.kind = "Savepoint" /\ result' = "ok" /\ trancount > 0
    /\ marks' = marks \cup {taken} /\ UNCHANGED <<trancount, level, work, durable>>
GoesBack ==
    /\ Current.kind = "RollbackTo" /\ result' = "ok"
    /\ \E m \in marks :
           /\ NameOf(m) = Current.name
           /\ \A k \in marks : NameOf(k) = Current.name => k <= m
           /\ work' = {i \in work : i < m}
           /\ marks' = {k \in marks : k <= m}
    /\ UNCHANGED <<trancount, level, durable>>

LEMMA ServingCases ==
    ASSUME TypeOK, AgreeInv, HeldInv, Serving
    PROVE  /\ pc = "sent" /\ pc' = "answered" /\ taken # 0
           /\ UNCHANGED callerVars /\ UNCHANGED channelVars
           /\ UNCHANGED <<reply, txState, levelChanged, acked, kept, discarded, orphaned, shadowed>>
           /\ reply \in {"none", "closed"}
           /\ \A i \in Nat : OkUnread(i)' => i = taken /\ result' = "ok"
           /\ \/ Fails \/ Aborts \/ DoesAlone \/ DoesInside \/ Begins
              \/ CommitsInner \/ CommitsAll \/ Marks \/ GoesBack
<1>1. /\ Running
      /\ \/ RunStatement
         \/ RunBegin \/ RunCommit \/ RunRollback \/ RunSavepoint \/ RunRollbackTo
         \/ CancelStops
  BY DEF Serving, ServeStatement, ServeControl, CancelStops
<1>2. pc = "sent" /\ UNCHANGED callerVars /\ UNCHANGED channelVars
      /\ UNCHANGED <<reply, txState, levelChanged, acked, kept, discarded, orphaned, shadowed>>
  BY <1>1 DEF Running, ledgerVars
<1>3. reply \in {"none", "closed"}
  BY <1>2 DEF AgreeInv, CallerInv, AwaitShape, HeldInv, ReplyShape
<1>4. pc' = "answered" /\ taken # 0 /\ trancount \in Nat
  BY <1>1, <1>2 DEF RunStatement, RunBegin, RunCommit, RunRollback, RunSavepoint, RunRollbackTo,
     CancelStops, Responds, TypeOK
<1>5. \A i \in Nat : OkUnread(i)' => i = taken /\ result' = "ok"
  BY <1>2, <1>3, <1>4 DEF OkUnread, callerVars, channelVars
<1>6. \/ Fails \/ Aborts \/ DoesAlone \/ DoesInside \/ Begins
      \/ CommitsInner \/ CommitsAll \/ Marks \/ GoesBack
  <2>1. CASE RunStatement \/ CancelStops
    BY <1>4, <2>1 DEF RunStatement, CancelStops, Cancellable, Responds, Fails, Aborts, DoesAlone,
       DoesInside
  <2>2. CASE RunBegin
    BY <2>2 DEF RunBegin, Responds, Fails, Begins
  <2>3. CASE RunCommit
    <3>1. \/ Fails \/ Aborts
          \/ /\ Current.kind = "Commit" /\ result' = "ok" /\ trancount > 0
             /\ trancount' = trancount - 1 /\ level' = level
             /\ IF trancount = 1
                THEN durable' = durable \cup work /\ work' = {} /\ marks' = {}
                ELSE UNCHANGED <<work, marks, durable>>
      BY <2>3 DEF RunCommit, Responds, Fails, Aborts
    <3>2. QED
      BY <1>4, <3>1 DEF CommitsInner, CommitsAll
  <2>4. CASE RunRollback
    BY <1>4, <2>4 DEF RunRollback, Responds, Fails, Aborts
  <2>5. CASE RunSavepoint
    BY <2>5 DEF RunSavepoint, Responds, Fails, Marks
  <2>6. CASE RunRollbackTo
    <3> DEFINE named == {m \in marks : NameOf(m) = Current.name}
    <3>1. \/ \E m \in named :
                 /\ \A k \in named : k <= m
                 /\ result' = "ok" /\ work' = {i \in work : i < m} /\ marks' = {k \in marks : k <= m}
                 /\ UNCHANGED <<trancount, level, durable>>
          \/ named = {} /\ result' = "err" /\ NoEffect
          \/ result' = "err" /\ Abort
      BY <2>6 DEF RunRollbackTo, Responds
    <3>2. Current.kind = "RollbackTo"
      BY <2>6 DEF RunRollbackTo
    <3>3. QED
      BY <3>1, <3>2 DEF Fails, Aborts, GoesBack
  <2>7. QED
    BY <1>1, <2>1, <2>2, <2>3, <2>4, <2>5, <2>6
<1>7. QED
  BY <1>2, <1>3, <1>4, <1>5, <1>6

-----------------------------------------------------------------------------
(* The rest of the invariant, one conjunct at a time.                      *)

\* What may be assumed of a step: what is proved of both its states, and the
\* rest of the invariant of the first.
Steps == /\ TypeOK /\ TypeOK' /\ AgreeInv /\ AgreeInv' /\ HeldInv /\ HeldInv'
         /\ WorkInv /\ [AnyNext]_vars

LEMMA TxStep ==
    ASSUME Steps
    PROVE  TxShape'
<1> USE DEF Steps
<1>1. /\ txState = "Aborted" => trancount = 0 /\ pc \in {"idle", "ended"}
      /\ pc \in {"idle", "sent"} /\ txState = "Open" => trancount > 0
      /\ pc # "ended" /\ taken # 0 /\ Inside(taken) => txState # "None"
      /\ trancount = 0 => work = {}
      /\ reply = "aborted" => trancount = 0
  BY DEF WorkInv, TxShape
<1>2. trancount \in Nat /\ txState \in {"None", "Open", "Aborted"}
  BY DEF TypeOK
<1>3. CASE CallerMoves
  <2>1. /\ UNCHANGED <<taken, pc, txState, trancount, work>> /\ reply' \in {reply, "none"}
    BY <1>3, CallerMovesFrame
  <2>2. pc # "ended" /\ taken # 0 /\ Inside(taken)' => Inside(taken)
    BY <1>3, CallerMovesInside
  <2>3. QED
    BY <1>1, <2>1, <2>2 DEF TxShape
<1>4. CASE Receives
  <2>1. /\ Receive /\ pc = "idle" /\ taken < Len(requests) /\ taken' = taken + 1
        /\ UNCHANGED <<requests, trancount, work>>
        /\ reply \in {"none", "closed"}
        /\ reply' = "ok" => requests[taken + 1].kind = "Rollback"
        /\ reply' = "aborted" => txState = "Aborted"
    BY <1>4, ReceivesFrame
  <2>2. reply' = "ok" /\ IsBegin(awaiting) => reply = "ok"
    <3>1. reply' = "ok" => awaiting = taken' /\ requests[taken'].kind = "Rollback"
      BY <1>4, <2>1 DEF Receives, Skip, ReceiveAborted, Dispatch
    <3>2. QED
      BY <3>1 DEF IsBegin
  <2>3. /\ Inside(taken)' <=> Tx(taken + 1) # 0 /\ ~Ends(taken + 1)
    BY <2>1, <2>2, ReceiveInside
  <2>4. Tx(taken + 1) # 0 => taken # 0 /\ Inside(taken)
    BY <2>1, NextInside DEF AgreeInv
  <2>5. \/ txState' = txState /\ pc' = "idle"
        \/ txState' \in {"None", txState} /\ pc' # "sent" /\ (txState' = "None" => Ends(taken + 1))
                /\ txState = "Aborted" /\ (txState' = "Aborted" => pc' = "idle")
        \/ txState # "Aborted" /\ pc' = "sent"
                /\ txState' = IF Ends(taken + 1) THEN "None" ELSE txState
    BY <1>4, <2>1 DEF Receives, Skip, ReceiveAborted, Dispatch, taskVars, Ends
  <2>6. QED
    BY <1>1, <1>2, <2>1, <2>3, <2>4, <2>5 DEF TxShape
<1>5. CASE Answering
  <2>1. /\ pc \in {"sent", "answered"} /\ UNCHANGED callerVars /\ UNCHANGED channelVars
        /\ UNCHANGED <<trancount, work>> /\ taken # 0 /\ taken' = taken
        /\ reply' = "aborted" => reply = "aborted"
    BY <1>5, AnsweringFrame DEF channelVars
  <2>2. txState # "Aborted"
    BY <1>1, <2>1
  <2>3. /\ IsBegin(taken) => ~Inside(taken)
        /\ IsBegin(taken) => (Inside(taken)' <=> awaiting = taken /\ reply' = "ok")
        /\ ~IsBegin(taken) => (Inside(taken)' <=> Inside(taken))
    BY <2>1, ServingInside DEF AgreeInv
  <2>4. Inside(taken)' => txState' # "None"
    <3>1. CASE IsBegin(taken)
      <4>1. ReplyBegin
        BY <1>5, <3>1 DEF Answering, Reply, ReplyEnd, LoseMasked, Current, IsBegin
      <4>2. QED
        BY <2>3, <3>1, <4>1 DEF ReplyBegin, Answer, NextRound
    <3>2. CASE ~IsBegin(taken)
      <4>1. txState' # "None" \/ txState = "None"
        BY <1>5, <3>2 DEF Answering, Reply, ReplyBegin, ReplyEnd, LoseMasked, NextRound, Current,
           IsBegin
      <4>2. QED
        BY <1>1, <2>1, <2>3, <3>2, <4>1
    <3>3. QED
      BY <3>1, <3>2
  <2>5. \/ pc' = "idle" /\ (txState' = "Aborted" <=> txState' # "None" /\ trancount = 0)
        \/ pc' \in {"undoing", "restoring"} /\ txState' = txState
    BY <1>2, <1>5, <2>2 DEF Answering, Reply, ReplyBegin, ReplyEnd, LoseMasked, NextRound
  <2>6. QED
    BY <1>1, <1>2, <2>1, <2>2, <2>4, <2>5 DEF TxShape
<1>6. CASE Cleaning
  <2>1. /\ pc \in {"undoing", "restoring"} /\ UNCHANGED callerVars /\ UNCHANGED channelVars
        /\ reply' = reply
        /\ \/ UndoBegin /\ trancount' = 0 /\ work' = {}
           \/ RestoreIsolation /\ UNCHANGED <<trancount, work>>
    BY <1>6, CleaningFrame
  <2>2. txState # "Aborted"
    BY <1>1, <2>1
  <2>3. \/ pc' = "idle" /\ (txState' = "Aborted" <=> txState # "None" /\ trancount' = 0)
                        /\ (txState' = "None" <=> txState = "None")
        \/ pc' = "restoring" /\ txState' = txState
    BY <1>2, <2>1, <2>2 DEF UndoBegin, RestoreIsolation, NextRound
  <2>4. taken # 0 /\ Inside(taken)' => Inside(taken)
    <3> SUFFICES ASSUME taken # 0, Inside(taken)' PROVE Inside(taken)
      OBVIOUS
    <3>1. UNCHANGED <<handles, awaiting, reply, requests, taken>>
      BY <2>1 DEF callerVars, channelVars
    <3>2. QED
      BY <3>1 DEF Inside, Claimed, Tx, IsBegin, Ends
  <2>5. taken' = taken
    BY <2>1 DEF channelVars
  <2>6. QED
    BY <1>1, <1>2, <2>1, <2>2, <2>3, <2>4, <2>5 DEF TxShape
<1>7. CASE Ending
  <2>1. /\ pc' = "ended" /\ UNCHANGED <<txState, trancount, work>>
        /\ reply' = "aborted" => reply = "aborted"
    BY <1>7, EndingFrame
  <2>2. QED
    BY <1>1, <2>1 DEF TxShape
<1>8. CASE Serving
  <2>1. /\ pc = "sent" /\ pc' = "answered" /\ taken # 0
        /\ UNCHANGED callerVars /\ UNCHANGED channelVars /\ UNCHANGED <<reply, txState>>
        /\ reply \in {"none", "closed"}
        /\ \/ Fails \/ Aborts \/ DoesAlone \/ DoesInside \/ Begins
           \/ CommitsInner \/ CommitsAll \/ Marks \/ GoesBack
    BY <1>8, ServingCases
  <2>2. Inside(taken)' => Inside(taken)
    BY <2>1, ServingInside DEF AgreeInv
  <2>3. trancount' = 0 => work' = {}
    <3>1. CASE Fails
      BY <1>1, <3>1 DEF Fails, NoEffect
    <3>2. CASE Aborts
      BY <3>2 DEF Aborts, Abort
    <3>3. CASE DoesAlone \/ DoesInside \/ Begins \/ CommitsInner \/ CommitsAll \/ Marks
      BY <1>1, <1>2, <3>3 DEF DoesAlone, DoesInside, Begins, CommitsInner, CommitsAll, Marks
    <3>4. CASE GoesBack
      BY <1>1, <3>4 DEF GoesBack
    <3>5. QED
      BY <2>1, <3>1, <3>2, <3>3, <3>4
  <2>4. taken' = taken
    BY <2>1 DEF channelVars
  <2>5. QED
    BY <1>1, <2>1, <2>2, <2>3, <2>4 DEF TxShape
<1>9. QED
  BY <1>3, <1>4, <1>5, <1>6, <1>7, <1>8, NextCases

LEMMA DoneStep ==
    ASSUME Steps
    PROVE  DoneShape'
<1> USE DEF Steps, Tx, Ends
<1>1. /\ \A i \in work \cup durable :
             i \in Statements /\ i <= taken /\ (pc = "sent" => i # taken)
      /\ \A i \in durable : Tx(i) # 0 /\ Tx(i) = Tx(taken) =>
             Ends(taken) /\ pc # "sent" /\ ~(awaiting = taken /\ reply = "aborted")
      /\ acked \subseteq 1..taken
  BY DEF WorkInv, DoneShape
<1>2. /\ Len(requests) \in Nat /\ taken \in 0..Len(requests)
      /\ Statements \subseteq 1..Len(requests)
  BY Basics DEF Statements, Sent
<1>3. ASSUME NEW i \in work \cup durable PROVE i \in 1..taken /\ i \in Statements
  <2>1. i \in Statements /\ i <= taken
    BY <1>1, <1>3
  <2>2. i \in 1..Len(requests)
    BY <1>2, <2>1
  <2>3. QED
    BY <1>2, <2>1, <2>2
<1>4. ASSUME taken' = taken, requests' = requests, durable' = durable, acked' = acked,
             \A i \in work' : i \in work, pc' = "sent" => pc = "sent",
             awaiting' = taken /\ reply' = "aborted" => awaiting = taken /\ reply = "aborted"
      PROVE  DoneShape'
  <2>1. Statements' = Statements
    BY <1>4 DEF Statements, Sent
  <2>2. QED
    BY <1>1, <1>4, <2>1 DEF DoneShape
<1>5. CASE CallerMoves
  <2>1. /\ UNCHANGED <<taken, pc, work, durable>> /\ reply' \in {reply, "none"}
        /\ awaiting' = taken => awaiting = taken \/ taken = 0
        /\ \A i \in 1..taken : requests'[i] = requests[i]
    BY <1>5, CallerMovesFrame
  <2>2. acked' \subseteq 1..taken
    <3>1. CASE Return
      <4>1. /\ acked' = acked \/ (reply = "ok" /\ acked' = acked \cup {awaiting})
            /\ awaiting # 0
        BY <3>1 DEF Return
      <4>2. reply = "ok" => awaiting = taken
        BY DEF HeldInv, ReplyShape
      <4>3. taken # 0 => taken \in 1..taken
        BY <1>2
      <4>4. acked \subseteq 1..taken
        BY <1>1
      <4>5. acked' = acked \/ (acked' = acked \cup {taken} /\ taken # 0)
        BY <4>1, <4>2
      <4>6. QED
        BY <4>3, <4>4, <4>5
    <3>2. CASE ~Return
      <4>1. CASE Sends
        <5>1. acked' = acked
          BY <4>1, SendsAsk DEF Asks
        <5>2. QED
          BY <1>1, <5>1
      <4>2. CASE ~Sends
        <5>1. acked' = acked
          BY <1>5, <3>2, <4>2 DEF CallerMoves, CommitSavepoint, ConsumeClosed, Discard, GiveUp,
             ClientGoes, Lose, Stopped, vars, ledgerVars
        <5>2. QED
          BY <1>1, <5>1
      <4>3. QED
        BY <4>1, <4>2
    <3>3. QED
      BY <3>1, <3>2
  <2>3. ASSUME NEW i \in work \cup durable
        PROVE  /\ i \in Statements' /\ i <= taken /\ (pc = "sent" => i # taken)
               /\ requests'[i] = requests[i] /\ requests'[taken] = requests[taken] /\ taken # 0
    <3>1. i \in 1..taken /\ taken \in 1..taken
      BY <1>2, <1>3
    <3>2. i \in Sent' /\ requests'[i] = requests[i] /\ requests'[taken] = requests[taken]
      <4>1. Len(requests') \in Nat /\ taken \in 0..Len(requests')
        BY SentIsNat, <2>1 DEF TypeOK, Sent
      <4>2. QED
        BY <2>1, <3>1, <4>1 DEF Sent
    <3>3. QED
      BY <1>1, <1>2, <1>3, <3>1, <3>2 DEF Statements
  <2>4. QED
    BY <1>1, <2>1, <2>2, <2>3 DEF DoneShape
<1>6. CASE Receives
  <2>1. /\ pc = "idle" /\ taken < Len(requests) /\ taken' = taken + 1
        /\ UNCHANGED <<awaiting, requests, work, durable, acked>>
    BY <1>6, ReceivesFrame
  <2>2. Statements' = Statements
    BY <2>1 DEF Statements, Sent
  <2>3. \A i \in work \cup durable : i \in Statements /\ i <= taken' /\ i # taken'
    BY <1>1, <1>2, <1>3, <2>1
  <2>4. ASSUME NEW i \in durable, Tx(i) # 0, Tx(i) = Tx(taken + 1) PROVE FALSE
    <3>1. taken + 1 \in Sent /\ Tx(taken + 1) \in Nat /\ Tx(taken + 1) < taken + 1
          /\ i \in Sent /\ Tx(i) < i /\ i <= taken
      BY <1>2, <1>3, <2>1, Basics DEF AgreeInv, CallerInv, RequestShape, Sent
    <3>2. taken \in (Tx(taken + 1) + 1)..((taken + 1) - 1)
      <4>1. taken \in Nat /\ i \in Nat /\ Tx(i) = Tx(taken + 1) /\ Tx(taken + 1) \in Nat
        BY <1>2, <2>4, <3>1 DEF Sent
      <4>2. Tx(taken + 1) < taken
        BY <3>1, <4>1
      <4>3. QED
        BY <4>1, <4>2
    <3>3. Tx(taken) = Tx(taken + 1) /\ ~Ends(taken)
      BY <2>4, <3>1, <3>2 DEF HeldInv, Stretch
    <3>4. QED
      BY <1>1, <2>4, <3>3
  <2>5. acked \subseteq 1..taken'
    BY <1>1, <1>2, <2>1
  <2>6. QED
    BY <2>1, <2>2, <2>3, <2>4, <2>5 DEF DoneShape
<1>7. CASE Answering
  BY <1>4, <1>7, AnsweringFrame DEF callerVars, channelVars
<1>8. CASE Cleaning
  BY <1>4, <1>8, CleaningFrame DEF callerVars, channelVars
<1>9. CASE Ending
  BY <1>4, <1>9, EndingFrame DEF callerVars, channelVars
<1>10. CASE Serving
  <2>1. /\ pc = "sent" /\ pc' = "answered" /\ taken # 0
        /\ UNCHANGED callerVars /\ UNCHANGED channelVars /\ UNCHANGED <<reply, txState, acked>>
        /\ reply \in {"none", "closed"}
        /\ \/ Fails \/ Aborts \/ DoesAlone \/ DoesInside \/ Begins
           \/ CommitsInner \/ CommitsAll \/ Marks \/ GoesBack
    BY <1>10, ServingCases
  <2>2. UNCHANGED <<awaiting, requests, taken>>
    BY <2>1 DEF callerVars, channelVars
  <2>3. taken \in Sent
    BY <1>2, <2>1 DEF Sent
  <2>4. CASE Fails \/ Aborts
    <3>1. durable' = durable /\ work' \subseteq work
      BY <2>4 DEF Fails, Aborts, NoEffect, Abort
    <3>2. QED
      BY <1>4, <2>1, <2>2, <3>1
  <2>5. CASE Begins \/ CommitsInner \/ Marks \/ GoesBack
    <3>1. durable' = durable /\ work' \subseteq work
      BY <2>5 DEF Begins, CommitsInner, Marks, GoesBack
    <3>2. QED
      BY <1>4, <2>1, <2>2, <3>1
  <2>6. Statements' = Statements
    BY <2>2 DEF Statements, Sent
  <2>7. CASE DoesInside
    <3>1. taken \in Statements /\ durable' = durable /\ work' = work \cup {taken}
      BY <2>3, <2>7 DEF DoesInside, Current, Statements
    <3>2. QED
      BY <1>1, <1>2, <2>1, <2>2, <2>6, <3>1 DEF DoneShape
  <2>8. CASE CommitsAll
    <3>1. Current.kind = "Commit" /\ durable' = durable \cup work /\ work' = {}
      BY <2>8 DEF CommitsAll
    <3>2. QED
      BY <1>1, <1>2, <2>1, <2>2, <2>6, <3>1 DEF DoneShape, Current
  <2>9. CASE DoesAlone
    <3>1. taken \in Statements /\ durable' = durable \cup {taken} /\ work' = work /\ trancount = 0
          /\ ~IsBegin(taken) /\ ~Ends(taken)
      BY <2>3, <2>9 DEF DoesAlone, Current, Statements, IsBegin
    <3>2. Tx(taken) = 0
      <4>1. Tx(taken) # 0 => Inside(taken)
        BY <3>1 DEF Inside
      <4>2. Inside(taken) => txState = "Open"
        BY <2>1 DEF TypeOK, WorkInv, TxShape
      <4>3. txState = "Open" => trancount > 0
        BY <2>1 DEF WorkInv, TxShape
      <4>4. QED
        BY <3>1, <4>1, <4>2, <4>3
    <3>3. QED
      BY <1>1, <1>2, <2>1, <2>2, <2>6, <3>1, <3>2 DEF DoneShape
  <2>10. QED
    BY <2>1, <2>4, <2>5, <2>7, <2>8, <2>9
<1>11. QED
  BY <1>5, <1>6, <1>7, <1>8, <1>9, <1>10, NextCases

-----------------------------------------------------------------------------
(* Savepoints.                                                             *)

\* What a step of the caller's may add to what it holds or has sent.
LEMMA CallerMovesHeld ==
    ASSUME TypeOK, AgreeInv, HeldInv, CallerMoves
    PROVE  /\ \A k \in 1..Len(handles') :
                  \/ k \in 1..Len(handles) /\ handles'[k] = handles[k]
                  \/ /\ k = Len(handles) + 1 /\ handles'[k] = taken /\ taken # 0
                     /\ OkUnread(taken) /\ (k > 1 => IsSavepoint(taken))
           /\ \A r \in Sent' :
                  \/ r \in Sent /\ requests'[r] = requests[r]
                  \/ /\ r = Len(requests) + 1 /\ pc # "ended" /\ Sends
                     /\ requests'[r].kind = "RollbackTo" =>
                            Len(handles) > 1 /\ requests'[r].undoes = Top
           /\ \A r \in Sent : r \in Sent' /\ requests'[r] = requests[r]
           /\ \A i \in Nat : OkUnread(i)' => OkUnread(i)
<1> USE DEF IsSavepoint
<1>1. /\ Len(requests) \in Nat /\ Len(handles) \in Nat /\ taken \in 0..Len(requests)
      /\ reply \notin {"none", "closed"} => awaiting = taken /\ awaiting # 0
      /\ awaiting \in 0..Len(requests)
  BY Basics, HandleBasics DEF AgreeInv, CallerInv, AwaitShape, HeldInv, ReplyShape
<1>2. CASE Sends
  <2>1. PICK kind \in Kinds : Asks(kind)
    BY <1>2, SendsAsk
  <2>2. /\ pc' = pc /\ taken' = taken /\ result' = result /\ reply' = reply /\ reply \in {"none", "closed"}
        /\ Len(requests') = Len(requests) + 1
        /\ \A i \in 1..Len(requests) : requests'[i] = requests[i]
        /\ requests'[Len(requests) + 1].kind = "RollbackTo" =>
               Len(handles) > 1 /\ requests'[Len(requests) + 1].undoes = Top
        /\ pc # "ended"
    BY <1>1, <2>1 DEF Asks, taskVars, serverVars
  <2>3. \A k \in 1..Len(handles') : k \in 1..Len(handles) /\ handles'[k] = handles[k]
    <3>1. CASE handles' = handles
      BY <3>1
    <3>2. CASE LosesTop
      BY <1>1, <3>2 DEF LosesTop
    <3>3. QED
      BY <2>1, <3>1, <3>2 DEF Asks
  <2>4. \A i \in Nat : OkUnread(i)' => OkUnread(i)
    BY <2>2 DEF OkUnread
  <2>5. QED
    BY <1>1, <1>2, <2>2, <2>3, <2>4 DEF Sent
<1>3. CASE CommitSavepoint \/ ConsumeClosed
  <2>1. /\ handles # <<>> /\ Pop /\ UNCHANGED <<requests, taken, pc, result, awaiting, reply>>
    <3>1. CASE CommitSavepoint
      <4>1. handles # <<>>
        BY <3>1, EmptySeq DEF CommitSavepoint
      <4>2. QED
        BY <3>1, <4>1 DEF CommitSavepoint, channelVars, taskVars, serverVars
    <3>2. CASE ConsumeClosed
      BY <3>2 DEF ConsumeClosed, Discard, channelVars, taskVars, serverVars
    <3>3. QED
      BY <1>3, <3>1, <3>2
  <2>2. LosesTop
    BY <2>1, PopLosesTop
  <2>3. \A k \in 1..Len(handles') : k \in 1..Len(handles) /\ handles'[k] = handles[k]
    BY <1>1, <2>2 DEF LosesTop
  <2>4. QED
    BY <2>1, <2>3 DEF Sent, OkUnread
<1>4. CASE Return
  <2>1. /\ UNCHANGED <<requests, taken, pc, result>> /\ awaiting # 0 /\ awaiting' = 0
        /\ reply' = "none"
        /\ handles' = IF reply = "ok" /\ requests[awaiting].kind \in {"Begin", "Savepoint"}
                      THEN Append(handles, awaiting) ELSE handles
    BY <1>4 DEF Return, channelVars, taskVars, serverVars
  <2>2. CASE reply = "ok" /\ requests[awaiting].kind \in {"Begin", "Savepoint"}
    <3>1. awaiting = taken /\ taken \in Sent /\ OkUnread(taken)
      BY <1>1, <2>1, <2>2 DEF Sent, OkUnread
    <3>2. Opens
      BY <2>1, <2>2, <3>1, AppendOpens
    <3>3. requests[taken].kind = "Begin" => Len(handles) = 0
      <4>1. IsBegin(taken) => handles = <<>>
        BY <1>1, <3>1, <2>1 DEF AgreeInv, CallerInv, AwaitShape
      <4>2. QED
        BY <4>1, HandleBasics DEF IsBegin
    <3>4. QED
      BY <1>1, <2>1, <2>2, <3>1, <3>2, <3>3 DEF Opens, Sent, OkUnread
  <2>3. CASE ~(reply = "ok" /\ requests[awaiting].kind \in {"Begin", "Savepoint"})
    BY <2>1, <2>3 DEF Sent, OkUnread
  <2>4. QED
    BY <2>2, <2>3
<1>5. CASE GiveUp
  BY <1>5 DEF GiveUp, channelVars, taskVars, serverVars, Sent, OkUnread
<1>6. CASE ClientGoes \/ Lose \/ Stopped \/ UNCHANGED vars
  BY <1>6 DEF ClientGoes, Lose, Stopped, vars, callerVars, channelVars, taskVars, serverVars, Sent, OkUnread
<1>7. QED
  BY <1>2, <1>3, <1>4, <1>5, <1>6 DEF CallerMoves

LEMMA MarkStep ==
    ASSUME Steps
    PROVE  MarkShape'
<1> USE DEF Steps, IsSavepoint, IsBackTo
<1>1. /\ \A m \in marks : m \in 1..taken /\ IsSavepoint(m)
      /\ pc # "ended" /\ trancount > 0 =>
             /\ \A k \in 2..Len(handles) : handles[k] \in marks
             /\ \A r \in Sent : IsBackTo(r) /\ Pending(r) => requests[r].undoes \in marks
             /\ taken # 0 /\ IsSavepoint(taken) /\ OkUnread(taken) => taken \in marks
  BY DEF WorkInv, MarkShape
<1>2. /\ Len(requests) \in Nat /\ Len(handles) \in Nat /\ taken \in 0..Len(requests)
      /\ trancount \in Nat /\ Sent = 1..Len(requests)
  BY Basics, HandleBasics DEF TypeOK, Sent
<1>3. CASE CallerMoves
  <2>1. /\ UNCHANGED <<taken, pc, trancount, marks>>
        /\ \A i \in 1..taken : requests'[i] = requests[i]
    BY <1>3, CallerMovesFrame
  <2>2. \A m \in marks : m \in 1..taken /\ requests'[m].kind = "Savepoint"
    BY <1>1, <2>1
  <2>3. ASSUME pc # "ended", trancount > 0, NEW k \in 2..Len(handles') PROVE handles'[k] \in marks
    <3>1. k \in 1..Len(handles')
      OBVIOUS
    <3>2. \/ k \in 1..Len(handles) /\ handles'[k] = handles[k]
          \/ /\ handles'[k] = taken /\ taken # 0
             /\ OkUnread(taken) /\ (k > 1 => IsSavepoint(taken))
      BY <1>3, <3>1, CallerMovesHeld
    <3>3. QED
      BY <1>1, <2>3, <3>2
  <2>4. ASSUME pc # "ended", trancount > 0, NEW r \in Sent', requests'[r].kind = "RollbackTo",
               Pending(r)'
        PROVE  requests'[r].undoes \in marks
    <3>1. \/ r \in Sent /\ requests'[r] = requests[r]
          \/ Len(handles) > 1 /\ requests'[r].undoes = Top
      BY <1>3, <2>4, CallerMovesHeld
    <3>2. Pending(r)
      BY <2>1, <2>4 DEF Pending
    <3>3. Len(handles) > 1 => Top \in marks
      <4>1. Len(handles) > 1 => Len(handles) \in 2..Len(handles)
        BY <1>2
      <4>2. QED
        BY <1>1, <2>4, <4>1 DEF Top
    <3>4. QED
      BY <1>1, <2>4, <3>1, <3>2, <3>3
  <2>5. ASSUME pc # "ended", trancount > 0, taken # 0, requests'[taken].kind = "Savepoint",
               OkUnread(taken)'
        PROVE  taken \in marks
    <3>1. taken \in 1..taken /\ taken \in Nat
      BY <1>2, <2>5
    <3>2. OkUnread(taken)
      BY <1>3, <2>1, <2>5, <3>1, CallerMovesHeld
    <3>3. QED
      BY <1>1, <2>1, <2>5, <3>1, <3>2
  <2>6. QED
    BY <2>1, <2>2, <2>3, <2>4, <2>5 DEF MarkShape
<1>4. ASSUME requests' = requests, handles' = handles, taken <= taken', marks' = marks,
             trancount' > 0 => trancount > 0, pc' # "ended" => pc # "ended",
             \A r \in Sent : Pending(r)' => Pending(r),
             taken' # 0 /\ requests[taken'].kind = "Savepoint" /\ OkUnread(taken)'
                 => taken' = taken /\ OkUnread(taken)
      PROVE  MarkShape'
  <2>1. Sent' = Sent
    BY <1>4 DEF Sent
  <2>2. taken' \in Nat
    <3>1. taken' \in Sent' \cup {0}
      BY DEF TypeOK
    <3>2. QED
      BY <1>2, <2>1, <3>1
  <2>3. \A m \in marks' : m \in 1..taken' /\ requests'[m].kind = "Savepoint"
    BY <1>1, <1>2, <1>4, <2>2
  <2>4. QED
    BY <1>1, <1>4, <2>1, <2>3 DEF MarkShape
<1>5. CASE Receives
  <2>1. /\ taken \in Nat /\ taken' = taken + 1 /\ taken < Len(requests) /\ pc = "idle"
        /\ UNCHANGED <<handles, requests, trancount, marks>>
        /\ \A i \in 1..taken' : ~OkUnread(i)' \/ requests[i].kind = "Rollback"
    BY <1>5, ReceivesFrame
  <2>2. \A r \in Sent : Pending(r)' => Pending(r)
    BY <1>2, <2>1 DEF Pending
  <2>3. taken' \in 1..taken'
    BY <2>1
  <2>4. ~OkUnread(taken)' \/ requests[taken'].kind = "Rollback"
    BY <2>1, <2>3 DEF OkUnread
  <2>5. QED
    BY <1>2, <1>4, <2>1, <2>2, <2>4
<1>6. CASE Answering \/ Ending
  <2>1. /\ UNCHANGED callerVars /\ UNCHANGED channelVars /\ UNCHANGED <<trancount, marks>>
        /\ pc' # "sent" /\ (pc' # "ended" => pc # "ended")
        /\ \A i \in Nat : OkUnread(i)' => OkUnread(i)
    BY <1>6, AnsweringFrame, EndingFrame
  <2>2. \A r \in Sent : Pending(r)' => Pending(r)
    BY <2>1 DEF Pending, channelVars
  <2>3. OkUnread(taken)' => OkUnread(taken)
    BY <1>2, <2>1 DEF channelVars
  <2>4. QED
    BY <1>2, <1>4, <2>1, <2>2, <2>3 DEF callerVars, channelVars
<1>7. CASE Cleaning
  <2>1. /\ UNCHANGED callerVars /\ UNCHANGED channelVars
        /\ pc' # "sent" /\ pc # "ended"
        /\ \A i \in Nat : OkUnread(i)' => OkUnread(i)
        /\ (trancount' = 0 /\ marks' = {}) \/ UNCHANGED <<trancount, marks>>
    BY <1>7, CleaningFrame
  <2>2. \A r \in Sent : Pending(r)' => Pending(r)
    BY <2>1 DEF Pending, channelVars
  <2>3. CASE UNCHANGED <<trancount, marks>>
    BY <1>2, <1>4, <2>1, <2>2, <2>3 DEF callerVars, channelVars
  <2>4. CASE trancount' = 0 /\ marks' = {}
    BY <2>4 DEF MarkShape
  <2>5. QED
    BY <2>1, <2>3, <2>4
<1>8. CASE Serving
  <2>1. /\ pc = "sent" /\ pc' = "answered" /\ taken # 0
        /\ UNCHANGED callerVars /\ UNCHANGED channelVars
        /\ reply \in {"none", "closed"} /\ reply' = reply
        /\ \A i \in Nat : OkUnread(i)' => i = taken /\ result' = "ok"
        /\ \/ Fails \/ Aborts \/ DoesAlone \/ DoesInside \/ Begins
           \/ CommitsInner \/ CommitsAll \/ Marks \/ GoesBack
    BY <1>8, ServingCases
  <2>2. UNCHANGED <<handles, requests, taken, awaiting>> /\ Sent' = Sent
    BY <2>1 DEF callerVars, channelVars, Sent
  <2>3. \A r \in Sent : Pending(r)' => Pending(r) /\ r > taken
    BY <2>1, <2>2 DEF Pending
  <2>4. OkUnread(taken)' => result' = "ok"
    BY <1>2, <2>1, <2>2
  <2>5. CASE Fails \/ DoesAlone \/ DoesInside \/ CommitsInner
    <3>1. marks' = marks /\ (trancount' > 0 => trancount > 0)
          /\ (result' = "ok" => requests[taken].kind # "Savepoint")
      BY <1>2, <2>5 DEF Fails, NoEffect, DoesAlone, DoesInside, CommitsInner, Current
    <3>2. QED
      BY <1>2, <1>4, <2>1, <2>2, <2>3, <2>4, <3>1
  <2>6. CASE Aborts \/ CommitsAll
    <3>1. trancount' = 0 /\ marks' = {}
      BY <2>6 DEF Aborts, Abort, CommitsAll
    <3>2. QED
      BY <3>1 DEF MarkShape
  <2>7. CASE Marks
    <3>1. /\ requests[taken].kind = "Savepoint" /\ marks' = marks \cup {taken}
          /\ trancount' = trancount
      BY <2>7 DEF Marks, Current
    <3>2. taken \in 1..taken
      BY <1>2, <2>1
    <3>3. QED
      BY <1>1, <2>1, <2>2, <2>3, <3>1, <3>2 DEF MarkShape
  <2>8. CASE Begins
    <3>1. Tx(taken) = 0 /\ requests[taken].kind = "Begin" /\ marks' = marks
      BY <1>2, <2>1, <2>8 DEF AgreeInv, CallerInv, RequestShape, Begins, Current, IsBegin
    <3>2. ~(Len(handles) > 1)
      <4> SUFFICES ASSUME Len(handles) > 1 PROVE FALSE
        OBVIOUS
      <4>1. /\ 1 \in 1..Len(handles) /\ 2 \in 1..Len(handles) /\ 1 \in 1..(2 - 1)
            /\ handles[2] <= taken /\ handles[1] < handles[2] /\ handles # <<>>
            /\ handles[1] \in 1..Len(requests) /\ handles[2] \in 1..Len(requests)
        <5>1. 1 \in 1..Len(handles) /\ 2 \in 1..Len(handles) /\ 1 \in 1..(2 - 1) /\ Len(handles) # 0
          BY <1>2
        <5>2. handles[2] <= taken /\ handles[1] < handles[2]
          BY <5>1 DEF HeldInv, HandleOrder
        <5>3. QED
          BY <5>1, <5>2, HandleBasics
      <4>2. taken \in (handles[1] + 1)..Len(requests)
        BY <1>2, <4>1
      <4>3. Tx(taken) = handles[1]
        BY <4>1, <4>2 DEF HeldInv, Stretch
      <4>4. QED
        BY <3>1, <4>1, <4>3
    <3>3. ASSUME NEW r \in Sent, IsBackTo(r), r > taken PROVE FALSE
      <4>1. /\ requests[r].undoes <= taken /\ Tx(r) # 0 /\ requests[r].undoes \in Nat
            /\ Tx(requests[r].undoes) = Tx(r) /\ requests[r].undoes \in Sent
        <5>1. requests[r].undoes \in 1..(r - 1)
          BY <3>3 DEF HeldInv, UndoShape
        <5>2. requests[r].undoes \in 1..Len(requests)
          BY <1>2, <5>1
        <5>3. QED
          BY <1>2, <3>3, <5>2 DEF HeldInv, UndoShape
      <4>2. Tx(requests[r].undoes) < requests[r].undoes /\ Tx(r) \in Nat
        BY <1>2, <4>1, Basics DEF AgreeInv, CallerInv, RequestShape
      <4>3. taken \in (Tx(r) + 1)..(r - 1)
        BY <1>2, <3>3, <4>1, <4>2
      <4>4. Tx(taken) = Tx(r)
        BY <4>1, <4>3 DEF HeldInv, Stretch
      <4>5. QED
        BY <3>1, <4>1, <4>4
    <3>4. \A k \in 2..Len(handles) : handles[k] \in marks'
      BY <1>2, <3>2
    <3>5. QED
      BY <1>1, <2>1, <2>2, <2>3, <3>1, <3>3, <3>4 DEF MarkShape
  <2>9. CASE GoesBack
    <3>1. PICK m \in marks : /\ NameOf(m) = Current.name
                             /\ \A k \in marks : NameOf(k) = Current.name => k <= m
                             /\ marks' = {k \in marks : k <= m}
      BY <2>9 DEF GoesBack
    <3>2. requests[taken].kind = "RollbackTo" /\ trancount' = trancount
      BY <2>9 DEF GoesBack, Current
    <3> DEFINE h == requests[taken].undoes
    <3>3. Pending(taken) /\ taken \in Sent
      BY <1>2, <2>1 DEF Pending
    <3>4. h \in 1..(taken - 1) /\ NameOf(h) = NameOf(taken)
      BY <3>2, <3>3 DEF HeldInv, UndoShape
    <3>5. /\ \A k \in 1..Len(handles) : handles[k] < h
          /\ \A s \in (taken + 1)..Len(requests) : IsBackTo(s) => requests[s].undoes < h
      BY <3>2, <3>3 DEF HeldInv, UndoOrder
    <3>6. ASSUME trancount' > 0 PROVE h \in marks /\ h <= m
      <4>1. h \in marks
        BY <1>1, <2>1, <3>2, <3>3, <3>6
      <4>2. QED
        BY <3>1, <3>4, <4>1 DEF NameOf, Current
    <3> HIDE DEF h
    <3>7. m \in Nat /\ h \in Nat
      BY <1>1, <3>4
    <3>8. ASSUME trancount' > 0, NEW k \in 2..Len(handles) PROVE handles[k] \in marks'
      <4>1. handles[k] \in marks /\ handles[k] < h /\ handles[k] \in Nat
        <5>1. k \in 1..Len(handles)
          BY <1>2
        <5>2. handles[k] \in marks
          BY <1>1, <2>1, <3>2, <3>8
        <5>3. QED
          BY <1>1, <3>5, <5>1, <5>2
      <4>2. QED
        BY <3>1, <3>6, <3>7, <3>8, <4>1
    <3>9. ASSUME trancount' > 0, NEW r \in Sent, IsBackTo(r), r > taken
          PROVE  requests[r].undoes \in marks'
      <4>1. r \in (taken + 1)..Len(requests) /\ Pending(r)
        BY <1>2, <3>9 DEF Pending
      <4>2. requests[r].undoes < h /\ requests[r].undoes \in marks
        BY <1>1, <2>1, <3>2, <3>5, <3>9, <4>1
      <4>3. requests[r].undoes \in Nat
        BY <1>1, <4>2
      <4>4. QED
        BY <3>1, <3>6, <3>7, <3>9, <4>2, <4>3
    <3>10. \A k \in marks' : k \in 1..taken /\ requests[k].kind = "Savepoint"
      BY <1>1, <3>1
    <3>11. QED
      BY <2>1, <2>2, <2>3, <3>2, <3>8, <3>9, <3>10 DEF MarkShape
  <2>10. QED
    BY <2>1, <2>5, <2>6, <2>7, <2>8, <2>9
<1>9. QED
  BY <1>3, <1>5, <1>6, <1>7, <1>8, NextCases

-----------------------------------------------------------------------------
(* Work given up.                                                          *)

\* What is given up in a step: what went through the innermost handle, the
\* request awaited, or the transaction whose commit came back "aborted".
LEMMA GivesUp ==
    ASSUME Steps, CallerMoves, NEW i \in discarded', i \notin discarded
    PROVE  /\ i \in Statements
           /\ \/ /\ handles # <<>> /\ Tx(i) = Root /\ Root # 0 /\ i > Top
                 /\ pc = "ended" \/ \E kind \in {"Rollback", "RollbackTo"} : Asks(kind)
              \/ i = awaiting /\ awaiting > taken
              \/ /\ reply = "aborted" /\ awaiting = taken /\ requests[taken].kind = "Commit"
                 /\ i < taken /\ Tx(i) = Tx(taken) /\ Tx(taken) # 0
<1> USE DEF Steps
<1>1. /\ Len(requests) \in Nat /\ Len(handles) \in Nat /\ taken \in 0..Len(requests)
      /\ Sent = 1..Len(requests) /\ Statements \subseteq Sent
      /\ handles = <<>> <=> Len(handles) = 0
      /\ awaiting \in 0..Len(requests)
  BY Basics, HandleBasics DEF Statements, Sent
<1>2. ASSUME handles # <<>>, i \in Since(Top)
      PROVE  i \in Statements /\ Tx(i) = Root /\ Root # 0 /\ i > Top
  <2> DEFINE m == Len(handles)
  <2>1. m \in 1..m /\ m # 0 /\ Top = handles[m]
    BY <1>1, <1>2 DEF Top
  <2>2. i \in Statements /\ i > Top /\ i \in 1..Len(requests)
    BY <1>1, <1>2 DEF Since
  <2>3. Root = handles[1] /\ Root # 0 /\ handles[1] \in Nat /\ handles[m] \in Nat
    BY <1>1, <1>2, <2>1, Basics, HandleBasics
  <2>4. handles[1] = handles[m] \/ handles[1] < handles[m]
    <3>1. m \in Nat
      BY <1>1
    <3> HIDE DEF m
    <3>2. m = 1 \/ 1 \in 1..(m - 1)
      BY <2>1, <3>1
    <3>3. QED
      BY <2>1, <3>2 DEF HeldInv, HandleOrder, m
  <2> HIDE DEF m
  <2>5. i \in (handles[1] + 1)..Len(requests)
    BY <1>1, <2>1, <2>2, <2>3, <2>4
  <2>6. Tx(i) = handles[1]
    BY <1>2, <2>5 DEF HeldInv, Stretch
  <2>7. QED
    BY <2>2, <2>3, <2>6
<1>3. CASE Sends
  <2>1. PICK kind \in Kinds : Asks(kind)
    BY <1>3, SendsAsk
  <2>2. /\ kind \in {"Rollback", "RollbackTo"} /\ discarded' = discarded \cup Since(Top)
        /\ handles # <<>>
    BY <2>1 DEF Asks, LosesTop
  <2>3. QED
    BY <1>2, <2>1, <2>2
<1>4. CASE ConsumeClosed
  BY <1>2, <1>4 DEF ConsumeClosed, Discard
<1>5. CASE GiveUp
  BY <1>1, <1>5 DEF GiveUp
<1>6. CASE Return
  <2>1. /\ reply = "aborted" /\ requests[awaiting].kind = "Commit" /\ i \in Settled(awaiting)
        /\ awaiting # 0
    BY <1>6 DEF Return
  <2>2. awaiting = taken /\ taken \in Sent
    BY <1>1, <2>1 DEF HeldInv, ReplyShape
  <2>3. i \in Statements /\ i > Tx(taken) /\ i < taken /\ Ends(taken)
    BY <2>1, <2>2 DEF Settled, Since, Tx, Ends
  <2>4. Tx(taken) # 0 /\ Tx(taken) \in Nat
    BY <1>1, <2>2, <2>3, Basics DEF AgreeInv, CallerInv, RequestShape
  <2>5. i \in (Tx(taken) + 1)..(taken - 1)
    BY <1>1, <2>3, <2>4
  <2>6. Tx(i) = Tx(taken)
    BY <2>2, <2>4, <2>5 DEF HeldInv, Stretch
  <2>7. QED
    BY <2>1, <2>2, <2>3, <2>4, <2>6
<1>7. CASE CommitSavepoint \/ ClientGoes \/ Lose \/ Stopped \/ UNCHANGED vars
  BY <1>7 DEF CommitSavepoint, ClientGoes, Lose, Stopped, vars, ledgerVars
<1>8. QED
  BY <1>3, <1>4, <1>5, <1>6, <1>7 DEF CallerMoves

\* Request r, still to be served, undoes statement i.
Undoes(r, i) ==
    /\ Pending(r) /\ r > i /\ Tx(r) = Tx(i)
    /\ requests[r].kind = "Rollback" \/ (IsBackTo(r) /\ requests[r].undoes < i)

LEMMA UndoneStep ==
    ASSUME Steps
    PROVE  UndoneShape'
<1> USE DEF Steps
<1>1. ASSUME NEW i \in discarded
      PROVE  /\ Tx(i) = 0 => ~Doing(i) /\ i \notin durable
             /\ ~shadowed /\ pc # "ended" /\ Doing(i) => \E r \in Sent : Undoes(r, i)
             /\ i \in Sent /\ i \in Statements /\ i # awaiting /\ i # awaiting'
  <2>1. i \in Statements /\ i # awaiting
    BY DEF HeldInv, GivenUpShape
  <2>2. i \in discarded'
    <3>1. CASE CallerMoves
      BY <3>1, CallerMovesFrame
    <3>2. CASE ~CallerMoves
      BY <3>2, NextCases, ReceivesFrame, AnsweringFrame, CleaningFrame, EndingFrame, ServingCases
    <3>3. QED
      BY <3>1, <3>2
  <2>3. i # awaiting'
    BY <2>2 DEF HeldInv, GivenUpShape
  <2>4. QED
    BY <2>1, <2>3 DEF WorkInv, UndoneShape, Undoes, Statements
<1>2. /\ Len(requests) \in Nat /\ taken \in 0..Len(requests) /\ Sent = 1..Len(requests)
      /\ trancount = 0 => work = {}
      /\ \A i \in work \cup durable : i \in Statements /\ i <= taken /\ (pc = "sent" => i # taken)
  BY Basics DEF Sent, WorkInv, TxShape, DoneShape
<1>3. ASSUME \A i \in discarded' :
                 /\ requests'[i].tx = 0 => ~Doing(i)' /\ i \notin durable'
                 /\ ~shadowed' /\ pc' # "ended" /\ Doing(i)' => \E r \in Sent' : Undoes(r, i)'
      PROVE  UndoneShape'
  BY <1>3 DEF UndoneShape, Undoes, Tx, IsBackTo
<1>4. CASE CallerMoves
  <2>1. /\ UNCHANGED <<taken, pc, work, durable>> /\ (shadowed => shadowed')
        /\ \A i \in discarded' : Doing(i)' <=> Doing(i)
    BY <1>4, CallerMovesFrame DEF Doing
  <2>2. \A r \in Sent : r \in Sent' /\ requests'[r] = requests[r] /\ (Pending(r)' <=> Pending(r))
    BY <1>4, <2>1, CallerMovesHeld DEF Pending
  <2>3. ASSUME NEW i \in discarded', i \in discarded
        PROVE  /\ requests'[i].tx = 0 => ~Doing(i)' /\ i \notin durable'
               /\ ~shadowed' /\ pc' # "ended" /\ Doing(i)' => \E r \in Sent' : Undoes(r, i)'
    BY <1>1, <2>1, <2>2, <2>3 DEF Undoes, Tx, IsBackTo
  <2>4. ASSUME NEW i \in discarded', i \notin discarded
        PROVE  /\ requests'[i].tx = 0 => ~Doing(i)' /\ i \notin durable'
               /\ ~shadowed' /\ pc' # "ended" /\ Doing(i)' => \E r \in Sent' : Undoes(r, i)'
    <3>1. i \in Sent /\ requests'[i] = requests[i]
      BY <1>4, <2>2, <2>4, GivesUp DEF Statements
    <3>2. CASE /\ handles # <<>> /\ Tx(i) = Root /\ Root # 0 /\ i > Top
               /\ pc = "ended" \/ \E kind \in {"Rollback", "RollbackTo"} : Asks(kind)
      <4>1. CASE pc = "ended"
        BY <2>1, <3>1, <3>2, <4>1 DEF Tx
      <4>2. CASE \E kind \in {"Rollback", "RollbackTo"} : Asks(kind)
        <5>1. PICK kind \in {"Rollback", "RollbackTo"} : Asks(kind)
          BY <4>2
        <5>0. PICK r \in Nat : r = Len(requests) + 1
          BY <1>2
        <5>2. /\ Len(requests') = r /\ requests'[r].kind = kind /\ requests'[r].tx = Root
              /\ kind = "RollbackTo" => requests'[r].undoes = Top
          BY <5>0, <5>1 DEF Asks
        <5>3. r \in Sent' /\ r > taken /\ r > i
          BY <1>2, <3>1, <5>0, <5>2 DEF Sent
        <5>4. Undoes(r, i)'
          BY <2>1, <3>1, <3>2, <5>2, <5>3 DEF Undoes, Pending, Tx, IsBackTo
        <5>5. QED
          BY <3>1, <3>2, <5>3, <5>4 DEF Tx
      <4>3. QED
        BY <3>2, <4>1, <4>2
    <3>3. CASE i = awaiting /\ awaiting > taken
      <4>1. i \notin work /\ i \notin durable /\ i # taken
        BY <1>2, <3>1, <3>3
      <4>2. QED
        BY <2>1, <4>1 DEF Doing
    <3>4. CASE /\ reply = "aborted" /\ awaiting = taken /\ requests[taken].kind = "Commit"
               /\ i < taken /\ Tx(i) = Tx(taken) /\ Tx(taken) # 0
      <4>1. work = {} /\ i # taken
        BY <1>2, <3>1, <3>4 DEF WorkInv, TxShape
      <4>2. QED
        BY <2>1, <3>1, <3>4, <4>1 DEF Doing, Tx
    <3>5. QED
      BY <1>4, <2>4, <3>2, <3>3, <3>4, GivesUp
  <2>5. QED
    BY <1>3, <2>3, <2>4
<1>5. ASSUME requests' = requests, discarded' = discarded, durable' = durable, shadowed' = shadowed,
             \A i \in discarded : Doing(i)' => Doing(i),
             pc' # "ended" => pc # "ended",
             \A i \in discarded : \A r \in Sent :
                 Undoes(r, i) /\ pc' # "ended" /\ Doing(i)' => Undoes(r, i)'
      PROVE  UndoneShape'
  <2>1. Sent' = Sent
    BY <1>5 DEF Sent
  <2>2. ASSUME NEW i \in discarded
        PROVE  /\ requests'[i].tx = 0 => ~Doing(i)' /\ i \notin durable'
               /\ ~shadowed' /\ pc' # "ended" /\ Doing(i)' => \E r \in Sent' : Undoes(r, i)'
    BY <1>1, <1>5, <2>1 DEF Tx
  <2>3. QED
    BY <1>3, <1>5, <2>2
<1>6. CASE Receives
  <2>1. /\ Receive /\ taken \in Nat /\ taken' = taken + 1 /\ taken < Len(requests) /\ pc = "idle"
        /\ UNCHANGED <<awaiting, requests, trancount, work, durable, discarded, shadowed>>
    BY <1>6, ReceivesFrame
  <2>2. \/ pc' # "sent" /\ requests[taken'].kind \in {"Statement", "Begin"}
        \/ pc' # "sent" /\ txState = "Aborted"
        \/ pc' = "sent" /\ (requests[taken'].kind = "Statement" => awaiting = taken')
    BY <1>6, <2>1 DEF Receives, Skip, ReceiveAborted, Dispatch, Abandoned, taskVars
  <2>3. ASSUME NEW i \in discarded, Doing(i)' PROVE i \in work /\ txState # "Aborted"
    <3>1. i # taken' \/ pc' # "sent"
      BY <1>1, <2>1, <2>2 DEF Statements
    <3>2. i \in work
      BY <2>1, <2>3, <3>1 DEF Doing
    <3>3. trancount # 0
      BY <1>2, <3>2
    <3>4. QED
      BY <3>2, <3>3 DEF WorkInv, TxShape
  <2>4. ASSUME NEW i \in discarded, NEW r \in Sent, Undoes(r, i), Doing(i)' PROVE Undoes(r, i)'
    <3>1. r \in Nat /\ r > taken
      BY <1>2, <2>1, <2>4 DEF Undoes, Pending
    <3>2. r # taken' \/ pc' = "sent"
      BY <2>2, <2>3, <2>4 DEF Undoes, IsBackTo
    <3>3. Pending(r)'
      BY <2>1, <3>1, <3>2 DEF Pending
    <3>4. QED
      BY <2>1, <2>4, <3>3 DEF Undoes, Tx, IsBackTo
  <2>5. QED
    BY <1>5, <2>1, <2>3, <2>4 DEF Doing
<1>7. CASE Answering
  <2>1. /\ pc' \notin {"sent", "ended"} /\ UNCHANGED <<work, durable, discarded, shadowed>>
        /\ UNCHANGED channelVars /\ pc # "ended" /\ (pc = "sent" => requests[taken].kind = "Statement")
    BY <1>7, AnsweringFrame
  <2>2. \A i \in discarded : Doing(i)' => Doing(i)
    BY <2>1 DEF Doing
  <2>3. ASSUME NEW i \in discarded, NEW r \in Sent, Undoes(r, i) PROVE Undoes(r, i)'
    BY <2>1, <2>3 DEF Undoes, Pending, IsBackTo, Tx, channelVars
  <2>4. QED
    BY <1>5, <2>1, <2>2, <2>3 DEF channelVars
<1>8. CASE Cleaning
  <2>1. /\ pc' \notin {"sent", "ended"} /\ UNCHANGED <<durable, discarded, shadowed>>
        /\ UNCHANGED channelVars /\ pc \notin {"sent", "ended"} /\ work' \subseteq work
    BY <1>8, CleaningFrame
  <2>2. \A i \in discarded : Doing(i)' => Doing(i)
    BY <2>1 DEF Doing
  <2>3. ASSUME NEW i \in discarded, NEW r \in Sent, Undoes(r, i) PROVE Undoes(r, i)'
    BY <2>1, <2>3 DEF Undoes, Pending, IsBackTo, Tx, channelVars
  <2>4. QED
    BY <1>5, <2>1, <2>2, <2>3 DEF channelVars
<1>9. CASE Ending
  <2>1. /\ pc' = "ended" /\ UNCHANGED <<work, durable, discarded, shadowed>> /\ UNCHANGED channelVars
    BY <1>9, EndingFrame
  <2>2. \A i \in discarded : Doing(i)' => Doing(i)
    BY <2>1 DEF Doing
  <2>3. QED
    BY <1>1, <1>3, <2>1, <2>2 DEF channelVars, Tx
<1>10. CASE Serving
  <2>1. /\ pc = "sent" /\ pc' = "answered" /\ taken # 0
        /\ UNCHANGED channelVars /\ UNCHANGED <<discarded, shadowed>>
        /\ \/ Fails \/ Aborts \/ DoesAlone \/ DoesInside \/ Begins
           \/ CommitsInner \/ CommitsAll \/ Marks \/ GoesBack
    BY <1>10, ServingCases
  <2>2. requests' = requests /\ taken' = taken /\ Sent' = Sent /\ taken \in Sent
    BY <1>2, <2>1 DEF channelVars, Sent
  <2>3. /\ work' \subseteq work \cup {taken}
        /\ durable' \subseteq durable \cup work \cup {taken}
    BY <2>1 DEF Fails, NoEffect, Aborts, Abort, DoesAlone, DoesInside, Begins, CommitsInner,
       CommitsAll, Marks, GoesBack
  <2>4. Doing(taken) /\ \A i \in work : Doing(i)
    BY <2>1 DEF Doing
  <2>5. \A i \in discarded : Doing(i)' => Doing(i) /\ i \in work'
    BY <2>1, <2>3, <2>4 DEF Doing
  <2>6. \A i \in discarded : Tx(i) = 0 => ~Doing(i)' /\ i \notin durable'
    BY <1>1, <2>3, <2>4, <2>5
  <2>7. ASSUME NEW i \in discarded, ~shadowed, i \in work', NEW r \in Sent, Undoes(r, i)
        PROVE  Undoes(r, i)'
    <3>1. ASSUME r = taken PROVE FALSE
      <4>1. CASE requests[taken].kind = "Rollback"
        <5>1. (Fails /\ trancount = 0) \/ Aborts
          BY <2>1, <4>1 DEF Fails, DoesAlone, DoesInside, Begins, CommitsInner, CommitsAll, Marks,
             GoesBack, Current
        <5>2. work' = {}
          BY <1>2, <5>1 DEF Fails, NoEffect, Aborts, Abort
        <5>3. QED
          BY <2>7, <5>2
      <4>2. CASE IsBackTo(taken) /\ requests[taken].undoes < i
        <5> DEFINE h == requests[taken].undoes
        <5>1. /\ Pending(taken) /\ h \in 1..(taken - 1) /\ NameOf(h) = NameOf(taken)
              /\ \A s \in (h + 1)..(taken - 1) : IsSavepoint(s) => NameOf(s) # NameOf(taken)
          BY <2>1, <2>2, <2>7, <4>2 DEF HeldInv, UndoShape, NameShape, Pending
        <5>2. trancount > 0 => h \in marks
          BY <2>1, <2>2, <4>2, <5>1 DEF WorkInv, MarkShape
        <5>3. Fails \/ Aborts \/ GoesBack
          BY <2>1, <4>2 DEF Fails, DoesAlone, DoesInside, Begins, CommitsInner, CommitsAll, Marks,
             Current, IsBackTo
        <5>4. trancount > 0
          <6>1. trancount = 0 => ~Aborts /\ marks' \subseteq marks /\ work' \subseteq work
            BY <5>3 DEF Fails, NoEffect, Aborts, Abort, GoesBack
          <6>2. trancount # 0
            BY <1>2, <2>7, <6>1
          <6>3. QED
            BY <6>2 DEF TypeOK
        <5>5. GoesBack
          <6>1. ~Aborts
            BY <2>7 DEF Aborts, Abort
          <6>2. ~Fails
            BY <4>2, <5>1, <5>2, <5>4 DEF Fails, Current, NameOf, IsBackTo
          <6>3. QED
            BY <5>3, <6>1, <6>2
        <5>6. PICK m \in marks : /\ NameOf(m) = Current.name
                                 /\ work' = {j \in work : j < m}
          BY <5>5 DEF GoesBack
        <5>7. m \in 1..taken /\ IsSavepoint(m) /\ i < m
          BY <2>7, <5>6 DEF WorkInv, MarkShape
        <5>8. m # taken
          BY <4>2, <5>7 DEF IsBackTo, IsSavepoint
        <5> HIDE DEF h
        <5>9. h < i /\ i \in Nat /\ h \in Nat /\ taken \in Nat
          BY <1>1, <1>2, <4>2, <5>1 DEF h
        <5>10. m \in (h + 1)..(taken - 1)
          BY <5>7, <5>8, <5>9
        <5>11. QED
          BY <5>1, <5>6, <5>7, <5>10 DEF NameOf, Current
      <4>3. QED
        BY <2>7, <3>1, <4>1, <4>2 DEF Undoes
    <3>2. Pending(r)'
      BY <2>2, <2>7, <3>1 DEF Undoes, Pending
    <3>3. QED
      BY <2>2, <2>7, <3>2 DEF Undoes, IsBackTo, Tx
  <2>8. QED
    <3>1. ASSUME NEW i \in discarded, ~shadowed, Doing(i)' PROVE \E r \in Sent' : Undoes(r, i)'
      <4>1. Doing(i) /\ i \in work'
        BY <2>5, <3>1
      <4>2. PICK r \in Sent : Undoes(r, i)
        BY <1>1, <2>1, <3>1, <4>1
      <4>3. QED
        BY <2>2, <2>7, <3>1, <4>1, <4>2
    <3>2. QED
      BY <1>3, <2>1, <2>2, <2>6, <3>1 DEF Tx
<1>11. QED
  BY <1>4, <1>6, <1>7, <1>8, <1>9, <1>10, NextCases

-----------------------------------------------------------------------------
(* What the caller was told.                                               *)

LEMMA ToldTaken ==
    ASSUME TypeOK, AgreeInv, HeldInv, DoneShape, NEW i, Told(i)
    PROVE  i \in 1..taken /\ i \in Sent
<1>1. taken \in 0..Len(requests) /\ Len(requests) \in Nat
  BY Basics
<1>2. i \in acked => i \in 1..taken
  BY DEF DoneShape
<1>3. OkUnread(i) => i = taken /\ taken # 0
  BY DEF OkUnread, TypeOK, AgreeInv, CallerInv, AwaitShape, HeldInv, ReplyShape
<1>4. QED
  BY <1>1, <1>2, <1>3 DEF Told, Sent

LEMMA ToldStep ==
    ASSUME Steps
    PROVE  ToldShape'
<1> USE DEF Steps
<1> SUFFICES ASSUME ~orphaned' PROVE ToldShape'
  BY DEF ToldShape
<1>1. ~orphaned
  <2>1. CASE CallerMoves
    BY <2>1, CallerMovesFrame
  <2>2. CASE ~CallerMoves
    BY <2>2, NextCases, ReceivesFrame, AnsweringFrame, CleaningFrame, EndingFrame, ServingCases
  <2>3. QED
    BY <2>1, <2>2
<1>2. /\ Len(requests) \in Nat /\ taken \in 0..Len(requests) /\ Sent = 1..Len(requests)
      /\ trancount \in Nat
  BY Basics DEF Sent, TypeOK
<1>3. ASSUME NEW i, i \in Statements, Told(i)
      PROVE  /\ i <= taken /\ (pc = "sent" => i # taken)
             /\ Tx(i) = 0 => i \in durable
             /\ Tx(i) # 0 /\ i \notin discarded /\ Tx(i) = Tx(taken) =>
                    /\ pc # "ended" /\ trancount > 0 => i \in work
                    /\ requests[taken].kind = "Commit" /\ OkUnread(taken) => i \in durable
             /\ i \in 1..taken /\ i \in Sent /\ taken \in Sent
  <2>1. i \in 1..taken /\ i \in Sent
    BY <1>3, ToldTaken DEF WorkInv
  <2>2. taken \in Sent
    BY <1>2, <2>1
  <2>3. QED
    BY <1>1, <1>3, <2>1, <2>2 DEF WorkInv, ToldShape
<1>4. ASSUME \A i : i \in Statements' /\ Told(i)' =>
                 i \in Statements /\ Told(i) /\ requests'[i] = requests[i],
             requests'[taken] = requests[taken] \/ taken = 0, taken' = taken,
             pc' = "sent" => pc = "sent", pc' # "ended" => pc # "ended",
             durable' = durable, discarded \subseteq discarded',
             trancount' = 0 \/ (trancount' = trancount /\ work' = work),
             OkUnread(taken)' => OkUnread(taken)
      PROVE  ToldShape'
  <2> SUFFICES ASSUME NEW i, i \in Statements', Told(i)'
               PROVE  /\ i <= taken' /\ (pc' = "sent" => i # taken')
                      /\ requests'[i].tx = 0 => i \in durable'
                      /\ /\ requests'[i].tx # 0 /\ i \notin discarded'
                         /\ requests'[i].tx = requests'[taken].tx
                         => /\ pc' # "ended" /\ trancount' > 0 => i \in work'
                            /\ requests'[taken].kind = "Commit" /\ OkUnread(taken)' => i \in durable'
    BY <1>4 DEF ToldShape, Tx
  <2>1. i \in Statements /\ Told(i) /\ requests'[i] = requests[i]
    BY <1>4
  <2>2. /\ i <= taken /\ (pc = "sent" => i # taken)
        /\ Tx(i) = 0 => i \in durable
        /\ Tx(i) # 0 /\ i \notin discarded /\ Tx(i) = Tx(taken) =>
               /\ pc # "ended" /\ trancount > 0 => i \in work
               /\ requests[taken].kind = "Commit" /\ OkUnread(taken) => i \in durable
        /\ taken \in Sent
    BY <1>3, <2>1
  <2>3. requests'[taken] = requests[taken]
    BY <1>2, <1>4, <2>2
  <2>4. QED
    BY <1>4, <2>1, <2>2, <2>3 DEF Tx
<1>5. CASE CallerMoves
  <2>1. /\ UNCHANGED <<taken, pc, trancount, work, durable>> /\ discarded \subseteq discarded'
        /\ \A i \in 1..taken : requests'[i] = requests[i]
    BY <1>5, CallerMovesFrame
  <2>2. acked' = acked \/ (acked' = acked \cup {awaiting} /\ OkUnread(awaiting))
    <3>1. CASE Return
      BY <3>1 DEF Return, OkUnread
    <3>2. CASE Sends
      BY <3>2, SendsAsk DEF Asks
    <3>3. QED
      BY <1>5, <3>1, <3>2 DEF CallerMoves, CommitSavepoint, ConsumeClosed, Discard, GiveUp, ClientGoes,
         Lose, Stopped, vars, ledgerVars
  <2>3. \A i \in Nat : OkUnread(i)' => OkUnread(i)
    BY <1>5, CallerMovesHeld
  <2>4. ASSUME NEW i, i \in Statements', Told(i)'
        PROVE  i \in Statements /\ Told(i) /\ requests'[i] = requests[i]
    <3>1. i \in Nat
      BY <2>4, SentIsNat DEF Statements, TypeOK, Sent
    <3>2. Told(i)
      BY <2>2, <2>3, <2>4, <3>1 DEF Told
    <3>3. i \in 1..taken /\ i \in Sent
      BY <3>2, ToldTaken DEF WorkInv
    <3>4. QED
      BY <2>1, <2>4, <3>2, <3>3 DEF Statements
  <2>5. requests'[taken] = requests[taken] \/ taken = 0
    BY <1>2, <2>1
  <2>6. OkUnread(taken)' => OkUnread(taken)
    <3>1. taken \in Nat /\ taken' = taken
      BY <1>2, <2>1
    <3>2. QED
      BY <2>3, <3>1
  <2>7. QED
    BY <1>4, <2>1, <2>4, <2>5, <2>6
<1>6. CASE Receives
  <2>1. /\ taken \in Nat /\ taken' = taken + 1 /\ taken < Len(requests) /\ pc = "idle"
        /\ UNCHANGED <<awaiting, requests, trancount, work, durable, acked, discarded>>
        /\ \A i \in 1..taken' : ~OkUnread(i)' \/ requests[i].kind = "Rollback"
    BY <1>6, ReceivesFrame
  <2>2. Statements' = Statements /\ Statements \subseteq Sent
    BY <2>1 DEF Statements, Sent
  <2>3. ASSUME NEW i \in Statements, Told(i)' PROVE i \in acked
    <3>1. ASSUME OkUnread(i)' PROVE i = taken'
      BY <2>1, <3>1 DEF OkUnread, HeldInv, ReplyShape
    <3>2. ~OkUnread(i)'
      <4>1. taken' \in 1..taken'
        BY <2>1
      <4>2. QED
        BY <2>1, <3>1, <4>1 DEF Statements
    <3>3. QED
      BY <2>1, <2>3, <3>2 DEF Told
  <2>4. ASSUME NEW i \in Statements, i \in acked
        PROVE  /\ i <= taken' /\ i # taken'
               /\ Tx(i) = 0 => i \in durable
               /\ Tx(i) # 0 /\ i \notin discarded /\ Tx(i) = Tx(taken') /\ trancount > 0 => i \in work
    <3>1. Told(i)
      BY <2>4 DEF Told
    <3>2. i \in 1..taken /\ i \in Sent /\ taken \in Sent
      BY <1>3, <3>1
    <3>3. ASSUME Tx(i) # 0, Tx(i) = Tx(taken + 1) PROVE Tx(i) = Tx(taken)
      <4>1. Tx(i) \in Nat /\ Tx(i) < i /\ taken + 1 \in Sent
        BY <1>2, <2>1, <3>2, Basics DEF AgreeInv, CallerInv, RequestShape
      <4>2. taken \in (Tx(taken + 1) + 1)..((taken + 1) - 1)
        BY <1>2, <3>2, <3>3, <4>1
      <4>3. QED
        BY <3>3, <4>1, <4>2 DEF HeldInv, Stretch
    <3>4. QED
      BY <1>3, <2>1, <3>1, <3>2, <3>3
  <2>5. ~OkUnread(taken)' \/ requests[taken'].kind = "Rollback"
    <3>1. taken' \in 1..taken'
      BY <2>1
    <3>2. QED
      BY <2>1, <3>1 DEF OkUnread
  <2>6. QED
    BY <2>1, <2>2, <2>3, <2>4, <2>5 DEF ToldShape, Tx
<1>7. CASE Answering \/ Cleaning \/ Ending
  <2>1. /\ UNCHANGED channelVars /\ pc' # "sent" /\ (pc' # "ended" => pc # "ended")
        /\ UNCHANGED <<durable, acked, discarded>>
        /\ trancount' = 0 \/ (trancount' = trancount /\ work' = work)
        /\ \A i \in Nat : OkUnread(i)' => OkUnread(i)
    BY <1>7, AnsweringFrame, CleaningFrame, EndingFrame
  <2>2. Statements' = Statements /\ Statements \subseteq Nat
    BY <1>2, <2>1 DEF Statements, Sent, channelVars
  <2>3. \A i : i \in Statements' /\ Told(i)' => i \in Statements /\ Told(i)
    BY <2>1, <2>2 DEF Told
  <2>4. OkUnread(taken)' => OkUnread(taken)
    <3>1. taken \in Nat /\ taken' = taken
      BY <1>2, <2>1 DEF channelVars
    <3>2. QED
      BY <2>1, <3>1
  <2>5. QED
    BY <1>4, <2>1, <2>3, <2>4 DEF channelVars
<1>8. CASE Serving
  <2>1. /\ pc = "sent" /\ pc' = "answered" /\ taken # 0
        /\ UNCHANGED callerVars /\ UNCHANGED channelVars /\ UNCHANGED <<acked, discarded>>
        /\ \A i \in Nat : OkUnread(i)' => i = taken /\ result' = "ok"
        /\ \/ Fails \/ Aborts \/ DoesAlone \/ DoesInside \/ Begins
           \/ CommitsInner \/ CommitsAll \/ Marks \/ GoesBack
    BY <1>8, ServingCases
  <2>2. /\ requests' = requests /\ taken' = taken /\ taken \in Sent /\ Statements' = Statements
        /\ Statements \subseteq Sent
    BY <1>2, <2>1 DEF channelVars, Statements, Sent
  <2>3. trancount = IF Tx(taken) # 0 THEN 1 ELSE 0
    BY <1>1, <2>1 DEF AgreeInv, TaskInv, States
  <2>4. durable \subseteq durable'
    BY <2>1 DEF Fails, NoEffect, Aborts, Abort, DoesAlone, DoesInside, Begins, CommitsInner,
       CommitsAll, Marks, GoesBack
  <2>5. IsBegin(taken) => Tx(taken) = 0
    BY <2>2 DEF AgreeInv, CallerInv, RequestShape
  <2>6. ASSUME NEW i \in Statements, i \in acked, i \notin discarded, Tx(i) # 0, Tx(i) = Tx(taken)
        PROVE  /\ trancount' > 0 => i \in work'
               /\ requests[taken].kind = "Commit" /\ result' = "ok" => i \in durable'
    <3>1. trancount = 1 /\ ~IsBegin(taken) /\ i \in 1..taken /\ i # taken /\ i \in work
      <4>1. Told(i)
        BY <2>6 DEF Told
      <4>2. QED
        BY <1>3, <2>1, <2>3, <2>5, <2>6, <4>1
    <3>2. ~DoesAlone /\ ~Begins /\ ~CommitsInner
      BY <3>1 DEF DoesAlone, Begins, CommitsInner, Current, IsBegin
    <3>3. CASE Fails \/ DoesInside \/ Marks
      BY <3>1, <3>3 DEF Fails, NoEffect, DoesInside, Marks, Current
    <3>4. CASE Aborts
      BY <3>4 DEF Aborts, Abort, Current
    <3>5. CASE CommitsAll
      BY <3>1, <3>5 DEF CommitsAll
    <3>6. CASE GoesBack
      <4>1. PICK m \in marks : /\ NameOf(m) = Current.name
                               /\ \A k \in marks : NameOf(k) = Current.name => k <= m
                               /\ work' = {j \in work : j < m}
        BY <3>6 DEF GoesBack
      <4>2. IsBackTo(taken) /\ Pending(taken)
        BY <2>1, <3>6 DEF GoesBack, Current, IsBackTo, Pending
      <4> DEFINE h == requests[taken].undoes
      <4>3. /\ h \in 1..(taken - 1) /\ NameOf(h) = NameOf(taken)
            /\ \A j \in (h + 1)..(taken - 1) : j \in Statements => j \in discarded
        BY <2>2, <4>2 DEF HeldInv, UndoShape
      <4>4. h \in marks
        BY <2>1, <2>2, <3>1, <4>2 DEF WorkInv, MarkShape
      <4>5. h <= m /\ m \in Nat /\ IsSavepoint(m)
        BY <4>1, <4>3, <4>4 DEF NameOf, Current, WorkInv, MarkShape
      <4> HIDE DEF h
      <4>6. i <= h
        BY <1>2, <2>6, <3>1, <4>3
      <4>7. i # m
        BY <2>6, <4>5 DEF IsSavepoint, Statements
      <4>8. QED
        BY <3>1, <3>6, <4>1, <4>3, <4>5, <4>6, <4>7 DEF GoesBack, Current
    <3>7. QED
      BY <2>1, <3>2, <3>3, <3>4, <3>5, <3>6
  <2>7. ASSUME taken \in Statements, result' = "ok"
        PROVE  /\ Tx(taken) = 0 => taken \in durable'
               /\ Tx(taken) # 0 /\ trancount' > 0 => taken \in work'
    <3>1. DoesAlone \/ DoesInside \/ Aborts
      BY <2>1, <2>7 DEF Fails, Begins, CommitsInner, CommitsAll, Marks, GoesBack, Current, Statements
    <3>2. QED
      BY <2>3, <3>1 DEF DoesAlone, DoesInside, Aborts, Abort
  <2>8. ASSUME NEW i \in Statements, Told(i)'
        PROVE  i \in acked \/ (i = taken /\ result' = "ok")
    BY <1>2, <2>1, <2>2, <2>8 DEF Told
  <2>9. OkUnread(taken)' => result' = "ok"
    <3>1. taken \in Nat /\ taken' = taken
      BY <1>2, <2>2
    <3>2. QED
      BY <2>1, <3>1
  <2>10. ASSUME NEW i \in Statements, i \in acked
         PROVE  i <= taken /\ (Tx(i) = 0 => i \in durable)
    BY <1>3, <2>10 DEF Told
  <2>11. ASSUME NEW i \in Statements, Told(i)'
         PROVE  /\ i <= taken /\ (Tx(i) = 0 => i \in durable')
                /\ Tx(i) # 0 /\ i \notin discarded /\ Tx(i) = Tx(taken) =>
                       /\ trancount' > 0 => i \in work'
                       /\ requests[taken].kind = "Commit" /\ OkUnread(taken)' => i \in durable'
    <3>1. CASE i \in acked
      BY <2>4, <2>6, <2>9, <2>10, <3>1
    <3>2. CASE i = taken /\ result' = "ok"
      BY <1>2, <2>7, <3>2 DEF Statements
    <3>3. QED
      BY <2>8, <2>11, <3>1, <3>2
  <2>12. QED
    BY <2>1, <2>2, <2>11 DEF ToldShape, Tx
<1>9. QED
  BY <1>5, <1>6, <1>7, <1>8, NextCases

-----------------------------------------------------------------------------
(* The isolation level.                                                    *)

LEMMA OrphanedStays ==
    ASSUME Steps, ~orphaned'
    PROVE  ~orphaned
<1>1. CASE CallerMoves
  BY <1>1, CallerMovesFrame DEF Steps
<1>2. CASE ~CallerMoves
  BY <1>2, NextCases, ReceivesFrame, AnsweringFrame, CleaningFrame, EndingFrame, ServingCases
     DEF Steps
<1>3. QED
  BY <1>1, <1>2

LEMMA LevelStep ==
    ASSUME Steps
    PROVE  LevelShape'
<1> USE DEF Steps
<1> SUFFICES ASSUME ~orphaned' PROVE LevelShape'
  BY DEF LevelShape
<1>1. ~orphaned
  BY OrphanedStays
<1>2. /\ Len(requests) \in Nat /\ taken \in 0..Len(requests) /\ level \in {"rc", "other"}
      /\ levelChanged \in BOOLEAN /\ result \in {"ok", "err"}
      /\ \A i \in 1..Len(requests) : Tx(i) \in Nat /\ Tx(i) < i
      /\ pc \in {"sent", "answered"} => taken # 0
      /\ Sent = 1..Len(requests)
  BY Basics DEF TypeOK, AgreeInv, CallerInv, RequestShape, Sent
<1>3. /\ pc \in {"sent", "answered"} =>
             IF IsBegin(taken)
             THEN /\ ~levelChanged
                  /\ level = IF pc = "answered" /\ result = "ok" THEN LevelOf(taken) ELSE "rc"
             ELSE level = IF Tx(taken) # 0 THEN LevelOf(Tx(taken)) ELSE "rc"
      /\ pc = "idle" =>
             level = IF taken = 0 \/ ~Inside(taken) THEN "rc"
                     ELSE LevelOf(IF IsBegin(taken) THEN taken ELSE Tx(taken))
      /\ pc # "ended" => \/ levelChanged <=> level = "other"
                         \/ pc = "answered" /\ IsBegin(taken)
  BY <1>1 DEF WorkInv, LevelShape
<1>4. CASE CallerMoves
  <2>1. /\ UNCHANGED <<taken, pc, levelChanged, result, level>>
        /\ \A i \in 1..taken : requests'[i] = requests[i]
    BY <1>4, CallerMovesFrame
  <2>2. CASE taken = 0
    BY <1>2, <1>3, <2>1, <2>2 DEF LevelShape
  <2>3. CASE pc = "ended"
    BY <2>1, <2>3 DEF LevelShape
  <2>4. CASE taken # 0 /\ pc # "ended"
    <3>1. Inside(taken)' <=> Inside(taken)
      BY <1>4, <2>4, CallerMovesInside
    <3>2. /\ requests'[taken] = requests[taken]
          /\ Tx(taken) # 0 => requests'[Tx(taken)] = requests[Tx(taken)]
      <4>1. taken \in 1..taken /\ taken \in 1..Len(requests)
        BY <1>2, <2>4
      <4>2. Tx(taken) # 0 => Tx(taken) \in 1..taken
        BY <1>2, <4>1
      <4>3. QED
        BY <2>1, <4>1, <4>2
    <3>3. /\ Tx(taken)' = Tx(taken) /\ IsBegin(taken)' = IsBegin(taken)
          /\ LevelOf(taken)' = LevelOf(taken)
          /\ Tx(taken) # 0 => LevelOf(Tx(taken))' = LevelOf(Tx(taken))
      BY <2>1, <3>2 DEF Tx, IsBegin, LevelOf
    <3>4. Inside(taken) /\ ~IsBegin(taken) => Tx(taken) # 0
      BY DEF Inside
    <3>5. /\ pc \in {"sent", "answered"} =>
                 IF IsBegin(taken)'
                 THEN /\ ~levelChanged
                      /\ level = IF pc = "answered" /\ result = "ok" THEN LevelOf(taken)' ELSE "rc"
                 ELSE level = IF Tx(taken)' # 0 THEN LevelOf(Tx(taken))' ELSE "rc"
          /\ pc # "ended" => \/ levelChanged <=> level = "other"
                             \/ pc = "answered" /\ IsBegin(taken)'
      BY <1>3, <3>3
    <3>6. pc = "idle" =>
              level = IF taken = 0 \/ ~Inside(taken)' THEN "rc"
                      ELSE IF IsBegin(taken)' THEN LevelOf(taken)' ELSE LevelOf(Tx(taken))'
      BY <1>3, <3>1, <3>3, <3>4
    <3>7. QED
      BY <2>1, <3>5, <3>6 DEF LevelShape, LevelOf, Tx, IsBegin
  <2>5. QED
    BY <2>2, <2>3, <2>4
<1>5. ASSUME UNCHANGED channelVars, taken # 0
      PROVE  /\ Tx(taken)' = Tx(taken) /\ IsBegin(taken)' = IsBegin(taken)
             /\ LevelOf(taken)' = LevelOf(taken) /\ LevelOf(Tx(taken))' = LevelOf(Tx(taken))
  BY <1>5 DEF channelVars, Tx, IsBegin, LevelOf
<1>6. CASE Receives
  <2>1. /\ Receive /\ taken \in Nat /\ taken' = taken + 1 /\ taken < Len(requests) /\ pc = "idle"
        /\ UNCHANGED <<requests, level, levelChanged>>
        /\ reply \in {"none", "closed"}
        /\ reply' = "ok" => requests[taken + 1].kind = "Rollback"
    BY <1>6, ReceivesFrame
  <2> DEFINE t == taken + 1
  <2>2. t \in Sent /\ t # 0 /\ Tx(t) \in Nat
    BY <1>2, <2>1
  <2>3. level = IF Tx(t) = 0 THEN "rc" ELSE LevelOf(Tx(t))
    <3>1. Tx(t) # 0 <=> taken # 0 /\ Inside(taken)
      BY <2>1, NextInside DEF AgreeInv
    <3>2. ASSUME Tx(t) # 0 PROVE Tx(t) = IF IsBegin(taken) THEN taken ELSE Tx(taken)
      <4>1. taken \in 1..(Len(requests) - 1) /\ taken \in Sent
        BY <1>2, <2>1, <3>1, <3>2
      <4>2. \/ Tx(t) = taken /\ IsBegin(taken)
            \/ Tx(t) = Tx(taken) /\ ~Ends(taken)
        BY <3>2, <4>1 DEF AgreeInv, CallerInv, Chain
      <4>3. IsBegin(taken) => Tx(taken) = 0
        BY <4>1 DEF AgreeInv, CallerInv, RequestShape
      <4>4. QED
        BY <3>2, <4>2, <4>3
    <3>3. QED
      BY <1>3, <2>1, <3>1, <3>2
  <2>4. (IsBegin(t) => Tx(t) = 0) /\ (Ends(t) => Tx(t) # 0)
    BY <2>2 DEF AgreeInv, CallerInv, RequestShape
  <2>5. Inside(taken)' <=> Tx(t) # 0 /\ ~Ends(t)
    <3>1. reply' = "ok" /\ IsBegin(awaiting) => reply = "ok"
      <4>1. reply' = "ok" => awaiting = taken'
        BY <2>1 DEF HeldInv, ReplyShape, Receive, callerVars
      <4>2. QED
        BY <2>1, <4>1 DEF IsBegin
    <3>2. QED
      BY <2>1, <3>1, ReceiveInside
  <2>6. levelChanged <=> level = "other"
    BY <1>3, <2>1
  <2>7. \/ pc' = "sent"
        \/ pc' = "restoring"
        \/ pc' = "idle" /\ (Ends(t) => ~levelChanged)
    BY <1>6, <2>1 DEF Receives, Skip, ReceiveAborted, Dispatch, Abandoned, Ends, taskVars
  <2> HIDE DEF t
  <2>8. taken' = t /\ requests' = requests /\ level' = level /\ levelChanged' = levelChanged
    BY <2>1 DEF t
  <2>9. pc' = "sent" =>
            IF IsBegin(t) THEN ~levelChanged /\ level = "rc"
            ELSE level = IF Tx(t) # 0 THEN LevelOf(Tx(t)) ELSE "rc"
    BY <2>3, <2>4, <2>6
  <2>10. pc' = "idle" =>
             level = IF ~(Tx(t) # 0 /\ ~Ends(t)) THEN "rc"
                     ELSE LevelOf(IF IsBegin(t) THEN t ELSE Tx(t))
    BY <1>2, <2>3, <2>4, <2>6, <2>7
  <2>11. pc' # "answered"
    BY <2>7
  <2>12. QED
    BY <2>2, <2>5, <2>6, <2>8, <2>9, <2>10, <2>11 DEF LevelShape, Tx, IsBegin, LevelOf
<1>7. CASE Answering
  <2>1. /\ pc \in {"sent", "answered"} /\ pc' \in {"idle", "undoing", "restoring"}
        /\ UNCHANGED callerVars /\ UNCHANGED channelVars /\ UNCHANGED level
        /\ taken # 0
    BY <1>7, AnsweringFrame
  <2>2. /\ taken' = taken /\ Tx(taken)' = Tx(taken) /\ IsBegin(taken)' = IsBegin(taken)
        /\ LevelOf(taken)' = LevelOf(taken) /\ LevelOf(Tx(taken))' = LevelOf(Tx(taken))
    BY <1>5, <2>1 DEF channelVars
  <2>3. /\ ~IsBegin(taken) => (Inside(taken)' <=> Tx(taken) # 0 /\ ~Ends(taken))
        /\ IsBegin(taken) => (Inside(taken)' <=> awaiting = taken /\ reply' = "ok")
    BY <2>1, ServingInside DEF AgreeInv
  <2>4. ASSUME levelChanged' <=> level = "other",
               pc' = "idle" => level = IF ~Inside(taken)' THEN "rc"
                               ELSE IF IsBegin(taken) THEN LevelOf(taken) ELSE LevelOf(Tx(taken))
        PROVE  LevelShape'
    BY <2>1, <2>2, <2>4 DEF LevelShape, LevelOf, Tx, IsBegin
  <2>5. CASE Reply \/ LoseMasked
    <3>1. ~IsBegin(taken) /\ ~Ends(taken) /\ levelChanged' = levelChanged
      BY <2>5 DEF Reply, LoseMasked, Current, IsBegin, Ends
    <3>2. QED
      BY <1>3, <2>1, <2>3, <2>4, <3>1
  <2>6. CASE ReplyBegin
    <3>1. /\ IsBegin(taken) /\ pc = "answered"
          /\ levelChanged' = (levelChanged \/ (result = "ok" /\ requests[taken].isolation = "other"))
          /\ pc' = "idle" /\ result = "ok" => awaiting = taken
          /\ awaiting = taken => reply' = result
      BY <2>6 DEF ReplyBegin, Current, IsBegin, Answer, NextRound
    <3>2. QED
      BY <1>2, <1>3, <2>1, <2>3, <2>4, <3>1 DEF LevelOf
  <2>7. CASE ReplyEnd
    <3>1. ~IsBegin(taken) /\ Ends(taken) /\ levelChanged' = levelChanged
          /\ (pc' = "idle" => ~levelChanged)
      BY <2>7 DEF ReplyEnd, Current, IsBegin, Ends, NextRound
    <3>2. QED
      BY <1>2, <1>3, <2>1, <2>3, <2>4, <3>1
  <2>8. QED
    BY <1>7, <2>5, <2>6, <2>7 DEF Answering
<1>8. CASE Cleaning
  <2>1. /\ pc \in {"undoing", "restoring"} /\ pc' \in {"idle", "restoring"}
        /\ UNCHANGED callerVars /\ UNCHANGED channelVars /\ reply' = reply
        /\ \/ UndoBegin /\ pc = "undoing" /\ level' = level
           \/ RestoreIsolation /\ pc = "restoring" /\ level' = "rc"
    BY <1>8, CleaningFrame
  <2>2. taken # 0 /\ ~Inside(taken)
    <3>1. pc = "undoing" => taken # 0 /\ IsBegin(taken)
      BY <1>2 DEF AgreeInv, CallerInv, TakenShape
    <3>2. pc = "undoing" => ~Inside(taken)
      BY <2>1, <3>1, ServingInside DEF AgreeInv
    <3>3. pc = "restoring" => taken # 0 /\ ~Inside(taken)
      BY <1>1 DEF AgreeInv, TaskInv, States
    <3>4. QED
      BY <2>1, <3>1, <3>2, <3>3
  <2>3. ~Inside(taken)' /\ taken' = taken
    <3>1. UNCHANGED <<handles, awaiting, reply, requests, taken>>
      BY <2>1 DEF callerVars, channelVars
    <3>2. QED
      BY <2>2, <3>1 DEF Inside, Claimed, Tx, IsBegin, Ends
  <2>4. /\ pc' = "idle" => level' = "rc"
        /\ levelChanged' <=> level' = "other"
    <3>1. CASE UndoBegin
      <4>1. levelChanged' = levelChanged /\ (pc' = "idle" => ~levelChanged)
        BY <3>1 DEF UndoBegin, NextRound
      <4>2. level' = level
        BY <2>1, <3>1 DEF UndoBegin
      <4>3. levelChanged <=> level = "other"
        BY <1>3, <2>1
      <4>4. QED
        BY <1>2, <4>1, <4>2, <4>3
    <3>2. CASE RestoreIsolation
      BY <3>2 DEF RestoreIsolation
    <3>3. QED
      BY <2>1, <3>1, <3>2
  <2>5. QED
    BY <2>1, <2>3, <2>4 DEF LevelShape
<1>9. CASE Ending
  BY <1>9, EndingFrame DEF LevelShape
<1>10. CASE Serving
  <2>1. /\ pc = "sent" /\ pc' = "answered" /\ taken # 0
        /\ UNCHANGED callerVars /\ UNCHANGED channelVars /\ UNCHANGED levelChanged
        /\ \/ Fails \/ Aborts \/ DoesAlone \/ DoesInside \/ Begins
           \/ CommitsInner \/ CommitsAll \/ Marks \/ GoesBack
    BY <1>10, ServingCases
  <2>2. /\ taken' = taken /\ Tx(taken)' = Tx(taken) /\ IsBegin(taken)' = IsBegin(taken)
        /\ LevelOf(taken)' = LevelOf(taken) /\ LevelOf(Tx(taken))' = LevelOf(Tx(taken))
    BY <1>5, <2>1 DEF channelVars
  <2>3. \/ Begins
        \/ level' = level /\ (IsBegin(taken) => result' = "err")
    BY <2>1 DEF Fails, NoEffect, Aborts, Abort, DoesAlone, DoesInside, CommitsInner, CommitsAll,
       Marks, GoesBack, Current, IsBegin
  <2>4. Begins => IsBegin(taken) /\ result' = "ok" /\ level' = LevelOf(taken)
    <3>1. requests[taken].isolation \in Isolations
      <4>1. taken \in Sent
        BY <1>2, <2>1
      <4>2. QED
        BY <4>1, SentIsNat DEF Request
    <3>2. IsBegin(taken) => level = "rc"
      BY <1>3, <2>1
    <3>3. QED
      BY <3>1, <3>2 DEF Begins, Current, IsBegin, LevelOf, Isolations
  <2>5. IF IsBegin(taken)
        THEN /\ ~levelChanged
             /\ level' = IF result' = "ok" THEN LevelOf(taken) ELSE "rc"
        ELSE level' = IF Tx(taken) # 0 THEN LevelOf(Tx(taken)) ELSE "rc"
    BY <1>3, <2>1, <2>3, <2>4
  <2>6. \/ levelChanged <=> level' = "other"
        \/ IsBegin(taken)
    BY <1>3, <2>1, <2>3, <2>4
  <2>7. QED
    BY <2>1, <2>2, <2>5, <2>6 DEF LevelShape, LevelOf, Tx, IsBegin
<1>11. QED
  BY <1>4, <1>6, <1>7, <1>8, <1>9, <1>10, NextCases

-----------------------------------------------------------------------------
(* What was given up and what was kept.                                    *)

\* A statement running outside a transaction was not made in one.
LEMMA AloneIsAlone ==
    ASSUME TypeOK, WorkInv, pc = "sent", DoesAlone
    PROVE  taken \in Statements /\ Tx(taken) = 0
<1>1. /\ taken \in Statements /\ trancount = 0 /\ ~Ends(taken) /\ taken # 0
      /\ txState \in {"None", "Open", "Aborted"}
  BY DEF TypeOK, DoesAlone, Current, Statements, Ends
<1>2. Tx(taken) # 0 => Inside(taken)
  BY <1>1 DEF Inside
<1>3. Inside(taken) => txState = "Open"
  BY <1>1 DEF WorkInv, TxShape
<1>4. txState = "Open" => trancount > 0
  BY DEF WorkInv, TxShape
<1>5. QED
  BY <1>1, <1>2, <1>3, <1>4

\* When a commit is served, nothing given up is left in the transaction.
LEMMA CommitIsClean ==
    ASSUME TypeOK, AgreeInv, HeldInv, WorkInv, pc = "sent", taken # 0,
           requests[taken].kind = "Commit", ~shadowed
    PROVE  work \cap discarded = {}
<1> SUFFICES ASSUME NEW i \in work, i \in discarded PROVE FALSE
  OBVIOUS
<1>1. /\ Len(requests) \in Nat /\ taken \in 1..Len(requests) /\ Sent = 1..Len(requests)
  BY Basics DEF Sent
<1>2. i \in Sent /\ i < taken
  BY <1>1 DEF WorkInv, DoneShape, Statements
<1>3. Tx(i) # 0 /\ Tx(i) < i /\ Tx(i) \in Nat
  <2>1. Tx(i) # 0
    BY DEF WorkInv, UndoneShape, Doing
  <2>2. QED
    BY <1>1, <1>2, <2>1, Basics DEF AgreeInv, CallerInv, RequestShape
<1>4. PICK r \in Sent : /\ Pending(r) /\ Tx(r) = Tx(i)
                        /\ requests[r].kind = "Rollback" \/ IsBackTo(r)
  BY DEF WorkInv, UndoneShape, Doing
<1>5. r > taken
  BY <1>4 DEF Pending, IsBackTo
<1>6. taken \in (Tx(r) + 1)..(r - 1)
  BY <1>1, <1>2, <1>3, <1>4, <1>5
<1>7. ~Ends(taken)
  BY <1>3, <1>4, <1>6 DEF HeldInv, Stretch
<1>8. QED
  BY <1>7 DEF Ends

LEMMA DiscardStep ==
    ASSUME Steps
    PROVE  DiscardedNeverDurable'
<1> USE DEF Steps
<1> SUFFICES ASSUME ~shadowed', NEW i \in discarded', i \in durable' PROVE FALSE
  BY DEF DiscardedNeverDurable
<1>1. /\ Len(requests) \in Nat /\ taken \in 0..Len(requests) /\ Sent = 1..Len(requests)
  BY Basics DEF Sent
<1>2. CASE CallerMoves
  <2>1. ~shadowed /\ durable' = durable
    BY <1>2, CallerMovesFrame
  <2>2. i \notin discarded
    BY <2>1 DEF WorkInv, DiscardedNeverDurable
  <2>3. i \in Sent /\ i <= taken
    BY <1>1, <2>1 DEF WorkInv, DoneShape, Statements
  <2>4. Tx(i) # 0 /\ Tx(i) = Tx(taken) => Ends(taken) /\ ~(awaiting = taken /\ reply = "aborted")
    BY <2>1 DEF WorkInv, DoneShape
  <2>5. ASSUME handles # <<>>, Tx(i) = Root, Root # 0 PROVE FALSE
    <3>1. Root = handles[1] /\ Tx(i) \in Nat /\ Tx(i) < i
      BY <1>1, <2>3, <2>5, Basics DEF AgreeInv, CallerInv, RequestShape
    <3>2. taken \in (handles[1] + 1)..Len(requests)
      BY <1>1, <2>3, <2>5, <3>1
    <3>3. Tx(taken) = handles[1] /\ ~Ends(taken)
      BY <2>5, <3>2 DEF HeldInv, Stretch
    <3>4. QED
      BY <2>4, <2>5, <3>1, <3>3
  <2>6. QED
    BY <1>1, <1>2, <2>2, <2>3, <2>4, <2>5, GivesUp
<1>3. CASE Receives \/ Answering \/ Cleaning \/ Ending
  BY <1>3, ReceivesFrame, AnsweringFrame, CleaningFrame, EndingFrame
     DEF WorkInv, DiscardedNeverDurable
<1>4. CASE Serving
  <2>1. /\ pc = "sent" /\ taken # 0 /\ UNCHANGED <<discarded, shadowed>>
        /\ \/ Fails \/ Aborts \/ DoesAlone \/ DoesInside \/ Begins
           \/ CommitsInner \/ CommitsAll \/ Marks \/ GoesBack
    BY <1>4, ServingCases
  <2>2. i \notin durable /\ ~shadowed /\ i \in discarded
    BY <2>1 DEF WorkInv, DiscardedNeverDurable
  <2>3. CASE DoesAlone
    <3>1. i = taken
      BY <2>2, <2>3 DEF DoesAlone
    <3>2. Tx(taken) = 0
      BY <2>1, <2>3, AloneIsAlone
    <3>3. QED
      BY <2>1, <2>2, <3>1, <3>2 DEF WorkInv, UndoneShape, Doing
  <2>4. CASE CommitsAll
    <3>1. i \in work /\ requests[taken].kind = "Commit"
      BY <2>2, <2>4 DEF CommitsAll, Current
    <3>2. QED
      BY <2>1, <2>2, <3>1, CommitIsClean
  <2>5. CASE Fails \/ Aborts \/ DoesInside \/ Begins \/ CommitsInner \/ Marks \/ GoesBack
    BY <2>2, <2>5 DEF Fails, NoEffect, Aborts, Abort, DoesInside, Begins, CommitsInner, Marks, GoesBack
  <2>6. QED
    BY <2>1, <2>3, <2>4, <2>5
<1>5. QED
  BY <1>2, <1>3, <1>4, NextCases

\* What a returning commit settles was done in the transaction it ended.
LEMMA SettledIsItsOwn ==
    ASSUME TypeOK, AgreeInv, HeldInv, taken \in Sent, requests[taken].kind = "Commit",
           NEW i \in Settled(taken)
    PROVE  i \in Statements /\ i < taken /\ Tx(i) = Tx(taken) /\ Tx(taken) # 0
<1>1. Len(requests) \in Nat /\ Sent = 1..Len(requests)
  BY Basics DEF Sent
<1>2. i \in Statements /\ i \in Sent /\ i > Tx(taken) /\ i < taken /\ Ends(taken)
  BY DEF Settled, Since, Tx, Ends, Statements
<1>3. Tx(taken) # 0 /\ Tx(taken) \in Nat
  BY <1>1, <1>2, Basics DEF AgreeInv, CallerInv, RequestShape
<1>4. i \in (Tx(taken) + 1)..(taken - 1)
  BY <1>1, <1>2, <1>3
<1>5. Tx(i) = Tx(taken)
  BY <1>3, <1>4 DEF HeldInv, Stretch
<1>6. QED
  BY <1>2, <1>3, <1>5

\* What the caller is told is kept, is.
LEMMA KeepsDurable ==
    ASSUME TypeOK, AgreeInv, HeldInv, WorkInv, Return, ~orphaned, NEW i \in kept', i \notin kept
    PROVE  i \in durable
<1>1. /\ Len(requests) \in Nat /\ taken \in 0..Len(requests) /\ Sent = 1..Len(requests)
  BY Basics DEF Sent
<1>2. /\ reply = "ok" /\ awaiting # 0
      /\ \/ i = awaiting /\ requests[awaiting].kind = "Statement" /\ Tx(awaiting) = 0
         \/ /\ requests[awaiting].kind = "Commit"
            /\ i \in Settled(awaiting) /\ i \in acked /\ i \notin discarded
  BY DEF Return, Tx
<1>3. awaiting = taken /\ taken \in Sent /\ OkUnread(taken)
  BY <1>1, <1>2 DEF HeldInv, ReplyShape, OkUnread
<1>4. ToldShape
  BY DEF WorkInv
<1>5. CASE i = awaiting /\ requests[awaiting].kind = "Statement" /\ Tx(awaiting) = 0
  <2>1. i \in Statements /\ Told(i)
    BY <1>3, <1>5 DEF Statements, Told
  <2>2. QED
    BY <1>3, <1>4, <1>5, <2>1 DEF ToldShape
<1>6. CASE /\ requests[awaiting].kind = "Commit"
           /\ i \in Settled(awaiting) /\ i \in acked /\ i \notin discarded
  <2>1. i \in Statements /\ Tx(i) = Tx(taken) /\ Tx(taken) # 0
    BY <1>3, <1>6, SettledIsItsOwn
  <2>2. QED
    BY <1>3, <1>4, <1>6, <2>1 DEF ToldShape, Told
<1>7. QED
  BY <1>2, <1>5, <1>6

LEMMA KeptStep ==
    ASSUME Steps
    PROVE  KeptIsDurable'
<1> USE DEF Steps
<1> SUFFICES ASSUME ~orphaned' PROVE kept' \subseteq durable'
  BY DEF KeptIsDurable
<1>1. ~orphaned /\ kept \subseteq durable
  BY OrphanedStays DEF WorkInv, KeptIsDurable
<1>2. CASE Return
  <2>1. durable' = durable
    BY <1>2 DEF Return, serverVars
  <2>2. QED
    BY <1>1, <1>2, <2>1, KeepsDurable
<1>3. CASE CallerMoves /\ ~Return
  <2>1. kept' = kept
    <3>1. CASE Sends
      BY <3>1, SendsAsk DEF Asks
    <3>2. CASE ~Sends
      BY <1>3, <3>2 DEF CallerMoves, CommitSavepoint, ConsumeClosed, Discard, GiveUp, ClientGoes, Lose,
         Stopped, vars, ledgerVars
    <3>3. QED
      BY <3>1, <3>2
  <2>2. durable' = durable
    BY <1>3, CallerMovesFrame
  <2>3. QED
    BY <1>1, <2>1, <2>2
<1>4. CASE Receives \/ Answering \/ Cleaning \/ Ending
  BY <1>1, <1>4, ReceivesFrame, AnsweringFrame, CleaningFrame, EndingFrame
<1>5. CASE Serving
  <2>1. kept' = kept /\ (\/ Fails \/ Aborts \/ DoesAlone \/ DoesInside \/ Begins
                         \/ CommitsInner \/ CommitsAll \/ Marks \/ GoesBack)
    BY <1>5, ServingCases
  <2>2. durable \subseteq durable'
    BY <2>1 DEF Fails, NoEffect, Aborts, Abort, DoesAlone, DoesInside, Begins, CommitsInner,
       CommitsAll, Marks, GoesBack
  <2>3. QED
    BY <1>1, <2>1, <2>2
<1>6. QED
  BY <1>2, <1>3, <1>4, <1>5, NextCases

-----------------------------------------------------------------------------
(* The theorems.                                                           *)

LEMMA WorkInit == Init => HeldInv /\ WorkInv
<1> SUFFICES ASSUME Init PROVE HeldInv /\ WorkInv
  OBVIOUS
<1>1. /\ Len(requests) = 0 /\ Len(handles) = 0 /\ Sent = {} /\ Statements = {}
      /\ handles = <<>> /\ taken = 0 /\ awaiting = 0 /\ reply = "none" /\ pc = "idle"
      /\ txState = "None" /\ levelChanged = FALSE /\ trancount = 0 /\ level = "rc"
      /\ work = {} /\ marks = {} /\ durable = {} /\ acked = {} /\ kept = {} /\ discarded = {}
  BY EmptySeq DEF Init, Sent, Statements
<1>2. HeldInv
  BY <1>1 DEF HeldInv, Stretch, HandleOrder, ReplyShape, UndoShape, UndoOrder, NameShape,
     GivenUpShape
<1>3. WorkInv
  BY <1>1 DEF WorkInv, TxShape, MarkShape, DoneShape, UndoneShape, ToldShape, LevelShape,
     DiscardedNeverDurable, KeptIsDurable
<1>4. QED
  BY <1>2, <1>3

LEMMA InvariantStep == TypeOK /\ TypeOK' /\ IInv /\ [AnyNext]_vars => IInv'
<1> SUFFICES ASSUME TypeOK, TypeOK', IInv, [AnyNext]_vars PROVE IInv'
  OBVIOUS
<1>1. AgreeInv'
  BY CallerAgrees, TaskAgrees DEF IInv, AgreeInv
<1>2. HeldInv'
  BY <1>1, HeldStep DEF IInv, AgreeInv
<1>3. Steps
  BY <1>1, <1>2 DEF Steps, IInv
<1>4. WorkInv'
  BY <1>3, TxStep, MarkStep, DoneStep, UndoneStep, ToldStep, LevelStep, DiscardStep, KeptStep
     DEF WorkInv
<1>5. QED
  BY <1>1, <1>2, <1>4 DEF IInv

\* The inductive invariant: what the caller holds, what is queued, what the
\* task believes and what the session has done always agree.
THEOREM Invariance == Spec => []IInv
<1>1. Init => IInv
  BY InvInit, WorkInit DEF IInv
<1>2. QED
  BY <1>1, TypeCorrect, InvariantStep, NextIsAny, PTL DEF Spec

\* Whatever was queued, cancelled, answered late or lost, work that was
\* given up -- rolled back, dropped, aborted, never sent -- never becomes
\* permanent, unless a savepoint shadows another.
THEOREM DiscardedNeverDurableHolds == Spec => []DiscardedNeverDurable
<1>1. IInv => DiscardedNeverDurable
  BY DEF IInv, WorkInv
<1>2. QED
  BY <1>1, Invariance, PTL

\* Whatever the caller was told is permanent is, unless an answered begin was
\* dropped unread.
THEOREM KeptIsDurableHolds == Spec => []KeptIsDurable
<1>1. IInv => KeptIsDurable
  BY DEF IInv, WorkInv
<1>2. QED
  BY <1>1, Invariance, PTL

\* Every statement runs at the isolation level of its transaction, and at
\* READ COMMITTED outside one, whatever ran before it.
THEOREM RunsAtItsLevelHolds == Spec => []RunsAtItsLevel
<1>1. TypeOK /\ IInv => RunsAtItsLevel
  BY DEF IInv, WorkInv, LevelShape, LevelOf, Tx, IsBegin, RunsAtItsLevel, Current
<1>2. QED
  BY <1>1, Invariance, TypeCorrect, PTL

-----------------------------------------------------------------------------
(* A connection is a Ledger.                                               *)

LEMMA LeastOf ==
    ASSUME NEW S, S \subseteq Nat, S # {}
    PROVE  \E i \in S : \A j \in S : i <= j
<1>1. IsWellFoundedOn(OpToRel(<, Nat), Nat)
  BY NatLessThanWellFounded
<1>2. PICK i \in S : \A j \in S : <<j, i>> \notin OpToRel(<, Nat)
  BY <1>1, WFMin
<1>3. \A j \in S : <<j, i>> \in OpToRel(<, Nat) <=> j < i
  BY DEF OpToRel
<1>4. \A j \in S : ~(j < i)
  BY <1>2, <1>3, Zenon
<1>5. \A j \in S : i <= j
  BY <1>4
<1>6. QED
  BY <1>5

\* Losing all work from some number on is undoing it from a statement on, or
\* losing none.
LEMMA UndoesFrom ==
    ASSUME work \subseteq Nat, NEW m \in Nat, work' = {i \in work : i < m},
           UNCHANGED <<durable, kept, discarded>>
    PROVE  work' = work \/ \E i \in work : L!UndoFrom(i)
<1> DEFINE S == {i \in work : ~(i < m)}
<1>1. CASE S = {}
  BY <1>1
<1>2. CASE S # {}
  <2>1. PICK i \in S : \A j \in S : i <= j
    BY <1>2, LeastOf
  <2>2. \A j \in work : j < m <=> j < i
    BY <2>1
  <2>3. work' = {j \in work : j < i}
    BY <2>2
  <2>4. i \in work /\ L!UndoFrom(i)
    BY <2>1, <2>3 DEF L!UndoFrom
  <2>5. QED
    BY <2>4
<1>3. QED
  BY <1>1, <1>2

\* The steps of the server, which are the ones that move work.
LEMMA ServingLedger ==
    ASSUME Steps, WorkInv', Serving, ~orphaned, ~shadowed
    PROVE  \/ UNCHANGED <<work, durable, kept, discarded>>
           \/ \E i \in work' \ work : L!DoInTransaction(i)
           \/ \E i \in durable' \ durable : L!DoAlone(i)
           \/ L!Commit
           \/ \E i \in work : L!UndoFrom(i)
<1> USE DEF Steps
<1>1. /\ pc = "sent" /\ taken # 0 /\ UNCHANGED <<kept, discarded, shadowed>>
      /\ \/ Fails \/ Aborts \/ DoesAlone \/ DoesInside \/ Begins
         \/ CommitsInner \/ CommitsAll \/ Marks \/ GoesBack
  BY ServingCases
<1>2. /\ taken \in Nat /\ work \subseteq Nat /\ marks \subseteq Nat
      /\ \A j \in work \cup durable : j \in Nat
  BY Basics DEF TypeOK
<1>3. \A j \in work \cup durable : j < taken
  <2>1. \A j \in work \cup durable : j <= taken /\ j # taken
    BY <1>1 DEF WorkInv, DoneShape
  <2>2. QED
    BY <1>2, <2>1
<1>4. taken \notin work /\ taken \notin durable
  BY <1>2, <1>3
<1>5. CASE Fails \/ Begins \/ CommitsInner \/ Marks
  BY <1>1, <1>5 DEF Fails, NoEffect, Begins, CommitsInner, Marks
<1>6. CASE DoesInside
  <2>1. taken \in work' \ work /\ L!DoInTransaction(taken)
    BY <1>1, <1>3, <1>4, <1>6 DEF DoesInside, L!DoInTransaction, L!Later
  <2>2. QED
    BY <2>1
<1>7. CASE DoesAlone
  <2>1. work = {} /\ durable' = durable \cup {taken} /\ work' = work
    BY <1>7 DEF DoesAlone, WorkInv, TxShape
  <2>2. taken \notin discarded
    <3>1. discarded' \cap durable' = {}
      BY <1>1 DEF WorkInv, DiscardedNeverDurable
    <3>2. QED
      BY <1>1, <2>1, <3>1
  <2>3. taken \in durable' \ durable /\ L!DoAlone(taken)
    BY <1>1, <1>3, <1>4, <2>1, <2>2 DEF L!DoAlone, L!Later
  <2>4. QED
    BY <2>3
<1>8. CASE CommitsAll
  <2>1. /\ requests[taken].kind = "Commit" /\ durable' = durable \cup work /\ work' = {}
    BY <1>8 DEF CommitsAll, Current
  <2>2. work \cap discarded = {}
    BY <1>1, <2>1, CommitIsClean
  <2>3. CASE work = {}
    BY <1>1, <2>1, <2>3
  <2>4. CASE work # {}
    BY <1>1, <2>1, <2>2, <2>4 DEF L!Commit
  <2>5. QED
    BY <2>3, <2>4
<1>9. CASE Aborts
  <2>1. work' = {i \in work : i < 0} /\ durable' = durable
    <3>1. work' = {} /\ durable' = durable
      BY <1>9 DEF Aborts, Abort
    <3>2. \A i \in work : ~(i < 0)
      BY <1>2
    <3>3. QED
      BY <3>1, <3>2
  <2>2. QED
    BY <1>1, <1>2, <2>1, UndoesFrom
<1>10. CASE GoesBack
  <2>1. PICK m \in marks : work' = {i \in work : i < m}
    BY <1>10 DEF GoesBack
  <2>2. m \in Nat /\ durable' = durable
    BY <1>2, <1>10 DEF GoesBack
  <2>3. QED
    BY <1>1, <1>2, <2>1, <2>2, UndoesFrom
<1>11. QED
  BY <1>1, <1>5, <1>6, <1>7, <1>8, <1>9, <1>10

LEMMA LedgerStep == TypeOK /\ TypeOK' /\ IInv /\ IInv' /\ [AnyNext]_vars => [L!Next]_L!vars
<1> SUFFICES ASSUME TypeOK, TypeOK', IInv, IInv', [AnyNext]_vars PROVE [L!Next]_L!vars
  OBVIOUS
<1>1. Steps /\ WorkInv'
  BY DEF IInv, Steps
<1>2. CASE orphaned \/ shadowed
  BY <1>2 DEF L!Next
<1>3. CASE ~(orphaned \/ shadowed) /\ (orphaned' \/ shadowed')
  BY <1>3 DEF L!Next, L!Excuse
<1>4. CASE ~(orphaned \/ shadowed) /\ ~(orphaned' \/ shadowed')
  <2>1. ~orphaned /\ ~shadowed /\ ~orphaned' /\ ~shadowed'
        /\ (orphaned \/ shadowed)' = (orphaned \/ shadowed)
    BY <1>4
  <2>2. CASE UNCHANGED <<work, durable, kept, discarded>>
    BY <2>1, <2>2 DEF L!vars
  <2>3. CASE CallerMoves
    <3>1. work' = work /\ durable' = durable /\ discarded \subseteq discarded'
      BY <1>1, <2>3, CallerMovesFrame DEF Steps
    <3>2. kept \subseteq kept'
      <4>1. CASE Return
        BY <4>1 DEF Return
      <4>2. CASE Sends
        BY <1>1, <4>2, SendsAsk DEF Asks, Steps
      <4>3. QED
        BY <2>3, <4>1, <4>2 DEF CallerMoves, CommitSavepoint, ConsumeClosed, Discard, GiveUp, ClientGoes,
           Lose, Stopped, vars, ledgerVars
    <3>3. kept' \subseteq durable' /\ discarded' \cap durable' = {}
      BY <1>1, <2>1 DEF WorkInv, KeptIsDurable, DiscardedNeverDurable
    <3>4. L!Promise
      BY <3>1, <3>2, <3>3 DEF L!Promise
    <3>5. QED
      BY <2>1, <3>4 DEF L!Next
  <2>4. CASE Receives \/ Answering \/ Ending
    BY <1>1, <2>2, <2>4, ReceivesFrame, AnsweringFrame, EndingFrame DEF Steps
  <2>5. CASE Cleaning
    <3>1. (UndoBegin /\ pc = "undoing" /\ work' = {}) \/ work' = work
      BY <1>1, <2>5, CleaningFrame DEF Steps
    <3>2. pc = "undoing" => work = {}
      <4> SUFFICES ASSUME pc = "undoing", NEW i \in work PROVE FALSE
        OBVIOUS
      <4>1. taken # 0 /\ IsBegin(taken) /\ taken \in Sent
        BY <1>1, Basics DEF Steps, AgreeInv, CallerInv, TakenShape, TypeOK
      <4>2. Tx(taken) = 0
        BY <1>1, <4>1 DEF Steps, AgreeInv, CallerInv, RequestShape
      <4>3. Tx(taken) # 0
        BY <1>1, <2>1 DEF Steps, AgreeInv, TaskInv, WorkShape
      <4>4. QED
        BY <4>2, <4>3
    <3>3. work' = work /\ UNCHANGED <<durable, kept, discarded>>
      BY <1>1, <2>5, <3>1, <3>2, CleaningFrame DEF Steps
    <3>4. QED
      BY <2>2, <3>3
  <2>6. CASE Serving
    <3>1. \/ UNCHANGED <<work, durable, kept, discarded>>
          \/ \E i \in work' \ work : L!DoInTransaction(i)
          \/ \E i \in durable' \ durable : L!DoAlone(i)
          \/ L!Commit
          \/ \E i \in work : L!UndoFrom(i)
      BY <1>1, <2>1, <2>6, ServingLedger
    <3>2. QED
      BY <2>1, <2>2, <3>1 DEF L!Next
  <2>7. QED
    BY <2>3, <2>4, <2>5, <2>6, NextCases
<1>5. QED
  BY <1>2, <1>3, <1>4

\* A connection implements the ledger: statements are done in the order asked
\* for, alone or all or nothing in a transaction, and what the caller was
\* told of them stays true, until one of the two known gaps is hit.
THEOREM LedgerImplemented == Spec => ImplementsLedger
<1>1. Init => L!Init
  BY DEF Init, L!Init
<1>2. QED
  BY <1>1, LedgerStep, TypeCorrect, Invariance, NextIsAny, PTL DEF Spec, ImplementsLedger, L!Spec


-----------------------------------------------------------------------------
(* Rolling back what the server has ended already.                         *)

\* A root transaction's rollback is never told that there is nothing left.
RootRollbackSucceeds == reply = "aborted" => requests[awaiting].kind # "Rollback"

LEMMA RootRollbackStep ==
    ASSUME TypeOK, AgreeInv, RootRollbackSucceeds, [AnyNext]_vars
    PROVE  RootRollbackSucceeds'
<1>1. reply = "aborted" => awaiting # 0
  BY DEF AgreeInv, CallerInv, AwaitShape
<1>2. result # "aborted"
  BY DEF TypeOK
<1>3. CASE UNCHANGED <<awaiting, requests>> /\ reply' \in {reply, "none", "ok", "err", "io", "closed"}
  BY <1>3 DEF RootRollbackSucceeds
<1>4. CASE CallerMoves
  <2>1. CASE Sends
    <3>1. awaiting = 0 /\ reply' = reply
      BY <2>1, SendsAsk DEF Asks
    <3>2. QED
      BY <1>1, <3>1 DEF RootRollbackSucceeds
  <2>2. CASE CommitSavepoint \/ ConsumeClosed \/ ClientGoes \/ Lose \/ Stopped \/ UNCHANGED vars
    BY <1>3, <2>2 DEF CommitSavepoint, ConsumeClosed, ClientGoes, Lose, Stopped, vars, callerVars,
       channelVars
  <2>3. CASE GiveUp \/ Return
    BY <2>3 DEF GiveUp, Return, RootRollbackSucceeds
  <2>4. QED
    BY <1>4, <2>1, <2>2, <2>3 DEF CallerMoves
<1>5. CASE Receives
  <2>1. UNCHANGED <<awaiting, requests>>
    BY <1>5 DEF Receives, Skip, ReceiveAborted, Dispatch, Receive, callerVars
  <2>2. CASE Skip \/ Dispatch
    BY <1>3, <2>1, <2>2 DEF Skip, Dispatch
  <2>3. CASE ReceiveAborted
    BY <2>1, <2>3 DEF ReceiveAborted, RootRollbackSucceeds
  <2>4. QED
    BY <1>5, <2>2, <2>3 DEF Receives
<1>6. CASE Answering
  <2>1. UNCHANGED <<awaiting, requests>> /\ (Answer(result) \/ Answer("err"))
    BY <1>6 DEF Answering, Reply, ReplyBegin, ReplyEnd, LoseMasked, callerVars, channelVars
  <2>2. QED
    BY <1>2, <2>1 DEF Answer, RootRollbackSucceeds
<1>7. CASE Ending
  <2>1. UNCHANGED <<awaiting, requests>> /\ (End("io") \/ End("none"))
    BY <1>7 DEF Ending, ReplyLost, CleanupFails, CancelFails, Shutdown, DropTask, callerVars,
       channelVars
  <2>2. reply' \in {reply, "io", "closed"}
    BY <2>1 DEF End
  <2>3. QED
    BY <1>3, <2>1, <2>2
<1>8. CASE Cleaning \/ Serving
  BY <1>3, <1>8 DEF Cleaning, UndoBegin, RestoreIsolation, Serving, ServeStatement, ServeControl,
     CancelStops, Running, callerVars, channelVars
<1>9. QED
  BY <1>4, <1>5, <1>6, <1>7, <1>8, NextCases

\* The rollback of a root handle is never answered with TransactionAborted: the
\* task sends it on, or answers Ok itself if the server ended the transaction.
\* The other rollback, of a nested handle, is what connection_aborted finds refused.
THEOREM RootRollbackSucceedsHolds == Spec => []RootRollbackSucceeds
<1>1. Init => RootRollbackSucceeds
  BY DEF Init, RootRollbackSucceeds
<1>2. QED
  BY <1>1, RootRollbackStep, NextIsAny, TypeCorrect, AgreeInvariance, PTL DEF Spec

=============================================================================
