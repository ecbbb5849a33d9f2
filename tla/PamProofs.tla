------------------------------ MODULE PamProofs ------------------------------
(***************************************************************************)
(* The exchange of PamStepped keeps its promises for any number of rounds: *)
(* HandedBackClean, RoundsAreTheStacks and the refinement of PamExchange.  *)
(* None of them is inductive.  They rest on where the transaction is while *)
(* the worker is anywhere (Placed), on what each phase of the driver says  *)
(* of the other thread as long as nobody gave up (InStep), and on the      *)
(* answers: one per round (Counted), and refused only on record            *)
(* (OnRecord).                                                             *)
(*                                                                         *)
(* The authenticator is one caller of an exchange: AuthSpec implements     *)
(* Spec, and so has all of that.  Its own promises, LoginInOrder,          *)
(* TransactionNotLost and NothingLeftBehind, rest on what the method in    *)
(* progress says of the exchange (Attended), on what the stage says of the *)
(* transaction (Staged), and on what a login has left on it (Tidy).        *)
(***************************************************************************)
EXTENDS PamAuthenticator, TLAPS

\* The transaction and its conversation, by what the worker is at.
Placed ==
    /\ phase = "none" <=> txn \in {"caller", "ended"}
    /\ txn = "worker" <=> worker # "none"
    /\ phase = "none" => driver = "idle"
    /\ txn = "done" => phase = "Ended"
    /\ worker \in {"none", "finished", "exited"} => conv = "callers"
    /\ worker \in {"none", "returned", "finished", "exited"} => failure = "none"
    /\ worker \in {"returned", "finished", "exited"} => outcome # "none"

\* Neither abandoned by a timeout nor consumed by finish or drop.
Driven == phase # "Stopped" /\ driver \notin {"finishing", "dropping"}

\* What the driver is at says where the worker is.
InStep ==
    /\ driver = "sending" => phase = "Prompting"
    /\ driver = "collecting" => phase = "Started"
    /\ driver = "reaping" => phase = "Ended" /\ worker = "exited"
    /\ phase \in {"Started", "Prompting"} /\ Driven => ends = Both
    /\ phase = "Started" /\ Driven =>
          worker \in {"stack", "asking", "returned", "finished"}
    /\ phase = "Prompting" /\ Driven => worker = "waiting" /\ shown = round
    /\ phase = "Ended" /\ Driven /\ driver # "reaping" => txn = "done"
    /\ phase = "Stopped" => txn = "worker"

Going == txn = "worker" /\ Driven

\* The caller has yet to answer the last round.
Unanswered == worker = "asking" \/ (worker = "waiting" /\ driver = "idle")

\* Every other round has its answer.
Counted ==
    Going => Len(given) = IF Unanswered THEN round - 1 ELSE round

\* The answers that have reached the stack were well formed.
AllGood ==
    \A i \in DOMAIN given : given[i] \/ (driver = "sending" /\ i = Len(given))

\* A refused answer is on record until the operation ends, and nothing is
\* cancelled.
OnRecord ==
    Going =>
        /\ failure # "timeout" /\ outcome # "timeout"
        /\ worker \in {"stack", "asking", "waiting"} /\ failure = "none" =>
              AllGood
        /\ worker \in {"returned", "finished", "exited"} /\ outcome = "ok" =>
              AllGood

Told ==
    /\ told = "ok" => worker = "none"
    /\ told = "timeout" => phase \in {"none", "Stopped"}

ExchangeInv ==
    /\ TypeOK /\ Placed /\ InStep /\ Counted /\ OnRecord /\ Told
    /\ DoneMeansAnswered

-----------------------------------------------------------------------------
\* The invariant holds before an exchange begins.
LEMMA ExchangeInit == Init => ExchangeInv
<1> SUFFICES ASSUME Init
             PROVE  ExchangeInv
  OBVIOUS
<1>1. limit \in BOOLEAN
  BY Zenon DEF Init
<1>2. TypeOK
  BY <1>1, RoundsAssumption DEF Init, TypeOK, Rounds, Both
<1>3. Placed /\ InStep /\ Counted /\ OnRecord /\ Told /\ DoneMeansAnswered
  BY DEF Init, Placed, Driven, InStep, Going, Counted, OnRecord, Told,
         DoneMeansAnswered
<1> QED
  BY <1>2, <1>3 DEF ExchangeInv

\* A caller begins an exchange, gets nothing, or ends or builds its own
\* transaction.
LEMMA BeginInv ==
    ASSUME ExchangeInv,
           \/ Begin \/ (\E recover \in BOOLEAN : BeginFails(recover))
           \/ EndTransaction \/ Build
    PROVE  ExchangeInv'
<1> USE RoundsAssumption
    DEF ExchangeInv, TypeOK, Rounds, Both, Placed, Driven, InStep, Going,
        Unanswered, Counted, AllGood, OnRecord, Told, DoneMeansAnswered
<1>1. CASE Begin
  BY <1>1 DEF Begin
<1>2. ASSUME NEW recover \in BOOLEAN, BeginFails(recover)
      PROVE  ExchangeInv'
  BY <1>2 DEF BeginFails, workerVars
<1>3. CASE EndTransaction
  BY <1>3 DEF EndTransaction, slotVars, callerVars, workerVars
<1>4. CASE Build
  BY <1>4 DEF Build, callerVars, workerVars
<1> QED
  BY <1>1, <1>2, <1>3, <1>4

\* The calls on a Stepped.
LEMMA CallInv ==
    ASSUME ExchangeInv,
           \/ \E l \in BOOLEAN : Wait(l) \/ \E good \in BOOLEAN : Respond(l, good)
           \/ Finish \/ Drop
    PROVE  ExchangeInv'
<1> USE RoundsAssumption
    DEF ExchangeInv, TypeOK, Rounds, Both, Placed, Driven, InStep, Going,
        Unanswered, Counted, AllGood, OnRecord, Told, DoneMeansAnswered
<1>1. ASSUME NEW l \in BOOLEAN, Wait(l)
      PROVE  ExchangeInv'
  BY <1>1 DEF Wait, slotVars, callerVars, workerVars
<1>2. ASSUME NEW l \in BOOLEAN, NEW good \in BOOLEAN, Respond(l, good)
      PROVE  ExchangeInv'
  BY <1>2 DEF Respond, slotVars, workerVars
<1>3. CASE Finish \/ Drop
  BY <1>3 DEF Finish, Drop, Reap, Released, slotVars, callerVars, workerVars
<1> QED
  BY <1>1, <1>2, <1>3

\* The driver's side of the channels.
LEMMA DriverInv ==
    ASSUME ExchangeInv,
           \/ SendAnswers \/ CollectPrompt \/ CollectFinished \/ CollectTimeout
           \/ JoinReaping \/ JoinConsuming
    PROVE  ExchangeInv'
<1> USE RoundsAssumption
    DEF ExchangeInv, TypeOK, Rounds, Both, Placed, Driven, InStep, Going,
        Unanswered, Counted, AllGood, OnRecord, Told, DoneMeansAnswered
<1>1. CASE SendAnswers
  BY <1>1 DEF SendAnswers, Listening, Recorded, callerVars
<1>2. CASE CollectPrompt
  BY <1>2 DEF CollectPrompt, slotVars
<1>3. CASE CollectFinished
  BY <1>3 DEF CollectFinished, Reap, Released, slotVars, callerVars
<1>4. CASE CollectTimeout
  BY <1>4 DEF CollectTimeout, TimedOut, slotVars, workerVars
<1>5. CASE JoinReaping
  BY <1>5 DEF JoinReaping, slotVars
<1>6. CASE JoinConsuming
  BY <1>6 DEF JoinConsuming, Joined, slotVars, callerVars
<1> QED
  BY <1>1, <1>2, <1>3, <1>4, <1>5, <1>6

\* The worker and the stack on it.
LEMMA WorkerInv ==
    ASSUME ExchangeInv,
           \/ Converse \/ (\E rc \in {"ok", "refused"} : Return(rc))
           \/ Cancelled \/ Restore \/ FinishedUnheard
    PROVE  ExchangeInv'
<1> USE RoundsAssumption
    DEF ExchangeInv, TypeOK, Rounds, Both, Placed, Driven, InStep, Going,
        Unanswered, Counted, AllGood, OnRecord, Told, DoneMeansAnswered
<1>1. CASE Converse
  BY <1>1 DEF Converse, slotVars, callerVars
<1>2. ASSUME NEW rc \in {"ok", "refused"}, Return(rc)
      PROVE  ExchangeInv'
  BY <1>2 DEF Return, Result, callerVars
<1>3. CASE Cancelled
  BY <1>3 DEF Cancelled, Recorded, callerVars
<1>4. CASE Restore
  BY <1>4 DEF Restore, Restored, callerVars
<1>5. CASE FinishedUnheard
  BY <1>5 DEF FinishedUnheard, slotVars, callerVars
<1> QED
  BY <1>1, <1>2, <1>3, <1>4, <1>5

\* Every step of the driver, the worker and the module keeps it.
LEMMA ExchangeStep ==
    ASSUME ExchangeInv, [Next]_vars
    PROVE  ExchangeInv'
<1>1. CASE UNCHANGED vars
  BY <1>1 DEF vars, ExchangeInv, TypeOK, Placed, Driven, InStep, Going,
              Unanswered, Counted, AllGood, OnRecord, Told, DoneMeansAnswered
<1> QED
  BY <1>1, BeginInv, CallInv, DriverInv, WorkerInv
     DEF Next, Module, Library, Caller

\* The inductive invariant of a stepped exchange: the phase the driver is in
\* says where the worker, the transaction and the answers are.
THEOREM ExchangeInductive == Spec => []ExchangeInv
BY ExchangeInit, ExchangeStep, PTL DEF Spec

\* finish, Drop and a failed begin give the transaction back with the caller's
\* conversation in its slot and no failure left in it, whatever the stack did.
THEOREM HandedBackCleanHolds == Spec => []HandedBackClean
<1>1. ExchangeInv => HandedBackClean
  BY DEF ExchangeInv, TypeOK, Placed, HandedBackClean
<1> QED
  BY <1>1, ExchangeInductive, PTL

\* What wait and respond report is so of the stack, for any number of rounds.
THEOREM RoundsAreTheStacksHolds == Spec => []RoundsAreTheStacks
<1> SUFFICES ASSUME ExchangeInv
             PROVE  RoundsAreTheStacks
  BY ExchangeInductive, PTL
<1>1. AnswersForTheirRound
  BY DEF ExchangeInv, TypeOK, Placed, Driven, InStep, Going, Unanswered,
         Counted, AnswersForTheirRound
<1>2. TimeoutLeavesExchange
  BY DEF ExchangeInv, InStep, Told, TimeoutLeavesExchange
<1> QED
  BY <1>1, <1>2 DEF ExchangeInv, RoundsAreTheStacks

-----------------------------------------------------------------------------
(* The refinement of PamExchange. *)

\* One abstract step per concrete one that changes the abstract state.
LEMMA ExchangeRefines ==
    ASSUME ExchangeInv, [Next]_vars
    PROVE  [Abstract!Next]_(Abstract!vars)
<1> USE DEF ExchangeInv, TypeOK, Placed, stackState, holderState, cleanState,
            verdictState, Abstract!vars, Abstract!Next
<1>1. CASE UNCHANGED vars
  BY <1>1 DEF vars
<1>2. CASE Begin
  BY <1>2 DEF Begin, Abstract!Start
<1>3. ASSUME NEW recover \in BOOLEAN, BeginFails(recover)
      PROVE  Abstract!End \/ UNCHANGED Abstract!vars
  BY <1>3 DEF BeginFails, workerVars, Abstract!End
<1>4. CASE EndTransaction
  BY <1>4 DEF EndTransaction, slotVars, workerVars, Abstract!End
<1>5. CASE Build
  BY <1>5 DEF Build, workerVars, Abstract!Build
<1>6. CASE \/ \E l \in BOOLEAN : Wait(l) \/ \E good \in BOOLEAN : Respond(l, good)
           \/ Finish \/ Drop \/ CollectTimeout
  BY <1>6, Zenon DEF Wait, Respond, Finish, Drop, CollectTimeout, slotVars, workerVars
<1>7. CASE SendAnswers
  BY <1>7 DEF SendAnswers, Listening, Recorded, InStep, Driven,
              Abstract!Answer, Abstract!Refuse
<1>8. CASE CollectPrompt \/ CollectFinished \/ Restore \/ FinishedUnheard
  BY <1>8, Zenon DEF CollectPrompt, CollectFinished, Restore, FinishedUnheard, slotVars
<1>9. CASE JoinReaping
  BY <1>9 DEF JoinReaping, slotVars
<1>10. CASE JoinConsuming
  <2>1. stackState = "returned"
    BY <1>10 DEF JoinConsuming, Joined
  <2>2. worker' = "none" /\ txn' \in {"caller", "ended"}
    BY <1>10 DEF JoinConsuming
  <2>3. stackState' = "idle" /\ holderState' \in {"caller", "ended"}
    BY <2>2
  <2>4. verdictState' = "none"
    BY <2>3
  <2>5. cleanState' = TRUE
    BY <2>3
  <2> QED
    BY <2>1, <2>3, <2>4, <2>5, Zenon DEF Abstract!GiveBack
<1>11. CASE Converse
  BY <1>11 DEF Converse, slotVars, Abstract!Ask
<1>12. CASE Cancelled
  BY <1>12, Zenon DEF Cancelled, Recorded, Abstract!Refuse
<1>13. ASSUME NEW rc \in {"ok", "refused"}, Return(rc)
       PROVE  Abstract!Return
  BY <1>13 DEF Return, Result, Abstract!Return
<1> QED
  BY <1>1, <1>2, <1>3, <1>4, <1>5, <1>6, <1>7, <1>8, <1>9, <1>10, <1>11,
     <1>12, <1>13, Zenon DEF Next, Module, Library, Caller

\* Stepped keeps PamExchange's promises about the transaction it is lent, for
\* any number of rounds, timeouts and cancellations.
THEOREM SteppedImplementsExchange == Spec => ImplementsExchange
<1>1. Init => Abstract!Init
  BY DEF Init, Abstract!Init, stackState, holderState, cleanState, verdictState
<1> QED
  BY <1>1, ExchangeRefines, ExchangeInductive, PTL
     DEF Spec, ImplementsExchange, Abstract!Spec

-----------------------------------------------------------------------------
(* PamAuthenticator. *)

\* Where a wait or a respond can have left the exchange.
Stepping ==
    \/ driver \in {"sending", "collecting", "reaping"}
    \/ driver = "idle" /\ phase = "Prompting" /\ told = "prompt"
    \/ driver = "idle" /\ phase = "Stopped" /\ told = "timeout"
    \/ driver = "idle" /\ phase = "Ended" /\ told \notin {"prompt", "timeout"}

\* The exchange, by the method that is using it.
Attended ==
    held = "Exchange" =>
        \/ call = "wait" /\ stage = "Authenticating"
           /\ driver = "idle" /\ phase = "Started"
        \/ call = "step" /\ stage = "Authenticating" /\ Stepping
        \/ call = "settle" /\ stage = "Authenticating"
           /\ (driver = "finishing" \/ txn = "caller")
        \/ call = "leave" /\ stage \in {"Authenticating", "Failed"}
        \/ call = "idle" /\ driver = "idle" /\ phase = "Prompting"
           /\ stage = "Authenticating"
        \/ call = "idle" /\ driver = "idle" /\ phase = "Stopped"
           /\ stage = "Failed" /\ told = "timeout"

\* The transaction, by the stage and the operation running on it.
Staged ==
    /\ held = "Nothing" <=> stage = "gone"
    /\ stage = "gone" => call = "idle"
    /\ held = "Transaction" =>
          /\ txn = "caller" /\ stage # "Authenticating"
          /\ call \in {"setcred", "open", "undo"} => stage = "AccountChecked"
          /\ call \in {"close", "revoke"} => stage = "SessionOpen"
          /\ call \notin {"wait", "step", "settle", "leave"}
    /\ told = "ok" => outcome = "ok"
    /\ stage \in {"Authenticated", "AccountChecked", "SessionOpen"} =>
          outcome = "ok"
    /\ stage \in {"AccountChecked", "SessionOpen"} => acct
    /\ call = "open" => cred

\* What a login that has not succeeded leaves on the transaction.
Tidy ==
    fails = {} /\ stage \notin {"SessionOpen", "Ended", "gone"} =>
        ~session /\ (call \notin {"open", "undo"} => ~owed)

AuthInv == AuthTypeOK /\ Attended /\ Staged /\ Tidy

-----------------------------------------------------------------------------
(* Every step of the authenticator is a step of the exchange, or none. *)

\* A step of AuthNext is one of Next or leaves the exchange alone.
LEMMA AuthIsACaller ==
    ASSUME timeout \in BOOLEAN, [AuthNext]_allVars
    PROVE  [Next]_vars
<1>1. CASE UNCHANGED allVars
  BY <1>1 DEF allVars
<1>2. CASE \/ \E limited \in BOOLEAN : New(limited)
           \/ StepPrompt \/ StepTimeout \/ Settle \/ Login \/ Logout \/ Left
  BY <1>2 DEF New, StepPrompt, StepTimeout, Settle, Login, Logout, Run, Left
<1>3. CASE AuthBegin \/ AuthBeginFails \/ StepEnded
  BY <1>3, Zenon DEF AuthBegin, AuthBeginFails, StepEnded, Next, Caller
<1>4. CASE AuthWait \/ \E good \in BOOLEAN : AuthRespond(good)
  BY <1>4 DEF AuthWait, AuthRespond, Next, Caller
<1>5. CASE Exchange \/ Direct \/ Rebuild
  BY <1>5 DEF Exchange, Direct, Rebuild, Next
<1>6. CASE \E o \in Outcomes :
              \/ AcctMgmt(o) \/ Establish(o) \/ OpenSession(o) \/ Undo(o)
              \/ CloseSession(o) \/ Revoke(o)
  BY <1>6, Zenon DEF AcctMgmt, Establish, OpenSession, Undo, CloseSession, Revoke, Run
<1>7. CASE IntoTransaction \/ DropAuthenticator
  BY <1>7 DEF IntoTransaction, DropAuthenticator, Next, Caller
<1> QED
  BY <1>1, <1>2, <1>3, <1>4, <1>5, <1>6, <1>7 DEF AuthNext, AuthStep

-----------------------------------------------------------------------------
(* The inductive step.  TypeOK is ExchangeInv's. *)

\* Both invariants hold before the authenticator is made.
LEMMA AuthInvInit == AuthInit => ExchangeInv /\ AuthInv
<1> SUFFICES ASSUME AuthInit
             PROVE  ExchangeInv /\ AuthInv
  OBVIOUS
<1>1. ExchangeInv
  BY ExchangeInit DEF AuthInit
<1>2. timeout \in BOOLEAN /\ acct \in BOOLEAN /\ cred \in BOOLEAN
      /\ owed \in BOOLEAN /\ session \in BOOLEAN
  BY Zenon DEF AuthInit
<1>3. AuthTypeOK
  BY <1>1, <1>2 DEF AuthInit, AuthTypeOK, ExchangeInv, Stages, ConvFailure
<1>4. Attended /\ Staged /\ Tidy
  BY DEF AuthInit, Init, Attended, Staged, Tidy
<1> QED
  BY <1>1, <1>3, <1>4 DEF AuthInv

\* The methods that use the exchange.
LEMMA AttendInv ==
    ASSUME ExchangeInv, TypeOK', AuthInv, UNCHANGED fails,
           \/ \E limited \in BOOLEAN : New(limited)
           \/ AuthBegin \/ AuthBeginFails \/ AuthWait
           \/ \E good \in BOOLEAN : AuthRespond(good)
           \/ StepPrompt \/ StepTimeout \/ StepEnded \/ Settle
    PROVE  AuthInv'
<1> USE DEF ExchangeInv, TypeOK, Placed, AuthInv, AuthTypeOK, Stages, Attended,
            Stepping, Staged, Tidy, In, Return_, Kept, vars, pamVars
<1>1. ASSUME NEW limited \in BOOLEAN, New(limited)
      PROVE  AuthInv'
  BY <1>1, Zenon DEF New
<1>2. CASE AuthBegin
  BY <1>2, Zenon DEF AuthBegin, Begin
<1>3. CASE AuthBeginFails
  BY <1>3 DEF AuthBeginFails, BeginFails, workerVars
<1>4. CASE AuthWait
  BY <1>4 DEF AuthWait, Wait, slotVars, callerVars, workerVars
<1>5. ASSUME NEW good \in BOOLEAN, AuthRespond(good)
      PROVE  AuthInv'
  BY <1>5 DEF AuthRespond, Respond, slotVars, workerVars
<1>6. CASE StepPrompt
  BY <1>6 DEF StepPrompt
<1>7. CASE StepTimeout
  BY <1>7 DEF StepTimeout
<1>8. CASE StepEnded
  BY <1>8 DEF StepEnded, Finish, Reap, slotVars, callerVars, workerVars
<1>9. CASE Settle
  BY <1>9 DEF Settle
<1> QED
  BY <1>1, <1>2, <1>3, <1>4, <1>5, <1>6, <1>7, <1>8, <1>9, Zenon

\* The exchange goes on while a method waits for it, or its caller is away.
LEMMA MeanwhileInv ==
    ASSUME ExchangeInv, TypeOK', AuthInv, UNCHANGED fails, Exchange
    PROVE  AuthInv'
<1> USE DEF ExchangeInv, TypeOK, Placed, Driven, InStep, Going, OnRecord, Told,
            AuthInv, AuthTypeOK, Attended, Stepping, Staged, Tidy, authVars,
            pamVars, slotVars, callerVars, workerVars
<1> UNCHANGED <<authVars, pamVars>>
  BY DEF Exchange
<1>1. CASE SendAnswers
  BY <1>1 DEF SendAnswers, Listening, Reap
<1>2. CASE CollectPrompt
  BY <1>2 DEF CollectPrompt
<1>3. CASE CollectFinished
  BY <1>3 DEF CollectFinished, Reap
<1>4. CASE CollectTimeout
  BY <1>4 DEF CollectTimeout, TimedOut
<1>5. CASE JoinReaping
  BY <1>5 DEF JoinReaping
<1>6. CASE JoinConsuming
  BY <1>6 DEF JoinConsuming
<1>7. CASE Cancelled \/ Restore \/ FinishedUnheard \/ Converse
  BY <1>7 DEF Cancelled, Restore, FinishedUnheard, Converse
<1>8. ASSUME NEW rc \in {"ok", "refused"}, Return(rc)
      PROVE  AuthInv'
  BY <1>8 DEF Return
<1> QED
  BY <1>1, <1>2, <1>3, <1>4, <1>5, <1>6, <1>7, <1>8, Zenon
     DEF Exchange, Library, Module

\* What an operation reports: success only if its code was one, and only its
\* code where no conversation fails.
LEMMA ReportedIs ==
    ASSUME fails \subseteq ConvFailure, NEW o \in Outcomes
    PROVE  /\ o.rc \in BOOLEAN
           /\ Reported(o) \in {"ok", "err", "panic"}
           /\ Reported(o) = "ok" => o.rc
           /\ fails = {} => Reported(o) = IF o.rc THEN "ok" ELSE "err"
BY Zenon DEF Outcomes, Reported, ConvFailure

\* The operations on the transaction.
LEMMA OperateInv ==
    ASSUME ExchangeInv, TypeOK', AuthInv, UNCHANGED fails,
           \/ Login \/ Logout
           \/ \E o \in Outcomes :
                 \/ AcctMgmt(o) \/ Establish(o) \/ OpenSession(o) \/ Undo(o)
                 \/ CloseSession(o) \/ Revoke(o)
    PROVE  AuthInv'
<1> USE DEF ExchangeInv, AuthInv, AuthTypeOK, Stages, Attended, Stepping,
            Staged, Tidy, In, Return_, Run, Then, Leave, Pass, vars, pamVars
<1>1. CASE Login \/ Logout
  BY <1>1 DEF Login, LoginFrom, Logout
<1>2. ASSUME NEW o \in Outcomes, AcctMgmt(o)
      PROVE  AuthInv'
  BY <1>2, ReportedIs DEF AcctMgmt
<1>3. ASSUME NEW o \in Outcomes, Establish(o)
      PROVE  AuthInv'
  BY <1>3, ReportedIs DEF Establish
<1>4. ASSUME NEW o \in Outcomes, OpenSession(o)
      PROVE  AuthInv'
  BY <1>4, ReportedIs, Zenon DEF OpenSession, Unopened
<1>5. ASSUME NEW o \in Outcomes, Undo(o)
      PROVE  AuthInv'
  BY <1>5, ReportedIs, Zenon DEF Undo
<1>6. ASSUME NEW o \in Outcomes, CloseSession(o)
      PROVE  AuthInv'
  BY <1>6, ReportedIs DEF CloseSession
<1>7. ASSUME NEW o \in Outcomes, Revoke(o)
      PROVE  AuthInv'
  BY <1>7, ReportedIs, Zenon DEF Revoke
<1> QED
  BY <1>1, <1>2, <1>3, <1>4, <1>5, <1>6, <1>7, Zenon

\* Giving up, and what happens while there is no authenticator.
LEMMA LeaveInv ==
    ASSUME ExchangeInv, TypeOK', AuthInv, UNCHANGED fails,
           IntoTransaction \/ DropAuthenticator \/ Left \/ Rebuild
    PROVE  AuthInv'
<1> USE DEF ExchangeInv, AuthInv, AuthTypeOK, Stages, Attended, Stepping,
            Staged, Tidy, In, Return_, Then, vars, authVars, pamVars, slotVars,
            callerVars, workerVars
<1>1. CASE IntoTransaction
  BY <1>1 DEF IntoTransaction, Finish, Reap
<1>2. CASE DropAuthenticator
  BY <1>2 DEF DropAuthenticator, EndTransaction, Drop, Reap
<1>3. CASE Left
  BY <1>3 DEF Left
<1>4. CASE Rebuild
  BY <1>4, Zenon DEF Rebuild, Build
<1> QED
  BY <1>1, <1>2, <1>3, <1>4

\* An exchange driven without an authenticator.
LEMMA DirectInv ==
    ASSUME ExchangeInv, TypeOK', AuthInv, UNCHANGED fails, Direct
    PROVE  AuthInv'
<1> USE DEF ExchangeInv, AuthInv, AuthTypeOK, Attended, Staged, Tidy, authVars,
            pamVars, slotVars, callerVars, workerVars
<1>1. (told = "ok" => outcome = "ok")'
  BY DEF Direct, Caller, Begin, BeginFails, Wait, Respond, Finish, Drop,
         EndTransaction
<1> QED
  BY <1>1 DEF Direct

\* Every step of the composition keeps both invariants.
LEMMA AuthInvStep ==
    ASSUME ExchangeInv, AuthInv, [AuthNext]_allVars
    PROVE  ExchangeInv' /\ AuthInv'
<1>1. ExchangeInv'
  BY AuthIsACaller, ExchangeStep DEF AuthInv, AuthTypeOK
<1>2. TypeOK'
  BY <1>1 DEF ExchangeInv
<1>3. CASE UNCHANGED allVars
  BY <1>1, <1>3 DEF allVars, vars, authVars, pamVars, ExchangeInv, AuthInv,
     AuthTypeOK, Attended, Stepping, Staged, Tidy
<1>4. CASE AuthNext
  BY <1>1, <1>2, <1>4, AttendInv, MeanwhileInv, OperateInv, LeaveInv, DirectInv
     DEF AuthNext, AuthStep
<1> QED
  BY <1>3, <1>4

\* The inductive invariant of a login: the method in progress and the stage
\* say where the exchange and the transaction are.
THEOREM AuthInductive == AuthSpec => [](ExchangeInv /\ AuthInv)
BY AuthInvInit, AuthInvStep, PTL DEF AuthSpec

-----------------------------------------------------------------------------
(* What follows. *)

\* The authenticator is a caller that keeps to Stepped's interface, so that
\* its exchange has every property of Spec.
THEOREM AuthenticatorDrivesStepped == AuthSpec => Spec
<1>1. AuthInit => Init
  BY DEF AuthInit
<1>2. AuthInv /\ [AuthNext]_allVars => [Next]_vars
  BY AuthIsACaller DEF AuthInv, AuthTypeOK
<1> QED
  BY <1>1, <1>2, AuthInductive, PTL DEF AuthSpec, Spec

\* The authenticator's exchange gives its transaction back clean, reports what
\* is so of the stack, and implements PamExchange.
THEOREM AuthenticatorExchange ==
    AuthSpec => []HandedBackClean /\ []RoundsAreTheStacks /\ ImplementsExchange
BY AuthenticatorDrivesStepped, HandedBackCleanHolds, RoundsAreTheStacksHolds,
   SteppedImplementsExchange

\* login and open_session run only after a successful exchange and a passed
\* account check, and a session opens only over granted credentials.
THEOREM LoginInOrderHolds == AuthSpec => []LoginInOrder
<1>1. AuthInv => LoginInOrder
  BY DEF AuthInv, AuthTypeOK, Attended, Staged, LoginInOrder
<1> QED
  BY <1>1, AuthInductive, PTL

\* Between two methods the authenticator always has its transaction or the
\* exchange that has it, whichever way the last exchange ended.
THEOREM TransactionNotLostHolds == AuthSpec => []TransactionNotLost
<1>1. ExchangeInv /\ AuthInv => TransactionNotLost
  BY DEF ExchangeInv, TypeOK, Placed, Driven, InStep, AuthInv, AuthTypeOK,
         Attended, Staged, In, TransactionNotLost
<1> QED
  BY <1>1, AuthInductive, PTL

\* Where no conversation fails, a failed login has revoked what it granted.
THEOREM NothingLeftBehindHolds == AuthSpec => []NothingLeftBehind
<1>1. AuthInv => NothingLeftBehind
  BY DEF AuthInv, Tidy, In, NothingLeftBehind
<1> QED
  BY <1>1, AuthInductive, PTL
=============================================================================
