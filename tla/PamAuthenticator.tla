-------------------------- MODULE PamAuthenticator --------------------------
(***************************************************************************)
(* Authenticator (truenas_pam/src/auth.rs): the login sequence of the PAM  *)
(* guide over a Stepped exchange.  The authenticator is the caller of      *)
(* PamStepped, and its own stack operations run on its own thread through  *)
(* the caller's conversation.  A caller may also drive an exchange itself, *)
(* as for the password change acct_mgmt may ask for.                       *)
(***************************************************************************)
EXTENDS PamStepped

ConvFailure == {"err", "panic"}

VARIABLES
    stage,    \* Authenticator.stage; "gone" when there is no Authenticator
    held,     \* Authenticator.held
    timeout,  \* whether Authenticator.timeout is set
    call,     \* what the method in progress does next
    acct,     \* libpam: pam_acct_mgmt has passed since the authentication
    cred,     \* libpam: credentials are established
    owed,     \* libpam: this sequence established them, and has not asked
              \* for a Delete since
    session,  \* libpam: a session this sequence opened is open
    fails     \* how the caller's own conversation fails, if it does

authVars == <<stage, held, timeout, call>>
pamVars  == <<acct, cred, owed, session>>
allVars  == <<vars, authVars, pamVars, fails>>

Stages == {"Start", "Authenticating", "Authenticated", "AccountChecked",
           "SessionOpen", "Ended", "Failed", "gone"}

AuthTypeOK ==
    /\ TypeOK
    /\ stage \in Stages
    /\ held \in {"Transaction", "Exchange", "Nothing"}
    /\ timeout \in BOOLEAN
    /\ call \in {"idle", "wait", "step", "settle", "setcred", "open", "undo",
                 "close", "revoke", "leave"}
    /\ acct \in BOOLEAN /\ cred \in BOOLEAN /\ owed \in BOOLEAN
    /\ session \in BOOLEAN
    /\ fails \subseteq ConvFailure

AuthInit ==
    /\ Init
    /\ stage = "gone" /\ held = "Nothing" /\ timeout = FALSE /\ call = "idle"
    /\ acct = FALSE /\ cred = FALSE /\ owed = FALSE /\ session = FALSE
    /\ fails \in {{}, {"err"}, ConvFailure}

\* Between two method calls, the stage being one the method accepts.
In(stages) == call = "idle" /\ stage \in stages

Return_(s, h) == call' = "idle" /\ stage' = s /\ held' = h

-----------------------------------------------------------------------------
(* The exchange. *)

\* Authenticator::new takes over a transaction the caller holds.
New(limited) ==
    /\ stage = "gone" /\ txn = "caller"
    /\ stage' = "Start" /\ held' = "Transaction" /\ timeout' = limited
    /\ owed' = FALSE /\ session' = FALSE
    /\ UNCHANGED <<vars, call, acct, cred>>

AuthBegin ==
    /\ In({"Start", "Failed"}) /\ held = "Transaction"
    /\ Begin
    /\ held' = "Exchange" /\ stage' = "Authenticating" /\ call' = "wait"
    /\ acct' = FALSE
    /\ UNCHANGED <<timeout, cred, owed, session>>

\* Mutant: the transaction of an exchange that never started is dropped.
Kept_Not == "Nothing"

\* begin_recover hands the transaction back for the retry.
Kept == "Transaction"

AuthBeginFails ==
    /\ In({"Start", "Failed"}) /\ held = "Transaction"
    /\ BeginFails(TRUE)
    /\ Return_("Failed", Kept)
    /\ UNCHANGED <<timeout, pamVars>>

AuthWait ==
    /\ call = "wait" /\ Wait(timeout) /\ call' = "step"
    /\ UNCHANGED <<stage, held, timeout, pamVars>>

AuthRespond(good) ==
    /\ In({"Authenticating"})
    /\ Respond(timeout, good) /\ call' = "step"
    /\ UNCHANGED <<stage, held, timeout, pamVars>>

\* The exchange and the stack behind it, while the authenticator waits or
\* its caller is elsewhere.
Exchange ==
    /\ Library \/ CollectTimeout \/ Module
    /\ UNCHANGED <<authVars, pamVars>>

\* step: wait or respond has returned.
StepPrompt ==
    /\ call = "step" /\ driver = "idle" /\ told = "prompt"
    /\ Return_("Authenticating", held)
    /\ UNCHANGED <<vars, timeout, pamVars>>

\* The worker is not joined: the exchange stays held.
StepTimeout ==
    /\ call = "step" /\ driver = "idle" /\ told = "timeout"
    /\ Return_("Failed", held)
    /\ UNCHANGED <<vars, timeout, pamVars>>

\* Done or a refusal: settle begins by finishing the exchange.
StepEnded ==
    /\ call = "step" /\ driver = "idle" /\ told \notin {"prompt", "timeout"}
    /\ Finish /\ call' = "settle"
    /\ UNCHANGED <<stage, held, timeout, pamVars>>

\* finish yields the transaction unless the worker came apart.
Settle ==
    /\ call = "settle" /\ driver = "idle"
    /\ Return_(IF told = "ok" THEN "Authenticated" ELSE "Failed",
               IF txn = "caller" THEN "Transaction" ELSE "Nothing")
    /\ UNCHANGED <<vars, timeout, pamVars>>

-----------------------------------------------------------------------------
(* The stack operations.  Each has a code of its own, and the conversation  *)
(* it ran through may have failed as well, which is reported ahead of it.   *)

Outcomes == [rc : BOOLEAN, conv : {"none"} \cup fails]

Reported(o) == IF o.conv # "none" THEN o.conv
               ELSE IF o.rc THEN "ok"
               ELSE "err"

\* The transaction is at hand, and the method is at this operation.
Run(c) == call = c /\ held = "Transaction" /\ UNCHANGED <<vars, timeout>>

Then(c)    == call' = c /\ UNCHANGED <<stage, held>>
Leave      == Then("idle")
Pass(s)    == Return_(s, held)

AcctMgmt(o) ==
    /\ In({"Authenticated"}) /\ Run("idle")
    /\ acct' = (acct \/ o.rc)
    /\ IF Reported(o) = "ok" THEN Pass("AccountChecked") ELSE Leave
    /\ UNCHANGED <<cred, owed, session>>

\* Mutant: the account need not have been checked.
LoginFrom_Authenticated == {"Authenticated", "AccountChecked"}

\* The stages login runs from.
LoginFrom == {"AccountChecked"}

Login ==
    /\ In(LoginFrom) /\ Run("idle")
    /\ Then("setcred")
    /\ UNCHANGED pamVars

\* setcred(Establish)?
Establish(o) ==
    /\ Run("setcred")
    /\ cred' = (cred \/ o.rc) /\ owed' = (owed \/ o.rc)
    /\ IF Reported(o) = "ok" THEN Then("open") ELSE Leave
    /\ UNCHANGED <<acct, session>>

\* Mutant: a session that does not open leaves the credentials.
Unopened_Kept == "idle"

\* What login goes on to do when the session does not open.
Unopened == "undo"

OpenSession(o) ==
    /\ Run("open")
    /\ session' = (session \/ o.rc)
    /\ CASE Reported(o) = "ok"    -> Pass("SessionOpen")
         [] Reported(o) = "err"   -> Then(Unopened)
         [] Reported(o) = "panic" -> Leave
    /\ UNCHANGED <<acct, cred, owed>>

\* let _ = setcred(Delete)
Undo(o) ==
    /\ Run("undo")
    /\ cred' = (cred /\ ~o.rc) /\ owed' = FALSE
    /\ Leave
    /\ UNCHANGED <<acct, session>>

Logout ==
    /\ In({"SessionOpen"}) /\ Run("idle")
    /\ Then("close")
    /\ UNCHANGED pamVars

\* The error of close_session is kept for later, a panic is not.
CloseSession(o) ==
    /\ Run("close")
    /\ session' = (session /\ ~o.rc)
    /\ IF Reported(o) = "panic" THEN Leave ELSE Then("revoke")
    /\ UNCHANGED <<acct, cred, owed>>

Revoke(o) ==
    /\ Run("revoke")
    /\ cred' = (cred /\ ~o.rc) /\ owed' = FALSE
    /\ IF Reported(o) = "panic" THEN Leave ELSE Pass("Ended")
    /\ UNCHANGED <<acct, session>>

-----------------------------------------------------------------------------
(* Giving up. *)

\* into_transaction: finish an exchange, or hand the transaction over.
IntoTransaction ==
    /\ In(Stages \ {"gone"})
    /\ \/ held = "Transaction" /\ UNCHANGED vars
          /\ Return_("gone", "Nothing")
       \/ held = "Exchange" /\ Finish
          /\ Then("leave")
    /\ UNCHANGED <<timeout, pamVars>>

DropAuthenticator ==
    /\ In(Stages \ {"gone"})
    /\ \/ held = "Transaction" /\ EndTransaction
          /\ Return_("gone", "Nothing")
       \/ held = "Exchange" /\ Drop
          /\ Then("leave")
    /\ UNCHANGED <<timeout, pamVars>>

Left ==
    /\ call = "leave" /\ driver = "idle"
    /\ Return_("gone", "Nothing")
    /\ UNCHANGED <<vars, timeout, pamVars>>

\* Another transaction, with nothing established on it.
Rebuild ==
    /\ stage = "gone" /\ Build
    /\ acct' = FALSE /\ cred' = FALSE
    /\ UNCHANGED <<authVars, owed, session>>

\* An exchange its caller drives: Stepped::begin_chauthtok, say.
Direct ==
    /\ stage = "gone" /\ call = "idle"
    /\ Caller
    /\ UNCHANGED <<authVars, pamVars>>

AuthStep ==
    \/ \E limited \in BOOLEAN : New(limited)
    \/ AuthBegin \/ AuthBeginFails \/ AuthWait
    \/ \E good \in BOOLEAN : AuthRespond(good)
    \/ Exchange
    \/ StepPrompt \/ StepTimeout \/ StepEnded \/ Settle
    \/ Login \/ Logout
    \/ \E o \in Outcomes :
          \/ AcctMgmt(o) \/ Establish(o) \/ OpenSession(o) \/ Undo(o)
          \/ CloseSession(o) \/ Revoke(o)
    \/ IntoTransaction \/ DropAuthenticator \/ Left \/ Rebuild
    \/ Direct

AuthNext == AuthStep /\ UNCHANGED fails

AuthSpec == AuthInit /\ [][AuthNext]_allVars

AuthFairSpec == AuthSpec /\ LibraryFair

-----------------------------------------------------------------------------
(* Properties. *)

\* A session is opened only on a transaction whose latest exchange succeeded,
\* whose account check has passed since, and whose credentials have been
\* granted, through any retries, timeouts and refusals.
LoginInOrder ==
    /\ call = "open" => cred
    /\ call \in {"setcred", "open"} \/ stage = "SessionOpen" =>
           outcome = "ok" /\ acct /\ txn = "caller"

\* Between calls the authenticator always has its transaction or the exchange
\* that has it, waiting for answers exactly while the stage says so, and the
\* one failure begin cannot retry is a round that timed out.
TransactionNotLost ==
    AuthTypeOK /\ (In(Stages \ {"gone"}) =>
        \/ held = "Transaction" /\ txn = "caller" /\ phase = "none"
           /\ stage # "Authenticating"
        \/ held = "Exchange" /\ stage = "Authenticating"
           /\ phase = "Prompting" /\ worker = "waiting"
        \/ held = "Exchange" /\ stage = "Failed"
           /\ phase = "Stopped" /\ told = "timeout")

\* Where no conversation fails, a login that fails leaves nothing behind:
\* neither credentials it has not asked to revoke nor a session.
NothingLeftBehind ==
    fails = {} /\ In({"AccountChecked"}) => ~owed /\ ~session

\* login: "Credentials granted for a session that does not open are revoked
\* again."
CredentialsRevokedAgain == In({"AccountChecked"}) => ~owed

=============================================================================
