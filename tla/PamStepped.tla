----------------------------- MODULE PamStepped -----------------------------
(***************************************************************************)
(* Stepped (truenas_pam/src/step.rs): pam_authenticate or pam_chauthtok on *)
(* a worker thread, driven one conversation round at a time over two       *)
(* rendezvous channels, with the conversation slot of conv.rs and the      *)
(* stack_op of txn.rs that the worker runs through.                        *)
(*                                                                         *)
(* The driver is whichever thread holds the Stepped; the caller is the     *)
(* code that thread runs between two calls.  The module stack is the code  *)
(* pam_authenticate calls: it may converse any number of times, ignore a   *)
(* refusal, and return what it likes.                                      *)
(***************************************************************************)
EXTENDS Naturals, Sequences

CONSTANT MaxRounds   \* bound on the rounds a stack asks in one exchange

ASSUME RoundsAssumption == MaxRounds \in Nat

VARIABLES
    txn,      \* where the Transaction is
    conv,     \* the Conversation in its slot: the caller's, or the Channel
    failure,  \* the Failure recorded in its slot
    phase,    \* Stepped.phase; "none" when there is no Stepped
    driver,   \* where the thread holding the Stepped is
    limit,    \* whether the wait in progress has a timeout
    ends,     \* the channel ends the Stepped holds: answers, events
    told,     \* what wait or respond last reported
    shown,    \* the round last reported as Step::Prompt
    given,    \* the answers passed to respond: whether each was well formed
    worker,   \* where the pam-exchange thread is
    round,    \* the rounds the stack has asked
    outcome   \* what the worker's operation returned

vars == <<txn, conv, failure, phase, driver, limit, ends, told, shown, given,
          worker, round, outcome>>

Rounds  == 0 .. MaxRounds
Both    == {"answers", "events"}

TypeOK ==
    /\ txn \in {"caller", "worker", "done", "ended"}
    /\ conv \in {"callers", "channel"}
    /\ failure \in {"none", "timeout", "answers"}
    /\ phase \in {"none", "Started", "Prompting", "Ended", "Stopped"}
    /\ driver \in {"idle", "sending", "collecting", "reaping", "finishing",
                   "dropping"}
    /\ limit \in BOOLEAN
    /\ ends \in SUBSET Both
    /\ told \in {"nothing", "prompt", "ok", "refused", "timeout", "answers"}
    /\ shown \in Rounds
    /\ given \in Seq(BOOLEAN)
    /\ worker \in {"none", "stack", "asking", "waiting", "returned",
                   "finished", "exited"}
    /\ round \in Rounds
    /\ outcome \in {"none", "ok", "refused", "timeout", "answers"}

Init ==
    /\ txn = "caller" /\ conv = "callers" /\ failure = "none"
    /\ phase = "none" /\ driver = "idle" /\ limit = FALSE
    /\ ends = {} /\ told = "nothing" /\ shown = 0 /\ given = <<>>
    /\ worker = "none" /\ round = 0 /\ outcome = "none"

slotVars   == <<conv, failure>>
callerVars == <<told, shown, given>>
workerVars == <<worker, round, outcome>>

-----------------------------------------------------------------------------
(* The driver. *)

\* begin, begin_chauthtok, begin_recover: install the Channel and spawn.
Begin ==
    /\ phase = "none" /\ txn = "caller"
    /\ txn' = "worker" /\ conv' = "channel"
    /\ phase' = "Started" /\ ends' = Both
    /\ told' = "nothing" /\ shown' = 0 /\ given' = <<>>
    /\ worker' = "stack" /\ round' = 0 /\ outcome' = "none"
    /\ UNCHANGED <<failure, driver, limit>>

\* The spawn fails: the conversation is put back, and begin_recover hands
\* the transaction back where begin and begin_chauthtok end it.
BeginFails(recover) ==
    /\ phase = "none" /\ txn = "caller"
    /\ conv' = "callers"
    /\ txn' = IF recover THEN "caller" ELSE "ended"
    /\ told' = "nothing"
    /\ UNCHANGED <<failure, phase, driver, limit, ends, shown, given,
                   workerVars>>

Wait(l) ==
    /\ driver = "idle" /\ phase = "Started"
    /\ driver' = "collecting" /\ limit' = l
    /\ UNCHANGED <<txn, slotVars, phase, ends, callerVars, workerVars>>

\* The caller passes answers to the round it was shown.
Respond(l, good) ==
    /\ driver = "idle" /\ phase = "Prompting"
    /\ driver' = "sending" /\ limit' = l
    /\ given' = Append(given, good)
    /\ UNCHANGED <<txn, slotVars, phase, ends, told, shown, workerVars>>

\* Mutant: finish waits for the worker without letting go of the channels.
Released_Kept == ends

\* What reap and Drop leave of the channel ends before they join.
Released == {}

Reap(how) == driver' = how /\ ends' = Released

\* The worker holds the receiving end of answers until it has put the
\* conversation back.
Listening == worker \in {"stack", "asking", "waiting", "returned"}

\* ConvSlot::fail: the first failure wins.
Recorded(f) == IF failure = "none" THEN f ELSE failure

\* answers.send meets answers.recv in converse, and the trampoline refuses
\* answers that are too few, too many or not C strings.  A send that finds
\* the receiver gone would make the worker's result the answer.
SendAnswers ==
    /\ driver = "sending"
    /\ IF Listening
       THEN /\ worker = "waiting"
            /\ worker' = "stack"
            /\ failure' = IF given[Len(given)] THEN failure
                                               ELSE Recorded("answers")
            /\ phase' = "Started" /\ driver' = "collecting"
            /\ UNCHANGED ends
       ELSE /\ phase' = "Ended" /\ Reap("reaping")
            /\ UNCHANGED <<worker, failure>>
    /\ UNCHANGED <<txn, conv, limit, callerVars, round, outcome>>

\* collect receives Event::Prompt; converse goes on to wait for the answers.
CollectPrompt ==
    /\ driver = "collecting" /\ worker = "asking"
    /\ phase' = "Prompting" /\ driver' = "idle"
    /\ told' = "prompt" /\ shown' = round
    /\ worker' = "waiting"
    /\ UNCHANGED <<txn, slotVars, limit, ends, given, round, outcome>>

\* collect receives Event::Finished; the worker thread returns.
CollectFinished ==
    /\ driver = "collecting" /\ worker = "finished"
    /\ worker' = "exited"
    /\ phase' = "Ended" /\ Reap("reaping")
    /\ UNCHANGED <<txn, slotVars, limit, callerVars, round, outcome>>

\* Mutant: the phase of the last round is put back.
TimedOut_Prompting == "Prompting"

\* Abandoned: only finish and drop remain.
TimedOut == "Stopped"

\* recv_timeout gives up.  The ends are kept: only finish and Drop cancel
\* the stack.
CollectTimeout ==
    /\ driver = "collecting" /\ limit
    /\ phase' = TimedOut /\ driver' = "idle"
    /\ told' = "timeout"
    /\ UNCHANGED <<txn, slotVars, limit, ends, shown, given, workerVars>>

\* reap's join, inside wait or respond, reports how the operation ended.
JoinReaping ==
    /\ driver = "reaping" /\ worker = "exited"
    /\ driver' = "idle" /\ worker' = "none"
    /\ txn' = "done" /\ told' = outcome
    /\ UNCHANGED <<slotVars, phase, limit, ends, shown, given, round, outcome>>

\* finish and drop consume the Stepped between two calls on it.
Finish ==
    /\ driver = "idle" /\ phase # "none"
    /\ Reap("finishing")
    /\ UNCHANGED <<txn, slotVars, phase, limit, callerVars, workerVars>>

Drop ==
    /\ driver = "idle" /\ phase # "none"
    /\ Reap("dropping")
    /\ UNCHANGED <<txn, slotVars, phase, limit, callerVars, workerVars>>

\* Mutant: the worker is detached.
Joined_Detached == TRUE

\* The worker thread has returned, or a reap has joined it before.
Joined == worker \in {"exited", "none"}

\* The join of finish or drop, or at once where a reap has joined already.
JoinConsuming ==
    /\ driver \in {"finishing", "dropping"}
    /\ Joined
    /\ txn' = IF driver = "finishing" THEN "caller" ELSE "ended"
    /\ worker' = "none" /\ driver' = "idle" /\ phase' = "none"
    /\ UNCHANGED <<slotVars, limit, ends, callerVars, round, outcome>>

-----------------------------------------------------------------------------
(* The worker. *)

\* A module calls the conversation: trampoline, then Channel::converse.
Converse ==
    /\ worker = "stack" /\ round < MaxRounds
    /\ worker' = "asking" /\ round' = round + 1
    /\ UNCHANGED <<txn, slotVars, phase, driver, limit, ends, callerVars,
                   outcome>>

\* Either end failing is a cancellation: the module is told PAM_CONV_ERR.
Cancelled ==
    /\ \/ worker = "asking" /\ "events" \notin ends
       \/ worker = "waiting" /\ "answers" \notin ends
    /\ worker' = "stack"
    /\ failure' = Recorded("timeout")
    /\ UNCHANGED <<txn, conv, phase, driver, limit, ends, callerVars, round,
                   outcome>>

\* stack_op: a conversation failure is reported ahead of the stack's code.
Result(rc) == IF failure = "none" THEN rc ELSE failure

\* The stack returns; stack_op takes the failure out of the slot.
Return(rc) ==
    /\ worker = "stack"
    /\ outcome' = Result(rc) /\ failure' = "none"
    /\ worker' = "returned"
    /\ UNCHANGED <<txn, conv, phase, driver, limit, ends, callerVars, round>>

\* Mutant: the Channel is left in the slot.
Restored_Not == conv

\* set_conversation(restore).
Restored == "callers"

Restore ==
    /\ worker = "returned"
    /\ conv' = Restored /\ worker' = "finished"
    /\ UNCHANGED <<txn, failure, phase, driver, limit, ends, callerVars,
                   round, outcome>>

\* The send of Event::Finished finds the driver gone.
FinishedUnheard ==
    /\ worker = "finished" /\ "events" \notin ends
    /\ worker' = "exited"
    /\ UNCHANGED <<txn, slotVars, phase, driver, limit, ends, callerVars,
                   round, outcome>>

-----------------------------------------------------------------------------
(* The caller's own transaction. *)

\* Transaction::drop: pam_end, then the slot is freed.
EndTransaction ==
    /\ txn = "caller" /\ phase = "none"
    /\ txn' = "ended"
    /\ UNCHANGED <<slotVars, phase, driver, limit, ends, callerVars,
                   workerVars>>

\* Builder::build: a fresh handle and a fresh slot.
Build ==
    /\ txn = "ended"
    /\ txn' = "caller" /\ conv' = "callers" /\ failure' = "none"
    /\ UNCHANGED <<phase, driver, limit, ends, callerVars, workerVars>>

Module  == Converse \/ \E rc \in {"ok", "refused"} : Return(rc)
Library ==
    \/ SendAnswers \/ CollectPrompt \/ CollectFinished
    \/ JoinReaping \/ JoinConsuming
    \/ Cancelled \/ Restore \/ FinishedUnheard
Caller  ==
    \/ Begin \/ (\E recover \in BOOLEAN : BeginFails(recover))
    \/ (\E l \in BOOLEAN : Wait(l) \/ \E good \in BOOLEAN : Respond(l, good))
    \/ Finish \/ Drop \/ EndTransaction

Next == Module \/ Library \/ CollectTimeout \/ Caller \/ Build

Spec == Init /\ [][Next]_vars

-----------------------------------------------------------------------------
(* Safety. *)

\* A transaction the Stepped or the caller holds is out of the stack's reach,
\* has the caller's own conversation back in its slot, and carries no
\* conversation failure that the next operation would report as its own.
HandedBackClean ==
    txn \in {"caller", "done"} =>
        worker = "none" /\ conv = "callers" /\ failure = "none"

\* respond hands its answers to the stack parked in the round the caller was
\* shown: they are never late, never for another round, and the send never
\* waits for a stack that is not listening.
AnswersForTheirRound ==
    driver = "sending" =>
        worker = "waiting" /\ shown = round /\ Len(given) = round

\* Step::Done: the stack returned success, and every round it asked in the
\* exchange was shown and answered with answers that reached it.
DoneMeansAnswered ==
    told = "ok" =>
        /\ Len(given) = round
        /\ \A i \in DOMAIN given : given[i]

\* Error::Timeout from wait or respond always means the wait timed out, never
\* that the stack was cancelled: the exchange is Stopped, and the transaction
\* is still on the worker, as Authenticator::step takes it to be.
TimeoutLeavesExchange ==
    told = "timeout" /\ phase # "none" => phase = "Stopped" /\ txn = "worker"

\* What wait and respond tell the caller of the rounds, an answer, a result or
\* a timeout, is so of the stack on the other thread.
RoundsAreTheStacks ==
    TypeOK /\ AnswersForTheirRound /\ DoneMeansAnswered /\ TimeoutLeavesExchange

\* The abstract exchange this one implements.
stackState ==
    CASE worker = "none" /\ txn # "done"      -> "idle"
      [] worker = "stack"                     -> "running"
      [] worker \in {"asking", "waiting"}     -> "asked"
      [] OTHER                                -> "returned"

holderState == IF txn \in {"caller", "ended"} THEN txn ELSE "stack"

cleanState ==
    CASE stackState = "idle"     -> TRUE
      [] stackState = "returned" -> outcome \in {"ok", "refused"}
      [] OTHER                   -> failure = "none"

verdictState ==
    IF stackState # "returned" THEN "none"
    ELSE IF outcome \in {"ok", "refused"} THEN outcome
    ELSE "failed"

Abstract == INSTANCE PamExchange WITH
    holder <- holderState, stack <- stackState,
    clean <- cleanState, verdict <- verdictState

\* Stepped keeps the promises of PamExchange: the transaction is used by one
\* side at a time and comes back, or is ended, once and only when the stack
\* has returned.
ImplementsExchange == Abstract!Spec

-----------------------------------------------------------------------------
(* Liveness. *)

\* Both threads go on, and a timer fires.
LibraryFair == WF_vars(Library) /\ WF_vars(CollectTimeout)

\* The module comes back in the end.
ModuleReturns == SF_vars(\E rc \in {"ok", "refused"} : Return(rc))

\* A timeout bounds the wait, whatever the module does: wait and respond with
\* a limit return even if the stack never comes back.  finish, drop and a wait
\* without a limit return once the module does: no driver and worker wait for
\* each other.
CallsReturn ==
    /\ (driver \in {"sending", "collecting"} /\ limit) ~> (driver = "idle")
    /\ ModuleReturns => ((driver # "idle") ~> (driver = "idle"))
=============================================================================
