--------------------------- MODULE PamTransaction ---------------------------
(* One PAM transaction (truenas_pam/src/txn.rs) and the conversation it      *)
(* answers its modules through (conv.rs, secret.rs): build, the stack        *)
(* operations with the rounds modules ask inside them, set_conversation, and *)
(* the drop, in which cleanup handlers may still converse.                   *)
(*                                                                           *)
(* A module sends messages by style and reads the answers as C strings from  *)
(* an array it then owns; the modules and libpam are external.               *)
EXTENDS Naturals, Sequences

CONSTANTS MaxMessages,  \* PAM_MAX_NUM_MSG
          MaxTxnRounds, \* bound on the rounds of one call into libpam
          MaxOps        \* bound on the operations of the transaction

VARIABLES hdl,     \* the pam_handle_t: "none", "live", "ended"
          slot,    \* the ConvSlot: "none", "live", "freed"
          conv,    \* its conv: "callers", "unattended"
          failure, \* its Failure, the first since it was last taken
          log,     \* the rounds logged
          last,    \* the status kept for pam_end
          call,    \* the call into libpam in progress, or "none"
          rounds,  \* the rounds of that call: what each came to
          ops,     \* the operations begun
          ret,     \* what the latest operation returned
          endedBy, \* the status pam_end was given
          code     \* the status of the latest step that returned

txnVars == <<hdl, slot, conv, failure, log, last, call, rounds, ops, ret,
             endedBy, code>>

None == [is |-> "none"]
Err(e) == [is |-> "err", of |-> e]
Panic == [is |-> "panic"]

Styles  == {"PromptEchoOff", "PromptEchoOn", "ErrorMsg", "TextInfo"}
Answer  == {"none", "text", "nul"}   \* Option<Secret>, by content
SeqUpTo(S, n) == UNION {[1 .. k -> S] : k \in 0 .. n}

TxnInit ==
    /\ hdl = "none" /\ slot = "none" /\ conv = "unattended"
    /\ failure = None /\ log = 0 /\ last = "PAM_ABORT" /\ call = "none"
    /\ rounds = <<>> /\ ops = 0 /\ ret = None
    /\ endedBy = "none" /\ code = "PAM_ABORT"

-----------------------------------------------------------------------------
(* One round: trampoline. *)

\* The messages as converse gets them, or why the round is refused: a null
\* pointer, or a style outside the four, whichever comes first.
Messages(msgs) ==
    LET bad == {i \in DOMAIN msgs : msgs[i] \notin Styles} IN
    IF bad = {} THEN None
    ELSE LET i == CHOOSE i \in bad : \A j \in bad : i <= j IN
         Err(IF msgs[i] = "null" THEN "ConvErr" ELSE "UnknownMsgStyle")

\* Mutant: the strings copied before the failure are freed as they are.
free_responses_Unscrubbed(strings) == [i \in DOMAIN strings |-> "freed"]

\* free_responses: each string is scrubbed up to its NUL, then freed.
free_responses(strings) == [i \in DOMAIN strings |-> "scrubbed"]

\* responses_to_c: the array of C strings, or why there is none and what
\* became of the strings copied by then.  short: the allocation that fails,
\* the array's being 1 and the i-th string's i + 1; 0 for none.
responses_to_c(answers, short) ==
    LET fails(i) == answers[i] = "nul" \/ (answers[i] # "none" /\ short = i + 1)
        bad == {i \in DOMAIN answers : fails(i)}
    IN IF short = 1 THEN [is |-> "err", of |-> "BufErr", strings |-> <<>>]
       ELSE IF bad = {} THEN [is |-> "ok", strings |-> answers]
       ELSE LET i == CHOOSE i \in bad : \A j \in bad : i <= j
                copied == [j \in {k \in 1 .. i - 1 : answers[k] # "none"} |->
                              answers[j]]
            IN [is |-> "err", strings |-> free_responses(copied),
                of |-> IF answers[i] = "nul" THEN "NulByte" ELSE "BufErr"]

\* Mutant: the latest failure is kept, not the first.
ConvFail_Latest(f) == f

\* ConvSlot::fail: the first one wins.
ConvFail(f) == IF failure = None THEN f ELSE failure

\* The round is refused before it reaches the slot: no failure is recorded.
Refuse(n) ==
    /\ n \notin 1 .. MaxMessages
    /\ rounds' = Append(rounds, [is |-> "refused", strings |-> <<>>])
    /\ UNCHANGED <<hdl, slot, conv, failure, log, last, call, ops, ret,
                   endedBy, code>>

\* The round fails with f; resp is nulled and PAM_CONV_ERR returned.
RoundFails(f, strings) ==
    /\ failure' = ConvFail(f)
    /\ rounds' = Append(rounds, [is |-> "failed", why |-> f, slot |-> slot,
                                 strings |-> strings])

\* A style or a pointer the crate does not take: not logged.
BadMessages(msgs) ==
    /\ Messages(msgs) # None
    /\ RoundFails(Messages(msgs), <<>>)
    /\ UNCHANGED <<hdl, slot, conv, log, last, call, ops, ret, endedBy, code>>

\* converse: an error, a panic, or answers, which may be too few or too many
\* or not fit for C.
Converses(msgs, answer, short) ==
    /\ Messages(msgs) = None
    /\ log' = log + 1
    /\ \/ answer.is \in {"err", "panic"} /\ RoundFails(answer, <<>>)
       \/ /\ answer.is = "answers" /\ Len(answer.given) # Len(msgs)
          /\ RoundFails(Err("ConvErr"), <<>>)
       \/ /\ answer.is = "answers" /\ Len(answer.given) = Len(msgs)
          /\ LET built == responses_to_c(answer.given, short) IN
             \/ /\ built.is = "err"
                /\ RoundFails(Err(built.of), built.strings)
             \/ /\ built.is = "ok" /\ UNCHANGED failure
                /\ rounds' = Append(rounds,
                      [is |-> "answered", asked |-> msgs, slot |-> slot,
                       given |-> answer.given, strings |-> built.strings])
    /\ UNCHANGED <<hdl, slot, conv, last, call, ops, ret, endedBy, code>>

\* What the installed conversation may return for msgs.
Unattended(msgs) == [is |-> "answers", given |-> [i \in DOMAIN msgs |-> "none"]]
Replies(msgs) ==
    IF conv = "unattended" THEN {Unattended(msgs)}
    ELSE {Err("converse"), Panic}
           \cup {[is |-> "answers", given |-> a] : a \in SeqUpTo(Answer, MaxMessages)}

\* A module calls the trampoline from inside a call into libpam.
Round ==
    /\ call \in {"op", "end"} /\ Len(rounds) < MaxTxnRounds
    /\ \/ \E n \in {0, MaxMessages + 1} : Refuse(n)
       \/ \E n \in 1 .. MaxMessages :
          \E msgs \in [1 .. n -> {"PromptEchoOff", "TextInfo", "binary", "null"}] :
             \/ BadMessages(msgs)
             \/ \E answer \in Replies(msgs), short \in 0 .. n + 1 :
                   Converses(msgs, answer, short)

-----------------------------------------------------------------------------
(* The transaction. *)

\* Builder::build up to pam_start.  A string with a NUL, or pam_start
\* failing, leaves nothing: the slot is reclaimed.
Start(c) ==
    /\ hdl = "none" /\ slot = "none"
    /\ hdl' = "live" /\ slot' = "live" /\ conv' = c /\ call' = "configure"
    /\ UNCHANGED <<failure, log, last, rounds, ops, ret, endedBy, code>>

\* The items and the delay are set; the transaction is the caller's.
Configured ==
    /\ call = "configure" /\ call' = "none"
    /\ last' = "PAM_SUCCESS" /\ code' = "PAM_SUCCESS"
    /\ UNCHANGED <<hdl, slot, conv, failure, log, rounds, ops, ret, endedBy>>

\* authenticate, acct_mgmt, chauthtok, setcred, open_session, close_session.
Begin ==
    /\ hdl = "live" /\ call = "none" /\ ops < MaxOps
    /\ call' = "op" /\ rounds' = <<>> /\ ops' = ops + 1
    /\ UNCHANGED <<hdl, slot, conv, failure, log, last, ret, endedBy, code>>

\* take_conv_failure, else check(rc).
Outcome(rc) ==
    IF failure # None THEN failure
    ELSE IF rc = "PAM_SUCCESS" THEN [is |-> "ok"] ELSE Err(rc)

\* stack_op after the call.  A stack may ignore a refused round and succeed.
stack_op(rc) ==
    /\ call = "op" /\ call' = "none"
    /\ last' = rc /\ code' = rc
    /\ ret' = Outcome(rc) /\ failure' = None
    /\ UNCHANGED <<hdl, slot, conv, log, rounds, ops, endedBy>>

set_conversation(c) ==
    /\ hdl = "live" /\ call = "none" /\ c # conv /\ conv' = c
    /\ UNCHANGED <<hdl, slot, failure, log, last, call, rounds, ops, ret,
                   endedBy, code>>

take_messages ==
    /\ hdl = "live" /\ call = "none" /\ log > 0 /\ log' = 0
    /\ UNCHANGED <<hdl, slot, conv, failure, last, call, rounds, ops, ret,
                   endedBy, code>>

\* Drop for Transaction, by its owner or because the configuration failed:
\* pam_end, with the handlers it runs while the slot is still there.
Drop ==
    /\ hdl = "live" /\ call \in {"none", "configure"}
    /\ call' = "end" /\ rounds' = <<>> /\ endedBy' = last
    /\ UNCHANGED <<hdl, slot, conv, failure, log, last, ops, ret, code>>

\* pam_end has returned: the slot is freed after it, with a failure nobody
\* took.
Dropped ==
    /\ call = "end" /\ call' = "none"
    /\ hdl' = "ended" /\ slot' = "freed" /\ failure' = None
    /\ UNCHANGED <<conv, log, last, rounds, ops, ret, endedBy, code>>

TxnNext ==
    \/ Round \/ Configured \/ Begin \/ take_messages \/ Drop \/ Dropped
    \/ \E c \in {"callers", "unattended"} : Start(c) \/ set_conversation(c)
    \/ \E rc \in {"PAM_SUCCESS", "PAM_AUTH_ERR", "PAM_CONV_ERR"} : stack_op(rc)

TxnSpec == TxnInit /\ [][TxnNext]_txnVars

FailedRounds == {i \in DOMAIN rounds : rounds[i].is = "failed"}

\* stack_op and ConvSlot: an operation reports the first failure of its own
\* rounds, however many the stack went on to ask and whatever it returned,
\* and libpam's code when none failed; pam_end is told that code.
ReportsItsRounds ==
    /\ hdl = "live" /\ call = "none" /\ ops > 0 =>
          IF FailedRounds = {}
          THEN ret = IF code = "PAM_SUCCESS" THEN [is |-> "ok"] ELSE Err(code)
          ELSE \E i \in FailedRounds :
                  ret = rounds[i].why /\ \A j \in FailedRounds : i <= j
    /\ hdl = "ended" => endedBy = code

\* conv.rs and secret.rs: a module gets one answer per message, in order; of
\* a round that fails no copy of an answer is freed unscrubbed; and a module
\* that converses, in a cleanup handler of pam_end too, finds the slot.
AnswersHandedOrBurned ==
    \A i \in DOMAIN rounds : LET r == rounds[i] IN
        /\ r.is = "answered" => r.strings = r.given
                               /\ DOMAIN r.strings = DOMAIN r.asked
        /\ r.is = "failed" =>
              \A j \in DOMAIN r.strings : r.strings[j] = "scrubbed"
        /\ r.is # "refused" => r.slot = "live"
=============================================================================
