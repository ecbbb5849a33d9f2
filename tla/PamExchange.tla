---------------------------- MODULE PamExchange ----------------------------
(***************************************************************************)
(* What an exchange promises about the Transaction it is given: the stack  *)
(* has it to itself from the start of the operation until the operation    *)
(* has returned; each round the stack asks is answered or refused before   *)
(* it goes on; an operation reports success only if no round was refused;  *)
(* and the transaction then goes back to its caller, or is ended, once.    *)
(***************************************************************************)
VARIABLES holder,   \* who may use the transaction
          stack,    \* what the stack is doing with it
          clean,    \* no round of this operation has been refused
          verdict   \* how the operation ended

vars == <<holder, stack, clean, verdict>>

Init == holder = "caller" /\ stack = "idle" /\ clean = TRUE /\ verdict = "none"

Start ==
    /\ holder = "caller"
    /\ holder' = "stack" /\ stack' = "running"
    /\ clean' = TRUE /\ verdict' = "none"

Ask ==
    /\ stack = "running" /\ stack' = "asked"
    /\ UNCHANGED <<holder, clean, verdict>>

Answer ==
    /\ stack = "asked" /\ stack' = "running"
    /\ UNCHANGED <<holder, clean, verdict>>

Refuse ==
    /\ stack = "asked" /\ stack' = "running"
    /\ clean' = FALSE
    /\ UNCHANGED <<holder, verdict>>

Return ==
    /\ stack = "running" /\ stack' = "returned"
    /\ verdict' \in IF clean THEN {"ok", "refused"} ELSE {"failed"}
    /\ UNCHANGED <<holder, clean>>

GiveBack ==
    /\ stack = "returned" /\ stack' = "idle"
    /\ holder' \in {"caller", "ended"}
    /\ clean' = TRUE /\ verdict' = "none"

End ==
    /\ holder = "caller" /\ holder' = "ended"
    /\ UNCHANGED <<stack, clean, verdict>>

Build ==
    /\ holder = "ended" /\ holder' = "caller"
    /\ UNCHANGED <<stack, clean, verdict>>

Next == Start \/ Ask \/ Answer \/ Refuse \/ Return \/ GiveBack \/ End \/ Build

Spec == Init /\ [][Next]_vars
=============================================================================
