------------------------------ MODULE GssAccept ------------------------------
(***************************************************************************)
(* truenas_gssapi: the accept side of an exchange.  The library hands out  *)
(* credentials, contexts and names that the crate's values own; it may do  *)
(* so on a call that fails as well.                                        *)
(***************************************************************************)
EXTENDS Naturals

CONSTANT MaxObjects \* bound: library objects made in a behaviour

VARIABLES
    cred,  \* the credential and who owns it
    acc,   \* the acceptor under way
    ctx,   \* the context taken out of one
    live,  \* the library's objects not yet released
    made,  \* objects made so far
    proven \* ghost: the exchange of acc completed

acceptVars == <<cred, acc, ctx, live, made, proven>>

Null == 0
NoAcceptor ==
    [on |-> FALSE, context |-> Null, established |-> FALSE, source |-> Null,
     mech |-> FALSE]
NoContext == [raw |-> Null, source |-> Null]

AcceptInit ==
    /\ cred = [raw |-> Null, by |-> "caller"]
    /\ acc = NoAcceptor /\ ctx = NoContext
    /\ live = {} /\ made = 0 /\ proven = FALSE

\* A major status packs a calling error, a routine error and supplementary
\* bits; check fails on either of the first two, whatever the bits say.
Majors == [error : {"none", "calling", "routine"}, continue : BOOLEAN]
Failed(major) == major.error # "none"

acquire ==
    /\ cred.raw = Null /\ made < MaxObjects
    /\ cred' = [raw |-> made + 1, by |-> "caller"]
    /\ made' = made + 1 /\ live' = live \cup {made + 1}
    /\ UNCHANGED <<acc, ctx, proven>>

\* Acceptor::new borrows the credential, OwningAcceptor::new takes it.
new ==
    /\ cred.raw # Null /\ ~acc.on
    /\ acc' = [NoAcceptor EXCEPT !.on = TRUE]
    /\ \E by \in {"caller", "acceptor"} : cred' = [cred EXCEPT !.by = by]
    /\ proven' = FALSE
    /\ UNCHANGED <<ctx, live, made>>

\* What gss_accept_sec_context may do: give a name, settle the mechanism,
\* and make, keep or on a failure delete the context.  Once the context is
\* established it only reports a usage error.
Outcomes ==
    {o \in [major : Majors, src : BOOLEAN, mech : BOOLEAN,
            context : {"make", "keep", "delete"}] :
        /\ acc.established => /\ Failed(o.major) /\ ~o.src /\ ~o.mech
                              /\ o.context = "keep"
        /\ o.context = "make" => acc.context = Null
        /\ o.context = "delete" => acc.context # Null /\ Failed(o.major)
        /\ o.context = "keep" /\ acc.context = Null => Failed(o.major)}

\* State::step.  A name that came with a failure is owned like any other,
\* and one it replaces is released.
step ==
    /\ acc.on /\ made + 2 <= MaxObjects
    /\ \E o \in Outcomes :
        LET c == made + 1
            n == made + 2
            complete == ~Failed(o.major) /\ ~o.major.continue
        IN  /\ made' = made + 2
            /\ live' = (live \ ((IF o.context = "delete" THEN {acc.context}
                                 ELSE {})
                                \cup (IF o.src THEN {acc.source} ELSE {})))
                       \cup (IF o.context = "make" THEN {c} ELSE {})
                       \cup (IF o.src THEN {n} ELSE {})
            /\ acc' = [acc EXCEPT
                 !.context = CASE o.context = "make" -> c
                               [] o.context = "delete" -> Null
                               [] OTHER -> @,
                 !.source = IF o.src THEN n ELSE @,
                 !.mech = @ \/ o.mech,
                 !.established = @ \/ complete]
            /\ proven' = (proven \/ complete)
    /\ UNCHANGED <<cred, ctx>>

\* The authenticated initiator, read only from an established exchange.
source_name == IF acc.established THEN acc.source ELSE Null

\* The acceptor goes: with the credential if it owns it, and with what its
\* state still has.
Going == {acc.context, acc.source}
         \cup IF cred.by = "acceptor" THEN {cred.raw} ELSE {}
CredAfter == IF cred.by = "acceptor"
             THEN [raw |-> Null, by |-> "caller"] ELSE cred

drop_acceptor ==
    /\ acc.on
    /\ live' = live \ Going
    /\ cred' = CredAfter /\ acc' = NoAcceptor /\ proven' = FALSE
    /\ UNCHANGED <<ctx, made>>

\* into_context: the handle and the name move to the context, so that the
\* drop of the acceptor finds neither; an exchange that is not complete is
\* refused, and the acceptor the call consumed goes with the refusal.
into_context ==
    /\ acc.on /\ ctx = NoContext
    /\ IF acc.established
       THEN /\ ctx' = [raw |-> acc.context, source |-> acc.source]
            /\ live' = live \ (Going \ {acc.context, acc.source})
       ELSE /\ ctx' = ctx
            /\ live' = live \ Going
    /\ cred' = CredAfter /\ acc' = NoAcceptor /\ proven' = FALSE
    /\ UNCHANGED made

drop_context ==
    /\ ctx.raw # Null
    /\ live' = live \ {ctx.raw, ctx.source}
    /\ ctx' = NoContext
    /\ UNCHANGED <<cred, acc, made, proven>>

drop_cred ==
    /\ cred.raw # Null /\ cred.by = "caller" /\ ~acc.on
    /\ live' = live \ {cred.raw}
    /\ cred' = [raw |-> Null, by |-> "caller"]
    /\ UNCHANGED <<acc, ctx, made, proven>>

AcceptNext ==
    \/ acquire \/ new \/ step \/ drop_acceptor \/ into_context
    \/ drop_context \/ drop_cred

AcceptSpec == AcceptInit /\ [][AcceptNext]_acceptVars

-----------------------------------------------------------------------------
\* The library objects by the places of the crate's values that own them.
Owned == [credential |-> cred.raw,
          context |-> acc.context, source |-> acc.source,
          taken |-> ctx.raw, initiator |-> ctx.source]

\* Every library object alive is owned by exactly one of the crate's values,
\* though a step that fails may have made a context or a name, and a context
\* taken out of an acceptor is not deleted with it; an initiator can be read
\* only from an exchange that completed, whose context exists.
OwnedOnce ==
    /\ live = {Owned[p] : p \in DOMAIN Owned} \ {Null}
    /\ \A p, q \in DOMAIN Owned :
          p # q /\ Owned[p] = Owned[q] => Owned[p] = Null
    /\ source_name # Null => proven
    /\ acc.established => acc.context # Null
=============================================================================
