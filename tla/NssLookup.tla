----------------------------- MODULE NssLookup -----------------------------
(***************************************************************************)
(* Lookups of truenas_nss across the system's modules (src/service.rs,     *)
(* src/grp.rs, src/pwd.rs): the buffer growth of grow_and_call, the        *)
(* classification of what a module answers, the first-hit walk of fan_out, *)
(* and the union of fan_out_groups over initgroups_dyn.                    *)
(*                                                                         *)
(* What a module answers is free: any status with any errno, a request for *)
(* a larger buffer as often as it likes, any gid array with any start and  *)
(* size.                                                                   *)
(***************************************************************************)
EXTENDS Integers, Sequences, SequencesExt

CONSTANTS Gids,      \* the gids a module may report
          Primary,   \* the caller's primary gid, which seeds the list
          MaxGids    \* bound on the array a module leaves

LookupAssumption == Primary \in Gids /\ MaxGids \in Nat

LOOKUP_ORDER   == <<"Files", "Sss", "Winbind">>
INITIAL_BUFLEN == 1024
MAX_BUFLEN     == 2^24

Status == {"TRYAGAIN", "UNAVAIL", "NOTFOUND", "SUCCESS", "RETURN"}
Errno  == {"0", "ERANGE", "EIO"}

VARIABLES op,       \* the walk in progress: an entry's, or a group list's
          buflen,   \* the scratch buffer of the call in progress
          answers,  \* what each module consulted so far came to
          result    \* what the walk returned

vars == <<op, buflen, answers, result>>

\* What one module's lookup comes to.
Hit(g)     == [is |-> "ok", found |-> TRUE, gids |-> g]
Miss(g)    == [is |-> "ok", found |-> FALSE, gids |-> g]
Fault(s, e) == [is |-> "err", status |-> s, errno |-> e]
Unloaded   == [is |-> "err", status |-> "none", errno |-> "0"]

GidLists == UNION {[1 .. n -> Gids] : n \in 0 .. MaxGids}
Pending  == [is |-> "pending"]

TypeOK ==
    /\ op \in {"idle", "entry", "groups"}
    /\ buflen \in {INITIAL_BUFLEN * 2^n : n \in 0 .. 14}
    /\ Len(answers) <= Len(LOOKUP_ORDER)
    /\ result.is \in {"pending", "ok", "err"}

Init ==
    /\ op = "idle" /\ buflen = INITIAL_BUFLEN
    /\ answers = <<>> /\ result = Pending

-----------------------------------------------------------------------------
(* One module. *)

\* classify_lookup: an errno outranks any status, success included.
classify_lookup(s, e, g) ==
    IF e # "0" THEN Fault(s, e)
    ELSE CASE s = "NOTFOUND" -> Miss(g)
           [] s = "SUCCESS"  -> Hit(g)
           [] OTHER          -> Fault(s, "0")

is_unavail(a) == a.is = "err" /\ a.status = "UNAVAIL"

\* call_initgroups: the entries the module has written, by its own report.
Filled(start, size) ==
    LET at_least_0(x) == IF x < 0 THEN 0 ELSE x
    IN  IF at_least_0(start) < at_least_0(size) THEN at_least_0(start)
                                                ELSE at_least_0(size)

-----------------------------------------------------------------------------
(* The walks. *)

\* dedup_gids: the seen-set, over one pass.
Dedup(seq) ==
    FoldLeft(LAMBDA out, g : IF Contains(out, g) THEN out ELSE Append(out, g),
             <<>>, seq)

Union(as) ==
    FoldLeft(LAMBDA all, a : IF a.is = "ok" THEN all \o a.gids ELSE all,
             <<Primary>>, as)

\* Mutant: any failure is skipped.
Skipped_Any(a) == a.is = "err"

\* The one failure the walks skip.
Skipped(a) == is_unavail(a)

\* The walk goes on to the next module.
Consulted(a) == Append(answers, a)

\* What the walk does with a module's answer: it propagates a fault, fan_out
\* stops at a hit, and the last module ends either walk.
Settle(a) ==
    LET as == Consulted(a) IN
    /\ answers' = as
    /\ buflen' = INITIAL_BUFLEN
    /\ result' =
          IF \/ a.is = "err" /\ ~Skipped(a)
             \/ op = "entry" /\ a.is = "ok" /\ a.found
          THEN a
          ELSE IF Len(as) < Len(LOOKUP_ORDER) THEN Pending
          ELSE IF op = "entry" THEN Miss(<<>>)
          ELSE Hit(Dedup(Union(as)))
    /\ UNCHANGED op

Asking(o) == op = o /\ result = Pending

Begin(o) ==
    /\ op = "idle"
    /\ op' = o
    /\ UNCHANGED <<buflen, answers, result>>

Return ==
    /\ result # Pending
    /\ op' = "idle" /\ answers' = <<>> /\ result' = Pending
    /\ UNCHANGED buflen

\* A failure that carries no status: the module does not load, it lacks the
\* symbol, or extract refuses the entry it wrote.
NoService(o) == Asking(o) /\ Settle(Unloaded)

AtCeiling == buflen >= MAX_BUFLEN

\* grow_and_call: TRYAGAIN with ERANGE asks for a larger buffer.
Grow ==
    /\ Asking("entry") /\ ~AtCeiling
    /\ buflen' = buflen * 2
    /\ UNCHANGED <<op, answers, result>>

\* Any other answer is settled, and so is the request at the ceiling.
Entry(s, e) ==
    /\ Asking("entry")
    /\ s = "TRYAGAIN" /\ e = "ERANGE" => AtCeiling
    /\ Settle(classify_lookup(s, e, <<>>))

\* call_initgroups: the array is copied out before the status is looked at.
\* The module leaves the seed in place and has written what it reports, or
\* reports a start past its size.
Groups(s, e, array, start, size) ==
    /\ Asking("groups")
    /\ size = Len(array) /\ array[1] = Primary
    /\ Settle(classify_lookup(s, e, SubSeq(array, 1, Filled(start, size))))

Next ==
    \/ \E o \in {"entry", "groups"} : Begin(o) \/ NoService(o)
    \/ Grow \/ Return
    \/ \E s \in Status, e \in Errno :
          \/ Entry(s, e)
          \/ \E array \in GidLists \ {<<>>}, start \in -1 .. MaxGids + 1 :
                Groups(s, e, array, start, Len(array))

Spec == Init /\ [][Next]_vars

-----------------------------------------------------------------------------
\* Which of the modules consulted decided an entry's lookup.
Decisive(a) == (a.is = "ok" /\ a.found) \/ (a.is = "err" /\ ~is_unavail(a))

\* The first module that has the entry or fails with anything but UNAVAIL
\* decides; none after it is consulted, none before it is left out; and no
\* entry is reported missing while a module could not be asked.
FirstHitWins ==
    op = "entry" =>
        /\ \A i \in DOMAIN answers : Decisive(answers[i]) =>
               i = Len(answers) /\ result = answers[i]
        /\ result = Miss(<<>>) =>
               /\ Len(answers) = Len(LOOKUP_ORDER)
               /\ \A i \in DOMAIN answers : ~Decisive(answers[i])

\* Where each gid of the modules that answered first appears, the seed being
\* first of all.
Reported == <<Primary>> \o FlattenSeq([i \in DOMAIN answers |->
                IF answers[i].is = "ok" THEN answers[i].gids ELSE <<>>])
FirstAt(g) == CHOOSE i \in DOMAIN Reported :
                  Reported[i] = g /\ \A j \in 1 .. i - 1 : Reported[j] # g

\* getgrouplist returns the primary gid and the union of what every module
\* that could answer reports, each gid once and in order of appearance; a
\* failure other than UNAVAIL is never turned into a shorter list.
GroupsAreUnion ==
    op = "groups" /\ result.is = "ok" =>
        LET gs == result.gids IN
        /\ Len(answers) = Len(LOOKUP_ORDER)
        /\ \A i \in DOMAIN answers :
               answers[i].is = "ok" \/ is_unavail(answers[i])
        /\ gs[1] = Primary
        /\ ToSet(gs) = ToSet(Reported)
        /\ \A i, j \in DOMAIN gs : i < j => FirstAt(gs[i]) < FirstAt(gs[j])

\* What a walk over the modules answers is what they reported, in their order.
WalksAgree == TypeOK /\ FirstHitWins /\ GroupsAreUnion

\* Every walk returns, however often its modules ask for a larger buffer.
WalksReturn == (op # "idle") ~> (op = "idle")

\* NssStatus::NotFound is "Surfaced as Ok(None), never as an error", and
\* Success is "Never carried by Error".
NotFoundNeverAnError ==
    result.is = "err" => result.status \notin {"NOTFOUND", "SUCCESS"}
=============================================================================
