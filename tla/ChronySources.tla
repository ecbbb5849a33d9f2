--------------------------- MODULE ChronySources ---------------------------
(***************************************************************************)
(* Client::sources (truenas_chrony/src/client.rs): the list of sources     *)
(* read one at a time, by index, while chronyd changes it.                 *)
(*                                                                         *)
(* Each request is one step here: ChronyExchange shows that an answer is   *)
(* chronyd's from one moment within the call.  chronyd is external: it     *)
(* removes a source by shifting the later ones down, and adds at the end.  *)
(***************************************************************************)
EXTENDS Naturals, Sequences, Functions

CONSTANTS Sources,
          MaxSources,    \* bound on the length of chronyd's list
          MaxChanges,    \* bound on its changes during a call
          Kinds          \* the sets of changes it may make during a call

SourcesAssumption ==
    /\ MaxSources \in Nat /\ MaxChanges \in Nat
    /\ Kinds \subseteq SUBSET {"remove", "add"}

SOURCE_WALKS == 3

VARIABLES
    list,      \* chronyd's sources
    kinds,     \* the changes it makes during this call
    changes,   \* how many it has made
    at,        \* the request sources() makes next
    walk,      \* the walks begun
    count,     \* what this walk's first source_count returned
    sources,   \* what this walk has read
    ret        \* what sources() returned

daemonVars == <<list, kinds, changes>>
clientVars == <<at, walk, count, sources, ret>>
vars == <<daemonVars, clientVars>>

TypeOK ==
    /\ list \in Seq(Sources) /\ Len(list) <= MaxSources
    /\ kinds \in Kinds
    /\ changes \in 0 .. MaxChanges
    /\ at \in {"idle", "count", "source", "recount"}
    /\ walk \in 0 .. SOURCE_WALKS
    /\ count \in 0 .. MaxSources
    /\ sources \in Seq(Sources) /\ Len(sources) <= count
    /\ ret \in {"pending", "ok", "changed", "err"}

Init ==
    /\ list \in UNION {[1 .. n -> Sources] : n \in 0 .. MaxSources}
    /\ IsInjective(list)
    /\ kinds \in Kinds /\ changes = 0
    /\ at = "idle" /\ walk = 0 /\ count = 0 /\ sources = <<>>
    /\ ret = "pending"

-----------------------------------------------------------------------------
(* The client. *)

Call ==
    /\ at = "idle"
    /\ at' = "count" /\ walk' = 1 /\ ret' = "pending"
    /\ kinds' \in Kinds /\ changes' = 0
    /\ UNCHANGED <<list, count, sources>>

Return(r) == at' = "idle" /\ ret' = r /\ UNCHANGED <<walk, count, sources>>

\* for _ in 0..SOURCE_WALKS
Walks == walk < SOURCE_WALKS

\* The walk did not settle: another, or Error::Changed.
Unsettled ==
    IF Walks THEN /\ at' = "count" /\ walk' = walk + 1
                  /\ UNCHANGED <<count, sources, ret>>
             ELSE Return("changed")

Count ==
    /\ at = "count"
    /\ count' = Len(list) /\ sources' = <<>>
    /\ at' = IF Len(list) = 0 THEN "recount" ELSE "source"
    /\ UNCHANGED <<walk, ret, daemonVars>>

\* source(index): an index past the end is NoSuchSource, which ends the walk.
Source ==
    LET index == Len(sources) IN
    /\ at = "source"
    /\ IF index < Len(list)
       THEN /\ sources' = Append(sources, list[index + 1])
            /\ at' = IF index + 1 = count THEN "recount" ELSE "source"
            /\ UNCHANGED <<walk, count, ret>>
       ELSE Unsettled
    /\ UNCHANGED daemonVars

\* Mutant: a walk that read as many as it counted is not checked again.
Settled_Unchecked == TRUE

\* whole && self.source_count()? == count
Settled == Len(list) = count

Recount ==
    /\ at = "recount"
    /\ IF Settled THEN Return("ok") ELSE Unsettled
    /\ UNCHANGED daemonVars

\* Any other error of a request is returned.
Fails ==
    /\ at # "idle"
    /\ Return("err")
    /\ UNCHANGED daemonVars

-----------------------------------------------------------------------------
(* chronyd, during a call. *)

Changes(kind) ==
    /\ at # "idle" /\ kind \in kinds
    /\ changes < MaxChanges /\ changes' = changes + 1
    /\ UNCHANGED <<kinds, clientVars>>

RemoveSource(i) ==
    /\ Changes("remove")
    /\ list' = SubSeq(list, 1, i - 1) \o SubSeq(list, i + 1, Len(list))

AddSource(s) ==
    /\ Changes("add")
    /\ s \notin Range(list) /\ Len(list) < MaxSources
    /\ list' = Append(list, s)

Next ==
    \/ Call \/ Count \/ Source \/ Recount \/ Fails
    \/ \E i \in DOMAIN list : RemoveSource(i)
    \/ \E s \in Sources : AddSource(s)

Spec == Init /\ [][Next]_vars

-----------------------------------------------------------------------------
\* The list returned is chronyd's own, in index order.
ReturnsTheList == [][ret' = "ok" /\ at' # at => sources' = list]_vars

\* A walk that overlaps removals, or that overlaps additions, never passes
\* for the list.
OneWayListIsWhole ==
    [][kinds # {"remove", "add"} /\ ret' = "ok" /\ at' # at =>
          sources' = list]_vars

\* Error::Changed is reported only of a list that kept changing: every walk
\* that was given up had a change of its own.
ChangedMeansChanges == ret = "changed" => changes >= SOURCE_WALKS
=============================================================================
