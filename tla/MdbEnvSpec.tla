----------------------------- MODULE MdbEnvSpec -----------------------------
(***************************************************************************)
(* What truenas_mdb::Env promises its callers, whatever the pool behind it *)
(* does: a directory is open at most once, from the first Env on it until  *)
(* after the last one is dropped, and every Env on it is that one          *)
(* environment.  MdbEnvPool implements this specification.                 *)
(***************************************************************************)
CONSTANTS Paths, Handles, NoPath

VARIABLES opened,  \* the directories open in the process
          on       \* the directory each live Env is on

vars == <<opened, on>>

Init == /\ opened = {}
        /\ on = [h \in Handles |-> NoPath]

\* The first Env on a closed directory opens it.
Open(p, h) ==
    /\ p \notin opened
    /\ on[h] = NoPath
    /\ opened' = opened \cup {p}
    /\ on' = [on EXCEPT ![h] = p]

\* A further open, or a clone: only while some Env keeps the directory open.
Share(p, h) ==
    /\ \E other \in Handles : on[other] = p
    /\ on[h] = NoPath
    /\ on' = [on EXCEPT ![h] = p]
    /\ UNCHANGED opened

Drop(h) ==
    /\ on[h] # NoPath
    /\ on' = [on EXCEPT ![h] = NoPath]
    /\ UNCHANGED opened

\* Nothing is closed under a live Env.
Close(p) ==
    /\ p \in opened
    /\ \A h \in Handles : on[h] # p
    /\ opened' = opened \ {p}
    /\ UNCHANGED on

Next ==
    \/ \E p \in Paths, h \in Handles : Open(p, h) \/ Share(p, h)
    \/ \E h \in Handles : Drop(h)
    \/ \E p \in Paths : Close(p)

Spec == Init /\ [][Next]_vars

=============================================================================
