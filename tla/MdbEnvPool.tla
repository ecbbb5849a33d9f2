----------------------------- MODULE MdbEnvPool -----------------------------
(***************************************************************************)
(* The process-wide pool of LMDB environments (truenas_mdb/src/env.rs).    *)
(*                                                                         *)
(* LMDB forbids opening one directory twice in a process, so every Env on  *)
(* a path shares one MDB_env, counted in the path's slot.  Threads open,   *)
(* clone and drop Env handles; an Env may be dropped on any thread.  Each  *)
(* slot has a mutex of its own, held across the open and across the final  *)
(* close; the map of slots is locked only for the lookup.                  *)
(*                                                                         *)
(* The directory work that precedes the lookup (create_dir, canonicalize)  *)
(* changes no state of the pool: a path here is a canonical path.          *)
(***************************************************************************)
EXTENDS Naturals, FiniteSets

CONSTANTS Threads,   \* threads of the process
          Paths,     \* canonical directories
          Handles,   \* identities an Env value may take
          Slots,     \* identities an Arc<PathSlot> may take
          Envs,      \* addresses an MDB_env may take, reused after a close
          DbiLocks,  \* addresses an Arc<Mutex> for mdb_dbi_open may take
          NoThread, NoSlot, NoEnv, NoPath, NoHandle,
          NoLock

ASSUME PoolAssumption ==
    /\ IsFiniteSet(Handles)
    /\ NoThread \notin Threads
    /\ NoSlot \notin Slots
    /\ NoEnv \notin Envs
    /\ NoPath \notin Paths
    /\ NoHandle \notin Handles

VARIABLES pool,    \* the map: canonical path -> its slot
          made,    \* the slots allocated so far
          state,   \* SlotState of each slot: env, refcnt, dbi_lock
          owner,   \* who holds each slot's mutex
          handle,  \* the live Env values
          mdb,     \* liblmdb: what each MDB_env address is
          call     \* where each thread is inside open_with or drop

vars == <<pool, made, state, owner, handle, mdb, call>>

Free    == [is |-> "free", dir |-> NoPath]
Created == [is |-> "created", dir |-> NoPath]
OpenAt(p) == [is |-> "open", dir |-> p]

EnvState  == {Free, Created} \cup {OpenAt(p) : p \in Paths}
SlotState == [env : Envs \cup {NoEnv}, refcnt : Nat,
              dbi_lock : DbiLocks \cup {NoLock}]
Env       == [key : Paths, slot : Slots, env : Envs,
              dbi_lock : DbiLocks]
Idle      == [at |-> "idle", key |-> NoPath, slot |-> NoSlot, env |-> NoEnv,
              new |-> NoHandle]
Call      == [at : {"idle", "wait", "locked", "created", "closing"},
              key : Paths \cup {NoPath}, slot : Slots \cup {NoSlot},
              env : Envs \cup {NoEnv}, new : Handles \cup {NoHandle}]

ASSUME NoHandleAssumption == NoHandle \notin Env

TypeOK ==
    /\ pool \in [Paths -> Slots \cup {NoSlot}]
    /\ made \in SUBSET Slots
    /\ state \in [Slots -> SlotState]
    /\ owner \in [Slots -> Threads \cup {NoThread}]
    /\ handle \in [Handles -> Env \cup {NoHandle}]
    /\ mdb \in [Envs -> EnvState]
    /\ call \in [Threads -> Call]

EmptySlot == [env |-> NoEnv, refcnt |-> 0, dbi_lock |-> NoLock]

Init ==
    /\ pool = [p \in Paths |-> NoSlot]
    /\ made = {}
    /\ state = [s \in Slots |-> EmptySlot]
    /\ owner = [s \in Slots |-> NoThread]
    /\ handle = [h \in Handles |-> NoHandle]
    /\ mdb = [e \in Envs |-> Free]
    /\ call = [t \in Threads |-> Idle]

Live(h)   == handle[h] # NoHandle
Unused(h) == ~Live(h) /\ \A t \in Threads : call[t].new # h

FreshLock(l) ==
    /\ \A s \in Slots : state[s].dbi_lock # l
    /\ \A h \in Handles : Live(h) => handle[h].dbi_lock # l

Goto(t, at) == call' = [call EXCEPT ![t].at = at]
Return(t)   == call' = [call EXCEPT ![t] = Idle]
Unlock(s)   == owner' = [owner EXCEPT ![s] = NoThread]

\* Mutant: one lock for the whole pool.
Unlocked_PoolLock(s) == \A r \in Slots : owner[r] = NoThread

\* PathSlot::lock can be taken.
Unlocked(s) == owner[s] = NoThread

\* Mutant: a new Env that is not counted.
Counted_Not(s) == state

\* One more Env on the slot.
Counted(s) == [state EXCEPT ![s].refcnt = @ + 1]

\* Mutant: a shared open makes a dbi_lock of its own.
SharedLock_Own(s) == CHOOSE l \in DbiLocks : FreshLock(l)

\* The dbi_lock a further Env on the slot is given.
SharedLock(s) == state[s].dbi_lock

\* The Env about to be dropped is the last on its slot.
LastEnv(s) == state[s].refcnt = 1

\* Mutant: the slot is unlocked before the environment is closed.
KeepLock_Not(t, s) == UNCHANGED owner

\* The last drop keeps the slot lock for the close.
KeepLock(t, s) == owner' = [owner EXCEPT ![s] = t]

-----------------------------------------------------------------------------
(* Env::open_with, one action per point another thread can run at. *)

\* path_slot: the lookup, under the map's own lock.  An entry lives forever.
\* The call names the Env it would return, h, from the start.
FindSlot(t, p, h) ==
    /\ call[t].at = "idle"
    /\ Unused(h)
    /\ \E s \in Slots :
          /\ \/ s = pool[p] /\ UNCHANGED <<pool, made>>
             \/ /\ pool[p] = NoSlot /\ s \notin made
                /\ pool' = [pool EXCEPT ![p] = s]
                /\ made' = made \cup {s}
          /\ call' = [call EXCEPT ![t] = [at |-> "wait", key |-> p,
                                          slot |-> s, env |-> NoEnv, new |-> h]]
    /\ UNCHANGED <<state, owner, handle, mdb>>

LockSlot(t) ==
    /\ call[t].at = "wait"
    /\ Unlocked(call[t].slot)
    /\ owner' = [owner EXCEPT ![call[t].slot] = t]
    /\ Goto(t, "locked")
    /\ UNCHANGED <<pool, made, state, handle, mdb>>

\* The path is already open: share its environment.
ShareEnv(t) ==
    LET s == call[t].slot IN
    /\ call[t].at = "locked"
    /\ state[s].env # NoEnv
    /\ state' = Counted(s)
    /\ handle' = [handle EXCEPT ![call[t].new] =
                    [key |-> call[t].key, slot |-> s, env |-> state[s].env,
                     dbi_lock |-> SharedLock(s)]]
    /\ Unlock(s)
    /\ Return(t)
    /\ UNCHANGED <<pool, made, mdb>>

\* mdb_env_create hands out an address nothing is using, or fails.
CreateEnv(t) ==
    /\ call[t].at = "locked"
    /\ state[call[t].slot].env = NoEnv
    /\ \E e \in Envs :
          /\ mdb[e] = Free
          /\ mdb' = [mdb EXCEPT ![e] = Created]
          /\ call' = [call EXCEPT ![t] =
                         [@ EXCEPT !.at = "created", !.env = e]]
    /\ UNCHANGED <<pool, made, state, owner, handle>>

CreateFails(t) ==
    /\ call[t].at = "locked"
    /\ state[call[t].slot].env = NoEnv
    /\ Unlock(call[t].slot)
    /\ Return(t)
    /\ UNCHANGED <<pool, made, state, handle, mdb>>

\* The configuration calls and mdb_env_open succeed; the slot records the
\* environment with a dbi_lock of its own.
OpenEnv(t) ==
    LET s == call[t].slot
        e == call[t].env IN
    /\ call[t].at = "created"
    /\ mdb' = [mdb EXCEPT ![e] = OpenAt(call[t].key)]
    /\ \E l \in DbiLocks :
          /\ FreshLock(l)
          /\ state' = [state EXCEPT ![s] =
                         [env |-> e, refcnt |-> 1, dbi_lock |-> l]]
          /\ handle' = [handle EXCEPT ![call[t].new] =
                          [key |-> call[t].key, slot |-> s, env |-> e,
                           dbi_lock |-> l]]
    /\ Unlock(s)
    /\ Return(t)
    /\ UNCHANGED <<pool, made>>

\* Mutant: a failed configuration returns without mdb_env_close.
OpenFails_NoClose(t) ==
    /\ call[t].at = "created"
    /\ Unlock(call[t].slot)
    /\ Return(t)
    /\ UNCHANGED <<pool, made, state, handle, mdb>>

\* One of them fails: the handle is closed and nothing is recorded.
OpenFails(t) ==
    /\ call[t].at = "created"
    /\ mdb' = [mdb EXCEPT ![call[t].env] = Free]
    /\ Unlock(call[t].slot)
    /\ Return(t)
    /\ UNCHANGED <<pool, made, state, handle>>

-----------------------------------------------------------------------------
(* Env::clone and Env::drop. *)

CloneEnv(t, h, new) ==
    /\ call[t].at = "idle"
    /\ Live(h) /\ Unused(new)
    /\ Unlocked(handle[h].slot)
    /\ state' = Counted(handle[h].slot)
    /\ handle' = [handle EXCEPT ![new] = handle[h]]
    /\ UNCHANGED <<pool, made, owner, mdb, call>>

\* drop: the count goes down under the slot lock, which is kept when it
\* reaches zero.
DropEnv(t, h) ==
    LET s == handle[h].slot IN
    /\ call[t].at = "idle"
    /\ Live(h)
    /\ Unlocked(s)
    /\ state' = [state EXCEPT ![s].refcnt = @ - 1]
    /\ handle' = [handle EXCEPT ![h] = NoHandle]
    /\ \/ ~LastEnv(s) /\ UNCHANGED <<owner, call>>
       \/ /\ LastEnv(s)
          /\ KeepLock(t, s)
          /\ call' = [call EXCEPT ![t] = [at |-> "closing",
                                          key |-> handle[h].key, slot |-> s,
                                          env |-> handle[h].env,
                                          new |-> NoHandle]]
    /\ UNCHANGED <<pool, made, mdb>>

\* Mutant: the last close also removes the path from the map.
CloseEnv_Unmaps(t) ==
    LET s == call[t].slot IN
    /\ call[t].at = "closing"
    /\ mdb' = [mdb EXCEPT ![call[t].env] = Free]
    /\ state' = [state EXCEPT ![s].env = NoEnv]
    /\ pool' = [pool EXCEPT ![call[t].key] = NoSlot]
    /\ Unlock(s)
    /\ Return(t)
    /\ UNCHANGED <<made, handle>>

\* mdb_env_sync and mdb_env_close, then the slot is emptied and unlocked.
CloseEnv(t) ==
    LET s == call[t].slot IN
    /\ call[t].at = "closing"
    /\ mdb' = [mdb EXCEPT ![call[t].env] = Free]
    /\ state' = [state EXCEPT ![s].env = NoEnv]
    /\ Unlock(s)
    /\ Return(t)
    /\ UNCHANGED <<pool, made, handle>>

Next ==
    \E t \in Threads :
       \/ \E p \in Paths, h \in Handles : FindSlot(t, p, h)
       \/ LockSlot(t)
       \/ ShareEnv(t)
       \/ CreateEnv(t)
       \/ CreateFails(t)
       \/ OpenEnv(t)
       \/ OpenFails(t)
       \/ \E h, new \in Handles : CloneEnv(t, h, new)
       \/ \E h \in Handles : DropEnv(t, h)
       \/ CloseEnv(t)

Spec == Init /\ [][Next]_vars

-----------------------------------------------------------------------------
(* Safety. *)

\* LMDB's rule, the reason the pool exists (env.rs, module comment): no
\* directory is open twice in the process, whatever threads race an open
\* against an open or against the last close.
OneEnvPerPath ==
    \A e1, e2 \in Envs :
        mdb[e1].is = "open" /\ mdb[e2] = mdb[e1] => e1 = e2

\* No Env outlives its environment: what a live handle points at is open,
\* at the handle's own directory, and is the one its slot records.
HandlesValid ==
    \A h \in Handles : Live(h) =>
        /\ mdb[handle[h].env] = OpenAt(handle[h].key)
        /\ state[handle[h].slot].env = handle[h].env

HandlesOn(s) == {h \in Handles : Live(h) /\ handle[h].slot = s}

\* SlotState.refcnt counts the live Env values of its path, through shared
\* opens, clones and drops on any thread.
RefcntIsHandles ==
    \A s \in Slots : state[s].refcnt = Cardinality(HandlesOn(s))

\* Two live Envs on one path share the MDB_env and the lock that serialises
\* mdb_dbi_open on it, however they were obtained.
SharedEnvAndDbiLock ==
    \A h1, h2 \in Handles :
        Live(h1) /\ Live(h2) /\ handle[h1].key = handle[h2].key =>
            handle[h1] = handle[h2]

\* No MDB_env is forgotten: each is reachable from a live handle or in the
\* hands of the thread that is opening or closing it.
NoEnvLeaked ==
    \A e \in Envs : mdb[e] # Free =>
        \/ \E h \in Handles : Live(h) /\ handle[h].env = e
        \/ \E t \in Threads :
              call[t].at \in {"created", "closing"} /\ call[t].env = e

-----------------------------------------------------------------------------
(* Refinement. *)

Opened == {p \in Paths : \E e \in Envs : mdb[e] = OpenAt(p)}
On     == [h \in Handles |-> IF Live(h) THEN handle[h].key ELSE NoPath]

Abstract == INSTANCE MdbEnvSpec WITH opened <- Opened, on <- On

\* The pool keeps the promise of MdbEnvSpec: its slots, locks, reference
\* counts and failing opens are invisible to the holders of Env values.
ImplementsEnvSpec == Abstract!Spec

-----------------------------------------------------------------------------
(* Liveness: what a stalled store holds up. *)

\* A thread that runs inside open_with or drop goes on, and a mutex released
\* again and again is granted in the end.  liblmdb returns from every open
\* and close, except on the stalled paths, where it may hang for ever.
Fairness(stalled) ==
    \A t \in Threads :
        /\ SF_vars(LockSlot(t))
        /\ WF_vars(\/ ShareEnv(t)
                   \/ /\ call[t].key \notin stalled
                      /\ \/ CreateEnv(t) \/ CreateFails(t)
                         \/ OpenEnv(t) \/ OpenFails(t) \/ CloseEnv(t))

\* PathSlot: "the work done on one path [...] stalls only that path".  An
\* open on any other path returns although the store behind a stalled one
\* never answers.
StallsOnlyItsPath(stalled) ==
    \A t \in Threads, p \in Paths \ stalled :
        (call[t].at = "wait" /\ call[t].key = p) ~> (call[t].at = "idle")

\* An environment that lost its last Env is closed, unless its store hangs.
UnusedIsClosed(stalled) ==
    \A p \in Paths \ stalled :
        (p \in Opened /\ \A h \in Handles : On[h] # p)
            ~> (p \notin Opened)

=============================================================================
