-------------------------- MODULE MdbEnvPoolProofs --------------------------
(***************************************************************************)
(* The safety of the environment pool, for any number of threads, paths,   *)
(* handles and environments.  None of the pool's invariants is inductive   *)
(* alone: what a handle points at stays open because the thread that       *)
(* closes it holds the slot's lock and saw the count at one, and the count *)
(* is right because every handle of a path names the same slot.  IInv      *)
(* spells out who owns what; Env::open_with, clone and drop preserve it,   *)
(* and every safety property of MdbEnvPool follows.                        *)
(*                                                                         *)
(* And the pool implements MdbEnvSpec: an open, a clone, a drop and the    *)
(* close of the last Env are its steps, and what happens under the locks   *)
(* in between is invisible.                                                *)
(***************************************************************************)
EXTENDS MdbEnvPool, FiniteSetTheorems, TLAPS

\* Each path has one slot of its own.
PoolInv ==
    /\ \A p \in Paths : pool[p] # NoSlot => pool[p] \in made
    /\ \A p, q \in Paths : pool[p] # NoSlot /\ pool[p] = pool[q] => p = q

\* A thread inside a call works on the slot of its path; past the lock it is
\* the owner.
CallInv ==
    \A t \in Threads :
        /\ call[t].at = "idle" => call[t] = Idle
        /\ call[t].at # "idle" =>
              /\ call[t].key \in Paths
              /\ call[t].slot \in Slots
              /\ pool[call[t].key] = call[t].slot
        /\ call[t].at \in {"wait", "locked", "created"} =>
              call[t].new \in Handles /\ ~Live(call[t].new)
        /\ call[t].at \in {"locked", "created", "closing"} =>
              owner[call[t].slot] = t
        /\ call[t].at = "closing" => call[t].new = NoHandle

OwnerInv ==
    \A s \in Slots : owner[s] # NoThread =>
        /\ call[owner[s]].at \in {"locked", "created", "closing"}
        /\ call[owner[s]].slot = s

\* No two calls are to return the same Env value.
NewInv ==
    \A t, u \in Threads :
        call[t].new \in Handles /\ call[t].new = call[u].new => t = u

\* An environment being opened or closed belongs to one thread.
CreatedInv ==
    /\ \A t \in Threads : call[t].at = "created" =>
          /\ call[t].env \in Envs
          /\ mdb[call[t].env] = Created
          /\ state[call[t].slot].env = NoEnv
    /\ \A t, u \in Threads :
          call[t].at = "created" /\ call[u].at = "created"
             /\ call[t].env = call[u].env => t = u
    /\ \A e \in Envs : mdb[e] = Created =>
          \E t \in Threads : call[t].at = "created" /\ call[t].env = e

ClosingInv ==
    \A t \in Threads : call[t].at = "closing" =>
        /\ call[t].env \in Envs
        /\ state[call[t].slot].env = call[t].env
        /\ state[call[t].slot].refcnt = 0

\* A live Env agrees with the slot of its path.
HandleInv ==
    \A h \in Handles : Live(h) =>
        /\ handle[h].slot = pool[handle[h].key]
        /\ handle[h].env = state[handle[h].slot].env
        /\ handle[h].dbi_lock = state[handle[h].slot].dbi_lock

\* A slot's environment is open at the slot's path, and every open
\* environment is that of its path's slot.
SlotInv ==
    \A s \in Slots : state[s].env # NoEnv =>
        /\ mdb[state[s].env].dir \in Paths
        /\ mdb[state[s].env] = OpenAt(mdb[state[s].env].dir)
        /\ pool[mdb[state[s].env].dir] = s
        /\ state[s].dbi_lock \in DbiLocks

OpenInv ==
    \A e \in Envs, p \in Paths : mdb[e] = OpenAt(p) =>
        pool[p] \in Slots /\ state[pool[p]].env = e

\* An environment nobody counts is on its way out, under the slot's lock.
CountInv ==
    \A s \in Slots : state[s].env # NoEnv /\ state[s].refcnt = 0 =>
        owner[s] # NoThread /\ call[owner[s]].at = "closing"

IInv ==
    /\ TypeOK
    /\ PoolInv
    /\ CallInv
    /\ OwnerInv
    /\ NewInv
    /\ CreatedInv
    /\ ClosingInv
    /\ HandleInv
    /\ SlotInv
    /\ OpenInv
    /\ CountInv
    /\ RefcntIsHandles

-----------------------------------------------------------------------------
(* Facts about the helpers. *)

\* The three states of an MDB_env address are distinct, and an open one
\* remembers its directory.
LEMMA EnvStatesDiffer ==
    ASSUME NEW p
    PROVE  /\ OpenAt(p) # Free /\ OpenAt(p) # Created
           /\ OpenAt(p).dir = p
BY DEF OpenAt, Free, Created

\* The live handles of a slot can be counted.
LEMMA HandlesFinite ==
    ASSUME NEW s \in Slots
    PROVE  IsFiniteSet(HandlesOn(s)) /\ Cardinality(HandlesOn(s)) \in Nat
BY FS_Subset, FS_CardinalityType, PoolAssumption DEF HandlesOn

\* An unused handle that becomes an Env on slot s adds one to its count and
\* to no other.
LEMMA HandleAdded ==
    ASSUME NEW s \in Slots, NEW h \in Handles, NEW env \in Env,
           handle \in [Handles -> Env \cup {NoHandle}],
           ~Live(h), env.slot = s,
           handle' = [handle EXCEPT ![h] = env]
    PROVE  /\ Cardinality(HandlesOn(s)') = Cardinality(HandlesOn(s)) + 1
           /\ \A r \in Slots : r # s => HandlesOn(r)' = HandlesOn(r)
<1>1. HandlesOn(s)' = HandlesOn(s) \cup {h}
  BY NoHandleAssumption DEF HandlesOn, Live
<1>2. h \notin HandlesOn(s)
  BY DEF HandlesOn
<1>3. \A r \in Slots : r # s => HandlesOn(r)' = HandlesOn(r)
  BY NoHandleAssumption DEF HandlesOn, Live
<1> QED
  BY <1>1, <1>2, <1>3, HandlesFinite, FS_AddElement, Zenon

\* Dropping an Env on slot s takes one from its count and from no other.
LEMMA HandleRemoved ==
    ASSUME NEW s \in Slots, NEW h \in Handles,
           handle \in [Handles -> Env \cup {NoHandle}],
           Live(h), handle[h].slot = s,
           handle' = [handle EXCEPT ![h] = NoHandle]
    PROVE  /\ Cardinality(HandlesOn(s)') = Cardinality(HandlesOn(s)) - 1
           /\ \A r \in Slots : r # s => HandlesOn(r)' = HandlesOn(r)
<1>1. HandlesOn(s)' = HandlesOn(s) \ {h}
  BY NoHandleAssumption DEF HandlesOn, Live
<1>2. h \in HandlesOn(s)
  BY DEF HandlesOn
<1>3. \A r \in Slots : r # s => HandlesOn(r)' = HandlesOn(r)
  BY NoHandleAssumption DEF HandlesOn, Live
<1>4. IsFiniteSet(HandlesOn(s))
  BY HandlesFinite
<1>5. Cardinality(HandlesOn(s) \ {h}) = Cardinality(HandlesOn(s)) - 1
  BY <1>2, <1>4, FS_RemoveElement, Zenon
<1> QED
  BY <1>1, <1>3, <1>5

\* A slot without a count has no handle.
LEMMA NoCountNoHandle ==
    ASSUME RefcntIsHandles, NEW s \in Slots, state[s].refcnt = 0,
           NEW h \in Handles, Live(h)
    PROVE  handle[h].slot # s
<1>1. HandlesOn(s) = {}
  BY HandlesFinite, FS_EmptySet DEF RefcntIsHandles
<1> QED
  BY <1>1 DEF HandlesOn

-----------------------------------------------------------------------------
(* One lemma per action: each preserves IInv. *)

\* path_slot gives a new path a slot nobody else has.
LEMMA FindSlotInv ==
    ASSUME IInv, NEW t \in Threads, NEW p \in Paths, NEW h \in Handles,
           FindSlot(t, p, h)
    PROVE  IInv'
<1> USE DEF FindSlot, Live
<1>1. TypeOK'
  BY DEF IInv, TypeOK, Call
<1>2. PoolInv'
  <2>1. CASE UNCHANGED <<pool, made>>
    BY <2>1 DEF IInv, PoolInv
  <2>2. ASSUME NEW s \in Slots, s \notin made, pool[p] = NoSlot,
               pool' = [pool EXCEPT ![p] = s], made' = made \cup {s}
        PROVE  PoolInv'
    BY <2>2, PoolAssumption DEF IInv, TypeOK, PoolInv
  <2> QED
    BY <2>1, <2>2
<1>3. CallInv' /\ OwnerInv' /\ NewInv'
  BY PoolAssumption
     DEF IInv, TypeOK, PoolInv, CallInv, OwnerInv, NewInv, Unused, Idle
<1>4. CreatedInv' /\ ClosingInv'
  BY PoolAssumption DEF IInv, TypeOK, CallInv, CreatedInv, ClosingInv
<1>5. HandleInv' /\ SlotInv' /\ OpenInv'
  <2>1. \A q \in Paths : pool[q] # NoSlot => pool'[q] = pool[q]
    BY DEF IInv, TypeOK
  <2>2. HandleInv'
    BY <2>1, PoolAssumption, NoHandleAssumption
       DEF IInv, TypeOK, HandleInv, Env
  <2>3. SlotInv'
    BY <2>1, PoolAssumption DEF IInv, SlotInv
  <2>4. OpenInv'
    BY <2>1, PoolAssumption DEF IInv, OpenInv
  <2> QED
    BY <2>2, <2>3, <2>4
<1>6. CountInv' /\ RefcntIsHandles'
  BY DEF IInv, TypeOK, OwnerInv, CountInv, RefcntIsHandles, HandlesOn
<1> QED
  BY <1>1, <1>2, <1>3, <1>4, <1>5, <1>6 DEF IInv

\* Locking a free slot makes the caller its only owner.
LEMMA LockSlotInv ==
    ASSUME IInv, NEW t \in Threads, LockSlot(t)
    PROVE  IInv'
<1> USE DEF LockSlot, Live, Goto, Unlocked
<1>1. TypeOK'
  <2>1. call' \in [Threads -> Call]
    BY DEF IInv, TypeOK, Call
  <2>2. owner' \in [Slots -> Threads \cup {NoThread}]
    BY Zenon DEF IInv, TypeOK, Call
  <2> QED
    BY <2>1, <2>2 DEF IInv, TypeOK
<1>2. PoolInv' /\ CallInv' /\ OwnerInv' /\ NewInv'
  BY PoolAssumption
     DEF IInv, TypeOK, PoolInv, CallInv, OwnerInv, NewInv, Call, Idle
<1>3. CreatedInv' /\ ClosingInv'
  BY PoolAssumption DEF IInv, TypeOK, CallInv, CreatedInv, ClosingInv, Call
<1>4. HandleInv' /\ SlotInv' /\ OpenInv'
  BY DEF IInv, HandleInv, SlotInv, OpenInv
<1>5. CountInv' /\ RefcntIsHandles'
  BY PoolAssumption
     DEF IInv, TypeOK, CallInv, CountInv, RefcntIsHandles, HandlesOn
<1> QED
  BY <1>1, <1>2, <1>3, <1>4, <1>5 DEF IInv

\* A call past the lock works on the slot it owns.
LEMMA OwnedCall ==
    ASSUME IInv, NEW t \in Threads, call[t].at \in {"locked", "created", "closing"}
    PROVE  /\ call[t].slot \in Slots /\ call[t].key \in Paths
           /\ pool[call[t].key] = call[t].slot
           /\ owner[call[t].slot] = t
BY DEF IInv, CallInv

\* The Env an open is to return is not live yet.
LEMMA NewEnv ==
    ASSUME IInv, NEW t \in Threads, call[t].at \in {"locked", "created"}
    PROVE  call[t].new \in Handles /\ ~Live(call[t].new)
BY DEF IInv, CallInv

\* A slot has one owner: what a thread does to its own slot is not seen by a
\* thread past the lock of another.
LEMMA OtherSlot ==
    ASSUME IInv, NEW t \in Threads, NEW u \in Threads, u # t,
           owner[call[t].slot] = t,
           call[u].at \in {"locked", "created", "closing"}
    PROVE  call[u].slot \in Slots /\ call[u].slot # call[t].slot
BY DEF IInv, CallInv

\* A call that ends gives up its slot and the Env it was to return.
LEMMA ReturnInv ==
    ASSUME IInv, NEW t \in Threads,
           call[t].at \in {"locked", "created", "closing"},
           owner' = [owner EXCEPT ![call[t].slot] = NoThread],
           call' = [call EXCEPT ![t] = Idle],
           UNCHANGED <<pool, made>>,
           \A g \in Handles : g # call[t].new => handle'[g] = handle[g]
    PROVE  /\ call' \in [Threads -> Call]
           /\ owner' \in [Slots -> Threads \cup {NoThread}]
           /\ PoolInv' /\ CallInv' /\ OwnerInv' /\ NewInv'
<1>1. call' \in [Threads -> Call]
  BY DEF IInv, TypeOK, Call, Idle
<1>2. owner' \in [Slots -> Threads \cup {NoThread}]
  BY Zenon DEF IInv, TypeOK
<1>3. /\ Idle.at = "idle" /\ Idle.new = NoHandle
      /\ call'[t] = Idle
      /\ \A u \in Threads : u # t => call'[u] = call[u]
  BY DEF IInv, TypeOK, Idle
<1>4. /\ owner'[call[t].slot] = NoThread
      /\ \A s \in Slots : s # call[t].slot => owner'[s] = owner[s]
  BY OwnedCall DEF IInv, TypeOK
<1>5. PoolInv'
  BY DEF IInv, PoolInv
<1>6. ASSUME NEW u \in Threads, u # t
      PROVE  /\ call[u].at \in {"wait", "locked", "created"} => ~Live(call[u].new)'
             /\ call[u].at \in {"locked", "created", "closing"} =>
                   owner'[call[u].slot] = u
  <2>1. ASSUME call[u].at \in {"wait", "locked", "created"}
        PROVE  ~Live(call[u].new)'
    <3>1. call[u].new \in Handles /\ ~Live(call[u].new)
      BY <2>1 DEF IInv, CallInv
    <3>2. call[u].new # call[t].new
      BY <1>6, <3>1 DEF IInv, NewInv
    <3> QED
      BY <3>1, <3>2 DEF Live
  <2>2. ASSUME call[u].at \in {"locked", "created", "closing"}
        PROVE  owner'[call[u].slot] = u
    BY <1>4, <1>6, <2>2, OwnedCall, OtherSlot
  <2> QED
    BY <2>1, <2>2
<1>7. CallInv'
  BY <1>3, <1>6 DEF IInv, CallInv
<1>8. OwnerInv'
  <2>1. ASSUME NEW s \in Slots, owner'[s] # NoThread
        PROVE  s # call[t].slot /\ owner'[s] = owner[s]
    BY <1>4, <2>1
  <2>2. ASSUME NEW s \in Slots, s # call[t].slot, owner[s] # NoThread
        PROVE  owner[s] \in Threads /\ owner[s] # t
    BY <2>2 DEF IInv, TypeOK, OwnerInv
  <2> QED
    BY <1>3, <2>1, <2>2 DEF IInv, OwnerInv
<1>9. NewInv'
  BY <1>3, PoolAssumption DEF IInv, NewInv
<1> QED
  BY <1>1, <1>2, <1>5, <1>7, <1>8, <1>9

\* Nor do the environments that other threads are opening or closing change
\* when a call ends: it leaves its own slot empty or counted.
LEMMA ReturnOthersInv ==
    ASSUME IInv, NEW t \in Threads,
           call[t].at \in {"locked", "created", "closing"},
           owner' = [owner EXCEPT ![call[t].slot] = NoThread],
           call' = [call EXCEPT ![t] = Idle],
           state'[call[t].slot].env = NoEnv \/ state'[call[t].slot].refcnt # 0,
           \A s \in Slots : s # call[t].slot => state'[s] = state[s],
           \A e \in Envs : mdb'[e] = Created <=>
              mdb[e] = Created /\ ~(call[t].at = "created" /\ call[t].env = e)
    PROVE  CreatedInv' /\ ClosingInv' /\ CountInv'
<1>1. /\ Idle.at = "idle" /\ call'[t] = Idle
      /\ \A u \in Threads : u # t => call'[u] = call[u]
  BY DEF IInv, TypeOK, Idle
<1>2. ASSUME NEW u \in Threads, call'[u].at \in {"created", "closing"}
      PROVE  /\ u # t /\ call'[u] = call[u]
             /\ state'[call[u].slot] = state[call[u].slot]
  BY <1>1, <1>2, OwnedCall, OtherSlot
<1>3. CreatedInv'
  <2>1. ASSUME NEW u \in Threads, call'[u].at = "created"
        PROVE  /\ call[u].env \in Envs
               /\ mdb'[call[u].env] = Created
               /\ state[call[u].slot].env = NoEnv
    BY <1>2, <2>1 DEF IInv, CreatedInv
  <2>2. ASSUME NEW e \in Envs, mdb'[e] = Created
        PROVE  \E u \in Threads : call'[u].at = "created" /\ call'[u].env = e
    <3>1. PICK u \in Threads : call[u].at = "created" /\ call[u].env = e
      BY <2>2 DEF IInv, CreatedInv
    <3> QED
      BY <1>1, <2>2, <3>1
  <2>3. \A u, v \in Threads :
           call'[u].at = "created" /\ call'[v].at = "created"
              /\ call'[u].env = call'[v].env => u = v
    BY <1>2 DEF IInv, CreatedInv
  <2> QED
    BY <1>2, <2>1, <2>2, <2>3 DEF CreatedInv
<1>4. ClosingInv'
  BY <1>2 DEF IInv, ClosingInv
<1>5. CountInv'
  <2>1. ASSUME NEW s \in Slots, state'[s].env # NoEnv, state'[s].refcnt = 0
        PROVE  owner'[s] # NoThread /\ call'[owner'[s]].at = "closing"
    <3>1. s # call[t].slot /\ state'[s] = state[s]
      BY <2>1
    <3>2. owner[s] # NoThread /\ call[owner[s]].at = "closing"
      BY <2>1, <3>1 DEF IInv, CountInv
    <3>3. /\ owner'[s] = owner[s] /\ owner[s] \in Threads
          /\ call[owner[s]].slot = s
      BY <3>1, <3>2 DEF IInv, TypeOK, OwnerInv
    <3> QED
      BY <1>1, <3>1, <3>2, <3>3
  <2> QED
    BY <2>1 DEF CountInv
<1> QED
  BY <1>3, <1>4, <1>5

\* A new Env that agrees with its slot, where the slots of the others keep
\* their environment and lock.
LEMMA NewHandleInv ==
    ASSUME IInv, NEW h \in Handles, NEW env \in Env, ~Live(h),
           handle' = [handle EXCEPT ![h] = env],
           UNCHANGED pool,
           /\ env.slot = pool[env.key]
           /\ env.env = state'[env.slot].env
           /\ env.dbi_lock = state'[env.slot].dbi_lock,
           \A g \in Handles : Live(g) =>
              /\ state'[handle[g].slot].env = state[handle[g].slot].env
              /\ state'[handle[g].slot].dbi_lock = state[handle[g].slot].dbi_lock
    PROVE  handle' \in [Handles -> Env \cup {NoHandle}] /\ HandleInv'
<1>1. handle' \in [Handles -> Env \cup {NoHandle}]
  BY DEF IInv, TypeOK
<1>2. handle'[h] = env /\ \A g \in Handles : g # h => handle'[g] = handle[g]
  BY DEF IInv, TypeOK
<1>3. ASSUME NEW g \in Handles, g # h, Live(g)'
      PROVE  /\ handle'[g].slot = pool'[handle'[g].key]
             /\ handle'[g].env = state'[handle'[g].slot].env
             /\ handle'[g].dbi_lock = state'[handle'[g].slot].dbi_lock
  <2>1. Live(g) /\ handle'[g] = handle[g]
    BY <1>2, <1>3 DEF Live
  <2> QED
    BY <1>3, <2>1 DEF IInv, HandleInv
<1> QED
  BY <1>1, <1>2, <1>3 DEF HandleInv

\* A new reference count is all that changes in a slot.
LEMMA NewCount ==
    ASSUME IInv, NEW s \in Slots, NEW n \in Nat,
           state' = [state EXCEPT ![s].refcnt = n]
    PROVE  /\ state' \in [Slots -> SlotState]
           /\ state'[s].refcnt = n
           /\ \A q \in Slots : q # s => state'[q] = state[q]
           /\ \A q \in Slots : /\ state'[q].env = state[q].env
                               /\ state'[q].dbi_lock = state[q].dbi_lock
<1>1. PICK r \in SlotState : state[s] = r
  BY DEF IInv, TypeOK
<1>2. [r EXCEPT !.refcnt = n] \in SlotState
  BY DEF SlotState
<1>3. /\ state' = [state EXCEPT ![s] = [r EXCEPT !.refcnt = n]]
      /\ state'[s] = [r EXCEPT !.refcnt = n]
      /\ \A q \in Slots : q # s => state'[q] = state[q]
  BY <1>1 DEF IInv, TypeOK
<1>4. state' \in [Slots -> SlotState]
  BY <1>2, <1>3 DEF IInv, TypeOK
<1>5. /\ state'[s].refcnt = n
      /\ state'[s].env = state[s].env
      /\ state'[s].dbi_lock = state[s].dbi_lock
  BY <1>1, <1>3 DEF SlotState
<1> QED
  BY <1>3, <1>4, <1>5, Zenon

\* A shared open counts itself and copies what the slot records.
LEMMA ShareEnvInv ==
    ASSUME IInv, NEW t \in Threads, ShareEnv(t)
    PROVE  IInv'
<1>1. call[t].at = "locked"
  BY DEF ShareEnv
<1>2. PICK s \in Slots, p \in Paths, h \in Handles :
         /\ s = call[t].slot /\ p = call[t].key /\ h = call[t].new
         /\ pool[p] = s /\ ~Live(h)
  BY <1>1, OwnedCall, NewEnv
<1>3. /\ state[s].env # NoEnv
      /\ state' = [state EXCEPT ![s].refcnt = @ + 1]
      /\ handle' = [handle EXCEPT ![h] =
                      [key |-> p, slot |-> s, env |-> state[s].env,
                       dbi_lock |-> state[s].dbi_lock]]
      /\ UNCHANGED <<pool, made, mdb>>
  BY <1>2 DEF ShareEnv, Counted, SharedLock
<1>4. PICK r \in SlotState : state[s] = r
  BY DEF IInv, TypeOK
<1>5. PICK env \in Env :
         /\ env.key = p /\ env.slot = s
         /\ env.env = state[s].env /\ env.dbi_lock = state[s].dbi_lock
         /\ handle' = [handle EXCEPT ![h] = env]
  <2>1. r.env \in Envs /\ r.dbi_lock \in DbiLocks
    BY <1>3, <1>4 DEF IInv, SlotInv, SlotState
  <2>2. [key |-> p, slot |-> s, env |-> r.env, dbi_lock |-> r.dbi_lock] \in Env
    BY <2>1 DEF Env
  <2> QED
    BY <1>3, <1>4, <2>2, Zenon
<1>6. /\ state' \in [Slots -> SlotState]
      /\ state[s].refcnt \in Nat /\ state'[s].refcnt = state[s].refcnt + 1
      /\ \A q \in Slots : q # s => state'[q] = state[q]
      /\ \A q \in Slots : /\ state'[q].env = state[q].env
                          /\ state'[q].dbi_lock = state[q].dbi_lock
  <2>1. state[s].refcnt \in Nat /\ state[s].refcnt + 1 \in Nat
    BY <1>4 DEF SlotState
  <2> QED
    BY <1>3, <2>1, NewCount, Zenon
<1>7. /\ call' = [call EXCEPT ![t] = Idle]
      /\ owner' = [owner EXCEPT ![s] = NoThread]
  BY <1>2 DEF ShareEnv, Return, Unlock
<1>8. /\ call' \in [Threads -> Call]
      /\ owner' \in [Slots -> Threads \cup {NoThread}]
      /\ PoolInv' /\ CallInv' /\ OwnerInv' /\ NewInv'
  BY <1>1, <1>2, <1>3, <1>7, ReturnInv, Zenon DEF IInv, TypeOK
<1>b. call[t].slot = s
  BY <1>2
<1>9. CreatedInv' /\ ClosingInv' /\ CountInv'
  <2>1. state'[call[t].slot].refcnt # 0
    BY <1>b, <1>6
  <2>2. \A q \in Slots : q # call[t].slot => state'[q] = state[q]
    BY <1>b, <1>6
  <2>3. \A e \in Envs : mdb'[e] = Created <=>
           mdb[e] = Created /\ ~(call[t].at = "created" /\ call[t].env = e)
    BY <1>1, <1>3
  <2>4. owner' = [owner EXCEPT ![call[t].slot] = NoThread]
    BY DEF ShareEnv, Unlock
  <2> QED
    BY <1>1, <1>7, <2>1, <2>2, <2>3, <2>4, ReturnOthersInv, Zenon
<1>10. handle' \in [Handles -> Env \cup {NoHandle}] /\ HandleInv'
  <2>1. \A g \in Handles : Live(g) => handle[g].slot \in Slots
    BY DEF IInv, TypeOK, Live, Env
  <2>2. \A g \in Handles : Live(g) =>
           /\ state'[handle[g].slot].env = state[handle[g].slot].env
           /\ state'[handle[g].slot].dbi_lock = state[handle[g].slot].dbi_lock
    BY <1>6, <2>1
  <2>3. /\ env.slot = pool[env.key]
        /\ env.env = state'[env.slot].env
        /\ env.dbi_lock = state'[env.slot].dbi_lock
    BY <1>2, <1>5, <1>6
  <2> QED
    BY <1>2, <1>3, <1>5, <2>2, <2>3, NewHandleInv, Zenon
<1>11. TypeOK'
  BY <1>3, <1>6, <1>8, <1>10 DEF IInv, TypeOK
<1>12. SlotInv' /\ OpenInv'
  <2>1. SlotInv'
    BY <1>3, <1>6 DEF IInv, SlotInv
  <2>2. OpenInv'
    BY <1>3, <1>6 DEF IInv, OpenInv
  <2> QED
    BY <2>1, <2>2
<1>13. RefcntIsHandles'
  <2>1. /\ Cardinality(HandlesOn(s)') = Cardinality(HandlesOn(s)) + 1
        /\ \A q \in Slots : q # s => HandlesOn(q)' = HandlesOn(q)
    <3>1. handle \in [Handles -> Env \cup {NoHandle}]
      BY DEF IInv, TypeOK
    <3> QED
      BY <1>2, <1>5, <3>1, HandleAdded, Zenon
  <2> QED
    BY <1>6, <2>1 DEF IInv, RefcntIsHandles
<1> QED
  BY <1>8, <1>9, <1>10, <1>11, <1>12, <1>13 DEF IInv

\* mdb_env_create gives the opener an address of its own.
LEMMA CreateEnvInv ==
    ASSUME IInv, NEW t \in Threads, CreateEnv(t)
    PROVE  IInv'
<1> USE DEF CreateEnv, Live
<1>1. PICK e \in Envs :
         /\ mdb[e] = Free
         /\ mdb' = [mdb EXCEPT ![e] = Created]
         /\ call' = [call EXCEPT ![t] =
                        [@ EXCEPT !.at = "created", !.env = e]]
  BY Zenon DEF CreateEnv
<1>2. TypeOK'
  <2>1. mdb' \in [Envs -> EnvState]
    BY <1>1 DEF IInv, TypeOK, EnvState
  <2>2. call' \in [Threads -> Call]
    <3>1. PICK c \in Call : c = call[t]
      BY DEF IInv, TypeOK
    <3>2. [c EXCEPT !.at = "created", !.env = e] \in Call
      BY Zenon DEF Call
    <3> QED
      BY <1>1, <3>1, <3>2 DEF IInv, TypeOK
  <2> QED
    BY <2>1, <2>2 DEF IInv, TypeOK
<1>3. PoolInv' /\ CallInv' /\ OwnerInv' /\ NewInv'
  BY <1>1 DEF IInv, TypeOK, PoolInv, CallInv, OwnerInv, NewInv, Call, Idle
<1>4. CreatedInv' /\ ClosingInv' /\ CountInv'
  BY <1>1 DEF IInv, TypeOK, CallInv, CreatedInv, ClosingInv, CountInv,
              OwnerInv, Call, Free, Created
<1>5. HandleInv' /\ SlotInv' /\ OpenInv'
  BY <1>1 DEF IInv, TypeOK, HandleInv, SlotInv, OpenInv, Free, Created, OpenAt
<1>6. RefcntIsHandles'
  BY DEF IInv, RefcntIsHandles, HandlesOn
<1> QED
  BY <1>2, <1>3, <1>4, <1>5, <1>6 DEF IInv

\* A failed mdb_env_create leaves the slot as it was.
LEMMA CreateFailsInv ==
    ASSUME IInv, NEW t \in Threads, CreateFails(t)
    PROVE  IInv'
<1>1. /\ call[t].at = "locked"
      /\ state[call[t].slot].env = NoEnv
      /\ call' = [call EXCEPT ![t] = Idle]
      /\ owner' = [owner EXCEPT ![call[t].slot] = NoThread]
      /\ UNCHANGED <<pool, made, state, handle, mdb>>
  BY DEF CreateFails, Return, Unlock
<1>2. /\ call' \in [Threads -> Call]
      /\ owner' \in [Slots -> Threads \cup {NoThread}]
      /\ PoolInv' /\ CallInv' /\ OwnerInv' /\ NewInv'
  BY <1>1, ReturnInv, Zenon
<1>3. CreatedInv' /\ ClosingInv' /\ CountInv'
  BY <1>1, ReturnOthersInv, Zenon
<1>4. TypeOK'
  BY <1>1, <1>2 DEF IInv, TypeOK
<1>5. HandleInv' /\ SlotInv' /\ OpenInv'
  BY <1>1, Zenon DEF IInv, HandleInv, SlotInv, OpenInv, Live
<1>6. RefcntIsHandles'
  BY <1>1 DEF IInv, RefcntIsHandles, HandlesOn, Live
<1> QED
  BY <1>2, <1>3, <1>4, <1>5, <1>6 DEF IInv

\* The environment mdb_env_create handed to a call is in no slot.
LEMMA CreatedEnv ==
    ASSUME IInv, NEW t \in Threads, call[t].at = "created"
    PROVE  /\ call[t].env \in Envs /\ mdb[call[t].env] = Created
           /\ state[call[t].slot].env = NoEnv
           /\ \A s \in Slots : state[s].env # call[t].env
<1>1. /\ call[t].env \in Envs /\ mdb[call[t].env] = Created
      /\ state[call[t].slot].env = NoEnv
  BY DEF IInv, CreatedInv
<1>2. ASSUME NEW s \in Slots, state[s].env = call[t].env
      PROVE  FALSE
  <2>1. mdb[state[s].env] = OpenAt(mdb[state[s].env].dir)
    BY <1>1, <1>2, PoolAssumption DEF IInv, SlotInv
  <2> QED
    BY <1>1, <1>2, <2>1, EnvStatesDiffer
<1> QED
  BY <1>1, <1>2

\* What a successful open does, with its values named.
LEMMA OpenEnvFacts ==
    ASSUME IInv, NEW t \in Threads, OpenEnv(t)
    PROVE  \E s \in Slots, e \in Envs, p \in Paths, h \in Handles,
              l \in DbiLocks :
              /\ s = call[t].slot /\ e = call[t].env
              /\ p = call[t].key /\ h = call[t].new
              /\ pool[p] = s /\ ~Live(h)
              /\ mdb' = [mdb EXCEPT ![e] = OpenAt(p)]
              /\ state' = [state EXCEPT ![s] =
                             [env |-> e, refcnt |-> 1, dbi_lock |-> l]]
              /\ handle' = [handle EXCEPT ![h] =
                              [key |-> p, slot |-> s, env |-> e,
                               dbi_lock |-> l]]
              /\ call' = [call EXCEPT ![t] = Idle]
              /\ owner' = [owner EXCEPT ![s] = NoThread]
              /\ UNCHANGED <<pool, made>>
<1>1. call[t].at = "created"
  BY Zenon DEF OpenEnv
<1>2. /\ call[t].slot \in Slots /\ call[t].env \in Envs
      /\ call[t].key \in Paths /\ call[t].new \in Handles
      /\ pool[call[t].key] = call[t].slot /\ ~Live(call[t].new)
  BY <1>1, OwnedCall, NewEnv, CreatedEnv
<1>3. PICK l \in DbiLocks :
         /\ state' = [state EXCEPT ![call[t].slot] =
                        [env |-> call[t].env, refcnt |-> 1, dbi_lock |-> l]]
         /\ handle' = [handle EXCEPT ![call[t].new] =
                         [key |-> call[t].key, slot |-> call[t].slot,
                          env |-> call[t].env, dbi_lock |-> l]]
  BY Zenon DEF OpenEnv
<1>4. /\ mdb' = [mdb EXCEPT ![call[t].env] = OpenAt(call[t].key)]
      /\ call' = [call EXCEPT ![t] = Idle]
      /\ owner' = [owner EXCEPT ![call[t].slot] = NoThread]
      /\ UNCHANGED <<pool, made>>
  BY DEF OpenEnv, Return, Unlock
<1> QED
  BY <1>2, <1>3, <1>4, Zenon

\* A successful open fills an empty slot with one counted Env.
LEMMA OpenEnvInv ==
    ASSUME IInv, NEW t \in Threads, OpenEnv(t)
    PROVE  IInv'
<1>1. call[t].at = "created"
  BY DEF OpenEnv
<1>2. PICK s \in Slots, e \in Envs, p \in Paths, h \in Handles, l \in DbiLocks :
         /\ s = call[t].slot /\ e = call[t].env
         /\ p = call[t].key /\ h = call[t].new
         /\ pool[p] = s /\ ~Live(h)
         /\ mdb' = [mdb EXCEPT ![e] = OpenAt(p)]
         /\ state' = [state EXCEPT ![s] =
                        [env |-> e, refcnt |-> 1, dbi_lock |-> l]]
         /\ handle' = [handle EXCEPT ![h] =
                         [key |-> p, slot |-> s, env |-> e, dbi_lock |-> l]]
         /\ call' = [call EXCEPT ![t] = Idle]
         /\ owner' = [owner EXCEPT ![s] = NoThread]
         /\ UNCHANGED <<pool, made>>
  BY OpenEnvFacts
<1>a. /\ s = call[t].slot /\ e = call[t].env
      /\ pool[p] = s /\ ~Live(h) /\ UNCHANGED <<pool, made>>
  BY <1>2
<1>b. /\ call' = [call EXCEPT ![t] = Idle]
      /\ owner' = [owner EXCEPT ![call[t].slot] = NoThread]
  BY <1>2
<1>3. PICK env \in Env :
         /\ env.key = p /\ env.slot = s /\ env.env = e /\ env.dbi_lock = l
         /\ handle' = [handle EXCEPT ![h] = env]
  <2>1. [key |-> p, slot |-> s, env |-> e, dbi_lock |-> l] \in Env
    BY DEF Env
  <2> QED
    BY <1>2, <2>1, Zenon
<1>4. /\ state'[s].env = e /\ state'[s].refcnt = 1 /\ state'[s].dbi_lock = l
      /\ \A q \in Slots : q # s => state'[q] = state[q]
  BY <1>2 DEF IInv, TypeOK
<1>5. /\ mdb'[e] = OpenAt(p) /\ OpenAt(p).dir = p /\ OpenAt(p) # Created
      /\ \A f \in Envs : f # e => mdb'[f] = mdb[f]
  BY <1>2, EnvStatesDiffer, Zenon DEF IInv, TypeOK
<1>6. state[s].env = NoEnv /\ \A q \in Slots : state[q].env # e
  BY <1>1, <1>a, CreatedEnv, Zenon
<1>7. \A g \in Handles : Live(g) => handle[g].slot \in Slots /\ handle[g].slot # s
  <2>1. ASSUME NEW g \in Handles, Live(g)
        PROVE  handle[g].slot \in Slots /\ handle[g].env \in Envs
    BY <2>1 DEF IInv, TypeOK, Live, Env
  <2> QED
    BY <1>6, <2>1, PoolAssumption, Zenon DEF IInv, HandleInv
<1>8. /\ call' \in [Threads -> Call]
      /\ owner' \in [Slots -> Threads \cup {NoThread}]
      /\ PoolInv' /\ CallInv' /\ OwnerInv' /\ NewInv'
  <2>1. \A g \in Handles : g # call[t].new => handle'[g] = handle[g]
    BY <1>2, <1>3 DEF IInv, TypeOK
  <2> QED
    BY <1>1, <1>a, <1>b, <2>1, ReturnInv, Zenon
<1>9. CreatedInv' /\ ClosingInv' /\ CountInv'
  <2>1. state'[call[t].slot].refcnt # 0
    BY <1>a, <1>4
  <2>2. \A q \in Slots : q # call[t].slot => state'[q] = state[q]
    BY <1>a, <1>4
  <2>3. \A f \in Envs : mdb'[f] = Created <=>
           mdb[f] = Created /\ ~(call[t].at = "created" /\ call[t].env = f)
    BY <1>1, <1>a, <1>5
  <2> QED
    BY <1>1, <1>b, <2>1, <2>2, <2>3, ReturnOthersInv, Zenon
<1>10. handle' \in [Handles -> Env \cup {NoHandle}] /\ HandleInv'
  <2>1. \A g \in Handles : Live(g) =>
           /\ state'[handle[g].slot].env = state[handle[g].slot].env
           /\ state'[handle[g].slot].dbi_lock = state[handle[g].slot].dbi_lock
    BY <1>4, <1>7
  <2>2. /\ env.slot = pool[env.key]
        /\ env.env = state'[env.slot].env
        /\ env.dbi_lock = state'[env.slot].dbi_lock
    BY <1>a, <1>3, <1>4
  <2> QED
    BY <1>a, <1>3, <2>1, <2>2, NewHandleInv, Zenon
<1>11. TypeOK'
  <2>1. state' \in [Slots -> SlotState]
    BY <1>2 DEF IInv, TypeOK, SlotState
  <2>2. mdb' \in [Envs -> EnvState]
    BY <1>2 DEF IInv, TypeOK, EnvState
  <2> QED
    BY <1>a, <1>8, <1>10, <2>1, <2>2 DEF IInv, TypeOK
<1>12. SlotInv'
  <2> SUFFICES ASSUME NEW q \in Slots, state'[q].env # NoEnv
               PROVE  /\ mdb'[state'[q].env].dir \in Paths
                      /\ mdb'[state'[q].env] = OpenAt(mdb'[state'[q].env].dir)
                      /\ pool'[mdb'[state'[q].env].dir] = q
                      /\ state'[q].dbi_lock \in DbiLocks
    BY DEF SlotInv, OpenAt
  <2>1. CASE q = s
    BY <1>a, <1>4, <1>5, <2>1, Zenon
  <2>2. CASE q # s
    <3>1. state'[q] = state[q] /\ state[q].env \in Envs /\ state[q].env # e
      BY <1>4, <1>6, <2>2 DEF IInv, TypeOK, SlotState
    <3> QED
      BY <1>a, <1>5, <3>1 DEF IInv, SlotInv
  <2> QED
    BY <2>1, <2>2
<1>13. OpenInv'
  <2> SUFFICES ASSUME NEW f \in Envs, NEW q \in Paths, mdb'[f] = OpenAt(q)
               PROVE  pool'[q] \in Slots /\ state'[pool'[q]].env = f
    BY DEF OpenInv, OpenAt
  <2>1. CASE f = e
    <3>1. OpenAt(q) = OpenAt(p)
      BY <1>5, <2>1
    <3>2. q = p
      BY <3>1, EnvStatesDiffer
    <3> QED
      BY <1>a, <1>4, <2>1, <3>2
  <2>2. CASE f # e
    <3>1. pool[q] \in Slots /\ state[pool[q]].env = f
      BY <1>5, <2>2 DEF IInv, OpenInv
    <3>2. pool[q] # s
      BY <1>6, <3>1, PoolAssumption
    <3> QED
      BY <1>a, <1>4, <3>1, <3>2
  <2> QED
    BY <2>1, <2>2
<1>14. RefcntIsHandles'
  <2>1. /\ Cardinality(HandlesOn(s)') = Cardinality(HandlesOn(s)) + 1
        /\ \A q \in Slots : q # s => HandlesOn(q)' = HandlesOn(q)
    <3>1. handle \in [Handles -> Env \cup {NoHandle}]
      BY DEF IInv, TypeOK
    <3> QED
      BY <1>a, <1>3, <3>1, HandleAdded, Zenon
  <2>2. Cardinality(HandlesOn(s)) = 0
    <3>1. HandlesOn(s) = {}
      BY <1>7 DEF HandlesOn
    <3> QED
      BY <3>1, FS_EmptySet
  <2> QED
    BY <1>4, <2>1, <2>2 DEF IInv, RefcntIsHandles
<1> QED
  BY <1>8, <1>9, <1>10, <1>11, <1>12, <1>13, <1>14 DEF IInv

\* A failed open frees its address and leaves the slot empty.
LEMMA OpenFailsInv ==
    ASSUME IInv, NEW t \in Threads, OpenFails(t)
    PROVE  IInv'
<1>1. /\ call[t].at = "created"
      /\ mdb' = [mdb EXCEPT ![call[t].env] = Free]
      /\ call' = [call EXCEPT ![t] = Idle]
      /\ owner' = [owner EXCEPT ![call[t].slot] = NoThread]
      /\ UNCHANGED <<pool, made, state, handle>>
  BY DEF OpenFails, Return, Unlock
<1>2. PICK e \in Envs :
         /\ e = call[t].env /\ mdb'[e] = Free /\ Free # Created
         /\ \A f \in Envs : f # e => mdb'[f] = mdb[f]
         /\ \A q \in Slots : state[q].env # e
  BY <1>1, CreatedEnv, Zenon DEF IInv, TypeOK, Free, Created
<1>3. /\ call' \in [Threads -> Call]
      /\ owner' \in [Slots -> Threads \cup {NoThread}]
      /\ PoolInv' /\ CallInv' /\ OwnerInv' /\ NewInv'
  BY <1>1, ReturnInv, Zenon
<1>4. CreatedInv' /\ ClosingInv' /\ CountInv'
  <2>1. state'[call[t].slot].env = NoEnv
    BY <1>1, CreatedEnv, Zenon
  <2>2. \A f \in Envs : mdb'[f] = Created <=>
           mdb[f] = Created /\ ~(call[t].at = "created" /\ call[t].env = f)
    BY <1>1, <1>2
  <2> QED
    BY <1>1, <2>1, <2>2, ReturnOthersInv, Zenon
<1>5. TypeOK'
  <2>1. mdb' \in [Envs -> EnvState]
    BY <1>1, Zenon DEF IInv, TypeOK, EnvState
  <2> QED
    BY <1>1, <1>3, <2>1 DEF IInv, TypeOK
<1>6. HandleInv'
  BY <1>1, Zenon DEF IInv, HandleInv, Live
<1>7. SlotInv'
  <2>1. \A q \in Slots : state[q].env # NoEnv =>
           mdb'[state[q].env] = mdb[state[q].env]
    BY <1>2, Zenon DEF IInv, TypeOK, SlotState
  <2>2. state' = state /\ pool' = pool /\ SlotInv
    BY <1>1 DEF IInv
  <2> QED
    BY <2>1, <2>2, Zenon DEF SlotInv
<1>8. OpenInv'
  <2>1. ASSUME NEW f \in Envs, NEW p \in Paths, mdb'[f] = OpenAt(p)
        PROVE  mdb[f] = OpenAt(p)
    BY <1>2, <2>1, EnvStatesDiffer
  <2> QED
    BY <1>1, <2>1, Zenon DEF IInv, OpenInv
<1>9. RefcntIsHandles'
  BY <1>1, Zenon DEF IInv, RefcntIsHandles, HandlesOn, Live
<1> QED
  BY <1>3, <1>4, <1>5, <1>6, <1>7, <1>8, <1>9 DEF IInv

-----------------------------------------------------------------------------
(* One lemma per action of clone and drop: each preserves IInv. *)

\* A clone counts itself on the slot of its original.
LEMMA CloneEnvInv ==
    ASSUME IInv, NEW t \in Threads, NEW h \in Handles, NEW new \in Handles,
           CloneEnv(t, h, new)
    PROVE  IInv'
<1>1. PICK env \in Env : env = handle[h] /\ Live(h)
  BY DEF CloneEnv, IInv, TypeOK, Live
<1>2. PICK s \in Slots :
         /\ s = env.slot /\ s = pool[env.key] /\ owner[s] = NoThread
         /\ env.env = state[s].env /\ env.dbi_lock = state[s].dbi_lock
  BY <1>1 DEF CloneEnv, Unlocked, IInv, HandleInv, Env
<1>3. /\ ~Live(new) /\ \A u \in Threads : call[u].new # new
      /\ state' = [state EXCEPT ![s].refcnt = @ + 1]
      /\ handle' = [handle EXCEPT ![new] = env]
      /\ UNCHANGED <<pool, made, owner, mdb, call>>
  BY <1>1, <1>2 DEF CloneEnv, Unused, Counted
<1>a. /\ handle' = [handle EXCEPT ![new] = env] /\ UNCHANGED pool
      /\ ~Live(new)
  BY <1>3
<1>5. /\ state' \in [Slots -> SlotState]
      /\ state[s].refcnt \in Nat /\ state'[s].refcnt = state[s].refcnt + 1
      /\ \A q \in Slots : q # s => state'[q] = state[q]
      /\ \A q \in Slots : /\ state'[q].env = state[q].env
                          /\ state'[q].dbi_lock = state[q].dbi_lock
  <2>1. state[s].refcnt \in Nat /\ state[s].refcnt + 1 \in Nat
    BY DEF IInv, TypeOK, SlotState
  <2> QED
    BY <1>3, <2>1, NewCount, Zenon
<1>6. handle' \in [Handles -> Env \cup {NoHandle}] /\ HandleInv'
  <2>1. \A g \in Handles : Live(g) => handle[g].slot \in Slots
    BY DEF IInv, TypeOK, Live, Env
  <2>2. \A g \in Handles : Live(g) =>
           /\ state'[handle[g].slot].env = state[handle[g].slot].env
           /\ state'[handle[g].slot].dbi_lock = state[handle[g].slot].dbi_lock
    BY <1>5, <2>1
  <2>3. /\ env.slot = pool[env.key]
        /\ env.env = state'[env.slot].env
        /\ env.dbi_lock = state'[env.slot].dbi_lock
    BY <1>2, <1>5
  <2> QED
    BY <1>a, <2>2, <2>3, NewHandleInv, Zenon
<1>7. TypeOK'
  BY <1>3, <1>5, <1>6 DEF IInv, TypeOK
<1>8. PoolInv' /\ OwnerInv' /\ NewInv'
  BY <1>3 DEF IInv, PoolInv, OwnerInv, NewInv
<1>9. CallInv'
  <2>1. \A g \in Handles : g # new => handle'[g] = handle[g]
    BY <1>3 DEF IInv, TypeOK
  <2> QED
    BY <1>3, <2>1 DEF IInv, CallInv, Live
\* The threads past a lock are on other slots.
<1>10. \A u \in Threads : call[u].at \in {"created", "closing"} =>
          state'[call[u].slot] = state[call[u].slot]
  <2>1. \A u \in Threads : owner[s] # u
    BY <1>2, PoolAssumption
  <2>2. \A u \in Threads : call[u].at \in {"created", "closing"} =>
           call[u].slot \in Slots /\ owner[call[u].slot] = u
    BY OwnedCall
  <2>3. \A q \in Slots : q # s => state'[q] = state[q]
    BY <1>5
  <2> QED
    BY <2>1, <2>2, <2>3
<1>b. UNCHANGED <<owner, mdb, call>>
  BY <1>3
<1>11. CreatedInv'
  <2>1. CreatedInv
    BY DEF IInv
  <2> QED
    BY <1>b, <1>10, <2>1 DEF CreatedInv
<1>12. ClosingInv'
  <2>1. ClosingInv
    BY DEF IInv
  <2> QED
    BY <1>b, <1>10, <2>1 DEF ClosingInv
<1>13. CountInv'
  BY <1>b, <1>5 DEF IInv, CountInv
<1>14. SlotInv' /\ OpenInv'
  <2>1. SlotInv'
    BY <1>3, <1>5 DEF IInv, SlotInv
  <2>2. OpenInv'
    BY <1>3, <1>5 DEF IInv, OpenInv
  <2> QED
    BY <2>1, <2>2
<1>15. RefcntIsHandles'
  <2>1. handle \in [Handles -> Env \cup {NoHandle}]
    BY DEF IInv, TypeOK
  <2>2. /\ Cardinality(HandlesOn(s)') = Cardinality(HandlesOn(s)) + 1
        /\ \A q \in Slots : q # s => HandlesOn(q)' = HandlesOn(q)
    BY <1>2, <1>a, <2>1, HandleAdded, Zenon
  <2> QED
    BY <1>5, <2>2 DEF IInv, RefcntIsHandles
<1> QED
  BY <1>6, <1>7, <1>8, <1>9, <1>11, <1>12, <1>13, <1>14, <1>15 DEF IInv

\* A drop lowers the count, and the last one keeps the slot lock.
LEMMA DropEnvInv ==
    ASSUME IInv, NEW t \in Threads, NEW h \in Handles, DropEnv(t, h)
    PROVE  IInv'
<1>1. PICK env \in Env : env = handle[h] /\ Live(h) /\ call[t].at = "idle"
  BY DEF DropEnv, IInv, TypeOK, Live
<1>2. PICK s \in Slots, e \in Envs, p \in Paths :
         /\ s = handle[h].slot /\ e = handle[h].env /\ p = handle[h].key
         /\ pool[p] = s /\ state[s].env = e /\ owner[s] = NoThread
  BY <1>1 DEF DropEnv, Unlocked, IInv, HandleInv, Env
<1>3. /\ state' = [state EXCEPT ![s].refcnt = @ - 1]
      /\ handle' = [handle EXCEPT ![h] = NoHandle]
      /\ UNCHANGED <<pool, made, mdb>>
  BY <1>2 DEF DropEnv
<1>4. \/ state[s].refcnt # 1 /\ UNCHANGED <<owner, call>>
      \/ /\ state[s].refcnt = 1
         /\ owner' = [owner EXCEPT ![s] = t]
         /\ call' = [call EXCEPT ![t] =
                       [at |-> "closing", key |-> p, slot |-> s, env |-> e,
                        new |-> NoHandle]]
  BY <1>2 DEF DropEnv, LastEnv, KeepLock
<1>5. state[s].refcnt \in Nat /\ state[s].refcnt # 0
  <2>1. state[s].refcnt \in Nat
    BY DEF IInv, TypeOK, SlotState
  <2> QED
    BY <1>1, <1>2, <2>1, NoCountNoHandle, Zenon DEF IInv
<1>6. /\ state' \in [Slots -> SlotState]
      /\ state'[s].refcnt = state[s].refcnt - 1
      /\ \A q \in Slots : q # s => state'[q] = state[q]
      /\ \A q \in Slots : /\ state'[q].env = state[q].env
                          /\ state'[q].dbi_lock = state[q].dbi_lock
  <2>1. state[s].refcnt - 1 \in Nat
    BY <1>5
  <2> QED
    BY <1>3, <2>1, NewCount, Zenon
<1>7. handle'[h] = NoHandle /\ \A g \in Handles : g # h => handle'[g] = handle[g]
  BY <1>3 DEF IInv, TypeOK
<1>8. \A u \in Threads : owner[s] # u
  BY <1>2, PoolAssumption
<1>9. TypeOK'
  <2>1. call' \in [Threads -> Call]
    BY <1>4 DEF IInv, TypeOK, Call
  <2>2. owner' \in [Slots -> Threads \cup {NoThread}]
    BY <1>4 DEF IInv, TypeOK
  <2>3. handle' \in [Handles -> Env \cup {NoHandle}]
    BY <1>3 DEF IInv, TypeOK
  <2> QED
    BY <1>3, <1>6, <2>1, <2>2, <2>3 DEF IInv, TypeOK
<1>10. PoolInv' /\ SlotInv' /\ OpenInv'
  <2>1. PoolInv'
    BY <1>3 DEF IInv, PoolInv
  <2>2. SlotInv'
    BY <1>3, <1>6 DEF IInv, SlotInv
  <2>3. OpenInv'
    BY <1>3, <1>6 DEF IInv, OpenInv
  <2> QED
    BY <2>1, <2>2, <2>3
<1>11. HandleInv'
  <2>1. ASSUME NEW g \in Handles, Live(g)'
        PROVE  Live(g) /\ handle'[g] = handle[g] /\ handle[g].slot \in Slots
    <3>1. Live(g) /\ handle'[g] = handle[g]
      BY <1>7, <2>1 DEF Live
    <3> QED
      BY <3>1, Zenon DEF IInv, TypeOK, Live, Env
  <2> QED
    BY <1>3, <1>6, <2>1 DEF IInv, HandleInv
<1>12. RefcntIsHandles'
  <2>1. handle \in [Handles -> Env \cup {NoHandle}]
    BY DEF IInv, TypeOK
  <2>2. /\ Cardinality(HandlesOn(s)') = Cardinality(HandlesOn(s)) - 1
        /\ \A q \in Slots : q # s => HandlesOn(q)' = HandlesOn(q)
    BY <1>1, <1>2, <1>3, <2>1, HandleRemoved, Zenon
  <2> QED
    BY <1>6, <2>2 DEF IInv, RefcntIsHandles
\* The threads past a lock are on other slots.
<1>13. \A u \in Threads : call[u].at \in {"locked", "created", "closing"} =>
          /\ u # t
          /\ call[u].slot \in Slots /\ call[u].slot # s
          /\ state'[call[u].slot] = state[call[u].slot]
  <2>1. \A u \in Threads : call[u].at \in {"locked", "created", "closing"} =>
           u # t /\ call[u].slot \in Slots /\ owner[call[u].slot] = u
    BY <1>1, OwnedCall
  <2> QED
    BY <1>6, <1>8, <2>1
<1>14. \A g \in Handles : ~Live(g) => handle'[g] = NoHandle
  BY <1>7 DEF Live
<1>a. UNCHANGED <<pool, mdb>>
  BY <1>3
<1>15. CASE state[s].refcnt # 1
  <2>1. UNCHANGED <<owner, call>>
    BY <1>4, <1>15, Zenon
  <2>2. CallInv'
    BY <1>a, <1>14, <2>1, Zenon DEF IInv, CallInv, Live
  <2>3. OwnerInv' /\ NewInv'
    BY <2>1 DEF IInv, OwnerInv, NewInv
  <2>4. CreatedInv'
    BY <1>a, <1>13, <2>1, Zenon DEF IInv, CreatedInv
  <2>5. ClosingInv'
    BY <1>13, <2>1, Zenon DEF IInv, ClosingInv
  <2>6. CountInv'
    <3>1. state'[s].refcnt = state[s].refcnt - 1
      BY <1>6, Zenon
    <3>2. state'[s].refcnt # 0
      BY <1>5, <1>15, <3>1
    <3> QED
      BY <1>6, <2>1, <3>2, Zenon DEF IInv, CountInv
  <2> QED
    BY <1>9, <1>10, <1>11, <1>12, <2>2, <2>3, <2>4, <2>5, <2>6 DEF IInv
<1>16. CASE state[s].refcnt = 1
  <2>1. /\ call'[t].at = "closing" /\ call'[t].key = p /\ call'[t].slot = s
        /\ call'[t].env = e /\ call'[t].new = NoHandle
        /\ \A u \in Threads : u # t => call'[u] = call[u]
    <3>1. DOMAIN call = Threads
      BY Zenon DEF IInv, TypeOK
    <3>2. call' = [call EXCEPT ![t] =
                     [at |-> "closing", key |-> p, slot |-> s, env |-> e,
                      new |-> NoHandle]]
      BY <1>4, <1>16, Zenon
    <3> QED
      BY <3>1, <3>2
  <2>2. owner'[s] = t /\ \A q \in Slots : q # s => owner'[q] = owner[q]
    <3>1. DOMAIN owner = Slots
      BY Zenon DEF IInv, TypeOK
    <3>2. owner' = [owner EXCEPT ![s] = t]
      BY <1>4, <1>16, Zenon
    <3> QED
      BY <3>1, <3>2
  <2>3. CallInv'
    <3>1. ASSUME NEW u \in Threads, u # t
          PROVE  /\ call[u].at = "idle" => call[u] = Idle
                 /\ call[u].at # "idle" =>
                       /\ call[u].key \in Paths
                       /\ call[u].slot \in Slots
                       /\ pool[call[u].key] = call[u].slot
                 /\ call[u].at \in {"wait", "locked", "created"} =>
                       call[u].new \in Handles /\ handle'[call[u].new] = NoHandle
                 /\ call[u].at \in {"locked", "created", "closing"} =>
                       owner'[call[u].slot] = u
                 /\ call[u].at = "closing" => call[u].new = NoHandle
      BY <1>13, <1>14, <2>2, Zenon DEF IInv, CallInv
    <3>2. /\ call'[t].at = "closing" /\ call'[t].key \in Paths
          /\ call'[t].slot \in Slots /\ pool'[call'[t].key] = call'[t].slot
          /\ owner'[call'[t].slot] = t /\ call'[t].new = NoHandle
      BY <1>2, <1>a, <2>1, <2>2, Zenon
    <3>3. pool' = pool
      BY <1>a, Zenon
    <3> QED
      BY <2>1, <3>1, <3>2, <3>3, Zenon DEF CallInv, Live
  <2>4. OwnerInv'
    <3>1. ASSUME NEW q \in Slots, q # s, owner'[q] # NoThread
          PROVE  owner'[q] = owner[q] /\ owner[q] \in Threads /\ owner[q] # t
      <4>1. owner'[q] = owner[q] /\ owner[q] \in Threads
        BY <2>2, <3>1 DEF IInv, TypeOK
      <4> QED
        BY <1>1, <3>1, <4>1, Zenon DEF IInv, OwnerInv
    <3>2. OwnerInv
      BY DEF IInv
    <3>3. ASSUME NEW q \in Slots, q # s, owner'[q] # NoThread
          PROVE  /\ call'[owner'[q]].at \in {"locked", "created", "closing"}
                 /\ call'[owner'[q]].slot = q
      <4>1. call'[owner'[q]] = call[owner[q]] /\ owner[q] # NoThread
        BY <2>1, <3>1, <3>3
      <4> QED
        BY <3>2, <3>3, <4>1, Zenon DEF OwnerInv
    <3>4. call'[owner'[s]].at = "closing" /\ call'[owner'[s]].slot = s
      BY <2>1, <2>2, Zenon
    <3> QED
      BY <3>3, <3>4, Zenon DEF OwnerInv
  <2>5. NewInv'
    BY <2>1, PoolAssumption DEF IInv, NewInv
  <2>6. CreatedInv'
    <3>1. \A u \in Threads : call'[u].at = "created" =>
             call'[u] = call[u] /\ state'[call[u].slot] = state[call[u].slot]
      BY <1>13, <2>1, Zenon
    <3>2. \A u \in Threads : call[u].at = "created" => call'[u] = call[u]
      BY <1>13, <2>1, Zenon
    <3>3. CreatedInv
      BY DEF IInv
    <3>4. /\ \A u \in Threads : call'[u].at = "created" =>
                call[u].at = "created" /\ call'[u].env = call[u].env
          /\ \A u \in Threads : call[u].at = "created" =>
                call'[u].at = "created" /\ call'[u].env = call[u].env
      BY <3>1, <3>2, Zenon
    <3>5. ASSUME NEW u \in Threads, call'[u].at = "created"
          PROVE  /\ call'[u].env \in Envs /\ mdb'[call'[u].env] = Created
                 /\ state'[call'[u].slot].env = NoEnv
      <4>1. call'[u] = call[u] /\ state'[call[u].slot] = state[call[u].slot]
        BY <3>1, <3>5
      <4> QED
        BY <1>a, <3>3, <3>5, <4>1 DEF CreatedInv
    <3>6. ASSUME NEW u \in Threads, NEW v \in Threads,
                 call'[u].at = "created", call'[v].at = "created",
                 call'[u].env = call'[v].env
          PROVE  u = v
      <4>1. /\ call[u].at = "created" /\ call[v].at = "created"
            /\ call[u].env = call[v].env
        BY <3>4, <3>6
      <4> QED
        BY <3>3, <4>1, Zenon DEF CreatedInv
    <3>7. ASSUME NEW f \in Envs, mdb'[f] = Created
          PROVE  \E u \in Threads :
                    call'[u].at = "created" /\ call'[u].env = f
      <4>1. PICK u \in Threads : call[u].at = "created" /\ call[u].env = f
        BY <1>a, <3>3, <3>7, Zenon DEF CreatedInv
      <4> QED
        BY <3>4, <4>1
    <3> QED
      BY <3>5, <3>6, <3>7, Zenon DEF CreatedInv
  <2>7. ClosingInv'
    <3>1. state'[s].env = e /\ state'[s].refcnt = 0
      <4>1. state'[s].env = e
        BY <1>2, <1>6, Zenon
      <4>2. state'[s].refcnt = state[s].refcnt - 1
        BY <1>6, Zenon
      <4> QED
        BY <1>16, <4>1, <4>2
    <3>2. \A u \in Threads : u # t /\ call'[u].at = "closing" =>
             call'[u] = call[u] /\ state'[call[u].slot] = state[call[u].slot]
      BY <1>13, <2>1, Zenon
    <3>3. ASSUME NEW u \in Threads, u # t, call'[u].at = "closing"
          PROVE  /\ call'[u].env \in Envs
                 /\ state'[call'[u].slot].env = call'[u].env
                 /\ state'[call'[u].slot].refcnt = 0
      BY <3>2, <3>3, Zenon DEF IInv, ClosingInv
    <3> QED
      BY <2>1, <3>1, <3>3, Zenon DEF ClosingInv
  <2>8. CountInv'
    <3>1. ASSUME NEW q \in Slots, q # s,
                 state'[q].env # NoEnv, state'[q].refcnt = 0
          PROVE  owner'[q] # NoThread /\ call'[owner'[q]].at = "closing"
      <4>1. /\ owner[q] # NoThread /\ call[owner[q]].at = "closing"
            /\ owner'[q] = owner[q]
        BY <1>6, <2>2, <3>1 DEF IInv, CountInv
      <4>2. owner[q] \in Threads /\ owner[q] # t
        BY <1>1, <3>1, <4>1 DEF IInv, TypeOK
      <4> QED
        BY <2>1, <4>1, <4>2, Zenon
    <3>2. owner'[s] # NoThread /\ call'[owner'[s]].at = "closing"
      BY <2>1, <2>2, PoolAssumption
    <3> QED
      BY <3>1, <3>2, Zenon DEF CountInv
  <2> QED
    BY <1>9, <1>10, <1>11, <1>12, <2>3, <2>4, <2>5, <2>6, <2>7, <2>8 DEF IInv
<1> QED
  BY <1>15, <1>16

\* The final close empties a slot that no Env is on.
LEMMA CloseEnvInv ==
    ASSUME IInv, NEW t \in Threads, CloseEnv(t)
    PROVE  IInv'
<1>1. call[t].at = "closing"
  BY DEF CloseEnv
<1>2. PICK s \in Slots, e \in Envs :
         /\ s = call[t].slot /\ e = call[t].env
         /\ state[s].env = e /\ state[s].refcnt = 0
  BY <1>1, OwnedCall DEF IInv, ClosingInv
<1>3. /\ mdb' = [mdb EXCEPT ![e] = Free]
      /\ state' = [state EXCEPT ![s].env = NoEnv]
      /\ call' = [call EXCEPT ![t] = Idle]
      /\ owner' = [owner EXCEPT ![call[t].slot] = NoThread]
      /\ UNCHANGED <<pool, made, handle>>
  BY <1>2 DEF CloseEnv, Return, Unlock
<1>4. /\ state' \in [Slots -> SlotState]
      /\ state'[s].env = NoEnv /\ state'[s].refcnt = 0
      /\ \A q \in Slots : q # s => state'[q] = state[q]
  BY <1>2, <1>3 DEF IInv, TypeOK, SlotState
<1>5. mdb'[e] = Free /\ \A f \in Envs : f # e => mdb'[f] = mdb[f]
  BY <1>3 DEF IInv, TypeOK
\* The environment was open, at the path of this slot and of no other.
<1>6. /\ mdb[e] = OpenAt(mdb[e].dir) /\ mdb[e].dir \in Paths
      /\ pool[mdb[e].dir] = s
      /\ \A q \in Slots : state[q].env = e => q = s
  BY <1>2, PoolAssumption, Zenon DEF IInv, SlotInv
<1>7. \A h \in Handles : Live(h) => handle[h].slot \in Slots /\ handle[h].slot # s
  <2>1. \A h \in Handles : Live(h) => handle[h].slot \in Slots
    BY DEF IInv, TypeOK, Live, Env
  <2> QED
    BY <1>2, <2>1, NoCountNoHandle, Zenon DEF IInv
<1>8. /\ call' \in [Threads -> Call]
      /\ owner' \in [Slots -> Threads \cup {NoThread}]
      /\ PoolInv' /\ CallInv' /\ OwnerInv' /\ NewInv'
  BY <1>1, <1>3, ReturnInv, Zenon
<1>9. CreatedInv' /\ ClosingInv' /\ CountInv'
  <2>1. state'[call[t].slot].env = NoEnv
    BY <1>2, <1>4
  <2>2. \A q \in Slots : q # call[t].slot => state'[q] = state[q]
    BY <1>2, <1>4
  <2>3. Free # Created /\ mdb[e] # Created
    BY <1>6, EnvStatesDiffer DEF Free, Created
  <2>4. \A f \in Envs : mdb'[f] = Created <=>
           mdb[f] = Created /\ ~(call[t].at = "created" /\ call[t].env = f)
    BY <1>1, <1>5, <2>3
  <2> QED
    BY <1>1, <1>3, <2>1, <2>2, <2>4, ReturnOthersInv, Zenon
<1>10. TypeOK'
  <2>1. mdb' \in [Envs -> EnvState]
    BY <1>3 DEF IInv, TypeOK, EnvState
  <2> QED
    BY <1>3, <1>4, <1>8, <2>1 DEF IInv, TypeOK
<1>11. HandleInv'
  <2>1. \A h \in Handles : Live(h)' => Live(h) /\ handle'[h] = handle[h]
    BY <1>3 DEF Live
  <2> QED
    BY <1>3, <1>4, <1>7, <2>1 DEF IInv, HandleInv
<1>12. SlotInv'
  <2>1. \A q \in Slots : state'[q].env # NoEnv =>
           /\ q # s /\ state'[q] = state[q]
           /\ mdb'[state[q].env] = mdb[state[q].env]
    <3>1. \A q \in Slots : state[q].env # NoEnv => state[q].env \in Envs
      BY DEF IInv, TypeOK, SlotState
    <3> QED
      BY <1>4, <1>5, <1>6, <3>1
  <2> QED
    BY <1>3, <2>1 DEF IInv, SlotInv
<1>13. OpenInv'
  <2> SUFFICES ASSUME NEW f \in Envs, NEW p \in Paths, mdb'[f] = OpenAt(p)
               PROVE  pool'[p] \in Slots /\ state'[pool'[p]].env = f
    BY DEF OpenInv, OpenAt
  <2>1. f # e /\ mdb[f] = OpenAt(p)
    BY <1>5, EnvStatesDiffer
  <2>2. pool[p] \in Slots /\ state[pool[p]].env = f
    BY <2>1 DEF IInv, OpenInv
  <2> QED
    BY <1>2, <1>3, <1>4, <2>1, <2>2
<1>14. RefcntIsHandles'
  <2>1. \A q \in Slots : /\ HandlesOn(q)' = HandlesOn(q)
                         /\ state'[q].refcnt = state[q].refcnt
    BY <1>2, <1>3, <1>4 DEF HandlesOn, Live
  <2> QED
    BY <2>1 DEF IInv, RefcntIsHandles
<1> QED
  BY <1>8, <1>9, <1>10, <1>11, <1>12, <1>13, <1>14 DEF IInv

-----------------------------------------------------------------------------
(* The theorems. *)

\* The empty pool satisfies IInv.
LEMMA InitInv == Init => IInv
<1> SUFFICES ASSUME Init PROVE IInv
  OBVIOUS
<1> USE DEF Init, Live
<1>1. TypeOK
  BY DEF TypeOK, EmptySlot, SlotState, EnvState, Call, Idle
<1>2. RefcntIsHandles
  BY FS_EmptySet DEF RefcntIsHandles, HandlesOn, EmptySlot
<1>3. PoolInv /\ CallInv /\ OwnerInv /\ NewInv /\ CreatedInv /\ ClosingInv
  <2>1. PoolInv
    BY PoolAssumption DEF PoolInv, Idle, Free, Created
  <2>2. CallInv
    BY PoolAssumption DEF CallInv, Idle, Free, Created
  <2>3. OwnerInv
    BY PoolAssumption DEF OwnerInv, Idle, Free, Created
  <2>4. NewInv
    BY PoolAssumption DEF NewInv, Idle, Free, Created
  <2>5. CreatedInv
    BY PoolAssumption DEF CreatedInv, Idle, Free, Created
  <2>6. ClosingInv
    BY PoolAssumption DEF ClosingInv, Idle, Free, Created
  <2> QED
    BY <2>1, <2>2, <2>3, <2>4, <2>5, <2>6
<1>4. HandleInv /\ SlotInv /\ OpenInv /\ CountInv
  <2>1. HandleInv
    BY EnvStatesDiffer DEF HandleInv, EmptySlot
  <2>2. SlotInv
    BY EnvStatesDiffer DEF SlotInv, EmptySlot
  <2>3. OpenInv
    BY EnvStatesDiffer DEF OpenInv, EmptySlot
  <2>4. CountInv
    BY EnvStatesDiffer DEF CountInv, EmptySlot
  <2> QED
    BY <2>1, <2>2, <2>3, <2>4
<1> QED
  BY <1>1, <1>2, <1>3, <1>4 DEF IInv

\* Every step of every thread preserves IInv.
LEMMA NextInv == IInv /\ [Next]_vars => IInv'
<1> SUFFICES ASSUME IInv, [Next]_vars PROVE IInv'
  OBVIOUS
<1>1. CASE UNCHANGED vars
  <2> USE <1>1 DEF vars, Live
  <2>1. TypeOK'
    BY DEF IInv, TypeOK
  <2>2. PoolInv' /\ CallInv' /\ OwnerInv' /\ NewInv'
    <3>1. PoolInv' /\ OwnerInv'
      BY Zenon DEF IInv, PoolInv, OwnerInv
    <3>2. CallInv'
      BY Zenon DEF IInv, CallInv
    <3>3. NewInv'
      BY Zenon DEF IInv, NewInv
    <3> QED
      BY <3>1, <3>2, <3>3, Zenon
  <2>3. CreatedInv' /\ ClosingInv' /\ CountInv'
    BY Zenon DEF IInv, CreatedInv, ClosingInv, CountInv
  <2>4. HandleInv' /\ SlotInv' /\ OpenInv'
    BY Zenon DEF IInv, HandleInv, SlotInv, OpenInv
  <2>5. RefcntIsHandles'
    BY DEF IInv, RefcntIsHandles, HandlesOn
  <2> QED
    BY <2>1, <2>2, <2>3, <2>4, <2>5 DEF IInv
<1>2. ASSUME NEW t \in Threads, NEW p \in Paths, NEW h \in Handles,
             FindSlot(t, p, h)
      PROVE  IInv'
  BY <1>2, FindSlotInv
<1>3. ASSUME NEW t \in Threads,
             \/ LockSlot(t) \/ ShareEnv(t) \/ CreateEnv(t) \/ CreateFails(t)
             \/ OpenEnv(t) \/ OpenFails(t) \/ CloseEnv(t)
      PROVE  IInv'
  BY <1>3, LockSlotInv, ShareEnvInv, CreateEnvInv, CreateFailsInv,
     OpenEnvInv, OpenFailsInv, CloseEnvInv
<1>4. ASSUME NEW t \in Threads, NEW h \in Handles, NEW new \in Handles,
             CloneEnv(t, h, new)
      PROVE  IInv'
  BY <1>4, CloneEnvInv
<1>5. ASSUME NEW t \in Threads, NEW h \in Handles, DropEnv(t, h)
      PROVE  IInv'
  BY <1>5, DropEnvInv
<1> QED
  BY <1>1, <1>2, <1>3, <1>4, <1>5 DEF Next

\* IInv holds throughout: the ownership argument behind the theorems below.
THEOREM Inductive == Spec => []IInv
BY InitInv, NextInv, PTL DEF Spec

\* No directory is ever open twice in the process: any number of threads may
\* race open_with, clone and drop on any number of paths.
THEOREM OneEnvPerPathHolds == Spec => []OneEnvPerPath
<1>1. IInv => OneEnvPerPath
  <2> SUFFICES ASSUME IInv, NEW e1 \in Envs, NEW e2 \in Envs,
                      mdb[e1].is = "open", mdb[e2] = mdb[e1]
               PROVE  e1 = e2
    BY DEF OneEnvPerPath
  <2>1. PICK p \in Paths : mdb[e1] = OpenAt(p)
    BY DEF IInv, TypeOK, EnvState, Free, Created
  <2> QED
    BY <2>1 DEF IInv, OpenInv
<1> QED
  BY <1>1, Inductive, PTL

\* An Env never outlives its MDB_env: the last drop alone closes it.
THEOREM HandlesValidHolds == Spec => []HandlesValid
<1>1. IInv => HandlesValid
  <2> SUFFICES ASSUME IInv, NEW h \in Handles, Live(h)
               PROVE  /\ mdb[handle[h].env] = OpenAt(handle[h].key)
                      /\ state[handle[h].slot].env = handle[h].env
    BY DEF HandlesValid
  <2>1. PICK env \in Env : env = handle[h]
    BY DEF IInv, TypeOK, Live
  <2>2. /\ env.slot \in Slots /\ env.key \in Paths
        /\ state[env.slot].env = env.env /\ env.env # NoEnv
        /\ pool[env.key] = env.slot
    BY <2>1, PoolAssumption, Zenon DEF IInv, HandleInv, Env
  <2>3. /\ mdb[env.env].dir \in Paths
        /\ mdb[env.env] = OpenAt(mdb[env.env].dir)
        /\ pool[mdb[env.env].dir] = env.slot
    BY <2>2, Zenon DEF IInv, SlotInv
  <2>4. mdb[env.env].dir = env.key
    BY <2>2, <2>3, PoolAssumption DEF IInv, PoolInv
  <2> QED
    BY <2>1, <2>2, <2>3, <2>4, Zenon
<1> QED
  BY <1>1, Inductive, PTL

\* The reference count of a slot is the number of live Envs on its path.
THEOREM RefcntIsHandlesHolds == Spec => []RefcntIsHandles
<1>1. IInv => RefcntIsHandles
  BY DEF IInv
<1> QED
  BY <1>1, Inductive, PTL

\* All Envs on one path are the same environment and serialise
\* mdb_dbi_open on the same lock.
THEOREM SharedEnvHolds == Spec => []SharedEnvAndDbiLock
<1>1. IInv => SharedEnvAndDbiLock
  <2> SUFFICES ASSUME IInv, NEW h1 \in Handles, NEW h2 \in Handles,
                      Live(h1), Live(h2), handle[h1].key = handle[h2].key
               PROVE  handle[h1] = handle[h2]
    BY DEF SharedEnvAndDbiLock
  <2>1. PICK a \in Env, b \in Env : a = handle[h1] /\ b = handle[h2]
    BY DEF IInv, TypeOK, Live
  <2>2. a.key = b.key /\ a.slot = b.slot /\ a.env = b.env
        /\ a.dbi_lock = b.dbi_lock
    BY <2>1 DEF IInv, HandleInv
  <2> QED
    BY <2>1, <2>2 DEF Env
<1> QED
  BY <1>1, Inductive, PTL

\* Every MDB_env that is not free is some Env's or some call's: a failed open
\* and the last drop close what they leave.
THEOREM NoEnvLeakedHolds == Spec => []NoEnvLeaked
<1>1. IInv => NoEnvLeaked
  <2> SUFFICES ASSUME IInv, NEW e \in Envs, mdb[e] # Free
               PROVE  \/ \E h \in Handles : Live(h) /\ handle[h].env = e
                      \/ \E t \in Threads :
                           /\ call[t].at \in {"created", "closing"}
                           /\ call[t].env = e
    BY DEF NoEnvLeaked
  <2>1. CASE mdb[e] = Created
    BY <2>1 DEF IInv, CreatedInv
  <2>2. ASSUME NEW p \in Paths, mdb[e] = OpenAt(p)
        PROVE  \/ \E h \in Handles : Live(h) /\ handle[h].env = e
               \/ \E t \in Threads : call[t].at = "closing" /\ call[t].env = e
    <3>1. pool[p] \in Slots /\ state[pool[p]].env = e
      BY <2>2 DEF IInv, OpenInv
    <3>2. CASE state[pool[p]].refcnt = 0
      <4>1. /\ owner[pool[p]] # NoThread
            /\ call[owner[pool[p]]].at = "closing"
        BY <2>2, <3>1, <3>2, PoolAssumption, Zenon DEF IInv, CountInv
      <4>2. owner[pool[p]] \in Threads /\ call[owner[pool[p]]].slot = pool[p]
        BY <3>1, <4>1 DEF IInv, TypeOK, OwnerInv
      <4> QED
        BY <3>1, <4>1, <4>2 DEF IInv, ClosingInv
    <3>3. CASE state[pool[p]].refcnt # 0
      <4>1. HandlesOn(pool[p]) # {}
        BY <3>1, <3>3, FS_EmptySet DEF IInv, RefcntIsHandles
      <4> QED
        BY <3>1, <4>1 DEF IInv, HandleInv, HandlesOn
    <3> QED
      BY <3>2, <3>3
  <2> QED
    BY <2>1, <2>2 DEF IInv, TypeOK, EnvState
<1> QED
  BY <1>1, Inductive, PTL



-----------------------------------------------------------------------------
(* The pool implements MdbEnvSpec. *)

\* The abstract directory of a handle is the key of its Env.
LEMMA OnFacts ==
    ASSUME IInv, NEW h \in Handles
    PROVE  /\ Live(h) => handle[h].key \in Paths /\ On[h] = handle[h].key
           /\ ~Live(h) <=> On[h] = NoPath
BY PoolAssumption DEF IInv, TypeOK, On, Live, Env

\* A slot whose environment is open and unlocked, or whose lock is held by an
\* open, has a live Env.
LEMMA CountedHasHandle ==
    ASSUME IInv, NEW s \in Slots, state[s].env # NoEnv,
           owner[s] = NoThread \/ call[owner[s]].at # "closing"
    PROVE  \E h \in Handles : Live(h) /\ handle[h].slot = s
<1>1. state[s].refcnt # 0
  BY DEF IInv, CountInv
<1>2. HandlesOn(s) # {}
  BY <1>1, FS_EmptySet DEF IInv, RefcntIsHandles
<1> QED
  BY <1>2 DEF HandlesOn

\* An Env on a path's slot is on that path.
LEMMA SlotKey ==
    ASSUME IInv, NEW h \in Handles, Live(h), NEW p \in Paths,
           pool[p] = handle[h].slot
    PROVE  On[h] = p
<1>1. handle[h].key \in Paths /\ handle[h].slot \in Slots
  BY DEF IInv, TypeOK, Env, Live
<1>2. handle[h].key = p
  BY <1>1, PoolAssumption DEF IInv, HandleInv, PoolInv
<1> QED
  BY <1>2, OnFacts

\* A new Env appears on its directory in the abstract state.
LEMMA OnAdded ==
    ASSUME NEW h \in Handles, NEW env \in Env,
           handle \in [Handles -> Env \cup {NoHandle}],
           handle' = [handle EXCEPT ![h] = env]
    PROVE  On' = [On EXCEPT ![h] = env.key]
BY NoHandleAssumption, Zenon DEF On, Live

\* A dropped Env leaves its directory in the abstract state.
LEMMA OnRemoved ==
    ASSUME NEW h \in Handles,
           handle \in [Handles -> Env \cup {NoHandle}],
           handle' = [handle EXCEPT ![h] = NoHandle]
    PROVE  On' = [On EXCEPT ![h] = NoPath]
BY Zenon DEF On, Live

\* A shared open is the abstract Share: another Env keeps the directory open.
LEMMA RefineShare ==
    ASSUME IInv, NEW t \in Threads, ShareEnv(t)
    PROVE  Abstract!Next
<1>1. PICK s \in Slots, p \in Paths, h \in Handles :
         /\ s = call[t].slot /\ p = call[t].key /\ h = call[t].new
         /\ pool[p] = s /\ owner[s] = t /\ ~Live(h)
  BY Zenon DEF ShareEnv, IInv, CallInv
<1>a. state[s].env # NoEnv /\ call[t].at # "closing"
  BY <1>1, Zenon DEF ShareEnv
<1>2. PICK env \in Env : env.key = p /\ handle' = [handle EXCEPT ![h] = env]
  <2> DEFINE env == [key |-> p, slot |-> s, env |-> state[s].env,
                     dbi_lock |-> state[s].dbi_lock]
  <2>1. state[s].env \in Envs
    BY <1>a DEF IInv, TypeOK, SlotState
  <2>2. state[s].dbi_lock \in DbiLocks
    BY <1>a, Zenon DEF IInv, SlotInv
  <2>3. env \in Env /\ env.key = p
    BY <2>1, <2>2 DEF Env
  <2>4. handle' = [handle EXCEPT ![h] = env]
    BY <1>1, Zenon DEF ShareEnv, SharedLock
  <2> QED
    BY <2>3, <2>4, Zenon
<1>3. \E other \in Handles : On[other] = p
  <2>1. PICK other \in Handles : Live(other) /\ handle[other].slot = s
    BY <1>1, <1>a, CountedHasHandle, Zenon
  <2>2. On[other] = p
    BY <1>1, <2>1, SlotKey, Zenon
  <2> QED
    BY <2>2
<1>4. On[h] = NoPath /\ On' = [On EXCEPT ![h] = p]
  <2>1. On[h] = NoPath
    BY <1>1, OnFacts, Zenon
  <2>2. On' = [On EXCEPT ![h] = env.key]
    BY <1>2, OnAdded, Zenon DEF IInv, TypeOK
  <2> QED
    BY <1>2, <2>1, <2>2
<1>5. UNCHANGED Opened
  BY Zenon DEF ShareEnv, Opened
<1> QED
  BY <1>3, <1>4, <1>5, Zenon DEF Abstract!Next, Abstract!Share

\* A successful open is the abstract Open of a closed directory.
LEMMA RefineOpen ==
    ASSUME IInv, NEW t \in Threads, OpenEnv(t)
    PROVE  Abstract!Next
<1>1. PICK s \in Slots, e \in Envs, p \in Paths, h \in Handles,
            l \in DbiLocks :
         /\ s = call[t].slot /\ e = call[t].env
         /\ p = call[t].key /\ h = call[t].new
         /\ pool[p] = s /\ ~Live(h)
         /\ mdb' = [mdb EXCEPT ![e] = OpenAt(p)]
         /\ state' = [state EXCEPT ![s] =
                        [env |-> e, refcnt |-> 1, dbi_lock |-> l]]
         /\ handle' = [handle EXCEPT ![h] =
                         [key |-> p, slot |-> s, env |-> e, dbi_lock |-> l]]
         /\ call' = [call EXCEPT ![t] = Idle]
         /\ owner' = [owner EXCEPT ![s] = NoThread]
         /\ UNCHANGED <<pool, made>>
  BY OpenEnvFacts, Zenon
<1>2. PICK env \in Env : env.key = p /\ handle' = [handle EXCEPT ![h] = env]
  BY <1>1, Zenon DEF Env
<1>a. /\ pool[p] = s /\ ~Live(h) /\ mdb' = [mdb EXCEPT ![e] = OpenAt(p)]
      /\ s = call[t].slot /\ e = call[t].env
  BY <1>1, Zenon
<1>b. mdb[e] = Created /\ state[s].env = NoEnv
  <2>1. call[t].at = "created"
    BY Zenon DEF OpenEnv
  <2>2. CreatedInv
    BY Zenon DEF IInv
  <2>3. mdb[call[t].env] = Created /\ state[call[t].slot].env = NoEnv
    BY <2>1, <2>2, Zenon DEF CreatedInv
  <2> QED
    BY <1>a, <2>3, Zenon
<1>3. On[h] = NoPath /\ On' = [On EXCEPT ![h] = p]
  <2>1. On[h] = NoPath
    BY <1>a, OnFacts, Zenon
  <2>2. On' = [On EXCEPT ![h] = env.key]
    BY <1>2, OnAdded, Zenon DEF IInv, TypeOK
  <2> QED
    BY <1>2, <2>1, <2>2
<1>4. p \notin Opened
  <2>1. \A f \in Envs : mdb[f] = OpenAt(p) => state[s].env = f
    BY <1>a, Zenon DEF IInv, OpenInv
  <2> QED
    BY <1>b, <2>1, PoolAssumption, Zenon DEF Opened
<1>5. Opened' = Opened \cup {p}
  <2>1. mdb \in [Envs -> EnvState]
    BY DEF IInv, TypeOK
  <2>2. mdb'[e] = OpenAt(p) /\ \A f \in Envs : f # e => mdb'[f] = mdb[f]
    BY <1>a, <2>1, Zenon
  <2>3. \A q \in Paths : OpenAt(p) = OpenAt(q) => q = p
    <3>1. OpenAt(p).dir = p /\ \A q \in Paths : OpenAt(q).dir = q
      BY EnvStatesDiffer
    <3> QED
      BY <3>1
  <2>4. \A q \in Paths : mdb[e] # OpenAt(q)
    BY <1>b, EnvStatesDiffer
  <2> QED
    BY <2>2, <2>3, <2>4, Zenon DEF Opened
<1> QED
  BY <1>3, <1>4, <1>5, Zenon DEF Abstract!Next, Abstract!Open

\* A clone is the abstract Share.
LEMMA RefineClone ==
    ASSUME IInv, NEW t \in Threads, NEW h \in Handles, NEW new \in Handles,
           CloneEnv(t, h, new)
    PROVE  Abstract!Next
<1> USE DEF CloneEnv
<1>1. PICK env \in Env :
         env = handle[h] /\ handle' = [handle EXCEPT ![new] = env]
  BY Zenon DEF IInv, TypeOK, Live
<1>2. On[new] = NoPath /\ On[h] = env.key /\ On' = [On EXCEPT ![new] = env.key]
  BY <1>1, OnFacts, OnAdded, Zenon DEF IInv, TypeOK, Unused
<1>3. UNCHANGED Opened
  BY DEF Opened
<1> QED
  BY <1>2, <1>3, Zenon DEF Abstract!Next, Abstract!Share, Env

\* A drop, last or not, is the abstract Drop.
LEMMA RefineDrop ==
    ASSUME IInv, NEW t \in Threads, NEW h \in Handles, DropEnv(t, h)
    PROVE  Abstract!Next
<1> USE DEF DropEnv
<1>1. On[h] # NoPath /\ On' = [On EXCEPT ![h] = NoPath]
  BY OnFacts, OnRemoved, Zenon DEF IInv, TypeOK
<1>2. UNCHANGED Opened
  BY DEF Opened
<1> QED
  BY <1>1, <1>2, Zenon DEF Abstract!Next, Abstract!Drop

\* The final close is the abstract Close: no Env is left on the directory.
LEMMA RefineClose ==
    ASSUME IInv, NEW t \in Threads, CloseEnv(t)
    PROVE  Abstract!Next
<1> USE DEF CloseEnv
<1>1. PICK s \in Slots, e \in Envs, p \in Paths :
         /\ s = call[t].slot /\ e = call[t].env /\ p = call[t].key
         /\ pool[p] = s /\ state[s].env = e /\ state[s].refcnt = 0
  BY DEF IInv, CallInv, ClosingInv
<1>2. mdb[e] = OpenAt(p)
  BY <1>1, PoolAssumption DEF IInv, SlotInv, PoolInv
<1>3. \A h \in Handles : On[h] # p
  <2> SUFFICES ASSUME NEW h \in Handles, On[h] = p PROVE FALSE
    OBVIOUS
  <2>1. Live(h) /\ handle[h].key = p
    BY OnFacts, PoolAssumption
  <2>2. handle[h].slot = s
    BY <1>1, <2>1 DEF IInv, HandleInv
  <2> QED
    BY <1>1, <2>1, <2>2, NoCountNoHandle DEF IInv
<1>4. p \in Opened /\ Opened' = Opened \ {p}
  <2>1. \A f \in Envs : mdb[f] = OpenAt(p) => f = e
    BY <1>1 DEF IInv, OpenInv
  <2>2. mdb' = [mdb EXCEPT ![e] = Free]
    BY <1>1
  <2> HIDE DEF CloseEnv
  <2>3. mdb'[e] = Free /\ \A f \in Envs : f # e => mdb'[f] = mdb[f]
    BY <2>2 DEF IInv, TypeOK
  <2>4. \A q \in Paths : mdb'[e] # OpenAt(q) /\ (mdb[e] = OpenAt(q) => q = p)
    <3>1. \A q \in Paths : OpenAt(q) # Free /\ OpenAt(q).dir = q
      BY EnvStatesDiffer
    <3> QED
      BY <1>2, <2>3, <3>1
  <2>5. \A f \in Envs : mdb'[f] # OpenAt(p)
    BY <2>1, <2>3, <2>4
  <2>6. \A f \in Envs, q \in Paths :
           q # p => (mdb'[f] = OpenAt(q) <=> mdb[f] = OpenAt(q))
    BY <2>3, <2>4
  <2>7. p \in Opened
    BY <1>2 DEF Opened
  <2> QED
    BY <2>5, <2>6, <2>7 DEF Opened
<1>5. UNCHANGED On
  BY DEF On, Live
<1> QED
  BY <1>3, <1>4, <1>5 DEF Abstract!Next, Abstract!Close

\* Every step is a step of MdbEnvSpec or leaves its state alone.
LEMMA RefineNext ==
    ASSUME IInv, [Next]_vars
    PROVE  [Abstract!Next]_(Abstract!vars)
<1> USE DEF Abstract!vars
<1>1. CASE UNCHANGED vars
  BY <1>1 DEF vars, Opened, On, Live
<1>2. ASSUME NEW t \in Threads,
             (\E p \in Paths, h \in Handles : FindSlot(t, p, h))
             \/ LockSlot(t) \/ CreateFails(t)
      PROVE  UNCHANGED <<Opened, On>>
  BY <1>2, Zenon DEF FindSlot, LockSlot, CreateFails, Opened, On, Live
<1>3. ASSUME NEW t \in Threads, CreateEnv(t) \/ OpenFails(t)
      PROVE  UNCHANGED <<Opened, On>>
  <2>a. UNCHANGED handle
    BY <1>3, Zenon DEF CreateEnv, OpenFails
  <2>1. UNCHANGED On
    BY <2>a DEF On, Live
  <2>2. PICK e \in Envs : /\ mdb[e] \in {Free, Created}
                          /\ \/ mdb' = [mdb EXCEPT ![e] = Created]
                             \/ mdb' = [mdb EXCEPT ![e] = Free]
    <3>1. CASE CreateEnv(t)
      BY <3>1, Zenon DEF CreateEnv
    <3>2. CASE OpenFails(t)
      <4>1. call[t].at = "created" /\ mdb' = [mdb EXCEPT ![call[t].env] = Free]
        BY <3>2 DEF OpenFails
      <4>2. call[t].env \in Envs /\ mdb[call[t].env] = Created
        BY <4>1 DEF IInv, CreatedInv
      <4> QED
        BY <4>1, <4>2, Zenon
    <3> QED
      BY <1>3, <3>1, <3>2
  <2>3. \A f \in Envs, p \in Paths :
           (mdb'[f] = OpenAt(p)) <=> (mdb[f] = OpenAt(p))
    <3>1. mdb'[e] \in {Free, Created} /\ \A f \in Envs : f # e => mdb'[f] = mdb[f]
      BY <2>2 DEF IInv, TypeOK
    <3>2. \A p \in Paths : OpenAt(p) # Free /\ OpenAt(p) # Created
      BY EnvStatesDiffer
    <3> QED
      BY <2>2, <3>1, <3>2
  <2>4. UNCHANGED Opened
    BY <2>3 DEF Opened
  <2> QED
    BY <2>1, <2>4
<1> QED
  BY <1>1, <1>2, <1>3, RefineShare, RefineOpen, RefineClone, RefineDrop,
     RefineClose DEF Next

\* Whatever the threads do, the holders of Env values see MdbEnvSpec: one
\* environment per directory, shared while an Env lives, closed after the
\* last one.
THEOREM PoolImplementsEnvSpec == Spec => ImplementsEnvSpec
<1>1. Init => Abstract!Init
  BY EnvStatesDiffer DEF Init, Abstract!Init, Opened, On, Live
<1> QED
  BY <1>1, RefineNext, Inductive, PTL DEF Spec, ImplementsEnvSpec, Abstract!Spec

=============================================================================
