------------------------------- MODULE MdbTxn -------------------------------
(***************************************************************************)
(* Transactions of truenas_mdb: TxnGuard and the per-thread ACTIVE list    *)
(* (src/txn.rs), Env::read and Env::write (src/env.rs), the operations of  *)
(* Db, each in a transaction of its own, and open_dbi with the lock that   *)
(* serialises mdb_dbi_open (src/db.rs).                                    *)
(*                                                                         *)
(* A thread is a stack of library calls.  The top one runs; a call may be  *)
(* made from inside the closure of Env::read, Env::write, scan or          *)
(* with_value, and while an Iter is held, which is what "read" and "write" *)
(* frames in the "running" state stand for.                                *)
(*                                                                         *)
(* liblmdb is modelled by what src/ relies on: one writer at a time per    *)
(* environment, a snapshot per reader, a private copy per writer published *)
(* by a commit.  All databases of an environment share one key space here, *)
(* beside the set of named databases that exist.                           *)
(***************************************************************************)
EXTENDS Naturals, Sequences

CONSTANTS Threads, Envs, Keys, Values, Names,
          Called,     \* the operations the threads call
          Nested,     \* those they also call from inside a transaction
          MaxDepth,   \* bound on the calls in progress on one thread
          NoThread, NoValue, NoName

ASSUME TxnAssumption ==
    /\ NoThread \notin Threads
    /\ NoValue \notin Values
    /\ NoName \notin Names
    /\ MaxDepth \in Nat \ {0}

Ops == {"read", "write", "put", "insert", "del", "clear", "open", "create"}

ASSUME CallsAssumption ==
    /\ Called \subseteq Ops
    /\ Nested \subseteq Called

VARIABLES stack,   \* the calls in progress on each thread, outermost first
          active,  \* ACTIVE: the environments a thread has claimed
          txn,     \* liblmdb: the transaction of a thread on an environment
          writer,  \* liblmdb: the holder of an environment's writer mutex
          dbi,     \* the holder of an environment's dbi_lock
          store,   \* what is committed: the pairs, and the named databases
          opened,  \* liblmdb: the databases with a published handle
          dbs      \* the databases a Db has been returned for

vars == <<stack, active, txn, writer, dbi, store, opened, dbs>>

Content == [kv : [Keys -> Values \cup {NoValue}], names : SUBSET Names]
Frame   == [op : Ops, env : Envs, ro : BOOLEAN, name : Names \cup {NoName},
            at : {"lock", "claim", "begin", "running", "done"}]
Txn     == [is : {"read", "write"}, view : Content]
NoTxn   == [is |-> "none"]

TypeOK ==
    /\ stack \in [Threads -> Seq(Frame)]
    /\ \A t \in Threads : Len(stack[t]) <= MaxDepth
    /\ active \in [Threads -> SUBSET Envs]
    /\ txn \in [Threads -> [Envs -> Txn \cup {NoTxn}]]
    /\ writer \in [Envs -> Threads \cup {NoThread}]
    /\ dbi \in [Envs -> Threads \cup {NoThread}]
    /\ store \in [Envs -> Content]
    /\ opened \in [Envs -> SUBSET Names]
    /\ dbs \in [Envs -> SUBSET Names]

\* The files may hold databases an earlier process created; no handle to
\* them is open in this one.
Init ==
    /\ stack = [t \in Threads |-> <<>>]
    /\ active = [t \in Threads |-> {}]
    /\ txn = [t \in Threads |-> [e \in Envs |-> NoTxn]]
    /\ writer = [e \in Envs |-> NoThread]
    /\ dbi = [e \in Envs |-> NoThread]
    /\ store \in [Envs -> {[kv |-> [k \in Keys |-> NoValue], names |-> ns] :
                             ns \in SUBSET Names}]
    /\ opened = [e \in Envs |-> {}]
    /\ dbs = [e \in Envs |-> {}]

\* The call that runs, and the ones it was made inside.
Last(s)    == s[Len(s)]
Front(s)   == SubSeq(s, 1, Len(s) - 1)

Top(t)     == Last(stack[t])
Busy(t)    == stack[t] # <<>>
At(t, op, at) == Busy(t) /\ Top(t).op \in op /\ Top(t).at = at
Replace(t, f) == stack' = [stack EXCEPT ![t] = Front(@) \o <<f>>]
Goto(t, at) == Replace(t, [Top(t) EXCEPT !.at = at])
Pop(t)     == stack' = [stack EXCEPT ![t] = Front(@)]

OpenOps == {"open", "create"}
Opening(t) == Busy(t) /\ Top(t).op \in OpenOps

\* The call returns; open_dbi's guard unlocks the dbi_lock on the way out.
Return(t) ==
    /\ Pop(t)
    /\ dbi' = IF Opening(t) THEN [dbi EXCEPT ![Top(t).env] = NoThread]
                            ELSE dbi

\* Mutant: drop gives the slot back and leaks the transaction.
EndsWriter_Leaks(t, e) == FALSE

\* The transaction being ended holds the writer mutex.
EndsWriter(t, e) == txn[t][e].is = "write"

\* TxnGuard::drop: release the slot; mdb_txn_abort or mdb_txn_commit has
\* ended the transaction and let go of the writer mutex.
EndTxn(t, e) ==
    /\ txn' = [txn EXCEPT ![t][e] = NoTxn]
    /\ writer' = IF EndsWriter(t, e) THEN [writer EXCEPT ![e] = NoThread]
                                     ELSE writer
    /\ active' = [active EXCEPT ![t] = @ \ {e}]

View(t, e) == txn[t][e].view

\* Mutant: a read-only transaction is dropped instead of committed.
Published_IfCreated(t) == IF Top(t).ro THEN {} ELSE {Top(t).name}

\* The handles a commit publishes: mdb_dbi_open's is private until then.
Published(t) == IF Opening(t) THEN {Top(t).name} ELSE {}

-----------------------------------------------------------------------------
(* The calls. *)

\* A thread outside the library, or in user code inside a transaction.
CanCall(t, op) ==
    \/ ~Busy(t)
    \/ /\ At(t, {"read", "write"}, "running")
       /\ op \in Nested
       /\ Len(stack[t]) < MaxDepth

Call(t, op, e, n) ==
    /\ op \in Called
    /\ CanCall(t, op)
    /\ (n = NoName) <=> (op \notin OpenOps)
    /\ stack' = [stack EXCEPT ![t] = Append(@,
                   [op |-> op, env |-> e, name |-> n,
                    ro |-> op \in {"read"} \cup OpenOps,
                    at |-> IF op \in OpenOps THEN "lock" ELSE "claim"])]
    /\ UNCHANGED <<active, txn, writer, dbi, store, opened, dbs>>

\* Mutant: only a create takes the lock.
DbiFree_Lookup(t) == Top(t).op = "open" \/ dbi[Top(t).env] = NoThread

\* lock_dbi does not block.
DbiFree(t) == dbi[Top(t).env] = NoThread

\* open_dbi takes the environment's dbi_lock before anything else.
LockDbi(t) ==
    /\ At(t, OpenOps, "lock")
    /\ DbiFree(t)
    /\ dbi' = [dbi EXCEPT ![Top(t).env] = t]
    /\ Goto(t, "claim")
    /\ UNCHANGED <<active, txn, writer, store, opened, dbs>>

\* This thread is already in a transaction on the environment.
Claimed(t) == Top(t).env \in active[t]

\* claim: a slot already taken by this thread is EDEADLK.
Claim(t) ==
    /\ At(t, Ops, "claim")
    /\ ~Claimed(t)
    /\ active' = [active EXCEPT ![t] = @ \cup {Top(t).env}]
    /\ Goto(t, "begin")
    /\ UNCHANGED <<txn, writer, dbi, store, opened, dbs>>

ClaimRefused(t) ==
    /\ At(t, Ops, "claim")
    /\ Claimed(t)
    /\ Return(t)
    /\ UNCHANGED <<active, txn, writer, store, opened, dbs>>

\* mdb_txn_begin: a writer waits for the writer mutex, a reader does not.
Begin(t) ==
    LET e == Top(t).env IN
    /\ At(t, Ops, "begin")
    /\ \/ /\ Top(t).ro
          /\ txn' = [txn EXCEPT ![t][e] = [is |-> "read", view |-> store[e]]]
          /\ UNCHANGED writer
       \/ /\ ~Top(t).ro
          /\ writer[e] = NoThread
          /\ writer' = [writer EXCEPT ![e] = t]
          /\ txn' = [txn EXCEPT ![t][e] = [is |-> "write", view |-> store[e]]]
    /\ Goto(t, "running")
    /\ UNCHANGED <<active, dbi, store, opened, dbs>>

\* Mutant: the slot is left to a guard that was never built.
BeginFails_KeepsSlot(t) ==
    /\ At(t, Ops, "begin")
    /\ Return(t)
    /\ UNCHANGED <<active, txn, writer, store, opened, dbs>>

\* No guard exists yet, so begin itself hands the slot back.
BeginFails(t) ==
    /\ At(t, Ops, "begin")
    /\ active' = [active EXCEPT ![t] = @ \ {Top(t).env}]
    /\ Return(t)
    /\ UNCHANGED <<txn, writer, store, opened, dbs>>

-----------------------------------------------------------------------------
(* What runs in the transaction. *)

Set(t, f) == txn' = [txn EXCEPT ![t][Top(t).env].view.kv = f]

\* mdb_put, mdb_del and mdb_drop on the transaction's private copy, from a
\* WriteTxn or from the Db operation whose whole body it is.
Modify(t, ops) == /\ At(t, ops, "running")
                  /\ UNCHANGED <<active, writer, dbi, store, opened, dbs>>

\* The frame goes on to its commit; a WriteTxn stays with the closure.
Proceed(t) == IF Top(t).op = "write" THEN UNCHANGED stack ELSE Goto(t, "done")

Put(t, k, v) ==
    /\ Modify(t, {"write", "put"})
    /\ Set(t, [View(t, Top(t).env).kv EXCEPT ![k] = v])
    /\ Proceed(t)

\* Mutant: the put is made without MDB_NOOVERWRITE.
Vacant_Any(t, k) == TRUE

Vacant(t, k) == View(t, Top(t).env).kv[k] = NoValue

\* MDB_NOOVERWRITE: a key that is there is KeyExist, reported as false.
Insert(t, k, v) ==
    /\ Modify(t, {"write", "insert"})
    /\ Vacant(t, k)
    /\ Set(t, [View(t, Top(t).env).kv EXCEPT ![k] = v])
    /\ Proceed(t)

\* NotFound is reported as false: it changes nothing, and Db::del commits
\* all the same.
Del(t, k) ==
    /\ Modify(t, {"write", "del"})
    /\ Set(t, [View(t, Top(t).env).kv EXCEPT ![k] = NoValue])
    /\ Proceed(t)

Clear(t) ==
    /\ Modify(t, {"write", "clear"})
    /\ Set(t, [k \in Keys |-> NoValue])
    /\ Proceed(t)

\* The guard is dropped uncommitted: a read ends, the closure returned Err or
\* unwound, or the operation failed (KeyExist included).
Abort(t) ==
    /\ At(t, Ops, "running")
    /\ EndTxn(t, Top(t).env)
    /\ Return(t)
    /\ UNCHANGED <<store, opened, dbs>>

\* The closure returned Ok, or the operation did its work.  dbi_open commits
\* its read transaction too.
Commit(t) ==
    LET e == Top(t).env IN
    /\ At(t, {"write"}, "running") \/ At(t, Ops, "done")
    /\ store' = IF Top(t).ro THEN store ELSE [store EXCEPT ![e] = View(t, e)]
    /\ opened' = [opened EXCEPT ![e] = @ \cup Published(t)]
    /\ dbs' = [dbs EXCEPT ![e] = @ \cup (IF Opening(t) THEN {Top(t).name}
                                                     ELSE {})]
    /\ EndTxn(t, e)
    /\ Return(t)

\* mdb_txn_commit fails: it has freed the transaction all the same.
CommitFails(t) ==
    /\ At(t, {"write"}, "running") \/ At(t, Ops, "done")
    /\ EndTxn(t, Top(t).env)
    /\ Return(t)
    /\ UNCHANGED <<store, opened, dbs>>

-----------------------------------------------------------------------------
(* open_dbi: look the name up in a read transaction, and only escalate to a *)
(* write transaction to create it.                                          *)

Found(t) == Top(t).name \in View(t, Top(t).env).names

\* mdb_dbi_open finds the database or, with MDB_CREATE, makes it.
OpenDbi(t) ==
    /\ At(t, OpenOps, "running")
    /\ \/ Found(t) /\ UNCHANGED txn
       \/ /\ ~Found(t) /\ ~Top(t).ro
          /\ txn' = [txn EXCEPT ![t][Top(t).env].view.names =
                                   @ \cup {Top(t).name}]
    /\ Goto(t, "done")
    /\ UNCHANGED <<active, writer, dbi, store, opened, dbs>>

\* NotFound from the lookup, and the caller asked to create: the read
\* transaction ends and a write transaction is begun, under the same lock.
Escalate(t) ==
    /\ At(t, {"create"}, "running")
    /\ Top(t).ro /\ ~Found(t)
    /\ EndTxn(t, Top(t).env)
    /\ Replace(t, [Top(t) EXCEPT !.ro = FALSE, !.at = "claim"])
    /\ UNCHANGED <<dbi, store, opened, dbs>>

-----------------------------------------------------------------------------
Step(t) ==
    \/ LockDbi(t) \/ Claim(t) \/ ClaimRefused(t) \/ Begin(t) \/ BeginFails(t)
    \/ Abort(t) \/ Commit(t) \/ CommitFails(t)
    \/ OpenDbi(t) \/ Escalate(t)

Next ==
    \E t \in Threads :
       \/ \E op \in Ops, e \in Envs, n \in Names \cup {NoName} :
             Call(t, op, e, n)
       \/ \E k \in Keys, v \in Values : Put(t, k, v) \/ Insert(t, k, v)
       \/ \E k \in Keys : Del(t, k)
       \/ Clear(t)
       \/ Step(t)

Spec == Init /\ [][Next]_vars

-----------------------------------------------------------------------------
(* Safety. *)

Holding(t) == {stack[t][i].env : i \in {j \in DOMAIN stack[t] :
                            stack[t][j].at \in {"begin", "running", "done"}}}

\* ACTIVE names exactly the environments this thread has a transaction on or
\* is beginning one on: EDEADLK is never spurious, and no slot survives a
\* failed begin, a failed commit, an Err or an unwinding closure.
ClaimIffTransaction == \A t \in Threads : active[t] = Holding(t)

\* liblmdb is never asked for a second transaction of a thread on one
\* environment, where it would deadlock on its own mutex or corrupt the
\* thread's reader slot.
NoSecondTxn ==
    \A t \in Threads : At(t, Ops, "begin") =>
        /\ txn[t][Top(t).env] = NoTxn
        /\ writer[Top(t).env] # t

\* TxnGuard's claim is exact: held as long as the transaction, through every
\* way a call can end, and so the one thing that keeps a thread from a second
\* transaction.
ClaimsAreExact == TypeOK /\ ClaimIffTransaction /\ NoSecondTxn

\* lmdb.h forbids concurrent mdb_dbi_open in a process: no two threads are in
\* it, lookup or create, on one environment.
DbiOpenSerial ==
    \A t, u \in Threads :
        /\ At(t, OpenOps, "running") /\ At(u, OpenOps, "running")
        /\ Top(t).env = Top(u).env
        => t = u

\* A Db is returned only for a handle liblmdb has published, though the
\* transaction that opened it may have been read-only.
DbsUsable == \A e \in Envs : dbs[e] \subseteq opened[e]

\* put_if_absent is atomic: it never replaces a value, however its check and
\* its write interleave with other writers.
InsertReplacesNothing ==
    [][\A t \in Threads :
          At(t, {"insert"}, "done") /\ stack'[t] # stack[t] =>
              \A k \in Keys :
                  LET old == store[Top(t).env].kv[k] IN
                  old # NoValue => store'[Top(t).env].kv[k] = old]_vars

-----------------------------------------------------------------------------
(* Liveness. *)

\* Library code goes on, and a mutex freed again and again is granted.  A
\* thread is at one point of one call at a time.
LibraryFair(t) ==
    SF_vars(\/ LockDbi(t) \/ Claim(t) \/ ClaimRefused(t) \/ Begin(t)
            \/ OpenDbi(t) \/ Escalate(t)
            \/ At(t, Ops \ {"read", "write"}, "running") /\ Abort(t)
            \/ At(t, Ops, "done") /\ (Commit(t) \/ CommitFails(t)))

\* A closure run in a transaction returns in the end.
ClosureFair(t) ==
    SF_vars(At(t, {"read", "write"}, "running") /\ (Abort(t) \/ Commit(t)))

FairSpec == Spec /\ \A t \in Threads : LibraryFair(t) /\ ClosureFair(t)

Waits(t) == At(t, Ops, "lock") \/ At(t, Ops, "begin")

\* No call waits for ever for the dbi_lock or the writer mutex.
WaitsEnd == \A t \in Threads : Waits(t) ~> ~Waits(t)

\* WriteTxn: while it lives "this thread's Db operations on the environment
\* fail with EDEADLK"; Db: "rather than deadlocking".  An operation called
\* inside a transaction on the same environment returns.
NestedReturns ==
    \A t \in Threads :
        (Len(stack[t]) = 2 /\ stack[t][1].env = stack[t][2].env)
            ~> (Len(stack[t]) # 2)

\* Closures may run for ever here.
LibrarySpec == Spec /\ \A t \in Threads : LibraryFair(t)

\* open_dbi: "finding an existing database must not queue behind" the
\* environment's writer.
LookupNotBehindWriter ==
    \A t \in Threads :
        (At(t, {"open"}, "lock")
            /\ Top(t).name \in store[Top(t).env].names)
            ~> ~At(t, {"open"}, "lock")

=============================================================================
