------------------------------ MODULE NssEnum ------------------------------
(***************************************************************************)
(* Enumerations of truenas_nss (src/service.rs, src/grp.rs, src/pwd.rs):   *)
(* EnumSlot, the per-thread LIVE table, a service's iter_lock, and EntIter *)
(* over the set*ent, get*ent_r and end*ent calls of an NSS module.         *)
(*                                                                         *)
(* A module keeps the position of an enumeration in a cursor of its own:   *)
(* one per process, shared by every thread and both databases, or one per  *)
(* thread and database.  It is modelled by what src/ relies on: set*ent    *)
(* rewinds the cursor onto a database, get*ent_r returns the next entry,   *)
(* end*ent closes it.                                                      *)
(***************************************************************************)
EXTENDS Naturals

CONSTANTS Threads,
          Process,   \* the services whose cursor is EntScope::Process
          Thread,    \* the services whose cursor is EntScope::Thread
          Entries,   \* how many entries a database holds
          NoThread

ASSUME EnumAssumption ==
    /\ Process \cap Thread = {}
    /\ Entries \in Nat
    /\ NoThread \notin Threads

Services == Process \cup Thread
Database == {"Passwd", "Group"}
Keys     == Services \X Database

VARIABLES
    live,    \* LIVE: the pairs with a live enumeration on each thread
    lock,    \* the holder of each service's iter_lock
    iter,    \* each thread's enumeration of a pair
    cursor   \* the modules' cursors

vars == <<live, lock, iter, cursor>>

\* at: where the call in progress is, or "open" between two calls.
\* seen: the entries it has returned, which come in order.
Iter     == [at : {"none", "locking", "setting", "open", "ending"},
             seen : 0 .. Entries]
NoIter   == [at |-> "none", seen |-> 0]
Cursor   == [db : Database \cup {"closed"}, pos : 0 .. Entries]
Closed   == [db |-> "closed", pos |-> 0]
Cursors  == {<<NoThread, s, "any">> : s \in Process}
              \cup (Threads \X Thread \X Database)

TypeOK ==
    /\ live \in [Threads -> SUBSET Keys]
    /\ lock \in [Process -> Threads \cup {NoThread}]
    /\ iter \in [Threads -> [Keys -> Iter]]
    /\ cursor \in [Cursors -> Cursor]

Init ==
    /\ live = [t \in Threads |-> {}]
    /\ lock = [s \in Process |-> NoThread]
    /\ iter = [t \in Threads |-> [k \in Keys |-> NoIter]]
    /\ cursor = [c \in Cursors |-> Closed]

CursorOf(t, s, d) == IF s \in Process THEN <<NoThread, s, "any">>
                                      ELSE <<t, s, d>>
At(t, s, d, at) == iter[t][<<s, d>>].at = at
Goto(t, s, d, at) == iter' = [iter EXCEPT ![t][<<s, d>>].at = at]

\* A thread runs one call at a time.
Calling(t) == \E k \in Keys : iter[t][k].at \in {"locking", "setting", "ending"}

\* This thread has a live enumeration that would share the cursor.
Conflict(t, s, d) ==
    \E k \in live[t] : k[1] = s /\ (s \in Process \/ k[2] = d)

\* EnumSlot::acquire: the claim is made before the lock is waited for.  A
\* conflict is Error::Busy, and changes nothing.
Acquire(t, s, d) ==
    /\ ~Calling(t)
    /\ ~Conflict(t, s, d)
    /\ live' = [live EXCEPT ![t] = @ \cup {<<s, d>>}]
    /\ iter' = [iter EXCEPT ![t][<<s, d>>] =
                   [at |-> IF s \in Process THEN "locking" ELSE "setting",
                    seen |-> 0]]
    /\ UNCHANGED <<lock, cursor>>

Lock(t, s, d) ==
    /\ At(t, s, d, "locking")
    /\ lock[s] = NoThread
    /\ lock' = [lock EXCEPT ![s] = t]
    /\ Goto(t, s, d, "setting")
    /\ UNCHANGED <<live, cursor>>

\* set*ent, still inside passwd_entries or group_entries.
SetEnt(t, s, d) ==
    /\ At(t, s, d, "setting")
    /\ cursor' = [cursor EXCEPT ![CursorOf(t, s, d)] = [db |-> d, pos |-> 0]]
    /\ Goto(t, s, d, "open")
    /\ UNCHANGED <<live, lock>>

Unclaim(t, s, d) == live' = [live EXCEPT ![t] = @ \ {<<s, d>>}]

\* Mutant: the guard is leaked.
Unlock_Leaks(s) == UNCHANGED lock

Unlock(s) == lock' = IF s \in Process THEN [lock EXCEPT ![s] = NoThread]
                                      ELSE lock

Forget(t, s, d) == iter' = [iter EXCEPT ![t][<<s, d>>] = NoIter]

\* Mutant: the lock is released and the claim stays.
SetEntFails_KeepsClaim(t, s, d) ==
    /\ At(t, s, d, "setting")
    /\ Unlock(s) /\ Forget(t, s, d)
    /\ UNCHANGED <<live, cursor>>

\* The slot is dropped with the error.
SetEntFails(t, s, d) ==
    /\ At(t, s, d, "setting")
    /\ Unclaim(t, s, d) /\ Unlock(s) /\ Forget(t, s, d)
    /\ UNCHANGED cursor

\* get*ent_r has another entry, and classify_ent reports it.
More(c) == cursor[c].db # "closed" /\ cursor[c].pos < Entries

\* EntIter::next returns an entry, or extract's refusal of it: the cursor has
\* moved on either way, and the enumeration stays open.
Next_(t, s, d) ==
    LET c == CursorOf(t, s, d) IN
    /\ ~Calling(t)
    /\ At(t, s, d, "open")
    /\ More(c)
    /\ cursor' = [cursor EXCEPT ![c].pos = @ + 1]
    /\ iter' = [iter EXCEPT ![t][<<s, d>>].seen = @ + 1]
    /\ UNCHANGED <<live, lock>>

\* Mutant: close releases the slot before the cursor is reset.
Held_Released(s) == Unlock(s)

\* The slot still excludes other enumerations during end*ent.
Held(s) == UNCHANGED lock

\* close begins: the data ended, get*ent_r faulted, or the iterator is
\* dropped.
Close(t, s, d) ==
    /\ ~Calling(t)
    /\ At(t, s, d, "open")
    /\ Goto(t, s, d, "ending")
    /\ Held(s)
    /\ UNCHANGED <<live, cursor>>

\* end*ent resets the cursor; then EnumSlot drops: its claim, then its guard.
EndEnt(t, s, d) ==
    /\ At(t, s, d, "ending")
    /\ cursor' = [cursor EXCEPT ![CursorOf(t, s, d)] = Closed]
    /\ Unclaim(t, s, d) /\ Unlock(s) /\ Forget(t, s, d)

Step(t, s, d) ==
    \/ Lock(t, s, d) \/ SetEnt(t, s, d) \/ SetEntFails(t, s, d)
    \/ EndEnt(t, s, d)

Next ==
    \E t \in Threads, s \in Services, d \in Database :
        \/ Acquire(t, s, d) \/ Step(t, s, d)
        \/ Next_(t, s, d) \/ Close(t, s, d)

Spec == Init /\ [][Next]_vars

-----------------------------------------------------------------------------
\* An open enumeration has its module's cursor to itself: the cursor is on
\* its database and has moved exactly as often as the enumeration has been
\* advanced, so each entry comes once and in order however other threads and
\* other databases are walked, failed and closed meanwhile.
CursorExclusive ==
    \A t \in Threads, s \in Services, d \in Database :
        At(t, s, d, "open") =>
            cursor[CursorOf(t, s, d)] =
                [db |-> d, pos |-> iter[t][<<s, d>>].seen]

\* LIVE names exactly the enumerations this thread has or is opening: Busy is
\* never spurious, and no claim survives a failed set*ent or a close.
ClaimIffLive ==
    \A t \in Threads : live[t] = {k \in Keys : iter[t][k].at # "none"}

\* A thread never waits for an iter_lock it holds itself: it is told Busy.
NoSelfWait ==
    \A t \in Threads, s \in Process, d \in Database :
        At(t, s, d, "locking") => lock[s] # t

\* LIVE is exact, and so no thread is told Busy for nothing and none waits for
\* itself.
ClaimsAreExact == TypeOK /\ ClaimIffLive /\ NoSelfWait

-----------------------------------------------------------------------------
\* Calls go on, a lock freed again and again is granted, and an iterator that
\* holds a lock is run to its end or dropped.
Fairness ==
    \A t \in Threads :
        /\ SF_vars(\E s \in Process, d \in Database : Lock(t, s, d))
        /\ WF_vars(\E s \in Services, d \in Database :
                      SetEnt(t, s, d) \/ SetEntFails(t, s, d) \/ EndEnt(t, s, d))
        /\ \A s \in Process : SF_vars(\E d \in Database : Close(t, s, d))

Waits(t, s) == \E d \in Database : At(t, s, d, "locking")

\* Another thread's enumeration of a process-scoped service waits until the
\* iterator is dropped, and then goes on, where there is one such service.
WaitEnds ==
    \A t \in Threads, s \in Process : Waits(t, s) ~> ~Waits(t, s)
=============================================================================
