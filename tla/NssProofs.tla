------------------------------ MODULE NssProofs ------------------------------
(***************************************************************************)
(* The enumerations of NssEnum keep their claims and their cursors exact,  *)
(* for any threads and services and databases of any size.  ClaimsAreExact *)
(* and CursorExclusive are not inductive: that no other enumeration moves  *)
(* an open one's cursor needs that whoever is past the lock of a process-  *)
(* scoped service holds it (Locked), that the holder of a lock is past it  *)
(* (Owned), that only such services have a lock to wait for (Scoped), that *)
(* a thread has one enumeration of such a service whatever the database    *)
(* (OneDatabase), and that an enumeration starts with nothing seen         *)
(* (Fresh).                                                                *)
(***************************************************************************)
EXTENDS NssEnum, NssLoad, TLAPS

\* An enumeration that has waited for its lock.
Past(t, s, d) == iter[t][<<s, d>>].at \in {"setting", "open", "ending"}

Locked ==
    \A t \in Threads, s \in Process, d \in Database :
        Past(t, s, d) => lock[s] = t

Scoped ==
    \A t \in Threads, s \in Services, d \in Database :
        iter[t][<<s, d>>].at = "locking" => s \in Process

\* An enumeration that is not open yet has returned nothing.
Fresh ==
    \A t \in Threads, s \in Services, d \in Database :
        iter[t][<<s, d>>].at \in {"locking", "setting"} =>
            iter[t][<<s, d>>].seen = 0

Owned ==
    \A t \in Threads, s \in Process :
        lock[s] = t => \E d \in Database : Past(t, s, d)

OneDatabase ==
    \A t \in Threads, s \in Process, d, e \in Database :
        iter[t][<<s, d>>].at # "none" /\ iter[t][<<s, e>>].at # "none" => d = e

EnumInv ==
    /\ TypeOK /\ ClaimIffLive
    /\ Scoped /\ Fresh /\ Locked /\ Owned /\ OneDatabase
    /\ CursorExclusive

-----------------------------------------------------------------------------
(* Cursors. *)

\* Every enumeration has a cursor.
LEMMA CursorOfType ==
    ASSUME NEW t \in Threads, NEW s \in Services, NEW d \in Database
    PROVE  CursorOf(t, s, d) \in Cursors
BY EnumAssumption DEF CursorOf, Cursors, Services

\* Two enumerations share a cursor only where the service has one for the
\* whole process.
LEMMA CursorShared ==
    ASSUME NEW t \in Threads, NEW s \in Services, NEW d \in Database,
           NEW u \in Threads, NEW r \in Services, NEW e \in Database,
           CursorOf(t, s, d) = CursorOf(u, r, e)
    PROVE  r = s /\ (s \in Process \/ (u = t /\ e = d))
BY EnumAssumption DEF CursorOf, Services

-----------------------------------------------------------------------------
(* What an action does to iter, read one enumeration at a time. *)

\* The enumeration a step sets, and all the others.
LEMMA IterSet ==
    ASSUME TypeOK, NEW t \in Threads, NEW s \in Services, NEW d \in Database,
           NEW v \in Iter, iter' = [iter EXCEPT ![t][<<s, d>>] = v]
    PROVE  /\ iter' \in [Threads -> [Keys -> Iter]]
           /\ iter'[t][<<s, d>>] = v
           /\ \A u \in Threads, r \in Services, e \in Database :
                  u # t \/ r # s \/ e # d =>
                      iter'[u][<<r, e>>] = iter[u][<<r, e>>]
BY Zenon DEF TypeOK, Keys

\* The enumerations other than the one a step is about.
Others(t, s, d) ==
    \A u \in Threads, r \in Services, e \in Database :
        u # t \/ r # s \/ e # d => iter'[u][<<r, e>>] = iter[u][<<r, e>>]

\* Their claims.
OtherClaims(t, s, d) ==
    \A u \in Threads, r \in Services, e \in Database :
        u # t \/ r # s \/ e # d =>
            (<<r, e>> \in live'[u] <=> <<r, e>> \in live[u])

\* An enumeration that moves on has seen what it had.
LEMMA IterAt ==
    ASSUME TypeOK, NEW t \in Threads, NEW s \in Services, NEW d \in Database,
           NEW at \in {"none", "locking", "setting", "open", "ending"},
           Goto(t, s, d, at)
    PROVE  /\ iter' \in [Threads -> [Keys -> Iter]]
           /\ iter'[t][<<s, d>>].at = at
           /\ iter'[t][<<s, d>>].seen = iter[t][<<s, d>>].seen
           /\ Others(t, s, d)
<1> DEFINE v == [iter[t][<<s, d>>] EXCEPT !.at = at]
<1>1. <<s, d>> \in Keys /\ iter[t][<<s, d>>] \in Iter
  BY DEF TypeOK, Keys
<1>2. v \in Iter /\ v.at = at /\ v.seen = iter[t][<<s, d>>].seen
  BY <1>1 DEF Iter
<1>3. iter' = [iter EXCEPT ![t][<<s, d>>] = v]
  BY <1>1 DEF Goto, TypeOK
<1>4. v \in Iter
  BY <1>2
<1> HIDE DEF v
<1>5. /\ iter' \in [Threads -> [Keys -> Iter]]
      /\ iter'[t][<<s, d>>] = v
      /\ Others(t, s, d)
  BY <1>3, <1>4, Zenon DEF TypeOK, Keys, Others
<1> QED BY <1>2, <1>5

\* ClaimIffLive, one pair at a time.
LEMMA Claims ==
    ASSUME TypeOK
    PROVE  ClaimIffLive <=>
             \A t \in Threads, s \in Services, d \in Database :
                 <<s, d>> \in live[t] <=> iter[t][<<s, d>>].at # "none"
BY DEF TypeOK, ClaimIffLive, Keys
-----------------------------------------------------------------------------
(* The inductive step, one action at a time. *)

\* The invariant holds before the first enumeration.
LEMMA EnumInitInv == Init => EnumInv
<1> SUFFICES ASSUME Init PROVE EnumInv
  OBVIOUS
<1>1. TypeOK
  BY EnumAssumption DEF Init, TypeOK, NoIter, Iter, Closed, Cursor, Cursors
<1>2. \A t \in Threads, s \in Services, d \in Database :
         live[t] = {} /\ iter[t][<<s, d>>].at = "none"
  BY DEF Init, Keys, NoIter
<1>3. ClaimIffLive
  BY <1>1, <1>2, Claims
<1>4. Scoped /\ Fresh /\ Locked /\ OneDatabase /\ CursorExclusive
  BY <1>2, Zenon DEF Scoped, Fresh, Locked, OneDatabase, CursorExclusive, Past,
                     At, Services
<1>5. Owned
  BY EnumAssumption DEF Init, Owned
<1> QED BY <1>1, <1>3, <1>4, <1>5 DEF EnumInv

\* Claims stay exact when a step changes one enumeration and its claim.
LEMMA ClaimsKept ==
    ASSUME NEW t \in Threads, NEW s \in Services, NEW d \in Database,
           TypeOK, TypeOK', ClaimIffLive, Others(t, s, d),
           <<s, d>> \in live'[t] <=> iter'[t][<<s, d>>].at # "none",
           OtherClaims(t, s, d)
    PROVE  ClaimIffLive'
<1>1. \A u \in Threads, r \in Services, e \in Database :
         <<r, e>> \in live[u] <=> iter[u][<<r, e>>].at # "none"
  BY Claims, Zenon
<1>2. \A u \in Threads, r \in Services, e \in Database :
         <<r, e>> \in live'[u] <=> iter'[u][<<r, e>>].at # "none"
  <2> SUFFICES ASSUME NEW u \in Threads, NEW r \in Services,
                      NEW e \in Database
               PROVE  <<r, e>> \in live'[u] <=> iter'[u][<<r, e>>].at # "none"
    BY Zenon
  <2>1. CASE u = t /\ r = s /\ e = d
    BY <2>1
  <2>2. CASE u # t \/ r # s \/ e # d
    BY <1>1, <2>2 DEF Others, OtherClaims
  <2> QED BY <2>1, <2>2
<1> QED BY <1>2 DEF ClaimIffLive, TypeOK, Keys

\* A step of an enumeration that is under way starts no other.
LEMMA OneDatabaseKept ==
    ASSUME NEW t \in Threads, NEW s \in Services, NEW d \in Database,
           OneDatabase, Others(t, s, d), iter[t][<<s, d>>].at # "none"
    PROVE  OneDatabase'
<1>1. \A u \in Threads, r \in Services, e \in Database :
         iter'[u][<<r, e>>].at # "none" => iter[u][<<r, e>>].at # "none"
  BY DEF Others
<1> QED BY <1>1 DEF OneDatabase, Services

\* A step that leaves an enumeration past its lock, or before it.
LEMMA LockKept ==
    ASSUME NEW t \in Threads, NEW s \in Services, NEW d \in Database,
           Locked, Owned, Others(t, s, d), lock' = lock,
           Past(t, s, d)' <=> Past(t, s, d)
    PROVE  Locked' /\ Owned'
<1>1. \A u \in Threads, r \in Services, e \in Database :
         Past(u, r, e)' <=> Past(u, r, e)
  BY Zenon DEF Others, Past
<1> QED BY <1>1 DEF Locked, Owned, Services

\* A step that writes one cursor, by an enumeration past its lock: no other
\* open enumeration has that cursor.
LEMMA CursorKept ==
    ASSUME NEW t \in Threads, NEW s \in Services, NEW d \in Database,
           EnumInv, Others(t, s, d), Past(t, s, d), NEW c,
           cursor' = [cursor EXCEPT ![CursorOf(t, s, d)] = c],
           At(t, s, d, "open")' => c = [db |-> d, pos |-> iter'[t][<<s, d>>].seen]
    PROVE  CursorExclusive'
<1> SUFFICES ASSUME NEW u \in Threads, NEW r \in Services,
                    NEW e \in Database, At(u, r, e, "open")'
             PROVE  cursor'[CursorOf(u, r, e)] =
                        [db |-> e, pos |-> iter'[u][<<r, e>>].seen]
  BY DEF CursorExclusive, CursorOf
<1>1. CASE u = t /\ r = s /\ e = d
  BY <1>1, CursorOfType DEF EnumInv, TypeOK
<1>2. CASE u # t \/ r # s \/ e # d
  <2>1. iter'[u][<<r, e>>] = iter[u][<<r, e>>] /\ At(u, r, e, "open")
    BY <1>2 DEF Others, At
  <2>2. CursorOf(u, r, e) # CursorOf(t, s, d)
    <3> SUFFICES ASSUME CursorOf(t, s, d) = CursorOf(u, r, e) PROVE FALSE
      OBVIOUS
    <3>1. r = s /\ s \in Process
      BY CursorShared, <1>2
    <3>2. u = t
      BY <2>1, <3>1 DEF EnumInv, Locked, Past, At
    <3>3. e = d
      BY <2>1, <3>1, <3>2 DEF EnumInv, OneDatabase, Past, At
    <3> QED BY <1>2, <3>1, <3>2, <3>3
  <2>3. cursor'[CursorOf(u, r, e)] = cursor[CursorOf(u, r, e)]
    BY <2>2, CursorOfType DEF EnumInv, TypeOK
  <2> QED BY <2>1, <2>3 DEF EnumInv, CursorExclusive
<1> QED BY <1>1, <1>2

\* EnumSlot's claim.
LEMMA AcquireInv ==
    ASSUME EnumInv, NEW t \in Threads, NEW s \in Services,
           NEW d \in Database, Acquire(t, s, d)
    PROVE  EnumInv'
<1> DEFINE at == IF s \in Process THEN "locking" ELSE "setting"
           v == [at |-> at, seen |-> 0]
<1> USE DEF EnumInv
<1>1. v \in Iter /\ v.at = at /\ v.at # "none" /\ v.at # "open"
  BY EnumAssumption DEF Iter
<1>2. iter' = [iter EXCEPT ![t][<<s, d>>] = v]
  BY DEF Acquire
<1>3. /\ iter' \in [Threads -> [Keys -> Iter]]
      /\ iter'[t][<<s, d>>] = v
      /\ Others(t, s, d)
  <2> HIDE DEF v
  <2> QED BY <1>1, <1>2, Zenon DEF TypeOK, Keys, Others
<1>4. TypeOK'
  <2>1. live' \in [Threads -> SUBSET Keys]
    BY DEF TypeOK, Acquire, Keys
  <2> QED BY <1>3, <2>1 DEF TypeOK, Acquire
<1>5. /\ <<s, d>> \in live'[t]
      /\ \A u \in Threads, r \in Services, e \in Database :
             u # t \/ r # s \/ e # d =>
                 (<<r, e>> \in live'[u] <=> <<r, e>> \in live[u])
  BY DEF Acquire, TypeOK
<1>6. \A r \in Services, e \in Database :
         <<r, e>> \in live[t] <=> iter[t][<<r, e>>].at # "none"
  BY Claims, Zenon
<1>7. ~ \E e \in Database : (s \in Process \/ e = d) /\ <<s, e>> \in live[t]
  BY Zenon DEF Acquire, Conflict
<1>8. iter'[t][<<s, d>>].at # "none"
  BY <1>1, <1>3
<1>9. ClaimIffLive'
  <2>1. <<s, d>> \in live'[t] <=> iter'[t][<<s, d>>].at # "none"
    BY <1>5, <1>8
  <2>2. TypeOK /\ TypeOK' /\ ClaimIffLive /\ Others(t, s, d)
    BY <1>3, <1>4
  <2>3. OtherClaims(t, s, d)
    BY <1>5 DEF OtherClaims
  <2> QED BY <2>1, <2>2, <2>3, ClaimsKept
<1>10. lock' = lock /\ cursor' = cursor
  BY DEF Acquire
<1>11. /\ s \in Process => ~Past(t, s, d)'
       /\ ~Past(t, s, d)
       /\ \A u \in Threads, r \in Services, e \in Database :
              u # t \/ r # s \/ e # d => (Past(u, r, e)' <=> Past(u, r, e))
  BY <1>1, <1>3, <1>6, <1>7 DEF Past, Others
<1>12. Locked'
  BY <1>10, <1>11 DEF Locked, Services
<1>13. Owned'
  BY <1>10, <1>11 DEF Owned, Services
<1>14. OneDatabase'
  <2> HIDE DEF v
  <2> QED BY <1>3, <1>6, <1>7 DEF OneDatabase, Others, Services
<1>15. CursorExclusive'
  <2>1. \A u \in Threads, r \in Services, e \in Database :
           iter'[u][<<r, e>>].at = "open" =>
               iter'[u][<<r, e>>] = iter[u][<<r, e>>]
    BY <1>1, <1>3 DEF Others
  <2> QED BY <2>1, <1>10 DEF CursorExclusive, At, CursorOf
<1>16. Scoped' /\ Fresh'
  <2>1. /\ iter'[t][<<s, d>>].at = "locking" => s \in Process
        /\ iter'[t][<<s, d>>].seen = 0
    BY <1>3
  <2> HIDE DEF v
  <2>2. Scoped'
    BY <1>3, <2>1 DEF Scoped, Others
  <2>3. Fresh'
    BY <1>3, <2>1 DEF Fresh, Others
  <2> QED BY <2>2, <2>3
<1> QED BY <1>4, <1>9, <1>12, <1>13, <1>14, <1>15, <1>16

\* No step but Acquire comes to wait for a lock, and none but Lock, with
\* nothing seen, comes to set*ent.
LEMMA ScopedKept ==
    ASSUME NEW t \in Threads, NEW s \in Services, NEW d \in Database,
           Scoped, Fresh, Others(t, s, d),
           iter'[t][<<s, d>>].at # "locking",
           iter'[t][<<s, d>>].at = "setting" => iter'[t][<<s, d>>].seen = 0
    PROVE  Scoped' /\ Fresh'
BY DEF Scoped, Fresh, Others

\* iter_lock is taken.
LEMMA LockInv ==
    ASSUME EnumInv, NEW t \in Threads, NEW s \in Services,
           NEW d \in Database, Lock(t, s, d)
    PROVE  EnumInv'
<1> USE DEF EnumInv
<1>1. /\ iter' \in [Threads -> [Keys -> Iter]]
      /\ iter'[t][<<s, d>>].at = "setting"
      /\ iter'[t][<<s, d>>].seen = iter[t][<<s, d>>].seen
      /\ Others(t, s, d)
  BY IterAt, Zenon DEF Lock
<1>2. /\ iter[t][<<s, d>>].at = "locking" /\ s \in Process
      /\ iter[t][<<s, d>>].seen = 0
      /\ live' = live /\ cursor' = cursor
  BY DEF Lock, At, Scoped, Fresh
<1>3. TypeOK'
  BY <1>1, <1>2 DEF TypeOK, Lock
<1>4. ClaimIffLive'
  <2>1. <<s, d>> \in live[t]
    BY <1>2, Claims
  <2> QED BY <1>1, <1>2, <1>3, <2>1, ClaimsKept DEF OtherClaims
<1>5. /\ Past(t, s, d)'
      /\ \A u \in Threads, r \in Services, e \in Database :
             u # t \/ r # s \/ e # d => (Past(u, r, e)' <=> Past(u, r, e))
  BY <1>1 DEF Past, Others
<1>6. /\ lock[s] = NoThread /\ lock'[s] = t
      /\ \A r \in Process : r # s => lock'[r] = lock[r]
  BY <1>2 DEF Lock, TypeOK
<1>7. Locked'
  BY <1>5, <1>6, EnumAssumption DEF Locked, Services
<1>8. Owned'
  <2> SUFFICES ASSUME NEW u \in Threads, NEW r \in Process, lock'[r] = u
               PROVE  \E e \in Database : Past(u, r, e)'
    BY DEF Owned, Past
  <2>1. CASE r = s
    BY <1>5, <1>6, <2>1
  <2>2. CASE r # s
    BY <1>5, <1>6, <2>2 DEF Owned, Services
  <2> QED BY <2>1, <2>2
<1>9. CursorExclusive'
  <2>1. \A u \in Threads, r \in Services, e \in Database :
           iter'[u][<<r, e>>].at = "open" =>
               iter'[u][<<r, e>>] = iter[u][<<r, e>>]
    BY <1>1, Zenon DEF Others
  <2> QED BY <1>2, <2>1 DEF CursorExclusive, At, CursorOf
<1> QED BY <1>1, <1>2, <1>3, <1>4, <1>7, <1>8, <1>9, ScopedKept,
           OneDatabaseKept

\* set*ent rewinds the cursor.
LEMMA SetEntInv ==
    ASSUME EnumInv, NEW t \in Threads, NEW s \in Services,
           NEW d \in Database, SetEnt(t, s, d)
    PROVE  EnumInv'
<1> DEFINE c == [db |-> d, pos |-> 0]
<1> USE DEF EnumInv
<1>1. /\ iter' \in [Threads -> [Keys -> Iter]]
      /\ iter'[t][<<s, d>>].at = "open"
      /\ iter'[t][<<s, d>>].seen = iter[t][<<s, d>>].seen
      /\ Others(t, s, d)
  BY IterAt, Zenon DEF SetEnt
<1>2. /\ iter[t][<<s, d>>].at = "setting"
      /\ live' = live /\ lock' = lock
      /\ cursor' = [cursor EXCEPT ![CursorOf(t, s, d)] = c]
  BY DEF SetEnt, At
<1>3. TypeOK'
  <2>1. c \in Cursor
    BY EnumAssumption DEF Cursor
  <2> HIDE DEF c
  <2> QED BY <1>1, <1>2, <2>1, CursorOfType DEF TypeOK
<1>4. ClaimIffLive'
  <2>1. <<s, d>> \in live[t]
    BY <1>2, Claims
  <2> QED BY <1>1, <1>2, <1>3, <2>1, ClaimsKept DEF OtherClaims
<1>5. Past(t, s, d) /\ Past(t, s, d)'
  BY <1>1, <1>2 DEF Past
<1>6. Locked' /\ Owned'
  BY <1>1, <1>2, <1>5, LockKept
<1>7. CursorExclusive'
  <2>1. c = [db |-> d, pos |-> iter'[t][<<s, d>>].seen]
    BY <1>1, <1>2 DEF Fresh
  <2> HIDE DEF c
  <2> QED BY <1>1, <1>2, <1>5, <2>1, CursorKept, Zenon
<1> QED BY <1>1, <1>2, <1>3, <1>4, <1>6, <1>7, ScopedKept, OneDatabaseKept

\* The lock of a process-scoped service goes with the enumeration that held
\* it.
LEMMA UnlockInv ==
    ASSUME EnumInv, NEW t \in Threads, NEW s \in Services,
           NEW d \in Database, Past(t, s, d), Unlock(s), Forget(t, s, d),
           Others(t, s, d), iter'[t][<<s, d>>] = NoIter
    PROVE  /\ lock' \in [Process -> Threads \cup {NoThread}]
           /\ Locked' /\ Owned'
<1> USE DEF EnumInv
<1>1. /\ lock' \in [Process -> Threads \cup {NoThread}]
      /\ s \in Process => lock[s] = t /\ lock'[s] = NoThread
      /\ \A r \in Process : r # s => lock'[r] = lock[r]
  BY DEF Unlock, TypeOK, Locked
<1>2. /\ ~Past(t, s, d)'
      /\ \A u \in Threads, r \in Services, e \in Database :
             u # t \/ r # s \/ e # d => (Past(u, r, e)' <=> Past(u, r, e))
  BY DEF Past, Others, NoIter
<1>3. s \in Process => \A u \in Threads, e \in Database : ~Past(u, s, e)'
  <2> SUFFICES ASSUME s \in Process, NEW u \in Threads, NEW e \in Database,
                      Past(u, s, e)'
               PROVE  FALSE
    OBVIOUS
  <2>1. Past(u, s, e) /\ (u # t \/ e # d)
    BY <1>2
  <2>2. u = t
    BY <1>1, <2>1 DEF Locked
  <2>3. e = d
    BY <2>1, <2>2 DEF OneDatabase, Past
  <2> QED BY <2>1, <2>2, <2>3
<1>4. Locked'
  <2> SUFFICES ASSUME NEW u \in Threads, NEW r \in Process,
                      NEW e \in Database, Past(u, r, e)'
               PROVE  lock'[r] = u
    BY DEF Locked, Past
  <2> QED BY <1>1, <1>2, <1>3 DEF Locked, Services
<1>5. Owned'
  <2> SUFFICES ASSUME NEW u \in Threads, NEW r \in Process, lock'[r] = u
               PROVE  \E e \in Database : Past(u, r, e)'
    BY Zenon DEF Owned, Past
  <2>1. r # s /\ lock[r] = u
    BY <1>1, EnumAssumption
  <2> QED BY <1>2, <2>1 DEF Owned, Services
<1> QED BY <1>1, <1>4, <1>5

\* An enumeration that is gone leaves neither claim nor lock, whether set*ent
\* failed or end*ent has run.
LEMMA GoneInv ==
    ASSUME EnumInv, NEW t \in Threads, NEW s \in Services,
           NEW d \in Database, Past(t, s, d),
           Unclaim(t, s, d), Unlock(s), Forget(t, s, d)
    PROVE  /\ iter'[t][<<s, d>>] = NoIter /\ Others(t, s, d)
           /\ cursor' \in [Cursors -> Cursor] => TypeOK' /\ ClaimIffLive'
           /\ Scoped' /\ Fresh' /\ Locked' /\ Owned' /\ OneDatabase'
<1> USE DEF EnumInv
<1>1. NoIter \in Iter /\ NoIter.at = "none"
  BY EnumAssumption DEF NoIter, Iter
<1>2. /\ iter' \in [Threads -> [Keys -> Iter]]
      /\ iter'[t][<<s, d>>] = NoIter
      /\ Others(t, s, d)
  BY <1>1, Zenon DEF Forget, TypeOK, Keys, Others
<1>3. /\ lock' \in [Process -> Threads \cup {NoThread}]
      /\ Locked' /\ Owned'
  BY <1>2, UnlockInv
<1>4. iter[t][<<s, d>>].at # "none"
  BY DEF Past
<1>5. OneDatabase' /\ Scoped' /\ Fresh'
  BY <1>1, <1>2, <1>4, OneDatabaseKept, ScopedKept
<1>6. /\ live' \in [Threads -> SUBSET Keys]
      /\ <<s, d>> \notin live'[t]
      /\ \A u \in Threads, r \in Services, e \in Database :
             u # t \/ r # s \/ e # d =>
                 (<<r, e>> \in live'[u] <=> <<r, e>> \in live[u])
  BY DEF Unclaim, TypeOK
<1>7. ASSUME cursor' \in [Cursors -> Cursor] PROVE TypeOK' /\ ClaimIffLive'
  <2>1. TypeOK'
    BY <1>2, <1>3, <1>6, <1>7 DEF TypeOK
  <2> QED BY <1>1, <1>2, <1>6, <2>1, ClaimsKept, Zenon DEF OtherClaims
<1> QED BY <1>2, <1>3, <1>5, <1>7

\* set*ent fails, and claim and lock are given back.
LEMMA SetEntFailsInv ==
    ASSUME EnumInv, NEW t \in Threads, NEW s \in Services,
           NEW d \in Database, SetEntFails(t, s, d)
    PROVE  EnumInv'
<1>1. Past(t, s, d)
  BY DEF SetEntFails, At, Past
<1>2. /\ iter'[t][<<s, d>>] = NoIter /\ Others(t, s, d)
      /\ cursor' \in [Cursors -> Cursor] => TypeOK' /\ ClaimIffLive'
      /\ Scoped' /\ Fresh' /\ Locked' /\ Owned' /\ OneDatabase'
  BY <1>1, GoneInv DEF SetEntFails
<1>3. cursor' = cursor
  BY DEF SetEntFails
<1>4. CursorExclusive'
  <2>1. \A u \in Threads, r \in Services, e \in Database :
           iter'[u][<<r, e>>].at = "open" =>
               iter'[u][<<r, e>>] = iter[u][<<r, e>>]
    BY <1>2 DEF Others, NoIter
  <2> QED BY <1>3, <2>1 DEF EnumInv, CursorExclusive, At, CursorOf
<1> QED BY <1>2, <1>3, <1>4 DEF EnumInv, TypeOK

\* get*ent_r moves the cursor.
LEMMA NextEntryInv ==
    ASSUME EnumInv, NEW t \in Threads, NEW s \in Services,
           NEW d \in Database, Next_(t, s, d)
    PROVE  EnumInv'
<1> DEFINE k == CursorOf(t, s, d)
           i == iter[t][<<s, d>>]
           v == [i EXCEPT !.seen = @ + 1]
           c == [cursor[k] EXCEPT !.pos = @ + 1]
<1> USE DEF EnumInv
<1>1. i \in Iter /\ i.at = "open" /\ i.seen \in 0 .. Entries
  BY DEF Next_, At, TypeOK, Keys, Iter
<1>2. cursor[k] = [db |-> d, pos |-> i.seen] /\ i.seen < Entries
  BY <1>1 DEF CursorExclusive, At, Next_, More
<1>3. v \in Iter /\ v.at = "open" /\ v.seen = i.seen + 1
  BY <1>1, <1>2, EnumAssumption DEF Iter
<1>4. c = [db |-> d, pos |-> v.seen]
  BY <1>2, <1>3
<1>5. c \in Cursor
  BY <1>3, <1>4 DEF Cursor, Iter
<1>6. /\ iter' = [iter EXCEPT ![t][<<s, d>>] = v]
      /\ cursor' = [cursor EXCEPT ![k] = c]
      /\ live' = live /\ lock' = lock
  BY CursorOfType DEF Next_, TypeOK, Keys
<1>7. i.at = "open"
  BY <1>1
<1> HIDE DEF v, c
<1>8. /\ iter' \in [Threads -> [Keys -> Iter]]
      /\ iter'[t][<<s, d>>] = v
      /\ Others(t, s, d)
  BY <1>3, <1>6, Zenon DEF TypeOK, Keys, Others
<1>9. TypeOK'
  BY <1>5, <1>6, <1>8, CursorOfType DEF TypeOK
<1>10. iter'[t][<<s, d>>].at = "open" /\ iter'[t][<<s, d>>].seen = v.seen
  BY <1>3, <1>8
<1>11. ClaimIffLive'
  <2>1. <<s, d>> \in live[t]
    BY <1>7, Claims
  <2> QED BY <1>6, <1>8, <1>9, <1>10, <2>1, ClaimsKept DEF OtherClaims
<1>12. Past(t, s, d) /\ Past(t, s, d)'
  BY <1>7, <1>10 DEF Past
<1>13. Locked' /\ Owned'
  BY <1>6, <1>8, <1>12, LockKept
<1>14. CursorExclusive'
  BY <1>4, <1>6, <1>8, <1>10, <1>12, CursorKept, Zenon
<1> QED BY <1>7, <1>8, <1>9, <1>10, <1>11, <1>13, <1>14, ScopedKept,
           OneDatabaseKept

\* close begins: the slot is still held.
LEMMA CloseInv ==
    ASSUME EnumInv, NEW t \in Threads, NEW s \in Services,
           NEW d \in Database, Close(t, s, d)
    PROVE  EnumInv'
<1> USE DEF EnumInv
<1>1. /\ iter' \in [Threads -> [Keys -> Iter]]
      /\ iter'[t][<<s, d>>].at = "ending"
      /\ Others(t, s, d)
  <2>1. /\ TypeOK /\ Goto(t, s, d, "ending")
        /\ "ending" \in {"none", "locking", "setting", "open", "ending"}
    BY DEF Close
  <2> QED BY <2>1, IterAt
<1>2. /\ iter[t][<<s, d>>].at = "open"
      /\ live' = live /\ lock' = lock /\ cursor' = cursor
  BY DEF Close, At, Held
<1>3. TypeOK'
  BY <1>1, <1>2 DEF TypeOK
<1>4. ClaimIffLive'
  <2>1. <<s, d>> \in live[t]
    BY <1>2, Claims
  <2> QED BY <1>1, <1>2, <1>3, <2>1, ClaimsKept DEF OtherClaims
<1>5. Past(t, s, d) /\ Past(t, s, d)'
  BY <1>1, <1>2 DEF Past
<1>6. Locked' /\ Owned'
  BY <1>1, <1>2, <1>5, LockKept
<1>7. CursorExclusive'
  <2>1. \A u \in Threads, r \in Services, e \in Database :
           iter'[u][<<r, e>>].at = "open" =>
               iter'[u][<<r, e>>] = iter[u][<<r, e>>]
    BY <1>1 DEF Others
  <2> QED BY <1>2, <2>1 DEF CursorExclusive, At, CursorOf
<1> QED BY <1>1, <1>2, <1>3, <1>4, <1>6, <1>7, ScopedKept, OneDatabaseKept

\* end*ent, and the release of claim and lock.
LEMMA EndEntInv ==
    ASSUME EnumInv, NEW t \in Threads, NEW s \in Services,
           NEW d \in Database, EndEnt(t, s, d)
    PROVE  EnumInv'
<1>1. Past(t, s, d)
  BY DEF EndEnt, At, Past
<1>2. /\ iter'[t][<<s, d>>] = NoIter /\ Others(t, s, d)
      /\ cursor' \in [Cursors -> Cursor] => TypeOK' /\ ClaimIffLive'
      /\ Scoped' /\ Fresh' /\ Locked' /\ Owned' /\ OneDatabase'
  BY <1>1, GoneInv, Zenon DEF EndEnt
<1>3. cursor' = [cursor EXCEPT ![CursorOf(t, s, d)] = Closed]
  BY DEF EndEnt
<1>4. cursor' \in [Cursors -> Cursor]
  <2>1. Closed \in Cursor
    BY EnumAssumption DEF Closed, Cursor
  <2> QED BY <1>3, <2>1, Zenon DEF EnumInv, TypeOK
<1>5. ~At(t, s, d, "open")'
  BY <1>2 DEF At, NoIter
<1>6. CursorExclusive'
  BY <1>1, <1>2, <1>3, <1>5, CursorKept, Zenon
<1> QED BY <1>2, <1>4, <1>6 DEF EnumInv

\* Every step of every thread keeps the invariant.
LEMMA EnumStepInv == EnumInv /\ [Next]_vars => EnumInv'
<1> SUFFICES ASSUME EnumInv, [Next]_vars PROVE EnumInv'
  OBVIOUS
<1>1. CASE Next
  <2> PICK t \in Threads, s \in Services, d \in Database :
        \/ Acquire(t, s, d) \/ Step(t, s, d)
        \/ Next_(t, s, d) \/ Close(t, s, d)
    BY <1>1 DEF Next
  <2> QED BY AcquireInv, LockInv, SetEntInv, SetEntFailsInv, NextEntryInv,
             CloseInv, EndEntInv DEF Step
<1>2. CASE UNCHANGED vars
  <2>1. TypeOK' /\ ClaimIffLive'
    BY <1>2 DEF vars, EnumInv, TypeOK, ClaimIffLive
  <2>2. Scoped' /\ Fresh' /\ OneDatabase'
    BY <1>2, Zenon DEF vars, EnumInv, Scoped, Fresh, OneDatabase
  <2>3. Locked' /\ Owned'
    BY <1>2, Zenon DEF vars, EnumInv, Locked, Owned, Past
  <2>4. CursorExclusive'
    BY <1>2 DEF vars, EnumInv, CursorExclusive, At, CursorOf
  <2> QED BY <2>1, <2>2, <2>3, <2>4 DEF EnumInv
<1> QED BY <1>1, <1>2

-----------------------------------------------------------------------------
(* The theorems. *)

\* The inductive invariant of EnumSlot and EntIter holds in every reachable
\* state.
THEOREM EnumInductive == Spec => []EnumInv
BY EnumInitInv, EnumStepInv, PTL DEF Spec

\* EntIter's cursor: each entry of an open enumeration comes once and in
\* order, whatever the other threads and databases do.
THEOREM CursorExclusiveHolds == Spec => []CursorExclusive
<1>1. EnumInv => CursorExclusive
  BY DEF EnumInv
<1> QED BY <1>1, EnumInductive, PTL

\* EnumSlot::acquire: LIVE names exactly the thread's enumerations, and a
\* thread never waits for an iter_lock it holds itself.
THEOREM ClaimsAreExactHolds == Spec => []ClaimsAreExact
<1>1. EnumInv => NoSelfWait
  <2> SUFFICES ASSUME EnumInv, NEW t \in Threads, NEW s \in Process,
                      NEW d \in Database, At(t, s, d, "locking"), lock[s] = t
               PROVE  FALSE
    BY DEF NoSelfWait
  <2> PICK e \in Database : Past(t, s, e)
    BY DEF EnumInv, Owned
  <2>1. e = d
    BY DEF EnumInv, OneDatabase, Past, At
  <2> QED BY <2>1 DEF Past, At
<1>2. EnumInv => ClaimsAreExact
  BY <1>1 DEF EnumInv, ClaimsAreExact
<1> QED BY <1>2, EnumInductive, PTL

-----------------------------------------------------------------------------
(***************************************************************************)
(* The loads of NssLoad agree, for any threads, modules and functions.     *)
(* LoadsAgree is not inductive: that a registry slot is set once needs     *)
(* that one thread at a time is past the load lock (LockHeld) and finds    *)
(* its slot unset up to the moment it fills it, and that a Service has all *)
(* its module exports needs what a load has resolved so far (LoadingOK);   *)
(* that dlerror gives the caller's own error needs who left it (ErrorOK).  *)
(***************************************************************************)

\* What load, the state of a thread's call, may be.
LoadPlaces == {"idle", "lock", "recheck", "dlopen", "dlsym", "dlerror",
               "publish"}
Got == {None} \cup [is : {"ok"}, of : Nat]
         \cup [is : {"load"}, of : (Loaders \X Libraries) \cup {None}]
         \cup [is : {"symbol"}, of : Libraries]
LoadCall == [at : LoadPlaces, lib : Libraries \cup {None}, shared : BOOLEAN,
             next : Nat, fns : SUBSET Range(Symbols), got : Got]

LoadTypeOK ==
    /\ exports \in [Libraries -> {None} \cup SUBSET Range(Symbols)]
    /\ slot \in [Libraries -> Nat \cup {None}]
    /\ services \in Seq(Libraries \X SUBSET Range(Symbols))
    /\ loadLock \in Loaders \cup {None}
    /\ dlError \in (Loaders \X Libraries) \cup {None}
    /\ load \in [Loaders -> LoadCall]

\* The lock is held by the thread inside load_locked or looking again.
LockHeld ==
    \A t \in Loaders : loadLock = t <=> load[t].at \notin {"idle", "lock"}

\* The registry's slots are of their modules, and every service has what its
\* module exports.
RegistryOK ==
    /\ \A l \in Libraries : slot[l] # None =>
          slot[l] \in DOMAIN services /\ services[slot[l]][1] = l
    /\ \A i \in DOMAIN services :
          /\ exports[services[i][1]] # None
          /\ services[i][2] = exports[services[i][1]]

\* A load in progress: nobody else fills its slot, and it has resolved what
\* the module exports of the symbols it is through with.
LoadingOK(t) ==
    /\ load[t].at # "idle" => load[t].lib \in Libraries
    /\ load[t].at \in {"lock", "recheck", "dlopen"} => load[t].fns = {}
    /\ /\ load[t].at \in {"dlopen", "dlsym", "dlerror", "publish"}
       /\ load[t].shared
       => slot[load[t].lib] = None
    /\ load[t].at = "dlsym" =>
          /\ exports[load[t].lib] # None
          /\ load[t].next \in 1 .. Len(Symbols) + 1
          /\ load[t].fns = {Symbols[i] : i \in 1 .. load[t].next - 1}
                              \cap exports[load[t].lib]
    /\ load[t].at = "publish" =>
          /\ load[t].shared /\ Len(services) > 0
          /\ services[Len(services)][1] = load[t].lib

\* An error is pending only while the thread whose call failed takes it.
ErrorOK ==
    /\ dlError # None => \E t \in Loaders : load[t].at = "dlerror"
    /\ \A t \in Loaders :
          load[t].at = "dlerror" => dlError = <<t, load[t].lib>>

\* What a call returned.
GotOK(t) ==
    LET got == load[t].got IN
    got # None =>
        /\ load[t].lib \in Libraries
        /\ got.is = "load" => got.of = <<t, load[t].lib>>
        /\ got.is = "ok" => got.of \in DOMAIN services
                            /\ services[got.of][1] = load[t].lib
        /\ got.is = "ok" /\ load[t].shared => got.of = slot[load[t].lib]

LoadInv ==
    /\ LoadTypeOK /\ LockHeld /\ RegistryOK /\ ErrorOK
    /\ \A t \in Loaders : LoadingOK(t) /\ GotOK(t)

\* No call.
LEMMA IdleType == Idle \in LoadCall
BY Zenon DEF Idle, LoadCall, LoadPlaces, Got

\* The invariant holds before the first load.
LEMMA LoadInitInv == LoadInit => LoadInv
<1> SUFFICES ASSUME LoadInit PROVE LoadInv
  OBVIOUS
<1>1. /\ slot = [l \in Libraries |-> None] /\ services = <<>>
      /\ loadLock = None /\ dlError = None
      /\ load = [t \in Loaders |-> Idle]
  BY Zenon DEF LoadInit
<1>2. LoadTypeOK
  <2>1. exports \in [Libraries -> {None} \cup SUBSET Range(Symbols)]
    BY DEF LoadInit, Range
  <2>2. services \in Seq(Libraries \X SUBSET Range(Symbols))
    BY <1>1
  <2> QED
    BY <1>1, <2>1, <2>2, IdleType, Zenon DEF LoadTypeOK
<1>3. Idle.at = "idle" /\ Idle.got = None
  BY DEF Idle
<1>4. LockHeld /\ ErrorOK
  BY <1>1, <1>3, LoadAssumption DEF LockHeld, ErrorOK
<1>5. RegistryOK
  BY <1>1 DEF RegistryOK
<1>6. ASSUME NEW t \in Loaders PROVE LoadingOK(t) /\ GotOK(t)
  BY <1>1, <1>3 DEF LoadingOK, GotOK
<1> QED
  BY <1>2, <1>4, <1>5, <1>6 DEF LoadInv

-----------------------------------------------------------------------------
(* What a step of t does to its own call. *)

\* The other threads' calls stay.
Alone(t) ==
    /\ load' \in [Loaders -> LoadCall]
    /\ \A u \in Loaders \ {t} : load'[u] = load[u]

\* A load that moves on changes nothing else of its call.
LEMMA GotoFacts ==
    ASSUME LoadTypeOK, NEW t \in Loaders, NEW at \in LoadPlaces,
           LoadGoto(t, at)
    PROVE  /\ Alone(t) /\ load'[t].at = at
           /\ load'[t].lib = load[t].lib /\ load'[t].shared = load[t].shared
           /\ load'[t].next = load[t].next /\ load'[t].fns = load[t].fns
           /\ load'[t].got = load[t].got
<1>1. load[t] \in LoadCall
  BY DEF LoadTypeOK
<1>2. [load[t] EXCEPT !.at = at] \in LoadCall
  BY <1>1 DEF LoadCall
<1>3. load' = [load EXCEPT ![t] = [load[t] EXCEPT !.at = at]]
  BY DEF LoadGoto
<1> QED
  BY <1>1, <1>2, <1>3, Zenon DEF Alone, LoadTypeOK, LoadCall

\* A load that returns gives the lock back.
LEMMA LeaveFacts ==
    ASSUME LoadTypeOK, NEW t \in Loaders, NEW got \in Got, Leave(t, got)
    PROVE  /\ Alone(t) /\ load'[t].at = "idle"
           /\ load'[t].lib = load[t].lib /\ load'[t].shared = load[t].shared
           /\ load'[t].got = got /\ loadLock' = None
<1>1. load[t] \in LoadCall
  BY DEF LoadTypeOK
<1> DEFINE r == [Idle EXCEPT !.lib = load[t].lib, !.shared = load[t].shared,
                             !.got = got]
<1>2. load' = [load EXCEPT ![t] = r] /\ loadLock' = None
  BY Zenon DEF Leave
<1>3. load[t].lib \in Libraries \cup {None} /\ load[t].shared \in BOOLEAN
  BY <1>1, Zenon DEF LoadCall
<1>4. r \in LoadCall
  BY <1>3, IdleType, Zenon DEF LoadCall
<1>5. /\ r.at = "idle" /\ r.lib = load[t].lib /\ r.shared = load[t].shared
      /\ r.got = got
  BY Zenon DEF Idle
<1> HIDE DEF r
<1>6. Alone(t) /\ load'[t] = r
  BY <1>2, <1>4 DEF Alone, LoadTypeOK
<1> QED
  BY <1>2, <1>5, <1>6, Zenon

-----------------------------------------------------------------------------
(* What it leaves of the others'. *)

\* The table of services only grows, and a slot once set stays.
Kept ==
    /\ \A i \in DOMAIN services :
          i \in DOMAIN services' /\ services'[i] = services[i]
    /\ \A l \in Libraries : slot[l] # None => slot'[l] = slot[l]

\* What was returned earlier stays true while the table only grows.
LEMMA GotKept ==
    ASSUME LoadInv, NEW u \in Loaders, Kept, load'[u].got = load[u].got,
           load'[u].lib = load[u].lib, load'[u].shared = load[u].shared
    PROVE  GotOK(u)'
<1>1. GotOK(u) /\ services \in Seq(Libraries \X SUBSET Range(Symbols))
  BY Zenon DEF LoadInv, LoadTypeOK
<1>2. \A i \in DOMAIN services : i # None
  BY <1>1, LoadAssumption
<1> QED
  BY <1>1, <1>2, Zenon DEF GotOK, Kept

\* While t holds the lock no other thread is in a load.
LEMMA OthersKept ==
    ASSUME LoadInv, NEW t \in Loaders, load[t].at \notin {"idle", "lock"},
           NEW u \in Loaders \ {t}, load'[u] = load[u], Kept
    PROVE  LoadingOK(u)' /\ GotOK(u)'
<1>1. load[u].at \in {"idle", "lock"}
  BY DEF LoadInv, LockHeld
<1> QED
  BY <1>1, GotKept, Zenon DEF LoadInv, LoadingOK

\* A thread that does not move, when nothing it looks at does.
LEMMA Unmoved ==
    ASSUME LoadInv, NEW u \in Loaders, load'[u] = load[u],
           UNCHANGED <<exports, slot, services>>
    PROVE  LoadingOK(u)' /\ GotOK(u)'
BY Zenon DEF LoadInv, LoadingOK, GotOK

\* What a call that returns leaves behind.
LEMMA Returned ==
    ASSUME NEW t \in Loaders, load'[t].at = "idle"
    PROVE  LoadingOK(t)'
BY DEF LoadingOK

\* A Service returned,
LEMMA ReturnedOk ==
    ASSUME NEW t \in Loaders, NEW n \in DOMAIN services',
           load'[t].got = Ok(n), load'[t].lib \in Libraries,
           services'[n][1] = load'[t].lib,
           load'[t].shared => n = slot'[load'[t].lib]
    PROVE  GotOK(t)'
<1>1. Ok(n).is = "ok" /\ Ok(n).of = n
  BY DEF Ok
<1> QED
  BY <1>1, Zenon DEF GotOK

\* and an error.
LEMMA ReturnedErr ==
    ASSUME NEW t \in Loaders, NEW kind \in {"load", "symbol"}, NEW of,
           load'[t].got = Error(kind, of), load'[t].lib \in Libraries,
           kind = "load" => of = <<t, load'[t].lib>>
    PROVE  GotOK(t)'
BY DEF GotOK, Error

\* Every step of every call keeps the invariant.
LEMMA LoadStepInv ==
    ASSUME LoadInv, [LoadNext]_loadVars
    PROVE  LoadInv'
<1>0. /\ None \notin Loaders /\ None \notin Nat
      /\ LoadTypeOK /\ LockHeld /\ RegistryOK /\ ErrorOK
      /\ \A u \in Loaders : LoadingOK(u) /\ GotOK(u)
  BY LoadAssumption DEF LoadInv
<1> USE <1>0
<1>1. CASE UNCHANGED loadVars
  <2>1. LoadTypeOK' /\ LockHeld' /\ RegistryOK' /\ ErrorOK'
    BY <1>1, Zenon DEF loadVars, LoadTypeOK, LockHeld, RegistryOK, ErrorOK
  <2>2. ASSUME NEW u \in Loaders PROVE LoadingOK(u)' /\ GotOK(u)'
    BY <1>1, Zenon DEF loadVars, LoadingOK, GotOK
  <2> QED
    BY <2>1, <2>2 DEF LoadInv
<1>2. ASSUME NEW t \in Loaders, lock_load(t) PROVE LoadInv'
  <2>1. /\ load[t].at = "lock" /\ loadLock = None /\ loadLock' = t
        /\ UNCHANGED <<exports, slot, services, dlError>>
    BY <1>2, Zenon DEF lock_load, LoadAt
  <2>2. /\ Alone(t) /\ load'[t].at \in {"recheck", "dlopen"}
        /\ load'[t].at = "dlopen" => ~load[t].shared
        /\ load'[t].lib = load[t].lib /\ load'[t].shared = load[t].shared
        /\ load'[t].got = load[t].got /\ load'[t].fns = load[t].fns
    BY <1>2, GotoFacts, Zenon DEF lock_load, LoadPlaces
  <2>3. LoadTypeOK' /\ LockHeld' /\ RegistryOK' /\ ErrorOK'
    <3>1. LoadTypeOK'
      BY <2>1, <2>2 DEF LoadTypeOK, Alone
    <3>2. LockHeld'
      BY <2>1, <2>2 DEF LockHeld, Alone
    <3>3. RegistryOK'
      BY <2>1, <2>2, Zenon DEF RegistryOK
    <3>4. ErrorOK'
      BY <2>1, <2>2 DEF LockHeld, ErrorOK, Alone
    <3> QED
      BY <3>1, <3>2, <3>3, <3>4
  <2>4. LoadingOK(t)'
    BY <2>1, <2>2, Zenon DEF LoadingOK
  <2>5. GotOK(t)'
    BY <2>1, <2>2, Zenon DEF GotOK
  <2> QED
    BY <2>1, <2>2, <2>3, <2>4, <2>5, Unmoved, Zenon DEF LoadInv, Alone
<1>3. ASSUME NEW t \in Loaders, Recheck(t) PROVE LoadInv'
  <2>1. /\ load[t].at = "recheck" /\ load[t].lib \in Libraries
        /\ UNCHANGED <<exports, slot, services, dlError>>
    BY <1>3, Zenon DEF Recheck, LoadAt, LoadingOK
  <2>2. CASE slot[load[t].lib] # None
    <3>1. /\ slot[load[t].lib] \in DOMAIN services
          /\ services[slot[load[t].lib]][1] = load[t].lib
          /\ slot[load[t].lib] \in Nat
      BY <2>1, <2>2 DEF LoadTypeOK, RegistryOK
    <3>2. Ok(slot[load[t].lib]) \in Got
      BY <3>1 DEF Ok, Got
    <3>3. /\ Alone(t) /\ load'[t].at = "idle" /\ loadLock' = None
          /\ load'[t].lib = load[t].lib /\ load'[t].shared = load[t].shared
          /\ load'[t].got = Ok(slot[load[t].lib])
      BY <1>3, <2>2, <3>2, LeaveFacts, Zenon DEF Recheck
    <3>4. LoadTypeOK' /\ LockHeld' /\ RegistryOK' /\ ErrorOK'
      <4>1. LoadTypeOK'
        BY <2>1, <3>3 DEF LoadTypeOK, Alone
      <4>2. LockHeld'
        BY <2>1, <3>3 DEF LockHeld, Alone
      <4>3. RegistryOK'
        BY <2>1, <3>3, Zenon DEF RegistryOK
      <4>4. ErrorOK'
        BY <2>1, <3>3 DEF LockHeld, ErrorOK, Alone
      <4> QED
        BY <4>1, <4>2, <4>3, <4>4
    <3>5. LoadingOK(t)' /\ GotOK(t)'
      BY <2>1, <3>1, <3>3, Returned, ReturnedOk, Zenon
    <3> QED
      BY <2>1, <3>3, <3>4, <3>5, Unmoved, Zenon DEF LoadInv, Alone
  <2>3. CASE slot[load[t].lib] = None
    <3>1. /\ Alone(t) /\ load'[t].at = "dlopen" /\ UNCHANGED loadLock
          /\ load'[t].lib = load[t].lib /\ load'[t].shared = load[t].shared
          /\ load'[t].got = load[t].got /\ load'[t].fns = load[t].fns
      BY <1>3, <2>3, GotoFacts, Zenon DEF Recheck, LoadPlaces
    <3>2. LoadTypeOK' /\ LockHeld' /\ ErrorOK'
      <4>1. LoadTypeOK'
        BY <2>1, <3>1, Zenon DEF LoadTypeOK, Alone
      <4>2. LockHeld'
        BY <2>1, <3>1, Zenon DEF LockHeld, Alone
      <4>3. ErrorOK'
        BY <2>1, <3>1 DEF LockHeld, ErrorOK, Alone
      <4> QED
        BY <4>1, <4>2, <4>3
    <3>5. RegistryOK'
      BY <2>1, Zenon DEF RegistryOK
    <3>3. LoadingOK(t)'
      BY <2>1, <2>3, <3>1, Zenon DEF LoadingOK
    <3>4. GotOK(t)'
      BY <2>1, <2>3, <3>1, Zenon DEF GotOK
    <3> QED
      BY <2>1, <3>1, <3>2, <3>3, <3>4, <3>5, Unmoved, Zenon DEF LoadInv, Alone
  <2> QED
    BY <2>2, <2>3
<1>4. ASSUME NEW t \in Loaders, dlopen(t) PROVE LoadInv'
  <2>1. /\ load[t].at = "dlopen" /\ load[t].lib \in Libraries
        /\ UNCHANGED <<exports, slot, services, loadLock>>
    BY <1>4 DEF dlopen, LoadAt, LoadingOK
  <2>2. CASE exports[load[t].lib] # None
    <3>1. load[t] \in LoadCall
      BY Zenon DEF LoadTypeOK
    <3> DEFINE r == [load[t] EXCEPT !.at = "dlsym", !.next = 1]
    <3>2. load' = [load EXCEPT ![t] = r] /\ UNCHANGED dlError
      BY <1>4, <2>2, Zenon DEF dlopen
    <3>3. r \in LoadCall
      BY <3>1, Zenon DEF LoadCall, LoadPlaces
    <3>4. /\ r.at = "dlsym" /\ r.next = 1 /\ r.lib = load[t].lib
          /\ r.shared = load[t].shared /\ r.fns = load[t].fns
          /\ r.got = load[t].got
      BY <3>1 DEF LoadCall
    <3> HIDE DEF r
    <3>5. Alone(t) /\ load'[t] = r
      BY <3>2, <3>3 DEF Alone, LoadTypeOK
    <3>6. LoadTypeOK' /\ LockHeld' /\ RegistryOK' /\ ErrorOK'
      <4>1. LoadTypeOK'
        BY <2>1, <3>2, <3>4, <3>5 DEF LoadTypeOK, Alone
      <4>2. LockHeld'
        BY <2>1, <3>2, <3>4, <3>5 DEF LockHeld, Alone
      <4>3. RegistryOK'
        BY <2>1, <3>2, <3>4, <3>5, Zenon DEF RegistryOK
      <4>4. ErrorOK'
        BY <2>1, <3>2, <3>4, <3>5 DEF LockHeld, ErrorOK, Alone
      <4> QED
        BY <4>1, <4>2, <4>3, <4>4
    <3>7. LoadingOK(t)'
      <4>1. load[t].fns = {} /\ 1 \in 1 .. Len(Symbols) + 1
            /\ {Symbols[i] : i \in 1 .. 1 - 1} = {}
        <5>1. load[t].fns = {}
          BY <2>1, Zenon DEF LoadingOK
        <5>2. Len(Symbols) \in Nat
          BY LoadAssumption
        <5>3. 1 \in 1 .. Len(Symbols) + 1 /\ 1 .. 1 - 1 = {}
          BY <5>2
        <5> QED
          BY <5>1, <5>3, Zenon
      <4> QED
        BY <4>1, <2>1, <2>2, <3>4, <3>5, Zenon DEF LoadInv, LoadingOK
    <3>8. GotOK(t)'
      BY <2>1, <3>4, <3>5, Zenon DEF GotOK
    <3> QED
      BY <2>1, <3>5, <3>6, <3>7, <3>8, Unmoved, Zenon DEF LoadInv, Alone
  <2>3. CASE exports[load[t].lib] = None
    <3>1. /\ Alone(t) /\ load'[t].at = "dlerror"
          /\ load'[t].lib = load[t].lib /\ load'[t].shared = load[t].shared
          /\ load'[t].got = load[t].got
          /\ dlError' = <<t, load[t].lib>>
      BY <1>4, <2>3, GotoFacts DEF dlopen, LoadPlaces
    <3>2. LoadTypeOK' /\ LockHeld' /\ RegistryOK'
      <4>1. LoadTypeOK'
        BY <2>1, <3>1, Zenon DEF LoadTypeOK, Alone
      <4>2. LockHeld'
        BY <2>1, <3>1 DEF LockHeld, Alone
      <4>3. RegistryOK'
        BY <2>1, <3>1, Zenon DEF RegistryOK
      <4> QED
        BY <4>1, <4>2, <4>3
    <3>3. ErrorOK'
      BY <2>1, <3>1 DEF LockHeld, ErrorOK, Alone
    <3>4. LoadingOK(t)' /\ GotOK(t)'
      BY <2>1, <3>1, Zenon DEF LoadingOK, GotOK
    <3> QED
      BY <2>1, <3>1, <3>2, <3>3, <3>4, Unmoved, Zenon DEF LoadInv, Alone
  <2> QED
    BY <2>2, <2>3
<1>5. ASSUME NEW t \in Loaders, dlerror_text(t) PROVE LoadInv'
  <2>1. /\ load[t].at = "dlerror" /\ load[t].lib \in Libraries
        /\ dlError = <<t, load[t].lib>> /\ dlError' = None
        /\ UNCHANGED <<exports, slot, services>>
    BY <1>5, Zenon DEF dlerror_text, LoadAt, LoadingOK, ErrorOK
  <2>2. Error("load", dlError) \in Got
    BY <2>1 DEF Error, Got
  <2>3. /\ Alone(t) /\ load'[t].at = "idle" /\ loadLock' = None
        /\ load'[t].lib = load[t].lib /\ load'[t].shared = load[t].shared
        /\ load'[t].got = Error("load", dlError)
    BY <1>5, <2>2, LeaveFacts, Zenon DEF dlerror_text
  <2>4. LoadTypeOK' /\ LockHeld' /\ RegistryOK'
    <3>1. LoadTypeOK'
      BY <2>1, <2>3, Zenon DEF LoadTypeOK, Alone
    <3>2. LockHeld'
      BY <2>1, <2>3 DEF LockHeld, Alone
    <3>3. RegistryOK'
      BY <2>1, <2>3, Zenon DEF RegistryOK
    <3> QED
      BY <3>1, <3>2, <3>3
  <2>5. ErrorOK'
    BY <2>1, <2>3, Zenon DEF LockHeld, ErrorOK, Alone
  <2>6. LoadingOK(t)' /\ GotOK(t)'
    BY <2>1, <2>3, Returned, ReturnedErr, Zenon
  <2> QED
    BY <2>1, <2>3, <2>4, <2>5, <2>6, Unmoved, Zenon DEF LoadInv, Alone
<1>6. ASSUME NEW t \in Loaders, dlsym(t) PROVE LoadInv'
  <2> DEFINE found == {Symbols[load[t].next]} \cap exports[load[t].lib]
             r == [load[t] EXCEPT !.next = load[t].next + 1,
                                  !.fns = load[t].fns \cup found]
  <2>1. /\ load[t].at = "dlsym" /\ load[t].lib \in Libraries
        /\ load[t].next \in 1 .. Len(Symbols)
        /\ exports[load[t].lib] # None
        /\ load' = [load EXCEPT ![t] = r]
        /\ UNCHANGED <<exports, slot, services, loadLock, dlError>>
    <3>1. load[t].at = "dlsym" /\ load[t].next <= Len(Symbols)
      BY <1>6 DEF dlsym, LoadAt
    <3>2. load[t].lib \in Libraries /\ exports[load[t].lib] # None
          /\ load[t].next \in 1 .. Len(Symbols) + 1
      BY <3>1, Zenon DEF LoadingOK
    <3>3. /\ load' = [load EXCEPT ![t].next = load[t].next + 1,
                                  ![t].fns = load[t].fns \cup found]
          /\ UNCHANGED <<exports, slot, services, loadLock, dlError>>
      BY <1>6, Zenon DEF dlsym
    <3>4. load' = [load EXCEPT ![t] = r]
      BY <3>3, Zenon DEF LoadTypeOK
    <3>5. load[t].next \in 1 .. Len(Symbols)
      BY <3>1, <3>2
    <3> QED
      BY <3>1, <3>2, <3>3, <3>4, <3>5, Zenon
  <2>2. load[t] \in LoadCall /\ exports[load[t].lib] \subseteq Range(Symbols)
    BY <2>1 DEF LoadTypeOK
  <2>3. r \in LoadCall
    <3>1. /\ load[t].next + 1 \in Nat
          /\ load[t].fns \cup found \in SUBSET Range(Symbols)
      BY <2>2 DEF LoadCall
    <3> QED
      BY <2>2, <3>1, Zenon DEF LoadCall
  <2>4. /\ r.at = "dlsym" /\ r.next = load[t].next + 1 /\ r.lib = load[t].lib
        /\ r.shared = load[t].shared /\ r.fns = load[t].fns \cup found
        /\ r.got = load[t].got
    BY <2>1, <2>2 DEF LoadCall
  <2> HIDE DEF r
  <2>5. Alone(t) /\ load'[t] = r
    BY <2>1, <2>3 DEF Alone, LoadTypeOK
  <2>6. LoadTypeOK' /\ LockHeld' /\ RegistryOK' /\ ErrorOK'
    <3>1. LoadTypeOK'
      BY <2>1, <2>4, <2>5, Zenon DEF LoadTypeOK, Alone
    <3>2. LockHeld'
      BY <2>1, <2>4, <2>5 DEF LockHeld, Alone
    <3>3. RegistryOK'
      BY <2>1, <2>4, <2>5, Zenon DEF RegistryOK
    <3>4. ErrorOK'
      BY <2>1, <2>4, <2>5 DEF LockHeld, ErrorOK, Alone
    <3> QED
      BY <3>1, <3>2, <3>3, <3>4
  <2>7. LoadingOK(t)'
    <3>0. /\ load[t].next \in 1 .. Len(Symbols) /\ r.next = load[t].next + 1
          /\ Len(Symbols) \in Nat
      BY <2>1, <2>4, LoadAssumption
    <3>1. r.fns = {Symbols[i] : i \in 1 .. r.next - 1} \cap exports[load[t].lib]
      <4>1. load[t].fns = {Symbols[i] : i \in 1 .. load[t].next - 1}
                             \cap exports[load[t].lib]
        BY <2>1, Zenon DEF LoadingOK
      <4>2. 1 .. r.next - 1 = (1 .. load[t].next - 1) \cup {load[t].next}
        BY <3>0
      <4> QED
        BY <4>1, <4>2, <2>4, Zenon
    <3>2. r.next \in 1 .. Len(Symbols) + 1
      BY <3>0
    <3>3. load[t].shared => slot[load[t].lib] = None
      BY <2>1, Zenon DEF LoadingOK
    <3>4. /\ load'[t].at = "dlsym" /\ load'[t].lib = load[t].lib
          /\ load'[t].shared = load[t].shared /\ load'[t].next = r.next
          /\ load'[t].fns = r.fns /\ slot' = slot /\ exports' = exports
      BY <2>1, <2>4, <2>5, Zenon
    <3>5. load'[t].at # "idle" /\ load'[t].at # "publish"
          /\ load'[t].at \notin {"lock", "recheck", "dlopen"}
      BY <3>4
    <3> QED
      BY <2>1, <3>1, <3>2, <3>3, <3>4, <3>5, Zenon DEF LoadingOK
  <2>8. GotOK(t)'
    BY <2>1, <2>4, <2>5 DEF GotOK
  <2> QED
    BY <2>1, <2>5, <2>6, <2>7, <2>8, Unmoved, Zenon DEF LoadInv, Alone
<1>7. ASSUME NEW t \in Loaders, NoSymbol(t) PROVE LoadInv'
  <2>1. /\ load[t].at = "dlsym" /\ load[t].lib \in Libraries
        /\ UNCHANGED <<exports, slot, services, dlError>>
    BY <1>7, Zenon DEF NoSymbol, LoadAt, LoadingOK
  <2>2. Error("symbol", load[t].lib) \in Got
    BY <2>1 DEF Error, Got
  <2>3. /\ Alone(t) /\ load'[t].at = "idle" /\ loadLock' = None
        /\ load'[t].lib = load[t].lib /\ load'[t].shared = load[t].shared
        /\ load'[t].got = Error("symbol", load[t].lib)
    BY <1>7, <2>2, LeaveFacts, Zenon DEF NoSymbol
  <2>4. LoadTypeOK' /\ RegistryOK'
    <3>1. LoadTypeOK'
      BY <2>1, <2>3, Zenon DEF LoadTypeOK, Alone
    <3>2. RegistryOK'
      BY <2>1, <2>3, Zenon DEF RegistryOK
    <3> QED
      BY <3>1, <3>2
  <2>7. ErrorOK'
    BY <2>1, <2>3, Zenon DEF ErrorOK, Alone
  <2>5. LockHeld'
    BY <2>1, <2>3, LoadAssumption, Zenon DEF LockHeld, Alone
  <2>6. LoadingOK(t)' /\ GotOK(t)'
    BY <2>1, <2>3, Returned, ReturnedErr, Zenon
  <2> QED
    BY <2>1, <2>3, <2>4, <2>5, <2>6, <2>7, Unmoved, Zenon DEF LoadInv, Alone
<1>8. ASSUME NEW t \in Loaders, Push(t) PROVE LoadInv'
  <2> DEFINE n == Len(services) + 1
             s == <<load[t].lib, load[t].fns>>
  <2>1. /\ load[t].at = "dlsym" /\ load[t].lib \in Libraries
        /\ exports[load[t].lib] # None
        /\ services' = Append(services, s)
        /\ UNCHANGED <<exports, slot, dlError>>
    BY <1>8, Zenon DEF Push, LoadAt, LoadingOK
  <2>2. load[t] \in LoadCall /\ exports[load[t].lib] \subseteq Range(Symbols)
    BY <2>1, Zenon DEF LoadTypeOK
  <2>3. load[t].fns = exports[load[t].lib]
    <3>1. load[t].next - 1 = Len(Symbols)
      <4>1. /\ load[t].next > Len(Symbols)
            /\ load[t].next \in 1 .. Len(Symbols) + 1
        BY <1>8, <2>1, Zenon DEF Push, LoadingOK
      <4>2. Len(Symbols) \in Nat
        BY LoadAssumption
      <4> HIDE <1>0
      <4> QED
        BY <4>1, <4>2
    <3>2. load[t].fns = {Symbols[i] : i \in 1 .. Len(Symbols)}
                           \cap exports[load[t].lib]
      BY <2>1, <3>1, Zenon DEF LoadingOK
    <3>3. Range(Symbols) = {Symbols[i] : i \in 1 .. Len(Symbols)}
      BY DEF Range
    <3> QED
      BY <2>2, <3>2, <3>3
  <2>4. s \in Libraries \X SUBSET Range(Symbols)
    BY <2>1, <2>2, Zenon DEF LoadCall
  <2>5. services \in Seq(Libraries \X SUBSET Range(Symbols)) /\ n \in Nat
    BY DEF LoadTypeOK
  <2>6. /\ services' \in Seq(Libraries \X SUBSET Range(Symbols))
        /\ Len(services') = n /\ DOMAIN services' = DOMAIN services \cup {n}
        /\ services'[n] = s
        /\ \A i \in DOMAIN services : services'[i] = services[i]
    BY <2>1, <2>4, <2>5
  <2>7. Kept
    BY <2>1, <2>6 DEF Kept
  <2>8. RegistryOK'
    BY <2>1, <2>3, <2>6 DEF RegistryOK
  <2>9. CASE load[t].shared
    <3>1. /\ Alone(t) /\ load'[t].at = "publish" /\ UNCHANGED loadLock
          /\ load'[t].lib = load[t].lib /\ load'[t].shared = load[t].shared
          /\ load'[t].got = load[t].got
      BY <1>8, <2>9, GotoFacts, Zenon DEF Push, LoadPlaces
    <3>2. LoadTypeOK' /\ LockHeld' /\ ErrorOK'
      <4>1. LoadTypeOK'
        BY <2>1, <2>6, <3>1, Zenon DEF LoadTypeOK, Alone
      <4>2. LockHeld'
        BY <2>1, <2>6, <3>1, Zenon DEF LockHeld, Alone
      <4>3. ErrorOK'
        BY <2>1, <2>6, <3>1, Zenon DEF LockHeld, ErrorOK, Alone
      <4> QED
        BY <4>1, <4>2, <4>3
    <3>3. LoadingOK(t)'
      <4>1. slot[load[t].lib] = None
        BY <2>1, <2>9, Zenon DEF LoadingOK
      <4>2. Len(services') > 0
        BY <2>5, <2>6
      <4>3. services'[Len(services')][1] = load[t].lib
        BY <2>6
      <4> QED
        BY <2>1, <2>9, <3>1, <4>1, <4>2, <4>3, Zenon DEF LoadingOK
    <3>4. GotOK(t)'
      BY <2>7, <3>1, GotKept
    <3> QED
      BY <2>1, <2>7, <2>8, <3>1, <3>2, <3>3, <3>4, OthersKept DEF LoadInv, Alone
  <2>10. CASE ~load[t].shared
    <3>1. Ok(Len(services')) \in Got
      BY <2>5, <2>6, Zenon DEF Ok, Got
    <3>2. /\ Alone(t) /\ load'[t].at = "idle" /\ loadLock' = None
          /\ load'[t].lib = load[t].lib /\ load'[t].shared = load[t].shared
          /\ load'[t].got = Ok(n)
      BY <1>8, <2>6, <2>10, <3>1, LeaveFacts, Zenon DEF Push
    <3>3. LoadTypeOK' /\ LockHeld' /\ ErrorOK'
      <4>1. LoadTypeOK'
        BY <2>1, <2>6, <3>2, Zenon DEF LoadTypeOK, Alone
      <4>2. LockHeld'
        BY <2>1, <2>6, <3>2, Zenon DEF LockHeld, Alone
      <4>3. ErrorOK'
        BY <2>1, <2>6, <3>2, Zenon DEF LockHeld, ErrorOK, Alone
      <4> QED
        BY <4>1, <4>2, <4>3
    <3>4. LoadingOK(t)' /\ GotOK(t)'
      BY <2>1, <2>6, <2>10, <3>2, Returned, ReturnedOk
    <3> QED
      BY <2>1, <2>7, <2>8, <3>2, <3>3, <3>4, OthersKept, Zenon
         DEF LoadInv, Alone
  <2> QED
    BY <2>9, <2>10
<1>9. ASSUME NEW t \in Loaders, Publish(t) PROVE LoadInv'
  <2> DEFINE n == Len(services)
             l == load[t].lib
  <2>1. /\ load[t].at = "publish" /\ l \in Libraries /\ load[t].shared
        /\ slot[l] = None /\ n > 0 /\ services[n][1] = l
        /\ UNCHANGED <<exports, services, dlError>>
    BY <1>9, Zenon DEF Publish, LoadAt, LoadingOK
  <2>2. n \in Nat /\ n \in DOMAIN services
    BY <2>1 DEF LoadTypeOK
  <2>3. slot' = [slot EXCEPT ![l] = n]
    BY <1>9, <2>1, Zenon DEF Publish
  <2>4. Ok(n) \in Got
    BY <2>2 DEF Ok, Got
  <2>5. /\ Alone(t) /\ load'[t].at = "idle" /\ loadLock' = None
        /\ load'[t].lib = l /\ load'[t].shared = load[t].shared
        /\ load'[t].got = Ok(n)
    BY <1>9, <2>4, LeaveFacts DEF Publish
  <2>6. LoadTypeOK' /\ LockHeld' /\ ErrorOK'
    <3>1. LoadTypeOK'
      BY <2>1, <2>2, <2>3, <2>5, Zenon DEF LoadTypeOK, Alone
    <3>2. LockHeld'
      BY <2>1, <2>2, <2>3, <2>5, Zenon DEF LockHeld, Alone
    <3>3. ErrorOK'
      BY <2>1, <2>2, <2>3, <2>5, Zenon DEF LockHeld, ErrorOK, Alone
    <3> QED
      BY <3>1, <3>2, <3>3
  <2>7. RegistryOK'
    BY <2>1, <2>2, <2>3, Zenon DEF LoadTypeOK, RegistryOK
  <2>8. Kept
    BY <2>1, <2>3, Zenon DEF LoadTypeOK, Kept
  <2>9. LoadingOK(t)' /\ GotOK(t)'
    <3>1. slot'[l] = n
      BY <2>1, <2>3 DEF LoadTypeOK
    <3> QED
      BY <2>1, <2>2, <2>5, <3>1, Returned, ReturnedOk
  <2> QED
    BY <2>1, <2>5, <2>6, <2>7, <2>8, <2>9, OthersKept, Zenon DEF LoadInv, Alone
<1>10. ASSUME NEW t \in Loaders, NEW l \in Libraries, Hit(t, l) PROVE LoadInv'
  <2> DEFINE r == [Idle EXCEPT !.lib = l, !.shared = TRUE, !.got = Ok(slot[l])]
  <2>1. /\ load[t].at = "idle" /\ slot[l] # None
        /\ load' = [load EXCEPT ![t] = r]
        /\ UNCHANGED <<exports, slot, services, loadLock, dlError>>
    BY <1>10, Zenon DEF Hit, LoadAt
  <2>2. /\ slot[l] \in Nat /\ slot[l] \in DOMAIN services
        /\ services[slot[l]][1] = l
    BY <2>1 DEF LoadTypeOK, RegistryOK
  <2>3. r \in LoadCall
    <3>1. Ok(slot[l]) \in Got
      BY <2>2 DEF Got, Ok
    <3> QED
      BY <3>1, IdleType, Zenon DEF LoadCall
  <2>4. r.at = "idle" /\ r.lib = l /\ r.got = Ok(slot[l])
    BY Zenon DEF Idle
  <2> HIDE DEF r
  <2>5. Alone(t) /\ load'[t] = r
    BY <2>1, <2>3 DEF Alone, LoadTypeOK
  <2>6. LoadTypeOK' /\ LockHeld' /\ RegistryOK' /\ ErrorOK'
    <3>1. LoadTypeOK'
      BY <2>1, <2>4, <2>5, Zenon DEF LoadTypeOK, Alone
    <3>2. LockHeld'
      BY <2>1, <2>4, <2>5 DEF LockHeld, Alone
    <3>3. RegistryOK'
      BY <2>1, <2>4, <2>5 DEF RegistryOK
    <3>4. ErrorOK'
      BY <2>1, <2>4, <2>5 DEF LockHeld, ErrorOK, Alone
    <3> QED
      BY <3>1, <3>2, <3>3, <3>4
  <2>7. LoadingOK(t)' /\ GotOK(t)'
    BY <2>1, <2>2, <2>4, <2>5, Returned, ReturnedOk
  <2> QED
    BY <2>1, <2>5, <2>6, <2>7, Unmoved DEF LoadInv, Alone
<1>11. ASSUME NEW t \in Loaders, NEW l \in Libraries, NEW shared \in BOOLEAN,
              Ask(t, l, shared)
       PROVE  LoadInv'
  <2> DEFINE r == [Idle EXCEPT !.at = "lock", !.lib = l, !.shared = shared]
  <2>1. /\ load[t].at = "idle" /\ load' = [load EXCEPT ![t] = r]
        /\ UNCHANGED <<exports, slot, services, loadLock, dlError>>
    BY <1>11, Zenon DEF Ask, LoadAt
  <2>2. r \in LoadCall
    BY IdleType, Zenon DEF LoadCall, LoadPlaces
  <2>3. r.at = "lock" /\ r.lib = l /\ r.fns = {} /\ r.got = None
    BY Zenon DEF Idle
  <2> HIDE DEF r
  <2>4. Alone(t) /\ load'[t] = r
    BY <2>1, <2>2, Zenon DEF Alone, LoadTypeOK
  <2>5. LoadTypeOK' /\ LockHeld' /\ RegistryOK' /\ ErrorOK'
    <3>1. LoadTypeOK'
      BY <2>1, <2>3, <2>4 DEF LoadTypeOK, Alone
    <3>2. LockHeld'
      BY <2>1, <2>3, <2>4 DEF LockHeld, Alone
    <3>3. RegistryOK'
      BY <2>1, <2>3, <2>4 DEF RegistryOK
    <3>4. ErrorOK'
      BY <2>1, <2>3, <2>4 DEF LockHeld, ErrorOK, Alone
    <3> QED
      BY <3>1, <3>2, <3>3, <3>4
  <2>6. LoadingOK(t)' /\ GotOK(t)'
    BY <2>1, <2>3, <2>4, Zenon DEF LoadingOK, GotOK
  <2> QED
    BY <2>1, <2>4, <2>5, <2>6, Unmoved DEF LoadInv, Alone
<1>12. ASSUME NEW l \in Libraries, Install(l) PROVE LoadInv'
  <2>1. /\ exports[l] = None
        /\ exports' = [exports EXCEPT ![l] = Range(Symbols)]
        /\ UNCHANGED <<slot, services, loadLock, dlError, load>>
    BY <1>12 DEF Install
  <2>2. LoadTypeOK' /\ LockHeld' /\ ErrorOK'
    <3>1. LoadTypeOK'
      BY <2>1 DEF LoadTypeOK
    <3>2. LockHeld'
      BY <2>1 DEF LockHeld
    <3>3. ErrorOK'
      BY <2>1, Zenon DEF LockHeld, ErrorOK
    <3> QED
      BY <3>1, <3>2, <3>3
  <2>3. RegistryOK'
    <3>1. \A i \in DOMAIN services : services[i][1] \in Libraries
      BY DEF LoadTypeOK
    <3>2. \A i \in DOMAIN services : services[i][1] # l
      BY <2>1, Zenon DEF RegistryOK
    <3>3. \A m \in Libraries : m # l => exports'[m] = exports[m]
      BY <2>1, Zenon DEF LoadTypeOK
    <3>4. \A i \in DOMAIN services :
            exports'[services[i][1]] = exports[services[i][1]]
      BY <3>1, <3>2, <3>3, Zenon
    <3>5. slot' = slot /\ services' = services
      BY <2>1, Zenon
    <3> QED
      BY <3>4, <3>5, Zenon DEF RegistryOK
  <2>4. ASSUME NEW u \in Loaders PROVE LoadingOK(u)' /\ GotOK(u)'
    BY <2>1, Zenon DEF LoadTypeOK, LoadingOK, GotOK
  <2> QED
    BY <2>2, <2>3, <2>4 DEF LoadInv
<1> QED
  BY <1>1, <1>2, <1>3, <1>4, <1>5, <1>6, <1>7, <1>8, <1>9, <1>10, <1>11, <1>12,
     Zenon DEF LoadNext, LoadStep

\* Source::service, Service::open and load_locked for any number of threads,
\* modules and service functions.
THEOREM LoadsAgreeHolds == LoadSpec => []LoadsAgree
<1>1. LoadInv => LoadsAgree
  <2> SUFFICES ASSUME LoadInv PROVE LoadsAgree
    OBVIOUS
  <2>1. loadLock = None => dlError = None
    BY LoadAssumption DEF LoadInv, LockHeld, ErrorOK
  <2> QED
    BY <2>1, Zenon DEF LoadInv, RegistryOK, GotOK, LoadsAgree
<1> QED
  BY <1>1, LoadInitInv, LoadStepInv, PTL DEF LoadSpec
=============================================================================
