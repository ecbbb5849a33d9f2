---------------------------- MODULE MdbTxnProofs ----------------------------
(***************************************************************************)
(* The claims, the dbi_lock and the insertions of MdbTxn are right for any *)
(* threads and environments, and calls nested to any depth.  What a thread *)
(* has in ACTIVE and in liblmdb is read off its stack of calls (Sound);    *)
(* that the stack changes only at the top makes every step of a thread a   *)
(* frame dropped, a frame pushed, or the one after the other (DropSound,   *)
(* PushSound).  Between threads there are the two mutexes: a writer's      *)
(* transaction is the mutex's holder's (Written), and a call past lock_dbi *)
(* holds the dbi_lock (Locked).                                            *)
(***************************************************************************)
EXTENDS MdbTxn, SequenceTheorems, TLAPS

\* A call between its claim and its end; one that has a transaction.
Holds(f) == f.at \in {"begin", "running", "done"}
Runs(f)  == f.at \in {"running", "done"}
Kind(f)  == IF f.ro THEN "read" ELSE "write"

\* The operations that write have a write transaction, Env::read does not,
\* and open_dbi is given a name.
Fits(f) ==
    /\ f.op = "read" => f.ro
    /\ f.op \notin {"read"} \cup OpenOps => ~f.ro
    /\ f.op \in OpenOps => f.name \in Names

\* A call inside which another can be made.
Inside(f) == f.op \in {"read", "write"} /\ f.at = "running"

\* A stack of calls s, against what its thread has claimed, a, and its
\* transactions, x.
Sound(s, a, x) ==
    /\ \A i \in 1 .. Len(s) : Fits(s[i]) /\ (i < Len(s) => Inside(s[i]))
    /\ \A e \in Envs :
          e \in a <=> \E i \in 1 .. Len(s) : Holds(s[i]) /\ s[i].env = e
    /\ \A i, j \in 1 .. Len(s) :
          Holds(s[i]) /\ Holds(s[j]) /\ s[i].env = s[j].env => i = j
    /\ \A i \in 1 .. Len(s) : Runs(s[i]) => x[s[i].env].is = Kind(s[i])
    /\ \A e \in Envs :
          x[e] # NoTxn => \E i \in 1 .. Len(s) : Runs(s[i]) /\ s[i].env = e

Sounds == \A t \in Threads : Sound(stack[t], active[t], txn[t])

\* The writer mutex is its holder's write transaction.
Written ==
    \A t \in Threads, e \in Envs : writer[e] = t <=> txn[t][e].is = "write"

\* open_dbi past its first step holds the dbi_lock.
Locked ==
    \A t \in Threads :
        Opening(t) /\ Top(t).at # "lock" => dbi[Top(t).env] = t

\* put_if_absent's view is what is committed, and then adds to it.
Inserting ==
    \A t \in Threads :
        LET old == store[Top(t).env].kv
            new == txn[t][Top(t).env].view.kv
        IN /\ At(t, {"insert"}, "running") => new = old
           /\ At(t, {"insert"}, "done") =>
                 \A k \in Keys : old[k] # NoValue => new[k] = old[k]

TxnInv == TypeOK /\ Sounds /\ Written /\ Locked /\ Inserting /\ DbsUsable
-----------------------------------------------------------------------------
(* Stacks. *)

\* The top of a stack, and what is under it.
LEMMA FrontLast ==
    ASSUME NEW s \in Seq(Frame), s # <<>>
    PROVE  /\ Len(s) \in Nat \ {0}
           /\ Last(s) = s[Len(s)] /\ Last(s) \in Frame
           /\ Front(s) \in Seq(Frame) /\ Len(Front(s)) = Len(s) - 1
           /\ \A i \in 1 .. Len(s) - 1 : Front(s)[i] = s[i]
<1>1. Len(s) \in Nat \ {0} /\ Last(s) = s[Len(s)] /\ Last(s) \in Frame
  BY DEF Last
<1>2. PICK m \in Nat : m = Len(s) - 1
  BY <1>1
<1>3. \A i \in 1 .. m : s[i] \in Frame
  BY <1>1, <1>2
<1>4. Front(s) \in Seq(Frame) /\ Len(Front(s)) = m
  BY <1>2, <1>3, SubSeqProperties DEF Front
<1>5. \A i \in 1 .. m : Front(s)[i] = s[i]
  BY <1>1, <1>2 DEF Front
<1> QED
  BY <1>1, <1>2, <1>4, <1>5

\* A call pushed on a stack.
LEMMA Appended ==
    ASSUME NEW s \in Seq(Frame), NEW f \in Frame
    PROVE  /\ Append(s, f) = s \o <<f>>
           /\ s \o <<f>> \in Seq(Frame) /\ Len(s \o <<f>>) = Len(s) + 1
           /\ s \o <<f>> # <<>> /\ Last(s \o <<f>>) = f
<1>1. Append(s, f) = s \o <<f>>
  OBVIOUS
<1>2. s \o <<f>> \in Seq(Frame) /\ Len(s \o <<f>>) = Len(s) + 1
  OBVIOUS
<1>3. (s \o <<f>>)[Len(s) + 1] = f
  OBVIOUS
<1>4. s \o <<f>> # <<>>
  BY <1>2
<1> QED
  BY <1>1, <1>2, <1>3, <1>4 DEF Last

\* What is left of a thread's claims and transactions when its last call has
\* ended.
Less(s, a) == IF Holds(Last(s)) THEN a \ {Last(s).env} ELSE a
Ended(s, x) == IF Runs(Last(s)) THEN [x EXCEPT ![Last(s).env] = NoTxn] ELSE x

\* A call can be made on top of s.
Open(s) == s = <<>> \/ Inside(Last(s))

\* A stack without its top is sound for the claims and transactions left.
LEMMA DropSound ==
    ASSUME NEW s \in Seq(Frame), s # <<>>, NEW a,
           NEW x \in [Envs -> Txn \cup {NoTxn}], Sound(s, a, x)
    PROVE  Sound(Front(s), Less(s, a), Ended(s, x)) /\ Open(Front(s))
<1> DEFINE n == Len(s)
           r == Front(s)
           f == s[n]
           b == Less(s, a)
           y == Ended(s, x)
<1>1. /\ n \in Nat \ {0} /\ f \in Frame /\ Last(s) = f
      /\ r \in Seq(Frame) /\ Len(r) = n - 1
      /\ \A i \in 1 .. n - 1 : r[i] = s[i]
  BY FrontLast
<1>2. /\ \A i \in 1 .. n : s[i] \in Frame /\ s[i].env \in Envs
      /\ f.env \in Envs
  <2>1. \A i \in 1 .. n : s[i] \in Frame
    OBVIOUS
  <2> QED
    BY <1>1, <2>1 DEF Frame
<1>3. \A i \in 1 .. n - 1 : Fits(r[i]) /\ Inside(r[i])
  BY <1>1 DEF Sound
<1>4. ASSUME NEW e \in Envs
      PROVE  e \in b <=> \E i \in 1 .. n - 1 : Holds(r[i]) /\ r[i].env = e
  <2>1. CASE Holds(f) /\ e = f.env
    BY <1>1, <2>1 DEF Sound, Less
  <2>2. CASE ~(Holds(f) /\ e = f.env)
    BY <1>1, <2>2 DEF Sound, Less
  <2> QED
    BY <2>1, <2>2
<1>5. \A i, j \in 1 .. n - 1 :
         Holds(r[i]) /\ Holds(r[j]) /\ r[i].env = r[j].env => i = j
  BY <1>1 DEF Sound
<1>6. ASSUME NEW i \in 1 .. n - 1, Runs(r[i])
      PROVE  y[r[i].env].is = Kind(r[i])
  <2>1. Runs(s[i]) /\ r[i] = s[i] /\ x[s[i].env].is = Kind(s[i])
    BY <1>1, <1>6 DEF Sound
  <2>2. Runs(f) => s[i].env # f.env
    BY <1>1, <2>1 DEF Sound, Holds, Runs
  <2> QED
    BY <1>1, <1>2, <2>1, <2>2 DEF Ended
<1>7. ASSUME NEW e \in Envs, y[e] # NoTxn
      PROVE  \E i \in 1 .. n - 1 : Runs(r[i]) /\ r[i].env = e
  <2>1. x[e] # NoTxn /\ ~(Runs(f) /\ e = f.env)
    BY <1>1, <1>2, <1>7 DEF Ended
  <2>2. PICK i \in 1 .. n : Runs(s[i]) /\ s[i].env = e
    BY <2>1 DEF Sound
  <2>3. i \in 1 .. n - 1
    BY <1>1, <2>1, <2>2
  <2> QED
    BY <1>1, <2>2, <2>3
<1>8. Sound(r, b, y)
  BY <1>1, <1>3, <1>4, <1>5, <1>6, <1>7 DEF Sound
<1>9. Open(r)
  BY <1>1, <1>3 DEF Open, Last
<1> QED
  BY <1>8, <1>9

\* A call made, or a step of the last one: it holds what its frame says.
LEMMA PushSound ==
    ASSUME NEW r \in Seq(Frame), NEW a,
           NEW x \in [Envs -> Txn \cup {NoTxn}], Sound(r, a, x), Open(r),
           NEW f \in Frame, Fits(f), Holds(f) => f.env \notin a,
           NEW y \in Txn, Runs(f) => y.is = Kind(f)
    PROVE  Sound(r \o <<f>>,
                 IF Holds(f) THEN a \cup {f.env} ELSE a,
                 IF Runs(f) THEN [x EXCEPT ![f.env] = y] ELSE x)
<1> DEFINE n == Len(r) + 1
           s == r \o <<f>>
           b == IF Holds(f) THEN a \cup {f.env} ELSE a
           z == IF Runs(f) THEN [x EXCEPT ![f.env] = y] ELSE x
<1>1. /\ n \in Nat /\ s \in Seq(Frame) /\ Len(s) = n /\ s[n] = f
      /\ \A i \in 1 .. n - 1 : s[i] = r[i] /\ r[i] \in Frame /\ r[i].env \in Envs
      /\ f.env \in Envs
  <2>1. n \in Nat /\ s \in Seq(Frame) /\ Len(s) = n /\ s[n] = f
    OBVIOUS
  <2>2. \A i \in 1 .. n - 1 : s[i] = r[i] /\ r[i] \in Frame
    OBVIOUS
  <2> QED
    BY <2>1, <2>2 DEF Frame
<1>2. ASSUME NEW i \in 1 .. n
      PROVE  Fits(s[i]) /\ (i < n => Inside(s[i]))
  BY <1>1 DEF Sound, Open, Last
<1>3. ASSUME NEW e \in Envs
      PROVE  e \in b <=> \E i \in 1 .. n : Holds(s[i]) /\ s[i].env = e
  <2>1. CASE Holds(f) /\ e = f.env
    BY <1>1, <2>1
  <2>2. CASE ~(Holds(f) /\ e = f.env)
    <3>1. e \in b <=> e \in a
      BY <2>2
    <3>2. e \in a <=> \E i \in 1 .. n - 1 : Holds(r[i]) /\ r[i].env = e
      BY <1>1 DEF Sound
    <3> QED
      BY <1>1, <2>2, <3>1, <3>2
  <2> QED
    BY <2>1, <2>2
<1>4. ASSUME NEW i \in 1 .. n - 1, Holds(r[i])
      PROVE  r[i].env \in a
  BY <1>1, <1>4 DEF Sound
<1>5. ASSUME NEW i \in 1 .. n, NEW j \in 1 .. n,
             Holds(s[i]), Holds(s[j]), s[i].env = s[j].env
      PROVE  i = j
  <2>1. CASE i < n /\ j < n
    BY <1>1, <1>5, <2>1 DEF Sound
  <2>2. CASE i = n \/ j = n
    BY <1>1, <1>4, <1>5, <2>2
  <2> QED
    BY <1>1, <2>1, <2>2
<1>6. ASSUME NEW i \in 1 .. n, Runs(s[i])
      PROVE  z[s[i].env].is = Kind(s[i])
  <2>1. CASE i = n
    BY <1>1, <1>6, <2>1
  <2>2. CASE i < n
    <3>1. x[r[i].env].is = Kind(r[i]) /\ s[i] = r[i] /\ Holds(r[i])
      BY <1>1, <1>6, <2>2 DEF Sound, Holds, Runs
    <3>2. Runs(f) => r[i].env # f.env
      BY <1>1, <1>4, <2>2, <3>1 DEF Holds, Runs
    <3> QED
      BY <1>1, <3>1, <3>2
  <2> QED
    BY <1>1, <2>1, <2>2
<1>7. ASSUME NEW e \in Envs, z[e] # NoTxn
      PROVE  \E i \in 1 .. n : Runs(s[i]) /\ s[i].env = e
  <2>1. CASE Runs(f) /\ e = f.env
    BY <1>1, <2>1
  <2>2. CASE ~(Runs(f) /\ e = f.env)
    <3>1. x[e] # NoTxn
      BY <1>1, <1>7, <2>2
    <3> QED
      BY <1>1, <3>1 DEF Sound
  <2> QED
    BY <2>1, <2>2
<1> QED
  BY <1>1, <1>2, <1>3, <1>5, <1>6, <1>7, Zenon DEF Sound

-----------------------------------------------------------------------------
(* A step of one thread. *)

\* The call that runs, and what its thread has on its account.
LEMMA TopFacts ==
    ASSUME TypeOK, Sounds, NEW t \in Threads, Busy(t)
    PROVE  /\ stack[t] \in Seq(Frame) /\ stack[t] # <<>>
           /\ txn[t] \in [Envs -> Txn \cup {NoTxn}]
           /\ Top(t) \in Frame /\ Top(t).env \in Envs /\ Fits(Top(t))
           /\ Holds(Top(t)) => Top(t).env \in active[t]
           /\ Runs(Top(t)) => /\ txn[t][Top(t).env] \in Txn
                              /\ txn[t][Top(t).env].is = Kind(Top(t))
           /\ ~Runs(Top(t)) /\ Holds(Top(t)) => txn[t][Top(t).env] = NoTxn
<1> DEFINE s == stack[t]
           n == Len(s)
           e == Top(t).env
<1>1. s \in Seq(Frame) /\ s # <<>> /\ txn[t] \in [Envs -> Txn \cup {NoTxn}]
  BY DEF TypeOK, Busy
<1>2. n \in Nat \ {0} /\ Top(t) = s[n] /\ Top(t) \in Frame /\ n \in 1 .. n
  BY <1>1, FrontLast DEF Top
<1>3. e \in Envs
  BY <1>2 DEF Frame
<1>4. Sound(s, active[t], txn[t])
  BY DEF Sounds
<1>5. Fits(Top(t)) /\ (Holds(Top(t)) => e \in active[t])
  BY <1>2, <1>3, <1>4 DEF Sound
<1>6. Runs(Top(t)) => txn[t][e].is = Kind(Top(t))
  BY <1>2, <1>4 DEF Sound
<1>7. Runs(Top(t)) => txn[t][e] \in Txn
  BY <1>1, <1>3, <1>6 DEF Kind, NoTxn
<1>8. ASSUME ~Runs(Top(t)), Holds(Top(t)), txn[t][e] # NoTxn
      PROVE  FALSE
  <2>1. PICK i \in 1 .. n : Runs(s[i]) /\ s[i].env = e
    BY <1>3, <1>4, <1>8 DEF Sound
  <2>2. i = n
    BY <1>2, <1>4, <1>8, <2>1 DEF Sound, Holds, Runs
  <2> QED
    BY <1>2, <1>8, <2>1, <2>2
<1> QED
  BY <1>1, <1>2, <1>3, <1>5, <1>6, <1>7, <1>8

\* Only thread t moves.
LEMMA OneThread ==
    ASSUME TypeOK, Sounds, NEW t \in Threads, NEW s, NEW a, NEW x,
           stack' = [stack EXCEPT ![t] = s],
           active' = [active EXCEPT ![t] = a],
           txn' = [txn EXCEPT ![t] = x],
           Sound(s, a, x)
    PROVE  Sounds'
<1> SUFFICES ASSUME NEW u \in Threads
             PROVE  Sound(stack'[u], active'[u], txn'[u])
  BY DEF Sounds
<1>1. Sound(stack[u], active[u], txn[u])
  BY DEF Sounds
<1>2. CASE u = t
  <2>1. stack'[u] = s /\ active'[u] = a /\ txn'[u] = x
    BY <1>2 DEF TypeOK
  <2> QED
    BY <2>1
<1>3. CASE u # t
  <2>1. stack'[u] = stack[u] /\ active'[u] = active[u] /\ txn'[u] = txn[u]
    BY <1>3 DEF TypeOK
  <2> QED
    BY <1>1, <2>1
<1> QED
  BY <1>2, <1>3

\* The call of t ends.
LEMMA EndSound ==
    ASSUME TypeOK, Sounds, NEW t \in Threads, Busy(t), Pop(t),
           active' = [active EXCEPT ![t] = Less(stack[t], active[t])],
           txn' = [txn EXCEPT ![t] = Ended(stack[t], txn[t])]
    PROVE  Sounds'
<1>1. Sound(stack[t], active[t], txn[t])
  BY DEF Sounds
<1>2. Sound(Front(stack[t]), Less(stack[t], active[t]), Ended(stack[t], txn[t]))
  BY <1>1, TopFacts, DropSound
<1>3. stack' = [stack EXCEPT ![t] = Front(stack[t])]
  BY DEF Pop, TypeOK
<1> QED
  BY <1>2, <1>3, OneThread, Zenon

\* The call of t goes on to f, in a transaction y if it has one.
LEMMA GoOnSound ==
    ASSUME TypeOK, Sounds, NEW t \in Threads, Busy(t),
           NEW f \in Frame, f.env = Top(t).env, Fits(f), Replace(t, f),
           Holds(f) => Holds(Top(t)) \/ f.env \notin active[t],
           NEW y \in Txn, Runs(f) => y.is = Kind(f),
           active' = [active EXCEPT ![t] =
                         IF Holds(f) THEN active[t] \cup {f.env}
                                     ELSE Less(stack[t], active[t])],
           txn' = [txn EXCEPT ![t] =
                         IF Runs(f) THEN [txn[t] EXCEPT ![f.env] = y]
                                    ELSE Ended(stack[t], txn[t])]
    PROVE  Sounds'
<1> DEFINE r == Front(stack[t])
           a == Less(stack[t], active[t])
           x == Ended(stack[t], txn[t])
<1>1. Sound(stack[t], active[t], txn[t])
  BY DEF Sounds
<1>2. Sound(r, a, x) /\ Open(r)
  BY <1>1, TopFacts, DropSound
<1>3. r \in Seq(Frame)
  BY TopFacts, FrontLast
<1>4. x \in [Envs -> Txn \cup {NoTxn}]
  BY TopFacts DEF Ended, Top
<1>5. Holds(f) => f.env \notin a
  BY DEF Less, Top
<1>6. Sound(r \o <<f>>, IF Holds(f) THEN a \cup {f.env} ELSE a,
            IF Runs(f) THEN [x EXCEPT ![f.env] = y] ELSE x)
  BY <1>2, <1>3, <1>4, <1>5, PushSound, Zenon
<1>7. Holds(f) => a \cup {f.env} = active[t] \cup {f.env}
  BY DEF Less, Top
<1>8. Runs(f) => [x EXCEPT ![f.env] = y] = [txn[t] EXCEPT ![f.env] = y]
  BY TopFacts DEF Ended, Top
<1>9. Sound(r \o <<f>>,
            IF Holds(f) THEN active[t] \cup {f.env} ELSE a,
            IF Runs(f) THEN [txn[t] EXCEPT ![f.env] = y] ELSE x)
  BY <1>6, <1>7, <1>8, Zenon
<1>10. stack' = [stack EXCEPT ![t] = r \o <<f>>]
  BY DEF Replace, TypeOK
<1> QED
  BY <1>9, <1>10, OneThread, Zenon

-----------------------------------------------------------------------------
(* What the rest of the invariant needs of a step of t: where its call then *)
(* is, and that the other threads are where they were.                      *)

Points == {"lock", "claim", "begin", "running", "done"}

\* A call that moves on is still the same call.
LEMMA MovedFrame ==
    ASSUME NEW g \in Frame, Fits(g), NEW at \in Points
    PROVE  LET f == [g EXCEPT !.at = at]
           IN /\ f \in Frame /\ Fits(f) /\ f.at = at
              /\ f.op = g.op /\ f.env = g.env /\ f.ro = g.ro /\ f.name = g.name
BY DEF Frame, Fits, Points

StackOK == /\ stack \in [Threads -> Seq(Frame)]
           /\ \A t \in Threads : Len(stack[t]) <= MaxDepth

\* A call that returns leaves the closure it was made from.
LEMMA PopStack ==
    ASSUME TypeOK, Sounds, NEW t \in Threads, Busy(t), Pop(t)
    PROVE  /\ StackOK'
           /\ \A u \in Threads : u # t => stack'[u] = stack[u]
           /\ Busy(t)' => Inside(Top(t)')
<1> DEFINE r == Front(stack[t])
<1>1. r \in Seq(Frame) /\ Len(r) = Len(stack[t]) - 1 /\ Len(stack[t]) \in Nat
  BY TopFacts, FrontLast
<1>2. Open(r)
  BY TopFacts, DropSound DEF Sounds
<1>3. /\ stack' \in [Threads -> Seq(Frame)] /\ stack'[t] = r
      /\ \A u \in Threads : u # t => stack'[u] = stack[u]
  BY <1>1 DEF Pop, TypeOK
<1>4. ASSUME NEW u \in Threads
      PROVE  Len(stack'[u]) <= MaxDepth
  <2>1. Len(stack[u]) <= MaxDepth /\ Len(stack[t]) <= MaxDepth
    BY DEF TypeOK
  <2>2. CASE u = t
    BY <1>1, <1>3, <2>1, <2>2, TxnAssumption
  <2> QED
    BY <1>3, <2>1, <2>2
<1>5. Busy(t)' => Inside(Top(t)')
  BY <1>2, <1>3 DEF Open, Busy, Top
<1> QED
  BY <1>3, <1>4, <1>5 DEF StackOK

\* A call that moves on stays on top.
LEMMA ReplaceStack ==
    ASSUME TypeOK, Sounds, NEW t \in Threads, Busy(t),
           NEW f \in Frame, Replace(t, f)
    PROVE  /\ StackOK'
           /\ \A u \in Threads : u # t => stack'[u] = stack[u]
           /\ Busy(t)' /\ Top(t)' = f
<1> DEFINE r == Front(stack[t])
<1>1. r \in Seq(Frame) /\ Len(r) = Len(stack[t]) - 1 /\ Len(stack[t]) \in Nat
  BY TopFacts, FrontLast
<1>2. /\ r \o <<f>> \in Seq(Frame) /\ Len(r \o <<f>>) = Len(stack[t])
      /\ r \o <<f>> # <<>> /\ Last(r \o <<f>>) = f
  <2> HIDE DEF r
  <2>1. /\ r \o <<f>> \in Seq(Frame) /\ Len(r \o <<f>>) = Len(r) + 1
        /\ r \o <<f>> # <<>> /\ Last(r \o <<f>>) = f
    BY <1>1, Appended
  <2> QED
    BY <1>1, <2>1
<1>3. /\ stack' \in [Threads -> Seq(Frame)] /\ stack'[t] = r \o <<f>>
      /\ \A u \in Threads : u # t => stack'[u] = stack[u]
  BY <1>2 DEF Replace, TypeOK
<1>4. \A u \in Threads : Len(stack'[u]) <= MaxDepth
  BY <1>2, <1>3, Zenon DEF TypeOK
<1>5. Busy(t)' /\ Top(t)' = f
  BY <1>2, <1>3 DEF Busy, Top
<1> QED
  BY <1>3, <1>4, <1>5 DEF StackOK

\* open_dbi's guard unlocks only what its own thread has locked.
LEMMA ReturnLocked ==
    ASSUME TypeOK, Sounds, Locked, NEW t \in Threads, Busy(t),
           Top(t).at # "lock", Return(t)
    PROVE  Locked' /\ dbi' \in [Envs -> Threads \cup {NoThread}]
<1>1. /\ \A u \in Threads : u # t => stack'[u] = stack[u]
      /\ Busy(t)' => Inside(Top(t)')
  BY PopStack DEF Return
<1>2. dbi' \in [Envs -> Threads \cup {NoThread}]
  BY Zenon DEF Return, TypeOK
<1>3. ASSUME NEW u \in Threads, Opening(u)', Top(u)'.at # "lock"
      PROVE  dbi'[Top(u)'.env] = u
  <2>1. u # t
    BY <1>1, <1>3 DEF Opening, Inside, OpenOps
  <2>2. Opening(u) /\ Top(u)' = Top(u)
    BY <1>1, <1>3, <2>1 DEF Opening, Busy, Top
  <2>3. dbi[Top(u).env] = u
    BY <1>3, <2>2 DEF Locked
  <2>4. Opening(t) => dbi[Top(t).env] = t
    BY DEF Locked
  <2> QED
    BY <2>1, <2>2, <2>3, <2>4 DEF Return, TypeOK
<1> QED
  BY <1>2, <1>3 DEF Locked

\* Ending a transaction lets go of the writer mutex exactly if it has it.
LEMMA EndTxnWritten ==
    ASSUME TypeOK, Written, NEW t \in Threads, NEW e \in Envs, EndTxn(t, e)
    PROVE  /\ Written'
           /\ writer' \in [Envs -> Threads \cup {NoThread}]
           /\ txn' \in [Threads -> [Envs -> Txn \cup {NoTxn}]]
           /\ active' \in [Threads -> SUBSET Envs]
           /\ \A u \in Threads : u # t => txn'[u] = txn[u]
<1>1. /\ writer' \in [Envs -> Threads \cup {NoThread}]
      /\ txn' \in [Threads -> [Envs -> Txn \cup {NoTxn}]]
      /\ active' \in [Threads -> SUBSET Envs]
  BY DEF EndTxn, TypeOK
<1>2. /\ \A u \in Threads : u # t => txn'[u] = txn[u]
      /\ \A d \in Envs : txn'[t][d] = IF d = e THEN NoTxn ELSE txn[t][d]
  BY DEF EndTxn, TypeOK
<1>3. \A d \in Envs : writer'[d] = IF d = e /\ txn[t][e].is = "write"
                                   THEN NoThread ELSE writer[d]
  BY DEF EndTxn, EndsWriter, TypeOK
<1>4. NoTxn.is # "write"
  BY DEF NoTxn
<1>5. ASSUME NEW u \in Threads, NEW d \in Envs
      PROVE  writer'[d] = u <=> txn'[u][d].is = "write"
  BY <1>2, <1>3, <1>4, TxnAssumption DEF Written
<1> QED
  BY <1>1, <1>2, <1>5 DEF Written

\* A step that leaves the files alone disturbs no insertion but its own.
LEMMA InsertKept ==
    ASSUME Inserting, NEW t \in Threads, UNCHANGED store,
           \A u \in Threads :
               u # t => stack'[u] = stack[u] /\ txn'[u] = txn[u],
           Busy(t)' => Top(t)'.op # "insert" \/ ~Runs(Top(t)')
    PROVE  Inserting'
<1> SUFFICES ASSUME NEW u \in Threads
             PROVE  LET old == store'[Top(u)'.env].kv
                        new == txn'[u][Top(u)'.env].view.kv
                    IN /\ At(u, {"insert"}, "running")' => new = old
                       /\ At(u, {"insert"}, "done")' =>
                             \A k \in Keys : old[k] # NoValue => new[k] = old[k]
  BY Zenon DEF Inserting
<1>1. CASE u = t
  BY <1>1 DEF At, Runs
<1>2. CASE u # t
  <2>1. /\ Top(u)' = Top(u) /\ (Busy(u)' <=> Busy(u))
        /\ txn'[u] = txn[u] /\ store' = store
    BY <1>2 DEF Top, Busy
  <2> QED
    BY <2>1 DEF Inserting, At
<1> QED
  BY <1>1, <1>2, Zenon

-----------------------------------------------------------------------------
(* The ways a call ends. *)

\* ACTIVE refuses the claim, and the call returns EDEADLK.
LEMMA ClaimRefusedInv ==
    ASSUME TxnInv, NEW t \in Threads, ClaimRefused(t)
    PROVE  TxnInv'
<1>1. /\ TypeOK /\ Sounds /\ Written /\ Locked /\ Inserting /\ DbsUsable
      /\ Busy(t) /\ Top(t).at = "claim" /\ Return(t) /\ Pop(t)
      /\ UNCHANGED <<active, txn, writer, store, opened, dbs>>
  BY DEF TxnInv, ClaimRefused, At, Return
<1>2. /\ StackOK' /\ \A u \in Threads : u # t => stack'[u] = stack[u]
      /\ Busy(t)' => Inside(Top(t)')
  BY <1>1, PopStack
<1>3. Locked' /\ dbi' \in [Envs -> Threads \cup {NoThread}]
  BY <1>1, ReturnLocked
<1>4. TypeOK'
  BY <1>1, <1>2, <1>3 DEF TypeOK, StackOK
<1>5. /\ active' = [active EXCEPT ![t] = Less(stack[t], active[t])]
      /\ txn' = [txn EXCEPT ![t] = Ended(stack[t], txn[t])]
  BY <1>1 DEF TypeOK, Less, Ended, Holds, Runs, Top
<1>6. Sounds'
  BY <1>1, <1>5, EndSound, Zenon
<1>7. Inserting'
  BY <1>1, <1>2, InsertKept DEF Inside
<1> QED
  BY <1>1, <1>3, <1>4, <1>6, <1>7 DEF TxnInv, Written, DbsUsable

\* mdb_txn_begin fails, and the claim goes with the guard.
LEMMA BeginFailsInv ==
    ASSUME TxnInv, NEW t \in Threads, BeginFails(t)
    PROVE  TxnInv'
<1>1. /\ TypeOK /\ Sounds /\ Written /\ Locked /\ Inserting /\ DbsUsable
      /\ Busy(t) /\ Top(t).at = "begin" /\ Return(t) /\ Pop(t)
      /\ active' = [active EXCEPT ![t] = @ \ {Top(t).env}]
      /\ UNCHANGED <<txn, writer, store, opened, dbs>>
  BY DEF TxnInv, BeginFails, At, Return
<1>2. /\ StackOK' /\ \A u \in Threads : u # t => stack'[u] = stack[u]
      /\ Busy(t)' => Inside(Top(t)')
  BY <1>1, PopStack
<1>3. Locked' /\ dbi' \in [Envs -> Threads \cup {NoThread}]
  BY <1>1, ReturnLocked
<1>4. TypeOK'
  BY <1>1, <1>2, <1>3, Zenon DEF TypeOK, StackOK
<1>5. /\ active' = [active EXCEPT ![t] = Less(stack[t], active[t])]
      /\ txn' = [txn EXCEPT ![t] = Ended(stack[t], txn[t])]
  BY <1>1 DEF TypeOK, Less, Ended, Holds, Runs, Top
<1>6. Sounds'
  BY <1>1, <1>5, EndSound, Zenon
<1>7. Inserting'
  BY <1>1, <1>2, InsertKept DEF Inside
<1> QED
  BY <1>1, <1>3, <1>4, <1>6, <1>7, Zenon DEF TxnInv, Written, DbsUsable

\* The ways a transaction ends have this in common.
LEMMA TxnEnds ==
    ASSUME TxnInv, NEW t \in Threads, Busy(t), Runs(Top(t)),
           EndTxn(t, Top(t).env), Return(t)
    PROVE  /\ StackOK' /\ Sounds' /\ Written' /\ Locked'
           /\ dbi' \in [Envs -> Threads \cup {NoThread}]
           /\ writer' \in [Envs -> Threads \cup {NoThread}]
           /\ txn' \in [Threads -> [Envs -> Txn \cup {NoTxn}]]
           /\ active' \in [Threads -> SUBSET Envs]
           /\ \A u \in Threads :
                 u # t => stack'[u] = stack[u] /\ txn'[u] = txn[u]
           /\ Busy(t)' => Inside(Top(t)')
<1>1. /\ TypeOK /\ Sounds /\ Written /\ Locked /\ Pop(t)
      /\ Top(t).env \in Envs /\ Top(t).at # "lock"
  BY TopFacts DEF TxnInv, Return, Runs
<1>2. /\ StackOK' /\ \A u \in Threads : u # t => stack'[u] = stack[u]
      /\ Busy(t)' => Inside(Top(t)')
  BY <1>1, PopStack
<1>3. Locked' /\ dbi' \in [Envs -> Threads \cup {NoThread}]
  BY <1>1, ReturnLocked
<1>4. /\ active' = [active EXCEPT ![t] = Less(stack[t], active[t])]
      /\ txn' = [txn EXCEPT ![t] = Ended(stack[t], txn[t])]
  BY <1>1, Zenon DEF TypeOK, EndTxn, Less, Ended, Holds, Runs, Top
<1>5. Sounds'
  BY <1>1, <1>4, EndSound, Zenon
<1> QED
  BY <1>1, <1>2, <1>3, <1>5, EndTxnWritten, Zenon

\* The guard is dropped uncommitted, or mdb_txn_commit fails.
LEMMA AbortInv ==
    ASSUME TxnInv, NEW t \in Threads, Abort(t) \/ CommitFails(t)
    PROVE  TxnInv'
<1>1. /\ Busy(t) /\ Runs(Top(t)) /\ EndTxn(t, Top(t).env) /\ Return(t)
      /\ UNCHANGED <<store, opened, dbs>>
  BY DEF Abort, CommitFails, At, Runs
<1>2. TypeOK'
  BY <1>1, TxnEnds DEF TxnInv, TypeOK, StackOK
<1>3. Inserting'
  BY <1>1, TxnEnds, InsertKept, Zenon DEF TxnInv, Inside
<1> QED
  BY <1>1, <1>2, <1>3, TxnEnds DEF TxnInv, DbsUsable

\* mdb_txn_commit succeeds.
LEMMA CommitInv ==
    ASSUME TxnInv, NEW t \in Threads, Commit(t)
    PROVE  TxnInv'
<1> DEFINE e == Top(t).env
<1>1. /\ Busy(t) /\ Runs(Top(t)) /\ EndTxn(t, e) /\ Return(t)
      /\ store' = IF Top(t).ro THEN store ELSE [store EXCEPT ![e] = View(t, e)]
      /\ opened' = [opened EXCEPT ![e] = @ \cup Published(t)]
      /\ dbs' = [dbs EXCEPT ![e] = @ \cup Published(t)]
  BY DEF Commit, At, Runs, Published
<1>2. /\ Top(t) \in Frame /\ e \in Envs /\ Fits(Top(t))
      /\ txn[t][e] \in Txn /\ txn[t][e].is = Kind(Top(t))
  BY <1>1, TopFacts, Zenon DEF TxnInv
<1>3. View(t, e) \in Content
  BY <1>2 DEF View, Txn
<1>4. Published(t) \subseteq Names
  BY <1>2 DEF Published, Opening, Fits
<1>5. TypeOK'
  <2>1. store' \in [Envs -> Content]
    BY <1>1, <1>2, <1>3 DEF TxnInv, TypeOK
  <2>2. opened' \in [Envs -> SUBSET Names] /\ dbs' \in [Envs -> SUBSET Names]
    BY <1>1, <1>2, <1>4 DEF TxnInv, TypeOK
  <2> QED
    BY <1>1, <2>1, <2>2, TxnEnds, Zenon DEF TypeOK, StackOK
<1>6. DbsUsable'
  BY <1>1, <1>2 DEF TxnInv, TypeOK, DbsUsable
\* The store of another thread's insertion is not this thread's to write.
<1>7. ASSUME NEW u \in Threads, At(u, {"insert"}, "running")'
                                \/ At(u, {"insert"}, "done")'
      PROVE  /\ u # t /\ Top(u)' = Top(u) /\ Busy(u)
             /\ txn'[u] = txn[u] /\ store'[Top(u).env] = store[Top(u).env]
  <2>1. u # t
    BY <1>1, <1>7, TxnEnds, Zenon DEF At, Inside
  <2>2. Top(u)' = Top(u) /\ Busy(u) /\ txn'[u] = txn[u]
    BY <1>1, <1>7, <2>1, TxnEnds, Zenon DEF At, Top, Busy
  <2>3. Top(u).op = "insert" /\ Runs(Top(u))
    BY <1>7, <2>2 DEF At, Runs
  <2>4. Top(u).env \in Envs /\ txn[u][Top(u).env].is = "write"
    BY <2>2, <2>3, TopFacts DEF TxnInv, Fits, OpenOps, Kind
  <2>5. writer[Top(u).env] = u
    BY <2>4 DEF TxnInv, Written
  <2>6. ~Top(t).ro => writer[e] = t
    BY <1>2 DEF TxnInv, Written, Kind
  <2>7. store'[Top(u).env] = store[Top(u).env]
    BY <1>1, <1>2, <2>1, <2>4, <2>5, <2>6 DEF TxnInv, TypeOK
  <2> QED
    BY <2>1, <2>2, <2>7, Zenon
<1>8. Inserting'
  <2> DEFINE Grows(u) ==
         LET old == store[Top(u).env].kv
             new == txn[u][Top(u).env].view.kv
         IN /\ At(u, {"insert"}, "running") => new = old
            /\ At(u, {"insert"}, "done") =>
                  \A k \in Keys : old[k] # NoValue => new[k] = old[k]
  <2>1. ASSUME NEW u \in Threads
        PROVE  Grows(u)'
    <3>1. Grows(u)
      BY DEF TxnInv, Inserting
    <3> QED
      BY <1>7, <3>1 DEF At
  <2> QED
    BY <2>1, Zenon DEF Inserting
<1> QED
  BY <1>1, <1>5, <1>6, <1>8, TxnEnds, Zenon DEF TxnInv

-----------------------------------------------------------------------------
(* The ways a call goes on. *)

\* A call that moves on keeps the dbi_lock it has.
LEMMA GoOnLocked ==
    ASSUME TypeOK, Sounds, Locked, NEW t \in Threads, Busy(t),
           Top(t).at # "lock", NEW f \in Frame, f.op = Top(t).op,
           f.env = Top(t).env, Replace(t, f), UNCHANGED dbi
    PROVE  Locked'
<1>1. /\ \A u \in Threads : u # t => stack'[u] = stack[u]
      /\ Busy(t)' /\ Top(t)' = f
  BY ReplaceStack
<1>2. ASSUME NEW u \in Threads, Opening(u)', Top(u)'.at # "lock"
      PROVE  dbi'[Top(u)'.env] = u
  <2>1. CASE u = t
    BY <1>1, <1>2, <2>1 DEF Locked, Opening
  <2>2. CASE u # t
    BY <1>1, <1>2, <2>2 DEF Locked, Opening, Busy, Top
  <2> QED
    BY <2>1, <2>2
<1> QED
  BY <1>2 DEF Locked

\* open_dbi gets the dbi_lock.
LEMMA LockDbiInv ==
    ASSUME TxnInv, NEW t \in Threads, LockDbi(t)
    PROVE  TxnInv'
<1> DEFINE e == Top(t).env
           f == [Top(t) EXCEPT !.at = "claim"]
           y == [is |-> "read", view |-> store[e]]
<1>1. /\ TypeOK /\ Sounds /\ Written /\ Locked /\ Inserting /\ DbsUsable
      /\ Busy(t) /\ Top(t).at = "lock" /\ Replace(t, f)
      /\ dbi[e] = NoThread /\ dbi' = [dbi EXCEPT ![e] = t]
      /\ UNCHANGED <<active, txn, writer, store, opened, dbs>>
  BY DEF TxnInv, LockDbi, At, DbiFree, Goto
<1>2. e \in Envs /\ Top(t) \in Frame /\ Fits(Top(t))
  BY <1>1, TopFacts
<1>3. f \in Frame /\ Fits(f) /\ f.at = "claim" /\ f.op = Top(t).op /\ f.env = e
  BY <1>2, MovedFrame, Zenon DEF Points
<1> HIDE DEF f
<1>4. /\ StackOK' /\ \A u \in Threads : u # t => stack'[u] = stack[u]
      /\ Busy(t)' /\ Top(t)' = f
  BY <1>1, <1>3, ReplaceStack
<1>5. TypeOK'
  BY <1>1, <1>2, <1>4 DEF TypeOK, StackOK
<1>6. Sounds'
  <2>1. y \in Txn
    BY <1>1, <1>2 DEF Txn, TypeOK
  <2>2. ~Holds(f) /\ ~Runs(f) /\ ~Holds(Top(t)) /\ ~Runs(Top(t))
    BY <1>1, <1>3 DEF Holds, Runs
  <2>3. /\ active' = [active EXCEPT ![t] = Less(stack[t], active[t])]
        /\ txn' = [txn EXCEPT ![t] = Ended(stack[t], txn[t])]
    BY <1>1, <2>2 DEF TypeOK, Less, Ended, Top
  <2> HIDE DEF y
  <2> QED
    BY <1>1, <1>3, <2>1, <2>2, <2>3, GoOnSound, Zenon
<1>7. ASSUME NEW u \in Threads, Opening(u)', Top(u)'.at # "lock"
      PROVE  dbi'[Top(u)'.env] = u
  <2>1. CASE u = t
    BY <1>1, <1>2, <1>3, <1>4, <2>1 DEF TypeOK
  <2>2. CASE u # t
    <3>1. Opening(u) /\ Top(u)' = Top(u) /\ dbi[Top(u).env] = u
      BY <1>1, <1>4, <1>7, <2>2 DEF Locked, Opening, Busy, Top
    <3> QED
      BY <1>1, <3>1, TxnAssumption DEF TypeOK
  <2> QED
    BY <2>1, <2>2
<1>8. Inserting'
  BY <1>1, <1>3, <1>4, InsertKept DEF Runs
<1> QED
  BY <1>1, <1>5, <1>6, <1>7, <1>8 DEF TxnInv, Locked, Written, DbsUsable

\* TxnGuard claims the environment for its thread.
LEMMA ClaimInv ==
    ASSUME TxnInv, NEW t \in Threads, Claim(t)
    PROVE  TxnInv'
<1> DEFINE e == Top(t).env
           f == [Top(t) EXCEPT !.at = "begin"]
           y == [is |-> "read", view |-> store[e]]
<1>1. /\ TypeOK /\ Sounds /\ Written /\ Locked /\ Inserting /\ DbsUsable
      /\ Busy(t) /\ Top(t).at = "claim" /\ Replace(t, f)
      /\ e \notin active[t] /\ active' = [active EXCEPT ![t] = @ \cup {e}]
      /\ UNCHANGED <<txn, writer, dbi, store, opened, dbs>>
  BY DEF TxnInv, Claim, At, Claimed, Goto
<1>2. e \in Envs /\ Top(t) \in Frame /\ Fits(Top(t))
  BY <1>1, TopFacts
<1>3. f \in Frame /\ Fits(f) /\ f.at = "begin" /\ f.op = Top(t).op /\ f.env = e
  BY <1>2, MovedFrame, Zenon DEF Points
<1> HIDE DEF f
<1>4. /\ StackOK' /\ \A u \in Threads : u # t => stack'[u] = stack[u]
      /\ Busy(t)' /\ Top(t)' = f
  BY <1>1, <1>3, ReplaceStack
<1>5. TypeOK'
  BY <1>1, <1>2, <1>4, Zenon DEF TypeOK, StackOK
<1>6. Sounds'
  <2>1. y \in Txn
    BY <1>1, <1>2 DEF Txn, TypeOK
  <2>2. Holds(f) /\ ~Runs(f) /\ ~Runs(Top(t))
    BY <1>1, <1>3 DEF Holds, Runs
  <2>3. /\ active' = [active EXCEPT ![t] = active[t] \cup {f.env}]
        /\ txn' = [txn EXCEPT ![t] = Ended(stack[t], txn[t])]
    BY <1>1, <1>3, <2>2 DEF TypeOK, Ended, Top
  <2> HIDE DEF y
  <2> QED
    BY <1>1, <1>3, <2>1, <2>2, <2>3, GoOnSound, Zenon
<1>7. Locked'
  BY <1>1, <1>3, GoOnLocked
<1>8. Inserting'
  BY <1>1, <1>3, <1>4, InsertKept DEF Runs
<1> QED
  BY <1>1, <1>5, <1>6, <1>7, <1>8, Zenon DEF TxnInv, Written, DbsUsable

\* The case of GoOnSound in which the call has a transaction then.
LEMMA RunningSound ==
    ASSUME TypeOK, Sounds, NEW t \in Threads, Busy(t), Holds(Top(t)),
           NEW f \in Frame, f.env = Top(t).env, Fits(f), Replace(t, f), Runs(f),
           NEW y \in Txn, y.is = Kind(f), UNCHANGED active,
           txn' = [txn EXCEPT ![t] = [txn[t] EXCEPT ![f.env] = y]]
    PROVE  Sounds'
<1>1. Holds(f) /\ f.env \in active[t]
  BY TopFacts DEF Holds, Runs
<1>2. active' = [active EXCEPT ![t] = active[t] \cup {f.env}]
  BY <1>1 DEF TypeOK
<1>3. active' = [active EXCEPT ![t] =
                    IF Holds(f) THEN active[t] \cup {f.env}
                                ELSE Less(stack[t], active[t])]
  BY <1>1, <1>2, Zenon
<1>4. txn' = [txn EXCEPT ![t] =
                    IF Runs(f) THEN [txn[t] EXCEPT ![f.env] = y]
                               ELSE Ended(stack[t], txn[t])]
  BY Zenon
<1> QED
  BY <1>3, <1>4, GoOnSound, Zenon

\* mdb_txn_begin succeeds.
LEMMA BeginInv ==
    ASSUME TxnInv, NEW t \in Threads, Begin(t)
    PROVE  TxnInv'
<1> DEFINE e == Top(t).env
           f == [Top(t) EXCEPT !.at = "running"]
           y == [is |-> Kind(Top(t)), view |-> store[e]]
<1>1. /\ TypeOK /\ Sounds /\ Written /\ Locked /\ Inserting /\ DbsUsable
      /\ Busy(t) /\ Top(t).at = "begin" /\ Replace(t, f)
      /\ txn' = [txn EXCEPT ![t][e] = y]
      /\ IF Top(t).ro THEN writer' = writer
         ELSE writer[e] = NoThread /\ writer' = [writer EXCEPT ![e] = t]
      /\ UNCHANGED <<active, dbi, store, opened, dbs>>
  BY DEF TxnInv, Begin, At, Goto, Kind
<1>2. /\ e \in Envs /\ Top(t) \in Frame /\ Fits(Top(t))
      /\ e \in active[t] /\ txn[t][e] = NoTxn
  BY <1>1, TopFacts DEF Holds, Runs
<1>3. /\ f \in Frame /\ Fits(f) /\ f.at = "running" /\ f.op = Top(t).op
      /\ f.env = e /\ f.ro = Top(t).ro
  BY <1>2, MovedFrame, Zenon DEF Points
<1>4. y \in Txn /\ y.is = Kind(f) /\ y.view.kv = store[e].kv
  BY <1>1, <1>2, <1>3 DEF Txn, TypeOK, Kind
<1> HIDE DEF f, y
<1>5. /\ StackOK' /\ \A u \in Threads : u # t => stack'[u] = stack[u]
      /\ Busy(t)' /\ Top(t)' = f
  BY <1>1, <1>3, ReplaceStack
<1>6. /\ txn' = [txn EXCEPT ![t] = [txn[t] EXCEPT ![f.env] = y]]
      /\ \A u \in Threads : u # t => txn'[u] = txn[u]
      /\ \A d \in Envs : txn'[t][d] = IF d = e THEN y ELSE txn[t][d]
      /\ txn' \in [Threads -> [Envs -> Txn \cup {NoTxn}]]
  BY <1>1, <1>2, <1>3, <1>4, Zenon DEF TypeOK
<1>7. TypeOK'
  <2>1. writer' \in [Envs -> Threads \cup {NoThread}]
    BY <1>1, <1>2 DEF TypeOK
  <2>2. stack' \in [Threads -> Seq(Frame)]
        /\ \A u \in Threads : Len(stack'[u]) <= MaxDepth
    BY <1>5 DEF StackOK
  <2> QED
    BY <1>1, <1>6, <2>1, <2>2 DEF TypeOK
<1>8. Sounds'
  <2>1. Runs(f) /\ Holds(Top(t))
    BY <1>1, <1>3 DEF Holds, Runs
  <2>2. UNCHANGED active /\ f.env = Top(t).env
    BY <1>1, <1>3
  <2>3. /\ TypeOK /\ Sounds /\ Busy(t) /\ f \in Frame /\ Fits(f)
        /\ Replace(t, f) /\ y \in Txn /\ y.is = Kind(f)
    BY <1>1, <1>3, <1>4
  <2>4. txn' = [txn EXCEPT ![t] = [txn[t] EXCEPT ![f.env] = y]]
    BY <1>6
  <2> QED
    BY <2>1, <2>2, <2>3, <2>4, RunningSound, Zenon
<1>9. Locked'
  BY <1>1, <1>3, GoOnLocked
<1>10. Written'
  <2>1. NoTxn.is = "none"
    BY DEF NoTxn
  <2>2. ASSUME NEW u \in Threads, NEW d \in Envs
        PROVE  writer'[d] = u <=> txn'[u][d].is = "write"
    <3>1. /\ writer[d] = u <=> txn[u][d].is = "write"
          /\ writer[d] = t <=> txn[t][d].is = "write"
      BY <1>1 DEF Written
    <3>2. writer'[d] = IF d = e /\ ~Top(t).ro THEN t ELSE writer[d]
      BY <1>1 DEF TypeOK
    <3>3. y.is = "write" <=> ~Top(t).ro
      BY <1>3, <1>4 DEF Kind
    <3>4. CASE d = e
      <4>1. ~Top(t).ro => writer[d] = NoThread
        BY <1>1, <3>4
      <4>2. NoThread # u /\ NoThread # t
        BY TxnAssumption
      <4>3. txn'[u][d] = IF u = t THEN y ELSE txn[u][d]
        BY <1>6, <3>4
      <4>4. txn[t][d] = NoTxn
        BY <1>2, <3>4
      <4> QED
        BY <2>1, <3>1, <3>2, <3>3, <3>4, <4>1, <4>2, <4>3, <4>4
    <3>5. CASE d # e
      <4>1. txn'[u][d] = txn[u][d]
        BY <1>6, <3>5
      <4> QED
        BY <3>1, <3>2, <3>5, <4>1
    <3> QED
      BY <3>4, <3>5
  <2> QED
    BY <2>2 DEF Written
<1>11. Inserting'
  <2>1. ASSUME NEW u \in Threads, u # t
        PROVE  /\ Top(u)' = Top(u) /\ (Busy(u)' <=> Busy(u))
               /\ txn'[u] = txn[u]
    BY <1>5, <1>6, <2>1 DEF Top, Busy
  <2>2. /\ ~At(t, {"insert"}, "done")'
        /\ txn'[t][Top(t)'.env].view.kv = store'[Top(t)'.env].kv
    BY <1>1, <1>2, <1>3, <1>4, <1>5, <1>6, Zenon DEF At
  <2> DEFINE Grows(u) ==
         LET old == store[Top(u).env].kv
             new == txn[u][Top(u).env].view.kv
         IN /\ At(u, {"insert"}, "running") => new = old
            /\ At(u, {"insert"}, "done") =>
                  \A k \in Keys : old[k] # NoValue => new[k] = old[k]
  <2>3. ASSUME NEW u \in Threads
        PROVE  Grows(u)'
    <3>1. CASE u = t
      BY <2>2, <3>1
    <3>2. CASE u # t
      <4>1. Grows(u)
        BY <1>1 DEF Inserting
      <4> QED
        BY <1>1, <2>1, <3>2, <4>1 DEF At
    <3> QED
      BY <3>1, <3>2, Zenon
  <2> QED
    BY <2>3, Zenon DEF Inserting
<1> QED
  BY <1>1, <1>7, <1>8, <1>9, <1>10, <1>11 DEF TxnInv, DbsUsable

\* A step inside a transaction leaves it y.
LEMMA RunStep ==
    ASSUME TxnInv, NEW t \in Threads, Busy(t), Runs(Top(t)),
           NEW f \in Frame, Fits(f), Runs(f), Replace(t, f),
           f.env = Top(t).env, f.op = Top(t).op, f.ro = Top(t).ro,
           NEW y \in Txn, y.is = txn[t][f.env].is,
           txn' = [txn EXCEPT ![t] = [txn[t] EXCEPT ![f.env] = y]],
           UNCHANGED <<active, writer, dbi, store, opened, dbs>>
    PROVE  /\ TypeOK' /\ Sounds' /\ Written' /\ Locked' /\ DbsUsable'
           /\ \A u \in Threads :
                 u # t => stack'[u] = stack[u] /\ txn'[u] = txn[u]
           /\ Busy(t)' /\ Top(t)' = f /\ txn'[t][f.env] = y
<1> DEFINE e == f.env
<1>1. /\ TypeOK /\ Sounds /\ Written /\ Locked /\ DbsUsable
      /\ e \in Envs /\ e \in active[t] /\ txn[t][e].is = Kind(f)
      /\ Top(t).at # "lock" /\ Holds(f) /\ Holds(Top(t))
  BY TopFacts DEF TxnInv, Holds, Runs, Kind
<1>2. /\ StackOK' /\ \A u \in Threads : u # t => stack'[u] = stack[u]
      /\ Busy(t)' /\ Top(t)' = f
  BY <1>1, ReplaceStack
<1>3. /\ \A u \in Threads : u # t => txn'[u] = txn[u]
      /\ \A d \in Envs : txn'[t][d] = IF d = e THEN y ELSE txn[t][d]
      /\ txn' \in [Threads -> [Envs -> Txn \cup {NoTxn}]]
  BY <1>1 DEF TypeOK
<1>4. TypeOK'
  BY <1>1, <1>2, <1>3 DEF TypeOK, StackOK
<1>6. Sounds'
  BY <1>1, RunningSound, Zenon
<1>7. Locked'
  BY <1>1, GoOnLocked
<1>8. Written'
  BY <1>1, <1>3 DEF Written
<1> QED
  BY <1>1, <1>2, <1>3, <1>4, <1>6, <1>7, <1>8, Zenon DEF DbsUsable

\* A WriteTxn that stays with its closure.
LEMMA SameStack ==
    ASSUME TypeOK, NEW t \in Threads, Busy(t), UNCHANGED stack
    PROVE  Replace(t, Top(t))
<1> DEFINE s == stack[t]
           r == Front(s) \o <<Last(s)>>
<1>1. s \in Seq(Frame) /\ s # <<>>
  BY DEF TypeOK, Busy
<1>2. /\ Len(s) \in Nat \ {0} /\ Last(s) = s[Len(s)] /\ Last(s) \in Frame
      /\ Front(s) \in Seq(Frame) /\ Len(Front(s)) = Len(s) - 1
      /\ \A i \in 1 .. Len(s) - 1 : Front(s)[i] = s[i]
  BY <1>1, FrontLast, Zenon
<1>3. r \in Seq(Frame) /\ Len(r) = Len(s)
  BY <1>2, Appended
<1>4. ASSUME NEW i \in 1 .. Len(s)
      PROVE  r[i] = s[i]
  <2>1. PICK q \in Seq(Frame) : q = Front(s)
    BY <1>2
  <2>2. PICK g \in Frame : g = Last(s)
    BY <1>2
  <2>3. /\ (q \o <<g>>)[Len(q) + 1] = g
        /\ \A j \in 1 .. Len(q) : (q \o <<g>>)[j] = q[j]
    OBVIOUS
  <2>4. r = q \o <<g>>
    BY <2>1, <2>2
  <2> HIDE DEF r
  <2>5. CASE i = Len(q) + 1
    <3>1. i = Len(s)
      BY <1>2, <2>1, <2>5
    <3>2. r[i] = g
      BY <2>3, <2>4, <2>5, Zenon
    <3> QED
      BY <1>2, <2>2, <3>1, <3>2, Zenon
  <2>6. CASE i \in 1 .. Len(q)
    BY <1>2, <2>1, <2>3, <2>4, <2>6
  <2> QED
    BY <1>2, <2>1, <2>5, <2>6
<1>5. r = s
  <2> HIDE DEF r
  <2> QED
    BY <1>1, <1>3, <1>4, SeqEqual
<1> QED
  BY <1>5 DEF Replace, Top, TypeOK

\* The frame Proceed leaves on top.
LEMMA ProceedFrame ==
    ASSUME TypeOK, Sounds, NEW t \in Threads, Busy(t), Runs(Top(t)), Proceed(t)
    PROVE  \E f \in Frame :
              /\ Fits(f) /\ Runs(f) /\ Replace(t, f) /\ f.env = Top(t).env
              /\ f.op = Top(t).op /\ f.ro = Top(t).ro
              /\ f.op # "write" => f.at = "done"
<1>1. Top(t) \in Frame /\ Fits(Top(t))
  BY TopFacts
<1>2. CASE Top(t).op = "write"
  BY <1>1, <1>2, SameStack DEF Proceed
<1>3. CASE Top(t).op # "write"
  <2> DEFINE f == [Top(t) EXCEPT !.at = "done"]
  <2>1. /\ f \in Frame /\ Fits(f) /\ f.at = "done" /\ f.op = Top(t).op
        /\ f.env = Top(t).env /\ f.ro = Top(t).ro
    <3>1. "done" \in Points
      BY DEF Points
    <3> QED
      BY <1>1, <3>1, MovedFrame, Zenon
  <2>2. Replace(t, f)
    BY <1>3 DEF Proceed, Goto
  <2> HIDE DEF f
  <2> QED
    BY <2>1, <2>2 DEF Runs
<1> QED
  BY <1>2, <1>3

\* A write to the private copy: m are its pairs then.
LEMMA SetStep ==
    ASSUME TxnInv, NEW t \in Threads, Busy(t), Runs(Top(t)),
           NEW m \in [Keys -> Values \cup {NoValue}], Set(t, m), Proceed(t),
           UNCHANGED <<active, writer, dbi, store, opened, dbs>>
    PROVE  /\ TypeOK' /\ Sounds' /\ Written' /\ Locked' /\ DbsUsable'
           /\ \A u \in Threads :
                 u # t => stack'[u] = stack[u] /\ txn'[u] = txn[u]
           /\ Top(t)'.op = Top(t).op /\ Top(t)'.env = Top(t).env
           /\ Top(t)'.op # "write" => Top(t)'.at = "done"
           /\ txn'[t][Top(t).env].view.kv = m
<1> DEFINE e == Top(t).env
           y == [is |-> txn[t][e].is,
                 view |-> [kv |-> m, names |-> txn[t][e].view.names]]
<1>1. TypeOK /\ Sounds
  BY DEF TxnInv
<1>2. PICK f \in Frame :
         /\ Fits(f) /\ Runs(f) /\ Replace(t, f) /\ f.env = Top(t).env
         /\ f.op = Top(t).op /\ f.ro = Top(t).ro
         /\ f.op # "write" => f.at = "done"
  BY <1>1, ProceedFrame
<1>3. e \in Envs /\ txn[t][e] \in Txn
  BY <1>1, TopFacts, Zenon
<1>4. y \in Txn /\ y.is = txn[t][e].is /\ y.view.kv = m
  BY <1>3, Zenon DEF Txn, Content
<1>5. [txn[t][e] EXCEPT !.view.kv = m] = y
  BY <1>3 DEF Txn, Content
<1>6. txn' = [txn EXCEPT ![t] = [txn[t] EXCEPT ![e] = y]]
  <2> HIDE DEF y
  <2>1. txn' = [txn EXCEPT ![t] =
                   [txn[t] EXCEPT ![e] = [txn[t][e] EXCEPT !.view.kv = m]]]
    BY <1>1, <1>3 DEF Set, TypeOK
  <2> QED
    BY <1>5, <2>1, Zenon
<1> HIDE DEF y
<1>7. /\ TypeOK' /\ Sounds' /\ Written' /\ Locked' /\ DbsUsable'
      /\ \A u \in Threads :
            u # t => stack'[u] = stack[u] /\ txn'[u] = txn[u]
      /\ Busy(t)' /\ Top(t)' = f /\ txn'[t][f.env] = y
  <2>1. /\ f \in Frame /\ Fits(f) /\ Runs(f) /\ Replace(t, f)
        /\ f.env = Top(t).env /\ f.op = Top(t).op /\ f.ro = Top(t).ro
    BY <1>2
  <2>2. /\ y \in Txn /\ y.is = txn[t][f.env].is
        /\ txn' = [txn EXCEPT ![t] = [txn[t] EXCEPT ![f.env] = y]]
    BY <1>2, <1>4, <1>6, Zenon
  <2> QED
    BY <2>1, <2>2, RunStep, Zenon
<1> QED
  BY <1>2, <1>4, <1>7, Zenon

\* A put, an insert, a delete or a clear writes to its transaction.
LEMMA ModifyInv ==
    ASSUME TxnInv, NEW t \in Threads,
           \/ \E k \in Keys, v \in Values : Put(t, k, v) \/ Insert(t, k, v)
           \/ \E k \in Keys : Del(t, k)
           \/ Clear(t)
    PROVE  TxnInv'
<1> DEFINE kv == View(t, Top(t).env).kv
<1> DEFINE Writes(m) ==
              /\ Busy(t) /\ Runs(Top(t)) /\ Set(t, m) /\ Proceed(t)
              /\ UNCHANGED <<active, writer, dbi, store, opened, dbs>>
           Adds(m) == \E k \in Keys, v \in Values :
              /\ m = [kv EXCEPT ![k] = v]
              /\ Top(t).op # "insert" \/
                    (Top(t).at = "running" /\ kv[k] = NoValue)
           Takes(m) ==
              /\ Top(t).op # "insert"
              /\ \/ \E k \in Keys : m = [kv EXCEPT ![k] = NoValue]
                 \/ m = [k \in Keys |-> NoValue]
<1>1. \E m : Writes(m) /\ (Adds(m) \/ Takes(m))
  <2> USE DEF Modify, At, Runs
  <2>1. ASSUME NEW k \in Keys, NEW v \in Values, Put(t, k, v)
        PROVE  Writes([kv EXCEPT ![k] = v]) /\ Adds([kv EXCEPT ![k] = v])
    BY <2>1, Zenon DEF Put
  <2>2. ASSUME NEW k \in Keys, NEW v \in Values, Insert(t, k, v)
        PROVE  Writes([kv EXCEPT ![k] = v]) /\ Adds([kv EXCEPT ![k] = v])
    BY <2>2, Zenon DEF Insert, Vacant
  <2>3. ASSUME NEW k \in Keys, Del(t, k)
        PROVE  /\ Writes([kv EXCEPT ![k] = NoValue])
               /\ Takes([kv EXCEPT ![k] = NoValue])
    BY <2>3, Zenon DEF Del
  <2>4. ASSUME Clear(t)
        PROVE  Writes([k \in Keys |-> NoValue]) /\ Takes([k \in Keys |-> NoValue])
    BY <2>4, Zenon DEF Clear
  <2> HIDE DEF Writes, Adds, Takes, kv
  <2> QED
    BY <2>1, <2>2, <2>3, <2>4, Zenon
<1>2. PICK m : Writes(m) /\ (Adds(m) \/ Takes(m))
  BY <1>1, Zenon
<1>3. Top(t).env \in Envs /\ txn[t][Top(t).env] \in Txn
  BY <1>2, TopFacts, Zenon DEF TxnInv
<1>4. kv \in [Keys -> Values \cup {NoValue}]
  BY <1>3, Zenon DEF View, Txn, Content
<1>5. m \in [Keys -> Values \cup {NoValue}]
  BY <1>2, <1>4, Zenon
<1>6. /\ TypeOK' /\ Sounds' /\ Written' /\ Locked' /\ DbsUsable'
      /\ \A u \in Threads :
            u # t => stack'[u] = stack[u] /\ txn'[u] = txn[u]
      /\ Top(t)'.op = Top(t).op /\ Top(t)'.env = Top(t).env
      /\ Top(t)'.op # "write" => Top(t)'.at = "done"
      /\ txn'[t][Top(t).env].view.kv = m
  BY <1>2, <1>5, SetStep, Zenon
<1>7. Inserting'
  <2>1. CASE Top(t).op # "insert"
    BY <1>2, <1>6, <2>1, InsertKept, Zenon DEF TxnInv
  <2>2. CASE Top(t).op = "insert"
    <3> DEFINE old == store[Top(t).env].kv
    <3>1. PICK k \in Keys, v \in Values :
             m = [kv EXCEPT ![k] = v] /\ kv[k] = NoValue /\ Top(t).at = "running"
      BY <1>2, <2>2, Zenon
    <3>2. kv = old
      <4>1. At(t, {"insert"}, "running")
        BY <1>2, <2>2, <3>1, Zenon DEF At
      <4> QED
        BY <4>1, Zenon DEF TxnInv, Inserting, View
    <3>3. \A j \in Keys : old[j] # NoValue => m[j] = old[j]
      BY <1>4, <3>1, <3>2, Zenon
    <3>4. ASSUME NEW u \in Threads, u # t
          PROVE  /\ Top(u)' = Top(u) /\ (Busy(u)' <=> Busy(u))
                 /\ txn'[u] = txn[u]
      BY <1>6, <3>4, Zenon DEF Top, Busy
    <3>5. /\ ~At(t, {"insert"}, "running")'
          /\ \A j \in Keys :
                store'[Top(t)'.env].kv[j] # NoValue =>
                    txn'[t][Top(t)'.env].view.kv[j] = store'[Top(t)'.env].kv[j]
      BY <1>2, <1>6, <2>2, <3>3, Zenon DEF At
    <3>6. store' = store
      BY <1>2, Zenon
    <3> DEFINE Grows(u) ==
           LET was == store[Top(u).env].kv
               new == txn[u][Top(u).env].view.kv
           IN /\ At(u, {"insert"}, "running") => new = was
              /\ At(u, {"insert"}, "done") =>
                    \A j \in Keys : was[j] # NoValue => new[j] = was[j]
    <3>7. ASSUME NEW u \in Threads
          PROVE  Grows(u)'
      <4>1. CASE u = t
        BY <3>5, <4>1, Zenon
      <4>2. CASE u # t
        <5>1. Grows(u)
          BY DEF TxnInv, Inserting
        <5> QED
          BY <3>4, <3>6, <4>2, <5>1 DEF At
      <4> QED
        BY <4>1, <4>2, Zenon
    <3> QED
      BY <3>7, Zenon DEF Inserting
  <2> QED
    BY <2>1, <2>2
<1> QED
  BY <1>6, <1>7, Zenon DEF TxnInv

\* mdb_dbi_open returns.
LEMMA OpenDbiInv ==
    ASSUME TxnInv, NEW t \in Threads, OpenDbi(t)
    PROVE  TxnInv'
<1> DEFINE e == Top(t).env
           f == [Top(t) EXCEPT !.at = "done"]
           y == [txn[t][e] EXCEPT !.view.names = @ \cup {Top(t).name}]
<1>1. /\ TypeOK /\ Sounds /\ Inserting
      /\ Busy(t) /\ Runs(Top(t)) /\ Top(t).op \in OpenOps /\ Replace(t, f)
      /\ \/ UNCHANGED txn
         \/ txn' = [txn EXCEPT ![t][e].view.names = @ \cup {Top(t).name}]
      /\ UNCHANGED <<active, writer, dbi, store, opened, dbs>>
  BY DEF TxnInv, OpenDbi, At, Runs, Goto
<1>2. /\ e \in Envs /\ Top(t) \in Frame /\ Fits(Top(t)) /\ txn[t][e] \in Txn
  BY <1>1, TopFacts
<1>3. /\ f \in Frame /\ Fits(f) /\ f.at = "done" /\ f.op = Top(t).op
      /\ f.env = e /\ f.ro = Top(t).ro
  <2>1. "done" \in Points
    BY DEF Points
  <2> QED
    BY <1>2, <2>1, MovedFrame, Zenon
<1>4. y \in Txn /\ y.is = txn[t][e].is
  <2>1. Top(t).name \in Names
    BY <1>1, <1>2 DEF Fits
  <2> QED
    BY <1>2, <2>1, Zenon DEF Txn, Content
<1>5. \E z \in Txn : /\ z.is = txn[t][e].is
                     /\ txn' = [txn EXCEPT ![t] = [txn[t] EXCEPT ![e] = z]]
  <2>1. CASE UNCHANGED txn
    <3>1. txn' = [txn EXCEPT ![t] = [txn[t] EXCEPT ![e] = txn[t][e]]]
      BY <1>1, <1>2, <2>1 DEF TypeOK
    <3> QED
      BY <1>2, <3>1, Zenon
  <2>2. CASE txn' = [txn EXCEPT ![t][e].view.names = @ \cup {Top(t).name}]
    <3>1. txn' = [txn EXCEPT ![t] = [txn[t] EXCEPT ![e] = y]]
      BY <1>1, <1>2, <2>2 DEF TypeOK
    <3> HIDE DEF y
    <3> QED
      BY <1>4, <3>1, Zenon
  <2> QED
    BY <1>1, <2>1, <2>2
<1> HIDE DEF f
<1>6. PICK z \in Txn : /\ z.is = txn[t][f.env].is
                       /\ txn' = [txn EXCEPT ![t] = [txn[t] EXCEPT ![f.env] = z]]
  BY <1>3, <1>5, Zenon
<1>7. /\ TypeOK' /\ Sounds' /\ Written' /\ Locked' /\ DbsUsable'
      /\ \A u \in Threads :
            u # t => stack'[u] = stack[u] /\ txn'[u] = txn[u]
      /\ Busy(t)' /\ Top(t)' = f
  <2>1. Runs(f) /\ f.env = Top(t).env
    BY <1>3 DEF Runs
  <2>2. /\ Busy(t) /\ Runs(Top(t)) /\ Replace(t, f) /\ f \in Frame /\ Fits(f)
        /\ f.op = Top(t).op /\ f.ro = Top(t).ro
        /\ UNCHANGED <<active, writer, dbi, store, opened, dbs>>
    BY <1>1, <1>3
  <2> QED
    BY <1>6, <2>1, <2>2, RunStep, Zenon
<1>8. Inserting'
  BY <1>1, <1>3, <1>7, InsertKept DEF OpenOps
<1> QED
  BY <1>7, <1>8, Zenon DEF TxnInv

\* A create that found nothing starts over as a writer.
LEMMA EscalateInv ==
    ASSUME TxnInv, NEW t \in Threads, Escalate(t)
    PROVE  TxnInv'
<1> DEFINE e == Top(t).env
           f == [Top(t) EXCEPT !.ro = FALSE, !.at = "claim"]
           y == [is |-> "read", view |-> store[e]]
<1>1. /\ TypeOK /\ Sounds /\ Written /\ Locked /\ Inserting /\ DbsUsable
      /\ Busy(t) /\ Top(t).at = "running" /\ Top(t).op = "create"
      /\ Replace(t, f) /\ EndTxn(t, e)
      /\ UNCHANGED <<dbi, store, opened, dbs>>
  BY DEF TxnInv, Escalate, At
<1>2. e \in Envs /\ Top(t) \in Frame /\ Fits(Top(t))
  BY <1>1, TopFacts
<1>3. f \in Frame /\ Fits(f) /\ f.at = "claim" /\ f.op = "create" /\ f.env = e
  <2>1. f \in Frame
    <3>1. "claim" \in {"lock", "claim", "begin", "running", "done"}
      OBVIOUS
    <3> QED
      BY <1>2, <3>1, Zenon DEF Frame
  <2>2. f.at = "claim" /\ f.op = Top(t).op /\ f.env = e /\ f.name = Top(t).name
    BY <1>2 DEF Frame
  <2> HIDE DEF f
  <2> QED
    BY <1>1, <1>2, <2>1, <2>2 DEF Fits, OpenOps
<1> HIDE DEF f
<1>4. /\ StackOK' /\ \A u \in Threads : u # t => stack'[u] = stack[u]
      /\ Busy(t)' /\ Top(t)' = f
  BY <1>1, <1>3, ReplaceStack, Zenon
<1>5. /\ Written'
      /\ writer' \in [Envs -> Threads \cup {NoThread}]
      /\ txn' \in [Threads -> [Envs -> Txn \cup {NoTxn}]]
      /\ active' \in [Threads -> SUBSET Envs]
      /\ \A u \in Threads : u # t => txn'[u] = txn[u]
  BY <1>1, <1>2, EndTxnWritten, Zenon
<1>6. TypeOK'
  BY <1>1, <1>4, <1>5 DEF TypeOK, StackOK
<1>7. Sounds'
  <2>1. y \in Txn
    BY <1>1, <1>2 DEF Txn, TypeOK
  <2>2. ~Holds(f) /\ ~Runs(f) /\ Holds(Top(t)) /\ Runs(Top(t))
    BY <1>1, <1>3 DEF Holds, Runs
  <2>3. /\ active' = [active EXCEPT ![t] = Less(stack[t], active[t])]
        /\ txn' = [txn EXCEPT ![t] = Ended(stack[t], txn[t])]
    BY <1>1, <2>2 DEF TypeOK, EndTxn, Less, Ended, Top
  <2> HIDE DEF y
  <2>4. /\ active' = [active EXCEPT ![t] =
                         IF Holds(f) THEN active[t] \cup {f.env}
                                     ELSE Less(stack[t], active[t])]
        /\ txn' = [txn EXCEPT ![t] =
                         IF Runs(f) THEN [txn[t] EXCEPT ![f.env] = y]
                                    ELSE Ended(stack[t], txn[t])]
    BY <2>2, <2>3, Zenon
  <2> QED
    BY <1>1, <1>3, <2>1, <2>2, <2>4, GoOnSound, Zenon
<1>8. Locked'
  BY <1>1, <1>3, GoOnLocked, Zenon
<1>9. Inserting'
  BY <1>1, <1>3, <1>4, <1>5, InsertKept, Zenon
<1> QED
  BY <1>1, <1>5, <1>6, <1>7, <1>8, <1>9, Zenon DEF TxnInv, DbsUsable

\* A new call, on an idle thread or from a closure.
LEMMA CallInv ==
    ASSUME TxnInv, NEW t \in Threads, NEW op \in Ops, NEW e \in Envs,
           NEW n \in Names \cup {NoName}, Call(t, op, e, n)
    PROVE  TxnInv'
<1> DEFINE b == op \in {"read"} \cup OpenOps
           p == IF op \in OpenOps THEN "lock" ELSE "claim"
           f == [op |-> op, env |-> e, name |-> n, ro |-> b, at |-> p]
           s == stack[t]
           y == [is |-> "read", view |-> store[e]]
<1>1. /\ TypeOK /\ Sounds /\ Written /\ Locked /\ Inserting /\ DbsUsable
      /\ CanCall(t, op) /\ (n = NoName <=> op \notin OpenOps)
      /\ stack' = [stack EXCEPT ![t] = Append(@, f)]
      /\ UNCHANGED <<active, txn, writer, dbi, store, opened, dbs>>
  BY DEF TxnInv, Call
<1>2. f.op = op /\ f.env = e /\ f.at = p /\ f.name = n /\ f.ro = b
  <2> HIDE DEF b, p
  <2> QED
    OBVIOUS
<1>3. f \in Frame
  <2>1. /\ b \in BOOLEAN
        /\ p \in {"lock", "claim", "begin", "running", "done"}
    OBVIOUS
  <2> HIDE DEF b, p
  <2> QED
    BY <2>1, Zenon DEF Frame
<1>4. Fits(f)
  <2> HIDE DEF f
  <2> QED
    BY <1>1, <1>2, Zenon DEF Fits
<1>5. ~Holds(f) /\ ~Runs(f)
  <2> HIDE DEF f
  <2> QED
    BY <1>2 DEF Holds, Runs
<1>6. p # "lock" => op \notin OpenOps
  OBVIOUS
<1> HIDE DEF f, p
<1>7. s \in Seq(Frame) /\ Len(s) \in Nat
  BY <1>1 DEF TypeOK
<1>8. Open(s)
  BY <1>1 DEF CanCall, At, Busy, Top, Open, Inside
<1>9. Len(s) < MaxDepth
  <2>1. CASE Busy(t)
    BY <1>1, <2>1 DEF CanCall
  <2>2. CASE ~Busy(t)
    BY <2>2, TxnAssumption DEF Busy
  <2> QED
    BY <2>1, <2>2
<1>10. /\ Append(s, f) = s \o <<f>>
       /\ s \o <<f>> \in Seq(Frame) /\ Len(s \o <<f>>) = Len(s) + 1
       /\ s \o <<f>> # <<>> /\ Last(s \o <<f>>) = f
  BY <1>3, <1>7, Appended
<1>11. stack' = [stack EXCEPT ![t] = s \o <<f>>]
  BY <1>1, <1>10
<1>12. /\ StackOK' /\ \A u \in Threads : u # t => stack'[u] = stack[u]
       /\ Busy(t)' /\ Top(t)' = f
  <2>1. /\ stack' \in [Threads -> Seq(Frame)] /\ stack'[t] = s \o <<f>>
        /\ \A u \in Threads : u # t => stack'[u] = stack[u]
    BY <1>1, <1>10, <1>11 DEF TypeOK
  <2>2. Len(stack'[t]) <= MaxDepth
    BY <1>7, <1>9, <1>10, <2>1, TxnAssumption
  <2> QED
    BY <1>1, <1>10, <2>1, <2>2 DEF TypeOK, StackOK, Busy, Top
<1>13. TypeOK'
  BY <1>1, <1>12 DEF TypeOK, StackOK
<1>14. Sounds'
  <2>1. y \in Txn
    BY <1>1 DEF Txn, TypeOK
  <2> HIDE DEF y
  <2>2. Sound(s, active[t], txn[t]) /\ txn[t] \in [Envs -> Txn \cup {NoTxn}]
    BY <1>1 DEF Sounds, TypeOK
  <2>3. Sound(s \o <<f>>, IF Holds(f) THEN active[t] \cup {f.env} ELSE active[t],
              IF Runs(f) THEN [txn[t] EXCEPT ![f.env] = y] ELSE txn[t])
    BY <1>3, <1>4, <1>5, <1>7, <1>8, <2>1, <2>2, PushSound, Zenon
  <2>4. Sound(s \o <<f>>, active[t], txn[t])
    BY <1>5, <2>3, Zenon
  <2>5. /\ active' = [active EXCEPT ![t] = active[t]]
        /\ txn' = [txn EXCEPT ![t] = txn[t]]
    BY <1>1 DEF TypeOK
  <2> QED
    BY <1>1, <1>11, <2>4, <2>5, OneThread, Zenon
<1>15. Locked'
  BY <1>1, <1>2, <1>6, <1>12, Zenon DEF Locked, Opening, Busy, Top
<1>16. Inserting'
  BY <1>1, <1>5, <1>12, InsertKept
<1> QED
  BY <1>1, <1>13, <1>14, <1>15, <1>16, Zenon DEF TxnInv, Written, DbsUsable

-----------------------------------------------------------------------------
\* The invariant holds before the first call.
LEMMA TxnInit == Init => TxnInv
<1> SUFFICES ASSUME Init
             PROVE  TxnInv
  OBVIOUS
<1>1. store \in [Envs -> Content]
  <2>1. ASSUME NEW ns \in SUBSET Names
        PROVE  [kv |-> [k \in Keys |-> NoValue], names |-> ns] \in Content
    BY DEF Content
  <2> QED
    BY <2>1, Zenon DEF Init
<1>2. TypeOK
  <2>1. /\ stack \in [Threads -> Seq(Frame)]
        /\ \A t \in Threads : Len(stack[t]) <= MaxDepth
    <3>1. \A t \in Threads : stack[t] = <<>>
      BY DEF Init
    <3>2. <<>> \in Seq(Frame) /\ Len(<<>>) <= MaxDepth
      BY TxnAssumption
    <3> QED
      BY <3>1, <3>2, Zenon DEF Init
  <2>2. /\ active \in [Threads -> SUBSET Envs]
        /\ txn \in [Threads -> [Envs -> Txn \cup {NoTxn}]]
    BY Zenon DEF Init
  <2>3. /\ writer \in [Envs -> Threads \cup {NoThread}]
        /\ dbi \in [Envs -> Threads \cup {NoThread}]
        /\ opened \in [Envs -> SUBSET Names]
        /\ dbs \in [Envs -> SUBSET Names]
    BY Zenon DEF Init
  <2> QED
    BY <1>1, <2>1, <2>2, <2>3, Zenon DEF TypeOK
<1>3. Sounds
  <2> SUFFICES ASSUME NEW t \in Threads
               PROVE  Sound(stack[t], active[t], txn[t])
    BY Zenon DEF Sounds
  <2>1. /\ stack[t] = <<>> /\ active[t] = {}
        /\ \A e \in Envs : txn[t][e] = NoTxn
    BY DEF Init
  <2>2. \A i : i \notin 1 .. Len(stack[t])
    BY <2>1
  <2> QED
    BY <2>1, <2>2, Zenon DEF Sound
<1>4. Written
  BY TxnAssumption DEF Init, Written, NoTxn
<1>5. Locked /\ Inserting /\ DbsUsable
  BY Zenon DEF Init, Locked, Opening, Busy, Inserting, At, DbsUsable
<1> QED
  BY <1>2, <1>3, <1>4, <1>5 DEF TxnInv

\* Every step of every thread keeps it.
LEMMA TxnStep ==
    ASSUME TxnInv, [Next]_vars
    PROVE  TxnInv'
<1>1. CASE UNCHANGED vars
  <2> USE <1>1 DEF vars
  <2>1. TypeOK' /\ Sounds'
    BY Zenon DEF TxnInv, TypeOK, Sounds
  <2>2. Written' /\ DbsUsable'
    BY Zenon DEF TxnInv, Written, DbsUsable
  <2>3. Locked'
    BY Zenon DEF TxnInv, Locked, Opening, Busy, Top
  <2>4. Inserting'
    BY Zenon DEF TxnInv, Inserting, At, Busy, Top
  <2> QED
    BY <2>1, <2>2, <2>3, <2>4, Zenon DEF TxnInv
<1>2. CASE Next
  BY <1>2, CallInv, ModifyInv, LockDbiInv, ClaimInv, ClaimRefusedInv, BeginInv,
     BeginFailsInv, AbortInv, CommitInv, OpenDbiInv, EscalateInv
     DEF Next, Step
<1> QED
  BY <1>1, <1>2

\* The inductive invariant of the transactions: a thread's claims and its
\* transactions are those of its stack of calls, and the two mutexes are held
\* by the threads that are past them.
THEOREM TxnInductive == Spec => []TxnInv
BY TxnInit, TxnStep, PTL DEF Spec

-----------------------------------------------------------------------------
(* What follows. *)

\* TxnGuard's claims are exact through every way a call can end, for any
\* number of threads and any nesting: EDEADLK is never spurious, and liblmdb
\* is never asked for a second transaction of a thread on an environment.
THEOREM ClaimsAreExactHolds == Spec => []ClaimsAreExact
<1> SUFFICES ASSUME TxnInv
             PROVE  ClaimsAreExact
  BY TxnInductive, PTL
<1>1. TypeOK /\ Sounds /\ Written
  BY DEF TxnInv
<1>2. ASSUME NEW t \in Threads
      PROVE  active[t] = Holding(t)
  <2>1. /\ Sound(stack[t], active[t], txn[t]) /\ stack[t] \in Seq(Frame)
        /\ active[t] \subseteq Envs
    BY <1>1 DEF Sounds, TypeOK
  <2>2. DOMAIN stack[t] = 1 .. Len(stack[t])
    <3> \A s \in Seq(Frame) : DOMAIN s = 1 .. Len(s)
      OBVIOUS
    <3> QED
      BY <2>1, Zenon
  <2>3. \A i \in 1 .. Len(stack[t]) : stack[t][i].env \in Envs
    <3>1. \A i \in 1 .. Len(stack[t]) : stack[t][i] \in Frame
      BY <2>1
    <3> QED
      BY <3>1 DEF Frame
  <2>4. \A e : e \in Holding(t) <=>
                   \E i \in 1 .. Len(stack[t]) :
                      Holds(stack[t][i]) /\ stack[t][i].env = e
    BY <2>2 DEF Holding, Holds
  <2>5. \A e \in Envs : e \in active[t] <=>
                   \E i \in 1 .. Len(stack[t]) :
                      Holds(stack[t][i]) /\ stack[t][i].env = e
    BY <2>1, Zenon DEF Sound
  <2>6. \A e : e \in active[t] <=> e \in Holding(t)
    BY <2>1, <2>3, <2>4, <2>5
  <2> QED
    BY <2>6
<1>3. ASSUME NEW t \in Threads, At(t, Ops, "begin")
      PROVE  txn[t][Top(t).env] = NoTxn /\ writer[Top(t).env] # t
  <2>1. Top(t).env \in Envs /\ txn[t][Top(t).env] = NoTxn
    BY <1>1, <1>3, TopFacts DEF At, Holds, Runs
  <2>2. NoTxn.is # "write"
    BY DEF NoTxn
  <2> QED
    BY <1>1, <2>1, <2>2 DEF Written
<1> QED
  BY <1>1, <1>2, <1>3 DEF ClaimsAreExact, ClaimIffTransaction, NoSecondTxn

\* No two threads are in mdb_dbi_open on one environment, as lmdb.h requires.
THEOREM DbiOpenSerialHolds == Spec => []DbiOpenSerial
<1>1. TxnInv => DbiOpenSerial
  BY DEF TxnInv, Locked, DbiOpenSerial, At, Opening
<1> QED
  BY <1>1, TxnInductive, PTL

\* A Db always has a published handle.
THEOREM DbsUsableHolds == Spec => []DbsUsable
<1>1. TxnInv => DbsUsable
  BY DEF TxnInv
<1> QED
  BY <1>1, TxnInductive, PTL

\* A step is one thread's, and only a commit reaches the files.
LEMMA NextMoves ==
    ASSUME TypeOK, Next
    PROVE  \E u \in Threads :
              /\ \A w \in Threads : w # u => stack'[w] = stack[w]
              /\ Commit(u) \/ UNCHANGED store
<1> DEFINE Alone(u) == /\ \A w \in Threads : w # u => stack'[w] = stack[w]
                       /\ Commit(u) \/ UNCHANGED store
<1>1. PICK u \in Threads :
         \/ \E op \in Ops, e \in Envs, n \in Names \cup {NoName} :
               Call(u, op, e, n)
         \/ \E k \in Keys, v \in Values : Put(u, k, v) \/ Insert(u, k, v)
         \/ \E k \in Keys : Del(u, k)
         \/ Clear(u)
         \/ Step(u)
  BY DEF Next
<1> SUFFICES Alone(u)
  OBVIOUS
<1> USE DEF TypeOK, Goto, Replace, Return, Pop
<1>2. ASSUME NEW op \in Ops, NEW e \in Envs, NEW n \in Names \cup {NoName},
             Call(u, op, e, n)
      PROVE  Alone(u)
  BY <1>2 DEF Call
<1>3. ASSUME NEW k \in Keys, NEW v \in Values, Put(u, k, v) \/ Insert(u, k, v)
      PROVE  Alone(u)
  BY <1>3, Zenon DEF Put, Insert, Modify, Proceed
<1>4. ASSUME NEW k \in Keys, Del(u, k)
      PROVE  Alone(u)
  BY <1>4, Zenon DEF Del, Modify, Proceed
<1>5. CASE Clear(u)
  BY <1>5 DEF Clear, Modify, Proceed
<1>6. CASE LockDbi(u) \/ Claim(u) \/ Begin(u) \/ OpenDbi(u) \/ Escalate(u)
  BY <1>6 DEF LockDbi, Claim, Begin, OpenDbi, Escalate
<1>7. CASE ClaimRefused(u) \/ BeginFails(u) \/ Abort(u) \/ CommitFails(u)
  BY <1>7 DEF ClaimRefused, BeginFails, Abort, CommitFails
<1>8. CASE Commit(u)
  <2>1. Pop(u)
    BY <1>8 DEF Commit
  <2> QED
    BY <1>8, <2>1
<1> HIDE DEF Alone, TypeOK, Goto, Replace, Return, Pop
<1>9. CASE Step(u)
  BY <1>6, <1>7, <1>8, <1>9, Zenon DEF Step
<1>10. CASE \E op \in Ops, e \in Envs, n \in Names \cup {NoName} :
                Call(u, op, e, n)
  BY <1>2, <1>10
<1>11. CASE \E k \in Keys, v \in Values : Put(u, k, v) \/ Insert(u, k, v)
  BY <1>3, <1>11
<1>12. CASE \E k \in Keys : Del(u, k)
  BY <1>4, <1>12
<1> QED
  BY <1>1, <1>5, <1>9, <1>10, <1>11, <1>12

\* put_if_absent never replaces a value.
THEOREM InsertReplacesNothingHolds == Spec => InsertReplacesNothing
<1> DEFINE Kept ==
       \A t \in Threads :
          At(t, {"insert"}, "done") /\ stack'[t] # stack[t] =>
              \A k \in Keys :
                  LET old == store[Top(t).env].kv[k] IN
                  old # NoValue => store'[Top(t).env].kv[k] = old
<1>1. ASSUME TxnInv, Next
      PROVE  Kept
  <2> SUFFICES ASSUME NEW t \in Threads, At(t, {"insert"}, "done"),
                      stack'[t] # stack[t], NEW k \in Keys,
                      store[Top(t).env].kv[k] # NoValue
               PROVE  store'[Top(t).env].kv[k] = store[Top(t).env].kv[k]
    OBVIOUS
  <2> DEFINE e == Top(t).env
  <2>1. /\ TypeOK /\ Busy(t) /\ Top(t).op = "insert" /\ Top(t).at = "done"
    BY <1>1 DEF TxnInv, At
  <2>2. e \in Envs /\ txn[t][e].view.kv[k] = store[e].kv[k]
    <3>1. e \in Envs
      BY <1>1, <2>1, TopFacts, Zenon DEF TxnInv
    <3> QED
      BY <1>1, <3>1 DEF TxnInv, Inserting
  <2>3. PICK u \in Threads :
           /\ \A w \in Threads : w # u => stack'[w] = stack[w]
           /\ Commit(u) \/ UNCHANGED store
    BY <1>1, <2>1, NextMoves
  <2>4. u = t
    BY <2>3
  <2>5. Commit(t) \/ UNCHANGED store
    BY <2>3, <2>4
  <2>6. CASE Commit(t)
    BY <2>1, <2>2, <2>6, Zenon DEF Commit, View, TypeOK
  <2> QED
    BY <2>5, <2>6
<1>2. TxnInv /\ [Next]_vars => [Kept]_vars
  BY <1>1
<1> QED
  BY <1>2, TxnInductive, PTL DEF Spec, InsertReplacesNothing
=============================================================================
