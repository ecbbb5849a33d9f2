---------------------------- MODULE MdbWalkProofs ----------------------------
(***************************************************************************)
(* A walk of MdbWalk yields what it should in order, for any finite set of *)
(* keys and any start.  LMDB's order is a total order of byte strings in   *)
(* which those with one prefix are next to one another (Ordered,           *)
(* BeforeTransitive, PrefixConvex), so that a finite set of keys has a     *)
(* least one (LeastKey); and what is ahead of a walk is what is wanted and *)
(* not yet yielded (InOrderSoFar, AheadFacts).                             *)
(***************************************************************************)
EXTENDS MdbWalk, FiniteSetTheorems, WellFoundedInduction, TLAPS

ByteStrings == Seq(Nat)

\* A non-empty set of naturals has a least member.
LEMMA LeastNat ==
    ASSUME NEW T \in SUBSET Nat, NEW n \in T
    PROVE  \E m \in T : \A k \in T : m <= k
<1> DEFINE F == {0 .. m : m \in {k \in T : k <= n}}
<1>1. F \subseteq SUBSET (0 .. n)
  OBVIOUS
<1>2. F # {}
  OBVIOUS
<1>3. IsWellFoundedOn(StrictSubsetOrdering(0 .. n), SUBSET (0 .. n))
  <2>1. 0 \in Int /\ n \in Int
    OBVIOUS
  <2>2. IsFiniteSet(0 .. n)
    BY <2>1, FS_Interval
  <2> QED
    BY <2>2, FS_FiniteSubsetsOfFinite, FS_StrictSubsetOrderingWellFounded, Zenon
<1> HIDE DEF F
<1>4. PICK x \in F : \A y \in F : <<y, x>> \notin StrictSubsetOrdering(0 .. n)
  BY <1>1, <1>2, <1>3, WFMin, Zenon
<1> USE DEF F
<1>5. PICK m \in T : m <= n /\ x = 0 .. m
  BY <1>4
<1>6. ASSUME NEW k \in T, k < m PROVE FALSE
  <2>1. 0 .. k \in F
    BY <1>5, <1>6
  <2>2. 0 .. k \subseteq x /\ m \in x /\ m \notin 0 .. k
    BY <1>5, <1>6
  <2>3. <<0 .. k, x>> \in StrictSubsetOrdering(0 .. n)
    BY <1>1, <1>4, <2>1, <2>2 DEF StrictSubsetOrdering
  <2> QED
    BY <1>4, <2>1, <2>3, Zenon
<1> QED
  BY <1>5, <1>6

\* No key is before itself,
LEMMA NotBeforeItself == ASSUME NEW a \in ByteStrings PROVE ~Before(a, a)
BY DEF Before, starts_with, ByteStrings

\* and none is before the empty one.
LEMMA EmptyFirst == ASSUME NEW a \in ByteStrings PROVE ~Before(a, <<>>)
BY DEF Before, starts_with, ByteStrings

\* Of two keys one is before the other.
LEMMA Ordered ==
    ASSUME NEW a \in ByteStrings, NEW b \in ByteStrings, a # b
    PROVE  Before(a, b) \/ Before(b, a)
<1> USE DEF ByteStrings
<1> DEFINE D == {i \in DOMAIN a \cap DOMAIN b : a[i] # b[i]}
<1>1. CASE D = {}
  <2>1. Len(a) # Len(b)
    BY <1>1
  <2>2. CASE Len(a) < Len(b)
    BY <1>1, <2>2 DEF Before, starts_with
  <2>3. CASE Len(b) < Len(a)
    BY <1>1, <2>3 DEF Before, starts_with
  <2> QED
    BY <2>1, <2>2, <2>3
<1>2. CASE D # {}
  <2>1. D \in SUBSET Nat
    OBVIOUS
  <2> HIDE DEF D
  <2>2. PICK m \in D : \A k \in D : m <= k
    BY <1>2, <2>1, LeastNat, Zenon
  <2>3. /\ m \in DOMAIN a \cap DOMAIN b /\ a[m] # b[m]
        /\ \A j \in 1 .. m - 1 : a[j] = b[j]
    <3>1. m \in DOMAIN a \cap DOMAIN b /\ a[m] # b[m] /\ m \in Nat
      BY <2>1, <2>2 DEF D
    <3>2. ASSUME NEW j \in 1 .. m - 1 PROVE a[j] = b[j]
      <4>1. j \in DOMAIN a \cap DOMAIN b /\ j \notin D
        BY <2>1, <2>2, <3>1
      <4> QED
        BY <4>1 DEF D
    <3> QED
      BY <3>1, <3>2
  <2>4. a[m] < b[m] \/ b[m] < a[m]
    BY <2>3
  <2> QED
    BY <2>3, <2>4 DEF Before
<1> QED
  BY <1>1, <1>2

\* Two keys apart at i, alike before it.
Apart(a, b, i) ==
    /\ i \in 1 .. Len(a) /\ i \in 1 .. Len(b)
    /\ a[i] < b[i] /\ \A j \in 1 .. i - 1 : a[j] = b[j]
Begins(a, b) == Len(a) <= Len(b) /\ \A i \in 1 .. Len(a) : b[i] = a[i]

\* starts_with, by index.
LEMMA Prefixed ==
    ASSUME NEW a \in ByteStrings, NEW b \in ByteStrings
    PROVE  starts_with(b, a) <=> Begins(a, b)
<1>1. DOMAIN a = 1 .. Len(a)
  BY DEF ByteStrings
<1> QED
  BY <1>1, Zenon DEF starts_with, Begins

\* Before, by the first place two keys differ at.
LEMMA Comes ==
    ASSUME NEW a \in ByteStrings, NEW b \in ByteStrings
    PROVE  Before(a, b) <=> \/ Len(a) < Len(b) /\ Begins(a, b)
                            \/ \E i \in Nat : Apart(a, b, i)
<1>1. DOMAIN a = 1 .. Len(a) /\ DOMAIN b = 1 .. Len(b) /\ Len(a) \in Nat
  BY DEF ByteStrings
<1> QED
  BY <1>1, Prefixed DEF Before, Apart

\* The order is transitive.
LEMMA BeforeTransitive ==
    ASSUME NEW a \in ByteStrings, NEW b \in ByteStrings, NEW c \in ByteStrings,
           Before(a, b), Before(b, c)
    PROVE  Before(a, c)
<1>0. /\ Len(a) \in Nat /\ Len(b) \in Nat /\ Len(c) \in Nat
      /\ \A i \in 1 .. Len(a) : a[i] \in Nat
      /\ \A i \in 1 .. Len(b) : b[i] \in Nat
      /\ \A i \in 1 .. Len(c) : c[i] \in Nat
  BY DEF ByteStrings
<1>1. ASSUME Len(a) < Len(b), Begins(a, b), Len(b) < Len(c), Begins(b, c)
      PROVE  Len(a) < Len(c) /\ Begins(a, c)
  BY <1>0, <1>1 DEF Begins
<1>2. ASSUME NEW i \in Nat, Apart(a, b, i), Begins(b, c)
      PROVE  Apart(a, c, i)
  BY <1>0, <1>2 DEF Begins, Apart
<1>3. ASSUME Len(a) < Len(b), Begins(a, b), NEW i \in Nat, Apart(b, c, i)
      PROVE  (Len(a) < Len(c) /\ Begins(a, c)) \/ Apart(a, c, i)
  <2>1. CASE i <= Len(a)
    BY <1>0, <1>3, <2>1 DEF Begins, Apart
  <2>2. CASE i > Len(a)
    BY <1>0, <1>3, <2>2 DEF Begins, Apart
  <2> QED
    BY <1>0, <2>1, <2>2
<1>4. ASSUME NEW i \in Nat, Apart(a, b, i), NEW j \in Nat, Apart(b, c, j)
      PROVE  Apart(a, c, i) \/ Apart(a, c, j)
  <2>1. CASE i < j
    BY <1>0, <1>4, <2>1 DEF Apart
  <2>2. CASE j < i
    BY <1>0, <1>4, <2>2 DEF Apart
  <2>3. CASE i = j
    BY <1>0, <1>4, <2>3 DEF Apart
  <2> QED
    BY <2>1, <2>2, <2>3
<1> QED
  BY <1>1, <1>2, <1>3, <1>4, Comes

\* The first of a non-empty set of keys.
LEMMA LeastKey ==
    ASSUME NEW S \in SUBSET WalkKeys, S # {}
    PROVE  Least(S) \in S /\ \A j \in S \ {Least(S)} : Before(Least(S), j)
<1> DEFINE Low(k) == {j \in S : Before(j, k)}
           F == {Low(k) : k \in S}
<1>0. S \subseteq ByteStrings /\ IsFiniteSet(S)
  BY WalkAssumption, FS_Subset DEF ByteStrings
<1>1. IsWellFoundedOn(StrictSubsetOrdering(S), SUBSET S)
  BY <1>0, FS_FiniteSubsetsOfFinite, FS_StrictSubsetOrderingWellFounded, Zenon
<1>2. F \subseteq SUBSET S /\ F # {}
  BY Zenon
<1> HIDE DEF F
<1>3. PICK x \in F : \A y \in F : <<y, x>> \notin StrictSubsetOrdering(S)
  BY <1>1, <1>2, WFMin
<1> USE DEF F
<1>4. PICK k \in S : x = Low(k)
  BY <1>3
<1>5. ASSUME NEW j \in S \ {k}, ~Before(k, j) PROVE FALSE
  <2>1. Before(j, k)
    BY <1>0, <1>5, Ordered
  <2>2. Low(j) \subseteq Low(k)
    BY <1>0, <2>1, BeforeTransitive
  <2>3. j \in Low(k) /\ j \notin Low(j)
    BY <1>0, <2>1, NotBeforeItself
  <2>4. Low(j) \in F
    OBVIOUS
  <2> HIDE DEF F, Low
  <2>5. <<Low(j), x>> \in StrictSubsetOrdering(S)
    BY <1>2, <1>3, <1>4, <2>2, <2>3, <2>4 DEF StrictSubsetOrdering
  <2> QED
    BY <1>3, <2>4, <2>5
<1>6. \E l \in S : \A j \in S \ {l} : Before(l, j)
  BY <1>5
<1> QED
  BY <1>6, Zenon DEF Least

\* A key between a prefix and a key that has it has it too.
LEMMA PrefixConvex ==
    ASSUME NEW a \in ByteStrings, NEW p \in ByteStrings, NEW l \in ByteStrings,
           AtOrAfter(a, p), Before(a, l), starts_with(l, p)
    PROVE  starts_with(a, p)
<1>1. Begins(p, l)
  BY Prefixed
<1>2. CASE a = p
  BY <1>2 DEF starts_with, ByteStrings
<1>3. CASE Begins(p, a)
  BY <1>3, Prefixed
<1>4. ASSUME NEW i \in Nat, Apart(p, a, i) PROVE FALSE
  <2>1. Apart(l, a, i)
    BY <1>1, <1>4 DEF Apart, Begins, ByteStrings
  <2>2. Before(l, a)
    BY <2>1, Comes
  <2> QED
    BY <2>2, BeforeTransitive, NotBeforeItself
<1> QED
  BY <1>2, <1>3, <1>4, Ordered, Comes DEF AtOrAfter

-----------------------------------------------------------------------------
Options == {<<>>} \cup {<<s>> : s \in Starts}
Walking == [at : {"none", "open", "end", "err"}, snap : SUBSET WalkKeys,
            start : Options, prefix : Options, started : BOOLEAN,
            pos : ByteStrings, yielded : Seq(WalkKeys), fault : BOOLEAN]

WalkTypeOK ==
    /\ stored \in SUBSET WalkKeys /\ walked \in Walking
    /\ walked.prefix # <<>> => walked.start = walked.prefix

\* The cursor is on the last key yielded.
AtLast ==
    walked.at = "open" =>
        IF walked.started
        THEN /\ walked.yielded # <<>>
             /\ walked.pos = walked.yielded[Len(walked.yielded)]
        ELSE walked.yielded = <<>>

InOrderSoFar ==
    LET done == Range(walked.yielded) IN
    /\ done \subseteq Wanted(walked)
    /\ \A i, j \in DOMAIN walked.yielded :
          i < j => Before(walked.yielded[i], walked.yielded[j])
    /\ \A k \in done, l \in Wanted(walked) \ done : Before(k, l)
    /\ walked.at = "end" => done = Wanted(walked)

WalkInv ==
    /\ WalkTypeOK /\ AtLast /\ InOrderSoFar
    /\ walked.at = "err" => walked.fault

\* A start or a prefix that was given.
LEMMA OptionFacts ==
    ASSUME NEW o \in Options
    PROVE  \/ o = <<>> /\ DOMAIN o = {}
           \/ o # <<>> /\ DOMAIN o = {1} /\ o[1] \in ByteStrings
BY WalkAssumption DEF Options, ByteStrings

\* Nothing walks at the start.
LEMMA NotWalkingType == NotWalking \in Walking
<1>1. <<>> \in ByteStrings /\ <<>> \in Seq(WalkKeys)
  BY DEF ByteStrings
<1> QED
  BY <1>1, Zenon DEF NotWalking, Walking, Options

\* The invariant holds at the start.
LEMMA WalkInitInv == WalkInit => WalkInv
<1> SUFFICES ASSUME WalkInit PROVE WalkInv
  OBVIOUS
<1>1. /\ walked.at = "none" /\ walked.prefix = <<>> /\ walked.yielded = <<>>
      /\ walked.snap = {}
  BY DEF WalkInit, NotWalking
<1>2. WalkTypeOK
  BY <1>1, NotWalkingType, Zenon DEF WalkInit, WalkTypeOK
<1>3. AtLast
  BY <1>1 DEF AtLast
<1>4. InOrderSoFar
  BY <1>1 DEF InOrderSoFar, Range, Wanted
<1> QED
  BY <1>1, <1>2, <1>3, <1>4 DEF WalkInv

\* The keys the next movement of the cursor chooses from.
Ahead(w) ==
    IF w.started THEN {k \in w.snap : Before(w.pos, k)}
    ELSE {k \in w.snap : w.start # <<>> => AtOrAfter(k, w.start[1])}

\* walk's choice of operation lands on the first of the keys ahead.
LEMMA MoveLands ==
    ASSUME WalkTypeOK
    PROVE  Move(walked) = Landed(Ahead(walked))
<1>0. /\ walked \in Walking /\ walked.snap \subseteq ByteStrings
      /\ walked.start \in Options
  BY WalkAssumption DEF WalkTypeOK, Walking, ByteStrings
<1>1. CASE walked.started
  BY <1>1, Zenon DEF Move, mdb_cursor_get, Ahead
<1>2. CASE ~walked.started /\ walked.start # <<>> /\ walked.start[1] # <<>>
  BY <1>2, Zenon DEF Move, mdb_cursor_get, Ahead
<1>3. CASE ~walked.started /\ ~(walked.start # <<>> /\ walked.start[1] # <<>>)
  <2>1. \A k \in walked.snap :
           walked.start # <<>> => AtOrAfter(k, walked.start[1])
    BY <1>0, <1>3, EmptyFirst DEF AtOrAfter
  <2>2. Ahead(walked) = walked.snap
    BY <1>3, <2>1 DEF Ahead
  <2> QED
    BY <1>3, <2>2 DEF Move, mdb_cursor_get
<1> QED
  BY <1>1, <1>2, <1>3

\* The keys ahead are after those yielded, and hold all that are still wanted.
LEMMA AheadFacts ==
    ASSUME WalkInv, walked.at = "open"
    PROVE  /\ Ahead(walked) \in SUBSET WalkKeys
           /\ Wanted(walked) \ Range(walked.yielded) \subseteq Ahead(walked)
           /\ \A k \in Ahead(walked) :
                 /\ \A i \in DOMAIN walked.start : AtOrAfter(k, walked.start[i])
                 /\ \A d \in Range(walked.yielded) : Before(d, k)
<1> DEFINE y == walked.yielded
           n == Len(y)
           start == walked.start
<1>0. /\ walked.snap \in SUBSET WalkKeys /\ y \in Seq(WalkKeys)
      /\ start \in Options
      /\ WalkKeys \subseteq ByteStrings
  BY WalkAssumption DEF WalkInv, WalkTypeOK, Walking, ByteStrings
<1>1. Ahead(walked) \in SUBSET walked.snap /\ Wanted(walked) \subseteq walked.snap
  BY DEF Ahead, Wanted
<1>2. CASE walked.started
  <2>1. n \in DOMAIN y /\ walked.pos = y[n] /\ n \in Nat /\ DOMAIN y = 1 .. n
    BY <1>0, <1>2 DEF WalkInv, AtLast
  <2>2. walked.pos \in Range(y) /\ walked.pos \in Wanted(walked)
    BY <2>1 DEF WalkInv, InOrderSoFar, Range
  <2>3. \A l \in Wanted(walked) \ Range(y) : Before(walked.pos, l)
    BY <2>2 DEF WalkInv, InOrderSoFar
  <2>4. ASSUME NEW k \in Ahead(walked) PROVE Before(walked.pos, k)
    BY <1>2 DEF Ahead
  <2>5. walked.pos \in ByteStrings
    BY <1>0, <1>1, <2>2
  <2>6. ASSUME NEW k \in Ahead(walked), NEW i \in DOMAIN start
        PROVE  AtOrAfter(k, start[i])
    <3>1. start[i] \in ByteStrings
      BY <1>0, OptionFacts
    <3>2. AtOrAfter(walked.pos, start[i])
      BY <2>2 DEF Wanted
    <3> QED
      BY <1>0, <1>1, <2>4, <2>5, <3>1, <3>2, BeforeTransitive DEF AtOrAfter
  <2>7. ASSUME NEW k \in Ahead(walked), NEW d \in Range(y) PROVE Before(d, k)
    <3>1. PICK i \in 1 .. n : d = y[i]
      BY <2>1 DEF Range
    <3>2. d \in ByteStrings
      BY <1>0, <2>1, <3>1
    <3>3. CASE i = n
      BY <2>1, <2>4, <3>1, <3>3
    <3>4. CASE i < n
      <4>1. Before(d, walked.pos)
        BY <2>1, <3>1, <3>4 DEF WalkInv, InOrderSoFar
      <4> QED
        BY <1>0, <1>1, <2>4, <2>5, <3>2, <4>1, BeforeTransitive
    <3> QED
      BY <2>1, <3>3, <3>4
  <2>8. Wanted(walked) \ Range(y) \subseteq Ahead(walked)
    BY <1>1, <1>2, <2>3 DEF Ahead
  <2> QED
    BY <1>0, <1>1, <2>6, <2>7, <2>8
<1>3. CASE ~walked.started
  <2>1. Range(y) = {}
    BY <1>3 DEF WalkInv, AtLast, Range
  <2>2. ASSUME NEW k \in Ahead(walked), NEW i \in DOMAIN start
        PROVE  AtOrAfter(k, start[i])
    BY <1>0, <1>3, OptionFacts DEF Ahead
  <2>3. ASSUME NEW l \in Wanted(walked) PROVE l \in Ahead(walked)
    BY <1>0, <1>1, <1>3, OptionFacts DEF Ahead, Wanted
  <2> QED
    BY <1>0, <1>1, <2>1, <2>2, <2>3
<1> QED
  BY <1>2, <1>3

\* A step that leaves the keys yielded and the walk's limits alone.
LEMMA SameWanted ==
    ASSUME walked'.snap = walked.snap, walked'.start = walked.start,
           walked'.prefix = walked.prefix
    PROVE  Wanted(walked)' = Wanted(walked)
BY Zenon DEF Wanted

\* A pair yielded is the next of those wanted, and an end is their end.
LEMMA WalkStepInv ==
    ASSUME WalkInv, WalkStep
    PROVE  WalkInv'
<1> DEFINE y == walked.yielded
           got == Move(walked)
<1>0. /\ walked.at = "open" /\ walked \in Walking /\ UNCHANGED stored
      /\ stored \in SUBSET WalkKeys
      /\ walked.prefix # <<>> => walked.start = walked.prefix
      /\ WalkKeys \subseteq ByteStrings /\ y \in Seq(WalkKeys)
      /\ walked.prefix \in Options
  BY WalkAssumption DEF WalkStep, WalkInv, WalkTypeOK, Walking, ByteStrings
<1>1. got = Landed(Ahead(walked))
  BY MoveLands DEF WalkInv
<1>2. walked' = IF got.is = "pair" /\ ~Past(walked, got.key)
                THEN [walked EXCEPT !.started = TRUE, !.pos = got.key,
                                    !.yielded = Append(y, got.key)]
                ELSE [walked EXCEPT !.started = TRUE,
                         !.at = IF got.is = "EINVAL" THEN "err" ELSE "end"]
  BY Zenon DEF WalkStep
<1> HIDE DEF got
<1>3. ASSUME \/ Ahead(walked) = {}
             \/ Ahead(walked) # {} /\ Past(walked, Least(Ahead(walked)))
      PROVE  WalkInv'
  <2>1. walked' = [walked EXCEPT !.started = TRUE, !.at = "end"]
    BY <1>1, <1>2, <1>3 DEF Landed
  <2>2. walked' \in Walking
    BY <1>0, <2>1, Zenon DEF Walking
  <2>3. /\ walked'.at = "end" /\ walked'.yielded = y
        /\ walked'.snap = walked.snap /\ walked'.start = walked.start
        /\ walked'.prefix = walked.prefix
    BY <1>0, <2>1 DEF Walking
  <2>4. ASSUME NEW l \in Wanted(walked) \ Range(y) PROVE FALSE
    <3> DEFINE key == Least(Ahead(walked))
    <3>1. l \in Ahead(walked) /\ Ahead(walked) \in SUBSET WalkKeys
      BY <1>0, AheadFacts
    <3>2. Past(walked, key) /\ key \in Ahead(walked)
          /\ (key = l \/ Before(key, l))
      BY <1>3, <3>1, LeastKey
    <3>3. /\ walked.prefix # <<>> /\ 1 \in DOMAIN walked.prefix
          /\ walked.prefix[1] \in ByteStrings
          /\ ~starts_with(key, walked.prefix[1])
      BY <1>0, <3>2, OptionFacts DEF Past
    <3>4. starts_with(l, walked.prefix[1])
      BY <3>3 DEF Wanted
    <3>5. AtOrAfter(key, walked.prefix[1])
      BY <1>0, <3>2, <3>3, AheadFacts
    <3> QED
      BY <1>0, <3>1, <3>2, <3>3, <3>4, <3>5, PrefixConvex
  <2>5. InOrderSoFar'
    <3>1. Wanted(walked)' = Wanted(walked)
      BY <2>3, SameWanted
    <3>2. Range(y) = Wanted(walked)
      BY <2>4 DEF WalkInv, InOrderSoFar
    <3> QED
      BY <2>3, <3>1, <3>2 DEF WalkInv, InOrderSoFar
  <2>6. WalkTypeOK' /\ AtLast'
    BY <1>0, <2>2, <2>3 DEF WalkTypeOK, AtLast
  <2> QED
    BY <2>3, <2>5, <2>6 DEF WalkInv
<1>4. ASSUME Ahead(walked) # {}, ~Past(walked, Least(Ahead(walked)))
      PROVE  WalkInv'
  <2> DEFINE key == Least(Ahead(walked))
             n == Len(y)
  <2>1. /\ key \in Ahead(walked) /\ key \in WalkKeys
        /\ \A l \in Ahead(walked) \ {key} : Before(key, l)
    BY <1>0, <1>4, LeastKey, AheadFacts
  <2>2. walked' = [walked EXCEPT !.started = TRUE, !.pos = key,
                                 !.yielded = Append(y, key)]
    BY <1>1, <1>2, <1>4, Zenon DEF Landed
  <2> HIDE DEF key
  <2>3. /\ Append(y, key) \in Seq(WalkKeys)
        /\ Len(Append(y, key)) = n + 1 /\ n \in Nat
        /\ DOMAIN y = 1 .. n /\ DOMAIN Append(y, key) = 1 .. n + 1
        /\ Append(y, key)[n + 1] = key
        /\ \A i \in 1 .. n : Append(y, key)[i] = y[i]
    BY <1>0, <2>1
  <2>4. walked' \in Walking
    BY <1>0, <2>1, <2>2, <2>3, Zenon DEF Walking
  <2>5. /\ walked'.at = "open" /\ walked'.started /\ walked'.pos = key
        /\ walked'.yielded = Append(y, key)
        /\ walked'.snap = walked.snap /\ walked'.start = walked.start
        /\ walked'.prefix = walked.prefix
    BY <1>0, <2>2 DEF Walking
  <2> DEFINE z == walked'.yielded
  <2>6. Range(z) = Range(y) \cup {key}
    BY <2>3, <2>5 DEF Range
  <2>7. Wanted(walked)' = Wanted(walked)
    BY <2>5, SameWanted
  <2>8. key \in Wanted(walked)
    <3>1. key \in walked.snap
      BY <2>1 DEF Ahead
    <3>2. \A i \in DOMAIN walked.start : AtOrAfter(key, walked.start[i])
      BY <1>0, <2>1, AheadFacts
    <3>3. \A i \in DOMAIN walked.prefix : starts_with(key, walked.prefix[i])
      BY <1>0, <1>4, OptionFacts DEF Past, key
    <3> QED
      BY <3>1, <3>2, <3>3 DEF Wanted
  <2>9. \A d \in Range(y) : Before(d, key)
    BY <1>0, <2>1, AheadFacts
  <2>10. ASSUME NEW i \in DOMAIN z, NEW j \in DOMAIN z, i < j
         PROVE  Before(z[i], z[j])
    <3>1. CASE j = n + 1
      <4>1. i \in 1 .. n /\ z[i] = y[i] /\ z[j] = key
        BY <2>3, <2>5, <2>10, <3>1
      <4>2. z[i] \in Range(y)
        BY <2>3, <4>1 DEF Range
      <4> QED
        BY <2>9, <4>1, <4>2
    <3>2. CASE j # n + 1
      <4>1. i \in 1 .. n /\ j \in 1 .. n /\ z[i] = y[i] /\ z[j] = y[j]
        BY <2>3, <2>5, <2>10, <3>2
      <4> QED
        BY <2>3, <2>10, <4>1 DEF WalkInv, InOrderSoFar
    <3> QED
      BY <3>1, <3>2
  <2>11. ASSUME NEW k \in Range(z), NEW l \in Wanted(walked) \ Range(z)
         PROVE  Before(k, l)
    <3>1. l \in Ahead(walked) \ {key} /\ l \in Wanted(walked) \ Range(y)
      BY <1>0, <2>6, AheadFacts
    <3> QED
      BY <2>1, <2>6, <3>1 DEF WalkInv, InOrderSoFar
  <2>12. InOrderSoFar'
    <3>1. Range(z) \subseteq Wanted(walked)
      BY <2>6, <2>8 DEF WalkInv, InOrderSoFar
    <3> HIDE DEF z
    <3> QED
      BY <2>5, <2>7, <2>10, <2>11, <3>1, Zenon DEF InOrderSoFar, z
  <2>13. WalkTypeOK'
    BY <1>0, <2>4, <2>5 DEF WalkTypeOK
  <2>14. AtLast'
    BY <2>3, <2>5 DEF AtLast
  <2> QED
    BY <2>5, <2>12, <2>13, <2>14 DEF WalkInv
<1> QED
  BY <1>3, <1>4

\* A walk that starts, and any step that leaves the walk alone.
LEMMA StartWalkInv ==
    ASSUME WalkInv, NEW start \in Options, NEW prefix \in Options,
           prefix # <<>> => start = prefix, StartWalk(start, prefix)
    PROVE  WalkInv'
<1> DEFINE w == [NotWalking EXCEPT !.at = "open", !.snap = stored,
                                   !.start = start, !.prefix = prefix]
<1>1. walked' = w /\ UNCHANGED stored /\ stored \in SUBSET WalkKeys
  BY DEF StartWalk, WalkInv, WalkTypeOK
<1>2. w \in Walking
  BY <1>1, NotWalkingType, Zenon DEF Walking
<1>3. /\ w.at = "open" /\ w.started = FALSE /\ w.yielded = <<>>
      /\ w.start = start /\ w.prefix = prefix
  BY Zenon DEF NotWalking
<1> HIDE DEF w
<1>4. WalkTypeOK' /\ AtLast'
  BY <1>1, <1>2, <1>3 DEF WalkTypeOK, AtLast
<1>5. InOrderSoFar'
  BY <1>1, <1>3 DEF InOrderSoFar, Range
<1> QED
  BY <1>1, <1>3, <1>4, <1>5 DEF WalkInv

\* A failed call and an end of the walk.
LEMMA WalkFailsInv ==
    ASSUME WalkInv, WalkFails
    PROVE  WalkInv'
<1> DEFINE w == [walked EXCEPT !.started = TRUE, !.at = "err", !.fault = TRUE]
<1>1. /\ walked' = w /\ UNCHANGED stored /\ stored \in SUBSET WalkKeys
      /\ walked \in Walking
      /\ walked.prefix # <<>> => walked.start = walked.prefix
  BY DEF WalkFails, WalkInv, WalkTypeOK
<1>2. w \in Walking
  BY <1>1, Zenon DEF Walking
<1>3. /\ w.at = "err" /\ w.fault = TRUE /\ w.yielded = walked.yielded
      /\ w.snap = walked.snap /\ w.start = walked.start
      /\ w.prefix = walked.prefix
  BY <1>1, Zenon DEF Walking
<1> HIDE DEF w
<1>4. WalkTypeOK' /\ AtLast'
  BY <1>1, <1>2, <1>3 DEF WalkTypeOK, AtLast
<1>5. InOrderSoFar'
  <2>1. Wanted(walked)' = Wanted(walked)
    BY <1>1, <1>3, SameWanted
  <2> QED
    BY <1>1, <1>3, <2>1 DEF WalkInv, InOrderSoFar
<1> QED
  BY <1>1, <1>3, <1>4, <1>5 DEF WalkInv

\* Every step keeps the invariant.
LEMMA WalkNextInv ==
    ASSUME WalkInv, [WalkNext]_walkedVars
    PROVE  WalkInv'
<1>1. CASE UNCHANGED walkedVars
  BY <1>1, Zenon DEF walkedVars, WalkInv, WalkTypeOK, AtLast, InOrderSoFar,
     Wanted
<1>2. CASE Walks
  <2>1. <<>> \in Options /\ \A s \in Starts : <<s>> \in Options /\ <<s>> # <<>>
    BY DEF Options
  <2> QED
    BY <1>2, <2>1, StartWalkInv, Zenon DEF Walks
<1>3. CASE LeaveWalk
  <2>1. walked' = NotWalking /\ UNCHANGED stored
    BY <1>3 DEF LeaveWalk
  <2>2. /\ NotWalking.at = "none" /\ NotWalking.prefix = <<>>
        /\ NotWalking.yielded = <<>>
    BY DEF NotWalking
  <2>3. WalkTypeOK' /\ AtLast'
    BY <2>1, <2>2, NotWalkingType, Zenon DEF WalkInv, WalkTypeOK, AtLast
  <2>4. InOrderSoFar'
    BY <2>1, <2>2 DEF InOrderSoFar, Range
  <2> QED
    BY <2>1, <2>2, <2>3, <2>4 DEF WalkInv
<1>4. ASSUME NEW k \in WalkKeys, OtherCommits(k) PROVE WalkInv'
  <2>1. walked' = walked
    BY <1>4 DEF OtherCommits
  <2>2. WalkTypeOK'
    BY <1>4 DEF OtherCommits, WalkInv, WalkTypeOK
  <2>3. AtLast' /\ InOrderSoFar'
    BY <2>1, Zenon DEF WalkInv, AtLast, InOrderSoFar, Wanted
  <2> QED
    BY <2>1, <2>2, <2>3 DEF WalkInv
<1> QED
  BY <1>1, <1>2, <1>3, <1>4, WalkStepInv, WalkFailsInv DEF WalkNext

\* Cursor::seek finds the first key at or after the one asked for, and
\* seek_exact that key or nothing, an empty one included.
LEMMA SeeksAgree ==
    ASSUME WalkTypeOK, NEW s \in Starts
    PROVE  /\ Seek(stored, s) = Landed({k \in stored : AtOrAfter(k, s)})
           /\ SeekExact(stored, s) = Landed(stored \cap {s})
<1>1. CASE s = <<>>
  <2>1. {k \in stored : AtOrAfter(k, s)} = stored
    BY <1>1, EmptyFirst, WalkAssumption
       DEF WalkTypeOK, AtOrAfter, ByteStrings
  <2>2. stored \cap {s} = {}
    BY <1>1, WalkAssumption DEF WalkTypeOK
  <2> QED
    BY <1>1, <2>1, <2>2, Zenon DEF Seek, SeekExact, mdb_cursor_get, Landed
<1>2. CASE s # <<>>
  BY <1>2 DEF Seek, SeekExact, mdb_cursor_get
<1> QED
  BY <1>1, <1>2

\* scan, iter, their variants and seek, over any keys and for any starts:
\* the keys wanted come in order, none missed and none twice.
THEOREM WalksInOrderHolds == WalkSpec => []WalksInOrder
<1>1. WalkInv => WalksInOrder
  <2> SUFFICES ASSUME WalkInv PROVE WalksInOrder
    OBVIOUS
  <2> QED
    BY SeeksAgree, Zenon DEF WalkInv, InOrderSoFar, WalksInOrder
<1> QED
  BY <1>1, WalkInitInv, WalkNextInv, PTL DEF WalkSpec
=============================================================================
