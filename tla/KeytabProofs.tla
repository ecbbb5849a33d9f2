---------------------------- MODULE KeytabProofs ----------------------------
(***************************************************************************)
(* remove_entry and as_bytes of Krb5Keytab are exact for any holders,      *)
(* entries and filters and a file of any length.  RemovalIsExact is not    *)
(* inductive: the bound on what a removal leaves needs how many wanted     *)
(* entries its walk went past, then how many it has still to take          *)
(* (RemovalOK); that each removal takes another entry needs that no two    *)
(* have one serial (SerialsOK) and that what was taken is not in the file  *)
(* (MemoryOK); and that a copy has every entry that lasted, none twice,    *)
(* needs what lies before its cursor and what after (CopyOK).              *)
(***************************************************************************)
EXTENDS Krb5Keytab, FiniteSetTheorems, WellFoundedInduction, TLAPS

\* An entry of the file, and a place of it.
Live == [serial : Nat \ {0}, key : Entries]
Slots == Live \cup {Hole}
Cursors == [pos : Nat \ {0}, found : Seq(Live), removed : Nat,
            by : Filters \cup {<<>>}]
KtSteps == {"rest", "snapshot", "remove", "removed", "copy", "copied"}

KeytabTypeOK ==
    /\ table \in Seq(Slots) /\ adds \in Nat
    /\ at \in [Holders -> KtSteps]
    /\ walk \in [Holders -> Cursors]
    /\ gone \in [Holders -> SUBSET Live]
    /\ lasted \in [Holders -> SUBSET Live]
    /\ late \in [Holders -> Nat]

\* No two entries have one serial, and none a serial not given yet.
SerialsOK ==
    /\ \A i \in DOMAIN table : table[i].serial <= adds
    /\ \A i, j \in DOMAIN table :
          table[i] \in Live /\ table[i].serial = table[j].serial => i = j

\* What a holder remembers of the file is of entries given a serial, what
\* lasted is still there, and what it took out is not.
MemoryOK(h) ==
    /\ \A e \in Range(walk[h].found) : e.serial <= adds
    /\ lasted[h] \subseteq Range(table)
    /\ \A e \in gone[h] :
          /\ e.serial <= adds /\ Want(e.key, walk[h].by)
          /\ \A i \in DOMAIN table : table[i].serial # e.serial
    /\ IsFiniteSet(gone[h]) /\ Cardinality(gone[h]) = walk[h].removed

\* The places of a file, of those in S, whose entries a removal wants.
WantedIn(file, by, S) ==
    {i \in DOMAIN file : /\ i \in S /\ file[i] \in Live
                         /\ Want(file[i].key, by)}

\* A removal has found the wanted entries it walked past, less those added
\* since it began; each removal takes one of the wanted.
RemovalOK(h) ==
    /\ at[h] \in {"snapshot", "remove", "removed"} =>
          \A e \in Range(walk[h].found) : Want(e.key, walk[h].by)
    /\ walk[h].removed <= Len(walk[h].found)
    /\ at[h] = "snapshot" =>
          /\ walk[h].removed = 0
          /\ Cardinality(WantedIn(table, walk[h].by, 1 .. walk[h].pos - 1))
               <= Len(walk[h].found) + late[h]
    /\ at[h] \in {"remove", "removed"} =>
          Cardinality(WantedIn(table, walk[h].by, Nat)) + walk[h].removed
            <= Len(walk[h].found) + late[h]
    /\ at[h] = "removed" => walk[h].removed = Len(walk[h].found)

Distinct(s) == \A i, j \in DOMAIN s : s[i] = s[j] => i = j

\* A copy has what lasted of the places it walked past, and nothing of those
\* ahead of it.
CopyOK(h) ==
    /\ at[h] = "copy" =>
        /\ \A i \in DOMAIN table :
              i < walk[h].pos /\ table[i] \in lasted[h] =>
                  table[i] \in Range(walk[h].found)
        /\ \A i \in DOMAIN table :
              table[i] \in Range(walk[h].found) => i < walk[h].pos
    /\ at[h] = "copied" => lasted[h] \subseteq Range(walk[h].found)
    /\ at[h] \in {"copy", "copied"} =>
          Distinct(walk[h].found)

KeytabInv ==
    /\ KeytabTypeOK /\ SerialsOK
    /\ \A h \in Holders : MemoryOK(h) /\ RemovalOK(h) /\ CopyOK(h)

-----------------------------------------------------------------------------
\* Of some places one is the first.
LEMMA FirstPlace ==
    ASSUME NEW T \in SUBSET Nat, NEW n \in T
    PROVE  \E m \in T : \A k \in T : m <= k
<1> DEFINE F == {0 .. m : m \in {k \in T : k <= n}}
<1>1. F \subseteq SUBSET (0 .. n)
  OBVIOUS
<1>2. F # {}
  OBVIOUS
<1>3. IsWellFoundedOn(StrictSubsetOrdering(0 .. n), SUBSET (0 .. n))
  <2>1. 0 \in Int /\ n \in Int
    OBVIOUS
  <2>2. IsFiniteSet(0 .. n)
    BY <2>1, FS_Interval
  <2> QED
    BY <2>2, FS_FiniteSubsetsOfFinite, FS_StrictSubsetOrderingWellFounded, Zenon
<1> HIDE DEF F
<1>4. PICK x \in F : \A y \in F : <<y, x>> \notin StrictSubsetOrdering(0 .. n)
  BY <1>1, <1>2, <1>3, WFMin, Zenon
<1> USE DEF F
<1>5. PICK m \in T : m <= n /\ x = 0 .. m
  BY <1>4
<1>6. ASSUME NEW k \in T, k < m PROVE FALSE
  <2>1. 0 .. k \in F
    BY <1>5, <1>6
  <2>2. 0 .. k \subseteq x /\ m \in x /\ m \notin 0 .. k
    BY <1>5, <1>6
  <2>3. <<0 .. k, x>> \in StrictSubsetOrdering(0 .. n)
    BY <1>1, <1>4, <2>1, <2>2 DEF StrictSubsetOrdering
  <2> QED
    BY <1>4, <2>1, <2>3, Zenon
<1> QED
  BY <1>5, <1>6

\* FirstOf takes a place of those it is given.
LEMMA FirstOfFacts ==
    ASSUME NEW S \in SUBSET Nat, S # {}
    PROVE  FirstOf(S) \in S /\ \A i \in S : FirstOf(S) <= i
<1>1. PICK n \in S : TRUE
  BY Zenon
<1>2. \E m \in S : \A k \in S : m <= k
  BY <1>1, FirstPlace, Zenon
<1> QED
  BY <1>2, Zenon DEF FirstOf

\* A hole is no entry, and only it has no serial.
LEMMA SlotFacts ==
    /\ Hole \notin Live /\ Hole.serial = 0
    /\ \A e \in Live : e.serial \in Nat /\ e.serial > 0 /\ e # Hole
    /\ \A e \in Slots : e.serial \in Nat /\ (e = Hole \/ e \in Live)
<1>1. Hole.serial = 0
  BY DEF Hole
<1>2. \A e \in Live : e.serial \in Nat \ {0}
  BY DEF Live
<1>3. Hole \notin Live
  BY <1>1, <1>2
<1> QED
  BY <1>1, <1>2, <1>3 DEF Slots

\* g is f but for the place k, which may be a new one at its end.
Changed(f, g, k) ==
    /\ f \in Seq(Slots) /\ g \in Seq(Slots)
    /\ k \in DOMAIN g /\ DOMAIN f \subseteq DOMAIN g
    /\ \A i \in DOMAIN g \ {k} : i \in DOMAIN f /\ g[i] = f[i]

\* krb5_kt_add_entry takes a place that had no entry.
LEMMA AddedChanges ==
    ASSUME NEW f \in Seq(Slots), NEW e \in Live
    PROVE  \E k \in Nat : /\ Changed(f, Added(f, e), k)
                          /\ Added(f, e)[k] = e
                          /\ k \in DOMAIN f => f[k] = Hole
<1> DEFINE holes == {i \in DOMAIN f : f[i] = Hole}
<1>1. e \in Slots
  BY DEF Slots
<1>2. DOMAIN f = 1 .. Len(f) /\ Len(f) \in Nat /\ holes \in SUBSET Nat
  OBVIOUS
<1>3. CASE holes # {}
  <2> DEFINE k == FirstOf(holes)
  <2>1. k \in holes
    BY <1>2, <1>3, FirstOfFacts, Zenon
  <2>2. Added(f, e) = [f EXCEPT ![k] = e]
    BY <1>3 DEF Added
  <2> HIDE DEF k
  <2>3. [f EXCEPT ![k] = e] \in Seq(Slots)
    BY <1>1, <2>1
  <2>4. Changed(f, Added(f, e), k) /\ Added(f, e)[k] = e
    BY <2>1, <2>2, <2>3 DEF Changed
  <2> QED
    BY <1>2, <2>1, <2>4
<1>4. CASE holes = {}
  <2> DEFINE k == Len(f) + 1
  <2>1. Added(f, e) = Append(f, e)
    BY <1>4 DEF Added
  <2>2. /\ Append(f, e) \in Seq(Slots) /\ DOMAIN Append(f, e) = 1 .. k
        /\ Append(f, e)[k] = e /\ \A i \in 1 .. Len(f) : Append(f, e)[i] = f[i]
    BY <1>1, <1>2
  <2>3. k \in Nat /\ k \notin DOMAIN f /\ 1 .. k = (1 .. Len(f)) \cup {k}
        /\ k \in 1 .. k
    BY <1>2
  <2> HIDE DEF k
  <2>4. Changed(f, Added(f, e), k) /\ Added(f, e)[k] = e
    BY <1>2, <2>1, <2>2, <2>3 DEF Changed
  <2> QED
    BY <2>3, <2>4
<1> QED
  BY <1>3, <1>4

\* The wanted can be counted.
LEMMA WantedFinite ==
    ASSUME NEW f \in Seq(Slots), NEW by, NEW S
    PROVE  /\ IsFiniteSet(WantedIn(f, by, S))
           /\ Cardinality(WantedIn(f, by, S)) \in Nat
<1>1. DOMAIN f = 1 .. Len(f) /\ Len(f) \in Nat
  OBVIOUS
<1>2. IsFiniteSet(1 .. Len(f))
  BY <1>1, FS_Interval
<1>3. WantedIn(f, by, S) \in SUBSET (1 .. Len(f))
  BY <1>1 DEF WantedIn
<1> QED
  BY <1>2, <1>3, FS_Subset, FS_CardinalityType

\* One place changes the count of the wanted by one at most.
LEMMA ChangedCount ==
    ASSUME NEW f, NEW g, NEW k, Changed(f, g, k), NEW by, NEW S
    PROVE  /\ Cardinality(WantedIn(g, by, S))
                <= Cardinality(WantedIn(f, by, S)) + 1
           /\ k \notin WantedIn(g, by, S) =>
                Cardinality(WantedIn(g, by, S))
                  <= Cardinality(WantedIn(f, by, S))
           /\ k \notin WantedIn(g, by, S) /\ k \in WantedIn(f, by, S) =>
                Cardinality(WantedIn(g, by, S)) + 1
                  <= Cardinality(WantedIn(f, by, S))
<1> DEFINE A == WantedIn(f, by, S)
           B == WantedIn(g, by, S)
<1>1. B \subseteq A \cup {k} /\ (k \notin B => B \subseteq A)
  BY Zenon DEF Changed, WantedIn
<1>2. /\ IsFiniteSet(A) /\ IsFiniteSet(B)
      /\ Cardinality(A) \in Nat /\ Cardinality(B) \in Nat
  BY WantedFinite DEF Changed
<1> HIDE DEF A, B
<1>3. /\ IsFiniteSet(A \cup {k})
      /\ Cardinality(A \cup {k})
           = IF k \in A THEN Cardinality(A) ELSE Cardinality(A) + 1
  BY <1>2, FS_AddElement
<1>4. Cardinality(B) <= Cardinality(A \cup {k})
  BY <1>1, <1>3, FS_Subset
<1>5. k \notin B => Cardinality(B) <= Cardinality(A)
  BY <1>1, <1>2, FS_Subset
<1>6. ASSUME k \notin B, k \in A PROVE Cardinality(B) + 1 <= Cardinality(A)
  <2>1. /\ IsFiniteSet(B \cup {k})
        /\ Cardinality(B \cup {k}) = Cardinality(B) + 1
    BY <1>2, <1>6, FS_AddElement
  <2>2. B \cup {k} \subseteq A
    BY <1>1, <1>6
  <2> QED
    BY <1>2, <2>1, <2>2, FS_Subset
<1>7. Cardinality(B) <= Cardinality(A) + 1
  BY <1>2, <1>3, <1>4
<1> QED
  BY <1>5, <1>6, <1>7 DEF A, B

-----------------------------------------------------------------------------
\* What the invariant says of one holder.
LEMMA KeytabInvFacts ==
    ASSUME KeytabInv, NEW h \in Holders
    PROVE  /\ table \in Seq(Slots) /\ DOMAIN table = 1 .. Len(table)
           /\ Len(table) \in Nat /\ adds \in Nat
           /\ at[h] \in KtSteps
           /\ walk[h] \in Cursors /\ walk[h].pos \in Nat \ {0}
           /\ walk[h].found \in Seq(Live) /\ walk[h].removed \in Nat
           /\ DOMAIN walk[h].found = 1 .. Len(walk[h].found)
           /\ Len(walk[h].found) \in Nat /\ late[h] \in Nat
           /\ gone[h] \subseteq Live /\ lasted[h] \subseteq Live
           /\ MemoryOK(h) /\ RemovalOK(h) /\ CopyOK(h)
<1>1. KeytabTypeOK /\ MemoryOK(h) /\ RemovalOK(h) /\ CopyOK(h)
  BY DEF KeytabInv
<1>2. walk[h] \in Cursors
  BY <1>1 DEF KeytabTypeOK
<1>3. /\ walk[h].pos \in Nat \ {0} /\ walk[h].found \in Seq(Live)
      /\ walk[h].removed \in Nat
  BY <1>2 DEF Cursors
<1>4. /\ DOMAIN walk[h].found = 1 .. Len(walk[h].found)
      /\ Len(walk[h].found) \in Nat
  BY <1>3
<1>5. /\ table \in Seq(Slots) /\ DOMAIN table = 1 .. Len(table)
      /\ Len(table) \in Nat /\ adds \in Nat
  BY <1>1 DEF KeytabTypeOK
<1>6. /\ at[h] \in KtSteps /\ late[h] \in Nat
      /\ gone[h] \subseteq Live /\ lasted[h] \subseteq Live
  BY <1>1 DEF KeytabTypeOK
<1> QED
  BY <1>1, <1>2, <1>3, <1>4, <1>5, <1>6

\* A holder that a step does not concern.
LEMMA HolderFrame ==
    ASSUME NEW g \in Holders, MemoryOK(g), RemovalOK(g), CopyOK(g),
           table' = table, adds' = adds, at'[g] = at[g], walk'[g] = walk[g],
           gone'[g] = gone[g], lasted'[g] = lasted[g], late'[g] = late[g]
    PROVE  MemoryOK(g)' /\ RemovalOK(g)' /\ CopyOK(g)'
<1>1. MemoryOK(g)'
  BY Zenon DEF MemoryOK
<1>2. RemovalOK(g)'
  BY Zenon DEF RemovalOK
<1>3. CopyOK(g)'
  BY Zenon DEF CopyOK
<1> QED
  BY <1>1, <1>2, <1>3

\* A step of one holder that leaves the file alone.
LEMMA OneHolder ==
    ASSUME KeytabInv, KeytabTypeOK', table' = table, adds' = adds,
           NEW h \in Holders, MemoryOK(h)', RemovalOK(h)', CopyOK(h)',
           \A g \in Holders \ {h} :
              /\ at'[g] = at[g] /\ walk'[g] = walk[g] /\ gone'[g] = gone[g]
              /\ lasted'[g] = lasted[g] /\ late'[g] = late[g]
    PROVE  KeytabInv'
<1>1. SerialsOK'
  BY Zenon DEF KeytabInv, SerialsOK
<1>2. ASSUME NEW g \in Holders PROVE MemoryOK(g)' /\ RemovalOK(g)' /\ CopyOK(g)'
  <2>1. CASE g = h
    BY <2>1
  <2>2. CASE g # h
    BY <2>2, KeytabInvFacts, HolderFrame
  <2> QED
    BY <2>1, <2>2
<1> QED
  BY <1>1, <1>2 DEF KeytabInv

\* A function has begun, or is left: it has walked past nothing.
LEMMA FreshHolder ==
    ASSUME KeytabInv, NEW h \in Holders,
           NEW what \in {"snapshot", "copy", "rest"},
           NEW w \in Cursors, w.pos = 1, w.found = <<>>, w.removed = 0,
           NEW kept \in SUBSET In(table),
           at' = [at EXCEPT ![h] = what],
           walk' = [walk EXCEPT ![h] = w],
           gone' = [gone EXCEPT ![h] = {}],
           lasted' = [lasted EXCEPT ![h] = kept],
           late' = [late EXCEPT ![h] = 0], table' = table, adds' = adds
    PROVE  KeytabInv'
<1>0. KeytabTypeOK
  BY DEF KeytabInv
<1>1. w.pos = 1 /\ w.found = <<>> /\ w.removed = 0
  OBVIOUS
<1>2. In(table) \subseteq Live /\ In(table) \subseteq Range(table)
  <2>1. \A e \in Slots : e.serial > 0 => e \in Live
    BY SlotFacts
  <2>2. Range(table) \subseteq Slots
    BY <1>0 DEF KeytabTypeOK, Range
  <2> QED
    BY <2>1, <2>2, Zenon DEF In
<1>3. KeytabTypeOK'
  <2>1. what \in KtSteps /\ kept \in SUBSET Live
    BY <1>2 DEF KtSteps
  <2> QED
    BY <1>0, <2>1, Zenon DEF KeytabTypeOK
<1>4. /\ at'[h] = what /\ walk'[h] = w /\ gone'[h] = {} /\ lasted'[h] = kept
      /\ late'[h] = 0
      /\ \A g \in Holders \ {h} :
            /\ at'[g] = at[g] /\ walk'[g] = walk[g] /\ gone'[g] = gone[g]
            /\ lasted'[g] = lasted[g] /\ late'[g] = late[g]
  BY <1>0 DEF KeytabTypeOK
<1>5. IsFiniteSet({}) /\ Cardinality({}) = 0
  BY FS_EmptySet
<1>6. Len(<<>>) = 0 /\ DOMAIN <<>> = {} /\ Range(<<>>) = {}
  BY DEF Range
<1>7. MemoryOK(h)'
  BY <1>1, <1>2, <1>4, <1>5, <1>6, Zenon DEF MemoryOK
<1>8. RemovalOK(h)'
  <2>1. WantedIn(table', w.by, 1 .. w.pos - 1) = {}
    BY <1>1 DEF WantedIn
  <2>2. /\ Range(walk'[h].found) = {} /\ walk'[h].removed = 0
        /\ Len(walk'[h].found) = 0
        /\ Cardinality(WantedIn(table', walk'[h].by, 1 .. walk'[h].pos - 1)) = 0
    BY <1>1, <1>4, <1>5, <1>6, <2>1, Zenon
  <2>3. at'[h] \notin {"remove", "removed"}
    BY <1>4
  <2>4. /\ walk'[h].removed <= Len(walk'[h].found)
        /\ Cardinality(WantedIn(table', walk'[h].by, 1 .. walk'[h].pos - 1))
             <= Len(walk'[h].found) + late'[h]
    BY <1>4, <2>2
  <2> QED
    BY <2>2, <2>3, <2>4, Zenon DEF RemovalOK
<1>9. CopyOK(h)'
  <2>1. \A i \in DOMAIN table' : ~ i < 1
    BY <1>0 DEF KeytabTypeOK
  <2>2. /\ walk'[h].found = <<>> /\ Range(walk'[h].found) = {}
        /\ walk'[h].pos = 1 /\ at'[h] # "copied" /\ Distinct(walk'[h].found)
    BY <1>1, <1>4, <1>6, Zenon DEF Distinct
  <2> QED
    BY <2>1, <2>2, Zenon DEF CopyOK
<1> QED
  BY <1>3, <1>4, <1>7, <1>8, <1>9, OneHolder

\* next_raw: the places from the cursor to the entry it finds are holes.
LEMMA NextRawFacts ==
    ASSUME KeytabInv, NEW h \in Holders
    PROVE  /\ Next_raw(h) # 0 =>
                /\ Next_raw(h) \in DOMAIN table /\ walk[h].pos <= Next_raw(h)
                /\ table[Next_raw(h)] \in Live
                /\ \A i \in walk[h].pos .. Next_raw(h) - 1 : table[i] = Hole
           /\ Next_raw(h) = 0 =>
                \A i \in DOMAIN table : table[i] \in Live => i < walk[h].pos
<1> DEFINE left == {i \in walk[h].pos .. Len(table) : table[i] # Hole}
<1>1. /\ DOMAIN table = 1 .. Len(table) /\ Len(table) \in Nat
      /\ walk[h].pos \in Nat \ {0} /\ table \in Seq(Slots)
  BY KeytabInvFacts
<1>2. Next_raw(h) = IF left = {} THEN 0 ELSE FirstOf(left)
  BY DEF Next_raw
<1>3. left \in SUBSET Nat /\ left \subseteq DOMAIN table
  BY <1>1
<1>4. CASE left # {}
  <2> DEFINE n == FirstOf(left)
  <2>1. n \in left /\ \A i \in left : n <= i
    BY <1>3, <1>4, FirstOfFacts, Zenon
  <2> HIDE DEF n
  <2>2. n \in DOMAIN table /\ n # 0 /\ walk[h].pos <= n /\ table[n] # Hole
    BY <1>1, <2>1
  <2>3. table[n] \in Live
    BY <1>1, <2>2, SlotFacts
  <2>4. ASSUME NEW i \in walk[h].pos .. n - 1 PROVE table[i] = Hole
    BY <1>1, <2>1
  <2> QED
    BY <1>2, <1>4, <2>2, <2>3, <2>4 DEF n
<1>5. CASE left = {}
  <2>1. ASSUME NEW i \in DOMAIN table, table[i] \in Live PROVE i < walk[h].pos
    <3>1. table[i] # Hole
      BY <2>1, SlotFacts
    <3> QED
      BY <1>1, <1>5, <3>1
  <2> QED
    BY <1>2, <1>5, <2>1
<1> QED
  BY <1>4, <1>5

\* One step of the walk adds one to the wanted walked past, at most.
LEMMA WalkCount ==
    ASSUME NEW f \in Seq(Slots), NEW by, NEW p \in Nat \ {0},
           NEW n \in DOMAIN f,
           p <= n, \A i \in p .. n - 1 : f[i] = Hole
    PROVE  /\ Cardinality(WantedIn(f, by, 1 .. n))
                <= Cardinality(WantedIn(f, by, 1 .. p - 1)) + 1
           /\ ~Want(f[n].key, by) =>
                Cardinality(WantedIn(f, by, 1 .. n))
                  <= Cardinality(WantedIn(f, by, 1 .. p - 1))
<1> DEFINE A == WantedIn(f, by, 1 .. p - 1)
           B == WantedIn(f, by, 1 .. n)
<1>1. ASSUME NEW i \in B, i # n PROVE i \in A
  <2>1. i \in DOMAIN f /\ i \in 1 .. n /\ f[i] \in Live /\ Want(f[i].key, by)
    BY <1>1 DEF WantedIn
  <2>2. f[i] # Hole
    BY <2>1, SlotFacts
  <2>3. i \in 1 .. p - 1
    BY <1>1, <2>1, <2>2
  <2> QED
    BY <2>1, <2>3 DEF WantedIn
<1>2. B \subseteq A \cup {n} /\ (~Want(f[n].key, by) => B \subseteq A)
  BY <1>1, Zenon DEF WantedIn
<1>3. /\ IsFiniteSet(A) /\ IsFiniteSet(B)
      /\ Cardinality(A) \in Nat /\ Cardinality(B) \in Nat
  BY WantedFinite
<1> HIDE DEF A, B
<1>4. /\ IsFiniteSet(A \cup {n})
      /\ Cardinality(A \cup {n})
           = IF n \in A THEN Cardinality(A) ELSE Cardinality(A) + 1
  BY <1>3, FS_AddElement, Zenon
<1>5. Cardinality(B) <= Cardinality(A \cup {n})
  BY <1>2, <1>4, FS_Subset
<1>6. ~Want(f[n].key, by) => Cardinality(B) <= Cardinality(A)
  BY <1>2, <1>3, FS_Subset
<1>7. Cardinality(B) <= Cardinality(A) + 1
  BY <1>3, <1>4, <1>5
<1> QED
  BY <1>6, <1>7 DEF A, B

\* An entry joins what a walk has found.
LEMMA AppendFacts ==
    ASSUME NEW s \in Seq(Live), NEW e \in Live
    PROVE  /\ Append(s, e) \in Seq(Live) /\ Len(Append(s, e)) = Len(s) + 1
           /\ Range(Append(s, e)) = Range(s) \cup {e}
           /\ Distinct(s) /\ e \notin Range(s) => Distinct(Append(s, e))
<1> DEFINE t == Append(s, e)
<1>1. /\ t \in Seq(Live) /\ Len(t) = Len(s) + 1 /\ DOMAIN t = 1 .. Len(s) + 1
      /\ t[Len(s) + 1] = e /\ \A i \in 1 .. Len(s) : t[i] = s[i]
      /\ Len(s) \in Nat /\ DOMAIN s = 1 .. Len(s)
  OBVIOUS
<1> HIDE DEF t
<1>2. 1 .. Len(s) + 1 = (1 .. Len(s)) \cup {Len(s) + 1}
  BY <1>1
<1>3. Range(t) = Range(s) \cup {e}
  BY <1>1, <1>2 DEF Range
<1>4. ASSUME Distinct(s), e \notin Range(s) PROVE Distinct(t)
  <2>1. \A i \in 1 .. Len(s) : s[i] # e
    BY <1>1, <1>4 DEF Range
  <2> QED
    BY <1>1, <1>2, <1>4, <2>1 DEF Distinct
<1> QED
  BY <1>1, <1>3, <1>4 DEF t

\* WalkOn keeps the invariant: a match joins what a removal found, every entry
\* what a copy has.
LEMMA WalkOnInv ==
    ASSUME KeytabInv, NEW h \in Holders, WalkOn(h)
    PROVE  KeytabInv'
<1> DEFINE n == Next_raw(h)
           e == table[n]
           new == IF at[h] = "copy" \/ Want(e.key, walk[h].by)
                  THEN Append(walk[h].found, e) ELSE walk[h].found
           w == [walk[h] EXCEPT !.pos = n + 1, !.found = new]
<1>1. /\ at[h] \in {"snapshot", "copy"} /\ n # 0
      /\ walk' = [walk EXCEPT ![h] = w]
      /\ table' = table /\ adds' = adds /\ at' = at /\ gone' = gone
      /\ lasted' = lasted /\ late' = late
  BY Zenon DEF WalkOn
<1>2. /\ n \in DOMAIN table /\ walk[h].pos <= n /\ e \in Live
      /\ \A i \in walk[h].pos .. n - 1 : table[i] = Hole
  BY <1>1, NextRawFacts
<1>3. /\ table \in Seq(Slots) /\ DOMAIN table = 1 .. Len(table)
      /\ Len(table) \in Nat /\ adds \in Nat
      /\ walk[h] \in Cursors /\ walk[h].pos \in Nat \ {0}
      /\ walk[h].found \in Seq(Live) /\ walk[h].removed \in Nat
      /\ DOMAIN walk[h].found = 1 .. Len(walk[h].found)
      /\ Len(walk[h].found) \in Nat /\ late[h] \in Nat
      /\ lasted[h] \subseteq Live
      /\ MemoryOK(h) /\ RemovalOK(h) /\ CopyOK(h)
  BY KeytabInvFacts
<1>4. KeytabTypeOK /\ SerialsOK
  BY DEF KeytabInv
<1>5. n + 1 \in Nat \ {0} /\ new \in Seq(Live)
  BY <1>2, <1>3
<1> HIDE DEF n, e, new
<1>6. w \in Cursors
  BY <1>3, <1>5, Zenon DEF Cursors
<1>7. /\ w.pos = n + 1 /\ w.found = new /\ w.removed = walk[h].removed
      /\ w.by = walk[h].by
  BY <1>3, Zenon DEF Cursors
<1> HIDE DEF w
<1>8. KeytabTypeOK'
  BY <1>1, <1>4, <1>6 DEF KeytabTypeOK
<1>9. /\ walk'[h] = w
      /\ \A g \in Holders \ {h} :
            /\ at'[g] = at[g] /\ walk'[g] = walk[g] /\ gone'[g] = gone[g]
            /\ lasted'[g] = lasted[g] /\ late'[g] = late[g]
  BY <1>1, <1>4 DEF KeytabTypeOK
<1>10. e \in Range(table) /\ e = table[n] /\ e.serial <= adds
  BY <1>2, <1>4, Zenon DEF e, Range, SerialsOK
<1>11. \/ new = walk[h].found /\ at[h] # "copy" /\ ~Want(e.key, walk[h].by)
       \/ /\ at[h] = "copy" \/ Want(e.key, walk[h].by)
          /\ new = Append(walk[h].found, e)
  BY Zenon DEF new
<1>12. \/ /\ new = walk[h].found /\ at[h] # "copy" /\ ~Want(e.key, walk[h].by)
       \/ /\ at[h] = "copy" \/ Want(e.key, walk[h].by)
          /\ Len(new) = Len(walk[h].found) + 1
          /\ Range(new) = Range(walk[h].found) \cup {e}
          /\ Distinct(walk[h].found) /\ e \notin Range(walk[h].found) =>
                Distinct(new)
  BY <1>2, <1>3, <1>11, AppendFacts, Zenon
<1>13. MemoryOK(h)'
  <2>1. \A x \in Range(new) : x.serial <= adds
    BY <1>3, <1>10, <1>12, Zenon DEF MemoryOK
  <2> QED
    BY <1>1, <1>3, <1>7, <1>9, <2>1, Zenon DEF MemoryOK
<1>14. RemovalOK(h)'
  <2>1. ASSUME at[h] = "snapshot"
        PROVE  /\ \A x \in Range(new) : Want(x.key, walk[h].by)
               /\ walk[h].removed = 0
               /\ Cardinality(WantedIn(table, walk[h].by, 1 .. n))
                    <= Len(new) + late[h]
    <3>1. /\ Cardinality(WantedIn(table, walk[h].by, 1 .. walk[h].pos - 1))
               <= Len(walk[h].found) + late[h]
          /\ \A x \in Range(walk[h].found) : Want(x.key, walk[h].by)
          /\ walk[h].removed = 0
      BY <1>3, <2>1, Zenon DEF RemovalOK
    <3>2. \A x \in Range(new) : Want(x.key, walk[h].by)
      BY <1>12, <2>1, <3>1, Zenon
    <3>3. /\ Cardinality(WantedIn(table, walk[h].by, 1 .. n)) \in Nat
          /\ Cardinality(WantedIn(table, walk[h].by, 1 .. walk[h].pos - 1)) \in Nat
      BY <1>3, WantedFinite
    <3>4. /\ Cardinality(WantedIn(table, walk[h].by, 1 .. n))
               <= Cardinality(WantedIn(table, walk[h].by, 1 .. walk[h].pos - 1)) + 1
          /\ ~Want(e.key, walk[h].by) =>
               Cardinality(WantedIn(table, walk[h].by, 1 .. n))
                 <= Cardinality(WantedIn(table, walk[h].by, 1 .. walk[h].pos - 1))
      BY <1>2, <1>3, <1>10, WalkCount, Zenon
    <3>5. Cardinality(WantedIn(table, walk[h].by, 1 .. n)) <= Len(new) + late[h]
      BY <1>3, <1>12, <2>1, <3>1, <3>3, <3>4
    <3> QED
      BY <3>1, <3>2, <3>5
  <2>2. n \in Nat /\ walk[h].removed <= Len(walk[h].found)
    BY <1>2, <1>3 DEF RemovalOK
  <2>3. walk[h].removed <= Len(new)
    BY <1>3, <1>12, <2>2
  <2>4. at'[h] = at[h] /\ late'[h] = late[h] /\ table' = table
    BY <1>1
  <2>5. walk'[h].pos = n + 1
    BY <1>7, <1>9, Zenon
  <2>6. walk'[h].pos - 1 = n
    BY <2>2, <2>5
  <2> QED
    <3>1. \/ /\ at'[h] = "snapshot" /\ walk'[h].removed = 0
             /\ \A x \in Range(walk'[h].found) : Want(x.key, walk'[h].by)
             /\ Cardinality(WantedIn(table', walk'[h].by, 1 .. walk'[h].pos - 1))
                  <= Len(walk'[h].found) + late'[h]
          \/ at'[h] = "copy"
      BY <1>1, <1>7, <1>9, <2>1, <2>4, <2>6, Zenon
    <3>2. walk'[h].removed <= Len(walk'[h].found)
      BY <1>7, <1>9, <2>3
    <3> QED
      BY <3>1, <3>2, Zenon DEF RemovalOK
<1>15. CopyOK(h)'
  <2> SUFFICES ASSUME at[h] = "copy" PROVE CopyOK(h)'
    BY <1>1 DEF CopyOK
  <2>1. /\ \A i \in DOMAIN table :
              i < walk[h].pos /\ table[i] \in lasted[h] =>
                  table[i] \in Range(walk[h].found)
        /\ \A i \in DOMAIN table :
              table[i] \in Range(walk[h].found) => i < walk[h].pos
        /\ Distinct(walk[h].found)
    BY <1>3 DEF CopyOK
  <2>2. Range(new) = Range(walk[h].found) \cup {e}
    BY <1>12
  <2>3. e \notin Range(walk[h].found)
    BY <1>2, <1>3, <1>10, <2>1
  <2>4. ASSUME NEW i \in DOMAIN table, i < n + 1, table[i] \in lasted[h]
        PROVE  table[i] \in Range(new)
    <3>1. table[i] # Hole
      BY <1>3, <2>4, SlotFacts
    <3>2. i < walk[h].pos \/ i = n
      BY <1>2, <1>3, <2>4, <3>1
    <3> QED
      BY <1>10, <2>1, <2>2, <2>4, <3>2
  <2>5. ASSUME NEW i \in DOMAIN table, table[i] \in Range(new)
        PROVE  i < n + 1
    <3>1. CASE table[i] \in Range(walk[h].found)
      BY <1>2, <1>3, <2>1, <3>1
    <3>2. CASE table[i] = e
      <4>1. i = n
        BY <1>2, <1>4, <1>10, <3>2 DEF SerialsOK
      <4> QED
        BY <1>2, <1>3, <4>1
    <3> QED
      BY <2>2, <2>5, <3>1, <3>2
  <2>6. Distinct(new)
    BY <1>12, <2>1, <2>3
  <2> QED
    BY <1>1, <1>7, <1>9, <2>4, <2>5, <2>6 DEF CopyOK
<1> QED
  BY <1>1, <1>8, <1>9, <1>13, <1>14, <1>15, OneHolder

\* At the end of the file the wanted walked past are all there are.
LEMMA WalkEndsInv ==
    ASSUME KeytabInv, NEW h \in Holders, WalkEnds(h)
    PROVE  KeytabInv'
<1>1. /\ at[h] \in {"snapshot", "copy"} /\ Next_raw(h) = 0
      /\ at' = [at EXCEPT ![h] = IF at[h] = "copy" THEN "copied" ELSE "remove"]
      /\ UNCHANGED <<table, adds, walk, gone, lasted, late>>
  BY Zenon DEF WalkEnds
<1>2. /\ table \in Seq(Slots) /\ walk[h].pos \in Nat \ {0}
      /\ DOMAIN table = 1 .. Len(table) /\ Len(table) \in Nat
      /\ walk[h].removed \in Nat /\ late[h] \in Nat /\ lasted[h] \subseteq Live
      /\ MemoryOK(h) /\ RemovalOK(h) /\ CopyOK(h)
  BY KeytabInvFacts
<1>3. KeytabTypeOK
  BY DEF KeytabInv
<1>4. KeytabTypeOK'
  BY <1>1, <1>3 DEF KeytabTypeOK, KtSteps
<1>5. /\ at'[h] = IF at[h] = "copy" THEN "copied" ELSE "remove"
      /\ \A g \in Holders \ {h} : at'[g] = at[g]
  BY <1>1, <1>3 DEF KeytabTypeOK
<1>6. \A i \in DOMAIN table : table[i] \in Live => i < walk[h].pos
  BY <1>1, NextRawFacts
<1>7. MemoryOK(h)'
  BY <1>1, <1>2, Zenon DEF MemoryOK
<1>8. CASE at[h] = "snapshot"
  <2>1. at'[h] = "remove"
    BY <1>5, <1>8
  <2>2. /\ walk[h].removed = 0
        /\ Cardinality(WantedIn(table, walk[h].by, 1 .. walk[h].pos - 1))
             <= Len(walk[h].found) + late[h]
        /\ \A e \in Range(walk[h].found) : Want(e.key, walk[h].by)
        /\ walk[h].removed <= Len(walk[h].found)
    BY <1>2, <1>8, Zenon DEF RemovalOK
  <2>3. WantedIn(table, walk[h].by, Nat)
          = WantedIn(table, walk[h].by, 1 .. walk[h].pos - 1)
    BY <1>2, <1>6 DEF WantedIn
  <2>4. Cardinality(WantedIn(table, walk[h].by, Nat)) \in Nat
    BY <1>2, WantedFinite
  <2>5. Cardinality(WantedIn(table, walk[h].by, Nat)) + walk[h].removed
          <= Len(walk[h].found) + late[h]
    BY <2>2, <2>3, <2>4
  <2>6. RemovalOK(h)'
    BY <1>1, <2>1, <2>2, <2>5, Zenon DEF RemovalOK
  <2>7. CopyOK(h)'
    BY <2>1, Zenon DEF CopyOK
  <2> QED
    BY <1>1, <1>4, <1>5, <1>7, <2>6, <2>7, OneHolder
<1>9. CASE at[h] = "copy"
  <2>1. at'[h] = "copied"
    BY <1>5, <1>9
  <2>2. /\ \A i \in DOMAIN table :
              i < walk[h].pos /\ table[i] \in lasted[h] =>
                  table[i] \in Range(walk[h].found)
        /\ Distinct(walk[h].found)
    BY <1>2, <1>9, Zenon DEF CopyOK
  <2>3. lasted[h] \subseteq Range(table)
    BY <1>2, Zenon DEF MemoryOK
  <2>4. lasted[h] \subseteq Range(walk[h].found)
    BY <1>2, <1>6, <2>2, <2>3, Zenon DEF Range
  <2>5. CopyOK(h)'
    BY <1>1, <2>1, <2>2, <2>4, Zenon DEF CopyOK
  <2>6. RemovalOK(h)'
    BY <1>1, <1>2, <2>1, Zenon DEF RemovalOK
  <2> QED
    BY <1>1, <1>4, <1>5, <1>7, <2>5, <2>6, OneHolder
<1> QED
  BY <1>1, <1>8, <1>9

\* RemoveEnds keeps the invariant.
LEMMA RemoveEndsInv ==
    ASSUME KeytabInv, NEW h \in Holders, RemoveEnds(h)
    PROVE  KeytabInv'
<1>1. /\ at[h] = "remove" /\ walk[h].removed = Len(walk[h].found)
      /\ at' = [at EXCEPT ![h] = "removed"]
      /\ UNCHANGED <<table, adds, walk, gone, lasted, late>>
  BY Zenon DEF RemoveEnds
<1>2. MemoryOK(h) /\ RemovalOK(h) /\ CopyOK(h)
  BY KeytabInvFacts
<1>3. KeytabTypeOK
  BY DEF KeytabInv
<1>4. KeytabTypeOK'
  BY <1>1, <1>3 DEF KeytabTypeOK, KtSteps
<1>5. at'[h] = "removed" /\ \A g \in Holders \ {h} : at'[g] = at[g]
  BY <1>1, <1>3 DEF KeytabTypeOK
<1>6. MemoryOK(h)' /\ CopyOK(h)'
  BY <1>1, <1>2, <1>5, Zenon DEF MemoryOK, CopyOK
<1>7. RemovalOK(h)'
  BY <1>1, <1>2, <1>5, Zenon DEF RemovalOK
<1> QED
  BY <1>1, <1>4, <1>5, <1>6, <1>7, OneHolder

-----------------------------------------------------------------------------
\* The file is written: a place becomes a hole, or gets an entry of a serial
\* not given before.
Rewritten(k) ==
    /\ Changed(table, table', k) /\ adds' \in Nat /\ adds <= adds'
    /\ \/ table'[k] = Hole
       \/ table'[k] \in Live /\ table'[k].serial = adds + 1 /\ adds' = adds + 1

\* Serials stay unique.
LEMMA SerialsKept ==
    ASSUME KeytabInv, NEW k, Rewritten(k)
    PROVE  SerialsOK'
<1>1. /\ \A i \in DOMAIN table : table[i] \in Slots /\ table[i].serial <= adds
      /\ \A i, j \in DOMAIN table :
            table[i] \in Live /\ table[i].serial = table[j].serial => i = j
      /\ adds \in Nat
  BY DEF KeytabInv, KeytabTypeOK, SerialsOK
<1>2. \A i \in DOMAIN table : table[i].serial \in Nat
  BY <1>1, SlotFacts
<1>3. /\ k \in DOMAIN table' /\ adds' \in Nat /\ adds <= adds'
      /\ \A i \in DOMAIN table' \ {k} :
            i \in DOMAIN table /\ table'[i] = table[i]
      /\ \/ table'[k] = Hole /\ table'[k].serial = 0 /\ table'[k] \notin Live
         \/ table'[k].serial = adds + 1 /\ adds' = adds + 1
  BY SlotFacts DEF Rewritten, Changed
<1>4. ASSUME NEW i \in DOMAIN table' PROVE table'[i].serial <= adds'
  BY <1>1, <1>2, <1>3
<1>5. ASSUME NEW i \in DOMAIN table', NEW j \in DOMAIN table',
             table'[i] \in Live,
             table'[i].serial = table'[j].serial
      PROVE  i = j
  <2>1. table'[i].serial # 0
    BY <1>5, SlotFacts
  <2>2. CASE i = k /\ j # k
    BY <1>1, <1>2, <1>3, <1>5, <2>1, <2>2
  <2>3. CASE i # k /\ j = k
    BY <1>1, <1>2, <1>3, <1>5, <2>1, <2>3
  <2>4. CASE i # k /\ j # k
    BY <1>1, <1>3, <1>5, <2>4
  <2> QED
    BY <2>2, <2>3, <2>4
<1> QED
  BY <1>4, <1>5 DEF SerialsOK

\* What another holder remembers stays true of the file.
LEMMA WrittenUnder ==
    ASSUME KeytabInv, NEW g \in Holders, NEW k, Rewritten(k),
           at'[g] = at[g], walk'[g] = walk[g], gone'[g] = gone[g],
           lasted'[g] = lasted[g] \cap In(table'),
           late'[g] \in Nat, late[g] <= late'[g],
           (at[g] \in {"snapshot", "remove", "removed"}
              /\ table'[k] \in Live /\ Want(table'[k].key, walk[g].by))
             => late'[g] = late[g] + 1
    PROVE  MemoryOK(g)' /\ RemovalOK(g)' /\ CopyOK(g)'
<1>1. /\ table \in Seq(Slots) /\ adds \in Nat
      /\ walk[g].pos \in Nat \ {0} /\ walk[g].found \in Seq(Live)
      /\ walk[g].removed \in Nat /\ Len(walk[g].found) \in Nat
      /\ late[g] \in Nat /\ gone[g] \subseteq Live /\ lasted[g] \subseteq Live
      /\ MemoryOK(g) /\ RemovalOK(g) /\ CopyOK(g)
  BY KeytabInvFacts
<1>2. Range(walk[g].found) \subseteq Live
  BY <1>1 DEF Range
<1>3. /\ Changed(table, table', k) /\ adds' \in Nat /\ adds <= adds'
      /\ k \in DOMAIN table'
      /\ \A i \in DOMAIN table' \ {k} :
            i \in DOMAIN table /\ table'[i] = table[i]
      /\ \/ table'[k] = Hole /\ table'[k].serial = 0 /\ table'[k] \notin Live
         \/ table'[k] \in Live /\ table'[k].serial = adds + 1
  BY SlotFacts DEF Rewritten, Changed
<1>4. ASSUME NEW x \in Live, x.serial <= adds PROVE table'[k].serial # x.serial
  <2>1. x.serial \in Nat /\ x.serial # 0
    BY SlotFacts
  <2> QED
    BY <1>1, <1>3, <1>4, <2>1
<1>5. MemoryOK(g)'
  <2>1. \A x \in Range(walk[g].found) : x.serial <= adds'
    <3>1. \A x \in Range(walk[g].found) : x.serial <= adds /\ x.serial \in Nat
      BY <1>1, <1>2, SlotFacts, Zenon DEF MemoryOK
    <3> QED
      BY <1>1, <1>3, <3>1
  <2>2. lasted'[g] \subseteq Range(table')
    BY Zenon DEF In
  <2>3. ASSUME NEW x \in gone[g]
        PROVE  /\ x.serial <= adds' /\ Want(x.key, walk[g].by)
               /\ \A i \in DOMAIN table' : table'[i].serial # x.serial
    <3>1. /\ x.serial <= adds /\ Want(x.key, walk[g].by)
          /\ \A i \in DOMAIN table : table[i].serial # x.serial
      BY <1>1, Zenon DEF MemoryOK
    <3>2. x \in Live /\ x.serial \in Nat
      BY <1>1, SlotFacts
    <3>3. x.serial <= adds'
      BY <1>1, <1>3, <3>1, <3>2
    <3>4. \A i \in DOMAIN table' : table'[i].serial # x.serial
      BY <1>3, <1>4, <3>1, <3>2, Zenon
    <3> QED
      BY <3>1, <3>3, <3>4
  <2>4. IsFiniteSet(gone[g]) /\ Cardinality(gone[g]) = walk[g].removed
    BY <1>1, Zenon DEF MemoryOK
  <2> QED
    BY <2>1, <2>2, <2>3, <2>4, Zenon DEF MemoryOK
<1>6. ASSUME at[g] \in {"snapshot", "remove", "removed"}, NEW S
      PROVE  Cardinality(WantedIn(table', walk[g].by, S))
               <= Cardinality(WantedIn(table, walk[g].by, S)) + (late'[g] - late[g])
  <2>1. /\ Cardinality(WantedIn(table', walk[g].by, S)) \in Nat
        /\ Cardinality(WantedIn(table, walk[g].by, S)) \in Nat
    BY <1>3, WantedFinite, Zenon DEF Changed
  <2>4. Changed(table, table', k)
    BY <1>3, Zenon
  <2>2. CASE k \in WantedIn(table', walk[g].by, S)
    <3>1. late'[g] = late[g] + 1
      BY <1>6, <2>2, Zenon DEF WantedIn
    <3>2. Cardinality(WantedIn(table', walk[g].by, S))
            <= Cardinality(WantedIn(table, walk[g].by, S)) + 1
      BY <2>4, ChangedCount
    <3>3. late'[g] - late[g] = 1
      BY <1>1, <3>1
    <3> QED
      BY <3>2, <3>3, Zenon
  <2>3. CASE k \notin WantedIn(table', walk[g].by, S)
    <3>1. Cardinality(WantedIn(table', walk[g].by, S))
            <= Cardinality(WantedIn(table, walk[g].by, S))
      BY <2>3, <2>4, ChangedCount
    <3> QED
      BY <1>1, <2>1, <3>1
  <2> QED
    BY <2>2, <2>3
<1>7. RemovalOK(g)'
  <2>1. ASSUME at[g] = "snapshot"
        PROVE  Cardinality(WantedIn(table', walk[g].by, 1 .. walk[g].pos - 1))
                 <= Len(walk[g].found) + late'[g]
    <3>1. Cardinality(WantedIn(table, walk[g].by, 1 .. walk[g].pos - 1))
            <= Len(walk[g].found) + late[g]
      BY <1>1, <2>1, Zenon DEF RemovalOK
    <3>2. /\ Cardinality(WantedIn(table', walk[g].by, 1 .. walk[g].pos - 1)) \in Nat
          /\ Cardinality(WantedIn(table, walk[g].by, 1 .. walk[g].pos - 1)) \in Nat
      BY <1>3, WantedFinite, Zenon DEF Changed
    <3>3. Cardinality(WantedIn(table', walk[g].by, 1 .. walk[g].pos - 1))
            <= Cardinality(WantedIn(table, walk[g].by, 1 .. walk[g].pos - 1))
                 + (late'[g] - late[g])
      BY <1>6, <2>1
    <3>4. Len(walk[g].found) \in Nat /\ late[g] \in Nat /\ late'[g] \in Nat
      BY <1>1
    <3> DEFINE b == Cardinality(WantedIn(table', walk[g].by, 1 .. walk[g].pos - 1))
               a == Cardinality(WantedIn(table, walk[g].by, 1 .. walk[g].pos - 1))
               n == Len(walk[g].found)
               l == late[g]
               m == late'[g]
    <3>5. /\ a \in Nat /\ b \in Nat /\ n \in Nat /\ l \in Nat /\ m \in Nat
          /\ a <= n + l /\ b <= a + (m - l)
      BY <3>1, <3>2, <3>3, <3>4, Zenon
    <3> HIDE DEF a, b, n, l, m
    <3>6. b <= n + m
      BY <3>5
    <3> QED
      BY <3>6, Zenon DEF b, n, m
  <2>2. ASSUME at[g] \in {"remove", "removed"}
        PROVE  Cardinality(WantedIn(table', walk[g].by, Nat)) + walk[g].removed
                 <= Len(walk[g].found) + late'[g]
    <3>1. Cardinality(WantedIn(table, walk[g].by, Nat)) + walk[g].removed
            <= Len(walk[g].found) + late[g]
      BY <1>1, <2>2, Zenon DEF RemovalOK
    <3>2. /\ Cardinality(WantedIn(table', walk[g].by, Nat)) \in Nat
          /\ Cardinality(WantedIn(table, walk[g].by, Nat)) \in Nat
      BY <1>3, WantedFinite DEF Changed
    <3>3. Cardinality(WantedIn(table', walk[g].by, Nat))
            <= Cardinality(WantedIn(table, walk[g].by, Nat)) + (late'[g] - late[g])
      BY <1>6, <2>2
    <3>4. /\ walk[g].removed \in Nat /\ Len(walk[g].found) \in Nat
          /\ late[g] \in Nat /\ late'[g] \in Nat
      BY <1>1
    <3> DEFINE b == Cardinality(WantedIn(table', walk[g].by, Nat))
               a == Cardinality(WantedIn(table, walk[g].by, Nat))
               r == walk[g].removed
               n == Len(walk[g].found)
               l == late[g]
               m == late'[g]
    <3>5. /\ a \in Nat /\ b \in Nat /\ r \in Nat /\ n \in Nat /\ l \in Nat
          /\ m \in Nat /\ a + r <= n + l /\ b <= a + (m - l)
      BY <3>1, <3>2, <3>3, <3>4, Zenon
    <3> HIDE DEF a, b, r, n, l, m
    <3>6. b + r <= n + m
      BY <3>5
    <3> QED
      BY <3>6 DEF b, r, n, m
  <2> QED
    BY <1>1, <2>1, <2>2, Zenon DEF RemovalOK
<1>8. CopyOK(g)'
  <2>1. ASSUME NEW x \in Range(walk[g].found) \cup lasted[g]
        PROVE  table'[k] # x
    <3>1. CASE x \in Range(walk[g].found)
      <4>1. x \in Live /\ x.serial <= adds
        BY <1>1, <1>2, <3>1, Zenon DEF MemoryOK
      <4> QED
        BY <1>4, <4>1, Zenon
    <3>2. CASE x \in lasted[g]
      <4>1. x \in Range(table) /\ x \in Live
        BY <1>1, <3>2, Zenon DEF MemoryOK
      <4>2. x.serial <= adds
        BY <4>1, Zenon DEF KeytabInv, SerialsOK, Range
      <4> QED
        BY <1>4, <4>1, <4>2, Zenon
    <3> QED
      BY <2>1, <3>1, <3>2
  <2>2. ASSUME at[g] = "copy"
        PROVE  /\ \A i \in DOMAIN table' :
                    i < walk[g].pos /\ table'[i] \in lasted'[g] =>
                        table'[i] \in Range(walk[g].found)
               /\ \A i \in DOMAIN table' :
                    table'[i] \in Range(walk[g].found) => i < walk[g].pos
               /\ Distinct(walk[g].found)
    <3>1. /\ \A i \in DOMAIN table :
                i < walk[g].pos /\ table[i] \in lasted[g] =>
                    table[i] \in Range(walk[g].found)
          /\ \A i \in DOMAIN table :
                table[i] \in Range(walk[g].found) => i < walk[g].pos
          /\ Distinct(walk[g].found)
      BY <1>1, <2>2, Zenon DEF CopyOK
    <3> QED
      BY <1>3, <2>1, <3>1, Zenon
  <2>3. ASSUME at[g] = "copied"
        PROVE  /\ lasted'[g] \subseteq Range(walk[g].found)
               /\ Distinct(walk[g].found)
    BY <1>1, <2>3, Zenon DEF CopyOK
  <2> QED
    BY <2>2, <2>3, Zenon DEF CopyOK
<1> QED
  BY <1>5, <1>7, <1>8

\* The entries of a file are live ones.
LEMMA InIsLive ==
    ASSUME NEW f \in Seq(Slots)
    PROVE  In(f) \subseteq Live
<1>1. Range(f) \subseteq Slots
  BY DEF Range
<1> QED
  BY <1>1, SlotFacts DEF In

\* add_entry keeps the invariant, for its holder and for those mid-call.
LEMMA AddEntryInv ==
    ASSUME KeytabInv, NEW h \in Holders, add_entry(h)
    PROVE  KeytabInv'
<1>1. PICK e \in Entries :
        /\ Write(Added(table, [serial |-> adds + 1, key |-> e]))
        /\ late' = [g \in Holders |->
                      IF at[g] \in {"snapshot", "remove", "removed"}
                         /\ Want(e, walk[g].by)
                      THEN late[g] + 1 ELSE late[g]]
  BY Zenon DEF add_entry
<1> DEFINE new == [serial |-> adds + 1, key |-> e]
           file == Added(table, new)
<1>2. /\ adds' = adds + 1 /\ at' = at /\ walk' = walk /\ gone' = gone
      /\ table' = file /\ lasted' = [g \in Holders |-> lasted[g] \cap In(file)]
  BY <1>1, Zenon DEF add_entry, Write
<1>3. KeytabTypeOK
  BY DEF KeytabInv
<1>4. adds \in Nat /\ table \in Seq(Slots)
  BY <1>3 DEF KeytabTypeOK
<1>5. new \in Live /\ new.serial = adds + 1 /\ new.key = e
  BY <1>4 DEF Live
<1> HIDE DEF new
<1>6. PICK k \in Nat : Changed(table, file, k) /\ file[k] = new
  BY <1>4, <1>5, AddedChanges
<1>7. file \in Seq(Slots)
  BY <1>6 DEF Changed
<1> HIDE DEF file
<1>8. Rewritten(k)
  BY <1>2, <1>4, <1>5, <1>6 DEF Rewritten
<1>9. KeytabTypeOK'
  <2>1. late' \in [Holders -> Nat]
    BY <1>1, <1>3 DEF KeytabTypeOK
  <2>2. lasted' \in [Holders -> SUBSET Live]
    BY <1>2, <1>7, InIsLive
  <2> QED
    BY <1>2, <1>3, <1>4, <1>7, <2>1, <2>2 DEF KeytabTypeOK
<1>10. ASSUME NEW g \in Holders
       PROVE  MemoryOK(g)' /\ RemovalOK(g)' /\ CopyOK(g)'
  <2>1. /\ at'[g] = at[g] /\ walk'[g] = walk[g] /\ gone'[g] = gone[g]
        /\ lasted'[g] = lasted[g] \cap In(table')
    BY <1>2, Zenon
  <2>2. /\ late[g] \in Nat
        /\ late'[g] = IF at[g] \in {"snapshot", "remove", "removed"}
                         /\ Want(e, walk[g].by)
                      THEN late[g] + 1 ELSE late[g]
    BY <1>1, <1>3 DEF KeytabTypeOK
  <2>3. late'[g] \in Nat /\ late[g] <= late'[g]
    BY <2>2
  <2>4. (at[g] \in {"snapshot", "remove", "removed"}
           /\ table'[k] \in Live /\ Want(table'[k].key, walk[g].by))
          => late'[g] = late[g] + 1
    BY <1>2, <1>5, <1>6, <2>2, Zenon
  <2> QED
    BY <1>8, <2>1, <2>3, <2>4, WrittenUnder
<1> QED
  BY <1>8, <1>9, <1>10, SerialsKept DEF KeytabInv

\* krb5_kt_remove_entry takes one wanted entry, whichever of its name comes
\* first.
LEMMA RemoveOneInv ==
    ASSUME KeytabInv, NEW h \in Holders, RemoveOne(h)
    PROVE  KeytabInv'
<1> DEFINE same == {i \in DOMAIN table : Named(table[i], Todo(h))}
           k == FirstOf(same)
           file == [table EXCEPT ![k] = Hole]
           w == [walk[h] EXCEPT !.removed = walk[h].removed + 1]
<1>1. /\ at[h] = "remove" /\ walk[h].removed < Len(walk[h].found) /\ same # {}
      /\ table' = file /\ lasted' = [g \in Holders |-> lasted[g] \cap In(file)]
      /\ gone' = [gone EXCEPT ![h] = gone[h] \cup {table[k]}]
      /\ walk' = [walk EXCEPT ![h] = w]
      /\ adds' = adds /\ at' = at /\ late' = late
  BY Zenon DEF RemoveOne, Write
<1>2. /\ table \in Seq(Slots) /\ DOMAIN table = 1 .. Len(table)
      /\ Len(table) \in Nat /\ adds \in Nat
      /\ walk[h] \in Cursors /\ walk[h].found \in Seq(Live)
      /\ walk[h].removed \in Nat /\ Len(walk[h].found) \in Nat
      /\ late[h] \in Nat /\ gone[h] \subseteq Live
      /\ MemoryOK(h) /\ RemovalOK(h) /\ CopyOK(h)
  BY KeytabInvFacts
<1>3. KeytabTypeOK /\ SerialsOK
  BY DEF KeytabInv
<1>4. k \in same
  <2>1. same \in SUBSET Nat
    BY <1>2
  <2> QED
    BY <1>1, <2>1, FirstOfFacts, Zenon
<1>5. k \in DOMAIN table /\ table[k].serial > 0 /\ table[k].key = Todo(h).key
  BY <1>4 DEF Named
<1> HIDE DEF same, k
<1>6. table[k] \in Live /\ Hole \in Slots
  BY <1>2, <1>5, SlotFacts DEF Slots
<1>7. /\ file \in Seq(Slots) /\ DOMAIN file = DOMAIN table /\ file[k] = Hole
      /\ \A i \in DOMAIN table \ {k} : file[i] = table[i]
  BY <1>2, <1>5, <1>6
<1>8. w \in Cursors
  <2>1. walk[h].removed + 1 \in Nat
    BY <1>2
  <2> QED
    BY <1>2, <2>1, Zenon DEF Cursors
<1>9. /\ w.found = walk[h].found /\ w.removed = walk[h].removed + 1
      /\ w.by = walk[h].by
  BY <1>2, Zenon DEF Cursors
<1> HIDE DEF file, w
<1>10. Changed(table, table', k) /\ Rewritten(k)
  BY <1>1, <1>2, <1>5, <1>7 DEF Changed, Rewritten
<1>11. KeytabTypeOK'
  <2>1. lasted' \in [Holders -> SUBSET Live]
    BY <1>1, <1>7, InIsLive
  <2>2. gone' \in [Holders -> SUBSET Live]
    BY <1>1, <1>3, <1>6 DEF KeytabTypeOK
  <2> QED
    BY <1>1, <1>2, <1>3, <1>7, <1>8, <2>1, <2>2 DEF KeytabTypeOK
<1>12. Todo(h) \in Range(walk[h].found)
  BY <1>1, <1>2 DEF Todo, Range
<1>13. Want(table[k].key, walk[h].by)
  BY <1>1, <1>2, <1>5, <1>12, Zenon DEF RemovalOK
<1>14. /\ walk'[h] = w /\ gone'[h] = gone[h] \cup {table[k]}
       /\ \A g \in Holders \ {h} : walk'[g] = walk[g] /\ gone'[g] = gone[g]
  BY <1>1, <1>3 DEF KeytabTypeOK
<1>15. MemoryOK(h)'
  <2>1. /\ \A x \in Range(walk[h].found) : x.serial <= adds
        /\ \A x \in gone[h] :
              /\ x.serial <= adds /\ Want(x.key, walk[h].by)
              /\ \A i \in DOMAIN table : table[i].serial # x.serial
        /\ IsFiniteSet(gone[h]) /\ Cardinality(gone[h]) = walk[h].removed
    BY <1>2, Zenon DEF MemoryOK
  <2>2. table[k].serial <= adds
    BY <1>3, <1>5, Zenon DEF SerialsOK
  <2>3. table[k] \notin gone[h]
    BY <1>5, <2>1, Zenon
  <2>4. ASSUME NEW i \in DOMAIN table' PROVE table'[i].serial # table[k].serial
    <3>1. CASE i = k
      BY <1>1, <1>6, <1>7, <3>1, SlotFacts
    <3>2. CASE i # k
      BY <1>1, <1>3, <1>5, <1>6, <1>7, <3>2, Zenon DEF SerialsOK
    <3> QED
      BY <3>1, <3>2
  <2>5. ASSUME NEW x \in gone[h], NEW i \in DOMAIN table'
        PROVE  table'[i].serial # x.serial
    <3>1. CASE i = k
      BY <1>1, <1>2, <1>7, <3>1, SlotFacts
    <3>2. CASE i # k
      BY <1>1, <1>7, <2>1, <3>2, Zenon
    <3> QED
      BY <3>1, <3>2
  <2>6. /\ IsFiniteSet(gone[h] \cup {table[k]})
        /\ Cardinality(gone[h] \cup {table[k]}) = walk[h].removed + 1
    BY <2>1, <2>3, FS_AddElement, Zenon
  <2>7. lasted'[h] \subseteq Range(table')
    BY <1>1, Zenon DEF In
  <2> QED
    BY <1>1, <1>9, <1>13, <1>14, <2>1, <2>2, <2>4, <2>5, <2>6, <2>7, Zenon
       DEF MemoryOK
<1>16. RemovalOK(h)'
  <2>1. /\ \A x \in Range(walk[h].found) : Want(x.key, walk[h].by)
        /\ Cardinality(WantedIn(table, walk[h].by, Nat)) + walk[h].removed
             <= Len(walk[h].found) + late[h]
    BY <1>1, <1>2, Zenon DEF RemovalOK
  <2>2. k \in WantedIn(table, walk[h].by, Nat)
    BY <1>2, <1>5, <1>6, <1>13 DEF WantedIn
  <2>3. k \notin WantedIn(table', walk[h].by, Nat)
    BY <1>1, <1>7, SlotFacts, Zenon DEF WantedIn
  <2>4. Cardinality(WantedIn(table', walk[h].by, Nat)) + 1
          <= Cardinality(WantedIn(table, walk[h].by, Nat))
    BY <1>10, <2>2, <2>3, ChangedCount
  <2>5. /\ Cardinality(WantedIn(table', walk[h].by, Nat)) \in Nat
        /\ Cardinality(WantedIn(table, walk[h].by, Nat)) \in Nat
    BY <1>10, WantedFinite DEF Changed
  <2> DEFINE a == Cardinality(WantedIn(table', walk[h].by, Nat))
             b == Cardinality(WantedIn(table, walk[h].by, Nat))
             c == walk[h].removed
             d == Len(walk[h].found) + late[h]
  <2>6. a + (c + 1) <= d
    <3>1. a \in Nat /\ b \in Nat /\ a + 1 <= b /\ b + c <= d
      BY <2>1, <2>4, <2>5, Zenon
    <3>2. c \in Nat /\ d \in Nat
      BY <1>2
    <3> HIDE DEF a, b, c, d
    <3> QED
      BY <3>1, <3>2
  <2>7. walk[h].removed + 1 <= Len(walk[h].found)
    BY <1>1, <1>2
  <2> QED
    BY <1>1, <1>9, <1>14, <2>1, <2>6, <2>7, Zenon DEF RemovalOK
<1>17. CopyOK(h)'
  BY <1>1, Zenon DEF CopyOK
<1>18. ASSUME NEW g \in Holders \ {h}
       PROVE  MemoryOK(g)' /\ RemovalOK(g)' /\ CopyOK(g)'
  <2>1. /\ at'[g] = at[g] /\ walk'[g] = walk[g] /\ gone'[g] = gone[g]
        /\ lasted'[g] = lasted[g] \cap In(table') /\ late'[g] = late[g]
    BY <1>1, <1>14, Zenon
  <2>2. late[g] \in Nat /\ late[g] <= late[g] /\ table'[k] \notin Live
    BY <1>1, <1>3, <1>7, SlotFacts DEF KeytabTypeOK
  <2> QED
    BY <1>10, <2>1, <2>2, WrittenUnder
<1> QED
  BY <1>10, <1>11, <1>15, <1>16, <1>17, <1>18, SerialsKept DEF KeytabInv

-----------------------------------------------------------------------------
\* The invariant holds at the start,
LEMMA KeytabInitInv ==
    ASSUME TableInit
    PROVE  KeytabInv
<1>1. /\ table = <<>> /\ adds = 0 /\ at = [h \in Holders |-> "rest"]
      /\ walk = [h \in Holders |-> NoWalk] /\ gone = [h \in Holders |-> {}]
      /\ lasted = [h \in Holders |-> {}] /\ late = [h \in Holders |-> 0]
  BY Zenon DEF TableInit
<1>2. /\ NoWalk \in Cursors /\ NoWalk.found = <<>> /\ NoWalk.removed = 0
      /\ NoWalk.pos = 1
  BY DEF NoWalk, Cursors
<1>3. KeytabTypeOK
  BY <1>1, <1>2 DEF KeytabTypeOK, KtSteps
<1>4. SerialsOK
  BY <1>1 DEF SerialsOK
<1>5. /\ IsFiniteSet({}) /\ Cardinality({}) = 0 /\ Len(<<>>) = 0
      /\ DOMAIN <<>> = {} /\ Range(<<>>) = {}
  BY FS_EmptySet DEF Range
<1>6. ASSUME NEW h \in Holders PROVE MemoryOK(h) /\ RemovalOK(h) /\ CopyOK(h)
  <2>1. /\ at[h] = "rest" /\ walk[h] = NoWalk /\ gone[h] = {} /\ lasted[h] = {}
        /\ walk[h].removed = 0 /\ walk[h].found = <<>>
    BY <1>1, <1>2, Zenon
  <2>2. MemoryOK(h)
    BY <1>5, <2>1, Zenon DEF MemoryOK
  <2>3. walk[h].removed <= Len(walk[h].found)
    BY <1>5, <2>1
  <2>4. RemovalOK(h) /\ CopyOK(h)
    BY <2>1, <2>3, Zenon DEF RemovalOK, CopyOK
  <2> QED
    BY <2>2, <2>4
<1> QED
  BY <1>3, <1>4, <1>6 DEF KeytabInv

\* and every step keeps it.
LEMMA KeytabNextInv ==
    ASSUME KeytabInv, [TableNext]_tableVars
    PROVE  KeytabInv'
<1>1. CASE UNCHANGED tableVars
  BY <1>1, Zenon DEF tableVars, KeytabInv, KeytabTypeOK, SerialsOK, MemoryOK,
                     RemovalOK, CopyOK
<1>0. /\ NoWalk \in Cursors /\ NoWalk.pos = 1 /\ NoWalk.found = <<>>
      /\ NoWalk.removed = 0
  BY DEF NoWalk, Cursors
<1>2. ASSUME NEW h \in Holders, remove_entry(h) \/ as_bytes(h) PROVE KeytabInv'
  <2>1. PICK what \in {"snapshot", "copy"}, filter \in Filters \cup {<<>>} :
          BeginCall(h, what, filter)
    BY <1>2, Zenon DEF remove_entry, as_bytes
  <2> DEFINE w == [NoWalk EXCEPT !.by = filter]
  <2>2. w \in Cursors
    BY <1>0, Zenon DEF Cursors
  <2>3. w.pos = 1 /\ w.found = <<>> /\ w.removed = 0
    BY Zenon DEF NoWalk
  <2>4. walk' = [walk EXCEPT ![h] = w] /\ In(table) \in SUBSET In(table)
    BY <2>1, Zenon DEF BeginCall
  <2> HIDE DEF w
  <2> QED
    BY <2>1, <2>2, <2>3, <2>4, FreshHolder, Zenon DEF BeginCall
<1>3. ASSUME NEW h \in Holders, Leave(h), UNCHANGED <<table, adds>>
      PROVE  KeytabInv'
  <2>1. {} \in SUBSET In(table)
    OBVIOUS
  <2> QED
    BY <1>0, <1>3, <2>1, FreshHolder, Zenon DEF Leave
<1>4. ASSUME NEW h \in Holders, Fault(h) \/ Return(h) PROVE KeytabInv'
  BY <1>3, <1>4 DEF Fault, Return
<1> QED
  BY <1>1, <1>2, <1>4, AddEntryInv, WalkOnInv, WalkEndsInv, RemoveOneInv,
     RemoveEndsInv, Zenon DEF TableNext

\* A file has as many entries that a removal wants as places that hold one.
LEMMA WantedEntries ==
    ASSUME NEW f \in Seq(Slots), NEW by
    PROVE  /\ IsFiniteSet({e \in In(f) : Want(e.key, by)})
           /\ Cardinality({e \in In(f) : Want(e.key, by)})
                <= Cardinality(WantedIn(f, by, Nat))
<1> DEFINE A == WantedIn(f, by, Nat)
           B == {e \in In(f) : Want(e.key, by)}
           m == [i \in A |-> f[i]]
<1>1. DOMAIN f \subseteq Nat
  OBVIOUS
<1>2. \A e \in B : \E i \in A : m[i] = e
  <2>1. ASSUME NEW e \in B PROVE \E i \in A : m[i] = e
    <3>1. e \in Live /\ e \in Range(f) /\ Want(e.key, by)
      BY InIsLive, Zenon DEF In
    <3>2. PICK i \in DOMAIN f : f[i] = e
      BY <3>1, Zenon DEF Range
    <3>3. i \in A
      BY <1>1, <3>1, <3>2, Zenon DEF WantedIn
    <3> QED
      BY <3>2, <3>3, Zenon
  <2> QED
    BY <2>1
<1>3. \A i \in A : f[i] \in B
  <2>1. ASSUME NEW i \in A PROVE f[i] \in B
    <3>1. i \in DOMAIN f /\ f[i] \in Live /\ Want(f[i].key, by)
      BY Zenon DEF WantedIn
    <3>2. f[i].serial > 0 /\ f[i] \in Range(f)
      BY <3>1, SlotFacts DEF Range
    <3> QED
      BY <3>1, <3>2, Zenon DEF In
  <2> QED
    BY <2>1
<1>4. IsFiniteSet(A)
  BY WantedFinite
<1>5. m \in Surjection(A, B)
  BY <1>2, <1>3, Zenon DEF Surjection
<1> HIDE DEF A, B, m
<1>6. IsFiniteSet(B) /\ Cardinality(B) <= Cardinality(A)
  BY <1>4, <1>5, FS_Surjection
<1> QED
  BY <1>6 DEF A, B

\* remove_entry and as_bytes, for any holders, entries and filters, however
\* the others write the file in between.
THEOREM RemovalIsExactHolds == TableSpec => []RemovalIsExact
<1>1. KeytabInv => RemovalIsExact
  <2> SUFFICES ASSUME KeytabInv, NEW h \in Holders
               PROVE  /\ \A e \in gone[h] : Want(e.key, walk[h].by)
                      /\ at[h] = "removed" =>
                          /\ Cardinality(gone[h]) = Len(walk[h].found)
                          /\ Cardinality({e \in In(table) :
                                             Want(e.key, walk[h].by)}) <= late[h]
                      /\ at[h] = "copied" =>
                          /\ lasted[h] \subseteq Range(walk[h].found)
                          /\ IsInjective(walk[h].found)
    BY Zenon DEF RemovalIsExact
  <2>1. /\ table \in Seq(Slots) /\ walk[h].removed \in Nat /\ late[h] \in Nat
        /\ Len(walk[h].found) \in Nat
        /\ MemoryOK(h) /\ RemovalOK(h) /\ CopyOK(h)
    BY KeytabInvFacts
  <2>2. \A e \in gone[h] : Want(e.key, walk[h].by)
    BY <2>1, Zenon DEF MemoryOK
  <2>3. ASSUME at[h] = "removed"
        PROVE  /\ Cardinality(gone[h]) = Len(walk[h].found)
               /\ Cardinality({e \in In(table) : Want(e.key, walk[h].by)})
                    <= late[h]
    <3> DEFINE b == Cardinality({e \in In(table) : Want(e.key, walk[h].by)})
               a == Cardinality(WantedIn(table, walk[h].by, Nat))
    <3>1. /\ Cardinality(gone[h]) = Len(walk[h].found)
          /\ a + walk[h].removed <= Len(walk[h].found) + late[h]
          /\ walk[h].removed = Len(walk[h].found)
      BY <2>1, <2>3, Zenon DEF MemoryOK, RemovalOK
    <3>2. b <= a
      BY <2>1, WantedEntries
    <3>3. a \in Nat
      BY <2>1, WantedFinite
    <3>4. b \in Int
      <4>1. IsFiniteSet({e \in In(table) : Want(e.key, walk[h].by)})
        BY <2>1, WantedEntries
      <4> QED
        BY <4>1, FS_CardinalityType
    <3> HIDE DEF a, b
    <3>5. b <= late[h]
      BY <2>1, <3>1, <3>2, <3>3, <3>4
    <3> QED
      BY <3>1, <3>5 DEF b
  <2>4. at[h] = "copied" =>
          /\ lasted[h] \subseteq Range(walk[h].found)
          /\ IsInjective(walk[h].found)
    BY <2>1, Zenon DEF CopyOK, Distinct, IsInjective
  <2> QED
    BY <2>2, <2>3, <2>4
<1> QED
  BY <1>1, KeytabInitInv, KeytabNextInv, PTL DEF TableSpec
=============================================================================
