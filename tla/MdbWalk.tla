------------------------------ MODULE MdbWalk ------------------------------
(* The in-order walks of truenas_mdb: CursorGuard::walk (txn.rs) under      *)
(* Db::scan, scan_from, scan_prefix (db.rs) and under Iter (iter.rs), while *)
(* other threads commit changes; and Cursor::seek and seek_exact            *)
(* (transaction.rs).  Keys are byte sequences in LMDB's order.              *)
EXTENDS Naturals, Sequences, FiniteSets, Functions

CONSTANTS WalkKeys,    \* keys a database may hold: none is empty
          Starts,      \* what a caller passes as start or prefix
          MaxCommits   \* bound on the changes committed during a walk

ASSUME WalkAssumption ==
    /\ WalkKeys \subseteq Seq(Nat) \ {<<>>} /\ IsFiniteSet(WalkKeys)
    /\ Starts \subseteq Seq(Nat)

VARIABLES stored,   \* the keys of the latest commit
          commits,
          walked    \* the walk: scan or Iter

walkedVars == <<stored, commits, walked>>

starts_with(key, prefix) ==
    Len(prefix) <= Len(key) /\ \A i \in DOMAIN prefix : key[i] = prefix[i]

\* LMDB's order of keys, that of memcmp and then of length.
Before(a, b) ==
    \/ Len(a) < Len(b) /\ starts_with(b, a)
    \/ \E i \in DOMAIN a \cap DOMAIN b :
          a[i] < b[i] /\ \A j \in 1 .. i - 1 : a[j] = b[j]
AtOrAfter(key, start) == ~Before(key, start)
Least(S) == CHOOSE k \in S : \A j \in S \ {k} : Before(k, j)

\* start and prefix are sequences of at most one key: an Option.
NotWalking == [at |-> "none", snap |-> {}, start |-> <<>>, prefix |-> <<>>,
               started |-> FALSE, pos |-> <<>>, yielded |-> <<>>,
               fault |-> FALSE]

WalkInit ==
    /\ stored \in SUBSET WalkKeys
    /\ commits = 0
    /\ walked = NotWalking

-----------------------------------------------------------------------------
(* liblmdb: mdb_cursor_get over the transaction's snapshot. *)

Landed(S) == IF S = {} THEN [is |-> "end"]
             ELSE [is |-> "pair", key |-> Least(S)]
mdb_cursor_get(snap, pos, op, key) ==
    CASE op = "MDB_FIRST" -> Landed(snap)
      [] op = "MDB_SET_RANGE" -> IF key = <<>> THEN [is |-> "EINVAL"]
                                 ELSE Landed({k \in snap : AtOrAfter(k, key)})
      [] op = "MDB_SET_KEY" -> IF key = <<>> THEN [is |-> "EINVAL"]
                               ELSE Landed(snap \cap {key})
      [] op = "MDB_NEXT" -> Landed({k \in snap : Before(pos, k)})

-----------------------------------------------------------------------------
\* Cursor::seek and seek_exact.
Seek(snap, key) ==
    IF key = <<>> THEN mdb_cursor_get(snap, <<>>, "MDB_FIRST", <<>>)
    ELSE mdb_cursor_get(snap, <<>>, "MDB_SET_RANGE", key)
SeekExact(snap, key) ==
    IF key = <<>> THEN [is |-> "end"]
    ELSE mdb_cursor_get(snap, <<>>, "MDB_SET_KEY", key)

\* Mutant: the seek does not look for an empty start.
Move_Anywhere(w) ==
    IF w.started THEN mdb_cursor_get(w.snap, w.pos, "MDB_NEXT", <<>>)
    ELSE IF w.start = <<>> THEN mdb_cursor_get(w.snap, <<>>, "MDB_FIRST", <<>>)
    ELSE mdb_cursor_get(w.snap, <<>>, "MDB_SET_RANGE", w.start[1])

\* walk's choice of operation: seek on the first call, MDB_NEXT after.
Move(w) ==
    IF w.started THEN mdb_cursor_get(w.snap, w.pos, "MDB_NEXT", <<>>)
    ELSE IF w.start # <<>> /\ w.start[1] # <<>>
    THEN mdb_cursor_get(w.snap, <<>>, "MDB_SET_RANGE", w.start[1])
    ELSE mdb_cursor_get(w.snap, <<>>, "MDB_FIRST", <<>>)

\* The first key past the prefix is the end.
Past(w, key) == w.prefix # <<>> /\ ~starts_with(key, w.prefix[1])

\* Iter::new and scan_impl: a read transaction, whose snapshot the walk keeps.
StartWalk(start, prefix) ==
    /\ walked.at = "none"
    /\ walked' = [NotWalking EXCEPT !.at = "open", !.snap = stored,
                                    !.start = start, !.prefix = prefix]
    /\ UNCHANGED <<stored, commits>>

\* scan, iter; scan_from, iter_from; scan_prefix, iter_prefix.
Walks ==
    \/ StartWalk(<<>>, <<>>)
    \/ \E s \in Starts : StartWalk(<<s>>, <<>>)
    \/ \E s \in Starts : StartWalk(<<s>>, <<s>>)

\* Iter::next, or one turn of scan_impl's loop.  After an end or an error an
\* Iter yields no more, and scan returns.
WalkStep ==
    /\ walked.at = "open"
    /\ LET got == Move(walked) IN
       walked' = IF got.is = "pair" /\ ~Past(walked, got.key)
                 THEN [walked EXCEPT !.started = TRUE, !.pos = got.key,
                                     !.yielded = Append(@, got.key)]
                 ELSE [walked EXCEPT !.started = TRUE,
                          !.at = IF got.is = "EINVAL" THEN "err" ELSE "end"]
    /\ UNCHANGED <<stored, commits>>

\* mdb_cursor_get fails.
WalkFails ==
    /\ walked.at = "open"
    /\ walked' = [walked EXCEPT !.started = TRUE, !.at = "err", !.fault = TRUE]
    /\ UNCHANGED <<stored, commits>>

\* scan's closure breaks, or the Iter is dropped: cursor, then transaction.
LeaveWalk ==
    /\ walked.at # "none"
    /\ walked' = NotWalking
    /\ UNCHANGED <<stored, commits>>

\* Another thread commits a put or a delete.
OtherCommits(k) ==
    /\ walked.at = "open" /\ commits < MaxCommits /\ commits' = commits + 1
    /\ stored' = IF k \in stored THEN stored \ {k} ELSE stored \cup {k}
    /\ UNCHANGED walked

WalkNext ==
    \/ Walks \/ WalkStep \/ WalkFails \/ LeaveWalk
    \/ \E k \in WalkKeys : OtherCommits(k)

WalkSpec == WalkInit /\ [][WalkNext]_walkedVars

Wanted(w) == {k \in w.snap :
                 /\ \A i \in DOMAIN w.start : AtOrAfter(k, w.start[i])
                 /\ \A i \in DOMAIN w.prefix : starts_with(k, w.prefix[i])}

\* scan*, iter*: the keys at or after start, or those with the prefix, in
\* order, none missed and none twice, as they were when the walk began.  An
\* empty start or prefix is no error and leaves nothing out.  seek and
\* seek_exact agree: "an empty key is before every key", and nothing is
\* stored under it.
WalksInOrder ==
    /\ LET done == Range(walked.yielded) IN
       /\ done \subseteq Wanted(walked)
       /\ \A i, j \in DOMAIN walked.yielded :
             i < j => Before(walked.yielded[i], walked.yielded[j])
       /\ \A k \in done, l \in Wanted(walked) \ done : Before(k, l)
       /\ walked.at = "end" => done = Wanted(walked)
    /\ walked.at = "err" => walked.fault
    /\ \A s \in Starts :
          /\ Seek(stored, s) = Landed({k \in stored : AtOrAfter(k, s)})
          /\ SeekExact(stored, s) = Landed(stored \cap {s})
=============================================================================
