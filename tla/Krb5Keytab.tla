------------------------------ MODULE Krb5Keytab ------------------------------
(***************************************************************************)
(* The entries of one FILE key table while several holders, each with a    *)
(* Keytab of its own over the same file, add, remove and copy entries      *)
(* (truenas_krb5, keytab.rs).  Each library call sees and changes the file *)
(* on its own; a walk is a call per entry, and remove_entry is a walk that *)
(* takes a snapshot of the matches followed by a call per match.  Any call *)
(* may fail.                                                               *)
(***************************************************************************)
EXTENDS Naturals, Sequences, FiniteSets, Functions

CONSTANTS
    Holders,    \* who has the table open
    Entries,    \* records [princ, enctype, vno] a caller may add
    Filters,    \* records [princ, enctype, vno] a caller removes by; a
                \* filter not given is <<>>
    MaxSlots,   \* bound: the length of the file
    MaxAdds     \* bound: additions in a behaviour

VARIABLES
    table,  \* the file: a sequence of entries, each with a ghost serial, a
            \* removed entry leaving a hole
    adds,   \* additions so far; numbers the entries
    at,     \* per holder: what it is doing
    walk,   \* per holder: its cursor, what the walk collected, its filter
    gone,   \* per holder, ghost: the entries its removals took out
    lasted, \* per holder, ghost: the entries there ever since its call began
    late    \* per holder, ghost: the wanted entries added since then

tableVars == <<table, adds, at, walk, gone, lasted, late>>

Hole == [serial |-> 0]
NoWalk == [pos |-> 1, found |-> <<>>, removed |-> 0, by |-> <<>>]
In(file) == {e \in Range(file) : e.serial > 0}
FirstOf(places) == CHOOSE i \in places : \A j \in places : i <= j

TableInit ==
    /\ table = <<>> /\ adds = 0
    /\ at = [h \in Holders |-> "rest"]
    /\ walk = [h \in Holders |-> NoWalk]
    /\ gone = [h \in Holders |-> {}]
    /\ lasted = [h \in Holders |-> {}]
    /\ late = [h \in Holders |-> 0]

\* The file changes under everyone: what lasted so far has to be in it.
Write(file) ==
    /\ table' = file
    /\ lasted' = [h \in Holders |-> lasted[h] \cap In(file)]

BeginCall(h, what, filter) ==
    /\ at' = [at EXCEPT ![h] = what]
    /\ walk' = [walk EXCEPT ![h] = [NoWalk EXCEPT !.by = filter]]
    /\ gone' = [gone EXCEPT ![h] = {}]
    /\ lasted' = [lasted EXCEPT ![h] = In(table)]
    /\ late' = [late EXCEPT ![h] = 0]
    /\ UNCHANGED <<table, adds>>

-----------------------------------------------------------------------------
(* krb5_kt_add_entry of a FILE table: into the first hole, else at the end *)
Added(file, e) ==
    LET holes == {i \in DOMAIN file : file[i] = Hole}
    IN  IF holes # {} THEN [file EXCEPT ![FirstOf(holes)] = e]
        ELSE Append(file, e)

\* krb5_kt_remove_entry names an entry by principal, enctype and version
\* and takes the first such entry out.
Named(x, e) == x.serial > 0 /\ x.key = e.key

\* The filters of remove_entry; one that is not given lets every entry by.
Want(key, f) ==
    /\ key.princ = f.princ
    /\ f.enctype = <<>> \/ f.enctype = <<key.enctype>>
    /\ f.vno = <<>> \/ f.vno = <<key.vno>>

add_entry(h) ==
    /\ at[h] = "rest" /\ adds < MaxAdds
    /\ \E e \in Entries :
        LET new == [serial |-> adds + 1, key |-> e]
        IN  /\ Len(Added(table, new)) <= MaxSlots
            /\ Write(Added(table, new))
            /\ late' = [g \in Holders |->
                          IF at[g] \in {"snapshot", "remove", "removed"}
                             /\ Want(e, walk[g].by)
                          THEN late[g] + 1 ELSE late[g]]
    /\ adds' = adds + 1
    /\ UNCHANGED <<at, walk, gone>>

remove_entry(h) ==
    /\ at[h] = "rest"
    /\ \E f \in Filters : BeginCall(h, "snapshot", f)

as_bytes(h) == at[h] = "rest" /\ BeginCall(h, "copy", <<>>)

\* next_raw: the cursor goes on past holes to the next entry.
Next_raw(h) ==
    LET left == {i \in walk[h].pos .. Len(table) : table[i] # Hole}
    IN  IF left = {} THEN 0 ELSE FirstOf(left)

\* One step of the walk: a match joins the snapshot, every entry the copy.
WalkOn(h) ==
    /\ at[h] \in {"snapshot", "copy"} /\ Next_raw(h) # 0
    /\ LET e == table[Next_raw(h)]
       IN  walk' = [walk EXCEPT
             ![h].pos = Next_raw(h) + 1,
             ![h].found = IF at[h] = "copy" \/ Want(e.key, walk[h].by)
                          THEN Append(@, e) ELSE @]
    /\ UNCHANGED <<table, adds, at, gone, lasted, late>>

\* KRB5_KT_END: the cursor is released.
WalkEnds_OnFault(h) ==
    /\ at[h] \in {"snapshot", "copy"}
    /\ at' = [at EXCEPT ![h] = IF @ = "copy" THEN "copied" ELSE "remove"]
    /\ UNCHANGED <<table, adds, walk, gone, lasted, late>>
WalkEnds(h) ==
    /\ at[h] \in {"snapshot", "copy"} /\ Next_raw(h) = 0
    /\ at' = [at EXCEPT ![h] = IF @ = "copy" THEN "copied" ELSE "remove"]
    /\ UNCHANGED <<table, adds, walk, gone, lasted, late>>

\* The function is left, with its result or its error.
Leave(h) ==
    /\ at' = [at EXCEPT ![h] = "rest"]
    /\ walk' = [walk EXCEPT ![h] = NoWalk]
    /\ gone' = [gone EXCEPT ![h] = {}]
    /\ lasted' = [lasted EXCEPT ![h] = {}]
    /\ late' = [late EXCEPT ![h] = 0]

Todo(h) == walk[h].found[walk[h].removed + 1]

\* The next match of the snapshot is removed.
RemoveOne(h) ==
    /\ at[h] = "remove" /\ walk[h].removed < Len(walk[h].found)
    /\ LET same == {i \in DOMAIN table : Named(table[i], Todo(h))}
       IN  /\ same # {}
           /\ Write([table EXCEPT ![FirstOf(same)] = Hole])
           /\ gone' = [gone EXCEPT ![h] = @ \cup {table[FirstOf(same)]}]
    /\ walk' = [walk EXCEPT ![h].removed = @ + 1]
    /\ UNCHANGED <<adds, at, late>>

RemoveEnds(h) ==
    /\ at[h] = "remove" /\ walk[h].removed = Len(walk[h].found)
    /\ at' = [at EXCEPT ![h] = "removed"]
    /\ UNCHANGED <<table, adds, walk, gone, lasted, late>>

\* Any call on the way may fail, which ends the function there; a match
\* another holder has taken already fails with KRB5_KT_NOTFOUND.
Fault(h) ==
    /\ at[h] \in {"snapshot", "copy", "remove"}
    /\ Leave(h)
    /\ UNCHANGED <<table, adds>>

Return(h) ==
    /\ at[h] \in {"removed", "copied"}
    /\ Leave(h)
    /\ UNCHANGED <<table, adds>>

TableNext ==
    \E h \in Holders :
        \/ add_entry(h) \/ remove_entry(h) \/ as_bytes(h) \/ WalkOn(h)
        \/ WalkEnds(h) \/ RemoveOne(h) \/ RemoveEnds(h) \/ Fault(h)
        \/ Return(h)

TableSpec == TableInit /\ [][TableNext]_tableVars

-----------------------------------------------------------------------------
\* remove_entry takes out only entries its filters want, however it ends;
\* when it returns a count, that many went, and no more wanted entries are
\* left than were added since it began, though the table has two entries of
\* one name and the other holders write the file in between.  as_bytes
\* copies every entry that lasted through its walk, and none twice.
RemovalIsExact ==
    \A h \in Holders :
        /\ \A e \in gone[h] : Want(e.key, walk[h].by)
        /\ at[h] = "removed" =>
            /\ Cardinality(gone[h]) = Len(walk[h].found)
            /\ Cardinality({e \in In(table) : Want(e.key, walk[h].by)}) <= late[h]
        /\ at[h] = "copied" =>
            /\ lasted[h] \subseteq Range(walk[h].found)
            /\ IsInjective(walk[h].found)
=============================================================================
