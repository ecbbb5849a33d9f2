------------------------------ MODULE Krb5Calls ------------------------------
(***************************************************************************)
(* What truenas_krb5 owes libkrb5.  Every function of the crate is a       *)
(* sequence of library calls on one context, any of which may fail, and    *)
(* each call that succeeds may hand out a handle that has to be given back *)
(* exactly once and while the context it belongs to is alive.  Some        *)
(* handles are wrapped in a value that Rust drops when the function is     *)
(* left, in the reverse order of their declarations; others stay raw       *)
(* pointers that the function must give back by hand on every path.        *)
(* A function is written here as its sequence of calls; Try, Call, Free    *)
(* and the rest say what one of them does to the handles.                  *)
(***************************************************************************)
EXTENDS Naturals, Sequences, SequencesExt, FiniteSets

VARIABLES
    fn,      \* the function under way, or "none"
    pc,      \* its next library call
    held,    \* the handles not yet given back, oldest first
    failed,  \* a status kept for a later check says failure
    leaving, \* the function is being left: its values are dropped
    twice    \* a handle was given back that was not held

callVars == <<fn, pc, held, failed, leaving, twice>>

-----------------------------------------------------------------------------
(* The steps of a function.                                                *)

\* A call checked at once with `?`, whose success gives r to a local value.
Try(call, r) == [op |-> "try", call |-> call, res |-> r]
\* A call whose status is kept; what it gives stays a raw pointer.
Call(call, r) == [op |-> "call", call |-> call, res |-> r]
\* The call that gives r back, made by hand or at the end of a scope.
Free(r) == [op |-> "free", res |-> r]
\* The kept status is looked at with `?`.
Check == [op |-> "check"]
\* When the kept status says failure, the next n steps are passed over.
Skip(n) == [op |-> "skip", n |-> n]
\* The next n steps are made or passed over; the last n are gone back over.
Branch(n) == [op |-> "branch", n |-> n]
Back(n) == [op |-> "back", n |-> n]
\* A walk: the body once for every entry there is.
While(body) ==
    <<Branch(Len(body) + 1)>> \o body \o <<Back(Len(body) + 1)>>
\* Handles become the fields of a local value; rs is their drop order
\* backwards.
Own(rs) == [op |-> "own", rs |-> rs]
\* The function consumes the caller's value with these handles.
Take(rs) == [op |-> "take", rs |-> rs]
\* The end, and the handles the returned value owns.
Return(rs) == [op |-> "return", rs |-> rs]

-----------------------------------------------------------------------------
(* The functions.  "cstring", "length" and "write" are the crate's own     *)
(* checks; they can fail as a library call can.                            *)

Principal_parse ==
    <<Try("krb5_init_context", "ctx"), Try("cstring", "none"),
      Try("krb5_parse_name", "principal"), Try("utf8", "none"), Return(<<>>)>>

Principal_unparse ==
    <<Try("krb5_init_context", "ctx"), Try("cstring", "none"),
      Try("krb5_parse_name", "principal"),
      Call("krb5_unparse_name", "text"), Check, Free("text"), Return(<<>>)>>

Keytab_open ==
    <<Try("krb5_init_context", "ctx"), Try("cstring", "none"),
      Try("krb5_kt_resolve", "table"), Return(<<"ctx", "table">>)>>

Keytab_system_default ==
    <<Try("krb5_init_context", "ctx"), Try("krb5_kt_default", "table"),
      Return(<<"ctx", "table">>)>>

Keytab_from_bytes ==
    <<Try("krb5_init_context", "ctx"), Try("memfd_create", "mem"),
      Try("try_clone", "file"), Try("write", "none"), Try("cstring", "none"),
      Try("krb5_kt_resolve", "memTable"), Own(<<"mem", "ctx", "memTable">>),
      Return(<<"mem", "ctx", "memTable">>)>>

Keytab_entries ==
    <<Try("krb5_kt_start_seq_get", "cursor"), Return(<<"cursor">>)>>

Keytab_add_key ==
    <<Try("cstring", "none"), Try("krb5_parse_name", "principal"),
      Try("length", "none"), Try("krb5_kt_add_entry", "none"), Return(<<>>)>>

Keytab_add_password ==
    <<Try("cstring", "none"), Try("krb5_parse_name", "principal"),
      Try("krb5_principal2salt", "salt"), Try("length", "none"),
      Call("krb5_c_string_to_key", "keyblock"), Check,
      Call("krb5_kt_add_entry", "none"), Free("keyblock"), Check,
      Return(<<>>)>>

Keytab_remove_entry ==
    <<Try("cstring", "none"), Try("krb5_parse_name", "principal"),
      Try("krb5_kt_start_seq_get", "walk")>>
    \o While(<<Try("krb5_kt_next_entry", "entry"), Free("entry")>>)
    \o <<Try("krb5_kt_next_entry", "none"), Free("walk")>>
    \o While(<<Try("krb5_kt_remove_entry", "none")>>)
    \o <<Return(<<>>)>>

Keytab_as_bytes ==
    <<Try("memfd_create", "fd"), Try("try_clone", "file"),
      Try("write", "none"), Try("cstring", "none"),
      Try("krb5_kt_resolve", "out"), Try("krb5_kt_start_seq_get", "walk")>>
    \o While(<<Try("krb5_kt_next_entry", "entry"),
               Try("krb5_kt_add_entry", "none"), Free("entry")>>)
    \o <<Try("krb5_kt_next_entry", "none"), Free("walk"), Free("out"),
         Try("read", "none"), Return(<<>>)>>

Entries_next ==
    <<Branch(2), Try("krb5_kt_next_entry", "entry"), Try("utf8", "none"),
      Return(<<>>)>>

Entries_drop == <<Take(<<"cursor">>), Return(<<>>)>>

Keytab_drop == <<Take(<<"ctx", "table">>), Return(<<>>)>>

Keytab_drop_mem == <<Take(<<"mem", "ctx", "memTable">>), Return(<<>>)>>

Ccache_open ==
    <<Try("krb5_init_context", "ctx"), Try("cstring", "none"),
      Try("krb5_cc_resolve", "cache"), Return(<<"ctx", "cache">>)>>

Ccache_system_default ==
    <<Try("krb5_init_context", "ctx"), Try("krb5_cc_default", "cache"),
      Return(<<"ctx", "cache">>)>>

Ccache_credentials ==
    <<Try("krb5_cc_start_seq_get", "ccCursor"), Return(<<"ccCursor">>)>>

\* A configuration entry is freed and passed over; a ticket that does not
\* convert is freed all the same before its error is returned.
Credentials_next ==
    While(<<Call("krb5_cc_next_cred", "creds"), Check, Free("creds")>>)
    \o <<Branch(5), Call("krb5_cc_next_cred", "creds"), Check,
         Call("convert", "none"), Free("creds"), Check, Return(<<>>)>>

Credentials_drop == <<Take(<<"ccCursor">>), Return(<<>>)>>

\* krb5_cc_destroy gives the handle back whatever it returns.
Ccache_destroy ==
    <<Take(<<"ctx", "cache">>), Call("krb5_cc_destroy", "none"),
      Free("cache"), Check, Return(<<>>)>>

Ccache_drop == <<Take(<<"ctx", "cache">>), Return(<<>>)>>

\* What kinit_keytab's closure does: the table is closed whatever the
\* acquisition returned.
AcquireWithKeytab ==
    <<Call("krb5_kt_resolve", "kt"), Skip(2),
      Call("krb5_get_init_creds_keytab", "creds"), Free("kt")>>

\* What kinit_password's does.
AcquireWithPassword ==
    <<Call("cstring", "none"), Skip(1),
      Call("krb5_get_init_creds_password", "creds")>>

\* acquire_into: the options are freed whatever came of the rest.
AcquireInto(acquire) ==
    <<Call("krb5_get_init_creds_opt_alloc", "opt"), Skip(Len(acquire) + 5),
      Call("krb5_get_init_creds_opt_set_out_ccache", "none"),
      Skip(Len(acquire) + 2)>>
    \o acquire \o <<Skip(1), Free("creds"), Free("opt")>>

\* The cache takes the context over, so the principal made on the context
\* has to go first.
Kinit_LateDrop(acquire) ==
    <<Try("krb5_init_context", "ctx"), Try("cstring", "none"),
      Try("krb5_parse_name", "principal"), Try("cstring", "none"),
      Call("krb5_cc_resolve", "cache"), Check, Own(<<"ctx", "cache">>)>>
    \o AcquireInto(acquire) \o <<Check, Return(<<"ctx", "cache">>)>>
Kinit(acquire) ==
    <<Try("krb5_init_context", "ctx"), Try("cstring", "none"),
      Try("krb5_parse_name", "principal"), Try("cstring", "none"),
      Call("krb5_cc_resolve", "cache"), Check, Own(<<"ctx", "cache">>)>>
    \o AcquireInto(acquire)
    \o <<Free("principal"), Check, Return(<<"ctx", "cache">>)>>

-----------------------------------------------------------------------------
(* Which function a caller may call, by the handles its values hold: an    *)
(* iterator borrows its table or cache, so neither goes before it.         *)

Held == {held[i].res : i \in DOMAIN held}

KeytabCalls(table) ==
    IF table \in Held
    THEN {<<"Keytab_add_key", Keytab_add_key>>,
          <<"Keytab_add_password", Keytab_add_password>>,
          <<"Keytab_remove_entry", Keytab_remove_entry>>,
          <<"Keytab_as_bytes", Keytab_as_bytes>>}
         \cup IF "cursor" \in Held
              THEN {<<"Entries_next", Entries_next>>,
                    <<"Entries_drop", Entries_drop>>}
              ELSE {<<"Keytab_entries", Keytab_entries>>,
                    IF table = "table"
                    THEN <<"Keytab_drop", Keytab_drop>>
                    ELSE <<"Keytab_drop", Keytab_drop_mem>>}
    ELSE {}

Callable ==
    CASE Held = {} ->
           {<<"Principal_parse", Principal_parse>>,
            <<"Principal_unparse", Principal_unparse>>,
            <<"Keytab_open", Keytab_open>>,
            <<"Keytab_system_default", Keytab_system_default>>,
            <<"Keytab_from_bytes", Keytab_from_bytes>>,
            <<"Ccache_open", Ccache_open>>,
            <<"Ccache_system_default", Ccache_system_default>>,
            <<"kinit_keytab", Kinit(AcquireWithKeytab)>>,
            <<"kinit_password", Kinit(AcquireWithPassword)>>}
      [] "ccCursor" \in Held ->
           {<<"Credentials_next", Credentials_next>>,
            <<"Credentials_drop", Credentials_drop>>}
      [] "cache" \in Held /\ "ccCursor" \notin Held ->
           {<<"Ccache_credentials", Ccache_credentials>>,
            <<"Ccache_destroy", Ccache_destroy>>,
            <<"Ccache_drop", Ccache_drop>>}
      [] OTHER -> KeytabCalls("table") \cup KeytabCalls("memTable")

-----------------------------------------------------------------------------
CallsInit ==
    /\ fn = <<"none", <<>>>> /\ pc = 1 /\ held = <<>>
    /\ failed = FALSE /\ leaving = FALSE /\ twice = FALSE

Idle == fn[1] = "none"
Step == fn[2][pc]
At(op) == ~Idle /\ ~leaving /\ Step.op = op

Gain(r, owner) ==
    IF r = "none" THEN held ELSE Append(held, [res |-> r, by |-> owner])

\* The handles without those in rs, and rs put last in the given order.
Without(rs) == SelectSeq(held, LAMBDA h : h.res \notin Range(rs))
Regroup(rs, owner) ==
    Without(rs) \o [i \in DOMAIN rs |-> [res |-> rs[i], by |-> owner]]

Start ==
    /\ Idle
    /\ \E f \in Callable : fn' = f
    /\ pc' = 1 /\ failed' = FALSE
    /\ UNCHANGED <<held, leaving, twice>>

\* A checked call succeeds, or its error leaves the function.
DoTry ==
    /\ At("try")
    /\ \/ /\ held' = Gain(Step.res, "local") /\ pc' = pc + 1
          /\ UNCHANGED leaving
       \/ /\ leaving' = TRUE /\ UNCHANGED <<held, pc>>
    /\ UNCHANGED <<fn, failed, twice>>

\* A call whose status is kept.
DoCall ==
    /\ At("call")
    /\ \/ held' = Gain(Step.res, "raw") /\ failed' = FALSE
       \/ held' = held /\ failed' = TRUE
    /\ pc' = pc + 1
    /\ UNCHANGED <<fn, leaving, twice>>

DoFree ==
    /\ At("free")
    /\ twice' = (twice \/ Step.res \notin Held)
    /\ held' = Without(<<Step.res>>)
    /\ pc' = pc + 1
    /\ UNCHANGED <<fn, failed, leaving>>

DoCheck ==
    /\ At("check")
    /\ leaving' = failed
    /\ pc' = IF failed THEN pc ELSE pc + 1
    /\ UNCHANGED <<fn, held, failed, twice>>

Jump ==
    /\ \/ At("skip") /\ pc' = IF failed THEN pc + 1 + Step.n ELSE pc + 1
       \/ At("branch") /\ pc' \in {pc + 1, pc + 1 + Step.n}
       \/ At("back") /\ pc' = pc - Step.n
    /\ UNCHANGED <<fn, held, failed, leaving, twice>>

Wrap ==
    /\ At("own") \/ At("take")
    /\ held' = Regroup(Step.rs, "local")
    /\ pc' = pc + 1
    /\ UNCHANGED <<fn, failed, leaving, twice>>

DoReturn ==
    /\ At("return")
    /\ leaving' = TRUE
    /\ held' = Regroup(Step.rs, "caller")
    /\ UNCHANGED <<fn, pc, failed, twice>>

\* Leaving a function drops its local values, the youngest first.
Locals == {i \in DOMAIN held : held[i].by = "local"}
Drop ==
    /\ leaving
    /\ IF Locals = {}
       THEN /\ fn' = <<"none", <<>>>> /\ leaving' = FALSE
            /\ pc' = 1 /\ failed' = FALSE /\ held' = held
       ELSE /\ held' = RemoveAt(held, CHOOSE i \in Locals :
                                         \A j \in Locals : j <= i)
            /\ UNCHANGED <<fn, leaving, pc, failed>>
    /\ UNCHANGED twice

CallsNext ==
    \/ Start \/ DoTry \/ DoCall \/ DoFree \/ DoCheck \/ Jump \/ Wrap
    \/ DoReturn \/ Drop

CallsSpec == CallsInit /\ [][CallsNext]_callVars

-----------------------------------------------------------------------------
(* What a handle needs alive to be given back: the context it was made on, *)
(* the table a cursor walks, and the descriptor whose path names the table *)
(* (resolve_fd).                                                           *)
Needs(r) ==
    CASE r \in {"ctx", "mem", "fd", "file"} -> {}
      [] r = "memTable" -> {"ctx", "mem"}
      [] r = "out" -> {"ctx", "fd"}
      [] r = "ccCursor" -> {"ctx", "cache"}
      [] r \in {"cursor", "walk"} ->
           {"ctx"} \cup IF "mem" \in Held THEN {"memTable"} ELSE {"table"}
      [] OTHER -> {"ctx"}

\* Whatever call fails on the way, no function of the crate gives a handle
\* back twice, lets a context, table or descriptor go before a handle made
\* on it, returns with a raw handle that nothing will ever give back, or
\* removes an entry while its own walk of the table is open (the drops and
\* frees of keytab.rs, ccache.rs, principal.rs and init.rs).
HandlesBalanced ==
    /\ ~twice
    /\ \A r \in Held : Needs(r) \subseteq Held
    /\ Idle => \A i \in DOMAIN held : held[i].by = "caller"
    /\ At("try") /\ Step.call = "krb5_kt_remove_entry" => "walk" \notin Held
=============================================================================
