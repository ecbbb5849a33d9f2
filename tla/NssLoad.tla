------------------------------ MODULE NssLoad ------------------------------
(* Loading of the NSS modules (service.rs): Source::service with its        *)
(* registry of OnceLocks, Service::open, and load_locked under the load     *)
(* lock.  The dynamic linker keeps the error of a failed dlopen or dlsym    *)
(* until dlerror takes it; it is modelled as one error of the process,      *)
(* which is what load_locked guards against.                                *)
EXTENDS Naturals, FiniteSets, Sequences, Functions

CONSTANTS Loaders,      \* threads
          Libraries,    \* the modules, one registry slot each
          Symbols,      \* the service functions, in the order of Fns
          MaxOpens,     \* bound: Service::open starts below this many services
                        \* loaded and opening
          None

ASSUME LoadAssumption ==
    /\ Symbols \in Seq(Range(Symbols))
    /\ None \notin Loaders /\ None \notin Nat
    /\ \A fns \in SUBSET Range(Symbols) : None # fns

VARIABLES exports,   \* library -> the symbols it exports, None: not installed
          slot,      \* REGISTRY: library -> index into services, or None
          services,  \* LOADED: <<library, symbols resolved>> of every Service
          loadLock,  \* LOAD_LOCK: its holder, or None
          dlError,   \* the pending error: <<thread, library>>, or None
          load       \* thread -> the call it is in, with its result

loadVars == <<exports, slot, services, loadLock, dlError, load>>

\* at: "idle", "lock", "recheck", "dlopen", "dlsym", "dlerror", "publish".
\* next: the next symbol to resolve.  fns: those resolved.  got: the result.
Idle == [at |-> "idle", lib |-> None, shared |-> FALSE, next |-> 0,
         fns |-> {}, got |-> None]

LoadInit ==
    /\ exports \in [Libraries -> {None, {}, Range(Symbols)}
                                   \cup {{Symbols[i]} : i \in DOMAIN Symbols}]
    /\ slot = [l \in Libraries |-> None]
    /\ services = <<>>
    /\ loadLock = None /\ dlError = None
    /\ load = [t \in Loaders |-> Idle]

LoadAt(t, at) == load[t].at = at
Ok(i) == [is |-> "ok", of |-> i]
Error(kind, of) == [is |-> kind, of |-> of]

LoadGoto(t, at) == load' = [load EXCEPT ![t].at = at]

\* Source::service (shared: through the registry), the slot found set.
Hit(t, l) ==
    /\ LoadAt(t, "idle") /\ slot[l] # None
    /\ load' = [load EXCEPT ![t] = [Idle EXCEPT !.lib = l, !.shared = TRUE,
                                                !.got = Ok(slot[l])]]
    /\ UNCHANGED <<exports, slot, services, loadLock, dlError>>

Opening(t) == ~LoadAt(t, "idle") /\ ~load[t].shared

\* The slot found unset by Source::service; or Service::open, which mints a
\* service of its own.
Ask(t, l, shared) ==
    /\ LoadAt(t, "idle")
    /\ IF shared THEN slot[l] = None
       ELSE Len(services) + Cardinality({u \in Loaders : Opening(u)}) < MaxOpens
    /\ load' = [load EXCEPT ![t] = [Idle EXCEPT !.at = "lock", !.lib = l,
                                                !.shared = shared]]
    /\ UNCHANGED <<exports, slot, services, loadLock, dlError>>

lock_load_Free(t) ==
    /\ LoadAt(t, "lock")
    /\ loadLock' = t
    /\ LoadGoto(t, IF load[t].shared THEN "recheck" ELSE "dlopen")
    /\ UNCHANGED <<exports, slot, services, dlError>>

lock_load(t) ==
    /\ LoadAt(t, "lock") /\ loadLock = None
    /\ loadLock' = t
    /\ LoadGoto(t, IF load[t].shared THEN "recheck" ELSE "dlopen")
    /\ UNCHANGED <<exports, slot, services, dlError>>

\* A call that returns drops its guard.
Leave(t, got) ==
    /\ load' = [load EXCEPT ![t] = [Idle EXCEPT !.lib = load[t].lib,
                      !.shared = load[t].shared, !.got = got]]
    /\ loadLock' = None

\* The second look at the slot, under the lock.
Recheck(t) ==
    /\ LoadAt(t, "recheck")
    /\ \/ /\ slot[load[t].lib] # None
          /\ Leave(t, Ok(slot[load[t].lib]))
       \/ /\ slot[load[t].lib] = None
          /\ LoadGoto(t, "dlopen") /\ UNCHANGED loadLock
    /\ UNCHANGED <<exports, slot, services, dlError>>

\* dlopen, and its failure.
dlopen(t) ==
    /\ LoadAt(t, "dlopen")
    /\ \/ /\ exports[load[t].lib] # None
          /\ load' = [load EXCEPT ![t].at = "dlsym", ![t].next = 1]
          /\ UNCHANGED dlError
       \/ /\ exports[load[t].lib] = None
          /\ dlError' = <<t, load[t].lib>> /\ LoadGoto(t, "dlerror")
    /\ UNCHANGED <<exports, slot, services, loadLock>>

\* dlerror_text: the pending error is taken, and is the reason reported.
dlerror_text(t) ==
    /\ LoadAt(t, "dlerror")
    /\ Leave(t, Error("load", dlError)) /\ dlError' = None
    /\ UNCHANGED <<exports, slot, services>>

\* sym: the next function.  One the module lacks leaves an error, drained at
\* once under the lock.
dlsym(t) ==
    /\ LoadAt(t, "dlsym") /\ load[t].next <= Len(Symbols)
    /\ load' = [load EXCEPT ![t].next = @ + 1,
                   ![t].fns = @ \cup ({Symbols[load[t].next]}
                                        \cap exports[load[t].lib])]
    /\ UNCHANGED <<exports, slot, services, loadLock, dlError>>

\* fns.any(): nothing resolved is the wrong library.
NoSymbol(t) ==
    /\ LoadAt(t, "dlsym") /\ load[t].next > Len(Symbols) /\ load[t].fns = {}
    /\ Leave(t, Error("symbol", load[t].lib))
    /\ UNCHANGED <<exports, slot, services, dlError>>

\* The Service, pushed on LOADED.
Push(t) ==
    /\ LoadAt(t, "dlsym") /\ load[t].next > Len(Symbols) /\ load[t].fns # {}
    /\ services' = Append(services, <<load[t].lib, load[t].fns>>)
    /\ \/ load[t].shared /\ LoadGoto(t, "publish") /\ UNCHANGED loadLock
       \/ ~load[t].shared /\ Leave(t, Ok(Len(services')))
    /\ UNCHANGED <<exports, slot, dlError>>

\* slot.set, which keeps a value that is there; the caller gets its own.
Publish(t) ==
    /\ LoadAt(t, "publish")
    /\ slot' = [slot EXCEPT ![load[t].lib] =
                    IF @ = None THEN Len(services) ELSE @]
    /\ Leave(t, Ok(Len(services)))
    /\ UNCHANGED <<exports, services, dlError>>

\* A module is installed after a load of it failed.
Install(l) ==
    /\ exports[l] = None
    /\ exports' = [exports EXCEPT ![l] = Range(Symbols)]
    /\ UNCHANGED <<slot, services, loadLock, dlError, load>>

LoadStep(t) ==
    \/ lock_load(t) \/ Recheck(t) \/ dlopen(t) \/ dlerror_text(t) \/ dlsym(t)
    \/ NoSymbol(t) \/ Push(t) \/ Publish(t)

LoadNext ==
    \/ \E t \in Loaders : LoadStep(t)
    \/ \E t \in Loaders, l \in Libraries :
          Hit(t, l) \/ Ask(t, l, TRUE) \/ Ask(t, l, FALSE)
    \/ \E l \in Libraries : Install(l)
LoadSpec == LoadInit /\ [][LoadNext]_loadVars

\* The registry and load_locked, whichever threads load at once: callers of
\* Source::service share one Service of their module, every Service has the
\* functions its module exports, a failed load reports its own dlopen's
\* error, and no error is left pending for a load to come.
LoadsAgree ==
    /\ \A t \in Loaders : LET got == load[t].got IN
          got # None =>
             /\ got.is = "load" => got.of = <<t, load[t].lib>>
             /\ got.is = "ok" => services[got.of][1] = load[t].lib
             /\ got.is = "ok" /\ load[t].shared => got.of = slot[load[t].lib]
    /\ \A i \in DOMAIN services : services[i][2] = exports[services[i][1]]
    /\ loadLock = None => dlError = None
=============================================================================
