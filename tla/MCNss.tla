------------------------------- MODULE MCNss -------------------------------
(* NssEnum, NssLookup and NssLoad for TLC.  They share no state: each runs   *)
(* while the others rest, so that TLC explores the sum of their states.      *)
(* NssHosts has no state.                                                    *)
EXTENDS NssEnum, NssLoad

CONSTANTS Gids, Primary, MaxGids

VARIABLES op, buflen, answers, result

lookupVars == <<op, buflen, answers, result>>

L == INSTANCE NssLookup

ASSUME LookupsAssumption == L!LookupAssumption

A == INSTANCE NssHosts WITH Addrs <- {1, 2}, HostNames <- {"nas", "web"}

\* See NssHosts: confirmed_name over whatever glibc's two calls answer.
ASSUME NamesConfirmed == A!NamesAreConfirmed

\* The functions a module may export.
TwoFunctions == <<"getpwnam_r", "getgrnam_r">>

NssInit == Init /\ L!Init /\ LoadInit

Unused == \A t \in Threads : live[t] = {}
Unloaded ==
    /\ exports = [l \in Libraries |-> {}]
    /\ services = <<>> /\ \A t \in Loaders : load[t] = Idle

Enumerate ==
    op = "idle" /\ Unloaded /\ Next /\ UNCHANGED <<lookupVars, loadVars>>
LookUp == Unused /\ Unloaded /\ L!Next /\ UNCHANGED <<vars, loadVars>>
Load   == Unused /\ op = "idle" /\ LoadNext /\ UNCHANGED <<vars, lookupVars>>

NssNext == Enumerate \/ LookUp \/ Load
NssSpec == NssInit /\ [][NssNext]_<<vars, lookupVars, loadVars>>

\* The modules a lookup asks answer.
FairNssSpec == NssSpec /\ Fairness /\ WF_<<vars, lookupVars, loadVars>>(LookUp)

\* See NssLookup: fan_out stops at the first module that decides, and
\* fan_out_groups is the union, in order, without repeats.
WalksAgree == L!WalksAgree

\* See NssEnum and NssLookup: the wait for an iter_lock ends, and so do
\* grow_and_call and the walks.
CallsEnd == WaitEnds /\ L!WalksReturn

\* See NssLookup: error.rs of NssStatus::NotFound and NssStatus::Success.
NotFoundNeverAnError == L!NotFoundNeverAnError
=============================================================================
