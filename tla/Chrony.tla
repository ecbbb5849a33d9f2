-------------------------------- MODULE Chrony --------------------------------
(* The chrony client: its exchanges, its list of sources and its reply       *)
(* sockets.  They share no state: a behaviour is of one of them, so that TLC *)
(* explores the sum of their states.                                         *)
EXTENDS ChronyExchange, ChronySocket

CONSTANTS Sources, MaxSources, MaxListChanges

VARIABLES list, kinds, listChanges, next, walk, count, sources, listed

walkVars == <<list, kinds, listChanges, next, walk, count, sources, listed>>

S == INSTANCE ChronySources WITH
        Kinds <- SUBSET {"remove", "add"}, MaxChanges <- MaxListChanges,
        changes <- listChanges, at <- next, ret <- listed

ASSUME WalksAssumption == S!SourcesAssumption

ChronyInit == Init /\ S!Init /\ SocketInit

Unwalked  == walk = 0 /\ list = <<>> /\ kinds = {}
Unasked   == query = NoQuery /\ changes = 0 /\ up
Unbound   == used = {} /\ \A c \in Clients : place[c] = "out"

Ask  == Unwalked /\ Unbound /\ Next /\ UNCHANGED <<walkVars, socketVars>>
Walk == Unasked /\ Unbound /\ S!Next /\ UNCHANGED <<vars, socketVars>>
Bound == Unasked /\ Unwalked /\ SocketNext /\ UNCHANGED <<vars, walkVars>>

ChronyNext == Ask \/ Walk \/ Bound
ChronySpec == ChronyInit /\ [][ChronyNext]_<<vars, walkVars, socketVars>>
FairChronySpec == ChronySpec /\ Fairness

\* See ChronySources: Client::sources while chronyd changes its list one way.
OneWayListIsWhole == S!OneWayListIsWhole

\* See ChronyExchange and ChronySources: what a call reports, an answer or
\* Error::Changed, is so of what chronyd did during the call.
ReportsAreTrue ==
    TypeOK /\ S!TypeOK /\ AnswerIsFresh /\ S!ChangedMeansChanges

\* Client::sources: "chronyd shifts later sources down when it removes one,
\* so a walk that overlaps a change is repeated".  What is returned is
\* chronyd's list.
ReturnsTheList == S!ReturnsTheList
=============================================================================
