------------------------------ MODULE MCChrony ------------------------------
(* The chrony client for TLC, with the formats of ChronyWire, which have no  *)
(* state.                                                                    *)
EXTENDS Chrony

\* Two arguments of one command, and another command.
MCQueries ==
    {[command |-> "source_data", argument |-> n] : n \in {0, 1}}
        \cup {[command |-> "tracking", argument |-> 0]}
OneQuery == {[command |-> "tracking", argument |-> 0]}

B == INSTANCE ChronyWire WITH Bits <- 8, Exponent <- 3, MAX_NSEC <- 9

\* See ChronyWire: the requests, the layouts, the scalars and addresses.
ASSUME WireIsRead ==
    /\ B!LayoutsFill /\ B!RequestsFit /\ B!AnswersAreReplies
    /\ B!FloatsAreExact /\ B!TimesInOrder /\ B!AddressesAreExact
=============================================================================
