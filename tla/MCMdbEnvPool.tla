---------------------------- MODULE MCMdbEnvPool ----------------------------
(* MdbEnvPool for TLC: every identity is a model value. *)
EXTENDS MdbEnvPool

CONSTANT Stalled  \* the paths whose store may hang

LiveSpec == Spec /\ Fairness(Stalled)

\* See StallsOnlyItsPath and UnusedIsClosed in MdbEnvPool: a store that hangs
\* holds up neither the opens of another path nor the close of an environment
\* there that nobody uses.
OthersGoOn == StallsOnlyItsPath(Stalled) /\ UnusedIsClosed(Stalled)
=============================================================================
