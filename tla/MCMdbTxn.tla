------------------------------ MODULE MCMdbTxn ------------------------------
(* MdbTxn for TLC. *)
EXTENDS MdbTxn, TLC

Symmetry == Permutations(Threads) \cup Permutations(Values)
              \cup Permutations(Envs)
=============================================================================
