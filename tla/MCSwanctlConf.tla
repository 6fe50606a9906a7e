---------------------------- MODULE MCSwanctlConf ----------------------------
(* Instances of SwanctlConf for TLC. *)
EXTENDS SwanctlConf, TLC

\* For the runs that check no liveness property.
Symmetry == Permutations(Handlers)
=============================================================================
