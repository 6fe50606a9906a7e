--------------------------- MODULE MCUserPipeline ---------------------------
(***************************************************************************)
(* Instances of UserPipeline for TLC.  Handlers are interchangeable.  Users *)
(* are not declared symmetric: NoRow names one of them with CHOOSE.         *)
(***************************************************************************)
EXTENDS UserPipeline, TLC

Symmetry == Permutations(Requests)
=============================================================================
