------------------------------ MODULE MCTraffic ------------------------------
(* Instances of Traffic for TLC. *)
EXTENDS Traffic, TLC

\* Users are alike, and so are the keys of SAs.
MCSymmetry == Permutations(Users) \cup Permutations(Sas)
=============================================================================
