------------------------------- MODULE MCLogin -------------------------------
(* Instances of Login for TLC. *)
EXTENDS Login, TLC

\* Requests are alike, and so are the clients.
MCSymmetry == Permutations(Requests) \cup Permutations(Clients)
=============================================================================
