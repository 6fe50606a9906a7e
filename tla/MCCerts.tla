------------------------------- MODULE MCCerts -------------------------------
(***************************************************************************)
(* Certs on a small instance.  The bounds are in the configuration; pairs  *)
(* are numbered in the order they are made, so there is no symmetry.       *)
(***************************************************************************)
EXTENDS Certs
=============================================================================
