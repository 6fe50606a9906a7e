------------------------------ MODULE MCDdnsSync ------------------------------
(* Instances of DdnsSync for TLC. *)
EXTENDS DdnsSync

\* The boxes ticked on the DDNS card: both, one, or none.
MCChoices == {{}, {"A"}, {"A", "AAAA"}}
=============================================================================
