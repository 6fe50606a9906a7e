----------------------------- MODULE MCProfiles -----------------------------
(* Instances of Profiles for TLC. *)
EXTENDS Profiles, TLC

\* Users, tokens, messages, sessions and handlers are alike.
MCSymmetry == Permutations(Users) \cup Permutations(Tokens) \cup Permutations(Messages)
              \cup Permutations(Sessions) \cup Permutations(Handlers)

\* Nothing; a refused value; the home rule with and without its network;
\* manual left to the defaults; On-Demand switched on; a name.
MCForms == {
    [name |-> Unset, demand |-> Unset, rule |-> Unset,    ssid |-> Unset],
    [name |-> Bad,   demand |-> Unset, rule |-> Unset,    ssid |-> Unset],
    [name |-> Unset, demand |-> TRUE,  rule |-> "home",   ssid |-> "ssid"],
    [name |-> Unset, demand |-> TRUE,  rule |-> "home",   ssid |-> Unset],
    [name |-> "own", demand |-> FALSE, rule |-> "manual", ssid |-> Unset]}
=============================================================================
