---------------------------- MODULE MCPanelStores ----------------------------
(* Instances of PanelStores for TLC. *)
EXTENDS PanelStores, TLC

\* Handlers are alike, and so are the values of a half of a key.
MCSymmetry == Permutations(Handlers) \cup Permutations(Halves)

\* Each field set, followed or turned against the environment.
MCForms == {[secure |-> TRUE, level |-> Unset], [secure |-> FALSE, level |-> "debug"],
            [secure |-> Unset, level |-> "info"]}
=============================================================================
