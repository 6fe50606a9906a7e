------------------------------- MODULE OneTime -------------------------------
(***************************************************************************)
(* What the panel promises of the things that work once - install links,   *)
(* messages for the next page: one is made for one owner, reaches that     *)
(* owner at most once, and after that, or when it lapses, is gone for good.*)
(* Several may move in one step: making one makes another lapse, one page  *)
(* takes the messages of all its cards.                                    *)
(***************************************************************************)
CONSTANTS
    Things,   \* links, messages; never made twice
    Owners,   \* whom they are for
    Nobody    \* not an owner

VARIABLES
    stage,    \* unissued, live, gone
    owner,    \* whom it was made for
    reached   \* whom it has reached

vars == <<stage, owner, reached>>

TypeOK ==
    /\ stage   \in [Things -> {"unissued", "live", "gone"}]
    /\ owner   \in [Things -> Owners \cup {Nobody}]
    /\ reached \in [Things -> Owners \cup {Nobody}]

Init ==
    /\ stage   = [t \in Things |-> "unissued"]
    /\ owner   = [t \in Things |-> Nobody]
    /\ reached = [t \in Things |-> Nobody]

Moves(t, from, to) == stage[t] = from /\ stage'[t] = to

Stays(t)   == stage'[t] = stage[t] /\ owner'[t] = owner[t] /\ reached'[t] = reached[t]
Made(t)    == Moves(t, "unissued", "live") /\ owner'[t] \in Owners /\ reached'[t] = reached[t]
Reaches(t) == Moves(t, "live", "gone") /\ owner'[t] = owner[t] /\ reached'[t] = owner[t]
Lapses(t)  == Moves(t, "live", "gone") /\ owner'[t] = owner[t] /\ reached'[t] = reached[t]

Next == \A t \in Things : Stays(t) \/ Made(t) \/ Reaches(t) \/ Lapses(t)

Spec == Init /\ [][Next]_vars
=============================================================================
