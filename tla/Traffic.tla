------------------------------- MODULE Traffic -------------------------------
(***************************************************************************)
(* Traffic accounting: the collector goroutine (internal/limit/collector.go)*)
(* samples charon's byte counters every period (swanctl.ListSAs,           *)
(* internal/swanctl/parser.go) and adds the differences to the totals of   *)
(* the users table (store.IncrementUserBytes).                             *)
(*                                                                         *)
(* Charon goes on while the collector works: an SA carries traffic, is     *)
(* rekeyed or goes away between two samples and while the increments of a  *)
(* sample are still to be written, one user after the other.               *)
(*                                                                         *)
(* A child SA is known by its key "<uniqueid>/<child>", so that the Sas of *)
(* this module are keys; one counter stands for bytes in and bytes out,    *)
(* which are handled alike.                                                *)
(***************************************************************************)
EXTENDS Integers, FiniteSets, Functions

CONSTANTS
    Users,      \* names of VPN users
    Sas,        \* keys of child SAs; charon may use a key again
    NoSa,       \* no SA has the key
    NoSample,   \* prevBytes has no entry for the key
    MaxBytes,   \* bound: what one counter reaches
    MaxConnects, MaxUpsets   \* bounds: SAs and rekeyings; deletions, failures and restarts

States == {"ESTABLISHED", "REKEYING", "REKEYED", "DELETING"}

ASSUME BoundsAssumption ==
    MaxBytes \in Nat /\ MaxConnects \in Nat /\ MaxUpsets \in Nat
ASSUME NamesAssumption ==
    /\ IsFiniteSet(Sas)
    /\ NoSample \notin Nat
    /\ NoSa \notin [user : Users, state : States, bytes : Nat]

VARIABLES
    sas,      \* charon: the user, state and counter of each SA
    rows,     \* the users that have a row
    total,    \* bytes_in_total + bytes_out_total
    prev,     \* Collector.prevBytes
    pending,  \* deltaByUser: the increments still to be written
    connects, upsets,   \* the bounds so far
    \* History, read by the properties only: the bytes that ought to be counted
    \* for a user; whether none of them got lost so far; the keys whose last SA
    \* went away, or started to count anew, after the last sample.
    owed, calm, unnoticed

charon    == <<sas, connects>>
table     == <<rows, total>>
collector == <<prev, pending>>
history   == <<owed, calm, unnoticed>>
vars      == <<charon, table, collector, upsets, history>>

Sa(u, state, bytes) == [user |-> u, state |-> state, bytes |-> bytes]
Zero  == [u \in Users |-> 0]

-----------------------------------------------------------------------------
(* Building blocks. *)

ActiveStatesEstablished == {"ESTABLISHED"}   \* Mutant: a rekeying SA is skipped.
ActiveStates == {"ESTABLISHED", "REKEYING"}

\* The keys of a list of SAs that the collector looks at.
Sampled(list) == {s \in Sas : list[s] # NoSa /\ list[s].state \in ActiveStates}

DeltaNoReset(old, now) == IF old = NoSample THEN now ELSE now - old   \* Mutant: no counter starts anew.
\* What a sample adds: the whole counter at first sight of a key, and when it
\* has gone down.
Delta(old, now) == IF old = NoSample \/ now < old THEN now ELSE now - old

\* Mutant: a sample once taken stays.
TrackedFirst(list) ==
    [s \in Sas |-> IF s \notin Sampled(list) THEN NoSample
                   ELSE IF prev[s] # NoSample THEN prev[s] ELSE list[s].bytes]
\* The samples after this one; keys that are gone are dropped.
Tracked(list) == [s \in Sas |-> IF s \in Sampled(list) THEN list[s].bytes ELSE NoSample]

Gathered(list) ==
    [u \in Users |-> SumFunctionOnSet(
        [s \in Sampled(list) |-> Delta(prev[s], list[s].bytes)],
        {s \in Sampled(list) : list[s].user = u})]

\* What the collector has yet to see of an SA that is still counted.
Counted(s) == sas[s] # NoSa /\ sas[s].state \in {"ESTABLISHED", "REKEYING"}
Unseen(s)  == IF prev[s] = NoSample \/ sas[s].bytes < prev[s]
              THEN sas[s].bytes ELSE sas[s].bytes - prev[s]
Ahead(u)   == LET own == {s \in Sas : Counted(s) /\ sas[s].user = u}
              IN  SumFunctionOnSet([s \in own |-> Unseen(s)], own)
\* What it will count again once its samples are gone.
Again(u)   == LET own == {s \in Sas : Counted(s) /\ sas[s].user = u}
              IN  SumFunctionOnSet([s \in own |-> sas[s].bytes - Unseen(s)], own)

Upset == upsets < MaxUpsets /\ upsets' = upsets + 1

\* Bytes of u have been lost; the history of the others stays.
Lost(u, lost) == calm' = [calm EXCEPT ![u] = @ /\ ~lost]
Owe(u, n)     == owed' = [owed EXCEPT ![u] = @ + n]

-----------------------------------------------------------------------------
(* Charon. *)

Init ==
    /\ sas = [s \in Sas |-> NoSa] /\ rows = Users /\ total = Zero
    /\ prev = [s \in Sas |-> NoSample] /\ pending = Zero
    /\ connects = 0 /\ upsets = 0
    /\ owed = Zero /\ calm = [u \in Users |-> TRUE] /\ unnoticed = {}

\* A user dials in.
Connect(s, u) ==
    /\ u \in rows /\ sas[s] = NoSa /\ connects < MaxConnects
    /\ connects' = connects + 1
    /\ sas' = [sas EXCEPT ![s] = Sa(u, "ESTABLISHED", 0)]
    /\ UNCHANGED <<table, collector, upsets, history>>

\* A byte through the tunnel.  It is lost to the total when the SA is no longer
\* counted, or when the counter catches up with the sample of a predecessor.
Carry(s) ==
    /\ sas[s] # NoSa /\ sas[s].bytes < MaxBytes
    /\ sas' = [sas EXCEPT ![s].bytes = @ + 1]
    /\ Owe(sas[s].user, 1)
    /\ Lost(sas[s].user, \/ ~Counted(s)
                         \/ s \in unnoticed /\ prev[s] # NoSample /\ sas[s].bytes + 1 >= prev[s])
    /\ UNCHANGED <<connects, table, collector, upsets, unnoticed>>

\* The IKE SA is to be rekeyed; the old SA still carries the traffic.
Rekey(s) ==
    /\ sas[s] # NoSa /\ sas[s].state = "ESTABLISHED"
    /\ sas' = [sas EXCEPT ![s].state = "REKEYING"]
    /\ UNCHANGED <<connects, table, collector, upsets, history>>

\* The new SA t takes over from s and counts from zero.
Rekeyed(s, t) ==
    /\ sas[s] # NoSa /\ sas[s].state = "REKEYING" /\ sas[t] = NoSa
    /\ connects < MaxConnects /\ connects' = connects + 1
    /\ Lost(sas[s].user, Unseen(s) > 0)
    /\ sas' = [sas EXCEPT ![s].state = "REKEYED", ![t] = Sa(sas[s].user, "ESTABLISHED", 0)]
    /\ UNCHANGED <<table, collector, upsets, owed>>
    /\ unnoticed' = unnoticed \cup {s}

\* The child SA is rekeyed: its counter starts anew under its name.
RekeyChild(s) ==
    /\ Counted(s) /\ connects < MaxConnects /\ connects' = connects + 1
    /\ Lost(sas[s].user, Unseen(s) > 0)
    /\ sas' = [sas EXCEPT ![s].bytes = 0]
    /\ unnoticed' = unnoticed \cup {s}
    /\ UNCHANGED <<table, collector, upsets, owed>>

\* The user hangs up, charon closes the SA or gives up a peer that is silent.
Close(s) ==
    /\ sas[s] # NoSa
    /\ \/ sas[s].state # "DELETING" /\ sas' = [sas EXCEPT ![s].state = "DELETING"]
       \/ sas' = [sas EXCEPT ![s] = NoSa]
    /\ Lost(sas[s].user, Counted(s) /\ Unseen(s) > 0)
    /\ unnoticed' = unnoticed \cup {s}
    /\ UNCHANGED <<connects, table, collector, upsets, owed>>

-----------------------------------------------------------------------------
(* The users table, as the handlers change it. *)

\* The row goes with its total; what is under way for the name is owed to the
\* row that may come after it.
DeleteUser(u) ==
    /\ u \in rows /\ Upset
    /\ rows' = rows \ {u} /\ total' = [total EXCEPT ![u] = 0]
    /\ owed' = [owed EXCEPT ![u] = pending[u] + Ahead(u)]
    /\ UNCHANGED <<charon, collector, calm, unnoticed>>

CreateUser(u) ==
    /\ u \notin rows /\ rows' = rows \cup {u}
    /\ UNCHANGED <<charon, total, collector, upsets, history>>

-----------------------------------------------------------------------------
(* The collector. *)

\* One sample: the list, the differences, and the samples to compare with next
\* time.  Without any SA the samples are dropped and nothing is written.
Collect ==
    /\ pending = Zero
    /\ pending' = Gathered(sas) /\ prev' = Tracked(sas)
    /\ unnoticed' = {}
    /\ UNCHANGED <<charon, table, upsets, owed, calm>>

\* Charon does not answer in time, or breaks off in the middle of the list.
CollectFails ==
    /\ pending = Zero /\ Upset
    /\ UNCHANGED <<charon, table, collector, history>>

\* A row that is gone is no error: its bytes are nobody's.
IncrementUserBytes(u) ==
    /\ pending[u] > 0 /\ pending' = [pending EXCEPT ![u] = 0]
    /\ total' = IF u \in rows THEN [total EXCEPT ![u] = @ + pending[u]] ELSE total
    /\ Lost(u, u \notin rows)
    /\ UNCHANGED <<charon, rows, prev, upsets, owed, unnoticed>>

\* The error is logged; the sample has moved on and is not taken back.
IncrementFails(u) ==
    /\ pending[u] > 0 /\ pending' = [pending EXCEPT ![u] = 0]
    /\ Upset
    /\ Lost(u, TRUE)
    /\ UNCHANGED <<charon, table, prev, owed, unnoticed>>

-----------------------------------------------------------------------------
(* Restarts.  In the image the panel is process 1 of the container that charon
   runs in; outside of it charon survives the panel. *)

Restart ==
    /\ Upset
    /\ sas' = [s \in Sas |-> NoSa]
    /\ prev' = [s \in Sas |-> NoSample] /\ pending' = Zero
    /\ calm' = [u \in Users |-> calm[u] /\ pending[u] = 0 /\ Ahead(u) = 0]
    /\ unnoticed' = {}
    /\ UNCHANGED <<connects, table, owed>>

\* The samples are lost, and every counter counts again from its start.
RestartPanel ==
    /\ Upset
    /\ prev' = [s \in Sas |-> NoSample] /\ pending' = Zero
    /\ calm' = [u \in Users |-> calm[u] /\ pending[u] = 0]
    /\ owed' = [u \in Users |-> owed[u] + Again(u)]
    /\ unnoticed' = {}
    /\ UNCHANGED <<charon, table>>

-----------------------------------------------------------------------------

Next ==
    \/ \E s \in Sas, u \in Users : Connect(s, u)
    \/ \E s \in Sas : Carry(s) \/ Rekey(s) \/ RekeyChild(s) \/ Close(s)
    \/ \E s, t \in Sas : Rekeyed(s, t)
    \/ \E u \in Users : \/ DeleteUser(u) \/ CreateUser(u)
                        \/ IncrementUserBytes(u) \/ IncrementFails(u)
    \/ Collect \/ CollectFails
    \/ Restart \/ RestartPanel

Spec == Init /\ [][Next]_vars

-----------------------------------------------------------------------------
(* Properties. *)

\* The state is well formed (users.bytes_in_total, Collector.prevBytes).
TypeOK ==
    /\ \A s \in Sas : sas[s] # NoSa =>
            sas[s] \in [user : Users, state : States, bytes : 0 .. MaxBytes]
    /\ rows \subseteq Users /\ unnoticed \subseteq Sas
    /\ total \in [Users -> Nat] /\ pending \in [Users -> Nat] /\ owed \in [Users -> Nat]
    /\ prev \in [Sas -> {NoSample} \cup 0 .. MaxBytes]
    /\ calm \in [Users -> BOOLEAN]

\* No traffic is invented: a total, with what is on its way to it and what the
\* next sample will find, never exceeds the bytes that the user's tunnels
\* carried (and those of living SAs that a restart of the panel alone makes
\* count again), through rekeying, reuse of a key, and deleted users.
NoTrafficInvented == \A u \in Users : total[u] + pending[u] + Ahead(u) <= owed[u]

\* Every byte is counted: as long as no SA of the user ended between a byte and
\* the next sample, no write of the total failed, and the row was there, the
\* total is on its way to exactly what the tunnels carried.
EveryByteIsCounted ==
    \A u \in Users : calm[u] => total[u] + pending[u] + Ahead(u) = owed[u]
=============================================================================
