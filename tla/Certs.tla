-------------------------------- MODULE Certs --------------------------------
(***************************************************************************)
(* Certificates: what the panel and charon serve, from the first start to  *)
(* the renewals.                                                           *)
(*                                                                         *)
(* Self-signed: the panel makes a CA, a server pair and a panel pair once  *)
(* (internal/cert/generate.go) and refuses a half of a pair.  Let's        *)
(* Encrypt: the entrypoint has acme.sh put a pair in /data/le, cron runs   *)
(* renew-cert.sh, and the hook ikev2-reload.sh copies the pair for charon  *)
(* and for the panel, file by file, and sends SIGHUP; the panel then reads *)
(* its pair again (main.go reloadPanelTLSCert).                            *)
(*                                                                         *)
(* The container can be stopped at any moment; a file that is written in   *)
(* place may then be left empty.                                           *)
(***************************************************************************)
EXTENDS Integers, FiniteSets

CONSTANTS
    None,     \* no such file, nothing loaded
    Empty,    \* a file of no bytes
    MaxNew,   \* bound: pairs and keys ever made
    MaxRenewals, MaxCrashes, MaxFaults, MaxLosses   \* bounds

ASSUME BoundsAssumption ==
    /\ MaxNew \in Nat /\ MaxRenewals \in Nat /\ MaxCrashes \in Nat
    /\ MaxFaults \in Nat /\ MaxLosses \in Nat
ASSUME NamesAssumption == None # Empty /\ {None, Empty} \cap Nat = {}

Modes == {"self-signed", "letsencrypt"}
Own == {"ca", "server", "panel"}
Pairs == Own \cup {"le"}
Parts == {"cert", "key"}

VARIABLES
    disk,      \* the pairs under /data
    swan,      \* the pair under /etc/swanctl that the connection names
    charon,    \* the pair charon has loaded
    conf,      \* the mode cert.conf (or the environment) asks for
    mode,      \* the mode of this start
    pc, at,    \* the start of the container, and the pair it is at
    cur,       \* the pair in the memory of the starting panel
    served,    \* certCache
    sighup, read,   \* a signal is waiting; the certificate its handler has read
    renew,     \* renew-cert.sh
    hook,      \* ikev2-reload.sh
    flag,      \* LAST_RENEW_FAILED exists
    made, renewals, crashes, faults, losses,   \* the bounds so far
    \* History, read by the properties only: the CA in the profiles handed out
    \* (Empty once the operator has given up one that was in use); whether the hook, or a start,
    \* has gone through since /data/le last changed hands; whether the last
    \* renewal ended with the mark, and the pair before it.
    enrolled, synced, ended, prior

panel == <<pc, at, cur, served, sighup, read, mode>>
script == <<renew, hook>>
bounds == <<made, renewals, crashes, faults, losses>>
history == <<enrolled, synced, ended, prior>>
vars    == <<disk, swan, charon, conf, panel, script, flag, bounds, history>>

Pair(cert, key) == [cert |-> cert, key |-> key]
NoPair == Pair(None, None)
Renewing(st, backup, new, good, hand) ==
    [pc |-> st, backup |-> backup, new |-> new, good |-> good, hand |-> hand]
Resting == Renewing("idle", NoPair, NoPair, FALSE, FALSE)
Steps == {"off", "leaf", "key", "panel cert", "panel key", "load", "hup"}

Keys == 1..MaxNew
CertFiles == [no : 1..MaxNew, key : Keys, ca : 0..MaxNew]
PairOf == [cert : CertFiles \cup {None, Empty}, key : Keys \cup {None, Empty}]
ASSUME FilesAssumption == {None, Empty} \cap CertFiles = {}

\* A certificate has a number, the key it is for and the CA that signed it.
Cert(no, key, ca) == [no |-> no, key |-> key, ca |-> ca]
IsFile(f) == f \notin {None, Empty}
Matches(p) == IsFile(p.cert) /\ IsFile(p.key) /\ p.cert.key = p.key

-----------------------------------------------------------------------------
(* Building blocks. *)

Put(p, part, f) == disk' = [disk EXCEPT ![p] = IF part = "cert" THEN Pair(f, @.key) ELSE Pair(@.cert, f)]
Fails == faults < MaxFaults /\ faults' = faults + 1
Works == UNCHANGED faults
Exit  == pc' = "down" /\ UNCHANGED <<at, cur, served, sighup, read, mode>>

\* Mutant: half of a pair counts as no pair.
MissingHalf(p) == disk[p].cert = None \/ disk[p].key = None
Missing(p) == disk[p] = NoPair
\* The CA can sign: its certificate and its key belong together.
Signs(p) == p = "ca" \/ Matches(disk["ca"])
Whole(p) == IsFile(disk[p].cert) /\ IsFile(disk[p].key)

After(p) == CASE p = "ca" -> "server" [] p = "server" -> "panel" [] OTHER -> "serve"
Proceed(p) == IF After(p) = "serve" THEN pc' = "serve" /\ UNCHANGED at
            ELSE pc' = "look" /\ at' = After(p)

-----------------------------------------------------------------------------
(* The start of the container: the entrypoint, then the panel. *)

Start ==
    /\ pc = "down" /\ pc' = "look" /\ mode' = conf
    /\ at' = IF conf = "letsencrypt" THEN "le" ELSE "ca"
    /\ UNCHANGED <<disk, swan, charon, conf, cur, served, sighup, read, script, flag, bounds, history>>

\* EnsureCA, EnsureServerCert, EnsurePanelCert: a pair that is there is used.
LoadPair ==
    /\ pc = "look" /\ at \in Own /\ Whole(at) /\ Proceed(at)
    /\ UNCHANGED <<disk, swan, charon, conf, cur, served, sighup, read, mode, script, flag, bounds, history>>

\* A pair is made when both files are missing; a certificate is signed by the CA.
Generate ==
    /\ pc = "look" /\ at \in Own /\ Missing(at) /\ Signs(at) /\ made < MaxNew
    /\ made' = made + 1 /\ pc' = "cert"
    /\ cur' = Pair(Cert(made + 1, made + 1, IF at = "ca" THEN made + 1 ELSE disk["ca"].cert.no),
                   made + 1)
    /\ UNCHANGED <<disk, swan, charon, conf, at, served, sighup, read, mode, script, flag,
                   renewals, crashes, faults, losses, history>>

\* errInconsistentCert: half of a pair, or an empty file, stops the start; so does
\* a CA that cannot sign.
Refuse ==
    /\ pc = "look" /\ at \in Own /\ ~Whole(at) /\ (Missing(at) => ~Signs(at))
    /\ Exit /\ UNCHANGED <<disk, swan, charon, conf, script, flag, bounds, history>>

\* Certificate, then key, each written in place.
WriteCert ==
    /\ pc = "cert" /\ Put(at, "cert", cur.cert) /\ pc' = "key"
    /\ UNCHANGED <<swan, charon, conf, at, cur, served, sighup, read, mode, script, flag, bounds, history>>

WriteKey ==
    /\ pc = "key" /\ Put(at, "key", cur.key) /\ Proceed(at)
    /\ UNCHANGED <<swan, charon, conf, cur, served, sighup, read, mode, script, flag, bounds, history>>

\* The entrypoint has a pair issued when a file of it is missing, installs it for
\* charon and loads it; the panel then copies it to its own pair.
Issue ==
    /\ pc = "look" /\ at = "le" /\ None \in {disk["le"].cert, disk["le"].key}
    /\ \/ /\ made < MaxNew /\ made' = made + 1 /\ Works
          /\ cur' = Pair(Cert(made + 1, made + 1, 0), made + 1)
          /\ disk' = [disk EXCEPT !["le"] = cur']
          /\ swan' = cur' /\ charon' = cur'
          /\ pc' = "cert" /\ at' = "panel" /\ UNCHANGED <<served, sighup, read, mode>>
       \/ Fails /\ Exit /\ UNCHANGED <<disk, swan, charon, made>>
    /\ UNCHANGED <<conf, script, flag, renewals, crashes, losses, history>>

UseIssued ==
    /\ pc = "look" /\ at = "le" /\ None \notin {disk["le"].cert, disk["le"].key}
    /\ cur' = disk["le"] /\ swan' = disk["le"] /\ charon' = disk["le"]
    /\ pc' = "cert" /\ at' = "panel"
    /\ UNCHANGED <<disk, conf, served, sighup, read, mode, script, flag, bounds, history>>

\* What the panel starts with: the pair of /data/le, or the server pair, which is
\* installed for charon; the panel does not start with a pair that does not match.
Serving == IF mode = "letsencrypt" THEN cur ELSE disk["server"]
Serve ==
    /\ pc = "serve"
    /\ \/ /\ Matches(Serving) /\ pc' = "on" /\ served' = Serving
          /\ UNCHANGED <<at, cur, sighup, read, mode>>
          /\ IF mode = "self-signed"
             THEN /\ swan' = Serving /\ charon' = Serving
                  /\ enrolled' = IF enrolled = None THEN disk["ca"].cert.no ELSE enrolled
             ELSE UNCHANGED <<swan, charon, enrolled>>
          /\ synced' = TRUE /\ UNCHANGED <<ended, prior>>
       \/ ~Matches(Serving) /\ Exit /\ UNCHANGED <<swan, charon, history>>
    /\ UNCHANGED <<disk, conf, script, flag, bounds>>

-----------------------------------------------------------------------------
(* The running panel. *)

\* The certificate card: written for the next start.
SaveCertConfig(m) ==
    /\ pc = "on" /\ conf' = m
    /\ UNCHANGED <<disk, swan, charon, panel, script, flag, bounds, history>>

\* Any reload of the panel makes charon load what is installed.
ReloadAll ==
    /\ pc = "on" /\ charon' = swan
    /\ UNCHANGED <<disk, swan, conf, panel, script, flag, bounds, history>>

\* SIGHUP: certificate and key are read one after the other, and used if they
\* belong together.
ReadCert ==
    /\ pc = "on" /\ sighup /\ read = None
    /\ sighup' = FALSE /\ read' = disk["panel"].cert
    /\ UNCHANGED <<disk, swan, charon, conf, pc, at, cur, served, mode, script, flag, bounds, history>>

ReloadPanelTLSCert ==
    /\ pc = "on" /\ read # None /\ read' = None
    /\ LET found == Pair(read, disk["panel"].key)
       IN  served' = IF Matches(found) THEN found ELSE served
    /\ UNCHANGED <<disk, swan, charon, conf, pc, at, cur, sighup, mode, script, flag, bounds, history>>

-----------------------------------------------------------------------------
(* renew-cert.sh, by cron or by hand. *)

To(s) == renew' = [renew EXCEPT !.pc = s]

\* What check_days_left prints of a certificate that is good for a month, or is
\* not: the line of openssl, and the script's own.
DaysLeft(good) == <<IF good THEN "Certificate will not expire" ELSE "Certificate will expire",
                    IF good THEN "ok" ELSE "renew">>

\* Every run takes the certificate to be due, and backs the pair up.
Backup(hand) ==
    /\ \E good \in BOOLEAN : DaysLeft(good) # <<"ok">>
    /\ pc = "on" /\ mode = "letsencrypt" /\ renew.pc = "idle" /\ renewals < MaxRenewals
    /\ renewals' = renewals + 1
    /\ renew' = Renewing("acme", disk["le"], NoPair, FALSE, hand)
    /\ synced' = FALSE /\ ended' = FALSE /\ prior' = disk["le"]
    /\ UNCHANGED <<disk, swan, charon, conf, panel, hook, flag, made, crashes, faults, losses, enrolled>>

\* acme.sh: a certificate for a new key or for the old one, good for a month or
\* not, or none.
Acme ==
    /\ renew.pc = "acme"
    /\ \/ /\ made < MaxNew /\ made' = made + 1
          /\ \E key \in {made + 1, renew.backup.key}, good \in BOOLEAN :
                renew' = Renewing("acme key", renew.backup, Pair(Cert(made + 1, key, 0), key),
                                  good, renew.hand)
       \/ To("back cert") /\ UNCHANGED made
    /\ UNCHANGED <<disk, swan, charon, conf, panel, hook, flag, renewals, crashes, faults, losses, history>>

AcmeInstalls ==
    /\ \/ renew.pc = "acme key" /\ Put("le", "key", renew.new.key) /\ To("acme cert")
       \/ renew.pc = "acme cert" /\ Put("le", "cert", renew.new.cert) /\ To("hook")
    /\ UNCHANGED <<swan, charon, conf, panel, hook, flag, bounds, history>>

\* The new certificate is kept when the check prints "ok", and nothing else.
Verify ==
    /\ renew.pc = "verify"
    /\ IF DaysLeft(renew.good) = <<"ok">> THEN renew' = Resting /\ flag' = FALSE
       ELSE To("back cert") /\ UNCHANGED flag
    /\ UNCHANGED <<disk, swan, charon, conf, panel, hook, bounds, history>>

RollBackCert ==
    /\ renew.pc = "back cert" /\ Put("le", "cert", renew.backup.cert) /\ To("back key")
    /\ synced' = FALSE
    /\ UNCHANGED <<swan, charon, conf, panel, hook, flag, bounds, enrolled, ended, prior>>

RollBackKey ==
    /\ renew.pc = "back key" /\ Put("le", "key", renew.backup.key) /\ To("back hook")
    /\ UNCHANGED <<swan, charon, conf, panel, hook, flag, bounds, history>>

SetFlag ==
    /\ renew.pc = "flag" /\ renew' = Resting /\ flag' = TRUE /\ ended' = TRUE
    /\ UNCHANGED <<disk, swan, charon, conf, panel, hook, bounds, enrolled, synced, prior>>

\* A command of the script fails, and set -e ends it.
ScriptDies ==
    /\ renew.pc \in {"back cert", "back key"} /\ Fails /\ renew' = Resting
    /\ UNCHANGED <<disk, swan, charon, conf, panel, hook, flag, made, renewals, crashes, losses, history>>

-----------------------------------------------------------------------------
(* ikev2-reload.sh, at the end of acme.sh and of a rollback. *)

\* acme.sh may or may not report what became of the hook; a rollback does not ask.
Returns(ok) ==
    /\ hook' = "off"
    /\ \/ renew.pc = "back hook" /\ To("flag")
       \/ renew.pc = "hook" /\ To("verify")
       \/ renew.pc = "hook" /\ ~ok /\ To("back cert")

\* Mutant: the hook is left running in the background.
HookStartsInBackground ==
    /\ renew.pc \in {"hook", "back hook"} /\ hook = "off" /\ renew.hand
    /\ hook' = "leaf" /\ To(IF renew.pc = "hook" THEN "verify" ELSE "flag")
    /\ UNCHANGED <<disk, swan, charon, conf, panel, flag, bounds, history>>
HookStarts ==
    /\ renew.pc \in {"hook", "back hook"} /\ hook = "off" /\ renew.hand
    /\ hook' = "leaf"
    /\ UNCHANGED <<disk, swan, charon, conf, panel, renew, flag, bounds, history>>

\* Cron hands no IKEV2_DOMAIN down: the hook ends before it has done anything.
HookRefuses ==
    /\ renew.pc \in {"hook", "back hook"} /\ hook = "off" /\ ~renew.hand /\ Returns(FALSE)
    /\ UNCHANGED <<disk, swan, charon, conf, panel, flag, bounds, history>>

\* Leaf and key for charon, certificate and key for the panel, each renamed into
\* place.
HookCopies ==
    /\ \/ hook = "leaf" /\ hook' = "key" /\ swan' = Pair(disk["le"].cert, swan.key)
          /\ UNCHANGED disk
       \/ hook = "key" /\ hook' = "panel cert" /\ swan' = Pair(swan.cert, disk["le"].key)
          /\ UNCHANGED disk
       \/ hook = "panel cert" /\ hook' = "panel key" /\ Put("panel", "cert", disk["le"].cert)
          /\ UNCHANGED swan
       \/ hook = "panel key" /\ hook' = "load" /\ Put("panel", "key", disk["le"].key)
          /\ UNCHANGED swan
    /\ UNCHANGED <<charon, conf, panel, renew, flag, bounds, history>>

\* swanctl --load-creds, whose failure is passed over.
LoadCreds ==
    /\ hook = "load" /\ hook' = "hup"
    /\ \/ Works /\ charon' = swan
       \/ Fails /\ UNCHANGED charon
    /\ UNCHANGED <<disk, swan, conf, panel, renew, flag, made, renewals, crashes, losses, history>>

\* Mutant: a signal that comes while the handler is reading is lost.
SendHupUnbuffered ==
    /\ hook = "hup" /\ sighup' = (sighup \/ read = None) /\ synced' = (charon = swan) /\ Returns(TRUE)
    /\ UNCHANGED <<disk, swan, charon, conf, pc, at, cur, served, read, mode, flag, bounds,
                   enrolled, ended, prior>>
\* The signal is kept while one is being handled (a channel of one).
SendHup ==
    /\ hook = "hup" /\ sighup' = TRUE /\ synced' = (charon = swan) /\ Returns(TRUE)
    /\ UNCHANGED <<disk, swan, charon, conf, pc, at, cur, served, read, mode, flag, bounds,
                   enrolled, ended, prior>>

\* A copy fails, and set -e ends the hook.
HookFails ==
    /\ hook \notin {"off", "load", "hup"} /\ Fails /\ Returns(FALSE)
    /\ UNCHANGED <<disk, swan, charon, conf, panel, flag, made, renewals, crashes, losses, history>>

-----------------------------------------------------------------------------
(* Stops, and what the operator does to the files. *)

\* The files that are being written in place.
Writing ==
    (IF pc \in {"cert", "key"} THEN {<<at, pc>>} ELSE {}) \cup
    (CASE renew.pc \in {"acme key", "back key"}   -> {<<"le", "key">>}
       [] renew.pc \in {"acme cert", "back cert"} -> {<<"le", "cert">>}
       [] OTHER -> {})

Crash ==
    /\ pc # "down" /\ crashes < MaxCrashes /\ crashes' = crashes + 1
    /\ \/ UNCHANGED disk
       \/ \E w \in Writing : Put(w[1], w[2], Empty)
    /\ pc' = "down" /\ served' = None /\ sighup' = FALSE /\ read' = None
    /\ charon' = NoPair /\ renew' = Resting /\ hook' = "off"
    /\ ended' = (ended /\ renew.pc = "idle")
    /\ UNCHANGED <<swan, conf, at, cur, mode, flag, made, renewals, faults, losses,
                   enrolled, synced, prior>>

\* A move to another machine leaves a file of a pair behind.
LoseFile(p, part) ==
    /\ pc = "down" /\ losses < MaxLosses /\ losses' = losses + 1
    /\ Whole(p) /\ Put(p, part, None)
    /\ UNCHANGED <<swan, charon, conf, panel, script, flag, made, renewals, crashes, faults, history>>

\* The operator follows the message and removes the rest of the pair, having told
\* every user, when it is the CA, that the profile is to be installed anew.
RemovePair(p) ==
    /\ pc = "down" /\ ~Missing(p) /\ ~Whole(p)
    /\ disk' = [disk EXCEPT ![p] = NoPair]
    /\ enrolled' = IF p = "ca" /\ (enrolled # None \/ ~Missing("server"))
                   THEN Empty ELSE enrolled
    /\ UNCHANGED <<swan, charon, conf, panel, script, flag, bounds, synced, ended, prior>>

-----------------------------------------------------------------------------

Init ==
    /\ disk = [p \in Pairs |-> NoPair] /\ swan = NoPair /\ charon = NoPair
    /\ conf \in Modes /\ mode = "self-signed"
    /\ pc = "down" /\ at = "ca" /\ cur = NoPair /\ served = None
    /\ sighup = FALSE /\ read = None /\ renew = Resting /\ hook = "off" /\ flag = FALSE
    /\ made = 0 /\ renewals = 0 /\ crashes = 0 /\ faults = 0 /\ losses = 0
    /\ enrolled = None /\ synced = FALSE /\ ended = FALSE /\ prior = NoPair

StartUp == Start \/ LoadPair \/ Generate \/ Refuse \/ WriteCert \/ WriteKey
            \/ Issue \/ UseIssued \/ Serve
Running == (\E m \in Modes : SaveCertConfig(m)) \/ ReloadAll \/ ReadCert \/ ReloadPanelTLSCert
Renewal == (\E hand \in BOOLEAN : Backup(hand)) \/ Acme \/ AcmeInstalls \/ Verify
            \/ RollBackCert \/ RollBackKey \/ SetFlag \/ ScriptDies
Hook == HookStarts \/ HookRefuses \/ HookCopies \/ LoadCreds \/ SendHup \/ HookFails
Operator == (\E p \in {"ca", "server"}, part \in Parts : LoseFile(p, part))
            \/ (\E p \in Own : RemovePair(p))

Next == StartUp \/ Running \/ Renewal \/ Hook \/ Crash \/ Operator
Spec == Init /\ [][Next]_vars

-----------------------------------------------------------------------------
(* Properties. *)

\* The values of the variables; the hook runs for a renewal or a rollback that waits.
TypeOK ==
    /\ disk \in [Pairs -> PairOf] /\ swan \in PairOf /\ charon \in PairOf
    /\ conf \in Modes /\ mode \in Modes
    /\ pc \in {"down", "look", "cert", "key", "serve", "on"} /\ at \in Pairs
    /\ cur \in PairOf /\ served \in PairOf \cup {None}
    /\ sighup \in BOOLEAN /\ read \in CertFiles \cup {None, Empty}
    /\ renew.pc \in {"idle", "acme", "acme key", "acme cert", "hook", "verify",
                     "back cert", "back key", "back hook", "flag"}
    /\ renew.backup \in PairOf /\ renew.new \in PairOf
    /\ renew.good \in BOOLEAN /\ renew.hand \in BOOLEAN
    /\ hook \in Steps /\ flag \in BOOLEAN
    /\ hook # "off" => renew.pc \in {"hook", "back hook"}
    /\ made <= MaxNew /\ renewals <= MaxRenewals /\ crashes <= MaxCrashes
    /\ faults <= MaxFaults /\ losses <= MaxLosses
    /\ enrolled \in Keys \cup {None, Empty} /\ synced \in BOOLEAN
    /\ ended \in BOOLEAN /\ prior \in PairOf

\* The CA in the profiles stays the one the running panel signs with and the one
\* its server pair was signed by, over interrupted first starts, files left
\* behind and switches to Let's Encrypt and back, until the operator gives it up
\* (errInconsistentCert, generate.go:32-35: a CA made anew cuts every client off).
EnrolledCaStays ==
    pc = "on" /\ mode = "self-signed" /\ enrolled # Empty =>
        disk["ca"].cert.no = enrolled /\ served.cert.ca = enrolled

\* A renewal that ended with the mark has put the whole pair from before back
\* (renew-cert.sh:67-77).
OutcomeIsOnDisk == ended => flag /\ disk["le"] = prior

\* What is served is always a pair, and once the hook has gone through and the
\* signal is handled, the panel and charon serve the pair in /data/le, although the
\* hook may run again while the handler reads (ikev2-reload.sh, main.go:1013-1034).
\* A rollback that died half way leaves no pair there, and the next one backs that up.
ServedFollowsDisk ==
    /\ served # None => Matches(served)
    /\ /\ pc = "on" /\ mode = "letsencrypt" /\ renew.pc = "idle" /\ hook = "off"
       /\ ~sighup /\ read = None /\ synced /\ Matches(disk["le"])
       => \A p \in {served, charon, disk["panel"]} : p = disk["le"]

\* A renewal settles: its mark, the disk, the panel and charon come to agree.
RenewalSettles == OutcomeIsOnDisk /\ ServedFollowsDisk

\* A certificate that is good for a month is kept (renew-cert.sh:8-10).
GoodRenewalsStay == [][renew.pc = "verify" /\ renew.good => renew'.pc # "back cert"]_vars
=============================================================================
