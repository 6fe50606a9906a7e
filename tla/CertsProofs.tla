------------------------------ MODULE CertsProofs ------------------------------
(***************************************************************************)
(* Proofs about Certs, for every bound on pairs, renewals, stops, failed   *)
(* commands and lost files.  TLC finds the same invariants true on         *)
(* MCCerts.                                                                *)
(***************************************************************************)
EXTENDS Certs, TLAPS

-----------------------------------------------------------------------------
(* Types. *)

Files == CertFiles \cup {None, Empty}
KeyFiles == Keys \cup {None, Empty}
RenewPCs == {"idle", "acme", "acme key", "acme cert", "hook", "verify",
             "back cert", "back key", "back hook", "flag"}
Renewals == [pc : RenewPCs, backup : PairOf, new : PairOf, good : BOOLEAN, hand : BOOLEAN]

DiskTypes == disk \in [Pairs -> PairOf] /\ swan \in PairOf /\ charon \in PairOf
StartTypes ==
    /\ conf \in Modes /\ mode \in Modes
    /\ pc \in {"down", "look", "cert", "key", "serve", "on"} /\ at \in Pairs
    /\ cur \in PairOf /\ served \in PairOf \cup {None}
    /\ sighup \in BOOLEAN /\ read \in Files
RenewTypes ==
    /\ renew \in Renewals /\ hook \in Steps /\ flag \in BOOLEAN
    /\ hook # "off" => renew.pc \in {"hook", "back hook"}
BoundTypes ==
    /\ made \in 0..MaxNew /\ renewals \in 0..MaxRenewals /\ crashes \in 0..MaxCrashes
    /\ faults \in 0..MaxFaults /\ losses \in 0..MaxLosses
HistoryTypes ==
    /\ enrolled \in Keys \cup {None, Empty} /\ synced \in BOOLEAN
    /\ ended \in BOOLEAN /\ prior \in PairOf
TypeInv == DiskTypes /\ StartTypes /\ RenewTypes /\ BoundTypes /\ HistoryTypes

-----------------------------------------------------------------------------
(* The start. *)

\* Renewals, hooks and signals are of a running panel with Let's Encrypt.
QuietInv ==
    renew.pc # "idle" \/ hook # "off" \/ sighup \/ read # None =>
        pc = "on" /\ mode = "letsencrypt"

\* Which pair a start is at, and that it has a CA once it is past it.
StartInv ==
    /\ mode = "letsencrypt" => /\ pc = "look" => at = "le"
                               /\ pc \in {"cert", "key"} => at = "panel"
    /\ mode = "self-signed" =>
         /\ pc \in {"look", "cert", "key"} => at \in Own
         /\ pc \in {"cert", "key"} => cur.cert \in CertFiles /\ cur.key \in Keys
         /\ pc \in {"serve", "on"} \/ (pc \in {"look", "cert", "key"} /\ at # "ca") => Whole("ca")
         /\ pc = "key" /\ at = "ca" => disk["ca"].cert = cur.cert

-----------------------------------------------------------------------------
(* The CA in the profiles. *)

\* Until the operator gives it up: the server pair was signed by the CA that is
\* there, the CA in the profiles is there or half of it is, and a CA is made only
\* when neither is.
EnrolInv ==
    enrolled # Empty =>
        /\ IsFile(disk["server"].cert) =>
             /\ ~Missing("ca")
             /\ IsFile(disk["ca"].cert) => disk["server"].cert.ca = disk["ca"].cert.no
        /\ enrolled # None => /\ ~Missing("ca")
                              /\ IsFile(disk["ca"].cert) => disk["ca"].cert.no = enrolled
        /\ mode = "self-signed" /\ pc = "cert" =>
             /\ at = "ca" => enrolled = None /\ ~IsFile(disk["server"].cert)
             /\ at = "server" => cur.cert.ca = disk["ca"].cert.no
        /\ mode = "self-signed" /\ pc = "on" =>
             disk["ca"].cert.no = enrolled /\ served.cert.ca = enrolled

-----------------------------------------------------------------------------
(* Renewals. *)

LeWhole == IsFile(disk["le"].cert) /\ IsFile(disk["le"].key)

\* A renewal has the pair from before, and at its mark that pair is back.
OutcomeInv ==
    /\ pc = "on" /\ mode = "letsencrypt" => LeWhole
    /\ renew.pc # "idle" => /\ prior = renew.backup /\ ~ended
                            /\ IsFile(renew.backup.cert) /\ IsFile(renew.backup.key)
    /\ renew.pc \in {"acme key", "acme cert"} => IsFile(renew.new.cert) /\ IsFile(renew.new.key)
    /\ renew.pc = "back key" => disk["le"].cert = renew.backup.cert
    /\ renew.pc \in {"back hook", "flag"} => disk["le"] = renew.backup
    /\ ended => flag /\ disk["le"] = prior /\ LeWhole

\* The panel has the pair, or is about to: a signal waits, or the handler has read
\* the certificate, or has used the pair if it is one.
Noticed ==
    \/ sighup
    \/ read # None /\ read = disk["panel"].cert
    \/ read = None /\ (Matches(disk["panel"]) => served = disk["panel"])

\* How far a start or the hook has brought the pair of /data/le; it is everywhere
\* while it is synced.
AgreeInv ==
    /\ served # None => Matches(served)
    /\ mode = "letsencrypt" /\ pc \in {"cert", "key", "serve"} =>
         /\ cur = disk["le"] /\ swan = disk["le"] /\ charon = disk["le"]
         /\ pc = "key" => disk["panel"].cert = cur.cert
         /\ pc = "serve" => disk["panel"] = cur
    /\ hook = "key" => swan.cert = disk["le"].cert
    /\ hook \in {"panel cert", "panel key", "load", "hup"} => swan = disk["le"]
    /\ hook = "panel key" => disk["panel"].cert = disk["le"].cert
    /\ hook \in {"load", "hup"} => disk["panel"] = disk["le"]
    /\ pc = "on" /\ mode = "letsencrypt" /\ synced =>
         /\ renew.pc \in {"idle", "verify", "back cert", "flag"} /\ Noticed
         /\ swan = disk["le"] /\ charon = disk["le"] /\ disk["panel"] = disk["le"]

-----------------------------------------------------------------------------
(* Proofs: types. *)

\* Pairs are made of files, and come apart into them.
LEMMA PairsTyped ==
  /\ \A c \in Files, k \in KeyFiles : Pair(c, k) \in PairOf
  /\ \A p \in PairOf : p.cert \in Files /\ p.key \in KeyFiles /\ p = Pair(p.cert, p.key)
  /\ \A c, k : Pair(c, k).cert = c /\ Pair(c, k).key = k
  /\ NoPair \in PairOf /\ NoPair.cert = None /\ NoPair.key = None
BY DEF Pair, PairOf, Files, KeyFiles, NoPair

\* A file has bytes, and everything else does not.
LEMMA FilesAre ==
  /\ \A c \in CertFiles : IsFile(c)
  /\ \A k \in Keys : IsFile(k)
  /\ \A c \in Files : IsFile(c) => c \in CertFiles
  /\ \A k \in KeyFiles : IsFile(k) => k \in Keys
  /\ ~IsFile(None) /\ ~IsFile(Empty) /\ None # Empty
<1>1. Keys \subseteq Nat
  BY BoundsAssumption DEF Keys
<1> QED
  BY <1>1, NamesAssumption, FilesAssumption DEF IsFile, Files, KeyFiles

\* Renewals are well formed, and go from place to place with what they have.
LEMMA RenewalsTyped ==
  /\ \A s \in RenewPCs, b, n \in PairOf, g, m \in BOOLEAN : Renewing(s, b, n, g, m) \in Renewals
  /\ \A s, b, n, g, m : /\ Renewing(s, b, n, g, m).pc = s /\ Renewing(s, b, n, g, m).backup = b
                        /\ Renewing(s, b, n, g, m).new = n
  /\ Resting \in Renewals /\ Resting.pc = "idle"
<1>1. \A s \in RenewPCs, b, n \in PairOf, g, m \in BOOLEAN : Renewing(s, b, n, g, m) \in Renewals
  BY DEF Renewing, Renewals
<1>2. Resting \in Renewals /\ Resting.pc = "idle"
  BY PairsTyped DEF Resting, Renewing, Renewals, RenewPCs
<1> QED
  BY <1>1, <1>2 DEF Renewing

\* Moving a renewal changes its place only.
Moved(s) ==
    /\ renew' \in Renewals /\ renew'.pc = s /\ renew'.backup = renew.backup /\ renew'.new = renew.new

\* To is that move, and so is the return of the hook.
LEMMA Moves ==
  ASSUME TypeInv
  PROVE  /\ \A s \in RenewPCs : To(s) => Moved(s)
         /\ \A ok : Returns(ok) =>
              /\ hook' = "off"
              /\ \/ renew.pc = "back hook" /\ Moved("flag")
                 \/ renew.pc = "hook" /\ (Moved("verify") \/ Moved("back cert"))
<1>1. \A s \in RenewPCs : To(s) => Moved(s)
  BY DEF To, Moved, Renewals, TypeInv, RenewTypes
<1>2. ASSUME NEW ok, Returns(ok)
      PROVE  /\ hook' = "off"
             /\ \/ renew.pc = "back hook" /\ Moved("flag")
                \/ renew.pc = "hook" /\ (Moved("verify") \/ Moved("back cert"))
  <2>1. "flag" \in RenewPCs /\ "verify" \in RenewPCs /\ "back cert" \in RenewPCs
    BY DEF RenewPCs
  <2> QED
    BY <1>1, <1>2, <2>1 DEF Returns
<1> QED
  BY <1>1, <1>2

\* What is on the disk.
LEMMA DiskTyped ==
  ASSUME TypeInv
  PROVE  /\ disk \in [Pairs -> PairOf] /\ swan \in PairOf /\ charon \in PairOf /\ cur \in PairOf
         /\ \A p \in Pairs : disk[p] \in PairOf /\ disk[p].cert \in Files /\ disk[p].key \in KeyFiles
         /\ renew.backup \in PairOf /\ renew.new \in PairOf
         /\ "le" \in Pairs /\ "panel" \in Pairs /\ "ca" \in Pairs /\ "server" \in Pairs
BY PairsTyped DEF TypeInv, DiskTypes, StartTypes, RenewTypes, Renewals, Pairs, Own

\* Putting a file changes it and no other.
LEMMA Puts ==
  ASSUME TypeInv, NEW p \in Pairs
  PROVE  /\ \A f : Put(p, "cert", f) =>
              /\ disk'[p] = Pair(f, disk[p].key)
              /\ \A q \in Pairs \ {p} : disk'[q] = disk[q]
              /\ f \in Files => disk' \in [Pairs -> PairOf]
         /\ \A f : Put(p, "key", f) =>
              /\ disk'[p] = Pair(disk[p].cert, f)
              /\ \A q \in Pairs \ {p} : disk'[q] = disk[q]
              /\ f \in KeyFiles => disk' \in [Pairs -> PairOf]
<1>1. ASSUME NEW f, Put(p, "cert", f)
      PROVE  /\ disk'[p] = Pair(f, disk[p].key)
             /\ \A q \in Pairs \ {p} : disk'[q] = disk[q]
             /\ f \in Files => disk' \in [Pairs -> PairOf]
  <2>1. disk' = [disk EXCEPT ![p] = Pair(f, disk[p].key)]
    BY <1>1 DEF Put
  <2> QED
    BY <2>1, DiskTyped, PairsTyped
<1>2. ASSUME NEW f, Put(p, "key", f)
      PROVE  /\ disk'[p] = Pair(disk[p].cert, f)
             /\ \A q \in Pairs \ {p} : disk'[q] = disk[q]
             /\ f \in KeyFiles => disk' \in [Pairs -> PairOf]
  <2>1. disk' = [disk EXCEPT ![p] = Pair(disk[p].cert, f)]
    BY <1>2 DEF Put
  <2> QED
    BY <2>1, DiskTyped, PairsTyped
<1> QED
  BY <1>1, <1>2

\* One more pair, renewal, stop, failure or loss is within the bound.
LEMMA Counting ==
  ASSUME TypeInv
  PROVE  /\ made < MaxNew => made + 1 \in 0..MaxNew /\ made + 1 \in Keys
         /\ renewals < MaxRenewals => renewals + 1 \in 0..MaxRenewals
         /\ crashes < MaxCrashes => crashes + 1 \in 0..MaxCrashes
         /\ losses < MaxLosses => losses + 1 \in 0..MaxLosses
         /\ Works \/ Fails => faults' \in 0..MaxFaults
BY BoundsAssumption DEF TypeInv, BoundTypes, Works, Fails, Keys

\* The pair that a start makes.
LEMMA MadeTyped ==
  ASSUME TypeInv, made < MaxNew
  PROVE  /\ \A ca \in 0..MaxNew : Cert(made + 1, made + 1, ca) \in CertFiles
         /\ \A ca \in 0..MaxNew : Pair(Cert(made + 1, made + 1, ca), made + 1) \in PairOf
         /\ \A k \in Keys : Cert(made + 1, k, 0) \in CertFiles
<1>1. made + 1 \in 1..MaxNew /\ 0 \in 0..MaxNew /\ Keys = 1..MaxNew
  BY Counting, BoundsAssumption DEF Keys
<1>2. /\ \A ca \in 0..MaxNew : Cert(made + 1, made + 1, ca) \in CertFiles
      /\ \A k \in Keys : Cert(made + 1, k, 0) \in CertFiles
  BY <1>1 DEF Cert, CertFiles
<1> QED
  BY <1>1, <1>2, PairsTyped DEF Files, KeyFiles

\* Where a start goes on.
LEMMA Proceeds ==
  ASSUME NEW p \in Own, Proceed(p)
  PROVE  /\ p = "ca" => pc' = "look" /\ at' = "server"
         /\ p = "server" => pc' = "look" /\ at' = "panel"
         /\ p = "panel" => pc' = "serve" /\ at' = at
BY DEF Proceed, After, Own

\* Types of what a step leaves alone.
LEMMA TypesKept ==
  ASSUME TypeInv
  PROVE  /\ disk' = disk /\ swan' = swan /\ charon' = charon => DiskTypes'
         /\ conf' = conf /\ panel' = panel => StartTypes'
         /\ script' = script /\ flag' = flag => RenewTypes'
         /\ bounds' = bounds => BoundTypes'
         /\ history' = history => HistoryTypes'
<1>1. conf' = conf /\ panel' = panel => StartTypes'
  BY DEF TypeInv, StartTypes, panel
<1>2. script' = script /\ flag' = flag => RenewTypes'
  BY DEF TypeInv, RenewTypes, script
<1>3. bounds' = bounds => BoundTypes'
  BY DEF TypeInv, BoundTypes, bounds
<1>4. history' = history => HistoryTypes'
  BY DEF TypeInv, HistoryTypes, history
<1> QED
  BY <1>1, <1>2, <1>3, <1>4 DEF TypeInv, DiskTypes

\* The places of the container.
PCs == {"down", "look", "cert", "key", "serve", "on"}

\* Making and reading pairs keeps the types.
LEMMA StartTyped ==
  ASSUME TypeInv, StartInv, Start \/ LoadPair \/ Generate \/ Refuse \/ WriteCert \/ WriteKey
  PROVE  TypeInv'
<1>0. /\ at \in Pairs /\ conf \in Modes /\ mode \in Modes /\ cur \in PairOf /\ cur.cert \in Files
      /\ cur.key \in KeyFiles /\ Own \subseteq Pairs /\ \A p \in Own : After(p) \in Pairs \cup {"serve"}
      /\ pc \in PCs /\ "le" \in Pairs /\ "ca" \in Pairs
  BY PairsTyped, DiskTyped DEF TypeInv, StartTypes, Pairs, Own, After, PCs
<1>1. CASE Start
  <2>1. StartTypes'
    BY <1>0, <1>1 DEF Start, StartTypes, TypeInv
  <2> QED
    BY <1>1, <2>1, TypesKept DEF Start, TypeInv
<1>2. CASE LoadPair \/ WriteKey
  <2>0. at \in Own
    BY <1>0, <1>2 DEF LoadPair, WriteKey, StartInv, Modes, Own
  <2>1. pc' \in PCs /\ at' \in Pairs
    BY <1>0, <1>2, <2>0 DEF LoadPair, WriteKey, Proceed, PCs
  <2>2. StartTypes'
    BY <1>2, <2>1 DEF LoadPair, WriteKey, StartTypes, TypeInv, PCs
  <2>3. disk' \in [Pairs -> PairOf] /\ swan' = swan /\ charon' = charon
    BY <1>0, <1>2, DiskTyped, Puts DEF LoadPair, WriteKey, Parts
  <2> QED
    BY <1>2, <2>2, <2>3, TypesKept DEF LoadPair, WriteKey, TypeInv, DiskTypes
<1>3. CASE Generate
  <2>1. made' \in 0..MaxNew
    BY <1>3, Counting DEF Generate
  <2>2. cur' \in PairOf
    <3>1. at # "ca" => disk["ca"].cert.no \in 0..MaxNew
      <4>1. at # "ca" => disk["ca"].cert \in CertFiles
        BY <1>3, DiskTyped, FilesAre DEF Generate, Signs, Matches
      <4> QED
        BY <4>1, BoundsAssumption DEF CertFiles
    <3>2. made + 1 \in 0..MaxNew
      BY <1>3, Counting DEF Generate
    <3> QED
      BY <1>3, <3>1, <3>2, MadeTyped DEF Generate
  <2>3. StartTypes'
    BY <1>3, <2>2 DEF Generate, StartTypes, TypeInv
  <2>4. BoundTypes'
    BY <1>3, <2>1 DEF Generate, BoundTypes, TypeInv
  <2> QED
    BY <1>3, <2>3, <2>4, TypesKept DEF Generate, TypeInv
<1>4. CASE Refuse
  <2>1. StartTypes'
    BY <1>4 DEF Refuse, Exit, StartTypes, TypeInv
  <2> QED
    BY <1>4, <2>1, TypesKept DEF Refuse, TypeInv
<1>5. CASE WriteCert
  <2>1. disk' \in [Pairs -> PairOf] /\ swan' = swan /\ charon' = charon
    <3>1. Put(at, "cert", cur.cert) /\ "cert" \in Parts
      BY <1>5 DEF WriteCert, Parts
    <3>2. at \in Pairs /\ cur.cert \in Files
      BY <1>0
    <3>3. disk' \in [Pairs -> PairOf]
      BY <3>1, <3>2, Puts
    <3> QED
      BY <1>5, <3>3 DEF WriteCert
  <2>2. StartTypes'
    BY <1>5 DEF WriteCert, StartTypes, TypeInv
  <2> QED
    BY <1>5, <2>1, <2>2, TypesKept DEF WriteCert, TypeInv, DiskTypes
<1> QED
  BY <1>1, <1>2, <1>3, <1>4, <1>5

\* A pair from /data/le, and what the panel starts with, keeps the types.
LEMMA ServeTyped ==
  ASSUME TypeInv, StartInv, Issue \/ UseIssued \/ Serve
  PROVE  TypeInv'
<1>1. CASE Issue
  <2>1. CASE Fails /\ Exit /\ UNCHANGED <<disk, swan, charon, made>>
    <3>1. StartTypes'
      BY <1>1, <2>1 DEF Issue, Exit, StartTypes, TypeInv
    <3>2. BoundTypes'
      BY <1>1, <2>1, Counting DEF Issue, BoundTypes, TypeInv
    <3> QED
      BY <1>1, <2>1, <3>1, <3>2, TypesKept DEF Issue, TypeInv
  <2>2. CASE ~(Fails /\ Exit /\ UNCHANGED <<disk, swan, charon, made>>)
    <3>1. /\ made < MaxNew /\ made' = made + 1 /\ Works
          /\ cur' = Pair(Cert(made + 1, made + 1, 0), made + 1)
          /\ disk' = [disk EXCEPT !["le"] = cur'] /\ swan' = cur' /\ charon' = cur'
          /\ pc' = "cert" /\ at' = "panel" /\ UNCHANGED <<served, sighup, read, mode>>
      BY <1>1, <2>2 DEF Issue
    <3>2. cur' \in PairOf /\ made' \in 0..MaxNew /\ at' \in Pairs
      BY <3>1, MadeTyped, Counting, BoundsAssumption, DiskTyped
    <3>3. DiskTypes'
      BY <3>1, <3>2, DiskTyped DEF DiskTypes
    <3>4. StartTypes'
      BY <1>1, <3>1, <3>2 DEF Issue, StartTypes, TypeInv
    <3>5. BoundTypes'
      BY <1>1, <3>1, <3>2, Counting DEF Issue, BoundTypes, TypeInv
    <3> QED
      BY <1>1, <3>3, <3>4, <3>5, TypesKept DEF Issue, TypeInv
  <2> QED
    BY <2>1, <2>2
<1>2. CASE UseIssued
  <2>1. disk["le"] \in PairOf /\ "panel" \in Pairs
    BY DiskTyped
  <2>2. StartTypes'
    BY <1>2, <2>1 DEF UseIssued, StartTypes, TypeInv
  <2>3. DiskTypes'
    BY <1>2, <2>1 DEF UseIssued, DiskTypes, TypeInv
  <2> QED
    BY <1>2, <2>2, <2>3, TypesKept DEF UseIssued, TypeInv
<1>3. CASE Serve
  <2>1. Serving \in PairOf
    BY DiskTyped DEF Serving
  <2>2. CASE ~Matches(Serving) /\ Exit /\ UNCHANGED <<swan, charon, history>>
    <3>1. StartTypes'
      BY <1>3, <2>2 DEF Serve, Exit, StartTypes, TypeInv
    <3> QED
      BY <1>3, <2>2, <3>1, TypesKept DEF Serve, TypeInv
  <2>3. CASE ~(~Matches(Serving) /\ Exit /\ UNCHANGED <<swan, charon, history>>)
    <3>1. /\ pc' = "on" /\ served' = Serving /\ UNCHANGED <<at, cur, sighup, read, mode, ended, prior>>
          /\ IF mode = "self-signed"
             THEN /\ swan' = Serving /\ charon' = Serving
                  /\ enrolled' = IF enrolled = None THEN disk["ca"].cert.no ELSE enrolled
             ELSE UNCHANGED <<swan, charon, enrolled>>
          /\ synced' = TRUE
      BY <1>3, <2>3 DEF Serve
    <3>2. mode = "self-signed" => disk["ca"].cert.no \in Keys
      <4>1. mode = "self-signed" => disk["ca"].cert \in CertFiles
        BY <1>3, DiskTyped, FilesAre DEF Serve, StartInv, Whole
      <4> QED
        BY <4>1 DEF CertFiles, Keys
    <3>3. HistoryTypes'
      BY <3>1, <3>2 DEF HistoryTypes, TypeInv
    <3>4. DiskTypes'
      BY <1>3, <2>1, <3>1 DEF Serve, DiskTypes, TypeInv
    <3>5. StartTypes'
      BY <1>3, <2>1, <3>1 DEF Serve, StartTypes, TypeInv
    <3> QED
      BY <1>3, <3>3, <3>4, <3>5, TypesKept DEF Serve, TypeInv
  <2> QED
    BY <2>2, <2>3
<1> QED
  BY <1>1, <1>2, <1>3

\* The running panel keeps the types.
LEMMA RunningTyped ==
  ASSUME TypeInv, Running
  PROVE  TypeInv'
<1>1. CASE \E m \in Modes : SaveCertConfig(m)
  <2>1. StartTypes'
    BY <1>1 DEF SaveCertConfig, StartTypes, TypeInv, panel
  <2> QED
    BY <1>1, <2>1, TypesKept DEF SaveCertConfig, TypeInv
<1>2. CASE ReloadAll
  <2>1. DiskTypes'
    BY <1>2 DEF ReloadAll, DiskTypes, TypeInv
  <2> QED
    BY <1>2, <2>1, TypesKept DEF ReloadAll, TypeInv
<1>3. CASE ReadCert
  <2>1. disk["panel"].cert \in Files
    BY DiskTyped
  <2>2. StartTypes'
    BY <1>3, <2>1 DEF ReadCert, StartTypes, TypeInv
  <2> QED
    BY <1>3, <2>2, TypesKept DEF ReadCert, TypeInv
<1>4. CASE ReloadPanelTLSCert
  <2>1. Pair(read, disk["panel"].key) \in PairOf
    BY DiskTyped, PairsTyped DEF StartTypes, TypeInv
  <2>2. served' \in PairOf \cup {None} /\ read' = None /\ None \in Files
    BY <1>4, <2>1 DEF ReloadPanelTLSCert, StartTypes, TypeInv, Files
  <2>3. StartTypes'
    BY <1>4, <2>2 DEF ReloadPanelTLSCert, StartTypes, TypeInv
  <2> QED
    BY <1>4, <2>3, TypesKept DEF ReloadPanelTLSCert, TypeInv
<1> QED
  BY <1>1, <1>2, <1>3, <1>4 DEF Running

\* A renewal keeps the types.
LEMMA RenewalTyped ==
  ASSUME TypeInv, OutcomeInv, Renewal
  PROVE  TypeInv'
<1>0. renew.pc \notin {"hook", "back hook"} => hook = "off"
  BY DEF TypeInv, RenewTypes
<1>1. ASSUME NEW hand \in BOOLEAN, Backup(hand) PROVE TypeInv'
  <2>1. renew' \in Renewals
    BY <1>1, DiskTyped, PairsTyped, RenewalsTyped DEF Backup, RenewPCs
  <2>2. RenewTypes'
    BY <1>0, <1>1, <2>1 DEF Backup, RenewTypes, TypeInv
  <2>3. BoundTypes'
    BY <1>1, Counting DEF Backup, BoundTypes, TypeInv
  <2>4. HistoryTypes'
    BY <1>1, DiskTyped DEF Backup, HistoryTypes, TypeInv
  <2> QED
    BY <1>1, <2>2, <2>3, <2>4, TypesKept DEF Backup, TypeInv
<1>2. CASE Acme
  <2>1. BoundTypes'
    BY <1>2, Counting DEF Acme, BoundTypes, TypeInv
  <2>2. renew' \in Renewals
    <3>1. CASE To("back cert")
      BY <3>1, Moves DEF RenewPCs, Moved
    <3>2. ASSUME made < MaxNew, NEW key \in {made + 1, renew.backup.key}, NEW good \in BOOLEAN,
                 renew' = Renewing("acme key", renew.backup, Pair(Cert(made + 1, key, 0), key),
                                   good, renew.hand)
          PROVE  renew' \in Renewals
      <4>1. key \in Keys
        <5>1. renew.backup.key \in Keys
          BY <1>2, DiskTyped, PairsTyped, FilesAre DEF Acme, OutcomeInv
        <5> QED
          BY <3>2, <5>1, Counting
      <4>2. Cert(made + 1, key, 0) \in Files /\ key \in KeyFiles
        BY <3>2, <4>1, MadeTyped DEF Files, KeyFiles
      <4>3. Pair(Cert(made + 1, key, 0), key) \in PairOf
        BY <4>2, PairsTyped
      <4>4. renew.hand \in BOOLEAN
        BY DEF TypeInv, RenewTypes, Renewals
      <4> QED
        BY <3>2, <4>3, <4>4, DiskTyped, RenewalsTyped DEF RenewPCs
    <3> QED
      BY <1>2, <3>1, <3>2 DEF Acme
  <2>3. RenewTypes'
    BY <1>0, <1>2, <2>2 DEF Acme, RenewTypes, TypeInv
  <2> QED
    BY <1>2, <2>1, <2>3, TypesKept DEF Acme, TypeInv
<1>3. CASE AcmeInstalls \/ RollBackCert \/ RollBackKey
  <2>1. renew' \in Renewals
    BY <1>3, Moves DEF AcmeInstalls, RollBackCert, RollBackKey, RenewPCs, Moved
  <2>2. disk' \in [Pairs -> PairOf]
    <3>1. \/ Put("le", "cert", renew.new.cert) \/ Put("le", "cert", renew.backup.cert)
          \/ Put("le", "key", renew.new.key) \/ Put("le", "key", renew.backup.key)
      BY <1>3 DEF AcmeInstalls, RollBackCert, RollBackKey
    <3>2. /\ renew.new.cert \in Files /\ renew.backup.cert \in Files
          /\ renew.new.key \in KeyFiles /\ renew.backup.key \in KeyFiles
      BY DiskTyped, PairsTyped
    <3> QED
      BY <3>1, <3>2, Puts, DiskTyped
  <2>3. RenewTypes'
    BY <1>0, <1>3, <2>1 DEF AcmeInstalls, RollBackCert, RollBackKey, RenewTypes, TypeInv
  <2>4. DiskTypes'
    BY <1>3, <2>2 DEF AcmeInstalls, RollBackCert, RollBackKey, DiskTypes, TypeInv
  <2>5. HistoryTypes'
    BY <1>3, TypesKept DEF AcmeInstalls, RollBackCert, RollBackKey, HistoryTypes, TypeInv
  <2> QED
    BY <1>3, <2>3, <2>4, <2>5, TypesKept DEF AcmeInstalls, RollBackCert, RollBackKey, TypeInv
<1>4. CASE Verify
  <2>1. renew' \in Renewals /\ flag' \in BOOLEAN
    <3>1. (renew' = Resting /\ flag' = FALSE) \/ (To("back cert") /\ flag' = flag)
      BY <1>4 DEF Verify
    <3>2. renew' \in Renewals
      BY <3>1, Moves, RenewalsTyped DEF RenewPCs, Moved
    <3> QED
      BY <3>1, <3>2 DEF RenewTypes, TypeInv
  <2>2. RenewTypes'
    BY <1>0, <1>4, <2>1 DEF Verify, RenewTypes, TypeInv
  <2> QED
    BY <1>4, <2>2, TypesKept DEF Verify, TypeInv
<1>5. CASE SetFlag
  <2>1. RenewTypes'
    BY <1>0, <1>5, RenewalsTyped DEF SetFlag, RenewTypes, TypeInv
  <2>2. HistoryTypes'
    BY <1>5 DEF SetFlag, HistoryTypes, TypeInv
  <2> QED
    BY <1>5, <2>1, <2>2, TypesKept DEF SetFlag, TypeInv
<1>6. CASE ScriptDies
  <2>1. RenewTypes'
    BY <1>0, <1>6, RenewalsTyped DEF ScriptDies, RenewTypes, TypeInv
  <2>2. BoundTypes'
    BY <1>6, Counting DEF ScriptDies, BoundTypes, TypeInv
  <2> QED
    BY <1>6, <2>1, <2>2, TypesKept DEF ScriptDies, TypeInv
<1> QED
  BY <1>1, <1>2, <1>3, <1>4, <1>5, <1>6 DEF Renewal

\* The hook keeps the types.
LEMMA HookTyped ==
  ASSUME TypeInv, Hook
  PROVE  TypeInv'
<1>0. ASSUME NEW ok, Returns(ok) PROVE flag' = flag => RenewTypes'
  BY <1>0, Moves DEF Moved, RenewTypes, TypeInv, Steps
<1>1. CASE HookStarts
  <2>1. RenewTypes'
    BY <1>1 DEF HookStarts, RenewTypes, TypeInv, Steps
  <2> QED
    BY <1>1, <2>1, TypesKept DEF HookStarts, TypeInv
<1>2. CASE HookRefuses
  BY <1>0, <1>2, TypesKept DEF HookRefuses, TypeInv
<1>3. CASE HookCopies
  <2>1. disk["le"].cert \in Files /\ disk["le"].key \in KeyFiles /\ swan \in PairOf
    BY DiskTyped
  <2>2. disk' \in [Pairs -> PairOf]
    BY <1>3, <2>1, Puts, DiskTyped DEF HookCopies
  <2>3. swan' \in PairOf /\ charon' \in PairOf
    BY <1>3, <2>1, PairsTyped, DiskTyped DEF HookCopies
  <2>4. RenewTypes'
    BY <1>3 DEF HookCopies, RenewTypes, TypeInv, Steps
  <2> QED
    BY <1>3, <2>2, <2>3, <2>4, TypesKept DEF HookCopies, TypeInv, DiskTypes
<1>4. CASE LoadCreds
  <2>1. RenewTypes'
    BY <1>4 DEF LoadCreds, RenewTypes, TypeInv, Steps
  <2>2. BoundTypes'
    BY <1>4, Counting DEF LoadCreds, BoundTypes, TypeInv
  <2>3. DiskTypes'
    BY <1>4 DEF LoadCreds, DiskTypes, TypeInv
  <2> QED
    BY <1>4, <2>1, <2>2, <2>3, TypesKept DEF LoadCreds, TypeInv
<1>5. CASE SendHup
  <2>1. StartTypes'
    BY <1>5 DEF SendHup, StartTypes, TypeInv
  <2>2. HistoryTypes'
    BY <1>5 DEF SendHup, HistoryTypes, TypeInv
  <2> QED
    BY <1>0, <1>5, <2>1, <2>2, TypesKept DEF SendHup, TypeInv
<1>6. CASE HookFails
  <2>1. BoundTypes'
    BY <1>6, Counting DEF HookFails, BoundTypes, TypeInv
  <2> QED
    BY <1>0, <1>6, <2>1, TypesKept DEF HookFails, TypeInv
<1> QED
  BY <1>1, <1>2, <1>3, <1>4, <1>5, <1>6 DEF Hook

\* A file that is being written.
LEMMA WritingTyped ==
  ASSUME TypeInv, NEW w \in Writing
  PROVE  /\ w[1] \in Pairs /\ w[2] \in Parts
         /\ \/ w[1] = "le" /\ renew.pc \in {"acme key", "acme cert", "back key", "back cert"}
            \/ w[1] = at /\ w[2] = pc /\ pc \in {"cert", "key"}
<1> DEFINE ofRenewal ==
      CASE renew.pc \in {"acme key", "back key"}   -> {<<"le", "key">>}
        [] renew.pc \in {"acme cert", "back cert"} -> {<<"le", "cert">>}
        [] OTHER -> {}
<1>1. renew.pc \in {"acme key", "back key"} => ofRenewal = {<<"le", "key">>}
  BY Zenon
<1>2. renew.pc \in {"acme cert", "back cert"} => ofRenewal = {<<"le", "cert">>}
  BY Zenon
<1>3. renew.pc \notin {"acme key", "back key", "acme cert", "back cert"} => ofRenewal = {}
  BY Zenon
<1>4. \/ pc \in {"cert", "key"} /\ w = <<at, pc>>
      \/ w \in ofRenewal
  BY DEF Writing
<1> HIDE DEF ofRenewal
<1>5. \/ pc \in {"cert", "key"} /\ w = <<at, pc>>
      \/ renew.pc \in {"acme key", "back key"} /\ w = <<"le", "key">>
      \/ renew.pc \in {"acme cert", "back cert"} /\ w = <<"le", "cert">>
  BY <1>1, <1>2, <1>3, <1>4
<1>6. CASE pc \in {"cert", "key"} /\ w = <<at, pc>>
  <2>1. w[1] = at /\ w[2] = pc /\ at \in Pairs
    BY <1>6 DEF TypeInv, StartTypes
  <2> QED
    BY <1>6, <2>1 DEF Parts
<1>7. CASE renew.pc \in {"acme key", "back key"} /\ w = <<"le", "key">>
  BY <1>7 DEF Parts, Pairs
<1>8. CASE renew.pc \in {"acme cert", "back cert"} /\ w = <<"le", "cert">>
  BY <1>8 DEF Parts, Pairs
<1> QED
  BY <1>5, <1>6, <1>7, <1>8

\* A stop, and what the operator does, keeps the types.
LEMMA OutsideTyped ==
  ASSUME TypeInv, Crash \/ Operator
  PROVE  TypeInv'
<1>1. CASE Crash
  <2>1. disk' \in [Pairs -> PairOf]
    <3>1. ASSUME NEW w \in Writing, Put(w[1], w[2], Empty) PROVE disk' \in [Pairs -> PairOf]
      <4>1. w[1] \in Pairs /\ (w[2] = "cert" \/ w[2] = "key") /\ Empty \in Files /\ Empty \in KeyFiles
        BY WritingTyped DEF Parts, Files, KeyFiles
      <4> QED
        BY <3>1, <4>1, Puts
    <3> QED
      BY <1>1, <3>1, DiskTyped DEF Crash
  <2>2. DiskTypes'
    BY <1>1, <2>1, PairsTyped DEF Crash, DiskTypes, TypeInv
  <2>3. StartTypes'
    BY <1>1 DEF Crash, StartTypes, TypeInv, Files
  <2>4. RenewTypes'
    BY <1>1, RenewalsTyped DEF Crash, RenewTypes, TypeInv, Steps
  <2>5. BoundTypes'
    BY <1>1, Counting DEF Crash, BoundTypes, TypeInv
  <2>6. HistoryTypes'
    BY <1>1 DEF Crash, HistoryTypes, TypeInv
  <2> QED
    BY <2>2, <2>3, <2>4, <2>5, <2>6 DEF TypeInv
<1>2. ASSUME NEW p \in {"ca", "server"}, NEW part \in Parts, LoseFile(p, part) PROVE TypeInv'
  <2>1. disk' \in [Pairs -> PairOf]
    <3>1. p \in Pairs /\ (part = "cert" \/ part = "key") /\ None \in Files /\ None \in KeyFiles
      BY DEF Parts, Files, KeyFiles, Pairs, Own
    <3> QED
      BY <1>2, <3>1, Puts DEF LoseFile
  <2>2. DiskTypes'
    BY <1>2, <2>1 DEF LoseFile, DiskTypes, TypeInv
  <2>3. BoundTypes'
    BY <1>2, Counting DEF LoseFile, BoundTypes, TypeInv
  <2> QED
    BY <1>2, <2>2, <2>3, TypesKept DEF LoseFile, TypeInv
<1>3. ASSUME NEW p \in Own, RemovePair(p) PROVE TypeInv'
  <2>1. DiskTypes'
    BY <1>3, PairsTyped, DiskTyped DEF RemovePair, DiskTypes, TypeInv
  <2>2. HistoryTypes'
    BY <1>3 DEF RemovePair, HistoryTypes, TypeInv
  <2> QED
    BY <1>3, <2>1, <2>2, TypesKept DEF RemovePair, TypeInv
<1> QED
  BY <1>1, <1>2, <1>3 DEF Operator

-----------------------------------------------------------------------------
(* Proofs: what a step leaves alone. *)

\* Which pair of the disk a step may change.
Wrote(p) == \A q \in Pairs \ {p} : disk'[q] = disk[q]

\* Every action changes at most one pair.
LEMMA Touches ==
  ASSUME TypeInv
  PROVE  /\ at \in Pairs /\ (WriteCert \/ WriteKey) => Wrote(at)
         /\ AcmeInstalls \/ RollBackCert \/ RollBackKey => Wrote("le")
         /\ Issue => Wrote("le")
         /\ HookCopies => Wrote("panel")
         /\ \A p \in Pairs, part \in Parts : LoseFile(p, part) => Wrote(p)
         /\ \A p \in Pairs : RemovePair(p) => Wrote(p)
         /\ Crash => disk' = disk \/ \E w \in Writing : Wrote(w[1]) /\ Put(w[1], w[2], Empty)
<1>1. \A p \in Pairs : \A f : Put(p, "cert", f) \/ Put(p, "key", f) => Wrote(p)
  BY Puts DEF Wrote
<1>2. at \in Pairs /\ (WriteCert \/ WriteKey) => Wrote(at)
  BY <1>1 DEF WriteCert, WriteKey
<1>3. AcmeInstalls \/ RollBackCert \/ RollBackKey => Wrote("le")
  BY <1>1, DiskTyped DEF AcmeInstalls, RollBackCert, RollBackKey
<1>4. Issue => Wrote("le")
  BY DiskTyped DEF Issue, Wrote
<1>5. HookCopies => Wrote("panel")
  BY <1>1, DiskTyped DEF HookCopies, Wrote
<1>6. \A p \in Pairs, part \in Parts : LoseFile(p, part) => Wrote(p)
  BY <1>1 DEF LoseFile, Parts
<1>7. \A p \in Pairs : RemovePair(p) => Wrote(p)
  BY DiskTyped DEF RemovePair, Wrote
<1>8. ASSUME Crash
      PROVE  disk' = disk \/ \E w \in Writing : Wrote(w[1]) /\ Put(w[1], w[2], Empty)
  <2>1. ASSUME NEW w \in Writing, Put(w[1], w[2], Empty) PROVE Wrote(w[1])
    BY <1>1, <2>1, WritingTyped DEF Parts
  <2> QED
    BY <1>8, <2>1 DEF Crash
<1> QED
  BY <1>2, <1>3, <1>4, <1>5, <1>6, <1>7, <1>8

\* Where the renewal and the hook are, as the types have it.
LEMMA RenewalIsTyped ==
  ASSUME TypeInv
  PROVE  /\ renew.pc \in RenewPCs /\ hook \in Steps
         /\ hook # "off" => renew.pc \in {"hook", "back hook"}
         /\ pc \in PCs /\ mode \in Modes /\ conf \in Modes /\ at \in Pairs
BY DEF TypeInv, RenewTypes, Renewals, StartTypes, PCs

\* Renewals, hooks and signals stay with a running panel with Let's Encrypt.
LEMMA QuietKept ==
  ASSUME TypeInv, QuietInv, [Next]_vars
  PROVE  QuietInv'
<1>0. UNCHANGED <<renew, hook, sighup, read, pc, mode>> => QuietInv'
  BY DEF QuietInv
<1>1. CASE StartUp
  <2>1. pc # "on"
    BY <1>1 DEF StartUp, Start, LoadPair, Generate, Refuse, WriteCert, WriteKey, Issue, UseIssued, Serve
  <2>2. UNCHANGED <<renew, hook, sighup, read>>
    BY <1>1 DEF StartUp, Start, LoadPair, Generate, Refuse, Exit, WriteCert, WriteKey, Issue,
                UseIssued, Serve, script
  <2> QED
    BY <2>1, <2>2 DEF QuietInv
<1>2. CASE Running
  <2>1. pc' = pc /\ mode' = mode /\ renew' = renew /\ hook' = hook
    BY <1>2 DEF Running, SaveCertConfig, ReloadAll, ReadCert, ReloadPanelTLSCert, script, panel
  <2>2. UNCHANGED <<sighup, read>> \/ sighup \/ read # None
    BY <1>2 DEF Running, SaveCertConfig, ReloadAll, ReadCert, ReloadPanelTLSCert, panel
  <2> QED
    BY <2>1, <2>2 DEF QuietInv
<1>3. CASE Renewal
  <2>1. UNCHANGED <<pc, mode, hook, sighup, read>>
    BY <1>3 DEF Renewal, Backup, Acme, AcmeInstalls, Verify, RollBackCert, RollBackKey, SetFlag,
                ScriptDies, panel
  <2>2. renew.pc # "idle" \/ (pc = "on" /\ mode = "letsencrypt")
    BY <1>3 DEF Renewal, Backup, Acme, AcmeInstalls, Verify, RollBackCert, RollBackKey, SetFlag, ScriptDies
  <2> QED
    BY <2>1, <2>2 DEF QuietInv
<1>4. CASE Hook
  <2>1. UNCHANGED <<pc, mode>>
    BY <1>4 DEF Hook, HookStarts, HookRefuses, HookCopies, LoadCreds, SendHup, HookFails, panel
  <2>2. renew.pc # "idle" \/ hook # "off"
    BY <1>4 DEF Hook, HookStarts, HookRefuses, HookCopies, LoadCreds, SendHup, HookFails
  <2> QED
    BY <2>1, <2>2 DEF QuietInv
<1>5. CASE Crash
  BY <1>5, RenewalsTyped DEF Crash, QuietInv
<1>6. CASE Operator
  BY <1>0, <1>6 DEF Operator, LoseFile, RemovePair, panel, script
<1>7. CASE UNCHANGED vars
  BY <1>0, <1>7 DEF vars, panel, script
<1> QED
  BY <1>1, <1>2, <1>3, <1>4, <1>5, <1>6, <1>7 DEF Next

\* A start is at the pair its mode asks for, and has a CA once it is past it.
LEMMA StartKept ==
  ASSUME TypeInv, QuietInv, StartInv, [Next]_vars
  PROVE  StartInv'
<1>0. UNCHANGED <<pc, at, mode, cur>> /\ disk'["ca"] = disk["ca"] => StartInv'
  BY DEF StartInv, Whole
<1>1. pc' = "down" => StartInv'
  BY DEF StartInv
<1>2. pc \in PCs /\ mode \in Modes /\ conf \in Modes /\ "ca" \in Pairs /\ "ca" # "le" /\ "ca" # "panel"
  BY RenewalIsTyped, DiskTyped
<1>3. CASE Start
  BY <1>2, <1>3 DEF Start, StartInv, Modes, Own
<1>4. CASE LoadPair
  <2>1. mode = "self-signed" /\ at \in Own /\ disk' = disk /\ mode' = mode
    BY <1>2, <1>4 DEF LoadPair, StartInv, Modes, Own
  <2>2. Whole("ca")
    BY <1>4, <2>1 DEF LoadPair, StartInv
  <2>3. pc' \in {"look", "serve"} /\ (pc' = "look" => at' \in Own /\ at' # "ca")
    BY <1>4, <2>1, Proceeds DEF LoadPair, Own
  <2> QED
    BY <2>1, <2>2, <2>3 DEF StartInv, Whole
<1>5. CASE Generate
  <2>1. /\ mode = "self-signed" /\ at \in Own /\ disk' = disk /\ mode' = mode /\ at' = at /\ pc' = "cert"
        /\ at # "ca" => Whole("ca")
    BY <1>2, <1>5 DEF Generate, StartInv, Modes, Own
  <2>2. cur'.cert \in CertFiles /\ cur'.key \in Keys
    <3>1. made + 1 \in 0..MaxNew /\ made + 1 \in Keys
      BY <1>5, Counting DEF Generate
    <3>2. at # "ca" => disk["ca"].cert \in CertFiles
      BY <2>1, DiskTyped, FilesAre DEF Whole
    <3>3. at # "ca" => disk["ca"].cert.no \in 0..MaxNew
      BY <3>2, BoundsAssumption DEF CertFiles
    <3> QED
      BY <1>5, <3>1, <3>3, MadeTyped, PairsTyped DEF Generate
  <2> QED
    BY <2>1, <2>2 DEF StartInv, Whole
<1>6. CASE WriteCert
  <2>1. /\ mode' = mode /\ at' = at /\ cur' = cur /\ pc' = "key" /\ pc = "cert" /\ at \in Pairs
        /\ Put(at, "cert", cur.cert)
    BY <1>6, RenewalIsTyped DEF WriteCert
  <2>2. at # "ca" => disk'["ca"] = disk["ca"]
    BY <1>2, <2>1, Puts
  <2>3. at = "ca" => disk'["ca"].cert = cur.cert
    BY <1>2, <2>1, Puts, PairsTyped
  <2> QED
    BY <2>1, <2>2, <2>3 DEF StartInv, Whole
<1>7. CASE WriteKey
  <2>1. mode' = mode /\ pc = "key" /\ at \in Own /\ Put(at, "key", cur.key) /\ at \in Pairs
    BY <1>2, <1>7, RenewalIsTyped DEF WriteKey, StartInv, Modes, Own
  <2>2. pc' \in {"look", "serve"} /\ (pc' = "look" => at' \in Own /\ at' # "ca")
    BY <1>7, <2>1, Proceeds DEF WriteKey, Own
  <2>3. mode = "letsencrypt" => pc' = "serve"
    BY <1>7, <2>1, Proceeds DEF WriteKey, StartInv, Own
  <2>4. mode = "self-signed" /\ at # "ca" => IsFile(disk'["ca"].cert) /\ IsFile(disk'["ca"].key)
    <3>1. at # "ca" => disk'["ca"] = disk["ca"]
      BY <1>2, <2>1, Puts
    <3> QED
      BY <2>1, <3>1 DEF StartInv, Whole
  <2>5. mode = "self-signed" /\ at = "ca" => IsFile(disk'["ca"].cert) /\ IsFile(disk'["ca"].key)
    <3>1. at = "ca" => disk'["ca"] = Pair(disk["ca"].cert, cur.key)
      BY <1>2, <2>1, Puts
    <3>2. mode = "self-signed" /\ at = "ca" =>
            disk["ca"].cert \in CertFiles /\ cur.key \in Keys
      BY <2>1 DEF StartInv
    <3> QED
      BY <3>1, <3>2, PairsTyped, FilesAre
  <2> QED
    BY <1>2, <2>1, <2>2, <2>3, <2>4, <2>5 DEF StartInv, Whole, Modes
<1>8. CASE Issue \/ UseIssued
  <2>1. mode = "letsencrypt"
    BY <1>2, <1>8 DEF Issue, UseIssued, StartInv, Modes, Own
  <2>2. pc' = "down" \/ (pc' = "cert" /\ at' = "panel" /\ mode' = mode)
    BY <1>8 DEF Issue, UseIssued, Exit
  <2> QED
    BY <1>1, <2>1, <2>2 DEF StartInv
<1>9. CASE Serve
  <2>1. pc = "serve" /\ disk' = disk /\ (pc' = "down" \/ (pc' = "on" /\ mode' = mode))
    BY <1>9 DEF Serve, Exit
  <2> QED
    BY <1>1, <2>1 DEF StartInv, Whole
<1>10. CASE Refuse \/ Crash
  BY <1>1, <1>10 DEF Refuse, Exit, Crash
<1>11. CASE Running
  BY <1>0, <1>11 DEF Running, SaveCertConfig, ReloadAll, ReadCert, ReloadPanelTLSCert, panel
<1>12. CASE Renewal
  <2>1. UNCHANGED <<pc, at, mode, cur>>
    BY <1>12 DEF Renewal, Backup, Acme, AcmeInstalls, Verify, RollBackCert, RollBackKey, SetFlag,
                 ScriptDies, panel
  <2>2. disk'["ca"] = disk["ca"]
    <3>1. disk' = disk \/ AcmeInstalls \/ RollBackCert \/ RollBackKey
      BY <1>12 DEF Renewal, Backup, Acme, Verify, SetFlag, ScriptDies
    <3> QED
      BY <1>2, <3>1, Touches DEF Wrote
  <2> QED
    BY <1>0, <2>1, <2>2
<1>13. CASE Hook
  <2>1. UNCHANGED <<pc, at, mode, cur>>
    BY <1>13 DEF Hook, HookStarts, HookRefuses, HookCopies, LoadCreds, SendHup, HookFails, panel
  <2>2. disk'["ca"] = disk["ca"]
    <3>1. disk' = disk \/ HookCopies
      BY <1>13 DEF Hook, HookStarts, HookRefuses, LoadCreds, SendHup, HookFails
    <3> QED
      BY <1>2, <3>1, Touches DEF Wrote
  <2> QED
    BY <1>0, <2>1, <2>2
<1>14. CASE Operator
  BY <1>1, <1>14 DEF Operator, LoseFile, RemovePair, panel
<1>15. CASE UNCHANGED vars
  BY <1>0, <1>15 DEF vars, panel
<1> QED
  BY <1>3, <1>4, <1>5, <1>6, <1>7, <1>8, <1>9, <1>10, <1>11, <1>12, <1>13, <1>14, <1>15
  DEF Next, StartUp

-----------------------------------------------------------------------------
(* Proofs: renewals. *)

\* What a hook that returns makes of the renewal.
LEMMA HookReturns ==
  ASSUME TypeInv, HookRefuses \/ SendHup \/ HookFails
  PROVE  /\ hook' = "off"
         /\ \/ renew.pc = "back hook" /\ Moved("flag")
            \/ renew.pc = "hook" /\ (Moved("verify") \/ Moved("back cert"))
BY Moves DEF HookRefuses, SendHup, HookFails

\* The pair of /data/le.
Le == disk["le"]

\* What the steps of a renewal make of it and of the pair of /data/le.
LEMMA RenewalSteps ==
  ASSUME TypeInv
  PROVE  /\ \A hand \in BOOLEAN : Backup(hand) =>
              /\ renew'.pc = "acme" /\ renew'.backup = Le /\ disk' = disk
         /\ Acme => /\ renew'.backup = renew.backup /\ disk' = disk
                    /\ renew'.pc \in {"acme key", "back cert"}
         /\ AcmeInstalls =>
              \/ renew.pc = "acme key" /\ Moved("acme cert")
                 /\ Le' = Pair(Le.cert, renew.new.key)
              \/ renew.pc = "acme cert" /\ Moved("hook")
                 /\ Le' = Pair(renew.new.cert, Le.key)
         /\ Verify => \/ renew' = Resting /\ flag' = FALSE
                      \/ Moved("back cert") /\ flag' = flag
         /\ RollBackCert => /\ Moved("back key")
                            /\ Le' = Pair(renew.backup.cert, Le.key)
         /\ RollBackKey => /\ Moved("back hook")
                           /\ Le' = Pair(Le.cert, renew.backup.key)
<1>1. "le" \in Pairs /\ {"acme cert", "hook", "back cert", "back key", "back hook"} \subseteq RenewPCs
  BY DEF Pairs, RenewPCs
<1>2. \A hand \in BOOLEAN : Backup(hand) =>
        /\ renew'.pc = "acme" /\ renew'.backup = Le /\ disk' = disk
  BY DEF Backup, Renewing, Le
<1>3. Acme => /\ renew'.backup = renew.backup /\ disk' = disk
              /\ renew'.pc \in {"acme key", "back cert"}
  <2>1. To("back cert") => renew'.backup = renew.backup /\ renew'.pc = "back cert"
    BY <1>1, Moves DEF Moved
  <2>2. ASSUME NEW n, NEW g, NEW m, renew' = Renewing("acme key", renew.backup, n, g, m)
        PROVE  renew'.backup = renew.backup /\ renew'.pc = "acme key"
    <3>2. /\ Renewing("acme key", renew.backup, n, g, m).pc = "acme key"
          /\ Renewing("acme key", renew.backup, n, g, m).backup = renew.backup
      BY DEF Renewing
    <3> QED
      BY <2>2, <3>2
  <2>3. Acme => To("back cert") \/ \E n, g, m : renew' = Renewing("acme key", renew.backup, n, g, m)
    BY DEF Acme
  <2>4. Acme => disk' = disk
    BY DEF Acme
  <2> QED
    BY <2>1, <2>2, <2>3, <2>4
<1>4. /\ renew.pc = "acme key" /\ AcmeInstalls =>
           Moved("acme cert") /\ Le' = Pair(Le.cert, renew.new.key)
      /\ renew.pc # "acme key" /\ AcmeInstalls =>
           renew.pc = "acme cert" /\ Moved("hook") /\ Le' = Pair(renew.new.cert, Le.key)
  BY <1>1, Moves, Puts DEF AcmeInstalls, Le
<1>5. Verify => \/ renew' = Resting /\ flag' = FALSE
                \/ Moved("back cert") /\ flag' = flag
  BY <1>1, Moves DEF Verify
<1>6. RollBackCert => /\ Moved("back key")
                      /\ Le' = Pair(renew.backup.cert, Le.key)
  BY <1>1, Moves, Puts DEF RollBackCert, Le
<1>7. RollBackKey => /\ Moved("back hook")
                     /\ Le' = Pair(Le.cert, renew.backup.key)
  BY <1>1, Moves, Puts DEF RollBackKey, Le
<1> QED
  BY <1>2, <1>3, <1>4, <1>5, <1>6, <1>7

\* A pair of two files.
Filed(p) == IsFile(p.cert) /\ IsFile(p.key)

\* A renewal has the pair from before, and at its mark that pair is back.
LEMMA OutcomeKept ==
  ASSUME TypeInv, QuietInv, StartInv, AgreeInv, OutcomeInv, [Next]_vars
  PROVE  OutcomeInv'
<1>1. /\ pc \in PCs /\ mode \in Modes /\ conf \in Modes /\ "le" \in Pairs /\ "le" \notin Own /\ "le" # "panel"
      /\ Own \subseteq Pairs /\ at \in Pairs
  BY RenewalIsTyped, DiskTyped DEF Own, Pairs
<1>2. /\ pc = "on" /\ mode = "letsencrypt" => Filed(Le)
      /\ renew.pc # "idle" => prior = renew.backup /\ ended = FALSE /\ Filed(renew.backup)
      /\ renew.pc # "idle" => pc = "on" /\ mode = "letsencrypt"
      /\ renew.pc \in {"acme key", "acme cert"} => Filed(renew.new)
      /\ renew.pc = "back key" => Le.cert = renew.backup.cert
      /\ renew.pc \in {"back hook", "flag"} => Le = renew.backup
      /\ ended => flag /\ Le = prior /\ Filed(Le)
      /\ ended \in BOOLEAN /\ flag \in BOOLEAN
  <2>1. ended \in BOOLEAN /\ flag \in BOOLEAN
    BY DEF TypeInv, HistoryTypes, RenewTypes
  <2> QED
    BY <2>1 DEF OutcomeInv, QuietInv, LeWhole, Filed, Le
<1>3. ASSUME pc' = "on" /\ mode' = "letsencrypt" => Filed(Le'),
             renew'.pc # "idle" => prior' = renew'.backup /\ ~ended' /\ Filed(renew'.backup),
             renew'.pc \in {"acme key", "acme cert"} => Filed(renew'.new),
             renew'.pc = "back key" => Le'.cert = renew'.backup.cert,
             renew'.pc \in {"back hook", "flag"} => Le' = renew'.backup,
             ended' => flag' /\ Le' = prior' /\ Filed(Le')
      PROVE  OutcomeInv'
  BY <1>3 DEF OutcomeInv, LeWhole, Filed, Le
<1>4. ASSUME UNCHANGED <<renew, prior, ended, flag>>, Le' = Le,
             pc' = "on" /\ mode' = "letsencrypt" => pc = "on" /\ mode = "letsencrypt"
      PROVE  OutcomeInv'
  BY <1>2, <1>3, <1>4
<1>5. CASE Start \/ LoadPair \/ Generate \/ Refuse \/ WriteCert \/ WriteKey \/ UseIssued
  <2>1. pc' # "on" /\ UNCHANGED <<renew, prior, ended, flag>>
    <3>1. ASSUME NEW p, Proceed(p) PROVE pc' # "on"
      BY <3>1 DEF Proceed
    <3> QED
      BY <1>5, <3>1 DEF Start, LoadPair, Generate, Refuse, Exit, WriteCert, WriteKey, UseIssued, script, history
  <2>2. Le' = Le
    <3>1. WriteCert \/ WriteKey => at # "le"
      BY <1>1 DEF WriteCert, WriteKey, StartInv, Modes
    <3>2. disk' = disk \/ WriteCert \/ WriteKey
      BY <1>5 DEF Start, LoadPair, Generate, Refuse, UseIssued
    <3> QED
      BY <1>1, <3>1, <3>2, Touches DEF Wrote, Le
  <2> QED
    BY <1>4, <2>1, <2>2
<1>6. CASE Issue
  <2>1. ended = FALSE /\ renew.pc = "idle"
    <3>1. ~Filed(Le)
      BY <1>6, FilesAre DEF Issue, Filed, Le
    <3>2. pc # "on"
      BY <1>6 DEF Issue
    <3> QED
      BY <1>2, <3>1, <3>2 DEF TypeInv, HistoryTypes
  <2>2. pc' # "on" /\ renew' = renew /\ ended' = ended
    BY <1>6 DEF Issue, Exit, script, history
  <2> QED
    BY <1>3, <2>1, <2>2
<1>7. CASE Serve
  <2>1. UNCHANGED <<renew, prior, ended, flag, disk, mode>>
    BY <1>7 DEF Serve, Exit, script, history
  <2>2. pc' = "on" /\ mode' = "letsencrypt" => Filed(Le')
    <3>1. pc' = "on" /\ mode = "letsencrypt" => Matches(cur)
      BY <1>7 DEF Serve, Serving, Exit
    <3>2. mode = "letsencrypt" => cur = Le
      BY <1>7 DEF Serve, AgreeInv, Le
    <3> QED
      BY <2>1, <3>1, <3>2 DEF Matches, Filed, Le
  <2> QED
    BY <1>2, <1>3, <2>1, <2>2 DEF Le
<1>8. CASE Running
  BY <1>4, <1>8 DEF Le, Running, SaveCertConfig, ReloadAll, ReadCert, ReloadPanelTLSCert, panel, script, history
<1>9. ASSUME NEW hand \in BOOLEAN, Backup(hand) PROVE OutcomeInv'
  <2>1. /\ renew'.pc = "acme" /\ renew'.backup = Le /\ disk' = disk /\ prior' = Le
        /\ ended' = FALSE /\ pc = "on" /\ mode = "letsencrypt" /\ pc' = pc /\ mode' = mode
    BY <1>9, RenewalSteps DEF Backup, panel, Le
  <2> QED
    BY <1>2, <1>3, <2>1 DEF Le
<1>10. CASE Acme
  <2>1. /\ renew'.backup = renew.backup /\ disk' = disk /\ renew'.pc \in {"acme key", "back cert"}
        /\ prior' = prior /\ ended' = FALSE /\ pc' = pc /\ mode' = mode /\ renew.pc # "idle"
    BY <1>2, <1>10, RenewalSteps DEF Acme, panel, history
  <2>2. renew'.pc = "acme key" => Filed(renew'.new)
    <3>1. CASE To("back cert")
      BY <3>1, Moves DEF RenewPCs, Moved
    <3>2. ASSUME made < MaxNew, NEW key \in {made + 1, renew.backup.key}, NEW good \in BOOLEAN,
                 renew' = Renewing("acme key", renew.backup, Pair(Cert(made + 1, key, 0), key),
                                   good, renew.hand)
          PROVE  Filed(renew'.new)
      <4>1. key \in Keys
        <5>1. renew.backup.key \in Keys
          BY <1>2, <2>1, DiskTyped, PairsTyped, FilesAre DEF Filed
        <5> QED
          BY <3>2, <5>1, Counting
      <4>2. renew'.new = Pair(Cert(made + 1, key, 0), key)
        BY <3>2 DEF Renewing
      <4>3. Cert(made + 1, key, 0) \in CertFiles
        BY <3>2, <4>1, MadeTyped
      <4> QED
        BY <4>1, <4>2, <4>3, PairsTyped, FilesAre DEF Filed
    <3> QED
      BY <1>10, <3>1, <3>2 DEF Acme
  <2> QED
    BY <1>2, <1>3, <2>1, <2>2 DEF Le
<1>11. CASE AcmeInstalls \/ RollBackCert \/ RollBackKey
  <2>1. /\ prior' = prior /\ ended' = FALSE /\ pc' = pc /\ mode' = mode /\ renew.pc # "idle"
    BY <1>2, <1>11 DEF AcmeInstalls, RollBackCert, RollBackKey, panel, history
  <2>2. Filed(Le) /\ Filed(renew.backup)
    BY <1>2, <2>1
  <2>3. \A c, k : Pair(c, k).cert = c /\ Pair(c, k).key = k
    BY PairsTyped
  <2>4. CASE AcmeInstalls
    <3>1. Filed(renew.new)
      BY <1>2, <2>4 DEF AcmeInstalls
    <3>2. renew'.pc \in {"acme cert", "hook"} /\ renew'.backup = renew.backup /\ renew'.new = renew.new
      <4>1. Moved("acme cert") \/ Moved("hook")
        BY <2>4, RenewalSteps
      <4> QED
        BY <4>1 DEF Moved
    <3>3. Filed(Le')
      <4>1. /\ Le'.cert = Le.cert \/ Le'.cert = renew.new.cert
            /\ Le'.key = Le.key \/ Le'.key = renew.new.key
        <5>1. \/ Le' = Pair(Le.cert, renew.new.key)
              \/ Le' = Pair(renew.new.cert, Le.key)
          BY <2>4, RenewalSteps
        <5> QED
          BY <2>3, <5>1
      <4> QED
        BY <2>2, <3>1, <4>1 DEF Filed
    <3> QED
      BY <1>2, <1>3, <2>1, <2>2, <3>1, <3>2, <3>3
  <2>5. CASE RollBackCert
    <3>1. /\ renew'.pc = "back key" /\ renew'.backup = renew.backup
          /\ Le' = Pair(renew.backup.cert, Le.key)
      <4>1. Moved("back key") /\ Le' = Pair(renew.backup.cert, Le.key)
        BY <2>5, RenewalSteps
      <4> QED
        BY <4>1 DEF Moved
    <3>2. Le'.cert = renew.backup.cert /\ Le'.key = Le.key
      BY <2>3, <3>1
    <3>3. Filed(Le')
      BY <2>2, <3>2 DEF Filed
    <3> QED
      BY <1>2, <1>3, <2>1, <2>2, <3>1, <3>2, <3>3
  <2>6. CASE RollBackKey
    <3>1. /\ renew'.pc = "back hook" /\ renew'.backup = renew.backup
          /\ Le' = Pair(Le.cert, renew.backup.key)
      BY <2>6, RenewalSteps DEF Moved
    <3>2. Le.cert = renew.backup.cert
      BY <1>2, <2>6 DEF RollBackKey
    <3>3. Le' = renew.backup
      BY <3>1, <3>2, PairsTyped, DiskTyped DEF Le
    <3> QED
      BY <1>2, <1>3, <2>1, <2>2, <3>1, <3>3
  <2> QED
    BY <1>11, <2>4, <2>5, <2>6
<1>12. CASE Verify \/ ScriptDies
  <2>1. /\ prior' = prior /\ ended' = FALSE /\ pc' = pc /\ mode' = mode /\ renew.pc # "idle" /\ disk' = disk
    BY <1>2, <1>12 DEF Verify, ScriptDies, panel, history
  <2>2. renew' = Resting \/ Moved("back cert")
    BY <1>12, RenewalSteps DEF ScriptDies
  <2>3. renew'.pc = "idle" \/ (renew'.pc = "back cert" /\ renew'.backup = renew.backup)
    BY <2>2, RenewalsTyped DEF Moved
  <2> QED
    BY <1>2, <1>3, <2>1, <2>3 DEF Le
<1>13. CASE SetFlag
  <2>1. /\ prior' = prior /\ flag' = TRUE /\ pc' = pc /\ mode' = mode /\ renew.pc = "flag" /\ disk' = disk
        /\ renew'.pc = "idle"
    BY <1>13, RenewalsTyped DEF SetFlag, panel
  <2> QED
    BY <1>2, <1>3, <2>1 DEF Le
<1>14. CASE HookStarts \/ HookCopies \/ LoadCreds
  <2>1. Le' = Le
    <3>1. disk' = disk \/ HookCopies
      BY <1>14 DEF HookStarts, LoadCreds
    <3> QED
      BY <1>1, <3>1, Touches DEF Wrote, Le
  <2> QED
    BY <1>4, <1>14, <2>1 DEF HookStarts, HookCopies, LoadCreds, panel, history
<1>15. CASE HookRefuses \/ SendHup \/ HookFails
  <2>1. /\ prior' = prior /\ pc' = pc /\ mode' = mode /\ disk' = disk /\ ended' = ended
    BY <1>15 DEF HookRefuses, SendHup, HookFails, panel, history
  <2>2. /\ renew'.backup = renew.backup
        /\ \/ renew.pc = "back hook" /\ renew'.pc = "flag"
           \/ renew.pc = "hook" /\ renew'.pc \in {"verify", "back cert"}
    BY <1>15, HookReturns DEF Moved
  <2> QED
    BY <1>2, <1>3, <2>1, <2>2 DEF Le
<1>16. CASE Crash
  <2>1. /\ pc' = "down" /\ renew'.pc = "idle" /\ ended' = (ended /\ renew.pc = "idle")
        /\ prior' = prior /\ flag' = flag
    BY <1>16, RenewalsTyped DEF Crash
  <2>2. ended' => Le' = Le
    <3>1. ASSUME NEW w \in Writing, Wrote(w[1]), renew.pc = "idle" PROVE Le' = Le
      <4>1. w[1] = at /\ pc \in {"cert", "key"}
        BY <3>1, WritingTyped
      <4>2. at # "le"
        BY <1>1, <4>1 DEF StartInv, Modes
      <4> QED
        BY <1>1, <3>1, <4>1, <4>2 DEF Wrote, Le
    <3> QED
      BY <1>16, <2>1, <3>1, Touches DEF Le
  <2> QED
    BY <1>2, <1>3, <2>1, <2>2 DEF Le
<1>17. CASE Operator
  <2>1. Le' = Le
    <3>1. \E p \in Own : Wrote(p)
      BY <1>1, <1>17, Touches DEF Operator, Own
    <3> QED
      BY <1>1, <3>1 DEF Wrote, Le
  <2>2. UNCHANGED <<renew, prior, ended, flag, pc, mode>>
    BY <1>17 DEF Operator, LoseFile, RemovePair, panel, script, history
  <2> QED
    BY <1>4, <2>1, <2>2
<1>18. CASE UNCHANGED vars
  BY <1>4, <1>18 DEF Le, vars, panel, script, history
<1> QED
  BY <1>5, <1>6, <1>7, <1>8, <1>9, <1>10, <1>11, <1>12, <1>13, <1>14, <1>15, <1>16, <1>17, <1>18
  DEF Next, StartUp, Renewal, Hook

-----------------------------------------------------------------------------
(* Proofs: what is served. *)

\* The pair of the panel.
Shown == disk["panel"]

\* What the copies of the hook, and of a start, make of the pairs.
LEMMA CopySteps ==
  ASSUME TypeInv
  PROVE  /\ HookCopies =>
              /\ Le' = Le
              /\ \/ hook = "leaf" /\ hook' = "key" /\ swan' = Pair(Le.cert, swan.key) /\ Shown' = Shown
                 \/ hook = "key" /\ hook' = "panel cert" /\ swan' = Pair(swan.cert, Le.key)
                    /\ Shown' = Shown
                 \/ hook = "panel cert" /\ hook' = "panel key" /\ Shown' = Pair(Le.cert, Shown.key)
                    /\ swan' = swan
                 \/ hook = "panel key" /\ hook' = "load" /\ Shown' = Pair(Shown.cert, Le.key)
                    /\ swan' = swan
         /\ at = "panel" /\ WriteCert => Le' = Le /\ Shown' = Pair(cur.cert, Shown.key)
         /\ at = "panel" /\ WriteKey => Le' = Le /\ Shown' = Pair(Shown.cert, cur.key)
<1>1. "panel" \in Pairs /\ "le" \in Pairs \ {"panel"}
  BY DiskTyped
<1>2. \A f : /\ Put("panel", "cert", f) => Le' = Le /\ Shown' = Pair(f, Shown.key)
             /\ Put("panel", "key", f) => Le' = Le /\ Shown' = Pair(Shown.cert, f)
  BY <1>1, Puts DEF Le, Shown
<1>3. ASSUME HookCopies
      PROVE  /\ Le' = Le
             /\ \/ hook = "leaf" /\ hook' = "key" /\ swan' = Pair(Le.cert, swan.key) /\ Shown' = Shown
                \/ hook = "key" /\ hook' = "panel cert" /\ swan' = Pair(swan.cert, Le.key)
                   /\ Shown' = Shown
                \/ hook = "panel cert" /\ hook' = "panel key" /\ Shown' = Pair(Le.cert, Shown.key)
                   /\ swan' = swan
                \/ hook = "panel key" /\ hook' = "load" /\ Shown' = Pair(Shown.cert, Le.key)
                   /\ swan' = swan
  <2>1. \/ hook = "leaf" /\ hook' = "key" /\ swan' = Pair(Le.cert, swan.key) /\ disk' = disk
        \/ hook = "key" /\ hook' = "panel cert" /\ swan' = Pair(swan.cert, Le.key) /\ disk' = disk
        \/ hook = "panel cert" /\ hook' = "panel key" /\ Put("panel", "cert", Le.cert) /\ swan' = swan
        \/ hook = "panel key" /\ hook' = "load" /\ Put("panel", "key", Le.key) /\ swan' = swan
    BY <1>3 DEF HookCopies, Le
  <2>2. disk' = disk => Le' = Le /\ Shown' = Shown
    BY DEF Le, Shown
  <2> QED
    BY <1>2, <2>1, <2>2
<1> QED
  BY <1>2, <1>3 DEF WriteCert, WriteKey

\* The copies are where the start and the hook have brought them.
LEMMA AgreeKept ==
  ASSUME TypeInv, QuietInv, StartInv, OutcomeInv, AgreeInv, [Next]_vars
  PROVE  AgreeInv'
<1>1. /\ pc \in PCs /\ mode \in Modes /\ conf \in Modes /\ hook \in Steps /\ synced \in BOOLEAN
      /\ pc # "on" \/ mode # "letsencrypt" =>
           renew.pc = "idle" /\ hook = "off" /\ sighup = FALSE /\ read = None
      /\ hook # "off" => renew.pc \in {"hook", "back hook"}
  <2>1. synced \in BOOLEAN /\ sighup \in BOOLEAN
    BY DEF TypeInv, HistoryTypes, StartTypes
  <2> QED
    BY <2>1, RenewalIsTyped DEF QuietInv
<1>2. /\ served # None => Matches(served)
      /\ mode = "letsencrypt" /\ pc \in {"cert", "key", "serve"} =>
           /\ cur = Le /\ swan = Le /\ charon = Le
           /\ pc = "key" => Shown.cert = cur.cert
           /\ pc = "serve" => Shown = cur
      /\ hook = "key" => swan.cert = Le.cert
      /\ hook \in {"panel cert", "panel key", "load", "hup"} => swan = Le
      /\ hook = "panel key" => Shown.cert = Le.cert
      /\ hook \in {"load", "hup"} => Shown = Le
      /\ pc = "on" /\ mode = "letsencrypt" /\ synced =>
           /\ renew.pc \in {"idle", "verify", "back cert", "flag"} /\ Noticed
           /\ swan = Le /\ charon = Le /\ Shown = Le
  BY DEF AgreeInv, Le, Shown
<1>3. ASSUME served' # None => Matches(served)',
             mode' = "letsencrypt" /\ pc' \in {"cert", "key", "serve"} =>
               /\ cur' = Le' /\ swan' = Le' /\ charon' = Le'
               /\ pc' = "key" => Shown'.cert = cur'.cert
               /\ pc' = "serve" => Shown' = cur',
             hook' = "key" => swan'.cert = Le'.cert,
             hook' \in {"panel cert", "panel key", "load", "hup"} => swan' = Le',
             hook' = "panel key" => Shown'.cert = Le'.cert,
             hook' \in {"load", "hup"} => Shown' = Le',
             pc' = "on" /\ mode' = "letsencrypt" /\ synced' =>
               /\ renew'.pc \in {"idle", "verify", "back cert", "flag"} /\ Noticed'
               /\ swan' = Le' /\ charon' = Le' /\ Shown' = Le'
      PROVE  AgreeInv'
  BY <1>3 DEF AgreeInv, Le, Shown
<1>4. /\ disk' = disk => Le' = Le /\ Shown' = Shown
      /\ served' = served => Matches(served)' = Matches(served)
      /\ served' = served /\ sighup' = sighup /\ read' = read /\ Shown' = Shown => Noticed' = Noticed
      /\ Noticed = \/ sighup
                   \/ read # None /\ read = Shown.cert
                   \/ read = None /\ (Matches(Shown) => served = Shown)
      /\ Noticed' = \/ sighup'
                    \/ read' # None /\ read' = Shown'.cert
                    \/ read' = None /\ (Matches(Shown)' => served' = Shown')
  BY DEF Le, Shown, Noticed, Matches
<1>5. /\ renew.pc \notin {"idle", "verify", "back cert", "flag"} => synced = FALSE
      /\ hook # "off" => synced = FALSE
  BY <1>1, <1>2
<1>6. CASE Start \/ Refuse \/ LoadPair \/ Generate
  <2>1. served' = served /\ UNCHANGED <<disk, hook>> /\ pc' # "on"
    <3>1. ASSUME NEW p, Proceed(p) PROVE pc' # "on"
      BY <3>1 DEF Proceed
    <3> QED
      BY <1>6, <3>1 DEF Start, Refuse, Exit, LoadPair, Generate, script
  <2>2. pc' \in {"cert", "key", "serve"} => mode' # "letsencrypt"
    BY <1>1, <1>6 DEF Start, Refuse, Exit, LoadPair, Generate, StartInv, Modes, Own
  <2>3. hook = "off"
    BY <1>1, <1>6 DEF Start, Refuse, LoadPair, Generate
  <2> QED
    BY <1>2, <1>3, <1>4, <2>1, <2>2, <2>3
<1>7. CASE WriteCert \/ WriteKey
  <2>1. UNCHANGED <<cur, swan, charon, served, hook, mode>> /\ hook = "off" /\ pc \in {"cert", "key"}
    BY <1>1, <1>7 DEF WriteCert, WriteKey, script
  <2>2. pc' # "on" /\ (WriteCert => pc' = "key")
    <3>1. ASSUME NEW p, Proceed(p) PROVE pc' # "on"
      BY <3>1 DEF Proceed
    <3> QED
      BY <1>7, <3>1 DEF WriteCert, WriteKey
  <2>3. mode = "letsencrypt" /\ WriteCert => Le' = Le /\ Shown'.cert = cur.cert
    <3>1. mode = "letsencrypt" /\ WriteCert => at = "panel"
      BY DEF WriteCert, StartInv
    <3>2. mode = "letsencrypt" /\ WriteCert => Le' = Le /\ Shown' = Pair(cur.cert, Shown.key)
      BY <3>1, CopySteps
    <3> QED
      BY <3>2, PairsTyped
  <2>4. mode = "letsencrypt" /\ WriteKey => Le' = Le /\ Shown' = cur /\ pc' = "serve"
    <3>1. mode = "letsencrypt" /\ WriteKey => at = "panel" /\ Shown.cert = cur.cert
      BY <1>2 DEF WriteKey, StartInv
    <3>2. mode = "letsencrypt" /\ WriteKey => Le' = Le /\ Shown' = Pair(Shown.cert, cur.key)
      BY <3>1, CopySteps
    <3>3. at = "panel" /\ WriteKey => pc' = "serve"
      BY Proceeds DEF WriteKey, Own
    <3> QED
      BY <3>1, <3>2, <3>3, PairsTyped, DiskTyped
  <2> QED
    BY <1>2, <1>3, <1>4, <1>7, <2>1, <2>2, <2>3, <2>4
<1>8. CASE Issue \/ UseIssued
  <2>1. served' = served /\ hook' = hook /\ hook = "off"
    BY <1>1, <1>8 DEF Issue, UseIssued, Exit, script
  <2>2. pc' = "down" \/ (pc' = "cert" /\ cur' = Le' /\ swan' = Le' /\ charon' = Le')
    BY <1>8, DiskTyped DEF Issue, UseIssued, Exit, Le
  <2> QED
    BY <1>2, <1>3, <1>4, <2>1, <2>2
<1>9. CASE Serve
  <2>1. /\ UNCHANGED <<disk, mode, hook, renew, sighup, read, cur>> /\ hook = "off" /\ renew.pc = "idle"
        /\ sighup = FALSE /\ read = None /\ pc = "serve"
    BY <1>1, <1>9 DEF Serve, Exit, script
  <2>2. CASE pc' = "down"
    <3>1. served' = served
      BY <1>9, <2>2 DEF Serve, Exit
    <3> QED
      BY <1>2, <1>3, <1>4, <2>1, <2>2, <3>1
  <2>3. CASE pc' # "down"
    <3>1. /\ Matches(Serving) /\ pc' = "on" /\ served' = Serving
          /\ mode = "letsencrypt" => UNCHANGED <<swan, charon>>
      BY <1>9, <2>3 DEF Serve, Exit
    <3>2. mode = "letsencrypt" => served' = cur
      BY <3>1 DEF Serving
    <3>3. Matches(served)'
      BY <3>1 DEF Matches
    <3>4. mode = "letsencrypt" => Noticed' /\ swan' = Le' /\ charon' = Le' /\ Shown' = Le'
      BY <1>2, <1>4, <2>1, <3>1, <3>2
    <3> QED
      BY <1>3, <2>1, <3>1, <3>3, <3>4
  <2> QED
    BY <2>2, <2>3
<1>10. CASE Running
  <2>1. /\ UNCHANGED <<pc, mode, renew, hook, disk, synced>> /\ pc = "on" /\ hook' = hook
        /\ UNCHANGED <<swan, cur>>
    BY <1>10 DEF Running, SaveCertConfig, ReloadAll, ReadCert, ReloadPanelTLSCert, panel, script, history
  <2>2. charon' = charon \/ charon' = swan
    BY <1>10 DEF Running, SaveCertConfig, ReloadAll, ReadCert, ReloadPanelTLSCert
  <2>3. served' # None => Matches(served)'
    <3>1. CASE ReloadPanelTLSCert
      <4>1. Matches(Pair(read, disk["panel"].key)) => Matches(served)' \/ served' = served
        BY <3>1 DEF ReloadPanelTLSCert, Matches
      <4>2. served' = served \/ Matches(Pair(read, disk["panel"].key))
        BY <3>1 DEF ReloadPanelTLSCert
      <4> QED
        BY <1>2, <1>4, <4>1, <4>2
    <3>2. CASE ~ReloadPanelTLSCert
      <4>1. served' = served
        BY <1>10, <3>2 DEF Running, SaveCertConfig, ReloadAll, ReadCert, panel
      <4> QED
        BY <1>2, <1>4, <4>1
    <3> QED
      BY <3>1, <3>2
  <2>4. mode = "letsencrypt" /\ synced => Noticed'
    <3> SUFFICES ASSUME mode = "letsencrypt", synced PROVE Noticed'
      OBVIOUS
    <3>1. Noticed /\ Shown = Le /\ IsFile(Le.cert)
      BY <1>2, <2>1 DEF OutcomeInv, LeWhole, Le
    <3>2. CASE ReadCert
      <4>1. read' = Shown'.cert /\ Shown' = Shown
        BY <3>2 DEF ReadCert, Shown
      <4>2. read' # None
        BY <3>1, <4>1, FilesAre
      <4> QED
        BY <1>4, <4>1, <4>2
    <3>3. CASE ReloadPanelTLSCert
      <4>1. /\ read # None /\ read' = None /\ sighup' = sighup /\ Shown' = Shown
            /\ served' = IF Matches(Pair(read, Shown.key)) THEN Pair(read, Shown.key) ELSE served
        BY <3>3 DEF ReloadPanelTLSCert, Shown
      <4>2. sighup \/ read = Shown.cert
        BY <1>4, <3>1, <4>1
      <4>3. read = Shown.cert => Pair(read, Shown.key) = Shown
        BY PairsTyped, DiskTyped DEF Shown
      <4>4. Matches(Shown)' = Matches(Shown)
        BY <4>1 DEF Matches
      <4> QED
        BY <1>4, <4>1, <4>2, <4>3, <4>4
    <3>4. CASE ~ReadCert /\ ~ReloadPanelTLSCert
      <4>1. UNCHANGED <<served, sighup, read>>
        BY <1>10, <3>4 DEF Running, SaveCertConfig, ReloadAll, panel
      <4> QED
        BY <1>4, <2>1, <3>1, <4>1
    <3> QED
      BY <3>2, <3>3, <3>4
  <2> QED
    BY <1>2, <1>3, <1>4, <2>1, <2>2, <2>3, <2>4
<1>11. CASE Renewal
  <2>1. UNCHANGED <<pc, mode, served, sighup, read, cur, swan, charon, hook>>
    BY <1>11 DEF Renewal, Backup, Acme, AcmeInstalls, Verify, RollBackCert, RollBackKey, SetFlag,
                 ScriptDies, panel
  <2>2. hook = "off" /\ pc = "on"
    <3>1. renew.pc = "idle" \/ renew.pc \notin {"hook", "back hook"}
      BY <1>11 DEF Renewal, Backup, Acme, AcmeInstalls, Verify, RollBackCert, RollBackKey, SetFlag, ScriptDies
    <3>2. renew.pc # "idle" \/ pc = "on"
      BY <1>11 DEF Renewal, Backup, Acme, AcmeInstalls, Verify, RollBackCert, RollBackKey, SetFlag, ScriptDies
    <3> QED
      BY <1>1, <3>1, <3>2
  <2>3. synced' = FALSE \/ (synced' = synced /\ disk' = disk /\ renew'.pc \in {"idle", "back cert"})
    <3>1. (\E hand \in BOOLEAN : Backup(hand)) \/ RollBackCert => synced' = FALSE
      BY DEF Backup, RollBackCert
    <3>2. Acme \/ AcmeInstalls \/ RollBackKey => synced' = FALSE
      BY <1>5 DEF Acme, AcmeInstalls, RollBackKey, history
    <3>3. Verify \/ SetFlag \/ ScriptDies =>
            synced' = synced /\ disk' = disk /\ renew'.pc \in {"idle", "back cert"}
      <4>1. Verify \/ SetFlag \/ ScriptDies => synced' = synced /\ disk' = disk
        BY DEF Verify, SetFlag, ScriptDies, history
      <4>2. SetFlag \/ ScriptDies => renew'.pc = "idle"
        BY RenewalsTyped DEF SetFlag, ScriptDies
      <4>3. Verify => renew' = Resting \/ Moved("back cert")
        BY RenewalSteps
      <4>4. Verify => renew'.pc \in {"idle", "back cert"}
        BY <4>3, RenewalsTyped DEF Moved
      <4> QED
        BY <4>1, <4>2, <4>4
    <3> QED
      BY <1>11, <3>1, <3>2, <3>3 DEF Renewal
  <2>4. synced' = FALSE => AgreeInv'
    BY <1>2, <1>3, <1>4, <2>1, <2>2
  <2>5. ASSUME synced' = synced, disk' = disk, renew'.pc \in {"idle", "back cert"}
        PROVE  AgreeInv'
    BY <1>2, <1>3, <1>4, <2>1, <2>2, <2>5
  <2> QED
    BY <2>3, <2>4, <2>5
<1>12. CASE HookStarts \/ HookCopies \/ LoadCreds
  <2>1. /\ UNCHANGED <<pc, mode, served, cur>> /\ synced' = synced
        /\ HookStarts \/ LoadCreds => UNCHANGED <<disk, swan>>
    BY <1>12 DEF HookStarts, HookCopies, LoadCreds, panel, history
  <2>2. synced = FALSE /\ pc = "on"
    BY <1>1, <1>5, <1>12 DEF HookStarts, HookCopies, LoadCreds
  <2>3. CASE HookStarts
    BY <1>2, <1>3, <1>4, <2>1, <2>2, <2>3 DEF HookStarts
  <2>4. CASE HookCopies
    <3>1. /\ Le' = Le
          /\ \/ hook' = "key" /\ swan'.cert = Le.cert
             \/ hook' = "panel cert" /\ swan' = Le
             \/ hook' = "panel key" /\ Shown'.cert = Le.cert /\ swan' = Le
             \/ hook' = "load" /\ Shown' = Le /\ swan' = Le
      <4>1. Le = Pair(Le.cert, Le.key)
        BY PairsTyped, DiskTyped DEF Le
      <4>2. hook = "leaf" => hook' = "key" /\ swan'.cert = Le.cert
        <5>1. hook = "leaf" => hook' = "key" /\ swan' = Pair(Le.cert, swan.key)
          BY <2>4, CopySteps
        <5> QED
          BY <5>1, PairsTyped
      <4>3. hook = "key" => hook' = "panel cert" /\ swan' = Le
        BY <1>2, <2>4, <4>1, CopySteps
      <4>4. hook = "panel cert" => hook' = "panel key" /\ Shown'.cert = Le.cert /\ swan' = Le
        <5>1. hook = "panel cert" => hook' = "panel key" /\ Shown' = Pair(Le.cert, Shown.key) /\ swan' = Le
          BY <1>2, <2>4, CopySteps
        <5> QED
          BY <5>1, PairsTyped
      <4>5. hook = "panel key" => hook' = "load" /\ Shown' = Le /\ swan' = Le
        BY <1>2, <2>4, <4>1, CopySteps
      <4> QED
        BY <2>4, <4>2, <4>3, <4>4, <4>5, CopySteps
    <3> QED
      BY <1>2, <1>3, <1>4, <2>1, <2>2, <3>1
  <2>5. CASE LoadCreds
    BY <1>2, <1>3, <1>4, <2>1, <2>2, <2>5 DEF LoadCreds
  <2> QED
    BY <1>12, <2>3, <2>4, <2>5
<1>13. CASE HookRefuses \/ HookFails
  <2>1. /\ UNCHANGED <<pc, mode, served, cur, disk, swan>> /\ synced' = synced /\ hook' = "off"
    BY <1>13, HookReturns DEF HookRefuses, HookFails, panel, history
  <2>2. synced = FALSE /\ pc = "on"
    BY <1>1, <1>5, <1>13 DEF HookRefuses, HookFails, Steps
  <2> QED
    BY <1>2, <1>3, <1>4, <2>1, <2>2
<1>14. CASE SendHup
  <2>1. /\ UNCHANGED <<pc, mode, served, cur, disk, swan, charon>> /\ synced' = (charon = swan)
        /\ hook' = "off" /\ hook = "hup" /\ pc = "on" /\ sighup' = TRUE
    BY <1>1, <1>14, HookReturns DEF SendHup
  <2>2. renew'.pc \in {"verify", "back cert", "flag"}
    BY <1>14, HookReturns DEF Moved
  <2>3. synced' => swan' = Le' /\ charon' = Le' /\ Shown' = Le'
    BY <1>2, <1>4, <2>1
  <2> QED
    BY <1>2, <1>3, <1>4, <2>1, <2>2, <2>3
<1>15. CASE Crash
  <2>1. served' = None /\ pc' = "down" /\ hook' = "off"
    BY <1>15 DEF Crash
  <2> QED
    BY <1>3, <2>1
<1>16. CASE Operator
  <2>1. pc = "down" /\ UNCHANGED <<pc, hook, served>>
    BY <1>16 DEF Operator, LoseFile, RemovePair, panel, script
  <2> QED
    BY <1>1, <1>2, <1>3, <1>4, <2>1
<1>17. CASE UNCHANGED vars
  <2>1. /\ UNCHANGED <<pc, mode, served, sighup, read, cur, swan, charon, hook, renew, disk>>
        /\ synced' = synced
    BY <1>17 DEF vars, panel, script, history
  <2> QED
    BY <1>2, <1>3, <1>4, <2>1
<1> QED
  BY <1>6, <1>7, <1>8, <1>9, <1>10, <1>11, <1>12, <1>13, <1>14, <1>15, <1>16, <1>17
  DEF Next, StartUp, Hook

-----------------------------------------------------------------------------
(* Proofs: the CA in the profiles. *)

\* The pair of the CA and that of the server.
Ca == disk["ca"]
Srv == disk["server"]

\* What a step on the disk makes of the two.
LEMMA CaSteps ==
  ASSUME TypeInv
  PROVE  /\ disk' = disk => Ca' = Ca /\ Srv' = Srv
         /\ \A p \in Pairs : /\ Wrote(p) /\ p # "ca" => Ca' = Ca
                             /\ Wrote(p) /\ p # "server" => Srv' = Srv
         /\ \A f : /\ Put("ca", "cert", f) => Ca' = Pair(f, Ca.key) /\ Srv' = Srv
                   /\ Put("ca", "key", f) => Ca' = Pair(Ca.cert, f) /\ Srv' = Srv
                   /\ Put("server", "cert", f) => Srv' = Pair(f, Srv.key) /\ Ca' = Ca
                   /\ Put("server", "key", f) => Srv' = Pair(Srv.cert, f) /\ Ca' = Ca
<1>1. "ca" \in Pairs /\ "server" \in Pairs /\ "ca" # "server"
  BY DiskTyped
<1>2. \A f : /\ Put("ca", "cert", f) => Ca' = Pair(f, Ca.key) /\ Srv' = Srv
             /\ Put("ca", "key", f) => Ca' = Pair(Ca.cert, f) /\ Srv' = Srv
  BY <1>1, Puts DEF Ca, Srv
<1>3. \A f : /\ Put("server", "cert", f) => Srv' = Pair(f, Srv.key) /\ Ca' = Ca
             /\ Put("server", "key", f) => Srv' = Pair(Srv.cert, f) /\ Ca' = Ca
  BY <1>1, Puts DEF Ca, Srv
<1>4. \A p \in Pairs : /\ Wrote(p) /\ p # "ca" => Ca' = Ca
                       /\ Wrote(p) /\ p # "server" => Srv' = Srv
  BY <1>1 DEF Wrote, Ca, Srv
<1> QED
  BY <1>2, <1>3, <1>4 DEF Ca, Srv

\* Until the operator gives it up, the CA in the profiles stays.
LEMMA EnrolKept ==
  ASSUME TypeInv, QuietInv, StartInv, EnrolInv, [Next]_vars
  PROVE  EnrolInv'
<1> SUFFICES ASSUME enrolled' # Empty
             PROVE  EnrolInv'
  BY DEF EnrolInv
<1>1. /\ pc \in PCs /\ mode \in Modes /\ conf \in Modes /\ at \in Pairs /\ Own = {"ca", "server", "panel"}
      /\ pc # "on" \/ mode # "letsencrypt" =>
           renew.pc = "idle" /\ hook = "off" /\ sighup = FALSE /\ read = None
      /\ \A c, k : Pair(c, k).cert = c /\ Pair(c, k).key = k
      /\ NoPair.cert = None /\ NoPair.key = None /\ None # Empty
      /\ ~IsFile(None) /\ ~IsFile(Empty)
  <2>1. sighup \in BOOLEAN
    BY DEF TypeInv, StartTypes
  <2> QED
    BY <2>1, RenewalIsTyped, PairsTyped, FilesAre DEF QuietInv, Own
<1>2. ASSUME enrolled # Empty
      PROVE  /\ IsFile(Srv.cert) => Ca # NoPair /\ (IsFile(Ca.cert) => Srv.cert.ca = Ca.cert.no)
             /\ enrolled # None => Ca # NoPair /\ (IsFile(Ca.cert) => Ca.cert.no = enrolled)
             /\ mode = "self-signed" /\ pc = "cert" =>
                  /\ at = "ca" => enrolled = None /\ ~IsFile(Srv.cert)
                  /\ at = "server" => cur.cert.ca = Ca.cert.no
             /\ mode = "self-signed" /\ pc = "on" => Ca.cert.no = enrolled /\ served.cert.ca = enrolled
  BY <1>2 DEF EnrolInv, Missing, Ca, Srv
<1>3. ASSUME IsFile(Srv.cert)' => Ca' # NoPair /\ (IsFile(Ca.cert)' => Srv'.cert.ca = Ca'.cert.no),
             enrolled' # None => Ca' # NoPair /\ (IsFile(Ca.cert)' => Ca'.cert.no = enrolled'),
             mode' = "self-signed" /\ pc' = "cert" =>
               /\ at' = "ca" => enrolled' = None /\ ~IsFile(Srv.cert)'
               /\ at' = "server" => cur'.cert.ca = Ca'.cert.no,
             mode' = "self-signed" /\ pc' = "on" => Ca'.cert.no = enrolled' /\ served'.cert.ca = enrolled'
      PROVE  EnrolInv'
  BY <1>3 DEF EnrolInv, Missing, Ca, Srv
<1>4. /\ Ca' = Ca => (IsFile(Ca.cert)' <=> IsFile(Ca.cert))
      /\ Srv' = Srv => (IsFile(Srv.cert)' <=> IsFile(Srv.cert))
      /\ \A f : Ca'.cert = f => (IsFile(Ca.cert)' <=> IsFile(f))
      /\ \A f : Srv'.cert = f => (IsFile(Srv.cert)' <=> IsFile(f))
  BY DEF IsFile
<1>5. /\ mode = "self-signed" /\ pc \in {"cert", "key"} => at \in Own /\ IsFile(cur.cert) /\ IsFile(cur.key)
      /\ mode = "self-signed" /\ pc \in {"cert", "key"} /\ at # "ca" => IsFile(Ca.cert) /\ IsFile(Ca.key)
      /\ mode = "self-signed" /\ pc = "serve" => IsFile(Ca.cert) /\ IsFile(Ca.key)
      /\ mode = "letsencrypt" /\ pc \in {"cert", "key"} => at = "panel"
      /\ mode = "letsencrypt" /\ pc = "look" => at = "le"
      /\ mode = "self-signed" /\ pc = "look" => at \in Own
  BY FilesAre DEF StartInv, Whole, Ca
<1>6. ASSUME Ca' = Ca, Srv' = Srv, enrolled' = enrolled, mode' = "self-signed" => pc' \notin {"cert", "on"}
      PROVE  EnrolInv'
  BY <1>2, <1>3, <1>4, <1>6
<1>7. ASSUME Ca' = Ca, Srv' = Srv, enrolled' = enrolled, UNCHANGED <<pc, mode, at, cur>>,
             mode = "self-signed" => served' = served
      PROVE  EnrolInv'
  BY <1>2, <1>3, <1>4, <1>7
<1>8. CASE Start \/ LoadPair \/ Refuse \/ Issue \/ UseIssued
  <2>1. enrolled' = enrolled /\ (mode' = "self-signed" => pc' \notin {"cert", "on"})
    <3>1. ASSUME NEW p, Proceed(p) PROVE pc' \notin {"cert", "on"}
      BY <3>1 DEF Proceed
    <3> QED
      BY <1>1, <1>5, <1>8, <3>1 DEF Start, LoadPair, Refuse, Exit, Issue, UseIssued, history, Modes
  <2>2. Ca' = Ca /\ Srv' = Srv
    <3>1. disk' = disk \/ Issue
      BY <1>8 DEF Start, LoadPair, Refuse, UseIssued
    <3>2. Issue => Wrote("le")
      BY Touches
    <3> QED
      BY <3>1, <3>2, CaSteps, DiskTyped
  <2> QED
    BY <1>6, <2>1, <2>2
<1>9. CASE Generate
  <2>1. /\ enrolled' = enrolled /\ mode' = mode /\ at' = at /\ pc' = "cert" /\ Ca' = Ca /\ Srv' = Srv
        /\ mode = "letsencrypt" => at = "le" /\ at \in Own
    BY <1>5, <1>9, CaSteps DEF Generate, history
  <2>2. at = "ca" => Ca = NoPair
    BY <1>9 DEF Generate, Missing, Ca
  <2>3. at = "server" => cur'.cert.ca = Ca.cert.no
    <3>1. at = "server" =>
            cur' = Pair(Cert(made + 1, made + 1, disk["ca"].cert.no), made + 1)
      BY <1>9 DEF Generate
    <3>2. at = "server" => cur'.cert = Cert(made + 1, made + 1, disk["ca"].cert.no)
      BY <1>1, <3>1
    <3>3. \A ca : Cert(made + 1, made + 1, ca).ca = ca
      BY DEF Cert
    <3> QED
      BY <3>2, <3>3 DEF Ca
  <2> QED
    BY <1>1, <1>2, <1>3, <1>4, <2>1, <2>2, <2>3
<1>10. CASE WriteCert
  <2>1. /\ enrolled' = enrolled /\ mode' = mode /\ at' = at /\ pc' = "key" /\ pc = "cert"
        /\ Put(at, "cert", cur.cert)
    BY <1>10 DEF WriteCert, history
  <2>2. CASE mode = "letsencrypt" \/ at \notin {"ca", "server"}
    <3>1. at \notin {"ca", "server"}
      BY <1>5, <2>1, <2>2
    <3>2. Wrote(at)
      BY <1>1, <1>10, Touches
    <3>3. Ca' = Ca /\ Srv' = Srv
      BY <1>1, <3>1, <3>2, CaSteps
    <3> QED
      BY <1>6, <2>1, <3>3
  <2>3. CASE mode = "self-signed" /\ at = "ca"
    <3>1. Srv' = Srv /\ ~IsFile(Srv.cert) /\ enrolled = None
      BY <1>2, <2>1, <2>3, CaSteps
    <3> QED
      BY <1>3, <1>4, <2>1, <3>1
  <2>4. CASE mode = "self-signed" /\ at = "server"
    <3>1. Ca' = Ca /\ Srv' = Pair(cur.cert, Srv.key)
      BY <2>1, <2>4, CaSteps
    <3>2. Srv'.cert = cur.cert /\ cur.cert.ca = Ca.cert.no /\ Ca # NoPair
      BY <1>1, <1>2, <1>5, <2>1, <2>4, <3>1
    <3> QED
      BY <1>2, <1>3, <1>4, <2>1, <3>1, <3>2
  <2> QED
    BY <1>1, <2>2, <2>3, <2>4 DEF Modes
<1>11. CASE WriteKey
  <2>1. enrolled' = enrolled /\ mode' = mode /\ pc = "key" /\ Put(at, "key", cur.key) /\ pc' \notin {"cert", "on"}
    <3>1. ASSUME NEW p, Proceed(p) PROVE pc' \notin {"cert", "on"}
      BY <3>1 DEF Proceed
    <3> QED
      BY <1>11, <3>1 DEF WriteKey, history
  <2>2. CASE mode = "letsencrypt" \/ at \notin {"ca", "server"}
    <3>1. at \notin {"ca", "server"}
      BY <1>5, <2>1, <2>2
    <3>2. Wrote(at)
      BY <1>1, <1>11, Touches
    <3>3. Ca' = Ca /\ Srv' = Srv
      BY <1>1, <3>1, <3>2, CaSteps
    <3> QED
      BY <1>6, <2>1, <3>3
  <2>3. CASE mode = "self-signed" /\ at = "ca"
    <3>1. Srv' = Srv /\ Ca' = Pair(Ca.cert, cur.key)
      BY <2>1, <2>3, CaSteps
    <3>2. Ca'.cert = Ca.cert /\ Ca' # NoPair
      <4>1. Ca'.cert = Ca.cert /\ Ca'.key = cur.key
        BY <1>1, <3>1
      <4> QED
        BY <1>1, <1>5, <2>1, <2>3, <4>1
    <3> QED
      BY <1>2, <1>3, <1>4, <2>1, <3>1, <3>2
  <2>4. CASE mode = "self-signed" /\ at = "server"
    <3>1. Ca' = Ca /\ Srv' = Pair(Srv.cert, cur.key)
      BY <2>1, <2>4, CaSteps
    <3>2. Srv'.cert = Srv.cert
      BY <1>1, <3>1
    <3> QED
      BY <1>2, <1>3, <1>4, <2>1, <3>1, <3>2
  <2> QED
    BY <1>1, <2>2, <2>3, <2>4 DEF Modes
<1>12. CASE Serve
  <2>1. Ca' = Ca /\ Srv' = Srv /\ mode' = mode /\ pc = "serve"
    BY <1>12, CaSteps DEF Serve, Exit
  <2>2. CASE mode = "letsencrypt" \/ pc' = "down"
    <3>1. enrolled' = enrolled
      BY <1>12, <2>2 DEF Serve, history
    <3> QED
      BY <1>6, <2>1, <2>2, <3>1
  <2>3. CASE mode = "self-signed" /\ pc' # "down"
    <3>1. /\ Matches(Srv) /\ pc' = "on" /\ served' = Srv
          /\ enrolled' = IF enrolled = None THEN Ca.cert.no ELSE enrolled
      BY <1>12, <2>3 DEF Serve, Serving, Exit, Srv, Ca
    <3>2. IsFile(Srv.cert) /\ IsFile(Ca.cert) /\ enrolled # Empty /\ Ca # NoPair
      BY <1>1, <1>5, <2>1, <2>3, <3>1 DEF Matches
    <3>3. enrolled' = Ca.cert.no /\ Srv.cert.ca = Ca.cert.no
      BY <1>2, <3>1, <3>2
    <3> QED
      BY <1>3, <1>4, <2>1, <3>1, <3>2, <3>3
  <2> QED
    BY <1>1, <2>2, <2>3 DEF Modes
<1>13. CASE Running
  <2>1. disk' = disk /\ UNCHANGED <<pc, mode, at, cur>> /\ enrolled' = enrolled /\ pc = "on"
    BY <1>13 DEF Running, SaveCertConfig, ReloadAll, ReadCert, ReloadPanelTLSCert, panel, history
  <2>2. mode = "self-signed" => served' = served
    BY <1>1, <1>13 DEF Running, SaveCertConfig, ReloadAll, ReadCert, ReloadPanelTLSCert, panel
  <2> QED
    BY <1>7, <2>1, <2>2, CaSteps
<1>14. CASE Renewal
  <2>1. UNCHANGED <<pc, mode, at, cur, served>> /\ enrolled' = enrolled
    BY <1>14 DEF Renewal, Backup, Acme, AcmeInstalls, Verify, RollBackCert, RollBackKey, SetFlag,
                 ScriptDies, panel, history
  <2>2. disk' = disk \/ Wrote("le")
    <3>1. disk' = disk \/ AcmeInstalls \/ RollBackCert \/ RollBackKey
      BY <1>14 DEF Renewal, Backup, Acme, Verify, SetFlag, ScriptDies
    <3> QED
      BY <3>1, Touches
  <2> QED
    BY <1>7, <2>1, <2>2, CaSteps, DiskTyped
<1>15. CASE Hook
  <2>1. UNCHANGED <<pc, mode, at, cur, served>> /\ enrolled' = enrolled
    BY <1>15 DEF Hook, HookStarts, HookRefuses, HookCopies, LoadCreds, SendHup, HookFails, panel, history
  <2>2. disk' = disk \/ Wrote("panel")
    <3>1. disk' = disk \/ HookCopies
      BY <1>15 DEF Hook, HookStarts, HookRefuses, LoadCreds, SendHup, HookFails
    <3> QED
      BY <3>1, Touches
  <2> QED
    BY <1>7, <2>1, <2>2, CaSteps, DiskTyped
<1>16. CASE Crash
  <2>1. pc' = "down" /\ enrolled' = enrolled
    BY <1>16 DEF Crash
  <2>2. CASE disk' = disk
    BY <1>6, <2>1, <2>2, CaSteps
  <2>3. ASSUME NEW w \in Writing, Wrote(w[1]), Put(w[1], w[2], Empty)
        PROVE  EnrolInv'
    <3>1. w[1] \in Pairs /\ (w[1] = "le" \/ (w[1] = at /\ w[2] = pc /\ pc \in {"cert", "key"}))
      BY <2>3, WritingTyped
    <3>2. CASE w[1] \notin {"ca", "server"}
      <4>1. Ca' = Ca /\ Srv' = Srv
        BY <2>3, <3>1, <3>2, CaSteps
      <4> QED
        BY <1>6, <2>1, <4>1
    <3>3. CASE w[1] = "ca"
      <4>1. mode = "self-signed" /\ pc \in {"cert", "key"} /\ w[2] = pc /\ at = "ca"
        BY <1>1, <1>5, <3>1, <3>3 DEF Modes
      <4>2. CASE pc = "cert"
        <5>1. Srv' = Srv /\ ~IsFile(Srv.cert) /\ enrolled = None
          BY <1>2, <2>1, <2>3, <3>3, <4>1, <4>2, CaSteps
        <5> QED
          BY <1>3, <1>4, <2>1, <5>1
      <4>3. CASE pc = "key"
        <5>1. Srv' = Srv /\ Ca' = Pair(Ca.cert, Empty)
          BY <2>3, <3>3, <4>1, <4>3, CaSteps
        <5>2. Ca'.cert = Ca.cert /\ Ca' # NoPair
          <6>1. Ca'.cert = Ca.cert /\ Ca'.key = Empty
            BY <1>1, <5>1
          <6> QED
            BY <1>1, <6>1
        <5> QED
          BY <1>2, <1>3, <1>4, <2>1, <5>1, <5>2
      <4> QED
        BY <4>1, <4>2, <4>3
    <3>4. CASE w[1] = "server"
      <4>1. pc \in {"cert", "key"} /\ w[2] = pc
        BY <3>1, <3>4
      <4>2. Ca' = Ca /\ (Srv'.cert = Empty \/ Srv'.cert = Srv.cert)
        <5>1. Ca' = Ca /\ (Srv' = Pair(Empty, Srv.key) \/ Srv' = Pair(Srv.cert, Empty))
          BY <2>3, <3>4, <4>1, CaSteps
        <5> QED
          BY <1>1, <5>1
      <4> QED
        BY <1>1, <1>2, <1>3, <1>4, <2>1, <4>2
    <3> QED
      BY <3>2, <3>3, <3>4
  <2> QED
    BY <1>16, <2>2, <2>3, Touches
<1>17. ASSUME NEW p \in {"ca", "server"}, NEW part \in Parts, LoseFile(p, part)
       PROVE  EnrolInv'
  <2>1. pc = "down" /\ pc' = "down" /\ enrolled' = enrolled /\ Put(p, part, None) /\ Whole(p)
    BY <1>17 DEF LoseFile, panel, history
  <2>2. part = "cert" \/ part = "key"
    BY DEF Parts
  <2>3. CASE p = "ca"
    <3>1. Srv' = Srv /\ (Ca' = Pair(None, Ca.key) \/ Ca' = Pair(Ca.cert, None))
      BY <2>1, <2>2, <2>3, CaSteps
    <3>2. IsFile(Ca.cert) /\ IsFile(Ca.key)
      BY <2>1, <2>3 DEF Whole, Ca
    <3>3. Ca' # NoPair /\ (Ca'.cert = None \/ Ca'.cert = Ca.cert)
      <4>1. (Ca'.cert = None /\ Ca'.key = Ca.key) \/ Ca'.cert = Ca.cert
        BY <1>1, <3>1
      <4> QED
        BY <1>1, <3>2, <4>1
    <3> QED
      BY <1>1, <1>2, <1>3, <1>4, <2>1, <3>1, <3>3
  <2>4. CASE p = "server"
    <3>1. Ca' = Ca /\ (Srv' = Pair(None, Srv.key) \/ Srv' = Pair(Srv.cert, None))
      BY <2>1, <2>2, <2>4, CaSteps
    <3>2. Srv'.cert = None \/ Srv'.cert = Srv.cert
      BY <1>1, <3>1
    <3> QED
      BY <1>1, <1>2, <1>3, <1>4, <2>1, <3>1, <3>2
  <2> QED
    BY <2>3, <2>4
<1>18. ASSUME NEW p \in Own, RemovePair(p)
       PROVE  EnrolInv'
  <2>1. /\ pc = "down" /\ pc' = "down" /\ Wrote(p) /\ p \in Pairs /\ disk'[p] = NoPair
        /\ enrolled' = IF p = "ca" /\ (enrolled # None \/ ~Missing("server")) THEN Empty ELSE enrolled
    BY <1>1, <1>18, Touches, DiskTyped DEF RemovePair, panel
  <2>2. CASE p = "ca"
    <3>1. enrolled' = None /\ Srv = NoPair /\ Srv' = Srv
      BY <2>1, <2>2, CaSteps DEF Missing, Srv
    <3> QED
      BY <1>1, <1>3, <1>4, <2>1, <3>1
  <2>3. CASE p = "server"
    <3>1. enrolled' = enrolled /\ Srv' = NoPair /\ Ca' = Ca
      BY <2>1, <2>3, CaSteps DEF Srv
    <3>2. Srv'.cert = None
      BY <1>1, <3>1
    <3> QED
      BY <1>1, <1>2, <1>3, <1>4, <2>1, <3>1, <3>2
  <2>4. CASE p \notin {"ca", "server"}
    <3>1. enrolled' = enrolled /\ Srv' = Srv /\ Ca' = Ca
      BY <2>1, <2>4, CaSteps
    <3> QED
      BY <1>6, <2>1, <3>1
  <2> QED
    BY <2>2, <2>3, <2>4
<1>19. CASE UNCHANGED vars
  BY <1>7, <1>19, CaSteps DEF vars, panel, history
<1> QED
  BY <1>8, <1>9, <1>10, <1>11, <1>12, <1>13, <1>14, <1>15, <1>16, <1>17, <1>18, <1>19
  DEF Next, StartUp, Operator

-----------------------------------------------------------------------------
(* Theorems. *)

\* Everything but the CA's own invariant, which is kept from the rest.
CertsInv == TypeInv /\ QuietInv /\ StartInv /\ OutcomeInv /\ AgreeInv

\* Every step keeps the types.
LEMMA NextTyped ==
  ASSUME TypeInv, StartInv, OutcomeInv, [Next]_vars
  PROVE  TypeInv'
<1>1. CASE StartUp
  BY <1>1, StartTyped, ServeTyped DEF StartUp
<1>2. CASE UNCHANGED vars
  <2>1. /\ disk' = disk /\ swan' = swan /\ charon' = charon /\ conf' = conf /\ panel' = panel
        /\ script' = script /\ flag' = flag /\ bounds' = bounds /\ history' = history
    BY <1>2 DEF vars
  <2> QED
    BY <2>1, TypesKept DEF TypeInv
<1> QED
  BY <1>1, <1>2, RunningTyped, RenewalTyped, HookTyped, OutsideTyped DEF Next

\* The program starts with all of it.
LEMMA InitHolds ==
  ASSUME Init
  PROVE  CertsInv /\ EnrolInv
<1>1. /\ NoPair \in PairOf /\ NoPair.cert = None /\ NoPair.key = None /\ Resting \in Renewals
      /\ Resting.pc = "idle" /\ ~IsFile(None) /\ None \in Files /\ None # Empty
      /\ "ca" \in Pairs /\ "server" \in Pairs /\ "le" \in Pairs
  BY PairsTyped, RenewalsTyped, FilesAre DEF Files, Pairs, Own
<1>2. TypeInv
  <2>1. DiskTypes
    BY <1>1 DEF Init, DiskTypes
  <2>2. StartTypes
    BY <1>1 DEF Init, StartTypes, Modes
  <2>3. RenewTypes
    BY <1>1 DEF Init, RenewTypes, Steps
  <2>4. BoundTypes
    BY BoundsAssumption DEF Init, BoundTypes
  <2>5. HistoryTypes
    BY <1>1 DEF Init, HistoryTypes
  <2> QED
    BY <2>1, <2>2, <2>3, <2>4, <2>5 DEF TypeInv
<1>3. QuietInv /\ StartInv
  BY <1>1 DEF Init, QuietInv, StartInv
<1>4. OutcomeInv
  BY <1>1 DEF Init, OutcomeInv
<1>5. AgreeInv
  BY <1>1 DEF Init, AgreeInv
<1>6. EnrolInv
  BY <1>1 DEF Init, EnrolInv
<1> QED
  BY <1>2, <1>3, <1>4, <1>5, <1>6 DEF CertsInv

\* Everything holds in every state that can be reached.
THEOREM CertsInvHolds == Spec => [](CertsInv /\ EnrolInv)
<1>1. Init => CertsInv /\ EnrolInv
  BY InitHolds
<1>2. CertsInv /\ EnrolInv /\ [Next]_vars => (CertsInv /\ EnrolInv)'
  <2> SUFFICES ASSUME CertsInv, EnrolInv, [Next]_vars
               PROVE  CertsInv' /\ EnrolInv'
    OBVIOUS
  <2>1. TypeInv /\ QuietInv /\ StartInv /\ OutcomeInv /\ AgreeInv
    BY DEF CertsInv
  <2>2. TypeInv' /\ QuietInv' /\ StartInv'
    BY <2>1, NextTyped, QuietKept, StartKept
  <2>3. OutcomeInv' /\ AgreeInv' /\ EnrolInv'
    BY <2>1, OutcomeKept, AgreeKept, EnrolKept
  <2> QED
    BY <2>2, <2>3 DEF CertsInv
<1> QED
  BY <1>1, <1>2, PTL DEF Spec

\* The variables keep their types: files, pairs, the places of the start, of the
\* renewal and of the hook, which runs only for a renewal that waits for it.
THEOREM TypeOKHolds == Spec => []TypeOK
<1>1. TypeInv => TypeOK
  <2> SUFFICES ASSUME TypeInv
               PROVE  TypeOK
    OBVIOUS
  <2>1. /\ renew.pc \in RenewPCs /\ renew.backup \in PairOf /\ renew.new \in PairOf
        /\ renew.good \in BOOLEAN /\ renew.hand \in BOOLEAN
    BY DEF TypeInv, RenewTypes, Renewals
  <2>2. /\ made <= MaxNew /\ renewals <= MaxRenewals /\ crashes <= MaxCrashes
        /\ faults <= MaxFaults /\ losses <= MaxLosses
    BY BoundsAssumption DEF TypeInv, BoundTypes
  <2> QED
    BY <2>1, <2>2 DEF TypeInv, DiskTypes, StartTypes, RenewTypes, HistoryTypes, TypeOK, RenewPCs, Files
<1> QED
  BY <1>1, CertsInvHolds, PTL DEF CertsInv

\* The CA in the profiles stays the one the panel signs with, and the one its
\* server pair was signed by, until the operator gives it up.
THEOREM EnrolledCaStaysHolds == Spec => []EnrolledCaStays
<1>1. EnrolInv => EnrolledCaStays
  BY DEF EnrolInv, EnrolledCaStays
<1> QED
  BY <1>1, CertsInvHolds, PTL

\* A renewal that ended with its mark has the whole pair from before back, and the
\* panel and charon come to serve the pair of /data/le.
THEOREM RenewalSettlesHolds == Spec => []RenewalSettles
<1>1. OutcomeInv => OutcomeIsOnDisk
  BY DEF OutcomeInv, OutcomeIsOnDisk
<1>2. AgreeInv => ServedFollowsDisk
  <2> SUFFICES ASSUME AgreeInv
               PROVE  ServedFollowsDisk
    OBVIOUS
  <2>1. served # None => Matches(served)
    BY DEF AgreeInv
  <2>2. ASSUME pc = "on", mode = "letsencrypt", ~sighup, read = None, synced, Matches(disk["le"])
        PROVE  charon = disk["le"] /\ disk["panel"] = disk["le"] /\ served = disk["le"]
    <3>1. charon = disk["le"] /\ disk["panel"] = disk["le"] /\ Noticed
      BY <2>2 DEF AgreeInv
    <3> QED
      BY <2>2, <3>1 DEF Noticed
  <2> QED
    BY <2>1, <2>2 DEF ServedFollowsDisk
<1>3. CertsInv => RenewalSettles
  BY <1>1, <1>2 DEF CertsInv, RenewalSettles
<1> QED
  BY <1>3, CertsInvHolds, PTL

================================================================================
