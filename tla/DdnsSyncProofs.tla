---------------------------- MODULE DdnsSyncProofs ----------------------------
(***************************************************************************)
(* Proofs about DdnsSync, for every set of families, handlers, choices and *)
(* addresses and every bound.  TLC finds the same invariants true on       *)
(* MCDdnsSync.                                                             *)
(***************************************************************************)
EXTENDS DdnsSync, TLAPS

-----------------------------------------------------------------------------
(* Types. *)

Ends == {"none", "synced", "skipped", "failed"}
Part == [pc : FamPCs, ip : Addrs \cup {NoAddr}, attempt : 1..MaxAttempts,
         rec : Record \cup {NoRec}, end : Ends]

\* A family holds an address from the stamp on, and a record only while it is
\* about to write it.
Sound ==
    {w \in Part : /\ w.pc \notin {"idle", "detect", "done"} => w.ip \in Addrs
                  /\ w.pc = "persist" <=> w.rec # NoRec}

TypeInv == TypeOK /\ fam \in [Families -> Sound]

-----------------------------------------------------------------------------
(* The file and the memory. *)

\* What the memory has, and what a restart makes of it.
Now == [cfg |-> cfg, fresh |-> fresh]

\* While no write failed, overlapped another or was cut off: a writer holds what
\* the memory has, and with none under way the file has it, but for both families
\* off, which a restart does not bring back.
FileInv ==
    clean =>
        /\ \A h \in Handlers : hand[h] # NoRec => hand[h] = Now
        /\ \A f \in Families : fam[f].pc = "persist" => fam[f].rec = Now
        /\ ~Writing => Loaded = Now \/ (cfg.on = {} /\ disk = Now)

-----------------------------------------------------------------------------
(* The throttle window. *)

\* The memory knows the windows while the file keeps them, and a family on its
\* way to the stamp is outside its own.
WindowInv ==
    /\ clean => fresh = stamped
    /\ \A f \in Families : fam[f].pc \in {"detect", "stamp"} => f \notin fresh

-----------------------------------------------------------------------------
(* Proofs: types. *)

\* Parts of a tick are well formed.
LEMMA Records ==
  /\ NoWork \in Sound /\ Work("detect", NoAddr, 1, NoRec) \in Sound
  /\ \A e \in Ends : Done(e) \in Sound
  /\ \A ip \in Addrs, a \in 1..MaxAttempts :
       /\ \A pc \in {"stamp", "find", "add", "update"} : Work(pc, ip, a, NoRec) \in Sound
       /\ \A rec \in Record : Work("persist", ip, a, rec) \in Sound
<1>0. 1 \in 1..MaxAttempts
  BY BoundsAssumption
<1>1. NoWork \in Sound /\ Work("detect", NoAddr, 1, NoRec) \in Sound
  BY <1>0 DEF NoWork, Work, Sound, Part, FamPCs, Ends
<1>2. \A e \in Ends : Done(e) \in Sound
  BY <1>0 DEF Done, Sound, Part, FamPCs
<1>3. ASSUME NEW ip \in Addrs, NEW a \in 1..MaxAttempts, NEW pc \in {"stamp", "find", "add", "update"}
      PROVE  Work(pc, ip, a, NoRec) \in Sound
  BY DEF Work, Sound, Part, FamPCs, Ends
<1>4. ASSUME NEW ip \in Addrs, NEW a \in 1..MaxAttempts, NEW rec \in Record
      PROVE  Work("persist", ip, a, rec) \in Sound
  BY RecAssumption DEF Work, Sound, Part, FamPCs, Ends
<1> QED
  BY <1>1, <1>2, <1>3, <1>4

\* A family at work.
LEMMA PartTyped ==
  ASSUME TypeInv, NEW f \in Families
  PROVE  /\ fam[f] \in Sound /\ fam[f].attempt \in 1..MaxAttempts
         /\ fam[f].pc \notin {"idle", "detect", "done"} => fam[f].ip \in Addrs
         /\ fam[f].pc = "persist" <=> fam[f].rec # NoRec
         /\ fam[f].rec \in Record \cup {NoRec}
BY DEF TypeInv, Sound, Part

\* The families after one of them is set.
LEMMA SetTyped ==
  ASSUME TypeInv, NEW f \in Families, NEW w \in Sound, Set(f, w)
  PROVE  fam' \in [Families -> Sound]
BY DEF TypeInv, Set

\* What a snapshot or a restart takes is a configuration and its stamps.
LEMMA RecordsTyped ==
  ASSUME TypeInv
  PROVE  /\ Now \in Record /\ Loaded \in Record
         /\ \A c \in Config, s \in SUBSET Families : [cfg |-> c, fresh |-> s] \in Record
         /\ \A rec \in Record \cup {NoRec}, f \in Families : Expired(rec, f) \in Record \cup {NoRec}
<1>1. \A c \in Config, s \in SUBSET Families : [cfg |-> c, fresh |-> s] \in Record
  BY DEF Record
<1>2. Now \in Record
  BY <1>1 DEF Now, TypeInv, TypeOK
<1>3. Loaded \in Record
  <2>1. CASE disk = NoRec
    <3>1. [enabled |-> TRUE, family |-> EnvFamily, on |-> EnvFamily] \in Config
      BY FamiliesAssumption DEF Config
    <3> QED
      BY <1>1, <2>1, <3>1 DEF Loaded
  <2>2. CASE disk # NoRec
    <3>1. disk.cfg \in Config /\ disk.fresh \in SUBSET Families
      BY <2>2 DEF TypeInv, TypeOK, Record
    <3>2. [enabled |-> disk.cfg.enabled, family |-> disk.cfg.family,
           on |-> IF disk.cfg.on = {} THEN disk.cfg.family ELSE disk.cfg.on] \in Config
      BY <3>1 DEF Config
    <3> QED
      BY <1>1, <2>2, <3>1, <3>2 DEF Loaded
  <2> QED
    BY <2>1, <2>2
<1>4. ASSUME NEW rec \in Record \cup {NoRec}, NEW f \in Families
      PROVE  Expired(rec, f) \in Record \cup {NoRec}
  BY DEF Expired, Record
<1> QED
  BY <1>1, <1>2, <1>3, <1>4

\* One more change, failure or restart is within the bound.
LEMMA Counting ==
  ASSUME TypeInv
  PROVE  /\ Works \/ Fails => failures' \in 0..MaxFailures
         /\ Change => changes' \in 0..MaxChanges
         /\ restarts < MaxRestarts /\ restarts' = restarts + 1 => restarts' \in 0..MaxRestarts
<1>1. /\ failures \in 0..MaxFailures /\ changes \in 0..MaxChanges /\ restarts \in 0..MaxRestarts
      /\ MaxFailures \in Nat /\ MaxChanges \in Nat /\ MaxRestarts \in Nat
  BY BoundsAssumption DEF TypeInv, TypeOK
<1> QED
  BY <1>1 DEF Works, Fails, Change

\* The families of a well typed state are those of TypeOK.
LEMMA SoundParts ==
  \A g \in [Families -> Sound] :
    g \in [Families -> [pc : FamPCs, ip : Addrs \cup {NoAddr}, attempt : 1..MaxAttempts,
                        rec : Record \cup {NoRec}, end : {"none", "synced", "skipped", "failed"}]]
BY DEF Sound, Part, Ends

\* The handlers keep the types.
LEMMA HandlersTyped ==
  ASSUME TypeInv, NEW h \in Handlers, Panel(h) \/ Write(h)
  PROVE  TypeInv'
<1>1. ASSUME NEW new \in Config, Save(h, new)
      PROVE  TypeInv'
  <2>1. Snapshot \in Record
    BY <1>1, RecordsTyped DEF Save, Snapshot, TypeInv, TypeOK
  <2>2. changes' \in 0..MaxChanges /\ hand' \in [Handlers -> Record \cup {NoRec}]
    BY <1>1, <2>1, Counting DEF Save, TypeInv, TypeOK
  <2> QED
    BY <1>1, <2>2 DEF Save, TypeInv, TypeOK, tick, env, dns
<1>2. cfg \in Config
  BY DEF TypeInv, TypeOK
<1>3. SetEnabled(h) => TypeInv'
  <2>1. [cfg EXCEPT !.enabled = ~@] \in Config
    BY <1>2 DEF Config
  <2> QED
    BY <1>1, <2>1 DEF SetEnabled
<1>4. ASSUME NEW fs \in Choices, SetConfig(h, fs)
      PROVE  TypeInv'
  <2>1. [cfg EXCEPT !.on = fs] \in Config
    BY <1>2, ChoicesAssumption DEF Config
  <2> QED
    BY <1>1, <1>4, <2>1 DEF SetConfig
<1>5. ASSUME NEW fs \in Choices, SetFamily(h, fs)
      PROVE  TypeInv'
  <2>1. [enabled |-> cfg.enabled, family |-> fs, on |-> fs] \in Config
    BY <1>2, ChoicesAssumption DEF Config
  <2> QED
    BY <1>1, <1>5, <2>1 DEF SetFamily
<1>6. ASSUME SaveWrite(h) \/ SaveFails(h)
      PROVE  TypeInv'
  <2>1. failures' \in 0..MaxFailures
    BY <1>6, Counting DEF SaveWrite, SaveFails
  <2>2. hand' \in [Handlers -> Record \cup {NoRec}]
    BY <1>6 DEF SaveWrite, SaveFails, TypeInv, TypeOK
  <2>3. disk' \in Record \cup {NoRec} /\ clean' \in BOOLEAN
    BY <1>6 DEF SaveWrite, SaveFails, TypeInv, TypeOK
  <2> QED
    BY <1>6, <2>1, <2>2, <2>3 DEF SaveWrite, SaveFails, TypeInv, TypeOK, memory, tick, env, dns
<1> QED
  BY <1>3, <1>4, <1>5, <1>6 DEF Panel, Write

\* So does a family's part of a tick, up to its write.
LEMMA StampsTyped ==
  ASSUME TypeInv, NEW f \in Families,
         Detect(f) \/ DetectFails(f) \/ Stamp(f) \/ Persist(f) \/ PersistFails(f)
  PROVE  TypeInv'
<1> USE Records, PartTyped
<1>1. CASE Detect(f) \/ DetectFails(f)
  <2>1. fam' \in [Families -> Sound]
    <3>1. addr[f] # NoAddr => addr[f] \in Addrs
      BY DEF TypeInv, TypeOK
    <3>2. 1 \in 1..MaxAttempts /\ "failed" \in Ends /\ "skipped" \in Ends
      BY BoundsAssumption DEF Ends
    <3> QED
      BY <1>1, <3>1, <3>2, SetTyped DEF Detect, DetectFails
  <2>2. failures' \in 0..MaxFailures
    BY <1>1, Counting DEF Detect, DetectFails
  <2> QED
    BY <1>1, <2>1, <2>2, SoundParts DEF Detect, DetectFails, TypeInv, TypeOK, memory, env, dns
<1>2. CASE Stamp(f)
  <2>1. fresh' \in SUBSET Families /\ cfg' \in Config /\ stamped' \in SUBSET Families
    BY <1>2 DEF Stamp, TypeInv, TypeOK
  <2>2. Snapshot \in Record
    BY <2>1, RecordsTyped DEF Snapshot
  <2>3. fam' \in [Families -> Sound]
    BY <1>2, <2>2, SetTyped DEF Stamp, Go
  <2> QED
    BY <1>2, <2>1, <2>3, SoundParts DEF Stamp, TypeInv, TypeOK, env, dns, bounds
<1>3. CASE Persist(f) \/ PersistFails(f)
  <2>1. fam' \in [Families -> Sound]
    BY <1>3, SetTyped DEF Persist, PersistFails, Go
  <2>2. failures' \in 0..MaxFailures /\ disk' \in Record \cup {NoRec}
    BY <1>3, Counting DEF Persist, PersistFails, TypeInv, TypeOK
  <2> QED
    BY <1>3, <2>1, <2>2, SoundParts DEF Persist, PersistFails, TypeInv, TypeOK, memory, env, dns
<1> QED
  BY <1>1, <1>2, <1>3

\* So do its calls to the provider.
LEMMA CallsTyped ==
  ASSUME TypeInv, NEW f \in Families,
         \/ Find(f) \/ FindFails(f) \/ Add(f) \/ AddFails(f)
         \/ Update(f) \/ UpdateFindsNone(f) \/ UpdateDenied(f) \/ UpdateRetried(f)
  PROVE  TypeInv'
<1> USE Records, PartTyped
<1>0. /\ "failed" \in Ends /\ "synced" \in Ends /\ failures' \in 0..MaxFailures
      /\ fam[f].ip \in Addrs
  BY Counting DEF Ends, Find, FindFails, Add, AddFails, Update, UpdateFindsNone, UpdateDenied, UpdateRetried
<1>1. records' \in [Families -> SUBSET Addrs] /\ late' \in [Families -> SUBSET Addrs]
  <2>1. /\ records \in [Families -> SUBSET Addrs] /\ late \in [Families -> SUBSET Addrs]
        /\ \A new \in Replaced(f, fam[f].ip) : new \in SUBSET Addrs
    BY <1>0 DEF TypeInv, TypeOK, Replaced
  <2>2. records' \in [Families -> SUBSET Addrs]
    BY <1>0, <2>1
       DEF Find, FindFails, Add, AddFails, Update, UpdateFindsNone, UpdateDenied, UpdateRetried, dns
  <2>3. late' \in [Families -> SUBSET Addrs]
    BY <1>0, <2>1
       DEF Find, FindFails, Add, AddFails, Update, UpdateFindsNone, UpdateDenied, UpdateRetried, dns
  <2> QED
    BY <2>2, <2>3
<1>2. fam' \in [Families -> Sound]
  <2>1. CASE UpdateRetried(f)
    <3>1. fam[f].attempt < MaxAttempts => fam[f].attempt + 1 \in 1..MaxAttempts
      BY BoundsAssumption
    <3> QED
      BY <1>0, <2>1, <3>1, SetTyped DEF UpdateRetried
  <2>2. CASE Find(f)
    BY <1>0, <2>2, SetTyped DEF Find
  <2> QED
    BY <1>0, <2>1, <2>2, SetTyped DEF FindFails, Add, AddFails, Update, UpdateFindsNone, UpdateDenied
<1>3. UNCHANGED <<memory, disk, verdict, hand, env, changes, restarts, stamped, clean>>
  BY DEF Find, FindFails, Add, AddFails, Update, UpdateFindsNone, UpdateDenied, UpdateRetried
<1> QED
  BY <1>0, <1>1, <1>2, <1>3, SoundParts DEF TypeInv, TypeOK, memory, env

\* So do the ends of a tick and of a window.
LEMMA TicksTyped ==
  ASSUME TypeInv, TickStart \/ TickNow \/ LoadKey \/ Report \/ \E f \in Families : WindowEnds(f)
  PROVE  TypeInv'
<1>0. Begun \in [Families -> Sound]
  BY Records DEF Begun, Ends
<1>1. CASE TickStart
  BY <1>0, <1>1, SoundParts DEF TickStart, TypeInv, TypeOK, memory, env, dns, bounds
<1>2. CASE LoadKey
  BY <1>2 DEF LoadKey, TypeInv, TypeOK, memory, tick, dns, bounds
<1>3. CASE Report
  <2>1. fam' \in [Families -> Sound] /\ verdict' \in {"none", "success", "failed"}
    BY <1>3, Records DEF Report
  <2> QED
    BY <1>3, <2>1, SoundParts DEF Report, TypeInv, TypeOK, memory, env, dns, bounds
<1>4. ASSUME NEW f \in Families, WindowEnds(f)
      PROVE  TypeInv'
  <2>1. fam' \in [Families -> Sound]
    <3>1. ASSUME NEW g \in Families
          PROVE  [fam[g] EXCEPT !.rec = Expired(@, f)] \in Sound
      <4>1. Expired(fam[g].rec, f) \in Record \cup {NoRec}
        BY PartTyped, RecordsTyped
      <4>2. Expired(fam[g].rec, f) = NoRec <=> fam[g].rec = NoRec
        <5>1. \A c, s : [cfg |-> c, fresh |-> s] = NoRec => [cfg |-> c, fresh |-> s] \notin Record
          BY RecAssumption
        <5>2. fam[g].rec # NoRec => fam[g].rec.cfg \in Config /\ fam[g].rec.fresh \in SUBSET Families
          BY PartTyped DEF Record
        <5>3. fam[g].rec # NoRec =>
                [cfg |-> fam[g].rec.cfg, fresh |-> fam[g].rec.fresh \ {f}] \in Record
          BY <5>2 DEF Record
        <5> QED
          BY <5>1, <5>3 DEF Expired
      <4>3. [fam[g] EXCEPT !.rec = Expired(fam[g].rec, f)] \in Sound
        BY <4>1, <4>2, PartTyped DEF Sound, Part
      <4> QED
        BY <4>3
    <3> QED
      BY <1>4, <3>1 DEF WindowEnds
  <2>2. disk' \in Record \cup {NoRec} /\ hand' \in [Handlers -> Record \cup {NoRec}]
    <3>1. disk \in Record \cup {NoRec} /\ \A h \in Handlers : hand[h] \in Record \cup {NoRec}
      BY DEF TypeInv, TypeOK
    <3>2. \A rec \in Record \cup {NoRec} : Expired(rec, f) \in Record \cup {NoRec}
      BY RecordsTyped
    <3>3. disk' = Expired(disk, f) /\ hand' = [h \in Handlers |-> Expired(hand[h], f)]
      BY <1>4 DEF WindowEnds
    <3>4. disk' \in Record \cup {NoRec}
      BY <3>1, <3>2, <3>3
    <3>5. \A h \in Handlers : Expired(hand[h], f) \in Record \cup {NoRec}
      BY <3>1, <3>2
    <3> QED
      BY <3>3, <3>4, <3>5
  <2>3. fresh' \in SUBSET Families /\ stamped' \in SUBSET Families
    BY <1>4 DEF WindowEnds, TypeInv, TypeOK
  <2> QED
    BY <1>4, <2>1, <2>2, <2>3, SoundParts DEF WindowEnds, TypeInv, TypeOK, env, dns, bounds
<1>5. CASE TickNow
  <2>1. fam' \in [Families -> Sound]
    BY <1>0, <1>5 DEF TickNow, TypeInv
  <2> QED
    BY <1>5, <2>1, SoundParts DEF TickNow, TypeInv, TypeOK, memory, dns, bounds
<1> QED
  BY <1>1, <1>2, <1>3, <1>4, <1>5

\* So do the admin, the provider, the host and a restart.
LEMMA WorldTyped ==
  ASSUME TypeInv, Environment \/ Restart
  PROVE  TypeInv'
<1>0. Change => changes' \in 0..MaxChanges
  BY Counting
<1>1. ASSUME NEW f \in Families, CreateRecord(f) \/ ConsoleDelete(f)
      PROVE  TypeInv'
  <2>1. records' \in [Families -> SUBSET Addrs]
    <3>1. records \in [Families -> SUBSET Addrs]
      BY DEF TypeInv, TypeOK
    <3>2. \E new \in SUBSET Addrs : records' = [records EXCEPT ![f] = new]
      <4>1. CASE ConsoleDelete(f)
        BY <4>1 DEF ConsoleDelete
      <4>2. CASE CreateRecord(f)
        <5> PICK v \in Addrs : records' = [records EXCEPT ![f] = @ \cup {v}]
          BY <4>2 DEF CreateRecord
        <5>1. records[f] \cup {v} \in SUBSET Addrs
          BY <3>1
        <5> QED
          BY <5>1
      <4> QED
        BY <1>1, <4>1, <4>2
    <3> QED
      BY <3>1, <3>2
  <2> QED
    BY <1>0, <1>1, <2>1 DEF CreateRecord, ConsoleDelete, TypeInv, TypeOK, memory, tick, env
<1>2. ASSUME NEW f \in Families, LateUpdate(f)
      PROVE  TypeInv'
  <2> PICK ip \in late[f] :
        /\ late' = [late EXCEPT ![f] = @ \ {ip}]
        /\ \E new \in Replaced(f, ip) \cup {records[f]} : records' = [records EXCEPT ![f] = new]
    BY <1>2 DEF LateUpdate
  <2>1. late' \in [Families -> SUBSET Addrs] /\ ip \in Addrs
    BY DEF TypeInv, TypeOK
  <2>2. \A new \in Replaced(f, ip) \cup {records[f]} : new \in SUBSET Addrs
    BY <2>1 DEF TypeInv, TypeOK, Replaced
  <2>3. records' \in [Families -> SUBSET Addrs]
    BY <2>2 DEF TypeInv, TypeOK
  <2> QED
    BY <1>2, <2>1, <2>3 DEF LateUpdate, TypeInv, TypeOK, memory, tick, env, bounds
<1>3. ASSUME NEW f \in Families, AddrChange(f)
      PROVE  TypeInv'
  <2>1. addr' \in [Families -> Addrs \cup {NoAddr}]
    BY <1>3 DEF AddrChange, TypeInv, TypeOK
  <2> QED
    BY <1>0, <1>3, <2>1 DEF AddrChange, TypeInv, TypeOK, memory, tick, dns
<1>4. CASE KeyChange
  BY <1>0, <1>4 DEF KeyChange, TypeInv, TypeOK, memory, tick, dns
<1>5. CASE TriggerNow
  BY <1>0, <1>5 DEF TriggerNow, TypeInv, TypeOK, memory, tick, dns
<1>6. CASE Restart
  <2>1. cfg' \in Config /\ fresh' \in SUBSET Families
    BY <1>6, RecordsTyped DEF Restart, Record
  <2>2. fam' \in [Families -> Sound] /\ hand' \in [Handlers -> Record \cup {NoRec}]
    BY <1>6, Records DEF Restart
  <2>3. restarts' \in 0..MaxRestarts /\ verdict' \in {"none", "success", "failed"}
        /\ creds' \in {"none", "loaded", "boot"} /\ clean' \in BOOLEAN
    BY <1>6, Counting DEF Restart, TypeInv, TypeOK
  <2> QED
    BY <1>6, <2>1, <2>2, <2>3, SoundParts DEF Restart, TypeInv, TypeOK, dns
<1> QED
  BY <1>1, <1>2, <1>3, <1>4, <1>5, <1>6 DEF Environment

\* Every variable of DdnsSync has its type in every reachable state.
THEOREM TypesHold == Spec => []TypeInv
<1>1. Init => TypeInv
  <2> SUFFICES ASSUME Init
               PROVE  TypeInv
    OBVIOUS
  <2>1. cfg \in Config
    BY FamiliesAssumption DEF Init, Config
  <2>2. fam \in [Families -> Sound]
    BY Records DEF Init
  <2>3. changes \in 0..MaxChanges /\ failures \in 0..MaxFailures /\ restarts \in 0..MaxRestarts
    BY BoundsAssumption DEF Init
  <2>4. addr \in [Families -> Addrs \cup {NoAddr}]
    BY DEF Init
  <2>5. records \in [Families -> SUBSET Addrs] /\ late \in [Families -> SUBSET Addrs]
    BY DEF Init
  <2> QED
    BY <2>1, <2>2, <2>3, <2>4, <2>5, SoundParts DEF Init, TypeInv, TypeOK
<1>2. TypeInv /\ [Next]_vars => TypeInv'
  <2>1. TypeInv /\ UNCHANGED vars => TypeInv'
    BY DEF vars, memory, tick, dns, env, bounds, TypeInv, TypeOK
  <2> QED
    BY <2>1, HandlersTyped, StampsTyped, CallsTyped, TicksTyped, WorldTyped DEF Next, FamilyStep
<1> QED
  BY <1>1, <1>2, PTL DEF Spec

\* The type invariant that the run checks: in particular Detect and upsertRecord
\* pass no empty address to the provider.
THEOREM TypeOKHolds == Spec => []TypeOK
<1>1. TypeInv => TypeOK
  BY DEF TypeInv
<1> QED
  BY <1>1, TypesHold, PTL

-----------------------------------------------------------------------------
(* Proofs: the file and the memory. *)

\* The places of what a family may be set to.
LEMMA Places ==
  /\ \A pc, ip, a, rec : Work(pc, ip, a, rec).pc = pc /\ Work(pc, ip, a, rec).rec = rec
  /\ \A e : Done(e).pc = "done" /\ Done(e).rec = NoRec
  /\ NoWork.pc = "idle" /\ NoWork.rec = NoRec
BY DEF Work, Done, NoWork

\* Setting one family leaves the others.
LEMMA Sets ==
  ASSUME TypeInv, NEW f \in Families
  PROVE  \A w : Set(f, w) => fam'[f] = w /\ \A g \in Families \ {f} : fam'[g] = fam[g]
BY DEF TypeInv, Set

\* The invariant reads nothing else.
LEMMA FileFrame ==
  ASSUME FileInv, UNCHANGED <<cfg, fresh, disk, hand>>, clean' => clean,
         \A f \in Families : /\ fam[f].pc = "persist" => fam'[f] = fam[f]
                             /\ fam'[f].pc = "persist" => fam'[f] = fam[f]
  PROVE  FileInv'
<1>1. Now' = Now /\ Loaded' = Loaded /\ (Writing' <=> Writing)
  BY DEF Now, Loaded, Writing
<1> QED
  BY <1>1 DEF FileInv

\* A family neither at its write nor brought to it.
LEMMA PartFrame ==
  ASSUME TypeInv, FileInv, UNCHANGED <<cfg, fresh, disk, hand>>, clean' => clean,
         NEW f \in Families, fam[f].pc # "persist", NEW w, Set(f, w), w.pc # "persist"
  PROVE  FileInv'
<1>1. fam'[f] = w /\ \A g \in Families \ {f} : fam'[g] = fam[g]
  BY Sets
<1> QED
  BY <1>1, FileFrame

\* A snapshot is what the memory has then.
LEMMA SnapshotIsNow == Snapshot = Now'
BY DEF Snapshot, Now

\* A writer that starts with nobody else writing has what the memory has.
LEMMA StartsKeepFile ==
  ASSUME TypeInv, TypeInv', FileInv, clean' = (clean /\ ~Writing),
         NEW h, NEW f,
         \/ /\ h \in Handlers /\ hand' = [hand EXCEPT ![h] = Snapshot] /\ fam' = fam
         \/ /\ f \in Families /\ Go(f, "persist", Snapshot) /\ hand' = hand
  PROVE  FileInv'
<1> SUFFICES ASSUME clean'
             PROVE  /\ \A i \in Handlers : hand'[i] # NoRec => hand'[i] = Now'
                    /\ \A g \in Families : fam'[g].pc = "persist" => fam'[g].rec = Now'
                    /\ Writing'
  BY DEF FileInv
<1>0. Now' \in Record => Now' # NoRec
  BY RecAssumption
<1>1. /\ \A i \in Handlers : hand[i] = NoRec
      /\ \A g \in Families : fam[g].pc # "persist"
      /\ hand \in [Handlers -> Record \cup {NoRec}] /\ Snapshot = Now'
  BY SnapshotIsNow DEF Writing, TypeInv, TypeOK
<1>2. CASE f \in Families /\ Go(f, "persist", Snapshot) /\ hand' = hand
  <2>1. /\ fam'[f] = Work("persist", fam[f].ip, fam[f].attempt, Snapshot)
        /\ \A g \in Families \ {f} : fam'[g] = fam[g]
    BY <1>2, Sets DEF Go
  <2>2. fam'[f].pc = "persist" /\ fam'[f].rec = Now'
    BY <1>1, <2>1, Places
  <2> QED
    BY <1>1, <1>2, <2>1, <2>2 DEF Writing
<1>3. CASE h \in Handlers /\ hand' = [hand EXCEPT ![h] = Snapshot] /\ fam' = fam
  <2>1. hand'[h] = Now' /\ \A i \in Handlers \ {h} : hand'[i] = hand[i]
    BY <1>1, <1>3
  <2>2. Now' \in Record
    BY DEF TypeInv, TypeOK, Now, Record
  <2> QED
    BY <1>0, <1>1, <1>3, <2>1, <2>2 DEF Writing
<1> QED
  BY <1>2, <1>3

\* A file with what the memory has brings it back, but for both families off.
LEMMA WrittenLoads ==
  ASSUME TypeInv', disk' = Now', cfg'.on # {}
  PROVE  Loaded' = Now'
<1>1. disk' \in Record /\ disk' # NoRec /\ cfg' \in Config
  BY RecAssumption DEF TypeInv, TypeOK, Now, Record
<1>2. disk'.cfg = cfg' /\ disk'.fresh = fresh'
  BY DEF Now
<1>3. [enabled |-> cfg'.enabled, family |-> cfg'.family, on |-> cfg'.on] = cfg'
  BY <1>1 DEF Config
<1> QED
  BY <1>1, <1>2, <1>3 DEF Loaded, Now

\* A handler that writes leaves the file as the memory, and so does a family.
LEMMA WritesKeepFile ==
  ASSUME TypeInv, TypeInv', FileInv, UNCHANGED <<cfg, fresh>>,
         \/ \E h \in Handlers : SaveWrite(h) \/ SaveFails(h)
         \/ \E f \in Families : Persist(f) \/ PersistFails(f)
  PROVE  FileInv'
<1> SUFFICES ASSUME clean'
             PROVE  /\ \A h \in Handlers : hand'[h] # NoRec => hand'[h] = Now'
                    /\ \A f \in Families : fam'[f].pc = "persist" => fam'[f].rec = Now'
                    /\ disk' = Now'
  BY WrittenLoads DEF FileInv
<1>0. Now' = Now
  BY DEF Now
<1>1. ASSUME NEW h \in Handlers, SaveWrite(h)
      PROVE  /\ \A i \in Handlers : hand'[i] # NoRec => hand'[i] = Now'
             /\ \A f \in Families : fam'[f].pc = "persist" => fam'[f].rec = Now'
             /\ disk' = Now'
  <2>1. clean /\ fam' = fam /\ disk' = hand[h] /\ hand[h] # NoRec /\ hand' = [hand EXCEPT ![h] = NoRec]
    BY <1>1 DEF SaveWrite, tick
  <2>2. hand \in [Handlers -> Record \cup {NoRec}]
    BY DEF TypeInv, TypeOK
  <2> QED
    BY <1>0, <2>1, <2>2 DEF FileInv
<1>2. ASSUME NEW f \in Families, Persist(f)
      PROVE  /\ \A h \in Handlers : hand'[h] # NoRec => hand'[h] = Now'
             /\ \A g \in Families : fam'[g].pc = "persist" => fam'[g].rec = Now'
             /\ disk' = Now'
  <2>1. clean /\ hand' = hand /\ disk' = fam[f].rec /\ fam[f].pc = "persist" /\ Go(f, "find", NoRec)
    BY <1>2 DEF Persist
  <2>2. fam'[f].pc = "find" /\ \A g \in Families \ {f} : fam'[g] = fam[g]
    BY <2>1, Sets, Places DEF Go
  <2> QED
    BY <1>0, <2>1, <2>2 DEF FileInv
<1> QED
  BY <1>1, <1>2 DEF SaveFails, PersistFails

\* The end of a window passes through memory, file and writers alike.
LEMMA WindowEndsKeepFile ==
  ASSUME TypeInv, FileInv, NEW f \in Families, WindowEnds(f)
  PROVE  FileInv'
<1>1. /\ cfg' = cfg /\ fresh' = fresh \ {f} /\ clean' = clean /\ disk' = Expired(disk, f)
      /\ hand' = [h \in Handlers |-> Expired(hand[h], f)]
      /\ fam' = [g \in Families |-> [fam[g] EXCEPT !.rec = Expired(@, f)]]
  BY DEF WindowEnds
<1>2. Now # NoRec /\ Now' = Expired(Now, f)
  <2>1. Now # NoRec
    BY RecordsTyped, RecAssumption
  <2> QED
    BY <1>1, <2>1 DEF Now, Expired
<1>3. Loaded # NoRec /\ Loaded' = Expired(Loaded, f)
  <2>1. Loaded # NoRec
    BY RecordsTyped, RecAssumption
  <2>2. CASE disk = NoRec
    <3>1. disk' = NoRec
      BY <1>1, <2>2 DEF Expired
    <3>2. Loaded.fresh = {} /\ Loaded' = Loaded /\ Loaded = [cfg |-> Loaded.cfg, fresh |-> {}]
      BY <2>2, <3>1 DEF Loaded
    <3> QED
      BY <2>1, <3>2 DEF Expired
  <2>3. CASE disk # NoRec
    <3>1. disk' = [cfg |-> disk.cfg, fresh |-> disk.fresh \ {f}]
      BY <1>1, <2>3 DEF Expired
    <3>2. disk' # NoRec
      <4>1. disk' \in Record
        <5>1. disk.cfg \in Config /\ disk.fresh \in SUBSET Families
          BY <2>3 DEF TypeInv, TypeOK, Record
        <5> QED
          BY <3>1, <5>1 DEF Record
      <4> QED
        BY <4>1, RecAssumption
    <3>3. /\ Loaded'.cfg = Loaded.cfg /\ Loaded.fresh = disk.fresh
          /\ Loaded' = [cfg |-> Loaded.cfg, fresh |-> disk.fresh \ {f}]
      BY <2>3, <3>1, <3>2 DEF Loaded
    <3> QED
      BY <2>1, <3>3 DEF Expired
  <2> QED
    BY <2>1, <2>2, <2>3
<1>4. ASSUME NEW g \in Families
      PROVE  fam'[g].pc = fam[g].pc /\ fam'[g].rec = Expired(fam[g].rec, f)
  <2>1. fam[g] \in Sound
    BY PartTyped
  <2>2. fam'[g] = [fam[g] EXCEPT !.rec = Expired(fam[g].rec, f)]
    BY <1>1
  <2> QED
    BY <2>1, <2>2 DEF Sound, Part
<1>5. \A h \in Handlers : hand'[h] = Expired(hand[h], f)
  BY <1>1
<1>6. \A rec : rec = NoRec => Expired(rec, f) = NoRec
  BY DEF Expired
<1>7. Writing => Writing'
  <2>1. ASSUME NEW h \in Handlers, hand[h] # NoRec
        PROVE  hand'[h] # NoRec
    <3>1. hand[h] \in Record
      BY <2>1 DEF TypeInv, TypeOK
    <3>2. [cfg |-> hand[h].cfg, fresh |-> hand[h].fresh \ {f}] \in Record
      BY <3>1 DEF Record
    <3> QED
      BY <1>5, <2>1, <3>2, RecAssumption DEF Expired
  <2> QED
    BY <1>4, <2>1 DEF Writing
<1> SUFFICES ASSUME clean'
             PROVE  /\ \A h \in Handlers : hand'[h] # NoRec => hand'[h] = Now'
                    /\ \A g \in Families : fam'[g].pc = "persist" => fam'[g].rec = Now'
                    /\ ~Writing' => Loaded' = Now' \/ (cfg'.on = {} /\ disk' = Now')
  BY DEF FileInv
<1>8. /\ \A h \in Handlers : hand[h] # NoRec => hand[h] = Now
      /\ \A g \in Families : fam[g].pc = "persist" => fam[g].rec = Now
      /\ ~Writing => Loaded = Now \/ (cfg.on = {} /\ disk = Now)
  BY <1>1 DEF FileInv
<1>9. \A h \in Handlers : hand'[h] # NoRec => hand'[h] = Now'
  BY <1>2, <1>5, <1>6, <1>8
<1>10. \A g \in Families : fam'[g].pc = "persist" => fam'[g].rec = Now'
  BY <1>2, <1>4, <1>8
<1>11. ~Writing' => Loaded' = Now' \/ (cfg'.on = {} /\ disk' = Now')
  BY <1>1, <1>2, <1>3, <1>7, <1>8
<1> QED
  BY <1>9, <1>10, <1>11

\* A restart runs by the file.
LEMMA RestartKeepsFile ==
  ASSUME TypeInv, Restart
  PROVE  FileInv'
<1>1. Loaded \in Record
  BY RecordsTyped
<1>2. Loaded' = Loaded /\ Now' = [cfg |-> Loaded.cfg, fresh |-> Loaded.fresh]
  BY DEF Restart, Loaded, Now
<1>3. Loaded = [cfg |-> Loaded.cfg, fresh |-> Loaded.fresh]
  BY <1>1 DEF Record
<1>4. /\ \A h \in Handlers : hand'[h] = NoRec
      /\ \A f \in Families : fam'[f].pc = "idle"
  BY Places DEF Restart
<1> QED
  BY <1>2, <1>3, <1>4 DEF FileInv

\* The file follows the memory in every reachable state.
THEOREM FileHolds == Spec => []FileInv
<1>1. Init => FileInv
  <2> SUFFICES ASSUME Init
               PROVE  FileInv
    OBVIOUS
  <2>1. Loaded = Now
    BY DEF Init, Loaded, Now
  <2>2. /\ \A h \in Handlers : hand[h] = NoRec
        /\ \A f \in Families : fam[f].pc = "idle"
    BY Places DEF Init
  <2> QED
    BY <2>1, <2>2 DEF FileInv
<1>2. TypeInv /\ TypeInv' /\ FileInv /\ [Next]_vars => FileInv'
  <2> SUFFICES ASSUME TypeInv, TypeInv', FileInv, [Next]_vars
               PROVE  FileInv'
    OBVIOUS
  <2>1. ASSUME NEW h \in Handlers, Panel(h)
        PROVE  FileInv'
    <3>1. ASSUME NEW new, Save(h, new)
          PROVE  FileInv'
      BY <3>1, StartsKeepFile DEF Save, tick
    <3> QED
      BY <2>1, <3>1 DEF Panel, SetEnabled, SetConfig, SetFamily
  <2>2. ASSUME NEW h \in Handlers, Write(h)
        PROVE  FileInv'
    BY <2>2, WritesKeepFile DEF Write, SaveWrite, SaveFails, memory
  <2>3. ASSUME NEW f \in Families, FamilyStep(f)
        PROVE  FileInv'
    <3>1. CASE Stamp(f)
      BY <3>1, StartsKeepFile DEF Stamp
    <3>2. CASE Persist(f) \/ PersistFails(f)
      BY <3>2, WritesKeepFile DEF Persist, PersistFails, memory
    <3>3. CASE \/ Detect(f) \/ DetectFails(f) \/ Find(f) \/ FindFails(f) \/ Add(f) \/ AddFails(f)
               \/ Update(f) \/ UpdateFindsNone(f) \/ UpdateDenied(f) \/ UpdateRetried(f)
      <4>1. UNCHANGED <<cfg, fresh, disk, hand, clean>> /\ fam[f].pc # "persist"
        BY <3>3 DEF Detect, DetectFails, Find, FindFails, Add, AddFails, Update, UpdateFindsNone,
                    UpdateDenied, UpdateRetried, memory
      <4>2. \E w : Set(f, w) /\ w.pc # "persist"
        <5>1. /\ \A e : Done(e).pc # "persist"
              /\ \A pc, ip, a : pc # "persist" => Work(pc, ip, a, NoRec).pc # "persist"
          BY Places
        <5> QED
          BY <3>3, <5>1 DEF Detect, DetectFails, Find, FindFails, Add, AddFails, Update,
                            UpdateFindsNone, UpdateDenied, UpdateRetried
      <4> QED
        BY <4>1, <4>2, PartFrame
    <3> QED
      BY <2>3, <3>1, <3>2, <3>3 DEF FamilyStep
  <2>4. CASE TickStart \/ TickNow \/ Report
    <3>1. UNCHANGED <<cfg, fresh, disk, hand, clean>> /\ \A f \in Families : fam[f].pc # "persist"
      BY <2>4 DEF TickStart, TickNow, Report, Ticking, memory
    <3>2. \A f \in Families : fam'[f].pc # "persist"
      <4>1. CASE Report
        BY <4>1, Places DEF Report
      <4>2. CASE TickStart \/ TickNow
        BY <3>1, <4>2, Places DEF TickStart, TickNow, Begun
      <4> QED
        BY <2>4, <4>1, <4>2
    <3> QED
      BY <3>1, <3>2, FileFrame
  <2>5. CASE LoadKey \/ Environment \/ UNCHANGED vars
    <3>1. UNCHANGED <<cfg, fresh, disk, hand, fam, clean>>
      BY <2>5 DEF LoadKey, Environment, CreateRecord, ConsoleDelete, LateUpdate, AddrChange, KeyChange,
                  TriggerNow, vars, memory, tick
    <3> QED
      BY <3>1, FileFrame
  <2> QED
    BY <2>1, <2>2, <2>3, <2>4, <2>5, WindowEndsKeepFile, RestartKeepsFile DEF Next
<1> QED
  BY <1>1, <1>2, TypesHold, PTL DEF Spec

\* DdnsSync.RestartKeepsState: NewSync brings back the switches and the stamps
\* that memory has, between any two writes of handlers and goroutines that take
\* their snapshot under mu and write after it.
THEOREM RestartKeepsStateHolds == Spec => []RestartKeepsState
<1>1. FileInv => RestartKeepsState
  BY DEF FileInv, RestartKeepsState, Now
<1> QED
  BY <1>1, FileHolds, PTL

-----------------------------------------------------------------------------
(* Proofs: the throttle window. *)

\* The memory knows the windows in every reachable state.
THEOREM WindowsHold == Spec => []WindowInv
<1>1. Init => WindowInv
  BY Places DEF Init, WindowInv
<1>2. TypeInv /\ FileInv /\ WindowInv /\ [Next]_vars => WindowInv'
  <2> SUFFICES ASSUME TypeInv, FileInv, WindowInv, [Next]_vars
               PROVE  WindowInv'
    OBVIOUS
  <2>1. ASSUME UNCHANGED <<fresh, stamped>>, clean' => clean,
               \A f \in Families : fam'[f].pc \in {"detect", "stamp"} =>
                  fam[f].pc \in {"detect", "stamp"} \/ f \notin fresh
        PROVE  WindowInv'
    BY <2>1 DEF WindowInv
  <2>2. ASSUME NEW h \in Handlers, Panel(h) \/ Write(h)
        PROVE  WindowInv'
    <3>1. ASSUME \E new : Save(h, new)
          PROVE  UNCHANGED <<fresh, stamped, fam>> /\ (clean' => clean)
      BY <3>1 DEF Save, tick
    <3>2. ASSUME Write(h)
          PROVE  UNCHANGED <<fresh, stamped, fam>> /\ (clean' => clean)
      BY <3>2 DEF Write, SaveWrite, SaveFails, tick, memory
    <3>3. Panel(h) => \E new : Save(h, new)
      BY DEF Panel, SetEnabled, SetConfig, SetFamily
    <3>4. UNCHANGED <<fresh, stamped, fam>> /\ (clean' => clean)
      BY <2>2, <3>1, <3>2, <3>3
    <3> QED
      BY <2>1, <3>4
  <2>3. ASSUME NEW f \in Families, Stamp(f)
        PROVE  WindowInv'
    <3>1. fam'[f].pc = "persist" /\ \A g \in Families \ {f} : fam'[g] = fam[g]
      BY <2>3, Sets, Places DEF Stamp, Go
    <3> QED
      BY <2>3, <3>1 DEF Stamp, WindowInv
  <2>4. ASSUME NEW f \in Families, FamilyStep(f), ~Stamp(f)
        PROVE  WindowInv'
    <3>1. UNCHANGED <<fresh, stamped>> /\ (clean' => clean)
      BY <2>4 DEF FamilyStep, Detect, DetectFails, Persist, PersistFails, Find, FindFails, Add, AddFails,
                  Update, UpdateFindsNone, UpdateDenied, UpdateRetried, memory
    <3>2. \E w : Set(f, w) /\ (w.pc \in {"detect", "stamp"} => fam[f].pc = "detect")
      <4>1. /\ \A e : Done(e).pc \notin {"detect", "stamp"}
            /\ \A pc, ip, a : Work(pc, ip, a, NoRec).pc = pc
        BY Places
      <4> QED
        BY <2>4, <4>1 DEF FamilyStep, Detect, DetectFails, Persist, PersistFails, Find, FindFails, Add,
                          AddFails, Update, UpdateFindsNone, UpdateDenied, UpdateRetried, Go
    <3> QED
      BY <2>1, <3>1, <3>2, Sets
  <2>5. CASE TickStart \/ TickNow \/ Report
    <3>1. UNCHANGED <<fresh, stamped, clean>>
      BY <2>5 DEF TickStart, TickNow, Report, memory
    <3>2. \A f \in Families : fam'[f].pc \in {"detect", "stamp"} =>
             fam[f].pc \in {"detect", "stamp"} \/ f \notin fresh
      <4>1. CASE Report
        BY <4>1, Places DEF Report
      <4>2. CASE TickStart \/ TickNow
        BY <4>2, Places DEF TickStart, TickNow, Begun
      <4> QED
        BY <2>5, <4>1, <4>2
    <3> QED
      BY <2>1, <3>1, <3>2
  <2>6. ASSUME NEW f \in Families, WindowEnds(f)
        PROVE  WindowInv'
    <3>1. \A g \in Families : fam'[g].pc = fam[g].pc
      <4>1. \A g \in Families : fam[g] \in Part
        BY PartTyped DEF Sound
      <4> QED
        BY <2>6, <4>1 DEF WindowEnds, Part
    <3> QED
      BY <2>6, <3>1 DEF WindowEnds, WindowInv
  <2>7. CASE LoadKey \/ Environment \/ UNCHANGED vars
    <3>1. UNCHANGED <<fresh, stamped, fam, clean>>
      BY <2>7 DEF LoadKey, Environment, CreateRecord, ConsoleDelete, LateUpdate, AddrChange, KeyChange,
                  TriggerNow, vars, memory, tick
    <3> QED
      BY <2>1, <3>1
  <2>8. CASE Restart
    <3>1. /\ \A f \in Families : fam'[f].pc = "idle"
          /\ fresh' = Loaded.fresh /\ stamped' = stamped /\ (clean' => clean /\ ~Writing)
      BY <2>8, Places DEF Restart
    <3>2. clean /\ ~Writing => Loaded.fresh = fresh
      <4>1. Loaded = Now => Loaded.fresh = fresh
        BY DEF Now
      <4>2. disk = Now => Loaded.fresh = fresh
        <5>1. disk = Now => disk # NoRec /\ disk.fresh = fresh
          BY RecordsTyped, RecAssumption DEF Now
        <5> QED
          BY <5>1 DEF Loaded
      <4> QED
        BY <4>1, <4>2 DEF FileInv
    <3> QED
      BY <3>1, <3>2 DEF WindowInv
  <2> QED
    BY <2>2, <2>3, <2>4, <2>5, <2>6, <2>7, <2>8 DEF Next
<1> QED
  BY <1>1, <1>2, TypesHold, FileHolds, PTL DEF Spec

\* DdnsSync.OneRoundPerWindow: tick stamps a family before it asks the provider
\* and skips one that is stamped, so that a window has one round, also over
\* restarts while the state file keeps the stamps.
THEOREM OneRoundPerWindowHolds == Spec => OneRoundPerWindow
<1>1. WindowInv =>
        [\A f \in Families :
            fam[f].pc = "stamp" /\ fam'[f].pc = "persist" /\ f \in stamped => ~clean]_vars
  BY DEF WindowInv
<1> QED
  BY <1>1, WindowsHold, PTL DEF OneRoundPerWindow
=============================================================================
