------------------------------- MODULE DdnsSync -------------------------------
(***************************************************************************)
(* The DDNS synchroniser (internal/ddns/sync.go): a loop that keeps the A  *)
(* and AAAA records of the panel's name at the provider equal to the       *)
(* host's public addresses.                                                *)
(*                                                                         *)
(* A tick takes a snapshot of the configuration, detects the addresses,    *)
(* and starts one goroutine per family, which stamps the throttle window,  *)
(* writes the state file, and then asks, adds or updates.  The panel's     *)
(* handlers change the configuration meanwhile and write the same file.    *)
(* Both take what they write under mu and write it after mu is released.   *)
(*                                                                         *)
(* A tick starts at any moment by the timer or with Run, and when the loop *)
(* takes a press of the sync-now button.                                   *)
(***************************************************************************)
EXTENDS Naturals, FiniteSets

CONSTANTS
    Families,      \* A and AAAA
    EnvFamily,     \* the families IKEV2_DDNS_FAMILY switches on
    Handlers,      \* POST /api/ddns/{toggle,family,config} in flight
    Choices,       \* the family sets the admin picks from
    Addrs,         \* public addresses of the host
    NoAddr,        \* the detector finds none, and no error
    NoRec,         \* a writer with nothing to write; no state file
    MaxAttempts,   \* maxUpdateAttempts
    MaxChanges,    \* bound: what the admin and the provider do
    MaxFailures,   \* bound: calls that fail
    MaxRestarts    \* bound: restarts of the panel

ASSUME FamiliesAssumption == EnvFamily \subseteq Families /\ EnvFamily # {}
ASSUME ChoicesAssumption  == Choices \subseteq SUBSET Families
ASSUME AddrsAssumption    == NoAddr \notin Addrs
ASSUME BoundsAssumption   == MaxAttempts \in Nat \ {0} /\ MaxChanges \in Nat
                             /\ MaxFailures \in Nat /\ MaxRestarts \in Nat

VARIABLES
    cfg,       \* Sync.cfg: Enabled, Family, EnableA and EnableAAAA
    fresh,     \* Sync.lastSyncTime: families within their throttle window
    disk,      \* the state file
    keyFile,   \* an access key is saved in the panel's file
    creds,     \* the loop's own copy of it: none, loaded since, or there at boot
    fam,       \* the tick, family by family
    hand,      \* the handlers: the record still to be written
    verdict,   \* what the panel shows of the last round
    addr,      \* the host's addresses
    trigger,   \* Sync.triggerCh: sync-now was pressed and is not yet taken
    records,   \* the records at the provider
    late,      \* updates given up by the client that may still arrive
    changes, failures, restarts,
    \* History, read by the properties only: the families really stamped within
    \* the window, and whether so far no write failed, overlapped or was cut off.
    stamped, clean

memory == <<cfg, fresh>>
tick   == <<fam, verdict>>
dns    == <<records, late>>
env    == <<keyFile, creds, addr, trigger>>
bounds == <<changes, failures, restarts>>
vars   == <<memory, disk, tick, hand, env, dns, bounds, stamped, clean>>

Config == [enabled : BOOLEAN, family : SUBSET Families, on : SUBSET Families]
Record == [cfg : Config, fresh : SUBSET Families]
FamPCs == {"idle", "detect", "stamp", "persist", "find", "add", "update", "done"}

ASSUME RecAssumption == NoRec \notin Record

\* A family's part of the tick: under way, or over.
Work(pc, ip, attempt, rec) ==
    [pc |-> pc, ip |-> ip, attempt |-> attempt, rec |-> rec, end |-> "none"]
NoWork    == Work("idle", NoAddr, 1, NoRec)
Done(end) == [pc |-> "done", ip |-> NoAddr, attempt |-> 1, rec |-> NoRec, end |-> end]

-----------------------------------------------------------------------------
(* Building blocks. *)

Ticking    == \E f \in Families : fam[f].pc # "idle"
Writing    == {h \in Handlers : hand[h] # NoRec} # {} \/ \E f \in Families : fam[f].pc = "persist"
Set(f, w)  == fam' = [fam EXCEPT ![f] = w]
Go(f, pc, rec) == Set(f, Work(pc, fam[f].ip, fam[f].attempt, rec))

\* snapshotStateRecord, in the state after the change.
Snapshot == [cfg |-> cfg', fresh |-> fresh']

Works == UNCHANGED failures
Fails == failures < MaxFailures /\ failures' = failures + 1
Change == changes < MaxChanges /\ changes' = changes + 1

-----------------------------------------------------------------------------
(* The handlers: change the memory under mu, write the file after it. *)

Save(h, new) ==
    /\ hand[h] = NoRec /\ Change
    /\ cfg' = new /\ UNCHANGED fresh
    /\ hand' = [hand EXCEPT ![h] = Snapshot]
    /\ clean' = (clean /\ ~Writing)
    /\ UNCHANGED <<disk, tick, env, dns, failures, restarts, stamped>>

SetEnabled(h)     == Save(h, [cfg EXCEPT !.enabled = ~@])
SetFamily(h, fs)  == Save(h, [enabled |-> cfg.enabled, family |-> fs, on |-> fs])
SetConfig(h, fs)  == Save(h, [cfg EXCEPT !.on = fs])

\* Mutant: the file is written without the window stamps.
SaveWriteNoStamps(h) ==
    /\ hand[h] # NoRec /\ Works
    /\ disk' = [hand[h] EXCEPT !.fresh = {}]
    /\ hand' = [hand EXCEPT ![h] = NoRec]
    /\ UNCHANGED <<memory, tick, env, dns, changes, restarts, stamped, clean>>

SaveWrite(h) ==
    /\ hand[h] # NoRec /\ Works
    /\ disk' = hand[h]
    /\ hand' = [hand EXCEPT ![h] = NoRec]
    /\ UNCHANGED <<memory, tick, env, dns, changes, restarts, stamped, clean>>

\* The admin sees an error; the memory keeps the change.
SaveFails(h) ==
    /\ hand[h] # NoRec /\ Fails
    /\ hand' = [hand EXCEPT ![h] = NoRec] /\ clean' = FALSE
    /\ UNCHANGED <<memory, disk, tick, env, dns, changes, restarts, stamped>>

-----------------------------------------------------------------------------
(* A tick. *)

\* A tick does nothing without a key, switched off, or when no family is due.
Due == creds # "none" /\ cfg.enabled /\ cfg.on \ fresh # {}

\* A family that is on but throttled is not tried, and ends at once without an
\* error.
Begun == [f \in Families |-> IF f \notin cfg.on THEN NoWork
                             ELSE IF f \in fresh THEN Done("skipped")
                             ELSE Work("detect", NoAddr, 1, NoRec)]

TickStart ==
    /\ ~Ticking /\ Due
    /\ fam' = Begun
    /\ UNCHANGED <<memory, disk, verdict, hand, env, dns, bounds, stamped, clean>>

\* POST /api/ddns/sync-now: a press that finds one in the channel is dropped.
TriggerNow ==
    /\ Change
    /\ trigger' = TRUE
    /\ UNCHANGED <<memory, disk, tick, hand, keyFile, creds, addr, dns, failures, restarts, stamped, clean>>

\* The loop takes it and runs the same tick, throttled as ever; one without a
\* key reads the file first (LoadKey).
TickNow ==
    /\ trigger /\ ~Ticking
    /\ ~(cfg.enabled /\ creds = "none" /\ keyFile)
    /\ trigger' = FALSE
    /\ fam' = IF Due THEN Begun ELSE fam
    /\ UNCHANGED <<memory, disk, verdict, hand, keyFile, creds, addr, dns, bounds, stamped, clean>>

\* Mutant: an empty address is taken for one.
DetectEmpty(f) ==
    /\ fam[f].pc = "detect" /\ Works
    /\ Set(f, Work("stamp", addr[f], 1, NoRec))
    /\ UNCHANGED <<memory, disk, verdict, hand, env, dns, changes, restarts, stamped, clean>>

Detect(f) ==
    /\ fam[f].pc = "detect" /\ Works
    /\ Set(f, IF addr[f] = NoAddr THEN Done("skipped")
              ELSE Work("stamp", addr[f], 1, NoRec))
    /\ UNCHANGED <<memory, disk, verdict, hand, env, dns, changes, restarts, stamped, clean>>

DetectFails(f) ==
    /\ fam[f].pc = "detect" /\ Fails
    /\ Set(f, Done("failed"))
    /\ UNCHANGED <<memory, disk, verdict, hand, env, dns, changes, restarts, stamped, clean>>

\* Mutant: the window is not opened.
StampForgotten(f) ==
    /\ fam[f].pc = "stamp" /\ \A g \in Families : fam[g].pc # "detect"
    /\ stamped' = stamped \cup {f}
    /\ UNCHANGED memory
    /\ Go(f, "persist", Snapshot)
    /\ clean' = (clean /\ ~Writing)
    /\ UNCHANGED <<disk, verdict, hand, env, dns, bounds>>

\* Both detections are over: the goroutines run.  The window opens before the
\* provider is asked.
Stamp(f) ==
    /\ fam[f].pc = "stamp" /\ \A g \in Families : fam[g].pc # "detect"
    /\ fresh' = fresh \cup {f} /\ stamped' = stamped \cup {f}
    /\ UNCHANGED cfg
    /\ Go(f, "persist", Snapshot)
    /\ clean' = (clean /\ ~Writing)
    /\ UNCHANGED <<disk, verdict, hand, env, dns, bounds>>

Persist(f) ==
    /\ fam[f].pc = "persist" /\ Works
    /\ disk' = fam[f].rec
    /\ Go(f, "find", NoRec)
    /\ UNCHANGED <<memory, verdict, hand, env, dns, changes, restarts, stamped, clean>>

PersistFails(f) ==
    /\ fam[f].pc = "persist" /\ Fails
    /\ Go(f, "find", NoRec) /\ clean' = FALSE
    /\ UNCHANGED <<memory, disk, verdict, hand, env, dns, changes, restarts, stamped>>

\* Mutant: a record that is not there is passed over.
FindSkipsMissing(f) ==
    /\ fam[f].pc = "find" /\ Works
    /\ Set(f, IF records[f] \in {{}, {fam[f].ip}} THEN Done("synced")
              ELSE IF Cardinality(records[f]) = 1 THEN Work("update", fam[f].ip, fam[f].attempt, NoRec)
              ELSE Done("failed"))
    /\ UNCHANGED <<memory, disk, verdict, hand, env, dns, changes, restarts, stamped, clean>>

\* FindRecord: none, the right one, a wrong one, or too many to choose from.
Find(f) ==
    /\ fam[f].pc = "find" /\ Works
    /\ Set(f, IF records[f] = {} THEN Work("add", fam[f].ip, fam[f].attempt, NoRec)
              ELSE IF records[f] = {fam[f].ip} THEN Done("synced")
              ELSE IF Cardinality(records[f]) = 1 THEN Work("update", fam[f].ip, fam[f].attempt, NoRec)
              ELSE Done("failed"))
    /\ UNCHANGED <<memory, disk, verdict, hand, env, dns, changes, restarts, stamped, clean>>

FindFails(f) ==
    /\ fam[f].pc = "find" /\ Fails
    /\ Set(f, Done("failed"))
    /\ UNCHANGED <<memory, disk, verdict, hand, env, dns, changes, restarts, stamped, clean>>

Add(f) ==
    /\ fam[f].pc = "add" /\ Works
    /\ records' = [records EXCEPT ![f] = @ \cup {fam[f].ip}]
    /\ Set(f, Done("synced"))
    /\ UNCHANGED <<memory, disk, verdict, hand, env, late, changes, restarts, stamped, clean>>

\* The call is refused, or done and its answer lost.
AddFails(f) ==
    /\ fam[f].pc = "add" /\ Fails
    /\ records' \in {records, [records EXCEPT ![f] = @ \cup {fam[f].ip}]}
    /\ Set(f, Done("failed"))
    /\ UNCHANGED <<memory, disk, verdict, hand, env, late, changes, restarts, stamped, clean>>

\* The provider changes the value of the record that was found (RecordId).
Replaced(f, ip) == {(records[f] \ {old}) \cup {ip} : old \in records[f]}

Update(f) ==
    /\ fam[f].pc = "update" /\ Works
    /\ \E new \in Replaced(f, fam[f].ip) : records' = [records EXCEPT ![f] = new]
    /\ Set(f, Done("synced"))
    /\ UNCHANGED <<memory, disk, verdict, hand, env, late, changes, restarts, stamped, clean>>

\* The record was deleted since it was found: not retried.
UpdateFindsNone(f) ==
    /\ fam[f].pc = "update" /\ records[f] = {} /\ Works
    /\ Set(f, Done("failed"))
    /\ UNCHANGED <<memory, disk, verdict, hand, env, dns, changes, restarts, stamped, clean>>

\* Auth and RAM errors end the round; any other error is retried.
UpdateDenied(f) ==
    /\ fam[f].pc = "update" /\ Fails
    /\ Set(f, Done("failed"))
    /\ UNCHANGED <<memory, disk, verdict, hand, env, dns, changes, restarts, stamped, clean>>

\* A timeout does not tell whether the call arrives, or when.
UpdateRetried(f) ==
    /\ fam[f].pc = "update" /\ Fails
    /\ late' \in {late, [late EXCEPT ![f] = @ \cup {fam[f].ip}]}
    /\ Set(f, IF fam[f].attempt < MaxAttempts THEN Work("update", fam[f].ip, fam[f].attempt + 1, NoRec)
              ELSE Done("failed"))
    /\ UNCHANGED <<memory, disk, verdict, hand, env, records, changes, restarts, stamped, clean>>

\* Mutant: the mark of an earlier failure stays.
ReportKeeps ==
    /\ Ticking /\ \A f \in Families : fam[f].pc \in {"idle", "done"}
    /\ verdict' = IF verdict # "failed" /\ \E f \in Families : fam[f].end \in {"synced", "skipped"}
                  THEN "success" ELSE "failed"
    /\ fam' = [f \in Families |-> NoWork]
    /\ UNCHANGED <<memory, disk, hand, env, dns, bounds, stamped, clean>>

\* A family counts as a success when it has no error, tried or not.
Report ==
    /\ Ticking /\ \A f \in Families : fam[f].pc \in {"idle", "done"}
    /\ verdict' = IF \E f \in Families : fam[f].end \in {"synced", "skipped"}
                  THEN "success" ELSE "failed"
    /\ fam' = [f \in Families |-> NoWork]
    /\ UNCHANGED <<memory, disk, hand, env, dns, bounds, stamped, clean>>

-----------------------------------------------------------------------------
(* The rest of the world. *)

\* Throttle has passed since the last stamp.  An older stamp, on disk or still
\* to be written, has expired before: a family is stamped outside its window only.
Expired(rec, f) == IF rec = NoRec THEN NoRec ELSE [cfg |-> rec.cfg, fresh |-> rec.fresh \ {f}]

WindowEnds(f) ==
    /\ f \in fresh \cup stamped
    /\ fresh' = fresh \ {f} /\ stamped' = stamped \ {f}
    /\ disk' = Expired(disk, f)
    /\ hand' = [h \in Handlers |-> Expired(hand[h], f)]
    /\ fam' = [g \in Families |-> [fam[g] EXCEPT !.rec = Expired(@, f)]]
    /\ UNCHANGED <<cfg, verdict, env, dns, bounds, clean>>

\* POST /api/ddns/create-record: adds without looking.
CreateRecord(f) ==
    /\ keyFile \/ creds = "boot"
    /\ Change
    /\ \E v \in Addrs : records' = [records EXCEPT ![f] = @ \cup {v}]
    /\ UNCHANGED <<memory, disk, tick, hand, env, late, failures, restarts, stamped, clean>>

\* Someone deletes the records at the provider's console.
ConsoleDelete(f) ==
    /\ records[f] # {} /\ Change
    /\ records' = [records EXCEPT ![f] = {}]
    /\ UNCHANGED <<memory, disk, tick, hand, env, late, failures, restarts, stamped, clean>>

LateUpdate(f) ==
    /\ \E ip \in late[f] :
          /\ late' = [late EXCEPT ![f] = @ \ {ip}]
          /\ \E new \in Replaced(f, ip) \cup {records[f]} : records' = [records EXCEPT ![f] = new]
    /\ UNCHANGED <<memory, disk, tick, hand, env, bounds, stamped, clean>>

AddrChange(f) ==
    /\ Change
    /\ \E a \in (Addrs \cup {NoAddr}) \ {addr[f]} : addr' = [addr EXCEPT ![f] = a]
    /\ UNCHANGED <<memory, disk, tick, hand, keyFile, creds, trigger, dns, failures, restarts, stamped, clean>>

\* The access key is saved or cleared in the panel.  The loop reads through a
\* store of its own (credStore), which keeps the first key it has read, and
\* falls back on the key of its start: neither follows the panel.
KeyChange ==
    /\ Change
    /\ keyFile' = ~keyFile
    /\ UNCHANGED <<memory, disk, tick, hand, creds, addr, trigger, dns, failures, restarts, stamped, clean>>

\* A tick without a key reads the file.
LoadKey ==
    /\ ~Ticking /\ cfg.enabled /\ creds = "none" /\ keyFile
    /\ creds' = "loaded"
    /\ UNCHANGED <<memory, disk, tick, hand, keyFile, addr, trigger, dns, bounds, stamped, clean>>

\* NewSync: the state file wins over the environment, but when it has neither
\* family on, the family setting switches them on again.
Loaded ==
    IF disk = NoRec
    THEN [cfg |-> [enabled |-> TRUE, family |-> EnvFamily, on |-> EnvFamily], fresh |-> {}]
    ELSE [cfg |-> [enabled |-> disk.cfg.enabled, family |-> disk.cfg.family,
                   on |-> IF disk.cfg.on = {} THEN disk.cfg.family ELSE disk.cfg.on],
          fresh |-> disk.fresh]

\* The panel stops anywhere and starts again; LAST_DDNS_FAILED stays.
Restart ==
    /\ restarts < MaxRestarts /\ restarts' = restarts + 1
    /\ cfg' = Loaded.cfg /\ fresh' = Loaded.fresh
    /\ fam' = [f \in Families |-> NoWork] /\ hand' = [h \in Handlers |-> NoRec]
    /\ verdict' = IF verdict = "failed" THEN "failed" ELSE "none"
    /\ creds' = IF keyFile THEN "boot" ELSE "none"
    /\ trigger' = FALSE
    /\ clean' = (clean /\ ~Writing)
    /\ UNCHANGED <<disk, keyFile, addr, dns, changes, failures, stamped>>

Init ==
    /\ cfg = [enabled |-> TRUE, family |-> EnvFamily, on |-> EnvFamily]
    /\ fresh = {} /\ disk = NoRec
    /\ fam = [f \in Families |-> NoWork] /\ hand = [h \in Handlers |-> NoRec]
    /\ verdict = "none" /\ keyFile = TRUE /\ creds = "boot" /\ trigger = FALSE
    /\ addr \in [Families -> Addrs] /\ records = [f \in Families |-> {}]
    /\ late = [f \in Families |-> {}]
    /\ changes = 0 /\ failures = 0 /\ restarts = 0
    /\ stamped = {} /\ clean = TRUE

FamilyStep(f) ==
    \/ Detect(f) \/ DetectFails(f) \/ Stamp(f) \/ Persist(f) \/ PersistFails(f)
    \/ Find(f) \/ FindFails(f) \/ Add(f) \/ AddFails(f)
    \/ Update(f) \/ UpdateFindsNone(f) \/ UpdateDenied(f) \/ UpdateRetried(f)

Panel(h) ==
    \/ SetEnabled(h) \/ \E fs \in Choices : SetConfig(h, fs)
    \/ \E fs \in Choices \ {{}} : SetFamily(h, fs)

Write(h) == SaveWrite(h) \/ SaveFails(h)

Environment ==
    \/ \E f \in Families : CreateRecord(f) \/ ConsoleDelete(f) \/ LateUpdate(f) \/ AddrChange(f)
    \/ KeyChange \/ TriggerNow

Next ==
    \/ \E h \in Handlers : Panel(h) \/ Write(h)
    \/ TickStart \/ TickNow \/ LoadKey \/ Report
    \/ \E f \in Families : FamilyStep(f) \/ WindowEnds(f)
    \/ Environment \/ Restart

Spec == Init /\ [][Next]_vars

\* The timer fires, the goroutines run and time passes.
Fairness ==
    /\ WF_vars(TickStart) /\ WF_vars(LoadKey) /\ WF_vars(Report)
    /\ \A f \in Families : WF_vars(FamilyStep(f)) /\ WF_vars(WindowEnds(f))

FairSpec == Spec /\ Fairness

-----------------------------------------------------------------------------
(* Properties. *)

\* Every variable stays in its domain: in particular no empty address reaches
\* the provider.
TypeOK ==
    /\ cfg \in Config /\ fresh \subseteq Families /\ disk \in Record \cup {NoRec}
    /\ keyFile \in BOOLEAN /\ trigger \in BOOLEAN /\ creds \in {"none", "loaded", "boot"}
    /\ fam \in [Families -> [pc : FamPCs, ip : Addrs \cup {NoAddr}, attempt : 1..MaxAttempts,
                             rec : Record \cup {NoRec},
                             end : {"none", "synced", "skipped", "failed"}]]
    /\ hand \in [Handlers -> Record \cup {NoRec}]
    /\ verdict \in {"none", "success", "failed"}
    /\ addr \in [Families -> Addrs \cup {NoAddr}]
    /\ records \in [Families -> SUBSET Addrs] /\ late \in [Families -> SUBSET Addrs]
    /\ changes \in 0..MaxChanges /\ failures \in 0..MaxFailures /\ restarts \in 0..MaxRestarts
    /\ stamped \subseteq Families /\ clean \in BOOLEAN

\* A restart now would bring back what is in memory: the switches and the
\* throttle windows (statefile.go), as long as no write failed, overlapped
\* another or was cut off by a restart.  Both families off are the exception:
\* NewSync switches them on.
RestartKeepsState ==
    clean /\ ~Writing /\ cfg.on # {} => Loaded = [cfg |-> cfg, fresh |-> fresh]

\* One round of calls for a family in a throttle window, failed or not, over
\* restarts and presses of sync-now too, unless the state file lost the stamp
\* (sync.go, tick and Run).
OneRoundPerWindow ==
    [][\A f \in Families :
          fam[f].pc = "stamp" /\ fam'[f].pc = "persist" /\ f \in stamped => ~clean]_vars

\* The admin wants the family synchronised and gave a key, the host has its address, and there
\* are no two records to choose from.
Wanted(f, a) ==
    /\ keyFile \/ creds # "none"
    /\ cfg.enabled /\ f \in cfg.on /\ addr[f] = a /\ Cardinality(records[f]) <= 1

\* Then the record ends with that address, whatever failed, was deleted or
\* arrived late before (upsertRecord compares with the provider every round).
RecordFollowsAddress ==
    \A f \in Families, a \in Addrs : <>[]Wanted(f, a) => <>[](records[f] = {a})

\* And the panel ends up saying so (recordResult removes LAST_DDNS_FAILED).
BannerClears ==
    \A f \in Families, a \in Addrs : <>[]Wanted(f, a) => <>[](verdict = "success")
=============================================================================
