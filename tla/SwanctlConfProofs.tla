-------------------------- MODULE SwanctlConfProofs --------------------------
(***************************************************************************)
(* Proofs about SwanctlConf, for every set of handlers, pools and          *)
(* addresses and every bound.  TLC finds the same invariants true on       *)
(* MCSwanctlConf.                                                          *)
(***************************************************************************)
EXTENDS SwanctlConf, TLAPS

-----------------------------------------------------------------------------
(* Types. *)

\* A handler that has written subnet.conf holds pools that were saved.
SavingHasPools == \A h \in Handlers : hand[h].pc = "cache" => hand[h].sub \in Subnet

TypeInv == TypeOK /\ SavingHasPools

\* A step changes one handler.
Only(h, r) == hand'[h] = r /\ \A g \in Handlers \ {h} : hand'[g] = hand[g]

\* What nobody holds is well formed, and new pools in a file are its pools.
LEMMA Records ==
  /\ NoFile \in File /\ NoHand \in Hand /\ NoWatch \in Tick
  /\ \A f \in File : PoolsOf(f) \in Pools
  /\ \A f \in File, p \in Pools : UpdatePools(f, p) \in File /\ PoolsOf(UpdatePools(f, p)) = p
<1>1. NoFile \in File
  BY DEF File, NoFile
<1>2. \A f \in File : PoolsOf(f) \in Pools
  BY DEF File, Pools, PoolsOf
<1>3. NoHand \in Hand /\ NoWatch \in Tick
  BY <1>1, <1>2 DEF Hand, Tick, NoHand, NoWatch, HandPCs
<1>4. \A f \in File, p \in Pools : UpdatePools(f, p) \in File /\ PoolsOf(UpdatePools(f, p)) = p
  BY DEF File, Pools, PoolsOf, UpdatePools
<1> QED
  BY <1>1, <1>2, <1>3, <1>4

\* Saved pools with an empty v6 field filled in are pools, and so are those
\* the entrypoint chooses.
LEMMA ChosenPools ==
  ASSUME startup \in Pools
  PROVE  /\ \A sub \in Subnet : Effective(sub) \in Pools
         /\ \A sub \in Subnet \cup {Unset} : BootPools(sub) \in Pools
<1>1. \A sub \in Subnet : Effective(sub) \in Pools
  BY DEF Effective, Subnet, Pools
<1>2. ASSUME NEW sub \in Subnet \cup {Unset}
      PROVE  BootV6(sub) \in V6s \cup {EnvV6, DetectedV6}
  BY <1>2 DEF BootV6, Subnet
<1>3. ASSUME NEW sub \in Subnet \cup {Unset}
      PROVE  BootPools(sub) \in Pools
  BY <1>2, <1>3 DEF BootPools, Subnet, Pools
<1> QED
  BY <1>1, <1>3

\* The entrypoint writes a whole file with the pools it chose.
LEMMA BootFiles ==
  ASSUME startup \in Pools, iface \in Addrs \cup {NoAddr}, NEW sub \in Subnet \cup {Unset}
  PROVE  BootFile(sub) \in File /\ PoolsOf(BootFile(sub)) = BootPools(sub)
<1>1. BootPools(sub) \in Pools
  BY ChosenPools
<1>2. BootFile(sub) \in File
  BY <1>1 DEF BootFile, File, Pools
<1>3. PoolsOf(BootFile(sub)) = BootPools(sub)
  BY <1>1 DEF BootFile, PoolsOf, Pools
<1> QED
  BY <1>2, <1>3

\* What each step of a handler makes of it.
LEMMA Moves ==
  ASSUME TypeInv, NEW h \in Handlers
  PROVE  /\ \A r : hand' = [hand EXCEPT ![h] = r] => Only(h, r)
         /\ \A pc : hand' = [hand EXCEPT ![h].pc = pc] =>
              Only(h, Heading(pc, hand[h].sub, hand[h].target, hand[h].orig))
<1>1. hand \in [Handlers -> Hand]
  BY DEF TypeInv, TypeOK
<1>2. ASSUME NEW r, hand' = [hand EXCEPT ![h] = r]
      PROVE  Only(h, r)
  BY <1>1, <1>2 DEF Only
<1>3. ASSUME NEW pc, hand' = [hand EXCEPT ![h].pc = pc]
      PROVE  Only(h, Heading(pc, hand[h].sub, hand[h].target, hand[h].orig))
  <2>1. hand'[h] = [hand[h] EXCEPT !.pc = pc] /\ \A g \in Handlers \ {h} : hand'[g] = hand[g]
    BY <1>1, <1>3
  <2>2. hand[h] \in Hand
    BY <1>1
  <2>3. [hand[h] EXCEPT !.pc = pc] = Heading(pc, hand[h].sub, hand[h].target, hand[h].orig)
    BY <2>2 DEF Hand, Heading
  <2> QED
    BY <2>1, <2>3 DEF Only
<1> QED
  BY <1>2, <1>3

\* A well formed record in place of one handler keeps the types.
LEMMA HandStaysTyped ==
  ASSUME TypeInv, NEW h \in Handlers, NEW r \in Hand, r.pc = "cache" => r.sub \in Subnet,
         hand' = [hand EXCEPT ![h] = r]
  PROVE  hand' \in [Handlers -> Hand] /\ SavingHasPools'
BY DEF TypeInv, TypeOK, SavingHasPools

\* So does another place, unless it asks for saved pools.
LEMMA PcStaysTyped ==
  ASSUME TypeInv, NEW h \in Handlers, NEW pc \in HandPCs \ {"cache"},
         hand' = [hand EXCEPT ![h].pc = pc]
  PROVE  hand' \in [Handlers -> Hand] /\ SavingHasPools'
BY DEF TypeInv, TypeOK, SavingHasPools, Hand

\* Failures stay within their bound.
LEMMA Failing ==
  ASSUME TypeInv, Works \/ Fails
  PROVE  failures' \in 0..MaxFailures /\ clean' \in BOOLEAN
<1>1. failures \in 0..MaxFailures /\ clean \in BOOLEAN /\ MaxFailures \in Nat
  BY BoundsAssumption DEF TypeInv, TypeOK
<1>2. CASE Works
  BY <1>1, <1>2 DEF Works
<1>3. CASE Fails
  <2>1. failures < MaxFailures /\ failures' = failures + 1
    BY <1>3 DEF Fails
  <2>2. failures' \in 0..MaxFailures
    BY <1>1, <2>1
  <2> QED
    BY <1>3, <2>2 DEF Fails
<1> QED
  BY <1>2, <1>3

\* One case per step of a handler; Finish is the end of several.
LEMMA HandlersKeepTypes ==
  ASSUME TypeInv, NEW h \in Handlers,
         (\E sub \in Subnet : SaveDisk(h, sub)) \/ ClearCache(h) \/ HandlerStep(h)
  PROVE  TypeInv'
<1> USE Records
<1>0. /\ hand[h] \in Hand /\ hand[h].orig \in File /\ hand[h].target \in Pools
      /\ hand[h].sub \in Subnet \cup {Unset}
  BY DEF TypeInv, TypeOK, Hand
<1>1. ASSUME NEW sub \in Subnet, SaveDisk(h, sub)
      PROVE  TypeInv'
  <2>1. Heading("cache", sub, NoHand.target, NoFile) \in Hand
    BY DEF Hand, Heading, NoHand, HandPCs
  <2>2. hand' \in [Handlers -> Hand] /\ SavingHasPools'
    BY <1>1, <2>1, HandStaysTyped DEF SaveDisk, Start, Heading
  <2> QED
    BY <1>1, <2>2 DEF SaveDisk, Start, TypeInv, TypeOK, conf, history, File, Pools, Tick
<1>2. CASE ClearCache(h)
  <2>1. Heading("unlink", Unset, startup, NoFile) \in Hand
    BY DEF Hand, Heading, HandPCs, TypeInv, TypeOK
  <2>2. hand' \in [Handlers -> Hand] /\ SavingHasPools'
    BY <1>2, <2>1, HandStaysTyped DEF ClearCache, Start, Heading
  <2> QED
    BY <1>2, <2>2 DEF ClearCache, Start, TypeInv, TypeOK, conf, history
<1>3. CASE SaveCache(h)
  <2>1. hand[h].sub \in Subnet
    BY <1>3 DEF SaveCache, TypeInv, SavingHasPools
  <2>2. Effective(hand[h].sub) \in Pools
    BY <2>1, ChosenPools DEF TypeInv, TypeOK
  <2>3. Heading("lock", Unset, Effective(hand[h].sub), NoFile) \in Hand
    BY <2>2 DEF Hand, Heading, HandPCs
  <2>4. hand' \in [Handlers -> Hand] /\ SavingHasPools'
    BY <1>3, <2>3, HandStaysTyped DEF SaveCache, Heading
  <2> QED
    BY <1>3, <2>1, <2>4, Failing DEF SaveCache, TypeInv, TypeOK, conf, history
<1>4. CASE ClearDisk(h)
  <2>1. hand' \in [Handlers -> Hand] /\ SavingHasPools'
    BY <1>4, PcStaysTyped DEF ClearDisk, HandPCs
  <2> QED
    BY <1>4, <2>1, Failing DEF ClearDisk, TypeInv, TypeOK, conf, history
<1>5. CASE PoolsRead(h)
  <2>1. Heading("write", Unset, hand[h].target, file) \in Hand
    BY <1>0 DEF Hand, Heading, HandPCs, TypeInv, TypeOK
  <2>2. hand' \in [Handlers -> Hand] /\ SavingHasPools'
    BY <1>5, <2>1, HandStaysTyped DEF PoolsRead, Heading
  <2> QED
    BY <1>5, <2>2, Failing DEF PoolsRead, TypeInv, TypeOK, conf, panel, history
<1>6. CASE PoolsWrite(h)
  <2>1. hand' \in [Handlers -> Hand] /\ SavingHasPools'
    BY <1>6, PcStaysTyped DEF PoolsWrite, HandPCs
  <2>2. file' \in File
    BY <1>0, <1>6 DEF PoolsWrite
  <2> QED
    BY <1>6, <2>1, <2>2, Failing DEF PoolsWrite, TypeInv, TypeOK, panel, history
<1>7. CASE PoolsLoadFails(h)
  <2>1. hand' \in [Handlers -> Hand] /\ SavingHasPools'
    BY <1>7, PcStaysTyped DEF PoolsLoadFails, HandPCs
  <2>2. loaded' \in File
    BY <1>7 DEF PoolsLoadFails, LoadPart, TypeInv, TypeOK, UpdatePools, File
  <2> QED
    BY <1>7, <2>1, <2>2, Failing DEF PoolsLoadFails, LoadPart, TypeInv, TypeOK, panel, history
<1>8. ASSUME Finish(h)
      PROVE  hand' \in [Handlers -> Hand] /\ SavingHasPools'
  BY <1>8, HandStaysTyped DEF Finish, NoHand
<1>9. CASE ClearDiskFails(h)
  BY <1>8, <1>9, Failing DEF ClearDiskFails, TypeInv, TypeOK, conf, panel, history
<1>10. CASE PoolsWriteFails(h)
  BY <1>8, <1>10, Failing DEF PoolsWriteFails, TypeInv, TypeOK, conf, panel, history
<1>11. CASE PoolsLoad(h)
  BY <1>0, <1>8, <1>11, Failing DEF PoolsLoad, Load, TypeInv, TypeOK, panel
<1>12. CASE PoolsRestore(h)
  BY <1>0, <1>8, <1>12, Failing DEF PoolsRestore, TypeInv, TypeOK, panel, history
<1>13. CASE PoolsRestoreFails(h)
  BY <1>8, <1>13, Failing DEF PoolsRestoreFails, TypeInv, TypeOK, conf, panel
<1> QED
  BY <1>1, <1>2, <1>3, <1>4, <1>5, <1>6, <1>7, <1>9, <1>10, <1>11, <1>12, <1>13 DEF HandlerStep

\* A tick's record is put in place of another, and no handler moves.
LEMMA WatchKeepsTypes ==
  ASSUME TypeInv, Watch
  PROVE  TypeInv'
<1> USE Records
<1>0. watch \in Tick /\ watch.copy \in File /\ watch.new \in Addrs \cup {NoAddr}
  BY DEF TypeInv, TypeOK, Tick
<1>1. CASE WatchRead
  <2>1. watch' \in Tick
    BY <1>1 DEF WatchRead, Tick, TypeInv, TypeOK
  <2> QED
    BY <1>1, <2>1 DEF WatchRead, TypeInv, TypeOK, SavingHasPools, conf, panel, history
<1>2. CASE WatchDetect
  <2>1. watch' \in Tick
    BY <1>0, <1>2 DEF WatchDetect, Tick, TypeInv, TypeOK
  <2> QED
    BY <1>2, <2>1 DEF WatchDetect, TypeInv, TypeOK, SavingHasPools, conf, panel, history
<1>3. CASE WatchWrite
  <2>1. watch' \in Tick
    BY <1>3 DEF WatchWrite, Tick, NoWatch
  <2>2. file' \in File
    BY <1>0, <1>3 DEF WatchWrite, File
  <2> QED
    BY <1>3, <2>1, <2>2, Failing DEF WatchWrite, TypeInv, TypeOK, SavingHasPools, panel, history
<1>4. CASE WatchWriteFails
  BY <1>4, Failing DEF WatchWriteFails, TypeInv, TypeOK, SavingHasPools, conf, panel, history
<1>5. CASE WatchReload
  BY <1>5, Failing DEF WatchReload, Load, TypeInv, TypeOK, SavingHasPools, panel, history
<1>6. CASE WatchReloadFails
  <2>1. loaded' \in File
    BY <1>6 DEF WatchReloadFails, LoadPart, TypeInv, TypeOK, UpdatePools, File
  <2> QED
    BY <1>6, <2>1, Failing DEF WatchReloadFails, LoadPart, TypeInv, TypeOK, SavingHasPools, panel, history
<1> QED
  BY <1>1, <1>2, <1>3, <1>4, <1>5, <1>6 DEF Watch

\* Types and saved pools, as one inductive invariant.
LEMMA TypeInvHolds == Spec => []TypeInv
<1> USE Records
<1>1. Init => TypeInv
  <2> SUFFICES ASSUME Init PROVE TypeInv
    OBVIOUS
  <2>1. file \in File /\ startup \in Pools
    <3>1. BootPools(Unset) \in Pools
      BY DEF BootPools, BootV6, Pools
    <3> QED
      BY <3>1 DEF Init, BootFile, File, Pools, PoolsOf
  <2>2. hand \in [Handlers -> Hand] /\ SavingHasPools
    BY DEF Init, SavingHasPools, NoHand
  <2>3. disk \in Subnet \cup {Unset} /\ cache \in Subnet \cup {Unset}
    BY DEF Init
  <2>4. failures \in 0..MaxFailures /\ restarts \in 0..MaxRestarts
    BY BoundsAssumption DEF Init
  <2>5. watching \in BOOLEAN /\ synced \in BOOLEAN /\ spoiled \in BOOLEAN /\ clean \in BOOLEAN
    BY ModesAssumption DEF Init
  <2> QED
    BY <2>1, <2>2, <2>3, <2>4, <2>5 DEF Init, TypeInv, TypeOK
<1>2. TypeInv /\ [Next]_vars => TypeInv'
  <2> SUFFICES ASSUME TypeInv, [Next]_vars PROVE TypeInv'
    OBVIOUS
  <2>1. CASE OtherReload
    BY <2>1 DEF OtherReload, Load, TypeInv, TypeOK, SavingHasPools, panel, history
  <2>2. CASE AddrChange
    BY <2>2 DEF AddrChange, TypeInv, TypeOK, SavingHasPools, conf, panel, history
  <2>3. CASE Restart
    <3>1. BootFile(disk) \in File
      BY BootFiles DEF TypeInv, TypeOK
    <3>2. restarts' \in 0..MaxRestarts
      BY <2>3, BoundsAssumption DEF Restart, TypeInv, TypeOK
    <3> QED
      BY <2>3, <3>1, <3>2 DEF Restart, Booted, TypeInv, TypeOK, SavingHasPools, NoHand
  <2>4. CASE UNCHANGED vars
    BY <2>4 DEF vars, conf, panel, history, TypeInv, TypeOK, SavingHasPools
  <2> QED
    BY <2>1, <2>2, <2>3, <2>4, HandlersKeepTypes, WatchKeepsTypes DEF Next
<1> QED
  BY <1>1, <1>2, PTL DEF Spec

\* Every variable stays in its domain.
THEOREM TypesHold == Spec => []TypeOK
BY TypeInvHolds, PTL DEF TypeInv

-----------------------------------------------------------------------------
(* Charon and the file. *)

\* What each step of a handler leaves in its place.
LEMMA Effects ==
  ASSUME TypeInv, NEW h \in Handlers
  PROVE  /\ \A sub : SaveDisk(h, sub) => Only(h, Heading("cache", sub, NoHand.target, NoFile))
         /\ ClearCache(h) => Only(h, Heading("unlink", Unset, startup, NoFile))
         /\ SaveCache(h) => Only(h, Heading("lock", Unset, Effective(hand[h].sub), NoFile))
         /\ ClearDisk(h) => Only(h, Heading("lock", hand[h].sub, hand[h].target, hand[h].orig))
         /\ PoolsRead(h) => Only(h, Heading("write", Unset, hand[h].target, file))
         /\ PoolsWrite(h) => Only(h, Heading("load", hand[h].sub, hand[h].target, hand[h].orig))
         /\ PoolsLoadFails(h) => Only(h, Heading("restore", hand[h].sub, hand[h].target, hand[h].orig))
         /\ ClearDiskFails(h) \/ PoolsWriteFails(h) \/ PoolsLoad(h) \/ PoolsRestore(h)
              \/ PoolsRestoreFails(h) => Only(h, NoHand)
BY Moves DEF SaveDisk, ClearCache, Start, SaveCache, ClearDisk, PoolsRead, PoolsWrite, PoolsLoadFails,
             ClearDiskFails, PoolsWriteFails, PoolsLoad, PoolsRestore, PoolsRestoreFails, Finish

Inside(h) == hand[h].pc \in {"write", "load", "restore"}

\* The handler inside the critical section is the holder of reloadMu.
HolderIsInside == \A h \in Handlers : Inside(h) <=> mu = h

\* With the last reload good, charon holds the file, but for a pool line or an
\* address line that is written and not yet loaded.
WrittenNotLoaded ==
    synced /\ watch.pc # "reload" /\ (\A h \in Handlers : hand[h].pc # "load") => loaded = file

\* A handler rolls back only after a load that failed, and nobody loads
\* before it is done.
RestoringAfterFailure == \A h \in Handlers : hand[h].pc = "restore" => ~synced

LoadInv == HolderIsInside /\ WrittenNotLoaded /\ RestoringAfterFailure

\* Before the critical section a handler disturbs nothing; inside it the
\* mutex keeps every other load away.
LEMMA HandlersKeepLoads ==
  ASSUME TypeInv, LoadInv, NEW h \in Handlers,
         (\E sub \in Subnet : SaveDisk(h, sub)) \/ ClearCache(h) \/ HandlerStep(h)
  PROVE  LoadInv'
<1> USE HandlersAssumption DEF LoadInv, HolderIsInside, WrittenNotLoaded, RestoringAfterFailure, Inside
<1>1. ASSUME NEW pc \in {"idle", "cache", "unlink", "lock"}, hand'[h].pc = pc,
             \A g \in Handlers \ {h} : hand'[g] = hand[g],
             hand[h].pc \in {"idle", "cache", "unlink"}, UNCHANGED <<conf, mu, watch>>
      PROVE  LoadInv'
  BY <1>1 DEF conf
<1>2. ASSUME NEW sub \in Subnet, SaveDisk(h, sub)
      PROVE  LoadInv'
  BY <1>1, <1>2, Effects DEF SaveDisk, Start, Busy, Only, Heading
<1>3. CASE ClearCache(h)
  BY <1>1, <1>3, Effects DEF ClearCache, Start, Busy, Only, Heading
<1>4. CASE SaveCache(h)
  BY <1>1, <1>4, Effects DEF SaveCache, Only, Heading
<1>5. CASE ClearDisk(h)
  BY <1>1, <1>5, Effects DEF ClearDisk, Only, Heading
<1>6. CASE ClearDiskFails(h)
  BY <1>1, <1>6, Effects DEF ClearDiskFails, Only, NoHand
<1>7. CASE PoolsRead(h)
  <2>1. Only(h, Heading("write", Unset, hand[h].target, file))
    BY <1>7, Effects
  <2> QED
    BY <1>7, <2>1 DEF PoolsRead, Only, Heading, conf
<1>8. CASE PoolsWrite(h)
  <2>1. Only(h, Heading("load", hand[h].sub, hand[h].target, hand[h].orig))
    BY <1>8, Effects
  <2> QED
    BY <1>8, <2>1 DEF PoolsWrite, Only, Heading
<1>9. CASE PoolsWriteFails(h)
  BY <1>9, Effects DEF PoolsWriteFails, Only, NoHand, conf
<1>10. CASE PoolsLoad(h)
  <2>1. Only(h, NoHand)
    BY <1>10, Effects
  <2> QED
    BY <1>10, <2>1 DEF PoolsLoad, Load, Only, NoHand
<1>11. CASE PoolsLoadFails(h)
  <2>1. Only(h, Heading("restore", hand[h].sub, hand[h].target, hand[h].orig))
    BY <1>11, Effects
  <2> QED
    BY <1>11, <2>1 DEF PoolsLoadFails, LoadPart, Only, Heading
<1>12. CASE PoolsRestore(h)
  BY <1>12, Effects DEF PoolsRestore, Only, NoHand
<1>13. CASE PoolsRestoreFails(h)
  BY <1>13, Effects DEF PoolsRestoreFails, Only, NoHand, conf
<1> QED
  BY <1>2, <1>3, <1>4, <1>5, <1>6, <1>7, <1>8, <1>9, <1>10, <1>11, <1>12, <1>13 DEF HandlerStep

\* The watcher writes at any time, and loads only with the mutex free.
LEMMA WatchKeepsLoads ==
  ASSUME TypeInv, LoadInv, Watch
  PROVE  LoadInv'
<1> USE HandlersAssumption DEF LoadInv, HolderIsInside, WrittenNotLoaded, RestoringAfterFailure, Inside
<1>1. CASE WatchRead
  BY <1>1 DEF WatchRead, conf
<1>2. CASE WatchDetect
  BY <1>2 DEF WatchDetect, NoWatch, conf
<1>3. CASE WatchWrite
  BY <1>3 DEF WatchWrite, NoWatch
<1>4. CASE WatchWriteFails
  BY <1>4 DEF WatchWriteFails, NoWatch, conf
<1>5. CASE WatchReload
  BY <1>5 DEF WatchReload, Load, NoWatch
<1>6. CASE WatchReloadFails
  BY <1>6 DEF WatchReloadFails, LoadPart, NoWatch
<1> QED
  BY <1>1, <1>2, <1>3, <1>4, <1>5, <1>6 DEF Watch

\* LoadInv is inductive over the typed states.
LEMMA LoadInvHolds == Spec => []LoadInv
<1>1. Init => LoadInv
  BY HandlersAssumption DEF Init, LoadInv, HolderIsInside, WrittenNotLoaded, RestoringAfterFailure, Inside, NoHand
<1>2. TypeInv /\ LoadInv /\ [Next]_vars => LoadInv'
  <2> SUFFICES ASSUME TypeInv, LoadInv, [Next]_vars PROVE LoadInv'
    OBVIOUS
  <2> USE DEF LoadInv, HolderIsInside, WrittenNotLoaded, RestoringAfterFailure, Inside
  <2>1. CASE OtherReload
    BY <2>1, HandlersAssumption DEF OtherReload, Load
  <2>2. CASE AddrChange
    BY <2>2 DEF AddrChange, conf
  <2>3. CASE Restart
    BY <2>3, HandlersAssumption DEF Restart, Booted, NoHand
  <2>4. CASE UNCHANGED vars
    BY <2>4 DEF vars, conf
  <2> QED
    BY <2>1, <2>2, <2>3, <2>4, HandlersKeepLoads, WatchKeepsLoads DEF Next
<1> QED
  BY <1>1, <1>2, TypeInvHolds, PTL DEF Spec

\* With reloadMu free and the last reload good, charon holds what the file
\* says, except between the watcher's write and its reload.
THEOREM CharonTracksTheFile == Spec => []CharonTracksFile
<1>1. TypeInv /\ LoadInv => CharonTracksFile
  BY HandlersAssumption DEF LoadInv, HolderIsInside, WrittenNotLoaded, Inside, CharonTracksFile
<1> QED
  BY <1>1, TypeInvHolds, LoadInvHolds, PTL

-----------------------------------------------------------------------------
(* The file and the pools that were last confirmed. *)

\* The watcher runs or does not; without it no tick is under way.
NoTick == ~watching => watch.pc = "idle"

\* Outside a change the file has the confirmed pools.
OutsideAChange ==
    (\A h \in Handlers : hand[h].pc \notin {"load", "restore"}) => PoolsOf(file) = confirmed

\* A handler about to write holds the file as it is.
CopyIsCurrent == \A h \in Handlers : hand[h].pc = "write" => hand[h].orig = file

\* One that has written put its target in the file and holds the confirmed
\* pools in its copy.
WithinAChange ==
    \A h \in Handlers : hand[h].pc \in {"load", "restore"} =>
        PoolsOf(file) = hand[h].target /\ PoolsOf(hand[h].orig) = confirmed

Kept    == OutsideAChange /\ CopyIsCurrent /\ WithinAChange
PoolInv == NoTick /\ (~watching /\ ~spoiled => Kept)

\* Without the watcher the holder of the mutex is the only writer.
LEMMA HandlersKeepPools ==
  ASSUME TypeInv, LoadInv, PoolInv, NEW h \in Handlers,
         (\E sub \in Subnet : SaveDisk(h, sub)) \/ ClearCache(h) \/ HandlerStep(h)
  PROVE  PoolInv'
<1>1. NoTick'
  BY DEF PoolInv, NoTick, SaveDisk, ClearCache, HandlerStep, SaveCache, ClearDisk, ClearDiskFails, PoolsRead,
         PoolsWrite, PoolsWriteFails, PoolsLoad, PoolsLoadFails, PoolsRestore, PoolsRestoreFails
<1>2. watching' = watching /\ (~spoiled' => ~spoiled)
  BY DEF SaveDisk, ClearCache, HandlerStep, SaveCache, ClearDisk, ClearDiskFails, PoolsRead, PoolsWrite,
         PoolsWriteFails, PoolsLoad, PoolsLoadFails, PoolsRestore, PoolsRestoreFails, history
<1> SUFFICES ASSUME ~watching, ~spoiled, ~spoiled', Kept
             PROVE  Kept'
  BY <1>1, <1>2 DEF PoolInv
<1> USE DEF Kept, OutsideAChange, CopyIsCurrent, WithinAChange
<1>3. \A g \in Handlers \ {h} : ~(Inside(h) /\ Inside(g))
  BY DEF LoadInv, HolderIsInside
<1>4. ASSUME NEW pc \in {"idle", "cache", "unlink", "lock"}, hand'[h].pc = pc,
             \A g \in Handlers \ {h} : hand'[g] = hand[g],
             hand[h].pc \in {"idle", "cache", "unlink", "write"}, UNCHANGED <<file, confirmed>>
      PROVE  Kept'
  BY <1>4
<1>5. ASSUME NEW sub \in Subnet, SaveDisk(h, sub)
      PROVE  Kept'
  BY <1>4, <1>5, Effects DEF SaveDisk, Start, Busy, Only, Heading, conf, history
<1>6. CASE ClearCache(h)
  BY <1>4, <1>6, Effects DEF ClearCache, Start, Busy, Only, Heading, conf, history
<1>7. CASE SaveCache(h)
  <2>1. Only(h, Heading("lock", Unset, Effective(hand[h].sub), NoFile))
    BY <1>7, Effects
  <2> QED
    BY <1>4, <1>7, <2>1 DEF SaveCache, Only, Heading, conf, history
<1>8. CASE ClearDisk(h)
  <2>1. Only(h, Heading("lock", hand[h].sub, hand[h].target, hand[h].orig))
    BY <1>8, Effects
  <2> QED
    BY <1>4, <1>8, <2>1 DEF ClearDisk, Only, Heading, conf, history
<1>9. CASE ClearDiskFails(h)
  BY <1>4, <1>9, Effects DEF ClearDiskFails, Only, NoHand, conf, history
<1>10. CASE PoolsRead(h)
  <2>1. Only(h, Heading("write", Unset, hand[h].target, file))
    BY <1>10, Effects
  <2> QED
    BY <1>10, <2>1 DEF PoolsRead, Only, Heading, conf, history
<1>11. CASE PoolsWrite(h)
  <2>1. Only(h, Heading("load", hand[h].sub, hand[h].target, hand[h].orig))
    BY <1>11, Effects
  <2>2. hand[h].orig \in File /\ hand[h].target \in Pools
    BY DEF TypeInv, TypeOK, Hand
  <2>3. PoolsOf(file') = hand[h].target
    BY <1>11, <2>2, Records DEF PoolsWrite
  <2>4. \A g \in Handlers \ {h} : ~Inside(g)
    BY <1>3, <1>11 DEF PoolsWrite, Inside
  <2>5. PoolsOf(hand[h].orig) = confirmed
    BY <1>11, <2>4 DEF PoolsWrite, Inside
  <2> QED
    BY <1>11, <2>1, <2>3, <2>4, <2>5 DEF PoolsWrite, Only, Heading, Inside, history
<1>12. CASE PoolsWriteFails(h)
  BY <1>4, <1>12, Effects DEF PoolsWriteFails, Only, NoHand, conf, history
<1>13. CASE PoolsLoad(h)
  <2>1. Only(h, NoHand)
    BY <1>13, Effects
  <2>2. \A g \in Handlers \ {h} : ~Inside(g)
    BY <1>3, <1>13 DEF PoolsLoad, Inside
  <2> QED
    BY <1>13, <2>1, <2>2 DEF PoolsLoad, Only, NoHand, Inside
<1>14. CASE PoolsLoadFails(h)
  <2>1. Only(h, Heading("restore", hand[h].sub, hand[h].target, hand[h].orig))
    BY <1>14, Effects
  <2> QED
    BY <1>14, <2>1 DEF PoolsLoadFails, Only, Heading, history
<1>15. CASE PoolsRestore(h)
  <2>1. Only(h, NoHand)
    BY <1>15, Effects
  <2>2. \A g \in Handlers \ {h} : ~Inside(g)
    BY <1>3, <1>15 DEF PoolsRestore, Inside
  <2> QED
    BY <1>15, <2>1, <2>2 DEF PoolsRestore, Only, NoHand, Inside, history
<1>16. CASE PoolsRestoreFails(h)
  BY <1>16 DEF PoolsRestoreFails
<1> QED
  BY <1>5, <1>6, <1>7, <1>8, <1>9, <1>10, <1>11, <1>12, <1>13, <1>14, <1>15, <1>16 DEF HandlerStep

\* PoolInv is inductive over the typed states of LoadInv.
LEMMA PoolInvHolds == Spec => []PoolInv
<1> USE DEF PoolInv, NoTick, Kept, OutsideAChange, CopyIsCurrent, WithinAChange
<1>1. Init => PoolInv
  BY DEF Init, NoHand, NoWatch
<1>2. TypeInv /\ LoadInv /\ PoolInv /\ [Next]_vars => PoolInv'
  <2> SUFFICES ASSUME TypeInv, LoadInv, PoolInv, [Next]_vars PROVE PoolInv'
    OBVIOUS
  <2>1. CASE Watch
    BY <2>1 DEF Watch, WatchRead, WatchDetect, WatchWrite, WatchWriteFails, WatchReload, WatchReloadFails
  <2>2. CASE OtherReload
    BY <2>2 DEF OtherReload, history
  <2>3. CASE AddrChange
    BY <2>3 DEF AddrChange, conf, history
  <2>4. CASE Restart
    BY <2>4 DEF Restart, Booted, NoHand, NoWatch
  <2>5. CASE UNCHANGED vars
    BY <2>5 DEF vars, conf, history
  <2> QED
    BY <2>1, <2>2, <2>3, <2>4, <2>5, HandlersKeepPools DEF Next
<1> QED
  BY <1>1, <1>2, TypeInvHolds, LoadInvHolds, PTL DEF Spec

\* Without the watcher, the pools in the file are those of the last change
\* that charon loaded, whatever handlers do together and whatever fails,
\* unless a rollback itself failed.
THEOREM FailedChangesAreRolledBack == Spec => []ConfirmedPoolsStay
<1>1. LoadInv /\ PoolInv => ConfirmedPoolsStay
  BY HandlersAssumption DEF LoadInv, HolderIsInside, Inside, PoolInv, Kept, OutsideAChange, ConfirmedPoolsStay
<1> QED
  BY <1>1, LoadInvHolds, PoolInvHolds, PTL

-----------------------------------------------------------------------------
(* Page, subnet.conf, file, charon and the next start. *)

\* What subnet.conf asks for.
Asked == IF disk = Unset THEN startup ELSE Effective(disk)

\* Page, subnet.conf and the pools of the file.
Agree == cache = disk /\ PoolsOf(file) = Asked

Alone == \A g, h \in Handlers : Busy(g) /\ Busy(h) => g = h

\* What a handler that is alone and met no failure has reached.
Reached(h) ==
    /\ hand[h].pc = "cache" => disk = hand[h].sub
    /\ hand[h].pc = "unlink" => cache = Unset /\ hand[h].target = startup
    /\ hand[h].pc \in {"lock", "write", "load"} => cache = disk /\ hand[h].target = Asked
    /\ hand[h].pc = "load" => PoolsOf(file) = hand[h].target
    /\ hand[h].pc # "restore"

Undisturbed == Alone /\ (\A h \in Handlers : Reached(h)) /\ (Quiet => Agree)

CleanInv == ~watching /\ clean => Undisturbed

\* Without failures and overlaps a handler carries its change through.
LEMMA HandlersKeepClean ==
  ASSUME TypeInv, CleanInv, NEW h \in Handlers,
         (\E sub \in Subnet : SaveDisk(h, sub)) \/ ClearCache(h) \/ HandlerStep(h)
  PROVE  CleanInv'
<1>1. watching' = watching
  BY DEF SaveDisk, ClearCache, HandlerStep, SaveCache, ClearDisk, ClearDiskFails, PoolsRead, PoolsWrite,
         PoolsWriteFails, PoolsLoad, PoolsLoadFails, PoolsRestore, PoolsRestoreFails
<1>0. clean' => clean
  <2>1. clean' = (clean /\ Quiet) \/ clean' = clean \/ clean' = FALSE
    BY DEF SaveDisk, ClearCache, Start, HandlerStep, SaveCache, ClearDisk, ClearDiskFails, PoolsRead, PoolsWrite,
           PoolsWriteFails, PoolsLoad, PoolsLoadFails, PoolsRestore, PoolsRestoreFails, Works, Fails
  <2> QED
    BY <2>1, Zenon
<1> SUFFICES ASSUME ~watching, clean, clean', Undisturbed
             PROVE  Undisturbed'
  BY <1>0, <1>1 DEF CleanInv
<1>2. \A g \in Handlers : Reached(g)
  BY DEF Undisturbed
\* The step of a busy handler: the others are idle and stay so.
<1>3. ASSUME NEW r, Only(h, r), Busy(h), Reached(h)', r.pc = "idle" => Agree'
      PROVE  Undisturbed'
  <2>1. \A g \in Handlers \ {h} : hand[g].pc = "idle" /\ hand'[g] = hand[g]
    BY <1>3 DEF Undisturbed, Alone, Busy, Only
  <2>2. hand'[h] = r
    BY <1>3 DEF Only
  <2>3. \A g \in Handlers : Reached(g)'
    BY <1>3, <2>1 DEF Reached
  <2>4. Alone' /\ (Quiet' => r.pc = "idle")
    BY <2>1, <2>2 DEF Alone, Quiet, Busy
  <2> QED
    BY <1>3, <2>3, <2>4 DEF Undisturbed
\* The first step of a handler: nobody was at work.
<1>4. ASSUME NEW r, Only(h, r), Quiet, r.pc # "idle", Reached(h)'
      PROVE  Undisturbed'
  <2>1. \A g \in Handlers \ {h} : hand[g].pc = "idle" /\ hand'[g] = hand[g]
    BY <1>4 DEF Quiet, Busy, Only
  <2>2. hand'[h] = r
    BY <1>4 DEF Only
  <2>3. \A g \in Handlers : Reached(g)'
    BY <1>4, <2>1 DEF Reached
  <2>4. Alone' /\ ~Quiet'
    BY <1>4, <2>1, <2>2 DEF Alone, Quiet, Busy
  <2> QED
    BY <2>3, <2>4 DEF Undisturbed
<1>5. ASSUME NEW sub \in Subnet, SaveDisk(h, sub)
      PROVE  Undisturbed'
  <2>1. Only(h, Heading("cache", sub, NoHand.target, NoFile)) /\ disk' = sub
    BY <1>5, Effects DEF SaveDisk
  <2>2. Quiet
    BY <1>5 DEF SaveDisk, Start
  <2> QED
    BY <1>4, <2>1, <2>2 DEF Only, Heading, Reached
<1>6. CASE ClearCache(h)
  <2>1. Only(h, Heading("unlink", Unset, startup, NoFile))
    BY <1>6, Effects
  <2>2. Quiet /\ cache' = Unset /\ startup' = startup
    BY <1>6 DEF ClearCache, Start
  <2> QED
    BY <1>4, <2>1, <2>2 DEF Only, Heading, Reached
<1>7. CASE SaveCache(h)
  <2>1. Only(h, Heading("lock", Unset, Effective(hand[h].sub), NoFile))
    BY <1>7, Effects
  <2>2. disk' = disk /\ startup' = startup /\ cache' = hand[h].sub /\ disk = hand[h].sub /\ Busy(h)
    BY <1>2, <1>7 DEF SaveCache, Reached, Busy
  <2>3. hand[h].sub \in Subnet
    BY <1>7 DEF SaveCache, TypeInv, SavingHasPools
  <2>4. hand[h].sub # Unset
    BY <2>3, SubnetAssumption DEF Subnet
  <2>5. Effective(hand[h].sub) = Asked'
    BY <2>2, <2>4 DEF Asked, Effective
  <2> QED
    BY <1>3, <2>1, <2>2, <2>5 DEF Only, Heading, Reached
<1>8. CASE ClearDisk(h)
  <2>1. Only(h, Heading("lock", hand[h].sub, hand[h].target, hand[h].orig))
    BY <1>8, Effects
  <2>2. disk' = Unset /\ cache' = Unset /\ startup' = startup /\ hand[h].target = startup /\ Busy(h)
    BY <1>2, <1>8 DEF ClearDisk, Reached, Busy
  <2> QED
    BY <1>3, <2>1, <2>2 DEF Only, Heading, Reached, Asked
<1>9. ASSUME UNCHANGED panel
      PROVE  Asked' = Asked /\ cache' = cache /\ disk' = disk
  BY <1>9 DEF panel, Asked, Effective
<1>10. CASE PoolsRead(h)
  <2>1. Only(h, Heading("write", Unset, hand[h].target, file))
    BY <1>10, Effects
  <2>2. cache' = disk' /\ hand[h].target = Asked' /\ Busy(h)
    BY <1>2, <1>9, <1>10 DEF PoolsRead, Reached, Busy
  <2> QED
    BY <1>3, <2>1, <2>2 DEF Only, Heading, Reached
<1>11. CASE PoolsWrite(h)
  <2>1. Only(h, Heading("load", hand[h].sub, hand[h].target, hand[h].orig))
    BY <1>11, Effects
  <2>2. cache' = disk' /\ hand[h].target = Asked' /\ Busy(h)
    BY <1>2, <1>9, <1>11 DEF PoolsWrite, Reached, Busy
  <2>3. hand[h].orig \in File /\ hand[h].target \in Pools
    BY DEF TypeInv, TypeOK, Hand
  <2>4. PoolsOf(file') = hand[h].target
    BY <1>11, <2>3, Records DEF PoolsWrite
  <2>5. PoolsOf(file)' = hand[h].target
    BY <2>4 DEF PoolsOf
  <2> QED
    BY <1>3, <2>1, <2>2, <2>5 DEF Only, Heading, Reached
<1>12. CASE PoolsLoad(h)
  <2>1. Only(h, NoHand)
    BY <1>12, Effects
  <2>2. /\ cache' = disk' /\ hand[h].target = Asked' /\ Busy(h)
        /\ file' = file /\ PoolsOf(file) = hand[h].target
    BY <1>2, <1>9, <1>12 DEF PoolsLoad, Reached, Busy
  <2>3. Agree'
    BY <2>2 DEF Agree, Asked, PoolsOf
  <2> QED
    BY <1>3, <2>1, <2>2, <2>3 DEF Only, NoHand, Reached
<1>13. ~(ClearDiskFails(h) \/ PoolsWriteFails(h) \/ PoolsLoadFails(h))
  BY DEF ClearDiskFails, PoolsWriteFails, PoolsLoadFails, Fails
<1>14. ~(PoolsRestore(h) \/ PoolsRestoreFails(h))
  BY <1>2 DEF PoolsRestore, PoolsRestoreFails, Reached
<1> QED
  BY <1>5, <1>6, <1>7, <1>8, <1>10, <1>11, <1>12, <1>13, <1>14 DEF HandlerStep

\* CleanInv is inductive; a restart makes file, page and subnet.conf agree.
LEMMA CleanInvHolds == Spec => []CleanInv
<1>1. Init => CleanInv
  BY DEF Init, CleanInv, Undisturbed, Alone, Reached, Quiet, Busy, NoHand, Agree, Asked
<1>2. TypeInv /\ PoolInv /\ CleanInv /\ [Next]_vars => CleanInv'
  <2> SUFFICES ASSUME TypeInv, PoolInv, CleanInv, [Next]_vars PROVE CleanInv'
    OBVIOUS
  <2>1. ASSUME UNCHANGED <<file, panel, hand, watching, clean>>
        PROVE  CleanInv'
    <3>1. Agree' = Agree /\ \A h \in Handlers : Reached(h)' = Reached(h)
      BY <2>1 DEF panel, Agree, Effective, PoolsOf, Reached, Asked
    <3> QED
      BY <2>1, <3>1 DEF CleanInv, Undisturbed, Alone, Quiet, Busy
  <2>2. CASE Watch
    <3>1. watching \/ watch.pc # "idle"
      BY <2>2 DEF Watch, WatchRead, WatchDetect, WatchWrite, WatchWriteFails, WatchReload, WatchReloadFails
    <3>2. watching' = watching
      BY <2>2 DEF Watch, WatchRead, WatchDetect, WatchWrite, WatchWriteFails, WatchReload, WatchReloadFails
    <3> QED
      BY <3>1, <3>2 DEF CleanInv, PoolInv, NoTick
  <2>3. CASE OtherReload
    BY <2>1, <2>3 DEF OtherReload
  <2>4. CASE AddrChange
    BY <2>1, <2>4 DEF AddrChange, conf
  <2>5. CASE Restart
    <3>1. BootPools(disk) = PoolsOf(file')
      BY <2>5, BootFiles DEF Restart, TypeInv, TypeOK
    <3>2. startup' = PoolsOf(file') /\ cache' = disk /\ disk' = disk
      BY <2>5 DEF Restart, Booted
    <3>3. Agree'
      BY <3>1, <3>2 DEF Agree, Asked, Effective, BootPools, BootV6, PoolsOf
    <3>4. \A h \in Handlers : hand'[h].pc = "idle"
      BY <2>5 DEF Restart, Booted, NoHand
    <3> QED
      BY <3>3, <3>4 DEF CleanInv, Undisturbed, Alone, Reached, Busy
  <2>6. CASE UNCHANGED vars
    BY <2>1, <2>6 DEF vars, conf
  <2> QED
    BY <2>2, <2>3, <2>4, <2>5, <2>6, HandlersKeepClean DEF Next
<1> QED
  BY <1>1, <1>2, TypeInvHolds, PoolInvHolds, PTL DEF Spec

\* A load that failed is a failure that clean remembers.
CleanIsSynced == clean => synced

LEMMA CleanIsSyncedHolds == Spec => []CleanIsSynced
<1> USE DEF CleanIsSynced
<1>1. Init => CleanIsSynced
  BY DEF Init
<1>2. CleanIsSynced /\ [Next]_vars => CleanIsSynced'
  <2> SUFFICES ASSUME CleanIsSynced, [Next]_vars PROVE CleanIsSynced'
    OBVIOUS
  <2>1. ASSUME NEW h \in Handlers, (\E sub \in Subnet : SaveDisk(h, sub)) \/ ClearCache(h)
        PROVE  CleanIsSynced'
    BY <2>1, Zenon DEF SaveDisk, ClearCache, Start, conf
  <2>2. ASSUME NEW h \in Handlers, HandlerStep(h)
        PROVE  CleanIsSynced'
    BY <2>2 DEF HandlerStep, SaveCache, ClearDisk, ClearDiskFails, PoolsRead, PoolsWrite, PoolsWriteFails,
                PoolsLoad, PoolsLoadFails, PoolsRestore, PoolsRestoreFails, Works, Fails, Load, conf
  <2>3. CASE Watch
    BY <2>3 DEF Watch, WatchRead, WatchDetect, WatchWrite, WatchWriteFails, WatchReload, WatchReloadFails,
                Works, Fails, Load, conf
  <2>4. CASE OtherReload
    BY <2>4 DEF OtherReload, Load
  <2>5. CASE AddrChange
    BY <2>5 DEF AddrChange, conf
  <2>6. CASE Restart
    BY <2>6 DEF Restart
  <2>7. CASE UNCHANGED vars
    BY <2>7 DEF vars, conf
  <2> QED
    BY <2>1, <2>2, <2>3, <2>4, <2>5, <2>6, <2>7 DEF Next
<1> QED
  BY <1>1, <1>2, PTL DEF Spec

\* Without the watcher, when handlers did not overlap and no call failed, page,
\* subnet.conf, file, charon and, for the saved pools, the next start agree.
THEOREM SavedPoolsAreInForce == Spec => []SavedIsInForce
<1>1. TypeInv /\ LoadInv /\ PoolInv /\ CleanInv /\ CleanIsSynced => SavedIsInForce
  <2> SUFFICES ASSUME TypeInv, LoadInv, PoolInv, CleanInv, CleanIsSynced, ~watching, Quiet, clean
               PROVE  InForce
    BY DEF SavedIsInForce
  <2>1. Agree
    BY DEF CleanInv, Undisturbed
  <2>2. mu = Free
    BY DEF LoadInv, HolderIsInside, Inside, Quiet, Busy, TypeInv, TypeOK
  <2>3. watch.pc # "reload"
    BY DEF PoolInv, NoTick
  <2>4. loaded = file
    BY <2>2, <2>3, HandlersAssumption DEF LoadInv, WrittenNotLoaded, Inside, CleanIsSynced, Quiet, Busy
  <2>5. CASE disk = Unset
    BY <2>1, <2>4, <2>5 DEF InForce, Agree, Asked
  <2>6. CASE disk # Unset
    <3>1. PoolsOf(file) = Effective(disk)
      BY <2>1, <2>6 DEF Agree, Asked
    <3>2. /\ file.v4 = disk.v4
          /\ file.v6 = IF disk.v6 = Unset THEN startup.v6 ELSE disk.v6
      BY <3>1 DEF PoolsOf, Effective
    <3>3. /\ BootPools(disk).v4 = disk.v4
          /\ disk.v6 # Unset => BootPools(disk).v6 = disk.v6
      BY <2>6 DEF BootPools, BootV6
    <3> QED
      BY <2>1, <2>4, <2>6, <3>2, <3>3 DEF InForce, Agree
  <2> QED
    BY <2>5, <2>6
<1> QED
  BY <1>1, TypeInvHolds, LoadInvHolds, PoolInvHolds, CleanInvHolds, CleanIsSyncedHolds, PTL
=============================================================================
