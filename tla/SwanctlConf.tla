----------------------------- MODULE SwanctlConf -----------------------------
(***************************************************************************)
(* swanctl.conf and its writers.  The file carries the address pools of    *)
(* the clients and charon's local address.  It is changed by               *)
(*                                                                         *)
(*   the subnet handlers  (internal/web/handlers_subnet.go), which store   *)
(*                        the admin's pools in subnet.conf and rewrite the *)
(*                        pool line under reloadMu, and                    *)
(*   the IPv6 watcher     (internal/swanctl/ipv6watch.go), which rewrites  *)
(*                        the address line from a copy it read earlier and *)
(*                        takes reloadMu only for the --load-all after it. *)
(*                                                                         *)
(* A restart builds the file from a template (scripts/entrypoint.sh): the  *)
(* pools of subnet.conf, of the environment, or detected ones.             *)
(***************************************************************************)
EXTENDS Naturals, FiniteSets

CONSTANTS
    Handlers,      \* POST /api/subnet/{save,clear} in flight together
    Free,          \* reloadMu is not held
    V4s, V6s,      \* pools the admin saves
    EnvV4,         \* the v4 pool the environment or the detection gives
    EnvV6,         \* IKEV2_VPN_SUBNET_V6: a pool, or AutoV6 when it is not set
    DetectedV6,    \* the v6 pool the detection picks
    AutoV6,        \* the word "auto"
    Unset,         \* an empty v6 field; no subnet.conf
    Addrs,         \* global IPv6 addresses of the interface
    NoAddr,        \* the interface has none
    Modes,         \* values of IKEV2_IPV6_ONLY: the watcher runs iff TRUE
    MaxWatched,    \* bound: handlers in flight together while the watcher runs
    MaxFailures,   \* bound: calls that fail
    MaxRestarts    \* bound: container restarts

ASSUME HandlersAssumption == Free \notin Handlers
ASSUME BoundsAssumption   == MaxWatched \in Nat /\ MaxFailures \in Nat /\ MaxRestarts \in Nat
ASSUME PoolsAssumption    == Unset \notin V6s /\ AutoV6 \notin V6s /\ DetectedV6 # AutoV6
ASSUME SubnetAssumption   == Unset \notin [v4 : V4s, v6 : V6s \cup {Unset}]
ASSUME AddrsAssumption    == Addrs # {} /\ NoAddr \notin Addrs
ASSUME ModesAssumption    == Modes \subseteq BOOLEAN /\ Modes # {}

VARIABLES
    file,      \* swanctl.conf: the pools and local_addrs
    loaded,    \* what charon holds of it
    synced,    \* the last --load-all succeeded
    mu,        \* holder of Manager.reloadMu
    disk,      \* subnet.conf
    cache,     \* SubnetConfigStore.cfg
    startup,   \* Server.StartupIPv4Subnet and StartupIPv6Subnet
    hand,      \* the subnet handlers
    watching,  \* Config.IPv6Only
    watch,     \* the watcher: the copy it read and the address it found
    iface,     \* the interface's address now
    failures, restarts,
    \* History, read by the properties only: the pools of the last change that
    \* was loaded, whether a rollback failed, and whether no call failed and no
    \* two handlers overlapped since the container started.
    confirmed, spoiled, clean

conf    == <<file, loaded, synced>>
panel   == <<disk, cache, startup>>
history == <<confirmed, spoiled>>
vars    == <<conf, mu, panel, hand, watching, watch, iface, failures, restarts, history, clean>>

Pools  == [v4 : V4s \cup {EnvV4}, v6 : V6s \cup {EnvV6, DetectedV6}]
File   == [v4 : V4s \cup {EnvV4}, v6 : V6s \cup {EnvV6, DetectedV6}, addr : Addrs \cup {NoAddr}]
Subnet == [v4 : V4s, v6 : V6s \cup {Unset}]

PoolsOf(f)       == [v4 |-> f.v4, v6 |-> f.v6]
UpdatePools(f, p) == [v4 |-> p.v4, v6 |-> p.v6, addr |-> f.addr]

HandPCs == {"idle", "cache", "unlink", "lock", "write", "load", "restore"}

\* A handler's pools to save, its target and the file as it read it; the copy
\* and the address of a tick of the watcher.
Hand == [pc : HandPCs, sub : Subnet \cup {Unset}, target : Pools, orig : File]
Tick == [pc : {"idle", "detect", "write", "reload"}, copy : File, new : Addrs \cup {NoAddr}]

\* What an idle handler and an idle watcher hold is of no interest.
NoFile  == [v4 |-> EnvV4, v6 |-> EnvV6, addr |-> NoAddr]
NoHand  == [pc |-> "idle", sub |-> Unset, target |-> PoolsOf(NoFile), orig |-> NoFile]
NoWatch == [pc |-> "idle", copy |-> NoFile, new |-> NoAddr]

-----------------------------------------------------------------------------
(* Building blocks. *)

Busy(h) == hand[h].pc # "idle"
Quiet   == \A h \in Handlers : ~Busy(h)

\* A handler at pc, with what it holds there.
Heading(pc, sub, target, orig) == [pc |-> pc, sub |-> sub, target |-> target, orig |-> orig]

Finish(h) == hand' = [hand EXCEPT ![h] = NoHand]

Works == UNCHANGED <<failures, clean>>
Fails == failures < MaxFailures /\ failures' = failures + 1 /\ clean' = FALSE

\* A handler starts; clean remembers that it was not alone.
Start(h, next) ==
    /\ ~Busy(h)
    /\ watching => Cardinality({g \in Handlers : Busy(g)}) < MaxWatched
    /\ hand' = [hand EXCEPT ![h] = next]
    /\ clean' = (clean /\ Quiet)

\* swanctl --load-all: the whole file, or on failure nothing, the pools alone
\* (they are loaded before the connections), or everything.
Load     == loaded' = file /\ synced' = TRUE
LoadPart == /\ loaded' \in {loaded, UpdatePools(loaded, file), file}
            /\ synced' = FALSE

-----------------------------------------------------------------------------
(* POST /api/subnet/save: WriteSubnetConfig, then UpdatePoolsAndReload. *)

SaveDisk(h, sub) ==
    /\ Start(h, Heading("cache", sub, NoHand.target, NoFile))
    /\ disk' = sub
    /\ UNCHANGED <<conf, mu, cache, startup, watching, watch, iface, failures, restarts, history>>

\* Mutant: an empty v6 field is written as it is.
EffectiveRaw(sub) == [v4 |-> sub.v4, v6 |-> sub.v6]

\* An empty v6 field stands for the pool of the start.
Effective(sub) == [v4 |-> sub.v4, v6 |-> IF sub.v6 = Unset THEN startup.v6 ELSE sub.v6]

SaveCache(h) ==
    /\ hand[h].pc = "cache"
    /\ cache' = hand[h].sub
    /\ hand' = [hand EXCEPT ![h] = Heading("lock", Unset, Effective(hand[h].sub), NoFile)]
    /\ Works
    /\ UNCHANGED <<conf, mu, disk, startup, watching, watch, iface, restarts, history>>

-----------------------------------------------------------------------------
(* POST /api/subnet/clear: ClearSubnetConfig, then back to the pools of the *)
(* start.                                                                   *)

ClearCache(h) ==
    /\ Start(h, Heading("unlink", Unset, startup, NoFile))
    /\ cache' = Unset
    /\ UNCHANGED <<conf, mu, disk, startup, watching, watch, iface, failures, restarts, history>>

ClearDisk(h) ==
    /\ hand[h].pc = "unlink" /\ Works
    /\ disk' = Unset
    /\ hand' = [hand EXCEPT ![h].pc = "lock"]
    /\ UNCHANGED <<conf, mu, cache, startup, watching, watch, iface, restarts, history>>

\* os.Remove failed: the next read falls back to the file.
ClearDiskFails(h) ==
    /\ hand[h].pc = "unlink" /\ Fails
    /\ Finish(h)
    /\ UNCHANGED <<conf, mu, panel, watching, watch, iface, restarts, history>>

-----------------------------------------------------------------------------
(* UpdatePoolsAndReload, under reloadMu. *)

PoolsRead(h) ==
    /\ hand[h].pc = "lock" /\ mu = Free /\ Works
    /\ mu' = h
    /\ hand' = [hand EXCEPT ![h] = Heading("write", Unset, hand[h].target, file)]
    /\ UNCHANGED <<conf, panel, watching, watch, iface, restarts, history>>

\* Mutant: reloadMu covers the write but not the load.
PoolsWriteUnlocks(h) ==
    /\ hand[h].pc = "write" /\ Works
    /\ file' = UpdatePools(hand[h].orig, hand[h].target)
    /\ mu' = Free
    /\ hand' = [hand EXCEPT ![h].pc = "load"]
    /\ UNCHANGED <<loaded, synced, panel, watching, watch, iface, restarts, history>>

PoolsWrite(h) ==
    /\ hand[h].pc = "write" /\ Works
    /\ file' = UpdatePools(hand[h].orig, hand[h].target)
    /\ hand' = [hand EXCEPT ![h].pc = "load"]
    /\ UNCHANGED <<loaded, synced, mu, panel, watching, watch, iface, restarts, history>>

PoolsWriteFails(h) ==
    /\ hand[h].pc = "write" /\ Fails
    /\ mu' = Free
    /\ Finish(h)
    /\ UNCHANGED <<conf, panel, watching, watch, iface, restarts, history>>

PoolsLoad(h) ==
    /\ hand[h].pc = "load" /\ Works
    /\ UNCHANGED file /\ Load
    /\ mu' = Free
    /\ confirmed' = hand[h].target
    /\ Finish(h)
    /\ UNCHANGED <<panel, watching, watch, iface, restarts, spoiled>>

\* Mutant: the new pools stay in the file.
PoolsLoadFailsKeeps(h) ==
    /\ hand[h].pc = "load" /\ Fails
    /\ UNCHANGED file /\ LoadPart
    /\ mu' = Free
    /\ Finish(h)
    /\ UNCHANGED <<panel, watching, watch, iface, restarts, history>>

PoolsLoadFails(h) ==
    /\ hand[h].pc = "load" /\ Fails
    /\ UNCHANGED file /\ LoadPart
    /\ hand' = [hand EXCEPT ![h].pc = "restore"]
    /\ UNCHANGED <<mu, panel, watching, watch, iface, restarts, history>>

\* restoreFile puts back the whole file as it was read; charon is not told.
PoolsRestore(h) ==
    /\ hand[h].pc = "restore" /\ Works
    /\ file' = hand[h].orig
    /\ mu' = Free
    /\ Finish(h)
    /\ UNCHANGED <<loaded, synced, panel, watching, watch, iface, restarts, history>>

\* The rollback fails too: the load's failure stands for both in the bound.
PoolsRestoreFails(h) ==
    /\ hand[h].pc = "restore" /\ Works
    /\ mu' = Free /\ spoiled' = TRUE
    /\ Finish(h)
    /\ UNCHANGED <<conf, panel, watching, watch, iface, restarts, confirmed>>

-----------------------------------------------------------------------------
(* The IPv6 watcher, one tick: read the file, look at the interface, write   *)
(* the whole copy back with the new address, reload.                         *)

WatchRead ==
    /\ watching /\ watch.pc = "idle"
    /\ watch' = [pc |-> "detect", copy |-> file, new |-> NoAddr]
    /\ UNCHANGED <<conf, mu, panel, hand, watching, iface, failures, restarts, history, clean>>

WatchDetect ==
    /\ watch.pc = "detect"
    /\ watch' = IF iface \in {NoAddr, watch.copy.addr} THEN NoWatch
                ELSE [pc |-> "write", copy |-> watch.copy, new |-> iface]
    /\ UNCHANGED <<conf, mu, panel, hand, watching, iface, failures, restarts, history, clean>>

\* Mutant: the copy is written back as it was read.
WatchWriteOld ==
    /\ watch.pc = "write" /\ Works
    /\ file' = watch.copy
    /\ watch' = [NoWatch EXCEPT !.pc = "reload"]
    /\ UNCHANGED <<loaded, synced, mu, panel, hand, watching, iface, restarts, history>>

WatchWrite ==
    /\ watch.pc = "write" /\ Works
    /\ file' = [watch.copy EXCEPT !.addr = watch.new]
    /\ watch' = [NoWatch EXCEPT !.pc = "reload"]
    /\ UNCHANGED <<loaded, synced, mu, panel, hand, watching, iface, restarts, history>>

WatchWriteFails ==
    /\ watch.pc = "write" /\ Fails
    /\ watch' = NoWatch
    /\ UNCHANGED <<conf, mu, panel, hand, watching, iface, restarts, history>>

\* Manager.ReloadAll, under reloadMu.
WatchReload ==
    /\ watch.pc = "reload" /\ mu = Free /\ Works
    /\ UNCHANGED file /\ Load
    /\ watch' = NoWatch
    /\ UNCHANGED <<mu, panel, hand, watching, iface, restarts, history>>

WatchReloadFails ==
    /\ watch.pc = "reload" /\ mu = Free /\ Fails
    /\ UNCHANGED file /\ LoadPart
    /\ watch' = NoWatch
    /\ UNCHANGED <<mu, panel, hand, watching, iface, restarts, history>>

-----------------------------------------------------------------------------
(* The rest of the world. *)

\* A user pipeline reloads (UserPipeline), with whatever the file holds.
OtherReload ==
    /\ mu = Free /\ loaded # file
    /\ UNCHANGED file /\ Load
    /\ UNCHANGED <<mu, panel, hand, watching, watch, iface, failures, restarts, history, clean>>

\* The provider changes the prefix (nobody looks without the watcher).
AddrChange ==
    /\ watching
    /\ iface' \in (Addrs \cup {NoAddr}) \ {iface}
    /\ UNCHANGED <<conf, mu, panel, hand, watching, watch, failures, restarts, history, clean>>

\* entrypoint.sh: the pools of subnet.conf win; a v6 pool that is not there is
\* taken from the environment, and detected only when there is no subnet.conf.
BootV6(sub) ==
    IF sub = Unset THEN IF EnvV6 = AutoV6 THEN DetectedV6 ELSE EnvV6
    ELSE IF sub.v6 = Unset THEN EnvV6 ELSE sub.v6

BootPools(sub) == [v4 |-> IF sub = Unset THEN EnvV4 ELSE sub.v4, v6 |-> BootV6(sub)]

\* Mutant: the template takes its v4 pool from the environment.
BootFileFromEnv(sub) == [v4 |-> EnvV4, v6 |-> BootPools(sub).v6,
                         addr |-> IF watching THEN iface ELSE NoAddr]

\* The address is probed in IPv6-only mode alone; there the container does not
\* start without one.
BootFile(sub) == [v4 |-> BootPools(sub).v4, v6 |-> BootPools(sub).v6,
                  addr |-> IF watching THEN iface ELSE NoAddr]

\* The state after entrypoint.sh and main() ran with this subnet.conf.
Booted(f, sub) ==
    /\ cache' = sub /\ startup' = PoolsOf(f) /\ confirmed' = PoolsOf(f)
    /\ mu' = Free /\ spoiled' = FALSE /\ clean' = TRUE
    /\ hand' = [h \in Handlers |-> NoHand]
    /\ watch' = NoWatch

Restart ==
    /\ restarts < MaxRestarts /\ restarts' = restarts + 1
    /\ watching => iface # NoAddr
    /\ file' = BootFile(disk) /\ loaded' = file' /\ synced' = TRUE
    /\ Booted(file', disk)
    /\ UNCHANGED <<disk, watching, iface, failures>>

Init ==
    /\ watching \in Modes /\ iface \in Addrs
    /\ disk = Unset /\ cache = Unset
    /\ file = BootFile(Unset) /\ loaded = file /\ synced = TRUE
    /\ startup = PoolsOf(file) /\ confirmed = PoolsOf(file)
    /\ mu = Free /\ spoiled = FALSE /\ clean = TRUE
    /\ hand = [h \in Handlers |-> NoHand]
    /\ watch = NoWatch
    /\ failures = 0 /\ restarts = 0

HandlerStep(h) ==
    \/ SaveCache(h) \/ ClearDisk(h) \/ ClearDiskFails(h)
    \/ PoolsRead(h) \/ PoolsWrite(h) \/ PoolsWriteFails(h)
    \/ PoolsLoad(h) \/ PoolsLoadFails(h) \/ PoolsRestore(h) \/ PoolsRestoreFails(h)

Watch ==
    \/ WatchRead \/ WatchDetect \/ WatchWrite \/ WatchWriteFails
    \/ WatchReload \/ WatchReloadFails

Next ==
    \/ \E h \in Handlers : \/ \E sub \in Subnet : SaveDisk(h, sub)
                           \/ ClearCache(h) \/ HandlerStep(h)
    \/ Watch \/ OtherReload \/ AddrChange \/ Restart

Spec == Init /\ [][Next]_vars

\* The watcher's ticker fires and its goroutine runs; a handler in flight goes
\* on.  The admin, the interface, the user pipelines and restarts owe nothing.
Fairness == WF_vars(Watch) /\ \A h \in Handlers : WF_vars(HandlerStep(h))

FairSpec == Spec /\ Fairness

-----------------------------------------------------------------------------
(* Properties. *)

\* Every variable stays in its domain: in particular what a handler or the
\* watcher writes back is a whole file.
TypeOK ==
    /\ file \in File /\ loaded \in File /\ synced \in BOOLEAN
    /\ mu \in Handlers \cup {Free}
    /\ disk \in Subnet \cup {Unset} /\ cache \in Subnet \cup {Unset} /\ startup \in Pools
    /\ hand \in [Handlers -> Hand]
    /\ watching \in BOOLEAN
    /\ watch \in Tick
    /\ iface \in Addrs \cup {NoAddr}
    /\ failures \in 0..MaxFailures /\ restarts \in 0..MaxRestarts
    /\ confirmed \in Pools /\ spoiled \in BOOLEAN /\ clean \in BOOLEAN

\* With reloadMu free and the last reload good, charon holds what the file says,
\* except between the watcher's write and its reload (reloadMu, loader.go; the
\* watcher writes without it).
CharonTracksFile == mu = Free /\ synced /\ watch.pc # "reload" => loaded = file

\* Without the watcher, the pools in the file are those of the last change that
\* charon loaded: one that failed is rolled back, whatever other handlers do
\* meanwhile (UpdatePoolsAndReload), unless the rollback itself failed.
ConfirmedPoolsStay == ~watching /\ mu = Free /\ ~spoiled => PoolsOf(file) = confirmed

\* The page shows what subnet.conf has and charon holds what the file says.  The
\* pools that are saved are in the file and are those the next start takes.  An
\* empty v6 field and a cleared configuration keep the pools of this start, and
\* there alone the next start may take others: the environment's.
InForce ==
    /\ cache = disk /\ loaded = file
    /\ disk = Unset => PoolsOf(file) = startup
    /\ disk # Unset => /\ file.v4 = BootPools(disk).v4
                       /\ file.v6 = IF disk.v6 = Unset THEN startup.v6 ELSE BootPools(disk).v6

\* Without the watcher, when handlers did not overlap and no call failed, page,
\* subnet.conf, file, charon and, for the saved pools, the next start agree, over
\* any sequence of saves, clears and restarts (handleSubnetSave,
\* handleSubnetClear, UpdatePoolsAndReload, the pools' order in entrypoint.sh).
SavedIsInForce == ~watching /\ Quiet /\ clean => InForce

\* The interface keeps an address and the admin keeps still: then the file ends
\* with that address, even if a handler wrote an older copy over the watcher's
\* (checkAndUpdateIPv6 compares with the file at every tick).
FileAddressSettles ==
    \A a \in Addrs :
        <>[](watching /\ Quiet /\ iface = a) => <>[](file.addr = a)
=============================================================================
