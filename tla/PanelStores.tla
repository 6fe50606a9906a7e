----------------------------- MODULE PanelStores -----------------------------
(***************************************************************************)
(* What the administrator sets in the panel and what is in force: the      *)
(* stores of internal/panelstate for the panel settings (settings.json),   *)
(* the certificate (cert.conf) and the access key (aliyun.creds), their    *)
(* save and clear handlers, and the merge with the deployer's environment  *)
(* at the start (internal/runtime).                                        *)
(*                                                                         *)
(* Every store is a file and a cache.  A save renames the file without the *)
(* mutex and sets the cache after it; a clear drops the cache and removes  *)
(* the file after it; a read with no cache loads the file.  Settings are   *)
(* applied to the running panel as well, by a snapshot and by a variable   *)
(* of the process.  The key has two stores: the pages' and the DDNS loop's.*)
(***************************************************************************)
EXTENDS Naturals, FiniteSets

CONSTANTS
    Handlers,     \* saves and clears in flight
    Levels,       \* log levels
    Certs,        \* certificate configurations
    Halves,       \* values of either half of an access key
    Forms,        \* settings forms the administrator fills in
    Unset,        \* a field that follows the environment
    None,         \* no file, no cache, nothing
    MaxSaves,     \* bound: requests
    MaxFailures,  \* bound: file operations that fail
    MaxRestarts   \* bound: restarts

ASSUME UnsetAssumption == Unset \notin Levels /\ Unset \notin Halves /\ Unset \notin BOOLEAN
ASSUME NoneAssumption  == None \notin Certs /\ None # Unset
ASSUME BoundsAssumption == MaxSaves \in Nat /\ MaxFailures \in Nat /\ MaxRestarts \in Nat

VARIABLES
    file, cache,  \* by store
    hand,         \* the handlers
    rt,           \* Server.settingsRT, or None
    level,        \* the log level of the process (and the trusted-proxy switch)
    base,         \* what the start merged: Server.Secure, Env*, the certificate
    env,          \* the deployer's environment; plain: IKEV2_HTTP_LISTEN_ADDR is set
    plainOn,      \* Server.PlainHTTPEnabled
    saves, failures, restarts,
    \* History, read by the properties only: whether since the start no two
    \* handlers of a store overlapped and none read it in the middle of a clear;
    \* whether a handler chose its cookie flag before plain HTTP came up.
    apart, early

stores  == <<file, cache>>
running == <<rt, level>>
start   == <<base, env, plainOn>>
bounds  == <<saves, failures, restarts>>
history == <<apart, early>>
vars    == <<stores, hand, running, start, bounds, history>>

Stores   == {"settings", "cert", "aliyun"}
Settings == [secure : BOOLEAN \cup {Unset}, level : Levels \cup {Unset}]
Keys     == [id : Halves, secret : Halves]
Values   == [secure : BOOLEAN, level : Levels]
Content(k) == IF k = "settings" THEN Settings ELSE IF k = "cert" THEN Certs ELSE Keys

\* A handler of a store: what it writes or applies, and the halves it keeps.
Holding(pc, k, new, kept) == [pc |-> pc, store |-> k, new |-> new, kept |-> kept]
Idle == Holding("idle", None, None, {})
PCs  == {"idle", "rename", "cache", "forget", "remove", "read", "store", "process"}

ASSUME FormsAssumption == Forms \subseteq Settings
ASSUME SortsAssumption == None \notin Stores \cup Settings \cup Keys \cup Values

-----------------------------------------------------------------------------
(* Building blocks. *)

Set(h, w)  == hand' = [hand EXCEPT ![h] = w]
Go(h, pc)  == Set(h, [hand[h] EXCEPT !.pc = pc])
At(h, pc)  == hand[h].pc = pc
Works      == UNCHANGED failures
Fails      == failures < MaxFailures /\ failures' = failures + 1
On(k)      == {h \in Handlers : hand[h].store = k}
Clearing(k) == {h \in On(k) : hand[h].pc = "remove"}
Else(v, d) == IF v = Unset THEN d ELSE v

\* What a read of the store returns, and what it leaves in the cache.
Read(k) == IF cache[k] # None THEN cache[k] ELSE file[k]
Loaded(k) ==
    /\ cache' = [cache EXCEPT ![k] = Read(k)]
    /\ apart' = [apart EXCEPT ![k] = @ /\ (cache[k] # None \/ Clearing(k) = {})]

\* effectiveSettings: the panel's value, else the environment's.
Effective(st) ==
    IF st = None THEN [secure |-> base.secure, level |-> base.level]
    ELSE [secure |-> Else(st.secure, base.secure), level |-> Else(st.level, base.level)]

\* The cookie flag is forced off beside a plain listener.
\* Mutant: only a save is checked, not what the environment says.
FlattenedNot(v) == v
Flattened(v) == [secure |-> v.secure /\ ~plainOn, level |-> v.level]

CookieSecure == IF rt = None THEN base.flag ELSE rt.secure

Begin(h, k, w) ==
    /\ At(h, "idle") /\ saves < MaxSaves /\ saves' = saves + 1
    /\ Set(h, w)
    /\ cache' = [cache EXCEPT ![k] = Read(k)]
    /\ apart' = [apart EXCEPT ![k] = @ /\ On(k) = {}]
    /\ UNCHANGED <<file, running, start, failures, restarts, early>>

-----------------------------------------------------------------------------
(* The handlers, up to the store.  A form that Validate refuses changes    *)
(* nothing.                                                                *)

\* Saving Secure is refused when plain HTTP is there.  The effective settings
\* are read before and after, for the notice.
SettingsSave(h, st) ==
    /\ st # [secure |-> Unset, level |-> Unset]
    /\ ~(st.secure = TRUE /\ plainOn)
    /\ Begin(h, "settings", Holding("rename", "settings", st, {}))

\* The button, or a form with nothing in it.
SettingsClear(h) ==
    Begin(h, "settings", Holding("forget", "settings", None, {}))

\* The certificate's handlers do not read first; a page does (see Page).
CertSave(h, c) ==
    /\ At(h, "idle") /\ saves < MaxSaves /\ saves' = saves + 1
    /\ Set(h, Holding("rename", "cert", c, {}))
    /\ apart' = [apart EXCEPT !["cert"] = @ /\ On("cert") = {}]
    /\ UNCHANGED <<stores, running, start, failures, restarts, early>>

CertClear(h) ==
    /\ At(h, "idle") /\ saves < MaxSaves /\ saves' = saves + 1
    /\ Set(h, Holding("forget", "cert", None, {}))
    /\ apart' = [apart EXCEPT !["cert"] = @ /\ On("cert") = {}]
    /\ UNCHANGED <<stores, running, start, failures, restarts, early>>

\* An empty half keeps the saved one; without one the save is refused.
Merged(k) == LET old == Read("aliyun")
             IN  [id |-> Else(k.id, old.id), secret |-> Else(k.secret, old.secret)]
Missing(k) == {f \in {"id", "secret"} : k[f] = Unset}

\* Mutant: an empty secret takes the identifier's place.
AliyunSaveSwapped(h, k) ==
    LET old == Read("aliyun") IN
    /\ k.id # Unset \/ k.secret # Unset
    /\ old = None => k.id # Unset /\ k.secret # Unset
    /\ Begin(h, "aliyun", Holding("rename", "aliyun",
         [id |-> Else(k.id, old.id), secret |-> Else(k.secret, old.id)], Missing(k)))

AliyunSave(h, k) ==
    /\ k.id # Unset \/ k.secret # Unset
    /\ Read("aliyun") = None => k.id # Unset /\ k.secret # Unset
    /\ Begin(h, "aliyun", Holding("rename", "aliyun", Merged(k), Missing(k)))

AliyunClear(h) ==
    /\ At(h, "idle") /\ saves < MaxSaves /\ saves' = saves + 1
    /\ Set(h, Holding("forget", "aliyun", None, {}))
    /\ apart' = [apart EXCEPT !["aliyun"] = @ /\ On("aliyun") = {}]
    /\ UNCHANGED <<stores, running, start, failures, restarts, early>>

-----------------------------------------------------------------------------
(* Writing a store: the rename, then the cache under the mutex. *)

Rename(h) ==
    /\ At(h, "rename") /\ Works
    /\ file' = [file EXCEPT ![hand[h].store] = hand[h].new]
    /\ Go(h, "cache")
    /\ UNCHANGED <<cache, running, start, saves, restarts, history>>

\* Mutant: the cache keeps what it had.
SetCacheNot(h) ==
    /\ At(h, "cache")
    /\ IF hand[h].store = "settings" THEN Go(h, "read") ELSE Set(h, Idle)
    /\ UNCHANGED <<stores, running, start, bounds, history>>

\* Settings go on to be applied; the other stores are done.
SetCache(h) ==
    /\ At(h, "cache")
    /\ cache' = [cache EXCEPT ![hand[h].store] = hand[h].new]
    /\ IF hand[h].store = "settings" THEN Go(h, "read") ELSE Set(h, Idle)
    /\ UNCHANGED <<file, running, start, bounds, history>>

(* Clearing one: the cache under the mutex, then the file. *)

Forget(h) ==
    /\ At(h, "forget")
    /\ cache' = [cache EXCEPT ![hand[h].store] = None]
    /\ Go(h, "remove")
    /\ UNCHANGED <<file, running, start, bounds, history>>

Remove(h) ==
    /\ At(h, "remove") /\ Works
    /\ file' = [file EXCEPT ![hand[h].store] = None]
    /\ IF hand[h].store = "settings" THEN Go(h, "read") ELSE Set(h, Idle)
    /\ UNCHANGED <<cache, running, start, saves, restarts, history>>

\* Either way the handler reports the error and stops.
StoreFails(h) ==
    /\ At(h, "rename") \/ At(h, "remove")
    /\ Fails /\ Set(h, Idle)
    /\ UNCHANGED <<stores, running, start, saves, restarts, history>>

-----------------------------------------------------------------------------
(* Applying the settings: read them back, store the snapshot, set the      *)
(* variables of the process.                                               *)

\* Mutant: what is applied is the form, without the environment behind it.
ReadBackForm(h) ==
    /\ At(h, "read") /\ Loaded("settings")
    /\ Set(h, Holding("store", "settings",
         Flattened([secure |-> hand[h].new # None /\ hand[h].new.secure = TRUE,
                    level |-> Effective(Read("settings")).level]), {}))
    /\ UNCHANGED <<file, running, start, bounds, early>>

\* Mutant: the level is taken as the file has it, followed or not.
ReadBackRaw(h) ==
    /\ At(h, "read") /\ Loaded("settings")
    /\ Set(h, Holding("store", "settings",
         [Flattened(Effective(Read("settings"))) EXCEPT
            !.level = IF Read("settings") = None THEN @ ELSE Read("settings").level], {}))
    /\ UNCHANGED <<file, running, start, bounds, early>>

ReadBack(h) ==
    /\ At(h, "read") /\ Loaded("settings")
    /\ Set(h, Holding("store", "settings", Flattened(Effective(Read("settings"))), {}))
    /\ UNCHANGED <<file, running, start, bounds, early>>

StoreSnapshot(h) ==
    /\ At(h, "store")
    /\ rt' = hand[h].new /\ Go(h, "process")
    /\ UNCHANGED <<stores, level, start, bounds, history>>

SetLogLevel(h) ==
    /\ At(h, "process")
    /\ level' = hand[h].new.level /\ Set(h, Idle)
    /\ UNCHANGED <<stores, rt, start, bounds, history>>

-----------------------------------------------------------------------------
(* Readers. *)

\* A page or a status call of any of the cards.
Page(k) ==
    /\ cache[k] = None /\ file[k] # None
    /\ Loaded(k)
    /\ UNCHANGED <<file, hand, running, start, bounds, early>>

-----------------------------------------------------------------------------
(* The start.  The cookie flag is in use from the moment the TLS listener  *)
(* serves; plain HTTP comes up after it.                                   *)

\* Merge: the files over the environment, field by field.  The log level of
\* the snapshot Env* is the merged one; Secure is the environment's own.
Merge ==
    LET st == file["settings"] IN
    [secure |-> env.secure,
     flag   |-> IF st = None THEN env.secure ELSE Else(st.secure, env.secure),
     level  |-> IF st = None THEN env.level ELSE Else(st.level, env.level),
     cert   |-> IF file["cert"] = None THEN env.cert ELSE file["cert"]]

Restart ==
    /\ restarts < MaxRestarts /\ restarts' = restarts + 1
    /\ hand' = [h \in Handlers |-> Idle]
    /\ base' = Merge /\ rt' = None /\ level' = Merge.level /\ plainOn' = FALSE
    /\ cache' = [k \in Stores |-> IF k = "aliyun" THEN None ELSE file[k]]
    /\ apart' = [k \in Stores |-> TRUE] /\ early' = FALSE
    /\ UNCHANGED <<file, env, saves, failures>>

EnablePlaintextHTTP ==
    /\ env.plain /\ ~plainOn
    /\ plainOn' = TRUE /\ base' = [base EXCEPT !.flag = FALSE]
    /\ rt' = IF rt = None THEN None ELSE [rt EXCEPT !.secure = FALSE]
    /\ early' = (\E h \in Handlers : At(h, "store"))
    /\ UNCHANGED <<stores, hand, level, env, bounds, apart>>

Init ==
    /\ env \in [secure : BOOLEAN, level : Levels, cert : Certs, plain : BOOLEAN]
    /\ file \in [Stores -> {None}]
    /\ cache = file /\ hand = [h \in Handlers |-> Idle]
    /\ base = Merge /\ rt = None /\ level = env.level
    /\ plainOn = FALSE /\ saves = 0 /\ failures = 0 /\ restarts = 0
    /\ apart = [k \in Stores |-> TRUE] /\ early = FALSE

HandlerStep(h) ==
    \/ \E st \in Forms : SettingsSave(h, st)
    \/ SettingsClear(h)
    \/ \E c \in Certs : CertSave(h, c)
    \/ CertClear(h)
    \/ \E k \in [id : Halves \cup {Unset}, secret : Halves \cup {Unset}] : AliyunSave(h, k)
    \/ AliyunClear(h)
    \/ Rename(h) \/ SetCache(h) \/ Forget(h) \/ Remove(h) \/ StoreFails(h)
    \/ ReadBack(h) \/ StoreSnapshot(h) \/ SetLogLevel(h)

Next ==
    \/ \E h \in Handlers : HandlerStep(h)
    \/ \E k \in Stores : Page(k)
    \/ Restart \/ EnablePlaintextHTTP

Spec == Init /\ [][Next]_vars

-----------------------------------------------------------------------------
(* What must hold. *)

\* Every variable has its type, each store its own contents.
TypeOK ==
    /\ \A k \in Stores : file[k] \in Content(k) \cup {None} /\ cache[k] \in Content(k) \cup {None}
    /\ \A h \in Handlers :
         /\ hand[h].pc \in PCs /\ hand[h].store \in Stores \cup {None}
         /\ hand[h].pc \in {"rename", "cache"} => hand[h].new \in Content(hand[h].store)
         /\ hand[h].pc \in {"store", "process"} => hand[h].new \in Values
         /\ hand[h].kept \subseteq {"id", "secret"}
    /\ rt \in Values \cup {None} /\ level \in Levels
    /\ base \in [secure : BOOLEAN, flag : BOOLEAN, level : Levels, cert : Certs]
    /\ env \in [secure : BOOLEAN, level : Levels, cert : Certs, plain : BOOLEAN]
    /\ plainOn \in BOOLEAN /\ early \in BOOLEAN /\ apart \in [Stores -> BOOLEAN]
    /\ saves \in 0 .. MaxSaves /\ failures \in 0 .. MaxFailures /\ restarts \in 0 .. MaxRestarts

Calm(k) == apart[k] /\ On(k) = {}

\* When its requests are done every card shows what the next start will read,
\* also after a save or a clear that failed, as long as they came one after
\* the other and no page was read in the middle of a clear.
PageShowsTheFile ==
    \A k \in Stores : Calm(k) => Read(k) = file[k] /\ cache[k] \in {None, file[k]}

\* Likewise the panel runs by what its settings card shows: the cookie flag (off
\* beside plain HTTP) and the log level, in the snapshot and in the process.
SettingsInForce ==
    Calm("settings") /\ ~early =>
        LET e == Effective(file["settings"]) IN
        /\ CookieSecure = (e.secure /\ ~plainOn)
        /\ level = e.level
        /\ rt # None => rt.level = level

\* However saves, clears, restarts and the start of plain HTTP interleave, the
\* session cookie is not Secure beside a plain listener, unless a handler was
\* between choosing the flag and storing it when that listener came up.
PlainCookieWorks == plainOn /\ ~early => ~CookieSecure

\* Saving one half of the access key leaves the other as it was in the file.
OtherHalfStays ==
    [][\A h \in Handlers :
         /\ At(h, "rename") /\ hand'[h].pc = "cache" /\ hand[h].store = "aliyun"
         /\ apart["aliyun"]
         => \A f \in hand[h].kept : file'["aliyun"][f] = file["aliyun"][f]]_vars
=============================================================================
