--------------------------- MODULE PanelStoresProofs ---------------------------
(***************************************************************************)
(* Proofs about PanelStores, for every set of handlers, levels, keys,      *)
(* certificates and forms and every bound.  TLC finds the same invariants  *)
(* true on MCPanelStores.                                                  *)
(***************************************************************************)
EXTENDS PanelStores, TLAPS

-----------------------------------------------------------------------------
(* Types. *)

Held == Settings \cup Certs \cup Keys \cup {None}
Hand == [pc : PCs, store : Stores \cup {None}, new : Held \cup Values,
         kept : SUBSET {"id", "secret"}]

\* A handler under way has a store; what it writes is of that store, and only
\* settings are applied.
Sound ==
    {w \in Hand : /\ w.pc = "idle" <=> w.store = None
                  /\ w.pc \in {"rename", "cache"} => w.new \in Content(w.store)
                  /\ w.pc \in {"store", "process"} => w.new \in Values
                  /\ w.pc \in {"read", "store", "process"} => w.store = "settings"}

TypeInv ==
    /\ TypeOK /\ hand \in [Handlers -> Sound]
    /\ file \in [Stores -> Held] /\ cache \in [Stores -> Held]

-----------------------------------------------------------------------------
(* Cards. *)

\* While its requests came one after the other: the cache of a store is empty
\* or what the file has, but for the one request between the rename and the
\* cache, which has what the file has; in the middle of a clear it is empty.
StoreInv(k) ==
    apart[k] =>
        /\ \A g, h \in On(k) : g = h
        /\ (\A h \in On(k) : hand[h].pc # "cache") => cache[k] \in {None, file[k]}
        /\ \A h \in On(k) : /\ hand[h].pc = "cache" => file[k] = hand[h].new
                            /\ hand[h].pc = "remove" => cache[k] = None

CardsInv == \A k \in Stores : StoreInv(k)

-----------------------------------------------------------------------------
(* Settings in force. *)

InForce ==
    LET e == Effective(file["settings"]) IN
    /\ CookieSecure = (e.secure /\ ~plainOn)
    /\ level = e.level
    /\ rt # None => rt.level = level

\* The snapshot a request has made is of the file; then it is in the panel, and
\* the level is the process's next.
Applying(w) ==
    LET e == Effective(file["settings"]) IN
    /\ w.pc = "store" => w.new = Flattened(e)
    /\ w.pc = "process" => /\ w.new.level = e.level
                           /\ rt # None /\ rt.level = e.level
                           /\ CookieSecure = (e.secure /\ ~plainOn)

Changed(w) == w.pc \in {"cache", "read", "store", "process"}

\* The file is in force until the request that changed it applies it.
ForceInv ==
    apart["settings"] /\ ~early =>
        /\ (\A h \in On("settings") : ~Changed(hand[h])) => InForce
        /\ \A h \in On("settings") : Applying(hand[h])

-----------------------------------------------------------------------------
(* The cookie flag. *)

\* Neither is the flag set beside plain HTTP nor is a request about to set it.
CookieInv ==
    /\ early => plainOn
    /\ plainOn /\ ~early =>
        /\ ~CookieSecure
        /\ \A h \in Handlers : hand[h].pc = "store" => ~hand[h].new.secure

-----------------------------------------------------------------------------
(* The other half of a key. *)

HalfInv ==
    apart["aliyun"] =>
        \A h \in On("aliyun") : hand[h].pc = "rename" =>
            \A f \in hand[h].kept : hand[h].new[f] = file["aliyun"][f]

-----------------------------------------------------------------------------
(* Proofs: types. *)

KeyForm == [id : Halves \cup {Unset}, secret : Halves \cup {Unset}]

\* Handlers that start are sound.
LEMMA Records ==
  /\ Idle \in Sound /\ Idle.pc = "idle"
  /\ \A k \in Stores : Holding("forget", k, None, {}) \in Sound
  /\ \A k \in Stores : \A v \in Content(k) : \A f \in SUBSET {"id", "secret"} :
       Holding("rename", k, v, f) \in Sound
  /\ \A v \in Values : Holding("store", "settings", v, {}) \in Sound
<1> USE SortsAssumption
<1>1. Idle \in Sound /\ Idle.pc = "idle"
  BY DEF Idle, Holding, Sound, Hand, Held, PCs
<1>2. ASSUME NEW k \in Stores
      PROVE  Holding("forget", k, None, {}) \in Sound
  BY DEF Holding, Sound, Hand, Held, PCs
<1>3. ASSUME NEW k \in Stores, NEW v \in Content(k), NEW f \in SUBSET {"id", "secret"}
      PROVE  Holding("rename", k, v, f) \in Sound
  <2>1. v \in Held
    BY DEF Content, Held
  <2> QED
    BY <2>1 DEF Holding, Sound, Hand, PCs
<1>4. ASSUME NEW v \in Values
      PROVE  Holding("store", "settings", v, {}) \in Sound
  BY DEF Holding, Sound, Hand, PCs, Stores
<1> QED
  BY <1>1, <1>2, <1>3, <1>4

\* What a store holds, or its cache.
LEMMA ReadTyped ==
  ASSUME TypeInv, NEW k \in Stores
  PROVE  /\ Read(k) \in Content(k) \cup {None} /\ Read(k) \in Held
         /\ file[k] \in Content(k) \cup {None} /\ None \notin Content(k)
BY SortsAssumption, NoneAssumption DEF TypeInv, TypeOK, Read, Content

\* Settings over the environment are values, also beside plain HTTP.
LEMMA EffectiveTyped ==
  ASSUME TypeInv, NEW st \in Settings \cup {None}
  PROVE  Effective(st) \in Values /\ Flattened(Effective(st)) \in Values
<1>1. base.secure \in BOOLEAN /\ base.level \in Levels
  BY DEF TypeInv, TypeOK
<1>2. Effective(st) \in Values
  <2>1. CASE st = None
    BY <1>1, <2>1 DEF Effective, Values
  <2>2. CASE st # None
    <3>1. st.secure \in BOOLEAN \cup {Unset} /\ st.level \in Levels \cup {Unset}
      BY <2>2 DEF Settings
    <3>2. Else(st.secure, base.secure) \in BOOLEAN /\ Else(st.level, base.level) \in Levels
      BY <1>1, <3>1 DEF Else
    <3> QED
      BY <2>2, <3>2 DEF Effective, Values
  <2> QED
    BY <2>1, <2>2
<1>3. ASSUME NEW v \in Values
      PROVE  Flattened(v) \in Values
  BY DEF Flattened, Values
<1> QED
  BY <1>2, <1>3

\* A half that is missing is taken from a key that is there.
LEMMA MergedTyped ==
  ASSUME TypeInv, NEW k \in KeyForm,
         Read("aliyun") = None => k.id # Unset /\ k.secret # Unset
  PROVE  Merged(k) \in Content("aliyun") /\ Missing(k) \in SUBSET {"id", "secret"}
<1>1. Read("aliyun") \in Keys \cup {None}
  BY ReadTyped DEF Stores, Content
<1>2. k.id \in Halves \cup {Unset} /\ k.secret \in Halves \cup {Unset}
  BY DEF KeyForm
<1>3. CASE Read("aliyun") = None
  BY <1>2, <1>3 DEF Merged, Else, Content, Keys, Missing
<1>4. CASE Read("aliyun") # None
  <2>1. Read("aliyun").id \in Halves /\ Read("aliyun").secret \in Halves
    BY <1>1, <1>4 DEF Keys
  <2> QED
    BY <1>2, <2>1 DEF Merged, Else, Content, Keys, Missing
<1> QED
  BY <1>3, <1>4

\* A step changes one handler.
Only(h, w) == hand'[h] = w /\ \A g \in Handlers \ {h} : hand'[g] = hand[g]

\* A step moves one handler, which keeps what it has.
Moved(h, pc) == Only(h, Holding(pc, hand[h].store, hand[h].new, hand[h].kept))

\* Setting a handler changes it and no other.
LEMMA Moves ==
  ASSUME TypeInv, NEW h \in Handlers
  PROVE  /\ \A w : Set(h, w) => Only(h, w)
         /\ \A pc : Go(h, pc) => Moved(h, pc)
<1>1. hand \in [Handlers -> Sound]
  BY DEF TypeInv
<1>2. \A w : Set(h, w) => Only(h, w)
  BY <1>1 DEF Set, Only
<1>3. ASSUME NEW pc, Go(h, pc)
      PROVE  Moved(h, pc)
  <2>1. Only(h, [hand[h] EXCEPT !.pc = pc])
    BY <1>2, <1>3 DEF Go
  <2>2. hand[h] \in Sound
    BY <1>1
  <2>3. [hand[h] EXCEPT !.pc = pc] = Holding(pc, hand[h].store, hand[h].new, hand[h].kept)
    BY <2>2 DEF Holding, Sound, Hand
  <2> QED
    BY <2>1, <2>3 DEF Moved
<1> QED
  BY <1>2, <1>3

\* What TypeOK says of the handlers.
HandsTyped ==
    /\ hand \in [Handlers -> Sound]
    /\ \A h \in Handlers :
         /\ hand[h].pc \in PCs /\ hand[h].store \in Stores \cup {None}
         /\ hand[h].pc \in {"rename", "cache"} => hand[h].new \in Content(hand[h].store)
         /\ hand[h].pc \in {"store", "process"} => hand[h].new \in Values
         /\ hand[h].kept \subseteq {"id", "secret"}

\* A sound handler in place of one, or at a place that needs no more.
LEMMA HandTyped ==
  ASSUME TypeInv, NEW h \in Handlers
  PROVE  /\ \A w \in Sound : Set(h, w) => HandsTyped'
         /\ \A pc \in PCs : /\ Go(h, pc) /\ hand[h].pc # "idle" /\ pc # "idle"
                            /\ pc = "cache" => hand[h].pc = "rename"
                            /\ pc = "process" => hand[h].pc = "store"
                            /\ pc = "read" => hand[h].store = "settings"
                            /\ pc \notin {"rename", "store"}
                            => HandsTyped'
<1>1. ASSUME NEW w \in Sound, Set(h, w)
      PROVE  HandsTyped'
  <2>1. hand' \in [Handlers -> Sound]
    BY <1>1 DEF TypeInv, Set
  <2> QED
    BY <2>1 DEF HandsTyped, Sound, Hand
<1>2. ASSUME NEW pc \in PCs, Go(h, pc), hand[h].pc # "idle", pc # "idle",
             pc = "cache" => hand[h].pc = "rename", pc = "process" => hand[h].pc = "store",
             pc = "read" => hand[h].store = "settings", pc \notin {"rename", "store"}
      PROVE  HandsTyped'
  <2>1. hand[h] \in Sound
    BY DEF TypeInv
  <2>2. [hand[h] EXCEPT !.pc = pc] \in Sound
    BY <1>2, <2>1 DEF Sound, Hand
  <2> QED
    BY <1>1, <1>2, <2>2 DEF Go
<1> QED
  BY <1>1, <1>2

\* One more failure, or request, is within the bound.
LEMMA Counting ==
  ASSUME TypeInv
  PROVE  /\ Works \/ Fails => failures' \in 0 .. MaxFailures
         /\ saves < MaxSaves /\ saves' = saves + 1 => saves' \in 0 .. MaxSaves
         /\ restarts < MaxRestarts /\ restarts' = restarts + 1 => restarts' \in 0 .. MaxRestarts
<1>1. /\ failures \in 0 .. MaxFailures /\ saves \in 0 .. MaxSaves /\ restarts \in 0 .. MaxRestarts
      /\ MaxFailures \in Nat /\ MaxSaves \in Nat /\ MaxRestarts \in Nat
  BY BoundsAssumption DEF TypeInv, TypeOK
<1> QED
  BY <1>1 DEF Works, Fails

\* A store's file or cache with new contents of the store.
LEMMA StoreTyped ==
  ASSUME TypeInv, NEW k \in Stores, NEW v \in Content(k) \cup {None}
  PROVE  /\ file' = [file EXCEPT ![k] = v] =>
              /\ file' \in [Stores -> Held]
              /\ \A j \in Stores : file'[j] \in Content(j) \cup {None}
         /\ cache' = [cache EXCEPT ![k] = v] =>
              /\ cache' \in [Stores -> Held]
              /\ \A j \in Stores : cache'[j] \in Content(j) \cup {None}
<1>1. v \in Held
  BY DEF Content, Held
<1>2. /\ file \in [Stores -> Held] /\ \A j \in Stores : file[j] \in Content(j) \cup {None}
      /\ cache \in [Stores -> Held] /\ \A j \in Stores : cache[j] \in Content(j) \cup {None}
  BY DEF TypeInv, TypeOK
<1> QED
  BY <1>1, <1>2

\* A mark of one store's history.
LEMMA ApartTyped ==
  ASSUME TypeInv, NEW k \in Stores, NEW P, apart' = [apart EXCEPT ![k] = @ /\ P]
  PROVE  apart' \in [Stores -> BOOLEAN]
BY DEF TypeInv, TypeOK

\* A handler that starts with a read keeps the types.
LEMMA BeginTyped ==
  ASSUME TypeInv, NEW h \in Handlers, NEW k \in Stores, NEW w \in Sound, Begin(h, k, w)
  PROVE  TypeInv'
<1>1. HandsTyped'
  BY HandTyped DEF Begin
<1>2. /\ cache' \in [Stores -> Held]
      /\ \A j \in Stores : cache'[j] \in Content(j) \cup {None}
  BY ReadTyped, StoreTyped DEF Begin
<1>3. saves' \in 0 .. MaxSaves
  BY Counting DEF Begin
<1>4. apart' \in [Stores -> BOOLEAN]
  BY ApartTyped DEF Begin
<1> QED
  BY <1>1, <1>2, <1>3, <1>4 DEF Begin, HandsTyped, TypeInv, TypeOK, running, start

\* So do the handlers that start without.
LEMMA StartsTyped ==
  ASSUME TypeInv, NEW h \in Handlers, NEW k \in Stores, NEW w \in Sound, Set(h, w),
         saves < MaxSaves, saves' = saves + 1, apart' = [apart EXCEPT ![k] = @ /\ On(k) = {}],
         UNCHANGED <<stores, running, start, failures, restarts, early>>
  PROVE  TypeInv'
<1>1. HandsTyped'
  BY HandTyped
<1>2. saves' \in 0 .. MaxSaves
  BY Counting
<1>3. apart' \in [Stores -> BOOLEAN]
  BY ApartTyped
<1> QED
  BY <1>1, <1>2, <1>3 DEF HandsTyped, TypeInv, TypeOK, stores, running, start

\* The requests that begin keep the types.
LEMMA RequestsTyped ==
  ASSUME TypeInv, NEW h \in Handlers,
         \/ \E st \in Forms : SettingsSave(h, st)
         \/ SettingsClear(h)
         \/ \E c \in Certs : CertSave(h, c)
         \/ CertClear(h)
         \/ \E k \in KeyForm : AliyunSave(h, k)
         \/ AliyunClear(h)
  PROVE  TypeInv'
<1> USE Records
<1>1. "settings" \in Stores /\ "cert" \in Stores /\ "aliyun" \in Stores
  BY DEF Stores
<1>2. ASSUME NEW st \in Forms, SettingsSave(h, st)
      PROVE  TypeInv'
  <2>1. st \in Content("settings")
    BY FormsAssumption DEF Content
  <2>2. Holding("rename", "settings", st, {}) \in Sound
    BY <1>1, <2>1
  <2> QED
    BY <1>1, <1>2, <2>2, BeginTyped DEF SettingsSave
<1>3. CASE SettingsClear(h)
  BY <1>1, <1>3, BeginTyped DEF SettingsClear
<1>4. ASSUME NEW c \in Certs, CertSave(h, c)
      PROVE  TypeInv'
  <2>1. Holding("rename", "cert", c, {}) \in Sound
    <3>1. c \in Content("cert")
      BY DEF Content
    <3> QED
      BY <1>1, <3>1
  <2> QED
    BY <1>1, <1>4, <2>1, StartsTyped DEF CertSave
<1>5. CASE CertClear(h)
  BY <1>1, <1>5, StartsTyped DEF CertClear
<1>6. ASSUME NEW k \in KeyForm, AliyunSave(h, k)
      PROVE  TypeInv'
  <2>1. Holding("rename", "aliyun", Merged(k), Missing(k)) \in Sound
    BY <1>1, <1>6, MergedTyped DEF AliyunSave
  <2> QED
    BY <1>1, <1>6, <2>1, BeginTyped DEF AliyunSave
<1>7. CASE AliyunClear(h)
  BY <1>1, <1>7, StartsTyped DEF AliyunClear
<1> QED
  BY <1>2, <1>3, <1>4, <1>5, <1>6, <1>7

\* So do the steps that write or clear the store of a request.
LEMMA WritesTyped ==
  ASSUME TypeInv, NEW h \in Handlers,
         Rename(h) \/ SetCache(h) \/ Forget(h) \/ Remove(h) \/ StoreFails(h)
  PROVE  TypeInv'
<1> USE Records
<1>0. hand[h] \in Sound /\ hand[h].pc # "idle" /\ hand[h].store \in Stores
  <2>1. hand[h] \in Sound /\ hand[h].pc # "idle"
    BY DEF TypeInv, Rename, SetCache, Forget, Remove, StoreFails, At
  <2> QED
    BY <2>1 DEF Sound, Hand
<1>1. CASE Rename(h)
  <2>1. hand[h].pc = "rename" /\ hand[h].new \in Content(hand[h].store)
    BY <1>0, <1>1 DEF Rename, At, Sound
  <2>2. HandsTyped'
    BY <1>0, <1>1, <2>1, HandTyped DEF Rename, PCs
  <2>3. /\ file' \in [Stores -> Held]
        /\ \A j \in Stores : file'[j] \in Content(j) \cup {None}
    BY <1>0, <1>1, <2>1, StoreTyped DEF Rename
  <2> QED
    BY <1>1, <2>2, <2>3
       DEF Rename, Works, HandsTyped, TypeInv, TypeOK, running, start, history
<1>2. CASE SetCache(h)
  <2>1. hand[h].pc = "cache" /\ hand[h].new \in Content(hand[h].store)
    BY <1>0, <1>2 DEF SetCache, At, Sound
  <2>2. HandsTyped'
    BY <1>0, <1>2, <2>1, HandTyped DEF SetCache, PCs
  <2>3. /\ cache' \in [Stores -> Held]
        /\ \A j \in Stores : cache'[j] \in Content(j) \cup {None}
    BY <1>0, <1>2, <2>1, StoreTyped DEF SetCache
  <2> QED
    BY <1>2, <2>2, <2>3
       DEF SetCache, HandsTyped, TypeInv, TypeOK, running, start, bounds, history
<1>3. CASE Forget(h)
  <2>1. HandsTyped'
    BY <1>0, <1>3, HandTyped DEF Forget, PCs
  <2>2. /\ cache' \in [Stores -> Held]
        /\ \A j \in Stores : cache'[j] \in Content(j) \cup {None}
    BY <1>0, <1>3, StoreTyped DEF Forget
  <2> QED
    BY <1>3, <2>1, <2>2
       DEF Forget, HandsTyped, TypeInv, TypeOK, running, start, bounds, history
<1>4. CASE Remove(h)
  <2>1. HandsTyped'
    BY <1>0, <1>4, HandTyped DEF Remove, PCs
  <2>2. /\ file' \in [Stores -> Held]
        /\ \A j \in Stores : file'[j] \in Content(j) \cup {None}
    BY <1>0, <1>4, StoreTyped DEF Remove
  <2> QED
    BY <1>4, <2>1, <2>2
       DEF Remove, Works, HandsTyped, TypeInv, TypeOK, running, start, history
<1>5. CASE StoreFails(h)
  <2>1. HandsTyped' /\ failures' \in 0 .. MaxFailures
    BY <1>5, HandTyped, Counting DEF StoreFails
  <2> QED
    BY <1>5, <2>1 DEF StoreFails, HandsTyped, TypeInv, TypeOK, stores, running, start, history
<1> QED
  BY <1>1, <1>2, <1>3, <1>4, <1>5

\* So does applying the settings.
LEMMA ApplyTyped ==
  ASSUME TypeInv, NEW h \in Handlers, ReadBack(h) \/ StoreSnapshot(h) \/ SetLogLevel(h)
  PROVE  TypeInv'
<1> USE Records
<1>0. hand[h] \in Sound /\ hand[h].pc # "idle" /\ "settings" \in Stores
  BY DEF TypeInv, ReadBack, StoreSnapshot, SetLogLevel, At, Stores
<1>1. CASE ReadBack(h)
  <2>1. Read("settings") \in Settings \cup {None}
    BY <1>0, ReadTyped DEF Content
  <2>2. Flattened(Effective(Read("settings"))) \in Values
    BY <2>1, EffectiveTyped
  <2>3. HandsTyped'
    BY <1>1, <2>2, HandTyped DEF ReadBack
  <2>4. /\ cache' \in [Stores -> Held]
        /\ \A j \in Stores : cache'[j] \in Content(j) \cup {None}
        /\ apart' \in [Stores -> BOOLEAN]
    BY <1>0, <1>1, ReadTyped, StoreTyped, ApartTyped DEF ReadBack, Loaded
  <2> QED
    BY <1>1, <2>3, <2>4 DEF ReadBack, HandsTyped, TypeInv, TypeOK, running, start, bounds
<1>2. CASE StoreSnapshot(h)
  <2>1. hand[h].pc = "store" /\ hand[h].new \in Values
    BY <1>0, <1>2 DEF StoreSnapshot, At, Sound
  <2>2. HandsTyped'
    BY <1>2, <2>1, HandTyped DEF StoreSnapshot, PCs
  <2> QED
    BY <1>2, <2>1, <2>2 DEF StoreSnapshot, HandsTyped, TypeInv, TypeOK, stores, start, bounds, history
<1>3. CASE SetLogLevel(h)
  <2>1. hand[h].new.level \in Levels
    BY <1>0, <1>3 DEF SetLogLevel, At, Sound, Values
  <2>2. HandsTyped'
    BY <1>3, HandTyped DEF SetLogLevel
  <2> QED
    BY <1>3, <2>1, <2>2 DEF SetLogLevel, HandsTyped, TypeInv, TypeOK, stores, start, bounds, history
<1> QED
  BY <1>1, <1>2, <1>3

\* The merge of a file of settings with the environment is well formed.
LEMMA MergeTyped ==
  ASSUME env \in [secure : BOOLEAN, level : Levels, cert : Certs, plain : BOOLEAN],
         file["settings"] \in Settings \cup {None}, file["cert"] \in Certs \cup {None}
  PROVE  Merge \in [secure : BOOLEAN, flag : BOOLEAN, level : Levels, cert : Certs]
<1> DEFINE st == file["settings"]
<1>1. st # None => st.secure \in BOOLEAN \cup {Unset} /\ st.level \in Levels \cup {Unset}
  BY DEF Settings
<1>2. (IF st = None THEN env.secure ELSE Else(st.secure, env.secure)) \in BOOLEAN
  BY <1>1 DEF Else
<1>3. (IF st = None THEN env.level ELSE Else(st.level, env.level)) \in Levels
  BY <1>1 DEF Else
<1>4. (IF file["cert"] = None THEN env.cert ELSE file["cert"]) \in Certs
  OBVIOUS
<1> HIDE DEF st
<1> QED
  BY <1>2, <1>3, <1>4 DEF Merge, st

\* The other steps keep the types.
LEMMA PanelTyped ==
  ASSUME TypeInv, (\E k \in Stores : Page(k)) \/ Restart \/ EnablePlaintextHTTP
  PROVE  TypeInv'
<1> USE Records
<1>1. ASSUME NEW k \in Stores, Page(k)
      PROVE  TypeInv'
  <2>1. /\ cache' \in [Stores -> Held]
        /\ \A j \in Stores : cache'[j] \in Content(j) \cup {None}
        /\ apart' \in [Stores -> BOOLEAN]
    BY <1>1, ReadTyped, StoreTyped, ApartTyped DEF Page, Loaded
  <2> QED
    BY <1>1, <2>1 DEF Page, TypeInv, TypeOK, running, start, bounds
<1>2. CASE Restart
  <2>0. /\ env \in [secure : BOOLEAN, level : Levels, cert : Certs, plain : BOOLEAN]
        /\ file["settings"] \in Settings \cup {None} /\ file["cert"] \in Certs \cup {None}
    BY DEF TypeInv, TypeOK, Content, Stores
  <2>1. base' \in [secure : BOOLEAN, flag : BOOLEAN, level : Levels, cert : Certs]
    BY <1>2, <2>0, MergeTyped DEF Restart
  <2>2. level' \in Levels
    BY <1>2, <2>0, MergeTyped DEF Restart
  <2>3. hand' \in [Handlers -> Sound]
    BY <1>2 DEF Restart
  <2>4. HandsTyped'
    BY <2>3 DEF HandsTyped, Sound, Hand
  <2>5. /\ cache' \in [Stores -> Held]
        /\ \A j \in Stores : cache'[j] \in Content(j) \cup {None}
    <3>1. None \in Held /\ \A k \in Stores : file[k] \in Held /\ file[k] \in Content(k) \cup {None}
      BY DEF TypeInv, TypeOK, Held
    <3> QED
      BY <1>2, <3>1 DEF Restart
  <2>6. apart' \in [Stores -> BOOLEAN] /\ restarts' \in 0 .. MaxRestarts
    BY <1>2, Counting DEF Restart
  <2> QED
    BY <1>2, <2>1, <2>2, <2>4, <2>5, <2>6 DEF Restart, HandsTyped, TypeInv, TypeOK
<1>3. CASE EnablePlaintextHTTP
  <2>1. base' \in [secure : BOOLEAN, flag : BOOLEAN, level : Levels, cert : Certs]
    BY <1>3 DEF EnablePlaintextHTTP, TypeInv, TypeOK
  <2>2. rt' \in Values \cup {None}
    <3>1. CASE rt = None
      BY <1>3, <3>1 DEF EnablePlaintextHTTP
    <3>2. CASE rt # None
      <4>1. rt \in Values /\ rt' = [rt EXCEPT !.secure = FALSE]
        BY <1>3, <3>2 DEF EnablePlaintextHTTP, TypeInv, TypeOK
      <4> QED
        BY <4>1 DEF Values
    <3> QED
      BY <3>1, <3>2
  <2>3. plainOn' \in BOOLEAN /\ early' \in BOOLEAN
    BY <1>3 DEF EnablePlaintextHTTP
  <2> QED
    BY <1>3, <2>1, <2>2, <2>3 DEF EnablePlaintextHTTP, TypeInv, TypeOK, stores, bounds
<1> QED
  BY <1>1, <1>2, <1>3

\* The first state is well typed.
LEMMA InitTyped ==
  ASSUME Init
  PROVE  TypeInv
<1> USE Records
<1>1. /\ file \in [Stores -> Held] /\ cache \in [Stores -> Held]
      /\ \A k \in Stores : file[k] = None /\ cache[k] = None
  BY DEF Init, Held
<1>2. "settings" \in Stores /\ "cert" \in Stores
  BY DEF Stores
<1>3. base \in [secure : BOOLEAN, flag : BOOLEAN, level : Levels, cert : Certs]
  BY <1>1, <1>2, MergeTyped DEF Init
<1>4. hand \in [Handlers -> Sound]
  BY DEF Init
<1>5. HandsTyped
  BY <1>4 DEF HandsTyped, Sound, Hand
<1>6. saves \in 0 .. MaxSaves /\ failures \in 0 .. MaxFailures /\ restarts \in 0 .. MaxRestarts
  BY BoundsAssumption DEF Init
<1>7. apart \in [Stores -> BOOLEAN] /\ level \in Levels /\ rt \in Values \cup {None}
  BY DEF Init
<1> QED
  BY <1>1, <1>3, <1>5, <1>6, <1>7 DEF Init, HandsTyped, TypeInv, TypeOK

\* Every variable of PanelStores has its type, whatever the handlers of the
\* settings, the certificate and the access key do.
THEOREM TypesHold == Spec => []TypeInv
<1>1. Init => TypeInv
  BY InitTyped
<1>2. TypeInv /\ [Next]_vars => TypeInv'
  <2> SUFFICES ASSUME TypeInv, [Next]_vars
               PROVE  TypeInv'
    OBVIOUS
  <2>1. ASSUME NEW h \in Handlers, HandlerStep(h)
        PROVE  TypeInv'
    BY <2>1, RequestsTyped, WritesTyped, ApplyTyped DEF HandlerStep, KeyForm
  <2>2. CASE UNCHANGED vars
    BY <2>2 DEF vars, stores, running, start, bounds, history, TypeInv, TypeOK
  <2> QED
    BY <2>1, <2>2, PanelTyped DEF Next
<1> QED
  BY <1>1, <1>2, PTL DEF Spec

\* The type invariant that the run checks.
THEOREM TypeOKHolds == Spec => []TypeOK
<1>1. TypeInv => TypeOK
  BY DEF TypeInv
<1> QED
  BY <1>1, TypesHold, PTL

-----------------------------------------------------------------------------
(* Proofs: what a step does to the handlers. *)

\* A request begins at a store: nobody was there, or that is noted, and it
\* may have read the store.
Opens(h, k, w) ==
    /\ hand[h].pc = "idle" /\ w.pc \in {"rename", "forget"} /\ w.store = k
    /\ Only(h, w) /\ UNCHANGED <<file, running, start, early>>
    /\ cache' = cache \/ cache' = [cache EXCEPT ![k] = Read(k)]
    /\ apart' = [apart EXCEPT ![k] = @ /\ On(k) = {}]

\* All requests begin like that.
LEMMA Openings ==
  ASSUME TypeInv, NEW h \in Handlers
  PROVE  /\ \A st \in Forms : SettingsSave(h, st) =>
              Opens(h, "settings", Holding("rename", "settings", st, {}))
         /\ SettingsClear(h) => Opens(h, "settings", Holding("forget", "settings", None, {}))
         /\ \A c \in Certs : CertSave(h, c) => Opens(h, "cert", Holding("rename", "cert", c, {}))
         /\ CertClear(h) => Opens(h, "cert", Holding("forget", "cert", None, {}))
         /\ \A k \in KeyForm : AliyunSave(h, k) =>
              Opens(h, "aliyun", Holding("rename", "aliyun", Merged(k), Missing(k)))
         /\ AliyunClear(h) => Opens(h, "aliyun", Holding("forget", "aliyun", None, {}))
<1>1. ASSUME NEW k \in Stores, NEW w, Begin(h, k, w), w.pc \in {"rename", "forget"}, w.store = k
      PROVE  Opens(h, k, w)
  BY <1>1, Moves DEF Begin, Opens, At
<1>2. ASSUME NEW st \in Forms, SettingsSave(h, st)
      PROVE  Opens(h, "settings", Holding("rename", "settings", st, {}))
  BY <1>1, <1>2 DEF SettingsSave, Stores, Holding
<1>3. SettingsClear(h) => Opens(h, "settings", Holding("forget", "settings", None, {}))
  BY <1>1 DEF SettingsClear, Stores, Holding
<1>4. ASSUME NEW k \in KeyForm, AliyunSave(h, k)
      PROVE  Opens(h, "aliyun", Holding("rename", "aliyun", Merged(k), Missing(k)))
  BY <1>1, <1>4 DEF AliyunSave, Stores, Holding
<1>5. ASSUME NEW c \in Certs, CertSave(h, c)
      PROVE  Opens(h, "cert", Holding("rename", "cert", c, {}))
  <2>1. Only(h, Holding("rename", "cert", c, {}))
    BY <1>5, Moves DEF CertSave
  <2> QED
    BY <1>5, <2>1 DEF CertSave, Opens, At, Holding, stores
<1>6. ASSUME CertClear(h)
      PROVE  Opens(h, "cert", Holding("forget", "cert", None, {}))
  <2>1. Only(h, Holding("forget", "cert", None, {}))
    BY <1>6, Moves DEF CertClear
  <2> QED
    BY <1>6, <2>1 DEF CertClear, Opens, At, Holding, stores
<1>7. ASSUME AliyunClear(h)
      PROVE  Opens(h, "aliyun", Holding("forget", "aliyun", None, {}))
  <2>1. Only(h, Holding("forget", "aliyun", None, {}))
    BY <1>7, Moves DEF AliyunClear
  <2> QED
    BY <1>7, <2>1 DEF AliyunClear, Opens, At, Holding, stores
<1> QED
  BY <1>2, <1>3, <1>4, <1>5, <1>6, <1>7

\* Where the other steps of a handler leave it.
LEMMA Effects ==
  ASSUME TypeInv, NEW h \in Handlers
  PROVE  /\ Rename(h) => Moved(h, "cache")
         /\ SetCache(h) \/ Remove(h) => IF hand[h].store = "settings" THEN Moved(h, "read")
                                        ELSE Only(h, Idle)
         /\ Forget(h) => Moved(h, "remove")
         /\ ReadBack(h) =>
              Only(h, Holding("store", "settings", Flattened(Effective(Read("settings"))), {}))
         /\ StoreSnapshot(h) => Moved(h, "process")
         /\ StoreFails(h) \/ SetLogLevel(h) => Only(h, Idle)
<1> USE Moves
<1>1. Rename(h) => Moved(h, "cache")
  BY DEF Rename
<1>2. SetCache(h) \/ Remove(h) => IF hand[h].store = "settings" THEN Moved(h, "read")
                                  ELSE Only(h, Idle)
  BY DEF SetCache, Remove
<1>3. Forget(h) => Moved(h, "remove")
  BY DEF Forget
<1>4. ReadBack(h) =>
        Only(h, Holding("store", "settings", Flattened(Effective(Read("settings"))), {}))
  BY DEF ReadBack
<1>5. StoreSnapshot(h) => Moved(h, "process")
  BY DEF StoreSnapshot
<1>6. StoreFails(h) \/ SetLogLevel(h) => Only(h, Idle)
  BY DEF StoreFails, SetLogLevel
<1> QED
  BY <1>1, <1>2, <1>3, <1>4, <1>5, <1>6

\* A handler at work is at its store, and one that applies is at the settings.
LEMMA AtStore ==
  ASSUME TypeInv, NEW h \in Handlers, hand[h].pc # "idle"
  PROVE  /\ hand[h].store \in Stores /\ h \in On(hand[h].store)
         /\ hand[h].pc \in {"read", "store", "process"} => hand[h].store = "settings"
<1>1. hand[h] \in Sound
  BY DEF TypeInv
<1> QED
  BY <1>1 DEF Sound, Hand, On

-----------------------------------------------------------------------------
(* Proofs: cards. *)

\* A store that a step leaves alone.
LEMMA StoreFrame ==
  ASSUME NEW k \in Stores, StoreInv(k), On(k)' = On(k), \A h \in On(k) : hand'[h] = hand[h],
         file'[k] = file[k], cache'[k] = cache[k], apart'[k] = apart[k]
  PROVE  StoreInv(k)'
BY DEF StoreInv

\* A step of a handler at its store.
LEMMA StepInStore ==
  ASSUME TypeInv, CardsInv, NEW h \in Handlers, NEW k \in Stores, hand[h].store = k,
         NEW w, Only(h, w), w.store \in {k, None},
         \A j \in Stores \ {k} : /\ file'[j] = file[j] /\ cache'[j] = cache[j]
                                 /\ apart'[j] = apart[j],
         apart'[k] => apart[k],
         apart[k] /\ apart'[k] =>
           /\ w.pc # "cache" => cache'[k] \in {None, file'[k]}
           /\ w.pc = "cache" => w.store = k /\ file'[k] = w.new
           /\ w.pc = "remove" => cache'[k] = None
  PROVE  CardsInv'
<1>1. ASSUME NEW j \in Stores \ {k}
      PROVE  StoreInv(j)'
  <2>1. On(j)' = On(j) /\ \A g \in On(j) : hand'[g] = hand[g]
    BY <1>1, SortsAssumption DEF On, Only
  <2> QED
    BY <1>1, <2>1, StoreFrame DEF CardsInv
<1>2. StoreInv(k)'
  <2> SUFFICES ASSUME apart'[k]
               PROVE  /\ \A f, g \in On(k)' : f = g
                      /\ (\A g \in On(k)' : hand'[g].pc # "cache") => cache'[k] \in {None, file'[k]}
                      /\ \A g \in On(k)' : /\ hand'[g].pc = "cache" => file'[k] = hand'[g].new
                                           /\ hand'[g].pc = "remove" => cache'[k] = None
    BY DEF StoreInv
  <2>1. \A g \in On(k) : g = h
    BY DEF CardsInv, StoreInv, On
  <2>2. \A g \in On(k)' : g = h
    BY <2>1 DEF On, Only
  <2>3. hand'[h] = w /\ (h \in On(k)' <=> w.store = k)
    BY DEF On, Only
  <2>4. (\A g \in On(k)' : hand'[g].pc # "cache") => w.pc # "cache"
    BY <2>3
  <2> QED
    BY <2>2, <2>3, <2>4
<1> QED
  BY <1>1, <1>2 DEF CardsInv

\* A request that begins leaves its store as it was.
LEMMA OpensKeepsCards ==
  ASSUME TypeInv, CardsInv, NEW h \in Handlers, NEW k \in Stores, NEW w, Opens(h, k, w)
  PROVE  CardsInv'
<1>0. /\ hand[h].store = None /\ cache \in [Stores -> Held] /\ apart \in [Stores -> BOOLEAN]
      /\ None \notin Stores
  <2>1. hand[h] \in Sound
    BY DEF TypeInv
  <2> QED
    BY <2>1, SortsAssumption DEF TypeInv, TypeOK, Opens, Sound
<1>1. ASSUME NEW j \in Stores \ {k}
      PROVE  StoreInv(j)'
  <2>1. On(j)' = On(j) /\ \A g \in On(j) : hand'[g] = hand[g]
    BY <1>0, <1>1 DEF On, Only, Opens
  <2>2. file'[j] = file[j] /\ cache'[j] = cache[j] /\ apart'[j] = apart[j]
    BY <1>0, <1>1 DEF Opens
  <2> QED
    BY <1>1, <2>1, <2>2, StoreFrame DEF CardsInv
<1>2. StoreInv(k)'
  <2> SUFFICES ASSUME apart'[k]
               PROVE  /\ \A f, g \in On(k)' : f = g
                      /\ cache'[k] \in {None, file'[k]}
                      /\ \A g \in On(k)' : hand'[g].pc \notin {"cache", "remove"}
    BY DEF StoreInv
  <2>1. apart[k] /\ On(k) = {}
    BY <1>0 DEF Opens
  <2>2. cache[k] \in {None, file[k]}
    BY <2>1 DEF CardsInv, StoreInv
  <2>3. \A g \in On(k)' : g = h
    BY <2>1 DEF On, Opens, Only
  <2>4. hand'[h].pc \in {"rename", "forget"}
    BY DEF Opens, Only
  <2>5. cache'[k] \in {None, file'[k]}
    BY <1>0, <2>2 DEF Opens, Read
  <2> QED
    BY <2>3, <2>4, <2>5
<1> QED
  BY <1>1, <1>2 DEF CardsInv

\* A request's steps at its store leave the cache empty or what the file has,
\* but between the rename and the cache.
LEMMA WritesKeepCards ==
  ASSUME TypeInv, CardsInv, NEW h \in Handlers,
         \/ Rename(h) \/ SetCache(h) \/ Forget(h) \/ Remove(h) \/ StoreFails(h)
         \/ ReadBack(h) \/ StoreSnapshot(h) \/ SetLogLevel(h)
  PROVE  CardsInv'
<1>0. hand[h].pc # "idle"
  BY DEF Rename, SetCache, Forget, Remove, StoreFails, ReadBack, StoreSnapshot, SetLogLevel, At
<1> PICK k \in Stores : hand[h].store = k /\ h \in On(k)
  BY <1>0, AtStore
<1>1. /\ file \in [Stores -> Held] /\ cache \in [Stores -> Held] /\ apart \in [Stores -> BOOLEAN]
      /\ None \in {k, None} /\ Idle.store = None /\ Idle.pc = "idle"
  BY DEF TypeInv, TypeOK, Idle, Holding
<1>2. apart[k] => /\ \A g \in On(k) : g = h
                  /\ hand[h].pc # "cache" => cache[k] \in {None, file[k]}
                  /\ hand[h].pc = "cache" => file[k] = hand[h].new
                  /\ hand[h].pc = "remove" => cache[k] = None
  BY DEF CardsInv, StoreInv
<1>3. ASSUME UNCHANGED apart, NEW w, Only(h, w), w.store \in {k, None},
             \A j \in Stores \ {k} : file'[j] = file[j] /\ cache'[j] = cache[j],
             w.pc # "cache" /\ apart[k] => cache'[k] \in {None, file'[k]},
             w.pc = "cache" => w.store = k /\ file'[k] = w.new,
             w.pc = "remove" => cache'[k] = None
      PROVE  CardsInv'
  BY <1>3, StepInStore
<1>4. CASE Rename(h)
  <2>1. Only(h, Holding("cache", k, hand[h].new, hand[h].kept))
    BY <1>4, Effects DEF Moved
  <2>2. UNCHANGED <<apart, cache>> /\ file' = [file EXCEPT ![k] = hand[h].new]
    BY <1>4 DEF Rename, history
  <2> QED
    BY <1>1, <1>3, <2>1, <2>2 DEF Holding
<1>5. CASE SetCache(h)
  <2>1. hand[h].pc = "cache" /\ UNCHANGED <<apart, file>> /\ cache' = [cache EXCEPT ![k] = hand[h].new]
    BY <1>5 DEF SetCache, At, history
  <2>2. cache'[k] = hand[h].new /\ (apart[k] => cache'[k] = file'[k])
    BY <1>1, <1>2, <2>1
  <2>3. Only(h, Holding("read", k, hand[h].new, hand[h].kept)) => CardsInv'
    BY <1>1, <1>3, <2>1, <2>2 DEF Holding
  <2>4. Only(h, Idle) => CardsInv'
    BY <1>1, <1>3, <2>1, <2>2
  <2> QED
    BY <1>5, <2>3, <2>4, Effects DEF Moved
<1>6. CASE Forget(h)
  <2>1. Only(h, Holding("remove", k, hand[h].new, hand[h].kept))
    BY <1>6, Effects DEF Moved
  <2>2. UNCHANGED <<apart, file>> /\ cache' = [cache EXCEPT ![k] = None]
    BY <1>6 DEF Forget, history
  <2> QED
    BY <1>1, <1>3, <2>1, <2>2 DEF Holding
<1>7. CASE Remove(h)
  <2>1. hand[h].pc = "remove" /\ UNCHANGED <<apart, cache>> /\ file' = [file EXCEPT ![k] = None]
    BY <1>7 DEF Remove, At, history
  <2>2. apart[k] => cache'[k] = None
    BY <1>2, <2>1
  <2>3. Only(h, Holding("read", k, hand[h].new, hand[h].kept)) => CardsInv'
    BY <1>1, <1>3, <2>1, <2>2 DEF Holding
  <2>4. Only(h, Idle) => CardsInv'
    BY <1>1, <1>3, <2>1, <2>2
  <2> QED
    BY <1>7, <2>3, <2>4, Effects DEF Moved
<1>8. CASE StoreFails(h) \/ SetLogLevel(h)
  <2>1. Only(h, Idle) /\ UNCHANGED <<file, cache, apart>> /\ hand[h].pc # "cache"
    BY <1>8, Effects DEF StoreFails, SetLogLevel, At, stores, history
  <2> QED
    BY <1>1, <1>2, <1>3, <2>1
<1>9. CASE StoreSnapshot(h)
  <2>1. Only(h, Holding("process", k, hand[h].new, hand[h].kept))
    BY <1>9, Effects DEF Moved
  <2>2. UNCHANGED <<file, cache, apart>> /\ hand[h].pc # "cache"
    BY <1>9 DEF StoreSnapshot, At, stores, history
  <2> QED
    BY <1>2, <1>3, <2>1, <2>2 DEF Holding
<1>10. CASE ReadBack(h)
  <2>1. hand[h].pc = "read" /\ k = "settings" /\ Loaded(k) /\ UNCHANGED file
    <3>1. hand[h].pc = "read"
      BY <1>10 DEF ReadBack, At
    <3>2. k = "settings"
      BY <1>0, <3>1, AtStore
    <3> QED
      BY <1>10, <3>1, <3>2 DEF ReadBack
  <2> DEFINE v == Flattened(Effective(Read("settings")))
  <2>2. Only(h, Holding("store", k, v, {}))
    BY <1>10, <2>1, Effects
  <2> HIDE DEF v
  <2>3. /\ \A j \in Stores \ {k} : file'[j] = file[j] /\ cache'[j] = cache[j] /\ apart'[j] = apart[j]
        /\ (apart'[k] => apart[k]) /\ cache'[k] = Read(k)
    BY <1>1, <2>1 DEF Loaded
  <2>4. apart[k] => cache'[k] \in {None, file'[k]}
    BY <1>2, <2>1, <2>3 DEF Read
  <2> QED
    BY <2>2, <2>3, <2>4, StepInStore DEF Holding
<1> QED
  BY <1>4, <1>5, <1>6, <1>7, <1>8, <1>9, <1>10

\* A page fills an empty cache from the file, and one that does in the middle
\* of a clear is noted; a restart starts over.
LEMMA PanelKeepsCards ==
  ASSUME TypeInv, CardsInv, (\E k \in Stores : Page(k)) \/ Restart \/ EnablePlaintextHTTP
  PROVE  CardsInv'
<1>0. cache \in [Stores -> Held] /\ apart \in [Stores -> BOOLEAN]
  BY DEF TypeInv, TypeOK
<1>1. ASSUME NEW k \in Stores, Page(k)
      PROVE  CardsInv'
  <2>1. UNCHANGED <<file, hand>> /\ cache[k] = None /\ \A j \in Stores : On(j)' = On(j)
    BY <1>1 DEF Page, On
  <2>2. cache'[k] = file[k] /\ \A j \in Stores \ {k} : cache'[j] = cache[j] /\ apart'[j] = apart[j]
    BY <1>0, <1>1, <2>1 DEF Page, Loaded, Read
  <2>3. apart'[k] => apart[k] /\ Clearing(k) = {}
    BY <1>0, <1>1, <2>1 DEF Page, Loaded
  <2>4. StoreInv(k)'
    BY <2>1, <2>2, <2>3 DEF CardsInv, StoreInv, Clearing
  <2>5. ASSUME NEW j \in Stores \ {k}
        PROVE  StoreInv(j)'
    BY <2>1, <2>2, <2>5, StoreFrame DEF CardsInv
  <2> QED
    BY <2>4, <2>5 DEF CardsInv
<1>2. CASE Restart
  <2>1. \A k \in Stores : On(k)' = {} /\ cache'[k] \in {None, file'[k]}
    BY <1>2, SortsAssumption DEF Restart, On, Idle, Holding
  <2> QED
    BY <2>1 DEF CardsInv, StoreInv
<1>3. CASE EnablePlaintextHTTP
  BY <1>3 DEF EnablePlaintextHTTP, stores, CardsInv, StoreInv, On
<1> QED
  BY <1>1, <1>2, <1>3

\* The cards hold in every reachable state.
THEOREM CardsHold == Spec => []CardsInv
<1>1. Init => CardsInv
  <2> SUFFICES ASSUME Init
               PROVE  CardsInv
    OBVIOUS
  <2>1. \A k \in Stores : On(k) = {} /\ cache[k] = file[k]
    BY SortsAssumption DEF Init, On, Idle, Holding
  <2> QED
    BY <2>1 DEF CardsInv, StoreInv
<1>2. TypeInv /\ CardsInv /\ [Next]_vars => CardsInv'
  <2> SUFFICES ASSUME TypeInv, CardsInv, [Next]_vars
               PROVE  CardsInv'
    OBVIOUS
  <2>1. ASSUME NEW h \in Handlers, HandlerStep(h)
        PROVE  CardsInv'
    <3>1. "settings" \in Stores /\ "cert" \in Stores /\ "aliyun" \in Stores
      BY DEF Stores
    <3> QED
      BY <2>1, <3>1, Openings, OpensKeepsCards, WritesKeepCards DEF HandlerStep, KeyForm
  <2>2. CASE UNCHANGED vars
    BY <2>2 DEF vars, stores, history, CardsInv, StoreInv, On
  <2> QED
    BY <2>1, <2>2, PanelKeepsCards DEF Next
<1> QED
  BY <1>1, <1>2, TypesHold, PTL DEF Spec

\* PanelStores.PageShowsTheFile: when its requests are done and came one after
\* the other, a card shows what the next start will read, though WriteSettings
\* and the like set the cache after the rename and ClearSettings before the
\* removal, and either may fail.
THEOREM PageShowsTheFileHolds == Spec => []PageShowsTheFile
<1>1. CardsInv => PageShowsTheFile
  BY DEF CardsInv, StoreInv, PageShowsTheFile, Calm, Read
<1> QED
  BY <1>1, CardsHold, PTL

-----------------------------------------------------------------------------
(* Proofs: the cookie flag. *)

\* A handler that does not come to the snapshot, when nothing else of it moves.
LEMMA CookieFrame ==
  ASSUME CookieInv, UNCHANGED <<rt, base, plainOn, early>>, NEW h \in Handlers, NEW w, Only(h, w),
         w.pc = "store" /\ plainOn => ~w.new.secure
  PROVE  CookieInv'
BY DEF CookieInv, CookieSecure, Only

\* Every step keeps the flag off beside plain HTTP.
LEMMA CookieKept ==
  ASSUME TypeInv, CookieInv, [Next]_vars
  PROVE  CookieInv'
<1>1. ASSUME NEW h \in Handlers, HandlerStep(h)
      PROVE  CookieInv'
  <2>1. ASSUME NEW k, NEW w, Opens(h, k, w)
        PROVE  CookieInv'
    <3>1. Only(h, w) /\ w.pc # "store" /\ UNCHANGED <<rt, base, plainOn, early>>
      BY <2>1 DEF Opens, running, start
    <3> QED
      BY <3>1, CookieFrame
  <2>2. ASSUME Rename(h) \/ SetCache(h) \/ Forget(h) \/ Remove(h) \/ StoreFails(h) \/ SetLogLevel(h)
        PROVE  CookieInv'
    <3>1. UNCHANGED <<rt, base, plainOn, early>>
      BY <2>2 DEF Rename, SetCache, Forget, Remove, StoreFails, SetLogLevel, running, start, history
    <3>2. \/ \E pc \in {"cache", "remove", "read"} :
               Only(h, Holding(pc, hand[h].store, hand[h].new, hand[h].kept))
          \/ Only(h, Idle)
      BY <2>2, Effects DEF Moved
    <3>3. Idle.pc # "store" /\ \A pc : Holding(pc, hand[h].store, hand[h].new, hand[h].kept).pc = pc
      BY DEF Idle, Holding
    <3> QED
      BY <3>1, <3>2, <3>3, CookieFrame
  <2>3. ASSUME ReadBack(h)
        PROVE  CookieInv'
    <3> DEFINE v == Flattened(Effective(Read("settings")))
    <3>1. Only(h, Holding("store", "settings", v, {})) /\ UNCHANGED <<rt, base, plainOn, early>>
      BY <2>3, Effects DEF ReadBack, running, start
    <3>2. plainOn => ~v.secure
      BY DEF Flattened
    <3> QED
      BY <3>1, <3>2, CookieFrame DEF Holding
  <2>4. ASSUME StoreSnapshot(h)
        PROVE  CookieInv'
    <3>1. /\ hand[h].pc = "store" /\ rt' = hand[h].new /\ UNCHANGED <<base, plainOn, early>>
          /\ Only(h, Holding("process", hand[h].store, hand[h].new, hand[h].kept))
      BY <2>4, Effects DEF StoreSnapshot, At, start, history, Moved
    <3>2. rt' # None
      <4>1. hand[h].new \in Values
        BY <3>1 DEF TypeInv, TypeOK
      <4> QED
        BY <3>1, <4>1, SortsAssumption
    <3> QED
      BY <3>1, <3>2 DEF CookieInv, CookieSecure, Only, Holding
  <2> QED
    BY <1>1, <2>1, <2>2, <2>3, <2>4, Openings DEF HandlerStep, KeyForm
<1>2. CASE (\E k \in Stores : Page(k)) \/ UNCHANGED vars
  BY <1>2 DEF Page, vars, running, start, history, CookieInv, CookieSecure
<1>3. CASE Restart
  BY <1>3 DEF Restart, CookieInv
<1>4. CASE EnablePlaintextHTTP
  <2>1. base'.flag = FALSE
    BY <1>4 DEF EnablePlaintextHTTP, TypeInv, TypeOK
  <2>2. rt' # None => ~rt'.secure
    <3>1. rt # None => rt \in Values
      BY DEF TypeInv, TypeOK
    <3> QED
      BY <1>4, <3>1 DEF EnablePlaintextHTTP, Values
  <2>3. ~CookieSecure'
    BY <2>1, <2>2 DEF CookieSecure
  <2>4. plainOn' /\ (~early' => \A h \in Handlers : hand'[h].pc # "store")
    BY <1>4 DEF EnablePlaintextHTTP, At
  <2> QED
    BY <2>3, <2>4 DEF CookieInv
<1> QED
  BY <1>1, <1>2, <1>3, <1>4 DEF Next

\* The flag is off beside plain HTTP and stays off.
THEOREM CookieHolds == Spec => []CookieInv
<1>1. Init => CookieInv
  BY DEF Init, CookieInv
<1>2. TypeInv /\ CookieInv /\ [Next]_vars => CookieInv'
  BY CookieKept
<1> QED
  BY <1>1, <1>2, TypesHold, PTL DEF Spec

\* PanelStores.PlainCookieWorks: the session cookie is not Secure beside the
\* listener of EnablePlaintextHTTP, unless applyRuntimeSettings had chosen the
\* flag and not stored it when that came up.
THEOREM PlainCookieWorksHolds == Spec => []PlainCookieWorks
<1>1. CookieInv => PlainCookieWorks
  BY DEF CookieInv, PlainCookieWorks
<1> QED
  BY <1>1, CookieHolds, PTL

-----------------------------------------------------------------------------
(* Proofs: settings in force. *)

\* The invariant reads nothing else.
LEMMA ForceFrame ==
  ASSUME ForceInv, On("settings")' = On("settings"),
         \A h \in On("settings") : hand'[h] = hand[h],
         UNCHANGED <<rt, level, base, plainOn, early>>, file'["settings"] = file["settings"],
         apart'["settings"] => apart["settings"]
  PROVE  ForceInv'
<1>1. Effective(file["settings"])' = Effective(file["settings"])
  BY DEF Effective
<1>2. InForce' = InForce /\ CookieSecure' = CookieSecure
  BY <1>1 DEF InForce, CookieSecure
<1>3. Flattened(Effective(file["settings"]))' = Flattened(Effective(file["settings"]))
  BY <1>1 DEF Flattened
<1> QED
  BY <1>1, <1>2, <1>3 DEF ForceInv, Applying, Changed

\* A request of another store leaves the settings alone.
LEMMA OthersKeepForce ==
  ASSUME TypeInv, ForceInv, NEW h \in Handlers, hand[h].store # "settings",
         NEW w, Only(h, w), w.store # "settings",
         UNCHANGED <<rt, level, base, plainOn, early>>, file'["settings"] = file["settings"],
         apart'["settings"] => apart["settings"]
  PROVE  ForceInv'
<1>1. On("settings")' = On("settings") /\ \A g \in On("settings") : hand'[g] = hand[g]
  BY DEF On, Only
<1> QED
  BY <1>1, ForceFrame

\* The file is in force when a request begins, or that it is not alone is
\* noted.
LEMMA OpensKeepForce ==
  ASSUME TypeInv, ForceInv, NEW h \in Handlers, NEW k \in Stores, NEW w, Opens(h, k, w)
  PROVE  ForceInv'
<1>0. /\ hand[h].store = None /\ apart \in [Stores -> BOOLEAN] /\ "settings" \in Stores
      /\ None \notin Stores /\ UNCHANGED <<rt, level, base, plainOn, early, file>>
      /\ Only(h, w) /\ w.store = k /\ w.pc \in {"rename", "forget"}
  <2>1. hand[h] \in Sound
    BY DEF TypeInv
  <2> QED
    BY <2>1, SortsAssumption DEF TypeInv, TypeOK, Opens, Sound, Stores, running, start
<1>1. CASE k # "settings"
  <2>1. apart'["settings"] = apart["settings"]
    BY <1>0, <1>1 DEF Opens
  <2> QED
    BY <1>0, <1>1, <2>1, OthersKeepForce
<1>2. CASE k = "settings"
  <2> SUFFICES ASSUME apart'["settings"], ~early'
               PROVE  /\ InForce'
                      /\ \A g \in On("settings")' : hand'[g].pc \in {"rename", "forget"}
    BY DEF ForceInv, Applying
  <2>1. apart["settings"] /\ On("settings") = {}
    BY <1>0, <1>2 DEF Opens
  <2>2. InForce
    BY <1>0, <2>1 DEF ForceInv
  <2>3. Effective(file["settings"])' = Effective(file["settings"])
    BY <1>0 DEF Effective
  <2>4. InForce'
    BY <1>0, <2>2, <2>3 DEF InForce, CookieSecure
  <2>5. \A g \in On("settings")' : hand'[g].pc \in {"rename", "forget"}
    BY <1>0, <2>1 DEF On, Only
  <2> QED
    BY <2>4, <2>5
<1> QED
  BY <1>1, <1>2

\* A request of the settings, alone at its store: what its next place asks.
LEMMA StepKeepsForce ==
  ASSUME TypeInv, CardsInv, NEW h \in Handlers, hand[h].store = "settings",
         NEW w, Only(h, w), w.store \in {"settings", None},
         apart'["settings"] => apart["settings"],
         apart["settings"] /\ ~early' =>
           (InForce' \/ (w.store = "settings" /\ Changed(w))) /\ Applying(w)'
  PROVE  ForceInv'
<1> SUFFICES ASSUME apart'["settings"], ~early'
             PROVE  /\ (\A g \in On("settings")' : ~Changed(hand'[g])) => InForce'
                    /\ \A g \in On("settings")' : Applying(hand[g])'
  BY DEF ForceInv, Changed
<1>1. \A g \in On("settings") : g = h
  BY DEF CardsInv, StoreInv, On, Stores
<1>2. \A g \in On("settings")' : g = h
  BY <1>1 DEF On, Only
<1>3. hand'[h] = w /\ (h \in On("settings")' <=> w.store = "settings")
  BY DEF On, Only
<1>4. Applying(w)' => Applying(hand[h])'
  BY <1>3 DEF Applying
<1>5. (\A g \in On("settings")' : ~Changed(hand'[g])) => InForce'
  BY <1>3
<1> QED
  BY <1>2, <1>4, <1>5

\* Effective and InForce read the environment, the file and what is running.
LEMMA EffectiveKept ==
  ASSUME base' = base, file'["settings"] = file["settings"]
  PROVE  /\ Effective(file["settings"])' = Effective(file["settings"])
         /\ UNCHANGED <<rt, level, plainOn>> => (InForce' <=> InForce)
<1>1. Effective(file["settings"])' = Effective(file["settings"])
  BY DEF Effective
<1> QED
  BY <1>1 DEF InForce, CookieSecure

\* A request of the settings stores and applies them, or leaves the file.
LEMMA SettingsStepsKeepForce ==
  ASSUME TypeInv, CardsInv, ForceInv, NEW h \in Handlers, hand[h].store = "settings",
         \/ Rename(h) \/ SetCache(h) \/ Forget(h) \/ Remove(h) \/ StoreFails(h)
         \/ ReadBack(h) \/ StoreSnapshot(h) \/ SetLogLevel(h)
  PROVE  ForceInv'
<1>0. /\ apart \in [Stores -> BOOLEAN] /\ "settings" \in Stores /\ h \in On("settings")
      /\ Idle.store = None /\ ~Changed(Idle) /\ Idle.pc = "idle"
  BY DEF TypeInv, TypeOK, Stores, On, Idle, Holding, Changed
<1>1. apart["settings"] =>
        /\ \A g \in On("settings") : g = h
        /\ hand[h].pc # "cache" => cache["settings"] \in {None, file["settings"]}
        /\ ~early /\ ~Changed(hand[h]) => InForce
        /\ ~early => Applying(hand[h])
  BY <1>0 DEF CardsInv, StoreInv, ForceInv
<1>2. CASE Rename(h) \/ SetCache(h) \/ Remove(h)
  <2>1. apart' = apart /\ early' = early
    BY <1>2 DEF Rename, SetCache, Remove, history
  <2>2. \E pc \in {"cache", "read"} : Only(h, Holding(pc, "settings", hand[h].new, hand[h].kept))
    BY <1>2, Effects DEF Moved
  <2>3. ASSUME NEW pc \in {"cache", "read"}, NEW v, NEW f
        PROVE  /\ Holding(pc, "settings", v, f).store = "settings"
               /\ Changed(Holding(pc, "settings", v, f)) /\ Applying(Holding(pc, "settings", v, f))'
    BY DEF Holding, Changed, Applying
  <2> QED
    BY <2>1, <2>2, <2>3, StepKeepsForce
<1>3. CASE Forget(h) \/ StoreFails(h)
  <2>1. /\ UNCHANGED <<file, base, rt, level, plainOn, apart, early>>
        /\ hand[h].pc \in {"forget", "rename", "remove"}
    BY <1>3 DEF Forget, StoreFails, At, stores, running, start, history
  <2>2. apart["settings"] /\ ~early => InForce'
    BY <1>1, <2>1, EffectiveKept DEF Changed
  <2>3. Only(h, Holding("remove", "settings", hand[h].new, hand[h].kept)) \/ Only(h, Idle)
    BY <1>3, Effects DEF Moved
  <2>4. ASSUME NEW w, Only(h, w), w.store \in {"settings", None}, w.pc \in {"remove", "idle"}
        PROVE  ForceInv'
    <3>1. Applying(w)'
      BY <2>4 DEF Applying
    <3> QED
      BY <2>1, <2>2, <2>4, <3>1, StepKeepsForce
  <2> QED
    BY <1>0, <2>3, <2>4 DEF Holding
<1>4. CASE ReadBack(h)
  <2>1. /\ UNCHANGED <<file, base, rt, level, plainOn, early>> /\ hand[h].pc = "read"
        /\ apart'["settings"] => apart["settings"]
    BY <1>0, <1>4 DEF ReadBack, Loaded, At, running, start
  <2>2. apart["settings"] => Read("settings") = file["settings"]
    BY <1>1, <2>1 DEF Read
  <2> PICK v : v = Flattened(Effective(Read("settings")))
    OBVIOUS
  <2>3. Only(h, Holding("store", "settings", v, {}))
    BY <1>4, Effects
  <2>4. apart["settings"] => v = Flattened(Effective(file["settings"]))'
    BY <2>1, <2>2, EffectiveKept DEF Flattened
  <2>5. /\ Holding("store", "settings", v, {}).store = "settings"
        /\ Changed(Holding("store", "settings", v, {}))
        /\ apart["settings"] => Applying(Holding("store", "settings", v, {}))'
    BY <2>4 DEF Holding, Changed, Applying
  <2> QED
    BY <2>1, <2>3, <2>5, StepKeepsForce
<1>5. CASE StoreSnapshot(h)
  <2>1. /\ UNCHANGED <<file, base, level, plainOn, early, apart>> /\ hand[h].pc = "store"
        /\ rt' = hand[h].new
    BY <1>5 DEF StoreSnapshot, At, stores, start, history
  <2> PICK v, f : v = hand[h].new /\ f = hand[h].kept
    OBVIOUS
  <2>2. Only(h, Holding("process", "settings", v, f))
    BY <1>5, Effects DEF Moved
  <2>3. v # None
    <3>1. v \in Values
      BY <2>1 DEF TypeInv, TypeOK
    <3> QED
      BY <3>1, SortsAssumption
  <2>4. apart["settings"] /\ ~early => v = Flattened(Effective(file["settings"]))
    BY <1>1, <2>1 DEF Applying
  <2>5. Effective(file["settings"])' = Effective(file["settings"])
    BY <2>1, EffectiveKept
  <2>6. apart["settings"] /\ ~early =>
          /\ v.level = Effective(file["settings"])'.level /\ rt' # None
          /\ rt'.level = Effective(file["settings"])'.level
          /\ CookieSecure' = (Effective(file["settings"])'.secure /\ ~plainOn')
    <3>1. Flattened(Effective(file["settings"])).level = Effective(file["settings"]).level
      BY DEF Flattened
    <3>2. Flattened(Effective(file["settings"])).secure = (Effective(file["settings"]).secure /\ ~plainOn)
      BY DEF Flattened
    <3>3. CookieSecure' = v.secure
      BY <2>1, <2>3 DEF CookieSecure
    <3> QED
      BY <2>1, <2>3, <2>4, <2>5, <3>1, <3>2, <3>3
  <2>7. /\ Holding("process", "settings", v, f).store = "settings"
        /\ Changed(Holding("process", "settings", v, f))
        /\ apart["settings"] /\ ~early => Applying(Holding("process", "settings", v, f))'
    BY <2>6 DEF Holding, Changed, Applying
  <2> QED
    BY <2>1, <2>2, <2>7, StepKeepsForce
<1>6. CASE SetLogLevel(h)
  <2>1. /\ UNCHANGED <<file, base, rt, plainOn, early, apart>> /\ hand[h].pc = "process"
        /\ level' = hand[h].new.level /\ Only(h, Idle)
    BY <1>6, Effects DEF SetLogLevel, At, stores, start, history
  <2>2. apart["settings"] /\ ~early =>
          /\ hand[h].new.level = Effective(file["settings"]).level
          /\ rt # None /\ rt.level = Effective(file["settings"]).level
          /\ CookieSecure = (Effective(file["settings"]).secure /\ ~plainOn)
    BY <1>1, <2>1 DEF Applying
  <2>3. CookieSecure' = CookieSecure /\ Effective(file["settings"])' = Effective(file["settings"])
    BY <2>1, EffectiveKept DEF CookieSecure
  <2>4. apart["settings"] /\ ~early => InForce'
    BY <2>1, <2>2, <2>3 DEF InForce
  <2>5. Applying(Idle)'
    BY DEF Idle, Holding, Applying
  <2> QED
    BY <1>0, <2>1, <2>4, <2>5, StepKeepsForce
<1> QED
  BY <1>2, <1>3, <1>4, <1>5, <1>6

\* The steps of another store's request leave the settings alone.
LEMMA OtherStepsKeepForce ==
  ASSUME TypeInv, ForceInv, NEW h \in Handlers, hand[h].store # "settings",
         \/ Rename(h) \/ SetCache(h) \/ Forget(h) \/ Remove(h) \/ StoreFails(h)
         \/ ReadBack(h) \/ StoreSnapshot(h) \/ SetLogLevel(h)
  PROVE  ForceInv'
<1>1. /\ hand[h].pc # "idle" /\ hand[h].pc \notin {"read", "store", "process"}
      /\ Rename(h) \/ SetCache(h) \/ Forget(h) \/ Remove(h) \/ StoreFails(h)
  <2>1. hand[h].pc # "idle"
    BY DEF Rename, SetCache, Forget, Remove, StoreFails, ReadBack, StoreSnapshot, SetLogLevel, At
  <2>2. hand[h].pc \notin {"read", "store", "process"}
    BY <2>1, AtStore
  <2> QED
    BY <2>1, <2>2 DEF ReadBack, StoreSnapshot, SetLogLevel, At
<1>2. hand[h].store \in Stores /\ Idle.store # "settings" /\ file \in [Stores -> Held]
  BY <1>1, AtStore, SortsAssumption DEF TypeInv, Idle, Holding, Stores
<1>3. UNCHANGED <<rt, level, base, plainOn, early, apart>> /\ file'["settings"] = file["settings"]
  BY <1>1, <1>2 DEF Rename, SetCache, Forget, Remove, StoreFails, stores, running, start, history, Stores
<1>4. \/ \E pc \in {"cache", "remove"} :
           Only(h, Holding(pc, hand[h].store, hand[h].new, hand[h].kept))
      \/ Only(h, Idle)
  BY <1>1, Effects DEF Moved
<1>5. \A pc : Holding(pc, hand[h].store, hand[h].new, hand[h].kept).store # "settings"
  BY DEF Holding
<1> QED
  BY <1>2, <1>3, <1>4, <1>5, OthersKeepForce

\* A restart runs by the file and the environment; plain HTTP turns the flag off
\* for every handler that has not chosen it.
LEMMA PanelKeepsForce ==
  ASSUME TypeInv, CookieInv, ForceInv, (\E k \in Stores : Page(k)) \/ Restart \/ EnablePlaintextHTTP
  PROVE  ForceInv'
<1>1. ASSUME NEW k \in Stores, Page(k)
      PROVE  ForceInv'
  <2>1. /\ UNCHANGED <<rt, level, base, plainOn, early, file, hand>>
        /\ apart'["settings"] => apart["settings"]
    BY <1>1 DEF Page, Loaded, running, start, TypeInv, TypeOK, Stores
  <2>2. On("settings")' = On("settings")
    BY <2>1 DEF On
  <2> QED
    BY <2>1, <2>2, ForceFrame
<1>2. CASE Restart
  <2>1. On("settings")' = {}
    BY <1>2, SortsAssumption DEF Restart, On, Idle, Holding, Stores
  <2>2. base' = Merge /\ level' = Merge.level /\ rt' = None /\ ~plainOn' /\ file' = file
    BY <1>2 DEF Restart
  <2> PICK st : st = file["settings"]
    OBVIOUS
  <2>3. /\ Merge.secure = env.secure
        /\ Merge.flag = IF st = None THEN env.secure ELSE Else(st.secure, env.secure)
        /\ Merge.level = IF st = None THEN env.level ELSE Else(st.level, env.level)
    BY DEF Merge
  <2>4. Effective(st)' = IF st = None THEN [secure |-> env.secure, level |-> Merge.level]
                         ELSE [secure |-> Else(st.secure, env.secure),
                               level |-> Else(st.level, Merge.level)]
    BY <2>2, <2>3 DEF Effective
  <2>5. Effective(st)'.level = Merge.level
    BY <2>3, <2>4 DEF Else
  <2>6. Effective(st)'.secure = Merge.flag
    BY <2>3, <2>4
  <2>7. Merge.flag \in BOOLEAN
    BY MergeTyped DEF TypeInv, TypeOK, Content, Stores
  <2>8. InForce'
    BY <2>2, <2>5, <2>6, <2>7 DEF InForce, CookieSecure
  <2> QED
    BY <2>1, <2>8 DEF ForceInv
<1>3. CASE EnablePlaintextHTTP
  <2> SUFFICES ASSUME apart'["settings"], ~early'
               PROVE  /\ (\A h \in On("settings")' : ~Changed(hand'[h])) => InForce'
                      /\ \A h \in On("settings")' : Applying(hand[h])'
    BY DEF ForceInv, Changed
  <2>1. /\ UNCHANGED <<file, hand, level, apart>> /\ plainOn' /\ ~early
        /\ rt' = IF rt = None THEN None ELSE [rt EXCEPT !.secure = FALSE]
    BY <1>3 DEF EnablePlaintextHTTP, CookieInv, stores
  <2>2. base'.secure = base.secure /\ base'.level = base.level /\ base'.flag = FALSE
    BY <1>3 DEF EnablePlaintextHTTP, TypeInv, TypeOK
  <2>3. \A h \in Handlers : hand[h].pc # "store"
    BY <1>3 DEF EnablePlaintextHTTP, At
  <2>4. Effective(file["settings"])' = Effective(file["settings"])
    BY <2>1, <2>2 DEF Effective
  <2>5. rt # None => rt' # None /\ rt'.secure = FALSE /\ rt'.level = rt.level
    <3>1. rt # None => rt \in Values
      BY DEF TypeInv, TypeOK
    <3>2. rt # None => rt' \in Values /\ rt'.secure = FALSE /\ rt'.level = rt.level
      BY <2>1, <3>1 DEF Values
    <3> QED
      BY <3>2, SortsAssumption
  <2>6. CookieSecure' = FALSE
    BY <2>1, <2>2, <2>5 DEF CookieSecure
  <2>7. /\ (\A h \in On("settings") : ~Changed(hand[h])) => InForce
        /\ \A h \in On("settings") : Applying(hand[h])
        /\ On("settings")' = On("settings")
    BY <2>1 DEF ForceInv, On
  <2>8. InForce => InForce'
    BY <2>1, <2>4, <2>5, <2>6 DEF InForce
  <2>9. ASSUME NEW h \in On("settings")
        PROVE  Applying(hand[h])'
    BY <2>1, <2>3, <2>4, <2>5, <2>6, <2>7 DEF Applying, On
  <2> QED
    BY <2>1, <2>7, <2>8, <2>9 DEF Changed
<1> QED
  BY <1>1, <1>2, <1>3

\* The settings are in force in every reachable state, or their request is on
\* the way.
THEOREM ForceHolds == Spec => []ForceInv
<1>1. Init => ForceInv
  <2> SUFFICES ASSUME Init
               PROVE  ForceInv
    OBVIOUS
  <2>1. /\ On("settings") = {} /\ file["settings"] = None /\ base = Merge
        /\ rt = None /\ level = env.level /\ ~plainOn /\ env.secure \in BOOLEAN
    BY SortsAssumption DEF Init, On, Idle, Holding, Stores
  <2>2. Merge.secure = env.secure /\ Merge.flag = env.secure /\ Merge.level = env.level
    BY <2>1 DEF Merge
  <2>3. InForce
    BY <2>1, <2>2 DEF InForce, Effective, CookieSecure
  <2> QED
    BY <2>1, <2>3 DEF ForceInv
<1>2. TypeInv /\ CardsInv /\ CookieInv /\ ForceInv /\ [Next]_vars => ForceInv'
  <2> SUFFICES ASSUME TypeInv, CardsInv, CookieInv, ForceInv, [Next]_vars
               PROVE  ForceInv'
    OBVIOUS
  <2>1. ASSUME NEW h \in Handlers, HandlerStep(h)
        PROVE  ForceInv'
    <3>1. ASSUME NEW k \in Stores, NEW w, Opens(h, k, w)
          PROVE  ForceInv'
      BY <3>1, OpensKeepForce
    <3>2. "settings" \in Stores /\ "cert" \in Stores /\ "aliyun" \in Stores
      BY DEF Stores
    <3> QED
      BY <2>1, <3>1, <3>2, Openings, SettingsStepsKeepForce, OtherStepsKeepForce
         DEF HandlerStep, KeyForm
  <2>2. CASE UNCHANGED vars
    <3>1. UNCHANGED <<rt, level, base, plainOn, early, file, hand, apart>>
      BY <2>2 DEF vars, stores, running, start, history
    <3>2. On("settings")' = On("settings")
      BY <3>1 DEF On
    <3> QED
      BY <3>1, <3>2, ForceFrame
  <2> QED
    BY <2>1, <2>2, PanelKeepsForce DEF Next
<1> QED
  BY <1>1, <1>2, TypesHold, CardsHold, CookieHolds, PTL DEF Spec

\* PanelStores.SettingsInForce: when the settings' requests are done, the cookie
\* flag and the log level in the snapshot of applyRuntimeSettings and in the
\* process are those of settings.json over the environment, also after a write
\* that failed, a restart or EnablePlaintextHTTP.
THEOREM SettingsInForceHolds == Spec => []SettingsInForce
<1>1. ForceInv => SettingsInForce
  BY DEF ForceInv, SettingsInForce, Calm, InForce
<1> QED
  BY <1>1, ForceHolds, PTL

-----------------------------------------------------------------------------
(* Proofs: the other half of a key. *)

\* The invariant reads nothing else.
LEMMA HalfFrame ==
  ASSUME HalfInv, On("aliyun")' = On("aliyun"), \A h \in On("aliyun") : hand'[h] = hand[h],
         file'["aliyun"] = file["aliyun"], apart'["aliyun"] => apart["aliyun"]
  PROVE  HalfInv'
BY DEF HalfInv

\* A half that a form leaves out is the file's, as the request begins.
LEMMA MergedKeeps ==
  ASSUME TypeInv, CardsInv, NEW h \in Handlers, NEW k \in KeyForm, AliyunSave(h, k),
         apart["aliyun"], On("aliyun") = {}
  PROVE  \A f \in Missing(k) : Merged(k)[f] = file["aliyun"][f]
<1>1. cache["aliyun"] \in {None, file["aliyun"]}
  BY DEF CardsInv, StoreInv, Stores
<1>2. Read("aliyun") = file["aliyun"]
  BY <1>1 DEF Read
<1>3. ASSUME NEW f \in Missing(k)
      PROVE  Merged(k)[f] = file["aliyun"][f]
  <2>1. CASE f = "id"
    <3>1. k.id = Unset
      BY <2>1 DEF Missing
    <3> QED
      BY <1>2, <2>1, <3>1 DEF Merged, Else
  <2>2. CASE f = "secret"
    <3>1. k.secret = Unset
      BY <2>2 DEF Missing
    <3> QED
      BY <1>2, <2>2, <3>1 DEF Merged, Else
  <2> QED
    BY <2>1, <2>2 DEF Missing
<1> QED
  BY <1>3

\* A request that begins keeps halves of the file.
LEMMA OpensKeepHalf ==
  ASSUME TypeInv, HalfInv, NEW h \in Handlers, NEW k \in Stores, NEW w, Opens(h, k, w),
         k = "aliyun" /\ apart["aliyun"] /\ On("aliyun") = {} /\ w.pc = "rename" =>
           \A f \in w.kept : w.new[f] = file["aliyun"][f]
  PROVE  HalfInv'
<1>0. /\ hand[h].store = None /\ apart \in [Stores -> BOOLEAN] /\ "aliyun" \in Stores
      /\ None \notin Stores /\ file' = file /\ Only(h, w) /\ w.store = k
      /\ apart' = [apart EXCEPT ![k] = @ /\ On(k) = {}]
  <2>1. hand[h] \in Sound
    BY DEF TypeInv
  <2> QED
    BY <2>1, SortsAssumption DEF TypeInv, TypeOK, Opens, Sound, Stores
<1>1. CASE k # "aliyun"
  <2>1. On("aliyun")' = On("aliyun") /\ \A g \in On("aliyun") : hand'[g] = hand[g]
    BY <1>0, <1>1 DEF On, Only
  <2>2. apart'["aliyun"] = apart["aliyun"]
    BY <1>0, <1>1
  <2> QED
    BY <1>0, <2>1, <2>2, HalfFrame
<1>2. CASE k = "aliyun"
  <2> SUFFICES ASSUME apart'["aliyun"], NEW g \in On("aliyun")', hand'[g].pc = "rename",
                      NEW f \in hand'[g].kept
               PROVE  hand'[g].new[f] = file["aliyun"][f]
    BY <1>0 DEF HalfInv
  <2>1. apart["aliyun"] /\ On("aliyun") = {}
    BY <1>0, <1>2
  <2>2. g = h /\ hand'[g] = w
    BY <1>0, <2>1 DEF On, Only
  <2> QED
    BY <1>2, <2>1, <2>2
<1> QED
  BY <1>1, <1>2

\* No other step brings a request to its rename, and only the key's own change
\* its file.
LEMMA StepsKeepHalf ==
  ASSUME TypeInv, CardsInv, HalfInv, NEW h \in Handlers,
         \/ Rename(h) \/ SetCache(h) \/ Forget(h) \/ Remove(h) \/ StoreFails(h)
         \/ ReadBack(h) \/ StoreSnapshot(h) \/ SetLogLevel(h)
  PROVE  HalfInv'
<1>0. hand[h].pc # "idle"
  BY DEF Rename, SetCache, Forget, Remove, StoreFails, ReadBack, StoreSnapshot, SetLogLevel, At
<1>1. /\ hand[h].store \in Stores /\ file \in [Stores -> Held] /\ "aliyun" \in Stores
      /\ apart \in [Stores -> BOOLEAN]
  BY <1>0, AtStore DEF TypeInv, TypeOK, Stores
<1>2. /\ apart'["aliyun"] => apart["aliyun"]
      /\ hand[h].store # "aliyun" => file'["aliyun"] = file["aliyun"]
  BY <1>1 DEF Rename, SetCache, Forget, Remove, StoreFails, ReadBack, StoreSnapshot, SetLogLevel,
              stores, history, Loaded
<1>3. \E w : Only(h, w) /\ w.pc # "rename" /\ (w.store = "aliyun" => hand[h].store = "aliyun")
  <2>1. \/ \E pc \in {"cache", "read", "remove", "process"} :
             Only(h, Holding(pc, hand[h].store, hand[h].new, hand[h].kept))
        \/ Only(h, Idle) \/ \E v : Only(h, Holding("store", "settings", v, {}))
    BY Effects DEF Moved
  <2>2. \A pc, k, v, f : Holding(pc, k, v, f).pc = pc /\ Holding(pc, k, v, f).store = k
    BY DEF Holding
  <2>3. Idle.pc # "rename" /\ Idle.store # "aliyun"
    BY SortsAssumption DEF Idle, Holding, Stores
  <2>4. CASE \E pc \in {"cache", "read", "remove", "process"} :
               Only(h, Holding(pc, hand[h].store, hand[h].new, hand[h].kept))
    BY <2>2, <2>4
  <2>5. CASE \E v : Only(h, Holding("store", "settings", v, {}))
    BY <2>2, <2>5
  <2> QED
    BY <2>1, <2>3, <2>4, <2>5
<1> PICK w : Only(h, w) /\ w.pc # "rename" /\ (w.store = "aliyun" => hand[h].store = "aliyun")
  BY <1>3
<1>4. CASE hand[h].store # "aliyun"
  <2>1. On("aliyun")' = On("aliyun") /\ \A g \in On("aliyun") : hand'[g] = hand[g]
    BY <1>4 DEF On, Only
  <2> QED
    BY <1>2, <1>4, <2>1, HalfFrame
<1>5. CASE hand[h].store = "aliyun"
  <2> SUFFICES ASSUME apart'["aliyun"], NEW g \in On("aliyun")'
               PROVE  hand'[g].pc # "rename"
    BY DEF HalfInv
  <2>1. \A f \in On("aliyun") : f = h
    BY <1>1, <1>2, <1>5 DEF CardsInv, StoreInv, On
  <2>2. g = h
    BY <2>1 DEF On, Only
  <2> QED
    BY <2>2 DEF Only
<1> QED
  BY <1>4, <1>5

\* While they come one after the other, a request about to rename keeps the
\* halves that the file has.
THEOREM HalfHolds == Spec => []HalfInv
<1>1. Init => HalfInv
  BY SortsAssumption DEF Init, HalfInv, On, Idle, Holding, Stores
<1>2. TypeInv /\ CardsInv /\ HalfInv /\ [Next]_vars => HalfInv'
  <2> SUFFICES ASSUME TypeInv, CardsInv, HalfInv, [Next]_vars
               PROVE  HalfInv'
    OBVIOUS
  <2>1. ASSUME NEW h \in Handlers, HandlerStep(h)
        PROVE  HalfInv'
    <3>1. "settings" \in Stores /\ "cert" \in Stores /\ "aliyun" \in Stores
      BY DEF Stores
    <3>2. ASSUME NEW k \in Stores, NEW w, Opens(h, k, w), k # "aliyun" \/ w.pc # "rename"
          PROVE  HalfInv'
      BY <3>2, OpensKeepHalf
    <3>3. ASSUME NEW k \in KeyForm, AliyunSave(h, k)
          PROVE  HalfInv'
      <4> PICK w : w = Holding("rename", "aliyun", Merged(k), Missing(k))
        OBVIOUS
      <4>1. Opens(h, "aliyun", w)
        BY <3>3, Openings
      <4>2. apart["aliyun"] /\ On("aliyun") = {} =>
              \A f \in w.kept : w.new[f] = file["aliyun"][f]
        BY <3>3, MergedKeeps DEF Holding
      <4> QED
        BY <3>1, <4>1, <4>2, OpensKeepHalf
    <3>4. \A k, v, f : Holding("forget", k, v, f).pc # "rename"
      BY DEF Holding
    <3> QED
      BY <2>1, <3>1, <3>2, <3>3, <3>4, Openings, StepsKeepHalf DEF HandlerStep, KeyForm
  <2>2. ASSUME UNCHANGED <<file, hand>>, apart'["aliyun"] => apart["aliyun"]
        PROVE  HalfInv'
    <3>1. On("aliyun")' = On("aliyun")
      BY <2>2 DEF On
    <3> QED
      BY <2>2, <3>1, HalfFrame
  <2>3. CASE (\E k \in Stores : Page(k)) \/ EnablePlaintextHTTP \/ UNCHANGED vars
    <3>1. UNCHANGED <<file, hand>>
      BY <2>3 DEF Page, EnablePlaintextHTTP, vars, stores
    <3>2. apart'["aliyun"] => apart["aliyun"]
      BY <2>3 DEF Page, Loaded, EnablePlaintextHTTP, vars, history, TypeInv, TypeOK, Stores
    <3> QED
      BY <2>2, <3>1, <3>2
  <2>4. CASE Restart
    BY <2>4, SortsAssumption DEF Restart, HalfInv, On, Idle, Holding, Stores
  <2> QED
    BY <2>1, <2>3, <2>4 DEF Next
<1> QED
  BY <1>1, <1>2, TypesHold, CardsHold, PTL DEF Spec

\* A rename of a key writes what the request has.
LEMMA RenameWrites ==
  ASSUME TypeInv, HalfInv, [Next]_vars, NEW h \in Handlers, At(h, "rename"),
         hand'[h].pc = "cache", hand[h].store = "aliyun", apart["aliyun"]
  PROVE  \A f \in hand[h].kept : file'["aliyun"][f] = file["aliyun"][f]
<1>1. \A f \in hand[h].kept : hand[h].new[f] = file["aliyun"][f]
  BY DEF HalfInv, At, On
<1>2. file \in [Stores -> Held] /\ "aliyun" \in Stores
  BY DEF TypeInv, Stores
<1>3. ASSUME Rename(h)
      PROVE  file'["aliyun"] = hand[h].new
  BY <1>2, <1>3 DEF Rename
<1>4. ASSUME NEW g \in Handlers, HandlerStep(g)
      PROVE  Rename(h)
  <2>1. g = h
    <3>1. ASSUME g # h
          PROVE  hand'[h] = hand[h]
      <4>1. ASSUME NEW w, Only(g, w)
            PROVE  hand'[h] = hand[h]
        BY <3>1, <4>1 DEF Only
      <4>2. \A k, w : Opens(g, k, w) => Only(g, w)
        BY DEF Opens
      <4> QED
        BY <1>4, <4>1, <4>2, Openings, Effects DEF HandlerStep, KeyForm, Moved
    <3> QED
      BY <3>1 DEF At
  <2>2. \A k, w : ~Opens(h, k, w)
    BY DEF Opens, At
  <2>3. Only(h, Idle) => FALSE
    BY DEF Only, Idle, Holding
  <2>4. ~SetCache(h) /\ ~Forget(h) /\ ~Remove(h) /\ ~ReadBack(h) /\ ~StoreSnapshot(h) /\ ~SetLogLevel(h)
    BY DEF SetCache, Forget, Remove, ReadBack, StoreSnapshot, SetLogLevel, At
  <2> QED
    BY <1>4, <2>1, <2>2, <2>3, <2>4, Openings, Effects DEF HandlerStep, KeyForm
<1>5. CASE (\E k \in Stores : Page(k)) \/ EnablePlaintextHTTP \/ UNCHANGED vars
  BY <1>5 DEF Page, EnablePlaintextHTTP, vars, At
<1>6. CASE Restart
  BY <1>6 DEF Restart, Idle, Holding
<1> QED
  BY <1>1, <1>3, <1>4, <1>5, <1>6 DEF Next

\* PanelStores.OtherHalfStays: the rename of handleAliyunSave leaves the half
\* that the form left out as aliyun.creds had it, though it was read when the
\* request began.
THEOREM OtherHalfStaysHolds == Spec => OtherHalfStays
<1>1. TypeInv /\ HalfInv /\ [Next]_vars =>
        [\A h \in Handlers :
           /\ At(h, "rename") /\ hand'[h].pc = "cache" /\ hand[h].store = "aliyun"
           /\ apart["aliyun"]
           => \A f \in hand[h].kept : file'["aliyun"][f] = file["aliyun"][f]]_vars
  BY RenameWrites
<1> QED
  BY <1>1, TypesHold, HalfHolds, PTL DEF Spec, OtherHalfStays
================================================================================
