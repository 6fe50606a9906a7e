------------------------------ MODULE Profiles ------------------------------
(***************************************************************************)
(* The configuration profiles of the VPN's users, the links that install   *)
(* them and the messages of the pages where they are set                   *)
(* (internal/web/handlers_config.go, handlers_mobileconfig_*.go, flash.go, *)
(* internal/installtoken, internal/panelstate/mobileconfig_default.go and  *)
(* internal/cert/mobileconfig.go).                                         *)
(*                                                                         *)
(* A profile is the built-in options under the administrator's defaults    *)
(* under the user's own, field by field.  Each layer is validated when it  *)
(* is saved, their merge never.  The defaults are a file and a cache, as   *)
(* the stores of PanelStores.  Links and messages are kept in memory, work *)
(* once and live for some minutes.                                         *)
(***************************************************************************)
EXTENDS Naturals, FiniteSets

CONSTANTS
    Users,        \* rows of the user table
    Tokens,       \* random tokens of install links
    Messages,     \* identities of flash messages
    Sessions,     \* sessions of administrators
    Handlers,     \* requests in flight that take more than one step
    Forms,        \* options that an administrator fills in
    Names,        \* values of a field without further rules
    Bad,          \* one of them that Validate refuses (an address, an interval)
    Unset,        \* a field left to the layer below
    None,         \* no options, no entry, nobody
    MaxSaves,     \* bound: options and defaults saved or cleared
    MaxFailures,  \* bound: operations that fail
    MaxRestarts   \* bound: restarts

Rules   == {"always", "home", "manual"}
Networks == {"ssid"}
Options == [name : Names \cup {Unset}, demand : BOOLEAN \cup {Unset},
            rule : Rules \cup {Unset}, ssid : Networks \cup {Unset}]
Fields  == {"name", "demand", "rule", "ssid"}
Slots   == {"page", "card"}

ASSUME FormsAssumption  == Forms \subseteq Options /\ Bad \in Names
ASSUME UnsetAssumption  == Unset \notin Names /\ Unset \notin BOOLEAN /\ Unset \notin Rules /\ Unset \notin Networks
ASSUME NoneAssumption   == None # Unset /\ None \notin Options \cup Users \cup Sessions
ASSUME EntryAssumption  == None \notin [user : Users, old : BOOLEAN] \cup [id : Messages, old : BOOLEAN]
ASSUME BoundsAssumption == MaxSaves \in Nat /\ MaxFailures \in Nat /\ MaxRestarts \in Nat

VARIABLES
    users,        \* the users there are
    overlay,      \* users.mobileconfig_opts: options, or None for the empty string
    file, cache,  \* mobileconfig.defaults.json and its copy, or None
    hand,         \* the handlers
    tokens,       \* installtoken.Store: token to its user and whether it is old, or None
    flash,        \* FlashStore: session and slot to a message and whether it is old, or None
    saves, failures, restarts,
    \* History, read by the properties only: every link and message made, for
    \* whom and whom it reached; whether no two handlers of the defaults overlapped
    \* and none read them in the middle of a clear.
    links, notes, apart

defaults == <<file, cache, apart>>
linking  == <<tokens, links>>
noting   == <<flash, notes>>
bounds   == <<saves, failures, restarts>>
vars     == <<users, overlay, defaults, hand, linking, noting, bounds>>

Editing(pc, s, d) == [pc |-> pc, session |-> s, new |-> d, token |-> None, user |-> None]
Serving(t, u) == [pc |-> "serve", session |-> None, new |-> None, token |-> t, user |-> u]
Idle    == Editing("idle", None, None)
NoLink  == [owner |-> None, got |-> None]
NoNote  == [owner |-> None, by |-> None]
Nothing == [f \in Fields |-> Unset]

-----------------------------------------------------------------------------
(* The three layers. *)

BaseMobileConfigDefaults == [name |-> "builtin", demand |-> FALSE, rule |-> "always", ssid |-> Unset]

Else(v, d) == IF v = Unset THEN d ELSE v
Over(o, under) == IF o = None THEN under ELSE [f \in Fields |-> Else(o[f], under[f])]

EffectiveMobileConfigOpts(admin, own) == Over(own, Over(admin, BaseMobileConfigDefaults))

\* Mutant: the network's name is not asked for.
ValidAnyHome(o) == o.name # Bad /\ ~(o.rule = "manual" /\ o.demand = TRUE)

\* MobileConfigOpts.Validate.
Valid(o) ==
    /\ o.name # Bad
    /\ o.rule = "home" => o.ssid # Unset
    /\ ~(o.rule = "manual" /\ o.demand = TRUE)

\* MobileConfigDefaults.Validate: a placeholder stands for the network's name,
\* and manual goes with anything.
ValidDefaults(d) ==
    Valid([d EXCEPT !.ssid = IF d.rule = "home" THEN "ssid" ELSE Unset,
                    !.demand = IF d.rule = "manual" THEN Unset ELSE @])

\* Mutant: options with nothing in them are stored as such.
EncodedAlways(o) == o
Encoded(o) == IF o = Nothing THEN None ELSE o

\* ReadMobileConfigDefaults: the cache, else the file, which stays in the cache.
Read == IF cache # None THEN cache ELSE file
Clearing == {h \in Handlers : hand[h].pc = "remove"}
Loaded ==
    /\ cache' = Read
    /\ apart' = (apart /\ (cache # None \/ Clearing = {}))
    /\ UNCHANGED file

\* renderOnDemandRules: where the phone leaves the VPN; manual has no rules.
OnDemandRules(e) ==
    CASE e.rule = "home"   -> {[leave |-> e.ssid], [leave |-> None]}
      [] e.rule = "manual" -> {}
      [] OTHER             -> {[leave |-> None]}

\* What RenderMobileconfig writes for the user.
Profile(u) ==
    LET e == EffectiveMobileConfigOpts(Read, overlay[u])
    IN  [name |-> e.name, demand |-> e.demand, rules |-> IF e.demand THEN OnDemandRules(e) ELSE {}]

-----------------------------------------------------------------------------
(* The one-time stores. *)

Works == UNCHANGED failures
Fails == failures < MaxFailures /\ failures' = failures + 1
Set(h, w) == hand' = [hand EXCEPT ![h] = w]
Go(h, pc) == Set(h, Editing(pc, hand[h].session, hand[h].new))
At(h, pc) == hand[h].pc = pc

\* SetFor: the latest message of a session's slot is kept, and its time starts.
Note(s, slot) ==
    \E n \in Messages :
        /\ notes[n] = NoNote
        /\ notes' = [notes EXCEPT ![n] = [owner |-> s, by |-> None]]
        /\ flash' = [flash EXCEPT ![s][slot] = [id |-> n, old |-> FALSE]]

\* Mutant: a message that is shown stays.
ConsumeForAndKeep(s, slots) ==
    LET seen == {flash[s][k].id : k \in {k \in slots : flash[s][k] # None /\ ~flash[s][k].old}}
    IN  /\ notes' = [n \in Messages |-> IF n \in seen THEN [owner |-> notes[n].owner, by |-> s] ELSE notes[n]]
        /\ UNCHANGED flash

\* ConsumeFor, by a page: what is there goes, and is shown if it is not old.
ConsumeFor(s, slots) ==
    LET seen == {flash[s][k].id : k \in {k \in slots : flash[s][k] # None /\ ~flash[s][k].old}}
    IN  /\ notes' = [n \in Messages |-> IF n \in seen THEN [owner |-> notes[n].owner, by |-> s] ELSE notes[n]]
        /\ flash' = [flash EXCEPT ![s] = [k \in Slots |-> IF k \in slots THEN None ELSE @[k]]]

\* Minutes pass.
TokenAges(t) ==
    /\ tokens[t] # None /\ ~tokens[t].old
    /\ tokens' = [tokens EXCEPT ![t] = [user |-> @.user, old |-> TRUE]]
    /\ UNCHANGED <<users, overlay, defaults, hand, links, noting, bounds>>

FlashAges(s, k) ==
    /\ flash[s][k] # None /\ ~flash[s][k].old
    /\ flash' = [flash EXCEPT ![s][k] = [id |-> @.id, old |-> TRUE]]
    /\ UNCHANGED <<users, overlay, defaults, hand, linking, notes, bounds>>

\* The token-sweep goroutine, either half of its tick.
SweepTokens ==
    /\ \E t \in Tokens : tokens[t] # None /\ tokens[t].old
    /\ tokens' = [t \in Tokens |-> IF tokens[t] # None /\ tokens[t].old THEN None ELSE tokens[t]]
    /\ UNCHANGED <<users, overlay, defaults, hand, links, noting, bounds>>

SweepFlashes ==
    /\ \E s \in Sessions, k \in Slots : flash[s][k] # None /\ flash[s][k].old
    /\ flash' = [s \in Sessions |-> [k \in Slots |->
                    IF flash[s][k] # None /\ flash[s][k].old THEN None ELSE flash[s][k]]]
    /\ UNCHANGED <<users, overlay, defaults, hand, linking, notes, bounds>>

-----------------------------------------------------------------------------
(* A user's own options (handlers_mobileconfig_options.go). *)

\* A save that Validate lets pass; an empty form clears, like the button.
OptionsSave(s, u, o) ==
    /\ u \in users /\ Valid(o) /\ saves < MaxSaves /\ saves' = saves + 1
    /\ overlay' = [overlay EXCEPT ![u] = Encoded(o)]
    /\ Note(s, "page")
    /\ UNCHANGED <<users, defaults, hand, linking, failures, restarts>>

\* failMCOpts: the form goes back with the next page.
OptionsRefused(s, u, o) ==
    /\ u \in users /\ ~Valid(o)
    /\ Note(s, "page")
    /\ UNCHANGED <<users, overlay, defaults, hand, linking, bounds>>

\* Deleting a user takes its options along, and none of its links.
DeleteUser(u) ==
    /\ u \in users
    /\ users' = users \ {u} /\ overlay' = [overlay EXCEPT ![u] = None]
    /\ UNCHANGED <<defaults, hand, linking, noting, bounds>>

-----------------------------------------------------------------------------
(* The administrator's defaults (handlers_mobileconfig_admin.go). *)

Begin(h, w) ==
    /\ At(h, "idle") /\ saves < MaxSaves /\ saves' = saves + 1
    /\ Set(h, w)
    /\ apart' = (apart /\ \A x \in Handlers : hand[x].pc \in {"idle", "serve"})
    /\ UNCHANGED <<users, overlay, file, cache, linking, noting, failures, restarts>>

\* The form of the defaults has no network.
DefaultsForm(o) == [o EXCEPT !.ssid = Unset]

DefaultsSave(h, s, d) ==
    ValidDefaults(d) /\ Begin(h, Editing("rename", s, d))

DefaultsClear(h, s) == Begin(h, Editing("forget", s, None))

DefaultsRefused(s, d) ==
    /\ ~ValidDefaults(d)
    /\ Note(s, "page")
    /\ UNCHANGED <<users, overlay, defaults, hand, linking, bounds>>

Rename(h) ==
    /\ At(h, "rename") /\ Works
    /\ file' = hand[h].new /\ Go(h, "cache")
    /\ UNCHANGED <<users, overlay, cache, apart, linking, noting, saves, restarts>>

\* Mutant: the cache keeps what it had.
SetCacheNot(h) ==
    /\ At(h, "cache")
    /\ Set(h, Idle) /\ Note(hand[h].session, "page")
    /\ UNCHANGED <<users, overlay, defaults, linking, bounds>>

SetCache(h) ==
    /\ At(h, "cache")
    /\ cache' = hand[h].new
    /\ Set(h, Idle) /\ Note(hand[h].session, "page")
    /\ UNCHANGED <<users, overlay, file, apart, linking, bounds>>

Forget(h) ==
    /\ At(h, "forget")
    /\ cache' = None /\ Go(h, "remove")
    /\ UNCHANGED <<users, overlay, file, apart, linking, noting, bounds>>

Remove(h) ==
    /\ At(h, "remove") /\ Works
    /\ file' = None
    /\ Set(h, Idle) /\ Note(hand[h].session, "page")
    /\ UNCHANGED <<users, overlay, cache, apart, linking, saves, restarts>>

StoreFails(h) ==
    /\ At(h, "rename") \/ At(h, "remove")
    /\ Fails
    /\ Set(h, Idle) /\ Note(hand[h].session, "page")
    /\ UNCHANGED <<users, overlay, defaults, linking, saves, restarts>>

-----------------------------------------------------------------------------
(* Pages and profiles. *)

\* A profile for a logged-in administrator reads the defaults.
Download(u) ==
    /\ u \in users /\ Loaded /\ cache' # cache
    /\ UNCHANGED <<users, overlay, hand, linking, noting, bounds>>

\* The page of a user shows its message and fills the form from it.
UserPage(s, u) ==
    /\ u \in users /\ flash[s]["page"] # None
    /\ ConsumeFor(s, {"page"})
    /\ UNCHANGED <<users, overlay, defaults, hand, linking, bounds>>

\* The page of the defaults, and the list of users but for reading them.
DefaultsPage(s) ==
    /\ flash[s]["page"] # None
    /\ Loaded /\ ConsumeFor(s, {"page"})
    /\ UNCHANGED <<users, overlay, hand, linking, bounds>>

\* The home page takes the messages of all the cards.
HomePage(s) ==
    /\ \E k \in Slots : flash[s][k] # None
    /\ ConsumeFor(s, Slots)
    /\ UNCHANGED <<users, overlay, defaults, hand, linking, bounds>>

\* Any other handler leaves its message - a new password, too -, in its card's
\* slot or in the page's.
OtherHandler(s, k) ==
    /\ Note(s, k)
    /\ UNCHANGED <<users, overlay, defaults, hand, linking, bounds>>

-----------------------------------------------------------------------------
(* Install links. *)

\* The QR code.
IssueToken(u, t) ==
    /\ u \in users /\ links[t] = NoLink
    /\ tokens' = [tokens EXCEPT ![t] = [user |-> u, old |-> FALSE]]
    /\ links'  = [links EXCEPT ![t] = [owner |-> u, got |-> None]]
    /\ UNCHANGED <<users, overlay, defaults, hand, noting, bounds>>

\* Mutant: a token is looked up and deleted only when its profile is served.
ConsumeLater(h, t) ==
    /\ At(h, "idle") /\ tokens[t] # None
    /\ IF tokens[t].old THEN UNCHANGED hand
       ELSE Set(h, Serving(t, tokens[t].user))
    /\ UNCHANGED <<users, overlay, defaults, linking, noting, bounds>>

\* A token that is there goes, old or not.
Consume(h, t) ==
    /\ At(h, "idle") /\ tokens[t] # None
    /\ tokens' = [tokens EXCEPT ![t] = None]
    /\ IF tokens[t].old THEN UNCHANGED hand
       ELSE Set(h, Serving(t, tokens[t].user))
    /\ UNCHANGED <<users, overlay, defaults, links, noting, bounds>>

\* The profile of the token's user, with the defaults read.
Serve(h) ==
    /\ At(h, "serve") /\ hand[h].user \in users
    /\ links' = [links EXCEPT ![hand[h].token] = [owner |-> @.owner, got |-> hand[h].user]]
    /\ Loaded /\ Set(h, Idle)
    /\ UNCHANGED <<users, overlay, tokens, noting, bounds>>

\* The user is gone, or something else fails; the token is spent.
ServeGone(h) ==
    /\ At(h, "serve") /\ hand[h].user \notin users
    /\ Set(h, Idle)
    /\ UNCHANGED <<users, overlay, defaults, linking, noting, bounds>>

ServeFails(h) ==
    /\ At(h, "serve") /\ Fails /\ Set(h, Idle)
    /\ UNCHANGED <<users, overlay, defaults, linking, noting, saves, restarts>>

-----------------------------------------------------------------------------
Restart ==
    /\ restarts < MaxRestarts /\ restarts' = restarts + 1
    /\ hand' = [h \in Handlers |-> Idle]
    /\ cache' = file /\ apart' = TRUE
    /\ tokens' = [t \in Tokens |-> None]
    /\ flash' = [s \in Sessions |-> [k \in Slots |-> None]]
    /\ UNCHANGED <<users, overlay, file, links, notes, saves, failures>>

Init ==
    /\ users = Users /\ overlay = [u \in Users |-> None]
    /\ file = None /\ cache = None /\ apart = TRUE
    /\ hand = [h \in Handlers |-> Idle]
    /\ tokens = [t \in Tokens |-> None] /\ links = [t \in Tokens |-> NoLink]
    /\ flash = [s \in Sessions |-> [k \in Slots |-> None]]
    /\ notes = [n \in Messages |-> NoNote]
    /\ saves = 0 /\ failures = 0 /\ restarts = 0

HandlerStep(h) ==
    \/ \E s \in Sessions : DefaultsClear(h, s) \/ \E d \in Forms : DefaultsSave(h, s, DefaultsForm(d))
    \/ Rename(h) \/ SetCache(h) \/ Forget(h) \/ Remove(h) \/ StoreFails(h)
    \/ \E t \in Tokens : Consume(h, t)
    \/ Serve(h) \/ ServeGone(h) \/ ServeFails(h)

SessionStep(s) ==
    \/ \E u \in Users, o \in Forms : OptionsSave(s, u, o) \/ OptionsRefused(s, u, o)
    \/ \E d \in Forms : DefaultsRefused(s, DefaultsForm(d))
    \/ \E u \in Users : UserPage(s, u)
    \/ DefaultsPage(s) \/ HomePage(s)
    \/ \E k \in Slots : OtherHandler(s, k) \/ FlashAges(s, k)

Next ==
    \/ \E h \in Handlers : HandlerStep(h)
    \/ \E s \in Sessions : SessionStep(s)
    \/ \E u \in Users : Download(u) \/ DeleteUser(u) \/ \E t \in Tokens : IssueToken(u, t)
    \/ \E t \in Tokens : TokenAges(t)
    \/ SweepTokens \/ SweepFlashes \/ Restart

Spec == Init /\ [][Next]_vars

-----------------------------------------------------------------------------
(* What must hold. *)

\* Every variable has its type; a user's options are never stored empty, and
\* the defaults name no network.
TypeOK ==
    /\ users \subseteq Users
    /\ overlay \in [Users -> (Options \ {Nothing}) \cup {None}]
    /\ \A d \in {file, cache} : d = None \/ (d \in Options /\ d.ssid = Unset)
    /\ hand \in [Handlers ->
         [pc : {"idle", "rename", "cache", "forget", "remove", "serve"},
          session : Sessions \cup {None}, new : Options \cup {None},
          token : Tokens \cup {None}, user : Users \cup {None}]]
    /\ tokens \in [Tokens -> [user : Users, old : BOOLEAN] \cup {None}]
    /\ links \in [Tokens -> [owner : Users \cup {None}, got : Users \cup {None}]]
    /\ flash \in [Sessions -> [Slots -> [id : Messages, old : BOOLEAN] \cup {None}]]
    /\ notes \in [Messages -> [owner : Sessions \cup {None}, by : Sessions \cup {None}]]
    /\ apart \in BOOLEAN
    /\ saves \in 0 .. MaxSaves /\ failures \in 0 .. MaxFailures /\ restarts \in 0 .. MaxRestarts

\* A link is in the store and not old, or in the hands of the request that took it.
LinkStage == [t \in Tokens |->
    IF links[t] = NoLink THEN "unissued"
    ELSE IF (tokens[t] # None /\ ~tokens[t].old) \/ \E h \in Handlers : At(h, "serve") /\ hand[h].token = t
         THEN "live" ELSE "gone"]

Links == INSTANCE OneTime WITH
    Things <- Tokens, Owners <- Users, Nobody <- None, stage <- LinkStage,
    owner <- [t \in Tokens |-> links[t].owner], reached <- [t \in Tokens |-> links[t].got]

\* An install link delivers at most one profile, that of the user it was made
\* for, and none once it is old, however many phones scan the code at once and
\* whatever fails between taking the token and serving the profile.
LinksAreOneTime == Links!Spec

NoteStage == [n \in Messages |->
    IF notes[n] = NoNote THEN "unissued"
    ELSE IF \E s \in Sessions, k \in Slots : flash[s][k] # None /\ ~flash[s][k].old /\ flash[s][k].id = n
         THEN "live" ELSE "gone"]

Notes == INSTANCE OneTime WITH
    Things <- Messages, Owners <- Sessions, Nobody <- None, stage <- NoteStage,
    owner <- [n \in Messages |-> notes[n].owner], reached <- [n \in Messages |-> notes[n].by]

\* A message - a new password among them - is shown at most once, to the
\* session whose request left it, and never after its time, a restart or a
\* later message of the same slot.
MessagesAreOneTime == Notes!Spec

\* With the handlers of the defaults done, and run one after the other, every
\* profile has the user's own value where there is one, else the one of the
\* defaults that are on disk, else the built-in one.
ProfilesFollowTheFiles ==
    apart /\ (\A h \in Handlers : hand[h].pc \in {"idle", "serve"}) =>
        \A u \in users, f \in Fields :
            LET own == overlay[u] # None /\ overlay[u][f] # Unset
                set == file # None /\ file[f] # Unset
            IN  EffectiveMobileConfigOpts(Read, overlay[u])[f] =
                  IF own THEN overlay[u][f] ELSE IF set THEN file[f] ELSE BaseMobileConfigDefaults[f]

\* Whatever becomes of the defaults, the rule that a user's own options ask for
\* comes out whole: the home network is named, and manual with On-Demand decided
\* leaves it off.
OwnRulesAreWhole ==
    \A u \in users : overlay[u] # None =>
        /\ overlay[u].rule = "home" => \A r \in Profile(u).rules : r.leave # Unset
        /\ overlay[u].rule = "manual" /\ overlay[u].demand # Unset => ~Profile(u).demand
=============================================================================
