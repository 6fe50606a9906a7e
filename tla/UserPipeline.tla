---------------------------- MODULE UserPipeline ----------------------------
(***************************************************************************)
(* The user pipelines of the panel: every admin operation on a VPN user    *)
(* (internal/web/user_pipeline.go and the handlers that call it), the      *)
(* expiry checker and the startup backfill, over the state they share:     *)
(*                                                                         *)
(*   the users table     (internal/store/users.go, SQLite)                 *)
(*   conf.d/<user>.conf  (internal/swanctl/writer.go, a tmpfs)             *)
(*   charon's secrets    (loaded by `swanctl --load-all`)                  *)
(*   charon's SAs        (established by clients, ended by Terminate)      *)
(*   limits/<user>       (internal/limit/limiter.go)                       *)
(*                                                                         *)
(* Handlers run concurrently.  No lock spans a pipeline; reloadMu covers   *)
(* one "change conf.d, then --load-all" pair and nothing else.  Each step  *)
(* can fail, and a client that goes away cancels the request's context,    *)
(* which fails every later database call and reload of that request.       *)
(***************************************************************************)
EXTENDS Naturals, FiniteSets

CONSTANTS
    Users,        \* usernames
    Requests,     \* HTTP handlers that can be in flight together
    Free,         \* reloadMu is not held
    MaxId,        \* bound: rows ever inserted
    MaxPw,        \* bound: passwords ever generated
    MaxCrashes,   \* bound: container restarts
    MaxFailures,  \* bound: failed steps of handlers, the expiry UPDATE and the backfill
    Ops,          \* the operations the admin uses
    Enabled,      \* the "enabled" boxes of the create forms
    Dates,        \* the expiry dates of the create forms: "never", "later"
    Faults        \* the external failures that can happen

OpKinds    == {"create", "reset", "enable", "disable", "delete"}
FaultKinds == {"db", "write", "remove", "reload", "limit", "term", "list", "gone"}

ASSUME UsersAssumption  == Users # {}
ASSUME BoundsAssumption == MaxId \in Nat /\ MaxPw \in Nat
                            /\ MaxCrashes \in Nat /\ MaxFailures \in Nat
ASSUME FreeAssumption   == Free \notin Requests
ASSUME KindsAssumption  == /\ Ops \subseteq OpKinds /\ Faults \subseteq FaultKinds
                           /\ Enabled \subseteq BOOLEAN /\ Dates \subseteq {"never", "later"}

VARIABLES
    \* The users table: the ids in it, the row under each id ever used, and
    \* the AUTOINCREMENT sequence.  A deleted id keeps its last row here.
    live, row, seq,
    issued,       \* passwords generated so far
    conf,         \* conf.d: the secret in each user's file, NoPw without one
    limits,       \* whether a user has a limit file
    charon,       \* the secret charon holds for each user
    sa,           \* whether the user has an established IKE_SA
    mu,           \* holder of Manager.reloadMu
    synced,       \* the last --load-all succeeded
    req,          \* the handlers in flight
    read,         \* conf.d as the swanctl child of each handler read it
    exp,          \* the expiry goroutine
    up, crashes,  \* whether the panel serves; restarts so far
    failures,     \* calls that failed so far
    \* History, read by the properties only: a request met no other request
    \* on its user, the failures it met, conf.d and charon when it began.
    solo, hit, pre

db      == <<live, row, seq, issued>>
vpn     == <<conf, charon, mu, synced, read>>
proc    == <<up, crashes>>
history == <<solo, hit, pre, failures>>
vars    == <<db, conf, limits, charon, sa, mu, synced, req, read, exp, proc, history>>

Ids     == 1..MaxId
NoPw    == 0
Secrets == 0..MaxPw
Due     == {"never", "later", "past"}

Row == [name : Users, pw : Secrets, enabled : BOOLEAN, due : Due]

PCs == {"idle", "write", "wload", "limit", "remove", "rload", "undo", "update",
        "lookup", "term", "delete", "unlimit", "ok", "failed"}

AnyUser   == CHOOSE u \in Users : TRUE
NoRow     == [name |-> AnyUser, pw |-> NoPw, enabled |-> FALSE, due |-> "never"]
NoFiles   == [u \in Users |-> NoPw]
NoSecrets == [conf |-> NoPw, charon |-> NoPw]

Request == [pc : PCs, op : OpKinds, id : 0..MaxId, name : Users, pw : Secrets,
            old : Row, ctx : BOOLEAN]

NoRequest == [pc |-> "idle", op |-> "create", id |-> 0, name |-> AnyUser, pw |-> NoPw,
              old |-> NoRow, ctx |-> TRUE]

-----------------------------------------------------------------------------
(* Building blocks. *)

Named(u) == {i \in live : row[i].name = u}

InFlight(r) == req[r].pc # "idle"

Goto(r, p) == req' = [req EXCEPT ![r].pc = p]

\* What a handler holds when it starts the steps at p.
Ask(r, p, op, i, u, w, old) ==
    req' = [req EXCEPT ![r] = [pc |-> p, op |-> op, id |-> i, name |-> u, pw |-> w,
                               old |-> old, ctx |-> TRUE]]

\* A request begins: from here on it, and whoever works on the same user, is
\* no longer alone.
Rivals(r, u) == {q \in Requests \ {r} : InFlight(q) /\ req[q].name = u}

Enter(r, u) ==
    /\ up /\ req[r].pc = "idle"
    /\ solo' = [q \in Requests |->
                  IF q = r THEN Rivals(r, u) = {}
                  ELSE solo[q] /\ q \notin Rivals(r, u)]
    /\ hit' = [hit EXCEPT ![r] = {}]
    /\ pre' = [pre EXCEPT ![r] = [conf |-> conf[u], charon |-> charon[u]]]
    /\ UNCHANGED failures

OneMoreFailure == failures < MaxFailures /\ failures' = failures + 1

\* The step of request r meets failure f.  A step that takes the request's
\* context also fails once the client is gone.
Fails(r, f) ==
    /\ f \in Faults /\ OneMoreFailure
    /\ hit' = [hit EXCEPT ![r] = @ \cup {f}]
    /\ UNCHANGED <<solo, pre>>

FailsCtx(r, f) ==
    \/ Fails(r, f)
    \/ ~req[r].ctx /\ UNCHANGED history

Works(r) == UNCHANGED history

WorksCtx(r) == req[r].ctx /\ UNCHANGED history

\* swanctl --load-all from the files r read: charon ends with exactly those
\* secrets, or, when swanctl fails or is killed at its deadline, with any part
\* of them applied.
LoadAll(r) == charon' = read[r] /\ synced' = TRUE

LoadPart(r) ==
    /\ \E part \in SUBSET Users :
         charon' = [u \in Users |-> IF u \in part THEN read[r][u] ELSE charon[u]]
    /\ synced' = FALSE

Forget(r) == read' = [read EXCEPT ![r] = NoFiles]

-----------------------------------------------------------------------------
(* POST /users: INSERT, conf.d + reload, limit file. *)

NewPw == issued + 1

\* Mutant: ids without AUTOINCREMENT, the smallest free one is used again.
NextIdReused == IF \E i \in 1..seq : i \notin live
                THEN CHOOSE i \in 1..seq : i \notin live ELSE seq + 1

NextId == seq + 1

CreateInsert(r, u, en, d) ==
    /\ "create" \in Ops /\ Enter(r, u)
    /\ issued < MaxPw /\ issued' = NewPw
    /\ seq < MaxId /\ Named(u) = {}
    /\ live' = live \cup {NextId} /\ seq' = seq + 1
    /\ row' = [row EXCEPT ![NextId] = [name |-> u, pw |-> NewPw, enabled |-> en, due |-> d]]
    /\ Ask(r, "write", "create", NextId, u, NewPw, NoRow)
    /\ UNCHANGED <<vpn, limits, sa, exp, proc>>

\* ErrConflict: the username is taken, nothing else is touched.
CreateConflict(r, u) ==
    /\ "create" \in Ops /\ Enter(r, u)
    /\ Named(u) # {}
    /\ Ask(r, "failed", "create", 0, u, NoPw, NoRow)
    /\ UNCHANGED <<db, vpn, limits, sa, exp, proc>>

\* Mutant: the file is written and read without taking reloadMu.
WriteConfUnlocked(r) ==
    /\ req[r].pc = "write"
    /\ conf' = [conf EXCEPT ![req[r].name] = req[r].pw]
    /\ read' = [read EXCEPT ![r] = conf']
    /\ mu' = r
    /\ Goto(r, "wload")
    /\ Works(r) /\ UNCHANGED <<db, limits, charon, sa, synced, exp, proc>>

\* WriteUserConf under reloadMu, up to the moment swanctl has read conf.d.
WriteConf(r) ==
    /\ req[r].pc = "write" /\ mu = Free
    /\ conf' = [conf EXCEPT ![req[r].name] = req[r].pw]
    /\ read' = [read EXCEPT ![r] = conf']
    /\ mu' = r
    /\ Goto(r, "wload")
    /\ Works(r) /\ UNCHANGED <<db, limits, charon, sa, synced, exp, proc>>

WriteConfFails(r) ==
    /\ req[r].pc = "write" /\ mu = Free
    /\ Fails(r, "write")
    /\ Goto(r, "undo")
    /\ UNCHANGED <<db, vpn, limits, sa, exp, proc>>

WriteLoad(r) ==
    /\ req[r].pc = "wload" /\ WorksCtx(r)
    /\ LoadAll(r)
    /\ mu' = Free /\ Forget(r)
    /\ Goto(r, IF req[r].op = "create" THEN "limit" ELSE "ok")
    /\ UNCHANGED <<db, conf, limits, sa, exp, proc>>

\* Mutant: the error path returns with reloadMu held.
WriteLoadFailsLocked(r) ==
    /\ req[r].pc = "wload" /\ FailsCtx(r, "reload")
    /\ LoadPart(r)
    /\ Goto(r, "undo")
    /\ UNCHANGED <<db, conf, limits, sa, mu, read, exp, proc>>

WriteLoadFails(r) ==
    /\ req[r].pc = "wload" /\ FailsCtx(r, "reload")
    /\ LoadPart(r)
    /\ mu' = Free /\ Forget(r)
    /\ Goto(r, "undo")
    /\ UNCHANGED <<db, conf, limits, sa, exp, proc>>

WriteLimit(r) ==
    /\ req[r].pc = "limit" /\ Works(r)
    /\ limits' = [limits EXCEPT ![req[r].name] = TRUE]
    /\ Goto(r, "ok")
    /\ UNCHANGED <<db, vpn, sa, exp, proc>>

\* os.WriteFile failed: it may have created the file before it did.
WriteLimitFails(r) ==
    /\ req[r].pc = "limit" /\ Fails(r, "limit")
    /\ \E made \in BOOLEAN : limits' = [limits EXCEPT ![req[r].name] = @ \/ made]
    /\ Goto(r, "remove")
    /\ UNCHANGED <<db, vpn, sa, exp, proc>>

\* Mutants: the file is removed and charon is not told, in both pipelines, or
\* in the rollback of create only.
RemoveConfNoReload(r) ==
    /\ req[r].pc = "remove" /\ mu = Free
    /\ conf' = [conf EXCEPT ![req[r].name] = NoPw]
    /\ Goto(r, IF req[r].op = "create" THEN "undo" ELSE "unlimit")
    /\ Works(r) /\ UNCHANGED <<db, limits, charon, sa, mu, synced, read, exp, proc>>

RemoveConfRollbackNoReload(r) ==
    /\ req[r].pc = "remove" /\ mu = Free
    /\ conf' = [conf EXCEPT ![req[r].name] = NoPw]
    /\ IF req[r].op = "create"
       THEN Goto(r, "undo") /\ UNCHANGED <<mu, read>>
       ELSE Goto(r, "rload") /\ mu' = r /\ read' = [read EXCEPT ![r] = conf']
    /\ Works(r) /\ UNCHANGED <<db, limits, charon, sa, synced, exp, proc>>

\* RemoveUserConf under reloadMu, for the rollback of create and for delete.
RemoveConf(r) ==
    /\ req[r].pc = "remove" /\ mu = Free
    /\ conf' = [conf EXCEPT ![req[r].name] = NoPw]
    /\ read' = [read EXCEPT ![r] = conf']
    /\ mu' = r
    /\ Goto(r, "rload")
    /\ Works(r) /\ UNCHANGED <<db, limits, charon, sa, synced, exp, proc>>

AfterRemoveFails(r) == IF req[r].op = "create" THEN "failed" ELSE "undo"

RemoveConfFails(r) ==
    /\ req[r].pc = "remove" /\ mu = Free
    /\ Fails(r, "remove")
    /\ Goto(r, AfterRemoveFails(r))
    /\ UNCHANGED <<db, vpn, limits, sa, exp, proc>>

RemoveLoad(r) ==
    /\ req[r].pc = "rload" /\ WorksCtx(r)
    /\ LoadAll(r)
    /\ mu' = Free /\ Forget(r)
    /\ Goto(r, IF req[r].op = "create" THEN "undo" ELSE "unlimit")
    /\ UNCHANGED <<db, conf, limits, sa, exp, proc>>

RemoveLoadFails(r) ==
    /\ req[r].pc = "rload" /\ FailsCtx(r, "reload")
    /\ LoadPart(r)
    /\ mu' = Free /\ Forget(r)
    /\ Goto(r, AfterRemoveFails(r))
    /\ UNCHANGED <<db, conf, limits, sa, exp, proc>>

\* The rollback of create deletes the row by its id.
CreateUndo(r) ==
    /\ req[r].pc = "undo" /\ req[r].op = "create" /\ WorksCtx(r)
    /\ live' = live \ {req[r].id}
    /\ Goto(r, "failed")
    /\ UNCHANGED <<row, seq, issued, vpn, limits, sa, exp, proc>>

\* A rollback's database call fails: whatever the step before left stays.
UndoFails(r) ==
    /\ req[r].pc = "undo" /\ FailsCtx(r, "db")
    /\ Goto(r, "failed")
    /\ UNCHANGED <<db, vpn, limits, sa, exp, proc>>

-----------------------------------------------------------------------------
(* POST /users/{id}/reset-password: the handler reads the row and generates *)
(* a password; the pipeline updates the row, reads it back, writes conf.d.  *)

ResetRead(r, i) ==
    /\ "reset" \in Ops /\ Enter(r, row[i].name)
    /\ i \in live
    /\ issued < MaxPw /\ issued' = NewPw
    /\ Ask(r, "update", "reset", i, row[i].name, NewPw, row[i])
    /\ UNCHANGED <<live, row, seq, vpn, limits, sa, exp, proc>>

ResetUpdate(r) ==
    /\ req[r].pc = "update" /\ WorksCtx(r)
    /\ req[r].id \in live
    /\ row' = [row EXCEPT ![req[r].id].pw = req[r].pw]
    /\ Goto(r, "lookup")
    /\ UNCHANGED <<live, seq, issued, vpn, limits, sa, exp, proc>>

\* ErrNotFound or a failed call.
ResetUpdateFails(r) ==
    /\ req[r].pc = "update"
    /\ (req[r].id \notin live /\ Works(r)) \/ FailsCtx(r, "db")
    /\ Goto(r, "failed")
    /\ UNCHANGED <<db, vpn, limits, sa, exp, proc>>

\* GetUserByID after the first update, in reset and in disable: only to learn
\* the username.  No rollback when it fails.
Lookup(r) ==
    /\ req[r].pc = "lookup" /\ WorksCtx(r)
    /\ req[r].id \in live
    /\ Goto(r, IF req[r].op = "reset" THEN "write" ELSE "term")
    /\ UNCHANGED <<db, vpn, limits, sa, exp, proc>>

LookupFails(r) ==
    /\ req[r].pc = "lookup"
    /\ (req[r].id \notin live /\ Works(r)) \/ FailsCtx(r, "db")
    /\ Goto(r, "failed")
    /\ UNCHANGED <<db, vpn, limits, sa, exp, proc>>

\* The rollback of reset writes the password the handler read at the start.
ResetUndo(r) ==
    /\ req[r].pc = "undo" /\ req[r].op = "reset" /\ WorksCtx(r)
    /\ row' = IF req[r].id \in live THEN [row EXCEPT ![req[r].id].pw = req[r].old.pw] ELSE row
    /\ Goto(r, "failed")
    /\ UNCHANGED <<live, seq, issued, vpn, limits, sa, exp, proc>>

-----------------------------------------------------------------------------
(* POST /users/{id}/enable and /disable.  The id comes from a page that may *)
(* be out of date, so the row may be gone.  Enable is one UPDATE.           *)

Switch(r, i, op, next) ==
    /\ op \in Ops /\ Enter(r, row[i].name)
    /\ i <= seq
    /\ \/ /\ i \in live
          /\ row' = [row EXCEPT ![i].enabled = (op = "enable")]
          /\ Ask(r, next, op, i, row[i].name, NoPw, NoRow)
       \/ /\ i \notin live
          /\ Ask(r, "failed", op, i, row[i].name, NoPw, NoRow)
          /\ UNCHANGED row
    /\ UNCHANGED <<live, seq, issued, vpn, limits, sa, exp, proc>>

Enable(r, i)     == Switch(r, i, "enable", "ok")
DisableSet(r, i) == Switch(r, i, "disable", "lookup")

\* Terminate: list-sas, then terminate every SA of the user.
TerminateSA(r) ==
    /\ req[r].pc = "term" /\ WorksCtx(r)
    /\ sa' = [sa EXCEPT ![req[r].name] = FALSE]
    /\ Goto(r, "ok")
    /\ UNCHANGED <<db, vpn, limits, exp, proc>>

\* An error of the list-sas stream ends the loop of findSAUniqueIDs, which then
\* reports the SAs it has seen (none) and no error: Terminate returns nil.
TerminateSeesNone(r) ==
    /\ req[r].pc = "term" /\ FailsCtx(r, "list")
    /\ Goto(r, "ok")
    /\ UNCHANGED <<db, vpn, limits, sa, exp, proc>>

\* No session, or a terminate call that failed, perhaps after it took effect.
\* Disable rolls back; delete ignores the error.
TerminateFails(r) ==
    /\ req[r].pc = "term" /\ FailsCtx(r, "term")
    /\ \E done \in BOOLEAN : sa' = [sa EXCEPT ![req[r].name] = @ /\ ~done]
    /\ Goto(r, IF req[r].op = "disable" THEN "undo" ELSE "ok")
    /\ UNCHANGED <<db, vpn, limits, exp, proc>>

DisableUndo(r) ==
    /\ req[r].pc = "undo" /\ req[r].op = "disable" /\ WorksCtx(r)
    /\ row' = IF req[r].id \in live THEN [row EXCEPT ![req[r].id].enabled = TRUE] ELSE row
    /\ Goto(r, "failed")
    /\ UNCHANGED <<live, seq, issued, vpn, limits, sa, exp, proc>>

-----------------------------------------------------------------------------
(* POST /users/{id}/delete/confirm: copy the row, DELETE it, remove conf.d + *)
(* reload, remove the limit file, terminate the SAs.                         *)

DeleteRead(r, i) ==
    /\ "delete" \in Ops /\ Enter(r, row[i].name)
    /\ i \in live
    /\ Ask(r, "delete", "delete", i, row[i].name, NoPw, row[i])
    /\ UNCHANGED <<db, vpn, limits, sa, exp, proc>>

DeleteRow(r) ==
    /\ req[r].pc = "delete" /\ WorksCtx(r)
    /\ req[r].id \in live
    /\ live' = live \ {req[r].id}
    /\ Goto(r, "remove")
    /\ UNCHANGED <<row, seq, issued, vpn, limits, sa, exp, proc>>

DeleteRowFails(r) ==
    /\ req[r].pc = "delete"
    /\ (req[r].id \notin live /\ Works(r)) \/ FailsCtx(r, "db")
    /\ Goto(r, "failed")
    /\ UNCHANGED <<db, vpn, limits, sa, exp, proc>>

\* Mutant: the copy is inserted with id 0, as the first version of the rollback
\* did.
DeleteUndoNewId(r) ==
    /\ req[r].pc = "undo" /\ req[r].op = "delete" /\ WorksCtx(r)
    /\ live' = live \cup {0}
    /\ Goto(r, "failed")
    /\ UNCHANGED <<row, seq, issued, vpn, limits, sa, exp, proc>>

\* RecoverUser inserts the copy under its old id, unless the id or the
\* username is taken again.
DeleteUndo(r) ==
    /\ req[r].pc = "undo" /\ req[r].op = "delete" /\ WorksCtx(r)
    /\ IF req[r].id \in live \/ Named(req[r].name) # {}
       THEN UNCHANGED <<live, row>>
       ELSE /\ live' = live \cup {req[r].id}
            /\ row' = [row EXCEPT ![req[r].id] = [req[r].old EXCEPT !.due = row[req[r].id].due]]
    /\ Goto(r, "failed")
    /\ UNCHANGED <<seq, issued, vpn, limits, sa, exp, proc>>

RemoveLimit(r) ==
    /\ req[r].pc = "unlimit" /\ Works(r)
    /\ limits' = [limits EXCEPT ![req[r].name] = FALSE]
    /\ Goto(r, "term")
    /\ UNCHANGED <<db, vpn, sa, exp, proc>>

RemoveLimitFails(r) ==
    /\ req[r].pc = "unlimit" /\ Fails(r, "limit")
    /\ Goto(r, "term")
    /\ UNCHANGED <<db, vpn, limits, sa, exp, proc>>

-----------------------------------------------------------------------------
(* What else a request meets. *)

\* The response is sent.
Return(r) ==
    /\ req[r].pc \in {"ok", "failed"}
    /\ req' = [req EXCEPT ![r] = NoRequest]
    /\ solo' = [solo EXCEPT ![r] = TRUE]
    /\ hit' = [hit EXCEPT ![r] = {}]
    /\ pre' = [pre EXCEPT ![r] = NoSecrets]
    /\ UNCHANGED failures
    /\ UNCHANGED <<db, vpn, limits, sa, exp, proc>>

\* The client goes away: net/http cancels r.Context().
Disconnect(r) ==
    /\ "gone" \in Faults /\ OneMoreFailure
    /\ InFlight(r) /\ req[r].pc \notin {"ok", "failed"} /\ req[r].ctx
    /\ req' = [req EXCEPT ![r].ctx = FALSE]
    /\ hit' = [hit EXCEPT ![r] = @ \cup {"gone"}]
    /\ UNCHANGED <<db, vpn, limits, sa, exp, proc, solo, pre>>

-----------------------------------------------------------------------------
(* Clients, time and the expiry goroutine. *)

\* A client whose secret charon holds establishes an SA, whatever the table
\* says; an SA goes away on its own.
Dial(u) ==
    /\ charon[u] # NoPw /\ ~sa[u]
    /\ sa' = [sa EXCEPT ![u] = TRUE]
    /\ UNCHANGED <<db, vpn, limits, req, exp, proc, history>>

HangUp(u) ==
    /\ sa[u]
    /\ sa' = [sa EXCEPT ![u] = FALSE]
    /\ UNCHANGED <<db, vpn, limits, req, exp, proc, history>>

\* The clock passes the row's expires_at, whether the row is in the table or
\* about to be put back.
Expire(i) ==
    /\ row[i].due = "later"
    /\ row' = [row EXCEPT ![i].due = "past"]
    /\ UNCHANGED <<live, seq, issued, vpn, limits, sa, req, exp, proc, history>>

Expired == {i \in live : row[i].due = "past" /\ row[i].enabled}

\* check(): one query, then Terminate and SetUserEnabled for each row of the
\* answer, which grows old while the loop runs.
ExpiryScan ==
    /\ up /\ exp.pc = "idle" /\ Expired # {}
    /\ exp' = [exp EXCEPT !.pc = "term", !.todo = Expired]
    /\ UNCHANGED <<db, vpn, limits, sa, req, proc, history>>

\* Mutant: a failed Terminate skips the user.
ExpiryTerminateSkips(i) ==
    /\ exp.pc = "term" /\ i \in exp.todo
    /\ \/ /\ sa' = [sa EXCEPT ![row[i].name] = FALSE]
          /\ exp' = [exp EXCEPT !.pc = "set", !.cur = i]
       \/ /\ Faults \cap {"term", "list"} # {} /\ UNCHANGED sa
          /\ exp' = [exp EXCEPT !.pc = IF exp.todo = {i} THEN "idle" ELSE "term",
                                !.todo = @ \ {i}]
    /\ UNCHANGED <<db, vpn, limits, req, proc, history>>

ExpiryTerminate(i) ==
    /\ exp.pc = "term" /\ i \in exp.todo
    /\ \/ sa' = [sa EXCEPT ![row[i].name] = FALSE]
       \/ Faults \cap {"term", "list"} # {} /\ UNCHANGED sa
    /\ exp' = [exp EXCEPT !.pc = "set", !.cur = i]
    /\ UNCHANGED <<db, vpn, limits, req, proc, history>>

ExpiryMoveOn ==
    exp' = [pc |-> IF exp.todo = {exp.cur} THEN "idle" ELSE "term",
            todo |-> exp.todo \ {exp.cur}, cur |-> 0]

\* SetUserEnabled(id, FALSE) of a row that may have been deleted meanwhile.
ExpirySet ==
    /\ exp.pc = "set"
    /\ IF exp.cur \in live
       THEN /\ row' = [row EXCEPT ![exp.cur].enabled = FALSE]
            /\ solo' = [q \in Requests |-> solo[q] /\ req[q].name # row[exp.cur].name]
       ELSE UNCHANGED <<row, solo>>
    /\ ExpiryMoveOn
    /\ UNCHANGED <<live, seq, issued, vpn, limits, sa, req, proc, hit, pre, failures>>

ExpirySetFails ==
    /\ exp.pc = "set" /\ "db" \in Faults /\ OneMoreFailure
    /\ ExpiryMoveOn
    /\ UNCHANGED <<db, vpn, limits, sa, req, proc, solo, hit, pre>>

NoExpiry == [pc |-> "idle", todo |-> {}, cur |-> 0]

-----------------------------------------------------------------------------
(* The container restarts: the table is on a volume, conf.d is a tmpfs, the  *)
(* limit files live as long as the container's own layer.                    *)

Crash ==
    /\ up /\ crashes < MaxCrashes
    /\ up' = FALSE /\ crashes' = crashes + 1
    /\ conf' = NoFiles /\ charon' = NoFiles /\ sa' = [u \in Users |-> FALSE]
    /\ \E kept \in BOOLEAN : limits' = [u \in Users |-> limits[u] /\ kept]
    /\ mu' = Free /\ synced' = TRUE
    /\ read' = [r \in Requests |-> NoFiles]
    /\ req' = [r \in Requests |-> NoRequest]
    /\ exp' = NoExpiry
    /\ solo' = [r \in Requests |-> TRUE] /\ hit' = [r \in Requests |-> {}]
    /\ pre' = [r \in Requests |-> NoSecrets]
    /\ UNCHANGED <<db, failures>>

\* main(), before it listens (its first --load-all finds conf.d empty): every
\* enabled user without a file gets one; a file that cannot be written is
\* skipped; one --load-all if any was written.
\* Mutants: disabled users get a file too; users with an expiry date do not.
MissingAll     == {i \in live : conf[row[i].name] = NoPw}
MissingUndated == {i \in live : row[i].enabled /\ row[i].due = "never" /\ conf[row[i].name] = NoPw}

Missing == {i \in live : row[i].enabled /\ conf[row[i].name] = NoPw}

Backfill(written) ==
    [u \in Users |-> IF \E i \in written : row[i].name = u
                     THEN row[CHOOSE i \in written : row[i].name = u].pw
                     ELSE conf[u]]

Boot ==
    /\ ~up /\ up' = TRUE
    /\ \E written \in SUBSET Missing :
         /\ \/ written = Missing /\ UNCHANGED failures
            \/ written # Missing /\ "write" \in Faults /\ OneMoreFailure
         /\ conf' = Backfill(written)
         /\ \/ /\ written # {}
               /\ charon' = conf' /\ synced' = TRUE
            \/ /\ written = {}
               /\ UNCHANGED <<charon, synced>>
            \/ /\ written # {} /\ "reload" \in Faults
               /\ \E part \in SUBSET Users :
                    charon' = [u \in Users |-> IF u \in part THEN conf'[u] ELSE charon[u]]
               /\ synced' = FALSE
    /\ UNCHANGED <<db, limits, sa, mu, req, read, exp, crashes, solo, hit, pre>>

-----------------------------------------------------------------------------
Init ==
    /\ live = {} /\ row = [i \in Ids |-> NoRow] /\ seq = 0 /\ issued = 0
    /\ conf = NoFiles /\ charon = NoFiles /\ synced = TRUE
    /\ limits = [u \in Users |-> FALSE] /\ sa = [u \in Users |-> FALSE]
    /\ mu = Free /\ read = [r \in Requests |-> NoFiles]
    /\ req = [r \in Requests |-> NoRequest]
    /\ exp = NoExpiry
    /\ up = TRUE /\ crashes = 0 /\ failures = 0
    /\ solo = [r \in Requests |-> TRUE] /\ hit = [r \in Requests |-> {}]
    /\ pre = [r \in Requests |-> NoSecrets]

Begin(r) ==
    \/ \E u \in Users : \/ \E en \in Enabled, d \in Dates : CreateInsert(r, u, en, d)
                       \/ CreateConflict(r, u)
    \/ \E i \in Ids : ResetRead(r, i) \/ Enable(r, i) \/ DisableSet(r, i) \/ DeleteRead(r, i)

\* The steps of a handler after its first.
Step(r) ==
    \/ WriteConf(r) \/ WriteConfFails(r) \/ WriteLoad(r) \/ WriteLoadFails(r)
    \/ WriteLimit(r) \/ WriteLimitFails(r)
    \/ RemoveConf(r) \/ RemoveConfFails(r) \/ RemoveLoad(r) \/ RemoveLoadFails(r)
    \/ CreateUndo(r) \/ ResetUndo(r) \/ DisableUndo(r) \/ DeleteUndo(r) \/ UndoFails(r)
    \/ ResetUpdate(r) \/ ResetUpdateFails(r) \/ Lookup(r) \/ LookupFails(r)
    \/ TerminateSA(r) \/ TerminateSeesNone(r) \/ TerminateFails(r)
    \/ DeleteRow(r) \/ DeleteRowFails(r) \/ RemoveLimit(r) \/ RemoveLimitFails(r)
    \/ Return(r)

Expiry == ExpiryScan \/ (\E i \in Ids : ExpiryTerminate(i)) \/ ExpirySet \/ ExpirySetFails

Environment ==
    \/ \E u \in Users : Dial(u) \/ HangUp(u)
    \/ \E i \in Ids : Expire(i)
    \/ \E r \in Requests : Disconnect(r)

Next ==
    \/ \E r \in Requests : Begin(r) \/ Step(r)
    \/ Expiry \/ Environment \/ Crash \/ Boot

Spec == Init /\ [][Next]_vars

\* Goroutines are scheduled, every call has a deadline, sync.Mutex does not
\* starve a waiter, and the expiry ticker fires: handlers, the expiry loop and
\* main() keep moving.  Clients, the admin and crashes owe nothing.
Fairness ==
    /\ \A r \in Requests : WF_vars(Step(r))
    /\ WF_vars(Expiry)
    /\ WF_vars(Boot)

FairSpec == Spec /\ Fairness

-----------------------------------------------------------------------------
(* Properties. *)

\* Every variable stays in its domain; in particular no row is ever stored under
\* an id that INSERT did not hand out.
TypeOK ==
    /\ live \subseteq Ids /\ row \in [Ids -> Row] /\ seq \in 0..MaxId /\ issued \in Secrets
    /\ conf \in [Users -> Secrets] /\ charon \in [Users -> Secrets]
    /\ limits \in [Users -> BOOLEAN] /\ sa \in [Users -> BOOLEAN]
    /\ mu \in Requests \cup {Free} /\ synced \in BOOLEAN
    /\ req \in [Requests -> Request] /\ read \in [Requests -> [Users -> Secrets]]
    /\ exp \in [pc : {"idle", "term", "set"}, todo : SUBSET Ids, cur : 0..MaxId]
    /\ up \in BOOLEAN /\ crashes \in 0..MaxCrashes /\ failures \in 0..MaxFailures
    /\ solo \in [Requests -> BOOLEAN] /\ hit \in [Requests -> SUBSET FaultKinds]
    /\ pre \in [Requests -> [conf : Secrets, charon : Secrets]]

\* No username has two rows, whatever creates, failed deletes that put their
\* row back and restarts interleave (the UNIQUE column, CreateUser,
\* RecoverUser).
UniqueNames == \A i, j \in live : row[i].name = row[j].name => i = j

\* charon differs from conf.d only while a handler is reloading it or after a
\* reload that failed: no reload that read older files can finish after a newer
\* one (what reloadMu is for, loader.go).
CharonTracksConfD == mu = Free /\ synced => charon = conf

\* Requests that met no other request on their user, by how they ended.
Done(r, o, end) == req[r].pc = end /\ req[r].op = o /\ solo[r]

Serves(u, p) == conf[u] = p /\ charon[u] = p

\* A request that had its user to itself and reported success did what it
\* says, whatever requests on other users did meanwhile and whatever state
\* earlier failures left: a created or reset user can dial with the password
\* that was shown and no other, a deleted one is gone from the table, conf.d
\* and charon, and if no call to Terminate failed it has no SA left and can
\* make no new one (CreateUser, ResetPassword, DisableUser, DeleteUser).
SoleSuccessKeepsItsPromise ==
    \A r \in Requests : LET u == req[r].name  i == req[r].id IN
      /\ Done(r, "create", "ok")  => /\ i \in live /\ row[i].name = u /\ row[i].pw = req[r].pw
                                     /\ Serves(u, req[r].pw) /\ limits[u]
      /\ Done(r, "reset", "ok")   => i \in live /\ row[i].pw = req[r].pw /\ Serves(u, req[r].pw)
      /\ Done(r, "disable", "ok") => i \in live /\ ~row[i].enabled
      /\ Done(r, "delete", "ok")  =>
            /\ Named(u) = {} /\ Serves(u, NoPw)
            /\ hit[r] \cap {"term", "list", "gone"} = {} => ~sa[u]
            /\ "limit" \notin hit[r] => ~limits[u]

\* A request that had its user to itself and failed on one file operation
\* alone (writing or removing the conf.d file, writing the limit file) is
\* rolled back: a created user is nowhere, any other user has the row and the
\* file it had.  charon may have caught up with conf.d meanwhile.
SingleFileFaultRollsBack ==
    \A r \in Requests : LET u == req[r].name  i == req[r].id IN
      (\E f \in {"write", "remove", "limit"} : hit[r] = {f}) =>
        /\ Done(r, "create", "failed") =>
              /\ Named(u) = {} /\ conf[u] \in {pre[r].conf, NoPw}
              /\ charon[u] \in {pre[r].charon, conf[u]}
        /\ Done(r, "reset", "failed") \/ Done(r, "delete", "failed") =>
              /\ i \in live /\ row[i].pw = req[r].old.pw /\ row[i].enabled = req[r].old.enabled
              /\ conf[u] = pre[r].conf /\ charon[u] \in {pre[r].charon, conf[u]}

\* The expiry loop works from a list that grows old, yet the only rows it ever
\* disables are past their date: ids are not used twice, and the UPDATE goes by
\* id (expiry.check, AUTOINCREMENT in store.go).
ExpiryDisablesOnlyDue ==
    [][\A i \in live \cap live' :
         row[i].enabled /\ ~row'[i].enabled /\ req' = req => row[i].due = "past"]_vars

\* A restart forgets every secret that no enabled row vouches for, so an orphan
\* left by a failed rollback or a disabled user's file does not survive one,
\* even if the backfill itself meets failures (main.go, EAP backfill).
RestartDropsOrphans ==
    [][~up /\ up' => \A u \in Users : charon'[u] # NoPw =>
         \E i \in live' : row'[i].name = u /\ row'[i].enabled /\ row'[i].pw = charon'[u]]_vars

\* ... and once its reload succeeds it serves every enabled user again with the
\* password in the table, even one whose pipeline the restart cut short, unless
\* that user's file could not be written (which counts as a failure).
RestartServesEnabled ==
    [][~up /\ up' /\ synced' => \A i \in live' : LET u == row'[i].name IN
         row'[i].enabled => \/ charon'[u] = row'[i].pw
                            \/ failures' # failures /\ conf'[u] = NoPw]_vars

\* Every request is answered: no handler waits for reloadMu for ever and every
\* error path lets go of it.
RequestsEnd == \A r \in Requests : InFlight(r) ~> ~InFlight(r)

\* An enabled user past its date is disabled or deleted, even if charon cannot
\* be told to drop its SA (expiry.check only logs that).
ExpiredAreDisabled ==
    \A i \in Ids : (i \in Expired) ~> (i \notin Expired)
=============================================================================
