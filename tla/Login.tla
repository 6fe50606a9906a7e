-------------------------------- MODULE Login --------------------------------
(***************************************************************************)
(* Signing in to the panel, and the account behind it: the rate limiter    *)
(* (internal/auth/ratelimit.go), the login and password handlers, the      *)
(* sessions, and the default administrator with its initial password file. *)
(*                                                                         *)
(* The limiter keeps one bucket per client in memory, a copy of it in      *)
(* rl.persist under another mutex, and all copies in a file that is        *)
(* snapshotted under that mutex and written under a third.  The buckets    *)
(* are lost at a restart and come back from the file.                      *)
(*                                                                         *)
(* Time is a tick: deadlines are the ticks that are left, so that a tick   *)
(* ages what memory, the file and the snapshots in flight say alike.       *)
(***************************************************************************)
EXTENDS Integers, FiniteSets

CONSTANTS
    Clients,     \* client addresses
    Requests,    \* requests in flight
    Passwords, Initial,   \* Initial: the one the first start generates
    Sessions,    \* session identifiers
    None,        \* no administrator, no row, no bucket
    Threshold, Window, LockFor,   \* LoginFailThreshold, LoginWindow, LoginLockDuration
    PostLimit,   \* GlobalPostLimit; a tick outlasts GlobalPostWindow
    SessionTTL,  \* ticks a session lasts
    MaxArrivals, MaxTicks, MaxFaults   \* bounds; a fault is a failed call or a crash

ASSUME LimitsAssumption ==
    /\ Threshold \in Nat /\ Threshold >= 2 /\ PostLimit \in Nat \ {0}
    /\ Window \in Nat \ {0} /\ LockFor \in Nat /\ LockFor >= Window
    /\ SessionTTL \in Nat \ {0}
ASSUME NamesAssumption  == Initial \in Passwords /\ None \notin Passwords \cup Nat
ASSUME BoundsAssumption == MaxArrivals \in Nat /\ MaxTicks \in Nat /\ MaxFaults \in Nat

VARIABLES
    bucket,     \* RateLimiter.buckets, made when a client is first seen
    posts,      \* the POSTs of a client within the window
    persist,    \* RateLimiter.persist; Zero for a client without an entry
    disk,       \* ratelimit.json
    req,        \* the requests
    panel,      \* "off", "created": EnsureDefaultAdmin is done, "on": serving
    admin,      \* the password in the admins row, or None
    initFile,   \* INITIAL_ADMIN_PASSWORD.txt exists
    rows,       \* the sessions table: the ticks a row has left, or None
    arrivals, ticks, faults,
    \* History, read by the properties only: wrong guesses of a client within
    \* the tick; whether the limiter's file was always written in turn; whether
    \* the password was ever changed; whether the file of the first password
    \* was ever left behind or never written, by an error or a crash.
    guesses, inTurn, changed, strayed

limiter == <<bucket, persist>>
account == <<admin, initFile, rows>>
bounds  == <<arrivals, ticks, faults>>
history == <<guesses, inTurn, changed, strayed>>
vars    == <<limiter, posts, disk, req, panel, account, bounds, history>>

\* A window that is over has no failures.
Buckets == {b \in [fails : 0 .. Threshold - 1, open : 0 .. Window, lock : 0 .. LockFor] :
              b.open = 0 => b.fails = 0}
Zero    == [fails |-> 0, open |-> 0, lock |-> 0]
NoSnap  == [c \in Clients |-> Zero]
PCs     == {"idle", "row", "verify", "count", "session", "reset", "persist", "copy",
            "write", "old", "change", "clear"}
Request == [pc : PCs, client : Clients \cup {None}, given : Passwords \cup {None},
            new : Passwords \cup {None}, seen : Passwords \cup {None},
            snap : [Clients -> Buckets], during : SUBSET Passwords]

ASSUME SortsAssumption == None \notin Buckets \cup Clients /\ IsFiniteSet(Requests)

\* A request with passwords to compare, and one with a bucket to save.
Asking(pc, c, given, new, seen, during) ==
    [pc |-> pc, client |-> c, given |-> given, new |-> new, seen |-> seen,
     snap |-> NoSnap, during |-> during]
Saving(pc, c, snap) ==
    [pc |-> pc, client |-> c, given |-> None, new |-> None, seen |-> None,
     snap |-> snap, during |-> {}]
Idle == Saving("idle", None, NoSnap)

-----------------------------------------------------------------------------
(* Building blocks. *)

Set(r, w)  == req' = [req EXCEPT ![r] = w]
At(r, pc)  == panel = "on" /\ req[r].pc = pc
Go(r, pc)  == Set(r, [req[r] EXCEPT !.pc = pc])
To(r, pc)  == Set(r, Saving(pc, req[r].client, NoSnap))
Works      == UNCHANGED faults
Fails      == faults < MaxFaults /\ faults' = faults + 1
Recording  == {r \in Requests : req[r].pc \in {"persist", "copy", "write"}}

\* getBucket: a client not seen since the start has what the file had.
GetBucket(c) == IF bucket[c] = None THEN persist[c] ELSE bucket[c]
Locked(c)    == GetBucket(c).lock > 0

\* RecordFail.  The first failure of a window never locks.
\* Mutant: that one is not counted either.
RecordFailFromZero(b) ==
    IF b.open = 0 THEN [fails |-> 0, open |-> Window, lock |-> b.lock]
    ELSE IF b.fails + 1 >= Threshold THEN [fails |-> 0, open |-> Window, lock |-> LockFor]
    ELSE [b EXCEPT !.fails = @ + 1]

RecordFail(b) ==
    IF b.open = 0 THEN [fails |-> 1, open |-> Window, lock |-> b.lock]
    ELSE IF b.fails + 1 >= Threshold THEN [fails |-> 0, open |-> Window, lock |-> LockFor]
    ELSE [b EXCEPT !.fails = @ + 1]

\* A tick takes one from what is left; a window that is over has no failures.
Less(n)  == IF n = 0 THEN 0 ELSE n - 1
Older(b) == [fails |-> IF b.open <= 1 THEN 0 ELSE b.fails,
             open  |-> Less(b.open), lock |-> Less(b.lock)]
OlderAll(f) == [c \in DOMAIN f |-> IF f[c] = None THEN None ELSE Older(f[c])]

\* A request remembers, for the properties, the passwords in force while it ran.
Seen(w, p) == IF w.pc = "idle" THEN w ELSE [w EXCEPT !.during = @ \cup {p}]

-----------------------------------------------------------------------------
(* The two middlewares and what they let in. *)

\* Mutant: one more than the limit.
CountedOneMore(c) ==
    /\ posts[c] <= PostLimit /\ arrivals < MaxArrivals
    /\ arrivals' = arrivals + 1
    /\ posts' = [posts EXCEPT ![c] = @ + 1]
    /\ bucket' = [bucket EXCEPT ![c] = GetBucket(c)]

\* CheckLogin and AllowPost make the bucket of a client they have not seen.
Counted(c) ==
    /\ posts[c] < PostLimit /\ arrivals < MaxArrivals
    /\ arrivals' = arrivals + 1
    /\ posts' = [posts EXCEPT ![c] = @ + 1]
    /\ bucket' = [bucket EXCEPT ![c] = GetBucket(c)]

AdmitLogin(r, c, p) ==
    /\ At(r, "idle") /\ ~Locked(c) /\ Counted(c)
    /\ Set(r, Asking("row", c, p, None, None, {admin}))
    /\ UNCHANGED <<persist, disk, panel, account, ticks, faults, history>>

\* A protected POST: limited, then a live session, then the row is read.
AdmitChange(r, c, p, q) ==
    /\ At(r, "idle") /\ p # q /\ Counted(c)
    /\ \E s \in Sessions : rows[s] # None /\ rows[s] > 0
    /\ Set(r, Asking("old", c, p, q, admin, {admin}))
    /\ UNCHANGED <<persist, disk, panel, account, ticks, faults, history>>

-----------------------------------------------------------------------------
(* POST /login. *)

\* The row of the name.  A name that is not there counts as a wrong password.
ReadRow(r) ==
    /\ At(r, "row") /\ Works
    /\ \/ Set(r, Asking("verify", req[r].client, req[r].given, None, admin, req[r].during))
       \/ To(r, "count")
    /\ UNCHANGED <<limiter, posts, disk, panel, account, arrivals, ticks, history>>

ReadRowFails(r) ==
    /\ At(r, "row") /\ Fails /\ Set(r, Idle)
    /\ UNCHANGED <<limiter, posts, disk, panel, account, arrivals, ticks, history>>

\* Mutant: the password is not compared.
VerifyAny(r) ==
    /\ At(r, "verify") /\ Go(r, "session")
    /\ UNCHANGED <<limiter, posts, disk, panel, account, bounds, history>>

Verify(r) ==
    /\ At(r, "verify")
    /\ IF req[r].given = req[r].seen THEN Go(r, "session") ELSE To(r, "count")
    /\ UNCHANGED <<limiter, posts, disk, panel, account, bounds, history>>

CreateSession(r) ==
    /\ At(r, "session") /\ Works
    /\ \E s \in Sessions : rows[s] = None /\ rows' = [rows EXCEPT ![s] = SessionTTL]
    /\ To(r, "reset")
    /\ UNCHANGED <<limiter, posts, disk, panel, admin, initFile, arrivals, ticks, history>>

CreateSessionFails(r) ==
    /\ At(r, "session") /\ Fails /\ Set(r, Idle)
    /\ UNCHANGED <<limiter, posts, disk, panel, account, arrivals, ticks, history>>

-----------------------------------------------------------------------------
(* The limiter's record of the outcome. *)

\* Under the bucket's mutex.
Record(r, b) ==
    /\ bucket' = [bucket EXCEPT ![req[r].client] = b]
    /\ Set(r, Saving("persist", req[r].client, [NoSnap EXCEPT ![req[r].client] = b]))
    /\ inTurn' = (inTurn /\ Recording = {})
    /\ UNCHANGED <<persist, posts, disk, panel, account, bounds, changed, strayed>>

RecordLoginFail(r) ==
    /\ At(r, "count")
    /\ Record(r, RecordFail(GetBucket(req[r].client)))
    /\ guesses' = [guesses EXCEPT ![req[r].client] = @ + 1]

RecordLoginSuccess(r) ==
    /\ At(r, "reset") /\ Record(r, Zero)
    /\ guesses' = [guesses EXCEPT ![req[r].client] = 0]

\* Under the limiter's mutex.
Persist(r) ==
    /\ At(r, "persist")
    /\ persist' = [persist EXCEPT ![req[r].client] = req[r].snap[req[r].client]]
    /\ Go(r, "copy")
    /\ UNCHANGED <<bucket, posts, disk, panel, account, bounds, history>>

\* Taken again, for the snapshot of all clients.
\* Mutant: only the entry of this client.
CopyOne(r) ==
    /\ At(r, "copy") /\ Go(r, "write")
    /\ UNCHANGED <<limiter, posts, disk, panel, account, bounds, history>>

Copy(r) ==
    /\ At(r, "copy")
    /\ Set(r, Saving("write", req[r].client, persist))
    /\ UNCHANGED <<limiter, posts, disk, panel, account, bounds, history>>

\* Under saveMu.
SaveToDisk(r) ==
    /\ At(r, "write") /\ Works
    /\ disk' = req[r].snap /\ Set(r, Idle)
    /\ UNCHANGED <<limiter, posts, panel, account, arrivals, ticks, history>>

SaveToDiskFails(r) ==
    /\ At(r, "write") /\ Fails
    /\ Set(r, Idle) /\ inTurn' = FALSE
    /\ UNCHANGED <<limiter, posts, disk, panel, account, arrivals, ticks, guesses, changed, strayed>>

-----------------------------------------------------------------------------
(* POST /api/account/password. *)

\* Against the hash the middleware read.  The row is read again after this,
\* for its name only.
VerifyOld(r) ==
    /\ At(r, "old")
    /\ IF req[r].given = req[r].seen THEN Go(r, "change") ELSE Set(r, Idle)
    /\ UNCHANGED <<limiter, posts, disk, panel, account, bounds, history>>

UpdateAdminPassword(r) ==
    /\ At(r, "change") /\ Works
    /\ admin' = req[r].new /\ changed' = TRUE
    /\ req' = [q \in Requests |-> IF q = r THEN Saving("clear", None, NoSnap)
                                  ELSE Seen(req[q], req[r].new)]
    /\ UNCHANGED <<limiter, posts, disk, panel, initFile, rows, arrivals, ticks, guesses, inTurn, strayed>>

UpdateAdminPasswordFails(r) ==
    /\ At(r, "change") /\ Fails /\ Set(r, Idle)
    /\ UNCHANGED <<limiter, posts, disk, panel, account, arrivals, ticks, history>>

\* Mutant: the file stays (the panel before it had this page).
ClearInitialPasswordFileNot(r) ==
    /\ At(r, "clear") /\ Works /\ Set(r, Idle)
    /\ UNCHANGED <<limiter, posts, disk, panel, account, arrivals, ticks, history>>

ClearInitialPasswordFile(r) ==
    /\ At(r, "clear") /\ Works
    /\ initFile' = FALSE /\ Set(r, Idle)
    /\ UNCHANGED <<limiter, posts, disk, panel, admin, rows, arrivals, ticks, history>>

\* A warning in the log; the change stands.
ClearInitialPasswordFileFails(r) ==
    /\ At(r, "clear") /\ Fails
    /\ Set(r, Idle) /\ strayed' = TRUE
    /\ UNCHANGED <<limiter, posts, disk, panel, account, arrivals, ticks, guesses, inTurn, changed>>

-----------------------------------------------------------------------------
(* Sessions end: signed out, or out of time and swept. *)

Logout(s) ==
    /\ panel = "on" /\ rows[s] # None
    /\ rows' = [rows EXCEPT ![s] = None]
    /\ UNCHANGED <<limiter, posts, disk, req, panel, admin, initFile, bounds, history>>

DeleteExpiredSessions ==
    /\ panel = "on" /\ \E s \in Sessions : rows[s] = 0
    /\ rows' = [s \in Sessions |-> IF rows[s] = 0 THEN None ELSE rows[s]]
    /\ UNCHANGED <<limiter, posts, disk, req, panel, admin, initFile, bounds, history>>

Tick ==
    /\ ticks < MaxTicks /\ ticks' = ticks + 1
    /\ bucket' = OlderAll(bucket) /\ persist' = OlderAll(persist) /\ disk' = OlderAll(disk)
    /\ req' = [r \in Requests |-> [req[r] EXCEPT !.snap = OlderAll(@)]]
    /\ rows' = [s \in Sessions |-> IF rows[s] = None THEN None ELSE Less(rows[s])]
    /\ posts' = [c \in Clients |-> 0] /\ guesses' = [c \in Clients |-> 0]
    /\ UNCHANGED <<panel, admin, initFile, arrivals, faults, inTurn, changed, strayed>>

-----------------------------------------------------------------------------
(* Start and stop. *)

Crash ==
    /\ panel # "off" /\ Fails
    /\ panel' = "off" /\ req' = [r \in Requests |-> Idle]
    /\ bucket' = [c \in Clients |-> None] /\ posts' = [c \in Clients |-> 0]
    /\ inTurn' = (inTurn /\ Recording = {})
    /\ strayed' = (strayed \/ panel = "created" \/ \E r \in Requests : req[r].pc = "clear")
    /\ UNCHANGED <<persist, disk, account, arrivals, ticks, guesses, changed>>

EnsureDefaultAdmin ==
    /\ panel = "off" /\ admin = None
    /\ admin' = Initial /\ panel' = "created"
    /\ UNCHANGED <<limiter, posts, disk, req, initFile, rows, bounds, history>>

NewRateLimiter == panel' = "on" /\ persist' = disk

\* The file is written by the start that made the administrator, and only then.
WriteInitialPassword ==
    /\ panel = "created" /\ Works
    /\ initFile' = TRUE /\ NewRateLimiter
    /\ UNCHANGED <<bucket, posts, disk, req, admin, rows, arrivals, ticks, history>>

WriteInitialPasswordFails ==
    /\ panel = "created" /\ Fails
    /\ strayed' = TRUE /\ NewRateLimiter
    /\ UNCHANGED <<bucket, posts, disk, req, account, arrivals, ticks, guesses, inTurn, changed>>

Start ==
    /\ panel = "off" /\ admin # None /\ NewRateLimiter
    /\ UNCHANGED <<bucket, posts, disk, req, account, bounds, history>>

-----------------------------------------------------------------------------
Init ==
    /\ bucket = [c \in Clients |-> None] /\ posts = [c \in Clients |-> 0]
    /\ persist = [c \in Clients |-> Zero] /\ disk = persist
    /\ req = [r \in Requests |-> Idle]
    /\ panel = "off" /\ admin = None /\ initFile = FALSE
    /\ rows = [s \in Sessions |-> None]
    /\ arrivals = 0 /\ ticks = 0 /\ faults = 0
    /\ guesses = [c \in Clients |-> 0] /\ inTurn = TRUE /\ changed = FALSE /\ strayed = FALSE

LoginStep(r) ==
    \/ \E c \in Clients, p \in Passwords : AdmitLogin(r, c, p)
    \/ ReadRow(r) \/ ReadRowFails(r) \/ Verify(r) \/ CreateSession(r) \/ CreateSessionFails(r)
    \/ RecordLoginFail(r) \/ RecordLoginSuccess(r)
    \/ Persist(r) \/ Copy(r) \/ SaveToDisk(r) \/ SaveToDiskFails(r)

ChangeStep(r) ==
    \/ \E c \in Clients, p, q \in Passwords : AdmitChange(r, c, p, q)
    \/ VerifyOld(r) \/ UpdateAdminPassword(r) \/ UpdateAdminPasswordFails(r)
    \/ ClearInitialPasswordFile(r) \/ ClearInitialPasswordFileFails(r)

Boot == EnsureDefaultAdmin \/ WriteInitialPassword \/ WriteInitialPasswordFails \/ Start

Next ==
    \/ \E r \in Requests : LoginStep(r) \/ ChangeStep(r)
    \/ \E s \in Sessions : Logout(s)
    \/ DeleteExpiredSessions \/ Tick \/ Crash \/ Boot

Spec == Init /\ [][Next]_vars

-----------------------------------------------------------------------------
(* What must hold. *)

\* Every variable has its type; a request has a client when it is under way.
TypeOK ==
    /\ bucket \in [Clients -> Buckets \cup {None}]
    /\ posts \in [Clients -> 0 .. PostLimit]
    /\ persist \in [Clients -> Buckets] /\ disk \in [Clients -> Buckets]
    /\ req \in [Requests -> Request]
    /\ \A r \in Requests : req[r].pc \notin {"idle", "clear"} => req[r].client # None
    /\ panel \in {"off", "created", "on"}
    /\ admin \in Passwords \cup {None} /\ (panel # "off" => admin # None)
    /\ initFile \in BOOLEAN
    /\ rows \in [Sessions -> 0 .. SessionTTL \cup {None}]
    /\ arrivals \in 0 .. MaxArrivals /\ ticks \in 0 .. MaxTicks /\ faults \in 0 .. MaxFaults
    /\ guesses \in [Clients -> Nat]
    /\ inTurn \in BOOLEAN /\ changed \in BOOLEAN /\ strayed \in BOOLEAN

\* However the requests interleave, and across restarts: a client that has had
\* the threshold of wrong guesses within a tick is locked until the tick ends,
\* and has had no more of them than that and what was past the check when the
\* lock fell.  (A success in between starts over.  A restart may forgive when
\* the file was written out of turn.)
GuessesBounded ==
    inTurn => \A c \in Clients :
        /\ guesses[c] <= Threshold + Cardinality(Requests) - 1
        /\ panel = "on" /\ guesses[c] >= Threshold => Locked(c)

\* Between two requests the file says of every client what memory says, so a
\* restart neither forgives a lock nor brings one back, unless a write failed,
\* was cut off or ran beside another.
FileKeepsLocks ==
    inTurn /\ panel = "on" /\ Recording = {} =>
        \A c \in Clients : GetBucket(c) = disk[c]

\* The warning that the first password is still in use (the file exists) tells
\* the truth when no request is between the change and the removal, and a
\* restart does not bring it back, unless the file could not be written or
\* removed or the panel died beside it.
BannerTellsTheTruth ==
    panel = "on" /\ ~strayed /\ (\A r \in Requests : req[r].pc # "clear") =>
        (initFile <=> ~changed)

\* A session is opened only by a request that gave a password that was the
\* administrator's at some moment while it ran.
SessionsAreEarned ==
    [][\A r \in Requests :
         req[r].pc = "session" /\ req'[r].pc = "reset" => req[r].given \in req[r].during]_vars
=============================================================================
