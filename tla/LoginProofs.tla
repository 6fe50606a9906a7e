----------------------------- MODULE LoginProofs -----------------------------
(***************************************************************************)
(* Proofs about Login, for every set of clients, requests, passwords and   *)
(* sessions, every limit and every bound.  TLC finds the same invariants   *)
(* true on MCLogin.                                                        *)
(***************************************************************************)
EXTENDS Login, FiniteSetTheorems, TLAPS

-----------------------------------------------------------------------------
(* Types. *)

\* A request under way has a client, and a change has its new password.
Sound ==
    {w \in Request : /\ w.pc \notin {"idle", "clear"} => w.client # None
                     /\ w.pc \in {"old", "change"} => w.new # None}

\* Nothing is under way unless the panel serves.
OnlyServing == panel # "on" => \A r \in Requests : req[r].pc = "idle"

TypeInv == TypeOK /\ req \in [Requests -> Sound] /\ OnlyServing

\* What TypeInv says of the requests.
RequestsTyped ==
    /\ req \in [Requests -> Sound] /\ req \in [Requests -> Request] /\ OnlyServing
    /\ \A q \in Requests : req[q].pc \notin {"idle", "clear"} => req[q].client # None

-----------------------------------------------------------------------------
(* Sessions. *)

\* What a login carries was the administrator's password while it ran.
Earned(w) ==
    /\ w.pc \in {"row", "verify", "session"} => admin \in w.during
    /\ w.pc = "verify" => w.seen \in w.during
    /\ w.pc = "session" => w.given \in w.during

Earning == \A r \in Requests : Earned(req[r])

-----------------------------------------------------------------------------
(* The initial password. *)

Clearing == \E r \in Requests : req[r].pc = "clear"

\* Before the first administrator, and until its file is written, there is no
\* file; from then on the file and the change tell of each other, but for a
\* request between the two.
BannerInv ==
    /\ Clearing => changed
    /\ ~strayed =>
        /\ admin = None \/ panel = "created" => ~initFile /\ ~changed
        /\ admin # None /\ panel # "created" /\ ~Clearing => (initFile <=> ~changed)

-----------------------------------------------------------------------------
(* The limiter's three copies. *)

\* Nothing is remembered of a client whose request is being recorded.
Settled(c) == \A r \in Requests : req[r].pc = "persist" => req[r].client # c

\* While the file was always written in turn: one request records at a time,
\* the file is what memory would write when none does, a bucket is what its
\* entry is once that is made, and the request that makes it carries it.
InTurnInv ==
    /\ \A q, r \in Recording : q = r
    /\ Recording = {} => persist = disk
    /\ \A c \in Clients : Settled(c) => bucket[c] \in {None, persist[c]}
    /\ \A r \in Requests :
        /\ req[r].pc = "persist" => bucket[req[r].client] = req[r].snap[req[r].client]
        /\ req[r].pc = "write" => req[r].snap = persist

NoBuckets == panel # "on" => \A c \in Clients : bucket[c] = None

CopiesInv == NoBuckets /\ (inTurn => InTurnInv)

-----------------------------------------------------------------------------
(* Guesses. *)

\* The requests of a client that may still guess wrong.
Guessing(c) ==
    {r \in Requests : req[r].client = c /\ req[r].pc \in {"row", "verify", "count"}}

\* A client that is not locked has no more wrong guesses than its bucket says;
\* one that is has no more, with those still to come, than the bound.
WellCounted(c) ==
    /\ ~Locked(c) => guesses[c] <= GetBucket(c).fails
    /\ Locked(c) => guesses[c] + Cardinality(Guessing(c)) <= Threshold + Cardinality(Requests) - 1

CountInv == inTurn => \A c \in Clients : WellCounted(c)

-----------------------------------------------------------------------------
(* Proofs: types. *)

\* What the requests start from, and one with a bucket to save.
LEMMA Records ==
  /\ Zero \in Buckets /\ NoSnap \in [Clients -> Buckets]
  /\ Idle \in Sound /\ Idle.pc = "idle"
  /\ Saving("clear", None, NoSnap) \in Sound
  /\ \A pc \in PCs \ {"old", "change"}, c \in Clients, f \in [Clients -> Buckets] :
       Saving(pc, c, f) \in Sound
<1> USE SortsAssumption, LimitsAssumption, NamesAssumption
<1>1. Zero \in Buckets /\ NoSnap \in [Clients -> Buckets]
  BY DEF Zero, Buckets, NoSnap
<1>2. Idle \in Sound /\ Idle.pc = "idle"
  BY <1>1 DEF Idle, Saving, Sound, Request, PCs
<1>3. Saving("clear", None, NoSnap) \in Sound
  BY <1>1 DEF Saving, Sound, Request, PCs
<1>4. ASSUME NEW pc \in PCs \ {"old", "change"}, NEW c \in Clients,
             NEW f \in [Clients -> Buckets]
      PROVE  Saving(pc, c, f) \in Sound
  BY <1>4 DEF Saving, Sound, Request
<1> QED
  BY <1>1, <1>2, <1>3, <1>4

\* A failure and a tick keep a bucket well formed; so does every copy of one.
LEMMA BucketSteps ==
  /\ \A b \in Buckets : RecordFail(b) \in Buckets /\ Older(b) \in Buckets
  /\ \A f \in [Clients -> Buckets] : OlderAll(f) \in [Clients -> Buckets]
  /\ \A f \in [Clients -> Buckets \cup {None}] : OlderAll(f) \in [Clients -> Buckets \cup {None}]
<1> USE SortsAssumption, LimitsAssumption
<1>1. ASSUME NEW b \in Buckets
      PROVE  RecordFail(b) \in Buckets
  BY DEF Buckets, RecordFail
<1>2. ASSUME NEW b \in Buckets
      PROVE  Older(b) \in Buckets
  BY DEF Buckets, Older, Less
<1>3. ASSUME NEW f \in [Clients -> Buckets]
      PROVE  OlderAll(f) \in [Clients -> Buckets]
  BY <1>2 DEF OlderAll
<1>4. ASSUME NEW f \in [Clients -> Buckets \cup {None}]
      PROVE  OlderAll(f) \in [Clients -> Buckets \cup {None}]
  BY <1>2 DEF OlderAll
<1> QED
  BY <1>1, <1>2, <1>3, <1>4

\* The bucket a client has, or gets, is well formed.
LEMMA BucketTyped ==
  ASSUME TypeInv, NEW c \in Clients
  PROVE  GetBucket(c) \in Buckets
BY DEF TypeInv, TypeOK, GetBucket

\* A request that becomes a sound one keeps the requests sound.
LEMMA RequestTyped ==
  ASSUME TypeInv, NEW r \in Requests, NEW w \in Sound, Set(r, w), panel = "on", panel' = "on"
  PROVE  RequestsTyped'
<1>1. req' \in [Requests -> Sound]
  BY DEF TypeInv, Set
<1> QED
  BY <1>1 DEF RequestsTyped, OnlyServing, Sound

\* So does a request at its next place, when it needs no more there.
LEMMA GoTyped ==
  ASSUME TypeInv, NEW r \in Requests, NEW pc \in PCs, Go(r, pc), panel = "on", panel' = "on",
         req[r].pc \notin {"idle", "clear"}, pc = "change" => req[r].pc = "old", pc # "old"
  PROVE  RequestsTyped'
<1>1. req[r] \in Sound
  BY DEF TypeInv
<1>2. [req[r] EXCEPT !.pc = pc] \in Sound
  BY <1>1 DEF Sound, Request
<1> QED
  BY <1>2, RequestTyped DEF Go

\* A request under way belongs to a client.
LEMMA HasClient ==
  ASSUME TypeInv, NEW r \in Requests, req[r].pc \notin {"idle", "clear"}
  PROVE  req[r].client \in Clients
<1>1. req[r] \in Sound
  BY DEF TypeInv
<1> QED
  BY <1>1 DEF Sound, Request

\* The faults stay within their bound.
LEMMA Faulting ==
  ASSUME TypeInv, Works \/ Fails
  PROVE  faults' \in 0 .. MaxFaults
<1>1. faults \in 0 .. MaxFaults /\ MaxFaults \in Nat
  BY BoundsAssumption DEF TypeInv, TypeOK
<1> QED
  BY <1>1 DEF Works, Fails

\* What the middlewares count stays within the limits.
LEMMA Counting ==
  ASSUME TypeInv, NEW c \in Clients, Counted(c)
  PROVE  /\ posts' \in [Clients -> 0 .. PostLimit] /\ arrivals' \in 0 .. MaxArrivals
         /\ bucket' \in [Clients -> Buckets \cup {None}]
<1>1. /\ posts \in [Clients -> 0 .. PostLimit] /\ arrivals \in 0 .. MaxArrivals
      /\ bucket \in [Clients -> Buckets \cup {None}]
      /\ MaxArrivals \in Nat /\ PostLimit \in Nat
  BY BoundsAssumption, LimitsAssumption DEF TypeInv, TypeOK
<1>2. posts[c] + 1 \in 0 .. PostLimit /\ arrivals + 1 \in 0 .. MaxArrivals
  BY <1>1 DEF Counted
<1>3. posts' \in [Clients -> 0 .. PostLimit] /\ arrivals' \in 0 .. MaxArrivals
  BY <1>1, <1>2 DEF Counted
<1>4. bucket' \in [Clients -> Buckets \cup {None}]
  BY <1>1, BucketTyped DEF Counted
<1> QED
  BY <1>3, <1>4

\* The steps of a login keep the types.
LEMMA LoginKeepsTypes ==
  ASSUME TypeInv, NEW r \in Requests,
         \/ \E c \in Clients, p \in Passwords : AdmitLogin(r, c, p)
         \/ ReadRow(r) \/ ReadRowFails(r) \/ Verify(r)
         \/ CreateSession(r) \/ CreateSessionFails(r)
  PROVE  TypeInv'
<1> USE Records
<1>0. req[r] \in Sound /\ admin \in Passwords \cup {None} /\ (panel = "on" => admin # None)
  BY DEF TypeInv, TypeOK
<1>1. ASSUME NEW c \in Clients, NEW p \in Passwords, AdmitLogin(r, c, p)
      PROVE  TypeInv'
  <2>1. Asking("row", c, p, None, None, {admin}) \in Sound
    BY <1>0, <1>1, SortsAssumption DEF AdmitLogin, At, Asking, Sound, Request, PCs
  <2>2. panel = "on" /\ panel' = "on" /\ Set(r, Asking("row", c, p, None, None, {admin}))
    BY <1>1 DEF AdmitLogin, At
  <2>3. Counted(c)
    BY <1>1 DEF AdmitLogin
  <2> QED
    BY <1>1, <2>1, <2>2, <2>3, RequestTyped, Counting
       DEF AdmitLogin, RequestsTyped, TypeInv, TypeOK, account, history
<1>2. CASE ReadRow(r)
  <2>0. At(r, "row") /\ panel = "on" /\ panel' = "on" /\ req[r].client \in Clients
    BY <1>2, HasClient DEF ReadRow, At
  <2>1. Asking("verify", req[r].client, req[r].given, None, admin, req[r].during) \in Sound
    BY <1>0, <2>0, SortsAssumption DEF Asking, Sound, Request, PCs
  <2>2. Saving("count", req[r].client, NoSnap) \in Sound
    BY <2>0, Records DEF PCs
  <2>3. RequestsTyped'
    BY <1>2, <2>0, <2>1, <2>2, RequestTyped DEF ReadRow, To
  <2> QED
    BY <1>2, <2>3 DEF ReadRow, Works, RequestsTyped, TypeInv, TypeOK, limiter, account, history
<1>3. CASE ReadRowFails(r)
  <2>1. RequestsTyped'
    BY <1>3, RequestTyped DEF ReadRowFails, At
  <2>2. faults' \in 0 .. MaxFaults
    BY <1>3, Faulting DEF ReadRowFails
  <2> QED
    BY <1>3, <2>1, <2>2 DEF ReadRowFails, RequestsTyped, TypeInv, TypeOK, limiter, account, history
<1>4. CASE Verify(r)
  <2>0. At(r, "verify") /\ panel = "on" /\ panel' = "on" /\ req[r].client \in Clients
    BY <1>4, HasClient DEF Verify, At
  <2>1. Saving("count", req[r].client, NoSnap) \in Sound
    BY <2>0, Records DEF PCs
  <2>2. CASE Go(r, "session")
    <3>1. RequestsTyped'
      BY <2>0, <2>2, GoTyped DEF At, PCs
    <3> QED
      BY <1>4, <3>1 DEF Verify, RequestsTyped, TypeInv, TypeOK, limiter, account, bounds, history
  <2>3. CASE To(r, "count")
    <3>1. RequestsTyped'
      BY <2>0, <2>1, <2>3, RequestTyped DEF To
    <3> QED
      BY <1>4, <3>1 DEF Verify, RequestsTyped, TypeInv, TypeOK, limiter, account, bounds, history
  <2> QED
    BY <1>4, <2>2, <2>3 DEF Verify
<1>5. CASE CreateSession(r)
  <2>0. At(r, "session") /\ panel = "on" /\ panel' = "on" /\ req[r].client \in Clients
    BY <1>5, HasClient DEF CreateSession, At
  <2>1. Saving("reset", req[r].client, NoSnap) \in Sound
    BY <2>0, Records DEF PCs
  <2>2. RequestsTyped'
    BY <1>5, <2>0, <2>1, RequestTyped DEF CreateSession, To
  <2>3. rows' \in [Sessions -> 0 .. SessionTTL \cup {None}]
    BY <1>5, LimitsAssumption DEF CreateSession, TypeInv, TypeOK
  <2> QED
    BY <1>5, <2>2, <2>3 DEF CreateSession, Works, RequestsTyped, TypeInv, TypeOK, limiter, history
<1>6. CASE CreateSessionFails(r)
  <2>1. RequestsTyped'
    BY <1>6, RequestTyped DEF CreateSessionFails, At
  <2>2. faults' \in 0 .. MaxFaults
    BY <1>6, Faulting DEF CreateSessionFails
  <2> QED
    BY <1>6, <2>1, <2>2 DEF CreateSessionFails, RequestsTyped, TypeInv, TypeOK, limiter, account, history
<1> QED
  BY <1>1, <1>2, <1>3, <1>4, <1>5, <1>6

\* So do the steps that record the outcome.
LEMMA RecordKeepsTypes ==
  ASSUME TypeInv, NEW r \in Requests, RecordLoginFail(r) \/ RecordLoginSuccess(r)
  PROVE  TypeInv'
<1> USE Records
<1>0. /\ panel = "on" /\ panel' = "on" /\ req[r].client \in Clients
      /\ guesses \in [Clients -> Nat] /\ bucket \in [Clients -> Buckets \cup {None}]
  <2>1. panel = "on" /\ panel' = "on" /\ req[r].pc \in {"count", "reset"}
    BY DEF RecordLoginFail, RecordLoginSuccess, Record, At
  <2> QED
    BY <2>1, HasClient DEF TypeInv, TypeOK
<1>1. ASSUME NEW b \in Buckets, Record(r, b), guesses' \in [Clients -> Nat]
      PROVE  TypeInv'
  <2>1. [NoSnap EXCEPT ![req[r].client] = b] \in [Clients -> Buckets]
    OBVIOUS
  <2>2. Saving("persist", req[r].client, [NoSnap EXCEPT ![req[r].client] = b]) \in Sound
    BY <1>0, <2>1 DEF PCs
  <2>3. RequestsTyped'
    BY <1>0, <1>1, <2>2, RequestTyped DEF Record
  <2>4. bucket' \in [Clients -> Buckets \cup {None}]
    BY <1>0, <1>1 DEF Record
  <2>5. inTurn' \in BOOLEAN
    BY <1>1 DEF Record
  <2> QED
    BY <1>1, <2>3, <2>4, <2>5 DEF Record, RequestsTyped, TypeInv, TypeOK, account, bounds
<1>2. CASE RecordLoginFail(r)
  <2>1. RecordFail(GetBucket(req[r].client)) \in Buckets
    BY <1>0, BucketTyped, BucketSteps
  <2>2. guesses' \in [Clients -> Nat]
    BY <1>0, <1>2 DEF RecordLoginFail
  <2> QED
    BY <1>1, <1>2, <2>1, <2>2 DEF RecordLoginFail
<1>3. CASE RecordLoginSuccess(r)
  <2>1. guesses' \in [Clients -> Nat]
    BY <1>0, <1>3 DEF RecordLoginSuccess
  <2> QED
    BY <1>1, <1>3, <2>1 DEF RecordLoginSuccess
<1> QED
  BY <1>2, <1>3

\* So do the steps that save it.
LEMMA SaveKeepsTypes ==
  ASSUME TypeInv, NEW r \in Requests,
         Persist(r) \/ Copy(r) \/ SaveToDisk(r) \/ SaveToDiskFails(r)
  PROVE  TypeInv'
<1> USE Records
<1>0. /\ panel = "on" /\ panel' = "on" /\ req[r].client \in Clients
      /\ req[r].pc \in {"persist", "copy", "write"} /\ req[r].snap \in [Clients -> Buckets]
  <2>1. panel = "on" /\ panel' = "on" /\ req[r].pc \in {"persist", "copy", "write"}
    BY DEF Persist, Copy, SaveToDisk, SaveToDiskFails, At
  <2> QED
    BY <2>1, HasClient DEF TypeInv, TypeOK, Request
<1>1. CASE Persist(r)
  <2>1. RequestsTyped'
    BY <1>0, <1>1, GoTyped DEF Persist, PCs
  <2>2. persist' \in [Clients -> Buckets]
    BY <1>0, <1>1 DEF Persist, TypeInv, TypeOK
  <2> QED
    BY <1>1, <2>1, <2>2 DEF Persist, RequestsTyped, TypeInv, TypeOK, account, bounds, history
<1>2. CASE Copy(r)
  <2>1. Saving("write", req[r].client, persist) \in Sound
    BY <1>0 DEF TypeInv, TypeOK, PCs
  <2>2. RequestsTyped'
    BY <1>0, <1>2, <2>1, RequestTyped DEF Copy
  <2> QED
    BY <1>2, <2>2 DEF Copy, RequestsTyped, TypeInv, TypeOK, limiter, account, bounds, history
<1>3. CASE SaveToDisk(r)
  <2>1. RequestsTyped'
    BY <1>0, <1>3, RequestTyped DEF SaveToDisk
  <2> QED
    BY <1>0, <1>3, <2>1
       DEF SaveToDisk, Works, RequestsTyped, TypeInv, TypeOK, limiter, account, history
<1>4. CASE SaveToDiskFails(r)
  <2>1. RequestsTyped' /\ faults' \in 0 .. MaxFaults
    BY <1>0, <1>4, RequestTyped, Faulting DEF SaveToDiskFails
  <2> QED
    BY <1>4, <2>1 DEF SaveToDiskFails, RequestsTyped, TypeInv, TypeOK, limiter, account
<1> QED
  BY <1>1, <1>2, <1>3, <1>4

\* So do the steps of a password change; the others only remember more.
LEMMA ChangeKeepsTypes ==
  ASSUME TypeInv, NEW r \in Requests, ChangeStep(r)
  PROVE  TypeInv'
<1> USE Records
<1>0. req[r] \in Sound /\ admin \in Passwords \cup {None} /\ (panel = "on" => admin # None)
  BY DEF TypeInv, TypeOK
<1>1. ASSUME NEW c \in Clients, NEW p \in Passwords, NEW q \in Passwords, AdmitChange(r, c, p, q)
      PROVE  TypeInv'
  <2>1. Asking("old", c, p, q, admin, {admin}) \in Sound
    BY <1>0, <1>1, SortsAssumption, NamesAssumption DEF AdmitChange, At, Asking, Sound, Request, PCs
  <2>2. RequestsTyped'
    BY <1>1, <2>1, RequestTyped DEF AdmitChange, At
  <2>3. Counted(c)
    BY <1>1 DEF AdmitChange
  <2> QED
    BY <1>1, <2>2, <2>3, Counting DEF AdmitChange, RequestsTyped, TypeInv, TypeOK, account, history
<1>2. CASE VerifyOld(r)
  <2>0. panel = "on" /\ panel' = "on" /\ req[r].pc = "old"
    BY <1>2 DEF VerifyOld, At
  <2>1. CASE Go(r, "change")
    BY <1>2, <2>0, <2>1, GoTyped
       DEF PCs, VerifyOld, RequestsTyped, TypeInv, TypeOK, limiter, account, bounds, history
  <2>2. CASE Set(r, Idle)
    BY <1>2, <2>0, <2>2, RequestTyped
       DEF VerifyOld, RequestsTyped, TypeInv, TypeOK, limiter, account, bounds, history
  <2> QED
    BY <1>2, <2>1, <2>2 DEF VerifyOld
<1>3. CASE UpdateAdminPassword(r)
  <2>0. panel = "on" /\ panel' = "on" /\ req[r].new \in Passwords
    BY <1>0, <1>3 DEF UpdateAdminPassword, At, Sound, Request
  <2>1. ASSUME NEW q \in Requests
        PROVE  Seen(req[q], req[r].new) \in Sound
    <3>1. req[q] \in Sound
      BY DEF TypeInv
    <3>2. [req[q] EXCEPT !.during = @ \cup {req[r].new}] \in Sound
      BY <2>0, <3>1 DEF Sound, Request
    <3> QED
      BY <3>1, <3>2 DEF Seen
  <2>2. req' \in [Requests -> Sound]
    BY <1>3, <2>1 DEF UpdateAdminPassword
  <2>3. RequestsTyped'
    BY <2>0, <2>2 DEF RequestsTyped, OnlyServing, Sound
  <2>4. admin' \in Passwords \cup {None} /\ admin' # None
    BY <1>3, <2>0, NamesAssumption DEF UpdateAdminPassword
  <2> QED
    BY <1>3, <2>3, <2>4 DEF UpdateAdminPassword, Works, RequestsTyped, TypeInv, TypeOK, limiter
<1>4. CASE UpdateAdminPasswordFails(r)
  <2>1. RequestsTyped' /\ faults' \in 0 .. MaxFaults
    BY <1>4, RequestTyped, Faulting DEF UpdateAdminPasswordFails, At
  <2> QED
    BY <1>4, <2>1 DEF UpdateAdminPasswordFails, RequestsTyped, TypeInv, TypeOK, limiter, account, history
<1>5. CASE ClearInitialPasswordFile(r)
  <2>1. RequestsTyped'
    BY <1>5, RequestTyped DEF ClearInitialPasswordFile, At
  <2> QED
    BY <1>5, <2>1 DEF ClearInitialPasswordFile, Works, RequestsTyped, TypeInv, TypeOK, limiter, history
<1>6. CASE ClearInitialPasswordFileFails(r)
  <2>1. RequestsTyped' /\ faults' \in 0 .. MaxFaults
    BY <1>6, RequestTyped, Faulting DEF ClearInitialPasswordFileFails, At
  <2> QED
    BY <1>6, <2>1 DEF ClearInitialPasswordFileFails, RequestsTyped, TypeInv, TypeOK, limiter, account
<1> QED
  BY <1>1, <1>2, <1>3, <1>4, <1>5, <1>6 DEF ChangeStep

\* So does the end of a session, and a tick.
LEMMA TimeKeepsTypes ==
  ASSUME TypeInv, (\E s \in Sessions : Logout(s)) \/ DeleteExpiredSessions \/ Tick
  PROVE  TypeInv'
<1>0. /\ rows \in [Sessions -> 0 .. SessionTTL \cup {None}] /\ None \notin Nat
      /\ SessionTTL \in Nat /\ PostLimit \in Nat /\ ticks \in 0 .. MaxTicks /\ MaxTicks \in Nat
  BY NamesAssumption, LimitsAssumption, BoundsAssumption DEF TypeInv, TypeOK
<1>1. ASSUME NEW s \in Sessions, Logout(s)
      PROVE  TypeInv'
  <2>1. rows' \in [Sessions -> 0 .. SessionTTL \cup {None}]
    BY <1>0, <1>1 DEF Logout
  <2> QED
    BY <1>1, <2>1 DEF Logout, TypeInv, TypeOK, OnlyServing, limiter, bounds, history
<1>2. CASE DeleteExpiredSessions
  <2>1. rows' \in [Sessions -> 0 .. SessionTTL \cup {None}]
    BY <1>0, <1>2 DEF DeleteExpiredSessions
  <2> QED
    BY <1>2, <2>1 DEF DeleteExpiredSessions, TypeInv, TypeOK, OnlyServing, limiter, bounds, history
<1>3. CASE Tick
  <2>1. /\ bucket' \in [Clients -> Buckets \cup {None}]
        /\ persist' \in [Clients -> Buckets] /\ disk' \in [Clients -> Buckets]
    BY <1>3, BucketSteps DEF Tick, TypeInv, TypeOK
  <2>2. ASSUME NEW r \in Requests
        PROVE  [req[r] EXCEPT !.snap = OlderAll(@)] \in Sound
    <3>1. req[r] \in Sound /\ OlderAll(req[r].snap) \in [Clients -> Buckets]
      BY BucketSteps DEF TypeInv, Sound, Request
    <3> QED
      BY <3>1 DEF Sound, Request
  <2>3. req' \in [Requests -> Sound]
    BY <1>3, <2>2 DEF Tick
  <2>4. ASSUME NEW r \in Requests
        PROVE  req'[r].pc = req[r].pc
    <3>1. req[r] \in Sound
      BY DEF TypeInv
    <3> QED
      BY <1>3, <3>1 DEF Tick, Sound, Request
  <2>5. RequestsTyped'
    BY <1>3, <2>3, <2>4 DEF Tick, TypeInv, RequestsTyped, OnlyServing, Sound
  <2>6. ASSUME NEW s \in Sessions
        PROVE  (IF rows[s] = None THEN None ELSE Less(rows[s])) \in 0 .. SessionTTL \cup {None}
    BY <1>0 DEF Less
  <2>7. rows' \in [Sessions -> 0 .. SessionTTL \cup {None}]
    BY <1>3, <2>6 DEF Tick
  <2>8. /\ posts' \in [Clients -> 0 .. PostLimit] /\ guesses' \in [Clients -> Nat]
        /\ ticks' \in 0 .. MaxTicks
    BY <1>0, <1>3 DEF Tick
  <2> QED
    BY <1>3, <2>1, <2>5, <2>7, <2>8 DEF Tick, RequestsTyped, TypeInv, TypeOK
<1> QED
  BY <1>1, <1>2, <1>3

\* So do a crash and a start.
LEMMA BootKeepsTypes ==
  ASSUME TypeInv, Crash \/ Boot
  PROVE  TypeInv'
<1> USE Records
<1>1. CASE Crash
  <2>1. RequestsTyped'
    BY <1>1 DEF Crash, RequestsTyped, OnlyServing, Sound
  <2>2. faults' \in 0 .. MaxFaults
    BY <1>1, Faulting DEF Crash
  <2>3. /\ bucket' \in [Clients -> Buckets \cup {None}]
        /\ posts' \in [Clients -> 0 .. PostLimit]
    BY <1>1, LimitsAssumption DEF Crash
  <2>4. inTurn' \in BOOLEAN /\ strayed' \in BOOLEAN
    BY <1>1 DEF Crash
  <2> QED
    BY <1>1, <2>1, <2>2, <2>3, <2>4 DEF Crash, RequestsTyped, TypeInv, TypeOK, account
<1>2. CASE EnsureDefaultAdmin
  <2>1. admin' \in Passwords \cup {None} /\ admin' # None
    BY <1>2, NamesAssumption DEF EnsureDefaultAdmin
  <2> QED
    BY <1>2, <2>1 DEF EnsureDefaultAdmin, TypeInv, TypeOK, OnlyServing, limiter, bounds, history
<1>3. CASE WriteInitialPassword
  BY <1>3 DEF WriteInitialPassword, Works, NewRateLimiter, TypeInv, TypeOK, OnlyServing, history
<1>4. CASE WriteInitialPasswordFails
  <2>1. faults' \in 0 .. MaxFaults
    BY <1>4, Faulting DEF WriteInitialPasswordFails
  <2> QED
    BY <1>4, <2>1
       DEF WriteInitialPasswordFails, NewRateLimiter, TypeInv, TypeOK, OnlyServing, account
<1>5. CASE Start
  BY <1>5 DEF Start, NewRateLimiter, TypeInv, TypeOK, OnlyServing, account, bounds, history
<1> QED
  BY <1>1, <1>2, <1>3, <1>4, <1>5 DEF Boot

\* The first state is well typed.
LEMMA InitTyped ==
  ASSUME Init
  PROVE  TypeInv
<1> USE Records
<1>1. req \in [Requests -> Sound] /\ req \in [Requests -> Request] /\ OnlyServing
  BY DEF Init, OnlyServing, Sound
<1>2. \A r \in Requests : req[r].pc \notin {"idle", "clear"} => req[r].client # None
  BY <1>1 DEF Sound
<1>3. posts \in [Clients -> 0 .. PostLimit] /\ guesses \in [Clients -> Nat]
  BY LimitsAssumption DEF Init
<1>4. /\ bucket \in [Clients -> Buckets \cup {None}] /\ persist \in [Clients -> Buckets]
      /\ disk \in [Clients -> Buckets] /\ rows \in [Sessions -> 0 .. SessionTTL \cup {None}]
  BY DEF Init, NoSnap
<1>5. arrivals \in 0 .. MaxArrivals /\ ticks \in 0 .. MaxTicks /\ faults \in 0 .. MaxFaults
  BY BoundsAssumption DEF Init
<1> QED
  BY <1>1, <1>2, <1>3, <1>4, <1>5 DEF Init, TypeInv, TypeOK

\* Login.TypeOK holds: every variable has its type, and a request under way
\* its client, whatever the handlers of handlers_auth.go, handlers_account.go,
\* the limiter of ratelimit.go and the start of the panel do.
THEOREM TypesHold == Spec => []TypeInv
<1>1. Init => TypeInv
  BY InitTyped
<1>2. TypeInv /\ [Next]_vars => TypeInv'
  <2> SUFFICES ASSUME TypeInv, [Next]_vars
               PROVE  TypeInv'
    OBVIOUS
  <2>1. ASSUME NEW r \in Requests, LoginStep(r)
        PROVE  TypeInv'
    BY <2>1, LoginKeepsTypes, RecordKeepsTypes, SaveKeepsTypes DEF LoginStep
  <2>2. CASE UNCHANGED vars
    BY <2>2 DEF vars, limiter, account, bounds, history, TypeInv, TypeOK, OnlyServing
  <2> QED
    BY <2>1, <2>2, ChangeKeepsTypes, TimeKeepsTypes, BootKeepsTypes DEF Next
<1> QED
  BY <1>1, <1>2, PTL DEF Spec

\* The type invariant that the run checks.
THEOREM TypeOKHolds == Spec => []TypeOK
<1>1. TypeInv => TypeOK
  BY DEF TypeInv
<1> QED
  BY <1>1, TypesHold, PTL

-----------------------------------------------------------------------------
(* Proofs: what a step does to the requests. *)

\* A step changes one request.
Only(r, w) == req'[r] = w /\ \A q \in Requests \ {r} : req'[q] = req[q]

\* A step moves one request, which keeps what it has.
Moved(r, pc) ==
    /\ \A q \in Requests \ {r} : req'[q] = req[q]
    /\ req'[r].pc = pc /\ req'[r].client = req[r].client /\ req'[r].given = req[r].given
    /\ req'[r].new = req[r].new /\ req'[r].seen = req[r].seen
    /\ req'[r].snap = req[r].snap /\ req'[r].during = req[r].during

\* Setting a request changes it and no other.
LEMMA Moves ==
  ASSUME TypeInv, NEW r \in Requests
  PROVE  /\ \A w : Set(r, w) => Only(r, w)
         /\ \A pc : Go(r, pc) => Moved(r, pc)
<1>1. req \in [Requests -> Sound]
  BY DEF TypeInv
<1>2. \A w : Set(r, w) => Only(r, w)
  BY <1>1 DEF Set, Only
<1>3. ASSUME NEW pc, Go(r, pc)
      PROVE  Moved(r, pc)
  <2>1. Only(r, [req[r] EXCEPT !.pc = pc])
    BY <1>2, <1>3 DEF Go
  <2>2. req[r] \in Sound
    BY <1>1
  <2> QED
    BY <2>1, <2>2 DEF Only, Moved, Sound, Request
<1> QED
  BY <1>2, <1>3

\* A tick ages the snapshots of the requests and nothing else of them.
LEMMA TickMoves ==
  ASSUME TypeInv, Tick, NEW r \in Requests
  PROVE  /\ req'[r].pc = req[r].pc /\ req'[r].client = req[r].client
         /\ req'[r].given = req[r].given /\ req'[r].seen = req[r].seen
         /\ req'[r].during = req[r].during /\ req'[r].snap = OlderAll(req[r].snap)
<1>1. req[r] \in Sound
  BY DEF TypeInv
<1>2. req'[r] = [req[r] EXCEPT !.snap = OlderAll(@)]
  BY DEF Tick
<1> QED
  BY <1>1, <1>2 DEF Sound, Request

\* A new password makes the request that sets it one that removes the file,
\* and the others remember it.
LEMMA UpdateMoves ==
  ASSUME TypeInv, NEW r \in Requests, UpdateAdminPassword(r)
  PROVE  /\ req'[r] = Saving("clear", None, NoSnap)
         /\ \A q \in Requests \ {r} :
              /\ req'[q].pc = req[q].pc /\ req'[q].client = req[q].client
              /\ req'[q].given = req[q].given /\ req'[q].seen = req[q].seen
              /\ req'[q].snap = req[q].snap
              /\ req[q].pc # "idle" => req'[q].during = req[q].during \cup {req[r].new}
<1>1. req'[r] = Saving("clear", None, NoSnap)
  BY DEF UpdateAdminPassword
<1>2. ASSUME NEW q \in Requests \ {r}
      PROVE  /\ req'[q].pc = req[q].pc /\ req'[q].client = req[q].client
             /\ req'[q].given = req[q].given /\ req'[q].seen = req[q].seen
             /\ req'[q].snap = req[q].snap
             /\ req[q].pc # "idle" => req'[q].during = req[q].during \cup {req[r].new}
  <2>1. req[q] \in Sound
    BY DEF TypeInv
  <2>2. req'[q] = Seen(req[q], req[r].new)
    BY <1>2 DEF UpdateAdminPassword
  <2>3. CASE req[q].pc = "idle"
    BY <2>2, <2>3 DEF Seen
  <2>4. CASE req[q].pc # "idle"
    <3>1. req'[q] = [req[q] EXCEPT !.during = @ \cup {req[r].new}]
      BY <2>2, <2>4 DEF Seen
    <3> QED
      BY <2>1, <3>1 DEF Sound, Request
  <2> QED
    BY <2>3, <2>4
<1> QED
  BY <1>1, <1>2

\* Where each step of a request leaves it.
LEMMA Effects ==
  ASSUME TypeInv, NEW r \in Requests
  PROVE  /\ \A c \in Clients, p \in Passwords :
              AdmitLogin(r, c, p) => Only(r, Asking("row", c, p, None, None, {admin}))
         /\ \A c \in Clients, p, q \in Passwords :
              AdmitChange(r, c, p, q) => Only(r, Asking("old", c, p, q, admin, {admin}))
         /\ ReadRow(r) =>
              \/ Only(r, Asking("verify", req[r].client, req[r].given, None, admin, req[r].during))
              \/ Only(r, Saving("count", req[r].client, NoSnap))
         /\ Verify(r) => \/ Moved(r, "session") /\ req[r].given = req[r].seen
                         \/ Only(r, Saving("count", req[r].client, NoSnap))
         /\ CreateSession(r) => Only(r, Saving("reset", req[r].client, NoSnap))
         /\ \A b : Record(r, b) =>
              Only(r, Saving("persist", req[r].client, [NoSnap EXCEPT ![req[r].client] = b]))
         /\ Persist(r) => Moved(r, "copy")
         /\ Copy(r) => Only(r, Saving("write", req[r].client, persist))
         /\ VerifyOld(r) => Moved(r, "change") \/ Only(r, Idle)
         /\ \/ ReadRowFails(r) \/ CreateSessionFails(r) \/ SaveToDisk(r) \/ SaveToDiskFails(r)
            \/ UpdateAdminPasswordFails(r)
            \/ ClearInitialPasswordFile(r) \/ ClearInitialPasswordFileFails(r)
            => Only(r, Idle)
<1> USE Moves
<1>1. ASSUME NEW c \in Clients, NEW p \in Passwords, AdmitLogin(r, c, p)
      PROVE  Only(r, Asking("row", c, p, None, None, {admin}))
  BY <1>1 DEF AdmitLogin
<1>2. ASSUME NEW c \in Clients, NEW p \in Passwords, NEW q \in Passwords, AdmitChange(r, c, p, q)
      PROVE  Only(r, Asking("old", c, p, q, admin, {admin}))
  BY <1>2 DEF AdmitChange
<1>3. ReadRow(r) =>
        \/ Only(r, Asking("verify", req[r].client, req[r].given, None, admin, req[r].during))
        \/ Only(r, Saving("count", req[r].client, NoSnap))
  BY DEF ReadRow, To
<1>4. Verify(r) => \/ Moved(r, "session") /\ req[r].given = req[r].seen
                   \/ Only(r, Saving("count", req[r].client, NoSnap))
  BY DEF Verify, To
<1>5. CreateSession(r) => Only(r, Saving("reset", req[r].client, NoSnap))
  BY DEF CreateSession, To
<1>6. ASSUME NEW b, Record(r, b)
      PROVE  Only(r, Saving("persist", req[r].client, [NoSnap EXCEPT ![req[r].client] = b]))
  BY <1>6 DEF Record
<1>7. Persist(r) => Moved(r, "copy")
  BY DEF Persist
<1>8. Copy(r) => Only(r, Saving("write", req[r].client, persist))
  BY DEF Copy
<1>9. VerifyOld(r) => Moved(r, "change") \/ Only(r, Idle)
  BY DEF VerifyOld
<1>10. ReadRowFails(r) \/ CreateSessionFails(r) \/ SaveToDisk(r) \/ SaveToDiskFails(r) => Only(r, Idle)
  BY DEF ReadRowFails, CreateSessionFails, SaveToDisk, SaveToDiskFails
<1>11. \/ UpdateAdminPasswordFails(r)
       \/ ClearInitialPasswordFile(r) \/ ClearInitialPasswordFileFails(r)
       => Only(r, Idle)
  BY DEF UpdateAdminPasswordFails, ClearInitialPasswordFile, ClearInitialPasswordFileFails
<1> QED
  BY <1>1, <1>2, <1>3, <1>4, <1>5, <1>6, <1>7, <1>8, <1>9, <1>10, <1>11

-----------------------------------------------------------------------------
(* Proofs: sessions. *)

\* A request that earns what it has, in place of one, keeps them earning.
LEMMA StaysEarned ==
  ASSUME Earning, admin' = admin, NEW r \in Requests, NEW w, Only(r, w), Earned(w)
  PROVE  Earning'
BY DEF Earning, Earned, Only

\* A request to save, or none, earns nothing.
LEMMA NothingToEarn ==
  ASSUME NEW pc \in PCs \ {"row", "verify", "session"}
  PROVE  \A c, f : Earned(Saving(pc, c, f))
BY DEF Earned, Saving

\* Every step keeps the requests earning.
LEMMA EarningKept ==
  ASSUME TypeInv, Earning, [Next]_vars
  PROVE  Earning'
<1>1. ASSUME NEW r \in Requests, NEW c \in Clients, NEW p \in Passwords, AdmitLogin(r, c, p)
      PROVE  Earning'
  <2>1. Only(r, Asking("row", c, p, None, None, {admin}))
    BY <1>1, Effects
  <2>2. Earned(Asking("row", c, p, None, None, {admin})) /\ admin' = admin
    BY <1>1 DEF Earned, Asking, AdmitLogin, account
  <2> QED
    BY <2>1, <2>2, StaysEarned
<1>2. ASSUME NEW r \in Requests, ReadRow(r)
      PROVE  Earning'
  <2>0. req[r].pc = "row" /\ Earned(req[r]) /\ admin' = admin
    BY <1>2 DEF ReadRow, At, Earning, account
  <2>1. Earned(Asking("verify", req[r].client, req[r].given, None, admin, req[r].during))
    BY <2>0 DEF Earned, Asking
  <2>2. Earned(Saving("count", req[r].client, NoSnap))
    BY NothingToEarn DEF PCs
  <2>3. \/ Only(r, Asking("verify", req[r].client, req[r].given, None, admin, req[r].during))
        \/ Only(r, Saving("count", req[r].client, NoSnap))
    BY <1>2, Effects
  <2> QED
    BY <2>0, <2>1, <2>2, <2>3, StaysEarned
<1>3. ASSUME NEW r \in Requests, Verify(r)
      PROVE  Earning'
  <2>0. req[r].pc = "verify" /\ Earned(req[r]) /\ admin' = admin
    BY <1>3 DEF Verify, At, Earning, account
  <2>1. Earned(Saving("count", req[r].client, NoSnap))
    BY NothingToEarn DEF PCs
  <2>2. CASE Moved(r, "session") /\ req[r].given = req[r].seen
    BY <2>0, <2>2 DEF Moved, Earned, Earning
  <2>3. \/ Moved(r, "session") /\ req[r].given = req[r].seen
        \/ Only(r, Saving("count", req[r].client, NoSnap))
    BY <1>3, Effects
  <2> QED
    BY <2>0, <2>1, <2>2, <2>3, StaysEarned
<1>4. ASSUME NEW r \in Requests, CreateSession(r)
      PROVE  Earning'
  <2>1. Only(r, Saving("reset", req[r].client, NoSnap)) /\ admin' = admin
    BY <1>4, Effects DEF CreateSession
  <2> QED
    BY <2>1, NothingToEarn, StaysEarned DEF PCs
<1>5. ASSUME NEW r \in Requests, NEW b, Record(r, b)
      PROVE  Earning'
  <2>1. Only(r, Saving("persist", req[r].client, [NoSnap EXCEPT ![req[r].client] = b]))
    BY <1>5, Effects
  <2>2. admin' = admin
    BY <1>5 DEF Record, account
  <2> QED
    BY <2>1, <2>2, NothingToEarn, StaysEarned DEF PCs
<1>6. ASSUME NEW r \in Requests, Persist(r)
      PROVE  Earning'
  <2>1. Moved(r, "copy") /\ admin' = admin
    BY <1>6, Effects DEF Persist, account
  <2> QED
    BY <2>1 DEF Moved, Earning, Earned
<1>7. ASSUME NEW r \in Requests, Copy(r)
      PROVE  Earning'
  <2>1. Only(r, Saving("write", req[r].client, persist)) /\ admin' = admin
    BY <1>7, Effects DEF Copy, account
  <2> QED
    BY <2>1, NothingToEarn, StaysEarned DEF PCs
<1>8. ASSUME NEW r \in Requests, NEW c \in Clients, NEW p \in Passwords, NEW q \in Passwords,
             AdmitChange(r, c, p, q)
      PROVE  Earning'
  <2>1. Only(r, Asking("old", c, p, q, admin, {admin})) /\ admin' = admin
    BY <1>8, Effects DEF AdmitChange, account
  <2>2. Earned(Asking("old", c, p, q, admin, {admin}))
    BY DEF Earned, Asking
  <2> QED
    BY <2>1, <2>2, StaysEarned
<1>9. ASSUME NEW r \in Requests, VerifyOld(r)
      PROVE  Earning'
  <2>1. Moved(r, "change") \/ Only(r, Idle)
    BY <1>9, Effects
  <2>2. admin' = admin
    BY <1>9 DEF VerifyOld, account
  <2>3. CASE Moved(r, "change")
    BY <2>2, <2>3 DEF Moved, Earning, Earned
  <2> QED
    BY <2>1, <2>2, <2>3, NothingToEarn, StaysEarned DEF Idle, PCs
<1>10. ASSUME NEW r \in Requests, UpdateAdminPassword(r)
       PROVE  Earning'
  <2>1. admin' = req[r].new
    BY <1>10 DEF UpdateAdminPassword
  <2>2. ASSUME NEW q \in Requests \ {r}
        PROVE  Earned(req[q])'
    BY <1>10, <2>1, <2>2, UpdateMoves DEF Earning, Earned
  <2>3. Earned(req[r])'
    BY <1>10, UpdateMoves DEF Earned, Saving
  <2> QED
    BY <2>2, <2>3 DEF Earning
<1>11. ASSUME NEW r \in Requests,
              \/ ReadRowFails(r) \/ CreateSessionFails(r) \/ SaveToDisk(r) \/ SaveToDiskFails(r)
              \/ UpdateAdminPasswordFails(r)
              \/ ClearInitialPasswordFile(r) \/ ClearInitialPasswordFileFails(r)
       PROVE  Earning'
  <2>1. Only(r, Idle)
    BY <1>11, Effects
  <2>2. admin' = admin
    BY <1>11 DEF ReadRowFails, CreateSessionFails, SaveToDisk, SaveToDiskFails,
                 UpdateAdminPasswordFails, ClearInitialPasswordFile,
                 ClearInitialPasswordFileFails, account
  <2> QED
    BY <2>1, <2>2, NothingToEarn, StaysEarned DEF Idle, PCs
<1>12. CASE Tick
  BY <1>12, TickMoves DEF Tick, Earning, Earned
<1>13. CASE (\E s \in Sessions : Logout(s)) \/ DeleteExpiredSessions \/ UNCHANGED vars
  BY <1>13 DEF Logout, DeleteExpiredSessions, vars, account, Earning, Earned
<1>14. CASE Crash
  BY <1>14 DEF Crash, Earning, Earned, Idle, Saving
<1>15. CASE Boot
  <2>1. req' = req
    BY <1>15 DEF Boot, EnsureDefaultAdmin, WriteInitialPassword, WriteInitialPasswordFails, Start
  <2>2. CASE EnsureDefaultAdmin
    <3>1. \A r \in Requests : req[r].pc = "idle"
      BY <2>2 DEF EnsureDefaultAdmin, TypeInv, OnlyServing
    <3> QED
      BY <2>1, <3>1 DEF Earning, Earned
  <2>3. CASE WriteInitialPassword \/ WriteInitialPasswordFails \/ Start
    BY <2>1, <2>3 DEF WriteInitialPassword, WriteInitialPasswordFails, Start, account,
                      Earning, Earned
  <2> QED
    BY <1>15, <2>2, <2>3 DEF Boot
<1> QED
  BY <1>1, <1>2, <1>3, <1>4, <1>5, <1>6, <1>7, <1>8, <1>9, <1>10, <1>11, <1>12, <1>13, <1>14,
     <1>15 DEF Next, LoginStep, ChangeStep, RecordLoginFail, RecordLoginSuccess

\* Login.SessionsAreEarned: a session is opened only by a request that gave a
\* password that was the administrator's while it ran, though handleLogin
\* reads the row, compares and inserts in steps of their own.
THEOREM SessionsAreEarnedHolds == Spec => SessionsAreEarned
<1>1. Init => Earning
  BY DEF Init, Earning, Earned, Idle, Saving
<1>2. TypeInv /\ Earning /\ [Next]_vars => Earning'
  BY EarningKept
<1>3. Earning => \A r \in Requests : req[r].pc = "session" /\ req'[r].pc = "reset" =>
                                       req[r].given \in req[r].during
  BY DEF Earning, Earned
<1> QED
  BY <1>1, <1>2, <1>3, TypesHold, PTL DEF Spec, SessionsAreEarned

-----------------------------------------------------------------------------
(* Proofs: the initial password. *)

\* The invariant reads nothing else.
LEMMA BannerFrame ==
  ASSUME BannerInv, Clearing' <=> Clearing, UNCHANGED <<admin, initFile, panel, changed, strayed>>
  PROVE  BannerInv'
BY DEF BannerInv

\* A step of a request that is not removing the file, nor starts to.
LEMMA OnlyKeepsClearing ==
  ASSUME NEW r \in Requests, NEW w, Only(r, w), w.pc # "clear", req[r].pc # "clear"
  PROVE  Clearing' <=> Clearing
BY DEF Only, Clearing

\* So it is for a step from one place to another.
LEMMA MovedKeepsClearing ==
  ASSUME NEW r \in Requests, NEW pc, Moved(r, pc), pc # "clear", req[r].pc # "clear"
  PROVE  Clearing' <=> Clearing
BY DEF Moved, Clearing

\* The steps of a login leave the banner alone.
LEMMA LoginKeepsBanner ==
  ASSUME TypeInv, BannerInv, NEW r \in Requests, LoginStep(r)
  PROVE  BannerInv'
<1>1. UNCHANGED <<admin, initFile, panel, changed, strayed>> /\ req[r].pc # "clear"
  BY DEF LoginStep, AdmitLogin, ReadRow, ReadRowFails, Verify, CreateSession, CreateSessionFails,
         RecordLoginFail, RecordLoginSuccess, Record, Persist, Copy, SaveToDisk, SaveToDiskFails,
         account, history, At
<1>2. ASSUME NEW c \in Clients, NEW p \in Passwords, AdmitLogin(r, c, p)
      PROVE  Clearing' <=> Clearing
  <2>1. Only(r, Asking("row", c, p, None, None, {admin}))
    BY <1>2, Effects
  <2> QED
    BY <1>1, <2>1, OnlyKeepsClearing DEF Asking
<1>3. ASSUME NEW w, Only(r, w), w.pc # "clear"
      PROVE  Clearing' <=> Clearing
  BY <1>1, <1>3, OnlyKeepsClearing
<1>4. ReadRow(r) \/ Verify(r) => (Clearing' <=> Clearing)
  <2>1. \/ Only(r, Asking("verify", req[r].client, req[r].given, None, admin, req[r].during))
        \/ Only(r, Saving("count", req[r].client, NoSnap))
        \/ Moved(r, "session")
        => (Clearing' <=> Clearing)
    BY <1>1, <1>3, MovedKeepsClearing DEF Asking, Saving
  <2> QED
    BY <2>1, Effects
<1>5. CreateSession(r) => (Clearing' <=> Clearing)
  <2>1. Only(r, Saving("reset", req[r].client, NoSnap)) => (Clearing' <=> Clearing)
    BY <1>3 DEF Saving
  <2> QED
    BY <2>1, Effects
<1>6. ASSUME NEW b, Record(r, b)
      PROVE  Clearing' <=> Clearing
  <2>1. Only(r, Saving("persist", req[r].client, [NoSnap EXCEPT ![req[r].client] = b]))
    BY <1>6, Effects
  <2> QED
    BY <1>3, <2>1 DEF Saving
<1>7. Persist(r) \/ Copy(r) => (Clearing' <=> Clearing)
  <2>1. Only(r, Saving("write", req[r].client, persist)) \/ Moved(r, "copy")
        => (Clearing' <=> Clearing)
    BY <1>1, <1>3, MovedKeepsClearing DEF Saving
  <2> QED
    BY <2>1, Effects
<1>8. ReadRowFails(r) \/ CreateSessionFails(r) \/ SaveToDisk(r) \/ SaveToDiskFails(r)
      => (Clearing' <=> Clearing)
  <2>1. Only(r, Idle) => (Clearing' <=> Clearing)
    BY <1>3 DEF Idle, Saving
  <2> QED
    BY <2>1, Effects
<1>9. Clearing' <=> Clearing
  BY <1>2, <1>4, <1>5, <1>6, <1>7, <1>8 DEF LoginStep, RecordLoginFail, RecordLoginSuccess
<1> QED
  BY <1>1, <1>9, BannerFrame

\* A change is noted before its file goes, and the file goes before the
\* request ends, or the error is noted.
LEMMA ChangeKeepsBanner ==
  ASSUME TypeInv, BannerInv, NEW r \in Requests, ChangeStep(r)
  PROVE  BannerInv'
<1>0. panel = "on" => admin # None
  BY DEF TypeInv, TypeOK
<1>1. ASSUME NEW c \in Clients, NEW p \in Passwords, NEW q \in Passwords, AdmitChange(r, c, p, q)
      PROVE  BannerInv'
  <2>1. Only(r, Asking("old", c, p, q, admin, {admin}))
    BY <1>1, Effects
  <2>2. Clearing' <=> Clearing
    BY <1>1, <2>1, OnlyKeepsClearing DEF Asking, AdmitChange, At
  <2> QED
    BY <1>1, <2>2, BannerFrame DEF AdmitChange, account, history
<1>2. CASE VerifyOld(r)
  <2>1. Moved(r, "change") \/ Only(r, Idle)
    BY <1>2, Effects
  <2>2. req[r].pc # "clear"
    BY <1>2 DEF VerifyOld, At
  <2>3. Clearing' <=> Clearing
    BY <2>1, <2>2, OnlyKeepsClearing, MovedKeepsClearing DEF Idle, Saving
  <2> QED
    BY <1>2, <2>3, BannerFrame DEF VerifyOld, account, history
<1>3. CASE UpdateAdminPassword(r)
  <2>1. Clearing' /\ changed' /\ admin' # None /\ panel' = "on"
    <3>1. req[r] \in Sound /\ panel = "on" /\ req[r].pc = "change"
      BY <1>3 DEF TypeInv, UpdateAdminPassword, At
    <3>2. req[r].new # None
      BY <3>1 DEF Sound
    <3> QED
      BY <1>3, <3>1, <3>2, UpdateMoves DEF UpdateAdminPassword, Clearing, Saving
  <2> QED
    BY <2>1 DEF BannerInv
<1>4. CASE UpdateAdminPasswordFails(r)
  <2>1. Only(r, Idle) /\ req[r].pc # "clear"
    BY <1>4, Effects DEF UpdateAdminPasswordFails, At
  <2>2. Clearing' <=> Clearing
    BY <2>1, OnlyKeepsClearing DEF Idle, Saving
  <2> QED
    BY <1>4, <2>2, BannerFrame DEF UpdateAdminPasswordFails, account, history
<1>5. CASE ClearInitialPasswordFile(r)
  <2>1. panel = "on" /\ Clearing
    BY <1>5 DEF ClearInitialPasswordFile, At, Clearing
  <2>2. changed /\ admin # None
    BY <1>0, <2>1 DEF BannerInv
  <2>3. ~initFile' /\ UNCHANGED <<admin, panel, changed, strayed>>
    BY <1>5 DEF ClearInitialPasswordFile, history
  <2> QED
    BY <2>1, <2>2, <2>3 DEF BannerInv
<1>6. CASE ClearInitialPasswordFileFails(r)
  <2>1. Clearing /\ strayed' /\ changed' = changed
    BY <1>6 DEF ClearInitialPasswordFileFails, At, Clearing
  <2> QED
    BY <2>1 DEF BannerInv
<1> QED
  BY <1>1, <1>2, <1>3, <1>4, <1>5, <1>6 DEF ChangeStep

\* A crash beside the file is noted, and the start that makes the
\* administrator writes it.
LEMMA BootKeepsBanner ==
  ASSUME TypeInv, BannerInv, Crash \/ Boot
  PROVE  BannerInv'
<1>0. panel \in {"off", "created", "on"} /\ (panel # "off" => admin # None)
  BY DEF TypeInv, TypeOK
<1>1. CASE Crash
  <2>1. ~Clearing' /\ panel' = "off" /\ UNCHANGED <<admin, initFile, changed>>
    BY <1>1 DEF Crash, Clearing, Idle, Saving, account
  <2>2. ~strayed' => ~strayed /\ panel # "created" /\ ~Clearing
    BY <1>1 DEF Crash, Clearing
  <2>3. panel # "off"
    BY <1>1 DEF Crash
  <2> QED
    BY <1>0, <2>1, <2>2, <2>3 DEF BannerInv
<1>2. CASE Boot
  <2>1. req' = req /\ panel # "on" /\ UNCHANGED changed
    BY <1>2 DEF Boot, EnsureDefaultAdmin, WriteInitialPassword, WriteInitialPasswordFails, Start,
                history
  <2>2. ~Clearing /\ ~Clearing'
    BY <2>1 DEF TypeInv, OnlyServing, Clearing
  <2>3. CASE EnsureDefaultAdmin
    BY <2>1, <2>2, <2>3, NamesAssumption DEF EnsureDefaultAdmin, BannerInv, history
  <2>4. CASE WriteInitialPassword
    BY <1>0, <2>1, <2>2, <2>4 DEF WriteInitialPassword, NewRateLimiter, BannerInv, history
  <2>5. CASE WriteInitialPasswordFails
    BY <2>2, <2>5 DEF WriteInitialPasswordFails, BannerInv
  <2>6. CASE Start
    BY <1>0, <2>1, <2>2, <2>6 DEF Start, NewRateLimiter, BannerInv, account, history
  <2> QED
    BY <1>2, <2>3, <2>4, <2>5, <2>6 DEF Boot
<1> QED
  BY <1>1, <1>2

\* Login.BannerTellsTheTruth: the warning that the first password is in use is
\* there exactly until the password is changed, across restarts, unless
\* clearInitialPasswordFile or the write of main failed or was cut off.
THEOREM BannerTellsTheTruthHolds == Spec => []BannerTellsTheTruth
<1>1. Init => BannerInv
  BY DEF Init, BannerInv, Clearing, Idle, Saving
<1>2. TypeInv /\ BannerInv /\ [Next]_vars => BannerInv'
  <2> SUFFICES ASSUME TypeInv, BannerInv, [Next]_vars
               PROVE  BannerInv'
    OBVIOUS
  <2>1. CASE Tick
    <3>1. Clearing' <=> Clearing
      BY <2>1, TickMoves DEF Clearing
    <3> QED
      BY <2>1, <3>1, BannerFrame DEF Tick
  <2>2. CASE (\E s \in Sessions : Logout(s)) \/ DeleteExpiredSessions \/ UNCHANGED vars
    <3>1. req' = req /\ UNCHANGED <<admin, initFile, panel, changed, strayed>>
      BY <2>2 DEF Logout, DeleteExpiredSessions, vars, account, history
    <3>2. Clearing' <=> Clearing
      BY <3>1 DEF Clearing
    <3> QED
      BY <3>1, <3>2, BannerFrame
  <2> QED
    BY <2>1, <2>2, LoginKeepsBanner, ChangeKeepsBanner, BootKeepsBanner DEF Next
<1>3. TypeInv /\ BannerInv => BannerTellsTheTruth
  BY DEF TypeInv, TypeOK, BannerInv, BannerTellsTheTruth, Clearing
<1> QED
  BY <1>1, <1>2, <1>3, TypesHold, PTL DEF Spec

-----------------------------------------------------------------------------
(* Proofs: the limiter's three copies. *)

\* A step that leaves alone the requests that record.
SameRecording ==
    /\ Recording' = Recording
    /\ \A q \in Recording : /\ req'[q].pc = req[q].pc /\ req'[q].client = req[q].client
                            /\ req'[q].snap = req[q].snap

\* A request outside of the recording that stays outside.
LEMMA OnlySameRecording ==
  ASSUME NEW r \in Requests, req[r].pc \notin {"persist", "copy", "write"},
         req'[r].pc \notin {"persist", "copy", "write"},
         \A q \in Requests \ {r} : /\ req'[q].pc = req[q].pc /\ req'[q].client = req[q].client
                                   /\ req'[q].snap = req[q].snap
  PROVE  SameRecording
BY DEF SameRecording, Recording

\* The steps of a request that record nothing.
LEMMA QuietSteps ==
  ASSUME TypeInv, NEW r \in Requests,
         \/ \E c \in Clients, p \in Passwords : AdmitLogin(r, c, p)
         \/ \E c \in Clients, p, q \in Passwords : AdmitChange(r, c, p, q)
         \/ ReadRow(r) \/ ReadRowFails(r) \/ Verify(r) \/ CreateSession(r) \/ CreateSessionFails(r)
         \/ VerifyOld(r) \/ UpdateAdminPassword(r) \/ UpdateAdminPasswordFails(r)
         \/ ClearInitialPasswordFile(r) \/ ClearInitialPasswordFileFails(r)
  PROVE  SameRecording /\ UNCHANGED <<persist, disk, inTurn, guesses>> /\ panel = "on" /\ panel' = "on"
<1>1. /\ UNCHANGED <<persist, disk, inTurn, guesses>> /\ panel = "on" /\ panel' = "on"
      /\ req[r].pc \notin {"persist", "copy", "write"}
  BY DEF AdmitLogin, AdmitChange, ReadRow, ReadRowFails, Verify, CreateSession, CreateSessionFails,
         VerifyOld, UpdateAdminPassword, UpdateAdminPasswordFails, ClearInitialPasswordFile,
         ClearInitialPasswordFileFails, At, limiter, account, history
<1>2. ASSUME NEW w, Only(r, w), w.pc \notin {"persist", "copy", "write"}
      PROVE  SameRecording
  BY <1>1, <1>2, OnlySameRecording DEF Only
<1>3. ASSUME NEW pc, Moved(r, pc), pc \notin {"persist", "copy", "write"}
      PROVE  SameRecording
  BY <1>1, <1>3, OnlySameRecording DEF Moved
<1>4. ASSUME NEW c \in Clients, NEW p \in Passwords, AdmitLogin(r, c, p)
      PROVE  SameRecording
  <2>1. Only(r, Asking("row", c, p, None, None, {admin}))
    BY <1>4, Effects
  <2> QED
    BY <1>2, <2>1 DEF Asking
<1>5. ASSUME NEW c \in Clients, NEW p \in Passwords, NEW q \in Passwords, AdmitChange(r, c, p, q)
      PROVE  SameRecording
  <2>1. Only(r, Asking("old", c, p, q, admin, {admin}))
    BY <1>5, Effects
  <2> QED
    BY <1>2, <2>1 DEF Asking
<1>6. ReadRow(r) \/ Verify(r) \/ CreateSession(r) => SameRecording
  <2>1. \/ Only(r, Asking("verify", req[r].client, req[r].given, None, admin, req[r].during))
        \/ Only(r, Saving("count", req[r].client, NoSnap))
        \/ Only(r, Saving("reset", req[r].client, NoSnap))
        \/ Moved(r, "session")
        => SameRecording
    BY <1>2, <1>3 DEF Asking, Saving
  <2> QED
    BY <2>1, Effects
<1>7. VerifyOld(r) => SameRecording
  <2>1. Moved(r, "change") \/ Only(r, Idle) => SameRecording
    BY <1>2, <1>3 DEF Idle, Saving
  <2> QED
    BY <2>1, Effects
<1>8. \/ ReadRowFails(r) \/ CreateSessionFails(r) \/ UpdateAdminPasswordFails(r)
      \/ ClearInitialPasswordFile(r) \/ ClearInitialPasswordFileFails(r)
      => SameRecording
  <2>1. Only(r, Idle) => SameRecording
    BY <1>2 DEF Idle, Saving
  <2> QED
    BY <2>1, Effects
<1>9. UpdateAdminPassword(r) => SameRecording
  <2>1. ASSUME UpdateAdminPassword(r)
        PROVE  req'[r].pc = "clear" /\
               \A q \in Requests \ {r} : /\ req'[q].pc = req[q].pc /\ req'[q].client = req[q].client
                                         /\ req'[q].snap = req[q].snap
    BY <2>1, UpdateMoves DEF Saving
  <2> QED
    BY <1>1, <2>1, OnlySameRecording
<1> QED
  BY <1>1, <1>4, <1>5, <1>6, <1>7, <1>8, <1>9

\* A step that leaves the recording alone and the copies too, but for buckets
\* that are made from their entries, keeps the copies in step.
LEMMA CopiesFrame ==
  ASSUME TypeInv, CopiesInv, SameRecording, UNCHANGED <<persist, disk, inTurn>>,
         \A c \in Clients : bucket'[c] = bucket[c] \/ (bucket[c] = None /\ bucket'[c] = persist[c]),
         NoBuckets'
  PROVE  CopiesInv'
<1> SUFFICES ASSUME inTurn
             PROVE  InTurnInv'
  BY DEF CopiesInv
<1>0. InTurnInv
  BY DEF CopiesInv
<1>1. ASSUME NEW c \in Clients
      PROVE  Settled(c)' <=> Settled(c)
  BY DEF Settled, SameRecording, Recording
<1>2. \A c \in Clients : Settled(c) => bucket'[c] \in {None, persist[c]}
  BY <1>0 DEF InTurnInv
<1>3. ASSUME NEW r \in Requests, req'[r].pc = "persist"
      PROVE  bucket'[req'[r].client] = req'[r].snap[req'[r].client]
  <2>1. /\ req[r].pc = "persist" /\ req'[r].client = req[r].client /\ req'[r].snap = req[r].snap
    BY <1>3 DEF SameRecording, Recording
  <2>2. req[r].client \in Clients /\ req[r].snap \in [Clients -> Buckets]
    BY <2>1, HasClient DEF TypeInv, TypeOK, Request
  <2>3. bucket[req[r].client] = req[r].snap[req[r].client]
    BY <1>0, <2>1 DEF InTurnInv
  <2>4. bucket[req[r].client] # None
    BY <2>2, <2>3, SortsAssumption
  <2> QED
    BY <2>1, <2>2, <2>3, <2>4
<1>4. ASSUME NEW r \in Requests, req'[r].pc = "write"
      PROVE  req'[r].snap = persist'
  <2>1. req[r].pc = "write" /\ req'[r].snap = req[r].snap
    BY <1>4 DEF SameRecording, Recording
  <2> QED
    BY <1>0, <2>1 DEF InTurnInv
<1>5. /\ \A q, r \in Recording' : q = r
      /\ Recording' = {} => persist' = disk'
  BY <1>0 DEF InTurnInv, SameRecording
<1> QED
  BY <1>1, <1>2, <1>3, <1>4, <1>5 DEF InTurnInv

\* A client's bucket is made from its entry.
LEMMA CountedBuckets ==
  ASSUME TypeInv, NEW d \in Clients, Counted(d)
  PROVE  \A c \in Clients :
           bucket'[c] = bucket[c] \/ (bucket[c] = None /\ bucket'[c] = persist[c])
BY DEF TypeInv, TypeOK, Counted, GetBucket

\* A bucket is recorded when nobody else records, or out of turn.
LEMMA RecordKeepsCopies ==
  ASSUME TypeInv, CopiesInv, NEW r \in Requests, req[r].pc \in {"count", "reset"}, panel = "on",
         NEW b \in Buckets, Record(r, b)
  PROVE  CopiesInv'
<1>1. NoBuckets'
  BY DEF Record, NoBuckets
<1> SUFFICES ASSUME inTurn'
             PROVE  InTurnInv'
  BY <1>1 DEF CopiesInv
<1>2. inTurn /\ Recording = {} /\ InTurnInv /\ UNCHANGED <<persist, disk>>
  BY DEF Record, CopiesInv
<1>3. req[r].client \in Clients /\ bucket \in [Clients -> Buckets \cup {None}]
  BY HasClient DEF TypeInv, TypeOK
<1>4. /\ bucket'[req[r].client] = b
      /\ \A c \in Clients : c # req[r].client => bucket'[c] = bucket[c]
  BY <1>3 DEF Record
<1>5. Only(r, Saving("persist", req[r].client, [NoSnap EXCEPT ![req[r].client] = b]))
  BY Effects
<1>6. /\ req'[r].pc = "persist" /\ req'[r].client = req[r].client
      /\ req'[r].snap[req[r].client] = b
  BY <1>3, <1>5, Records DEF Only, Saving
<1>7. \A q \in Requests \ {r} : req'[q].pc \notin {"persist", "copy", "write"}
  BY <1>2, <1>5 DEF Only, Recording
<1>8. Recording' = {r}
  BY <1>6, <1>7 DEF Recording
<1>9. ASSUME NEW c \in Clients, Settled(c)'
      PROVE  bucket'[c] \in {None, persist'[c]}
  <2>1. c # req[r].client
    BY <1>6, <1>9 DEF Settled
  <2>2. Settled(c)
    BY <1>2 DEF Settled, Recording
  <2> QED
    BY <1>2, <1>4, <2>1, <2>2 DEF InTurnInv
<1>10. ASSUME NEW q \in Requests
       PROVE  /\ req'[q].pc = "persist" => bucket'[req'[q].client] = req'[q].snap[req'[q].client]
              /\ req'[q].pc = "write" => req'[q].snap = persist'
  BY <1>4, <1>6, <1>7
<1> QED
  BY <1>8, <1>9, <1>10 DEF InTurnInv

\* The entry is made from what the request carries.
LEMMA PersistKeepsCopies ==
  ASSUME TypeInv, CopiesInv, NEW r \in Requests, Persist(r)
  PROVE  CopiesInv'
<1>1. NoBuckets'
  BY DEF Persist, At, NoBuckets
<1> SUFFICES ASSUME inTurn'
             PROVE  InTurnInv'
  BY <1>1 DEF CopiesInv
<1>2. inTurn /\ InTurnInv /\ UNCHANGED <<bucket, disk>> /\ req[r].pc = "persist"
  BY DEF Persist, At, history, CopiesInv
<1>3. req[r].client \in Clients /\ persist \in [Clients -> Buckets]
  BY <1>2, HasClient DEF TypeInv, TypeOK
<1>4. Moved(r, "copy")
  BY Effects
<1>5. r \in Recording /\ \A q \in Requests \ {r} : req'[q].pc \notin {"persist", "copy", "write"}
  BY <1>2, <1>4 DEF InTurnInv, Recording, Moved
<1>6. Recording' = {r} /\ req'[r].pc = "copy"
  BY <1>4, <1>5 DEF Recording, Moved
<1>7. ASSUME NEW c \in Clients
      PROVE  bucket'[c] \in {None, persist'[c]}
  <2>1. CASE c = req[r].client
    <3>1. bucket[c] = req[r].snap[c]
      BY <1>2, <2>1 DEF InTurnInv
    <3> QED
      BY <1>2, <1>3, <2>1, <3>1 DEF Persist
  <2>2. CASE c # req[r].client
    <3>1. Settled(c)
      BY <1>2, <1>5, <2>2 DEF Settled, InTurnInv, Recording
    <3>2. persist'[c] = persist[c]
      BY <1>3, <2>2 DEF Persist
    <3> QED
      BY <1>2, <3>1, <3>2 DEF InTurnInv
  <2> QED
    BY <2>1, <2>2
<1> QED
  BY <1>5, <1>6, <1>7 DEF InTurnInv

\* The snapshot is of all entries, and becomes the file.
LEMMA SaveKeepsCopies ==
  ASSUME TypeInv, CopiesInv, NEW r \in Requests, Copy(r) \/ SaveToDisk(r) \/ SaveToDiskFails(r)
  PROVE  CopiesInv'
<1>1. NoBuckets'
  BY DEF Copy, SaveToDisk, SaveToDiskFails, At, NoBuckets
<1> SUFFICES ASSUME inTurn'
             PROVE  InTurnInv'
  BY <1>1 DEF CopiesInv
<1>2. /\ inTurn /\ InTurnInv /\ UNCHANGED <<bucket, persist>> /\ r \in Recording
      /\ Copy(r) \/ SaveToDisk(r)
      /\ req[r].pc \in {"copy", "write"}
  BY DEF Copy, SaveToDisk, SaveToDiskFails, At, limiter, history, CopiesInv, Recording
<1>3. \A q \in Requests \ {r} : req[q].pc \notin {"persist", "copy", "write"}
  BY <1>2 DEF InTurnInv, Recording
<1>4. \A c \in Clients : bucket'[c] \in {None, persist'[c]}
  <2>1. req[r].pc # "persist"
    BY <1>2 DEF Copy, SaveToDisk, At
  <2>2. \A c \in Clients : Settled(c)
    BY <1>3, <2>1 DEF Settled
  <2> QED
    BY <1>2, <2>2 DEF InTurnInv
<1>5. CASE Copy(r)
  <2>1. Only(r, Saving("write", req[r].client, persist))
    BY <1>5, Effects
  <2>2. /\ req'[r].pc = "write" /\ req'[r].snap = persist
        /\ \A q \in Requests \ {r} : req'[q].pc \notin {"persist", "copy", "write"}
    BY <1>3, <2>1 DEF Only, Saving
  <2>3. Recording' = {r}
    BY <2>2 DEF Recording
  <2> QED
    BY <1>2, <1>4, <2>2, <2>3 DEF InTurnInv
<1>6. CASE SaveToDisk(r)
  <2>1. Only(r, Idle) /\ req[r].pc = "write" /\ disk' = req[r].snap
    BY <1>6, Effects DEF SaveToDisk, At
  <2>2. \A q \in Requests : req'[q].pc \notin {"persist", "copy", "write"}
    BY <1>3, <2>1 DEF Only, Idle, Saving
  <2>3. Recording' = {} /\ disk' = persist'
    BY <1>2, <2>1, <2>2 DEF Recording, InTurnInv
  <2> QED
    BY <1>4, <2>2, <2>3 DEF InTurnInv
<1> QED
  BY <1>2, <1>5, <1>6

\* A tick ages each bucket of a copy.
LEMMA OlderAllAt ==
  ASSUME NEW f \in [Clients -> Buckets \cup {None}], NEW c \in Clients
  PROVE  /\ f[c] = None => OlderAll(f)[c] = None
         /\ f[c] # None => OlderAll(f)[c] = Older(f[c])
BY DEF OlderAll

\* So the copies that were in step stay in step.
LEMMA TickKeepsCopies ==
  ASSUME TypeInv, CopiesInv, Tick
  PROVE  CopiesInv'
<1>0. /\ bucket \in [Clients -> Buckets \cup {None}] /\ persist \in [Clients -> Buckets]
      /\ disk \in [Clients -> Buckets] /\ \A r \in Requests : req[r].snap \in [Clients -> Buckets]
      /\ None \notin Buckets
  BY SortsAssumption DEF TypeInv, TypeOK, Request
<1>1. NoBuckets'
  BY <1>0, OlderAllAt DEF CopiesInv, NoBuckets, Tick
<1> SUFFICES ASSUME inTurn
             PROVE  InTurnInv'
  BY <1>1 DEF CopiesInv, Tick
<1>2. InTurnInv
  BY DEF CopiesInv
<1>3. Recording' = Recording
  BY TickMoves DEF Recording
<1>4. /\ bucket' = OlderAll(bucket) /\ persist' = OlderAll(persist) /\ disk' = OlderAll(disk)
  BY DEF Tick
<1>5. /\ \A q, r \in Recording' : q = r
      /\ Recording' = {} => persist' = disk'
  BY <1>2, <1>3, <1>4 DEF InTurnInv
<1>6. ASSUME NEW c \in Clients, Settled(c)'
      PROVE  bucket'[c] \in {None, persist'[c]}
  <2>1. Settled(c)
    BY <1>6, TickMoves DEF Settled
  <2>2. bucket[c] \in {None, persist[c]}
    BY <1>2, <2>1 DEF InTurnInv
  <2>3. persist'[c] = Older(persist[c])
    BY <1>0, <1>4, OlderAllAt
  <2> QED
    BY <1>0, <1>4, <2>2, <2>3, OlderAllAt
<1>7. ASSUME NEW r \in Requests, req'[r].pc = "persist"
      PROVE  bucket'[req'[r].client] = req'[r].snap[req'[r].client]
  <2>1. /\ req[r].pc = "persist" /\ req'[r].client = req[r].client
        /\ req'[r].snap = OlderAll(req[r].snap)
    BY <1>7, TickMoves
  <2>2. req[r].client \in Clients /\ bucket[req[r].client] = req[r].snap[req[r].client]
    BY <1>2, <2>1, HasClient DEF InTurnInv
  <2>3. OlderAll(req[r].snap)[req[r].client] = Older(req[r].snap[req[r].client])
    BY <1>0, <2>2, OlderAllAt
  <2> QED
    BY <1>0, <1>4, <2>1, <2>2, <2>3, OlderAllAt
<1>8. ASSUME NEW r \in Requests, req'[r].pc = "write"
      PROVE  req'[r].snap = persist'
  <2>1. req[r].pc = "write" /\ req'[r].snap = OlderAll(req[r].snap)
    BY <1>8, TickMoves
  <2> QED
    BY <1>2, <1>4, <2>1 DEF InTurnInv
<1> QED
  BY <1>5, <1>6, <1>7, <1>8 DEF InTurnInv

\* A crash loses the buckets, which are the entries, and a start reads the
\* file, which is too.
LEMMA BootKeepsCopies ==
  ASSUME TypeInv, CopiesInv, Crash \/ Boot
  PROVE  CopiesInv' /\ (inTurn' => inTurn /\ Recording = {} /\ persist' = persist)
<1>1. CASE Crash
  <2>1. Recording' = {} /\ UNCHANGED <<persist, disk>> /\ \A c \in Clients : bucket'[c] = None
    BY <1>1 DEF Crash, Recording, Idle, Saving
  <2>2. \A r \in Requests : req'[r].pc = "idle"
    BY <1>1 DEF Crash, Idle, Saving
  <2>3. inTurn' => inTurn /\ Recording = {} /\ persist = disk
    BY <1>1 DEF Crash, CopiesInv, InTurnInv
  <2> QED
    BY <2>1, <2>2, <2>3 DEF CopiesInv, NoBuckets, InTurnInv
<1>2. CASE Boot
  <2>1. /\ panel # "on" /\ UNCHANGED <<bucket, disk, req, inTurn>>
        /\ persist' \in {persist, disk}
    BY <1>2 DEF Boot, EnsureDefaultAdmin, WriteInitialPassword, WriteInitialPasswordFails, Start,
                NewRateLimiter, limiter, history
  <2>2. Recording = {} /\ \A r \in Requests : req[r].pc = "idle"
    BY <2>1 DEF TypeInv, OnlyServing, Recording
  <2>3. inTurn => InTurnInv /\ persist' = persist
    BY <2>1, <2>2 DEF CopiesInv, InTurnInv
  <2>4. Recording' = {}
    BY <2>1, <2>2 DEF Recording
  <2>5. \A c \in Clients : bucket'[c] = None
    BY <2>1 DEF CopiesInv, NoBuckets
  <2>6. persist' = disk' \/ ~inTurn'
    BY <2>1, <2>2, <2>3 DEF InTurnInv
  <2> QED
    BY <2>1, <2>2, <2>3, <2>4, <2>5, <2>6 DEF CopiesInv, NoBuckets, InTurnInv
<1> QED
  BY <1>1, <1>2

\* The steps that record nothing, of a request or not, keep the copies.
LEMMA QuietKeepsCopies ==
  ASSUME TypeInv, CopiesInv, NEW r \in Requests,
         \/ \E c \in Clients, p \in Passwords : AdmitLogin(r, c, p)
         \/ \E c \in Clients, p, q \in Passwords : AdmitChange(r, c, p, q)
         \/ ReadRow(r) \/ ReadRowFails(r) \/ Verify(r) \/ CreateSession(r) \/ CreateSessionFails(r)
         \/ VerifyOld(r) \/ UpdateAdminPassword(r) \/ UpdateAdminPasswordFails(r)
         \/ ClearInitialPasswordFile(r) \/ ClearInitialPasswordFileFails(r)
  PROVE  /\ CopiesInv'
         /\ \A c \in Clients :
              bucket'[c] = bucket[c] \/ (bucket[c] = None /\ bucket'[c] = persist[c])
<1>1. SameRecording /\ UNCHANGED <<persist, disk, inTurn>> /\ panel' = "on"
  BY QuietSteps
<1>2. \A c \in Clients : bucket'[c] = bucket[c] \/ (bucket[c] = None /\ bucket'[c] = persist[c])
  <2>1. ASSUME NEW d \in Clients, Counted(d)
        PROVE  \A c \in Clients :
                 bucket'[c] = bucket[c] \/ (bucket[c] = None /\ bucket'[c] = persist[c])
    BY <2>1, CountedBuckets
  <2>2. (\E d \in Clients : Counted(d)) \/ bucket' = bucket
    BY DEF AdmitLogin, AdmitChange, ReadRow, ReadRowFails, Verify, CreateSession,
           CreateSessionFails, VerifyOld, UpdateAdminPassword, UpdateAdminPasswordFails,
           ClearInitialPasswordFile, ClearInitialPasswordFileFails, limiter
  <2> QED
    BY <2>1, <2>2
<1>3. NoBuckets'
  BY <1>1 DEF NoBuckets
<1> QED
  BY <1>1, <1>2, <1>3, CopiesFrame

\* Every step keeps the copies in step, or is noted as out of turn.
LEMMA CopiesKept ==
  ASSUME TypeInv, CopiesInv, [Next]_vars
  PROVE  CopiesInv'
<1>1. ASSUME NEW r \in Requests, LoginStep(r) \/ ChangeStep(r)
      PROVE  CopiesInv'
  <2>1. ASSUME RecordLoginFail(r)
        PROVE  CopiesInv'
    <3>1. req[r].pc = "count" /\ panel = "on" /\ Record(r, RecordFail(GetBucket(req[r].client)))
      BY <2>1 DEF RecordLoginFail, At
    <3>2. RecordFail(GetBucket(req[r].client)) \in Buckets
      BY <3>1, HasClient, BucketTyped, BucketSteps
    <3> QED
      BY <3>1, <3>2, RecordKeepsCopies
  <2>2. ASSUME RecordLoginSuccess(r)
        PROVE  CopiesInv'
    <3>1. req[r].pc = "reset" /\ panel = "on" /\ Record(r, Zero) /\ Zero \in Buckets
      BY <2>2, Records DEF RecordLoginSuccess, At
    <3> QED
      BY <3>1, RecordKeepsCopies
  <2> QED
    BY <1>1, <2>1, <2>2, PersistKeepsCopies, SaveKeepsCopies, QuietKeepsCopies
       DEF LoginStep, ChangeStep
<1>2. CASE (\E s \in Sessions : Logout(s)) \/ DeleteExpiredSessions \/ UNCHANGED vars
  <2>1. UNCHANGED <<bucket, persist, disk, req, panel, inTurn>>
    BY <1>2 DEF Logout, DeleteExpiredSessions, vars, limiter, history
  <2>2. SameRecording
    BY <2>1 DEF SameRecording, Recording
  <2>3. NoBuckets'
    BY <2>1 DEF CopiesInv, NoBuckets
  <2> QED
    BY <2>1, <2>2, <2>3, CopiesFrame
<1> QED
  BY <1>1, <1>2, TickKeepsCopies, BootKeepsCopies DEF Next

\* The copies are in step for as long as the file was written in turn.
THEOREM CopiesHold == Spec => []CopiesInv
<1>1. Init => CopiesInv
  BY DEF Init, CopiesInv, NoBuckets, InTurnInv, Recording, Settled, Idle, Saving
<1>2. TypeInv /\ CopiesInv /\ [Next]_vars => CopiesInv'
  BY CopiesKept
<1> QED
  BY <1>1, <1>2, TypesHold, PTL DEF Spec

\* Login.FileKeepsLocks: between two requests ratelimit.json says of every
\* client what the buckets say, so that a restart neither forgives a lock nor
\* brings one back, unless a save failed, was cut off or ran beside another.
THEOREM FileKeepsLocksHolds == Spec => []FileKeepsLocks
<1>1. CopiesInv => FileKeepsLocks
  <2> SUFFICES ASSUME CopiesInv, inTurn, Recording = {}, NEW c \in Clients
               PROVE  GetBucket(c) = disk[c]
    BY DEF FileKeepsLocks
  <2>1. Settled(c) /\ InTurnInv
    BY DEF CopiesInv, Settled, Recording
  <2> QED
    BY <2>1 DEF InTurnInv, GetBucket
<1> QED
  BY <1>1, CopiesHold, PTL

-----------------------------------------------------------------------------
(* Proofs: guesses. *)

\* There are no more guesses under way than requests.
LEMMA GuessingSize ==
  ASSUME NEW S \in SUBSET Requests
  PROVE  /\ IsFiniteSet(S) /\ Cardinality(S) \in Nat /\ Cardinality(Requests) \in Nat
         /\ Cardinality(S) <= Cardinality(Requests)
         /\ \A T \in SUBSET S : Cardinality(T) <= Cardinality(S)
         /\ \A r \in S : \A T \in SUBSET (S \ {r}) : Cardinality(T) <= Cardinality(S) - 1
<1>1. IsFiniteSet(Requests) /\ Cardinality(Requests) \in Nat
  BY SortsAssumption, FS_CardinalityType
<1>2. IsFiniteSet(S) /\ Cardinality(S) \in Nat /\ Cardinality(S) <= Cardinality(Requests)
  BY <1>1, FS_Subset, FS_CardinalityType
<1>3. \A T \in SUBSET S : Cardinality(T) <= Cardinality(S)
  BY <1>2, FS_Subset
<1>4. ASSUME NEW r \in S, NEW T \in SUBSET (S \ {r})
      PROVE  Cardinality(T) <= Cardinality(S) - 1
  <2>1. IsFiniteSet(S \ {r}) /\ Cardinality(S \ {r}) = Cardinality(S) - 1
    BY <1>2, FS_RemoveElement
  <2> QED
    BY <2>1, FS_Subset
<1> QED
  BY <1>1, <1>2, <1>3, <1>4

\* A step that counts nothing, and lets nobody in but a client not locked,
\* keeps the counts.
LEMMA CountFrame ==
  ASSUME TypeInv, CountInv, guesses' = guesses,
         inTurn' => /\ inTurn
                    /\ \A c \in Clients : GetBucket(c)' = GetBucket(c),
         \A c \in Clients : Locked(c) => Guessing(c)' \subseteq Guessing(c)
  PROVE  CountInv'
<1> SUFFICES ASSUME inTurn', NEW c \in Clients
             PROVE  WellCounted(c)'
  BY DEF CountInv
<1>1. WellCounted(c) /\ GetBucket(c)' = GetBucket(c) /\ guesses[c] \in Nat
  BY DEF CountInv, TypeInv, TypeOK
<1>2. Locked(c)' <=> Locked(c)
  BY <1>1 DEF Locked
<1>3. CASE ~Locked(c)
  BY <1>1, <1>2, <1>3 DEF WellCounted
<1>4. CASE Locked(c)
  <2>1. Guessing(c) \in SUBSET Requests /\ Guessing(c)' \in SUBSET Guessing(c)
    BY <1>4 DEF Guessing
  <2>2. /\ Cardinality(Guessing(c)') <= Cardinality(Guessing(c))
        /\ Cardinality(Guessing(c)) \in Nat /\ Cardinality(Requests) \in Nat
    BY <2>1, GuessingSize
  <2>3. Cardinality(Guessing(c)') \in Nat
    <3>1. Guessing(c)' \in SUBSET Requests
      BY <2>1
    <3> QED
      BY <3>1, GuessingSize
  <2>4. guesses[c] + Cardinality(Guessing(c)') <= Threshold + Cardinality(Requests) - 1
    BY <1>1, <1>4, <2>2, <2>3, LimitsAssumption DEF WellCounted
  <2> QED
    BY <1>2, <1>4, <2>4 DEF WellCounted
<1> QED
  BY <1>3, <1>4

\* A request that guesses afterwards guessed before, for the same client.
LEMMA OnlyShrinks ==
  ASSUME NEW r \in Requests, NEW w, Only(r, w),
         w.pc \in {"row", "verify", "count"} =>
           w.client = req[r].client /\ req[r].pc \in {"row", "verify", "count"}
  PROVE  \A c : Guessing(c)' \subseteq Guessing(c)
BY DEF Only, Guessing

\* So does one that moves on.
LEMMA MovedShrinks ==
  ASSUME NEW r \in Requests, NEW pc, Moved(r, pc), pc \notin {"row", "verify", "count"}
  PROVE  \A c : Guessing(c)' \subseteq Guessing(c)
BY DEF Moved, Guessing

\* Only an admitted login guesses more, and its client is not locked.
LEMMA StepsShrink ==
  ASSUME TypeInv, NEW r \in Requests, LoginStep(r) \/ ChangeStep(r)
  PROVE  \A c \in Clients : Locked(c) => Guessing(c)' \subseteq Guessing(c)
<1>1. ASSUME NEW d \in Clients, NEW p \in Passwords, AdmitLogin(r, d, p)
      PROVE  \A c \in Clients : Locked(c) => Guessing(c)' \subseteq Guessing(c)
  <2>1. Only(r, Asking("row", d, p, None, None, {admin}))
    BY <1>1, Effects
  <2>2. \A c \in Clients \ {d} : Guessing(c)' \subseteq Guessing(c)
    BY <2>1 DEF Only, Asking, Guessing
  <2> QED
    BY <1>1, <2>2 DEF AdmitLogin
<1>2. ASSUME NEW d \in Clients, NEW p \in Passwords, NEW q \in Passwords, AdmitChange(r, d, p, q)
      PROVE  \A c : Guessing(c)' \subseteq Guessing(c)
  <2>1. Only(r, Asking("old", d, p, q, admin, {admin}))
    BY <1>2, Effects
  <2> QED
    BY <2>1, OnlyShrinks DEF Asking
<1>3. ReadRow(r) \/ Verify(r) => \A c : Guessing(c)' \subseteq Guessing(c)
  <2>1. ReadRow(r) \/ Verify(r) => req[r].pc \in {"row", "verify"}
    BY DEF ReadRow, Verify, At
  <2>2. /\ req[r].pc \in {"row", "verify"}
        /\ \/ Only(r, Asking("verify", req[r].client, req[r].given, None, admin, req[r].during))
           \/ Only(r, Saving("count", req[r].client, NoSnap))
           \/ Moved(r, "session")
        => \A c : Guessing(c)' \subseteq Guessing(c)
    BY OnlyShrinks, MovedShrinks DEF Asking, Saving
  <2> QED
    BY <2>1, <2>2, Effects
<1>4. CreateSession(r) \/ Persist(r) \/ Copy(r) => \A c : Guessing(c)' \subseteq Guessing(c)
  <2>1. \/ Only(r, Saving("reset", req[r].client, NoSnap))
        \/ Only(r, Saving("write", req[r].client, persist))
        \/ Moved(r, "copy")
        => \A c : Guessing(c)' \subseteq Guessing(c)
    BY OnlyShrinks, MovedShrinks DEF Saving
  <2> QED
    BY <2>1, Effects
<1>5. ASSUME NEW b, Record(r, b)
      PROVE  \A c : Guessing(c)' \subseteq Guessing(c)
  <2>1. Only(r, Saving("persist", req[r].client, [NoSnap EXCEPT ![req[r].client] = b]))
    BY <1>5, Effects
  <2> QED
    BY <2>1, OnlyShrinks DEF Saving
<1>6. VerifyOld(r) => \A c : Guessing(c)' \subseteq Guessing(c)
  <2>1. Moved(r, "change") \/ Only(r, Idle) => \A c : Guessing(c)' \subseteq Guessing(c)
    BY OnlyShrinks, MovedShrinks DEF Idle, Saving
  <2> QED
    BY <2>1, Effects
<1>7. UpdateAdminPassword(r) => \A c : Guessing(c)' \subseteq Guessing(c)
  <2> SUFFICES ASSUME UpdateAdminPassword(r), NEW c
               PROVE  Guessing(c)' \subseteq Guessing(c)
    OBVIOUS
  <2>1. /\ req'[r].pc = "clear"
        /\ \A q \in Requests \ {r} : req'[q].pc = req[q].pc /\ req'[q].client = req[q].client
    BY UpdateMoves DEF Saving
  <2> QED
    BY <2>1 DEF Guessing
<1>8. \/ ReadRowFails(r) \/ CreateSessionFails(r) \/ SaveToDisk(r) \/ SaveToDiskFails(r)
      \/ UpdateAdminPasswordFails(r)
      \/ ClearInitialPasswordFile(r) \/ ClearInitialPasswordFileFails(r)
      => \A c : Guessing(c)' \subseteq Guessing(c)
  <2>1. Only(r, Idle) => \A c : Guessing(c)' \subseteq Guessing(c)
    BY OnlyShrinks DEF Idle, Saving
  <2> QED
    BY <2>1, Effects
<1> QED
  BY <1>1, <1>2, <1>3, <1>4, <1>5, <1>6, <1>7, <1>8
     DEF LoginStep, ChangeStep, RecordLoginFail, RecordLoginSuccess

\* A failure is counted until it locks, and a lock stays.
LEMMA FailCounts ==
  ASSUME NEW b \in Buckets
  PROVE  /\ b.fails \in Nat /\ b.fails <= Threshold - 1 /\ b.lock \in Nat
         /\ b.lock > 0 => RecordFail(b).lock > 0
         /\ RecordFail(b).lock \in Nat
         /\ ~(RecordFail(b).lock > 0) => RecordFail(b).fails = b.fails + 1
BY LimitsAssumption DEF Buckets, RecordFail

\* A wrong guess is one that was under way.
LEMMA FailKeepsCount ==
  ASSUME TypeInv, CopiesInv, CountInv, NEW r \in Requests, RecordLoginFail(r)
  PROVE  CountInv'
<1>0. req[r].pc = "count"
  BY DEF RecordLoginFail, At
<1> PICK d \in Clients : d = req[r].client
  BY <1>0, HasClient
<1> DEFINE b == GetBucket(d)
<1>1. /\ Record(r, RecordFail(b)) /\ persist' = persist
      /\ guesses' = [guesses EXCEPT ![d] = @ + 1]
  BY DEF RecordLoginFail, Record
<1>2. b \in Buckets
  BY BucketTyped
<1>3. /\ bucket \in [Clients -> Buckets \cup {None}] /\ guesses \in [Clients -> Nat]
      /\ None \notin Buckets /\ RecordFail(b) \in Buckets
  BY <1>2, SortsAssumption, BucketSteps DEF TypeInv, TypeOK
<1>4. /\ GetBucket(d)' = RecordFail(b)
      /\ \A c \in Clients : c # d => GetBucket(c)' = GetBucket(c)
  <2>1. bucket'[d] = RecordFail(b) /\ \A c \in Clients : c # d => bucket'[c] = bucket[c]
    BY <1>1, <1>2, <1>3 DEF Record
  <2> QED
    BY <1>1, <1>2, <1>3, <2>1 DEF GetBucket
<1>5. r \in Guessing(d) /\ Guessing(d)' \subseteq Guessing(d) \ {r}
      /\ \A c \in Clients : Guessing(c)' \subseteq Guessing(c)
  <2>1. Only(r, Saving("persist", d, [NoSnap EXCEPT ![d] = RecordFail(b)]))
    BY <1>1, Effects
  <2> QED
    BY <1>0, <2>1, OnlyShrinks DEF Only, Saving, Guessing
<1> SUFFICES ASSUME inTurn', NEW c \in Clients
             PROVE  WellCounted(c)'
  BY DEF CountInv
<1>6. inTurn /\ WellCounted(c)
  BY <1>1 DEF Record, CountInv
<1> DEFINE before == Guessing(c)
           after  == Guessing(c)'
<1>7. /\ before \in SUBSET Requests /\ after \in SUBSET Requests /\ after \in SUBSET before
      /\ c = d => r \in before /\ after \in SUBSET (before \ {r})
  BY <1>5 DEF Guessing
<1>8. /\ Cardinality(before) \in Nat /\ Cardinality(after) \in Nat /\ Cardinality(Requests) \in Nat
      /\ Cardinality(before) <= Cardinality(Requests) /\ Cardinality(after) <= Cardinality(before)
      /\ c = d => Cardinality(after) <= Cardinality(before) - 1
  BY <1>7, GuessingSize
<1>9. CASE c # d
  <2>1. GetBucket(c)' = GetBucket(c) /\ guesses'[c] = guesses[c] /\ guesses[c] \in Nat
    BY <1>1, <1>3, <1>4, <1>9
  <2>2. Locked(c)' <=> Locked(c)
    BY <2>1 DEF Locked
  <2>3. Locked(c) => guesses[c] + Cardinality(after) <= Threshold + Cardinality(Requests) - 1
    BY <1>6, <1>8, <2>1, LimitsAssumption DEF WellCounted
  <2> QED
    BY <1>6, <2>1, <2>2, <2>3 DEF WellCounted
<1>10. CASE c = d
  <2>1. guesses'[c] = guesses[c] + 1 /\ guesses[c] \in Nat
    BY <1>1, <1>3, <1>10
  <2>2. /\ Locked(c) <=> b.lock > 0
        /\ Locked(c)' <=> RecordFail(b).lock > 0
        /\ GetBucket(c)' = RecordFail(b)
    BY <1>4, <1>10 DEF Locked
  <2>3. /\ b.fails \in Nat /\ b.fails <= Threshold - 1 /\ b.lock \in Nat
        /\ b.lock > 0 => RecordFail(b).lock > 0
        /\ ~(RecordFail(b).lock > 0) => RecordFail(b).fails = b.fails + 1
    BY <1>2, FailCounts
  <2>4. ~(b.lock > 0) => guesses[c] <= b.fails
    BY <1>6, <1>10, <2>2 DEF WellCounted
  <2>5. b.lock > 0 => guesses[c] + Cardinality(before) <= Threshold + Cardinality(Requests) - 1
    BY <1>6, <2>2 DEF WellCounted
  <2>6. ~(RecordFail(b).lock > 0) => guesses[c] + 1 <= RecordFail(b).fails
    BY <2>1, <2>3, <2>4
  <2>7. guesses[c] + 1 + Cardinality(after) <= Threshold + Cardinality(Requests) - 1
    BY <1>8, <1>10, <2>1, <2>3, <2>4, <2>5, LimitsAssumption
  <2> QED
    BY <2>1, <2>2, <2>6, <2>7 DEF WellCounted
<1> QED
  BY <1>9, <1>10

\* A success starts over.
LEMMA SuccessKeepsCount ==
  ASSUME TypeInv, CopiesInv, CountInv, NEW r \in Requests, RecordLoginSuccess(r)
  PROVE  CountInv'
<1>0. req[r].pc = "reset"
  BY DEF RecordLoginSuccess, At
<1> PICK d \in Clients : d = req[r].client
  BY <1>0, HasClient
<1>1. /\ Record(r, Zero) /\ persist' = persist /\ (inTurn' => inTurn)
      /\ guesses' = [guesses EXCEPT ![d] = 0]
  BY DEF RecordLoginSuccess, Record
<1>2. /\ bucket \in [Clients -> Buckets \cup {None}]
      /\ guesses \in [Clients -> Nat] /\ None \notin Buckets /\ Zero \in Buckets
  BY SortsAssumption, Records DEF TypeInv, TypeOK
<1>3. /\ GetBucket(d)' = Zero
      /\ \A c \in Clients : c # d => GetBucket(c)' = GetBucket(c)
  <2>1. bucket'[d] = Zero /\ \A c \in Clients : c # d => bucket'[c] = bucket[c]
    BY <1>1, <1>2 DEF Record
  <2> QED
    BY <1>1, <1>2, <2>1 DEF GetBucket
<1>4. \A c : Guessing(c)' \subseteq Guessing(c)
  <2>1. Only(r, Saving("persist", d, [NoSnap EXCEPT ![d] = Zero]))
    BY <1>1, Effects
  <2> QED
    BY <2>1, OnlyShrinks DEF Saving
<1> SUFFICES ASSUME inTurn', NEW c \in Clients
             PROVE  WellCounted(c)'
  BY DEF CountInv
<1>5. WellCounted(c)
  BY <1>1 DEF CountInv
<1>6. CASE c = d
  BY <1>1, <1>2, <1>3, <1>6 DEF WellCounted, Locked, Zero
<1>7. CASE c # d
  <2>1. GetBucket(c)' = GetBucket(c) /\ guesses'[c] = guesses[c] /\ guesses[c] \in Nat
    BY <1>1, <1>2, <1>3, <1>7
  <2>2. Locked(c)' <=> Locked(c)
    BY <2>1 DEF Locked
  <2>3. /\ Guessing(c) \in SUBSET Requests /\ Guessing(c)' \in SUBSET Requests
        /\ Guessing(c)' \in SUBSET Guessing(c)
    BY <1>4 DEF Guessing
  <2>4. /\ Cardinality(Guessing(c)') <= Cardinality(Guessing(c))
        /\ Cardinality(Guessing(c)) \in Nat /\ Cardinality(Guessing(c)') \in Nat
        /\ Cardinality(Requests) \in Nat
    BY <2>3, GuessingSize
  <2>5. Locked(c) => guesses[c] + Cardinality(Guessing(c)') <= Threshold + Cardinality(Requests) - 1
    BY <1>5, <2>1, <2>4, LimitsAssumption DEF WellCounted
  <2> QED
    BY <1>5, <2>1, <2>2, <2>5 DEF WellCounted
<1> QED
  BY <1>6, <1>7

\* A tick forgets the guesses and never adds to them.
LEMMA TickKeepsCount ==
  ASSUME TypeInv, TypeInv', Tick
  PROVE  CountInv'
<1> SUFFICES ASSUME NEW c \in Clients
             PROVE  WellCounted(c)'
  BY DEF CountInv
<1>1. guesses'[c] = 0
  BY DEF Tick
<1>2. GetBucket(c)' \in Buckets
  BY DEF TypeInv, TypeOK, GetBucket
<1>3. GetBucket(c)'.fails \in Nat
  BY <1>2, FailCounts
<1>4. Guessing(c)' \in SUBSET Requests
  BY DEF Guessing
<1>5. /\ Cardinality(Guessing(c)') \in Nat /\ Cardinality(Requests) \in Nat
      /\ Cardinality(Guessing(c)') <= Cardinality(Requests)
  BY <1>4, GuessingSize
<1>6. Cardinality(Guessing(c)') <= Threshold + Cardinality(Requests) - 1
  BY <1>5, LimitsAssumption
<1> QED
  BY <1>1, <1>3, <1>5, <1>6 DEF WellCounted

\* Every step keeps the counts, or the file is noted as out of turn.
LEMMA CountKept ==
  ASSUME TypeInv, TypeInv', CopiesInv, CountInv, [Next]_vars
  PROVE  CountInv'
<1>0. /\ None \notin Buckets /\ bucket \in [Clients -> Buckets \cup {None}]
      /\ persist \in [Clients -> Buckets]
  BY SortsAssumption DEF TypeInv, TypeOK
<1>1. ASSUME NEW r \in Requests,
             \/ \E c \in Clients, p \in Passwords : AdmitLogin(r, c, p)
             \/ \E c \in Clients, p, q \in Passwords : AdmitChange(r, c, p, q)
             \/ ReadRow(r) \/ ReadRowFails(r) \/ Verify(r) \/ CreateSession(r)
             \/ CreateSessionFails(r)
             \/ VerifyOld(r) \/ UpdateAdminPassword(r) \/ UpdateAdminPasswordFails(r)
             \/ ClearInitialPasswordFile(r) \/ ClearInitialPasswordFileFails(r)
      PROVE  CountInv'
  <2>1. UNCHANGED <<persist, inTurn, guesses>>
    BY <1>1, QuietSteps
  <2>2. \A c \in Clients : bucket'[c] = bucket[c] \/ (bucket[c] = None /\ bucket'[c] = persist[c])
    BY <1>1, QuietKeepsCopies
  <2>3. \A c \in Clients : GetBucket(c)' = GetBucket(c)
    BY <1>0, <2>1, <2>2 DEF GetBucket
  <2>4. \A c \in Clients : Locked(c) => Guessing(c)' \subseteq Guessing(c)
    BY <1>1, StepsShrink DEF LoginStep, ChangeStep
  <2> QED
    BY <2>1, <2>3, <2>4, CountFrame
<1>2. ASSUME NEW r \in Requests, Persist(r)
      PROVE  CountInv'
  <2>1. req[r].pc = "persist" /\ req[r].client \in Clients /\ UNCHANGED <<bucket, inTurn, guesses>>
    BY <1>2, HasClient DEF Persist, At, history
  <2>2. inTurn => \A c \in Clients : GetBucket(c)' = GetBucket(c)
    <3> SUFFICES ASSUME inTurn, NEW c \in Clients
                 PROVE  GetBucket(c)' = GetBucket(c)
      OBVIOUS
    <3>1. bucket[req[r].client] = req[r].snap[req[r].client]
      BY <2>1 DEF CopiesInv, InTurnInv
    <3>2. req[r].snap \in [Clients -> Buckets]
      BY DEF TypeInv, TypeOK, Request
    <3>3. bucket[req[r].client] # None
      BY <1>0, <2>1, <3>1, <3>2
    <3>4. c # req[r].client => persist'[c] = persist[c]
      BY <1>0, <1>2 DEF Persist
    <3> QED
      BY <2>1, <3>3, <3>4 DEF GetBucket
  <2>3. \A c \in Clients : Locked(c) => Guessing(c)' \subseteq Guessing(c)
    BY <1>2, StepsShrink DEF LoginStep
  <2> QED
    BY <2>1, <2>2, <2>3, CountFrame
<1>3. ASSUME NEW r \in Requests, Copy(r) \/ SaveToDisk(r) \/ SaveToDiskFails(r)
      PROVE  CountInv'
  <2>1. UNCHANGED <<bucket, persist, guesses>> /\ (inTurn' => inTurn)
    BY <1>3 DEF Copy, SaveToDisk, SaveToDiskFails, limiter, history
  <2>2. \A c \in Clients : GetBucket(c)' = GetBucket(c)
    BY <2>1 DEF GetBucket
  <2>3. \A c \in Clients : Locked(c) => Guessing(c)' \subseteq Guessing(c)
    BY <1>3, StepsShrink DEF LoginStep
  <2> QED
    BY <2>1, <2>2, <2>3, CountFrame
<1>4. CASE (\E s \in Sessions : Logout(s)) \/ DeleteExpiredSessions \/ UNCHANGED vars
  <2>1. UNCHANGED <<bucket, persist, req, guesses, inTurn>>
    BY <1>4 DEF Logout, DeleteExpiredSessions, vars, limiter, history
  <2>2. \A c \in Clients : GetBucket(c)' = GetBucket(c) /\ Guessing(c)' \subseteq Guessing(c)
    BY <2>1 DEF GetBucket, Guessing
  <2> QED
    BY <2>1, <2>2, CountFrame
<1>5. CASE Crash \/ Boot
  <2>1. guesses' = guesses /\ (inTurn' => inTurn /\ Recording = {} /\ persist' = persist)
    <3>1. guesses' = guesses
      BY <1>5 DEF Crash, Boot, EnsureDefaultAdmin, WriteInitialPassword, WriteInitialPasswordFails,
                  Start, history
    <3> QED
      BY <1>5, <3>1, BootKeepsCopies
  <2>2. ASSUME NEW c \in Clients, inTurn'
        PROVE  GetBucket(c)' = GetBucket(c)
    <3>1. bucket[c] \in {None, persist[c]}
      BY <2>1, <2>2 DEF CopiesInv, InTurnInv, Settled, Recording
    <3>2. bucket'[c] = None \/ bucket'[c] = bucket[c]
      BY <1>5 DEF Crash, Boot, EnsureDefaultAdmin, WriteInitialPassword, WriteInitialPasswordFails,
                  Start, limiter
    <3> QED
      BY <2>1, <2>2, <3>1, <3>2 DEF GetBucket
  <2>3. \A c \in Clients : Guessing(c)' \subseteq Guessing(c)
    BY <1>5 DEF Crash, Boot, EnsureDefaultAdmin, WriteInitialPassword, WriteInitialPasswordFails,
                Start, Guessing, Idle, Saving
  <2> QED
    BY <2>1, <2>2, <2>3, CountFrame
<1>6. ASSUME NEW r \in Requests, LoginStep(r) \/ ChangeStep(r)
      PROVE  CountInv'
  BY <1>1, <1>2, <1>3, <1>6, FailKeepsCount, SuccessKeepsCount DEF LoginStep, ChangeStep
<1> QED
  BY <1>4, <1>5, <1>6, TickKeepsCount DEF Next

\* Login.GuessesBounded: however the requests interleave in RecordFail and
\* saveToDisk, and across restarts, a client that has had the threshold of
\* wrong guesses within a tick is locked, and has had no more than that and
\* what was past CheckLogin when the lock fell.
THEOREM GuessesBoundedHolds == Spec => []GuessesBounded
<1>1. Init => CountInv
  <2> SUFFICES ASSUME Init, NEW c \in Clients
               PROVE  WellCounted(c)
    BY DEF CountInv
  <2>1. GetBucket(c) = Zero /\ guesses[c] = 0
    BY DEF Init, GetBucket
  <2> QED
    BY <2>1 DEF WellCounted, Locked, Zero
<1>2. TypeInv /\ TypeInv' /\ CopiesInv /\ CountInv /\ [Next]_vars => CountInv'
  BY CountKept
<1>3. TypeInv /\ CountInv => GuessesBounded
  <2> SUFFICES ASSUME TypeInv, CountInv, inTurn, NEW c \in Clients
               PROVE  /\ guesses[c] <= Threshold + Cardinality(Requests) - 1
                      /\ guesses[c] >= Threshold => Locked(c)
    BY DEF GuessesBounded
  <2>1. WellCounted(c) /\ guesses[c] \in Nat /\ GetBucket(c) \in Buckets
    BY BucketTyped DEF CountInv, TypeInv, TypeOK
  <2>2. GetBucket(c).fails \in Nat /\ GetBucket(c).fails <= Threshold - 1
    BY <2>1, FailCounts
  <2>3. /\ Cardinality(Guessing(c)) \in Nat /\ Cardinality(Requests) \in Nat
    <3>1. Guessing(c) \in SUBSET Requests
      BY DEF Guessing
    <3> QED
      BY <3>1, GuessingSize
  <2> QED
    BY <2>1, <2>2, <2>3, LimitsAssumption DEF WellCounted
<1> QED
  BY <1>1, <1>2, <1>3, TypesHold, CopiesHold, PTL DEF Spec
=============================================================================
