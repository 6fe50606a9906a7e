------------------------- MODULE UserPipelineProofs -------------------------
(***************************************************************************)
(* Proofs about UserPipeline, for every set of users and handlers, every   *)
(* bound and every set of faults.  TLC finds the same invariants true on   *)
(* the instances of MCUserPipeline.                                        *)
(***************************************************************************)
EXTENDS UserPipeline, TLAPS

-----------------------------------------------------------------------------
(* The records the actions write are in their domains. *)

\* The request, row and file records of an idle panel are in their domains.
LEMMA InitialRecords ==
    /\ NoRow \in Row /\ NoRequest \in Request /\ NoPw \in Secrets
    /\ NoFiles \in [Users -> Secrets]
    /\ NoSecrets \in [conf : Secrets, charon : Secrets]
<1>1. AnyUser \in Users
  BY UsersAssumption DEF AnyUser
<1>2. NoPw \in Secrets /\ 0 \in 0..MaxId
  BY BoundsAssumption DEF NoPw, Secrets
<1>3. NoRow \in Row
  BY <1>1, <1>2 DEF NoRow, Row, Due
<1> QED
  BY <1>1, <1>2, <1>3 DEF NoRequest, Request, PCs, OpKinds, NoFiles, NoSecrets

\* An UPDATE of one row's password by a password in range yields a table in range.
LEMMA RowUpdate ==
  ASSUME row \in [Ids -> Row], NEW i \in Ids
  PROVE  /\ \A t \in Row : [row EXCEPT ![i] = t] \in [Ids -> Row]
         /\ \A p \in Secrets : [row EXCEPT ![i].pw = p] \in [Ids -> Row]
         /\ \A b \in BOOLEAN : [row EXCEPT ![i].enabled = b] \in [Ids -> Row]
         /\ \A d \in Due : [row EXCEPT ![i].due = d] \in [Ids -> Row]
<1>1. row[i] \in Row
  OBVIOUS
<1>2. \A p \in Secrets : [row[i] EXCEPT !.pw = p] \in Row
  BY <1>1 DEF Row
<1>3. \A b \in BOOLEAN : [row[i] EXCEPT !.enabled = b] \in Row
  BY <1>1 DEF Row
<1>4. \A d \in Due : [row[i] EXCEPT !.due = d] \in Row
  BY <1>1 DEF Row
<1> QED
  BY <1>2, <1>3, <1>4

\* Clearing a row's enabled column changes no name and no date.
LEMMA RowDisable ==
  ASSUME row \in [Ids -> Row], NEW i \in Ids, row' = [row EXCEPT ![i].enabled = FALSE]
  PROVE  /\ row' \in [Ids -> Row]
         /\ \A j \in Ids : row'[j].name = row[j].name /\ row'[j].due = row[j].due
BY DEF Row

\* Setting a row's enabled column either way yields a table in range.
LEMMA RowSwitch ==
  ASSUME row \in [Ids -> Row], NEW i \in Ids, NEW o,
         UNCHANGED row \/ row' = [row EXCEPT ![i].enabled = (o = "enable")]
  PROVE  /\ row' \in [Ids -> Row]
         /\ \A j \in Ids : row'[j].name = row[j].name /\ row'[j].due = row[j].due
<1> DEFINE t == [row[i] EXCEPT !.enabled = (o = "enable")]
<1>1. t \in Row /\ t.name = row[i].name /\ t.due = row[i].due
  BY DEF Row
<1>2. UNCHANGED row \/ row' = [row EXCEPT ![i] = t]
  OBVIOUS
<1> HIDE DEF t
<1> QED
  BY <1>1, <1>2

\* Moving a handler to another step keeps its request well formed and leaves the
\* other handlers where they are.
LEMMA GotoOK ==
  ASSUME req \in [Requests -> Request], NEW r \in Requests, NEW p \in PCs, Goto(r, p)
  PROVE  /\ req' \in [Requests -> Request]
         /\ req'[r] = [req[r] EXCEPT !.pc = p]
         /\ \A q \in Requests \ {r} : req'[q] = req[q]
BY DEF Goto, Request

\* The first step of a handler stores a well-formed request.
LEMMA AskOK ==
  ASSUME req \in [Requests -> Request], NEW r \in Requests, NEW p \in PCs, NEW o \in OpKinds,
         NEW i \in 0..MaxId, NEW u \in Users, NEW w \in Secrets, NEW t \in Row,
         Ask(r, p, o, i, u, w, t)
  PROVE  req' \in [Requests -> Request]
BY DEF Ask, Request

\* A cancelled context leaves the request well formed.
LEMMA DisconnectOK ==
  ASSUME req \in [Requests -> Request], NEW r \in Requests, req' = [req EXCEPT ![r].ctx = FALSE]
  PROVE  req' \in [Requests -> Request]
BY DEF Request

\* The history variables stay in their domains when a request begins.
LEMMA EnterOK ==
  ASSUME TypeOK, NEW r \in Requests, NEW u \in Users, Enter(r, u)
  PROVE  /\ solo' \in [Requests -> BOOLEAN] /\ hit' \in [Requests -> SUBSET FaultKinds]
         /\ pre' \in [Requests -> [conf : Secrets, charon : Secrets]]
         /\ failures' \in 0..MaxFailures
<1>1. [conf |-> conf[u], charon |-> charon[u]] \in [conf : Secrets, charon : Secrets]
  BY DEF TypeOK
<1>2. \A q \in Requests : (IF q = r THEN Rivals(r, u) = {}
                          ELSE solo[q] /\ q \notin Rivals(r, u)) \in BOOLEAN
  OBVIOUS
<1> QED
  BY <1>1, <1>2 DEF TypeOK, Enter

\* What any outcome of a call leaves of the history variables.
LEMMA OutcomeOK ==
  ASSUME TypeOK, NEW r \in Requests, NEW f \in FaultKinds,
         FailsCtx(r, f) \/ Fails(r, f) \/ WorksCtx(r) \/ Works(r)
  PROVE  /\ solo' \in [Requests -> BOOLEAN] /\ hit' \in [Requests -> SUBSET FaultKinds]
         /\ pre' \in [Requests -> [conf : Secrets, charon : Secrets]]
         /\ failures' \in 0..MaxFailures
<1>1. CASE UNCHANGED history
  BY <1>1 DEF TypeOK, history
<1>2. CASE Fails(r, f)
  BY <1>2, BoundsAssumption DEF TypeOK, Fails, OneMoreFailure
<1> QED
  BY <1>1, <1>2 DEF FailsCtx, WorksCtx, Works

\* Whatever part of the files a load applies, charon holds secrets in range.
LEMMA LoadOK ==
  ASSUME TypeOK, NEW r \in Requests, LoadAll(r) \/ LoadPart(r), mu' = Free, Forget(r)
  PROVE  /\ charon' \in [Users -> Secrets] /\ synced' \in BOOLEAN
         /\ mu' \in Requests \cup {Free} /\ read' \in [Requests -> [Users -> Secrets]]
<1>1. read[r] \in [Users -> Secrets]
  BY DEF TypeOK
<1>2. charon' \in [Users -> Secrets] /\ synced' \in BOOLEAN
  <2>1. CASE LoadAll(r)
    BY <1>1, <2>1 DEF LoadAll
  <2>2. CASE LoadPart(r)
    BY <1>1, <2>2 DEF LoadPart, TypeOK
  <2> QED
    BY <2>1, <2>2
<1>3. read' \in [Requests -> [Users -> Secrets]]
  BY InitialRecords DEF TypeOK, Forget
<1> QED
  BY <1>2, <1>3

-----------------------------------------------------------------------------
(* The inductive invariant.                                                 *)

\* Rows: TypeOK and UniqueNames are not inductive on their own.  RecoverUser
\* inserts the id and the name that a handler of delete has carried since it
\* read the row, so the two have to belong together, and the id has to be one
\* that INSERT handed out.
Rows ==
    /\ live \subseteq 1..seq
    /\ UniqueNames
    /\ \A r \in Requests : InFlight(r) /\ req[r].op = "delete" =>
          /\ req[r].id \in 1..seq
          /\ req[r].old.name = req[r].name /\ row[req[r].id].name = req[r].name

\* reloadMu: a handler between its change of conf.d and the end of its
\* --load-all holds the mutex, and what its swanctl child has read is still
\* what conf.d holds.
Lock ==
    /\ \A r \in Requests : req[r].pc \in {"wload", "rload"} => mu = r /\ read[r] = conf
    /\ CharonTracksConfD

\* While the container is down nothing runs and charon knows nobody.
Down == ~up => /\ \A r \in Requests : req[r].pc = "idle"
               /\ conf = NoFiles /\ charon = NoFiles

\* The expiry loop's list: due rows, whatever happens to them meanwhile.
DueList ==
    /\ exp.todo \subseteq 1..seq
    /\ \A i \in exp.todo : row[i].due = "past"
    /\ exp.pc = "set" => exp.cur \in exp.todo

Inv == TypeOK /\ Rows /\ Lock /\ Down /\ DueList

-----------------------------------------------------------------------------
(* Types, action by action.                                                 *)

\* Every step of a handler after its first keeps the types.
LEMMA StepType == ASSUME Inv, NEW r \in Requests, Step(r) PROVE TypeOK'
<1> USE DEF Inv, TypeOK, PCs, db, vpn, proc
<1>1. CASE WriteConf(r)
  BY <1>1, GotoOK DEF WriteConf, Works, history, Request
<1>2. CASE WriteConfFails(r)
  BY <1>2, GotoOK, OutcomeOK DEF WriteConfFails, FaultKinds
<1>3. CASE WriteLoad(r)
  BY <1>3, GotoOK, OutcomeOK, LoadOK DEF WriteLoad, FaultKinds
<1>4. CASE WriteLoadFails(r)
  BY <1>4, GotoOK, OutcomeOK, LoadOK DEF WriteLoadFails, FaultKinds
<1>5. CASE WriteLimit(r)
  BY <1>5, GotoOK DEF WriteLimit, Works, history
<1>6. CASE WriteLimitFails(r)
  BY <1>6, GotoOK, OutcomeOK DEF WriteLimitFails, FaultKinds
<1>7. CASE RemoveConf(r)
  BY <1>7, GotoOK, InitialRecords DEF RemoveConf, Works, history
<1>8. CASE RemoveConfFails(r)
  BY <1>8, GotoOK, OutcomeOK DEF RemoveConfFails, AfterRemoveFails, FaultKinds
<1>9. CASE RemoveLoad(r)
  BY <1>9, GotoOK, OutcomeOK, LoadOK DEF RemoveLoad, FaultKinds
<1>10. CASE RemoveLoadFails(r)
  BY <1>10, GotoOK, OutcomeOK, LoadOK DEF RemoveLoadFails, AfterRemoveFails, FaultKinds
<1>11. CASE CreateUndo(r)
  BY <1>11, GotoOK, OutcomeOK DEF CreateUndo, FaultKinds
<1>12. CASE ResetUndo(r)
  <2>1. row' \in [Ids -> Row]
    BY <1>12, RowUpdate DEF ResetUndo, Request, Row
  <2> QED
    BY <1>12, <2>1, GotoOK, OutcomeOK DEF ResetUndo, FaultKinds
<1>13. CASE DisableUndo(r)
  <2>1. row' \in [Ids -> Row]
    BY <1>13, RowUpdate DEF DisableUndo
  <2> QED
    BY <1>13, <2>1, GotoOK, OutcomeOK DEF DisableUndo, FaultKinds
<1>14. CASE DeleteUndo(r)
  <2>1. req[r].id \in Ids /\ row[req[r].id].due \in Due /\ req[r].old \in Row
    BY <1>14, BoundsAssumption DEF DeleteUndo, Rows, InFlight, Request, Row, Ids
  <2>2. [req[r].old EXCEPT !.due = row[req[r].id].due] \in Row
    BY <2>1 DEF Row
  <2>3. row' \in [Ids -> Row] /\ live' \subseteq Ids
    BY <1>14, <2>1, <2>2 DEF DeleteUndo
  <2> QED
    BY <1>14, <2>3, GotoOK, OutcomeOK DEF DeleteUndo, FaultKinds
<1>15. CASE UndoFails(r)
  BY <1>15, GotoOK, OutcomeOK DEF UndoFails, FaultKinds
<1>16. CASE ResetUpdate(r)
  <2>1. row' \in [Ids -> Row]
    BY <1>16, RowUpdate DEF ResetUpdate, Request
  <2> QED
    BY <1>16, <2>1, GotoOK, OutcomeOK DEF ResetUpdate, FaultKinds
<1>17. CASE ResetUpdateFails(r)
  BY <1>17, GotoOK, OutcomeOK DEF ResetUpdateFails, FaultKinds
<1>18. CASE Lookup(r)
  BY <1>18, GotoOK, OutcomeOK DEF Lookup, FaultKinds
<1>19. CASE LookupFails(r)
  BY <1>19, GotoOK, OutcomeOK DEF LookupFails, FaultKinds
<1>20. CASE TerminateSA(r)
  BY <1>20, GotoOK, OutcomeOK DEF TerminateSA, FaultKinds
<1>21. CASE TerminateSeesNone(r)
  BY <1>21, GotoOK, OutcomeOK DEF TerminateSeesNone, FaultKinds
<1>22. CASE TerminateFails(r)
  BY <1>22, GotoOK, OutcomeOK DEF TerminateFails, FaultKinds
<1>23. CASE DeleteRow(r)
  BY <1>23, GotoOK, OutcomeOK DEF DeleteRow, FaultKinds
<1>24. CASE DeleteRowFails(r)
  BY <1>24, GotoOK, OutcomeOK DEF DeleteRowFails, FaultKinds
<1>25. CASE RemoveLimit(r)
  BY <1>25, GotoOK DEF RemoveLimit, Works, history
<1>26. CASE RemoveLimitFails(r)
  BY <1>26, GotoOK, OutcomeOK DEF RemoveLimitFails, FaultKinds
<1>27. CASE Return(r)
  BY <1>27, InitialRecords DEF Return
<1> QED
  BY <1>1, <1>2, <1>3, <1>4, <1>5, <1>6, <1>7, <1>8, <1>9, <1>10, <1>11, <1>12, <1>13,
     <1>14, <1>15, <1>16, <1>17, <1>18, <1>19, <1>20, <1>21, <1>22, <1>23, <1>24, <1>25,
     <1>26, <1>27 DEF Step

\* Every first step of a handler keeps the types.
LEMMA BeginType == ASSUME Inv, NEW r \in Requests, Begin(r) PROVE TypeOK'
<1> USE DEF Inv, TypeOK, db, vpn, proc
<1>b. ASSUME issued < MaxPw PROVE NewPw \in Secrets
  BY <1>b, BoundsAssumption DEF NewPw, Secrets
<1>c. \A i \in Ids : row[i].name \in Users /\ i \in 0..MaxId /\ row[i] \in Row
  BY BoundsAssumption DEF Ids, Row
<1>1. ASSUME NEW u \in Users, NEW en \in Enabled, NEW d \in Dates, CreateInsert(r, u, en, d)
      PROVE  TypeOK'
  <2>1. NextId \in Ids /\ NextId \in 0..MaxId /\ seq + 1 \in 0..MaxId /\ NewPw \in Secrets
    BY <1>1, <1>b, BoundsAssumption DEF CreateInsert, NextId, Ids
  <2>2. [name |-> u, pw |-> NewPw, enabled |-> en, due |-> d] \in Row
    BY <2>1, KindsAssumption DEF Row, Due
  <2>3. req' \in [Requests -> Request]
    BY <1>1, <2>1, AskOK, InitialRecords DEF CreateInsert, PCs, OpKinds
  <2> QED
    BY <1>1, <2>1, <2>2, <2>3, EnterOK, RowUpdate DEF CreateInsert
<1>2. ASSUME NEW u \in Users, CreateConflict(r, u) PROVE TypeOK'
  <2>1. req' \in [Requests -> Request]
    BY <1>2, AskOK, InitialRecords, BoundsAssumption DEF CreateConflict, PCs, OpKinds
  <2> QED
    BY <1>2, <2>1, EnterOK DEF CreateConflict
<1>3. ASSUME NEW i \in Ids, ResetRead(r, i) PROVE TypeOK'
  <2>1. req' \in [Requests -> Request] /\ issued' \in Secrets
    BY <1>3, <1>b, <1>c, AskOK DEF ResetRead, PCs, OpKinds
  <2> QED
    BY <1>3, <1>c, <2>1, EnterOK DEF ResetRead
<1>4. ASSUME NEW i \in Ids, Enable(r, i) \/ DisableSet(r, i) PROVE TypeOK'
  <2>1. PICK o \in {"enable", "disable"}, p \in {"ok", "lookup"} : Switch(r, i, o, p)
    BY <1>4 DEF Enable, DisableSet
  <2>2. req' \in [Requests -> Request]
    <3>1. Ask(r, p, o, i, row[i].name, NoPw, NoRow) \/ Ask(r, "failed", o, i, row[i].name, NoPw, NoRow)
      BY <2>1 DEF Switch
    <3>2. p \in PCs /\ "failed" \in PCs /\ o \in OpKinds
      BY DEF PCs, OpKinds
    <3> QED
      BY <1>c, <3>1, <3>2, AskOK, InitialRecords
  <2>3. row' \in [Ids -> Row]
    <3>1. UNCHANGED row \/ row' = [row EXCEPT ![i].enabled = (o = "enable")]
      BY <2>1 DEF Switch
    <3> QED
      BY <3>1, RowSwitch
  <2> QED
    BY <1>c, <2>1, <2>2, <2>3, EnterOK DEF Switch
<1>5. ASSUME NEW i \in Ids, DeleteRead(r, i) PROVE TypeOK'
  <2>1. req' \in [Requests -> Request]
    BY <1>5, <1>c, AskOK, InitialRecords DEF DeleteRead, PCs, OpKinds
  <2> QED
    BY <1>5, <1>c, <2>1, EnterOK DEF DeleteRead
<1> QED
  BY <1>1, <1>2, <1>3, <1>4, <1>5 DEF Begin

\* Every step of the expiry loop keeps the types.
LEMMA ExpiryType == ASSUME Inv, Expiry PROVE TypeOK'
<1> USE DEF Inv, TypeOK, db, vpn, proc, history
<1>1. CASE ExpiryScan
  BY <1>1 DEF ExpiryScan, Expired
<1>2. ASSUME NEW i \in Ids, ExpiryTerminate(i) PROVE TypeOK'
  <2>1. i \in 0..MaxId
    BY BoundsAssumption DEF Ids
  <2> QED
    BY <1>2, <2>1 DEF ExpiryTerminate
<1>3. ASSUME ExpiryMoveOn
      PROVE  exp' \in [pc : {"idle", "term", "set"}, todo : SUBSET Ids, cur : 0..MaxId]
  BY <1>3, BoundsAssumption DEF ExpiryMoveOn
<1>4. CASE ExpirySet
  <2>1. row' \in [Ids -> Row]
    <3>1. UNCHANGED row \/ (exp.cur \in Ids /\ row' = [row EXCEPT ![exp.cur].enabled = FALSE])
      BY <1>4 DEF ExpirySet
    <3> QED
      BY <3>1, RowDisable
  <2> QED
    BY <1>3, <1>4, <2>1 DEF ExpirySet
<1>5. CASE ExpirySetFails
  BY <1>3, <1>5, BoundsAssumption DEF ExpirySetFails, OneMoreFailure
<1> QED
  BY <1>1, <1>2, <1>4, <1>5 DEF Expiry

\* Clients, the clock and disconnects keep the types.
LEMMA EnvironmentType == ASSUME Inv, Environment PROVE TypeOK'
<1> USE DEF Inv, TypeOK, db, vpn, proc, history
<1>1. ASSUME NEW u \in Users, Dial(u) \/ HangUp(u) PROVE TypeOK'
  BY <1>1 DEF Dial, HangUp
<1>2. ASSUME NEW i \in Ids, Expire(i) PROVE TypeOK'
  BY <1>2, RowUpdate DEF Expire, Due
<1>3. ASSUME NEW r \in Requests, Disconnect(r) PROVE TypeOK'
  <2>1. req' \in [Requests -> Request]
    BY <1>3, DisconnectOK DEF Disconnect
  <2> QED
    BY <1>3, <2>1, BoundsAssumption DEF Disconnect, OneMoreFailure, FaultKinds
<1> QED
  BY <1>1, <1>2, <1>3 DEF Environment

\* A user's new file is the password of a row that bears its name.
LEMMA BackfillOK ==
  ASSUME TypeOK, NEW written \in SUBSET Missing
  PROVE  /\ Backfill(written) \in [Users -> Secrets]
         /\ \A u \in Users : \/ Backfill(written)[u] = conf[u]
                             \/ \E i \in written : row[i].name = u /\ Backfill(written)[u] = row[i].pw
<1> SUFFICES ASSUME NEW u \in Users
             PROVE  /\ Backfill(written)[u] \in Secrets
                    /\ \/ Backfill(written)[u] = conf[u]
                       \/ \E i \in written : row[i].name = u /\ Backfill(written)[u] = row[i].pw
  BY DEF Backfill
<1>1. CASE \E i \in written : row[i].name = u
  <2> DEFINE c == CHOOSE i \in written : row[i].name = u
  <2>1. c \in written /\ row[c].name = u
    BY <1>1
  <2>2. row[c].pw \in Secrets
    BY <2>1 DEF TypeOK, Missing, Row
  <2>3. Backfill(written)[u] = row[c].pw
    BY <1>1 DEF Backfill
  <2> QED
    BY <2>1, <2>2, <2>3
<1>2. CASE ~ \E i \in written : row[i].name = u
  <2>1. Backfill(written)[u] = conf[u]
    BY <1>2 DEF Backfill
  <2> QED
    BY <2>1 DEF TypeOK
<1> QED
  BY <1>1, <1>2

\* A restart and the startup backfill keep the types.
LEMMA CrashBootType == ASSUME Inv, Crash \/ Boot PROVE TypeOK'
<1> USE DEF Inv, TypeOK, db, vpn, proc, history
<1>1. CASE Crash
  <2>1. exp' \in [pc : {"idle", "term", "set"}, todo : SUBSET Ids, cur : 0..MaxId]
    BY <1>1, BoundsAssumption DEF Crash, NoExpiry
  <2>2. crashes' \in 0..MaxCrashes /\ mu' \in Requests \cup {Free} /\ synced' \in BOOLEAN
    BY <1>1, BoundsAssumption DEF Crash
  <2>3. /\ limits' \in [Users -> BOOLEAN] /\ sa' \in [Users -> BOOLEAN]
        /\ solo' \in [Requests -> BOOLEAN] /\ hit' \in [Requests -> SUBSET FaultKinds]
    BY <1>1 DEF Crash
  <2>4. /\ req' \in [Requests -> Request] /\ read' \in [Requests -> [Users -> Secrets]]
        /\ pre' \in [Requests -> [conf : Secrets, charon : Secrets]]
        /\ conf' \in [Users -> Secrets] /\ charon' \in [Users -> Secrets]
    BY <1>1, InitialRecords DEF Crash
  <2> QED
    BY <1>1, <2>1, <2>2, <2>3, <2>4 DEF Crash
<1>2. CASE Boot
  <2>1. PICK written \in SUBSET Missing :
          /\ conf' = Backfill(written)
          /\ \/ charon' = conf' /\ synced' = TRUE
             \/ UNCHANGED <<charon, synced>>
             \/ /\ \E part \in SUBSET Users :
                     charon' = [u \in Users |-> IF u \in part THEN conf'[u] ELSE charon[u]]
                /\ synced' = FALSE
    BY <1>2 DEF Boot
  <2>2. conf' \in [Users -> Secrets]
    BY <2>1, BackfillOK
  <2>3. charon' \in [Users -> Secrets] /\ synced' \in BOOLEAN
    BY <2>1, <2>2
  <2>4. failures' \in 0..MaxFailures
    BY <1>2, BoundsAssumption DEF Boot, OneMoreFailure
  <2> QED
    BY <1>2, <2>2, <2>3, <2>4 DEF Boot
<1> QED
  BY <1>1, <1>2

\* The empty panel satisfies the inductive invariant.
LEMMA InitInv == Init => Inv
<1> SUFFICES ASSUME Init PROVE Inv
  OBVIOUS
<1>1. TypeOK
  <2>1. /\ live \subseteq Ids /\ seq \in 0..MaxId /\ issued \in Secrets
        /\ crashes \in 0..MaxCrashes /\ failures \in 0..MaxFailures
    BY BoundsAssumption DEF Init, Secrets
  <2>2. exp \in [pc : {"idle", "term", "set"}, todo : SUBSET Ids, cur : 0..MaxId]
    BY BoundsAssumption DEF Init, NoExpiry
  <2>3. /\ limits \in [Users -> BOOLEAN] /\ sa \in [Users -> BOOLEAN] /\ up \in BOOLEAN
        /\ synced \in BOOLEAN /\ mu \in Requests \cup {Free}
        /\ solo \in [Requests -> BOOLEAN] /\ hit \in [Requests -> SUBSET FaultKinds]
    BY DEF Init
  <2>4. /\ row \in [Ids -> Row] /\ conf \in [Users -> Secrets] /\ charon \in [Users -> Secrets]
        /\ req \in [Requests -> Request] /\ read \in [Requests -> [Users -> Secrets]]
        /\ pre \in [Requests -> [conf : Secrets, charon : Secrets]]
    BY InitialRecords DEF Init
  <2> QED
    BY <2>1, <2>2, <2>3, <2>4 DEF TypeOK
<1>2. Rows
  BY DEF Init, Rows, UniqueNames, InFlight, NoRequest
<1>3. Lock /\ Down /\ DueList
  BY DEF Init, Lock, CharonTracksConfD, Down, DueList, NoRequest, NoExpiry
<1> QED
  BY <1>1, <1>2, <1>3 DEF Inv

\* Every step of the system keeps the types.
LEMMA NextType == ASSUME Inv, [Next]_vars PROVE TypeOK'
<1>1. ASSUME NEW r \in Requests, Begin(r) \/ Step(r) PROVE TypeOK'
  BY <1>1, BeginType, StepType
<1>2. CASE Expiry \/ Environment \/ Crash \/ Boot
  BY <1>2, ExpiryType, EnvironmentType, CrashBootType
<1>3. CASE UNCHANGED vars
  BY <1>3 DEF Inv, TypeOK, vars, db, vpn, proc, history
<1> QED
  BY <1>1, <1>2, <1>3 DEF Next

-----------------------------------------------------------------------------
(* What the steps of a handler have in common.                              *)

\* The fields that Goto leaves alone.
LEMMA GotoFields ==
  ASSUME req \in [Requests -> Request], NEW r \in Requests, NEW p, Goto(r, p)
  PROVE  /\ req'[r].pc = p
         /\ \A q \in Requests :
              /\ q # r => req'[q] = req[q]
              /\ req'[q].op = req[q].op /\ req'[q].id = req[q].id
              /\ req'[q].name = req[q].name /\ req'[q].old = req[q].old
BY DEF Goto, Request

\* A handler's step moves that handler alone, and leaves the container and the
\* expiry loop's list alone.
LEMMA StepMoves ==
  ASSUME NEW r \in Requests, Step(r)
  PROVE  /\ InFlight(r) /\ UNCHANGED <<proc, exp>>
         /\ req' = [req EXCEPT ![r] = NoRequest] \/ \E p \in PCs : Goto(r, p)
<1>1. CASE \/ WriteConf(r) \/ WriteConfFails(r) \/ WriteLoad(r) \/ WriteLoadFails(r)
           \/ WriteLimit(r) \/ WriteLimitFails(r)
  BY <1>1 DEF InFlight, PCs, WriteConf, WriteConfFails, WriteLoad, WriteLoadFails,
              WriteLimit, WriteLimitFails
<1>2. CASE RemoveConf(r) \/ RemoveConfFails(r) \/ RemoveLoad(r) \/ RemoveLoadFails(r)
  BY <1>2 DEF InFlight, PCs, RemoveConf, RemoveConfFails, RemoveLoad, RemoveLoadFails,
              AfterRemoveFails
<1>3. CASE CreateUndo(r) \/ ResetUndo(r) \/ DisableUndo(r) \/ DeleteUndo(r) \/ UndoFails(r)
  BY <1>3 DEF InFlight, PCs, CreateUndo, ResetUndo, DisableUndo, DeleteUndo, UndoFails
<1>4. CASE \/ ResetUpdate(r) \/ ResetUpdateFails(r) \/ Lookup(r) \/ LookupFails(r)
           \/ TerminateSA(r) \/ TerminateSeesNone(r) \/ TerminateFails(r)
  BY <1>4 DEF InFlight, PCs, ResetUpdate, ResetUpdateFails, Lookup, LookupFails,
              TerminateSA, TerminateSeesNone, TerminateFails
<1>5. CASE \/ DeleteRow(r) \/ DeleteRowFails(r) \/ RemoveLimit(r) \/ RemoveLimitFails(r)
           \/ Return(r)
  BY <1>5 DEF InFlight, PCs, DeleteRow, DeleteRowFails, RemoveLimit, RemoveLimitFails, Return
<1> QED
  BY <1>1, <1>2, <1>3, <1>4, <1>5 DEF Step

\* An id keeps its name and its date for ever: no handler's step changes either,
\* not even RecoverUser.  After its first step a handler disables nobody.
LEMMA StepKeepsNames ==
  ASSUME Inv, NEW r \in Requests, Step(r)
  PROVE  /\ seq' = seq
         /\ \A i \in Ids : row'[i].name = row[i].name /\ row'[i].due = row[i].due
         /\ \A i \in live : row[i].enabled => row'[i].enabled
<1> USE DEF Inv, TypeOK, db
<1>1. CASE ResetUndo(r) \/ DisableUndo(r) \/ ResetUpdate(r)
  <2>1. CASE ResetUndo(r)
    BY <2>1 DEF ResetUndo, Row
  <2>2. CASE DisableUndo(r)
    BY <2>2 DEF DisableUndo, Row
  <2>3. CASE ResetUpdate(r)
    BY <2>3 DEF ResetUpdate, Row
  <2> QED
    BY <1>1, <2>1, <2>2, <2>3
<1>2. CASE DeleteUndo(r)
  <2>1. req[r].old.name = row[req[r].id].name
    BY <1>2 DEF DeleteUndo, Rows, InFlight
  <2> DEFINE t == [req[r].old EXCEPT !.due = row[req[r].id].due]
  <2>2. t.name = row[req[r].id].name /\ t.due = row[req[r].id].due
    BY <2>1 DEF Row, Request
  <2>3. UNCHANGED row \/ row' = [row EXCEPT ![req[r].id] = t]
    BY <1>2 DEF DeleteUndo
  <2>4. seq' = seq /\ \A i \in live : row'[i] = row[i]
    BY <1>2 DEF DeleteUndo
  <2> HIDE DEF t
  <2> QED
    BY <2>2, <2>3, <2>4
<1>3. CASE CreateUndo(r) \/ DeleteRow(r)
  BY <1>3 DEF CreateUndo, DeleteRow
<1>4. CASE \/ WriteConf(r) \/ WriteConfFails(r) \/ WriteLoad(r) \/ WriteLoadFails(r)
           \/ WriteLimit(r) \/ WriteLimitFails(r) \/ UndoFails(r) \/ Return(r)
           \/ RemoveConf(r) \/ RemoveConfFails(r) \/ RemoveLoad(r) \/ RemoveLoadFails(r)
  BY <1>4 DEF WriteConf, WriteConfFails, WriteLoad, WriteLoadFails, WriteLimit, WriteLimitFails,
              UndoFails, Return, RemoveConf, RemoveConfFails, RemoveLoad, RemoveLoadFails
<1>5. CASE \/ ResetUpdateFails(r) \/ Lookup(r) \/ LookupFails(r) \/ DeleteRowFails(r)
           \/ TerminateSA(r) \/ TerminateSeesNone(r) \/ TerminateFails(r)
           \/ RemoveLimit(r) \/ RemoveLimitFails(r)
  BY <1>5 DEF ResetUpdateFails, Lookup, LookupFails, DeleteRowFails, TerminateSA,
              TerminateSeesNone, TerminateFails, RemoveLimit, RemoveLimitFails
<1> QED
  BY <1>1, <1>2, <1>3, <1>4, <1>5 DEF Step

\* Rows enter the table in one step only, when RecoverUser finds the id and the
\* name free.
LEMMA StepAddsRows ==
  ASSUME Inv, NEW r \in Requests, Step(r)
  PROVE  \/ live' \subseteq live
         \/ /\ req[r].op = "delete" /\ live' = live \cup {req[r].id}
            /\ Named(req[r].name) = {}
<1> USE DEF db
<1>1. CASE CreateUndo(r) \/ DeleteRow(r)
  BY <1>1 DEF CreateUndo, DeleteRow
<1>2. CASE DeleteUndo(r)
  BY <1>2 DEF DeleteUndo
<1>3. CASE \/ WriteConf(r) \/ WriteConfFails(r) \/ WriteLoad(r) \/ WriteLoadFails(r)
           \/ WriteLimit(r) \/ WriteLimitFails(r) \/ UndoFails(r) \/ Return(r)
           \/ RemoveConf(r) \/ RemoveConfFails(r) \/ RemoveLoad(r) \/ RemoveLoadFails(r)
  BY <1>3 DEF WriteConf, WriteConfFails, WriteLoad, WriteLoadFails, WriteLimit, WriteLimitFails,
              UndoFails, Return, RemoveConf, RemoveConfFails, RemoveLoad, RemoveLoadFails
<1>4. CASE \/ ResetUpdateFails(r) \/ Lookup(r) \/ LookupFails(r) \/ DeleteRowFails(r)
           \/ TerminateSA(r) \/ TerminateSeesNone(r) \/ TerminateFails(r)
           \/ RemoveLimit(r) \/ RemoveLimitFails(r)
  BY <1>4 DEF ResetUpdateFails, Lookup, LookupFails, DeleteRowFails, TerminateSA,
              TerminateSeesNone, TerminateFails, RemoveLimit, RemoveLimitFails
<1>5. CASE ResetUndo(r) \/ DisableUndo(r) \/ ResetUpdate(r)
  BY <1>5 DEF ResetUndo, DisableUndo, ResetUpdate
<1> QED
  BY <1>1, <1>2, <1>3, <1>4, <1>5 DEF Step

\* A handler's step does one of three things to reloadMu, conf.d and charon:
\* it takes the mutex and changes conf.d, it reloads and lets go of the mutex,
\* or it leaves them alone and stays outside the critical section.
Takes(r) ==
    /\ mu = Free /\ mu' = r /\ UNCHANGED <<charon, synced>>
    /\ read' = [read EXCEPT ![r] = conf']

LetsGo(r) ==
    /\ req[r].pc \in {"wload", "rload"} /\ mu' = Free /\ UNCHANGED conf
    /\ LoadAll(r) \/ LoadPart(r)
    /\ Forget(r) /\ req'[r].pc \notin {"wload", "rload"}

StaysOut(r) == UNCHANGED vpn /\ req'[r].pc \notin {"wload", "rload"}

\* What a handler's step does to reloadMu and the files: it stays out of the critical
\* section, or enters it, or leaves it after a load that succeeded or failed.
LEMMA StepShape ==
  ASSUME TypeOK, NEW r \in Requests, Step(r)
  PROVE  Takes(r) \/ LetsGo(r) \/ StaysOut(r)
<1> USE DEF TypeOK
<1>1. CASE WriteConf(r) \/ RemoveConf(r)
  <2>1. CASE WriteConf(r)
    BY <2>1 DEF WriteConf, Takes
  <2>2. CASE RemoveConf(r)
    BY <2>2 DEF RemoveConf, Takes
  <2> QED
    BY <1>1, <2>1, <2>2
<1>2. CASE WriteLoad(r) \/ WriteLoadFails(r) \/ RemoveLoad(r) \/ RemoveLoadFails(r)
  <2>1. CASE WriteLoad(r)
    BY <2>1, GotoFields DEF WriteLoad, LetsGo
  <2>2. CASE WriteLoadFails(r)
    BY <2>2, GotoFields DEF WriteLoadFails, LetsGo
  <2>3. CASE RemoveLoad(r)
    BY <2>3, GotoFields DEF RemoveLoad, LetsGo
  <2>4. CASE RemoveLoadFails(r)
    BY <2>4, GotoFields DEF RemoveLoadFails, AfterRemoveFails, LetsGo
  <2> QED
    BY <1>2, <2>1, <2>2, <2>3, <2>4
<1>3. CASE \/ WriteConfFails(r) \/ WriteLimit(r) \/ WriteLimitFails(r) \/ RemoveConfFails(r)
           \/ CreateUndo(r) \/ ResetUndo(r) \/ DisableUndo(r) \/ DeleteUndo(r) \/ UndoFails(r)
  BY <1>3, GotoFields DEF WriteConfFails, WriteLimit, WriteLimitFails, RemoveConfFails,
       CreateUndo, ResetUndo, DisableUndo, DeleteUndo, UndoFails, StaysOut, AfterRemoveFails
<1>4. CASE \/ ResetUpdate(r) \/ ResetUpdateFails(r) \/ Lookup(r) \/ LookupFails(r)
           \/ TerminateSA(r) \/ TerminateSeesNone(r) \/ TerminateFails(r)
  BY <1>4, GotoFields DEF ResetUpdate, ResetUpdateFails, Lookup, LookupFails,
       TerminateSA, TerminateSeesNone, TerminateFails, StaysOut
<1>5. CASE DeleteRow(r) \/ DeleteRowFails(r) \/ RemoveLimit(r) \/ RemoveLimitFails(r)
  BY <1>5, GotoFields DEF DeleteRow, DeleteRowFails, RemoveLimit, RemoveLimitFails, StaysOut
<1>6. CASE Return(r)
  BY <1>6 DEF Return, NoRequest, StaysOut
<1> QED
  BY <1>1, <1>2, <1>3, <1>4, <1>5, <1>6 DEF Step

-----------------------------------------------------------------------------
(* What the first steps of a handler have in common.                        *)

\* The request that a first step stores carries exactly what it was given.
LEMMA AskFields ==
  ASSUME req \in [Requests -> Request], NEW r \in Requests, NEW p, NEW o, NEW i, NEW u, NEW w,
         NEW t, Ask(r, p, o, i, u, w, t)
  PROVE  /\ req'[r].pc = p /\ req'[r].op = o /\ req'[r].id = i /\ req'[r].name = u
         /\ req'[r].old = t
         /\ \A q \in Requests : q # r => req'[q] = req[q]
BY DEF Ask

\* A handler starts outside the critical section, while the panel serves.
BeginsOut(r) ==
    /\ up /\ UNCHANGED <<vpn, proc, exp>>
    /\ req[r].pc = "idle" /\ req'[r].pc \notin {"idle", "wload", "rload"}
    /\ \A q \in Requests \ {r} : req'[q] = req[q]

\* Only INSERT and the switches touch the table, and a handler of delete holds
\* the row it read.
BeginsRows(r) ==
    \/ /\ live' = live \cup {NextId} /\ seq' = NextId /\ req'[r].op = "create"
       /\ \A i \in Ids \ {NextId} : row'[i] = row[i]
       /\ \E u \in Users : row'[NextId].name = u /\ Named(u) = {}
    \/ /\ UNCHANGED <<live, seq>> /\ req'[r].op # "delete"
       /\ \A i \in Ids : row'[i].name = row[i].name /\ row'[i].due = row[i].due
    \/ /\ UNCHANGED <<live, seq, row>> /\ req'[r].op = "delete"
       /\ \E i \in live : /\ req'[r].id = i /\ req'[r].old = row[i]
                          /\ req'[r].name = row[i].name

\* A first step takes no lock, touches no file, and copies the row it will work on.
LEMMA BeginShape ==
  ASSUME Inv, NEW r \in Requests, Begin(r)
  PROVE  BeginsOut(r) /\ BeginsRows(r)
<1> USE DEF Inv, TypeOK
<1>1. ASSUME NEW u \in Users, NEW en \in Enabled, NEW d \in Dates, CreateInsert(r, u, en, d)
      PROVE  BeginsOut(r) /\ BeginsRows(r)
  <2>1. NextId \in Ids
    BY <1>1, BoundsAssumption DEF CreateInsert, NextId, Ids
  <2>2. BeginsOut(r)
    BY <1>1, AskFields DEF CreateInsert, Enter, BeginsOut, vpn
  <2>3. req'[r].op = "create"
    BY <1>1, AskFields DEF CreateInsert
  <2>4. row'[NextId].name = u /\ \A i \in Ids \ {NextId} : row'[i] = row[i]
    BY <1>1, <2>1 DEF CreateInsert
  <2>5. live' = live \cup {NextId} /\ seq' = NextId /\ Named(u) = {}
    BY <1>1 DEF CreateInsert, NextId
  <2> QED
    BY <2>2, <2>3, <2>4, <2>5 DEF BeginsRows
<1>2. ASSUME NEW u \in Users, CreateConflict(r, u) PROVE BeginsOut(r) /\ BeginsRows(r)
  BY <1>2, AskFields DEF CreateConflict, Enter, BeginsOut, BeginsRows, vpn, db
<1>3. ASSUME NEW i \in Ids, ResetRead(r, i) PROVE BeginsOut(r) /\ BeginsRows(r)
  BY <1>3, AskFields DEF ResetRead, Enter, BeginsOut, BeginsRows, vpn
<1>4. ASSUME NEW i \in Ids, NEW o \in {"enable", "disable"}, NEW p \in {"ok", "lookup"},
             Switch(r, i, o, p)
      PROVE  BeginsOut(r) /\ BeginsRows(r)
  <2>1. BeginsOut(r) /\ req'[r].op # "delete"
    BY <1>4, AskFields DEF Switch, Enter, BeginsOut, vpn
  <2>2. \A j \in Ids : row'[j].name = row[j].name /\ row'[j].due = row[j].due
    <3>1. UNCHANGED row \/ row' = [row EXCEPT ![i].enabled = (o = "enable")]
      BY <1>4 DEF Switch
    <3> QED
      BY <3>1, RowSwitch
  <2>3. UNCHANGED <<live, seq>>
    BY <1>4 DEF Switch
  <2> QED
    BY <2>1, <2>2, <2>3 DEF BeginsRows
<1>5. ASSUME NEW i \in Ids, DeleteRead(r, i) PROVE BeginsOut(r) /\ BeginsRows(r)
  BY <1>5, AskFields DEF DeleteRead, Enter, BeginsOut, BeginsRows, vpn, db
<1> QED
  BY <1>1, <1>2, <1>3, <1>4, <1>5 DEF Begin, Enable, DisableSet

\* The expiry loop, clients and the clock leave reloadMu and the files alone, and
\* no handler moves with them.
LEMMA OthersShape ==
  ASSUME Inv, Expiry \/ Environment
  PROVE  /\ UNCHANGED <<vpn, proc, live, seq>>
         /\ \A q \in Requests :
              /\ req'[q].pc = req[q].pc /\ req'[q].op = req[q].op /\ req'[q].id = req[q].id
              /\ req'[q].name = req[q].name /\ req'[q].old = req[q].old
         /\ \A i \in Ids : /\ row'[i].name = row[i].name
                           /\ row[i].due = "past" => row'[i].due = "past"
<1> USE DEF Inv, TypeOK, db
<1>1. CASE ExpiryScan
  BY <1>1 DEF ExpiryScan
<1>2. ASSUME NEW i \in Ids, ExpiryTerminate(i)
      PROVE  UNCHANGED <<vpn, proc, live, seq, row, req>>
  BY <1>2 DEF ExpiryTerminate
<1>3. CASE ExpirySet
  <2>1. \A j \in Ids : row'[j].name = row[j].name /\ row'[j].due = row[j].due
    <3>1. UNCHANGED row \/ (exp.cur \in Ids /\ row' = [row EXCEPT ![exp.cur].enabled = FALSE])
      BY <1>3 DEF ExpirySet
    <3> QED
      BY <3>1, RowDisable
  <2> QED
    BY <1>3, <2>1 DEF ExpirySet
<1>4. CASE ExpirySetFails
  BY <1>4 DEF ExpirySetFails
<1>5. ASSUME NEW u \in Users, Dial(u) \/ HangUp(u)
      PROVE  UNCHANGED <<vpn, proc, live, seq, row, req>>
  BY <1>5 DEF Dial, HangUp
<1>6. ASSUME NEW i \in Ids, Expire(i)
      PROVE  /\ UNCHANGED <<vpn, proc, live, seq, req>>
             /\ \A j \in Ids : /\ row'[j].name = row[j].name
                               /\ row[j].due = "past" => row'[j].due = "past"
  BY <1>6 DEF Expire, Row
<1>7. ASSUME NEW r \in Requests, Disconnect(r)
      PROVE  /\ UNCHANGED <<vpn, proc, live, seq, row>>
             /\ \A q \in Requests :
                  /\ req'[q].pc = req[q].pc /\ req'[q].op = req[q].op /\ req'[q].id = req[q].id
                  /\ req'[q].name = req[q].name /\ req'[q].old = req[q].old
  BY <1>7 DEF Disconnect, Request
<1> QED
  BY <1>1, <1>2, <1>3, <1>4, <1>5, <1>6, <1>7 DEF Expiry, Environment

-----------------------------------------------------------------------------
(* The inductive step.                                                      *)

\* Only the holder of reloadMu is between its change of conf.d and its load.
LEMMA NextLock == ASSUME Inv, [Next]_vars PROVE Lock'
<1> USE DEF Inv, Lock, CharonTracksConfD
<1>1. ASSUME NEW r \in Requests, Step(r) PROVE Lock'
  <2>0. req[r].pc \in PCs /\ Free # r
    BY FreeAssumption DEF TypeOK, Request
  <2>1. \A q \in Requests : q # r => req'[q] = req[q]
    BY <1>1, StepMoves, GotoFields DEF TypeOK
  <2>2. CASE Takes(r)
    <3>1. \A q \in Requests : req[q].pc \notin {"wload", "rload"}
      BY <2>2, FreeAssumption DEF Takes
    <3>2. read'[r] = conf'
      BY <2>2 DEF Takes, TypeOK
    <3> QED
      BY <2>0, <2>1, <2>2, <3>1, <3>2 DEF Takes
  <2>3. CASE LetsGo(r)
    <3>1. mu = r /\ read[r] = conf
      BY <2>3 DEF LetsGo
    <3>2. \A q \in Requests : req'[q].pc \notin {"wload", "rload"}
      BY <2>1, <2>3, <3>1 DEF LetsGo
    <3>3. synced' => charon' = conf'
      BY <2>3, <3>1 DEF LetsGo, LoadAll, LoadPart
    <3> QED
      BY <3>2, <3>3
  <2>4. CASE StaysOut(r)
    BY <2>1, <2>4 DEF StaysOut, vpn
  <2> QED
    BY <1>1, <2>2, <2>3, <2>4, StepShape
<1>2. ASSUME NEW r \in Requests, Begin(r) PROVE Lock'
  BY <1>2, BeginShape DEF BeginsOut, vpn
<1>3. CASE Expiry \/ Environment
  BY <1>3, OthersShape DEF vpn
<1>4. CASE Crash
  BY <1>4 DEF Crash, NoRequest
<1>5. CASE Boot
  <2>1. \A q \in Requests : req'[q].pc = "idle"
    BY <1>5 DEF Boot, Down
  <2>2. conf' = charon' \/ ~synced' \/ UNCHANGED <<conf, charon, synced, mu>>
    <3>1. Backfill({}) = conf
      BY DEF Backfill, TypeOK
    <3> QED
      BY <1>5, <3>1 DEF Boot
  <2>3. UNCHANGED mu
    BY <1>5 DEF Boot
  <2> QED
    BY <2>1, <2>2, <2>3
<1>6. CASE UNCHANGED vars
  BY <1>6 DEF vars, vpn
<1> QED
  BY <1>1, <1>2, <1>3, <1>4, <1>5, <1>6 DEF Next

\* While the container is down nothing is in flight and nothing is loaded.
LEMMA NextDown == ASSUME Inv, [Next]_vars PROVE Down'
<1> USE DEF Inv, Down
<1>1. ASSUME NEW r \in Requests, Step(r) PROVE Down'
  BY <1>1, StepMoves DEF InFlight, proc
<1>2. ASSUME NEW r \in Requests, Begin(r) PROVE Down'
  BY <1>2, BeginShape DEF BeginsOut, proc
<1>3. CASE Expiry \/ Environment
  BY <1>3, OthersShape DEF vpn, proc
<1>4. CASE Crash
  BY <1>4 DEF Crash, NoRequest
<1>5. CASE Boot
  BY <1>5 DEF Boot
<1>6. CASE UNCHANGED vars
  BY <1>6 DEF vars, vpn, proc
<1> QED
  BY <1>1, <1>2, <1>3, <1>4, <1>5, <1>6 DEF Next

\* Rows stay within the ids handed out, with unique names, and every copy of a row
\* bears the name and the date of its id.
LEMMA NextRows == ASSUME Inv, [Next]_vars PROVE Rows'
<1> USE DEF Inv, InFlight
<1>0. seq \in Nat /\ 1..seq \subseteq Ids
  BY BoundsAssumption DEF TypeOK, Ids
<1>1. ASSUME NEW r \in Requests, Step(r) PROVE Rows'
  <2>1. /\ seq' = seq
        /\ \A i \in Ids : row'[i].name = row[i].name
    BY <1>1, StepKeepsNames
  <2>2. req[r].pc # "idle"
    BY <1>1, StepMoves
  <2>3. live' \subseteq 1..seq
    BY <1>1, <2>2, StepAddsRows DEF Rows
  <2>4. UniqueNames'
    <3>1. CASE live' \subseteq live
      BY <1>0, <2>1, <3>1 DEF UniqueNames, Rows
    <3>2. CASE req[r].op = "delete" /\ live' = live \cup {req[r].id} /\ Named(req[r].name) = {}
      <4>1. req[r].id \in Ids /\ row[req[r].id].name = req[r].name
        BY <1>0, <2>2, <3>2 DEF Rows
      <4>2. \A i \in live : i \in Ids /\ row[i].name # req[r].name
        BY <1>0, <3>2 DEF Named, Rows
      <4>3. \A i, j \in live : row[i].name = row[j].name => i = j
        BY DEF Rows, UniqueNames
      <4> QED
        BY <2>1, <3>2, <4>1, <4>2, <4>3 DEF UniqueNames
    <3> QED
      BY <1>1, <3>1, <3>2, StepAddsRows
  <2>5. \A q \in Requests : req'[q].pc # "idle" =>
          /\ req[q].pc # "idle" /\ req'[q].op = req[q].op /\ req'[q].id = req[q].id
          /\ req'[q].name = req[q].name /\ req'[q].old = req[q].old
    <3>1. CASE req' = [req EXCEPT ![r] = NoRequest]
      BY <3>1 DEF TypeOK, NoRequest
    <3>2. ASSUME NEW p \in PCs, Goto(r, p)
          PROVE  \A q \in Requests : req'[q].pc # "idle" =>
                   /\ req[q].pc # "idle" /\ req'[q].op = req[q].op /\ req'[q].id = req[q].id
                   /\ req'[q].name = req[q].name /\ req'[q].old = req[q].old
      BY <2>2, <3>2, GotoFields DEF TypeOK
    <3> QED
      BY <1>1, <3>1, <3>2, StepMoves
  <2> QED
    BY <1>0, <2>1, <2>3, <2>4, <2>5 DEF Rows
<1>2. ASSUME NEW r \in Requests, Begin(r) PROVE Rows'
  <2>1. BeginsRows(r) /\ \A q \in Requests \ {r} : req'[q] = req[q]
    BY <1>2, BeginShape DEF BeginsOut
  <2>2. CASE /\ live' = live \cup {NextId} /\ seq' = NextId /\ req'[r].op = "create"
             /\ \A i \in Ids \ {NextId} : row'[i] = row[i]
             /\ \E u \in Users : row'[NextId].name = u /\ Named(u) = {}
    <3>1. \A i \in 1..seq : i # NextId /\ i \in 1..seq' /\ row'[i] = row[i]
      BY <1>0, <2>2 DEF NextId
    <3>2. NextId \in 1..seq' /\ live' \subseteq 1..seq'
      BY <1>0, <2>2, <3>1 DEF NextId, Rows
    <3>3. \A i \in live : row'[i] = row[i] /\ row'[i].name # row'[NextId].name
      BY <2>2, <3>1 DEF Rows, Named
    <3>4. UniqueNames'
      BY <2>2, <3>3 DEF UniqueNames, Rows
    <3> QED
      BY <2>1, <2>2, <3>1, <3>2, <3>4 DEF Rows
  <2>3. CASE /\ UNCHANGED <<live, seq>> /\ req'[r].op # "delete"
             /\ \A i \in Ids : row'[i].name = row[i].name /\ row'[i].due = row[i].due
    BY <1>0, <2>1, <2>3 DEF Rows, UniqueNames
  <2>4. CASE /\ UNCHANGED <<live, seq, row>> /\ req'[r].op = "delete"
             /\ \E i \in live : /\ req'[r].id = i /\ req'[r].old = row[i]
                                /\ req'[r].name = row[i].name
    BY <2>1, <2>4 DEF Rows, UniqueNames
  <2> QED
    BY <2>1, <2>2, <2>3, <2>4 DEF BeginsRows
<1>3. CASE Expiry \/ Environment
  <2>1. UNCHANGED <<live, seq>> /\ \A i \in Ids : row'[i].name = row[i].name
    BY <1>3, OthersShape
  <2>2. \A q \in Requests :
          /\ req'[q].pc = req[q].pc /\ req'[q].op = req[q].op /\ req'[q].id = req[q].id
          /\ req'[q].name = req[q].name /\ req'[q].old = req[q].old
    BY <1>3, OthersShape
  <2>3. UniqueNames'
    <3>1. \A i \in live' : i \in live /\ row'[i].name = row[i].name
      BY <1>0, <2>1 DEF Rows
    <3> QED
      BY <3>1 DEF Rows, UniqueNames
  <2> QED
    BY <1>0, <2>1, <2>2, <2>3 DEF Rows
<1>4. CASE Crash
  BY <1>4 DEF Crash, NoRequest, Rows, UniqueNames, db
<1>5. CASE Boot
  BY <1>5 DEF Boot, Rows, UniqueNames, db
<1>6. CASE UNCHANGED vars
  BY <1>6 DEF vars, db, Rows, UniqueNames
<1> QED
  BY <1>1, <1>2, <1>3, <1>4, <1>5, <1>6 DEF Next

\* The ids on the expiry loop's list stay past their date.
LEMMA NextDueList == ASSUME Inv, [Next]_vars PROVE DueList'
<1> USE DEF Inv
<1>0. seq \in Nat /\ 1..seq \subseteq Ids
  BY BoundsAssumption DEF TypeOK, Ids
<1>1. ASSUME NEW r \in Requests, Step(r) PROVE DueList'
  BY <1>0, <1>1, StepMoves, StepKeepsNames DEF DueList
<1>2. ASSUME NEW r \in Requests, Begin(r) PROVE DueList'
  <2>1. BeginsRows(r) /\ UNCHANGED exp
    BY <1>2, BeginShape DEF BeginsOut
  <2>2. \A i \in 1..seq : i # NextId /\ i \in 1..seq' /\ row'[i].due = row[i].due
    BY <1>0, <2>1 DEF BeginsRows, NextId
  <2> QED
    BY <2>1, <2>2 DEF DueList
<1>3. CASE Expiry \/ Environment
  <2>1. UNCHANGED seq /\ \A i \in 1..seq : row[i].due = "past" => row'[i].due = "past"
    BY <1>0, <1>3, OthersShape
  <2>2. CASE ExpiryScan
    BY <1>0, <2>1, <2>2 DEF ExpiryScan, Expired, DueList, Rows
  <2>3. ASSUME NEW i \in Ids, ExpiryTerminate(i) PROVE DueList'
    BY <2>1, <2>3 DEF ExpiryTerminate, DueList, TypeOK
  <2>4. CASE ExpirySet \/ ExpirySetFails
    <3>1. exp'.todo \subseteq exp.todo /\ exp'.pc # "set"
      BY <2>4 DEF ExpirySet, ExpirySetFails, ExpiryMoveOn
    <3> QED
      BY <2>1, <3>1 DEF DueList
  <2>5. CASE Environment
    <3>1. UNCHANGED exp
      BY <2>5 DEF Environment, Dial, HangUp, Expire, Disconnect
    <3> QED
      BY <2>1, <3>1 DEF DueList
  <2> QED
    BY <1>3, <2>2, <2>3, <2>4, <2>5 DEF Expiry
<1>4. CASE Crash
  BY <1>4 DEF Crash, NoExpiry, DueList
<1>5. CASE Boot
  BY <1>5 DEF Boot, DueList, db
<1>6. CASE UNCHANGED vars
  BY <1>6 DEF vars, db, DueList
<1> QED
  BY <1>1, <1>2, <1>3, <1>4, <1>5, <1>6 DEF Next

\* Inv is an invariant: it holds initially and every step keeps it.
THEOREM Invariance == Spec => []Inv
<1>1. Init => Inv
  BY InitInv
<1>2. Inv /\ [Next]_vars => Inv'
  BY NextType, NextRows, NextLock, NextDown, NextDueList DEF Inv
<1> QED
  BY <1>1, <1>2, PTL DEF Spec

-----------------------------------------------------------------------------
(* The properties.                                                          *)

\* Every variable stays in its domain: no step of any handler, of the expiry
\* loop or of a restart stores a row under an id that INSERT did not hand out,
\* or a secret that was never generated.
THEOREM TypeCorrect == Spec => []TypeOK
<1>1. Inv => TypeOK
  BY DEF Inv
<1> QED
  BY <1>1, Invariance, PTL

\* No username ever has two rows, for any number of handlers that create, delete
\* and put rows back (CreateUser, RecoverUser).
THEOREM NamesAreUnique == Spec => []UniqueNames
<1>1. Inv => UniqueNames
  BY DEF Inv, Rows
<1> QED
  BY <1>1, Invariance, PTL

\* reloadMu does its work: outside its critical section, and after a reload that
\* succeeded, charon holds exactly the secrets of conf.d, for any number of
\* handlers and failures (WriteUserConfAndReload, RemoveUserConfAndReload).
THEOREM CharonTracks == Spec => []CharonTracksConfD
<1>1. Inv => CharonTracksConfD
  BY DEF Inv, Lock
<1> QED
  BY <1>1, Invariance, PTL

\* Between handlers' first steps, only the expiry loop disables a user.
LEMMA StepDisables ==
  ASSUME Inv, [Next]_vars, NEW i \in live, i \in live', row[i].enabled, ~row'[i].enabled,
         req' = req
  PROVE  row[i].due = "past"
<1> USE DEF Inv
<1>0. i \in Ids
  BY DEF TypeOK
<1>1. ASSUME NEW r \in Requests, Begin(r) PROVE FALSE
  BY <1>1, BeginShape DEF BeginsOut
<1>2. ASSUME NEW r \in Requests, Step(r) PROVE FALSE
  BY <1>2, StepKeepsNames
<1>3. CASE ExpirySet
  <2>1. exp.pc = "set" /\ (exp.cur # i => row'[i] = row[i])
    BY <1>0, <1>3 DEF ExpirySet, TypeOK
  <2> QED
    BY <2>1 DEF DueList
<1>4. CASE ExpiryScan \/ ExpirySetFails \/ \E j \in Ids : ExpiryTerminate(j)
  BY <1>4 DEF ExpiryScan, ExpirySetFails, ExpiryTerminate, db
<1>5. CASE Environment
  <2>1. ASSUME NEW j \in Ids, Expire(j) PROVE row'[i].enabled = row[i].enabled
    BY <1>0, <2>1 DEF Expire, TypeOK, Row
  <2>2. ASSUME NEW r \in Requests, Disconnect(r) PROVE row' = row
    BY <2>2 DEF Disconnect, db
  <2>3. ASSUME NEW u \in Users, Dial(u) \/ HangUp(u) PROVE row' = row
    BY <2>3 DEF Dial, HangUp, db
  <2> QED
    BY <1>5, <2>1, <2>2, <2>3 DEF Environment
<1>6. CASE Crash \/ Boot \/ UNCHANGED vars
  BY <1>6 DEF Crash, Boot, vars, db
<1> QED
  BY <1>1, <1>2, <1>3, <1>4, <1>5, <1>6 DEF Next, Expiry

\* The expiry loop never disables a user who is not due, however long its list
\* has been waiting (expiry.check).
THEOREM ExpiryIsSafe == Spec => ExpiryDisablesOnlyDue
<1>1. Inv /\ [Next]_vars =>
        [\A i \in live \cap live' :
           row[i].enabled /\ ~row'[i].enabled /\ req' = req => row[i].due = "past"]_vars
  BY StepDisables
<1> QED
  BY <1>1, Invariance, PTL DEF Spec, ExpiryDisablesOnlyDue

\* Only main() brings the container up, and what charon then holds is what the
\* backfill wrote.
LEMMA BootShape ==
  ASSUME Inv, [Next]_vars, ~up, up'
  PROVE  /\ UNCHANGED db /\ conf = NoFiles
         /\ \E written \in SUBSET Missing :
              /\ written = Missing \/ failures' # failures
              /\ conf' = Backfill(written)
              /\ \A u \in Users : charon'[u] \in {conf'[u], NoPw}
              /\ synced' => charon' = conf'
<1> USE DEF Inv
<1>1. ASSUME NEW r \in Requests, Begin(r) \/ Step(r) PROVE FALSE
  BY <1>1, BeginShape, StepMoves DEF BeginsOut, proc
<1>2. CASE Expiry \/ Environment \/ Crash \/ UNCHANGED vars
  BY <1>2, OthersShape DEF Crash, vars, proc
<1>3. CASE Boot
  <2>1. conf = NoFiles /\ charon = NoFiles /\ UNCHANGED db
    BY <1>3 DEF Boot, Down
  <2>2. failures \in Nat
    BY BoundsAssumption DEF TypeOK
  <2>3. PICK written \in SUBSET Missing :
          /\ written = Missing \/ failures' # failures
          /\ conf' = Backfill(written)
          /\ \/ charon' = conf' /\ synced' = TRUE
             \/ written = {} /\ UNCHANGED <<charon, synced>>
             \/ /\ \E part \in SUBSET Users :
                     charon' = [u \in Users |-> IF u \in part THEN conf'[u] ELSE charon[u]]
                /\ synced' = FALSE
    BY <1>3, <2>2 DEF Boot, OneMoreFailure
  <2>4. \A u \in Users : charon'[u] \in {conf'[u], NoPw}
    BY <2>1, <2>3 DEF NoFiles
  <2>5. synced' => charon' = conf'
    <3>1. Backfill({}) = conf
      BY DEF Backfill, TypeOK
    <3> QED
      BY <2>1, <2>3, <3>1
  <2> QED
    BY <2>1, <2>3, <2>4, <2>5
<1> QED
  BY <1>1, <1>2, <1>3 DEF Next

\* After the backfill, a secret in charon is the password of an enabled row.
LEMMA BootVouches ==
  ASSUME Inv, [Next]_vars, ~up, up', NEW u \in Users, charon'[u] # NoPw
  PROVE  \E i \in live' : row'[i].name = u /\ row'[i].enabled /\ row'[i].pw = charon'[u]
<1>1. PICK written \in SUBSET Missing :
        conf' = Backfill(written) /\ charon'[u] \in {conf'[u], NoPw}
  BY BootShape
<1>2. conf[u] = NoPw /\ UNCHANGED <<live, row>>
  BY BootShape DEF NoFiles, db
<1>3. PICK i \in written : row[i].name = u /\ Backfill(written)[u] = row[i].pw
  BY <1>1, <1>2, BackfillOK DEF Inv
<1> QED
  BY <1>1, <1>2, <1>3 DEF Missing

\* A restart leaves charon no secret but those of enabled rows: whatever an
\* earlier failure left in conf.d is gone (main.go, EAP backfill).
THEOREM RestartForgets == Spec => RestartDropsOrphans
<1>1. Inv /\ [Next]_vars =>
        [~up /\ up' => \A u \in Users : charon'[u] # NoPw =>
           \E i \in live' : row'[i].name = u /\ row'[i].enabled /\ row'[i].pw = charon'[u]]_vars
  BY BootVouches
<1> QED
  BY <1>1, Invariance, PTL DEF Spec, RestartDropsOrphans

\* After a successful backfill reload, an enabled row whose file was written is served.
LEMMA BootServes ==
  ASSUME Inv, [Next]_vars, ~up, up', synced', NEW i \in live', row'[i].enabled
  PROVE  \/ charon'[row'[i].name] = row'[i].pw
         \/ failures' # failures /\ conf'[row'[i].name] = NoPw
<1> DEFINE u == row[i].name
<1>1. UNCHANGED <<live, row>> /\ conf = NoFiles /\ u \in Users
  BY BootShape DEF db, Inv, TypeOK, Row
<1>2. PICK written \in SUBSET Missing :
        /\ written = Missing \/ failures' # failures
        /\ conf' = Backfill(written) /\ charon' = conf'
  BY BootShape
<1>3. i \in Missing
  BY <1>1 DEF Missing, NoFiles
<1>4. \A j \in written : row[j].name = u => j = i
  BY <1>1 DEF Missing, Inv, Rows, UniqueNames
<1>5. CASE i \in written
  <2>1. Backfill(written)[u] = row[i].pw
    BY <1>1, <1>4, <1>5 DEF Backfill
  <2> QED
    BY <1>1, <1>2, <2>1
<1>6. CASE i \notin written
  <2>1. failures' # failures
    BY <1>2, <1>3, <1>6
  <2>2. Backfill(written)[u] = NoPw
    BY <1>1, <1>4, <1>6 DEF Backfill, NoFiles
  <2> QED
    BY <1>1, <1>2, <2>1, <2>2
<1> QED
  BY <1>5, <1>6

\* A restart whose reload succeeds serves every enabled user with the password of
\* the table, unless that user's file could not be written (main.go, EAP
\* backfill).
THEOREM RestartServes == Spec => RestartServesEnabled
<1>1. Inv /\ [Next]_vars =>
        [~up /\ up' /\ synced' => \A i \in live' : LET u == row'[i].name IN
           row'[i].enabled => \/ charon'[u] = row'[i].pw
                              \/ failures' # failures /\ conf'[u] = NoPw]_vars
  BY BootServes
<1> QED
  BY <1>1, Invariance, PTL DEF Spec, RestartServesEnabled

-----------------------------------------------------------------------------
(* Requests alone on their user.                                            *)
(*                                                                         *)
(* What a handler that met no rival has done at each of its steps, and what *)
(* it still owes.  Steps on other users touch neither its row nor its file; *)
(* the one thing of its own that they move is charon's secret, which a load *)
(* of theirs can only bring up to its file.                                 *)

\* The steps of each operation.
Steps(o) ==
    IF o = "create" THEN {"write", "wload", "limit", "remove", "rload", "undo", "ok", "failed"}
    ELSE IF o = "reset" THEN {"update", "lookup", "write", "wload", "undo", "ok", "failed"}
    ELSE IF o = "delete" THEN {"delete", "remove", "rload", "unlimit", "term", "undo", "ok", "failed"}
    ELSE {"lookup", "term", "undo", "ok", "failed"}

\* An id in a handler's hands was handed out and bears the handler's name; only
\* a refused create has none.  A cancelled context is on the record.
Asked ==
    \A r \in Requests : InFlight(r) =>
        /\ req[r].pc \in Steps(req[r].op)
        /\ \/ req[r].id \in 1..seq /\ row[req[r].id].name = req[r].name
           \/ req[r].id = 0 /\ req[r].op = "create" /\ req[r].pc = "failed" /\ hit[r] = {}
        /\ ~req[r].ctx => "gone" \in hit[r]

\* While a handler counts as alone nobody else works on its user.
Apart ==
    \A r, q \in Requests : InFlight(r) /\ InFlight(q) /\ q # r /\ solo[r] => req[q].name # req[r].name

FileFault(r) == \E f \in {"write", "remove", "limit"} : hit[r] = {f}

\* What may be so of a handler's row ...
HasRow(r)    == req[r].id \in live /\ row[req[r].id].pw = req[r].pw
OldRow(r)    == /\ req[r].id \in live /\ row[req[r].id].pw = req[r].old.pw
                /\ row[req[r].id].enabled = req[r].old.enabled
OldSwitch(r) == req[r].id \in live /\ row[req[r].id].enabled = req[r].old.enabled
RowOff(r)    == req[r].id \in live /\ ~row[req[r].id].enabled
NoRival(r)   == Named(req[r].name) \subseteq {req[r].id}
Unnamed(r)   == Named(req[r].name) = {}

\* ... of its file and its secret ...
OldFile(r)    == /\ conf[req[r].name] = pre[r].conf
                 /\ charon[req[r].name] \in {pre[r].charon, conf[req[r].name]}
OldOrNone(r)  == /\ conf[req[r].name] \in {pre[r].conf, NoPw}
                 /\ charon[req[r].name] \in {pre[r].charon, conf[req[r].name]}
NewFile(r)    == conf[req[r].name] = req[r].pw
NoFile(r)     == conf[req[r].name] = NoPw
ServesNew(r)  == Serves(req[r].name, req[r].pw)
ServesNone(r) == Serves(req[r].name, NoPw)

\* ... of its limit file and its SA.
Limited(r)   == limits[req[r].name]
Connected(r) == sa[req[r].name]

CreateStage(r) ==
    LET pc == req[r].pc IN
    /\ pc \in {"write", "wload", "limit", "ok"} => HasRow(r)
    /\ pc # "failed" => NoRival(r)
    /\ pc = "write" => OldFile(r)
    /\ pc = "wload" => NewFile(r)
    /\ pc \in {"limit", "ok"} => ServesNew(r)
    /\ pc = "ok" => Limited(r)
    /\ pc \in {"remove", "rload"} => "limit" \in hit[r]
    /\ pc = "rload" => NoFile(r)
    /\ pc \in {"undo", "failed"} /\ FileFault(r) => OldOrNone(r)
    /\ pc = "failed" /\ FileFault(r) => Unnamed(r)

ResetStage(r) ==
    LET pc == req[r].pc IN
    /\ pc = "update" => OldRow(r)
    /\ pc \in {"lookup", "write", "wload", "ok"} => HasRow(r)
    /\ pc \in {"lookup", "write", "wload", "undo"} => OldSwitch(r)
    /\ pc \in {"update", "lookup", "write"} => OldFile(r)
    /\ pc = "wload" => NewFile(r)
    /\ pc = "ok" => ServesNew(r)
    /\ pc \in {"undo", "failed"} /\ FileFault(r) => OldFile(r)
    /\ pc = "failed" /\ FileFault(r) => OldRow(r)

DisableStage(r) == req[r].pc \in {"lookup", "term", "ok"} => RowOff(r)

DeleteStage(r) ==
    LET pc == req[r].pc IN
    /\ pc = "delete" => OldRow(r)
    /\ pc \in {"remove", "rload", "unlimit", "term", "undo", "ok"} => Unnamed(r)
    /\ pc \in {"delete", "remove"} => OldFile(r)
    /\ pc = "rload" => NoFile(r)
    /\ pc \in {"unlimit", "term", "ok"} => ServesNone(r)
    /\ pc \in {"term", "ok"} /\ "limit" \notin hit[r] => ~Limited(r)
    /\ pc = "ok" /\ hit[r] \cap {"term", "list", "gone"} = {} => ~Connected(r)
    /\ pc \in {"undo", "failed"} /\ FileFault(r) => OldFile(r)
    /\ pc = "failed" /\ FileFault(r) => OldRow(r)

Stage(r) ==
    /\ req[r].op = "create"  => CreateStage(r)
    /\ req[r].op = "reset"   => ResetStage(r)
    /\ req[r].op = "disable" => DisableStage(r)
    /\ req[r].op = "delete"  => DeleteStage(r)

Alone == \A r \in Requests : InFlight(r) /\ solo[r] => Stage(r)

-----------------------------------------------------------------------------
(* What keeps a stage.                                                      *)

\* Nobody else gets a handler's name, and its row stays.
KeepsRows(r) ==
    /\ \A j \in live' : row'[j].name = req[r].name => j \in live /\ row[j].name = req[r].name
    /\ req[r].id \in live => /\ req[r].id \in live'
                             /\ row'[req[r].id].pw = row[req[r].id].pw
                             /\ row'[req[r].id].enabled = row[req[r].id].enabled

\* Its file stays, and charon's secret stays or catches up with it.
KeepsFiles(r) ==
    /\ conf'[req[r].name] = conf[req[r].name] /\ pre'[r] = pre[r]
    /\ charon'[req[r].name] \in {charon[req[r].name], conf[req[r].name]}

\* So do its limit file and, if charon does not know it, its SA.
KeepsRest(r) ==
    /\ Limited(r)' <=> Limited(r)
    /\ charon[req[r].name] = NoPw => (Connected(r)' => Connected(r))

\* The request itself keeps what it was asked.
KeepsOrder(r) ==
    /\ req'[r].op = req[r].op /\ req'[r].id = req[r].id /\ req'[r].name = req[r].name
    /\ req'[r].pw = req[r].pw /\ req'[r].old = req[r].old

\* Its faults are the same, or the client's departure is one more.
KeepsFaults(r) == hit'[r] = hit[r] \/ hit'[r] = hit[r] \cup {"gone"}

\* With its name and its row left alone, a handler knows of the table what it knew.
LEMMA RowsStay ==
  ASSUME NEW r \in Requests, KeepsOrder(r), KeepsRows(r)
  PROVE  /\ HasRow(r) => HasRow(r)'
         /\ OldRow(r) => OldRow(r)'
         /\ OldSwitch(r) => OldSwitch(r)'
         /\ RowOff(r) => RowOff(r)'
         /\ NoRival(r) => NoRival(r)'
         /\ Unnamed(r) => Unnamed(r)'
<1>1. /\ HasRow(r) => HasRow(r)'
      /\ OldRow(r) => OldRow(r)'
      /\ OldSwitch(r) => OldSwitch(r)'
      /\ RowOff(r) => RowOff(r)'
  BY DEF KeepsOrder, KeepsRows, HasRow, OldRow, OldSwitch, RowOff
<1>2. Named(req[r].name)' \subseteq Named(req[r].name)
  BY DEF KeepsOrder, KeepsRows, Named
<1> QED
  BY <1>1, <1>2 DEF KeepsOrder, NoRival, Unnamed

\* With its file left alone, it knows of the files what it knew, even if charon's
\* secret catches up.
LEMMA FilesStay ==
  ASSUME NEW r \in Requests, KeepsOrder(r), KeepsFiles(r)
  PROVE  /\ OldFile(r) => OldFile(r)'
         /\ OldOrNone(r) => OldOrNone(r)'
         /\ NewFile(r) => NewFile(r)'
         /\ NoFile(r) => NoFile(r)'
         /\ ServesNew(r) => ServesNew(r)'
         /\ ServesNone(r) => ServesNone(r)'
BY DEF KeepsOrder, KeepsFiles, OldFile, OldOrNone, NewFile, NoFile, ServesNew, ServesNone, Serves

\* The client's departure takes a request out of the file-fault account; nothing
\* brings one in.
LEMMA FaultsStay ==
  ASSUME NEW r \in Requests, KeepsFaults(r)
  PROVE  /\ FileFault(r)' => FileFault(r)
         /\ "limit" \in hit'[r] <=> "limit" \in hit[r]
         /\ hit'[r] \cap {"term", "list", "gone"} = {} => hit[r] \cap {"term", "list", "gone"} = {}
<1>1. FileFault(r)' => FileFault(r)
  <2>1. FileFault(r)' => "gone" \notin hit'[r]
    BY DEF FileFault
  <2>2. "gone" \notin hit'[r] => hit'[r] = hit[r]
    BY DEF KeepsFaults
  <2> QED
    BY <2>1, <2>2 DEF FileFault
<1> QED
  BY <1>1 DEF KeepsFaults

\* A handler that stays at its step, and whose user stays as it is, stays in its stage.
LEMMA StageStays ==
  ASSUME NEW r \in Requests, Stage(r), req'[r].pc = req[r].pc, KeepsOrder(r),
         KeepsRows(r), KeepsFiles(r), KeepsRest(r), KeepsFaults(r)
  PROVE  Stage(r)'
<1>1. /\ HasRow(r) => HasRow(r)'
      /\ OldRow(r) => OldRow(r)'
      /\ OldSwitch(r) => OldSwitch(r)'
      /\ RowOff(r) => RowOff(r)'
      /\ NoRival(r) => NoRival(r)'
      /\ Unnamed(r) => Unnamed(r)'
  BY RowsStay
<1>2. /\ OldFile(r) => OldFile(r)'
      /\ OldOrNone(r) => OldOrNone(r)'
      /\ NewFile(r) => NewFile(r)'
      /\ NoFile(r) => NoFile(r)'
      /\ ServesNew(r) => ServesNew(r)'
      /\ ServesNone(r) => ServesNone(r)'
  BY FilesStay
<1>3. /\ FileFault(r)' => FileFault(r)
      /\ "limit" \in hit'[r] <=> "limit" \in hit[r]
      /\ hit'[r] \cap {"term", "list", "gone"} = {} => hit[r] \cap {"term", "list", "gone"} = {}
  BY FaultsStay
<1>4. /\ Limited(r)' <=> Limited(r)
      /\ ServesNone(r) /\ Connected(r)' => Connected(r)
  BY DEF KeepsRest, ServesNone, Serves
<1>5. req'[r].op = req[r].op
  BY DEF KeepsOrder
<1>6. CreateStage(r) => CreateStage(r)'
  BY <1>1, <1>2, <1>3, <1>4 DEF CreateStage
<1>7. ResetStage(r) => ResetStage(r)'
  BY <1>1, <1>2, <1>3 DEF ResetStage
<1>8. DisableStage(r) => DisableStage(r)'
  BY <1>1 DEF DisableStage
<1>9. DeleteStage(r) => DeleteStage(r)'
  BY <1>1, <1>2, <1>3, <1>4 DEF DeleteStage
<1> QED
  BY <1>5, <1>6, <1>7, <1>8, <1>9 DEF Stage

-----------------------------------------------------------------------------
(* What a handler's step leaves alone.                                      *)

\* Rows under other ids.
LEMMA StepRows ==
  ASSUME Inv, NEW q \in Requests, Step(q)
  PROVE  \A j \in Ids \ {req[q].id} : (j \in live' <=> j \in live) /\ row'[j] = row[j]
<1> USE DEF db
<1>0. DOMAIN row = Ids
  BY DEF Inv, TypeOK
<1>1. CASE CreateUndo(q) \/ ResetUndo(q) \/ DisableUndo(q) \/ DeleteUndo(q) \/ ResetUpdate(q) \/ DeleteRow(q)
  <2>1. UNCHANGED live \/ live' = live \ {req[q].id} \/ live' = live \cup {req[q].id}
    BY <1>1 DEF CreateUndo, ResetUndo, DisableUndo, DeleteUndo, ResetUpdate, DeleteRow
  <2>2. UNCHANGED row \/ \E t : row' = [row EXCEPT ![req[q].id] = t]
    BY <1>1 DEF CreateUndo, ResetUndo, DisableUndo, DeleteUndo, ResetUpdate, DeleteRow
  <2> QED
    BY <1>0, <2>1, <2>2
<1>2. CASE \/ WriteConf(q) \/ WriteConfFails(q) \/ WriteLoad(q) \/ WriteLoadFails(q)
           \/ WriteLimit(q) \/ WriteLimitFails(q) \/ UndoFails(q) \/ Return(q)
           \/ RemoveConf(q) \/ RemoveConfFails(q) \/ RemoveLoad(q) \/ RemoveLoadFails(q)
  BY <1>2 DEF WriteConf, WriteConfFails, WriteLoad, WriteLoadFails, WriteLimit, WriteLimitFails,
              UndoFails, Return, RemoveConf, RemoveConfFails, RemoveLoad, RemoveLoadFails
<1>3. CASE \/ ResetUpdateFails(q) \/ Lookup(q) \/ LookupFails(q) \/ DeleteRowFails(q)
           \/ TerminateSA(q) \/ TerminateSeesNone(q) \/ TerminateFails(q)
           \/ RemoveLimit(q) \/ RemoveLimitFails(q)
  BY <1>3 DEF ResetUpdateFails, Lookup, LookupFails, DeleteRowFails, TerminateSA,
              TerminateSeesNone, TerminateFails, RemoveLimit, RemoveLimitFails
<1> QED
  BY <1>1, <1>2, <1>3 DEF Step

\* The files and SAs of other users; a load brings every secret up to its file
\* or leaves it.
LEMMA StepFiles ==
  ASSUME Inv, NEW q \in Requests, Step(q)
  PROVE  /\ \A v \in Users \ {req[q].name} :
              conf'[v] = conf[v] /\ limits'[v] = limits[v] /\ sa'[v] = sa[v]
         /\ \A v \in Users : charon'[v] \in {charon[v], conf[v]}
<1> USE DEF vpn
<1>0. DOMAIN conf = Users /\ DOMAIN limits = Users /\ DOMAIN sa = Users
  BY DEF Inv, TypeOK
<1>1. CASE WriteConf(q) \/ RemoveConf(q)
  <2>1. (\E p : conf' = [conf EXCEPT ![req[q].name] = p]) /\ UNCHANGED <<limits, sa, charon>>
    BY <1>1 DEF WriteConf, RemoveConf
  <2> QED
    BY <1>0, <2>1
<1>2. CASE WriteLoad(q) \/ WriteLoadFails(q) \/ RemoveLoad(q) \/ RemoveLoadFails(q)
  <2>1. /\ req[q].pc \in {"wload", "rload"} /\ (LoadAll(q) \/ LoadPart(q))
        /\ UNCHANGED <<conf, limits, sa>>
    BY <1>2 DEF WriteLoad, WriteLoadFails, RemoveLoad, RemoveLoadFails
  <2>2. read[q] = conf
    BY <2>1 DEF Inv, Lock
  <2>3. \A v \in Users : charon'[v] \in {charon[v], conf[v]}
    BY <2>1, <2>2 DEF LoadAll, LoadPart
  <2> QED
    BY <2>1, <2>3
<1>3. CASE WriteLimit(q) \/ WriteLimitFails(q) \/ RemoveLimit(q) \/ RemoveLimitFails(q)
  <2>1. /\ UNCHANGED limits \/ \E b : limits' = [limits EXCEPT ![req[q].name] = b]
        /\ UNCHANGED <<conf, charon, sa>>
    BY <1>3 DEF WriteLimit, WriteLimitFails, RemoveLimit, RemoveLimitFails
  <2> QED
    BY <1>0, <2>1
<1>4. CASE TerminateSA(q) \/ TerminateSeesNone(q) \/ TerminateFails(q)
  <2>1. /\ UNCHANGED sa \/ \E b : sa' = [sa EXCEPT ![req[q].name] = b]
        /\ UNCHANGED <<conf, charon, limits>>
    BY <1>4 DEF TerminateSA, TerminateSeesNone, TerminateFails
  <2> QED
    BY <1>0, <2>1
<1>5. CASE \/ WriteConfFails(q) \/ RemoveConfFails(q) \/ CreateUndo(q) \/ ResetUndo(q) \/ DisableUndo(q)
           \/ DeleteUndo(q) \/ UndoFails(q) \/ ResetUpdate(q) \/ ResetUpdateFails(q) \/ Lookup(q)
           \/ LookupFails(q) \/ DeleteRow(q) \/ DeleteRowFails(q) \/ Return(q)
  BY <1>5 DEF WriteConfFails, RemoveConfFails, CreateUndo, ResetUndo, DisableUndo, DeleteUndo, UndoFails,
              ResetUpdate, ResetUpdateFails, Lookup, LookupFails, DeleteRow, DeleteRowFails, Return
<1> QED
  BY <1>1, <1>2, <1>3, <1>4, <1>5 DEF Step

\* How a call went is on the record of its handler.
Recorded(q) ==
    /\ UNCHANGED solo /\ UNCHANGED pre
    /\ hit' = hit \/ \E f \in FaultKinds : hit' = [hit EXCEPT ![q] = hit[q] \cup {f}]

\* Every call is recorded, until the response is sent.
LEMMA StepRecords ==
  ASSUME NEW q \in Requests, Step(q)
  PROVE  Recorded(q) \/ Return(q)
<1> USE DEF history, Recorded, Fails, FailsCtx, Works, WorksCtx, FaultKinds
<1>1. CASE \/ WriteConf(q) \/ WriteConfFails(q) \/ WriteLoad(q) \/ WriteLoadFails(q)
           \/ WriteLimit(q) \/ WriteLimitFails(q)
  BY <1>1 DEF WriteConf, WriteConfFails, WriteLoad, WriteLoadFails, WriteLimit, WriteLimitFails
<1>2. CASE RemoveConf(q) \/ RemoveConfFails(q) \/ RemoveLoad(q) \/ RemoveLoadFails(q)
  BY <1>2 DEF RemoveConf, RemoveConfFails, RemoveLoad, RemoveLoadFails
<1>3. CASE CreateUndo(q) \/ ResetUndo(q) \/ DisableUndo(q) \/ DeleteUndo(q) \/ UndoFails(q)
  BY <1>3 DEF CreateUndo, ResetUndo, DisableUndo, DeleteUndo, UndoFails
<1>4. CASE \/ ResetUpdate(q) \/ ResetUpdateFails(q) \/ Lookup(q) \/ LookupFails(q)
           \/ TerminateSA(q) \/ TerminateSeesNone(q) \/ TerminateFails(q)
  BY <1>4 DEF ResetUpdate, ResetUpdateFails, Lookup, LookupFails, TerminateSA, TerminateSeesNone, TerminateFails
<1>5. CASE DeleteRow(q) \/ DeleteRowFails(q) \/ RemoveLimit(q) \/ RemoveLimitFails(q)
  BY <1>5 DEF DeleteRow, DeleteRowFails, RemoveLimit, RemoveLimitFails
<1> QED
  BY <1>1, <1>2, <1>3, <1>4, <1>5 DEF Step

\* No step changes the record of another handler.
LEMMA StepHistory ==
  ASSUME Inv, NEW q \in Requests, Step(q)
  PROVE  \A p \in Requests \ {q} : solo'[p] = solo[p] /\ hit'[p] = hit[p] /\ pre'[p] = pre[p]
<1>1. DOMAIN solo = Requests /\ DOMAIN hit = Requests /\ DOMAIN pre = Requests
  BY DEF Inv, TypeOK
<1>2. CASE Recorded(q)
  BY <1>1, <1>2 DEF Recorded
<1>3. CASE Return(q)
  BY <1>1, <1>3 DEF Return
<1> QED
  BY <1>2, <1>3, StepRecords

\* A step on another user keeps a lone handler in its stage.
LEMMA StepElsewhere ==
  ASSUME Inv, Asked, Apart, NEW q \in Requests, Step(q), NEW r \in Requests \ {q},
         InFlight(r), solo[r], Stage(r)
  PROVE  Stage(r)'
<1>1. InFlight(q) /\ req'[r] = req[r]
  BY StepMoves, GotoFields DEF Inv, TypeOK
<1>2. req[q].name # req[r].name
  BY <1>1 DEF Apart
<1>3. /\ req[r].name \in Users /\ live \subseteq Ids /\ live' \subseteq Ids
      /\ 1..seq \subseteq Ids /\ 0 \notin Ids
  BY NextType, BoundsAssumption DEF Inv, TypeOK, Request, Ids, Next
<1>4. /\ req[q].id \in Ids => row[req[q].id].name = req[q].name
      /\ req[r].id \in Ids => row[req[r].id].name = req[r].name
  BY <1>1, <1>3 DEF Asked
<1>5. KeepsRows(r)
  <2>1. \A j \in Ids : row'[j].name = row[j].name
    BY StepKeepsNames
  <2>2. \A j \in Ids : row[j].name = req[r].name => (j \in live' <=> j \in live) /\ row'[j] = row[j]
    BY <1>2, <1>4, StepRows
  <2> QED
    BY <1>3, <1>4, <2>1, <2>2 DEF KeepsRows
<1>6. KeepsFiles(r) /\ KeepsRest(r)
  BY <1>1, <1>2, <1>3, StepFiles, StepHistory DEF KeepsFiles, KeepsRest, Limited, Connected
<1>7. KeepsOrder(r) /\ KeepsFaults(r) /\ req'[r].pc = req[r].pc
  BY <1>1, StepHistory DEF KeepsOrder, KeepsFaults
<1> QED
  BY <1>5, <1>6, <1>7, StageStays

-----------------------------------------------------------------------------
(* A request begins.                                                        *)

\* It enters with its name; it may insert or switch a row of that name, and
\* touches no file.
BeginsOn(q, v) ==
    /\ Enter(q, v) /\ req'[q].name = v
    /\ UNCHANGED <<conf, charon, limits, sa>>
    /\ \A j \in 1..seq : /\ j \in live' <=> j \in live
                         /\ row'[j].name = row[j].name
                         /\ row[j].name # v => row'[j] = row[j]
    /\ \A j \in live' \ live : row'[j].name = v

\* Its id, its first step and its context.
BeginsAsked(q) ==
    /\ req'[q].pc \in Steps(req'[q].op) /\ req'[q].ctx
    /\ \/ req'[q].id \in 1..seq' /\ row'[req'[q].id].name = req'[q].name
       \/ req'[q].id = 0 /\ req'[q].op = "create" /\ req'[q].pc = "failed"
    /\ seq' \in {seq, seq + 1}

\* What Ask stores.
LEMMA AskAll ==
  ASSUME req \in [Requests -> Request], NEW r \in Requests, NEW p, NEW o, NEW i, NEW u, NEW w,
         NEW t, Ask(r, p, o, i, u, w, t)
  PROVE  /\ req'[r].pc = p /\ req'[r].op = o /\ req'[r].id = i /\ req'[r].name = u
         /\ req'[r].pw = w /\ req'[r].old = t /\ req'[r].ctx
BY DEF Ask

\* CreateUser: the new row is the only one of its name.
LEMMA InsertBegins ==
  ASSUME Inv, NEW q \in Requests, NEW u \in Users, NEW en \in Enabled, NEW d \in Dates,
         CreateInsert(q, u, en, d)
  PROVE  /\ BeginsOn(q, u) /\ BeginsAsked(q)
         /\ solo'[q] => Stage(q)'
<1> DEFINE t == [name |-> u, pw |-> NewPw, enabled |-> en, due |-> d]
<1>1. /\ seq' = seq + 1 /\ live' = live \cup {NextId} /\ NextId = seq + 1
      /\ row' = [row EXCEPT ![NextId] = t] /\ Named(u) = {} /\ Enter(q, u)
      /\ UNCHANGED <<conf, charon, limits, sa>>
  BY DEF CreateInsert, NextId, vpn
<1>2. t.name = u /\ t.pw = NewPw
  OBVIOUS
<1> HIDE DEF t
<1>3. seq \in Nat /\ NextId \in Ids /\ live \subseteq 1..seq
  BY <1>1, BoundsAssumption DEF CreateInsert, Inv, TypeOK, Ids, Rows
<1>4. row'[NextId] = t /\ \A j \in Ids \ {NextId} : row'[j] = row[j]
  BY <1>1, <1>3 DEF Inv, TypeOK
<1>5. \A j \in 1..seq : j \in Ids /\ j # NextId
  BY <1>1, <1>3, BoundsAssumption DEF Inv, TypeOK, Ids
<1>6. /\ req'[q].pc = "write" /\ req'[q].op = "create" /\ req'[q].id = NextId /\ req'[q].name = u
      /\ req'[q].pw = NewPw /\ req'[q].ctx
  <2>1. Ask(q, "write", "create", NextId, u, NewPw, NoRow) /\ req \in [Requests -> Request]
    BY DEF CreateInsert, Inv, TypeOK
  <2> QED
    BY <2>1, AskAll
<1>7. BeginsOn(q, u)
  BY <1>1, <1>2, <1>3, <1>4, <1>5, <1>6 DEF BeginsOn
<1>8. BeginsAsked(q)
  BY <1>1, <1>2, <1>3, <1>4, <1>6 DEF BeginsAsked, Steps
<1>9. HasRow(q)'
  BY <1>1, <1>2, <1>4, <1>6 DEF HasRow
<1>10. NoRival(q)'
  <2>1. \A j \in live : row'[j] = row[j] /\ row[j].name # u
    BY <1>1, <1>3, <1>4, <1>5 DEF Named
  <2> QED
    BY <1>1, <1>6, <2>1 DEF NoRival, Named
<1>11. OldFile(q)'
  <2>1. pre'[q].conf = conf[u] /\ pre'[q].charon = charon[u]
    BY <1>1 DEF Enter, Inv, TypeOK
  <2> QED
    BY <1>1, <1>6, <2>1 DEF OldFile
<1> QED
  BY <1>6, <1>7, <1>8, <1>9, <1>10, <1>11 DEF Stage, CreateStage

\* ErrConflict: no id, no mark, nothing owed.
LEMMA ConflictBegins ==
  ASSUME Inv, NEW q \in Requests, NEW u \in Users, CreateConflict(q, u)
  PROVE  /\ BeginsOn(q, u) /\ BeginsAsked(q)
         /\ solo'[q] => Stage(q)'
<1>1. Enter(q, u) /\ UNCHANGED <<db, conf, charon, limits, sa>>
  BY DEF CreateConflict, vpn
<1>2. req'[q].pc = "failed" /\ req'[q].op = "create" /\ req'[q].id = 0 /\ req'[q].name = u /\ req'[q].ctx
  <2>1. Ask(q, "failed", "create", 0, u, NoPw, NoRow) /\ req \in [Requests -> Request]
    BY DEF CreateConflict, Inv, TypeOK
  <2> QED
    BY <2>1, AskAll
<1>3. hit'[q] = {}
  BY <1>1 DEF Enter, Inv, TypeOK
<1>4. ~FileFault(q)'
  BY <1>3 DEF FileFault
<1>5. BeginsOn(q, u) /\ BeginsAsked(q)
  BY <1>1, <1>2 DEF BeginsOn, BeginsAsked, Steps, db
<1> QED
  BY <1>2, <1>4, <1>5 DEF Stage, CreateStage

\* Reset holds the row as it is in the table, and the file is what it was.
LEMMA ResetBegins ==
  ASSUME Inv, NEW q \in Requests, NEW i \in Ids, ResetRead(q, i)
  PROVE  /\ BeginsOn(q, row[i].name) /\ BeginsAsked(q)
         /\ solo'[q] => Stage(q)'
<1> DEFINE u == row[i].name
<1>1. Enter(q, u) /\ UNCHANGED <<live, row, seq, conf, charon, limits, sa>> /\ i \in live /\ i \in 1..seq
  BY DEF ResetRead, vpn, Inv, Rows
<1>2. /\ req'[q].pc = "update" /\ req'[q].op = "reset" /\ req'[q].id = i /\ req'[q].name = u
      /\ req'[q].ctx /\ req'[q].old = row[i]
  <2>1. Ask(q, "update", "reset", i, u, NewPw, row[i]) /\ req \in [Requests -> Request]
    BY DEF ResetRead, Inv, TypeOK
  <2> QED
    BY <2>1, AskAll
<1>3. pre'[q].conf = conf[u] /\ pre'[q].charon = charon[u]
  BY <1>1 DEF Enter, Inv, TypeOK
<1>4. OldRow(q)' /\ OldFile(q)'
  BY <1>1, <1>2, <1>3 DEF OldRow, OldFile
<1>5. BeginsOn(q, u) /\ BeginsAsked(q)
  BY <1>1, <1>2 DEF BeginsOn, BeginsAsked, Steps
<1> QED
  BY <1>2, <1>4, <1>5 DEF Stage, ResetStage

\* So does delete.
LEMMA DeleteBegins ==
  ASSUME Inv, NEW q \in Requests, NEW i \in Ids, DeleteRead(q, i)
  PROVE  /\ BeginsOn(q, row[i].name) /\ BeginsAsked(q)
         /\ solo'[q] => Stage(q)'
<1> DEFINE u == row[i].name
<1>1. Enter(q, u) /\ UNCHANGED <<live, row, seq, conf, charon, limits, sa>> /\ i \in live /\ i \in 1..seq
  BY DEF DeleteRead, vpn, db, Inv, Rows
<1>2. /\ req'[q].pc = "delete" /\ req'[q].op = "delete" /\ req'[q].id = i /\ req'[q].name = u
      /\ req'[q].ctx /\ req'[q].old = row[i]
  <2>1. Ask(q, "delete", "delete", i, u, NoPw, row[i]) /\ req \in [Requests -> Request]
    BY DEF DeleteRead, Inv, TypeOK
  <2> QED
    BY <2>1, AskAll
<1>3. pre'[q].conf = conf[u] /\ pre'[q].charon = charon[u]
  BY <1>1 DEF Enter, Inv, TypeOK
<1>4. OldRow(q)' /\ OldFile(q)'
  BY <1>1, <1>2, <1>3 DEF OldRow, OldFile
<1>5. BeginsOn(q, u) /\ BeginsAsked(q)
  BY <1>1, <1>2 DEF BeginsOn, BeginsAsked, Steps
<1> QED
  BY <1>2, <1>4, <1>5 DEF Stage, DeleteStage

\* Enable and disable, of a row that may be gone.
LEMMA SwitchBegins ==
  ASSUME Inv, NEW q \in Requests, NEW i \in Ids, Enable(q, i) \/ DisableSet(q, i)
  PROVE  /\ BeginsOn(q, row[i].name) /\ BeginsAsked(q)
         /\ solo'[q] => Stage(q)'
<1> DEFINE u == row[i].name
<1>1. PICK o \in {"enable", "disable"}, p \in {"ok", "lookup"} :
        Switch(q, i, o, p) /\ (o = "enable" => p = "ok")
  BY DEF Enable, DisableSet
<1>2. /\ Enter(q, u) /\ UNCHANGED <<live, seq, conf, charon, limits, sa>>
      /\ \/ i \in live /\ row' = [row EXCEPT ![i].enabled = (o = "enable")]
         \/ i \notin live /\ UNCHANGED row
  BY <1>1 DEF Switch, vpn
<1>3. i \in 1..seq
  BY <1>1, BoundsAssumption DEF Switch, Inv, TypeOK, Ids
<1>4. /\ req'[q].pc \in {p, "failed"} /\ (i \notin live => req'[q].pc = "failed")
      /\ req'[q].op = o /\ req'[q].id = i /\ req'[q].name = u /\ req'[q].ctx
  <2>1. /\ req \in [Requests -> Request]
        /\ \/ Ask(q, p, o, i, u, NoPw, NoRow) /\ i \in live
           \/ Ask(q, "failed", o, i, u, NoPw, NoRow)
    BY <1>1 DEF Switch, Inv, TypeOK
  <2> QED
    BY <2>1, AskAll
<1>5. \A j \in Ids : row'[j].name = row[j].name /\ (j # i => row'[j] = row[j])
  BY <1>2 DEF Inv, TypeOK, Row
<1>6. 1..seq \subseteq Ids
  BY BoundsAssumption DEF Inv, TypeOK, Ids
<1>7. BeginsOn(q, u)
  BY <1>2, <1>4, <1>5, <1>6 DEF BeginsOn
<1>8. BeginsAsked(q)
  BY <1>1, <1>2, <1>3, <1>4, <1>5 DEF BeginsAsked, Steps
<1>9. o = "disable" /\ i \in live => ~row'[i].enabled
  BY <1>2 DEF Inv, TypeOK, Row
<1> QED
  BY <1>2, <1>4, <1>7, <1>8, <1>9 DEF Stage, DisableStage, RowOff

\* Every first step begins as said, in the first stage of its operation.
LEMMA Beginnings ==
  ASSUME Inv, NEW q \in Requests, Begin(q)
  PROVE  /\ \E v \in Users : BeginsOn(q, v)
         /\ BeginsAsked(q)
         /\ solo'[q] => Stage(q)'
<1>1. \A i \in Ids : row[i].name \in Users
  BY DEF Inv, TypeOK, Row
<1> QED
  BY <1>1, InsertBegins, ConflictBegins, ResetBegins, SwitchBegins, DeleteBegins DEF Begin

\* A request that begins on another user keeps a lone handler in its stage; one
\* that begins on its user takes it out of the account.
LEMMA BeginElsewhere ==
  ASSUME Inv, Asked, NEW q \in Requests, Begin(q), NEW r \in Requests \ {q},
         InFlight(r), solo'[r], solo[r] => Stage(r)
  PROVE  Stage(r)'
<1>1. PICK v \in Users : BeginsOn(q, v)
  BY Beginnings
<1>2. req'[r] = req[r]
  BY BeginShape DEF BeginsOut
<1>3. solo[r] /\ r \notin Rivals(q, v) /\ hit'[r] = hit[r] /\ pre'[r] = pre[r]
  BY <1>1 DEF BeginsOn, Enter, Inv, TypeOK
<1>4. req[r].name # v
  BY <1>3 DEF Rivals
<1>5. live \subseteq 1..seq /\ (req[r].id \in live => row[req[r].id].name = req[r].name)
  <2>1. live \subseteq 1..seq /\ 0 \notin 1..seq
    BY DEF Inv, Rows, TypeOK
  <2> QED
    BY <2>1 DEF Asked
<1>6. KeepsRows(r)
  BY <1>1, <1>4, <1>5 DEF BeginsOn, KeepsRows
<1>7. KeepsFiles(r) /\ KeepsRest(r) /\ KeepsOrder(r) /\ KeepsFaults(r) /\ req'[r].pc = req[r].pc
  BY <1>1, <1>2, <1>3 DEF BeginsOn, KeepsFiles, KeepsRest, KeepsOrder, KeepsFaults, Limited, Connected
<1> QED
  BY <1>3, <1>6, <1>7, StageStays

-----------------------------------------------------------------------------
(* A handler's own step.                                                    *)

\* Its step moves it and leaves the rest of what it holds.
LEMMA OwnOrder ==
  ASSUME Inv, NEW r \in Requests, NEW p, Goto(r, p)
  PROVE  KeepsOrder(r) /\ req'[r].pc = p /\ req'[r].ctx = req[r].ctx
BY DEF Goto, KeepsOrder, Inv, TypeOK, Request

\* A step that leaves the table alone keeps all that its handler knows of it.
LEMMA OwnTable ==
  ASSUME NEW r \in Requests, KeepsOrder(r), UNCHANGED <<live, row>>
  PROVE  /\ HasRow(r) => HasRow(r)'
         /\ OldRow(r) => OldRow(r)'
         /\ OldSwitch(r) => OldSwitch(r)'
         /\ RowOff(r) => RowOff(r)'
         /\ NoRival(r) => NoRival(r)'
         /\ Unnamed(r) => Unnamed(r)'
<1>1. KeepsRows(r)
  BY DEF KeepsRows
<1> QED
  BY <1>1, RowsStay

\* A step that leaves the files alone keeps all that its handler knows of them.
LEMMA OwnFiles ==
  ASSUME NEW r \in Requests, KeepsOrder(r), UNCHANGED <<conf, charon, pre>>
  PROVE  /\ OldFile(r) => OldFile(r)'
         /\ OldOrNone(r) => OldOrNone(r)'
         /\ NewFile(r) => NewFile(r)'
         /\ NoFile(r) => NoFile(r)'
         /\ ServesNew(r) => ServesNew(r)'
         /\ ServesNone(r) => ServesNone(r)'
<1>1. KeepsFiles(r)
  BY DEF KeepsFiles
<1> QED
  BY <1>1, FilesStay

\* A call that takes the request's context and fails leaves a mark that is none
\* of a file operation: its own, or that of the client who left.
LEMMA NoFileFault ==
  ASSUME Inv, Asked, NEW r \in Requests, InFlight(r), NEW f \in {"db", "reload", "term", "list"},
         FailsCtx(r, f)
  PROVE  ~FileFault(r)' /\ UNCHANGED pre
<1>1. f \in hit'[r] \/ "gone" \in hit'[r]
  <2>1. CASE Fails(r, f)
    BY <2>1 DEF Fails, Inv, TypeOK
  <2>2. CASE ~req[r].ctx /\ UNCHANGED history
    BY <2>2 DEF history, Asked
  <2> QED
    BY <2>1, <2>2 DEF FailsCtx
<1> QED
  BY <1>1 DEF FileFault, FailsCtx, Fails, history

\* A step that works leaves no mark.
LEMMA NoFault ==
  ASSUME NEW r \in Requests, UNCHANGED history
  PROVE  (FileFault(r)' => FileFault(r)) /\ UNCHANGED <<hit, pre>>
BY DEF history, FileFault

\* The steps of WriteUserConfAndReload: the file is what was asked for before
\* charon reads it, and if it could not be written it is what it was.
LEMMA OwnWrite ==
  ASSUME Inv, Asked, NEW r \in Requests, InFlight(r), Stage(r),
         WriteConf(r) \/ WriteConfFails(r)
  PROVE  Stage(r)'
<1>1. req[r].pc = "write" /\ req[r].op \in {"create", "reset"}
  BY DEF WriteConf, WriteConfFails, Asked, Steps
<1>2. CASE WriteConf(r)
  <2>1. KeepsOrder(r) /\ req'[r].pc = "wload"
    BY <1>2, OwnOrder DEF WriteConf
  <2>2. UNCHANGED <<live, row>>
    BY <1>2 DEF WriteConf, db
  <2>3. NewFile(r)'
    BY <1>2, <2>1 DEF WriteConf, KeepsOrder, NewFile, Inv, TypeOK, Request
  <2>4. /\ HasRow(r) => HasRow(r)'
        /\ OldSwitch(r) => OldSwitch(r)'
        /\ NoRival(r) => NoRival(r)'
    BY <2>1, <2>2, OwnTable
  <2> QED
    BY <1>1, <2>1, <2>3, <2>4 DEF Stage, CreateStage, ResetStage, KeepsOrder
<1>3. CASE WriteConfFails(r)
  <2>1. KeepsOrder(r) /\ req'[r].pc = "undo"
    BY <1>3, OwnOrder DEF WriteConfFails
  <2>2. UNCHANGED <<live, row, conf, charon, pre>>
    BY <1>3 DEF WriteConfFails, db, vpn, Fails
  <2>3. /\ OldSwitch(r) => OldSwitch(r)'
        /\ NoRival(r) => NoRival(r)'
    BY <2>1, <2>2, OwnTable
  <2>4. OldFile(r) => OldFile(r)' /\ OldOrNone(r)'
    BY <2>1, <2>2, OwnFiles DEF OldFile, OldOrNone
  <2> QED
    BY <1>1, <2>1, <2>3, <2>4 DEF Stage, CreateStage, ResetStage, KeepsOrder
<1> QED
  BY <1>2, <1>3

\* The load that ends it: charon has the new secret, or the failure is not one
\* of a file alone.
LEMMA OwnWriteLoad ==
  ASSUME Inv, Asked, NEW r \in Requests, InFlight(r), Stage(r),
         WriteLoad(r) \/ WriteLoadFails(r)
  PROVE  Stage(r)'
<1>1. req[r].pc = "wload" /\ req[r].op \in {"create", "reset"}
  BY DEF WriteLoad, WriteLoadFails, Asked, Steps
<1>2. CASE WriteLoad(r)
  <2>1. KeepsOrder(r) /\ req'[r].pc = (IF req[r].op = "create" THEN "limit" ELSE "ok")
    BY <1>2, OwnOrder DEF WriteLoad
  <2>2. UNCHANGED <<live, row, conf>> /\ charon' = read[r] /\ read[r] = conf
    BY <1>1, <1>2 DEF WriteLoad, db, LoadAll, Inv, Lock
  <2>3. NewFile(r) => ServesNew(r)'
    BY <2>1, <2>2 DEF NewFile, ServesNew, Serves, KeepsOrder
  <2>4. /\ HasRow(r) => HasRow(r)'
        /\ NoRival(r) => NoRival(r)'
    BY <2>1, <2>2, OwnTable
  <2> QED
    BY <1>1, <2>1, <2>3, <2>4 DEF Stage, CreateStage, ResetStage, KeepsOrder
<1>3. CASE WriteLoadFails(r)
  <2>1. KeepsOrder(r) /\ req'[r].pc = "undo"
    BY <1>3, OwnOrder DEF WriteLoadFails
  <2>2. UNCHANGED <<live, row>> /\ ~FileFault(r)'
    BY <1>3, NoFileFault DEF WriteLoadFails, db
  <2>3. /\ OldSwitch(r) => OldSwitch(r)'
        /\ NoRival(r) => NoRival(r)'
    BY <2>1, <2>2, OwnTable
  <2> QED
    BY <1>1, <2>1, <2>2, <2>3 DEF Stage, CreateStage, ResetStage, KeepsOrder
<1> QED
  BY <1>2, <1>3

\* Writing the limit file, the last step of create, and removing it in delete.
LEMMA OwnLimit ==
  ASSUME Inv, Asked, NEW r \in Requests, InFlight(r), Stage(r),
         WriteLimit(r) \/ WriteLimitFails(r) \/ RemoveLimit(r) \/ RemoveLimitFails(r)
  PROVE  Stage(r)'
<1>0. req[r].name \in Users /\ DOMAIN limits = Users /\ DOMAIN hit = Requests
  BY DEF Inv, TypeOK, Request
<1>1. UNCHANGED <<live, row, conf, charon, pre>>
  BY DEF WriteLimit, WriteLimitFails, RemoveLimit, RemoveLimitFails, db, vpn, Works, Fails, history
<1>2. KeepsOrder(r)
  BY OwnOrder DEF WriteLimit, WriteLimitFails, RemoveLimit, RemoveLimitFails
<1>3. /\ HasRow(r) => HasRow(r)'
      /\ NoRival(r) => NoRival(r)'
      /\ Unnamed(r) => Unnamed(r)'
  BY <1>1, <1>2, OwnTable
<1>4. /\ ServesNew(r) => ServesNew(r)'
      /\ ServesNone(r) => ServesNone(r)'
  BY <1>1, <1>2, OwnFiles
<1>5. CASE WriteLimit(r)
  <2>1. req[r].op = "create" /\ req[r].pc = "limit" /\ req'[r].pc = "ok"
    BY <1>5, OwnOrder DEF WriteLimit, Asked, Steps
  <2>2. Limited(r)'
    BY <1>0, <1>2, <1>5 DEF WriteLimit, Limited, KeepsOrder
  <2> QED
    BY <1>2, <1>3, <1>4, <2>1, <2>2 DEF Stage, CreateStage, KeepsOrder
<1>6. CASE WriteLimitFails(r)
  <2>1. req[r].op = "create" /\ req[r].pc = "limit" /\ req'[r].pc = "remove"
    BY <1>6, OwnOrder DEF WriteLimitFails, Asked, Steps
  <2>2. "limit" \in hit'[r]
    BY <1>0, <1>6 DEF WriteLimitFails, Fails
  <2> QED
    BY <1>2, <1>3, <2>1, <2>2 DEF Stage, CreateStage, KeepsOrder
<1>7. CASE RemoveLimit(r)
  <2>1. req[r].op = "delete" /\ req[r].pc = "unlimit" /\ req'[r].pc = "term"
    BY <1>7, OwnOrder DEF RemoveLimit, Asked, Steps
  <2>2. ~Limited(r)'
    BY <1>0, <1>2, <1>7 DEF RemoveLimit, Limited, KeepsOrder
  <2> QED
    BY <1>2, <1>3, <1>4, <2>1, <2>2 DEF Stage, DeleteStage, KeepsOrder
<1>8. CASE RemoveLimitFails(r)
  <2>1. req[r].op = "delete" /\ req[r].pc = "unlimit" /\ req'[r].pc = "term"
    BY <1>8, OwnOrder DEF RemoveLimitFails, Asked, Steps
  <2>2. "limit" \in hit'[r]
    BY <1>0, <1>8 DEF RemoveLimitFails, Fails
  <2> QED
    BY <1>2, <1>3, <1>4, <2>1, <2>2 DEF Stage, DeleteStage, KeepsOrder
<1> QED
  BY <1>5, <1>6, <1>7, <1>8

\* Removing the file, in delete and in the rollback of create.  The rollback
\* meets its second failure when the file cannot be removed.
LEMMA OwnRemove ==
  ASSUME Inv, Asked, NEW r \in Requests, InFlight(r), Stage(r),
         RemoveConf(r) \/ RemoveConfFails(r)
  PROVE  Stage(r)'
<1>1. req[r].pc = "remove" /\ req[r].op \in {"create", "delete"}
  BY DEF RemoveConf, RemoveConfFails, Asked, Steps
<1>2. UNCHANGED <<live, row, pre>>
  BY DEF RemoveConf, RemoveConfFails, db, Works, Fails, history
<1>3. KeepsOrder(r)
  BY OwnOrder DEF RemoveConf, RemoveConfFails
<1>4. /\ NoRival(r) => NoRival(r)'
      /\ Unnamed(r) => Unnamed(r)'
  BY <1>2, <1>3, OwnTable
<1>5. CASE RemoveConf(r)
  <2>1. req'[r].pc = "rload" /\ UNCHANGED hit
    BY <1>5, OwnOrder DEF RemoveConf, Works, history
  <2>2. NoFile(r)'
    BY <1>3, <1>5 DEF RemoveConf, KeepsOrder, NoFile, Inv, TypeOK, Request
  <2> QED
    BY <1>1, <1>3, <1>4, <2>1, <2>2 DEF Stage, CreateStage, DeleteStage, KeepsOrder
<1>6. CASE RemoveConfFails(r)
  <2>1. req'[r].pc = (IF req[r].op = "create" THEN "failed" ELSE "undo") /\ UNCHANGED <<conf, charon>>
    BY <1>6, OwnOrder DEF RemoveConfFails, AfterRemoveFails, vpn
  <2>2. hit'[r] = hit[r] \cup {"remove"}
    BY <1>6 DEF RemoveConfFails, Fails, Inv, TypeOK
  <2>3. "limit" \in hit[r] => ~FileFault(r)'
    BY <2>2 DEF FileFault
  <2>4. OldFile(r) => OldFile(r)'
    BY <1>2, <1>3, <2>1, OwnFiles
  <2> QED
    BY <1>1, <1>3, <1>4, <2>1, <2>3, <2>4 DEF Stage, CreateStage, DeleteStage, KeepsOrder
<1> QED
  BY <1>5, <1>6

\* The load that ends it.
LEMMA OwnRemoveLoad ==
  ASSUME Inv, Asked, NEW r \in Requests, InFlight(r), Stage(r),
         RemoveLoad(r) \/ RemoveLoadFails(r)
  PROVE  Stage(r)'
<1>1. req[r].pc = "rload" /\ req[r].op \in {"create", "delete"}
  BY DEF RemoveLoad, RemoveLoadFails, Asked, Steps
<1>2. UNCHANGED <<live, row, conf>>
  BY DEF RemoveLoad, RemoveLoadFails, db
<1>3. KeepsOrder(r)
  BY OwnOrder DEF RemoveLoad, RemoveLoadFails
<1>4. /\ NoRival(r) => NoRival(r)'
      /\ Unnamed(r) => Unnamed(r)'
  BY <1>2, <1>3, OwnTable
<1>5. CASE RemoveLoad(r)
  <2>1. req'[r].pc = (IF req[r].op = "create" THEN "undo" ELSE "unlimit")
    BY <1>5, OwnOrder DEF RemoveLoad
  <2>2. charon' = read[r] /\ read[r] = conf
    BY <1>1, <1>5 DEF RemoveLoad, LoadAll, Inv, Lock
  <2>3. NoFile(r) => ServesNone(r)' /\ OldOrNone(r)'
    BY <1>2, <1>3, <2>2 DEF NoFile, ServesNone, Serves, OldOrNone, KeepsOrder
  <2> QED
    BY <1>1, <1>3, <1>4, <2>1, <2>3 DEF Stage, CreateStage, DeleteStage, KeepsOrder
<1>6. CASE RemoveLoadFails(r)
  <2>1. req'[r].pc = (IF req[r].op = "create" THEN "failed" ELSE "undo")
    BY <1>6, OwnOrder DEF RemoveLoadFails, AfterRemoveFails
  <2>2. ~FileFault(r)'
    BY <1>6, NoFileFault DEF RemoveLoadFails
  <2> QED
    BY <1>1, <1>3, <1>4, <2>1, <2>2 DEF Stage, CreateStage, DeleteStage, KeepsOrder
<1> QED
  BY <1>5, <1>6

\* The rollbacks, each after its own operation.
LEMMA OwnUndo ==
  ASSUME Inv, Asked, NEW r \in Requests, InFlight(r), Stage(r),
         CreateUndo(r) \/ ResetUndo(r) \/ DisableUndo(r) \/ DeleteUndo(r) \/ UndoFails(r)
  PROVE  Stage(r)'
<1>0. req[r].id \in Ids => row[req[r].id] \in Row
  BY DEF Inv, TypeOK
<1>1. req[r].pc = "undo" /\ req'[r].pc = "failed" /\ KeepsOrder(r) /\ UNCHANGED <<conf, charon, pre>>
  BY OwnOrder DEF CreateUndo, ResetUndo, DisableUndo, DeleteUndo, UndoFails, vpn, WorksCtx, history,
                  FailsCtx, Fails
<1>2. /\ OldFile(r) => OldFile(r)'
      /\ OldOrNone(r) => OldOrNone(r)'
  BY <1>1, OwnFiles
<1>3. CASE UndoFails(r)
  <2>1. ~FileFault(r)'
    BY <1>3, NoFileFault DEF UndoFails
  <2> QED
    BY <1>1, <2>1 DEF Stage, CreateStage, ResetStage, DisableStage, DeleteStage, KeepsOrder
<1>4. CASE CreateUndo(r)
  <2>1. FileFault(r)' => FileFault(r)
    BY <1>4, NoFault DEF CreateUndo, WorksCtx
  <2>2. NoRival(r) => Unnamed(r)'
    BY <1>1, <1>4 DEF CreateUndo, NoRival, Unnamed, Named, KeepsOrder
  <2> QED
    BY <1>1, <1>2, <1>4, <2>1, <2>2 DEF Stage, CreateStage, KeepsOrder, CreateUndo
<1>5. CASE ResetUndo(r)
  <2>1. FileFault(r)' => FileFault(r)
    BY <1>5, NoFault DEF ResetUndo, WorksCtx
  <2>2. OldSwitch(r) => OldRow(r)'
    <3>1. live' = live /\ (req[r].id \in live => row' = [row EXCEPT ![req[r].id].pw = req[r].old.pw])
      BY <1>5 DEF ResetUndo
    <3>2. ASSUME NEW i \in live, NEW p, row' = [row EXCEPT ![i].pw = p]
          PROVE  row'[i].pw = p /\ row'[i].enabled = row[i].enabled
      <4>1. live \subseteq Ids /\ row \in [Ids -> Row]
        BY DEF Inv, TypeOK
      <4> QED
        BY <3>2, <4>1 DEF Row
    <3> QED
      BY <1>1, <3>1, <3>2 DEF OldSwitch, OldRow, KeepsOrder
  <2> QED
    BY <1>1, <1>2, <1>5, <2>1, <2>2 DEF Stage, ResetStage, KeepsOrder, ResetUndo
<1>6. CASE DisableUndo(r)
  BY <1>1, <1>6 DEF Stage, DisableStage, KeepsOrder, DisableUndo
<1>7. CASE DeleteUndo(r)
  <2>1. FileFault(r)' => FileFault(r)
    BY <1>7, NoFault DEF DeleteUndo, WorksCtx
  <2>2. req[r].op = "delete" /\ req[r].id \in Ids /\ row[req[r].id].name = req[r].name /\ req[r].old \in Row
    BY <1>0, <1>7, BoundsAssumption DEF DeleteUndo, Inv, Rows, TypeOK, Request, Ids
  <2>3. Unnamed(r) => OldRow(r)'
    <3> SUFFICES ASSUME Unnamed(r) PROVE OldRow(r)'
      OBVIOUS
    <3> DEFINE t == [req[r].old EXCEPT !.due = row[req[r].id].due]
    <3>1. req[r].id \notin live /\ Named(req[r].name) = {}
      BY <2>2 DEF Unnamed, Named
    <3>2. live' = live \cup {req[r].id} /\ row' = [row EXCEPT ![req[r].id] = t]
      BY <1>7, <3>1 DEF DeleteUndo
    <3>3. t.pw = req[r].old.pw /\ t.enabled = req[r].old.enabled
      BY <2>2 DEF Row
    <3> HIDE DEF t
    <3>4. req[r].id \in live' /\ row'[req[r].id] = t
      BY <2>2, <3>2 DEF Inv, TypeOK
    <3> QED
      BY <1>1, <3>3, <3>4 DEF OldRow, KeepsOrder
  <2> QED
    BY <1>1, <1>2, <2>1, <2>2, <2>3 DEF Stage, DeleteStage, KeepsOrder
<1> QED
  BY <1>3, <1>4, <1>5, <1>6, <1>7

\* The UPDATE of reset.  A handler alone on its user finds the row it read.
LEMMA OwnUpdate ==
  ASSUME Inv, Asked, NEW r \in Requests, InFlight(r), Stage(r),
         ResetUpdate(r) \/ ResetUpdateFails(r)
  PROVE  Stage(r)'
<1>1. req[r].pc = "update" /\ req[r].op = "reset"
  BY DEF ResetUpdate, ResetUpdateFails, Asked, Steps
<1>2. OldRow(r) /\ OldFile(r)
  BY <1>1 DEF Stage, ResetStage
<1>3. CASE ResetUpdate(r)
  <2>1. KeepsOrder(r) /\ req'[r].pc = "lookup" /\ UNCHANGED <<conf, charon, pre>>
    BY <1>3, OwnOrder DEF ResetUpdate, vpn, WorksCtx, history
  <2>2. OldFile(r)'
    BY <1>2, <2>1, OwnFiles
  <2>3. live' = live /\ row' = [row EXCEPT ![req[r].id].pw = req[r].pw]
    BY <1>3 DEF ResetUpdate
  <2>4. HasRow(r)' /\ OldSwitch(r)'
    BY <1>2, <2>1, <2>3 DEF OldRow, HasRow, OldSwitch, KeepsOrder, Inv, TypeOK, Row
  <2> QED
    BY <1>1, <2>1, <2>2, <2>4 DEF Stage, ResetStage, KeepsOrder
<1>4. CASE ResetUpdateFails(r)
  <2>1. KeepsOrder(r) /\ req'[r].pc = "failed" /\ FailsCtx(r, "db")
    BY <1>2, <1>4, OwnOrder DEF ResetUpdateFails, OldRow
  <2>2. ~FileFault(r)'
    BY <2>1, NoFileFault
  <2> QED
    BY <1>1, <2>1, <2>2 DEF Stage, ResetStage, KeepsOrder
<1> QED
  BY <1>3, <1>4

\* The second read of the row, in reset and in disable.
LEMMA OwnLookup ==
  ASSUME Inv, Asked, NEW r \in Requests, InFlight(r), Stage(r), Lookup(r) \/ LookupFails(r)
  PROVE  Stage(r)'
<1>1. req[r].pc = "lookup" /\ req[r].op \notin {"create", "delete"}
  BY DEF Lookup, LookupFails, Asked, Steps
<1>2. CASE Lookup(r)
  <2>1. /\ KeepsOrder(r) /\ req'[r].pc = (IF req[r].op = "reset" THEN "write" ELSE "term")
        /\ UNCHANGED <<live, row, conf, charon, pre>>
    BY <1>2, OwnOrder DEF Lookup, vpn, db, WorksCtx, history
  <2>2. /\ HasRow(r) => HasRow(r)'
        /\ OldSwitch(r) => OldSwitch(r)'
        /\ RowOff(r) => RowOff(r)'
    BY <2>1, OwnTable
  <2>3. OldFile(r) => OldFile(r)'
    BY <2>1, OwnFiles
  <2> QED
    BY <1>1, <2>1, <2>2, <2>3 DEF Stage, ResetStage, DisableStage, KeepsOrder
<1>3. CASE LookupFails(r)
  <2>1. KeepsOrder(r) /\ req'[r].pc = "failed"
    BY <1>3, OwnOrder DEF LookupFails
  <2>2. req[r].op = "reset" => ~FileFault(r)'
    <3>1. req[r].op = "reset" => req[r].id \in live
      BY <1>1 DEF Stage, ResetStage, HasRow
    <3> QED
      BY <1>3, <3>1, NoFileFault DEF LookupFails
  <2> QED
    BY <1>1, <2>1, <2>2 DEF Stage, ResetStage, DisableStage, KeepsOrder
<1> QED
  BY <1>2, <1>3

\* Terminate, in disable and in delete: it ends every SA of the user, or leaves
\* a mark.
LEMMA OwnTerminate ==
  ASSUME Inv, Asked, NEW r \in Requests, InFlight(r), Stage(r),
         TerminateSA(r) \/ TerminateSeesNone(r) \/ TerminateFails(r)
  PROVE  Stage(r)'
<1>0. req[r].name \in Users /\ DOMAIN sa = Users
  BY DEF Inv, TypeOK, Request
<1>1. req[r].pc = "term" /\ req[r].op \notin {"create", "reset"}
  BY DEF TerminateSA, TerminateSeesNone, TerminateFails, Asked, Steps
<1>2. UNCHANGED <<live, row, conf, charon, pre, limits>>
  BY DEF TerminateSA, TerminateSeesNone, TerminateFails, db, vpn, WorksCtx, FailsCtx, Fails, history
<1>3. KeepsOrder(r) /\ req'[r].pc \in (IF req[r].op = "disable" THEN {"ok", "undo"} ELSE {"ok"})
  BY OwnOrder DEF TerminateSA, TerminateSeesNone, TerminateFails
<1>4. /\ RowOff(r) => RowOff(r)'
      /\ Unnamed(r) => Unnamed(r)'
  BY <1>2, <1>3, OwnTable
<1>5. ServesNone(r) => ServesNone(r)'
  BY <1>2, <1>3, OwnFiles
<1>6. Limited(r)' <=> Limited(r)
  BY <1>2, <1>3 DEF Limited, KeepsOrder
<1>7. hit[r] \subseteq hit'[r]
  BY DEF TerminateSA, TerminateSeesNone, TerminateFails, WorksCtx, FailsCtx, Fails, history, Inv, TypeOK
<1>8. hit'[r] \cap {"term", "list", "gone"} = {} => ~Connected(r)'
  <2>1. CASE TerminateSA(r)
    BY <1>0, <1>3, <2>1 DEF TerminateSA, Connected, KeepsOrder
  <2>2. ASSUME NEW f \in {"term", "list"}, FailsCtx(r, f)
        PROVE  hit'[r] \cap {"term", "list", "gone"} # {}
    <3>1. CASE Fails(r, f)
      BY <3>1 DEF Fails, Inv, TypeOK
    <3>2. CASE ~req[r].ctx /\ UNCHANGED history
      BY <3>2 DEF history, Asked
    <3> QED
      BY <2>2, <3>1, <3>2 DEF FailsCtx
  <2> QED
    BY <2>1, <2>2 DEF TerminateSeesNone, TerminateFails
<1> QED
  BY <1>1, <1>3, <1>4, <1>5, <1>6, <1>7, <1>8 DEF Stage, DisableStage, DeleteStage, KeepsOrder

\* The DELETE: no other row bears the name.
LEMMA OwnDeleteRow ==
  ASSUME Inv, Asked, NEW r \in Requests, InFlight(r), Stage(r), DeleteRow(r) \/ DeleteRowFails(r)
  PROVE  Stage(r)'
<1>1. req[r].pc = "delete" /\ req[r].op = "delete"
  BY DEF DeleteRow, DeleteRowFails, Asked, Steps
<1>2. OldRow(r) /\ OldFile(r)
  BY <1>1 DEF Stage, DeleteStage
<1>3. CASE DeleteRow(r)
  <2>1. KeepsOrder(r) /\ req'[r].pc = "remove" /\ UNCHANGED <<conf, charon, pre>>
    BY <1>3, OwnOrder DEF DeleteRow, vpn, WorksCtx, history
  <2>2. OldFile(r)'
    BY <1>2, <2>1, OwnFiles
  <2>3. Named(req[r].name) \subseteq {req[r].id}
    BY <1>1, <1>2 DEF OldRow, Named, Inv, Rows, UniqueNames, InFlight
  <2>4. Unnamed(r)'
    BY <1>3, <2>1, <2>3 DEF DeleteRow, Unnamed, Named, KeepsOrder
  <2> QED
    BY <1>1, <2>1, <2>2, <2>4 DEF Stage, DeleteStage, KeepsOrder
<1>4. CASE DeleteRowFails(r)
  <2>1. KeepsOrder(r) /\ req'[r].pc = "failed" /\ FailsCtx(r, "db")
    BY <1>2, <1>4, OwnOrder DEF DeleteRowFails, OldRow
  <2>2. ~FileFault(r)'
    BY <2>1, NoFileFault
  <2> QED
    BY <1>1, <2>1, <2>2 DEF Stage, DeleteStage, KeepsOrder
<1> QED
  BY <1>3, <1>4

\* A lone handler's own step leads to the next stage of its operation.
LEMMA OwnStep ==
  ASSUME Inv, Asked, NEW r \in Requests, Stage(r), Step(r), InFlight(r)'
  PROVE  Stage(r)'
<1>1. InFlight(r)
  BY StepMoves
<1>2. ~Return(r)
  BY DEF Return, InFlight, NoRequest, Inv, TypeOK
<1> QED
  BY <1>1, <1>2, OwnWrite, OwnWriteLoad, OwnLimit, OwnRemove, OwnRemoveLoad, OwnUndo, OwnUpdate,
     OwnLookup, OwnTerminate, OwnDeleteRow DEF Step

-----------------------------------------------------------------------------
(* Clients, the clock and the expiry loop.                                  *)

\* The expiry loop, which disables rows of others once it is on record that the
\* user has company, clients and the clock keep a lone handler in its stage.
LEMMA OthersElsewhere ==
  ASSUME Inv, Asked, Expiry \/ Environment, NEW r \in Requests,
         InFlight(r), solo'[r], solo[r] => Stage(r)
  PROVE  Stage(r)'
<1>0. req[r].name \in Users /\ live \subseteq Ids /\ 1..seq \subseteq Ids /\ live \subseteq 1..seq /\ 0 \notin 1..seq
  BY BoundsAssumption DEF Inv, TypeOK, Request, Ids, Rows
<1>1. /\ UNCHANGED <<vpn, live, seq>> /\ req'[r].pc = req[r].pc
      /\ KeepsOrder(r) \/ Disconnect(r)
      /\ \A j \in Ids : row'[j].name = row[j].name
  <2>1. CASE Expiry
    <3>1. UNCHANGED req
      BY <2>1 DEF Expiry, ExpiryScan, ExpiryTerminate, ExpirySet, ExpirySetFails
    <3> QED
      BY <2>1, <3>1, OthersShape DEF KeepsOrder
  <2>2. CASE Environment
    <3>1. \A q \in Requests : Disconnect(q) /\ q # r => req'[r] = req[r]
      BY DEF Disconnect, Inv, TypeOK
    <3>2. ASSUME ~\E q \in Requests : Disconnect(q) PROVE UNCHANGED req
      BY <2>2, <3>2 DEF Environment, Dial, HangUp, Expire
    <3> QED
      BY <2>2, <3>1, <3>2, OthersShape DEF KeepsOrder
  <2> QED
    BY <2>1, <2>2
<1>2. KeepsOrder(r)
  <2>1. CASE Disconnect(r)
    BY <2>1 DEF Disconnect, KeepsOrder, Inv, TypeOK, Request
  <2> QED
    BY <1>1, <2>1
<1>3. solo[r] /\ UNCHANGED <<pre, limits>> /\ KeepsFaults(r)
  <2>1. CASE Expiry
    <3>1. UNCHANGED <<hit, pre, limits>>
      BY <2>1 DEF Expiry, ExpiryScan, ExpiryTerminate, ExpirySet, ExpirySetFails, history
    <3>2. solo'[r] => solo[r]
      BY <2>1 DEF Expiry, ExpiryScan, ExpiryTerminate, ExpirySet, ExpirySetFails, history, Inv, TypeOK
    <3> QED
      BY <3>1, <3>2 DEF KeepsFaults
  <2>2. ASSUME NEW q \in Requests, Disconnect(q)
        PROVE  solo[r] /\ UNCHANGED <<pre, limits>> /\ KeepsFaults(r)
    BY <2>2 DEF Disconnect, KeepsFaults, Inv, TypeOK
  <2>3. ASSUME NEW u \in Users, Dial(u) \/ HangUp(u)
        PROVE  solo[r] /\ UNCHANGED <<pre, limits>> /\ KeepsFaults(r)
    BY <2>3 DEF Dial, HangUp, KeepsFaults, history
  <2>4. ASSUME NEW i \in Ids, Expire(i)
        PROVE  solo[r] /\ UNCHANGED <<pre, limits>> /\ KeepsFaults(r)
    BY <2>4 DEF Expire, KeepsFaults, history
  <2> QED
    BY <2>1, <2>2, <2>3, <2>4 DEF Environment
<1>4. KeepsRows(r)
  <2>1. req[r].id \in live => row[req[r].id].name = req[r].name
    BY <1>0 DEF Asked
  <2>2. req[r].id \in live => /\ row'[req[r].id].pw = row[req[r].id].pw
                              /\ row'[req[r].id].enabled = row[req[r].id].enabled
    <3>1. CASE UNCHANGED row
      BY <3>1
    <3>2. CASE ExpirySet
      <4>1. exp.cur \in live => /\ row' = [row EXCEPT ![exp.cur].enabled = FALSE]
                                /\ req[r].name # row[exp.cur].name
        BY <3>2 DEF ExpirySet
      <4>2. exp.cur \notin live => UNCHANGED row
        BY <3>2 DEF ExpirySet
      <4>3. req[r].id \in live /\ exp.cur \in live => row'[req[r].id] = row[req[r].id]
        BY <1>0, <2>1, <4>1 DEF Inv, TypeOK
      <4> QED
        BY <4>2, <4>3
    <3>3. ASSUME NEW i \in Ids, Expire(i)
          PROVE  \A j \in Ids : row'[j].pw = row[j].pw /\ row'[j].enabled = row[j].enabled
      BY <3>3 DEF Expire, Inv, TypeOK, Row
    <3>4. \/ UNCHANGED row
          \/ ExpirySet
          \/ \E i \in Ids : Expire(i)
      BY DEF Expiry, ExpiryScan, ExpiryTerminate, ExpirySetFails, Environment, Dial, HangUp, Disconnect, db
    <3> QED
      BY <1>0, <3>1, <3>2, <3>3, <3>4
  <2> QED
    BY <1>0, <1>1, <2>2 DEF KeepsRows
<1>5. KeepsFiles(r)
  BY <1>1, <1>3 DEF KeepsFiles, vpn
<1>6. KeepsRest(r)
  <2>1. \A v \in Users : sa'[v] => sa[v] \/ charon[v] # NoPw
    BY DEF Expiry, ExpiryScan, ExpiryTerminate, ExpirySet, ExpirySetFails,
           Environment, Dial, HangUp, Expire, Disconnect, Inv, TypeOK
  <2> QED
    BY <1>0, <1>2, <1>3, <2>1 DEF KeepsRest, Limited, Connected, KeepsOrder
<1> QED
  BY <1>1, <1>2, <1>3, <1>4, <1>5, <1>6, StageStays

-----------------------------------------------------------------------------
(* The inductive step.                                                      *)

\* A step leads to a step of the same operation, or to the end of the request.
LEMMA StepAsked ==
  ASSUME Inv, Asked, NEW q \in Requests, Step(q)
  PROVE  \/ req'[q] = NoRequest
         \/ /\ KeepsOrder(q) /\ req'[q].ctx = req[q].ctx /\ req'[q].pc \in Steps(req[q].op)
            /\ req[q].pc # "failed" /\ Recorded(q)
<1> DEFINE Moved == \E p : p \in Steps(req[q].op) /\ req[q].pc # "failed" /\ Goto(q, p)
<1>0. req[q].op \in OpKinds /\ req[q].pc \in Steps(req[q].op)
  BY StepMoves DEF Inv, TypeOK, Request, Asked
<1>1. CASE \/ WriteConf(q) \/ WriteConfFails(q) \/ WriteLoad(q) \/ WriteLoadFails(q)
           \/ WriteLimit(q) \/ WriteLimitFails(q)
  <2>1. Moved
    BY <1>0, <1>1 DEF Steps, OpKinds, WriteConf, WriteConfFails, WriteLoad, WriteLoadFails, WriteLimit,
                      WriteLimitFails
  <2> QED
    BY <1>1, <2>1, OwnOrder, StepRecords DEF Return, WriteConf, WriteConfFails, WriteLoad, WriteLoadFails,
       WriteLimit, WriteLimitFails
<1>2. CASE RemoveConf(q) \/ RemoveConfFails(q) \/ RemoveLoad(q) \/ RemoveLoadFails(q)
  <2>1. Moved
    BY <1>0, <1>2 DEF Steps, OpKinds, RemoveConf, RemoveConfFails, RemoveLoad, RemoveLoadFails, AfterRemoveFails
  <2> QED
    BY <1>2, <2>1, OwnOrder, StepRecords DEF Return, RemoveConf, RemoveConfFails, RemoveLoad, RemoveLoadFails
<1>3. CASE CreateUndo(q) \/ ResetUndo(q) \/ DisableUndo(q) \/ DeleteUndo(q) \/ UndoFails(q)
  <2>1. Moved
    BY <1>0, <1>3 DEF Steps, OpKinds, CreateUndo, ResetUndo, DisableUndo, DeleteUndo, UndoFails
  <2> QED
    BY <1>3, <2>1, OwnOrder, StepRecords DEF Return, CreateUndo, ResetUndo, DisableUndo, DeleteUndo, UndoFails
<1>4. CASE \/ ResetUpdate(q) \/ ResetUpdateFails(q) \/ Lookup(q) \/ LookupFails(q)
           \/ TerminateSA(q) \/ TerminateSeesNone(q) \/ TerminateFails(q)
  <2>1. Moved
    BY <1>0, <1>4 DEF Steps, OpKinds, ResetUpdate, ResetUpdateFails, Lookup, LookupFails, TerminateSA,
                      TerminateSeesNone, TerminateFails
  <2> QED
    BY <1>4, <2>1, OwnOrder, StepRecords DEF Return, ResetUpdate, ResetUpdateFails, Lookup, LookupFails,
       TerminateSA, TerminateSeesNone, TerminateFails
<1>5. CASE DeleteRow(q) \/ DeleteRowFails(q) \/ RemoveLimit(q) \/ RemoveLimitFails(q)
  <2>1. Moved
    BY <1>0, <1>5 DEF Steps, OpKinds, DeleteRow, DeleteRowFails, RemoveLimit, RemoveLimitFails
  <2> QED
    BY <1>5, <2>1, OwnOrder, StepRecords DEF Return, DeleteRow, DeleteRowFails, RemoveLimit, RemoveLimitFails
<1>6. CASE Return(q)
  BY <1>6 DEF Return, Inv, TypeOK
<1> QED
  BY <1>1, <1>2, <1>3, <1>4, <1>5, <1>6 DEF Step

\* A request in flight after a handler's step was in flight before it, on the
\* same user, and it was not the one that was answered.
LEMMA StillInFlight ==
  ASSUME Inv, NEW q \in Requests, Step(q), NEW s \in Requests, InFlight(s)'
  PROVE  InFlight(s) /\ req'[s].name = req[s].name /\ (Return(q) => q # s)
<1>1. InFlight(q) /\ (req' = [req EXCEPT ![q] = NoRequest] \/ \E p \in PCs : Goto(q, p))
  BY StepMoves
<1>2. CASE req' = [req EXCEPT ![q] = NoRequest]
  <2>1. s # q
    BY <1>2 DEF NoRequest, InFlight, Inv, TypeOK
  <2> QED
    BY <1>2, <2>1 DEF InFlight, Inv, TypeOK
<1>3. ASSUME NEW p \in PCs, Goto(q, p)
      PROVE  InFlight(s) /\ req'[s].name = req[s].name
  BY <1>1, <1>3, GotoFields DEF InFlight, Inv, TypeOK
<1>4. Return(q) => q # s
  BY DEF Return, NoRequest, InFlight, Inv, TypeOK
<1> QED
  BY <1>1, <1>2, <1>3, <1>4

\* A crash ends every request, and a restart finds none.
LEMMA NobodyLeft ==
  ASSUME Inv, Crash \/ Boot, NEW r \in Requests
  PROVE  ~InFlight(r)'
BY DEF Crash, Boot, InFlight, NoRequest, Inv, Down

\* Requests, ids and names belong together for ever.
LEMMA NextAsked == ASSUME Inv, Asked, [Next]_vars PROVE Asked'
<1>0. seq \in Nat /\ 1..seq \subseteq Ids
  BY BoundsAssumption DEF Inv, TypeOK, Ids
<1> DEFINE Good(r) == /\ req[r].pc \in Steps(req[r].op)
                      /\ \/ req[r].id \in 1..seq /\ row[req[r].id].name = req[r].name
                         \/ req[r].id = 0 /\ req[r].op = "create" /\ req[r].pc = "failed" /\ hit[r] = {}
                      /\ ~req[r].ctx => "gone" \in hit[r]
<1> SUFFICES ASSUME NEW r \in Requests, InFlight(r)' PROVE Good(r)'
  BY DEF Asked
<1>a. InFlight(r) => Good(r)
  BY DEF Asked
<1>1. ASSUME NEW q \in Requests, Step(q) PROVE Good(r)'
  <2>1. seq' = seq /\ \A j \in Ids : row'[j].name = row[j].name
    BY <1>1, StepKeepsNames
  <2>2. CASE r = q
    <3>1. InFlight(r) /\ req'[r] # NoRequest
      BY <1>1, <2>2, StepMoves DEF InFlight, NoRequest
    <3>2. /\ KeepsOrder(r) /\ req'[r].ctx = req[r].ctx /\ req'[r].pc \in Steps(req[r].op)
          /\ req[r].pc # "failed" /\ Recorded(r)
      BY <1>1, <2>2, <3>1, StepAsked
    <3>3. hit[r] \subseteq hit'[r]
      BY <3>2 DEF Recorded, Inv, TypeOK
    <3> QED
      BY <1>0, <1>a, <2>1, <3>1, <3>2, <3>3 DEF KeepsOrder
  <2>3. CASE r # q
    <3>1. req'[r] = req[r] /\ hit'[r] = hit[r]
      BY <1>1, <2>3, StepMoves, GotoFields, StepHistory DEF Inv, TypeOK
    <3> QED
      BY <1>0, <1>a, <2>1, <3>1 DEF InFlight
  <2> QED
    BY <2>2, <2>3
<1>2. ASSUME NEW q \in Requests, Begin(q) PROVE Good(r)'
  <2>1. BeginsAsked(q) /\ \E v \in Users : BeginsOn(q, v)
    BY <1>2, Beginnings
  <2>2. CASE r = q
    <3>1. hit'[r] = {}
      BY <2>1, <2>2 DEF BeginsOn, Enter, Inv, TypeOK
    <3> QED
      BY <2>1, <2>2, <3>1 DEF BeginsAsked
  <2>3. CASE r # q
    <3>1. req'[r] = req[r]
      BY <1>2, <2>3, BeginShape DEF BeginsOut
    <3>2. hit'[r] = hit[r] /\ \A j \in 1..seq : row'[j].name = row[j].name
      BY <2>1, <2>3 DEF BeginsOn, Enter, Inv, TypeOK
    <3>3. 1..seq \subseteq 1..seq'
      BY <1>0, <2>1 DEF BeginsAsked
    <3> QED
      BY <1>a, <3>1, <3>2, <3>3 DEF InFlight
  <2> QED
    BY <2>2, <2>3
<1>3. CASE Expiry \/ Environment
  <2>1. /\ seq' = seq /\ \A j \in Ids : row'[j].name = row[j].name
        /\ req'[r].pc = req[r].pc /\ req'[r].op = req[r].op /\ req'[r].id = req[r].id
        /\ req'[r].name = req[r].name
    BY <1>3, OthersShape
  <2>2. \/ req'[r].ctx = req[r].ctx /\ hit'[r] = hit[r]
        \/ req[r].pc # "failed" /\ hit'[r] = hit[r] \cup {"gone"}
    <3>1. ASSUME NEW q \in Requests, Disconnect(q)
          PROVE  \/ req'[r].ctx = req[r].ctx /\ hit'[r] = hit[r]
                 \/ req[r].pc # "failed" /\ hit'[r] = hit[r] \cup {"gone"}
      BY <3>1 DEF Disconnect, Inv, TypeOK
    <3>2. ASSUME ~\E q \in Requests : Disconnect(q) PROVE UNCHANGED <<req, hit>>
      BY <1>3, <3>2 DEF Expiry, ExpiryScan, ExpiryTerminate, ExpirySet, ExpirySetFails,
                        Environment, Dial, HangUp, Expire, history
    <3> QED
      BY <3>1, <3>2
  <2> QED
    BY <1>0, <1>a, <2>1, <2>2 DEF InFlight
<1>4. CASE Crash \/ Boot
  BY <1>4, NobodyLeft
<1>5. CASE UNCHANGED vars
  BY <1>5, <1>a DEF vars, db, history, InFlight
<1> QED
  BY <1>1, <1>2, <1>3, <1>4, <1>5 DEF Next

\* A handler that counts as alone has its user to itself.
LEMMA NextApart == ASSUME Inv, Apart, [Next]_vars PROVE Apart'
<1> SUFFICES ASSUME NEW r \in Requests, NEW p \in Requests, p # r, InFlight(r)', InFlight(p)', solo'[r]
             PROVE  req'[p].name # req'[r].name
  BY DEF Apart
<1>a. InFlight(r) /\ InFlight(p) /\ solo[r] => req[p].name # req[r].name
  BY DEF Apart
<1>1. ASSUME NEW q \in Requests, Step(q) PROVE req'[p].name # req'[r].name
  <2>1. ASSUME NEW s \in Requests, InFlight(s)' PROVE InFlight(s) /\ req'[s].name = req[s].name
    BY <1>1, <2>1, StillInFlight
  <2>2. solo[r]
    <3>1. Return(q) => q # r
      BY <1>1, StillInFlight
    <3> QED
      BY <1>1, <3>1, StepRecords, StepHistory DEF Recorded
  <2> QED
    BY <1>a, <2>1, <2>2
<1>2. ASSUME NEW q \in Requests, Begin(q) PROVE req'[p].name # req'[r].name
  <2>1. PICK v \in Users : BeginsOn(q, v)
    BY <1>2, Beginnings
  <2>2. \A s \in Requests \ {q} : req'[s] = req[s]
    BY <1>2, BeginShape DEF BeginsOut
  <2>3. /\ r = q => Rivals(q, v) = {}
        /\ r # q => solo[r] /\ r \notin Rivals(q, v)
        /\ req'[q].name = v
    BY <2>1 DEF BeginsOn, Enter, Inv, TypeOK
  <2> QED
    BY <1>a, <2>2, <2>3 DEF Rivals, InFlight
<1>3. CASE Expiry \/ Environment
  <2>1. \A s \in Requests : req'[s].pc = req[s].pc /\ req'[s].name = req[s].name
    BY <1>3, OthersShape
  <2>2. solo[r]
    BY <1>3 DEF Expiry, ExpiryScan, ExpiryTerminate, ExpirySet, ExpirySetFails, history,
                Environment, Dial, HangUp, Expire, Disconnect, Inv, TypeOK
  <2> QED
    BY <1>a, <2>1, <2>2 DEF InFlight
<1>4. CASE Crash \/ Boot
  BY <1>4, NobodyLeft
<1>5. CASE UNCHANGED vars
  BY <1>5, <1>a DEF vars, history, InFlight
<1> QED
  BY <1>1, <1>2, <1>3, <1>4, <1>5 DEF Next

\* A lone handler is in its stage, whatever anybody does.
LEMMA NextAlone == ASSUME Inv, Asked, Apart, Alone, [Next]_vars PROVE Alone'
<1> SUFFICES ASSUME NEW r \in Requests, InFlight(r)', solo'[r] PROVE Stage(r)'
  BY DEF Alone
<1>a. InFlight(r) /\ solo[r] => Stage(r)
  BY DEF Alone
<1>1. ASSUME NEW q \in Requests, Step(q) PROVE Stage(r)'
  <2>1. InFlight(r) /\ (Return(q) => q # r)
    BY <1>1, StillInFlight
  <2>2. solo[r]
    BY <1>1, <2>1, StepRecords, StepHistory DEF Recorded
  <2>3. CASE r = q
    BY <1>1, <1>a, <2>1, <2>2, <2>3, OwnStep
  <2>4. CASE r # q
    BY <1>1, <1>a, <2>1, <2>2, <2>4, StepElsewhere
  <2> QED
    BY <2>3, <2>4
<1>2. ASSUME NEW q \in Requests, Begin(q) PROVE Stage(r)'
  <2>1. CASE r = q
    BY <1>2, <2>1, Beginnings
  <2>2. CASE r # q
    <3>1. InFlight(r)
      BY <1>2, <2>2, BeginShape DEF BeginsOut, InFlight
    <3> QED
      BY <1>2, <1>a, <2>2, <3>1, BeginElsewhere
  <2> QED
    BY <2>1, <2>2
<1>3. CASE Expiry \/ Environment
  <2>1. InFlight(r)
    BY <1>3, OthersShape DEF InFlight
  <2> QED
    BY <1>3, <1>a, <2>1, OthersElsewhere
<1>4. CASE Crash \/ Boot
  BY <1>4, NobodyLeft
<1>5. CASE UNCHANGED vars
  <2>1. InFlight(r) /\ solo[r] /\ req'[r].pc = req[r].pc
    BY <1>5 DEF vars, history, InFlight
  <2>2. KeepsOrder(r) /\ KeepsRows(r) /\ KeepsFiles(r) /\ KeepsRest(r) /\ KeepsFaults(r)
    BY <1>5 DEF vars, db, history, KeepsOrder, KeepsRows, KeepsFiles, KeepsRest, KeepsFaults,
                Limited, Connected
  <2> QED
    BY <1>a, <2>1, <2>2, StageStays
<1> QED
  BY <1>1, <1>2, <1>3, <1>4, <1>5 DEF Next

-----------------------------------------------------------------------------
(* Both properties follow.                                                  *)

\* What success promises is what the last stage of each operation says.
LEMMA AloneKeepsPromises == Asked /\ Alone => SoleSuccessKeepsItsPromise
<1> SUFFICES ASSUME Asked, Alone, NEW r \in Requests
             PROVE  LET u == req[r].name  i == req[r].id IN
      /\ Done(r, "create", "ok") => /\ i \in live /\ row[i].name = u /\ row[i].pw = req[r].pw
                                    /\ Serves(u, req[r].pw) /\ limits[u]
      /\ Done(r, "reset", "ok") => i \in live /\ row[i].pw = req[r].pw /\ Serves(u, req[r].pw)
      /\ Done(r, "disable", "ok") => i \in live /\ ~row[i].enabled
      /\ Done(r, "delete", "ok") =>
            /\ Named(u) = {} /\ Serves(u, NoPw)
            /\ hit[r] \cap {"term", "list", "gone"} = {} => ~sa[u]
            /\ "limit" \notin hit[r] => ~limits[u]
  BY DEF SoleSuccessKeepsItsPromise
<1>1. ASSUME NEW o, Done(r, o, "ok") PROVE Stage(r) /\ row[req[r].id].name = req[r].name
  BY <1>1 DEF Asked, Alone, Done, InFlight
<1>2. ASSUME Done(r, "create", "ok")
      PROVE  HasRow(r) /\ ServesNew(r) /\ Limited(r) /\ row[req[r].id].name = req[r].name
  BY <1>1, <1>2 DEF Done, Stage, CreateStage
<1>3. ASSUME Done(r, "reset", "ok") PROVE HasRow(r) /\ ServesNew(r)
  BY <1>1, <1>3 DEF Done, Stage, ResetStage
<1>4. ASSUME Done(r, "disable", "ok") PROVE RowOff(r)
  BY <1>1, <1>4 DEF Done, Stage, DisableStage
<1>5. ASSUME Done(r, "delete", "ok")
      PROVE  /\ Unnamed(r) /\ ServesNone(r)
             /\ hit[r] \cap {"term", "list", "gone"} = {} => ~Connected(r)
             /\ "limit" \notin hit[r] => ~Limited(r)
  BY <1>1, <1>5 DEF Done, Stage, DeleteStage
<1> QED
  BY <1>2, <1>3, <1>4, <1>5 DEF HasRow, RowOff, Unnamed, ServesNew, ServesNone, Limited, Connected

\* What a rollback owes is what a failed request's stage says.
LEMMA AloneRollsBack == Alone => SingleFileFaultRollsBack
<1> SUFFICES ASSUME Alone, NEW r \in Requests, FileFault(r)
             PROVE  LET u == req[r].name  i == req[r].id IN
      /\ Done(r, "create", "failed") =>
            /\ Named(u) = {} /\ conf[u] \in {pre[r].conf, NoPw}
            /\ charon[u] \in {pre[r].charon, conf[u]}
      /\ Done(r, "reset", "failed") \/ Done(r, "delete", "failed") =>
            /\ i \in live /\ row[i].pw = req[r].old.pw /\ row[i].enabled = req[r].old.enabled
            /\ conf[u] = pre[r].conf /\ charon[u] \in {pre[r].charon, conf[u]}
  BY DEF SingleFileFaultRollsBack, FileFault
<1>1. ASSUME NEW o, Done(r, o, "failed") PROVE Stage(r)
  BY <1>1 DEF Alone, Done, InFlight
<1>2. ASSUME Done(r, "create", "failed") PROVE OldOrNone(r) /\ Unnamed(r)
  BY <1>1, <1>2 DEF Done, Stage, CreateStage
<1>3. ASSUME Done(r, "reset", "failed") \/ Done(r, "delete", "failed") PROVE OldFile(r) /\ OldRow(r)
  BY <1>1, <1>3 DEF Done, Stage, ResetStage, DeleteStage
<1> QED
  BY <1>2, <1>3 DEF OldOrNone, Unnamed, OldFile, OldRow

\* The stages with what they rest on.
OutcomeInv == Inv /\ Asked /\ Apart /\ Alone

\* Nobody is in flight at first, and every step keeps the stages.
LEMMA OutcomeInvHolds == Spec => []OutcomeInv
<1>1. Init => OutcomeInv
  <2>1. Init => \A r \in Requests : ~InFlight(r)
    BY DEF Init, InFlight, NoRequest
  <2> QED
    BY <2>1, InitInv DEF OutcomeInv, Asked, Apart, Alone
<1>2. OutcomeInv /\ [Next]_vars => OutcomeInv'
  <2>1. Inv /\ [Next]_vars => Inv'
    BY NextType, NextRows, NextLock, NextDown, NextDueList DEF Inv
  <2> QED
    BY <2>1, NextAsked, NextApart, NextAlone DEF OutcomeInv
<1> QED
  BY <1>1, <1>2, PTL DEF Spec

\* A request that had its user to itself and reported success did what it says,
\* for any number of users and handlers and whatever earlier failures left
\* behind (CreateUser, ResetPassword, DisableUser, DeleteUser).
THEOREM SoleSuccess == Spec => []SoleSuccessKeepsItsPromise
<1>1. OutcomeInv => SoleSuccessKeepsItsPromise
  BY AloneKeepsPromises DEF OutcomeInv
<1> QED
  BY <1>1, OutcomeInvHolds, PTL

\* A request that had its user to itself and failed on one file operation alone
\* is rolled back, for any number of users and handlers (the rollbacks of
\* CreateUser, ResetPassword and DeleteUser).
THEOREM SingleFault == Spec => []SingleFileFaultRollsBack
<1>1. OutcomeInv => SingleFileFaultRollsBack
  BY AloneRollsBack DEF OutcomeInv
<1> QED
  BY <1>1, OutcomeInvHolds, PTL
=============================================================================
