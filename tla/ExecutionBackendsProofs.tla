----------------------- MODULE ExecutionBackendsProofs -----------------------
(***************************************************************************)
(* What is proved of the execution backends, for any jobs and bounds: every *)
(* safety property that MCExecutionBackends checks.  The session comes      *)
(* first, then an inductive invariant of each backend with the steps that  *)
(* keep it, and last what follows whichever one the configuration names.   *)
(***************************************************************************)
EXTENDS ExecutionBackends, SequenceTheorems, TLAPS

-----------------------------------------------------------------------------
(* The session.  What the handlers of the daemon make of db is brought into *)
(* a few kinds of step, each of which keeps the session in order and is one *)
(* of the promise's.                                                       *)

Answered == {"Succeeded", "Failed"}
Unknown == {"Interrupted", "CancelUnknown"}

Db == [status : [Jobs -> Status], bound : BOOLEAN, quarantined : BOOLEAN,
       chk : [n : Nat, last : TurnStatus]]

\* One job at a time is dispatched, no request reaches the program twice, that
\* of a job which waits or was withdrawn has not reached it, and a job that was
\* lost has fenced the session.
SessionInv ==
  /\ SessionTypeOK
  /\ \A j \in Jobs : runs[j] \in {0, 1}
  /\ \A j \in Jobs : db.status[j] \in {"Queued", "Cancelled"} => runs[j] = 0
  /\ \A j \in Jobs : db.status[j] \in Unknown => db.quarantined
  /\ \A j, k \in Jobs : db.status[j] \in Active /\ db.status[k] \in Active => j = k

\* What may become of a job that was requested `ran` times.
Edge(old, new, ran, closed) ==
  \/ new = old
  \/ old \in Active /\ new \in Active
  \/ old \in Active /\ new = "Queued" /\ ran = 0
  \/ old \in Active \cup {"Queued"} /\ new = "Cancelled" /\ ran = 0
  \/ old \in Active /\ new \in Answered /\ ran = 1
  \/ old \in Active /\ new \in Unknown /\ closed

\* From d to e nothing but job j moves, and a fence stays.
Leads(d, e, j) ==
  /\ e \in Db
  /\ d.quarantined => e.quarantined
  /\ \A k \in Jobs \ {j} : e.status[k] = d.status[k]
  /\ j \in Jobs => Edge(d.status[j], e.status[j], runs[j], e.quarantined)

Moves(j) == Leads(db, db', j) /\ runs' = runs
Claims(j) ==
  j \in Jobs /\ Claimable(j) /\ db' = ClaimForBackendDispatch(db, j) /\ runs' = runs
Begins(j) ==
  /\ j \in Jobs /\ runs[j] = 0 /\ db.status[j] \in Active \cup Unknown
  /\ runs' = [runs EXCEPT ![j] = @ + 1]
  /\ db' = db

SessionStep ==
  \/ UNCHANGED <<db, runs>>
  \/ \E j \in Jobs \cup {NoJob} : Moves(j) \/ Claims(j) \/ Begins(j)

LEMMA NoJobIsNone == NoJob \notin Jobs
BY JobsAssumption DEF NoJob

LEMMA SessionTypes == SessionTypeOK <=> db \in Db /\ runs \in [Jobs -> Nat]
BY DEF SessionTypeOK, Db

LEMMA StatusesDiffer ==
  ASSUME NEW st \in Status
  PROVE  /\ st \in Active => st \notin Answered \cup Unknown \cup {"Queued", "Cancelled"}
         /\ st \in Answered => st \notin Active \cup Unknown \cup {"Queued", "Cancelled"}
         /\ st \in Unknown => st \notin Active \cup Answered \cup {"Queued", "Cancelled"}
         /\ st \in Active \cup Answered \cup Unknown \cup {"Queued", "Cancelled"}
BY DEF Status, Active, Answered, Unknown

\* The phase by the status, before and after a step.
PhaseOf(st) ==
  CASE st = "Queued" -> "queued"
    [] st \in Active -> "claimed"
    [] st \in Answered -> "answered"
    [] st = "Cancelled" -> "withdrawn"
    [] OTHER -> "ambiguous"

LEMMA PhaseIs ==
  \A j \in Jobs :
    Phase(j) = PhaseOf(db.status[j]) /\ Phase(j)' = PhaseOf(db'.status[j])
BY DEF Phase, PhaseOf, Answered

LEMMA PhaseValues ==
  ASSUME NEW st \in Status
  PROVE  /\ st = "Queued" => PhaseOf(st) = "queued"
         /\ st \in Active <=> PhaseOf(st) = "claimed"
         /\ st \in Answered => PhaseOf(st) = "answered"
         /\ st = "Cancelled" => PhaseOf(st) = "withdrawn"
         /\ st \in Unknown => PhaseOf(st) = "ambiguous"
BY StatusesDiffer DEF PhaseOf, Status, Active, Answered, Unknown

LEMMA SamePhases ==
  ASSUME \A k \in Jobs : Phase(k)' = Phase(k)
  PROVE  [k \in Jobs |-> Phase(k)]' = [k \in Jobs |-> Phase(k)]
OBVIOUS

LEMMA PhaseMove ==
  ASSUME NEW j \in Jobs, NEW p, Phase(j)' = p,
         \A k \in Jobs \ {j} : Phase(k)' = Phase(k)
  PROVE  Promise!Move(j, p)
BY DEF Promise!Move

LEMMA SamePromise ==
  ASSUME \A k \in Jobs : Phase(k)' = Phase(k), UNCHANGED runs,
         db'.quarantined = db.quarantined
  PROVE  UNCHANGED Promise!vars
<1>1. [k \in Jobs |-> Phase(k)]' = [k \in Jobs |-> Phase(k)]
  BY SamePhases
<1> QED  BY <1>1 DEF Promise!vars

LEMMA MovesKeep ==
  ASSUME SessionInv, NEW j \in Jobs \cup {NoJob}, Moves(j)
  PROVE  SessionInv' /\ [Promise!Next]_(Promise!vars)
<1>1. /\ SessionTypeOK /\ SessionTypeOK'
      /\ db.status \in [Jobs -> Status] /\ db'.status \in [Jobs -> Status]
      /\ db.quarantined \in BOOLEAN /\ db'.quarantined \in BOOLEAN
      /\ runs' = runs
  BY SessionTypes DEF SessionInv, SessionTypeOK, Moves, Leads, Db
<1>2. \A k \in Jobs \ {j} : db'.status[k] = db.status[k]
  BY DEF Moves, Leads
<1>3. db'.quarantined \in {db.quarantined, TRUE}
  BY <1>1 DEF Moves, Leads
<1>4. \A k \in Jobs \ {j} : Phase(k)' = Phase(k)
  BY <1>2, PhaseIs
<1>5. CASE j \notin Jobs \/ db'.status[j] = db.status[j]
  <2>1. \A k \in Jobs : db'.status[k] = db.status[k]
    BY <1>2, <1>5
  <2>2. \A k \in Jobs : Phase(k)' = Phase(k)
    BY <2>1, PhaseIs
  <2>3. SessionInv'
    BY <1>1, <1>3, <2>1 DEF SessionInv
  <2>4. CASE db'.quarantined = db.quarantined
    BY <1>1, <2>2, <2>3, <2>4, SamePromise
  <2>5. CASE db'.quarantined = TRUE
    <3>1. [k \in Jobs |-> Phase(k)]' = [k \in Jobs |-> Phase(k)]
      BY <2>2, SamePhases
    <3> QED  BY <1>1, <2>3, <2>5, <3>1 DEF Promise!Next, Promise!Fence
  <2> QED  BY <1>3, <2>4, <2>5
<1>6. CASE j \in Jobs /\ db'.status[j] # db.status[j]
  <2>1. PICK o \in Status, n \in Status : o = db.status[j] /\ n = db'.status[j] /\ o # n
    BY <1>1, <1>6
  <2>2. /\ runs[j] \in {0, 1}
        /\ \/ o \in Active /\ n \in Active
           \/ o \in Active /\ n = "Queued" /\ runs[j] = 0
           \/ o \in Active \cup {"Queued"} /\ n = "Cancelled" /\ runs[j] = 0
           \/ o \in Active /\ n \in Answered /\ runs[j] = 1
           \/ o \in Active /\ n \in Unknown /\ db'.quarantined
    BY <1>6, <2>1 DEF Moves, Leads, Edge, SessionInv
  <2>3. SessionInv'
    <3>1. \A k \in Jobs : db'.status[k] \in {"Queued", "Cancelled"} => runs'[k] = 0
      BY <1>1, <1>2, <2>1, <2>2, StatusesDiffer DEF SessionInv
    <3>2. \A k \in Jobs : db'.status[k] \in Active => db.status[k] \in Active
      BY <1>1, <1>2, <2>1, <2>2, StatusesDiffer
    <3>3. \A k \in Jobs : db'.status[k] \in Unknown =>
            db.status[k] \in Unknown \/ db'.quarantined
      BY <1>1, <1>2, <2>1, <2>2, StatusesDiffer
    <3>4. db.quarantined => db'.quarantined
      BY <1>1, <1>3
    <3> QED  BY <1>1, <3>1, <3>2, <3>3, <3>4 DEF SessionInv
  <2>4. Phase(j) = PhaseOf(o) /\ Phase(j)' = PhaseOf(n)
    BY <1>6, <2>1, PhaseIs
  <2>5. [k \in Jobs |-> Phase(k)][j] = Phase(j)
    BY <1>6
  <2>6. Promise!Move(j, PhaseOf(n))
    BY <1>4, <1>6, <2>4, PhaseMove
  <2>7. CASE o \in Active /\ n \in Active
    <3>1. \A k \in Jobs : Phase(k)' = Phase(k)
      BY <1>4, <2>4, <2>7, PhaseValues
    <3>2. [k \in Jobs |-> Phase(k)]' = [k \in Jobs |-> Phase(k)]
      BY <3>1, SamePhases
    <3>3. CASE db'.quarantined = db.quarantined
      BY <1>1, <2>3, <3>1, <3>3, SamePromise
    <3>4. CASE db'.quarantined = TRUE
      BY <1>1, <2>3, <3>2, <3>4 DEF Promise!Next, Promise!Fence
    <3> QED  BY <1>3, <3>3, <3>4
  <2>8. CASE o \in Active /\ n = "Queued" /\ runs[j] = 0
    <3>1. Promise!Return(j)
      BY <1>1, <1>3, <2>4, <2>5, <2>6, <2>8, PhaseValues DEF Promise!Return
    <3> QED  BY <1>6, <2>3, <3>1 DEF Promise!Next
  <2>9. CASE o \in Active \cup {"Queued"} /\ n = "Cancelled" /\ runs[j] = 0
    <3>1. Promise!Withdraw(j)
      BY <1>1, <1>3, <2>4, <2>5, <2>6, <2>9, PhaseValues DEF Promise!Withdraw
    <3> QED  BY <1>6, <2>3, <3>1 DEF Promise!Next
  <2>10. CASE o \in Active /\ n \in Answered /\ runs[j] = 1
    <3>1. Promise!Answer(j)
      BY <1>1, <1>3, <2>4, <2>5, <2>6, <2>10, PhaseValues DEF Promise!Answer
    <3> QED  BY <1>6, <2>3, <3>1 DEF Promise!Next
  <2>11. CASE o \in Active /\ n \in Unknown /\ db'.quarantined
    <3>1. Promise!Lose(j)
      BY <1>1, <2>4, <2>5, <2>6, <2>11, PhaseValues DEF Promise!Lose
    <3> QED  BY <1>6, <2>3, <3>1 DEF Promise!Next
  <2> QED  BY <2>2, <2>7, <2>8, <2>9, <2>10, <2>11
<1> QED  BY <1>5, <1>6

LEMMA ClaimsKeep ==
  ASSUME SessionInv, NEW j \in Jobs, Claims(j)
  PROVE  SessionInv' /\ [Promise!Next]_(Promise!vars)
<1>1. /\ db \in Db /\ runs' = runs /\ db.status[j] = "Queued" /\ ~db.quarantined
      /\ runs \in [Jobs -> Nat]
      /\ \A k \in Jobs : db.status[k] \notin Active
      /\ db' = [[db EXCEPT !.status[j] = "Dispatching"] EXCEPT !.bound = FALSE]
  BY SessionTypes DEF SessionInv, Claims, Claimable, NoActiveJob, ClaimForBackendDispatch
<1>2. /\ db' \in Db /\ db'.quarantined = db.quarantined
      /\ db'.status = [db.status EXCEPT ![j] = "Dispatching"]
  BY <1>1 DEF Db, Status, Active
<1>3. SessionTypeOK'
  BY <1>1, <1>2 DEF SessionTypeOK, Db
<1>4. SessionInv'
  BY <1>1, <1>2, <1>3 DEF SessionInv, Db, Active, Unknown
<1>5. \A k \in Jobs \ {j} : Phase(k)' = Phase(k)
  <2>1. \A k \in Jobs \ {j} : db'.status[k] = db.status[k]
    BY <1>1, <1>2 DEF Db
  <2> QED  BY <2>1, PhaseIs
<1>6. /\ Phase(j) = "queued" /\ Phase(j)' = "claimed"
      /\ \A k \in Jobs : Phase(k) # "claimed"
  <2>1. db'.status[j] = "Dispatching" /\ "Dispatching" \in Active /\ "Dispatching" \in Status
        /\ "Queued" \in Status /\ \A k \in Jobs : db.status[k] \in Status
    BY <1>1, <1>2 DEF Db, Active, Status
  <2> QED  BY <1>1, <2>1, PhaseIs, PhaseValues
<1>7. Promise!Claim(j)
  <2>1. Promise!Move(j, "claimed")
    BY <1>5, <1>6, PhaseMove
  <2> QED  BY <1>1, <1>2, <1>6, <2>1 DEF Promise!Claim
<1> QED  BY <1>4, <1>7 DEF Promise!Next

LEMMA BeginsKeep ==
  ASSUME SessionInv, NEW j \in Jobs, Begins(j)
  PROVE  SessionInv' /\ [Promise!Next]_(Promise!vars)
<1>1. /\ runs \in [Jobs -> Nat] /\ runs[j] = 0 /\ runs' = [runs EXCEPT ![j] = 1]
      /\ db' = db /\ db \in Db
  BY SessionTypes DEF SessionInv, Begins
<1>2. Phase(j) \in {"claimed", "ambiguous"}
  BY <1>1, PhaseIs, PhaseValues DEF Begins, Db
<1>3. db.status[j] \notin {"Queued", "Cancelled"}
  BY DEF Begins, Active, Unknown
<1>4. SessionInv'
  BY <1>1, <1>3 DEF SessionInv, SessionTypeOK
<1>5. \A k \in Jobs : Phase(k)' = Phase(k)
  BY <1>1, PhaseIs
<1>6. [k \in Jobs |-> Phase(k)]' = [k \in Jobs |-> Phase(k)]
  BY <1>5, SamePhases
<1>7. Promise!Begin(j)
  BY <1>1, <1>2, <1>6 DEF Promise!Begin
<1> QED  BY <1>4, <1>7 DEF Promise!Next

\* A step of the session keeps it in order and is one of the promise's.
LEMMA SessionStepKeeps ==
  ASSUME SessionInv, SessionStep
  PROVE  SessionInv' /\ [Promise!Next]_(Promise!vars)
<1>1. CASE UNCHANGED <<db, runs>>
  <2>1. \A k \in Jobs : Phase(k)' = Phase(k)
    BY <1>1, PhaseIs
  <2> QED  BY <1>1, <2>1, SamePromise DEF SessionInv, SessionTypeOK
<1>2. ASSUME NEW j \in Jobs \cup {NoJob}, Moves(j) \/ Claims(j) \/ Begins(j)
      PROVE  SessionInv' /\ [Promise!Next]_(Promise!vars)
  BY <1>2, MovesKeep, ClaimsKeep, BeginsKeep DEF Claims, Begins
<1> QED  BY <1>1, <1>2 DEF SessionStep

-----------------------------------------------------------------------------
(* What the store's operations lead to.                                    *)

LEMMA LeadsNowhere ==
  ASSUME NEW d \in Db, NEW j
  PROVE  Leads(d, d, j)
BY DEF Leads, Edge

LEMMA LeadsOn ==
  ASSUME NEW d \in Db, NEW e, NEW f, NEW j, Leads(d, e, j), Leads(e, f, j)
  PROVE  Leads(d, f, j)
<1>1. /\ f \in Db /\ (d.quarantined => f.quarantined)
      /\ \A k \in Jobs \ {j} : f.status[k] = d.status[k]
  BY DEF Leads
<1>2. ASSUME j \in Jobs PROVE Edge(d.status[j], f.status[j], runs[j], f.quarantined)
  <2>1. /\ d.status[j] \in Status /\ e.status[j] \in Status /\ f.status[j] \in Status
        /\ Edge(d.status[j], e.status[j], runs[j], e.quarantined)
        /\ Edge(e.status[j], f.status[j], runs[j], f.quarantined)
        /\ e.quarantined => f.quarantined
    BY <1>2 DEF Leads, Db
  <2> QED  BY <2>1, StatusesDiffer DEF Edge
<1> QED  BY <1>1, <1>2 DEF Leads

LEMMA Writes ==
  ASSUME NEW d \in Db, NEW j \in Jobs, NEW st \in Status
  PROVE  /\ WithStatus(d, j, st) \in Db
         /\ WithStatus(d, j, st).status = [d.status EXCEPT ![j] = st]
         /\ WithStatus(d, j, st).bound = d.bound
         /\ WithStatus(d, j, st).quarantined = d.quarantined
         /\ WithStatus(d, j, st).chk = d.chk
BY DEF WithStatus, Db

LEMMA WriteLeads ==
  ASSUME NEW d \in Db, NEW j \in Jobs, NEW st \in Status,
         Edge(d.status[j], st, runs[j], d.quarantined)
  PROVE  /\ Leads(d, WithStatus(d, j, st), j)
         /\ WithStatus(d, j, st).status[j] = st
<1> DEFINE e == WithStatus(d, j, st)
<1>1. /\ e \in Db /\ e.quarantined = d.quarantined
      /\ e.status = [d.status EXCEPT ![j] = st] /\ d.status \in [Jobs -> Status]
  BY Writes DEF Db
<1>2. e.status[j] = st /\ \A k \in Jobs \ {j} : e.status[k] = d.status[k]
  BY <1>1
<1>3. Leads(d, e, j)
  <2> HIDE DEF e
  <2> QED  BY <1>1, <1>2 DEF Leads
<1> QED  BY <1>2, <1>3

LEMMA QuarantineLeads ==
  ASSUME NEW d \in Db, NEW j
  PROVE  /\ Leads(d, Quarantine(d), j)
         /\ Quarantine(d).status = d.status /\ Quarantine(d).quarantined
         /\ Quarantine(d).bound = d.bound /\ Quarantine(d).chk = d.chk
<1>1. /\ Quarantine(d) \in Db /\ Quarantine(d).status = d.status
      /\ Quarantine(d).quarantined /\ Quarantine(d).bound = d.bound
      /\ Quarantine(d).chk = d.chk
  BY DEF Quarantine, Db
<1> QED  BY <1>1 DEF Leads, Edge

LEMMA CancellingLeads ==
  ASSUME NEW d \in Db, NEW j \in Jobs, d.status[j] \in Active
  PROVE  /\ Leads(d, WithStatus(d, j, "Cancelling"), j)
         /\ WithStatus(d, j, "Cancelling").status[j] = "Cancelling"
         /\ WithStatus(d, j, "Cancelling") \in Db
         /\ WithStatus(d, j, "Cancelling").bound = d.bound
<1>1. "Cancelling" \in Status /\ Edge(d.status[j], "Cancelling", runs[j], d.quarantined)
  BY DEF Edge, Active, Status
<1> QED  BY <1>1, WriteLeads, Writes

LEMMA ResetLeads ==
  ASSUME NEW d \in Db, NEW j \in Jobs, runs[j] = 0
  PROVE  /\ Leads(d, ResetUnsentExecution(d, j), j)
         /\ d.status[j] # "Running" => ResetUnsentExecution(d, j).status[j] \notin Active
<1>1. CASE d.status[j] = "Cancelling"
  <2>1. ResetUnsentExecution(d, j) = WithStatus(d, j, "Cancelled")
    BY <1>1 DEF ResetUnsentExecution
  <2> QED  BY <1>1, <2>1, WriteLeads DEF Edge, Active, Status
<1>2. CASE d.status[j] = "Dispatching"
  <2>1. ResetUnsentExecution(d, j) = WithStatus(d, j, "Queued")
    BY <1>2 DEF ResetUnsentExecution
  <2> QED  BY <1>2, <2>1, WriteLeads DEF Edge, Active, Status
<1>3. CASE d.status[j] \notin {"Cancelling", "Dispatching"}
  <2>1. ResetUnsentExecution(d, j) = d
    BY <1>3 DEF ResetUnsentExecution
  <2> QED  BY <1>3, <2>1, LeadsNowhere DEF Active
<1> QED  BY <1>1, <1>2, <1>3

LEMMA RunningLeads ==
  ASSUME NEW d \in Db, NEW j \in Jobs
  PROVE  /\ Leads(d, MarkBackendRunning(d, j), j)
         /\ MarkBackendRunning(d, j).status[j] =
              IF d.status[j] = "Dispatching" THEN "Running" ELSE d.status[j]
         /\ MarkBackendRunning(d, j).bound
         /\ MarkBackendRunning(d, j).quarantined = d.quarantined
         /\ MarkBackendRunning(d, j).chk = d.chk
<1> DEFINE st == IF d.status[j] = "Dispatching" THEN "Running" ELSE d.status[j]
<1>1. st \in Status
  BY DEF Db, Status, Active
<1>2. MarkBackendRunning(d, j) = [[d EXCEPT !.status[j] = st] EXCEPT !.bound = TRUE]
  BY DEF MarkBackendRunning
<1>3. /\ MarkBackendRunning(d, j) \in Db
      /\ MarkBackendRunning(d, j).status = [d.status EXCEPT ![j] = st]
      /\ MarkBackendRunning(d, j).bound
      /\ MarkBackendRunning(d, j).quarantined = d.quarantined
      /\ MarkBackendRunning(d, j).chk = d.chk
  <2> HIDE DEF st
  <2> QED  BY <1>1, <1>2 DEF Db
<1> QED  BY <1>3 DEF Leads, Edge, Db, Active

LEMMA CancelUnknownLeads ==
  ASSUME NEW d \in Db, NEW j \in Jobs
  PROVE  /\ Leads(d, CancelUnknown(d, j), j)
         /\ CancelUnknown(d, j).status[j] =
              IF d.status[j] = "Cancelling" THEN "CancelUnknown" ELSE d.status[j]
<1>1. CASE d.status[j] = "Cancelling"
  <2> DEFINE e == WithStatus(d, j, "CancelUnknown")
  <2>1. CancelUnknown(d, j) = Quarantine(e)
    BY <1>1 DEF CancelUnknown
  <2>2. /\ e \in Db /\ e.status = [d.status EXCEPT ![j] = "CancelUnknown"]
        /\ e.quarantined = d.quarantined
    BY Writes DEF Status
  <2>3. /\ Quarantine(e) \in Db /\ Quarantine(e).status = e.status
        /\ Quarantine(e).quarantined
    BY <2>2, QuarantineLeads DEF Leads
  <2> QED  BY <1>1, <2>1, <2>2, <2>3 DEF Leads, Edge, Db, Active, Unknown
<1>2. CASE d.status[j] # "Cancelling"
  BY <1>2, LeadsNowhere DEF CancelUnknown
<1> QED  BY <1>1, <1>2

LEMMA UnsentLeads ==
  ASSUME NEW d \in Db, NEW j \in Jobs, runs[j] = 0
  PROVE  /\ Leads(d, FinishUnsentBackendCancellation(d, j), j)
         /\ d.status[j] = "Cancelling" =>
              FinishUnsentBackendCancellation(d, j).status[j] \notin Active
<1>1. CASE d.status[j] = "Cancelling" /\ ~d.bound
  <2>1. FinishUnsentBackendCancellation(d, j) = WithStatus(d, j, "Cancelled")
    BY <1>1 DEF FinishUnsentBackendCancellation
  <2> QED  BY <1>1, <2>1, WriteLeads DEF Edge, Active, Status
<1>2. CASE ~(d.status[j] = "Cancelling" /\ ~d.bound)
  <2>1. FinishUnsentBackendCancellation(d, j) = CancelUnknown(d, j)
    BY <1>2 DEF FinishUnsentBackendCancellation
  <2> QED  BY <2>1, CancelUnknownLeads DEF Active
<1> QED  BY <1>1, <1>2

\* None of them touches the checkpoint, and only the acceptance binds a turn.
LEMMA StoreKeeps ==
  ASSUME NEW d \in Db, NEW j \in Jobs
  PROVE  /\ ResetUnsentExecution(d, j).chk = d.chk
         /\ ResetUnsentExecution(d, j).bound = d.bound
         /\ ResetUnsentExecution(d, j).quarantined = d.quarantined
         /\ CancelUnknown(d, j).chk = d.chk /\ CancelUnknown(d, j).bound = d.bound
         /\ FinishUnsentBackendCancellation(d, j).chk = d.chk
         /\ FinishUnsentBackendCancellation(d, j).bound = d.bound
         /\ d.bound => FinishUnsentBackendCancellation(d, j) = CancelUnknown(d, j)
<1>1. \A st \in Status : LET e == WithStatus(d, j, st) IN
        /\ e \in Db /\ e.chk = d.chk /\ e.bound = d.bound /\ e.quarantined = d.quarantined
        /\ Quarantine(e).chk = d.chk /\ Quarantine(e).bound = d.bound
  <2> TAKE st \in Status
  <2>1. PICK e : e = WithStatus(d, j, st)
    OBVIOUS
  <2>2. e \in Db /\ e.chk = d.chk /\ e.bound = d.bound /\ e.quarantined = d.quarantined
    BY <2>1, Writes
  <2>3. Quarantine(e).chk = e.chk /\ Quarantine(e).bound = e.bound
    BY <2>2, QuarantineLeads
  <2> QED  BY <2>1, <2>2, <2>3
<1>2. /\ ResetUnsentExecution(d, j) \in
           {d, WithStatus(d, j, "Cancelled"), WithStatus(d, j, "Queued")}
      /\ "Cancelled" \in Status /\ "Queued" \in Status
  BY DEF ResetUnsentExecution, Status
<1>3. /\ CancelUnknown(d, j) \in {d, Quarantine(WithStatus(d, j, "CancelUnknown"))}
      /\ "CancelUnknown" \in Status
  BY DEF CancelUnknown, Status
<1>4. /\ FinishUnsentBackendCancellation(d, j) \in
           {WithStatus(d, j, "Cancelled"), CancelUnknown(d, j)}
      /\ d.bound => FinishUnsentBackendCancellation(d, j) = CancelUnknown(d, j)
  BY DEF FinishUnsentBackendCancellation
<1> QED  BY <1>1, <1>2, <1>3, <1>4

\* A lost process takes the one job that may be active.
LEMMA DisconnectedLeads ==
  ASSUME NEW d \in Db, NEW j, \A k \in Jobs \ {j} : d.status[k] \notin Active
  PROVE  /\ Leads(d, MarkBackendDisconnected(d), j)
         /\ \A k \in Jobs :
              MarkBackendDisconnected(d).status[k] =
                IF d.status[k] = "Cancelling" THEN "CancelUnknown"
                ELSE IF d.status[k] \in Active THEN "Interrupted" ELSE d.status[k]
         /\ \A k \in Jobs : MarkBackendDisconnected(d).status[k] \notin Active
         /\ MarkBackendDisconnected(d).bound = d.bound
         /\ MarkBackendDisconnected(d).chk = d.chk
<1> DEFINE e == MarkBackendDisconnected(d)
           st == [k \in Jobs |-> IF d.status[k] = "Cancelling" THEN "CancelUnknown"
                                 ELSE IF d.status[k] \in Active THEN "Interrupted"
                                 ELSE d.status[k]]
           q == d.quarantined \/ ~NoActiveJob(d)
<1>1. e = [[d EXCEPT !.status = st] EXCEPT !.quarantined = q]
  <2>1. [k \in Jobs |-> CASE d.status[k] = "Cancelling" -> "CancelUnknown"
                          [] d.status[k] \in {"Dispatching", "Running"} -> "Interrupted"
                          [] OTHER -> d.status[k]] = st
    <3>1. \A k \in Jobs :
            (CASE d.status[k] = "Cancelling" -> "CancelUnknown"
               [] d.status[k] \in {"Dispatching", "Running"} -> "Interrupted"
               [] OTHER -> d.status[k]) =
            (IF d.status[k] = "Cancelling" THEN "CancelUnknown"
             ELSE IF d.status[k] \in Active THEN "Interrupted" ELSE d.status[k])
      BY DEF Active
    <3> QED  BY <3>1
  <2> QED  BY <2>1 DEF MarkBackendDisconnected
<1>2. st \in [Jobs -> Status] /\ q \in BOOLEAN
  BY DEF Db, Status, Active
<1>3. /\ e \in Db /\ e.status = st /\ e.quarantined = q
      /\ e.bound = d.bound /\ e.chk = d.chk
  <2> HIDE DEF st, q
  <2> QED  BY <1>1, <1>2 DEF Db
<1>4. \A k \in Jobs : st[k] \notin Active
  BY DEF Active
<1>5. \A k \in Jobs \ {j} : st[k] = d.status[k]
  BY DEF Active
<1>6. j \in Jobs => Edge(d.status[j], st[j], runs[j], q)
  BY DEF Edge, Active, Unknown, NoActiveJob
<1>7. Leads(d, e, j)
  <2>1. q = TRUE \/ q = d.quarantined
    BY <1>2 DEF Db
  <2> HIDE DEF st, q, e
  <2> QED  BY <1>3, <1>5, <1>6, <2>1 DEF Leads
<1> QED  BY <1>3, <1>4, <1>7

LEMMA SessionBegins ==
  ASSUME SessionInit
  PROVE  /\ SessionInv /\ Promise!Init
         /\ \A j \in Jobs : db.status[j] \notin Active
<1>1. SessionInv /\ \A j \in Jobs : db.status[j] = "Queued" /\ runs[j] = 0
  BY DEF SessionInit, SessionInv, SessionTypeOK, Status, TurnStatus, Active, Unknown
<1>2. \A j \in Jobs : Phase(j) = "queued"
  BY <1>1, PhaseIs, PhaseValues DEF Status
<1>3. Promise!Init
  BY <1>2 DEF Promise!Init, SessionInit
<1> QED  BY <1>1, <1>3 DEF Active

-----------------------------------------------------------------------------
(* The Claude Code backend.                                                *)

Results == {"success", "failure"}

\* Who holds the job that is active, and until when.
ClaudeHolds ==
  /\ att.active \/ pc.dispatch # "idle" => att.job \in Jobs
  /\ att.active => pc.dispatch = "idle"
  /\ pc.run # "idle" => att.active
  /\ pc.run \notin {"idle", "reporting", "failing"} => ~att.terminal
  /\ \A j \in Jobs : db.status[j] \in Active =>
       j = att.job /\ (att.active \/ pc.dispatch # "idle")
  /\ pc.run = "reporting" => db.status[att.job] \notin Active
  /\ att.active /\ ~att.terminal =>
       IF att.cancel THEN db.status[att.job] = "Cancelling"
       ELSE db.status[att.job] \in Active

\* A job that waits for the preflight has not been sent, and no child of an
\* earlier one is about.
ClaudePending ==
  pc.dispatch # "idle" =>
    /\ ~failed /\ runs[att.job] = 0
    /\ IF att.cancel THEN db.status[att.job] \notin Active
       ELSE db.status[att.job] = "Dispatching"

\* What the child has read, and what can be heard of it.
ClaudeHears ==
  /\ ~att.active /\ ~failed => ~child.up /\ stream.over # "no"
  /\ stream.over = "no" => att.job \in Jobs
  /\ child.exit # "none" => ~child.up
  /\ child.up =>
       /\ att.job \in Jobs /\ pc.dispatch = "idle"
       /\ db.status[att.job] \in Active \cup Unknown
       /\ child.input # "read" => runs[att.job] = 0
  /\ att.active /\ child.input = "read" => runs[att.job] = 1
  /\ pc.run = "scheduled" => child.input = "none"
  /\ pc.run \in {"confirm", "reporting"} => child.exit # "none" /\ stream.over = "ended"
  /\ stream.over = "ended" => stream.seen \in Results
  /\ stream.seen \in Results \/ (\E i \in 1..Len(out) : out[i] \in Results)
       => child.input = "read"

ClaudeInv == Claude!TypeOK /\ SessionInv /\ ClaudeHolds /\ ClaudePending /\ ClaudeHears

\* The session's operators, as ClaudeTurn has them.
LEMMA ClaudeSession ==
  /\ Claude!Active = Active /\ Claude!NoJob = NoJob
  /\ Claude!SessionTypeOK <=> SessionTypeOK
  /\ Claude!SessionInit <=> SessionInit
  /\ \A j : Claude!Claimable(j) <=> Claimable(j)
  /\ \A d, j, st : Claude!WithStatus(d, j, st) = WithStatus(d, j, st)
  /\ \A d : Claude!Quarantine(d) = Quarantine(d)
  /\ \A d, j : Claude!ClaimForBackendDispatch(d, j) = ClaimForBackendDispatch(d, j)
  /\ \A d, j : Claude!ResetUnsentExecution(d, j) = ResetUnsentExecution(d, j)
  /\ \A d, j : Claude!MayAccept(d, j) <=> MayAccept(d, j)
  /\ \A d, j : Claude!MarkBackendRunning(d, j) = MarkBackendRunning(d, j)
  /\ \A d, j : Claude!CancelUnknown(d, j) = CancelUnknown(d, j)
  /\ \A d, j : Claude!FinishUnsentBackendCancellation(d, j)
                 = FinishUnsentBackendCancellation(d, j)
  /\ \A d : Claude!MarkBackendDisconnected(d) = MarkBackendDisconnected(d)
<1>1. Claude!Active = Active /\ Claude!NoJob = NoJob
  BY DEF Claude!Active, Active, Claude!NoJob, NoJob
<1>2. Claude!SessionTypeOK <=> SessionTypeOK
  BY DEF Claude!SessionTypeOK, SessionTypeOK, Claude!Status, Status, Claude!Active, Active,
     Claude!TurnStatus, TurnStatus
<1>3. Claude!SessionInit <=> SessionInit
  BY DEF Claude!SessionInit, SessionInit
<1>4. \A d, j, st : Claude!WithStatus(d, j, st) = WithStatus(d, j, st)
  BY DEF Claude!WithStatus, WithStatus
<1>5. \A d : Claude!Quarantine(d) = Quarantine(d)
  BY DEF Claude!Quarantine, Quarantine
<1>6. \A d, j : Claude!ClaimForBackendDispatch(d, j) = ClaimForBackendDispatch(d, j)
  BY DEF Claude!ClaimForBackendDispatch, ClaimForBackendDispatch
<1>7. \A d, j : Claude!ResetUnsentExecution(d, j) = ResetUnsentExecution(d, j)
  BY <1>4 DEF Claude!ResetUnsentExecution, ResetUnsentExecution
<1>8. \A d, j : Claude!MayAccept(d, j) <=> MayAccept(d, j)
  BY DEF Claude!MayAccept, MayAccept
<1>9. \A d, j : Claude!MarkBackendRunning(d, j) = MarkBackendRunning(d, j)
  BY DEF Claude!MarkBackendRunning, MarkBackendRunning
<1>10. \A d, j : Claude!CancelUnknown(d, j) = CancelUnknown(d, j)
  BY <1>4, <1>5 DEF Claude!CancelUnknown, CancelUnknown
<1>11. \A d, j : Claude!FinishUnsentBackendCancellation(d, j)
                   = FinishUnsentBackendCancellation(d, j)
  BY <1>4, <1>10 DEF Claude!FinishUnsentBackendCancellation, FinishUnsentBackendCancellation
<1>12. \A d : Claude!NoActiveJob(d) <=> NoActiveJob(d)
  BY <1>1 DEF Claude!NoActiveJob, NoActiveJob
<1>13. \A j : Claude!Claimable(j) <=> Claimable(j)
  BY <1>12 DEF Claude!Claimable, Claimable
<1>14. \A d : Claude!MarkBackendDisconnected(d) = MarkBackendDisconnected(d)
  BY DEF Claude!MarkBackendDisconnected, MarkBackendDisconnected, Claude!NoActiveJob,
     NoActiveJob, Claude!Active, Active
<1> QED  BY <1>1, <1>2, <1>3, <1>4, <1>5, <1>6, <1>7, <1>8, <1>9, <1>10, <1>11, <1>13,
            <1>14

\* The place of one activity changes.
LEMMA ClaudeAt ==
  ASSUME pc \in Claude!Control, NEW a \in {"dispatch", "run", "start", "stop"}, NEW p
  PROVE  /\ Claude!At(a, p).dispatch = IF a = "dispatch" THEN p ELSE pc.dispatch
         /\ Claude!At(a, p).run = IF a = "run" THEN p ELSE pc.run
         /\ Claude!At(a, p).start = IF a = "start" THEN p ELSE pc.start
         /\ Claude!At(a, p).stop = IF a = "stop" THEN p ELSE pc.stop
BY DEF Claude!At, Claude!Control

LEMMA ClaudeControl ==
  ASSUME pc \in Claude!Control
  PROVE  /\ \A p \in {"idle", "assert", "context"} : Claude!At("dispatch", p) \in Claude!Control
         /\ \A p \in {"idle", "scheduled", "sending", "waiting", "confirm", "reporting",
                      "caught", "cancelled", "stopped", "failing"} :
              Claude!At("run", p) \in Claude!Control
         /\ \A p \in {"idle", "preparing", "handover", "done", "failed"} :
              Claude!At("start", p) \in Claude!Control
         /\ \A p \in {"no", "pending", "active", "stopped"} :
              Claude!At("stop", p) \in Claude!Control
<1>1. \A p \in {"idle", "assert", "context"} : Claude!At("dispatch", p) \in Claude!Control
  BY DEF Claude!At, Claude!Control
<1>2. \A p \in {"idle", "scheduled", "sending", "waiting", "confirm", "reporting",
                "caught", "cancelled", "stopped", "failing"} :
        Claude!At("run", p) \in Claude!Control
  BY DEF Claude!At, Claude!Control, Claude!Closing
<1>3. \A p \in {"idle", "preparing", "handover", "done", "failed"} :
        Claude!At("start", p) \in Claude!Control
  BY DEF Claude!At, Claude!Control
<1>4. \A p \in {"no", "pending", "active", "stopped"} :
        Claude!At("stop", p) \in Claude!Control
  BY DEF Claude!At, Claude!Control
<1> QED  BY <1>1, <1>2, <1>3, <1>4

ClaudeChildren == [up : BOOLEAN, input : {"none", "written", "read"},
                   told : {"nothing", "init", "result", "other"},
                   exit : {"none", "zero", "nonzero"}]
ClaudeStreams == [seen : {"nothing", "init", "success", "failure"},
                  over : {"unopened", "no", "ended", "threw"}]

LEMMA ClaudeTypes ==
  ASSUME ClaudeInv
  PROVE  /\ db \in Db /\ runs \in [Jobs -> Nat] /\ SessionInv
         /\ child \in ClaudeChildren /\ stream \in ClaudeStreams
         /\ out \in Seq(Claude!Line)
         /\ att \in Claude!Attempt /\ failed \in BOOLEAN /\ pc \in Claude!Control
BY SessionTypes DEF ClaudeInv, SessionInv, Claude!TypeOK, ClaudeChildren, ClaudeStreams

LEMMA ClaudeMade ==
  ASSUME SessionInv', ClaudeHolds', ClaudePending', ClaudeHears',
         child' \in ClaudeChildren, stream' \in ClaudeStreams, out' \in Seq(Claude!Line),
         att' \in Claude!Attempt, failed' \in BOOLEAN, pc' \in Claude!Control
  PROVE  ClaudeInv'
<1>1. Claude!SessionTypeOK'
  BY DEF SessionInv, SessionTypeOK, Claude!SessionTypeOK, Claude!Status, Status,
     Claude!Active, Active, Claude!TurnStatus, TurnStatus
<1> QED  BY <1>1 DEF ClaudeInv, Claude!TypeOK, ClaudeChildren, ClaudeStreams

\* The attempt stays what it is to everybody else.
SameAttempt ==
  /\ att'.job = att.job /\ att'.active = att.active
  /\ att'.cancel = att.cancel /\ att'.terminal = att.terminal

\* runAttempt goes on.
ClaudeRunMoves ==
  \/ pc'.run = pc.run
  \/ pc.run # "idle" /\ pc'.run = "failing"
  \/ /\ pc.run \notin {"idle", "reporting", "failing"}
     /\ pc'.run \in {"sending", "waiting", "caught", "cancelled", "stopped"}
  \/ /\ pc.run \notin {"idle", "reporting", "failing"}
     /\ pc'.run = "confirm" /\ child.exit # "none" /\ stream.over = "ended"

\* A step of an activity that neither the jobs nor the child see.
LEMMA ClaudeQuiet ==
  ASSUME ClaudeInv, UNCHANGED <<runs, child, out, stream>>,
         db' \in {db, Quarantine(db)},
         att' \in Claude!Attempt, SameAttempt, pc' \in Claude!Control,
         pc'.dispatch = pc.dispatch, ClaudeRunMoves,
         failed' = failed \/ (failed' = TRUE /\ pc.dispatch = "idle")
  PROVE  ClaudeInv' /\ SessionStep
<1>0. db'.status = db.status /\ Leads(db, db', NoJob)
  BY ClaudeTypes, QuarantineLeads, LeadsNowhere
<1>1. SessionStep
  BY <1>0 DEF SessionStep, Moves
<1>2. SessionInv'
  BY <1>1, SessionStepKeeps, ClaudeTypes
<1>3. ClaudeHolds'
  BY <1>0, ClaudeTypes DEF ClaudeInv, ClaudeHolds, SameAttempt, ClaudeRunMoves
<1>4. ClaudePending'
  BY <1>0, ClaudeTypes DEF ClaudeInv, ClaudePending, SameAttempt
<1>5. ClaudeHears'
  BY <1>0, ClaudeTypes DEF ClaudeInv, ClaudeHears, SameAttempt, ClaudeRunMoves
<1> QED  BY <1>1, <1>2, <1>3, <1>4, <1>5, ClaudeTypes, ClaudeMade

LEMMA ClaudeWaits ==
  ASSUME ClaudeInv, Claude!InputSent \/ Claude!OutputCollected \/ Claude!DeadlineFires
  PROVE  ClaudeInv' /\ SessionStep
<1>0. pc \in Claude!Control /\ att \in Claude!Attempt
  BY ClaudeTypes
<1>1. /\ att' \in {att, [att EXCEPT !.deadline = FALSE]}
      /\ pc' \in {pc} \cup {Claude!At("run", p) : p \in {"waiting", "caught", "confirm"}}
      /\ UNCHANGED <<db, runs, child, out, stream, failed>>
  BY DEF Claude!InputSent, Claude!OutputCollected, Claude!DeadlineFires, Claude!Continue
<1>2. att' \in Claude!Attempt /\ SameAttempt
  BY <1>0, <1>1 DEF Claude!Attempt, SameAttempt
<1>3. pc' \in Claude!Control /\ pc'.dispatch = pc.dispatch
  BY <1>0, <1>1, ClaudeControl, ClaudeAt
<1>4. ClaudeRunMoves
  BY <1>0, ClaudeAt
  DEF Claude!InputSent, Claude!OutputCollected, Claude!DeadlineFires, Claude!Continue,
      ClaudeRunMoves
<1> QED  BY <1>1, <1>2, <1>3, <1>4, ClaudeQuiet

LEMMA ClaudeStartsAndStops ==
  ASSUME ClaudeInv, Claude!StartStep \/ Claude!Stop \/ Claude!StopStep
  PROVE  ClaudeInv' /\ SessionStep
<1>0. pc \in Claude!Control /\ att \in Claude!Attempt
  BY ClaudeTypes
<1>1. /\ att' = att /\ UNCHANGED <<runs, child, out, stream>>
      /\ db' \in {db, Quarantine(db)}
      /\ failed' = failed \/ (failed' = TRUE /\ pc.dispatch = "idle")
      /\ \/ pc' \in {Claude!At("start", p) : p \in {"preparing", "handover", "done", "failed"}}
         \/ pc' \in {Claude!At("stop", p) : p \in {"pending", "active", "stopped"}}
  <2>1. CASE Claude!StartStep
    BY <2>1, ClaudeSession
    DEF Claude!StartStep, Claude!StartBegins, Claude!StartPrepared, Claude!ReadyHandled,
        Claude!Continue
  <2>2. CASE Claude!Stop \/ Claude!StopStep
    BY <2>2
    DEF Claude!StopStep, Claude!Stop, Claude!StopAwaitsSubmission, Claude!StopEnds,
        Claude!StopActive, Claude!Continue
  <2> QED  BY <2>1, <2>2
<1>2. SameAttempt
  BY <1>1 DEF SameAttempt
<1>3. pc' \in Claude!Control /\ pc'.dispatch = pc.dispatch /\ pc'.run = pc.run
  BY <1>0, <1>1, ClaudeControl, ClaudeAt
<1> QED  BY <1>0, <1>1, <1>2, <1>3, ClaudeQuiet DEF ClaudeRunMoves

LEMMA ClaudeDispatches ==
  ASSUME ClaudeInv, NEW j \in Jobs, Claude!Dispatch(j)
  PROVE  ClaudeInv' /\ SessionStep
<1> DEFINE d == ClaimForBackendDispatch(db, j)
<1>0. /\ db \in Db /\ SessionInv /\ pc \in Claude!Control /\ att \in Claude!Attempt
      /\ ~failed /\ pc.dispatch = "idle" /\ Claimable(j)
      /\ UNCHANGED <<runs, child, out, stream, failed>>
      /\ runs[j] = 0 /\ db.status[j] = "Queued" /\ db.status \in [Jobs -> Status]
      /\ \A k \in Jobs : db.status[k] \notin Active
  BY ClaudeTypes, ClaudeSession
  DEF Claude!Dispatch, Claude!Ready, Claude!Continue, Claimable, NoActiveJob, SessionInv, Db
<1>1. /\ d \in Db /\ d.status = [db.status EXCEPT ![j] = "Dispatching"]
      /\ d.quarantined = db.quarantined
  BY <1>0 DEF ClaimForBackendDispatch, Db, Status, Active
<1>2. CASE att.active
  <2>1. att' = att /\ pc' = pc /\ db' = ResetUnsentExecution(d, j)
    BY <1>2, ClaudeSession DEF Claude!Dispatch, Claude!Continue
  <2>2. db' = WithStatus(d, j, "Queued")
    BY <1>0, <1>1, <2>1 DEF ResetUnsentExecution
  <2>3. db' \in Db /\ db'.status = db.status /\ db'.quarantined = db.quarantined
    <3>1. /\ db' \in Db /\ db'.quarantined = db.quarantined
          /\ db'.status = [d.status EXCEPT ![j] = "Queued"]
      BY <1>1, <2>2, Writes DEF Status
    <3> QED  BY <1>0, <1>1, <3>1
  <2>4. SessionStep
    BY <1>0, <2>3 DEF SessionStep, Moves, Leads, Edge
  <2>5. SessionInv'
    BY <1>0, <2>4, SessionStepKeeps
  <2>6. ClaudeHolds' /\ ClaudePending' /\ ClaudeHears'
    BY <1>0, <2>1, <2>3 DEF ClaudeInv, ClaudeHolds, ClaudePending, ClaudeHears
  <2> QED  BY <1>0, <2>1, <2>4, <2>5, <2>6, ClaudeTypes, ClaudeMade
<1>3. CASE ~att.active
  <2>1. /\ att' = Claude!NewAttempt(j, FALSE) /\ pc' = Claude!At("dispatch", "assert")
        /\ db' = d
    BY <1>3, ClaudeSession DEF Claude!Dispatch, Claude!Continue
  <2>2. SessionStep
    BY <1>0, <2>1 DEF SessionStep, Claims
  <2>3. SessionInv'
    BY <1>0, <2>2, SessionStepKeeps
  <2>4. /\ att' \in Claude!Attempt /\ att'.job = j /\ ~att'.active /\ ~att'.cancel
    BY <2>1 DEF Claude!NewAttempt, Claude!Attempt
  <2>5. pc' \in Claude!Control /\ pc'.dispatch = "assert" /\ pc'.run = pc.run
    BY <1>0, <2>1, ClaudeControl, ClaudeAt
  <2>6. /\ db'.status[j] = "Dispatching"
        /\ \A k \in Jobs : db'.status[k] \in Active => k = j
    BY <1>0, <1>1, <2>1
  <2>7. ClaudeHolds' /\ ClaudePending' /\ ClaudeHears'
    BY <1>0, <1>3, <2>4, <2>5, <2>6 DEF ClaudeInv, ClaudeHolds, ClaudePending, ClaudeHears
  <2> QED  BY <1>0, <2>2, <2>3, <2>4, <2>5, <2>7, ClaudeTypes, ClaudeMade
<1> QED  BY <1>2, <1>3

LEMMA ClaudePreflight ==
  ASSUME ClaudeInv, Claude!DispatchStep
  PROVE  ClaudeInv' /\ SessionStep
<1>0. /\ db \in Db /\ SessionInv /\ pc \in Claude!Control /\ att \in Claude!Attempt
      /\ pc.dispatch # "idle" /\ att.job \in Jobs /\ ~att.active /\ pc.run = "idle"
      /\ runs[att.job] = 0 /\ ~failed /\ ~child.up /\ stream.over # "no"
      /\ UNCHANGED <<runs, failed>>
  BY ClaudeTypes
  DEF ClaudeInv, ClaudeHolds, ClaudePending, ClaudeHears, Claude!DispatchStep,
      Claude!CommandAsserted, Claude!ContextSynced, Claude!Continue, Claude!NotSent
<1>1. CASE Claude!NotSent /\ UNCHANGED <<child, out, stream>>
  <2>1. /\ att' = att /\ db' = ResetUnsentExecution(db, att.job)
        /\ pc' = Claude!At("dispatch", "idle")
    BY <1>1, ClaudeSession DEF Claude!NotSent, Claude!Continue
  <2>2. Leads(db, db', att.job) /\ db'.status[att.job] \notin Active
    BY <1>0, <2>1, ResetLeads DEF ClaudeInv, ClaudePending, Active
  <2>3. SessionStep
    BY <1>0, <2>2 DEF SessionStep, Moves
  <2>4. SessionInv'
    BY <1>0, <2>3, SessionStepKeeps
  <2>5. pc' \in Claude!Control /\ pc'.dispatch = "idle" /\ pc'.run = "idle"
    BY <1>0, <2>1, ClaudeControl, ClaudeAt
  <2>6. \A k \in Jobs : db'.status[k] \notin Active
    BY <1>0, <2>2 DEF ClaudeInv, ClaudeHolds, Leads
  <2>7. ClaudeHolds' /\ ClaudePending' /\ ClaudeHears'
    BY <1>0, <1>1, <2>1, <2>5, <2>6 DEF ClaudeInv, ClaudeHolds, ClaudePending, ClaudeHears
  <2> QED  BY <1>0, <1>1, <2>1, <2>3, <2>4, <2>5, <2>7, ClaudeTypes, ClaudeMade
<1>2. CASE /\ Claude!MaySubmit
           /\ att' = att /\ db' = db /\ pc' = Claude!At("dispatch", "context")
           /\ UNCHANGED <<child, out, stream>>
  <2>1. SessionStep
    BY <1>0, <1>2 DEF SessionStep
  <2>2. SessionInv'
    BY <1>0, <2>1, SessionStepKeeps
  <2>3. pc' \in Claude!Control /\ pc'.dispatch = "context" /\ pc'.run = "idle"
    BY <1>0, <1>2, ClaudeControl, ClaudeAt
  <2>4. ClaudeHolds' /\ ClaudePending' /\ ClaudeHears'
    BY <1>0, <1>2, <2>3 DEF ClaudeInv, ClaudeHolds, ClaudePending, ClaudeHears
  <2> QED  BY <1>0, <1>2, <2>1, <2>2, <2>3, <2>4, ClaudeTypes, ClaudeMade
<1>3. CASE /\ Claude!MaySubmit
           /\ child' = [Claude!NoChild EXCEPT !.up = TRUE]
           /\ out' = <<>> /\ stream' = Claude!NoStream
           /\ att' = Claude!NewAttempt(att.job, TRUE) /\ db' = db
           /\ pc' = [pc EXCEPT !.dispatch = "idle", !.run = "scheduled"]
  <2>1. SessionStep
    BY <1>0, <1>3 DEF SessionStep
  <2>2. SessionInv'
    BY <1>0, <2>1, SessionStepKeeps
  <2>3. /\ pc' \in Claude!Control /\ pc'.dispatch = "idle" /\ pc'.run = "scheduled"
        /\ att' \in Claude!Attempt /\ att'.job = att.job /\ att'.active
        /\ ~att'.cancel /\ ~att'.terminal
    BY <1>0, <1>3 DEF Claude!Control, Claude!NewAttempt, Claude!Attempt
  <2>4. /\ child' \in ClaudeChildren /\ child'.up /\ child'.input = "none"
        /\ child'.exit = "none" /\ stream' \in ClaudeStreams /\ stream'.over = "unopened"
        /\ stream'.seen = "nothing" /\ out' \in Seq(Claude!Line) /\ Len(out') = 0
    <3>1. child' = [up |-> TRUE, input |-> "none", told |-> "nothing", exit |-> "none"]
      BY <1>3 DEF Claude!NoChild
    <3>2. stream' = [seen |-> "nothing", over |-> "unopened"]
      BY <1>3 DEF Claude!NoStream
    <3>3. out' \in Seq(Claude!Line) /\ Len(out') = 0
      BY <1>3
    <3> QED  BY <3>1, <3>2, <3>3 DEF ClaudeChildren, ClaudeStreams
  <2>5. db'.status[att.job] = "Dispatching" /\ "Dispatching" \in Active
    BY <1>0, <1>3 DEF ClaudeInv, ClaudePending, Claude!MaySubmit, Active
  <2>6. ClaudeHolds' /\ ClaudePending'
    BY <1>0, <1>3, <2>3, <2>5 DEF ClaudeInv, ClaudeHolds, ClaudePending
  <2>7. ClaudeHears'
    BY <1>0, <2>3, <2>4, <2>5 DEF ClaudeHears, Results
  <2> QED  BY <1>0, <2>1, <2>2, <2>3, <2>4, <2>6, <2>7, ClaudeTypes, ClaudeMade
<1> QED
  BY <1>1, <1>2, <1>3
  DEF Claude!DispatchStep, Claude!CommandAsserted, Claude!ContextSynced, Claude!Continue

LEMMA ClaudeCancels ==
  ASSUME ClaudeInv, NEW j \in Jobs, Claude!RelayCancel(j)
  PROVE  ClaudeInv' /\ SessionStep
<1> DEFINE d == WithStatus(db, j, "Cancelling")
           asked == [att EXCEPT !.cancel = TRUE]
<1>0. /\ db \in Db /\ SessionInv /\ pc \in Claude!Control /\ att \in Claude!Attempt
      /\ pc' = pc /\ UNCHANGED <<runs, failed, child, out, stream>>
      /\ asked \in Claude!Attempt /\ asked.job = att.job /\ asked.active = att.active
      /\ asked.terminal = att.terminal /\ asked.cancel
      /\ "Cancelling" \in Active /\ "Cancelled" \notin Active \cup {"Queued"}
      /\ "Queued" \notin Active \cup Unknown
  BY ClaudeTypes
  DEF Claude!RelayCancel, Claude!Continue, Claude!Attempt, Active, Unknown
<1>1. CASE db.status[j] = "Queued" /\ att' = att /\ db' = WithStatus(db, j, "Cancelled")
  <2>1. runs[j] = 0 /\ Leads(db, db', j) /\ db'.status[j] = "Cancelled"
    BY <1>0, <1>1, WriteLeads DEF SessionInv, Edge, Status
  <2>2. SessionStep
    BY <1>0, <2>1 DEF SessionStep, Moves
  <2>3. SessionInv'
    BY <1>0, <2>2, SessionStepKeeps
  <2>4. \A k \in Jobs : db.status[k] # "Queued" => db'.status[k] = db.status[k]
    BY <1>1, <2>1 DEF Leads
  <2>5. \A k \in Jobs : db'.status[k] \in Active => db.status[k] \in Active
    BY <1>0, <2>1 DEF Leads
  <2>6. ClaudeHolds' /\ ClaudePending' /\ ClaudeHears'
    BY <1>0, <1>1, <2>4, <2>5
    DEF ClaudeInv, ClaudeHolds, ClaudePending, ClaudeHears, Active, Unknown
  <2> QED  BY <1>0, <1>1, <2>2, <2>3, <2>6, ClaudeTypes, ClaudeMade
<1>2. CASE db.status[j] \in Active
  <2>1. /\ Leads(db, d, j) /\ d.status[j] = "Cancelling" /\ d \in Db
        /\ j = att.job /\ (att.active \/ pc.dispatch # "idle")
    BY <1>0, <1>2, CancellingLeads DEF ClaudeInv, ClaudeHolds
  <2>2. CASE pc.dispatch # "idle"
    <3>1. att' = asked /\ db' = FinishUnsentBackendCancellation(d, j)
      BY <1>0, <1>2, <2>1, <2>2, ClaudeSession DEF Claude!RelayCancel, Claude!Continue
    <3>2. runs[j] = 0 /\ ~att.active
      BY <2>1, <2>2 DEF ClaudeInv, ClaudePending, ClaudeHolds
    <3>3. Leads(db, db', j) /\ db'.status[j] \notin Active
      BY <1>0, <2>1, <3>1, <3>2, UnsentLeads, LeadsOn
    <3>4. SessionStep
      BY <1>0, <3>3 DEF SessionStep, Moves
    <3>5. SessionInv'
      BY <1>0, <3>4, SessionStepKeeps
    <3>6. \A k \in Jobs : db'.status[k] \notin Active
      BY <2>1, <3>3 DEF ClaudeInv, ClaudeHolds, Leads
    <3>7. ClaudeHolds' /\ ClaudePending' /\ ClaudeHears'
      BY <1>0, <2>1, <2>2, <3>1, <3>2, <3>6
      DEF ClaudeInv, ClaudeHolds, ClaudePending, ClaudeHears
    <3> QED  BY <1>0, <3>1, <3>4, <3>5, <3>7, ClaudeTypes, ClaudeMade
  <2>3. CASE pc.dispatch = "idle"
    <3>1. att' = asked /\ db' = d
      BY <1>0, <1>2, <2>1, <2>3, ClaudeSession DEF Claude!RelayCancel, Claude!Continue
    <3>2. SessionStep
      BY <1>0, <2>1, <3>1 DEF SessionStep, Moves
    <3>3. SessionInv'
      BY <1>0, <3>2, SessionStepKeeps
    <3>4. \A k \in Jobs : db'.status[k] \in Active => k = j
      BY <2>1, <3>1 DEF ClaudeInv, ClaudeHolds, Leads
    <3>5. ClaudeHolds'
      BY <1>0, <1>2, <2>1, <2>3, <3>1, <3>4 DEF ClaudeInv, ClaudeHolds
    <3>6. ClaudePending' /\ ClaudeHears'
      BY <1>0, <2>1, <2>3, <3>1 DEF ClaudeInv, ClaudePending, ClaudeHears
    <3> QED  BY <1>0, <3>1, <3>2, <3>3, <3>5, <3>6, ClaudeTypes, ClaudeMade
  <2> QED  BY <2>2, <2>3
<1>3. db.status[j] \notin Active =>
        db.status[j] = "Queued" /\ att' = att /\ db' = WithStatus(db, j, "Cancelled")
  BY ClaudeSession DEF Claude!RelayCancel, Claude!Continue
<1> QED  BY <1>1, <1>2, <1>3

LEMMA ClaudeRuns ==
  ASSUME ClaudeInv, Claude!RunAttempt
  PROVE  ClaudeInv' /\ SessionStep
<1>0. /\ pc \in Claude!Control /\ att \in Claude!Attempt /\ SessionInv
      /\ child \in ClaudeChildren /\ stream \in ClaudeStreams
      /\ pc.run = "scheduled" /\ UNCHANGED <<db, runs, failed, out>>
      /\ child.input = "none" /\ att.active /\ ~att.terminal /\ att.job \in Jobs
      /\ stream.seen \notin Results
      /\ ~\E i \in 1..Len(out) : out[i] \in Results
  BY ClaudeTypes
  DEF Claude!RunAttempt, Claude!Continue, ClaudeInv, ClaudeHears, ClaudeHolds
<1>1. CASE /\ att' = att /\ UNCHANGED <<child, stream>>
           /\ pc' \in {Claude!At("run", "stopped"), Claude!At("run", "cancelled")}
  <2>1. /\ pc' \in Claude!Control /\ pc'.dispatch = pc.dispatch
        /\ pc'.run \in {"stopped", "cancelled"}
    BY <1>0, <1>1, ClaudeControl, ClaudeAt
  <2> QED  BY <1>0, <1>1, <2>1, ClaudeQuiet DEF SameAttempt, ClaudeRunMoves
<1>2. CASE /\ att' = [att EXCEPT !.deadline = TRUE] /\ pc' = Claude!At("run", "sending")
           /\ child' = [child EXCEPT !.input = "written"]
           /\ stream' = [stream EXCEPT !.over = "no"]
  <2>1. SessionStep
    BY <1>0 DEF SessionStep
  <2>2. SessionInv'
    BY <1>0, <2>1, SessionStepKeeps
  <2>3. pc' \in Claude!Control /\ pc'.dispatch = pc.dispatch /\ pc'.run = "sending"
    BY <1>0, <1>2, ClaudeControl, ClaudeAt
  <2>4. att' \in Claude!Attempt /\ SameAttempt
    BY <1>0, <1>2 DEF Claude!Attempt, SameAttempt
  <2>5. /\ child' \in ClaudeChildren /\ child'.up = child.up /\ child'.exit = child.exit
        /\ child'.input = "written"
    BY <1>0, <1>2 DEF ClaudeChildren
  <2>6. stream' \in ClaudeStreams /\ stream'.over = "no" /\ stream'.seen = stream.seen
    BY <1>0, <1>2 DEF ClaudeStreams
  <2>7. ClaudeHolds' /\ ClaudePending'
    BY <1>0, <2>3, <2>4 DEF ClaudeInv, ClaudeHolds, ClaudePending, SameAttempt
  <2>8. ClaudeHears'
    BY <1>0, <2>3, <2>4, <2>5, <2>6 DEF ClaudeInv, ClaudeHears, SameAttempt
  <2> QED  BY <1>0, <2>1, <2>2, <2>3, <2>4, <2>5, <2>6, <2>7, <2>8, ClaudeTypes, ClaudeMade
<1> QED  BY <1>1, <1>2 DEF Claude!RunAttempt, Claude!Continue

\* The attempt is over, its job settled or given up, and so is the backend.
LEMMA ClaudeFinishes ==
  ASSUME ClaudeInv, pc.run # "idle", UNCHANGED <<runs, child, out, stream>>,
         Claude!FinishLost(db'), Leads(db, db', att.job),
         db'.status[att.job] \notin Active,
         db.status[att.job] \in Active \cup Unknown => db'.status[att.job] \in Unknown
  PROVE  ClaudeInv' /\ SessionStep
<1>0. /\ pc \in Claude!Control /\ att \in Claude!Attempt /\ SessionInv
      /\ att.active /\ att.job \in Jobs /\ pc.dispatch = "idle" /\ failed'
      /\ att' = Claude!Terminated(att) /\ pc' = Claude!At("run", "idle")
  BY ClaudeTypes DEF ClaudeInv, ClaudeHolds, Claude!FinishLost
<1>1. SessionStep
  BY <1>0 DEF SessionStep, Moves
<1>2. SessionInv'
  BY <1>0, <1>1, SessionStepKeeps
<1>3. pc' \in Claude!Control /\ pc'.dispatch = "idle" /\ pc'.run = "idle"
  BY <1>0, ClaudeControl, ClaudeAt
<1>4. att' \in Claude!Attempt /\ att'.job = att.job /\ ~att'.active
  BY <1>0 DEF Claude!Terminated, Claude!Attempt
<1>5. \A k \in Jobs : db'.status[k] \notin Active
  BY DEF ClaudeInv, ClaudeHolds, Leads
<1>6. ClaudeHolds' /\ ClaudePending' /\ ClaudeHears'
  BY <1>0, <1>3, <1>4, <1>5 DEF ClaudeInv, ClaudeHolds, ClaudePending, ClaudeHears
<1> QED  BY <1>0, <1>1, <1>2, <1>3, <1>4, <1>6, ClaudeTypes, ClaudeMade

LEMMA ClaudeDisconnects ==
  ASSUME ClaudeInv, pc.run # "idle", UNCHANGED <<runs, child, out, stream>>,
         Claude!FinishDisconnected
  PROVE  ClaudeInv' /\ SessionStep
<1>1. db \in Db /\ att.job \in Jobs /\ db' = MarkBackendDisconnected(db)
  BY ClaudeTypes, ClaudeSession
  DEF ClaudeInv, ClaudeHolds, Claude!FinishDisconnected, Claude!FinishLost
<1>2. \A k \in Jobs \ {att.job} : db.status[k] \notin Active
  BY DEF ClaudeInv, ClaudeHolds
<1>3. /\ Leads(db, db', att.job) /\ db'.status[att.job] \notin Active
      /\ db.status[att.job] \in Active \cup Unknown => db'.status[att.job] \in Unknown
  BY <1>1, <1>2, DisconnectedLeads DEF Unknown
<1>4. Claude!FinishLost(db')
  BY <1>1, ClaudeSession DEF Claude!FinishDisconnected
<1> QED  BY <1>3, <1>4, ClaudeFinishes

LEMMA ClaudeGivesUp ==
  ASSUME ClaudeInv, pc.run \notin {"idle", "reporting", "failing"}, att.cancel,
         UNCHANGED <<runs, child, out, stream>>, Claude!FinishCancelled
  PROVE  ClaudeInv' /\ SessionStep
<1>1. /\ db \in Db /\ att.job \in Jobs /\ db' = CancelUnknown(db, att.job)
      /\ db.status[att.job] = "Cancelling"
  BY ClaudeTypes, ClaudeSession
  DEF ClaudeInv, ClaudeHolds, Claude!FinishCancelled, Claude!FinishLost
<1>2. Leads(db, db', att.job) /\ db'.status[att.job] = "CancelUnknown"
  BY <1>1, CancelUnknownLeads
<1>3. Claude!FinishLost(db')
  BY <1>1, ClaudeSession DEF Claude!FinishCancelled
<1> QED  BY <1>2, <1>3, ClaudeFinishes DEF Active, Unknown

\* Only what the child ran is answered.
LEMMA ClaudeReports ==
  ASSUME ClaudeInv, pc.run = "confirm", ~att.cancel, NEW st \in Answered,
         Claude!Report(st), UNCHANGED <<runs, child, out, stream>>
  PROVE  ClaudeInv' /\ SessionStep
<1>0. /\ pc \in Claude!Control /\ att \in Claude!Attempt /\ SessionInv /\ db \in Db
      /\ att.active /\ att.job \in Jobs /\ pc.dispatch = "idle" /\ failed' = failed
      /\ ~child.up /\ runs[att.job] = 1 /\ db.status[att.job] \in Active
      /\ st \in Status /\ st \notin Active
      /\ att' = [att EXCEPT !.terminal = TRUE] /\ pc' = Claude!At("run", "reporting")
      /\ db' = WithStatus(db, att.job, st)
  BY ClaudeTypes, ClaudeSession
  DEF ClaudeInv, ClaudeHolds, ClaudeHears, Claude!Report, Claude!Continue, Answered, Status,
      Active
<1>1. Leads(db, db', att.job) /\ db'.status[att.job] = st
  BY <1>0, WriteLeads DEF Edge
<1>2. SessionStep
  BY <1>0, <1>1 DEF SessionStep, Moves
<1>3. SessionInv'
  BY <1>0, <1>2, SessionStepKeeps
<1>4. pc' \in Claude!Control /\ pc'.dispatch = "idle" /\ pc'.run = "reporting"
  BY <1>0, ClaudeControl, ClaudeAt
<1>5. /\ att' \in Claude!Attempt /\ att'.job = att.job /\ att'.active /\ att'.terminal
      /\ ~att'.cancel
  BY <1>0 DEF Claude!Attempt
<1>6. \A k \in Jobs : db'.status[k] \notin Active
  BY <1>0, <1>1 DEF ClaudeInv, ClaudeHolds, Leads
<1>7. ClaudeHolds' /\ ClaudePending' /\ ClaudeHears'
  BY <1>0, <1>4, <1>5, <1>6 DEF ClaudeInv, ClaudeHolds, ClaudePending, ClaudeHears
<1> QED  BY <1>0, <1>2, <1>3, <1>4, <1>5, <1>7, ClaudeTypes, ClaudeMade

LEMMA ClaudeConfirms ==
  ASSUME ClaudeInv, Claude!ProcessConfirmed
  PROVE  ClaudeInv' /\ SessionStep
<1>0. /\ pc.run = "confirm" /\ UNCHANGED <<runs, child, out, stream>>
      /\ pc \in Claude!Control /\ att \in Claude!Attempt
  BY ClaudeTypes DEF Claude!ProcessConfirmed
<1>1. CASE Claude!Continue(att, db, Claude!At("run", "caught"))
  <2>1. /\ pc' \in Claude!Control /\ pc'.dispatch = pc.dispatch /\ pc'.run = "caught"
        /\ att' = att /\ db' = db /\ failed' = failed
    BY <1>0, <1>1, ClaudeControl, ClaudeAt DEF Claude!Continue
  <2> QED  BY <1>0, <2>1, ClaudeQuiet DEF SameAttempt, ClaudeRunMoves
<1>2. CASE att.cancel /\ Claude!FinishCancelled
  BY <1>0, <1>2, ClaudeGivesUp
<1>3. CASE Claude!FinishDisconnected
  BY <1>0, <1>3, ClaudeDisconnects
<1>4. CASE ~att.cancel /\ \E st \in Answered : Claude!Report(st)
  BY <1>0, <1>4, ClaudeReports
<1> QED  BY <1>1, <1>2, <1>3, <1>4 DEF Claude!ProcessConfirmed, Answered

LEMMA ClaudeReportEnds ==
  ASSUME ClaudeInv, Claude!ReportFails \/ Claude!Reported
  PROVE  ClaudeInv' /\ SessionStep
<1>0. /\ db' = db /\ UNCHANGED <<runs, child, out, stream>>
      /\ pc \in Claude!Control /\ att \in Claude!Attempt /\ SessionInv
      /\ pc.run \in {"confirm", "reporting"} /\ att.active /\ att.job \in Jobs
      /\ pc.dispatch = "idle"
  BY ClaudeTypes
  DEF Claude!ReportFails, Claude!Reported, Claude!Continue, ClaudeInv, ClaudeHolds
<1>1. CASE /\ failed' = TRUE /\ pc' = Claude!At("run", "failing")
           /\ att' \in {att, [att EXCEPT !.terminal = TRUE]}
  <2>1. SessionStep
    BY <1>0 DEF SessionStep
  <2>2. SessionInv'
    BY <1>0, <2>1, SessionStepKeeps
  <2>3. pc' \in Claude!Control /\ pc'.dispatch = "idle" /\ pc'.run = "failing"
    BY <1>0, <1>1, ClaudeControl, ClaudeAt
  <2>4. /\ att' \in Claude!Attempt /\ att'.job = att.job /\ att'.active
        /\ att'.cancel = att.cancel /\ (att.terminal => att'.terminal)
    BY <1>0, <1>1 DEF Claude!Attempt
  <2>5. ClaudeHolds' /\ ClaudePending'
    BY <1>0, <1>1, <2>3, <2>4 DEF ClaudeInv, ClaudeHolds, ClaudePending
  <2>6. ClaudeHears'
    BY <1>0, <1>1, <2>3, <2>4 DEF ClaudeInv, ClaudeHears
  <2> QED  BY <1>0, <1>1, <2>1, <2>2, <2>3, <2>4, <2>5, <2>6, ClaudeTypes, ClaudeMade
<1>2. CASE /\ failed' = failed /\ pc' = Claude!At("run", "idle")
           /\ pc.run = "reporting" /\ att' = [att EXCEPT !.active = FALSE]
  <2>1. SessionStep
    BY <1>0 DEF SessionStep
  <2>2. SessionInv'
    BY <1>0, <2>1, SessionStepKeeps
  <2>3. pc' \in Claude!Control /\ pc'.dispatch = "idle" /\ pc'.run = "idle"
    BY <1>0, <1>2, ClaudeControl, ClaudeAt
  <2>4. att' \in Claude!Attempt /\ att'.job = att.job /\ ~att'.active
    BY <1>0, <1>2 DEF Claude!Attempt
  <2>5. ClaudeHolds' /\ ClaudePending' /\ ClaudeHears'
    BY <1>0, <1>2, <2>3, <2>4 DEF ClaudeInv, ClaudeHolds, ClaudePending, ClaudeHears
  <2> QED  BY <1>0, <1>2, <2>1, <2>2, <2>3, <2>4, <2>5, ClaudeTypes, ClaudeMade
<1> QED  BY <1>1, <1>2 DEF Claude!ReportFails, Claude!Reported, Claude!Continue

LEMMA ClaudeCloses ==
  ASSUME ClaudeInv, Claude!ProcessClosed \/ Claude!FailClosed
  PROVE  ClaudeInv' /\ SessionStep
<1>0. /\ UNCHANGED <<runs, child, out, stream>>
      /\ pc \in Claude!Control /\ att \in Claude!Attempt
      /\ pc.run \in {"caught", "cancelled", "stopped", "failing"}
      /\ pc.dispatch = "idle"
  BY ClaudeTypes
  DEF Claude!ProcessClosed, Claude!FailClosed, ClaudeInv, ClaudeHolds
<1>1. CASE pc.run \in {"caught", "cancelled"} /\ att.cancel /\ Claude!FinishCancelled
  BY <1>0, <1>1, ClaudeGivesUp
<1>2. CASE Claude!FinishDisconnected
  BY <1>0, <1>2, ClaudeDisconnects
<1>3. CASE pc.run \in {"cancelled", "stopped"} /\ Claude!Unclosed
  <2>1. /\ pc' \in Claude!Control /\ pc'.dispatch = pc.dispatch /\ pc'.run = "failing"
        /\ att' = att /\ db' = db /\ failed' = TRUE
    BY <1>0, <1>3, ClaudeControl, ClaudeAt DEF Claude!Unclosed
  <2> QED  BY <1>0, <2>1, ClaudeQuiet DEF SameAttempt, ClaudeRunMoves
<1> QED  BY <1>1, <1>2, <1>3 DEF Claude!ProcessClosed, Claude!FailClosed

LEMMA ClaudeHearsLine ==
  ASSUME ClaudeInv, Claude!ConsumeLine
  PROVE  ClaudeInv' /\ SessionStep
<1>0. /\ db \in Db /\ pc \in Claude!Control /\ att \in Claude!Attempt /\ SessionInv
      /\ stream \in ClaudeStreams /\ out \in Seq(Claude!Line) /\ out # <<>>
      /\ stream.over = "no" /\ out' = Tail(out) /\ UNCHANGED <<child, failed, pc, runs>>
  BY ClaudeTypes DEF Claude!ConsumeLine
<1>1. /\ out' \in Seq(Claude!Line)
      /\ (\E i \in 1..Len(out') : out'[i] \in Results)
           => \E i \in 1..Len(out) : out[i] \in Results
      /\ Head(out) = out[1] /\ 1 \in 1..Len(out) /\ Head(out) \in Claude!Line
  <2>1. /\ out' \in Seq(Claude!Line) /\ Len(out') = Len(out) - 1
        /\ \A i \in 1..Len(out') : out'[i] = out[i + 1]
        /\ Len(out) \in Nat /\ Len(out) # 0
        /\ Head(out) = out[1] /\ Head(out) \in Claude!Line
    BY <1>0, HeadTailProperties, LenProperties, EmptySeq
  <2>2. \A i \in 1..Len(out') : i + 1 \in 1..Len(out)
    BY <2>1
  <2> QED  BY <2>1, <2>2
<1>2. att.active \/ failed
  BY <1>0 DEF ClaudeInv, ClaudeHears
<1>3. CASE /\ Head(out) = "init" /\ MayAccept(db, att.job)
           /\ att' = [att EXCEPT !.turn = TRUE, !.accepted = TRUE, !.deadline = TRUE]
           /\ db' = MarkBackendRunning(db, att.job)
           /\ stream' = [stream EXCEPT !.seen = "init"]
  <2>1. att' \in Claude!Attempt /\ SameAttempt
    BY <1>0, <1>3 DEF Claude!Attempt, SameAttempt
  <2>2. stream' \in ClaudeStreams /\ stream'.over = "no" /\ stream'.seen = "init"
    BY <1>0, <1>3 DEF ClaudeStreams
  <2>3. CASE att.job \in Jobs
    <3>1. /\ Leads(db, db', att.job)
          /\ db'.status[att.job] =
               IF db.status[att.job] = "Dispatching" THEN "Running" ELSE db.status[att.job]
      BY <1>0, <1>3, <2>3, RunningLeads
    <3>2. SessionStep
      BY <1>0, <2>3, <3>1 DEF SessionStep, Moves
    <3>3. SessionInv'
      BY <1>0, <3>2, SessionStepKeeps
    <3>4. /\ db.status[att.job] \in Active <=> db'.status[att.job] \in Active
          /\ db.status[att.job] \in Unknown <=> db'.status[att.job] \in Unknown
          /\ db.status[att.job] = "Cancelling" <=> db'.status[att.job] = "Cancelling"
          /\ \A k \in Jobs \ {att.job} : db'.status[k] = db.status[k]
      BY <2>3, <3>1 DEF Leads, Active, Unknown
    <3>5. att.active \/ db.status[att.job] \notin Active
      BY <1>2, <2>3 DEF ClaudeInv, ClaudeHolds, ClaudePending
    <3>6. ClaudeHolds' /\ ClaudePending'
      BY <1>0, <1>2, <2>1, <2>3, <3>4 DEF ClaudeInv, ClaudeHolds, ClaudePending, SameAttempt
    <3>7. ClaudeHears'
      BY <1>0, <1>1, <2>1, <2>2, <2>3, <3>4 DEF ClaudeInv, ClaudeHears, SameAttempt, Results
    <3> QED  BY <1>0, <1>1, <2>1, <2>2, <3>2, <3>3, <3>6, <3>7, ClaudeTypes, ClaudeMade
  <2>4. att.job \in Jobs
    BY <1>0, <1>2, <1>3 DEF ClaudeInv, ClaudeHolds, ClaudeHears
  <2> QED  BY <2>3, <2>4
<1>4. CASE /\ db' = db /\ att' \in {att, [att EXCEPT !.turn = TRUE]}
           /\ stream' = [stream EXCEPT !.over = "threw"]
  <2>1. att' \in Claude!Attempt /\ SameAttempt
    BY <1>0, <1>4 DEF Claude!Attempt, SameAttempt
  <2>2. stream' \in ClaudeStreams /\ stream'.over = "threw" /\ stream'.seen = stream.seen
    BY <1>0, <1>4 DEF ClaudeStreams
  <2>3. SessionStep
    BY <1>0, <1>4 DEF SessionStep
  <2>4. SessionInv'
    BY <1>0, <2>3, SessionStepKeeps
  <2>5. ClaudeHolds' /\ ClaudePending'
    BY <1>0, <1>4, <2>1 DEF ClaudeInv, ClaudeHolds, ClaudePending, SameAttempt
  <2>6. ClaudeHears'
    BY <1>0, <1>1, <1>4, <2>1, <2>2 DEF ClaudeInv, ClaudeHears, SameAttempt
  <2> QED  BY <1>0, <1>1, <2>1, <2>2, <2>3, <2>4, <2>5, <2>6, ClaudeTypes, ClaudeMade
<1>5. CASE /\ UNCHANGED <<att, db>> /\ Head(out) \in Results
           /\ stream' = [stream EXCEPT !.seen = Head(out)]
  <2>1. stream' \in ClaudeStreams /\ stream'.over = "no" /\ stream'.seen \in Results
    BY <1>0, <1>5 DEF ClaudeStreams, Results
  <2>2. child.input = "read"
    BY <1>1, <1>5 DEF ClaudeInv, ClaudeHears
  <2>3. SessionStep
    BY <1>0, <1>5 DEF SessionStep
  <2>4. SessionInv'
    BY <1>0, <2>3, SessionStepKeeps
  <2>5. ClaudeHolds' /\ ClaudePending'
    BY <1>0, <1>5 DEF ClaudeInv, ClaudeHolds, ClaudePending
  <2>6. ClaudeHears'
    BY <1>0, <1>5, <2>1, <2>2 DEF ClaudeInv, ClaudeHears
  <2> QED  BY <1>0, <1>1, <1>5, <2>1, <2>3, <2>4, <2>5, <2>6, ClaudeTypes, ClaudeMade
<1> QED
  BY <1>3, <1>4, <1>5, ClaudeSession
  DEF Claude!ConsumeLine, Claude!AcceptInit, Claude!Throw, Results

LEMMA ClaudeHearsEnd ==
  ASSUME ClaudeInv, Claude!ConsumeEnd
  PROVE  ClaudeInv' /\ SessionStep
<1>0. /\ stream \in ClaudeStreams /\ stream.over = "no" /\ SessionInv
      /\ UNCHANGED <<child, out, att, failed, pc, db, runs>>
  BY ClaudeTypes DEF Claude!ConsumeEnd
<1>1. /\ stream' \in ClaudeStreams /\ stream'.seen = stream.seen /\ stream'.over # "no"
      /\ stream'.over = "ended" => stream.seen \in Results
  BY <1>0 DEF Claude!ConsumeEnd, Claude!Throw, ClaudeStreams, Results
<1>2. SessionStep
  BY <1>0 DEF SessionStep
<1>3. SessionInv'
  BY <1>0, <1>2, SessionStepKeeps
<1>4. ClaudeHolds' /\ ClaudePending'
  BY <1>0 DEF ClaudeInv, ClaudeHolds, ClaudePending
<1>5. ClaudeHears'
  BY <1>0, <1>1 DEF ClaudeInv, ClaudeHears
<1> QED  BY <1>0, <1>1, <1>2, <1>3, <1>4, <1>5, ClaudeTypes, ClaudeMade

\* The one step by which a job is run.
LEMMA ClaudeReads ==
  ASSUME ClaudeInv, Claude!ReadInput
  PROVE  ClaudeInv' /\ SessionStep
<1>0. /\ db \in Db /\ runs \in [Jobs -> Nat] /\ child \in ClaudeChildren /\ SessionInv
      /\ child.up /\ child.input = "written" /\ att.job \in Jobs
      /\ runs[att.job] = 0 /\ db.status[att.job] \in Active \cup Unknown
      /\ pc.dispatch = "idle" /\ pc.run # "scheduled"
      /\ runs' = [runs EXCEPT ![att.job] = @ + 1]
      /\ UNCHANGED <<out, stream, att, failed, pc, db>>
  BY ClaudeTypes DEF Claude!ReadInput, ClaudeInv, ClaudeHears
<1>1. child' \in ClaudeChildren /\ child' = [child EXCEPT !.input = "read"]
  BY <1>0 DEF Claude!ReadInput, ClaudeChildren
<1>2. child'.up = child.up /\ child'.exit = child.exit /\ child'.input = "read"
  BY <1>0, <1>1 DEF ClaudeChildren
<1>3. SessionStep
  BY <1>0 DEF SessionStep, Begins
<1>4. SessionInv'
  BY <1>0, <1>3, SessionStepKeeps
<1>5. ClaudeHolds' /\ ClaudePending'
  BY <1>0 DEF ClaudeInv, ClaudeHolds, ClaudePending
<1>6. ClaudeHears'
  BY <1>0, <1>2 DEF ClaudeInv, ClaudeHears
<1> QED  BY <1>0, <1>1, <1>3, <1>4, <1>5, <1>6, ClaudeTypes, ClaudeMade

LEMMA ClaudeChildSays ==
  ASSUME ClaudeInv, Claude!Say \/ Claude!Exit
  PROVE  ClaudeInv' /\ SessionStep
<1>0. /\ child \in ClaudeChildren /\ SessionInv /\ child.up
      /\ out \in Seq(Claude!Line)
      /\ UNCHANGED <<stream, att, failed, pc, db, runs>>
  BY ClaudeTypes DEF Claude!Say, Claude!Exit
<1>1. /\ child' \in ClaudeChildren /\ child'.input = child.input
      /\ child'.up => child.up /\ child'.exit = child.exit
      /\ child'.exit # "none" => child'.exit = child.exit \/ ~child'.up
      /\ pc.run = "confirm" => child'.exit # "none"
  <2>1. CASE Claude!Say
    BY <1>0, <2>1 DEF Claude!Say, Claude!Says, ClaudeChildren, ClaudeInv, ClaudeHears
  <2>2. CASE Claude!Exit
    BY <1>0, <2>2 DEF Claude!Exit, ClaudeChildren
  <2> QED  BY <2>1, <2>2
<1>2. /\ out' \in Seq(Claude!Line)
      /\ (\E i \in 1..Len(out') : out'[i] \in Results) =>
           child.input = "read" \/ \E i \in 1..Len(out) : out[i] \in Results
  <2>1. CASE out' = out
    BY <1>0, <2>1
  <2>2. ASSUME NEW line \in Claude!Line, out' = Append(out, line),
               line \in Results => child.input = "read"
        PROVE  /\ out' \in Seq(Claude!Line)
               /\ (\E i \in 1..Len(out') : out'[i] \in Results) =>
                    child.input = "read" \/ \E i \in 1..Len(out) : out[i] \in Results
    <3>1. /\ out' \in Seq(Claude!Line) /\ Len(out') = Len(out) + 1 /\ Len(out) \in Nat
          /\ \A i \in 1..Len(out) : out'[i] = out[i] /\ out'[Len(out) + 1] = line
      BY <1>0, <2>2, AppendProperties, LenProperties
    <3>2. \A i \in 1..Len(out') : i \in 1..Len(out) \/ i = Len(out) + 1
      BY <3>1
    <3>3. out'[Len(out) + 1] = line
      BY <1>0, <2>2, AppendProperties
    <3> QED  BY <2>2, <3>1, <3>2, <3>3
  <2>3. out' = out \/ \E line \in Claude!Line :
          out' = Append(out, line) /\ (line \in Results => child.input = "read")
    BY DEF Claude!Say, Claude!Says, Claude!Exit, Claude!Line, Results
  <2> QED  BY <2>1, <2>2, <2>3
<1>3. SessionStep
  BY <1>0 DEF SessionStep
<1>4. SessionInv'
  BY <1>0, <1>3, SessionStepKeeps
<1>5. ClaudeHolds' /\ ClaudePending'
  BY <1>0 DEF ClaudeInv, ClaudeHolds, ClaudePending
<1>6. ClaudeHears'
  BY <1>0, <1>1, <1>2 DEF ClaudeInv, ClaudeHears
<1> QED  BY <1>0, <1>1, <1>2, <1>3, <1>4, <1>5, <1>6, ClaudeTypes, ClaudeMade

\* Every step of the Claude backend keeps its invariant and is a step of the
\* session.
LEMMA ClaudeKeeps ==
  ASSUME ClaudeInv, Claude!Next
  PROVE  ClaudeInv' /\ SessionStep
<1>1. ASSUME NEW j \in Jobs, Claude!Dispatch(j) \/ Claude!RelayCancel(j)
      PROVE  ClaudeInv' /\ SessionStep
  BY <1>1, ClaudeDispatches, ClaudeCancels
<1>2. CASE Claude!RunStep
  BY <1>2, ClaudeRuns, ClaudeWaits, ClaudeConfirms, ClaudeReportEnds, ClaudeCloses
  DEF Claude!RunStep
<1>3. CASE Claude!StreamStep \/ Claude!ChildStep
  BY <1>3, ClaudeHearsLine, ClaudeHearsEnd, ClaudeReads, ClaudeChildSays
  DEF Claude!StreamStep, Claude!ChildStep
<1>4. CASE Claude!DispatchStep \/ Claude!DeadlineFires \/ Claude!StartStep \/ Claude!Stop
           \/ Claude!StopStep
  BY <1>4, ClaudePreflight, ClaudeWaits, ClaudeStartsAndStops
<1> QED  BY <1>1, <1>2, <1>3, <1>4 DEF Claude!Next

\* A daemon that starts with nothing claimed begins in the invariant.
LEMMA ClaudeBegins ==
  ASSUME Claude!Init
  PROVE  ClaudeInv /\ Promise!Init
<1>1. SessionInv /\ Promise!Init /\ \A j \in Jobs : db.status[j] \notin Active
  BY SessionBegins, ClaudeSession DEF Claude!Init
<1>2. Claude!TypeOK
  <2>1. Claude!SessionTypeOK
    BY <1>1, ClaudeSession DEF SessionInv
  <2>2. child \in ClaudeChildren /\ stream \in ClaudeStreams /\ out \in Seq(Claude!Line)
    BY DEF Claude!Init, Claude!NoChild, Claude!NoStream, ClaudeChildren, ClaudeStreams
  <2>3. att \in Claude!Attempt /\ failed \in BOOLEAN
    BY ClaudeSession DEF Claude!Init, Claude!NewAttempt, Claude!Attempt
  <2>4. pc \in Claude!Control
    BY DEF Claude!Init, Claude!Control
  <2> QED  BY <2>1, <2>2, <2>3, <2>4 DEF Claude!TypeOK, ClaudeChildren, ClaudeStreams
<1>3. ClaudeHolds /\ ClaudePending /\ ClaudeHears
  BY <1>1
  DEF Claude!Init, Claude!NoChild, Claude!NoStream, Claude!NewAttempt, ClaudeHolds,
      ClaudePending, ClaudeHears, Results
<1> QED  BY <1>1, <1>2, <1>3 DEF ClaudeInv

-----------------------------------------------------------------------------
(* The Codex backend on the operator's own login.                          *)

Request == "start"

\* Who holds the job that is active, and what the attempt knows of it.
NativeHolds ==
  /\ \A j \in Jobs : db.status[j] \in Active => j = att.job
  /\ att.active \/ pc.dispatch = "start" \/ pc.event # "idle" =>
       att.job \in Jobs /\ db.status[att.job] \in Active \cup Unknown
  /\ att.active => pc.dispatch # "context" /\ pc.event = "idle"
  /\ pc.dispatch = "context" =>
       /\ att.job \in Jobs /\ runs[att.job] = 0
       /\ ~att.cancel => db.status[att.job] \in {"Dispatching"} \cup Unknown
  /\ pc.dispatch # "idle" => pc.event = "idle" /\ db.status[att.job] # "Running"
  /\ pc.event # "idle" => events # <<>>
  /\ att.active /\ att.accepted = "yes" => pc.dispatch = "idle"
  /\ (att.active /\ att.accepted = "yes") \/ pc.event # "idle" =>
       runs[att.job] = 1 /\ db.bound
  /\ (att.active /\ att.cancel /\ ~att.expired) \/ pc.event = "cancelled" =>
       db.status[att.job] \notin {"Dispatching", "Running"}

\* As long as the lifecycle runs a claimed job is somebody's; once it has
\* disconnected none is left.
NativeLifecycle ==
  /\ Codex!Current => conn \in {"running", "broken"}
  /\ Codex!Current /\ att.job \in Jobs /\ db.status[att.job] \in Active =>
       att.active \/ pc.dispatch = "context" \/ pc.event # "idle"
  /\ lstate = "disconnected" => \A j \in Jobs : db.status[j] \notin Active
  /\ lstate = "none" =>
       /\ rpc[Request] = "idle" /\ pc.dispatch = "idle" /\ pc.event = "idle" /\ ~att.active
       /\ \A j \in Jobs : db.status[j] \notin Active

NativeStarts ==
  /\ pc.start \in {"idle", "thread"} => lstate = "none"
  /\ pc.start \in {"pin", "done"} => pc.stop # "no" \/ lstate \in {"running", "disconnected"}
  /\ pc.stop # "no" => pc.start \in {"done", "failed"}

\* What is in the pipe, and what the answer proves.
NativeWire ==
  /\ Request \in wire =>
       /\ att.job \in Jobs /\ runs[att.job] = 0
       /\ db.status[att.job] \in Active \cup Unknown
  /\ Request \in owed => att.job \in Jobs /\ runs[att.job] = 1
  /\ rpc[Request] \notin {"written", "unknown"} => wire = {} /\ owed = {}
  /\ rpc[Request] \in {"queued", "written"} => pc.dispatch = "start"
  /\ pc.dispatch = "start" /\ rpc[Request] \in {"queued", "unwritten"} => runs[att.job] = 0
  /\ pc.dispatch = "start" /\ rpc[Request] = "ok" => runs[att.job] = 1
  /\ pc.dispatch = "context" \/ (Codex!Current /\ pc.dispatch = "idle") =>
       rpc[Request] \in {"idle", "ok", "unwritten"}

\* The thread has no turn beyond the checkpoint, or that of the claimed job.
TailStored == srv.turn = "none" /\ db.chk = [n |-> srv.n, last |-> srv.last]
NativeTail ==
  Codex!Current /\ ~db.quarantined =>
    \/ TailStored
    \/ att.job \in Jobs /\ runs[att.job] = 1 /\ db.status[att.job] \in Active

NativeInv ==
  /\ Codex!TypeOK /\ SessionInv /\ NativeHolds /\ NativeLifecycle /\ NativeStarts
  /\ NativeWire /\ NativeTail

\* The session's operators, as NativeTurn has them.
LEMMA NativeSession ==
  /\ Codex!Active = Active /\ Codex!NoJob = NoJob
  /\ Codex!SessionTypeOK <=> SessionTypeOK
  /\ Codex!SessionInit <=> SessionInit
  /\ \A j : Codex!Claimable(j) <=> Claimable(j)
  /\ \A d, j, st : Codex!WithStatus(d, j, st) = WithStatus(d, j, st)
  /\ \A d : Codex!Quarantine(d) = Quarantine(d)
  /\ \A d, j : Codex!ClaimForBackendDispatch(d, j) = ClaimForBackendDispatch(d, j)
  /\ \A d, j : Codex!ResetUnsentExecution(d, j) = ResetUnsentExecution(d, j)
  /\ \A d, j : Codex!MayAccept(d, j) <=> MayAccept(d, j)
  /\ \A d, j : Codex!MarkBackendRunning(d, j) = MarkBackendRunning(d, j)
  /\ \A d, j : Codex!CancelUnknown(d, j) = CancelUnknown(d, j)
  /\ \A d, j : Codex!FinishUnsentBackendCancellation(d, j)
                 = FinishUnsentBackendCancellation(d, j)
  /\ \A d : Codex!MarkBackendDisconnected(d) = MarkBackendDisconnected(d)
<1>1. Codex!Active = Active /\ Codex!NoJob = NoJob
  BY DEF Codex!Active, Active, Codex!NoJob, NoJob
<1>2. Codex!SessionTypeOK <=> SessionTypeOK
  BY DEF Codex!SessionTypeOK, SessionTypeOK, Codex!Status, Status, Codex!Active, Active,
     Codex!TurnStatus, TurnStatus
<1>3. Codex!SessionInit <=> SessionInit
  BY DEF Codex!SessionInit, SessionInit
<1>4. \A d, j, st : Codex!WithStatus(d, j, st) = WithStatus(d, j, st)
  BY DEF Codex!WithStatus, WithStatus
<1>5. \A d : Codex!Quarantine(d) = Quarantine(d)
  BY DEF Codex!Quarantine, Quarantine
<1>6. \A d, j : Codex!ClaimForBackendDispatch(d, j) = ClaimForBackendDispatch(d, j)
  BY DEF Codex!ClaimForBackendDispatch, ClaimForBackendDispatch
<1>7. \A d, j : Codex!ResetUnsentExecution(d, j) = ResetUnsentExecution(d, j)
  BY <1>4 DEF Codex!ResetUnsentExecution, ResetUnsentExecution
<1>8. \A d, j : Codex!MayAccept(d, j) <=> MayAccept(d, j)
  BY DEF Codex!MayAccept, MayAccept
<1>9. \A d, j : Codex!MarkBackendRunning(d, j) = MarkBackendRunning(d, j)
  BY DEF Codex!MarkBackendRunning, MarkBackendRunning
<1>10. \A d, j : Codex!CancelUnknown(d, j) = CancelUnknown(d, j)
  BY <1>4, <1>5 DEF Codex!CancelUnknown, CancelUnknown
<1>11. \A d, j : Codex!FinishUnsentBackendCancellation(d, j)
                   = FinishUnsentBackendCancellation(d, j)
  BY <1>4, <1>10 DEF Codex!FinishUnsentBackendCancellation, FinishUnsentBackendCancellation
<1>12. \A d : Codex!NoActiveJob(d) <=> NoActiveJob(d)
  BY <1>1 DEF Codex!NoActiveJob, NoActiveJob
<1>13. \A j : Codex!Claimable(j) <=> Claimable(j)
  BY <1>12 DEF Codex!Claimable, Claimable
<1>14. \A d : Codex!MarkBackendDisconnected(d) = MarkBackendDisconnected(d)
  BY DEF Codex!MarkBackendDisconnected, MarkBackendDisconnected, Codex!NoActiveJob,
     NoActiveJob, Codex!Active, Active
<1> QED  BY <1>1, <1>2, <1>3, <1>4, <1>5, <1>6, <1>7, <1>8, <1>9, <1>10, <1>11, <1>13,
            <1>14

\* The client's and the attempt's parts of the state.
NativeLifecycles == {"none", "running", "stopping", "stopped", "disconnected"}
NativeServers == [turn : {"none", "running"}, said : BOOLEAN, n : Nat, last : TurnStatus]

LEMMA NativeTypes ==
  ASSUME NativeInv
  PROVE  /\ db \in Db /\ runs \in [Jobs -> Nat] /\ SessionInv
         /\ conn \in Codex!ConnState /\ rpc \in [{Request} -> Codex!RpcState]
         /\ wire \in SUBSET {Request} /\ owed \in SUBSET {Request} /\ context \in BOOLEAN
         /\ lstate \in NativeLifecycles /\ att \in Codex!Attempt
         /\ events \in Seq(Codex!Note) /\ pc \in Codex!Control /\ srv \in NativeServers
BY SessionTypes
DEF NativeInv, SessionInv, Codex!TypeOK, Codex!ClientTypeOK, NativeLifecycles,
    NativeServers, Request, Codex!TurnStatus, TurnStatus

LEMMA NativeMade ==
  ASSUME SessionInv', NativeHolds', NativeLifecycle', NativeStarts', NativeWire',
         NativeTail',
         conn' \in Codex!ConnState, rpc' \in [{Request} -> Codex!RpcState],
         wire' \in SUBSET {Request}, owed' \in SUBSET {Request}, context' \in BOOLEAN,
         lstate' \in NativeLifecycles, att' \in Codex!Attempt,
         events' \in Seq(Codex!Note), pc' \in Codex!Control, srv' \in NativeServers
  PROVE  NativeInv'
<1>1. Codex!SessionTypeOK'
  BY DEF SessionInv, SessionTypeOK, Codex!SessionTypeOK, Codex!Status, Status,
     Codex!Active, Active, Codex!TurnStatus, TurnStatus
<1>2. Codex!ClientTypeOK'
  BY DEF Codex!ClientTypeOK, Request
<1> QED
  BY <1>1, <1>2
  DEF NativeInv, Codex!TypeOK, NativeLifecycles, NativeServers, Codex!TurnStatus, TurnStatus

\* The place of one activity changes.
LEMMA NativeAt ==
  ASSUME pc \in Codex!Control, NEW p
  PROVE  /\ \A a \in {"dispatch", "event", "deadline", "start", "stop"} :
              /\ Codex!At(a, p).dispatch = IF a = "dispatch" THEN p ELSE pc.dispatch
              /\ Codex!At(a, p).event = IF a = "event" THEN p ELSE pc.event
              /\ Codex!At(a, p).start = IF a = "start" THEN p ELSE pc.start
              /\ Codex!At(a, p).stop = IF a = "stop" THEN p ELSE pc.stop
         /\ p \in {"idle", "context", "start"} => Codex!At("dispatch", p) \in Codex!Control
         /\ p \in {"idle", "completed", "failed", "cancelled"} =>
              Codex!At("event", p) \in Codex!Control
         /\ p \in {"idle", "interrupt"} => Codex!At("deadline", p) \in Codex!Control
         /\ p \in {"idle", "thread", "pin", "closing", "done", "failed"} =>
              Codex!At("start", p) \in Codex!Control
         /\ p \in {"no", "pending", "closing", "stopped"} =>
              Codex!At("stop", p) \in Codex!Control
<1>1. \A a \in {"dispatch", "event", "deadline", "start", "stop"} :
        /\ Codex!At(a, p).dispatch = IF a = "dispatch" THEN p ELSE pc.dispatch
        /\ Codex!At(a, p).event = IF a = "event" THEN p ELSE pc.event
        /\ Codex!At(a, p).start = IF a = "start" THEN p ELSE pc.start
        /\ Codex!At(a, p).stop = IF a = "stop" THEN p ELSE pc.stop
  BY DEF Codex!At, Codex!Control
<1>2. p \in {"idle", "context", "start"} => Codex!At("dispatch", p) \in Codex!Control
  BY DEF Codex!At, Codex!Control
<1>3. p \in {"idle", "completed", "failed", "cancelled"} =>
        Codex!At("event", p) \in Codex!Control
  BY DEF Codex!At, Codex!Control
<1>4. p \in {"idle", "interrupt"} => Codex!At("deadline", p) \in Codex!Control
  BY DEF Codex!At, Codex!Control
<1>5. p \in {"idle", "thread", "pin", "closing", "done", "failed"} =>
        Codex!At("start", p) \in Codex!Control
  BY DEF Codex!At, Codex!Control
<1>6. p \in {"no", "pending", "closing", "stopped"} =>
        Codex!At("stop", p) \in Codex!Control
  BY DEF Codex!At, Codex!Control
<1> QED  BY <1>1, <1>2, <1>3, <1>4, <1>5, <1>6

\* The client's last request is settled, or lost with the process.
NativeRequestLost ==
  /\ conn' \in Codex!ConnState /\ rpc' \in [{Request} -> Codex!RpcState]
  /\ \/ rpc'[Request] = rpc[Request]
     \/ rpc[Request] \in {"queued", "written"} /\ rpc'[Request] = "unknown"
     \/ rpc[Request] = "queued" /\ rpc'[Request] = "unwritten"
  /\ \/ wire' = wire /\ owed' = owed
     \/ wire' = {} /\ owed' = {}

LEMMA NativeLost ==
  ASSUME conn \in Codex!ConnState, rpc \in [{Request} -> Codex!RpcState]
  PROVE  /\ UNCHANGED <<conn, rpc, wire, owed>> => NativeRequestLost
         /\ Codex!CloseClient /\ UNCHANGED <<wire, owed>> => NativeRequestLost
         /\ \A next \in {"closing", "exited"} : Codex!HandleExit(next) => NativeRequestLost
         /\ Codex!FailTransport => NativeRequestLost
         /\ Codex!AwaitCloseReceipt => NativeRequestLost
         /\ Codex!RequestTimeout(Request) => NativeRequestLost
<1>1. UNCHANGED <<conn, rpc, wire, owed>> => NativeRequestLost
  BY DEF NativeRequestLost
<1>2. /\ Codex!RejectAll \in [{Request} -> Codex!RpcState]
      /\ Codex!RejectAll[Request] =
           IF rpc[Request] \in {"queued", "written"} THEN "unknown" ELSE rpc[Request]
  BY DEF Codex!RejectAll, Request, Codex!RpcState
<1>3. /\ Codex!RejectAllForTransport \in [{Request} -> Codex!RpcState]
      /\ Codex!RejectAllForTransport[Request] =
           IF rpc[Request] = "queued" THEN "unwritten"
           ELSE IF rpc[Request] = "written" THEN "unknown" ELSE rpc[Request]
  BY DEF Codex!RejectAllForTransport, Request, Codex!RpcState
<1>4. Codex!CloseClient /\ UNCHANGED <<wire, owed>> => NativeRequestLost
  BY <1>2 DEF Codex!CloseClient, NativeRequestLost, Codex!ConnState
<1>5. \A next \in {"closing", "exited"} : Codex!HandleExit(next) => NativeRequestLost
  BY <1>3 DEF Codex!HandleExit, NativeRequestLost, Codex!ConnState
<1>6. Codex!FailTransport => NativeRequestLost
  BY <1>3 DEF Codex!FailTransport, NativeRequestLost, Codex!ConnState
<1>7. Codex!AwaitCloseReceipt => NativeRequestLost
  BY DEF Codex!AwaitCloseReceipt, NativeRequestLost, Codex!ConnState
<1>8. Codex!RequestTimeout(Request) => NativeRequestLost
  BY DEF Codex!RequestTimeout, NativeRequestLost, Codex!RpcState
<1> QED  BY <1>1, <1>4, <1>5, <1>6, <1>7, <1>8

\* What is left of the attempt: it may end, be cancelled by its deadline, or
\* lose its acceptance.
NativeAttemptFades ==
  /\ att'.job = att.job
  /\ att'.active => att.active
  /\ att'.active /\ att'.accepted = "yes" => att.accepted = "yes"
  /\ att'.active /\ att'.cancel /\ ~att'.expired => att.cancel /\ ~att.expired
  /\ pc.dispatch = "context" => att'.cancel = att.cancel

\* As long as the lifecycle runs only the session may get worse.
NativeGoesOn ==
  /\ Codex!Current /\ lstate' = lstate
  /\ conn' \in {"running", "broken"}
  /\ pc'.dispatch = pc.dispatch /\ pc'.event = pc.event /\ att'.active = att.active
  /\ db' \in {db, Quarantine(db)}
  /\ srv'.turn = srv.turn /\ srv'.n = srv.n /\ srv'.last = srv.last

\* Its end takes the claimed job with it, or leaves that to a later start.
NativeEnds ==
  /\ lstate' \in NativeLifecycles \ {"none", "running"}
  /\ \/ lstate' = "disconnected" /\ db' = MarkBackendDisconnected(db)
     \/ lstate' # "disconnected" /\ db' \in {db, MarkBackendDisconnected(db)}
     \/ lstate' = lstate
        /\ db' \in {db, MarkBackendDisconnected(db), MarkBackendDisconnected(Quarantine(db))}

NativeWaits ==
  /\ lstate = "none" /\ lstate' = "none" /\ db' \in {db, Quarantine(db)}

\* A step that begins nothing.
LEMMA NativeSettles ==
  ASSUME NativeInv, runs' = runs, NativeRequestLost, NativeAttemptFades, NativeStarts',
         context' \in BOOLEAN, att' \in Codex!Attempt, events' \in Seq(Codex!Note),
         pc' \in Codex!Control, srv' \in NativeServers,
         pc'.dispatch \in {pc.dispatch, "idle"},
         pc'.dispatch = pc.dispatch \/ rpc[Request] \notin {"queued", "written"},
         pc'.event \in {pc.event, "idle"},
         events' = events \/ pc'.event = "idle" \/ events' # <<>>,
         NativeGoesOn \/ NativeEnds \/ NativeWaits
  PROVE  NativeInv' /\ SessionStep
<1>0. /\ db \in Db /\ SessionInv /\ pc \in Codex!Control /\ att \in Codex!Attempt
      /\ conn \in Codex!ConnState /\ lstate \in NativeLifecycles
  BY NativeTypes
<1>1. /\ \A j \in Jobs \ {att.job} : db.status[j] \notin Active
      /\ \A j \in Jobs \ {att.job} : Quarantine(db).status[j] \notin Active
      /\ Quarantine(db) \in Db /\ Quarantine(db).status = db.status
      /\ Quarantine(db).bound = db.bound /\ Quarantine(db).chk = db.chk
      /\ Leads(db, Quarantine(db), att.job)
  BY <1>0, QuarantineLeads DEF NativeInv, NativeHolds, Leads
<1>2. \A e \in {MarkBackendDisconnected(db), MarkBackendDisconnected(Quarantine(db))} :
        /\ Leads(db, e, att.job) /\ e.bound = db.bound /\ e.chk = db.chk
        /\ \A j \in Jobs :
             e.status[j] = IF db.status[j] = "Cancelling" THEN "CancelUnknown"
                           ELSE IF db.status[j] \in Active THEN "Interrupted"
                           ELSE db.status[j]
        /\ \A j \in Jobs : e.status[j] \notin Active
  <2>1. ASSUME NEW d \in {db, Quarantine(db)}
        PROVE  LET e == MarkBackendDisconnected(d) IN
               /\ Leads(db, e, att.job) /\ e.bound = db.bound /\ e.chk = db.chk
               /\ \A j \in Jobs :
                    e.status[j] = IF db.status[j] = "Cancelling" THEN "CancelUnknown"
                                  ELSE IF db.status[j] \in Active THEN "Interrupted"
                                  ELSE db.status[j]
               /\ \A j \in Jobs : e.status[j] \notin Active
    <3>1. /\ d \in Db /\ d.status = db.status /\ d.bound = db.bound /\ d.chk = db.chk
          /\ Leads(db, d, att.job)
          /\ \A j \in Jobs \ {att.job} : d.status[j] \notin Active
      BY <1>0, <1>1, LeadsNowhere
    <3> QED  BY <1>0, <3>1, DisconnectedLeads, LeadsOn
  <2> QED  BY <2>1
<1>3. db' \in {db, Quarantine(db), MarkBackendDisconnected(db),
               MarkBackendDisconnected(Quarantine(db))}
  BY DEF NativeGoesOn, NativeEnds, NativeWaits
<1>4. /\ Leads(db, db', att.job) /\ db'.bound = db.bound /\ db'.chk = db.chk
      /\ \A j \in Jobs : db'.status[j] \in Active => db.status[j] \in Active
      /\ \A j \in Jobs :
           \/ db'.status[j] = db.status[j]
           \/ db.status[j] \in Active /\ db'.status[j] \in Unknown
  BY <1>0, <1>1, <1>2, <1>3, LeadsNowhere DEF Unknown, Active
<1>5. att.job \in Jobs \cup {NoJob}
  BY <1>0, NativeSession DEF Codex!Attempt
<1>6. SessionStep
  BY <1>4, <1>5 DEF SessionStep, Moves
<1>7. SessionInv'
  BY <1>0, <1>6, SessionStepKeeps
<1>8. \A st \in Unknown : st \notin Active /\ st \notin {"Dispatching", "Running"}
  BY DEF Active, Unknown
<1>9. NativeHolds'
  <2>1. \A j \in Jobs : db'.status[j] \in Active => j = att'.job
    BY <1>4 DEF NativeInv, NativeHolds, NativeAttemptFades
  <2>2. att'.active \/ pc'.dispatch = "start" \/ pc'.event # "idle" =>
          att'.job \in Jobs /\ db'.status[att'.job] \in Active \cup Unknown
    BY <1>4 DEF NativeInv, NativeHolds, NativeAttemptFades
  <2>3. att'.active => pc'.dispatch # "context" /\ pc'.event = "idle"
    BY DEF NativeInv, NativeHolds, NativeAttemptFades
  <2>4. pc'.dispatch = "context" =>
          /\ att'.job \in Jobs /\ runs'[att'.job] = 0
          /\ ~att'.cancel => db'.status[att'.job] \in {"Dispatching"} \cup Unknown
    BY <1>4 DEF NativeInv, NativeHolds, NativeAttemptFades
  <2>5. pc'.dispatch # "idle" => pc'.event = "idle" /\ db'.status[att'.job] # "Running"
    <3>1. pc.dispatch # "idle" => att.job \in Jobs
      BY <1>0 DEF NativeInv, NativeHolds, Codex!Control
    <3> QED  BY <1>4, <1>8, <3>1 DEF NativeInv, NativeHolds, NativeAttemptFades
  <2>6. (att'.active /\ att'.accepted = "yes") \/ pc'.event # "idle" =>
          runs'[att'.job] = 1 /\ db'.bound
    BY <1>4 DEF NativeInv, NativeHolds, NativeAttemptFades
  <2>7. (att'.active /\ att'.cancel /\ ~att'.expired) \/ pc'.event = "cancelled" =>
          db'.status[att'.job] \notin {"Dispatching", "Running"}
    BY <1>4, <1>8 DEF NativeInv, NativeHolds, NativeAttemptFades
  <2>8. att'.active /\ att'.accepted = "yes" => pc'.dispatch = "idle"
    BY DEF NativeInv, NativeHolds, NativeAttemptFades
  <2>9. pc'.event # "idle" => events' # <<>>
    BY DEF NativeInv, NativeHolds
  <2> QED  BY <2>1, <2>2, <2>3, <2>4, <2>5, <2>6, <2>7, <2>8, <2>9 DEF NativeHolds
<1>10. NativeLifecycle'
  <2>1. CASE NativeGoesOn
    BY <1>4, <2>1
    DEF NativeInv, NativeLifecycle, NativeGoesOn, NativeAttemptFades, Codex!Current
  <2>2. CASE NativeEnds
    BY <1>2, <1>4, <2>2 DEF NativeInv, NativeLifecycle, NativeEnds, Codex!Current
  <2>3. CASE NativeWaits
    BY <1>4, <2>3
    DEF NativeInv, NativeLifecycle, NativeWaits, NativeAttemptFades, NativeRequestLost,
        Codex!Current
  <2> QED  BY <2>1, <2>2, <2>3
<1>11. NativeWire'
  <2>1. Request \in wire' =>
          /\ att'.job \in Jobs /\ runs'[att'.job] = 0
          /\ db'.status[att'.job] \in Active \cup Unknown
    BY <1>4 DEF NativeInv, NativeWire, NativeAttemptFades, NativeRequestLost
  <2>2. Request \in owed' => att'.job \in Jobs /\ runs'[att'.job] = 1
    BY DEF NativeInv, NativeWire, NativeAttemptFades, NativeRequestLost
  <2>3. rpc'[Request] \notin {"written", "unknown"} => wire' = {} /\ owed' = {}
    BY DEF NativeInv, NativeWire, NativeRequestLost
  <2>4. rpc'[Request] \in {"queued", "written"} => pc'.dispatch = "start"
    BY DEF NativeInv, NativeWire, NativeRequestLost
  <2>5. /\ pc'.dispatch = "start" /\ rpc'[Request] \in {"queued", "unwritten"} =>
             runs'[att'.job] = 0
        /\ pc'.dispatch = "start" /\ rpc'[Request] = "ok" => runs'[att'.job] = 1
    BY DEF NativeInv, NativeWire, NativeAttemptFades, NativeRequestLost
  <2>6. pc'.dispatch = "context" \/ (Codex!Current' /\ pc'.dispatch = "idle") =>
          rpc'[Request] \in {"idle", "ok", "unwritten"}
    BY DEF NativeInv, NativeWire, NativeRequestLost, NativeGoesOn, NativeEnds, NativeWaits,
           Codex!Current
  <2> QED  BY <2>1, <2>2, <2>3, <2>4, <2>5, <2>6 DEF NativeWire
<1>12. NativeTail'
  <2>1. CASE NativeGoesOn
    <3>1. db.quarantined => db'.quarantined
      BY <1>4 DEF Leads
    <3>2. TailStored => TailStored'
      BY <1>4, <2>1 DEF NativeGoesOn, TailStored
    <3>3. db'.status = db.status
      BY <1>1, <2>1 DEF NativeGoesOn
    <3> QED
      BY <2>1, <3>1, <3>2, <3>3
      DEF NativeInv, NativeTail, NativeGoesOn, NativeAttemptFades, Codex!Current
  <2>2. CASE NativeEnds \/ NativeWaits
    BY <2>2 DEF NativeTail, NativeEnds, NativeWaits, Codex!Current
  <2> QED  BY <2>1, <2>2
<1>13. lstate' \in NativeLifecycles
  BY <1>0 DEF NativeGoesOn, NativeEnds, NativeWaits, NativeLifecycles
<1>14. wire' \in SUBSET {Request} /\ owed' \in SUBSET {Request}
  BY NativeTypes DEF NativeRequestLost
<1> QED
  BY <1>0, <1>6, <1>7, <1>9, <1>10, <1>11, <1>12, <1>13, <1>14, NativeMade
  DEF NativeRequestLost

LEMMA NativeAttempts ==
  ASSUME NEW a \in Codex!Attempt
  PROVE  /\ \A b \in {Codex!GiveUp(a), Codex!FinishAttempt(a), Codex!Interrupt(a)} :
              /\ b \in Codex!Attempt /\ b.job = a.job
              /\ b.cancel = a.cancel /\ b.expired = a.expired
              /\ b.active => a.active
              /\ b.accepted = "yes" => a.accepted = "yes"
         /\ Codex!GiveUp(a).active = a.active
         /\ Codex!FinishAttempt(a).active = FALSE
         /\ Codex!Interrupt(a).active = a.active
         /\ Codex!Interrupt(a).accepted = a.accepted
<1>1. /\ Codex!GiveUp(a) \in Codex!Attempt /\ Codex!GiveUp(a).job = a.job
      /\ Codex!GiveUp(a).cancel = a.cancel /\ Codex!GiveUp(a).expired = a.expired
      /\ Codex!GiveUp(a).active = a.active
      /\ Codex!GiveUp(a).accepted = "yes" => a.accepted = "yes"
  BY DEF Codex!GiveUp, Codex!Attempt
<1>2. /\ Codex!FinishAttempt(a) \in Codex!Attempt /\ Codex!FinishAttempt(a).job = a.job
      /\ Codex!FinishAttempt(a).cancel = a.cancel
      /\ Codex!FinishAttempt(a).expired = a.expired
      /\ Codex!FinishAttempt(a).active = FALSE
      /\ Codex!FinishAttempt(a).accepted = a.accepted
  BY DEF Codex!FinishAttempt, Codex!Attempt
<1>3. /\ Codex!Interrupt(a) \in Codex!Attempt /\ Codex!Interrupt(a).job = a.job
      /\ Codex!Interrupt(a).cancel = a.cancel /\ Codex!Interrupt(a).expired = a.expired
      /\ Codex!Interrupt(a).active = a.active
      /\ Codex!Interrupt(a).accepted = a.accepted
  BY DEF Codex!Interrupt, Codex!Attempt
<1> QED  BY <1>1, <1>2, <1>3

\* a is the attempt after a step of its own.
NativeFades(a) ==
  /\ a \in Codex!Attempt /\ a.job = att.job
  /\ a.active => att.active
  /\ a.active /\ a.accepted = "yes" => att.accepted = "yes"
  /\ a.active /\ a.cancel /\ ~a.expired => att.cancel /\ ~att.expired
  /\ pc.dispatch = "context" => a.cancel = att.cancel

LEMMA NativeFading ==
  ASSUME NEW a, NativeFades(a)
  PROVE  /\ NativeFades(Codex!GiveUp(a)) /\ NativeFades(Codex!FinishAttempt(a))
         /\ att' = a => att' \in Codex!Attempt /\ NativeAttemptFades
<1>1. ASSUME NEW b \in {Codex!GiveUp(a), Codex!FinishAttempt(a)}
      PROVE  /\ b \in Codex!Attempt /\ b.job = a.job
             /\ b.cancel = a.cancel /\ b.expired = a.expired
             /\ b.active => a.active
             /\ b.accepted = "yes" => a.accepted = "yes"
  <2>1. a \in Codex!Attempt
    BY DEF NativeFades
  <2>2. b \in {Codex!GiveUp(a), Codex!FinishAttempt(a), Codex!Interrupt(a)}
    BY <1>1
  <2> QED  BY ONLY <2>1, <2>2, NativeAttempts
<1>2. ASSUME NEW b, b \in Codex!Attempt, b.job = a.job,
             b.cancel = a.cancel, b.expired = a.expired,
             b.active => a.active, b.accepted = "yes" => a.accepted = "yes"
      PROVE  NativeFades(b)
  <2>1. b.job = att.job /\ (b.active => att.active)
    BY <1>2 DEF NativeFades
  <2>2. b.active /\ b.accepted = "yes" => att.accepted = "yes"
    BY <1>2 DEF NativeFades
  <2>3. b.active /\ b.cancel /\ ~b.expired => att.cancel /\ ~att.expired
    BY <1>2 DEF NativeFades
  <2>4. pc.dispatch = "context" => b.cancel = att.cancel
    BY <1>2 DEF NativeFades
  <2> QED  BY <1>2, <2>1, <2>2, <2>3, <2>4 DEF NativeFades
<1>3. att' = a => att' \in Codex!Attempt /\ NativeAttemptFades
  BY DEF NativeFades, NativeAttemptFades
<1>4. NativeFades(Codex!GiveUp(a)) /\ NativeFades(Codex!FinishAttempt(a))
  BY <1>1, <1>2
<1> QED  BY <1>3, <1>4

\* Control that an activity has moved on, with the request settled.
NativeMovesOn(p) ==
  /\ p \in Codex!Control
  /\ p.dispatch \in {pc.dispatch, "idle"} /\ p.event \in {pc.event, "idle"}
  /\ p.dispatch = pc.dispatch \/ rpc[Request] \notin {"queued", "written"}
  /\ p.start \in {"idle", "thread"} => pc.start \in {"idle", "thread"}
  /\ p.start \in {"pin", "done"} => pc.start \in {"pin", "done"} /\ (pc.stop # "no" => p.stop # "no")
  /\ p.stop # "no" => p.start \in {"done", "failed"}

LEMMA NativeMovingOn ==
  ASSUME NativeInv, NEW p, NativeMovesOn(p), pc' = p,
         lstate' = "none" <=> lstate = "none",
         lstate = "running" \/ lstate' = lstate
           \/ (lstate' \notin {"running", "disconnected"} /\ p.stop # "no"),
         lstate' \in {"running", "disconnected"} \/ lstate' = lstate \/ p.stop # "no"
           \/ p.start = "closing"
  PROVE  /\ pc' \in Codex!Control /\ NativeStarts'
         /\ pc'.dispatch \in {pc.dispatch, "idle"} /\ pc'.event \in {pc.event, "idle"}
         /\ pc'.dispatch = pc.dispatch \/ rpc[Request] \notin {"queued", "written"}
BY DEF NativeInv, NativeStarts, NativeMovesOn

LEMMA NativeContinues ==
  ASSUME NativeInv, NEW a, NEW p, NativeFades(a), NativeMovesOn(p),
         Codex!Continue(a, db, p), UNCHANGED <<wire, owed, context, runs>>,
         events' \in Seq(Codex!Note), srv' \in NativeServers,
         events' = events \/ p.event = "idle" \/ events' # <<>>,
         srv'.turn = srv.turn /\ srv'.n = srv.n /\ srv'.last = srv.last,
         Codex!Current => /\ a.active = att.active
                          /\ p.dispatch = pc.dispatch /\ p.event = pc.event
  PROVE  NativeInv' /\ SessionStep
<1>1. /\ att' = a /\ db' = db /\ pc' = p /\ UNCHANGED <<conn, rpc, lstate>>
      /\ lstate \in NativeLifecycles /\ context' \in BOOLEAN
  BY NativeTypes DEF Codex!Continue
<1>2. NativeRequestLost
  BY <1>1, NativeTypes, NativeLost
<1>3. att' \in Codex!Attempt /\ NativeAttemptFades
  BY <1>1, NativeFading
<1>4. /\ pc' \in Codex!Control /\ NativeStarts'
      /\ pc'.dispatch \in {pc.dispatch, "idle"} /\ pc'.event \in {pc.event, "idle"}
      /\ pc'.dispatch = pc.dispatch \/ rpc[Request] \notin {"queued", "written"}
  BY <1>1, NativeMovingOn
<1>5. NativeGoesOn \/ NativeEnds \/ NativeWaits
  BY <1>1
  DEF NativeGoesOn, NativeEnds, NativeWaits, NativeInv, NativeLifecycle, Codex!Current,
      NativeLifecycles
<1> QED  BY <1>1, <1>2, <1>3, <1>4, <1>5, NativeSettles

LEMMA NativeDisconnects ==
  ASSUME NativeInv, NEW a, NEW p, NativeFades(a), NativeMovesOn(p), p.start = pc.start,
         Codex!DisconnectIfCurrent(a, db, p), UNCHANGED <<wire, owed, context, srv, runs>>,
         events' \in Seq(Codex!Note), events' = events \/ p.event = "idle" \/ events' # <<>>
  PROVE  NativeInv' /\ SessionStep
<1>1. CASE Codex!Current
  <2>1. /\ lstate' = "disconnected" /\ att' = Codex!GiveUp(a) /\ pc' = p
        /\ db' = MarkBackendDisconnected(db) /\ Codex!CloseClient
        /\ lstate = "running" /\ context' \in BOOLEAN /\ srv' \in NativeServers
    BY <1>1, NativeSession, NativeTypes
    DEF Codex!DisconnectIfCurrent, Codex!Disconnected, Codex!Current
  <2>2. NativeRequestLost
    BY <2>1, NativeTypes, NativeLost
  <2>3. att' \in Codex!Attempt /\ NativeAttemptFades
    BY <2>1, NativeFading
  <2>4. /\ pc' \in Codex!Control /\ NativeStarts'
        /\ pc'.dispatch \in {pc.dispatch, "idle"} /\ pc'.event \in {pc.event, "idle"}
        /\ pc'.dispatch = pc.dispatch \/ rpc[Request] \notin {"queued", "written"}
    BY <2>1, NativeMovingOn
  <2>5. NativeEnds
    BY <2>1 DEF NativeEnds, NativeLifecycles
  <2> QED  BY <2>1, <2>2, <2>3, <2>4, <2>5, NativeSettles
<1>2. CASE ~Codex!Current
  <2>1. Codex!Continue(a, db, p)
    BY <1>2 DEF Codex!DisconnectIfCurrent
  <2> QED  BY <1>2, <2>1, NativeTypes, NativeContinues
<1> QED  BY <1>1, <1>2

\* The attempt of a stop is given up as that of a disconnect is.
LEMMA NativeStopsLifecycle ==
  ASSUME NativeInv, NEW p, NativeMovesOn(p), Codex!Current, p.stop # "no" \/ p.start = "closing",
         p.dispatch = pc.dispatch, p.event = pc.event,
         Codex!StopLifecycle(p), UNCHANGED <<wire, owed, context, events, srv, runs>>
  PROVE  NativeInv' /\ SessionStep
<1>1. /\ lstate' = "stopping" /\ att' = Codex!GiveUp(att) /\ pc' = p
      /\ db' \in {db, MarkBackendDisconnected(db)} /\ Codex!CloseClient
      /\ lstate = "running" /\ context' \in BOOLEAN /\ srv' \in NativeServers
      /\ events' \in Seq(Codex!Note) /\ events' = events /\ NativeFades(att)
  BY NativeSession, NativeTypes DEF Codex!StopLifecycle, Codex!Current, NativeFades
<1>2. NativeRequestLost
  BY <1>1, NativeTypes, NativeLost
<1>3. att' \in Codex!Attempt /\ NativeAttemptFades
  BY <1>1, NativeFading
<1>4. /\ pc' \in Codex!Control /\ NativeStarts'
      /\ pc'.dispatch \in {pc.dispatch, "idle"} /\ pc'.event \in {pc.event, "idle"}
      /\ pc'.dispatch = pc.dispatch \/ rpc[Request] \notin {"queued", "written"}
  BY <1>1, NativeMovingOn
<1>5. NativeEnds
  BY <1>1 DEF NativeEnds, NativeLifecycles
<1> QED  BY <1>1, <1>2, <1>3, <1>4, <1>5, NativeSettles

\* Control stays, or one activity other than start and stop moves.
LEMMA NativeMoves ==
  ASSUME NativeInv
  PROVE  /\ NativeMovesOn(pc) /\ NativeFades(att)
         /\ \A q \in {"idle", "interrupt"} :
              /\ NativeMovesOn(Codex!At("deadline", q))
              /\ Codex!At("deadline", q).dispatch = pc.dispatch
              /\ Codex!At("deadline", q).event = pc.event
              /\ Codex!At("deadline", q).start = pc.start
         /\ NativeMovesOn(Codex!At("event", "idle"))
         /\ Codex!At("event", "idle").dispatch = pc.dispatch
         /\ Codex!At("event", "idle").start = pc.start
         /\ Codex!At("event", "idle").event = "idle"
         /\ rpc[Request] \notin {"queued", "written"} =>
              NativeMovesOn(Codex!At("dispatch", "idle"))
         /\ Codex!At("dispatch", "idle").start = pc.start
<1>1. pc \in Codex!Control /\ att \in Codex!Attempt /\ NativeStarts
  BY NativeTypes DEF NativeInv
<1>2. NativeMovesOn(pc) /\ NativeFades(att)
  BY <1>1 DEF NativeMovesOn, NativeFades, NativeStarts
<1>3. ASSUME NEW q \in {"idle", "interrupt"}
      PROVE  /\ NativeMovesOn(Codex!At("deadline", q))
             /\ Codex!At("deadline", q).dispatch = pc.dispatch
             /\ Codex!At("deadline", q).event = pc.event
             /\ Codex!At("deadline", q).start = pc.start
  BY <1>1, NativeAt DEF NativeMovesOn, NativeStarts
<1>4. /\ NativeMovesOn(Codex!At("event", "idle"))
      /\ Codex!At("event", "idle").dispatch = pc.dispatch
      /\ Codex!At("event", "idle").start = pc.start
      /\ Codex!At("event", "idle").event = "idle"
  BY <1>1, NativeAt DEF NativeMovesOn, NativeStarts
<1>5. /\ rpc[Request] \notin {"queued", "written"} =>
           NativeMovesOn(Codex!At("dispatch", "idle"))
      /\ Codex!At("dispatch", "idle").start = pc.start
  BY <1>1, NativeAt DEF NativeMovesOn, NativeStarts
<1> QED  BY <1>2, <1>3, <1>4, <1>5

LEMMA NativeInterrupts ==
  ASSUME NativeInv,
         Codex!InterruptSettles \/ Codex!HandleTurnTimeout \/ Codex!TimeoutInterrupted
  PROVE  NativeInv' /\ SessionStep
<1>0. /\ UNCHANGED <<wire, owed, context, srv, runs>>
      /\ events' \in Seq(Codex!Note) /\ events' = events
      /\ att \in Codex!Attempt /\ srv' \in NativeServers
      /\ srv'.turn = srv.turn /\ srv'.n = srv.n /\ srv'.last = srv.last
  BY NativeTypes
  DEF Codex!InterruptSettles, Codex!HandleTurnTimeout, Codex!TimeoutInterrupted
<1>1. CASE Codex!InterruptSettles
  <2>1. \A i \in {"ok", "failed"} : LET a == [att EXCEPT !.interrupt = i] IN
          NativeFades(a) /\ a.active = att.active
    BY <1>0 DEF NativeFades, Codex!Attempt
  <2>2. \/ Codex!Continue([att EXCEPT !.interrupt = "ok"], db, pc)
        \/ Codex!DisconnectIfCurrent([att EXCEPT !.interrupt = "failed"], db, pc)
    BY <1>1 DEF Codex!InterruptSettles
  <2>3. CASE Codex!Continue([att EXCEPT !.interrupt = "ok"], db, pc)
    BY <1>0, <2>1, <2>3, NativeMoves, NativeContinues
  <2>4. CASE Codex!DisconnectIfCurrent([att EXCEPT !.interrupt = "failed"], db, pc)
    BY <1>0, <2>1, <2>4, NativeMoves, NativeDisconnects
  <2> QED  BY <2>2, <2>3, <2>4
<1>2. CASE Codex!HandleTurnTimeout
  <2> DEFINE b == [att EXCEPT !.deadline = FALSE, !.expired = TRUE, !.cancel = TRUE]
             a == Codex!Interrupt(b)
  <2>1. att.active /\ Codex!Continue(a, db, Codex!At("deadline", "interrupt"))
    BY <1>2 DEF Codex!HandleTurnTimeout
  <2>2. /\ b \in Codex!Attempt /\ b.job = att.job /\ b.active = att.active
        /\ b.accepted = att.accepted /\ b.expired
    BY <1>0 DEF Codex!Attempt
  <2>3. /\ a \in Codex!Attempt /\ a.job = att.job /\ a.active = att.active
        /\ a.accepted = att.accepted /\ a.expired
    <3> HIDE DEF b
    <3> QED  BY <2>2, NativeAttempts
  <2>4. NativeFades(a)
    <3> HIDE DEF a
    <3> QED  BY <2>1, <2>3 DEF NativeFades, NativeInv, NativeHolds
  <2> HIDE DEF a
  <2> QED  BY <1>0, <2>1, <2>3, <2>4, NativeMoves, NativeContinues
<1>3. CASE Codex!TimeoutInterrupted
  <2>1. \/ Codex!Continue(att, db, Codex!At("deadline", "idle"))
        \/ Codex!DisconnectIfCurrent(att, db, Codex!At("deadline", "idle"))
    BY <1>3 DEF Codex!TimeoutInterrupted
  <2>2. CASE Codex!Continue(att, db, Codex!At("deadline", "idle"))
    BY <1>0, <2>2, NativeMoves, NativeContinues
  <2>3. CASE Codex!DisconnectIfCurrent(att, db, Codex!At("deadline", "idle"))
    BY <1>0, <2>3, NativeMoves, NativeDisconnects
  <2> QED  BY <2>1, <2>2, <2>3
<1> QED  BY <1>1, <1>2, <1>3

LEMMA NativeTailOf ==
  ASSUME NEW S, NEW s \in Seq(S), s # <<>>
  PROVE  Tail(s) \in Seq(S) /\ Head(s) \in S
BY HeadTailProperties

\* A turn ends with its attempt, and its job waits for the checkpoint.
LEMMA NativeFinishes ==
  ASSUME NativeInv, NEW q \in {"completed", "failed", "cancelled"}, Codex!Finish(q),
         pc.event = "idle", events # <<>>, att.active, Codex!Current, att.accepted = "yes",
         q = "cancelled" => att.cancel /\ ~att.expired,
         UNCHANGED <<wire, owed, context, srv, runs>>
  PROVE  NativeInv' /\ SessionStep
<1>0. /\ pc \in Codex!Control /\ att \in Codex!Attempt /\ SessionInv
      /\ att' = Codex!FinishAttempt(att) /\ pc' = Codex!At("event", q)
      /\ UNCHANGED <<db, runs, conn, rpc, wire, owed, context, lstate, events, srv>>
  BY NativeTypes DEF Codex!Finish, Codex!Continue
<1>1. /\ att' \in Codex!Attempt /\ att'.job = att.job /\ ~att'.active
      /\ att'.cancel = att.cancel
  BY <1>0, NativeAttempts
<1>2. /\ pc' \in Codex!Control /\ pc'.event = q /\ pc'.dispatch = pc.dispatch
      /\ pc'.start = pc.start /\ pc'.stop = pc.stop
  BY <1>0, NativeAt
<1>3. SessionStep
  BY <1>0 DEF SessionStep
<1>4. SessionInv'
  BY <1>0, <1>3, SessionStepKeeps
<1>5. pc.dispatch = "idle"
  BY DEF NativeInv, NativeHolds
<1>6. NativeHolds'
  BY <1>0, <1>1, <1>2, <1>5 DEF NativeInv, NativeHolds
<1>7. NativeLifecycle' /\ NativeStarts' /\ NativeTail'
  BY <1>0, <1>1, <1>2
  DEF NativeInv, NativeLifecycle, NativeStarts, NativeTail, TailStored, Codex!Current
<1>8. NativeWire'
  BY <1>0, <1>1, <1>2 DEF NativeInv, NativeWire, Codex!Current
<1> QED  BY <1>0, <1>1, <1>2, <1>3, <1>4, <1>6, <1>7, <1>8, NativeTypes, NativeMade

LEMMA NativeHears ==
  ASSUME NativeInv, Codex!ProcessNotification \/ Codex!CheckpointFails
  PROVE  NativeInv' /\ SessionStep
<1>0. /\ UNCHANGED <<wire, owed, context, srv, runs>> /\ events \in Seq(Codex!Note)
      /\ srv' \in NativeServers /\ pc \in Codex!Control
      /\ srv'.turn = srv.turn /\ srv'.n = srv.n /\ srv'.last = srv.last
  BY NativeTypes DEF Codex!ProcessNotification, Codex!CheckpointFails
<1>1. CASE Codex!Throw(att, db) /\ events' \in Seq(Codex!Note)
  BY <1>0, <1>1, NativeMoves, NativeDisconnects DEF Codex!Throw
<1>2. CASE Codex!Done(att, db) /\ pc.event = "idle" /\ events' \in Seq(Codex!Note)
  BY <1>0, <1>2, NativeMoves, NativeContinues DEF Codex!Done
<1>3. CASE \E q \in {"completed", "failed", "cancelled"} :
             /\ Codex!Finish(q) /\ pc.event = "idle" /\ events # <<>> /\ att.active /\ Codex!Current
             /\ att.accepted = "yes" /\ (q = "cancelled" => att.cancel /\ ~att.expired)
  BY <1>0, <1>3, NativeFinishes
<1>4. CASE Codex!ProcessNotification
  <2>1. /\ pc.event = "idle" /\ events # <<>> /\ Tail(events) \in Seq(Codex!Note)
        /\ Head(events) \in Codex!Note
    BY <1>0, <1>4, NativeTailOf DEF Codex!ProcessNotification
  <2>2. \/ Codex!Done(att, db) \/ Codex!Throw(att, db)
        \/ \E q \in {"completed", "failed", "cancelled"} :
             /\ Codex!Finish(q) /\ att.active /\ Codex!Current
             /\ att.accepted = "yes" /\ (q = "cancelled" => att.cancel /\ ~att.expired)
    BY <1>4, <2>1 DEF Codex!ProcessNotification, Codex!EndOfTurn, Codex!Note
  <2>3. Codex!Done(att, db) \/ Codex!Throw(att, db) => events' \in Seq(Codex!Note)
    BY <2>1 DEF Codex!Done, Codex!Throw, Codex!Pop
  <2> QED  BY <1>1, <1>2, <1>3, <2>1, <2>2, <2>3
<1>5. CASE Codex!CheckpointFails
  <2>1. events' \in Seq(Codex!Note)
    <3>1. events' = Tail(events)
      BY <1>5 DEF Codex!CheckpointFails, Codex!Throw, Codex!Pop
    <3>2. events # <<>>
      BY <1>5 DEF Codex!CheckpointFails, NativeInv, NativeHolds
    <3> QED  BY <1>0, <3>1, <3>2, NativeTailOf
  <2> QED  BY <1>1, <1>5, <2>1 DEF Codex!CheckpointFails
<1> QED  BY <1>4, <1>5

\* The app-server's end, seen at once or confirmed after a close.
LEMMA NativeExits ==
  ASSUME NativeInv, Codex!OnProcessExit \/ Codex!ConfirmClose
  PROVE  NativeInv' /\ SessionStep
<1>0. /\ runs' = runs /\ context' \in BOOLEAN /\ events' = events
      /\ events' \in Seq(Codex!Note) /\ pc' = pc
      /\ att \in Codex!Attempt /\ NativeFades(att) /\ NativeMovesOn(pc)
      /\ lstate \in NativeLifecycles
  BY NativeTypes, NativeMoves
  DEF Codex!OnProcessExit, Codex!ConfirmClose, Codex!Disconnected
<1>1. srv' \in NativeServers
  BY NativeTypes DEF Codex!OnProcessExit, Codex!ConfirmClose, NativeServers
<1>2. NativeRequestLost
  BY NativeTypes, NativeLost DEF Codex!OnProcessExit, Codex!ConfirmClose
<1>3. CASE Codex!OnProcessExit /\ Codex!Current
  <2>1. /\ lstate' = "disconnected" /\ att' = Codex!GiveUp(att)
        /\ db' = MarkBackendDisconnected(db) /\ lstate = "running"
    BY <1>3, NativeSession DEF Codex!OnProcessExit, Codex!Disconnected, Codex!Current
  <2>2. att' \in Codex!Attempt /\ NativeAttemptFades
    BY <1>0, <2>1, NativeFading
  <2>3. /\ NativeStarts' /\ pc' \in Codex!Control
        /\ pc'.dispatch = pc.dispatch /\ pc'.event = pc.event
    BY <1>0, <2>1, NativeMovingOn DEF NativeMovesOn
  <2>4. NativeEnds
    BY <2>1 DEF NativeEnds, NativeLifecycles
  <2> QED  BY <1>0, <1>1, <1>2, <2>2, <2>3, <2>4, NativeSettles
<1>4. CASE /\ ~Codex!Current /\ UNCHANGED <<lstate, db>>
           /\ att' \in {att, Codex!FinishAttempt(att)}
  <2>1. att' \in Codex!Attempt /\ NativeAttemptFades
    BY <1>0, <1>4, NativeFading
  <2>2. /\ NativeStarts' /\ pc' \in Codex!Control
        /\ pc'.dispatch = pc.dispatch /\ pc'.event = pc.event
    BY <1>0, <1>4, NativeMovingOn DEF NativeMovesOn
  <2>3. NativeEnds \/ NativeWaits
    BY <1>0, <1>4 DEF NativeEnds, NativeWaits, NativeLifecycles, Codex!Current
  <2> QED  BY <1>0, <1>1, <1>2, <2>1, <2>2, <2>3, NativeSettles
<1>5. Codex!ConfirmClose => ~Codex!Current
  BY DEF Codex!ConfirmClose, Codex!AwaitCloseReceipt, NativeInv, NativeLifecycle
<1> QED  BY <1>3, <1>4, <1>5 DEF Codex!OnProcessExit, Codex!ConfirmClose

LEMMA NativeTransport ==
  ASSUME NativeInv, Codex!BreakTransport \/ Codex!TimeOutRequest
  PROVE  NativeInv' /\ SessionStep
<1>0. /\ UNCHANGED <<context, lstate, att, events, pc, srv, db, runs>>
      /\ context' \in BOOLEAN /\ events' \in Seq(Codex!Note) /\ srv' \in NativeServers
      /\ att' \in Codex!Attempt /\ NativeMovesOn(pc) /\ lstate \in NativeLifecycles
  BY NativeTypes, NativeMoves DEF Codex!BreakTransport, Codex!TimeOutRequest
<1>1. NativeRequestLost
  BY NativeTypes, NativeLost
  DEF Codex!BreakTransport, Codex!TimeOutRequest, Request
<1>2. /\ NativeAttemptFades /\ NativeStarts' /\ pc' \in Codex!Control
      /\ pc'.dispatch = pc.dispatch /\ pc'.event = pc.event
  BY <1>0, NativeMovingOn DEF NativeAttemptFades, NativeMovesOn
<1>3. NativeGoesOn \/ NativeEnds \/ NativeWaits
  <2>1. Codex!Current => conn' \in {"running", "broken"}
    BY DEF Codex!BreakTransport, Codex!TimeOutRequest, Codex!FailTransport,
           Codex!RequestTimeout, NativeInv, NativeLifecycle
  <2> QED
    BY <1>0, <2>1 DEF NativeGoesOn, NativeEnds, NativeWaits, NativeLifecycles, Codex!Current
<1> QED  BY <1>0, <1>1, <1>2, <1>3, NativeSettles

LEMMA NativeSays ==
  ASSUME NativeInv, Codex!Say
  PROVE  NativeInv' /\ SessionStep
<1>0. /\ Codex!Continue(att, db, pc) /\ UNCHANGED <<wire, owed, context, runs>>
      /\ srv \in NativeServers /\ events \in Seq(Codex!Note)
  BY NativeTypes DEF Codex!Say, Codex!Continue, Codex!wireVars
<1>1. /\ srv' \in NativeServers
      /\ srv'.turn = srv.turn /\ srv'.n = srv.n /\ srv'.last = srv.last
  BY <1>0 DEF Codex!Say, NativeServers
<1>2. events' \in Seq(Codex!Note) /\ (events' = events \/ events' # <<>>)
  <2>1. events' \in {events, Append(events, "item")}
    BY DEF Codex!Say, Codex!HandleNotification
  <2> QED  BY <1>0, <2>1, AppendProperties DEF Codex!Note
<1> QED  BY <1>0, <1>1, <1>2, NativeMoves, NativeContinues

LEMMA NativeEndsTurn ==
  ASSUME NativeInv, Codex!EndTurn
  PROVE  NativeInv' /\ SessionStep
<1>0. /\ UNCHANGED <<conn, rpc, wire, owed, context, lstate, att, pc, db, runs>>
      /\ srv \in NativeServers /\ events \in Seq(Codex!Note) /\ SessionInv
      /\ srv.turn = "running"
  BY NativeTypes DEF Codex!EndTurn, Codex!wireVars
<1>1. PICK note \in {"completed", "failed", "interrupted"} :
        /\ srv' = [turn |-> "none", said |-> FALSE, n |-> srv.n + 1, last |-> note]
        /\ events' \in {events, Append(events, note)}
  BY DEF Codex!EndTurn, Codex!HandleNotification
<1>2. srv' \in NativeServers
  BY <1>0, <1>1 DEF NativeServers, TurnStatus
<1>3. events' \in Seq(Codex!Note) /\ (events' = events \/ events' # <<>>)
  BY <1>0, <1>1, AppendProperties DEF Codex!Note
<1>4. SessionStep
  BY <1>0 DEF SessionStep
<1>5. SessionInv'
  BY <1>0, <1>4, SessionStepKeeps
<1>6. NativeHolds'
  BY <1>0, <1>3 DEF NativeInv, NativeHolds
<1>7. NativeLifecycle' /\ NativeStarts' /\ NativeWire'
  BY <1>0 DEF NativeInv, NativeLifecycle, NativeStarts, NativeWire, Codex!Current
<1>8. NativeTail'
  BY <1>0 DEF NativeInv, NativeTail, TailStored, Codex!Current
<1> QED  BY <1>0, <1>2, <1>3, <1>4, <1>5, <1>6, <1>7, <1>8, NativeTypes, NativeMade

\* The request is in the pipe, and not twice.
LEMMA NativeWrites ==
  ASSUME NativeInv, Codex!WriteRequest
  PROVE  NativeInv' /\ SessionStep
<1>0. /\ UNCHANGED <<conn, owed, context, lstate, att, events, pc, srv, db, runs>>
      /\ rpc[Request] = "queued" /\ SessionInv /\ rpc \in [{Request} -> Codex!RpcState]
      /\ wire' \in SUBSET {Request}
  BY NativeTypes DEF Codex!WriteRequest, Codex!Write, Request
<1>1. rpc' \in [{Request} -> Codex!RpcState] /\ rpc'[Request] \in {"written", "unknown"}
  BY <1>0 DEF Codex!WriteRequest, Codex!Write, Codex!RpcState, Request
<1>2. /\ pc.dispatch = "start" /\ runs[att.job] = 0 /\ att.job \in Jobs
      /\ db.status[att.job] \in Active \cup Unknown /\ owed = {}
  BY <1>0 DEF NativeInv, NativeHolds, NativeWire
<1>3. SessionStep
  BY <1>0 DEF SessionStep
<1>4. SessionInv'
  BY <1>0, <1>3, SessionStepKeeps
<1>5. NativeHolds' /\ NativeLifecycle' /\ NativeStarts' /\ NativeTail'
  BY <1>0, <1>2
  DEF NativeInv, NativeHolds, NativeLifecycle, NativeStarts, NativeTail, TailStored,
      Codex!Current
<1>6. NativeWire'
  BY <1>0, <1>1, <1>2 DEF NativeInv, NativeWire, Codex!Current
<1> QED  BY <1>0, <1>1, <1>3, <1>4, <1>5, <1>6, NativeTypes, NativeMade

\* The one step by which a job is run.
LEMMA NativeReads ==
  ASSUME NativeInv, Codex!ReadRequest
  PROVE  NativeInv' /\ SessionStep
<1>0. /\ UNCHANGED <<conn, rpc, context, lstate, att, events, pc, db>>
      /\ runs \in [Jobs -> Nat] /\ SessionInv /\ srv \in NativeServers
      /\ runs' = [runs EXCEPT ![att.job] = @ + 1]
      /\ srv' = [srv EXCEPT !.turn = "running", !.said = FALSE]
      /\ Request \in wire /\ wire' = {} /\ owed' = {Request}
  BY NativeTypes DEF Codex!ReadRequest, Codex!Receive, Request
<1>1. /\ att.job \in Jobs /\ runs[att.job] = 0
      /\ db.status[att.job] \in Active \cup Unknown
      /\ rpc[Request] \in {"written", "unknown"}
  BY <1>0 DEF NativeInv, NativeWire
<1>2. SessionStep
  BY <1>0, <1>1 DEF SessionStep, Begins
<1>3. SessionInv'
  BY <1>0, <1>2, SessionStepKeeps
<1>4. runs'[att.job] = 1 /\ srv' \in NativeServers
  <2>1. runs'[att.job] = 1
    BY <1>0, <1>1
  <2>2. srv' \in NativeServers
    BY <1>0 DEF NativeServers
  <2> QED  BY <2>1, <2>2
<1>5. pc.dispatch # "context" /\ ~(att.active /\ att.accepted = "yes") /\ pc.event = "idle"
  BY <1>1 DEF NativeInv, NativeHolds, NativeWire
<1>6. NativeHolds' /\ NativeLifecycle' /\ NativeStarts'
  BY <1>0, <1>4, <1>5
  DEF NativeInv, NativeHolds, NativeLifecycle, NativeStarts, Codex!Current
<1>7. NativeWire'
  BY <1>0, <1>1, <1>4 DEF NativeInv, NativeWire, Codex!Current
<1>8. NativeTail'
  BY <1>0, <1>1, <1>4 DEF SessionInv, NativeTail, Codex!Current
<1> QED  BY <1>0, <1>2, <1>3, <1>4, <1>6, <1>7, <1>8, NativeTypes, NativeMade

LEMMA NativeAnswers ==
  ASSUME NativeInv, Codex!AnswerRequest
  PROVE  NativeInv' /\ SessionStep
<1>0. /\ UNCHANGED <<conn, wire, context, lstate, att, events, pc, srv, db, runs>>
      /\ Request \in owed /\ owed' = {} /\ rpc \in [{Request} -> Codex!RpcState]
      /\ SessionInv
  BY NativeTypes DEF Codex!AnswerRequest, Codex!HandleResponse, Request
<1>1. /\ rpc' \in [{Request} -> Codex!RpcState]
      /\ \/ rpc[Request] = "written" /\ rpc'[Request] \in {"ok", "refused"}
         \/ rpc[Request] # "written" /\ rpc'[Request] = rpc[Request]
  BY <1>0 DEF Codex!AnswerRequest, Codex!HandleResponse, Request, Codex!RpcState
<1>2. wire = {} /\ att.job \in Jobs /\ runs[att.job] = 1
  BY <1>0, NativeTypes DEF NativeInv, NativeWire
<1>3. SessionStep
  BY <1>0 DEF SessionStep
<1>4. SessionInv'
  BY <1>0, <1>3, SessionStepKeeps
<1>5. rpc[Request] \in {"written", "unknown"}
  BY <1>0 DEF NativeInv, NativeWire
<1>6. NativeHolds' /\ NativeStarts' /\ NativeTail'
  BY <1>0
  DEF NativeInv, NativeHolds, NativeStarts, NativeTail, TailStored, Codex!Current
<1>7. NativeLifecycle'
  BY <1>0, <1>1, <1>5 DEF NativeInv, NativeLifecycle, Codex!Current
<1>8. NativeWire'
  BY <1>0, <1>1, <1>2, <1>5 DEF NativeInv, NativeWire, Codex!Current
<1> QED  BY <1>0, <1>1, <1>3, <1>4, <1>6, <1>7, <1>8, NativeTypes, NativeMade

-----------------------------------------------------------------------------
LEMMA NativeStartsProcess ==
  ASSUME NativeInv, Codex!StartBegins
  PROVE  NativeInv' /\ SessionStep
<1>0. /\ UNCHANGED <<context, lstate, att, events, srv, db, runs>> /\ SessionInv
      /\ pc.start = "idle" /\ pc \in Codex!Control /\ lstate = "none" /\ pc.stop = "no"
  BY NativeTypes
  DEF Codex!StartBegins, NativeInv, NativeStarts, Codex!Control
<1>1. /\ conn' \in Codex!ConnState /\ rpc' \in [{Request} -> Codex!RpcState]
      /\ wire' \in SUBSET {Request} /\ owed' \in SUBSET {Request}
      /\ rpc'[Request] = "idle" /\ wire' = {} /\ owed' = {}
  <2>1. rpc[Request] = "idle" /\ wire = {} /\ owed = {}
    BY <1>0 DEF NativeInv, NativeLifecycle, NativeWire
  <2>2. CASE Codex!Spawn
    BY <2>2 DEF Codex!Spawn, Codex!ConnState, Codex!RpcState, Request
  <2>3. CASE UNCHANGED Codex!wireVars
    BY <2>1, <2>3, NativeTypes DEF Codex!wireVars
  <2> QED  BY <2>2, <2>3 DEF Codex!StartBegins
<1>2. /\ pc' \in Codex!Control /\ pc'.dispatch = pc.dispatch /\ pc'.event = pc.event
      /\ pc'.start \in {"thread", "failed"} /\ pc'.stop = pc.stop
  BY <1>0, NativeAt DEF Codex!StartBegins
<1>3. SessionStep
  BY <1>0 DEF SessionStep
<1>4. SessionInv'
  BY <1>0, <1>3, SessionStepKeeps
<1>5. NativeHolds'
  BY <1>0, <1>2 DEF NativeInv, NativeHolds
<1>6. NativeLifecycle' /\ NativeStarts' /\ NativeTail'
  BY <1>0, <1>1, <1>2
  DEF NativeInv, NativeLifecycle, NativeStarts, NativeTail, Codex!Current
<1>7. NativeWire'
  BY <1>0, <1>1, <1>2 DEF NativeInv, NativeWire, NativeLifecycle, Codex!Current
<1> QED  BY <1>0, <1>1, <1>2, <1>3, <1>4, <1>5, <1>6, <1>7, NativeTypes, NativeMade

LEMMA NativeStartsThread ==
  ASSUME NativeInv, Codex!StartThread
  PROVE  NativeInv' /\ SessionStep
<1>0. /\ UNCHANGED <<att, wire, owed, context, events, srv, runs>>
      /\ pc.start = "thread" /\ pc \in Codex!Control /\ lstate = "none"
      /\ pc.stop = "no" /\ db \in Db /\ SessionInv /\ att \in Codex!Attempt
      /\ events' \in Seq(Codex!Note) /\ srv' \in NativeServers /\ context' \in BOOLEAN
  BY NativeTypes DEF Codex!StartThread, NativeInv, NativeStarts, Codex!Control
<1>1. CASE /\ conn = "running" /\ ~db.quarantined
           /\ srv.turn = "none" /\ db.chk = [n |-> srv.n, last |-> srv.last]
           /\ lstate' = "running" /\ pc' = Codex!At("start", "pin")
           /\ UNCHANGED <<conn, rpc, db>>
  <2>1. /\ pc' \in Codex!Control /\ pc'.dispatch = pc.dispatch /\ pc'.event = pc.event
        /\ pc'.start = "pin" /\ pc'.stop = pc.stop
    BY <1>0, <1>1, NativeAt
  <2>2. SessionStep
    BY <1>0, <1>1 DEF SessionStep
  <2>3. SessionInv'
    BY <1>0, <2>2, SessionStepKeeps
  <2>4. NativeHolds'
    BY <1>0, <1>1, <2>1 DEF NativeInv, NativeHolds
  <2>5. ~(att.job \in Jobs /\ db.status[att.job] \in Active)
    BY <1>0, <1>1 DEF NativeInv, NativeLifecycle
  <2>6. NativeLifecycle' /\ NativeStarts' /\ NativeTail'
    BY <1>0, <1>1, <2>1, <2>5
    DEF NativeInv, NativeLifecycle, NativeStarts, NativeTail, TailStored, Codex!Current
  <2>7. NativeWire'
    BY <1>0, <1>1, <2>1 DEF NativeInv, NativeWire, NativeLifecycle, Codex!Current
  <2>8. lstate' \in NativeLifecycles
    BY <1>1 DEF NativeLifecycles
  <2> QED  BY <1>0, <1>1, <2>1, <2>2, <2>3, <2>4, <2>6, <2>7, <2>8, NativeTypes, NativeMade
<1>2. CASE /\ db' \in {db, Quarantine(db)} /\ lstate' = lstate
           /\ Codex!CloseClient /\ pc' = Codex!At("start", "closing")
  <2>1. NativeRequestLost
    BY <1>0, <1>2, NativeTypes, NativeLost
  <2>2. NativeAttemptFades /\ att' \in Codex!Attempt
    BY <1>0 DEF NativeAttemptFades
  <2>3. /\ pc' \in Codex!Control /\ pc'.dispatch = pc.dispatch /\ pc'.event = pc.event
        /\ pc'.start = "closing" /\ pc'.stop = pc.stop
    BY <1>0, <1>2, NativeAt
  <2>4. NativeStarts' /\ NativeWaits
    BY <1>0, <1>2, <2>3 DEF NativeStarts, NativeWaits
  <2> QED  BY <1>0, <2>1, <2>2, <2>3, <2>4, NativeSettles
<1> QED  BY <1>1, <1>2, NativeSession DEF Codex!StartThread

LEMMA NativeStartsUp ==
  ASSUME NativeInv, Codex!StartPinned \/ Codex!StartFails
  PROVE  NativeInv' /\ SessionStep
<1>0. /\ UNCHANGED <<wire, owed, context, events, srv, runs>> /\ pc \in Codex!Control
      /\ pc.start \in {"pin", "closing"} /\ pc.stop = "no"
      /\ NativeFades(att) /\ events' \in Seq(Codex!Note) /\ srv' \in NativeServers
      /\ srv'.turn = srv.turn /\ srv'.n = srv.n /\ srv'.last = srv.last
  BY NativeTypes, NativeMoves
  DEF Codex!StartPinned, Codex!StartFails, NativeInv, NativeStarts, Codex!Control
<1>1. \A q \in {"done", "closing", "failed"} : LET p == Codex!At("start", q) IN
        /\ (q = "done" => pc.start = "pin") => NativeMovesOn(p)
        /\ p.dispatch = pc.dispatch /\ p.event = pc.event /\ p.start = q
  BY <1>0, NativeAt DEF NativeMovesOn
<1>2. ASSUME NEW q \in {"done", "closing", "failed"}, q = "done" => pc.start = "pin",
             Codex!Continue(att, db, Codex!At("start", q))
      PROVE  NativeInv' /\ SessionStep
  BY <1>0, <1>1, <1>2, NativeContinues
<1>3. CASE Codex!Current /\ Codex!StopLifecycle(Codex!At("start", "closing"))
  BY <1>0, <1>1, <1>3, NativeStopsLifecycle
<1> QED  BY <1>2, <1>3 DEF Codex!StartPinned, Codex!StartFails

LEMMA NativeStops ==
  ASSUME NativeInv, Codex!Stop \/ Codex!StopStep
  PROVE  NativeInv' /\ SessionStep
<1>0. /\ UNCHANGED <<wire, owed, context, events, srv, runs>> /\ pc \in Codex!Control
      /\ pc.start \in {"done", "failed"} /\ NativeFades(att)
      /\ events' \in Seq(Codex!Note) /\ srv' \in NativeServers /\ lstate \in NativeLifecycles
      /\ srv'.turn = srv.turn /\ srv'.n = srv.n /\ srv'.last = srv.last
      /\ context' \in BOOLEAN /\ att \in Codex!Attempt
  BY NativeTypes, NativeMoves
  DEF Codex!Stop, Codex!StopStep, Codex!StopAwaitsSubmission, Codex!StopEnds, NativeInv,
      NativeStarts, Codex!wireVars
<1>1. \A q \in {"pending", "closing", "stopped"} : LET p == Codex!At("stop", q) IN
        /\ NativeMovesOn(p) /\ p.dispatch = pc.dispatch /\ p.event = pc.event
        /\ p.start = pc.start /\ p.stop = q
  BY <1>0, NativeAt DEF NativeMovesOn
<1>2. ASSUME NEW q \in {"pending", "closing", "stopped"},
             Codex!Continue(att, db, Codex!At("stop", q))
      PROVE  NativeInv' /\ SessionStep
  BY <1>0, <1>1, <1>2, NativeContinues
<1>3. CASE Codex!Current /\ Codex!StopLifecycle(Codex!At("stop", "closing"))
  BY <1>0, <1>1, <1>3, NativeStopsLifecycle
<1>4. CASE Codex!StopEnds
  <2>1. /\ lstate' = "stopped" /\ pc' = Codex!At("stop", "stopped")
        /\ UNCHANGED <<conn, rpc, att, db>> /\ conn \in {"closed", "unconfirmed"}
        /\ pc.stop = "closing"
    BY <1>4 DEF Codex!StopEnds, Codex!wireVars
  <2>2. NativeRequestLost
    BY <1>0, <2>1, NativeTypes, NativeLost
  <2>3. NativeAttemptFades /\ att' \in Codex!Attempt
    BY <1>0, <2>1 DEF NativeAttemptFades
  <2>4. /\ pc' \in Codex!Control /\ pc'.dispatch = pc.dispatch /\ pc'.event = pc.event
        /\ NativeStarts'
    BY <1>0, <1>1, <2>1 DEF NativeMovesOn, NativeStarts
  <2>5. NativeEnds
    BY <2>1 DEF NativeEnds, NativeLifecycles
  <2> QED  BY <1>0, <2>2, <2>3, <2>4, <2>5, NativeSettles
<1> QED
  BY <1>2, <1>3, <1>4
  DEF Codex!Stop, Codex!StopStep, Codex!StopAwaitsSubmission, Codex!StopHarness

-----------------------------------------------------------------------------
\* turn/start is sent, of a job that was not sent before.
LEMMA NativeSubmits ==
  ASSUME NativeInv, NEW j \in Jobs, SessionStep, SessionInv', Codex!Submit(j, db'),
         conn = "running", Codex!Current, ~db'.quarantined => TailStored', runs' = runs,
         runs[j] = 0, db'.status[j] \in {"Dispatching"} \cup Unknown,
         \A k \in Jobs : db'.status[k] \in Active => k = j,
         rpc[Request] \in {"idle", "ok", "unwritten"}, pc.event = "idle",
         UNCHANGED <<wire, owed, context, events, srv>>
  PROVE  NativeInv'
<1>1. /\ att' = Codex!NewAttempt(j, TRUE) /\ pc' = Codex!At("dispatch", "start")
      /\ rpc' = Codex!Asked("start") /\ UNCHANGED <<conn, lstate>>
      /\ pc \in Codex!Control /\ rpc \in [{Request} -> Codex!RpcState]
      /\ lstate = "running"
  BY NativeTypes DEF Codex!Submit, Codex!Current
<1>2. /\ att' \in Codex!Attempt /\ att'.job = j /\ att'.active /\ att'.accepted = "open"
      /\ ~att'.cancel
  BY DEF Codex!Submit, Codex!NewAttempt, Codex!Attempt
<1>3. /\ pc' \in Codex!Control /\ pc'.dispatch = "start" /\ pc'.event = pc.event
      /\ pc'.start = pc.start /\ pc'.stop = pc.stop
  BY <1>1, NativeAt
<1>4. rpc' \in [{Request} -> Codex!RpcState] /\ rpc'[Request] = "queued"
  BY <1>1 DEF Codex!Asked, Codex!RpcState, Request
<1>5. wire = {} /\ owed = {}
  BY DEF NativeInv, NativeWire
<1>6. "Dispatching" \in Active /\ "Running" \notin {"Dispatching"} \cup Unknown
  BY DEF Active, Unknown
<1>7. NativeHolds'
  BY <1>2, <1>3, <1>6 DEF NativeHolds
<1>8. NativeLifecycle' /\ NativeStarts'
  BY <1>1, <1>2, <1>3 DEF NativeInv, NativeLifecycle, NativeStarts, Codex!Current
<1>9. NativeTail'
  BY DEF NativeTail
<1>10. NativeWire'
  BY <1>2, <1>3, <1>4, <1>5 DEF NativeWire
<1> QED  BY <1>1, <1>2, <1>3, <1>4, <1>7, <1>8, <1>9, <1>10, NativeTypes, NativeMade

LEMMA NativeDispatches ==
  ASSUME NativeInv, NEW j \in Jobs, Codex!Dispatch(j)
  PROVE  NativeInv' /\ SessionStep
<1>0. /\ db \in Db /\ SessionInv /\ pc \in Codex!Control /\ att \in Codex!Attempt
      /\ pc.dispatch = "idle" /\ ~att.active /\ Claimable(j) /\ Codex!Current
      /\ conn = "running" /\ ~db.quarantined
      /\ UNCHANGED <<wire, owed, context, events, srv, runs>>
      /\ runs[j] = 0 /\ db.status[j] = "Queued"
      /\ \A k \in Jobs : db.status[k] \notin Active
  BY NativeTypes, NativeSession
  DEF Codex!Dispatch, Codex!Ready, Claimable, NoActiveJob, SessionInv
<1>1. /\ rpc[Request] \in {"idle", "ok", "unwritten"} /\ TailStored
      /\ pc.event = "idle" /\ wire = {} /\ owed = {}
  BY <1>0 DEF NativeInv, NativeHolds, NativeWire, NativeTail, SessionInv
<1>2. /\ db' = ClaimForBackendDispatch(db, j) /\ db' \in Db
      /\ db'.status = [db.status EXCEPT ![j] = "Dispatching"]
      /\ db'.chk = db.chk /\ db'.quarantined = db.quarantined
  <2>1. db' = ClaimForBackendDispatch(db, j)
    BY NativeSession DEF Codex!Dispatch, Codex!Continue, Codex!Submit
  <2> QED  BY <1>0, <2>1 DEF ClaimForBackendDispatch, Db, Status, Active
<1>3. SessionStep
  BY <1>0, <1>2 DEF SessionStep, Claims
<1>4. SessionInv'
  BY <1>0, <1>3, SessionStepKeeps
<1>5. /\ db'.status[j] = "Dispatching"
      /\ \A k \in Jobs : db'.status[k] \in Active => k = j
  BY <1>0, <1>2 DEF Db
<1>6. TailStored'
  BY <1>0, <1>1, <1>2 DEF TailStored
<1>7. CASE Codex!Submit(j, db')
  BY <1>0, <1>1, <1>3, <1>4, <1>5, <1>6, <1>7, NativeSubmits
<1>8. CASE Codex!Continue(Codex!NewAttempt(j, FALSE), db', Codex!At("dispatch", "context"))
  <2>1. /\ att' = Codex!NewAttempt(j, FALSE) /\ pc' = Codex!At("dispatch", "context")
        /\ UNCHANGED <<conn, rpc, lstate>>
    BY <1>8 DEF Codex!Continue
  <2>2. att' \in Codex!Attempt /\ att'.job = j /\ ~att'.active /\ ~att'.cancel
    BY <2>1 DEF Codex!NewAttempt, Codex!Attempt
  <2>3. /\ pc' \in Codex!Control /\ pc'.dispatch = "context" /\ pc'.event = pc.event
        /\ pc'.start = pc.start /\ pc'.stop = pc.stop
    BY <1>0, <2>1, NativeAt
  <2>4. NativeHolds'
    BY <1>0, <1>1, <1>5, <2>2, <2>3 DEF NativeHolds
  <2>5. NativeLifecycle' /\ NativeStarts'
    BY <1>0, <2>1, <2>2, <2>3 DEF NativeInv, NativeLifecycle, NativeStarts, Codex!Current
  <2>6. NativeWire' /\ NativeTail'
    BY <1>0, <1>1, <1>6, <2>1, <2>2, <2>3 DEF NativeWire, NativeTail
  <2> QED  BY <1>0, <1>3, <1>4, <2>1, <2>2, <2>3, <2>4, <2>5, <2>6, NativeTypes, NativeMade
<1> QED
  BY <1>2, <1>7, <1>8, NativeSession DEF Codex!Dispatch, Codex!Continue, Codex!Submit

\* A job that was not sent is given back, and its attempt with it.
LEMMA NativeGivesBack ==
  ASSUME NativeInv, pc.dispatch # "idle", runs[att.job] = 0, NEW a, NativeFades(a), ~a.active,
         rpc[Request] \in {"idle", "ok", "unwritten"}, Codex!NotSent(a),
         UNCHANGED <<wire, owed, context, events, srv, runs>>
  PROVE  NativeInv' /\ SessionStep
<1>0. /\ db \in Db /\ SessionInv /\ pc \in Codex!Control /\ att' = a
      /\ a \in Codex!Attempt /\ a.job = att.job /\ db' = ResetUnsentExecution(db, att.job)
      /\ pc' = Codex!At("dispatch", "idle") /\ UNCHANGED <<conn, rpc, lstate>>
  BY NativeTypes, NativeSession DEF Codex!NotSent, Codex!Continue, NativeFades
<1>1. /\ att.job \in Jobs /\ db.status[att.job] # "Running" /\ pc.event = "idle"
      /\ \A j \in Jobs : db.status[j] \in Active => j = att.job
  BY <1>0 DEF NativeInv, NativeHolds, Codex!Control
<1>2. /\ Leads(db, db', att.job) /\ db'.status[att.job] \notin Active
      /\ db'.chk = db.chk /\ db'.quarantined = db.quarantined
  BY <1>0, <1>1, ResetLeads, StoreKeeps
<1>3. SessionStep
  BY <1>0, <1>1, <1>2 DEF SessionStep, Moves
<1>4. SessionInv'
  BY <1>0, <1>3, SessionStepKeeps
<1>5. \A j \in Jobs : db'.status[j] \notin Active
  BY <1>1, <1>2 DEF Leads
<1>6. /\ pc' \in Codex!Control /\ pc'.dispatch = "idle" /\ pc'.event = "idle"
      /\ pc'.start = pc.start /\ pc'.stop = pc.stop
  BY <1>0, <1>1, NativeAt
<1>7. NativeHolds'
  BY <1>0, <1>5, <1>6 DEF NativeHolds
<1>8. NativeLifecycle' /\ NativeStarts'
  BY <1>0, <1>5, <1>6 DEF NativeInv, NativeLifecycle, NativeStarts, Codex!Current
<1>9. wire = {} /\ owed = {}
  BY DEF NativeInv, NativeWire
<1>10. NativeWire'
  BY <1>0, <1>6, <1>9 DEF NativeWire
<1>11. NativeTail'
  BY <1>0, <1>2 DEF NativeInv, NativeTail, TailStored, Codex!Current
<1> QED  BY <1>0, <1>3, <1>4, <1>6, <1>7, <1>8, <1>10, <1>11, NativeTypes, NativeMade

LEMMA NativeSynced ==
  ASSUME NativeInv, Codex!ContextSynced
  PROVE  NativeInv' /\ SessionStep
<1>0. /\ pc.dispatch = "context" /\ att.job \in Jobs /\ runs[att.job] = 0 /\ ~att.active
      /\ rpc[Request] \in {"idle", "ok", "unwritten"} /\ pc.event = "idle"
      /\ UNCHANGED <<wire, owed, context, events, srv, runs>>
      /\ ~att.cancel => db.status[att.job] \in {"Dispatching"} \cup Unknown
      /\ NativeFades(att) /\ SessionInv
  BY NativeMoves, NativeTypes DEF Codex!ContextSynced, NativeInv, NativeHolds, NativeWire
<1>1. CASE Codex!NotSent(att)
  BY <1>0, <1>1, NativeGivesBack
<1>2. CASE Codex!MaySubmit /\ Codex!Submit(att.job, db)
  <2>1. /\ ~att.cancel /\ conn = "running" /\ Codex!Current /\ db' = db
    BY <1>2 DEF Codex!MaySubmit, Codex!Ready, Codex!Submit
  <2>2. SessionStep
    BY <1>0, <2>1 DEF SessionStep
  <2>3. SessionInv'
    BY <1>0, <2>2, SessionStepKeeps
  <2>4. ~db.quarantined => TailStored
    BY <1>0, <2>1 DEF NativeInv, NativeTail
  <2>5. ~db'.quarantined => TailStored'
    BY <1>0, <2>1, <2>4 DEF TailStored
  <2>6. \A k \in Jobs : db'.status[k] \in Active => k = att.job
    BY <2>1 DEF NativeInv, NativeHolds
  <2> QED  BY <1>0, <1>2, <2>1, <2>2, <2>3, <2>5, <2>6, NativeSubmits
<1> QED  BY <1>1, <1>2 DEF Codex!ContextSynced

LEMMA NativeAccepts ==
  ASSUME NativeInv, Codex!TurnStarted
  PROVE  NativeInv' /\ SessionStep
<1> DEFINE begun == [att EXCEPT !.turn = TRUE, !.deadline = TRUE, !.accepted = "yes"]
<1>0. /\ pc.dispatch = "start" /\ rpc[Request] = "ok" /\ att.job \in Jobs
      /\ runs[att.job] = 1 /\ pc.event = "idle" /\ wire = {} /\ owed = {}
      /\ UNCHANGED <<wire, owed, context, events, srv, runs>>
      /\ db.status[att.job] \in Active \cup Unknown
      /\ db \in Db /\ SessionInv /\ pc \in Codex!Control /\ att \in Codex!Attempt
      /\ rpc \in [{Request} -> Codex!RpcState] /\ NativeFades(att)
      /\ NativeMovesOn(Codex!At("dispatch", "idle"))
      /\ context' \in BOOLEAN /\ events' \in Seq(Codex!Note) /\ srv' \in NativeServers
      /\ lstate \in NativeLifecycles /\ conn \in Codex!ConnState
  BY NativeTypes, NativeMoves
  DEF Codex!TurnStarted, NativeInv, NativeHolds, NativeWire, Request
<1>1. /\ begun \in Codex!Attempt /\ begun.job = att.job /\ begun.active = att.active
      /\ begun.cancel = att.cancel /\ begun.expired = att.expired
      /\ begun.accepted = "yes"
  BY <1>0 DEF Codex!Attempt
<1>2. Codex!At("dispatch", "idle").start = pc.start
  BY NativeMoves
<1>3. CASE /\ ~Codex!Current
           /\ Codex!Continue(Codex!FinishAttempt(Codex!GiveUp(att)),
                             MarkBackendDisconnected(Quarantine(db)),
                             Codex!At("dispatch", "idle"))
  <2>1. /\ att' = Codex!FinishAttempt(Codex!GiveUp(att)) /\ lstate # "running"
        /\ db' = MarkBackendDisconnected(Quarantine(db))
        /\ pc' = Codex!At("dispatch", "idle") /\ UNCHANGED <<conn, rpc, lstate>>
    BY <1>3 DEF Codex!Continue, Codex!Current
  <2>2. NativeRequestLost
    BY <1>0, <2>1, NativeLost
  <2>3. att' \in Codex!Attempt /\ NativeAttemptFades
    <3>1. NativeFades(Codex!GiveUp(att))
      BY <1>0, NativeFading
    <3>2. NativeFades(att')
      BY <2>1, <3>1, NativeFading
    <3> QED  BY <3>2 DEF NativeFades, NativeAttemptFades
  <2>4. /\ pc' \in Codex!Control /\ NativeStarts'
        /\ pc'.dispatch \in {pc.dispatch, "idle"} /\ pc'.event \in {pc.event, "idle"}
        /\ pc'.dispatch = pc.dispatch \/ rpc[Request] \notin {"queued", "written"}
    BY <1>0, <2>1, NativeMovingOn
  <2>5. NativeEnds
    BY <1>0, <2>1 DEF NativeEnds, NativeLifecycles, NativeInv, NativeLifecycle
  <2> QED  BY <1>0, <2>2, <2>3, <2>4, <2>5, NativeSettles
<1>4. CASE Codex!DisconnectIfCurrent([begun EXCEPT !.accepted = "no"], db,
                                     Codex!At("dispatch", "idle"))
  <2> DEFINE a == [begun EXCEPT !.accepted = "no"]
  <2>1. /\ a \in Codex!Attempt /\ a.job = att.job /\ a.active = att.active
        /\ a.cancel = att.cancel /\ a.expired = att.expired /\ a.accepted = "no"
    <3> HIDE DEF begun
    <3> QED  BY <1>1 DEF Codex!Attempt
  <2>2. NativeFades(a)
    <3> HIDE DEF a
    <3> QED  BY <1>0, <2>1 DEF NativeFades
  <2>3. Codex!DisconnectIfCurrent(a, db, Codex!At("dispatch", "idle"))
    BY <1>4
  <2> HIDE DEF a
  <2> QED  BY <1>0, <1>2, <2>2, <2>3, NativeDisconnects
<1>5. CASE /\ Codex!Current
           /\ Codex!Continue(IF att.cancel THEN Codex!Interrupt(begun) ELSE begun,
                             MarkBackendRunning(db, att.job), Codex!At("dispatch", "idle"))
  <2>1. /\ att' \in {begun, Codex!Interrupt(begun)} /\ db' = MarkBackendRunning(db, att.job)
        /\ pc' = Codex!At("dispatch", "idle") /\ UNCHANGED <<conn, rpc, lstate>>
    BY <1>5 DEF Codex!Continue
  <2>2. /\ att' \in Codex!Attempt /\ att'.job = att.job /\ att'.active = att.active
        /\ att'.cancel = att.cancel /\ att'.expired = att.expired
        /\ att'.accepted = "yes"
    <3> HIDE DEF begun
    <3>1. /\ Codex!Interrupt(begun) \in Codex!Attempt
          /\ Codex!Interrupt(begun).job = begun.job
          /\ Codex!Interrupt(begun).active = begun.active
          /\ Codex!Interrupt(begun).cancel = begun.cancel
          /\ Codex!Interrupt(begun).expired = begun.expired
          /\ Codex!Interrupt(begun).accepted = begun.accepted
      BY <1>1, NativeAttempts
    <3> QED  BY <1>1, <2>1, <3>1
  <2>3. /\ pc' \in Codex!Control /\ pc'.dispatch = "idle" /\ pc'.event = "idle"
        /\ pc'.start = pc.start /\ pc'.stop = pc.stop
    BY <1>0, <2>1, NativeAt
  <2>4. /\ Leads(db, db', att.job) /\ db'.bound
        /\ db'.quarantined = db.quarantined /\ db'.chk = db.chk
        /\ db'.status[att.job] =
             IF db.status[att.job] = "Dispatching" THEN "Running" ELSE db.status[att.job]
    BY <1>0, <2>1, RunningLeads
  <2>5. SessionStep
    BY <1>0, <2>4 DEF SessionStep, Moves
  <2>6. SessionInv'
    BY <1>0, <2>5, SessionStepKeeps
  <2>7. /\ \A k \in Jobs \ {att.job} : db'.status[k] = db.status[k]
        /\ db'.status[att.job] \in Active <=> db.status[att.job] \in Active
        /\ db'.status[att.job] \in Active \cup Unknown
        /\ db.status[att.job] \notin {"Dispatching", "Running"} =>
             db'.status[att.job] \notin {"Dispatching", "Running"}
    BY <1>0, <2>4 DEF Leads, Active, Unknown
  <2>8. NativeHolds'
    BY <1>0, <2>2, <2>3, <2>4, <2>7 DEF NativeInv, NativeHolds
  <2>9. NativeLifecycle'
    BY <1>0, <1>5, <2>1, <2>2, <2>3, <2>7 DEF NativeInv, NativeLifecycle, Codex!Current
  <2>10. NativeStarts' /\ NativeTail'
    BY <1>0, <2>1, <2>2, <2>3, <2>4, <2>7
    DEF NativeInv, NativeStarts, NativeTail, TailStored, Codex!Current
  <2>11. NativeWire'
    BY <1>0, <2>1, <2>2, <2>3 DEF NativeInv, NativeWire
  <2> QED  BY <1>0, <2>1, <2>2, <2>3, <2>5, <2>6, <2>8, <2>9, <2>10, <2>11, NativeTypes, NativeMade
<1> QED
  BY <1>3, <1>4, <1>5, NativeSession DEF Codex!TurnStarted

LEMMA NativeFails ==
  ASSUME NativeInv, Codex!TurnStartUnwritten \/ Codex!TurnStartAmbiguous
  PROVE  NativeInv' /\ SessionStep
<1>0. /\ pc.dispatch = "start" /\ UNCHANGED <<wire, owed, context, events, srv, runs>>
      /\ rpc[Request] \notin {"queued", "written"} /\ att \in Codex!Attempt
      /\ events' \in Seq(Codex!Note)
      /\ NativeFades(Codex!FinishAttempt(Codex!GiveUp(att)))
      /\ NativeFades(Codex!GiveUp(att))
      /\ NativeMovesOn(Codex!At("dispatch", "idle"))
      /\ Codex!At("dispatch", "idle").start = pc.start
  <2>1. NativeFades(Codex!GiveUp(att))
    BY NativeMoves, NativeFading
  <2>2. NativeFades(Codex!FinishAttempt(Codex!GiveUp(att)))
    BY <2>1, NativeFading
  <2>3. rpc[Request] \notin {"queued", "written"}
    BY DEF Codex!TurnStartUnwritten, Codex!TurnStartAmbiguous, Request
  <2> QED
    BY <2>1, <2>2, <2>3, NativeTypes, NativeMoves
    DEF Codex!TurnStartUnwritten, Codex!TurnStartAmbiguous
<1>1. CASE /\ rpc[Request] = "unwritten"
           /\ Codex!NotSent(Codex!FinishAttempt(Codex!GiveUp(att)))
  <2>1. runs[att.job] = 0
    BY <1>0, <1>1 DEF NativeInv, NativeWire
  <2>2. ~Codex!FinishAttempt(Codex!GiveUp(att)).active
    BY <1>0, NativeAttempts
  <2> QED  BY <1>0, <1>1, <2>1, <2>2, NativeGivesBack
<1>2. CASE \E a \in {Codex!GiveUp(att), Codex!FinishAttempt(Codex!GiveUp(att))} :
             Codex!DisconnectIfCurrent(a, db, Codex!At("dispatch", "idle"))
  BY <1>0, <1>2, NativeDisconnects
<1> QED
  BY <1>1, <1>2 DEF Codex!TurnStartUnwritten, Codex!TurnStartAmbiguous, Request

\* A cancel is not sent only of a job whose request was not, or which is not
\* withdrawn by it.
LEMMA NativeCancels ==
  ASSUME NativeInv, ~LateCancels, NEW j \in Jobs, Codex!RelayCancel(j)
  PROVE  NativeInv' /\ SessionStep
<1> DEFINE d == WithStatus(db, j, "Cancelling")
           asked == [att EXCEPT !.cancel = TRUE]
<1>0. /\ db \in Db /\ SessionInv /\ pc \in Codex!Control /\ att \in Codex!Attempt
      /\ pc' = pc /\ UNCHANGED <<conn, rpc, lstate, wire, owed, context, events, srv, runs>>
      /\ pc.start = "done" /\ pc.stop = "no" /\ Codex!Harness
      /\ "Cancelling" \in Active /\ "Cancelled" \notin Active \cup {"Queued"} \cup Unknown
      /\ "Queued" \notin Active \cup Unknown
  BY NativeTypes
  DEF Codex!RelayCancel, Codex!Continue, Codex!Harness, Active, Unknown
<1>1. /\ asked \in Codex!Attempt /\ asked.job = att.job /\ asked.active = att.active
      /\ asked.accepted = att.accepted /\ asked.cancel /\ asked.expired = att.expired
  BY <1>0 DEF Codex!Attempt
<1>2. CASE db.status[j] = "Queued" /\ att' = att /\ db' = WithStatus(db, j, "Cancelled")
  <2>1. /\ runs[j] = 0 /\ Leads(db, db', j) /\ db'.status[j] = "Cancelled"
        /\ db'.chk = db.chk /\ db'.bound = db.bound /\ db'.quarantined = db.quarantined
    <3>1. runs[j] = 0 /\ "Cancelled" \in Status
      BY <1>0, <1>2 DEF SessionInv, Status
    <3>2. Edge(db.status[j], "Cancelled", runs[j], db.quarantined)
      BY <1>2, <3>1 DEF Edge
    <3>3. Leads(db, db', j) /\ db'.status[j] = "Cancelled"
      BY <1>0, <1>2, <3>1, <3>2, WriteLeads
    <3> QED  BY <1>0, <1>2, <3>1, <3>3, Writes
  <2>2. SessionStep
    BY <1>0, <2>1 DEF SessionStep, Moves
  <2>3. SessionInv'
    BY <1>0, <2>2, SessionStepKeeps
  <2>4. \A k \in Jobs : db.status[k] # "Queued" => db'.status[k] = db.status[k]
    BY <1>2, <2>1 DEF Leads
  <2>5. \A k \in Jobs : db'.status[k] \in Active => db.status[k] \in Active
    BY <1>0, <2>1 DEF Leads
  <2>6. \A k \in Jobs : db.status[k] \in Active \cup Unknown => db'.status[k] = db.status[k]
    BY <1>0, <2>4
  <2>7. NativeHolds'
    <3>1. pc.dispatch # "idle" \/ pc.event # "idle" \/ att.active => att.job \in Jobs
      BY <1>0 DEF NativeInv, NativeHolds, Codex!Control
    <3>2. att.job \in Jobs => \/ db'.status[att.job] = db.status[att.job]
                              \/ db.status[att.job] = "Queued"
                                 /\ db'.status[att.job] = "Cancelled"
      BY <1>2, <2>1 DEF Leads
    <3> QED
      BY <1>0, <1>2, <2>1, <2>5, <2>6, <3>1, <3>2 DEF NativeInv, NativeHolds
  <2>8. NativeLifecycle' /\ NativeStarts'
    BY <1>0, <1>2, <2>5 DEF NativeInv, NativeLifecycle, NativeStarts, Codex!Current
  <2>9. NativeWire' /\ NativeTail'
    BY <1>0, <1>2, <2>1, <2>6
    DEF NativeInv, NativeWire, NativeTail, TailStored, Codex!Current
  <2> QED  BY <1>0, <1>2, <2>2, <2>3, <2>7, <2>8, <2>9, NativeTypes, NativeMade
<1>3. CASE db.status[j] \in Active
  <2>1. /\ Leads(db, d, j) /\ d.status[j] = "Cancelling" /\ d \in Db /\ d.bound = db.bound
        /\ d.chk = db.chk /\ d.quarantined = db.quarantined
        /\ j = att.job
    <3>1. "Cancelling" \in Status /\ j = att.job
      BY <1>3 DEF NativeInv, NativeHolds, Status, Active
    <3>2. /\ Leads(db, d, j) /\ d.status[j] = "Cancelling" /\ d \in Db
          /\ d.bound = db.bound
      BY <1>0, <1>3, CancellingLeads
    <3>3. d.chk = db.chk /\ d.quarantined = db.quarantined
      BY <1>0, <3>1, Writes
    <3> QED  BY <3>1, <3>2, <3>3
  <2>2. Codex!Current /\ lstate = "running"
    BY <1>0, <1>3
    DEF NativeInv, NativeLifecycle, NativeStarts, Codex!Current
  <2>3. CASE pc.dispatch = "context"
    <3>1. att' = asked /\ db' = FinishUnsentBackendCancellation(d, j)
      BY <1>0, <1>3, <2>1, <2>3, NativeSession DEF Codex!RelayCancel, Codex!Continue
    <3>2. runs[j] = 0 /\ ~att.active /\ pc.event = "idle"
          /\ rpc[Request] \in {"idle", "ok", "unwritten"}
      BY <2>1, <2>3 DEF NativeInv, NativeHolds, NativeWire
    <3>3. /\ Leads(db, db', j) /\ db'.status[j] \notin Active
          /\ db'.chk = db.chk
      BY <1>0, <2>1, <3>1, <3>2, UnsentLeads, LeadsOn, StoreKeeps
    <3>4. SessionStep
      BY <1>0, <3>3 DEF SessionStep, Moves
    <3>5. SessionInv'
      BY <1>0, <3>4, SessionStepKeeps
    <3>6. \A k \in Jobs : db'.status[k] \notin Active
      BY <2>1, <3>3 DEF NativeInv, NativeHolds, Leads
    <3>7. NativeHolds'
      BY <1>0, <1>1, <2>1, <2>3, <3>1, <3>2, <3>6 DEF NativeHolds, Active
    <3>8. NativeLifecycle' /\ NativeStarts'
      BY <1>0, <2>2, <3>6 DEF NativeInv, NativeLifecycle, NativeStarts, Codex!Current
    <3>9. wire = {} /\ owed = {}
      BY <3>2 DEF NativeInv, NativeWire
    <3>10. NativeWire'
      BY <1>0, <2>3, <3>2, <3>9 DEF NativeWire
    <3>11. NativeTail'
      BY <1>0, <2>1, <2>2, <3>2, <3>3 DEF NativeInv, NativeTail, TailStored, Leads, Db
    <3> QED  BY <1>0, <1>1, <3>1, <3>4, <3>5, <3>7, <3>8, <3>10, <3>11, NativeTypes, NativeMade
  <2>4. CASE pc.dispatch # "context" /\ att.active
    <3>1. att' = Codex!Interrupt(asked) /\ db' = d
      BY <1>0, <1>3, <2>1, <2>4, NativeSession DEF Codex!RelayCancel, Codex!Continue
    <3>2. /\ att' \in Codex!Attempt /\ att'.job = att.job /\ att'.active = att.active
          /\ att'.accepted = att.accepted /\ att'.cancel /\ att'.expired = att.expired
      <4> HIDE DEF asked
      <4> QED  BY <1>1, <3>1, NativeAttempts
    <3>3. SessionStep
      BY <1>0, <2>1, <3>1 DEF SessionStep, Moves
    <3>4. SessionInv'
      BY <1>0, <3>3, SessionStepKeeps
    <3>5. /\ db'.status[att.job] = "Cancelling"
          /\ \A k \in Jobs : db'.status[k] \in Active => k = att.job
      BY <2>1, <3>1 DEF NativeInv, NativeHolds, Leads
    <3>6. NativeHolds'
      BY <1>0, <2>1, <2>4, <3>1, <3>2, <3>5 DEF NativeInv, NativeHolds
    <3>7. NativeLifecycle' /\ NativeStarts'
      BY <1>0, <2>2, <2>4, <3>2 DEF NativeInv, NativeLifecycle, NativeStarts, Codex!Current
    <3>8. NativeWire'
      BY <1>0, <3>2, <3>5 DEF NativeInv, NativeWire, Codex!Current
    <3>9. NativeTail'
      BY <1>0, <2>1, <2>2, <3>1, <3>2, <3>5
      DEF NativeInv, NativeTail, TailStored, Codex!Current
    <3> QED  BY <1>0, <3>2, <3>3, <3>4, <3>6, <3>7, <3>8, <3>9, NativeTypes, NativeMade
  <2>5. CASE pc.dispatch # "context" /\ ~att.active
    <3>1. att' = att /\ db' = FinishUnsentBackendCancellation(d, j)
      BY <1>0, <1>3, <2>1, <2>5, NativeSession DEF Codex!RelayCancel, Codex!Continue
    <3>2. pc.event # "idle" /\ db.bound
      BY <1>3, <2>1, <2>2, <2>5 DEF NativeInv, NativeLifecycle, NativeHolds
    <3>3. db' = CancelUnknown(d, j)
      BY <2>1, <3>1, <3>2, StoreKeeps
    <3>4. /\ Leads(d, db', j) /\ db'.status[j] = "CancelUnknown"
          /\ db'.bound = db.bound /\ db'.chk = db.chk
      BY <2>1, <3>3, CancelUnknownLeads, StoreKeeps
    <3>5. Leads(db, db', j)
      BY <1>0, <2>1, <3>4, LeadsOn
    <3>6. SessionStep
      BY <1>0, <3>5 DEF SessionStep, Moves
    <3>7. SessionInv'
      BY <1>0, <3>6, SessionStepKeeps
    <3>8. /\ "CancelUnknown" \in Unknown \ Active
          /\ db'.status[att.job] = "CancelUnknown" /\ db'.quarantined
          /\ \A k \in Jobs : db'.status[k] \notin Active
      BY <2>1, <3>4, <3>5, <3>7
      DEF NativeInv, NativeHolds, Leads, Active, Unknown, SessionInv
    <3>9. NativeHolds'
      BY <1>0, <2>1, <2>5, <3>1, <3>4, <3>8 DEF NativeInv, NativeHolds
    <3>10. NativeLifecycle' /\ NativeStarts' /\ NativeTail'
      BY <1>0, <2>2, <3>8
      DEF NativeInv, NativeLifecycle, NativeStarts, NativeTail, Codex!Current
    <3>11. NativeWire'
      BY <1>0, <3>1, <3>8 DEF NativeInv, NativeWire, Codex!Current
    <3> QED  BY <1>0, <3>1, <3>6, <3>7, <3>9, <3>10, <3>11, NativeTypes, NativeMade
  <2> QED  BY <2>3, <2>4, <2>5
<1>4. db.status[j] \notin Active =>
        db.status[j] = "Queued" /\ att' = att /\ db' = WithStatus(db, j, "Cancelled")
  BY NativeSession DEF Codex!RelayCancel, Codex!Continue
<1> QED  BY <1>2, <1>3, <1>4

\* The tail is recorded, and the job of the turn with it.
LEMMA NativeCheckpoints ==
  ASSUME NativeInv, Codex!TurnCheckpointed
  PROVE  NativeInv' /\ SessionStep
<1> DEFINE d == Codex!Checkpoint(db)
<1>0. /\ db \in Db /\ SessionInv /\ pc \in Codex!Control /\ att \in Codex!Attempt
      /\ UNCHANGED <<wire, owed, context, srv, runs>> /\ pc.event # "idle"
      /\ srv \in NativeServers /\ srv.turn = "none" /\ ~db.quarantined
      /\ db.status[att.job] \in Active /\ events \in Seq(Codex!Note)
      /\ att.job \in Jobs /\ runs[att.job] = 1 /\ ~att.active /\ pc.dispatch = "idle"
  BY NativeTypes, NativeSession
  DEF Codex!TurnCheckpointed, Codex!TailConfirmed, Codex!MayCheckpoint, NativeInv,
      NativeHolds, MayCheckpoint, Codex!Control
<1>1. /\ d \in Db /\ d.status = db.status /\ d.quarantined = db.quarantined
      /\ d.bound = db.bound /\ d.chk = [n |-> srv.n, last |-> srv.last]
      /\ Leads(db, d, att.job)
  <2>1. /\ d \in Db /\ d.status = db.status /\ d.quarantined = db.quarantined
        /\ d.bound = db.bound /\ d.chk = [n |-> srv.n, last |-> srv.last]
    BY <1>0 DEF Codex!Checkpoint, Db, NativeServers
  <2> QED  BY <2>1 DEF Leads, Edge
<1>2. events' \in Seq(Codex!Note) /\ events' = Tail(events)
  <2>1. events # <<>> /\ events' = Tail(events)
    BY <1>0
    DEF Codex!TurnCheckpointed, Codex!EndsWith, Codex!Done, Codex!Throw, Codex!Pop, NativeInv,
        NativeHolds
  <2> QED  BY <1>0, <2>1, NativeTailOf
<1>3. /\ Codex!At("event", "idle") \in Codex!Control
      /\ Codex!At("event", "idle").dispatch = pc.dispatch
      /\ Codex!At("event", "idle").event = "idle"
      /\ Codex!At("event", "idle").start = pc.start
      /\ Codex!At("event", "idle").stop = pc.stop
  BY <1>0, NativeAt
<1>4. CASE /\ att' = att /\ pc' = Codex!At("event", "idle")
           /\ UNCHANGED <<conn, rpc, lstate>>
           /\ \/ db' = CancelUnknown(d, att.job) /\ pc.event = "cancelled"
              \/ \E st \in Answered : db' = WithStatus(d, att.job, st)
  <2>1. /\ Leads(d, db', att.job) /\ db'.status[att.job] \notin Active
        /\ db'.chk = d.chk
    <3>1. CASE db' = CancelUnknown(d, att.job) /\ pc.event = "cancelled"
      <4>1. d.status[att.job] = "Cancelling"
        BY <1>0, <1>1, <3>1 DEF NativeInv, NativeHolds, Active
      <4> QED  BY <1>0, <1>1, <3>1, <4>1, CancelUnknownLeads, StoreKeeps DEF Active
    <3>2. CASE \E st \in Answered : db' = WithStatus(d, att.job, st)
      <4>1. PICK st \in Answered : db' = WithStatus(d, att.job, st)
        BY <3>2
      <4>2. st \in Status /\ st \notin Active
        BY DEF Answered, Status, Active
      <4>3. Edge(d.status[att.job], st, runs[att.job], d.quarantined)
        BY <1>0, <1>1, <4>1 DEF Edge
      <4>4. d \in Db /\ att.job \in Jobs
        BY <1>0, <1>1
      <4> HIDE DEF d
      <4>5. Leads(d, db', att.job) /\ db'.status[att.job] = st
        BY <4>1, <4>2, <4>3, <4>4, WriteLeads
      <4>6. db'.chk = d.chk
        BY <4>1, <4>2, <4>4, Writes
      <4> QED  BY <4>2, <4>5, <4>6
    <3> QED  BY <1>4, <3>1, <3>2
  <2>2. Leads(db, db', att.job)
    <3> HIDE DEF d
    <3> QED  BY <1>0, <1>1, <2>1, LeadsOn
  <2>3. SessionStep
    BY <1>0, <2>2 DEF SessionStep, Moves
  <2>4. SessionInv'
    BY <1>0, <2>3, SessionStepKeeps
  <2>5. \A k \in Jobs : db'.status[k] \notin Active
    BY <2>1, <2>2 DEF NativeInv, NativeHolds, Leads
  <2>6. TailStored'
    BY <1>0, <1>1, <2>1 DEF TailStored
  <2>7. NativeHolds'
    BY <1>0, <1>3, <1>4, <2>5 DEF NativeHolds
  <2>8. NativeLifecycle' /\ NativeStarts' /\ NativeTail'
    BY <1>0, <1>3, <1>4, <2>5, <2>6
    DEF NativeInv, NativeLifecycle, NativeStarts, NativeTail, Codex!Current
  <2>9. Request \notin wire
    BY <1>0 DEF NativeInv, NativeWire
  <2>10. NativeWire'
    BY <1>0, <1>3, <1>4, <2>9 DEF NativeInv, NativeWire, Codex!Current
  <2> QED
    BY <1>0, <1>2, <1>3, <1>4, <2>3, <2>4, <2>7, <2>8, <2>10, NativeTypes, NativeMade
<1>5. CASE Codex!DisconnectIfCurrent(att, d, Codex!At("event", "idle"))
  <2>1. CASE Codex!Current
    <3>1. /\ lstate' = "disconnected" /\ att' = Codex!GiveUp(att)
          /\ pc' = Codex!At("event", "idle")
          /\ db' = MarkBackendDisconnected(d) /\ Codex!CloseClient
      BY <1>5, <2>1, NativeSession DEF Codex!DisconnectIfCurrent, Codex!Disconnected
    <3>2. /\ Leads(d, db', att.job) /\ \A k \in Jobs : db'.status[k] \notin Active
          /\ db'.status[att.job] \in Unknown
      <4>1. \A k \in Jobs \ {att.job} : d.status[k] \notin Active
        BY <1>1 DEF NativeInv, NativeHolds
      <4> HIDE DEF d
      <4> QED  BY <1>0, <1>1, <3>1, <4>1, DisconnectedLeads DEF Unknown, Active
    <3>3. Leads(db, db', att.job)
      <4> HIDE DEF d
      <4> QED  BY <1>0, <1>1, <3>2, LeadsOn
    <3>4. SessionStep
      BY <1>0, <3>3 DEF SessionStep, Moves
    <3>5. SessionInv'
      BY <1>0, <3>4, SessionStepKeeps
    <3>6. /\ att' \in Codex!Attempt /\ att'.job = att.job /\ ~att'.active
      BY <1>0, <3>1, NativeAttempts
    <3>7. NativeRequestLost
      BY <1>0, <3>1, NativeTypes, NativeLost
    <3>8. NativeHolds'
      BY <1>0, <1>3, <3>1, <3>2, <3>6 DEF NativeHolds
    <3>9. NativeLifecycle' /\ NativeStarts' /\ NativeTail' /\ lstate' \in NativeLifecycles
      <4>1. NativeLifecycle' /\ NativeTail' /\ lstate' \in NativeLifecycles
        BY <3>1, <3>2 DEF NativeLifecycle, NativeTail, Codex!Current, NativeLifecycles
      <4>2. NativeStarts'
        BY <1>3, <2>1, <3>1 DEF NativeInv, NativeStarts, Codex!Current
      <4> QED  BY <4>1, <4>2
    <3>10. /\ Request \notin wire /\ Request \notin wire'
           /\ rpc[Request] \notin {"queued", "written"}
      BY <1>0, <3>7 DEF NativeInv, NativeWire, NativeRequestLost
    <3>11. NativeWire'
      BY <1>0, <1>3, <3>1, <3>6, <3>7, <3>10
      DEF NativeInv, NativeWire, NativeRequestLost, Codex!Current
    <3> QED
      BY <1>0, <1>2, <1>3, <3>1, <3>4, <3>5, <3>6, <3>7, <3>8, <3>9, <3>11, NativeTypes,
         NativeMade
      DEF NativeRequestLost
  <2>2. CASE ~Codex!Current
    <3>1. /\ att' = att /\ pc' = Codex!At("event", "idle") /\ db' = d
          /\ UNCHANGED <<conn, rpc, lstate>>
      BY <1>5, <2>2 DEF Codex!DisconnectIfCurrent, Codex!Continue
    <3>2. SessionStep
      BY <1>0, <1>1, <3>1 DEF SessionStep, Moves
    <3>3. SessionInv'
      BY <1>0, <3>2, SessionStepKeeps
    <3>4. NativeHolds'
      BY <1>0, <1>1, <1>3, <3>1 DEF NativeInv, NativeHolds
    <3>5. NativeLifecycle' /\ NativeStarts' /\ NativeTail'
      BY <1>0, <1>1, <1>3, <2>2, <3>1
      DEF NativeInv, NativeLifecycle, NativeStarts, NativeTail, Codex!Current
    <3>6. NativeWire'
      BY <1>0, <1>1, <1>3, <2>2, <3>1 DEF NativeInv, NativeWire, Codex!Current
    <3> QED  BY <1>0, <1>2, <1>3, <3>1, <3>2, <3>3, <3>4, <3>5, <3>6, NativeTypes, NativeMade
  <2> QED  BY <2>1, <2>2
<1> QED
  <2>1. "Succeeded" \in Answered /\ "Failed" \in Answered
    BY DEF Answered
  <2> QED
    BY <1>4, <1>5, <2>1, NativeSession
    DEF Codex!TurnCheckpointed, Codex!EndsWith, Codex!Done, Codex!Throw, Codex!Continue

\* Every step of the native Codex backend keeps its invariant and is a step of
\* the session, as long as nothing is cancelled after stop() was called.
LEMMA NativeKeeps ==
  ASSUME NativeInv, ~LateCancels, Codex!Next
  PROVE  NativeInv' /\ SessionStep
<1>1. ASSUME NEW j \in Jobs, Codex!Dispatch(j) \/ Codex!RelayCancel(j)
      PROVE  NativeInv' /\ SessionStep
  BY <1>1, NativeDispatches, NativeCancels
<1>2. CASE Codex!DispatchStep
  BY <1>2, NativeSynced, NativeAccepts, NativeFails DEF Codex!DispatchStep
<1>3. CASE Codex!EventStep
  BY <1>3, NativeHears, NativeCheckpoints DEF Codex!EventStep
<1>4. CASE Codex!DeadlineStep \/ Codex!InterruptSettles
  BY <1>4, NativeInterrupts DEF Codex!DeadlineStep
<1>5. CASE Codex!StartStep
  BY <1>5, NativeStartsProcess, NativeStartsThread, NativeStartsUp DEF Codex!StartStep
<1>6. CASE Codex!Stop \/ Codex!StopStep
  BY <1>6, NativeStops
<1>7. CASE Codex!ServerStep \/ Codex!TimeOutRequest \/ Codex!ConfirmClose
  BY <1>7, NativeWrites, NativeReads, NativeAnswers, NativeSays, NativeEndsTurn,
     NativeTransport, NativeExits
  DEF Codex!ServerStep
<1> QED  BY <1>1, <1>2, <1>3, <1>4, <1>5, <1>6, <1>7 DEF Codex!Next

LEMMA NativeBegins ==
  ASSUME Codex!Init
  PROVE  NativeInv /\ Promise!Init
<1>1. SessionInv /\ Promise!Init /\ \A j \in Jobs : db.status[j] \notin Active
  BY SessionBegins, NativeSession DEF Codex!Init
<1>2. Codex!TypeOK
  <2>1. Codex!SessionTypeOK
    BY <1>1, NativeSession DEF SessionInv
  <2>2. Codex!ClientTypeOK
    BY DEF Codex!Init, Codex!ClientInit, Codex!ClientTypeOK, Codex!ConnState, Codex!RpcState
  <2>3. att \in Codex!Attempt
    BY NativeSession DEF Codex!Init, Codex!NewAttempt, Codex!Attempt
  <2>4. pc \in Codex!Control
    BY DEF Codex!Init, Codex!Control
  <2>5. /\ context \in BOOLEAN /\ lstate \in NativeLifecycles /\ events \in Seq(Codex!Note)
        /\ srv \in NativeServers
    BY DEF Codex!Init, NativeLifecycles, NativeServers, TurnStatus
  <2> QED
    BY <2>1, <2>2, <2>3, <2>4, <2>5
    DEF Codex!TypeOK, NativeLifecycles, NativeServers, Codex!TurnStatus, TurnStatus
<1>3. NativeHolds
  BY <1>1 DEF Codex!Init, Codex!NewAttempt, NativeHolds
<1>4. NativeLifecycle /\ NativeStarts /\ NativeWire /\ NativeTail
  BY <1>1
  DEF Codex!Init, Codex!ClientInit, Codex!NewAttempt, NativeLifecycle, NativeStarts,
      NativeWire, NativeTail, Request, Codex!Current
<1> QED  BY <1>1, <1>2, <1>3, <1>4 DEF NativeInv

-----------------------------------------------------------------------------
(* The Codex backend with a private key.                                   *)

UpStates == {"running", "broken", "exited"}
GoneStates == {"none", "closed", "unconfirmed"}
Endings == {"completed", "failed", "rejected", "interrupted"}

\* Who holds the job that is active, and what the attempt knows of it.  One
\* that is active without an attempt was not sent, and its claim is about to be
\* undone, or its client's close could not be confirmed.
PrivateHolds ==
  /\ \A j \in Jobs : db.status[j] \in Active => j = att.job
  /\ att.active \/ att.cancel \/ pc.dispatch # "idle" \/ pc.event # "idle"
       \/ pc.cancel # "idle" => att.job \in Jobs
  /\ att.active => db.status[att.job] \in Active \cup Unknown
  /\ att.active /\ att.terminal => disc # "none"
  /\ att.ready = "rejected" /\ ~att.ambiguous => ~att.active
  /\ att.cancel => db.status[att.job] \notin {"Dispatching", "Running"}
  /\ att.job \in Jobs /\ db.status[att.job] = "Running" => runs[att.job] = 1
  /\ att.job \in Jobs /\ db.status[att.job] \in Active /\ ~att.active =>
       runs[att.job] = 0 /\ (pc.dispatch # "idle" \/ cleanup)
  /\ disc # "none" => \A j \in Jobs : db.status[j] \notin Active
  /\ pc.dispatch \in {"account", "tail", "start"} => att.active /\ ~att.turn
  /\ pc.dispatch \in {"notSent", "disabling"} => ~att.active /\ runs[att.job] = 0

\* What is in the pipe, and what the answer proves.
PrivateWire ==
  /\ ~att.active => wire = {} /\ owed = {}
  /\ Request \in wire => runs[att.job] = 0
  /\ Request \in owed => runs[att.job] = 1
  /\ rpc[Request] \notin {"written", "unknown"} => wire = {} /\ owed = {}
  /\ rpc[Request] \in {"queued", "written"} => pc.dispatch = "start"
  /\ pc.dispatch \in {"account", "tail"} => rpc[Request] = "idle" /\ runs[att.job] = 0
  /\ pc.dispatch = "start" /\ rpc[Request] \in {"queued", "unwritten"} => runs[att.job] = 0
  /\ pc.dispatch = "start" /\ rpc[Request] = "ok" => runs[att.job] = 1
  /\ att.active /\ att.turn => rpc[Request] = "ok" /\ runs[att.job] = 1

\* A turn says how it ended last.
EndsOnce(s) ==
  \A i \in 1..Len(s) : s[i] \in Endings => i = Len(s) /\ srv.turn = "none"

\* Until the backend is disconnected the queue is that of the attempt's turn,
\* its acceptance first, and an idle backend has nothing to process.
PrivateQueue ==
  /\ pc.event # "idle" => events # <<>>
  /\ disc = "none" =>
       /\ att.active => IF att.turn THEN EndsOnce(events)
                        ELSE events = <<>> /\ EndsOnce(att.buffer)
       /\ att.active /\ runs[att.job] = 0 => srv.turn = "none" /\ att.buffer = <<>>
       /\ ~att.active /\ bstate \in {"running", "recovering"} => events = <<>>
       /\ \A i \in 1..Len(events) : events[i] = "accepted" =>
            i = 1 /\ pc.event = "idle" /\ att.active /\ att.turn
       /\ pc.event \notin {"idle", "disabling"} => att.active /\ att.turn
       /\ pc.event \in {"cancelled", "completed", "failed", "rejected"} =>
            Head(events) \in Endings
       /\ pc.event = "cancelled" => att.cancel

\* The thread has no turn beyond the checkpoint, or that of the claimed job.
PrivateTail ==
  disc = "none" /\ bstate \in {"running", "recovering"} /\ ~db.quarantined =>
    TailStored \/ (att.active /\ runs[att.job] = 1)

\* The lifecycle: whose the process is, and what is over when stop() returns.
PrivateLife ==
  /\ disc # "none" => bstate \in {"failed", "stopping", "stopped"}
  /\ bstate = "recovering" => ~att.active
  /\ conn \in UpStates => held \/ pc.recovery = "spawned"
  /\ pc.recovery \in {"closing", "delay"} => tries < MaxTries
  /\ pc.recovery \in {"delay", "probe"} => ~held
  /\ pc.start \in {"idle", "starting", "thread"} =>
       /\ bstate \in {"idle", "starting"} /\ disc = "none" /\ ~att.active /\ events = <<>>
       /\ \A a \in {"dispatch", "cancel", "event", "deadline", "recovery"} : pc[a] = "idle"
  /\ pc.stop # "no" =>
       /\ pc.start \in {"done", "failed"} /\ bstate \in {"failed", "stopping", "stopped"}
       /\ att.active => disc # "none"
  /\ pc.stop \in {"late", "stopped"} => ~held /\ pc.recovery = "idle"
  /\ pc.stop = "stopped" =>
       conn \in GoneStates /\ (conn = "unconfirmed" => cleanup /\ db.quarantined)

PrivateInv ==
  /\ Private!TypeOK /\ SessionInv /\ PrivateHolds /\ PrivateWire /\ PrivateQueue
  /\ PrivateTail /\ PrivateLife

\* The session's operators, as CodexTurn has them.
LEMMA PrivateSession ==
  /\ Private!Active = Active /\ Private!NoJob = NoJob
  /\ Private!SessionTypeOK <=> SessionTypeOK
  /\ Private!SessionInit <=> SessionInit
  /\ \A j : Private!Claimable(j) <=> Claimable(j)
  /\ \A d : Private!NoActiveJob(d) <=> NoActiveJob(d)
  /\ \A d, j, st : Private!WithStatus(d, j, st) = WithStatus(d, j, st)
  /\ \A d : Private!Quarantine(d) = Quarantine(d)
  /\ \A d, j : Private!ClaimForBackendDispatch(d, j) = ClaimForBackendDispatch(d, j)
  /\ \A d, j : Private!ResetUnsentExecution(d, j) = ResetUnsentExecution(d, j)
  /\ \A d, j : Private!MayAccept(d, j) <=> MayAccept(d, j)
  /\ \A d, j : Private!MayCheckpoint(d, j) <=> MayCheckpoint(d, j)
  /\ \A d, j : Private!MarkBackendRunning(d, j) = MarkBackendRunning(d, j)
  /\ \A d, j : Private!CancelUnknown(d, j) = CancelUnknown(d, j)
  /\ \A d, j : Private!FinishUnsentBackendCancellation(d, j)
                 = FinishUnsentBackendCancellation(d, j)
  /\ \A d : Private!MarkBackendDisconnected(d) = MarkBackendDisconnected(d)
<1>1. Private!Active = Active /\ Private!NoJob = NoJob
  BY DEF Private!Active, Active, Private!NoJob, NoJob
<1>2. Private!SessionTypeOK <=> SessionTypeOK
  BY DEF Private!SessionTypeOK, SessionTypeOK, Private!Status, Status, Private!Active,
     Active, Private!TurnStatus, TurnStatus
<1>3. Private!SessionInit <=> SessionInit
  BY DEF Private!SessionInit, SessionInit
<1>4. \A d, j, st : Private!WithStatus(d, j, st) = WithStatus(d, j, st)
  BY DEF Private!WithStatus, WithStatus
<1>5. \A d : Private!Quarantine(d) = Quarantine(d)
  BY DEF Private!Quarantine, Quarantine
<1>6. \A d, j : Private!ClaimForBackendDispatch(d, j) = ClaimForBackendDispatch(d, j)
  BY DEF Private!ClaimForBackendDispatch, ClaimForBackendDispatch
<1>7. \A d, j : Private!ResetUnsentExecution(d, j) = ResetUnsentExecution(d, j)
  BY <1>4 DEF Private!ResetUnsentExecution, ResetUnsentExecution
<1>8. /\ \A d, j : Private!MayAccept(d, j) <=> MayAccept(d, j)
      /\ \A d, j : Private!MayCheckpoint(d, j) <=> MayCheckpoint(d, j)
  BY <1>1 DEF Private!MayAccept, MayAccept, Private!MayCheckpoint, MayCheckpoint
<1>9. \A d, j : Private!MarkBackendRunning(d, j) = MarkBackendRunning(d, j)
  BY DEF Private!MarkBackendRunning, MarkBackendRunning
<1>10. \A d, j : Private!CancelUnknown(d, j) = CancelUnknown(d, j)
  BY <1>4, <1>5 DEF Private!CancelUnknown, CancelUnknown
<1>11. \A d, j : Private!FinishUnsentBackendCancellation(d, j)
                   = FinishUnsentBackendCancellation(d, j)
  BY <1>4, <1>10
  DEF Private!FinishUnsentBackendCancellation, FinishUnsentBackendCancellation
<1>12. \A d : Private!NoActiveJob(d) <=> NoActiveJob(d)
  BY <1>1 DEF Private!NoActiveJob, NoActiveJob
<1>13. \A j : Private!Claimable(j) <=> Claimable(j)
  BY <1>12 DEF Private!Claimable, Claimable
<1>14. \A d : Private!MarkBackendDisconnected(d) = MarkBackendDisconnected(d)
  BY DEF Private!MarkBackendDisconnected, MarkBackendDisconnected, Private!NoActiveJob,
     NoActiveJob, Private!Active, Active
<1> QED  BY <1>1, <1>2, <1>3, <1>4, <1>5, <1>6, <1>7, <1>8, <1>9, <1>10, <1>11, <1>12,
            <1>13, <1>14

\* The parts of the state.
PrivateStates == {"idle", "starting", "recovering", "running", "stopping", "stopped",
                  "failed"}
PrivateServers == [turn : {"none", "running"}, said : BOOLEAN, n : Nat,
                   last : TurnStatus, sys : BOOLEAN]
PrivateEvents == Private!Note \cup {"accepted"}

PrivateParts ==
  /\ conn \in Private!ConnState /\ rpc \in [{Request} -> Private!RpcState]
  /\ wire \in SUBSET {Request} /\ owed \in SUBSET {Request}
  /\ bstate \in PrivateStates /\ held \in BOOLEAN
  /\ disc \in {"none", "closing", "done", "failed"}
  /\ cleanup \in BOOLEAN /\ marker \in BOOLEAN /\ tries \in 0..MaxTries
  /\ att \in Private!Attempt /\ events \in Seq(PrivateEvents) /\ pc \in Private!Control
  /\ srv \in PrivateServers

LEMMA PrivateTypes ==
  ASSUME PrivateInv
  PROVE  PrivateParts /\ db \in Db /\ runs \in [Jobs -> Nat] /\ SessionInv
BY SessionTypes
DEF PrivateInv, SessionInv, PrivateParts, Private!TypeOK, Private!ClientTypeOK,
    PrivateStates, PrivateServers, PrivateEvents, Request, Private!TurnStatus, TurnStatus

LEMMA PrivateMade ==
  ASSUME SessionInv', PrivateHolds', PrivateWire', PrivateQueue', PrivateTail',
         PrivateLife', PrivateParts'
  PROVE  PrivateInv'
<1>1. Private!SessionTypeOK'
  BY DEF SessionInv, SessionTypeOK, Private!SessionTypeOK, Private!Status, Status,
     Private!Active, Active, Private!TurnStatus, TurnStatus
<1>2. Private!ClientTypeOK'
  BY DEF PrivateParts, Private!ClientTypeOK, Request
<1>3. Private!TypeOK'
  BY <1>1, <1>2
  DEF PrivateParts, Private!TypeOK, PrivateStates, PrivateServers, PrivateEvents,
      Private!TurnStatus, TurnStatus
<1> QED  BY <1>3 DEF PrivateInv

\* The place of one activity changes.
Activities == {"dispatch", "cancel", "event", "deadline", "recovery", "start", "stop"}

LEMMA PrivateAt ==
  ASSUME pc \in Private!Control, NEW p
  PROVE  /\ \A a, b \in Activities :
              Private!At(a, p)[b] = IF a = b THEN p ELSE pc[b]
         /\ p \in {"idle", "account", "tail", "start", "disabling", "notSent"} =>
              Private!At("dispatch", p) \in Private!Control
         /\ p \in {"idle", "waitTurn", "layout", "interrupt"} =>
              Private!At("cancel", p) \in Private!Control
         /\ p \in {"idle", "layout", "cancelled", "completed", "failed", "rejected",
                   "disabling", "grace"} => Private!At("event", p) \in Private!Control
         /\ p \in {"idle", "layout", "interrupt"} =>
              Private!At("deadline", p) \in Private!Control
         /\ p \in {"idle", "closing", "delay", "probe", "spawned", "candidate", "drifted",
                   "retry", "handover"} => Private!At("recovery", p) \in Private!Control
         /\ p \in {"idle", "starting", "thread", "handover", "closing", "done", "failed"} =>
              Private!At("start", p) \in Private!Control
         /\ p \in {"no", "settling", "late", "stopped"} =>
              Private!At("stop", p) \in Private!Control
<1>1. \A a, b \in Activities : Private!At(a, p)[b] = IF a = b THEN p ELSE pc[b]
  BY DEF Private!At, Private!Control, Activities
<1>2. /\ p \in {"idle", "account", "tail", "start", "disabling", "notSent"} =>
           Private!At("dispatch", p) \in Private!Control
      /\ p \in {"idle", "waitTurn", "layout", "interrupt"} =>
           Private!At("cancel", p) \in Private!Control
  BY DEF Private!At, Private!Control
<1>3. /\ p \in {"idle", "layout", "cancelled", "completed", "failed", "rejected",
                "disabling", "grace"} => Private!At("event", p) \in Private!Control
      /\ p \in {"idle", "layout", "interrupt"} =>
           Private!At("deadline", p) \in Private!Control
  BY DEF Private!At, Private!Control
<1>4. p \in {"idle", "closing", "delay", "probe", "spawned", "candidate", "drifted",
             "retry", "handover"} => Private!At("recovery", p) \in Private!Control
  BY DEF Private!At, Private!Control
<1>5. /\ p \in {"idle", "starting", "thread", "handover", "closing", "done", "failed"} =>
           Private!At("start", p) \in Private!Control
      /\ p \in {"no", "settling", "late", "stopped"} =>
           Private!At("stop", p) \in Private!Control
  BY DEF Private!At, Private!Control
<1> QED  BY <1>1, <1>2, <1>3, <1>4, <1>5

\* The client's last request is settled, or lost with the process.
PrivateRequestLost ==
  /\ conn' \in Private!ConnState /\ rpc' \in [{Request} -> Private!RpcState]
  /\ \/ rpc'[Request] = rpc[Request]
     \/ rpc[Request] \in {"queued", "written"} /\ rpc'[Request] = "unknown"
     \/ rpc[Request] = "queued" /\ rpc'[Request] = "unwritten"
  /\ \/ wire' = wire /\ owed' = owed
     \/ wire' = {} /\ owed' = {}

LEMMA PrivateLost ==
  ASSUME conn \in Private!ConnState, rpc \in [{Request} -> Private!RpcState]
  PROVE  /\ UNCHANGED <<conn, rpc, wire, owed>> => PrivateRequestLost
         /\ Private!CloseClient /\ UNCHANGED <<wire, owed>> => PrivateRequestLost
         /\ Private!CloseClient => conn' = IF conn \in UpStates THEN "closing" ELSE conn
         /\ \A next \in {"closing", "exited"} : Private!HandleExit(next) => PrivateRequestLost
         /\ Private!FailTransport => PrivateRequestLost
         /\ Private!AwaitCloseReceipt => PrivateRequestLost
         /\ Private!RequestTimeout(Request) => PrivateRequestLost
<1>1. UNCHANGED <<conn, rpc, wire, owed>> => PrivateRequestLost
  BY DEF PrivateRequestLost
<1>2. /\ Private!RejectAll \in [{Request} -> Private!RpcState]
      /\ Private!RejectAll[Request] =
           IF rpc[Request] \in {"queued", "written"} THEN "unknown" ELSE rpc[Request]
  BY DEF Private!RejectAll, Request, Private!RpcState
<1>3. /\ Private!RejectAllForTransport \in [{Request} -> Private!RpcState]
      /\ Private!RejectAllForTransport[Request] =
           IF rpc[Request] = "queued" THEN "unwritten"
           ELSE IF rpc[Request] = "written" THEN "unknown" ELSE rpc[Request]
  BY DEF Private!RejectAllForTransport, Request, Private!RpcState
<1>4. /\ Private!CloseClient /\ UNCHANGED <<wire, owed>> => PrivateRequestLost
      /\ Private!CloseClient => conn' = IF conn \in UpStates THEN "closing" ELSE conn
  BY <1>2 DEF Private!CloseClient, PrivateRequestLost, Private!ConnState, UpStates
<1>5. \A next \in {"closing", "exited"} : Private!HandleExit(next) => PrivateRequestLost
  BY <1>3 DEF Private!HandleExit, PrivateRequestLost, Private!ConnState
<1>6. Private!FailTransport => PrivateRequestLost
  BY <1>3 DEF Private!FailTransport, PrivateRequestLost, Private!ConnState
<1>7. Private!AwaitCloseReceipt => PrivateRequestLost
  BY DEF Private!AwaitCloseReceipt, PrivateRequestLost, Private!ConnState
<1>8. Private!RequestTimeout(Request) => PrivateRequestLost
  BY DEF Private!RequestTimeout, PrivateRequestLost, Private!RpcState
<1> QED  BY <1>1, <1>4, <1>5, <1>6, <1>7, <1>8

\* What the attempt and the store become in a step that neither dispatches a
\* job nor ends its attempt: the attempt may be cancelled, be interrupted,
\* time out or lose what it has heard.
PrivateFades(a) ==
  /\ a \in Private!Attempt
  /\ a.job = att.job /\ a.active = att.active /\ a.turn = att.turn
  /\ att.cancel => a.cancel
  /\ a.ready = "rejected" /\ ~a.ambiguous => att.ready = "rejected" /\ ~att.ambiguous
  /\ a.buffer \in {att.buffer, <<>>}

PrivateRecords(a, d) ==
  /\ \E j \in Jobs \cup {NoJob} : Leads(db, d, j)
  /\ \A j \in Jobs : d.status[j] \in Active => db.status[j] \in Active
  /\ att.active => d.status[att.job] \in Active \cup Unknown
  /\ att.job \in Jobs /\ d.status[att.job] = "Running" => runs[att.job] = 1
  /\ a.cancel => att.job \in Jobs /\ d.status[att.job] \notin {"Dispatching", "Running"}
  /\ d.chk = db.chk \/ (srv.turn = "none" /\ d.chk = [n |-> srv.n, last |-> srv.last])

\* Where its activities go from here.
PrivateMovesOn(p) ==
  /\ p \in Private!Control
  /\ p.cancel # "idle" => att.job \in Jobs
  /\ \/ p.dispatch = pc.dispatch
     \/ p.dispatch = "tail" /\ pc.dispatch = "account"
     \/ p.dispatch = "idle" /\ rpc[Request] \notin {"queued", "written"}

\* What the queue of events may do, and where its process goes.
PrivateQueueMoves(p) ==
  /\ \/ events' = events
     \/ p.event = "idle" /\ events # <<>> /\ events' = Tail(events)
     \/ p.event = "idle" /\ events' = <<>>
  /\ p.event \notin {"idle", pc.event} =>
       /\ events # <<>> /\ att.job \in Jobs
       /\ disc' = "none" =>
            /\ p.event # "disabling" /\ att.active /\ att.turn
            /\ \A i \in 1..Len(events) : events[i] # "accepted"
            /\ p.event # "grace" => p.event = "layout" \/ Head(events) \in Endings
            /\ p.event = "cancelled" => att'.cancel

\* The server: its turn may end, or say something the queue does not hear of.
PrivateServerMoves ==
  /\ srv' \in PrivateServers
  /\ \/ srv.turn = "running"
     \/ srv'.n = srv.n /\ srv'.last = srv.last /\ srv'.turn = "none"

LEMMA TailsOf ==
  ASSUME NEW S, NEW s \in Seq(S), s # <<>>
  PROVE  /\ Tail(s) \in Seq(S) /\ Head(s) = s[1] /\ Head(s) \in S
         /\ Len(s) \in Nat \ {0} /\ Len(Tail(s)) = Len(s) - 1
         /\ \A i \in 1..Len(Tail(s)) : i + 1 \in 1..Len(s) /\ Tail(s)[i] = s[i + 1]
BY HeadTailProperties

\* A step that neither dispatches a job nor ends its attempt.
LEMMA PrivateSettles ==
  ASSUME PrivateInv, PrivateLife', PrivateParts', runs' = runs,
         PrivateFades(att'), PrivateRecords(att', db'), PrivateMovesOn(pc'),
         PrivateQueueMoves(pc'), PrivateServerMoves,
         \/ PrivateRequestLost
         \/ ~att.active /\ rpc'[Request] = "idle" /\ wire' = {} /\ owed' = {},
         att'.active /\ att'.terminal => disc' # "none",
         disc' = "none" => disc = "none",
         disc' # "none" => \A j \in Jobs : db'.status[j] \notin Active,
         cleanup => cleanup',
         pc'.dispatch = "idle" /\ pc.dispatch # "idle" =>
           att.active \/ cleanup' \/ db'.status[att.job] \notin Active,
         bstate' \in {"running", "recovering"} =>
           bstate \in {"running", "recovering"} \/ (events = <<>> /\ TailStored)
  PROVE  PrivateInv' /\ SessionStep
<1>0. /\ PrivateParts /\ db \in Db /\ SessionInv /\ runs \in [Jobs -> Nat]
      /\ PrivateHolds /\ PrivateWire /\ PrivateQueue /\ PrivateTail
  BY PrivateTypes DEF PrivateInv
<1>1. SessionStep
  BY DEF SessionStep, Moves, PrivateRecords
<1>2. SessionInv'
  BY <1>0, <1>1, SessionStepKeeps
<1>3. db.quarantined => db'.quarantined
  BY DEF PrivateRecords, Leads
<1>4. PrivateHolds'
  <2>1. \A j \in Jobs : db'.status[j] \in Active => j = att'.job
    BY <1>0 DEF PrivateHolds, PrivateFades, PrivateRecords
  <2>2. att'.active \/ att'.cancel \/ pc'.dispatch # "idle" \/ pc'.event # "idle"
          \/ pc'.cancel # "idle" => att'.job \in Jobs
    <3>1. pc'.event # "idle" => att.job \in Jobs
      BY <1>0 DEF PrivateHolds, PrivateQueueMoves
    <3>2. pc'.dispatch # "idle" => att.job \in Jobs
      BY <1>0 DEF PrivateHolds, PrivateMovesOn
    <3>3. att'.cancel => att.job \in Jobs
      BY DEF PrivateRecords
    <3>4. att'.job = att.job /\ att'.active = att.active
      BY DEF PrivateFades
    <3> QED  BY <1>0, <3>1, <3>2, <3>3, <3>4 DEF PrivateHolds, PrivateMovesOn
  <2>3. att'.active => db'.status[att'.job] \in Active \cup Unknown
    BY DEF PrivateFades, PrivateRecords
  <2>4. att'.ready = "rejected" /\ ~att'.ambiguous => ~att'.active
    BY <1>0 DEF PrivateHolds, PrivateFades
  <2>5. att'.cancel => db'.status[att'.job] \notin {"Dispatching", "Running"}
    BY DEF PrivateFades, PrivateRecords
  <2>6. att'.job \in Jobs /\ db'.status[att'.job] = "Running" => runs'[att'.job] = 1
    BY DEF PrivateFades, PrivateRecords
  <2>7. att'.job \in Jobs /\ db'.status[att'.job] \in Active /\ ~att'.active =>
          runs'[att'.job] = 0 /\ (pc'.dispatch # "idle" \/ cleanup')
    BY <1>0 DEF PrivateHolds, PrivateFades, PrivateRecords, PrivateMovesOn
  <2>8. /\ pc'.dispatch \in {"account", "tail", "start"} => att'.active /\ ~att'.turn
        /\ pc'.dispatch \in {"notSent", "disabling"} => ~att'.active /\ runs'[att'.job] = 0
    BY <1>0 DEF PrivateHolds, PrivateFades, PrivateMovesOn
  <2> QED  BY <2>1, <2>2, <2>3, <2>4, <2>5, <2>6, <2>7, <2>8 DEF PrivateHolds
<1>5. PrivateWire'
  <2>1. /\ att'.active = att.active /\ att'.job = att.job /\ att'.turn = att.turn
        /\ \/ pc'.dispatch = pc.dispatch
           \/ pc'.dispatch = "tail" /\ pc.dispatch = "account"
           \/ pc'.dispatch = "idle" /\ rpc[Request] \notin {"queued", "written"}
    BY DEF PrivateFades, PrivateMovesOn
  <2>2. CASE PrivateRequestLost
    BY <1>0, <2>1, <2>2 DEF PrivateWire, PrivateRequestLost
  <2>3. CASE ~att.active /\ rpc'[Request] = "idle" /\ wire' = {} /\ owed' = {}
    BY <1>0, <2>1, <2>3 DEF PrivateWire, PrivateHolds
  <2> QED  BY <2>2, <2>3
<1>6. PrivateTail'
  <2>1. TailStored => TailStored'
    BY DEF PrivateRecords, PrivateServerMoves, TailStored
  <2> QED
    BY <1>0, <1>3, <2>1 DEF PrivateTail, PrivateFades
<1>7. PrivateQueue'
  <2>1. pc'.event # "idle" => events' # <<>> /\ events' = events
    BY <1>0 DEF PrivateQueue, PrivateQueueMoves
  <2>2. SUFFICES ASSUME disc' = "none"
                 PROVE  /\ att'.active => IF att'.turn THEN EndsOnce(events)'
                                          ELSE events' = <<>> /\ EndsOnce(att.buffer)'
                        /\ att'.active /\ runs'[att'.job] = 0 =>
                             srv'.turn = "none" /\ att'.buffer = <<>>
                        /\ ~att'.active /\ bstate' \in {"running", "recovering"} =>
                             events' = <<>>
                        /\ \A i \in 1..Len(events') : events'[i] = "accepted" =>
                             i = 1 /\ pc'.event = "idle" /\ att'.active /\ att'.turn
                        /\ pc'.event \notin {"idle", "disabling"} => att'.active /\ att'.turn
                        /\ pc'.event \in {"cancelled", "completed", "failed", "rejected"} =>
                             Head(events') \in Endings
                        /\ pc'.event = "cancelled" => att'.cancel
    BY <2>1 DEF PrivateQueue
  <2>3. /\ disc = "none" /\ events \in Seq(PrivateEvents) /\ att.buffer \in Seq(Private!Note)
        /\ att'.active = att.active /\ att'.turn = att.turn /\ att'.job = att.job
        /\ att'.buffer \in {att.buffer, <<>>} /\ (att.cancel => att'.cancel)
    BY <1>0, <2>2 DEF PrivateParts, PrivateFades, Private!Attempt
  <2>4. events # <<>> =>
          /\ Len(events) \in Nat /\ Len(Tail(events)) = Len(events) - 1
          /\ \A i \in 1..Len(Tail(events)) :
               i + 1 \in 1..Len(events) /\ Tail(events)[i] = events[i + 1]
    BY <2>3, TailsOf
  <2>5. \/ events' = events \/ events' = <<>>
        \/ events # <<>> /\ events' = Tail(events)
    BY DEF PrivateQueueMoves
  <2>6. EndsOnce(events) => EndsOnce(events)'
    BY <2>4, <2>5 DEF EndsOnce, PrivateServerMoves
  <2>7. EndsOnce(att.buffer) => EndsOnce(att.buffer)'
    BY <2>3 DEF EndsOnce, PrivateServerMoves
  <2>8. att'.active => IF att'.turn THEN EndsOnce(events)'
                       ELSE events' = <<>> /\ EndsOnce(att.buffer)'
    BY <1>0, <2>3, <2>5, <2>6, <2>7 DEF PrivateQueue
  <2>9. att'.active /\ runs'[att'.job] = 0 => srv'.turn = "none" /\ att'.buffer = <<>>
    BY <1>0, <2>3 DEF PrivateQueue, PrivateServerMoves
  <2>10. ~att'.active /\ bstate' \in {"running", "recovering"} => events' = <<>>
    BY <1>0, <2>3, <2>5 DEF PrivateQueue
  <2>11. ASSUME NEW i \in 1..Len(events'), events'[i] = "accepted"
         PROVE  i = 1 /\ pc'.event = "idle" /\ att'.active /\ att'.turn
    <3>1. CASE events' = events
      BY <1>0, <2>2, <2>3, <2>11, <3>1 DEF PrivateQueue, PrivateQueueMoves
    <3>2. CASE events # <<>> /\ events' = Tail(events)
      <4>1. i + 1 \in 1..Len(events) /\ events[i + 1] = "accepted"
        BY <2>4, <2>11, <3>2
      <4>2. i + 1 = 1
        BY <1>0, <2>3, <4>1 DEF PrivateQueue
      <4> QED  BY <2>4, <2>11, <3>2, <4>2
    <3>3. CASE events' = <<>>
      BY <2>11, <3>3
    <3> QED  BY <2>5, <3>1, <3>2, <3>3
  <2>12. pc'.event \notin {"idle", "disabling"} => att'.active /\ att'.turn
    BY <1>0, <2>2, <2>3 DEF PrivateQueue, PrivateQueueMoves
  <2>13. pc'.event \in {"cancelled", "completed", "failed", "rejected"} =>
           Head(events') \in Endings
    BY <1>0, <2>1, <2>2, <2>3 DEF PrivateQueue, PrivateQueueMoves
  <2>14. pc'.event = "cancelled" => att'.cancel
    BY <1>0, <2>2, <2>3 DEF PrivateQueue, PrivateQueueMoves
  <2> QED  BY <2>8, <2>9, <2>10, <2>11, <2>12, <2>13, <2>14
<1> QED  BY <1>0, <1>1, <1>2, <1>4, <1>5, <1>6, <1>7, PrivateMade

\* What the helpers of CodexTurn are given: the attempt, the store and the
\* control after the activity's own changes, and what it does to the rest.
PrivateGoes(a, d, p) ==
  /\ PrivateFades(a) /\ PrivateRecords(a, d) /\ PrivateMovesOn(p)
  /\ PrivateQueueMoves(p) /\ PrivateServerMoves
  /\ UNCHANGED <<wire, owed, runs, tries>>
  /\ cleanup' \in BOOLEAN /\ marker' \in BOOLEAN /\ (cleanup => cleanup')
  /\ p.dispatch = "idle" /\ pc.dispatch # "idle" =>
       att.active \/ cleanup' \/ d.status[att.job] \notin Active

\* Neither start nor stop goes on, and recovery at most ends.
Begun == pc.start \notin {"idle", "starting", "thread"}
PrivateStays(p) ==
  /\ p.start = pc.start /\ p.stop = pc.stop
  /\ p.recovery = pc.recovery \/ (p.recovery = "idle" /\ pc.recovery # "spawned")
  /\ p = pc \/ Begun

LEMMA PrivateAttempts ==
  ASSUME NEW a \in Private!Attempt
  PROVE  LET e == Private!EndAttempt(a)
             c == Private!ClearTurnDeadline(a) IN
         /\ c \in Private!Attempt
         /\ c.job = a.job /\ c.active = a.active /\ c.turn = a.turn /\ c.cancel = a.cancel
         /\ c.ready = a.ready /\ c.ambiguous = a.ambiguous /\ c.buffer = a.buffer
         /\ c.terminal = a.terminal
         /\ e \in Private!Attempt
         /\ e.job = a.job /\ e.active = a.active /\ e.turn = a.turn /\ e.cancel = a.cancel
         /\ e.ready = a.ready /\ e.ambiguous = a.ambiguous
         /\ e.buffer \in {a.buffer, <<>>} /\ (a.active => e.terminal)
<1> DEFINE c == Private!ClearTurnDeadline(a)
           e == Private!EndAttempt(a)
<1>1. /\ c \in Private!Attempt
      /\ c.job = a.job /\ c.active = a.active /\ c.turn = a.turn /\ c.cancel = a.cancel
      /\ c.ready = a.ready /\ c.ambiguous = a.ambiguous /\ c.buffer = a.buffer
      /\ c.terminal = a.terminal
  BY DEF Private!ClearTurnDeadline, Private!Attempt
<1>2. <<>> \in Seq(Private!Note)
  OBVIOUS
<1>3. e = IF a.active THEN [c EXCEPT !.terminal = TRUE, !.heard = FALSE, !.buffer = <<>>]
          ELSE a
  BY DEF Private!EndAttempt
<1>4. /\ e \in Private!Attempt
      /\ e.job = a.job /\ e.active = a.active /\ e.turn = a.turn /\ e.cancel = a.cancel
      /\ e.ready = a.ready /\ e.ambiguous = a.ambiguous
      /\ e.buffer \in {a.buffer, <<>>} /\ (a.active => e.terminal)
  <2> HIDE DEF c, e
  <2> QED  BY <1>1, <1>2, <1>3 DEF Private!Attempt
<1> QED  BY <1>1, <1>4

LEMMA PrivateQueued ==
  ASSUME events \in Seq(PrivateEvents), NEW p, PrivateQueueMoves(p)
  PROVE  events' \in Seq(PrivateEvents) /\ (events = <<>> => events' = <<>>)
<1>1. events # <<>> => Tail(events) \in Seq(PrivateEvents)
  BY TailsOf
<1>2. <<>> \in Seq(PrivateEvents)
  OBVIOUS
<1> QED  BY <1>1, <1>2 DEF PrivateQueueMoves

LEMMA PrivateContinues ==
  ASSUME PrivateInv, NEW a, NEW d, NEW p, PrivateGoes(a, d, p), PrivateStays(p),
         a.active /\ a.terminal => att.terminal \/ disc # "none",
         Private!Continue(a, d, p)
  PROVE  PrivateInv' /\ SessionStep
<1>0. /\ PrivateParts /\ PrivateHolds /\ PrivateLife /\ db \in Db
      /\ att' = a /\ db' = d /\ pc' = p /\ UNCHANGED <<conn, rpc, bstate, held, disc>>
      /\ UNCHANGED <<wire, owed, runs, tries>> /\ (cleanup => cleanup')
  BY PrivateTypes DEF PrivateInv, Private!Continue, Private!lifeVars, PrivateGoes
<1>1. events' \in Seq(PrivateEvents) /\ (events = <<>> => events' = <<>>)
  BY <1>0, PrivateQueued DEF PrivateGoes, PrivateParts
<1>2. PrivateParts'
  BY <1>0, <1>1
  DEF PrivateParts, PrivateGoes, PrivateFades, PrivateMovesOn, PrivateServerMoves
<1>3. att'.active = att.active /\ (db.quarantined => db'.quarantined)
  BY <1>0 DEF PrivateGoes, PrivateFades, PrivateRecords, Leads
<1>4. PrivateLife'
  BY <1>0, <1>1, <1>3 DEF PrivateLife, PrivateStays, Begun
<1>5. PrivateRequestLost
  BY <1>0, PrivateLost DEF PrivateParts
<1>6. disc' # "none" => \A j \in Jobs : db'.status[j] \notin Active
  BY <1>0 DEF PrivateHolds, PrivateGoes, PrivateRecords
<1>7. att'.active /\ att'.terminal => disc' # "none"
  BY <1>0, <1>3 DEF PrivateHolds
<1> QED  BY <1>0, <1>2, <1>4, <1>5, <1>6, <1>7, PrivateSettles DEF PrivateGoes

\* What the end of the lifecycle makes of the attempt and of its job.
LEMMA PrivateLosesJob ==
  ASSUME PrivateInv, NEW a, NEW d, PrivateFades(a), PrivateRecords(a, d),
         Leads(db, d, att.job), att' = Private!EndAttempt(a),
         db' = MarkBackendDisconnected(d)
  PROVE  /\ PrivateFades(att') /\ PrivateRecords(att', db')
         /\ \A j \in Jobs : db'.status[j] \notin Active
         /\ d.quarantined => db'.quarantined
<1>0. PrivateParts /\ PrivateHolds /\ db \in Db /\ d \in Db
  BY PrivateTypes DEF PrivateInv, Leads
<1>3. PrivateFades(att')
  BY PrivateAttempts DEF PrivateFades
<1>4. \A k \in Jobs \ {att.job} : d.status[k] \notin Active
  BY <1>0 DEF PrivateRecords, PrivateHolds
<1>5. /\ Leads(d, db', att.job)
      /\ \A k \in Jobs : db'.status[k] =
           IF d.status[k] = "Cancelling" THEN "CancelUnknown"
           ELSE IF d.status[k] \in Active THEN "Interrupted" ELSE d.status[k]
      /\ \A k \in Jobs : db'.status[k] \notin Active
      /\ db'.chk = d.chk
  BY <1>0, <1>4, DisconnectedLeads
<1>6. att.job \in Jobs \cup {NoJob}
  BY <1>0, PrivateSession DEF PrivateParts, Private!Attempt
<1>7. Leads(db, db', att.job)
  BY <1>0, <1>5, LeadsOn
<1>8. att'.cancel = a.cancel /\ (att.active => att.job \in Jobs)
  BY <1>0, PrivateAttempts DEF PrivateFades, PrivateHolds
<1>9. PrivateRecords(att', db')
  BY <1>5, <1>6, <1>7, <1>8 DEF PrivateRecords, Active, Unknown
<1> QED  BY <1>3, <1>5, <1>9 DEF Leads

LEMMA PrivateDisconnects ==
  ASSUME PrivateInv, NEW a, NEW d, NEW p, PrivateGoes(a, d, p), Leads(db, d, att.job),
         NEW state \in {"failed", "stopping"}, Private!Disconnect(a, d, p, state),
         PrivateLife'
  PROVE  PrivateInv' /\ SessionStep
<1>0. /\ PrivateParts /\ PrivateHolds
      /\ att' = Private!EndAttempt(a) /\ db' = MarkBackendDisconnected(d) /\ pc' = p
      /\ bstate' = state /\ disc' \in {"closing", "done"} /\ held' = FALSE
      /\ Private!CloseClient \/ UNCHANGED <<conn, rpc>>
      /\ UNCHANGED <<wire, owed, runs, tries>>
  BY PrivateTypes, PrivateSession
  DEF PrivateInv, Private!Disconnect, Private!DropClient, PrivateGoes
<1>1. events' \in Seq(PrivateEvents)
  BY <1>0, PrivateQueued DEF PrivateGoes, PrivateParts
<1>2. PrivateRequestLost
  BY <1>0, PrivateLost DEF PrivateParts
<1>3. /\ PrivateFades(att') /\ PrivateRecords(att', db')
      /\ \A j \in Jobs : db'.status[j] \notin Active
  BY <1>0, PrivateLosesJob DEF PrivateGoes
<1>4. PrivateParts'
  BY <1>0, <1>1, <1>2, <1>3
  DEF PrivateParts, PrivateGoes, PrivateFades, PrivateMovesOn, PrivateServerMoves,
      PrivateRequestLost, PrivateStates
<1>5. pc'.dispatch = "idle" /\ pc.dispatch # "idle" =>
        att.active \/ cleanup' \/ db'.status[att.job] \notin Active
  BY <1>0, <1>3 DEF PrivateHolds
<1> QED
  BY <1>0, <1>2, <1>3, <1>4, <1>5, PrivateSettles DEF PrivateGoes

LEMMA PrivateDrops ==
  ASSUME PrivateInv, Private!DropClient
  PROVE  /\ held' = FALSE
         /\ conn' = IF held /\ conn \in UpStates THEN "closing" ELSE conn
         /\ UNCHANGED <<wire, owed>> => PrivateRequestLost
<1>1. PrivateParts
  BY PrivateTypes
<1>2. held' = FALSE /\ IF held THEN Private!CloseClient ELSE UNCHANGED <<conn, rpc>>
  BY DEF Private!DropClient
<1> QED  BY <1>1, <1>2, PrivateLost DEF PrivateParts

LEMMA PrivateFailsClosed ==
  ASSUME PrivateInv, NEW a, NEW d, NEW p, PrivateGoes(a, d, p), PrivateStays(p),
         Leads(db, d, att.job), Begun, Private!FailClosed(a, d, p)
  PROVE  PrivateInv' /\ SessionStep
<1>1. CASE disc # "none"
  BY <1>1, PrivateContinues DEF Private!FailClosed
<1>2. CASE disc = "none"
  <2>1. Private!Disconnect(a, d, p, Private!Failed)
    BY <1>2 DEF Private!FailClosed
  <2>2. Private!Failed \in {"failed", "stopping"}
    BY DEF Private!Failed
  <2>3. /\ PrivateLife /\ pc' = p /\ bstate' \in {"failed", "stopping"}
        /\ disc' # "none" /\ tries' = tries
        /\ held' = FALSE /\ conn' = IF held /\ conn \in UpStates THEN "closing" ELSE conn
        /\ (cleanup => cleanup') /\ (db.quarantined => db'.quarantined)
    <3>1. db' = MarkBackendDisconnected(d) /\ Private!DropClient /\ pc' = p
      BY <2>1, PrivateSession DEF Private!Disconnect
    <3>2. d.quarantined => db'.quarantined
      <4>1. d \in Db /\ \A k \in Jobs \ {att.job} : d.status[k] \notin Active
        BY PrivateTypes DEF PrivateInv, PrivateHolds, PrivateGoes, PrivateRecords, Leads
      <4> QED  BY <3>1, <4>1, DisconnectedLeads DEF Leads
    <3> QED
      BY <2>1, <2>2, <3>1, <3>2, PrivateDrops
      DEF Private!Disconnect, PrivateInv, PrivateGoes, Leads
  <2>4. PrivateLife'
    BY <2>3 DEF PrivateLife, PrivateStays, Begun, UpStates, GoneStates
  <2> QED  BY <2>1, <2>2, <2>4, PrivateDisconnects
<1> QED  BY <1>1, <1>2

\* Changes to the attempt that go with any change of the store and the control.
LEMMA PrivateGoesWith ==
  ASSUME NEW a, NEW b \in Private!Attempt, NEW d, NEW p, PrivateGoes(a, d, p),
         b.job = a.job, b.active = a.active, b.turn = a.turn, b.cancel = a.cancel,
         b.ready = "rejected" /\ ~b.ambiguous => a.ready = "rejected" /\ ~a.ambiguous,
         b.buffer = a.buffer
  PROVE  PrivateGoes(b, d, p)
BY DEF PrivateGoes, PrivateFades, PrivateRecords

LEMMA PrivateTimesOut ==
  ASSUME PrivateInv, NEW a, NEW d, NEW p, PrivateGoes(a, d, p), PrivateStays(p),
         Leads(db, d, att.job), a.active /\ a.terminal => att.terminal \/ disc # "none",
         Private!HandleTurnDeadline(a, d, p)
  PROVE  PrivateInv' /\ SessionStep
<1> DEFINE c == Private!ClearTurnDeadline(a)
           late == [c EXCEPT !.deadline = "expired", !.grace = TRUE]
           owned == [late EXCEPT !.owner = "timeout"]
           lost == [a EXCEPT !.deadline = "expired", !.ambiguous = TRUE, !.ready = "rejected"]
           q == [p EXCEPT !.deadline = "layout"]
<1>0. a \in Private!Attempt /\ a.active = att.active /\ p \in Private!Control /\ PrivateLife
  BY DEF PrivateInv, PrivateGoes, PrivateFades, PrivateMovesOn
<1>1. \/ Private!Continue(a, d, p)
      \/ Private!Live(a) /\ (Private!FailClosed(lost, d, p) \/ Private!Continue(late, d, p)
                             \/ Private!Continue(owned, d, q)
                             \/ Private!FailClosed(owned, d, p))
  BY DEF Private!HandleTurnDeadline
<1>2. CASE Private!Continue(a, d, p)
  BY <1>2, PrivateContinues
<1>3. ASSUME Private!Live(a)
      PROVE  Begun /\ ~a.terminal
  BY <1>0, <1>3 DEF PrivateLife, Begun, Private!Live
<1>4. c \in Private!Attempt /\ c.job = a.job /\ c.active = a.active /\ c.turn = a.turn
      /\ c.cancel = a.cancel /\ c.ready = a.ready /\ c.ambiguous = a.ambiguous
      /\ c.buffer = a.buffer /\ c.terminal = a.terminal
  BY <1>0, PrivateAttempts
<1>5. /\ lost \in Private!Attempt /\ lost.job = a.job /\ lost.active = a.active
      /\ lost.turn = a.turn /\ lost.cancel = a.cancel /\ lost.ambiguous
      /\ lost.buffer = a.buffer
  BY <1>0 DEF Private!Attempt
<1>6. \A b \in {late, owned} :
        /\ b \in Private!Attempt /\ b.job = a.job /\ b.active = a.active
        /\ b.turn = a.turn /\ b.cancel = a.cancel /\ b.ready = a.ready
        /\ b.ambiguous = a.ambiguous /\ b.buffer = a.buffer /\ b.terminal = a.terminal
  <2> HIDE DEF c
  <2>1. /\ late \in Private!Attempt /\ late.job = c.job /\ late.active = c.active
        /\ late.turn = c.turn /\ late.cancel = c.cancel /\ late.ready = c.ready
        /\ late.ambiguous = c.ambiguous /\ late.buffer = c.buffer
        /\ late.terminal = c.terminal
    BY <1>4 DEF Private!Attempt
  <2> HIDE DEF late
  <2>2. /\ owned \in Private!Attempt /\ owned.job = late.job /\ owned.active = late.active
        /\ owned.turn = late.turn /\ owned.cancel = late.cancel /\ owned.ready = late.ready
        /\ owned.ambiguous = late.ambiguous /\ owned.buffer = late.buffer
        /\ owned.terminal = late.terminal
    BY <2>1 DEF Private!Attempt
  <2> HIDE DEF owned
  <2> QED  BY <1>4, <2>1, <2>2
<1>7. PrivateGoes(lost, d, p) /\ \A b \in {late, owned} : PrivateGoes(b, d, p)
  <2> HIDE DEF late, owned, lost
  <2> QED  BY <1>5, <1>6, PrivateGoesWith
<1>8. /\ q \in Private!Control /\ q.cancel = p.cancel /\ q.dispatch = p.dispatch
      /\ q.event = p.event /\ q.start = p.start /\ q.stop = p.stop /\ q.recovery = p.recovery
  BY <1>0 DEF Private!Control
<1>9. PrivateGoes(owned, d, q) /\ (Private!Live(a) => PrivateStays(q))
  <2> HIDE DEF owned, q
  <2> QED
    BY <1>3, <1>7, <1>8 DEF PrivateGoes, PrivateMovesOn, PrivateQueueMoves, PrivateStays
<1>10. CASE Private!Live(a) /\ Private!FailClosed(lost, d, p)
  <2> HIDE DEF lost
  <2> QED  BY <1>3, <1>7, <1>10, PrivateFailsClosed
<1>11. CASE Private!Live(a) /\ Private!Continue(late, d, p)
  <2> HIDE DEF late
  <2> QED  BY <1>3, <1>6, <1>7, <1>11, PrivateContinues
<1>12. CASE Private!Live(a) /\ Private!Continue(owned, d, q)
  <2> HIDE DEF owned, q
  <2> QED  BY <1>3, <1>6, <1>9, <1>12, PrivateContinues
<1>13. CASE Private!Live(a) /\ Private!FailClosed(owned, d, p)
  <2> HIDE DEF owned
  <2> QED  BY <1>3, <1>7, <1>13, PrivateFailsClosed
<1> QED  BY <1>1, <1>2, <1>10, <1>11, <1>12, <1>13

\* Where the helpers are called with what there is.
LEMMA PrivateSame ==
  ASSUME PrivateInv
  PROVE  /\ PrivateParts /\ PrivateFades(att) /\ PrivateRecords(att, db) /\ db \in Db
         /\ PrivateMovesOn(pc) /\ PrivateStays(pc) /\ Leads(db, db, att.job)
         /\ PrivateRecords(att, Quarantine(db)) /\ Leads(db, Quarantine(db), att.job)
         /\ att.job \in Jobs \cup {NoJob}
         /\ UNCHANGED srv => PrivateServerMoves
         /\ UNCHANGED events => PrivateQueueMoves(pc)
         /\ UNCHANGED <<Private!truthVars, Private!memoVars>> =>
              /\ UNCHANGED <<wire, owed, runs, tries, srv, cleanup, marker>>
              /\ cleanup' \in BOOLEAN /\ marker' \in BOOLEAN
         /\ att.active => Begun
         /\ pc.dispatch # "idle" \/ pc.cancel # "idle" \/ pc.event # "idle"
              \/ pc.deadline # "idle" \/ pc.recovery # "idle" => Begun
<1>0. /\ PrivateParts /\ PrivateHolds /\ PrivateLife /\ db \in Db
      /\ \A j \in Jobs \ {att.job} : db.status[j] \notin Active
  BY PrivateTypes DEF PrivateInv, PrivateHolds
<1>1. att.job \in Jobs \cup {NoJob} /\ NoJob \notin Jobs
  BY <1>0, PrivateSession, NoJobIsNone DEF PrivateParts, Private!Attempt
<1>2. PrivateFades(att)
  BY <1>0 DEF PrivateParts, PrivateFades
<1>3. /\ Leads(db, db, att.job) /\ Leads(db, Quarantine(db), att.job)
      /\ Quarantine(db).status = db.status /\ Quarantine(db).chk = db.chk
  BY <1>0, LeadsNowhere, QuarantineLeads
<1>4. PrivateRecords(att, db) /\ PrivateRecords(att, Quarantine(db))
  BY <1>0, <1>1, <1>3 DEF PrivateRecords, PrivateHolds
<1>5. PrivateMovesOn(pc) /\ PrivateStays(pc) /\ (UNCHANGED events => PrivateQueueMoves(pc))
  BY <1>0 DEF PrivateParts, PrivateHolds, PrivateMovesOn, PrivateStays, PrivateQueueMoves
<1>6. UNCHANGED srv => PrivateServerMoves
  BY <1>0 DEF PrivateParts, PrivateServerMoves, PrivateServers
<1>7. UNCHANGED <<Private!truthVars, Private!memoVars>> =>
        /\ UNCHANGED <<wire, owed, runs, tries, srv, cleanup, marker>>
        /\ cleanup' \in BOOLEAN /\ marker' \in BOOLEAN
  BY <1>0 DEF Private!truthVars, Private!memoVars, PrivateParts
<1>8. /\ att.active => Begun
      /\ pc.dispatch # "idle" \/ pc.cancel # "idle" \/ pc.event # "idle"
           \/ pc.deadline # "idle" \/ pc.recovery # "idle" => Begun
  BY <1>0 DEF PrivateLife, Begun
<1> QED  BY <1>0, <1>1, <1>2, <1>3, <1>4, <1>5, <1>6, <1>7, <1>8

\* A step that changes neither the store nor the queue.
LEMMA PrivateQuietly ==
  ASSUME PrivateInv, UNCHANGED <<Private!truthVars, Private!memoVars, events>>,
         NEW p, PrivateMovesOn(p), p.event = pc.event, p.dispatch = pc.dispatch,
         NEW b \in Private!Attempt, b.job = att.job, b.active = att.active,
         b.turn = att.turn, b.cancel = att.cancel, b.ready = att.ready,
         b.ambiguous = att.ambiguous, b.buffer = att.buffer
  PROVE  PrivateGoes(b, db, p)
<1>1. PrivateGoes(att, db, p)
  BY PrivateSame DEF PrivateGoes, PrivateQueueMoves
<1> QED  BY <1>1, PrivateGoesWith

\* One of cancel and the deadline moves.
LEMMA PrivatePoints ==
  ASSUME PrivateInv, Begun
  PROVE  /\ att.job \in Jobs =>
              \A q \in {"idle", "waitTurn", "layout", "interrupt"} :
                LET p == Private!At("cancel", q) IN
                /\ PrivateMovesOn(p) /\ PrivateStays(p) /\ p.event = pc.event
                /\ p.dispatch = pc.dispatch
         /\ \A q \in {"idle", "layout", "interrupt"} :
              LET p == Private!At("deadline", q) IN
              /\ PrivateMovesOn(p) /\ PrivateStays(p) /\ p.event = pc.event
              /\ p.dispatch = pc.dispatch
         /\ \A q \in {"idle", "grace", "layout", "cancelled", "completed", "failed",
                      "rejected", "disabling"} :
              LET p == Private!At("event", q) IN
              PrivateMovesOn(p) /\ PrivateStays(p) /\ p.event = q /\ p.dispatch = pc.dispatch
         /\ rpc[Request] \notin {"queued", "written"} =>
              LET p == Private!At("dispatch", "idle") IN
              PrivateMovesOn(p) /\ PrivateStays(p) /\ p.event = pc.event
         /\ pc.dispatch = "account" =>
              LET p == Private!At("dispatch", "tail") IN
              PrivateMovesOn(p) /\ PrivateStays(p) /\ p.event = pc.event
         /\ pc.recovery # "spawned" =>
              LET p == Private!At("recovery", "idle") IN
              /\ PrivateMovesOn(p) /\ PrivateStays(p) /\ p.event = pc.event
              /\ p.dispatch = pc.dispatch
<1>0. pc \in Private!Control /\ (pc.cancel # "idle" => att.job \in Jobs)
  BY PrivateTypes DEF PrivateInv, PrivateParts, PrivateHolds
<1>1. ASSUME att.job \in Jobs, NEW q \in {"idle", "waitTurn", "layout", "interrupt"}
      PROVE  LET p == Private!At("cancel", q) IN
             /\ PrivateMovesOn(p) /\ PrivateStays(p) /\ p.event = pc.event
             /\ p.dispatch = pc.dispatch
  BY <1>0, <1>1, PrivateAt DEF PrivateMovesOn, PrivateStays, Activities
<1>2. ASSUME NEW q \in {"idle", "layout", "interrupt"}
      PROVE  LET p == Private!At("deadline", q) IN
             /\ PrivateMovesOn(p) /\ PrivateStays(p) /\ p.event = pc.event
             /\ p.dispatch = pc.dispatch
  BY <1>0, PrivateAt DEF PrivateMovesOn, PrivateStays, Activities
<1>3. ASSUME NEW q \in {"idle", "grace", "layout", "cancelled", "completed", "failed",
                        "rejected", "disabling"}
      PROVE  LET p == Private!At("event", q) IN
             PrivateMovesOn(p) /\ PrivateStays(p) /\ p.event = q /\ p.dispatch = pc.dispatch
  BY <1>0, PrivateAt DEF PrivateMovesOn, PrivateStays, Activities
<1>4. ASSUME rpc[Request] \notin {"queued", "written"}
      PROVE  LET p == Private!At("dispatch", "idle") IN
             PrivateMovesOn(p) /\ PrivateStays(p) /\ p.event = pc.event
  BY <1>0, <1>4, PrivateAt DEF PrivateMovesOn, PrivateStays, Activities
<1>5. ASSUME pc.dispatch = "account"
      PROVE  LET p == Private!At("dispatch", "tail") IN
             PrivateMovesOn(p) /\ PrivateStays(p) /\ p.event = pc.event
  BY <1>0, <1>5, PrivateAt DEF PrivateMovesOn, PrivateStays, Activities
<1>6. ASSUME pc.recovery # "spawned"
      PROVE  LET p == Private!At("recovery", "idle") IN
             /\ PrivateMovesOn(p) /\ PrivateStays(p) /\ p.event = pc.event
             /\ p.dispatch = pc.dispatch
  BY <1>0, <1>6, PrivateAt DEF PrivateMovesOn, PrivateStays, Activities
<1> QED  BY <1>1, <1>2, <1>3, <1>4, <1>5, <1>6

LEMMA PrivateInterruption ==
  ASSUME PrivateInv
  PROVE  \A b \in {Private!Interrupt(att), [att EXCEPT !.interrupt = "ok"],
                   [att EXCEPT !.interrupt = "failed"], [att EXCEPT !.deadline = "due"],
                   [att EXCEPT !.grace = FALSE]} :
           /\ b \in Private!Attempt /\ b.job = att.job /\ b.active = att.active
           /\ b.turn = att.turn /\ b.cancel = att.cancel /\ b.ready = att.ready
           /\ b.ambiguous = att.ambiguous /\ b.buffer = att.buffer
           /\ b.terminal = att.terminal
<1>1. att \in Private!Attempt
  BY PrivateTypes DEF PrivateParts
<1> DEFINE Like(b) ==
             /\ b \in Private!Attempt /\ b.job = att.job /\ b.active = att.active
             /\ b.turn = att.turn /\ b.cancel = att.cancel /\ b.ready = att.ready
             /\ b.ambiguous = att.ambiguous /\ b.buffer = att.buffer
             /\ b.terminal = att.terminal
<1>2. \A i \in {"asked", "ok", "failed"} : Like([att EXCEPT !.interrupt = i])
  BY <1>1 DEF Private!Attempt
<1>3. Private!Interrupt(att) \in {att, [att EXCEPT !.interrupt = "asked"]}
  <2>1. CASE att.interrupt = "no"
    BY <2>1 DEF Private!Interrupt
  <2>2. CASE att.interrupt # "no"
    <3>1. Private!Interrupt(att) = [att EXCEPT !.interrupt = att.interrupt]
      BY <2>2 DEF Private!Interrupt
    <3> QED  BY <1>1, <3>1 DEF Private!Attempt
  <2> QED  BY <2>1, <2>2
<1>4. Like([att EXCEPT !.deadline = "due"])
  BY <1>1 DEF Private!Attempt
<1>5. Like([att EXCEPT !.grace = FALSE])
  BY <1>1 DEF Private!Attempt
<1>6. Like(att)
  BY <1>1
<1>7. Like(Private!Interrupt(att))
  <2> HIDE DEF Like
  <2> QED  BY <1>2, <1>3, <1>6
<1> QED  BY <1>2, <1>4, <1>5, <1>7

LEMMA PrivateDeadlines ==
  ASSUME PrivateInv, \/ Private!InterruptSettles \/ Private!DeadlinePasses
                     \/ Private!DeadlineTimer \/ Private!GraceExpires
                     \/ Private!TimeoutInterrupts \/ Private!TimeoutInterrupted
  PROVE  PrivateInv' /\ SessionStep
<1>0. /\ UNCHANGED <<Private!truthVars, Private!memoVars, events>>
      /\ att \in Private!Attempt /\ Leads(db, db, att.job)
      /\ PrivateMovesOn(pc) /\ PrivateStays(pc) /\ (att.active => Begun)
      /\ PrivateGoes(att, db, pc)
  <2>1. UNCHANGED <<Private!truthVars, Private!memoVars, events>>
    BY DEF Private!InterruptSettles, Private!DeadlinePasses, Private!DeadlineTimer,
       Private!GraceExpires, Private!TimeoutInterrupts, Private!TimeoutInterrupted
  <2>2. /\ att \in Private!Attempt /\ Leads(db, db, att.job)
        /\ PrivateMovesOn(pc) /\ PrivateStays(pc) /\ (att.active => Begun)
    BY PrivateSame DEF PrivateParts
  <2> QED  BY <2>1, <2>2, PrivateQuietly
<1>1. CASE Private!InterruptSettles \/ Private!DeadlinePasses \/ Private!GraceExpires
  <2>1. PICK b \in {[att EXCEPT !.interrupt = "ok"], [att EXCEPT !.interrupt = "failed"],
                    [att EXCEPT !.deadline = "due"], [att EXCEPT !.grace = FALSE]} :
          \/ Private!Continue(b, db, pc)
          \/ Private!Live(b) /\ Private!FailClosed(b, db, pc)
    BY <1>1
    DEF Private!InterruptSettles, Private!DeadlinePasses, Private!GraceExpires
  <2>2. /\ b \in Private!Attempt /\ b.job = att.job /\ b.active = att.active
        /\ b.turn = att.turn /\ b.cancel = att.cancel /\ b.ready = att.ready
        /\ b.ambiguous = att.ambiguous /\ b.buffer = att.buffer
        /\ b.terminal = att.terminal
    BY PrivateInterruption
  <2>3. PrivateGoes(b, db, pc)
    BY <1>0, <2>2, PrivateGoesWith
  <2>4. CASE Private!Continue(b, db, pc)
    BY <1>0, <2>2, <2>3, <2>4, PrivateContinues
  <2>5. CASE Private!Live(b) /\ Private!FailClosed(b, db, pc)
    BY <1>0, <2>2, <2>3, <2>5, PrivateFailsClosed DEF Private!Live
  <2> QED  BY <2>1, <2>4, <2>5
<1>2. CASE Private!DeadlineTimer
  BY <1>0, <1>2, PrivateTimesOut DEF Private!DeadlineTimer
<1>3. CASE Private!TimeoutInterrupts \/ Private!TimeoutInterrupted
  <2>1. pc.deadline # "idle" /\ Begun
    BY <1>3, PrivateSame DEF Private!TimeoutInterrupts, Private!TimeoutInterrupted
  <2>2. PICK b \in {att, Private!Interrupt(att)}, q \in {"idle", "interrupt"} :
          \/ Private!Continue(b, db, Private!At("deadline", q))
          \/ Private!FailClosed(b, db, Private!At("deadline", q))
    BY <1>3 DEF Private!TimeoutInterrupts, Private!TimeoutInterrupted
  <2>3. /\ b \in Private!Attempt /\ b.job = att.job /\ b.active = att.active
        /\ b.turn = att.turn /\ b.cancel = att.cancel /\ b.ready = att.ready
        /\ b.ambiguous = att.ambiguous /\ b.buffer = att.buffer
        /\ b.terminal = att.terminal
    BY <1>0, PrivateInterruption
  <2> DEFINE p == Private!At("deadline", q)
  <2>4. PrivateMovesOn(p) /\ PrivateStays(p) /\ p.event = pc.event /\ p.dispatch = pc.dispatch
    BY <2>1, PrivatePoints
  <2> HIDE DEF p
  <2>5. PrivateGoes(b, db, p)
    BY <1>0, <2>3, <2>4, PrivateQuietly
  <2> QED
    BY <1>0, <2>1, <2>2, <2>3, <2>4, <2>5, PrivateContinues, PrivateFailsClosed DEF p
<1> QED  BY <1>1, <1>2, <1>3

\* The turn that is to be interrupted is known.
LEMMA PrivateInterruptsTurn ==
  ASSUME PrivateInv, NEW a, NEW d, Begun, att.job \in Jobs,
         \A q \in {"idle", "layout"} : PrivateGoes(a, d, Private!At("cancel", q)),
         Leads(db, d, att.job), a.active /\ a.terminal => att.terminal \/ disc # "none",
         Private!InterruptTurn(a, d)
  PROVE  PrivateInv' /\ SessionStep
<1>1. PICK q \in {"idle", "layout"} :
        \/ Private!Continue(a, d, Private!At("cancel", q))
        \/ Private!FailClosed(a, d, Private!At("cancel", q))
  BY DEF Private!InterruptTurn
<1>2. PrivateStays(Private!At("cancel", q)) /\ PrivateGoes(a, d, Private!At("cancel", q))
  BY PrivatePoints
<1> QED  BY <1>1, <1>2, PrivateContinues, PrivateFailsClosed

LEMMA PrivateCancels ==
  ASSUME PrivateInv, NEW j \in Jobs, Private!RelayCancel(j)
  PROVE  PrivateInv' /\ SessionStep
<1> DEFINE d == WithStatus(db, j, "Cancelling")
           asked == [att EXCEPT !.cancel = TRUE]
           mine == [asked EXCEPT !.owner = IF @ = "none" THEN "user" ELSE @]
<1>0. /\ UNCHANGED <<Private!truthVars, Private!memoVars, events>> /\ Begun
      /\ PrivateHolds /\ SessionInv /\ db \in Db /\ att \in Private!Attempt
      /\ PrivateFades(att) /\ PrivateMovesOn(pc) /\ PrivateStays(pc)
      /\ db.status \in [Jobs -> Status]
  <2>1. PrivateHolds /\ SessionInv /\ db \in Db /\ att \in Private!Attempt
        /\ db.status \in [Jobs -> Status]
    BY PrivateTypes DEF PrivateInv, PrivateParts, Db
  <2> QED  BY <2>1, PrivateSame DEF Private!RelayCancel, Begun
<1>1. ASSUME NEW a, NEW e, NEW p, PrivateFades(a), PrivateRecords(a, e), PrivateMovesOn(p),
             p.event = pc.event, p.dispatch = pc.dispatch
      PROVE  PrivateGoes(a, e, p)
  BY <1>0, <1>1, PrivateSame DEF PrivateGoes, PrivateQueueMoves
<1>2. CASE db.status[j] = "Queued" /\ Private!Continue(att, WithStatus(db, j, "Cancelled"), pc)
  <2> DEFINE e == WithStatus(db, j, "Cancelled")
  <2>1. Leads(db, e, j) /\ e.status[j] = "Cancelled" /\ e.chk = db.chk
    <3>1. "Cancelled" \in Status /\ Edge(db.status[j], "Cancelled", runs[j], db.quarantined)
      BY <1>0, <1>2 DEF Edge, Status, SessionInv
    <3> QED  BY <1>0, <3>1, WriteLeads, Writes
  <2> HIDE DEF e
  <2>2. \A k \in Jobs \ {j} : e.status[k] = db.status[k]
    BY <2>1 DEF Leads
  <2>3. att.active => att.job # j
    BY <1>0, <1>2 DEF PrivateHolds, Active, Unknown
  <2>4. PrivateRecords(att, e)
    BY <1>0, <2>1, <2>2, <2>3 DEF PrivateRecords, PrivateHolds, Active
  <2> QED  BY <1>0, <1>1, <1>2, <2>4, PrivateContinues DEF e
<1>3. CASE db.status[j] \in Active
  <2>1. j = att.job
    BY <1>0, <1>3 DEF PrivateHolds
  <2>2. /\ Leads(db, d, j) /\ d.status[j] = "Cancelling" /\ d \in Db /\ d.chk = db.chk
        /\ \A k \in Jobs \ {j} : d.status[k] = db.status[k]
    <3>1. "Cancelling" \in Status
      BY DEF Status, Active
    <3>2. d.chk = db.chk
      BY <1>0, <3>1, Writes
    <3>3. Leads(db, d, j) /\ d.status[j] = "Cancelling" /\ d \in Db
      BY <1>0, <1>3, CancellingLeads
    <3> HIDE DEF d
    <3> QED  BY <3>2, <3>3 DEF Leads
  <2>3. "Cancelling" \in Active /\ "Cancelling" \notin {"Dispatching", "Running"}
    BY DEF Active
  <2> HIDE DEF d
  <2>4. CASE ~Private!Live(att) /\ Private!Continue(att, FinishUnsentBackendCancellation(d, j), pc)
    <3> DEFINE e == FinishUnsentBackendCancellation(d, j)
    <3>1. ~att.active /\ runs[j] = 0
      BY <1>0, <1>3, <2>1, <2>4 DEF PrivateHolds, Private!Live
    <3>2. /\ Leads(d, e, j) /\ e.status[j] \notin Active /\ e.chk = d.chk
      BY <2>2, <3>1, UnsentLeads, StoreKeeps
    <3> HIDE DEF e
    <3>3. Leads(db, e, j)
      BY <1>0, <2>2, <3>2, LeadsOn
    <3>4. \A k \in Jobs \ {j} : e.status[k] = db.status[k]
      BY <3>3 DEF Leads
    <3>5. PrivateRecords(att, e)
      BY <1>0, <2>1, <2>2, <3>1, <3>2, <3>3, <3>4
      DEF PrivateRecords, PrivateHolds, Active
    <3> QED  BY <1>0, <1>1, <2>4, <3>5, PrivateContinues DEF e
  <2>5. CASE att.job = j /\ Private!Live(att)
    <3>1. /\ asked \in Private!Attempt /\ asked.job = att.job /\ asked.active = att.active
          /\ asked.turn = att.turn /\ asked.cancel /\ asked.buffer = att.buffer
          /\ asked.ready = att.ready /\ asked.ambiguous = att.ambiguous
          /\ asked.terminal = att.terminal
      BY <1>0 DEF Private!Attempt
    <3>2. /\ mine \in Private!Attempt /\ mine.job = att.job /\ mine.active = att.active
          /\ mine.turn = att.turn /\ mine.cancel /\ mine.buffer = att.buffer
          /\ mine.ready = att.ready /\ mine.ambiguous = att.ambiguous
          /\ mine.terminal = att.terminal
      <4> HIDE DEF asked
      <4> QED  BY <3>1 DEF Private!Attempt
    <3> HIDE DEF asked, mine
    <3>3. \A a \in {asked, mine} : PrivateFades(a) /\ PrivateRecords(a, d)
      <4>1. PrivateFades(asked) /\ PrivateFades(mine)
        BY <3>1, <3>2 DEF PrivateFades, PrivateHolds, PrivateInv
      <4>2. \A k \in Jobs : d.status[k] \in Active => db.status[k] \in Active
        BY <1>3, <2>2
      <4>3. /\ d.status[att.job] \in Active /\ d.status[att.job] # "Running"
            /\ d.status[att.job] \notin {"Dispatching", "Running"}
        BY <2>1, <2>2, <2>3
      <4>4. PrivateRecords(asked, d) /\ PrivateRecords(mine, d)
        BY <2>1, <2>2, <4>2, <4>3 DEF PrivateRecords
      <4> QED  BY <4>1, <4>4
    <3>4. ASSUME NEW q \in {"idle", "waitTurn", "layout"}
          PROVE  LET p == Private!At("cancel", q) IN
                 PrivateStays(p) /\ PrivateGoes(asked, d, p) /\ PrivateGoes(mine, d, p)
      <4>1. att.job \in Jobs
        BY <2>1
      <4>2. LET p == Private!At("cancel", q) IN
            /\ PrivateMovesOn(p) /\ PrivateStays(p) /\ p.event = pc.event
            /\ p.dispatch = pc.dispatch
        BY <1>0, <4>1, PrivatePoints
      <4> QED  BY <1>1, <3>3, <4>2
    <3>5. PrivateGoes(asked, d, pc)
      BY <1>0, <1>1, <3>3
    <3>6. \/ Private!HandleTurnDeadline(asked, d, pc) \/ Private!InterruptTurn(mine, d)
          \/ Private!Continue(mine, d, Private!At("cancel", "waitTurn"))
      BY <1>3, <2>5, PrivateSession DEF Private!RelayCancel, d, mine, asked, Active
    <3>7. CASE Private!HandleTurnDeadline(asked, d, pc)
      BY <1>0, <2>1, <2>2, <3>1, <3>5, <3>7, PrivateTimesOut
    <3>8. CASE Private!InterruptTurn(mine, d)
      BY <1>0, <2>1, <2>2, <3>2, <3>4, <3>8, PrivateInterruptsTurn
    <3>9. CASE Private!Continue(mine, d, Private!At("cancel", "waitTurn"))
      BY <1>0, <3>2, <3>4, <3>9, PrivateContinues
    <3> QED  BY <3>6, <3>7, <3>8, <3>9
  <2> QED
    BY <1>3, <2>1, <2>4, <2>5, PrivateSession DEF Private!RelayCancel, Private!Live, d, Active
<1> QED
  BY <1>2, <1>3, PrivateSession DEF Private!RelayCancel

LEMMA PrivateCancelSteps ==
  ASSUME PrivateInv, Private!CancelLearnsTurn \/ Private!CancelInterrupts
                     \/ Private!CancelInterrupted
  PROVE  PrivateInv' /\ SessionStep
<1>0. /\ UNCHANGED <<Private!truthVars, Private!memoVars, events>> /\ Begun
      /\ PrivateHolds /\ db \in Db /\ att \in Private!Attempt /\ Leads(db, db, att.job)
      /\ att.job \in Jobs
  <2>1. /\ UNCHANGED <<Private!truthVars, Private!memoVars, events>>
        /\ pc.cancel # "idle"
    BY DEF Private!CancelLearnsTurn, Private!CancelInterrupts, Private!CancelInterrupted
  <2> QED  BY <2>1, PrivateSame, PrivateTypes DEF PrivateInv, PrivateParts, PrivateHolds
<1>1. ASSUME NEW b \in {att, Private!Interrupt(att)}
      PROVE  /\ b.active = att.active /\ b.terminal = att.terminal
             /\ \A q \in {"idle", "layout", "interrupt"} :
                  LET p == Private!At("cancel", q) IN
                  PrivateGoes(b, db, p) /\ PrivateStays(p)
  <2>1. /\ b \in Private!Attempt /\ b.job = att.job /\ b.active = att.active
        /\ b.turn = att.turn /\ b.cancel = att.cancel /\ b.ready = att.ready
        /\ b.ambiguous = att.ambiguous /\ b.buffer = att.buffer
        /\ b.terminal = att.terminal
    BY <1>0, PrivateInterruption
  <2> QED  BY <1>0, <2>1, PrivateQuietly, PrivatePoints
<1>2. CASE Private!InterruptTurn(att, db)
  BY <1>0, <1>1, <1>2, PrivateInterruptsTurn
<1>3. CASE \E b \in {att, Private!Interrupt(att)}, q \in {"idle", "interrupt"} :
             \/ Private!Continue(b, db, Private!At("cancel", q))
             \/ Private!FailClosed(b, db, Private!At("cancel", q))
             \/ Private!HandleTurnDeadline(b, db, Private!At("cancel", q))
  <2>1. PICK b \in {att, Private!Interrupt(att)}, q \in {"idle", "interrupt"} :
             \/ Private!Continue(b, db, Private!At("cancel", q))
             \/ Private!FailClosed(b, db, Private!At("cancel", q))
             \/ Private!HandleTurnDeadline(b, db, Private!At("cancel", q))
    BY <1>3
  <2> DEFINE p == Private!At("cancel", q)
  <2>2. /\ b.active = att.active /\ b.terminal = att.terminal
        /\ PrivateGoes(b, db, p) /\ PrivateStays(p)
    BY <1>1
  <2>3. \/ Private!Continue(b, db, p) \/ Private!FailClosed(b, db, p)
        \/ Private!HandleTurnDeadline(b, db, p)
    BY <2>1
  <2> HIDE DEF p
  <2> QED  BY <1>0, <2>2, <2>3, PrivateContinues, PrivateFailsClosed, PrivateTimesOut
<1>4. CASE /\ att.ready = "rejected" /\ ~att.ambiguous
           /\ Private!Continue(att, FinishUnsentBackendCancellation(db, att.job),
                               Private!At("cancel", "idle"))
  <2> DEFINE e == FinishUnsentBackendCancellation(db, att.job)
             p == Private!At("cancel", "idle")
  <2>1. ~att.active
    BY <1>0, <1>4 DEF PrivateHolds
  <2>2. /\ Leads(db, e, att.job) /\ e.chk = db.chk
        /\ e.status[att.job] = db.status[att.job] \/ e.status[att.job] \notin Active
    <3>1. CASE db.status[att.job] = "Cancelling"
      <4>1. runs[att.job] = 0
        BY <1>0, <2>1, <3>1 DEF PrivateHolds, Active
      <4> QED  BY <1>0, <3>1, <4>1, UnsentLeads, StoreKeeps
    <3>2. CASE db.status[att.job] # "Cancelling"
      <4>1. e = db
        BY <3>2 DEF FinishUnsentBackendCancellation, CancelUnknown
      <4> QED  BY <1>0, <4>1
    <3> QED  BY <3>1, <3>2
  <2>3. \A k \in Jobs \ {att.job} : e.status[k] = db.status[k]
    BY <2>2 DEF Leads
  <2> HIDE DEF e
  <2>4. PrivateRecords(att, e)
    BY <1>0, <2>1, <2>2, <2>3 DEF PrivateRecords, PrivateHolds, Active
  <2>5. PrivateMovesOn(p) /\ PrivateStays(p) /\ p.event = pc.event /\ p.dispatch = pc.dispatch
    BY <1>0, PrivatePoints
  <2> HIDE DEF p
  <2>6. PrivateGoes(att, e, p)
    BY <1>0, <2>4, <2>5, PrivateSame DEF PrivateGoes, PrivateQueueMoves
  <2> QED  BY <1>4, <2>5, <2>6, PrivateContinues DEF e, p
<1>5. CASE Private!CancelLearnsTurn
  BY <1>2, <1>3, <1>4, <1>5, PrivateSession DEF Private!CancelLearnsTurn
<1>6. CASE Private!CancelInterrupts \/ Private!CancelInterrupted
  <2>1. \E b \in {att, Private!Interrupt(att)}, q \in {"idle", "interrupt"} :
             \/ Private!Continue(b, db, Private!At("cancel", q))
             \/ Private!FailClosed(b, db, Private!At("cancel", q))
             \/ Private!HandleTurnDeadline(b, db, Private!At("cancel", q))
    BY <1>6 DEF Private!CancelInterrupts, Private!CancelInterrupted
  <2> QED  BY <1>3, <2>1
<1> QED  BY <1>5, <1>6

\* What stays as it was, and the server knows no more.
LEMMA PrivateUntouched ==
  ASSUME PrivateInv, SessionStep, PrivateParts', UNCHANGED <<bstate, held, disc>>,
         UNCHANGED Private!memoVars, UNCHANGED <<att, events, pc, db>>,
         conn' = conn, PrivateWire', PrivateQueue', PrivateTail', PrivateHolds'
  PROVE  PrivateInv'
<1>1. SessionInv'
  BY PrivateTypes, SessionStepKeeps
<1>2. PrivateLife'
  BY DEF PrivateInv, PrivateLife, Private!memoVars
<1> QED  BY <1>1, <1>2, PrivateMade

LEMMA PrivateTransport ==
  ASSUME PrivateInv,
         Private!BreakTransport \/ Private!TimeOutRequest \/ Private!ConfirmClose
  PROVE  PrivateInv' /\ SessionStep
<1>0. PrivateParts /\ PrivateHolds /\ PrivateLife
  BY PrivateTypes DEF PrivateInv
<1>1. /\ UNCHANGED <<bstate, held, disc, runs, att, events, pc, db>>
      /\ UNCHANGED <<cleanup, marker, tries>>
      /\ srv' \in {srv, [srv EXCEPT !.turn = "none"]}
  BY DEF Private!BreakTransport, Private!TimeOutRequest, Private!ConfirmClose,
     Private!memoVars
<1>2. PrivateRequestLost
  <2>1. Private!FailTransport \/ Private!RequestTimeout(Request) \/ Private!AwaitCloseReceipt
    BY DEF Private!BreakTransport, Private!TimeOutRequest, Private!ConfirmClose, Request
  <2> QED  BY <1>0, <2>1, PrivateLost DEF PrivateParts
<1>3. \/ conn' = conn
      \/ conn \in UpStates /\ conn' \in UpStates
      \/ conn = "closing" /\ conn' \in {"closed", "unconfirmed"}
  BY DEF Private!BreakTransport, Private!TimeOutRequest, Private!ConfirmClose,
     Private!FailTransport, Private!RequestTimeout, Private!AwaitCloseReceipt, UpStates
<1>4. PrivateLife'
  BY <1>0, <1>1, <1>3 DEF PrivateLife, UpStates, GoneStates
<1>5. srv' \in PrivateServers /\ PrivateServerMoves
  BY <1>0, <1>1 DEF PrivateParts, PrivateServerMoves, PrivateServers
<1>6. PrivateParts'
  BY <1>0, <1>1, <1>2, <1>5 DEF PrivateParts, PrivateRequestLost
<1>7. PrivateFades(att') /\ PrivateRecords(att', db') /\ PrivateMovesOn(pc')
      /\ PrivateQueueMoves(pc')
  BY <1>1, PrivateSame
<1> QED  BY <1>0, <1>1, <1>2, <1>4, <1>5, <1>6, <1>7, PrivateSettles DEF PrivateHolds

LEMMA PrivateWrites ==
  ASSUME PrivateInv, Private!WriteRequest \/ Private!AnswerRequest
  PROVE  PrivateInv' /\ SessionStep
<1>0. /\ PrivateParts /\ PrivateHolds /\ PrivateWire /\ PrivateQueue /\ PrivateTail
      /\ UNCHANGED <<bstate, held, disc, att, events, pc, db, srv, runs>>
      /\ UNCHANGED Private!memoVars /\ UNCHANGED <<cleanup, marker, tries>>
      /\ conn' = conn
  BY PrivateTypes
  DEF PrivateInv, Private!WriteRequest, Private!AnswerRequest, Private!memoVars,
      Private!Write, Private!HandleResponse
<1>1. SessionStep
  BY <1>0 DEF SessionStep
<1>2. PrivateHolds' /\ PrivateQueue' /\ PrivateTail'
  BY <1>0 DEF PrivateHolds, PrivateQueue, PrivateTail, EndsOnce, TailStored
<1>3. CASE Private!WriteRequest
  <2>1. /\ rpc[Request] = "queued" /\ owed' = owed
        /\ rpc' \in [{Request} -> Private!RpcState] /\ rpc'[Request] \in {"written", "unknown"}
        /\ wire' \in SUBSET {Request}
        /\ rpc'[Request] = "written" \/ rpc'[Request] = "unknown"
    BY <1>0, <1>3
    DEF Private!WriteRequest, Private!Write, PrivateParts, Request, Private!RpcState
  <2>2. PrivateWire'
    BY <1>0, <2>1 DEF PrivateWire, PrivateHolds
  <2> QED  BY <1>0, <1>1, <1>2, <2>1, <2>2, PrivateUntouched DEF PrivateParts
<1>4. CASE Private!AnswerRequest
  <2>1. /\ Request \in owed /\ owed' = {} /\ wire' = wire
        /\ rpc' \in [{Request} -> Private!RpcState]
        /\ \/ rpc'[Request] = rpc[Request] /\ rpc[Request] # "written"
           \/ rpc[Request] = "written" /\ rpc'[Request] \in {"ok", "refused"}
    BY <1>0, <1>4
    DEF Private!AnswerRequest, Private!HandleResponse, PrivateParts, Request,
        Private!RpcState
  <2>2. wire = {}
    BY <1>0, <2>1 DEF PrivateWire, PrivateParts
  <2>3. PrivateWire'
    BY <1>0, <2>1, <2>2 DEF PrivateWire, PrivateHolds
  <2> QED  BY <1>0, <1>1, <1>2, <2>1, <2>2, <2>3, PrivateUntouched DEF PrivateParts
<1> QED  BY <1>3, <1>4

\* The request reaches the program.
LEMMA PrivateReads ==
  ASSUME PrivateInv, Private!ReadRequest
  PROVE  PrivateInv' /\ SessionStep
<1>0. /\ PrivateParts /\ PrivateHolds /\ PrivateWire /\ PrivateQueue /\ PrivateTail
      /\ db \in Db /\ runs \in [Jobs -> Nat]
  BY PrivateTypes DEF PrivateInv
<1>1. /\ UNCHANGED <<bstate, held, disc, att, events, pc, db>> /\ UNCHANGED Private!memoVars
      /\ UNCHANGED <<cleanup, marker, tries>> /\ conn' = conn /\ rpc' = rpc
      /\ Request \in wire /\ wire' = wire \ {Request} /\ owed' = owed \cup {Request}
      /\ srv' = [srv EXCEPT !.turn = "running", !.said = FALSE]
      /\ runs' = [runs EXCEPT ![att.job] = @ + 1]
  BY DEF Private!ReadRequest, Private!Receive, Private!memoVars, Request
<1>2. /\ att.active /\ att.job \in Jobs /\ runs[att.job] = 0 /\ ~att.turn
      /\ db.status[att.job] \in Active \cup Unknown
      /\ rpc[Request] \in {"written", "unknown"}
  BY <1>0, <1>1 DEF PrivateHolds, PrivateWire
<1>3. runs'[att.job] = 1
  BY <1>0, <1>1, <1>2
<1>4. SessionStep
  BY <1>1, <1>2 DEF SessionStep, Begins
<1>5. PrivateParts'
  BY <1>0, <1>1 DEF PrivateParts, PrivateServers
<1>6. PrivateHolds'
  BY <1>0, <1>1, <1>2, <1>3 DEF PrivateHolds
<1>7. wire' = {}
  BY <1>0, <1>1 DEF PrivateParts
<1>8. PrivateWire'
  BY <1>0, <1>1, <1>2, <1>3, <1>7 DEF PrivateWire, PrivateHolds
<1>9. PrivateQueue'
  <2>1. disc = "none" => events = <<>> /\ att.buffer = <<>>
    BY <1>0, <1>2 DEF PrivateQueue
  <2>2. disc = "none" => EndsOnce(att.buffer)'
    BY <1>1, <2>1 DEF EndsOnce
  <2> QED  BY <1>0, <1>1, <1>2, <1>3, <2>1, <2>2 DEF PrivateQueue
<1>10. PrivateTail'
  BY <1>1, <1>2, <1>3 DEF PrivateTail
<1> QED  BY <1>1, <1>4, <1>5, <1>6, <1>8, <1>9, <1>10, PrivateUntouched

LEMMA AppendOf ==
  ASSUME NEW S, NEW s \in Seq(S), NEW e \in S
  PROVE  /\ Append(s, e) \in Seq(S) /\ Append(s, e) # <<>>
         /\ Len(s) \in Nat /\ Len(Append(s, e)) = Len(s) + 1
         /\ \A i \in 1..Len(s) : Append(s, e)[i] = s[i]
         /\ Append(s, e)[Len(s) + 1] = e
         /\ s # <<>> => Head(Append(s, e)) = Head(s)
<1>1. /\ Append(s, e) \in Seq(S) /\ Append(s, e) # <<>>
      /\ Len(s) \in Nat /\ Len(Append(s, e)) = Len(s) + 1
      /\ \A i \in 1..Len(s) : Append(s, e)[i] = s[i]
      /\ Append(s, e)[Len(s) + 1] = e
  BY AppendProperties, LenProperties
<1>2. ASSUME s # <<>> PROVE Head(Append(s, e)) = Head(s)
  <2>1. Head(s) = s[1] /\ Len(s) \in Nat \ {0} /\ Head(Append(s, e)) = Append(s, e)[1]
    BY <1>1, <1>2, TailsOf
  <2> QED  BY <1>1, <2>1
<1> QED  BY <1>1, <1>2

\* The turn says something.
LEMMA PrivateHears ==
  ASSUME PrivateInv, NEW note \in Private!Note, srv.turn = "running",
         srv' \in PrivateServers, note \in Endings => srv'.turn = "none",
         UNCHANGED <<Private!memoVars, wire, owed, runs>>,
         Private!ReceiveNotification(note)
  PROVE  PrivateInv' /\ SessionStep
<1>0. /\ PrivateParts /\ PrivateHolds /\ PrivateWire /\ PrivateQueue /\ PrivateTail
      /\ PrivateLife /\ att \in Private!Attempt /\ att.buffer \in Seq(Private!Note)
      /\ events \in Seq(PrivateEvents) /\ db \in Db
      /\ UNCHANGED <<cleanup, marker, tries>>
  BY PrivateTypes DEF PrivateInv, PrivateParts, Private!Attempt, Private!memoVars
<1>1. CASE Private!Continue(att, db, pc) /\ UNCHANGED events
  <2>1. PrivateGoes(att, db, pc)
    BY <1>0, <1>1, PrivateSame DEF PrivateGoes, PrivateServerMoves, PrivateParts
  <2> QED  BY <1>1, <2>1, PrivateSame, PrivateContinues
<1>2. CASE Private!Live(att) /\ Private!FailClosed(att, db, pc) /\ UNCHANGED events
  <2>1. PrivateGoes(att, db, pc)
    BY <1>0, <1>2, PrivateSame DEF PrivateGoes, PrivateServerMoves, PrivateParts
  <2>2. Begun
    BY <1>2, PrivateSame DEF Private!Live
  <2> QED  BY <1>2, <2>1, <2>2, PrivateSame, PrivateFailsClosed
<1>3. ASSUME Private!Live(att), UNCHANGED <<conn, rpc, bstate, held, disc, db, pc>>,
             att' \in Private!Attempt, att'.job = att.job, att'.active, att'.turn = att.turn,
             att'.cancel = att.cancel, att'.terminal = att.terminal,
             att'.ready = att.ready, att'.ambiguous = att.ambiguous,
             events' \in Seq(PrivateEvents), PrivateQueue'
      PROVE  PrivateInv' /\ SessionStep
  <2>1. att.active /\ att'.active = att.active
    BY <1>0, <1>3 DEF Private!Live, Private!Attempt
  <2>2. SessionStep
    BY <1>3 DEF SessionStep
  <2>3. SessionInv'
    BY <2>2, PrivateTypes, SessionStepKeeps
  <2>4. PrivateParts'
    BY <1>0, <1>3 DEF PrivateParts
  <2>5. PrivateHolds'
    BY <1>0, <1>3, <2>1 DEF PrivateHolds
  <2>6. PrivateWire'
    BY <1>0, <1>3, <2>1 DEF PrivateWire
  <2>7. PrivateTail'
    BY <1>0, <1>3, <2>1 DEF PrivateTail, TailStored
  <2>8. PrivateLife'
    BY <1>0, <1>3, <2>1 DEF PrivateLife
  <2> QED  BY <1>3, <2>2, <2>3, <2>4, <2>5, <2>6, <2>7, <2>8, PrivateMade
<1>4. CASE /\ Private!Live(att) /\ ~att.turn /\ UNCHANGED events
           /\ Private!Continue([att EXCEPT !.buffer = Append(@, note)], db, pc)
  <2>1. /\ att' = [att EXCEPT !.buffer = Append(att.buffer, note)]
        /\ UNCHANGED <<conn, rpc, bstate, held, disc, db, pc>>
    BY <1>4 DEF Private!Continue, Private!lifeVars
  <2>2. /\ Append(att.buffer, note) \in Seq(Private!Note) /\ Len(att.buffer) \in Nat
        /\ Len(Append(att.buffer, note)) = Len(att.buffer) + 1
        /\ \A i \in 1..Len(att.buffer) : Append(att.buffer, note)[i] = att.buffer[i]
        /\ Append(att.buffer, note)[Len(att.buffer) + 1] = note
    BY <1>0, AppendOf
  <2>3. /\ att' \in Private!Attempt /\ att'.job = att.job /\ att'.active = att.active
        /\ att'.turn = att.turn /\ att'.cancel = att.cancel /\ att'.terminal = att.terminal
        /\ att'.ready = att.ready /\ att'.ambiguous = att.ambiguous
        /\ att'.buffer = Append(att.buffer, note)
    BY <1>0, <2>1, <2>2 DEF Private!Attempt
  <2>4. att.active /\ events' = events
    BY <1>4 DEF Private!Live
  <2>5. PrivateQueue'
    <3>1. disc = "none" => EndsOnce(att.buffer) /\ events = <<>> /\ runs[att.job] # 0
      BY <1>0, <1>4, <2>4 DEF PrivateQueue
    <3>2. disc = "none" => EndsOnce(att.buffer)'
      BY <2>2, <2>3, <3>1 DEF EndsOnce
    <3> QED  BY <1>0, <1>4, <2>1, <2>3, <2>4, <3>1, <3>2 DEF PrivateQueue
  <2> QED  BY <1>0, <1>3, <1>4, <2>1, <2>3, <2>4, <2>5
<1>5. CASE /\ Private!Live(att) /\ att.turn /\ events' = Append(events, note)
           /\ Private!Continue(att, db, pc)
  <2>1. att' = att /\ UNCHANGED <<conn, rpc, bstate, held, disc, db, pc>> /\ att.active
    BY <1>5 DEF Private!Continue, Private!lifeVars, Private!Live
  <2>2. /\ events' \in Seq(PrivateEvents) /\ events' # <<>> /\ Len(events) \in Nat
        /\ Len(events') = Len(events) + 1
        /\ \A i \in 1..Len(events) : events'[i] = events[i]
        /\ events'[Len(events) + 1] = note
        /\ events # <<>> => Head(events') = Head(events)
    BY <1>0, <1>5, AppendOf DEF PrivateEvents
  <2>3. note # "accepted"
    BY DEF Private!Note
  <2>4. PrivateQueue'
    <3>1. disc = "none" => EndsOnce(events)'
      BY <1>0, <1>5, <2>1, <2>2 DEF PrivateQueue, EndsOnce
    <3>2. disc = "none" => \A i \in 1..Len(events') : events'[i] = "accepted" =>
            i = 1 /\ pc.event = "idle" /\ att.active /\ att.turn
      BY <1>0, <2>2, <2>3 DEF PrivateQueue
    <3>3. disc = "none" => runs[att.job] # 0
      BY <1>0, <2>1 DEF PrivateQueue
    <3> QED  BY <1>0, <1>5, <2>1, <2>2, <3>1, <3>2, <3>3 DEF PrivateQueue
  <2> QED  BY <1>0, <1>3, <1>5, <2>1, <2>2, <2>4
<1> QED  BY <1>1, <1>2, <1>4, <1>5 DEF Private!ReceiveNotification

LEMMA PrivateSays ==
  ASSUME PrivateInv, Private!Say \/ Private!EndTurn
  PROVE  PrivateInv' /\ SessionStep
<1>0. srv \in PrivateServers
  BY PrivateTypes DEF PrivateParts
<1>1. CASE Private!Say
  <2>1. srv' \in PrivateServers
    BY <1>0, <1>1 DEF Private!Say, PrivateServers
  <2>2. "item" \in Private!Note /\ "item" \notin Endings
    BY DEF Private!Note, Endings
  <2> QED  BY <1>1, <2>1, <2>2, PrivateHears DEF Private!Say
<1>2. CASE Private!EndTurn
  <2>1. PICK note \in Endings, sys \in BOOLEAN :
          /\ srv' = [turn |-> "none", said |-> FALSE, n |-> srv.n + 1,
                     last |-> Private!TerminalStatus(note), sys |-> sys]
          /\ Private!ReceiveNotification(note)
    BY <1>2 DEF Private!EndTurn, Endings
  <2>2. Private!TerminalStatus(note) \in TurnStatus
    BY DEF Private!TerminalStatus, TurnStatus, Endings
  <2>3. srv' \in PrivateServers /\ srv'.turn = "none"
    BY <1>0, <2>1, <2>2 DEF PrivateServers
  <2>4. note \in Private!Note
    BY DEF Private!Note, Endings
  <2> QED  BY <1>2, <2>1, <2>3, <2>4, PrivateHears DEF Private!EndTurn
<1> QED  BY <1>1, <1>2

LEMMA PrivateExits ==
  ASSUME PrivateInv, Private!OnProcessExit
  PROVE  PrivateInv' /\ SessionStep
<1>0. /\ PrivateParts /\ PrivateHolds /\ PrivateLife /\ db \in Db
      /\ PrivateFades(att) /\ PrivateRecords(att, db) /\ PrivateMovesOn(pc)
      /\ PrivateQueueMoves(pc)
      /\ UNCHANGED <<runs, events, cleanup, marker, tries>>
      /\ srv' = [srv EXCEPT !.turn = "none"]
  BY PrivateSame, PrivateTypes
  DEF PrivateInv, Private!OnProcessExit, Private!memoVars
<1>1. srv' \in PrivateServers /\ PrivateServerMoves
  BY <1>0 DEF PrivateParts, PrivateServerMoves, PrivateServers
<1>2. PICK next \in {"closing", "exited"} :
        /\ Private!HandleExit(next)
        /\ \/ /\ next = "exited" /\ UNCHANGED <<bstate, held, disc, att, pc, db>>
           \/ /\ next = "closing" /\ bstate' = "recovering" /\ bstate = "running"
              /\ pc.start = "done" /\ disc = "none" /\ ~att.active /\ tries < MaxTries
              /\ pc' = Private!At("recovery", "closing")
              /\ UNCHANGED <<held, disc, att, db>>
           \/ /\ next = "closing" /\ pc.start = "done" /\ bstate = "running"
              /\ att' = Private!EndAttempt(att)
              /\ db' \in {MarkBackendDisconnected(db),
                          MarkBackendDisconnected(Quarantine(db))}
              /\ bstate' = "failed" /\ held' = FALSE /\ disc' = "closing" /\ pc' = pc
  BY PrivateSession DEF Private!OnProcessExit, Private!RecoveryEligible
<1>3. /\ conn \in {"running", "broken"} /\ conn' = next
      /\ rpc' \in [{Request} -> Private!RpcState] /\ conn' \in Private!ConnState
      /\ wire' = {} /\ owed' = {} /\ PrivateRequestLost
  BY <1>0, <1>2, PrivateLost
  DEF PrivateParts, Private!HandleExit, PrivateRequestLost
<1>4. CASE next = "exited" /\ UNCHANGED <<bstate, held, disc, att, pc, db>>
  <2>1. PrivateLife'
    BY <1>0, <1>3, <1>4 DEF PrivateLife, UpStates, GoneStates
  <2>2. PrivateParts'
    BY <1>0, <1>1, <1>3, <1>4 DEF PrivateParts
  <2> QED
    BY <1>0, <1>1, <1>3, <1>4, <2>1, <2>2, PrivateSettles DEF PrivateHolds
<1>5. CASE /\ next = "closing" /\ bstate' = "recovering" /\ bstate = "running"
           /\ pc.start = "done" /\ disc = "none" /\ ~att.active /\ tries < MaxTries
           /\ pc' = Private!At("recovery", "closing")
           /\ UNCHANGED <<held, disc, att, db>>
  <2>1. /\ pc' \in Private!Control /\ pc'.recovery = "closing"
        /\ \A a \in Activities \ {"recovery"} : pc'[a] = pc[a]
    BY <1>0, <1>5, PrivateAt DEF PrivateParts, Activities
  <2>2. /\ pc'.dispatch = pc.dispatch /\ pc'.cancel = pc.cancel /\ pc'.event = pc.event
        /\ pc'.start = pc.start /\ pc'.stop = pc.stop
    BY <2>1 DEF Activities
  <2>3. PrivateLife'
    BY <1>0, <1>3, <1>5, <2>1, <2>2 DEF PrivateLife, UpStates, GoneStates
  <2>4. PrivateParts'
    BY <1>0, <1>1, <1>3, <1>5, <2>1 DEF PrivateParts, PrivateStates
  <2>5. PrivateMovesOn(pc') /\ PrivateQueueMoves(pc')
    BY <1>0, <2>1, <2>2 DEF PrivateMovesOn, PrivateQueueMoves
  <2> QED
    BY <1>0, <1>1, <1>3, <1>5, <2>2, <2>3, <2>4, <2>5, PrivateSettles DEF PrivateHolds
<1>6. CASE /\ next = "closing" /\ pc.start = "done" /\ bstate = "running"
           /\ att' = Private!EndAttempt(att)
           /\ db' \in {MarkBackendDisconnected(db),
                       MarkBackendDisconnected(Quarantine(db))}
           /\ bstate' = "failed" /\ held' = FALSE /\ disc' = "closing" /\ pc' = pc
  <2>1. PICK d \in {db, Quarantine(db)} : db' = MarkBackendDisconnected(d)
    BY <1>6
  <2>2. Leads(db, d, att.job) /\ PrivateRecords(att, d)
    BY <2>1, PrivateSame
  <2>3. /\ PrivateFades(att') /\ PrivateRecords(att', db')
        /\ \A j \in Jobs : db'.status[j] \notin Active
    BY <1>0, <1>6, <2>1, <2>2, PrivateLosesJob
  <2>4. PrivateParts'
    BY <1>0, <1>1, <1>3, <1>6, <2>3 DEF PrivateParts, PrivateFades, PrivateStates
  <2>5. PrivateLife'
    BY <1>0, <1>3, <1>6 DEF PrivateLife, UpStates, GoneStates
  <2> QED
    BY <1>0, <1>1, <1>3, <1>6, <2>3, <2>4, <2>5, PrivateSettles DEF PrivateMovesOn
<1> QED  BY <1>2, <1>4, <1>5, <1>6

-----------------------------------------------------------------------------
(* dispatch of the Codex backend with a private key.                       *)

\* Only dispatch moves.
LEMMA PrivateDispatchAt ==
  ASSUME PrivateInv, NEW q \in {"idle", "account", "tail", "start", "disabling", "notSent"}
  PROVE  LET p == Private!At("dispatch", q) IN
         /\ p \in Private!Control /\ p.dispatch = q /\ p.cancel = pc.cancel
         /\ p.event = pc.event /\ p.deadline = pc.deadline /\ p.recovery = pc.recovery
         /\ p.start = pc.start /\ p.stop = pc.stop
BY PrivateTypes, PrivateAt DEF PrivateParts, Activities

LEMMA PrivateDispatches ==
  ASSUME PrivateInv, NEW j \in Jobs, Private!Dispatch(j)
  PROVE  PrivateInv' /\ SessionStep
<1>0. /\ PrivateParts /\ PrivateHolds /\ PrivateWire /\ PrivateQueue /\ PrivateTail
      /\ PrivateLife /\ db \in Db /\ SessionInv /\ runs \in [Jobs -> Nat]
  BY PrivateTypes DEF PrivateInv
<1>1. /\ bstate = "running" /\ held /\ disc = "none" /\ ~att.active /\ pc.cancel = "idle"
      /\ pc.stop = "no" /\ pc.dispatch = "idle" /\ Claimable(j)
      /\ att' = Private!NewAttempt(j) /\ db' = ClaimForBackendDispatch(db, j)
      /\ pc' = Private!At("dispatch", "account")
      /\ rpc' \in [{Request} -> Private!RpcState] /\ rpc'[Request] = "idle"
      /\ UNCHANGED <<conn, bstate, held, disc, cleanup, marker, tries, wire, owed, srv,
                     runs, events>>
  BY PrivateSession
  DEF Private!Dispatch, Private!Ready, Private!memoVars, Private!truthVars, Request,
      Private!RpcState
<1>2. /\ events = <<>> /\ pc.event = "idle" /\ wire = {} /\ owed = {}
      /\ srv.turn = "none" /\ TailStored
  BY <1>0, <1>1 DEF PrivateQueue, PrivateWire, PrivateTail, Claimable, TailStored
<1>3. /\ pc' \in Private!Control /\ pc'.dispatch = "account" /\ pc'.cancel = "idle"
      /\ pc'.event = "idle" /\ pc'.start = pc.start /\ pc'.stop = "no"
      /\ pc'.recovery = pc.recovery
  BY <1>1, <1>2, PrivateDispatchAt
<1>4. /\ att' \in Private!Attempt /\ att'.job = j /\ att'.active /\ ~att'.turn
      /\ att'.ready = "open" /\ ~att'.cancel /\ ~att'.terminal /\ att'.buffer = <<>>
  <2>1. j \in Jobs \cup {NoJob} /\ j # NoJob
    BY NoJobIsNone
  <2>2. <<>> \in Seq(Private!Note)
    OBVIOUS
  <2> QED
    BY <1>1, <2>1, <2>2, PrivateSession DEF Private!NewAttempt, Private!Attempt
<1>5. /\ SessionStep /\ SessionInv'
  BY <1>0, <1>1, SessionStepKeeps DEF SessionStep, Claims
<1>6. /\ runs[j] = 0 /\ db'.status[j] = "Dispatching"
      /\ db'.quarantined = db.quarantined /\ db'.chk = db.chk
      /\ \A k \in Jobs \ {j} : db'.status[k] \notin Active
  BY <1>0, <1>1 DEF SessionInv, Claimable, NoActiveJob, ClaimForBackendDispatch, Db
<1>7. PrivateHolds'
  BY <1>1, <1>3, <1>4, <1>6 DEF PrivateHolds, Active
<1>8. PrivateWire'
  BY <1>1, <1>2, <1>3, <1>4, <1>6 DEF PrivateWire
<1>9. PrivateQueue'
  BY <1>1, <1>2, <1>3, <1>4 DEF PrivateQueue, EndsOnce
<1>10. PrivateTail'
  BY <1>1, <1>2, <1>6 DEF PrivateTail, TailStored
<1>11. PrivateLife'
  BY <1>0, <1>1, <1>3, <1>6 DEF PrivateLife
<1>12. PrivateParts'
  BY <1>0, <1>1, <1>3, <1>4 DEF PrivateParts
<1> QED  BY <1>5, <1>7, <1>8, <1>9, <1>10, <1>11, <1>12, PrivateMade

\* dispatch ends before anything was sent.
LEMMA PrivateRefuses ==
  ASSUME PrivateInv, pc.dispatch \in {"account", "tail", "start"}, runs[att.job] = 0,
         rpc[Request] \notin {"queued", "written", "unknown"},
         att' \in Private!Attempt, att'.job = att.job, ~att'.active,
         att'.cancel = att.cancel, db' \in {db, Quarantine(db)},
         UNCHANGED <<disc, wire, owed, srv, runs, events, cleanup, tries>>,
         marker' \in BOOLEAN,
         \E q \in {"notSent", "disabling"} : pc' = Private!At("dispatch", q),
         \/ UNCHANGED <<conn, rpc, bstate, held>>
         \/ Private!DropClient /\ bstate' \in {"failed", "stopping"}
  PROVE  PrivateInv' /\ SessionStep
<1>0. /\ PrivateParts /\ PrivateHolds /\ PrivateWire /\ PrivateQueue /\ PrivateTail
      /\ PrivateLife /\ db \in Db
  BY PrivateTypes DEF PrivateInv
<1>1. /\ pc' \in Private!Control /\ pc'.dispatch \in {"notSent", "disabling"}
      /\ pc'.event = pc.event /\ pc'.start = pc.start /\ pc'.stop = pc.stop
      /\ pc'.recovery = pc.recovery /\ pc'.cancel = pc.cancel
  BY PrivateDispatchAt
<1>2. /\ att.active /\ ~att.turn /\ att.job \in Jobs /\ wire = {} /\ owed = {}
      /\ disc = "none" => events = <<>> /\ pc.event = "idle"
  BY <1>0 DEF PrivateHolds, PrivateWire, PrivateQueue
<1>3. /\ db'.status = db.status /\ db'.chk = db.chk /\ Leads(db, db', att.job)
      /\ db' = db \/ db'.quarantined
  BY <1>0, QuarantineLeads, LeadsNowhere
<1>4. SessionStep
  BY <1>2, <1>3 DEF SessionStep, Moves
<1>5. SessionInv'
  BY <1>4, PrivateTypes, SessionStepKeeps
<1>6. /\ bstate' = bstate \/ bstate' \in {"failed", "stopping"}
      /\ held' \in BOOLEAN /\ PrivateRequestLost
      /\ \/ UNCHANGED <<conn, held>>
         \/ held' = FALSE /\ bstate' \in {"failed", "stopping"}
            /\ conn' = IF held /\ conn \in UpStates THEN "closing" ELSE conn
  BY <1>0, PrivateDrops, PrivateLost DEF PrivateParts
<1>7. rpc'[Request] = rpc[Request]
  BY <1>6 DEF PrivateRequestLost
<1>8. PrivateHolds'
  BY <1>0, <1>1, <1>2, <1>3 DEF PrivateHolds
<1>9. PrivateWire'
  BY <1>0, <1>1, <1>2, <1>7 DEF PrivateWire
<1>10. PrivateQueue'
  BY <1>0, <1>1, <1>2, <1>6 DEF PrivateQueue
<1>11. PrivateTail'
  BY <1>0, <1>3, <1>6 DEF PrivateTail, TailStored
<1>12. PrivateLife'
  BY <1>0, <1>1, <1>3, <1>6 DEF PrivateLife, UpStates, GoneStates, Leads
<1>13. PrivateParts'
  BY <1>0, <1>1, <1>6 DEF PrivateParts, PrivateRequestLost, PrivateStates
<1> QED  BY <1>4, <1>5, <1>8, <1>9, <1>10, <1>11, <1>12, <1>13, PrivateMade

LEMMA PrivateUnsent ==
  ASSUME PrivateInv, NEW a \in {att, Private!ClearTurnDeadline(att)}
  PROVE  LET r == Private!Refused(a) IN
         r \in Private!Attempt /\ r.job = att.job /\ ~r.active /\ r.cancel = att.cancel
<1>1. a \in Private!Attempt /\ a.job = att.job /\ a.cancel = att.cancel
  BY PrivateTypes, PrivateAttempts DEF PrivateParts
<1> QED  BY <1>1 DEF Private!Refused, Private!Attempt

LEMMA PrivatePreflight ==
  ASSUME PrivateInv, pc.dispatch \in {"account", "tail"}
  PROVE  /\ runs[att.job] = 0 /\ rpc[Request] = "idle"
         /\ Private!RefuseDispatch => PrivateInv' /\ SessionStep
<1>1. runs[att.job] = 0 /\ rpc[Request] = "idle" /\ PrivateParts
  BY PrivateTypes DEF PrivateInv, PrivateWire
<1>2. ASSUME Private!RefuseDispatch PROVE PrivateInv' /\ SessionStep
  <2>1. /\ att' = Private!Refused(att) /\ db' = Quarantine(db)
        /\ pc' = Private!At("dispatch", IF held THEN "disabling" ELSE "notSent")
        /\ bstate' = Private!Failed /\ Private!DropClient /\ UNCHANGED disc
        /\ UNCHANGED <<Private!memoVars, Private!truthVars, events>>
    BY <1>2, PrivateSession DEF Private!RefuseDispatch, Private!Disable
  <2>2. bstate' \in {"failed", "stopping"}
    BY <2>1 DEF Private!Failed
  <2>3. UNCHANGED <<wire, owed, srv, runs, cleanup, tries, marker>> /\ marker' \in BOOLEAN
    BY <1>1, <2>1 DEF Private!memoVars, Private!truthVars, PrivateParts
  <2>4. \E q \in {"notSent", "disabling"} : pc' = Private!At("dispatch", q)
    BY <2>1
  <2> QED  BY <1>1, <2>1, <2>2, <2>3, <2>4, PrivateUnsent, PrivateRefuses
<1> QED  BY <1>1, <1>2

LEMMA PrivateAccountRead ==
  ASSUME PrivateInv, Private!AccountRead
  PROVE  PrivateInv' /\ SessionStep
<1>1. CASE Private!RefuseDispatch
  BY <1>1, PrivatePreflight DEF Private!AccountRead
<1>2. CASE /\ Private!Continue(att, db, Private!At("dispatch", "tail"))
           /\ UNCHANGED <<Private!memoVars, Private!truthVars, events>>
  <2> DEFINE p == Private!At("dispatch", "tail")
  <2>1. PrivateMovesOn(p) /\ PrivateStays(p) /\ p.dispatch = "tail" /\ p.event = pc.event
    BY PrivateSame, PrivatePoints, PrivateDispatchAt DEF Private!AccountRead
  <2>2. PrivateGoes(att, db, p)
    <3> HIDE DEF p
    <3> QED
      BY <1>2, <2>1, PrivateSame DEF PrivateGoes, PrivateQueueMoves
  <2> HIDE DEF p
  <2>3. Private!Continue(att, db, p)
    BY <1>2 DEF p
  <2> QED  BY <2>1, <2>2, <2>3, PrivateContinues
<1> QED  BY <1>1, <1>2 DEF Private!AccountRead

\* turn/start is asked for.
LEMMA PrivateAsks ==
  ASSUME PrivateInv, pc.dispatch = "tail", bstate = "running", disc = "none",
         Private!Ask("start", [att EXCEPT !.deadline = "armed"], db,
                     Private!At("dispatch", "start")),
         marker' \in BOOLEAN, UNCHANGED <<cleanup, tries, Private!truthVars, events>>
  PROVE  PrivateInv' /\ SessionStep
<1>0. /\ PrivateParts /\ PrivateHolds /\ PrivateWire /\ PrivateQueue /\ PrivateTail
      /\ PrivateLife /\ db \in Db
  BY PrivateTypes DEF PrivateInv
<1>1. /\ pc' \in Private!Control /\ pc'.dispatch = "start"
      /\ pc'.event = pc.event /\ pc'.start = pc.start /\ pc'.stop = pc.stop
      /\ pc'.recovery = pc.recovery /\ pc'.cancel = pc.cancel
  BY PrivateDispatchAt DEF Private!Ask
<1>2. /\ att' = [att EXCEPT !.deadline = "armed"] /\ db' = db /\ rpc' = Private!Asked("start")
      /\ UNCHANGED <<conn, bstate, held, disc, wire, owed, srv, runs>>
  BY DEF Private!Ask, Private!truthVars
<1>3. /\ att' \in Private!Attempt /\ att'.job = att.job /\ att'.active = att.active
      /\ att'.turn = att.turn /\ att'.cancel = att.cancel /\ att'.terminal = att.terminal
      /\ att'.ready = att.ready /\ att'.ambiguous = att.ambiguous
      /\ att'.buffer = att.buffer
  BY <1>0, <1>2 DEF PrivateParts, Private!Attempt
<1>4. rpc' \in [{Request} -> Private!RpcState] /\ rpc'[Request] \in {"queued", "unknown"}
  BY <1>0, <1>2 DEF Private!Asked, PrivateParts, Request, Private!RpcState
<1>5. runs[att.job] = 0 /\ wire = {} /\ owed = {} /\ att.active /\ ~att.turn
  BY <1>0 DEF PrivateWire, PrivateHolds
<1>6. SessionStep
  BY <1>2 DEF SessionStep
<1>7. SessionInv'
  BY <1>6, PrivateTypes, SessionStepKeeps
<1>8. PrivateHolds'
  BY <1>0, <1>1, <1>2, <1>3, <1>5 DEF PrivateHolds
<1>9. PrivateWire'
  BY <1>1, <1>2, <1>3, <1>4, <1>5 DEF PrivateWire
<1>10. PrivateQueue' /\ PrivateTail'
  BY <1>0, <1>1, <1>2, <1>3 DEF PrivateQueue, PrivateTail, TailStored, EndsOnce
<1>11. PrivateLife'
  BY <1>0, <1>1, <1>2, <1>3 DEF PrivateLife
<1>12. PrivateParts'
  BY <1>0, <1>1, <1>2, <1>3, <1>4 DEF PrivateParts
<1> QED  BY <1>6, <1>7, <1>8, <1>9, <1>10, <1>11, <1>12, PrivateMade

LEMMA PrivateTailRead ==
  ASSUME PrivateInv, Private!ThreadTailRead
  PROVE  PrivateInv' /\ SessionStep
<1>1. pc.dispatch = "tail" /\ PrivateParts
  BY PrivateTypes DEF Private!ThreadTailRead
<1>2. CASE Private!RefuseDispatch
  BY <1>1, <1>2, PrivatePreflight
<1>3. ASSUME marker' = (marker /\ srv.sys),
             UNCHANGED <<cleanup, tries, Private!truthVars, events>>
      PROVE  marker' \in BOOLEAN /\ UNCHANGED <<wire, owed, srv, runs>>
  BY <1>1, <1>3 DEF PrivateParts, Private!truthVars
<1>4. CASE /\ marker' = (marker /\ srv.sys)
           /\ UNCHANGED <<cleanup, tries, Private!truthVars, events>>
           /\ Private!Continue(Private!Refused(att), db, Private!At("dispatch", "notSent"))
  <2>1. /\ att' = Private!Refused(att) /\ db' = db
        /\ pc' = Private!At("dispatch", "notSent")
        /\ UNCHANGED <<conn, rpc, bstate, held, disc>>
    BY <1>4 DEF Private!Continue, Private!lifeVars
  <2> QED
    BY <1>1, <1>3, <1>4, <2>1, PrivatePreflight, PrivateUnsent, PrivateRefuses
<1>5. CASE /\ marker' = (marker /\ srv.sys) /\ Private!Ready
           /\ UNCHANGED <<cleanup, tries, Private!truthVars, events>>
           /\ Private!Ask("start", [att EXCEPT !.deadline = "armed"], db,
                          Private!At("dispatch", "start"))
  BY <1>1, <1>3, <1>5, PrivateAsks DEF Private!Ready
<1> QED  BY <1>2, <1>4, <1>5 DEF Private!ThreadTailRead

LEMMA PrivateTurnStarted ==
  ASSUME PrivateInv, Private!TurnStarted
  PROVE  PrivateInv' /\ SessionStep
<1>0. /\ PrivateParts /\ PrivateHolds /\ PrivateWire /\ PrivateQueue /\ PrivateTail
      /\ PrivateLife /\ db \in Db /\ events \in Seq(PrivateEvents)
      /\ att \in Private!Attempt /\ att.buffer \in Seq(Private!Note)
  BY PrivateTypes DEF PrivateInv, PrivateParts, Private!Attempt
<1>1. /\ pc.dispatch = "start" /\ rpc[Request] = "ok"
      /\ events' = events \o <<"accepted">> \o att.buffer
      /\ att' = [att EXCEPT !.turn = TRUE, !.ready = "resolved", !.buffer = <<>>]
      /\ db' = db /\ pc' = Private!At("dispatch", "idle")
      /\ UNCHANGED <<conn, rpc, bstate, held, disc, cleanup, marker, tries, wire, owed,
                     srv, runs>>
  BY DEF Private!TurnStarted, Private!Continue, Private!lifeVars, Private!memoVars,
     Private!truthVars, Request
<1>2. /\ pc' \in Private!Control /\ pc'.dispatch = "idle" /\ pc'.cancel = pc.cancel
      /\ pc'.event = pc.event /\ pc'.start = pc.start /\ pc'.stop = pc.stop
      /\ pc'.recovery = pc.recovery
  BY <1>1, PrivateDispatchAt
<1>3. /\ att.active /\ ~att.turn /\ runs[att.job] = 1 /\ wire = {} /\ owed = {}
      /\ disc = "none" => events = <<>> /\ pc.event = "idle" /\ EndsOnce(att.buffer)
  BY <1>0, <1>1 DEF PrivateHolds, PrivateWire, PrivateQueue
<1>4. /\ att' \in Private!Attempt /\ att'.job = att.job /\ att'.active = att.active
      /\ att'.turn /\ att'.cancel = att.cancel /\ att'.terminal = att.terminal
      /\ att'.ready = "resolved" /\ att'.buffer = <<>>
  <2>1. <<>> \in Seq(Private!Note)
    OBVIOUS
  <2> QED  BY <1>0, <1>1, <2>1 DEF Private!Attempt
<1>5. /\ <<"accepted">> \in Seq(PrivateEvents) /\ Len(<<"accepted">>) = 1
      /\ <<"accepted">>[1] = "accepted" /\ att.buffer \in Seq(PrivateEvents)
      /\ Len(att.buffer) \in Nat
  <2>1. Private!Note \subseteq PrivateEvents /\ "accepted" \in PrivateEvents
    BY DEF PrivateEvents
  <2> QED  BY <1>0, <2>1
<1> DEFINE first == <<"accepted">> \o att.buffer
<1>6. /\ first \in Seq(PrivateEvents) /\ Len(first) = 1 + Len(att.buffer)
      /\ \A i \in 1..(1 + Len(att.buffer)) :
           first[i] = IF i = 1 THEN "accepted" ELSE att.buffer[i - 1]
  <2>1. /\ first \in Seq(PrivateEvents) /\ Len(first) = 1 + Len(att.buffer)
        /\ \A i \in 1..(1 + Len(att.buffer)) :
             first[i] = IF i <= 1 THEN <<"accepted">>[i] ELSE att.buffer[i - 1]
    BY <1>5, ConcatProperties
  <2> QED  BY <1>5, <2>1
<1>7. events' = events \o first
  <2> DEFINE one == <<"accepted">>
             rest == att.buffer
  <2>2. events \in Seq(PrivateEvents) /\ one \in Seq(PrivateEvents)
        /\ rest \in Seq(PrivateEvents)
    BY <1>0, <1>5
  <2>1. (events \o one) \o rest = events \o (one \o rest)
    <3> HIDE DEF one, rest
    <3> QED  BY <2>2, ConcatAssociative
  <2> QED  BY <1>1, <2>1, Zenon
<1> HIDE DEF first
<1>8. events' \in Seq(PrivateEvents) /\ events' # <<>>
  <2>1. events' \in Seq(PrivateEvents) /\ Len(events') = Len(events) + Len(first)
    BY <1>0, <1>6, <1>7, ConcatProperties
  <2>2. Len(events') # 0
    BY <1>0, <1>5, <1>6, <2>1, LenProperties
  <2> QED  BY <2>1, <2>2, EmptySeq
<1>9. ASSUME disc = "none"
      PROVE  /\ EndsOnce(events)'
             /\ \A i \in 1..Len(events') : events'[i] = "accepted" => i = 1
  <2>1. events' = first
    BY <1>3, <1>6, <1>7, <1>9, ConcatEmptySeq
  <2>2. \A i \in 1..Len(att.buffer) : att.buffer[i] # "accepted"
    BY <1>0, ElementOfSeq DEF Private!Note
  <2>3. ASSUME NEW i \in 1..Len(events')
        PROVE  /\ i = 1 => events'[i] = "accepted"
               /\ i # 1 => i - 1 \in 1..Len(att.buffer) /\ events'[i] = att.buffer[i - 1]
    BY <1>5, <1>6, <2>1, <2>3
  <2>4. EndsOnce(events)'
    <3>1. SUFFICES ASSUME NEW i \in 1..Len(events'), events'[i] \in Endings
                   PROVE  i = Len(events') /\ srv.turn = "none"
      BY <1>1 DEF EndsOnce
    <3>2. i # 1
      BY <2>3, <3>1 DEF Endings
    <3>3. i - 1 = Len(att.buffer) /\ srv.turn = "none"
      BY <1>3, <1>9, <2>3, <3>1, <3>2 DEF EndsOnce
    <3> QED  BY <1>5, <1>6, <2>1, <3>3
  <2> QED  BY <2>2, <2>3, <2>4
<1>10. SessionStep
  BY <1>1 DEF SessionStep
<1>11. SessionInv'
  BY <1>10, PrivateTypes, SessionStepKeeps
<1>12. PrivateHolds'
  BY <1>0, <1>1, <1>2, <1>3, <1>4 DEF PrivateHolds
<1>13. PrivateWire'
  BY <1>0, <1>1, <1>2, <1>3, <1>4 DEF PrivateWire
<1>14. PrivateQueue'
  BY <1>0, <1>1, <1>2, <1>3, <1>4, <1>8, <1>9 DEF PrivateQueue
<1>15. PrivateTail'
  BY <1>0, <1>1, <1>4 DEF PrivateTail, TailStored
<1>16. PrivateLife'
  BY <1>0, <1>1, <1>2, <1>4 DEF PrivateLife
<1>17. PrivateParts'
  BY <1>0, <1>1, <1>2, <1>4, <1>8 DEF PrivateParts
<1> QED  BY <1>10, <1>11, <1>12, <1>13, <1>14, <1>15, <1>16, <1>17, PrivateMade

LEMMA PrivateStartFails ==
  ASSUME PrivateInv, Private!TurnStartUnwritten \/ Private!TurnStartAmbiguous
  PROVE  PrivateInv' /\ SessionStep
<1>0. /\ PrivateParts /\ PrivateHolds /\ PrivateWire /\ att \in Private!Attempt
      /\ pc.dispatch = "start" /\ att.active /\ Begun
      /\ UNCHANGED <<Private!memoVars, Private!truthVars, events>>
      /\ UNCHANGED <<wire, owed, srv, runs, cleanup, tries, marker>> /\ marker' \in BOOLEAN
  <2>1. /\ PrivateParts /\ PrivateHolds /\ PrivateWire /\ att \in Private!Attempt
        /\ pc.dispatch = "start"
        /\ UNCHANGED <<Private!memoVars, Private!truthVars, events>>
    BY PrivateTypes
    DEF PrivateInv, PrivateParts, Private!TurnStartUnwritten, Private!TurnStartAmbiguous
  <2>2. att.active
    BY <2>1 DEF PrivateHolds
  <2> QED
    BY <2>1, <2>2, PrivateSame DEF Private!memoVars, Private!truthVars, PrivateParts
<1>1. CASE Private!TurnStartUnwritten
  <2>1. /\ rpc[Request] = "unwritten"
        /\ att' = Private!Refused(Private!ClearTurnDeadline(att)) /\ db' = db
        /\ pc' = Private!At("dispatch", IF held THEN "disabling" ELSE "notSent")
        /\ bstate' = Private!Failed /\ Private!DropClient /\ UNCHANGED disc
    BY <1>1 DEF Private!TurnStartUnwritten, Private!Disable, Request
  <2>2. bstate' \in {"failed", "stopping"}
    BY <2>1 DEF Private!Failed
  <2>3. runs[att.job] = 0
    BY <1>0, <2>1 DEF PrivateWire
  <2> QED  BY <1>0, <2>1, <2>2, <2>3, PrivateUnsent, PrivateRefuses
<1>2. CASE Private!TurnStartAmbiguous
  <2> DEFINE a == Private!Ambiguous(att)
             p == Private!At("dispatch", "idle")
  <2>1. /\ rpc[Request] \notin {"queued", "written"}
        /\ Private!Continue(a, db, p) \/ Private!FailClosed(a, db, p)
    BY <1>2 DEF Private!TurnStartAmbiguous, Private!Failures, Request
  <2>2. /\ a \in Private!Attempt /\ a.job = att.job /\ a.active = att.active
        /\ a.turn = att.turn /\ a.cancel = att.cancel /\ a.terminal = att.terminal
        /\ a.ambiguous /\ a.buffer = att.buffer
    BY <1>0 DEF Private!Ambiguous, Private!Attempt
  <2>3. /\ PrivateMovesOn(p) /\ PrivateStays(p) /\ p.event = pc.event
    BY <1>0, <2>1, PrivatePoints
  <2>4. PrivateGoes(a, db, p)
    <3> HIDE DEF a, p
    <3>1. PrivateGoes(att, db, p)
      BY <1>0, <2>3, PrivateSame DEF PrivateGoes, PrivateQueueMoves
    <3> QED  BY <2>2, <3>1, PrivateGoesWith
  <2> HIDE DEF a, p
  <2> QED
    BY <1>0, <2>1, <2>2, <2>3, <2>4, PrivateSame, PrivateContinues, PrivateFailsClosed
<1> QED  BY <1>1, <1>2

\* The claim of a job that was not sent is undone, or left to the operator.
LEMMA PrivateNotSent ==
  ASSUME PrivateInv, Private!ReturnNotSent \/ Private!DisableUnconfirmed
  PROVE  PrivateInv' /\ SessionStep
<1>0. /\ PrivateParts /\ PrivateHolds /\ PrivateWire /\ PrivateLife /\ db \in Db
      /\ pc.dispatch \in {"notSent", "disabling"} /\ att.job \in Jobs /\ ~att.active
      /\ runs[att.job] = 0 /\ rpc[Request] \notin {"queued", "written"} /\ Begun
      /\ UNCHANGED <<Private!truthVars, events>>
      /\ UNCHANGED <<wire, owed, srv, runs, tries, marker>>
      /\ cleanup' \in BOOLEAN /\ (cleanup => cleanup')
  <2>1. /\ PrivateParts /\ PrivateHolds /\ PrivateWire /\ PrivateLife /\ db \in Db
        /\ pc.dispatch \in {"notSent", "disabling"}
        /\ UNCHANGED <<Private!truthVars, events, tries, marker>>
        /\ cleanup' \in {cleanup, TRUE}
    BY PrivateTypes
    DEF PrivateInv, Private!ReturnNotSent, Private!DisableUnconfirmed, Private!memoVars
  <2>2. Begun
    BY <2>1, PrivateSame
  <2> QED  BY <2>1, <2>2 DEF PrivateHolds, PrivateWire, Private!truthVars, PrivateParts
<1> DEFINE p == Private!At("dispatch", "idle")
<1>1. PrivateMovesOn(p) /\ PrivateStays(p) /\ p.event = pc.event /\ p.dispatch = "idle"
  BY <1>0, PrivatePoints, PrivateDispatchAt
<1> HIDE DEF p
<1>2. marker' \in BOOLEAN /\ PrivateServerMoves /\ PrivateQueueMoves(p)
      /\ PrivateFades(att)
  BY <1>0, <1>1, PrivateSame DEF PrivateParts, PrivateQueueMoves
<1>3. CASE Private!ReturnNotSent
  <2> DEFINE d == ResetUnsentExecution(db, att.job)
  <2>1. Private!Continue(att, d, p)
    BY <1>3, PrivateSession DEF Private!ReturnNotSent, p
  <2>2. db.status[att.job] # "Running"
    BY <1>0 DEF PrivateHolds
  <2>3. Leads(db, d, att.job) /\ d.status[att.job] \notin Active /\ d.chk = db.chk
    BY <1>0, <2>2, ResetLeads, StoreKeeps
  <2>4. PrivateRecords(att, d)
    <3> HIDE DEF d
    <3> QED  BY <1>0, <2>3 DEF PrivateRecords, PrivateHolds, Leads, Active
  <2>5. PrivateGoes(att, d, p)
    <3> HIDE DEF d
    <3> QED  BY <1>0, <1>1, <1>2, <2>3, <2>4 DEF PrivateGoes
  <2> HIDE DEF d
  <2> QED  BY <1>0, <1>1, <2>1, <2>5, PrivateContinues
<1>4. CASE Private!DisableUnconfirmed
  <2>1. Private!Continue(att, Quarantine(db), p) /\ cleanup'
    BY <1>4, PrivateSession DEF Private!DisableUnconfirmed, p
  <2>2. PrivateGoes(att, Quarantine(db), p)
    BY <1>0, <1>1, <1>2, <2>1, PrivateSame DEF PrivateGoes
  <2> QED  BY <1>0, <1>1, <2>1, <2>2, PrivateContinues
<1> QED  BY <1>3, <1>4

LEMMA PrivateDispatchSteps ==
  ASSUME PrivateInv, Private!DispatchStep
  PROVE  PrivateInv' /\ SessionStep
BY PrivateAccountRead, PrivateTailRead, PrivateTurnStarted, PrivateStartFails,
   PrivateNotSent
DEF Private!DispatchStep

-----------------------------------------------------------------------------
(* The queue of events of the Codex backend with a private key.            *)

\* The notification at hand is one of the attempt's turn.
AtHand ==
  /\ events # <<>> /\ att.job \in Jobs
  /\ disc = "none" =>
       att.active /\ att.turn /\ \A i \in 1..Len(events) : events[i] # "accepted"

LEMMA PrivateAtHand ==
  ASSUME PrivateInv
  PROVE  /\ pc.event \notin {"idle", "disabling"} => AtHand
         /\ Private!Fresh /\ Head(events) # "accepted" /\ Private!Live(att) /\ att.turn =>
              AtHand
         /\ events # <<>> \/ pc.event # "idle" => Begun
<1>0. PrivateParts /\ PrivateHolds /\ PrivateQueue /\ PrivateLife
  BY PrivateTypes DEF PrivateInv
<1>1. ASSUME pc.event \notin {"idle", "disabling"}
      PROVE  AtHand
  BY <1>0, <1>1 DEF PrivateHolds, PrivateQueue, AtHand
<1>2. ASSUME Private!Fresh, Head(events) # "accepted", Private!Live(att), att.turn
      PROVE  AtHand
  <2>1. events # <<>> /\ att.active /\ att.job \in Jobs
    BY <1>0, <1>2 DEF Private!Fresh, Private!Live, PrivateHolds
  <2>2. events[1] # "accepted"
    BY <1>0, <1>2, <2>1, TailsOf DEF PrivateParts
  <2> QED  BY <1>0, <1>2, <2>1, <2>2 DEF PrivateQueue, AtHand
<1>3. events # <<>> \/ pc.event # "idle" => Begun
  BY <1>0 DEF PrivateLife, Begun
<1> QED  BY <1>1, <1>2, <1>3

\* What the handlers of the queue leave alone.
PrivateHandles ==
  /\ UNCHANGED <<wire, owed, srv, runs, tries>>
  /\ cleanup' \in BOOLEAN /\ marker' \in BOOLEAN /\ (cleanup => cleanup')

\* The notification at hand is done with, or the handler throws.
LEMMA PrivatePops ==
  ASSUME PrivateInv, PrivateHandles, events # <<>>, NEW a, NEW d,
         PrivateFades(a), PrivateRecords(a, d), Leads(db, d, att.job),
         \/ Private!Throw(a, d)
         \/ Private!Done(a, d) /\ (a.active /\ a.terminal => att.terminal \/ disc # "none")
  PROVE  PrivateInv' /\ SessionStep
<1> DEFINE p == Private!At("event", "idle")
<1>1. /\ Begun /\ PrivateMovesOn(p) /\ PrivateStays(p) /\ p.event = "idle"
      /\ p.dispatch = pc.dispatch
  BY PrivateAtHand, PrivatePoints
<1>2. /\ events' = Tail(events)
      /\ \/ Private!FailClosed(a, d, p)
         \/ Private!Continue(a, d, p)
            /\ (a.active /\ a.terminal => att.terminal \/ disc # "none")
  BY DEF Private!Throw, Private!Done, Private!Pop
<1> HIDE DEF p
<1>3. PrivateGoes(a, d, p)
  BY <1>1, <1>2, PrivateSame DEF PrivateGoes, PrivateQueueMoves, PrivateHandles
<1> QED  BY <1>1, <1>2, <1>3, PrivateContinues, PrivateFailsClosed

\* It goes on to the next point, or is held by the grace of the deadline.
LEMMA PrivateGoesOn ==
  ASSUME PrivateInv, PrivateHandles, AtHand, UNCHANGED events, NEW d,
         PrivateRecords(att, d), Leads(db, d, att.job),
         NEW q \in {"layout", "cancelled", "completed", "failed", "rejected", "grace"},
         q # "grace" => q = "layout" \/ Head(events) \in Endings,
         q = "cancelled" => att.cancel /\ att' = att,
         \/ Private!Continue(att, d, Private!At("event", q))
         \/ Private!HandleTurnDeadline(att, d, Private!At("event", q))
  PROVE  PrivateInv' /\ SessionStep
<1> DEFINE p == Private!At("event", q)
<1>1. /\ Begun /\ PrivateMovesOn(p) /\ PrivateStays(p) /\ p.event = q
      /\ p.dispatch = pc.dispatch
  BY PrivateAtHand, PrivatePoints DEF AtHand
<1>2. disc' = "none" => disc = "none"
  BY DEF Private!Continue, Private!lifeVars, Private!HandleTurnDeadline,
     Private!FailClosed, Private!Disconnect
<1>3. PrivateGoes(att, d, p)
  <2> HIDE DEF p
  <2>1. PrivateQueueMoves(p)
    BY <1>1, <1>2 DEF PrivateQueueMoves, AtHand
  <2> QED  BY <1>1, <2>1, PrivateSame DEF PrivateGoes, PrivateHandles
<1> HIDE DEF p
<1> QED  BY <1>1, <1>3, PrivateContinues, PrivateTimesOut DEF p

LEMMA PrivateLeaves ==
  ASSUME PrivateInv
  PROVE  UNCHANGED <<Private!truthVars, Private!memoVars>> => PrivateHandles
BY PrivateSame DEF PrivateHandles

LEMMA PrivateTakes ==
  ASSUME PrivateInv, Private!SkipEvent \/ Private!OnAccepted \/ Private!TakeNotification
  PROVE  PrivateInv' /\ SessionStep
<1>0. /\ PrivateParts /\ PrivateHolds /\ PrivateWire /\ PrivateQueue /\ db \in Db
      /\ events # <<>> /\ pc.event = "idle" /\ Private!Fresh /\ PrivateHandles
      /\ PrivateFades(att) /\ PrivateRecords(att, db) /\ Leads(db, db, att.job)
  BY PrivateTypes, PrivateSame, PrivateLeaves
  DEF PrivateInv, Private!SkipEvent, Private!OnAccepted, Private!TakeNotification,
      Private!Fresh
<1>1. CASE Private!SkipEvent
  <2>1. PrivateQueueMoves(pc)
    BY <1>0, <1>1 DEF Private!SkipEvent, PrivateQueueMoves
  <2>2. PrivateGoes(att, db, pc)
    BY <1>0, <2>1, PrivateSame DEF PrivateGoes, PrivateHandles
  <2> QED  BY <1>1, <2>2, PrivateSame, PrivateContinues DEF Private!SkipEvent
<1>2. CASE Private!OnAccepted
  <2> DEFINE j == att.job
             d == MarkBackendRunning(db, j)
  <2>1. /\ disc = "none" /\ Head(events) = "accepted"
        /\ \/ MayAccept(db, j) /\ Private!Done(att, d)
           \/ Private!Throw(att, db)
    BY <1>2, PrivateSession DEF Private!OnAccepted
  <2>2. CASE Private!Throw(att, db)
    BY <1>0, <2>2, PrivatePops
  <2>3. CASE MayAccept(db, j) /\ Private!Done(att, d)
    <3>1. 1 \in 1..Len(events) /\ events[1] = "accepted"
      BY <1>0, <2>1, TailsOf DEF PrivateParts
    <3>2. att.active /\ att.turn /\ j \in Jobs /\ runs[j] = 1
      BY <1>0, <2>1, <3>1 DEF PrivateQueue, PrivateHolds, PrivateWire
    <3>3. /\ Leads(db, d, j) /\ d.chk = db.chk
          /\ d.status[j] = IF db.status[j] = "Dispatching" THEN "Running"
                           ELSE db.status[j]
          /\ db.status[j] \in Active
      BY <1>0, <2>3, <3>2, RunningLeads DEF MayAccept, Active
    <3>4. PrivateRecords(att, d)
      <4> HIDE DEF d
      <4> QED  BY <1>0, <3>2, <3>3 DEF PrivateRecords, PrivateHolds, Leads, Active
    <3> HIDE DEF d
    <3> QED  BY <1>0, <2>3, <3>3, <3>4, PrivatePops
  <2> QED  BY <2>1, <2>2, <2>3
<1>3. CASE Private!TakeNotification
  <2>1. CASE Private!Done(att, db)
    BY <1>0, <2>1, PrivatePops
  <2>2. CASE /\ Private!Live(att) /\ att.turn /\ UNCHANGED events
             /\ \/ Private!HandleTurnDeadline(att, db, Private!At("event", "grace"))
                \/ Private!Continue(att, db, Private!At("event", "layout"))
    <3>1. AtHand
      BY <1>0, <1>3, <2>2, PrivateAtHand DEF Private!TakeNotification
    <3> QED  BY <1>0, <2>2, <3>1, PrivateGoesOn
  <2> QED
    BY <1>3, <2>1, <2>2 DEF Private!TakeNotification, Private!AwaitGrace
<1> QED  BY <1>1, <1>2, <1>3

\* After the layout check.
LEMMA PrivateProcesses ==
  ASSUME PrivateInv, Private!ProcessNotification
  PROVE  PrivateInv' /\ SessionStep
<1> DEFINE note == Head(events)
           heard == [att EXCEPT !.heard = TRUE]
<1>0. /\ PrivateParts /\ PrivateQueue /\ pc.event = "layout" /\ AtHand /\ PrivateHandles
      /\ PrivateFades(att) /\ PrivateRecords(att, db) /\ Leads(db, db, att.job)
      /\ att \in Private!Attempt /\ events \in Seq(PrivateEvents) /\ events # <<>>
  <2>1. pc.event = "layout" /\ PrivateHandles
    BY PrivateLeaves DEF Private!ProcessNotification
  <2>2. AtHand
    BY <2>1, PrivateAtHand
  <2>3. PrivateParts /\ PrivateQueue
    BY PrivateTypes DEF PrivateInv
  <2> QED  BY <2>1, <2>2, <2>3, PrivateSame DEF PrivateParts, AtHand
<1>1. \/ Private!Done(att, db)
      \/ Private!Throw(att, db)
      \/ Private!Live(att) /\ Private!Done(heard, db)
      \/ /\ UNCHANGED events
         /\ Private!HandleTurnDeadline(att, db, Private!At("event", "grace"))
      \/ /\ UNCHANGED events /\ disc = "none"
         /\ note # "item" /\ ~(note = "interrupted" /\ ~att.cancel)
         /\ Private!Continue(att, db, Private!At("event", Private!CheckpointPoint(note)))
  <2>0. CASE Private!Throw(att, db)
    BY <2>0
  <2>1. CASE ~Private!Throw(att, db) /\ (~Private!Live(att) \/ disc # "none")
    BY <2>1 DEF Private!ProcessNotification
  <2>2. CASE /\ ~Private!Throw(att, db)
            /\ Private!Live(att) /\ disc = "none" /\ Private!DeadlinePassed(att)
    BY <2>2 DEF Private!ProcessNotification, Private!AwaitGrace
  <2>3. CASE /\ ~Private!Throw(att, db)
            /\ Private!Live(att) /\ disc = "none" /\ ~Private!DeadlinePassed(att)
    <3>1. CASE note = "item"
      BY <2>3, <3>1 DEF Private!ProcessNotification
    <3>2. CASE note = "interrupted" /\ ~att.cancel
      BY <2>3, <3>2 DEF Private!ProcessNotification
    <3>3. CASE note = "completed" /\ ~att.cancel /\ ~att.heard
      BY <2>3, <3>3 DEF Private!ProcessNotification
    <3>4. CASE ~(note = "item") /\ ~(note = "interrupted" /\ ~att.cancel)
               /\ ~(note = "completed" /\ ~att.cancel /\ ~att.heard)
      BY <2>3, <3>4 DEF Private!ProcessNotification
    <3> QED  BY <3>1, <3>2, <3>3, <3>4
  <2> QED  BY <2>0, <2>1, <2>2, <2>3
<1>2. CASE Private!Done(att, db) \/ Private!Throw(att, db)
  BY <1>0, <1>2, PrivatePops
<1>3. CASE Private!Live(att) /\ Private!Done(heard, db)
  <2>1. /\ heard \in Private!Attempt /\ heard.job = att.job /\ heard.active = att.active
        /\ heard.turn = att.turn /\ heard.cancel = att.cancel /\ heard.ready = att.ready
        /\ heard.ambiguous = att.ambiguous /\ heard.buffer = att.buffer
        /\ heard.terminal = att.terminal
    BY <1>0 DEF Private!Attempt
  <2> HIDE DEF heard
  <2>2. PrivateFades(heard) /\ PrivateRecords(heard, db)
    BY <1>0, <2>1 DEF PrivateFades, PrivateRecords
  <2> QED  BY <1>0, <1>3, <2>1, <2>2, PrivatePops
<1>4. CASE /\ UNCHANGED events
           /\ Private!HandleTurnDeadline(att, db, Private!At("event", "grace"))
  BY <1>0, <1>4, PrivateGoesOn
<1>5. CASE /\ UNCHANGED events /\ disc = "none"
           /\ note # "item" /\ ~(note = "interrupted" /\ ~att.cancel)
           /\ Private!Continue(att, db, Private!At("event", Private!CheckpointPoint(note)))
  <2>1. note \in PrivateEvents /\ note = events[1] /\ 1 \in 1..Len(events)
    BY <1>0, TailsOf
  <2>2. note \in Endings
    BY <1>0, <1>5, <2>1 DEF AtHand, PrivateEvents, Private!Note, Endings
  <2> DEFINE q == Private!CheckpointPoint(note)
  <2>3. /\ q \in {"cancelled", "completed", "failed", "rejected"}
        /\ q = "cancelled" => att.cancel
    BY <1>5, <2>2 DEF Private!CheckpointPoint, Endings
  <2>4. att' = att
    BY <1>5 DEF Private!Continue
  <2> HIDE DEF q
  <2>5. Private!Continue(att, db, Private!At("event", q))
    BY <1>5 DEF q
  <2> QED  BY <1>0, <1>5, <2>2, <2>3, <2>4, <2>5, PrivateGoesOn
<1> QED  BY <1>1, <1>2, <1>3, <1>4, <1>5

\* The end of the turn is in the thread and in the store.
LEMMA PrivateCheckpoint ==
  ASSUME PrivateInv, pc.event \in {"cancelled", "completed", "failed", "rejected"},
         Private!TailConfirmed
  PROVE  /\ disc = "none" /\ att.active /\ att.turn /\ AtHand /\ Head(events) \in Endings
         /\ att.job \in Jobs /\ db.status[att.job] \in Active /\ runs[att.job] = 1
         /\ srv.turn = "none" /\ ~db.quarantined
         /\ LET d == Private!Checkpoint(db) IN
            /\ d \in Db /\ Leads(db, d, att.job) /\ PrivateRecords(att, d)
            /\ d.status = db.status /\ d.chk = [n |-> srv.n, last |-> srv.last]
<1> DEFINE d == Private!Checkpoint(db)
<1>0. /\ PrivateParts /\ PrivateHolds /\ PrivateWire /\ PrivateQueue /\ db \in Db
      /\ PrivateRecords(att, db)
  BY PrivateTypes, PrivateSame DEF PrivateInv
<1>1. /\ srv.turn = "none" /\ ~db.quarantined /\ db.status[att.job] \in Active
      /\ att.job \in Jobs
  BY <1>0, PrivateSession DEF Private!TailConfirmed, MayCheckpoint, PrivateHolds
<1>2. disc = "none"
  BY <1>0, <1>1 DEF PrivateHolds
<1>3. att.active /\ att.turn /\ AtHand /\ Head(events) \in Endings /\ runs[att.job] = 1
  BY <1>0, <1>2, PrivateAtHand DEF PrivateQueue, PrivateWire
<1>4. /\ d \in Db /\ d.status = db.status /\ d.chk = [n |-> srv.n, last |-> srv.last]
      /\ d.quarantined = db.quarantined
  BY <1>0 DEF Private!Checkpoint, Db, PrivateParts, PrivateServers
<1>5. Leads(db, d, att.job)
  <2> HIDE DEF d
  <2> QED  BY <1>4 DEF Leads, Edge
<1>6. PrivateRecords(att, d)
  <2> HIDE DEF d
  <2> QED  BY <1>0, <1>1, <1>4, <1>5 DEF PrivateRecords
<1> QED  BY <1>1, <1>2, <1>3, <1>4, <1>5, <1>6

LEMMA PrivateDone ==
  ASSUME PrivateInv
  PROVE  LET a == Private!Ended(att) IN
         a \in Private!Attempt /\ a.job = att.job /\ ~a.active /\ a.cancel = att.cancel
<1> DEFINE c == Private!ClearTurnDeadline(att)
<1>1. c \in Private!Attempt /\ c.job = att.job /\ c.cancel = att.cancel
  BY PrivateTypes, PrivateAttempts DEF PrivateParts
<1>2. Private!Ended(att) = [c EXCEPT !.terminal = TRUE, !.active = FALSE, !.heard = FALSE]
  BY DEF Private!Ended
<1> HIDE DEF c
<1> QED  BY <1>1, <1>2 DEF Private!Attempt

\* The attempt ends with its turn.
LEMMA PrivateTurnEnds ==
  ASSUME PrivateInv, pc.event \in {"cancelled", "completed", "failed", "rejected"},
         Private!TailConfirmed, att' \in Private!Attempt, att'.job = att.job,
         ~att'.active, att'.cancel = att.cancel,
         Leads(db, db', att.job), db'.status[att.job] \notin Active,
         db'.chk = [n |-> srv.n, last |-> srv.last],
         UNCHANGED <<disc, wire, owed, srv, runs, cleanup, tries>>, marker' \in BOOLEAN,
         \/ /\ UNCHANGED <<conn, rpc, bstate, held>>
            /\ pc' = Private!At("event", "idle") /\ events' = Tail(events)
         \/ /\ Private!DropClient /\ bstate' \in {"failed", "stopping"}
            /\ \/ pc' = Private!At("event", "disabling") /\ events' = events
               \/ pc' = Private!At("event", "idle") /\ events' = Tail(events)
  PROVE  PrivateInv' /\ SessionStep
<1>0. /\ PrivateParts /\ PrivateHolds /\ PrivateWire /\ PrivateQueue /\ PrivateTail
      /\ PrivateLife /\ db \in Db /\ events \in Seq(PrivateEvents)
  BY PrivateTypes DEF PrivateInv, PrivateParts
<1>1. /\ disc = "none" /\ att.active /\ att.turn /\ AtHand /\ Head(events) \in Endings
      /\ att.job \in Jobs /\ runs[att.job] = 1 /\ srv.turn = "none"
  BY PrivateCheckpoint
<1>2. /\ att' \in Private!Attempt /\ att'.job = att.job /\ ~att'.active
      /\ att'.cancel = att.cancel
  OBVIOUS
<1>3. pc.dispatch = "idle" /\ wire = {} /\ owed = {} /\ rpc[Request] = "ok"
  BY <1>0, <1>1 DEF PrivateHolds, PrivateWire, PrivateParts, Private!Control
<1>4. /\ pc' \in Private!Control /\ pc'.event \in {"idle", "disabling"}
      /\ pc'.event = "disabling" => events' = events
      /\ pc'.dispatch = "idle" /\ pc'.cancel = pc.cancel /\ pc'.recovery = pc.recovery
      /\ pc'.start = pc.start /\ pc'.stop = pc.stop
  <2>1. pc \in Private!Control /\ \E q \in {"idle", "disabling"} :
          pc' = Private!At("event", q) /\ (q = "disabling" => events' = events)
    BY <1>0 DEF PrivateParts
  <2> QED  BY <1>3, <2>1, PrivateAt DEF Activities
<1>5. /\ Begun /\ events # <<>> /\ Tail(events) \in Seq(PrivateEvents)
      /\ Len(events) \in Nat \ {0} /\ Head(events) = events[1]
      /\ Len(Tail(events)) = Len(events) - 1
      /\ \A i \in 1..Len(Tail(events)) :
           i + 1 \in 1..Len(events) /\ Tail(events)[i] = events[i + 1]
  BY <1>0, <1>1, PrivateAtHand, TailsOf DEF AtHand
<1>6. EndsOnce(events) /\ 1 \in 1..Len(events)
  BY <1>0, <1>1, <1>5 DEF PrivateQueue
<1>7. Len(events) = 1
  BY <1>1, <1>5, <1>6 DEF EndsOnce
<1>8. Tail(events) = <<>>
  <2>1. Len(Tail(events)) = 0
    BY <1>5, <1>7
  <2> QED  BY <1>5, <2>1, EmptySeq, Zenon
<1>9. SessionStep
  BY <1>1 DEF SessionStep, Moves
<1>10. SessionInv'
  BY <1>9, PrivateTypes, SessionStepKeeps
<1>11. \A j \in Jobs : db'.status[j] \notin Active
  BY <1>0 DEF Leads, PrivateHolds
<1>12. PrivateHolds'
  BY <1>0, <1>1, <1>2, <1>4, <1>11 DEF PrivateHolds, Active
<1>13. /\ \/ UNCHANGED <<conn, bstate, held>> /\ events' = <<>>
          \/ /\ held' = FALSE /\ bstate' \in {"failed", "stopping"}
             /\ conn' = IF held /\ conn \in UpStates THEN "closing" ELSE conn
       /\ held' \in BOOLEAN /\ PrivateRequestLost
  BY <1>0, <1>8, PrivateDrops, PrivateLost DEF PrivateParts
<1>14. rpc'[Request] = "ok"
  BY <1>3, <1>13 DEF PrivateRequestLost
<1>15. PrivateWire'
  BY <1>2, <1>3, <1>4, <1>14 DEF PrivateWire
<1>16. PrivateQueue'
  <2>1. events' = events \/ events' = <<>>
    BY <1>4, <1>8
  <2>2. \A i \in 1..Len(events') : events'[i] # "accepted"
    BY <1>1, <2>1 DEF AtHand
  <2> QED  BY <1>2, <1>4, <1>5, <1>13, <2>1, <2>2 DEF PrivateQueue
<1>17. PrivateTail'
  BY <1>1 DEF PrivateTail, TailStored
<1>18. PrivateLife'
  BY <1>0, <1>1, <1>2, <1>4, <1>5, <1>13
  DEF PrivateLife, UpStates, GoneStates, Leads, Begun
<1>19. PrivateParts'
  BY <1>0, <1>2, <1>4, <1>5, <1>13
  DEF PrivateParts, PrivateRequestLost, PrivateStates
<1> QED
  BY <1>9, <1>10, <1>12, <1>15, <1>16, <1>17, <1>18, <1>19, PrivateMade

\* The backend is given up with the turn.
LEMMA PrivateTurnDisables ==
  ASSUME PrivateInv, NEW a, NEW d,
         Private!Disable(a, d, "event", "disabling", "idle"),
         IF held THEN UNCHANGED events ELSE Private!Pop
  PROVE  /\ att' = a /\ db' = d /\ disc' = disc
         /\ Private!DropClient /\ bstate' \in {"failed", "stopping"}
         /\ \/ pc' = Private!At("event", "disabling") /\ events' = events
            \/ pc' = Private!At("event", "idle") /\ events' = Tail(events)
BY DEF Private!Disable, Private!Failed, Private!Pop

LEMMA PrivateReportsCancel ==
  ASSUME PrivateInv, Private!ReportCancellation
  PROVE  PrivateInv' /\ SessionStep
<1> DEFINE j == att.job
           d == Private!Checkpoint(db)
           e == CancelUnknown(d, j)
<1>0. /\ PrivateParts /\ PrivateHolds /\ PrivateQueue
      /\ pc.event = "cancelled" /\ Private!TailConfirmed /\ marker' = srv.sys
      /\ UNCHANGED <<cleanup, tries, wire, owed, srv, runs>>
      /\ marker' \in BOOLEAN /\ PrivateHandles /\ PrivateFades(att)
  <2>1. /\ PrivateParts /\ PrivateHolds /\ PrivateQueue /\ PrivateFades(att)
    BY PrivateTypes, PrivateSame DEF PrivateInv
  <2>2. /\ pc.event = "cancelled" /\ Private!TailConfirmed /\ marker' = srv.sys
        /\ UNCHANGED <<cleanup, tries, wire, owed, srv, runs>>
    BY DEF Private!ReportCancellation, Private!truthVars
  <2> QED  BY <2>1, <2>2 DEF PrivateHandles, PrivateParts, PrivateServers
<1>1. /\ disc = "none" /\ att.cancel /\ AtHand /\ events # <<>> /\ j \in Jobs
      /\ db.status[j] = "Cancelling"
      /\ d \in Db /\ Leads(db, d, j) /\ PrivateRecords(att, d)
      /\ d.status = db.status /\ d.chk = [n |-> srv.n, last |-> srv.last]
  BY <1>0, PrivateCheckpoint DEF PrivateQueue, PrivateHolds, Active, AtHand
<1>2. e = Private!CancelUnknown(d, j)
  BY PrivateSession
<1>3. /\ Leads(d, e, j) /\ e.status[j] = "CancelUnknown" /\ e.chk = d.chk
  <2> HIDE DEF d
  <2> QED  BY <1>1, CancelUnknownLeads, StoreKeeps
<1>4. Leads(db, e, j)
  <2> HIDE DEF d, e
  <2> QED  BY PrivateTypes, <1>1, <1>3, LeadsOn
<1> HIDE DEF d, e
<1>5. \/ Private!Done(att, d)
      \/ UNCHANGED events /\ Private!HandleTurnDeadline(att, d, Private!At("event", "grace"))
      \/ /\ Private!Disable([Private!Ended(att) EXCEPT !.reported = TRUE], e, "event",
                            "disabling", "idle")
         /\ IF held THEN UNCHANGED events ELSE Private!Pop
  BY <1>2 DEF Private!ReportCancellation, Private!AwaitGrace, d
<1>6. CASE Private!Done(att, d)
  BY <1>0, <1>1, <1>6, PrivatePops
<1>7. CASE /\ UNCHANGED events
           /\ Private!HandleTurnDeadline(att, d, Private!At("event", "grace"))
  BY <1>0, <1>1, <1>7, PrivateGoesOn
<1>8. CASE /\ Private!Disable([Private!Ended(att) EXCEPT !.reported = TRUE], e, "event",
                              "disabling", "idle")
           /\ IF held THEN UNCHANGED events ELSE Private!Pop
  <2>1. /\ att' = [Private!Ended(att) EXCEPT !.reported = TRUE] /\ db' = e /\ disc' = disc
        /\ Private!DropClient /\ bstate' \in {"failed", "stopping"}
        /\ \/ pc' = Private!At("event", "disabling") /\ events' = events
           \/ pc' = Private!At("event", "idle") /\ events' = Tail(events)
    BY <1>8, PrivateTurnDisables
  <2>2. /\ att' \in Private!Attempt /\ att'.job = att.job /\ ~att'.active
        /\ att'.cancel = att.cancel
    <3> DEFINE a == Private!Ended(att)
    <3>1. a \in Private!Attempt /\ a.job = att.job /\ ~a.active /\ a.cancel = att.cancel
      BY PrivateDone
    <3>2. att' = [a EXCEPT !.reported = TRUE]
      BY <2>1
    <3> HIDE DEF a
    <3> QED  BY <3>1, <3>2 DEF Private!Attempt
  <2> QED
    BY <1>0, <1>1, <1>3, <1>4, <2>1, <2>2, PrivateTurnEnds DEF Active
<1> QED  BY <1>5, <1>6, <1>7, <1>8

LEMMA PrivateAnswers ==
  ASSUME PrivateInv, Private!OnResult \/ Private!OnFailed
  PROVE  PrivateInv' /\ SessionStep
<1> DEFINE j == att.job
           d == Private!Checkpoint(db)
           over == [att EXCEPT !.terminal = TRUE]
<1>0. /\ PrivateParts /\ PrivateHolds /\ att \in Private!Attempt
      /\ pc.event \in {"completed", "failed", "rejected"} /\ Private!TailConfirmed
      /\ UNCHANGED <<cleanup, tries, wire, owed, srv, runs>>
      /\ marker' \in BOOLEAN /\ PrivateHandles /\ PrivateFades(att)
  <2>1. PrivateParts /\ PrivateHolds /\ PrivateFades(att) /\ att \in Private!Attempt
    BY PrivateTypes, PrivateSame DEF PrivateInv, PrivateParts
  <2>2. /\ pc.event \in {"completed", "failed", "rejected"} /\ Private!TailConfirmed
        /\ UNCHANGED <<cleanup, tries, wire, owed, srv, runs>> /\ marker' = srv.sys
    BY DEF Private!OnResult, Private!OnFailed, Private!truthVars
  <2> QED  BY <2>1, <2>2 DEF PrivateHandles, PrivateParts, PrivateServers
<1>1. /\ AtHand /\ events # <<>> /\ j \in Jobs /\ runs[j] = 1
      /\ db.status[j] \in Active
      /\ d \in Db /\ Leads(db, d, j) /\ PrivateRecords(att, d)
      /\ d.status = db.status /\ d.chk = [n |-> srv.n, last |-> srv.last]
  BY <1>0, PrivateCheckpoint DEF AtHand
<1>2. ASSUME NEW st \in Answered
      PROVE  LET f == WithStatus(d, j, st) IN
             /\ f \in Db /\ Leads(db, f, j) /\ f.status[j] \notin Active
             /\ f.chk = [n |-> srv.n, last |-> srv.last]
  <2>1. st \in Status /\ st \notin Active /\ Edge(d.status[j], st, runs[j], d.quarantined)
    BY <1>1 DEF Answered, Status, Active, Edge
  <2> HIDE DEF d
  <2>2. LET f == WithStatus(d, j, st) IN
        /\ f \in Db /\ Leads(d, f, j) /\ f.status[j] = st /\ f.chk = d.chk
    BY <1>1, <2>1, WriteLeads, Writes
  <2> QED  BY PrivateTypes, <1>1, <2>1, <2>2, LeadsOn
<1> DEFINE s == WithStatus(d, j, "Succeeded")
           f == WithStatus(d, j, "Failed")
<1>3. \/ UNCHANGED events /\ Private!HandleTurnDeadline(att, d, Private!At("event", "grace"))
      \/ Private!Throw(over, d)
      \/ \E e \in {s, f} : Private!Done(Private!Ended(att), e)
      \/ /\ Private!Disable(Private!Ended(att), Quarantine(f), "event", "disabling", "idle")
         /\ IF held THEN UNCHANGED events ELSE Private!Pop
  BY PrivateSession DEF Private!OnResult, Private!OnFailed, Private!AwaitGrace
<1>4. \A e \in {s, f, Quarantine(f)} :
        /\ Leads(db, e, j) /\ e.status[j] \notin Active
        /\ e.chk = [n |-> srv.n, last |-> srv.last]
  <2>1. "Succeeded" \in Answered /\ "Failed" \in Answered
    BY DEF Answered
  <2>2. \A e \in {s, f} : /\ e \in Db /\ Leads(db, e, j) /\ e.status[j] \notin Active
                          /\ e.chk = [n |-> srv.n, last |-> srv.last]
    BY <1>2, <2>1
  <2> HIDE DEF s, f
  <2>3. /\ Leads(f, Quarantine(f), j) /\ Quarantine(f).status = f.status
        /\ Quarantine(f).chk = f.chk
    BY <2>2, QuarantineLeads
  <2>4. Leads(db, Quarantine(f), j)
    BY PrivateTypes, <2>2, <2>3, LeadsOn
  <2> QED  BY <2>2, <2>3, <2>4
<1> HIDE DEF d, s, f
<1>5. CASE /\ UNCHANGED events
           /\ Private!HandleTurnDeadline(att, d, Private!At("event", "grace"))
  BY <1>0, <1>1, <1>5, PrivateGoesOn
<1>6. CASE Private!Throw(over, d)
  <2>1. /\ over \in Private!Attempt /\ over.job = att.job /\ over.active = att.active
        /\ over.turn = att.turn /\ over.cancel = att.cancel /\ over.ready = att.ready
        /\ over.ambiguous = att.ambiguous /\ over.buffer = att.buffer
    BY <1>0 DEF Private!Attempt
  <2> HIDE DEF over
  <2>2. PrivateFades(over) /\ PrivateRecords(over, d)
    BY <1>0, <1>1, <2>1 DEF PrivateFades, PrivateRecords
  <2> QED  BY <1>0, <1>1, <1>6, <2>2, PrivatePops
<1>7. CASE \E e \in {s, f} : Private!Done(Private!Ended(att), e)
  <2>1. /\ att' = Private!Ended(att) /\ db' \in {s, f}
        /\ pc' = Private!At("event", "idle") /\ events' = Tail(events)
        /\ UNCHANGED <<conn, rpc, bstate, held, disc>>
    BY <1>7 DEF Private!Done, Private!Continue, Private!Pop, Private!lifeVars
  <2> QED  BY <1>0, <1>4, <2>1, PrivateDone, PrivateTurnEnds
<1>8. CASE /\ Private!Disable(Private!Ended(att), Quarantine(f), "event", "disabling", "idle")
           /\ IF held THEN UNCHANGED events ELSE Private!Pop
  <2>1. /\ att' = Private!Ended(att) /\ db' = Quarantine(f) /\ disc' = disc
        /\ Private!DropClient /\ bstate' \in {"failed", "stopping"}
        /\ \/ pc' = Private!At("event", "disabling") /\ events' = events
           \/ pc' = Private!At("event", "idle") /\ events' = Tail(events)
    BY <1>8, PrivateTurnDisables
  <2> QED  BY <1>0, <1>4, <2>1, PrivateDone, PrivateTurnEnds
<1> QED  BY <1>3, <1>5, <1>6, <1>7, <1>8

LEMMA PrivateEventSteps ==
  ASSUME PrivateInv, Private!EventStep
  PROVE  PrivateInv' /\ SessionStep
<1>1. CASE Private!CheckpointFails \/ Private!GraceReleasesQueue
  <2>1. /\ PrivateHandles /\ events # <<>>
        /\ Private!Throw(att, db) \/ Private!Done(att, db)
    BY <1>1, PrivateLeaves, PrivateTypes
    DEF Private!CheckpointFails, Private!GraceReleasesQueue, PrivateInv, PrivateQueue
  <2> QED  BY <2>1, PrivateSame, PrivatePops
<1>2. CASE Private!DisabledAfterTerminal
  <2>1. /\ UNCHANGED <<marker, tries, Private!truthVars>> /\ cleanup' \in {cleanup, TRUE}
        /\ Private!Throw(att, Quarantine(db)) \/ Private!Done(att, db)
        /\ pc.event = "disabling"
    BY <1>2, PrivateSession DEF Private!DisabledAfterTerminal
  <2>2. PrivateParts /\ events # <<>>
    BY <2>1, PrivateTypes DEF PrivateInv, PrivateQueue
  <2>3. cleanup' \in BOOLEAN /\ (cleanup => cleanup')
    BY <2>1, <2>2 DEF PrivateParts
  <2>4. PrivateHandles
    BY <2>1, <2>2, <2>3 DEF PrivateHandles, PrivateParts, Private!truthVars
  <2> QED  BY <2>1, <2>2, <2>4, PrivateSame, PrivatePops
<1> QED
  BY <1>1, <1>2, PrivateTakes, PrivateProcesses, PrivateReportsCancel, PrivateAnswers
  DEF Private!EventStep

-----------------------------------------------------------------------------
(* Recovery, start and stop of the Codex backend with a private key.       *)

\* A step of the lifecycle leaves the attempt and the thread alone.
LEMMA PrivateLifecycle ==
  ASSUME PrivateInv, PrivateLife', UNCHANGED <<att, srv, runs, events>>,
         db' \in {db, Quarantine(db)}, disc' \in {"none", "closing", "done", "failed"},
         disc' = "none" <=> disc = "none",
         pc' \in Private!Control, pc'.dispatch = pc.dispatch, pc'.cancel = pc.cancel,
         pc'.event = pc.event, bstate' \in PrivateStates, held' \in BOOLEAN,
         cleanup' \in BOOLEAN, cleanup => cleanup', marker' \in BOOLEAN,
         tries' \in 0..MaxTries,
         \/ PrivateRequestLost
         \/ ~att.active /\ Private!Spawn,
         bstate' \in {"running", "recovering"} =>
           bstate \in {"running", "recovering"} \/ (events = <<>> /\ TailStored)
  PROVE  PrivateInv' /\ SessionStep
<1>0. PrivateParts /\ PrivateHolds
  BY PrivateTypes DEF PrivateInv
<1>1. /\ PrivateFades(att') /\ PrivateRecords(att', db') /\ PrivateServerMoves
      /\ db'.status = db.status
  BY PrivateSame, PrivateTypes, QuarantineLeads
<1>2. PrivateMovesOn(pc') /\ PrivateQueueMoves(pc')
  BY <1>0 DEF PrivateMovesOn, PrivateQueueMoves, PrivateHolds
<1>3. Private!Spawn =>
        /\ conn' \in Private!ConnState /\ rpc' \in [{Request} -> Private!RpcState]
        /\ rpc'[Request] = "idle" /\ wire' = {} /\ owed' = {}
  BY DEF Private!Spawn, Private!ConnState, Private!RpcState, Request
<1>4. PrivateParts'
  BY <1>0, <1>3 DEF PrivateParts, PrivateRequestLost
<1> QED
  BY <1>0, <1>1, <1>2, <1>3, <1>4, PrivateSettles DEF PrivateHolds

LEMMA CleanupStays ==
  ASSUME cleanup \in BOOLEAN, cleanup' = cleanup \/ cleanup' = TRUE
  PROVE  cleanup' \in BOOLEAN /\ (cleanup => cleanup')
OBVIOUS

\* Only recovery, start or stop moves.
LEMMA PrivateLifeAt ==
  ASSUME PrivateInv, NEW a \in {"recovery", "start", "stop"}, NEW q,
         a = "recovery" => q \in {"idle", "closing", "delay", "probe", "spawned",
                                  "candidate", "drifted", "retry", "handover"},
         a = "start" => q \in {"idle", "starting", "thread", "handover", "closing",
                               "done", "failed"},
         a = "stop" => q \in {"no", "settling", "late", "stopped"}
  PROVE  LET p == Private!At(a, q) IN
         /\ p \in Private!Control
         /\ p.dispatch = pc.dispatch /\ p.cancel = pc.cancel /\ p.event = pc.event
         /\ p.deadline = pc.deadline
         /\ p.recovery = IF a = "recovery" THEN q ELSE pc.recovery
         /\ p.start = IF a = "start" THEN q ELSE pc.start
         /\ p.stop = IF a = "stop" THEN q ELSE pc.stop
BY PrivateTypes, PrivateAt DEF PrivateParts, Activities

\* Of the store and of the process.
LEMMA PrivateFacts ==
  ASSUME PrivateInv
  PROVE  /\ PrivateParts /\ PrivateHolds /\ PrivateLife /\ MaxTries \in Nat
         /\ Quarantine(db).quarantined
         /\ cleanup \in BOOLEAN /\ marker \in BOOLEAN
         /\ UNCHANGED <<conn, rpc, wire, owed>> => PrivateRequestLost
         /\ Private!CloseClient /\ UNCHANGED <<wire, owed>> =>
              /\ PrivateRequestLost
              /\ conn' = IF conn \in UpStates THEN "closing" ELSE conn
BY PrivateTypes, PrivateLost, QuarantineLeads, BoundsAssumption
DEF PrivateInv, PrivateParts

LEMMA PrivateGivesUp ==
  ASSUME PrivateInv, pc.recovery \notin {"idle", "spawned"}, NEW d \in {db, Quarantine(db)},
         Private!GiveUpRecovery(d), UNCHANGED events, PrivateHandles
  PROVE  PrivateInv' /\ SessionStep
<1> DEFINE p == Private!At("recovery", "idle")
<1>1. Begun /\ PrivateMovesOn(p) /\ PrivateStays(p) /\ p.event = pc.event
      /\ p.dispatch = pc.dispatch
  BY PrivateSame, PrivatePoints
<1>2. Private!FailClosed(att, d, p) \/ Private!Continue(att, db, p)
  BY DEF Private!GiveUpRecovery
<1> HIDE DEF p
<1>3. \A e \in {db, Quarantine(db)} : PrivateGoes(att, e, p) /\ Leads(db, e, att.job)
  BY <1>1, PrivateSame DEF PrivateGoes, PrivateQueueMoves, PrivateHandles
<1> QED  BY <1>1, <1>2, <1>3, PrivateContinues, PrivateFailsClosed

LEMMA PrivateRetries ==
  ASSUME PrivateInv, pc.recovery \in {"probe", "retry"}, ~held \/ conn = "closed",
         Private!NextTry, UNCHANGED events, PrivateHandles
  PROVE  PrivateInv' /\ SessionStep
<1>1. CASE Private!GiveUpRecovery(db)
  BY <1>1, PrivateGivesUp
<1>2. CASE /\ tries < MaxTries /\ pc' = Private!At("recovery", "delay") /\ held' = FALSE
           /\ UNCHANGED <<conn, rpc, bstate, disc, att, db>>
  <2>0. PrivateParts /\ PrivateLife /\ PrivateRequestLost
    BY <1>2, PrivateFacts DEF PrivateHandles
  <2>1. /\ pc' \in Private!Control /\ pc'.recovery = "delay" /\ pc'.dispatch = pc.dispatch
        /\ pc'.cancel = pc.cancel /\ pc'.event = pc.event /\ pc'.start = pc.start
        /\ pc'.stop = pc.stop
    BY <1>2, PrivateLifeAt
  <2>2. PrivateLife'
    BY <1>2, <2>0, <2>1 DEF PrivateLife, PrivateHandles, UpStates, GoneStates
  <2> QED
    BY <1>2, <2>0, <2>1, <2>2, PrivateLifecycle DEF PrivateParts, PrivateHandles
<1> QED  BY <1>1, <1>2 DEF Private!NextTry

LEMMA PrivateRecoveryCloses ==
  ASSUME PrivateInv, Private!RecoveryCloses \/ Private!RecoveryDelay
  PROVE  PrivateInv' /\ SessionStep
<1>0. /\ PrivateParts /\ PrivateHolds /\ PrivateLife /\ MaxTries \in Nat
      /\ UNCHANGED <<marker, Private!truthVars, events>>
      /\ UNCHANGED <<wire, owed, srv, runs>>
  BY PrivateFacts
  DEF Private!RecoveryCloses, Private!RecoveryDelay, Private!truthVars
<1>1. CASE /\ Private!RecoveryCloses /\ cleanup' = TRUE
           /\ Private!GiveUpRecovery(Private!Quarantine(db))
  <2>1. pc.recovery = "closing" /\ PrivateHandles
    BY <1>0, <1>1 DEF Private!RecoveryCloses, PrivateHandles, PrivateParts
  <2> QED  BY <1>0, <1>1, <2>1, PrivateSession, PrivateGivesUp
<1>2. CASE \/ /\ Private!RecoveryCloses /\ conn = "closed" /\ held' = FALSE
              /\ pc' = Private!At("recovery", IF Private!Recovering THEN "delay" ELSE "idle")
              /\ UNCHANGED <<conn, rpc, bstate, disc, att, db, cleanup>>
           \/ Private!RecoveryDelay
  <2>1. PICK q \in {"delay", "probe", "idle"} :
          /\ pc' = Private!At("recovery", q)
          /\ pc.recovery \in {"closing", "delay"}
          /\ pc.recovery = "closing" => conn = "closed" /\ q # "probe" /\ tries' = tries
          /\ pc.recovery = "delay" => held' = held /\ q # "delay"
          /\ held' \in {FALSE, held}
          /\ UNCHANGED <<conn, rpc, bstate, disc, att, db, cleanup>>
          /\ tries' \in {tries, tries + 1}
          /\ pc.recovery = "closing" => held' = FALSE
    BY <1>2
    DEF Private!RecoveryCloses, Private!RecoveryDelay, Private!Continue, Private!lifeVars
  <2>2. /\ pc' \in Private!Control /\ pc'.recovery = q /\ pc'.dispatch = pc.dispatch
        /\ pc'.cancel = pc.cancel /\ pc'.event = pc.event /\ pc'.start = pc.start
        /\ pc'.stop = pc.stop
    BY <2>1, PrivateLifeAt
  <2>3. tries < MaxTries /\ tries' \in 0..MaxTries
    BY <1>0, <2>1 DEF PrivateLife, PrivateParts
  <2>4. PrivateLife'
    BY <1>0, <2>1, <2>2, <2>3 DEF PrivateLife, UpStates, GoneStates
  <2>5. PrivateRequestLost
    BY <1>0, <2>1, PrivateFacts
  <2> QED
    BY <1>0, <2>1, <2>2, <2>3, <2>4, <2>5, PrivateLifecycle DEF PrivateParts
<1> QED  BY <1>1, <1>2 DEF Private!RecoveryCloses, Private!RecoveryDelay

LEMMA PrivateRecoveryProbes ==
  ASSUME PrivateInv, Private!RecoveryProbe
  PROVE  PrivateInv' /\ SessionStep
<1>0. /\ PrivateParts /\ PrivateLife /\ pc.recovery = "probe" /\ ~held
      /\ UNCHANGED <<tries, srv, runs, events>>
  BY PrivateFacts DEF Private!RecoveryProbe, PrivateLife
<1>1. CASE /\ Private!GiveUpRecovery(Private!Quarantine(db)) /\ UNCHANGED <<wire, owed>>
           /\ cleanup' \in {cleanup, TRUE} /\ marker' \in {marker, FALSE}
  <2>1. cleanup' \in BOOLEAN /\ (cleanup => cleanup')
    BY <1>1, PrivateFacts, CleanupStays
  <2>2. marker' \in BOOLEAN
    BY <1>1, PrivateFacts
  <2>3. PrivateHandles
    BY <1>0, <1>1, <2>1, <2>2 DEF PrivateHandles
  <2> QED  BY <1>0, <1>1, <2>3, PrivateSession, PrivateGivesUp
<1>2. CASE Private!NextTry /\ UNCHANGED <<wire, owed, cleanup, marker>>
  <2>1. PrivateHandles
    BY <1>0, <1>2 DEF PrivateHandles, PrivateParts
  <2> QED  BY <1>0, <1>2, <2>1, PrivateRetries
<1>3. CASE /\ Private!Recovering /\ Private!Spawn /\ marker' = FALSE
           /\ pc' = Private!At("recovery", "spawned")
           /\ UNCHANGED <<bstate, held, disc, att, db, cleanup>>
  <2>1. bstate = "recovering" /\ ~att.active /\ conn' = "running"
    BY <1>0, <1>3 DEF PrivateLife, Private!Recovering, Private!Spawn
  <2>2. /\ pc' \in Private!Control /\ pc'.recovery = "spawned" /\ pc'.dispatch = pc.dispatch
        /\ pc'.cancel = pc.cancel /\ pc'.event = pc.event /\ pc'.start = pc.start
        /\ pc'.stop = pc.stop
    BY <1>3, PrivateLifeAt
  <2>3. PrivateLife'
    BY <1>0, <1>3, <2>1, <2>2 DEF PrivateLife
  <2> QED
    BY <1>0, <1>3, <2>1, <2>2, <2>3, PrivateLifecycle DEF PrivateParts
<1> QED  BY <1>1, <1>2, <1>3 DEF Private!RecoveryProbe

LEMMA PrivateRecoveryTries ==
  ASSUME PrivateInv, Private!RecoverySpawned \/ Private!RecoveryCandidate
  PROVE  PrivateInv' /\ SessionStep
<1>0. /\ PrivateParts /\ PrivateHolds /\ PrivateLife
      /\ UNCHANGED <<disc, att, db, cleanup, marker, tries, wire, owed, srv, runs, events>>
  BY PrivateFacts
  DEF Private!RecoverySpawned, Private!RecoveryCandidate, Private!memoVars,
      Private!truthVars
<1>1. PICK q \in {"candidate", "retry", "drifted", "handover"} :
        /\ pc' = Private!At("recovery", q) /\ pc.recovery \in {"spawned", "candidate"}
        /\ Private!CloseClient \/ UNCHANGED <<conn, rpc>>
        /\ pc.recovery = "spawned" => held' = TRUE /\ bstate' = bstate
        /\ pc.recovery = "candidate" =>
             /\ held' = held
             /\ \/ bstate' = bstate
                \/ bstate = "recovering" /\ bstate' = "running"
    BY DEF Private!RecoverySpawned, Private!RecoveryCandidate, Private!Recovering
<1>2. /\ pc' \in Private!Control /\ pc'.recovery = q /\ pc'.dispatch = pc.dispatch
      /\ pc'.cancel = pc.cancel /\ pc'.event = pc.event /\ pc'.start = pc.start
      /\ pc'.stop = pc.stop
  BY <1>1, PrivateLifeAt
<1>3. PrivateRequestLost /\ conn' \in {conn, IF conn \in UpStates THEN "closing" ELSE conn}
  BY <1>0, <1>1, PrivateFacts
<1>4. PrivateLife'
  BY <1>0, <1>1, <1>2, <1>3 DEF PrivateLife, UpStates, GoneStates
<1> QED
  BY <1>0, <1>1, <1>2, <1>3, <1>4, PrivateLifecycle DEF PrivateParts, PrivateStates

LEMMA PrivateRecoveryEnds ==
  ASSUME PrivateInv, Private!RecoveryDrops \/ Private!RecoveryHandsOver
  PROVE  PrivateInv' /\ SessionStep
<1>0. PrivateParts
  BY PrivateFacts
<1>1. CASE Private!RecoveryDrops
  <2>1. /\ cleanup' \in {cleanup, TRUE} /\ UNCHANGED <<marker, tries, events>>
        /\ UNCHANGED <<wire, owed, srv, runs>> /\ pc.recovery \in {"drifted", "retry"}
    BY <1>1 DEF Private!RecoveryDrops, Private!truthVars
  <2>2. cleanup' \in BOOLEAN /\ (cleanup => cleanup')
    BY <2>1, PrivateFacts, CleanupStays
  <2>3. PrivateHandles
    BY <1>0, <2>1, <2>2 DEF PrivateHandles, PrivateParts
  <2>4. \/ Private!GiveUpRecovery(Private!Quarantine(db))
        \/ pc.recovery = "retry" /\ (~held \/ conn = "closed") /\ Private!NextTry
    BY <1>1 DEF Private!RecoveryDrops
  <2> QED  BY <2>1, <2>3, <2>4, PrivateSession, PrivateGivesUp, PrivateRetries
<1>2. CASE Private!RecoveryHandsOver
  <2> DEFINE p == Private!At("recovery", "idle")
  <2>1. /\ pc.recovery = "handover" /\ PrivateHandles /\ UNCHANGED events
        /\ Private!Continue(att, db, p) \/ Private!FailClosed(att, db, p)
    BY <1>2, PrivateLeaves DEF Private!RecoveryHandsOver
  <2>2. Begun /\ PrivateMovesOn(p) /\ PrivateStays(p) /\ p.event = pc.event
        /\ p.dispatch = pc.dispatch
    BY <2>1, PrivateSame, PrivatePoints
  <2> HIDE DEF p
  <2>3. PrivateGoes(att, db, p) /\ Leads(db, db, att.job)
    BY <2>1, <2>2, PrivateSame DEF PrivateGoes, PrivateQueueMoves, PrivateHandles
  <2> QED  BY <2>1, <2>2, <2>3, PrivateContinues, PrivateFailsClosed
<1> QED  BY <1>1, <1>2

LEMMA PrivateStarts ==
  ASSUME PrivateInv,
         Private!StartBegins \/ Private!StartRefused \/ Private!StartSpawns
  PROVE  PrivateInv' /\ SessionStep
<1>0. /\ PrivateParts /\ PrivateHolds /\ PrivateLife /\ pc.start \in {"idle", "starting"}
      /\ UNCHANGED <<disc, att, tries, srv, runs, events>>
      /\ bstate \in {"idle", "starting"} /\ disc = "none" /\ ~att.active
      /\ pc.stop = "no" /\ pc.recovery = "idle"
  <2>1. /\ PrivateParts /\ PrivateHolds /\ PrivateLife
        /\ pc.start \in {"idle", "starting"}
        /\ UNCHANGED <<disc, att, tries, srv, runs, events>>
    BY PrivateFacts
    DEF Private!StartBegins, Private!StartRefused, Private!StartSpawns,
        Private!memoVars, Private!truthVars
  <2> QED  BY <2>1 DEF PrivateLife
<1>1. CASE \/ Private!StartBegins \/ Private!StartRefused
           \/ /\ Private!StartSpawns /\ conn' = "unconfirmed" /\ bstate' = "failed"
              /\ cleanup' = TRUE /\ db' = Private!Quarantine(db)
              /\ pc' = Private!At("start", "failed")
              /\ UNCHANGED <<rpc, wire, owed, held>>
  <2>1. PICK q \in {"starting", "failed"} :
          /\ pc' = Private!At("start", q) /\ bstate' = q
          /\ db' \in {db, Quarantine(db)} /\ UNCHANGED <<rpc, wire, owed, held>>
          /\ conn' \in {conn, "unconfirmed"} /\ (q = "starting" => conn' = conn)
    BY <1>1, PrivateSession
    DEF Private!StartBegins, Private!StartRefused, Private!truthVars
  <2>2. /\ pc' \in Private!Control /\ pc'.start = q /\ pc'.dispatch = pc.dispatch
        /\ pc'.cancel = pc.cancel /\ pc'.event = pc.event /\ pc'.recovery = pc.recovery
        /\ pc'.deadline = pc.deadline /\ pc'.stop = pc.stop
    BY <2>1, PrivateLifeAt
  <2>3. /\ cleanup' = cleanup \/ cleanup' = TRUE
        /\ marker' = marker \/ marker' = FALSE
    BY <1>1
    DEF Private!StartBegins, Private!StartRefused, Private!StartSpawns, Private!memoVars
  <2>4. cleanup' \in BOOLEAN /\ (cleanup => cleanup')
    BY <2>3, PrivateFacts, CleanupStays
  <2>5. marker' \in BOOLEAN
    BY <2>3, PrivateFacts
  <2>6. PrivateRequestLost
    BY <1>0, <2>1 DEF PrivateParts, PrivateRequestLost, Private!ConnState
  <2>7. PrivateLife'
    BY <1>0, <2>1, <2>2 DEF PrivateLife, UpStates
  <2> QED
    BY <1>0, <2>1, <2>2, <2>4, <2>5, <2>6, <2>7, PrivateLifecycle
    DEF PrivateParts, PrivateStates
<1>2. CASE /\ Private!StartSpawns /\ Private!Spawn /\ held' = TRUE
           /\ pc' = Private!At("start", "thread") /\ UNCHANGED <<bstate, db, cleanup>>
  <2>1. /\ pc' \in Private!Control /\ pc'.start = "thread" /\ pc'.dispatch = pc.dispatch
        /\ pc'.cancel = pc.cancel /\ pc'.event = pc.event /\ pc'.recovery = pc.recovery
        /\ pc'.deadline = pc.deadline /\ pc'.stop = pc.stop
    BY <1>2, PrivateLifeAt
  <2>2. marker' = FALSE
    BY <1>2 DEF Private!StartSpawns
  <2>3. PrivateLife'
    BY <1>0, <1>2, <2>1 DEF PrivateLife
  <2> QED
    BY <1>0, <1>2, <2>1, <2>2, <2>3, PrivateLifecycle DEF PrivateParts, PrivateStates
<1> QED  BY <1>1, <1>2 DEF Private!StartSpawns

LEMMA PrivateStartEnds ==
  ASSUME PrivateInv,
         Private!StartThread \/ Private!StartHandsOver \/ Private!StartFails
  PROVE  PrivateInv' /\ SessionStep
<1>0. /\ PrivateParts /\ PrivateHolds /\ PrivateLife
      /\ UNCHANGED <<disc, att, marker, tries, wire, owed, srv, runs, events>>
  BY PrivateFacts
  DEF Private!StartThread, Private!StartHandsOver, Private!StartFails, Private!StartCatches,
      Private!Continue, Private!lifeVars, Private!memoVars, Private!truthVars
<1>1. PICK q \in {"handover", "closing", "done", "failed"} :
        /\ pc' = Private!At("start", q) /\ db' \in {db, Quarantine(db)}
        /\ pc.start \in {"thread", "handover", "closing"}
        /\ \/ UNCHANGED <<conn, rpc, held, bstate>>
           \/ /\ q = "handover" /\ pc.start = "thread" /\ conn = "running"
              /\ Private!StrictTail /\ bstate' = "running" /\ UNCHANGED <<conn, rpc, held>>
           \/ /\ q = "closing" /\ Private!CloseClient /\ bstate' = "failed"
              /\ held' = FALSE
        /\ q = "handover" => pc.start = "thread"
        /\ cleanup' = cleanup \/ cleanup' = TRUE
  BY PrivateSession
  DEF Private!StartThread, Private!StartHandsOver, Private!StartFails, Private!StartCatches,
      Private!Continue, Private!lifeVars, Private!memoVars
<1>2. /\ pc' \in Private!Control /\ pc'.start = q /\ pc'.dispatch = pc.dispatch
      /\ pc'.cancel = pc.cancel /\ pc'.event = pc.event /\ pc'.recovery = pc.recovery
      /\ pc'.deadline = pc.deadline /\ pc'.stop = pc.stop
  BY <1>1, PrivateLifeAt
<1>3. cleanup' \in BOOLEAN /\ (cleanup => cleanup')
  BY <1>1, PrivateFacts, CleanupStays
<1>4. PrivateRequestLost
  BY <1>0, <1>1, PrivateFacts
<1>5. \/ UNCHANGED <<conn, held>> /\ bstate' = bstate
      \/ UNCHANGED <<conn, held>> /\ bstate' = "running" /\ pc.start = "thread"
      \/ /\ held' = FALSE /\ bstate' = "failed"
         /\ conn' = IF conn \in UpStates THEN "closing" ELSE conn
  BY <1>0, <1>1, PrivateFacts
<1>6. /\ pc.stop = "no"
      /\ pc.start = "thread" => ~att.active /\ disc = "none" /\ events = <<>>
  BY <1>0, <1>1 DEF PrivateLife, PrivateParts, Private!Control
<1>7. PrivateLife'
  BY <1>0, <1>1, <1>2, <1>5, <1>6 DEF PrivateLife, UpStates, GoneStates
<1>8. bstate' \in {"running", "recovering"} =>
        bstate \in {"running", "recovering"} \/ (events = <<>> /\ TailStored)
  <2>1. Private!StrictTail => TailStored
    BY DEF Private!StrictTail, Private!TailIsCheckpoint, TailStored
  <2> QED  BY <1>1, <1>6, <2>1
<1> QED
  BY <1>0, <1>1, <1>2, <1>3, <1>4, <1>5, <1>7, <1>8, PrivateLifecycle
  DEF PrivateParts, PrivateStates

LEMMA PrivateStops ==
  ASSUME PrivateInv, Private!Stop
  PROVE  PrivateInv' /\ SessionStep
<1> DEFINE p == Private!At("stop", "settling")
<1>0. /\ PrivateParts /\ PrivateHolds /\ PrivateLife
      /\ pc.start \in {"done", "failed"} /\ pc.stop = "no"
      /\ UNCHANGED <<cleanup, marker, tries, wire, owed, srv, runs, events>>
  BY PrivateFacts DEF Private!Stop, Private!memoVars, Private!truthVars
<1>1. /\ p \in Private!Control /\ p.stop = "settling" /\ p.dispatch = pc.dispatch
      /\ p.cancel = pc.cancel /\ p.event = pc.event /\ p.recovery = pc.recovery
      /\ p.start = pc.start
  BY PrivateLifeAt
<1>2. CASE Private!Disconnect(att, db, p, "stopping")
  <2> HIDE DEF p
  <2>1. PrivateGoes(att, db, p) /\ Leads(db, db, att.job)
    <3>1. PrivateMovesOn(p) /\ PrivateQueueMoves(p)
      BY <1>0, <1>1 DEF PrivateMovesOn, PrivateQueueMoves, PrivateHolds
    <3> QED  BY <1>0, <1>1, <3>1, PrivateSame, PrivateFacts DEF PrivateGoes
  <2>2. /\ pc' = p /\ bstate' = "stopping" /\ disc' # "none" /\ Private!DropClient
        /\ att'.active = att.active
    BY <1>0, <1>2, PrivateAttempts DEF Private!Disconnect, PrivateParts
  <2>3. PrivateLife'
    BY <1>0, <1>1, <2>2, PrivateDrops DEF PrivateLife, UpStates, GoneStates
  <2> QED  BY <1>2, <2>1, <2>3, PrivateDisconnects
<1>3. CASE /\ ~Private!Live(att) \/ disc # "none"
           /\ bstate' = "stopping" /\ pc' = p /\ Private!DropClient
           /\ UNCHANGED <<disc, att, db>>
  <2> HIDE DEF p
  <2>1. att.active => disc # "none"
    BY <1>0, <1>3 DEF Private!Live, PrivateHolds
  <2>2. /\ held' = FALSE /\ PrivateRequestLost
        /\ conn' = IF held /\ conn \in UpStates THEN "closing" ELSE conn
    BY <1>0, <1>3, PrivateDrops
  <2>3. PrivateLife'
    BY <1>0, <1>1, <1>3, <2>1, <2>2 DEF PrivateLife, UpStates, GoneStates
  <2> QED
    BY <1>0, <1>1, <1>3, <2>2, <2>3, PrivateLifecycle, PrivateFacts
    DEF PrivateParts, PrivateStates
<1> QED  BY <1>2, <1>3 DEF Private!Stop

LEMMA PrivateStopSteps ==
  ASSUME PrivateInv, Private!StopStep
  PROVE  PrivateInv' /\ SessionStep
<1>0. /\ PrivateParts /\ PrivateHolds /\ PrivateLife /\ Quarantine(db).quarantined
      /\ UNCHANGED <<att, marker, tries, wire, owed, srv, runs, events>>
      /\ db' \in {db, Quarantine(db)}
  BY PrivateFacts, PrivateSession
  DEF Private!StopStep, Private!StopSettles, Private!StopEnds, Private!DisconnectSettles,
      Private!memoVars, Private!truthVars
<1>1. db.quarantined => db'.quarantined
  BY <1>0
<1>2. CASE Private!StopSettles
  <2>1. /\ pc.stop = "settling" /\ pc.recovery = "idle" /\ Private!DropClient
        /\ pc' = Private!At("stop", "late") /\ UNCHANGED <<bstate, disc>>
        /\ cleanup' = (cleanup \/ conn = "unconfirmed")
    BY <1>2 DEF Private!StopSettles, Private!Quiet
  <2>2. cleanup' \in BOOLEAN /\ (cleanup => cleanup')
    BY <2>1, PrivateFacts
  <2>3. /\ pc' \in Private!Control /\ pc'.stop = "late" /\ pc'.dispatch = pc.dispatch
        /\ pc'.cancel = pc.cancel /\ pc'.event = pc.event /\ pc'.recovery = pc.recovery
        /\ pc'.deadline = pc.deadline /\ pc'.start = pc.start
    BY <2>1, PrivateLifeAt
  <2>4. /\ held' = FALSE /\ PrivateRequestLost
        /\ conn' = IF held /\ conn \in UpStates THEN "closing" ELSE conn
    BY <1>0, <2>1, PrivateDrops
  <2>5. PrivateLife'
    BY <1>0, <1>1, <2>1, <2>3, <2>4 DEF PrivateLife, UpStates, GoneStates
  <2> QED
    BY <1>0, <2>1, <2>2, <2>3, <2>4, <2>5, PrivateLifecycle, PrivateFacts
    DEF PrivateParts, PrivateStates
<1>3. CASE Private!StopEnds
  <2>1. /\ pc.stop = "late" /\ pc.recovery = "idle" /\ conn # "closing"
        /\ pc' = Private!At("stop", "stopped") /\ bstate' = "stopped"
        /\ UNCHANGED <<conn, rpc, held, disc>>
        /\ cleanup' = (cleanup \/ conn = "unconfirmed")
        /\ conn = "unconfirmed" => db' = Quarantine(db)
    BY <1>3, PrivateSession DEF Private!StopEnds, Private!Quiet
  <2>2. cleanup' \in BOOLEAN /\ (cleanup => cleanup')
    BY <2>1, PrivateFacts
  <2>3. /\ pc' \in Private!Control /\ pc'.stop = "stopped" /\ pc'.dispatch = pc.dispatch
        /\ pc'.cancel = pc.cancel /\ pc'.event = pc.event /\ pc'.recovery = pc.recovery
        /\ pc'.deadline = pc.deadline /\ pc'.start = pc.start
    BY <2>1, PrivateLifeAt
  <2>4. ~held /\ conn \in GoneStates
    BY <1>0, <2>1 DEF PrivateLife, UpStates, GoneStates, PrivateParts, Private!ConnState
  <2>5. conn = "unconfirmed" => cleanup' /\ db'.quarantined
    BY <1>0, <2>1
  <2>6. PrivateLife'
    BY <1>0, <1>1, <2>1, <2>3, <2>4, <2>5 DEF PrivateLife, UpStates, GoneStates
  <2> QED
    BY <1>0, <2>1, <2>2, <2>3, <2>6, PrivateLifecycle, PrivateFacts
    DEF PrivateParts, PrivateStates
<1>4. CASE Private!DisconnectSettles
  <2>1. /\ disc = "closing" /\ disc' \in {"done", "failed"}
        /\ UNCHANGED <<conn, rpc, bstate, held, pc, cleanup>>
    BY <1>4 DEF Private!DisconnectSettles, Private!memoVars
  <2>2. PrivateLife'
    BY <1>0, <1>1, <2>1 DEF PrivateLife
  <2> QED
    BY <1>0, <2>1, <2>2, PrivateLifecycle, PrivateFacts DEF PrivateParts, PrivateStates
<1> QED  BY <1>2, <1>3, <1>4 DEF Private!StopStep

\* Every step of the Codex backend with a private key keeps its invariant and
\* is a step of the session.
LEMMA PrivateKeeps ==
  ASSUME PrivateInv, Private!Next
  PROVE  PrivateInv' /\ SessionStep
<1>1. CASE \E j \in Jobs : Private!Dispatch(j) \/ Private!RelayCancel(j)
  BY <1>1, PrivateDispatches, PrivateCancels
<1>2. CASE Private!DispatchStep \/ Private!EventStep
  BY <1>2, PrivateDispatchSteps, PrivateEventSteps
<1>3. CASE \/ Private!CancelStep \/ Private!DeadlinePasses \/ Private!DeadlineStep
           \/ Private!InterruptStep
  BY <1>3, PrivateCancelSteps, PrivateDeadlines
  DEF Private!CancelStep, Private!DeadlineStep, Private!InterruptStep
<1>4. CASE Private!RecoveryStep
  BY <1>4, PrivateRecoveryCloses, PrivateRecoveryProbes, PrivateRecoveryTries,
     PrivateRecoveryEnds
  DEF Private!RecoveryStep
<1>5. CASE Private!StartStep \/ Private!Stop \/ Private!StopStep
  BY <1>5, PrivateStarts, PrivateStartEnds, PrivateStops, PrivateStopSteps
  DEF Private!StartStep
<1>6. CASE Private!ServerStep \/ Private!TimeOutRequest \/ Private!ConfirmClose
  BY <1>6, PrivateTransport, PrivateWrites, PrivateReads, PrivateSays, PrivateExits
  DEF Private!ServerStep
<1> QED  BY <1>1, <1>2, <1>3, <1>4, <1>5, <1>6 DEF Private!Next

LEMMA PrivateBegins ==
  ASSUME Private!Init
  PROVE  PrivateInv /\ Promise!Init
<1>1. SessionInv /\ Promise!Init /\ \A j \in Jobs : db.status[j] \notin Active
  BY PrivateSession, SessionBegins DEF Private!Init
<1>2. /\ att.job = NoJob /\ ~att.active /\ ~att.turn /\ ~att.cancel /\ ~att.terminal
      /\ att.ready = "open" /\ att.buffer = <<>> /\ att \in Private!Attempt
  <2>1. /\ att = Private!NewAttempt(NoJob) /\ Private!NoJob = NoJob
        /\ <<>> \in Seq(Private!Note)
    BY PrivateSession DEF Private!Init
  <2> QED  BY <2>1 DEF Private!NewAttempt, Private!Attempt
<1>3. /\ pc \in Private!Control
      /\ \A a \in {"dispatch", "cancel", "event", "deadline", "recovery", "start"} :
           pc[a] = "idle"
      /\ pc.dispatch = "idle" /\ pc.cancel = "idle" /\ pc.event = "idle"
      /\ pc.deadline = "idle" /\ pc.recovery = "idle" /\ pc.start = "idle"
      /\ pc.stop = "no"
  BY DEF Private!Init, Private!Control
<1>4. /\ conn = "none" /\ rpc[Request] = "idle" /\ rpc \in [{Request} -> Private!RpcState]
      /\ wire = {} /\ owed = {} /\ events = <<>> /\ disc = "none" /\ bstate = "idle"
  BY DEF Private!Init, Private!ClientInit, Request, Private!RpcState
<1>5. Private!TypeOK
  <2>1. Private!ClientTypeOK
    BY <1>4 DEF Private!ClientTypeOK, Private!ConnState, Request
  <2>2. 0 \in 0..MaxTries
    BY BoundsAssumption
  <2>3. Private!SessionTypeOK
    BY <1>1, PrivateSession DEF SessionInv
  <2>4. srv \in [turn : {"none", "running"}, said : BOOLEAN, n : Nat,
                 last : Private!TurnStatus, sys : BOOLEAN]
    BY DEF Private!Init, Private!TurnStatus
  <2>5. events \in Seq(Private!Note \cup {"accepted"})
    BY <1>4
  <2> QED
    BY <1>2, <1>3, <2>1, <2>2, <2>3, <2>4, <2>5 DEF Private!Init, Private!TypeOK
<1>6. PrivateHolds /\ PrivateWire
  BY <1>1, <1>2, <1>3, <1>4, NoJobIsNone DEF PrivateHolds, PrivateWire
<1>7. PrivateQueue /\ PrivateTail /\ PrivateLife
  BY <1>2, <1>3, <1>4 DEF PrivateQueue, PrivateTail, PrivateLife, UpStates, EndsOnce
<1> QED  BY <1>1, <1>5, <1>6, <1>7 DEF PrivateInv

-----------------------------------------------------------------------------
(* Whichever backend the configuration names.  The native one is judged by  *)
(* the cancels that come before stop() is called.                          *)

IInv ==
  /\ kind \in {"private", "codex", "claude"}
  /\ kind = "private" => PrivateInv
  /\ kind = "codex" /\ ~LateCancels => NativeInv
  /\ kind = "claude" => ClaudeInv

LEMMA PrivateStutters ==
  ASSUME PrivateInv, UNCHANGED vars
  PROVE  PrivateInv'
<1> USE DEF vars, sharedVars, privateVars
<1>1. PrivateHolds'
  BY DEF PrivateInv, PrivateHolds
<1>2. PrivateWire'
  BY DEF PrivateInv, PrivateWire
<1>3. PrivateQueue'
  BY DEF PrivateInv, PrivateQueue, EndsOnce
<1>4. PrivateTail'
  BY DEF PrivateInv, PrivateTail, TailStored
<1>5. PrivateLife'
  BY DEF PrivateInv, PrivateLife
<1>6. PrivateParts'
  BY PrivateTypes DEF PrivateParts
<1>7. SessionInv'
  BY SessionStepKeeps DEF PrivateInv, SessionStep
<1> QED  BY <1>1, <1>2, <1>3, <1>4, <1>5, <1>6, <1>7, PrivateMade

LEMMA NativeStutters ==
  ASSUME NativeInv, UNCHANGED vars
  PROVE  NativeInv'
<1> USE DEF vars, sharedVars, codexVars
<1>1. NativeHolds' /\ NativeLifecycle' /\ NativeStarts'
  BY DEF NativeInv, NativeHolds, NativeLifecycle, NativeStarts, Codex!Current
<1>2. NativeWire'
  BY DEF NativeInv, NativeWire, Codex!Current
<1>3. NativeTail'
  BY DEF NativeInv, NativeTail, TailStored, Codex!Current
<1>4. SessionInv'
  BY SessionStepKeeps DEF NativeInv, SessionStep
<1>5. Codex!TypeOK'
  BY DEF NativeInv, Codex!TypeOK, Codex!ClientTypeOK, Codex!SessionTypeOK
<1> QED  BY <1>1, <1>2, <1>3, <1>4, <1>5 DEF NativeInv

LEMMA ClaudeStutters ==
  ASSUME ClaudeInv, UNCHANGED vars
  PROVE  ClaudeInv'
<1> USE DEF vars, claudeVars
<1>1. ClaudeHolds' /\ ClaudePending'
  BY DEF ClaudeInv, ClaudeHolds, ClaudePending
<1>2. ClaudeHears'
  BY DEF ClaudeInv, ClaudeHears
<1>3. SessionInv'
  BY SessionStepKeeps DEF ClaudeInv, SessionStep
<1>4. Claude!TypeOK'
  BY DEF ClaudeInv, Claude!TypeOK, Claude!SessionTypeOK
<1> QED  BY <1>1, <1>2, <1>3, <1>4 DEF ClaudeInv

LEMMA Stutters ==
  ASSUME IInv, UNCHANGED vars
  PROVE  IInv' /\ SessionStep
<1>1. kind' = kind /\ SessionStep
  BY DEF vars, SessionStep
<1> QED  BY <1>1, PrivateStutters, NativeStutters, ClaudeStutters DEF IInv

LEMMA InvariantBegins ==
  ASSUME Init
  PROVE  IInv /\ Promise!Init
<1>1. CASE kind = "private" /\ Private!Init
  BY <1>1, PrivateBegins DEF IInv
<1>2. CASE kind = "codex" /\ Codex!Init
  BY <1>2, NativeBegins DEF IInv
<1>3. CASE kind = "claude" /\ Claude!Init
  BY <1>3, ClaudeBegins DEF IInv
<1> QED  BY <1>1, <1>2, <1>3 DEF Init

\* A step of the backend that is judged is one of the session.
LEMMA InvariantKeeps ==
  ASSUME IInv, [Next]_vars
  PROVE  IInv' /\ (~LateCancels => SessionInv /\ SessionStep)
<1>1. CASE InPrivate(Private!Next)
  <2>1. kind = "private" /\ kind' = kind /\ Private!Next
    BY <1>1 DEF InPrivate
  <2> QED  BY <2>1, PrivateKeeps DEF IInv, PrivateInv
<1>2. CASE InCodex(Codex!Next)
  <2>1. kind = "codex" /\ kind' = kind /\ Codex!Next
    BY <1>2 DEF InCodex
  <2> QED  BY <2>1, NativeKeeps DEF IInv, NativeInv
<1>3. CASE InClaude(Claude!Next)
  <2>1. kind = "claude" /\ kind' = kind /\ Claude!Next
    BY <1>3 DEF InClaude
  <2> QED  BY <2>1, ClaudeKeeps DEF IInv, ClaudeInv
<1>4. CASE UNCHANGED vars
  <2>1. ~LateCancels => SessionInv
    BY DEF IInv, PrivateInv, NativeInv, ClaudeInv
  <2> QED  BY <1>4, <2>1, Stutters
<1> QED  BY <1>1, <1>2, <1>3, <1>4 DEF Next

\* Whatever happens, the state of the private backend and that of Claude stay
\* within their invariants, and that of the native one if it takes no cancel
\* once it was told to stop.
LEMMA InvariantHolds == Spec => []IInv
<1>1. Init => IInv
  BY InvariantBegins
<1>2. IInv /\ [Next]_vars => IInv'
  BY InvariantKeeps
<1> QED  BY <1>1, <1>2, PTL DEF Spec

\* Every variable of the backend that runs, the client's, the session's and the
\* program's included, stays within its type: the events that the app-server's
\* queue, the output and the tail are made of, the points at which the
\* activities wait, the retries of a recovery.
THEOREM TypeCorrect == ~LateCancels => (Spec => []TypeOK)
<1> SUFFICES ASSUME ~LateCancels PROVE Spec => []TypeOK
  OBVIOUS
<1>1. IInv => TypeOK
  BY DEF IInv, TypeOK, PrivateInv, NativeInv, ClaudeInv
<1> QED  BY <1>1, InvariantHolds, PTL

\* Each backend implements ExecutionPromise, for any number of jobs: a request
\* reaches the program once at most, none that was given back or withdrawn ever
\* does, only an executed job is answered, and a lost one fences the session.
\* The native backend keeps this as long as no cancel comes after stop() was
\* called: one that does is refuted in MCExecutionBackendsStop.
THEOREM PromiseKept == ~LateCancels => (Spec => ImplementsExecutionPromise)
<1> SUFFICES ASSUME ~LateCancels PROVE Spec => ImplementsExecutionPromise
  OBVIOUS
<1>1. Init => Promise!Init
  BY InvariantBegins
<1>2. IInv /\ [Next]_vars => [Promise!Next]_(Promise!vars)
  BY InvariantKeeps, SessionStepKeeps
<1> QED  BY <1>1, <1>2, InvariantHolds, PTL DEF Spec, ImplementsExecutionPromise, Promise!Spec

\* No turn of the thread is left out of the stored checkpoint when either Codex
\* backend may dispatch: what was stored is the thread's tail.
THEOREM CheckpointIsTail == ~LateCancels => (Spec => []CheckpointFollowsTail)
<1> SUFFICES ASSUME ~LateCancels PROVE Spec => []CheckpointFollowsTail
  OBVIOUS
<1>1. ASSUME PrivateInv
      PROVE  Private!CheckpointFollowsTail
  BY <1>1 DEF PrivateInv, PrivateTail, Private!CheckpointFollowsTail, Private!Ready, TailStored
<1>2. ASSUME NativeInv
      PROVE  Codex!CheckpointFollowsTail
  BY <1>2, NativeSession
  DEF NativeInv, NativeTail, Codex!CheckpointFollowsTail, Codex!Ready, TailStored,
      Codex!NoActiveJob
<1>3. IInv => CheckpointFollowsTail
  BY <1>1, <1>2 DEF IInv, CheckpointFollowsTail
<1> QED  BY <1>3, InvariantHolds, PTL

\* When stop() of the private backend has returned its process is gone, or the
\* session is fenced because nothing could confirm it, and no job is left active
\* but one whose dispatch waited for the same close, or whose cleanup failed.
THEOREM StopIsQuiet == Spec => []StoppedIsQuiet
<1>1. ASSUME PrivateInv, pc.stop = "stopped"
      PROVE  NoActiveJob(db) \/ cleanup \/ pc.dispatch # "idle"
  <2>1. att.active => disc # "none"
    BY <1>1 DEF PrivateInv, PrivateLife
  <2> QED  BY <1>1, <2>1 DEF PrivateInv, PrivateHolds, NoActiveJob
<1>2. ASSUME PrivateInv
      PROVE  Private!StoppedIsQuiet
  BY <1>1, <1>2, PrivateSession DEF PrivateInv, PrivateLife, Private!StoppedIsQuiet, GoneStates
<1>3. IInv => StoppedIsQuiet
  BY <1>2 DEF IInv, StoppedIsQuiet
<1> QED  BY <1>3, InvariantHolds, PTL
=============================================================================
