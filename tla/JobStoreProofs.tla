--------------------------- MODULE JobStoreProofs ---------------------------
(***************************************************************************)
(* Theorems about JobStore for every set of jobs, sessions, backends,      *)
(* executions and turns and every bound.                                   *)
(***************************************************************************)
EXTENDS JobStore, FiniteSetTheorems, TLAPS

-----------------------------------------------------------------------------
(* Type correctness.                                                       *)

LEMMA InitType == ASSUME Init PROVE TypeOK
  BY StoreAssumption DEF Init, TypeOK, JobStatus, Row, NoRow, Backends

\* The moves that only some columns take part in.
LEMMA StatusType ==
  ASSUME TypeOK, NEW j \in Jobs, NEW st \in JobStatus, SetStatus(j, st)
  PROVE  status' \in [Jobs -> JobStatus]
  BY DEF TypeOK, SetStatus

LEMMA InsertType ==
  ASSUME TypeOK, NEW j \in Jobs, NEW r \in {"success", "failure", "refusal"}, Insert(j, r)
  PROVE  outbox' \in [Jobs -> {"none", "success", "failure", "refusal"}]
  BY DEF TypeOK, Insert

LEMMA AppendType ==
  ASSUME TypeOK, NEW j \in Jobs, NEW e \in AttemptEvent, AppendEvent(j, e)
  PROVE  ledger' \subseteq Jobs \X Nat \X AttemptEvent
  BY DEF TypeOK, AppendEvent

\* One row of backend_sessions is replaced.
LEMMA UpdateRow ==
  ASSUME NEW bs \in [Durable -> [Sessions -> Row]],
         NEW b \in Durable, NEW s \in Sessions, NEW r \in Row
  PROVE  [bs EXCEPT ![b][s] = r] \in [Durable -> [Sessions -> Row]]
<1> DEFINE R == Row
<1> HIDE DEF R
<1>1. ASSUME NEW f \in [Durable -> [Sessions -> R]], NEW q \in R
      PROVE  [f EXCEPT ![b][s] = q] \in [Durable -> [Sessions -> R]]
  OBVIOUS
<1> QED  BY <1>1 DEF R

LEMMA ClearType ==
  ASSUME TypeOK, NEW b \in Durable, NEW j \in Jobs, ClearActive(b, j)
  PROVE  bsession' \in [Durable -> [Sessions -> Row]]
<1> DEFINE s == SessionOf[j]
           r == [bsession[b][s] EXCEPT !.job = NoJob, !.attempt = 0, !.turn = NoTurn]
<1>1. s \in Sessions
  BY StoreAssumption
<1>2. bsession[b][s] \in Row
  BY <1>1 DEF TypeOK
<1>3. r \in Row
  BY <1>2 DEF Row
<1>4. bsession' = [bsession EXCEPT ![b][s] = r]
  BY DEF ClearActive
<1> QED  BY <1>1, <1>3, <1>4, UpdateRow DEF TypeOK

LEMMA PruneType ==
  ASSUME TypeOK
  PROVE  Prune \in [Jobs -> {"none", "fresh", "stale"}]
  BY DEF TypeOK, Prune

LEMMA SettleLostType ==
  ASSUME TypeOK, NEW K \in SUBSET Jobs, SettleLost(K)
  PROVE  /\ status' \in [Jobs -> JobStatus]
         /\ ledger' \subseteq Jobs \X Nat \X AttemptEvent
         /\ quarantine' \subseteq Sessions
<1>1. \A j \in K : LostEvent(j) \in AttemptEvent
  BY DEF LostEvent, AttemptEvent, TerminalEvent
<1>2. \A j \in K : SessionOf[j] \in Sessions
  BY StoreAssumption
<1> QED  BY <1>1, <1>2 DEF SettleLost, TypeOK, JobStatus

LEMMA IntakeType ==
  ASSUME TypeOK, NEW j \in Jobs,
         Ingest(j) \/ MarkAcked(j) \/ Reject(j) \/ RequestCancel(j) \/ ExpireIntent(j)
  PROVE  TypeOK'
<1>1. CASE Ingest(j)
  BY <1>1, PruneType, StoreAssumption DEF Ingest, TypeOK, SetStatus, JobStatus, Exists
<1>2. CASE MarkAcked(j)
  BY <1>2 DEF MarkAcked, TypeOK, SetStatus, JobStatus
<1>3. CASE Reject(j)
  BY <1>3, InsertType DEF Reject, TypeOK, SetStatus, JobStatus
<1>4. CASE RequestCancel(j)
  <2>1. CASE CancelExistingJob(j)
    BY <1>4, <2>1, PruneType DEF RequestCancel, CancelExistingJob, TypeOK, SetStatus, JobStatus
  <2>2. CASE KeepIntent(j)
    BY <1>4, <2>2, PruneType DEF RequestCancel, KeepIntent, TypeOK
  <2> QED  BY <1>4, <2>1, <2>2 DEF RequestCancel
<1>5. CASE ExpireIntent(j)
  BY <1>5 DEF ExpireIntent, TypeOK, jobVars
<1> QED  BY <1>1, <1>2, <1>3, <1>4, <1>5

LEMMA ClaimType ==
  ASSUME TypeOK, NEW j \in Jobs, NEW e \in Executions,
         ClaimForDispatch(j, e) \/ ClaimForBackendDispatch(j, e)
  PROVE  TypeOK'
<1>1. ASSUME Reserve(j, e)
      PROVE  /\ status' \in [Jobs -> JobStatus]
             /\ execution' \in [Jobs -> Executions \cup {NoExecution}]
             /\ gen' \in [Jobs -> Nat]
             /\ lease' \in [Jobs -> Nat]
             /\ ledger' \subseteq Jobs \X Nat \X AttemptEvent
  BY <1>1 DEF Reserve, TypeOK, SetStatus, JobStatus, AttemptEvent
<1>2. CASE ClaimForDispatch(j, e)
  BY <1>1, <1>2 DEF ClaimForDispatch, TypeOK
<1>3. CASE ClaimForBackendDispatch(j, e)
  <2> DEFINE s == SessionOf[j]
             r == [bsession[backend][s] EXCEPT !.job = j, !.attempt = gen[j] + 1]
  <2>1. s \in Sessions /\ backend \in Durable
    BY <1>3, StoreAssumption DEF ClaimForBackendDispatch
  <2>2. bsession[backend][s] \in Row
    BY <2>1 DEF TypeOK
  <2>3. r \in Row
    <3>1. gen[j] + 1 \in Nat
      BY DEF TypeOK
    <3> QED  BY <2>2, <3>1 DEF Row
  <2>4. bsession' = [bsession EXCEPT ![backend][s] = r]
    BY <1>3 DEF ClaimForBackendDispatch
  <2>5. bsession' \in [Durable -> [Sessions -> Row]]
    BY <2>1, <2>3, <2>4, UpdateRow DEF TypeOK
  <2> QED  BY <1>1, <1>3, <2>5 DEF ClaimForBackendDispatch, TypeOK
<1> QED  BY <1>2, <1>3

LEMMA HermesType ==
  ASSUME TypeOK, NEW j \in Jobs, NEW a \in Nat,
         \/ ResetUnsentDispatch(j, a)
         \/ \E e \in Executions : MarkRunning(j, a, e)
         \/ FinishSuccess(j, a) \/ FinishFailure(j, a)
         \/ MarkCancelUnknown(j, a)
         \/ FinishHermesCancellationNotStarted(j, a)
  PROVE  TypeOK'
<1>1. CASE ResetUnsentDispatch(j, a)
  BY <1>1, AppendType, StatusType
     DEF ResetUnsentDispatch, TypeOK, JobStatus, AttemptEvent
<1>2. ASSUME NEW e \in Executions, MarkRunning(j, a, e) PROVE TypeOK'
  <2>1. status' \in [Jobs -> JobStatus] /\ ledger' \subseteq Jobs \X Nat \X AttemptEvent
    BY <1>2, AppendType, StatusType DEF MarkRunning, JobStatus, AttemptEvent
  <2> QED  BY <1>2, <2>1 DEF MarkRunning, TypeOK
<1>3. CASE FinishSuccess(j, a) \/ FinishFailure(j, a)
  BY <1>3, AppendType, StatusType, InsertType
     DEF FinishSuccess, FinishFailure, FinishHermes, TypeOK, JobStatus,
         AttemptEvent, TerminalEvent
<1>4. CASE MarkCancelUnknown(j, a)
  <2>1. status' \in [Jobs -> JobStatus] /\ ledger' \subseteq Jobs \X Nat \X AttemptEvent
    BY <1>4, AppendType, StatusType
       DEF MarkCancelUnknown, JobStatus, AttemptEvent, TerminalEvent
  <2>2. SessionOf[j] \in Sessions
    BY StoreAssumption
  <2> QED  BY <1>4, <2>1, <2>2 DEF MarkCancelUnknown, TypeOK
<1>5. CASE FinishHermesCancellationNotStarted(j, a)
  BY <1>5, AppendType, StatusType
     DEF FinishHermesCancellationNotStarted, TypeOK, JobStatus, AttemptEvent,
         TerminalEvent
<1> QED  BY <1>1, <1>2, <1>3, <1>4, <1>5

LEMMA BackendType ==
  ASSUME TypeOK, NEW j \in Jobs, NEW a \in Nat,
         \/ ResetUnsentBackendDispatch(j, a)
         \/ FinishUnsentBackendCancellation(j, a)
         \/ \E t \in Turns : \/ FinishBackendSuccess(j, a, t)
                             \/ FinishBackendFailure(j, a, t)
                             \/ FinishBackendCredentialFailure(j, a, t)
  PROVE  TypeOK'
<1>1. CASE ResetUnsentBackendDispatch(j, a)
  BY <1>1, AppendType, StatusType, ClearType
     DEF ResetUnsentBackendDispatch, BackendCall, TypeOK, JobStatus, AttemptEvent
<1>2. CASE FinishUnsentBackendCancellation(j, a)
  BY <1>2, AppendType, StatusType, ClearType
     DEF FinishUnsentBackendCancellation, BackendCall, TypeOK, JobStatus,
         AttemptEvent, TerminalEvent
<1>3. ASSUME NEW t \in Turns, NEW st \in {"Succeeded", "Failed"},
             NEW event \in {"succeeded", "failed"}, NEW result \in {"success", "failure"},
             NEW fence \in SUBSET Sessions,
             FinishBackendWithOutbox(j, a, t, st, event, result, fence)
      PROVE  TypeOK'
  BY <1>3, AppendType, StatusType, InsertType, ClearType
     DEF FinishBackendWithOutbox, BackendCall, TypeOK, JobStatus, AttemptEvent,
         TerminalEvent
<1>4. {SessionOf[j]} \in SUBSET Sessions /\ {} \in SUBSET Sessions
  BY StoreAssumption
<1> QED
  BY <1>1, <1>2, <1>3, <1>4
     DEF FinishBackendSuccess, FinishBackendFailure, FinishBackendCredentialFailure

LEMMA TurnType ==
  ASSUME TypeOK, NEW j \in Jobs, NEW a \in Nat,
         \/ \E t \in Turns : MarkBackendRunning(j, a, t)
         \/ \E t \in Turns \cup {NoTurn} :
              MarkBackendCancelUnknown(j, a, t) \/ MarkBackendInterrupted(j, a, t)
  PROVE  TypeOK'
<1> DEFINE s == SessionOf[j]
<1>1. s \in Sessions
  BY StoreAssumption
<1>2. ASSUME NEW t \in Turns, MarkBackendRunning(j, a, t)
      PROVE  TypeOK'
  <2> DEFINE r == [bsession[backend][s] EXCEPT !.turn = t]
  <2>1. backend \in Durable
    BY <1>2 DEF MarkBackendRunning, BackendCall
  <2>2. bsession[backend][s] \in Row
    BY <1>1, <2>1 DEF TypeOK
  <2>3. r \in Row
    BY <2>2 DEF Row
  <2>4. bsession' = [bsession EXCEPT ![backend][s] = r]
    BY <1>2 DEF MarkBackendRunning
  <2>5. bsession' \in [Durable -> [Sessions -> Row]]
    BY <1>1, <2>1, <2>3, <2>4, UpdateRow DEF TypeOK
  <2>6. status' \in [Jobs -> JobStatus] /\ ledger' \subseteq Jobs \X Nat \X AttemptEvent
    BY <1>2, AppendType, StatusType DEF MarkBackendRunning, TypeOK, JobStatus, AttemptEvent
  <2> QED  BY <1>2, <2>5, <2>6 DEF MarkBackendRunning, TypeOK
<1>3. ASSUME NEW t \in Turns \cup {NoTurn}, NEW from, NEW st \in {"CancelUnknown", "Interrupted"},
             NEW event \in {"cancel_unknown", "interrupted"},
             MarkBackendRecoveryTerminal(j, a, t, from, st, event)
      PROVE  TypeOK'
  <2> DEFINE r == [bsession[backend][s] EXCEPT !.turn = t, !.recovery = TRUE]
  <2>1. backend \in Durable
    BY <1>3 DEF MarkBackendRecoveryTerminal, BackendCall
  <2>2. bsession[backend][s] \in Row
    BY <1>1, <2>1 DEF TypeOK
  <2>3. r \in Row
    BY <2>2 DEF Row
  <2>4. bsession' = [bsession EXCEPT ![backend][s] = r]
    BY <1>3 DEF MarkBackendRecoveryTerminal
  <2>5. bsession' \in [Durable -> [Sessions -> Row]]
    BY <1>1, <2>1, <2>3, <2>4, UpdateRow DEF TypeOK
  <2>6. status' \in [Jobs -> JobStatus] /\ ledger' \subseteq Jobs \X Nat \X AttemptEvent
    BY <1>3, AppendType, StatusType
       DEF MarkBackendRecoveryTerminal, JobStatus, AttemptEvent, TerminalEvent
  <2>7. cancelRequested' \in [Jobs -> BOOLEAN]
    BY <1>3 DEF MarkBackendRecoveryTerminal, TypeOK
  <2> QED  BY <1>1, <1>3, <2>5, <2>6, <2>7 DEF MarkBackendRecoveryTerminal, TypeOK
<1> QED
  BY <1>2, <1>3 DEF MarkBackendCancelUnknown, MarkBackendInterrupted

LEMMA DisconnectType ==
  ASSUME TypeOK, NEW e \in Executions,
         MarkConnectorDisconnected(e) \/ MarkBackendDisconnected(e)
  PROVE  TypeOK'
<1>1. CASE MarkConnectorDisconnected(e)
  BY <1>1, SettleLostType DEF MarkConnectorDisconnected, TypeOK
<1>2. CASE MarkBackendDisconnected(e)
  <2> DEFINE lost == {j \in Jobs : /\ execution[j] = e
                                   /\ OwnsJob(backend, j, gen[j])
                                   /\ OwnsSession(backend, j, gen[j])
                                   /\ status[j] \in Active}
             rows == [s \in Sessions |->
                        IF \E j \in lost : SessionOf[j] = s
                        THEN [bsession[backend][s] EXCEPT !.recovery = TRUE]
                        ELSE bsession[backend][s]]
  <2>1. backend \in Durable /\ SettleLost(lost)
    BY <1>2 DEF MarkBackendDisconnected
  <2>2. \A s \in Sessions : bsession[backend][s] \in Row
    BY <2>1 DEF TypeOK
  <2>3. \A s \in Sessions : [bsession[backend][s] EXCEPT !.recovery = TRUE] \in Row
    BY <2>2 DEF Row
  <2>4. rows \in [Sessions -> Row]
    BY <2>2, <2>3
  <2>5. bsession' = [bsession EXCEPT ![backend] = rows]
    BY <1>2 DEF MarkBackendDisconnected
  <2>6. bsession' \in [Durable -> [Sessions -> Row]]
    BY <2>1, <2>4, <2>5 DEF TypeOK
  <2>7. cancelRequested' \in [Jobs -> BOOLEAN]
    BY <1>2 DEF MarkBackendDisconnected, TypeOK
  <2>8. /\ status' \in [Jobs -> JobStatus]
        /\ ledger' \subseteq Jobs \X Nat \X AttemptEvent
        /\ quarantine' \subseteq Sessions
    BY <2>1, SettleLostType
  <2> QED  BY <1>2, <2>6, <2>7, <2>8 DEF MarkBackendDisconnected, TypeOK
<1> QED  BY <1>1, <1>2

LEMMA SessionType ==
  ASSUME TypeOK, NEW s \in Sessions,
         \/ EnsureBackendSession(s) \/ BindBackendThread(s)
         \/ CreateLocalOpaqueBackendSession(s)
         \/ QuarantineSession(s) \/ ReleaseSessionRecovery(s)
  PROVE  TypeOK'
<1>1. NoRow \in Row
  BY DEF NoRow, Row
<1>2. ASSUME NEW th \in {"unbound", "bound"}
      PROVE  [NoRow EXCEPT !.thread = th] \in Row
  BY DEF NoRow, Row
<1>3. CASE EnsureBackendSession(s)
  BY <1>2, <1>3, UpdateRow DEF EnsureBackendSession, TypeOK, jobVars
<1>4. CASE BindBackendThread(s)
  <2> DEFINE r == [bsession[backend][s] EXCEPT !.thread = "bound"]
  <2>1. backend \in Durable
    BY <1>4 DEF BindBackendThread
  <2>2. bsession[backend][s] \in Row
    BY <2>1 DEF TypeOK
  <2>3. r \in Row
    BY <2>2 DEF Row
  <2>4. bsession' = [bsession EXCEPT ![backend][s] = r]
    BY <1>4 DEF BindBackendThread
  <2>5. bsession' \in [Durable -> [Sessions -> Row]]
    BY <2>1, <2>3, <2>4, UpdateRow DEF TypeOK
  <2> QED  BY <1>4, <2>5 DEF BindBackendThread, TypeOK, jobVars
<1>5. CASE CreateLocalOpaqueBackendSession(s)
  BY <1>2, <1>5, UpdateRow DEF CreateLocalOpaqueBackendSession, TypeOK, jobVars
<1>6. CASE QuarantineSession(s)
  BY <1>6 DEF QuarantineSession, TypeOK, jobVars
<1>7. CASE ReleaseSessionRecovery(s)
  BY <1>1, <1>7 DEF ReleaseSessionRecovery, TypeOK, jobVars
<1> QED  BY <1>3, <1>4, <1>5, <1>6, <1>7

LEMMA LifeType ==
  ASSUME TypeOK, (\E b \in Backends : Start(b)) \/ Crash
  PROVE  TypeOK'
<1>1. ASSUME NEW b \in Backends, Start(b)
      PROVE  TypeOK'
  <2>1. \A j \in Jobs : SessionOf[j] \in Sessions
    BY StoreAssumption
  <2>2. \A c \in Durable, s \in Sessions :
           [bsession[c][s] EXCEPT !.recovery = NeedsRecovery(c, s)] \in Row
    <3> SUFFICES ASSUME NEW c \in Durable, NEW s \in Sessions
                 PROVE  [bsession[c][s] EXCEPT !.recovery = NeedsRecovery(c, s)] \in Row
      OBVIOUS
    <3>1. bsession[c][s] \in Row
      BY DEF TypeOK
    <3>2. NeedsRecovery(c, s) \in BOOLEAN
      BY <3>1 DEF NeedsRecovery, Row
    <3> QED  BY <3>1, <3>2 DEF Row
  <2>3. bsession' \in [Durable -> [Sessions -> Row]]
    BY <1>1, <2>2 DEF Start, RecoverAfterRestart
  <2>4. status' \in [Jobs -> JobStatus]
    <3>1. Consumed \in [Jobs -> JobStatus]
      BY DEF Consumed, TypeOK, JobStatus
    <3> QED  BY <1>1, <3>1 DEF Start, RecoverAfterRestart, JobStatus
  <2>5. ledger' \subseteq Jobs \X Nat \X AttemptEvent
    <3>1. \A j \in Lost : RestartEvent(j) \in AttemptEvent /\ j \in Jobs
      BY DEF RestartEvent, AttemptEvent, TerminalEvent, Lost
    <3> QED  BY <1>1, <3>1 DEF Start, RecoverAfterRestart, TypeOK
  <2>6. cancelRequested' \in [Jobs -> BOOLEAN]
    BY <1>1 DEF Start, RecoverAfterRestart, TypeOK
  <2>7. quarantine' \subseteq Sessions
    BY <1>1, <2>1 DEF Start, RecoverAfterRestart, Lost, TypeOK
  <2>8. intent' \in [Jobs -> {"none", "fresh", "stale"}]
    BY <1>1 DEF Start, RecoverAfterRestart
  <2> QED
    BY <1>1, <2>3, <2>4, <2>5, <2>6, <2>7, <2>8 DEF Start, RecoverAfterRestart, TypeOK
<1>2. CASE Crash
  BY <1>2 DEF Crash, TypeOK, jobVars
<1> QED  BY <1>1, <1>2

LEMMA NextType == ASSUME TypeOK, [Next]_vars PROVE TypeOK'
<1>1. CASE UNCHANGED vars
  BY <1>1 DEF TypeOK, vars, jobVars
<1>2. \A j \in Jobs : \A a \in 1..gen[j] : a \in Nat
  BY DEF TypeOK
<1> QED
  BY <1>1, <1>2, IntakeType, ClaimType, HermesType, BackendType, TurnType,
     DisconnectType, SessionType, LifeType
     DEF Next

\* The columns of every table keep the values the schema of
\* src/src/state/store.ts allows, whatever transaction runs.
THEOREM TypeCorrect == Spec => []TypeOK
  BY InitType, NextType, PTL DEF Spec

-----------------------------------------------------------------------------
(* What a transaction may do to one job: Moves(k) holds of every step.     *)

Answer(st) ==
  CASE st = "Succeeded" -> "success"
    [] st = "Failed"    -> "failure"
    [] st = "Rejected"  -> "refusal"
    [] OTHER            -> "none"

Coherent(st, c, o) ==
  /\ c <=> st \in {"Cancelling", "Cancelled", "CancelUnknown"}
  /\ o = Answer(st)

Moves(k) ==
  /\ status[k] \in Terminal => status'[k] = status[k] /\ outbox'[k] = outbox[k]
  /\ status'[k] \in Active =>
       \/ status[k] \in Active
       \/ Claimable(k) /\ \A m \in Jobs \ {k} : status'[m] = status[m]
  /\ Coherent(status[k], cancelRequested[k], outbox[k]) =>
       Coherent(status'[k], cancelRequested'[k], outbox'[k])

LEMMA StatusAt ==
  ASSUME TypeOK, NEW j \in Jobs, NEW k \in Jobs, NEW st, SetStatus(j, st)
  PROVE  status'[k] = IF k = j THEN st ELSE status[k]
  BY DEF TypeOK, SetStatus

LEMMA InsertAt ==
  ASSUME TypeOK, NEW j \in Jobs, NEW k \in Jobs, NEW r, Insert(j, r)
  PROVE  outbox'[k] = IF k = j /\ outbox[k] = "none" THEN r ELSE outbox[k]
  BY DEF TypeOK, Insert

\* What a transaction that writes the row of j alone owes to every row.
LEMMA MoveOne ==
  ASSUME TypeOK, NEW j \in Jobs, NEW k \in Jobs, NEW st, SetStatus(j, st),
         k # j => cancelRequested'[k] = cancelRequested[k] /\ outbox'[k] = outbox[k],
         status[j] \in Terminal => st = status[j] /\ outbox'[j] = outbox[j],
         st \in Active => status[j] \in Active \/ Claimable(j),
         Coherent(status[j], cancelRequested[j], outbox[j]) =>
           Coherent(st, cancelRequested'[j], outbox'[j])
  PROVE  Moves(k)
<1>1. \A m \in Jobs : status'[m] = IF m = j THEN st ELSE status[m]
  BY StatusAt
<1>2. CASE k = j
  BY <1>1, <1>2 DEF Moves
<1>3. CASE k # j
  BY <1>1, <1>3 DEF Moves
<1> QED  BY <1>2, <1>3

LEMMA IntakeMoves ==
  ASSUME TypeOK, NEW j \in Jobs, NEW k \in Jobs,
         Ingest(j) \/ MarkAcked(j) \/ Reject(j) \/ RequestCancel(j) \/ ExpireIntent(j)
  PROVE  Moves(k)
<1>1. CASE Ingest(j)
  <2> DEFINE now == IF ~Exists(j) THEN "Received" ELSE status[j]
             hit == intent[j] = "fresh" /\ now \in Waiting \cup {"Dispatching", "Running"}
             st  == IF ~hit THEN now ELSE IF now \in Waiting THEN "Cancelled" ELSE "Cancelling"
  <2>1. /\ SetStatus(j, st)
        /\ cancelRequested' = [cancelRequested EXCEPT ![j] = @ \/ hit]
        /\ UNCHANGED outbox
    BY <1>1 DEF Ingest
  <2>2. cancelRequested'[j] = (cancelRequested[j] \/ hit)
    BY <2>1 DEF TypeOK
  <2>3. k # j => cancelRequested'[k] = cancelRequested[k]
    BY <2>1 DEF TypeOK
  <2>4. status[j] \in Terminal => st = status[j]
    BY DEF Terminal, Exists, Waiting
  <2>5. st \in Active => status[j] \in Active
    BY DEF Active, Exists, Waiting
  <2>6. Coherent(status[j], cancelRequested[j], outbox[j]) =>
          Coherent(st, cancelRequested'[j], outbox'[j])
    BY <2>1, <2>2 DEF Coherent, Answer, Exists, Waiting
  <2> HIDE DEF st
  <2> QED  BY <2>1, <2>3, <2>4, <2>5, <2>6, MoveOne
<1>2. CASE MarkAcked(j)
  BY <1>2, MoveOne DEF MarkAcked, Coherent, Answer, Terminal, Active
<1>3. CASE Reject(j)
  <2>1. SetStatus(j, "Rejected") /\ UNCHANGED cancelRequested /\ status[j] \in Waiting
    BY <1>3 DEF Reject
  <2>2. \A m \in Jobs : outbox'[m] = IF m = j /\ outbox[m] = "none" THEN "refusal" ELSE outbox[m]
    BY <1>3, InsertAt DEF Reject
  <2> QED  BY <2>1, <2>2, MoveOne DEF Coherent, Answer, Terminal, Active, Waiting
<1>4. CASE RequestCancel(j)
  <2>1. CASE CancelExistingJob(j)
    <3> DEFINE hit == status[j] \in Waiting \cup {"Dispatching", "Running"}
               st  == IF ~hit THEN status[j] ELSE IF status[j] \in Waiting
                      THEN "Cancelled" ELSE "Cancelling"
    <3>1. /\ SetStatus(j, st)
          /\ cancelRequested' = [cancelRequested EXCEPT ![j] = @ \/ hit]
          /\ UNCHANGED outbox
      BY <1>4, <2>1 DEF RequestCancel, CancelExistingJob
    <3>2. cancelRequested'[j] = (cancelRequested[j] \/ hit)
      BY <3>1 DEF TypeOK
    <3>3. k # j => cancelRequested'[k] = cancelRequested[k]
      BY <3>1 DEF TypeOK
    <3>4. status[j] \in Terminal => st = status[j]
      BY DEF Terminal, Waiting
    <3>5. st \in Active => status[j] \in Active
      BY DEF Active, Waiting
    <3>6. Coherent(status[j], cancelRequested[j], outbox[j]) =>
            Coherent(st, cancelRequested'[j], outbox'[j])
      BY <3>1, <3>2 DEF Coherent, Answer, Waiting
    <3> HIDE DEF st
    <3> QED  BY <3>1, <3>3, <3>4, <3>5, <3>6, MoveOne
  <2>2. CASE KeepIntent(j)
    BY <1>4, <2>2 DEF RequestCancel, KeepIntent, Moves
  <2> QED  BY <1>4, <2>1, <2>2 DEF RequestCancel
<1>5. CASE ExpireIntent(j)
  BY <1>5 DEF ExpireIntent, jobVars, Moves
<1> QED  BY <1>1, <1>2, <1>3, <1>4, <1>5

LEMMA ClaimMoves ==
  ASSUME TypeOK, NEW j \in Jobs, NEW k \in Jobs, NEW e \in Executions,
         ClaimForDispatch(j, e) \/ ClaimForBackendDispatch(j, e)
  PROVE  Moves(k)
<1>1. Claimable(j) /\ SetStatus(j, "Dispatching") /\ UNCHANGED <<cancelRequested, outbox>>
  BY DEF ClaimForDispatch, ClaimForBackendDispatch, Reserve
<1>2. status[j] \in Waiting
  BY <1>1 DEF Claimable
<1> QED  BY <1>1, <1>2, MoveOne DEF Coherent, Answer, Terminal, Waiting

\* The ends and half-ends of an attempt.
LEMMA StepMoves ==
  ASSUME TypeOK, NEW j \in Jobs, NEW k \in Jobs, NEW st,
         SetStatus(j, st), UNCHANGED <<cancelRequested, outbox>>,
         \/ st = "Cancelled" /\ status[j] = "Cancelling"
         \/ st \in {"Running", "Acked"} /\ status[j] = "Dispatching"
         \/ st = "Interrupted" /\ status[j] \in {"Dispatching", "Running"}
  PROVE  Moves(k)
  BY MoveOne DEF Coherent, Answer, Terminal, Active

LEMMA ResultMoves ==
  ASSUME TypeOK, NEW j \in Jobs, NEW k \in Jobs,
         status[j] \in {"Dispatching", "Running"}, UNCHANGED cancelRequested,
         \/ SetStatus(j, "Succeeded") /\ Insert(j, "success")
         \/ SetStatus(j, "Failed") /\ Insert(j, "failure")
  PROVE  Moves(k)
<1>1. PICK st \in {"Succeeded", "Failed"} : SetStatus(j, st) /\ Insert(j, Answer(st))
  BY DEF Answer
<1>2. \A m \in Jobs : outbox'[m] = IF m = j /\ outbox[m] = "none" THEN Answer(st) ELSE outbox[m]
  BY <1>1, InsertAt
<1>3. Coherent(status[j], cancelRequested[j], outbox[j]) => Coherent(st, cancelRequested'[j], outbox'[j])
  BY <1>2 DEF Coherent, Answer
<1> QED  BY <1>1, <1>2, <1>3, MoveOne DEF Terminal, Active

LEMMA UnknownMoves ==
  ASSUME TypeOK, NEW j \in Jobs, NEW k \in Jobs, UNCHANGED outbox,
         status[j] = "Cancelling", SetStatus(j, "CancelUnknown"),
         cancelRequested' = [cancelRequested EXCEPT ![j] = TRUE]
  PROVE  Moves(k)
<1>1. cancelRequested'[j] /\ (k # j => cancelRequested'[k] = cancelRequested[k])
  BY DEF TypeOK
<1> QED  BY <1>1, MoveOne DEF Coherent, Answer, Terminal, Active

LEMMA HermesMoves ==
  ASSUME TypeOK, NEW j \in Jobs, NEW k \in Jobs, NEW a \in Nat,
         \/ ResetUnsentDispatch(j, a)
         \/ \E e \in Executions : MarkRunning(j, a, e)
         \/ FinishSuccess(j, a) \/ FinishFailure(j, a)
         \/ MarkCancelUnknown(j, a)
         \/ FinishHermesCancellationNotStarted(j, a)
  PROVE  Moves(k)
<1>1. CASE \/ ResetUnsentDispatch(j, a)
           \/ \E e \in Executions : MarkRunning(j, a, e)
           \/ FinishHermesCancellationNotStarted(j, a)
  BY <1>1, StepMoves
     DEF ResetUnsentDispatch, Unsent, MarkRunning, FinishHermesCancellationNotStarted
<1>2. CASE FinishSuccess(j, a) \/ FinishFailure(j, a)
  BY <1>2, ResultMoves DEF FinishSuccess, FinishFailure, FinishHermes, Finishable
<1>3. CASE MarkCancelUnknown(j, a)
  BY <1>3, UnknownMoves DEF MarkCancelUnknown
<1> QED  BY <1>1, <1>2, <1>3

LEMMA BackendMoves ==
  ASSUME TypeOK, NEW j \in Jobs, NEW k \in Jobs, NEW a \in Nat,
         \/ ResetUnsentBackendDispatch(j, a)
         \/ FinishUnsentBackendCancellation(j, a)
         \/ \E t \in Turns : \/ FinishBackendSuccess(j, a, t)
                             \/ FinishBackendFailure(j, a, t)
                             \/ FinishBackendCredentialFailure(j, a, t)
  PROVE  Moves(k)
<1>1. CASE ResetUnsentBackendDispatch(j, a) \/ FinishUnsentBackendCancellation(j, a)
  BY <1>1, StepMoves DEF ResetUnsentBackendDispatch, FinishUnsentBackendCancellation
<1>2. CASE \E t \in Turns : \/ FinishBackendSuccess(j, a, t)
                            \/ FinishBackendFailure(j, a, t)
                            \/ FinishBackendCredentialFailure(j, a, t)
  BY <1>2, ResultMoves
     DEF FinishBackendSuccess, FinishBackendFailure, FinishBackendCredentialFailure,
         FinishBackendWithOutbox
<1> QED  BY <1>1, <1>2

LEMMA TurnMoves ==
  ASSUME TypeOK, NEW j \in Jobs, NEW k \in Jobs, NEW a \in Nat,
         \/ \E t \in Turns : MarkBackendRunning(j, a, t)
         \/ \E t \in Turns \cup {NoTurn} :
              MarkBackendCancelUnknown(j, a, t) \/ MarkBackendInterrupted(j, a, t)
  PROVE  Moves(k)
<1>1. ASSUME NEW t \in Turns, MarkBackendRunning(j, a, t) PROVE Moves(k)
  <2>1. CASE status[j] = "Dispatching" /\ SetStatus(j, "Running")
    BY <1>1, <2>1, StepMoves DEF MarkBackendRunning
  <2>2. CASE UNCHANGED status
    BY <1>1, <2>2 DEF MarkBackendRunning, Moves
  <2> QED  BY <1>1, <2>1, <2>2 DEF MarkBackendRunning
<1>2. ASSUME NEW t \in Turns \cup {NoTurn}, MarkBackendCancelUnknown(j, a, t)
      PROVE  Moves(k)
  <2>1. cancelRequested' = [cancelRequested EXCEPT ![j] = TRUE]
    BY <1>2 DEF MarkBackendCancelUnknown, MarkBackendRecoveryTerminal, TypeOK
  <2> QED
    BY <1>2, <2>1, UnknownMoves DEF MarkBackendCancelUnknown, MarkBackendRecoveryTerminal
<1>3. ASSUME NEW t \in Turns \cup {NoTurn}, MarkBackendInterrupted(j, a, t)
      PROVE  Moves(k)
  <2>1. cancelRequested' = cancelRequested
    <3>1. cancelRequested' = [cancelRequested EXCEPT ![j] = @ \/ FALSE]
      BY <1>3 DEF MarkBackendInterrupted, MarkBackendRecoveryTerminal
    <3>2. (cancelRequested[j] \/ FALSE) = cancelRequested[j]
      BY DEF TypeOK
    <3>3. cancelRequested' = [cancelRequested EXCEPT ![j] = cancelRequested[j]]
      BY <3>1, <3>2
    <3> QED  BY <3>3 DEF TypeOK
  <2> QED
    BY <1>3, <2>1, StepMoves DEF MarkBackendInterrupted, MarkBackendRecoveryTerminal
<1> QED  BY <1>1, <1>2, <1>3

LEMMA LostMoves ==
  ASSUME TypeOK, NEW K \in SUBSET {j \in Jobs : status[j] \in Active}, NEW k \in Jobs,
         SettleLost(K), UNCHANGED outbox,
         \/ UNCHANGED cancelRequested
         \/ cancelRequested' = [j \in Jobs |-> \/ cancelRequested[j]
                                               \/ j \in K /\ status[j] = "Cancelling"]
  PROVE  Moves(k)
<1>1. status'[k] = IF k \notin K THEN status[k]
                   ELSE IF status[k] = "Cancelling" THEN "CancelUnknown" ELSE "Interrupted"
  BY DEF SettleLost
<1>2. cancelRequested[k] \in BOOLEAN /\ cancelRequested'[k] \in BOOLEAN
  BY DEF TypeOK
<1>3. cancelRequested'[k] <=>
        \/ cancelRequested[k]
        \/ status[k] = "Cancelling" /\ k \in K /\ cancelRequested'[k]
  BY <1>2
<1>4. K \subseteq Jobs /\ (k \in K => status[k] \in Active)
  OBVIOUS
<1> QED  BY <1>1, <1>3, <1>4 DEF Moves, Coherent, Answer, Terminal, Active

LEMMA DisconnectMoves ==
  ASSUME TypeOK, NEW e \in Executions, NEW k \in Jobs,
         MarkConnectorDisconnected(e) \/ MarkBackendDisconnected(e)
  PROVE  Moves(k)
  BY LostMoves DEF MarkConnectorDisconnected, MarkBackendDisconnected

LEMMA LifeMoves ==
  ASSUME TypeOK, NEW k \in Jobs, (\E b \in Backends : Start(b)) \/ Crash
  PROVE  Moves(k)
<1>1. ASSUME NEW b \in Backends, Start(b) PROVE Moves(k)
  <2>1. Consumed[k] = IF ~Matched(k) THEN status[k]
                      ELSE IF status[k] \in Waiting THEN "Cancelled" ELSE "Cancelling"
    BY DEF Consumed
  <2>2. status'[k] = IF Consumed[k] \notin Active THEN Consumed[k]
                     ELSE IF Consumed[k] = "Cancelling" THEN "CancelUnknown" ELSE "Interrupted"
    BY <1>1 DEF Start, RecoverAfterRestart, Lost
  <2>3. cancelRequested'[k] = (cancelRequested[k] \/ Matched(k)) /\ outbox' = outbox
    BY <1>1 DEF Start, RecoverAfterRestart
  <2>4. Matched(k) => status[k] \in Waiting \cup {"Dispatching", "Running"}
    BY DEF Matched
  <2> QED
    BY <2>1, <2>2, <2>3, <2>4 DEF Moves, Coherent, Answer, Terminal, Active, Waiting
<1>2. CASE Crash
  BY <1>2 DEF Crash, jobVars, Moves
<1> QED  BY <1>1, <1>2

LEMMA NextMoves ==
  ASSUME TypeOK, [Next]_vars, NEW k \in Jobs
  PROVE  Moves(k)
<1>1. CASE UNCHANGED vars
  BY <1>1 DEF vars, jobVars, Moves
<1>2. ASSUME NEW s \in Sessions,
             \/ EnsureBackendSession(s) \/ BindBackendThread(s)
             \/ CreateLocalOpaqueBackendSession(s)
             \/ QuarantineSession(s) \/ ReleaseSessionRecovery(s)
      PROVE  Moves(k)
  BY <1>2 DEF EnsureBackendSession, BindBackendThread, CreateLocalOpaqueBackendSession,
              QuarantineSession, ReleaseSessionRecovery, jobVars, Moves
<1>3. \A j \in Jobs : \A a \in 1..gen[j] : a \in Nat
  BY DEF TypeOK
<1> QED
  BY <1>1, <1>2, <1>3, IntakeMoves, ClaimMoves, HermesMoves, BackendMoves, TurnMoves,
     DisconnectMoves, LifeMoves
     DEF Next

-----------------------------------------------------------------------------
(* The invariants that follow from the moves of single jobs.               *)

\* One job at a time holds a session, for every number of jobs, sessions and
\* backends: only a claim activates a job, and its NOT EXISTS clause sees all
\* three active statuses of every other job of the session.
THEOREM ExclusiveSession == Spec => []OneActivePerSession
<1>1. Init => OneActivePerSession
  BY DEF Init, OneActivePerSession, Active
<1>2. TypeOK /\ OneActivePerSession /\ [Next]_vars => OneActivePerSession'
  <2> SUFFICES ASSUME TypeOK, OneActivePerSession, [Next]_vars,
                      NEW j \in Jobs, NEW k \in Jobs, j # k,
                      status'[j] \in Active, status'[k] \in Active,
                      SessionOf[j] = SessionOf[k]
               PROVE  FALSE
    BY DEF OneActivePerSession
  <2>1. Moves(j) /\ Moves(k)
    BY NextMoves
  <2>2. ~(status[j] \in Active /\ status[k] \in Active)
    BY DEF OneActivePerSession
  <2>3. CASE Claimable(j) /\ \A m \in Jobs \ {j} : status'[m] = status[m]
    BY <2>3 DEF Claimable, OthersActive
  <2>4. CASE Claimable(k) /\ \A m \in Jobs \ {k} : status'[m] = status[m]
    BY <2>4 DEF Claimable, OthersActive
  <2> QED  BY <2>1, <2>2, <2>3, <2>4 DEF Moves
<1> QED  BY <1>1, <1>2, TypeCorrect, PTL DEF Spec

\* Cancellation wins, and a result is the one its job ended with, for every
\* interleaving of intake, cancels, calls, disconnects and restarts.
THEOREM CancellationWins == Spec => []CancelWins
<1>1. CancelWins <=> \A j \in Jobs : Coherent(status[j], cancelRequested[j], outbox[j])
  BY DEF CancelWins, Coherent, Answer
<1>2. Init => CancelWins
  BY DEF Init, CancelWins
<1>3. TypeOK /\ CancelWins /\ [Next]_vars => CancelWins'
  <2> SUFFICES ASSUME TypeOK, CancelWins, [Next]_vars PROVE CancelWins'
    OBVIOUS
  <2>1. \A j \in Jobs : Coherent(status'[j], cancelRequested'[j], outbox'[j])
    BY <1>1, NextMoves DEF Moves
  <2> QED  BY <2>1 DEF CancelWins, Coherent, Answer
<1> QED  BY <1>2, <1>3, TypeCorrect, PTL DEF Spec

\* What has ended stays ended, with the same result, whatever stale attempt
\* calls a transaction afterwards.
THEOREM EndsAreFinal == Spec => SettledForever
<1>1. TypeOK /\ [Next]_vars =>
        [\A j \in Jobs : status[j] \in Terminal =>
            status'[j] = status[j] /\ outbox'[j] = outbox[j]]_vars
  BY NextMoves DEF Moves
<1> QED  BY <1>1, TypeCorrect, PTL DEF Spec, SettledForever

-----------------------------------------------------------------------------
(* pending_cancels stays bounded, and keeps nothing for a job that exists, *)
(* for every finite set of jobs and every cap.                             *)

Kept == {k \in Jobs : intent[k] # "none"}
Fresh == {k \in Jobs : Prune[k] = "fresh"}

\* A step that starts no daemon keeps no intent that was not kept before, and
\* none for a job that it inserts.
NoneAdded ==
  /\ up' => up
  /\ \A k \in Jobs : intent'[k] # "none" =>
       /\ intent[k] # "none"
       /\ status[k] = "Absent" => status'[k] = "Absent"

LEMMA FewerIntents ==
  ASSUME IsFiniteSet(Jobs), TypeOK, IntentsAreFuture, NoneAdded
  PROVE  IntentsAreFuture'
<1> SUFFICES ASSUME up'
             PROVE  /\ \A j \in Jobs : intent'[j] # "none" => status'[j] = "Absent"
                    /\ Cardinality(Kept') <= MaxIntents
  BY DEF IntentsAreFuture, Exists, Kept
<1>1. Kept' \subseteq Kept /\ Kept \subseteq Jobs
  BY DEF NoneAdded, Kept
<1>2. Cardinality(Kept) <= MaxIntents
  BY DEF NoneAdded, IntentsAreFuture, Kept
<1>3. IsFiniteSet(Kept)
  BY <1>1, FS_Subset
<1>4. Cardinality(Kept') <= Cardinality(Kept) /\ IsFiniteSet(Kept')
  BY <1>1, <1>3, FS_Subset
<1>5. Cardinality(Kept) \in Nat /\ Cardinality(Kept') \in Nat
  BY <1>3, <1>4, FS_CardinalityType
<1> QED
  BY <1>2, <1>4, <1>5, StoreAssumption DEF NoneAdded, IntentsAreFuture, Exists

-----------------------------------------------------------------------------
(* The writers of the table.                                               *)

LEMMA PruneAt ==
  ASSUME TypeOK, NEW k \in Jobs
  PROVE  /\ Prune[k] = IF intent[k] = "stale" THEN "none" ELSE intent[k]
         /\ Prune[k] \in {"none", "fresh"}
  BY DEF Prune, TypeOK

LEMMA KeepIntentKeeps ==
  ASSUME IsFiniteSet(Jobs), TypeOK, IntentsAreFuture, NEW j \in Jobs,
         UNCHANGED up, KeepIntent(j)
  PROVE  IntentsAreFuture'
<1> SUFFICES ASSUME up
             PROVE  /\ \A k \in Jobs : intent'[k] # "none" => status'[k] = "Absent"
                    /\ Cardinality(Kept') <= MaxIntents
  BY DEF IntentsAreFuture, Exists, Kept
<1>1. \A k \in Jobs : intent'[k] = IF k = j THEN "fresh" ELSE Prune[k]
  BY PruneType DEF KeepIntent
<1>2. Fresh \subseteq Kept /\ Kept \subseteq Jobs /\ Kept' = Fresh \cup {j}
  BY <1>1, PruneAt DEF Fresh, Kept
<1>3. \A k \in Jobs : intent'[k] # "none" => status'[k] = "Absent"
  BY <1>1, PruneAt DEF KeepIntent, Exists, IntentsAreFuture
<1>4. IsFiniteSet(Kept) /\ IsFiniteSet(Fresh)
  <2>1. IsFiniteSet(Kept)
    BY <1>2, FS_Subset
  <2> QED  BY <1>2, <2>1, FS_Subset
<1>5. Cardinality(Fresh) \in Nat /\ Cardinality(Kept) \in Nat
  BY <1>4, FS_CardinalityType
<1>6. Cardinality(Kept) <= MaxIntents /\ Cardinality(Fresh) <= Cardinality(Kept)
  BY <1>2, <1>4, FS_Subset DEF IntentsAreFuture, Kept
<1>7. Cardinality(Kept') = IF j \in Fresh THEN Cardinality(Fresh) ELSE Cardinality(Fresh) + 1
  BY <1>2, <1>4, FS_AddElement
<1>8. j \in Fresh \/ Cardinality(Fresh) < MaxIntents
  BY DEF KeepIntent, HasRoom, Fresh
<1>9. Cardinality(Kept') <= MaxIntents
  BY <1>5, <1>6, <1>7, <1>8, StoreAssumption
<1> QED  BY <1>3, <1>9

LEMMA IntakeKeeps ==
  ASSUME IsFiniteSet(Jobs), TypeOK, IntentsAreFuture, NEW j \in Jobs,
         Ingest(j) \/ MarkAcked(j) \/ Reject(j) \/ RequestCancel(j) \/ ExpireIntent(j)
  PROVE  IntentsAreFuture'
<1>1. CASE Ingest(j) \/ (RequestCancel(j) /\ CancelExistingJob(j))
  <2>1. PICK st : SetStatus(j, st)
    BY <1>1 DEF Ingest, CancelExistingJob
  <2>2. \A k \in Jobs : status'[k] = IF k = j THEN st ELSE status[k]
    BY <2>1, StatusAt
  <2>3. up /\ intent' = [Prune EXCEPT ![j] = "none"]
    BY <1>1 DEF Ingest, RequestCancel, CancelExistingJob
  <2>4. \A k \in Jobs : intent'[k] = IF k = j THEN "none" ELSE Prune[k]
    BY <2>3, PruneType
  <2>5. NoneAdded
    BY <2>2, <2>3, <2>4, PruneAt DEF NoneAdded
  <2> QED  BY <2>5, FewerIntents
<1>2. CASE MarkAcked(j) \/ Reject(j)
  <2>1. PICK st : SetStatus(j, st)
    BY <1>2 DEF MarkAcked, Reject
  <2>2. \A k \in Jobs : status'[k] = IF k = j THEN st ELSE status[k]
    BY <2>1, StatusAt
  <2>3. NoneAdded
    BY <1>2, <2>2 DEF NoneAdded, MarkAcked, Reject, Waiting
  <2> QED  BY <2>3, FewerIntents
<1>3. CASE RequestCancel(j) /\ KeepIntent(j)
  BY <1>3, KeepIntentKeeps DEF RequestCancel
<1>4. CASE ExpireIntent(j)
  <2>1. /\ UNCHANGED <<up, status>> /\ intent[j] # "none"
        /\ \A k \in Jobs : intent'[k] = IF k = j THEN "stale" ELSE intent[k]
    BY <1>4 DEF ExpireIntent, jobVars, TypeOK
  <2>2. NoneAdded
    BY <2>1 DEF NoneAdded
  <2> QED  BY <2>2, FewerIntents
<1> QED  BY <1>1, <1>2, <1>3, <1>4 DEF RequestCancel

LEMMA StartKeeps ==
  ASSUME IsFiniteSet(Jobs), TypeOK, NEW b \in Backends, Start(b)
  PROVE  IntentsAreFuture'
<1>1. PICK kept \in Survivors :
        intent' = [k \in Jobs |-> IF k \in kept THEN "fresh" ELSE "none"]
  BY DEF Start, RecoverAfterRestart
<1>2. \A k \in kept : k \in Jobs /\ status[k] = "Absent"
  BY DEF Survivors, Exists
<1>3. Kept' = kept
  BY <1>1, <1>2 DEF Kept
<1>4. Cardinality(kept) <= MaxIntents
  <2> DEFINE future == {k \in Jobs : Prune[k] = "fresh" /\ ~Exists(k)}
  <2>1. Cardinality(kept) = IF Cardinality(future) > MaxIntents
                            THEN MaxIntents ELSE Cardinality(future)
    BY DEF Survivors
  <2>2. Cardinality(future) \in Nat
    <3>1. future \subseteq Jobs
      OBVIOUS
    <3>2. IsFiniteSet(future)
      BY <3>1, FS_Subset
    <3> QED  BY <3>2, FS_CardinalityType
  <2> QED  BY <2>1, <2>2, StoreAssumption
<1>5. \A k \in Jobs : status[k] = "Absent" => status'[k] = "Absent"
  BY DEF Start, RecoverAfterRestart, Lost, Consumed, Matched, Waiting, Active
<1> QED  BY <1>1, <1>2, <1>3, <1>4, <1>5 DEF IntentsAreFuture, Exists, Kept

LEMMA OthersKeep ==
  ASSUME IsFiniteSet(Jobs), TypeOK, IntentsAreFuture, UNCHANGED intent, up' => up,
         \A k \in Jobs : status[k] = "Absent" => status'[k] = "Absent"
  PROVE  IntentsAreFuture'
<1>1. NoneAdded
  BY DEF NoneAdded
<1> QED  BY <1>1, FewerIntents

\* A transaction about an existing job inserts none.
LEMMA JobKeeps ==
  ASSUME IsFiniteSet(Jobs), TypeOK, IntentsAreFuture, UNCHANGED <<intent, up>>,
         NEW j \in Jobs, status[j] # "Absent",
         NEW st, SetStatus(j, st)
  PROVE  IntentsAreFuture'
  BY StatusAt, OthersKeep

LEMMA ClaimKeeps ==
  ASSUME IsFiniteSet(Jobs), TypeOK, IntentsAreFuture, NEW j \in Jobs, NEW e \in Executions,
         ClaimForDispatch(j, e) \/ ClaimForBackendDispatch(j, e)
  PROVE  IntentsAreFuture'
<1>1. SetStatus(j, "Dispatching") /\ UNCHANGED <<intent, up>> /\ status[j] \in Waiting
  BY DEF ClaimForDispatch, ClaimForBackendDispatch, Reserve, Claimable
<1> QED  BY <1>1, JobKeeps DEF Waiting

LEMMA HermesKeeps ==
  ASSUME IsFiniteSet(Jobs), TypeOK, IntentsAreFuture, NEW j \in Jobs, NEW a,
         \/ ResetUnsentDispatch(j, a)
         \/ \E e \in Executions : MarkRunning(j, a, e)
         \/ FinishSuccess(j, a) \/ FinishFailure(j, a)
         \/ MarkCancelUnknown(j, a)
         \/ FinishHermesCancellationNotStarted(j, a)
  PROVE  IntentsAreFuture'
<1>1. UNCHANGED <<intent, up>> /\ status[j] # "Absent" /\ \E st : SetStatus(j, st)
  BY DEF ResetUnsentDispatch, Unsent, MarkRunning, FinishSuccess, FinishFailure, FinishHermes,
         Finishable, MarkCancelUnknown, FinishHermesCancellationNotStarted
<1> QED  BY <1>1, JobKeeps

LEMMA BackendKeeps ==
  ASSUME IsFiniteSet(Jobs), TypeOK, IntentsAreFuture, NEW j \in Jobs, NEW a,
         \/ ResetUnsentBackendDispatch(j, a)
         \/ FinishUnsentBackendCancellation(j, a)
         \/ \E t \in Turns : \/ MarkBackendRunning(j, a, t)
                             \/ FinishBackendSuccess(j, a, t)
                             \/ FinishBackendFailure(j, a, t)
                             \/ FinishBackendCredentialFailure(j, a, t)
         \/ \E t \in Turns \cup {NoTurn} :
              MarkBackendCancelUnknown(j, a, t) \/ MarkBackendInterrupted(j, a, t)
  PROVE  IntentsAreFuture'
<1>1. /\ UNCHANGED <<intent, up>> /\ status[j] # "Absent"
      /\ UNCHANGED status \/ \E st : SetStatus(j, st)
  BY DEF ResetUnsentBackendDispatch, FinishUnsentBackendCancellation, MarkBackendRunning,
         FinishBackendSuccess, FinishBackendFailure, FinishBackendCredentialFailure,
         FinishBackendWithOutbox, Finishable, MarkBackendCancelUnknown,
         MarkBackendInterrupted, MarkBackendRecoveryTerminal
<1> QED  BY <1>1, JobKeeps, OthersKeep

LEMMA DisconnectKeeps ==
  ASSUME IsFiniteSet(Jobs), TypeOK, IntentsAreFuture, NEW e \in Executions,
         MarkConnectorDisconnected(e) \/ MarkBackendDisconnected(e)
  PROVE  IntentsAreFuture'
<1>1. PICK K \in SUBSET {j \in Jobs : status[j] \in Active} :
        SettleLost(K) /\ UNCHANGED <<intent, up>>
  BY DEF MarkConnectorDisconnected, MarkBackendDisconnected
<1>2. \A k \in Jobs : status[k] = "Absent" => status'[k] = "Absent"
  BY <1>1 DEF SettleLost, Active
<1> QED  BY <1>1, <1>2, OthersKeep

LEMMA NextKeeps ==
  ASSUME IsFiniteSet(Jobs), TypeOK, IntentsAreFuture, [Next]_vars
  PROVE  IntentsAreFuture'
<1>1. CASE UNCHANGED vars
  BY <1>1, OthersKeep DEF vars, jobVars
<1>2. ASSUME NEW s \in Sessions,
             \/ EnsureBackendSession(s) \/ BindBackendThread(s)
             \/ CreateLocalOpaqueBackendSession(s)
             \/ QuarantineSession(s) \/ ReleaseSessionRecovery(s)
      PROVE  IntentsAreFuture'
  BY <1>2, OthersKeep
     DEF EnsureBackendSession, BindBackendThread, CreateLocalOpaqueBackendSession,
         QuarantineSession, ReleaseSessionRecovery, jobVars
<1>3. CASE Crash
  BY <1>3, OthersKeep DEF Crash, jobVars
<1> QED
  BY <1>1, <1>2, <1>3, IntakeKeeps, ClaimKeeps, HermesKeeps, BackendKeeps,
     DisconnectKeeps, StartKeeps
     DEF Next

-----------------------------------------------------------------------------
(* The invariant.                                                          *)

\* However cancels of unknown jobs, their expiry, deliveries and restarts
\* interleave, pending_cancels never exceeds its cap while the daemon runs,
\* and no intent outlives the arrival of its job.
THEOREM IntentsBounded ==
  ASSUME IsFiniteSet(Jobs)
  PROVE  Spec => []IntentsAreFuture
<1>1. Init => IntentsAreFuture
  BY DEF Init, IntentsAreFuture
<1>2. TypeOK /\ IntentsAreFuture /\ [Next]_vars => IntentsAreFuture'
  BY NextKeeps
<1> QED  BY <1>1, <1>2, TypeCorrect, PTL DEF Spec

-----------------------------------------------------------------------------
(* The two tables that say who executes, jobs and backend_sessions, agree  *)
(* in every reachable state.  A transaction is of one of three kinds: it   *)
(* leaves the rows of backend_sessions alone, it retires rows that no      *)
(* active job holds, or it writes one job and the row that job owns.       *)

Unknown == {"CancelUnknown", "Interrupted"}

\* A step after which any row may hold k as it did before.
Quiet(k) ==
  \/ /\ target'[k] = target[k] /\ lease'[k] = lease[k] /\ gen'[k] = gen[k]
     /\ status'[k] \in Active <=> status[k] \in Active
     /\ status[k] \in Unknown => status'[k] = status[k]
  \/ status[k] \notin Active \cup Unknown /\ status'[k] \notin Active
  \/ target[k] \notin Durable /\ target'[k] = target[k]

LEMMA QuietStep ==
  ASSUME TypeOK, FenceAgreement, UNCHANGED bsession, \A k \in Jobs : Quiet(k)
  PROVE  FenceAgreement'
<1>1. ASSUME NEW b \in Durable, NEW s \in Sessions PROVE RowMatchesJob(b, s)'
  <2> DEFINE r == bsession[b][s]
  <2>1. RowMatchesJob(b, s) /\ r \in Row
    BY DEF FenceAgreement, TypeOK
  <2>2. CASE r.job = NoJob
    BY <2>1, <2>2 DEF RowMatchesJob
  <2>3. CASE r.job # NoJob
    <3>1. r.job \in Jobs /\ Quiet(r.job)
      BY <2>1, <2>3 DEF Row
    <3>2. status[r.job] \in Active \cup Unknown /\ target[r.job] = b
      BY <2>1, <2>3 DEF RowMatchesJob, OwnsJob, Unknown
    <3>3. /\ target'[r.job] = target[r.job] /\ lease'[r.job] = lease[r.job]
          /\ gen'[r.job] = gen[r.job]
          /\ status'[r.job] \in Active <=> status[r.job] \in Active
          /\ status[r.job] \in Unknown => status'[r.job] = status[r.job]
      BY <3>1, <3>2 DEF Quiet
    <3> QED
      BY <2>1, <3>3 DEF RowMatchesJob, OwnsJob, Unknown
  <2> QED  BY <2>2, <2>3
<1>2. ASSUME NEW k \in Jobs, status'[k] \in Active, target'[k] \in Durable
      PROVE  OwnsSession(target[k], k, gen[k])' /\ target'[k] = target[k]
  <2>1. Quiet(k)
    OBVIOUS
  <2>2. /\ target'[k] = target[k] /\ gen'[k] = gen[k] /\ status[k] \in Active
    BY <1>2, <2>1 DEF Quiet
  <2> QED  BY <1>2, <2>2 DEF FenceAgreement, OwnsSession, BackendRow
<1> QED  BY <1>1, <1>2 DEF FenceAgreement

\* Rows that hold no active job are emptied or created; the jobs are left.
LEMMA IdleRowsStep ==
  ASSUME TypeOK, FenceAgreement, UNCHANGED jobVars,
         \A b \in Durable, s \in Sessions :
           \/ bsession'[b][s] = bsession[b][s]
           \/ /\ bsession[b][s].job = NoJob \/ bsession[b][s].recovery
              /\ bsession'[b][s].job = NoJob /\ ~bsession'[b][s].recovery
  PROVE  FenceAgreement'
<1>1. ASSUME NEW b \in Durable, NEW s \in Sessions PROVE RowMatchesJob(b, s)'
  BY DEF FenceAgreement, RowMatchesJob, OwnsJob, jobVars
<1>2. ASSUME NEW k \in Jobs, status'[k] \in Active, target'[k] \in Durable
      PROVE  OwnsSession(target[k], k, gen[k])'
  <2>1. status[k] \in Active /\ target[k] \in Durable /\ SessionOf[k] \in Sessions
    BY <1>2, StoreAssumption DEF jobVars
  <2>2. OwnsSession(target[k], k, gen[k]) /\ k # NoJob
    BY <2>1, StoreAssumption DEF FenceAgreement
  <2>3. bsession'[target[k]][SessionOf[k]] = bsession[target[k]][SessionOf[k]]
    BY <2>1, <2>2 DEF OwnsSession, BackendRow
  <2> QED  BY <2>2, <2>3 DEF OwnsSession, BackendRow, jobVars
<1> QED  BY <1>1, <1>2 DEF FenceAgreement, jobVars

\* One job of backend b and the row of its session are written.
LEMMA OwnRowStep ==
  ASSUME TypeOK, FenceAgreement, NEW b \in Durable, NEW j \in Jobs,
         target[j] = b, target' = target,
         bsession[b][SessionOf[j]].job \in {NoJob, j},
         \A k \in Jobs \ {j} : /\ status'[k] = status[k]
                               /\ lease'[k] = lease[k] /\ gen'[k] = gen[k],
         \A c \in Durable, s \in Sessions :
           c # b \/ s # SessionOf[j] => bsession'[c][s] = bsession[c][s],
         RowMatchesJob(b, SessionOf[j])',
         status'[j] \in Active => OwnsSession(b, j, gen[j])'
  PROVE  FenceAgreement'
<1>1. ASSUME NEW c \in Durable, NEW s \in Sessions PROVE RowMatchesJob(c, s)'
  <2>1. CASE c = b /\ s = SessionOf[j]
    BY <2>1
  <2>2. CASE c # b \/ s # SessionOf[j]
    <3> DEFINE r == bsession[c][s]
    <3>1. RowMatchesJob(c, s) /\ bsession'[c][s] = r /\ r \in Row
      BY <2>2 DEF FenceAgreement, TypeOK
    <3>2. r.job # NoJob => r.job \in Jobs \ {j}
      BY <2>2, <3>1 DEF RowMatchesJob, OwnsJob, Row
    <3> QED  BY <3>1, <3>2 DEF RowMatchesJob, OwnsJob
  <2> QED  BY <2>1, <2>2
<1>2. ASSUME NEW k \in Jobs \ {j}, status'[k] \in Active, target[k] \in Durable
      PROVE  OwnsSession(target[k], k, gen[k])'
  <2>1. OwnsSession(target[k], k, gen[k]) /\ SessionOf[k] \in Sessions /\ k # NoJob
    BY <1>2, StoreAssumption DEF FenceAgreement
  <2>2. bsession'[target[k]][SessionOf[k]] = bsession[target[k]][SessionOf[k]]
    BY <1>2, <2>1 DEF OwnsSession, BackendRow
  <2> QED  BY <1>2, <2>1, <2>2 DEF OwnsSession, BackendRow
<1> QED  BY <1>1, <1>2 DEF FenceAgreement

-----------------------------------------------------------------------------
(* Each transaction is one of the three.                                   *)

LEMMA IntakeFence ==
  ASSUME TypeOK, FenceAgreement, NEW j \in Jobs,
         Ingest(j) \/ MarkAcked(j) \/ Reject(j) \/ RequestCancel(j) \/ ExpireIntent(j)
  PROVE  FenceAgreement'
<1>1. ASSUME NEW st, SetStatus(j, st), UNCHANGED <<lease, gen, bsession>>,
             \/ status[j] \in {"Dispatching", "Running"} /\ st = "Cancelling"
             \/ status[j] \in Waiting \cup {"Absent"} /\ st \notin Active
             \/ st = status[j],
             \A k \in Jobs : k # j \/ status[j] # "Absent" => target'[k] = target[k]
      PROVE  FenceAgreement'
  <2>1. \A k \in Jobs : status'[k] = IF k = j THEN st ELSE status[k]
    BY <1>1, StatusAt
  <2>2. \A k \in Jobs : Quiet(k)
    BY <1>1, <2>1 DEF Quiet, Active, Unknown, Waiting
  <2> QED  BY <1>1, <2>2, QuietStep
<1>2. CASE Ingest(j)
  <2> DEFINE now == IF ~Exists(j) THEN "Received" ELSE status[j]
             hit == intent[j] = "fresh" /\ now \in Waiting \cup {"Dispatching", "Running"}
             st  == IF ~hit THEN now ELSE IF now \in Waiting THEN "Cancelled" ELSE "Cancelling"
  <2>1. /\ SetStatus(j, st) /\ UNCHANGED <<lease, gen, bsession>>
        /\ target' = [target EXCEPT ![j] = IF ~Exists(j) THEN backend ELSE @]
    BY <1>2 DEF Ingest
  <2>2. \A k \in Jobs : k # j \/ status[j] # "Absent" => target'[k] = target[k]
    BY <2>1 DEF TypeOK, Exists
  <2>3. \/ status[j] \in {"Dispatching", "Running"} /\ st = "Cancelling"
        \/ status[j] \in Waiting \cup {"Absent"} /\ st \notin Active
        \/ st = status[j]
    BY DEF Exists, Waiting, Active
  <2> HIDE DEF st
  <2> QED  BY <1>1, <2>1, <2>2, <2>3
<1>3. CASE MarkAcked(j)
  BY <1>1, <1>3 DEF MarkAcked, Active, Waiting
<1>4. CASE Reject(j)
  BY <1>1, <1>4 DEF Reject, Active, Waiting
<1>5. CASE RequestCancel(j)
  <2>1. CASE CancelExistingJob(j)
    <3> DEFINE hit == status[j] \in Waiting \cup {"Dispatching", "Running"}
               st  == IF ~hit THEN status[j]
                      ELSE IF status[j] \in Waiting THEN "Cancelled" ELSE "Cancelling"
    <3>1. SetStatus(j, st) /\ UNCHANGED <<target, lease, gen, bsession>>
      BY <1>5, <2>1 DEF RequestCancel, CancelExistingJob
    <3>2. \/ status[j] \in {"Dispatching", "Running"} /\ st = "Cancelling"
          \/ status[j] \in Waiting \cup {"Absent"} /\ st \notin Active
          \/ st = status[j]
      BY DEF Waiting, Active
    <3> HIDE DEF st
    <3> QED  BY <1>1, <3>1, <3>2
  <2>2. CASE KeepIntent(j)
    BY <1>5, <2>2, QuietStep DEF RequestCancel, KeepIntent, Quiet
  <2> QED  BY <1>5, <2>1, <2>2 DEF RequestCancel
<1>6. CASE ExpireIntent(j)
  BY <1>6, QuietStep DEF ExpireIntent, Quiet, jobVars
<1> QED  BY <1>2, <1>3, <1>4, <1>5, <1>6

\* No transaction on a job of Hermes concerns a row of backend_sessions.
LEMMA ElsewhereFence ==
  ASSUME TypeOK, FenceAgreement, NEW j \in Jobs,
         target[j] \notin Durable, UNCHANGED <<target, bsession>>,
         \A k \in Jobs \ {j} : /\ status'[k] = status[k]
                               /\ lease'[k] = lease[k] /\ gen'[k] = gen[k]
  PROVE  FenceAgreement'
<1>1. \A k \in Jobs : Quiet(k)
  BY DEF Quiet
<1> QED  BY <1>1, QuietStep

LEMMA HermesFence ==
  ASSUME TypeOK, FenceAgreement, NEW j \in Jobs, NEW a \in Nat,
         \/ ResetUnsentDispatch(j, a)
         \/ \E e \in Executions : MarkRunning(j, a, e)
         \/ FinishSuccess(j, a) \/ FinishFailure(j, a)
         \/ MarkCancelUnknown(j, a)
         \/ FinishHermesCancellationNotStarted(j, a)
  PROVE  FenceAgreement'
<1>1. /\ HermesCall(j, a)
      /\ \E st \in JobStatus : SetStatus(j, st)
      /\ UNCHANGED <<target, gen, bsession>>
      /\ lease' = lease \/ lease' = [lease EXCEPT ![j] = 0]
  BY DEF ResetUnsentDispatch, MarkRunning, FinishSuccess, FinishFailure, FinishHermes,
         MarkCancelUnknown, FinishHermesCancellationNotStarted, JobStatus
<1>2. target[j] \notin Durable
  BY <1>1, StoreAssumption DEF HermesCall
<1>3. \A k \in Jobs \ {j} : status'[k] = status[k] /\ lease'[k] = lease[k] /\ gen'[k] = gen[k]
  BY <1>1, StatusAt DEF TypeOK
<1> QED  BY <1>1, <1>2, <1>3, ElsewhereFence

\* The entry of one row of backend_sessions after it was replaced.
RowWritten(b, s, r) ==
  /\ bsession'[b][s] = r
  /\ \A c \in Durable, q \in Sessions :
       c # b \/ q # s => bsession'[c][q] = bsession[c][q]

LEMMA RowAt ==
  ASSUME TypeOK, NEW b \in Durable, NEW s \in Sessions, NEW r,
         bsession' = [bsession EXCEPT ![b][s] = r]
  PROVE  RowWritten(b, s, r)
  BY DEF TypeOK, RowWritten

LEMMA ClaimFence ==
  ASSUME TypeOK, FenceAgreement, NEW j \in Jobs, NEW e \in Executions,
         ClaimForDispatch(j, e) \/ ClaimForBackendDispatch(j, e)
  PROVE  FenceAgreement'
<1>1. ASSUME Reserve(j, e)
      PROVE  /\ status'[j] = "Dispatching" /\ lease'[j] = gen[j] + 1 /\ gen'[j] = gen[j] + 1
             /\ \A k \in Jobs \ {j} : /\ status'[k] = status[k]
                                       /\ lease'[k] = lease[k] /\ gen'[k] = gen[k]
  BY <1>1 DEF Reserve, SetStatus, TypeOK
<1>2. CASE ClaimForDispatch(j, e)
  BY <1>1, <1>2, ElsewhereFence, StoreAssumption DEF ClaimForDispatch, Claimable
<1>3. CASE ClaimForBackendDispatch(j, e)
  <2> DEFINE s == SessionOf[j]
             r == [bsession[backend][s] EXCEPT !.job = j, !.attempt = gen[j] + 1]
  <2>1. /\ s \in Sessions /\ backend \in Durable /\ target[j] = backend
        /\ target' = target /\ Reserve(j, e)
        /\ bsession[backend][s].job = NoJob
    BY <1>3, StoreAssumption DEF ClaimForBackendDispatch, Claimable, BackendRow
  <2>2. bsession[backend][s] \in Row /\ gen[j] \in Nat
    BY <2>1 DEF TypeOK
  <2>3. /\ bsession[backend][s].thread = "bound" /\ ~bsession[backend][s].recovery
        /\ bsession' = [bsession EXCEPT ![backend][s] = r]
    BY <1>3 DEF ClaimForBackendDispatch, BackendRow
  <2>4. /\ r.job = j /\ r.attempt = gen[j] + 1 /\ ~r.recovery /\ r.thread = "bound"
    BY <2>2, <2>3 DEF Row
  <2> HIDE DEF r
  <2>5. /\ bsession'[backend][s] = r
        /\ \A c \in Durable, q \in Sessions :
             c # backend \/ q # s => bsession'[c][q] = bsession[c][q]
    <3>1. /\ backend \in Durable /\ s \in Sessions
          /\ bsession' = [bsession EXCEPT ![backend][s] = r]
      BY <2>1, <2>3
    <3> HIDE DEF s
    <3>2. RowWritten(backend, s, r)
      BY <3>1, RowAt
    <3> QED  BY <3>2 DEF RowWritten
  <2>6. /\ status'[j] = "Dispatching" /\ lease'[j] = gen[j] + 1 /\ gen'[j] = gen[j] + 1
        /\ \A k \in Jobs \ {j} : /\ status'[k] = status[k]
                                  /\ lease'[k] = lease[k] /\ gen'[k] = gen[k]
    BY <1>1, <2>1
  <2>7. ASSUME NEW c, c = backend
        PROVE  RowMatchesJob(c, s)' /\ OwnsSession(c, j, gen[j])'
    <3>1. bsession'[c][s] = r /\ target'[j] = c /\ gen[j] + 1 > 0
      BY <2>1, <2>2, <2>5, <2>7
    <3>2. OwnsSession(c, j, gen[j])'
      BY <2>4, <2>6, <3>1 DEF OwnsSession, BackendRow
    <3>3. RowMatchesJob(c, s)'
      BY <2>4, <2>6, <3>1 DEF RowMatchesJob, OwnsJob, Active
    <3> QED  BY <3>2, <3>3
  <2>8. PICK c \in Durable : c = backend
    BY <2>1
  <2> QED  BY <2>1, <2>5, <2>6, <2>7, <2>8, OwnRowStep
<1> QED  BY <1>2, <1>3

\* What the fence of a durable call tells about the row it is about.
LEMMA CallRow ==
  ASSUME TypeOK, NEW j \in Jobs, NEW a \in Nat, BackendCall(j, a)
  PROVE  /\ backend \in Durable /\ SessionOf[j] \in Sessions
         /\ bsession[backend][SessionOf[j]] \in Row
         /\ bsession[backend][SessionOf[j]].job = j
         /\ bsession[backend][SessionOf[j]].attempt = a
         /\ ~bsession[backend][SessionOf[j]].recovery
         /\ target[j] = backend /\ lease[j] = a /\ gen[j] = a /\ a > 0
<1>1. backend \in Durable /\ SessionOf[j] \in Sessions
  BY StoreAssumption DEF BackendCall
<1> QED  BY <1>1 DEF BackendCall, OwnsJob, OwnsSession, BackendRow, TypeOK

\* The job ends, or goes back to wait, and its row is cleared.
LEMMA ClearedFence ==
  ASSUME TypeOK, FenceAgreement, NEW j \in Jobs, NEW a \in Nat, BackendCall(j, a),
         NEW st, st \notin Active, SetStatus(j, st), ClearActive(backend, j),
         UNCHANGED <<target, gen>>,
         lease' = lease \/ lease' = [lease EXCEPT ![j] = 0]
  PROVE  FenceAgreement'
<1> DEFINE s == SessionOf[j]
           r == [bsession[backend][s] EXCEPT !.job = NoJob, !.attempt = 0, !.turn = NoTurn]
<1>1. /\ backend \in Durable /\ s \in Sessions /\ bsession[backend][s] \in Row
      /\ bsession[backend][s].job = j /\ ~bsession[backend][s].recovery
      /\ target[j] = backend
  BY CallRow
<1>2. bsession' = [bsession EXCEPT ![backend][s] = r]
  BY DEF ClearActive
<1>3. r.job = NoJob /\ ~r.recovery
  BY <1>1 DEF Row
<1> HIDE DEF r
<1>4. /\ bsession'[backend][s] = r
      /\ \A c \in Durable, q \in Sessions :
           c # backend \/ q # s => bsession'[c][q] = bsession[c][q]
  <2>1. /\ backend \in Durable /\ s \in Sessions
        /\ bsession' = [bsession EXCEPT ![backend][s] = r]
    BY <1>1, <1>2
  <2> HIDE DEF s
  <2>2. RowWritten(backend, s, r)
    BY <2>1, RowAt
  <2> QED  BY <2>2 DEF RowWritten
<1>5. ASSUME NEW c, c = backend PROVE RowMatchesJob(c, s)'
  BY <1>3, <1>4, <1>5 DEF RowMatchesJob
<1>6. /\ status'[j] \notin Active
      /\ \A k \in Jobs \ {j} : status'[k] = status[k] /\ lease'[k] = lease[k] /\ gen'[k] = gen[k]
  BY StatusAt DEF TypeOK
<1>7. PICK c \in Durable : c = backend
  BY <1>1
<1> QED  BY <1>1, <1>4, <1>5, <1>6, <1>7, OwnRowStep

LEMMA BackendFence ==
  ASSUME TypeOK, FenceAgreement, NEW j \in Jobs, NEW a \in Nat,
         \/ ResetUnsentBackendDispatch(j, a)
         \/ FinishUnsentBackendCancellation(j, a)
         \/ \E t \in Turns : \/ FinishBackendSuccess(j, a, t)
                             \/ FinishBackendFailure(j, a, t)
                             \/ FinishBackendCredentialFailure(j, a, t)
  PROVE  FenceAgreement'
<1>1. CASE ResetUnsentBackendDispatch(j, a)
  BY <1>1, ClearedFence DEF ResetUnsentBackendDispatch, Active
<1>2. CASE FinishUnsentBackendCancellation(j, a)
  BY <1>2, ClearedFence DEF FinishUnsentBackendCancellation, Active
<1>3. ASSUME NEW t, NEW st \in {"Succeeded", "Failed"}, NEW event, NEW result, NEW fence,
             FinishBackendWithOutbox(j, a, t, st, event, result, fence)
      PROVE  FenceAgreement'
  BY <1>3, ClearedFence DEF FinishBackendWithOutbox, Active
<1> QED
  BY <1>1, <1>2, <1>3
     DEF FinishBackendSuccess, FinishBackendFailure, FinishBackendCredentialFailure

LEMMA TurnFence ==
  ASSUME TypeOK, FenceAgreement, NEW j \in Jobs, NEW a \in Nat,
         \/ \E t \in Turns : MarkBackendRunning(j, a, t)
         \/ \E t \in Turns \cup {NoTurn} :
              MarkBackendCancelUnknown(j, a, t) \/ MarkBackendInterrupted(j, a, t)
  PROVE  FenceAgreement'
<1> DEFINE s == SessionOf[j]
\* The row keeps its job; it is in recovery exactly if the attempt has ended.
<1>1. ASSUME NEW st, NEW r, BackendCall(j, a), UNCHANGED <<target, lease, gen>>,
             \A k \in Jobs : status'[k] = IF k = j THEN st ELSE status[k],
             bsession' = [bsession EXCEPT ![backend][s] = r],
             r.job = j, r.attempt = a, r.thread = bsession[backend][s].thread,
             \/ ~r.recovery /\ st \in Active
             \/ r.recovery /\ st \in Unknown
      PROVE  FenceAgreement'
  <2>1. /\ backend \in Durable /\ s \in Sessions
        /\ bsession[backend][s].job = j
        /\ target[j] = backend /\ lease[j] = a /\ gen[j] = a /\ a > 0
    BY <1>1, CallRow
  <2>2. r.thread = "bound"
    BY <1>1, <2>1, StoreAssumption DEF FenceAgreement, RowMatchesJob
  <2>3. /\ bsession'[backend][s] = r
        /\ \A c \in Durable, q \in Sessions :
             c # backend \/ q # s => bsession'[c][q] = bsession[c][q]
    <3>1. bsession' = [bsession EXCEPT ![backend][s] = r]
      BY <1>1
    <3>2. RowWritten(backend, s, r)
      BY <2>1, <3>1, RowAt
    <3> QED  BY <3>2 DEF RowWritten
  <2>4. ASSUME NEW c, c = backend
        PROVE  /\ RowMatchesJob(c, s)'
               /\ status'[j] \in Active => OwnsSession(c, j, gen[j])'
    <3>1. /\ bsession'[c][s] = r /\ target'[j] = c /\ lease'[j] = a /\ gen'[j] = a
          /\ status'[j] = st /\ j # NoJob
      BY <1>1, <2>1, <2>3, <2>4, StoreAssumption
    <3>2. OwnsJob(c, j, a)'
      BY <2>1, <3>1 DEF OwnsJob
    <3>3. st \in IF r.recovery THEN {"CancelUnknown", "Interrupted"} ELSE Active
      BY <1>1 DEF Unknown
    <3>4. RowMatchesJob(c, s)'
      BY <1>1, <2>2, <3>1, <3>2, <3>3 DEF RowMatchesJob
    <3>5. st \in Active => ~r.recovery
      BY <1>1 DEF Active, Unknown
    <3> QED  BY <1>1, <3>1, <3>4, <3>5 DEF OwnsSession, BackendRow
  <2>5. PICK c \in Durable : c = backend
    BY <2>1
  <2> QED  BY <1>1, <2>1, <2>3, <2>4, <2>5, OwnRowStep
<1>2. ASSUME NEW t \in Turns, MarkBackendRunning(j, a, t)
      PROVE  FenceAgreement'
  <2> DEFINE r == [bsession[backend][s] EXCEPT !.turn = t]
             st == IF status[j] = "Dispatching" THEN "Running" ELSE status[j]
  <2>1. BackendCall(j, a) /\ bsession' = [bsession EXCEPT ![backend][s] = r]
        /\ UNCHANGED <<target, lease, gen>>
    BY <1>2 DEF MarkBackendRunning
  <2>2. /\ r.job = j /\ r.attempt = a /\ r.thread = bsession[backend][s].thread
        /\ ~r.recovery
    BY <2>1, CallRow DEF Row
  <2>3. /\ st \in Active
        /\ \A k \in Jobs : status'[k] = IF k = j THEN st ELSE status[k]
    BY <1>2, StatusAt DEF MarkBackendRunning, Active
  <2> HIDE DEF r, st
  <2> QED  BY <1>1, <2>1, <2>2, <2>3
<1>3. ASSUME NEW t \in Turns \cup {NoTurn}, NEW from, NEW st \in Unknown, NEW event,
             MarkBackendRecoveryTerminal(j, a, t, from, st, event)
      PROVE  FenceAgreement'
  <2> DEFINE r == [bsession[backend][s] EXCEPT !.turn = t, !.recovery = TRUE]
  <2>1. BackendCall(j, a) /\ bsession' = [bsession EXCEPT ![backend][s] = r]
        /\ UNCHANGED <<target, lease, gen>>
    BY <1>3 DEF MarkBackendRecoveryTerminal
  <2>2. /\ r.job = j /\ r.attempt = a /\ r.thread = bsession[backend][s].thread
        /\ r.recovery
    BY <2>1, CallRow DEF Row
  <2>3. \A k \in Jobs : status'[k] = IF k = j THEN st ELSE status[k]
    BY <1>3, StatusAt DEF MarkBackendRecoveryTerminal
  <2> HIDE DEF r
  <2> QED  BY <1>1, <1>3, <2>1, <2>2, <2>3
<1> QED
  BY <1>2, <1>3 DEF MarkBackendCancelUnknown, MarkBackendInterrupted, Unknown

\* The status of every job after the attempts of the jobs in K were lost.
LEMMA LostStatus ==
  ASSUME TypeOK, NEW K \in SUBSET Jobs, SettleLost(K), NEW k \in Jobs
  PROVE  /\ k \in K => status'[k] \in Unknown
         /\ k \notin K => status'[k] = status[k]
  BY DEF SettleLost, Unknown

LEMMA DisconnectFence ==
  ASSUME TypeOK, FenceAgreement, NEW e \in Executions,
         MarkConnectorDisconnected(e) \/ MarkBackendDisconnected(e)
  PROVE  FenceAgreement'
<1>1. CASE MarkConnectorDisconnected(e)
  <2> DEFINE lost == {j \in Jobs : /\ execution[j] = e
                                   /\ target[j] = Hermes
                                   /\ status[j] \in Active}
  <2>1. SettleLost(lost) /\ UNCHANGED <<target, lease, gen, bsession>>
    BY <1>1 DEF MarkConnectorDisconnected
  <2>2. \A k \in Jobs : Quiet(k)
    BY <2>1, LostStatus, StoreAssumption DEF Quiet
  <2> QED  BY <2>1, <2>2, QuietStep
<1>2. CASE MarkBackendDisconnected(e)
  <2> DEFINE lost == {j \in Jobs : /\ execution[j] = e
                                   /\ OwnsJob(backend, j, gen[j])
                                   /\ OwnsSession(backend, j, gen[j])
                                   /\ status[j] \in Active}
             hit(c, s) == c = backend /\ \E j \in lost : SessionOf[j] = s
  <2>1. backend \in Durable /\ SettleLost(lost) /\ UNCHANGED <<target, lease, gen>>
    BY <1>2 DEF MarkBackendDisconnected
  <2>2. ASSUME NEW c \in Durable, NEW s \in Sessions
        PROVE  /\ bsession[c][s] \in Row
               /\ hit(c, s) =>
                    bsession'[c][s] = [bsession[c][s] EXCEPT !.recovery = TRUE]
               /\ ~hit(c, s) => bsession'[c][s] = bsession[c][s]
    BY <1>2 DEF MarkBackendDisconnected, TypeOK
  \* A lost job is the one its row holds.
  <2>3. \A j \in lost : bsession[backend][SessionOf[j]].job = j /\ target[j] = backend
    BY DEF OwnsJob, OwnsSession, BackendRow
  <2>4. \A k \in Jobs : /\ k \in lost => status'[k] \in Unknown
                        /\ k \notin lost => status'[k] = status[k]
    BY <2>1, LostStatus
  <2>5. lost \subseteq Jobs
    OBVIOUS
  <2> HIDE DEF lost
  <2>6. ASSUME NEW c \in Durable, NEW s \in Sessions PROVE RowMatchesJob(c, s)'
    <3> DEFINE r == bsession[c][s]
    <3>1. RowMatchesJob(c, s) /\ r \in Row
      BY <2>2 DEF FenceAgreement
    <3>2. CASE hit(c, s)
      <4>1. PICK j \in lost : SessionOf[j] = s
        BY <3>2
      <4>2. r.job = j /\ j # NoJob /\ j \in Jobs /\ status'[j] \in Unknown
        BY <2>3, <2>4, <2>5, <3>2, <4>1, StoreAssumption
      <4>3. bsession'[c][s].job = j /\ bsession'[c][s].recovery
            /\ bsession'[c][s].thread = r.thread /\ bsession'[c][s].attempt = r.attempt
        <5>1. bsession'[c][s] = [r EXCEPT !.recovery = TRUE]
          BY <2>2, <3>2
        <5>2. r \in Row /\ r.job = j
          BY <3>1, <4>2
        <5> HIDE DEF r
        <5> QED  BY <5>1, <5>2 DEF Row
      <4>4. SessionOf[j] = s /\ r.thread = "bound" /\ OwnsJob(c, j, r.attempt)
        BY <3>1, <4>2 DEF RowMatchesJob
      <4> QED  BY <2>1, <4>2, <4>3, <4>4 DEF RowMatchesJob, OwnsJob, Unknown
    <3>3. CASE ~hit(c, s)
      <4>1. bsession'[c][s] = r
        BY <2>2, <3>3
      <4>2. ASSUME r.job # NoJob PROVE r.job \in Jobs /\ r.job \notin lost
        <5>1. r.job \in Jobs /\ SessionOf[r.job] = s /\ target[r.job] = c
          BY <3>1, <4>2 DEF Row, RowMatchesJob, OwnsJob
        <5> QED  BY <2>3, <3>3, <5>1
      <4>3. r.job # NoJob => status'[r.job] = status[r.job]
        BY <2>4, <4>2
      <4> QED  BY <2>1, <3>1, <4>1, <4>3 DEF RowMatchesJob, OwnsJob
    <3> QED  BY <3>2, <3>3
  <2>7. ASSUME NEW k \in Jobs, status'[k] \in Active, target[k] \in Durable
        PROVE  OwnsSession(target[k], k, gen[k])'
    <3>1. k \notin lost /\ status[k] \in Active /\ SessionOf[k] \in Sessions
      BY <2>4, <2>7, StoreAssumption DEF Active, Unknown
    <3>2. OwnsSession(target[k], k, gen[k])
      BY <2>7, <3>1 DEF FenceAgreement
    <3>3. ~hit(target[k], SessionOf[k])
      BY <2>3, <3>1, <3>2 DEF OwnsSession, BackendRow
    <3>4. bsession'[target[k]][SessionOf[k]] = bsession[target[k]][SessionOf[k]]
      BY <2>2, <2>7, <3>1, <3>3
    <3> QED  BY <2>1, <3>2, <3>4 DEF OwnsSession, BackendRow
  <2> QED  BY <2>1, <2>6, <2>7 DEF FenceAgreement
<1> QED  BY <1>1, <1>2

LEMMA SessionFence ==
  ASSUME TypeOK, FenceAgreement, NEW s \in Sessions,
         \/ EnsureBackendSession(s) \/ BindBackendThread(s)
         \/ CreateLocalOpaqueBackendSession(s)
         \/ QuarantineSession(s) \/ ReleaseSessionRecovery(s)
  PROVE  FenceAgreement'
<1>1. NoRow.job = NoJob /\ ~NoRow.recovery
  BY DEF NoRow
\* A row that is not bound yet holds no job.
<1>2. ASSUME NEW c, NEW r, c = backend, c \in Durable, UNCHANGED jobVars,
             bsession[c][s].thread # "bound", r.job = NoJob, ~r.recovery,
             bsession' = [bsession EXCEPT ![c][s] = r]
      PROVE  FenceAgreement'
  <2>1. bsession[c][s].job = NoJob
    BY <1>2 DEF FenceAgreement, RowMatchesJob
  <2>2. /\ bsession'[c][s] = r
        /\ \A d \in Durable, q \in Sessions :
             d # c \/ q # s => bsession'[d][q] = bsession[d][q]
    <3>1. RowWritten(c, s, r)
      BY <1>2, RowAt
    <3> QED  BY <3>1 DEF RowWritten
  <2> QED  BY <1>2, <2>1, <2>2, IdleRowsStep
<1>3. ASSUME NEW th, bsession' = [bsession EXCEPT ![backend][s] = [NoRow EXCEPT !.thread = th]],
             backend \in Durable, UNCHANGED jobVars, bsession[backend][s].thread # "bound"
      PROVE  FenceAgreement'
  <2> DEFINE r == [NoRow EXCEPT !.thread = th]
  <2>1. r.job = NoJob /\ ~r.recovery
    BY DEF NoRow
  <2>2. bsession' = [bsession EXCEPT ![backend][s] = r]
    BY <1>3
  <2> HIDE DEF r
  <2> QED  BY <1>2, <1>3, <2>1, <2>2
<1>4. CASE EnsureBackendSession(s)
  BY <1>3, <1>4 DEF EnsureBackendSession
<1>5. CASE BindBackendThread(s)
  <2> DEFINE r == [bsession[backend][s] EXCEPT !.thread = "bound"]
  <2>1. /\ backend \in Durable /\ bsession[backend][s].thread # "bound"
        /\ ~bsession[backend][s].recovery /\ UNCHANGED jobVars
        /\ bsession' = [bsession EXCEPT ![backend][s] = r]
    BY <1>5 DEF BindBackendThread
  <2>2. bsession[backend][s] \in Row /\ bsession[backend][s].job = NoJob
    BY <2>1 DEF TypeOK, FenceAgreement, RowMatchesJob
  <2>3. r.job = NoJob /\ ~r.recovery
    BY <2>1, <2>2 DEF Row
  <2> HIDE DEF r
  <2> QED  BY <1>2, <2>1, <2>3
<1>6. CASE CreateLocalOpaqueBackendSession(s)
  BY <1>3, <1>6 DEF CreateLocalOpaqueBackendSession
<1>7. CASE QuarantineSession(s)
  BY <1>7, QuietStep DEF QuarantineSession, Quiet, jobVars
<1>8. CASE ReleaseSessionRecovery(s)
  <2> DEFINE retired == IF RecoveryRows(s) # {} THEN RecoveryRows(s) ELSE RowsOf(s)
  <2>1. /\ UNCHANGED jobVars
        /\ bsession' = [b \in Durable |->
                          IF b \in retired THEN [bsession[b] EXCEPT ![s] = NoRow]
                          ELSE bsession[b]]
    BY <1>8 DEF ReleaseSessionRecovery
  <2>2. \A b \in Durable : b \in retired =>
           bsession[b][s].job = NoJob \/ bsession[b][s].recovery
    BY <1>8 DEF ReleaseSessionRecovery, CanRelease, RecoveryRows, RowsOf
  <2> HIDE DEF retired
  <2>3. ASSUME NEW b \in Durable, NEW q \in Sessions
        PROVE  bsession'[b][q] = IF b \in retired /\ q = s THEN NoRow ELSE bsession[b][q]
    BY <2>1 DEF TypeOK
  <2> QED  BY <1>1, <2>1, <2>2, <2>3, IdleRowsStep
<1> QED  BY <1>4, <1>5, <1>6, <1>7, <1>8

LEMMA LifeFence ==
  ASSUME TypeOK, FenceAgreement, (\E b \in Backends : Start(b)) \/ Crash
  PROVE  FenceAgreement'
<1>1. ASSUME NEW b \in Backends, Start(b)
      PROVE  FenceAgreement'
  <2>1. UNCHANGED <<target, lease, gen>>
    BY <1>1 DEF Start, RecoverAfterRestart
  <2>2. \A k \in Jobs : status'[k] = IF k \notin Lost THEN Consumed[k]
                                     ELSE IF Consumed[k] = "Cancelling"
                                     THEN "CancelUnknown" ELSE "Interrupted"
    BY <1>1 DEF Start, RecoverAfterRestart
  \* No job is active afterwards; what held a row has an unknown end.
  <2>3. ASSUME NEW k \in Jobs
        PROVE  /\ status'[k] \notin Active
               /\ status[k] \in Active \cup Unknown => status'[k] \in Unknown
    <3>1. status[k] \in Active => Consumed[k] \in Active
      BY DEF Consumed, Active, Waiting, Matched
    <3>2. status[k] \in Unknown => Consumed[k] = status[k]
      BY DEF Consumed, Matched, Waiting, Unknown
    <3>3. k \in Lost <=> Consumed[k] \in Active
      BY DEF Lost
    <3> QED  BY <2>2, <3>1, <3>2, <3>3 DEF Active, Unknown
  <2>4. ASSUME NEW c \in Durable, NEW s \in Sessions PROVE RowMatchesJob(c, s)'
    <3> DEFINE r == bsession[c][s]
    <3>1. RowMatchesJob(c, s) /\ r \in Row
      BY DEF FenceAgreement, TypeOK
    <3>2. bsession'[c][s] = [r EXCEPT !.recovery = NeedsRecovery(c, s)]
      BY <1>1 DEF Start, RecoverAfterRestart
    <3>3. NeedsRecovery(c, s) <=> r.job # NoJob
      BY <3>1 DEF NeedsRecovery, RowMatchesJob
    <3>4. /\ bsession'[c][s].job = r.job /\ bsession'[c][s].attempt = r.attempt
          /\ bsession'[c][s].thread = r.thread
          /\ bsession'[c][s].recovery <=> r.job # NoJob
      BY <3>1, <3>2, <3>3 DEF Row
    <3>5. ASSUME r.job # NoJob
          PROVE  /\ SessionOf[r.job] = s /\ r.thread = "bound"
                 /\ target[r.job] = c /\ lease[r.job] = r.attempt
                 /\ gen[r.job] = r.attempt /\ r.attempt > 0
                 /\ status'[r.job] \in Unknown
      <4>1. r.job \in Jobs /\ status[r.job] \in Active \cup Unknown
        BY <3>1, <3>5 DEF Row, RowMatchesJob, Unknown
      <4> QED  BY <2>3, <3>1, <3>5, <4>1 DEF RowMatchesJob, OwnsJob
    <3> QED  BY <2>1, <3>4, <3>5 DEF RowMatchesJob, OwnsJob, Unknown
  <2> QED  BY <2>3, <2>4 DEF FenceAgreement
<1>2. CASE Crash
  BY <1>2, QuietStep DEF Crash, Quiet, jobVars
<1> QED  BY <1>1, <1>2

LEMMA NextFence ==
  ASSUME TypeOK, FenceAgreement, [Next]_vars
  PROVE  FenceAgreement'
<1>1. CASE UNCHANGED vars
  BY <1>1, QuietStep DEF vars, jobVars, Quiet
<1>2. \A j \in Jobs : \A a \in 1..gen[j] : a \in Nat
  BY DEF TypeOK
<1> QED
  BY <1>1, <1>2, IntakeFence, ClaimFence, HermesFence, BackendFence, TurnFence,
     DisconnectFence, SessionFence, LifeFence
     DEF Next

\* A durable job is active exactly when its session row holds its current
\* attempt without recovery, and a row in recovery holds an attempt of unknown
\* outcome: no transaction, disconnect or restart of the store lets the jobs
\* table and backend_sessions disagree about who executes.
THEOREM FencesAgree == Spec => []FenceAgreement
<1>1. Init => FenceAgreement
  <2> SUFFICES ASSUME Init PROVE FenceAgreement
    OBVIOUS
  <2>1. \A b \in Durable, s \in Sessions : RowMatchesJob(b, s)
    BY DEF Init, RowMatchesJob, NoRow
  <2>2. \A j \in Jobs : status[j] \notin Active
    BY DEF Init, Active
  <2> QED  BY <2>1, <2>2 DEF FenceAgreement
<1>2. TypeOK /\ FenceAgreement /\ [Next]_vars => FenceAgreement'
  BY NextFence
<1> QED  BY <1>1, <1>2, TypeCorrect, PTL DEF Spec

-----------------------------------------------------------------------------
(* Recovery rows.  Two rows of a session never both hold a job: the second *)
(* claim would find the first job active, or the session quarantined.      *)

RecoveryQuarantined ==
  \A b \in Durable, s \in Sessions : bsession[b][s].recovery => s \in quarantine

OneHolder ==
  \A s \in Sessions : \A b, c \in Durable :
    bsession[b][s].job # NoJob /\ bsession[c][s].job # NoJob => b = c

\* What a step may do to a row: it gets a job only by a claim, and it is in
\* recovery only in a session that is quarantined.
RowMoves(b, s) ==
  /\ bsession'[b][s].recovery => s \in quarantine'
  /\ bsession'[b][s].job # NoJob =>
       \/ bsession[b][s].job # NoJob
       \/ b = backend /\ \E j \in Jobs : SessionOf[j] = s /\ Claimable(j)

LEMMA KeptRow ==
  ASSUME RecoveryQuarantined, NEW b \in Durable, NEW s \in Sessions,
         bsession'[b][s] = bsession[b][s], s \in quarantine => s \in quarantine'
  PROVE  RowMoves(b, s)
  BY DEF RowMoves, RecoveryQuarantined

LEMMA WrittenRow ==
  ASSUME TypeOK, RecoveryQuarantined, NEW b \in Durable, NEW s \in Sessions,
         NEW q \in Sessions, NEW r, backend \in Durable,
         bsession' = [bsession EXCEPT ![backend][q] = r],
         quarantine \subseteq quarantine',
         r.recovery => q \in quarantine',
         r.job # NoJob => \/ bsession[backend][q].job # NoJob
                          \/ \E j \in Jobs : SessionOf[j] = q /\ Claimable(j)
  PROVE  RowMoves(b, s)
<1>1. /\ bsession'[backend][q] = r
      /\ \A c \in Durable, p \in Sessions :
           c # backend \/ p # q => bsession'[c][p] = bsession[c][p]
  BY DEF TypeOK
<1>2. CASE b = backend /\ s = q
  <2>1. bsession'[b][s] = r /\ bsession[b][s] = bsession[backend][q]
    BY <1>1, <1>2
  <2>2. r.recovery => s \in quarantine'
    BY <1>2
  <2>3. r.job # NoJob => \/ bsession[b][s].job # NoJob
                         \/ b = backend /\ \E j \in Jobs : SessionOf[j] = s /\ Claimable(j)
    BY <1>2
  <2> QED  BY <2>1, <2>2, <2>3 DEF RowMoves
<1> QED  BY <1>1, <1>2, KeptRow

LEMMA QuietRows ==
  ASSUME TypeOK, RecoveryQuarantined, NEW b \in Durable, NEW s \in Sessions,
         \/ \E j \in Jobs : \/ Ingest(j) \/ MarkAcked(j) \/ Reject(j)
                            \/ RequestCancel(j) \/ ExpireIntent(j)
                            \/ \E e \in Executions : ClaimForDispatch(j, e)
                            \/ \E a \in Nat :
                                 \/ ResetUnsentDispatch(j, a)
                                 \/ \E e \in Executions : MarkRunning(j, a, e)
                                 \/ FinishSuccess(j, a) \/ FinishFailure(j, a)
                                 \/ MarkCancelUnknown(j, a)
                                 \/ FinishHermesCancellationNotStarted(j, a)
         \/ \E e \in Executions : MarkConnectorDisconnected(e)
         \/ \E q \in Sessions : QuarantineSession(q)
         \/ Crash
         \/ UNCHANGED vars
  PROVE  RowMoves(b, s)
<1> DEFINE Same == bsession' = bsession /\ quarantine \subseteq quarantine'
<1>1. ASSUME NEW j \in Jobs,
             Ingest(j) \/ MarkAcked(j) \/ Reject(j) \/ RequestCancel(j) \/ ExpireIntent(j)
      PROVE  Same
  BY <1>1 DEF Ingest, MarkAcked, Reject, RequestCancel, ExpireIntent
<1>2. ASSUME NEW j \in Jobs, NEW e \in Executions, ClaimForDispatch(j, e) PROVE Same
  BY <1>2 DEF ClaimForDispatch
<1>3. ASSUME NEW j \in Jobs, NEW a \in Nat,
             \/ ResetUnsentDispatch(j, a)
             \/ \E e \in Executions : MarkRunning(j, a, e)
             \/ FinishSuccess(j, a) \/ FinishFailure(j, a)
             \/ MarkCancelUnknown(j, a)
             \/ FinishHermesCancellationNotStarted(j, a)
      PROVE  Same
  BY <1>3 DEF ResetUnsentDispatch, MarkRunning, FinishSuccess, FinishFailure,
              FinishHermes, MarkCancelUnknown, FinishHermesCancellationNotStarted
<1>4. ASSUME \/ \E e \in Executions : MarkConnectorDisconnected(e)
             \/ \E q \in Sessions : QuarantineSession(q)
             \/ Crash
             \/ UNCHANGED vars
      PROVE  Same
  BY <1>4 DEF MarkConnectorDisconnected, SettleLost, QuarantineSession, Crash, vars
<1>5. Same
  BY <1>1, <1>2, <1>3, <1>4
<1> QED  BY <1>5, KeptRow

LEMMA CallRows ==
  ASSUME TypeOK, FenceAgreement, RecoveryQuarantined,
         NEW b \in Durable, NEW s \in Sessions, NEW j \in Jobs,
         \/ \E e \in Executions : ClaimForBackendDispatch(j, e)
         \/ \E a \in Nat :
              \/ ResetUnsentBackendDispatch(j, a)
              \/ FinishUnsentBackendCancellation(j, a)
              \/ \E t \in Turns : \/ MarkBackendRunning(j, a, t)
                                  \/ FinishBackendSuccess(j, a, t)
                                  \/ FinishBackendFailure(j, a, t)
                                  \/ FinishBackendCredentialFailure(j, a, t)
              \/ \E t \in Turns \cup {NoTurn} :
                   MarkBackendCancelUnknown(j, a, t) \/ MarkBackendInterrupted(j, a, t)
  PROVE  RowMoves(b, s)
<1> DEFINE q == SessionOf[j]
<1>1. q \in Sessions
  BY StoreAssumption
<1>2. ASSUME NEW e \in Executions, ClaimForBackendDispatch(j, e)
      PROVE  RowMoves(b, s)
  <2> DEFINE r == [bsession[backend][q] EXCEPT !.job = j, !.attempt = gen[j] + 1]
  <2>1. /\ backend \in Durable /\ Claimable(j) /\ ~bsession[backend][q].recovery
        /\ bsession' = [bsession EXCEPT ![backend][q] = r] /\ quarantine' = quarantine
    BY <1>2 DEF ClaimForBackendDispatch, BackendRow
  <2>2. ~r.recovery
    BY <1>1, <2>1 DEF TypeOK, Row
  <2> HIDE DEF r
  <2> QED  BY <1>1, <2>1, <2>2, WrittenRow
<1>3. ASSUME NEW a \in Nat, BackendCall(j, a), ClearActive(backend, j),
             quarantine \subseteq quarantine'
      PROVE  RowMoves(b, s)
  <2> DEFINE r == [bsession[backend][q] EXCEPT !.job = NoJob, !.attempt = 0, !.turn = NoTurn]
  <2>1. /\ backend \in Durable /\ bsession[backend][q] \in Row
        /\ ~bsession[backend][q].recovery
    BY <1>3, CallRow
  <2>2. bsession' = [bsession EXCEPT ![backend][q] = r]
    BY <1>3 DEF ClearActive
  <2>3. ~r.recovery /\ r.job = NoJob
    BY <2>1 DEF Row
  <2> HIDE DEF r
  <2> QED  BY <1>1, <1>3, <2>1, <2>2, <2>3, WrittenRow
<1>4. ASSUME NEW a \in Nat, NEW t \in Turns, MarkBackendRunning(j, a, t)
      PROVE  RowMoves(b, s)
  <2> DEFINE r == [bsession[backend][q] EXCEPT !.turn = t]
  <2>1. /\ BackendCall(j, a) /\ quarantine' = quarantine
        /\ bsession' = [bsession EXCEPT ![backend][q] = r]
    BY <1>4 DEF MarkBackendRunning
  <2>2. /\ backend \in Durable /\ bsession[backend][q] \in Row
        /\ ~bsession[backend][q].recovery
    BY <2>1, CallRow
  <2>3. ~r.recovery /\ r.job = bsession[backend][q].job
    BY <2>2 DEF Row
  <2> HIDE DEF r
  <2> QED  BY <1>1, <2>1, <2>2, <2>3, WrittenRow
<1>5. ASSUME NEW a \in Nat, NEW t, NEW from, NEW st, NEW event,
             MarkBackendRecoveryTerminal(j, a, t, from, st, event)
      PROVE  RowMoves(b, s)
  <2> DEFINE r == [bsession[backend][q] EXCEPT !.turn = t, !.recovery = TRUE]
  <2>1. /\ BackendCall(j, a) /\ quarantine' = quarantine \cup {q}
        /\ bsession' = [bsession EXCEPT ![backend][q] = r]
    BY <1>5 DEF MarkBackendRecoveryTerminal
  <2>2. backend \in Durable /\ bsession[backend][q] \in Row
    BY <2>1, CallRow
  <2>3. r.job = bsession[backend][q].job
    BY <2>2 DEF Row
  <2> HIDE DEF r
  <2> QED  BY <1>1, <2>1, <2>2, <2>3, WrittenRow
<1>6. ASSUME NEW a \in Nat,
             \/ ResetUnsentBackendDispatch(j, a)
             \/ FinishUnsentBackendCancellation(j, a)
             \/ \E t \in Turns : \/ FinishBackendSuccess(j, a, t)
                                 \/ FinishBackendFailure(j, a, t)
                                 \/ FinishBackendCredentialFailure(j, a, t)
      PROVE  RowMoves(b, s)
  BY <1>3, <1>6 DEF ResetUnsentBackendDispatch, FinishUnsentBackendCancellation,
                    FinishBackendSuccess, FinishBackendFailure,
                    FinishBackendCredentialFailure, FinishBackendWithOutbox
<1> QED
  BY <1>2, <1>4, <1>5, <1>6 DEF MarkBackendCancelUnknown, MarkBackendInterrupted

LEMMA SessionRows ==
  ASSUME TypeOK, FenceAgreement, RecoveryQuarantined,
         NEW b \in Durable, NEW s \in Sessions, NEW q \in Sessions,
         \/ EnsureBackendSession(q) \/ BindBackendThread(q)
         \/ CreateLocalOpaqueBackendSession(q) \/ ReleaseSessionRecovery(q)
  PROVE  RowMoves(b, s)
<1>1. NoRow.job = NoJob /\ ~NoRow.recovery
  BY DEF NoRow
<1>2. ASSUME NEW r, backend \in Durable, quarantine' = quarantine,
             bsession' = [bsession EXCEPT ![backend][q] = r],
             ~r.recovery, r.job = NoJob
      PROVE  RowMoves(b, s)
  BY <1>2, WrittenRow
<1>3. CASE EnsureBackendSession(q) \/ CreateLocalOpaqueBackendSession(q)
  <2>1. PICK th \in {"unbound", "bound"} :
          bsession' = [bsession EXCEPT ![backend][q] = [NoRow EXCEPT !.thread = th]]
    BY <1>3 DEF EnsureBackendSession, CreateLocalOpaqueBackendSession
  <2> DEFINE r == [NoRow EXCEPT !.thread = th]
  <2>2. ~r.recovery /\ r.job = NoJob
    BY DEF NoRow
  <2>3. backend \in Durable /\ quarantine' = quarantine
    BY <1>3 DEF EnsureBackendSession, CreateLocalOpaqueBackendSession
  <2>4. bsession' = [bsession EXCEPT ![backend][q] = r]
    BY <2>1
  <2> HIDE DEF r
  <2> QED  BY <1>2, <2>2, <2>3, <2>4
<1>4. CASE BindBackendThread(q)
  <2> DEFINE r == [bsession[backend][q] EXCEPT !.thread = "bound"]
  <2>1. /\ backend \in Durable /\ bsession[backend][q].thread # "bound"
        /\ ~bsession[backend][q].recovery /\ quarantine' = quarantine
        /\ bsession' = [bsession EXCEPT ![backend][q] = r]
    BY <1>4 DEF BindBackendThread
  <2>2. bsession[backend][q] \in Row /\ bsession[backend][q].job = NoJob
    BY <2>1 DEF TypeOK, FenceAgreement, RowMatchesJob
  <2>3. ~r.recovery /\ r.job = NoJob
    BY <2>1, <2>2 DEF Row
  <2> HIDE DEF r
  <2> QED  BY <1>2, <2>1, <2>3
<1>5. CASE ReleaseSessionRecovery(q)
  <2> DEFINE retired == IF RecoveryRows(q) # {} THEN RecoveryRows(q) ELSE RowsOf(q)
  <2>1. /\ quarantine' = quarantine \ {q}
        /\ bsession' = [c \in Durable |->
                          IF c \in retired THEN [bsession[c] EXCEPT ![q] = NoRow]
                          ELSE bsession[c]]
    BY <1>5 DEF ReleaseSessionRecovery
  <2>2. b \notin retired => ~bsession[b][q].recovery
    BY DEF RecoveryRows
  <2> HIDE DEF retired
  <2>3. bsession'[b][s] = IF b \in retired /\ s = q THEN NoRow ELSE bsession[b][s]
    BY <2>1 DEF TypeOK
  <2> QED  BY <1>1, <2>1, <2>2, <2>3 DEF RowMoves, RecoveryQuarantined
<1> QED  BY <1>3, <1>4, <1>5

LEMMA LostRows ==
  ASSUME TypeOK, FenceAgreement, RecoveryQuarantined,
         NEW b \in Durable, NEW s \in Sessions,
         \/ \E e \in Executions : MarkBackendDisconnected(e)
         \/ \E c \in Backends : Start(c)
  PROVE  RowMoves(b, s)
<1> DEFINE r == bsession[b][s]
<1>1. r \in Row /\ RowMatchesJob(b, s)
  BY DEF TypeOK, FenceAgreement
<1>2. ASSUME NEW e \in Executions, MarkBackendDisconnected(e)
      PROVE  RowMoves(b, s)
  <2> DEFINE lost == {j \in Jobs : /\ execution[j] = e
                                   /\ OwnsJob(backend, j, gen[j])
                                   /\ OwnsSession(backend, j, gen[j])
                                   /\ status[j] \in Active}
  <2>1. quarantine' = quarantine \cup {SessionOf[j] : j \in lost}
    BY <1>2 DEF MarkBackendDisconnected, SettleLost
  <2>2. \/ bsession'[b][s] = r
        \/ bsession'[b][s] = [r EXCEPT !.recovery = TRUE] /\ \E j \in lost : SessionOf[j] = s
    BY <1>2 DEF MarkBackendDisconnected, TypeOK
  <2> HIDE DEF lost
  <2>3. [r EXCEPT !.recovery = TRUE].job = r.job
    BY <1>1 DEF Row
  <2> QED  BY <2>1, <2>2, <2>3 DEF RowMoves, RecoveryQuarantined
<1>3. ASSUME NEW c \in Backends, Start(c)
      PROVE  RowMoves(b, s)
  <2>1. /\ quarantine' = quarantine \cup {SessionOf[j] : j \in Lost}
        /\ bsession'[b][s] = [r EXCEPT !.recovery = NeedsRecovery(b, s)]
    BY <1>3 DEF Start, RecoverAfterRestart
  <2>2. bsession'[b][s].job = r.job /\ (bsession'[b][s].recovery <=> NeedsRecovery(b, s))
    <3>1. NeedsRecovery(b, s) \in BOOLEAN
      BY <1>1 DEF NeedsRecovery, Row
    <3> QED  BY <1>1, <2>1, <3>1 DEF Row
  <2>3. ASSUME r.job # NoJob, ~r.recovery PROVE s \in quarantine'
    <3>1. r.job \in Jobs /\ SessionOf[r.job] = s /\ status[r.job] \in Active
      BY <1>1, <2>3 DEF Row, RowMatchesJob
    <3>2. r.job \in Lost
      BY <3>1 DEF Lost, Consumed, Matched, Active, Waiting
    <3> QED  BY <2>1, <3>1, <3>2
  <2> QED  BY <2>1, <2>2, <2>3 DEF RowMoves, RecoveryQuarantined, NeedsRecovery
<1> QED  BY <1>2, <1>3

LEMMA NextRows ==
  ASSUME TypeOK, FenceAgreement, RecoveryQuarantined, [Next]_vars,
         NEW b \in Durable, NEW s \in Sessions
  PROVE  RowMoves(b, s)
<1>1. \A j \in Jobs : \A a \in 1..gen[j] : a \in Nat
  BY DEF TypeOK
<1> QED  BY <1>1, QuietRows, CallRows, SessionRows, LostRows DEF Next

\* A row in recovery never escapes the quarantine of its session, and at most
\* one backend has such a row in a session: whatever the order of claims, lost
\* processes, cancels, restarts and releases, an execution of unknown outcome
\* fences the session for every backend.
THEOREM RecoveryIsFenced == Spec => []RecoveryFenced
<1>1. Init => RecoveryQuarantined /\ OneHolder
  BY DEF Init, RecoveryQuarantined, OneHolder, NoRow
<1>2. TypeOK /\ FenceAgreement /\ RecoveryQuarantined /\ OneHolder /\ [Next]_vars
        => RecoveryQuarantined' /\ OneHolder'
  <2> SUFFICES ASSUME TypeOK, FenceAgreement, RecoveryQuarantined, OneHolder, [Next]_vars
               PROVE  RecoveryQuarantined' /\ OneHolder'
    OBVIOUS
  <2>1. RecoveryQuarantined'
    BY NextRows DEF RecoveryQuarantined, RowMoves
  \* A claim finds no other row of its session with a job.
  <2>2. ASSUME NEW j \in Jobs, Claimable(j), NEW c \in Durable, c # backend,
               bsession[c][SessionOf[j]].job # NoJob
        PROVE  FALSE
    <3> DEFINE s == SessionOf[j]
               r == bsession[c][s]
    <3>1. s \in Sessions
      BY StoreAssumption
    <3>2. RowMatchesJob(c, s) /\ r \in Row
      BY <3>1 DEF FenceAgreement, TypeOK
    <3>3. ~r.recovery
      BY <2>2, <3>1 DEF Claimable, Quarantined, RecoveryQuarantined
    <3>4. /\ r.job \in Jobs /\ SessionOf[r.job] = s /\ target[r.job] = c
          /\ status[r.job] \in Active
      BY <2>2, <3>2, <3>3 DEF RowMatchesJob, OwnsJob, Row
    <3>5. r.job # j
      BY <2>2, <3>4 DEF Claimable
    <3> QED  BY <2>2, <3>4, <3>5 DEF Claimable, OthersActive
  <2>3. ASSUME NEW s \in Sessions, NEW b \in Durable, NEW c \in Durable, b # c,
               bsession'[b][s].job # NoJob, bsession'[c][s].job # NoJob
        PROVE  FALSE
    <3>1. RowMoves(b, s) /\ RowMoves(c, s)
      BY NextRows
    <3> QED  BY <2>2, <2>3, <3>1 DEF RowMoves, OneHolder
  <2> QED  BY <2>1, <2>3 DEF OneHolder
<1>3. FenceAgreement /\ RecoveryQuarantined /\ OneHolder => RecoveryFenced
  <2> SUFFICES ASSUME FenceAgreement, RecoveryQuarantined, OneHolder, NEW s \in Sessions
               PROVE  /\ RecoveryRows(s) # {} => s \in quarantine
                      /\ Cardinality(RecoveryRows(s)) <= 1
    BY DEF RecoveryFenced
  <2>1. RecoveryRows(s) # {} => s \in quarantine
    BY DEF RecoveryRows, RecoveryQuarantined
  <2>2. \A b, c \in RecoveryRows(s) : b = c
    BY DEF RecoveryRows, FenceAgreement, RowMatchesJob, OneHolder
  <2>3. CASE RecoveryRows(s) = {}
    BY <2>1, <2>3, FS_EmptySet
  <2>4. ASSUME NEW b \in RecoveryRows(s)
        PROVE  Cardinality(RecoveryRows(s)) <= 1
    <3>1. RecoveryRows(s) = {b}
      BY <2>2, <2>4
    <3>2. Cardinality({b}) = 1
      BY FS_Singleton
    <3> QED  BY <3>1, <3>2
  <2> QED  BY <2>1, <2>3, <2>4
<1>4. Spec => [](RecoveryQuarantined /\ OneHolder)
  BY <1>1, <1>2, TypeCorrect, FencesAgree, PTL DEF Spec
<1> QED  BY <1>3, <1>4, FencesAgree, PTL

\* A quarantined session in which nothing runs can always be released: the
\* evidence that releaseSessionRecovery demands of every row in recovery is a
\* consequence of the fence, for every number of backends.
THEOREM ReleaseIsPossible == Spec => []OperatorCanRelease
<1>1. TypeOK /\ FenceAgreement => OperatorCanRelease
  <2> SUFFICES ASSUME TypeOK, FenceAgreement, NEW s \in quarantine,
                      \A j \in Jobs : SessionOf[j] = s => status[j] \notin Active
               PROVE  CanRelease(s)
    BY DEF OperatorCanRelease
  <2>1. ASSUME NEW b \in Durable
        PROVE  /\ bsession[b][s].recovery => Releasable(b, s)
               /\ ~bsession[b][s].recovery => bsession[b][s].job = NoJob
    <3> DEFINE r == bsession[b][s]
    <3>1. RowMatchesJob(b, s) /\ r \in Row
      BY DEF FenceAgreement, TypeOK
    <3>2. CASE r.recovery
      <4>1. /\ r.job \in Jobs /\ SessionOf[r.job] = s
            /\ OwnsJob(b, r.job, r.attempt) /\ status[r.job] \in Unknown
        BY <3>1, <3>2 DEF RowMatchesJob, Row, Unknown
      <4> QED  BY <3>2, <4>1 DEF Releasable, Terminal, Unknown
    <3>3. CASE ~r.recovery
      BY <3>1, <3>3 DEF RowMatchesJob, Row
    <3> QED  BY <3>2, <3>3
  <2> QED  BY <2>1 DEF CanRelease, RecoveryRows
<1> QED  BY <1>1, TypeCorrect, FencesAgree, PTL

-----------------------------------------------------------------------------
(* The append-only ledger tells the status of every job, and what a start  *)
(* needs to recover the tables is always there.  Seen from one job, every  *)
(* transaction keeps its events, appends one to its last attempt, or       *)
(* reserves the next attempt.                                              *)

\* An active job has the attempt that a claim gave it.
AttemptIdentified ==
  \A j \in Jobs : status[j] \in Active =>
    lease[j] = gen[j] /\ gen[j] > 0 /\ execution[j] # NoExecution

-----------------------------------------------------------------------------
(* A transaction as one job sees it.                                       *)

\* The job is made active by claims only, which identify its attempt.
Identity(k) ==
  /\ gen'[k] = gen[k]
  /\ status'[k] \in Active =>
       /\ status[k] \in Active /\ lease'[k] = lease[k]
       /\ execution'[k] = execution[k] \/ execution'[k] # NoExecution

SameEvents(k) ==
  \A g \in Nat, e \in AttemptEvent : <<k, g, e>> \in ledger' <=> <<k, g, e>> \in ledger

OneMoreEvent(k, h, f) ==
  \A g \in Nat, e \in AttemptEvent :
    <<k, g, e>> \in ledger' <=> <<k, g, e>> \in ledger \/ (g = h /\ e = f)

Keeps(k) ==
  Identity(k) /\ SameEvents(k) /\ LedgerFor(status[k]) \subseteq LedgerFor(status'[k])

Leads(from, e, to) == \A S \in LedgerFor(from) : e \notin S => S \cup {e} \in LedgerFor(to)

Appends(k) ==
  /\ Identity(k) /\ gen[k] > 0
  /\ \E e \in AttemptEvent :
       /\ <<k, gen[k], e>> \notin ledger
       /\ OneMoreEvent(k, gen[k], e)
       /\ Leads(status[k], e, status'[k])

Reserves(k) ==
  /\ status[k] \in Waiting /\ status'[k] = "Dispatching"
  /\ gen'[k] = gen[k] + 1 /\ lease'[k] = gen[k] + 1 /\ execution'[k] # NoExecution
  /\ OneMoreEvent(k, gen[k] + 1, "reserved")

Ledgered(k) == Keeps(k) \/ Appends(k) \/ Reserves(k)

-----------------------------------------------------------------------------
(* The edges of a job's life and the ledgers along them.                   *)

LEMMA KeptEdges ==
  ASSUME NEW from \in JobStatus, NEW to \in JobStatus,
         \/ to = from
         \/ from = "Absent"
         \/ from \in Waiting /\ to \in Waiting \cup {"Rejected", "Cancelled"}
         \/ from \in {"Dispatching", "Running"} /\ to = "Cancelling"
  PROVE  LedgerFor(from) \subseteq LedgerFor(to)
<1>1. CASE to = from
  BY <1>1
<1>2. CASE from = "Absent"
  BY <1>2 DEF LedgerFor, Waiting
<1>3. CASE from \in Waiting /\ to \in Waiting \cup {"Rejected", "Cancelled"}
  BY <1>3 DEF LedgerFor, Waiting
<1>4. CASE from \in {"Dispatching", "Running"} /\ to = "Cancelling"
  BY <1>4 DEF LedgerFor, Waiting
<1> QED  BY <1>1, <1>2, <1>3, <1>4

LEMMA SettledEdges ==
  ASSUME NEW from \in Active, NEW to, NEW e, LedgerFor(to) = Settled(e)
  PROVE  Leads(from, e, to)
<1>1. LedgerFor(from) \subseteq {{"reserved"}, {"reserved", "accepted"}}
  BY DEF LedgerFor, Waiting, Active
<1>2. {"reserved"} \cup {e} \in Settled(e)
  <2>1. {"reserved"} \cup {e} = {"reserved", e}
    OBVIOUS
  <2> QED  BY <2>1 DEF Settled
<1>3. {"reserved", "accepted"} \cup {e} \in Settled(e)
  <2>1. {"reserved", "accepted"} \cup {e} = {"reserved", "accepted", e}
    OBVIOUS
  <2> QED  BY <2>1 DEF Settled
<1> QED  BY <1>1, <1>2, <1>3 DEF Leads

\* How an attempt ends, and the event that says so.
Ends == {"Succeeded", "Failed", "CancelUnknown", "Interrupted", "Cancelled"}
EndEvent(st) == CASE st = "Succeeded"     -> "succeeded"
                  [] st = "Failed"        -> "failed"
                  [] st = "CancelUnknown" -> "cancel_unknown"
                  [] st = "Interrupted"   -> "interrupted"
                  [] st = "Cancelled"     -> "cancelled_not_sent"

LEMMA EndEdges ==
  ASSUME NEW from \in Active, NEW to \in Ends
  PROVE  Leads(from, EndEvent(to), to)
<1> DEFINE e == EndEvent(to)
<1>1. CASE to # "Cancelled"
  <2>1. LedgerFor(to) = Settled(e)
    BY <1>1 DEF LedgerFor, Waiting, Ends, EndEvent
  <2> QED  BY <2>1, SettledEdges
<1>2. CASE to = "Cancelled"
  <2>1. LedgerFor("Cancelled") = Settled(e) \cup {Returned}
    BY <1>2 DEF LedgerFor, Waiting, EndEvent
  <2>2. LedgerFor(from) \subseteq {{"reserved"}, {"reserved", "accepted"}}
    BY DEF LedgerFor, Waiting, Active
  <2>3. {"reserved"} \cup {e} = {"reserved", e}
        /\ {"reserved", "accepted"} \cup {e} = {"reserved", "accepted", e}
    OBVIOUS
  <2> QED  BY <1>2, <2>1, <2>2, <2>3 DEF Leads, Settled
<1> QED  BY <1>1, <1>2

LEMMA AcceptEdges ==
  /\ Leads("Dispatching", "accepted", "Running")
  /\ Leads("Cancelling", "accepted", "Cancelling")
<1>1. {"reserved"} \cup {"accepted"} = {"reserved", "accepted"}
  OBVIOUS
<1> QED  BY <1>1 DEF Leads, LedgerFor, Waiting

LEMMA ReturnEdge == Leads("Dispatching", "not_sent", "Acked")
<1>1. {"reserved"} \cup {"not_sent"} = Returned
  BY DEF Returned
<1> QED  BY <1>1 DEF Leads, LedgerFor, Waiting

-----------------------------------------------------------------------------
(* Transactions that write the row of one job.                             *)

LEMMA OneEvent ==
  ASSUME NEW j \in Jobs, NEW k \in Jobs, NEW h, NEW f,
         ledger' = ledger \cup {<<j, h, f>>}
  PROVE  /\ k # j => SameEvents(k)
         /\ OneMoreEvent(j, h, f)
  BY DEF SameEvents, OneMoreEvent

LEMMA OtherJob ==
  ASSUME TypeOK, NEW k \in Jobs, gen'[k] = gen[k], SameEvents(k),
         status'[k] = status[k], lease'[k] = lease[k], execution'[k] = execution[k]
  PROVE  Ledgered(k)
  BY DEF Ledgered, Keeps, Identity

LEMMA KeepsLedger ==
  ASSUME TypeOK, NEW j \in Jobs, NEW k \in Jobs, NEW st \in JobStatus, SetStatus(j, st),
         UNCHANGED <<lease, execution, gen, ledger>>,
         st \in Active => status[j] \in Active,
         LedgerFor(status[j]) \subseteq LedgerFor(st)
  PROVE  Ledgered(k)
<1>1. status'[k] = IF k = j THEN st ELSE status[k]
  BY StatusAt
<1>2. SameEvents(k)
  BY DEF SameEvents
<1> QED  BY <1>1, <1>2 DEF Ledgered, Keeps, Identity

LEMMA AppendsEvent ==
  ASSUME TypeOK, NEW j \in Jobs, NEW k \in Jobs, NEW st, NEW e \in AttemptEvent,
         AppendEvent(j, e), gen' = gen, gen[j] > 0, Leads(status[j], e, st),
         \A m \in Jobs : status'[m] = IF m = j THEN st ELSE status[m],
         \A m \in Jobs \ {j} : lease'[m] = lease[m] /\ execution'[m] = execution[m],
         st \in Active =>
           /\ status[j] \in Active /\ lease'[j] = lease[j]
           /\ execution'[j] = execution[j] \/ execution'[j] # NoExecution
  PROVE  Ledgered(k)
<1>1. <<j, gen[j], e>> \notin ledger /\ ledger' = ledger \cup {<<j, gen[j], e>>}
  BY DEF AppendEvent, CanAppend
<1>2. CASE k = j
  <2>1. OneMoreEvent(j, gen[j], e)
    BY <1>1, OneEvent
  <2>2. Identity(j)
    BY DEF Identity
  <2> QED  BY <1>1, <1>2, <2>1, <2>2 DEF Ledgered, Appends
<1>3. CASE k # j
  BY <1>1, <1>3, OneEvent, OtherJob
<1> QED  BY <1>2, <1>3

LEMMA EndsLedger ==
  ASSUME TypeOK, NEW j \in Jobs, NEW k \in Jobs, NEW st \in Ends, gen[j] > 0,
         status[j] \in Active, SetStatus(j, st), AppendEvent(j, EndEvent(st)),
         UNCHANGED <<lease, execution, gen>>
  PROVE  Ledgered(k)
<1>1. Leads(status[j], EndEvent(st), st)
  BY EndEdges
<1>2. EndEvent(st) \in AttemptEvent /\ st \notin Active
  BY DEF Ends, EndEvent, AttemptEvent, TerminalEvent, Active
<1>3. \A m \in Jobs : status'[m] = IF m = j THEN st ELSE status[m]
  BY StatusAt
<1> QED  BY <1>1, <1>2, <1>3, AppendsEvent

LEMMA IntakeLedger ==
  ASSUME TypeOK, NEW j \in Jobs, NEW k \in Jobs,
         Ingest(j) \/ MarkAcked(j) \/ Reject(j) \/ RequestCancel(j) \/ ExpireIntent(j)
  PROVE  Ledgered(k)
<1>0. status[j] \in JobStatus
  BY DEF TypeOK
<1>1. CASE Ingest(j)
  <2> DEFINE now == IF ~Exists(j) THEN "Received" ELSE status[j]
             hit == intent[j] = "fresh" /\ now \in Waiting \cup {"Dispatching", "Running"}
             st  == IF ~hit THEN now ELSE IF now \in Waiting THEN "Cancelled" ELSE "Cancelling"
  <2>1. SetStatus(j, st) /\ UNCHANGED <<lease, execution, gen, ledger>>
    BY <1>1 DEF Ingest
  <2>2. st \in JobStatus
    BY <1>0 DEF JobStatus, Exists
  <2>3. /\ st \in Active => status[j] \in Active
        /\ \/ st = status[j]
           \/ status[j] = "Absent"
           \/ status[j] \in Waiting /\ st \in Waiting \cup {"Rejected", "Cancelled"}
           \/ status[j] \in {"Dispatching", "Running"} /\ st = "Cancelling"
    BY DEF Active, Exists, Waiting
  <2> HIDE DEF st
  <2>4. LedgerFor(status[j]) \subseteq LedgerFor(st)
    BY <1>0, <2>2, <2>3, KeptEdges
  <2> QED  BY <2>1, <2>2, <2>3, <2>4, KeepsLedger
<1>2. CASE MarkAcked(j) \/ Reject(j)
  <2>1. PICK st \in {"Acked", "Rejected"} :
          /\ SetStatus(j, st) /\ status[j] \in Waiting
          /\ UNCHANGED <<lease, execution, gen, ledger>>
    BY <1>2 DEF MarkAcked, Reject, Waiting
  <2>2. st \in JobStatus /\ st \notin Active
    BY <2>1 DEF JobStatus, Active
  <2>3. LedgerFor(status[j]) \subseteq LedgerFor(st)
    BY <1>0, <2>1, <2>2, KeptEdges DEF Waiting
  <2> QED  BY <2>1, <2>2, <2>3, KeepsLedger
<1>3. CASE RequestCancel(j)
  <2>1. CASE CancelExistingJob(j)
    <3> DEFINE hit == status[j] \in Waiting \cup {"Dispatching", "Running"}
               st  == IF ~hit THEN status[j] ELSE IF status[j] \in Waiting
                      THEN "Cancelled" ELSE "Cancelling"
    <3>1. SetStatus(j, st) /\ UNCHANGED <<lease, execution, gen, ledger>>
      BY <1>3, <2>1 DEF RequestCancel, CancelExistingJob
    <3>2. st \in JobStatus
      BY <1>0 DEF JobStatus
    <3>3. /\ st \in Active => status[j] \in Active
          /\ \/ st = status[j]
             \/ status[j] \in Waiting /\ st \in Waiting \cup {"Rejected", "Cancelled"}
             \/ status[j] \in {"Dispatching", "Running"} /\ st = "Cancelling"
      BY DEF Active, Waiting
    <3> HIDE DEF st
    <3>4. LedgerFor(status[j]) \subseteq LedgerFor(st)
      BY <1>0, <3>2, <3>3, KeptEdges
    <3> QED  BY <3>1, <3>2, <3>3, <3>4, KeepsLedger
  <2>2. CASE KeepIntent(j)
    BY <1>3, <2>2, OtherJob DEF RequestCancel, KeepIntent, SameEvents
  <2> QED  BY <1>3, <2>1, <2>2 DEF RequestCancel
<1>4. CASE ExpireIntent(j)
  BY <1>4, OtherJob DEF ExpireIntent, jobVars, SameEvents
<1> QED  BY <1>1, <1>2, <1>3, <1>4

LEMMA ClaimLedger ==
  ASSUME TypeOK, NEW j \in Jobs, NEW k \in Jobs, NEW e \in Executions,
         ClaimForDispatch(j, e) \/ ClaimForBackendDispatch(j, e)
  PROVE  Ledgered(k)
<1>1. Reserve(j, e) /\ status[j] \in Waiting
  BY DEF ClaimForDispatch, ClaimForBackendDispatch, Claimable
<1>2. ledger' = ledger \cup {<<j, gen[j] + 1, "reserved">>}
  BY <1>1 DEF Reserve
<1>3. CASE k = j
  <2>1. OneMoreEvent(j, gen[j] + 1, "reserved")
    BY <1>2, OneEvent
  <2>2. /\ status'[j] = "Dispatching" /\ gen'[j] = gen[j] + 1
        /\ lease'[j] = gen[j] + 1 /\ execution'[j] = e
    BY <1>1 DEF Reserve, SetStatus, TypeOK
  <2> QED  BY <1>1, <1>3, <2>1, <2>2, StoreAssumption DEF Ledgered, Reserves
<1>4. CASE k # j
  <2>1. /\ status'[k] = status[k] /\ gen'[k] = gen[k]
        /\ lease'[k] = lease[k] /\ execution'[k] = execution[k]
    BY <1>1, <1>4 DEF Reserve, SetStatus, TypeOK
  <2> QED  BY <1>2, <1>4, <2>1, OneEvent, OtherJob
<1> QED  BY <1>3, <1>4

LEMMA HermesLedger ==
  ASSUME TypeOK, NEW j \in Jobs, NEW k \in Jobs, NEW a \in 1..gen[j],
         \/ ResetUnsentDispatch(j, a)
         \/ \E e \in Executions : MarkRunning(j, a, e)
         \/ FinishSuccess(j, a) \/ FinishFailure(j, a)
         \/ MarkCancelUnknown(j, a)
         \/ FinishHermesCancellationNotStarted(j, a)
  PROVE  Ledgered(k)
<1>1. gen[j] > 0
  BY DEF TypeOK
<1>2. CASE ResetUnsentDispatch(j, a)
  <2>1. /\ \A m \in Jobs : status'[m] = IF m = j THEN "Acked" ELSE status[m]
        /\ \A m \in Jobs \ {j} : lease'[m] = lease[m] /\ execution'[m] = execution[m]
    BY <1>2, StatusAt DEF ResetUnsentDispatch, TypeOK
  <2>2. status[j] = "Dispatching" /\ AppendEvent(j, "not_sent") /\ gen' = gen
    BY <1>2 DEF ResetUnsentDispatch, Unsent
  <2> QED  BY <1>1, <2>1, <2>2, ReturnEdge, AppendsEvent DEF Active, AttemptEvent
<1>3. ASSUME NEW e \in Executions, MarkRunning(j, a, e) PROVE Ledgered(k)
  <2>1. /\ \A m \in Jobs : status'[m] = IF m = j THEN "Running" ELSE status[m]
        /\ \A m \in Jobs \ {j} : lease'[m] = lease[m] /\ execution'[m] = execution[m]
        /\ lease'[j] = lease[j] /\ execution'[j] = e /\ e # NoExecution
    BY <1>3, StatusAt, StoreAssumption DEF MarkRunning, TypeOK
  <2>2. status[j] = "Dispatching" /\ AppendEvent(j, "accepted") /\ gen' = gen
    BY <1>3 DEF MarkRunning
  <2> QED  BY <1>1, <2>1, <2>2, AcceptEdges, AppendsEvent DEF Active, AttemptEvent
<1>4. CASE \/ FinishSuccess(j, a) \/ FinishFailure(j, a)
           \/ MarkCancelUnknown(j, a) \/ FinishHermesCancellationNotStarted(j, a)
  <2>1. PICK st \in Ends :
          /\ status[j] \in Active /\ SetStatus(j, st) /\ AppendEvent(j, EndEvent(st))
          /\ UNCHANGED <<lease, execution, gen>>
    BY <1>4 DEF FinishSuccess, FinishFailure, FinishHermes, Finishable, MarkCancelUnknown,
                FinishHermesCancellationNotStarted, Active, Ends, EndEvent
  <2> QED  BY <1>1, <2>1, EndsLedger
<1> QED  BY <1>2, <1>3, <1>4

LEMMA BackendLedger ==
  ASSUME TypeOK, NEW j \in Jobs, NEW k \in Jobs, NEW a \in 1..gen[j],
         \/ ResetUnsentBackendDispatch(j, a)
         \/ FinishUnsentBackendCancellation(j, a)
         \/ \E t \in Turns : \/ FinishBackendSuccess(j, a, t)
                             \/ FinishBackendFailure(j, a, t)
                             \/ FinishBackendCredentialFailure(j, a, t)
  PROVE  Ledgered(k)
<1>1. gen[j] > 0
  BY DEF TypeOK
<1>2. CASE ResetUnsentBackendDispatch(j, a)
  <2>1. /\ \A m \in Jobs : status'[m] = IF m = j THEN "Acked" ELSE status[m]
        /\ \A m \in Jobs \ {j} : lease'[m] = lease[m] /\ execution'[m] = execution[m]
    BY <1>2, StatusAt DEF ResetUnsentBackendDispatch, TypeOK
  <2>2. status[j] = "Dispatching" /\ AppendEvent(j, "not_sent") /\ gen' = gen
    BY <1>2 DEF ResetUnsentBackendDispatch
  <2> QED  BY <1>1, <2>1, <2>2, ReturnEdge, AppendsEvent DEF Active, AttemptEvent
<1>3. CASE \/ FinishUnsentBackendCancellation(j, a)
           \/ \E t \in Turns : \/ FinishBackendSuccess(j, a, t)
                               \/ FinishBackendFailure(j, a, t)
                               \/ FinishBackendCredentialFailure(j, a, t)
  <2>1. PICK st \in Ends :
          /\ status[j] \in Active /\ SetStatus(j, st) /\ AppendEvent(j, EndEvent(st))
          /\ UNCHANGED <<lease, execution, gen>>
    BY <1>3 DEF FinishUnsentBackendCancellation, FinishBackendSuccess, FinishBackendFailure,
                FinishBackendCredentialFailure, FinishBackendWithOutbox, Active, Ends, EndEvent
  <2> QED  BY <1>1, <2>1, EndsLedger
<1> QED  BY <1>2, <1>3

LEMMA TurnLedger ==
  ASSUME TypeOK, NEW j \in Jobs, NEW k \in Jobs, NEW a \in 1..gen[j],
         \/ \E t \in Turns : MarkBackendRunning(j, a, t)
         \/ \E t \in Turns \cup {NoTurn} :
              MarkBackendCancelUnknown(j, a, t) \/ MarkBackendInterrupted(j, a, t)
  PROVE  Ledgered(k)
<1>1. gen[j] > 0
  BY DEF TypeOK
<1>2. ASSUME NEW t \in Turns, MarkBackendRunning(j, a, t) PROVE Ledgered(k)
  <2>1. AppendEvent(j, "accepted") /\ UNCHANGED <<lease, execution, gen>>
    BY <1>2 DEF MarkBackendRunning
  <2>2. PICK st \in {"Running", "Cancelling"} :
          /\ \A m \in Jobs : status'[m] = IF m = j THEN st ELSE status[m]
          /\ st = "Running" => status[j] = "Dispatching"
          /\ st = "Cancelling" => status[j] = "Cancelling"
    <3>1. CASE status[j] = "Dispatching" /\ SetStatus(j, "Running")
      BY <3>1, StatusAt
    <3>2. CASE status[j] = "Cancelling" /\ UNCHANGED status
      BY <3>2
    <3> QED  BY <1>2, <3>1, <3>2 DEF MarkBackendRunning
  <2>3. Leads(status[j], "accepted", st) /\ status[j] \in Active /\ "accepted" \in AttemptEvent
    BY <2>2, AcceptEdges DEF Active, AttemptEvent
  <2> QED  BY <1>1, <2>1, <2>2, <2>3, AppendsEvent
<1>3. ASSUME NEW t \in Turns \cup {NoTurn},
             MarkBackendCancelUnknown(j, a, t) \/ MarkBackendInterrupted(j, a, t)
      PROVE  Ledgered(k)
  <2>1. PICK st \in Ends :
          /\ status[j] \in Active /\ SetStatus(j, st) /\ AppendEvent(j, EndEvent(st))
          /\ UNCHANGED <<lease, execution, gen>>
    BY <1>3 DEF MarkBackendCancelUnknown, MarkBackendInterrupted,
                MarkBackendRecoveryTerminal, Active, Ends, EndEvent
  <2> QED  BY <1>1, <2>1, EndsLedger
<1> QED  BY <1>2, <1>3

-----------------------------------------------------------------------------
(* Transactions that end several attempts, and those that end none.        *)

LEMMA LostLedger ==
  ASSUME TypeOK, AttemptIdentified, NEW K \in SUBSET Jobs, NEW k \in Jobs,
         UNCHANGED <<lease, execution, gen>>,
         \A j \in K : status[j] \in Active,
         \A j \in K : <<j, gen[j], EndEvent(status'[j])>> \notin ledger,
         \A j \in K : status'[j] \in {"CancelUnknown", "Interrupted"},
         ledger' = ledger \cup {<<j, gen[j], EndEvent(status'[j])>> : j \in K},
         k \notin K => /\ status'[k] \in Active => status[k] \in Active
                       /\ LedgerFor(status[k]) \subseteq LedgerFor(status'[k])
  PROVE  Ledgered(k)
<1> DEFINE e == EndEvent(status'[k])
<1>1. Identity(k)
  BY DEF Identity, Active
<1>2. CASE k \in K
  <2>1. OneMoreEvent(k, gen[k], e)
    BY <1>2 DEF OneMoreEvent
  <2>2. Leads(status[k], e, status'[k]) /\ e \in AttemptEvent
    BY <1>2, EndEdges DEF Ends, EndEvent, AttemptEvent, TerminalEvent
  <2> QED  BY <1>1, <1>2, <2>1, <2>2 DEF Ledgered, Appends, AttemptIdentified
<1>3. CASE k \notin K
  <2>1. SameEvents(k)
    BY <1>3 DEF SameEvents
  <2> QED  BY <1>1, <1>3, <2>1 DEF Ledgered, Keeps
<1> QED  BY <1>2, <1>3

LEMMA SettleLostLedger ==
  ASSUME TypeOK, AttemptIdentified, NEW k \in Jobs,
         NEW K \in SUBSET {j \in Jobs : status[j] \in Active},
         SettleLost(K), UNCHANGED <<lease, execution, gen>>
  PROVE  Ledgered(k)
<1>1. \A j \in K : /\ status'[j] \in {"CancelUnknown", "Interrupted"}
                   /\ LostEvent(j) = EndEvent(status'[j])
  BY DEF SettleLost, LostEvent, EndEvent
<1>2. ledger' = ledger \cup {<<j, gen[j], EndEvent(status'[j])>> : j \in K}
  BY <1>1 DEF SettleLost
<1>3. \A j \in K : <<j, gen[j], EndEvent(status'[j])>> \notin ledger
  BY <1>1 DEF SettleLost, CanAppend
<1>4. k \notin K => status'[k] = status[k]
  BY DEF SettleLost
<1>5. K \in SUBSET Jobs /\ \A j \in K : status[j] \in Active
  OBVIOUS
<1> QED  BY <1>1, <1>2, <1>3, <1>4, <1>5, LostLedger

LEMMA DisconnectLedger ==
  ASSUME TypeOK, AttemptIdentified, NEW e \in Executions, NEW k \in Jobs,
         MarkConnectorDisconnected(e) \/ MarkBackendDisconnected(e)
  PROVE  Ledgered(k)
  BY SettleLostLedger DEF MarkConnectorDisconnected, MarkBackendDisconnected

LEMMA SessionLedger ==
  ASSUME TypeOK, NEW s \in Sessions, NEW k \in Jobs,
         \/ EnsureBackendSession(s) \/ BindBackendThread(s)
         \/ CreateLocalOpaqueBackendSession(s)
         \/ QuarantineSession(s) \/ ReleaseSessionRecovery(s)
  PROVE  Ledgered(k)
<1>1. UNCHANGED <<status, lease, execution, gen, ledger>>
  BY DEF EnsureBackendSession, BindBackendThread, CreateLocalOpaqueBackendSession,
         QuarantineSession, ReleaseSessionRecovery, jobVars
<1> QED  BY <1>1, OtherJob DEF SameEvents

\* A start matches the intents first, and then settles what is still active.
LEMMA LifeLedger ==
  ASSUME TypeOK, AttemptIdentified, NEW k \in Jobs, (\E b \in Backends : Start(b)) \/ Crash
  PROVE  Ledgered(k)
<1>1. ASSUME NEW b \in Backends, Start(b) PROVE Ledgered(k)
  <2>1. /\ UNCHANGED <<lease, execution, gen>>
        /\ \A j \in Lost : CanAppend(j, RestartEvent(j))
        /\ ledger' = ledger \cup {<<j, gen[j], RestartEvent(j)>> : j \in Lost}
        /\ \A j \in Jobs : status'[j] = IF j \notin Lost THEN Consumed[j]
                                        ELSE IF Consumed[j] = "Cancelling"
                                        THEN "CancelUnknown" ELSE "Interrupted"
    BY <1>1 DEF Start, RecoverAfterRestart
  <2>2. ASSUME NEW j \in Jobs
        PROVE  /\ Consumed[j] \in JobStatus /\ status[j] \in JobStatus
               /\ Consumed[j] \in Active => status[j] \in Active
               /\ \/ Consumed[j] = status[j]
                  \/ status[j] \in Waiting /\ Consumed[j] = "Cancelled"
                  \/ status[j] \in {"Dispatching", "Running"} /\ Consumed[j] = "Cancelling"
    BY DEF Consumed, Matched, TypeOK, JobStatus, Active, Waiting
  <2>3. /\ Lost \in SUBSET Jobs
        /\ \A j \in Lost : status[j] \in Active
    BY <2>2 DEF Lost
  <2>4. \A j \in Lost : /\ status'[j] \in {"CancelUnknown", "Interrupted"}
                        /\ RestartEvent(j) = EndEvent(status'[j])
    BY <2>1, <2>3 DEF RestartEvent, EndEvent
  <2>5. ledger' = ledger \cup {<<j, gen[j], EndEvent(status'[j])>> : j \in Lost}
    BY <2>1, <2>4
  <2>6. \A j \in Lost : <<j, gen[j], EndEvent(status'[j])>> \notin ledger
    BY <2>1, <2>4 DEF CanAppend
  <2>7. k \notin Lost => /\ status'[k] \in Active => status[k] \in Active
                         /\ LedgerFor(status[k]) \subseteq LedgerFor(status'[k])
    BY <2>1, <2>2, KeptEdges
  <2> QED  BY <2>1, <2>3, <2>4, <2>5, <2>6, <2>7, LostLedger
<1>2. CASE Crash
  BY <1>2, OtherJob DEF Crash, jobVars, SameEvents
<1> QED  BY <1>1, <1>2

LEMMA NextLedger ==
  ASSUME TypeOK, AttemptIdentified, [Next]_vars, NEW k \in Jobs
  PROVE  Ledgered(k)
<1>1. CASE UNCHANGED vars
  BY <1>1, OtherJob DEF vars, jobVars, SameEvents
<1>2. CASE Next
  BY <1>2, IntakeLedger, ClaimLedger, HermesLedger, BackendLedger, TurnLedger,
     DisconnectLedger, SessionLedger, LifeLedger
     DEF Next
<1> QED  BY <1>1, <1>2

-----------------------------------------------------------------------------
(* The invariants.                                                         *)

LEMMA AttemptsIdentified == Spec => []AttemptIdentified
<1>1. Init => AttemptIdentified
  BY DEF Init, AttemptIdentified, Active
<1>2. TypeOK /\ AttemptIdentified /\ [Next]_vars => AttemptIdentified'
  <2> SUFFICES ASSUME TypeOK, AttemptIdentified, [Next]_vars,
                      NEW k \in Jobs, status'[k] \in Active
               PROVE  lease'[k] = gen'[k] /\ gen'[k] > 0 /\ execution'[k] # NoExecution
    BY DEF AttemptIdentified
  <2>1. CASE Identity(k)
    BY <2>1 DEF Identity, AttemptIdentified
  <2>2. CASE Reserves(k)
    BY <2>2 DEF Reserves, TypeOK
  <2> QED  BY <2>1, <2>2, NextLedger DEF Ledgered, Keeps, Appends
<1> QED  BY <1>1, <1>2, TypeCorrect, PTL DEF Spec

LEMMA LedgerPreserved ==
  ASSUME TypeOK, AttemptIdentified, LedgerTellsStatus, [Next]_vars
  PROVE  LedgerTellsStatus'
<1> SUFFICES ASSUME NEW k \in Jobs
             PROVE  /\ \A g \in 1..gen'[k] :
                         LedgerOf(k, g)' \in IF g < gen'[k] THEN {Returned}
                                             ELSE LedgerFor(status'[k])
                    /\ \A row \in ledger' : row[1] = k => row[2] \in 1..gen'[k]
  BY DEF LedgerTellsStatus, LedgerFor, Settled, Returned, Waiting
<1>1. /\ gen[k] \in Nat /\ gen'[k] \in Nat
      /\ ledger \subseteq Jobs \X Nat \X AttemptEvent
      /\ ledger' \subseteq Jobs \X Nat \X AttemptEvent
  <2>1. TypeOK'
    BY NextType
  <2> QED  BY <2>1 DEF TypeOK
<1>2. /\ \A g \in 1..gen[k] :
           LedgerOf(k, g) \in IF g < gen[k] THEN {Returned} ELSE LedgerFor(status[k])
      /\ \A row \in ledger : row[1] = k => row[2] \in 1..gen[k]
  BY DEF LedgerTellsStatus
<1>3. \A g \in Nat, e \in AttemptEvent : <<k, g, e>> \in ledger => g \in 1..gen[k]
  BY <1>2
<1>4. \A row \in ledger' : row[1] = k =>
         row[2] \in Nat /\ row[3] \in AttemptEvent /\ <<k, row[2], row[3]>> \in ledger'
  BY <1>1
<1>5. CASE Keeps(k)
  <2>1. gen'[k] = gen[k] /\ LedgerFor(status[k]) \subseteq LedgerFor(status'[k])
    BY <1>5 DEF Keeps, Identity
  <2>2. \A g \in Nat : LedgerOf(k, g)' = LedgerOf(k, g)
    BY <1>5 DEF Keeps, SameEvents, LedgerOf
  <2>3. \A row \in ledger' : row[1] = k => row[2] \in 1..gen'[k]
    BY <1>3, <1>4, <1>5, <2>1 DEF Keeps, SameEvents
  <2> QED  BY <1>1, <1>2, <2>1, <2>2, <2>3
<1>6. CASE Appends(k)
  <2>1. gen'[k] = gen[k] /\ gen[k] > 0
    BY <1>6 DEF Appends, Identity
  <2>2. PICK e \in AttemptEvent : /\ <<k, gen[k], e>> \notin ledger
                                  /\ OneMoreEvent(k, gen[k], e)
                                  /\ Leads(status[k], e, status'[k])
    BY <1>6 DEF Appends
  <2>3. \A g \in Nat : g # gen[k] => LedgerOf(k, g)' = LedgerOf(k, g)
    BY <2>2 DEF OneMoreEvent, LedgerOf
  <2>4. LedgerOf(k, gen[k])' = LedgerOf(k, gen[k]) \cup {e} /\ e \notin LedgerOf(k, gen[k])
    <3>1. LedgerOf(k, gen[k]) = {x \in AttemptEvent : <<k, gen[k], x>> \in ledger}
      BY DEF LedgerOf
    <3>2. {x \in AttemptEvent : <<k, gen[k], x>> \in ledger'} = LedgerOf(k, gen[k]) \cup {e}
      BY <1>1, <2>2, <3>1 DEF OneMoreEvent
    <3> QED  BY <2>1, <2>2, <3>1, <3>2 DEF LedgerOf
  <2>5. LedgerOf(k, gen[k])' \in LedgerFor(status'[k])
    BY <1>1, <1>2, <2>1, <2>2, <2>4 DEF Leads
  <2>6. \A row \in ledger' : row[1] = k => row[2] \in 1..gen'[k]
    BY <1>1, <1>3, <1>4, <2>1, <2>2 DEF OneMoreEvent
  <2> QED  BY <1>1, <1>2, <2>1, <2>3, <2>5, <2>6
<1>7. CASE Reserves(k)
  <2> DEFINE h == gen[k] + 1
  <2>1. /\ status[k] \in Waiting /\ status'[k] = "Dispatching" /\ gen'[k] = h
        /\ OneMoreEvent(k, h, "reserved")
    BY <1>7 DEF Reserves
  <2>2. \A g \in 1..gen[k] : LedgerOf(k, g)' = Returned
    <3>0. LedgerFor(status[k]) = {Returned}
      BY <2>1 DEF LedgerFor, Waiting
    <3>1. \A g \in 1..gen[k] : LedgerOf(k, g) = Returned
      BY <1>1, <1>2, <3>0
    <3>2. \A g \in 1..gen[k] : LedgerOf(k, g)' = LedgerOf(k, g)
      BY <1>1, <2>1 DEF OneMoreEvent, LedgerOf
    <3> QED  BY <3>1, <3>2
  <2>3. {x \in AttemptEvent : <<k, h, x>> \in ledger'} = {"reserved"}
    <3>1. h \in Nat /\ h \notin 1..gen[k] /\ "reserved" \in AttemptEvent
      BY <1>1 DEF AttemptEvent
    <3> QED  BY <1>3, <2>1, <3>1 DEF OneMoreEvent
  <2>4. ASSUME NEW g \in Nat, g = h PROVE LedgerOf(k, g)' \in LedgerFor("Dispatching")
    <3>1. LedgerFor("Dispatching") = {{"reserved"}}
      BY DEF LedgerFor, Waiting
    <3>2. LedgerOf(k, g)' = {x \in AttemptEvent : <<k, g, x>> \in ledger'}
      BY DEF LedgerOf
    <3> QED  BY <2>3, <2>4, <3>1, <3>2
  <2>5. \A row \in ledger' : row[1] = k => row[2] \in 1..gen'[k]
    BY <1>1, <1>3, <1>4, <2>1 DEF OneMoreEvent
  <2>6. \A g \in 1..gen'[k] : g \in Nat /\ (g = h \/ (g \in 1..gen[k] /\ g < gen'[k]))
    BY <1>1, <2>1
  <2>7. ~(h < gen'[k])
    BY <1>1, <2>1
  <2> QED  BY <2>1, <2>2, <2>4, <2>5, <2>6, <2>7
<1> QED  BY <1>5, <1>6, <1>7, NextLedger DEF Ledgered

\* The ledger that the operator reads after a crash tells, of every attempt of
\* every job, what became of it: whatever transactions, lost processes and
\* restarts came, no accepted attempt was superseded and no end recorded twice.
THEOREM LedgerIsTrue == Spec => []LedgerTellsStatus
<1>1. Init => LedgerTellsStatus
  BY DEF Init, LedgerTellsStatus
<1> QED  BY <1>1, LedgerPreserved, TypeCorrect, AttemptsIdentified, PTL DEF Spec

\* From every state the next start finds what the recovery transaction needs:
\* for each attempt that it interrupts, lease, execution and session row, and
\* no event of the same kind.
THEOREM RestartIsPossible == Spec => []RestartCanRecover
<1>1. TypeOK /\ FenceAgreement /\ LedgerTellsStatus /\ AttemptIdentified => RestartCanRecover
  <2> SUFFICES ASSUME TypeOK, FenceAgreement, LedgerTellsStatus, AttemptIdentified,
                      NEW j \in Jobs, status[j] \in Active
               PROVE  CanAppend(j, LostEvent(j))
    BY DEF RestartCanRecover
  <2>1. lease[j] > 0 /\ gen[j] \in Nat /\ gen[j] > 0 /\ execution[j] # NoExecution
    BY DEF AttemptIdentified, TypeOK
  <2>2. target[j] \in Durable => BackendRow(target[j], j).thread = "bound"
    <3> SUFFICES ASSUME target[j] \in Durable
                 PROVE  bsession[target[j]][SessionOf[j]].thread = "bound"
      BY DEF BackendRow
    <3>1. SessionOf[j] \in Sessions /\ j # NoJob
      BY StoreAssumption
    <3>2. bsession[target[j]][SessionOf[j]].job = j
      BY DEF FenceAgreement, OwnsSession, BackendRow
    <3>3. RowMatchesJob(target[j], SessionOf[j])
      BY <3>1 DEF FenceAgreement
    <3> QED  BY <3>1, <3>2, <3>3 DEF RowMatchesJob
  <2>3. <<j, gen[j], LostEvent(j)>> \notin ledger
    <3>1. LedgerOf(j, gen[j]) \in LedgerFor(status[j])
      BY <2>1 DEF LedgerTellsStatus
    <3>2. LedgerFor(status[j]) \subseteq {{"reserved"}, {"reserved", "accepted"}}
      BY DEF LedgerFor, Waiting, Active
    <3>3. LostEvent(j) \in AttemptEvent \ {"reserved", "accepted"}
      BY DEF LostEvent, AttemptEvent, TerminalEvent
    <3>4. LostEvent(j) \notin LedgerOf(j, gen[j])
      BY <3>1, <3>2, <3>3
    <3> QED  BY <3>3, <3>4 DEF LedgerOf
  <2> QED  BY <2>1, <2>2, <2>3 DEF CanAppend, HasAttemptContext
<1> QED
  BY <1>1, TypeCorrect, FencesAgree, LedgerIsTrue, AttemptsIdentified, PTL

-----------------------------------------------------------------------------
(* JobStore implements JobExecution: each transaction, seen through Phase, *)
(* cancelRequested and quarantine, is one step of the promise or none.     *)
(* The invariants proved before tell which phase a status stands for, and  *)
(* that what is released was fenced.                                       *)

StoreInv ==
  /\ TypeOK
  /\ AttemptIdentified
  /\ LedgerTellsStatus
  /\ CancelWins
  /\ RecoveryFenced

AbstractStep == [Abstract!Next]_(Abstract!vars)

-----------------------------------------------------------------------------
(* Phases.                                                                 *)

LEMMA PhaseNow ==
  ASSUME StoreInv, NEW j \in Jobs
  PROVE  /\ status[j] = "Absent" => Phase(j) = "new"
         /\ status[j] \in Waiting => Phase(j) = "queued"
         /\ status[j] \in Active => Phase(j) = IF Accepted(j) THEN "executing" ELSE "claimed"
         /\ status[j] = "Dispatching" => ~Accepted(j)
         /\ status[j] = "Running" => Accepted(j)
         /\ status[j] \notin Active => Phase(j) \notin {"claimed", "executing"}
<1>1. status[j] \in Active => LedgerOf(j, gen[j]) \in LedgerFor(status[j])
  BY DEF StoreInv, TypeOK, AttemptIdentified, LedgerTellsStatus
<1>2. Accepted(j) <=> "accepted" \in LedgerOf(j, gen[j])
  BY DEF Accepted, LedgerOf, AttemptEvent
<1>3. LedgerFor("Dispatching") = {{"reserved"}} /\ LedgerFor("Running") = {{"reserved", "accepted"}}
  BY DEF LedgerFor, Waiting
<1>4. status[j] = "Dispatching" => ~Accepted(j)
  BY <1>1, <1>2, <1>3 DEF Active
<1>5. status[j] = "Running" => Accepted(j)
  BY <1>1, <1>2, <1>3 DEF Active
<1> QED  BY <1>4, <1>5 DEF Phase, Active, Waiting

LEMMA SamePhase ==
  ASSUME NEW k \in Jobs, status'[k] = status[k], gen'[k] = gen[k],
         <<k, gen[k], "accepted">> \in ledger' <=> <<k, gen[k], "accepted">> \in ledger
  PROVE  Phase(k)' = Phase(k)
  BY DEF Phase, Accepted

\* A transaction that writes j and its part of the ledger moves no other job.
LEMMA OthersKeepPhase ==
  ASSUME TypeOK, NEW j \in Jobs,
         \A m \in Jobs \ {j} : status'[m] = status[m] /\ gen'[m] = gen[m],
         \/ ledger' = ledger
         \/ \E h, e : ledger' = ledger \cup {<<j, h, e>>},
         NEW k \in Jobs \ {j}
  PROVE  Phase(k)' = Phase(k)
<1>1. <<k, gen[k], "accepted">> \in ledger' <=> <<k, gen[k], "accepted">> \in ledger
  OBVIOUS
<1> QED  BY <1>1, SamePhase

LEMMA PhaseMove ==
  ASSUME NEW j \in Jobs, NEW p, Phase(j)' = p,
         \A k \in Jobs \ {j} : Phase(k)' = Phase(k)
  PROVE  Abstract!Move(j, p)
  BY DEF Abstract!Move

LEMMA SamePhases ==
  ASSUME \A k \in Jobs : Phase(k)' = Phase(k), UNCHANGED <<cancelRequested, quarantine>>
  PROVE  UNCHANGED Abstract!vars
<1>1. [j \in Jobs |-> Phase(j)]' = [j \in Jobs |-> Phase(j)]
  OBVIOUS
<1>2. {j \in Jobs : cancelRequested[j]}' = {j \in Jobs : cancelRequested[j]}
  OBVIOUS
<1> QED  BY <1>1, <1>2 DEF Abstract!vars

-----------------------------------------------------------------------------
(* Intake.                                                                 *)

\* The job is written, and its cancellation is accepted or is not.
Unasked == UNCHANGED cancelRequested
Asked(j) == /\ cancelRequested'[j]
            /\ \A k \in Jobs \ {j} : cancelRequested'[k] = cancelRequested[k]

LEMMA AskedSet ==
  ASSUME NEW j \in Jobs, Asked(j)
  PROVE  {k \in Jobs : cancelRequested[k]}' = {k \in Jobs : cancelRequested[k]} \cup {j}
  BY DEF Asked

LEMMA UnaskedSet ==
  ASSUME Unasked
  PROVE  {k \in Jobs : cancelRequested[k]}' = {k \in Jobs : cancelRequested[k]}
  BY DEF Unasked

LEMMA WriteOne ==
  ASSUME TypeOK, NEW j \in Jobs, NEW st, SetStatus(j, st), UNCHANGED <<gen, ledger>>
  PROVE  /\ status'[j] = st
         /\ Accepted(j)' = Accepted(j)
         /\ \A k \in Jobs \ {j} : Phase(k)' = Phase(k)
<1>1. \A m \in Jobs : status'[m] = IF m = j THEN st ELSE status[m]
  BY StatusAt
<1>2. \A k \in Jobs \ {j} : Phase(k)' = Phase(k)
  BY <1>1, OthersKeepPhase
<1> QED  BY <1>1, <1>2 DEF Accepted

LEMMA StatusIntake ==
  ASSUME StoreInv, NEW j \in Jobs, NEW st, SetStatus(j, st),
         UNCHANGED <<gen, ledger, quarantine>>,
         \/ st = status[j] /\ Unasked
         \/ status[j] = "Absent" /\ st = "Received" /\ Unasked
         \/ status[j] \in Waiting \cup {"Absent"} /\ st = "Cancelled" /\ Asked(j)
         \/ status[j] \in {"Dispatching", "Running"} /\ st = "Cancelling" /\ Asked(j)
         \/ status[j] = "Received" /\ st = "Acked" /\ Unasked
         \/ status[j] \in Waiting /\ st = "Rejected" /\ Unasked
  PROVE  AbstractStep
<1>0. TypeOK
  BY DEF StoreInv
<1>1. /\ status'[j] = st
      /\ Accepted(j)' = Accepted(j)
      /\ \A k \in Jobs \ {j} : Phase(k)' = Phase(k)
  BY <1>0, WriteOne
<1>2. CASE (st = status[j] \/ (status[j] = "Received" /\ st = "Acked")) /\ Unasked
  <2>1. Phase(j)' = Phase(j)
    BY <1>1, <1>2 DEF Phase, Waiting, Active
  <2> QED  BY <1>1, <1>2, <2>1, SamePhases DEF AbstractStep, Unasked
<1>3. CASE status[j] = "Absent" /\ st = "Received" /\ Unasked
  <2>1. Phase(j) = "new" /\ Phase(j)' = "queued"
    BY <1>1, <1>3, PhaseNow DEF Phase, Waiting, Active
  <2>2. Abstract!Submit(j)
    BY <1>1, <1>3, <2>1, PhaseMove, UnaskedSet DEF Abstract!Submit
  <2> QED  BY <2>2 DEF AbstractStep, Abstract!Next
<1>4. CASE status[j] \in Waiting \cup {"Absent"} /\ st = "Cancelled" /\ Asked(j)
  <2>1. Phase(j) \in {"new", "queued"} /\ Phase(j)' = "withdrawn"
    BY <1>1, <1>4, PhaseNow DEF Phase, Waiting, Active
  <2>2. Abstract!Withdraw(j)
    BY <1>1, <1>4, <2>1, PhaseMove, AskedSet DEF Abstract!Withdraw
  <2> QED  BY <2>2 DEF AbstractStep, Abstract!Next
<1>5. CASE status[j] \in {"Dispatching", "Running"} /\ st = "Cancelling" /\ Asked(j)
  <2>1. Phase(j) \in {"claimed", "executing"} /\ Phase(j)' = Phase(j)
    BY <1>1, <1>5, PhaseNow DEF Phase, Waiting, Active
  <2>2. [k \in Jobs |-> Phase(k)]' = [k \in Jobs |-> Phase(k)]
    BY <1>1, <2>1
  <2>3. Abstract!AskCancel(j)
    BY <1>5, <2>1, <2>2, AskedSet DEF Abstract!AskCancel, Abstract!Holding
  <2> QED  BY <2>3 DEF AbstractStep, Abstract!Next
<1>6. CASE status[j] \in Waiting /\ st = "Rejected" /\ Unasked
  <2>1. Phase(j) = "queued" /\ Phase(j)' = "answered"
    BY <1>1, <1>6, PhaseNow DEF Phase, Waiting, Active
  <2>2. ~cancelRequested[j]
    BY <1>6 DEF StoreInv, CancelWins, Waiting
  <2>3. Abstract!Answer(j)
    BY <1>1, <1>6, <2>1, <2>2, PhaseMove, UnaskedSet DEF Abstract!Answer
  <2> QED  BY <2>3 DEF AbstractStep, Abstract!Next
<1> QED  BY <1>2, <1>3, <1>4, <1>5, <1>6

LEMMA IntakeRefines ==
  ASSUME StoreInv, NEW j \in Jobs,
         Ingest(j) \/ MarkAcked(j) \/ Reject(j) \/ RequestCancel(j) \/ ExpireIntent(j)
  PROVE  AbstractStep
<1>0. TypeOK /\ status[j] \in JobStatus
  BY DEF StoreInv, TypeOK
<1>1. CASE Ingest(j)
  <2> DEFINE now == IF ~Exists(j) THEN "Received" ELSE status[j]
             hit == intent[j] = "fresh" /\ now \in Waiting \cup {"Dispatching", "Running"}
             st  == IF ~hit THEN now ELSE IF now \in Waiting THEN "Cancelled" ELSE "Cancelling"
  <2>1. /\ SetStatus(j, st) /\ UNCHANGED <<gen, ledger, quarantine>>
        /\ cancelRequested' = [cancelRequested EXCEPT ![j] = @ \/ hit]
    BY <1>1 DEF Ingest
  <2>2. hit => Asked(j)
    BY <1>0, <2>1 DEF TypeOK, Asked
  <2>3. ~hit => Unasked
    BY <1>0, <2>1 DEF TypeOK, Unasked
  <2>4. \/ ~hit /\ st = status[j]
        \/ ~hit /\ status[j] = "Absent" /\ st = "Received"
        \/ hit /\ status[j] \in Waiting \cup {"Absent"} /\ st = "Cancelled"
        \/ hit /\ status[j] \in {"Dispatching", "Running"} /\ st = "Cancelling"
    BY DEF Exists, Waiting
  <2> HIDE DEF st, hit
  <2> QED  BY <2>1, <2>2, <2>3, <2>4, StatusIntake
<1>2. CASE MarkAcked(j)
  BY <1>2, StatusIntake DEF MarkAcked, Unasked
<1>3. CASE Reject(j)
  BY <1>3, StatusIntake DEF Reject, Unasked
<1>4. CASE RequestCancel(j) /\ CancelExistingJob(j)
  <2> DEFINE hit == status[j] \in Waiting \cup {"Dispatching", "Running"}
             st  == IF ~hit THEN status[j] ELSE IF status[j] \in Waiting
                    THEN "Cancelled" ELSE "Cancelling"
  <2>1. /\ SetStatus(j, st) /\ UNCHANGED <<gen, ledger, quarantine>>
        /\ cancelRequested' = [cancelRequested EXCEPT ![j] = @ \/ hit]
    BY <1>4 DEF RequestCancel, CancelExistingJob
  <2>2. hit => Asked(j)
    BY <1>0, <2>1 DEF TypeOK, Asked
  <2>3. ~hit => Unasked
    BY <1>0, <2>1 DEF TypeOK, Unasked
  <2>4. \/ ~hit /\ st = status[j]
        \/ hit /\ status[j] \in Waiting \cup {"Absent"} /\ st = "Cancelled"
        \/ hit /\ status[j] \in {"Dispatching", "Running"} /\ st = "Cancelling"
    BY DEF Waiting
  <2> HIDE DEF st, hit
  <2> QED  BY <2>1, <2>2, <2>3, <2>4, StatusIntake
<1>5. CASE ExpireIntent(j) \/ (RequestCancel(j) /\ KeepIntent(j))
  <2>1. UNCHANGED <<status, gen, ledger, cancelRequested, quarantine>>
    BY <1>5 DEF ExpireIntent, RequestCancel, KeepIntent, jobVars
  <2>2. \A k \in Jobs : Phase(k)' = Phase(k)
    BY <2>1, SamePhase
  <2> QED  BY <2>1, <2>2, SamePhases DEF AbstractStep
<1> QED  BY <1>1, <1>2, <1>3, <1>4, <1>5 DEF RequestCancel

-----------------------------------------------------------------------------
(* Attempts.                                                               *)

LEMMA ClaimRefines ==
  ASSUME StoreInv, NEW j \in Jobs, NEW e \in Executions,
         ClaimForDispatch(j, e) \/ ClaimForBackendDispatch(j, e)
  PROVE  AbstractStep
<1>0. TypeOK
  BY DEF StoreInv
<1>1. Claimable(j) /\ Reserve(j, e) /\ Unasked /\ UNCHANGED quarantine
  BY DEF ClaimForDispatch, ClaimForBackendDispatch, Unasked
<1>2. /\ \A m \in Jobs : status'[m] = IF m = j THEN "Dispatching" ELSE status[m]
      /\ \A m \in Jobs \ {j} : gen'[m] = gen[m]
      /\ gen'[j] = gen[j] + 1 /\ gen[j] \in Nat
      /\ ledger' = ledger \cup {<<j, gen[j] + 1, "reserved">>}
  BY <1>0, <1>1, StatusAt DEF Reserve, TypeOK
<1>3. \A k \in Jobs \ {j} : Phase(k)' = Phase(k)
  BY <1>0, <1>2, OthersKeepPhase
<1>4. Phase(j) = "queued"
  BY <1>1, PhaseNow DEF Claimable
<1>5. Phase(j)' = "claimed"
  <2>1. <<j, gen[j] + 1, "accepted">> \notin ledger
    BY <1>2 DEF StoreInv, LedgerTellsStatus
  <2> QED  BY <1>2, <2>1 DEF Phase, Accepted, Active, Waiting
<1>6. SessionOf[j] \notin quarantine /\ Abstract!Free(SessionOf[j])
  <2>1. \A k \in Jobs : SessionOf[k] = SessionOf[j] => status[k] \notin Active
    BY <1>1 DEF Claimable, OthersActive, Waiting, Active
  <2> QED  BY <1>1, <2>1, PhaseNow DEF Claimable, Quarantined, Abstract!Free, Abstract!Holding
<1>7. Abstract!Claim(j)
  BY <1>1, <1>3, <1>4, <1>5, <1>6, PhaseMove, UnaskedSet DEF Abstract!Claim
<1> QED  BY <1>7 DEF AbstractStep, Abstract!Next

LEMMA WriteAppend ==
  ASSUME TypeOK, NEW j \in Jobs, NEW st, NEW e, AppendEvent(j, e), gen' = gen,
         \A m \in Jobs : status'[m] = IF m = j THEN st ELSE status[m]
  PROVE  /\ Accepted(j)' <=> Accepted(j) \/ e = "accepted"
         /\ e = "accepted" => ~Accepted(j)
         /\ \A k \in Jobs \ {j} : Phase(k)' = Phase(k)
<1>1. <<j, gen[j], e>> \notin ledger /\ ledger' = ledger \cup {<<j, gen[j], e>>}
  BY DEF AppendEvent, CanAppend
<1>2. \A k \in Jobs \ {j} : Phase(k)' = Phase(k)
  BY <1>1, OthersKeepPhase
<1> QED  BY <1>1, <1>2 DEF Accepted

\* What a call about the last attempt of a job may do to it.
LEMMA CallRefines ==
  ASSUME StoreInv, NEW j \in Jobs, NEW st, NEW e, AppendEvent(j, e), gen' = gen,
         \A m \in Jobs : status'[m] = IF m = j THEN st ELSE status[m],
         \/ /\ status[j] = "Dispatching" /\ st = "Acked" /\ e # "accepted"
            /\ Unasked /\ UNCHANGED quarantine
         \/ /\ \/ status[j] = "Dispatching" /\ st = "Running"
               \/ status[j] = "Cancelling" /\ st = "Cancelling"
            /\ e = "accepted" /\ Unasked /\ UNCHANGED quarantine
         \/ /\ status[j] \in {"Dispatching", "Running"} /\ st \in {"Succeeded", "Failed"}
            /\ Unasked /\ quarantine' \in {quarantine, quarantine \cup {SessionOf[j]}}
         \/ /\ status[j] = "Cancelling" /\ st = "Cancelled"
            /\ Unasked /\ UNCHANGED quarantine
         \/ /\ status[j] \in Active /\ st \in {"CancelUnknown", "Interrupted"}
            /\ Asked(j) \/ Unasked
            /\ quarantine' = quarantine \cup {SessionOf[j]}
  PROVE  AbstractStep
<1>0. TypeOK
  BY DEF StoreInv
<1>1. /\ status'[j] = st
      /\ Accepted(j)' <=> Accepted(j) \/ e = "accepted"
      /\ e = "accepted" => ~Accepted(j)
      /\ \A k \in Jobs \ {j} : Phase(k)' = Phase(k)
  BY <1>0, WriteAppend
<1>2. cancelRequested[j] <=> status[j] \in {"Cancelling", "Cancelled", "CancelUnknown"}
  BY DEF StoreInv, CancelWins
<1>3. CASE /\ status[j] = "Dispatching" /\ st = "Acked" /\ e # "accepted"
           /\ Unasked /\ UNCHANGED quarantine
  <2>1. Phase(j) = "claimed" /\ Phase(j)' = "queued" /\ ~cancelRequested[j]
    BY <1>1, <1>2, <1>3, PhaseNow DEF Phase, Waiting, Active
  <2>2. Abstract!Return(j)
    BY <1>1, <1>3, <2>1, PhaseMove, UnaskedSet DEF Abstract!Return
  <2> QED  BY <2>2 DEF AbstractStep, Abstract!Next
<1>4. CASE /\ \/ status[j] = "Dispatching" /\ st = "Running"
              \/ status[j] = "Cancelling" /\ st = "Cancelling"
           /\ e = "accepted" /\ Unasked /\ UNCHANGED quarantine
  <2>1. Phase(j) = "claimed" /\ Phase(j)' = "executing"
    BY <1>1, <1>4, PhaseNow DEF Phase, Waiting, Active
  <2>2. Abstract!Begin(j)
    BY <1>1, <1>4, <2>1, PhaseMove, UnaskedSet DEF Abstract!Begin
  <2> QED  BY <2>2 DEF AbstractStep, Abstract!Next
<1>5. CASE /\ status[j] \in {"Dispatching", "Running"} /\ st \in {"Succeeded", "Failed"}
           /\ Unasked /\ quarantine' \in {quarantine, quarantine \cup {SessionOf[j]}}
  <2>1. Phase(j) \in {"claimed", "executing"} /\ Phase(j)' = "answered" /\ ~cancelRequested[j]
    BY <1>1, <1>2, <1>5, PhaseNow DEF Phase, Waiting, Active
  <2>2. Abstract!Answer(j)
    BY <1>1, <1>5, <2>1, PhaseMove, UnaskedSet DEF Abstract!Answer
  <2> QED  BY <2>2 DEF AbstractStep, Abstract!Next
<1>6. CASE /\ status[j] = "Cancelling" /\ st = "Cancelled"
           /\ Unasked /\ UNCHANGED quarantine
  <2>1. Phase(j) \in {"claimed", "executing"} /\ Phase(j)' = "withdrawn" /\ cancelRequested[j]
    BY <1>1, <1>2, <1>6, PhaseNow DEF Phase, Waiting, Active
  <2>2. Abstract!Abandon(j)
    BY <1>1, <1>6, <2>1, PhaseMove, UnaskedSet DEF Abstract!Abandon, Abstract!Holding
  <2> QED  BY <2>2 DEF AbstractStep, Abstract!Next
<1>7. CASE /\ status[j] \in Active /\ st \in {"CancelUnknown", "Interrupted"}
           /\ Asked(j) \/ Unasked
           /\ quarantine' = quarantine \cup {SessionOf[j]}
  <2>1. Phase(j) \in {"claimed", "executing"} /\ Phase(j)' = "ambiguous"
    BY <1>1, <1>7, PhaseNow DEF Phase, Waiting, Active
  <2>2. {k \in Jobs : cancelRequested[k]}' \in
          {{k \in Jobs : cancelRequested[k]}, {k \in Jobs : cancelRequested[k]} \cup {j}}
    BY <1>7, AskedSet, UnaskedSet
  <2>3. [k \in Jobs |-> Phase(k)]' =
          [k \in Jobs |-> IF k \in {j} THEN "ambiguous"
                          ELSE IF k \in {} THEN "withdrawn" ELSE Phase(k)]
    BY <1>1, <2>1
  <2>4. Abstract!Lose({j}, {})
    BY <1>7, <2>1, <2>2, <2>3 DEF Abstract!Lose, Abstract!Holding
  <2> QED  BY <2>4 DEF AbstractStep, Abstract!Next
<1> QED  BY <1>3, <1>4, <1>5, <1>6, <1>7

LEMMA HermesRefines ==
  ASSUME StoreInv, NEW j \in Jobs, NEW a \in 1..gen[j],
         \/ ResetUnsentDispatch(j, a)
         \/ \E e \in Executions : MarkRunning(j, a, e)
         \/ FinishSuccess(j, a) \/ FinishFailure(j, a)
         \/ MarkCancelUnknown(j, a)
         \/ FinishHermesCancellationNotStarted(j, a)
  PROVE  AbstractStep
<1>0. TypeOK
  BY DEF StoreInv
<1>1. ASSUME NEW st, SetStatus(j, st)
      PROVE  \A m \in Jobs : status'[m] = IF m = j THEN st ELSE status[m]
  BY <1>0, <1>1, StatusAt
<1>2. CASE ResetUnsentDispatch(j, a)
  BY <1>1, <1>2, CallRefines DEF ResetUnsentDispatch, Unsent, Unasked
<1>3. CASE \E e \in Executions : MarkRunning(j, a, e)
  BY <1>1, <1>3, CallRefines DEF MarkRunning, Unasked
<1>4. CASE FinishSuccess(j, a)
  BY <1>1, <1>4, CallRefines DEF FinishSuccess, FinishHermes, Finishable, Unasked
<1>5. CASE FinishFailure(j, a)
  BY <1>1, <1>5, CallRefines DEF FinishFailure, FinishHermes, Finishable, Unasked
<1>6. CASE MarkCancelUnknown(j, a)
  <2>1. Asked(j)
    BY <1>0, <1>6 DEF MarkCancelUnknown, Asked, TypeOK
  <2> QED  BY <1>1, <1>6, <2>1, CallRefines DEF MarkCancelUnknown, Active
<1>7. CASE FinishHermesCancellationNotStarted(j, a)
  BY <1>1, <1>7, CallRefines DEF FinishHermesCancellationNotStarted, Unasked
<1> QED  BY <1>2, <1>3, <1>4, <1>5, <1>6, <1>7

LEMMA BackendRefines ==
  ASSUME StoreInv, NEW j \in Jobs, NEW a \in 1..gen[j],
         \/ ResetUnsentBackendDispatch(j, a)
         \/ FinishUnsentBackendCancellation(j, a)
         \/ \E t \in Turns : \/ FinishBackendSuccess(j, a, t)
                             \/ FinishBackendFailure(j, a, t)
                             \/ FinishBackendCredentialFailure(j, a, t)
  PROVE  AbstractStep
<1>0. TypeOK
  BY DEF StoreInv
<1>1. ASSUME NEW st, SetStatus(j, st)
      PROVE  \A m \in Jobs : status'[m] = IF m = j THEN st ELSE status[m]
  BY <1>0, <1>1, StatusAt
<1>2. CASE ResetUnsentBackendDispatch(j, a)
  BY <1>1, <1>2, CallRefines DEF ResetUnsentBackendDispatch, Unasked
<1>3. CASE FinishUnsentBackendCancellation(j, a)
  BY <1>1, <1>3, CallRefines DEF FinishUnsentBackendCancellation, Unasked
<1>4. CASE \E t \in Turns : \/ FinishBackendSuccess(j, a, t)
                            \/ FinishBackendFailure(j, a, t)
                            \/ FinishBackendCredentialFailure(j, a, t)
  <2>1. PICK st \in {"Succeeded", "Failed"}, event \in {"succeeded", "failed"} :
          /\ status[j] = "Running" /\ SetStatus(j, st) /\ AppendEvent(j, event)
          /\ Unasked /\ gen' = gen
          /\ quarantine' \in {quarantine, quarantine \cup {SessionOf[j]}}
    BY <1>4 DEF FinishBackendSuccess, FinishBackendFailure, FinishBackendCredentialFailure,
                FinishBackendWithOutbox, Unasked
  <2> QED  BY <1>1, <2>1, CallRefines
<1> QED  BY <1>2, <1>3, <1>4

LEMMA TurnRefines ==
  ASSUME StoreInv, NEW j \in Jobs, NEW a \in 1..gen[j],
         \/ \E t \in Turns : MarkBackendRunning(j, a, t)
         \/ \E t \in Turns \cup {NoTurn} :
              MarkBackendCancelUnknown(j, a, t) \/ MarkBackendInterrupted(j, a, t)
  PROVE  AbstractStep
<1>0. TypeOK
  BY DEF StoreInv
<1>1. ASSUME NEW t \in Turns, MarkBackendRunning(j, a, t) PROVE AbstractStep
  <2>1. AppendEvent(j, "accepted") /\ gen' = gen /\ Unasked /\ UNCHANGED quarantine
    BY <1>1 DEF MarkBackendRunning, Unasked
  <2>2. CASE status[j] = "Dispatching" /\ SetStatus(j, "Running")
    <3>1. \A m \in Jobs : status'[m] = IF m = j THEN "Running" ELSE status[m]
      BY <1>0, <2>2, StatusAt
    <3> QED  BY <2>1, <2>2, <3>1, CallRefines
  <2>3. CASE status[j] = "Cancelling" /\ UNCHANGED status
    <3>1. \A m \in Jobs : status'[m] = IF m = j THEN "Cancelling" ELSE status[m]
      BY <2>3
    <3> QED  BY <2>1, <2>3, <3>1, CallRefines
  <2> QED  BY <1>1, <2>2, <2>3 DEF MarkBackendRunning
<1>2. ASSUME NEW t \in Turns \cup {NoTurn}, NEW from \in SUBSET Active,
             NEW st \in {"CancelUnknown", "Interrupted"}, NEW event,
             MarkBackendRecoveryTerminal(j, a, t, from, st, event)
      PROVE  AbstractStep
  <2>1. /\ AppendEvent(j, event) /\ gen' = gen /\ status[j] \in Active
        /\ quarantine' = quarantine \cup {SessionOf[j]}
        /\ cancelRequested' = [cancelRequested EXCEPT ![j] = @ \/ st = "CancelUnknown"]
    BY <1>2 DEF MarkBackendRecoveryTerminal
  <2>2. \A m \in Jobs : status'[m] = IF m = j THEN st ELSE status[m]
    BY <1>0, <1>2, StatusAt DEF MarkBackendRecoveryTerminal
  <2>3. Asked(j) \/ Unasked
    <3>1. cancelRequested \in [Jobs -> BOOLEAN]
      BY <1>0 DEF TypeOK
    <3>2. CASE st = "CancelUnknown"
      BY <2>1, <3>1, <3>2 DEF Asked
    <3>3. CASE st = "Interrupted"
      BY <2>1, <3>1, <3>3 DEF Unasked
    <3> QED  BY <3>2, <3>3
  <2> QED  BY <2>1, <2>2, <2>3, CallRefines
<1>3. {"Cancelling"} \subseteq Active /\ {"Dispatching", "Running"} \subseteq Active
  BY DEF Active
<1> QED
  BY <1>1, <1>2, <1>3 DEF MarkBackendCancelUnknown, MarkBackendInterrupted

-----------------------------------------------------------------------------
(* Lost processes, sessions, and the daemon's life.                        *)

\* Any number of attempts is lost, and the queued jobs in W are withdrawn.
Losing(K, W) ==
  /\ \A j \in K : j \in Jobs /\ status[j] \in Active
  /\ \A j \in W : j \in Jobs /\ status[j] \in Waiting
  /\ \A j \in Jobs : Phase(j)' = IF j \in K THEN "ambiguous"
                                 ELSE IF j \in W THEN "withdrawn" ELSE Phase(j)
  /\ \A j \in Jobs : /\ cancelRequested[j] \/ j \in W => cancelRequested'[j]
                     /\ cancelRequested'[j] => cancelRequested[j] \/ j \in W \cup K
  /\ K \cup W = {} => UNCHANGED cancelRequested
  /\ quarantine' = quarantine \cup {SessionOf[j] : j \in K}

LEMMA LoseRefines ==
  ASSUME StoreInv, NEW K, NEW W, Losing(K, W)
  PROVE  AbstractStep
<1> USE DEF Losing
<1>1. CASE K = {} /\ W = {}
  <2>1. UNCHANGED <<cancelRequested, quarantine>> /\ \A j \in Jobs : Phase(j)' = Phase(j)
    BY <1>1
  <2> QED  BY <2>1, SamePhases DEF AbstractStep
<1>2. CASE K # {} \/ W # {}
  <2>1. /\ \A j \in K : Phase(j) \in {"claimed", "executing"}
        /\ \A j \in W : Phase(j) = "queued"
    BY PhaseNow
  <2>2. [j \in Jobs |-> Phase(j)]' =
          [j \in Jobs |-> IF j \in K THEN "ambiguous"
                          ELSE IF j \in W THEN "withdrawn" ELSE Phase(j)]
    OBVIOUS
  <2>3. /\ {j \in Jobs : cancelRequested[j]} \cup W \subseteq {j \in Jobs : cancelRequested[j]}'
        /\ {j \in Jobs : cancelRequested[j]}' \subseteq
             {j \in Jobs : cancelRequested[j]} \cup W \cup K
    OBVIOUS
  <2>4. Abstract!Lose(K, W)
    BY <1>2, <2>1, <2>2, <2>3 DEF Abstract!Lose, Abstract!Holding
  <2> QED  BY <2>4 DEF AbstractStep, Abstract!Next
<1> QED  BY <1>1, <1>2

LEMMA DisconnectRefines ==
  ASSUME StoreInv, NEW e \in Executions,
         MarkConnectorDisconnected(e) \/ MarkBackendDisconnected(e)
  PROVE  AbstractStep
<1>1. PICK K \in SUBSET {j \in Jobs : status[j] \in Active} :
        /\ SettleLost(K) /\ UNCHANGED gen /\ K # {}
        /\ \/ UNCHANGED cancelRequested
           \/ cancelRequested' = [j \in Jobs |-> \/ cancelRequested[j]
                                                 \/ j \in K /\ status[j] = "Cancelling"]
  BY DEF MarkConnectorDisconnected, MarkBackendDisconnected
<1>2. K \in SUBSET Jobs /\ \A j \in K : status[j] \in Active
  OBVIOUS
<1>3. ASSUME NEW j \in Jobs
      PROVE  Phase(j)' = IF j \in K THEN "ambiguous" ELSE Phase(j)
  <2>1. CASE j \in K
    <3>1. status'[j] \in {"CancelUnknown", "Interrupted"}
      BY <1>1, <2>1 DEF SettleLost
    <3> QED  BY <2>1, <3>1 DEF Phase, Waiting, Active
  <2>2. CASE j \notin K
    BY <1>1, <2>2, SamePhase DEF SettleLost
  <2> QED  BY <2>1, <2>2
<1>4. \A j \in Jobs : /\ cancelRequested[j] => cancelRequested'[j]
                      /\ cancelRequested'[j] => cancelRequested[j] \/ j \in K
  BY <1>1
<1>5. quarantine' = quarantine \cup {SessionOf[j] : j \in K}
  BY <1>1 DEF SettleLost
<1>6. Losing(K, {})
  BY <1>1, <1>2, <1>3, <1>4, <1>5 DEF Losing
<1> QED  BY <1>6, LoseRefines

LEMMA SessionRefines ==
  ASSUME StoreInv, NEW s \in Sessions,
         \/ EnsureBackendSession(s) \/ BindBackendThread(s)
         \/ CreateLocalOpaqueBackendSession(s)
         \/ QuarantineSession(s) \/ ReleaseSessionRecovery(s)
  PROVE  AbstractStep
<1>1. UNCHANGED <<status, gen, cancelRequested, ledger>>
  BY DEF EnsureBackendSession, BindBackendThread, CreateLocalOpaqueBackendSession,
         QuarantineSession, ReleaseSessionRecovery, jobVars
<1>2. \A j \in Jobs : Phase(j)' = Phase(j)
  BY <1>1, SamePhase
<1>3. /\ [j \in Jobs |-> Phase(j)]' = [j \in Jobs |-> Phase(j)]
      /\ {j \in Jobs : cancelRequested[j]}' = {j \in Jobs : cancelRequested[j]}
  BY <1>1, <1>2
<1>4. CASE UNCHANGED quarantine
  BY <1>1, <1>2, <1>4, SamePhases DEF AbstractStep
<1>5. CASE QuarantineSession(s)
  <2>1. quarantine' = quarantine \cup {s}
    BY <1>5 DEF QuarantineSession
  <2>2. Abstract!Fence(s)
    BY <1>3, <2>1 DEF Abstract!Fence
  <2> QED  BY <2>2 DEF AbstractStep, Abstract!Next
<1>6. CASE ReleaseSessionRecovery(s)
  <2>1. CanRelease(s) /\ quarantine' = quarantine \ {s}
    BY <1>6 DEF ReleaseSessionRecovery
  <2>2. s \in quarantine
    BY <2>1 DEF CanRelease, StoreInv, RecoveryFenced
  <2>3. \A j \in Jobs : SessionOf[j] = s => Phase(j) \notin {"claimed", "executing"}
    BY <2>1, PhaseNow DEF CanRelease
  <2>4. Abstract!Release(s)
    BY <1>3, <2>1, <2>2, <2>3 DEF Abstract!Release, Abstract!Free, Abstract!Holding
  <2> QED  BY <2>4 DEF AbstractStep, Abstract!Next
<1> QED
  BY <1>4, <1>5, <1>6
  DEF EnsureBackendSession, BindBackendThread, CreateLocalOpaqueBackendSession

\* A start loses what was active and withdraws what a waiting intent matched.
LEMMA StartRefines ==
  ASSUME StoreInv, NEW b \in Backends, Start(b)
  PROVE  AbstractStep
<1> DEFINE W == {j \in Jobs : Matched(j) /\ status[j] \in Waiting}
<1>1. cancelRequested \in [Jobs -> BOOLEAN]
  BY DEF StoreInv, TypeOK
<1>2. RecoverAfterRestart
  BY DEF Start
<1>3. ASSUME NEW j \in Jobs
      PROVE  /\ Consumed[j] = IF ~Matched(j) THEN status[j]
                              ELSE IF status[j] \in Waiting THEN "Cancelled" ELSE "Cancelling"
             /\ j \in Lost <=> Consumed[j] \in Active
             /\ Matched(j) => status[j] \in Waiting \cup {"Dispatching", "Running"}
  BY DEF Consumed, Lost, Matched
<1>4. ASSUME NEW j \in Jobs
      PROVE  /\ j \in Lost => status[j] \in Active
             /\ j \in W => j \notin Lost
             /\ Matched(j) <=> j \in W \/ (j \in Lost /\ Matched(j))
  BY <1>3 DEF Active, Waiting
<1>5. ASSUME NEW j \in Jobs
      PROVE  Phase(j)' = IF j \in Lost THEN "ambiguous"
                         ELSE IF j \in W THEN "withdrawn" ELSE Phase(j)
  <2>1. /\ status'[j] = IF j \notin Lost THEN Consumed[j]
                        ELSE IF Consumed[j] = "Cancelling" THEN "CancelUnknown"
                        ELSE "Interrupted"
        /\ gen'[j] = gen[j]
        /\ ledger' = ledger \cup {<<k, gen[k], RestartEvent(k)>> : k \in Lost}
    BY <1>2 DEF RecoverAfterRestart
  <2>2. CASE j \in Lost
    <3>1. status'[j] \in {"CancelUnknown", "Interrupted"}
      BY <2>1, <2>2
    <3> QED  BY <2>2, <3>1 DEF Phase, Waiting, Active
  <2>3. CASE j \in W
    <3>1. j \notin Lost /\ status'[j] = "Cancelled"
      BY <1>3, <1>4, <2>1, <2>3
    <3> QED  BY <2>3, <3>1 DEF Phase, Waiting, Active
  <2>4. CASE j \notin Lost /\ j \notin W
    <3>1. ~Matched(j)
      BY <1>4, <2>4
    <3>2. status'[j] = status[j]
      BY <1>3, <2>1, <2>4, <3>1
    <3>3. <<j, gen[j], "accepted">> \in ledger' <=> <<j, gen[j], "accepted">> \in ledger
      BY <2>1, <2>4
    <3>4. Phase(j)' = Phase(j)
      BY <2>1, <3>2, <3>3, SamePhase
    <3> QED  BY <2>4, <3>4
  <2> QED  BY <2>2, <2>3, <2>4
<1>6. \A j \in Jobs : cancelRequested'[j] <=> cancelRequested[j] \/ Matched(j)
  BY <1>2 DEF RecoverAfterRestart
<1>7. Lost \cup W = {} => UNCHANGED cancelRequested
  <2>1. SUFFICES ASSUME Lost \cup W = {}
                 PROVE  UNCHANGED cancelRequested
    OBVIOUS
  <2>2. \A j \in Jobs : ~Matched(j)
    BY <1>4, <2>1
  <2>3. cancelRequested' = [j \in Jobs |-> cancelRequested[j] \/ Matched(j)]
    BY <1>2 DEF RecoverAfterRestart
  <2> QED  BY <1>1, <2>2, <2>3
<1>8. quarantine' = quarantine \cup {SessionOf[j] : j \in Lost}
  BY <1>2 DEF RecoverAfterRestart
<1>9. /\ \A j \in Lost : j \in Jobs /\ status[j] \in Active
      /\ \A j \in W : j \in Jobs /\ status[j] \in Waiting
  BY <1>4 DEF Lost
<1>10. \A j \in Jobs : /\ cancelRequested[j] \/ j \in W => cancelRequested'[j]
                       /\ cancelRequested'[j] => cancelRequested[j] \/ j \in W \cup Lost
  BY <1>4, <1>6
<1>11. Losing(Lost, W)
  <2> HIDE DEF W
  <2> QED  BY <1>5, <1>7, <1>8, <1>9, <1>10 DEF Losing
<1> QED  BY <1>11, LoseRefines

LEMMA CrashRefines ==
  ASSUME Crash \/ UNCHANGED vars
  PROVE  AbstractStep
<1>1. UNCHANGED <<status, gen, cancelRequested, ledger, quarantine>>
  BY DEF Crash, vars, jobVars
<1>2. \A j \in Jobs : Phase(j)' = Phase(j)
  BY <1>1, SamePhase
<1> QED  BY <1>1, <1>2, SamePhases DEF AbstractStep

LEMMA NextRefines ==
  ASSUME StoreInv, [Next]_vars
  PROVE  AbstractStep
<1>1. CASE UNCHANGED vars
  BY <1>1, CrashRefines
<1>2. CASE Next
  BY <1>2, IntakeRefines, ClaimRefines, HermesRefines, BackendRefines, TurnRefines,
     DisconnectRefines, SessionRefines, StartRefines, CrashRefines
     DEF Next
<1> QED  BY <1>1, <1>2

-----------------------------------------------------------------------------
(* The refinement.                                                         *)

LEMMA InitRefines ==
  ASSUME Init
  PROVE  Abstract!Init
<1>1. \A j \in Jobs : Phase(j) \in {"new", "queued"} /\ ~cancelRequested[j]
  BY DEF Init, Phase, Waiting, Active
<1>2. quarantine = {}
  BY DEF Init
<1> QED  BY <1>1, <1>2 DEF Abstract!Init

\* Whatever its callers, crashes and restarts do, the job store executes each
\* LiViS job at most once, one job of a session at a time, never answers a
\* cancelled job, claims nothing in a fenced session, and lifts a fence only
\* in releaseSessionRecovery: every behaviour of the tables is one that
\* JobExecution allows.
THEOREM StoreKeepsThePromise == Spec => ImplementsJobExecution
<1>1. StoreInv /\ [Next]_vars => [Abstract!Next]_(Abstract!vars)
  BY NextRefines DEF AbstractStep
<1>2. Spec => []StoreInv
  BY TypeCorrect, AttemptsIdentified, LedgerIsTrue, CancellationWins, RecoveryIsFenced, PTL
  DEF StoreInv
<1> QED
  BY <1>1, <1>2, InitRefines, PTL DEF Spec, ImplementsJobExecution, Abstract!Spec

=============================================================================
