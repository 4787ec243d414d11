------------------------------ MODULE JobStore ------------------------------
(***************************************************************************)
(* The durable tables of src/src/state/store.ts that decide whether a job  *)
(* may be executed: jobs, backend_sessions, session_quarantine,            *)
(* execution_attempt_events, pending_cancels, and which result an outbox   *)
(* row holds.  Every transaction of JobStore is one action.  The daemon    *)
(* calls them with whatever attempt its in-memory callbacks still hold, so *)
(* a call may name any attempt the job ever had: the tables alone must     *)
(* fence the stale ones.                                                   *)
(*                                                                         *)
(* A lease is a UUID drawn for each claim, and a claim is the only step    *)
(* that increments run_generation; the model names a lease by the          *)
(* generation it was drawn for, and 0 stands for NULL.                     *)
(***************************************************************************)
EXTENDS Naturals, FiniteSets

CONSTANTS
  Jobs, Sessions, SessionOf,
  Durable,         \* the backends with a backend_sessions row: codex, claude
  Hermes,          \* the backend without one
  Executions,      \* connector ids and app-server process ids
  Turns,           \* provider turn ids
  MaxGeneration,   \* bound: claims of one job
  MaxIntents,      \* PENDING_CANCEL_MAX_ROWS
  NoJob, NoExecution, NoTurn, NoBackend

Backends == Durable \cup {Hermes}

ASSUME StoreAssumption ==
  /\ SessionOf \in [Jobs -> Sessions]
  /\ Hermes \notin Durable
  /\ NoBackend \notin Backends
  /\ NoJob \notin Jobs
  /\ NoExecution \notin Executions
  /\ NoTurn \notin Turns
  /\ MaxGeneration \in Nat
  /\ MaxIntents \in Nat

VARIABLES
  up,          \* the daemon is running
  backend,     \* the backend kind it was configured with
  status, target, lease, execution, gen, cancelRequested,   \* jobs
  outbox,      \* the result an outbox row holds
  bsession,    \* backend_sessions
  quarantine,  \* session_quarantine
  ledger,      \* execution_attempt_events
  intent       \* pending_cancels and their age against the TTL

jobVars == <<status, target, lease, execution, gen, cancelRequested>>
vars == <<up, backend, jobVars, outbox, bsession, quarantine, ledger, intent>>

JobStatus == {"Absent", "Received", "Acked", "Dispatching", "Running",
              "Cancelling", "Succeeded", "Cancelled", "CancelUnknown",
              "Interrupted", "Failed", "Rejected"}
Waiting == {"Received", "Acked"}
Active == {"Dispatching", "Running", "Cancelling"}
Terminal == {"Succeeded", "Cancelled", "CancelUnknown", "Interrupted",
             "Failed", "Rejected"}

TerminalEvent == {"succeeded", "failed", "cancelled_not_sent",
                  "cancel_unknown", "interrupted"}
AttemptEvent == {"reserved", "accepted", "not_sent"} \cup TerminalEvent

Row == [thread : {"absent", "unbound", "bound"},
        job : Jobs \cup {NoJob}, attempt : Nat,
        turn : Turns \cup {NoTurn}, recovery : BOOLEAN]
NoRow == [thread |-> "absent", job |-> NoJob, attempt |-> 0,
          turn |-> NoTurn, recovery |-> FALSE]

TypeOK ==
  /\ up \in BOOLEAN
  /\ backend \in Backends
  /\ status \in [Jobs -> JobStatus]
  /\ target \in [Jobs -> Backends \cup {NoBackend}]
  /\ lease \in [Jobs -> Nat]
  /\ execution \in [Jobs -> Executions \cup {NoExecution}]
  /\ gen \in [Jobs -> Nat]
  /\ cancelRequested \in [Jobs -> BOOLEAN]
  /\ outbox \in [Jobs -> {"none", "success", "failure", "refusal"}]
  /\ bsession \in [Durable -> [Sessions -> Row]]
  /\ quarantine \subseteq Sessions
  /\ ledger \subseteq Jobs \X Nat \X AttemptEvent
  /\ intent \in [Jobs -> {"none", "fresh", "stale"}]

\* The database an earlier daemon left: jobs that wait, and intents, which
\* the versions before the cap neither counted nor matched.
Init ==
  /\ up = FALSE
  /\ backend = Hermes
  /\ status \in [Jobs -> {"Absent", "Received"}]
  /\ target = [j \in Jobs |-> IF status[j] = "Absent" THEN NoBackend ELSE Hermes]
  /\ lease = [j \in Jobs |-> 0]
  /\ execution = [j \in Jobs |-> NoExecution]
  /\ gen = [j \in Jobs |-> 0]
  /\ cancelRequested = [j \in Jobs |-> FALSE]
  /\ outbox = [j \in Jobs |-> "none"]
  /\ bsession = [b \in Durable |-> [s \in Sessions |-> NoRow]]
  /\ quarantine = {}
  /\ ledger = {}
  /\ intent \in [Jobs -> {"none", "fresh"}]

-----------------------------------------------------------------------------
(* The conditions the SQL statements share.                                *)

Exists(j) == status[j] # "Absent"

\* (mutant) a job that is being cancelled no longer counts
OthersActive_ForgetsCancelling(j) ==
  \E k \in Jobs \ {j} : /\ SessionOf[k] = SessionOf[j]
                       /\ status[k] \in {"Dispatching", "Running"}

OthersActive(j) ==
  \E k \in Jobs \ {j} : SessionOf[k] = SessionOf[j] /\ status[k] \in Active

\* (mutant) the NOT EXISTS clause is missing
Quarantined_Ignored(j) == FALSE

Quarantined(j) == SessionOf[j] \in quarantine

BackendRow(b, j) == bsession[b][SessionOf[j]]

\* The EXISTS clause by which a durable call proves it owns the session.
OwnsSession(b, j, a) ==
  /\ BackendRow(b, j).job = j
  /\ BackendRow(b, j).attempt = a
  /\ ~BackendRow(b, j).recovery

\* The call's backend, lease and generation are those of the row.
OwnsJob(b, j, a) == target[j] = b /\ lease[j] = a /\ gen[j] = a /\ a > 0

\* appendExecutionAttemptEventLocked inserts, or it throws and the whole
\* transaction is rolled back: the attempt has no lease, no execution or no
\* session metadata, or the event is already there (UNIQUE).
HasAttemptContext(j) ==
  /\ lease[j] > 0
  /\ execution[j] # NoExecution
  /\ target[j] \in Durable => BackendRow(target[j], j).thread = "bound"

CanAppend(j, e) == HasAttemptContext(j) /\ <<j, gen[j], e>> \notin ledger

AppendEvent(j, e) ==
  /\ CanAppend(j, e)
  /\ ledger' = ledger \cup {<<j, gen[j], e>>}

Insert(j, result) ==
  outbox' = [outbox EXCEPT ![j] = IF @ = "none" THEN result ELSE @]

SetStatus(j, st) == status' = [status EXCEPT ![j] = st]

\* The active columns of a backend_sessions row become NULL.
ClearActive_TurnOnly(b, j) ==   \* (mutant)
  bsession' = [bsession EXCEPT ![b][SessionOf[j]] = [@ EXCEPT !.turn = NoTurn]]

ClearActive(b, j) ==
  bsession' = [bsession EXCEPT ![b][SessionOf[j]] =
                 [@ EXCEPT !.job = NoJob, !.attempt = 0, !.turn = NoTurn]]

\* The attempts of the jobs in K are lost: their sessions are quarantined and
\* each of them is settled by its status.
LostEvent_NotListed(j) ==   \* (mutant) not an event_type of the schema
  IF status[j] = "Cancelling" THEN "cancelled" ELSE "interrupted"

LostEvent(j) == IF status[j] = "Cancelling" THEN "cancel_unknown" ELSE "interrupted"

SettleLost_Unfenced(K) ==   \* (mutant) the session is not quarantined
  /\ \A j \in K : CanAppend(j, LostEvent(j))
  /\ status' = [j \in Jobs |-> IF j \notin K THEN status[j]
                               ELSE IF status[j] = "Cancelling"
                               THEN "CancelUnknown" ELSE "Interrupted"]
  /\ ledger' = ledger \cup {<<j, gen[j], LostEvent(j)>> : j \in K}
  /\ UNCHANGED quarantine

SettleLost(K) ==
  /\ \A j \in K : CanAppend(j, LostEvent(j))
  /\ status' = [j \in Jobs |-> IF j \notin K THEN status[j]
                               ELSE IF status[j] = "Cancelling"
                               THEN "CancelUnknown" ELSE "Interrupted"]
  /\ ledger' = ledger \cup {<<j, gen[j], LostEvent(j)>> : j \in K}
  /\ quarantine' = quarantine \cup {SessionOf[j] : j \in K}

\* pruneExpiredPendingCancelsLocked, which every write of the table runs first.
Prune == [k \in Jobs |-> IF intent[k] = "stale" THEN "none" ELSE intent[k]]

-----------------------------------------------------------------------------
(* Intake and cancellation.                                                *)

\* A job row is bound to the configured backend when it is first inserted;
\* a waiting intent cancels it in the same transaction.  A redelivery
\* inserts nothing.
Ingest(j) ==
  /\ up
  /\ LET inserted == ~Exists(j)
         now      == IF inserted THEN "Received" ELSE status[j]
         hit      == intent[j] = "fresh" /\ now \in Waiting \cup {"Dispatching", "Running"}
     IN /\ SetStatus(j, IF ~hit THEN now
                        ELSE IF now \in Waiting THEN "Cancelled" ELSE "Cancelling")
        /\ cancelRequested' = [cancelRequested EXCEPT ![j] = @ \/ hit]
        /\ target' = [target EXCEPT ![j] = IF inserted THEN backend ELSE @]
        /\ intent' = [Prune EXCEPT ![j] = "none"]
  /\ UNCHANGED <<up, backend, lease, execution, gen, outbox, bsession,
                 quarantine, ledger>>

MarkAcked(j) ==
  /\ up
  /\ status[j] = "Received"
  /\ SetStatus(j, "Acked")
  /\ UNCHANGED <<up, backend, target, lease, execution, gen, cancelRequested,
                 outbox, bsession, quarantine, ledger, intent>>

\* The node that sent the job is not authorized.
Reject(j) ==
  /\ up
  /\ status[j] \in Waiting
  /\ SetStatus(j, "Rejected")
  /\ Insert(j, "refusal")
  /\ UNCHANGED <<up, backend, target, lease, execution, gen, cancelRequested,
                 bsession, quarantine, ledger, intent>>

CancelExistingJob(j) ==
  /\ Exists(j)
  /\ LET hit == status[j] \in Waiting \cup {"Dispatching", "Running"}
     IN /\ SetStatus(j, IF ~hit THEN status[j]
                        ELSE IF status[j] \in Waiting THEN "Cancelled"
                        ELSE "Cancelling")
        /\ cancelRequested' = [cancelRequested EXCEPT ![j] = @ \/ hit]
  /\ intent' = [Prune EXCEPT ![j] = "none"]

HasRoom_OffByOne ==   \* (mutant)
  Cardinality({k \in Jobs : Prune[k] = "fresh"}) <= MaxIntents

HasRoom == Cardinality({k \in Jobs : Prune[k] = "fresh"}) < MaxIntents

\* The cancel of a job not seen yet is kept, or refreshed; a full table
\* refuses it (PendingCancelCapacityError rolls the transaction back).
KeepIntent(j) ==
  /\ ~Exists(j)
  /\ Prune[j] = "fresh" \/ HasRoom
  /\ intent' = [Prune EXCEPT ![j] = "fresh"]
  /\ UNCHANGED <<status, cancelRequested>>

RequestCancel(j) ==
  /\ up
  /\ CancelExistingJob(j) \/ KeepIntent(j)
  /\ UNCHANGED <<up, backend, target, lease, execution, gen, outbox, bsession,
                 quarantine, ledger>>

\* PENDING_CANCEL_TTL_MS passes for an intent.
ExpireIntent(j) ==
  /\ intent[j] = "fresh"
  /\ intent' = [intent EXCEPT ![j] = "stale"]
  /\ UNCHANGED <<up, backend, jobVars, outbox, bsession, quarantine, ledger>>

-----------------------------------------------------------------------------
(* Claims.                                                                 *)

Claimable(j) ==
  /\ up
  /\ status[j] \in Waiting
  /\ target[j] = backend
  /\ ~cancelRequested[j]
  /\ ~OthersActive(j)
  /\ ~Quarantined(j)
  /\ gen[j] < MaxGeneration

\* (mutant) connector_id is not written
Reserve_WithoutExecution(j, e) ==
  /\ SetStatus(j, "Dispatching")
  /\ gen' = [gen EXCEPT ![j] = @ + 1]
  /\ lease' = [lease EXCEPT ![j] = gen[j] + 1]
  /\ ledger' = ledger \cup {<<j, gen[j] + 1, "reserved">>}
  /\ UNCHANGED execution

\* The columns a claim writes and its "reserved" event.
Reserve(j, e) ==
  /\ SetStatus(j, "Dispatching")
  /\ execution' = [execution EXCEPT ![j] = e]
  /\ gen' = [gen EXCEPT ![j] = @ + 1]
  /\ lease' = [lease EXCEPT ![j] = gen[j] + 1]
  /\ ledger' = ledger \cup {<<j, gen[j] + 1, "reserved">>}

ClaimForDispatch(j, e) ==
  /\ backend = Hermes
  /\ Claimable(j)
  /\ Reserve(j, e)
  /\ UNCHANGED <<up, backend, target, cancelRequested, outbox, bsession,
                 quarantine, intent>>

ClaimForBackendDispatch(j, e) ==
  /\ backend \in Durable
  /\ Claimable(j)
  /\ BackendRow(backend, j).thread = "bound"
  /\ BackendRow(backend, j).job = NoJob
  /\ ~BackendRow(backend, j).recovery
  /\ Reserve(j, e)
  /\ bsession' = [bsession EXCEPT ![backend][SessionOf[j]] =
                    [@ EXCEPT !.job = j, !.attempt = gen[j] + 1]]
  /\ UNCHANGED <<up, backend, target, cancelRequested, outbox, quarantine,
                 intent>>

-----------------------------------------------------------------------------
(* Hermes attempts, fenced by the lease alone.                             *)

HermesCall(j, a) == up /\ target[j] = Hermes /\ lease[j] = a /\ a > 0

Unsent_EvenRunning(j) == status[j] \in {"Dispatching", "Running"}   \* (mutant)

Unsent(j) == status[j] = "Dispatching"

\* lease_id and connector_id are cleared once the event is written.
ResetUnsentDispatch(j, a) ==
  /\ HermesCall(j, a)
  /\ Unsent(j)
  /\ AppendEvent(j, "not_sent")
  /\ SetStatus(j, "Acked")
  /\ lease' = [lease EXCEPT ![j] = 0]
  /\ execution' = [execution EXCEPT ![j] = NoExecution]
  /\ UNCHANGED <<up, backend, target, gen, cancelRequested, outbox, bsession,
                 quarantine, intent>>

MarkRunning(j, a, e) ==
  /\ HermesCall(j, a)
  /\ status[j] = "Dispatching"
  /\ ~cancelRequested[j]
  /\ AppendEvent(j, "accepted")
  /\ SetStatus(j, "Running")
  /\ execution' = [execution EXCEPT ![j] = e]
  /\ UNCHANGED <<up, backend, target, lease, gen, cancelRequested, outbox,
                 bsession, quarantine, intent>>

Finishable_Cancelling(j) == status[j] \in Active   \* (mutant)
Finishable_Ended(j) == ~cancelRequested[j]         \* (mutant)

Finishable(j) == status[j] \in {"Dispatching", "Running"} /\ ~cancelRequested[j]

FinishHermes(j, a, st, event, result) ==
  /\ HermesCall(j, a)
  /\ Finishable(j)
  /\ AppendEvent(j, event)
  /\ SetStatus(j, st)
  /\ Insert(j, result)
  /\ UNCHANGED <<up, backend, target, lease, execution, gen, cancelRequested,
                 bsession, quarantine, intent>>

FinishSuccess(j, a) == FinishHermes(j, a, "Succeeded", "succeeded", "success")
FinishFailure(j, a) == FinishHermes(j, a, "Failed", "failed", "failure")

MarkCancelUnknown(j, a) ==
  /\ HermesCall(j, a)
  /\ status[j] = "Cancelling"
  /\ AppendEvent(j, "cancel_unknown")
  /\ SetStatus(j, "CancelUnknown")
  /\ cancelRequested' = [cancelRequested EXCEPT ![j] = TRUE]
  /\ quarantine' = quarantine \cup {SessionOf[j]}
  /\ UNCHANGED <<up, backend, target, lease, execution, gen, outbox, bsession,
                 intent>>

FinishHermesCancellationNotStarted(j, a) ==
  /\ HermesCall(j, a)
  /\ status[j] = "Cancelling"
  /\ cancelRequested[j]
  /\ AppendEvent(j, "cancelled_not_sent")
  /\ SetStatus(j, "Cancelled")
  /\ UNCHANGED <<up, backend, target, lease, execution, gen, cancelRequested,
                 outbox, bsession, quarantine, intent>>

\* Every attempt that ran over connector e is settled; the first UPDATE
\* quarantines the sessions, the others split the jobs by status.
MarkConnectorDisconnected(e) ==
  LET lost == {j \in Jobs : /\ execution[j] = e
                            /\ target[j] = Hermes
                            /\ status[j] \in Active}
  IN /\ up
     /\ lost # {}
     /\ SettleLost(lost)
     /\ UNCHANGED <<up, backend, target, lease, execution, gen,
                    cancelRequested, outbox, bsession, intent>>

-----------------------------------------------------------------------------
(* Attempts of the durable backends, fenced by job, lease, generation and  *)
(* turn in backend_sessions.                                               *)

BackendCall(j, a) ==
  /\ up
  /\ backend \in Durable
  /\ OwnsJob(backend, j, a)
  /\ OwnsSession(backend, j, a)

BoundTurn(j) == BackendRow(backend, j).turn

ResetUnsentBackendDispatch(j, a) ==
  /\ BackendCall(j, a)
  /\ status[j] = "Dispatching"
  /\ BoundTurn(j) = NoTurn
  /\ AppendEvent(j, "not_sent")
  /\ SetStatus(j, "Acked")
  /\ lease' = [lease EXCEPT ![j] = 0]
  /\ execution' = [execution EXCEPT ![j] = NoExecution]
  /\ ClearActive(backend, j)
  /\ UNCHANGED <<up, backend, target, gen, cancelRequested, outbox,
                 quarantine, intent>>

FinishUnsentBackendCancellation(j, a) ==
  /\ BackendCall(j, a)
  /\ status[j] = "Cancelling"
  /\ cancelRequested[j]
  /\ BoundTurn(j) = NoTurn
  /\ AppendEvent(j, "cancelled_not_sent")
  /\ SetStatus(j, "Cancelled")
  /\ ClearActive(backend, j)
  /\ UNCHANGED <<up, backend, target, lease, execution, gen, cancelRequested,
                 outbox, quarantine, intent>>

\* The turn id of an accepted request is bound even when a cancel came first;
\* a repeated notification changes nothing.
MarkBackendRunning(j, a, t) ==
  /\ BackendCall(j, a)
  /\ BoundTurn(j) = NoTurn
  /\ \/ status[j] = "Dispatching" /\ ~cancelRequested[j] /\ SetStatus(j, "Running")
     \/ status[j] = "Cancelling" /\ cancelRequested[j] /\ UNCHANGED status
  /\ AppendEvent(j, "accepted")
  /\ bsession' = [bsession EXCEPT ![backend][SessionOf[j]] = [@ EXCEPT !.turn = t]]
  /\ UNCHANGED <<up, backend, target, lease, execution, gen, cancelRequested,
                 outbox, quarantine, intent>>

FinishBackendWithOutbox(j, a, t, st, event, result, fence) ==
  /\ BackendCall(j, a)
  /\ status[j] = "Running"
  /\ ~cancelRequested[j]
  /\ BoundTurn(j) = t
  /\ AppendEvent(j, event)
  /\ SetStatus(j, st)
  /\ Insert(j, result)
  /\ quarantine' = quarantine \cup fence
  /\ ClearActive(backend, j)
  /\ UNCHANGED <<up, backend, target, lease, execution, gen, cancelRequested,
                 intent>>

FinishBackendSuccess(j, a, t) ==
  FinishBackendWithOutbox(j, a, t, "Succeeded", "succeeded", "success", {})
FinishBackendFailure(j, a, t) ==
  FinishBackendWithOutbox(j, a, t, "Failed", "failed", "failure", {})
FinishBackendCredentialFailure(j, a, t) ==
  FinishBackendWithOutbox(j, a, t, "Failed", "failed", "failure", {SessionOf[j]})

\* t is the turn the caller knows, NoTurn when it knows none.
MarkBackendRecoveryTerminal(j, a, t, from, st, event) ==
  /\ BackendCall(j, a)
  /\ status[j] \in from
  /\ BoundTurn(j) \in {t, NoTurn}
  /\ AppendEvent(j, event)
  /\ SetStatus(j, st)
  /\ cancelRequested' = [cancelRequested EXCEPT ![j] = @ \/ st = "CancelUnknown"]
  /\ quarantine' = quarantine \cup {SessionOf[j]}
  /\ bsession' = [bsession EXCEPT ![backend][SessionOf[j]] =
                    [@ EXCEPT !.turn = t, !.recovery = TRUE]]
  /\ UNCHANGED <<up, backend, target, lease, execution, gen, outbox, intent>>

MarkBackendCancelUnknown(j, a, t) ==
  MarkBackendRecoveryTerminal(j, a, t, {"Cancelling"}, "CancelUnknown",
                              "cancel_unknown")
MarkBackendInterrupted(j, a, t) ==
  MarkBackendRecoveryTerminal(j, a, t, {"Dispatching", "Running"},
                              "Interrupted", "interrupted")

\* The app-server process e is gone.
MarkBackendDisconnected(e) ==
  LET lost == {j \in Jobs : /\ execution[j] = e
                            /\ OwnsJob(backend, j, gen[j])
                            /\ OwnsSession(backend, j, gen[j])
                            /\ status[j] \in Active}
  IN /\ up
     /\ backend \in Durable
     /\ lost # {}
     /\ SettleLost(lost)
     /\ bsession' = [bsession EXCEPT ![backend] =
                       [s \in Sessions |->
                          IF \E j \in lost : SessionOf[j] = s
                          THEN [@[s] EXCEPT !.recovery = TRUE] ELSE @[s]]]
     /\ cancelRequested' = [j \in Jobs |-> \/ cancelRequested[j]
                                           \/ j \in lost /\ status[j] = "Cancelling"]
     /\ UNCHANGED <<up, backend, target, lease, execution, gen, outbox, intent>>

-----------------------------------------------------------------------------
(* Sessions.                                                               *)

EnsureBackendSession(s) ==
  /\ up
  /\ backend \in Durable
  /\ bsession[backend][s].thread = "absent"
  /\ bsession' = [bsession EXCEPT ![backend][s] = [NoRow EXCEPT !.thread = "unbound"]]
  /\ UNCHANGED <<up, backend, jobVars, outbox, quarantine, ledger, intent>>

BindBackendThread(s) ==
  /\ up
  /\ backend \in Durable
  /\ bsession[backend][s].thread = "unbound"
  /\ ~bsession[backend][s].recovery
  /\ s \notin quarantine
  /\ bsession' = [bsession EXCEPT ![backend][s] = [@ EXCEPT !.thread = "bound"]]
  /\ UNCHANGED <<up, backend, jobVars, outbox, quarantine, ledger, intent>>

CreateLocalOpaqueBackendSession(s) ==
  /\ up
  /\ backend \in Durable
  /\ s \notin quarantine
  /\ bsession[backend][s].thread = "absent"
  /\ bsession' = [bsession EXCEPT ![backend][s] = [NoRow EXCEPT !.thread = "bound"]]
  /\ UNCHANGED <<up, backend, jobVars, outbox, quarantine, ledger, intent>>

\* A backend that cannot trust its session any more fences it.
QuarantineSession(s) ==
  /\ up
  /\ backend \in Durable
  /\ quarantine' = quarantine \cup {s}
  /\ UNCHANGED <<up, backend, jobVars, outbox, bsession, ledger, intent>>

RowsOf(s) == {b \in Durable : bsession[b][s].thread # "absent"}
RecoveryRows(s) == {b \in Durable : bsession[b][s].recovery}

\* The evidence of a recovery row: a finished attempt that it still names.
Releasable(b, s) ==
  \E j \in Jobs :
    /\ SessionOf[j] = s
    /\ bsession[b][s].job = j
    /\ OwnsJob(b, j, bsession[b][s].attempt)
    /\ status[j] \in Terminal

\* Either every recovery row is released with its evidence, or a quarantine
\* without recovery retires the idle rows of the session.
CanRelease(s) ==
  /\ \A j \in Jobs : SessionOf[j] = s => status[j] \notin Active
  /\ IF RecoveryRows(s) # {}
     THEN /\ \A b \in RecoveryRows(s) : Releasable(b, s)
          /\ \A b \in Durable \ RecoveryRows(s) : bsession[b][s].job = NoJob
     ELSE /\ s \in quarantine
          /\ \A b \in Durable : bsession[b][s].job = NoJob

ReleaseSessionRecovery(s) ==
  /\ CanRelease(s)
  /\ LET retired == IF RecoveryRows(s) # {} THEN RecoveryRows(s) ELSE RowsOf(s)
     IN bsession' = [b \in Durable |->
                       IF b \in retired THEN [bsession[b] EXCEPT ![s] = NoRow]
                       ELSE bsession[b]]
  /\ quarantine' = quarantine \ {s}
  /\ UNCHANGED <<up, backend, jobVars, outbox, ledger, intent>>

-----------------------------------------------------------------------------
(* The daemon's life.                                                      *)

\* What is left of the intents: those of jobs still unknown, the newest
\* MaxIntents of them.  The model keeps no order among fresh intents, so any
\* subset of the right size may be the newest.
Survivors ==
  LET future == {k \in Jobs : Prune[k] = "fresh" /\ ~Exists(k)}
  IN {kept \in SUBSET future :
        Cardinality(kept) = IF Cardinality(future) > MaxIntents
                            THEN MaxIntents ELSE Cardinality(future)}

NeedsRecovery_EveryRow(b, s) == bsession[b][s].thread = "bound"   \* (mutant)

NeedsRecovery(b, s) == bsession[b][s].recovery \/ bsession[b][s].job # NoJob

\* Waiting intents are matched first, jobs inserted meanwhile included.
Matched(j) ==
  Prune[j] = "fresh" /\ status[j] \in Waiting \cup {"Dispatching", "Running"}

Consumed == [j \in Jobs |-> IF ~Matched(j) THEN status[j]
                            ELSE IF status[j] \in Waiting THEN "Cancelled"
                            ELSE "Cancelling"]

Lost == {j \in Jobs : Consumed[j] \in Active}

RestartEvent(j) ==
  IF Consumed[j] = "Cancelling" THEN "cancel_unknown" ELSE "interrupted"

RecoverAfterRestart ==
  /\ \A j \in Lost : CanAppend(j, RestartEvent(j))
  /\ status' = [j \in Jobs |-> IF j \notin Lost THEN Consumed[j]
                               ELSE IF Consumed[j] = "Cancelling"
                               THEN "CancelUnknown" ELSE "Interrupted"]
  /\ cancelRequested' = [j \in Jobs |-> cancelRequested[j] \/ Matched(j)]
  /\ ledger' = ledger \cup {<<j, gen[j], RestartEvent(j)>> : j \in Lost}
  /\ quarantine' = quarantine \cup {SessionOf[j] : j \in Lost}
  /\ bsession' = [b \in Durable |-> [s \in Sessions |->
                    [bsession[b][s] EXCEPT !.recovery = NeedsRecovery(b, s)]]]
  /\ \E kept \in Survivors :
       intent' = [k \in Jobs |-> IF k \in kept THEN "fresh" ELSE "none"]
  /\ UNCHANGED <<target, lease, execution, gen, outbox>>

\* The configured backend may change between two runs, but not under jobs
\* that are still bound to another one.
Start(b) ==
  /\ ~up
  /\ \A j \in Jobs : status[j] \in Waiting \cup Active => target[j] = b
  /\ up' = TRUE
  /\ backend' = b
  /\ RecoverAfterRestart

\* A crash, or a stop: nothing but the tables survives.
Crash ==
  /\ up
  /\ up' = FALSE
  /\ UNCHANGED <<backend, jobVars, outbox, bsession, quarantine, ledger, intent>>

-----------------------------------------------------------------------------
Next ==
  \/ \E j \in Jobs :
       \/ Ingest(j) \/ MarkAcked(j) \/ Reject(j) \/ RequestCancel(j) \/ ExpireIntent(j)
       \/ \E e \in Executions : ClaimForDispatch(j, e) \/ ClaimForBackendDispatch(j, e)
       \/ \E a \in 1..gen[j] :
            \/ ResetUnsentDispatch(j, a)
            \/ \E e \in Executions : MarkRunning(j, a, e)
            \/ FinishSuccess(j, a) \/ FinishFailure(j, a)
            \/ MarkCancelUnknown(j, a)
            \/ FinishHermesCancellationNotStarted(j, a)
            \/ ResetUnsentBackendDispatch(j, a)
            \/ FinishUnsentBackendCancellation(j, a)
            \/ \E t \in Turns :
                 \/ MarkBackendRunning(j, a, t)
                 \/ FinishBackendSuccess(j, a, t)
                 \/ FinishBackendFailure(j, a, t)
                 \/ FinishBackendCredentialFailure(j, a, t)
            \/ \E t \in Turns \cup {NoTurn} :
                 MarkBackendCancelUnknown(j, a, t) \/ MarkBackendInterrupted(j, a, t)
  \/ \E e \in Executions : MarkConnectorDisconnected(e) \/ MarkBackendDisconnected(e)
  \/ \E s \in Sessions :
       \/ EnsureBackendSession(s) \/ BindBackendThread(s)
       \/ CreateLocalOpaqueBackendSession(s)
       \/ QuarantineSession(s) \/ ReleaseSessionRecovery(s)
  \/ \E b \in Backends : Start(b)
  \/ Crash

Spec == Init /\ [][Next]_vars

-----------------------------------------------------------------------------
(* Properties.                                                             *)

\* One job at a time holds a session, whichever backend executes it: the
\* NOT EXISTS clause of both claims, against every other transaction.
OneActivePerSession ==
  \A j, k \in Jobs :
    status[j] \in Active /\ status[k] \in Active /\ SessionOf[j] = SessionOf[k]
      => j = k

\* The active columns of backend_sessions and the jobs table name the same
\* attempt: a durable job is active exactly when its session row holds it
\* without recovery, and a row in recovery holds an attempt whose outcome is
\* unknown.
RowMatchesJob(b, s) ==
  LET r == bsession[b][s]
  IN /\ r.recovery => r.job # NoJob
     /\ r.job # NoJob =>
          /\ SessionOf[r.job] = s
          /\ r.thread = "bound"
          /\ OwnsJob(b, r.job, r.attempt)
          /\ status[r.job] \in IF r.recovery THEN {"CancelUnknown", "Interrupted"}
                               ELSE Active

FenceAgreement ==
  /\ \A b \in Durable, s \in Sessions : RowMatchesJob(b, s)
  /\ \A j \in Jobs :
       status[j] \in Active /\ target[j] \in Durable =>
         OwnsSession(target[j], j, gen[j])

\* A session whose last execution has an unknown end stays quarantined, and
\* one backend at most has such an execution in it.
RecoveryFenced ==
  \A s \in Sessions :
    /\ RecoveryRows(s) # {} => s \in quarantine
    /\ Cardinality(RecoveryRows(s)) <= 1

\* What the audit ledger must say of the last attempt of a job.
LedgerOf(j, g) == {e \in AttemptEvent : <<j, g, e>> \in ledger}
Returned == {"reserved", "not_sent"}
Settled(e) == {{"reserved", e}, {"reserved", "accepted", e}}
LedgerFor(st) ==
  CASE st \in Waiting \cup {"Rejected"} -> {Returned}
    [] st = "Dispatching"   -> {{"reserved"}}
    [] st = "Running"       -> {{"reserved", "accepted"}}
    [] st = "Cancelling"    -> {{"reserved"}, {"reserved", "accepted"}}
    [] st = "Succeeded"     -> Settled("succeeded")
    [] st = "Failed"        -> Settled("failed")
    [] st = "CancelUnknown" -> Settled("cancel_unknown")
    [] st = "Interrupted"   -> Settled("interrupted")
    [] st = "Cancelled"     -> Settled("cancelled_not_sent") \cup {Returned}
    [] OTHER                -> {}

\* The append-only ledger and the job row agree after every transaction.
\* In particular an attempt is superseded only if it was proven unsent, so no
\* accepted execution is ever followed by another attempt.
LedgerTellsStatus ==
  \A j \in Jobs :
    /\ \A g \in 1..gen[j] :
         LedgerOf(j, g) \in IF g < gen[j] THEN {Returned} ELSE LedgerFor(status[j])
    /\ \A row \in ledger : row[1] = j => row[2] \in 1..gen[j]

\* Cancellation wins: from the moment a cancel is accepted the job has no
\* result, and every job that ended with a result has exactly that result.
CancelWins ==
  \A j \in Jobs :
    /\ cancelRequested[j] <=> status[j] \in {"Cancelling", "Cancelled", "CancelUnknown"}
    /\ outbox[j] = CASE status[j] = "Succeeded" -> "success"
                     [] status[j] = "Failed"    -> "failure"
                     [] status[j] = "Rejected"  -> "refusal"
                     [] OTHER                   -> "none"

\* A crash in any state leaves tables that the next start can recover: no
\* active attempt lacks the context its ledger event needs, nor has that
\* event already, either of which would roll recoverAfterRestart back.
RestartCanRecover ==
  \A j \in Jobs : status[j] \in Active => CanAppend(j, LostEvent(j))

\* A quarantined session without running jobs can be released: the evidence
\* the release demands is never lost.
OperatorCanRelease ==
  \A s \in quarantine :
    (\A j \in Jobs : SessionOf[j] = s => status[j] \notin Active) => CanRelease(s)

\* Once the daemon runs, an intent is only kept for a job not seen yet, and
\* there are no more of them than the cap.
IntentsAreFuture ==
  up => /\ \A j \in Jobs : intent[j] # "none" => ~Exists(j)
        /\ Cardinality({j \in Jobs : intent[j] # "none"}) <= MaxIntents

\* No transaction, whatever stale attempt calls it, moves a job that has
\* ended or replaces the result it ended with.
SettledForever ==
  [][\A j \in Jobs : status[j] \in Terminal =>
       status'[j] = status[j] /\ outbox'[j] = outbox[j]]_vars

-----------------------------------------------------------------------------
(* The refinement.                                                         *)

Accepted(j) == <<j, gen[j], "accepted">> \in ledger

Phase(j) ==
  CASE status[j] = "Absent" -> "new"
    [] status[j] \in Waiting -> "queued"
    [] status[j] \in Active -> IF Accepted(j) THEN "executing" ELSE "claimed"
    [] status[j] \in {"Succeeded", "Failed", "Rejected"} -> "answered"
    [] status[j] = "Cancelled" -> "withdrawn"
    [] OTHER -> "ambiguous"

Abstract == INSTANCE JobExecution WITH
  phase     <- [j \in Jobs |-> Phase(j)],
  cancelled <- {j \in Jobs : cancelRequested[j]},
  fenced    <- quarantine

\* Every transaction is a step of the abstract promise or invisible to it:
\* at most one begun execution per job, one job at a time per session, no
\* answer after a cancel, no claim in a fenced session, and no end to the
\* fence but the operator's.
ImplementsJobExecution == Abstract!Spec
=============================================================================
