---------------------------- MODULE DurableSession ----------------------------
(***************************************************************************)
(* The one session of a native execution backend, as its daemon sees it:   *)
(* db is what the daemon's handlers have the job store record (JobStore    *)
(* models the tables themselves), and runs is the truth outside, how often *)
(* the request of each job reached the program that executes it.  The      *)
(* backends (CodexTurn, NativeTurn, ClaudeTurn) extend this module.        *)
(***************************************************************************)
EXTENDS Naturals

CONSTANT Jobs   \* in the order of their creation

ASSUME JobsAssumption == Jobs \subseteq Nat \ {0}

VARIABLES
  db,     \* status of the jobs, bound turn, quarantine, checkpoint
  runs

Active == {"Dispatching", "Running", "Cancelling"}
Status == {"Queued", "Succeeded", "Failed", "Cancelled", "Interrupted",
           "CancelUnknown"} \cup Active
TurnStatus == {"none", "completed", "failed", "interrupted"}

NoJob == 0

SessionTypeOK ==
  /\ db \in [status : [Jobs -> Status], bound : BOOLEAN, quarantined : BOOLEAN,
             chk : [n : Nat, last : TurnStatus]]
  /\ runs \in [Jobs -> Nat]

SessionInit ==
  /\ db = [status |-> [j \in Jobs |-> "Queued"], bound |-> FALSE,
           quarantined |-> FALSE, chk |-> [n |-> 0, last |-> "none"]]
  /\ runs = [j \in Jobs |-> 0]

-----------------------------------------------------------------------------
WithStatus(d, j, st) == [d EXCEPT !.status[j] = st]
Quarantine(d) == [d EXCEPT !.quarantined = TRUE]
NoActiveJob(d) == \A j \in Jobs : d.status[j] \notin Active

\* The daemon dispatches the oldest job, and one at a time.
Claimable(j) ==
  /\ db.status[j] = "Queued" /\ NoActiveJob(db) /\ ~db.quarantined
  /\ \A k \in Jobs : db.status[k] = "Queued" => j <= k

ClaimForBackendDispatch(d, j) ==
  [d EXCEPT !.status[j] = "Dispatching", !.bound = FALSE]

\* resetUnsentExecution: a concurrent cancel or disconnect went further.
ResetUnsentExecution(d, j) ==
  CASE d.status[j] = "Cancelling" -> WithStatus(d, j, "Cancelled")
    [] d.status[j] = "Dispatching" -> WithStatus(d, j, "Queued")
    [] OTHER -> d

\* markBackendRunning refuses a job that has left these two.
MayAccept(d, j) == d.status[j] \in {"Dispatching", "Cancelling"}
MarkBackendRunning(d, j) ==
  [d EXCEPT !.status[j] = IF @ = "Dispatching" THEN "Running" ELSE @,
            !.bound = TRUE]

CancelUnknown(d, j) ==
  IF d.status[j] = "Cancelling"
  THEN Quarantine(WithStatus(d, j, "CancelUnknown")) ELSE d

\* What the daemon makes of a cancel that was not_sent.
FinishUnsentBackendCancellation(d, j) ==
  IF d.status[j] = "Cancelling" /\ ~d.bound
  THEN WithStatus(d, j, "Cancelled") ELSE CancelUnknown(d, j)

MarkBackendDisconnected(d) ==
  [d EXCEPT
     !.status = [j \in Jobs |-> CASE d.status[j] = "Cancelling" -> "CancelUnknown"
                                  [] d.status[j] \in {"Dispatching", "Running"} ->
                                       "Interrupted"
                                  [] OTHER -> d.status[j]],
     !.quarantined = @ \/ ~NoActiveJob(d)]

\* The fence of checkpointBackendThreadTail.
MayCheckpoint(d, j) == ~d.quarantined /\ d.status[j] \in Active /\ d.bound

-----------------------------------------------------------------------------
Phase(j) ==
  CASE db.status[j] = "Queued" -> "queued"
    [] db.status[j] \in Active -> "claimed"
    [] db.status[j] \in {"Succeeded", "Failed"} -> "answered"
    [] db.status[j] = "Cancelled" -> "withdrawn"
    [] OTHER -> "ambiguous"

Promise == INSTANCE ExecutionPromise WITH
  phase <- [j \in Jobs |-> Phase(j)], fenced <- db.quarantined
=============================================================================
