------------------------------ MODULE ClaudeTurn ------------------------------
(***************************************************************************)
(* The Claude Code backend: every job is a child process of its own, fed   *)
(* with the request over stdin and read as a stream of lines until it      *)
(* exits.  As in NativeTurn an action is what an activity does up to its   *)
(* next await.  A signal is no step: the child may exit at any time, and   *)
(* need not when it is told to.                                            *)
(***************************************************************************)
EXTENDS DurableSession, Sequences

VARIABLES
  child,    \* the process: does it run, its input, what it said, its exit code
  out,      \* lines in its stdout that are not consumed yet
  stream,   \* consumeClaudeNativeStream
  att,      \* the last attempt; this.active while att.active
  failed,   \* the backend failed for good
  pc        \* where each activity waits

vars == <<child, out, stream, att, failed, pc, db, runs>>

Line == {"init", "success", "failure", "unexpected"}

Attempt == [job : Jobs \cup {NoJob}, active : BOOLEAN, turn : BOOLEAN,
            accepted : BOOLEAN, cancel : BOOLEAN, terminal : BOOLEAN,
            deadline : BOOLEAN]

NewAttempt(j, active) ==
  [job |-> j, active |-> active, turn |-> FALSE, accepted |-> FALSE,
   cancel |-> FALSE, terminal |-> FALSE, deadline |-> FALSE]

NoChild == [up |-> FALSE, input |-> "none", told |-> "nothing", exit |-> "none"]
NoStream == [seen |-> "nothing", over |-> "unopened"]

Closing == {"caught", "cancelled", "stopped", "failing"}
Control == [dispatch : {"idle", "assert", "context"},
            run : {"idle", "scheduled", "sending", "waiting", "confirm",
                   "reporting"} \cup Closing,
            start : {"idle", "preparing", "handover", "done", "failed"},
            stop : {"no", "pending", "active", "stopped"}]

TypeOK ==
  /\ SessionTypeOK
  /\ child \in [up : BOOLEAN, input : {"none", "written", "read"},
                told : {"nothing", "init", "result", "other"},
                exit : {"none", "zero", "nonzero"}]
  /\ out \in Seq(Line)
  /\ stream \in [seen : {"nothing", "init", "success", "failure"},
                 over : {"unopened", "no", "ended", "threw"}]
  /\ att \in Attempt
  /\ failed \in BOOLEAN
  /\ pc \in Control

Init ==
  /\ SessionInit
  /\ child = NoChild /\ out = <<>> /\ stream = NoStream
  /\ att = NewAttempt(NoJob, FALSE)
  /\ failed = FALSE
  /\ pc = [dispatch |-> "idle", run |-> "idle", start |-> "idle", stop |-> "no"]

-----------------------------------------------------------------------------
At(activity, point) == [pc EXCEPT ![activity] = point]
Stopping == pc.stop # "no"
Ready ==
  /\ pc.start \in {"handover", "done"} /\ ~Stopping
  /\ ~failed /\ ~db.quarantined

Continue(a, d, p) ==
  /\ att' = a /\ db' = d /\ pc' = p
  /\ UNCHANGED failed

\* finishDisconnected, and finishCancelled: the backend takes no job after it.
Terminated(a) == [a EXCEPT !.terminal = TRUE, !.active = FALSE]
FinishLost(d) ==
  /\ att' = Terminated(att)
  /\ db' = d
  /\ failed' = TRUE
  /\ pc' = At("run", "idle")
FinishDisconnected == FinishLost(MarkBackendDisconnected(db))
FinishCancelled == FinishLost(CancelUnknown(db, att.job))

-----------------------------------------------------------------------------
(* dispatch.                                                               *)

\* The daemon looks for the next job while the result of the last one is still
\* on its way to the relay: the new attempt is refused and given back.
Dispatch(j) ==
  LET d == ClaimForBackendDispatch(db, j)
  IN /\ Ready /\ pc.dispatch = "idle" /\ Claimable(j)
     /\ IF att.active THEN Continue(att, ResetUnsentExecution(d, j), pc)
        ELSE Continue(NewAttempt(j, FALSE), d, At("dispatch", "assert"))
     /\ UNCHANGED <<child, out, stream, runs>>

NotSent == Continue(att, ResetUnsentExecution(db, att.job), At("dispatch", "idle"))

MaySubmit_Uncancelled == Ready   \* (mutant) pending.cancelled is not looked at

\* Looked at after both awaits.
MaySubmit == Ready /\ ~att.cancel

CommandAsserted ==
  /\ pc.dispatch = "assert"
  /\ \/ NotSent
     \/ MaySubmit /\ Continue(att, db, At("dispatch", "context"))
  /\ UNCHANGED <<child, out, stream, runs>>

\* The child runs before "submitted" is answered; it gets its input from a timer.
ContextSynced ==
  /\ pc.dispatch = "context"
  /\ \/ NotSent /\ UNCHANGED <<child, out, stream>>
     \/ /\ MaySubmit
        /\ child' = [NoChild EXCEPT !.up = TRUE]
        /\ out' = <<>> /\ stream' = NoStream
        /\ Continue(NewAttempt(att.job, TRUE), db,
                    [pc EXCEPT !.dispatch = "idle", !.run = "scheduled"])
  /\ UNCHANGED runs

\* The store marks the job before the backend is called.
RelayCancel(j) ==
  LET d == WithStatus(db, j, "Cancelling")
      asked == [att EXCEPT !.cancel = TRUE]
  IN /\ pc.start = "done" /\ pc.stop # "stopped"
     /\ \/ /\ db.status[j] = "Queued"
           /\ Continue(att, WithStatus(db, j, "Cancelled"), pc)
        \/ /\ db.status[j] \in Active
           /\ IF pc.dispatch # "idle" /\ att.job = j
              THEN Continue(asked, FinishUnsentBackendCancellation(d, j), pc)
              ELSE IF att.active /\ att.job = j THEN Continue(asked, d, pc)
              ELSE Continue(att, FinishUnsentBackendCancellation(d, j), pc)
     /\ UNCHANGED <<child, out, stream, runs>>

-----------------------------------------------------------------------------
(* runAttempt.                                                             *)

RunAttempt ==
  /\ pc.run = "scheduled"
  /\ IF Stopping THEN Continue(att, db, At("run", "stopped")) /\ UNCHANGED <<child, stream>>
     ELSE IF att.cancel
     THEN Continue(att, db, At("run", "cancelled")) /\ UNCHANGED <<child, stream>>
     ELSE /\ Continue([att EXCEPT !.deadline = TRUE], db, At("run", "sending"))
          /\ child' = [child EXCEPT !.input = "written"]
          /\ stream' = [stream EXCEPT !.over = "no"]
  /\ UNCHANGED <<out, runs>>

\* A child that has gone, or a full pipe that breaks, makes the flush throw.
InputSent ==
  /\ pc.run = "sending"
  /\ \/ Continue(att, db, At("run", "waiting"))
     \/ Continue([att EXCEPT !.deadline = FALSE], db, At("run", "caught"))
  /\ UNCHANGED <<child, out, stream, runs>>

\* Everything the child had to say was read, and it has exited.
OutputCollected ==
  /\ pc.run = "waiting"
  /\ \/ /\ stream.over = "ended" /\ child.exit # "none"
        /\ Continue([att EXCEPT !.deadline = FALSE], db, At("run", "confirm"))
     \/ /\ stream.over = "threw"
        /\ Continue([att EXCEPT !.deadline = FALSE], db, At("run", "caught"))
  /\ UNCHANGED <<child, out, stream, runs>>

\* Nothing clears a deadline that is armed while the child is being closed.
DeadlineFires ==
  /\ att.deadline
  /\ Continue([att EXCEPT !.deadline = FALSE], db,
              IF pc.run \in {"sending", "waiting"} THEN At("run", "caught") ELSE pc)
  /\ UNCHANGED <<child, out, stream, runs>>

Report(st) ==
  Continue([att EXCEPT !.terminal = TRUE], WithStatus(db, att.job, st),
           At("run", "reporting"))

\* The process group may outlive the child.
ProcessConfirmed ==
  /\ pc.run = "confirm"
  /\ \/ Continue(att, db, At("run", "caught"))
     \/ IF att.cancel THEN FinishCancelled
        ELSE IF child.exit = "nonzero" \/ ~att.accepted THEN FinishDisconnected
        ELSE Report(IF stream.seen = "success" THEN "Succeeded" ELSE "Failed")
  /\ UNCHANGED <<child, out, stream, runs>>

\* The handler may throw without having recorded anything.
ReportFails ==
  /\ pc.run = "confirm" /\ ~att.cancel /\ child.exit = "zero" /\ att.accepted
  /\ att' = [att EXCEPT !.terminal = TRUE]
  /\ failed' = TRUE
  /\ pc' = At("run", "failing")
  /\ UNCHANGED <<child, out, stream, db, runs>>

\* ... or after it has, when the relay cannot be told.
Reported ==
  /\ pc.run = "reporting"
  /\ \/ Continue([att EXCEPT !.active = FALSE], db, At("run", "idle"))
     \/ /\ failed' = TRUE /\ pc' = At("run", "failing")
        /\ UNCHANGED <<att, db>>
  /\ UNCHANGED <<child, out, stream, runs>>

-----------------------------------------------------------------------------
(* closeProcess, which signals the child, twice if it has to, and gives up  *)
(* when neither the exit nor the end of its output comes in time.           *)

Unclosed ==
  /\ failed' = TRUE
  /\ pc' = At("run", "failing")
  /\ UNCHANGED <<att, db>>

\* The handlers that follow a close of runAttempt itself are not guarded.
ProcessClosed ==
  /\ \/ pc.run \in {"caught", "cancelled"} /\ att.cancel /\ FinishCancelled
     \/ pc.run = "caught" /\ ~att.cancel /\ FinishDisconnected
     \/ pc.run = "stopped" /\ FinishDisconnected
     \/ pc.run \in {"cancelled", "stopped"} /\ Unclosed
  /\ UNCHANGED <<child, out, stream, runs>>

FailClosed_Silent ==   \* (mutant) the daemon is not told
  /\ pc.run = "failing"
  /\ FinishLost(db)
  /\ UNCHANGED <<child, out, stream, runs>>

\* A result that was recorded is not lost again.
FailClosed ==
  /\ pc.run = "failing"
  /\ FinishDisconnected
  /\ UNCHANGED <<child, out, stream, runs>>

-----------------------------------------------------------------------------
(* consumeClaudeNativeStream goes on while the child is being closed.      *)

Throw == stream' = [stream EXCEPT !.over = "threw"]

\* onInit; a job that was settled meanwhile is not accepted.
AcceptInit ==
  IF MayAccept(db, att.job)
  THEN /\ att' = [att EXCEPT !.turn = TRUE, !.accepted = TRUE, !.deadline = TRUE]
       /\ db' = MarkBackendRunning(db, att.job)
       /\ stream' = [stream EXCEPT !.seen = "init"]
  ELSE att' = [att EXCEPT !.turn = TRUE] /\ Throw /\ UNCHANGED db

ConsumeLine ==
  LET line == Head(out)
  IN /\ stream.over = "no" /\ out # <<>>
     /\ out' = Tail(out)
     /\ \/ line = "init" /\ stream.seen = "nothing" /\ AcceptInit
        \/ /\ line \in {"success", "failure"} /\ stream.seen = "init"
           /\ stream' = [stream EXCEPT !.seen = line]
           /\ UNCHANGED <<att, db>>
        \/ line = "unexpected" /\ Throw /\ UNCHANGED <<att, db>>
     /\ UNCHANGED <<child, failed, pc, runs>>

\* An output without a result is no answer.
ConsumeEnd ==
  /\ stream.over = "no" /\ out = <<>> /\ ~child.up
  /\ IF stream.seen \in {"success", "failure"}
     THEN stream' = [stream EXCEPT !.over = "ended"] ELSE Throw
  /\ UNCHANGED <<child, out, att, failed, pc, db, runs>>

-----------------------------------------------------------------------------
(* The child.                                                              *)

ReadInput ==
  /\ child.up /\ child.input = "written"
  /\ child' = [child EXCEPT !.input = "read"]
  /\ runs' = [runs EXCEPT ![att.job] = @ + 1]
  /\ UNCHANGED <<out, stream, att, failed, pc, db>>

Says(line, what) ==
  /\ child' = [child EXCEPT !.told = what]
  /\ out' = Append(out, line)

\* "unexpected" is whatever the consumer of stdout or stderr refuses.
Say ==
  /\ child.up
  /\ \/ child.told = "nothing" /\ Says("init", "init")
     \/ /\ child.told = "init" /\ child.input = "read"
        /\ \E line \in {"success", "failure"} : Says(line, "result")
     \/ child.told # "other" /\ Says("unexpected", "other")
  /\ UNCHANGED <<stream, att, failed, pc, db, runs>>

Exit ==
  /\ child.up
  /\ \E code \in {"zero", "nonzero"} :
       child' = [child EXCEPT !.up = FALSE, !.exit = code]
  /\ UNCHANGED <<out, stream, att, failed, pc, db, runs>>

-----------------------------------------------------------------------------
(* start and stop.                                                         *)

StartBegins ==
  /\ pc.start = "idle"
  /\ Continue(att, db, At("start", "preparing"))
  /\ UNCHANGED <<child, out, stream, runs>>

\* The command was probed; the session that is stored is this one, or is created.
StartPrepared ==
  /\ pc.start = "preparing"
  /\ \/ ~db.quarantined /\ Continue(att, db, At("start", "handover"))
     \/ \E d \in {db, Quarantine(db)} : Continue(att, d, At("start", "failed"))
  /\ UNCHANGED <<child, out, stream, runs>>

\* onReady dispatches the first job; it may throw.
ReadyHandled ==
  /\ pc.start = "handover" /\ pc.dispatch = "idle"
  /\ \/ Continue(att, db, At("start", "done"))
     \/ pc' = At("start", "failed") /\ failed' = TRUE /\ UNCHANGED <<att, db>>
  /\ UNCHANGED <<child, out, stream, runs>>

\* An attempt that is only scheduled is run at once, to be closed.
StopActive ==
  Continue(att, db, At("stop", IF att.active THEN "active" ELSE "stopped"))

Stop ==
  /\ pc.start \in {"done", "failed"} /\ pc.stop = "no"
  /\ IF pc.dispatch # "idle" THEN Continue(att, db, At("stop", "pending"))
     ELSE StopActive
  /\ UNCHANGED <<child, out, stream, runs>>

StopAwaitsSubmission ==
  /\ pc.stop = "pending" /\ pc.dispatch = "idle"
  /\ StopActive
  /\ UNCHANGED <<child, out, stream, runs>>

StopEnds ==
  /\ pc.stop = "active" /\ ~att.active
  /\ Continue(att, db, At("stop", "stopped"))
  /\ UNCHANGED <<child, out, stream, runs>>

-----------------------------------------------------------------------------
DispatchStep == CommandAsserted \/ ContextSynced
RunStep ==
  RunAttempt \/ InputSent \/ OutputCollected \/ ProcessConfirmed \/ ReportFails
  \/ Reported \/ ProcessClosed \/ FailClosed
StreamStep == ConsumeLine \/ ConsumeEnd
ChildStep == ReadInput \/ Say \/ Exit
StartStep == StartBegins \/ StartPrepared \/ ReadyHandled
StopStep == StopAwaitsSubmission \/ StopEnds

Next ==
  \/ \E j \in Jobs : Dispatch(j) \/ RelayCancel(j)
  \/ DispatchStep \/ RunStep \/ DeadlineFires \/ StreamStep
  \/ ChildStep \/ StartStep \/ Stop \/ StopStep

\* ExecutionBackends adds the fairness.
Spec == Init /\ [][Next]_vars
=============================================================================
