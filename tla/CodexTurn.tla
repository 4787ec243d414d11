------------------------------- MODULE CodexTurn -------------------------------
(***************************************************************************)
(* The Codex execution backend with a private API key: one app-server      *)
(* process, one thread, one turn at a time.  dispatch, cancel, the queue   *)
(* of events, the deadline of the turn, idle recovery, start and stop are  *)
(* concurrent activities of one JavaScript process: between two awaits     *)
(* they are atomic, and at an await any other may run.  pc says at which   *)
(* await each activity is; an action is what it does up to the next one.   *)
(***************************************************************************)
EXTENDS AppServerClient, DurableSession, Sequences

CONSTANTS
  MaxBacklog,   \* CODEX_NOTIFICATION_BACKLOG_MAX_COUNT
  MaxTries      \* the number of CODEX_IDLE_RECOVERY_DELAYS_MS

VARIABLES
  bstate,   \* this.state
  held,     \* this.client # null
  disc,     \* this.disconnectPromise
  cleanup,  \* this.terminalCleanupError # null
  marker,   \* this.systemErrorDispatchMarker # null
  tries,    \* this.recoveryAttempts
  att,      \* the last attempt; this.activeAttempt while att.active
  events,   \* this.eventTail
  pc,       \* where each activity waits
  srv       \* the truth in the app-server: its turn, and its thread's tail

lifeVars == <<conn, rpc, bstate, held, disc>>
memoVars == <<cleanup, marker, tries>>
truthVars == <<wire, owed, srv, runs>>
vars == <<lifeVars, memoVars, truthVars, att, events, pc, db>>

Note == {"item", "completed", "failed", "rejected", "interrupted"}

Attempt == [job : Jobs \cup {NoJob}, active : BOOLEAN, turn : BOOLEAN,
            ready : {"open", "resolved", "rejected"}, cancel : BOOLEAN,
            reported : BOOLEAN, owner : {"none", "user", "timeout"},
            deadline : {"unset", "armed", "due", "expired"}, grace : BOOLEAN,
            interrupt : {"no", "asked", "ok", "failed"},
            terminal : BOOLEAN, ambiguous : BOOLEAN, heard : BOOLEAN,
            buffer : Seq(Note)]

NewAttempt(j) ==
  [job |-> j, active |-> j # NoJob, turn |-> FALSE, ready |-> "open",
   cancel |-> FALSE, reported |-> FALSE, owner |-> "none",
   deadline |-> "unset", grace |-> FALSE, interrupt |-> "no", terminal |-> FALSE,
   ambiguous |-> FALSE, heard |-> FALSE, buffer |-> <<>>]

Control == [dispatch : {"idle", "account", "tail", "start", "disabling", "notSent"},
            cancel : {"idle", "waitTurn", "layout", "interrupt"},
            event : {"idle", "layout", "cancelled", "completed", "failed",
                     "rejected", "disabling", "grace"},
            deadline : {"idle", "layout", "interrupt"},
            recovery : {"idle", "closing", "delay", "probe", "spawned",
                        "candidate", "drifted", "retry", "handover"},
            start : {"idle", "starting", "thread", "handover", "closing", "done",
                     "failed"},
            stop : {"no", "settling", "late", "stopped"}]

TypeOK ==
  /\ ClientTypeOK
  /\ bstate \in {"idle", "starting", "recovering", "running", "stopping",
                 "stopped", "failed"}
  /\ held \in BOOLEAN
  /\ disc \in {"none", "closing", "done", "failed"}
  /\ cleanup \in BOOLEAN /\ marker \in BOOLEAN
  /\ tries \in 0..MaxTries
  /\ att \in Attempt
  /\ events \in Seq(Note \cup {"accepted"})
  /\ pc \in Control
  /\ SessionTypeOK
  /\ srv \in [turn : {"none", "running"}, said : BOOLEAN, n : Nat,
              last : TurnStatus, sys : BOOLEAN]

Init ==
  /\ ClientInit
  /\ bstate = "idle" /\ held = FALSE /\ disc = "none"
  /\ cleanup = FALSE /\ marker = FALSE /\ tries = 0
  /\ att = NewAttempt(NoJob)
  /\ events = <<>>
  /\ pc = [dispatch |-> "idle", cancel |-> "idle", event |-> "idle",
           deadline |-> "idle", recovery |-> "idle", start |-> "idle",
           stop |-> "no"]
  /\ SessionInit
  /\ srv = [turn |-> "none", said |-> FALSE, n |-> 0, last |-> "none",
            sys |-> FALSE]

-----------------------------------------------------------------------------
(* The write of checkpointBackendThreadTail.                               *)

Checkpoint_CompletedOnly(d) ==   \* (mutant) a failed turn is no checkpoint
  IF srv.last = "completed" THEN [d EXCEPT !.chk = [n |-> srv.n, last |-> srv.last]]
  ELSE d

Checkpoint(d) == [d EXCEPT !.chk = [n |-> srv.n, last |-> srv.last]]

-----------------------------------------------------------------------------
(* What the activities are made of.  a, d and p are the attempt, the store *)
(* and the control after the activity's own changes.                       *)

Ready == bstate = "running" /\ held /\ disc = "none"
Live(a) == a.active /\ ~a.terminal
DeadlinePassed(a) == a.deadline \in {"due", "expired"}
Failed == IF bstate = "stopping" THEN "stopping" ELSE "failed"
At(activity, point) == [pc EXCEPT ![activity] = point]

Continue(a, d, p) ==
  /\ att' = a /\ db' = d /\ pc' = p
  /\ UNCHANGED lifeVars

\* The activity sends a request and waits for it.
Ask(m, a, d, p) ==
  /\ att' = a /\ db' = d /\ pc' = p
  /\ rpc' = Asked(m)
  /\ UNCHANGED <<conn, bstate, held, disc>>

ClearTurnDeadline(a) ==
  [a EXCEPT !.deadline = IF @ = "expired" THEN @ ELSE "unset", !.grace = FALSE]

DropClient ==
  /\ held' = FALSE
  /\ IF held THEN CloseClient ELSE UNCHANGED <<conn, rpc>>

EndAttempt(a) ==
  IF a.active THEN [ClearTurnDeadline(a) EXCEPT !.terminal = TRUE, !.heard = FALSE,
                                               !.buffer = <<>>]
  ELSE a

\* (mutant) the daemon hears of the disconnection only of a turn it knows
Disconnect_Accepted(a, d, p, state) ==
  /\ att' = EndAttempt(a)
  /\ db' = IF a.turn THEN MarkBackendDisconnected(d) ELSE d
  /\ pc' = p
  /\ bstate' = state
  /\ disc' = IF held THEN "closing" ELSE "done"
  /\ DropClient

\* The client's close and the daemon's onDisconnected begin in the same step.
Disconnect(a, d, p, state) ==
  /\ att' = EndAttempt(a)
  /\ db' = MarkBackendDisconnected(d)
  /\ pc' = p
  /\ bstate' = state
  /\ disc' = IF held THEN "closing" ELSE "done"
  /\ DropClient

\* failClosed: once in the life of the backend.
FailClosed(a, d, p) ==
  IF disc # "none" THEN Continue(a, d, p) ELSE Disconnect(a, d, p, Failed)

\* disableBeforeSubmission and disableAfterTerminal: the backend is of no use
\* any more, and the activity waits at `waiting` for its client to close.
Disable(a, d, activity, waiting, else) ==
  /\ att' = a /\ db' = d
  /\ pc' = At(activity, IF held THEN waiting ELSE else)
  /\ bstate' = Failed
  /\ DropClient
  /\ UNCHANGED disc

HandleTurnDeadline(a, d, p) ==
  LET late == [ClearTurnDeadline(a) EXCEPT !.deadline = "expired", !.grace = TRUE]
  IN IF ~Live(a) \/ a.deadline = "unset" THEN Continue(a, d, p)
     ELSE IF ~a.turn
     THEN FailClosed([a EXCEPT !.deadline = "expired", !.ambiguous = TRUE,
                               !.ready = "rejected"], d, p)
     ELSE IF a.owner # "none" THEN Continue(late, d, p)
     ELSE IF Ready
     THEN Continue([late EXCEPT !.owner = "timeout"], d, [p EXCEPT !.deadline = "layout"])
     ELSE FailClosed([late EXCEPT !.owner = "timeout"], d, p)

-----------------------------------------------------------------------------
(* dispatch.                                                               *)

Refused(a) == [a EXCEPT !.ready = "rejected", !.active = FALSE]

Dispatch(j) ==
  /\ Ready
  /\ pc.stop = "no"
  /\ pc.dispatch = "idle" /\ ~att.active
  /\ pc.cancel = "idle"
  /\ Claimable(j)
  /\ att' = NewAttempt(j)
  /\ db' = ClaimForBackendDispatch(db, j)
  /\ pc' = At("dispatch", "account")
  /\ rpc' = [m \in Methods |-> "idle"]
  /\ UNCHANGED <<conn, bstate, held, disc, memoVars, truthVars, events>>

\* The preflight failed: the session is fenced and the backend is given up.
RefuseDispatch ==
  /\ Disable(Refused(att), Quarantine(db), "dispatch", "disabling", "notSent")
  /\ UNCHANGED <<memoVars, truthVars, events>>

AccountRead ==
  /\ pc.dispatch = "account"
  /\ \/ /\ Continue(att, db, At("dispatch", "tail"))
        /\ UNCHANGED <<memoVars, truthVars, events>>
     \/ RefuseDispatch

\* The thread ends where the store says, and a systemError is the one that
\* this process was seen to fail with.
TailIsCheckpoint ==
  /\ srv.turn = "none"
  /\ db.chk = [n |-> srv.n, last |-> srv.last]
  /\ srv.sys => marker

\* The last look before turn/start.  A cancel, or the end of the backend,
\* during the preflight still proves that nothing was sent.
ThreadTailRead ==
  /\ pc.dispatch = "tail"
  /\ \/ RefuseDispatch
     \/ /\ TailIsCheckpoint /\ db.status[att.job] \in Active
        /\ marker' = (marker /\ srv.sys)
        /\ IF ~Live(att) \/ ~Ready \/ att.cancel
           THEN Continue(Refused(att), db, At("dispatch", "notSent"))
           ELSE Ask("start", [att EXCEPT !.deadline = "armed"], db, At("dispatch", "start"))
        /\ UNCHANGED <<cleanup, tries, truthVars, events>>

\* The buffered notifications follow the acceptance of the turn they precede.
TurnStarted ==
  /\ pc.dispatch = "start" /\ rpc["start"] = "ok"
  /\ events' = events \o <<"accepted">> \o att.buffer
  /\ Continue([att EXCEPT !.turn = TRUE, !.ready = "resolved", !.buffer = <<>>],
              db, At("dispatch", "idle"))
  /\ UNCHANGED <<memoVars, truthVars>>

Ambiguous(a) == [a EXCEPT !.ambiguous = TRUE, !.ready = "rejected"]

TurnStartUnwritten ==
  /\ pc.dispatch = "start" /\ rpc["start"] = "unwritten" /\ att.deadline # "expired"
  /\ Disable(Refused(ClearTurnDeadline(att)), db, "dispatch", "disabling", "notSent")
  /\ UNCHANGED <<memoVars, truthVars, events>>

\* Anything else may have begun the turn: the job is never given back.
TurnStartAmbiguous ==
  /\ pc.dispatch = "start" /\ rpc["start"] \in Failures
  /\ (rpc["start"] # "unwritten" \/ att.deadline = "expired")
  /\ IF att.deadline = "expired"
     THEN Continue(Ambiguous(att), db, At("dispatch", "idle"))
     ELSE FailClosed(Ambiguous(att), db, At("dispatch", "idle"))
  /\ UNCHANGED <<memoVars, truthVars, events>>

\* dispatch returns not_sent and the daemon undoes its claim.
ReturnNotSent ==
  /\ \/ pc.dispatch = "notSent"
     \/ pc.dispatch = "disabling" /\ conn = "closed"
  /\ Continue(att, ResetUnsentExecution(db, att.job), At("dispatch", "idle"))
  /\ UNCHANGED <<memoVars, truthVars, events>>

\* dispatch throws, and nobody undoes the claim.
DisableUnconfirmed ==
  /\ pc.dispatch = "disabling" /\ conn = "unconfirmed"
  /\ Continue(att, Quarantine(db), At("dispatch", "idle"))
  /\ cleanup' = TRUE
  /\ UNCHANGED <<marker, tries, truthVars, events>>

-----------------------------------------------------------------------------
(* cancel.                                                                 *)

\* A cancel and the deadline share one request of an interruption.
Interrupt(a) == [a EXCEPT !.interrupt = IF @ = "no" THEN "asked" ELSE @]

\* The turn is known: its interruption is asked for, unless the turn is over
\* or its deadline has taken the interruption over.
InterruptTurn(a, d) ==
  IF a.terminal \/ a.deadline = "expired" \/ a.owner # "user"
  THEN Continue(a, d, At("cancel", "idle"))
  ELSE IF Ready THEN Continue(a, d, At("cancel", "layout"))
  ELSE FailClosed(a, d, At("cancel", "idle"))

\* The relay's cancel of a job that waits, and of one that is dispatched.  The
\* store marks the job before the backend is called.
RelayCancel(j) ==
  LET d == WithStatus(db, j, "Cancelling")
      asked == [att EXCEPT !.cancel = TRUE]
      mine == [asked EXCEPT !.owner = IF @ = "none" THEN "user" ELSE @]
  IN /\ pc.start = "done"
     /\ pc.stop = "no"
     /\ pc.cancel = "idle"
     /\ \/ /\ db.status[j] = "Queued"
           /\ Continue(att, WithStatus(db, j, "Cancelled"), pc)
        \/ /\ db.status[j] \in Active
           /\ IF ~Live(att) \/ att.job # j
              THEN Continue(att, FinishUnsentBackendCancellation(d, j), pc)
              ELSE IF DeadlinePassed(att) THEN HandleTurnDeadline(asked, d, pc)
              ELSE IF att.turn THEN InterruptTurn(mine, d)
              ELSE Continue(mine, d, At("cancel", "waitTurn"))
     /\ UNCHANGED <<memoVars, truthVars, events>>

CancelLearnsTurn ==
  /\ pc.cancel = "waitTurn"
  /\ \/ att.ready = "resolved" /\ InterruptTurn(att, db)
     \/ /\ att.ready = "rejected"
        /\ Continue(att, IF att.ambiguous THEN db
                         ELSE FinishUnsentBackendCancellation(db, att.job),
                    At("cancel", "idle"))
  /\ UNCHANGED <<memoVars, truthVars, events>>

\* After the layout check.  The client may be gone by now: the attempt ended.
CancelInterrupts ==
  /\ pc.cancel = "layout"
  /\ \/ /\ att.interrupt # "no" \/ held
        /\ Continue(Interrupt(att), db, At("cancel", "interrupt"))
     \/ /\ att.interrupt = "no" /\ ~held
        /\ IF att.reported THEN Continue(att, db, At("cancel", "idle"))
           ELSE FailClosed(att, db, At("cancel", "idle"))
     \/ FailClosed(att, db, At("cancel", "idle"))   \* the layout check fails
  /\ UNCHANGED <<memoVars, truthVars, events>>

InterruptSettles ==
  /\ att.interrupt = "asked"
  /\ \E outcome \in {"ok", "failed"} :
       /\ outcome = "ok" => conn = "running"
       /\ Continue([att EXCEPT !.interrupt = outcome], db, pc)
  /\ UNCHANGED <<memoVars, truthVars, events>>

\* An accepted interrupt proves nothing: only turn/completed ends the turn.
CancelInterrupted ==
  /\ pc.cancel = "interrupt" /\ att.interrupt \in {"ok", "failed"}
  /\ IF att.interrupt = "ok"
     THEN IF DeadlinePassed(att) THEN HandleTurnDeadline(att, db, At("cancel", "idle"))
          ELSE Continue(att, db, At("cancel", "idle"))
     ELSE IF att.reported THEN Continue(att, db, At("cancel", "idle"))
     ELSE FailClosed(att, db, At("cancel", "idle"))
  /\ UNCHANGED <<memoVars, truthVars, events>>

-----------------------------------------------------------------------------
(* The queue of events.                                                    *)

Pop == events' = Tail(events)
Fresh == events # <<>> /\ pc.event = "idle"
Throw(a, d) == FailClosed(a, d, At("event", "idle")) /\ Pop
Done(a, d) == Continue(a, d, At("event", "idle")) /\ Pop

\* Once the backend is disconnected nothing in the queue is processed.
SkipEvent ==
  /\ Fresh /\ disc # "none"
  /\ Continue(att, db, pc)
  /\ events' = <<>>
  /\ UNCHANGED <<memoVars, truthVars>>

OnAccepted ==
  LET j == att.job
  IN /\ Fresh /\ disc = "none" /\ Head(events) = "accepted"
     /\ IF MayAccept(db, j) THEN Done(att, MarkBackendRunning(db, j)) ELSE Throw(att, db)
     /\ UNCHANGED <<memoVars, truthVars>>

\* The deadline's grace holds the queue.
AwaitGrace(a, d) == HandleTurnDeadline(a, d, At("event", "grace")) /\ UNCHANGED events

TakeNotification ==
  /\ Fresh /\ disc = "none" /\ Head(events) # "accepted"
  /\ IF ~Live(att) \/ ~att.turn THEN Done(att, db)
     ELSE IF DeadlinePassed(att) THEN AwaitGrace(att, db)
     ELSE Continue(att, db, At("event", "layout")) /\ UNCHANGED events
  /\ UNCHANGED <<memoVars, truthVars>>

\* What a terminal notification, not cancelled, is checkpointed as.
CheckpointPoint(note) ==
  IF att.cancel THEN "cancelled" ELSE note

\* After the layout check everything is looked at again.  The check may throw,
\* and so may the reading of what the notification carries.
ProcessNotification ==
  LET note == Head(events)
  IN /\ pc.event = "layout"
     /\ \/ Throw(att, db)
        \/ IF ~Live(att) \/ disc # "none" THEN Done(att, db)
           ELSE IF DeadlinePassed(att) THEN AwaitGrace(att, db)
           ELSE CASE note = "item" -> Done([att EXCEPT !.heard = TRUE], db)
                  [] note = "interrupted" /\ ~att.cancel -> Throw(att, db)
                  [] note = "completed" /\ ~att.cancel /\ ~att.heard -> Throw(att, db)
                  [] OTHER -> /\ Continue(att, db, At("event", CheckpointPoint(note)))
                              /\ UNCHANGED events
     /\ UNCHANGED <<memoVars, truthVars>>

TerminalStatus(note) == IF note = "rejected" THEN "failed" ELSE note

\* The thread/read that checkpoints the end of the turn came back: the tail is
\* the turn that ended and the store's fence still holds.
TailConfirmed ==
  /\ srv.turn = "none" /\ srv.last = TerminalStatus(Head(events))
  /\ MayCheckpoint(db, att.job)

Ended(a) == [ClearTurnDeadline(a) EXCEPT !.terminal = TRUE, !.active = FALSE,
                                          !.heard = FALSE]

CheckpointFails ==
  /\ pc.event \in {"cancelled", "completed", "failed", "rejected"}
  /\ Throw(att, db)
  /\ UNCHANGED <<memoVars, truthVars>>

\* reportCancellation: the store records CancelUnknown, never Cancelled.
ReportCancellation ==
  LET d == Checkpoint(db)
  IN /\ pc.event = "cancelled" /\ TailConfirmed
     /\ marker' = srv.sys
     /\ IF ~Live(att) \/ disc # "none" THEN Done(att, d)
        ELSE IF DeadlinePassed(att) THEN AwaitGrace(att, d)
        ELSE /\ Disable([Ended(att) EXCEPT !.reported = TRUE], CancelUnknown(d, att.job),
                        "event", "disabling", "idle")
             /\ IF held THEN UNCHANGED events ELSE Pop
     /\ UNCHANGED <<cleanup, tries, truthVars>>

\* A cancel that came during the checkpoint has won: the handler throws.
OnResult ==
  LET d == Checkpoint(db)
  IN /\ pc.event = "completed" /\ TailConfirmed
     /\ marker' = srv.sys
     /\ IF DeadlinePassed(att) THEN AwaitGrace(att, d)
        ELSE IF db.status[att.job] = "Running"
        THEN Done(Ended(att), WithStatus(d, att.job, "Succeeded"))
        ELSE Throw([att EXCEPT !.terminal = TRUE], d)
     /\ UNCHANGED <<cleanup, tries, truthVars>>

\* The provider's refusal of the credentials fences the session as well.
OnFailed ==
  LET d == Checkpoint(db)
      f == WithStatus(d, att.job, "Failed")
  IN /\ pc.event \in {"failed", "rejected"} /\ TailConfirmed
     /\ marker' = srv.sys
     /\ IF DeadlinePassed(att) THEN AwaitGrace(att, d)
        ELSE IF db.status[att.job] # "Running"
        THEN Throw([att EXCEPT !.terminal = TRUE], d)
        ELSE IF pc.event = "failed" THEN Done(Ended(att), f)
        ELSE /\ Disable(Ended(att), Quarantine(f), "event", "disabling", "idle")
             /\ IF held THEN UNCHANGED events ELSE Pop
     /\ UNCHANGED <<cleanup, tries, truthVars>>

DisabledAfterTerminal ==
  /\ pc.event = "disabling"
  /\ \/ conn = "closed" /\ Done(att, db) /\ UNCHANGED cleanup
     \/ conn = "unconfirmed" /\ Throw(att, Quarantine(db)) /\ cleanup' = TRUE
  /\ UNCHANGED <<marker, tries, truthVars>>

GraceReleasesQueue ==
  /\ pc.event = "grace" /\ ~att.grace
  /\ Done(att, db)
  /\ UNCHANGED <<memoVars, truthVars>>

-----------------------------------------------------------------------------
(* The deadline of the turn.                                               *)

\* Date.now() passes deadlineAt; the timer fires some time later.
DeadlinePasses ==
  /\ att.deadline = "armed"
  /\ Continue([att EXCEPT !.deadline = "due"], db, pc)
  /\ UNCHANGED <<memoVars, truthVars, events>>

DeadlineTimer ==
  /\ att.deadline = "due"
  /\ HandleTurnDeadline(att, db, pc)
  /\ UNCHANGED <<memoVars, truthVars, events>>

\* After the layout check the deadline interrupts the turn, once.
TimeoutInterrupts ==
  /\ pc.deadline = "layout"
  /\ \/ /\ ~Live(att) \/ disc # "none"
        /\ Continue(att, db, At("deadline", "idle"))
     \/ /\ Live(att) /\ disc = "none"
        /\ Continue(Interrupt(att), db, At("deadline", "interrupt"))
     \/ FailClosed(att, db, At("deadline", "idle"))   \* the layout check fails
  /\ UNCHANGED <<memoVars, truthVars, events>>

TimeoutInterrupted ==
  /\ pc.deadline = "interrupt" /\ att.interrupt \in {"ok", "failed"}
  /\ IF att.interrupt = "ok" THEN Continue(att, db, At("deadline", "idle"))
     ELSE FailClosed(att, db, At("deadline", "idle"))
  /\ UNCHANGED <<memoVars, truthVars, events>>

\* armDeadlineGraceClose: whatever came during the grace, nothing is delivered.
GraceExpires ==
  LET a == [att EXCEPT !.grace = FALSE]
  IN /\ att.grace
     /\ IF Live(a) THEN FailClosed(a, db, pc) ELSE Continue(a, db, pc)
     /\ UNCHANGED <<memoVars, truthVars, events>>

-----------------------------------------------------------------------------
(* The app-server.                                                         *)

Backlog == Len(att.buffer) + Len(SelectSeq(events, LAMBDA e : e # "accepted"))

\* receiveNotification, with its bounded admission.
ReceiveNotification(note) ==
  IF ~Live(att) THEN Continue(att, db, pc) /\ UNCHANGED events
  ELSE IF Backlog + 1 > MaxBacklog THEN FailClosed(att, db, pc) /\ UNCHANGED events
  ELSE IF ~att.turn
  THEN /\ Continue([att EXCEPT !.buffer = Append(@, note)], db, pc)
       /\ UNCHANGED events
  ELSE /\ events' = Append(events, note)
       /\ Continue(att, db, pc)

WriteRequest ==
  /\ \E m \in Methods : Write(m)
  /\ UNCHANGED <<bstate, held, disc, memoVars, srv, runs, att, events, pc, db>>

\* The process reads a request; turn/start begins the turn.
ReadRequest ==
  /\ \E m \in Methods :
       /\ Receive(m)
       /\ IF m = "start"
          THEN /\ srv' = [srv EXCEPT !.turn = "running", !.said = FALSE]
               /\ runs' = [runs EXCEPT ![att.job] = @ + 1]
          ELSE UNCHANGED <<srv, runs>>
  /\ UNCHANGED <<bstate, held, disc, memoVars, att, events, pc, db>>

AnswerRequest ==
  /\ \E m \in Methods, outcome \in {"ok", "refused"} : HandleResponse(m, outcome)
  /\ UNCHANGED <<bstate, held, disc, memoVars, srv, runs, att, events, pc, db>>

TimeOutRequest ==
  /\ \E m \in Methods : RequestTimeout(m)
  /\ UNCHANGED <<bstate, held, disc, memoVars, srv, runs, att, events, pc, db>>

\* The turn says something that can be its answer.
Say ==
  /\ conn = "running"
  /\ srv.turn = "running" /\ ~srv.said
  /\ srv' = [srv EXCEPT !.said = TRUE]
  /\ ReceiveNotification("item")
  /\ UNCHANGED <<memoVars, wire, owed, runs>>

\* The turn ends: its thread's tail grows, and turn/completed is sent.  After a
\* rejection nobody asks for the state of the thread again.
EndTurn ==
  /\ conn = "running"
  /\ srv.turn = "running"
  /\ \E note \in {"completed", "failed", "rejected", "interrupted"} :
       /\ \E sys \in {b \in BOOLEAN : b => note = "failed"} :
            srv' = [turn |-> "none", said |-> FALSE, n |-> srv.n + 1,
                    last |-> TerminalStatus(note), sys |-> sys]
       /\ ReceiveNotification(note)
  /\ UNCHANGED <<memoVars, wire, owed, runs>>

BreakTransport ==
  /\ FailTransport
  /\ UNCHANGED <<bstate, held, disc, memoVars, srv, runs, att, events, pc, db>>

-----------------------------------------------------------------------------
(* The end of the process, and idle recovery.                              *)

\* requireRecoveryStoreFence, whose anchor is the checkpoint.
RecoveryEligible == ~att.active /\ NoActiveJob(db) /\ ~db.quarantined

\* onProcessExit, in the step in which the exit settles the pending requests.
\* Only an idle backend, whose store agrees, recovers, and only MaxTries times.
OnProcessExit ==
  LET unfit == pc.recovery = "idle" /\ ~RecoveryEligible
  IN /\ srv' = [srv EXCEPT !.turn = "none"]
     /\ IF ~held \/ bstate # "running" \/ pc.start # "done" \/ disc # "none"
        THEN /\ HandleExit("exited")
             /\ UNCHANGED <<bstate, held, disc, att, pc, db>>
        ELSE IF pc.recovery = "idle" /\ RecoveryEligible /\ tries < MaxTries
        THEN /\ HandleExit("closing")
             /\ bstate' = "recovering"
             /\ pc' = At("recovery", "closing")
             /\ UNCHANGED <<held, disc, att, db>>
        ELSE /\ HandleExit("closing")
             /\ att' = EndAttempt(att)
             /\ db' = MarkBackendDisconnected(IF unfit THEN Quarantine(db) ELSE db)
             /\ bstate' = "failed" /\ held' = FALSE /\ disc' = "closing"
             /\ UNCHANGED pc
     /\ UNCHANGED <<memoVars, runs, events>>

Recovering == bstate = "recovering"

\* The backend is fenced unless it is stopping; the recovery ends.
GiveUpRecovery(d) ==
  IF Recovering \/ bstate = "running" THEN FailClosed(att, d, At("recovery", "idle"))
  ELSE Continue(att, db, At("recovery", "idle"))

RecoveryCloses ==
  /\ pc.recovery = "closing"
  /\ \/ /\ conn = "closed"
        /\ held' = FALSE
        /\ pc' = At("recovery", IF Recovering THEN "delay" ELSE "idle")
        /\ UNCHANGED <<conn, rpc, bstate, disc, att, db, cleanup>>
     \/ /\ conn = "unconfirmed"
        /\ cleanup' = TRUE
        /\ GiveUpRecovery(Quarantine(db))
  /\ UNCHANGED <<marker, tries, truthVars, events>>

\* stop() cuts the delay short.
RecoveryDelay ==
  /\ pc.recovery = "delay"
  /\ IF Recovering
     THEN tries' = tries + 1 /\ Continue(att, db, At("recovery", "probe"))
     ELSE UNCHANGED tries /\ Continue(att, db, At("recovery", "idle"))
  /\ UNCHANGED <<cleanup, marker, truthVars, events>>

NextTry_OneMore ==   \* (mutant) the budget is compared before it is spent
  IF Recovering /\ tries <= MaxTries
  THEN /\ pc' = At("recovery", "delay") /\ held' = FALSE
       /\ UNCHANGED <<conn, rpc, bstate, disc, att, db>>
  ELSE GiveUpRecovery(db)

\* Another attempt, or the end of the budget, which is no reason to fence.
NextTry ==
  IF Recovering /\ tries < MaxTries
  THEN /\ pc' = At("recovery", "delay") /\ held' = FALSE
       /\ UNCHANGED <<conn, rpc, bstate, disc, att, db>>
  ELSE GiveUpRecovery(db)

\* The layout, the command and its version are read again, then a process is
\* started: a difference fences the session, a failure is tried again.
RecoveryProbe ==
  /\ pc.recovery = "probe"
  /\ \/ GiveUpRecovery(Quarantine(db)) /\ UNCHANGED <<wire, owed, cleanup, marker>>
     \/ NextTry /\ UNCHANGED <<wire, owed, cleanup, marker>>
     \/ /\ Recovering /\ RecoveryEligible
        /\ Spawn /\ marker' = FALSE
        /\ pc' = At("recovery", "spawned")
        /\ UNCHANGED <<bstate, held, disc, att, db, cleanup>>
     \/ /\ Recovering /\ RecoveryEligible
        /\ cleanup' = TRUE /\ marker' = FALSE   \* start failed, its close as well
        /\ GiveUpRecovery(Quarantine(db)) /\ UNCHANGED <<wire, owed>>
  /\ UNCHANGED <<tries, srv, runs, events>>

RecoverySpawned ==
  /\ pc.recovery = "spawned"
  /\ held' = TRUE
  /\ IF Recovering
     THEN pc' = At("recovery", "candidate") /\ UNCHANGED <<conn, rpc>>
     ELSE pc' = At("recovery", "retry") /\ CloseClient
  /\ UNCHANGED <<bstate, disc, att, db, memoVars, truthVars, events>>

StrictTail == TailIsCheckpoint /\ ~srv.sys

\* Everything the new process says is compared with the store; a candidate is
\* dropped for a difference, or for a failure that may be tried again.
RecoveryCandidate ==
  /\ pc.recovery = "candidate"
  /\ \/ /\ conn = "running" /\ Recovering /\ held /\ RecoveryEligible /\ StrictTail
        /\ bstate' = "running"
        /\ pc' = At("recovery", "handover")
        /\ UNCHANGED <<conn, rpc>>
     \/ /\ \E point \in {"drifted", "retry"} : pc' = At("recovery", point)
        /\ UNCHANGED bstate
        /\ IF held THEN CloseClient ELSE UNCHANGED <<conn, rpc>>
  /\ UNCHANGED <<held, disc, att, db, memoVars, truthVars, events>>

RecoveryDrops ==
  /\ pc.recovery \in {"drifted", "retry"}
  /\ \/ /\ ~held \/ conn = "closed"
        /\ IF pc.recovery = "drifted" THEN GiveUpRecovery(Quarantine(db)) ELSE NextTry
        /\ UNCHANGED cleanup
     \/ /\ held /\ conn = "unconfirmed"
        /\ cleanup' = TRUE
        /\ GiveUpRecovery(Quarantine(db))
  /\ UNCHANGED <<marker, tries, truthVars, events>>

\* onReady has returned.  The backend could be used, and lost, meanwhile.
RecoveryHandsOver ==
  /\ pc.recovery = "handover"
  /\ IF Ready /\ conn = "running" THEN Continue(att, db, At("recovery", "idle"))
     ELSE IF bstate = "stopping" \/ bstate = "stopped"
     THEN Continue(att, db, At("recovery", "idle"))
     ELSE FailClosed(att, db, At("recovery", "idle"))
  /\ UNCHANGED <<memoVars, truthVars, events>>

-----------------------------------------------------------------------------
(* start and stop.                                                         *)

StartBegins ==
  /\ pc.start = "idle"
  /\ bstate' = "starting"
  /\ pc' = At("start", "starting")
  /\ UNCHANGED <<conn, rpc, held, disc, att, db, memoVars, truthVars, events>>

\* A difference with the stored session may fence it; a fence that is there,
\* or the evidence of an attempt, ends the start.
StartRefused ==
  /\ pc.start = "starting"
  /\ bstate' = "failed"
  /\ db' \in {db, Quarantine(db)}
  /\ pc' = At("start", "failed")
  /\ UNCHANGED <<conn, rpc, held, disc, att, memoVars, truthVars, events>>

StartSpawns ==
  /\ pc.start = "starting"
  /\ ~db.quarantined
  /\ marker' = FALSE
  /\ \/ /\ Spawn
        /\ held' = TRUE
        /\ pc' = At("start", "thread")
        /\ UNCHANGED <<bstate, db, cleanup>>
     \/ /\ conn' = "unconfirmed" /\ bstate' = "failed"   \* and could not be closed
        /\ cleanup' = TRUE /\ db' = Quarantine(db)
        /\ pc' = At("start", "failed")
        /\ UNCHANGED <<rpc, wire, owed, held>>
  /\ UNCHANGED <<disc, att, tries, srv, runs, events>>

\* catch: the client is closed whatever else has been done to it.
StartCatches(d) ==
  /\ bstate' = "failed" /\ held' = FALSE
  /\ db' = d
  /\ pc' = At("start", "closing")
  /\ CloseClient
  /\ UNCHANGED <<disc, att>>

\* The thread is started or resumed, read back and bound; a thread/start or
\* thread/resume that may have been written fences the session.
StartThread ==
  /\ pc.start = "thread"
  /\ \/ /\ conn = "running" /\ StrictTail
        /\ bstate' = "running"
        /\ pc' = At("start", "handover")
        /\ UNCHANGED <<conn, rpc, held, disc, att, db>>
     \/ \E d \in {db, Quarantine(db)} : StartCatches(d)
  /\ UNCHANGED <<memoVars, truthVars, events>>

\* onReady has returned, with the dispatch it may have made.
StartHandsOver ==
  /\ pc.start = "handover" /\ pc.dispatch = "idle"
  /\ IF Ready /\ conn = "running"
     THEN Continue(att, db, At("start", "done")) ELSE StartCatches(db)
  /\ UNCHANGED <<memoVars, truthVars, events>>

StartFails ==
  /\ pc.start = "closing"
  /\ \/ conn = "closed" /\ Continue(att, db, At("start", "failed")) /\ UNCHANGED cleanup
     \/ /\ conn = "unconfirmed"
        /\ Continue(att, Quarantine(db), At("start", "failed"))
        /\ cleanup' = TRUE
  /\ UNCHANGED <<marker, tries, truthVars, events>>

Stop ==
  /\ pc.start \in {"done", "failed"} /\ pc.stop = "no"
  /\ IF Live(att) /\ disc = "none"
     THEN Disconnect(att, db, At("stop", "settling"), "stopping")
     ELSE /\ bstate' = "stopping"
          /\ pc' = At("stop", "settling")
          /\ DropClient
          /\ UNCHANGED <<disc, att, db>>
  /\ UNCHANGED <<memoVars, truthVars, events>>

Quiet_NoRecovery ==   \* (mutant) recoveryPromise is not among those settled
  /\ disc # "closing" /\ conn # "closing"
  /\ pc.event = "idle" /\ events = <<>>

Quiet == /\ disc # "closing" /\ conn # "closing"
         /\ pc.recovery = "idle" /\ pc.event = "idle" /\ events = <<>>

\* An unconfirmed close fences the session; a client that a recovery put in
\* place meanwhile is closed too.
StopSettles ==
  /\ pc.stop = "settling" /\ Quiet
  /\ db' = IF conn = "unconfirmed" THEN Quarantine(db) ELSE db
  /\ cleanup' = (cleanup \/ conn = "unconfirmed")
  /\ pc' = At("stop", "late")
  /\ DropClient
  /\ UNCHANGED <<bstate, disc, att, marker, tries, truthVars, events>>

StopEnds ==
  /\ pc.stop = "late" /\ Quiet
  /\ db' = IF conn = "unconfirmed" THEN Quarantine(db) ELSE db
  /\ cleanup' = (cleanup \/ conn = "unconfirmed")
  /\ pc' = At("stop", "stopped")
  /\ bstate' = "stopped"
  /\ UNCHANGED <<conn, rpc, held, disc, att, marker, tries, truthVars, events>>

DisconnectSettles ==
  /\ disc = "closing" /\ conn \in {"closed", "unconfirmed"}
  /\ disc' = IF conn = "closed" THEN "done" ELSE "failed"
  /\ db' = IF conn = "closed" THEN db ELSE Quarantine(db)
  /\ UNCHANGED <<conn, rpc, bstate, held, att, pc, memoVars, truthVars, events>>

ConfirmClose ==
  /\ AwaitCloseReceipt
  /\ srv' = IF conn' = "closed" THEN [srv EXCEPT !.turn = "none"] ELSE srv
  /\ UNCHANGED <<bstate, held, disc, memoVars, runs, att, events, pc, db>>

-----------------------------------------------------------------------------
DispatchStep ==
  \/ AccountRead \/ ThreadTailRead \/ TurnStarted \/ TurnStartUnwritten
  \/ TurnStartAmbiguous \/ ReturnNotSent \/ DisableUnconfirmed
CancelStep ==
  \/ CancelLearnsTurn \/ CancelInterrupts \/ InterruptSettles \/ CancelInterrupted
EventStep ==
  \/ SkipEvent \/ OnAccepted \/ TakeNotification \/ ProcessNotification
  \/ CheckpointFails \/ ReportCancellation \/ OnResult \/ OnFailed
  \/ DisabledAfterTerminal \/ GraceReleasesQueue
DeadlineStep == DeadlineTimer \/ GraceExpires
InterruptStep == TimeoutInterrupts \/ TimeoutInterrupted
RecoveryStep ==
  \/ RecoveryCloses \/ RecoveryDelay \/ RecoveryProbe \/ RecoverySpawned
  \/ RecoveryCandidate \/ RecoveryDrops \/ RecoveryHandsOver
StartStep ==
  \/ StartBegins \/ StartRefused \/ StartSpawns \/ StartThread \/ StartHandsOver
  \/ StartFails
StopStep == StopSettles \/ StopEnds \/ DisconnectSettles

ServerStep ==
  \/ WriteRequest \/ ReadRequest \/ AnswerRequest \/ Say \/ EndTurn
  \/ BreakTransport \/ OnProcessExit

Next ==
  \/ \E j \in Jobs : Dispatch(j) \/ RelayCancel(j)
  \/ DispatchStep \/ CancelStep \/ EventStep
  \/ DeadlinePasses \/ DeadlineStep \/ InterruptStep
  \/ RecoveryStep \/ StartStep \/ Stop \/ StopStep
  \/ ServerStep \/ TimeOutRequest \/ ConfirmClose

\* ExecutionBackends adds the fairness.
Spec == Init /\ [][Next]_vars

-----------------------------------------------------------------------------
(* What ExecutionBackends states of this backend, beside the promise.      *)

\* A backend that would dispatch has accounted for every turn the thread ever
\* ran: the stored checkpoint is the thread's real tail.
CheckpointFollowsTail ==
  Ready /\ ~att.active /\ ~db.quarantined =>
    srv.turn = "none" /\ db.chk = [n |-> srv.n, last |-> srv.last]

\* stop() has returned: no process, no active job, but for the exceptions.
StoppedIsQuiet ==
  pc.stop = "stopped" =>
    /\ conn \in {"none", "closed", "unconfirmed"}
    /\ conn = "unconfirmed" => cleanup /\ db.quarantined
    /\ NoActiveJob(db) \/ cleanup \/ pc.dispatch # "idle"
=============================================================================
