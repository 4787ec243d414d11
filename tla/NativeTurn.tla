------------------------------ MODULE NativeTurn ------------------------------
(***************************************************************************)
(* The Codex backend on the operator's own login (native-current): backend, *)
(* harness, session coordinator and execution lifecycle over one app-server *)
(* process that is started once.  As in CodexTurn an action is what an      *)
(* activity does up to its next await, and pc says where each one waits;    *)
(* awaits that only pass on a finished promise are no steps.                *)
(***************************************************************************)
EXTENDS DurableSession, Sequences

CONSTANT LateCancels   \* a cancel may still come after stop() was called

VARIABLES
  conn, rpc, wire, owed,   \* the client of the app-server: AppServerClient
  context,   \* an assistant context is configured
  lstate,    \* CodexNativeExecutionLifecycle.state; "none" before it exists
  att,       \* the last attempt; activeAttempt while att.active
  events,    \* notificationTail
  pc,        \* where each activity waits
  srv        \* the truth in the app-server: its turn, and its thread's tail

INSTANCE AppServerClient WITH Methods <- {"start"}

wireVars == <<conn, rpc, wire, owed>>
vars == <<wireVars, context, lstate, att, events, pc, srv, db, runs>>

Note == {"item", "completed", "failed", "interrupted"}

Attempt == [job : Jobs \cup {NoJob}, active : BOOLEAN, turn : BOOLEAN,
            accepted : {"open", "yes", "no"}, cancel : BOOLEAN, expired : BOOLEAN,
            deadline : BOOLEAN, interrupt : {"no", "asked", "ok", "failed"}]

NewAttempt(j, active) ==
  [job |-> j, active |-> active, turn |-> FALSE, accepted |-> "open",
   cancel |-> FALSE, expired |-> FALSE, deadline |-> FALSE, interrupt |-> "no"]

Control == [dispatch : {"idle", "context", "start"},
            event : {"idle", "completed", "failed", "cancelled"},
            deadline : {"idle", "interrupt"},
            start : {"idle", "thread", "pin", "closing", "done", "failed"},
            stop : {"no", "pending", "closing", "stopped"}]

TypeOK ==
  /\ ClientTypeOK
  /\ SessionTypeOK
  /\ context \in BOOLEAN
  /\ lstate \in {"none", "running", "stopping", "stopped", "disconnected"}
  /\ att \in Attempt
  /\ events \in Seq(Note)
  /\ pc \in Control
  /\ srv \in [turn : {"none", "running"}, said : BOOLEAN, n : Nat, last : TurnStatus]

Init ==
  /\ ClientInit
  /\ SessionInit
  /\ context \in BOOLEAN
  /\ lstate = "none"
  /\ att = NewAttempt(NoJob, FALSE)
  /\ events = <<>>
  /\ pc = [dispatch |-> "idle", event |-> "idle", deadline |-> "idle",
           start |-> "idle", stop |-> "no"]
  /\ srv = [turn |-> "none", said |-> FALSE, n |-> 0, last |-> "none"]

-----------------------------------------------------------------------------
(* a, d and p are the attempt, the store and the control after the         *)
(* activity's own changes.                                                 *)

\* The receipt of the client's epoch is current as long as the lifecycle runs:
\* its end invalidates it, and no second client is ever attached.
Current == lstate = "running"
Harness == pc.start = "done" /\ pc.stop = "no"
Ready == Harness /\ Current /\ conn = "running" /\ ~db.quarantined
At(activity, point) == [pc EXCEPT ![activity] = point]

Continue(a, d, p) ==
  /\ att' = a /\ db' = d /\ pc' = p
  /\ UNCHANGED <<conn, rpc, lstate>>

FinishAttempt(a) == [a EXCEPT !.active = FALSE, !.deadline = FALSE]
GiveUp(a) == [a EXCEPT !.accepted = IF @ = "open" THEN "no" ELSE @, !.deadline = FALSE]

\* disconnect: the daemon is told first, then the client is closed.
Disconnected(a, d, p) ==
  /\ lstate' = "disconnected"
  /\ att' = GiveUp(a)
  /\ db' = MarkBackendDisconnected(d)
  /\ pc' = p

DisconnectIfCurrent(a, d, p) ==
  IF Current THEN Disconnected(a, d, p) /\ CloseClient ELSE Continue(a, d, p)

\* The interruption is asked for once.
Interrupt(a) ==
  [a EXCEPT !.interrupt = IF @ = "no" /\ a.turn /\ Current THEN "asked" ELSE @]

-----------------------------------------------------------------------------
(* dispatch.                                                               *)

\* turn/start is sent in the same step in which the attempt is made.
Submit(j, d) ==
  /\ att' = NewAttempt(j, TRUE) /\ db' = d /\ pc' = At("dispatch", "start")
  /\ rpc' = Asked("start")
  /\ UNCHANGED <<conn, lstate>>

\* An assistant context is read again before each turn.
Dispatch(j) ==
  LET d == ClaimForBackendDispatch(db, j)
  IN /\ Ready /\ pc.dispatch = "idle" /\ ~att.active
     /\ Claimable(j)
     /\ IF context THEN Continue(NewAttempt(j, FALSE), d, At("dispatch", "context"))
        ELSE Submit(j, d)
     /\ UNCHANGED <<wire, owed, context, events, srv, runs>>

NotSent(a) == Continue(a, ResetUnsentExecution(db, a.job), At("dispatch", "idle"))

MaySubmit_Uncancelled == Ready   \* (mutant) pending.cancelled is not looked at

\* Looked at after the await: a cancel, stop() or the end of the lifecycle
\* during it proves that nothing was sent.
MaySubmit == Ready /\ ~att.cancel

ContextSynced ==
  /\ pc.dispatch = "context"
  /\ \/ NotSent(att)
     \/ MaySubmit /\ Submit(att.job, db)
  /\ UNCHANGED <<wire, owed, context, events, srv, runs>>

\* onAccepted records the turn; the deadline runs from here.  A cancel that
\* came before the turn was known interrupts it now.
TurnStarted ==
  LET begun == [att EXCEPT !.turn = TRUE, !.deadline = TRUE, !.accepted = "yes"]
  IN /\ pc.dispatch = "start" /\ rpc["start"] = "ok"
     /\ IF ~Current
        THEN Continue(FinishAttempt(GiveUp(att)), MarkBackendDisconnected(Quarantine(db)),
                      At("dispatch", "idle"))
        ELSE IF MayAccept(db, att.job)
        THEN Continue(IF att.cancel THEN Interrupt(begun) ELSE begun,
                      MarkBackendRunning(db, att.job), At("dispatch", "idle"))
        ELSE DisconnectIfCurrent([begun EXCEPT !.accepted = "no"], db,
                                 At("dispatch", "idle"))
     /\ UNCHANGED <<wire, owed, context, events, srv, runs>>

\* A timeout gives the job back; a lost transport ends the lifecycle first.
TurnStartUnwritten ==
  LET a == FinishAttempt(GiveUp(att))
  IN /\ pc.dispatch = "start" /\ rpc["start"] = "unwritten"
     /\ IF conn = "running" \/ ~Current THEN NotSent(a)
        ELSE DisconnectIfCurrent(a, db, At("dispatch", "idle"))
     /\ UNCHANGED <<wire, owed, context, events, srv, runs>>

TurnStartAmbiguous ==
  /\ pc.dispatch = "start" /\ rpc["start"] \in {"refused", "unknown"}
  /\ DisconnectIfCurrent(GiveUp(att), db, At("dispatch", "idle"))
  /\ UNCHANGED <<wire, owed, context, events, srv, runs>>

-----------------------------------------------------------------------------
(* cancel and the deadline of the turn.                                    *)

\* The store marks the job before the backend is called.  Once stop() has
\* dropped the harness every cancel is answered not_sent.
RelayCancel(j) ==
  LET d == WithStatus(db, j, "Cancelling")
      asked == [att EXCEPT !.cancel = TRUE]
  IN /\ pc.start = "done"
     /\ pc.stop = "no" \/ (LateCancels /\ pc.stop # "stopped")
     /\ \/ /\ db.status[j] = "Queued"
           /\ Continue(att, WithStatus(db, j, "Cancelled"), pc)
        \/ /\ db.status[j] \in Active
           /\ IF pc.dispatch = "context" /\ att.job = j
              THEN Continue(asked, FinishUnsentBackendCancellation(d, j), pc)
              ELSE IF Harness /\ att.active /\ att.job = j
              THEN Continue(Interrupt(asked), d, pc)
              ELSE Continue(att, FinishUnsentBackendCancellation(d, j), pc)
     /\ UNCHANGED <<wire, owed, context, events, srv, runs>>

InterruptSettles ==
  /\ att.interrupt = "asked"
  /\ \/ /\ conn = "running"
        /\ Continue([att EXCEPT !.interrupt = "ok"], db, pc)
     \/ DisconnectIfCurrent([att EXCEPT !.interrupt = "failed"], db, pc)
  /\ UNCHANGED <<wire, owed, context, events, srv, runs>>

HandleTurnTimeout ==
  /\ att.deadline /\ att.active /\ Current
  /\ Continue(Interrupt([att EXCEPT !.deadline = FALSE, !.expired = TRUE,
                                    !.cancel = TRUE]),
              db, At("deadline", "interrupt"))
  /\ UNCHANGED <<wire, owed, context, events, srv, runs>>

\* Whatever came of the interruption, the outcome of the turn is not known.
TimeoutInterrupted ==
  /\ pc.deadline = "interrupt" /\ att.interrupt \in {"ok", "failed"}
  /\ IF Current /\ conn = "running"
     THEN DisconnectIfCurrent(att, db, At("deadline", "idle"))
     ELSE Continue(att, db, At("deadline", "idle"))
  /\ UNCHANGED <<wire, owed, context, events, srv, runs>>

-----------------------------------------------------------------------------
(* Notifications, one at a time.                                           *)

Pop == events' = Tail(events)
Done(a, d) == Continue(a, d, At("event", "idle")) /\ Pop
Throw(a, d) == DisconnectIfCurrent(a, d, At("event", "idle")) /\ Pop
Finish(point) ==
  Continue(FinishAttempt(att), db, At("event", point)) /\ UNCHANGED events

EndOfTurn_AnyStatus(note) == Finish(note)   \* (mutant) interrupted is an end too

\* The final text may be missing or too long; a turn is interrupted only by a
\* cancel or the deadline.
EndOfTurn(note) ==
  CASE note = "completed" -> Finish("completed") \/ Throw(att, db)
    [] note = "failed" -> Finish("failed")
    [] note = "interrupted" -> Throw(att, db)

\* A notification of a turn that is not accepted yet waits for its acceptance.
ProcessNotification ==
  LET note == Head(events)
  IN /\ events # <<>> /\ pc.event = "idle"
     /\ \/ /\ ~(att.active /\ Current) \/ att.accepted = "no"
           /\ Done(att, db)
        \/ /\ att.active /\ Current /\ att.accepted = "yes"
           /\ IF note = "item"
              THEN Done(att, db) \/ Throw(att, db)
              ELSE IF att.expired THEN Done(att, db)
              ELSE IF att.cancel THEN Finish("cancelled")
              ELSE EndOfTurn(note)
     /\ UNCHANGED <<wire, owed, context, srv, runs>>

Checkpoint_AnsweredOnly(d) ==   \* (mutant) a failed turn is no checkpoint
  IF srv.last = "completed" THEN [d EXCEPT !.chk = [n |-> srv.n, last |-> srv.last]]
  ELSE d

Checkpoint(d) == [d EXCEPT !.chk = [n |-> srv.n, last |-> srv.last]]

\* The coordinator reads the thread back before it passes the end of a turn on.
TailConfirmed ==
  /\ conn = "running"
  /\ srv.turn = "none"
  /\ pc.event \in {"completed", "failed"} => srv.last = pc.event
  /\ MayCheckpoint(db, att.job)

CheckpointFails ==
  /\ pc.event # "idle"
  /\ Throw(att, db)
  /\ UNCHANGED <<wire, owed, context, srv, runs>>

\* A result or a failure of a job whose cancel has won is not recorded.
EndsWith(d) ==
  IF pc.event = "cancelled" THEN Done(att, CancelUnknown(d, att.job))
  ELSE IF db.status[att.job] # "Running" THEN Throw(att, d)
  ELSE IF pc.event = "completed"
  THEN Done(att, WithStatus(d, att.job, "Succeeded"))
  ELSE Done(att, WithStatus(d, att.job, "Failed"))

TurnCheckpointed ==
  /\ pc.event # "idle" /\ TailConfirmed
  /\ EndsWith(Checkpoint(db))
  /\ UNCHANGED <<wire, owed, context, srv, runs>>

-----------------------------------------------------------------------------
(* The app-server.                                                         *)

HandleNotification(note) ==
  events' = IF Current /\ pc.start = "done" THEN Append(events, note) ELSE events

WriteRequest ==
  /\ Write("start")
  /\ UNCHANGED <<context, lstate, att, events, pc, srv, db, runs>>

ReadRequest ==
  /\ Receive("start")
  /\ srv' = [srv EXCEPT !.turn = "running", !.said = FALSE]
  /\ runs' = [runs EXCEPT ![att.job] = @ + 1]
  /\ UNCHANGED <<context, lstate, att, events, pc, db>>

AnswerRequest ==
  /\ \E outcome \in {"ok", "refused"} : HandleResponse("start", outcome)
  /\ UNCHANGED <<context, lstate, att, events, pc, srv, db, runs>>

TimeOutRequest ==
  /\ RequestTimeout("start")
  /\ UNCHANGED <<context, lstate, att, events, pc, srv, db, runs>>

Say ==
  /\ conn = "running"
  /\ srv.turn = "running" /\ ~srv.said
  /\ srv' = [srv EXCEPT !.said = TRUE]
  /\ HandleNotification("item")
  /\ UNCHANGED <<wireVars, context, lstate, att, pc, db, runs>>

EndTurn ==
  /\ conn = "running"
  /\ srv.turn = "running"
  /\ \E note \in {"completed", "failed", "interrupted"} :
       /\ srv' = [turn |-> "none", said |-> FALSE, n |-> srv.n + 1, last |-> note]
       /\ HandleNotification(note)
  /\ UNCHANGED <<wireVars, context, lstate, att, pc, db, runs>>

BreakTransport ==
  /\ FailTransport
  /\ UNCHANGED <<context, lstate, att, events, pc, srv, db, runs>>

OnProcessExit ==
  /\ srv' = [srv EXCEPT !.turn = "none"]
  /\ IF Current THEN HandleExit("closing") /\ Disconnected(att, db, pc)
     ELSE HandleExit("exited") /\ UNCHANGED <<lstate, att, db, pc>>
  /\ UNCHANGED <<context, events, runs>>

ConfirmClose ==
  /\ AwaitCloseReceipt
  /\ srv' = IF conn' = "closed" THEN [srv EXCEPT !.turn = "none"] ELSE srv
  /\ att' = FinishAttempt(att)
  /\ UNCHANGED <<context, lstate, events, pc, db, runs>>

-----------------------------------------------------------------------------
(* start and stop.                                                         *)

\* The layout, the context, the command and its version come first.
StartBegins ==
  /\ pc.start = "idle"
  /\ \/ Spawn /\ pc' = At("start", "thread")
     \/ UNCHANGED wireVars /\ pc' = At("start", "failed")
  /\ UNCHANGED <<context, lstate, att, events, srv, db, runs>>

StopLifecycle(p) ==
  /\ lstate' = "stopping"
  /\ att' = GiveUp(att)
  /\ db' = IF att.active THEN MarkBackendDisconnected(db) ELSE db
  /\ pc' = p
  /\ CloseClient

\* The session that is stored is clean and its thread ends at the checkpoint,
\* or is created with this thread; a difference fences it.
StartThread ==
  /\ pc.start = "thread"
  /\ \/ /\ conn = "running" /\ ~db.quarantined
        /\ srv.turn = "none" /\ db.chk = [n |-> srv.n, last |-> srv.last]
        /\ lstate' = "running" /\ pc' = At("start", "pin")
        /\ UNCHANGED <<conn, rpc, att, db>>
     \/ /\ db' \in {db, Quarantine(db)}
        /\ CloseClient /\ pc' = At("start", "closing")
        /\ UNCHANGED <<lstate, att>>
  /\ UNCHANGED <<wire, owed, context, events, srv, runs>>

\* onReady dispatches nothing yet: the backend has no harness until the pinned
\* command was looked at again.
StartPinned ==
  /\ pc.start = "pin"
  /\ \/ Continue(att, db, At("start", "done"))
     \/ /\ Current /\ StopLifecycle(At("start", "closing"))
     \/ /\ ~Current /\ Continue(att, db, At("start", "closing"))
  /\ UNCHANGED <<wire, owed, context, events, srv, runs>>

StartFails ==
  /\ pc.start = "closing" /\ conn \in {"closed", "unconfirmed"}
  /\ Continue(att, db, At("start", "failed"))
  /\ UNCHANGED <<wire, owed, context, events, srv, runs>>

\* The harness is stopped after the dispatch that may be waiting in it; one
\* that disconnected by itself is waited for.
StopHarness ==
  IF pc.start = "failed" THEN Continue(att, db, At("stop", "stopped"))
  ELSE IF Current THEN StopLifecycle(At("stop", "closing"))
  ELSE Continue(att, db, At("stop", "closing"))

PendingSubmission == context /\ pc.dispatch # "idle"

Stop ==
  /\ pc.start \in {"done", "failed"} /\ pc.stop = "no"
  /\ IF PendingSubmission THEN Continue(att, db, At("stop", "pending"))
     ELSE StopHarness
  /\ UNCHANGED <<wire, owed, context, events, srv, runs>>

StopAwaitsSubmission ==
  /\ pc.stop = "pending" /\ ~PendingSubmission
  /\ StopHarness
  /\ UNCHANGED <<wire, owed, context, events, srv, runs>>

StopEnds ==
  /\ pc.stop = "closing" /\ conn \in {"closed", "unconfirmed"}
  /\ lstate' = "stopped"
  /\ pc' = At("stop", "stopped")
  /\ UNCHANGED <<wireVars, context, att, events, srv, db, runs>>

-----------------------------------------------------------------------------
DispatchStep ==
  ContextSynced \/ TurnStarted \/ TurnStartUnwritten \/ TurnStartAmbiguous
EventStep == ProcessNotification \/ CheckpointFails \/ TurnCheckpointed
DeadlineStep == HandleTurnTimeout \/ TimeoutInterrupted
StartStep == StartBegins \/ StartThread \/ StartPinned \/ StartFails
StopStep == StopAwaitsSubmission \/ StopEnds
ServerStep ==
  WriteRequest \/ ReadRequest \/ AnswerRequest \/ Say \/ EndTurn \/ BreakTransport
  \/ OnProcessExit

Next ==
  \/ \E j \in Jobs : Dispatch(j) \/ RelayCancel(j)
  \/ DispatchStep \/ EventStep \/ DeadlineStep \/ InterruptSettles
  \/ StartStep \/ Stop \/ StopStep
  \/ ServerStep \/ TimeOutRequest \/ ConfirmClose

\* ExecutionBackends adds the fairness.
Spec == Init /\ [][Next]_vars

\* The stored checkpoint is the thread's real tail when the daemon may dispatch.
CheckpointFollowsTail ==
  Ready /\ NoActiveJob(db)
    => srv.turn = "none" /\ db.chk = [n |-> srv.n, last |-> srv.last]
=============================================================================
