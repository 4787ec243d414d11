--------------------------- MODULE HermesConnector ---------------------------
(***************************************************************************)
(* The private link between the daemon and a Hermes gateway: the connector *)
(* server (src/src/connector/server.ts), the daemon's handlers of its      *)
(* events (src/src/daemon.ts) and the adapter inside Hermes                *)
(* (src/hermes-plugin/adapter.py), joined by WebSocket connections that    *)
(* may break with messages in flight.                                      *)
(*                                                                         *)
(* One daemon serves one session, so at most one job is active.  The job   *)
(* table is that of JobStore, cut down to the Hermes transactions; a lease *)
(* is named by the generation it was drawn for, 0 stands for none.  The    *)
(* server runs its transitions (messages, hello, close) one at a time on   *)
(* transitionChain; arrivals on two connections may be ordered either way. *)
(***************************************************************************)
EXTENDS Naturals, Sequences

CONSTANTS
  Jobs, NoJob,
  LocalStops,       \* whether an operator of Hermes may stop a job
  MaxConnections,   \* bound: connections the adapter opens
  MaxAttempts,      \* bound: claims of one job
  MaxCancels,       \* bound: cancel_chat messages
  MaxBreaks,        \* bound: broken connections and adapter crashes
  MaxQueue,         \* bound: frames in flight when a final is sent
  MaxFailures       \* bound: disconnect settlements the database refuses

ASSUME ConnectorAssumption ==
  /\ NoJob \notin Jobs
  /\ LocalStops \in BOOLEAN
  /\ {MaxConnections, MaxAttempts, MaxCancels, MaxBreaks, MaxQueue, MaxFailures} \subseteq Nat

VARIABLES
  \* the job table
  status, lease, gen, owner, quarantined,
  \* the connector server: a socket per connection, activeSocket, the
  \* connector id of each hello and disconnectHandled
  sock, active, cid, handled,
  \* the connections and the messages in flight in each direction
  link, up, down,
  \* the adapter process, its connection, and what it remembers of each job
  pid, ws, ready, task, taskWs, offer, offerCancel, held, source, cancelled,
  final, rejected, rejCancel,
  run,         \* Hermes' background processing of a job
  started,     \* history: executions begun for a job
  carrier,     \* history: the connection a claimed job was sent on
  cancels, breaks, failures

jobVars == <<status, lease, gen, owner, quarantined>>
sockVars == <<sock, active, cid, handled>>
netVars == <<link, up, down>>
adapterVars == <<pid, ws, ready, task, taskWs, offer, offerCancel, held, source,
                 cancelled, final, rejected, rejCancel, run>>
boundVars == <<cancels, breaks, failures>>
vars == <<jobVars, sockVars, netVars, adapterVars, started, carrier, boundVars>>

Connections == 1..MaxConnections
Active == {"Dispatching", "Running", "Cancelling"}
JobStatus == Active \cup {"Acked", "Succeeded", "Failed", "Cancelled",
                          "CancelUnknown", "Interrupted"}

Msg(type, j, l) == [type |-> type, job |-> j, lease |-> l]

TypeOK ==
  /\ status \in [Jobs -> JobStatus]
  /\ lease \in [Jobs -> 0..MaxAttempts]
  /\ gen \in [Jobs -> 0..MaxAttempts]
  /\ owner \in [Jobs -> 0..MaxBreaks + 1]
  /\ quarantined \in BOOLEAN
  /\ sock \in [Connections -> {"unused", "open", "ready", "fenced"}]
  /\ active \in {0} \cup {k \in Connections : sock[k] = "ready"}
  /\ cid \in [Connections -> 0..MaxBreaks + 1]
  /\ handled \in [Connections -> BOOLEAN]
  /\ link \in [Connections -> {"unused", "up", "cut"}]
  /\ \A k \in Connections : \A i \in DOMAIN up[k] :
       up[k][i].type \in {"hello", "accepted", "result", "failed", "cancelled",
                          "not_started", "close"}
  /\ \A k \in Connections : \A i \in DOMAIN down[k] :
       down[k][i].type \in {"hello_ack", "job", "cancel", "result_stored",
                            "superseded", "error"}
  /\ ws \in 0..MaxConnections
  /\ ready \in BOOLEAN
  /\ task \in [Jobs -> {"none", "new", "accepting", "rejecting"}]
  /\ taskWs \in [Jobs -> 0..MaxConnections]
  /\ offer \in [Jobs -> 0..MaxAttempts] /\ held \in [Jobs -> 0..MaxAttempts]
  /\ rejected \in [Jobs -> 0..MaxAttempts]
  /\ {offerCancel, source, cancelled, final, rejCancel} \subseteq SUBSET Jobs
  /\ run \in [Jobs -> {"none", "running", "sending"}]
  /\ carrier \in [Jobs -> 0..MaxConnections]

Init ==
  /\ status = [j \in Jobs |-> "Acked"]
  /\ lease = [j \in Jobs |-> 0] /\ gen = [j \in Jobs |-> 0]
  /\ owner = [j \in Jobs |-> 0]
  /\ quarantined = FALSE
  /\ sock = [k \in Connections |-> "unused"]
  /\ active = 0
  /\ cid = [k \in Connections |-> 0]
  /\ handled = [k \in Connections |-> FALSE]
  /\ link = [k \in Connections |-> "unused"]
  /\ up = [k \in Connections |-> <<>>] /\ down = [k \in Connections |-> <<>>]
  /\ pid = 1 /\ ws = 0 /\ ready = FALSE
  /\ task = [j \in Jobs |-> "none"] /\ taskWs = [j \in Jobs |-> 0]
  /\ offer = [j \in Jobs |-> 0] /\ held = [j \in Jobs |-> 0]
  /\ rejected = [j \in Jobs |-> 0]
  /\ offerCancel = {} /\ source = {} /\ cancelled = {} /\ final = {} /\ rejCancel = {}
  /\ run = [j \in Jobs |-> "none"]
  /\ started = [j \in Jobs |-> 0]
  /\ carrier = [j \in Jobs |-> 0]
  /\ cancels = 0 /\ breaks = 0 /\ failures = 0

-----------------------------------------------------------------------------
(* The daemon.                                                             *)

\* What a frame does to the queues: a frame for a broken connection is lost.
Sent(dn, k, m) == IF link[k] = "up" THEN [dn EXCEPT ![k] = Append(@, m)] ELSE dn

ActiveIn(st) == {j \in Jobs : st[j] \in Active}

Claimable(st, act, fence) ==
  {j \in Jobs : /\ act # 0 /\ ~fence /\ ActiveIn(st) = {}
                /\ st[j] = "Acked" /\ gen[j] < MaxAttempts}

\* (mutant) back pressure (-1) is taken for a dropped frame
Submitted_NotOnBackpressure(k) == {TRUE, FALSE}

\* Whether the server believes a frame went out: a broken connection may not
\* have been noticed yet.
Submitted(k) == IF link[k] = "up" THEN {TRUE} ELSE {TRUE, FALSE}

\* dispatchPending, on the job table st, fence and frames dn that its caller
\* leaves: the session lets one job be claimed, and a frame that was not sent
\* returns it with its lease cleared.
DispatchPending(st, act, id, fence, dn) ==
  \/ /\ Claimable(st, act, fence) = {}
     /\ status' = st
     /\ down' = dn
     /\ UNCHANGED <<lease, gen, owner, carrier>>
  \/ \E j \in Claimable(st, act, fence) : \E submitted \in Submitted(act) :
       /\ gen' = [gen EXCEPT ![j] = @ + 1]
       /\ status' = IF submitted THEN [st EXCEPT ![j] = "Dispatching"] ELSE st
       /\ lease' = [lease EXCEPT ![j] = IF submitted THEN gen[j] + 1 ELSE 0]
       /\ owner' = [owner EXCEPT ![j] = IF submitted THEN id ELSE 0]
       /\ carrier' = [carrier EXCEPT ![j] = act]
       /\ down' = Sent(dn, act, Msg("job", j, gen[j] + 1))

\* dispatchPending for a connection that has been ready for a while.
Redispatch(st, dn) ==
  DispatchPending(st, active, IF active = 0 THEN 0 ELSE cid[active], quarantined, dn)

\* A job of the relay, or its reconnection, makes the daemon dispatch.
OnRelayIncoming ==
  /\ Claimable(status, active, quarantined) # {}
  /\ Redispatch(status, down)
  /\ UNCHANGED <<quarantined, sockVars, link, up, adapterVars, started, boundVars>>

\* cancel_chat.  A claimed job waits in Cancelling for the adapter's answer;
\* a cancel that could not be delivered has an unknown outcome.
OnRelayCancel(j) ==
  /\ cancels < MaxCancels
  /\ cancels' = cancels + 1
  /\ \/ /\ status[j] = "Acked"
        /\ status' = [status EXCEPT ![j] = "Cancelled"]
        /\ UNCHANGED <<quarantined, down>>
     \/ /\ status[j] \in Active
        /\ \E submitted \in IF active = 0 THEN {FALSE} ELSE Submitted(active) :
             /\ status' = [status EXCEPT ![j] = IF submitted THEN "Cancelling"
                                                ELSE "CancelUnknown"]
             /\ quarantined' = (quarantined \/ ~submitted)
             /\ down' = IF submitted THEN Sent(down, active, Msg("cancel", j, lease[j]))
                        ELSE down
  /\ UNCHANGED <<lease, gen, owner, sockVars, link, up, adapterVars, started,
                 carrier, breaks, failures>>

\* transitionChain takes the next frame or close of connection k.
Queued(k, type) == up[k] # <<>> /\ Head(up[k]).type = type
Rest(k) == [up EXCEPT ![k] = Tail(@)]

\* A connection ends: the adapter's frames reach the server up to some point,
\* and then the close event does.
Cut(u, k) ==
  IF link[k] = "up"
  THEN {[u EXCEPT ![k] = Append(SubSeq(@, 1, n), Msg("close", NoJob, 0))] :
          n \in 0..Len(u[k])}
  ELSE {u}

\* (mutant) a job being cancelled is left as it is
Affected_NotCancelling(k) ==
  {j \in Jobs : status[j] \in {"Dispatching", "Running"} /\ owner[j] = cid[k]}

\* settleDisconnected: done before, done now by markConnectorDisconnected,
\* which goes by the connector id, or refused by the database.
Affected(k) == {j \in Jobs : status[j] \in Active /\ owner[j] = cid[k]}

Settled(k) ==
  [j \in Jobs |-> IF handled[k] \/ j \notin Affected(k) THEN status[j]
                  ELSE IF status[j] = "Cancelling" THEN "CancelUnknown"
                  ELSE "Interrupted"]

SettleDisconnected(k) ==
  \/ /\ quarantined' = (quarantined \/ (~handled[k] /\ Affected(k) # {}))
     /\ handled' = [handled EXCEPT ![k] = TRUE]
     /\ UNCHANGED failures
  \/ /\ ~handled[k] /\ failures < MaxFailures
     /\ failures' = failures + 1
     /\ UNCHANGED <<quarantined, handled>>

\* (mutant) the closed socket is not forgotten
OnClose_KeepsActive(k) ==
  /\ Queued(k, "close")
  /\ up' = Rest(k)
  /\ sock' = [sock EXCEPT ![k] = IF active = k THEN "fenced" ELSE @]
  /\ IF sock[k] = "open"
     THEN UNCHANGED <<status, quarantined, handled, failures>>
     ELSE /\ SettleDisconnected(k)
          /\ status' = IF handled'[k] THEN Settled(k) ELSE status
  /\ UNCHANGED <<lease, gen, owner, active, cid, link, down, adapterVars, started, carrier,
                 cancels, breaks>>

\* The close event: fence the socket if it is active, and settle, again if an
\* earlier settlement of this generation failed.
OnClose(k) ==
  /\ Queued(k, "close")
  /\ up' = Rest(k)
  /\ sock' = [sock EXCEPT ![k] = IF active = k THEN "fenced" ELSE @]
  /\ active' = IF active = k THEN 0 ELSE active
  /\ IF sock[k] = "open"
     THEN UNCHANGED <<status, quarantined, handled, failures>>
     ELSE /\ SettleDisconnected(k)
          /\ status' = IF handled'[k] THEN Settled(k) ELSE status
  /\ UNCHANGED <<lease, gen, owner, cid, link, down, adapterVars, started, carrier,
                 cancels, breaks>>

\* acceptHello.  With no active socket, or once the stale one is settled, the
\* new generation becomes ready and the daemon dispatches to it.
BecomeReady(k, st) ==
  LET id == Head(up[k]).lease
  IN /\ cid' = [cid EXCEPT ![k] = id]
     /\ active' = k
     /\ DispatchPending(st, k, id, quarantined', Sent(down, k, Msg("hello_ack", NoJob, 0)))

AcceptHello(k) ==
  /\ Queued(k, "hello")
  /\ active = 0
  /\ up' = Rest(k)
  /\ sock' = [sock EXCEPT ![k] = "ready"]
  /\ UNCHANGED quarantined
  /\ BecomeReady(k, status)
  /\ UNCHANGED <<handled, link, adapterVars, started, boundVars>>

\* Another connector is online: the new socket is closed.
ConflictHello(k) ==
  /\ Queued(k, "hello")
  /\ active # 0
  /\ up' \in Cut(Rest(k), k)
  /\ link' = [link EXCEPT ![k] = "cut"]
  /\ UNCHANGED <<jobVars, sockVars, down, adapterVars, started, carrier, boundVars>>

\* (mutant) the new generation is ready whether or not the old was settled
TakeoverHello_Unsettled(k) ==
  /\ Queued(k, "hello")
  /\ active # 0
  /\ up' \in Cut(Rest(k), active)
  /\ link' = [link EXCEPT ![active] = "cut"]
  /\ sock' = [sock EXCEPT ![active] = "fenced", ![k] = "ready"]
  /\ UNCHANGED <<quarantined, handled>>
  /\ BecomeReady(k, status)
  /\ UNCHANGED <<adapterVars, started, boundVars>>

\* The active socket was silent for two heartbeats: it is fenced, closed and
\* settled before the new one is ready; a failed settlement fails the hello.
TakeoverHello(k) ==
  /\ Queued(k, "hello")
  /\ active # 0
  /\ up' \in Cut(Rest(k), active)
  /\ link' = [link EXCEPT ![active] = "cut"]
  /\ SettleDisconnected(active)
  /\ IF handled'[active]
     THEN /\ sock' = [sock EXCEPT ![active] = "fenced", ![k] = "ready"]
          /\ BecomeReady(k, Settled(active))
     ELSE /\ sock' = [sock EXCEPT ![active] = "fenced"]
          /\ active' = 0
          /\ UNCHANGED <<status, lease, gen, owner, cid, down, carrier>>
  /\ UNCHANGED <<adapterVars, started, cancels, breaks>>

\* A frame of a connection that is not active: its generation is invalid.
StaleFrame(k) ==
  /\ up[k] # <<>> /\ Head(up[k]).type \notin {"hello", "close"}
  /\ active # k
  /\ up' = Rest(k)
  /\ UNCHANGED <<jobVars, sockVars, link, down, adapterVars, started, carrier, boundVars>>

\* The handlers of an active connection's frames.  Each looks the job up,
\* compares leases, changes the table and answers before the next transition.
Handles(k, type, j) ==
  /\ active = k /\ Queued(k, type)
  /\ j = Head(up[k]).job
  /\ up' = Rest(k)
  /\ UNCHANGED <<sockVars, link, adapterVars, started, boundVars>>

HasLease(k, j) == lease[j] = Head(up[k]).lease
CancelRequested(j) == status[j] \in {"Cancelling", "Cancelled", "CancelUnknown"}
Reply(k, type, j) == Sent(down, k, Msg(type, j, lease[j]))
Unchanged == UNCHANGED <<status, lease, gen, owner, quarantined, carrier>>
NoReply == Unchanged /\ UNCHANGED down

OnExecutionAccepted(k, j) ==
  /\ Handles(k, "accepted", j)
  /\ IF HasLease(k, j) /\ status[j] \in {"Dispatching", "Running"}
     THEN /\ status' = [status EXCEPT ![j] = "Running"]
          /\ owner' = [owner EXCEPT ![j] = IF status[j] = "Dispatching" THEN cid[k] ELSE @]
          /\ UNCHANGED <<lease, gen, quarantined, carrier, down>>
     ELSE Unchanged /\ down' = Reply(k, "error", j)

\* (mutant) acknowledged whether or not the result was stored
OnExecutionResult_AcksAll(k, j) ==
  /\ Handles(k, "result", j)
  /\ \/ /\ ~HasLease(k, j)
        /\ Unchanged /\ down' = Reply(k, "error", j)
     \/ /\ HasLease(k, j) /\ (CancelRequested(j) \/ status[j] \in {"Failed", "Interrupted"})
        /\ Unchanged /\ down' = Reply(k, "result_stored", j)
     \/ /\ HasLease(k, j) /\ status[j] \in {"Dispatching", "Running", "Succeeded"}
        /\ Redispatch([status EXCEPT ![j] = "Succeeded"], Reply(k, "result_stored", j))
        /\ UNCHANGED quarantined

OnExecutionResult(k, j) ==
  /\ Handles(k, "result", j)
  /\ \/ /\ ~HasLease(k, j) \/ (~CancelRequested(j) /\ status[j] \in {"Failed", "Interrupted"})
        /\ Unchanged /\ down' = Reply(k, "error", j)
     \/ /\ HasLease(k, j) /\ CancelRequested(j)
        /\ Unchanged /\ down' = Reply(k, "superseded", j)
     \/ /\ HasLease(k, j) /\ status[j] \in {"Dispatching", "Running", "Succeeded"}
        /\ Redispatch([status EXCEPT ![j] = "Succeeded"], Reply(k, "result_stored", j))
        /\ UNCHANGED quarantined

OnExecutionFailed(k, j) ==
  /\ Handles(k, "failed", j)
  /\ \/ /\ ~HasLease(k, j)
        /\ Unchanged /\ down' = Reply(k, "error", j)
     \/ /\ HasLease(k, j) /\ CancelRequested(j)
        /\ Unchanged /\ down' = Reply(k, "superseded", j)
     \/ /\ HasLease(k, j) /\ ~CancelRequested(j)
        /\ LET ended == status[j] \in {"Succeeded", "Failed", "Interrupted"}
               stored == status[j] # "Interrupted"
           IN Redispatch(IF ended THEN status ELSE [status EXCEPT ![j] = "Failed"],
                         IF stored THEN Reply(k, "result_stored", j) ELSE down)
        /\ UNCHANGED quarantined

OnExecutionCancelled(k, j) ==
  /\ Handles(k, "cancelled", j)
  /\ IF HasLease(k, j) /\ status[j] = "Cancelling"
     THEN /\ status' = [status EXCEPT ![j] = "CancelUnknown"]
          /\ quarantined' = TRUE
          /\ UNCHANGED <<lease, gen, owner, carrier, down>>
     ELSE NoReply

OnExecutionNotStarted(k, j) ==
  /\ Handles(k, "not_started", j)
  /\ IF HasLease(k, j) /\ status[j] = "Cancelling"
     THEN /\ Redispatch([status EXCEPT ![j] = "Cancelled"], down)
          /\ UNCHANGED quarantined
     ELSE NoReply

-----------------------------------------------------------------------------
(* The adapter: one asyncio event loop.  The listener handles frames one   *)
(* after another; every job frame starts a task; Hermes processes accepted *)
(* jobs in the background.                                                 *)

daemonVars == <<jobVars, active, cid, handled, carrier>>

\* _send_local: a frame for a broken connection is lost.
Push(u, k, m) == IF k # 0 /\ link[k] = "up" THEN [u EXCEPT ![k] = Append(@, m)] ELSE u

\* The adapter or the network ends connection k.
CutLink(k) ==
  /\ up' \in Cut(up, k)
  /\ link' = [link EXCEPT ![k] = "cut"]

\* _listener_loop opens the next connection and answers hello_required.
Connect(k) ==
  /\ ws = 0 /\ link[k] = "unused" /\ \A i \in 1..k-1 : link[i] # "unused"
  /\ ws' = k
  /\ link' = [link EXCEPT ![k] = "up"]
  /\ sock' = [sock EXCEPT ![k] = "open"]
  /\ up' = [up EXCEPT ![k] = <<Msg("hello", NoJob, pid)>>]
  /\ UNCHANGED <<daemonVars, down, pid, ready, task, taskWs, offer, offerCancel, held,
                 source, cancelled, final, rejected, rejCancel, run, started, boundVars>>

\* Its finally clause: every job still being processed is told to stop.
LostConnection ==
  /\ ws # 0 /\ link[ws] = "cut"
  /\ ws' = 0 /\ ready' = FALSE
  /\ down' = [down EXCEPT ![ws] = <<>>]
  /\ cancelled' = cancelled \cup source
  /\ UNCHANGED <<daemonVars, sock, link, up, pid, task, taskWs, offer, offerCancel, held,
                 source, final, rejected, rejCancel, run, started, boundVars>>

Receives(type) ==
  /\ ws # 0 /\ down[ws] # <<>> /\ Head(down[ws]).type = type
  /\ down' = [down EXCEPT ![ws] = Tail(@)]
  /\ UNCHANGED <<daemonVars, sock, pid, ws, started, boundVars>>

ReceiveHelloAck ==
  /\ Receives("hello_ack")
  /\ ready' = TRUE
  /\ UNCHANGED <<link, up, task, taskWs, offer, offerCancel, held, source, cancelled, final,
                 rejected, rejCancel, run>>

\* _reserve_job_offer, then a task for _handle_job.  An offer pending under
\* another lease raises, which ends the connection.
ReceiveJob(j, l) ==
  /\ Receives("job")
  /\ Head(down[ws]).job = j /\ Head(down[ws]).lease = l
  /\ IF offer[j] \in {0, l}
     THEN /\ offer' = [offer EXCEPT ![j] = l]
          /\ task' = [task EXCEPT ![j] = "new"]
          /\ taskWs' = [taskWs EXCEPT ![j] = ws]
          /\ UNCHANGED <<link, up>>
     ELSE CutLink(ws) /\ UNCHANGED <<offer, task, taskWs>>
  /\ UNCHANGED <<ready, offerCancel, held, source, cancelled, final, rejected, rejCancel, run>>

\* _handle_cancel: a rejected or merely offered job was never started; a
\* started one is sent /stop; any other cancel is ignored.
ReceiveCancel(j, l) ==
  /\ Receives("cancel")
  /\ Head(down[ws]).job = j /\ Head(down[ws]).lease = l
  /\ LET isRejected == rejected[j] = l
         isOffered == ~isRejected /\ offer[j] = l
         isStarted == ~isRejected /\ ~isOffered /\ held[j] = l /\ j \in source
     IN /\ rejCancel' = IF isRejected THEN rejCancel \cup {j} ELSE rejCancel
        /\ offerCancel' = IF isOffered THEN offerCancel \cup {j} ELSE offerCancel
        /\ cancelled' = IF isStarted THEN cancelled \cup {j} ELSE cancelled
        /\ up' = IF isStarted THEN Push(up, ws, Msg("cancelled", j, l))
                 ELSE IF isRejected \/ isOffered THEN Push(up, ws, Msg("not_started", j, l))
                 ELSE up
  /\ UNCHANGED <<link, ready, task, taskWs, offer, held, source, final, rejected, run>>

\* What a task that waits for its rejection does last.
EndRejection(j) ==
  /\ task' = [task EXCEPT ![j] = "none"]
  /\ rejected' = [rejected EXCEPT ![j] = 0]
  /\ rejCancel' = rejCancel \ {j}

\* result_stored resolves the waiter of the job, if it has one.
ReceiveStored(j) ==
  /\ Receives("result_stored")
  /\ Head(down[ws]).job = j
  /\ \/ /\ task[j] = "rejecting"
        /\ EndRejection(j)
        /\ IF rejected[j] = Head(down[ws]).lease THEN UNCHANGED <<link, up>>
           ELSE CutLink(taskWs[j])
        /\ UNCHANGED <<source, run>>
     \/ /\ task[j] # "rejecting" /\ run[j] = "sending"
        /\ run' = [run EXCEPT ![j] = "running"]
        /\ source' = IF held[j] = Head(down[ws]).lease THEN source \ {j} ELSE source
        /\ UNCHANGED <<task, rejected, rejCancel, link, up>>
     \/ /\ task[j] # "rejecting" /\ run[j] # "sending"
        /\ UNCHANGED <<task, rejected, rejCancel, link, up, source, run>>
  /\ UNCHANGED <<ready, taskWs, offer, offerCancel, held, cancelled, final>>

\* error cancel_superseded: a rejected job that no cancel frame has answered
\* is reported not started; a final is dropped.
ReceiveSuperseded(j) ==
  /\ Receives("superseded")
  /\ Head(down[ws]).job = j
  /\ \/ /\ task[j] = "rejecting"
        /\ EndRejection(j)
        /\ up' = IF j \in rejCancel THEN up
                 ELSE Push(up, taskWs[j], Msg("not_started", j, rejected[j]))
        /\ UNCHANGED <<source, cancelled, run>>
     \/ /\ task[j] # "rejecting" /\ run[j] = "sending"
        /\ cancelled' = cancelled \cup {j}
        /\ source' = source \ {j}
        /\ run' = [run EXCEPT ![j] = "running"]
        /\ UNCHANGED <<task, rejected, rejCancel, up>>
     \/ /\ task[j] # "rejecting" /\ run[j] # "sending"
        /\ UNCHANGED <<task, rejected, rejCancel, up, source, cancelled, run>>
  /\ UNCHANGED <<link, ready, taskWs, offer, offerCancel, held, final>>

\* A waiter fails: a rejection closes its connection, a final may be retried.
Unavailable(j) ==
  \/ /\ task[j] = "rejecting"
     /\ EndRejection(j)
     /\ CutLink(taskWs[j])
     /\ UNCHANGED run
  \/ /\ task[j] # "rejecting" /\ run[j] = "sending"
     /\ run' = [run EXCEPT ![j] = "running"]
     /\ UNCHANGED <<task, rejected, rejCancel, link, up>>

ReceiveError(j) ==
  /\ Receives("error")
  /\ Head(down[ws]).job = j
  /\ \/ Unavailable(j)
     \/ /\ task[j] # "rejecting" /\ run[j] # "sending"
        /\ UNCHANGED <<task, rejected, rejCancel, link, up, run>>
  /\ UNCHANGED <<ready, taskWs, offer, offerCancel, held, source, cancelled, final>>

\* resultStoreTimeoutMs passes without an answer.
StoreTimeout(j) ==
  /\ Unavailable(j)
  /\ UNCHANGED <<daemonVars, sock, down, pid, ws, ready, taskWs, offer, offerCancel, held,
                 source, cancelled, final, started, boundVars>>

\* The steps of a job's task and of Hermes leave these alone.
JobStep == UNCHANGED <<daemonVars, sock, down, pid, ws, ready, taskWs, boundVars>>

ReleaseOffer(j) ==
  /\ offer' = [offer EXCEPT ![j] = 0]
  /\ offerCancel' = offerCancel \ {j}

\* _release_job_maps
ReleaseMaps(j) ==
  /\ held' = [held EXCEPT ![j] = 0]
  /\ source' = source \ {j}
  /\ final' = final \ {j}
  /\ cancelled' = cancelled \ {j}

SessionBusy == \E j \in Jobs : run[j] # "none" \/ task[j] = "accepting"

\* _handle_job up to its first await: dropped if its offer was cancelled,
DropOffer(j) ==
  /\ task[j] = "new" /\ j \in offerCancel
  /\ ReleaseOffer(j)
  /\ task' = [task EXCEPT ![j] = "none"]
  /\ JobStep
  /\ UNCHANGED <<link, up, held, source, cancelled, final, rejected, rejCancel, run, started>>

\* rejected (a command, an unsafe or a busy session), which waits for the
\* durable ACK on the connection the job came by,
RejectJob(j) ==
  /\ task[j] = "new" /\ j \notin offerCancel
  /\ ReleaseOffer(j)
  /\ IF ready /\ ws = taskWs[j]
     THEN /\ \/ task' = [task EXCEPT ![j] = "rejecting"]
                /\ rejected' = [rejected EXCEPT ![j] = offer[j]]
             \/ link[ws] = "cut" /\ task' = [task EXCEPT ![j] = "none"] /\ UNCHANGED rejected
          /\ up' = Push(up, ws, Msg("failed", j, offer[j]))
          /\ UNCHANGED link
     ELSE /\ task' = [task EXCEPT ![j] = "none"]
          /\ CutLink(taskWs[j])
          /\ UNCHANGED rejected
  /\ JobStep
  /\ UNCHANGED <<held, source, cancelled, final, rejCancel, run, started>>

\* or admitted: its maps are written and accepted is sent, which may raise.
AdmitJob(j) ==
  /\ task[j] = "new" /\ j \notin offerCancel /\ ~SessionBusy
  /\ \/ /\ ws = taskWs[j]
        /\ task' = [task EXCEPT ![j] = "accepting"]
        /\ held' = [held EXCEPT ![j] = offer[j]]
        /\ source' = source \cup {j}
        /\ up' = Push(up, taskWs[j], Msg("accepted", j, offer[j]))
        /\ UNCHANGED <<offer, offerCancel, cancelled, final>>
     \/ /\ link[taskWs[j]] = "cut"
        /\ task' = [task EXCEPT ![j] = "none"]
        /\ ReleaseMaps(j) /\ ReleaseOffer(j)
        /\ UNCHANGED up
  /\ JobStep
  /\ UNCHANGED <<link, rejected, rejCancel, run, started>>

\* After accepted is sent: a cancel that came meanwhile wins,
AbandonJob(j) ==
  /\ task[j] = "accepting" /\ j \in offerCancel
  /\ task' = [task EXCEPT ![j] = "none"]
  /\ ReleaseMaps(j) /\ ReleaseOffer(j)
  /\ JobStep
  /\ UNCHANGED <<link, up, rejected, rejCancel, run, started>>

\* (mutant) the second look at the offer's cancel is missing
StartJob_IgnoresCancel(j) ==
  /\ task[j] = "accepting"
  /\ task' = [task EXCEPT ![j] = "none"]
  /\ ReleaseOffer(j)
  /\ \/ /\ run' = [run EXCEPT ![j] = "running"]
        /\ started' = [started EXCEPT ![j] = @ + 1]
        /\ UNCHANGED up
     \/ /\ up' = Push(up, taskWs[j], Msg("failed", j, held[j]))
        /\ UNCHANGED <<run, started>>
  /\ JobStep
  /\ UNCHANGED <<link, held, source, cancelled, final, rejected, rejCancel>>

\* else Hermes is handed the message, and begins to process it or raises.
StartJob(j) ==
  /\ task[j] = "accepting" /\ j \notin offerCancel
  /\ task' = [task EXCEPT ![j] = "none"]
  /\ ReleaseOffer(j)
  /\ \/ /\ run' = [run EXCEPT ![j] = "running"]
        /\ started' = [started EXCEPT ![j] = @ + 1]
        /\ UNCHANGED up
     \/ /\ up' = Push(up, taskWs[j], Msg("failed", j, held[j]))
        /\ UNCHANGED <<run, started>>
  /\ JobStep
  /\ UNCHANGED <<link, held, source, cancelled, final, rejected, rejCancel>>

\* send: Hermes hands over its final, again only if an earlier try failed.
SendFinal(j) ==
  /\ run[j] = "running" /\ j \in source /\ j \notin cancelled
  /\ final' = final \cup {j}
  /\ IF ready
     THEN /\ Len(up[ws]) + Len(down[ws]) < MaxQueue
          /\ run' = [run EXCEPT ![j] = "sending"]
          /\ up' = Push(up, ws, Msg("result", j, held[j]))
     ELSE UNCHANGED <<run, up>>
  /\ JobStep
  /\ UNCHANGED <<link, task, offer, offerCancel, held, source, cancelled, rejected,
                 rejCancel, started>>

\* on_processing_complete: reports a processing that had no final, and
\* releases the maps in any case.  /stop may end one that waits in send.
Complete(j) ==
  /\ run[j] = "running" \/ (run[j] = "sending" /\ j \in cancelled)
  /\ run' = [run EXCEPT ![j] = "none"]
  /\ \/ j \in final /\ UNCHANGED up
     \/ /\ j \notin final /\ (LocalStops \/ j \in cancelled)
        /\ up' = Push(up, ws, Msg("cancelled", j, held[j]))
     \/ j \notin final \cup cancelled /\ up' = Push(up, ws, Msg("failed", j, held[j]))
  /\ ReleaseMaps(j)
  /\ JobStep
  /\ UNCHANGED <<link, task, offer, offerCancel, rejected, rejCancel, started>>

\* The network breaks a connection.
Break(k) ==
  /\ link[k] = "up" /\ breaks < MaxBreaks
  /\ CutLink(k)
  /\ breaks' = breaks + 1
  /\ UNCHANGED <<jobVars, sockVars, down, adapterVars, started, carrier, cancels, failures>>

\* Hermes dies and is started again under a new process id.
CrashAdapter ==
  /\ breaks < MaxBreaks
  /\ breaks' = breaks + 1
  /\ pid' = pid + 1 /\ ws' = 0 /\ ready' = FALSE
  /\ IF ws # 0 THEN CutLink(ws) /\ down' = [down EXCEPT ![ws] = <<>>]
     ELSE UNCHANGED netVars
  /\ task' = [j \in Jobs |-> "none"] /\ taskWs' = [j \in Jobs |-> 0]
  /\ offer' = [j \in Jobs |-> 0] /\ held' = [j \in Jobs |-> 0]
  /\ rejected' = [j \in Jobs |-> 0]
  /\ offerCancel' = {} /\ source' = {} /\ cancelled' = {} /\ final' = {}
  /\ rejCancel' = {}
  /\ run' = [j \in Jobs |-> "none"]
  /\ UNCHANGED <<jobVars, sockVars, started, carrier, cancels, failures>>

-----------------------------------------------------------------------------
Daemon(k) ==
  \/ OnClose(k) \/ AcceptHello(k) \/ ConflictHello(k) \/ TakeoverHello(k) \/ StaleFrame(k)
  \/ \E j \in Jobs : \/ OnExecutionAccepted(k, j) \/ OnExecutionResult(k, j)
                     \/ OnExecutionFailed(k, j) \/ OnExecutionCancelled(k, j)
                     \/ OnExecutionNotStarted(k, j)

Listener ==
  \/ LostConnection \/ ReceiveHelloAck
  \/ \E j \in Jobs : \/ ReceiveStored(j) \/ ReceiveSuperseded(j) \/ ReceiveError(j)
                     \/ \E l \in 1..MaxAttempts : ReceiveJob(j, l) \/ ReceiveCancel(j, l)

Task(j) == DropOffer(j) \/ RejectJob(j) \/ AdmitJob(j) \/ AbandonJob(j) \/ StartJob(j)

Hermes(j) == SendFinal(j) \/ Complete(j) \/ StoreTimeout(j)

Next ==
  \/ OnRelayIncoming
  \/ \E k \in Connections : Daemon(k) \/ Connect(k) \/ Break(k)
  \/ Listener
  \/ CrashAdapter
  \/ \E j \in Jobs : OnRelayCancel(j) \/ Task(j) \/ Hermes(j)

Spec == Init /\ [][Next]_vars

\* transitionChain and the event loop run what is queued, and Hermes ends
\* every processing; nobody promises a cancel, a break or a reconnection.
Fairness ==
  /\ \A k \in Connections : WF_vars(Daemon(k))
  /\ WF_vars(Listener)
  /\ \A j \in Jobs : WF_vars(Task(j)) /\ WF_vars(Complete(j)) /\ WF_vars(StoreTimeout(j))

FairSpec == Spec /\ Fairness

-----------------------------------------------------------------------------
(* Properties.                                                             *)

\* A job is begun at most once, whatever connections break and whatever the
\* server believes of a frame it sent (docs/ARCHITECTURE.md: execution is at
\* most once): a job goes back to Acked only if its frame cannot arrive.
AtMostOnce == \A j \in Jobs : started[j] <= 1

\* A job that was claimed and then recorded Cancelled was never begun, and
\* never will be: the adapter's offer and rejection tombstones answer
\* not_started only while the task that holds the job can still be stopped.
NotStartedIsTrue == \A j \in Jobs : status[j] = "Cancelled" => started[j] = 0

\* result_stored is only ever in flight for a result that is in the outbox
\* under that lease, so what the adapter forgets is safe.
StoredIsDurable ==
  \A k \in Connections : \A i \in DOMAIN down[k] :
    down[k][i].type = "result_stored" =>
      /\ status[down[k][i].job] \in {"Succeeded", "Failed"}
      /\ lease[down[k][i].job] = down[k][i].lease

\* When a connection is ready, every job an earlier generation left active
\* has been settled: an active job was sent on the ready connection.
OldGenerationSettled ==
  \A j \in Jobs : active # 0 /\ status[j] \in Active => carrier[j] = active

\* The same as long as the database has refused no settlement.
SettledUnlessRefused == failures = 0 => OldGenerationSettled

\* A job whose connection is broken does not stay active, unless the database
\* refused the settlement.
AbandonedIsSettled ==
  \A j \in Jobs : (status[j] \in Active /\ link[carrier[j]] = "cut")
                 ~> (status[j] \notin Active \/ failures > 0)

\* A cancel that was submitted to the adapter is eventually settled as
\* Cancelled or CancelUnknown.
CancelIsSettled == \A j \in Jobs : status[j] = "Cancelling" ~> status[j] # "Cancelling"
=============================================================================
