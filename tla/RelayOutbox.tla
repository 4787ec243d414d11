---------------------------- MODULE RelayOutbox -----------------------------
(***************************************************************************)
(* How src/src/relay/client.ts delivers the rows of the outbox table over  *)
(* one WebSocket connection after another: replays, the ACK timer of every *)
(* message, the backoff of AckFailed rows, and what a disconnect, a failed *)
(* send, a stop or a crash leaves behind.  The relay server and the network *)
(* are external: they lose, delay and reorder what the client sends.       *)
(*                                                                         *)
(* A job gets its row with its result (JobStore), and a row with a result  *)
(* never belongs to a cancelled job (JobStore!CancelWins), so the          *)
(* cancel_requested clauses of the statements are always true here.        *)
(***************************************************************************)
EXTENDS Integers, FiniteSets, FiniteSetsExt

CONSTANTS
  Jobs,
  MaxRetries,   \* timing.resultMaxRetries
  BatchSize,    \* batchSize of replayOutbox
  StrayAcks,    \* the relay also acknowledges what it never received
  CrashInSend,  \* a crash may separate the attempt's row from the send
  DiskFails,    \* a statement of an ACK timer or of a replay may throw
  MaxFaults     \* bound: adverse events of one behaviour

ASSUME OutboxAssumption ==
  /\ MaxRetries \in Nat
  /\ BatchSize \in Nat \ {0}
  /\ StrayAcks \in BOOLEAN
  /\ {CrashInSend, DiskFails} \subseteq BOOLEAN
  /\ MaxFaults \in Nat

VARIABLES
  row,        \* outbox.status
  retryCount, \* outbox.retry_count
  attempts,   \* outbox_delivery_attempts: the message ids of each job
  due,        \* next_attempt_at has passed
  life,       \* the daemon: running, stopping or off
  conn,       \* the socket: down, open (after the handshake) or closing
  timers,     \* resultAckTimers
  recovery,   \* outboxRecoveryTimer is armed
  replays,    \* the running calls of replayOutbox
  wire,       \* messages handed to the socket
  acks,       \* acknowledgements on their way
  sent,       \* history: the jobs whose result was ever handed to a socket
  received,   \* history: the jobs whose result the relay received
  missed,     \* history: the jobs a refused statement left without a watcher
  faults      \* adverse events so far

table == <<row, retryCount, attempts, due>>
client == <<life, conn, timers, recovery, replays>>
network == <<wire, acks, received>>
vars == <<table, client, network, sent, faults, missed>>

\* What is left of the current batch, and whether another one may follow.
Replay == [todo : SUBSET Jobs, full : BOOLEAN]
NewReplay == [todo |-> {}, full |-> TRUE]

TypeOK ==
  /\ row \in [Jobs -> {"None", "Pending", "Delivering", "Delivered", "AckFailed"}]
  /\ retryCount \in [Jobs -> Nat]
  /\ attempts \in [Jobs -> SUBSET Nat]
  /\ due \in [Jobs -> BOOLEAN]
  /\ life \in {"running", "stopping", "off"}
  /\ conn \in {"down", "open", "closing"}
  /\ timers \subseteq Jobs
  /\ recovery \in BOOLEAN
  /\ replays \subseteq Replay
  /\ wire \subseteq Jobs \X Nat
  /\ acks \subseteq Jobs \X Nat
  /\ sent \subseteq Jobs
  /\ received \subseteq Jobs
  /\ missed \subseteq Jobs
  /\ faults \in 0..MaxFaults

Init ==
  /\ row = [j \in Jobs |-> "None"]
  /\ retryCount = [j \in Jobs |-> 0]
  /\ attempts = [j \in Jobs |-> {}]
  /\ due = [j \in Jobs |-> FALSE]
  /\ life = "running"
  /\ conn = "down"
  /\ timers = {}
  /\ recovery = FALSE
  /\ replays = {}
  /\ wire = {}
  /\ acks = {}
  /\ sent = {}
  /\ received = {}
  /\ missed = {}
  /\ faults = 0

Fault == faults < MaxFaults /\ faults' = faults + 1
Connected == conn = "open"

\* scheduleOutboxRecovery, with the rows as the step leaves them.
ScheduleRecovery_NotAgain == UNCHANGED recovery   \* (mutant) only stopped, never armed

ScheduleRecovery == recovery' = (conn' = "open" /\ \E j \in Jobs : row'[j] = "AckFailed")

-----------------------------------------------------------------------------
(* One delivery.                                                           *)

\* (mutant) whatever is not being delivered
Listed_AlsoDelivered == {j \in Jobs : row[j] \notin {"None", "Delivering"}}

\* listPendingOutbox
Listed == {j \in Jobs : row[j] = "Pending" \/ (row[j] = "AckFailed" /\ due[j])}

\* The WHERE clause of startResultDelivery.
CanStart(j, retry) == IF retry THEN row[j] = "Delivering" ELSE j \in Listed

NextId(j) == IF attempts[j] = {} THEN 1 ELSE Max(attempts[j]) + 1

CountOf(j, retry) ==
  IF row[j] = "AckFailed" THEN 0 ELSE retryCount[j] + IF retry THEN 1 ELSE 0

\* (mutant) the row only remembers its last message
Started_ForgetsEarlier(j, retry) ==
  /\ row' = [row EXCEPT ![j] = "Delivering"]
  /\ retryCount' = [retryCount EXCEPT ![j] = CountOf(j, retry)]
  /\ attempts' = [attempts EXCEPT ![j] = {NextId(j)}]
  /\ due' = [due EXCEPT ![j] = FALSE]

\* startResultDelivery
Started(j, retry) ==
  /\ row' = [row EXCEPT ![j] = "Delivering"]
  /\ retryCount' = [retryCount EXCEPT ![j] = CountOf(j, retry)]
  /\ attempts' = [attempts EXCEPT ![j] = @ \cup {NextId(j)}]
  /\ due' = [due EXCEPT ![j] = FALSE]

\* The attempt is stored, the message sent, its ACK timer set.
Send(j, retry, ts) ==
  /\ Started(j, retry)
  /\ wire' = wire \cup {<<j, NextId(j)>>}
  /\ sent' = sent \cup {j}
  /\ timers' = ts \cup {j}
  /\ UNCHANGED <<conn, acks, received>>

UncountRetry_Unguarded(n, retry) == n - 1   \* (mutant)

UncountRetry(n, retry) == IF retry /\ n > 0 THEN n - 1 ELSE n

\* The attempt just stored is deleted again.
ForgetAttempt(j) == UNCHANGED attempts

\* send throws: resetOutboxPendingAfterSendFailure undoes the attempt and the
\* socket is closed.
SendFails(j, retry, ts) ==
  /\ Fault
  /\ row' = [row EXCEPT ![j] = "Pending"]
  /\ retryCount' = [retryCount EXCEPT ![j] = UncountRetry(CountOf(j, retry), retry)]
  /\ ForgetAttempt(j)
  /\ due' = [due EXCEPT ![j] = FALSE]
  /\ conn' = "closing"
  /\ timers' = ts
  /\ UNCHANGED <<network, sent>>

-----------------------------------------------------------------------------
(* Replays.                                                                *)

\* A new replay looks at every row but those in Delivering.
StillMissed == {j \in missed : row[j] = "Delivering"}

\* The daemon stores the result of a job and calls notifyOutboxPending.
Answer(j) ==
  /\ life # "off"
  /\ row[j] = "None"
  /\ row' = [row EXCEPT ![j] = "Pending"]
  /\ replays' = IF Connected THEN replays \cup {NewReplay} ELSE replays
  /\ missed' = IF Connected THEN StillMissed ELSE missed
  /\ UNCHANGED <<retryCount, attempts, due, life, conn, timers, recovery,
                 network, sent, faults>>

\* A new connection has completed its handshake.
Connect ==
  /\ life = "running"
  /\ conn = "down"
  /\ conn' = "open"
  /\ replays' = replays \cup {NewReplay}
  /\ missed' = StillMissed
  /\ UNCHANGED <<table, life, timers, recovery, network, sent, faults>>

Continue(r, q) == replays' = (replays \ {r}) \cup {q}

\* deliverResult(j, false) of a job of the batch.
ReplayDeliver(r, j) ==
  LET rest == [r EXCEPT !.todo = @ \ {j}]
  IN /\ j \in r.todo
     /\ IF Connected /\ CanStart(j, FALSE)
        THEN \/ Send(j, FALSE, timers) /\ Continue(r, rest) /\ UNCHANGED faults
             \/ SendFails(j, FALSE, timers) /\ replays' = replays \ {r}
        ELSE Continue(r, rest) /\ UNCHANGED <<table, conn, timers, network, sent, faults>>
     /\ UNCHANGED <<life, recovery>>

Batches ==
  {b \in SUBSET Listed :
     Cardinality(b) = IF Cardinality(Listed) < BatchSize THEN Cardinality(Listed)
                      ELSE BatchSize}

ReplayList(r) ==
  /\ r.todo = {} /\ r.full /\ Connected /\ Listed # {}
  /\ \E b \in Batches :
       Continue(r, [todo |-> b, full |-> Cardinality(b) >= BatchSize])
  /\ UNCHANGED <<table, life, conn, timers, recovery, network, sent, faults>>

\* Nothing left, or not connected: the backoff timer is armed anew.
ReplayEnd(r) ==
  /\ r.todo = {} /\ ~(r.full /\ Connected /\ Listed # {})
  /\ replays' = replays \ {r}
  /\ UNCHANGED <<table, life, conn, timers, network, sent, faults>>
  /\ ScheduleRecovery

\* A statement throws: the caller closes the socket, except a notification,
\* whose error goes to the handler of what the daemon was told.
ReplayRefused(r) ==
  /\ DiskFails /\ Fault
  /\ Connected /\ (r.todo # {} \/ r.full)
  /\ replays' = replays \ {r}
  /\ \/ conn' = "closing" /\ UNCHANGED missed
     \/ missed' = missed \cup {j \in Jobs : row[j] \in {"Pending", "AckFailed"}} /\ UNCHANGED conn
  /\ UNCHANGED <<table, life, timers, recovery, network, sent>>

ReplayStep(r) ==
  /\ r \in replays
  /\ \/ /\ (\E j \in Jobs : ReplayDeliver(r, j)) \/ ReplayList(r) \/ ReplayEnd(r)
        /\ UNCHANGED missed
     \/ ReplayRefused(r)

-----------------------------------------------------------------------------
(* Timers.                                                                 *)

\* The message of j, or the answer to it, may still arrive.
Outstanding(j) == \E m \in attempts[j] : <<j, m>> \in wire \cup acks

MayRetry(j) == retryCount[j] < MaxRetries

\* The ACK timer of j: firing while the answer is on its way is a fault.
TimerRetries(j) ==
  /\ row[j] = "Delivering" /\ Connected /\ MayRetry(j)
  /\ \/ Send(j, TRUE, timers \ {j}) /\ IF Outstanding(j) THEN Fault ELSE UNCHANGED faults
     \/ SendFails(j, TRUE, timers \ {j})
  /\ UNCHANGED recovery

TimerGivesUp(j) ==
  /\ row[j] = "Delivering" /\ Connected /\ ~MayRetry(j)
  /\ IF Outstanding(j) THEN Fault ELSE UNCHANGED faults
  /\ row' = [row EXCEPT ![j] = "AckFailed"]
  /\ due' = [due EXCEPT ![j] = FALSE]
  /\ timers' = timers \ {j}
  /\ UNCHANGED <<retryCount, attempts, conn, network, sent>>
  /\ ScheduleRecovery

TimerFindsNoConnection(j) ==
  /\ row[j] = "Delivering" /\ ~Connected
  /\ row' = [row EXCEPT ![j] = "Pending"]
  /\ due' = [due EXCEPT ![j] = FALSE]
  /\ timers' = timers \ {j}
  /\ UNCHANGED <<retryCount, attempts, conn, recovery, network, sent, faults>>

\* A statement throws: the error is logged, or that of a retry closes the
\* socket; the timer is gone.
TimerRefused(j) ==
  /\ DiskFails /\ Fault
  /\ timers' = timers \ {j}
  /\ missed' = missed \cup {j}
  /\ UNCHANGED conn \/ (Connected /\ MayRetry(j) /\ conn' = "closing")
  /\ UNCHANGED <<table, recovery, network, sent>>

TimerFires(j) ==
  /\ j \in timers
  /\ \/ /\ TimerRetries(j) \/ TimerGivesUp(j) \/ TimerFindsNoConnection(j)
        /\ UNCHANGED missed
     \/ TimerRefused(j)
  /\ UNCHANGED <<life, replays>>

\* Time reaches next_attempt_at.
BecomeDue(j) ==
  /\ row[j] = "AckFailed"
  /\ ~due[j]
  /\ due' = [due EXCEPT ![j] = TRUE]
  /\ UNCHANGED <<row, retryCount, attempts, client, network, sent, faults, missed>>

RecoveryFires ==
  /\ recovery
  /\ recovery' = FALSE
  /\ replays' = replays \cup {NewReplay}
  /\ missed' = StillMissed
  /\ UNCHANGED <<table, life, conn, timers, network, sent, faults>>

-----------------------------------------------------------------------------
(* The relay and the network.                                              *)

RelayReceives(j) ==
  /\ \E m \in attempts[j] :
       /\ <<j, m>> \in wire
       /\ wire' = wire \ {<<j, m>>}
       /\ acks' = acks \cup {<<j, m>>}
  /\ received' = received \cup {j}
  /\ UNCHANGED <<table, client, sent, faults, missed>>

Lose ==
  /\ Fault
  /\ \/ \E x \in wire : wire' = wire \ {x} /\ UNCHANGED acks
     \/ \E x \in acks : acks' = acks \ {x} /\ UNCHANGED wire
  /\ UNCHANGED <<table, client, sent, received, missed>>

\* resolveAckJobId: an ACK names its job, or the id of one of its messages.
Resolves(j, m, form) == row[j] # "None" /\ (form = "job_id" \/ m \in attempts[j])

\* The WHERE clause of markOutboxDelivered.
Settles(j) ==
  /\ row[j] \in {"Pending", "Delivering", "AckFailed"}
  /\ attempts[j] # {}

\* ack_send_result for j; the timer is cleared if the row changes.
HandleAck(j) ==
  /\ IF Settles(j)
     THEN /\ row' = [row EXCEPT ![j] = "Delivered"]
          /\ due' = [due EXCEPT ![j] = FALSE]
          /\ timers' = timers \ {j}
          /\ missed' = missed \ {j}
     ELSE UNCHANGED <<row, due, timers, missed>>
  /\ UNCHANGED <<retryCount, attempts, life, conn, replays, wire, received, sent>>
  /\ ScheduleRecovery

ReceiveAck(j) ==
  /\ conn # "down"
  /\ \E x \in acks, form \in {"job_id", "msg_id"} :
       /\ x[1] = j
       /\ acks' = acks \ {x}
       /\ IF Resolves(j, x[2], form) THEN HandleAck(j)
          ELSE UNCHANGED <<table, client, wire, received, sent, missed>>
  /\ UNCHANGED faults

\* An acknowledgement again of a result the relay has received or, with
\* StrayAcks, of one it may never have seen.
ReceiveStrayAck(j) ==
  /\ StrayAcks \/ j \in received
  /\ Connected
  /\ row[j] # "None"
  /\ Fault
  /\ HandleAck(j)
  /\ UNCHANGED acks

-----------------------------------------------------------------------------
(* Connections and processes end.                                          *)

\* The socket starts to close: a peer, the heartbeat or an error closed it.
Disconnect ==
  /\ Connected
  /\ Fault
  /\ conn' = "closing"
  /\ UNCHANGED <<table, life, timers, recovery, replays, network, sent, missed>>

\* What was on the wire arrives or is lost with the connection.
Cut ==
  /\ wire' = {}
  /\ \E late \in SUBSET wire : received' = received \cup {x[1] : x \in late}
  /\ acks' \in SUBSET acks

\* (mutant) the rows are left as they are
ClearTimers_NoReset == timers' = {} /\ UNCHANGED table

\* clearResultTimers(true)
ClearTimers ==
  /\ row' = [j \in Jobs |-> IF j \in timers /\ row[j] = "Delivering" THEN "Pending" ELSE row[j]]
  /\ due' = [j \in Jobs |-> due[j] /\ row'[j] = "AckFailed"]
  /\ timers' = {}
  /\ UNCHANGED <<retryCount, attempts>>

\* The close event, and the finally block of connectOnce.
FinishClose ==
  /\ conn = "closing"
  /\ conn' = "down"
  /\ recovery' = FALSE
  /\ ClearTimers
  /\ Cut
  /\ UNCHANGED <<life, replays, sent, faults, missed>>

Stop ==
  /\ life = "running"
  /\ Fault
  /\ life' = "stopping"
  /\ conn' = IF Connected THEN "closing" ELSE conn
  /\ recovery' = FALSE
  /\ ClearTimers
  /\ UNCHANGED <<replays, network, sent, missed>>

Stopped ==
  /\ life = "stopping"
  /\ conn = "down"
  /\ life' = "off"
  /\ replays' = {}
  /\ missed' = {}
  /\ UNCHANGED <<table, conn, timers, recovery, network, sent, faults>>

Die ==
  /\ life' = "off"
  /\ conn' = "down"
  /\ timers' = {}
  /\ recovery' = FALSE
  /\ replays' = {}
  /\ Cut
  /\ missed' = {}
  /\ UNCHANGED sent

Crash == life # "off" /\ Fault /\ Die /\ UNCHANGED table

\* The process dies between the commit of startResultDelivery and the send.
CrashBeforeSend(j) ==
  /\ CrashInSend
  /\ Connected
  /\ \/ CanStart(j, FALSE) /\ (\E r \in replays : j \in r.todo) /\ Started(j, FALSE)
     \/ CanStart(j, TRUE) /\ j \in timers /\ MayRetry(j) /\ Started(j, TRUE)
  /\ Fault
  /\ Die

\* recoverAfterRestart
Start ==
  /\ life = "off"
  /\ life' = "running"
  /\ row' = [j \in Jobs |-> IF row[j] = "Delivering" THEN "Pending" ELSE row[j]]
  /\ UNCHANGED <<retryCount, attempts, due, conn, timers, recovery, replays,
                 network, sent, faults, missed>>

-----------------------------------------------------------------------------
Next ==
  \/ \E j \in Jobs :
       \/ Answer(j) \/ TimerFires(j) \/ BecomeDue(j) \/ RelayReceives(j)
       \/ ReceiveAck(j) \/ ReceiveStrayAck(j) \/ CrashBeforeSend(j)
  \/ \E r \in Replay : ReplayStep(r)
  \/ RecoveryFires \/ Lose \/ Connect \/ Disconnect \/ FinishClose
  \/ Stop \/ Stopped \/ Crash \/ Start

Spec == Init /\ [][Next]_vars

\* The event loop runs what is due, the client reconnects, a supervisor
\* restarts the daemon; once the faults are used up the relay receives and
\* acknowledges what is sent over a connection that stays open.
Fairness ==
  /\ \A j \in Jobs : /\ WF_vars(TimerFires(j)) /\ WF_vars(BecomeDue(j))
                     /\ WF_vars(RelayReceives(j)) /\ WF_vars(ReceiveAck(j))
  /\ \A r \in Replay : WF_vars(ReplayStep(r))
  /\ WF_vars(RecoveryFires) /\ WF_vars(Connect) /\ WF_vars(FinishClose)
  /\ WF_vars(Stopped) /\ WF_vars(Start)

FairSpec == Spec /\ Fairness

-----------------------------------------------------------------------------
(* Properties.                                                             *)

\* A row in Delivering has a timer that will retry it, give it up or reset it
\* as long as the process that sent it lives, unless the disk refused a
\* statement of that timer; no other row has one.
DeliveringIsWatched ==
  /\ life # "off" => \A j \in Jobs : /\ j \in timers => row[j] = "Delivering"
                                  /\ row[j] = "Delivering" => j \in timers \cup missed
  /\ timers # {} => conn # "down"

\* While connected, a row in backoff has an armed timer, and a pending or due
\* row a replay that has not looked yet, or had one the disk refused.
BackoffIsWatched ==
  Connected =>
    /\ (\E j \in Jobs \ missed : row[j] = "AckFailed") => recovery \/ replays # {}
    /\ \A j \in Jobs \ missed : row[j] = "Pending" =>
         \E r \in replays : j \in r.todo \/ r.full

\* No undelivered result waits for the next reconnect: whatever its row says,
\* a timer or a replay of the relay client will look at it again.  Without one
\* it is stuck, as neither replay nor retry selects it.
UndeliveredIsWatched == DeliveringIsWatched /\ BackoffIsWatched

\* Every message the relay may acknowledge is still on record, so an ACK that
\* names a message of an earlier connection or of an earlier daemon resolves.
HistoryResolves == \A x \in wire \cup acks : x[2] \in attempts[x[1]]

\* A result that was never handed to a socket accepts no acknowledgement.
UnsentRefusesAck == \A j \in Jobs : row[j] = "Delivered" => j \in sent

\* Every result is eventually settled, however the faults are spent, unless the
\* disk took its watcher away and the daemon does not restart.
EventuallyDelivered ==
  \A j \in Jobs : row[j] # "None" ~> row[j] = "Delivered" \/ j \in missed

\* What a test states: once a connection ended, what was under way on it is
\* Pending again, and the next connection replays it.
DisconnectResets ==
  conn = "down" /\ life # "off" => \A j \in Jobs : row[j] # "Delivering"

Abstract == INSTANCE ResultDelivery WITH
  owed    <- {j \in Jobs : row[j] # "None"},
  settled <- {j \in Jobs : row[j] = "Delivered"}

\* Every step delivers as promised: the daemon settles a result only after
\* the relay received it, and never takes that back.
ImplementsResultDelivery == Abstract!Spec
=============================================================================
