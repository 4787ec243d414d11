# Verification of livis-relayd

`livis-relayd` connects glasses, through a cloud relay, to an assistant on the
user's machine. A message of the relay becomes a *job*; a *backend* (Hermes,
Codex or Claude) executes it; its result goes back through an *outbox* until
the relay acknowledges it. Nothing may be executed twice or lost, a cancelled
job has no result, and whatever a crash leaves open needs a decision of the
operator before the session is used again. This directory holds TLA+ models of
that, TLC configurations that check them, and proofs that TLAPS checks.

## 1. Inventory

| part | code | state | operations | model |
|---|---|---|---|---|
| job store | `src/state/store.ts` | tables `jobs`, `backend_sessions`, `execution_attempt_events`, `session_quarantines`, `pending_cancels`, `outbox` | ingest, claim, accept, result, fail, cancel, reset, disconnect, recover, release | `JobStore`, `JobExecution` |
| outbox delivery | `store.ts` 1822-1960, `src/relay/client.ts` | `outbox`, `outbox_delivery_attempts`, ACK timers, backoff timer, connection | start delivery, send, ACK, time out, disconnect, restart | `RelayOutbox`, `ResultDelivery` |
| Hermes connector | `src/connector/server.ts`, handlers in `src/daemon.ts` | active socket, generation, `disconnectHandled`, transition chain | hello, takeover, close, job, cancel, four result frames | `HermesConnector` |
| Hermes adapter | `hermes-plugin/adapter.py` | connection, offers, leases, sources, finals, waiters, cancelled jobs | admit, start, complete, cancel, abandon | `HermesConnector` |
| relay client loop | `src/relay/client.ts` 88-256 | run promise, abort signal, socket, terminal failure | start, stop, connect, hooks, backoff | `UpstreamGate` |
| upstream gate | `src/daemon.ts` 303-353, 695-738, 844-1082 | proof's deadline, timer, blocker, pending stop, recheck, dispatch loops | start, stop, recheck, expire, block, reopen, dispatch | `UpstreamGate` |
| app-server client | `src/backends/codex/app-server-client.ts` | pending requests, write queue, process group | request, time out, close, exit | `AppServerClient` |
| Codex private backend | `src/backends/codex/codex-execution-backend.ts`, `runtime-layout.ts` | attempt, turn id, buffered notifications, deadline, client epoch | dispatch, notify, cancel, deadline, exit, idle recovery, start, stop | `CodexTurn` |
| Codex native backend | `src/backends/codex/native-*.ts` | harness, coordinator, lifecycle, context of the submission | dispatch, notify, cancel, deadline, exit, start, stop | `NativeTurn` |
| Claude backend | `src/backends/claude/` | pending submission, active attempt, child process, stream | dispatch, cancel, run, report, close, start, stop | `ClaudeTurn` |
| the backend a daemon runs | `src/daemon.ts` handlers of backend events, `src/backends/execution-backend.ts` | one session of the store | the contract of dispatch and cancel | `ExecutionPromise`, `DurableSession`, `ExecutionBackends` |
| installation | `src/install/` | releases, current pointer, receipts, service, Hermes bridge | install, upgrade, roll back, uninstall | `Deployment`, `AdminCommands` |
| activation, migration | `src/upstream/activation.ts`, `profile-migration.ts`, `proof.ts` | config, profiles, proofs, backups, receipts | check, activate, roll back, migrate, undo the migration | `ProfileCommands`, `AdminCommands` |
| backend switch, guards | `src/backend/switch.ts`, `src/state/offline-guard.ts` | profile guard, offline guard at the socket's path, config | switch, acquire, release, keep | `ProfileCommands`; a restart under another backend is in `JobStore` |
| the rest | config, identity, auth, protocol tables, context, logging, release tools | none that is shared between jobs | | not modelled |

How the parts interact. All durable state goes through the store, in SQLite
transactions that no other call splits. The relay client calls the daemon
(`onIncoming`, `onCancel`, `onConnected`), the daemon calls the store and then
the backend (`dispatch`, `cancel`), the backend answers with events
(`onAccepted`, `onResult`, `onFailed`, `onCancelled`, `onDisconnected`), and
each event that ends a job makes the daemon dispatch the next one and replay
the outbox. All of it shares one JavaScript thread: two operations interleave
at `await`, a timer or a message, and a crash may come between any two
transactions. The connector's frames, and the relay's, cross a process
boundary and may be in flight when either end goes away.

What is hard about it: an event that names an attempt that is no longer the
current one; a cancel anywhere in a job's life, also before the job; a crash
between a transaction and the message it announces; timers that stand for many
results; a connection replaced while the old one still owes answers; a callback
that begins a stop which waits for that callback. `PROJECT.json` lists these
hazards, each with its line and the properties that watch it.

What makes each part correct is in section 3.

## 2. Plan

1. `JobExecution`, `JobStore` with proofs: done.
2. `ResultDelivery`, `RelayOutbox`: done.
3. `HermesConnector`: done.
4. `UpstreamGate`: done.
5. `ExecutionPromise`, `AppServerClient`, `DurableSession`, `CodexTurn`,
   `NativeTurn`, `ClaudeTurn` and their composition `ExecutionBackends`: done.
6. `Deployment`, `ProfileCommands` and their union `AdminCommands`: done.
7. `JobStoreProofs`, `RelayOutboxProofs`, `HermesConnectorProofs`,
   `UpstreamGateProofs`, `ExecutionBackendsProofs`, `DeploymentProofs`,
   `ProfileCommandsProofs` and `AdminCommandsProofs`: done (section 6).
8. Left: `TokenRefresh` (the retries of the relay token on one connection).

## 3. The modules

Every module names a handler or transaction of the code by one action, with the
code's early returns as guards. Common to all:

- A lease is a random UUID; the models name it by the attempt (generation) it
  was drawn for, 0 stands for NULL. A call may name any attempt of the past.
- A transaction the code refuses changes nothing, so it is a stuttering step.
- Constants named `Max...` are bounds on what the environment does (connections,
  faults, cancels) or on counters the code leaves unbounded. Configurations set
  `CHECK_DEADLOCK FALSE` because at those bounds a model may stop.
- Definitions whose name has a suffix after an underscore
  (`OthersActive_ForgetsCancelling`) are wrong variants of the definition before
  the underscore. No specification uses them: each is a plausible mistake that
  some property must detect when it takes the place of the original.

### JobExecution and JobStore

`JobExecution` is the promise to a relay: a job is started at most once per
attempt, an attempt ends once, cancellation wins over a result, and what a
crash interrupts is not started again. `JobStore` is the code: one action per
transaction that the daemon, the backends or the CLI call, over the columns
that decide anything. `Crash`, `Restart` and a restart under another backend
are actions; `ReleaseSessionRecovery` is the operator's command and may come
with the daemon up or down. The initial states are databases that an earlier
run left.

- `OneActivePerSession`: no session has two jobs executing.
- `FenceAgreement`: the row of a backend's session and the job it names agree
  on attempt, turn and lease; no stale callback splits them.
- `RecoveryFenced`: a session that needs recovery is quarantined, and only one
  backend's row of it is in that state.
- `LedgerTellsStatus`: the events of an attempt tell the status of its job, so
  that the operator can rely on the ledger after a crash.
- `CancelWins`, `SettledForever`: an accepted cancel leaves no result; an ended
  job never changes.
- `RestartCanRecover`, `OperatorCanRelease`: from every state, the next start
  and the operator's command find what their transactions require, so that no
  session is lost.
- `IntentsAreFuture`: cancel intents stand for unseen jobs and keep to the cap.
- `ImplementsJobExecution`: the refinement, with the abstract state computed
  from status, generation and ledger.

`MCJobStore` has two jobs of one session, Hermes and both durable backends, so
that the session may have two rows, and restarts between them. Two generations
make one attempt stale, and calls may name it at any time. One session is enough
for TLC: no transaction reads a row of another session, and a daemon has only
one (`livis:<agentId>`); the proofs cover any.

### ResultDelivery and RelayOutbox

`RelayOutbox` models the outbox tables, the relay client's replay, delivery,
ACK timer, backoff timer, disconnect and the restart of the process; the relay
and the network are external: messages are lost, delayed and acknowledged late,
also after a disconnect or a restart. `deliverResult` has no await, so it is
one step, except that a crash may cut it between the transaction and the send
(`CrashInSend`). Timer callbacks and replays may interleave more freely
than microtasks do. Adverse events spend `MaxFaults`; `sent`, `received` and
`missed` are history. With `DiskFails` a statement of an ACK timer's callback
(`TimerRefused`) or of a replay (`ReplayRefused`) may throw; `missed` are the
results that lost their watcher that way, until a new replay looks at them, an
acknowledgement settles them or the daemon restarts. The relay may acknowledge again whatever it received; with
`StrayAcks` also what it never received (the run of the crash).

- `UndeliveredIsWatched`: while connected, a result in `Delivering` has an ACK
  timer (`DeliveringIsWatched`) and one in backoff is covered by the backoff
  timer (`BackoffIsWatched`), except those in `missed`.
- `HistoryResolves`: an acknowledgement for any message ever sent can be
  related to its result.
- `ImplementsResultDelivery`: a result is settled only by an acknowledgement and
  never unsettled.
- `EventuallyDelivered` (fair): every result is delivered if faults are finite,
  or it is in `missed`, where one in `Delivering` stays until a restart.
- `DisconnectResets`: after a connection ended nothing is in `Delivering`;
  violated by one statement that throws in a timer (`MCRelayOutboxDisk`, finding 6).
- `UnsentRefusesAck`: a result that was never sent accepts no acknowledgement;
  violated by a crash inside a delivery (`MCRelayOutboxCrash`, finding 1).

Two results, a batch of one (the code's is 100, so one result would never list
twice), one retry and three faults make replay list again, retry, back off and
reconnect. The third fault (`OneJobFaults`) only comes while one of the results is
not there yet: it is needed to exhaust the retries of a result and then to fault its
backoff, which is a matter of that result alone.

### HermesConnector

Server and adapter, joined by connections with a queue in each direction. The
server's transitions run one at a time, as `transitionChain` makes them; a
handler, its acknowledgement and the dispatch that follows are one step. The
adapter's tasks (`run`), its receive loop and its waits are separate actions.
A broken connection loses any tail of its frames; the process of Hermes may
end; a takeover may come before the old socket's close event. A half-open
socket is one whose close comes late.

- `AtMostOnce`: an attempt is begun at most once, and a job taken back as unsent
  was not delivered, whatever `send` reports.
- `NotStartedIsTrue`: a job that ends `Cancelled` as not started was not begun.
- `StoredIsDurable`: a final that the adapter forgot was durably answered.
- `OldGenerationSettled`, `AbandonedIsSettled` (fair): a new generation is ready
  only when the old one is settled; no job stays active on a broken connection.
  Both hold as long as the database accepts the settlement, which is how
  `SettledUnlessRefused` and `AbandonedIsSettled` state them; with one refusal
  the first does not (`MCHermesConnectorUnsettled`, finding 3).
- `CancelIsSettled` (fair): a cancel that was sent is settled. It is not when it
  crosses the adapter's `failed` (`MCHermesConnectorCancel`, finding 4).

Two jobs, two connections, two attempts, one cancel and one break are the
least that lets a late close, a takeover and a stale lease meet; `MaxQueue`
bounds how many finals Hermes repeats. A behaviour of the run has the cancel or a
refused settlement (`CancelOrFailure`); the proofs (section 6) have any number of both. Not modelled: `adapter.disconnect()`,
version negotiation, hello timeout, frame limits, and the release of a
quarantined session (that is `JobStore`'s).

### UpstreamGate

The daemon's gate over the relay client's loop. A step is what runs between two
awaits; the clock (`Expire`) moves at any time, also between a claim and its
submission. A proof is fresh or not; `timer` is the one-shot deadline. The
recheck is a place in `runUpstreamRecheck` (`check`), a caller of
`dispatchPending` a place in it (`at`): `connected` is the callback that the
loop awaits, `recheck` the call after a reopening, `other` stands for messages,
`onReady` and deferred dispatches, of which one is under way at a time. A token
request is awaited in `token`; `closing` is a socket told to close.

- `OpenGateIsWatched`: while the gate is open a timer is armed for the proof.
- `OneLoop`: at most one loop runs, and it is the one every stop waits for.
- `ExpiredSubmitsNothing`: no job is handed over past the deadline.
- `StopIsFinal`: after `stop()` returned nothing reconnects, claims or saves.
- `StopsReturn` (fair): closing the gate and stopping the daemon end once sockets were told to close and no token is awaited,
  although either may have been begun by the callback the loop awaits.
- `ClosedGateIsOffline` is violated (`MCUpstreamGateToken`, finding 2): a token
  that arrives after the gate closed opens a socket. That is also why the
  liveness property needs its condition.

Two loops, a saved proof and a reconnect let a deadline pass before, during and
after the one reopening; a behaviour has a second loop or a reconnect of the first,
and from then on one caller of `dispatchPending` at a time (`SecondLoop`), while
before, and in the proofs, they meet in any number. One job is enough because one session runs one job at a
time, and it may be of an allowed node, of one that no longer is (`Foreign`), or
arrive at any time. `relay.stop()` cannot fail in this program (it swallows
the loop's error), so its failure is not an outcome. Heartbeats, the refresh
of the relay token on an open connection, and the contents of the proof are left
out; the backend's own stop, which `stop()` also awaits, ends by itself.

### The execution backends

`ExecutionPromise` is what a backend promises for the one session it serves: a
request reaches its program at most once; a job is given back or withdrawn
without an ambiguity only if its request has not reached the program and never
will; only an executed job is answered; an unknown outcome closes the session.
`DurableSession` is that session as the daemon's handlers record it (`db`), a
view of `JobStore`'s tables for one backend without stale callers, and `runs`,
the truth in the program. `AppServerClient` is the JSON-RPC client with the pipe
and the process: the difference between "never written", "written, no answer"
and "given up, but the process may still read it" is what `not_sent` rests on.

In the three backends an activity (dispatch, cancel, the event queue, the
deadline, recovery, start, stop) is a place in `pc`, and an action is what it
does from one `await` to the next; any other activity, the daemon's handler of
a relay cancel, or the program may come between. What runs to the next
microtask only, with no I/O between, is one step.

- `CodexTurn`: the backend with a private key. Notifications that come before
  the answer of `turn/start` are buffered (`MaxBacklog`), a cancel waits for the
  turn's id, the deadline interrupts and has its grace, an idle thread with a
  system error is recovered (`MaxTries`) with a new process.
- `NativeTurn`: backend, harness, coordinator and lifecycle of the operator's
  own Codex. With an assistant context the context is sent before the turn, and
  `stop()` has to wait for that submission.
- `ClaudeTurn`: one child per job. The stream of stdout, the end of the process
  and the report to the daemon race each other and the deadline; a handler of
  the daemon may throw; a process that stays is waited for (`failClosed`).
- `ExecutionBackends` runs any of the three over the session, as the
  configuration names it, and states the properties and the fairness.

Properties:

- `ImplementsExecutionPromise`: the refinement, with `phase` read from `db`.
- `CheckpointFollowsTail`: a backend that would dispatch has recorded the tail of
  its thread, a failed turn's included; nothing ran that is not accounted for.
- `ClaimedJobsSettle` (fair): a claimed job leaves the active statuses.
  Exceptions, each in the formula: a private Codex process whose close could not
  be confirmed while `disableBeforeSubmission` was closing it, because then
  `dispatch` throws and nobody resets the job (`cleanup`); a native app-server
  whose transport broke and whose process nothing ends (the deadline's handler
  returns when the client is not running); a native backend that `stop()` found
  between the end of a turn and its checkpoint (the next start settles the job).
- `StoppedIsQuiet` (the private backend): after `stop()` no process runs, or the session
  is fenced, and no job is active.
- `NotSentMeansUnsent` is violated (`MCExecutionBackendsStop`, finding 5). It is why
  `LateCancels` is FALSE in the passing run: no cancel is handled while `stop()`
  waits for a submission.

Abstracted: each audit of account, features, layout, versions and thread
metadata compares much and then continues or fails; the models let each of them
fail. A line of Claude's stream is one its consumer takes or one it refuses.
Not modelled: a database that refuses in any handler but Claude's `onResult` and
`onFailed`; a rejection of Claude's stdout task that comes while its input is
still being flushed is noticed at the next wait; a late timer of a Claude attempt
(`native-execution-backend.ts:512`) asks for its attempt first and is not
observable. Two jobs make a dispatch follow another attempt whose notifications,
lines and timers are still about; that job is not withdrawn before the first is over,
and of the private backend it meets no recovery before it and no `stop()`
(`SecondJob`): those the first job meets.

### The commands that change an installation

`AdminCommands` joins two families of commands. They share no file and no lock,
and each takes the daemon's start or stop as something that may happen at any
time, so a behaviour has the commands of one of them (`family`).

**`Deployment`.** `install`, `upgrade`, `rollback` and `uninstall` as the code
runs them: a request is planned without the lock, checked again under it, and is
then a set of steps (`todo`), taken in the order of their path (`IsNext`), over four
places no transaction covers. `host` holds
the pointer `current.json`, the service's definition, what runs, the bridge and
the receipts. Each step returns, or throws with or without its effect; the catch
block then restores what its flags say was touched, in the code's order, and goes
on with the next group if one of its own steps throws. The bridge is three steps
(plugin, `config.yaml`, receipt) with an undo of its own. A killed process leaves
its lock; the operator may remove it, run or stop the service, and edit files,
between operations only. Not modelled: archives and digests (a check that may
refuse), loss of power, a lock file that cannot be deleted, the bridge commands
run outside a deployment, a change of the service manager, a managed rollback
with no manager. `uninstall` has no compensation: one that fails after it removed
the definition leaves a pointer that every later operation refuses until it is
repaired by hand.

**`ProfileCommands`.** `upstream check`, `activate`, `rollback`, `profile
migrate-v2` and its rollback, and `backend switch`. Each is a row of steps over
`disk` (the config, the profile files, the proof of each profile and the alias,
approvals, backups, receipts) that commits by one rename of the config; a step
returns, or throws with or without its effect, and the code's catch blocks decide
what is undone. Three commands plan from a config read before any lock and
compare it again when both guards are held. A profile file may be lost or damaged
at any time (`hurt` remembers what was, so that only such a loss excuses a pin
that does not resolve).

The guards are files: `guard` is `profile-operation.guard`, which every command,
the daemon's start and its rechecks create and delete; `socket` is the path of the
connector's socket, at which an offline command puts a file, because a starting
daemon clears away a socket and refuses anything else. A killed process leaves
its files, a release may throw, and a rename that cannot be confirmed
(`DurableCommitUncertainError`) keeps both (`keep`); then only the operator, who
makes sure of the config first, removes them (`OperatorClears`). That rename is
the only place where the models let the loss of power in, as `unsure`.

There is one daemon, as with a service manager: a second one would take the
first's socket away (`connector/server.ts:155`). Its start is two steps, between
which the guard is held; its stop is one. Abstracted: what a profile must satisfy
(`validateProfileActivation`) is its schema and its content; a proof's freshness is
its existence; jobs that forbid a switch are a refusal. Not modelled: the markers
written after a commit and the backup and receipts of the switch and of a
migration's rollback, which no command reads; a program outside that rewrites the
config; `login` and `logout`.

Properties of both, in `AdminCommands`:

- `SuccessIsTrue`. A deployment that reports success leaves the pointer at a final
  receipt, the definition it describes, its bridge in place and the service as
  asked, whatever crashes and half compensations came before. A profile command
  that reports success has the config it was asked for, a profile file with the
  pinned content, and its evidence: backup, approval, proof and alias of an
  activation, no proof of either schema after a migration or its rollback.
- `NothingHalfDone`. A command that fails and names nothing it could not restore
  has restored it: pointer, definition, bridge, activity and status, or config,
  and for an activation or a check also proofs and approval. The exceptions for
  the installer are those of the code, section 7; each was confirmed by checking
  the property without it. And at any moment: the live config, every backup and
  both sides of every migration's receipt name a profile that is there unless it
  was damaged from outside (`TextsResolve`), and a daemon that starts or runs has
  the backend and the schema of the live config, whose rename is durable
  (`DaemonIsCurrent`).
- `TypeOK` holds, with the types, the exclusion each lock is for.

Two command lines and two mishaps (a step that throws, a crash, a damaged file)
let a compensation fail, a crash precede a failure, and a plan meet another
command. Installer: two releases and two deployments let an upgrade, its rollback
and a stale plan meet. Profiles: one id with two contents, so that one may be
installed over the other, an old profile of schema 1 or a migrated one, two
backends, three commands; an activation, another command and the way back fit
into that. The constraint `OnePlanWaits` leaves out states in which both installer
command lines hold a plan: a plan only reads what the holder of the lock changes,
so the second may as well plan just after the first has entered. `FewEvents` leaves
out behaviours in which two deployments are prepared and two mishaps come, or three
commands of the profiles and two mishaps: two mishaps hit one deployment, or at most
two commands. Deadlock is not checked, because the bounds on commands and mishaps stop the system.

## 4. Runs

| run | question | distinct states |
|---|---|---|
| `MCJobStore` | the store's invariants, refinement and what recovery needs | 258,098 |
| `MCRelayOutbox` | watched timers, history, refinement, delivery in the end | 69,257 |
| `MCRelayOutboxDisk` | a statement that throws in an ACK timer (violated) | |
| `MCRelayOutboxCrash` | a crash between row and send (violated) | |
| `MCHermesConnector` | at most once, truth of not_started, durability, settlement | 255,566 |
| `MCHermesConnectorUnsettled` | a refused settlement (violated) | |
| `MCHermesConnectorCancel` | a cancel that crosses failed (violated) | |
| `MCUpstreamGate` | the gate's invariants, deadlines, the end of both stops | 285,782 |
| `MCUpstreamGateToken` | a late access token (violated) | |
| `MCExecutionBackends` | promise, checkpoint, end of every job and stop of each backend | 390,380 |
| `MCExecutionBackendsStop` | a cancel while stop() waits for a submission (violated) | |
| `MCAdminCommands` | success is true, nothing is left half done, one holder of each lock (symmetry over processes, releases and backends) | 839,013 |

## 5. Fairness, and why the code has it

Weak fairness is assumed of what the process does by itself: timers that are
armed fire, promises that are settled continue, a transition queued on the
chain runs, a socket that was told to close is cut, a queued frame on a working
connection is read, and Hermes' task for a job comes to an end. The relay is
assumed, in `MCRelayOutbox` only, to answer a message that keeps reaching
it and to accept connections. That is an assumption about the environment: a
`TerminalAuthError` ends the reconnection loop (`client.ts:125`), and then a
result stays undelivered until the daemon is restarted with credentials that work. Nothing is assumed of operators, of the identity
service, of cancels, nor of a peer that keeps a connection open. In the backends
dispatch, the event queue, the deadline, `stop()`, a request's timeout and the
confirmation of a close (SIGKILL and a timeout) are fair, and Claude's run of a
child; nothing is needed of start, cancel and recovery, and the app-server and the
child may stay silent for ever. `AdminCommands` has
no fairness: it states no liveness. Faults are
bounded, which is how "eventually no more of them" is written here.

## 6. Proofs

`JobStoreProofs` proves, for any jobs, sessions, backends and bounds that
satisfy the assumptions named in `JobStore`:

- `TypeCorrect`: `Spec => []TypeOK`. The lemmas give, per action, the type of
  the rows it writes.
- `ExclusiveSession`: `Spec => []OneActivePerSession`. With `TypeOK` it is
  inductive: only a claim makes a job active, and its guard asks every other
  job of the session; all other actions map the set of active jobs into itself.
- `CancellationWins`: `Spec => []CancelWins`, and `EndsAreFinal`:
  `Spec => SettledForever`. Both follow from one lemma: every step moves each
  job along an edge of its life cycle (or leaves it), stated for a single job
  and split by the actions; the properties are then case distinctions over the
  edges.

It proves the invariants that relate two tables:

- `FencesAgree`: `Spec => []FenceAgreement`. It is inductive with `TypeOK`.
  Every transaction is of one of three kinds, each a lemma: it leaves
  `backend_sessions` alone (`QuietStep`: then no job that a row holds may
  change its backend, lease or generation, nor cross the border of the active
  statuses), it retires rows that hold no active job (`IdleRowsStep`), or it
  writes one job and the row that this job owns (`OwnRowStep`). Only the loss
  of a process and the restart write several rows, and are proved directly.
- `RecoveryIsFenced`: `Spec => []RecoveryFenced`. Not inductive: two rows of a
  session could go into recovery together if both already held a job. The
  strengthening is `RecoveryQuarantined` (a row in recovery is in a quarantined
  session) and `OneHolder` (one row of a session holds a job). `OneHolder` is
  where the tables meet: a claim that found another row with a job would, by
  `FenceAgreement`, find that job active (refused by `OthersActive`) or the row
  in recovery (refused by `Quarantined`).
- `ReleaseIsPossible`: `Spec => []OperatorCanRelease`, a consequence of
  `FenceAgreement` in every state.

And what the audit trail is worth:

- `LedgerIsTrue`: `Spec => []LedgerTellsStatus`. Every step does one of a few
  things to the events of one attempt (`Ledgered`): nothing, a reservation of
  the next generation, or one more event by the holder of the current one. The
  lemmas show which of them each action does; the strengthening it needs is
  `AttemptIdentified`: an active job has a lease equal to its generation and
  knows its execution.
- `RestartIsPossible`: `Spec => []RestartCanRecover`, a consequence of the
  ledger, of `FenceAgreement` (the row the event's trigger looks for is there)
  and of `AttemptIdentified`.

`JobStoreProofs` also proves `IntentsBounded`, `[]IntentsAreFuture` for any
finite `Jobs` (the only theorem that needs it, for `Cardinality`): every step
but the keeping of a new intent and a restart leaves a subset of the intents
(`NoneAdded`), the former is guarded by the cap, and the latter cuts to it.

Last, `StoreKeepsThePromise` is
`Spec => ImplementsJobExecution`. The map is `Phase`, which reads the status and,
for an active job, the ledger. `StoreInv` collects what the steps need of the
invariants above: `LedgerTellsStatus` tells `Dispatching` (not accepted) from
`Running` (accepted), `CancelWins` that an answered job has no cancel, and
`RecoveryFenced` that a session released with evidence was fenced. One lemma
per group of actions maps it to its step of the promise; losses of a process,
disconnects and restarts are all one `Lose(K, W)`.

With these, every invariant of `MCJobStore` and its refinement are theorems.

`ProfileCommandsProofs` proves, for any command lines, profiles, backends and
bounds of `ProfileCommands`. Its `ConstantsOK` follows from `AdminAssumption` and
`ProfilesAssumption`: a command line is not named like another state of a guard,
the first profile is one an operator may install, and what stands for an absent or a
damaged file, or for the place of a copy, is told from a profile.

- `NoDaemonIsOvertaken`: `Spec => []DaemonIsCurrent`. In `AdminCommands` a
  behaviour of the profile family is a behaviour of this specification, so the run
  checks the same formula on its instance, as a conjunct of `NothingHalfDone`. Not
  inductive: it says nothing of who may rename the config. `IInv` adds that the profile guard names the one command
  that works, or the daemon while it starts (`GuardNamesHolder`), that an offline
  command has its file where a running daemon has its socket
  (`SocketNamesHolder`), that the other commands only go between configs of the
  same backend and of schema 2 (`OnlineKeepsBackend`), and that from a rename that
  may be lost until the operator has looked, both guards are there: left behind,
  or of the command that will leave them (`UnsureIsGuarded`). The steps of a
  command, forward, failing and back, are first brought into one form
  (`StepShape`, `StepsHaveShape`), which keeps `IInv` by a single argument.
- `GuardsKeepApart`: `Spec => []GuardsExclude`, the mutual exclusion itself.
- `WorkIsFollowed`: `Spec => []JInv`, the invariant behind the rest, which TLC has
  checked. `todo` is always the rest of one of a few paths (`OnPath`), so its length
  tells what a command has done and what it has not. For each command at work `JInv`
  then says which config is live (`ConfigFollows`), that the text it started from
  resolves and, once the file is installed, the one it goes to (`TextsFollow`), and
  what the steps behind it left of proofs, alias, approvals and backups while the
  ones ahead are untouched (`ProofsFollow`, `QuarantineFollows`). In compensation it
  says the same of what is restored, unless the command `blame`s itself. A plan that
  waits for its guards only fixes its goal (`PlannedFits`): the config may have moved
  on, and `recheck` is what refuses then.
- `TextsAlwaysResolve` (`[]TextsResolve`), `SuccessIsServed` (`[]DoneIsServed`),
  `FailureIsRestored` (`[]FailureRestores`) and `ProfilesTypeCorrect` (`[]TypeOK`)
  follow from `JInv` in every state. The first is a statement about all texts of the
  disk, also the ones of earlier commands: it needs that the place of a fallback
  only ever holds the profile of schema 1 (`Placed`).

The steps of a command are proved in one form: `Effect` says of each step what it
writes when it returns, `Missed` and `ProofMissed` what a throw may leave, and `Finds`
what a step starts from. A command's path forward, its failure and its way back are
lemmas about those.

`DeploymentProofs` proves, for any command lines, releases, service managers, and
numbers of deployments and mishaps (`ConstantsOK`, contained in `AdminAssumption`):

- `DeploymentFollows`: `Spec => []IInv`. That a success tells the truth depends on
  everything the command did since it took the lock, and on every deployment under
  the pointer; so `IInv`, which TLC has checked on its own, says two things.
  Of a command at work, `TaskFollows`: from what is left in `todo` one reads where
  pointer, definition, service, bridge and status are, going forward and, as far as
  the command still vouches for it (`Vouched`: no step of the compensation threw, and
  nothing happened that the flags do not show), going back. `TouchedFits` is why the
  catch block restores enough: the flags and `todo` agree at every step.
  Of a machine at rest, `RestsWell`: below the pointer there is a chain of final
  receipts (`Founded`) each of which runs with the bridge that the next one will put
  back (`Linked`, as long as nobody edited the machine), so that any number of
  rollbacks finds what it needs. Receipts are only appended, or changed by the
  command that holds the lock, which keeps what is under it (`SameUnder`).
- `SuccessIsDescribed` (`[]DoneIsDescribed`), `FailureIsRestored`
  (`[]FailureRestores`) and `DeploymentTypeCorrect` (`[]TypeOK`, with the exclusion of
  the lock). Their exceptions are those of the formulas (section 7): launchd, which
  starts what was stopped, and the effects `applyDeployment` does not see.

Every step is one of four things, each a predicate with its lemmas: it returned
(`Returned`), it threw into the catch block (`Caught`), it threw in a compensation
(`Skipped`), or it is the bridge's own undo (`Undone`); `WorksOn` joins them. A
command that leaves, or is killed, has to give `RestsWell` from what `TaskFollows` says
at that step; what the operator does between operations only has to keep it.

`AdminCommandsProofs` proves what `MCAdminCommands` checks, of the union:
`AdminTypeCorrect` (`[]TypeOK`), `SuccessIsAlwaysTrue` (`[]SuccessIsTrue`) and
`NothingIsHalfDone` (`[]NothingHalfDone`), from the assumptions of `AdminCommands`
only. It takes the two proof modules as instances over its own variables; a
behaviour stays in its family, and `AdminInv` (`AdminFollows`) is that family's
invariant. `SameInstaller` and `SameProfiles` say that the instance a proof module
is about and the one `AdminCommands` is made of have the same definitions.

`UpstreamGateProofs` proves, for any jobs and bounds, every safety property that
`MCUpstreamGate` checks: `TypeCorrect`, `GateIsWatched` (`[]OpenGateIsWatched`),
`LoopIsAlone` (`[]OneLoop`), and the action properties `StopEndsAll`
(`StopIsFinal`) and `SubmissionsAreProven` (`ExpiredSubmitsNothing`). They share
one inductive invariant, `IInv`, which adds to them:

- `StartIsFirst`: before `start()` armed the deadline no recheck runs, and a proof
  that is fresh was never found expired, so the first loop begins with no stop
  pending (`OneLoop` needs that).
- `ReopenIsWatched`: a recheck that waits to open the gate keeps it closed, with
  its timer armed or the proof expired; opening it then needs no new timer.
- `StopWaits`: while the daemon stops, a recheck under way is one it waits for,
  and until the relay client's stop came back it is pending; a loop found ended
  stays the last one.
- `RecheckDispatches`: `recheck` is a caller of `dispatchPending` only after a
  reopening.

The steps of the loops, of the callers and of the backend's jobs are brought into
one form (`ServeStep`: the daemon's state stays, the gate stays or is found closed,
no loop begins), which keeps `IInv` by one lemma; the steps that leave the loops
alone share `SteadyStep`; only `StartRelay` begins a loop (`StartRelayStarts`) and
only the end of a stop forgets one (`RelayStoppedWell`, by `OneLoop` itself).

`RelayOutboxProofs` proves every safety property that `MCRelayOutbox` checks:

- `TypeCorrect` (`[]TypeOK`), for any jobs and bounds. What it adds to the types
  is that the ids of a job's messages have a largest one (`Numbered`), so that the
  next, the largest plus one, is a number.
- `HistoryIsComplete` (`[]HistoryResolves`): every step records what it sends and
  forgets no attempt of a message that left (`Recorded`, `NothingNew`).
- `NothingIsForgotten` (`[]UndeliveredIsWatched`), for finite `Jobs`: a batch that
  is not full holds every listed row (`BatchIsAll`), which is where the size of a
  set is counted. With `OffIsDown` (a daemon that is off has no connection) the
  property is inductive: a step keeps the watchers and brings no row into their
  care (`Quieter`), or the watchers after it are shown (`Watched`).
- `OutboxKeepsThePromise` (`Spec => ImplementsResultDelivery`), for a relay that
  only acknowledges what it received (`~StrayAcks`; with stray acknowledgements
  it is false, finding 1). `SettledIsReceived` says that what is acknowledged was
  received and what is on the wire has a result; every step but an answer and an
  acknowledgement is one of receiving, or of nothing (`Carries`).

`HermesConnectorProofs` proves, for any jobs, connections, attempts and bounds, every
safety property that `MCHermesConnector` checks: `TypeCorrect`, `BegunAtMostOnce`
(`[]AtMostOnce`), `NeverBegunOnceWithdrawn` (`[]NotStartedIsTrue`), `StoredWhenTold`
(`[]StoredIsDurable`) and `TakeoverSettlesFirst` (`[]SettledUnlessRefused`). One
inductive invariant, `IInv`, which TLC has checked, relates the store, the frames in
flight and the adapter:

- `SocketInv`: a connection nobody opened has no frames; a hello is the first frame
  of a connection that is not yet valid; the valid one is the active one; a
  connection whose end was handled is fenced; unless a settlement was refused, every
  active job belongs to the active connection, which is what `SettledUnlessRefused`
  needs.
- `BegunByOne`: at most one thing may still begin a job, a frame on its way, the
  adapter's task, or nothing any more because it has begun. `AckedIsFresh`: a job that
  may be claimed has none of them, which is why a claim may send one.
- `WithdrawnIsHarmless`: of a job that is cancelled as not started, or of which a
  `not_started` is on its way, no frame is left and any task that holds it was told
  to stop. The frame is believed before it is handled, so the invariant has to hold
  from the moment the adapter writes it.
- `Durable`, of every frame: a `result_stored` names an ended job under its lease.

The queues are where the work is: the lemmas on them say once what an append, a read
of the head and the loss of a tail do to `NoneBrings`, `OneBrings` and `HelloIsFirst`,
and every action is one of a few kinds (it appends a frame that brings no job, it
takes a frame and settles one job, it ends a connection).

`ExecutionBackendsProofs` proves, for any jobs, backlog and number of retries, every
safety property that `MCExecutionBackends` checks: `TypeCorrect` (`[]TypeOK`),
`PromiseKept` (`ImplementsExecutionPromise`), `CheckpointIsTail`
(`[]CheckpointFollowsTail`) and `StopIsQuiet` (`[]StoppedIsQuiet`). Each backend
has an inductive invariant of its own, which TLC has checked; `IInv` asks for the
one of the backend that runs.

- The session comes first. Whatever a handler does to it is a `SessionStep`: one job
  moves along an edge of its life (`Edge`: it goes back or is withdrawn only while
  its request did not arrive, is answered only after it did, is lost only with the
  session fenced), is claimed, or its request arrives. `SessionStepKeeps` shows once
  that such a step keeps `SessionInv` and is one of `ExecutionPromise`; what is left
  for each action of a backend is that it is a `SessionStep`.
- `ClaudeInv`: the active job is the attempt's (`ClaudeHolds`); one that waits for
  the preflight has no child (`ClaudePending`); a result is heard only of a child
  that read its input (`ClaudeHears`), which is why an answered job was executed.
- `NativeInv` and `PrivateInv`: `NativeHolds` and `PrivateHolds` say whose the
  active job is at each await; `NativeWire` and `PrivateWire` what the state of the
  `start` request says of the pipe and of `runs`: unsent requests are the ones whose
  jobs may be given back, an answer proves an execution. `NativeTail` and
  `PrivateTail` are the checkpoint property made inductive: the thread's tail is
  stored, or the turn beyond it is the active attempt's.
- `PrivateQueue` is what the private backend's notifications need: one queue holds
  them all, is the current turn's until the backend is disconnected, and has its
  ending last. `PrivateLife` ties process, recovery and `stop()` together, and
  `StoppedIsQuiet` follows from it and `PrivateHolds`.

All but `StopIsQuiet` assume `~LateCancels`, as the run does: with cancels
that arrive at the native backend after `stop()` was called, the promise is false
(finding 5), and `MCExecutionBackendsStop` shows that behaviour. The invariants of
the other two backends are proved without that assumption.

Every invariant, action property and refinement that a passing run checks is thus a
theorem. Only the liveness properties stay with TLC (`EventuallyDelivered`,
`AbandonedIsSettled`, `StopsReturn`, `ClaimedJobsSettle`): they need fairness and
`ENABLED`, which the prover does not handle.

## 7. Where the code and its documents disagree

1. A crash between the commit of a delivery attempt and its send leaves an
   attempt for a message that was never sent; a later acknowledgement then
   settles the result (`relay/client.ts:464`; `docs/ARCHITECTURE.md:99`).
2. `connectOnce` does not ask, after it awaited the access token, whether the
   client was stopped: the socket opens with the gate closed, and the stop that
   waits for the loop only ends when the peer ends the connection
   (`relay/client.ts:140`; `docs/SECURITY.md:253`).
3. A settlement that fails in the close callback is not retried, though the next
   hello becomes ready (`connector/server.ts:238`; `docs/ARCHITECTURE.md:198`).
4. A cancel that crosses the adapter's `failed` frame leaves the job in
   `Cancelling` while the connection lasts (`hermes-plugin/adapter.py:612`;
   `docs/LIVIS-RELAY-PROTOCOL-BOUNDARY.md:224`).
5. `stop()` of the native Codex backend forgets its harness before it waits for
   the pending submission; a cancel handled meanwhile answers `not_sent` although
   `turn/start` was written (`native-execution-backend.ts:260`;
   `backends/execution-backend.ts:13`).
6. A statement that throws in the callback of an acknowledgement timer leaves the
   result in `Delivering` without a timer; neither a disconnect nor a replay
   resets it, only a restart (`relay/client.ts:487`;
   `tests/relay_client.test.ts:880`, `docs/ARCHITECTURE.md:91`).

Met while modelling `Deployment`, and confirmed with TLC by removing the
exception from `FailureRestores`; no run of their own:

- launchd: a managed rollback of a service that was not running starts it. Its
  compensation bootstraps the job again, and `RunAtLoad` runs it, while the
  message says the state was restored exactly (`install/deployment.ts:1155`;
  `docs/DEPLOYMENT-INSTALLER.md:111` restores the active state too).
- `applyDeployment` sets `pointerCommitted` and `serviceTouched` after
  `writePointer` and `stop` (`deployment.ts:953`, `939`), `rollback` before:
  a `writePointer` that throws after its rename leaves the pointer at a receipt
  that is only prepared, with a plain error, and later operations refuse.
- `docs/DEPLOYMENT-INSTALLER.md:111` says every compensation first checks that the
  file is still the rollback's own; only the bridge's does.
- A receipt read before the lock may be stale after a rollback that crashed, so
  its status may be restored to the wrong value.
- `install` does not look for the definition a crashed installation left: its own
  rollback would restore that one.

## 8. What is not modelled

The schema migration of the database, and `checkpointBackendThreadTail` in
`JobStore` (it is in `CodexTurn` and `NativeTurn`, where it matters); the two
store operations without a caller (`releaseBackendSessionRecovery`,
`releaseSessionQuarantine`). Other database errors of the relay client than those
of `RelayOutbox`: one in `clearResultTimers`, in the query that arms the backoff
timer, and in the undo of a failed send.

Authentication (`login`, `logout`, the device flow and its token cache), the
identity of the installation and the secrets: the relay client is given a token or
an error. The offline guard of `session release`; `JobStore` allows the command at
any time instead, also while a daemon runs.

Parsing, limits of sizes, prompts, logging and the status output have no protocol
of their own; release tools run at build time. External to all models, with only
what the code relies on: the relay, the identity service, Hermes' own scheduling,
the app-server, Claude's program, launchd and systemd, SQLite's durability.
