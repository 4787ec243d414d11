----------------------------- MODULE UpstreamGate ----------------------------
(***************************************************************************)
(* The upstream gate of the daemon (src/src/daemon.ts) over the loop of    *)
(* the relay client (src/src/relay/client.ts).  The daemon may only talk   *)
(* to the relay while it holds an unexpired proof that the official        *)
(* upstream is supported.  The proof's deadline closes the gate, and so    *)
(* does a periodic recheck, which alone opens it again; closing the gate   *)
(* stops the relay client, and stop() waits for its loop, whose callback   *)
(* may itself find the gate closed.                                        *)
(*                                                                         *)
(* A step is what runs between two awaits.  The clock moves in any of them *)
(* (Expire), also between a claim and its submission, where nothing else   *)
(* does.  The relay, the identity service and the backend are external.    *)
(***************************************************************************)
EXTENDS Naturals

CONSTANTS
  Jobs, NoJob,
  MaxRuns,        \* bound: loops the relay client starts
  MaxConnects,    \* bound: access tokens asked for
  MaxSaves        \* bound: proofs saved by a recheck

ASSUME GateAssumption ==
  /\ NoJob \notin Jobs
  /\ {MaxRuns, MaxConnects, MaxSaves} \subseteq Nat

VARIABLES
  life,           \* the daemon: start() and stop()
  awaited,        \* what stop() captured and still waits for
  fresh,          \* the proof has not expired
  timer,          \* the timer of the proof's deadline is armed
  blocked,        \* upstreamBlocked: the gate is closed
  relayStopped,   \* upstreamRelayStopped
  check,          \* the periodic recheck
  attempted,      \* its upstreamStopAttempted
  stops, stopRun, \* the pending calls of relay.stop(), and the loop each awaits
  aborted,        \* the signal of the relay client's AbortController
  runPromise,     \* the loop stop() would wait for, 0 for none
  runs,           \* loops started
  loop, sock,     \* the loops and the socket of each one's connection
  terminal,       \* terminalFailure of the relay client
  at, todo, held, \* the callers of dispatchPending: place, candidates, claim
  ready,          \* the backend has an execution id
  job,
  connects, saves

daemonVars == <<life, awaited, fresh, ready, saves>>
gateVars == <<timer, blocked, relayStopped>>
checkVars == <<check, attempted>>
stopVars == <<stops, stopRun, aborted, sock>>
loopVars == <<runPromise, runs, loop, terminal, connects>>
callVars == <<at, todo, held>>
vars == <<daemonVars, gateVars, checkVars, stopVars, loopVars, callVars, job>>

Runs == 1..MaxRuns
Callers == {"connected", "recheck", "other"}
Stopping == life \in {"stopping", "stopped"}
Alive(r) == loop[r] \notin {"none", "ended"}

\* JavaScript runs to the next await: between a claim and its submission only
\* the clock moves.
Yielded == \A c \in Callers : at[c] # "claimed"

-----------------------------------------------------------------------------
(* The relay client: start, stop and the loop.                             *)

StartRelay ==
  IF runPromise # 0
  THEN UNCHANGED <<aborted, runPromise, runs, loop>>
  ELSE /\ runs < MaxRuns
       /\ runs' = runs + 1
       /\ runPromise' = runs + 1
       /\ aborted' = FALSE
       /\ loop' = [loop EXCEPT ![runs + 1] = IF terminal THEN "ended" ELSE "token"]

\* stop() up to its await, called by the gate or by the daemon's own stop().
StopRelay(caller) ==
  /\ aborted' = TRUE
  /\ sock' = [r \in Runs |-> IF sock[r] = "live" THEN "closing" ELSE sock[r]]
  /\ stops' = stops \cup {caller}
  /\ stopRun' = [stopRun EXCEPT ![caller] = runPromise]

LoopEnded_OnceClosed(caller) ==
  caller \in stops /\ \A r \in Runs : sock[r] # "closing"

LoopEnded(caller) ==
  /\ caller \in stops
  /\ \A r \in Runs : stopRun[caller] = r => loop[r] = "ended"

\* The top of the loop after a connection that ended, with or without an error.
AfterConnection(r) ==
  loop' = [loop EXCEPT ![r] = IF aborted THEN "ended" ELSE "backoff"]

Wake(r) ==
  /\ Yielded
  /\ loop[r] = "backoff"
  /\ \/ /\ aborted \/ terminal
        /\ loop' = [loop EXCEPT ![r] = "ended"]
        /\ UNCHANGED connects
     \/ /\ ~aborted /\ ~terminal
        /\ connects < MaxConnects
        /\ connects' = connects + 1
        /\ loop' = [loop EXCEPT ![r] = "token"]
  /\ UNCHANGED <<runPromise, runs, terminal>>
  /\ UNCHANGED <<daemonVars, gateVars, checkVars, stopVars, callVars, job>>

\* getAccessToken answers: connectOnce opens a socket, whatever happened since.
TokenArrives(r) ==
  /\ Yielded
  /\ loop[r] = "token"
  /\ loop' = [loop EXCEPT ![r] = "connecting"]
  /\ sock' = [sock EXCEPT ![r] = "live"]
  /\ UNCHANGED <<stops, stopRun, aborted, runPromise, runs, terminal, connects>>
  /\ UNCHANGED <<daemonVars, gateVars, checkVars, callVars, job>>

TokenFails(r) ==
  /\ Yielded
  /\ loop[r] = "token"
  /\ \/ AfterConnection(r) /\ UNCHANGED terminal
     \/ /\ loop' = [loop EXCEPT ![r] = "ended"]
        /\ terminal' = (terminal \/ ~aborted)
  /\ UNCHANGED <<runPromise, runs, connects>>
  /\ UNCHANGED <<daemonVars, gateVars, checkVars, stopVars, callVars, job>>

\* The close event, after the peer's answer or the loss of the connection; a
\* handshake that fails or takes too long ends the connection as well.
SocketCloses(r) ==
  /\ Yielded
  /\ sock[r] \in {"live", "closing"}
  /\ sock' = [sock EXCEPT ![r] = "closed"]
  /\ IF loop[r] = "connecting" THEN AfterConnection(r) ELSE UNCHANGED loop
  /\ UNCHANGED <<stops, stopRun, aborted, runPromise, runs, terminal, connects>>
  /\ UNCHANGED <<daemonVars, gateVars, checkVars, callVars, job>>

ConnectionEnds(r) ==
  /\ Yielded
  /\ loop[r] = "open" /\ sock[r] = "closed"
  /\ AfterConnection(r)
  /\ UNCHANGED <<runPromise, runs, terminal, connects>>
  /\ UNCHANGED <<daemonVars, gateVars, checkVars, stopVars, callVars, job>>

-----------------------------------------------------------------------------
(* The gate.                                                               *)

Block_AlwaysDisarms(t) ==
  /\ blocked' = TRUE
  /\ timer' = FALSE
  /\ relayStopped' = (relayStopped /\ blocked)
  /\ IF "gate" \in stops \/ (blocked /\ relayStopped)
     THEN UNCHANGED stopVars
     ELSE StopRelay("gate")

\* blockForUpstream up to its await; t is the timer as the caller left it.
Block(t) ==
  /\ blocked' = TRUE
  /\ timer' = (t /\ blocked)
  /\ relayStopped' = (relayStopped /\ blocked)
  /\ IF "gate" \in stops \/ (blocked /\ relayStopped)
     THEN UNCHANGED stopVars
     ELSE StopRelay("gate")

Closed == ~fresh \/ blocked

\* The deadline's callback, and the continuations of relay.stop().
DeadlinePasses ==
  /\ Yielded
  /\ timer /\ ~fresh
  /\ Block(FALSE)
  /\ UNCHANGED <<daemonVars, checkVars, loopVars, callVars, job>>

GateStopped ==
  /\ Yielded
  /\ LoopEnded("gate")
  /\ stops' = stops \ {"gate"}
  /\ stopRun' = [stopRun EXCEPT !["gate"] = 0]
  /\ runPromise' = 0
  /\ relayStopped' = TRUE
  /\ awaited' = awaited \ {"gate"}
  /\ UNCHANGED <<life, fresh, ready, saves, timer, blocked, checkVars>>
  /\ UNCHANGED <<aborted, sock, runs, loop, terminal, connects, callVars, job>>

DaemonRelayStopped ==
  /\ Yielded
  /\ LoopEnded("daemon")
  /\ stops' = stops \ {"daemon"}
  /\ stopRun' = [stopRun EXCEPT !["daemon"] = 0]
  /\ runPromise' = 0
  /\ UNCHANGED <<daemonVars, gateVars, checkVars>>
  /\ UNCHANGED <<aborted, sock, runs, loop, terminal, connects, callVars, job>>

Expire ==
  /\ fresh
  /\ fresh' = FALSE
  /\ UNCHANGED <<life, awaited, ready, saves>>
  /\ UNCHANGED <<gateVars, checkVars, stopVars, loopVars, callVars, job>>

-----------------------------------------------------------------------------
(* dispatchPending.                                                        *)

Move_KeepsClaim(c, place) ==
  /\ at' = [at EXCEPT ![c] = place]
  /\ todo' = [todo EXCEPT ![c] = {}]
  /\ UNCHANGED held

Move(c, place) ==
  /\ at' = [at EXCEPT ![c] = place]
  /\ todo' = [todo EXCEPT ![c] = {}]
  /\ held' = [held EXCEPT ![c] = NoJob]

AfterBlock_Waits(c) == Move(c, "stopwait")

\* The relay's callback only begins the stop that its caller has to wait for.
AfterBlock(c) == Move(c, IF c = "connected" THEN "idle" ELSE "stopwait")
Throw(c) == Move(c, IF c = "other" THEN "idle" ELSE "threw")

\* Up to the first candidate; acked are the jobs it lists.
DispatchPending(c, acked) ==
  \/ /\ Stopping \/ (~Closed /\ ~ready)
     /\ UNCHANGED <<callVars, gateVars, stopVars>>
  \/ /\ ~Stopping /\ Closed
     /\ Block(timer)
     /\ AfterBlock(c)
  \/ /\ ~Stopping /\ ~Closed /\ ready
     /\ at' = [at EXCEPT ![c] = "next"]
     /\ todo' = [todo EXCEPT ![c] = acked]
     /\ UNCHANGED <<held, gateVars, stopVars>>

\* "Foreign" is an acknowledged job of a node that is no longer allowed.
Foreign(j) == job[j] \in {"Foreign", "Rejected"}
Acked == {j \in Jobs : job[j] \in {"Acked", "Foreign"}}

Candidate(c) ==
  /\ Yielded
  /\ at[c] = "next"
  /\ \/ /\ todo[c] = {}
        /\ Move(c, "idle")
        /\ UNCHANGED <<gateVars, stopVars, job>>
     \/ /\ todo[c] # {} /\ ~fresh
        /\ Block(timer)
        /\ AfterBlock(c)
        /\ UNCHANGED job
     \/ /\ fresh
        /\ \E j \in todo[c] :
             \/ /\ Foreign(j)
                /\ IF life = "stopped"                   \* the store is closed
                   THEN Throw(c) /\ UNCHANGED job
                   ELSE /\ job' = [job EXCEPT ![j] = "Rejected"]
                        /\ todo' = [todo EXCEPT ![c] = @ \ {j}]
                        /\ UNCHANGED <<at, held>>
             \/ /\ ~Foreign(j)
                /\ ~ready
                /\ Move(c, "idle")
                /\ UNCHANGED job
             \/ /\ ~Foreign(j)
                /\ ready
                /\ todo' = [todo EXCEPT ![c] = @ \ {j}]
                /\ IF job[j] = "Acked" /\ \A k \in Jobs : job[k] # "Dispatching"
                   THEN /\ job' = [job EXCEPT ![j] = "Dispatching"]
                        /\ at' = [at EXCEPT ![c] = "claimed"]
                        /\ held' = [held EXCEPT ![c] = j]
                   ELSE UNCHANGED <<job, at, held>>
        /\ UNCHANGED <<gateVars, stopVars>>
  /\ UNCHANGED <<daemonVars, checkVars, loopVars>>

Submit_Unchecked(c) ==
  /\ at[c] = "claimed"
  /\ at' = [at EXCEPT ![c] = "await"]
  /\ UNCHANGED <<job, todo, held, gateVars, stopVars>>
  /\ UNCHANGED <<daemonVars, checkVars, loopVars>>

\* The check after the claim, in the same step of JavaScript.
Submit(c) ==
  /\ at[c] = "claimed"
  /\ \/ /\ ~fresh
        /\ job' = [job EXCEPT ![held[c]] = "Acked"]
        /\ Block(timer)
        /\ AfterBlock(c)
     \/ /\ fresh
        /\ at' = [at EXCEPT ![c] = "await"]
        /\ UNCHANGED <<job, todo, held, gateVars, stopVars>>
  /\ UNCHANGED <<daemonVars, checkVars, loopVars>>

\* executionBackend.dispatch settles: sent, not_sent or an exception.
SubmissionEnds(c) ==
  /\ Yielded
  /\ at[c] = "await"
  /\ \/ /\ at' = [at EXCEPT ![c] = "next"]
        /\ held' = [held EXCEPT ![c] = NoJob]
        /\ UNCHANGED <<job, todo>>
     \/ /\ life # "stopped"
        /\ job' = [job EXCEPT ![held[c]] = IF @ = "Dispatching" THEN "Acked" ELSE @]
        /\ Move(c, "idle")
     \/ /\ Throw(c)
        /\ UNCHANGED job
  /\ UNCHANGED <<daemonVars, gateVars, checkVars, stopVars, loopVars>>

StopAwaited(c) ==
  /\ Yielded
  /\ at[c] = "stopwait" /\ "gate" \notin stops
  /\ Move(c, "idle")
  /\ UNCHANGED <<daemonVars, gateVars, checkVars, stopVars, loopVars, job>>

\* onReady and the dispatch deferred to after a job's end.
OtherDispatch ==
  /\ Yielded
  /\ at["other"] = "idle" /\ ~Stopping
  /\ DispatchPending("other", Acked)
  /\ UNCHANGED <<daemonVars, checkVars, loopVars, job>>

JobEnds(j) ==
  /\ Yielded
  /\ job[j] = "Dispatching"
  /\ job' = [job EXCEPT ![j] = "Ended"]
  /\ UNCHANGED <<daemonVars, gateVars, checkVars, stopVars, loopVars, callVars>>

Backend ==
  /\ Yielded
  /\ ~Stopping
  /\ ready' = ~ready
  /\ UNCHANGED <<life, awaited, fresh, saves>>
  /\ UNCHANGED <<gateVars, checkVars, stopVars, loopVars, callVars, job>>

-----------------------------------------------------------------------------
(* What the relay's connection calls.                                      *)

\* `connected`: connectOnce awaits onConnected before it waits for the close.
Handshake(r) ==
  /\ Yielded
  /\ loop[r] = "connecting" /\ sock[r] \in {"live", "closing"}
  /\ at["connected"] = "idle"
  /\ loop' = [loop EXCEPT ![r] = "hooks"]
  /\ DispatchPending("connected", Acked)
  /\ UNCHANGED <<runPromise, runs, terminal, connects, daemonVars, checkVars, job>>

HooksEnd(r) ==
  /\ Yielded
  /\ loop[r] = "hooks"
  /\ \/ /\ at["connected"] = "idle"
        /\ loop' = [loop EXCEPT ![r] = "open"]
        /\ UNCHANGED <<sock, callVars>>
     \/ /\ at["connected"] = "threw"
        /\ Move("connected", "idle")
        /\ sock' = [sock EXCEPT ![r] = "closed"]
        /\ AfterConnection(r)
  /\ UNCHANGED <<stops, stopRun, aborted, runPromise, runs, terminal, connects>>
  /\ UNCHANGED <<daemonVars, gateVars, checkVars, job>>

Incoming(r, j) ==
  /\ Yielded
  /\ loop[r] \in {"hooks", "open"} /\ sock[r] \in {"live", "closing"}
  /\ ~Stopping /\ at["other"] = "idle"
  /\ \/ /\ Closed
        /\ Block(timer)
        /\ Move("other", "stopwait")
        /\ UNCHANGED job
     \/ /\ ~Closed /\ job[j] = "none"
        /\ \/ /\ job' = [job EXCEPT ![j] = "Rejected"]
              /\ UNCHANGED <<callVars, gateVars, stopVars>>
           \/ /\ job' = [job EXCEPT ![j] = "Acked"]
              /\ DispatchPending("other", Acked \cup {j})
  /\ UNCHANGED <<daemonVars, checkVars, loopVars>>

-----------------------------------------------------------------------------
(* The periodic recheck.                                                   *)

GoTo(place) == check' = place
StopsFor(place) == Block(timer) /\ attempted' = TRUE /\ GoTo(place)
KeepGate == UNCHANGED <<gateVars, stopVars>>
NeedsStop == blocked /\ ~relayStopped

RecheckBegins ==
  /\ Yielded
  /\ life = "up" /\ check = "idle"
  /\ GoTo("guard")
  /\ UNCHANGED <<attempted, daemonVars, gateVars, stopVars, loopVars, callVars, job>>

\* What the catch of runUpstreamRecheck does with an error.
Catch ==
  \/ /\ Stopping \/ (blocked /\ (attempted \/ relayStopped)) \/ ~Closed
     /\ GoTo("end")
     /\ KeepGate /\ UNCHANGED attempted
  \/ /\ ~Stopping
     /\ (NeedsStop /\ ~attempted) \/ (~blocked /\ ~fresh)
     /\ StopsFor("settle")

RecheckGuard ==
  /\ Yielded
  /\ check = "guard"
  /\ \/ Catch
     \/ /\ Stopping \/ (fresh /\ ~NeedsStop)      \* busy: skip this time
        /\ GoTo("end")
        /\ KeepGate /\ UNCHANGED attempted
     \/ /\ ~Stopping /\ (~fresh \/ NeedsStop)     \* busy
        /\ StopsFor("settle")
     \/ /\ ~Stopping /\ NeedsStop                 \* taken
        /\ StopsFor("stopFirst")
     \/ /\ Stopping \/ ~NeedsStop                 \* taken
        /\ GoTo(IF Stopping THEN "release" ELSE "check")
        /\ KeepGate /\ UNCHANGED attempted
  /\ UNCHANGED <<daemonVars, loopVars, callVars, job>>

RecheckStopped ==
  /\ Yielded
  /\ "gate" \notin stops
  /\ \/ /\ check = "stopFirst"
        /\ GoTo(IF Stopping THEN "release" ELSE "check")
     \/ check = "unsupported" /\ GoTo("release")
     \/ check = "settle" /\ GoTo("end")
  /\ UNCHANGED <<attempted, daemonVars, gateVars, stopVars, loopVars, callVars, job>>

\* The answer of the upstream check.
RecheckAnswer ==
  /\ Yielded
  /\ check = "check"
  /\ \/ /\ GoTo(IF Stopping THEN "release" ELSE "save")
        /\ KeepGate /\ UNCHANGED attempted
     \/ ~Stopping /\ StopsFor("unsupported")
     \/ /\ GoTo("failed")
        /\ KeepGate /\ UNCHANGED attempted
  /\ UNCHANGED <<daemonVars, loopVars, callVars, job>>

\* The proof was saved: take its deadline, arm the timer, and wait for a stop
\* that is under way before the gate opens.
RecheckSaved ==
  /\ Yielded
  /\ check = "save"
  /\ \/ /\ Stopping
        /\ GoTo("release")
        /\ KeepGate /\ UNCHANGED <<attempted, fresh, saves>>
     \/ /\ ~Stopping /\ saves < MaxSaves
        /\ saves' = saves + 1
        /\ fresh' = TRUE
        /\ IF blocked
           THEN Block(TRUE) /\ attempted' = TRUE /\ GoTo("reopen")
           ELSE /\ timer' = TRUE
                /\ GoTo("release")
                /\ UNCHANGED <<attempted, blocked, relayStopped, stopVars>>
     \/ /\ ~Stopping /\ saves < MaxSaves             \* expired while it was saved
        /\ saves' = saves + 1
        /\ fresh' = FALSE
        /\ Block(FALSE)
        /\ GoTo("release")
        /\ UNCHANGED attempted
     \/ /\ GoTo("failed")
        /\ KeepGate /\ UNCHANGED <<attempted, fresh, saves>>
  /\ UNCHANGED <<life, awaited, ready, loopVars, callVars, job>>

Reopen ==
  /\ Yielded
  /\ check = "reopen" /\ "gate" \notin stops
  /\ \/ /\ Stopping \/ ~fresh
        /\ timer' = (timer /\ Stopping)
        /\ GoTo("release")
        /\ UNCHANGED <<blocked, relayStopped, stopVars, runPromise, runs, loop, callVars>>
     \/ /\ ~Stopping /\ fresh
        /\ blocked' = FALSE
        /\ relayStopped' = FALSE
        /\ StartRelay
        /\ GoTo("dispatch")
        /\ IF ready
           THEN /\ at' = [at EXCEPT !["recheck"] = "next"]
                /\ todo' = [todo EXCEPT !["recheck"] = Acked]
                /\ UNCHANGED held
           ELSE UNCHANGED callVars
        /\ UNCHANGED <<timer, stops, stopRun, sock>>
  /\ UNCHANGED <<attempted, daemonVars, terminal, connects, job>>

Redispatched ==
  /\ Yielded
  /\ check = "dispatch"
  /\ at["recheck"] \in {"idle", "threw"}
  /\ GoTo(IF at["recheck"] = "idle" THEN "release" ELSE "failed")
  /\ Move("recheck", "idle")
  /\ UNCHANGED <<attempted, daemonVars, gateVars, stopVars, loopVars, job>>

\* guard.release(), which may fail as well; an error then goes to the catch.
Released ==
  /\ Yielded
  /\ \/ /\ check = "release"
        /\ GoTo("end")
        /\ KeepGate /\ UNCHANGED attempted
     \/ check \in {"release", "failed"} /\ Catch
  /\ UNCHANGED <<daemonVars, loopVars, callVars, job>>

RecheckEnds ==
  /\ Yielded
  /\ check = "end"
  /\ GoTo("idle")
  /\ attempted' = FALSE
  /\ awaited' = awaited \ {"recheck"}
  /\ UNCHANGED <<life, fresh, ready, saves, gateVars, stopVars, loopVars, callVars, job>>

-----------------------------------------------------------------------------
(* The daemon.                                                             *)

\* start() after the backend started: arm the deadline, then the relay.
Start ==
  /\ Yielded
  /\ life = "starting"
  /\ life' = "up"
  /\ \/ /\ fresh
        /\ timer' = TRUE
        /\ StartRelay
        /\ UNCHANGED <<blocked, relayStopped, stops, stopRun, sock>>
     \/ /\ ~fresh
        /\ Block(FALSE)
        /\ UNCHANGED <<runPromise, runs, loop>>
  /\ UNCHANGED <<awaited, fresh, ready, saves, checkVars, terminal, connects, callVars, job>>

InFlight_NotTheRecheck == stops \cap {"gate"}

\* What stop() captures to wait for, besides the relay client and the backend,
\* whose own stop ends by itself.
InFlight == (stops \cap {"gate"}) \cup (IF check = "idle" THEN {} ELSE {"recheck"})

\* stop(): on a signal, or when start() failed.
Stop ==
  /\ Yielded
  /\ ~Stopping
  /\ life' = "stopping"
  /\ timer' = FALSE
  /\ ready' = FALSE
  /\ awaited' = InFlight
  /\ StopRelay("daemon")
  /\ UNCHANGED <<fresh, saves, blocked, relayStopped, checkVars, loopVars, callVars, job>>

Stopped ==
  /\ Yielded
  /\ life = "stopping" /\ awaited = {} /\ "daemon" \notin stops
  /\ life' = "stopped"
  /\ UNCHANGED <<awaited, fresh, ready, saves>>
  /\ UNCHANGED <<gateVars, checkVars, stopVars, loopVars, callVars, job>>

-----------------------------------------------------------------------------
Init ==
  /\ life = "starting" /\ awaited = {} /\ ready = FALSE /\ saves = 0
  /\ fresh \in BOOLEAN /\ timer = FALSE /\ blocked = FALSE /\ relayStopped = FALSE
  /\ check = "idle" /\ attempted = FALSE
  /\ stops = {} /\ stopRun = [c \in {"gate", "daemon"} |-> 0] /\ aborted = FALSE
  /\ runPromise = 0 /\ runs = 0 /\ terminal = FALSE /\ connects = 0
  /\ loop = [r \in Runs |-> "none"] /\ sock = [r \in Runs |-> "none"]
  /\ at = [c \in Callers |-> "idle"] /\ todo = [c \in Callers |-> {}]
  /\ held = [c \in Callers |-> NoJob]
  /\ job \in [Jobs -> {"none", "Acked", "Foreign"}]

RelayLoop(r) == Wake(r) \/ TokenArrives(r) \/ TokenFails(r) \/ SocketCloses(r)
                \/ ConnectionEnds(r) \/ Handshake(r) \/ HooksEnd(r)
Dispatch(c) == Candidate(c) \/ Submit(c) \/ SubmissionEnds(c) \/ StopAwaited(c)
Recheck == RecheckBegins \/ RecheckGuard \/ RecheckStopped \/ RecheckAnswer
           \/ RecheckSaved \/ Reopen \/ Redispatched \/ Released \/ RecheckEnds
Daemon == Start \/ Stop \/ Stopped \/ DeadlinePasses
          \/ GateStopped \/ DaemonRelayStopped

Next ==
  \/ \E r \in Runs : RelayLoop(r)
  \/ \E r \in Runs, j \in Jobs : Incoming(r, j)
  \/ \E c \in Callers : Dispatch(c)
  \/ \E j \in Jobs : JobEnds(j)
  \/ OtherDispatch \/ Backend
  \/ Recheck \/ Daemon
  \/ Expire

Spec == Init /\ [][Next]_vars

\* Promises that JavaScript settles by itself: the loop, the callbacks, the
\* continuations and the close of a socket that was told to close (the library
\* cuts it after a while).  Nothing is asked of the identity service or of a
\* relay that keeps a socket open.
FairSpec ==
  /\ Spec
  /\ \A r \in Runs :
       /\ WF_vars(Wake(r)) /\ WF_vars(ConnectionEnds(r)) /\ WF_vars(HooksEnd(r))
       /\ WF_vars(sock[r] = "closing" /\ SocketCloses(r))
  /\ \A c \in Callers : WF_vars(Dispatch(c))
  /\ WF_vars(Recheck /\ check # "idle")
  /\ WF_vars(GateStopped) /\ WF_vars(DaemonRelayStopped)
  /\ WF_vars(Stopped)

-----------------------------------------------------------------------------
(* Properties.                                                             *)

TypeOK ==
  /\ life \in {"starting", "up", "stopping", "stopped"}
  /\ awaited \subseteq {"gate", "recheck"}
  /\ {fresh, timer, blocked, relayStopped, attempted, aborted, terminal, ready} \subseteq BOOLEAN
  /\ check \in {"idle", "guard", "stopFirst", "check", "unsupported", "save", "reopen",
                "dispatch", "release", "failed", "settle", "end"}
  /\ stops \subseteq {"gate", "daemon"}
  /\ stopRun \in [{"gate", "daemon"} -> 0..MaxRuns]
  /\ runPromise \in 0..runs /\ runs \in 0..MaxRuns
  /\ \A r \in Runs : (r > runs) <=> loop[r] = "none"
  /\ loop \in [Runs -> {"none", "token", "connecting", "hooks", "open", "backoff", "ended"}]
  /\ sock \in [Runs -> {"none", "live", "closing", "closed"}]
  /\ at \in [Callers -> {"idle", "next", "claimed", "await", "stopwait", "threw"}]
  /\ todo \in [Callers -> SUBSET Jobs]
  /\ \A c \in Callers : held[c] \in (IF at[c] \in {"claimed", "await"} THEN Jobs ELSE {NoJob})
  /\ job \in [Jobs -> {"none", "Acked", "Foreign", "Dispatching", "Ended", "Rejected"}]
  /\ connects \in 0..MaxConnects /\ saves \in 0..MaxSaves

\* Whenever the gate is open a timer is armed for the deadline of the proof in
\* force: however rechecks, blocks and reopenings follow each other, the gate
\* cannot be left open past the deadline for want of a callback.
OpenGateIsWatched == life = "up" /\ ~blocked => timer

\* The relay client never has two loops, and a loop that runs is the one that
\* stop() would wait for, or the one it waits for.
OneLoop ==
  \A r \in Runs : Alive(r) =>
    /\ runPromise = r
    /\ \A caller \in stops : stopRun[caller] = r

\* No job is handed to the backend with an expired proof, though the clock
\* may pass the deadline between any two checks, or after the daemon stopped.
ExpiredSubmitsNothing ==
  [][\A c \in Callers : at[c] # "await" /\ at'[c] = "await" => fresh /\ life # "stopped"]_vars

\* Once stop() has returned, nothing reconnects, claims, submits or saves a
\* proof: what was under way has ended or finds the daemon stopped.
StopIsFinal ==
  [][life = "stopped" =>
       /\ \A r \in Runs : ~Alive(r) /\ loop'[r] = loop[r]
       /\ check = "idle" /\ saves' = saves
       /\ \A c \in Callers : at'[c] \notin {"claimed"}]_vars

\* The stop of a relay client that has told its socket to close, and has no
\* token under way, comes to its end although it may have been called from
\* the callback that its own loop awaits; and the daemon's stop() returns under
\* the same condition: the recheck and the stop of the gate it waits for do not
\* wait for it.
Quiet == aborted /\ \A r \in Runs : loop[r] # "token" /\ sock[r] # "live"
StopsReturn ==
  /\ ("gate" \in stops /\ Quiet) ~> "gate" \notin stops
  /\ (life = "stopping" /\ Quiet) ~> life = "stopped"

\* The documented absolute gate: no socket to the relay is opened while the
\* gate is closed.
ClosedGateIsOffline ==
  [][\A r \in Runs : sock[r] # "live" /\ sock'[r] = "live" => ~blocked]_vars

=============================================================================
