-------------------------- MODULE UpstreamGateProofs --------------------------
(***************************************************************************)
(* What is proved of the upstream gate, for any jobs and bounds: its type, *)
(* that an open gate has a timer, that the relay client has one loop, that *)
(* an expired proof submits nothing, and that a stop is final.  They share *)
(* one inductive invariant.                                                *)
(***************************************************************************)
EXTENDS UpstreamGate, TLAPS

LifeType ==
  /\ life \in {"starting", "up", "stopping", "stopped"}
  /\ awaited \subseteq {"gate", "recheck"}
  /\ check \in {"idle", "guard", "stopFirst", "check", "unsupported", "save", "reopen",
                "dispatch", "release", "failed", "settle", "end"}

FlagType ==
  /\ fresh \in BOOLEAN /\ ready \in BOOLEAN /\ attempted \in BOOLEAN
  /\ timer \in BOOLEAN /\ blocked \in BOOLEAN /\ relayStopped \in BOOLEAN
  /\ aborted \in BOOLEAN /\ terminal \in BOOLEAN

CountType ==
  /\ saves \in 0..MaxSaves /\ connects \in 0..MaxConnects
  /\ runs \in 0..MaxRuns /\ runPromise \in 0..runs
  /\ \A r \in Runs : (r > runs) <=> loop[r] = "none"

LoopType ==
  /\ loop \in [Runs -> {"none", "token", "connecting", "hooks", "open", "backoff", "ended"}]
  /\ sock \in [Runs -> {"none", "live", "closing", "closed"}]
  /\ stops \subseteq {"gate", "daemon"}
  /\ stopRun \in [{"gate", "daemon"} -> 0..MaxRuns]

CallType ==
  /\ at \in [Callers -> {"idle", "next", "claimed", "await", "stopwait", "threw"}]
  /\ todo \in [Callers -> SUBSET Jobs]
  /\ held \in [Callers -> Jobs \cup {NoJob}]
  /\ \A c \in Callers : held[c] \in (IF at[c] \in {"claimed", "await"} THEN Jobs ELSE {NoJob})
  /\ job \in [Jobs -> {"none", "Acked", "Foreign", "Dispatching", "Ended", "Rejected"}]

Types == LifeType /\ FlagType /\ CountType /\ LoopType /\ CallType

\* Until start() armed the deadline, a proof that is fresh was never found
\* expired, and no recheck runs.
StartIsFirst ==
  life = "starting" => check = "idle" /\ (fresh => ~blocked /\ stops = {})

\* A recheck that waits to open the gate left it closed, with its timer armed
\* or expired again.
ReopenIsWatched ==
  check = "reopen" /\ ~Stopping => blocked /\ (timer \/ ~fresh)

\* What the daemon's stop() waits for is what may still run.
StopWaits ==
  /\ "daemon" \in stops => Stopping
  /\ Stopping => /\ ~ready
                 /\ check # "idle" => "recheck" \in awaited
                 /\ "daemon" \in stops \/ \A r \in Runs : ~Alive(r)
  /\ life = "stopped" => awaited = {} /\ "daemon" \notin stops /\ Yielded

\* Only a recheck that opened the gate dispatches.
RecheckDispatches == check # "dispatch" => at["recheck"] = "idle"

IInv ==
  /\ Types /\ RecheckDispatches /\ StartIsFirst /\ ReopenIsWatched /\ StopWaits
  /\ OpenGateIsWatched /\ OneLoop

LEMMA TypesMeanTypeOK == ASSUME Types PROVE TypeOK
BY DEF Types, LifeType, FlagType, CountType, LoopType, CallType, TypeOK

LEMMA InitIsGood == ASSUME Init PROVE IInv
<1>1. MaxRuns \in Nat /\ MaxConnects \in Nat /\ MaxSaves \in Nat
  BY GateAssumption
<1>2. LifeType
  BY DEF Init, LifeType
<1>3. FlagType
  BY DEF Init, FlagType
<1>4. CountType
  <2>1. \A r \in Runs : r > 0 /\ loop[r] = "none"
    BY <1>1 DEF Init, Runs
  <2>2. saves = 0 /\ connects = 0 /\ runs = 0 /\ runPromise = 0
    BY DEF Init
  <2> QED  BY <1>1, <2>1, <2>2 DEF CountType
<1>5. LoopType
  <2>1. stopRun \in [{"gate", "daemon"} -> 0..MaxRuns]
    BY <1>1 DEF Init
  <2> QED  BY <2>1 DEF Init, LoopType
<1>6. CallType
  <2>1. \A c \in Callers : at[c] = "idle" /\ held[c] = NoJob
    BY DEF Init
  <2>2. job \in [Jobs -> {"none", "Acked", "Foreign", "Dispatching", "Ended", "Rejected"}]
    BY DEF Init
  <2>3. at \in [Callers -> {"idle", "next", "claimed", "await", "stopwait", "threw"}]
    BY DEF Init
  <2>4. todo \in [Callers -> SUBSET Jobs] /\ held \in [Callers -> Jobs \cup {NoJob}]
    BY DEF Init
  <2> QED  BY <2>1, <2>2, <2>3, <2>4 DEF CallType
<1>7. \A r \in Runs : ~Alive(r)
  BY DEF Init, Alive
<1>8. /\ StartIsFirst /\ ReopenIsWatched /\ StopWaits /\ OpenGateIsWatched /\ OneLoop
      /\ RecheckDispatches
  BY <1>7 DEF Init, RecheckDispatches, Callers, StartIsFirst, ReopenIsWatched, StopWaits,
              OpenGateIsWatched, OneLoop, Stopping
<1> QED  BY <1>2, <1>3, <1>4, <1>5, <1>6, <1>8 DEF IInv, Types

-----------------------------------------------------------------------------
(* Closing the gate.                                                       *)

\* What a stop of the relay client does to what is proved.
StopsLoop ==
  /\ aborted' \in BOOLEAN
  /\ sock' \in [Runs -> {"none", "live", "closing", "closed"}]
  /\ stops' \subseteq {"gate", "daemon"}
  /\ stopRun' \in [{"gate", "daemon"} -> 0..MaxRuns]
  /\ \A c \in stops' :
       (c \in stops /\ stopRun'[c] = stopRun[c]) \/ stopRun'[c] = runPromise

Shut ==
  /\ StopsLoop
  /\ blocked' = TRUE /\ timer' \in BOOLEAN /\ relayStopped' \in BOOLEAN
  /\ "daemon" \in stops' <=> "daemon" \in stops

LEMMA StopRelayStops ==
  ASSUME Types, NEW c \in {"gate", "daemon"}, StopRelay(c)
  PROVE  StopsLoop /\ stops' = stops \cup {c}
<1>1. runPromise \in 0..MaxRuns
  BY GateAssumption DEF Types, CountType
<1>2. LoopType
  BY DEF Types
<1>3. stopRun' \in [{"gate", "daemon"} -> 0..MaxRuns]
  BY <1>1, <1>2 DEF StopRelay, LoopType
<1>4. sock' \in [Runs -> {"none", "live", "closing", "closed"}]
  BY <1>2 DEF StopRelay, LoopType
<1>5. \A d \in stops' : (d \in stops /\ stopRun'[d] = stopRun[d]) \/ stopRun'[d] = runPromise
  BY <1>2 DEF StopRelay, LoopType
<1> QED  BY <1>2, <1>3, <1>4, <1>5 DEF StopRelay, StopsLoop, LoopType

LEMMA BlockShuts ==
  ASSUME Types, NEW t \in BOOLEAN, Block(t)
  PROVE  Shut /\ (timer' <=> t /\ blocked)
<1>1. CASE UNCHANGED stopVars
  BY <1>1 DEF Block, Shut, StopsLoop, stopVars, Types, LoopType, FlagType
<1>2. CASE StopRelay("gate")
  <2>1. StopsLoop /\ stops' = stops \cup {"gate"}
    BY <1>2, StopRelayStops
  <2> QED  BY <2>1 DEF Block, Shut, Types, FlagType
<1> QED  BY <1>1, <1>2 DEF Block

-----------------------------------------------------------------------------
(* The loop of the relay client, its callbacks and dispatchPending.        *)

GateKept == UNCHANGED <<timer, blocked, relayStopped, stops, stopRun, aborted>>

\* The callers keep their type, and the recheck begins no dispatch.
CallsServe == CallType' /\ (at["recheck"] = "idle" => at'["recheck"] = "idle")

\* The daemon, its recheck and what the loops are waited for by stay; the gate
\* stays too, or is found closed; a loop may go on or end, none begins.
ServeStep ==
  /\ UNCHANGED <<life, awaited, fresh, ready, saves, check, attempted, runPromise, runs>>
  /\ GateKept \/ (Closed /\ Block(timer))
  /\ sock' \in [Runs -> {"none", "live", "closing", "closed"}]
  /\ loop' \in [Runs -> {"none", "token", "connecting", "hooks", "open", "backoff", "ended"}]
  /\ \A r \in Runs : loop'[r] = loop[r] \/ (Alive(r) /\ loop'[r] # "none")
  /\ connects' \in 0..MaxConnects /\ terminal' \in BOOLEAN
  /\ CallsServe /\ (life = "stopped" => Yielded')

LEMMA ServeKeepsIInv == ASSUME IInv, ServeStep PROVE IInv'
<1>1. /\ life' = life /\ awaited' = awaited /\ fresh' = fresh /\ ready' = ready
      /\ saves' = saves /\ check' = check /\ attempted' = attempted
      /\ runPromise' = runPromise /\ runs' = runs
  BY DEF ServeStep
<1>2. /\ Types /\ LifeType /\ FlagType /\ LoopType /\ CountType
      /\ (Stopping' <=> Stopping)
  BY <1>1 DEF IInv, Types, Stopping
<1>3. \/ GateKept
      \/ Closed /\ Shut /\ (timer' <=> timer /\ blocked)
  BY <1>2, BlockShuts DEF ServeStep, FlagType
<1>4. \A r \in Runs : /\ Alive(r)' => Alive(r)
                      /\ loop'[r] = "none" <=> loop[r] = "none"
  BY <1>2 DEF ServeStep, Alive
<1>5. LifeType' /\ CallType'
  BY <1>1, <1>2 DEF ServeStep, CallsServe, LifeType
<1>6. RecheckDispatches'
  BY <1>1 DEF IInv, RecheckDispatches, ServeStep, CallsServe
<1>7. FlagType'
  BY <1>1, <1>2, <1>3 DEF ServeStep, FlagType, GateKept, Shut, StopsLoop
<1>8. CountType'
  BY <1>1, <1>2, <1>4 DEF ServeStep, CountType
<1>9. LoopType'
  BY <1>2, <1>3 DEF ServeStep, LoopType, GateKept, Shut, StopsLoop
<1>10. StartIsFirst'
  BY <1>1, <1>3 DEF IInv, StartIsFirst, GateKept, Closed
<1>11. ReopenIsWatched'
  BY <1>1, <1>2, <1>3 DEF IInv, ReopenIsWatched, GateKept, Shut
<1>12. StopWaits'
  <2>1. "daemon" \in stops' <=> "daemon" \in stops
    BY <1>3 DEF GateKept, Shut
  <2> QED  BY <1>1, <1>2, <1>4, <2>1 DEF IInv, StopWaits, ServeStep
<1>13. OpenGateIsWatched'
  BY <1>1, <1>3 DEF IInv, OpenGateIsWatched, GateKept, Shut
<1>14. OneLoop'
  <2>1. \A c \in stops' : (c \in stops /\ stopRun'[c] = stopRun[c]) \/ stopRun'[c] = runPromise
    BY <1>3 DEF GateKept, Shut, StopsLoop
  <2> QED  BY <1>1, <1>4, <2>1 DEF IInv, OneLoop
<1> QED
  BY <1>5, <1>7, <1>8, <1>9, <1>10, <1>11, <1>12, <1>13, <1>14, <1>6
  DEF IInv, Types

\* A caller of dispatchPending moves on, with or without a claim.
JobType ==
  job \in [Jobs -> {"none", "Acked", "Foreign", "Dispatching", "Ended", "Rejected"}]

LEMMA MoveKeepsCalls ==
  ASSUME CallType, JobType', NEW c \in Callers,
         NEW place \in {"idle", "next", "stopwait", "threw"}, Move(c, place),
         c = "recheck" => at[c] # "idle" \/ place = "idle"
  PROVE  CallsServe /\ (Yielded => Yielded')
<1>1. /\ at' \in [Callers -> {"idle", "next", "claimed", "await", "stopwait", "threw"}]
      /\ todo' \in [Callers -> SUBSET Jobs] /\ held' \in [Callers -> Jobs \cup {NoJob}]
  BY DEF CallType, Move
<1>2. \A d \in Callers :
        /\ d # c => at'[d] = at[d] /\ held'[d] = held[d]
        /\ d = c => at'[d] = place /\ held'[d] = NoJob
  BY DEF CallType, Move
<1>3. CallType' /\ (Yielded => Yielded')
  BY <1>1, <1>2 DEF CallType, JobType, Yielded
<1>4. at["recheck"] = "idle" => at'["recheck"] = "idle"
  BY <1>2 DEF Callers
<1> QED  BY <1>3, <1>4 DEF CallsServe

LEMMA CallsRest ==
  ASSUME CallType, UNCHANGED <<callVars, job>>
  PROVE  CallType' /\ (Yielded => Yielded')
BY DEF CallType, callVars, Yielded

LEMMA SameCalls ==
  ASSUME CallType, JobType', UNCHANGED callVars
  PROVE  CallType' /\ CallsServe /\ (Yielded => Yielded')
BY DEF CallType, CallsServe, JobType, callVars, Yielded

\* What is asked of the gate in a ServeStep.
GateServes == GateKept \/ (Closed /\ Block(timer))
SockType == sock \in [Runs -> {"none", "live", "closing", "closed"}]

LEMMA ClosingServes ==
  ASSUME Types, Closed, Block(timer)
  PROVE  GateServes /\ SockType'
BY BlockShuts DEF Types, FlagType, Shut, StopsLoop, SockType, GateServes

LEMMA DispatchServes ==
  ASSUME Types, JobType', NEW c \in Callers, at[c] = "idle", NEW acked \in SUBSET Jobs,
         DispatchPending(c, acked), c # "recheck"
  PROVE  GateServes /\ SockType' /\ CallsServe /\ (Yielded => Yielded')
<1>1. CallType /\ SockType
  BY DEF Types, LoopType, SockType
<1>2. CASE UNCHANGED <<callVars, gateVars, stopVars>>
  BY <1>1, <1>2, SameCalls DEF GateServes, GateKept, gateVars, stopVars, SockType
<1>3. CASE Closed /\ Block(timer) /\ AfterBlock(c)
  <2>1. Move(c, IF c = "connected" THEN "idle" ELSE "stopwait")
    BY <1>3 DEF AfterBlock
  <2>2. CallsServe /\ (Yielded => Yielded')
    BY <1>1, <2>1, MoveKeepsCalls
  <2> QED  BY <1>3, <2>2, ClosingServes
<1>4. CASE /\ at' = [at EXCEPT ![c] = "next"]
           /\ todo' = [todo EXCEPT ![c] = acked]
           /\ UNCHANGED <<held, gateVars, stopVars>>
  <2>1. /\ at' \in [Callers -> {"idle", "next", "claimed", "await", "stopwait", "threw"}]
        /\ todo' \in [Callers -> SUBSET Jobs] /\ held' = held
        /\ \A d \in Callers : at'[d] = at[d] \/ (d = c /\ at'[d] = "next")
    BY <1>1, <1>4 DEF CallType
  <2>2. held[c] = NoJob
    BY <1>1 DEF CallType
  <2>3. CallType' /\ (Yielded => Yielded')
    BY <1>1, <2>1, <2>2 DEF CallType, JobType, Yielded
  <2>4. CallsServe
    BY <2>1, <2>3 DEF CallsServe, Callers
  <2> QED  BY <1>1, <1>4, <2>3, <2>4 DEF GateServes, GateKept, gateVars, stopVars, SockType
<1> QED  BY <1>2, <1>3, <1>4 DEF DispatchPending

\* The parts of a ServeStep, for the actions that leave the loops alone.
LEMMA DispatchStep ==
  ASSUME Types, UNCHANGED <<daemonVars, checkVars, loopVars>>, GateServes, SockType',
         CallsServe, life = "stopped" => Yielded'
  PROVE  ServeStep
BY DEF ServeStep, GateServes, SockType, daemonVars, checkVars, loopVars, Types, LoopType,
       CountType, FlagType

LEMMA CandidateServes == ASSUME IInv, NEW c \in Callers, Candidate(c) PROVE ServeStep
<1>1. Types /\ CallType /\ SockType /\ JobType
  BY DEF IInv, Types, LoopType, CallType, SockType, JobType
<1>2. UNCHANGED <<daemonVars, checkVars, loopVars>> /\ Yielded /\ at[c] = "next"
  BY DEF Candidate
<1>3. ASSUME Move(c, "idle") \/ Throw(c) \/ AfterBlock(c), JobType'
      PROVE  CallsServe /\ Yielded'
  <2>1. \E place \in {"idle", "next", "stopwait", "threw"} : Move(c, place)
    BY <1>3 DEF Throw, AfterBlock
  <2> QED  BY <1>1, <1>2, <1>3, <2>1, MoveKeepsCalls
<1>4. ASSUME UNCHANGED <<gateVars, stopVars>> PROVE GateServes /\ SockType'
  BY <1>1, <1>4 DEF GateServes, GateKept, gateVars, stopVars, SockType
<1>5. CASE Move(c, "idle") /\ UNCHANGED <<gateVars, stopVars, job>>
  BY <1>1, <1>2, <1>3, <1>4, <1>5, DispatchStep DEF JobType
<1>6. CASE ~fresh /\ Block(timer) /\ AfterBlock(c) /\ UNCHANGED job
  <2>1. GateServes /\ SockType'
    BY <1>1, <1>6, ClosingServes DEF Closed
  <2> QED  BY <1>1, <1>2, <1>3, <1>6, <2>1, DispatchStep DEF JobType
<1>7. CASE Throw(c) /\ UNCHANGED <<gateVars, stopVars, job>>
  BY <1>1, <1>2, <1>3, <1>4, <1>7, DispatchStep DEF JobType
<1>8. ASSUME NEW j \in todo[c], UNCHANGED <<at, held, gateVars, stopVars>>,
             todo' = [todo EXCEPT ![c] = @ \ {j}],
             job' = [job EXCEPT ![j] = "Rejected"] \/ job' = job
      PROVE  ServeStep
  <2>1. JobType'
    BY <1>1, <1>8 DEF JobType
  <2>2. todo' \in [Callers -> SUBSET Jobs]
    BY <1>1, <1>8 DEF CallType
  <2>3. CallsServe /\ Yielded'
    BY <1>1, <1>2, <1>8, <2>1, <2>2 DEF CallType, CallsServe, JobType, Yielded
  <2> QED  BY <1>1, <1>2, <1>4, <1>8, <2>3, DispatchStep
<1>9. ASSUME NEW j \in todo[c], ready, UNCHANGED <<gateVars, stopVars>>,
             todo' = [todo EXCEPT ![c] = @ \ {j}],
             job' = [job EXCEPT ![j] = "Dispatching"],
             at' = [at EXCEPT ![c] = "claimed"], held' = [held EXCEPT ![c] = j]
      PROVE  ServeStep
  <2>1. j \in Jobs
    BY <1>1 DEF CallType
  <2>2. /\ at' \in [Callers -> {"idle", "next", "claimed", "await", "stopwait", "threw"}]
        /\ todo' \in [Callers -> SUBSET Jobs] /\ held' \in [Callers -> Jobs \cup {NoJob}]
        /\ JobType'
    BY <1>1, <1>9, <2>1 DEF CallType, JobType
  <2>3. \A d \in Callers : /\ d # c => at'[d] = at[d] /\ held'[d] = held[d]
                           /\ d = c => at'[d] = "claimed" /\ held'[d] = j
    BY <1>1, <1>9 DEF CallType
  <2>4. CallType'
    BY <1>1, <2>1, <2>2, <2>3 DEF CallType, JobType
  <2>5. CallsServe
    BY <1>2, <2>3, <2>4 DEF CallsServe, Callers
  <2>6. life # "stopped"
    BY <1>9 DEF IInv, StopWaits, Stopping
  <2> QED  BY <1>1, <1>2, <1>4, <1>9, <2>6, <2>5, DispatchStep
<1> QED  BY <1>5, <1>6, <1>7, <1>8, <1>9 DEF Candidate

LEMMA SubmitServes == ASSUME IInv, NEW c \in Callers, Submit(c) PROVE ServeStep
<1>1. Types /\ CallType /\ SockType /\ JobType
  BY DEF IInv, Types, LoopType, CallType, SockType, JobType
<1>2. UNCHANGED <<daemonVars, checkVars, loopVars>> /\ at[c] = "claimed"
  BY DEF Submit
<1>3. life # "stopped" /\ held[c] \in Jobs
  BY <1>1, <1>2 DEF IInv, StopWaits, Yielded, CallType
<1>4. CASE /\ ~fresh /\ Block(timer) /\ AfterBlock(c)
           /\ job' = [job EXCEPT ![held[c]] = "Acked"]
  <2>1. GateServes /\ SockType'
    BY <1>1, <1>4, ClosingServes DEF Closed
  <2>2. JobType'
    BY <1>1, <1>4 DEF JobType
  <2>3. CallsServe
    BY <1>1, <1>2, <1>4, <2>2, MoveKeepsCalls DEF AfterBlock
  <2> QED  BY <1>1, <1>2, <1>3, <2>1, <2>3, DispatchStep
<1>5. CASE /\ at' = [at EXCEPT ![c] = "await"]
           /\ UNCHANGED <<job, todo, held, gateVars, stopVars>>
  <2>1. \A d \in Callers : at'[d] = at[d] \/ (d = c /\ at'[d] = "await")
    BY <1>1, <1>5 DEF CallType
  <2>2. at' \in [Callers -> {"idle", "next", "claimed", "await", "stopwait", "threw"}]
    BY <1>1, <1>5 DEF CallType
  <2>3. CallType'
    BY <1>1, <1>3, <1>5, <2>1, <2>2 DEF CallType
  <2>4. CallsServe
    BY <1>2, <2>1, <2>3 DEF CallsServe, Callers
  <2>5. GateServes /\ SockType'
    BY <1>1, <1>5 DEF GateServes, GateKept, gateVars, stopVars, SockType
  <2> QED  BY <1>1, <1>2, <1>3, <2>4, <2>5, DispatchStep
<1> QED  BY <1>4, <1>5 DEF Submit

\* The steps of the callers and the backend that do not look at the gate.
LEMMA CallServes ==
  ASSUME IInv, Yielded, UNCHANGED <<daemonVars, checkVars, loopVars, gateVars, stopVars>>,
         CallsServe /\ Yielded'
  PROVE  ServeStep
<1>1. Types /\ GateServes /\ SockType'
  BY DEF IInv, Types, LoopType, SockType, GateServes, GateKept, gateVars, stopVars
<1> QED  BY <1>1, DispatchStep

LEMMA CallersServe ==
  ASSUME IInv, NEW c \in Callers, SubmissionEnds(c) \/ StopAwaited(c)
  PROVE  ServeStep
<1>1. CallType /\ JobType /\ Yielded /\ at[c] # "idle"
  BY DEF IInv, Types, CallType, JobType, SubmissionEnds, StopAwaited
<1>2. UNCHANGED <<daemonVars, checkVars, loopVars, gateVars, stopVars>>
  BY DEF SubmissionEnds, StopAwaited
<1>3. ASSUME Move(c, "idle") \/ Throw(c), JobType' PROVE CallsServe /\ Yielded'
  <2>1. \E place \in {"idle", "next", "stopwait", "threw"} : Move(c, place)
    BY <1>3 DEF Throw
  <2> QED  BY <1>1, <1>3, <2>1, MoveKeepsCalls
<1>4. CASE (Move(c, "idle") \/ Throw(c)) /\ UNCHANGED job
  BY <1>1, <1>2, <1>3, <1>4, CallServes DEF JobType
<1>5. CASE /\ job' = [job EXCEPT ![held[c]] = IF @ = "Dispatching" THEN "Acked" ELSE @]
           /\ Move(c, "idle")
  <2>1. JobType'
    BY <1>1, <1>5 DEF JobType
  <2> QED  BY <1>1, <1>2, <1>3, <1>5, <2>1, CallServes
<1>6. CASE /\ at' = [at EXCEPT ![c] = "next"] /\ held' = [held EXCEPT ![c] = NoJob]
           /\ UNCHANGED <<job, todo>>
  <2>1. \A d \in Callers : /\ d # c => at'[d] = at[d] /\ held'[d] = held[d]
                           /\ d = c => at'[d] = "next" /\ held'[d] = NoJob
    BY <1>1, <1>6 DEF CallType
  <2>2. /\ at' \in [Callers -> {"idle", "next", "claimed", "await", "stopwait", "threw"}]
        /\ held' \in [Callers -> Jobs \cup {NoJob}]
    BY <1>1, <1>6 DEF CallType
  <2>3. CallType' /\ Yielded'
    BY <1>1, <1>6, <2>1, <2>2 DEF CallType, Yielded
  <2>4. CallsServe /\ Yielded'
    BY <1>1, <2>1, <2>3 DEF CallsServe, Callers
  <2> QED  BY <1>1, <1>2, <2>4, CallServes
<1> QED  BY <1>4, <1>5, <1>6 DEF SubmissionEnds, StopAwaited

LEMMA JobsServe ==
  ASSUME IInv, OtherDispatch \/ (\E j \in Jobs : JobEnds(j))
               \/ \E r \in Runs, j \in Jobs : Incoming(r, j)
  PROVE  ServeStep
<1>1. Types /\ CallType /\ SockType /\ JobType /\ "other" \in Callers
  BY DEF IInv, Types, LoopType, CallType, SockType, JobType, Callers
<1>2. UNCHANGED <<daemonVars, checkVars, loopVars>> /\ Yielded
  BY DEF OtherDispatch, JobEnds, Incoming
<1>3. \A j \in Jobs : job[j] = "Acked" \/ job[j] = "Foreign" => j \in Jobs
  OBVIOUS
<1>4. Acked \in SUBSET Jobs /\ \A j \in Jobs : Acked \cup {j} \in SUBSET Jobs
  BY DEF Acked
<1>5. ASSUME NEW acked \in SUBSET Jobs, JobType', at["other"] = "idle",
             DispatchPending("other", acked)
      PROVE  ServeStep
  BY <1>1, <1>2, <1>5, DispatchServes, DispatchStep
<1>6. CASE OtherDispatch
  BY <1>1, <1>4, <1>5, <1>6 DEF OtherDispatch, JobType
<1>7. ASSUME NEW j \in Jobs, JobEnds(j) PROVE ServeStep
  <2>1. JobType' /\ UNCHANGED <<callVars, gateVars, stopVars>>
    BY <1>1, <1>7 DEF JobEnds, JobType
  <2> QED  BY <1>1, <1>2, <2>1, SameCalls, CallServes
<1>8. ASSUME NEW r \in Runs, NEW j \in Jobs, Incoming(r, j) PROVE ServeStep
  <2>1. CASE Closed /\ Block(timer) /\ Move("other", "stopwait") /\ UNCHANGED job
    BY <1>1, <1>2, <2>1, ClosingServes, MoveKeepsCalls, DispatchStep DEF JobType
  <2>2. CASE job' = [job EXCEPT ![j] = "Rejected"] /\ UNCHANGED <<callVars, gateVars, stopVars>>
    <3>1. JobType'
      BY <1>1, <2>2 DEF JobType
    <3> QED  BY <1>1, <1>2, <2>2, <3>1, SameCalls, CallServes
  <2>3. CASE /\ job' = [job EXCEPT ![j] = "Acked"]
             /\ DispatchPending("other", Acked \cup {j})
    <3>1. JobType'
      BY <1>1, <2>3 DEF JobType
    <3>2. at["other"] = "idle"
      BY <1>8 DEF Incoming
    <3> QED  BY <1>4, <1>5, <2>3, <3>1, <3>2
  <2> QED  BY <1>8, <2>1, <2>2, <2>3 DEF Incoming
<1> QED  BY <1>6, <1>7, <1>8

\* The parts of a ServeStep, for the actions of one loop.
LEMMA LoopStep ==
  ASSUME Types, NEW r \in Runs, Alive(r), GateServes, SockType', CallsServe,
         NEW place \in {"token", "connecting", "hooks", "open", "backoff", "ended"},
         loop' = [loop EXCEPT ![r] = place] \/ loop' = loop,
         UNCHANGED <<daemonVars, checkVars, runPromise, runs>>,
         connects' \in 0..MaxConnects, terminal' \in BOOLEAN, Yielded'
  PROVE  ServeStep
<1>1. loop \in [Runs -> {"none", "token", "connecting", "hooks", "open", "backoff", "ended"}]
  BY DEF Types, LoopType
<1>2. /\ loop' \in [Runs -> {"none", "token", "connecting", "hooks", "open", "backoff", "ended"}]
      /\ \A q \in Runs : loop'[q] = loop[q] \/ (q = r /\ loop'[q] # "none")
  BY <1>1
<1> QED
  BY <1>2 DEF ServeStep, GateServes, SockType, daemonVars, checkVars

LEMMA LoopsServe ==
  ASSUME IInv, NEW r \in Runs, RelayLoop(r)
  PROVE  ServeStep
<1>1. Types /\ CallType /\ SockType /\ JobType /\ Yielded /\ "connected" \in Callers
  BY DEF IInv, Types, LoopType, CallType, SockType, JobType, Callers, RelayLoop, Wake,
         TokenArrives, TokenFails, SocketCloses, ConnectionEnds, Handshake, HooksEnd
<1>2. connects \in 0..MaxConnects /\ terminal \in BOOLEAN /\ MaxConnects \in Nat
  BY <1>1, GateAssumption DEF Types, CountType, FlagType
<1>3. UNCHANGED <<daemonVars, checkVars, runPromise, runs>>
  BY DEF RelayLoop, Wake, TokenArrives, TokenFails, SocketCloses, ConnectionEnds,
         Handshake, HooksEnd, loopVars
<1> DEFINE Places == {"token", "connecting", "hooks", "open", "backoff", "ended"}
<1>4. ASSUME AfterConnection(r)
      PROVE  \E place \in Places : loop' = [loop EXCEPT ![r] = place]
  BY <1>4 DEF AfterConnection
<1>5. ASSUME UNCHANGED <<gateVars, stops, stopRun, aborted>> PROVE GateServes
  BY <1>5 DEF GateServes, GateKept, gateVars
<1>6. CASE Wake(r)
  <2>1. /\ GateServes /\ SockType' /\ CallsServe /\ Yielded' /\ Alive(r) /\ terminal' = terminal
        /\ \E place \in Places : loop' = [loop EXCEPT ![r] = place]
    BY <1>1, <1>5, <1>6, SameCalls DEF Wake, stopVars, SockType, JobType, Alive
  <2>2. connects' \in 0..MaxConnects
    BY <1>2, <1>6 DEF Wake
  <2> QED  BY <1>1, <1>2, <1>3, <2>1, <2>2, LoopStep
<1>7. CASE TokenArrives(r)
  <2>1. /\ GateServes /\ CallsServe /\ Yielded' /\ Alive(r)
        /\ terminal' = terminal /\ connects' = connects
        /\ \E place \in Places : loop' = [loop EXCEPT ![r] = place]
    BY <1>1, <1>5, <1>7, SameCalls DEF TokenArrives, JobType, Alive
  <2>2. SockType'
    BY <1>1, <1>7 DEF TokenArrives, SockType
  <2> QED  BY <1>1, <1>2, <1>3, <2>1, <2>2, LoopStep
<1>8. CASE TokenFails(r) \/ ConnectionEnds(r)
  <2>1. /\ GateServes /\ SockType' /\ CallsServe /\ Yielded' /\ Alive(r) /\ connects' = connects
        /\ \E place \in Places : loop' = [loop EXCEPT ![r] = place]
    BY <1>1, <1>4, <1>5, <1>8, SameCalls
    DEF TokenFails, ConnectionEnds, stopVars, SockType, JobType, Alive
  <2>2. terminal' \in BOOLEAN
    BY <1>2, <1>8 DEF TokenFails, ConnectionEnds
  <2> QED  BY <1>1, <1>2, <1>3, <2>1, <2>2, LoopStep
<1>9. CASE Handshake(r)
  <2>1. Acked \in SUBSET Jobs /\ JobType'
    BY <1>1, <1>9 DEF Acked, Handshake, JobType
  <2>2. GateServes /\ SockType' /\ CallsServe /\ Yielded'
    BY <1>1, <1>9, <2>1, DispatchServes DEF Handshake
  <2>3. /\ Alive(r) /\ terminal' = terminal /\ connects' = connects
        /\ loop' = [loop EXCEPT ![r] = "hooks"]
    BY <1>9 DEF Handshake, Alive
  <2> QED  BY <1>1, <1>2, <1>3, <2>2, <2>3, LoopStep
<1>10. CASE HooksEnd(r)
  <2>1. GateServes /\ Alive(r) /\ terminal' = terminal /\ connects' = connects /\ JobType'
    BY <1>1, <1>5, <1>10 DEF HooksEnd, Alive, JobType
  <2>2. \E place \in Places : loop' = [loop EXCEPT ![r] = place]
    BY <1>4, <1>10 DEF HooksEnd
  <2>3. CallsServe /\ Yielded'
    BY <1>1, <1>10, <2>1, SameCalls, MoveKeepsCalls DEF HooksEnd
  <2>4. SockType'
    BY <1>1, <1>10 DEF HooksEnd, SockType
  <2> QED  BY <1>1, <1>2, <1>3, <2>1, <2>2, <2>3, <2>4, LoopStep
<1>11. CASE SocketCloses(r)
  <2>1. /\ GateServes /\ CallsServe /\ Yielded'
        /\ terminal' = terminal /\ connects' = connects
    BY <1>1, <1>5, <1>11, SameCalls DEF SocketCloses, JobType
  <2>2. SockType'
    BY <1>1, <1>11 DEF SocketCloses, SockType
  <2>3. CASE loop[r] = "connecting"
    <3>1. Alive(r) /\ \E place \in Places : loop' = [loop EXCEPT ![r] = place]
      BY <1>4, <1>11, <2>3 DEF SocketCloses, Alive
    <3> QED  BY <1>1, <1>2, <1>3, <2>1, <2>2, <3>1, LoopStep
  <2>4. CASE loop[r] # "connecting"
    <3>1. loop' = loop
      BY <1>11, <2>4 DEF SocketCloses
    <3> QED
      BY <1>1, <1>2, <1>3, <2>1, <2>2, <3>1
      DEF ServeStep, GateServes, SockType, daemonVars, checkVars, Types, LoopType
  <2> QED  BY <2>3, <2>4
<1> QED  BY <1>6, <1>7, <1>8, <1>9, <1>10, <1>11 DEF RelayLoop

-----------------------------------------------------------------------------
(* The recheck.                                                            *)

Checks == {"idle", "guard", "stopFirst", "check", "unsupported", "save", "reopen",
           "dispatch", "release", "failed", "settle", "end"}

LEMMA KeptStops == ASSUME Types, UNCHANGED stopVars PROVE StopsLoop
BY DEF Types, FlagType, LoopType, stopVars, StopsLoop

\* A step that leaves the loops alone, by the parts it may disturb.
LEMMA SteadyStep ==
  ASSUME IInv, UNCHANGED loopVars, StopsLoop, CallType', LifeType',
         RecheckDispatches', fresh' \in BOOLEAN, ready' \in BOOLEAN, attempted' \in BOOLEAN,
         timer' \in BOOLEAN, blocked' \in BOOLEAN, relayStopped' \in BOOLEAN,
         saves' \in 0..MaxSaves,
         StartIsFirst', ReopenIsWatched', StopWaits', OpenGateIsWatched'
  PROVE  IInv'
<1>1. Types /\ FlagType /\ CountType /\ LoopType /\ OneLoop
  BY DEF IInv, Types
<1>2. /\ runPromise' = runPromise /\ runs' = runs /\ loop' = loop
      /\ terminal' = terminal /\ connects' = connects
  BY DEF loopVars
<1>3. FlagType'
  BY <1>1, <1>2 DEF FlagType, StopsLoop
<1>4. CountType'
  BY <1>1, <1>2 DEF CountType
<1>5. LoopType'
  BY <1>1, <1>2 DEF LoopType, StopsLoop
<1>6. OneLoop'
  BY <1>1, <1>2 DEF OneLoop, Alive, StopsLoop
<1> QED  BY <1>3, <1>4, <1>5, <1>6 DEF IInv, Types

\* A step of a recheck under way: it keeps the gate, closes it or arms the timer.
LEMMA RecheckStep ==
  ASSUME IInv, check # "idle", UNCHANGED <<life, awaited, ready, loopVars>>,
         CallType', Yielded', check' \in Checks \ {"idle"},
         RecheckDispatches', fresh' \in BOOLEAN, attempted' \in BOOLEAN, saves' \in 0..MaxSaves,
         \/ UNCHANGED <<gateVars, stopVars>>
         \/ Shut
         \/ timer' = TRUE /\ UNCHANGED <<blocked, relayStopped, stopVars>>,
         ReopenIsWatched'
  PROVE  IInv'
<1>1. Types /\ FlagType /\ LifeType
  BY DEF IInv, Types
<1>2. life' = life /\ awaited' = awaited /\ ready' = ready /\ (Stopping' <=> Stopping)
  BY DEF Stopping
<1>3. /\ StopsLoop /\ timer' \in BOOLEAN /\ blocked' \in BOOLEAN /\ relayStopped' \in BOOLEAN
      /\ "daemon" \in stops' <=> "daemon" \in stops
      /\ blocked' = TRUE \/ timer' = TRUE \/ (timer' = timer /\ blocked' = blocked)
  <2>1. CASE UNCHANGED <<gateVars, stopVars>>
    BY <1>1, <2>1, KeptStops DEF FlagType, gateVars, stopVars
  <2>2. CASE Shut
    BY <2>2 DEF Shut
  <2>3. CASE timer' = TRUE /\ UNCHANGED <<blocked, relayStopped, stopVars>>
    BY <1>1, <2>3, KeptStops DEF FlagType, stopVars
  <2> QED  BY <2>1, <2>2, <2>3
<1>4. life # "starting"
  BY DEF IInv, StartIsFirst
<1>5. LifeType'
  BY <1>1, <1>2 DEF LifeType, Checks
<1>6. StartIsFirst' /\ OpenGateIsWatched'
  BY <1>2, <1>3, <1>4 DEF IInv, StartIsFirst, OpenGateIsWatched
<1>7. \A r \in Runs : Alive(r)' <=> Alive(r)
  BY DEF loopVars, Alive
<1>8. StopWaits'
  BY <1>2, <1>3, <1>7 DEF IInv, StopWaits
<1> QED
  BY <1>1, <1>2, <1>3, <1>5, <1>6, <1>8, SteadyStep DEF FlagType

\* What a step of the recheck does to the gate when it is not opened.
GateHolds ==
  \/ UNCHANGED <<gateVars, stopVars>>
  \/ Shut
  \/ timer' = TRUE /\ UNCHANGED <<blocked, relayStopped, stopVars>>

LEMMA StopsForHolds ==
  ASSUME Types, NEW place, StopsFor(place)
  PROVE  GateHolds /\ attempted' = TRUE /\ check' = place
BY BlockShuts DEF StopsFor, GoTo, Types, FlagType, GateHolds

LEMMA CatchHolds ==
  ASSUME Types, Catch
  PROVE  GateHolds /\ attempted' \in BOOLEAN /\ check' \in {"end", "settle"}
<1>1. attempted \in BOOLEAN
  BY DEF Types, FlagType
<1>2. CASE GoTo("end") /\ KeepGate /\ UNCHANGED attempted
  BY <1>1, <1>2 DEF GoTo, KeepGate, GateHolds
<1>3. CASE StopsFor("settle")
  BY <1>3, StopsForHolds
<1> QED  BY <1>2, <1>3 DEF Catch

\* A step of the recheck that does not end in "reopen".
LEMMA RecheckMoves ==
  ASSUME IInv, Yielded, check \notin {"idle", "dispatch"},
         UNCHANGED <<daemonVars, loopVars, callVars, job>>,
         check' \in Checks \ {"idle", "reopen"}, attempted' \in BOOLEAN, GateHolds
  PROVE  IInv'
<1>1. Types /\ FlagType /\ CountType /\ CallType
  BY DEF IInv, Types
<1>2. CallType' /\ Yielded'
  BY <1>1, CallsRest
<1>3. /\ life' = life /\ awaited' = awaited /\ ready' = ready
      /\ fresh' \in BOOLEAN /\ saves' \in 0..MaxSaves
  BY <1>1 DEF daemonVars, FlagType, CountType
<1>4. ReopenIsWatched' /\ RecheckDispatches'
  BY DEF ReopenIsWatched, IInv, RecheckDispatches, callVars
<1> QED  BY <1>2, <1>3, <1>4, RecheckStep DEF GateHolds

LEMMA RecheckMovesOn ==
  ASSUME IInv, RecheckGuard \/ RecheckStopped \/ RecheckAnswer \/ Released
  PROVE  IInv'
<1>1. Types /\ attempted \in BOOLEAN
  BY DEF IInv, Types, FlagType
<1>2. /\ Yielded /\ check \notin {"idle", "dispatch"}
      /\ UNCHANGED <<daemonVars, loopVars, callVars, job>>
  BY DEF RecheckGuard, RecheckStopped, RecheckAnswer, Released
<1>3. ASSUME KeepGate PROVE GateHolds
  BY <1>3 DEF KeepGate, GateHolds
<1> DEFINE Good == GateHolds /\ attempted' \in BOOLEAN /\ check' \in Checks \ {"idle", "reopen"}
<1>4. ASSUME Catch PROVE Good
  BY <1>1, <1>4, CatchHolds DEF Checks
<1>5. \A place \in Checks \ {"idle", "reopen"} : StopsFor(place) => Good
  BY <1>1, StopsForHolds
<1>6. {"settle", "stopFirst", "unsupported", "end", "release", "check", "save", "failed"}
        \subseteq Checks \ {"idle", "reopen"}
  BY DEF Checks
<1>7. RecheckGuard => Good
  BY <1>1, <1>3, <1>4, <1>5, <1>6 DEF RecheckGuard, GoTo
<1>8. RecheckStopped => Good
  BY <1>1, <1>6 DEF RecheckStopped, GoTo, GateHolds
<1>9. RecheckAnswer => Good
  BY <1>1, <1>3, <1>5, <1>6 DEF RecheckAnswer, GoTo
<1>10. Released => Good
  BY <1>1, <1>3, <1>4, <1>6 DEF Released, GoTo
<1> QED  BY <1>2, <1>7, <1>8, <1>9, <1>10, RecheckMoves

LEMMA RecheckBeginsWell == ASSUME IInv, RecheckBegins PROVE IInv'
<1>1. Types /\ FlagType /\ CountType /\ CallType /\ LifeType
  BY DEF IInv, Types
<1>2. /\ life = "up" /\ check = "idle" /\ check' = "guard" /\ Yielded
      /\ UNCHANGED <<attempted, daemonVars, gateVars, stopVars, loopVars, callVars, job>>
  BY DEF RecheckBegins, GoTo
<1>3. CallType' /\ Yielded'
  BY <1>1, <1>2, CallsRest
<1>4. /\ life' = "up" /\ awaited' = awaited /\ ready' = ready /\ fresh' = fresh
      /\ saves' = saves /\ timer' = timer /\ blocked' = blocked
      /\ relayStopped' = relayStopped /\ stops' = stops
  BY <1>2 DEF daemonVars, gateVars, stopVars
<1>5. RecheckDispatches'
  BY <1>2 DEF IInv, RecheckDispatches, callVars
<1>6. LifeType' /\ StartIsFirst' /\ ReopenIsWatched' /\ OpenGateIsWatched'
  BY <1>1, <1>2, <1>4 DEF LifeType, StartIsFirst, ReopenIsWatched, IInv, OpenGateIsWatched
<1>7. StopWaits'
  BY <1>2, <1>4 DEF IInv, StopWaits, Stopping
<1> QED
  BY <1>1, <1>2, <1>3, <1>4, <1>6, <1>7, <1>5, KeptStops, SteadyStep DEF FlagType, CountType

LEMMA RecheckEndsWell == ASSUME IInv, RecheckEnds PROVE IInv'
<1>1. Types /\ FlagType /\ CountType /\ CallType /\ LifeType
  BY DEF IInv, Types
<1>2. /\ check = "end" /\ check' = "idle" /\ attempted' = FALSE /\ Yielded
      /\ awaited' = awaited \ {"recheck"}
      /\ UNCHANGED <<life, fresh, ready, saves, gateVars, stopVars, loopVars, callVars, job>>
  BY DEF RecheckEnds, GoTo
<1>3. CallType' /\ Yielded'
  BY <1>1, <1>2, CallsRest
<1>4. /\ timer' = timer /\ blocked' = blocked
      /\ relayStopped' = relayStopped /\ stops' = stops
  BY <1>2 DEF gateVars, stopVars
<1>5. RecheckDispatches'
  BY <1>2 DEF IInv, RecheckDispatches, callVars
<1>6. life # "starting"
  BY <1>2 DEF IInv, StartIsFirst
<1>7. LifeType' /\ StartIsFirst' /\ ReopenIsWatched' /\ OpenGateIsWatched'
  BY <1>1, <1>2, <1>4, <1>6
  DEF LifeType, StartIsFirst, ReopenIsWatched, IInv, OpenGateIsWatched
<1>8. \A r \in Runs : Alive(r)' <=> Alive(r)
  BY <1>2 DEF loopVars, Alive
<1>9. StopWaits'
  BY <1>2, <1>3, <1>4, <1>8 DEF IInv, StopWaits, Stopping
<1> QED
  BY <1>1, <1>2, <1>3, <1>4, <1>7, <1>9, <1>5, KeptStops, SteadyStep DEF FlagType, CountType

LEMMA RedispatchedWell == ASSUME IInv, Redispatched PROVE IInv'
<1>1. Types /\ FlagType /\ CountType /\ CallType /\ "recheck" \in Callers
  BY DEF IInv, Types, Callers
<1>2. /\ check # "idle" /\ check' \in {"release", "failed"} /\ Yielded
      /\ Move("recheck", "idle")
      /\ UNCHANGED <<attempted, daemonVars, gateVars, stopVars, loopVars, job>>
  BY DEF Redispatched, GoTo
<1>3. CallType' /\ Yielded'
  <2>1. JobType'
    BY <1>1, <1>2 DEF CallType, JobType
  <2> QED  BY <1>1, <1>2, <2>1, MoveKeepsCalls DEF CallsServe
<1>4. /\ life' = life /\ awaited' = awaited /\ ready' = ready
      /\ fresh' \in BOOLEAN /\ saves' \in 0..MaxSaves /\ attempted' \in BOOLEAN
  BY <1>1, <1>2 DEF daemonVars, FlagType, CountType
<1>5. ReopenIsWatched' /\ check' \in Checks \ {"idle"}
  BY <1>2 DEF ReopenIsWatched, Checks
<1>6. RecheckDispatches'
  BY <1>1, <1>2 DEF RecheckDispatches, Move, CallType
<1> QED  BY <1>2, <1>3, <1>4, <1>5, <1>6, RecheckStep

LEMMA RecheckSavedWell == ASSUME IInv, RecheckSaved PROVE IInv'
<1>1. Types /\ FlagType /\ CountType /\ CallType /\ MaxSaves \in Nat
  BY GateAssumption DEF IInv, Types
<1>2. check # "idle" /\ Yielded /\ UNCHANGED <<life, awaited, ready, loopVars, callVars, job>>
  BY DEF RecheckSaved
<1>3. CallType' /\ Yielded'
  BY <1>1, <1>2, CallsRest
<1>4. RecheckDispatches'
  BY <1>2 DEF IInv, RecheckDispatches, RecheckSaved, callVars
<1>5. {"release", "failed", "reopen"} \subseteq Checks \ {"idle"}
  BY DEF Checks
<1>6. CASE /\ check' \in {"release", "failed"}
           /\ KeepGate /\ UNCHANGED <<attempted, fresh, saves>>
  <2>1. ReopenIsWatched'
    BY <1>6 DEF ReopenIsWatched
  <2>2. fresh' \in BOOLEAN /\ attempted' \in BOOLEAN /\ saves' \in 0..MaxSaves
    BY <1>1, <1>6 DEF FlagType, CountType
  <2> QED  BY <1>2, <1>3, <1>5, <1>6, <2>1, <2>2, <1>4, RecheckStep DEF KeepGate
<1>7. ASSUME saves < MaxSaves, saves' = saves + 1 PROVE saves' \in 0..MaxSaves
  BY <1>1, <1>7 DEF CountType
<1>8. CASE /\ saves < MaxSaves /\ saves' = saves + 1 /\ fresh' = TRUE /\ blocked
           /\ Block(TRUE) /\ attempted' = TRUE /\ GoTo("reopen")
  <2>1. Shut /\ timer'
    BY <1>1, <1>8, BlockShuts
  <2>2. ReopenIsWatched'
    BY <2>1 DEF ReopenIsWatched, Shut
  <2> QED  BY <1>2, <1>3, <1>5, <1>7, <1>8, <2>1, <2>2, <1>4, RecheckStep DEF GoTo
<1>9. CASE /\ saves < MaxSaves /\ saves' = saves + 1 /\ fresh' = TRUE
           /\ timer' = TRUE /\ GoTo("release")
           /\ UNCHANGED <<attempted, blocked, relayStopped, stopVars>>
  <2>1. attempted' \in BOOLEAN
    BY <1>1, <1>9 DEF FlagType
  <2>2. ReopenIsWatched'
    BY <1>9 DEF ReopenIsWatched, GoTo
  <2> QED  BY <1>2, <1>3, <1>5, <1>7, <1>9, <2>1, <2>2, <1>4, RecheckStep DEF GoTo
<1>10. CASE /\ saves < MaxSaves /\ saves' = saves + 1 /\ fresh' = FALSE
           /\ Block(FALSE) /\ GoTo("release") /\ UNCHANGED attempted
  <2>1. Shut
    BY <1>1, <1>10, BlockShuts
  <2>2. attempted' \in BOOLEAN
    BY <1>1, <1>10 DEF FlagType
  <2>3. ReopenIsWatched'
    BY <1>10 DEF ReopenIsWatched, GoTo
  <2> QED  BY <1>2, <1>3, <1>5, <1>7, <1>10, <2>1, <2>2, <2>3, <1>4, RecheckStep DEF GoTo
<1> QED  BY <1>6, <1>8, <1>9, <1>10 DEF RecheckSaved, GoTo

-----------------------------------------------------------------------------
(* The loop begins.                                                        *)

LEMMA StartRelayStarts ==
  ASSUME IInv, StartRelay, UNCHANGED <<terminal, connects, saves>>,
         UNCHANGED <<stops, stopRun, sock>>, stops = {}
  PROVE  CountType' /\ LoopType' /\ OneLoop' /\ aborted' \in BOOLEAN
<1>1. Types /\ FlagType /\ CountType /\ LoopType /\ OneLoop /\ MaxRuns \in Nat
  BY GateAssumption DEF IInv, Types
<1>2. CASE runPromise # 0
  <2>1. UNCHANGED <<aborted, runPromise, runs, loop>>
    BY <1>2 DEF StartRelay
  <2> QED
    BY <1>1, <2>1 DEF FlagType, CountType, LoopType, OneLoop, Alive
<1>3. CASE runPromise = 0
  <2> DEFINE place == IF terminal THEN "ended" ELSE "token"
  <2>1. /\ runs < MaxRuns /\ runs' = runs + 1 /\ runPromise' = runs + 1
        /\ aborted' = FALSE /\ loop' = [loop EXCEPT ![runs + 1] = place]
    BY <1>3 DEF StartRelay
  <2>2. runs + 1 \in Runs /\ runs \in Nat /\ runs' \in 0..MaxRuns
        /\ runPromise' \in 0..runs'
    BY <1>1, <2>1 DEF CountType, Runs
  <2>3. place \in {"token", "ended"}
    OBVIOUS
  <2>4. /\ loop' \in [Runs -> {"none", "token", "connecting", "hooks", "open",
                               "backoff", "ended"}]
        /\ \A r \in Runs : /\ r # runs + 1 => loop'[r] = loop[r]
                           /\ r = runs + 1 => loop'[r] \in {"token", "ended"}
    <3> HIDE DEF place
    <3> QED  BY <1>1, <2>1, <2>2, <2>3 DEF LoopType
  <2>5. \A r \in Runs : r \in Nat /\ ((r > runs') <=> loop'[r] = "none")
    <3>1. \A r \in Runs : r \in Nat
      BY <1>1 DEF Runs
    <3>2. \A r \in Runs : (r > runs) <=> loop[r] = "none"
      BY <1>1 DEF CountType
    <3>3. ASSUME NEW r \in Runs PROVE (r > runs') <=> loop'[r] = "none"
      <4>1. CASE r = runs + 1
        BY <2>1, <2>2, <2>4, <3>1, <4>1
      <4>2. CASE r # runs + 1
        <5>1. (r > runs') <=> (r > runs)
          BY <2>1, <2>2, <3>1, <4>2
        <5> QED  BY <2>4, <3>2, <4>2, <5>1
      <4> QED  BY <4>1, <4>2
    <3> QED  BY <3>1, <3>3
  <2>6. CountType'
    BY <1>1, <2>2, <2>5 DEF CountType
  <2>7. LoopType'
    BY <1>1, <2>4 DEF LoopType
  <2>8. OneLoop'
    <3>1. \A r \in Runs : r # 0
      BY <1>1 DEF Runs
    <3>2. \A r \in Runs : ~Alive(r)
      BY <1>1, <1>3, <3>1 DEF OneLoop
    <3>3. \A r \in Runs : Alive(r)' => r = runs + 1
      BY <2>4, <3>2 DEF Alive
    <3> QED  BY <2>1, <3>3 DEF OneLoop
  <2> QED  BY <2>1, <2>6, <2>7, <2>8
<1> QED  BY <1>2, <1>3

LEMMA ReopenWell == ASSUME IInv, Reopen PROVE IInv'
<1>1. Types /\ FlagType /\ CountType /\ LoopType /\ CallType /\ LifeType
      /\ "recheck" \in Callers /\ Acked \subseteq Jobs
  BY DEF IInv, Types, Callers, Acked
<1>2. /\ check = "reopen" /\ Yielded /\ "gate" \notin stops
      /\ UNCHANGED <<attempted, daemonVars, terminal, connects, job>>
  BY DEF Reopen
<1>3. /\ life' = life /\ awaited' = awaited /\ ready' = ready /\ fresh' = fresh
      /\ saves' = saves /\ attempted' = attempted /\ JobType'
  BY <1>1, <1>2 DEF daemonVars, CallType, JobType
<1>4. CASE /\ Stopping \/ ~fresh
           /\ timer' = (timer /\ Stopping) /\ GoTo("release")
           /\ UNCHANGED <<blocked, relayStopped, stopVars, runPromise, runs, loop, callVars>>
  <2>1. CallType' /\ Yielded'
    BY <1>1, <1>2, <1>3, <1>4, SameCalls
  <2>2. StopsLoop /\ UNCHANGED loopVars /\ stops' = stops
    BY <1>1, <1>2, <1>4, KeptStops DEF loopVars, stopVars
  <2>3. RecheckDispatches' /\ ReopenIsWatched' /\ LifeType'
    BY <1>1, <1>2, <1>3, <1>4 DEF IInv, RecheckDispatches, callVars, ReopenIsWatched, GoTo,
                                  LifeType
  <2>4. life # "starting" /\ check' = "release"
    BY <1>2, <1>4 DEF IInv, StartIsFirst, GoTo
  <2>5. StartIsFirst' /\ OpenGateIsWatched'
    <3>1. life = "up" => blocked
      BY <1>1, <1>2, <1>4 DEF IInv, ReopenIsWatched, Stopping
    <3> QED  BY <1>3, <1>4, <2>4, <3>1 DEF StartIsFirst, OpenGateIsWatched
  <2>6. \A r \in Runs : Alive(r)' <=> Alive(r)
    BY <1>4 DEF Alive
  <2>7. StopWaits'
    BY <1>2, <1>3, <2>1, <2>2, <2>6 DEF IInv, StopWaits, Stopping
  <2>8. timer' \in BOOLEAN /\ blocked' \in BOOLEAN /\ relayStopped' \in BOOLEAN
    BY <1>1, <1>4 DEF FlagType
  <2> QED
    BY <1>1, <1>3, <2>1, <2>2, <2>3, <2>5, <2>7, <2>8, SteadyStep DEF FlagType, CountType
<1>5. CASE /\ ~Stopping /\ fresh /\ blocked' = FALSE /\ relayStopped' = FALSE
           /\ StartRelay /\ GoTo("dispatch")
           /\ IF ready
              THEN /\ at' = [at EXCEPT !["recheck"] = "next"]
                   /\ todo' = [todo EXCEPT !["recheck"] = Acked]
                   /\ UNCHANGED held
              ELSE UNCHANGED callVars
           /\ UNCHANGED <<timer, stops, stopRun, sock>>
  <2>1. timer /\ life = "up" /\ stops = {}
    <3>1. "daemon" \notin stops
      BY <1>5 DEF IInv, StopWaits
    <3>2. life = "up"
      BY <1>1, <1>2, <1>5 DEF IInv, StartIsFirst, LifeType, Stopping
    <3>3. timer
      BY <1>2, <1>5 DEF IInv, ReopenIsWatched
    <3> QED  BY <1>1, <1>2, <3>1, <3>2, <3>3 DEF LoopType
  <2>2. CountType' /\ LoopType' /\ OneLoop' /\ aborted' \in BOOLEAN
    BY <1>2, <1>3, <1>5, <2>1, StartRelayStarts
  <2>3. CallType'
    <3>1. CASE UNCHANGED callVars
      BY <1>1, <1>3, <3>1, SameCalls
    <3>2. CASE /\ at' = [at EXCEPT !["recheck"] = "next"]
               /\ todo' = [todo EXCEPT !["recheck"] = Acked]
               /\ UNCHANGED held
      <4>1. /\ at' \in [Callers -> {"idle", "next", "claimed", "await", "stopwait", "threw"}]
            /\ todo' \in [Callers -> SUBSET Jobs] /\ held' = held
            /\ \A d \in Callers : at'[d] = at[d] \/ (d = "recheck" /\ at'[d] = "next")
        BY <1>1, <3>2 DEF CallType
      <4>2. held["recheck"] = NoJob
        BY <1>1, <1>2 DEF CallType, IInv, RecheckDispatches
      <4> QED  BY <1>1, <1>3, <4>1, <4>2 DEF CallType, JobType
    <3> QED  BY <1>5, <3>1, <3>2
  <2>4. FlagType' /\ LifeType'
    BY <1>1, <1>2, <1>3, <1>5, <2>2 DEF FlagType, LifeType, GoTo
  <2>5. /\ StartIsFirst' /\ ReopenIsWatched' /\ OpenGateIsWatched' /\ RecheckDispatches'
    BY <1>3, <1>5, <2>1
    DEF StartIsFirst, ReopenIsWatched, OpenGateIsWatched, RecheckDispatches, GoTo
  <2>6. StopWaits'
    BY <1>3, <1>5, <2>1 DEF StopWaits, Stopping
  <2> QED  BY <2>2, <2>3, <2>4, <2>5, <2>6 DEF IInv, Types
<1> QED  BY <1>4, <1>5 DEF Reopen

LEMMA RecheckKeepsIInv == ASSUME IInv, Recheck PROVE IInv'
BY RecheckBeginsWell, RecheckMovesOn, RecheckSavedWell, ReopenWell, RedispatchedWell,
   RecheckEndsWell DEF Recheck

-----------------------------------------------------------------------------
(* The daemon.                                                             *)

LEMMA StartWell == ASSUME IInv, Start PROVE IInv'
<1>1. Types /\ FlagType /\ CountType /\ LoopType /\ CallType /\ LifeType
  BY DEF IInv, Types
<1>2. /\ life = "starting" /\ life' = "up" /\ Yielded
      /\ UNCHANGED <<awaited, fresh, ready, saves, checkVars, terminal, connects, callVars, job>>
  BY DEF Start
<1>3. check = "idle" /\ check' = "idle" /\ attempted' = attempted
  BY <1>2 DEF IInv, StartIsFirst, checkVars
<1>4. CallType' /\ Yielded' /\ RecheckDispatches'
  BY <1>1, <1>2, <1>3, CallsRest DEF IInv, RecheckDispatches, callVars
<1>5. LifeType' /\ ReopenIsWatched' /\ StartIsFirst'
  BY <1>1, <1>2, <1>3 DEF LifeType, ReopenIsWatched, StartIsFirst
<1>6. CASE /\ fresh /\ timer' = TRUE /\ StartRelay
           /\ UNCHANGED <<blocked, relayStopped, stops, stopRun, sock>>
  <2>1. stops = {}
    BY <1>2, <1>6 DEF IInv, StartIsFirst
  <2>2. CountType' /\ LoopType' /\ OneLoop' /\ aborted' \in BOOLEAN
    BY <1>2, <1>6, <2>1, StartRelayStarts
  <2>3. FlagType'
    BY <1>1, <1>2, <1>3, <1>6, <2>2 DEF FlagType
  <2>4. StopWaits' /\ OpenGateIsWatched'
    BY <1>2, <1>6, <2>1 DEF StopWaits, OpenGateIsWatched, Stopping
  <2> QED  BY <1>4, <1>5, <2>2, <2>3, <2>4 DEF IInv, Types
<1>7. CASE ~fresh /\ Block(FALSE) /\ UNCHANGED <<runPromise, runs, loop>>
  <2>1. Shut
    BY <1>1, <1>7, BlockShuts
  <2>2. UNCHANGED loopVars
    BY <1>2, <1>7 DEF loopVars
  <2>3. StopWaits' /\ OpenGateIsWatched'
    BY <1>2, <2>1 DEF IInv, StopWaits, OpenGateIsWatched, Stopping, Shut
  <2>4. /\ fresh' \in BOOLEAN /\ ready' \in BOOLEAN /\ attempted' \in BOOLEAN
        /\ saves' \in 0..MaxSaves
    BY <1>1, <1>2, <1>3 DEF FlagType, CountType
  <2> QED  BY <1>4, <1>5, <2>1, <2>2, <2>3, <2>4, SteadyStep DEF Shut
<1> QED  BY <1>6, <1>7 DEF Start

LEMMA StopWell == ASSUME IInv, Stop PROVE IInv'
<1>1. Types /\ FlagType /\ CountType /\ LoopType /\ CallType /\ LifeType
  BY DEF IInv, Types
<1>2. /\ life' = "stopping" /\ timer' = FALSE /\ ready' = FALSE /\ Yielded
      /\ awaited' = InFlight /\ StopRelay("daemon")
      /\ UNCHANGED <<fresh, saves, blocked, relayStopped, checkVars, loopVars, callVars, job>>
  BY DEF Stop
<1>3. StopsLoop /\ stops' = stops \cup {"daemon"}
  BY <1>1, <1>2, StopRelayStops
<1>4. check' = check /\ attempted' = attempted
  BY <1>2 DEF checkVars
<1>5. CallType' /\ RecheckDispatches'
  BY <1>1, <1>2, <1>4, CallsRest DEF IInv, RecheckDispatches, callVars
<1>6. awaited' \subseteq {"gate", "recheck"} /\ (check # "idle" => "recheck" \in awaited')
  BY <1>2 DEF InFlight
<1>7. LifeType' /\ StartIsFirst' /\ ReopenIsWatched' /\ OpenGateIsWatched'
  BY <1>1, <1>2, <1>4, <1>6
  DEF LifeType, StartIsFirst, ReopenIsWatched, OpenGateIsWatched, Stopping
<1>8. StopWaits'
  BY <1>2, <1>3, <1>4, <1>6 DEF StopWaits, Stopping
<1> QED
  BY <1>1, <1>2, <1>3, <1>4, <1>5, <1>7, <1>8, SteadyStep DEF FlagType, CountType

LEMMA StoppedWell == ASSUME IInv, Stopped PROVE IInv'
<1>1. Types /\ FlagType /\ CountType /\ LoopType /\ CallType /\ LifeType
  BY DEF IInv, Types
<1>2. /\ life = "stopping" /\ life' = "stopped" /\ awaited = {} /\ "daemon" \notin stops
      /\ Yielded
      /\ UNCHANGED <<awaited, fresh, ready, saves, gateVars, checkVars, stopVars, loopVars,
                     callVars, job>>
  BY DEF Stopped
<1>3. /\ check' = check /\ attempted' = attempted /\ stops' = stops
      /\ timer' = timer /\ blocked' = blocked /\ relayStopped' = relayStopped
  BY <1>2 DEF checkVars, stopVars, gateVars
<1>4. CallType' /\ Yielded' /\ RecheckDispatches'
  BY <1>1, <1>2, <1>3, CallsRest DEF IInv, RecheckDispatches, callVars
<1>5. LifeType' /\ StartIsFirst' /\ ReopenIsWatched' /\ OpenGateIsWatched'
  BY <1>1, <1>2, <1>3
  DEF LifeType, StartIsFirst, ReopenIsWatched, OpenGateIsWatched, Stopping
<1>6. \A r \in Runs : Alive(r)' <=> Alive(r)
  BY <1>2 DEF loopVars, Alive
<1>7. StopWaits'
  BY <1>2, <1>3, <1>4, <1>6 DEF IInv, StopWaits, Stopping
<1> QED
  BY <1>1, <1>2, <1>3, <1>4, <1>5, <1>7, KeptStops, SteadyStep DEF FlagType, CountType

\* Once a stop found its loop ended no loop runs, so the next may begin.
LEMMA RelayStoppedWell == ASSUME IInv, GateStopped \/ DaemonRelayStopped PROVE IInv'
<1>1. Types /\ FlagType /\ CountType /\ LoopType /\ CallType /\ LifeType /\ MaxRuns \in Nat
  BY GateAssumption DEF IInv, Types
<1>2. PICK caller \in {"gate", "daemon"} :
        /\ LoopEnded(caller) /\ stops' = stops \ {caller}
        /\ stopRun' = [stopRun EXCEPT ![caller] = 0]
        /\ awaited' = awaited \ {"gate"} \/ awaited' = awaited
        /\ caller = "daemon" => UNCHANGED <<awaited, relayStopped>>
  BY DEF GateStopped, DaemonRelayStopped, daemonVars, gateVars
<1>3. /\ Yielded /\ runPromise' = 0 /\ relayStopped' \in BOOLEAN
      /\ UNCHANGED <<life, fresh, ready, saves, timer, blocked, check, attempted>>
      /\ UNCHANGED <<aborted, sock, runs, loop, terminal, connects, callVars, job>>
  BY <1>1 DEF GateStopped, DaemonRelayStopped, daemonVars, gateVars, checkVars, FlagType
<1>4. CallType' /\ Yielded' /\ RecheckDispatches'
  BY <1>1, <1>3, CallsRest DEF IInv, RecheckDispatches, callVars
<1>5. \A r \in Runs : ~Alive(r) /\ ~Alive(r)'
  <2>1. \A r \in Runs : Alive(r) => loop[r] = "ended"
    BY <1>2 DEF IInv, OneLoop, LoopEnded
  <2>2. \A r \in Runs : ~Alive(r)
    BY <2>1 DEF Alive
  <2> QED  BY <1>3, <2>2 DEF Alive
<1>6. stopRun' \in [{"gate", "daemon"} -> 0..MaxRuns]
  BY <1>1, <1>2 DEF LoopType
<1>7. LoopType' /\ FlagType'
  BY <1>1, <1>2, <1>3, <1>6 DEF LoopType, FlagType
<1>8. CountType'
  BY <1>1, <1>3 DEF CountType
<1>9. LifeType' /\ OneLoop'
  BY <1>1, <1>2, <1>3, <1>5 DEF LifeType, OneLoop
<1>10. StartIsFirst' /\ ReopenIsWatched' /\ OpenGateIsWatched'
  BY <1>2, <1>3 DEF IInv, StartIsFirst, ReopenIsWatched, OpenGateIsWatched, Stopping
<1>11. StopWaits'
  <2>1. "recheck" \in awaited => "recheck" \in awaited'
    BY <1>2
  <2>2. life = "stopped" => awaited' = {}
    BY <1>2 DEF IInv, StopWaits
  <2> QED  BY <1>2, <1>3, <1>4, <1>5, <2>1, <2>2 DEF IInv, StopWaits, Stopping
<1> QED
  BY <1>4, <1>7, <1>8, <1>9, <1>10, <1>11 DEF IInv, Types

LEMMA DeadlineWell == ASSUME IInv, DeadlinePasses PROVE IInv'
<1>1. Types /\ FlagType /\ CountType /\ LoopType /\ CallType /\ LifeType
  BY DEF IInv, Types
<1>2. /\ ~fresh /\ Block(FALSE) /\ Yielded
      /\ UNCHANGED <<daemonVars, checkVars, loopVars, callVars, job>>
  BY DEF DeadlinePasses
<1>3. /\ life' = life /\ awaited' = awaited /\ fresh' = fresh /\ ready' = ready
      /\ saves' = saves /\ check' = check /\ attempted' = attempted
  BY <1>2 DEF daemonVars, checkVars
<1>4. Shut
  BY <1>1, <1>2, BlockShuts
<1>5. CallType' /\ Yielded' /\ RecheckDispatches'
  BY <1>1, <1>2, <1>3, CallsRest DEF IInv, RecheckDispatches, callVars
<1>6. LifeType' /\ StartIsFirst' /\ ReopenIsWatched' /\ OpenGateIsWatched'
  BY <1>1, <1>2, <1>3, <1>4
  DEF IInv, LifeType, StartIsFirst, ReopenIsWatched, OpenGateIsWatched, Shut
<1>7. \A r \in Runs : Alive(r)' <=> Alive(r)
  BY <1>2 DEF loopVars, Alive
<1>8. StopWaits'
  BY <1>3, <1>4, <1>5, <1>7 DEF IInv, StopWaits, Stopping, Shut
<1> QED
  BY <1>1, <1>2, <1>3, <1>4, <1>5, <1>6, <1>8, SteadyStep DEF FlagType, CountType, Shut

LEMMA ClockAndBackendWell == ASSUME IInv, Expire \/ Backend PROVE IInv'
<1>1. Types /\ FlagType /\ CountType /\ LoopType /\ CallType /\ LifeType
  BY DEF IInv, Types
<1>2. /\ UNCHANGED <<life, awaited, saves, gateVars, checkVars, stopVars, loopVars,
                     callVars, job>>
      /\ fresh' = fresh \/ fresh' = FALSE
  BY DEF Expire, Backend
<1>3. /\ ready' \in BOOLEAN
      /\ ready' # ready => ~Stopping
  BY <1>1 DEF Expire, Backend, FlagType
<1>4. /\ check' = check /\ attempted' = attempted /\ stops' = stops
      /\ timer' = timer /\ blocked' = blocked /\ relayStopped' = relayStopped
  BY <1>2 DEF checkVars, stopVars, gateVars
<1>5. CallType' /\ RecheckDispatches' /\ (Yielded => Yielded')
  BY <1>1, <1>2, <1>4, CallsRest DEF IInv, RecheckDispatches, callVars
<1>6. LifeType' /\ StartIsFirst' /\ ReopenIsWatched' /\ OpenGateIsWatched'
  BY <1>1, <1>2, <1>4
  DEF IInv, LifeType, StartIsFirst, ReopenIsWatched, OpenGateIsWatched, Stopping
<1>7. \A r \in Runs : Alive(r)' <=> Alive(r)
  BY <1>2 DEF loopVars, Alive
<1>8. StopWaits'
  BY <1>1, <1>2, <1>3, <1>4, <1>5, <1>7 DEF IInv, StopWaits, Stopping, FlagType
<1> QED
  BY <1>1, <1>2, <1>3, <1>4, <1>5, <1>6, <1>8, KeptStops, SteadyStep DEF FlagType, CountType

LEMMA StutterWell == ASSUME IInv, UNCHANGED vars PROVE IInv'
<1>1. Types /\ FlagType /\ CountType /\ LoopType /\ CallType /\ LifeType
  BY DEF IInv, Types
<1>2. /\ UNCHANGED <<life, awaited, fresh, ready, saves, gateVars, checkVars, stopVars,
                     loopVars, callVars, job>>
  BY DEF vars, daemonVars
<1>3. /\ check' = check /\ attempted' = attempted /\ stops' = stops
      /\ timer' = timer /\ blocked' = blocked /\ relayStopped' = relayStopped
  BY <1>2 DEF checkVars, stopVars, gateVars
<1>4. CallType' /\ RecheckDispatches' /\ (Yielded => Yielded')
  BY <1>1, <1>2, <1>3, CallsRest DEF IInv, RecheckDispatches, callVars
<1>5. LifeType' /\ StartIsFirst' /\ ReopenIsWatched' /\ OpenGateIsWatched'
  BY <1>1, <1>2, <1>3
  DEF IInv, LifeType, StartIsFirst, ReopenIsWatched, OpenGateIsWatched, Stopping
<1>6. \A r \in Runs : Alive(r)' <=> Alive(r)
  BY <1>2 DEF loopVars, Alive
<1>7. StopWaits'
  BY <1>1, <1>2, <1>3, <1>4, <1>6 DEF IInv, StopWaits, Stopping
<1> QED
  BY <1>1, <1>2, <1>3, <1>4, <1>5, <1>7, KeptStops, SteadyStep DEF FlagType, CountType

LEMMA NextKeepsIInv == ASSUME IInv, [Next]_vars PROVE IInv'
<1>1. CASE UNCHANGED vars
  BY <1>1, StutterWell
<1>2. ASSUME NEW r \in Runs, RelayLoop(r) PROVE IInv'
  BY <1>2, LoopsServe, ServeKeepsIInv
<1>3. CASE OtherDispatch \/ (\E j \in Jobs : JobEnds(j))
           \/ \E r \in Runs, j \in Jobs : Incoming(r, j)
  BY <1>3, JobsServe, ServeKeepsIInv
<1>4. ASSUME NEW c \in Callers, Dispatch(c) PROVE IInv'
  BY <1>4, CandidateServes, SubmitServes, CallersServe, ServeKeepsIInv DEF Dispatch
<1>5. CASE Recheck
  BY <1>5, RecheckKeepsIInv
<1>6. CASE Daemon
  BY <1>6, StartWell, StopWell, StoppedWell, DeadlineWell, RelayStoppedWell DEF Daemon
<1>7. CASE Backend \/ Expire
  BY <1>7, ClockAndBackendWell
<1> QED  BY <1>1, <1>2, <1>3, <1>4, <1>5, <1>6, <1>7 DEF Next

LEMMA IInvHolds == Spec => []IInv
<1> QED  BY InitIsGood, NextKeepsIInv, PTL DEF Spec

-----------------------------------------------------------------------------
(* What is claimed.                                                        *)

\* The state of the daemon, its gate and the relay client keeps its type.
THEOREM TypeCorrect == Spec => []TypeOK
<1>1. IInv => TypeOK
  BY TypesMeanTypeOK DEF IInv
<1> QED  BY <1>1, IInvHolds, PTL

\* An open gate has an armed timer for the deadline of its proof, whatever
\* rechecks, closings and reopenings come before.
THEOREM GateIsWatched == Spec => []OpenGateIsWatched
<1>1. IInv => OpenGateIsWatched
  BY DEF IInv
<1> QED  BY <1>1, IInvHolds, PTL

\* The relay client never has two loops, and every stop that is pending waits
\* for the one that runs.
THEOREM LoopIsAlone == Spec => []OneLoop
<1>1. IInv => OneLoop
  BY DEF IInv
<1> QED  BY <1>1, IInvHolds, PTL

LEMMA StoppedStays ==
  ASSUME IInv, life = "stopped", Next
  PROVE  /\ life' = life /\ saves' = saves
         /\ \A r \in Runs : loop'[r] = loop[r]
<1>1. /\ check = "idle" /\ \A r \in Runs : ~Alive(r)
  BY DEF IInv, StopWaits, Stopping
<1>2. ASSUME ServeStep PROVE life' = life /\ saves' = saves /\ \A r \in Runs : loop'[r] = loop[r]
  BY <1>1, <1>2 DEF ServeStep
<1>3. ASSUME NEW r \in Runs, RelayLoop(r) PROVE ServeStep
  BY <1>3, LoopsServe
<1>4. CASE OtherDispatch \/ (\E j \in Jobs : JobEnds(j))
           \/ \E r \in Runs, j \in Jobs : Incoming(r, j)
  BY <1>2, <1>4, JobsServe
<1>5. ASSUME NEW c \in Callers, Dispatch(c) PROVE ServeStep
  BY <1>5, CandidateServes, SubmitServes, CallersServe DEF Dispatch
<1>6. ~Recheck
  BY <1>1 DEF Recheck, RecheckBegins, RecheckGuard, RecheckStopped, RecheckAnswer,
             RecheckSaved, Reopen, Redispatched, Released, RecheckEnds
<1>7. CASE Daemon \/ Backend \/ Expire
  BY <1>7 DEF Daemon, Start, Stop, Stopped, Stopping, DeadlinePasses, GateStopped,
              DaemonRelayStopped, Backend, Expire, daemonVars, loopVars
<1> QED  BY <1>2, <1>3, <1>4, <1>5, <1>6, <1>7 DEF Next

\* Once stop() has returned nothing reconnects, claims or saves a proof, and no
\* recheck runs.
THEOREM StopEndsAll == Spec => StopIsFinal
<1> DEFINE Final == life = "stopped" =>
             /\ \A r \in Runs : ~Alive(r) /\ loop'[r] = loop[r]
             /\ check = "idle" /\ saves' = saves
             /\ \A c \in Callers : at'[c] \notin {"claimed"}
<1>1. ASSUME IInv, IInv', [Next]_vars PROVE [Final]_vars
  <2>1. SUFFICES ASSUME life = "stopped", Next PROVE Final
    BY <1>1
  <2>2. life' = life /\ saves' = saves /\ \A r \in Runs : loop'[r] = loop[r]
    BY <1>1, <2>1, StoppedStays
  <2>3. check = "idle" /\ \A r \in Runs : ~Alive(r)
    BY <1>1, <2>1 DEF IInv, StopWaits, Stopping
  <2>4. Yielded'
    BY <1>1, <2>1, <2>2 DEF IInv, StopWaits
  <2> QED  BY <2>2, <2>3, <2>4 DEF Yielded
<1>2. Spec => [][Final]_vars
  BY <1>1, IInvHolds, PTL DEF Spec
<1> QED  BY <1>2 DEF StopIsFinal

\* A submission begins in Submit alone.
NoneAwaits == \A c \in Callers : at'[c] = "await" => at[c] = "await"

LEMMA MoveAwaitsNot ==
  ASSUME CallType, NEW c \in Callers, NEW place \in {"idle", "next", "stopwait", "threw"},
         Move(c, place)
  PROVE  NoneAwaits
BY DEF CallType, Move, NoneAwaits

LEMMA DispatchAwaitsNot ==
  ASSUME CallType, NEW c \in Callers, NEW acked, DispatchPending(c, acked)
  PROVE  NoneAwaits
<1>1. CASE AfterBlock(c)
  <2>1. \E place \in {"idle", "next", "stopwait", "threw"} : Move(c, place)
    BY <1>1 DEF AfterBlock
  <2> QED  BY <2>1, MoveAwaitsNot
<1>2. CASE UNCHANGED callVars
  BY <1>2 DEF callVars, NoneAwaits
<1>3. CASE at' = [at EXCEPT ![c] = "next"]
  BY <1>3 DEF CallType, NoneAwaits
<1> QED  BY <1>1, <1>2, <1>3 DEF DispatchPending

LEMMA OnlySubmitAwaits ==
  ASSUME IInv, [Next]_vars, \A c \in Callers : ~Submit(c)
  PROVE  NoneAwaits
<1>1. CallType /\ {"connected", "recheck", "other"} \subseteq Callers
  BY DEF IInv, Types, Callers
<1>2. CASE UNCHANGED callVars
  BY <1>2 DEF callVars, NoneAwaits
<1>3. ASSUME NEW r \in Runs, RelayLoop(r) PROVE NoneAwaits
  <2>1. CASE Handshake(r)
    BY <1>1, <2>1, DispatchAwaitsNot DEF Handshake
  <2>2. CASE HooksEnd(r)
    BY <1>1, <1>2, <2>2, MoveAwaitsNot DEF HooksEnd
  <2> QED
    BY <1>2, <1>3, <2>1, <2>2
    DEF RelayLoop, Wake, TokenArrives, TokenFails, SocketCloses, ConnectionEnds
<1>4. ASSUME NEW r \in Runs, NEW j \in Jobs, Incoming(r, j) PROVE NoneAwaits
  BY <1>1, <1>2, <1>4, MoveAwaitsNot, DispatchAwaitsNot DEF Incoming
<1>5. ASSUME NEW c \in Callers, Candidate(c) PROVE NoneAwaits
  <2>1. CASE Move(c, "idle") \/ AfterBlock(c) \/ Throw(c)
    <3>1. \E place \in {"idle", "next", "stopwait", "threw"} : Move(c, place)
      BY <2>1 DEF AfterBlock, Throw
    <3> QED  BY <1>1, <3>1, MoveAwaitsNot
  <2>2. CASE UNCHANGED at \/ at' = [at EXCEPT ![c] = "claimed"]
    BY <1>1, <2>2 DEF CallType, NoneAwaits
  <2> QED  BY <1>5, <2>1, <2>2 DEF Candidate
<1>6. ASSUME NEW c \in Callers, SubmissionEnds(c) \/ StopAwaited(c) PROVE NoneAwaits
  <2>1. CASE Move(c, "idle") \/ Throw(c)
    <3>1. \E place \in {"idle", "next", "stopwait", "threw"} : Move(c, place)
      BY <2>1 DEF Throw
    <3> QED  BY <1>1, <3>1, MoveAwaitsNot
  <2>2. CASE at' = [at EXCEPT ![c] = "next"]
    BY <1>1, <2>2 DEF CallType, NoneAwaits
  <2> QED  BY <1>6, <2>1, <2>2 DEF SubmissionEnds, StopAwaited
<1>7. CASE OtherDispatch
  BY <1>1, <1>7, DispatchAwaitsNot DEF OtherDispatch
<1>8. CASE Recheck
  <2>1. CASE Reopen
    BY <1>1, <1>2, <2>1 DEF Reopen, CallType, NoneAwaits
  <2>2. CASE Redispatched
    BY <1>1, <2>2, MoveAwaitsNot DEF Redispatched
  <2> QED
    BY <1>2, <1>8, <2>1, <2>2
    DEF Recheck, RecheckBegins, RecheckGuard, RecheckStopped, RecheckAnswer, RecheckSaved,
        Released, RecheckEnds
<1>9. CASE Daemon \/ Backend \/ Expire \/ UNCHANGED vars \/ \E j \in Jobs : JobEnds(j)
  BY <1>2, <1>9
  DEF Daemon, Start, Stop, Stopped, DeadlinePasses, GateStopped, DaemonRelayStopped, Backend,
      Expire, vars, JobEnds
<1> QED
  BY <1>3, <1>4, <1>5, <1>6, <1>7, <1>8, <1>9 DEF Next, Dispatch

\* No job is handed to the backend with an expired proof or after the daemon
\* stopped, wherever the clock passes the deadline.
THEOREM SubmissionsAreProven == Spec => ExpiredSubmitsNothing
<1> DEFINE Proven == \A c \in Callers :
             at[c] # "await" /\ at'[c] = "await" => fresh /\ life # "stopped"
<1>1. ASSUME IInv, [Next]_vars PROVE Proven
  <2>1. CASE \A c \in Callers : ~Submit(c)
    BY <1>1, <2>1, OnlySubmitAwaits DEF NoneAwaits
  <2>2. ASSUME NEW c \in Callers, Submit(c) PROVE Proven
    <3>1. life # "stopped" /\ CallType
      BY <1>1, <2>2 DEF IInv, Types, StopWaits, Yielded, Submit
    <3>2. CASE fresh
      BY <3>1, <3>2
    <3>3. CASE AfterBlock(c)
      <4>1. NoneAwaits
        BY <3>1, <3>3, MoveAwaitsNot DEF AfterBlock
      <4> QED  BY <4>1 DEF NoneAwaits
    <3> QED  BY <2>2, <3>2, <3>3 DEF Submit
  <2> QED  BY <2>1, <2>2
<1>2. Spec => [][Proven]_vars
  BY <1>1, IInvHolds, PTL DEF Spec
<1> QED  BY <1>2 DEF ExpiredSubmitsNothing

=============================================================================
