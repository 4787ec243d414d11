--------------------------- MODULE ExecutionBackends ---------------------------
(***************************************************************************)
(* The daemon runs one execution backend over its durable session, the one *)
(* the configuration names: Codex with a private key, Codex or Claude with *)
(* the operator's own login.  This module runs any of the three, and       *)
(* states what the daemon and the store rely on whichever it is.           *)
(***************************************************************************)
EXTENDS DurableSession, Sequences

CONSTANTS MaxBacklog, MaxTries, LateCancels

ASSUME BoundsAssumption == {MaxBacklog, MaxTries} \subseteq Nat \ {0}

VARIABLES
  kind,                                         \* the backend
  att, pc,                                      \* its attempt and its activities
  conn, rpc, wire, owed, events, srv,           \* of either Codex
  bstate, held, disc, cleanup, marker, tries,   \* Codex with a private key
  context, lstate,                              \* Codex with the own login
  child, out, stream, failed                    \* Claude

Private == INSTANCE CodexTurn WITH Methods <- {"start"}
Codex == INSTANCE NativeTurn
Claude == INSTANCE ClaudeTurn

sharedVars == <<conn, rpc, wire, owed, events, srv>>
privateVars == <<bstate, held, disc, cleanup, marker, tries>>
codexVars == <<context, lstate>>
claudeVars == <<child, out, stream, failed>>
vars == <<kind, att, pc, sharedVars, privateVars, codexVars, claudeVars, db, runs>>

\* The variables of the other backends.
Nothing == "nothing"

Init ==
  \/ /\ kind = "private" /\ Private!Init
     /\ context = Nothing /\ lstate = Nothing
     /\ child = Nothing /\ out = Nothing /\ stream = Nothing /\ failed = Nothing
  \/ /\ kind = "codex" /\ Codex!Init
     /\ bstate = Nothing /\ held = Nothing /\ disc = Nothing
     /\ cleanup = Nothing /\ marker = Nothing /\ tries = Nothing
     /\ child = Nothing /\ out = Nothing /\ stream = Nothing /\ failed = Nothing
  \/ /\ kind = "claude" /\ Claude!Init
     /\ conn = Nothing /\ rpc = Nothing /\ wire = Nothing /\ owed = Nothing
     /\ events = Nothing /\ srv = Nothing
     /\ bstate = Nothing /\ held = Nothing /\ disc = Nothing
     /\ cleanup = Nothing /\ marker = Nothing /\ tries = Nothing
     /\ context = Nothing /\ lstate = Nothing

InPrivate(step) == kind = "private" /\ step /\ UNCHANGED <<kind, codexVars, claudeVars>>
InCodex(step) == kind = "codex" /\ step /\ UNCHANGED <<kind, privateVars, claudeVars>>
InClaude(step) ==
  kind = "claude" /\ step /\ UNCHANGED <<kind, sharedVars, privateVars, codexVars>>

Next ==
  InPrivate(Private!Next) \/ InCodex(Codex!Next) \/ InClaude(Claude!Next)

\* The fairness of each backend: the daemon's own steps and timers are fair,
\* nothing is assumed of the programs, of the relay's cancels or of the
\* operator's stop.
Fairness ==
  /\ WF_vars(InPrivate(Private!DispatchStep)) /\ WF_vars(InPrivate(Private!EventStep))
  /\ WF_vars(InPrivate(Private!DeadlinePasses)) /\ WF_vars(InPrivate(Private!DeadlineStep))
  /\ WF_vars(InPrivate(Private!StopStep)) /\ WF_vars(InPrivate(Private!TimeOutRequest))
  /\ WF_vars(InPrivate(Private!ConfirmClose))
  /\ WF_vars(InCodex(Codex!DispatchStep)) /\ WF_vars(InCodex(Codex!EventStep))
  /\ WF_vars(InCodex(Codex!DeadlineStep)) /\ WF_vars(InCodex(Codex!InterruptSettles))
  /\ WF_vars(InCodex(Codex!StopStep)) /\ WF_vars(InCodex(Codex!TimeOutRequest))
  /\ WF_vars(InCodex(Codex!ConfirmClose))
  /\ WF_vars(InClaude(Claude!DispatchStep)) /\ WF_vars(InClaude(Claude!RunStep))
  /\ WF_vars(InClaude(Claude!DeadlineFires)) /\ WF_vars(InClaude(Claude!StopStep))

Spec == Init /\ [][Next]_vars /\ Fairness

-----------------------------------------------------------------------------
(* Properties.                                                             *)

\* The state of every backend stays within its types.
TypeOK ==
  /\ kind \in {"private", "codex", "claude"}
  /\ kind = "private" => Private!TypeOK
  /\ kind = "codex" => Codex!TypeOK
  /\ kind = "claude" => Claude!TypeOK

\* The app-server's thread has no turn beyond the checkpoint that is stored
\* whenever the daemon may dispatch: whatever cancels, deadlines, failures and
\* recoveries came before, after every end of a turn, that of a turn which
\* failed included, the tail was read back and recorded.
CheckpointFollowsTail ==
  /\ kind = "private" => Private!CheckpointFollowsTail
  /\ kind = "codex" => Codex!CheckpointFollowsTail

\* When stop() of the private backend has returned no process is left running,
\* except one whose close could not be confirmed, and then the session is
\* fenced for the operator; no job is left active, unless a dispatch that
\* waited for the same close is about to undo its claim.
StoppedIsQuiet == kind = "private" => Private!StoppedIsQuiet

\* Whatever cancel, deadline, exit or stop() comes between, a job's request
\* reaches the program at most once; a job that is given back or withdrawn as
\* not sent never reaches it, only an executed one is answered, and an attempt
\* of which nobody knows the outcome fences the session.
ImplementsExecutionPromise == Promise!Spec

\* Where a claimed job may stay claimed: an app-server whose process nothing
\* can end, and a Codex backend that stop() found between the end of a turn and
\* its checkpoint, whose job waits for the next start.
MayStayClaimed ==
  \/ kind = "private" /\ cleanup
  \/ kind = "codex" /\ (conn = "broken" \/ pc.stop = "stopped")

\* A claimed job does not stay claimed: the app-server or the child may be
\* silent, die or refuse to, a deadline or the end of the process settles it,
\* but for the cases named above.
ClaimedJobsSettle == ~NoActiveJob(db) ~> NoActiveJob(db) \/ MayStayClaimed

\* What the contract of cancel() says of not_sent: the request of a job that
\* was withdrawn without an ambiguity has not left the daemon.
NotSentMeansUnsent ==
  \A j \in Jobs : db.status[j] \in {"Queued", "Cancelled"} => runs[j] = 0
=============================================================================
