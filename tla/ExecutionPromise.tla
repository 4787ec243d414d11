--------------------------- MODULE ExecutionPromise ---------------------------
(***************************************************************************)
(* What a native execution backend of livis-relayd promises about the jobs *)
(* of its one session, whatever program executes them: a request reaches   *)
(* the program at most once; a job goes back to the queue, or is withdrawn *)
(* without an ambiguity, only while its request has not reached the        *)
(* program and never will; only a job that was executed is answered; and   *)
(* an execution whose outcome is unknown closes the session.  CodexTurn,   *)
(* NativeTurn and ClaudeTurn implement this specification.                 *)
(***************************************************************************)
EXTENDS Naturals

CONSTANT Jobs

VARIABLES
  phase,   \* where each job is
  runs,    \* how many times the request of each job reached the program
  fenced   \* the session takes no new execution

vars == <<phase, runs, fenced>>

Init ==
  /\ phase = [j \in Jobs |-> "queued"]
  /\ runs = [j \in Jobs |-> 0]
  /\ fenced = FALSE

Move(j, p) == phase' = [phase EXCEPT ![j] = p]

Claim(j) ==
  /\ phase[j] = "queued"
  /\ \A k \in Jobs : phase[k] # "claimed"
  /\ ~fenced
  /\ Move(j, "claimed")
  /\ UNCHANGED <<runs, fenced>>

\* The request reaches the program, in time or after the daemon gave it up:
\* an ambiguous job is one of which nobody knows whether this will happen.
Begin(j) ==
  /\ phase[j] \in {"claimed", "ambiguous"}
  /\ runs[j] = 0
  /\ runs' = [runs EXCEPT ![j] = 1]
  /\ UNCHANGED <<phase, fenced>>

\* Both may close the session as well: the backend could not be trusted.
Return(j) ==
  /\ phase[j] = "claimed"
  /\ runs[j] = 0
  /\ Move(j, "queued")
  /\ fenced' \in {fenced, TRUE}
  /\ UNCHANGED runs

Withdraw(j) ==
  /\ phase[j] \in {"queued", "claimed"}
  /\ runs[j] = 0
  /\ Move(j, "withdrawn")
  /\ fenced' \in {fenced, TRUE}
  /\ UNCHANGED runs

Answer(j) ==
  /\ phase[j] = "claimed"
  /\ runs[j] = 1
  /\ Move(j, "answered")
  /\ fenced' \in {fenced, TRUE}
  /\ UNCHANGED runs

Lose(j) ==
  /\ phase[j] = "claimed"
  /\ Move(j, "ambiguous")
  /\ fenced' = TRUE
  /\ UNCHANGED runs

Fence ==
  /\ fenced' = TRUE
  /\ UNCHANGED <<phase, runs>>

Next ==
  \/ \E j \in Jobs : \/ Claim(j) \/ Begin(j) \/ Return(j) \/ Withdraw(j)
                     \/ Answer(j) \/ Lose(j)
  \/ Fence

Spec == Init /\ [][Next]_vars
=============================================================================
