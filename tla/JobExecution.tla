---------------------------- MODULE JobExecution ----------------------------
(***************************************************************************)
(* What the durable job tables of livis-relayd promise, without any table: *)
(* every LiViS job is begun by a backend at most once, the jobs of one     *)
(* session are executed one at a time, a job whose cancellation was asked  *)
(* for is never answered, and an execution whose outcome is unknown fences *)
(* its session until an operator releases it.  JobStore implements this    *)
(* specification.                                                          *)
(***************************************************************************)
EXTENDS FiniteSets

CONSTANTS
  Jobs, Sessions,
  SessionOf   \* the session of each job, in [Jobs -> Sessions]

VARIABLES
  phase,      \* where each job is
  cancelled,  \* the jobs whose cancellation was accepted
  fenced      \* the sessions that take no new execution

vars == <<phase, cancelled, fenced>>

Phases == {"new", "queued", "claimed", "executing",
           "answered", "withdrawn", "ambiguous"}

\* The job holds its session.
Holding == {"claimed", "executing"}

Free(s) == \A j \in Jobs : SessionOf[j] = s => phase[j] \notin Holding

Init ==
  /\ phase \in [Jobs -> {"new", "queued"}]
  /\ cancelled = {}
  /\ fenced = {}

Move(j, p) == phase' = [phase EXCEPT ![j] = p]

Submit(j) ==
  /\ phase[j] = "new"
  /\ Move(j, "queued")
  /\ UNCHANGED <<cancelled, fenced>>

\* The cancellation of a job that nothing has claimed, or of one that is only
\* now submitted, is final at once.
Withdraw(j) ==
  /\ phase[j] \in {"new", "queued"}
  /\ Move(j, "withdrawn")
  /\ cancelled' = cancelled \cup {j}
  /\ UNCHANGED fenced

\* A job that holds its session is only marked: its execution settles it.
AskCancel(j) ==
  /\ phase[j] \in Holding
  /\ cancelled' = cancelled \cup {j}
  /\ UNCHANGED <<phase, fenced>>

Claim(j) ==
  /\ phase[j] = "queued"
  /\ SessionOf[j] \notin fenced
  /\ Free(SessionOf[j])
  /\ Move(j, "claimed")
  /\ UNCHANGED <<cancelled, fenced>>

\* Only an execution that has provably not begun gives the job back.
Return(j) ==
  /\ phase[j] = "claimed"
  /\ j \notin cancelled
  /\ Move(j, "queued")
  /\ UNCHANGED <<cancelled, fenced>>

\* The backend proves that the cancelled execution never ran.
Abandon(j) ==
  /\ phase[j] \in Holding
  /\ j \in cancelled
  /\ Move(j, "withdrawn")
  /\ UNCHANGED <<cancelled, fenced>>

Begin(j) ==
  /\ phase[j] = "claimed"
  /\ Move(j, "executing")
  /\ UNCHANGED <<cancelled, fenced>>

\* An answer may also close the session to new executions.
Answer(j) ==
  /\ phase[j] \in {"queued", "claimed", "executing"}
  /\ j \notin cancelled
  /\ Move(j, "answered")
  /\ fenced' \in {fenced, fenced \cup {SessionOf[j]}}
  /\ UNCHANGED cancelled

\* The executions of K are lost, and queued jobs whose cancellation had
\* arrived first are withdrawn in the same step.
Lose(K, W) ==
  /\ K # {} \/ W # {}
  /\ \A j \in K : phase[j] \in Holding
  /\ \A j \in W : phase[j] = "queued"
  /\ phase' = [j \in Jobs |-> IF j \in K THEN "ambiguous"
                              ELSE IF j \in W THEN "withdrawn" ELSE phase[j]]
  /\ cancelled \cup W \subseteq cancelled'
  /\ cancelled' \subseteq cancelled \cup W \cup K
  /\ fenced' = fenced \cup {SessionOf[j] : j \in K}

Fence(s) ==
  /\ fenced' = fenced \cup {s}
  /\ UNCHANGED <<phase, cancelled>>

\* The operator's decision, and the only way out of the fence.
Release(s) ==
  /\ s \in fenced
  /\ Free(s)
  /\ fenced' = fenced \ {s}
  /\ UNCHANGED <<phase, cancelled>>

Next ==
  \/ \E j \in Jobs :
       \/ Submit(j) \/ Withdraw(j) \/ AskCancel(j) \/ Claim(j)
       \/ Return(j) \/ Abandon(j) \/ Begin(j) \/ Answer(j)
  \/ \E K, W \in SUBSET Jobs : Lose(K, W)
  \/ \E s \in Sessions : Fence(s) \/ Release(s)

Spec == Init /\ [][Next]_vars
=============================================================================
