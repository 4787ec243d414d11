------------------------- MODULE MCExecutionBackends -------------------------
(***************************************************************************)
(* ExecutionBackends for TLC: two jobs, so that a dispatch follows the end *)
(* of another attempt whose remains (notifications, lines, timers) are     *)
(* there, a backlog of two notifications and two recovery attempts.        *)
(***************************************************************************)
EXTENDS ExecutionBackends

\* What the second job is there for.  No other follows it, so that it is not
\* withdrawn before the first is over; and a recovery before it, or a stop
\* during it, is what the first job meets too, with nothing left of an attempt.
SecondJob ==
  /\ db.status[1] \in {"Queued"} \cup Active => db.status[2] = "Queued"
  /\ kind = "private" /\ db.status[2] # "Queued" => tries = 0 /\ pc.stop = "no"

=============================================================================
