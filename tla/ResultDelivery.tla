--------------------------- MODULE ResultDelivery ---------------------------
(***************************************************************************)
(* What the outbox promises to a job that has a result: the relay receives *)
(* the result, the daemon settles it only after that, and a settled result *)
(* stays settled.  The relay may receive it more than once.  RelayOutbox   *)
(* implements this specification.                                          *)
(***************************************************************************)
CONSTANT Jobs

VARIABLES
  owed,      \* the jobs with a result
  received,  \* the jobs whose result the relay has received
  settled    \* the jobs whose result the daemon will not send again

vars == <<owed, received, settled>>

Init == owed = {} /\ received = {} /\ settled = {}

Owe(j) == owed' = owed \cup {j} /\ UNCHANGED <<received, settled>>

\* Several messages may reach the relay at once.
Receive ==
  /\ received \subseteq received'
  /\ received' \subseteq owed
  /\ UNCHANGED <<owed, settled>>

Settle(j) ==
  /\ j \in received
  /\ settled' = settled \cup {j}
  /\ UNCHANGED <<owed, received>>

Next == (\E j \in Jobs : Owe(j) \/ Settle(j)) \/ Receive

Spec == Init /\ [][Next]_vars
=============================================================================
