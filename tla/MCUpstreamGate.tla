---------------------------- MODULE MCUpstreamGate ---------------------------
(* Small instances of UpstreamGate for TLC.                                *)
EXTENDS UpstreamGate

CONSTANTS j1, none

\* A second loop of the relay client, or a reconnect of the first one, and then
\* one caller of dispatchPending is under way at a time.
SecondLoop ==
  /\ runs + connects <= 2
  /\ runs + connects = 2 =>
       \E c \in Callers : \A d \in Callers \ {c} : at[d] = "idle"

=============================================================================
