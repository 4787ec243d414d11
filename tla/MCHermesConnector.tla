------------------------- MODULE MCHermesConnector -------------------------
(* HermesConnector for TLC: two jobs of the one session.                   *)
EXTENDS HermesConnector, TLC

CONSTANTS j1, j2

Permutations2 == Permutations({j1, j2})
\* A behaviour has the relay's cancel or a refusal of the database.
CancelOrFailure == cancels + failures <= 1

=============================================================================
