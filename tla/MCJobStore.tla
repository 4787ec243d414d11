----------------------------- MODULE MCJobStore -----------------------------
(***************************************************************************)
(* Small instances of JobStore for TLC.                                    *)
(***************************************************************************)
EXTENDS JobStore, TLC

CONSTANTS j1, j2, s1

\* The daemon derives one session key from its agent id.
OneSession == [j \in Jobs |-> s1]

\* The jobs, the turns, the executions and the durable backends are
\* interchangeable: no property compares two of them, and both jobs are of one
\* session.
Symmetry == Permutations(Turns) \cup Permutations(Executions) \cup Permutations(Jobs)
            \cup Permutations(Durable)
=============================================================================
