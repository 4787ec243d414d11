--------------------------- MODULE MCRelayOutbox ----------------------------
(***************************************************************************)
(* Small instances of RelayOutbox for TLC.                                 *)
(***************************************************************************)
EXTENDS RelayOutbox

\* A third fault only while one of the jobs has no row.
OneJobFaults == faults = 3 => \E j \in Jobs : row[j] = "None"

=============================================================================
