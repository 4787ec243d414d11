---------------------------- MODULE MCAdminCommands ----------------------------
(***************************************************************************)
(* AdminCommands for TLC.  Two command lines.  Installer: two releases and *)
(* up to two deployments on machines with each service manager.  Profiles: *)
(* an old profile of schema 1 or a new one, another content for its id,    *)
(* two backends.  Two mishaps, so that a compensation may fail.            *)
(***************************************************************************)
EXTENDS AdminCommands, TLC

Symmetry ==
  Permutations(Procs) \cup Permutations(Releases) \cup Permutations(Backends)

\* Not both command lines of the installer hold a plan: a plan reads only what
\* the holder of the lock changes, so that of two command lines the second may
\* as well plan just after the first has entered.
OnePlanWaits ==
  family = "deploy" => \E p \in Procs : cli[p].at # "asked"

\* A behaviour has three prepared deployments and mishaps at most, or four
\* commands and mishaps: two mishaps hit one deployment or two commands, and
\* longer rows of commands have one mishap.
FewEvents ==
  /\ family = "deploy" => Len(host.receipts) + mishaps <= 3
  /\ family = "profile" => budget.commands + budget.mishaps <= 4

=============================================================================
