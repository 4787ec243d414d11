----------------------------- MODULE AdminCommands -----------------------------
(***************************************************************************)
(* The commands of livis-relay-daemon that change an installation.  Those  *)
(* of the installer and those of the profiles and backends share no file   *)
(* and no lock, and each takes a start or a stop of the daemon at any      *)
(* time, so that a behaviour has the commands of one of the two families.  *)
(***************************************************************************)
EXTENDS Naturals, Sequences

CONSTANTS
  Procs, Nothing, MaxMishaps,                                  \* both
  Releases, Changed, Managers, MaxReceipts,                    \* Deployment
  Ids, First, Revisions, Backends, Damaged, MaxCommands        \* ProfileCommands

ASSUME AdminAssumption ==
  /\ Nothing \notin Releases /\ Changed \notin Releases /\ Nothing # Changed
  /\ Managers \subseteq {"launchd", "systemd", "none"}
  /\ Procs \cap {"free", "stale", "daemon", "none", "socket"} = {}
  /\ First \in Ids /\ 0 \in Revisions /\ Nothing # Damaged
  /\ {MaxReceipts, MaxCommands, MaxMishaps} \subseteq Nat

VARIABLES
  family,                                                      \* of commands
  host, lock, cli, manager, tainted, mishaps,                  \* Deployment
  disk, guard, socket, cmd, daemon, hurt, unsure, budget       \* ProfileCommands

Installer == INSTANCE Deployment
Profiles == INSTANCE ProfileCommands

\* What a pin or a place holds is told from a profile, and an id from a place.
ASSUME ProfilesAssumption ==
  /\ Profiles!Profiles \cap {Nothing, Damaged} = {}
  /\ Ids \cap {"source", "target", "fallback"} = {}

deployVars == <<host, lock, cli, manager, tainted, mishaps>>
profileVars == <<disk, guard, socket, cmd, daemon, hurt, unsure, budget>>
vars == <<family, deployVars, profileVars>>

Init ==
  \/ /\ family = "deploy" /\ Installer!Init
     /\ disk = Nothing /\ guard = Nothing /\ socket = Nothing /\ cmd = Nothing
     /\ daemon = Nothing /\ hurt = Nothing /\ unsure = Nothing /\ budget = Nothing
  \/ /\ family = "profile" /\ Profiles!Init
     /\ host = Nothing /\ lock = Nothing /\ cli = Nothing
     /\ manager = Nothing /\ tainted = Nothing /\ mishaps = Nothing

Next ==
  \/ family = "deploy" /\ Installer!Next /\ UNCHANGED <<family, profileVars>>
  \/ family = "profile" /\ Profiles!Next /\ UNCHANGED <<family, deployVars>>

Spec == Init /\ [][Next]_vars

-----------------------------------------------------------------------------
(* Properties.                                                             *)

\* The state of either family stays within its types.
TypeOK ==
  \/ family = "deploy" /\ Installer!TypeOK
  \/ family = "profile" /\ Profiles!TypeOK

\* A command that reports success tells the truth, whatever failed before it:
\* deploy leaves the machine as the receipt under its pointer describes it, and
\* upstream, profile and backend leave the config they were asked for with the
\* evidence that goes with it.
SuccessIsTrue ==
  /\ family = "deploy" => Installer!DoneIsDescribed
  /\ family = "profile" => Profiles!DoneIsServed

\* Nothing is left half done.  A command that fails and reports nothing it could
\* not restore has left everything it restores as it was, at whatever step it
\* failed.  And wherever a profile command or the daemon stops, the pinned
\* profile is there for the live config and for every way back, and no daemon
\* serves a backend or a schema that an offline command has replaced, or starts
\* on a config whose rename may be lost.
NothingHalfDone ==
  /\ family = "deploy" => Installer!FailureRestores
  /\ family = "profile" =>
       /\ Profiles!FailureRestores
       /\ Profiles!TextsResolve
       /\ Profiles!DaemonIsCurrent

=============================================================================
