-------------------------- MODULE AdminCommandsProofs --------------------------
(***************************************************************************)
(* What the two families of commands keep holds of the command line that   *)
(* has both.  The theorems about the installer and about the profiles are  *)
(* taken from their modules, whose constants are those of AdminCommands;   *)
(* a behaviour stays in the family it starts with.                         *)
(***************************************************************************)
EXTENDS AdminCommands, TLAPS

D == INSTANCE DeploymentProofs
P == INSTANCE ProfileCommandsProofs

LEMMA Constants == D!ConstantsOK /\ P!ConstantsOK
<1>1. D!ConstantsOK
  BY AdminAssumption DEF D!ConstantsOK
<1>2. P!ConstantsOK
  <2>1. P!Profiles \cap {Nothing, Damaged} = {}
    <3>1. Profiles!Profiles = P!Profiles
      BY DEF Profiles!Profiles, P!Profiles, Profiles!Reviewed, P!Reviewed,
             Profiles!Legacy, P!Legacy, Profiles!Profile, P!Profile
    <3> QED  BY <3>1, ProfilesAssumption
  <2>2. Procs \cap {"free", "stale", "daemon", "none", "socket"} = {}
    BY AdminAssumption
  <2> QED  BY <2>1, <2>2, AdminAssumption, ProfilesAssumption DEF P!ConstantsOK
<1> QED  BY <1>1, <1>2

-----------------------------------------------------------------------------
(* D has the definitions of Installer, and P those of Profiles: each pair  *)
(* says the same once its names are expanded.                              *)

\* Action by action, here of the installer.
LEMMA SameRequests ==
  ASSUME NEW p
  PROVE  /\ Installer!Requests(p) <=> D!Requests(p)
         /\ Installer!Enter(p) <=> D!Enter(p)
         /\ Installer!Refuse(p) <=> D!Refuse(p)
         /\ Installer!Leave(p) <=> D!Leave(p)
         /\ Installer!Crash(p) <=> D!Crash(p)
         /\ Installer!OperatorRemovesLock <=> D!OperatorRemovesLock
         /\ Installer!OperatorRunsService <=> D!OperatorRunsService
         /\ Installer!OperatorEdits <=> D!OperatorEdits
<1>1. Installer!Requests(p) <=> D!Requests(p)
  BY DEF Installer!Final, Installer!Verified, Installer!Ask, Installer!NoRequest,
         Installer!Asked, Installer!AskApply, Installer!AskRollback,
         Installer!AskUninstall, Installer!Requests, D!Final, D!Verified, D!Ask,
         D!NoRequest, D!Asked, D!AskApply, D!AskRollback, D!AskUninstall, D!Requests
<1>2. Installer!Enter(p) <=> D!Enter(p)
  BY DEF Installer!LockAllows, Installer!Apply, Installer!Final, Installer!Verified,
         Installer!TextOf, Installer!DefinitionUnchanged, Installer!Active,
         Installer!ServiceAllows, Installer!AcceptsApply, Installer!AcceptsExisting,
         Installer!Accepts, Installer!Snapshot, Installer!Steps,
         Installer!ApplyPath, Installer!RollbackPath, Installer!UninstallPath,
         Installer!Path, Installer!Bridge, Installer!HasBridge, Installer!Starts,
         Installer!Takes, Installer!Enter, D!LockAllows, D!Apply, D!Final,
         D!Verified, D!TextOf, D!DefinitionUnchanged, D!Active, D!ServiceAllows,
         D!AcceptsApply, D!AcceptsExisting, D!Accepts, D!Snapshot, D!Steps,
         D!ApplyPath, D!RollbackPath, D!UninstallPath, D!Path, D!Bridge,
         D!HasBridge, D!Starts, D!Takes, D!Enter
<1>3. Installer!Refuse(p) <=> D!Refuse(p)
  BY DEF Installer!NoRequest, Installer!Idle, Installer!Refuse, D!NoRequest, D!Idle,
         D!Refuse
<1>4. Installer!Leave(p) <=> D!Leave(p)
  BY DEF Installer!Over, Installer!NoRequest, Installer!Idle, Installer!Outcome,
         Installer!Leave, D!Over, D!NoRequest, D!Idle, D!Outcome, D!Leave
<1>5. Installer!Crash(p) <=> D!Crash(p)
  BY DEF Installer!Mishap, Installer!NoRequest, Installer!Idle, Installer!Crash,
         D!Mishap, D!NoRequest, D!Idle, D!Crash
<1>6. Installer!OperatorRemovesLock <=> D!OperatorRemovesLock
  BY DEF Installer!OperatorRemovesLock, D!OperatorRemovesLock
<1>7. Installer!OperatorRunsService <=> D!OperatorRunsService
  BY DEF Installer!Active, Installer!OperatorRunsService, D!Active,
         D!OperatorRunsService
<1>8. Installer!OperatorEdits <=> D!OperatorEdits
  BY DEF Installer!Mishap, Installer!OperatorEdits, D!Mishap, D!OperatorEdits
<1> QED  BY <1>1, <1>2, <1>3, <1>4, <1>5, <1>6, <1>7, <1>8

LEMMA SameDeployment ==
  ASSUME NEW p
  PROVE  /\ Installer!Prepare(p) <=> D!Prepare(p)
         /\ Installer!PrepareRelease(p) <=> D!PrepareRelease(p)
         /\ Installer!NoteBridge(p) <=> D!NoteBridge(p)
         /\ Installer!WritePointer(p) <=> D!WritePointer(p)
         /\ Installer!WriteReceipt(p) <=> D!WriteReceipt(p)
<1>1. Installer!Prepare(p) <=> D!Prepare(p)
  BY DEF Installer!IsNext, Installer!Apply, Installer!BackPath, Installer!ApplyPath,
         Installer!RollbackPath, Installer!UninstallPath, Installer!Path,
         Installer!At, Installer!MarkedAfter, Installer!Service, Installer!Bridge,
         Installer!Group, Installer!Returns, Installer!Mishap, Installer!Skip,
         Installer!MarkedFirst, Installer!Steps, Installer!TakesBack,
         Installer!Catch, Installer!Thrown, Installer!Throws, Installer!Step,
         Installer!NewReceipt, Installer!Prepare, D!IsNext, D!Apply, D!BackPath,
         D!ApplyPath, D!RollbackPath, D!UninstallPath, D!Path, D!At, D!MarkedAfter,
         D!Service, D!Bridge, D!Group, D!Returns, D!Mishap, D!Skip, D!MarkedFirst,
         D!Steps, D!TakesBack, D!Catch, D!Thrown, D!Throws, D!Step, D!NewReceipt,
         D!Prepare
<1>2. Installer!PrepareRelease(p) <=> D!PrepareRelease(p)
  BY DEF Installer!IsNext, Installer!Apply, Installer!BackPath, Installer!ApplyPath,
         Installer!RollbackPath, Installer!UninstallPath, Installer!Path,
         Installer!At, Installer!MarkedAfter, Installer!Service, Installer!Bridge,
         Installer!Group, Installer!Returns, Installer!Mishap, Installer!Skip,
         Installer!MarkedFirst, Installer!Steps, Installer!TakesBack,
         Installer!Catch, Installer!Thrown, Installer!Throws, Installer!Step,
         Installer!PrepareRelease, D!IsNext, D!Apply, D!BackPath, D!ApplyPath,
         D!RollbackPath, D!UninstallPath, D!Path, D!At, D!MarkedAfter, D!Service,
         D!Bridge, D!Group, D!Returns, D!Mishap, D!Skip, D!MarkedFirst, D!Steps,
         D!TakesBack, D!Catch, D!Thrown, D!Throws, D!Step, D!PrepareRelease
<1>3. Installer!NoteBridge(p) <=> D!NoteBridge(p)
  BY DEF Installer!IsNext, Installer!Apply, Installer!BackPath, Installer!ApplyPath,
         Installer!RollbackPath, Installer!UninstallPath, Installer!Path,
         Installer!At, Installer!MarkedAfter, Installer!Service, Installer!Bridge,
         Installer!Group, Installer!Returns, Installer!Mishap, Installer!Skip,
         Installer!MarkedFirst, Installer!Steps, Installer!TakesBack,
         Installer!Catch, Installer!Thrown, Installer!Throws, Installer!Step,
         Installer!Mine, Installer!NoteBridge, D!IsNext, D!Apply, D!BackPath,
         D!ApplyPath, D!RollbackPath, D!UninstallPath, D!Path, D!At, D!MarkedAfter,
         D!Service, D!Bridge, D!Group, D!Returns, D!Mishap, D!Skip, D!MarkedFirst,
         D!Steps, D!TakesBack, D!Catch, D!Thrown, D!Throws, D!Step, D!Mine,
         D!NoteBridge
<1>4. Installer!WritePointer(p) <=> D!WritePointer(p)
  BY DEF Installer!IsNext, Installer!Apply, Installer!BackPath, Installer!ApplyPath,
         Installer!RollbackPath, Installer!UninstallPath, Installer!Path,
         Installer!At, Installer!MarkedAfter, Installer!Service, Installer!Bridge,
         Installer!Group, Installer!Returns, Installer!Mishap, Installer!Skip,
         Installer!MarkedFirst, Installer!Steps, Installer!TakesBack,
         Installer!Catch, Installer!Thrown, Installer!Throws, Installer!Step,
         Installer!Mine, Installer!TextOf, Installer!Forward, Installer!GoalStatus,
         Installer!Goal, Installer!WritePointer, D!IsNext, D!Apply, D!BackPath,
         D!ApplyPath, D!RollbackPath, D!UninstallPath, D!Path, D!At, D!MarkedAfter,
         D!Service, D!Bridge, D!Group, D!Returns, D!Mishap, D!Skip, D!MarkedFirst,
         D!Steps, D!TakesBack, D!Catch, D!Thrown, D!Throws, D!Step, D!Mine,
         D!TextOf, D!Forward, D!GoalStatus, D!Goal, D!WritePointer
<1>5. Installer!WriteReceipt(p) <=> D!WriteReceipt(p)
  BY DEF Installer!IsNext, Installer!Apply, Installer!BackPath, Installer!ApplyPath,
         Installer!RollbackPath, Installer!UninstallPath, Installer!Path,
         Installer!At, Installer!MarkedAfter, Installer!Service, Installer!Bridge,
         Installer!Group, Installer!Returns, Installer!Mishap, Installer!Skip,
         Installer!MarkedFirst, Installer!Steps, Installer!TakesBack,
         Installer!Catch, Installer!Thrown, Installer!Throws, Installer!Step,
         Installer!Mine, Installer!TextOf, Installer!Forward, Installer!GoalStatus,
         Installer!Goal, Installer!WriteReceipt, D!IsNext, D!Apply, D!BackPath,
         D!ApplyPath, D!RollbackPath, D!UninstallPath, D!Path, D!At, D!MarkedAfter,
         D!Service, D!Bridge, D!Group, D!Returns, D!Mishap, D!Skip, D!MarkedFirst,
         D!Steps, D!TakesBack, D!Catch, D!Thrown, D!Throws, D!Step, D!Mine,
         D!TextOf, D!Forward, D!GoalStatus, D!Goal, D!WriteReceipt
<1> QED  BY <1>1, <1>2, <1>3, <1>4, <1>5

LEMMA SameService ==
  ASSUME NEW p
  PROVE  /\ Installer!StopService(p) <=> D!StopService(p)
         /\ Installer!WriteDefinition(p) <=> D!WriteDefinition(p)
         /\ Installer!Reload(p) <=> D!Reload(p)
         /\ Installer!Start(p) <=> D!Start(p)
<1>1. Installer!StopService(p) <=> D!StopService(p)
  BY DEF Installer!IsNext, Installer!Apply, Installer!BackPath, Installer!ApplyPath,
         Installer!RollbackPath, Installer!UninstallPath, Installer!Path,
         Installer!At, Installer!MarkedAfter, Installer!Service, Installer!Bridge,
         Installer!Group, Installer!Returns, Installer!Mishap, Installer!Skip,
         Installer!MarkedFirst, Installer!Steps, Installer!TakesBack,
         Installer!Catch, Installer!Thrown, Installer!Throws, Installer!Step,
         Installer!StopService, D!IsNext, D!Apply, D!BackPath, D!ApplyPath,
         D!RollbackPath, D!UninstallPath, D!Path, D!At, D!MarkedAfter, D!Service,
         D!Bridge, D!Group, D!Returns, D!Mishap, D!Skip, D!MarkedFirst, D!Steps,
         D!TakesBack, D!Catch, D!Thrown, D!Throws, D!Step, D!StopService
<1>2. Installer!WriteDefinition(p) <=> D!WriteDefinition(p)
  BY DEF Installer!IsNext, Installer!Apply, Installer!BackPath, Installer!ApplyPath,
         Installer!RollbackPath, Installer!UninstallPath, Installer!Path,
         Installer!At, Installer!MarkedAfter, Installer!Service, Installer!Bridge,
         Installer!Group, Installer!Returns, Installer!Mishap, Installer!Skip,
         Installer!MarkedFirst, Installer!Steps, Installer!TakesBack,
         Installer!Catch, Installer!Thrown, Installer!Throws, Installer!Step,
         Installer!Mine, Installer!TextOf, Installer!Forward, Installer!GoalStatus,
         Installer!Goal, Installer!WriteDefinition, D!IsNext, D!Apply, D!BackPath,
         D!ApplyPath, D!RollbackPath, D!UninstallPath, D!Path, D!At, D!MarkedAfter,
         D!Service, D!Bridge, D!Group, D!Returns, D!Mishap, D!Skip, D!MarkedFirst,
         D!Steps, D!TakesBack, D!Catch, D!Thrown, D!Throws, D!Step, D!Mine,
         D!TextOf, D!Forward, D!GoalStatus, D!Goal, D!WriteDefinition
<1>3. Installer!Reload(p) <=> D!Reload(p)
  BY DEF Installer!IsNext, Installer!Apply, Installer!BackPath, Installer!ApplyPath,
         Installer!RollbackPath, Installer!UninstallPath, Installer!Path,
         Installer!At, Installer!MarkedAfter, Installer!Service, Installer!Bridge,
         Installer!Group, Installer!Returns, Installer!Mishap, Installer!Skip,
         Installer!MarkedFirst, Installer!Steps, Installer!TakesBack,
         Installer!Catch, Installer!Thrown, Installer!Throws, Installer!Step,
         Installer!Reload, D!IsNext, D!Apply, D!BackPath, D!ApplyPath,
         D!RollbackPath, D!UninstallPath, D!Path, D!At, D!MarkedAfter, D!Service,
         D!Bridge, D!Group, D!Returns, D!Mishap, D!Skip, D!MarkedFirst, D!Steps,
         D!TakesBack, D!Catch, D!Thrown, D!Throws, D!Step, D!Reload
<1>4. Installer!Start(p) <=> D!Start(p)
  BY DEF Installer!IsNext, Installer!Apply, Installer!BackPath, Installer!ApplyPath,
         Installer!RollbackPath, Installer!UninstallPath, Installer!Path,
         Installer!At, Installer!MarkedAfter, Installer!Service, Installer!Bridge,
         Installer!Group, Installer!Returns, Installer!Mishap, Installer!Skip,
         Installer!MarkedFirst, Installer!Steps, Installer!TakesBack,
         Installer!Catch, Installer!Thrown, Installer!Throws, Installer!Step,
         Installer!Active, Installer!Start, D!IsNext, D!Apply, D!BackPath,
         D!ApplyPath, D!RollbackPath, D!UninstallPath, D!Path, D!At, D!MarkedAfter,
         D!Service, D!Bridge, D!Group, D!Returns, D!Mishap, D!Skip, D!MarkedFirst,
         D!Steps, D!TakesBack, D!Catch, D!Thrown, D!Throws, D!Step, D!Active,
         D!Start
<1> QED  BY <1>1, <1>2, <1>3, <1>4

LEMMA SameBridge ==
  ASSUME NEW p
  PROVE  /\ Installer!TearBridge(p) <=> D!TearBridge(p)
         /\ Installer!SealBridge(p) <=> D!SealBridge(p)
         /\ Installer!SignBridge(p) <=> D!SignBridge(p)
         /\ Installer!UndoReturns(p) <=> D!UndoReturns(p)
         /\ Installer!UndoThrows(p) <=> D!UndoThrows(p)
<1>1. Installer!TearBridge(p) <=> D!TearBridge(p)
  BY DEF Installer!IsNext, Installer!Apply, Installer!BackPath, Installer!ApplyPath,
         Installer!RollbackPath, Installer!UninstallPath, Installer!Path,
         Installer!At, Installer!Installs, Installer!Mine, Installer!End,
         Installer!ToNew, Installer!BridgeAsExpected, Installer!MarkedAfter,
         Installer!Service, Installer!Bridge, Installer!Group, Installer!Returns,
         Installer!Mishap, Installer!Undo, Installer!BridgeStep, Installer!Skip,
         Installer!MarkedFirst, Installer!Steps, Installer!TakesBack,
         Installer!Catch, Installer!Thrown, Installer!Throws, Installer!Refuses,
         Installer!TearBridge, D!IsNext, D!Apply, D!BackPath, D!ApplyPath,
         D!RollbackPath, D!UninstallPath, D!Path, D!At, D!Installs, D!Mine, D!End,
         D!ToNew, D!BridgeAsExpected, D!MarkedAfter, D!Service, D!Bridge, D!Group,
         D!Returns, D!Mishap, D!Undo, D!BridgeStep, D!Skip, D!MarkedFirst, D!Steps,
         D!TakesBack, D!Catch, D!Thrown, D!Throws, D!Refuses, D!TearBridge
<1>2. Installer!SealBridge(p) <=> D!SealBridge(p)
  BY DEF Installer!IsNext, Installer!Apply, Installer!BackPath, Installer!ApplyPath,
         Installer!RollbackPath, Installer!UninstallPath, Installer!Path,
         Installer!At, Installer!MarkedAfter, Installer!Service, Installer!Bridge,
         Installer!Group, Installer!Returns, Installer!Mishap, Installer!Undo,
         Installer!BridgeStep, Installer!Mine, Installer!End, Installer!ToNew,
         Installer!SealBridge, D!IsNext, D!Apply, D!BackPath, D!ApplyPath,
         D!RollbackPath, D!UninstallPath, D!Path, D!At, D!MarkedAfter, D!Service,
         D!Bridge, D!Group, D!Returns, D!Mishap, D!Undo, D!BridgeStep, D!Mine,
         D!End, D!ToNew, D!SealBridge
<1>3. Installer!SignBridge(p) <=> D!SignBridge(p)
  BY DEF Installer!IsNext, Installer!Apply, Installer!BackPath, Installer!ApplyPath,
         Installer!RollbackPath, Installer!UninstallPath, Installer!Path,
         Installer!At, Installer!MarkedAfter, Installer!Service, Installer!Bridge,
         Installer!Group, Installer!Returns, Installer!Mishap, Installer!Undo,
         Installer!BridgeStep, Installer!Mine, Installer!End, Installer!ToNew,
         Installer!SignBridge, D!IsNext, D!Apply, D!BackPath, D!ApplyPath,
         D!RollbackPath, D!UninstallPath, D!Path, D!At, D!MarkedAfter, D!Service,
         D!Bridge, D!Group, D!Returns, D!Mishap, D!Undo, D!BridgeStep, D!Mine,
         D!End, D!ToNew, D!SignBridge
<1>4. Installer!UndoReturns(p) <=> D!UndoReturns(p)
  BY DEF Installer!Apply, Installer!Installs, Installer!Mine, Installer!End,
         Installer!ToNew, Installer!Source, Installer!Restored, Installer!Service,
         Installer!Bridge, Installer!Group, Installer!Skip, Installer!MarkedFirst,
         Installer!Steps, Installer!BackPath, Installer!TakesBack, Installer!Catch,
         Installer!Thrown, Installer!Rethrow, Installer!UndoReturns, D!Apply,
         D!Installs, D!Mine, D!End, D!ToNew, D!Source, D!Restored, D!Service,
         D!Bridge, D!Group, D!Skip, D!MarkedFirst, D!Steps, D!BackPath, D!TakesBack,
         D!Catch, D!Thrown, D!Rethrow, D!UndoReturns
<1>5. Installer!UndoThrows(p) <=> D!UndoThrows(p)
  BY DEF Installer!Mishap, Installer!Apply, Installer!Installs, Installer!Mine,
         Installer!End, Installer!ToNew, Installer!Source, Installer!Service,
         Installer!Bridge, Installer!Group, Installer!Skip, Installer!MarkedFirst,
         Installer!Steps, Installer!BackPath, Installer!TakesBack, Installer!Catch,
         Installer!Thrown, Installer!Rethrow, Installer!UndoThrows, D!Mishap,
         D!Apply, D!Installs, D!Mine, D!End, D!ToNew, D!Source, D!Service, D!Bridge,
         D!Group, D!Skip, D!MarkedFirst, D!Steps, D!BackPath, D!TakesBack, D!Catch,
         D!Thrown, D!Rethrow, D!UndoThrows
<1> QED  BY <1>1, <1>2, <1>3, <1>4, <1>5

LEMMA SameInstaller ==
  /\ Installer!Init <=> D!Init
  /\ Installer!Next <=> D!Next
  /\ Installer!TypeOK <=> D!TypeOK
  /\ Installer!DoneIsDescribed <=> D!DoneIsDescribed
  /\ Installer!FailureRestores <=> D!FailureRestores
<1>1. Installer!Init <=> D!Init
  BY DEF Installer!NoRequest, Installer!Idle, Installer!Init, D!NoRequest, D!Idle,
         D!Init
<1>2. Installer!Next <=> D!Next
  BY SameRequests, SameDeployment, SameService, SameBridge DEF Installer!Next,
         D!Next
<1>3. Installer!TypeOK <=> D!TypeOK
  BY DEF Installer!Content, Installer!Apply, Installer!Final, Installer!Status,
         Installer!ReceiptSet, Installer!Service, Installer!Bridge,
         Installer!CliSet, Installer!TypeOK, D!Content, D!Apply, D!Final, D!Status,
         D!ReceiptSet, D!Service, D!Bridge, D!CliSet, D!TypeOK
<1>4. Installer!DoneIsDescribed <=> D!DoneIsDescribed
  BY DEF Installer!Over, Installer!Outcome, Installer!Apply, Installer!Mine,
         Installer!TextOf, Installer!Forward, Installer!Final, Installer!Verified,
         Installer!Described, Installer!GoalStatus, Installer!Active,
         Installer!Starts, Installer!LaunchdRuns, Installer!DoneIsDescribed, D!Over,
         D!Outcome, D!Apply, D!Mine, D!TextOf, D!Forward, D!Final, D!Verified,
         D!Described, D!GoalStatus, D!Active, D!Starts, D!LaunchdRuns,
         D!DoneIsDescribed
<1>5. Installer!FailureRestores <=> D!FailureRestores
  BY DEF Installer!Over, Installer!Outcome, Installer!Active, Installer!LaunchdRuns,
         Installer!Apply, Installer!Mine, Installer!FailureRestores, D!Over,
         D!Outcome, D!Active, D!LaunchdRuns, D!Apply, D!Mine, D!FailureRestores
<1> QED  BY <1>1, <1>2, <1>3, <1>4, <1>5

\* And those of the profiles and of the daemon.
LEMMA SameCommands ==
  ASSUME NEW p
  PROVE  /\ Profiles!Commands(p) <=> P!Commands(p)
         /\ Profiles!Leave(p) <=> P!Leave(p)
         /\ Profiles!Crash(p) <=> P!Crash(p)
         /\ Profiles!Damage(p) <=> P!Damage(p)
         /\ Profiles!OperatorClears <=> P!OperatorClears
<1>1. Profiles!Commands(p) <=> P!Commands(p)
  BY DEF Profiles!Resolves, Profiles!ContextLoads, Profiles!Begins,
         Profiles!Profile, Profiles!Legacy, Profiles!NoConfig, Profiles!Idle,
         Profiles!Reviewed, Profiles!Work, Profiles!Locked, Profiles!Check,
         Profiles!Activate, Profiles!Restore, Profiles!Plan, Profiles!Migrated,
         Profiles!PlanMigrate, Profiles!Fallback, Profiles!PlanUnmigrate,
         Profiles!PlanSwitch, Profiles!GuardFree, Profiles!Quarantine,
         Profiles!NoProof, Profiles!AnyProof, Profiles!UnmigrateWork,
         Profiles!PlannedWork, Profiles!Enter, Profiles!Refuse, Profiles!Commands,
         P!Resolves, P!ContextLoads, P!Begins, P!Profile, P!Legacy, P!NoConfig,
         P!Idle, P!Reviewed, P!Work, P!Locked, P!Check, P!Activate, P!Restore,
         P!Plan, P!Migrated, P!PlanMigrate, P!Fallback, P!PlanUnmigrate,
         P!PlanSwitch, P!GuardFree, P!Quarantine, P!NoProof, P!AnyProof,
         P!UnmigrateWork, P!PlannedWork, P!Enter, P!Refuse, P!Commands
<1>2. Profiles!Leave(p) <=> P!Leave(p)
  BY DEF Profiles!Over, Profiles!Profile, Profiles!Legacy, Profiles!NoConfig,
         Profiles!Idle, Profiles!Mishap, Profiles!Leave, P!Over, P!Profile,
         P!Legacy, P!NoConfig, P!Idle, P!Mishap, P!Leave
<1>3. Profiles!Crash(p) <=> P!Crash(p)
  BY DEF Profiles!Mishap, Profiles!Profile, Profiles!Legacy, Profiles!NoConfig,
         Profiles!Idle, Profiles!Crash, P!Mishap, P!Profile, P!Legacy, P!NoConfig,
         P!Idle, P!Crash
<1>4. Profiles!Damage(p) <=> P!Damage(p)
  BY DEF Profiles!Profile, Profiles!Reviewed, Profiles!Legacy, Profiles!Profiles,
         Profiles!Mishap, Profiles!Damage, P!Profile, P!Reviewed, P!Legacy,
         P!Profiles, P!Mishap, P!Damage
<1>5. Profiles!OperatorClears <=> P!OperatorClears
  BY DEF Profiles!OperatorClears, P!OperatorClears
<1> QED  BY <1>1, <1>2, <1>3, <1>4, <1>5

LEMMA SameDaemon ==
  ASSUME NEW p
  PROVE  /\ Profiles!ServeLoads <=> P!ServeLoads
         /\ Profiles!ServeBinds <=> P!ServeBinds
         /\ Profiles!DaemonRechecks <=> P!DaemonRechecks
         /\ Profiles!DaemonStops <=> P!DaemonStops
         /\ Profiles!DaemonDies <=> P!DaemonDies
         /\ Profiles!OldDaemonChecks <=> P!OldDaemonChecks
<1>1. Profiles!ServeLoads <=> P!ServeLoads
  BY DEF Profiles!GuardFree, Profiles!Resolves, Profiles!ContextLoads,
         Profiles!NextProof, Profiles!Proof, Profiles!WithAlias, Profiles!WithKeyed,
         Profiles!Proven, Profiles!NoProof, Profiles!ServeLoads, P!GuardFree,
         P!Resolves, P!ContextLoads, P!NextProof, P!Proof, P!WithAlias, P!WithKeyed,
         P!Proven, P!NoProof, P!ServeLoads
<1>2. Profiles!ServeBinds <=> P!ServeBinds
  BY DEF Profiles!Profile, Profiles!Legacy, Profiles!NoConfig, Profiles!ServeBinds,
         P!Profile, P!Legacy, P!NoConfig, P!ServeBinds
<1>3. Profiles!DaemonRechecks <=> P!DaemonRechecks
  BY DEF Profiles!GuardFree, Profiles!NextProof, Profiles!Proof, Profiles!WithAlias,
         Profiles!WithKeyed, Profiles!Proven, Profiles!DaemonRechecks, P!GuardFree,
         P!NextProof, P!Proof, P!WithAlias, P!WithKeyed, P!Proven, P!DaemonRechecks
<1>4. Profiles!DaemonStops <=> P!DaemonStops
  BY DEF Profiles!Profile, Profiles!Legacy, Profiles!NoConfig, Profiles!DaemonStops,
         P!Profile, P!Legacy, P!NoConfig, P!DaemonStops
<1>5. Profiles!DaemonDies <=> P!DaemonDies
  BY DEF Profiles!Mishap, Profiles!Profile, Profiles!Legacy, Profiles!NoConfig,
         Profiles!GuardFree, Profiles!WithKeyed, Profiles!NextProof,
         Profiles!DaemonDies, P!Mishap, P!Profile, P!Legacy, P!NoConfig,
         P!GuardFree, P!WithKeyed, P!NextProof, P!DaemonDies
<1>6. Profiles!OldDaemonChecks <=> P!OldDaemonChecks
  BY DEF Profiles!GuardFree, Profiles!NextProof, Profiles!Proof, Profiles!WithAlias,
         Profiles!WithKeyed, Profiles!Proven, Profiles!OldDaemonChecks, P!GuardFree,
         P!NextProof, P!Proof, P!WithAlias, P!WithKeyed, P!Proven, P!OldDaemonChecks
<1> QED  BY <1>1, <1>2, <1>3, <1>4, <1>5, <1>6

LEMMA SameEvidence ==
  ASSUME NEW p
  PROVE  /\ Profiles!Install(p) <=> P!Install(p)
         /\ Profiles!CheckProfile(p) <=> P!CheckProfile(p)
         /\ Profiles!BackupConfig(p) <=> P!BackupConfig(p)
         /\ Profiles!SaveKeyed(p) <=> P!SaveKeyed(p)
         /\ Profiles!SaveAlias(p) <=> P!SaveAlias(p)
         /\ Profiles!Approve(p) <=> P!Approve(p)
<1>1. Profiles!Install(p) <=> P!Install(p)
  BY DEF Profiles!At, Profiles!InstallAllows, Profiles!Returns, Profiles!PinOf,
         Profiles!Mishap, Profiles!Offline, Profiles!Fail, Profiles!Keeps,
         Profiles!Skip, Profiles!Compensate, Profiles!CatchOffline, Profiles!Unfile,
         Profiles!CatchLocked, Profiles!Thrown, Profiles!Renames, Profiles!Throws,
         Profiles!Quiet, Profiles!Refuses, Profiles!Install, P!At, P!InstallAllows,
         P!Returns, P!PinOf, P!Mishap, P!Offline, P!Fail, P!Keeps, P!Skip,
         P!Compensate, P!CatchOffline, P!Unfile, P!CatchLocked, P!Thrown, P!Renames,
         P!Throws, P!Quiet, P!Refuses, P!Install
<1>2. Profiles!CheckProfile(p) <=> P!CheckProfile(p)
  BY DEF Profiles!At, Profiles!Returns, Profiles!Mishap, Profiles!Offline,
         Profiles!Fail, Profiles!Keeps, Profiles!Skip, Profiles!Compensate,
         Profiles!CatchOffline, Profiles!Unfile, Profiles!CatchLocked,
         Profiles!Thrown, Profiles!Renames, Profiles!Throws, Profiles!Quiet,
         Profiles!Step, Profiles!Refuses, Profiles!StepIf, Profiles!Resolves,
         Profiles!CheckProfile, P!At, P!Returns, P!Mishap, P!Offline, P!Fail,
         P!Keeps, P!Skip, P!Compensate, P!CatchOffline, P!Unfile, P!CatchLocked,
         P!Thrown, P!Renames, P!Throws, P!Quiet, P!Step, P!Refuses, P!StepIf,
         P!Resolves, P!CheckProfile
<1>3. Profiles!BackupConfig(p) <=> P!BackupConfig(p)
  BY DEF Profiles!At, Profiles!Returns, Profiles!Mishap, Profiles!Offline,
         Profiles!Fail, Profiles!Keeps, Profiles!Skip, Profiles!Compensate,
         Profiles!CatchOffline, Profiles!Unfile, Profiles!CatchLocked,
         Profiles!Thrown, Profiles!Renames, Profiles!Throws, Profiles!Quiet,
         Profiles!Step, Profiles!PinOf, Profiles!BackupConfig, P!At, P!Returns,
         P!Mishap, P!Offline, P!Fail, P!Keeps, P!Skip, P!Compensate, P!CatchOffline,
         P!Unfile, P!CatchLocked, P!Thrown, P!Renames, P!Throws, P!Quiet, P!Step,
         P!PinOf, P!BackupConfig
<1>4. Profiles!SaveKeyed(p) <=> P!SaveKeyed(p)
  BY DEF Profiles!At, Profiles!Returns, Profiles!Mishap, Profiles!Fail,
         Profiles!ProofFails, Profiles!Quiet, Profiles!Saves, Profiles!WithKeyed,
         Profiles!NextProof, Profiles!SaveKeyed, P!At, P!Returns, P!Mishap, P!Fail,
         P!ProofFails, P!Quiet, P!Saves, P!WithKeyed, P!NextProof, P!SaveKeyed
<1>5. Profiles!SaveAlias(p) <=> P!SaveAlias(p)
  BY DEF Profiles!At, Profiles!Returns, Profiles!Mishap, Profiles!Fail,
         Profiles!ProofFails, Profiles!Quiet, Profiles!Saves, Profiles!Proof,
         Profiles!WithAlias, Profiles!SaveAlias, P!At, P!Returns, P!Mishap, P!Fail,
         P!ProofFails, P!Quiet, P!Saves, P!Proof, P!WithAlias, P!SaveAlias
<1>6. Profiles!Approve(p) <=> P!Approve(p)
  BY DEF Profiles!At, Profiles!Returns, Profiles!Mishap, Profiles!Offline,
         Profiles!Fail, Profiles!Keeps, Profiles!Skip, Profiles!Compensate,
         Profiles!CatchOffline, Profiles!Unfile, Profiles!CatchLocked,
         Profiles!Thrown, Profiles!Renames, Profiles!Throws, Profiles!Quiet,
         Profiles!Step, Profiles!Approve, P!At, P!Returns, P!Mishap, P!Offline,
         P!Fail, P!Keeps, P!Skip, P!Compensate, P!CatchOffline, P!Unfile,
         P!CatchLocked, P!Thrown, P!Renames, P!Throws, P!Quiet, P!Step, P!Approve
<1> QED  BY <1>1, <1>2, <1>3, <1>4, <1>5, <1>6

LEMMA SameQuarantine ==
  ASSUME NEW p
  PROVE  /\ Profiles!WriteReceipt(p) <=> P!WriteReceipt(p)
         /\ Profiles!QuarantineOld(p) <=> P!QuarantineOld(p)
         /\ Profiles!QuarantineNew(p) <=> P!QuarantineNew(p)
         /\ Profiles!QuarantineLast(p) <=> P!QuarantineLast(p)
<1>1. Profiles!WriteReceipt(p) <=> P!WriteReceipt(p)
  BY DEF Profiles!At, Profiles!Returns, Profiles!Mishap, Profiles!Offline,
         Profiles!Fail, Profiles!Keeps, Profiles!Skip, Profiles!Compensate,
         Profiles!CatchOffline, Profiles!Unfile, Profiles!CatchLocked,
         Profiles!Thrown, Profiles!Renames, Profiles!Throws, Profiles!Quiet,
         Profiles!Step, Profiles!WriteReceipt, P!At, P!Returns, P!Mishap, P!Offline,
         P!Fail, P!Keeps, P!Skip, P!Compensate, P!CatchOffline, P!Unfile,
         P!CatchLocked, P!Thrown, P!Renames, P!Throws, P!Quiet, P!Step,
         P!WriteReceipt
<1>2. Profiles!QuarantineOld(p) <=> P!QuarantineOld(p)
  BY DEF Profiles!At, Profiles!Returns, Profiles!Mishap, Profiles!Offline,
         Profiles!Fail, Profiles!Keeps, Profiles!Skip, Profiles!Compensate,
         Profiles!CatchOffline, Profiles!Unfile, Profiles!CatchLocked,
         Profiles!Thrown, Profiles!Renames, Profiles!Throws, Profiles!Quiet,
         Profiles!Step, Profiles!WithKeyed, Profiles!LegacyOf, Profiles!NoProof,
         Profiles!QuarantineOld, P!At, P!Returns, P!Mishap, P!Offline, P!Fail,
         P!Keeps, P!Skip, P!Compensate, P!CatchOffline, P!Unfile, P!CatchLocked,
         P!Thrown, P!Renames, P!Throws, P!Quiet, P!Step, P!WithKeyed, P!LegacyOf,
         P!NoProof, P!QuarantineOld
<1>3. Profiles!QuarantineNew(p) <=> P!QuarantineNew(p)
  BY DEF Profiles!At, Profiles!Returns, Profiles!Mishap, Profiles!Offline,
         Profiles!Fail, Profiles!Keeps, Profiles!Skip, Profiles!Compensate,
         Profiles!CatchOffline, Profiles!Unfile, Profiles!CatchLocked,
         Profiles!Thrown, Profiles!Renames, Profiles!Throws, Profiles!Quiet,
         Profiles!Step, Profiles!WithKeyed, Profiles!Migrated, Profiles!LegacyOf,
         Profiles!NewProof, Profiles!NoProof, Profiles!QuarantineNew, P!At,
         P!Returns, P!Mishap, P!Offline, P!Fail, P!Keeps, P!Skip, P!Compensate,
         P!CatchOffline, P!Unfile, P!CatchLocked, P!Thrown, P!Renames, P!Throws,
         P!Quiet, P!Step, P!WithKeyed, P!Migrated, P!LegacyOf, P!NewProof,
         P!NoProof, P!QuarantineNew
<1>4. Profiles!QuarantineLast(p) <=> P!QuarantineLast(p)
  BY DEF Profiles!At, Profiles!Returns, Profiles!Mishap, Profiles!Offline,
         Profiles!Fail, Profiles!Keeps, Profiles!Skip, Profiles!Compensate,
         Profiles!CatchOffline, Profiles!Unfile, Profiles!CatchLocked,
         Profiles!Thrown, Profiles!Renames, Profiles!Throws, Profiles!Quiet,
         Profiles!Step, Profiles!QuarantineLast, P!At, P!Returns, P!Mishap,
         P!Offline, P!Fail, P!Keeps, P!Skip, P!Compensate, P!CatchOffline, P!Unfile,
         P!CatchLocked, P!Thrown, P!Renames, P!Throws, P!Quiet, P!Step,
         P!QuarantineLast
<1> QED  BY <1>1, <1>2, <1>3, <1>4

LEMMA SameCommit ==
  ASSUME NEW p
  PROVE  /\ Profiles!Stage(p) <=> P!Stage(p)
         /\ Profiles!Recheck(p) <=> P!Recheck(p)
         /\ Profiles!Commit(p) <=> P!Commit(p)
         /\ Profiles!Verify(p) <=> P!Verify(p)
<1>1. Profiles!Stage(p) <=> P!Stage(p)
  BY DEF Profiles!At, Profiles!Returns, Profiles!Mishap, Profiles!Offline,
         Profiles!Fail, Profiles!Keeps, Profiles!Skip, Profiles!Compensate,
         Profiles!CatchOffline, Profiles!Unfile, Profiles!CatchLocked,
         Profiles!Thrown, Profiles!Renames, Profiles!Throws, Profiles!Quiet,
         Profiles!Step, Profiles!Stage, P!At, P!Returns, P!Mishap, P!Offline,
         P!Fail, P!Keeps, P!Skip, P!Compensate, P!CatchOffline, P!Unfile,
         P!CatchLocked, P!Thrown, P!Renames, P!Throws, P!Quiet, P!Step, P!Stage
<1>2. Profiles!Recheck(p) <=> P!Recheck(p)
  BY DEF Profiles!At, Profiles!Returns, Profiles!Mishap, Profiles!Offline,
         Profiles!Fail, Profiles!Keeps, Profiles!Skip, Profiles!Compensate,
         Profiles!CatchOffline, Profiles!Unfile, Profiles!CatchLocked,
         Profiles!Thrown, Profiles!Renames, Profiles!Throws, Profiles!Quiet,
         Profiles!Step, Profiles!Refuses, Profiles!StepIf, Profiles!Resolves,
         Profiles!CommitAllowed, Profiles!Recheck, P!At, P!Returns, P!Mishap,
         P!Offline, P!Fail, P!Keeps, P!Skip, P!Compensate, P!CatchOffline, P!Unfile,
         P!CatchLocked, P!Thrown, P!Renames, P!Throws, P!Quiet, P!Step, P!Refuses,
         P!StepIf, P!Resolves, P!CommitAllowed, P!Recheck
<1>3. Profiles!Commit(p) <=> P!Commit(p)
  BY DEF Profiles!At, Profiles!Returns, Profiles!Mishap, Profiles!Offline,
         Profiles!Fail, Profiles!Keeps, Profiles!Skip, Profiles!Compensate,
         Profiles!CatchOffline, Profiles!Unfile, Profiles!CatchLocked,
         Profiles!Thrown, Profiles!Renames, Profiles!Throws, Profiles!Quiet,
         Profiles!Step, Profiles!Commit, P!At, P!Returns, P!Mishap, P!Offline,
         P!Fail, P!Keeps, P!Skip, P!Compensate, P!CatchOffline, P!Unfile,
         P!CatchLocked, P!Thrown, P!Renames, P!Throws, P!Quiet, P!Step, P!Commit
<1>4. Profiles!Verify(p) <=> P!Verify(p)
  BY DEF Profiles!At, Profiles!Returns, Profiles!Mishap, Profiles!Offline,
         Profiles!Fail, Profiles!Keeps, Profiles!Skip, Profiles!Compensate,
         Profiles!CatchOffline, Profiles!Unfile, Profiles!CatchLocked,
         Profiles!Thrown, Profiles!Renames, Profiles!Throws, Profiles!Quiet,
         Profiles!Step, Profiles!Refuses, Profiles!StepIf, Profiles!Resolves,
         Profiles!NoProof, Profiles!Migrated, Profiles!AnyProof, Profiles!LegacyOf,
         Profiles!Verified, Profiles!Verify, P!At, P!Returns, P!Mishap, P!Offline,
         P!Fail, P!Keeps, P!Skip, P!Compensate, P!CatchOffline, P!Unfile,
         P!CatchLocked, P!Thrown, P!Renames, P!Throws, P!Quiet, P!Step, P!Refuses,
         P!StepIf, P!Resolves, P!NoProof, P!Migrated, P!AnyProof, P!LegacyOf,
         P!Verified, P!Verify
<1> QED  BY <1>1, <1>2, <1>3, <1>4

LEMMA SameUndo ==
  ASSUME NEW p
  PROVE  /\ Profiles!Uncommit(p) <=> P!Uncommit(p)
         /\ Profiles!Reverify(p) <=> P!Reverify(p)
         /\ Profiles!Inspect(p) <=> P!Inspect(p)
         /\ Profiles!Unapprove(p) <=> P!Unapprove(p)
         /\ Profiles!Unalias(p) <=> P!Unalias(p)
         /\ Profiles!Unkey(p) <=> P!Unkey(p)
<1>1. Profiles!Uncommit(p) <=> P!Uncommit(p)
  BY DEF Profiles!At, Profiles!Returns, Profiles!Mishap, Profiles!Offline,
         Profiles!Fail, Profiles!Keeps, Profiles!Skip, Profiles!Compensate,
         Profiles!CatchOffline, Profiles!Unfile, Profiles!CatchLocked,
         Profiles!Thrown, Profiles!Renames, Profiles!Throws, Profiles!Quiet,
         Profiles!Step, Profiles!Refuses, Profiles!StepIf, Profiles!Uncommit, P!At,
         P!Returns, P!Mishap, P!Offline, P!Fail, P!Keeps, P!Skip, P!Compensate,
         P!CatchOffline, P!Unfile, P!CatchLocked, P!Thrown, P!Renames, P!Throws,
         P!Quiet, P!Step, P!Refuses, P!StepIf, P!Uncommit
<1>2. Profiles!Reverify(p) <=> P!Reverify(p)
  BY DEF Profiles!At, Profiles!Returns, Profiles!Mishap, Profiles!Offline,
         Profiles!Fail, Profiles!Keeps, Profiles!Skip, Profiles!Compensate,
         Profiles!CatchOffline, Profiles!Unfile, Profiles!CatchLocked,
         Profiles!Thrown, Profiles!Renames, Profiles!Throws, Profiles!Quiet,
         Profiles!Step, Profiles!Refuses, Profiles!StepIf, Profiles!Resolves,
         Profiles!Reverify, P!At, P!Returns, P!Mishap, P!Offline, P!Fail, P!Keeps,
         P!Skip, P!Compensate, P!CatchOffline, P!Unfile, P!CatchLocked, P!Thrown,
         P!Renames, P!Throws, P!Quiet, P!Step, P!Refuses, P!StepIf, P!Resolves,
         P!Reverify
<1>3. Profiles!Inspect(p) <=> P!Inspect(p)
  BY DEF Profiles!At, Profiles!Returns, Profiles!Mishap, Profiles!Offline,
         Profiles!Fail, Profiles!Keeps, Profiles!Skip, Profiles!Compensate,
         Profiles!CatchOffline, Profiles!Unfile, Profiles!CatchLocked,
         Profiles!Thrown, Profiles!Renames, Profiles!Throws, Profiles!Quiet,
         Profiles!Step, Profiles!Refuses, Profiles!StepIf, Profiles!PinOf,
         Profiles!Inspect, P!At, P!Returns, P!Mishap, P!Offline, P!Fail, P!Keeps,
         P!Skip, P!Compensate, P!CatchOffline, P!Unfile, P!CatchLocked, P!Thrown,
         P!Renames, P!Throws, P!Quiet, P!Step, P!Refuses, P!StepIf, P!PinOf,
         P!Inspect
<1>4. Profiles!Unapprove(p) <=> P!Unapprove(p)
  BY DEF Profiles!At, Profiles!Returns, Profiles!Mishap, Profiles!Offline,
         Profiles!Fail, Profiles!Keeps, Profiles!Skip, Profiles!Compensate,
         Profiles!CatchOffline, Profiles!Unfile, Profiles!CatchLocked,
         Profiles!Thrown, Profiles!Renames, Profiles!Throws, Profiles!Quiet,
         Profiles!Step, Profiles!Unapprove, P!At, P!Returns, P!Mishap, P!Offline,
         P!Fail, P!Keeps, P!Skip, P!Compensate, P!CatchOffline, P!Unfile,
         P!CatchLocked, P!Thrown, P!Renames, P!Throws, P!Quiet, P!Step, P!Unapprove
<1>5. Profiles!Unalias(p) <=> P!Unalias(p)
  BY DEF Profiles!At, Profiles!Returns, Profiles!Mishap, Profiles!Offline,
         Profiles!Fail, Profiles!Keeps, Profiles!Skip, Profiles!Compensate,
         Profiles!CatchOffline, Profiles!Unfile, Profiles!CatchLocked,
         Profiles!Thrown, Profiles!Renames, Profiles!Throws, Profiles!Quiet,
         Profiles!Step, Profiles!Unalias, P!At, P!Returns, P!Mishap, P!Offline,
         P!Fail, P!Keeps, P!Skip, P!Compensate, P!CatchOffline, P!Unfile,
         P!CatchLocked, P!Thrown, P!Renames, P!Throws, P!Quiet, P!Step, P!Unalias
<1>6. Profiles!Unkey(p) <=> P!Unkey(p)
  BY DEF Profiles!At, Profiles!Returns, Profiles!Mishap, Profiles!Offline,
         Profiles!Fail, Profiles!Keeps, Profiles!Skip, Profiles!Compensate,
         Profiles!CatchOffline, Profiles!Unfile, Profiles!CatchLocked,
         Profiles!Thrown, Profiles!Renames, Profiles!Throws, Profiles!Quiet,
         Profiles!Step, Profiles!WithKeyed, Profiles!Unkey, P!At, P!Returns,
         P!Mishap, P!Offline, P!Fail, P!Keeps, P!Skip, P!Compensate, P!CatchOffline,
         P!Unfile, P!CatchLocked, P!Thrown, P!Renames, P!Throws, P!Quiet, P!Step,
         P!WithKeyed, P!Unkey
<1> QED  BY <1>1, <1>2, <1>3, <1>4, <1>5, <1>6

LEMMA SameProfiles ==
  /\ Profiles!Init <=> P!Init
  /\ Profiles!Next <=> P!Next
  /\ Profiles!TypeOK <=> P!TypeOK
  /\ Profiles!DoneIsServed <=> P!DoneIsServed
  /\ Profiles!FailureRestores <=> P!FailureRestores
  /\ Profiles!TextsResolve <=> P!TextsResolve
  /\ Profiles!DaemonIsCurrent <=> P!DaemonIsCurrent
<1>1. Profiles!Init <=> P!Init
  BY DEF Profiles!Profile, Profiles!Legacy, Profiles!Migrated, Profiles!Places,
         Profiles!Reviewed, Profiles!Profiles, Profiles!NoProof, Profiles!NoConfig,
         Profiles!Idle, Profiles!Init, P!Profile, P!Legacy, P!Migrated, P!Places,
         P!Reviewed, P!Profiles, P!NoProof, P!NoConfig, P!Idle, P!Init
<1>2. Profiles!Next <=> P!Next
  <2>1. \A p : Profiles!Steps(p) <=> P!Steps(p)
    BY SameEvidence, SameQuarantine, SameCommit, SameUndo DEF Profiles!Steps, P!Steps
  <2>2. Profiles!Places = P!Places
    BY DEF Profiles!Places, P!Places
  <2> QED  BY <2>1, <2>2, SameCommands, SameDaemon DEF Profiles!Next, P!Next
<1>3. Profiles!TypeOK <=> P!TypeOK
  BY DEF Profiles!Places, Profiles!Profile, Profiles!Reviewed, Profiles!Legacy,
         Profiles!Profiles, Profiles!Configs, Profiles!Pins, Profiles!DiskSet,
         Profiles!NoConfig, Profiles!TypeOK, P!Places, P!Profile, P!Reviewed,
         P!Legacy, P!Profiles, P!Configs, P!Pins, P!DiskSet, P!NoConfig, P!TypeOK
<1>4. Profiles!DoneIsServed <=> P!DoneIsServed
  BY DEF Profiles!Over, Profiles!PinOf, Profiles!Resolves, Profiles!NoProof,
         Profiles!Proof, Profiles!Migrated, Profiles!AnyProof, Profiles!LegacyOf,
         Profiles!Evidence, Profiles!DoneIsServed, P!Over, P!PinOf, P!Resolves,
         P!NoProof, P!Proof, P!Migrated, P!AnyProof, P!LegacyOf, P!Evidence,
         P!DoneIsServed
<1>5. Profiles!FailureRestores <=> P!FailureRestores
  BY DEF Profiles!Over, Profiles!FailureRestores, P!Over, P!FailureRestores
<1>6. Profiles!TextsResolve <=> P!TextsResolve
  BY DEF Profiles!PinOf, Profiles!Resolves, Profiles!TextsResolve, P!PinOf,
         P!Resolves, P!TextsResolve
<1>7. Profiles!DaemonIsCurrent <=> P!DaemonIsCurrent
  BY DEF Profiles!DaemonIsCurrent, P!DaemonIsCurrent
<1> QED  BY <1>1, <1>2, <1>3, <1>4, <1>5, <1>6, <1>7

-----------------------------------------------------------------------------
(* The invariant: that of the family at work.                              *)

AdminInv ==
  \/ family = "deploy" /\ D!IInv
  \/ family = "profile" /\ P!JInv

LEMMA InitIsAdmin ==
  ASSUME Init
  PROVE  AdminInv
<1>1. CASE family = "deploy" /\ Installer!Init
  <2>1. D!Init
    BY <1>1, SameInstaller
  <2> QED  BY <1>1, <2>1, Constants, D!InitIsGood DEF AdminInv
<1>2. CASE family = "profile" /\ Profiles!Init
  <2>1. P!Init
    BY <1>2, SameProfiles
  <2> QED  BY <1>2, <2>1, Constants, P!InitIsJGood DEF AdminInv
<1> QED  BY <1>1, <1>2 DEF Init

LEMMA DeployKeeps ==
  ASSUME D!IInv, Installer!Next \/ UNCHANGED deployVars
  PROVE  D!IInv'
<1>1. D!Next \/ UNCHANGED D!vars
  BY SameInstaller DEF deployVars, D!vars
<1> QED  BY <1>1, Constants, D!NextKeepsIInv

LEMMA ProfilesKeep ==
  ASSUME P!JInv, Profiles!Next \/ UNCHANGED profileVars
  PROVE  P!JInv'
<1>1. P!Next \/ UNCHANGED P!vars
  BY SameProfiles DEF profileVars, P!vars
<1> QED  BY <1>1, Constants, P!NextKeepsJInv

LEMMA NextKeepsAdmin ==
  ASSUME AdminInv, [Next]_vars
  PROVE  AdminInv'
<1>1. family' = family
  BY DEF Next, vars
<1>2. CASE family = "deploy" /\ D!IInv
  <2>1. Installer!Next \/ UNCHANGED deployVars
    BY <1>2 DEF Next, vars
  <2>2. D!IInv'
    BY <1>2, <2>1, DeployKeeps
  <2> QED  BY <1>1, <1>2, <2>2 DEF AdminInv
<1>3. CASE family = "profile" /\ P!JInv
  <2>1. Profiles!Next \/ UNCHANGED profileVars
    BY <1>3 DEF Next, vars
  <2>2. P!JInv'
    BY <1>3, <2>1, ProfilesKeep
  <2> QED  BY <1>1, <1>3, <2>2 DEF AdminInv
<1> QED  BY <1>2, <1>3 DEF AdminInv

\* Either family keeps its invariant, in every reachable state.
THEOREM AdminFollows == Spec => []AdminInv
<1>1. Init => AdminInv
  BY InitIsAdmin
<1>2. AdminInv /\ [Next]_vars => AdminInv'
  BY NextKeepsAdmin
<1> QED  BY <1>1, <1>2, PTL DEF Spec

-----------------------------------------------------------------------------
(* What the properties of the command line follow from.                    *)

LEMMA ShownByInstaller ==
  ASSUME D!IInv
  PROVE  D!TypeOK /\ D!DoneIsDescribed /\ D!FailureRestores
BY D!IInvTypes, D!DoneIsDescribedHere, D!FailureRestoresHere

LEMMA ShownByProfiles ==
  ASSUME P!JInv
  PROVE  /\ P!TypeOK /\ P!DoneIsServed /\ P!FailureRestores
         /\ P!TextsResolve /\ P!DaemonIsCurrent
BY P!JInvTypes, P!JInvServes, P!JInvRestores, P!JInvResolves DEF P!JInv, P!IInv

\* Both families keep their types, and each its locks.
THEOREM AdminTypeCorrect == Spec => []TypeOK
<1>1. AdminInv => TypeOK
  BY ShownByInstaller, ShownByProfiles, SameInstaller, SameProfiles DEF AdminInv, TypeOK
<1> QED  BY <1>1, AdminFollows, PTL

\* A command that reports success tells the truth: of the deployment under the
\* pointer, or of the config and the evidence beside it.
THEOREM SuccessIsAlwaysTrue == Spec => []SuccessIsTrue
<1>1. AdminInv => SuccessIsTrue
  BY ShownByInstaller, ShownByProfiles, SameInstaller, SameProfiles
     DEF AdminInv, SuccessIsTrue
<1> QED  BY <1>1, AdminFollows, PTL

\* A command that fails has put back what it says it has, and wherever commands
\* and the daemon stop, every config resolves and no daemon is overtaken.
THEOREM NothingIsHalfDone == Spec => []NothingHalfDone
<1>1. AdminInv => NothingHalfDone
  BY ShownByInstaller, ShownByProfiles, SameInstaller, SameProfiles
     DEF AdminInv, NothingHalfDone
<1> QED  BY <1>1, AdminFollows, PTL

=============================================================================
