---------------------------- MODULE ProfileCommands ----------------------------
(***************************************************************************)
(* The commands that change what the daemon serves: upstream check,        *)
(* activate and rollback, profile migrate-v2 and its rollback, and backend *)
(* switch.  Each changes several private files and commits by one rename   *)
(* of the config.  The profile guard keeps them, the daemon's start and    *)
(* its rechecks apart; the last three also hold a file at the path of the  *)
(* connector's socket, so that no daemon can start.                        *)
(*                                                                         *)
(* A profile is its content, which is what its SHA-256 stands for; the     *)
(* profile that was installed first may still be of schema 1.  An outside  *)
(* hand damages profile files at any time and removes what a crash left.   *)
(***************************************************************************)
EXTENDS Naturals, Sequences

CONSTANTS
  Procs,        \* command lines that may run at the same time
  Ids,          \* profile.id of the profiles an operator may install
  First,        \* that of the profile of the installation
  Revisions,    \* contents under one profile.id; 0 is the first
  Backends,     \* execution backends to switch between
  Nothing,      \* no file
  Damaged,      \* a file that is not what its name says
  MaxCommands,  \* bound: commands ever begun
  MaxMishaps    \* bound: steps that throw, crashes and damaged files

VARIABLES
  disk,     \* the private files
  guard,    \* profile-operation.guard: "free", its holder, or "stale"
  socket,   \* the connector's path: "none", "socket", a holder, or "stale"
  cmd,      \* the command lines
  daemon,   \* the daemon and the config it loaded
  hurt,     \* contents lost from outside and not written again since
  unsure,   \* an offline command's rename of the config is not yet durable
  budget    \* commands and mishaps so far

vars == <<disk, guard, socket, cmd, daemon, hurt, unsure, budget>>

Profile(schema, id, rev) == [schema |-> schema, id |-> id, rev |-> rev]
Legacy == Profile(1, First, 0)
Migrated(c) == [c EXCEPT !.schema = 2]
Reviewed == {Profile(2, i, r) : i \in Ids, r \in Revisions}
Profiles == Reviewed \cup {Legacy}

\* The file the first config names, protocol-profiles-v2/<sha>.json,
\* protocol-profiles-v1-rollback/<sha>.json, protocol-profiles/<id>.json.
Places == {"source", "target", "fallback"} \cup Ids

Pins == [path : Places, pin : Profiles]
Configs == [path : Places, pin : Profiles, backend : Backends]
PinOf(config) == [path |-> config.path, pin |-> config.pin]

\* A proof is told apart from the one before it of the same profile.
NoProof == 0
Proof(c, n) == [of |-> c, n |-> n]

DiskSet ==
  [config : Configs, files : [Places -> Profiles \cup {Nothing, Damaged}],
   keyed : [Profiles -> 0..2], alias : {Nothing} \cup [of : Profiles, n : 1..2],
   approvals : [Reviewed -> Nat], backups : SUBSET Pins,
   receipts : SUBSET [source : Configs, target : Configs]]

Offline == {"migrate", "unmigrate", "switch"}

Resolves(t) == disk.files[t.path] = t.pin
NoConfig == [path |-> "source", pin |-> Legacy, backend |-> Nothing]

\* base: the config text the command read; goal: the one it is to commit; was:
\* the disk when it entered; back: it failed; blame: what it tells is that the
\* state before could not be restored; keep: it leaves both guards in place.
Idle == [at |-> "idle", op |-> "none", base |-> NoConfig, goal |-> NoConfig,
         keyed |-> 0, alias |-> Nothing, approved |-> 0, todo |-> <<>>,
         back |-> FALSE, blame |-> FALSE, keep |-> FALSE]

Mishap == /\ budget.mishaps < MaxMishaps
          /\ budget' = [budget EXCEPT !.mishaps = @ + 1]
Begins == /\ budget.commands < MaxCommands
          /\ budget' = [budget EXCEPT !.commands = @ + 1]

Init ==
  \E c \in {Legacy, Migrated(Legacy)}, b \in Backends :
    /\ disk = [config |-> [path |-> "source", pin |-> c, backend |-> b],
               files |-> [f \in Places |-> IF f = "source" THEN c ELSE Nothing],
               keyed |-> [d \in Profiles |-> NoProof], alias |-> Nothing,
               approvals |-> [d \in Reviewed |-> 0],
               backups |-> {}, receipts |-> {}]
    /\ guard = "free" /\ socket = "none"
    /\ cmd = [p \in Procs |-> Idle]
    /\ daemon = [at |-> "off", config |-> NoConfig]
    /\ hurt = {} /\ unsure = FALSE
    /\ budget = [commands |-> 0, mishaps |-> 0]

-----------------------------------------------------------------------------
(* Proofs.                                                                 *)

NextProof(d, c) == IF d.keyed[c] = 1 THEN 2 ELSE 1
WithKeyed(d, c, n) == [d EXCEPT !.keyed[c] = n]
WithAlias(d, c, n) == [d EXCEPT !.alias = Proof(c, n)]
\* saveSupportedProof, as a whole
Proven(d, c) == LET n == NextProof(d, c) IN WithAlias(WithKeyed(d, c, n), c, n)

\* The proofs that a migration of this schema-1 profile, or its rollback,
\* puts into quarantine.
AnyProof(c) ==
  \/ disk.keyed[c] # NoProof \/ disk.keyed[Migrated(c)] # NoProof
  \/ disk.alias # Nothing

-----------------------------------------------------------------------------
(* The commands: what they read, refuse and lock.                          *)

\* loadContext: the pinned profile is there and of schema 2.
ContextLoads == Resolves(disk.config) /\ disk.config.pin.schema = 2

Work(op, goal, todo) ==
  [Idle EXCEPT !.at = "working", !.op = op, !.base = disk.config,
     !.goal = goal, !.todo = todo, !.keyed = disk.keyed[goal.pin],
     !.alias = disk.alias,
     !.approved = IF goal.pin \in Reviewed THEN disk.approvals[goal.pin] ELSE 0]

\* Commands that first lock and then load their context.
Locked(p, op, goal, todo) ==
  /\ cmd[p].at = "idle" /\ guard = "free"
  /\ ContextLoads
  /\ Begins
  /\ guard' = p
  /\ cmd' = [cmd EXCEPT ![p] = Work(op, goal, todo)]
  /\ UNCHANGED <<disk, socket, daemon, hurt, unsure>>

\* upstream check; login saves a proof under the guard in the same way.
Check(p) == Locked(p, "check", disk.config, <<"key", "alias">>)

Activate(p, c) ==
  Locked(p, "activate", [disk.config EXCEPT !.path = c.id, !.pin = c],
    <<"install", "backup", "key", "alias", "approve", "stage", "recheck",
      "commit", "verify">>)

\* rollbackProfileConfig: two fields of the backup, the rest as it is now
Restore(p, t) ==
  /\ Resolves(t) /\ t.pin.schema = 2
  /\ Locked(p, "restore", [disk.config EXCEPT !.path = t.path, !.pin = t.pin],
            <<"backup", "stage", "recheck", "commit", "verify">>)

\* Commands that plan from the config as it is and lock later.
Plan(p, op, goal) ==
  /\ cmd[p].at = "idle"
  /\ Begins
  /\ cmd' = [cmd EXCEPT ![p] = [Idle EXCEPT !.at = "planned", !.op = op,
                                  !.base = disk.config, !.goal = goal]]
  /\ UNCHANGED <<disk, guard, socket, daemon, hurt, unsure>>

PlanMigrate(p) ==
  /\ disk.config.pin.schema = 1 /\ Resolves(disk.config)
  /\ Plan(p, "migrate",
          [disk.config EXCEPT !.path = "target", !.pin = Migrated(@)])

Fallback(source) == [source EXCEPT !.path = "fallback"]

\* The goal is not known yet: it holds the receipt's source.
PlanUnmigrate(p, r) ==
  /\ disk.config \in {r.source, Fallback(r.source), r.target}
  /\ Plan(p, "unmigrate", r.source)

PlanSwitch(p, b) == Plan(p, "switch", [disk.config EXCEPT !.backend = b])

GuardFree_Stale == guard \in {"free", "stale"}  \* (mutant) taken over
GuardFree == guard = "free"

Quarantine == <<"old", "new", "last">>

\* The modes of a rollback: nothing to do, clean up proofs, repair the
\* fallback, or commit another config.
UnmigrateWork(c) ==
  LET source == c.goal
      goal == IF c.base = Fallback(source) THEN c.base
              ELSE IF Resolves(source) THEN source ELSE Fallback(source)
      undone == c.base \in {source, Fallback(source)} /\ Resolves(c.base)
      repair == goal = Fallback(source) /\ ~undone
  IN Work("unmigrate", goal,
       IF undone /\ ~AnyProof(source.pin) THEN <<>>
       ELSE Quarantine \o <<IF repair THEN "install" ELSE "check">>
            \o (IF goal = c.base THEN <<>> ELSE <<"recheck", "commit">>) \o <<"verify">>)

PlannedWork(c) ==
  CASE c.op = "migrate"   -> Work("migrate", c.goal,
         <<"install", "receipt">> \o Quarantine \o <<"recheck", "commit", "verify">>)
    [] c.op = "unmigrate" -> UnmigrateWork(c)
    [] c.op = "switch"    -> Work("switch", c.goal,
         IF c.goal = c.base THEN <<>> ELSE <<"recheck", "commit", "verify">>)

\* Both guards are there, and the config is still the one of the plan.
Enter(p) ==
  /\ cmd[p].at = "planned" /\ GuardFree /\ socket = "none"
  /\ disk.config = cmd[p].base
  /\ cmd[p].op = "migrate" => Resolves(cmd[p].base)
  /\ guard' = p /\ socket' = p
  /\ cmd' = [cmd EXCEPT ![p] = PlannedWork(@)]
  /\ UNCHANGED <<disk, daemon, hurt, unsure, budget>>

\* A guard is taken, a check fails, or the jobs of the old backend remain.
Refuse(p) ==
  /\ cmd[p].at = "planned"
  /\ cmd' = [cmd EXCEPT ![p] = Idle]
  /\ UNCHANGED <<disk, guard, socket, daemon, hurt, unsure, budget>>

-----------------------------------------------------------------------------
(* How a step ends: it returns, or it throws with or without its effect.   *)

At(p, s) == cmd[p].at = "working" /\ cmd[p].todo # <<>> /\ Head(cmd[p].todo) = s
Quiet == UNCHANGED <<guard, socket, daemon, hurt>>

Fail(c) == [c EXCEPT !.back = TRUE, !.todo = <<>>]
Compensate(c, steps) == [c EXCEPT !.back = TRUE, !.todo = steps]
Unfile == <<"unapprove", "unalias", "unkey">>

\* The catch blocks of the commands under the profile guard alone.
CatchLocked(c, s) ==
  CASE s \in {"approve", "stage", "recheck"} /\ c.op = "activate" ->
         Compensate(c, <<"inspect">> \o Unfile)
    [] s \in {"commit", "verify"} /\ c.op = "activate" ->
         Compensate(c, <<"uncommit", "reverify">> \o Unfile)
    [] s \in {"commit", "verify"} /\ c.op = "restore" ->
         Compensate(c, <<"uncommit", "reverify">>)
    [] OTHER -> Fail(c)

Keeps_Never(effect) == FALSE  \* (mutant) the guards are released as always
\* A rename that cannot be confirmed (DurableCommitUncertainError).
Keeps(effect) == effect

\* Those of the offline commands.
CatchOffline(c, s, effect) ==
  IF s = "verify" THEN Compensate(c, <<"uncommit", "reverify">>)
                  ELSE [Fail(c) EXCEPT !.keep = Keeps(effect)]

\* While it compensates: nothing more is touched if the config is not sure to
\* be the old one; the files are restored one by one.
Skip(c, s, effect) ==
  IF c.op \in Offline
  THEN [Fail(c) EXCEPT !.blame = ~effect \/ s = "reverify", !.keep = Keeps(effect)]
  ELSE IF s \in {"uncommit", "reverify", "inspect"}
       THEN [Fail(c) EXCEPT !.blame = TRUE]
       ELSE [c EXCEPT !.blame = TRUE, !.todo = Tail(@)]

Thrown(c, s, effect) ==
  CASE c.back                          -> Skip(c, s, effect)
    [] ~c.back /\ c.op \in Offline     -> CatchOffline(c, s, effect)
    [] ~c.back /\ c.op \notin Offline  -> CatchLocked(c, s)

Renames(s) == s \in {"commit", "uncommit"}

Returns(p, after) ==
  /\ disk' = after
  /\ cmd' = [cmd EXCEPT ![p].todo = Tail(@)]
  /\ UNCHANGED <<unsure, budget>>

Throws(p, s, after) ==
  /\ Mishap
  /\ disk' = after
  /\ cmd' = [cmd EXCEPT ![p] = Thrown(@, s, after # disk)]
  /\ unsure' = (unsure \/ (Renames(s) /\ cmd[p].op \in Offline /\ after # disk))

\* What the code finds makes the step throw.
Refuses(p, s) ==
  /\ At(p, s)
  /\ cmd' = [cmd EXCEPT ![p] = Thrown(@, s, FALSE)]
  /\ UNCHANGED <<disk, unsure, budget>> /\ Quiet

Step(p, s, after) ==
  /\ At(p, s)
  /\ \/ Returns(p, after)
     \/ Throws(p, s, after)
     \/ after # disk /\ Throws(p, s, disk)
  /\ Quiet

StepIf(p, s, holds, after) == IF holds THEN Step(p, s, after) ELSE Refuses(p, s)

-----------------------------------------------------------------------------
(* The steps forward.                                                      *)

InstallAllows_Any(found, c) == TRUE  \* (mutant) the file is written anyway
\* A file of this name with another content is never written over.
InstallAllows(found, c) == found \in {Nothing, c}

\* The profile, and before it the copies a migration keeps of config and
\* profile.  The rollback writes its fallback again after it moved away what
\* is there.
Install(p) ==
  LET goal == cmd[p].goal  found == disk.files[goal.path]
      written == [disk EXCEPT !.files[goal.path] = goal.pin] IN
  /\ At(p, "install")
  /\ IF InstallAllows(found, goal.pin)
     THEN /\ \/ Returns(p, written) /\ hurt' = hurt \ {PinOf(goal)}
             \/ /\ Throws(p, "install", written)
                /\ hurt' = hurt \ {PinOf(goal)}
             \/ written # disk /\ Throws(p, "install", disk) /\ UNCHANGED hurt
          /\ UNCHANGED <<guard, socket, daemon>>
     ELSE IF cmd[p].op = "unmigrate"
          THEN LET gone == [disk EXCEPT !.files[goal.path] = Nothing] IN
               /\ \/ disk' = gone /\ UNCHANGED <<cmd, unsure, budget>>
                  \/ Throws(p, "install", gone)
                  \/ Throws(p, "install", disk)
               /\ Quiet
          ELSE Refuses(p, "install")

\* The rollback needs no file written: the one its config names is valid.
CheckProfile(p) == StepIf(p, "check", Resolves(cmd[p].goal), disk)

BackupConfig(p) ==
  Step(p, "backup", [disk EXCEPT !.backups = @ \cup {PinOf(cmd[p].base)}])

\* saveSupportedProof throws: it undoes what it may have written, one file
\* after the other, and tells what it could not undo.
ProofFails(p, after) ==
  LET c == cmd[p]  pin == c.goal.pin IN
  /\ Mishap
  /\ \E k \in {after.keyed[pin], c.keyed}, a \in {after.alias, c.alias} :
       /\ disk' = [disk EXCEPT !.keyed[pin] = k, !.alias = a]
       /\ cmd' = [cmd EXCEPT ![p] = [Fail(c) EXCEPT
                    !.blame = (k # c.keyed \/ a # c.alias)]]
  /\ UNCHANGED unsure

Saves(p, s, after) ==
  At(p, s) /\ (Returns(p, after) \/ ProofFails(p, after)) /\ Quiet

SaveKeyed(p) ==
  LET pin == cmd[p].goal.pin IN
  Saves(p, "key", WithKeyed(disk, pin, NextProof(disk, pin)))

SaveAlias(p) ==
  LET pin == cmd[p].goal.pin IN
  Saves(p, "alias", WithAlias(disk, pin, disk.keyed[pin]))

Approve(p) ==
  Step(p, "approve", [disk EXCEPT !.approvals[cmd[p].goal.pin] = @ + 1])

Stage(p) == Step(p, "stage", disk)

\* PREPARED.json
WriteReceipt(p) ==
  Step(p, "receipt", [disk EXCEPT !.receipts =
    @ \cup {[source |-> cmd[p].base, target |-> cmd[p].goal]}])

LegacyOf(c) == IF c.op = "migrate" THEN c.base.pin ELSE c.goal.pin

NewProof_Stays(c) == Legacy  \* (mutant) the new profile's proof is left
NewProof(c) == Migrated(LegacyOf(c))

QuarantineOld(p) == Step(p, "old", WithKeyed(disk, LegacyOf(cmd[p]), NoProof))
QuarantineNew(p) == Step(p, "new", WithKeyed(disk, NewProof(cmd[p]), NoProof))
QuarantineLast(p) == Step(p, "last", [disk EXCEPT !.alias = Nothing])

\* What is read again before the rename: the config, and the profile that the
\* new config names (a migration: the one the old config names).
CommitAllowed(c) ==
  /\ disk.config = c.base
  /\ c.op \in {"activate", "restore"} => Resolves(c.goal)
  /\ c.op = "migrate" => Resolves(c.base)

Recheck(p) == StepIf(p, "recheck", CommitAllowed(cmd[p]), disk)

Commit(p) == Step(p, "commit", [disk EXCEPT !.config = cmd[p].goal])

Verified(c) ==
  /\ disk.config = c.goal
  /\ c.op # "switch" => Resolves(c.goal)
  /\ c.op = "migrate" => ~AnyProof(LegacyOf(c))

Verify(p) == StepIf(p, "verify", Verified(cmd[p]), disk)

-----------------------------------------------------------------------------
(* The steps back.                                                         *)

Uncommit(p) ==
  LET c == cmd[p] IN
  StepIf(p, "uncommit", disk.config \in {c.base, c.goal},
         [disk EXCEPT !.config = c.base])

Reverify(p) ==
  LET c == cmd[p] IN
  StepIf(p, "reverify",
         disk.config = c.base /\ (c.op \notin Offline => Resolves(c.base)), disk)

\* Whoever made the config name the candidate: its evidence stays.
Inspect(p) == StepIf(p, "inspect", PinOf(disk.config) # PinOf(cmd[p].goal), disk)

Unapprove(p) ==
  Step(p, "unapprove", [disk EXCEPT !.approvals[cmd[p].goal.pin] = cmd[p].approved])
Unalias(p) == Step(p, "unalias", [disk EXCEPT !.alias = cmd[p].alias])
Unkey(p) == Step(p, "unkey", WithKeyed(disk, cmd[p].goal.pin, cmd[p].keyed))

-----------------------------------------------------------------------------
(* The end of a command, crashes and the operator.                         *)

Over(p) == cmd[p].at = "working" /\ cmd[p].todo = <<>>

\* The guards are released, the offline guard first, unless they are kept; a
\* release that throws leaves its file.
Leave(p) ==
  LET mine == socket = p  left == IF mine THEN "none" ELSE socket IN
  /\ Over(p)
  /\ cmd' = [cmd EXCEPT ![p] = Idle]
  /\ \/ /\ cmd[p].keep /\ guard' = "stale" /\ socket' = "stale"
        /\ UNCHANGED budget
     \/ /\ ~cmd[p].keep /\ guard' = "free" /\ socket' = left
        /\ UNCHANGED budget
     \/ /\ ~cmd[p].keep /\ Mishap
        /\ \/ guard' = "stale" /\ socket' = left
           \/ mine /\ guard' = "free" /\ socket' = "stale"
  /\ UNCHANGED <<disk, daemon, hurt, unsure>>

\* The process is killed.
Crash(p) ==
  /\ cmd[p].at = "working"
  /\ Mishap
  /\ cmd' = [cmd EXCEPT ![p] = Idle]
  /\ guard' = "stale"
  /\ socket' = IF socket = p THEN "stale" ELSE socket
  /\ UNCHANGED <<disk, daemon, hurt, unsure>>

\* By hand: the config is made sure of, then what was left is removed.
OperatorClears ==
  /\ guard \in {"free", "stale"}
  /\ \/ guard = "stale" \/ socket = "stale"
     \/ socket = "socket" /\ daemon.at = "off"
  /\ guard' = "free"
  /\ socket' = IF socket = "socket" /\ daemon.at = "up" THEN socket ELSE "none"
  /\ unsure' = FALSE
  /\ UNCHANGED <<disk, cmd, daemon, hurt, budget>>

\* A profile file is lost or changed from outside.
Damage(f) ==
  /\ disk.files[f] \in Profiles
  /\ Mishap
  /\ \E left \in {Nothing, Damaged} : disk' = [disk EXCEPT !.files[f] = left]
  /\ hurt' = hurt \cup {[path |-> f, pin |-> disk.files[f]]}
  /\ UNCHANGED <<guard, socket, cmd, daemon, unsure>>

-----------------------------------------------------------------------------
(* The daemon, of which the service manager runs one.                      *)

\* serve: under the guard the config is loaded and a proof made or found.
ServeLoads ==
  /\ daemon.at = "off" /\ GuardFree /\ ContextLoads
  /\ guard' = "daemon"
  /\ daemon' = [at |-> "starting", config |-> disk.config]
  /\ \/ disk' = Proven(disk, disk.config.pin)
     \/ disk.keyed[disk.config.pin] # NoProof /\ UNCHANGED disk
  /\ UNCHANGED <<socket, cmd, hurt, unsure, budget>>

\* ConnectorServer takes the path from a socket, not from another file.
ServeBinds ==
  /\ daemon.at = "starting"
  /\ guard' = "free"
  /\ IF socket \in {"none", "socket"}
     THEN socket' = "socket" /\ daemon' = [daemon EXCEPT !.at = "up"]
     ELSE daemon' = [at |-> "off", config |-> NoConfig] /\ UNCHANGED socket
  /\ UNCHANGED <<disk, cmd, hurt, unsure, budget>>

\* runUpstreamRecheck: the proof of the profile the daemon loaded.
DaemonRechecks ==
  /\ daemon.at = "up" /\ GuardFree
  /\ disk' = Proven(disk, daemon.config.pin)
  /\ UNCHANGED <<guard, socket, cmd, daemon, hurt, unsure, budget>>

DaemonStops ==
  /\ daemon.at = "up"
  /\ daemon' = [at |-> "off", config |-> NoConfig]
  /\ socket' = "none"
  /\ UNCHANGED <<disk, guard, cmd, hurt, unsure, budget>>

\* Killed, its socket stays; while it starts or checks, also the guard.
DaemonDies ==
  /\ daemon.at \in {"starting", "up"}
  /\ Mishap
  /\ daemon' = [at |-> "off", config |-> NoConfig]
  /\ \/ guard = "daemon" /\ guard' = "stale" /\ UNCHANGED disk
     \/ guard # "daemon" /\ UNCHANGED <<guard, disk>>
     \/ /\ daemon.at = "up" /\ GuardFree /\ guard' = "stale"
        /\ LET c == daemon.config.pin IN
           disk' = WithKeyed(disk, c, NextProof(disk, c))
  /\ UNCHANGED <<socket, cmd, hurt, unsure>>

\* A daemon of the release that reads schema 1, after a rollback.
OldDaemonChecks ==
  /\ disk.config.pin.schema = 1 /\ socket = "none" /\ GuardFree
  /\ disk' = Proven(disk, disk.config.pin)
  /\ UNCHANGED <<guard, socket, cmd, daemon, hurt, unsure, budget>>

-----------------------------------------------------------------------------

Commands(p) ==
  \/ Check(p)
  \/ \E c \in Reviewed : Activate(p, c)
  \/ \E t \in disk.backups : Restore(p, t)
  \/ PlanMigrate(p)
  \/ \E r \in disk.receipts : PlanUnmigrate(p, r)
  \/ \E b \in Backends : PlanSwitch(p, b)
  \/ Enter(p) \/ Refuse(p)

Steps(p) ==
  \/ Install(p) \/ CheckProfile(p) \/ BackupConfig(p)
  \/ SaveKeyed(p) \/ SaveAlias(p) \/ Approve(p) \/ Stage(p) \/ WriteReceipt(p)
  \/ QuarantineOld(p) \/ QuarantineNew(p) \/ QuarantineLast(p)
  \/ Recheck(p) \/ Commit(p) \/ Verify(p)
  \/ Uncommit(p) \/ Reverify(p) \/ Inspect(p)
  \/ Unapprove(p) \/ Unalias(p) \/ Unkey(p)

Next ==
  \/ \E p \in Procs : Commands(p) \/ Steps(p) \/ Leave(p) \/ Crash(p)
  \/ \E f \in Places : Damage(f)
  \/ OperatorClears
  \/ ServeLoads \/ ServeBinds \/ DaemonRechecks \/ DaemonStops \/ DaemonDies
  \/ OldDaemonChecks

Spec == Init /\ [][Next]_vars

-----------------------------------------------------------------------------
(* Properties.                                                             *)

TypeOK ==
  /\ disk \in DiskSet
  /\ guard \in Procs \cup {"free", "stale", "daemon"}
  /\ socket \in Procs \cup {"none", "socket", "stale"}
  /\ \A p \in Procs : cmd[p].at = "working" <=> guard = p
  /\ daemon.at \in {"off", "starting", "up"}
  /\ daemon.config \in Configs \cup {NoConfig}
  /\ hurt \subseteq Pins /\ unsure \in BOOLEAN

\* Wherever a command stops: the config, and every config a rollback may go
\* back to, name a profile whose file has the content they pin, unless that
\* file was damaged from outside.
TextsResolve ==
  \A t \in {PinOf(disk.config)} \cup disk.backups
           \cup UNION {{PinOf(r.source), PinOf(r.target)} : r \in disk.receipts} :
    t \in hurt \/ Resolves(t)

\* A daemon that starts or runs was not overtaken by an offline command: its
\* backend and schema are those of the live config, whose rename is durable.
DaemonIsCurrent ==
  daemon.at # "off" =>
    /\ daemon.config.backend = disk.config.backend
    /\ disk.config.pin.schema = 2
    /\ ~unsure

\* What a command that succeeds leaves beside the config.
Evidence(p) ==
  LET c == cmd[p] IN
  CASE c.op = "activate" ->
         /\ PinOf(c.base) \in disk.backups
         /\ disk.approvals[c.goal.pin] > c.approved
         /\ disk.keyed[c.goal.pin] # NoProof
         /\ disk.alias = Proof(c.goal.pin, disk.keyed[c.goal.pin])
    [] c.op = "restore" -> PinOf(c.base) \in disk.backups
    [] c.op = "migrate" ->
         /\ [source |-> c.base, target |-> c.goal] \in disk.receipts
         /\ ~AnyProof(LegacyOf(c))
    [] c.op = "unmigrate" -> ~AnyProof(LegacyOf(c))
    [] OTHER -> TRUE

\* A command that reports success has made the config name what it was asked
\* for, with the way back and the approval kept, and with no proof of another
\* schema left that a daemon could start with; although the config was read
\* before the guard was taken, and proofs come from daemons and commands in
\* between.
DoneIsServed ==
  \A p \in Procs : (Over(p) /\ ~cmd[p].back) =>
    /\ disk.config = cmd[p].goal
    /\ PinOf(cmd[p].goal) \in hurt \/ Resolves(cmd[p].goal)
    /\ Evidence(p)

\* A command that fails and tells of nothing it could not restore has left the
\* config as it was; an activation or a check also every proof and approval.
\* The proofs that a migration moved away stay away, as its message says.
FailureRestores ==
  \A p \in Procs :
    LET c == cmd[p] IN
    (Over(p) /\ c.back /\ ~c.blame /\ ~c.keep) =>
      /\ disk.config = c.base
      /\ c.op \in {"activate", "check"} =>
           /\ disk.keyed[c.goal.pin] = c.keyed
           /\ disk.alias = c.alias
           /\ disk.approvals[c.goal.pin] = c.approved

=============================================================================
