----------------------- MODULE ProfileCommandsProofs -----------------------
(***************************************************************************)
(* What the offline commands promise, for every set of command lines,      *)
(* profiles and backends and every bound.  The first part is about the two *)
(* guards: what each actor may do while it holds them, and what is left at *)
(* their paths when it ends; no daemon serves what a command has replaced. *)
(* The second part follows a command along its path, and back, and says    *)
(* what the steps behind it left on the disk: texts resolve, success is    *)
(* served and failure is restored.                                         *)
(***************************************************************************)
EXTENDS ProfileCommands, TLAPS

\* The names of the guards' other states are not command lines, a profile that
\* is migrated is one an operator may install, and neither the content of no
\* file or a damaged one nor the place of a copy is a profile's.
ConstantsOK ==
  /\ Procs \cap {"free", "stale", "daemon", "none", "socket"} = {}
  /\ First \in Ids /\ 0 \in Revisions
  /\ Profiles \cap {Nothing, Damaged} = {}
  /\ Ids \cap {"source", "target", "fallback"} = {}

Ops == Offline \cup {"none", "check", "activate", "restore"}
Aliases == {Nothing} \cup [of : Profiles, n : 0..2]

StepNames ==
  {"install", "check", "backup", "key", "alias", "approve", "stage", "receipt",
   "old", "new", "last", "recheck", "commit", "verify", "uncommit", "reverify",
   "inspect", "unapprove", "unalias", "unkey"}

CmdShape ==
  [at : {"idle", "planned", "working"}, op : Ops,
   base : Configs \cup {NoConfig}, goal : Configs \cup {NoConfig},
   keyed : 0..2, alias : Aliases, approved : Nat, todo : Seq(StepNames),
   back : BOOLEAN, blame : BOOLEAN, keep : BOOLEAN]

DiskShape ==
  [config : Configs, files : [Places -> Profiles \cup {Nothing, Damaged}],
   keyed : [Profiles -> 0..2], alias : Aliases,
   approvals : [Reviewed -> Nat], backups : SUBSET Pins,
   receipts : SUBSET [source : Configs, target : Configs]]

Shape ==
  /\ disk \in DiskShape
  /\ cmd \in [Procs -> CmdShape]
  /\ daemon \in [at : {"off", "starting", "up"}, config : Configs \cup {NoConfig}]
  /\ unsure \in BOOLEAN

Working(p) == cmd[p].at = "working"

\* The profile guard names the one command that works, or the daemon while it
\* starts.
GuardNamesHolder ==
  /\ \A p \in Procs : Working(p) <=> guard = p
  /\ daemon.at = "starting" <=> guard = "daemon"

\* An offline command has its file where a running daemon has its socket.
SocketNamesHolder ==
  /\ daemon.at = "up" => socket = "socket"
  /\ \A p \in Procs : Working(p) /\ cmd[p].op \in Offline => socket = p

\* A command knows the configs it may write, and without the offline guard
\* they differ from the live one in the profile alone.
ConfigsKnown ==
  \A p \in Procs : cmd[p].at # "idle" =>
    /\ cmd[p].base \in Configs /\ cmd[p].goal \in Configs
    /\ cmd[p].at = "planned" \/ cmd[p].keep => cmd[p].op \in Offline

Serves(config) == config.backend = disk.config.backend /\ config.pin.schema = 2

OnlineKeepsBackend ==
  \A p \in Procs : Working(p) /\ cmd[p].op \notin Offline =>
    Serves(disk.config) /\ Serves(cmd[p].base) /\ Serves(cmd[p].goal)

\* Until the operator has made sure of a rename, both guards are held by the
\* command that made it and will keep them, or are left behind.
Kept(p) == Working(p) /\ cmd[p].op \in Offline /\ cmd[p].keep /\ cmd[p].todo = <<>>
UnsureIsGuarded ==
  unsure => \/ guard = "stale" /\ socket = "stale"
            \/ \E p \in Procs : Kept(p)

IInv ==
  /\ Shape /\ GuardNamesHolder /\ SocketNamesHolder
  /\ ConfigsKnown /\ OnlineKeepsBackend /\ UnsureIsGuarded
  /\ DaemonIsCurrent

-----------------------------------------------------------------------------
(* The data.                                                               *)

LEMMA LegacyMigrates ==
  ASSUME ConstantsOK
  PROVE  Legacy \in Profiles /\ \A c \in Profiles : Migrated(c) \in Profiles
BY DEF ConstantsOK, Legacy, Profiles, Reviewed, Profile, Migrated

LEMMA InitIsGood == ASSUME ConstantsOK, Init PROVE IInv
<1>1. Legacy \in Profiles /\ Migrated(Legacy) \in Profiles
  BY LegacyMigrates
<1>2. disk \in DiskShape
  BY <1>1 DEF Init, DiskShape, Configs, Places, Pins, Aliases, NoProof
<1>3. cmd \in [Procs -> CmdShape]
  <2>1. Idle \in CmdShape
    BY DEF Idle, CmdShape, Ops, Aliases
  <2> QED  BY <2>1 DEF Init
<1>4. daemon \in [at : {"off", "starting", "up"}, config : Configs \cup {NoConfig}]
  BY DEF Init
<1>5. \A p \in Procs : cmd[p].at = "idle"
  <2>1. cmd = [p \in Procs |-> Idle]
    BY DEF Init
  <2>2. Idle.at = "idle"
    BY DEF Idle
  <2> QED  BY <2>1, <2>2
<1>6. GuardNamesHolder /\ SocketNamesHolder
  BY <1>5 DEF Init, GuardNamesHolder, SocketNamesHolder, Working, ConstantsOK
<1>7. ConfigsKnown /\ OnlineKeepsBackend
  BY <1>5 DEF ConfigsKnown, OnlineKeepsBackend, Working
<1>8. UnsureIsGuarded /\ DaemonIsCurrent
  BY DEF Init, UnsureIsGuarded, DaemonIsCurrent
<1> QED
  BY <1>2, <1>3, <1>4, <1>6, <1>7, <1>8 DEF Init, IInv, Shape

-----------------------------------------------------------------------------
(* What a step of a working command does.                                  *)

SameTask(c, d) ==
  /\ d.at = c.at /\ d.op = c.op /\ d.base = c.base /\ d.goal = c.goal
  /\ d.keyed = c.keyed /\ d.alias = c.alias /\ d.approved = c.approved
  /\ d.keep => c.keep \/ c.op \in Offline

LEMMA ThrownKeepsTask ==
  ASSUME NEW c \in CmdShape, NEW s \in StepNames, NEW effect \in BOOLEAN,
         c.todo # <<>>
  PROVE  /\ Thrown(c, s, effect) \in CmdShape /\ SameTask(c, Thrown(c, s, effect))
         /\ c.op \in Offline /\ Renames(s) /\ effect =>
              Thrown(c, s, effect).keep /\ Thrown(c, s, effect).todo = <<>>
<1>0. c.todo \in Seq(StepNames) /\ Tail(c.todo) \in Seq(StepNames) /\ <<>> \in Seq(StepNames)
  BY DEF CmdShape
<1>1. Fail(c) \in CmdShape /\ SameTask(c, Fail(c)) /\ Fail(c).todo = <<>>
  BY <1>0 DEF Fail, CmdShape, SameTask
<1>2. ASSUME NEW steps \in Seq(StepNames)
      PROVE  Compensate(c, steps) \in CmdShape /\ SameTask(c, Compensate(c, steps))
  BY DEF Compensate, CmdShape, SameTask
<1>3. /\ <<"inspect">> \o Unfile \in Seq(StepNames)
      /\ <<"uncommit", "reverify">> \o Unfile \in Seq(StepNames)
      /\ <<"uncommit", "reverify">> \in Seq(StepNames)
  BY DEF Unfile, StepNames
<1>4. ASSUME NEW f \in BOOLEAN, c.op \in Offline
      PROVE  LET d == [Fail(c) EXCEPT !.keep = f] IN
             d \in CmdShape /\ SameTask(c, d) /\ d.keep = f /\ d.todo = <<>>
  BY <1>1, <1>4 DEF CmdShape, SameTask
<1>10. LET d == [Fail(c) EXCEPT !.blame = TRUE] IN
       d \in CmdShape /\ SameTask(c, d)
  BY <1>1 DEF CmdShape, SameTask
<1>9. ASSUME NEW f \in BOOLEAN
      PROVE  LET d == [c EXCEPT !.blame = f, !.todo = Tail(@)] IN
             d \in CmdShape /\ SameTask(c, d)
  BY <1>0 DEF CmdShape, SameTask
<1>8. ASSUME NEW f \in BOOLEAN, NEW g \in BOOLEAN, c.op \in Offline
      PROVE  LET d == [Fail(c) EXCEPT !.blame = f, !.keep = g] IN
             d \in CmdShape /\ SameTask(c, d) /\ d.keep = g /\ d.todo = <<>>
  BY <1>1, <1>8 DEF CmdShape, SameTask
<1>5. CASE c.back
  <2>1. Thrown(c, s, effect) = Skip(c, s, effect)
    BY <1>5 DEF Thrown
  <2> DEFINE f == ~effect \/ s = "reverify"
  <2>2. CASE c.op \in Offline
    <3>1. Skip(c, s, effect) = [Fail(c) EXCEPT !.blame = f, !.keep = effect]
      BY <2>2 DEF Skip, Keeps
    <3>2. f \in BOOLEAN
      OBVIOUS
    <3> HIDE DEF f
    <3> DEFINE d == [Fail(c) EXCEPT !.blame = f, !.keep = effect]
    <3>3. d \in CmdShape /\ SameTask(c, d) /\ d.keep = effect /\ d.todo = <<>>
      BY <2>2, <3>2, <1>8
    <3> HIDE DEF d
    <3> QED  BY <2>1, <2>2, <3>1, <3>3 DEF d
  <2>3. CASE c.op \notin Offline /\ s \in {"uncommit", "reverify", "inspect"}
    <3>1. Skip(c, s, effect) = [Fail(c) EXCEPT !.blame = TRUE]
      BY <2>3 DEF Skip
    <3> QED  BY <2>1, <2>3, <3>1, <1>10
  <2>4. CASE c.op \notin Offline /\ s \notin {"uncommit", "reverify", "inspect"}
    <3>1. Skip(c, s, effect) = [c EXCEPT !.blame = TRUE, !.todo = Tail(@)]
      BY <2>4 DEF Skip
    <3> QED  BY <2>1, <2>4, <3>1, <1>9
  <2> QED  BY <2>2, <2>3, <2>4
<1>6. CASE ~c.back /\ c.op \in Offline
  <2>1. Thrown(c, s, effect) = CatchOffline(c, s, effect)
    BY <1>6 DEF Thrown
  <2>2. CASE s = "verify"
    BY <2>1, <2>2, <1>2, <1>3 DEF CatchOffline, Renames
  <2>3. CASE s # "verify"
    <3>1. CatchOffline(c, s, effect) = [Fail(c) EXCEPT !.keep = effect]
      BY <2>3 DEF CatchOffline, Keeps
    <3> QED  BY <1>6, <2>1, <3>1, <1>4
  <2> QED  BY <2>2, <2>3
<1>7. CASE ~c.back /\ c.op \notin Offline
  <2>1. Thrown(c, s, effect) = CatchLocked(c, s)
    BY <1>7 DEF Thrown
  <2> QED  BY <2>1, <1>1, <1>2, <1>3, <1>7 DEF CatchLocked
<1> QED  BY <1>5, <1>6, <1>7 DEF CmdShape

StepShape(p) ==
  /\ Working(p) /\ cmd[p].todo # <<>>
  /\ UNCHANGED <<guard, socket, daemon>>
  /\ disk' \in DiskShape /\ disk'.config \in {disk.config, cmd[p].base, cmd[p].goal}
  /\ unsure' \in BOOLEAN
  /\ \E c \in CmdShape :
       /\ SameTask(cmd[p], c)
       /\ cmd' = [cmd EXCEPT ![p] = c]
       /\ unsure' => unsure \/ (cmd[p].op \in Offline /\ c.keep /\ c.todo = <<>>)

LEMMA ReturnsHasShape ==
  ASSUME Shape, NEW p \in Procs, NEW s \in StepNames, At(p, s),
         NEW after \in DiskShape, Returns(p, after),
         after.config \in {disk.config, cmd[p].base, cmd[p].goal},
         UNCHANGED <<guard, socket, daemon>>
  PROVE  StepShape(p)
<1> DEFINE c == [cmd[p] EXCEPT !.todo = Tail(@)]
<1>1. cmd[p] \in CmdShape /\ cmd[p].todo # <<>> /\ Working(p)
  BY DEF Shape, At, Working
<1>2. cmd[p].todo \in Seq(StepNames) /\ Tail(cmd[p].todo) \in Seq(StepNames)
  BY <1>1 DEF CmdShape
<1>3. c \in CmdShape /\ SameTask(cmd[p], c)
  BY <1>1, <1>2 DEF CmdShape, SameTask
<1>4. cmd' = [cmd EXCEPT ![p] = c]
  BY DEF Returns
<1>5. disk' = after /\ unsure' = unsure /\ unsure \in BOOLEAN
  BY DEF Returns, Shape
<1> HIDE DEF c
<1> QED  BY <1>1, <1>3, <1>4, <1>5 DEF StepShape

LEMMA ThrowsHasShape ==
  ASSUME Shape, NEW p \in Procs, NEW s \in StepNames, At(p, s),
         NEW after \in DiskShape, Throws(p, s, after),
         after.config \in {disk.config, cmd[p].base, cmd[p].goal},
         UNCHANGED <<guard, socket, daemon>>
  PROVE  StepShape(p)
<1> DEFINE effect == after # disk
           c == Thrown(cmd[p], s, effect)
<1>1. cmd[p] \in CmdShape /\ cmd[p].todo # <<>> /\ Working(p)
  BY DEF Shape, At, Working
<1>2. effect \in BOOLEAN
  OBVIOUS
<1>3. /\ c \in CmdShape /\ SameTask(cmd[p], c)
      /\ cmd[p].op \in Offline /\ Renames(s) /\ effect => c.keep /\ c.todo = <<>>
  BY <1>1, <1>2, ThrownKeepsTask
<1>4. cmd' = [cmd EXCEPT ![p] = c]
  BY DEF Throws
<1>5. /\ disk' = after /\ unsure \in BOOLEAN
      /\ unsure' = (unsure \/ (Renames(s) /\ cmd[p].op \in Offline /\ effect))
  BY DEF Throws, Shape
<1> HIDE DEF effect, c
<1> QED  BY <1>1, <1>3, <1>4, <1>5 DEF StepShape

LEMMA RefusesHasShape ==
  ASSUME Shape, NEW p \in Procs, NEW s \in StepNames, Refuses(p, s)
  PROVE  StepShape(p)
<1> DEFINE c == Thrown(cmd[p], s, FALSE)
<1>1. cmd[p] \in CmdShape /\ cmd[p].todo # <<>> /\ Working(p)
  BY DEF Shape, Refuses, At, Working
<1>2. c \in CmdShape /\ SameTask(cmd[p], c)
  BY <1>1, ThrownKeepsTask
<1>3. cmd' = [cmd EXCEPT ![p] = c] /\ UNCHANGED <<disk, unsure, guard, socket, daemon>>
  BY DEF Refuses, Quiet
<1> HIDE DEF c
<1> QED  BY <1>1, <1>2, <1>3 DEF StepShape, Shape

LEMMA StepHasShape ==
  ASSUME Shape, NEW p \in Procs, NEW s \in StepNames, NEW after \in DiskShape,
         after.config \in {disk.config, cmd[p].base, cmd[p].goal},
         Step(p, s, after)
  PROVE  StepShape(p)
<1>1. At(p, s) /\ UNCHANGED <<guard, socket, daemon>>
  BY DEF Step, Quiet
<1>2. disk \in DiskShape
  BY DEF Shape
<1>3. CASE Returns(p, after)
  BY <1>1, <1>3, ReturnsHasShape
<1>4. CASE Throws(p, s, after)
  BY <1>1, <1>4, ThrowsHasShape
<1>5. CASE Throws(p, s, disk)
  BY <1>1, <1>2, <1>5, ThrowsHasShape
<1> QED  BY <1>3, <1>4, <1>5 DEF Step

LEMMA StepIfHasShape ==
  ASSUME Shape, NEW p \in Procs, NEW s \in StepNames, NEW after \in DiskShape,
         after.config \in {disk.config, cmd[p].base, cmd[p].goal},
         NEW holds \in BOOLEAN, StepIf(p, s, holds, after)
  PROVE  StepShape(p)
BY StepHasShape, RefusesHasShape DEF StepIf

LEMMA WorkingData ==
  ASSUME IInv, NEW p \in Procs, NEW s, At(p, s)
  PROVE  /\ Shape /\ Working(p)
         /\ cmd[p].base \in Configs /\ cmd[p].goal \in Configs
         /\ cmd[p].goal.path \in Places /\ cmd[p].goal.pin \in Profiles
         /\ PinOf(cmd[p].base) \in Pins
         /\ cmd[p].keyed \in 0..2 /\ cmd[p].alias \in Aliases
         /\ cmd[p].approved \in Nat
<1>1. Shape /\ Working(p) /\ cmd[p] \in CmdShape
  BY DEF IInv, Shape, At, Working
<1>2. cmd[p].base \in Configs /\ cmd[p].goal \in Configs
  BY <1>1 DEF IInv, ConfigsKnown, Working
<1>3. /\ cmd[p].goal.path \in Places /\ cmd[p].goal.pin \in Profiles
      /\ PinOf(cmd[p].base) \in Pins
  BY <1>2 DEF Configs, PinOf, Pins
<1> QED  BY <1>1, <1>2, <1>3 DEF CmdShape

\* Each update of the disk keeps its shape; none but the first writes a config.
DataOnly(d) == d \in DiskShape /\ d.config = disk.config

LEMMA DiskUpdates ==
  ASSUME disk \in DiskShape
  PROVE  /\ \A c \in Configs : LET d == [disk EXCEPT !.config = c] IN
                               d \in DiskShape /\ d.config = c
         /\ \A f \in Places : \A c \in Profiles \cup {Nothing, Damaged} :
              DataOnly([disk EXCEPT !.files[f] = c])
         /\ \A n \in 0..2 : \A c : DataOnly(WithKeyed(disk, c, n))
         /\ \A a \in Aliases : DataOnly([disk EXCEPT !.alias = a])
         /\ \A c \in Profiles : \A n \in 0..2 : DataOnly(WithAlias(disk, c, n))
         /\ \A c \in Profiles : DataOnly(Proven(disk, c))
<1>1. \A c \in Configs : LET d == [disk EXCEPT !.config = c] IN
                         d \in DiskShape /\ d.config = c
  BY DEF DiskShape
<1>2. \A f \in Places : \A c \in Profiles \cup {Nothing, Damaged} :
        DataOnly([disk EXCEPT !.files[f] = c])
  BY DEF DiskShape, DataOnly
<1>3. \A n \in 0..2 : \A c : DataOnly(WithKeyed(disk, c, n))
  BY DEF DiskShape, WithKeyed, DataOnly
<1>4. \A a \in Aliases : DataOnly([disk EXCEPT !.alias = a])
  BY DEF DiskShape, DataOnly
<1>5. \A c \in Profiles : \A n \in 0..2 : Proof(c, n) \in Aliases
  BY DEF Proof, Aliases
<1>6. \A c \in Profiles : \A n \in 0..2 : DataOnly(WithAlias(disk, c, n))
  BY <1>4, <1>5 DEF WithAlias
<1>7. ASSUME NEW c \in Profiles PROVE DataOnly(Proven(disk, c))
  <2> DEFINE n == NextProof(disk, c)
             mid == WithKeyed(disk, c, n)
  <2>1. n \in 0..2
    BY DEF NextProof
  <2>2. mid \in DiskShape /\ mid.config = disk.config
    BY <1>3, <2>1 DEF DataOnly
  <2>3. Proof(c, n) \in Aliases
    BY <2>1, <1>5
  <2>4. Proven(disk, c) = [mid EXCEPT !.alias = Proof(c, n)]
    BY DEF Proven, WithAlias
  <2> HIDE DEF n, mid
  <2> QED  BY <2>2, <2>3, <2>4 DEF DiskShape, DataOnly
<1> QED  BY <1>1, <1>2, <1>3, <1>4, <1>6, <1>7

LEMMA FailedKeepsTask ==
  ASSUME NEW c \in CmdShape, NEW f \in BOOLEAN
  PROVE  LET d == [Fail(c) EXCEPT !.blame = f] IN
         d \in CmdShape /\ SameTask(c, d)
<1>1. <<>> \in Seq(StepNames)
  OBVIOUS
<1>2. Fail(c) \in CmdShape /\ SameTask(c, Fail(c))
  BY <1>1 DEF Fail, CmdShape, SameTask
<1> QED  BY <1>2 DEF CmdShape, SameTask

LEMMA SavesHasShape ==
  ASSUME IInv, NEW p \in Procs, NEW s \in StepNames, NEW after,
         DataOnly(after), Saves(p, s, after)
  PROVE  StepShape(p)
<1> DEFINE pin == cmd[p].goal.pin
<1>1. At(p, s) /\ UNCHANGED <<guard, socket, daemon>>
  BY DEF Saves, Quiet
<1>2. /\ Shape /\ Working(p) /\ cmd[p].todo # <<>>
      /\ pin \in Profiles /\ cmd[p].keyed \in 0..2 /\ cmd[p].alias \in Aliases
  BY <1>1, WorkingData DEF At
<1>3. cmd[p] \in CmdShape /\ disk \in DiskShape /\ unsure \in BOOLEAN
  BY <1>2 DEF Shape
<1>4. CASE Returns(p, after)
  <2>1. after \in DiskShape /\ after.config \in {disk.config, cmd[p].base, cmd[p].goal}
    BY DEF DataOnly
  <2> QED  BY <1>1, <1>2, <1>4, <2>1, ReturnsHasShape
<1>5. CASE ProofFails(p, after)
  <2>1. PICK k \in {after.keyed[pin], cmd[p].keyed},
             a \in {after.alias, cmd[p].alias} :
          /\ disk' = [disk EXCEPT !.keyed[pin] = k, !.alias = a]
          /\ cmd' = [cmd EXCEPT ![p] = [Fail(cmd[p]) EXCEPT
                       !.blame = (k # cmd[p].keyed \/ a # cmd[p].alias)]]
    BY <1>5 DEF ProofFails
  <2>2. k \in 0..2 /\ a \in Aliases
    BY <1>2 DEF DataOnly, DiskShape
  <2>3. disk' \in DiskShape /\ disk'.config = disk.config
    BY <1>3, <2>1, <2>2 DEF DiskShape
  <2> DEFINE f == k # cmd[p].keyed \/ a # cmd[p].alias
             d == [Fail(cmd[p]) EXCEPT !.blame = f]
  <2>4. f \in BOOLEAN /\ cmd' = [cmd EXCEPT ![p] = d]
    BY <2>1
  <2> HIDE DEF f
  <2>5. d \in CmdShape /\ SameTask(cmd[p], d)
    BY <1>3, <2>4, FailedKeepsTask
  <2> HIDE DEF d
  <2>6. unsure' = unsure
    BY <1>5 DEF ProofFails
  <2> QED  BY <1>1, <1>2, <1>3, <2>3, <2>4, <2>5, <2>6 DEF StepShape
<1> QED  BY <1>4, <1>5 DEF Saves

LEMMA DataStepHasShape ==
  ASSUME IInv, NEW p \in Procs, NEW s \in StepNames, NEW after, DataOnly(after),
         Step(p, s, after)
  PROVE  StepShape(p)
BY StepHasShape DEF IInv, DataOnly

LEMMA InstallHasShape ==
  ASSUME IInv, NEW p \in Procs, Install(p)
  PROVE  StepShape(p) \/ (UNCHANGED <<guard, socket, daemon, cmd, unsure>>
                          /\ DataOnly(disk'))
<1> DEFINE goal == cmd[p].goal
           written == [disk EXCEPT !.files[goal.path] = goal.pin]
           gone == [disk EXCEPT !.files[goal.path] = Nothing]
<1>1. At(p, "install") /\ "install" \in StepNames
  BY DEF Install, StepNames
<1>2. Shape /\ disk \in DiskShape /\ goal.path \in Places /\ goal.pin \in Profiles
  BY <1>1, WorkingData DEF Shape
<1>3. DataOnly(written) /\ DataOnly(gone) /\ DataOnly(disk)
  BY <1>2, DiskUpdates DEF DataOnly
<1>4. ASSUME NEW after, DataOnly(after), UNCHANGED <<guard, socket, daemon>>,
             Returns(p, after) \/ Throws(p, "install", after)
      PROVE  StepShape(p)
  BY <1>1, <1>2, <1>4, ReturnsHasShape, ThrowsHasShape DEF DataOnly
<1>5. CASE Refuses(p, "install")
  BY <1>1, <1>2, <1>5, RefusesHasShape
<1>6. UNCHANGED <<guard, socket, daemon>>
  BY DEF Install, Quiet, Refuses
<1>7. \/ Returns(p, written) \/ Throws(p, "install", written)
      \/ Throws(p, "install", disk) \/ Throws(p, "install", gone)
      \/ disk' = gone /\ UNCHANGED <<cmd, unsure, budget>>
      \/ Refuses(p, "install")
  BY DEF Install
<1> HIDE DEF written, gone
<1> QED  BY <1>3, <1>4, <1>5, <1>6, <1>7

LEMMA StepsHaveShape ==
  ASSUME IInv, NEW p \in Procs, Steps(p)
  PROVE  StepShape(p) \/ (UNCHANGED <<guard, socket, daemon, cmd, unsure>>
                          /\ DataOnly(disk'))
<1> DEFINE c == cmd[p]
           pin == cmd[p].goal.pin
<1>0. Shape /\ disk \in DiskShape /\ DataOnly(disk)
  BY DEF IInv, Shape, DataOnly
<1>1. CASE Install(p)
  BY <1>1, InstallHasShape
<1>2. CASE CheckProfile(p) \/ Recheck(p) \/ Verify(p) \/ Reverify(p) \/ Inspect(p)
  <2>1. ASSUME NEW s \in StepNames, NEW holds \in BOOLEAN, StepIf(p, s, holds, disk)
        PROVE  StepShape(p)
    BY <1>0, <2>1, StepIfHasShape
  <2>2. {"check", "recheck", "verify", "reverify", "inspect"} \subseteq StepNames
    BY DEF StepNames
  <2>3. /\ Resolves(c.goal) \in BOOLEAN /\ CommitAllowed(c) \in BOOLEAN
        /\ Verified(c) \in BOOLEAN
    BY DEF Resolves, CommitAllowed, Verified
  <2> QED
    BY <1>2, <2>1, <2>2, <2>3 DEF CheckProfile, Recheck, Verify, Reverify, Inspect
<1>3. CASE SaveKeyed(p)
  <2>1. Saves(p, "key", WithKeyed(disk, pin, NextProof(disk, pin)))
    BY <1>3 DEF SaveKeyed
  <2>2. NextProof(disk, pin) \in 0..2 /\ "key" \in StepNames
    BY DEF NextProof, StepNames
  <2> QED  BY <1>0, <2>1, <2>2, DiskUpdates, SavesHasShape
<1>4. CASE SaveAlias(p)
  <2>1. Saves(p, "alias", WithAlias(disk, pin, disk.keyed[pin]))
    BY <1>4 DEF SaveAlias
  <2>2. At(p, "alias")
    BY <2>1 DEF Saves
  <2>3. pin \in Profiles /\ "alias" \in StepNames
    BY <2>2, WorkingData DEF StepNames
  <2>4. disk.keyed[pin] \in 0..2
    BY <1>0, <2>3 DEF DiskShape
  <2> QED  BY <1>0, <2>1, <2>3, <2>4, DiskUpdates, SavesHasShape
<1>5. CASE BackupConfig(p)
  <2> DEFINE after == [disk EXCEPT !.backups = @ \cup {PinOf(c.base)}]
  <2>1. Step(p, "backup", after) /\ "backup" \in StepNames
    BY <1>5 DEF BackupConfig, StepNames
  <2>2. PinOf(c.base) \in Pins
    BY <2>1, WorkingData DEF Step
  <2>3. DataOnly(after)
    BY <1>0, <2>2 DEF DataOnly, DiskShape
  <2> HIDE DEF after
  <2> QED  BY <2>1, <2>3, DataStepHasShape
<1>6. CASE Approve(p)
  <2> DEFINE after == [disk EXCEPT !.approvals[pin] = @ + 1]
  <2>1. Step(p, "approve", after) /\ "approve" \in StepNames
    BY <1>6 DEF Approve, StepNames
  <2>2. DataOnly(after)
    BY <1>0 DEF DataOnly, DiskShape
  <2> HIDE DEF after
  <2> QED  BY <2>1, <2>2, DataStepHasShape
<1>7. CASE Unapprove(p)
  <2> DEFINE after == [disk EXCEPT !.approvals[pin] = c.approved]
  <2>1. Step(p, "unapprove", after) /\ "unapprove" \in StepNames
    BY <1>7 DEF Unapprove, StepNames
  <2>2. c.approved \in Nat
    BY <2>1, WorkingData DEF Step
  <2>3. DataOnly(after)
    BY <1>0, <2>2 DEF DataOnly, DiskShape
  <2> HIDE DEF after
  <2> QED  BY <2>1, <2>3, DataStepHasShape
<1>8. CASE Stage(p)
  BY <1>0, <1>8, DataStepHasShape DEF Stage, StepNames
<1>9. CASE WriteReceipt(p)
  <2> DEFINE receipt == [source |-> c.base, target |-> c.goal]
             after == [disk EXCEPT !.receipts = @ \cup {receipt}]
  <2>1. Step(p, "receipt", after) /\ "receipt" \in StepNames
    BY <1>9 DEF WriteReceipt, StepNames
  <2>2. receipt \in [source : Configs, target : Configs]
    BY <2>1, WorkingData DEF Step
  <2> HIDE DEF receipt
  <2>3. DataOnly(after)
    BY <1>0, <2>2 DEF DataOnly, DiskShape
  <2> HIDE DEF after
  <2> QED  BY <2>1, <2>3, DataStepHasShape
<1>10. CASE QuarantineOld(p) \/ QuarantineNew(p) \/ QuarantineLast(p)
  <2>1. NoProof \in 0..2 /\ {"old", "new", "last"} \subseteq StepNames
    BY DEF NoProof, StepNames
  <2>2. Nothing \in Aliases
    BY DEF Aliases
  <2> QED
    BY <1>0, <1>10, <2>1, <2>2, DiskUpdates, DataStepHasShape
    DEF QuarantineOld, QuarantineNew, QuarantineLast
<1>11. CASE Unkey(p)
  <2>1. Step(p, "unkey", WithKeyed(disk, pin, c.keyed)) /\ "unkey" \in StepNames
    BY <1>11 DEF Unkey, StepNames
  <2>2. c.keyed \in 0..2
    BY <2>1, WorkingData DEF Step
  <2> QED  BY <1>0, <2>1, <2>2, DiskUpdates, DataStepHasShape
<1>12. CASE Unalias(p)
  <2>1. Step(p, "unalias", [disk EXCEPT !.alias = c.alias]) /\ "unalias" \in StepNames
    BY <1>12 DEF Unalias, StepNames
  <2>2. c.alias \in Aliases
    BY <2>1, WorkingData DEF Step
  <2> QED  BY <1>0, <2>1, <2>2, DiskUpdates, DataStepHasShape
<1>13. CASE Commit(p)
  <2> DEFINE after == [disk EXCEPT !.config = c.goal]
  <2>1. Step(p, "commit", after) /\ "commit" \in StepNames
    BY <1>13 DEF Commit, StepNames
  <2>2. c.goal \in Configs
    BY <2>1, WorkingData DEF Step
  <2>3. after \in DiskShape /\ after.config = c.goal
    BY <1>0, <2>2, DiskUpdates
  <2> HIDE DEF after
  <2> QED  BY <1>0, <2>1, <2>3, StepHasShape
<1>14. CASE Uncommit(p)
  <2> DEFINE after == [disk EXCEPT !.config = c.base]
             holds == disk.config \in {c.base, c.goal}
  <2>1. StepIf(p, "uncommit", holds, after) /\ "uncommit" \in StepNames
    BY <1>14 DEF Uncommit, StepNames
  <2>2. At(p, "uncommit")
    BY <2>1 DEF StepIf, Step, Refuses
  <2>3. c.base \in Configs
    BY <2>2, WorkingData
  <2>4. after \in DiskShape /\ after.config = c.base /\ holds \in BOOLEAN
    BY <1>0, <2>3, DiskUpdates
  <2> HIDE DEF after, holds
  <2> QED  BY <1>0, <2>1, <2>4, StepIfHasShape
<1> QED
  BY <1>1, <1>2, <1>3, <1>4, <1>5, <1>6, <1>7, <1>8, <1>9, <1>10, <1>11, <1>12,
     <1>13, <1>14 DEF Steps

-----------------------------------------------------------------------------
(* The steps of the working command keep the invariant.                    *)

\* The guards, the command lines and the live config are as they were.
OnlyFiles == UNCHANGED <<guard, socket, daemon, cmd, unsure>> /\ DataOnly(disk')

LEMMA FilesKeepIInv == ASSUME IInv, OnlyFiles PROVE IInv'
<1>1. /\ guard' = guard /\ socket' = socket /\ daemon' = daemon /\ cmd' = cmd
      /\ unsure' = unsure /\ disk' \in DiskShape /\ disk'.config = disk.config
  BY DEF OnlyFiles, DataOnly
<1>2. Shape'
  BY <1>1 DEF IInv, Shape
<1>3. GuardNamesHolder' /\ SocketNamesHolder' /\ ConfigsKnown'
  BY <1>1 DEF IInv, GuardNamesHolder, SocketNamesHolder, ConfigsKnown, Working
<1>4. OnlineKeepsBackend' /\ DaemonIsCurrent'
  BY <1>1 DEF IInv, OnlineKeepsBackend, DaemonIsCurrent, Serves, Working
<1>5. UnsureIsGuarded'
  BY <1>1 DEF IInv, UnsureIsGuarded, Kept, Working
<1> QED  BY <1>2, <1>3, <1>4, <1>5 DEF IInv

LEMMA OneWorks ==
  ASSUME IInv, NEW p \in Procs, Working(p), ConstantsOK
  PROVE  /\ guard = p /\ \A q \in Procs : Working(q) => q = p
         /\ daemon.at # "starting"
         /\ cmd[p].op \in Offline => daemon.at = "off"
         /\ cmd[p].todo # <<>> => ~unsure
<1>1. guard = p /\ \A q \in Procs : Working(q) => q = p
  BY DEF IInv, GuardNamesHolder
<1>2. p \notin {"free", "stale", "daemon", "none", "socket"}
  BY DEF ConstantsOK
<1>3. daemon.at # "starting"
  BY <1>1, <1>2 DEF IInv, GuardNamesHolder
<1>4. ASSUME cmd[p].op \in Offline PROVE daemon.at = "off"
  <2>1. socket = p
    BY <1>4 DEF IInv, SocketNamesHolder
  <2>2. daemon.at # "up"
    BY <2>1, <1>2 DEF IInv, SocketNamesHolder
  <2> QED  BY <2>2, <1>3 DEF IInv, Shape
<1>5. ASSUME cmd[p].todo # <<>>, unsure PROVE FALSE
  BY <1>1, <1>2, <1>5 DEF IInv, UnsureIsGuarded, Kept
<1> QED  BY <1>1, <1>3, <1>4, <1>5

LEMMA StepKeepsIInv ==
  ASSUME ConstantsOK, IInv, NEW p \in Procs, StepShape(p)
  PROVE  IInv'
<1>1. /\ Working(p) /\ cmd[p].todo # <<>>
      /\ guard' = guard /\ socket' = socket /\ daemon' = daemon
      /\ disk' \in DiskShape /\ unsure' \in BOOLEAN
      /\ disk'.config \in {disk.config, cmd[p].base, cmd[p].goal}
  BY DEF StepShape
<1>2. PICK c \in CmdShape :
        /\ SameTask(cmd[p], c)
        /\ cmd' = [cmd EXCEPT ![p] = c]
        /\ unsure' => unsure \/ (cmd[p].op \in Offline /\ c.keep /\ c.todo = <<>>)
  BY DEF StepShape
<1>3. /\ cmd \in [Procs -> CmdShape]
      /\ daemon \in [at : {"off", "starting", "up"}, config : Configs \cup {NoConfig}]
  BY DEF IInv, Shape
<1>4. /\ cmd'[p] = c /\ \A q \in Procs \ {p} : cmd'[q] = cmd[q]
      /\ \A q \in Procs : SameTask(cmd[q], cmd'[q])
  BY <1>2, <1>3 DEF SameTask
<1>5. /\ guard = p /\ \A q \in Procs : Working(q) => q = p
      /\ daemon.at # "starting" /\ ~unsure
      /\ cmd[p].op \in Offline => daemon.at = "off"
  BY <1>1, OneWorks
<1>6. Shape'
  BY <1>1, <1>2, <1>3 DEF Shape
<1>7. \A q \in Procs : Working(q)' <=> Working(q)
  BY <1>4 DEF Working, SameTask
<1>8. GuardNamesHolder' /\ SocketNamesHolder'
  BY <1>1, <1>4, <1>7 DEF IInv, GuardNamesHolder, SocketNamesHolder, SameTask
<1>9. ConfigsKnown'
  BY <1>4 DEF IInv, ConfigsKnown, SameTask
<1>10. ASSUME cmd[p].op \notin Offline
       PROVE  /\ Serves(disk.config) /\ Serves(cmd[p].base) /\ Serves(cmd[p].goal)
              /\ disk'.config.backend = disk.config.backend
              /\ disk'.config.pin.schema = 2
  <2>1. Serves(disk.config) /\ Serves(cmd[p].base) /\ Serves(cmd[p].goal)
    BY <1>1, <1>10 DEF IInv, OnlineKeepsBackend
  <2> QED  BY <1>1, <2>1 DEF Serves
<1>11. OnlineKeepsBackend'
  <2> SUFFICES ASSUME NEW q \in Procs, Working(q)', cmd'[q].op \notin Offline
               PROVE  /\ Serves(disk.config)' /\ Serves(cmd[q].base)'
                      /\ Serves(cmd[q].goal)'
    BY DEF OnlineKeepsBackend
  <2>1. q = p
    BY <1>5, <1>7
  <2>2. c.op \notin Offline /\ c.base = cmd[p].base /\ c.goal = cmd[p].goal /\ c.op = cmd[p].op
    BY <1>2, <1>4, <2>1 DEF SameTask
  <2> QED  BY <1>4, <1>10, <2>1, <2>2 DEF Serves
<1>12. UnsureIsGuarded'
  <2> SUFFICES ASSUME unsure' PROVE Kept(p)'
    BY DEF UnsureIsGuarded
  <2>1. cmd[p].op \in Offline /\ c.keep /\ c.todo = <<>> /\ c.op = cmd[p].op
    BY <1>2, <1>5 DEF SameTask
  <2> QED  BY <1>1, <1>4, <1>7, <2>1 DEF Kept
<1>13. DaemonIsCurrent'
  <2> SUFFICES ASSUME daemon.at # "off"
               PROVE  /\ daemon.config.backend = disk'.config.backend
                      /\ disk'.config.pin.schema = 2 /\ ~unsure'
    BY <1>1 DEF DaemonIsCurrent
  <2>1. cmd[p].op \notin Offline
    BY <1>5
  <2>2. daemon.config.backend = disk.config.backend
    BY DEF IInv, DaemonIsCurrent
  <2> QED  BY <1>2, <1>5, <1>10, <2>1, <2>2
<1> QED  BY <1>6, <1>8, <1>9, <1>11, <1>12, <1>13 DEF IInv

-----------------------------------------------------------------------------
(* The begin and the end of a command.                                     *)

LEMMA IdleHasShape == Idle \in CmdShape
BY DEF Idle, CmdShape, Ops, Aliases

LEMMA WorkHasShape ==
  ASSUME disk \in DiskShape, NEW op \in Ops, NEW goal \in Configs,
         NEW todo \in Seq(StepNames)
  PROVE  LET c == Work(op, goal, todo) IN
         /\ c \in CmdShape /\ c.at = "working" /\ c.op = op
         /\ c.base = disk.config /\ c.goal = goal /\ ~c.keep
<1> DEFINE approved == IF goal.pin \in Reviewed THEN disk.approvals[goal.pin] ELSE 0
           keyed == disk.keyed[goal.pin]
           alias == disk.alias
           config == disk.config
           c == [Idle EXCEPT !.at = "working", !.op = op, !.base = config,
                   !.goal = goal, !.todo = todo, !.keyed = keyed,
                   !.alias = alias, !.approved = approved]
<1>1. goal.pin \in Profiles
  BY DEF Configs
<1>2. /\ config \in Configs /\ keyed \in 0..2
      /\ alias \in Aliases /\ approved \in Nat
  BY <1>1 DEF DiskShape
<1>3. Work(op, goal, todo) = c
  BY DEF Work
<1> HIDE DEF approved, keyed, alias
<1>4. /\ c \in CmdShape /\ c.at = "working" /\ c.op = op
      /\ c.base = config /\ c.goal = goal /\ c.keep = Idle.keep
  <2> HIDE DEF config
  <2> QED  BY <1>2, IdleHasShape DEF CmdShape
<1> QED  BY <1>3, <1>4 DEF Idle

\* A command starts, alone, and not yet in the socket's place.
LEMMA LockedKeepsIInv ==
  ASSUME ConstantsOK, IInv, NEW p \in Procs,
         NEW op \in {"check", "activate", "restore"}, NEW goal \in Configs,
         NEW todo \in Seq(StepNames), Locked(p, op, goal, todo),
         goal.backend = disk.config.backend, goal.pin.schema = 2
  PROVE  IInv'
<1> DEFINE c == Work(op, goal, todo)
<1>1. /\ guard = "free" /\ guard' = p /\ disk.config.pin.schema = 2
      /\ cmd' = [cmd EXCEPT ![p] = c]
      /\ disk' = disk /\ socket' = socket /\ daemon' = daemon /\ unsure' = unsure
  BY DEF Locked, ContextLoads
<1>2. disk \in DiskShape /\ cmd \in [Procs -> CmdShape] /\ disk.config \in Configs
  BY DEF IInv, Shape, DiskShape
<1>3. /\ c \in CmdShape /\ c.at = "working" /\ c.op = op
      /\ c.base = disk.config /\ c.goal = goal /\ ~c.keep
  <2>1. op \in Ops
    BY DEF Ops
  <2> QED  BY <1>2, <2>1, WorkHasShape
<1> HIDE DEF c
<1>4. cmd'[p] = c /\ \A q \in Procs \ {p} : cmd'[q] = cmd[q]
  BY <1>1, <1>2
<1>5. p \notin {"free", "stale", "daemon"} /\ \A q \in Procs : ~Working(q)
  BY <1>1 DEF ConstantsOK, IInv, GuardNamesHolder
<1>6. Shape'
  BY <1>1, <1>2, <1>3 DEF IInv, Shape
<1>7. \A q \in Procs : Working(q)' <=> q = p
  BY <1>3, <1>4, <1>5 DEF Working
<1>8. GuardNamesHolder'
  BY <1>1, <1>5, <1>7 DEF IInv, GuardNamesHolder
<1>9. SocketNamesHolder' /\ ConfigsKnown' /\ OnlineKeepsBackend'
  <2>1. op \notin Offline
    BY DEF Offline
  <2>2. SocketNamesHolder'
    BY <1>1, <1>3, <1>4, <1>7, <2>1 DEF IInv, SocketNamesHolder
  <2>3. ConfigsKnown'
    BY <1>2, <1>3, <1>4 DEF IInv, ConfigsKnown
  <2>4. OnlineKeepsBackend'
    BY <1>1, <1>3, <1>4, <1>7 DEF OnlineKeepsBackend, Serves
  <2> QED  BY <2>2, <2>3, <2>4
<1>10. UnsureIsGuarded' /\ DaemonIsCurrent'
  <2>1. ~unsure
    BY <1>1, <1>5 DEF IInv, UnsureIsGuarded, Kept
  <2> QED  BY <1>1, <2>1 DEF IInv, UnsureIsGuarded, DaemonIsCurrent
<1> QED  BY <1>6, <1>8, <1>9, <1>10 DEF IInv

LEMMA PlanKeepsIInv ==
  ASSUME IInv, NEW p \in Procs, NEW op \in Offline, NEW goal \in Configs,
         Plan(p, op, goal)
  PROVE  IInv'
<1> DEFINE c == [Idle EXCEPT !.at = "planned", !.op = op, !.base = disk.config,
                             !.goal = goal]
<1>1. /\ cmd[p].at = "idle" /\ cmd' = [cmd EXCEPT ![p] = c]
      /\ disk' = disk /\ guard' = guard /\ socket' = socket /\ daemon' = daemon
      /\ unsure' = unsure
  BY DEF Plan
<1>2. disk \in DiskShape /\ cmd \in [Procs -> CmdShape] /\ disk.config \in Configs
  BY DEF IInv, Shape, DiskShape
<1>4. /\ c \in CmdShape /\ c.at = "planned" /\ c.op = op
      /\ c.base = disk.config /\ c.goal = goal
  <2>1. op \in Ops
    BY DEF Ops
  <2> QED  BY <1>2, <2>1, IdleHasShape DEF CmdShape
<1> HIDE DEF c
<1>5. cmd'[p] = c /\ \A q \in Procs \ {p} : cmd'[q] = cmd[q]
  BY <1>1, <1>2
<1>6. Shape'
  BY <1>1, <1>2, <1>4 DEF IInv, Shape
<1>7. \A q \in Procs : (Working(q)' <=> Working(q)) /\ (Working(q) => cmd'[q] = cmd[q])
  BY <1>1, <1>4, <1>5 DEF Working
<1>8. GuardNamesHolder' /\ SocketNamesHolder'
  BY <1>1, <1>7 DEF IInv, GuardNamesHolder, SocketNamesHolder
<1>9. ConfigsKnown'
  BY <1>2, <1>4, <1>5 DEF IInv, ConfigsKnown
<1>10. OnlineKeepsBackend' /\ DaemonIsCurrent'
  BY <1>1, <1>7 DEF IInv, OnlineKeepsBackend, DaemonIsCurrent, Serves
<1>11. UnsureIsGuarded'
  BY <1>1, <1>7 DEF IInv, UnsureIsGuarded, Kept
<1> QED  BY <1>6, <1>8, <1>9, <1>10, <1>11 DEF IInv

LEMMA PlannedWorkHasShape ==
  ASSUME disk \in DiskShape, NEW c \in CmdShape, c.op \in Offline,
         c.base \in Configs, c.goal \in Configs
  PROVE  LET w == PlannedWork(c) IN
         /\ w \in CmdShape /\ w.at = "working" /\ w.op = c.op
         /\ w.base = disk.config /\ w.goal \in Configs
<1>1. /\ Quarantine \in Seq(StepNames) /\ <<>> \in Seq(StepNames)
      /\ <<"recheck", "commit">> \in Seq(StepNames)
      /\ <<"recheck", "commit", "verify">> \in Seq(StepNames)
      /\ <<"install", "receipt">> \in Seq(StepNames)
      /\ <<"install">> \in Seq(StepNames) /\ <<"check">> \in Seq(StepNames)
      /\ <<"verify">> \in Seq(StepNames)
  BY DEF Quarantine, StepNames
<1>2. \A s, t \in Seq(StepNames) : s \o t \in Seq(StepNames)
  OBVIOUS
<1>3. c.op \in Ops
  BY DEF Ops
<1>4. CASE c.op = "migrate"
  <2> DEFINE todo == <<"install", "receipt">> \o Quarantine \o <<"recheck", "commit", "verify">>
  <2>1. todo \in Seq(StepNames)
    BY <1>1, <1>2
  <2>2. PlannedWork(c) = Work("migrate", c.goal, todo)
    BY <1>4 DEF PlannedWork
  <2> HIDE DEF todo
  <2> QED  BY <1>3, <1>4, <2>1, <2>2, WorkHasShape
<1>5. CASE c.op = "switch"
  <2> DEFINE todo == IF c.goal = c.base THEN <<>> ELSE <<"recheck", "commit", "verify">>
  <2>1. todo \in Seq(StepNames)
    BY <1>1
  <2>2. PlannedWork(c) = Work("switch", c.goal, todo)
    BY <1>5 DEF PlannedWork
  <2> HIDE DEF todo
  <2> QED  BY <1>3, <1>5, <2>1, <2>2, WorkHasShape
<1>6. CASE c.op = "unmigrate"
  <2> DEFINE source == c.goal
             goal == IF c.base = Fallback(source) THEN c.base
                     ELSE IF Resolves(source) THEN source ELSE Fallback(source)
             undone == c.base \in {source, Fallback(source)} /\ Resolves(c.base)
             repair == goal = Fallback(source) /\ ~undone
             middle == <<IF repair THEN "install" ELSE "check">>
             last == IF goal = c.base THEN <<>> ELSE <<"recheck", "commit">>
             todo == IF undone /\ ~AnyProof(source.pin) THEN <<>>
                     ELSE Quarantine \o middle \o last \o <<"verify">>
  <2>1. Fallback(source) \in Configs
    BY DEF Fallback, Configs, Places
  <2>2. goal \in Configs
    BY <2>1
  <2>3. PlannedWork(c) = Work("unmigrate", goal, todo)
    BY <1>6 DEF PlannedWork, UnmigrateWork
  <2> HIDE DEF goal, undone, repair
  <2>4. middle \in Seq(StepNames) /\ last \in Seq(StepNames)
    BY <1>1
  <2> HIDE DEF middle, last
  <2>5. todo \in Seq(StepNames)
    BY <1>1, <1>2, <2>4
  <2> HIDE DEF todo
  <2> QED  BY <1>3, <1>6, <2>2, <2>3, <2>5, WorkHasShape
<1> QED  BY <1>4, <1>5, <1>6 DEF Offline

\* Both guards were free, so no daemon serves while an offline command works.
LEMMA EnterKeepsIInv ==
  ASSUME ConstantsOK, IInv, NEW p \in Procs, Enter(p)
  PROVE  IInv'
<1> DEFINE c == PlannedWork(cmd[p])
<1>1. /\ cmd[p].at = "planned" /\ guard = "free" /\ socket = "none"
      /\ disk.config = cmd[p].base /\ guard' = p /\ socket' = p
      /\ cmd' = [cmd EXCEPT ![p] = c]
      /\ disk' = disk /\ daemon' = daemon /\ unsure' = unsure
  BY DEF Enter, GuardFree
<1>2. disk \in DiskShape /\ cmd \in [Procs -> CmdShape] /\ disk.config \in Configs
  BY DEF IInv, Shape, DiskShape
<1>3. cmd[p].op \in Offline /\ cmd[p].base \in Configs /\ cmd[p].goal \in Configs
  BY <1>1 DEF IInv, ConfigsKnown
<1>4. /\ c \in CmdShape /\ c.at = "working" /\ c.op \in Offline
      /\ c.base \in Configs /\ c.goal \in Configs
  BY <1>2, <1>3, PlannedWorkHasShape
<1> HIDE DEF c
<1>5. cmd'[p] = c /\ \A q \in Procs \ {p} : cmd'[q] = cmd[q]
  BY <1>1, <1>2
<1>6. /\ p \notin {"free", "stale", "daemon", "none", "socket"}
      /\ \A q \in Procs : ~Working(q)
  BY <1>1 DEF ConstantsOK, IInv, GuardNamesHolder
<1>7. daemon.at = "off" /\ ~unsure
  BY <1>1, <1>6 DEF IInv, Shape, GuardNamesHolder, SocketNamesHolder, UnsureIsGuarded, Kept
<1>8. Shape'
  BY <1>1, <1>2, <1>4 DEF IInv, Shape
<1>9. \A q \in Procs : Working(q)' <=> q = p
  BY <1>4, <1>5, <1>6 DEF Working
<1>10. GuardNamesHolder' /\ SocketNamesHolder'
  BY <1>1, <1>6, <1>7, <1>9 DEF GuardNamesHolder, SocketNamesHolder
<1>11. ConfigsKnown' /\ OnlineKeepsBackend'
  BY <1>4, <1>5, <1>9 DEF IInv, ConfigsKnown, OnlineKeepsBackend
<1>12. UnsureIsGuarded' /\ DaemonIsCurrent'
  BY <1>1, <1>7 DEF UnsureIsGuarded, DaemonIsCurrent
<1> QED  BY <1>8, <1>10, <1>11, <1>12 DEF IInv

\* A command line is idle again: the guards are as it leaves them.
LEMMA IdleKeepsIInv ==
  ASSUME ConstantsOK, IInv, NEW p \in Procs, cmd' = [cmd EXCEPT ![p] = Idle],
         UNCHANGED <<disk, daemon, unsure>>,
         Working(p) => guard' \in {"free", "stale"},
         ~Working(p) => guard' = guard,
         \/ socket' = socket
         \/ socket = p /\ socket' \in {"none", "stale"},
         Kept(p) => guard' = "stale" /\ socket' = "stale"
  PROVE  IInv'
<1>1. disk' = disk /\ daemon' = daemon /\ unsure' = unsure
  OBVIOUS
<1>2. cmd \in [Procs -> CmdShape]
  BY DEF IInv, Shape
<1>3. cmd'[p] = Idle /\ (\A q \in Procs \ {p} : cmd'[q] = cmd[q]) /\ Idle.at = "idle"
  BY <1>2 DEF Idle
<1>4. p \notin {"free", "stale", "daemon", "none", "socket"}
  BY DEF ConstantsOK
<1>5. Shape'
  BY <1>1, <1>2, IdleHasShape DEF IInv, Shape
<1>6. \A q \in Procs : Working(q)' <=> q # p /\ Working(q)
  BY <1>3 DEF Working
<1>7. Working(p) => \A q \in Procs : Working(q) => q = p
  BY DEF IInv, GuardNamesHolder
<1>8. GuardNamesHolder'
  <2>1. CASE Working(p)
    <3>1. daemon.at # "starting"
      BY <2>1, <1>4 DEF IInv, GuardNamesHolder
    <3>2. \A q \in Procs : q \notin {"free", "stale"}
      BY DEF ConstantsOK
    <3> QED  BY <1>1, <1>6, <1>7, <2>1, <3>1, <3>2 DEF GuardNamesHolder
  <2>2. CASE ~Working(p)
    BY <1>1, <1>6, <2>2 DEF IInv, GuardNamesHolder
  <2> QED  BY <2>1, <2>2
<1>9. SocketNamesHolder'
  <2>1. daemon.at = "up" => socket' = "socket"
    BY <1>4 DEF IInv, SocketNamesHolder
  <2>2. ASSUME NEW q \in Procs, Working(q)', cmd'[q].op \in Offline
        PROVE  socket' = q
    <3>1. q # p /\ Working(q) /\ cmd'[q] = cmd[q] /\ ~Working(p)
      BY <1>3, <1>6, <1>7, <2>2
    <3>2. socket = q
      BY <3>1, <2>2 DEF IInv, SocketNamesHolder
    <3> QED  BY <3>1, <3>2
  <2> QED  BY <1>1, <2>1, <2>2 DEF SocketNamesHolder
<1>10. ConfigsKnown'
  BY <1>3 DEF IInv, ConfigsKnown
<1>11. OnlineKeepsBackend' /\ DaemonIsCurrent'
  <2>1. \A q \in Procs : Working(q)' => Working(q) /\ cmd'[q] = cmd[q]
    BY <1>3, <1>6
  <2> QED  BY <1>1, <2>1 DEF IInv, OnlineKeepsBackend, DaemonIsCurrent, Serves
<1>12. UnsureIsGuarded'
  <2> SUFFICES ASSUME unsure
               PROVE  \/ guard' = "stale" /\ socket' = "stale"
                      \/ \E q \in Procs : Kept(q)'
    BY <1>1 DEF UnsureIsGuarded
  <2>1. CASE guard = "stale" /\ socket = "stale"
    <3>1. ~Working(p) /\ socket # p
      BY <1>4, <2>1 DEF IInv, GuardNamesHolder
    <3> QED  BY <2>1, <3>1
  <2>2. ASSUME NEW q \in Procs, Kept(q), q # p
        PROVE  Kept(q)'
    BY <1>3, <1>6, <2>2 DEF Kept
  <2>3. CASE \E q \in Procs : Kept(q)
    BY <2>2, <2>3
  <2> QED  BY <2>1, <2>3 DEF IInv, UnsureIsGuarded
<1> QED  BY <1>5, <1>8, <1>9, <1>10, <1>11, <1>12 DEF IInv

LEMMA CommandsKeepIInv ==
  ASSUME ConstantsOK, IInv, NEW p \in Procs, Commands(p)
  PROVE  IInv'
<1>0. disk \in DiskShape /\ disk.config \in Configs
  BY DEF IInv, Shape, DiskShape
<1>1. CASE Check(p)
  <2>1. Locked(p, "check", disk.config, <<"key", "alias">>)
    BY <1>1 DEF Check
  <2>2. disk.config.pin.schema = 2
    BY <2>1 DEF Locked, ContextLoads
  <2>3. <<"key", "alias">> \in Seq(StepNames)
    BY DEF StepNames
  <2> QED  BY <1>0, <2>1, <2>2, <2>3, LockedKeepsIInv
<1>2. ASSUME NEW c \in Reviewed, Activate(p, c) PROVE IInv'
  <2> DEFINE goal == [disk.config EXCEPT !.path = c.id, !.pin = c]
             todo == <<"install", "backup", "key", "alias", "approve", "stage",
                       "recheck", "commit", "verify">>
  <2>1. Locked(p, "activate", goal, todo)
    BY <1>2 DEF Activate
  <2>2. c \in Profiles /\ c.id \in Places /\ c.schema = 2
    BY DEF Reviewed, Profiles, Places, Profile
  <2>3. goal \in Configs /\ goal.backend = disk.config.backend /\ goal.pin.schema = 2
    BY <1>0, <2>2 DEF Configs
  <2>4. todo \in Seq(StepNames)
    BY DEF StepNames
  <2> HIDE DEF goal, todo
  <2> QED  BY <2>1, <2>3, <2>4, LockedKeepsIInv
<1>3. ASSUME NEW t \in disk.backups, Restore(p, t) PROVE IInv'
  <2> DEFINE goal == [disk.config EXCEPT !.path = t.path, !.pin = t.pin]
             todo == <<"backup", "stage", "recheck", "commit", "verify">>
  <2>1. Locked(p, "restore", goal, todo) /\ t.pin.schema = 2
    BY <1>3 DEF Restore
  <2>2. t \in Pins
    BY <1>0 DEF DiskShape
  <2>3. goal \in Configs /\ goal.backend = disk.config.backend /\ goal.pin.schema = 2
    BY <1>0, <2>1, <2>2 DEF Configs, Pins
  <2>4. todo \in Seq(StepNames)
    BY DEF StepNames
  <2> HIDE DEF goal, todo
  <2> QED  BY <2>1, <2>3, <2>4, LockedKeepsIInv
<1>4. CASE PlanMigrate(p)
  <2> DEFINE goal == [disk.config EXCEPT !.path = "target", !.pin = Migrated(@)]
  <2>1. Plan(p, "migrate", goal) /\ "migrate" \in Offline
    BY <1>4 DEF PlanMigrate, Offline
  <2>2. disk.config.pin \in Profiles
    BY <1>0 DEF Configs
  <2>3. Migrated(disk.config.pin) \in Profiles
    BY <2>2, LegacyMigrates
  <2>4. goal \in Configs
    BY <1>0, <2>3 DEF Configs, Places
  <2> HIDE DEF goal
  <2> QED  BY <2>1, <2>4, PlanKeepsIInv
<1>5. ASSUME NEW r \in disk.receipts, PlanUnmigrate(p, r) PROVE IInv'
  <2>1. r.source \in Configs
    BY <1>0 DEF DiskShape
  <2>2. Plan(p, "unmigrate", r.source) /\ "unmigrate" \in Offline
    BY <1>5 DEF PlanUnmigrate, Offline
  <2> QED  BY <2>1, <2>2, PlanKeepsIInv
<1>6. ASSUME NEW b \in Backends, PlanSwitch(p, b) PROVE IInv'
  <2>1. [disk.config EXCEPT !.backend = b] \in Configs
    BY <1>0 DEF Configs
  <2> QED  BY <1>6, <2>1, PlanKeepsIInv DEF PlanSwitch, Offline
<1>7. CASE Refuse(p)
  <2>1. /\ cmd' = [cmd EXCEPT ![p] = Idle] /\ ~Working(p)
        /\ guard' = guard /\ socket' = socket /\ UNCHANGED <<disk, daemon, unsure>>
    BY <1>7 DEF Refuse, Working
  <2> QED  BY <2>1, IdleKeepsIInv DEF Kept
<1> QED
  BY <1>1, <1>2, <1>3, <1>4, <1>5, <1>6, <1>7, EnterKeepsIInv DEF Commands

LEMMA EndsKeepIInv ==
  ASSUME ConstantsOK, IInv, NEW p \in Procs, Leave(p) \/ Crash(p)
  PROVE  IInv'
<1>1. Working(p) /\ cmd' = [cmd EXCEPT ![p] = Idle] /\ UNCHANGED <<disk, daemon, unsure>>
  BY DEF Leave, Over, Crash, Working
<1>2. guard' \in {"free", "stale"}
  BY DEF Leave, Crash
<1>3. cmd[p].keep => socket = p
  BY <1>1 DEF IInv, ConfigsKnown, SocketNamesHolder, Working
<1>4. \/ socket' = socket
      \/ socket = p /\ socket' \in {"none", "stale"}
  BY <1>3 DEF Leave, Crash
<1>5. Kept(p) => guard' = "stale" /\ socket' = "stale"
  BY <1>3 DEF Kept, Leave, Crash
<1> QED  BY <1>1, <1>2, <1>4, <1>5, IdleKeepsIInv

-----------------------------------------------------------------------------
(* The daemon, the operator and damage keep the invariant.                 *)

LEMMA DaemonKeepsIInv ==
  ASSUME ConstantsOK, IInv,
         ServeLoads \/ ServeBinds \/ DaemonRechecks \/ DaemonStops \/ DaemonDies
  PROVE  IInv'
<1>1. /\ disk \in DiskShape /\ disk.config \in Configs /\ DataOnly(disk)
      /\ cmd \in [Procs -> CmdShape] /\ unsure \in BOOLEAN
      /\ daemon \in [at : {"off", "starting", "up"}, config : Configs \cup {NoConfig}]
  BY DEF IInv, Shape, DiskShape, DataOnly
<1>2. \A p \in Procs : p \notin {"free", "stale", "daemon", "none", "socket"}
  BY DEF ConstantsOK
<1>3. \A c \in Configs \cup {NoConfig} : c.pin \in Profiles
  BY LegacyMigrates DEF Configs, NoConfig
<1>4. CASE DaemonRechecks
  <2>1. disk' = Proven(disk, daemon.config.pin) /\ daemon.config.pin \in Profiles
    BY <1>1, <1>3, <1>4 DEF DaemonRechecks
  <2>2. DataOnly(disk')
    BY <1>1, <2>1, DiskUpdates
  <2> QED  BY <1>4, <2>2, FilesKeepIInv DEF OnlyFiles, DaemonRechecks
<1>5. CASE ServeLoads
  <2>1. /\ daemon.at = "off" /\ guard = "free" /\ disk.config.pin.schema = 2
        /\ guard' = "daemon" /\ daemon' = [at |-> "starting", config |-> disk.config]
        /\ socket' = socket /\ cmd' = cmd /\ unsure' = unsure
    BY <1>5 DEF ServeLoads, GuardFree, ContextLoads
  <2>2. DataOnly(Proven(disk, disk.config.pin))
    BY <1>1, <1>3, DiskUpdates
  <2>3. DataOnly(disk')
    BY <1>1, <1>5, <2>2 DEF ServeLoads
  <2>4. ~unsure /\ \A p \in Procs : ~Working(p)
    BY <1>2, <2>1 DEF IInv, GuardNamesHolder, UnsureIsGuarded, Kept
  <2>5. Shape'
    BY <1>1, <2>1, <2>3 DEF Shape, DataOnly
  <2>6. \A p \in Procs : ~Working(p)'
    BY <2>1, <2>4 DEF Working
  <2>7. GuardNamesHolder' /\ SocketNamesHolder'
    BY <1>2, <2>1, <2>6 DEF GuardNamesHolder, SocketNamesHolder
  <2>8. ConfigsKnown'
    BY <2>1 DEF IInv, ConfigsKnown
  <2>9. OnlineKeepsBackend' /\ UnsureIsGuarded' /\ DaemonIsCurrent'
    BY <2>1, <2>3, <2>4, <2>6 DEF OnlineKeepsBackend, UnsureIsGuarded, DaemonIsCurrent, DataOnly
  <2> QED  BY <2>5, <2>7, <2>8, <2>9 DEF IInv
<1>6. CASE ServeBinds
  <2>1. /\ daemon.at = "starting" /\ guard = "daemon" /\ guard' = "free"
        /\ disk' = disk /\ cmd' = cmd /\ unsure' = unsure
    BY <1>6 DEF ServeBinds, IInv, GuardNamesHolder
  <2>2. ~unsure /\ \A p \in Procs : ~Working(p)
    BY <1>2, <2>1 DEF IInv, GuardNamesHolder, UnsureIsGuarded, Kept
  <2>3. \/ socket' = "socket" /\ daemon' = [daemon EXCEPT !.at = "up"]
        \/ daemon' = [at |-> "off", config |-> NoConfig]
    BY <1>6 DEF ServeBinds
  <2>4. /\ daemon' \in [at : {"off", "starting", "up"}, config : Configs \cup {NoConfig}]
        /\ daemon'.at # "starting" /\ (daemon'.at = "up" => socket' = "socket")
        /\ daemon'.at = "up" => daemon'.config = daemon.config
    BY <1>1, <2>3
  <2>5. Shape'
    BY <1>1, <2>1, <2>4 DEF Shape
  <2>6. \A p \in Procs : ~Working(p)'
    BY <2>1, <2>2 DEF Working
  <2>7. GuardNamesHolder' /\ SocketNamesHolder'
    BY <1>2, <2>1, <2>4, <2>6 DEF GuardNamesHolder, SocketNamesHolder
  <2>8. ConfigsKnown'
    BY <2>1 DEF IInv, ConfigsKnown
  <2>9. OnlineKeepsBackend' /\ UnsureIsGuarded'
    BY <2>1, <2>2, <2>6 DEF OnlineKeepsBackend, UnsureIsGuarded
  <2>10. DaemonIsCurrent'
    <3>1. daemon'.at # "off" => daemon'.config = daemon.config
      BY <2>4
    <3> QED  BY <2>1, <3>1 DEF IInv, DaemonIsCurrent
  <2> QED  BY <2>5, <2>7, <2>8, <2>9, <2>10 DEF IInv
<1>7. CASE DaemonStops \/ DaemonDies
  <2>1. /\ daemon.at \in {"starting", "up"}
        /\ daemon' = [at |-> "off", config |-> NoConfig]
        /\ cmd' = cmd /\ unsure' = unsure
        /\ socket' = socket \/ (daemon.at = "up" /\ socket' = "none")
    BY <1>7 DEF DaemonStops, DaemonDies
  <2>2. /\ guard' = guard \/ (guard \in {"daemon", "free"} /\ guard' = "stale")
        /\ guard = "daemon" => guard' = "stale"
    <3>1. CASE DaemonStops
      <4>1. guard # "daemon"
        BY <3>1 DEF DaemonStops, IInv, GuardNamesHolder
      <4> QED  BY <3>1, <4>1 DEF DaemonStops
    <3>2. CASE DaemonDies
      BY <3>2 DEF DaemonDies, GuardFree
    <3> QED  BY <1>7, <3>1, <3>2
  <2>3. DataOnly(disk')
    <3>1. \A c : NextProof(disk, c) \in 0..2
      BY DEF NextProof
    <3> QED  BY <1>1, <1>7, <3>1, DiskUpdates DEF DaemonStops, DaemonDies
  <2>4. ~unsure /\ disk.config.pin.schema = 2
    BY <2>1 DEF IInv, DaemonIsCurrent
  <2>5. Shape'
    BY <1>1, <2>1, <2>3 DEF Shape, DataOnly
  <2>6. \A p \in Procs : (Working(p)' <=> Working(p)) /\ cmd'[p] = cmd[p]
    BY <2>1 DEF Working
  <2>7. GuardNamesHolder'
    BY <1>2, <2>1, <2>2, <2>6 DEF IInv, GuardNamesHolder
  <2>8. SocketNamesHolder'
    <3>1. ASSUME NEW p \in Procs, Working(p), cmd[p].op \in Offline PROVE FALSE
      BY <2>1, <3>1, OneWorks
    <3> QED  BY <2>1, <2>6, <3>1 DEF SocketNamesHolder
  <2>9. ConfigsKnown'
    BY <2>1 DEF IInv, ConfigsKnown
  <2>10. OnlineKeepsBackend'
    BY <2>3, <2>6 DEF IInv, OnlineKeepsBackend, Serves, DataOnly
  <2>11. UnsureIsGuarded' /\ DaemonIsCurrent'
    BY <2>1, <2>4 DEF UnsureIsGuarded, DaemonIsCurrent
  <2> QED  BY <2>5, <2>7, <2>8, <2>9, <2>10, <2>11 DEF IInv
<1> QED  BY <1>4, <1>5, <1>6, <1>7

LEMMA OutsideKeepsIInv ==
  ASSUME ConstantsOK, IInv,
         OldDaemonChecks \/ OperatorClears \/ \E f \in Places : Damage(f)
  PROVE  IInv'
<1>1. disk \in DiskShape /\ disk.config \in Configs
  BY DEF IInv, Shape, DiskShape
<1>2. CASE OldDaemonChecks
  <2>1. disk' = Proven(disk, disk.config.pin) /\ disk.config.pin \in Profiles
    BY <1>1, <1>2 DEF OldDaemonChecks, Configs
  <2>2. DataOnly(disk')
    BY <1>1, <2>1, DiskUpdates
  <2> QED  BY <1>2, <2>2, FilesKeepIInv DEF OnlyFiles, OldDaemonChecks
<1>3. ASSUME NEW f \in Places, Damage(f) PROVE IInv'
  <2>1. PICK left \in {Nothing, Damaged} : disk' = [disk EXCEPT !.files[f] = left]
    BY <1>3 DEF Damage
  <2>2. DataOnly(disk')
    BY <1>1, <2>1, DiskUpdates
  <2> QED  BY <1>3, <2>2, FilesKeepIInv DEF OnlyFiles, Damage
<1>4. CASE OperatorClears
  <2>1. /\ guard \in {"free", "stale"} /\ guard' = "free" /\ unsure' = FALSE
        /\ socket' = IF socket = "socket" /\ daemon.at = "up" THEN socket ELSE "none"
        /\ disk' = disk /\ cmd' = cmd /\ daemon' = daemon
    BY <1>4 DEF OperatorClears
  <2>2. \A p \in Procs : p \notin {"free", "stale", "daemon"} /\ ~Working(p)
    BY <2>1 DEF ConstantsOK, IInv, GuardNamesHolder
  <2>3. Shape' /\ ConfigsKnown'
    BY <2>1 DEF IInv, Shape, ConfigsKnown
  <2>4. \A p \in Procs : ~Working(p)'
    BY <2>1, <2>2 DEF Working
  <2>5. GuardNamesHolder' /\ SocketNamesHolder'
    BY <2>1, <2>2, <2>4 DEF IInv, GuardNamesHolder, SocketNamesHolder
  <2>6. OnlineKeepsBackend' /\ UnsureIsGuarded' /\ DaemonIsCurrent'
    BY <2>1, <2>4 DEF IInv, OnlineKeepsBackend, UnsureIsGuarded, DaemonIsCurrent
  <2> QED  BY <2>3, <2>5, <2>6 DEF IInv
<1> QED  BY <1>2, <1>3, <1>4

LEMMA NextKeepsIInv == ASSUME ConstantsOK, IInv, [Next]_vars PROVE IInv'
<1>1. CASE UNCHANGED vars
  <2>1. OnlyFiles
    BY <1>1 DEF vars, OnlyFiles, DataOnly, IInv, Shape
  <2> QED  BY <2>1, FilesKeepIInv
<1>2. ASSUME NEW p \in Procs, Steps(p) PROVE IInv'
  BY <1>2, StepsHaveShape, StepKeepsIInv, FilesKeepIInv DEF OnlyFiles
<1>3. CASE \E p \in Procs : Commands(p) \/ Steps(p) \/ Leave(p) \/ Crash(p)
  BY <1>2, <1>3, CommandsKeepIInv, EndsKeepIInv
<1> QED  BY <1>1, <1>3, DaemonKeepsIInv, OutsideKeepsIInv DEF Next

\* A daemon that starts or runs has the backend and the schema of the live
\* config, whose rename is durable: for every set of command lines, profiles and
\* backends, every number of commands, throwing steps, crashes and damaged files.
THEOREM NoDaemonIsOvertaken == ASSUME ConstantsOK PROVE Spec => []DaemonIsCurrent
<1>1. Init => IInv
  BY InitIsGood
<1>2. IInv /\ [Next]_vars => IInv'
  BY NextKeepsIInv
<1>3. IInv => DaemonIsCurrent
  BY DEF IInv
<1> QED  BY <1>1, <1>2, <1>3, PTL DEF Spec

\* One command works at a time and none while a daemon loads its config; an
\* offline command (migrate-v2, its rollback, backend switch) works only while
\* no daemon runs.
GuardsExclude ==
  \A p \in Procs : Working(p) =>
    /\ \A q \in Procs : Working(q) => q = p
    /\ daemon.at # "starting"
    /\ cmd[p].op \in Offline => daemon.at = "off"

\* The profile guard and the file at the connector's path exclude what they are
\* there to exclude, whatever crashes and failed releases leave of them.
THEOREM GuardsKeepApart == ASSUME ConstantsOK PROVE Spec => []GuardsExclude
<1>1. Init => IInv
  BY InitIsGood
<1>2. IInv /\ [Next]_vars => IInv'
  BY NextKeepsIInv
<1>3. IInv => GuardsExclude
  BY OneWorks DEF GuardsExclude
<1> QED  BY <1>1, <1>2, <1>3, PTL DEF Spec

-----------------------------------------------------------------------------
(* What a command has done and has still to do.  todo is what is left of   *)
(* one of a few paths, so that its length tells how far the command came.  *)

CheckPath == <<"key", "alias">>
ActivatePath == <<"install", "backup", "key", "alias", "approve", "stage", "recheck",
                  "commit", "verify">>
RestorePath == <<"backup", "stage", "recheck", "commit", "verify">>
MigratePath == <<"install", "receipt", "old", "new", "last", "recheck", "commit", "verify">>
SwitchPath == <<"recheck", "commit", "verify">>
RepairPath(s) == <<"old", "new", "last", s, "verify">>
UnmigratePath(s) == <<"old", "new", "last", s, "recheck", "commit", "verify">>

UndoPath == <<"uncommit", "reverify">>
UndoAllPath == <<"uncommit", "reverify", "unapprove", "unalias", "unkey">>
UnfilePath == <<"inspect", "unapprove", "unalias", "unkey">>

IsRest(todo, path) ==
  /\ Len(todo) <= Len(path)
  /\ \A i \in 1..Len(todo) : todo[i] = path[Len(path) - Len(todo) + i]

\* A rollback of a migration writes no file but its fallback.
Unmigrates(c, s) ==
  /\ s = "install" => c.goal.path = "fallback"
  /\ IsRest(c.todo, IF c.goal = c.base THEN RepairPath(s) ELSE UnmigratePath(s))

Forward(c) ==
  \/ c.op = "check" /\ IsRest(c.todo, CheckPath)
  \/ c.op = "activate" /\ IsRest(c.todo, ActivatePath)
  \/ c.op = "restore" /\ IsRest(c.todo, RestorePath)
  \/ c.op = "migrate" /\ IsRest(c.todo, MigratePath)
  \/ c.op = "switch" /\ IsRest(c.todo, SwitchPath)
  \/ c.op = "unmigrate" /\ (Unmigrates(c, "install") \/ Unmigrates(c, "check"))

Backward(c) ==
  \/ c.todo = <<>>
  \/ c.op \in Offline \cup {"restore"} /\ IsRest(c.todo, UndoPath)
  \/ c.op = "activate" /\ (IsRest(c.todo, UndoAllPath) \/ IsRest(c.todo, UnfilePath))

OnPath(c) == IF c.back THEN Backward(c) ELSE Forward(c)

\* The goal of a command beside its base.
GoalFits(c) ==
  /\ c.op = "check" => c.goal = c.base
  /\ c.op \in {"check", "activate", "restore"} => c.goal.pin \in Reviewed
  /\ c.op = "migrate" => /\ c.base.pin = Legacy
                         /\ c.goal.pin = Migrated(Legacy) /\ c.goal.path = "target"
  /\ c.op = "unmigrate" => c.goal.pin = Legacy
  /\ c.op = "switch" => PinOf(c.goal) = PinOf(c.base)

\* The commit is the last step but one.
ConfigFollows(c) ==
  IF c.back
  THEN \/ c.todo # <<>> /\ Head(c.todo) = "uncommit" /\ disk.config \in {c.base, c.goal}
       \/ disk.config = c.base \/ c.blame \/ c.keep
  ELSE disk.config = IF Len(c.todo) >= 2 THEN c.base ELSE c.goal

\* A text names the file of its pin, or one that was damaged; only the profile of
\* schema 1 has a fallback.
Good(t) == t \in hurt \/ Resolves(t)
Placed(t) == t.path = "fallback" => t.pin = Legacy

\* The steps that follow the quarantine.
LastOf(c) == IF c.op = "migrate" THEN 3 ELSE IF c.goal = c.base THEN 2 ELSE 4

\* The steps that make sure of the file the goal names.
InstallAhead(c) ==
  \/ c.op = "activate" /\ Len(c.todo) >= 9
  \/ c.op = "migrate" /\ Len(c.todo) >= 8
  \/ c.op = "unmigrate" /\ Len(c.todo) >= LastOf(c)

TextsFollow(c) ==
  /\ Good(PinOf(c.base)) /\ Placed(PinOf(c.base)) /\ Placed(PinOf(c.goal))
  /\ ~c.back => InstallAhead(c) \/ Good(PinOf(c.goal))

KeyedAsWas(c) == disk.keyed[c.goal.pin] = c.keyed
AliasAsWas(c) == disk.alias = c.alias
ApprovedAsWas(c) == disk.approvals[c.goal.pin] = c.approved

\* What the steps behind a command left, and those ahead of it did not touch yet.
CheckFollows(c) ==
  /\ ApprovedAsWas(c)
  /\ ~c.back => /\ Len(c.todo) >= 2 => KeyedAsWas(c)
                /\ Len(c.todo) < 2 => disk.keyed[c.goal.pin] # NoProof
                /\ Len(c.todo) >= 1 => AliasAsWas(c)
  /\ c.back => c.blame \/ (KeyedAsWas(c) /\ AliasAsWas(c))

ActivationFollows(c) ==
  /\ Len(c.todo) < 8 => PinOf(c.base) \in disk.backups
  /\ Len(c.todo) >= 7 => KeyedAsWas(c)
  /\ Len(c.todo) < 7 => disk.keyed[c.goal.pin] # NoProof
  /\ Len(c.todo) >= 6 => AliasAsWas(c)
  /\ Len(c.todo) < 6 => disk.alias = Proof(c.goal.pin, disk.keyed[c.goal.pin])
  /\ Len(c.todo) >= 5 => ApprovedAsWas(c)
  /\ Len(c.todo) < 5 => disk.approvals[c.goal.pin] > c.approved

UndoFollows(c) ==
  \/ c.blame
  \/ /\ Len(c.todo) < 3 => ApprovedAsWas(c)
     /\ Len(c.todo) < 2 => AliasAsWas(c)
     /\ Len(c.todo) < 1 => KeyedAsWas(c)

ProofsFollow(c) ==
  /\ c.op = "check" => CheckFollows(c)
  /\ c.op = "activate" => IF c.back THEN UndoFollows(c) ELSE ActivationFollows(c)
  /\ c.op = "restore" /\ ~c.back /\ Len(c.todo) < 5 => PinOf(c.base) \in disk.backups

\* No proof is left after the quarantine, which ends with n steps ahead.
Quarantined(c, n) ==
  /\ Len(c.todo) < n + 3 => disk.keyed[Legacy] = NoProof
  /\ Len(c.todo) < n + 2 => disk.keyed[Migrated(Legacy)] = NoProof
  /\ Len(c.todo) < n + 1 => disk.alias = Nothing

QuarantineFollows(c) ==
  ~c.back =>
    /\ c.op = "migrate" /\ Len(c.todo) < 7 =>
         [source |-> c.base, target |-> c.goal] \in disk.receipts
    /\ c.op \in {"migrate", "unmigrate"} => Quarantined(c, LastOf(c))

TaskFollows(c) ==
  /\ OnPath(c) /\ GoalFits(c) /\ ConfigFollows(c) /\ TextsFollow(c)
  /\ ProofsFollow(c) /\ QuarantineFollows(c)

\* The texts of the disk, those a way back may need included.
Texts == {PinOf(disk.config)} \cup disk.backups
         \cup UNION {{PinOf(r.source), PinOf(r.target)} : r \in disk.receipts}

TextsKnown ==
  /\ \A t \in Texts : Good(t) /\ Placed(t)
  /\ \A r \in disk.receipts : r.source.pin = Legacy

\* What the shapes leave open: no last proof is the empty one.
RealAliases == {Nothing} \cup [of : Profiles, n : 1..2]
Names ==
  /\ guard \in Procs \cup {"free", "stale", "daemon"}
  /\ socket \in Procs \cup {"none", "socket", "stale"}
  /\ hurt \subseteq Pins
  /\ disk.alias \in RealAliases /\ \A p \in Procs : cmd[p].alias \in RealAliases

PlannedFits == \A p \in Procs : cmd[p].at = "planned" => GoalFits(cmd[p])
WorkFollows == \A p \in Procs : Working(p) => TaskFollows(cmd[p])

JInv == IInv /\ TextsKnown /\ Names /\ PlannedFits /\ WorkFollows

-----------------------------------------------------------------------------
(* Where a command is on its path.                                         *)

LEMMA RestMovesOn ==
  ASSUME NEW todo \in Seq(StepNames), NEW path \in Seq(StepNames),
         IsRest(todo, path), todo # <<>>
  PROVE  /\ Len(todo) \in 1..Len(path) /\ Len(Tail(todo)) = Len(todo) - 1
         /\ Tail(todo) \in Seq(StepNames) /\ IsRest(Tail(todo), path)
         /\ Head(todo) = path[Len(path) - Len(todo) + 1]
<1>1. Len(todo) \in Nat /\ Len(path) \in Nat /\ Len(todo) # 0
  OBVIOUS
<1>2. Tail(todo) \in Seq(StepNames) /\ Len(Tail(todo)) = Len(todo) - 1
  OBVIOUS
<1>3. Head(todo) = todo[1]
  OBVIOUS
<1>4. \A i \in 1..Len(Tail(todo)) : Tail(todo)[i] = todo[i + 1]
  OBVIOUS
<1>5. IsRest(Tail(todo), path)
  <2> SUFFICES ASSUME NEW i \in 1..Len(Tail(todo))
               PROVE  Tail(todo)[i] = path[Len(path) - Len(Tail(todo)) + i]
    BY <1>1, <1>2 DEF IsRest
  <2>1. i + 1 \in 1..Len(todo)
    BY <1>1, <1>2
  <2>2. todo[i + 1] = path[Len(path) - Len(todo) + (i + 1)]
    BY <2>1 DEF IsRest
  <2>3. Len(path) - Len(Tail(todo)) + i = Len(path) - Len(todo) + (i + 1)
    BY <1>1, <1>2
  <2> QED  BY <1>4, <2>2, <2>3
<1> QED  BY <1>1, <1>2, <1>3, <1>5 DEF IsRest

LEMMA PathsAreSteps ==
  /\ {CheckPath, ActivatePath, RestorePath, MigratePath, SwitchPath, UndoPath,
      UndoAllPath, UnfilePath} \subseteq Seq(StepNames)
  /\ \A s \in {"install", "check"} :
       RepairPath(s) \in Seq(StepNames) /\ UnmigratePath(s) \in Seq(StepNames)
  /\ Len(CheckPath) = 2 /\ Len(ActivatePath) = 9 /\ Len(RestorePath) = 5
  /\ Len(MigratePath) = 8 /\ Len(SwitchPath) = 3 /\ Len(UndoPath) = 2
  /\ Len(UndoAllPath) = 5 /\ Len(UnfilePath) = 4
  /\ \A s \in {"install", "check"} :
       Len(RepairPath(s)) = 5 /\ Len(UnmigratePath(s)) = 7
BY DEF CheckPath, ActivatePath, RestorePath, MigratePath, SwitchPath, UndoPath,
       UndoAllPath, UnfilePath, RepairPath, UnmigratePath, StepNames

\* s is the step with n more to take, itself included.
Ahead(path, n, s) == n \in 1..Len(path) /\ s = path[Len(path) - n + 1]

LEMMA CheckPathSteps ==
  ASSUME NEW n, NEW s, Ahead(CheckPath, n, s)
  PROVE  \/ (n = 2 /\ s = "key")
         \/ (n = 1 /\ s = "alias")
BY PathsAreSteps DEF Ahead, CheckPath

LEMMA ActivatePathSteps ==
  ASSUME NEW n, NEW s, Ahead(ActivatePath, n, s)
  PROVE  \/ (n = 9 /\ s = "install")
         \/ (n = 8 /\ s = "backup")
         \/ (n = 7 /\ s = "key")
         \/ (n = 6 /\ s = "alias")
         \/ (n = 5 /\ s = "approve")
         \/ (n = 4 /\ s = "stage")
         \/ (n = 3 /\ s = "recheck")
         \/ (n = 2 /\ s = "commit")
         \/ (n = 1 /\ s = "verify")
BY PathsAreSteps DEF Ahead, ActivatePath

LEMMA RestorePathSteps ==
  ASSUME NEW n, NEW s, Ahead(RestorePath, n, s)
  PROVE  \/ (n = 5 /\ s = "backup")
         \/ (n = 4 /\ s = "stage")
         \/ (n = 3 /\ s = "recheck")
         \/ (n = 2 /\ s = "commit")
         \/ (n = 1 /\ s = "verify")
BY PathsAreSteps DEF Ahead, RestorePath

LEMMA MigratePathSteps ==
  ASSUME NEW n, NEW s, Ahead(MigratePath, n, s)
  PROVE  \/ (n = 8 /\ s = "install")
         \/ (n = 7 /\ s = "receipt")
         \/ (n = 6 /\ s = "old")
         \/ (n = 5 /\ s = "new")
         \/ (n = 4 /\ s = "last")
         \/ (n = 3 /\ s = "recheck")
         \/ (n = 2 /\ s = "commit")
         \/ (n = 1 /\ s = "verify")
BY PathsAreSteps DEF Ahead, MigratePath

LEMMA SwitchPathSteps ==
  ASSUME NEW n, NEW s, Ahead(SwitchPath, n, s)
  PROVE  \/ (n = 3 /\ s = "recheck")
         \/ (n = 2 /\ s = "commit")
         \/ (n = 1 /\ s = "verify")
BY PathsAreSteps DEF Ahead, SwitchPath

LEMMA UndoPathSteps ==
  ASSUME NEW n, NEW s, Ahead(UndoPath, n, s)
  PROVE  \/ (n = 2 /\ s = "uncommit")
         \/ (n = 1 /\ s = "reverify")
BY PathsAreSteps DEF Ahead, UndoPath

LEMMA UndoAllPathSteps ==
  ASSUME NEW n, NEW s, Ahead(UndoAllPath, n, s)
  PROVE  \/ (n = 5 /\ s = "uncommit")
         \/ (n = 4 /\ s = "reverify")
         \/ (n = 3 /\ s = "unapprove")
         \/ (n = 2 /\ s = "unalias")
         \/ (n = 1 /\ s = "unkey")
BY PathsAreSteps DEF Ahead, UndoAllPath

LEMMA UnfilePathSteps ==
  ASSUME NEW n, NEW s, Ahead(UnfilePath, n, s)
  PROVE  \/ (n = 4 /\ s = "inspect")
         \/ (n = 3 /\ s = "unapprove")
         \/ (n = 2 /\ s = "unalias")
         \/ (n = 1 /\ s = "unkey")
BY PathsAreSteps DEF Ahead, UnfilePath

LEMMA RepairPathSteps ==
  ASSUME NEW u \in {"install", "check"}, NEW n, NEW s, Ahead(RepairPath(u), n, s)
  PROVE  \/ (n = 5 /\ s = "old")
         \/ (n = 4 /\ s = "new")
         \/ (n = 3 /\ s = "last")
         \/ (n = 2 /\ s = u)
         \/ (n = 1 /\ s = "verify")
BY PathsAreSteps DEF Ahead, RepairPath

LEMMA UnmigratePathSteps ==
  ASSUME NEW u \in {"install", "check"}, NEW n, NEW s, Ahead(UnmigratePath(u), n, s)
  PROVE  \/ (n = 7 /\ s = "old")
         \/ (n = 6 /\ s = "new")
         \/ (n = 5 /\ s = "last")
         \/ (n = 4 /\ s = u)
         \/ (n = 3 /\ s = "recheck")
         \/ (n = 2 /\ s = "commit")
         \/ (n = 1 /\ s = "verify")
BY PathsAreSteps DEF Ahead, UnmigratePath

\* The step that comes next, and the number of steps ahead with it.
Commits(c) == \/ c.op \in {"activate", "restore", "migrate", "switch"}
              \/ c.op = "unmigrate" /\ c.goal # c.base

\* The step of a migration or of its rollback with i more steps of quarantine
\* to come, this one included.
Moves(c, n, i) == c.op \in {"migrate", "unmigrate"} /\ n = LastOf(c) + i

NextForward(c, s, n) ==
  /\ s = "install" => \/ c.op = "activate" /\ n = 9
                      \/ c.op = "migrate" /\ n = 8
                      \/ /\ c.op = "unmigrate" /\ n = LastOf(c)
                         /\ c.goal.path = "fallback"
  /\ s = "check" => c.op = "unmigrate" /\ n = LastOf(c)
  /\ s = "backup" => \/ c.op = "activate" /\ n = 8
                     \/ c.op = "restore" /\ n = 5
  /\ s = "key" => \/ c.op = "check" /\ n = 2
                  \/ c.op = "activate" /\ n = 7
  /\ s = "alias" => \/ c.op = "check" /\ n = 1
                    \/ c.op = "activate" /\ n = 6
  /\ s = "approve" => c.op = "activate" /\ n = 5
  /\ s = "stage" => c.op \in {"activate", "restore"} /\ n = 4
  /\ s = "receipt" => c.op = "migrate" /\ n = 7
  /\ s = "old" => Moves(c, n, 3)
  /\ s = "new" => Moves(c, n, 2)
  /\ s = "last" => Moves(c, n, 1)
  /\ s = "recheck" => Commits(c) /\ n = 3
  /\ s = "commit" => Commits(c) /\ n = 2
  /\ s = "verify" => c.op # "check" /\ n = 1
  /\ s \notin {"uncommit", "reverify", "inspect", "unapprove", "unalias", "unkey"}
  /\ s # "commit" /\ n = 2 => c.goal = c.base
  /\ n = 1 => s \in {"verify", "alias"}
  /\ c.op = "check" => s \in {"key", "alias"}

NextBack(c, s, n) ==
  /\ s \in {"uncommit", "reverify", "inspect", "unapprove", "unalias", "unkey"}
  /\ s = "uncommit" => n >= 2
  /\ c.op # "check"
  /\ s \in {"inspect", "unapprove", "unalias", "unkey"} => c.op = "activate"
  /\ c.op = "activate" => /\ s = "uncommit" => n = 5
                          /\ s \in {"reverify", "inspect"} => n = 4
                          /\ s = "unapprove" => n = 3
                          /\ s = "unalias" => n = 2
                          /\ s = "unkey" => n = 1

LEMMA ForwardIsNext ==
  ASSUME NEW c \in CmdShape, Forward(c), GoalFits(c), c.todo # <<>>
  PROVE  /\ NextForward(c, Head(c.todo), Len(c.todo)) /\ Forward([c EXCEPT !.todo = Tail(@)])
         /\ Len(c.todo) \in 1..9 /\ Len(Tail(c.todo)) = Len(c.todo) - 1
<1> DEFINE todo == c.todo
           s == Head(todo)
           n == Len(todo)
           d == [c EXCEPT !.todo = Tail(@)]
           Goal == /\ NextForward(c, s, n) /\ Forward(d)
                   /\ n \in 1..9 /\ Len(Tail(todo)) = n - 1
<1>0. /\ todo \in Seq(StepNames) /\ d.op = c.op /\ d.todo = Tail(todo)
      /\ d.goal = c.goal /\ d.base = c.base /\ todo # <<>>
  BY DEF CmdShape
<1>1. CASE c.op = "check"
  <2>1. IsRest(todo, CheckPath)
    BY <1>1 DEF Forward
  <2>2. /\ n \in 1..2 /\ Len(Tail(todo)) = n - 1 /\ IsRest(Tail(todo), CheckPath)
        /\ Ahead(CheckPath, n, s)
    BY <1>0, <2>1, RestMovesOn, PathsAreSteps DEF Ahead
  <2>3. \/ (n = 2 /\ s = "key")
        \/ (n = 1 /\ s = "alias")
    BY <2>2, CheckPathSteps
  <2>4. Forward(d)
    BY <1>0, <1>1, <2>2 DEF Forward
  <2> HIDE DEF n, s
  <2>5. NextForward(c, s, n)
    BY <1>1, <2>3 DEF NextForward, Moves, Commits, GoalFits
  <2> QED  BY <2>2, <2>4, <2>5 DEF n, s
<1>2. CASE c.op = "activate"
  <2>1. IsRest(todo, ActivatePath)
    BY <1>2 DEF Forward
  <2>2. /\ n \in 1..9 /\ Len(Tail(todo)) = n - 1 /\ IsRest(Tail(todo), ActivatePath)
        /\ Ahead(ActivatePath, n, s)
    BY <1>0, <2>1, RestMovesOn, PathsAreSteps DEF Ahead
  <2>3. \/ (n = 9 /\ s = "install")
        \/ (n = 8 /\ s = "backup")
        \/ (n = 7 /\ s = "key")
        \/ (n = 6 /\ s = "alias")
        \/ (n = 5 /\ s = "approve")
        \/ (n = 4 /\ s = "stage")
        \/ (n = 3 /\ s = "recheck")
        \/ (n = 2 /\ s = "commit")
        \/ (n = 1 /\ s = "verify")
    BY <2>2, ActivatePathSteps
  <2>4. Forward(d)
    BY <1>0, <1>2, <2>2 DEF Forward
  <2> HIDE DEF n, s
  <2>5. NextForward(c, s, n)
    BY <1>2, <2>3 DEF NextForward, Moves, Commits
  <2> QED  BY <2>2, <2>4, <2>5 DEF n, s
<1>3. CASE c.op = "restore"
  <2>1. IsRest(todo, RestorePath)
    BY <1>3 DEF Forward
  <2>2. /\ n \in 1..5 /\ Len(Tail(todo)) = n - 1 /\ IsRest(Tail(todo), RestorePath)
        /\ Ahead(RestorePath, n, s)
    BY <1>0, <2>1, RestMovesOn, PathsAreSteps DEF Ahead
  <2>3. \/ (n = 5 /\ s = "backup")
        \/ (n = 4 /\ s = "stage")
        \/ (n = 3 /\ s = "recheck")
        \/ (n = 2 /\ s = "commit")
        \/ (n = 1 /\ s = "verify")
    BY <2>2, RestorePathSteps
  <2>4. Forward(d)
    BY <1>0, <1>3, <2>2 DEF Forward
  <2> HIDE DEF n, s
  <2>5. NextForward(c, s, n)
    BY <1>3, <2>3 DEF NextForward, Moves, Commits
  <2> QED  BY <2>2, <2>4, <2>5 DEF n, s
<1>4. CASE c.op = "migrate"
  <2>1. IsRest(todo, MigratePath)
    BY <1>4 DEF Forward
  <2>2. /\ n \in 1..8 /\ Len(Tail(todo)) = n - 1 /\ IsRest(Tail(todo), MigratePath)
        /\ Ahead(MigratePath, n, s)
    BY <1>0, <2>1, RestMovesOn, PathsAreSteps DEF Ahead
  <2>3. \/ (n = 8 /\ s = "install")
        \/ (n = 7 /\ s = "receipt")
        \/ (n = 6 /\ s = "old")
        \/ (n = 5 /\ s = "new")
        \/ (n = 4 /\ s = "last")
        \/ (n = 3 /\ s = "recheck")
        \/ (n = 2 /\ s = "commit")
        \/ (n = 1 /\ s = "verify")
    BY <2>2, MigratePathSteps
  <2>4. Forward(d)
    BY <1>0, <1>4, <2>2 DEF Forward
  <2> HIDE DEF n, s
  <2>5. NextForward(c, s, n)
    <3>1. LastOf(c) = 3
      BY <1>4 DEF LastOf
    <3> QED  BY <1>4, <2>3, <3>1 DEF NextForward, Moves, Commits
  <2> QED  BY <2>2, <2>4, <2>5 DEF n, s
<1>5. CASE c.op = "switch"
  <2>1. IsRest(todo, SwitchPath)
    BY <1>5 DEF Forward
  <2>2. /\ n \in 1..3 /\ Len(Tail(todo)) = n - 1 /\ IsRest(Tail(todo), SwitchPath)
        /\ Ahead(SwitchPath, n, s)
    BY <1>0, <2>1, RestMovesOn, PathsAreSteps DEF Ahead
  <2>3. \/ (n = 3 /\ s = "recheck")
        \/ (n = 2 /\ s = "commit")
        \/ (n = 1 /\ s = "verify")
    BY <2>2, SwitchPathSteps
  <2>4. Forward(d)
    BY <1>0, <1>5, <2>2 DEF Forward
  <2> HIDE DEF n, s
  <2>5. NextForward(c, s, n)
    BY <1>5, <2>3 DEF NextForward, Moves, Commits
  <2> QED  BY <2>2, <2>4, <2>5 DEF n, s
<1>6. CASE c.op = "unmigrate"
  <2>1. PICK u \in {"install", "check"} : Unmigrates(c, u)
    BY <1>6 DEF Forward
  <2>2. CASE c.goal = c.base
    <3>1. IsRest(todo, RepairPath(u)) /\ LastOf(c) = 2
      BY <1>6, <2>1, <2>2 DEF Unmigrates, LastOf
    <3>2. /\ n \in 1..5 /\ Len(Tail(todo)) = n - 1 /\ IsRest(Tail(todo), RepairPath(u))
          /\ Ahead(RepairPath(u), n, s)
      BY <1>0, <3>1, RestMovesOn, PathsAreSteps DEF Ahead
    <3>3. \/ (n = 5 /\ s = "old")
          \/ (n = 4 /\ s = "new")
          \/ (n = 3 /\ s = "last")
          \/ (n = 2 /\ s = u)
          \/ (n = 1 /\ s = "verify")
      BY <3>2, RepairPathSteps
    <3>4. Forward(d)
      BY <1>0, <1>6, <2>1, <2>2, <3>2 DEF Forward, Unmigrates
    <3> HIDE DEF n, s
    <3>5. NextForward(c, s, n)
      BY <1>6, <2>1, <2>2, <3>1, <3>3 DEF NextForward, Moves, Commits, Unmigrates
    <3> QED  BY <3>2, <3>4, <3>5 DEF n, s
  <2>3. CASE c.goal # c.base
    <3>1. IsRest(todo, UnmigratePath(u)) /\ LastOf(c) = 4
      BY <1>6, <2>1, <2>3 DEF Unmigrates, LastOf
    <3>2. /\ n \in 1..7 /\ Len(Tail(todo)) = n - 1 /\ IsRest(Tail(todo), UnmigratePath(u))
          /\ Ahead(UnmigratePath(u), n, s)
      BY <1>0, <3>1, RestMovesOn, PathsAreSteps DEF Ahead
    <3>3. \/ (n = 7 /\ s = "old")
          \/ (n = 6 /\ s = "new")
          \/ (n = 5 /\ s = "last")
          \/ (n = 4 /\ s = u)
          \/ (n = 3 /\ s = "recheck")
          \/ (n = 2 /\ s = "commit")
          \/ (n = 1 /\ s = "verify")
      BY <3>2, UnmigratePathSteps
    <3>4. Forward(d)
      BY <1>0, <1>6, <2>1, <2>3, <3>2 DEF Forward, Unmigrates
    <3> HIDE DEF n, s
    <3>5. NextForward(c, s, n)
      BY <1>6, <2>1, <2>3, <3>1, <3>3 DEF NextForward, Moves, Commits, Unmigrates
    <3> QED  BY <3>2, <3>4, <3>5 DEF n, s
  <2> QED  BY <2>2, <2>3
<1> QED  BY <1>1, <1>2, <1>3, <1>4, <1>5, <1>6 DEF Forward

LEMMA BackwardIsNext ==
  ASSUME NEW c \in CmdShape, Backward(c), c.todo # <<>>
  PROVE  /\ NextBack(c, Head(c.todo), Len(c.todo)) /\ Backward([c EXCEPT !.todo = Tail(@)])
         /\ Len(c.todo) \in 1..5 /\ Len(Tail(c.todo)) = Len(c.todo) - 1
<1> DEFINE todo == c.todo
           s == Head(todo)
           n == Len(todo)
           d == [c EXCEPT !.todo = Tail(@)]
<1>0. /\ todo \in Seq(StepNames) /\ d.op = c.op /\ d.todo = Tail(todo) /\ todo # <<>>
  BY DEF CmdShape
<1>1. CASE c.op \in Offline \cup {"restore"} /\ IsRest(c.todo, UndoPath)
  <2>1. /\ n \in 1..2 /\ Len(Tail(todo)) = n - 1 /\ IsRest(Tail(todo), UndoPath)
        /\ Ahead(UndoPath, n, s)
    BY <1>0, <1>1, RestMovesOn, PathsAreSteps DEF Ahead
  <2>2. \/ (n = 2 /\ s = "uncommit")
        \/ (n = 1 /\ s = "reverify")
    BY <2>1, UndoPathSteps
  <2>3. Backward(d)
    BY <1>0, <1>1, <2>1 DEF Backward
  <2>4. NextBack(c, s, n)
    BY <1>1, <2>2 DEF NextBack, Offline
  <2> QED  BY <2>1, <2>3, <2>4
<1>2. CASE c.op = "activate" /\ IsRest(c.todo, UndoAllPath)
  <2>1. /\ n \in 1..5 /\ Len(Tail(todo)) = n - 1 /\ IsRest(Tail(todo), UndoAllPath)
        /\ Ahead(UndoAllPath, n, s)
    BY <1>0, <1>2, RestMovesOn, PathsAreSteps DEF Ahead
  <2>2. \/ (n = 5 /\ s = "uncommit")
        \/ (n = 4 /\ s = "reverify")
        \/ (n = 3 /\ s = "unapprove")
        \/ (n = 2 /\ s = "unalias")
        \/ (n = 1 /\ s = "unkey")
    BY <2>1, UndoAllPathSteps
  <2>3. Backward(d)
    BY <1>0, <1>2, <2>1 DEF Backward
  <2>4. NextBack(c, s, n)
    BY <1>2, <2>2 DEF NextBack, Offline
  <2> QED  BY <2>1, <2>3, <2>4
<1>3. CASE c.op = "activate" /\ IsRest(c.todo, UnfilePath)
  <2>1. /\ n \in 1..4 /\ Len(Tail(todo)) = n - 1 /\ IsRest(Tail(todo), UnfilePath)
        /\ Ahead(UnfilePath, n, s)
    BY <1>0, <1>3, RestMovesOn, PathsAreSteps DEF Ahead
  <2>2. \/ (n = 4 /\ s = "inspect")
        \/ (n = 3 /\ s = "unapprove")
        \/ (n = 2 /\ s = "unalias")
        \/ (n = 1 /\ s = "unkey")
    BY <2>1, UnfilePathSteps
  <2>3. Backward(d)
    BY <1>0, <1>3, <2>1 DEF Backward
  <2>4. NextBack(c, s, n)
    BY <1>3, <2>2 DEF NextBack, Offline
  <2> QED  BY <2>1, <2>3, <2>4
<1> QED  BY <1>1, <1>2, <1>3 DEF Backward

-----------------------------------------------------------------------------
(* How a step of a command ends.                                           *)

LEMMA UndoPathsAreBack ==
  /\ UndoPath # <<>> /\ Head(UndoPath) = "uncommit" /\ IsRest(UndoPath, UndoPath)
  /\ UndoAllPath # <<>> /\ Head(UndoAllPath) = "uncommit" /\ Len(UndoAllPath) >= 3
  /\ IsRest(UndoAllPath, UndoAllPath)
  /\ Len(UnfilePath) >= 3 /\ IsRest(UnfilePath, UnfilePath)
  /\ UndoPath = <<"uncommit", "reverify">>
  /\ UndoAllPath = <<"uncommit", "reverify">> \o Unfile
  /\ UnfilePath = <<"inspect">> \o Unfile
BY DEF UndoPath, UndoAllPath, UnfilePath, IsRest, Unfile

\* A command that throws has a compensation to run that starts with the config
\* when it may have been renamed; while it compensates, it tells so or keeps
\* the guards.
LEMMA ThrownIsOnPath ==
  ASSUME NEW c \in CmdShape, OnPath(c), GoalFits(c), c.todo # <<>>,
         NEW effect \in BOOLEAN
  PROVE  LET s == Head(c.todo)  d == Thrown(c, s, effect) IN
         /\ d.back /\ Backward(d)
         /\ c.back => d.blame \/ d.keep
         /\ c.back /\ c.op = "activate" => d.blame
         /\ ~c.back => \/ /\ d.todo # <<>> /\ Head(d.todo) = "uncommit"
                          /\ s \in {"commit", "verify"}
                       \/ s # "verify" /\ (s = "commit" /\ effect => d.keep)
         /\ ~c.back /\ c.op = "activate" =>
              Len(d.todo) >= 3 \/ s \in {"install", "backup", "key", "alias"}
<1> DEFINE s == Head(c.todo)
           d == Thrown(c, s, effect)
           n == Len(c.todo)
<1>1. CASE c.back
  <2>1. /\ d = Skip(c, s, effect) /\ NextBack(c, s, n)
        /\ Backward([c EXCEPT !.todo = Tail(@)])
    BY <1>1, BackwardIsNext DEF Thrown, OnPath
  <2>2. CASE c.op \in Offline
    <3>1. d = [Fail(c) EXCEPT !.blame = ~effect \/ s = "reverify", !.keep = effect]
      BY <2>1, <2>2 DEF Skip, Keeps
    <3>2. d.back /\ d.todo = <<>> /\ (d.blame \/ d.keep)
      BY <3>1 DEF Fail, CmdShape
    <3> QED  BY <1>1, <2>2, <3>2 DEF Backward, Offline
  <2>3. CASE c.op \notin Offline /\ s \in {"uncommit", "reverify", "inspect"}
    <3>1. d = [Fail(c) EXCEPT !.blame = TRUE]
      BY <2>1, <2>3 DEF Skip
    <3>2. d.back /\ d.todo = <<>> /\ d.blame
      BY <3>1 DEF Fail, CmdShape
    <3> QED  BY <1>1, <3>2 DEF Backward
  <2>4. CASE c.op \notin Offline /\ s \notin {"uncommit", "reverify", "inspect"}
    <3>1. d = [c EXCEPT !.blame = TRUE, !.todo = Tail(@)]
      BY <2>1, <2>4 DEF Skip
    <3>2. d.back /\ d.todo = Tail(c.todo) /\ d.blame /\ d.op = c.op
      BY <1>1, <3>1 DEF CmdShape
    <3>3. Backward(d)
      BY <2>1, <3>2 DEF Backward, CmdShape
    <3> QED  BY <1>1, <3>2, <3>3
  <2> QED  BY <2>2, <2>3, <2>4
<1>2. CASE ~c.back /\ c.op \in Offline
  <2>1. d = CatchOffline(c, s, effect) /\ c.op # "activate"
    BY <1>2 DEF Thrown, Offline
  <2>2. CASE s = "verify"
    <3>1. d.back /\ d.todo = UndoPath /\ d.op = c.op
      BY <2>1, <2>2, UndoPathsAreBack DEF CatchOffline, Compensate, CmdShape
    <3> QED  BY <1>2, <2>1, <2>2, <3>1, UndoPathsAreBack DEF Backward
  <2>3. CASE s # "verify"
    <3>1. d.back /\ d.todo = <<>> /\ d.op = c.op /\ d.keep = effect
      BY <2>1, <2>3 DEF CatchOffline, Fail, CmdShape, Keeps
    <3> QED  BY <1>2, <2>1, <2>3, <3>1 DEF Backward
  <2> QED  BY <2>2, <2>3
<1>3. CASE ~c.back /\ c.op \notin Offline
  <2>1. d = CatchLocked(c, s) /\ NextForward(c, s, n)
    BY <1>3, ForwardIsNext DEF Thrown, OnPath
  <2>2. CASE s \in {"commit", "verify"}
    <3>1. c.op \in {"activate", "restore"}
      BY <1>3, <2>1, <2>2 DEF NextForward, Commits, Offline, OnPath, Forward
    <3>2. d.back /\ d.op = c.op /\ d.todo = IF c.op = "activate" THEN UndoAllPath ELSE UndoPath
      BY <2>1, <2>2, <3>1, UndoPathsAreBack DEF CatchLocked, Compensate, CmdShape
    <3> QED  BY <1>3, <2>2, <3>1, <3>2, UndoPathsAreBack DEF Backward
  <2>3. CASE s \in {"approve", "stage", "recheck"} /\ c.op = "activate"
    <3>1. d.back /\ d.op = c.op /\ d.todo = UnfilePath
      BY <2>1, <2>3, UndoPathsAreBack DEF CatchLocked, Compensate, CmdShape
    <3> QED  BY <1>3, <2>3, <3>1, UndoPathsAreBack DEF Backward
  <2>4. CASE /\ s \notin {"commit", "verify"}
             /\ ~(s \in {"approve", "stage", "recheck"} /\ c.op = "activate")
    <3>1. d.back /\ d.op = c.op /\ d.todo = <<>>
      BY <2>1, <2>4 DEF CatchLocked, Fail, CmdShape
    <3>2. c.op = "activate" => s \in {"install", "backup", "key", "alias"}
      <4>1. s \in StepNames
        BY DEF CmdShape
      <4> QED  BY <2>1, <2>4, <4>1 DEF NextForward, StepNames, Moves
    <3> QED  BY <1>3, <2>4, <3>1, <3>2 DEF Backward
  <2> QED  BY <2>2, <2>3, <2>4
<1> QED  BY <1>1, <1>2, <1>3

-----------------------------------------------------------------------------
(* What a step of a command changes, however it ends.                      *)

\* No text that was good is lost.
GoodAfter(t) == t \in hurt' \/ disk'.files[t.path] = t.pin
GoodKept == \A t \in Pins : Placed(t) /\ Good(t) => GoodAfter(t)

SameProofs == /\ disk'.keyed = disk.keyed /\ disk'.alias = disk.alias
              /\ disk'.approvals = disk.approvals

Bounded(c, s) ==
  /\ disk'.config \in {disk.config} \cup (IF s = "commit" THEN {c.goal} ELSE {})
                                    \cup (IF s = "uncommit" THEN {c.base} ELSE {})
  /\ disk.backups \subseteq disk'.backups
  /\ disk'.backups \subseteq disk.backups \cup {PinOf(c.base)}
  /\ disk.receipts \subseteq disk'.receipts
  /\ disk'.receipts \subseteq disk.receipts \cup
       (IF s = "receipt" THEN {[source |-> c.base, target |-> c.goal]} ELSE {})
  /\ disk'.alias \in RealAliases
  /\ hurt' \subseteq Pins /\ GoodKept

\* What it has done when it returns.
KeyedAfter(c, s) ==
  LET pin == c.goal.pin IN
  CASE s = "key"   -> [disk.keyed EXCEPT ![pin] = NextProof(disk, pin)]
    [] s = "old"   -> [disk.keyed EXCEPT ![Legacy] = NoProof]
    [] s = "new"   -> [disk.keyed EXCEPT ![Migrated(Legacy)] = NoProof]
    [] s = "unkey" -> [disk.keyed EXCEPT ![pin] = c.keyed]
    [] OTHER       -> disk.keyed

AliasAfter(c, s) ==
  CASE s = "alias"   -> Proof(c.goal.pin, disk.keyed[c.goal.pin])
    [] s = "last"    -> Nothing
    [] s = "unalias" -> c.alias
    [] OTHER         -> disk.alias

ApprovalsAfter(c, s) ==
  LET pin == c.goal.pin IN
  CASE s = "approve"   -> [disk.approvals EXCEPT ![pin] = @ + 1]
    [] s = "unapprove" -> [disk.approvals EXCEPT ![pin] = c.approved]
    [] OTHER           -> disk.approvals

Effect(c, s) ==
  /\ disk'.config = CASE s = "commit"   -> c.goal
                      [] s = "uncommit" -> c.base
                      [] OTHER          -> disk.config
  /\ s = "backup" => PinOf(c.base) \in disk'.backups
  /\ s = "receipt" => [source |-> c.base, target |-> c.goal] \in disk'.receipts
  /\ disk'.keyed = KeyedAfter(c, s)
  /\ disk'.alias = AliasAfter(c, s)
  /\ disk'.approvals = ApprovalsAfter(c, s)
  /\ s \in {"install", "check"} => GoodAfter(PinOf(c.goal))

Done(p, s) == cmd' = [cmd EXCEPT ![p].todo = Tail(@)] /\ Effect(cmd[p], s)

Missed(p, s) ==
  /\ s \notin {"key", "alias"}
  /\ \E effect \in BOOLEAN :
       /\ cmd' = [cmd EXCEPT ![p] = Thrown(@, s, effect)]
       /\ disk'.config # disk.config => effect
  /\ s \in {"install", "backup"} => SameProofs

ProofMissed(p, s) ==
  LET c == cmd[p] IN
  /\ s \in {"key", "alias"}
  /\ \E told \in BOOLEAN :
       /\ cmd' = [cmd EXCEPT ![p] = [Fail(@) EXCEPT !.blame = told]]
       /\ told \/ (disk'.keyed[c.goal.pin] = c.keyed /\ disk'.alias = c.alias)
  /\ disk'.approvals = disk.approvals

Ends(p, s) ==
  /\ At(p, s) /\ Bounded(cmd[p], s)
  /\ Done(p, s) \/ Missed(p, s) \/ ProofMissed(p, s)

\* What a step finds.
Finds(c, s) ==
  /\ c \in CmdShape /\ c.todo # <<>> /\ Head(c.todo) = s /\ TaskFollows(c)
  /\ disk \in DiskShape /\ disk' \in DiskShape
  /\ c.base \in Configs /\ c.goal \in Configs
  /\ Bounded(c, s)

LEMMA FoundTexts ==
  ASSUME NEW c, NEW s, Finds(c, s)
  PROVE  /\ PinOf(c.base) \in Pins /\ PinOf(c.goal) \in Pins
         /\ c.goal.pin \in Profiles
         /\ Good(PinOf(c.base))' /\ Placed(PinOf(c.base)) /\ Placed(PinOf(c.goal))
         /\ Good(PinOf(c.goal)) => Good(PinOf(c.goal))'
         /\ \A t : GoodAfter(t) <=> Good(t)'
<1>1. PinOf(c.base) \in Pins /\ PinOf(c.goal) \in Pins /\ c.goal.pin \in Profiles
  BY DEF Finds, Configs, Pins, PinOf
<1>2. GoodKept /\ TextsFollow(c)
  BY DEF Finds, Bounded, TaskFollows
<1>3. \A t : GoodAfter(t) <=> Good(t)'
  BY DEF GoodAfter, Good, Resolves
<1> QED  BY <1>1, <1>2, <1>3 DEF GoodKept, TextsFollow

\* A step that throws.
LEMMA MissedFollows ==
  ASSUME NEW c, NEW s, Finds(c, s), NEW effect \in BOOLEAN,
         NEW d \in CmdShape, d = Thrown(c, s, effect), SameTask(c, d),
         s \notin {"key", "alias"},
         disk'.config # disk.config => effect,
         s \in {"install", "backup"} => SameProofs
  PROVE  TaskFollows(d)'
<1> DEFINE n == Len(c.todo)
<1>0. /\ c \in CmdShape /\ TaskFollows(c) /\ c.todo # <<>> /\ Head(c.todo) = s
      /\ Bounded(c, s)
  BY DEF Finds
<1>1. OnPath(c) /\ GoalFits(c)
  BY <1>0 DEF TaskFollows
<1>2. /\ d.back /\ Backward(d)
      /\ c.back => d.blame \/ d.keep
      /\ c.back /\ c.op = "activate" => d.blame
      /\ ~c.back => \/ /\ d.todo # <<>> /\ Head(d.todo) = "uncommit"
                       /\ s \in {"commit", "verify"}
                    \/ s # "verify" /\ (s = "commit" /\ effect => d.keep)
      /\ ~c.back /\ c.op = "activate" =>
           Len(d.todo) >= 3 \/ s \in {"install", "backup", "key", "alias"}
  BY <1>0, <1>1, ThrownIsOnPath
<1>3. ~c.back => NextForward(c, s, n) /\ n \in 1..9
  BY <1>0, <1>1, ForwardIsNext DEF OnPath
<1>4. c.back => NextBack(c, s, Len(c.todo))
  BY <1>0, <1>1, BackwardIsNext DEF OnPath
<1>11. /\ ~c.back => disk.config = IF n >= 2 THEN c.base ELSE c.goal
       /\ c.op = "activate" /\ ~c.back /\ n >= 7 =>
            KeyedAsWas(c) /\ AliasAsWas(c) /\ ApprovedAsWas(c)
  <2>1. ~c.back => disk.config = IF n >= 2 THEN c.base ELSE c.goal
    BY <1>0 DEF TaskFollows, ConfigFollows
  <2>2. c.op = "activate" /\ ~c.back => ActivationFollows(c)
    BY <1>0 DEF TaskFollows, ProofsFollow
  <2>3. ~c.back => (n >= 7 => n >= 6 /\ n >= 5)
    BY <1>3
  <2> QED  BY <2>1, <2>2, <2>3 DEF ActivationFollows
<1> HIDE DEF n
<1>5. d.op = c.op /\ d.base = c.base /\ d.goal = c.goal
      /\ d.keyed = c.keyed /\ d.alias = c.alias /\ d.approved = c.approved
  BY DEF SameTask
<1>6. OnPath(d) /\ GoalFits(d)
  BY <1>1, <1>2, <1>5 DEF OnPath, GoalFits
<1>7. ConfigFollows(d)'
  <2>1. CASE c.back
    BY <1>2, <2>1 DEF ConfigFollows
  <2>2. CASE ~c.back
    <3>1. /\ disk.config = IF n >= 2 THEN c.base ELSE c.goal
          /\ s # "uncommit"
          /\ s = "commit" => n = 2
          /\ s \notin {"commit", "verify"} => n >= 2
      BY <1>3, <1>11, <2>2 DEF NextForward
    <3>2. /\ disk'.config \in {disk.config, c.goal}
          /\ s # "commit" => disk'.config = disk.config
      BY <1>0, <3>1 DEF Bounded
    <3>3. CASE d.todo # <<>> /\ Head(d.todo) = "uncommit"
      BY <1>2, <1>5, <3>1, <3>2, <3>3 DEF ConfigFollows
    <3>4. CASE s # "verify" /\ (s = "commit" /\ effect => d.keep)
      BY <1>2, <1>5, <3>1, <3>2, <3>4 DEF ConfigFollows
    <3> QED  BY <1>2, <2>2, <3>3, <3>4
  <2> QED  BY <2>1, <2>2
<1>8. TextsFollow(d)'
  BY <1>2, <1>5, FoundTexts DEF TextsFollow
<1>9. ProofsFollow(d)'
  <2>1. d.op # "check"
    BY <1>3, <1>4, <1>5 DEF NextForward, NextBack
  <2>2. ASSUME d.op = "activate" PROVE UndoFollows(d)'
    <3>1. CASE d.blame \/ Len(d.todo) >= 3
      <4>1. Len(d.todo) \in Nat
        BY DEF CmdShape
      <4> QED  BY <3>1, <4>1 DEF UndoFollows
    <3>2. CASE ~c.back /\ s \in {"install", "backup"}
      <4>1. n >= 7 /\ SameProofs
        BY <1>3, <1>5, <2>2, <3>2 DEF NextForward
      <4>2. KeyedAsWas(c) /\ AliasAsWas(c) /\ ApprovedAsWas(c)
        BY <1>5, <1>11, <2>2, <3>2, <4>1
      <4> QED
        BY <1>5, <4>1, <4>2 DEF SameProofs, UndoFollows, KeyedAsWas, AliasAsWas, ApprovedAsWas
    <3> QED  BY <1>2, <1>5, <2>2, <3>1, <3>2
  <2> QED  BY <1>2, <2>1, <2>2 DEF ProofsFollow
<1>10. QuarantineFollows(d)'
  BY <1>2 DEF QuarantineFollows
<1> QED  BY <1>6, <1>7, <1>8, <1>9, <1>10 DEF TaskFollows

LEMMA NextByCommand ==
  ASSUME NEW c, NEW s \in StepNames, NEW n, NextForward(c, s, n)
  PROVE  /\ c.op = "activate" =>
              \/ (s = "install" /\ n = 9) \/ (s = "backup" /\ n = 8)
              \/ (s = "key" /\ n = 7) \/ (s = "alias" /\ n = 6)
              \/ (s = "approve" /\ n = 5)
              \/ (s \in {"stage", "recheck", "commit", "verify"} /\ n \in 1..4)
         /\ c.op = "restore" =>
              \/ (s = "backup" /\ n = 5)
              \/ (s \in {"stage", "recheck", "commit", "verify"} /\ n \in 1..4)
         /\ c.op = "migrate" =>
              \/ (s = "install" /\ n = 8) \/ (s = "receipt" /\ n = 7)
              \/ (s = "old" /\ n = LastOf(c) + 3) \/ (s = "new" /\ n = LastOf(c) + 2)
              \/ (s = "last" /\ n = LastOf(c) + 1)
              \/ (s \in {"recheck", "commit", "verify"} /\ n \in 1..LastOf(c))
         /\ c.op = "unmigrate" =>
              \/ (s = "old" /\ n = LastOf(c) + 3) \/ (s = "new" /\ n = LastOf(c) + 2)
              \/ (s = "last" /\ n = LastOf(c) + 1)
              \/ (s \in {"install", "check", "recheck", "commit", "verify"} /\ n \in 1..LastOf(c))
<1>1. /\ LastOf(c) \in {2, 3, 4} /\ (c.op = "migrate" => LastOf(c) = 3)
      /\ c.op = "unmigrate" /\ Commits(c) => LastOf(c) = 4
  BY DEF LastOf, Commits
<1>2. s \in {"install", "check", "backup", "key", "alias", "approve", "stage", "receipt",
             "old", "new", "last", "recheck", "commit", "verify"}
  BY DEF NextForward, StepNames
<1>3. CASE s \in {"old", "new", "last"}
  BY <1>3 DEF NextForward, Moves
<1>4. CASE s \in {"install", "check", "backup", "key", "alias", "approve", "stage", "receipt"}
  BY <1>1, <1>4 DEF NextForward
<1>5. CASE s \in {"recheck", "commit", "verify"}
  BY <1>1, <1>5 DEF NextForward
<1> QED  BY <1>2, <1>3, <1>4, <1>5

\* A step that returns.
LEMMA DoneFollows ==
  ASSUME ConstantsOK, NEW c, NEW s, Finds(c, s), Effect(c, s),
         NEW d, d = [c EXCEPT !.todo = Tail(@)]
  PROVE  TaskFollows(d)'
<1> DEFINE n == Len(c.todo)
           pin == c.goal.pin
<1>0. /\ c \in CmdShape /\ TaskFollows(c) /\ c.todo # <<>> /\ Head(c.todo) = s
      /\ Bounded(c, s)
  BY DEF Finds
<1>1. OnPath(c) /\ GoalFits(c)
  BY <1>0 DEF TaskFollows
<1>2. /\ d.op = c.op /\ d.base = c.base /\ d.goal = c.goal /\ d.todo = Tail(c.todo)
      /\ d.keyed = c.keyed /\ d.alias = c.alias /\ d.approved = c.approved
      /\ d.back = c.back /\ d.blame = c.blame /\ d.keep = c.keep
  BY <1>0 DEF CmdShape
<1>3. ~c.back => NextForward(c, s, n) /\ Forward(d) /\ n \in 1..9 /\ Len(d.todo) = n - 1
  BY <1>0, <1>1, <1>2, ForwardIsNext DEF OnPath
<1>4. c.back => NextBack(c, s, n) /\ Backward(d) /\ n \in 1..5 /\ Len(d.todo) = n - 1
  BY <1>0, <1>1, <1>2, BackwardIsNext DEF OnPath
<1>6. OnPath(d) /\ GoalFits(d)
  BY <1>1, <1>2, <1>3, <1>4 DEF OnPath, GoalFits
<1> HIDE DEF n
<1>7. ConfigFollows(d)'
  <2>1. CASE c.back
    <3>1. ConfigFollows(c)
      BY <1>0 DEF TaskFollows
    <3>2. CASE s = "uncommit"
      BY <1>2, <2>1, <3>2 DEF Effect, ConfigFollows
    <3>3. CASE s # "uncommit"
      <4>1. s # "commit" /\ disk'.config = disk.config
        BY <1>4, <2>1, <3>3 DEF Effect, NextBack
      <4>2. disk.config = c.base \/ c.blame \/ c.keep
        BY <1>0, <2>1, <3>1, <3>3 DEF ConfigFollows
      <4> QED  BY <1>2, <2>1, <4>1, <4>2 DEF ConfigFollows
    <3> QED  BY <3>2, <3>3
  <2>2. CASE ~c.back
    <3>1. /\ disk.config = IF n >= 2 THEN c.base ELSE c.goal
          /\ s # "uncommit"
          /\ s = "commit" => n = 2
          /\ s # "commit" /\ n = 2 => c.goal = c.base
      BY <1>0, <1>3, <2>2 DEF n, TaskFollows, ConfigFollows, NextForward
    <3>2. disk'.config = IF s = "commit" THEN c.goal ELSE disk.config
      <4>1. CASE s = "commit"
        BY <4>1 DEF Effect
      <4>2. CASE s # "commit"
        BY <3>1, <4>2 DEF Effect
      <4> QED  BY <4>1, <4>2
    <3>3. disk'.config = IF n - 1 >= 2 THEN c.base ELSE c.goal
      BY <1>3, <2>2, <3>1, <3>2
    <3> QED  BY <1>2, <1>3, <2>2, <3>3 DEF ConfigFollows
  <2> QED  BY <2>1, <2>2
<1>8. TextsFollow(d)'
  <2>1. ASSUME ~c.back PROVE InstallAhead(d) \/ Good(PinOf(c.goal))'
    <3>1. CASE Good(PinOf(c.goal))
      BY <3>1, FoundTexts
    <3>2. CASE s \in {"install", "check"}
      BY <3>2, FoundTexts DEF Effect
    <3>3. CASE InstallAhead(c) /\ s \notin {"install", "check"}
      <4>1. /\ LastOf(d) = LastOf(c) /\ LastOf(c) \in {2, 3, 4}
            /\ c.goal # c.base => LastOf(c) # 2
        BY <1>2 DEF LastOf
      <4>2. s \in StepNames
        BY <1>0 DEF CmdShape
      <4>6. \/ c.op = "activate" /\ n >= 9
            \/ c.op = "migrate" /\ n >= 8
            \/ c.op = "unmigrate" /\ n >= LastOf(c)
        BY <3>3 DEF n, InstallAhead
      <4>7. /\ c.op = "activate" => n # 9
            /\ c.op = "migrate" => n # 8
            /\ c.op = "unmigrate" => n # LastOf(c)
        <5>1. s \in {"backup", "key", "alias", "approve", "stage", "receipt", "old", "new",
                     "last", "recheck", "commit", "verify"}
          BY <1>3, <2>1, <3>3, <4>2 DEF NextForward, StepNames
        <5>2. CASE s \in {"backup", "key", "alias", "approve", "stage", "receipt"}
          BY <1>3, <2>1, <5>2 DEF NextForward
        <5>3. CASE s \in {"old", "new", "last"}
          <6>1. n \in {LastOf(c) + 1, LastOf(c) + 2, LastOf(c) + 3}
            BY <1>3, <2>1, <5>3 DEF NextForward, Moves
          <6>2. c.op # "activate" /\ c.op = "migrate" => LastOf(c) = 3
            BY <1>3, <2>1, <5>3 DEF NextForward, Moves, LastOf
          <6>3. c.op # "activate"
            BY <1>3, <2>1, <5>3 DEF NextForward, Moves
          <6> QED  BY <4>1, <6>1, <6>2, <6>3
        <5>4. CASE s \in {"recheck", "commit", "verify"}
          <6>1. n \in {1, 2, 3} /\ (n # 1 => Commits(c))
            BY <1>3, <2>1, <5>4 DEF NextForward
          <6>2. c.op = "unmigrate" /\ n # 1 => LastOf(c) = 4
            BY <6>1 DEF Commits, LastOf
          <6> QED  BY <4>1, <6>1, <6>2
        <5> QED  BY <5>1, <5>2, <5>3, <5>4
      <4>8. \/ c.op = "activate" /\ n - 1 >= 9
            \/ c.op = "migrate" /\ n - 1 >= 8
            \/ c.op = "unmigrate" /\ n - 1 >= LastOf(d)
        BY <1>3, <2>1, <4>1, <4>6, <4>7
      <4> QED  BY <1>2, <1>3, <2>1, <4>8 DEF InstallAhead
    <3> QED  BY <1>0, <2>1, <3>1, <3>2, <3>3 DEF TaskFollows, TextsFollow
  <2> QED  BY <1>2, <2>1, FoundTexts DEF TextsFollow
<1>5. s \in StepNames /\ disk.keyed \in [Profiles -> 0..2] /\ Legacy \in Profiles
      /\ disk.approvals \in [Reviewed -> Nat] /\ pin \in Profiles
      /\ Migrated(Legacy) \in Profiles
  <2>1. s \in StepNames
    BY <1>0 DEF CmdShape
  <2>2. disk.keyed \in [Profiles -> 0..2] /\ disk.approvals \in [Reviewed -> Nat]
    BY DEF Finds, DiskShape
  <2> QED  BY <2>1, <2>2, FoundTexts, LegacyMigrates
<1>9. ProofsFollow(d)'
  <2>1. ASSUME c.op \in {"check", "activate"}
        PROVE  /\ s = "key" => disk'.keyed[pin] # NoProof
               /\ s = "unkey" => disk'.keyed[pin] = c.keyed
               /\ s \notin {"key", "unkey"} => disk'.keyed[pin] = disk.keyed[pin]
               /\ s = "alias" => disk'.alias = Proof(pin, disk.keyed[pin])
               /\ s = "unalias" => disk'.alias = c.alias
               /\ s \notin {"alias", "unalias"} => disk'.alias = disk.alias
               /\ s = "approve" => disk'.approvals[pin] = disk.approvals[pin] + 1
               /\ s = "unapprove" => disk'.approvals[pin] = c.approved
               /\ s \notin {"approve", "unapprove"} => disk'.approvals[pin] = disk.approvals[pin]
               /\ disk.approvals[pin] \in Nat
    <3>1. s \notin {"old", "new", "last"}
      BY <1>3, <1>4, <2>1 DEF NextForward, NextBack, Moves
    <3>2. pin \in Reviewed
      BY <1>1, <2>1 DEF GoalFits
    <3>3. NextProof(disk, pin) # NoProof
      BY DEF NextProof, NoProof
    <3>4. /\ s = "key" => disk'.keyed[pin] # NoProof
          /\ s = "unkey" => disk'.keyed[pin] = c.keyed
          /\ s \notin {"key", "unkey"} => disk'.keyed[pin] = disk.keyed[pin]
      BY <1>5, <3>1, <3>3 DEF Effect, KeyedAfter
    <3>5. /\ s = "alias" => disk'.alias = Proof(pin, disk.keyed[pin])
          /\ s = "unalias" => disk'.alias = c.alias
          /\ s \notin {"alias", "unalias"} => disk'.alias = disk.alias
      BY <3>1 DEF Effect, AliasAfter
    <3>6. /\ s = "approve" => disk'.approvals[pin] = disk.approvals[pin] + 1
          /\ s = "unapprove" => disk'.approvals[pin] = c.approved
          /\ s \notin {"approve", "unapprove"} => disk'.approvals[pin] = disk.approvals[pin]
          /\ disk.approvals[pin] \in Nat
      BY <1>5, <3>2 DEF Effect, ApprovalsAfter
    <3> QED  BY <3>4, <3>5, <3>6
  <2>2. ASSUME c.op = "check" PROVE CheckFollows(d)'
    <3>1. ~c.back /\ ((s = "key" /\ n = 2) \/ (s = "alias" /\ n = 1))
      BY <1>3, <1>4, <2>2 DEF NextForward, NextBack
    <3>2. /\ ApprovedAsWas(c) /\ (n >= 2 => KeyedAsWas(c))
          /\ (n < 2 => disk.keyed[c.goal.pin] # NoProof) /\ (n >= 1 => AliasAsWas(c))
      BY <1>0, <2>2, <3>1 DEF n, TaskFollows, ProofsFollow, CheckFollows
    <3>3. ApprovedAsWas(d)'
      BY <1>2, <2>1, <2>2, <3>1, <3>2 DEF ApprovedAsWas
    <3>4. disk'.keyed[pin] # NoProof /\ (n - 1 >= 1 => AliasAsWas(d)')
      BY <1>2, <2>1, <2>2, <3>1, <3>2 DEF AliasAsWas
    <3> QED  BY <1>2, <1>3, <3>1, <3>3, <3>4 DEF CheckFollows
  <2>3. ASSUME c.op = "activate", c.back PROVE UndoFollows(d)'
    <3>1. \/ s = "uncommit" /\ n = 5
          \/ s \in {"reverify", "inspect"} /\ n = 4
          \/ s = "unapprove" /\ n = 3
          \/ s = "unalias" /\ n = 2
          \/ s = "unkey" /\ n = 1
      BY <1>4, <2>3 DEF NextBack
    <3>2. \/ c.blame
          \/ /\ n < 3 => ApprovedAsWas(c)
             /\ n < 2 => AliasAsWas(c)
      BY <1>0, <2>3 DEF n, TaskFollows, ProofsFollow, UndoFollows
    <3>3. \/ c.blame
          \/ /\ n - 1 < 3 => ApprovedAsWas(d)'
             /\ n - 1 < 2 => AliasAsWas(d)'
             /\ n - 1 < 1 => KeyedAsWas(d)'
      BY <1>2, <2>1, <2>3, <3>1, <3>2 DEF ApprovedAsWas, AliasAsWas, KeyedAsWas
    <3> QED  BY <1>2, <1>4, <2>3, <3>3 DEF UndoFollows
  <2>4. ASSUME c.op = "activate", ~c.back PROVE ActivationFollows(d)'
    <3>1. \/ (s = "install" /\ n = 9) \/ (s = "backup" /\ n = 8)
          \/ (s = "key" /\ n = 7) \/ (s = "alias" /\ n = 6)
          \/ (s = "approve" /\ n = 5)
          \/ (s \in {"stage", "recheck", "commit", "verify"} /\ n \in 1..4)
      BY <1>3, <1>5, <2>4, NextByCommand
    <3>2. /\ n < 8 => PinOf(c.base) \in disk.backups
          /\ n >= 7 => KeyedAsWas(c)
          /\ n < 7 => disk.keyed[pin] # NoProof
          /\ n >= 6 => AliasAsWas(c)
          /\ n < 6 => disk.alias = Proof(pin, disk.keyed[pin])
          /\ n >= 5 => ApprovedAsWas(c)
          /\ n < 5 => disk.approvals[pin] > c.approved
      BY <1>0, <2>4 DEF n, TaskFollows, ProofsFollow, ActivationFollows
    <3>3. n - 1 < 8 => PinOf(c.base) \in disk'.backups
      BY <1>0, <3>1, <3>2 DEF Effect, Bounded
    <3>4. /\ n - 1 >= 7 => KeyedAsWas(d)'
          /\ n - 1 < 7 => disk'.keyed[pin] # NoProof
      BY <1>2, <2>1, <2>4, <3>1, <3>2 DEF KeyedAsWas
    <3>5. /\ n - 1 >= 6 => AliasAsWas(d)'
          /\ n - 1 < 6 => disk'.alias = Proof(pin, disk'.keyed[pin])
      BY <1>2, <2>1, <2>4, <3>1, <3>2 DEF AliasAsWas
    <3>6. /\ n - 1 >= 5 => ApprovedAsWas(d)'
          /\ n - 1 < 5 => disk'.approvals[pin] > c.approved
      BY <1>2, <2>1, <2>4, <3>1, <3>2 DEF ApprovedAsWas
    <3> QED  BY <1>2, <1>3, <2>4, <3>3, <3>4, <3>5, <3>6 DEF ActivationFollows
  <2>5. ASSUME c.op = "restore", ~c.back, n - 1 < 5 PROVE PinOf(c.base) \in disk'.backups
    <3>1. s = "backup" \/ n < 5
      BY <1>3, <1>5, <2>5, NextByCommand
    <3>2. n < 5 => PinOf(c.base) \in disk.backups
      BY <1>0, <2>5 DEF n, TaskFollows, ProofsFollow
    <3> QED  BY <1>0, <3>1, <3>2 DEF Effect, Bounded
  <2> QED  BY <1>2, <1>3, <2>2, <2>3, <2>4, <2>5 DEF ProofsFollow
<1>10. QuarantineFollows(d)'
  <2> SUFFICES ASSUME ~c.back
               PROVE  /\ c.op = "migrate" /\ n - 1 < 7 =>
                           [source |-> c.base, target |-> c.goal] \in disk'.receipts
                      /\ c.op \in {"migrate", "unmigrate"} => Quarantined(d, LastOf(d))'
    BY <1>2, <1>3 DEF QuarantineFollows
  <2>1. ASSUME c.op = "migrate", n - 1 < 7
        PROVE  [source |-> c.base, target |-> c.goal] \in disk'.receipts
    <3>1. s = "receipt" \/ n < 7
      <4>1. LastOf(c) = 3
        BY <2>1 DEF LastOf
      <4> QED  BY <1>3, <1>5, <2>1, <4>1, NextByCommand
    <3>2. n < 7 => [source |-> c.base, target |-> c.goal] \in disk.receipts
      BY <1>0, <2>1 DEF n, TaskFollows, QuarantineFollows
    <3> QED  BY <1>0, <3>1, <3>2 DEF Effect, Bounded
  <2>2. ASSUME c.op \in {"migrate", "unmigrate"} PROVE Quarantined(d, LastOf(d))'
    <3> DEFINE L == LastOf(c)
    <3>1. LastOf(d) = L /\ L \in {2, 3, 4} /\ (c.op = "migrate" => L = 3)
      BY <1>2 DEF LastOf
    <3>2. /\ (n < L + 3 => disk.keyed[Legacy] = NoProof)
          /\ (n < L + 2 => disk.keyed[Migrated(Legacy)] = NoProof)
          /\ (n < L + 1 => disk.alias = Nothing)
      BY <1>0, <2>2 DEF n, TaskFollows, QuarantineFollows, Quarantined
    <3> HIDE DEF L
    <3>3. /\ n = L + 3 => s = "old"
          /\ n = L + 2 => s = "new"
          /\ n = L + 1 => s = "last"
      BY <1>3, <1>5, <2>2, <3>1, NextByCommand DEF L
    <3>4. s \notin {"key", "unkey", "alias", "unalias"}
      BY <1>3, <2>2 DEF NextForward
    <3>5. /\ disk'.keyed[Legacy] = NoProof \/ (s # "old" /\ disk'.keyed[Legacy] = disk.keyed[Legacy])
          /\ \/ disk'.keyed[Migrated(Legacy)] = NoProof
             \/ s # "new" /\ disk'.keyed[Migrated(Legacy)] = disk.keyed[Migrated(Legacy)]
          /\ disk'.alias = Nothing \/ (s # "last" /\ disk'.alias = disk.alias)
      <4>1. disk'.keyed = CASE s = "old" -> [disk.keyed EXCEPT ![Legacy] = NoProof]
                            [] s = "new" -> [disk.keyed EXCEPT ![Migrated(Legacy)] = NoProof]
                            [] OTHER     -> disk.keyed
        BY <3>4 DEF Effect, KeyedAfter
      <4>2. disk'.alias = IF s = "last" THEN Nothing ELSE disk.alias
        BY <3>4 DEF Effect, AliasAfter
      <4> QED  BY <1>5, <4>1, <4>2
    <3>6. /\ n - 1 < L + 3 => disk'.keyed[Legacy] = NoProof
          /\ n - 1 < L + 2 => disk'.keyed[Migrated(Legacy)] = NoProof
          /\ n - 1 < L + 1 => disk'.alias = Nothing
      BY <1>3, <3>1, <3>2, <3>3, <3>5
    <3> QED  BY <1>2, <1>3, <3>1, <3>6 DEF Quarantined
  <2> QED  BY <2>1, <2>2
<1> QED  BY <1>6, <1>7, <1>8, <1>9, <1>10 DEF TaskFollows

\* saveSupportedProof that throws.
LEMMA ProofMissedFollows ==
  ASSUME NEW c, NEW s \in {"key", "alias"}, Finds(c, s), NEW told \in BOOLEAN,
         NEW d, d = [Fail(c) EXCEPT !.blame = told],
         told \/ (disk'.keyed[c.goal.pin] = c.keyed /\ disk'.alias = c.alias),
         disk'.approvals = disk.approvals
  PROVE  TaskFollows(d)'
<1> DEFINE n == Len(c.todo)
<1>0. /\ c \in CmdShape /\ TaskFollows(c) /\ c.todo # <<>> /\ Head(c.todo) = s
      /\ disk'.config = disk.config
  BY DEF Finds, Bounded
<1>1. OnPath(c) /\ GoalFits(c)
  BY <1>0 DEF TaskFollows
<1>2. /\ d.op = c.op /\ d.base = c.base /\ d.goal = c.goal /\ d.todo = <<>>
      /\ d.keyed = c.keyed /\ d.alias = c.alias /\ d.approved = c.approved
      /\ d.back /\ d.blame = told /\ d.keep = c.keep
  BY <1>0 DEF CmdShape, Fail
<1>3. ~c.back
  <2>1. c.back => NextBack(c, s, n)
    BY <1>0, <1>1, BackwardIsNext DEF OnPath
  <2> QED  BY <2>1 DEF NextBack
<1>4. NextForward(c, s, n)
  BY <1>0, <1>1, <1>3, ForwardIsNext DEF OnPath
<1>5. \/ c.op = "check" /\ ApprovedAsWas(c)
      \/ c.op = "activate" /\ ApprovedAsWas(c) /\ n >= 2
  <2>1. \/ c.op = "check"
        \/ c.op = "activate" /\ n \in {6, 7}
    BY <1>4 DEF NextForward
  <2>2. c.op = "check" => ApprovedAsWas(c)
    BY <1>0 DEF TaskFollows, ProofsFollow, CheckFollows
  <2>3. c.op = "activate" /\ n >= 5 => ApprovedAsWas(c)
    BY <1>0, <1>3 DEF TaskFollows, ProofsFollow, ActivationFollows
  <2> HIDE DEF n
  <2> QED  BY <2>1, <2>2, <2>3
<1>6. OnPath(d) /\ GoalFits(d)
  BY <1>1, <1>2 DEF OnPath, GoalFits, Backward
<1>7. ConfigFollows(d)'
  <2>1. disk.config = IF n >= 2 THEN c.base ELSE c.goal
    BY <1>0, <1>3 DEF TaskFollows, ConfigFollows
  <2>2. disk.config = c.base
    BY <1>1, <1>5, <2>1 DEF GoalFits
  <2> QED  BY <1>0, <1>2, <2>2 DEF ConfigFollows
<1>8. TextsFollow(d)'
  BY <1>2, FoundTexts DEF TextsFollow
<1>9. ProofsFollow(d)'
  <2>1. ApprovedAsWas(d)'
    BY <1>2, <1>5 DEF ApprovedAsWas
  <2>2. told \/ (KeyedAsWas(d)' /\ AliasAsWas(d)')
    BY <1>2 DEF KeyedAsWas, AliasAsWas
  <2> QED  BY <1>2, <1>5, <2>1, <2>2 DEF ProofsFollow, CheckFollows, UndoFollows
<1>10. QuarantineFollows(d)'
  BY <1>2 DEF QuarantineFollows
<1> QED  BY <1>6, <1>7, <1>8, <1>9, <1>10 DEF TaskFollows

\* The texts on the disk stay good, whichever is added to them.
LEMMA StepKeepsTexts ==
  ASSUME TextsKnown, NEW c, NEW s, Finds(c, s)
  PROVE  TextsKnown'
<1>0. /\ c \in CmdShape /\ TaskFollows(c) /\ c.todo # <<>> /\ Head(c.todo) = s
      /\ Bounded(c, s) /\ disk \in DiskShape
  BY DEF Finds
<1>1. OnPath(c) /\ GoalFits(c) /\ TextsFollow(c)
  BY <1>0 DEF TaskFollows
<1>2. ASSUME s \in {"commit", "receipt"}
      PROVE  Good(PinOf(c.goal))' /\ (s = "receipt" => c.op = "migrate")
  <2>1. ~c.back
    <3>1. c.back => NextBack(c, s, Len(c.todo))
      BY <1>0, <1>1, BackwardIsNext DEF OnPath
    <3> QED  BY <1>2, <3>1 DEF NextBack
  <2>2. NextForward(c, s, Len(c.todo))
    BY <1>0, <1>1, <2>1, ForwardIsNext DEF OnPath
  <2> DEFINE n == Len(c.todo)
  <2>3. \/ s = "commit" /\ Commits(c) /\ n = 2
        \/ s = "receipt" /\ c.op = "migrate" /\ n = 7
    BY <1>2, <2>2 DEF NextForward
  <2>5. InstallAhead(c) <=> \/ c.op = "activate" /\ n >= 9
                            \/ c.op = "migrate" /\ n >= 8
                            \/ c.op = "unmigrate" /\ n >= LastOf(c)
    BY DEF InstallAhead
  <2>6. c.op = "unmigrate" /\ Commits(c) => LastOf(c) = 4
    BY DEF LastOf, Commits
  <2> HIDE DEF n
  <2>4. ~InstallAhead(c)
    BY <2>3, <2>5, <2>6
  <2> QED  BY <1>1, <2>1, <2>3, <2>4, FoundTexts DEF TextsFollow
<1>3. \A t \in Texts : t \in Pins
  BY <1>0 DEF Texts, DiskShape, Configs, PinOf, Pins
<1>4. \A t \in Texts : Good(t)' /\ Placed(t)
  BY <1>0, <1>3, FoundTexts DEF TextsKnown, Bounded, GoodKept
<1>5. Good(PinOf(c.base))' /\ Placed(PinOf(c.base)) /\ Placed(PinOf(c.goal))
  BY FoundTexts
<1>6. ASSUME NEW r \in disk'.receipts
      PROVE  /\ Good(PinOf(r.source))' /\ Placed(PinOf(r.source))
             /\ Good(PinOf(r.target))' /\ Placed(PinOf(r.target))
             /\ r.source.pin = Legacy
  <2>1. CASE r \in disk.receipts
    <3>1. {PinOf(r.source), PinOf(r.target)} \subseteq Texts
      BY <2>1 DEF Texts
    <3> QED  BY <1>4, <2>1, <3>1 DEF TextsKnown
  <2>2. CASE s = "receipt" /\ r = [source |-> c.base, target |-> c.goal]
    <3>1. c.base.pin = Legacy
      BY <1>1, <1>2, <2>2 DEF GoalFits
    <3> QED  BY <1>2, <1>5, <2>2, <3>1
  <2> QED  BY <1>0, <2>1, <2>2 DEF Bounded
<1>7. ASSUME NEW t, t = PinOf(disk'.config) PROVE Good(t)' /\ Placed(t)
  <2>1. CASE disk'.config = disk.config
    BY <1>4, <1>7, <2>1 DEF Texts
  <2>2. CASE disk'.config = c.base
    BY <1>5, <1>7, <2>2
  <2>3. CASE s = "commit" /\ disk'.config = c.goal
    BY <1>2, <1>5, <1>7, <2>3
  <2> QED  BY <1>0, <2>1, <2>2, <2>3 DEF Bounded
<1>8. \A t \in disk'.backups : Good(t)' /\ Placed(t)
  BY <1>0, <1>4, <1>5 DEF Bounded, Texts
<1>9. ASSUME NEW t \in Texts' PROVE Good(t)' /\ Placed(t)
  <2>1. \/ t = PinOf(disk'.config) \/ t \in disk'.backups
        \/ \E r \in disk'.receipts : t = PinOf(r.source) \/ t = PinOf(r.target)
    BY <1>9 DEF Texts
  <2> QED  BY <1>6, <1>7, <1>8, <2>1
<1> QED  BY <1>6, <1>9 DEF TextsKnown

\* A command at a step is on its path, with its texts at hand.
LEMMA AtFinds ==
  ASSUME JInv, NEW p \in Procs, NEW s, At(p, s)
  PROVE  /\ Working(p) /\ cmd[p] \in CmdShape /\ TaskFollows(cmd[p])
         /\ cmd[p].todo # <<>> /\ Head(cmd[p].todo) = s /\ s \in StepNames
         /\ disk \in DiskShape /\ cmd[p].base \in Configs /\ cmd[p].goal \in Configs
         /\ cmd[p].alias \in RealAliases /\ PinOf(cmd[p].base) \in Pins
<1>1. IInv /\ WorkFollows /\ Names
  BY DEF JInv
<1>2. Working(p) /\ cmd[p].base \in Configs /\ cmd[p].goal \in Configs /\ Shape
      /\ PinOf(cmd[p].base) \in Pins
  BY <1>1, WorkingData
<1>3. cmd[p] \in CmdShape /\ disk \in DiskShape
  BY <1>2 DEF Shape
<1>4. cmd[p].todo # <<>> /\ Head(cmd[p].todo) = s
  BY DEF At
<1>5. s \in StepNames
  BY <1>3, <1>4 DEF CmdShape
<1> QED  BY <1>1, <1>2, <1>3, <1>4, <1>5 DEF WorkFollows, Names

LEMMA EndsKeepJInv ==
  ASSUME ConstantsOK, JInv, NEW p \in Procs, NEW s, StepShape(p), Ends(p, s)
  PROVE  JInv'
<1> DEFINE c == cmd[p]
<1>1. PICK d \in CmdShape : SameTask(c, d) /\ cmd' = [cmd EXCEPT ![p] = d]
  BY DEF StepShape
<1>2. At(p, s) /\ Bounded(c, s)
  BY DEF Ends
<1>3. /\ IInv /\ TextsKnown /\ Names /\ PlannedFits /\ WorkFollows /\ Working(p)
      /\ cmd \in [Procs -> CmdShape] /\ disk' \in DiskShape
  BY DEF JInv, IInv, Shape, StepShape
<1>4. c \in CmdShape /\ Finds(c, s) /\ c.alias \in RealAliases
  BY <1>2, <1>3, AtFinds DEF Finds
<1>5. cmd'[p] = d /\ \A q \in Procs \ {p} : cmd'[q] = cmd[q]
  BY <1>1, <1>3
<1>6. TaskFollows(d)'
  <2>1. CASE Done(p, s)
    <3>1. d = [c EXCEPT !.todo = Tail(@)]
      BY <1>3, <1>5, <2>1 DEF Done
    <3> QED  BY <1>4, <2>1, <3>1, DoneFollows DEF Done
  <2>2. CASE Missed(p, s)
    <3>1. PICK effect \in BOOLEAN :
            /\ cmd' = [cmd EXCEPT ![p] = Thrown(@, s, effect)]
            /\ disk'.config # disk.config => effect
      BY <2>2 DEF Missed
    <3>2. d = Thrown(c, s, effect)
      BY <1>3, <1>5, <3>1
    <3> QED  BY <1>1, <1>4, <2>2, <3>1, <3>2, MissedFollows DEF Missed
  <2>3. CASE ProofMissed(p, s)
    <3>1. PICK told \in BOOLEAN :
            /\ cmd' = [cmd EXCEPT ![p] = [Fail(@) EXCEPT !.blame = told]]
            /\ told \/ (disk'.keyed[c.goal.pin] = c.keyed /\ disk'.alias = c.alias)
      BY <2>3 DEF ProofMissed
    <3>2. d = [Fail(c) EXCEPT !.blame = told]
      BY <1>3, <1>5, <3>1
    <3> QED  BY <1>4, <2>3, <3>1, <3>2, ProofMissedFollows DEF ProofMissed
  <2> QED  BY <2>1, <2>2, <2>3 DEF Ends
<1>7. IInv'
  BY <1>3, StepKeepsIInv
<1>8. TextsKnown'
  BY <1>3, <1>4, StepKeepsTexts
<1>9. Names'
  <2>1. guard' = guard /\ socket' = socket
    BY DEF StepShape
  <2>2. hurt' \subseteq Pins /\ disk'.alias \in RealAliases
    BY <1>2 DEF Bounded
  <2>3. d.alias \in RealAliases
    BY <1>1, <1>4 DEF SameTask
  <2> QED  BY <1>3, <1>5, <2>1, <2>2, <2>3 DEF Names
<1>10. PlannedFits'
  <2>1. d.at = "working"
    BY <1>1, <1>3 DEF SameTask, Working
  <2> QED  BY <1>3, <1>5, <2>1 DEF PlannedFits, GoalFits
<1>11. WorkFollows'
  <2> SUFFICES ASSUME NEW q \in Procs, Working(q)' PROVE TaskFollows(cmd[q])'
    BY DEF WorkFollows
  <2>1. q = p
    <3>1. Working(q)
      BY <1>3, <1>5 DEF Working
    <3> QED  BY <1>3, <3>1, OneWorks
  <2> QED  BY <1>5, <1>6, <2>1
<1> QED  BY <1>7, <1>8, <1>9, <1>10, <1>11 DEF JInv

-----------------------------------------------------------------------------
(* Every step of a command is one of these.                                *)

Outcome(p, s, after) ==
  /\ At(p, s) /\ hurt' = hurt /\ disk' \in {disk, after}
  /\ \/ disk' = after /\ cmd' = [cmd EXCEPT ![p].todo = Tail(@)]
     \/ \E effect \in BOOLEAN :
          /\ cmd' = [cmd EXCEPT ![p] = Thrown(@, s, effect)]
          /\ disk' # disk => effect

LEMMA StepHasOutcome ==
  ASSUME NEW p \in Procs, NEW s, NEW after, Step(p, s, after)
  PROVE  Outcome(p, s, after)
<1>1. At(p, s) /\ hurt' = hurt
  BY DEF Step, Quiet
<1>2. ASSUME Returns(p, after) PROVE Outcome(p, s, after)
  BY <1>1, <1>2 DEF Returns, Outcome
<1>3. ASSUME NEW d \in {disk, after}, Throws(p, s, d) PROVE Outcome(p, s, after)
  <2>1. disk' = d /\ cmd' = [cmd EXCEPT ![p] = Thrown(@, s, d # disk)]
    BY <1>3 DEF Throws
  <2> DEFINE effect == d # disk
  <2>2. effect \in BOOLEAN /\ cmd' = [cmd EXCEPT ![p] = Thrown(@, s, effect)]
        /\ (disk' # disk => effect)
    BY <2>1
  <2> HIDE DEF effect
  <2> QED  BY <1>1, <2>1, <2>2 DEF Outcome
<1> QED  BY <1>2, <1>3 DEF Step

LEMMA StepIfHasOutcome ==
  ASSUME NEW p \in Procs, NEW s, NEW after, NEW holds \in BOOLEAN,
         StepIf(p, s, holds, after)
  PROVE  Outcome(p, s, after)
<1>1. CASE holds
  BY <1>1, StepHasOutcome DEF StepIf
<1>2. CASE ~holds
  <2>1. /\ At(p, s) /\ hurt' = hurt /\ disk' = disk
        /\ cmd' = [cmd EXCEPT ![p] = Thrown(@, s, FALSE)]
    BY <1>2 DEF StepIf, Refuses, Quiet
  <2> QED  BY <2>1 DEF Outcome
<1> QED  BY <1>1, <1>2

\* The disk as a step leaves it that writes no profile.
ConfigAfter(c, s) == CASE s = "commit"   -> c.goal
                       [] s = "uncommit" -> c.base
                       [] OTHER          -> disk.config
BackupsAfter(c, s) ==
  IF s = "backup" THEN disk.backups \cup {PinOf(c.base)} ELSE disk.backups
ReceiptsAfter(c, s) ==
  IF s = "receipt" THEN disk.receipts \cup {[source |-> c.base, target |-> c.goal]}
                   ELSE disk.receipts

After(c, s) ==
  [config |-> ConfigAfter(c, s), files |-> disk.files,
   keyed |-> KeyedAfter(c, s), alias |-> AliasAfter(c, s),
   approvals |-> ApprovalsAfter(c, s), backups |-> BackupsAfter(c, s),
   receipts |-> ReceiptsAfter(c, s)]

LEMMA SameFilesKeepGood ==
  ASSUME disk'.files = disk.files, hurt' = hurt
  PROVE  GoodKept /\ \A t : Good(t) <=> GoodAfter(t)
BY DEF GoodKept, GoodAfter, Good, Resolves

LEMMA OutcomeEnds ==
  ASSUME JInv, NEW p \in Procs,
         NEW s \in StepNames \ {"install", "key", "alias"},
         Outcome(p, s, After(cmd[p], s)),
         s = "check" /\ cmd' = [cmd EXCEPT ![p].todo = Tail(@)] => Resolves(cmd[p].goal)
  PROVE  Ends(p, s)
<1> DEFINE c == cmd[p]
           after == After(c, s)
<1>1. At(p, s) /\ hurt' = hurt /\ disk' \in {disk, after}
  BY DEF Outcome
<1>2. /\ c.alias \in RealAliases /\ disk.alias \in RealAliases /\ hurt \subseteq Pins
      /\ disk \in DiskShape
  BY <1>1, AtFinds DEF JInv, Names
<1>3. /\ after.config = ConfigAfter(c, s) /\ after.files = disk.files
      /\ after.keyed = KeyedAfter(c, s) /\ after.alias = AliasAfter(c, s)
      /\ after.approvals = ApprovalsAfter(c, s) /\ after.backups = BackupsAfter(c, s)
      /\ after.receipts = ReceiptsAfter(c, s)
  BY DEF After
<1> HIDE DEF after
<1>4. GoodKept /\ \A t : Good(t) <=> GoodAfter(t)
  BY <1>1, <1>3, SameFilesKeepGood
<1>5. Bounded(c, s)
  <2>1. disk'.config \in {disk.config} \cup (IF s = "commit" THEN {c.goal} ELSE {})
                                       \cup (IF s = "uncommit" THEN {c.base} ELSE {})
    BY <1>1, <1>3 DEF ConfigAfter
  <2>2. /\ disk.backups \subseteq disk'.backups
        /\ disk'.backups \subseteq disk.backups \cup {PinOf(c.base)}
        /\ disk.receipts \subseteq disk'.receipts
        /\ disk'.receipts \subseteq disk.receipts \cup
             (IF s = "receipt" THEN {[source |-> c.base, target |-> c.goal]} ELSE {})
    BY <1>1, <1>3 DEF BackupsAfter, ReceiptsAfter
  <2>3. disk'.alias \in RealAliases
    BY <1>1, <1>2, <1>3 DEF AliasAfter, RealAliases
  <2> QED  BY <1>1, <1>2, <1>4, <2>1, <2>2, <2>3 DEF Bounded
<1>6. ASSUME disk' = after, cmd' = [cmd EXCEPT ![p].todo = Tail(@)]
      PROVE  Done(p, s)
  <2>1. s = "check" => GoodAfter(PinOf(c.goal))
    BY <1>4, <1>6 DEF Good, Resolves, PinOf
  <2>2. s = "backup" => PinOf(c.base) \in disk'.backups
    BY <1>3, <1>6 DEF BackupsAfter
  <2>3. s = "receipt" => [source |-> c.base, target |-> c.goal] \in disk'.receipts
    BY <1>3, <1>6 DEF ReceiptsAfter
  <2> QED  BY <1>3, <1>6, <2>1, <2>2, <2>3 DEF Done, Effect, ConfigAfter
<1>7. ASSUME NEW effect \in BOOLEAN, cmd' = [cmd EXCEPT ![p] = Thrown(@, s, effect)],
             disk' # disk => effect
      PROVE  Missed(p, s)
  <2>1. s = "backup" => SameProofs
    BY <1>1, <1>3 DEF SameProofs, KeyedAfter, AliasAfter, ApprovalsAfter
  <2> QED  BY <1>7, <2>1 DEF Missed
<1>8. CASE disk' = after /\ cmd' = [cmd EXCEPT ![p].todo = Tail(@)]
  BY <1>1, <1>5, <1>6, <1>8 DEF Ends
<1>9. ASSUME NEW effect \in BOOLEAN, cmd' = [cmd EXCEPT ![p] = Thrown(@, s, effect)],
             disk' # disk => effect
      PROVE  Ends(p, s)
  BY <1>1, <1>5, <1>7, <1>9 DEF Ends
<1>10. \/ disk' = after /\ cmd' = [cmd EXCEPT ![p].todo = Tail(@)]
       \/ \E effect \in BOOLEAN :
            /\ cmd' = [cmd EXCEPT ![p] = Thrown(@, s, effect)]
            /\ disk' # disk => effect
  BY DEF Outcome, after
<1> QED  BY <1>8, <1>9, <1>10

-----------------------------------------------------------------------------
(* The steps that write no profile and no proof.                           *)

AfterIs(c, s) ==
  /\ s = "commit" => After(c, s) = [disk EXCEPT !.config = c.goal]
  /\ s = "uncommit" => After(c, s) = [disk EXCEPT !.config = c.base]
  /\ s = "backup" => After(c, s) = [disk EXCEPT !.backups = @ \cup {PinOf(c.base)}]
  /\ s = "receipt" => After(c, s) =
       [disk EXCEPT !.receipts = @ \cup {[source |-> c.base, target |-> c.goal]}]
  /\ s = "old" => After(c, s) = WithKeyed(disk, Legacy, NoProof)
  /\ s = "new" => After(c, s) = WithKeyed(disk, Migrated(Legacy), NoProof)
  /\ s = "unkey" => After(c, s) = WithKeyed(disk, c.goal.pin, c.keyed)
  /\ s = "last" => After(c, s) = [disk EXCEPT !.alias = Nothing]
  /\ s = "unalias" => After(c, s) = [disk EXCEPT !.alias = c.alias]
  /\ s = "approve" => After(c, s) = [disk EXCEPT !.approvals[c.goal.pin] = @ + 1]
  /\ s = "unapprove" => After(c, s) = [disk EXCEPT !.approvals[c.goal.pin] = c.approved]
  /\ s \in {"check", "stage", "recheck", "verify", "reverify", "inspect"} =>
       After(c, s) = disk

LEMMA AfterStep ==
  ASSUME disk \in DiskShape, NEW c, NEW s \in StepNames
  PROVE  AfterIs(c, s)
<1>1. CASE s \in {"commit", "uncommit"}
  BY <1>1 DEF After, DiskShape, ConfigAfter, BackupsAfter, ReceiptsAfter, KeyedAfter,
              AliasAfter, ApprovalsAfter, AfterIs
<1>2. CASE s \in {"backup", "receipt"}
  <2>1. CASE s = "backup"
    <3>1. After(c, s) = [disk EXCEPT !.backups = BackupsAfter(c, s)]
      BY <2>1 DEF After, DiskShape, ConfigAfter, ReceiptsAfter, KeyedAfter, AliasAfter,
                  ApprovalsAfter
    <3>2. BackupsAfter(c, s) = disk.backups \cup {PinOf(c.base)}
      BY <2>1 DEF BackupsAfter
    <3> QED  BY <2>1, <3>1, <3>2 DEF AfterIs
  <2>2. CASE s = "receipt"
    <3>1. After(c, s) = [disk EXCEPT !.receipts = ReceiptsAfter(c, s)]
      BY <2>2 DEF After, DiskShape, ConfigAfter, BackupsAfter, KeyedAfter, AliasAfter,
                  ApprovalsAfter
    <3>2. ReceiptsAfter(c, s) =
            disk.receipts \cup {[source |-> c.base, target |-> c.goal]}
      BY <2>2 DEF ReceiptsAfter
    <3> QED  BY <2>2, <3>1, <3>2 DEF AfterIs
  <2> QED  BY <1>2, <2>1, <2>2
<1>3. CASE s \in {"old", "new", "unkey"}
  <2>1. ASSUME NEW keyed, KeyedAfter(c, s) = keyed
        PROVE  After(c, s) = [disk EXCEPT !.keyed = keyed]
    BY <1>3, <2>1 DEF After, DiskShape, ConfigAfter, BackupsAfter, ReceiptsAfter, AliasAfter,
                      ApprovalsAfter
  <2>2. After(c, s) = [disk EXCEPT !.keyed = KeyedAfter(c, s)]
    BY <2>1
  <2> QED  BY <1>3, <2>2 DEF KeyedAfter, WithKeyed, AfterIs
<1>4. CASE s \in {"last", "unalias"}
  BY <1>4 DEF After, DiskShape, ConfigAfter, BackupsAfter, ReceiptsAfter, KeyedAfter,
              AliasAfter, ApprovalsAfter, AfterIs
<1>5. CASE s \in {"approve", "unapprove"}
  BY <1>5 DEF After, DiskShape, ConfigAfter, BackupsAfter, ReceiptsAfter, KeyedAfter,
              AliasAfter, ApprovalsAfter, AfterIs
<1>6. CASE s \in {"check", "stage", "recheck", "verify", "reverify", "inspect"}
  BY <1>6 DEF After, DiskShape, ConfigAfter, BackupsAfter, ReceiptsAfter, KeyedAfter,
              AliasAfter, ApprovalsAfter, AfterIs
<1>7. CASE s \in {"install", "key", "alias"}
  BY <1>7 DEF AfterIs
<1>8. \/ s \in {"commit", "uncommit"} \/ s \in {"backup", "receipt"}
      \/ s \in {"old", "new", "unkey"} \/ s \in {"last", "unalias"}
      \/ s \in {"approve", "unapprove"} \/ s \in {"install", "key", "alias"}
      \/ s \in {"check", "stage", "recheck", "verify", "reverify", "inspect"}
  BY DEF StepNames
<1> QED  BY <1>1, <1>2, <1>3, <1>4, <1>5, <1>6, <1>7, <1>8

LEMMA QuarantineIsLegacy ==
  ASSUME JInv, NEW p \in Procs, NEW s \in {"old", "new"}, At(p, s)
  PROVE  LegacyOf(cmd[p]) = Legacy /\ NewProof(cmd[p]) = Migrated(Legacy)
<1> DEFINE c == cmd[p]
<1>1. c \in CmdShape /\ TaskFollows(c) /\ c.todo # <<>> /\ Head(c.todo) = s
  BY AtFinds
<1>2. OnPath(c) /\ GoalFits(c)
  BY <1>1 DEF TaskFollows
<1>3. c.back => NextBack(c, s, Len(c.todo))
  BY <1>1, <1>2, BackwardIsNext DEF OnPath
<1>4. ~c.back => NextForward(c, s, Len(c.todo))
  BY <1>1, <1>2, ForwardIsNext DEF OnPath
<1>5. c.op \in {"migrate", "unmigrate"}
  BY <1>3, <1>4 DEF NextBack, NextForward, Moves
<1> QED  BY <1>2, <1>5 DEF LegacyOf, NewProof, GoalFits

LEMMA PlainStepsEnd ==
  ASSUME JInv, NEW p \in Procs,
         \/ BackupConfig(p) \/ Approve(p) \/ Stage(p) \/ WriteReceipt(p)
         \/ QuarantineOld(p) \/ QuarantineNew(p) \/ QuarantineLast(p)
         \/ Commit(p) \/ Unapprove(p) \/ Unalias(p) \/ Unkey(p)
  PROVE  \E s \in StepNames : Ends(p, s)
<1> DEFINE c == cmd[p]
           Plain == StepNames \ {"install", "key", "alias"}
<1>1. disk \in DiskShape
  BY DEF JInv, IInv, Shape
<1>2. ASSUME NEW s \in Plain \ {"check"}, Step(p, s, After(c, s)) PROVE Ends(p, s)
  BY <1>2, StepHasOutcome, OutcomeEnds
<1>3. {"backup", "approve", "stage", "receipt", "old", "new", "last", "commit", "unapprove",
       "unalias", "unkey"} \subseteq Plain \ {"check"}
  BY DEF StepNames
<1>4. PICK s \in Plain \ {"check"} : Step(p, s, After(c, s))
  <2>1. CASE BackupConfig(p)
    <3>1. After(c, "backup") = [disk EXCEPT !.backups = @ \cup {PinOf(c.base)}]
      BY <1>1, <1>3, AfterStep DEF AfterIs
    <3> QED  BY <1>3, <2>1, <3>1 DEF BackupConfig
  <2>2. CASE Approve(p)
    BY <1>1, <1>3, <2>2, AfterStep DEF AfterIs, Approve
  <2>3. CASE Stage(p)
    <3>1. After(c, "stage") = disk
      BY <1>1, <1>3, AfterStep DEF AfterIs
    <3> QED  BY <1>3, <2>3, <3>1 DEF Stage
  <2>4. CASE WriteReceipt(p)
    <3>1. After(c, "receipt") =
            [disk EXCEPT !.receipts = @ \cup {[source |-> c.base, target |-> c.goal]}]
      BY <1>1, <1>3, AfterStep DEF AfterIs
    <3> QED  BY <1>3, <2>4, <3>1 DEF WriteReceipt
  <2>5. CASE QuarantineOld(p)
    <3>1. At(p, "old")
      BY <2>5 DEF QuarantineOld, Step
    <3> QED  BY <1>1, <1>3, <2>5, <3>1, QuarantineIsLegacy, AfterStep DEF AfterIs, QuarantineOld
  <2>6. CASE QuarantineNew(p)
    <3>1. At(p, "new")
      BY <2>6 DEF QuarantineNew, Step
    <3> QED  BY <1>1, <1>3, <2>6, <3>1, QuarantineIsLegacy, AfterStep DEF AfterIs, QuarantineNew
  <2>7. CASE QuarantineLast(p)
    BY <1>1, <1>3, <2>7, AfterStep DEF AfterIs, QuarantineLast
  <2>8. CASE Commit(p)
    BY <1>1, <1>3, <2>8, AfterStep DEF AfterIs, Commit
  <2>9. CASE Unapprove(p)
    BY <1>1, <1>3, <2>9, AfterStep DEF AfterIs, Unapprove
  <2>10. CASE Unalias(p)
    BY <1>1, <1>3, <2>10, AfterStep DEF AfterIs, Unalias
  <2>11. CASE Unkey(p)
    BY <1>1, <1>3, <2>11, AfterStep DEF AfterIs, Unkey
  <2> QED
    BY <2>1, <2>2, <2>3, <2>4, <2>5, <2>6, <2>7, <2>8, <2>9, <2>10, <2>11
<1> QED  BY <1>2, <1>4

LEMMA ChecksEnd ==
  ASSUME JInv, NEW p \in Procs,
         CheckProfile(p) \/ Recheck(p) \/ Verify(p) \/ Uncommit(p) \/ Reverify(p) \/ Inspect(p)
  PROVE  \E s \in StepNames : Ends(p, s)
<1> DEFINE c == cmd[p]
           Plain == StepNames \ {"install", "key", "alias"}
<1>1. disk \in DiskShape
  BY DEF JInv, IInv, Shape
<1>2. ASSUME NEW s \in Plain \ {"check"}, NEW holds \in BOOLEAN,
             StepIf(p, s, holds, After(c, s))
      PROVE  Ends(p, s)
  BY <1>2, StepIfHasOutcome, OutcomeEnds
<1>3. {"check", "recheck", "verify", "uncommit", "reverify", "inspect"} \subseteq Plain
  BY DEF StepNames
<1>4. /\ Resolves(c.goal) \in BOOLEAN /\ CommitAllowed(c) \in BOOLEAN
      /\ Verified(c) \in BOOLEAN
  BY DEF Resolves, CommitAllowed, Verified
<1>5. CASE CheckProfile(p)
  <2> DEFINE holds == Resolves(c.goal)
  <2>1. StepIf(p, "check", holds, After(c, "check"))
    BY <1>1, <1>3, <1>5, AfterStep DEF AfterIs, CheckProfile
  <2>2. Outcome(p, "check", After(c, "check"))
    BY <1>4, <2>1, StepIfHasOutcome
  <2>3. At(p, "check")
    BY <2>2 DEF Outcome
  <2>4. cmd[p] \in CmdShape /\ c.todo # <<>> /\ cmd \in [Procs -> CmdShape]
    BY <2>3, AtFinds DEF JInv, IInv, Shape
  <2>5. ASSUME cmd' = [cmd EXCEPT ![p].todo = Tail(@)] PROVE holds
    <3> SUFFICES ASSUME ~holds PROVE FALSE
      OBVIOUS
    <3>1. cmd' = [cmd EXCEPT ![p] = Thrown(@, "check", FALSE)]
      BY <2>1 DEF StepIf, Refuses
    <3>2. [c EXCEPT !.todo = Tail(@)] = Thrown(c, "check", FALSE)
      BY <2>4, <2>5, <3>1
    <3>3. TaskFollows(c) /\ Head(c.todo) = "check"
      BY <2>3, AtFinds
    <3>4. c.back => NextBack(c, "check", Len(c.todo))
      BY <2>4, <3>3, BackwardIsNext DEF TaskFollows, OnPath
    <3>5. ~c.back
      BY <3>4 DEF NextBack
    <3>6. NextForward(c, "check", Len(c.todo))
      BY <2>4, <3>3, <3>5, ForwardIsNext DEF TaskFollows, OnPath
    <3>7. c.op = "unmigrate"
      BY <3>6 DEF NextForward
    <3>8. Thrown(c, "check", FALSE).back
      BY <2>4, <3>5, <3>7 DEF Thrown, CatchOffline, Fail, CmdShape, Offline
    <3>9. [c EXCEPT !.todo = Tail(@)].back = c.back
      BY <2>4 DEF CmdShape
    <3> QED  BY <3>2, <3>5, <3>8, <3>9
  <2> QED  BY <1>3, <2>2, <2>5, OutcomeEnds
<1>6. CASE Recheck(p)
  BY <1>1, <1>2, <1>3, <1>4, <1>6, AfterStep DEF AfterIs, Recheck
<1>7. CASE Verify(p)
  BY <1>1, <1>2, <1>3, <1>4, <1>7, AfterStep DEF AfterIs, Verify
<1>8. CASE Uncommit(p)
  <2> DEFINE holds == disk.config \in {c.base, c.goal}
  <2>1. After(c, "uncommit") = [disk EXCEPT !.config = c.base]
    BY <1>1, <1>3, AfterStep DEF AfterIs
  <2>2. StepIf(p, "uncommit", holds, After(c, "uncommit"))
    BY <1>8, <2>1 DEF Uncommit
  <2>3. holds \in BOOLEAN
    OBVIOUS
  <2> HIDE DEF holds
  <2> QED  BY <1>2, <1>3, <2>2, <2>3
<1>9. CASE Reverify(p)
  <2> DEFINE holds == disk.config = c.base /\ (c.op \notin Offline => Resolves(c.base))
  <2>1. After(c, "reverify") = disk
    BY <1>1, <1>3, AfterStep DEF AfterIs
  <2>2. StepIf(p, "reverify", holds, After(c, "reverify"))
    BY <1>9, <2>1 DEF Reverify
  <2>3. holds \in BOOLEAN
    OBVIOUS
  <2> HIDE DEF holds
  <2> QED  BY <1>2, <1>3, <2>2, <2>3
<1>10. CASE Inspect(p)
  <2> DEFINE holds == PinOf(disk.config) # PinOf(c.goal)
  <2>1. After(c, "inspect") = disk
    BY <1>1, <1>3, AfterStep DEF AfterIs
  <2>2. StepIf(p, "inspect", holds, After(c, "inspect"))
    BY <1>10, <2>1 DEF Inspect
  <2>3. holds \in BOOLEAN
    OBVIOUS
  <2> HIDE DEF holds
  <2> QED  BY <1>2, <1>3, <2>2, <2>3
<1> QED  BY <1>5, <1>6, <1>7, <1>8, <1>9, <1>10

-----------------------------------------------------------------------------
(* The steps that save a proof.                                            *)

LEMMA SavesEnds ==
  ASSUME JInv, NEW p \in Procs, NEW s \in {"key", "alias"}, NEW after, Saves(p, s, after),
         after.config = disk.config, after.files = disk.files,
         after.backups = disk.backups, after.receipts = disk.receipts,
         after.approvals = disk.approvals,
         after.keyed = KeyedAfter(cmd[p], s), after.alias = AliasAfter(cmd[p], s),
         after.alias \in RealAliases
  PROVE  Ends(p, s)
<1> DEFINE c == cmd[p]
           pin == c.goal.pin
<1>1. At(p, s) /\ hurt' = hurt
  BY DEF Saves, Quiet
<1>2. /\ c.alias \in RealAliases /\ hurt \subseteq Pins /\ c.goal \in Configs
      /\ disk \in DiskShape
  BY <1>1, AtFinds DEF JInv, Names
<1>3. ASSUME disk'.config = disk.config, disk'.files = disk.files,
             disk'.backups = disk.backups, disk'.receipts = disk.receipts,
             disk'.alias \in RealAliases
      PROVE  Bounded(c, s)
  <2>1. GoodKept
    BY <1>1, <1>3, SameFilesKeepGood
  <2> QED  BY <1>1, <1>2, <1>3, <2>1 DEF Bounded
<1>4. CASE Returns(p, after)
  <2>1. disk' = after /\ cmd' = [cmd EXCEPT ![p].todo = Tail(@)]
    BY <1>4 DEF Returns
  <2>2. ApprovalsAfter(c, s) = disk.approvals
    BY DEF ApprovalsAfter
  <2>3. Done(p, s)
    BY <2>1, <2>2 DEF Done, Effect
  <2> QED  BY <1>1, <1>3, <2>1, <2>3 DEF Ends
<1>5. CASE ProofFails(p, after)
  <2>1. PICK k \in {after.keyed[pin], c.keyed}, a \in {after.alias, c.alias} :
          /\ disk' = [disk EXCEPT !.keyed[pin] = k, !.alias = a]
          /\ cmd' = [cmd EXCEPT ![p] = [Fail(c) EXCEPT !.blame = (k # c.keyed \/ a # c.alias)]]
    BY <1>5 DEF ProofFails
  <2> DEFINE told == k # c.keyed \/ a # c.alias
  <2>2. told \in BOOLEAN /\ cmd' = [cmd EXCEPT ![p] = [Fail(@) EXCEPT !.blame = told]]
    BY <2>1
  <2>3. /\ disk'.config = disk.config /\ disk'.files = disk.files
        /\ disk'.backups = disk.backups /\ disk'.receipts = disk.receipts
        /\ disk'.approvals = disk.approvals /\ disk'.alias = a
        /\ disk'.keyed = [disk.keyed EXCEPT ![pin] = k]
    BY <1>2, <2>1 DEF DiskShape
  <2>4. pin \in Profiles /\ disk.keyed \in [Profiles -> 0..2]
    BY <1>2 DEF Configs, DiskShape
  <2>5. disk'.keyed[pin] = k
    BY <2>3, <2>4
  <2>6. told \/ (disk'.keyed[pin] = c.keyed /\ disk'.alias = c.alias)
    BY <2>3, <2>5
  <2> HIDE DEF told
  <2>7. ProofMissed(p, s)
    BY <2>2, <2>3, <2>6 DEF ProofMissed
  <2> QED  BY <1>1, <1>2, <1>3, <2>3, <2>7 DEF Ends
<1> QED  BY <1>4, <1>5 DEF Saves

LEMMA ProofStepsEnd ==
  ASSUME JInv, NEW p \in Procs, SaveKeyed(p) \/ SaveAlias(p)
  PROVE  \E s \in StepNames : Ends(p, s)
<1> DEFINE c == cmd[p]
           pin == c.goal.pin
<1>1. disk \in DiskShape /\ disk.alias \in RealAliases /\ {"key", "alias"} \subseteq StepNames
  BY DEF JInv, IInv, Shape, Names, StepNames
<1>2. CASE SaveKeyed(p)
  <2> DEFINE next == NextProof(disk, pin)
             after == WithKeyed(disk, pin, next)
  <2>1. Saves(p, "key", after)
    BY <1>2 DEF SaveKeyed
  <2>2. /\ after.config = disk.config /\ after.files = disk.files
        /\ after.backups = disk.backups /\ after.receipts = disk.receipts
        /\ after.approvals = disk.approvals /\ after.alias = disk.alias
        /\ after.keyed = [disk.keyed EXCEPT ![pin] = next]
    <3> HIDE DEF next
    <3> QED  BY <1>1 DEF WithKeyed, DiskShape
  <2>3. KeyedAfter(c, "key") = after.keyed /\ AliasAfter(c, "key") = disk.alias
    BY <2>2 DEF KeyedAfter, AliasAfter
  <2> HIDE DEF after
  <2> QED  BY <1>1, <2>1, <2>2, <2>3, SavesEnds
<1>3. CASE SaveAlias(p)
  <2> DEFINE last == disk.keyed[pin]
             after == WithAlias(disk, pin, last)
  <2>1. Saves(p, "alias", after) /\ At(p, "alias")
    BY <1>3 DEF SaveAlias, Saves
  <2>2. c \in CmdShape /\ TaskFollows(c) /\ c.todo # <<>> /\ Head(c.todo) = "alias"
        /\ pin \in Profiles
    BY <2>1, AtFinds DEF Configs
  <2>3. ~c.back
    <3>1. c.back => NextBack(c, "alias", Len(c.todo))
      BY <2>2, BackwardIsNext DEF TaskFollows, OnPath
    <3> QED  BY <3>1 DEF NextBack
  <2>4. /\ NextForward(c, "alias", Len(c.todo))
    BY <2>2, <2>3, ForwardIsNext DEF TaskFollows, OnPath
  <2>5. last \in 1..2
    <3> DEFINE n == Len(c.todo)
    <3>1. (c.op = "check" /\ n = 1) \/ (c.op = "activate" /\ n = 6)
      BY <2>4 DEF NextForward
    <3>2. /\ c.op = "check" /\ n < 2 => last # NoProof
          /\ c.op = "activate" /\ n < 7 => last # NoProof
      BY <2>2, <2>3 DEF TaskFollows, ProofsFollow, CheckFollows, ActivationFollows
    <3> HIDE DEF n
    <3>3. last # NoProof
      BY <3>1, <3>2
    <3>4. last \in 0..2
      BY <1>1, <2>2 DEF DiskShape
    <3> QED  BY <3>3, <3>4 DEF NoProof
  <2> HIDE DEF last
  <2>6. /\ after.config = disk.config /\ after.files = disk.files
        /\ after.backups = disk.backups /\ after.receipts = disk.receipts
        /\ after.approvals = disk.approvals /\ after.keyed = disk.keyed
        /\ after.alias = Proof(pin, last)
    BY <1>1 DEF WithAlias, DiskShape
  <2>7. Proof(pin, last) \in RealAliases
    BY <2>2, <2>5 DEF Proof, RealAliases
  <2>8. KeyedAfter(c, "alias") = disk.keyed /\ AliasAfter(c, "alias") = Proof(pin, last)
    BY DEF KeyedAfter, AliasAfter, last
  <2> HIDE DEF after
  <2> QED  BY <1>1, <2>1, <2>6, <2>7, <2>8, SavesEnds
<1> QED  BY <1>2, <1>3

-----------------------------------------------------------------------------
(* The step that writes a profile.                                         *)

\* What is at the place of the fallback is moved away.
Moved(p) ==
  /\ At(p, "install") /\ UNCHANGED <<guard, socket, daemon, cmd, hurt, unsure>>
  /\ disk' = [disk EXCEPT !.files[cmd[p].goal.path] = Nothing]

LEMMA InstallEnds ==
  ASSUME ConstantsOK, JInv, NEW p \in Procs, Install(p)
  PROVE  GoodKept /\ (Ends(p, "install") \/ Moved(p))
<1> DEFINE c == cmd[p]
           goal == c.goal
           found == disk.files[goal.path]
           written == [disk EXCEPT !.files[goal.path] = goal.pin]
           gone == [disk EXCEPT !.files[goal.path] = Nothing]
<1>1. At(p, "install") /\ "install" \in StepNames
  BY DEF Install, StepNames
<1>2. /\ c \in CmdShape /\ TaskFollows(c) /\ c.todo # <<>> /\ Head(c.todo) = "install"
      /\ disk \in DiskShape /\ goal \in Configs /\ hurt \subseteq Pins
      /\ disk.alias \in RealAliases /\ goal.path \in Places /\ goal.pin \in Profiles
  BY <1>1, AtFinds DEF JInv, Names, Configs
<1>3. c.op = "unmigrate" => goal.path = "fallback" /\ goal.pin = Legacy
  <2>1. c.back => NextBack(c, "install", Len(c.todo))
    BY <1>2, BackwardIsNext DEF TaskFollows, OnPath
  <2>2. ~c.back
    BY <2>1 DEF NextBack
  <2>3. NextForward(c, "install", Len(c.todo)) /\ GoalFits(c)
    BY <1>2, <2>2, ForwardIsNext DEF TaskFollows, OnPath
  <2> QED  BY <2>3 DEF NextForward, GoalFits
<1>4. /\ \A f \in Places : disk.files[f] \in Profiles \cup {Nothing, Damaged}
      /\ \A f \in Places : written.files[f] = IF f = goal.path THEN goal.pin ELSE disk.files[f]
      /\ \A f \in Places : gone.files[f] = IF f = goal.path THEN Nothing ELSE disk.files[f]
  BY <1>2 DEF DiskShape
<1>5. ASSUME NEW d, d.config = disk.config, d.keyed = disk.keyed, d.alias = disk.alias,
             d.approvals = disk.approvals, d.backups = disk.backups,
             d.receipts = disk.receipts, disk' = d, hurt' \subseteq hurt, GoodKept
      PROVE  Bounded(c, "install") /\ SameProofs
  BY <1>2, <1>5 DEF Bounded, SameProofs
<1>6. /\ disk' = disk /\ hurt' = hurt => GoodKept
      /\ disk' = written /\ hurt' = hurt \ {PinOf(goal)} /\ InstallAllows(found, goal.pin)
           => GoodKept /\ GoodAfter(PinOf(goal))
      /\ disk' = gone /\ hurt' = hurt /\ c.op = "unmigrate" /\ ~InstallAllows(found, goal.pin)
           => GoodKept
  <2>1. ASSUME disk' = disk, hurt' = hurt PROVE GoodKept
    BY <2>1, SameFilesKeepGood
  <2>2. ASSUME disk' = written, hurt' = hurt \ {PinOf(goal)}, InstallAllows(found, goal.pin)
        PROVE  GoodKept /\ GoodAfter(PinOf(goal))
    <3>1. found \in {Nothing, goal.pin} /\ Nothing \notin Profiles
      BY <2>2 DEF InstallAllows, ConstantsOK
    <3>2. PinOf(goal).path = goal.path /\ PinOf(goal).pin = goal.pin
      BY DEF PinOf
    <3>3. GoodAfter(PinOf(goal))
      BY <1>2, <1>4, <2>2, <3>2 DEF GoodAfter
    <3>4. ASSUME NEW t \in Pins, Good(t) PROVE GoodAfter(t)
      <4>1. t.path \in Places /\ t.pin \in Profiles
        BY DEF Pins
      <4>2. CASE t = PinOf(goal)
        BY <3>3, <4>2
      <4>3. CASE t # PinOf(goal) /\ t \in hurt
        BY <2>2, <4>3 DEF GoodAfter
      <4>4. CASE disk.files[t.path] = t.pin
        <5>1. t.path = goal.path => t.pin = goal.pin
          BY <3>1, <4>1, <4>4
        <5>2. disk'.files[t.path] = t.pin
          BY <1>4, <2>2, <4>1, <4>4, <5>1
        <5> QED  BY <5>2 DEF GoodAfter
      <4> QED  BY <3>4, <4>2, <4>3, <4>4 DEF Good, Resolves
    <3> QED  BY <3>3, <3>4 DEF GoodKept
  <2>3. ASSUME disk' = gone, hurt' = hurt, c.op = "unmigrate", ~InstallAllows(found, goal.pin)
        PROVE  GoodKept
    <3>1. found # Legacy /\ goal.path = "fallback"
      BY <1>3, <2>3 DEF InstallAllows
    <3>2. ASSUME NEW t \in Pins, Placed(t), Good(t) PROVE GoodAfter(t)
      <4>1. t.path \in Places
        BY DEF Pins
      <4>2. CASE t \in hurt
        BY <2>3, <4>2 DEF GoodAfter
      <4>3. CASE disk.files[t.path] = t.pin
        <5>1. t.path # goal.path
          BY <3>1, <3>2, <4>3 DEF Placed
        <5> QED  BY <1>4, <2>3, <4>1, <4>3, <5>1 DEF GoodAfter
      <4> QED  BY <3>2, <4>2, <4>3 DEF Good, Resolves
    <3> QED  BY <3>2 DEF GoodKept
  <2> QED  BY <2>1, <2>2, <2>3
<1>7. \A d \in {disk, written, gone} :
        /\ d.config = disk.config /\ d.keyed = disk.keyed /\ d.alias = disk.alias
        /\ d.approvals = disk.approvals /\ d.backups = disk.backups
        /\ d.receipts = disk.receipts
  BY <1>2 DEF DiskShape
<1> HIDE DEF written, gone
<1>8. /\ disk' \in {disk, written, gone} /\ hurt' \subseteq hurt
      /\ \/ /\ disk' = written /\ hurt' = hurt \ {PinOf(goal)} /\ InstallAllows(found, goal.pin)
            /\ \/ cmd' = [cmd EXCEPT ![p].todo = Tail(@)]
               \/ cmd' = [cmd EXCEPT ![p] = Thrown(@, "install", written # disk)]
         \/ /\ disk' = disk /\ hurt' = hurt
            /\ \E effect \in BOOLEAN : cmd' = [cmd EXCEPT ![p] = Thrown(@, "install", effect)]
         \/ /\ disk' = gone /\ hurt' = hurt /\ c.op = "unmigrate"
            /\ ~InstallAllows(found, goal.pin)
            /\ \/ Moved(p)
               \/ cmd' = [cmd EXCEPT ![p] = Thrown(@, "install", gone # disk)]
  <2>1. CASE InstallAllows(found, goal.pin)
    <3>1. /\ \/ Returns(p, written) /\ hurt' = hurt \ {PinOf(goal)}
             \/ Throws(p, "install", written) /\ hurt' = hurt \ {PinOf(goal)}
             \/ Throws(p, "install", disk) /\ hurt' = hurt
      BY <2>1 DEF Install, written
    <3>2. CASE Throws(p, "install", disk) /\ hurt' = hurt
      <4>1. disk' = disk /\ cmd' = [cmd EXCEPT ![p] = Thrown(@, "install", FALSE)]
        BY <3>2 DEF Throws
      <4> QED  BY <3>2, <4>1
    <3> QED  BY <2>1, <3>1, <3>2 DEF Returns, Throws
  <2>2. CASE ~InstallAllows(found, goal.pin) /\ c.op = "unmigrate"
    <3>1. /\ \/ disk' = gone /\ UNCHANGED <<cmd, unsure, budget>>
             \/ Throws(p, "install", gone)
             \/ Throws(p, "install", disk)
          /\ Quiet
      BY <2>2 DEF Install, gone
    <3>2. hurt' = hurt
      BY <3>1 DEF Quiet
    <3>3. CASE disk' = gone /\ UNCHANGED <<cmd, unsure, budget>>
      <4>1. Moved(p)
        BY <1>1, <3>1, <3>3 DEF Moved, gone, Quiet
      <4> QED  BY <2>2, <3>2, <3>3, <4>1
    <3>4. CASE Throws(p, "install", disk)
      <4>1. disk' = disk /\ cmd' = [cmd EXCEPT ![p] = Thrown(@, "install", FALSE)]
        BY <3>4 DEF Throws
      <4> QED  BY <3>2, <4>1
    <3>5. CASE Throws(p, "install", gone)
      BY <2>2, <3>2, <3>5 DEF Throws
    <3> QED  BY <3>1, <3>3, <3>4, <3>5
  <2>3. CASE ~InstallAllows(found, goal.pin) /\ c.op # "unmigrate"
    <3>1. Refuses(p, "install")
      BY <2>3 DEF Install
    <3>2. disk' = disk /\ hurt' = hurt /\ cmd' = [cmd EXCEPT ![p] = Thrown(@, "install", FALSE)]
      BY <3>1 DEF Refuses, Quiet
    <3> QED  BY <3>2
  <2> QED  BY <2>1, <2>2, <2>3
<1>9. GoodKept /\ Bounded(c, "install") /\ SameProofs
  BY <1>5, <1>6, <1>7, <1>8
<1>10. ASSUME disk' = written, GoodAfter(PinOf(goal)), cmd' = [cmd EXCEPT ![p].todo = Tail(@)]
       PROVE  Done(p, "install")
  BY <1>7, <1>10 DEF Done, Effect, KeyedAfter, AliasAfter, ApprovalsAfter
<1>11. ASSUME NEW effect \in BOOLEAN, cmd' = [cmd EXCEPT ![p] = Thrown(@, "install", effect)]
       PROVE  Missed(p, "install")
  <2>1. disk'.config = disk.config
    BY <1>7, <1>8
  <2> QED  BY <1>9, <1>11, <2>1 DEF Missed
<1>12. \/ Done(p, "install") \/ Missed(p, "install") \/ Moved(p)
  BY <1>6, <1>8, <1>10, <1>11
<1> QED  BY <1>1, <1>9, <1>12 DEF Ends

-----------------------------------------------------------------------------
(* The steps of the working command.                                       *)

\* Proofs, config and the ways back are as they were, and no good text is lost.
Unharmed ==
  /\ disk'.config = disk.config /\ SameProofs
  /\ disk.backups \subseteq disk'.backups /\ disk.receipts \subseteq disk'.receipts
  /\ GoodKept

LEMMA UnharmedTask ==
  ASSUME Unharmed, NEW c, TaskFollows(c), c.base \in Configs, c.goal \in Configs
  PROVE  TaskFollows(c)'
<1>1. /\ disk'.config = disk.config /\ disk'.keyed = disk.keyed /\ disk'.alias = disk.alias
      /\ disk'.approvals = disk.approvals
      /\ disk.backups \subseteq disk'.backups /\ disk.receipts \subseteq disk'.receipts
  BY DEF Unharmed, SameProofs
<1>2. OnPath(c) /\ GoalFits(c) /\ ConfigFollows(c)'
  BY <1>1 DEF TaskFollows, ConfigFollows
<1>3. TextsFollow(c)'
  <2>1. PinOf(c.base) \in Pins /\ PinOf(c.goal) \in Pins
    BY DEF PinOf, Configs, Pins
  <2>2. \A t : GoodAfter(t) <=> Good(t)'
    BY DEF GoodAfter, Good, Resolves
  <2>3. TextsFollow(c) /\ GoodKept
    BY DEF TaskFollows, Unharmed
  <2> QED  BY <2>1, <2>2, <2>3 DEF TextsFollow, GoodKept
<1>4. ProofsFollow(c)'
  <2>1. ProofsFollow(c)
    BY DEF TaskFollows
  <2>2. CheckFollows(c) => CheckFollows(c)'
    BY <1>1 DEF CheckFollows, KeyedAsWas, AliasAsWas, ApprovedAsWas
  <2>3. UndoFollows(c) => UndoFollows(c)'
    BY <1>1 DEF UndoFollows, KeyedAsWas, AliasAsWas, ApprovedAsWas
  <2>4. ActivationFollows(c) => ActivationFollows(c)'
    BY <1>1 DEF ActivationFollows, KeyedAsWas, AliasAsWas, ApprovedAsWas
  <2> QED  BY <1>1, <2>1, <2>2, <2>3, <2>4 DEF ProofsFollow
<1>5. QuarantineFollows(c)'
  BY <1>1 DEF TaskFollows, QuarantineFollows, Quarantined
<1> QED  BY <1>2, <1>3, <1>4, <1>5 DEF TaskFollows

LEMMA UnharmedTexts ==
  ASSUME TextsKnown, Unharmed, disk \in DiskShape,
         disk'.backups = disk.backups, disk'.receipts = disk.receipts
  PROVE  TextsKnown'
<1>1. Texts' = Texts
  BY DEF Texts, Unharmed
<1>2. \A t \in Texts : t \in Pins
  BY DEF Texts, DiskShape, Configs, PinOf, Pins
<1>3. \A t : GoodAfter(t) <=> Good(t)'
  BY DEF GoodAfter, Good, Resolves
<1> QED  BY <1>1, <1>2, <1>3 DEF TextsKnown, Unharmed, GoodKept

\* Files are lost or changed, and nothing else.
LEMMA FilesKeepJInv ==
  ASSUME JInv, IInv', UNCHANGED <<guard, socket, cmd>>, Unharmed, hurt' \subseteq Pins,
         disk'.backups = disk.backups, disk'.receipts = disk.receipts
  PROVE  JInv'
<1>1. cmd' = cmd /\ guard' = guard /\ socket' = socket /\ disk'.alias = disk.alias
  BY DEF Unharmed, SameProofs
<1>2. Names' /\ PlannedFits'
  BY <1>1 DEF JInv, Names, PlannedFits, GoalFits
<1>3. TextsKnown'
  BY UnharmedTexts DEF JInv, IInv, Shape
<1>4. WorkFollows'
  <2> SUFFICES ASSUME NEW q \in Procs, Working(q) PROVE TaskFollows(cmd[q])'
    BY <1>1 DEF WorkFollows, Working
  <2>1. cmd[q].base \in Configs /\ cmd[q].goal \in Configs /\ TaskFollows(cmd[q])
    BY DEF JInv, IInv, ConfigsKnown, Working, WorkFollows
  <2>2. \A c : c = cmd[q] => TaskFollows(c)'
    BY <2>1, UnharmedTask
  <2> QED  BY <1>1, <2>2
<1> QED  BY <1>2, <1>3, <1>4 DEF JInv

LEMMA StepsKeepJInv ==
  ASSUME ConstantsOK, JInv, NEW p \in Procs, Steps(p)
  PROVE  JInv'
<1>1. IInv /\ cmd \in [Procs -> CmdShape] /\ disk \in DiskShape
  BY DEF JInv, IInv, Shape
<1>2. ASSUME NEW s, Ends(p, s) PROVE JInv'
  <2>1. At(p, s)
    BY <1>2 DEF Ends
  <2>2. Working(p) /\ cmd[p] \in CmdShape /\ cmd[p].todo # <<>>
    BY <2>1, AtFinds
  <2>3. CASE OnlyFiles
    <3>1. SameTask(cmd[p], cmd[p]) /\ cmd' = [cmd EXCEPT ![p] = cmd[p]]
      BY <1>1, <2>2, <2>3 DEF SameTask, OnlyFiles
    <3>2. StepShape(p)
      BY <1>1, <2>2, <2>3, <3>1 DEF StepShape, OnlyFiles, DataOnly, IInv, Shape
    <3> QED  BY <1>2, <3>2, EndsKeepJInv
  <2>4. StepShape(p) \/ OnlyFiles
    BY <1>1, StepsHaveShape DEF OnlyFiles
  <2> QED  BY <1>2, <2>3, <2>4, EndsKeepJInv
<1>3. CASE Install(p) /\ Moved(p)
  <2>1. At(p, "install") /\ UNCHANGED <<guard, socket, daemon, cmd, hurt, unsure>>
        /\ disk' = [disk EXCEPT !.files[cmd[p].goal.path] = Nothing] /\ GoodKept
    BY <1>3, InstallEnds DEF Moved
  <2>2. /\ disk'.config = disk.config /\ disk'.keyed = disk.keyed
        /\ disk'.alias = disk.alias /\ disk'.approvals = disk.approvals
        /\ disk'.backups = disk.backups /\ disk'.receipts = disk.receipts
    BY <1>1, <2>1 DEF DiskShape
  <2>3. hurt' \subseteq Pins /\ cmd[p].goal.path \in Places
    BY <1>1, <2>1, WorkingData DEF JInv, Names
  <2>4. DataOnly(disk')
    BY <1>1, <2>1, <2>3, DiskUpdates
  <2>5. IInv'
    BY <1>1, <2>1, <2>4, FilesKeepIInv DEF OnlyFiles
  <2> QED  BY <2>1, <2>2, <2>3, <2>5, FilesKeepJInv DEF Unharmed, SameProofs
<1>4. CASE Install(p)
  BY <1>2, <1>3, <1>4, InstallEnds
<1>5. CASE ~Install(p)
  <2>1. \E s \in StepNames : Ends(p, s)
    BY <1>5, PlainStepsEnd, ChecksEnd, ProofStepsEnd DEF Steps
  <2> QED  BY <1>2, <2>1
<1> QED  BY <1>4, <1>5

-----------------------------------------------------------------------------
(* A command begins or ends, or the daemon, the operator or damage acts.   *)

\* The disk is as it was, and one command line may have another command.
LEMMA SameDiskKeepsJInv ==
  ASSUME JInv, IInv', UNCHANGED <<disk, hurt>>, NEW p \in Procs, NEW c,
         cmd' = [cmd EXCEPT ![p] = c], c.alias \in RealAliases,
         guard' \in Procs \cup {"free", "stale", "daemon"},
         socket' \in Procs \cup {"none", "socket", "stale"},
         c.at = "planned" => GoalFits(c), c.at = "working" => TaskFollows(c)
  PROVE  JInv'
<1>1. /\ cmd \in [Procs -> CmdShape] /\ disk \in DiskShape
      /\ disk' = disk /\ hurt' = hurt
  BY DEF JInv, IInv, Shape
<1>2. cmd'[p] = c /\ \A q \in Procs \ {p} : cmd'[q] = cmd[q]
  BY <1>1
<1>3. Unharmed /\ \A t : Good(t)' <=> Good(t)
  <2>1. disk'.files = disk.files
    BY <1>1
  <2> QED  BY <1>1, <2>1, SameFilesKeepGood DEF Unharmed, SameProofs, Good, Resolves
<1>4. Names'
  BY <1>1, <1>2 DEF JInv, Names
<1>5. PlannedFits'
  BY <1>2 DEF JInv, PlannedFits, GoalFits
<1>6. TextsKnown'
  BY <1>1, <1>3, UnharmedTexts DEF JInv
<1>7. WorkFollows'
  <2> SUFFICES ASSUME NEW q \in Procs, Working(q)' PROVE TaskFollows(cmd[q])'
    BY DEF WorkFollows
  <2> DEFINE d == cmd'[q]
  <2>1. d.at = "working"
    BY DEF Working
  <2>2. TaskFollows(d)
    BY <1>2, <2>1 DEF JInv, WorkFollows, Working
  <2>3. d.base \in Configs /\ d.goal \in Configs
    BY <2>1 DEF IInv, ConfigsKnown
  <2> HIDE DEF d
  <2>4. \A e : e = d => TaskFollows(e)'
    BY <1>3, <2>2, <2>3, UnharmedTask
  <2> QED  BY <2>4 DEF d
<1> QED  BY <1>4, <1>5, <1>6, <1>7 DEF JInv

\* Nobody works, and proofs alone change.
LEMMA ProofsKeepJInv ==
  ASSUME JInv, IInv', UNCHANGED <<cmd, hurt>>, \A q \in Procs : ~Working(q),
         disk'.config = disk.config, disk'.files = disk.files,
         disk'.backups = disk.backups, disk'.receipts = disk.receipts,
         disk'.alias \in RealAliases,
         guard' \in Procs \cup {"free", "stale", "daemon"},
         socket' \in Procs \cup {"none", "socket", "stale"}
  PROVE  JInv'
<1>1. cmd' = cmd /\ hurt' = hurt
  OBVIOUS
<1>2. Names' /\ PlannedFits' /\ WorkFollows'
  BY <1>1 DEF JInv, Names, PlannedFits, WorkFollows, Working, GoalFits
<1>3. Texts' = Texts /\ \A t : Good(t)' <=> Good(t)
  BY <1>1 DEF Texts, Good, Resolves
<1>4. TextsKnown'
  BY <1>3 DEF JInv, TextsKnown
<1> QED  BY <1>2, <1>4 DEF JInv

LEMMA DaemonKeepsJInv ==
  ASSUME ConstantsOK, JInv, IInv',
         \/ ServeLoads \/ ServeBinds \/ DaemonRechecks \/ DaemonStops \/ DaemonDies
         \/ OldDaemonChecks \/ OperatorClears
  PROVE  JInv'
<1>1. /\ disk \in DiskShape /\ disk.config \in Configs /\ hurt \subseteq Pins
      /\ cmd \in [Procs -> CmdShape] /\ IInv /\ disk.alias \in RealAliases
      /\ daemon \in [at : {"off", "starting", "up"}, config : Configs \cup {NoConfig}]
      /\ \A p \in Procs : cmd[p].alias \in RealAliases
      /\ guard \in Procs \cup {"free", "stale", "daemon"}
      /\ socket \in Procs \cup {"none", "socket", "stale"}
  BY DEF JInv, IInv, Shape, DiskShape, Names
<1>2. disk.config.pin \in Profiles /\ daemon.config.pin \in Profiles
  BY <1>1, LegacyMigrates DEF Configs, NoConfig
<1>3. /\ guard' \in Procs \cup {"free", "stale", "daemon"}
      /\ socket' \in Procs \cup {"none", "socket", "stale"}
      /\ cmd' = cmd /\ hurt' = hurt
  BY <1>1 DEF ServeLoads, ServeBinds, DaemonRechecks, DaemonStops, DaemonDies,
              OldDaemonChecks, OperatorClears
<1>4. guard \in {"free", "daemon"} => \A q \in Procs : ~Working(q)
  BY <1>1 DEF ConstantsOK, IInv, GuardNamesHolder
<1>5. CASE disk' = disk
  <2>1. CASE \A q \in Procs : ~Working(q)
    BY <1>1, <1>3, <1>5, <2>1, ProofsKeepJInv
  <2>2. CASE \E q \in Procs : Working(q)
    <3>1. PICK p \in Procs : Working(p)
      BY <2>2
    <3>2. cmd' = [cmd EXCEPT ![p] = cmd[p]]
      BY <1>1, <1>3
    <3>3. /\ cmd[p].at = "planned" => GoalFits(cmd[p])
          /\ cmd[p].at = "working" => TaskFollows(cmd[p])
      BY DEF JInv, PlannedFits, WorkFollows, Working
    <3> QED  BY <1>1, <1>3, <1>5, <3>2, <3>3, SameDiskKeepsJInv
  <2> QED  BY <2>1, <2>2
<1>6. CASE disk' # disk
  <2>1. guard = "free"
    BY <1>6 DEF ServeLoads, ServeBinds, DaemonRechecks, DaemonStops, DaemonDies,
                OldDaemonChecks, OperatorClears, GuardFree
  <2>2. PICK c \in Profiles :
           disk' = Proven(disk, c) \/ disk' = WithKeyed(disk, c, NextProof(disk, c))
    BY <1>2, <1>6 DEF ServeLoads, ServeBinds, DaemonRechecks, DaemonStops, DaemonDies,
                      OldDaemonChecks, OperatorClears
  <2> DEFINE n == NextProof(disk, c)
             keyed == [disk.keyed EXCEPT ![c] = n]
  <2>3. n \in 1..2
    BY DEF NextProof
  <2>4. disk' = [disk EXCEPT !.keyed = keyed] \/ disk' = [disk EXCEPT !.keyed = keyed,
                                                                     !.alias = Proof(c, n)]
    <3>1. WithKeyed(disk, c, n) = [disk EXCEPT !.keyed = keyed]
      BY <1>1 DEF WithKeyed
    <3>2. Proven(disk, c) = [WithKeyed(disk, c, n) EXCEPT !.alias = Proof(c, n)]
      BY DEF Proven, WithAlias
    <3> HIDE DEF n, keyed
    <3> QED  BY <1>1, <2>2, <3>1, <3>2 DEF DiskShape, n
  <2> HIDE DEF n, keyed
  <2>5. Proof(c, n) \in RealAliases
    BY <2>3 DEF Proof, RealAliases
  <2>6. /\ disk'.config = disk.config /\ disk'.files = disk.files
        /\ disk'.backups = disk.backups /\ disk'.receipts = disk.receipts
        /\ disk'.alias \in RealAliases
    BY <1>1, <2>4, <2>5 DEF DiskShape
  <2> QED  BY <1>3, <1>4, <2>1, <2>6, ProofsKeepJInv
<1> QED  BY <1>5, <1>6

LEMMA DamageKeepsJInv ==
  ASSUME JInv, IInv', NEW f \in Places, Damage(f)
  PROVE  JInv'
<1>1. PICK left \in {Nothing, Damaged} : disk' = [disk EXCEPT !.files[f] = left]
  BY DEF Damage
<1>2. /\ hurt' = hurt \cup {[path |-> f, pin |-> disk.files[f]]}
      /\ disk.files[f] \in Profiles /\ UNCHANGED <<guard, socket, cmd>>
  BY DEF Damage
<1>3. disk \in DiskShape /\ hurt \subseteq Pins
  BY DEF JInv, IInv, Shape, Names
<1>4. /\ disk'.config = disk.config /\ disk'.keyed = disk.keyed
      /\ disk'.alias = disk.alias /\ disk'.approvals = disk.approvals
      /\ disk'.backups = disk.backups /\ disk'.receipts = disk.receipts
      /\ \A g \in Places \ {f} : disk'.files[g] = disk.files[g]
  BY <1>1, <1>3 DEF DiskShape
<1>5. hurt' \subseteq Pins
  BY <1>2, <1>3 DEF Pins
<1>6. GoodKept
  <2> SUFFICES ASSUME NEW t \in Pins, Good(t) PROVE GoodAfter(t)
    BY DEF GoodKept
  <2>1. t.path \in Places /\ t = [path |-> t.path, pin |-> t.pin]
    BY DEF Pins
  <2> QED  BY <1>2, <1>4, <2>1 DEF Good, GoodAfter, Resolves
<1> QED  BY <1>2, <1>4, <1>5, <1>6, FilesKeepJInv DEF Unharmed, SameProofs

-----------------------------------------------------------------------------
(* A command begins.                                                       *)

LEMMA PathIsItsRest ==
  ASSUME NEW path \in Seq(StepNames)
  PROVE  IsRest(path, path)
BY DEF IsRest

LEMMA WorkIs ==
  ASSUME NEW op, NEW goal, NEW todo
  PROVE  LET c == Work(op, goal, todo) IN
         /\ c.at = "working" /\ c.op = op /\ c.base = disk.config /\ c.goal = goal
         /\ c.todo = todo /\ c.keyed = disk.keyed[goal.pin] /\ c.alias = disk.alias
         /\ goal.pin \in Reviewed => c.approved = disk.approvals[goal.pin]
         /\ ~c.back /\ ~c.blame /\ ~c.keep
BY DEF Work, Idle

\* What a command that begins has not done yet follows from what it read.
LEMMA BeginFollows ==
  ASSUME disk \in DiskShape, TextsKnown,
         NEW op, NEW goal \in Configs, NEW todo, NEW c, c = Work(op, goal, todo),
         Forward(c), GoalFits(c), Placed(PinOf(goal)),
         InstallAhead(c) \/ Good(PinOf(goal)),
         NEW n \in Nat, n = Len(c.todo), n < 2 => goal = disk.config,
         \/ op = "check" /\ n = 2
         \/ op = "activate" /\ n = 9
         \/ op = "restore" /\ n = 5
         \/ op = "migrate" /\ n = 8
         \/ op = "switch"
         \/ op = "unmigrate" /\ (n >= LastOf(c) + 3 \/ Quarantined(c, LastOf(c)))
  PROVE  TaskFollows(c)
<1>1. /\ c.op = op /\ c.base = disk.config /\ c.goal = goal
      /\ c.todo = todo /\ c.keyed = disk.keyed[goal.pin] /\ c.alias = disk.alias
      /\ goal.pin \in Reviewed => c.approved = disk.approvals[goal.pin]
      /\ ~c.back
  BY WorkIs
<1>2. OnPath(c) /\ GoalFits(c)
  BY <1>1 DEF OnPath
<1>3. LastOf(c) \in {2, 3, 4} /\ (op = "migrate" => LastOf(c) = 3)
  BY <1>1 DEF LastOf
<1>4. ConfigFollows(c)
  BY <1>1, <1>3 DEF ConfigFollows
<1>5. TextsFollow(c)
  <2>1. PinOf(disk.config) \in Texts
    BY DEF Texts
  <2> QED  BY <1>1, <2>1 DEF TextsKnown, TextsFollow
<1>6. ProofsFollow(c)
  <2>1. op \in {"check", "activate"} => KeyedAsWas(c) /\ AliasAsWas(c) /\ ApprovedAsWas(c)
    BY <1>1, <1>2 DEF GoalFits, KeyedAsWas, AliasAsWas, ApprovedAsWas
  <2>2. ASSUME op = "check" PROVE CheckFollows(c)
    <3>1. n >= 2 /\ ~(n < 2)
      BY <2>2
    <3> QED  BY <1>1, <2>1, <2>2, <3>1 DEF CheckFollows
  <2>3. ASSUME op = "activate" PROVE ActivationFollows(c)
    <3>2. n = 9
      BY <2>3
    <3>1. ~(n < 8) /\ ~(n < 7) /\ ~(n < 6) /\ ~(n < 5)
      BY ONLY <3>2
    <3> QED  BY <1>1, <2>1, <2>3, <3>1 DEF ActivationFollows
  <2>4. ASSUME op = "restore" PROVE ~(n < 5)
    <3>1. n = 5
      BY <2>4
    <3> QED  BY ONLY <3>1
  <2> QED  BY <1>1, <2>2, <2>3, <2>4 DEF ProofsFollow
<1>7. QuarantineFollows(c)
  <2>1. ASSUME NEW m \in {2, 3, 4}, m = LastOf(c), n >= m + 3
        PROVE  Quarantined(c, LastOf(c))
    <3>1. ~(n < m + 3) /\ ~(n < m + 2) /\ ~(n < m + 1)
      BY <2>1
    <3> QED  BY <2>1, <3>1 DEF Quarantined
  <2>4. op = "migrate" => n = 8
    OBVIOUS
  <2>2. ASSUME op \in {"migrate", "unmigrate"} PROVE Quarantined(c, LastOf(c))
    <3>1. op = "migrate" => n >= LastOf(c) + 3
      <4>1. op = "migrate" => LastOf(c) = 3
        BY <1>3
      <4> QED  BY ONLY <2>4, <4>1
    <3>2. op = "unmigrate" => n >= LastOf(c) + 3 \/ Quarantined(c, LastOf(c))
      OBVIOUS
    <3> QED  BY <1>3, <2>1, <2>2, <3>1, <3>2
  <2>3. op = "migrate" => ~(n < 7)
    BY ONLY <2>4
  <2> QED  BY <1>1, <2>2, <2>3 DEF QuarantineFollows
<1> QED  BY <1>2, <1>4, <1>5, <1>6, <1>7 DEF TaskFollows

LEMMA LockedKeepsJInv ==
  ASSUME JInv, IInv', NEW p \in Procs,
         NEW op, NEW goal, NEW todo, Locked(p, op, goal, todo),
         TaskFollows(Work(op, goal, todo))
  PROVE  JInv'
<1> DEFINE c == Work(op, goal, todo)
<1>1. /\ cmd' = [cmd EXCEPT ![p] = c] /\ UNCHANGED <<disk, hurt, socket>> /\ guard' = p
  BY DEF Locked
<1>2. c.at = "working" /\ c.alias = disk.alias
  BY WorkIs
<1> HIDE DEF c
<1>3. /\ disk.alias \in RealAliases /\ socket \in Procs \cup {"none", "socket", "stale"}
      /\ TaskFollows(c)
  BY DEF JInv, Names, c
<1> QED  BY <1>1, <1>2, <1>3, SameDiskKeepsJInv

LEMMA ReviewedIsNotLegacy ==
  ASSUME NEW c \in Profiles
  PROVE  /\ c.schema = 2 <=> c \in Reviewed
         /\ c.schema = 1 <=> c = Legacy
<1>1. Legacy.schema = 1 /\ \A d \in Reviewed : d.schema = 2
  BY DEF Legacy, Reviewed, Profile
<1> QED  BY <1>1 DEF Profiles

LEMMA CheckBegins ==
  ASSUME ConstantsOK, JInv, IInv', NEW p \in Procs, Check(p)
  PROVE  JInv'
<1> DEFINE c == Work("check", disk.config, CheckPath)
<1>1. Locked(p, "check", disk.config, CheckPath) /\ CheckPath \in Seq(StepNames)
      /\ Len(CheckPath) = 2
  BY DEF Check, CheckPath, StepNames
<1>2. disk \in DiskShape /\ disk.config \in Configs /\ TextsKnown
  BY DEF JInv, IInv, Shape, DiskShape
<1>3. disk.config.pin \in Reviewed
  BY <1>1, <1>2, ReviewedIsNotLegacy DEF Locked, ContextLoads, Configs
<1>4. /\ c.op = "check" /\ c.base = disk.config /\ c.goal = disk.config
      /\ c.todo = CheckPath
  BY WorkIs
<1>5. Forward(c) /\ GoalFits(c)
  BY <1>1, <1>3, <1>4, PathIsItsRest DEF Forward, GoalFits
<1>6. PinOf(disk.config) \in Texts
  BY DEF Texts
<1> HIDE DEF c
<1>7. TaskFollows(c)
  <2>1. Len(c.todo) = 2
    BY <1>4 DEF CheckPath
  <2>2. Placed(PinOf(disk.config)) /\ Good(PinOf(disk.config))
    BY <1>2, <1>6 DEF TextsKnown
  <2>3. c = Work("check", disk.config, CheckPath)
    BY DEF c
  <2> QED  BY <1>2, <1>5, <2>1, <2>2, <2>3, BeginFollows
<1> QED  BY <1>1, <1>7, LockedKeepsJInv DEF c

LEMMA ActivateBegins ==
  ASSUME ConstantsOK, JInv, IInv', NEW p \in Procs, NEW r \in Reviewed, Activate(p, r)
  PROVE  JInv'
<1> DEFINE goal == [disk.config EXCEPT !.path = r.id, !.pin = r]
           c == Work("activate", goal, ActivatePath)
<1>1. Locked(p, "activate", goal, ActivatePath) /\ ActivatePath \in Seq(StepNames)
      /\ Len(ActivatePath) = 9
  BY DEF Activate, ActivatePath, StepNames
<1>2. disk \in DiskShape /\ disk.config \in Configs /\ TextsKnown
  BY DEF JInv, IInv, Shape, DiskShape
<1>3. r \in Profiles /\ r.id \in Ids
  BY DEF Reviewed, Profiles, Profile
<1>4. goal \in Configs /\ goal.path = r.id /\ goal.pin = r
  BY <1>2, <1>3 DEF Configs, Places
<1> HIDE DEF goal
<1>5. c.op = "activate" /\ c.goal = goal /\ c.todo = ActivatePath
  BY WorkIs
<1>6. Forward(c) /\ GoalFits(c) /\ InstallAhead(c)
  <2>1. IsRest(ActivatePath, ActivatePath)
    BY <1>1, PathIsItsRest
  <2> HIDE DEF c
  <2>2. Len(c.todo) >= 9
    BY <1>5 DEF ActivatePath
  <2> QED  BY <1>4, <1>5, <2>1, <2>2 DEF Forward, GoalFits, InstallAhead
<1>7. Placed(PinOf(goal))
  BY <1>3, <1>4 DEF Placed, PinOf, ConstantsOK
<1> HIDE DEF c
<1>8. TaskFollows(c)
  <2>1. Len(c.todo) = 9
    BY <1>5 DEF ActivatePath
  <2>2. c = Work("activate", goal, ActivatePath)
    BY DEF c
  <2>3. ~(Len(c.todo) < 2) /\ Len(c.todo) \in Nat
    BY <2>1
  <2> QED  BY <1>2, <1>4, <1>6, <1>7, <2>1, <2>2, <2>3, BeginFollows
<1> QED  BY <1>1, <1>8, LockedKeepsJInv DEF c

LEMMA RestoreBegins ==
  ASSUME ConstantsOK, JInv, IInv', NEW p \in Procs, NEW t \in disk.backups, Restore(p, t)
  PROVE  JInv'
<1> DEFINE goal == [disk.config EXCEPT !.path = t.path, !.pin = t.pin]
           c == Work("restore", goal, RestorePath)
<1>1. Locked(p, "restore", goal, RestorePath) /\ RestorePath \in Seq(StepNames)
      /\ Len(RestorePath) = 5 /\ t.pin.schema = 2
  BY DEF Restore, RestorePath, StepNames
<1>2. disk \in DiskShape /\ disk.config \in Configs /\ TextsKnown
  BY DEF JInv, IInv, Shape, DiskShape
<1>3. t \in Pins /\ t \in Texts
  BY <1>2 DEF DiskShape, Texts
<1>4. goal \in Configs /\ goal.pin \in Reviewed /\ PinOf(goal) = t
  BY <1>1, <1>2, <1>3, ReviewedIsNotLegacy DEF Configs, Pins, PinOf
<1> HIDE DEF goal
<1>5. c.op = "restore" /\ c.goal = goal /\ c.todo = RestorePath
  BY WorkIs
<1>6. Forward(c) /\ GoalFits(c)
  BY <1>1, <1>4, <1>5, PathIsItsRest DEF Forward, GoalFits
<1>7. Placed(PinOf(goal)) /\ Good(PinOf(goal))
  BY <1>2, <1>3, <1>4 DEF TextsKnown
<1> HIDE DEF c
<1>8. TaskFollows(c)
  <2>1. Len(c.todo) = 5
    BY <1>5 DEF RestorePath
  <2>2. c = Work("restore", goal, RestorePath)
    BY DEF c
  <2>3. ~(Len(c.todo) < 2) /\ Len(c.todo) \in Nat
    BY <2>1
  <2> QED  BY <1>2, <1>4, <1>6, <1>7, <2>1, <2>2, <2>3, BeginFollows
<1> QED  BY <1>1, <1>8, LockedKeepsJInv DEF c

LEMMA PlanBegins ==
  ASSUME JInv, IInv', NEW p \in Procs, NEW op, NEW goal, Plan(p, op, goal),
         op = "migrate" => /\ disk.config.pin = Legacy
                           /\ goal.pin = Migrated(Legacy) /\ goal.path = "target",
         op = "unmigrate" => goal.pin = Legacy,
         op = "switch" => PinOf(goal) = PinOf(disk.config),
         op \in Offline
  PROVE  JInv'
<1> DEFINE c == [Idle EXCEPT !.at = "planned", !.op = op, !.base = disk.config, !.goal = goal]
<1>1. cmd' = [cmd EXCEPT ![p] = c] /\ UNCHANGED <<disk, hurt, socket, guard>>
  BY DEF Plan
<1>2. c.at = "planned" /\ c.op = op /\ c.base = disk.config /\ c.goal = goal
      /\ c.alias = Nothing
  BY DEF Idle
<1> HIDE DEF c
<1>3. GoalFits(c)
  BY <1>2 DEF GoalFits, Offline
<1>4. c.alias \in RealAliases
  BY <1>2 DEF RealAliases
<1>5. /\ guard' \in Procs \cup {"free", "stale", "daemon"}
      /\ socket' \in Procs \cup {"none", "socket", "stale"}
  BY <1>1 DEF JInv, Names
<1> QED  BY <1>1, <1>2, <1>3, <1>4, <1>5, SameDiskKeepsJInv

LEMMA PlansBegin ==
  ASSUME JInv, IInv', NEW p \in Procs,
         \/ PlanMigrate(p) \/ \E r \in disk.receipts : PlanUnmigrate(p, r)
         \/ \E b \in Backends : PlanSwitch(p, b)
  PROVE  JInv'
<1>1. disk \in DiskShape /\ disk.config \in Configs /\ TextsKnown
  BY DEF JInv, IInv, Shape, DiskShape
<1>2. CASE PlanMigrate(p)
  <2> DEFINE goal == [disk.config EXCEPT !.path = "target", !.pin = Migrated(@)]
  <2>1. Plan(p, "migrate", goal) /\ disk.config.pin.schema = 1
    BY <1>2 DEF PlanMigrate
  <2>2. disk.config.pin = Legacy
    BY <1>1, <2>1, ReviewedIsNotLegacy DEF Configs
  <2>3. goal.pin = Migrated(Legacy) /\ goal.path = "target"
    BY <1>1, <2>2 DEF Configs
  <2> HIDE DEF goal
  <2> QED  BY <2>1, <2>2, <2>3, PlanBegins DEF Offline
<1>3. ASSUME NEW r \in disk.receipts, PlanUnmigrate(p, r) PROVE JInv'
  <2>1. Plan(p, "unmigrate", r.source) /\ r.source.pin = Legacy
    BY <1>1, <1>3 DEF PlanUnmigrate, TextsKnown
  <2> QED  BY <2>1, PlanBegins DEF Offline
<1>4. ASSUME NEW b \in Backends, PlanSwitch(p, b) PROVE JInv'
  <2> DEFINE goal == [disk.config EXCEPT !.backend = b]
  <2>1. Plan(p, "switch", goal)
    BY <1>4 DEF PlanSwitch
  <2>2. PinOf(goal) = PinOf(disk.config)
    BY <1>1 DEF PinOf, Configs
  <2> HIDE DEF goal
  <2> QED  BY <2>1, <2>2, PlanBegins DEF Offline
<1> QED  BY <1>2, <1>3, <1>4

LEMMA PlannedFollows ==
  ASSUME ConstantsOK, JInv, NEW p \in Procs, cmd[p].at = "planned",
         disk.config = cmd[p].base
  PROVE  TaskFollows(PlannedWork(cmd[p]))
<1> DEFINE c == cmd[p]
<1>1. /\ disk \in DiskShape /\ TextsKnown /\ GoalFits(c) /\ c.op \in Offline
      /\ c.base \in Configs /\ c.goal \in Configs
  BY DEF JInv, IInv, Shape, PlannedFits, ConfigsKnown
<1>2. PinOf(c.base) \in Texts
  BY DEF Texts
<1>3. Good(PinOf(c.base)) /\ Placed(PinOf(c.base))
  BY <1>1, <1>2 DEF TextsKnown
<1>4. /\ MigratePath \in Seq(StepNames) /\ SwitchPath \in Seq(StepNames)
      /\ <<>> \in Seq(StepNames) /\ Len(MigratePath) = 8 /\ Len(SwitchPath) = 3
  BY DEF MigratePath, SwitchPath, StepNames
<1>5. CASE c.op = "migrate"
  <2> DEFINE w == Work("migrate", c.goal, MigratePath)
  <2>1. PlannedWork(c) = w
    <3>1. PlannedWork(c) = Work("migrate", c.goal,
            <<"install", "receipt">> \o Quarantine \o <<"recheck", "commit", "verify">>)
      BY <1>5 DEF PlannedWork
    <3>2. MigratePath =
            <<"install", "receipt">> \o Quarantine \o <<"recheck", "commit", "verify">>
      BY DEF MigratePath, Quarantine
    <3> QED  BY <3>1, <3>2
  <2>2. w.op = "migrate" /\ w.base = c.base /\ w.goal = c.goal /\ w.todo = MigratePath
    BY WorkIs
  <2>3. Forward(w) /\ GoalFits(w) /\ InstallAhead(w)
    <3>1. IsRest(MigratePath, MigratePath)
      BY <1>4, PathIsItsRest
    <3> HIDE DEF w
    <3>2. Len(w.todo) >= 8
      BY <2>2 DEF MigratePath
    <3> QED  BY <1>1, <1>5, <2>2, <3>1, <3>2 DEF Forward, GoalFits, InstallAhead
  <2>4. Placed(PinOf(c.goal))
    BY <1>1, <1>5 DEF GoalFits, Placed, PinOf, Offline
  <2> HIDE DEF w
  <2>5. TaskFollows(w)
    <3>1. Len(w.todo) = 8
      BY <2>2 DEF MigratePath
    <3>2. w = Work("migrate", c.goal, MigratePath)
      BY DEF w
    <3>3. ~(Len(w.todo) < 2) /\ Len(w.todo) \in Nat
      BY <3>1
    <3> QED  BY <1>1, <2>3, <2>4, <3>1, <3>2, <3>3, BeginFollows
  <2> QED  BY <2>1, <2>5
<1>6. CASE c.op = "switch"
  <2> DEFINE todo == IF c.goal = c.base THEN <<>> ELSE SwitchPath
             w == Work("switch", c.goal, todo)
  <2>1. PlannedWork(c) = w
    BY <1>6 DEF PlannedWork, SwitchPath
  <2>2. w.op = "switch" /\ w.base = c.base /\ w.goal = c.goal /\ w.todo = todo
    BY WorkIs
  <2>3. IsRest(todo, SwitchPath) /\ Len(todo) \in Nat
        /\ (Len(todo) < 2 => c.goal = disk.config)
    <3>1. IsRest(<<>>, SwitchPath) /\ IsRest(SwitchPath, SwitchPath)
          /\ ~(Len(SwitchPath) < 2) /\ Len(SwitchPath) \in Nat /\ Len(<<>>) \in Nat
      BY <1>4, PathIsItsRest DEF IsRest
    <3>2. CASE c.goal = c.base
      BY <3>1, <3>2
    <3>3. CASE c.goal # c.base
      BY <3>1, <3>3
    <3> QED  BY <3>2, <3>3
  <2>4. Forward(w) /\ GoalFits(w)
    BY <1>1, <1>6, <2>2, <2>3 DEF Forward, GoalFits
  <2>5. Placed(PinOf(c.goal)) /\ Good(PinOf(c.goal))
    BY <1>1, <1>3, <1>6 DEF GoalFits
  <2>6. w = Work("switch", c.goal, todo)
    OBVIOUS
  <2> HIDE DEF w, todo
  <2>7. TaskFollows(w)
    <3>1. Len(w.todo) \in Nat /\ (Len(w.todo) < 2 => c.goal = disk.config)
      BY <2>2, <2>3
    <3> QED  BY <1>1, <2>4, <2>5, <2>6, <3>1, BeginFollows
  <2> QED  BY <2>1, <2>7
<1>7. CASE c.op = "unmigrate"
  <2> DEFINE source == c.goal
             goal == IF c.base = Fallback(source) THEN c.base
                     ELSE IF Resolves(source) THEN source ELSE Fallback(source)
             undone == c.base \in {source, Fallback(source)} /\ Resolves(c.base)
             repair == goal = Fallback(source) /\ ~undone
             s == IF repair THEN "install" ELSE "check"
             long == Quarantine \o <<s>>
                     \o (IF goal = c.base THEN <<>> ELSE <<"recheck", "commit">>) \o <<"verify">>
             todo == IF undone /\ ~AnyProof(source.pin) THEN <<>> ELSE long
             w == Work("unmigrate", goal, todo)
  <2>1. PlannedWork(c) = w
    BY <1>7 DEF PlannedWork, UnmigrateWork
  <2>2. /\ Fallback(source) \in Configs /\ Fallback(source).path = "fallback"
        /\ Fallback(source).pin = source.pin /\ source.pin = Legacy
    BY <1>1, <1>7 DEF Fallback, Configs, Places, GoalFits
  <2>3. /\ goal \in Configs /\ goal.pin = Legacy
        /\ (repair => goal.path = "fallback") /\ (undone => goal = c.base)
    BY <1>1, <2>2
  <2>4. s \in {"install", "check"} /\ (s = "install" => goal.path = "fallback")
        /\ undone \in BOOLEAN
    BY <2>3
  <2> DEFINE path == IF goal = c.base THEN RepairPath(s) ELSE UnmigratePath(s)
  <2> HIDE DEF goal, repair, undone, s
  <2>5. long = path
    <3>1. CASE goal = c.base
      <4>1. <<"old", "new", "last", s, "verify">>
              = <<"old", "new", "last">> \o <<s>> \o <<>> \o <<"verify">>
        OBVIOUS
      <4> QED  BY <3>1, <4>1 DEF Quarantine, RepairPath
    <3>2. CASE goal # c.base
      <4>1. <<"old", "new", "last", s, "recheck", "commit", "verify">>
              = <<"old", "new", "last">> \o <<s>> \o <<"recheck", "commit">> \o <<"verify">>
        OBVIOUS
      <4> QED  BY <3>2, <4>1 DEF Quarantine, UnmigratePath
    <3> QED  BY <3>1, <3>2
  <2>6. path \in Seq(StepNames) /\ Len(path) = (IF goal = c.base THEN 5 ELSE 7)
    <3>1. RepairPath(s) \in Seq(StepNames) /\ Len(RepairPath(s)) = 5
      BY <2>4 DEF RepairPath, StepNames
    <3>2. UnmigratePath(s) \in Seq(StepNames) /\ Len(UnmigratePath(s)) = 7
      BY <2>4 DEF UnmigratePath, StepNames
    <3> QED  BY <3>1, <3>2
  <2>7. /\ todo \in Seq(StepNames)
        /\ todo = path \/ (todo = <<>> /\ undone /\ ~AnyProof(Legacy))
    BY <1>4, <2>2, <2>5, <2>6
  <2>8. w.op = "unmigrate" /\ w.base = c.base /\ w.goal = goal /\ w.todo = todo
    BY WorkIs
  <2>15. w = Work("unmigrate", goal, todo)
    OBVIOUS
  <2> HIDE DEF todo, long, path, w
  <2>9. IsRest(todo, path)
    <3>1. IsRest(<<>>, path) /\ IsRest(path, path)
      BY <2>6, PathIsItsRest DEF IsRest
    <3> QED  BY <2>7, <3>1
  <2>10. Forward(w) /\ GoalFits(w)
    BY <2>3, <2>4, <2>8, <2>9 DEF Forward, Unmigrates, GoalFits, path
  <2>11. LastOf(w) = IF goal = c.base THEN 2 ELSE 4
    BY <2>8 DEF LastOf
  <2>12. Placed(PinOf(goal))
    BY <2>3 DEF Placed, PinOf
  <2>13. CASE todo = path
    <3>1. Len(w.todo) = (IF goal = c.base THEN 5 ELSE 7)
      BY <2>6, <2>8, <2>13
    <3>4. /\ Len(w.todo) >= LastOf(w) + 3 /\ Len(w.todo) >= LastOf(w)
          /\ ~(Len(w.todo) < 2) /\ Len(w.todo) \in Nat
      BY <2>11, <3>1
    <3>5. InstallAhead(w)
      BY <2>8, <3>4 DEF InstallAhead
    <3>2. TaskFollows(w)
      BY <1>1, <2>3, <2>10, <2>12, <2>15, <3>4, <3>5, BeginFollows
    <3> QED  BY <2>1, <3>2
  <2>14. CASE todo = <<>> /\ undone /\ ~AnyProof(Legacy)
    <3>1. goal = c.base /\ Good(PinOf(goal))
      BY <1>3, <2>3, <2>14
    <3>2. Quarantined(w, LastOf(w))
      BY <2>14 DEF Quarantined, AnyProof
    <3>4. Len(w.todo) = 0
      BY <2>8, <2>14
    <3>3. TaskFollows(w)
      BY <1>1, <2>3, <2>10, <2>12, <2>15, <3>1, <3>2, <3>4, BeginFollows
    <3> QED  BY <2>1, <3>3
  <2> QED  BY <2>7, <2>13, <2>14
<1> QED  BY <1>1, <1>5, <1>6, <1>7 DEF Offline

LEMMA EnterBegins ==
  ASSUME ConstantsOK, JInv, IInv', NEW p \in Procs, Enter(p)
  PROVE  JInv'
<1> DEFINE c == PlannedWork(cmd[p])
<1>1. /\ cmd' = [cmd EXCEPT ![p] = c] /\ UNCHANGED <<disk, hurt>>
      /\ guard' = p /\ socket' = p /\ cmd[p].at = "planned" /\ disk.config = cmd[p].base
  BY DEF Enter
<1>2. TaskFollows(c)
  BY <1>1, PlannedFollows
<1>3. cmd[p].op \in Offline
  BY <1>1 DEF JInv, IInv, ConfigsKnown
<1>4. c.at = "working" /\ c.alias = disk.alias
  BY <1>3, WorkIs DEF PlannedWork, UnmigrateWork, Offline
<1>5. disk.alias \in RealAliases
  BY DEF JInv, Names
<1> HIDE DEF c
<1> QED  BY <1>1, <1>2, <1>4, <1>5, SameDiskKeepsJInv

LEMMA EndKeepsJInv ==
  ASSUME JInv, IInv', NEW p \in Procs, Refuse(p) \/ Leave(p) \/ Crash(p)
  PROVE  JInv'
<1>1. /\ cmd' = [cmd EXCEPT ![p] = Idle] /\ UNCHANGED <<disk, hurt>>
      /\ guard' \in {guard, "free", "stale"} /\ socket' \in {socket, "none", "stale"}
  BY DEF Refuse, Leave, Crash
<1>2. Idle.at = "idle" /\ Idle.alias \in RealAliases
  BY DEF Idle, RealAliases
<1>3. /\ guard' \in Procs \cup {"free", "stale", "daemon"}
      /\ socket' \in Procs \cup {"none", "socket", "stale"}
  BY <1>1 DEF JInv, Names
<1> QED  BY <1>1, <1>2, <1>3, SameDiskKeepsJInv

-----------------------------------------------------------------------------
(* The invariant, and what follows from it.                                *)

LEMMA InitIsJGood == ASSUME ConstantsOK, Init PROVE JInv
<1>1. IInv
  BY InitIsGood
<1>2. PICK c \in {Legacy, Migrated(Legacy)}, b \in Backends :
        disk = [config |-> [path |-> "source", pin |-> c, backend |-> b],
                files |-> [f \in Places |-> IF f = "source" THEN c ELSE Nothing],
                keyed |-> [d \in Profiles |-> NoProof], alias |-> Nothing,
                approvals |-> [d \in Reviewed |-> 0],
                backups |-> {}, receipts |-> {}]
  BY DEF Init
<1>3. /\ PinOf(disk.config) = [path |-> "source", pin |-> c]
      /\ disk.files["source"] = c /\ disk.backups = {} /\ disk.receipts = {}
      /\ disk.alias = Nothing
  BY <1>2 DEF PinOf, Places
<1>4. TextsKnown
  BY <1>3 DEF TextsKnown, Texts, Good, Placed, Resolves
<1>5. \A p \in Procs : cmd[p] = Idle /\ ~Working(p)
  <2>1. cmd = [p \in Procs |-> Idle]
    BY DEF Init
  <2>2. Idle.at = "idle"
    BY DEF Idle
  <2> QED  BY <2>1, <2>2 DEF Working
<1>6. Names /\ PlannedFits /\ WorkFollows
  BY <1>3, <1>5 DEF Init, Names, PlannedFits, WorkFollows, Working, Idle, RealAliases
<1> QED  BY <1>1, <1>4, <1>6 DEF JInv

LEMMA NextKeepsJInv == ASSUME ConstantsOK, JInv, [Next]_vars PROVE JInv'
<1>1. IInv'
  BY NextKeepsIInv DEF JInv
<1>2. CASE UNCHANGED vars
  <2>1. /\ guard' = guard /\ socket' = socket /\ cmd' = cmd /\ hurt' = hurt /\ disk' = disk
    BY <1>2 DEF vars
  <2>2. GoodKept
    BY <2>1, SameFilesKeepGood
  <2>3. hurt' \subseteq Pins
    BY <2>1 DEF JInv, Names
  <2> QED  BY <1>1, <2>1, <2>2, <2>3, FilesKeepJInv DEF Unharmed, SameProofs
<1>3. ASSUME NEW p \in Procs, Commands(p) PROVE JInv'
  <2>1. CASE Refuse(p)
    BY <1>1, <2>1, EndKeepsJInv
  <2>2. CASE ~Refuse(p)
    BY <1>1, <1>3, <2>2, CheckBegins, ActivateBegins, RestoreBegins, PlansBegin, EnterBegins
    DEF Commands
  <2> QED  BY <2>1, <2>2
<1>4. ASSUME NEW p \in Procs, Steps(p) PROVE JInv'
  BY <1>4, StepsKeepJInv
<1>5. ASSUME NEW p \in Procs, Leave(p) \/ Crash(p) PROVE JInv'
  BY <1>1, <1>5, EndKeepsJInv
<1>6. ASSUME NEW f \in Places, Damage(f) PROVE JInv'
  BY <1>1, <1>6, DamageKeepsJInv
<1>7. CASE \/ ServeLoads \/ ServeBinds \/ DaemonRechecks \/ DaemonStops \/ DaemonDies
           \/ OldDaemonChecks \/ OperatorClears
  BY <1>1, <1>7, DaemonKeepsJInv
<1> QED  BY <1>2, <1>3, <1>4, <1>5, <1>6, <1>7 DEF Next

LEMMA JInvTypes == ASSUME JInv PROVE TypeOK
<1>1. disk \in DiskSet
  BY DEF JInv, IInv, Shape, Names, DiskShape, DiskSet, RealAliases
<1>2. \A p \in Procs : cmd[p].at = "working" <=> guard = p
  BY DEF JInv, IInv, GuardNamesHolder, Working
<1>3. daemon.at \in {"off", "starting", "up"} /\ daemon.config \in Configs \cup {NoConfig}
  BY DEF JInv, IInv, Shape
<1> QED  BY <1>1, <1>2, <1>3 DEF JInv, IInv, Shape, Names, TypeOK

LEMMA JInvResolves == ASSUME JInv PROVE TextsResolve
BY DEF JInv, TextsKnown, Texts, Good, TextsResolve

\* A command at its end.
LEMMA OverFollows ==
  ASSUME JInv, NEW p \in Procs, Over(p)
  PROVE  /\ TaskFollows(cmd[p]) /\ cmd[p].todo = <<>> /\ Len(cmd[p].todo) = 0
         /\ cmd[p].op \in Ops
<1>1. Working(p) /\ cmd[p].todo = <<>> /\ cmd[p] \in CmdShape
  BY DEF Over, Working, JInv, IInv, Shape
<1> QED  BY <1>1 DEF JInv, WorkFollows, CmdShape

LEMMA JInvServes == ASSUME JInv PROVE DoneIsServed
<1> SUFFICES ASSUME NEW p \in Procs, Over(p), ~cmd[p].back
             PROVE  /\ disk.config = cmd[p].goal
                    /\ PinOf(cmd[p].goal) \in hurt \/ Resolves(cmd[p].goal)
                    /\ Evidence(p)
  BY DEF DoneIsServed
<1> DEFINE c == cmd[p]
           n == Len(c.todo)
<1>1. TaskFollows(c) /\ n = 0
  BY OverFollows
<1>2. /\ ~(n >= 1) /\ ~(n >= 2) /\ ~(n >= 5) /\ ~(n >= 6) /\ ~(n >= 7) /\ ~(n >= 8) /\ ~(n >= 9)
      /\ n < 2 /\ n < 5 /\ n < 6 /\ n < 7 /\ n < 8
  BY <1>1
<1>3. LastOf(c) \in {2, 3, 4}
  BY DEF LastOf
<1>4. ~(n >= LastOf(c)) /\ n < LastOf(c) + 1 /\ n < LastOf(c) + 2 /\ n < LastOf(c) + 3
  BY <1>1, <1>3
<1> HIDE DEF n
<1>5. disk.config = c.goal
  BY <1>1, <1>2 DEF TaskFollows, ConfigFollows, n
<1>6. Good(PinOf(c.goal))
  BY <1>1, <1>2, <1>4 DEF TaskFollows, TextsFollow, InstallAhead, n
<1>7. PinOf(c.goal) \in hurt \/ Resolves(c.goal)
  BY <1>6 DEF Good, Resolves, PinOf
<1>8. ProofsFollow(c) /\ QuarantineFollows(c) /\ GoalFits(c)
  BY <1>1 DEF TaskFollows
<1>9. Evidence(p)
  <2>1. CASE c.op = "activate"
    BY <1>2, <1>8, <2>1 DEF ProofsFollow, ActivationFollows, Evidence, n
  <2>2. CASE c.op = "restore"
    BY <1>2, <1>8, <2>2 DEF ProofsFollow, Evidence, n
  <2>3. c.op \in {"migrate", "unmigrate"} => Quarantined(c, LastOf(c)) /\ LegacyOf(c) = Legacy
    BY <1>8 DEF QuarantineFollows, GoalFits, LegacyOf
  <2>4. c.op \in {"migrate", "unmigrate"} => ~AnyProof(LegacyOf(c))
    BY <1>4, <2>3 DEF Quarantined, AnyProof, n
  <2>5. c.op = "migrate" => [source |-> c.base, target |-> c.goal] \in disk.receipts
    BY <1>2, <1>8 DEF QuarantineFollows, n
  <2> QED  BY <2>1, <2>2, <2>4, <2>5 DEF Evidence
<1> QED  BY <1>5, <1>7, <1>9

LEMMA JInvRestores == ASSUME JInv PROVE FailureRestores
<1> SUFFICES ASSUME NEW p \in Procs, Over(p), cmd[p].back, ~cmd[p].blame, ~cmd[p].keep
             PROVE  /\ disk.config = cmd[p].base
                    /\ cmd[p].op \in {"activate", "check"} =>
                         /\ disk.keyed[cmd[p].goal.pin] = cmd[p].keyed
                         /\ disk.alias = cmd[p].alias
                         /\ disk.approvals[cmd[p].goal.pin] = cmd[p].approved
  BY DEF FailureRestores
<1> DEFINE c == cmd[p]
           n == Len(c.todo)
<1>1. TaskFollows(c) /\ n = 0 /\ c.todo = <<>>
  BY OverFollows
<1>2. n < 1 /\ n < 2 /\ n < 3
  BY <1>1
<1> HIDE DEF n
<1>3. disk.config = c.base
  BY <1>1 DEF TaskFollows, ConfigFollows
<1>4. ProofsFollow(c)
  BY <1>1 DEF TaskFollows
<1>5. c.op = "check" => ApprovedAsWas(c) /\ KeyedAsWas(c) /\ AliasAsWas(c)
  BY <1>4 DEF ProofsFollow, CheckFollows
<1>6. c.op = "activate" => ApprovedAsWas(c) /\ KeyedAsWas(c) /\ AliasAsWas(c)
  BY <1>2, <1>4 DEF ProofsFollow, UndoFollows, n
<1> QED  BY <1>3, <1>5, <1>6 DEF ApprovedAsWas, KeyedAsWas, AliasAsWas

\* The invariant behind all that follows: where each command is on its path,
\* and what it has done and undone there.
THEOREM WorkIsFollowed == ASSUME ConstantsOK PROVE Spec => []JInv
<1>1. Init => JInv
  BY InitIsJGood
<1>2. JInv /\ [Next]_vars => JInv'
  BY NextKeepsJInv
<1> QED  BY <1>1, <1>2, PTL DEF Spec

\* The types of the disk and of the guards; the profile guard names the one
\* command that works.
THEOREM ProfilesTypeCorrect == ASSUME ConstantsOK PROVE Spec => []TypeOK
<1>1. JInv => TypeOK
  BY JInvTypes
<1> QED  BY <1>1, WorkIsFollowed, PTL

\* Wherever a command stops, its steps interleaved with crashes, damage and the
\* daemon's: every config and every way back names a file of the pinned
\* content, or one that was damaged from outside.
THEOREM TextsAlwaysResolve == ASSUME ConstantsOK PROVE Spec => []TextsResolve
<1>1. JInv => TextsResolve
  BY JInvResolves
<1> QED  BY <1>1, WorkIsFollowed, PTL

\* A command that reports success has made the config name what it was asked
\* for, and its evidence is on the disk.
THEOREM SuccessIsServed == ASSUME ConstantsOK PROVE Spec => []DoneIsServed
<1>1. JInv => DoneIsServed
  BY JInvServes
<1> QED  BY <1>1, WorkIsFollowed, PTL

\* A command that fails and blames nothing left the config, and an activation
\* or a check also every proof and approval, as they were.
THEOREM FailureIsRestored == ASSUME ConstantsOK PROVE Spec => []FailureRestores
<1>1. JInv => FailureRestores
  BY JInvRestores
<1> QED  BY <1>1, WorkIsFollowed, PTL

=============================================================================
