------------------------------ MODULE Deployment ------------------------------
(***************************************************************************)
(* The deployment installer: install, upgrade, rollback and uninstall of a *)
(* release.  Each is a row of steps over four places that no transaction   *)
(* covers: the pointer current.json, the deployment receipts, the service  *)
(* (its definition and what runs) and the Hermes bridge.  A step that      *)
(* throws starts the compensation of what the steps before it touched.     *)
(*                                                                         *)
(* A definition or a bridge is told apart only by the release it is for;   *)
(* Changed is a content no release has.  Files are as the code leaves      *)
(* them: only the process crashes, not the machine.                        *)
(***************************************************************************)
EXTENDS Naturals, Sequences

CONSTANTS
  Procs,        \* command lines that may run at the same time
  Releases,     \* source archives
  Nothing,      \* no file, nothing running
  Changed,      \* a file edited by hand, or a bridge half swapped
  Managers,     \* subset of {"launchd", "systemd", "none"}
  MaxReceipts,  \* bound: deployments ever prepared
  MaxMishaps    \* bound: steps that throw, crashes and edits by hand

VARIABLES
  host,     \* what is on the machine
  lock,     \* .deployment.lock: "free", its holder, or "stale"
  cli,      \* the command lines
  manager,  \* the service manager of the machine
  tainted,  \* after a crash, an edit or half a compensation
  mishaps   \* how many there were

vars == <<host, lock, cli, manager, tainted, mishaps>>

Content == Releases \cup {Nothing, Changed}
Final == {"installed", "upgraded"}
Status == {"prepared", "rolled-back", "uninstalled"} \cup Final
Apply == {"install", "upgrade"}
Service == {"stop", "define", "reload", "start"}
Bridge == {"tear", "seal", "sign"}

ReceiptSet ==
  [op : Apply, release : Releases, hermes : BOOLEAN, bridge : BOOLEAN,
   status : Status,
   hstatus : {"none", "installed", "rolled-back"},
   prev : Nat, priorText : Content, priorActive : BOOLEAN,
   priorBridge : Content]

NoRequest == [op |-> "none", release |-> Nothing, hermes |-> FALSE,
              managed |-> FALSE, mine |-> 0, status |-> "none"]
Asked(op) == [NoRequest EXCEPT !.op = op]

\* todo: the steps still to take; touched: what the catch block knows it has to restore;
\* blame: a compensation failed; unseen: an effect the catch block misses.
Idle == [at |-> "idle", ask |-> NoRequest, todo |-> {}, back |-> FALSE,
         was |-> Nothing, touched |-> {}, blame |-> FALSE, unseen |-> FALSE]

Active == host.running # Nothing
TextOf(i) == IF manager = "none" THEN Nothing ELSE host.receipts[i].release

Mishap == mishaps < MaxMishaps /\ mishaps' = mishaps + 1

Init ==
  /\ host = [pointer |-> 0, text |-> Nothing, running |-> Nothing,
             bridge |-> Nothing, receipts |-> <<>>]
  /\ lock = "free"
  /\ cli = [p \in Procs |-> Idle]
  /\ manager \in Managers
  /\ tainted = FALSE /\ mishaps = 0

-----------------------------------------------------------------------------
(* Before the lock: what a command line reads and refuses.                 *)

\* loadVerifiedCurrentReceipt
Verified(i) == host.receipts[i].status \in Final

Ask(p, request) ==
  /\ cli[p].at = "idle"
  /\ request.managed => manager # "none"
  /\ cli' = [cli EXCEPT ![p].at = "asked", ![p].ask = request]
  /\ UNCHANGED <<host, lock, manager, tainted, mishaps>>

\* planDeployment
AskApply(p, r, hermes, managed) ==
  LET cur == host.pointer
      op == IF cur = 0 THEN "install" ELSE "upgrade" IN
  /\ cur # 0 => Verified(cur) /\ host.receipts[cur].release # r
  /\ Ask(p, [Asked(op) EXCEPT !.release = r, !.hermes = hermes,
                              !.managed = managed])

AskRollback(p, i, managed) ==
  /\ host.receipts[i].status \in Final
  /\ Ask(p, [Asked("rollback") EXCEPT !.mine = i, !.managed = managed,
                                      !.status = host.receipts[i].status])

\* The status of the receipt is not looked at.
AskUninstall(p, managed) ==
  /\ host.pointer # 0
  /\ Ask(p, [Asked("uninstall") EXCEPT !.mine = host.pointer,
                                       !.managed = managed])

-----------------------------------------------------------------------------
(* Under the lock: the checks are made again, then the steps are known.    *)

DefinitionUnchanged_Ignored(i) == TRUE  \* (mutant) any text will do
\* assertCurrentServiceDefinition
DefinitionUnchanged(i) == host.text = TextOf(i)

ServiceAllows(request) == request.managed \/ ~Active

AcceptsApply(request) ==
  LET cur == host.pointer IN
  /\ request.op = "install" <=> cur = 0
  /\ cur # 0 => /\ host.receipts[cur].release # request.release
                /\ Verified(cur)
                /\ DefinitionUnchanged(cur)
  /\ ServiceAllows(request)
  /\ Len(host.receipts) < MaxReceipts

AcceptsExisting(request) ==
  /\ host.pointer = request.mine
  /\ ServiceAllows(request)
  /\ DefinitionUnchanged(request.mine)

Accepts(request) ==
  IF request.op \in Apply THEN AcceptsApply(request)
                          ELSE AcceptsExisting(request)

ApplyPath == <<"prepare", "release", "tear", "seal", "sign", "note",
               "stop", "define", "reload", "start", "point", "finish">>
RollbackPath == <<"stop", "tear", "seal", "sign", "define", "reload",
                  "start", "point", "finish">>
UninstallPath == <<"stop", "define", "reload", "point", "finish">>

Path(op) == CASE op \in Apply     -> ApplyPath
              [] op = "rollback"  -> RollbackPath
              [] op = "uninstall" -> UninstallPath

Steps(path) == {path[i] : i \in 1..Len(path)}

\* The conditions under which the code takes a step.
Starts(request) ==
  \/ request.op \in Apply
  \/ /\ request.op = "rollback"
     /\ host.receipts[request.mine].priorActive
     /\ host.receipts[request.mine].priorText # Nothing

HasBridge(request) ==
  IF request.op \in Apply THEN request.hermes
                          ELSE host.receipts[request.mine].bridge

Takes(request, s) ==
  /\ s \in Bridge \cup {"note"} => HasBridge(request)
  /\ s = "stop" => request.managed /\ Active
  /\ s = "define" => manager # "none"
  /\ s \in {"reload", "start"} => request.managed
  /\ s = "start" => Starts(request)

Snapshot(i) ==
  [pointer |-> host.pointer, text |-> host.text, active |-> Active,
   bridge |-> host.bridge,
   status |-> IF i = 0 THEN "none" ELSE host.receipts[i].status]

LockAllows_Held == lock # "stale"  \* (mutant) the lock file is opened, not created
LockAllows == lock = "free"

Enter(p) ==
  LET request == cli[p].ask IN
  /\ cli[p].at = "asked" /\ LockAllows
  /\ Accepts(request)
  /\ lock' = p
  /\ cli' = [cli EXCEPT ![p].at = "working", ![p].was = Snapshot(request.mine),
       ![p].todo = {s \in Steps(Path(request.op)) : Takes(request, s)}]
  /\ UNCHANGED <<host, manager, tainted, mishaps>>

\* The lock is held or stale, a check fails, or something cannot be read.
Refuse(p) ==
  /\ cli[p].at = "asked"
  /\ cli' = [cli EXCEPT ![p] = Idle]
  /\ UNCHANGED <<host, lock, manager, tainted, mishaps>>

-----------------------------------------------------------------------------
(* What a step leads to.                                                   *)

\* The receipt an operation is about: a new one is the last.
Mine(p) == IF cli[p].ask.op \in Apply THEN Len(host.receipts)
                                      ELSE cli[p].ask.mine

GoalStatus(op) == CASE op = "install"   -> "installed"
                    [] op = "upgrade"   -> "upgraded"
                    [] op = "rollback"  -> "rolled-back"
                    [] op = "uninstall" -> "uninstalled"

Forward(p) ==
  LET c == cli[p]  m == Mine(p)  r == host.receipts[m] IN
  CASE c.ask.op \in Apply     -> [pointer |-> m, text |-> TextOf(m)]
    [] c.ask.op = "rollback"  -> [pointer |-> r.prev, text |-> r.priorText]
    [] c.ask.op = "uninstall" -> [pointer |-> 0, text |-> Nothing]

Goal(p) ==
  IF cli[p].back
  THEN [pointer |-> cli[p].was.pointer, text |-> cli[p].was.text,
        status |-> cli[p].ask.status]
  ELSE [pointer |-> Forward(p).pointer, text |-> Forward(p).text,
        status |-> GoalStatus(cli[p].ask.op)]

\* The bridge goes from the old one to the new, or the other way.
ToNew(p) == (cli[p].ask.op \in Apply) # cli[p].back
End(p, new) ==
  LET r == host.receipts[Mine(p)] IN
  IF new THEN [bridge |-> r.release, hstatus |-> "installed"]
         ELSE [bridge |-> r.priorBridge, hstatus |-> "rolled-back"]
Installs(p) == cli[p].ask.op \in Apply /\ ~cli[p].back

\* The steps of restoreService and of the other compensations.
BackPath(op) ==
  CASE op \in Apply     -> <<"point", "stop", "define", "reload", "start",
                             "tear", "seal", "sign">>
    [] op = "rollback"  -> <<"finish", "point", "tear", "seal", "sign",
                             "stop", "define", "reload", "start">>
    [] op = "uninstall" -> <<>>

Group(s) == CASE s \in Service -> "service"
              [] s \in Bridge  -> "bridge"
              [] s = "point"   -> "pointer"
              [] OTHER         -> "receipt"

TakesBack(c, touched, s) ==
  /\ Group(s) \in touched
  /\ s \in {"stop", "reload", "start"} => c.ask.managed
  /\ s = "start" => c.was.active /\ c.was.text # Nothing

MarkedFirst_NotPointer(op) ==  \* (mutant) pointerTouched after writePointer
  IF op = "rollback" THEN {"stop", "define", "finish"} ELSE {"define"}

\* The steps whose flag is set before the call: the catch block sees them even
\* when they threw.  The flag of any other step is set after the call.
MarkedFirst(op) ==
  IF op = "rollback" THEN {"stop", "define", "point", "finish"} ELSE {"define"}

\* A bridge transaction counts once its receipt is signed.
MarkedAfter(s) == s \in {"stop", "define", "sign", "point", "finish"}

-----------------------------------------------------------------------------
(* How a step ends: it returns, or it throws with or without its effect.   *)

\* s is the first step of path still to take.
IsNext(path, todo, s) ==
  \E i \in 1..Len(path) : /\ path[i] = s /\ s \in todo
                          /\ \A j \in 1..(i - 1) : path[j] \notin todo

At(p, s) ==
  LET c == cli[p] IN
  /\ c.at = "working"
  /\ IsNext(IF c.back THEN BackPath(c.ask.op) ELSE Path(c.ask.op), c.todo, s)

Returns(p, s, after) ==
  /\ host' = after
  /\ cli' = [cli EXCEPT ![p].todo = @ \ {s},
               ![p].touched = IF MarkedAfter(s) /\ ~cli[p].back
                              THEN @ \cup {Group(s)} ELSE @]
  /\ UNCHANGED mishaps

\* In compensation: what is left of this group is skipped, the rest is tried.
Skip(c, s) == [c EXCEPT !.blame = TRUE,
  !.todo = {t \in @ : Group(t) # Group(s)}]

\* Otherwise: the catch block, unless the step is outside of its try.
Catch(c, s, missed) ==
  LET marked == c.touched \cup
                (IF s \in MarkedFirst(c.ask.op) THEN {Group(s)} ELSE {}) IN
  [c EXCEPT !.back = TRUE, !.touched = marked,
            !.unseen = missed /\ c.ask.op \in Apply,
            !.todo = IF s = "prepare" THEN {}
                     ELSE {t \in Steps(BackPath(c.ask.op)) : TakesBack(c, marked, t)}]

Thrown(c, s, missed) == IF c.back THEN Skip(c, s) ELSE Catch(c, s, missed)

\* Effects the flags of applyDeployment do not cover: stop() and writePointer
\* that throw when the service is down or the pointer renamed.
Throws(p, s, after) ==
  /\ Mishap
  /\ host' = after
  /\ cli' = [cli EXCEPT
       ![p] = Thrown(@, s, after # host /\ s \in {"stop", "point"})]

\* What the code finds makes the step throw.
Refuses(p, s) ==
  /\ At(p, s)
  /\ cli' = [cli EXCEPT ![p] = Thrown(@, s, FALSE)]
  /\ UNCHANGED <<host, lock, manager, tainted, mishaps>>

Step(p, s, after) ==
  /\ At(p, s)
  /\ \/ Returns(p, s, after)
     \/ Throws(p, s, after)
     \/ after # host /\ Throws(p, s, host)
  /\ UNCHANGED <<lock, manager, tainted>>

-----------------------------------------------------------------------------
(* The steps.                                                              *)

NewReceipt(c) ==
  [op |-> c.ask.op, release |-> c.ask.release, hermes |-> c.ask.hermes,
   bridge |-> FALSE, status |-> "prepared", hstatus |-> "none",
   prev |-> c.was.pointer, priorText |-> c.was.text,
   priorActive |-> c.was.active, priorBridge |-> c.was.bridge]

\* The private snapshot, the backup of the definition, the first receipt.
Prepare(p) ==
  Step(p, "prepare", [host EXCEPT !.receipts = Append(@, NewReceipt(cli[p]))])

\* A release directory is complete and never written again, or it is not there.
PrepareRelease(p) == Step(p, "release", host)

NoteBridge(p) == Step(p, "note", [host EXCEPT !.receipts[Mine(p)].bridge = TRUE])

StopService(p) == Step(p, "stop", [host EXCEPT !.running = Nothing])

WriteDefinition(p) == Step(p, "define", [host EXCEPT !.text = Goal(p).text])

\* launchd bootstraps the job, and RunAtLoad runs it (a job that is loaded
\* cannot be bootstrapped, but none is: a stop always came before).  systemd
\* only reads the definitions again.
Reload(p) ==
  LET runs == manager = "launchd" /\ host.text # Nothing IN
  Step(p, "reload", [host EXCEPT !.running = IF runs THEN host.text ELSE @])

Start(p) ==
  Step(p, "start", [host EXCEPT !.running = IF Active THEN @ ELSE host.text])

WritePointer(p) == Step(p, "point", [host EXCEPT !.pointer = Goal(p).pointer])

WriteReceipt(p) ==
  Step(p, "finish", [host EXCEPT !.receipts[Mine(p)].status = Goal(p).status])

-----------------------------------------------------------------------------
(* The bridge: installHermesBridge, rollbackHermesBridge and               *)
(* compensateHermesBridgeRollback swap the plugin, then config.yaml, then  *)
(* sign their receipt; each undoes itself when one of these throws.        *)

\* The digests of plugin, config and backups, and the receipt's status.
BridgeAsExpected(p) ==
  Installs(p) \/ /\ host.bridge = End(p, ~ToNew(p)).bridge
                 /\ host.receipts[Mine(p)].hstatus = End(p, ~ToNew(p)).hstatus

Undo(p, after) ==
  /\ Mishap
  /\ host' = after
  /\ cli' = [cli EXCEPT ![p].at = "undoing"]

BridgeStep(p, s, after) ==
  /\ At(p, s)
  /\ \/ Returns(p, s, after)
     \/ s # "tear" /\ Undo(p, host)
     \/ after # host /\ Undo(p, after)
  /\ UNCHANGED <<lock, manager, tainted>>

TearBridge(p) ==
  /\ At(p, "tear")
  /\ IF BridgeAsExpected(p)
     THEN \/ BridgeStep(p, "tear", [host EXCEPT !.bridge = Changed])
          \/ /\ Throws(p, "tear", host)
             /\ UNCHANGED <<lock, manager, tainted>>
     ELSE Refuses(p, "tear")

SealBridge(p) ==
  BridgeStep(p, "seal", [host EXCEPT !.bridge = End(p, ToNew(p)).bridge])

SignBridge(p) ==
  BridgeStep(p, "sign", [host EXCEPT
    !.receipts[Mine(p)].hstatus = End(p, ToNew(p)).hstatus])

\* The receipt of an installation that is undone is deleted.
Source(p) ==
  IF Installs(p)
  THEN [bridge |-> host.receipts[Mine(p)].priorBridge, hstatus |-> "none"]
  ELSE End(p, ~ToNew(p))

Restored(p) == [host EXCEPT !.bridge = Source(p).bridge,
                            !.receipts[Mine(p)].hstatus = Source(p).hstatus]

\* A transaction that has undone itself throws its error to the caller; only
\* rollbackHermesBridge tells it, by an AggregateError, when it did so in part.
Rethrow(c, partial) ==
  [Thrown(c, "tear", partial) EXCEPT !.at = "working",
     !.blame = @ \/ (partial /\ c.ask.op = "rollback")]

UndoReturns(p) ==
  /\ cli[p].at = "undoing"
  /\ host' = Restored(p)
  /\ cli' = [cli EXCEPT ![p] = Rethrow(@, FALSE)]
  /\ UNCHANGED <<lock, manager, tainted, mishaps>>

\* The plugin may be gone, in place or the old one, its receipt as before or not.
UndoThrows(p) ==
  /\ cli[p].at = "undoing"
  /\ Mishap
  /\ \E b \in {host.bridge, Source(p).bridge, Changed},
        h \in {host.receipts[Mine(p)].hstatus, Source(p).hstatus} :
       host' = [host EXCEPT !.bridge = b, !.receipts[Mine(p)].hstatus = h]
  /\ cli' = [cli EXCEPT ![p] = Rethrow(@, TRUE)]
  /\ UNCHANGED <<lock, manager, tainted>>

-----------------------------------------------------------------------------
(* The end of an operation, and what happens between operations.           *)

Over(p) == cli[p].at = "working" /\ cli[p].todo = {}

\* What the command tells: "failed" is the error itself, "restored" the
\* message that the rollback failed and the state before it is restored
\* exactly, "incomplete" an AggregateError that asks for manual recovery.
Outcome(p) ==
  CASE ~cli[p].back                        -> "done"
    [] cli[p].back /\ cli[p].blame         -> "incomplete"
    [] cli[p].back /\ ~cli[p].blame        ->
         IF cli[p].ask.op = "rollback" THEN "restored" ELSE "failed"

Leave(p) ==
  /\ Over(p)
  /\ lock' = "free"
  /\ cli' = [cli EXCEPT ![p] = Idle]
  /\ tainted' = (tainted \/ Outcome(p) = "incomplete" \/ cli[p].unseen)
  /\ UNCHANGED <<host, manager, mishaps>>

\* The process is killed: its lock file stays.
Crash(p) ==
  /\ cli[p].at \in {"working", "undoing"}
  /\ Mishap
  /\ cli' = [cli EXCEPT ![p] = Idle]
  /\ lock' = "stale" /\ tainted' = TRUE
  /\ UNCHANGED <<host, manager>>

OperatorRemovesLock ==
  /\ lock = "stale" /\ lock' = "free"
  /\ UNCHANGED <<host, cli, manager, tainted, mishaps>>

OperatorRunsService ==
  /\ lock = "free" /\ manager # "none"
  /\ \/ ~Active /\ host.text # Nothing /\ host' = [host EXCEPT !.running = host.text]
     \/ Active /\ host' = [host EXCEPT !.running = Nothing]
  /\ UNCHANGED <<lock, cli, manager, tainted, mishaps>>

OperatorEdits ==
  /\ lock = "free"
  /\ Mishap
  /\ \/ host.text # Nothing /\ host' = [host EXCEPT !.text = Changed]
     \/ host.bridge # Nothing /\ host' = [host EXCEPT !.bridge = Changed]
  /\ tainted' = TRUE
  /\ UNCHANGED <<lock, cli, manager>>

Requests(p) ==
  \E managed \in BOOLEAN :
    \/ \E r \in Releases, hermes \in BOOLEAN : AskApply(p, r, hermes, managed)
    \/ \E i \in 1..Len(host.receipts) : AskRollback(p, i, managed)
    \/ AskUninstall(p, managed)

Next ==
  \/ \E p \in Procs :
       \/ Requests(p) \/ Enter(p) \/ Refuse(p)
       \/ Prepare(p) \/ PrepareRelease(p) \/ NoteBridge(p)
       \/ TearBridge(p) \/ SealBridge(p) \/ SignBridge(p)
       \/ UndoReturns(p) \/ UndoThrows(p)
       \/ StopService(p) \/ WriteDefinition(p) \/ Reload(p) \/ Start(p)
       \/ WritePointer(p) \/ WriteReceipt(p)
       \/ Leave(p) \/ Crash(p)
  \/ OperatorRemovesLock \/ OperatorRunsService \/ OperatorEdits

Spec == Init /\ [][Next]_vars

-----------------------------------------------------------------------------
(* Properties.                                                             *)

CliSet ==
  [at : {"idle", "asked", "working", "undoing"},
   ask : [op : Apply \cup {"none", "rollback", "uninstall"},
          release : Releases \cup {Nothing}, hermes : BOOLEAN,
          managed : BOOLEAN, mine : Nat, status : Final \cup {"none"}],
   todo : SUBSET ({"prepare", "release", "note", "point", "finish"}
                  \cup Service \cup Bridge),
   back : BOOLEAN,
   was : {Nothing} \cup [pointer : Nat, text : Content, active : BOOLEAN,
                         bridge : Content,
                         status : {"none"} \cup Status],
   touched : SUBSET {"service", "bridge", "pointer", "receipt"},
   blame : BOOLEAN, unseen : BOOLEAN]

\* Types; and the lock has one holder, the one command line that changes things.
TypeOK ==
  /\ host.pointer \in 0..Len(host.receipts)
  /\ {host.text, host.running, host.bridge} \subseteq Content
  /\ host.receipts \in Seq(ReceiptSet)
  /\ lock \in Procs \cup {"free", "stale"}
  /\ cli \in [Procs -> CliSet]
  /\ \A p \in Procs : cli[p].at \in {"working", "undoing"} <=> lock = p
  /\ manager \in Managers /\ tainted \in BOOLEAN
  /\ mishaps \in 0..MaxMishaps

\* launchd runs what it loads, whether it ran before or not.
LaunchdRuns(p) == manager = "launchd" /\ cli[p].ask.managed /\ Active

\* The pointer names a deployment whose receipt is final, whose definition is
\* the one on the machine, and whose bridge is in place.
Described ==
  LET i == host.pointer IN
  i # 0 =>
    /\ Verified(i) /\ host.text = TextOf(i)
    /\ (~tainted /\ host.receipts[i].bridge) =>
         /\ host.bridge = host.receipts[i].release
         /\ host.receipts[i].hstatus = "installed"

\* An operation that reports success has its pointer and its service as asked,
\* and leaves a deployment its receipt describes, whatever crashes, half made
\* compensations and edits came before it: the checks under the lock refuse
\* to build on anything else.
DoneIsDescribed ==
  \A p \in Procs : (Over(p) /\ Outcome(p) = "done") =>
    LET request == cli[p].ask IN
    /\ host.pointer = Forward(p).pointer /\ Described
    /\ host.receipts[Mine(p)].status = GoalStatus(request.op)
    /\ Active => request.managed
    /\ request.managed => \/ Active = Starts(request)
                          \/ request.op = "rollback" /\ LaunchdRuns(p)

\* A rollback that tells that everything is restored, and an installation or
\* upgrade that fails without telling of an incomplete compensation, have left
\* the machine as it was, at whatever step they threw and although a step may
\* throw with its effect.  Not covered: the effects applyDeployment does not
\* see, launchd, which runs a job that was not running, and a receipt that a
\* crashed rollback changed after the command read it.
FailureRestores ==
  \A p \in Procs :
    LET c == cli[p] IN
    (/\ Over(p) /\ Outcome(p) \in {"restored", "failed"}
     /\ c.ask.op # "uninstall" /\ ~c.unseen) =>
      /\ host.pointer = c.was.pointer
      /\ host.text = c.was.text
      /\ host.bridge = c.was.bridge
      /\ Active = c.was.active \/ (LaunchdRuns(p) /\ host.text # Nothing)
      /\ c.ask.op = "rollback" /\ c.ask.status = c.was.status =>
           host.receipts[Mine(p)].status = c.was.status

=============================================================================
