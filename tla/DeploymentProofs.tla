---------------------------- MODULE DeploymentProofs ----------------------------
(***************************************************************************)
(* Proofs about the deployment installer.  The invariant says, for every   *)
(* command at work, what its remaining steps tell of the machine: where    *)
(* the pointer, the definition, the service and the bridge are while it    *)
(* goes forward, and how much of that a compensation has put back.         *)
(* Between the commands, it says that whatever the pointer names can be    *)
(* rolled back from: all that is under it is final, and, unless the        *)
(* machine is tainted, the bridge is the one the receipts tell.            *)
(***************************************************************************)
EXTENDS Deployment, TLAPS

\* A service manager is one of the three, a holder of the lock is a command line,
\* and what a place holds tells the releases apart.
ConstantsOK ==
  /\ Nothing \notin Releases /\ Changed \notin Releases /\ Nothing # Changed
  /\ Managers \subseteq {"launchd", "systemd", "none"}
  /\ Procs \cap {"free", "stale"} = {}
  /\ MaxReceipts \in Nat /\ MaxMishaps \in Nat

AllSteps == {"prepare", "release", "note", "point", "finish"} \cup Service \cup Bridge
WasSet ==
  [pointer : Nat, text : Content, active : BOOLEAN, bridge : Content,
   status : {"none"} \cup Status]

-----------------------------------------------------------------------------
(* The machine h under the manager m, and the task of the command line c.  *)

Up(h) == h.running # Nothing
TextIn(h, m, i) == IF m = "none" THEN Nothing ELSE h.receipts[i].release

\* Applies, and its receipt if there is one.
Applies(c) == c.ask.op \in Apply
MineOf(c, h) == IF Applies(c) THEN Len(h.receipts) ELSE c.ask.mine
ReceiptOf(c, h) == h.receipts[MineOf(c, h)]

NextPointer(c, h) ==
  IF Applies(c) THEN Len(h.receipts)
  ELSE IF c.ask.op = "rollback" THEN ReceiptOf(c, h).prev ELSE 0

NextText(c, h, m) ==
  IF Applies(c) THEN TextIn(h, m, MineOf(c, h))
  ELSE IF c.ask.op = "rollback" THEN ReceiptOf(c, h).priorText ELSE Nothing

Has(c, h) == IF Applies(c) THEN c.ask.hermes ELSE ReceiptOf(c, h).bridge
HasTask(c, h) == Has(c, h) /\ c.ask.op # "uninstall"

ToStart(c, h) ==
  \/ Applies(c)
  \/ /\ c.ask.op = "rollback" /\ ReceiptOf(c, h).priorActive
     /\ ReceiptOf(c, h).priorText # Nothing

\* The bridge of the receipt's release, or the one before it.
EndIn(c, h, new) ==
  IF new THEN [bridge |-> ReceiptOf(c, h).release, hstatus |-> "installed"]
         ELSE [bridge |-> ReceiptOf(c, h).priorBridge, hstatus |-> "rolled-back"]

HostShape(h) ==
  /\ h \in [pointer : Nat, text : Content, running : Content, bridge : Content,
            receipts : Seq(ReceiptSet)]
  /\ h.pointer \in 0..Len(h.receipts)

\* What a receipt says of the one before it stays true, for its fields do.
HostFits(h, m) ==
  /\ m = "none" => h.text = Nothing
  /\ Up(h) => h.text # Nothing
  /\ \A j \in 1..Len(h.receipts) :
       /\ h.receipts[j].prev \in 0..(j - 1)
       /\ h.receipts[j].prev # 0 =>
            h.receipts[j].priorText = TextIn(h, m, h.receipts[j].prev)

-----------------------------------------------------------------------------
(* The way back.  Every receipt under the pointer is one a rollback may go *)
(* to, and as long as nothing taints the machine, its bridge is the one it *)
(* will find.                                                              *)

FinalIn(h, i) == h.receipts[i].status \in Final

\* b is the bridge the deployment i runs with.
Bears(h, i, b) ==
  IF h.receipts[i].bridge
  THEN b = h.receipts[i].release /\ h.receipts[i].hstatus = "installed"
  ELSE b = h.receipts[i].priorBridge

Linked(h, j) ==
  h.receipts[j].prev # 0 => Bears(h, h.receipts[j].prev, h.receipts[j].priorBridge)

\* S holds all that is under i.
Below(h, i, S, clean) ==
  /\ S \subseteq 1..(i - 1)
  /\ \A j \in S : FinalIn(h, j)
  /\ \A j \in S \cup {i} : /\ h.receipts[j].prev \in S \cup {0}
                           /\ clean => Linked(h, j)

Founded(h, i, clean) == i # 0 => \E S \in SUBSET (1..(i - 1)) : Below(h, i, S, clean)

-----------------------------------------------------------------------------
(* A command at work.                                                      *)

TaskKnown(c, h, m) ==
  /\ c.ask.op \in Apply \cup {"rollback", "uninstall"}
  /\ c.was \in WasSet /\ c.was.pointer \in 0..Len(h.receipts)
  /\ c.ask.managed => m # "none"
  /\ ~c.ask.managed => ~Up(h) /\ ~c.was.active
  /\ c.was.active => c.was.text # Nothing
  /\ m = "none" => c.was.text = Nothing
  /\ IF Applies(c)
     THEN /\ c.ask.release \in Releases
          /\ c.was.pointer # 0 => /\ FinalIn(h, c.was.pointer)
                                  /\ c.was.text = TextIn(h, m, c.was.pointer)
     ELSE /\ c.ask.mine = c.was.pointer /\ c.ask.mine # 0
          /\ c.ask.op = "rollback" => c.ask.status \in Final

Prepared(c, h) ==
  /\ c.was.pointer < Len(h.receipts)
  /\ ReceiptOf(c, h).release = c.ask.release
  /\ ReceiptOf(c, h).prev = c.was.pointer
  /\ ReceiptOf(c, h).priorText = c.was.text
  /\ ReceiptOf(c, h).priorBridge = c.was.bridge

PreparedFollows(c, h) ==
  Applies(c) => \/ Prepared(c, h)
                \/ IF c.back THEN c.todo = {} /\ h.pointer = c.was.pointer
                             ELSE "prepare" \in c.todo

\* All that is still to take before the receipt is prepared.
Everything(c, m) ==
  /\ c.touched = {} /\ {"release", "point", "finish"} \subseteq c.todo
  /\ m # "none" => "define" \in c.todo
  /\ c.ask.managed => {"reload", "start"} \subseteq c.todo
  /\ c.ask.hermes => {"tear", "seal", "sign", "note"} \subseteq c.todo

\* The step that comes before the bridge.
BeforeBridge(c) == IF Applies(c) THEN "release" ELSE "stop"

TodoFits(c, h, m) ==
  /\ ~c.ask.managed => c.todo \cap {"stop", "reload", "start"} = {}
  /\ m = "none" => "define" \notin c.todo
  /\ "stop" \in c.todo => "define" \in c.todo
  /\ c.ask.managed /\ "define" \in c.todo => "reload" \in c.todo
  /\ "tear" \in c.todo => "seal" \in c.todo
  /\ "seal" \in c.todo => "sign" \in c.todo
  /\ ~HasTask(c, h) => c.todo \cap Bridge = {}
  /\ c.at = "undoing" => "sign" \in c.todo /\ (c.back \/ "prepare" \notin c.todo)
  /\ ~c.back =>
       /\ "prepare" \in c.todo => Applies(c) /\ Everything(c, m)
       /\ "note" \in c.todo => Applies(c) /\ c.ask.hermes
       /\ "sign" \in c.todo /\ "tear" \notin c.todo => BeforeBridge(c) \notin c.todo
       /\ "start" \in c.todo => ToStart(c, h)
       /\ "reload" \in c.todo /\ ToStart(c, h) => "start" \in c.todo
  /\ c.back =>
       /\ "reload" \in c.todo /\ c.was.active => "start" \in c.todo
       /\ "start" \in c.todo => c.was.active

\* What the catch block would know.
TouchedFits(c, h, m) ==
  ~c.back =>
    /\ "pointer" \in c.touched <=> "point" \notin c.todo
    /\ "service" \notin c.touched =>
         /\ m # "none" => "define" \in c.todo
         /\ Up(h) <=> c.was.active
    /\ m = "none" => "service" \notin c.touched
    /\ "bridge" \in c.touched <=> HasTask(c, h) /\ "sign" \notin c.todo
    /\ "receipt" \in c.touched <=> "finish" \notin c.todo

\* A compensation that the command vouches for.
Vouched(c) == ~c.blame /\ ~c.unseen /\ c.ask.op # "uninstall"

PointerFollows(c, h) ==
  IF c.back
  THEN /\ h.pointer \in {c.was.pointer, NextPointer(c, h)}
       /\ Vouched(c) /\ "point" \notin c.todo => h.pointer = c.was.pointer
  ELSE h.pointer = IF "point" \in c.todo THEN c.was.pointer ELSE NextPointer(c, h)

TextFollows(c, h, m) ==
  m # "none" =>
    IF c.back
    THEN Vouched(c) /\ "define" \notin c.todo => h.text = c.was.text
    ELSE h.text = IF "define" \in c.todo THEN c.was.text ELSE NextText(c, h, m)

LaunchdUp(h, m) == m = "launchd" /\ Up(h)

ServiceFollows(c, h, m) ==
  c.ask.managed =>
    /\ "stop" \notin c.todo /\ "define" \in c.todo => ~Up(h)
    /\ (~c.back \/ Vouched(c)) /\ "stop" \notin c.todo /\ "reload" \in c.todo => ~Up(h)
    /\ ~c.back /\ "reload" \notin c.todo /\ "start" \notin c.todo =>
         (Up(h) <=> ToStart(c, h)) \/ (c.ask.op = "rollback" /\ LaunchdUp(h, m))
    /\ c.back /\ Vouched(c) /\ "reload" \notin c.todo /\ "start" \notin c.todo =>
         (Up(h) <=> c.was.active) \/ LaunchdUp(h, m)

BridgeFollows(c, h) ==
  /\ ~HasTask(c, h) => h.bridge = c.was.bridge
  /\ HasTask(c, h) /\ ~c.back =>
       /\ c.at = "working" /\ "tear" \in c.todo => h.bridge = c.was.bridge
       /\ ~Applies(c) /\ (c.at = "undoing" \/ "tear" \notin c.todo) =>
            c.was.bridge = ReceiptOf(c, h).release
       /\ "seal" \notin c.todo => h.bridge = EndIn(c, h, Applies(c)).bridge
       /\ "sign" \notin c.todo => ReceiptOf(c, h).hstatus = EndIn(c, h, Applies(c)).hstatus
  /\ HasTask(c, h) /\ c.back /\ Vouched(c) /\ c.at = "working" =>
       /\ "seal" \notin c.todo => h.bridge = c.was.bridge
       /\ "seal" \in c.todo => c.was.bridge =
            IF Applies(c) THEN ReceiptOf(c, h).priorBridge ELSE ReceiptOf(c, h).release

StatusFollows(c, h) ==
  /\ ~c.back =>
       /\ "finish" \notin c.todo => ReceiptOf(c, h).status = GoalStatus(c.ask.op)
       /\ "finish" \in c.todo /\ ~Applies(c) => ReceiptOf(c, h).status = c.was.status
       /\ Applies(c) /\ "prepare" \notin c.todo =>
            (ReceiptOf(c, h).bridge <=> c.ask.hermes /\ "note" \notin c.todo)
  /\ c.back /\ c.ask.op = "rollback" /\ Vouched(c) /\ "finish" \notin c.todo =>
       \/ c.ask.status # c.was.status \/ ReceiptOf(c, h).status = c.was.status

\* What holds on a machine without taint.
CleanFollows(c, h) ==
  /\ Applies(c) /\ c.was.pointer # 0 => Bears(h, c.was.pointer, c.was.bridge)
  /\ c.ask.op = "uninstall" => Bears(h, c.ask.mine, c.was.bridge)
  /\ c.ask.op = "rollback" =>
       /\ c.was.bridge = IF ReceiptOf(c, h).bridge THEN ReceiptOf(c, h).release
                                                   ELSE ReceiptOf(c, h).priorBridge
       /\ ReceiptOf(c, h).bridge /\ c.at = "working" =>
            /\ ~c.back /\ "sign" \in c.todo => ReceiptOf(c, h).hstatus = "installed"
            /\ c.back /\ Vouched(c) /\ "sign" \notin c.todo =>
                 ReceiptOf(c, h).hstatus = "installed"

TaskFollows(c, h, m, clean) ==
  /\ TaskKnown(c, h, m) /\ PreparedFollows(c, h)
  /\ TodoFits(c, h, m) /\ TouchedFits(c, h, m)
  /\ PointerFollows(c, h) /\ TextFollows(c, h, m) /\ ServiceFollows(c, h, m)
  /\ BridgeFollows(c, h) /\ StatusFollows(c, h)
  /\ clean => CleanFollows(c, h)
  /\ Founded(h, c.was.pointer, clean)

-----------------------------------------------------------------------------
(* The invariant.                                                          *)

AskFits(c, h, m) ==
  /\ c.ask.op \in Apply \cup {"rollback", "uninstall"}
  /\ c.ask.managed => m # "none"
  /\ IF Applies(c) THEN c.ask.release \in Releases /\ c.ask.mine = 0
                   ELSE c.ask.mine \in 1..Len(h.receipts)
  /\ c.ask.op = "rollback" => c.ask.status \in Final

Holds(p) == cli[p].at \in {"working", "undoing"}

Shape ==
  /\ HostShape(host) /\ lock \in Procs \cup {"free", "stale"}
  /\ cli \in [Procs -> CliSet]
  /\ \A p \in Procs : Holds(p) <=> lock = p
  /\ manager \in Managers /\ tainted \in BOOLEAN /\ mishaps \in 0..MaxMishaps

TasksFollow ==
  \A p \in Procs :
    /\ cli[p].at = "asked" => AskFits(cli[p], host, manager)
    /\ ~Holds(p) => cli[p] = [Idle EXCEPT !.at = cli[p].at, !.ask = cli[p].ask]
    /\ Holds(p) => TaskFollows(cli[p], host, manager, ~tainted)

RestsWell ==
  lock \in {"free", "stale"} =>
    /\ Founded(host, host.pointer, ~tainted)
    /\ ~tainted /\ host.pointer # 0 => Bears(host, host.pointer, host.bridge)

IInv == Shape /\ HostFits(host, manager) /\ TasksFollow /\ RestsWell

-----------------------------------------------------------------------------
(* The paths.                                                              *)

\* What the order of every path says of the step s that is next.
InOrder(todo, s) ==
  /\ s \in todo
  /\ s \in {"seal", "sign"} => "tear" \notin todo
  /\ s = "sign" => "seal" \notin todo
  /\ s \in {"define", "reload", "start"} => "stop" \notin todo
  /\ s \in {"reload", "start"} => "define" \notin todo
  /\ s = "start" => "reload" \notin todo

LEMMA ApplyOrder ==
  ASSUME NEW todo, NEW s, IsNext(ApplyPath, todo, s)
  PROVE  /\ InOrder(todo, s) /\ (s # "prepare" => "prepare" \notin todo)
         /\ s = "tear" => "release" \notin todo
         /\ "sign" \in todo /\ s \notin Bridge => s \in {"prepare", "release"}
<1> DEFINE path == ApplyPath
<1>1. /\ Len(path) = 12
      /\ path[1] = "prepare" /\ path[2] = "release" /\ path[3] = "tear"
      /\ path[4] = "seal" /\ path[5] = "sign" /\ path[6] = "note"
      /\ path[7] = "stop" /\ path[8] = "define" /\ path[9] = "reload"
      /\ path[10] = "start" /\ path[11] = "point" /\ path[12] = "finish"
  BY DEF ApplyPath
<1>2. PICK i \in 1..Len(path) : /\ path[i] = s /\ s \in todo
                                /\ \A j \in 1..(i - 1) : path[j] \notin todo
  BY DEF IsNext
<1> HIDE DEF path
<1>3. \A j \in 1..12 : j < i => path[j] \notin todo
  BY <1>1, <1>2
<1>4. i \in 1..12
  BY <1>1, <1>2
<1>5. s # "prepare" => i # 1
  BY <1>1, <1>2
<1>6. s # "prepare" => "prepare" \notin todo
  BY <1>1, <1>3, <1>4, <1>5
<1>7. s \in {"seal", "sign"} => i \in {4, 5}
  BY <1>1, <1>2, <1>4
<1>8. s = "sign" => i = 5
  BY <1>1, <1>2, <1>4
<1>9. s \in {"define", "reload", "start"} => i \in {8, 9, 10}
  BY <1>1, <1>2, <1>4
<1>10. s \in {"reload", "start"} => i \in {9, 10}
  BY <1>1, <1>2, <1>4
<1>11. s = "start" => i = 10
  BY <1>1, <1>2, <1>4
<1>12. s = "tear" => "release" \notin todo
  BY <1>1, <1>2, <1>3, <1>4
<1>13. "sign" \in todo /\ s \notin Bridge => s \in {"prepare", "release"}
  <2>1. "sign" \in todo => i \in {1, 2, 3, 4, 5}
    BY <1>1, <1>3, <1>4
  <2> QED  BY <1>1, <1>2, <2>1 DEF Bridge
<1> QED
  BY <1>1, <1>2, <1>3, <1>6, <1>7, <1>8, <1>9, <1>10, <1>11, <1>12, <1>13 DEF InOrder

LEMMA RollbackOrder ==
  ASSUME NEW todo, NEW s, IsNext(RollbackPath, todo, s)
  PROVE  /\ InOrder(todo, s) /\ s \notin {"prepare", "release", "note"}
         /\ s = "tear" => "stop" \notin todo
         /\ "sign" \in todo /\ s \notin Bridge => s = "stop"
<1> DEFINE path == RollbackPath
<1>1. /\ Len(path) = 9
      /\ path[1] = "stop" /\ path[2] = "tear" /\ path[3] = "seal" /\ path[4] = "sign"
      /\ path[5] = "define" /\ path[6] = "reload" /\ path[7] = "start"
      /\ path[8] = "point" /\ path[9] = "finish"
  BY DEF RollbackPath
<1>2. PICK i \in 1..Len(path) : /\ path[i] = s /\ s \in todo
                                /\ \A j \in 1..(i - 1) : path[j] \notin todo
  BY DEF IsNext
<1> HIDE DEF path
<1>3. \A j \in 1..9 : j < i => path[j] \notin todo
  BY <1>1, <1>2
<1>4. i \in 1..9
  BY <1>1, <1>2
<1>5. s \notin {"prepare", "release", "note"}
  BY <1>1, <1>2, <1>4
<1>6. /\ s \in {"seal", "sign"} => i \in {3, 4}
      /\ s = "sign" => i = 4
  BY <1>1, <1>2, <1>4
<1>7. /\ s \in {"define", "reload", "start"} => i \in {5, 6, 7}
      /\ s \in {"reload", "start"} => i \in {6, 7}
      /\ s = "start" => i = 7
  BY <1>1, <1>2, <1>4
<1>8. s = "tear" => "stop" \notin todo
  BY <1>1, <1>2, <1>3, <1>4
<1>9. "sign" \in todo /\ s \notin Bridge => s = "stop"
  <2>1. "sign" \in todo => i \in {1, 2, 3, 4}
    BY <1>1, <1>3, <1>4
  <2> QED  BY <1>1, <1>2, <2>1 DEF Bridge
<1> QED
  BY <1>1, <1>2, <1>3, <1>5, <1>6, <1>7, <1>8, <1>9 DEF InOrder

LEMMA UninstallOrder ==
  ASSUME NEW todo, NEW s, IsNext(UninstallPath, todo, s)
  PROVE  InOrder(todo, s) /\ s \in {"stop", "define", "reload", "point", "finish"}
<1> DEFINE path == UninstallPath
<1>1. /\ Len(path) = 5
      /\ path[1] = "stop" /\ path[2] = "define" /\ path[3] = "reload"
      /\ path[4] = "point" /\ path[5] = "finish"
  BY DEF UninstallPath
<1>2. PICK i \in 1..Len(path) : /\ path[i] = s /\ s \in todo
                                /\ \A j \in 1..(i - 1) : path[j] \notin todo
  BY DEF IsNext
<1> HIDE DEF path
<1>3. \A j \in 1..5 : j < i => path[j] \notin todo
  BY <1>1, <1>2
<1>4. i \in 1..5
  BY <1>1, <1>2
<1>5. s \in {"stop", "define", "reload", "point", "finish"}
  BY <1>1, <1>2, <1>4
<1>6. /\ s \in {"define", "reload"} => i \in {2, 3}
      /\ s = "reload" => i = 3
  BY <1>1, <1>2, <1>4
<1> QED
  BY <1>1, <1>2, <1>3, <1>5, <1>6 DEF InOrder

BackSteps == {"point"} \cup Service \cup Bridge

LEMMA ApplyBackOrder ==
  ASSUME NEW todo, NEW s, IsNext(BackPath("install"), todo, s)
  PROVE  InOrder(todo, s) /\ s \in BackSteps
<1> DEFINE path == BackPath("install")
<1>1. /\ Len(path) = 8
      /\ path[1] = "point" /\ path[2] = "stop" /\ path[3] = "define" /\ path[4] = "reload"
      /\ path[5] = "start" /\ path[6] = "tear" /\ path[7] = "seal" /\ path[8] = "sign"
  BY DEF BackPath, Apply
<1>2. PICK i \in 1..Len(path) : /\ path[i] = s /\ s \in todo
                                /\ \A j \in 1..(i - 1) : path[j] \notin todo
  BY DEF IsNext
<1> HIDE DEF path
<1>3. \A j \in 1..8 : j < i => path[j] \notin todo
  BY <1>1, <1>2
<1>4. i \in 1..8
  BY <1>1, <1>2
<1>5. s \in BackSteps
  BY <1>1, <1>2, <1>4 DEF BackSteps, Service, Bridge
<1>6. /\ s \in {"seal", "sign"} => i \in {7, 8}
      /\ s = "sign" => i = 8
  BY <1>1, <1>2, <1>4
<1>7. /\ s \in {"define", "reload", "start"} => i \in {3, 4, 5}
      /\ s \in {"reload", "start"} => i \in {4, 5}
      /\ s = "start" => i = 5
  BY <1>1, <1>2, <1>4
<1> QED
  BY <1>1, <1>2, <1>3, <1>5, <1>6, <1>7 DEF InOrder

LEMMA RollbackBackOrder ==
  ASSUME NEW todo, NEW s, IsNext(BackPath("rollback"), todo, s)
  PROVE  InOrder(todo, s) /\ s \in BackSteps \cup {"finish"}
<1> DEFINE path == BackPath("rollback")
<1>1. /\ Len(path) = 9
      /\ path[1] = "finish" /\ path[2] = "point" /\ path[3] = "tear" /\ path[4] = "seal"
      /\ path[5] = "sign" /\ path[6] = "stop" /\ path[7] = "define"
      /\ path[8] = "reload" /\ path[9] = "start"
  BY DEF BackPath, Apply
<1>2. PICK i \in 1..Len(path) : /\ path[i] = s /\ s \in todo
                                /\ \A j \in 1..(i - 1) : path[j] \notin todo
  BY DEF IsNext
<1> HIDE DEF path
<1>3. \A j \in 1..9 : j < i => path[j] \notin todo
  BY <1>1, <1>2
<1>4. i \in 1..9
  BY <1>1, <1>2
<1>5. s \in BackSteps \cup {"finish"}
  BY <1>1, <1>2, <1>4 DEF BackSteps, Service, Bridge
<1>6. /\ s \in {"seal", "sign"} => i \in {4, 5}
      /\ s = "sign" => i = 5
  BY <1>1, <1>2, <1>4
<1>7. /\ s \in {"define", "reload", "start"} => i \in {7, 8, 9}
      /\ s \in {"reload", "start"} => i \in {8, 9}
      /\ s = "start" => i = 9
  BY <1>1, <1>2, <1>4
<1> QED
  BY <1>1, <1>2, <1>3, <1>5, <1>6, <1>7 DEF InOrder

\* The step that is next for a command.
Next1(c, s) ==
  IsNext(IF c.back THEN BackPath(c.ask.op) ELSE Path(c.ask.op), c.todo, s)

LEMMA Paths ==
  /\ \A op \in Apply : Path(op) = ApplyPath /\ BackPath(op) = BackPath("install")
  /\ Path("rollback") = RollbackPath /\ Path("uninstall") = UninstallPath
  /\ BackPath("uninstall") = <<>>
<1>1. \A op \in Apply : Path(op) = ApplyPath
  <2> SUFFICES ASSUME NEW op \in Apply PROVE Path(op) = ApplyPath
    OBVIOUS
  <2>1. op # "rollback" /\ op # "uninstall"
    BY DEF Apply
  <2> QED  BY <2>1 DEF Path
<1>2. \A op \in Apply : BackPath(op) = BackPath("install")
  BY DEF BackPath, Apply
<1>3. Path("rollback") = RollbackPath
  BY DEF Path, Apply
<1>4. Path("uninstall") = UninstallPath
  BY DEF Path, Apply
<1>5. BackPath("uninstall") = <<>>
  BY DEF BackPath, Apply
<1> QED  BY <1>1, <1>2, <1>3, <1>4, <1>5

LEMMA NextForward ==
  ASSUME NEW c, NEW s, Next1(c, s), c.back = FALSE,
         c.ask.op \in Apply \cup {"rollback", "uninstall"}
  PROVE  /\ InOrder(c.todo, s)
         /\ Applies(c) /\ s # "prepare" => "prepare" \notin c.todo
         /\ s \in {"prepare", "release", "note"} => Applies(c)
         /\ s \in Bridge => c.ask.op # "uninstall"
         /\ s = "tear" => BeforeBridge(c) \notin c.todo
         /\ "sign" \in c.todo /\ s \notin Bridge /\ c.ask.op # "uninstall" =>
              s \in {"prepare", BeforeBridge(c)}
<1>1. CASE Applies(c)
  <2>1. IsNext(ApplyPath, c.todo, s)
    BY <1>1, Paths DEF Next1, Applies
  <2>2. c.ask.op # "uninstall"
    BY <1>1 DEF Applies, Apply
  <2> QED  BY <1>1, <2>1, <2>2, ApplyOrder DEF BeforeBridge
<1>2. CASE c.ask.op = "rollback"
  <2>1. IsNext(RollbackPath, c.todo, s) /\ ~Applies(c)
    BY <1>2, Paths DEF Next1, Applies, Apply
  <2> QED  BY <1>2, <2>1, RollbackOrder DEF BeforeBridge
<1>3. CASE c.ask.op = "uninstall"
  <2>1. IsNext(UninstallPath, c.todo, s) /\ ~Applies(c)
    BY <1>3, Paths DEF Next1, Applies, Apply
  <2> QED  BY <1>3, <2>1, UninstallOrder DEF Bridge
<1> QED  BY <1>1, <1>2, <1>3 DEF Applies

LEMMA NextBack ==
  ASSUME NEW c, NEW s, Next1(c, s), c.back = TRUE,
         c.ask.op \in Apply \cup {"rollback", "uninstall"}
  PROVE  /\ InOrder(c.todo, s)
         /\ c.ask.op # "uninstall" /\ s \in BackSteps \cup {"finish"}
         /\ s = "finish" => c.ask.op = "rollback"
<1>1. CASE Applies(c)
  <2>1. IsNext(BackPath("install"), c.todo, s)
    BY <1>1, Paths DEF Next1, Applies
  <2>2. c.ask.op # "uninstall" /\ "finish" \notin BackSteps
    BY <1>1 DEF Applies, Apply, BackSteps, Service, Bridge
  <2> QED  BY <2>1, <2>2, ApplyBackOrder
<1>2. CASE c.ask.op = "rollback"
  BY <1>2, RollbackBackOrder DEF Next1
<1>3. c.ask.op # "uninstall"
  <2> SUFFICES ASSUME c.ask.op = "uninstall" PROVE FALSE
    OBVIOUS
  <2>1. IsNext(<<>>, c.todo, s)
    BY Paths DEF Next1
  <2> QED  BY <2>1 DEF IsNext
<1> QED  BY <1>1, <1>2, <1>3 DEF Applies

-----------------------------------------------------------------------------
(* What a step does to the machine.                                        *)

\* At most the receipt k has changed, and not in what it was prepared with.
SameHistory(h, g, k) ==
  /\ Len(g.receipts) = Len(h.receipts)
  /\ \A j \in 1..Len(h.receipts) :
       /\ j # k => g.receipts[j] = h.receipts[j]
       /\ g.receipts[j].release = h.receipts[j].release
       /\ g.receipts[j].prev = h.receipts[j].prev
       /\ g.receipts[j].priorText = h.receipts[j].priorText
       /\ g.receipts[j].priorActive = h.receipts[j].priorActive
       /\ g.receipts[j].priorBridge = h.receipts[j].priorBridge

LEMMA ReceiptsAre ==
  ASSUME NEW h, HostShape(h)
  PROVE  /\ Len(h.receipts) \in Nat
         /\ \A j \in 1..Len(h.receipts) : h.receipts[j] \in ReceiptSet
BY DEF HostShape

LEMMA SameReceipts ==
  ASSUME NEW h, NEW g, NEW k, g.receipts = h.receipts
  PROVE  SameHistory(h, g, k)
BY DEF SameHistory

LEMMA EditedReceipt ==
  ASSUME NEW h, HostShape(h), NEW k \in 1..Len(h.receipts), NEW r \in ReceiptSet,
         r.release = h.receipts[k].release, r.prev = h.receipts[k].prev,
         r.priorText = h.receipts[k].priorText,
         r.priorActive = h.receipts[k].priorActive,
         r.priorBridge = h.receipts[k].priorBridge,
         NEW g, g = [h EXCEPT !.receipts = [@ EXCEPT ![k] = r]]
  PROVE  /\ HostShape(g) /\ SameHistory(h, g, k) /\ g.receipts[k] = r
         /\ g.pointer = h.pointer /\ g.text = h.text /\ g.running = h.running
         /\ g.bridge = h.bridge
<1> DEFINE rs == h.receipts
           ss == [rs EXCEPT ![k] = r]
<1>1. rs \in Seq(ReceiptSet) /\ Len(rs) \in Nat /\ DOMAIN rs = 1..Len(rs)
  BY DEF HostShape
<1>2. ss \in Seq(ReceiptSet) /\ Len(ss) = Len(rs)
  BY <1>1
<1>3. \A j \in 1..Len(rs) : ss[j] = IF j = k THEN r ELSE rs[j]
  BY <1>1
<1>4. g.receipts = ss /\ g.pointer = h.pointer /\ g.text = h.text
      /\ g.running = h.running /\ g.bridge = h.bridge
  BY DEF HostShape
<1> HIDE DEF ss
<1>5. g \in [pointer : Nat, text : Content, running : Content, bridge : Content,
             receipts : Seq(ReceiptSet)]
  BY <1>2, <1>4 DEF HostShape, ss
<1>6. HostShape(g)
  BY <1>2, <1>4, <1>5 DEF HostShape
<1>7. SameHistory(h, g, k)
  BY <1>2, <1>3, <1>4 DEF SameHistory
<1> QED  BY <1>3, <1>4, <1>6, <1>7

\* What is under i depends on the receipts under i and on what i was prepared with.
SameUnder(h, g, i) ==
  /\ \A j \in 1..(i - 1) : g.receipts[j] = h.receipts[j]
  /\ i # 0 => /\ g.receipts[i].prev = h.receipts[i].prev
              /\ g.receipts[i].priorBridge = h.receipts[i].priorBridge

LEMMA FoundedSame ==
  ASSUME NEW h, NEW g, NEW i, NEW clean, Founded(h, i, clean), SameUnder(h, g, i)
  PROVE  Founded(g, i, clean)
<1> SUFFICES ASSUME i # 0 PROVE \E S \in SUBSET (1..(i - 1)) : Below(g, i, S, clean)
  BY DEF Founded
<1>1. PICK S \in SUBSET (1..(i - 1)) : Below(h, i, S, clean)
  BY DEF Founded
<1>2. /\ \A j \in S : g.receipts[j] = h.receipts[j]
      /\ g.receipts[i].prev = h.receipts[i].prev
      /\ g.receipts[i].priorBridge = h.receipts[i].priorBridge
  BY DEF SameUnder
<1>3. \A j \in S : FinalIn(g, j)
  BY <1>1, <1>2 DEF Below, FinalIn
<1>4. ASSUME NEW j \in S \cup {i}
      PROVE  g.receipts[j].prev \in S \cup {0} /\ (clean => Linked(g, j))
  <2>1. h.receipts[j].prev \in S \cup {0} /\ (clean => Linked(h, j))
    BY <1>1 DEF Below
  <2>2. g.receipts[j].prev = h.receipts[j].prev
        /\ g.receipts[j].priorBridge = h.receipts[j].priorBridge
    BY <1>2
  <2>3. h.receipts[j].prev # 0 => g.receipts[h.receipts[j].prev] = h.receipts[h.receipts[j].prev]
    BY <1>2, <2>1
  <2>4. clean => Linked(g, j)
    BY <2>1, <2>2, <2>3 DEF Linked, Bears
  <2> QED  BY <2>1, <2>2, <2>4
<1>5. Below(g, i, S, clean)
  BY <1>3, <1>4 DEF Below
<1> QED  BY <1>5

LEMMA FoundedStays ==
  ASSUME NEW h, NEW g, HostShape(h), NEW k \in Nat, SameHistory(h, g, k),
         NEW i \in 0..Len(h.receipts), i <= k, NEW clean \in BOOLEAN,
         Founded(h, i, clean)
  PROVE  Founded(g, i, clean)
<1>1. Len(h.receipts) \in Nat /\ i \in Nat
  BY ReceiptsAre
<1>2. \A j \in 1..(i - 1) : j \in 1..Len(h.receipts) /\ j # k
  BY <1>1
<1>3. \A j \in 1..(i - 1) : g.receipts[j] = h.receipts[j]
  BY <1>2 DEF SameHistory
<1>4. i # 0 => i \in 1..Len(h.receipts)
  BY <1>1
<1>5. i # 0 => /\ g.receipts[i].prev = h.receipts[i].prev
               /\ g.receipts[i].priorBridge = h.receipts[i].priorBridge
  BY <1>4 DEF SameHistory
<1>6. SameUnder(h, g, i)
  BY <1>3, <1>5 DEF SameUnder
<1> QED  BY <1>6, FoundedSame

\* A rollback goes to a deployment that is final and founded.
LEMMA FoundedUnder ==
  ASSUME NEW h, NEW m, HostShape(h), HostFits(h, m),
         NEW i \in 1..Len(h.receipts), NEW clean \in BOOLEAN,
         Founded(h, i, clean), h.receipts[i].prev # 0
  PROVE  LET k == h.receipts[i].prev IN
         /\ k \in 1..(i - 1) /\ FinalIn(h, k) /\ Founded(h, k, clean)
         /\ clean => Linked(h, i)
<1> DEFINE k == h.receipts[i].prev
<1>1. i \in Nat /\ i # 0 /\ Len(h.receipts) \in Nat
  BY ReceiptsAre
<1>2. PICK S \in SUBSET (1..(i - 1)) : Below(h, i, S, clean)
  BY <1>1 DEF Founded
<1>3. k \in S /\ FinalIn(h, k) /\ (clean => Linked(h, i))
  BY <1>2 DEF Below
<1>4. k \in 1..(i - 1) /\ k \in Nat
  <2> HIDE DEF k
  <2>1. k \in 1..(i - 1)
    BY <1>3
  <2> QED  BY <1>1, <2>1
<1>5. PICK R : R = {j \in S : j < k}
  OBVIOUS
<1>6. R \in SUBSET (1..(k - 1))
  <2> HIDE DEF k
  <2> SUFFICES ASSUME NEW j \in R PROVE j \in 1..(k - 1)
    OBVIOUS
  <2>1. j \in 1..(i - 1) /\ j < k
    BY <1>5
  <2> QED  BY <1>1, <1>4, <2>1
<1>7. ASSUME NEW j \in R \cup {k}
      PROVE  h.receipts[j].prev \in R \cup {0} /\ (clean => Linked(h, j))
  <2>1. j \in S /\ j \in Nat /\ j <= k /\ j \in 1..Len(h.receipts)
    BY <1>1, <1>3, <1>4, <1>5
  <2>2. h.receipts[j].prev \in S \cup {0} /\ (clean => Linked(h, j))
    BY <1>2, <2>1 DEF Below
  <2>3. h.receipts[j].prev \in 0..(j - 1)
    BY <2>1 DEF HostFits
  <2>4. h.receipts[j].prev < k
    BY <1>4, <2>1, <2>3
  <2> QED  BY <1>5, <2>2, <2>4
<1>8. \A j \in R : FinalIn(h, j)
  BY <1>2, <1>5 DEF Below
<1>9. Below(h, k, R, clean)
  BY <1>6, <1>7, <1>8 DEF Below
<1>10. Founded(h, k, clean)
  BY <1>6, <1>9 DEF Founded
<1> QED  BY <1>3, <1>4, <1>10

LEMMA FoundedOver ==
  ASSUME NEW h, HostShape(h), NEW i \in 1..Len(h.receipts), NEW clean \in BOOLEAN,
         NEW w \in Nat, h.receipts[i].prev = w, w < i, Founded(h, w, clean),
         w # 0 => FinalIn(h, w), clean => Linked(h, i)
  PROVE  Founded(h, i, clean)
<1>1. i \in Nat /\ i # 0
  BY ReceiptsAre
<1>2. CASE w = 0
  <2>1. Below(h, i, {}, clean)
    BY <1>2 DEF Below
  <2> QED  BY <2>1 DEF Founded
<1>3. CASE w # 0
  <2>1. PICK S \in SUBSET (1..(w - 1)) : Below(h, w, S, clean)
    BY <1>3 DEF Founded
  <2>2. PICK R : R = S \cup {w}
    OBVIOUS
  <2>3. R \in SUBSET (1..(i - 1))
    BY <1>1, <1>3, <2>2
  <2>4. \A j \in R : FinalIn(h, j)
    BY <1>3, <2>1, <2>2 DEF Below
  <2>5. \A j \in R \cup {i} :
          h.receipts[j].prev \in R \cup {0} /\ (clean => Linked(h, j))
    BY <2>1, <2>2 DEF Below
  <2>6. Below(h, i, R, clean)
    BY <2>3, <2>4, <2>5 DEF Below
  <2> QED  BY <2>3, <2>6 DEF Founded
<1> QED  BY <1>2, <1>3

LEMMA FoundedWithTaint ==
  ASSUME NEW h, NEW i, NEW clean \in BOOLEAN, Founded(h, i, clean)
  PROVE  Founded(h, i, FALSE)
BY DEF Founded, Below

-----------------------------------------------------------------------------
(* A step that returns.                                                    *)

GoalEnd(c, h) == EndIn(c, h, IF c.back THEN ~Applies(c) ELSE Applies(c))

\* What the step s of c makes of the machine, but for the first step.
Effect(c, h, m, s, g) ==
  /\ SameHistory(h, g, MineOf(c, h))
  /\ g.pointer = IF s # "point" THEN h.pointer
                 ELSE IF c.back THEN c.was.pointer ELSE NextPointer(c, h)
  /\ g.text = IF s # "define" THEN h.text
              ELSE IF c.back THEN c.was.text ELSE NextText(c, h, m)
  /\ s \notin {"stop", "reload", "start"} => g.running = h.running
  /\ s = "stop" => ~Up(g)
  /\ s = "reload" => (Up(g) <=> Up(h) \/ (m = "launchd" /\ h.text # Nothing))
  /\ s = "start" => (Up(g) <=> Up(h) \/ h.text # Nothing)
  /\ s \notin {"tear", "seal"} => g.bridge = h.bridge
  /\ s = "seal" => g.bridge = GoalEnd(c, h).bridge
  /\ ReceiptOf(c, g).status = IF s # "finish" THEN ReceiptOf(c, h).status
                              ELSE IF c.back THEN c.ask.status ELSE GoalStatus(c.ask.op)
  /\ ReceiptOf(c, g).hstatus = IF s # "sign" THEN ReceiptOf(c, h).hstatus
                               ELSE GoalEnd(c, h).hstatus
  /\ ReceiptOf(c, g).bridge = IF s # "note" THEN ReceiptOf(c, h).bridge ELSE TRUE

\* d has the task of c.
SameTask(c, d) == d.ask = c.ask /\ d.was = c.was

\* d is c after the step s.
Stepped(c, d, s) ==
  /\ SameTask(c, d) /\ d.at = c.at /\ d.back = c.back
  /\ d.blame = c.blame /\ d.unseen = c.unseen
  /\ d.todo = c.todo \ {s}
  /\ d.touched = IF MarkedAfter(s) /\ ~c.back THEN c.touched \cup {Group(s)} ELSE c.touched

\* The same task on a machine with the same history.
SameTerms(c, h, d, g) ==
  /\ MineOf(d, g) = MineOf(c, h) /\ (Applies(d) <=> Applies(c))
  /\ NextPointer(d, g) = NextPointer(c, h)
  /\ \A m : NextText(d, g, m) = NextText(c, h, m)
  /\ \A m : \A j \in 1..Len(h.receipts) : TextIn(g, m, j) = TextIn(h, m, j)
  /\ ToStart(d, g) <=> ToStart(c, h)
  /\ \A new \in BOOLEAN : EndIn(d, g, new) = EndIn(c, h, new)
  /\ Prepared(d, g) <=> Prepared(c, h)
  /\ ReceiptOf(d, g) = g.receipts[MineOf(c, h)]
  /\ ReceiptOf(d, g).release = ReceiptOf(c, h).release
  /\ ReceiptOf(d, g).priorBridge = ReceiptOf(c, h).priorBridge

LEMMA HistoryGivesTerms ==
  ASSUME NEW c, NEW d, NEW h, NEW g, SameTask(c, d), NEW k, k = MineOf(c, h),
         k \in 1..Len(h.receipts), SameHistory(h, g, k)
  PROVE  SameTerms(c, h, d, g)
<1>1. /\ g.receipts[k].release = h.receipts[k].release
      /\ g.receipts[k].prev = h.receipts[k].prev
      /\ g.receipts[k].priorText = h.receipts[k].priorText
      /\ g.receipts[k].priorActive = h.receipts[k].priorActive
      /\ g.receipts[k].priorBridge = h.receipts[k].priorBridge
      /\ Len(g.receipts) = Len(h.receipts)
  BY DEF SameHistory
<1>2. MineOf(d, g) = k /\ (Applies(d) <=> Applies(c))
  BY <1>1 DEF MineOf, Applies, SameTask
<1>3. ReceiptOf(c, h) = h.receipts[k] /\ ReceiptOf(d, g) = g.receipts[k]
  BY <1>2 DEF ReceiptOf
<1>4. NextPointer(d, g) = NextPointer(c, h)
  BY <1>1, <1>2, <1>3 DEF NextPointer, SameTask
<1>5. \A m : \A j \in 1..Len(h.receipts) : TextIn(g, m, j) = TextIn(h, m, j)
  BY DEF TextIn, SameHistory
<1>6. \A m : NextText(d, g, m) = NextText(c, h, m)
  BY <1>1, <1>2, <1>3, <1>5 DEF NextText, SameTask
<1>7. ToStart(d, g) <=> ToStart(c, h)
  BY <1>1, <1>2, <1>3 DEF ToStart, SameTask
<1>8. \A new \in BOOLEAN : EndIn(d, g, new) = EndIn(c, h, new)
  BY <1>1, <1>3 DEF EndIn
<1>9. Prepared(d, g) <=> Prepared(c, h)
  BY <1>1, <1>3 DEF Prepared, SameTask
<1> QED  BY <1>1, <1>2, <1>3, <1>4, <1>5, <1>6, <1>7, <1>8, <1>9 DEF SameTerms

\* A command that has a step to take but the first has its receipt.
LEMMA MineIsThere ==
  ASSUME NEW c \in CliSet, NEW h, NEW m, HostShape(h), TaskKnown(c, h, m),
         PreparedFollows(c, h), c.todo # {}, "prepare" \notin c.todo \/ c.back
  PROVE  MineOf(c, h) \in 1..Len(h.receipts)
<1>1. Len(h.receipts) \in Nat /\ c.was.pointer \in 0..Len(h.receipts)
  BY ReceiptsAre DEF TaskKnown
<1>2. CASE Applies(c)
  <2>1. Prepared(c, h)
    BY <1>2 DEF PreparedFollows
  <2> QED  BY <1>1, <1>2, <2>1 DEF Prepared, MineOf
<1>3. CASE ~Applies(c)
  BY <1>1, <1>3 DEF MineOf, TaskKnown
<1> QED  BY <1>2, <1>3

\* s is a step a command takes now, and its receipt is there.
InTurn(c, h, s) ==
  /\ InOrder(c.todo, s) /\ s \in AllSteps /\ s # "prepare"
  /\ MineOf(c, h) \in 1..Len(h.receipts)
  /\ s \in {"release", "note"} => Applies(c) /\ ~c.back
  /\ s \in Bridge \/ c.back => c.ask.op # "uninstall"
  /\ c.back /\ s = "finish" => c.ask.op = "rollback"
  /\ ~c.back /\ Applies(c) => "prepare" \notin c.todo
  /\ ~c.back /\ s = "tear" => BeforeBridge(c) \notin c.todo
  /\ ~c.back /\ "sign" \in c.todo /\ s \notin Bridge /\ c.ask.op # "uninstall" =>
       s = BeforeBridge(c)

Returned(c, h, m, s, d, g) ==
  /\ c \in CliSet /\ c.at = "working" /\ HostShape(h)
  /\ InTurn(c, h, s) /\ Stepped(c, d, s) /\ Effect(c, h, m, s, g)
  /\ SameTerms(c, h, d, g)

LEMMA SameHas ==
  ASSUME NEW c, NEW d, NEW h, NEW g, NEW m, NEW s, Returned(c, h, m, s, d, g)
  PROVE  /\ HasTask(d, g) <=> HasTask(c, h)
         /\ d.ask = c.ask /\ d.was = c.was /\ d.back = c.back /\ d.at = c.at
         /\ d.todo = c.todo \ {s} /\ (Applies(d) <=> Applies(c))
         /\ (Vouched(d) <=> Vouched(c))
         /\ ReceiptOf(c, g) = ReceiptOf(d, g)
<1>1. s # "note" \/ Applies(c)
  BY DEF Returned, InTurn
<1>2. ReceiptOf(c, g) = ReceiptOf(d, g)
  <2>1. MineOf(c, g) = MineOf(c, h)
    BY DEF Returned, Effect, SameHistory, MineOf
  <2> QED  BY <2>1 DEF Returned, SameTerms, ReceiptOf
<1>3. ~Applies(c) => ReceiptOf(d, g).bridge = ReceiptOf(c, h).bridge
  BY <1>1, <1>2 DEF Returned, Effect
<1>4. d.ask = c.ask /\ d.was = c.was /\ d.back = c.back /\ d.at = c.at
      /\ d.todo = c.todo \ {s} /\ (Applies(d) <=> Applies(c))
  BY DEF Returned, Stepped, SameTask, SameTerms
<1>5. HasTask(d, g) <=> HasTask(c, h)
  BY <1>3, <1>4 DEF HasTask, Has
<1>6. Vouched(d) <=> Vouched(c)
  BY DEF Returned, Stepped, SameTask, Vouched
<1> QED  BY <1>2, <1>4, <1>5, <1>6

LEMMA ReturnKeepsTask ==
  ASSUME NEW c, NEW d, NEW h, NEW g, NEW m, NEW s, Returned(c, h, m, s, d, g),
         TaskKnown(c, h, m), PreparedFollows(c, h), TodoFits(c, h, m)
  PROVE  TaskKnown(d, g, m) /\ PreparedFollows(d, g)
<1>1. d.ask = c.ask /\ d.was = c.was /\ (Applies(d) <=> Applies(c)) /\ d.back = c.back
  BY SameHas
<1>2. Len(g.receipts) = Len(h.receipts) /\ Len(h.receipts) \in Nat
      /\ MineOf(c, h) \in 1..Len(h.receipts)
  BY ReceiptsAre DEF Returned, Effect, SameHistory, InTurn
<1>3. c.todo # {} /\ ("prepare" \notin c.todo \/ c.back \/ ~Applies(c))
  BY DEF Returned, InTurn, InOrder
<1>4. Applies(c) => Prepared(c, h)
  BY <1>3 DEF PreparedFollows
<1>5. PreparedFollows(d, g)
  BY <1>1, <1>4 DEF PreparedFollows, Returned, SameTerms
<1>6. ~c.ask.managed => ~Up(g)
  <2> SUFFICES ASSUME ~c.ask.managed PROVE ~Up(g)
    OBVIOUS
  <2>1. s \notin {"stop", "reload", "start"}
    BY DEF TodoFits, Returned, InTurn, InOrder
  <2>2. g.running = h.running
    BY <2>1 DEF Returned, Effect
  <2> QED  BY <2>2 DEF TaskKnown, Up
<1>7. ASSUME Applies(c), c.was.pointer # 0
      PROVE  FinalIn(g, c.was.pointer) /\ c.was.text = TextIn(g, m, c.was.pointer)
  <2>1. c.was.pointer \in 1..Len(h.receipts) /\ c.was.pointer # MineOf(c, h)
    BY <1>2, <1>4, <1>7 DEF TaskKnown, Prepared, MineOf
  <2>2. g.receipts[c.was.pointer] = h.receipts[c.was.pointer]
    BY <2>1 DEF Returned, Effect, SameHistory
  <2> QED  BY <1>7, <2>2 DEF TaskKnown, FinalIn, TextIn
<1>8. TaskKnown(d, g, m)
  BY <1>1, <1>2, <1>6, <1>7 DEF TaskKnown
<1> QED  BY <1>5, <1>8

LEMMA ReturnKeepsTodo ==
  ASSUME NEW c, NEW d, NEW h, NEW g, NEW m, NEW s, Returned(c, h, m, s, d, g),
         TodoFits(c, h, m), TaskKnown(c, h, m)
  PROVE  TodoFits(d, g, m)
<1>1. /\ d.ask = c.ask /\ d.was = c.was /\ d.back = c.back /\ d.at = "working"
      /\ d.todo = c.todo \ {s} /\ (Applies(d) <=> Applies(c))
      /\ (HasTask(d, g) <=> HasTask(c, h)) /\ (ToStart(d, g) <=> ToStart(c, h))
  BY SameHas DEF Returned, SameTerms
<1>2. InOrder(c.todo, s) /\ s # "prepare" /\ (~c.back => ~Applies(c) \/ "prepare" \notin c.todo)
  BY DEF Returned, InTurn
<1>3. /\ "stop" \in d.todo => "define" \in d.todo
      /\ d.ask.managed /\ "define" \in d.todo => "reload" \in d.todo
      /\ "tear" \in d.todo => "seal" \in d.todo
      /\ "seal" \in d.todo => "sign" \in d.todo
  BY <1>1, <1>2 DEF TodoFits, InOrder
<1>4. /\ ~d.ask.managed => d.todo \cap {"stop", "reload", "start"} = {}
      /\ m = "none" => "define" \notin d.todo
      /\ ~HasTask(d, g) => d.todo \cap Bridge = {}
  BY <1>1 DEF TodoFits
<1>5. CASE c.back
  BY <1>1, <1>2, <1>3, <1>4, <1>5 DEF TodoFits, InOrder
<1>6. CASE ~c.back
  <2>1. "prepare" \notin d.todo
    BY <1>1, <1>2, <1>6 DEF TodoFits
  <2>2. /\ "note" \in d.todo => Applies(d) /\ d.ask.hermes
        /\ "start" \in d.todo => ToStart(d, g)
        /\ "reload" \in d.todo /\ ToStart(d, g) => "start" \in d.todo
    BY <1>1, <1>2, <1>6 DEF TodoFits, InOrder
  <2>3. "sign" \in d.todo /\ "tear" \notin d.todo => BeforeBridge(d) \notin d.todo
    <3>1. s = "tear" => BeforeBridge(c) \notin c.todo
      BY <1>6 DEF Returned, InTurn
    <3>2. BeforeBridge(d) = BeforeBridge(c)
      BY <1>1 DEF BeforeBridge
    <3> QED  BY <1>1, <1>6, <3>1, <3>2 DEF TodoFits
  <2> QED  BY <1>1, <1>3, <1>4, <1>6, <2>1, <2>2, <2>3 DEF TodoFits
<1> QED  BY <1>5, <1>6

LEMMA ReturnKeepsTouched ==
  ASSUME NEW c, NEW d, NEW h, NEW g, NEW m, NEW s, Returned(c, h, m, s, d, g),
         TodoFits(c, h, m), TaskKnown(c, h, m), TouchedFits(c, h, m)
  PROVE  TouchedFits(d, g, m)
<1> SUFFICES ASSUME ~c.back PROVE TouchedFits(d, g, m)
  <2>1. d.back = c.back
    BY SameHas
  <2> QED  BY <2>1 DEF TouchedFits
<1>1. /\ d.ask = c.ask /\ d.was = c.was /\ d.back = c.back
      /\ d.todo = c.todo \ {s} /\ (HasTask(d, g) <=> HasTask(c, h))
  BY SameHas
<1>2. d.touched = IF MarkedAfter(s) THEN c.touched \cup {Group(s)} ELSE c.touched
  BY DEF Returned, Stepped
<1>3. InOrder(c.todo, s) /\ s \in AllSteps /\ s # "prepare"
  BY DEF Returned, InTurn
<1>4. /\ MarkedAfter(s) /\ Group(s) = "pointer" <=> s = "point"
      /\ MarkedAfter(s) /\ Group(s) = "service" <=> s \in {"stop", "define"}
      /\ MarkedAfter(s) /\ Group(s) = "bridge" <=> s = "sign"
      /\ MarkedAfter(s) /\ Group(s) = "receipt" <=> s = "finish"
  BY <1>3 DEF MarkedAfter, Group, AllSteps, Service, Bridge
<1>5. /\ "pointer" \in d.touched <=> "pointer" \in c.touched \/ s = "point"
      /\ "service" \in d.touched <=> "service" \in c.touched \/ s \in {"stop", "define"}
      /\ "bridge" \in d.touched <=> "bridge" \in c.touched \/ s = "sign"
      /\ "receipt" \in d.touched <=> "receipt" \in c.touched \/ s = "finish"
  BY <1>2, <1>4
<1>6. "pointer" \in d.touched <=> "point" \notin d.todo
  BY <1>1, <1>5 DEF TouchedFits
<1>7. "receipt" \in d.touched <=> "finish" \notin d.todo
  BY <1>1, <1>5 DEF TouchedFits
<1>8. "bridge" \in d.touched <=> HasTask(d, g) /\ "sign" \notin d.todo
  <2>1. s = "sign" => HasTask(c, h)
    BY <1>3 DEF TodoFits, InOrder, Bridge
  <2> QED  BY <1>1, <1>5, <2>1 DEF TouchedFits
<1>9. ASSUME "service" \notin d.touched
      PROVE  (m # "none" => "define" \in d.todo) /\ (Up(g) <=> c.was.active)
  <2>1. "service" \notin c.touched /\ s \notin {"stop", "define"}
    BY <1>5, <1>9
  <2>2. m # "none" => "define" \in d.todo
    BY <1>1, <2>1 DEF TouchedFits
  <2>3. s \notin {"reload", "start"}
    <3>1. s \in {"reload", "start"} => m = "none" /\ c.ask.managed
      BY <1>1, <1>3, <2>2 DEF InOrder, TodoFits
    <3> QED  BY <3>1 DEF TaskKnown
  <2>4. g.running = h.running
    BY <2>1, <2>3 DEF Returned, Effect
  <2> QED  BY <2>1, <2>2, <2>4 DEF TouchedFits, Up
<1>10. m = "none" => "service" \notin d.touched
  <2>1. m = "none" => s \notin {"stop", "define"}
    BY <1>3 DEF InOrder, TodoFits, TaskKnown
  <2> QED  BY <1>5, <2>1 DEF TouchedFits
<1> QED  BY <1>1, <1>6, <1>7, <1>8, <1>9, <1>10 DEF TouchedFits

LEMMA ReturnKeepsPointer ==
  ASSUME NEW c, NEW d, NEW h, NEW g, NEW m, NEW s, Returned(c, h, m, s, d, g),
         PointerFollows(c, h)
  PROVE  PointerFollows(d, g)
<1>1. /\ d.was = c.was /\ d.back = c.back /\ d.todo = c.todo \ {s}
      /\ (Vouched(d) <=> Vouched(c)) /\ NextPointer(d, g) = NextPointer(c, h)
  BY SameHas DEF Returned, SameTerms
<1>2. g.pointer = IF s # "point" THEN h.pointer
                  ELSE IF c.back THEN c.was.pointer ELSE NextPointer(c, h)
  BY DEF Returned, Effect
<1> QED  BY <1>1, <1>2 DEF PointerFollows

LEMMA ReturnKeepsText ==
  ASSUME NEW c, NEW d, NEW h, NEW g, NEW m, NEW s, Returned(c, h, m, s, d, g),
         TextFollows(c, h, m)
  PROVE  TextFollows(d, g, m)
<1>1. /\ d.was = c.was /\ d.back = c.back /\ d.todo = c.todo \ {s}
      /\ (Vouched(d) <=> Vouched(c)) /\ NextText(d, g, m) = NextText(c, h, m)
  BY SameHas DEF Returned, SameTerms
<1>2. g.text = IF s # "define" THEN h.text
               ELSE IF c.back THEN c.was.text ELSE NextText(c, h, m)
  BY DEF Returned, Effect
<1> QED  BY <1>1, <1>2 DEF TextFollows

LEMMA ReturnKeepsService ==
  ASSUME ConstantsOK,
         NEW c, NEW d, NEW h, NEW g, NEW m, NEW s, Returned(c, h, m, s, d, g),
         TodoFits(c, h, m), TaskKnown(c, h, m), HostFits(h, m),
         TextFollows(c, h, m), ServiceFollows(c, h, m)
  PROVE  ServiceFollows(d, g, m)
<1> SUFFICES ASSUME c.ask.managed PROVE ServiceFollows(d, g, m)
  BY SameHas DEF ServiceFollows
<1>1. /\ d.was = c.was /\ d.ask = c.ask /\ d.back = c.back /\ d.todo = c.todo \ {s}
      /\ (Vouched(d) <=> Vouched(c)) /\ (ToStart(d, g) <=> ToStart(c, h))
  BY SameHas DEF Returned, SameTerms
<1>2. InOrder(c.todo, s)
  BY DEF Returned, InTurn
<1>3. m # "none" /\ (Up(h) => h.text # Nothing)
  BY DEF TaskKnown, HostFits
<1>4. CASE s \notin {"stop", "define", "reload", "start"}
  <2>1. g.running = h.running
    BY <1>4 DEF Returned, Effect
  <2> QED  BY <1>1, <1>4, <2>1 DEF ServiceFollows, Up, LaunchdUp
<1>5. CASE s = "stop"
  <2>1. ~Up(g)
    BY <1>5 DEF Returned, Effect
  <2>2. "reload" \in c.todo
    BY <1>2, <1>5 DEF TodoFits, InOrder
  <2> QED  BY <1>1, <1>5, <2>1, <2>2 DEF ServiceFollows
<1>6. CASE s = "define"
  <2>1. g.running = h.running
    BY <1>6 DEF Returned, Effect
  <2> QED  BY <1>1, <1>2, <1>6, <2>1 DEF ServiceFollows, Up, LaunchdUp, InOrder
<1>7. CASE s = "reload"
  <2>1. Up(g) <=> Up(h) \/ (m = "launchd" /\ h.text # Nothing)
    BY <1>7 DEF Returned, Effect
  <2>2. "stop" \notin c.todo /\ "define" \notin c.todo /\ "reload" \in c.todo
    BY <1>2, <1>7 DEF InOrder
  <2>3. ~c.back \/ Vouched(c) => ~Up(h)
    BY <2>2 DEF ServiceFollows
  <2>4. ~c.back /\ "start" \notin d.todo =>
          (Up(g) <=> ToStart(c, h)) \/ (c.ask.op = "rollback" /\ LaunchdUp(g, m))
    <3> SUFFICES ASSUME ~c.back, "start" \notin d.todo
                 PROVE (Up(g) <=> ToStart(c, h)) \/ (c.ask.op = "rollback" /\ LaunchdUp(g, m))
      OBVIOUS
    <3>1. ~ToStart(c, h)
      BY <1>1, <1>7, <2>2 DEF TodoFits
    <3>2. c.ask.op = "uninstall" => h.text = Nothing
      BY <1>3, <2>2 DEF TextFollows, NextText, Applies, Apply
    <3>3. c.ask.op \in {"rollback", "uninstall"}
      BY <3>1 DEF TaskKnown, ToStart, Applies
    <3> QED  BY <2>1, <2>3, <3>1, <3>2, <3>3 DEF LaunchdUp
  <2>5. c.back /\ Vouched(c) /\ "start" \notin d.todo =>
          (Up(g) <=> c.was.active) \/ LaunchdUp(g, m)
    <3>1. c.back /\ "start" \notin d.todo => ~c.was.active
      BY <1>1, <1>7, <2>2 DEF TodoFits
    <3> QED  BY <2>1, <2>3, <3>1 DEF LaunchdUp
  <2> QED  BY <1>1, <1>7, <2>2, <2>4, <2>5 DEF ServiceFollows
<1>8. CASE s = "start"
  <2>1. Up(g) <=> Up(h) \/ h.text # Nothing
    BY <1>8 DEF Returned, Effect
  <2>2. "stop" \notin c.todo /\ "define" \notin c.todo /\ "reload" \notin c.todo
        /\ "start" \in c.todo
    BY <1>2, <1>8 DEF InOrder
  <2>3. ~c.back => ToStart(c, h) /\ Up(g)
    <3> SUFFICES ASSUME ~c.back PROVE ToStart(c, h) /\ Up(g)
      OBVIOUS
    <3>1. ToStart(c, h)
      BY <2>2 DEF TodoFits
    <3>2. h.text = NextText(c, h, m)
      BY <1>3, <2>2 DEF TextFollows
    <3>3. NextText(c, h, m) # Nothing
      <4>1. CASE Applies(c)
        <5>1. h.receipts[MineOf(c, h)].release \in Releases
          BY ReceiptsAre DEF Returned, InTurn, ReceiptSet
        <5> QED  BY <1>3, <4>1, <5>1 DEF NextText, TextIn, ConstantsOK
      <4>2. CASE ~Applies(c)
        BY <3>1, <4>2 DEF NextText, ToStart
      <4> QED  BY <4>1, <4>2
    <3> QED  BY <2>1, <3>1, <3>2, <3>3
  <2>4. c.back /\ Vouched(c) => c.was.active /\ Up(g)
    <3> SUFFICES ASSUME c.back, Vouched(c) PROVE c.was.active /\ Up(g)
      OBVIOUS
    <3>1. c.was.active /\ c.was.text # Nothing
      BY <2>2 DEF TodoFits, TaskKnown
    <3>2. h.text = c.was.text
      BY <1>3, <2>2 DEF TextFollows
    <3> QED  BY <2>1, <3>1, <3>2
  <2> QED  BY <1>1, <1>8, <2>2, <2>3, <2>4 DEF ServiceFollows
<1> QED  BY <1>4, <1>5, <1>6, <1>7, <1>8

LEMMA ReturnKeepsBridge ==
  ASSUME NEW c, NEW d, NEW h, NEW g, NEW m, NEW s, Returned(c, h, m, s, d, g),
         TodoFits(c, h, m), BridgeFollows(c, h),
         \* The first step of the bridge makes sure of the bridge it tears.
         ~c.back /\ ~Applies(c) /\ s = "tear" => h.bridge = ReceiptOf(c, h).release
  PROVE  BridgeFollows(d, g)
<1>1. /\ d.was = c.was /\ d.ask = c.ask /\ d.back = c.back /\ d.todo = c.todo \ {s}
      /\ d.at = "working" /\ c.at = "working"
      /\ (Vouched(d) <=> Vouched(c)) /\ (HasTask(d, g) <=> HasTask(c, h))
      /\ (Applies(d) <=> Applies(c))
  BY SameHas DEF Returned
<1>2. InOrder(c.todo, s)
  BY DEF Returned, InTurn
<1>3. /\ ReceiptOf(d, g).release = ReceiptOf(c, h).release
      /\ ReceiptOf(d, g).priorBridge = ReceiptOf(c, h).priorBridge
      /\ \A new \in BOOLEAN : EndIn(d, g, new) = EndIn(c, h, new)
  BY DEF Returned, SameTerms
<1>5. EndIn(d, g, Applies(d)) = EndIn(c, h, Applies(c))
  BY <1>1, <1>3 DEF EndIn
<1>6. /\ s \notin {"tear", "seal"} => g.bridge = h.bridge
      /\ s = "seal" => g.bridge = GoalEnd(c, h).bridge
      /\ ReceiptOf(d, g).hstatus = IF s # "sign" THEN ReceiptOf(c, h).hstatus
                                   ELSE GoalEnd(c, h).hstatus
  <2>1. ReceiptOf(c, g) = ReceiptOf(d, g)
    BY SameHas
  <2> QED  BY <2>1 DEF Returned, Effect
<1>7. ~HasTask(c, h) => s \notin Bridge /\ g.bridge = c.was.bridge
  BY <1>2, <1>6 DEF TodoFits, InOrder, Bridge, BridgeFollows
<1>8. CASE HasTask(c, h) /\ ~c.back
  <2>1. GoalEnd(c, h) = EndIn(c, h, Applies(c))
    BY <1>8 DEF GoalEnd
  <2>2. "tear" \in d.todo => g.bridge = c.was.bridge
    <3>1. "tear" \in d.todo => s \notin Bridge
      BY <1>1, <1>2 DEF InOrder, Bridge
    <3> QED  BY <1>1, <1>6, <1>8, <3>1 DEF Bridge, BridgeFollows
  <2>3. ~Applies(c) /\ "tear" \notin d.todo => c.was.bridge = ReceiptOf(c, h).release
    BY <1>1, <1>2, <1>8 DEF BridgeFollows, InOrder
  <2>4. "seal" \notin d.todo => g.bridge = EndIn(c, h, Applies(c)).bridge
    <3>1. "seal" \notin d.todo => s = "seal" \/ ("seal" \notin c.todo /\ "tear" \notin c.todo)
      BY <1>1 DEF TodoFits
    <3>2. "seal" \notin c.todo => s \notin {"tear", "seal"}
      BY <1>2 DEF InOrder, TodoFits
    <3> QED  BY <1>6, <1>8, <2>1, <3>1, <3>2 DEF BridgeFollows
  <2>5. "sign" \notin d.todo => ReceiptOf(d, g).hstatus = EndIn(c, h, Applies(c)).hstatus
    BY <1>1, <1>6, <1>8, <2>1 DEF BridgeFollows
  <2> QED  BY <1>1, <1>3, <1>5, <1>8, <2>2, <2>3, <2>4, <2>5 DEF BridgeFollows
<1>9. CASE HasTask(c, h) /\ c.back
  <2>1. GoalEnd(c, h).bridge =
          IF Applies(c) THEN ReceiptOf(c, h).priorBridge ELSE ReceiptOf(c, h).release
    BY <1>9 DEF GoalEnd, EndIn
  <2> SUFFICES ASSUME Vouched(c)
               PROVE  /\ "seal" \notin d.todo => g.bridge = c.was.bridge
                      /\ "seal" \in d.todo => c.was.bridge = GoalEnd(c, h).bridge
    BY <1>1, <1>3, <1>9, <2>1 DEF BridgeFollows
  <2>2. "seal" \notin c.todo => s \notin {"tear", "seal"}
    BY <1>2 DEF InOrder, TodoFits
  <2> QED  BY <1>1, <1>6, <1>9, <2>1, <2>2 DEF BridgeFollows
<1> QED  BY <1>1, <1>7, <1>8, <1>9 DEF BridgeFollows

LEMMA ReturnKeepsStatus ==
  ASSUME NEW c, NEW d, NEW h, NEW g, NEW m, NEW s, Returned(c, h, m, s, d, g),
         TodoFits(c, h, m), StatusFollows(c, h)
  PROVE  StatusFollows(d, g)
<1>1. /\ d.was = c.was /\ d.ask = c.ask /\ d.back = c.back /\ d.todo = c.todo \ {s}
      /\ (Vouched(d) <=> Vouched(c)) /\ (Applies(d) <=> Applies(c))
      /\ ReceiptOf(c, g) = ReceiptOf(d, g)
  BY SameHas
<1>2. /\ ReceiptOf(d, g).status = IF s # "finish" THEN ReceiptOf(c, h).status
                              ELSE IF c.back THEN c.ask.status ELSE GoalStatus(c.ask.op)
      /\ ReceiptOf(d, g).bridge = IF s # "note" THEN ReceiptOf(c, h).bridge ELSE TRUE
  BY <1>1 DEF Returned, Effect
<1>3. InOrder(c.todo, s) /\ s # "prepare" /\ (~c.back /\ Applies(c) => "prepare" \notin c.todo)
  BY DEF Returned, InTurn
<1>4. CASE ~c.back
  <2>1. /\ "finish" \notin d.todo => ReceiptOf(d, g).status = GoalStatus(c.ask.op)
        /\ "finish" \in d.todo /\ ~Applies(c) => ReceiptOf(d, g).status = c.was.status
    BY <1>1, <1>2, <1>4 DEF StatusFollows
  <2>2. s = "note" => c.ask.hermes /\ "note" \in c.todo
    BY <1>3, <1>4 DEF TodoFits, InOrder
  <2>3. Applies(c) => (ReceiptOf(d, g).bridge <=> c.ask.hermes /\ "note" \notin d.todo)
    <3> SUFFICES ASSUME Applies(c)
                 PROVE  ReceiptOf(d, g).bridge <=> c.ask.hermes /\ "note" \notin d.todo
      OBVIOUS
    <3>1. ReceiptOf(c, h).bridge <=> c.ask.hermes /\ "note" \notin c.todo
      BY <1>3, <1>4 DEF StatusFollows
    <3>2. CASE s = "note"
      BY <1>1, <1>2, <2>2, <3>2
    <3>3. CASE s # "note"
      BY <1>1, <1>2, <3>1, <3>3
    <3> QED  BY <3>2, <3>3
  <2> QED  BY <1>1, <1>4, <2>1, <2>3 DEF StatusFollows
<1>5. CASE c.back
  BY <1>1, <1>2, <1>5 DEF StatusFollows
<1> QED  BY <1>4, <1>5

LEMMA ReturnKeepsClean ==
  ASSUME NEW c, NEW d, NEW h, NEW g, NEW m, NEW s, Returned(c, h, m, s, d, g),
         TodoFits(c, h, m), TaskKnown(c, h, m), PreparedFollows(c, h), CleanFollows(c, h)
  PROVE  CleanFollows(d, g)
<1>1. /\ d.was = c.was /\ d.ask = c.ask /\ d.back = c.back /\ d.todo = c.todo \ {s}
      /\ d.at = "working" /\ c.at = "working"
      /\ (Vouched(d) <=> Vouched(c)) /\ (Applies(d) <=> Applies(c))
      /\ ReceiptOf(c, g) = ReceiptOf(d, g)
  BY SameHas DEF Returned
<1>2. /\ Len(h.receipts) \in Nat /\ MineOf(c, h) \in 1..Len(h.receipts)
      /\ InOrder(c.todo, s) /\ (c.back \/ ~Applies(c) \/ "prepare" \notin c.todo)
      /\ SameHistory(h, g, MineOf(c, h))
  BY ReceiptsAre DEF Returned, InTurn, Effect
<1>3. ASSUME Applies(c), c.was.pointer # 0
      PROVE  Bears(g, c.was.pointer, c.was.bridge)
  <2>1. Prepared(c, h)
    BY <1>2, <1>3 DEF PreparedFollows, InOrder
  <2>2. c.was.pointer \in 1..Len(h.receipts) /\ c.was.pointer # MineOf(c, h)
    BY <1>2, <1>3, <2>1 DEF TaskKnown, Prepared, MineOf
  <2>3. g.receipts[c.was.pointer] = h.receipts[c.was.pointer]
    BY <1>2, <2>2 DEF SameHistory
  <2> QED  BY <1>3, <2>3 DEF CleanFollows, Bears
<1>4. /\ ReceiptOf(d, g).release = ReceiptOf(c, h).release
      /\ ReceiptOf(d, g).priorBridge = ReceiptOf(c, h).priorBridge
      /\ s # "note" => ReceiptOf(d, g).bridge = ReceiptOf(c, h).bridge
      /\ ReceiptOf(d, g).hstatus = IF s # "sign" THEN ReceiptOf(c, h).hstatus
                                   ELSE GoalEnd(c, h).hstatus
  BY <1>1 DEF Returned, Effect, SameTerms
<1>5. ASSUME c.ask.op = "uninstall" PROVE Bears(g, c.ask.mine, c.was.bridge)
  <2>1. ~Applies(c) /\ s \notin {"note", "sign"}
    BY <1>5 DEF Applies, Apply, Returned, InTurn, Bridge
  <2>2. ReceiptOf(c, h) = h.receipts[c.ask.mine] /\ ReceiptOf(d, g) = g.receipts[c.ask.mine]
    BY <1>1, <2>1 DEF ReceiptOf, MineOf
  <2>3. g.receipts[c.ask.mine].release = h.receipts[c.ask.mine].release
        /\ g.receipts[c.ask.mine].priorBridge = h.receipts[c.ask.mine].priorBridge
        /\ g.receipts[c.ask.mine].bridge = h.receipts[c.ask.mine].bridge
        /\ g.receipts[c.ask.mine].hstatus = h.receipts[c.ask.mine].hstatus
    BY <1>4, <2>1, <2>2
  <2> QED  BY <1>5, <2>3 DEF CleanFollows, Bears
<1>6. ASSUME c.ask.op = "rollback"
      PROVE  /\ c.was.bridge = IF ReceiptOf(d, g).bridge THEN ReceiptOf(d, g).release
                                                         ELSE ReceiptOf(d, g).priorBridge
             /\ ReceiptOf(d, g).bridge =>
                  /\ ~d.back /\ "sign" \in d.todo => ReceiptOf(d, g).hstatus = "installed"
                  /\ d.back /\ Vouched(d) /\ "sign" \notin d.todo =>
                       ReceiptOf(d, g).hstatus = "installed"
  <2>1. ~Applies(c) /\ s # "note"
    BY <1>6 DEF Applies, Apply, Returned, InTurn
  <2>2. c.back => GoalEnd(c, h).hstatus = "installed"
    BY <2>1 DEF GoalEnd, EndIn
  <2> QED  BY <1>1, <1>4, <1>6, <2>1, <2>2 DEF CleanFollows
<1> QED  BY <1>1, <1>3, <1>5, <1>6 DEF CleanFollows

\* The service is down whenever its definition is taken away.
LEMMA EffectKeepsFit ==
  ASSUME NEW c, NEW h, NEW g, NEW m, NEW s, c \in CliSet, HostShape(h), InTurn(c, h, s),
         Effect(c, h, m, s, g), HostFits(h, m), TodoFits(c, h, m), TaskKnown(c, h, m),
         ServiceFollows(c, h, m)
  PROVE  HostFits(g, m)
<1>1. InOrder(c.todo, s)
  BY DEF InTurn
<1>2. m = "none" => g.text = Nothing
  BY <1>1 DEF HostFits, Effect, TodoFits, InOrder
<1>3. Up(g) => g.text # Nothing
  <2>1. CASE s = "define"
    <3>1. ~Up(h)
      BY <1>1, <2>1 DEF ServiceFollows, TaskKnown, InOrder
    <3> QED  BY <2>1, <3>1 DEF Effect, Up
  <2>2. CASE s # "define"
    <3>1. g.text = h.text
      BY <2>2 DEF Effect
    <3>2. Up(g) => Up(h) \/ h.text # Nothing
      BY DEF Effect, Up
    <3> QED  BY <3>1, <3>2 DEF HostFits
  <2> QED  BY <2>1, <2>2
<1>4. \A j \in 1..Len(g.receipts) :
        /\ g.receipts[j].prev \in 0..(j - 1)
        /\ g.receipts[j].prev # 0 =>
             g.receipts[j].priorText = TextIn(g, m, g.receipts[j].prev)
  <2> SUFFICES ASSUME NEW j \in 1..Len(h.receipts)
               PROVE  /\ g.receipts[j].prev \in 0..(j - 1)
                      /\ g.receipts[j].prev # 0 =>
                           g.receipts[j].priorText = TextIn(g, m, g.receipts[j].prev)
    BY DEF Effect, SameHistory
  <2>1. g.receipts[j].prev = h.receipts[j].prev
        /\ g.receipts[j].priorText = h.receipts[j].priorText
    BY DEF Effect, SameHistory
  <2>2. h.receipts[j].prev \in 0..(j - 1) /\ Len(h.receipts) \in Nat
    BY ReceiptsAre DEF HostFits
  <2>3. ASSUME h.receipts[j].prev # 0
        PROVE  TextIn(g, m, h.receipts[j].prev) = TextIn(h, m, h.receipts[j].prev)
    <3>1. h.receipts[j].prev \in 1..Len(h.receipts)
      BY <2>2, <2>3
    <3> QED  BY <3>1 DEF Effect, SameHistory, TextIn
  <2> QED  BY <2>1, <2>2, <2>3 DEF HostFits
<1> QED  BY <1>2, <1>3, <1>4 DEF HostFits

LEMMA ReturnKeepsFounded ==
  ASSUME NEW c, NEW h, NEW g, NEW m, NEW s, c \in CliSet, HostShape(h), InTurn(c, h, s),
         Effect(c, h, m, s, g), NEW clean \in BOOLEAN,
         TaskKnown(c, h, m), PreparedFollows(c, h), Founded(h, c.was.pointer, clean)
  PROVE  Founded(g, c.was.pointer, clean)
<1>1. /\ Len(h.receipts) \in Nat /\ MineOf(c, h) \in 1..Len(h.receipts)
      /\ c.todo # {} /\ (c.back \/ ~Applies(c) \/ "prepare" \notin c.todo)
      /\ SameHistory(h, g, MineOf(c, h)) /\ c.was.pointer \in 0..Len(h.receipts)
  BY ReceiptsAre DEF InTurn, InOrder, Effect, TaskKnown
<1>2. c.was.pointer <= MineOf(c, h)
  <2>1. Applies(c) => Prepared(c, h)
    BY <1>1 DEF PreparedFollows
  <2> QED  BY <1>1, <2>1 DEF Prepared, MineOf, TaskKnown
<1> QED  BY <1>1, <1>2, FoundedStays

LEMMA ReturnKeepsFollowing ==
  ASSUME ConstantsOK,
         NEW c, NEW d, NEW h, NEW g, NEW m, NEW s, Returned(c, h, m, s, d, g),
         NEW clean \in BOOLEAN, TaskFollows(c, h, m, clean), HostFits(h, m),
         ~c.back /\ ~Applies(c) /\ s = "tear" => h.bridge = ReceiptOf(c, h).release
  PROVE  TaskFollows(d, g, m, clean) /\ HostFits(g, m)
<1>1. /\ TaskKnown(c, h, m) /\ PreparedFollows(c, h) /\ TodoFits(c, h, m)
      /\ TouchedFits(c, h, m) /\ PointerFollows(c, h) /\ TextFollows(c, h, m)
      /\ ServiceFollows(c, h, m) /\ BridgeFollows(c, h) /\ StatusFollows(c, h)
      /\ (clean => CleanFollows(c, h)) /\ Founded(h, c.was.pointer, clean)
  BY DEF TaskFollows
<1>2. /\ c \in CliSet /\ HostShape(h) /\ InTurn(c, h, s) /\ Effect(c, h, m, s, g)
      /\ d.was = c.was
  BY DEF Returned, Stepped, SameTask
<1>3. TaskKnown(d, g, m) /\ PreparedFollows(d, g)
  BY <1>1, ReturnKeepsTask
<1>4. TodoFits(d, g, m) /\ TouchedFits(d, g, m)
  BY <1>1, ReturnKeepsTodo, ReturnKeepsTouched
<1>5. PointerFollows(d, g) /\ TextFollows(d, g, m)
  BY <1>1, ReturnKeepsPointer, ReturnKeepsText
<1>6. ServiceFollows(d, g, m)
  BY <1>1, ReturnKeepsService
<1>7. BridgeFollows(d, g) /\ StatusFollows(d, g)
  BY <1>1, ReturnKeepsBridge, ReturnKeepsStatus
<1>8. clean => CleanFollows(d, g)
  BY <1>1, ReturnKeepsClean
<1>9. Founded(g, d.was.pointer, clean)
  BY <1>1, <1>2, ReturnKeepsFounded
<1>10. HostFits(g, m)
  BY <1>1, <1>2, EffectKeepsFit
<1> QED  BY <1>3, <1>4, <1>5, <1>6, <1>7, <1>8, <1>9, <1>10 DEF TaskFollows

-----------------------------------------------------------------------------
(* The first step, whether it returns or throws.                           *)

Grown(c, h, g) == g = [h EXCEPT !.receipts = Append(@, NewReceipt(c))]

GrownBy(c, h, g) ==
  /\ Len(h.receipts) \in Nat /\ Len(g.receipts) = Len(h.receipts) + 1
  /\ \A j \in 1..Len(h.receipts) : g.receipts[j] = h.receipts[j]
  /\ g.receipts[Len(g.receipts)] = NewReceipt(c)
  /\ g.pointer = h.pointer /\ g.text = h.text /\ g.running = h.running
  /\ g.bridge = h.bridge

LEMMA GrownHost ==
  ASSUME NEW c \in CliSet, NEW h, NEW g, NEW m, HostShape(h), HostFits(h, m),
         TaskKnown(c, h, m), Applies(c), Grown(c, h, g)
  PROVE  HostShape(g) /\ HostFits(g, m) /\ GrownBy(c, h, g)
<1> DEFINE n == Len(h.receipts)
           r == NewReceipt(c)
<1>1. n \in Nat /\ h.receipts \in Seq(ReceiptSet)
  BY ReceiptsAre DEF HostShape
<1>2. r \in ReceiptSet
  <2>1. c.was \in WasSet /\ c.ask.release \in Releases /\ c.ask.hermes \in BOOLEAN
        /\ c.ask.op \in Apply
    BY DEF TaskKnown, CliSet, Applies
  <2>2. /\ c.was.pointer \in Nat /\ c.was.text \in Content /\ c.was.active \in BOOLEAN
        /\ c.was.bridge \in Content
    BY <2>1 DEF WasSet
  <2> QED  BY <2>1, <2>2 DEF NewReceipt, ReceiptSet, Status
<1>3. r.prev = c.was.pointer /\ r.priorText = c.was.text
  BY DEF NewReceipt
<1> HIDE DEF r
<1>4. /\ Append(h.receipts, r) \in Seq(ReceiptSet) /\ Len(Append(h.receipts, r)) = n + 1
      /\ \A j \in 1..n : Append(h.receipts, r)[j] = h.receipts[j]
      /\ Append(h.receipts, r)[n + 1] = r
  BY <1>1, <1>2
<1>5. /\ g.receipts = Append(h.receipts, r)
      /\ g.pointer = h.pointer /\ g.text = h.text /\ g.running = h.running
      /\ g.bridge = h.bridge
      /\ g = [h EXCEPT !.receipts = Append(h.receipts, r)]
  BY DEF Grown, HostShape, r
<1>6. g \in [pointer : Nat, text : Content, running : Content, bridge : Content,
             receipts : Seq(ReceiptSet)]
  BY <1>4, <1>5 DEF HostShape
<1>7. HostShape(g)
  BY <1>1, <1>4, <1>5, <1>6 DEF HostShape
<1>8. \A j \in 1..(n + 1) :
        /\ g.receipts[j].prev \in 0..(j - 1)
        /\ g.receipts[j].prev # 0 =>
             g.receipts[j].priorText = TextIn(g, m, g.receipts[j].prev)
  <2> SUFFICES ASSUME NEW j \in 1..(n + 1)
               PROVE  /\ g.receipts[j].prev \in 0..(j - 1)
                      /\ g.receipts[j].prev # 0 =>
                           g.receipts[j].priorText = TextIn(g, m, g.receipts[j].prev)
    OBVIOUS
  <2>1. \A k \in 1..n : TextIn(g, m, k) = TextIn(h, m, k)
    BY <1>4, <1>5 DEF TextIn
  <2>2. CASE j \in 1..n
    <3>1. g.receipts[j] = h.receipts[j] /\ h.receipts[j].prev \in 0..(j - 1)
      BY <1>4, <1>5, <2>2 DEF HostFits
    <3>2. h.receipts[j].prev # 0 => h.receipts[j].prev \in 1..n
      BY <1>1, <2>2, <3>1
    <3> QED  BY <2>1, <2>2, <3>1, <3>2 DEF HostFits
  <2>3. CASE j = n + 1
    <3>1. g.receipts[j] = r /\ c.was.pointer \in 0..n
      BY <1>4, <1>5, <2>3 DEF TaskKnown
    <3>2. c.was.pointer # 0 => c.was.pointer \in 1..n
      BY <1>1, <3>1
    <3>3. c.was.pointer # 0 => c.was.text = TextIn(h, m, c.was.pointer)
      BY DEF TaskKnown
    <3> QED  BY <1>1, <1>3, <2>1, <2>3, <3>1, <3>2, <3>3
  <2> QED  BY <1>1, <2>2, <2>3
<1>9. HostFits(g, m)
  BY <1>4, <1>5, <1>8 DEF HostFits, Up
<1>10. GrownBy(c, h, g)
  BY <1>1, <1>4, <1>5 DEF GrownBy, r
<1> QED  BY <1>7, <1>9, <1>10

\* The deployment there was is as it was.
LEMMA GrownKeepsWas ==
  ASSUME NEW c \in CliSet, NEW d, NEW h, NEW g, NEW m, NEW clean \in BOOLEAN,
         HostShape(h), HostFits(h, m), TaskKnown(c, h, m), Applies(c),
         Grown(c, h, g) \/ g = h, SameTask(c, d),
         clean => CleanFollows(c, h), Founded(h, c.was.pointer, clean)
  PROVE  /\ TaskKnown(d, g, m) /\ (clean => CleanFollows(d, g))
         /\ Founded(g, d.was.pointer, clean)
<1>1. /\ Len(h.receipts) \in Nat
      /\ Len(g.receipts) \in Nat /\ Len(g.receipts) >= Len(h.receipts)
      /\ \A j \in 1..Len(h.receipts) : g.receipts[j] = h.receipts[j]
      /\ Up(g) <=> Up(h)
  <2>1. CASE Grown(c, h, g)
    <3>1. GrownBy(c, h, g)
      BY <2>1, GrownHost
    <3> QED  BY <3>1 DEF GrownBy, Up
  <2>2. CASE g = h
    BY <2>2, ReceiptsAre
  <2> QED  BY <2>1, <2>2
<1>2. d.ask = c.ask /\ d.was = c.was /\ Applies(d) /\ c.ask.op \notin {"rollback", "uninstall"}
  BY DEF SameTask, Applies, Apply
<1>3. c.was.pointer \in 0..Len(h.receipts)
  BY DEF TaskKnown
<1>4. c.was.pointer # 0 => g.receipts[c.was.pointer] = h.receipts[c.was.pointer]
  BY <1>1, <1>3
<1>5. TaskKnown(d, g, m)
  BY <1>1, <1>2, <1>3, <1>4 DEF TaskKnown, FinalIn, TextIn
<1>6. clean => CleanFollows(d, g)
  BY <1>2, <1>4 DEF CleanFollows, Bears
<1>7. Founded(g, c.was.pointer, clean)
  <2>1. c.was.pointer \in Nat
    BY <1>1, <1>3
  <2>2. \A j \in 1..(c.was.pointer - 1) : g.receipts[j] = h.receipts[j]
    BY <1>1, <1>3, <2>1
  <2>3. SameUnder(h, g, c.was.pointer)
    BY <1>4, <2>2 DEF SameUnder
  <2> QED  BY <2>3, FoundedSame
<1> QED  BY <1>2, <1>5, <1>6, <1>7

LEMMA PrepareReturns ==
  ASSUME NEW c \in CliSet, NEW d, NEW h, NEW g, NEW m, NEW clean \in BOOLEAN,
         HostShape(h), HostFits(h, m), TaskFollows(c, h, m, clean),
         ~c.back, c.at = "working", "prepare" \in c.todo, Grown(c, h, g),
         Stepped(c, d, "prepare")
  PROVE  TaskFollows(d, g, m, clean)
<1>1. /\ TaskKnown(c, h, m) /\ TodoFits(c, h, m) /\ TouchedFits(c, h, m)
      /\ PointerFollows(c, h) /\ TextFollows(c, h, m) /\ ServiceFollows(c, h, m)
      /\ BridgeFollows(c, h)
  BY DEF TaskFollows
<1>2. Applies(c) /\ Everything(c, m)
  BY <1>1 DEF TodoFits
<1>3. /\ d.ask = c.ask /\ d.was = c.was /\ ~d.back /\ d.at = "working" /\ Applies(d)
      /\ d.todo = c.todo \ {"prepare"} /\ d.touched = c.touched
      /\ SameTask(c, d)
  BY <1>2 DEF Stepped, SameTask, MarkedAfter, Applies
<1>4. /\ Len(h.receipts) \in Nat /\ Len(g.receipts) = Len(h.receipts) + 1
      /\ g.receipts[Len(g.receipts)] = NewReceipt(c)
      /\ g.pointer = h.pointer /\ g.text = h.text /\ (Up(g) <=> Up(h))
      /\ g.bridge = h.bridge
  <2>1. GrownBy(c, h, g)
    BY <1>1, <1>2, GrownHost
  <2> QED  BY <2>1 DEF GrownBy, Up
<1>5. TaskKnown(d, g, m) /\ (clean => CleanFollows(d, g)) /\ Founded(g, d.was.pointer, clean)
  <2>1. TaskKnown(c, h, m) /\ (clean => CleanFollows(c, h)) /\ Founded(h, c.was.pointer, clean)
    BY DEF TaskFollows
  <2>2. Applies(c) /\ (Grown(c, h, g) \/ g = h) /\ SameTask(c, d)
    BY <1>2, <1>3
  <2> QED  BY <2>1, <2>2, GrownKeepsWas
<1>6. ReceiptOf(d, g) = NewReceipt(c)
  BY <1>3, <1>4 DEF ReceiptOf, MineOf
<1>7. Prepared(d, g)
  <2>1. c.was.pointer < Len(g.receipts)
    BY <1>1, <1>4 DEF TaskKnown
  <2> QED  BY <1>3, <1>6, <2>1 DEF Prepared, NewReceipt
<1>8. (HasTask(d, g) <=> HasTask(c, h)) /\ (HasTask(c, h) <=> c.ask.hermes)
      /\ ToStart(d, g) /\ ToStart(c, h)
  BY <1>2, <1>3 DEF HasTask, Has, ToStart, Applies, Apply
<1>9. TodoFits(d, g, m) /\ TouchedFits(d, g, m)
  <2>1. TodoFits(d, g, m)
    BY <1>1, <1>2, <1>3, <1>8 DEF TodoFits, BeforeBridge
  <2>2. TouchedFits(d, g, m)
    BY <1>1, <1>3, <1>4, <1>8 DEF TouchedFits
  <2> QED  BY <2>1, <2>2
<1>10. PointerFollows(d, g) /\ TextFollows(d, g, m)
  BY <1>1, <1>2, <1>3, <1>4 DEF PointerFollows, TextFollows, Everything
<1>11. ServiceFollows(d, g, m)
  BY <1>1, <1>2, <1>3, <1>4 DEF ServiceFollows, Everything
<1>12. BridgeFollows(d, g)
  BY <1>1, <1>2, <1>3, <1>4, <1>8 DEF BridgeFollows, Everything
<1>13. StatusFollows(d, g)
  <2>1. ReceiptOf(d, g).bridge = FALSE
    BY <1>6 DEF NewReceipt
  <2> QED  BY <1>2, <1>3, <2>1 DEF StatusFollows, Everything
<1> QED
  BY <1>5, <1>7, <1>9, <1>10, <1>11, <1>12, <1>13 DEF TaskFollows, PreparedFollows

LEMMA PrepareThrows ==
  ASSUME NEW c \in CliSet, NEW d, NEW h, NEW g, NEW m, NEW clean \in BOOLEAN,
         HostShape(h), HostFits(h, m), TaskFollows(c, h, m, clean),
         ~c.back, c.at = "working", "prepare" \in c.todo, Grown(c, h, g) \/ g = h,
         SameTask(c, d), d.at = "working", d.back = TRUE, d.todo = {}
  PROVE  TaskFollows(d, g, m, clean)
<1>1. /\ TaskKnown(c, h, m) /\ TodoFits(c, h, m) /\ TouchedFits(c, h, m)
      /\ PointerFollows(c, h) /\ TextFollows(c, h, m) /\ BridgeFollows(c, h)
  BY DEF TaskFollows
<1>2. Applies(c) /\ Everything(c, m)
  BY <1>1 DEF TodoFits
<1>3. d.ask = c.ask /\ d.was = c.was /\ Applies(d)
  BY <1>2 DEF SameTask, Applies
<1>4. /\ g.pointer = h.pointer /\ g.text = h.text /\ (Up(g) <=> Up(h))
      /\ g.bridge = h.bridge
  <2>1. GrownBy(c, h, g) \/ g = h
    BY <1>1, <1>2, GrownHost
  <2> QED  BY <2>1 DEF GrownBy, Up
<1>5. TaskKnown(d, g, m) /\ (clean => CleanFollows(d, g)) /\ Founded(g, d.was.pointer, clean)
  BY <1>2, GrownKeepsWas DEF TaskFollows
<1>6. /\ h.pointer = c.was.pointer /\ (m # "none" => h.text = c.was.text)
      /\ h.bridge = c.was.bridge
  <2>1. HasTask(c, h) => "tear" \in c.todo
    BY <1>2 DEF HasTask, Has, Everything
  <2>2. h.bridge = c.was.bridge
    BY <1>1, <2>1 DEF BridgeFollows
  <2> QED  BY <1>1, <1>2, <2>2 DEF PointerFollows, TextFollows, Everything
<1>7. Up(h) <=> c.was.active
  BY <1>1, <1>2 DEF TouchedFits, Everything
<1>8. TodoFits(d, g, m) /\ TouchedFits(d, g, m) /\ PreparedFollows(d, g)
  BY <1>3, <1>4, <1>6 DEF TodoFits, TouchedFits, PreparedFollows
<1>9. PointerFollows(d, g) /\ TextFollows(d, g, m) /\ ServiceFollows(d, g, m)
  BY <1>3, <1>4, <1>6, <1>7 DEF PointerFollows, TextFollows, ServiceFollows
<1>10. BridgeFollows(d, g) /\ StatusFollows(d, g)
  BY <1>3, <1>4, <1>6 DEF BridgeFollows, StatusFollows, Applies, Apply
<1> QED  BY <1>5, <1>8, <1>9, <1>10 DEF TaskFollows

-----------------------------------------------------------------------------
(* A step that throws.                                                     *)

LEMMA BackPathSteps ==
  /\ \A s : s \in Steps(BackPath("install")) <=> s \in BackSteps
  /\ \A s : s \in Steps(BackPath("rollback")) <=> s \in BackSteps \cup {"finish"}
  /\ Steps(BackPath("uninstall")) = {}
<1>1. \A s : s \in Steps(BackPath("install")) <=> s \in BackSteps
  <2> DEFINE path == BackPath("install")
  <2>1. /\ Len(path) = 8
        /\ path[1] = "point" /\ path[2] = "stop" /\ path[3] = "define" /\ path[4] = "reload"
        /\ path[5] = "start" /\ path[6] = "tear" /\ path[7] = "seal" /\ path[8] = "sign"
    BY DEF BackPath, Apply
  <2>2. \A i : i \in 1..8 <=> i \in {1, 2, 3, 4, 5, 6, 7, 8}
    OBVIOUS
  <2>3. \A s : s \in Steps(path) <=> \E i \in 1..8 : path[i] = s
    BY <2>1 DEF Steps
  <2> HIDE DEF path
  <2>4. \A s : s \in Steps(path) <=> s \in {path[1], path[2], path[3], path[4], path[5],
                                            path[6], path[7], path[8]}
    BY <2>2, <2>3
  <2> QED  BY <2>1, <2>4 DEF BackSteps, Service, Bridge, path
<1>2. \A s : s \in Steps(BackPath("rollback")) <=> s \in BackSteps \cup {"finish"}
  <2> DEFINE path == BackPath("rollback")
  <2>1. /\ Len(path) = 9
        /\ path[1] = "finish" /\ path[2] = "point" /\ path[3] = "tear" /\ path[4] = "seal"
        /\ path[5] = "sign" /\ path[6] = "stop" /\ path[7] = "define"
        /\ path[8] = "reload" /\ path[9] = "start"
    BY DEF BackPath, Apply
  <2>2. \A i : i \in 1..9 <=> i \in {1, 2, 3, 4, 5, 6, 7, 8, 9}
    OBVIOUS
  <2>3. \A s : s \in Steps(path) <=> \E i \in 1..9 : path[i] = s
    BY <2>1 DEF Steps
  <2> HIDE DEF path
  <2>4. \A s : s \in Steps(path) <=> s \in {path[1], path[2], path[3], path[4], path[5],
                                            path[6], path[7], path[8], path[9]}
    BY <2>2, <2>3
  <2> QED  BY <2>1, <2>4 DEF BackSteps, Service, Bridge, path
<1>3. Steps(BackPath("uninstall")) = {}
  <2>1. Steps(<<>>) = {}
    BY DEF Steps
  <2> QED  BY <2>1, Paths
<1> QED  BY <1>1, <1>2, <1>3

\* What a compensation takes back, of the groups that are marked.
BackTodo(c, todo, marked) ==
  /\ "point" \in todo <=> "pointer" \in marked
  /\ "define" \in todo <=> "service" \in marked
  /\ "stop" \in todo <=> "service" \in marked /\ c.ask.managed
  /\ "reload" \in todo <=> "service" \in marked /\ c.ask.managed
  /\ "start" \in todo <=> /\ "service" \in marked /\ c.ask.managed
                          /\ c.was.active /\ c.was.text # Nothing
  /\ "tear" \in todo <=> "bridge" \in marked
  /\ "seal" \in todo <=> "bridge" \in marked
  /\ "sign" \in todo <=> "bridge" \in marked
  /\ "finish" \in todo <=> c.ask.op = "rollback" /\ "receipt" \in marked

LEMMA CatchTodo ==
  ASSUME NEW c, NEW todo, NEW marked,
         c.ask.op \in Apply \cup {"rollback", "uninstall"},
         todo = {t \in Steps(BackPath(c.ask.op)) : TakesBack(c, marked, t)}
  PROVE  IF c.ask.op = "uninstall" THEN todo = {} ELSE BackTodo(c, todo, marked)
<1>1. CASE c.ask.op = "uninstall"
  BY <1>1, BackPathSteps
<1>2. CASE c.ask.op # "uninstall"
  <2>1. \A s : s \in Steps(BackPath(c.ask.op)) <=>
               s \in BackSteps \/ (s = "finish" /\ c.ask.op = "rollback")
    <3>1. CASE c.ask.op \in Apply
      <4>1. BackPath(c.ask.op) = BackPath("install") /\ c.ask.op # "rollback"
        BY <3>1, Paths DEF Apply
      <4> QED  BY <4>1, BackPathSteps
    <3>2. CASE c.ask.op = "rollback"
      BY <3>2, BackPathSteps
    <3> QED  BY <1>2, <3>1, <3>2
  <2>2. \A s : s \in todo <=> /\ s \in BackSteps \/ (s = "finish" /\ c.ask.op = "rollback")
                              /\ TakesBack(c, marked, s)
    BY <2>1
  <2>3. /\ Group("point") = "pointer" /\ Group("finish") = "receipt"
        /\ \A s \in Service : Group(s) = "service"
        /\ \A s \in Bridge : Group(s) = "bridge"
    BY DEF Group, Service, Bridge
  <2>4. /\ "point" \in BackSteps /\ "finish" \notin BackSteps
        /\ Service \subseteq BackSteps /\ Bridge \subseteq BackSteps
    BY DEF BackSteps, Service, Bridge
  <2>5. /\ TakesBack(c, marked, "point") <=> "pointer" \in marked
        /\ TakesBack(c, marked, "finish") <=> "receipt" \in marked
    BY <2>3 DEF TakesBack
  <2>6. /\ TakesBack(c, marked, "define") <=> "service" \in marked
        /\ TakesBack(c, marked, "stop") <=> "service" \in marked /\ c.ask.managed
        /\ TakesBack(c, marked, "reload") <=> "service" \in marked /\ c.ask.managed
        /\ TakesBack(c, marked, "start") <=> /\ "service" \in marked /\ c.ask.managed
                                             /\ c.was.active /\ c.was.text # Nothing
    BY <2>3 DEF TakesBack, Service
  <2>7. \A s \in Bridge : TakesBack(c, marked, s) <=> "bridge" \in marked
    BY <2>3 DEF TakesBack, Bridge
  <2> QED  BY <1>2, <2>2, <2>4, <2>5, <2>6, <2>7 DEF BackTodo, Service, Bridge
<1> QED  BY <1>1, <1>2

\* The machine g as the catch block finds it, with marked to restore.
Recoverable(c, h, m, d, g, marked, clean) ==
  /\ g.pointer \in {c.was.pointer, NextPointer(c, h)}
  /\ "pointer" \notin marked /\ Vouched(d) => g.pointer = c.was.pointer
  /\ m # "none" /\ "service" \notin marked => g.text = c.was.text
  /\ "service" \notin marked /\ Vouched(d) => (Up(g) <=> c.was.active)
  /\ m = "none" => "service" \notin marked
  /\ ~HasTask(c, h) => g.bridge = c.was.bridge
  /\ "bridge" \notin marked /\ Vouched(d) => g.bridge = c.was.bridge
  /\ "bridge" \in marked => HasTask(c, h) /\ "sign" \notin c.todo
  /\ c.ask.op = "rollback" /\ "receipt" \notin marked /\ Vouched(d) =>
       ReceiptOf(d, g).status = c.was.status
  /\ ~c.ask.managed => ~Up(g)
  /\ clean /\ c.ask.op = "rollback" /\ Vouched(d) /\ "bridge" \notin marked =>
       (ReceiptOf(d, g).bridge => ReceiptOf(d, g).hstatus = "installed")

\* d is c in the catch block, where the machine is g.
InCatch(c, h, d, g, marked) ==
  /\ SameTask(c, d) /\ d.at = "working" /\ d.back = TRUE
  /\ c.ask.op = "uninstall" => d.todo = {}
  /\ c.ask.op # "uninstall" => BackTodo(c, d.todo, marked)
  /\ SameHistory(h, g, MineOf(c, h))
  /\ ~Applies(c) => ReceiptOf(d, g).bridge = ReceiptOf(c, h).bridge
  /\ c.ask.op = "uninstall" => ReceiptOf(d, g).hstatus = ReceiptOf(c, h).hstatus

LEMMA CatchFollows ==
  ASSUME NEW c \in CliSet, NEW d, NEW h, NEW g, NEW m, NEW marked, NEW clean \in BOOLEAN,
         HostShape(h), ~c.back, MineOf(c, h) \in 1..Len(h.receipts),
         ~Applies(c) \/ "prepare" \notin c.todo, TaskFollows(c, h, m, clean),
         InCatch(c, h, d, g, marked), Recoverable(c, h, m, d, g, marked, clean)
  PROVE  TaskFollows(d, g, m, clean)
<1>0. /\ SameTask(c, d) /\ d.at = "working" /\ d.back = TRUE
      /\ c.ask.op = "uninstall" => d.todo = {}
      /\ c.ask.op # "uninstall" => BackTodo(c, d.todo, marked)
      /\ SameHistory(h, g, MineOf(c, h))
      /\ ~Applies(c) => ReceiptOf(d, g).bridge = ReceiptOf(c, h).bridge
      /\ c.ask.op = "uninstall" => ReceiptOf(d, g).hstatus = ReceiptOf(c, h).hstatus
  BY DEF InCatch
<1>1. /\ TaskKnown(c, h, m) /\ PreparedFollows(c, h) /\ TodoFits(c, h, m)
      /\ BridgeFollows(c, h) /\ (clean => CleanFollows(c, h))
      /\ Founded(h, c.was.pointer, clean)
  BY <1>0 DEF TaskFollows
<1>2. SameTerms(c, h, d, g)
  BY <1>0, HistoryGivesTerms
<1>3. d.ask = c.ask /\ d.was = c.was /\ (Applies(d) <=> Applies(c))
      /\ (HasTask(d, g) <=> HasTask(c, h))
  <2>1. d.ask = c.ask /\ d.was = c.was /\ (Applies(d) <=> Applies(c))
    BY <1>0, <1>2 DEF SameTask, SameTerms
  <2> QED  BY <1>0, <2>1 DEF HasTask, Has
<1>4. /\ Len(h.receipts) \in Nat /\ Len(g.receipts) = Len(h.receipts)
      /\ c.was.pointer \in 0..Len(h.receipts)
  BY <1>0, <1>1, ReceiptsAre DEF SameHistory, TaskKnown
<1>5. Applies(c) => Prepared(c, h)
  BY <1>0, <1>1 DEF PreparedFollows
<1>6. /\ c.was.pointer <= MineOf(c, h)
      /\ Applies(c) /\ c.was.pointer # 0 =>
           g.receipts[c.was.pointer] = h.receipts[c.was.pointer]
  <2>1. c.was.pointer <= MineOf(c, h)
    BY <1>0, <1>1, <1>4, <1>5 DEF Prepared, MineOf, TaskKnown
  <2>2. ASSUME Applies(c), c.was.pointer # 0
        PROVE  g.receipts[c.was.pointer] = h.receipts[c.was.pointer]
    <3>1. c.was.pointer \in 1..Len(h.receipts) /\ c.was.pointer # MineOf(c, h)
      BY <1>0, <1>4, <1>5, <2>2 DEF Prepared, MineOf
    <3> QED  BY <1>0, <3>1 DEF SameHistory
  <2> QED  BY <1>0, <2>1, <2>2
<1>7. TaskKnown(d, g, m)
  BY <1>0, <1>1, <1>3, <1>4, <1>6 DEF TaskKnown, FinalIn, TextIn, Recoverable
<1>8. PreparedFollows(d, g)
  BY <1>0, <1>2, <1>3, <1>5 DEF PreparedFollows, SameTerms
<1>9. Founded(g, d.was.pointer, clean)
  BY <1>0, <1>1, <1>3, <1>4, <1>6, FoundedStays
<1>10. TodoFits(d, g, m)
  <2>1. CASE c.ask.op = "uninstall"
    BY <1>0, <1>3, <2>1 DEF TodoFits
  <2>2. CASE c.ask.op # "uninstall"
    <3>1. ~HasTask(d, g) => d.todo \cap Bridge = {}
      BY <1>0, <1>3, <2>2 DEF BackTodo, Recoverable, Bridge
    <3>2. ~c.ask.managed => d.todo \cap {"stop", "reload", "start"} = {}
      BY <1>0, <2>2 DEF BackTodo
    <3> QED  BY <1>0, <1>1, <1>3, <2>2, <3>1, <3>2 DEF TodoFits, BackTodo, Recoverable, TaskKnown
  <2> QED  BY <1>0, <2>1, <2>2
<1>11. TouchedFits(d, g, m)
  BY <1>0 DEF TouchedFits
<1>12. PointerFollows(d, g)
  BY <1>0, <1>2, <1>3 DEF PointerFollows, Recoverable, BackTodo, SameTerms, Vouched
<1>13. TextFollows(d, g, m)
  BY <1>0, <1>3 DEF TextFollows, Recoverable, BackTodo, Vouched
<1>14. ServiceFollows(d, g, m)
  <2>1. CASE c.ask.op = "uninstall"
    BY <1>0, <1>3, <2>1 DEF ServiceFollows, Vouched
  <2>2. CASE c.ask.op # "uninstall"
    BY <1>0, <1>3, <2>2 DEF ServiceFollows, Recoverable, BackTodo
  <2> QED  BY <1>0, <2>1, <2>2
<1>15. BridgeFollows(d, g)
  <2>1. ASSUME Vouched(d), HasTask(c, h), "seal" \in d.todo
        PROVE  c.was.bridge = IF Applies(c) THEN ReceiptOf(c, h).priorBridge
                                            ELSE ReceiptOf(c, h).release
    <3>1. "sign" \notin c.todo /\ "tear" \notin c.todo
      BY <1>0, <1>1, <1>3, <2>1 DEF Vouched, BackTodo, Recoverable, TodoFits
    <3> QED  BY <1>0, <1>1, <1>5, <2>1, <3>1 DEF BridgeFollows, Prepared
  <2>2. Vouched(d) /\ "seal" \notin d.todo => g.bridge = c.was.bridge
    BY <1>0, <1>3 DEF Vouched, BackTodo, Recoverable
  <2> QED  BY <1>0, <1>2, <1>3, <2>1, <2>2 DEF BridgeFollows, Recoverable, SameTerms
<1>16. StatusFollows(d, g)
  BY <1>0, <1>3 DEF StatusFollows, Recoverable, BackTodo, Vouched
<1>17. ASSUME clean PROVE CleanFollows(d, g)
  <2>1. Applies(c) /\ c.was.pointer # 0 => Bears(g, c.was.pointer, c.was.bridge)
    BY <1>0, <1>1, <1>6, <1>17 DEF CleanFollows, Bears
  <2>2. ASSUME c.ask.op = "uninstall" PROVE Bears(g, c.ask.mine, c.was.bridge)
    <3>1. ~Applies(c)
      BY <1>0, <2>2 DEF Applies, Apply
    <3>2. ReceiptOf(c, h) = h.receipts[c.ask.mine] /\ ReceiptOf(d, g) = g.receipts[c.ask.mine]
      BY <1>0, <1>3, <3>1 DEF ReceiptOf, MineOf
    <3> QED  BY <1>0, <1>1, <1>2, <1>17, <2>2, <3>1, <3>2 DEF CleanFollows, Bears, SameTerms
  <2>3. ASSUME c.ask.op = "rollback"
        PROVE  /\ c.was.bridge = IF ReceiptOf(d, g).bridge THEN ReceiptOf(d, g).release
                                                           ELSE ReceiptOf(d, g).priorBridge
               /\ ReceiptOf(d, g).bridge /\ Vouched(d) /\ "sign" \notin d.todo =>
                    ReceiptOf(d, g).hstatus = "installed"
    <3>1. ~Applies(c)
      BY <1>0, <2>3 DEF Applies, Apply
    <3> QED  BY <1>0, <1>1, <1>2, <1>17, <2>3, <3>1
             DEF CleanFollows, SameTerms, Recoverable, BackTodo
  <2> QED  BY <1>0, <1>3, <2>1, <2>2, <2>3 DEF CleanFollows
<1> QED
  BY <1>0, <1>7, <1>8, <1>9, <1>10, <1>11, <1>12, <1>13, <1>14, <1>15, <1>16, <1>17 DEF TaskFollows

\* g is h, but for what the step s does and for the bridge.
Near(c, h, m, s, g) ==
  /\ g.pointer = IF s # "point" THEN h.pointer ELSE NextPointer(c, h)
  /\ g.text = IF s # "define" THEN h.text ELSE NextText(c, h, m)
  /\ s \notin {"stop", "reload", "start"} => g.running = h.running
  /\ ReceiptOf(c, g).status = IF s # "finish" THEN ReceiptOf(c, h).status
                              ELSE GoalStatus(c.ask.op)
  /\ s \in c.todo \cup {"none"}
  /\ InOrder(c.todo, s) \/ s = "none"

\* What the catch block does not know of is marked, or unseen.
Marks(c, s, d, marked) ==
  /\ c.touched \subseteq marked
  /\ s \in MarkedFirst(c.ask.op) => Group(s) \in marked
  /\ s \in {"stop", "point"} /\ Applies(c) => d.unseen

LEMMA NearIsRecoverable ==
  ASSUME NEW c, NEW d, NEW h, NEW g, NEW m, NEW s, NEW marked,
         ~c.back, TaskFollows(c, h, m, FALSE), SameTask(c, d), ReceiptOf(d, g) = ReceiptOf(c, g),
         Near(c, h, m, s, g), Marks(c, s, d, marked)
  PROVE  /\ g.pointer \in {c.was.pointer, NextPointer(c, h)}
         /\ "pointer" \notin marked /\ Vouched(d) => g.pointer = c.was.pointer
         /\ m # "none" /\ "service" \notin marked => g.text = c.was.text
         /\ "service" \notin marked /\ Vouched(d) => (Up(g) <=> c.was.active)
         /\ c.ask.op = "rollback" /\ "receipt" \notin marked /\ Vouched(d) =>
              ReceiptOf(d, g).status = c.was.status
         /\ ~c.ask.managed => ~Up(g)
<1>1. /\ TaskKnown(c, h, m) /\ TodoFits(c, h, m) /\ TouchedFits(c, h, m)
      /\ PointerFollows(c, h) /\ TextFollows(c, h, m) /\ StatusFollows(c, h)
  BY DEF TaskFollows
<1>2. /\ Group("point") = "pointer" /\ Group("define") = "service" /\ Group("stop") = "service"
      /\ Group("finish") = "receipt"
  BY DEF Group, Service, Bridge
<1>3. d.ask = c.ask /\ d.was = c.was
  BY DEF SameTask
<1>4. \/ Applies(c) /\ c.ask.op \notin {"rollback", "uninstall"}
      \/ c.ask.op = "rollback" \/ c.ask.op = "uninstall"
  BY <1>1 DEF TaskKnown, Applies, Apply
<1>5. s \in {"stop", "point"} => c.ask.op = "rollback" \/ ~Vouched(d)
  BY <1>3, <1>4 DEF Marks, Vouched
<1>6. /\ "pointer" \notin marked /\ s = "point" => ~Vouched(d)
      /\ "service" \notin marked => s # "define"
      /\ "service" \notin marked /\ s = "stop" => ~Vouched(d)
      /\ "receipt" \notin marked /\ c.ask.op = "rollback" => s # "finish"
  BY <1>2, <1>5 DEF Marks, MarkedFirst
<1>7. g.pointer \in {c.was.pointer, NextPointer(c, h)}
  BY <1>1 DEF PointerFollows, Near
<1>8. "pointer" \notin marked /\ Vouched(d) => g.pointer = c.was.pointer
  BY <1>1, <1>6 DEF PointerFollows, TouchedFits, Marks, Near
<1>9. m # "none" /\ "service" \notin marked => g.text = c.was.text
  BY <1>1, <1>6 DEF TextFollows, TouchedFits, Marks, Near
<1>10. ASSUME "service" \notin marked, Vouched(d) PROVE Up(g) <=> c.was.active
  <2>1. "service" \notin c.touched /\ s \notin {"stop", "define"}
    BY <1>6, <1>10 DEF Marks
  <2>2. (m # "none" => "define" \in c.todo) /\ (Up(h) <=> c.was.active)
    BY <1>1, <2>1 DEF TouchedFits
  <2>3. s \notin {"reload", "start"}
    <3>1. s \in {"reload", "start"} => m = "none" /\ c.ask.managed
      BY <1>1, <2>2 DEF InOrder, TodoFits, Near
    <3> QED  BY <1>1, <3>1 DEF TaskKnown
  <2> QED  BY <2>1, <2>2, <2>3 DEF Near, Up
<1>11. c.ask.op = "rollback" /\ "receipt" \notin marked /\ Vouched(d) =>
         ReceiptOf(d, g).status = c.was.status
  BY <1>1, <1>6 DEF StatusFollows, TouchedFits, Marks, Near, Applies, Apply
<1>12. ASSUME ~c.ask.managed PROVE ~Up(g)
  <2>1. s \notin {"stop", "reload", "start"}
    BY <1>1, <1>12 DEF TodoFits, Near
  <2> QED  BY <1>1, <1>12, <2>1 DEF Near, Up, TaskKnown
<1> QED  BY <1>7, <1>8, <1>9, <1>10, <1>11, <1>12

\* d is c in the catch block after the step s threw.
Caught(c, d, s) ==
  LET marked == c.touched \cup (IF s \in MarkedFirst(c.ask.op) THEN {Group(s)} ELSE {}) IN
  /\ SameTask(c, d) /\ d.at = "working" /\ d.back = TRUE
  /\ d.todo = {t \in Steps(BackPath(c.ask.op)) : TakesBack(c, marked, t)}

MarkedBy(c, s) == c.touched \cup (IF s \in MarkedFirst(c.ask.op) THEN {Group(s)} ELSE {})

LEMMA MarkedByStep ==
  ASSUME NEW c, NEW h, NEW m, NEW s, ~c.back, TaskKnown(c, h, m), TodoFits(c, h, m),
         TouchedFits(c, h, m), s \in c.todo
  PROVE  /\ m = "none" => "service" \notin MarkedBy(c, s)
         /\ "bridge" \in MarkedBy(c, s) <=> "bridge" \in c.touched
<1>1. /\ Group("point") = "pointer" /\ Group("define") = "service" /\ Group("stop") = "service"
      /\ Group("finish") = "receipt"
  BY DEF Group, Service, Bridge
<1>2. \A t \in MarkedFirst(c.ask.op) : t \in {"stop", "define", "point", "finish"}
  BY DEF MarkedFirst
<1>3. m = "none" => s \notin {"stop", "define"}
  BY DEF TodoFits, TaskKnown
<1>4. m = "none" => "service" \notin c.touched
  BY DEF TouchedFits
<1>5. s \in MarkedFirst(c.ask.op) => Group(s) # "bridge"
  BY <1>1, <1>2
<1>6. m = "none" /\ s \in MarkedFirst(c.ask.op) => Group(s) # "service"
  BY <1>1, <1>2, <1>3
<1> QED  BY <1>4, <1>5, <1>6 DEF MarkedBy

\* A step of the bridge is undone before the catch block has it.
LEMMA CaughtFollows ==
  ASSUME NEW c \in CliSet, NEW d, NEW h, NEW g, NEW m, NEW s, NEW clean \in BOOLEAN,
         HostShape(h), HostFits(h, m), ~c.back, c.at = "working",
         TaskFollows(c, h, m, clean), InTurn(c, h, s), s \notin {"seal", "sign"},
         Caught(c, d, s),
         \/ g = h
         \/ /\ Effect(c, h, m, s, g) /\ s # "tear"
            /\ s \in {"stop", "point"} /\ Applies(c) => d.unseen
  PROVE  TaskFollows(d, g, m, clean) /\ HostFits(g, m)
<1>1. /\ TaskKnown(c, h, m) /\ PreparedFollows(c, h) /\ TodoFits(c, h, m)
      /\ TouchedFits(c, h, m) /\ ServiceFollows(c, h, m)
      /\ BridgeFollows(c, h) /\ (clean => CleanFollows(c, h))
  BY DEF TaskFollows
<1>2. TaskFollows(c, h, m, FALSE)
  <2>1. Founded(h, c.was.pointer, FALSE)
    BY FoundedWithTaint DEF TaskFollows
  <2> QED  BY <2>1 DEF TaskFollows
<1>3. /\ InOrder(c.todo, s) /\ MineOf(c, h) \in 1..Len(h.receipts)
      /\ Applies(c) => "prepare" \notin c.todo
      /\ s \in Bridge => c.ask.op # "uninstall"
      /\ "sign" \in c.todo /\ s \notin Bridge /\ c.ask.op # "uninstall" => s = BeforeBridge(c)
      /\ s = "note" => Applies(c)
  BY DEF InTurn
<1>4. SameHistory(h, g, MineOf(c, h))
  BY SameReceipts DEF Effect
<1>5. SameTerms(c, h, d, g) /\ SameTask(c, d)
  BY <1>3, <1>4, HistoryGivesTerms DEF Caught
<1>6. ReceiptOf(d, g) = g.receipts[MineOf(c, h)] /\ ReceiptOf(c, g) = g.receipts[MineOf(c, h)]
  BY <1>4, <1>5 DEF SameTerms, SameHistory, MineOf, ReceiptOf
<1> DEFINE marked == MarkedBy(c, s)
           t == IF g = h THEN "none" ELSE s
<1>7. Near(c, h, m, t, g)
  <2>1. CASE g = h
    BY <2>1 DEF Near
  <2>2. CASE g # h
    BY <1>3, <2>2 DEF Near, Effect, InOrder
  <2> QED  BY <2>1, <2>2
<1>8. Marks(c, t, d, marked)
  BY DEF Marks, MarkedBy, MarkedFirst
<1>9. ReceiptOf(d, g) = ReceiptOf(c, g)
  BY <1>6
<1>10. /\ m = "none" => "service" \notin marked
       /\ "bridge" \in marked <=> "bridge" \in c.touched
  BY <1>1, <1>3, MarkedByStep DEF InOrder
<1>11. d.todo = {u \in Steps(BackPath(c.ask.op)) : TakesBack(c, marked, u)}
  BY DEF Caught, MarkedBy
<1> HIDE DEF marked, t
<1>12. IF c.ask.op = "uninstall" THEN d.todo = {} ELSE BackTodo(c, d.todo, marked)
  BY <1>1, <1>11, CatchTodo DEF TaskKnown
<1>13. /\ g.bridge = h.bridge /\ ReceiptOf(d, g).hstatus = ReceiptOf(c, h).hstatus
       /\ ~Applies(c) => ReceiptOf(d, g).bridge = ReceiptOf(c, h).bridge
  <2>1. CASE g = h
    BY <1>6, <2>1
  <2>2. CASE g # h
    BY <1>3, <1>9, <2>2 DEF Effect
  <2> QED  BY <2>1, <2>2
<1>14. "sign" \in c.todo /\ HasTask(c, h) => "tear" \in c.todo
  <2> SUFFICES ASSUME "sign" \in c.todo, HasTask(c, h) PROVE "tear" \in c.todo
    OBVIOUS
  <2>1. c.ask.op # "uninstall" /\ s \in c.todo
    BY <1>3 DEF HasTask, InOrder
  <2>2. CASE s \in Bridge
    BY <2>1, <2>2 DEF Bridge
  <2>3. CASE s \notin Bridge
    BY <1>1, <1>3, <2>1, <2>3 DEF TodoFits
  <2> QED  BY <2>2, <2>3
<1>15. ~HasTask(c, h) => g.bridge = c.was.bridge
  BY <1>1, <1>13 DEF BridgeFollows
<1>16. "bridge" \notin marked => g.bridge = c.was.bridge
  BY <1>1, <1>10, <1>13, <1>14 DEF BridgeFollows, TouchedFits
<1>17. "bridge" \in marked => HasTask(c, h) /\ "sign" \notin c.todo
  BY <1>1, <1>10 DEF TouchedFits
<1>18. clean /\ c.ask.op = "rollback" /\ "bridge" \notin marked =>
         (ReceiptOf(d, g).bridge => ReceiptOf(d, g).hstatus = "installed")
  <2> SUFFICES ASSUME clean, c.ask.op = "rollback", "bridge" \notin marked,
                      ReceiptOf(d, g).bridge
               PROVE  ReceiptOf(d, g).hstatus = "installed"
    OBVIOUS
  <2>1. ~Applies(c)
    BY DEF Applies, Apply
  <2>2. HasTask(c, h) /\ "sign" \in c.todo
    BY <1>1, <1>10, <1>13, <2>1 DEF HasTask, Has, TouchedFits
  <2> QED  BY <1>1, <1>13, <2>1, <2>2 DEF CleanFollows
<1>19. Recoverable(c, h, m, d, g, marked, clean)
  <2>1. /\ g.pointer \in {c.was.pointer, NextPointer(c, h)}
        /\ "pointer" \notin marked /\ Vouched(d) => g.pointer = c.was.pointer
        /\ m # "none" /\ "service" \notin marked => g.text = c.was.text
        /\ "service" \notin marked /\ Vouched(d) => (Up(g) <=> c.was.active)
        /\ c.ask.op = "rollback" /\ "receipt" \notin marked /\ Vouched(d) =>
             ReceiptOf(d, g).status = c.was.status
        /\ ~c.ask.managed => ~Up(g)
    BY <1>2, <1>5, <1>7, <1>8, <1>9, NearIsRecoverable
  <2> QED  BY <1>10, <1>15, <1>16, <1>17, <1>18, <2>1 DEF Recoverable
<1>20. HostFits(g, m)
  <2>1. CASE g = h
    BY <2>1
  <2>2. CASE g # h
    BY <1>1, <2>2, EffectKeepsFit
  <2> QED  BY <2>1, <2>2
<1>21. d.at = "working" /\ d.back = TRUE /\ (c.ask.op = "uninstall" => d.todo = {})
       /\ (c.ask.op # "uninstall" => BackTodo(c, d.todo, marked))
  BY <1>12 DEF Caught
<1>22. TaskFollows(d, g, m, clean)
  <2>1. MineOf(c, h) \in 1..Len(h.receipts) /\ (~Applies(c) \/ "prepare" \notin c.todo)
    BY <1>3
  <2>2. c.ask.op = "uninstall" => ReceiptOf(d, g).hstatus = ReceiptOf(c, h).hstatus
    BY <1>13
  <2>3. ~Applies(c) => ReceiptOf(d, g).bridge = ReceiptOf(c, h).bridge
    BY <1>13
  <2>4. SameTask(c, d)
    BY <1>5
  <2> HIDE <1>11
  <2>5. InCatch(c, h, d, g, marked)
    BY <1>4, <1>21, <2>2, <2>3, <2>4 DEF InCatch
  <2> QED  BY <1>19, <2>1, <2>5, CatchFollows
<1> QED  BY <1>20, <1>22

-----------------------------------------------------------------------------
(* A bridge transaction that undoes itself, and a compensation that fails. *)

\* g is h, but for the bridge and what its receipt says of it.
Undone(c, h, g) ==
  /\ SameHistory(h, g, MineOf(c, h))
  /\ g.pointer = h.pointer /\ g.text = h.text /\ g.running = h.running
  /\ ReceiptOf(c, g).status = ReceiptOf(c, h).status
  /\ ReceiptOf(c, g).bridge = ReceiptOf(c, h).bridge

PutBack(c, h, g) ==
  /\ g.bridge = IF Applies(c) THEN ReceiptOf(c, h).priorBridge ELSE ReceiptOf(c, h).release
  /\ ~Applies(c) => ReceiptOf(c, g).hstatus = "installed"

LEMMA UndoneFits ==
  ASSUME NEW c, NEW h, NEW g, NEW m, HostShape(h), HostFits(h, m), Undone(c, h, g)
  PROVE  HostFits(g, m)
<1>1. Len(g.receipts) = Len(h.receipts)
  BY DEF Undone, SameHistory
<1>2. \A j \in 1..Len(h.receipts) :
        /\ g.receipts[j].prev \in 0..(j - 1)
        /\ g.receipts[j].prev # 0 =>
             g.receipts[j].priorText = TextIn(g, m, g.receipts[j].prev)
  <2> SUFFICES ASSUME NEW j \in 1..Len(h.receipts)
               PROVE  /\ g.receipts[j].prev \in 0..(j - 1)
                      /\ g.receipts[j].prev # 0 =>
                           g.receipts[j].priorText = TextIn(g, m, g.receipts[j].prev)
    OBVIOUS
  <2>1. g.receipts[j].prev = h.receipts[j].prev
        /\ g.receipts[j].priorText = h.receipts[j].priorText
    BY DEF Undone, SameHistory
  <2>2. h.receipts[j].prev \in 0..(j - 1) /\ Len(h.receipts) \in Nat
    BY ReceiptsAre DEF HostFits
  <2>3. ASSUME h.receipts[j].prev # 0
        PROVE  TextIn(g, m, h.receipts[j].prev) = TextIn(h, m, h.receipts[j].prev)
    <3>1. h.receipts[j].prev \in 1..Len(h.receipts)
      BY <2>2, <2>3
    <3> QED  BY <3>1 DEF Undone, SameHistory, TextIn
  <2> QED  BY <2>1, <2>2, <2>3 DEF HostFits
<1> QED  BY <1>1, <1>2 DEF HostFits, Undone, Up

LEMMA UndoneFollows ==
  ASSUME NEW c \in CliSet, NEW d, NEW h, NEW g, NEW m, NEW clean \in BOOLEAN,
         HostShape(h), HostFits(h, m), ~c.back, c.at = "undoing",
         TaskFollows(c, h, m, clean), Undone(c, h, g), Caught(c, d, "tear"),
         Vouched(d) => PutBack(c, h, g)
  PROVE  TaskFollows(d, g, m, clean)
<1>1. /\ TaskKnown(c, h, m) /\ PreparedFollows(c, h) /\ TodoFits(c, h, m)
      /\ TouchedFits(c, h, m) /\ BridgeFollows(c, h)
  BY DEF TaskFollows
<1>2. TaskFollows(c, h, m, FALSE)
  <2>1. Founded(h, c.was.pointer, FALSE)
    BY FoundedWithTaint DEF TaskFollows
  <2> QED  BY <2>1 DEF TaskFollows
<1>3. /\ "sign" \in c.todo /\ "prepare" \notin c.todo /\ HasTask(c, h)
      /\ c.ask.op # "uninstall"
  BY <1>1 DEF TodoFits, Bridge, HasTask
<1>4. MineOf(c, h) \in 1..Len(h.receipts)
  BY <1>1, <1>3, MineIsThere
<1>5. SameHistory(h, g, MineOf(c, h)) /\ SameTask(c, d)
  BY DEF Undone, Caught
<1>6. SameTerms(c, h, d, g)
  BY <1>4, <1>5, HistoryGivesTerms
<1>7. ReceiptOf(d, g) = g.receipts[MineOf(c, h)] /\ ReceiptOf(c, g) = g.receipts[MineOf(c, h)]
  BY <1>5, <1>6 DEF SameTerms, SameHistory, MineOf, ReceiptOf
<1>8. Near(c, h, m, "none", g)
  BY DEF Near, Undone
<1> DEFINE marked == c.touched
<1>9. Marks(c, "none", d, marked)
  BY DEF Marks, MarkedFirst
<1>10. d.todo = {u \in Steps(BackPath(c.ask.op)) : TakesBack(c, marked, u)}
       /\ d.at = "working" /\ d.back = TRUE
  <2>1. "tear" \notin MarkedFirst(c.ask.op)
    BY DEF MarkedFirst
  <2> QED  BY <2>1 DEF Caught
<1>11. "bridge" \notin marked /\ (m = "none" => "service" \notin marked)
  BY <1>1, <1>3 DEF TouchedFits
<1> HIDE DEF marked
<1>12. BackTodo(c, d.todo, marked)
  BY <1>1, <1>3, <1>10, CatchTodo DEF TaskKnown
<1>13. Vouched(d) => g.bridge = c.was.bridge
  <2> SUFFICES ASSUME Vouched(d) PROVE g.bridge = c.was.bridge
    OBVIOUS
  <2>1. CASE Applies(c)
    <3>1. Prepared(c, h)
      BY <1>1, <1>3, <2>1 DEF PreparedFollows
    <3> QED  BY <2>1, <3>1 DEF Prepared, PutBack
  <2>2. CASE ~Applies(c)
    BY <1>1, <1>3, <2>2 DEF BridgeFollows, PutBack
  <2> QED  BY <2>1, <2>2
<1>14. Vouched(d) /\ c.ask.op = "rollback" => ReceiptOf(d, g).hstatus = "installed"
  BY <1>7 DEF PutBack, Applies, Apply
<1>15. ReceiptOf(d, g) = ReceiptOf(c, g)
  BY <1>7
<1>16. Recoverable(c, h, m, d, g, marked, clean)
  <2>1. /\ g.pointer \in {c.was.pointer, NextPointer(c, h)}
        /\ "pointer" \notin marked /\ Vouched(d) => g.pointer = c.was.pointer
        /\ m # "none" /\ "service" \notin marked => g.text = c.was.text
        /\ "service" \notin marked /\ Vouched(d) => (Up(g) <=> c.was.active)
        /\ c.ask.op = "rollback" /\ "receipt" \notin marked /\ Vouched(d) =>
             ReceiptOf(d, g).status = c.was.status
        /\ ~c.ask.managed => ~Up(g)
    BY <1>2, <1>5, <1>8, <1>9, <1>15, NearIsRecoverable
  <2> QED  BY <1>3, <1>11, <1>13, <1>14, <2>1 DEF Recoverable
<1>17. InCatch(c, h, d, g, marked)
  BY <1>3, <1>5, <1>10, <1>12, <1>15 DEF InCatch, Undone
<1>18. ~Applies(c) \/ "prepare" \notin c.todo
  BY <1>3
<1> QED  BY <1>4, <1>16, <1>17, <1>18, CatchFollows

\* What a step of a compensation may leave behind, whatever it does.
Kept(c, h, m, s, g) ==
  /\ SameHistory(h, g, MineOf(c, h)) /\ MineOf(c, h) \in 1..Len(h.receipts)
  /\ g.pointer \in {h.pointer, c.was.pointer}
  /\ s \notin {"stop", "reload", "start"} => g.running = h.running
  /\ s \in {"stop", "reload", "start"} => c.ask.managed
  /\ s \notin Bridge => g.bridge = h.bridge
  /\ s \in Bridge => HasTask(c, h)
  /\ ReceiptOf(c, g).bridge = ReceiptOf(c, h).bridge

\* d has given up what s belongs to.
Skipped(c, d, s) ==
  /\ SameTask(c, d) /\ d.at = "working" /\ d.back = TRUE /\ ~Vouched(d)
  /\ d.todo = {t \in c.todo : Group(t) # Group(s)}

LEMMA SkippedFollows ==
  ASSUME NEW c \in CliSet, NEW d, NEW h, NEW g, NEW m, NEW s \in AllSteps,
         NEW clean \in BOOLEAN,
         HostShape(h), HostFits(h, m), c.back, c.ask.op # "uninstall", c.todo # {},
         TaskFollows(c, h, m, clean), Kept(c, h, m, s, g), Skipped(c, d, s)
  PROVE  TaskFollows(d, g, m, clean)
<1>1. /\ TaskKnown(c, h, m) /\ PreparedFollows(c, h) /\ TodoFits(c, h, m)
      /\ PointerFollows(c, h) /\ ServiceFollows(c, h, m)
      /\ BridgeFollows(c, h) /\ (clean => CleanFollows(c, h))
      /\ Founded(h, c.was.pointer, clean)
  BY DEF TaskFollows
<1>2. SameHistory(h, g, MineOf(c, h)) /\ MineOf(c, h) \in 1..Len(h.receipts) /\ SameTask(c, d)
  BY DEF Kept, Skipped
<1>3. SameTerms(c, h, d, g)
  BY <1>2, HistoryGivesTerms
<1>4. ReceiptOf(d, g) = ReceiptOf(c, g)
  BY <1>2, <1>3 DEF SameTerms, SameHistory, MineOf, ReceiptOf
<1>5. /\ d.ask = c.ask /\ d.was = c.was /\ (Applies(d) <=> Applies(c))
      /\ (HasTask(d, g) <=> HasTask(c, h)) /\ d.back = TRUE /\ ~Vouched(d) /\ d.at = "working"
  <2>1. d.ask = c.ask /\ d.was = c.was /\ (Applies(d) <=> Applies(c))
    BY <1>2, <1>3 DEF SameTask, SameTerms
  <2>2. ReceiptOf(d, g).bridge = ReceiptOf(c, h).bridge
    BY <1>4 DEF Kept
  <2> QED  BY <2>1, <2>2 DEF HasTask, Has, Skipped
<1>6. /\ Len(h.receipts) \in Nat /\ Len(g.receipts) = Len(h.receipts)
      /\ c.was.pointer \in 0..Len(h.receipts)
  BY <1>1, <1>2, ReceiptsAre DEF SameHistory, TaskKnown
<1>7. Applies(c) => Prepared(c, h)
  BY <1>1 DEF PreparedFollows
<1>8. /\ c.was.pointer <= MineOf(c, h)
      /\ Applies(c) /\ c.was.pointer # 0 =>
           g.receipts[c.was.pointer] = h.receipts[c.was.pointer]
  <2>1. c.was.pointer <= MineOf(c, h)
    BY <1>1, <1>6, <1>7 DEF Prepared, MineOf, TaskKnown
  <2>2. ASSUME Applies(c), c.was.pointer # 0
        PROVE  g.receipts[c.was.pointer] = h.receipts[c.was.pointer]
    <3>1. c.was.pointer \in 1..Len(h.receipts) /\ c.was.pointer # MineOf(c, h)
      BY <1>6, <1>7, <2>2 DEF Prepared, MineOf
    <3> QED  BY <1>2, <3>1 DEF SameHistory
  <2> QED  BY <2>1, <2>2
<1>9. ~c.ask.managed => ~Up(g)
  BY <1>1 DEF Kept, TaskKnown, Up
<1>10. TaskKnown(d, g, m)
  BY <1>1, <1>5, <1>6, <1>8, <1>9 DEF TaskKnown, FinalIn, TextIn
<1>11. PreparedFollows(d, g)
  BY <1>3, <1>5, <1>7 DEF PreparedFollows, SameTerms
<1>12. Founded(g, d.was.pointer, clean)
  BY <1>1, <1>2, <1>5, <1>6, <1>8, FoundedStays
<1>13. /\ \A t \in Service : Group(t) = "service"
       /\ \A t \in Bridge : Group(t) = "bridge"
  BY DEF Group, Service, Bridge
<1>14. /\ \A t : t \in d.todo => t \in c.todo
       /\ \A t, u \in Service : t \in d.todo /\ u \in c.todo => u \in d.todo
       /\ \A t, u \in Bridge : t \in d.todo /\ u \in c.todo => u \in d.todo
  BY <1>13 DEF Skipped
<1>15. TodoFits(d, g, m)
  <2>1. /\ "stop" \in d.todo => "define" \in d.todo
        /\ d.ask.managed /\ "define" \in d.todo => "reload" \in d.todo
        /\ "reload" \in d.todo /\ d.was.active => "start" \in d.todo
    BY <1>1, <1>5, <1>14 DEF TodoFits, Service
  <2>2. /\ "tear" \in d.todo => "seal" \in d.todo
        /\ "seal" \in d.todo => "sign" \in d.todo
    BY <1>1, <1>14 DEF TodoFits, Bridge
  <2>3. /\ ~d.ask.managed => d.todo \cap {"stop", "reload", "start"} = {}
        /\ m = "none" => "define" \notin d.todo
        /\ ~HasTask(d, g) => d.todo \cap Bridge = {}
        /\ "start" \in d.todo => d.was.active
    BY <1>1, <1>5, <1>14 DEF TodoFits
  <2> QED  BY <1>5, <2>1, <2>2, <2>3 DEF TodoFits
<1>16. TouchedFits(d, g, m) /\ TextFollows(d, g, m) /\ StatusFollows(d, g)
  BY <1>5 DEF TouchedFits, TextFollows, StatusFollows
<1>17. PointerFollows(d, g)
  BY <1>1, <1>3, <1>5 DEF PointerFollows, Kept, SameTerms
<1>18. ServiceFollows(d, g, m)
  <2> SUFFICES ASSUME c.ask.managed, "stop" \notin d.todo, "define" \in d.todo PROVE ~Up(g)
    BY <1>5 DEF ServiceFollows
  <2>1. Group(s) # "service" /\ "define" \in c.todo /\ "stop" \notin c.todo
    BY <1>13, <1>14 DEF Skipped, Service
  <2>2. g.running = h.running
    BY <1>13, <2>1 DEF Kept, Service
  <2> QED  BY <1>1, <2>1, <2>2 DEF ServiceFollows, Up
<1>19. BridgeFollows(d, g)
  BY <1>1, <1>5 DEF BridgeFollows, Kept
<1>20. ASSUME clean PROVE CleanFollows(d, g)
  <2>1. Applies(c) /\ c.was.pointer # 0 => Bears(g, c.was.pointer, c.was.bridge)
    BY <1>1, <1>8, <1>20 DEF CleanFollows, Bears
  <2>2. c.ask.op = "rollback" =>
          c.was.bridge = IF ReceiptOf(d, g).bridge THEN ReceiptOf(d, g).release
                                                   ELSE ReceiptOf(d, g).priorBridge
    BY <1>1, <1>3, <1>4, <1>20 DEF CleanFollows, SameTerms, Kept
  <2> QED  BY <1>5, <2>1, <2>2 DEF CleanFollows
<1> QED
  BY <1>10, <1>11, <1>12, <1>15, <1>16, <1>17, <1>18, <1>19, <1>20 DEF TaskFollows

\* A bridge transaction that has begun to undo itself.
LEMMA UndoFollows ==
  ASSUME NEW c \in CliSet, NEW d, NEW h, NEW g, NEW m, NEW s \in Bridge, NEW clean \in BOOLEAN,
         HostShape(h), HostFits(h, m), c.at = "working",
         TaskFollows(c, h, m, clean), InTurn(c, h, s),
         g = h \/ Effect(c, h, m, s, g), s = "tear" => g # h,
         ~c.back /\ ~Applies(c) /\ s = "tear" => h.bridge = ReceiptOf(c, h).release,
         d = [c EXCEPT !.at = "undoing"]
  PROVE  TaskFollows(d, g, m, clean) /\ HostFits(g, m)
<1>1. /\ TaskKnown(c, h, m) /\ PreparedFollows(c, h) /\ TodoFits(c, h, m)
      /\ TouchedFits(c, h, m) /\ PointerFollows(c, h) /\ TextFollows(c, h, m)
      /\ ServiceFollows(c, h, m) /\ BridgeFollows(c, h) /\ StatusFollows(c, h)
      /\ (clean => CleanFollows(c, h)) /\ Founded(h, c.was.pointer, clean)
  BY DEF TaskFollows
<1>2. /\ d.ask = c.ask /\ d.was = c.was /\ d.at = "undoing" /\ d.back = c.back
      /\ d.todo = c.todo /\ d.touched = c.touched /\ (Applies(d) <=> Applies(c))
      /\ (Vouched(d) <=> Vouched(c)) /\ SameTask(c, d)
  BY DEF CliSet, Applies, Vouched, SameTask
<1>3. /\ MineOf(c, h) \in 1..Len(h.receipts) /\ InOrder(c.todo, s)
      /\ ~c.back /\ Applies(c) => "prepare" \notin c.todo
      /\ c.ask.op # "uninstall"
  BY DEF InTurn
<1>4. /\ SameHistory(h, g, MineOf(c, h)) /\ g.pointer = h.pointer /\ g.text = h.text
      /\ g.running = h.running /\ (s # "seal" /\ s # "tear" => g.bridge = h.bridge)
      /\ ReceiptOf(c, g).status = ReceiptOf(c, h).status
      /\ ReceiptOf(c, g).bridge = ReceiptOf(c, h).bridge
  <2>1. s \in {"tear", "seal", "sign"}
    BY DEF Bridge
  <2>2. CASE g = h
    BY <2>2, SameReceipts
  <2>3. CASE Effect(c, h, m, s, g)
    BY <2>1, <2>3 DEF Effect
  <2> QED  BY <2>2, <2>3
<1>5. SameTerms(c, h, d, g)
  BY <1>2, <1>3, <1>4, HistoryGivesTerms
<1>6. ReceiptOf(d, g) = ReceiptOf(c, g)
  BY <1>4, <1>5 DEF SameTerms, SameHistory, MineOf, ReceiptOf
<1>7. (HasTask(d, g) <=> HasTask(c, h)) /\ HasTask(c, h)
  <2>1. HasTask(c, h)
    BY <1>1, <1>3 DEF TodoFits, InOrder
  <2> QED  BY <1>2, <1>4, <1>6, <2>1 DEF HasTask, Has
<1>8. HostFits(g, m)
  <2>1. Undone(c, h, g)
    BY <1>4 DEF Undone
  <2> QED  BY <2>1, UndoneFits
<1>9. Len(h.receipts) \in Nat /\ Len(g.receipts) = Len(h.receipts)
      /\ c.was.pointer \in 0..Len(h.receipts)
  BY <1>1, <1>4, ReceiptsAre DEF SameHistory, TaskKnown
<1>10. Applies(c) => Prepared(c, h)
  BY <1>1, <1>3 DEF PreparedFollows, InOrder
<1>11. /\ c.was.pointer <= MineOf(c, h)
       /\ Applies(c) /\ c.was.pointer # 0 =>
            g.receipts[c.was.pointer] = h.receipts[c.was.pointer]
  <2>1. c.was.pointer <= MineOf(c, h)
    BY <1>1, <1>9, <1>10 DEF Prepared, MineOf, TaskKnown
  <2>2. ASSUME Applies(c), c.was.pointer # 0
        PROVE  g.receipts[c.was.pointer] = h.receipts[c.was.pointer]
    <3>1. c.was.pointer \in 1..Len(h.receipts) /\ c.was.pointer # MineOf(c, h)
      BY <1>9, <1>10, <2>2 DEF Prepared, MineOf
    <3> QED  BY <1>4, <3>1 DEF SameHistory
  <2> QED  BY <2>1, <2>2
<1>12. TaskKnown(d, g, m)
  BY <1>1, <1>2, <1>4, <1>9, <1>11 DEF TaskKnown, FinalIn, TextIn, Up
<1>13. PreparedFollows(d, g)
  BY <1>2, <1>5, <1>10 DEF PreparedFollows, SameTerms
<1>14. Founded(g, d.was.pointer, clean)
  BY <1>1, <1>2, <1>4, <1>3, <1>9, <1>11, FoundedStays
<1>15. "sign" \in c.todo /\ (c.back \/ "prepare" \notin c.todo)
  <2>1. "sign" \in c.todo
    BY <1>1, <1>3 DEF TodoFits, InOrder, Bridge
  <2>2. ~c.back => "prepare" \notin c.todo
    BY <1>1, <1>3 DEF TodoFits
  <2> QED  BY <2>1, <2>2
<1>16. TodoFits(d, g, m)
  BY <1>1, <1>2, <1>5, <1>7, <1>15 DEF TodoFits, SameTerms, BeforeBridge
<1>17. TouchedFits(d, g, m)
  BY <1>1, <1>2, <1>4, <1>7 DEF TouchedFits, Up
<1>18. PointerFollows(d, g) /\ TextFollows(d, g, m) /\ ServiceFollows(d, g, m)
  <2>1. PointerFollows(d, g)
    BY <1>1, <1>2, <1>4, <1>5 DEF PointerFollows, SameTerms
  <2>2. TextFollows(d, g, m)
    BY <1>1, <1>2, <1>4, <1>5 DEF TextFollows, SameTerms
  <2>3. ServiceFollows(d, g, m)
    BY <1>1, <1>2, <1>4, <1>5 DEF ServiceFollows, SameTerms, Up, LaunchdUp
  <2> QED  BY <2>1, <2>2, <2>3
<1>19. BridgeFollows(d, g)
  <2> SUFFICES ASSUME ~c.back
               PROVE  /\ ~Applies(c) => c.was.bridge = ReceiptOf(c, h).release
                      /\ "seal" \notin c.todo => g.bridge = EndIn(c, h, Applies(c)).bridge
    <3>1. /\ ReceiptOf(d, g).release = ReceiptOf(c, h).release
          /\ ReceiptOf(d, g).priorBridge = ReceiptOf(c, h).priorBridge
      BY <1>5 DEF SameTerms
    <3>2. EndIn(d, g, Applies(d)).bridge = EndIn(c, h, Applies(c)).bridge
      <4>1. CASE Applies(c)
        BY <1>2, <3>1, <4>1 DEF EndIn
      <4>2. CASE ~Applies(c)
        BY <1>2, <3>1, <4>2 DEF EndIn
      <4> QED  BY <4>1, <4>2
    <3> QED  BY <1>2, <1>7, <1>15, <3>1, <3>2 DEF BridgeFollows
  <2>1. ~Applies(c) => c.was.bridge = ReceiptOf(c, h).release
    <3>1. CASE "tear" \in c.todo
      <4>1. s = "tear"
        BY <1>3, <3>1 DEF InOrder, Bridge
      <4> QED  BY <1>1, <1>7, <3>1, <4>1 DEF BridgeFollows
    <3>2. CASE "tear" \notin c.todo
      BY <1>1, <1>7, <3>2 DEF BridgeFollows
    <3> QED  BY <3>1, <3>2
  <2>2. "seal" \notin c.todo => g.bridge = EndIn(c, h, Applies(c)).bridge
    <3> SUFFICES ASSUME "seal" \notin c.todo PROVE g.bridge = EndIn(c, h, Applies(c)).bridge
      OBVIOUS
    <3>1. s # "seal" /\ s # "tear"
      BY <1>1, <1>3 DEF InOrder, TodoFits
    <3> QED  BY <1>1, <1>4, <1>7, <3>1 DEF BridgeFollows
  <2> QED  BY <2>1, <2>2
<1>20. StatusFollows(d, g)
  BY <1>1, <1>2, <1>4, <1>6 DEF StatusFollows
<1>21. ASSUME clean PROVE CleanFollows(d, g)
  <2>1. Applies(c) /\ c.was.pointer # 0 => Bears(g, c.was.pointer, c.was.bridge)
    BY <1>1, <1>11, <1>21 DEF CleanFollows, Bears
  <2>2. c.ask.op = "rollback" =>
          c.was.bridge = IF ReceiptOf(d, g).bridge THEN ReceiptOf(d, g).release
                                                   ELSE ReceiptOf(d, g).priorBridge
    BY <1>1, <1>4, <1>5, <1>6, <1>21 DEF CleanFollows, SameTerms
  <2> QED  BY <1>2, <1>3, <2>1, <2>2 DEF CleanFollows
<1> QED
  BY <1>8, <1>12, <1>13, <1>14, <1>16, <1>17, <1>18, <1>19, <1>20, <1>21 DEF TaskFollows

-----------------------------------------------------------------------------
(* The words of the specification, for the command line p.                 *)

KnownOp(c) == c.ask.op \in Apply \cup {"rollback", "uninstall"}

LEMMA Words ==
  ASSUME NEW p, cli[p] \in CliSet, KnownOp(cli[p])
  PROVE  /\ Mine(p) = MineOf(cli[p], host)
         /\ \A i : TextOf(i) = TextIn(host, manager, i)
         /\ Forward(p).pointer = NextPointer(cli[p], host)
         /\ Forward(p).text = NextText(cli[p], host, manager)
<1>1. Mine(p) = MineOf(cli[p], host)
  BY DEF Mine, MineOf, Applies
<1>2. \A i : TextOf(i) = TextIn(host, manager, i)
  BY DEF TextOf, TextIn
<1> DEFINE k == Mine(p)
<1>3. CASE Applies(cli[p])
  <2>1. Forward(p) = [pointer |-> k, text |-> TextOf(k)]
    <3>1. cli[p].ask.op \in Apply /\ cli[p].ask.op # "rollback" /\ cli[p].ask.op # "uninstall"
      BY <1>3 DEF Applies, Apply
    <3> QED  BY <3>1 DEF Forward
  <2>2. k = Len(host.receipts)
    BY <1>1, <1>3 DEF MineOf
  <2> HIDE DEF k
  <2>3. Forward(p).pointer = k /\ Forward(p).text = TextOf(k)
    BY <2>1
  <2> QED  BY <1>1, <1>2, <1>3, <2>2, <2>3 DEF NextPointer, NextText, k
<1>4. CASE cli[p].ask.op = "rollback"
  <2>1. ~Applies(cli[p])
    BY <1>4 DEF Applies, Apply
  <2>2. Forward(p) = [pointer |-> host.receipts[k].prev, text |-> host.receipts[k].priorText]
    BY <1>4, <2>1 DEF Forward, Applies
  <2>3. host.receipts[k] = ReceiptOf(cli[p], host)
    BY <1>1 DEF ReceiptOf
  <2> HIDE DEF k
  <2>4. Forward(p).pointer = ReceiptOf(cli[p], host).prev
        /\ Forward(p).text = ReceiptOf(cli[p], host).priorText
    BY <2>2, <2>3
  <2> QED  BY <1>1, <1>2, <1>4, <2>1, <2>4 DEF NextPointer, NextText
<1>5. CASE cli[p].ask.op = "uninstall"
  <2>1. ~Applies(cli[p])
    BY <1>5 DEF Applies, Apply
  <2>2. Forward(p) = [pointer |-> 0, text |-> Nothing]
    BY <1>5, <2>1 DEF Forward, Applies
  <2>3. Forward(p).pointer = 0 /\ Forward(p).text = Nothing
    BY <2>2
  <2> QED  BY <1>1, <1>2, <1>5, <2>1, <2>3 DEF NextPointer, NextText
<1> QED  BY <1>3, <1>4, <1>5 DEF KnownOp, Applies

LEMMA GoalWords ==
  ASSUME NEW p, cli[p] \in CliSet, KnownOp(cli[p])
  PROVE  /\ Goal(p).pointer = IF cli[p].back THEN cli[p].was.pointer
                              ELSE NextPointer(cli[p], host)
         /\ Goal(p).text = IF cli[p].back THEN cli[p].was.text
                           ELSE NextText(cli[p], host, manager)
         /\ Goal(p).status = IF cli[p].back THEN cli[p].ask.status
                             ELSE GoalStatus(cli[p].ask.op)
<1>1. CASE cli[p].back
  BY <1>1 DEF Goal
<1>2. CASE ~cli[p].back
  <2>1. Goal(p).pointer = Forward(p).pointer /\ Goal(p).text = Forward(p).text
        /\ Goal(p).status = GoalStatus(cli[p].ask.op)
    BY <1>2 DEF Goal
  <2> QED  BY <1>2, <2>1, Words
<1> QED  BY <1>1, <1>2

\* The end a bridge transaction comes from.
FromEnd(c, h) == EndIn(c, h, IF c.back THEN Applies(c) ELSE ~Applies(c))

LEMMA BridgeWords ==
  ASSUME NEW p, cli[p] \in CliSet, KnownOp(cli[p])
  PROVE  /\ End(p, ToNew(p)).bridge = GoalEnd(cli[p], host).bridge
         /\ End(p, ToNew(p)).hstatus = GoalEnd(cli[p], host).hstatus
         /\ End(p, ~ToNew(p)).bridge = FromEnd(cli[p], host).bridge
         /\ End(p, ~ToNew(p)).hstatus = FromEnd(cli[p], host).hstatus
<1> DEFINE c == cli[p]
           r == host.receipts[Mine(p)]
<1>1. r = ReceiptOf(c, host)
  <2>1. Mine(p) = MineOf(c, host)
    BY Words
  <2> QED  BY <2>1 DEF ReceiptOf
<1>2. \A new \in BOOLEAN :
        /\ End(p, new).bridge = IF new THEN r.release ELSE r.priorBridge
        /\ End(p, new).hstatus = IF new THEN "installed" ELSE "rolled-back"
        /\ EndIn(c, host, new).bridge = IF new THEN r.release ELSE r.priorBridge
        /\ EndIn(c, host, new).hstatus = IF new THEN "installed" ELSE "rolled-back"
  BY <1>1 DEF End, EndIn
<1>3. (ToNew(p) <=> ~(Applies(c) <=> c.back)) /\ ToNew(p) \in BOOLEAN /\ c.back \in BOOLEAN
      /\ Applies(c) \in BOOLEAN
  BY DEF ToNew, Applies, CliSet
<1> HIDE DEF c, r
<1>4. CASE ToNew(p)
  <2>1. (IF c.back THEN ~Applies(c) ELSE Applies(c)) = TRUE
        /\ (IF c.back THEN Applies(c) ELSE ~Applies(c)) = FALSE
    BY <1>3, <1>4
  <2>2. GoalEnd(c, host) = EndIn(c, host, TRUE) /\ FromEnd(c, host) = EndIn(c, host, FALSE)
    BY <2>1 DEF GoalEnd, FromEnd
  <2>3. ToNew(p) = TRUE /\ (~ToNew(p)) = FALSE
    BY <1>3, <1>4
  <2> QED  BY <1>2, <2>2, <2>3 DEF c
<1>5. CASE ~ToNew(p)
  <2>1. (IF c.back THEN ~Applies(c) ELSE Applies(c)) = FALSE
        /\ (IF c.back THEN Applies(c) ELSE ~Applies(c)) = TRUE
    BY <1>3, <1>5
  <2>2. GoalEnd(c, host) = EndIn(c, host, FALSE) /\ FromEnd(c, host) = EndIn(c, host, TRUE)
    BY <2>1 DEF GoalEnd, FromEnd
  <2>3. ToNew(p) = FALSE /\ (~ToNew(p)) = TRUE
    BY <1>3, <1>5
  <2> QED  BY <1>2, <2>2, <2>3 DEF c
<1> QED  BY <1>4, <1>5

-----------------------------------------------------------------------------
(* What each step makes of the machine.                                    *)

LEMMA SimpleEffects ==
  ASSUME NEW c, NEW h, NEW m, HostShape(h), NEW g
  PROVE  /\ g = h => HostShape(g) /\ Effect(c, h, m, "release", g)
         /\ g = [h EXCEPT !.running = Nothing] =>
              HostShape(g) /\ Effect(c, h, m, "stop", g)
         /\ \A t \in Content : g = [h EXCEPT !.text = t]
              /\ t = (IF c.back THEN c.was.text ELSE NextText(c, h, m)) =>
              HostShape(g) /\ Effect(c, h, m, "define", g)
         /\ \A t \in Content : g = [h EXCEPT !.running = t]
              /\ (t # Nothing <=> Up(h) \/ (m = "launchd" /\ h.text # Nothing)) =>
              HostShape(g) /\ Effect(c, h, m, "reload", g)
         /\ \A t \in Content : g = [h EXCEPT !.running = t]
              /\ (t # Nothing <=> Up(h) \/ h.text # Nothing) =>
              HostShape(g) /\ Effect(c, h, m, "start", g)
         /\ \A i \in 0..Len(h.receipts) : g = [h EXCEPT !.pointer = i]
              /\ i = (IF c.back THEN c.was.pointer ELSE NextPointer(c, h)) =>
              HostShape(g) /\ Effect(c, h, m, "point", g)
         /\ g = [h EXCEPT !.bridge = Changed] =>
              HostShape(g) /\ Effect(c, h, m, "tear", g)
         /\ \A b \in Content : g = [h EXCEPT !.bridge = b] /\ b = GoalEnd(c, h).bridge =>
              HostShape(g) /\ Effect(c, h, m, "seal", g)
<1>1. Len(h.receipts) \in Nat
  BY ReceiptsAre
<1>2. ASSUME g.receipts = h.receipts
      PROVE  /\ SameHistory(h, g, MineOf(c, h)) /\ ReceiptOf(c, g) = ReceiptOf(c, h)
  <2>1. MineOf(c, g) = MineOf(c, h)
    BY <1>2 DEF MineOf
  <2> QED  BY <1>2, <2>1, SameReceipts DEF ReceiptOf
<1>3. ASSUME g = h PROVE HostShape(g) /\ Effect(c, h, m, "release", g)
  BY <1>2, <1>3 DEF Effect
<1>4. ASSUME NEW t \in Content, g = [h EXCEPT !.running = t]
      PROVE  /\ HostShape(g) /\ g.running = t /\ g.receipts = h.receipts
             /\ g.pointer = h.pointer /\ g.text = h.text /\ g.bridge = h.bridge
  BY <1>1, <1>4 DEF HostShape
<1>5. Nothing \in Content /\ Changed \in Content
  BY DEF Content
<1>6. ASSUME g = [h EXCEPT !.running = Nothing]
      PROVE  HostShape(g) /\ Effect(c, h, m, "stop", g)
  BY <1>2, <1>4, <1>5, <1>6 DEF Effect, Up
<1>7. ASSUME NEW t \in Content, g = [h EXCEPT !.running = t],
             t # Nothing <=> Up(h) \/ (m = "launchd" /\ h.text # Nothing)
      PROVE  HostShape(g) /\ Effect(c, h, m, "reload", g)
  BY <1>2, <1>4, <1>7 DEF Effect, Up
<1>8. ASSUME NEW t \in Content, g = [h EXCEPT !.running = t],
             t # Nothing <=> Up(h) \/ h.text # Nothing
      PROVE  HostShape(g) /\ Effect(c, h, m, "start", g)
  BY <1>2, <1>4, <1>8 DEF Effect, Up
<1>9. ASSUME NEW t \in Content, g = [h EXCEPT !.text = t],
             t = IF c.back THEN c.was.text ELSE NextText(c, h, m)
      PROVE  HostShape(g) /\ Effect(c, h, m, "define", g)
  <2>1. /\ HostShape(g) /\ g.text = t /\ g.receipts = h.receipts
        /\ g.pointer = h.pointer /\ g.running = h.running /\ g.bridge = h.bridge
    BY <1>1, <1>9 DEF HostShape
  <2> QED  BY <1>2, <1>9, <2>1 DEF Effect
<1>10. ASSUME NEW i \in 0..Len(h.receipts), g = [h EXCEPT !.pointer = i],
              i = IF c.back THEN c.was.pointer ELSE NextPointer(c, h)
       PROVE  HostShape(g) /\ Effect(c, h, m, "point", g)
  <2>1. i \in Nat
    BY <1>1
  <2>2. /\ HostShape(g) /\ g.pointer = i /\ g.receipts = h.receipts
        /\ g.text = h.text /\ g.running = h.running /\ g.bridge = h.bridge
    BY <1>1, <1>10, <2>1 DEF HostShape
  <2> QED  BY <1>2, <1>10, <2>2 DEF Effect
<1>11. ASSUME NEW b \in Content, g = [h EXCEPT !.bridge = b]
       PROVE  /\ HostShape(g) /\ g.bridge = b /\ g.receipts = h.receipts
              /\ g.pointer = h.pointer /\ g.text = h.text /\ g.running = h.running
  BY <1>1, <1>11 DEF HostShape
<1>12. ASSUME g = [h EXCEPT !.bridge = Changed]
       PROVE  HostShape(g) /\ Effect(c, h, m, "tear", g)
  BY <1>2, <1>5, <1>11, <1>12 DEF Effect
<1>13. ASSUME NEW b \in Content, g = [h EXCEPT !.bridge = b], b = GoalEnd(c, h).bridge
       PROVE  HostShape(g) /\ Effect(c, h, m, "seal", g)
  BY <1>2, <1>11, <1>13 DEF Effect
<1> QED  BY <1>3, <1>6, <1>7, <1>8, <1>9, <1>10, <1>12, <1>13

LEMMA ReceiptEffects ==
  ASSUME NEW c, NEW h, NEW m, HostShape(h), NEW g, NEW k, k = MineOf(c, h),
         k \in 1..Len(h.receipts)
  PROVE  /\ g = [h EXCEPT !.receipts[k].bridge = TRUE] =>
              HostShape(g) /\ Effect(c, h, m, "note", g)
         /\ \A t \in Status : g = [h EXCEPT !.receipts[k].status = t]
              /\ t = (IF c.back THEN c.ask.status ELSE GoalStatus(c.ask.op)) =>
              HostShape(g) /\ Effect(c, h, m, "finish", g)
         /\ \A t \in {"none", "installed", "rolled-back"} :
              g = [h EXCEPT !.receipts[k].hstatus = t] /\ t = GoalEnd(c, h).hstatus =>
              HostShape(g) /\ Effect(c, h, m, "sign", g)
<1> DEFINE r == h.receipts[k]
<1>1. r \in ReceiptSet
  BY ReceiptsAre
<1>2. ASSUME NEW q \in ReceiptSet, g = [h EXCEPT !.receipts = [@ EXCEPT ![k] = q]],
             q.release = r.release, q.prev = r.prev, q.priorText = r.priorText,
             q.priorActive = r.priorActive, q.priorBridge = r.priorBridge
      PROVE  /\ HostShape(g) /\ SameHistory(h, g, k) /\ ReceiptOf(c, g) = q
             /\ g.pointer = h.pointer /\ g.text = h.text /\ g.running = h.running
             /\ g.bridge = h.bridge
  <2>1. /\ HostShape(g) /\ SameHistory(h, g, k) /\ g.receipts[k] = q
        /\ g.pointer = h.pointer /\ g.text = h.text /\ g.running = h.running
        /\ g.bridge = h.bridge
    BY <1>2, EditedReceipt
  <2>2. MineOf(c, g) = k
    BY <2>1 DEF SameHistory, MineOf
  <2> QED  BY <2>1, <2>2 DEF ReceiptOf
<1>3. ReceiptOf(c, h) = r
  BY DEF ReceiptOf
<1>4. ASSUME g = [h EXCEPT !.receipts[k].bridge = TRUE]
      PROVE  HostShape(g) /\ Effect(c, h, m, "note", g)
  <2>1. PICK q : q = [r EXCEPT !.bridge = TRUE]
    OBVIOUS
  <2>2. q \in ReceiptSet
    BY <1>1, <2>1 DEF ReceiptSet
  <2>3. /\ q.release = r.release /\ q.prev = r.prev /\ q.priorText = r.priorText
        /\ q.priorActive = r.priorActive /\ q.priorBridge = r.priorBridge
        /\ q.status = r.status /\ q.hstatus = r.hstatus /\ q.bridge = TRUE
    BY <1>1, <2>1 DEF ReceiptSet
  <2>4. g = [h EXCEPT !.receipts = [@ EXCEPT ![k] = q]]
    BY <1>4, <2>1
  <2> HIDE DEF r
  <2>5. /\ HostShape(g) /\ SameHistory(h, g, k) /\ ReceiptOf(c, g) = q
        /\ g.pointer = h.pointer /\ g.text = h.text /\ g.running = h.running
        /\ g.bridge = h.bridge
    BY <1>2, <2>2, <2>3, <2>4
  <2> QED  BY <1>3, <2>3, <2>5 DEF Effect
<1>5. ASSUME NEW t \in Status, g = [h EXCEPT !.receipts[k].status = t],
             t = IF c.back THEN c.ask.status ELSE GoalStatus(c.ask.op)
      PROVE  HostShape(g) /\ Effect(c, h, m, "finish", g)
  <2>1. PICK q : q = [r EXCEPT !.status = t]
    OBVIOUS
  <2>2. q \in ReceiptSet
    BY <1>1, <2>1 DEF ReceiptSet
  <2>3. /\ q.release = r.release /\ q.prev = r.prev /\ q.priorText = r.priorText
        /\ q.priorActive = r.priorActive /\ q.priorBridge = r.priorBridge
        /\ q.status = t /\ q.hstatus = r.hstatus /\ q.bridge = r.bridge
    BY <1>1, <2>1 DEF ReceiptSet
  <2>4. g = [h EXCEPT !.receipts = [@ EXCEPT ![k] = q]]
    BY <1>5, <2>1
  <2> HIDE DEF r
  <2>5. /\ HostShape(g) /\ SameHistory(h, g, k) /\ ReceiptOf(c, g) = q
        /\ g.pointer = h.pointer /\ g.text = h.text /\ g.running = h.running
        /\ g.bridge = h.bridge
    BY <1>2, <2>2, <2>3, <2>4
  <2> QED  BY <1>3, <1>5, <2>3, <2>5 DEF Effect
<1>6. ASSUME NEW t \in {"none", "installed", "rolled-back"},
             g = [h EXCEPT !.receipts[k].hstatus = t], t = GoalEnd(c, h).hstatus
      PROVE  HostShape(g) /\ Effect(c, h, m, "sign", g)
  <2>1. PICK q : q = [r EXCEPT !.hstatus = t]
    OBVIOUS
  <2>2. q \in ReceiptSet
    BY <1>1, <2>1 DEF ReceiptSet
  <2>3. /\ q.release = r.release /\ q.prev = r.prev /\ q.priorText = r.priorText
        /\ q.priorActive = r.priorActive /\ q.priorBridge = r.priorBridge
        /\ q.status = r.status /\ q.hstatus = t /\ q.bridge = r.bridge
    BY <1>1, <2>1 DEF ReceiptSet
  <2>4. g = [h EXCEPT !.receipts = [@ EXCEPT ![k] = q]]
    BY <1>6, <2>1
  <2> HIDE DEF r
  <2>5. /\ HostShape(g) /\ SameHistory(h, g, k) /\ ReceiptOf(c, g) = q
        /\ g.pointer = h.pointer /\ g.text = h.text /\ g.running = h.running
        /\ g.bridge = h.bridge
    BY <1>2, <2>2, <2>3, <2>4
  <2> QED  BY <1>3, <1>6, <2>3, <2>5 DEF Effect
<1> QED  BY <1>4, <1>5, <1>6

-----------------------------------------------------------------------------
(* A command at work changes its own record only.                          *)

\* The step turns the record of p into d, and the machine into what d accounts for.
WorksOn(p, d) ==
  /\ cli' = [cli EXCEPT ![p] = d] /\ d \in CliSet /\ d.at \in {"working", "undoing"}
  /\ HostShape(host') /\ HostFits(host', manager)
  /\ TaskFollows(d, host', manager, ~tainted)
  /\ Len(host'.receipts) >= Len(host.receipts)
  /\ UNCHANGED <<lock, manager, tainted>> /\ mishaps' \in 0..MaxMishaps

LEMMA WorkKeeps ==
  ASSUME ConstantsOK, IInv, NEW p \in Procs, Holds(p), NEW d, WorksOn(p, d)
  PROVE  IInv'
<1>0. /\ cli' = [cli EXCEPT ![p] = d] /\ d \in CliSet /\ d.at \in {"working", "undoing"}
      /\ HostShape(host') /\ HostFits(host', manager)
      /\ TaskFollows(d, host', manager, ~tainted)
      /\ Len(host'.receipts) >= Len(host.receipts)
      /\ UNCHANGED <<lock, manager, tainted>> /\ mishaps' \in 0..MaxMishaps
  BY DEF WorksOn
<1>1. Shape /\ TasksFollow
  BY DEF IInv
<1>2. cli \in [Procs -> CliSet] /\ lock = p /\ lock \in Procs \cup {"free", "stale"}
      /\ manager \in Managers /\ tainted \in BOOLEAN
  BY <1>0, <1>1 DEF Shape
<1>3. cli'[p] = d /\ \A q \in Procs : q # p => cli'[q] = cli[q]
  BY <1>0, <1>2
<1>4. \A q \in Procs : Holds(q) <=> lock = q
  BY <1>0, <1>1 DEF Shape
<1>5. \A q \in Procs : cli'[q].at \in {"working", "undoing"} <=> lock = q
  BY <1>0, <1>2, <1>3, <1>4 DEF Holds
<1>6. Shape'
  <2>1. cli' \in [Procs -> CliSet]
    BY <1>0, <1>2
  <2> QED  BY <1>0, <1>2, <1>5, <2>1 DEF Shape, Holds
<1>7. Len(host.receipts) \in Nat /\ Len(host'.receipts) \in Nat
  BY <1>0, <1>1, ReceiptsAre DEF Shape
<1>8. TasksFollow'
  <2> SUFFICES ASSUME NEW q \in Procs
               PROVE  /\ cli'[q].at = "asked" => AskFits(cli'[q], host', manager')
                      /\ cli'[q].at \notin {"working", "undoing"} =>
                           cli'[q] = [Idle EXCEPT !.at = cli'[q].at, !.ask = cli'[q].ask]
                      /\ cli'[q].at \in {"working", "undoing"} =>
                           TaskFollows(cli'[q], host', manager', ~tainted')
    BY DEF TasksFollow, Holds
  <2>1. CASE q = p
    BY <1>0, <1>3, <2>1
  <2>2. CASE q # p
    <3>1. cli'[q] = cli[q] /\ cli[q].at \notin {"working", "undoing"}
      BY <1>0, <1>2, <1>3, <1>4, <2>2 DEF Holds
    <3>2. /\ cli[q].at = "asked" => AskFits(cli[q], host, manager)
          /\ cli[q] = [Idle EXCEPT !.at = cli[q].at, !.ask = cli[q].ask]
      BY <1>0, <1>1, <3>1 DEF TasksFollow, Holds
    <3>3. cli[q].at = "asked" => AskFits(cli[q], host', manager)
      BY <1>0, <1>7, <3>2 DEF AskFits
    <3> QED  BY <1>0, <3>1, <3>2, <3>3
  <2> QED  BY <1>0, <2>1, <2>2
<1>9. RestsWell'
  <2>1. lock \notin {"free", "stale"}
    BY <1>0, <1>2 DEF ConstantsOK
  <2> QED  BY <1>0, <2>1 DEF RestsWell
<1> QED  BY <1>0, <1>6, <1>8, <1>9 DEF IInv

\* What is known of a command at work.
Working(c, h, m, clean) ==
  /\ c \in CliSet /\ KnownOp(c) /\ HostShape(h) /\ HostFits(h, m)
  /\ TaskFollows(c, h, m, clean) /\ clean \in BOOLEAN

LEMMA AtWork ==
  ASSUME IInv, NEW p \in Procs, cli[p].at \in {"working", "undoing"}
  PROVE  Working(cli[p], host, manager, ~tainted) /\ Holds(p)
<1>1. Holds(p)
  BY DEF Holds
<1>2. TaskFollows(cli[p], host, manager, ~tainted)
  BY <1>1 DEF IInv, TasksFollow
<1>3. KnownOp(cli[p])
  BY <1>2 DEF TaskFollows, TaskKnown, KnownOp
<1> QED  BY <1>1, <1>2, <1>3 DEF IInv, Shape, Working

LEMMA AtTurn ==
  ASSUME NEW c, NEW h, NEW m, NEW clean, Working(c, h, m, clean), NEW s \in AllSteps,
         Next1(c, s)
  PROVE  /\ s # "prepare" => InTurn(c, h, s)
         /\ s = "prepare" => ~c.back /\ Applies(c) /\ "prepare" \in c.todo
<1>1. /\ TaskKnown(c, h, m) /\ PreparedFollows(c, h) /\ TodoFits(c, h, m) /\ c \in CliSet
      /\ HostShape(h) /\ KnownOp(c)
  BY DEF Working, TaskFollows
<1>2. CASE c.back
  <2>1. /\ InOrder(c.todo, s)
        /\ c.ask.op # "uninstall" /\ s \in BackSteps \cup {"finish"}
        /\ s = "finish" => c.ask.op = "rollback"
    <3>1. c.back = TRUE
      BY <1>1, <1>2 DEF CliSet
    <3> QED  BY <1>1, <3>1, NextBack DEF KnownOp
  <2>2. s \notin {"prepare", "release", "note"}
    BY <2>1 DEF BackSteps, Service, Bridge
  <2>3. MineOf(c, h) \in 1..Len(h.receipts)
    BY <1>1, <1>2, <2>1, MineIsThere DEF InOrder
  <2> QED  BY <1>2, <2>1, <2>2, <2>3 DEF InTurn
<1>3. CASE ~c.back
  <2>1. /\ InOrder(c.todo, s)
        /\ Applies(c) /\ s # "prepare" => "prepare" \notin c.todo
        /\ s \in {"prepare", "release", "note"} => Applies(c)
        /\ s \in Bridge => c.ask.op # "uninstall"
        /\ s = "tear" => BeforeBridge(c) \notin c.todo
        /\ "sign" \in c.todo /\ s \notin Bridge /\ c.ask.op # "uninstall" =>
             s \in {"prepare", BeforeBridge(c)}
    <3>1. c.back = FALSE
      BY <1>1, <1>3 DEF CliSet
    <3> QED  BY <1>1, <3>1, NextForward DEF KnownOp
  <2>2. CASE s = "prepare"
    BY <1>3, <2>1, <2>2 DEF InOrder
  <2>3. CASE s # "prepare"
    <3>1. "prepare" \notin c.todo
      BY <1>1, <1>3, <2>1, <2>3 DEF TodoFits
    <3>2. MineOf(c, h) \in 1..Len(h.receipts)
      BY <1>1, <2>1, <3>1, MineIsThere DEF InOrder
    <3> QED  BY <1>3, <2>1, <2>3, <3>1, <3>2 DEF InTurn
  <2> QED  BY <2>2, <2>3
<1> QED  BY <1>2, <1>3

-----------------------------------------------------------------------------
(* The record of the command line after a step.                            *)

Groups == {"service", "bridge", "pointer", "receipt"}

LEMMA GroupsAre == \A s : Group(s) \in Groups
BY DEF Group, Groups, Service, Bridge

LEMMA ReturnedRecord ==
  ASSUME NEW c \in CliSet, NEW s, NEW d,
         d = [c EXCEPT !.todo = @ \ {s},
                       !.touched = IF MarkedAfter(s) /\ ~c.back
                                   THEN @ \cup {Group(s)} ELSE @]
  PROVE  d \in CliSet /\ Stepped(c, d, s)
<1>1. Group(s) \in {"service", "bridge", "pointer", "receipt"}
  BY GroupsAre DEF Groups
<1>2. d \in CliSet
  BY <1>1 DEF CliSet
<1>3. Stepped(c, d, s)
  BY DEF Stepped, SameTask, CliSet
<1> QED  BY <1>2, <1>3

AskSet ==
  [op : Apply \cup {"none", "rollback", "uninstall"},
   release : Releases \cup {Nothing}, hermes : BOOLEAN,
   managed : BOOLEAN, mine : Nat, status : Final \cup {"none"}]

LEMMA Records ==
  CliSet = [at : {"idle", "asked", "working", "undoing"}, ask : AskSet,
            todo : SUBSET AllSteps, back : BOOLEAN, was : {Nothing} \cup WasSet,
            touched : SUBSET Groups, blame : BOOLEAN, unseen : BOOLEAN]
BY DEF CliSet, AskSet, AllSteps, WasSet, Groups

SkippedAs(c, d, s) ==
  /\ d \in CliSet /\ SameTask(c, d) /\ d.back = TRUE /\ d.at = c.at
  /\ d.blame = TRUE /\ d.todo = {t \in c.todo : Group(t) # Group(s)}

LEMMA SkippedRecord ==
  ASSUME NEW c \in CliSet, NEW s, NEW d, d = Skip(c, s), c.back
  PROVE  SkippedAs(c, d, s)
<1> DEFINE left == {t \in c.todo : Group(t) # Group(s)}
<1>1. d = [c EXCEPT !.blame = TRUE, !.todo = left]
  BY DEF Skip
<1>2. left \subseteq c.todo
  OBVIOUS
<1> HIDE DEF left
<1>3. c.todo \in SUBSET AllSteps
  BY Records
<1>4. d \in CliSet
  BY <1>1, <1>2, <1>3, Records
<1>5. /\ SameTask(c, d) /\ d.back = TRUE /\ d.at = c.at /\ d.blame = TRUE
      /\ d.todo = left
  BY <1>1, Records DEF SameTask
<1> QED  BY <1>4, <1>5 DEF SkippedAs, left

CaughtAs(c, d, s, missed) ==
  /\ d \in CliSet /\ SameTask(c, d) /\ d.back = TRUE /\ d.at = c.at
  /\ d.blame = c.blame /\ (d.unseen <=> missed /\ Applies(c))
  /\ d.todo = IF s = "prepare" THEN {}
              ELSE {t \in Steps(BackPath(c.ask.op)) : TakesBack(c, MarkedBy(c, s), t)}

LEMMA CaughtRecord ==
  ASSUME NEW c \in CliSet, NEW s, NEW missed \in BOOLEAN, NEW d, d = Catch(c, s, missed),
         KnownOp(c)
  PROVE  CaughtAs(c, d, s, missed)
<1> DEFINE marked == MarkedBy(c, s)
           todo == IF s = "prepare" THEN {}
                   ELSE {t \in Steps(BackPath(c.ask.op)) : TakesBack(c, marked, t)}
<1>1. d = [c EXCEPT !.back = TRUE, !.touched = marked,
                    !.unseen = missed /\ c.ask.op \in Apply, !.todo = todo]
  BY DEF Catch, MarkedBy
<1>2. marked \subseteq Groups
  BY GroupsAre DEF MarkedBy, CliSet, Groups
<1>3. todo \subseteq AllSteps
  <2>1. \A t \in Steps(BackPath(c.ask.op)) : t \in BackSteps \cup {"finish"}
    <3>1. CASE Applies(c)
      <4>1. BackPath(c.ask.op) = BackPath("install")
        BY <3>1, Paths DEF Applies
      <4> QED  BY <4>1, BackPathSteps
    <3>2. CASE c.ask.op = "rollback"
      BY <3>2, BackPathSteps
    <3>3. CASE c.ask.op = "uninstall"
      BY <3>3, BackPathSteps
    <3> QED  BY <3>1, <3>2, <3>3 DEF KnownOp, Applies
  <2> QED  BY <2>1 DEF BackSteps, AllSteps
<1> HIDE DEF marked, todo
<1>4. d \in CliSet
  <2>1. PICK u \in BOOLEAN : u <=> missed /\ c.ask.op \in Apply
    OBVIOUS
  <2>2. (missed /\ c.ask.op \in Apply) = u
    BY <2>1
  <2>3. d = [c EXCEPT !.back = TRUE, !.touched = marked, !.unseen = u, !.todo = todo]
    BY <1>1, <2>2
  <2> QED  BY <1>2, <1>3, <2>1, <2>3, Records
<1>5. /\ SameTask(c, d) /\ d.back = TRUE /\ d.at = c.at /\ d.blame = c.blame
      /\ d.todo = todo
  BY <1>1 DEF CliSet, SameTask
<1>6. d.unseen <=> missed /\ Applies(c)
  BY <1>1 DEF CliSet, Applies
<1> QED  BY <1>4, <1>5, <1>6 DEF todo, marked, CaughtAs

-----------------------------------------------------------------------------
(* A step of a command at work.                                            *)

LEMMA EffectKept ==
  ASSUME NEW c \in CliSet, NEW h, NEW g, NEW m, NEW s, InTurn(c, h, s), TodoFits(c, h, m),
         c.back, g = h \/ Effect(c, h, m, s, g)
  PROVE  Kept(c, h, m, s, g)
<1>1. s # "note" /\ s \in c.todo /\ MineOf(c, h) \in 1..Len(h.receipts)
  BY DEF InTurn, InOrder
<1>2. /\ s \in {"stop", "reload", "start"} => c.ask.managed
      /\ s \in Bridge => HasTask(c, h)
  BY <1>1 DEF TodoFits
<1>3. SameHistory(h, g, MineOf(c, h))
  BY SameReceipts DEF Effect
<1>4. /\ g.pointer \in {h.pointer, c.was.pointer}
      /\ s \notin {"stop", "reload", "start"} => g.running = h.running
      /\ s \notin Bridge => g.bridge = h.bridge
      /\ ReceiptOf(c, g).bridge = ReceiptOf(c, h).bridge
  <2>1. CASE g = h
    BY <2>1
  <2>2. CASE Effect(c, h, m, s, g)
    BY <1>1, <2>2 DEF Effect, Bridge
  <2> QED  BY <2>1, <2>2
<1> QED  BY <1>1, <1>2, <1>3, <1>4 DEF Kept

LEMMA ThrownFollows ==
  ASSUME NEW c, NEW h, NEW m, NEW clean, Working(c, h, m, clean), c.at = "working",
         NEW s \in AllSteps, s \notin {"prepare", "seal", "sign"}, InTurn(c, h, s), NEW g,
         g = h \/ (Effect(c, h, m, s, g) /\ s # "tear"), NEW missed \in BOOLEAN,
         g # h /\ s \in {"stop", "point"} => missed,
         NEW d, d = Thrown(c, s, missed)
  PROVE  /\ d \in CliSet /\ d.at = "working"
         /\ TaskFollows(d, g, m, clean) /\ HostFits(g, m)
<1>1. /\ c \in CliSet /\ KnownOp(c) /\ HostShape(h) /\ HostFits(h, m)
      /\ TaskFollows(c, h, m, clean) /\ clean \in BOOLEAN
      /\ TodoFits(c, h, m) /\ TaskKnown(c, h, m) /\ ServiceFollows(c, h, m)
  BY DEF Working, TaskFollows
<1>2. CASE c.back
  <2>1. d = Skip(c, s)
    BY <1>2 DEF Thrown
  <2>2. SkippedAs(c, d, s)
    BY <1>1, <1>2, <2>1, SkippedRecord
  <2>3. Skipped(c, d, s) /\ d \in CliSet /\ d.at = "working"
    BY <2>2 DEF SkippedAs, Skipped, Vouched
  <2>4. Kept(c, h, m, s, g)
    BY <1>1, <1>2, EffectKept
  <2>5. c.ask.op # "uninstall" /\ c.todo # {}
    BY <1>2 DEF InTurn, InOrder
  <2>6. TaskFollows(d, g, m, clean)
    BY <1>1, <1>2, <2>3, <2>4, <2>5, SkippedFollows
  <2>7. HostFits(g, m)
    <3>1. CASE g = h
      BY <1>1, <3>1
    <3>2. CASE Effect(c, h, m, s, g)
      BY <1>1, <3>2, EffectKeepsFit
    <3> QED  BY <3>1, <3>2
  <2> QED  BY <2>3, <2>6, <2>7
<1>3. CASE ~c.back
  <2>1. d = Catch(c, s, missed)
    BY <1>3 DEF Thrown
  <2>2. /\ d \in CliSet /\ d.at = c.at /\ (d.unseen <=> missed /\ Applies(c))
        /\ CaughtAs(c, d, s, missed)
    <3>1. CaughtAs(c, d, s, missed)
      BY <1>1, <2>1, CaughtRecord
    <3> QED  BY <3>1 DEF CaughtAs
  <2>3. Caught(c, d, s)
    BY <2>2 DEF Caught, CaughtAs, MarkedBy
  <2>4. \/ g = h
        \/ /\ Effect(c, h, m, s, g) /\ s # "tear"
           /\ s \in {"stop", "point"} /\ Applies(c) => d.unseen
    BY <2>2
  <2>5. TaskFollows(d, g, m, clean) /\ HostFits(g, m)
    BY <1>1, <1>3, <2>3, <2>4, CaughtFollows
  <2> QED  BY <2>2, <2>5
<1> QED  BY <1>2, <1>3

\* The step s of p, when what it does is known.
LEMMA StepKeeps ==
  ASSUME ConstantsOK, IInv, NEW p \in Procs, NEW s \in AllSteps \ ({"prepare"} \cup Bridge),
         NEW after, Step(p, s, after),
         InTurn(cli[p], host, s) => HostShape(after) /\ Effect(cli[p], host, manager, s, after)
  PROVE  IInv'
<1> DEFINE c == cli[p]
<1>1. At(p, s) /\ c.at = "working" /\ Next1(c, s)
  BY DEF Step, At, Next1
<1>2. Working(c, host, manager, ~tainted) /\ Holds(p)
  BY <1>1, AtWork
<1>3. InTurn(c, host, s)
  BY <1>1, <1>2, AtTurn
<1>4. HostShape(after) /\ Effect(c, host, manager, s, after)
  BY <1>3
<1>5. /\ c \in CliSet /\ HostShape(host) /\ HostFits(host, manager)
      /\ TaskFollows(c, host, manager, ~tainted) /\ (~tainted) \in BOOLEAN
  BY <1>2 DEF Working
<1>6. Len(after.receipts) = Len(host.receipts) /\ Len(host.receipts) \in Nat
  BY <1>4, <1>5, ReceiptsAre DEF Effect, SameHistory
<1>7. UNCHANGED <<lock, manager, tainted>> /\ cli \in [Procs -> CliSet]
      /\ mishaps \in 0..MaxMishaps
  BY DEF Step, IInv, Shape
<1>8. CASE Returns(p, s, after)
  <2>1. PICK d : d = [c EXCEPT !.todo = @ \ {s},
                        !.touched = IF MarkedAfter(s) /\ ~c.back
                                    THEN @ \cup {Group(s)} ELSE @]
    OBVIOUS
  <2>2. host' = after /\ cli' = [cli EXCEPT ![p] = d] /\ mishaps' = mishaps
    BY <1>7, <1>8, <2>1 DEF Returns
  <2>3. d \in CliSet /\ Stepped(c, d, s)
    BY <1>5, <2>1, ReturnedRecord
  <2>4. SameTerms(c, host, d, after)
    BY <1>3, <1>4, <2>3, HistoryGivesTerms DEF InTurn, Effect, Stepped
  <2>5. Returned(c, host, manager, s, d, after)
    BY <1>1, <1>3, <1>4, <1>5, <2>3, <2>4 DEF Returned
  <2>6. TaskFollows(d, after, manager, ~tainted) /\ HostFits(after, manager)
    BY <1>5, <2>5, ReturnKeepsFollowing DEF Bridge
  <2>7. d.at = "working"
    BY <1>1, <2>3 DEF Stepped
  <2>8. WorksOn(p, d)
    BY <1>4, <1>6, <1>7, <2>2, <2>3, <2>6, <2>7 DEF WorksOn
  <2> QED  BY <1>2, <2>8, WorkKeeps
<1>9. ASSUME NEW g, Throws(p, s, g), g = host \/ g = after PROVE IInv'
  <2>1. PICK missed : missed = (g # host /\ s \in {"stop", "point"})
    OBVIOUS
  <2>2. PICK d : d = Thrown(c, s, missed)
    OBVIOUS
  <2>3. host' = g /\ cli' = [cli EXCEPT ![p] = d] /\ mishaps' = mishaps + 1
        /\ mishaps < MaxMishaps
    BY <1>7, <1>9, <2>1, <2>2 DEF Throws, Mishap
  <2>4. g = host \/ (Effect(c, host, manager, s, g) /\ s # "tear")
    BY <1>4, <1>9 DEF Bridge
  <2>5. missed \in BOOLEAN /\ (g # host /\ s \in {"stop", "point"} => missed)
    BY <2>1
  <2>6. s \notin {"prepare", "seal", "sign"} /\ s \in AllSteps
    BY DEF Bridge
  <2>7. /\ d \in CliSet /\ d.at = "working"
        /\ TaskFollows(d, g, manager, ~tainted) /\ HostFits(g, manager)
    BY <1>1, <1>2, <1>3, <2>2, <2>4, <2>5, <2>6, ThrownFollows
  <2>8. mishaps' \in 0..MaxMishaps
    BY <1>7, <2>3 DEF ConstantsOK
  <2>9. HostShape(g) /\ Len(g.receipts) = Len(host.receipts)
    BY <1>4, <1>5, <1>6, <1>9
  <2>10. WorksOn(p, d)
    BY <1>6, <1>7, <2>3, <2>7, <2>8, <2>9 DEF WorksOn
  <2> QED  BY <1>2, <2>10, WorkKeeps
<1> QED  BY <1>8, <1>9 DEF Step

LEMMA TermTypes ==
  ASSUME ConstantsOK, NEW c, NEW h, NEW m, NEW clean, Working(c, h, m, clean),
         MineOf(c, h) \in 1..Len(h.receipts)
  PROVE  /\ ReceiptOf(c, h) \in ReceiptSet
         /\ NextText(c, h, m) \in Content /\ NextPointer(c, h) \in 0..Len(h.receipts)
         /\ c.was.text \in Content /\ c.was.pointer \in 0..Len(h.receipts)
         /\ GoalEnd(c, h).bridge \in Content /\ FromEnd(c, h).bridge \in Content
         /\ GoalEnd(c, h).hstatus \in {"installed", "rolled-back"}
         /\ FromEnd(c, h).hstatus \in {"installed", "rolled-back"}
         /\ GoalStatus(c.ask.op) \in Status
<1>1. /\ c \in CliSet /\ KnownOp(c) /\ HostShape(h) /\ HostFits(h, m) /\ TaskKnown(c, h, m)
  BY DEF Working, TaskFollows
<1>2. /\ ReceiptOf(c, h) \in ReceiptSet /\ Len(h.receipts) \in Nat
  BY <1>1, ReceiptsAre DEF ReceiptOf
<1>3. /\ ReceiptOf(c, h).release \in Content /\ ReceiptOf(c, h).priorText \in Content
      /\ ReceiptOf(c, h).priorBridge \in Content /\ Nothing \in Content
  BY <1>2 DEF ReceiptSet, Content
<1>4. ReceiptOf(c, h).prev \in 0..Len(h.receipts)
  <2>1. ReceiptOf(c, h).prev \in 0..(MineOf(c, h) - 1)
    BY <1>1 DEF HostFits, ReceiptOf
  <2> QED  BY <1>2, <2>1
<1>5. NextText(c, h, m) \in Content
  BY <1>3 DEF NextText, TextIn, ReceiptOf
<1>6. NextPointer(c, h) \in 0..Len(h.receipts)
  BY <1>2, <1>4 DEF NextPointer
<1>7. c.was.text \in Content /\ c.was.pointer \in 0..Len(h.receipts)
  BY <1>1 DEF TaskKnown, WasSet
<1>8. \A new \in BOOLEAN : /\ EndIn(c, h, new).bridge \in Content
                           /\ EndIn(c, h, new).hstatus \in {"installed", "rolled-back"}
  BY <1>3 DEF EndIn
<1>9. /\ (IF c.back THEN ~Applies(c) ELSE Applies(c)) \in BOOLEAN
      /\ (IF c.back THEN Applies(c) ELSE ~Applies(c)) \in BOOLEAN
  <2>1. Applies(c) \in BOOLEAN /\ (~Applies(c)) \in BOOLEAN
    BY DEF Applies
  <2>2. CASE c.back
    BY <2>1, <2>2
  <2>3. CASE ~c.back
    BY <2>1, <2>3
  <2> QED  BY <2>2, <2>3
<1>10. /\ GoalEnd(c, h).bridge \in Content /\ FromEnd(c, h).bridge \in Content
       /\ GoalEnd(c, h).hstatus \in {"installed", "rolled-back"}
       /\ FromEnd(c, h).hstatus \in {"installed", "rolled-back"}
  BY <1>8, <1>9 DEF GoalEnd, FromEnd
<1>11. GoalStatus(c.ask.op) \in Status
  BY <1>1 DEF GoalStatus, Status, Final, KnownOp, Apply
<1> QED  BY <1>2, <1>5, <1>6, <1>7, <1>10, <1>11

\* What a step of p may rely on.
LEMMA StepContext ==
  ASSUME IInv, NEW p \in Procs, NEW s \in AllSteps, At(p, s)
  PROVE  /\ Working(cli[p], host, manager, ~tainted) /\ Holds(p) /\ cli[p].at = "working"
         /\ Next1(cli[p], s) /\ cli[p] \in CliSet /\ KnownOp(cli[p])
         /\ HostShape(host) /\ Mine(p) = MineOf(cli[p], host)
<1>1. cli[p].at = "working" /\ Next1(cli[p], s)
  BY DEF At, Next1
<1>2. Working(cli[p], host, manager, ~tainted) /\ Holds(p)
  BY <1>1, AtWork
<1>3. cli[p] \in CliSet /\ KnownOp(cli[p]) /\ HostShape(host)
  BY <1>2 DEF Working
<1> QED  BY <1>1, <1>2, <1>3, Words

LEMMA ReleaseKeeps ==
  ASSUME ConstantsOK, IInv, NEW p \in Procs, PrepareRelease(p)
  PROVE  IInv'
<1>1. Step(p, "release", host) /\ "release" \in AllSteps \ ({"prepare"} \cup Bridge)
  BY DEF PrepareRelease, AllSteps, Bridge
<1>2. HostShape(host) /\ Effect(cli[p], host, manager, "release", host)
  BY SimpleEffects DEF IInv, Shape
<1> QED  BY <1>1, <1>2, StepKeeps

LEMMA NoteKeeps ==
  ASSUME ConstantsOK, IInv, NEW p \in Procs, NoteBridge(p)
  PROVE  IInv'
<1> DEFINE after == [host EXCEPT !.receipts[Mine(p)].bridge = TRUE]
<1>1. Step(p, "note", after) /\ "note" \in AllSteps \ ({"prepare"} \cup Bridge)
  BY DEF NoteBridge, AllSteps, Bridge
<1>2. HostShape(host) /\ Mine(p) = MineOf(cli[p], host)
  BY <1>1, StepContext DEF Step
<1>3. InTurn(cli[p], host, "note") =>
        HostShape(after) /\ Effect(cli[p], host, manager, "note", after)
  BY <1>2, ReceiptEffects DEF InTurn
<1> HIDE DEF after
<1> QED  BY <1>1, <1>3, StepKeeps

LEMMA StopKeeps ==
  ASSUME ConstantsOK, IInv, NEW p \in Procs, StopService(p)
  PROVE  IInv'
<1> DEFINE after == [host EXCEPT !.running = Nothing]
<1>1. Step(p, "stop", after) /\ "stop" \in AllSteps \ ({"prepare"} \cup Bridge)
  BY DEF StopService, AllSteps, Bridge, Service
<1>2. HostShape(after) /\ Effect(cli[p], host, manager, "stop", after)
  BY SimpleEffects DEF IInv, Shape
<1> HIDE DEF after
<1> QED  BY <1>1, <1>2, StepKeeps

LEMMA DefineKeeps ==
  ASSUME ConstantsOK, IInv, NEW p \in Procs, WriteDefinition(p)
  PROVE  IInv'
<1> DEFINE t == Goal(p).text
           after == [host EXCEPT !.text = t]
<1>1. Step(p, "define", after) /\ "define" \in AllSteps \ ({"prepare"} \cup Bridge)
  BY DEF WriteDefinition, AllSteps, Bridge, Service
<1>2. /\ Working(cli[p], host, manager, ~tainted) /\ cli[p] \in CliSet /\ KnownOp(cli[p])
      /\ HostShape(host)
  BY <1>1, StepContext DEF Step
<1>3. t = IF cli[p].back THEN cli[p].was.text ELSE NextText(cli[p], host, manager)
  BY <1>2, GoalWords
<1>4. ASSUME InTurn(cli[p], host, "define")
      PROVE  HostShape(after) /\ Effect(cli[p], host, manager, "define", after)
  <2>1. t \in Content
    BY <1>2, <1>3, <1>4, TermTypes DEF InTurn
  <2> HIDE DEF t
  <2> QED  BY <1>2, <1>3, <2>1, SimpleEffects
<1> HIDE DEF after
<1> QED  BY <1>1, <1>4, StepKeeps

LEMMA ReloadKeeps ==
  ASSUME ConstantsOK, IInv, NEW p \in Procs, Reload(p)
  PROVE  IInv'
<1> DEFINE runs == manager = "launchd" /\ host.text # Nothing
           t == IF runs THEN host.text ELSE host.running
           after == [host EXCEPT !.running = t]
<1>1. Step(p, "reload", after) /\ "reload" \in AllSteps \ ({"prepare"} \cup Bridge)
  BY DEF Reload, AllSteps, Bridge, Service
<1>2. HostShape(host)
  BY DEF IInv, Shape
<1>3. t \in Content /\ (t # Nothing <=> Up(host) \/ (manager = "launchd" /\ host.text # Nothing))
  BY <1>2 DEF HostShape, Up
<1> HIDE DEF t
<1>4. HostShape(after) /\ Effect(cli[p], host, manager, "reload", after)
  BY <1>2, <1>3, SimpleEffects
<1> HIDE DEF after
<1> QED  BY <1>1, <1>4, StepKeeps

LEMMA StartKeeps ==
  ASSUME ConstantsOK, IInv, NEW p \in Procs, Start(p)
  PROVE  IInv'
<1> DEFINE t == IF Active THEN host.running ELSE host.text
           after == [host EXCEPT !.running = t]
<1>1. Step(p, "start", after) /\ "start" \in AllSteps \ ({"prepare"} \cup Bridge)
  BY DEF Start, AllSteps, Bridge, Service
<1>2. HostShape(host)
  BY DEF IInv, Shape
<1>3. t \in Content /\ (t # Nothing <=> Up(host) \/ host.text # Nothing)
  BY <1>2 DEF HostShape, Up, Active
<1> HIDE DEF t
<1>4. HostShape(after) /\ Effect(cli[p], host, manager, "start", after)
  BY <1>2, <1>3, SimpleEffects
<1> HIDE DEF after
<1> QED  BY <1>1, <1>4, StepKeeps

LEMMA PointKeeps ==
  ASSUME ConstantsOK, IInv, NEW p \in Procs, WritePointer(p)
  PROVE  IInv'
<1> DEFINE t == Goal(p).pointer
           after == [host EXCEPT !.pointer = t]
<1>1. Step(p, "point", after) /\ "point" \in AllSteps \ ({"prepare"} \cup Bridge)
  BY DEF WritePointer, AllSteps, Bridge, Service
<1>2. /\ Working(cli[p], host, manager, ~tainted) /\ cli[p] \in CliSet /\ KnownOp(cli[p])
      /\ HostShape(host)
  BY <1>1, StepContext DEF Step
<1>3. t = IF cli[p].back THEN cli[p].was.pointer ELSE NextPointer(cli[p], host)
  BY <1>2, GoalWords
<1>4. ASSUME InTurn(cli[p], host, "point")
      PROVE  HostShape(after) /\ Effect(cli[p], host, manager, "point", after)
  <2>1. t \in 0..Len(host.receipts)
    BY <1>2, <1>3, <1>4, TermTypes DEF InTurn
  <2> HIDE DEF t
  <2> QED  BY <1>2, <1>3, <2>1, SimpleEffects
<1> HIDE DEF after
<1> QED  BY <1>1, <1>4, StepKeeps

LEMMA FinishKeeps ==
  ASSUME ConstantsOK, IInv, NEW p \in Procs, WriteReceipt(p)
  PROVE  IInv'
<1> DEFINE t == Goal(p).status
           after == [host EXCEPT !.receipts[Mine(p)].status = t]
<1>1. Step(p, "finish", after) /\ "finish" \in AllSteps \ ({"prepare"} \cup Bridge)
  BY DEF WriteReceipt, AllSteps, Bridge, Service
<1>2. /\ Working(cli[p], host, manager, ~tainted) /\ cli[p] \in CliSet /\ KnownOp(cli[p])
      /\ HostShape(host) /\ Mine(p) = MineOf(cli[p], host)
  BY <1>1, StepContext DEF Step
<1>3. t = IF cli[p].back THEN cli[p].ask.status ELSE GoalStatus(cli[p].ask.op)
  BY <1>2, GoalWords
<1>4. ASSUME InTurn(cli[p], host, "finish")
      PROVE  HostShape(after) /\ Effect(cli[p], host, manager, "finish", after)
  <2>1. cli[p].back => cli[p].ask.status \in Status
    <3>1. cli[p].back => cli[p].ask.op = "rollback"
      BY <1>4 DEF InTurn
    <3>2. cli[p].ask.op = "rollback" => cli[p].ask.status \in Final
      BY <1>2 DEF Working, TaskFollows, TaskKnown, Applies, Apply
    <3> QED  BY <3>1, <3>2 DEF Status
  <2>2. GoalStatus(cli[p].ask.op) \in Status
    BY <1>2, <1>4, TermTypes DEF InTurn
  <2>3. t \in Status
    BY <1>3, <2>1, <2>2
  <2>4. Mine(p) \in 1..Len(host.receipts)
    BY <1>2, <1>4 DEF InTurn
  <2> HIDE DEF t
  <2> QED  BY <1>2, <1>3, <2>3, <2>4, ReceiptEffects
<1> HIDE DEF after
<1> QED  BY <1>1, <1>4, StepKeeps

LEMMA PrepareKeeps ==
  ASSUME ConstantsOK, IInv, NEW p \in Procs, Prepare(p)
  PROVE  IInv'
<1> DEFINE c == cli[p]
           after == [host EXCEPT !.receipts = Append(@, NewReceipt(c))]
<1>1. Step(p, "prepare", after) /\ "prepare" \in AllSteps
  BY DEF Prepare, AllSteps
<1>2. /\ Working(c, host, manager, ~tainted) /\ Holds(p) /\ c.at = "working"
      /\ Next1(c, "prepare") /\ c \in CliSet /\ KnownOp(c) /\ HostShape(host)
  BY <1>1, StepContext DEF Step
<1>3. ~c.back /\ Applies(c) /\ "prepare" \in c.todo
  BY <1>1, <1>2, AtTurn
<1>4. Grown(c, host, after)
  BY DEF Grown
<1> HIDE DEF after
<1>5. /\ HostFits(host, manager) /\ TaskFollows(c, host, manager, ~tainted)
      /\ TaskKnown(c, host, manager) /\ (~tainted) \in BOOLEAN
  BY <1>2 DEF Working, TaskFollows
<1>6. HostShape(after) /\ HostFits(after, manager) /\ GrownBy(c, host, after)
  BY <1>2, <1>3, <1>4, <1>5, GrownHost
<1>7. Len(after.receipts) >= Len(host.receipts) /\ Len(host.receipts) \in Nat
  BY <1>6 DEF GrownBy
<1>8. UNCHANGED <<lock, manager, tainted>> /\ cli \in [Procs -> CliSet]
      /\ mishaps \in 0..MaxMishaps
  BY <1>1 DEF Step, IInv, Shape
<1>9. CASE Returns(p, "prepare", after)
  <2>1. PICK d : d = [c EXCEPT !.todo = @ \ {"prepare"},
                        !.touched = IF MarkedAfter("prepare") /\ ~c.back
                                    THEN @ \cup {Group("prepare")} ELSE @]
    OBVIOUS
  <2>2. host' = after /\ cli' = [cli EXCEPT ![p] = d] /\ mishaps' = mishaps
    BY <1>8, <1>9, <2>1 DEF Returns
  <2>3. d \in CliSet /\ Stepped(c, d, "prepare")
    BY <1>2, <2>1, ReturnedRecord
  <2>4. TaskFollows(d, after, manager, ~tainted)
    BY <1>2, <1>3, <1>4, <1>5, <2>3, PrepareReturns
  <2>5. d.at = "working"
    BY <1>2, <2>3 DEF Stepped
  <2>6. WorksOn(p, d)
    BY <1>6, <1>7, <1>8, <2>2, <2>3, <2>4, <2>5 DEF WorksOn
  <2> QED  BY <1>2, <2>6, WorkKeeps
<1>10. ASSUME NEW g, Throws(p, "prepare", g), g = host \/ g = after PROVE IInv'
  <2>1. PICK d : d = Thrown(c, "prepare", FALSE)
    OBVIOUS
  <2>2. host' = g /\ cli' = [cli EXCEPT ![p] = d] /\ mishaps' = mishaps + 1
        /\ mishaps < MaxMishaps
    <3>1. (g # host /\ "prepare" \in {"stop", "point"}) = FALSE
      OBVIOUS
    <3> QED  BY <1>8, <1>10, <2>1, <3>1 DEF Throws, Mishap
  <2>3. CaughtAs(c, d, "prepare", FALSE)
    <3>1. d = Catch(c, "prepare", FALSE)
      BY <1>3, <2>1 DEF Thrown
    <3> QED  BY <1>2, <3>1, CaughtRecord
  <2>4. d \in CliSet /\ SameTask(c, d) /\ d.at = "working" /\ d.back = TRUE /\ d.todo = {}
    BY <1>2, <2>3 DEF CaughtAs
  <2>5. Grown(c, host, g) \/ g = host
    BY <1>4, <1>10
  <2>6. TaskFollows(d, g, manager, ~tainted)
    BY <1>2, <1>3, <1>5, <2>4, <2>5, PrepareThrows
  <2>7. mishaps' \in 0..MaxMishaps
    BY <1>8, <2>2 DEF ConstantsOK
  <2>8. HostShape(g) /\ HostFits(g, manager) /\ Len(g.receipts) >= Len(host.receipts)
    BY <1>2, <1>5, <1>6, <1>7, <1>10
  <2>9. WorksOn(p, d)
    BY <1>8, <2>2, <2>4, <2>6, <2>7, <2>8 DEF WorksOn
  <2> QED  BY <1>2, <2>9, WorkKeeps
<1> QED  BY <1>1, <1>9, <1>10 DEF Step

-----------------------------------------------------------------------------
(* The steps of the bridge.                                                *)

LEMMA BridgeStepKeeps ==
  ASSUME ConstantsOK, IInv, NEW p \in Procs, NEW s \in Bridge, NEW after,
         BridgeStep(p, s, after), HostShape(after),
         Effect(cli[p], host, manager, s, after),
         ~cli[p].back /\ ~Applies(cli[p]) /\ s = "tear" =>
           host.bridge = ReceiptOf(cli[p], host).release
  PROVE  IInv'
<1> DEFINE c == cli[p]
<1>0. s \in AllSteps /\ s # "prepare"
  BY DEF AllSteps, Bridge
<1>1. At(p, s)
  BY DEF BridgeStep
<1>2. /\ Working(c, host, manager, ~tainted) /\ Holds(p) /\ c.at = "working"
      /\ Next1(c, s) /\ c \in CliSet /\ HostShape(host)
  BY <1>0, <1>1, StepContext
<1>3. InTurn(c, host, s)
  BY <1>0, <1>2, AtTurn
<1>4. /\ HostFits(host, manager) /\ TaskFollows(c, host, manager, ~tainted)
      /\ (~tainted) \in BOOLEAN
  BY <1>2 DEF Working
<1>5. Len(after.receipts) = Len(host.receipts) /\ Len(host.receipts) \in Nat
  BY <1>2, ReceiptsAre DEF Effect, SameHistory
<1>6. UNCHANGED <<lock, manager, tainted>> /\ cli \in [Procs -> CliSet]
      /\ mishaps \in 0..MaxMishaps
  BY DEF BridgeStep, IInv, Shape
<1>7. CASE Returns(p, s, after)
  <2>1. PICK d : d = [c EXCEPT !.todo = @ \ {s},
                        !.touched = IF MarkedAfter(s) /\ ~c.back
                                    THEN @ \cup {Group(s)} ELSE @]
    OBVIOUS
  <2>2. host' = after /\ cli' = [cli EXCEPT ![p] = d] /\ mishaps' = mishaps
    BY <1>6, <1>7, <2>1 DEF Returns
  <2>3. d \in CliSet /\ Stepped(c, d, s)
    BY <1>2, <2>1, ReturnedRecord
  <2>4. SameTerms(c, host, d, after)
    BY <1>3, <2>3, HistoryGivesTerms DEF InTurn, Effect, Stepped
  <2>5. Returned(c, host, manager, s, d, after)
    BY <1>2, <1>3, <2>3, <2>4 DEF Returned
  <2>6. TaskFollows(d, after, manager, ~tainted) /\ HostFits(after, manager)
    BY <1>4, <2>5, ReturnKeepsFollowing
  <2>7. d.at = "working"
    BY <1>2, <2>3 DEF Stepped
  <2>8. WorksOn(p, d)
    BY <1>5, <1>6, <2>2, <2>3, <2>6, <2>7 DEF WorksOn
  <2> QED  BY <1>2, <2>8, WorkKeeps
<1>8. ASSUME NEW g, Undo(p, g), g = host \/ g = after, s = "tear" => g # host
      PROVE  IInv'
  <2>1. PICK d : d = [c EXCEPT !.at = "undoing"]
    OBVIOUS
  <2>2. host' = g /\ cli' = [cli EXCEPT ![p] = d] /\ mishaps' = mishaps + 1
        /\ mishaps < MaxMishaps
    BY <1>6, <1>8, <2>1 DEF Undo, Mishap
  <2>3. d \in CliSet /\ d.at = "undoing"
    BY <1>2, <2>1 DEF CliSet
  <2>4. g = host \/ Effect(c, host, manager, s, g)
    BY <1>8
  <2>5. TaskFollows(d, g, manager, ~tainted) /\ HostFits(g, manager)
    BY <1>2, <1>3, <1>4, <1>8, <2>1, <2>4, UndoFollows
  <2>6. mishaps' \in 0..MaxMishaps
    BY <1>6, <2>2 DEF ConstantsOK
  <2>7. HostShape(g) /\ Len(g.receipts) = Len(host.receipts)
    BY <1>2, <1>5, <1>8
  <2>8. WorksOn(p, d)
    BY <1>5, <1>6, <2>2, <2>3, <2>5, <2>6, <2>7 DEF WorksOn
  <2> QED  BY <1>2, <2>8, WorkKeeps
<1> QED  BY <1>7, <1>8 DEF BridgeStep

LEMMA TearKeeps ==
  ASSUME ConstantsOK, IInv, NEW p \in Procs, TearBridge(p)
  PROVE  IInv'
<1> DEFINE c == cli[p]
           after == [host EXCEPT !.bridge = Changed]
<1>1. At(p, "tear") /\ "tear" \in AllSteps /\ "tear" \in Bridge
  BY DEF TearBridge, AllSteps, Bridge
<1>2. /\ Working(c, host, manager, ~tainted) /\ Holds(p) /\ c.at = "working"
      /\ Next1(c, "tear") /\ c \in CliSet /\ HostShape(host) /\ KnownOp(c)
  BY <1>1, StepContext
<1>3. InTurn(c, host, "tear")
  BY <1>1, <1>2, AtTurn
<1>4. HostShape(after) /\ Effect(c, host, manager, "tear", after)
  BY <1>2, SimpleEffects
<1>5. ASSUME BridgeAsExpected(p), ~c.back, ~Applies(c)
      PROVE  host.bridge = ReceiptOf(c, host).release
  <2>1. ~Installs(p)
    BY <1>5 DEF Installs, Applies
  <2>2. host.bridge = FromEnd(c, host).bridge
    BY <1>2, <1>5, <2>1, BridgeWords DEF BridgeAsExpected
  <2>3. (IF c.back THEN Applies(c) ELSE ~Applies(c)) = TRUE
    BY <1>5
  <2>4. FromEnd(c, host) = EndIn(c, host, TRUE)
    BY <2>3 DEF FromEnd
  <2> QED  BY <2>2, <2>4 DEF EndIn
<1>6. mishaps \in 0..MaxMishaps
  BY DEF IInv, Shape
<1>7. ASSUME NEW missed \in BOOLEAN, NEW d, d = Thrown(c, "tear", missed),
             cli' = [cli EXCEPT ![p] = d], host' = host,
             UNCHANGED <<lock, manager, tainted>>, mishaps' \in 0..MaxMishaps
      PROVE  IInv'
  <2>1. PICK g : g = host
    OBVIOUS
  <2>2. /\ d \in CliSet /\ d.at = "working"
        /\ TaskFollows(d, g, manager, ~tainted) /\ HostFits(g, manager)
    <3>1. "tear" \notin {"prepare", "seal", "sign"}
          /\ (g # host /\ "tear" \in {"stop", "point"} => missed)
      OBVIOUS
    <3> QED  BY <1>1, <1>2, <1>3, <1>7, <2>1, <3>1, ThrownFollows
  <2>3. Len(g.receipts) \in Nat /\ HostShape(g)
    BY <1>2, <2>1, ReceiptsAre
  <2>4. host' = g /\ host = g
    BY <1>7, <2>1
  <2>5. WorksOn(p, d)
    BY <1>7, <2>2, <2>3, <2>4 DEF WorksOn
  <2> QED  BY <1>2, <2>5, WorkKeeps
<1> HIDE DEF after
<1>8. CASE BridgeAsExpected(p) /\ BridgeStep(p, "tear", after)
  BY <1>1, <1>4, <1>5, <1>8, BridgeStepKeeps
<1>9. CASE Throws(p, "tear", host) /\ UNCHANGED <<lock, manager, tainted>>
  <2>1. PICK missed : missed = (host # host /\ "tear" \in {"stop", "point"})
    OBVIOUS
  <2>2. PICK d : d = Thrown(c, "tear", missed)
    OBVIOUS
  <2>3. cli' = [cli EXCEPT ![p] = d] /\ host' = host /\ mishaps' = mishaps + 1
        /\ mishaps < MaxMishaps
    BY <1>9, <2>1, <2>2 DEF Throws, Mishap
  <2>4. mishaps' \in 0..MaxMishaps /\ missed \in BOOLEAN
    BY <1>6, <2>1, <2>3 DEF ConstantsOK
  <2> QED  BY <1>7, <1>9, <2>2, <2>3, <2>4
<1>10. CASE Refuses(p, "tear")
  <2>1. PICK missed : missed = FALSE
    OBVIOUS
  <2>2. PICK d : d = Thrown(c, "tear", missed)
    OBVIOUS
  <2>3. cli' = [cli EXCEPT ![p] = d] /\ host' = host /\ mishaps' = mishaps
        /\ UNCHANGED <<lock, manager, tainted>>
    BY <1>10, <2>1, <2>2 DEF Refuses
  <2> QED  BY <1>6, <1>7, <2>1, <2>2, <2>3
<1> QED  BY <1>8, <1>9, <1>10 DEF TearBridge, after

LEMMA SealKeeps ==
  ASSUME ConstantsOK, IInv, NEW p \in Procs, SealBridge(p)
  PROVE  IInv'
<1> DEFINE c == cli[p]
           b == End(p, ToNew(p)).bridge
           after == [host EXCEPT !.bridge = b]
<1>1. BridgeStep(p, "seal", after) /\ "seal" \in AllSteps /\ "seal" \in Bridge
  BY DEF SealBridge, AllSteps, Bridge
<1>2. /\ Working(c, host, manager, ~tainted) /\ Next1(c, "seal") /\ c \in CliSet
      /\ HostShape(host) /\ KnownOp(c)
  BY <1>1, StepContext DEF BridgeStep
<1>3. InTurn(c, host, "seal")
  BY <1>1, <1>2, AtTurn
<1>4. b = GoalEnd(c, host).bridge /\ b \in Content
  <2>1. b = GoalEnd(c, host).bridge
    BY <1>2, BridgeWords
  <2> QED  BY <1>2, <1>3, <2>1, TermTypes DEF InTurn
<1> HIDE DEF b
<1>5. HostShape(after) /\ Effect(c, host, manager, "seal", after)
  BY <1>2, <1>4, SimpleEffects
<1> HIDE DEF after
<1> QED  BY <1>1, <1>5, BridgeStepKeeps

LEMMA SignKeeps ==
  ASSUME ConstantsOK, IInv, NEW p \in Procs, SignBridge(p)
  PROVE  IInv'
<1> DEFINE c == cli[p]
           t == End(p, ToNew(p)).hstatus
           after == [host EXCEPT !.receipts[Mine(p)].hstatus = t]
<1>1. BridgeStep(p, "sign", after) /\ "sign" \in AllSteps /\ "sign" \in Bridge
  BY DEF SignBridge, AllSteps, Bridge
<1>2. /\ Working(c, host, manager, ~tainted) /\ Next1(c, "sign") /\ c \in CliSet
      /\ HostShape(host) /\ KnownOp(c) /\ Mine(p) = MineOf(c, host)
  BY <1>1, StepContext DEF BridgeStep
<1>3. InTurn(c, host, "sign")
  BY <1>1, <1>2, AtTurn
<1>4. t = GoalEnd(c, host).hstatus /\ t \in {"none", "installed", "rolled-back"}
  <2>1. t = GoalEnd(c, host).hstatus
    BY <1>2, BridgeWords
  <2> QED  BY <1>2, <1>3, <2>1, TermTypes DEF InTurn
<1>5. Mine(p) \in 1..Len(host.receipts)
  BY <1>2, <1>3 DEF InTurn
<1> HIDE DEF t
<1>6. HostShape(after) /\ Effect(c, host, manager, "sign", after)
  BY <1>2, <1>4, <1>5, ReceiptEffects
<1> HIDE DEF after
<1> QED  BY <1>1, <1>6, BridgeStepKeeps

-----------------------------------------------------------------------------
(* The end of an undo.                                                     *)

\* The bridge is b, and the receipt says t of it.
Rebridged(c, h, b, t, g) ==
  /\ HostShape(g) /\ Undone(c, h, g) /\ g.bridge = b /\ ReceiptOf(c, g).hstatus = t
  /\ Len(g.receipts) = Len(h.receipts) /\ Len(h.receipts) \in Nat

\* h with the bridge b, and the state t of it in the receipt k.
BridgedAs(h, k, b, t) == [h EXCEPT !.bridge = b, !.receipts[k].hstatus = t]

LEMMA BridgeEdit ==
  ASSUME NEW c, NEW h, HostShape(h), NEW k, k = MineOf(c, h), k \in 1..Len(h.receipts),
         NEW b \in Content, NEW t \in {"none", "installed", "rolled-back"}, NEW g,
         g = BridgedAs(h, k, b, t)
  PROVE  Rebridged(c, h, b, t, g)
<1>1. h.receipts[k] \in ReceiptSet
  BY ReceiptsAre
<1>2. PICK q : q = [h.receipts[k] EXCEPT !.hstatus = t]
  OBVIOUS
<1>3. /\ q \in ReceiptSet /\ q.release = h.receipts[k].release
      /\ q.prev = h.receipts[k].prev /\ q.priorText = h.receipts[k].priorText
      /\ q.priorActive = h.receipts[k].priorActive
      /\ q.priorBridge = h.receipts[k].priorBridge
      /\ q.status = h.receipts[k].status /\ q.hstatus = t /\ q.bridge = h.receipts[k].bridge
  BY <1>1, <1>2 DEF ReceiptSet
<1>4. PICK f : f = [h EXCEPT !.receipts = [@ EXCEPT ![k] = q]]
  OBVIOUS
<1>5. /\ HostShape(f) /\ SameHistory(h, f, k) /\ f.receipts[k] = q
      /\ f.pointer = h.pointer /\ f.text = h.text /\ f.running = h.running
  BY <1>3, <1>4, EditedReceipt
<1>6. g = [f EXCEPT !.bridge = b]
  BY <1>2, <1>4 DEF HostShape, BridgedAs
<1>7. /\ HostShape(g) /\ g.bridge = b /\ g.receipts = f.receipts
      /\ g.pointer = h.pointer /\ g.text = h.text /\ g.running = h.running
  BY <1>5, <1>6, ReceiptsAre DEF HostShape
<1>8. SameHistory(h, g, k) /\ Len(g.receipts) = Len(h.receipts) /\ MineOf(c, g) = k
  BY <1>5, <1>7 DEF SameHistory, MineOf
<1>9. ReceiptOf(c, g) = q /\ ReceiptOf(c, h) = h.receipts[k]
  BY <1>5, <1>7, <1>8 DEF ReceiptOf
<1> QED  BY <1>3, <1>7, <1>8, <1>9, ReceiptsAre DEF Undone, Rebridged

\* d goes on where e, the record after the throw, would have.
Resumed(e, d) ==
  /\ d \in CliSet /\ d.at = "working" /\ d.ask = e.ask /\ d.was = e.was /\ d.back = e.back
  /\ d.todo = e.todo /\ (d.unseen <=> e.unseen) /\ (e.blame => d.blame)

LEMMA UndoneWork ==
  ASSUME NEW c, NEW h, NEW m, NEW clean, Working(c, h, m, clean), c.at = "undoing",
         NEW g, Undone(c, h, g), NEW missed \in BOOLEAN, NEW e, e = Thrown(c, "tear", missed),
         NEW d, Resumed(e, d), ~c.back /\ Vouched(d) => PutBack(c, h, g)
  PROVE  TaskFollows(d, g, m, clean) /\ HostFits(g, m)
<1>1. /\ c \in CliSet /\ KnownOp(c) /\ HostShape(h) /\ HostFits(h, m)
      /\ TaskFollows(c, h, m, clean) /\ clean \in BOOLEAN
      /\ TodoFits(c, h, m) /\ TaskKnown(c, h, m) /\ PreparedFollows(c, h)
  BY DEF Working, TaskFollows
<1>2. HostFits(g, m)
  BY <1>1, UndoneFits
<1>3. HasTask(c, h) /\ "sign" \in c.todo /\ c.ask.op # "uninstall"
  BY <1>1 DEF TodoFits, Bridge, HasTask
<1>4. CASE c.back
  <2>1. e = Skip(c, "tear")
    BY <1>4 DEF Thrown
  <2>2. /\ SameTask(c, e) /\ e.back = TRUE /\ e.blame = TRUE
        /\ e.todo = {t \in c.todo : Group(t) # Group("tear")}
    <3>1. SkippedAs(c, e, "tear")
      BY <1>1, <1>4, <2>1, SkippedRecord
    <3> QED  BY <3>1 DEF SkippedAs
  <2>3. Skipped(c, d, "tear")
    BY <2>2 DEF Skipped, Vouched, Resumed, SameTask
  <2>4. MineOf(c, h) \in 1..Len(h.receipts)
    BY <1>1, <1>3, <1>4, MineIsThere
  <2>5. Kept(c, h, m, "tear", g)
    BY <1>3, <2>4 DEF Kept, Undone, Bridge
  <2>6. "tear" \in AllSteps /\ c.todo # {}
    BY <1>3 DEF AllSteps, Bridge
  <2>7. TaskFollows(d, g, m, clean)
    BY <1>1, <1>3, <1>4, <2>3, <2>5, <2>6, SkippedFollows
  <2> QED  BY <1>2, <2>7
<1>5. CASE ~c.back
  <2>1. e = Catch(c, "tear", missed)
    BY <1>5 DEF Thrown
  <2>2. CaughtAs(c, e, "tear", missed)
    BY <1>1, <2>1, CaughtRecord
  <2>3. Caught(c, d, "tear")
    BY <2>2 DEF Caught, CaughtAs, MarkedBy, Resumed, SameTask
  <2>4. Vouched(d) => PutBack(c, h, g)
    BY <1>5
  <2>5. TaskFollows(d, g, m, clean)
    BY <1>1, <1>5, <2>3, <2>4, UndoneFollows
  <2> QED  BY <1>2, <2>5
<1> QED  BY <1>4, <1>5

\* What is known when p undoes.
LEMMA UndoContext ==
  ASSUME ConstantsOK, IInv, NEW p \in Procs, cli[p].at = "undoing"
  PROVE  /\ Working(cli[p], host, manager, ~tainted) /\ Holds(p) /\ cli[p] \in CliSet
         /\ KnownOp(cli[p]) /\ HostShape(host)
         /\ Mine(p) = MineOf(cli[p], host) /\ Mine(p) \in 1..Len(host.receipts)
         /\ Source(p).bridge \in Content
         /\ Source(p).hstatus \in {"none", "installed", "rolled-back"}
         /\ ~cli[p].back /\ Applies(cli[p]) =>
              Source(p).bridge = ReceiptOf(cli[p], host).priorBridge
         /\ ~cli[p].back /\ ~Applies(cli[p]) =>
              /\ Source(p).bridge = ReceiptOf(cli[p], host).release
              /\ Source(p).hstatus = "installed"
<1> DEFINE c == cli[p]
<1>1. Working(c, host, manager, ~tainted) /\ Holds(p)
  BY AtWork
<1>2. /\ c \in CliSet /\ KnownOp(c) /\ HostShape(host) /\ TodoFits(c, host, manager)
      /\ TaskKnown(c, host, manager) /\ PreparedFollows(c, host)
  BY <1>1 DEF Working, TaskFollows
<1>3. Mine(p) = MineOf(c, host)
  BY <1>2, Words
<1>4. MineOf(c, host) \in 1..Len(host.receipts)
  <2>1. c.todo # {} /\ ("prepare" \notin c.todo \/ c.back)
    BY <1>2 DEF TodoFits
  <2> QED  BY <1>2, <2>1, MineIsThere
<1>5. CASE Installs(p)
  <2>1. Source(p) = [bridge |-> ReceiptOf(c, host).priorBridge, hstatus |-> "none"]
    BY <1>3, <1>5 DEF Source, ReceiptOf
  <2>2. Source(p).bridge = ReceiptOf(c, host).priorBridge /\ Source(p).hstatus = "none"
    BY <2>1
  <2>3. ReceiptOf(c, host).priorBridge \in Content
    BY <1>1, <1>4, TermTypes DEF ReceiptSet
  <2>4. Applies(c)
    BY <1>5 DEF Installs, Applies
  <2> QED  BY <1>1, <1>2, <1>3, <1>4, <2>2, <2>3, <2>4
<1>6. CASE ~Installs(p)
  <2>1. Source(p) = End(p, ~ToNew(p))
    BY <1>6 DEF Source
  <2>2. Source(p).bridge = FromEnd(c, host).bridge /\ Source(p).hstatus = FromEnd(c, host).hstatus
    BY <1>2, <2>1, BridgeWords
  <2>3. ~c.back => ~Applies(c)
    BY <1>6 DEF Installs, Applies
  <2>4. ASSUME ~c.back, ~Applies(c)
        PROVE  /\ FromEnd(c, host).bridge = ReceiptOf(c, host).release
               /\ FromEnd(c, host).hstatus = "installed"
    <3>1. (IF c.back THEN Applies(c) ELSE ~Applies(c)) = TRUE
      BY <2>4
    <3>2. FromEnd(c, host) = EndIn(c, host, TRUE)
      BY <3>1 DEF FromEnd
    <3> QED  BY <3>2 DEF EndIn
  <2>5. /\ FromEnd(c, host).bridge \in Content
        /\ FromEnd(c, host).hstatus \in {"installed", "rolled-back"}
    BY <1>1, <1>4, TermTypes
  <2> QED  BY <1>1, <1>2, <1>3, <1>4, <2>2, <2>3, <2>4, <2>5
<1> QED  BY <1>5, <1>6

\* The record of the command line after an undo.
LEMMA ThrownRecord ==
  ASSUME NEW c \in CliSet, KnownOp(c), NEW missed \in BOOLEAN, NEW e,
         e = Thrown(c, "tear", missed)
  PROVE  /\ e \in CliSet /\ e.ask = c.ask /\ (c.back => e.blame)
         /\ ~c.back /\ missed /\ Applies(c) => e.unseen
<1>1. CASE c.back
  <2>1. e = Skip(c, "tear")
    BY <1>1 DEF Thrown
  <2>2. e \in CliSet /\ SameTask(c, e) /\ e.blame = TRUE
    BY <1>1, <2>1, SkippedRecord DEF SkippedAs
  <2> QED  BY <1>1, <2>2 DEF SameTask
<1>2. CASE ~c.back
  <2>1. e = Catch(c, "tear", missed)
    BY <1>2 DEF Thrown
  <2>2. CaughtAs(c, e, "tear", missed)
    BY <2>1, CaughtRecord
  <2> QED  BY <1>2, <2>2 DEF CaughtAs, SameTask
<1> QED  BY <1>1, <1>2

LEMMA RethrownRecord ==
  ASSUME NEW c, NEW partial \in BOOLEAN, NEW e \in CliSet, e = Thrown(c, "tear", partial),
         NEW d, d = Rethrow(c, partial)
  PROVE  Resumed(e, d) /\ (partial /\ c.ask.op = "rollback" => d.blame)
<1>1. PICK u \in BOOLEAN : u <=> e.blame \/ (partial /\ c.ask.op = "rollback")
  OBVIOUS
<1>2. (e.blame \/ (partial /\ c.ask.op = "rollback")) = u
  BY <1>1
<1>3. d = [e EXCEPT !.at = "working", !.blame = u]
  BY <1>2 DEF Rethrow
<1> QED  BY <1>1, <1>3 DEF Resumed, CliSet

LEMMA UndoReturnsKeeps ==
  ASSUME ConstantsOK, IInv, NEW p \in Procs, UndoReturns(p)
  PROVE  IInv'
<1> DEFINE c == cli[p]
<1>1. c.at = "undoing" /\ host' = Restored(p) /\ UNCHANGED <<lock, manager, tainted, mishaps>>
      /\ cli \in [Procs -> CliSet] /\ mishaps \in 0..MaxMishaps
  BY DEF UndoReturns, IInv, Shape
<1>2. /\ Working(c, host, manager, ~tainted) /\ Holds(p) /\ c \in CliSet
      /\ KnownOp(c) /\ HostShape(host)
      /\ Mine(p) = MineOf(c, host) /\ Mine(p) \in 1..Len(host.receipts)
      /\ Source(p).bridge \in Content
      /\ Source(p).hstatus \in {"none", "installed", "rolled-back"}
  BY <1>1, UndoContext
<1>3. PICK g : g = Restored(p)
  OBVIOUS
<1> DEFINE b == Source(p).bridge
           t == Source(p).hstatus
           k == Mine(p)
<1>4. /\ HostShape(g) /\ Undone(c, host, g) /\ g.bridge = Source(p).bridge
      /\ ReceiptOf(c, g).hstatus = Source(p).hstatus
      /\ Len(g.receipts) = Len(host.receipts) /\ Len(host.receipts) \in Nat
  <2>1. g = BridgedAs(host, k, b, t)
    BY <1>3 DEF Restored, BridgedAs
  <2> HIDE DEF b, t, k
  <2>2. b \in Content /\ t \in {"none", "installed", "rolled-back"}
        /\ k = MineOf(c, host) /\ k \in 1..Len(host.receipts)
    BY <1>2 DEF b, t, k
  <2>3. Rebridged(c, host, b, t, g)
    BY <1>2, <2>1, <2>2, BridgeEdit
  <2> QED  BY <2>3 DEF Rebridged, b, t
<1> HIDE DEF b, t, k
<1>5. ~c.back => PutBack(c, host, g)
  BY <1>1, <1>4, UndoContext DEF PutBack
<1>6. PICK e : e = Thrown(c, "tear", FALSE)
  OBVIOUS
<1>7. e \in CliSet
  BY <1>2, <1>6, ThrownRecord
<1>8. PICK d : d = Rethrow(c, FALSE)
  OBVIOUS
<1>9. Resumed(e, d)
  BY <1>6, <1>7, <1>8, RethrownRecord
<1>10. cli' = [cli EXCEPT ![p] = d]
  BY <1>8 DEF UndoReturns
<1>11. TaskFollows(d, g, manager, ~tainted) /\ HostFits(g, manager)
  BY <1>1, <1>2, <1>4, <1>5, <1>6, <1>9, UndoneWork
<1>12. WorksOn(p, d)
  BY <1>1, <1>3, <1>4, <1>9, <1>10, <1>11 DEF WorksOn, Resumed
<1> QED  BY <1>2, <1>12, WorkKeeps

LEMMA UndoThrowsKeeps ==
  ASSUME ConstantsOK, IInv, NEW p \in Procs, UndoThrows(p)
  PROVE  IInv'
<1> DEFINE c == cli[p]
<1>1. c.at = "undoing" /\ UNCHANGED <<lock, manager, tainted>>
      /\ cli \in [Procs -> CliSet] /\ mishaps \in 0..MaxMishaps
      /\ mishaps < MaxMishaps /\ mishaps' = mishaps + 1
  BY DEF UndoThrows, IInv, Shape, Mishap
<1>2. /\ Working(c, host, manager, ~tainted) /\ Holds(p) /\ c \in CliSet
      /\ KnownOp(c) /\ HostShape(host)
      /\ Mine(p) = MineOf(c, host) /\ Mine(p) \in 1..Len(host.receipts)
      /\ Source(p).bridge \in Content
      /\ Source(p).hstatus \in {"none", "installed", "rolled-back"}
  BY <1>1, UndoContext
<1>3. PICK b \in {host.bridge, Source(p).bridge, Changed},
           t \in {host.receipts[Mine(p)].hstatus, Source(p).hstatus} :
        host' = [host EXCEPT !.bridge = b, !.receipts[Mine(p)].hstatus = t]
  BY DEF UndoThrows
<1>4. b \in Content /\ t \in {"none", "installed", "rolled-back"}
  <2>1. host.bridge \in Content /\ Changed \in Content
    BY <1>2 DEF HostShape, Content
  <2>2. host.receipts[Mine(p)].hstatus \in {"none", "installed", "rolled-back"}
    BY <1>2, ReceiptsAre DEF ReceiptSet
  <2> QED  BY <1>2, <1>3, <2>1, <2>2
<1>5. PICK g : g = [host EXCEPT !.bridge = b, !.receipts[Mine(p)].hstatus = t]
  OBVIOUS
<1>6. /\ HostShape(g) /\ Undone(c, host, g)
      /\ Len(g.receipts) = Len(host.receipts) /\ Len(host.receipts) \in Nat
  <2>1. g = BridgedAs(host, Mine(p), b, t)
    BY <1>5 DEF BridgedAs
  <2>2. Rebridged(c, host, b, t, g)
    BY <1>2, <1>4, <2>1, BridgeEdit
  <2> QED  BY <2>2 DEF Rebridged
<1>7. PICK e : e = Thrown(c, "tear", TRUE)
  OBVIOUS
<1>8. /\ e \in CliSet /\ e.ask = c.ask /\ (c.back => e.blame)
      /\ ~c.back /\ Applies(c) => e.unseen
  BY <1>2, <1>7, ThrownRecord
<1>9. PICK d : d = Rethrow(c, TRUE)
  OBVIOUS
<1>10. Resumed(e, d) /\ (c.ask.op = "rollback" => d.blame)
  BY <1>7, <1>8, <1>9, RethrownRecord
<1>11. cli' = [cli EXCEPT ![p] = d]
  BY <1>9 DEF UndoThrows
<1>12. ~c.back /\ Vouched(d) => PutBack(c, host, g)
  <2> SUFFICES ASSUME ~c.back, Vouched(d) PROVE FALSE
    OBVIOUS
  <2>1. c.ask.op # "rollback" /\ c.ask.op # "uninstall"
    BY <1>8, <1>10 DEF Vouched, Resumed
  <2>2. Applies(c)
    BY <1>2, <2>1 DEF KnownOp, Applies
  <2> QED  BY <1>8, <1>10, <2>2 DEF Vouched, Resumed
<1>13. TaskFollows(d, g, manager, ~tainted) /\ HostFits(g, manager)
  BY <1>1, <1>2, <1>6, <1>7, <1>10, <1>12, UndoneWork
<1>14. mishaps' \in 0..MaxMishaps
  BY <1>1 DEF ConstantsOK
<1>15. WorksOn(p, d)
  BY <1>1, <1>3, <1>5, <1>6, <1>10, <1>11, <1>13, <1>14 DEF WorksOn, Resumed
<1> QED  BY <1>2, <1>15, WorkKeeps

-----------------------------------------------------------------------------
(* A command that is not at work.                                          *)

\* The record of p becomes d, and the machine is left as it is.
Settles(p, d) ==
  /\ cli' = [cli EXCEPT ![p] = d] /\ d \in CliSet /\ d.at \in {"idle", "asked"}
  /\ d = [Idle EXCEPT !.at = d.at, !.ask = d.ask]
  /\ d.at = "asked" => AskFits(d, host, manager)
  /\ IF Holds(p) THEN lock' \in {"free", "stale"} ELSE lock' = lock /\ tainted' = tainted
  /\ UNCHANGED <<host, manager>>
  /\ tainted' \in BOOLEAN /\ mishaps' \in 0..MaxMishaps

LEMMA SettleKeeps ==
  ASSUME ConstantsOK, IInv, NEW p \in Procs, NEW d, Settles(p, d), RestsWell'
  PROVE  IInv'
<1>1. /\ cli' = [cli EXCEPT ![p] = d] /\ d \in CliSet /\ d.at \in {"idle", "asked"}
      /\ d = [Idle EXCEPT !.at = d.at, !.ask = d.ask]
      /\ d.at = "asked" => AskFits(d, host, manager)
      /\ IF Holds(p) THEN lock' \in {"free", "stale"} ELSE lock' = lock /\ tainted' = tainted
      /\ host' = host /\ manager' = manager
      /\ tainted' \in BOOLEAN /\ mishaps' \in 0..MaxMishaps
  BY DEF Settles
<1>2. Shape /\ TasksFollow /\ HostFits(host, manager)
  BY DEF IInv
<1>3. cli \in [Procs -> CliSet] /\ lock \in Procs \cup {"free", "stale"}
      /\ \A q \in Procs : Holds(q) <=> lock = q
  BY <1>2 DEF Shape
<1>4. cli'[p] = d /\ (\A q \in Procs : q # p => cli'[q] = cli[q])
      /\ cli' \in [Procs -> CliSet]
  BY <1>1, <1>3
<1>5. d.at \notin {"working", "undoing"}
  BY <1>1
<1>6. \A q \in Procs : q \notin {"free", "stale"}
  BY DEF ConstantsOK
<1>7. ASSUME NEW q \in Procs
      PROVE  cli'[q].at \in {"working", "undoing"} <=> lock' = q
  <2>1. CASE q = p
    BY <1>1, <1>3, <1>4, <1>5, <1>6, <2>1
  <2>2. CASE q # p
    <3>1. cli'[q].at \in {"working", "undoing"} <=> lock = q
      BY <1>3, <1>4, <2>2 DEF Holds
    <3> QED  BY <1>1, <1>3, <1>6, <2>2, <3>1
  <2> QED  BY <2>1, <2>2
<1>8. Shape'
  <2>1. HostShape(host') /\ manager' \in Managers /\ lock' \in Procs \cup {"free", "stale"}
    BY <1>1, <1>2 DEF Shape
  <2>2. \A q \in Procs : Holds(q)' <=> lock' = q
    BY <1>7 DEF Holds
  <2> QED  BY <1>1, <1>4, <2>1, <2>2 DEF Shape
<1>9. ASSUME NEW q \in Procs
      PROVE  /\ cli'[q].at = "asked" => AskFits(cli'[q], host', manager')
             /\ cli'[q].at \notin {"working", "undoing"} =>
                  cli'[q] = [Idle EXCEPT !.at = cli'[q].at, !.ask = cli'[q].ask]
             /\ cli'[q].at \in {"working", "undoing"} =>
                  TaskFollows(cli'[q], host', manager', ~tainted')
  <2>1. CASE q = p
    BY <1>1, <1>4, <1>5, <2>1
  <2>2. CASE q # p
    <3>1. cli'[q] = cli[q]
      BY <1>4, <2>2
    <3>2. /\ cli[q].at = "asked" => AskFits(cli[q], host, manager)
          /\ cli[q].at \notin {"working", "undoing"} =>
               cli[q] = [Idle EXCEPT !.at = cli[q].at, !.ask = cli[q].ask]
      BY <1>2 DEF TasksFollow, Holds
    <3>3. CASE cli[q].at \notin {"working", "undoing"}
      BY <1>1, <3>1, <3>2, <3>3
    <3>4. CASE cli[q].at \in {"working", "undoing"}
      <4>1. Holds(q) /\ lock = q /\ ~Holds(p)
        BY <1>3, <2>2, <3>4 DEF Holds
      <4>2. TaskFollows(cli[q], host, manager, ~tainted)
        BY <1>2, <4>1 DEF TasksFollow
      <4>3. manager' = manager /\ host' = host /\ tainted' = tainted
        BY <1>1, <4>1
      <4>4. TaskFollows(cli'[q], host', manager', ~tainted')
        BY <3>1, <4>2, <4>3
      <4> QED  BY <3>1, <3>4, <4>4
    <3> QED  BY <3>3, <3>4
  <2> QED  BY <2>1, <2>2
<1>10. TasksFollow'
  BY <1>9 DEF TasksFollow, Holds
<1> QED  BY <1>1, <1>2, <1>8, <1>10 DEF IInv

LEMMA StillRestsWell ==
  ASSUME IInv, NEW p \in Procs, ~Holds(p), NEW d, Settles(p, d)
  PROVE  RestsWell'
BY DEF IInv, RestsWell, Settles

LEMMA IdleFits ==
  ASSUME ConstantsOK
  PROVE  /\ Idle \in CliSet /\ Idle.at = "idle"
         /\ Idle = [Idle EXCEPT !.at = Idle.at, !.ask = Idle.ask]
<1>1. Idle = [at |-> "idle", ask |-> NoRequest, todo |-> {}, back |-> FALSE,
              was |-> Nothing, touched |-> {}, blame |-> FALSE, unseen |-> FALSE]
  BY DEF Idle
<1>2. NoRequest \in [op : Apply \cup {"none", "rollback", "uninstall"},
          release : Releases \cup {Nothing}, hermes : BOOLEAN,
          managed : BOOLEAN, mine : Nat, status : Final \cup {"none"}]
  BY DEF NoRequest
<1>3. Idle \in CliSet
  BY <1>1, <1>2 DEF CliSet
<1> QED  BY <1>1, <1>3

\* A request is noted in an idle record.
LEMMA AskKeeps ==
  ASSUME ConstantsOK, IInv, NEW p \in Procs, NEW request, Ask(p, request),
         request \in AskSet,
         \A c : c.ask = request => AskFits(c, host, manager)
  PROVE  IInv'
<1>1. /\ cli[p].at = "idle" /\ cli' = [cli EXCEPT ![p].at = "asked", ![p].ask = request]
      /\ UNCHANGED <<host, lock, manager, tainted, mishaps>>
  BY DEF Ask
<1>2. ~Holds(p) /\ cli \in [Procs -> CliSet] /\ tainted \in BOOLEAN
      /\ mishaps \in 0..MaxMishaps
  BY <1>1 DEF Holds, IInv, Shape
<1>3. cli[p] = [Idle EXCEPT !.at = cli[p].at, !.ask = cli[p].ask]
  BY <1>2 DEF IInv, TasksFollow
<1> DEFINE d == [cli[p] EXCEPT !.at = "asked", !.ask = request]
<1>4. cli' = [cli EXCEPT ![p] = d]
  BY <1>1, <1>2
<1>5. d.at = "asked" /\ d.ask = request
  BY <1>2 DEF CliSet
<1>6. d = [Idle EXCEPT !.at = d.at, !.ask = d.ask]
  BY <1>3, <1>5 DEF Idle
<1>7. d \in CliSet
  <2>1. cli[p] \in CliSet
    BY <1>2
  <2> QED  BY <2>1 DEF CliSet, AskSet
<1>8. AskFits(d, host, manager)
  BY <1>5
<1> HIDE DEF d
<1>9. Settles(p, d)
  BY <1>1, <1>2, <1>4, <1>5, <1>6, <1>7, <1>8 DEF Settles
<1> QED  BY <1>2, <1>9, StillRestsWell, SettleKeeps

LEMMA RequestsKeep ==
  ASSUME ConstantsOK, IInv, NEW p \in Procs, Requests(p)
  PROVE  IInv'
<1>1. HostShape(host) /\ Len(host.receipts) \in Nat /\ host.pointer \in 0..Len(host.receipts)
      /\ \A i \in 1..Len(host.receipts) : host.receipts[i] \in ReceiptSet
  BY ReceiptsAre DEF IInv, Shape, HostShape
<1>2. NoRequest \in AskSet /\ NoRequest.mine = 0
  BY DEF NoRequest, AskSet
<1>3. \A op \in Apply \cup {"rollback", "uninstall"} :
        Asked(op) \in AskSet /\ Asked(op).op = op /\ Asked(op).mine = 0
  BY <1>2 DEF Asked, AskSet
<1>4. ASSUME NEW r \in Releases, NEW hermes \in BOOLEAN, NEW managed \in BOOLEAN,
             AskApply(p, r, hermes, managed)
      PROVE  IInv'
  <2> DEFINE op == IF host.pointer = 0 THEN "install" ELSE "upgrade"
             plain == Asked(op)
             request == [plain EXCEPT !.release = r, !.hermes = hermes, !.managed = managed]
  <2>1. Ask(p, request) /\ op \in Apply
    BY <1>4 DEF AskApply, Apply
  <2> HIDE DEF op
  <2>0. plain \in AskSet /\ plain.op = op /\ plain.mine = 0
    BY <1>3, <2>1
  <2> HIDE DEF plain
  <2>2. request \in AskSet /\ request.op = op /\ request.release = r
        /\ request.mine = 0
    BY <2>0 DEF AskSet
  <2> HIDE DEF request
  <2>3. request.managed => manager # "none"
    BY <2>1 DEF Ask
  <2>4. \A c : c.ask = request => AskFits(c, host, manager)
    BY <2>1, <2>2, <2>3 DEF AskFits, Applies, Apply
  <2> QED  BY <2>1, <2>2, <2>4, AskKeeps
<1>5. ASSUME NEW i \in 1..Len(host.receipts), NEW managed \in BOOLEAN,
             AskRollback(p, i, managed)
      PROVE  IInv'
  <2> DEFINE st == host.receipts[i].status
             plain == Asked("rollback")
             request == [plain EXCEPT !.mine = i, !.managed = managed, !.status = st]
  <2>1. Ask(p, request) /\ st \in Final
    BY <1>5 DEF AskRollback
  <2> HIDE DEF st
  <2>0. plain \in AskSet /\ plain.op = "rollback" /\ i \in Nat
    BY <1>1, <1>3
  <2> HIDE DEF plain
  <2>2. request \in AskSet /\ request.op = "rollback" /\ request.mine = i
        /\ request.status = st
    BY <2>0, <2>1 DEF AskSet
  <2> HIDE DEF request
  <2>3. request.managed => manager # "none"
    BY <2>1 DEF Ask
  <2>4. \A c : c.ask = request => AskFits(c, host, manager)
    BY <2>1, <2>2, <2>3 DEF AskFits, Applies, Apply
  <2> QED  BY <2>1, <2>2, <2>4, AskKeeps
<1>6. ASSUME NEW managed \in BOOLEAN, AskUninstall(p, managed)
      PROVE  IInv'
  <2> DEFINE i == host.pointer
             plain == Asked("uninstall")
             request == [plain EXCEPT !.mine = i, !.managed = managed]
  <2>1. Ask(p, request) /\ i \in 1..Len(host.receipts)
    BY <1>1, <1>6 DEF AskUninstall
  <2> HIDE DEF i
  <2>0. plain \in AskSet /\ plain.op = "uninstall" /\ i \in Nat
    BY <1>1, <1>3, <2>1
  <2> HIDE DEF plain
  <2>2. request \in AskSet /\ request.op = "uninstall" /\ request.mine = i
    BY <2>0, <2>1 DEF AskSet
  <2> HIDE DEF request
  <2>3. request.managed => manager # "none"
    BY <2>1 DEF Ask
  <2>4. \A c : c.ask = request => AskFits(c, host, manager)
    BY <2>1, <2>2, <2>3 DEF AskFits, Applies, Apply
  <2> QED  BY <2>1, <2>2, <2>4, AskKeeps
<1> QED  BY <1>4, <1>5, <1>6 DEF Requests

LEMMA RefuseKeeps ==
  ASSUME ConstantsOK, IInv, NEW p \in Procs, Refuse(p)
  PROVE  IInv'
<1>1. ~Holds(p) /\ tainted \in BOOLEAN /\ mishaps \in 0..MaxMishaps
  BY DEF Refuse, Holds, IInv, Shape
<1>2. Settles(p, Idle)
  BY <1>1, IdleFits DEF Refuse, Settles
<1> QED  BY <1>1, <1>2, StillRestsWell, SettleKeeps

-----------------------------------------------------------------------------
(* What a command leaves behind.                                           *)

LEMMA NextIsFounded ==
  ASSUME NEW c, NEW h, NEW m, NEW clean, Working(c, h, m, clean),
         Applies(c) => Prepared(c, h)
  PROVE  Founded(h, NextPointer(c, h), clean)
<1>1. /\ KnownOp(c) /\ HostShape(h) /\ HostFits(h, m) /\ TaskKnown(c, h, m)
      /\ clean \in BOOLEAN /\ (clean => CleanFollows(c, h))
      /\ Founded(h, c.was.pointer, clean)
  BY DEF Working, TaskFollows
<1>2. Len(h.receipts) \in Nat /\ c.was.pointer \in 0..Len(h.receipts)
  BY <1>1, ReceiptsAre DEF TaskKnown
<1>3. CASE Applies(c)
  <2> DEFINE i == Len(h.receipts)
             w == c.was.pointer
  <2>1. NextPointer(c, h) = i /\ ReceiptOf(c, h) = h.receipts[i]
    BY <1>3 DEF NextPointer, ReceiptOf, MineOf
  <2>2. /\ w < i /\ h.receipts[i].prev = w /\ h.receipts[i].priorBridge = c.was.bridge
    BY <1>3, <2>1 DEF Prepared
  <2>3. w \in Nat /\ i \in 1..Len(h.receipts) /\ (w # 0 => FinalIn(h, w))
    BY <1>1, <1>2, <1>3, <2>2 DEF TaskKnown
  <2>4. clean => Linked(h, i)
    BY <1>1, <1>3, <2>2 DEF Linked, CleanFollows
  <2> HIDE DEF i, w
  <2>5. Founded(h, w, clean)
    BY <1>1 DEF w
  <2> QED  BY <1>1, <2>1, <2>2, <2>3, <2>4, <2>5, FoundedOver
<1>4. CASE c.ask.op = "rollback"
  <2> DEFINE i == c.was.pointer
  <2>1. ~Applies(c) /\ c.ask.mine = i /\ i # 0
    BY <1>1, <1>4 DEF Applies, Apply, TaskKnown
  <2>2. NextPointer(c, h) = h.receipts[i].prev
    BY <1>4, <2>1 DEF NextPointer, ReceiptOf, MineOf
  <2>3. i \in 1..Len(h.receipts) /\ Founded(h, i, clean)
    BY <1>1, <1>2, <2>1
  <2> HIDE DEF i
  <2>4. CASE h.receipts[i].prev = 0
    BY <2>2, <2>4 DEF Founded
  <2>5. CASE h.receipts[i].prev # 0
    <3>1. Founded(h, h.receipts[i].prev, clean)
      BY <1>1, <2>3, <2>5, FoundedUnder
    <3> QED  BY <2>2, <3>1
  <2> QED  BY <2>4, <2>5
<1>5. CASE c.ask.op = "uninstall"
  BY <1>5 DEF NextPointer, Applies, Apply, Founded
<1> QED  BY <1>1, <1>3, <1>4, <1>5 DEF KnownOp, Applies

\* The pointer stays where a rollback can go back from, wherever a command stops.
LEMMA PointerIsFounded ==
  ASSUME NEW c, NEW h, NEW m, NEW clean, Working(c, h, m, clean)
  PROVE  Founded(h, h.pointer, FALSE)
<1>1. /\ TaskKnown(c, h, m) /\ PreparedFollows(c, h) /\ TodoFits(c, h, m)
      /\ PointerFollows(c, h) /\ clean \in BOOLEAN /\ Founded(h, c.was.pointer, clean)
  BY DEF Working, TaskFollows
<1>2. CASE h.pointer = c.was.pointer
  BY <1>1, <1>2, FoundedWithTaint
<1>3. CASE h.pointer # c.was.pointer
  <2>1. h.pointer = NextPointer(c, h) /\ (~c.back => "point" \notin c.todo)
    BY <1>1, <1>3 DEF PointerFollows
  <2>2. Applies(c) => Prepared(c, h)
    BY <1>1, <1>3, <2>1 DEF PreparedFollows, TodoFits, Everything
  <2>3. Founded(h, h.pointer, clean)
    BY <2>1, <2>2, NextIsFounded
  <2> QED  BY <1>1, <2>3, FoundedWithTaint
<1> QED  BY <1>2, <1>3

Rests(h, clean) ==
  /\ Founded(h, h.pointer, clean)
  /\ clean /\ h.pointer # 0 => Bears(h, h.pointer, h.bridge)

\* An operation that says it is done, and one that says it has put all back.
LEMMA DoneRests ==
  ASSUME NEW c, NEW h, NEW m, Working(c, h, m, TRUE), c.todo = {}, ~c.back
  PROVE  Rests(h, TRUE)
<1>1. /\ KnownOp(c) /\ HostShape(h) /\ HostFits(h, m) /\ TaskKnown(c, h, m)
      /\ PreparedFollows(c, h) /\ PointerFollows(c, h) /\ BridgeFollows(c, h)
      /\ StatusFollows(c, h) /\ CleanFollows(c, h) /\ Founded(h, c.was.pointer, TRUE)
  BY DEF Working, TaskFollows
<1>2. h.pointer = NextPointer(c, h)
  BY <1>1 DEF PointerFollows
<1>3. Applies(c) => Prepared(c, h)
  BY <1>1 DEF PreparedFollows
<1>4. Founded(h, h.pointer, TRUE)
  BY <1>2, <1>3, NextIsFounded
<1>5. CASE Applies(c)
  <2>1. h.pointer = Len(h.receipts) /\ ReceiptOf(c, h) = h.receipts[h.pointer]
    BY <1>2, <1>5 DEF NextPointer, ReceiptOf, MineOf
  <2>2. ReceiptOf(c, h).bridge <=> c.ask.hermes
    BY <1>1, <1>5 DEF StatusFollows
  <2>3. c.ask.op # "uninstall" /\ (HasTask(c, h) <=> c.ask.hermes)
    BY <1>5 DEF HasTask, Has, Applies, Apply
  <2>4. CASE c.ask.hermes
    BY <1>1, <1>4, <1>5, <2>1, <2>2, <2>3, <2>4 DEF BridgeFollows, EndIn, Bears, Rests
  <2>5. CASE ~c.ask.hermes
    <3>1. h.bridge = c.was.bridge
      BY <1>1, <2>3, <2>5 DEF BridgeFollows
    <3> QED  BY <1>3, <1>4, <1>5, <2>1, <2>2, <2>5, <3>1 DEF Prepared, Bears, Rests
  <2> QED  BY <2>4, <2>5
<1>6. CASE c.ask.op = "rollback"
  <2> DEFINE i == c.was.pointer
  <2>1. ~Applies(c) /\ c.ask.mine = i /\ i # 0 /\ i \in 0..Len(h.receipts)
    BY <1>1, <1>6 DEF Applies, Apply, TaskKnown
  <2>2. ReceiptOf(c, h) = h.receipts[i] /\ h.pointer = h.receipts[i].prev
    BY <1>2, <1>6, <2>1 DEF NextPointer, ReceiptOf, MineOf
  <2>3. i \in 1..Len(h.receipts)
    BY <1>1, <2>1, ReceiptsAre
  <2>4. h.bridge = h.receipts[i].priorBridge
    <3>1. CASE h.receipts[i].bridge
      BY <1>1, <1>6, <2>1, <2>2, <3>1 DEF BridgeFollows, HasTask, Has, EndIn
    <3>2. CASE ~h.receipts[i].bridge
      BY <1>1, <1>6, <2>1, <2>2, <3>2 DEF BridgeFollows, CleanFollows, HasTask, Has
    <3> QED  BY <3>1, <3>2
  <2>5. Founded(h, i, TRUE)
    BY <1>1
  <2> HIDE DEF i
  <2>6. ASSUME h.pointer # 0 PROVE Bears(h, h.pointer, h.bridge)
    <3>1. Linked(h, i)
      BY <1>1, <2>2, <2>3, <2>5, <2>6, FoundedUnder
    <3> QED  BY <2>2, <2>4, <2>6, <3>1 DEF Linked
  <2> QED  BY <1>4, <2>6 DEF Rests
<1>7. CASE c.ask.op = "uninstall"
  <2>1. h.pointer = 0
    BY <1>2, <1>7 DEF NextPointer, Applies, Apply
  <2> QED  BY <1>4, <2>1 DEF Rests
<1> QED  BY <1>1, <1>5, <1>6, <1>7 DEF KnownOp, Applies

LEMMA FailedRests ==
  ASSUME NEW c, NEW h, NEW m, Working(c, h, m, TRUE), c.todo = {}, c.at = "working",
         c.back, ~c.blame, ~c.unseen
  PROVE  Rests(h, TRUE)
<1>1. /\ KnownOp(c) /\ TaskKnown(c, h, m) /\ PreparedFollows(c, h)
      /\ PointerFollows(c, h) /\ BridgeFollows(c, h)
      /\ StatusFollows(c, h) /\ CleanFollows(c, h) /\ Founded(h, c.was.pointer, TRUE)
  BY DEF Working, TaskFollows
<1>2. CASE c.ask.op = "uninstall"
  <2>1. ~Applies(c) /\ ~HasTask(c, h) /\ c.ask.mine = c.was.pointer
    BY <1>1, <1>2 DEF Applies, Apply, HasTask, TaskKnown
  <2>2. h.pointer \in {c.was.pointer, 0}
    BY <1>1, <1>2, <2>1 DEF PointerFollows, NextPointer
  <2>3. h.bridge = c.was.bridge /\ Bears(h, c.was.pointer, c.was.bridge)
    BY <1>1, <1>2, <2>1 DEF BridgeFollows, CleanFollows
  <2>4. Founded(h, 0, TRUE)
    BY DEF Founded
  <2>5. CASE h.pointer = 0
    BY <2>4, <2>5 DEF Rests
  <2>6. CASE h.pointer = c.was.pointer
    BY <1>1, <2>3, <2>6 DEF Rests
  <2> QED  BY <2>2, <2>5, <2>6
<1>3. CASE c.ask.op # "uninstall"
  <2>1. Vouched(c)
    BY <1>3 DEF Vouched
  <2>2. h.pointer = c.was.pointer
    BY <1>1, <2>1 DEF PointerFollows
  <2>3. h.bridge = c.was.bridge
    BY <1>1, <2>1 DEF BridgeFollows
  <2>4. CASE Applies(c)
    BY <1>1, <2>2, <2>3, <2>4 DEF CleanFollows, Rests
  <2>5. CASE ~Applies(c)
    <3>1. c.ask.op = "rollback" /\ c.ask.mine = c.was.pointer
      BY <1>1, <1>3, <2>5 DEF KnownOp, Applies, TaskKnown
    <3>2. ReceiptOf(c, h) = h.receipts[h.pointer]
      BY <2>2, <2>5, <3>1 DEF ReceiptOf, MineOf
    <3>3. Bears(h, h.pointer, h.bridge)
      BY <1>1, <2>1, <2>3, <3>1, <3>2 DEF CleanFollows, Bears
    <3> QED  BY <1>1, <2>2, <3>3 DEF Rests
  <2> QED  BY <2>4, <2>5
<1> QED  BY <1>2, <1>3

LEMMA LeaveKeeps ==
  ASSUME ConstantsOK, IInv, NEW p \in Procs, Leave(p)
  PROVE  IInv'
<1> DEFINE c == cli[p]
<1>1. /\ c.at = "working" /\ c.todo = {} /\ lock' = "free"
      /\ cli' = [cli EXCEPT ![p] = Idle]
      /\ tainted' = (tainted \/ Outcome(p) = "incomplete" \/ c.unseen)
      /\ UNCHANGED <<host, manager, mishaps>>
  BY DEF Leave, Over
<1>2. Working(c, host, manager, ~tainted) /\ Holds(p)
  BY <1>1, AtWork
<1>3. tainted \in BOOLEAN /\ mishaps \in 0..MaxMishaps /\ c \in CliSet
  BY <1>2 DEF IInv, Shape, Working
<1>4. c.back \in BOOLEAN /\ c.blame \in BOOLEAN /\ c.unseen \in BOOLEAN
  BY <1>3 DEF CliSet
<1>5. tainted' \in BOOLEAN
  BY <1>1, <1>3, <1>4
<1>6. Settles(p, Idle)
  BY <1>1, <1>2, <1>3, <1>5, IdleFits DEF Settles
<1>7. Founded(host, host.pointer, FALSE)
  BY <1>2, PointerIsFounded
<1>8. ASSUME ~tainted' PROVE Rests(host, TRUE)
  <2>1. ~tainted /\ Outcome(p) # "incomplete" /\ ~c.unseen
    BY <1>1, <1>8
  <2>2. Working(c, host, manager, TRUE)
    <3>1. (~tainted) = TRUE
      BY <1>3, <2>1
    <3> QED  BY <1>2, <3>1
  <2>3. CASE ~c.back
    BY <1>1, <2>2, <2>3, DoneRests
  <2>4. CASE c.back
    <3>1. ~c.blame
      BY <2>1, <2>4 DEF Outcome
    <3> HIDE DEF c
    <3> QED  BY <1>1, <2>1, <2>2, <2>4, <3>1, FailedRests
  <2> QED  BY <2>3, <2>4
<1>9. RestsWell'
  <2>1. CASE tainted'
    <3>1. (~tainted') = FALSE
      BY <1>5, <2>1
    <3> QED  BY <1>1, <1>7, <3>1 DEF RestsWell
  <2>2. CASE ~tainted'
    <3>1. (~tainted') = TRUE
      BY <1>5, <2>2
    <3>2. Rests(host, TRUE)
      BY <1>8, <2>2
    <3> QED  BY <1>1, <3>1, <3>2 DEF RestsWell, Rests
  <2> QED  BY <2>1, <2>2
<1> QED  BY <1>6, <1>9, SettleKeeps

LEMMA CrashKeeps ==
  ASSUME ConstantsOK, IInv, NEW p \in Procs, Crash(p)
  PROVE  IInv'
<1>1. /\ cli[p].at \in {"working", "undoing"} /\ cli' = [cli EXCEPT ![p] = Idle]
      /\ lock' = "stale" /\ tainted' = TRUE /\ UNCHANGED <<host, manager>>
      /\ mishaps < MaxMishaps /\ mishaps' = mishaps + 1
  BY DEF Crash, Mishap
<1>2. Working(cli[p], host, manager, ~tainted) /\ Holds(p)
  BY <1>1, AtWork
<1>3. mishaps' \in 0..MaxMishaps
  BY <1>1 DEF IInv, Shape, ConstantsOK
<1>4. Settles(p, Idle)
  BY <1>1, <1>2, <1>3, IdleFits DEF Settles
<1>5. Founded(host, host.pointer, FALSE)
  BY <1>2, PointerIsFounded
<1>6. RestsWell'
  <2>1. (~tainted') = FALSE
    BY <1>1
  <2> QED  BY <1>1, <1>5, <2>1 DEF RestsWell
<1> QED  BY <1>4, <1>6, SettleKeeps

-----------------------------------------------------------------------------
(* A command that enters the lock.                                         *)

LEMMA PathSteps ==
  /\ \A s : s \in Steps(ApplyPath) <=> s \in AllSteps
  /\ \A s : s \in Steps(RollbackPath) <=> s \in {"point", "finish"} \cup Service \cup Bridge
  /\ \A s : s \in Steps(UninstallPath) <=> s \in {"stop", "define", "reload", "point", "finish"}
<1>1. \A s : s \in Steps(ApplyPath) <=> s \in AllSteps
  <2> DEFINE path == ApplyPath
  <2>1. /\ Len(path) = 12
        /\ path[1] = "prepare" /\ path[2] = "release" /\ path[3] = "tear"
        /\ path[4] = "seal" /\ path[5] = "sign" /\ path[6] = "note"
        /\ path[7] = "stop" /\ path[8] = "define" /\ path[9] = "reload"
        /\ path[10] = "start" /\ path[11] = "point" /\ path[12] = "finish"
    BY DEF ApplyPath
  <2>2. \A i : i \in 1..12 <=> i \in {1, 2, 3, 4, 5, 6, 7, 8, 9, 10, 11, 12}
    OBVIOUS
  <2>3. \A s : s \in Steps(path) <=> \E i \in 1..12 : path[i] = s
    BY <2>1 DEF Steps
  <2> HIDE DEF path
  <2>4. \A s : s \in Steps(path) <=>
          s \in {path[1], path[2], path[3], path[4], path[5], path[6], path[7], path[8],
                 path[9], path[10], path[11], path[12]}
    BY <2>2, <2>3
  <2> QED  BY <2>1, <2>4 DEF AllSteps, Service, Bridge, path
<1>2. \A s : s \in Steps(RollbackPath) <=> s \in {"point", "finish"} \cup Service \cup Bridge
  <2> DEFINE path == RollbackPath
  <2>1. /\ Len(path) = 9
        /\ path[1] = "stop" /\ path[2] = "tear" /\ path[3] = "seal" /\ path[4] = "sign"
        /\ path[5] = "define" /\ path[6] = "reload" /\ path[7] = "start"
        /\ path[8] = "point" /\ path[9] = "finish"
    BY DEF RollbackPath
  <2>2. \A i : i \in 1..9 <=> i \in {1, 2, 3, 4, 5, 6, 7, 8, 9}
    OBVIOUS
  <2>3. \A s : s \in Steps(path) <=> \E i \in 1..9 : path[i] = s
    BY <2>1 DEF Steps
  <2> HIDE DEF path
  <2>4. \A s : s \in Steps(path) <=> s \in {path[1], path[2], path[3], path[4], path[5],
                                            path[6], path[7], path[8], path[9]}
    BY <2>2, <2>3
  <2> QED  BY <2>1, <2>4 DEF Service, Bridge, path
<1>3. \A s : s \in Steps(UninstallPath) <=> s \in {"stop", "define", "reload", "point", "finish"}
  <2> DEFINE path == UninstallPath
  <2>1. /\ Len(path) = 5
        /\ path[1] = "stop" /\ path[2] = "define" /\ path[3] = "reload"
        /\ path[4] = "point" /\ path[5] = "finish"
    BY DEF UninstallPath
  <2>2. \A i : i \in 1..5 <=> i \in {1, 2, 3, 4, 5}
    OBVIOUS
  <2>3. \A s : s \in Steps(path) <=> \E i \in 1..5 : path[i] = s
    BY <2>1 DEF Steps
  <2> HIDE DEF path
  <2>4. \A s : s \in Steps(path) <=> s \in {path[1], path[2], path[3], path[4], path[5]}
    BY <2>2, <2>3
  <2> QED  BY <2>1, <2>4 DEF path
<1> QED  BY <1>1, <1>2, <1>3

\* The steps of a task that has just begun.
FreshTodo(c, h, m) ==
  /\ c.todo \subseteq AllSteps
  /\ {"point", "finish"} \subseteq c.todo
  /\ "prepare" \in c.todo <=> Applies(c)
  /\ "release" \in c.todo <=> Applies(c)
  /\ "note" \in c.todo <=> Applies(c) /\ c.ask.hermes
  /\ "tear" \in c.todo <=> HasTask(c, h)
  /\ "seal" \in c.todo <=> HasTask(c, h)
  /\ "sign" \in c.todo <=> HasTask(c, h)
  /\ "stop" \in c.todo <=> c.ask.managed /\ Up(h)
  /\ "define" \in c.todo <=> m # "none"
  /\ "reload" \in c.todo <=> c.ask.managed
  /\ "start" \in c.todo <=> c.ask.managed /\ ToStart(c, h)

LEMMA TodoIsFresh ==
  ASSUME NEW c, KnownOp(c),
         c.todo = {s \in Steps(Path(c.ask.op)) : Takes(c.ask, s)}
  PROVE  FreshTodo(c, host, manager)
<1>1. /\ HasBridge(c.ask) <=> Has(c, host)
      /\ Starts(c.ask) <=> ToStart(c, host)
      /\ Active <=> Up(host)
  <2>1. HasBridge(c.ask) <=> Has(c, host)
    BY DEF HasBridge, Has, ReceiptOf, MineOf, Applies
  <2>2. Starts(c.ask) <=> ToStart(c, host)
    BY DEF Starts, ToStart, ReceiptOf, MineOf, Applies
  <2> QED  BY <2>1, <2>2 DEF Active, Up
<1>2. /\ \A s \in {"prepare", "release", "point", "finish"} : Takes(c.ask, s)
      /\ \A s \in {"tear", "seal", "sign", "note"} : Takes(c.ask, s) <=> Has(c, host)
      /\ Takes(c.ask, "stop") <=> c.ask.managed /\ Up(host)
      /\ Takes(c.ask, "define") <=> manager # "none"
      /\ Takes(c.ask, "reload") <=> c.ask.managed
      /\ Takes(c.ask, "start") <=> c.ask.managed /\ ToStart(c, host)
  BY <1>1 DEF Takes, Bridge
<1>3. \A s : s \in c.todo <=> s \in Steps(Path(c.ask.op)) /\ Takes(c.ask, s)
  OBVIOUS
<1>4. CASE Applies(c)
  <2>1. c.ask.op # "uninstall" /\ Path(c.ask.op) = ApplyPath
    BY <1>4, Paths DEF Applies, Apply
  <2>2. \A s : s \in c.todo <=> s \in AllSteps /\ Takes(c.ask, s)
    BY <1>3, <2>1, PathSteps
  <2>3. (HasTask(c, host) <=> Has(c, host)) /\ (Has(c, host) <=> c.ask.hermes)
    BY <1>4, <2>1 DEF HasTask, Has
  <2> QED
    BY <1>2, <1>4, <2>2, <2>3 DEF FreshTodo, AllSteps, Service, Bridge
<1>5. CASE c.ask.op = "rollback"
  <2>1. ~Applies(c)
    BY <1>5 DEF Applies, Apply
  <2>2. \A s : s \in c.todo <=>
               s \in {"point", "finish"} \cup Service \cup Bridge /\ Takes(c.ask, s)
    BY <1>3, <1>5, Paths, PathSteps
  <2>3. HasTask(c, host) <=> Has(c, host)
    BY <1>5 DEF HasTask
  <2> QED
    BY <1>2, <2>1, <2>2, <2>3 DEF FreshTodo, AllSteps, Service, Bridge
<1>6. CASE c.ask.op = "uninstall"
  <2>1. ~Applies(c)
    BY <1>6 DEF Applies, Apply
  <2>2. \A s : s \in c.todo <=>
               s \in {"stop", "define", "reload", "point", "finish"} /\ Takes(c.ask, s)
    BY <1>3, <1>6, Paths, PathSteps
  <2>3. ~HasTask(c, host) /\ ~ToStart(c, host)
    BY <1>6, <2>1 DEF HasTask, ToStart
  <2> QED
    BY <1>2, <2>1, <2>2, <2>3 DEF FreshTodo, AllSteps, Service, Bridge
<1> QED  BY <1>4, <1>5, <1>6 DEF KnownOp, Applies

\* A task that has just begun, of a request that was accepted.
Fresh(c, h, m) ==
  /\ c.at = "working" /\ c.back = FALSE /\ c.touched = {}
  /\ c.was \in WasSet /\ c.was.pointer = h.pointer /\ c.was.text = h.text
  /\ c.was.active <=> Up(h)
  /\ c.was.bridge = h.bridge
  /\ ~Applies(c) => c.was.status = h.receipts[c.ask.mine].status
  /\ ~c.ask.managed => ~Up(h)
  /\ IF Applies(c)
     THEN h.pointer # 0 => FinalIn(h, h.pointer) /\ h.text = TextIn(h, m, h.pointer)
     ELSE c.ask.mine = h.pointer

LEMMA FreshFollows ==
  ASSUME NEW c, NEW h, NEW m, NEW clean \in BOOLEAN, HostShape(h), HostFits(h, m),
         AskFits(c, h, m), Fresh(c, h, m), FreshTodo(c, h, m), Rests(h, clean)
  PROVE  TaskFollows(c, h, m, clean)
<1>1. /\ c.at = "working" /\ ~c.back /\ c.touched = {} /\ c.was.pointer = h.pointer
      /\ c.was.text = h.text /\ (c.was.active <=> Up(h)) /\ c.was.bridge = h.bridge
      /\ c.ask.managed => m # "none"
      /\ Len(h.receipts) \in Nat /\ h.pointer \in 0..Len(h.receipts)
  BY ReceiptsAre DEF Fresh, AskFits, HostShape
<1>2. ASSUME ~Applies(c)
      PROVE  /\ c.ask.mine = h.pointer /\ h.pointer # 0
             /\ ReceiptOf(c, h) = h.receipts[h.pointer]
             /\ c.was.status = ReceiptOf(c, h).status
  BY <1>1, <1>2 DEF Fresh, AskFits, ReceiptOf, MineOf
<1>3. TaskKnown(c, h, m)
  <2>1. c.was.active => c.was.text # Nothing
    BY <1>1 DEF HostFits
  <2>2. m = "none" => c.was.text = Nothing
    BY <1>1 DEF HostFits
  <2> QED  BY <1>1, <1>2, <2>1, <2>2 DEF TaskKnown, AskFits, Fresh
<1>4. PreparedFollows(c, h)
  BY <1>1 DEF PreparedFollows, FreshTodo
<1>5. TodoFits(c, h, m)
  <2>1. ~HasTask(c, h) => c.todo \cap Bridge = {}
    BY DEF FreshTodo, Bridge
  <2>2. ~c.ask.managed => c.todo \cap {"stop", "reload", "start"} = {}
    BY DEF FreshTodo
  <2>3. Applies(c) => (HasTask(c, h) <=> c.ask.hermes) /\ ToStart(c, h)
    BY DEF HasTask, Has, Applies, Apply, ToStart
  <2>4. Applies(c) => Everything(c, m)
    BY <1>1, <2>3 DEF Everything, FreshTodo
  <2> QED  BY <1>1, <2>1, <2>2, <2>3, <2>4 DEF TodoFits, FreshTodo
<1>6. TouchedFits(c, h, m)
  BY <1>1 DEF TouchedFits, FreshTodo
<1>7. PointerFollows(c, h) /\ TextFollows(c, h, m) /\ ServiceFollows(c, h, m)
  BY <1>1 DEF PointerFollows, TextFollows, ServiceFollows, FreshTodo
<1>8. BridgeFollows(c, h) /\ StatusFollows(c, h)
  BY <1>1, <1>2 DEF BridgeFollows, StatusFollows, FreshTodo
<1>9. ASSUME clean PROVE CleanFollows(c, h)
  <2>1. h.pointer # 0 => Bears(h, h.pointer, h.bridge)
    BY <1>9 DEF Rests
  <2>2. Applies(c) /\ c.was.pointer # 0 => Bears(h, c.was.pointer, c.was.bridge)
    BY <1>1, <2>1
  <2>3. ASSUME ~Applies(c)
        PROVE  Bears(h, c.ask.mine, c.was.bridge) /\ ReceiptOf(c, h) = h.receipts[c.ask.mine]
    BY <1>1, <1>2, <2>1, <2>3
  <2>4. c.ask.op \in {"rollback", "uninstall"} => ~Applies(c)
    BY DEF Applies, Apply
  <2> QED  BY <1>1, <2>2, <2>3, <2>4 DEF CleanFollows, Bears
<1>10. Founded(h, c.was.pointer, clean)
  BY <1>1 DEF Rests
<1> QED
  BY <1>3, <1>4, <1>5, <1>6, <1>7, <1>8, <1>9, <1>10 DEF TaskFollows

LEMMA EnterKeeps ==
  ASSUME ConstantsOK, IInv, NEW p \in Procs, Enter(p)
  PROVE  IInv'
<1> DEFINE c == cli[p]
           snap == Snapshot(c.ask.mine)
           T == {s \in Steps(Path(c.ask.op)) : Takes(c.ask, s)}
           d == [c EXCEPT !.at = "working", !.was = snap, !.todo = T]
<1>1. /\ c.at = "asked" /\ lock = "free" /\ Accepts(c.ask) /\ lock' = p
      /\ cli' = [cli EXCEPT ![p].at = "working", ![p].was = snap, ![p].todo = T]
      /\ UNCHANGED <<host, manager, tainted, mishaps>>
  BY DEF Enter, LockAllows
<1>2. /\ Shape /\ HostFits(host, manager) /\ TasksFollow /\ RestsWell /\ HostShape(host)
      /\ cli \in [Procs -> CliSet] /\ c \in CliSet
      /\ lock \in Procs \cup {"free", "stale"}
      /\ (\A q \in Procs : Holds(q) <=> lock = q)
      /\ tainted \in BOOLEAN /\ manager \in Managers /\ mishaps \in 0..MaxMishaps
  BY DEF IInv, Shape
<1>3. ~Holds(p) /\ AskFits(c, host, manager)
      /\ c = [Idle EXCEPT !.at = c.at, !.ask = c.ask]
  <2>1. ~Holds(p)
    BY <1>1 DEF Holds
  <2> QED  BY <1>1, <1>2, <2>1 DEF TasksFollow
<1>4. KnownOp(c) /\ (~Applies(c) => c.ask.mine \in 1..Len(host.receipts))
  BY <1>3 DEF AskFits, KnownOp
<1>5. cli' = [cli EXCEPT ![p] = d]
  BY <1>1, <1>2
<1>6. /\ Len(host.receipts) \in Nat /\ host.pointer \in 0..Len(host.receipts)
      /\ \A i \in 1..Len(host.receipts) : host.receipts[i] \in ReceiptSet
      /\ host.text \in Content /\ host.bridge \in Content
  BY <1>2, ReceiptsAre DEF HostShape
<1>7. /\ snap \in WasSet /\ snap.pointer = host.pointer /\ snap.text = host.text
      /\ snap.active <=> Up(host)
      /\ snap.bridge = host.bridge
      /\ ~Applies(c) => snap.status = host.receipts[c.ask.mine].status
  <2> DEFINE st == IF c.ask.mine = 0 THEN "none" ELSE host.receipts[c.ask.mine].status
  <2>1. snap = [pointer |-> host.pointer, text |-> host.text, active |-> Active,
                bridge |-> host.bridge, status |-> st]
    BY DEF Snapshot
  <2>2. ~Applies(c) => st = host.receipts[c.ask.mine].status
    BY <1>4, <1>6
  <2>3. st \in {"none"} \cup Status
    <3>1. CASE Applies(c)
      <4>1. c.ask.mine = 0
        BY <1>3, <3>1 DEF AskFits
      <4> QED  BY <4>1
    <3>2. CASE ~Applies(c)
      BY <1>4, <1>6, <2>2, <3>2 DEF ReceiptSet
    <3> QED  BY <3>1, <3>2
  <2>4. Active \in BOOLEAN /\ (Active <=> Up(host))
    BY DEF Active, Up
  <2> HIDE DEF st, snap
  <2>5. snap \in WasSet
    BY <1>6, <2>1, <2>3, <2>4 DEF WasSet
  <2>6. snap.active = Active
    BY <2>1
  <2> QED  BY <2>1, <2>2, <2>4, <2>5, <2>6
<1>8. T \subseteq AllSteps
  <2>1. \A s : s \in T => s \in Steps(Path(c.ask.op))
    OBVIOUS
  <2> HIDE DEF T
  <2>2. Path(c.ask.op) \in {ApplyPath, RollbackPath, UninstallPath}
    BY <1>4, Paths DEF KnownOp
  <2> QED  BY <2>1, <2>2, PathSteps DEF AllSteps, Service, Bridge
<1>9. /\ d.at = "working" /\ d.was = snap /\ d.todo = T /\ d.ask = c.ask
      /\ d.back = FALSE /\ d.touched = {}
  <2> HIDE DEF snap, T
  <2>1. /\ d.at = "working" /\ d.was = snap /\ d.todo = T /\ d.ask = c.ask
        /\ d.back = c.back /\ d.touched = c.touched
    BY <1>2 DEF CliSet
  <2>2. c.back = FALSE /\ c.touched = {}
    BY <1>3 DEF Idle
  <2> QED  BY <2>1, <2>2
<1>10. d \in CliSet
  <2> HIDE DEF snap, T
  <2> QED  BY <1>2, <1>7, <1>8 DEF CliSet, WasSet, AllSteps
<1>11. FreshTodo(d, host, manager)
  <2>1. d.todo = {s \in Steps(Path(d.ask.op)) : Takes(d.ask, s)}
    BY <1>9
  <2>2. KnownOp(d)
    BY <1>4, <1>9 DEF KnownOp
  <2> HIDE DEF d
  <2> QED  BY <2>1, <2>2, TodoIsFresh
<1> HIDE DEF snap, T, d
<1>12. Applies(d) <=> Applies(c)
  BY <1>9 DEF Applies
<1>13. AskFits(d, host, manager)
  BY <1>3, <1>9, <1>12 DEF AskFits
<1>14. Fresh(d, host, manager)
  <2>1. ~c.ask.managed => ~Up(host)
    BY <1>1 DEF Accepts, AcceptsApply, AcceptsExisting, ServiceAllows, Active, Up
  <2>2. Applies(c) /\ host.pointer # 0 =>
          FinalIn(host, host.pointer) /\ host.text = TextIn(host, manager, host.pointer)
    BY <1>1 DEF Accepts, AcceptsApply, Applies, Verified, FinalIn, DefinitionUnchanged,
                TextOf, TextIn
  <2>3. ~Applies(c) => c.ask.mine = host.pointer
    BY <1>1 DEF Accepts, AcceptsExisting, Applies
  <2> QED  BY <1>7, <1>9, <1>12, <2>1, <2>2, <2>3 DEF Fresh
<1>15. Rests(host, ~tainted)
  BY <1>1, <1>2 DEF RestsWell, Rests
<1>16. TaskFollows(d, host, manager, ~tainted)
  <2>1. (~tainted) \in BOOLEAN
    BY <1>2
  <2> QED  BY <1>2, <1>11, <1>13, <1>14, <1>15, <2>1, FreshFollows
<1>17. \A q \in Procs : q \notin {"free", "stale"}
  BY DEF ConstantsOK
<1>18. cli'[p] = d /\ (\A q \in Procs : q # p => cli'[q] = cli[q])
       /\ cli' \in [Procs -> CliSet]
  BY <1>2, <1>5, <1>10
<1>19. ASSUME NEW q \in Procs, q # p
       PROVE  cli'[q] = cli[q] /\ cli[q].at \notin {"working", "undoing"}
  BY <1>1, <1>2, <1>17, <1>18, <1>19 DEF Holds
<1>20. Shape'
  <2>1. \A q \in Procs : cli'[q].at \in {"working", "undoing"} <=> lock' = q
    BY <1>1, <1>9, <1>18, <1>19
  <2>2. \A q \in Procs : Holds(q)' <=> lock' = q
    BY <2>1 DEF Holds
  <2> QED  BY <1>1, <1>2, <1>18, <2>2 DEF Shape
<1>21. ASSUME NEW q \in Procs
       PROVE  /\ cli'[q].at = "asked" => AskFits(cli'[q], host', manager')
              /\ cli'[q].at \notin {"working", "undoing"} =>
                   cli'[q] = [Idle EXCEPT !.at = cli'[q].at, !.ask = cli'[q].ask]
              /\ cli'[q].at \in {"working", "undoing"} =>
                   TaskFollows(cli'[q], host', manager', ~tainted')
  <2>1. CASE q = p
    BY <1>1, <1>9, <1>16, <1>18, <2>1
  <2>2. CASE q # p
    <3>1. cli'[q] = cli[q] /\ cli[q].at \notin {"working", "undoing"}
      BY <1>19, <2>2
    <3>2. /\ cli[q].at = "asked" => AskFits(cli[q], host, manager)
          /\ cli[q] = [Idle EXCEPT !.at = cli[q].at, !.ask = cli[q].ask]
      BY <1>2, <3>1 DEF TasksFollow, Holds
    <3> QED  BY <1>1, <3>1, <3>2
  <2> QED  BY <2>1, <2>2
<1>22. TasksFollow'
  BY <1>21 DEF TasksFollow, Holds
<1>23. RestsWell'
  BY <1>1, <1>17 DEF RestsWell
<1> QED  BY <1>1, <1>2, <1>20, <1>22, <1>23 DEF IInv

-----------------------------------------------------------------------------
(* Between the operations.                                                 *)

Untouched ==
  /\ lock \in {"free", "stale"} /\ lock' \in {"free", "stale"}
  /\ cli' = cli /\ manager' = manager
  /\ HostShape(host') /\ HostFits(host', manager) /\ host'.receipts = host.receipts
  /\ tainted' \in BOOLEAN /\ mishaps' \in 0..MaxMishaps

LEMMA UntouchedKeeps ==
  ASSUME ConstantsOK, IInv, Untouched, RestsWell'
  PROVE  IInv'
<1>1. /\ Shape /\ TasksFollow
      /\ lock \in {"free", "stale"} /\ lock' \in {"free", "stale"}
      /\ cli' = cli /\ manager' = manager
      /\ HostShape(host') /\ HostFits(host', manager) /\ host'.receipts = host.receipts
      /\ tainted' \in BOOLEAN /\ mishaps' \in 0..MaxMishaps
  BY DEF IInv, Untouched
<1>2. \A q \in Procs : q \notin {"free", "stale"}
  BY DEF ConstantsOK
<1>3. \A q \in Procs : cli[q].at \notin {"working", "undoing"}
  BY <1>1, <1>2 DEF Shape, Holds
<1>4. Shape'
  <2>1. \A q \in Procs : Holds(q)' <=> lock' = q
    BY <1>1, <1>2, <1>3 DEF Holds
  <2> QED  BY <1>1, <2>1 DEF Shape
<1>5. ASSUME NEW q \in Procs
      PROVE  /\ cli'[q].at = "asked" => AskFits(cli'[q], host', manager')
             /\ cli'[q].at \notin {"working", "undoing"} =>
                  cli'[q] = [Idle EXCEPT !.at = cli'[q].at, !.ask = cli'[q].ask]
             /\ cli'[q].at \in {"working", "undoing"} =>
                  TaskFollows(cli'[q], host', manager', ~tainted')
  <2>1. /\ cli[q].at = "asked" => AskFits(cli[q], host, manager)
        /\ cli[q] = [Idle EXCEPT !.at = cli[q].at, !.ask = cli[q].ask]
    BY <1>1, <1>3 DEF TasksFollow, Holds
  <2>2. cli[q].at = "asked" => AskFits(cli[q], host', manager)
    BY <1>1, <2>1 DEF AskFits
  <2> QED  BY <1>1, <1>3, <2>1, <2>2
<1>6. TasksFollow'
  BY <1>5 DEF TasksFollow, Holds
<1> QED  BY <1>1, <1>4, <1>6 DEF IInv

LEMMA SameFounded ==
  ASSUME NEW h, NEW g, g.receipts = h.receipts
  PROVE  /\ \A i, clean : Founded(g, i, clean) <=> Founded(h, i, clean)
         /\ \A i, b : Bears(g, i, b) <=> Bears(h, i, b)
BY DEF Founded, Below, Linked, FinalIn, Bears

LEMMA UnlockKeeps ==
  ASSUME ConstantsOK, IInv, OperatorRemovesLock
  PROVE  IInv'
<1>1. lock = "stale" /\ lock' = "free" /\ UNCHANGED <<host, cli, manager, tainted, mishaps>>
  BY DEF OperatorRemovesLock
<1>2. Untouched
  BY <1>1 DEF Untouched, IInv, Shape
<1>3. RestsWell'
  BY <1>1 DEF RestsWell, IInv
<1> QED  BY <1>2, <1>3, UntouchedKeeps

LEMMA RunKeeps ==
  ASSUME ConstantsOK, IInv, OperatorRunsService
  PROVE  IInv'
<1>1. /\ lock = "free" /\ manager # "none"
      /\ UNCHANGED <<lock, cli, manager, tainted, mishaps>>
      /\ HostShape(host) /\ HostFits(host, manager) /\ RestsWell
      /\ tainted \in BOOLEAN /\ mishaps \in 0..MaxMishaps
  BY DEF OperatorRunsService, IInv, Shape
<1>2. PICK x \in Content : host' = [host EXCEPT !.running = x] /\ (x # Nothing => host.text # Nothing)
  BY <1>1 DEF OperatorRunsService, HostShape, Content
<1>3. /\ HostShape(host') /\ host'.receipts = host.receipts /\ host'.text = host.text
      /\ host'.pointer = host.pointer /\ host'.bridge = host.bridge /\ host'.running = x
  BY <1>1, <1>2 DEF HostShape
<1>4. HostFits(host', manager)
  BY <1>1, <1>2, <1>3 DEF HostFits, Up, TextIn
<1>5. Untouched
  BY <1>1, <1>3, <1>4 DEF Untouched
<1>6. RestsWell'
  BY <1>1, <1>3, SameFounded DEF RestsWell
<1> QED  BY <1>5, <1>6, UntouchedKeeps

LEMMA EditKeeps ==
  ASSUME ConstantsOK, IInv, OperatorEdits
  PROVE  IInv'
<1>1. /\ lock = "free" /\ tainted' = TRUE /\ UNCHANGED <<lock, cli, manager>>
      /\ mishaps < MaxMishaps /\ mishaps' = mishaps + 1
      /\ HostShape(host) /\ HostFits(host, manager) /\ RestsWell
      /\ tainted \in BOOLEAN /\ mishaps \in 0..MaxMishaps
  BY DEF OperatorEdits, Mishap, IInv, Shape
<1>2. mishaps' \in 0..MaxMishaps
  BY <1>1 DEF ConstantsOK
<1>3. Changed \in Content /\ Changed # Nothing
  BY DEF Content, ConstantsOK
<1>4. /\ HostShape(host') /\ host'.receipts = host.receipts
      /\ host'.pointer = host.pointer /\ host'.running = host.running
      /\ host'.text = host.text \/ (host.text # Nothing /\ host'.text = Changed)
  <2>1. CASE host.text # Nothing /\ host' = [host EXCEPT !.text = Changed]
    BY <1>1, <1>3, <2>1 DEF HostShape
  <2>2. CASE host' = [host EXCEPT !.bridge = Changed]
    BY <1>1, <1>3, <2>2 DEF HostShape
  <2> QED  BY <2>1, <2>2 DEF OperatorEdits
<1>5. HostFits(host', manager)
  BY <1>1, <1>3, <1>4 DEF HostFits, Up, TextIn
<1>6. Untouched
  BY <1>1, <1>2, <1>4, <1>5 DEF Untouched
<1>7. RestsWell'
  <2>1. Founded(host, host.pointer, FALSE)
    <3>1. (~tainted) \in BOOLEAN
      BY <1>1
    <3> QED  BY <1>1, <3>1, FoundedWithTaint DEF RestsWell
  <2>2. Founded(host', host'.pointer, FALSE)
    BY <1>4, <2>1, SameFounded
  <2>3. (~tainted') = FALSE
    BY <1>1
  <2> QED  BY <1>1, <2>2, <2>3 DEF RestsWell
<1> QED  BY <1>6, <1>7, UntouchedKeeps

-----------------------------------------------------------------------------
(* The invariant holds.                                                    *)

LEMMA InitIsGood ==
  ASSUME ConstantsOK, Init
  PROVE  IInv
<1>1. /\ host = [pointer |-> 0, text |-> Nothing, running |-> Nothing,
                 bridge |-> Nothing, receipts |-> <<>>]
      /\ lock = "free" /\ cli = [p \in Procs |-> Idle] /\ manager \in Managers
      /\ tainted = FALSE /\ mishaps = 0
  BY DEF Init
<1>2. /\ host.pointer = 0 /\ host.text = Nothing /\ host.running = Nothing
      /\ host.bridge = Nothing /\ host.receipts = <<>>
  BY <1>1
<1>3. HostShape(host)
  <2>1. Nothing \in Content /\ <<>> \in Seq(ReceiptSet) /\ Len(<<>>) = 0
    BY DEF Content
  <2> QED  BY <1>1, <1>2, <2>1 DEF HostShape
<1>4. HostFits(host, manager)
  BY <1>2 DEF HostFits, Up
<1>5. \A p \in Procs : p \notin {"free", "stale"} /\ cli[p] = Idle
  BY <1>1 DEF ConstantsOK
<1>6. Shape
  <2>1. cli \in [Procs -> CliSet]
    BY <1>1, IdleFits
  <2>2. \A p \in Procs : Holds(p) <=> lock = p
    BY <1>1, <1>5, IdleFits DEF Holds
  <2>3. mishaps \in 0..MaxMishaps
    BY <1>1 DEF ConstantsOK
  <2>4. lock \in Procs \cup {"free", "stale"} /\ tainted \in BOOLEAN /\ manager \in Managers
    BY <1>1
  <2> QED  BY <1>3, <2>1, <2>2, <2>3, <2>4 DEF Shape
<1>7. TasksFollow
  BY <1>5, IdleFits DEF TasksFollow, Holds
<1>8. RestsWell
  BY <1>2 DEF RestsWell, Founded
<1> QED  BY <1>4, <1>6, <1>7, <1>8 DEF IInv

LEMMA NextKeepsIInv ==
  ASSUME ConstantsOK, IInv, [Next]_vars
  PROVE  IInv'
<1>1. CASE UNCHANGED vars
  BY <1>1 DEF vars, IInv, Shape, TasksFollow, RestsWell, Holds
<1>2. ASSUME NEW p \in Procs, Requests(p) \/ Enter(p) \/ Refuse(p) \/ Leave(p) \/ Crash(p)
      PROVE  IInv'
  BY <1>2, RequestsKeep, EnterKeeps, RefuseKeeps, LeaveKeeps, CrashKeeps
<1>3. ASSUME NEW p \in Procs, Prepare(p) \/ PrepareRelease(p) \/ NoteBridge(p)
      PROVE  IInv'
  BY <1>3, PrepareKeeps, ReleaseKeeps, NoteKeeps
<1>4. ASSUME NEW p \in Procs,
             \/ TearBridge(p) \/ SealBridge(p) \/ SignBridge(p)
             \/ UndoReturns(p) \/ UndoThrows(p)
      PROVE  IInv'
  BY <1>4, TearKeeps, SealKeeps, SignKeeps, UndoReturnsKeeps, UndoThrowsKeeps
<1>5. ASSUME NEW p \in Procs, StopService(p) \/ WriteDefinition(p) \/ Reload(p) \/ Start(p)
      PROVE  IInv'
  BY <1>5, StopKeeps, DefineKeeps, ReloadKeeps, StartKeeps
<1>6. ASSUME NEW p \in Procs, WritePointer(p) \/ WriteReceipt(p)
      PROVE  IInv'
  BY <1>6, PointKeeps, FinishKeeps
<1>7. CASE OperatorRemovesLock \/ OperatorRunsService \/ OperatorEdits
  BY <1>7, UnlockKeeps, RunKeeps, EditKeeps
<1> QED  BY <1>1, <1>2, <1>3, <1>4, <1>5, <1>6, <1>7 DEF Next

\* The strengthening holds in every reachable state.
THEOREM DeploymentFollows == ASSUME ConstantsOK PROVE Spec => []IInv
<1>1. Init => IInv
  BY InitIsGood
<1>2. IInv /\ [Next]_vars => IInv'
  BY NextKeepsIInv
<1> QED  BY <1>1, <1>2, PTL DEF Spec

-----------------------------------------------------------------------------
(* What follows for a reader of the specification.                         *)

LEMMA IInvTypes ==
  ASSUME IInv
  PROVE  TypeOK
BY DEF IInv, Shape, HostShape, Holds, TypeOK

\* Every state has its types, and the lock one holder: the command that changes
\* things.
THEOREM DeploymentTypeCorrect == ASSUME ConstantsOK PROVE Spec => []TypeOK
<1>1. IInv => TypeOK
  BY IInvTypes
<1> QED  BY <1>1, DeploymentFollows, PTL

LEMMA DoneIsDescribedHere ==
  ASSUME IInv
  PROVE  DoneIsDescribed
<1> SUFFICES ASSUME NEW p \in Procs, Over(p), Outcome(p) = "done"
             PROVE  LET request == cli[p].ask IN
                    /\ host.pointer = Forward(p).pointer /\ Described
                    /\ host.receipts[Mine(p)].status = GoalStatus(request.op)
                    /\ Active => request.managed
                    /\ request.managed => \/ Active = Starts(request)
                                          \/ request.op = "rollback" /\ LaunchdRuns(p)
  BY DEF DoneIsDescribed
<1> DEFINE c == cli[p]
<1>1. c.at = "working" /\ c.todo = {} /\ Working(c, host, manager, ~tainted)
  BY AtWork DEF Over
<1>2. ~c.back
  BY DEF Outcome
<1>3. /\ c \in CliSet /\ KnownOp(c) /\ HostShape(host) /\ HostFits(host, manager)
      /\ TaskKnown(c, host, manager) /\ PreparedFollows(c, host) /\ PointerFollows(c, host)
      /\ TextFollows(c, host, manager) /\ ServiceFollows(c, host, manager)
      /\ StatusFollows(c, host) /\ Founded(host, c.was.pointer, ~tainted)
  BY <1>1 DEF Working, TaskFollows
<1>4. /\ Mine(p) = MineOf(c, host) /\ (\A i : TextOf(i) = TextIn(host, manager, i))
      /\ Forward(p).pointer = NextPointer(c, host)
  BY <1>3, Words
<1>5. host.pointer = NextPointer(c, host)
  BY <1>1, <1>2, <1>3 DEF PointerFollows
<1>6. ReceiptOf(c, host).status = GoalStatus(c.ask.op)
      /\ ReceiptOf(c, host) = host.receipts[Mine(p)]
  BY <1>1, <1>2, <1>3, <1>4 DEF StatusFollows, ReceiptOf
<1>7. /\ Active => c.ask.managed
      /\ c.ask.managed => \/ Active = Starts(c.ask)
                          \/ c.ask.op = "rollback" /\ LaunchdRuns(p)
  <2>1. (Active <=> Up(host)) /\ (Starts(c.ask) <=> ToStart(c, host))
    BY DEF Active, Up, Starts, ToStart, ReceiptOf, MineOf, Applies
  <2>2. Active => c.ask.managed
    BY <1>3, <2>1 DEF TaskKnown
  <2>3. c.ask.managed => \/ Up(host) <=> ToStart(c, host)
                         \/ c.ask.op = "rollback" /\ LaunchdUp(host, manager)
    BY <1>1, <1>2, <1>3 DEF ServiceFollows
  <2>4. c.ask.managed /\ LaunchdUp(host, manager) => LaunchdRuns(p)
    BY <2>1 DEF LaunchdUp, LaunchdRuns
  <2>5. (Active <=> Starts(c.ask)) => Active = Starts(c.ask)
    <3>1. Active \in BOOLEAN /\ Starts(c.ask) \in BOOLEAN
      BY DEF Active, Starts
    <3> QED  BY <3>1
  <2> QED  BY <2>1, <2>2, <2>3, <2>4, <2>5
<1>8. ASSUME host.pointer # 0
      PROVE  FinalIn(host, host.pointer) /\ host.text = TextIn(host, manager, host.pointer)
  <2> DEFINE i == host.pointer
  <2>1. c.ask.op # "uninstall"
    BY <1>5, <1>8 DEF NextPointer, Applies, Apply
  <2>2. CASE Applies(c)
    <3>1. MineOf(c, host) = i
      BY <1>5, <2>2 DEF NextPointer, MineOf
    <3>2. FinalIn(host, i)
      BY <1>6, <2>2, <3>1 DEF FinalIn, GoalStatus, Final, Applies, Apply, ReceiptOf
    <3>3. CASE manager = "none"
      BY <1>3, <3>2, <3>3 DEF HostFits, TextIn
    <3>4. CASE manager # "none"
      <4>1. host.text = NextText(c, host, manager)
        BY <1>1, <1>2, <1>3, <3>4 DEF TextFollows
      <4> QED  BY <2>2, <3>1, <3>2, <4>1 DEF NextText
    <3> QED  BY <3>3, <3>4
  <2>3. CASE c.ask.op = "rollback"
    <3> DEFINE k == c.was.pointer
    <3>1. ~Applies(c) /\ c.ask.mine = k /\ k # 0 /\ k \in 0..Len(host.receipts)
      BY <1>3, <2>3 DEF Applies, Apply, TaskKnown
    <3>2. ReceiptOf(c, host) = host.receipts[k] /\ i = host.receipts[k].prev
      BY <1>5, <2>3, <3>1 DEF NextPointer, ReceiptOf, MineOf
    <3>3. k \in 1..Len(host.receipts)
      BY <1>3, <3>1, ReceiptsAre
    <3>4. Founded(host, k, ~tainted) /\ (~tainted) \in BOOLEAN
      BY <1>3 DEF IInv, Shape
    <3> HIDE DEF k
    <3>5. FinalIn(host, i)
      BY <1>3, <1>8, <3>2, <3>3, <3>4, FoundedUnder
    <3>6. host.receipts[k].priorText = TextIn(host, manager, i)
      BY <1>3, <1>8, <3>2, <3>3 DEF HostFits
    <3>7. CASE manager = "none"
      BY <1>3, <3>5, <3>7 DEF HostFits, TextIn
    <3>8. CASE manager # "none"
      <4>1. host.text = NextText(c, host, manager)
        BY <1>1, <1>2, <1>3, <3>8 DEF TextFollows
      <4> QED  BY <2>3, <3>1, <3>2, <3>5, <3>6, <4>1 DEF NextText
    <3> QED  BY <3>7, <3>8
  <2> QED  BY <1>3, <2>1, <2>2, <2>3 DEF KnownOp, Applies
<1>9. ASSUME host.pointer # 0, ~tainted PROVE Bears(host, host.pointer, host.bridge)
  <2>1. (~tainted) = TRUE
    BY <1>9 DEF IInv, Shape
  <2>2. Working(c, host, manager, TRUE)
    BY <1>1, <2>1
  <2> HIDE DEF c
  <2>3. Rests(host, TRUE)
    BY <1>1, <1>2, <2>2, DoneRests
  <2> QED  BY <1>9, <2>3 DEF Rests
<1>10. Described
  <2> SUFFICES ASSUME host.pointer # 0
               PROVE  /\ Verified(host.pointer) /\ host.text = TextOf(host.pointer)
                      /\ (~tainted /\ host.receipts[host.pointer].bridge) =>
                           /\ host.bridge = host.receipts[host.pointer].release
                           /\ host.receipts[host.pointer].hstatus = "installed"
    BY DEF Described
  <2> QED  BY <1>4, <1>8, <1>9 DEF Verified, FinalIn, Bears
<1> QED  BY <1>4, <1>5, <1>6, <1>7, <1>10

\* An operation that reports success leaves a deployment that its receipt describes.
THEOREM SuccessIsDescribed == ASSUME ConstantsOK PROVE Spec => []DoneIsDescribed
<1>1. IInv => DoneIsDescribed
  BY DoneIsDescribedHere
<1> QED  BY <1>1, DeploymentFollows, PTL

LEMMA FailureRestoresHere ==
  ASSUME IInv
  PROVE  FailureRestores
<1> SUFFICES ASSUME NEW p \in Procs, Over(p), Outcome(p) \in {"restored", "failed"},
                    cli[p].ask.op # "uninstall", ~cli[p].unseen
             PROVE  LET c == cli[p] IN
                    /\ host.pointer = c.was.pointer
                    /\ host.text = c.was.text
                    /\ host.bridge = c.was.bridge
                    /\ Active = c.was.active \/ (LaunchdRuns(p) /\ host.text # Nothing)
                    /\ c.ask.op = "rollback" /\ c.ask.status = c.was.status =>
                         host.receipts[Mine(p)].status = c.was.status
  BY DEF FailureRestores
<1> DEFINE c == cli[p]
<1>1. c.at = "working" /\ c.todo = {} /\ Working(c, host, manager, ~tainted)
  BY AtWork DEF Over
<1>2. /\ c \in CliSet /\ KnownOp(c) /\ HostShape(host) /\ HostFits(host, manager)
      /\ TaskKnown(c, host, manager) /\ PointerFollows(c, host)
      /\ TextFollows(c, host, manager) /\ ServiceFollows(c, host, manager)
      /\ BridgeFollows(c, host) /\ StatusFollows(c, host)
  BY <1>1 DEF Working, TaskFollows
<1>3. c.back /\ ~c.blame
  BY DEF Outcome
<1>4. Vouched(c)
  BY <1>3 DEF Vouched
<1>5. Mine(p) = MineOf(c, host)
  BY <1>2, Words
<1>6. host.pointer = c.was.pointer
  BY <1>1, <1>2, <1>3, <1>4 DEF PointerFollows
<1>7. host.text = c.was.text
  <2>1. CASE manager = "none"
    BY <1>2, <2>1 DEF HostFits, TaskKnown
  <2>2. CASE manager # "none"
    BY <1>1, <1>2, <1>3, <1>4, <2>2 DEF TextFollows
  <2> QED  BY <2>1, <2>2
<1>8. host.bridge = c.was.bridge
  BY <1>1, <1>2, <1>3, <1>4 DEF BridgeFollows
<1>9. Active = c.was.active \/ (LaunchdRuns(p) /\ host.text # Nothing)
  <2>1. Active <=> Up(host)
    BY DEF Active, Up
  <2>2. c.was.active \in BOOLEAN /\ Active \in BOOLEAN
    BY <1>2 DEF TaskKnown, WasSet, Active
  <2>3. CASE c.ask.managed
    <3>1. (Up(host) <=> c.was.active) \/ LaunchdUp(host, manager)
      BY <1>1, <1>2, <1>3, <1>4, <2>3 DEF ServiceFollows
    <3>2. LaunchdUp(host, manager) => LaunchdRuns(p) /\ host.text # Nothing
      BY <1>2, <2>1, <2>3 DEF LaunchdUp, LaunchdRuns, HostFits
    <3> QED  BY <2>1, <2>2, <3>1, <3>2
  <2>4. CASE ~c.ask.managed
    BY <1>2, <2>1, <2>2, <2>4 DEF TaskKnown
  <2> QED  BY <2>3, <2>4
<1>10. c.ask.op = "rollback" /\ c.ask.status = c.was.status =>
         host.receipts[Mine(p)].status = c.was.status
  BY <1>1, <1>2, <1>3, <1>4, <1>5 DEF StatusFollows, ReceiptOf
<1> QED  BY <1>6, <1>7, <1>8, <1>9, <1>10

\* A rollback that says that all is restored, and an installation that fails
\* without saying otherwise, leave the machine as they found it.
THEOREM FailureIsRestored == ASSUME ConstantsOK PROVE Spec => []FailureRestores
<1>1. IInv => FailureRestores
  BY FailureRestoresHere
<1> QED  BY <1>1, DeploymentFollows, PTL

=============================================================================
