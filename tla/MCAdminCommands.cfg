CONSTANTS
  Procs = {p1, p2}
  Nothing = Nothing
  MaxMishaps = 2
  Releases = {r1, r2}
  Changed = Changed
  Managers = {"launchd", "systemd", "none"}
  MaxReceipts = 2
  Ids = {a}
  First = a
  Revisions = {0, 1}
  Backends = {x, y}
  Damaged = Damaged
  MaxCommands = 3
SPECIFICATION Spec
SYMMETRY Symmetry
CONSTRAINTS OnePlanWaits FewEvents
CHECK_DEADLOCK FALSE
INVARIANTS
  TypeOK
  SuccessIsTrue
  NothingHalfDone
