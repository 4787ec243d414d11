SPECIFICATION Spec
CONSTANTS
  j1 = j1
  j2 = j2
  s1 = s1
  Jobs = {j1, j2}
  Sessions = {s1}
  SessionOf <- OneSession
  Durable = {codex, claude}
  Hermes = hermes
  Executions = {e1, e2}
  Turns = {t1, t2}
  MaxGeneration = 2
  MaxIntents = 1
  NoJob = NoJob
  NoExecution = NoExecution
  NoTurn = NoTurn
  NoBackend = NoBackend
SYMMETRY Symmetry

INVARIANTS
  TypeOK
  OneActivePerSession
  FenceAgreement
  RecoveryFenced
  LedgerTellsStatus
  CancelWins
  RestartCanRecover
  OperatorCanRelease
  IntentsAreFuture
PROPERTIES
  SettledForever
  ImplementsJobExecution
