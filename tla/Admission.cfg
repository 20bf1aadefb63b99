\* Two turns on two threads that may share a workspace, one operation, one lease.
SPECIFICATION Spec
CONSTANTS
  r1 = r1
  r2 = r2
  t1 = t1
  t2 = t2
  i1 = i1
  i2 = i2
  None = None
  OperationTokens = {o1}
  TurnTokens = {r1, r2}
  Apps = {a1}
  Threads = {t1, t2}
  Workspaces = {w1, no_w}
  NoWorkspace = no_w
  TurnIds = {i1, i2}
  ReportedReasons = {"no_such_reason"}
  MaxOperations = 1
  MaxTurns = 2
  MaxCompletedTurns = 2
  MaxGeneration = 1
SYMMETRY TurnSymmetry
VIEW LedgerView
INVARIANTS
  TypeOK
  LeaseSound
  TablesSound
PROPERTIES
  ImplementsGate
  TurnReleasedOnlyByCompletion
\* A ledger closed before it is claimed accepts no call any more.
CHECK_DEADLOCK FALSE
