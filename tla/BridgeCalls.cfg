\* Two callers on one session: three starts, or two and an interrupt.
SPECIFICATION CallsSpec
CONSTANTS
  c1 = c1
  c2 = c2
  r1 = r1
  r2 = r2
  t1 = t1
  t2 = t2
  w1 = w1
  None = None
  Callers = {c1, c2}
  Reader = reader
  App = a1
  WorkspaceOf <- SharedWorkspace
  MaxCalls = 3
  MaxItems = 0
  NamedTurns = {1}
  Losses = FALSE
  Shutdowns = FALSE
  OperationTokens = {c1, c2, reader}
  TurnTokens = {r1, r2}
  Apps = {a1}
  Threads = {t1}
  Workspaces = {w1, no_w}
  NoWorkspace = no_w
  TurnIds = {1, 2, 3}
  ReportedReasons = {"transport_lost", "unexpected_event"}
  MaxOperations = 3
  MaxTurns = 2
  MaxCompletedTurns = 3
  MaxGeneration = 1
SYMMETRY CallerSymmetry
INVARIANTS
  BridgeTypeOK
  IdleIsReal
PROPERTIES
  DisplayNeverRegresses
CHECK_DEADLOCK FALSE
