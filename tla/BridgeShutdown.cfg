\* Two sessions on one workspace, with the stream lost or the controller closed.
SPECIFICATION BridgeSpec
CONSTANTS
  c1 = c1
  c2 = c2
  r1 = r1
  r2 = r2
  t1 = t1
  t2 = t2
  w1 = w1
  None = None
  Callers = {c1, c2}
  Reader = reader
  App = a1
  WorkspaceOf <- SharedWorkspace
  MaxCalls = 2
  MaxItems = 0
  NamedTurns = {1}
  Losses = TRUE
  Shutdowns = TRUE
  OperationTokens = {c1, c2, reader}
  TurnTokens = {r1, r2}
  Apps = {a1}
  Threads = {t1, t2}
  Workspaces = {w1, no_w}
  NoWorkspace = no_w
  TurnIds = {1, 2}
  ReportedReasons = {"transport_lost", "unexpected_event"}
  MaxOperations = 3
  MaxTurns = 2
  MaxCompletedTurns = 3
  MaxGeneration = 1
SYMMETRY ThreadSymmetry
INVARIANTS
  TurnsHeld
  IdleIsReal
CHECK_DEADLOCK FALSE
