\* One session, fair threads, with the stream lost or the controller closed.
SPECIFICATION FairBridgeSpec
CONSTANTS
  c1 = c1
  c2 = c2
  r1 = r1
  r2 = r2
  t1 = t1
  t2 = t2
  w1 = w1
  None = None
  Callers = {c1}
  Reader = reader
  App = a1
  WorkspaceOf <- SharedWorkspace
  MaxCalls = 2
  MaxItems = 1
  NamedTurns = {}
  Losses = TRUE
  Shutdowns = TRUE
  OperationTokens = {c1, reader}
  TurnTokens = {r1}
  Apps = {a1}
  Threads = {t1}
  Workspaces = {w1, no_w}
  NoWorkspace = no_w
  TurnIds = {1, 2}
  ReportedReasons = {"transport_lost", "unexpected_event"}
  MaxOperations = 3
  MaxTurns = 2
  MaxCompletedTurns = 3
  MaxGeneration = 0
PROPERTIES
  CallsReturn
  CompletionAccounted
CHECK_DEADLOCK FALSE
