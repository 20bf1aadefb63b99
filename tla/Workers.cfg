\* One request, two callers, and a stream that may be lost; two users of a place with two
\* connections; three calls about two threads, a reroute of each and a restart.
SPECIFICATION WorkersSpec
CONSTANTS
  Users = {1, 2}
  Places = {place}
  NoUser = 0
  Closer = 3
  ConnectionBound = 2
  RequestBound = 2
  Talks = {1, 2, 3}
  Dialogues = {1, 2}
  NoDialogue = 0
  RerouteBound = 1
  BridgeLives = 1
  q1 = q1
  p1 = p1
  p2 = p2
  None = None
  OperationTokens <- ApprovalTokens
  TurnTokens = {}
  Apps = {}
  Threads = {}
  Workspaces = {no_w}
  NoWorkspace = no_w
  TurnIds = {}
  ReportedReasons = {"untracked_request", "callback_response_unsent",
                     "transport_lost", "recovered_state_unverified"}
  MaxTurns = 1
  MaxCompletedTurns = 1
  Offered <- Open
  ApprovalRequests = {q1}
  Strays = TRUE
  Resolvers = {p1, p2}
  MaxResolutions = 2
  MaxHistory = 2
  WireLosses = TRUE
  SaveFailures = FALSE
  MaxRestarts = 0
  MaxOperations = 3
  MaxGeneration = 0
INVARIANTS
  AnswersFaithful
  ConnectionsSound
PROPERTIES
  ImplementsPromise
  PolicyKept
  WorkersProgress
CHECK_DEADLOCK FALSE
