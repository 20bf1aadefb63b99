\* Two terminals with two commands; two of two adopters and two preparers, a review and two
\* changes by others; two calls to a remote workspace, one change on its host and one loss;
\* two requests whose answer is saved, or not, when the process ends.
SPECIFICATION SideSpec
CONSTANTS
  Projects = {jp, jq}
  Tunnels = {u1, u2}
  Unset = unset
  Terminals = {term1, term2}
  CommandBound = 2
  LapseBound = 1
  Adopters = {d1, d2}
  Preparers = {b1, b2}
  Reviewers = {v1}
  HostEdits = 2
  Calls = {c1, c2}
  Nobody = nobody
  Contents = {"base", "fix", "leak"}
  BaseContent = "base"
  SecretContent = {"leak"}
  Urls = {url1, url2}
  CredentialUrls = {url1}
  OutsideBound = 1
  LossBound = 1
  ApprovalBound = 2
  CommitBound = 3
  q1 = q1
  q2 = q2
  None = None
  OperationTokens <- ApprovalTokens
  TurnTokens = {}
  Apps = {}
  Threads = {}
  Workspaces = {no_w}
  NoWorkspace = no_w
  TurnIds = {}
  ReportedReasons = {"untracked_request", "callback_response_unsent",
                     "transport_lost", "recovered_state_unverified"}
  MaxTurns = 1
  MaxCompletedTurns = 1
  Offered <- Narrow
  ApprovalRequests = {q1, q2}
  Strays = FALSE
  Resolvers = {a1}
  MaxResolutions = 1
  MaxHistory = 1
  WireLosses = FALSE
  SaveFailures = TRUE
  MaxRestarts = 1
  MaxOperations = 4
  MaxGeneration = 1
SYMMETRY Alike
INVARIANTS
  SideTypes
  HostRecordsSound
  RemotePublished
  RecoverySound
PROPERTIES
  SideSteps
CHECK_DEADLOCK FALSE
