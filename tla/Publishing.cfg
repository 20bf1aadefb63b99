\* A process that finishes one workspace, and another one that works on it.
SPECIFICATION BoundedSpec
CONSTANTS
  p1 = p1
  p2 = p2
  guarded = guarded
  Ids = {w1}
  Callers = {p1, p2}
  Finishers = {p1}
  Trees = {base, guarded, secret}
  BaseTree = base
  Root = root
  Absent = Absent
  Secret = {secret}
  Paths = {"policy", "source"}
  Guarded = {"policy"}
  Changes <- OnePathEach
  Allowed = {{}, {"protected"}}
  MaxHistory = 2
  MaxPublished = 2
  MaxAttempts = 0
  MaxCalls = 3
  MrAnswers = {TRUE}
  MaxPlans = 2
INVARIANTS
  PublicationTypeOK
PROPERTIES
  PublishedAsReviewed
  GatesHonoured
CHECK_DEADLOCK FALSE
