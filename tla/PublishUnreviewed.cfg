\* A finish whose files change after its last comparison.
SPECIFICATION PublicationSpec
CONSTANTS
  p1 = p1
  p2 = p2
  guarded = guarded
  Ids = {w1}
  Callers = {p1, p2}
  Finishers = {p1}
  Trees = {base, guarded, secret}
  BaseTree = base
  Root = root
  Absent = Absent
  Secret = {secret}
  Paths = {"policy", "source"}
  Guarded = {"policy"}
  Changes <- OnePathEach
  Allowed = {{}, {"protected"}, {"secret"}}
  MaxHistory = 2
  MaxPublished = 2
  MaxAttempts = 0
  MaxCalls = 3
  MrAnswers = {TRUE}
  MaxPlans = 2
PROPERTIES
  OnlyReviewedPublished
CHECK_DEADLOCK FALSE
