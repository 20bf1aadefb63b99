\* Two processes and two workspaces on one branch.
SPECIFICATION WorkspaceSpec
CONSTANTS
  p1 = p1
  p2 = p2
  w1 = w1
  w2 = w2
  t1 = t1
  t2 = t2
  Ids = {w1, w2}
  Callers = {p1, p2}
  Trees = {base, t1, t2}
  BaseTree = base
  Root = root
  Absent = Absent
  MaxHistory = 2
  MaxPublished = 3
  MaxAttempts = 2
  MaxCalls = 5
  MrAnswers = {TRUE}
SYMMETRY WorkspaceSymmetry
PROPERTIES
  CheckedOutBranchStays
CHECK_DEADLOCK FALSE
