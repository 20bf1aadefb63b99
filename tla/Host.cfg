\* Three threads of two processes nesting three deep; two owners of one tunnel, the
\* second of which replaces a running one, and a client that stops it;
\* two operators migrating two files, one of which others edit.
SPECIFICATION HostSpec
CONSTANTS
  k1 = k1
  k2 = k2
  k3 = k3
  n1 = n1
  n2 = n2
  u1 = u1
  p1 = p1
  p2 = p2
  Nobody = nobody
  NoOwner = noOwner
  Processes = {n1, n2}
  Threads = {k1, k2, k3}
  ProcessOf <- Placement
  MaxDepth = 3
  Owners = {o1, o2}
  Restarters = {o2}
  Clients = {c1}
  Profiles = {p1, p2}
  TunnelOf <- OneTunnel
  Files = {f1, f2}
  Migrators = {m1, m2}
  NoMigrator = noMigrator
  EditBound = 1
  FaultBound = 1
INVARIANTS
  HostTypes
  LockSound
  TunnelSupervised
  MigrationRecoverable
PROPERTIES
  HostSteps
  HostProgress
CHECK_DEADLOCK FALSE
