\* Two requests to a service whose interpreter, bundle or runtime is replaced once; one
\* start of a Bridge; a command with two streams and two operators who bind interpreters.
SPECIFICATION ManagedSpec
CONSTANTS
  Requests = {r1, r2}
  Python = py
  Bundle = ca
  Runtime = rt
  ReplaceBound = 1
  RuntimeBound = 1
  NoReply = noReply
  Mismatch = mismatch
  Streams = {out, err}
  PipeSize = 1
  WriteLimit = 2
  Retained = 1
  Binders = {b1, b2}
  ChangeLimit = 1
  Unbound = unbound
INVARIANTS
  ManagedTypes
  ManagedSound
  ValidationReported
PROPERTIES
  ManagedSteps
  ManagedProgress
CHECK_DEADLOCK FALSE
