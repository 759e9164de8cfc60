\* One process: retention beside the worker, the runner and a crash.
SPECIFICATION Spec
CONSTANTS
  c1 = c1
  c2 = c2
  p1 = p1
  p2 = p2
  Content = {c1}
  Process = {p1}
  Retainer = {p1}
  OldEvents <- Passed
  Page = 1
  Span = 2
  Lease = 2
  Backoff = 1
  MaxAttempts = 2
  ReleaseAfter = 1
  MaxTime = 1
  MaxEvents = 3
  MaxTroubles = 1
  MaxSteps = 0
INVARIANTS NothingLost
PROPERTY BackfillHolds
