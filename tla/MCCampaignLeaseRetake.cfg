\* The half-life acquire that waits past the lease's end.
SPECIFICATION Spec
CONSTANTS
  Worker = {w1, w2}
  NoOwner = NoOwner
  TTL = 2
  MaxTime = 3
  MaxStarts = 1
  MaxSteps = 0
PROPERTY FreshCheckSave
CHECK_DEADLOCK FALSE
