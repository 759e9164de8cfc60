\* Two processes; the wall clock may be stepped once, either way.
SPECIFICATION Spec
CONSTANTS
  Worker = {w1, w2}
  NoOwner = NoOwner
  TTL = 2
  MaxTime = 4
  MaxStarts = 2
  MaxSteps = 1
INVARIANT OneBeliever
PROPERTIES FencedSave ImplementsWorkerLease
SYMMETRY WorkerSymmetry
CHECK_DEADLOCK FALSE
