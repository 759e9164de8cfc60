\* Two upgraded processes over one database, with a trouble at any step.
SPECIFICATION Spec
CONSTANTS
  w1 = w1
  w2 = w2
  s1 = s1
  s2 = s2
  Worker = {w1, w2}
  Dead = Dead
  Owner = {w1, w2, Dead}
  NoOwner = NoOwner
  Session = {s1, s2}
  VersionOf <- Upgraded
  OldVersion = 1
  Window = 1
  SlowReset = FALSE
  Scenario <- Troubles
INVARIANTS RecorderExact SettledWhole
PROPERTY IdentityKept
SYMMETRY WorkerSymmetry
