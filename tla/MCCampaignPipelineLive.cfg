\* What a fair scheduler brings about in the end.
SPECIFICATION FairSpec
CONSTANTS
  w1 = w1
  w2 = w2
  s1 = s1
  s2 = s2
  Worker = {w1, w2}
  Dead = Dead
  Owner = {w1, w2, Dead}
  NoOwner = NoOwner
  Session = {s1}
  VersionOf <- Upgraded
  OldVersion = 1
  Window = 1
  SlowReset = FALSE
  Scenario <- Recovery
PROPERTIES EditsApplied HoldEnds
