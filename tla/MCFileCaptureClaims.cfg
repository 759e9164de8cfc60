\* Two processes claim from one queue; the clock is set, one of them fails.
SPECIFICATION FairSpec
CONSTANTS
  c1 = c1
  c2 = c2
  p1 = p1
  p2 = p2
  Content = {c1}
  Process = {p1, p2}
  Retainer = {}
  OldEvents <- None
  Page = 1
  Span = 2
  Lease = 2
  Backoff = 1
  MaxAttempts = 2
  ReleaseAfter = 1
  MaxTime = 2
  MaxEvents = 1
  MaxTroubles = 1
  MaxSteps = 1
PROPERTIES FencedResult JobsEnd
