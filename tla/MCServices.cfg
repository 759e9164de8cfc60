SPECIFICATION ServicesSpec
CONSTANTS
  Reader = {"live"}
  Session = {1, 2}
  HeadLen = 2
  Scenario <- MCScenario

  Address = {"a1", "a2"}
  Click = {"c1", "c2"}
  Batch = {"b1"}
  Stripe <- MCStripe
  Window = 2
  LastTick = 4
  Mishaps = 2

  Item = {"i1", "i2"}
  Fates <- MCFates

  Length = {0, 1, 3}
  MaxCommands = 3
  MaxNormalizedBytes = 5
  Life <- MCLife

  Value = {1, 2, 3}
  Actor = {"a", "b", "c"}
  CommonFrom = 4
  Sighting <- MCSighting
  Agenda <- MCAgenda

  Ip = {"i1", "i2", "i3"}
  Prefetch = {"p1", "p2"}
  Viewer = {"v1"}
  Page <- MCPage
  Covered = {"i2"}
  CacheMax = 2
  SweepMax = 1
  Permits = 1
  PerCall = 2
  MissFor = 1
  RefusedFor = 1
  PauseFor = 2
  FreshFor = 3
  RowFor = 5
  Sky <- MCSky

  Host = {"a1", "a2"}
  Hash = {"h1"}
  Keyless = {"a2"}
  Saver = {"s1", "s2"}
  Asker = {"q1", "q2"}
  GoodKey = {"good"}
  Typed = {"good", "bad"}
  AnswerFor = 1
  VerdictFor = 1
  UnseenFor = 1
  KeptFor = 1
  Chances <- MCChances

  Worker = {"u", "v"}
  SessionID = {1, 2}
  Script = {1, 2, 3, 4}
  Distinctive = {1, 2, 3}
  Size <- MCSize
  Gap <- MCGap
  FamilyThreshold = 1
  FamilyNearestReps = 1
  FamilyBatch = 2
  FamilyVariantCap = 1
  MaxLinkActors = 1
  Chunk = 1
  Trials <- MCTrials
INVARIANTS
  LinesCountedOnce OffsetEarned
  OneReportPerWindow
  OutputTrusted
  CappedPrefix
  IdentityReturns EditsKept
  MarkHeldOnce NothingOutdated
  RequestsShared KnownNotLost
  FamiliesHold
CHECK_DEADLOCK FALSE
