SPECIFICATION SchedulesSpec
CONSTANTS
  Url = {"u1", "u2", "u3"}
  Host = {"h1", "h2"}
  Command <- MCCommand
  HostOf <- MCHostOf
  Payload = {"script", "binary"}
  Names <- MCNames
  NoHost = "none"
  NoPayload = "none"
  Budget = 2
  LeaseFor = 1
  Backoff = 1
  MaxDepth = 2
  HostQuota = 1
  Day = 1
  Keep = 2
  Fortune <- MCFortune

  Attacker = {1, 2}
  Username = {1, 2}
  PageLines = 1
  PageUsers = 1
  PageActors = 1
  Weather <- Weathers
  Overlap = FALSE

  Link = {"l1"}
  Worker = {"w1", "w2"}
  Body = {1, 2, 3, 4}
  FirstPhase = 2
  SecondPhase = 3
  MaxAge = 5
  Hourly = 1
  SixHourly = 2
  Daily = 2
  OfflineAfter = 2
  MaxNew = 2
  ClaimFor = 2
  ReleaseDelay = 1
  End = 10
  Chance <- MCChance

  Viewer = {"r1"}
  Uploader = {"u1"}
  Sample = {"s1"}
  Uploads = 1

  Site = {"u1", "u2", "u3"}
  ServerOf <- MCServerOf
  Private = {"h2"}
  Button = {"b1", "b2"}
  Cli = {"c1"}
  Active = 3
  Freshness = 5
  BatchSize = 2
  Streak = 2
  Errand <- MCErrand

  Opener = {"p1", "p2"}
  Locator = {"u1"}
  Inherited <- MCInherited
INVARIANTS
  FetchesRationed FetchedIsRead
  AttemptsCountedOnce CurrentCovers
  ProvenanceKept
  StoreOutlives PanelFresh PostsOnce
  UpgradeHolds
PROPERTIES EveryUrlSettles DerivationSettles OnlyClaimantMoves ScheduleEnds Drains
           CreditKept PoolDrains
CHECK_DEADLOCK FALSE
