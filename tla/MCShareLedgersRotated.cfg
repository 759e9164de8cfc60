SPECIFICATION ShareSpec
CONSTANTS
  Site = {"u1"}
  ServerOf <- MCServerOf
  Private = {}
  Button = {"b1"}
  Cli = {"c1"}
  Active = 3
  Freshness = 5
  BatchSize = 2
  Streak = 2
  Errand <- Rotated
INVARIANT NewIndicatorOffered
CHECK_DEADLOCK FALSE
