\* Two lookups of one hash, the second late for the first one's Once.
SPECIFICATION IntelSpec
CONSTANTS
  Host = {"a1"}
  Hash = {"h1"}
  Keyless = {}
  Saver = {"s1"}
  Asker = {"q1", "q2"}
  GoodKey = {"good"}
  Typed = {"good"}
  AnswerFor = 1
  VerdictFor = 1
  UnseenFor = 1
  KeptFor = 1
  Chances <- MCChances
INVARIANT OverlapCostsOne
CHECK_DEADLOCK FALSE
