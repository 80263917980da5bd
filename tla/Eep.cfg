SPECIFICATION Spec
CONSTANTS
  Calls = {"obu", "deduct"}
  MaxFaults = 1
  MaxPosts = 1
  MissedLimit = 2
  SlowConnect = FALSE
INVARIANTS TypeOK Armed OnlyFaultsFail AnswersMatch
PROPERTIES RequestsEnd
CHECK_DEADLOCK FALSE
