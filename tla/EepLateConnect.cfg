SPECIFICATION Spec
CONSTANTS
  Calls = {}
  MaxFaults = 1
  MaxPosts = 1
  MissedLimit = 2
  SlowConnect = TRUE
PROPERTIES Reconnects
CHECK_DEADLOCK FALSE
