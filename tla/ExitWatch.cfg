SPECIFICATION Spec
CONSTANTS
  Obus = {"obu1"}
  ObuCards = {"c1"}
  TapCards = {"c2", "master"}
  FreeCards = {"master"}
  Verdicts = {"season", "charged"}
  Unasked = FALSE
  MaxPurse = 2
  MaxVisits = 2
  MaxAnswers = 3
  MaxBacklog = 2
INVARIANTS WatchdogArmed
PROPERTIES StuckDeductionEnds
CHECK_DEADLOCK FALSE
