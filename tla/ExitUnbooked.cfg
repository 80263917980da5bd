SPECIFICATION Spec
CONSTANTS
  Obus = {"obu1"}
  ObuCards = {"c1"}
  TapCards = {"c2"}
  FreeCards = {}
  Verdicts = {"charged"}
  Unasked = FALSE
  MaxPurse = 2
  MaxVisits = 1
  MaxAnswers = 2
  MaxBacklog = 2
INVARIANTS ObuDebitsAreBooked
CHECK_DEADLOCK FALSE
