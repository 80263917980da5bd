SPECIFICATION Spec
CONSTANTS
  Obus = {"obu1"}
  ObuCards = {"c1"}
  TapCards = {"c1"}
  FreeCards = {}
  Verdicts = {"charged"}
  Unasked = FALSE
  MaxPurse = 2
  MaxVisits = 1
  MaxAnswers = 3
  MaxBacklog = 2
PROPERTIES BalanceChangeMeansCharged
CHECK_DEADLOCK FALSE
