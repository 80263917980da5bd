SPECIFICATION Spec
CONSTANTS
  Obus = {"obu1"}
  ObuCards = {"c1"}
  TapCards = {"c2"}
  FreeCards = {}
  Verdicts = {"waived", "charged"}
  Unasked = TRUE
  MaxPurse = 2
  MaxVisits = 1
  MaxAnswers = 4
  MaxBacklog = 2
INVARIANTS TypeOK ObuPaidRowsAreReal
PROPERTIES NoSecondDebit
CHECK_DEADLOCK FALSE
