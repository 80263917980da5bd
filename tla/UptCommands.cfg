SPECIFICATION Spec
CONSTANTS
  Requests = {"DETECT"}
  AsksFor = {"LOGON"}
  SeqMax = 50
  MaxRequests = 2
  MaxCancels = 0
  MaxCloses = 1
  MaxBacklog = 3
  MaxFaults = 1
INVARIANTS TypeOK FailedOnce AnswersMatch
PROPERTIES FrameIsCurrent
CHECK_DEADLOCK FALSE
