SPECIFICATION Spec
CONSTANTS
  Requests = {"DETECT"}
  AsksFor = {}
  SeqMax = 50
  MaxRequests = 1
  MaxCancels = 1
  MaxCloses = 0
  MaxBacklog = 3
  MaxFaults = 0
PROPERTIES FrameIsCurrent
CHECK_DEADLOCK FALSE
