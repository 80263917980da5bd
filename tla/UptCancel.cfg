SPECIFICATION Spec
CONSTANTS
  Requests = {"DETECT"}
  AsksFor = {"RESET_SEQ"}
  SeqMax = 4
  MaxRequests = 1
  MaxCancels = 1
  MaxCloses = 1
  MaxBacklog = 3
  MaxFaults = 1
INVARIANTS WakeUpPending WaitsEnd SendEnds
PROPERTIES QueueDrains
CHECK_DEADLOCK FALSE
