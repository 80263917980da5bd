SPECIFICATION Spec
CONSTANTS
  Plans <- MCPlans
  MaxFaults = 1
INVARIANTS TypeOK OneTimer TakenAsQueued OneBalancePerRequest
PROPERTIES FlushedIsSettled CommandsAreServed UploadEnds
CHECK_DEADLOCK FALSE
