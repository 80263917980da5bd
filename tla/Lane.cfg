CONSTANTS
  Units = {u1, u2}
  MinOKtimes = 2
  MaxRetry = 1
  ReadLimit = 2
  NakWillDo = TRUE
  AntennaCalls = 4
  LateAnswers = TRUE
  KsmCalls = 2
  KsmBacklog = 1
  Tables = {"season", "vehicletype", "ledmessage", "parameter", "stationsetup",
            "tariff", "typeinfo", "xtariff", "holiday", "tr"}
  Rows = {r1, r2}
  BatchSize = 1
  MaxEdits = 2
  MaxFaults = 2
  MaxRestarts = 1
  Ius = {i1, i2}
  Cards = {c1}
  EntryPosts = 5
  EntryBacklog = 2
  FeRecords = {f1, f2}
  BeRecords = {b1, b2}
  LcsRecords = {l1}
  Payments = {{f1, f2}, {f1, l1}, {f1, b1}, {b1, b2}}
  Instants = 2
  MaxTime = 2
  FileFaults = 1
SPECIFICATION Spec
INVARIANTS TypeOK RequestIsServed PollingIsKept  EntryIsRecorded RecordsAreKept 
PROPERTIES StoppedLoopEnds CardIsOrderedOut
CHECK_DEADLOCK FALSE
