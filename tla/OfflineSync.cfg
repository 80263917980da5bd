SPECIFICATION Spec
CONSTANTS
  MaxRows = 2
  Undated = {2}
  MaxOutages = 1
  MaxFaults = 1
  MaxCrashes = 1
INVARIANTS TypeOK ToldMeansStored UndisturbedOnce
PROPERTIES StoredRowsAreKept CountedRowsAreSent
