\* A record that moves on to the next page of one batch.
SPECIFICATION Spec
CONSTANTS
  Ids = {1, 2}
  Existing = {1, 2}
  PageSize = 1
  BatchPages = 2
  FilterLag = 2
  MaxDay = 3
  MaxChanges = 2
  MaxFaults = 0
  NoTime = NoTime
  NoBackfill = NoBackfill
  NoFile = NoFile
INVARIANTS
  OneRowPerId
CHECK_DEADLOCK FALSE
