\* Reads of a moving listing, over invocations of which one dies or gets an error in a 200.
SPECIFICATION FairSpec
CONSTANTS
  Ids = {1, 2}
  Existing = {1}
  PageSize = 1
  BatchPages = 2
  FilterLag = 2
  MaxDay = 3
  MaxChanges = 2
  MaxFaults = 1
  NoTime = NoTime
  NoBackfill = NoBackfill
  NoFile = NoFile
INVARIANTS
  
  
  NoFalseDeletion

  
CHECK_DEADLOCK FALSE
