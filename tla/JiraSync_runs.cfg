\* A parent and its child, three edits and one fault.
SPECIFICATION Spec
CONSTANTS
  a = a
  c = c
  Projects = {a, c}
  None = None
  ParentOf <- MCParentOf
  Buffer = 2
  Skew = 1
  Lookback = 1
  MaxTime = 2
  MaxEdits = 3
  MaxFaults = 1
INVARIANTS
  NothingIsPassedBy
  EpicsInKnownSpace
  DuplicatesAreLosses
PROPERTIES
  JiraConverges
CHECK_DEADLOCK FALSE
