\* Three imports of five grids and a pricing run by hand, one fault.
SPECIFICATION Spec
CONSTANTS
  u1 = u1
  u2 = u2
  u3 = u3
  s1 = s1
  s2 = s2
  p1 = p1
  p2 = p2
  r1 = r1
  r2 = r2
  none = none
  item1 = item1
  item2 = item2
  Units = {u1, u2, u3}
  ReadAs <- MCReadAs
  SubPhases = {s1, s2}
  Phases = {p1, p2}
  SubPhaseOf <- MCSubPhaseOf
  PhaseOf <- MCPhaseOf
  Roles = {r1, r2}
  NoRole = none
  Fields = {1, 2}
  Blank = 1
  Categories = {item1, item2}
  CategoryOf <- MCCategoryOf
  Grids <- MCGrids
  NoGrid = NoGrid
  Retries = 2
  NumImports = 3
  NumCalcs = 1
  MaxFaults = 1
INVARIANTS
  ImportReadsBack
  MarkedIsLoaded
  DuplicatesAreFaults
  ParentsFirst
CHECK_DEADLOCK FALSE
