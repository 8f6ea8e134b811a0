\* Two requests for two entries, one fault.
SPECIFICATION MoveSpec
CONSTANTS
  Entries = {e1, e2}
  Batches = {b1, b2}
  MaxHours = 2
  MaxEdits = 1
  MaxMoveFaults = 1
INVARIANTS
  RowsAreMoved
CHECK_DEADLOCK FALSE
