\* The idempotency guard against two calls.
SPECIFICATION Spec
CONSTANTS
  me = me
  other = other
  entry = entry
  timeEntries = timeEntries
  none = none
  c1 = c1
  Tokens = {t1}
  Calls = {c1, c2}
  Tables <- MCTables
  Records <- MCRecords
  Users <- MCUsers
  Callers <- MCUsers
  CallerOf <- OnePerson
  TimeEntries = timeEntries
  Drafts <- AllDrafts
  Restricted <- NoneRestricted
  RoleVolatile <- NothingChanges
  ViewVolatile <- NothingChanges
  NoRecord = none
  NoRequest = NoRequest
  NoRow = NoRow
SYMMETRY CallSymmetry
INVARIANTS
  ExecutesAtMostOnce
CHECK_DEADLOCK FALSE
