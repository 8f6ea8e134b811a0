\* Two execute calls of two people race on one proposal while permissions change.
SPECIFICATION FairSpec
CONSTANTS
  me = me
  other = other
  entry = entry
  timeEntries = timeEntries
  none = none
  c1 = c1
  Tokens = {t1}
  Calls = {c1, c2}
  Tables <- MCTables
  Records <- MCRecords
  Users <- MCUsers
  Callers <- MCUsers
  CallerOf <- TwoPeople
  TimeEntries = timeEntries
  Drafts <- CreateUpdate
  Restricted <- NoneRestricted
  RoleVolatile <- CreateMayChange
  ViewVolatile <- EntryMayHide
  NoRecord = none
  NoRequest = NoRequest
  NoRow = NoRow
INVARIANTS
  AtMostOncePerCall
  ExecutedMeansWritten
  AnswersAreOnRecord
  TimeEntriesStayOwn
PROPERTIES
  AuditIsPermanent
  LicensedSpec
  CallsReturn
  ProposalsSettle
CHECK_DEADLOCK FALSE
