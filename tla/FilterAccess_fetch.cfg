SPECIFICATION FairSpec
CONSTANTS
  MaxId = 3
  PageSize = 1
  Scheduled = {schedule}
  Asked = {sync}
  MaxChanges = 2
  MaxFailures = 1
  NoItem = NoItem
INVARIANTS
  CachedWasPermitted
  QuietFetchIsExact
PROPERTIES
  AccessConverges
