CONSTANTS
  projects = projects
  entries = entries
  None = None
  Empty = Empty
  Nobody = Nobody
  Tables <- AllTables
  ReportViews <- ThreeConfigs
  Planned <- ThreePlans
  Refs <- EntriesReferToProjects
  Callers = {alice, bob}
  MaxRewrites = 1
  MaxFailures = 1

SPECIFICATION FairSpec

INVARIANTS
  RenameIsFree
  CallersSeeTheirOwn
  StaleIsNoticed
PROPERTIES
  EventuallyCurrent
