SPECIFICATION FairPlanSpec

CONSTANTS
  a = a
  Tables = {a, b, c}
  Possible <- OneSelfReference
INVARIANTS
  PrerequisitesFirst
  PlanIsDownstream
  ShownIfRefsAreShown
PROPERTIES
  PlanEnds
CHECK_DEADLOCK FALSE
