SPECIFICATION Spec
SYMMETRY Symmetry
CONSTANTS
  Calls = {c1, c2, c3, c4}
  Kinds = {"connect", "access", "refresh"}
  Rotations = {"rotates", "same", "omits"}
  Lifetime = 3
  MaxDelay = 1
  MaxTime = 3
  MaxLosses = 1
  NoConfig = NoConfig
  NoState = NoState
  NoTokens = NoTokens
  NoToken = NoToken
INVARIANTS
  NewestLinkStands
  ConnectionKept
PROPERTIES
  HandedOutIsValid
CHECK_DEADLOCK FALSE
