CONSTANTS
  c1 = c1
  c2 = c2
  NoCall = NoCall
  Calls = {c1}
  ActionIds = {1, 2}
  Paths = {"f"}
  Contents = {"x", "y"}
  Proposals <- Everything
  Engine = TRUE
  Racing = TRUE
  PermitId = {1, 2, 3, 4}
  TTL = 1
  MaxTime = 1
SPECIFICATION FairSpec
INVARIANT
  PermitsConfined
PROPERTY
  CallReturns
