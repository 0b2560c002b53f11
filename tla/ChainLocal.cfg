CONSTANTS
  c1 = c1
  c2 = c2
  NoCall = NoCall
  Calls = {c1, c2}
  ActionIds = {1, 2}
  Paths = {"f"}
  Contents = {"x", "y"}
  Proposals <- AllTools
  Engine = FALSE
  Racing = FALSE
  PermitId = {1, 2, 3, 4}
  TTL = 1
  MaxTime = 1
SYMMETRY Symmetry
SPECIFICATION Spec
INVARIANTS
  InformedOverwrite
  EffectsAccountedFor
