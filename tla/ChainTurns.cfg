CONSTANTS
  c1 = c1
  c2 = c2
  NoCall = NoCall
  Calls = {c1, c2}
  ActionIds = {1, 2}
  Paths = {"f"}
  Contents = {"x", "y"}
  Proposals <- Writers
  Engine = TRUE
  Racing = FALSE
  PermitId = {1, 2, 3, 4}
  TTL = 1
  MaxTime = 1
SYMMETRY Symmetry
SPECIFICATION Spec
INVARIANTS
  TypeOK
  ExecutedAsJudged
  InformedOverwrite
  PermitsSuffice
  ReviewIsApprovable
PROPERTY
  ImplementsControlledCall
