CONSTANTS
  a1 = a1
  a2 = a2
  write = write
  x = x
  y = y
  k1 = k1
  k2 = k2
  ActionIds = {a1, a2}
  Tools = {write}
  Bodies = {x, y}
  Proposals <- MCProposals
  PermitId = {k1, k2}
  TTL = 1
  MaxTime = 2
SPECIFICATION Spec
INVARIANTS
  TypeOK
  UsedOnceAsIssued
  RefusedForGood
PROPERTIES
  ImplementsOneUsePermit
