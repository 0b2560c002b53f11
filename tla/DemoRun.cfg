CONSTANTS
  q1 = q1
  q2 = q2
  q3 = q3
  r1 = r1
  r2 = r2
  a1 = a1
  a2 = a2
  a3 = a3
  t1 = t1
  t2 = t2
  NoToken = NoToken
  Requests = {q1, q2, q3}
  Runs = {r1, r2}
  Actions = {a1, a2, a3}
  MaxSteps = 2
  Tokens = {t1, t2}
SYMMETRY Symmetry
SPECIFICATION Spec
INVARIANTS
  TypeOK
  CompletedMeansSaved
  ContentsHidden
  SeparateDuties
