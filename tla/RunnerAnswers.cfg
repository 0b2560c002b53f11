CONSTANTS
  q1 = q1
  q2 = q2
  q3 = q3
  r1 = r1
  r2 = r2
  a1 = a1
  a2 = a2
  a3 = a3
  Requests = {q1, q2}
  Runs = {r1, r2}
  Actions = {a1, a2}
  MaxSteps = 2
SPECIFICATION FairSpec
PROPERTY
  RequestsAnswered
  ImplementsControlledCall
