CONSTANTS
  q1 = q1
  q2 = q2
  q3 = q3
  NoRequest = NoRequest
  Requests = {q1, q2, q3}
  Tools <- MCTools
  Rules <- MCRules
SPECIFICATION FairSpec
INVARIANTS
  TypeOK
  ActsAsTold
  ActsByRule
  CompleteDiscovery
  InitializesAlone
PROPERTY
  RequestsAnswered
  ImplementsControlledCall
