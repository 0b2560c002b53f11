CONSTANTS
  q1 = q1
  Asks = {q1}
  Names <- MCNames
  OptionLists <- MCOptionLists
  Routes <- MCRoutes
  Skills = {"paper", "coding"}
  Ruled = {"paper", "coding"}
  MaxOptions = 3
  Full = 2
  MinConfidence = 1
SPECIFICATION Spec
INVARIANTS
  TypeOK
  ContentStaysLocal
  AllowIsEarned
  AnswersAreOptions
CHECK_DEADLOCK FALSE
