CONSTANTS
  Names = {"s", "o", "a", "b"}
  Root <- MCRoot
  Trees <- MCTrees
  Raws <- MCRaws
  Changes <- MCChanges
  MaxHops = 4
SPECIFICATION Spec
INVARIANTS
  TypeOK
  Confined
  ActsAsChecked
CHECK_DEADLOCK FALSE
