SPECIFICATION Spec
CONSTANTS
  MaxIterations = 2
  MaxCommands = 2
  Branches = {b1, b2}
  NoBranch = NoBranch
  Missing = Missing
  Torn = Torn
  Places <- MCOwn
SYMMETRY MCSymmetry
INVARIANTS
  TypeOK
  ActivatedOnFreshRun
  SiblingFirst
  FailureActivatesNothing
  CompletedAgrees
  PassActivates
PROPERTY ActivationKept
CHECK_DEADLOCK FALSE
