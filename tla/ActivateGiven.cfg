SPECIFICATION Spec
CONSTANTS
  MaxIterations = 2
  MaxCommands = 1
  Branches = {b1}
  NoBranch = NoBranch
  Missing = Missing
  Torn = Torn
  Places <- MCGiven
INVARIANT
  PassActivates
CHECK_DEADLOCK FALSE
