SPECIFICATION FairSpec
CONSTANTS
  MaxAttempts = 2
  Modes <- MCModes
  Deadlines <- MCDeadlines
INVARIANTS
  TypeOK
  PassedOnItsOwn
  NothingLeftRunning
PROPERTIES
  BlamesLeftoversOnly
  AttemptEnds
  ReportKept
CHECK_DEADLOCK FALSE
