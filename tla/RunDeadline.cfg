SPECIFICATION Spec
CONSTANTS
  MaxAttempts = 2
  Modes <- MCContainers
  Deadlines <- MCDeadline
PROPERTY
  DeadlineIsTimeout
CHECK_DEADLOCK FALSE
