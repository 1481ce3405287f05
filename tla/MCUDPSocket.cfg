CONSTANTS
  MaxFd = 3
  HasPort = TRUE
SPECIFICATION Spec
INVARIANTS NoSocketLost AbortsOnlyAfterReopen
CHECK_DEADLOCK FALSE
