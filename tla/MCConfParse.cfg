CONSTANTS
  Commands <- More
  Params <- SomeParams
  Files <- ManyFiles
  CW_MAX_INT_T_VALUE = 47
  Online <- Processors
  Failures = TRUE
  MaxOpen = 2
SPECIFICATION Spec
CHECK_DEADLOCK FALSE
INVARIANTS FilesClosed BracesMatch Configured
