CONSTANTS
  CW_CONF_BUFFER = 7
  Documents <- WrittenFiles
  Sources = {"file"}
  StatFails = TRUE
SPECIFICATION Spec
CHECK_DEADLOCK FALSE
INVARIANTS FileDoneMeansDone
