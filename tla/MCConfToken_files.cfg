CONSTANTS
  CW_CONF_BUFFER = 7
  Documents <- WrittenFiles
  Sources = {"file", "param"}
  StatFails = FALSE
SPECIFICATION Spec
CHECK_DEADLOCK FALSE
INVARIANTS Faithful NothingLost ValidAccepted Understood
