CONSTANTS
  CW_CONF_BUFFER = 2
  Documents <- ShortTexts
  Sources = {"file", "param"}
  StatFails = FALSE
SPECIFICATION FairSpec
CHECK_DEADLOCK FALSE
INVARIANTS TypeOK Window LineTrue NeverEmpty
PROPERTIES Terminates AsIfUnbuffered
