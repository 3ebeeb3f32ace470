CONSTANTS
  Plan <- TwoWorkers
  MaxProcesses = 4
  Descriptors = {3, 4, 5, 6, 7, 8}
  InitResults = {"ok"}
  EventActions = FALSE
  MaxSignals = 1
SPECIFICATION FairSpec
CHECK_DEADLOCK FALSE
PROPERTIES QuitNoticed
