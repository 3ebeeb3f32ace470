CONSTANTS
  Plan <- Mixed
  MaxProcesses = 3
  Descriptors = {3, 4, 5, 6, 7}
  InitResults = {"ok", "error"}
  EventActions = TRUE
  MaxSignals = 1
SPECIFICATION FairSpec
CHECK_DEADLOCK FALSE
INVARIANTS TypeOK ChannelsAccounted TableCoherent
PROPERTIES EveryChildRecorded StartupCompletes
