CONSTANTS
  Commands <- CoreCommands
  Params <- NoParam
  Files <- SomeFiles
  CW_MAX_INT_T_VALUE = 47
  Online <- Processors
  Failures = TRUE
  MaxOpen = 1
  Entries <- SomeEntries
  Sockets = {3, 8}
  Plan <- TwoWorkers
  MaxProcesses = 3
  Channels = {4, 5, 6, 7}
  InitResults = {"ok"}
  EventActions = FALSE
  MaxSignals = 2
  Modules <- AllModules
  CW_MAX_DYNAMIC_MODULES = 1
  Paths <- OnePath
  CW_HAVE_OS_SPECIFIC_INIT = TRUE
SPECIFICATION FairSpec
CHECK_DEADLOCK FALSE
INVARIANTS WorkersReady MemoryAlive ContextsSet ReleasedOnReject SettingTrue NameKept NoOrphans
PROPERTIES Boots
