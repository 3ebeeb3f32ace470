CONSTANTS
  Entries <- UpToThree
  Descriptors = {3, 4, 5}
SPECIFICATION Spec
CHECK_DEADLOCK FALSE
INVARIANTS SocketsAccounted Ready NoneForgotten
