SPECIFICATION Spec
CONSTANTS
  Clients = {"a", "b"}
  Readers = {"a"}
  WiresOf <- RebuildWiresOf
  MaxLine = 2
  Chunk = 3
  Room = 1
  MaxFd = 2
INVARIANT NoUseAfterFree
CHECK_DEADLOCK FALSE
