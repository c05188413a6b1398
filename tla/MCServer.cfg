SPECIFICATION Spec
CONSTANTS
  Clients = {"a", "b"}
  Readers = {"a"}
  WiresOf <- MCWiresOf
  MaxLine = 2
  Chunk = 3
  Room = 1
  MaxFd = 2
INVARIANT Registered
INVARIANT NothingLeft
INVARIANT FramingIndependent
PROPERTY Answered
PROPERTY ShutdownEnds
CHECK_DEADLOCK FALSE
