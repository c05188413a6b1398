SPECIFICATION Spec
CONSTANTS
  Procs = {p1, p2, p3}
  Clients = {c1}
  Paths = {a, b}
  Kinds = {"add", "shutdown"}
  MaxPolls = 1
  MaxCrashes = 0
  None = None
CHECK_DEADLOCK FALSE
INVARIANT AddedIsKept
