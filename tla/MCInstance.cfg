SPECIFICATION Spec
CONSTANTS
  Procs = {p1, p2, p3}
  Clients = {c1}
  Paths = {a}
  Kinds = {"add", "shutdown"}
  MaxPolls = 1
  MaxCrashes = 1
  None = None
INVARIANT OneDaemon
INVARIANT OwnSocket
PROPERTY StartServes
CHECK_DEADLOCK FALSE
