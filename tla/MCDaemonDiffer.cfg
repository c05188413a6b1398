SPECIFICATION Spec
CONSTANTS
  h = h
  r = r
  d = d
  a = a
  b = b
  c = c
  c1 = c1
  c2 = c2
  rb = rb
  Truncated = Truncated
  None = None
  Roots = {h, r}
  Home = h
  Files = {a, b, c, d}
  Dirs = {d}
  DirOf <- MCDirOf
  RootOf <- MCRootOf
  Hidden = {b}
  Conns = {c1}
  Rebuilder = rb
  QueueLimit = 1
  Scenarios <- Differing
\* Each fails, and TLC stops at the first: leave one.
INVARIANT GoodDataServed
INVARIANT OnlyConfigured
INVARIANT RemovalSurvivesRestart
INVARIANT AnswersSurvive
PROPERTY NewFilesShowUp
PROPERTY WatcherStops
CHECK_DEADLOCK FALSE
