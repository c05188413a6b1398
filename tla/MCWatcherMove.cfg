SPECIFICATION Spec
CONSTANTS
  DirNames = {"d", "e"}
  Hidden = {}
  Paths <- SidePaths
  Excluded = {}
  Trees <- SideTrees
  Happenings = {"create", "delete", "modify", "move dir"}
  MaxOps = 4
  QueueLimit = 20
  WatchLimit = 20
  MaxRestarts = 0
INVARIANT SettledIsCurrent
