SPECIFICATION Spec
CONSTANTS
  DirNames = {"d", "e"}
  Hidden = {".h"}
  Paths <- MCPaths
  Excluded <- MCExcluded
  Trees <- MCTrees
  Happenings = {"create", "delete", "modify", "move"}
  MaxOps = 5
  QueueLimit = 20
  WatchLimit = 20
  MaxRestarts = 0
INVARIANT MapsAgree
INVARIANT EveryDirectoryWatched
PROPERTY BecomesCurrent
