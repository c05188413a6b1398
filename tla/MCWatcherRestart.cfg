SPECIFICATION RestartSpec
CONSTANTS
  DirNames = {"d", "e"}
  Hidden = {".h"}
  Paths <- MCPaths
  Excluded <- MCExcluded
  Trees <- MCTrees
  Happenings = {"create", "delete", "modify", "move"}
  MaxOps = 4
  QueueLimit = 20
  WatchLimit = 20
  MaxRestarts = 1
INVARIANT EveryDirectoryWatched
