SPECIFICATION Spec
CONSTANTS
  DirNames = {"d", "e"}
  Hidden = {}
  Paths <- AgainPaths
  Excluded = {}
  Trees <- AgainTrees
  Happenings = {"create", "delete"}
  MaxOps = 6
  QueueLimit = 40
  WatchLimit = 20
  MaxRestarts = 0
INVARIANT EveryDirectoryWatched
