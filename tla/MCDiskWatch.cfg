CONSTANTS
  Paths <- MCPaths
  Ignored <- MCIgnored
  Dirs <- MCDirs
  Trees <- MCTrees
  QueueSize = 4
  MaxChanges = 3
SPECIFICATION Spec
INVARIANTS NoDirectoryIsLost OnlyOverflowIsUnknown
CHECK_DEADLOCK FALSE
