CONSTANTS
  Paths <- MCPaths
  Directories <- MCDirectories
  Realtime <- MCRealtime
  Objects <- MCObjects
  Starts <- MCStarts
  BlockSize = 2
SPECIFICATION FairSpec
INVARIANTS UnwrittenIsUnknown AlertsTellDatabase ScanIsExact
PROPERTIES ScansEnd ShutdownTerminates
CHECK_DEADLOCK FALSE
