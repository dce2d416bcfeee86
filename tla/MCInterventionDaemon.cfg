CONSTANTS
  Actions <- MCActions
  PipeSize = 1
  Starts <- MCStarts
SPECIFICATION FairSpec
INVARIANTS ForkedInOrder OneCommandAtATime KillsOwnChild
PROPERTIES CommandsEnd ShutdownTerminates
CHECK_DEADLOCK FALSE
