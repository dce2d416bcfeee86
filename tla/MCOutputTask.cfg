CONSTANTS
  MaxEvents = 5
  Unsendable = {4}
SPECIFICATION FairSpec
INVARIANTS NothingLost OvertakenOnlyIfDeferred ShutdownDrains
PROPERTIES ImplementsChannel EventuallyDelivered ShutdownTerminates
CHECK_DEADLOCK FALSE
