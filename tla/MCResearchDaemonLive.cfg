CONSTANTS MaxEvents = 0
          MaxInbox = 1
          Mail = TRUE
          Faults = {"input", "intervention"}
SPECIFICATION FairSpec
PROPERTIES ShutdownTerminates AlertsGetWritten
CHECK_DEADLOCK FALSE
