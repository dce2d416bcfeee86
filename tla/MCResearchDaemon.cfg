CONSTANTS MaxEvents = 2
          MaxInbox = 1
          Mail = FALSE
          Faults = {"input", "processing", "intervention"}
SPECIFICATION Spec
INVARIANTS AlertsInOrder StopsOnlyAtShutdown ShutdownIsComplete
CHECK_DEADLOCK FALSE
