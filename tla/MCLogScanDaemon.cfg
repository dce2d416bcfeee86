CONSTANTS MaxLines = 3
          MaxMessages = 1
          MaxRuns = 2
          Faults = {"logfile", "systemd"}
SPECIFICATION FairSpec
INVARIANTS DeliveredInOrder ShutdownDelivers
PROPERTIES ShutdownTerminates
CHECK_DEADLOCK FALSE
