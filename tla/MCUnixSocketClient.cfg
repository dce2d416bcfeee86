CONSTANTS MaxIncarnations = 3
          MaxCalls = 3
          SystemFails = TRUE
SPECIFICATION FairClientSpec
INVARIANTS ReturnsIffDelivered RestartIsNoError
PROPERTIES SendReturns
CHECK_DEADLOCK FALSE
