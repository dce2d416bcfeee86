CONSTANTS MaxLines = 3
          MaxMixed = 2
          MaxChanges = 2
          Workloads = {{"line", "blank", "stop"}, {"line", "text", "truncate", "replace", "remove", "stop", "crash", "timeout"}}
SPECIFICATION FairSpec
INVARIANTS NoLineSkipped DownAndAliveAgree ForwardedExactlyOnce
PROPERTIES AppendedIsForwarded
CHECK_DEADLOCK FALSE
