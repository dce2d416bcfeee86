CONSTANTS MaxLines = 3
          MaxMixed = 3
          MaxChanges = 1
          Workloads = {{"line", "text"}}
SPECIFICATION FairSpec
PROPERTIES LinesForwarded
CHECK_DEADLOCK FALSE
