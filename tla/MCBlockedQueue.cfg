CONSTANTS Producers = {p1, p2}
          Consumers = {c1, c2}
          Timed = {c2}
          Nobody = Nobody
          MaxPushes = 2
SPECIFICATION FairSpec
INVARIANTS FirstInFirstOut NoLostWakeup
PROPERTIES EverythingIsTaken
CHECK_DEADLOCK TRUE
