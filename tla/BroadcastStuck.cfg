SPECIFICATION FairSpec
CONSTANTS
  Recipients = {r1}
  Requests = {q1, q2}
  Jobs = {j1}
  Attempts = 3
  MaxCrashes = 0
  Nil = Nil
PROPERTIES SendingEnds
CHECK_DEADLOCK FALSE
