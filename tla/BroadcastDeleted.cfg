SPECIFICATION Spec
CONSTANTS
  Recipients = {r1}
  Requests = {q1, q2}
  Jobs = {j1}
  Attempts = 1
  MaxCrashes = 0
  Nil = Nil
PROPERTIES DeletedStaysDeleted
CHECK_DEADLOCK FALSE
