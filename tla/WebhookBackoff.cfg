SPECIFICATION Spec
CONSTANTS
  Hooks = {h1}
  Requests = {q1}
  Jobs = {j1}
  Retries = {3}
  MaxCrashes = 0
  Nil = Nil
INVARIANTS BackoffAsDocumented
CHECK_DEADLOCK FALSE
