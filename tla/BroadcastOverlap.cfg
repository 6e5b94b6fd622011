SPECIFICATION Spec
CONSTANTS
  Recipients = {r1, r2}
  Requests = {q1, q2, q3}
  Jobs = {j1, j2}
  Attempts = 1
  MaxCrashes = 0
  Nil = Nil
SYMMETRY Symmetry
INVARIANTS CountersHonest DoneIsComplete
PROPERTIES CompletionHasReason
CHECK_DEADLOCK FALSE
