SPECIFICATION FairSpec
CONSTANTS
  Recipients = {r1, r2}
  Requests = {q1, q2}
  Jobs = {j1}
  Attempts = 2
  MaxCrashes = 1
  Nil = Nil
INVARIANTS TypeOK IInv LogsMatchReport
PROPERTIES LedgerKept JobsSettle
CHECK_DEADLOCK FALSE
