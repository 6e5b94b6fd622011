SPECIFICATION FairSpec
CONSTANTS
  Hooks = {h1}
  Requests = {q1, q2}
  Jobs = {j1}
  Retries = {2}
  MaxCrashes = 2
  Nil = Nil
INVARIANTS TypeOK IInv AttemptsInOrder SuccessIsLast
PROPERTIES OutboxKept JobsSettle NoSilentLoss
CHECK_DEADLOCK FALSE
