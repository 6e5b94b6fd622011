SPECIFICATION Spec
CONSTANTS
  c1 = c1
  c2 = c2
  Chats = {c1, c2}
  LongIds = {c2}
  Lists <- MCLists
  Requests = {q1, q2}
  Jobs = {j1, j2}
  Attempts = 2
  MaxCrashes = 2
  Nil = Nil
SYMMETRY Symmetry
INVARIANTS IInv CallsAreWhole LogBacked
PROPERTIES OutboxKept
CHECK_DEADLOCK FALSE
