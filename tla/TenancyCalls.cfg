SPECIFICATION Spec
CONSTANTS
  Users = {u1, u2}
  Workspaces = {w1}
  Keys = {k1}
  Sessions = {s1}
  Contacts = {c1, c2}
  Groups = {g1}
  Phones = {p1, p2}
  Requests = {q1, q2, q3}
  MaxTokens = 2
  MaxRows = 1
  MaxInFlight = 2
  Nil = Nil
SYMMETRY Symmetry
CONSTRAINT Related
INVARIANTS TypeOK OwnerPresent SupersededStaysDead RemovedStays NoOrphan BlacklistHonoured
CHECK_DEADLOCK FALSE
