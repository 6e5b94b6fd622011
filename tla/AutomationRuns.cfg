SPECIFICATION Spec
CONSTANTS
  Autos = {a1}
  Requests = {q1, q2, q3}
  Jobs = {j1, j2}
  MaxTargets = 2
  Attempts = 2
  MaxCrashes = 1
  Nil = Nil
SYMMETRY Symmetry
CONSTRAINT OneInTrouble
INVARIANTS IInv NoListLost CountHonest EachRunOnce RunsBounded
CHECK_DEADLOCK FALSE
