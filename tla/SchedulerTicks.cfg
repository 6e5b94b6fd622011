SPECIFICATION Spec
CONSTANTS
  Autos = {a1, a2}
  Phones = {p1, p2}
  Period = 2
  MaxTime = 4
  Crons <- MCCrons
  Down = Down
SYMMETRY Symmetry
CONSTRAINT OneEdited
INVARIANTS IInv NeverTwice EachMinuteServed
