SPECIFICATION FairSpec
CONSTANTS
  Orders <- MCOrders
  Lists <- MCLists
  NoJump = NoJump
INVARIANTS TypeOK IInv StepBound CutIffLoop RunsInOrder MessagesMatch
PROPERTIES RunEnds
CHECK_DEADLOCK FALSE
