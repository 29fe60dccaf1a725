SPECIFICATION Spec
CONSTANTS
  q1 = q1  q2 = q2
  Requests = {q1}
  MaxItems = 5
  MaxFaults = 0
INVARIANT GroupMoveSwapsNeighbours
CHECK_DEADLOCK FALSE
