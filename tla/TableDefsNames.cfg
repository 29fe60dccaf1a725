SPECIFICATION Spec
CONSTANTS
  n1 = n1  n2 = n2  a = a  b = b  g1 = g1  q1 = q1  q2 = q2
  Names = {n1, n2}
  Cols = {a, b}
  Groups = {g1}
  Requests = {q1, q2}
  MaxDefs = 3
  MaxRequests = 3
  MaxAlters = 1
  MaxFaults = 1
INVARIANT NamesUnique
CHECK_DEADLOCK FALSE
