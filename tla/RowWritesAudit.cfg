SPECIFICATION Spec
CONSTANTS
  r1 = r1  r2 = r2  k1 = k1  k2 = k2  t1 = t1  q1 = q1  q2 = q2
  Rows = {r1, r2}
  Keys = {k1, k2}
  Keyings <- MCUnique
  Tags = {t1}
  Requests = {q1}
  MaxFaults = 1
INVARIANT EveryInsertAudited
CHECK_DEADLOCK FALSE
