SPECIFICATION MCSpec
CONSTANTS
  r1 = r1  r2 = r2  k1 = k1  k2 = k2  t1 = t1  q1 = q1  q2 = q2
  Rows = {r1, r2}
  Keys = {k1, k2}
  Keyings <- MCKeyings
  Tags = {t1}
  Requests = {q1, q2}
  MaxFaults = 1
INVARIANTS
  TypeOK
  ReferencesHold
  TrailMatchesChanges
  RefusedWritesNothing
  BulkReportsEachKey
PROPERTIES
  LinksBecomeSelection
SYMMETRY MCSymmetry
CHECK_DEADLOCK FALSE
