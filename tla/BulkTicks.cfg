SPECIFICATION BulkSpec
CONSTANTS
  A = A  B = B
  Nothing = Nothing
  Tables = {A, B}
  Keys = {"k1", "k2"}
  ChunkSize = 1
INVARIANT TicksStayInTable
CHECK_DEADLOCK FALSE
