SPECIFICATION Spec
CONSTANTS
  d1 = d1  h1 = h1  h2 = h2
  w1 = w1  w2 = w2
  Defs = {d1}
  Hooks = {h1, h2}
  Binaries <- MCBinaries
  Writes = {w1}
  AfterHooks <- MCAfterHooks
  MaxFailures = 3
  BatchSize = 2
  MaxEntries = 2
  MaxRetries = 1
  MaxFaults = 2
INVARIANTS
  TypeOK
  DeadOnlyWhenSpent
  FiredOncePerFault
  OneEntryPerAssignment
  FirstTurnsInOrder
PROPERTIES
  ImplementsDelivery
  EventuallySettled
CHECK_DEADLOCK FALSE
