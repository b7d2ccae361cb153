SPECIFICATION MCSpec
CONSTANTS
  w1 = w1
  w2 = w2
  Workers <- MCWorkers
  NoTask = NoTask
  NoRow = NoRow
  MaxAttempts = 3
  MaxEvents = 3
  CopiesOf <- MCCopiesOf
SYMMETRY Symmetry
INVARIANTS
  TypeOK
  NothingIsLost
PROPERTIES
  AttemptsNeverRegress
\* the stage may end
CHECK_DEADLOCK FALSE
