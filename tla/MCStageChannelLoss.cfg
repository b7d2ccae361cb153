SPECIFICATION LossySpec
CONSTANTS
  w1 = w1
  w2 = w2
  Workers <- MCWorkers
  NoTask = NoTask
  NoRow = NoRow
  MaxAttempts = 2
  MaxEvents = 1
  CopiesOf <- MCOneCopy
SYMMETRY Symmetry
INVARIANT WaitingIsOwned
\* the stage may end
CHECK_DEADLOCK FALSE
