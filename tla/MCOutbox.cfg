\* Safety, refinement and progress of two rows with two relays and one ordinary
\* retry, and of one row with rebuilds that are granted two attempts.
SPECIFICATION MCSpec
CONSTANTS
  m1 = m1
  m2 = m2
  r1 = r1
  r2 = r2
  NoRelay = NoRelay
  NotSent = NotSent
  Messages <- MCMessages
  Relays <- MCRelays
  MaxAttempts = 2
  RetryLimit = 2
  AttemptBound = 4
INVARIANTS
  TypeOK
  PublishedWasAccepted
  AttemptsWithinBudget
  OneCopyPerAttempt
PROPERTIES
  RebuildOnlyWhatWasSeen
  ImplementsPromise
  EventuallySettled
\* every row may be settled and every item reported: nothing is left to do
CHECK_DEADLOCK FALSE
