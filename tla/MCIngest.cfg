SPECIFICATION MCSpec
CONSTANTS
  u1 = u1
  u2 = u2
  u3 = u3
  s1 = s1
  s2 = s2
  k1 = k1
  w1 = w1
  w2 = w2
  Uploads <- MCUploads
  Sources <- MCSources
  SourceOf <- MCSourceOf
  Collections = {k1}
  ColOf <- MCColOf
  Crawler = Crawler
  Favourites = {}
  Workers <- MCWorkers
  Free = Free
  NoTask = NoTask
  NoRemoval = NoRemoval
  MaxFiles = 2
  MaxAttempts = 2
  CopiesOf <- MCCopiesOf
SYMMETRY Symmetry
INVARIANTS
  TypeOK
  NoMatchHolds
  OriginalIsStored
  PendingCanGoOn
PROPERTIES
  SettledForGood
\* every request may be settled
CHECK_DEADLOCK FALSE
