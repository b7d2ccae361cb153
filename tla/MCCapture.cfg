SPECIFICATION MCSpec
CONSTANTS
  p1 = p1
  c1 = c1
  s1 = s1
  s2 = s2
  Posts = {p1}
  Channels = {c1}
  ChannelOf <- MCChannelOf
  Sessions = {s1, s2}
  Handlers = {h1, h2}
  PerSession = 1
  MaxNow = 1
  MaxCopies = 2
  MaxTroubles = 1
  FirstOwner <- MCFirstOwner
  FirstDue <- MCFirstDue
  None = None
INVARIANTS
  TypeOK
  NeverBehind
PROPERTIES
  DueIsObserved
  RecordedOnceForItsOwner
CHECK_DEADLOCK FALSE
