SPECIFICATION FairSpec
CONSTANTS
  p1 = p1
  p2 = p2
  s1 = s1
  s2 = s2
  e1 = e1
  e2 = e2
  Processes <- MCProcesses
  Slots <- OneSlot
  Errors <- MCErrors
  NoError = NoError
  NoOwner = NoOwner
  Threshold = 2
  MaxBoots = 1
  MaxProbes = 1
  MaxOutcomes = 0
PROPERTY HalfOpenEnds
\* the bound on probes may end a behaviour
CHECK_DEADLOCK FALSE
