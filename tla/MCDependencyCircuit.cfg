SPECIFICATION Spec
CONSTANTS
  p1 = p1
  p2 = p2
  s1 = s1
  s2 = s2
  e1 = e1
  e2 = e2
  Processes <- MCProcesses
  Slots <- MCSlots
  Errors <- MCErrors
  NoError = NoError
  NoOwner = NoOwner
  Threshold = 3
  MaxBoots = 1
  MaxProbes = 2
  MaxOutcomes = 7
SYMMETRY Symmetry
INVARIANTS
  TypeOK
  OpenAndFenced
\* the bound on recorded outcomes ends every behaviour
CHECK_DEADLOCK FALSE
