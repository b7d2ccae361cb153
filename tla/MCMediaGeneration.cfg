SPECIFICATION Spec
CONSTANTS
  w1 = w1
  w2 = w2
  i1 = i1
  Workers <- MCWorkers
  Items <- MCItems
  NoItem = NoItem
  MaxGenerations = 3
SYMMETRY Symmetry
CONSTRAINT FewWhenDeleted
INVARIANTS
  TypeOK
  ActiveIsPlayable
  NothingLeaks
PROPERTIES
  RetiredForGood
\* the file may be deleted, and the generations used up
CHECK_DEADLOCK FALSE
