SPECIFICATION Spec
CONSTANTS
  d1 = d1  d2 = d2  a = a  b = b  c = c
  Docs = {d1, d2}
  Copies = {d2}
  Checkers = {a, c}
  LevelOf <- MCTwoLevels
  MayDisburse = {c}
  Required = 1
  Edits = {e1, e2}
  Reviews = {v1}
  Orders = {k1}
  NoDoc = NoDoc
  NoOne = NoOne
  MaxFaults = 1
SYMMETRY MCCopySymmetry
CHECK_DEADLOCK FALSE
INVARIANTS TypeOK
PROPERTY LifecycleSpec
