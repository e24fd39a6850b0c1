SPECIFICATION Spec
CONSTANTS
  d1 = d1  d2 = d2  a = a  b = b  c = c
  Docs = {d1}
  Copies = {}
  Checkers = {a, b, c}
  LevelOf <- MCLevels
  MayDisburse = {c}
  Required = 2
  Edits = {e1, e2}
  Reviews = {v1, v2, v3}
  Orders = {k1, k2}
  NoDoc = NoDoc
  NoOne = NoOne
  MaxFaults = 1
SYMMETRY MCSymmetry
CHECK_DEADLOCK FALSE
INVARIANTS LevelsInOrder HandedIsApproved HandedIsRecorded HandedIsMarked
PROPERTY LifecycleSpec
