SPECIFICATION Spec
CONSTANTS
  r1 = r1  i1 = i1  k1 = k1  k2 = k2  k3 = k3
  Records = {r1, i1}
  Instant = {i1}
  Attempts = {k1, k2, k3}
  RecordOf <- MCRecordOf
  Cancels = {u1, u2}
  Notices = {n1, n2}
  NoRecord = NoRecord
  NoBill = NoBill
  MaxFaults = 1
SYMMETRY MCSymmetry
CHECK_DEADLOCK FALSE
INVARIANTS TypeOK CreditsCovered BooksAgree ShownAsBilled
