SPECIFICATION Spec
CONSTANTS
  Trx = {t1, t2}
  Wallets = {t1}
  Refs = {}
  NoRef = NoRef
  Tasks = {k1, k2}
  Window <- MCOneWindow
  PageSize = 1
  NoTrx = NoTrx
  Aging = {}
  MaxFaults = 1
INVARIANTS TypeOK OneStatusRun CreditedWithinDebit BackIsCredited InstantFollows
PROPERTIES Contract
SYMMETRY MCSymmetry
CHECK_DEADLOCK FALSE
