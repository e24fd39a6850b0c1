SPECIFICATION FairSpec
CONSTANTS
  Trx = {t1, t2}
  Wallets = {t1}
  Refs = {}
  NoRef = NoRef
  Tasks = {k1, k2}
  Window <- MCOneWindow
  PageSize = 1
  NoTrx = NoTrx
  Aging = {t2}
  MaxFaults = 0
PROPERTIES AcceptedIsSettled
CHECK_DEADLOCK FALSE
