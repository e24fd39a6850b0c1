SPECIFICATION FairSpec
CONSTANTS
  Amounts = {2}
  FeesAndVat <- MCFees
  MaxCost = 3
  Trx = {t1, t2}
  Amount <- MCAmount
  Refs = {}
  NoRef = NoRef
  NoTrx = NoTrx
  Polled = {t1}
  Pollers = {p1}
  Reports = {v1}
  InitialBalance = 5
  MaxFaults = 1
PROPERTIES OpenIsSettled
CHECK_DEADLOCK FALSE
