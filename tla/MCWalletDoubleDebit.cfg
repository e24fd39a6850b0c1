SPECIFICATION Spec
CONSTANTS
  Amounts = {2}
  FeesAndVat <- MCFees
  MaxCost = 3
  Trx = {t1}
  Amount <- MCAmount
  Refs = {}
  NoRef = NoRef
  NoTrx = NoTrx
  Polled = {t1}
  Pollers = {p1}
  Reports = {}
  InitialBalance = 5
  MaxFaults = 0
INVARIANTS ChargedOnce
CHECK_DEADLOCK FALSE
