SPECIFICATION Spec
CONSTANTS
  Amounts = {2}
  FeesAndVat <- MCFees
  MaxCost = 3
  Trx = {t1, t2}
  Amount <- MCAmount
  Refs = {c1}
  NoRef = NoRef
  NoTrx = NoTrx
  Polled = {t1}
  Pollers = {p1, p2}
  Reports = {v1}
  InitialBalance = 5
  MaxFaults = 1
INVARIANTS TypeOK NoChargeWithoutPayout ChargedOnceUnlessOverlapped SuccessfulIsCharged OnePayoutPerReference
PROPERTIES FinalStatusKept Contract
CHECK_DEADLOCK FALSE
