SPECIFICATION Spec
CONSTANTS
  Amounts = {1}
  FeesAndVat <- MCFees
  MaxCost = 2
  Slots = {s1, s2, s3}
  Refundable = {s1}
  Admins = {a1}
  Forms = {f1}
  Grants = {2}
  InitialBalance = 3
  ChargeCap = 4
INVARIANTS TypeOK ExactUnlessStale SumExactUnlessGrantLost OverdraftBounded
CHECK_DEADLOCK FALSE
