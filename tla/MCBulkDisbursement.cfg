SPECIFICATION Spec
CONSTANTS
  wallets = wallets
  deposits = deposits
  w1 = w1
  w2 = w2
  b1 = b1
  Docs = {wallets, deposits}
  Records = {w1, b1}
  DocOf <- MCDocOf
  Etisalat = {}
  Deposits = {b1}
  ViaVodafone = FALSE
  Runs = {k1, k2}
  Callbacks = {c1, c2}
  Inquiries = {q1}
  NoDoc = NoDoc
  NoRecord = NoRecord
  Unknown = Unknown
  MaxList = 2
  MaxDeliveries = 3
  MaxFaults = 1
SYMMETRY MCSymmetry
INVARIANTS TypeOK DebitedAsTold SuccessIsDebited DebitedIsSuccessful
CHECK_DEADLOCK FALSE
