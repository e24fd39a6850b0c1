SPECIFICATION FairSpec
CONSTANTS
  wallets = wallets
  deposits = deposits
  w1 = w1
  w2 = w2
  b1 = b1
  Docs = {wallets, deposits}
  Records = {w1, w2, b1}
  DocOf <- MCDocOf
  Etisalat = {w1}
  Deposits = {b1}
  ViaVodafone = TRUE
  Runs = {k1}
  Callbacks = {c1}
  Inquiries = {q1}
  NoDoc = NoDoc
  NoRecord = NoRecord
  Unknown = Unknown
  MaxList = 2
  MaxDeliveries = 3
  MaxFaults = 1
INVARIANTS NoDebitWithoutPayout
PROPERTIES HandedIsFlagged
CHECK_DEADLOCK FALSE
