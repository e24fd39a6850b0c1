SPECIFICATION Spec
CONSTANTS
  w = w  v = v  c = c  b = b
  Docs = {w, v, c, b}
  Wallets = {w, v}
  Cards = {c}
  Nobody = Nobody
  Spellings <- MCSpellings
  Recipient <- MCRecipient
  Ibans = {"EG1"}
  Issuers = {"vodafone", "etisalat", "aman", "orange", "bank_wallet", "bank_card"}
  Accepted <- MCAccepted
  Sheets <- MCSheets
  Tariffs <- MCTariffs
  Balances = {267, 4500}
  MaxTotal = 4000
  MaxList = 2
  MaxApart = 0
CHECK_DEADLOCK FALSE
INVARIANTS TypeOK RecipientsOnce ChargedAsQuoted OverdraftExplained
