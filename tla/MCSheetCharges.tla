--------------------------- MODULE MCSheetCharges ---------------------------
(* Two e-wallet documents and one of each other kind, all drawing on one budget. *)
EXTENDS SheetCharges

CONSTANTS w, v, c, b

MCSpellings == {"0100", "20100", "0111", "EG1", "bad"}
MCRecipient == [x \in MCSpellings |->
  CASE x \in {"0100", "20100"} -> "100" [] x = "0111" -> "111" [] x = "EG1" -> "EG1"
    [] x = "bad" -> Nobody]
MCAccepted == [d \in Docs |->
  CASE d \in {w, v} -> {"vodafone", "etisalat"} [] d = c -> {"bank_card"}
    [] d = b -> {"orange", "bank_wallet"}]

MCRow(to, amount, issuer) == [to |-> to, amount |-> amount, issuer |-> issuer]
Rows(to, amounts, issuers) == {MCRow(x, a, u) : x \in to, a \in amounts, u \in issuers}

\* two spellings of a number, an amount below a pound, a row without a recipient
MCWalletSheets ==
  {<<x, y>> : x \in Rows({"0100"}, {133, 2050}, {"vodafone"}),
              y \in Rows({"20100", "0111"}, {133, 99}, {"vodafone", "etisalat"})} \cup
  {<<MCRow("0100", 133, "vodafone"), MCRow("bad", 200, "vodafone")>>}
MCCardSheets ==
  {<<x, y>> : x, y \in Rows({"0111", "EG1"}, {133}, {"bank_card"})} \cup
  {<<MCRow("0111", 500, "orange")>>}
MCBankWalletSheets ==
  {<<MCRow("0100", 133, "bank_wallet"), MCRow("0111", 133, u)>> : u \in {"orange", "bank_wallet"}} \cup {<<>>}
MCSheets == [d \in Docs |->
  CASE d = w -> MCWalletSheets [] d = v -> {<<MCRow("0100", 133, "vodafone")>>}
    [] d = c -> MCCardSheets [] d = b -> MCBankWalletSheets]

Setup(type, fixed, percentage, min, max) ==
  [type |-> type, fixed |-> fixed, percentage |-> percentage, min |-> min, max |-> max]
Setups == {Setup("fixed", 35, 0, 0, 0), Setup("percentage", 0, 225, 0, 0),
           Setup("mixed", 35, 225, 0, 0), Setup("percentage", 0, 225, 50, 0),
           Setup("percentage", 0, 1000, 0, 50)}
MCTariffs ==
  {[u \in Issuers |-> s] : s \in Setups} \cup
  {[u \in Issuers |-> Setup("fixed", IF u = "orange" THEN 90 ELSE 35, 0, 0, 0)]}
=============================================================================
