--------------------------- MODULE MCWalletCashin ---------------------------
(* Requests of one amount, with a fee of one. *)
EXTENDS WalletCashin

MCFees == [a \in Amounts |-> 1]
MCAmount == [t \in Trx |-> 2]
=============================================================================
