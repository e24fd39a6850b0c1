-------------------------- MODULE MCBankTransfers --------------------------
(* A transfer to a bank wallet and one to a bank card; the deliveries of the *)
(* tasks are alike, and so are their windows.                                *)
EXTENDS BankTransfers, TLC

MCSymmetry == Permutations(Tasks)
MCOneWindow == [k \in Tasks |-> 1]
=============================================================================
