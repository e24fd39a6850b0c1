--------------------------- MODULE MCBudgetLedger ---------------------------
(* Two amounts, a fee of one, three slots of which two can be returned. *)
EXTENDS BudgetLedger

MCFees == [a \in Amounts |-> 1]
=============================================================================
