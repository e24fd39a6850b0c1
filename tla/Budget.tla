------------------------------- MODULE Budget -------------------------------
(***************************************************************************)
(* The row of utilities.Budget and what its methods make of a row they     *)
(* hold.  A method works on a Python instance, a copy of the row at the    *)
(* time it was loaded; which copy it works on, and when, is the business   *)
(* of the modules that extend this one.                                    *)
(*                                                                         *)
(* Money is an integer number of piasters.  The fees and the VAT of an     *)
(* amount (FeeSetup) are a parameter: no property here depends on how they *)
(* are computed, only on the charge being the amount plus both and a       *)
(* refund being the bare amount.                                           *)
(***************************************************************************)
EXTENDS Integers

CONSTANTS
  Amounts,      \* the amounts a client asks to disburse
  FeesAndVat,   \* the fees plus VAT that FeeSetup adds to each amount
  MaxCost       \* an upper bound of what one transaction may cost

ASSUME AmountsAssumption ==
  /\ Amounts \subseteq Nat \ {0}
  /\ FeesAndVat \in [Amounts -> Nat]
  /\ MaxCost \in Nat
  /\ \A a \in Amounts : a + FeesAndVat[a] <= MaxCost

\* current_balance and total_disbursed_amount
BudgetRow == [balance : Int, total : Int]

Opened(balance) == [balance |-> balance, total |-> 0]

\* accumulate_amount_with_fees_and_vat
Cost(amount) == amount + FeesAndVat[amount]

\* A plausible slip: the fees are forgotten in the comparison.
WithinBareThreshold(row, amount) == amount <= row.balance

\* within_threshold: on the instance in hand, whatever the table says by now
WithinThreshold(row, amount) == Cost(amount) <= row.balance

\* A plausible slip: the bare amount is what counts as disbursed.
DebitedBareTotal(row, amount) ==
  [balance |-> row.balance - Cost(amount), total |-> row.total + amount]

\* the two assignments of update_disbursed_amount_and_current_balance
Debited(row, amount) ==
  [balance |-> row.balance - Cost(amount), total |-> row.total + Cost(amount)]

\* A plausible slip: only the balance is given back.
ReturnedBalanceOnly(row, amount) == [row EXCEPT !.balance = @ + amount]

\* the two assignments of return_disbursed_amount_for_cancelled_trx: the
\* amount goes back, the fees and the VAT of the transaction do not
Returned(row, amount) ==
  [balance |-> row.balance + amount, total |-> row.total - amount]

\* A plausible slip: a top-up counts as disbursed too.
ToppedUpTotal(row, amount) == [balance |-> row.balance + amount, total |-> row.total + amount]

\* what both top-up forms do to the instance they save
ToppedUp(row, amount) == [row EXCEPT !.balance = @ + amount]
=============================================================================
