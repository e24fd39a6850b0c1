--------------------------- MODULE PayoutContract ---------------------------
(***************************************************************************)
(* What a client is promised of one cash-in, whatever machinery settles    *)
(* it: it is paid out at most once, its outcome is decided once, and the   *)
(* budget is debited once, after it was paid out and reported successful.  *)
(*                                                                         *)
(* Two processes that settle the same transaction at the same time void    *)
(* the promise, except that nothing unpaid is ever debited.                *)
(***************************************************************************)
EXTENDS Naturals

CONSTANT Trx

VARIABLES
  payout,    \* none, processing, paid or refused
  outcome,   \* open, successful, failed or void
  debits     \* how often the budget was debited

vars == <<payout, outcome, debits>>

Init ==
  /\ payout  = [t \in Trx |-> "none"]
  /\ outcome = [t \in Trx |-> "open"]
  /\ debits  = [t \in Trx |-> 0]

Submit(t) ==
  /\ payout[t] = "none"
  /\ payout' = [payout EXCEPT ![t] = "processing"]
  /\ UNCHANGED <<outcome, debits>>

Decide(t) ==
  /\ payout[t] = "processing"
  /\ \E answer \in {"paid", "refused"} : payout' = [payout EXCEPT ![t] = answer]
  /\ UNCHANGED <<outcome, debits>>

Succeed(t) ==
  /\ payout[t] = "paid" /\ outcome[t] = "open"
  /\ outcome' = [outcome EXCEPT ![t] = "successful"]
  /\ UNCHANGED <<payout, debits>>

\* A failure is decided on what is known; the payout may be on its way.
Fail(t) ==
  /\ outcome[t] = "open"
  /\ outcome' = [outcome EXCEPT ![t] = "failed"]
  /\ UNCHANGED <<payout, debits>>

Charge(t) ==
  /\ payout[t] = "paid"
  /\ outcome[t] = "void" \/ (outcome[t] = "successful" /\ debits[t] = 0)
  /\ debits' = [debits EXCEPT ![t] = @ + 1]
  /\ UNCHANGED <<payout, outcome>>

Void(T) ==
  /\ outcome' = [t \in Trx |-> IF t \in T THEN "void" ELSE outcome[t]]
  /\ UNCHANGED <<payout, debits>>

Next ==
  \/ \E t \in Trx : Submit(t) \/ Decide(t) \/ Succeed(t) \/ Fail(t) \/ Charge(t)
  \/ \E T \in SUBSET Trx : Void(T)

Spec == Init /\ [][Next]_vars
=============================================================================
