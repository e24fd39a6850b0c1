---------------------------- MODULE BudgetLedger ----------------------------
(***************************************************************************)
(* One client's Budget row and everybody who writes it:                    *)
(*                                                                         *)
(*   - transactions, which validate their amount against a copy of the row *)
(*     (within_threshold), and much later, when the provider has answered, *)
(*     charge it under a row lock, some more than once; some are later     *)
(*     returned by the provider and credited back from an unlocked copy;   *)
(*   - the Django admin page, which loads the row, adds to it, saves it;   *)
(*   - the portal's budget form, which posts back the balance its page was *)
(*     rendered with, over two more loads of the row.                      *)
(*                                                                         *)
(* The database is PostgreSQL at read committed and requests are not       *)
(* atomic: each load, each save and the one locked update is a step.       *)
(***************************************************************************)
EXTENDS Budget, FiniteSets

CONSTANTS
  Slots,           \* transactions between their validation and their charge
  Refundable,      \* the slots whose provider may return the money later
  Admins,          \* Django admin change pages being submitted
  Forms,           \* portal budget forms being filled
  Grants,          \* amounts a top-up adds
  InitialBalance,
  ChargeCap        \* TLC bound: charges a behaviour may make

ASSUME LedgerAssumption ==
  /\ IsFiniteSet(Slots) /\ Slots # {}
  /\ Refundable \subseteq Slots
  /\ Grants \subseteq Nat \ {0}
  /\ InitialBalance \in Nat
  /\ ChargeCap \in Nat

VARIABLES
  budget,      \* the row in the table
  trx,         \* per slot: where the transaction is, and its amount
  copy,        \* per slot: the Budget instance cached by a refund in progress
  admin,       \* per admin page: its step and the instance it loaded
  form,        \* per portal form: its step, the page's balance, the two loads
  \* history: what the row should add up to, and what went wrong so far
  granted, charged, refunded,
  charges,     \* how many charges were made
  again,       \* how many of them charged a transaction once more
  last,        \* the slot validated last
  stale,       \* some save replaced a row it had not been computed from
  grantLost    \* some save replaced a top-up made since its loads

books == <<granted, charged, refunded, charges, again, last, stale, grantLost>>
vars  == <<budget, trx, copy, admin, form, books>>

NoAmount == 0
\* what an instance remembers besides its columns, for the history flags
Loaded == [row : BudgetRow, granted : Nat]
Here   == [row |-> budget, granted |-> granted]
\* no instance in memory
Nothing == [row |-> Opened(0), granted |-> 0]

FormAt(step, page, object, budget_object) ==
  [pc |-> step, page |-> page, object |-> object, budget_object |-> budget_object]

Init ==
  /\ budget = Opened(InitialBalance)
  /\ trx    = [s \in Slots |-> [pc |-> "idle", amount |-> NoAmount]]
  /\ copy   = [s \in Slots |-> Nothing]
  /\ admin  = [a \in Admins |-> [pc |-> "idle", inst |-> Nothing]]
  /\ form   = [f \in Forms |-> FormAt("idle", Nothing, Nothing, Nothing)]
  /\ granted = 0 /\ charged = 0 /\ refunded = 0 /\ charges = 0
  /\ again = 0
  /\ last \in Slots
  /\ stale = FALSE /\ grantLost = FALSE

-----------------------------------------------------------------------------
(* Transactions *)

\* The request loads user.root.budget and validates the amount against it;
\* from here on it is committed to disbursing.
Validate(s) ==
  /\ trx[s].pc = "idle"
  /\ \E a \in Amounts :
       /\ WithinThreshold(budget, a)
       /\ trx' = [trx EXCEPT ![s] = [pc |-> "validated", amount |-> a]]
  /\ last' = s
  /\ UNCHANGED <<budget, copy, admin, form, granted, charged, refunded, charges,
                 again, stale, grantLost>>

\* The provider refused, or nobody ever learned that it paid.
Drop(s) ==
  /\ trx[s].pc = "validated"
  /\ trx' = [trx EXCEPT ![s] = [pc |-> "idle", amount |-> NoAmount]]
  /\ UNCHANGED <<budget, copy, admin, form, books>>

\* update_disbursed_amount_and_current_balance: the row is loaded again under
\* select_for_update, so the load, the two assignments and the save are one
\* step; there is no second look at the balance.
Charge(s) ==
  /\ trx[s].pc = "validated"
  /\ charges < ChargeCap
  /\ budget'  = Debited(budget, trx[s].amount)
  /\ charged' = charged + Cost(trx[s].amount)
  /\ charges' = charges + 1
  /\ trx'     = [trx EXCEPT ![s].pc = "charged"]
  /\ UNCHANGED <<copy, admin, form, granted, refunded, again, last, stale,
                 grantLost>>

\* The same transaction is charged once more without another validation: the
\* request that disbursed it and an inquiry that picked its pending row up
\* each take its success for news, or a report of it is delivered again.
ChargeAgain(s) ==
  /\ trx[s].pc = "charged"
  /\ charges < ChargeCap
  /\ budget'  = Debited(budget, trx[s].amount)
  /\ charged' = charged + Cost(trx[s].amount)
  /\ charges' = charges + 1
  /\ again'   = again + 1
  /\ UNCHANGED <<trx, copy, admin, form, granted, refunded, last, stale, grantLost>>

\* A plausible slip: the slot is freed with its amount still in it.
SettleKeepsAmount(s) ==
  /\ trx[s].pc = "charged"
  /\ trx' = [trx EXCEPT ![s].pc = "idle"]
  /\ UNCHANGED <<budget, copy, admin, form, books>>

\* The money arrived for good: the slot is free for another transaction.
Settle(s) ==
  /\ trx[s].pc = "charged"
  /\ trx' = [trx EXCEPT ![s] = [pc |-> "idle", amount |-> NoAmount]]
  /\ UNCHANGED <<budget, copy, admin, form, books>>

\* The provider returned the transaction: root.budget is loaded and cached.
\* get_current_balance, called next, locks and reads another instance and
\* only lengthens the interval to the save.
LoadForRefund(s) ==
  /\ trx[s].pc = "charged" /\ s \in Refundable
  /\ copy' = [copy EXCEPT ![s] = Here]
  /\ trx'  = [trx EXCEPT ![s].pc = "returning"]
  /\ UNCHANGED <<budget, admin, form, books>>

\* return_disbursed_amount_for_cancelled_trx: the cached instance is changed
\* and its whole row saved.
SaveRefund(s) ==
  /\ trx[s].pc = "returning"
  /\ budget'    = Returned(copy[s].row, trx[s].amount)
  /\ refunded'  = refunded + trx[s].amount
  /\ stale'     = (stale \/ copy[s].row # budget)
  /\ grantLost' = (grantLost \/ copy[s].granted # granted)
  /\ trx'       = [trx EXCEPT ![s] = [pc |-> "idle", amount |-> NoAmount]]
  /\ copy'      = [copy EXCEPT ![s] = Nothing]
  /\ UNCHANGED <<admin, form, granted, charged, charges, again, last>>

-----------------------------------------------------------------------------
(* Top-ups *)

\* The admin page's POST loads the row into the form's instance.
AdminLoad(a) ==
  /\ admin[a].pc = "idle"
  /\ admin' = [admin EXCEPT ![a] = [pc |-> "loaded", inst |-> Here]]
  /\ UNCHANGED <<budget, trx, copy, form, books>>

\* A plausible slip: both the form's save and save_model add the amount.
AdminSaveTwice(a) ==
  /\ admin[a].pc = "loaded"
  /\ \E g \in Grants \cup {0} :
       /\ budget'  = ToppedUp(ToppedUp(admin[a].inst.row, g), g)
       /\ granted' = granted + g
  /\ stale'     = (stale \/ admin[a].inst.row # budget)
  /\ grantLost' = (grantLost \/ admin[a].inst.granted # granted)
  /\ admin'     = [admin EXCEPT ![a] = [pc |-> "done", inst |-> Nothing]]
  /\ UNCHANGED <<trx, copy, form, charged, refunded, charges, again, last>>

\* BudgetAdminModelForm.save adds the amount, if one was given, and save_model
\* saves the instance, whether or not one was.
AdminSave(a) ==
  /\ admin[a].pc = "loaded"
  /\ \E g \in Grants \cup {0} :
       /\ budget'  = ToppedUp(admin[a].inst.row, g)
       /\ granted' = granted + g
  /\ stale'     = (stale \/ admin[a].inst.row # budget)
  /\ grantLost' = (grantLost \/ admin[a].inst.granted # granted)
  /\ admin'     = [admin EXCEPT ![a] = [pc |-> "done", inst |-> Nothing]]
  /\ UNCHANGED <<trx, copy, form, charged, refunded, charges, again, last>>

\* GET: the form is rendered with the balance in an editable field.
FormRender(f) ==
  /\ form[f].pc = "idle"
  /\ form' = [form EXCEPT ![f].pc = "rendered", ![f].page = Here]
  /\ UNCHANGED <<budget, trx, copy, admin, books>>

\* POST: UpdateView loads self.object ...
FormLoad(f) ==
  /\ form[f].pc = "rendered"
  /\ form' = [form EXCEPT ![f].pc = "posted", ![f].object = Here]
  /\ UNCHANGED <<budget, trx, copy, admin, books>>

\* ... and get_form_kwargs loads the row a second time, as budget_object.
FormLoadAgain(f) ==
  /\ form[f].pc = "posted"
  /\ form' = [form EXCEPT ![f].pc = "bound", ![f].budget_object = Here]
  /\ UNCHANGED <<budget, trx, copy, admin, books>>

\* The form saves self.object with the balance of `base`, another load.
FormSave(f, base, g) ==
  LET object == form[f].object
  IN /\ budget'    = ToppedUp([object.row EXCEPT !.balance = base.row.balance], g)
     /\ granted'   = granted + g
     /\ stale'     = (stale \/ base.row.balance # budget.balance
                            \/ object.row.total # budget.total)
     /\ grantLost' = (grantLost \/ base.granted # granted
                                \/ base.row # object.row)
     /\ form'      = [form EXCEPT ![f] = FormAt("done", Nothing, Nothing, Nothing)]
     /\ UNCHANGED <<trx, copy, admin, charged, refunded, charges, again, last>>

\* clean with an amount: it is added to the balance of the second load.
FormSaveAmount(f) ==
  /\ form[f].pc = "bound"
  /\ \E g \in Grants : FormSave(f, form[f].budget_object, g)

\* clean without one: the balance the page was rendered with is saved back.
FormSaveBlank(f) ==
  /\ form[f].pc = "bound"
  /\ FormSave(f, form[f].page, 0)

Next ==
  \/ \E s \in Slots : \/ Validate(s) \/ Drop(s) \/ Charge(s) \/ ChargeAgain(s)
                      \/ Settle(s) \/ LoadForRefund(s) \/ SaveRefund(s)
  \/ \E a \in Admins : AdminLoad(a) \/ AdminSave(a)
  \/ \E f \in Forms : \/ FormRender(f) \/ FormLoad(f) \/ FormLoadAgain(f)
                      \/ FormSaveAmount(f) \/ FormSaveBlank(f)

Spec == Init /\ [][Next]_vars

-----------------------------------------------------------------------------
(* Properties *)

\* Shapes of the row, of the instances in memory and of the history.
TypeOK ==
  /\ budget \in BudgetRow
  /\ trx \in [Slots -> [pc : {"idle", "validated", "charged", "returning"},
                        amount : Amounts \cup {NoAmount}]]
  /\ \A s \in Slots : (trx[s].amount = NoAmount) = (trx[s].pc = "idle")
  /\ copy \in [Slots -> Loaded]
  /\ admin \in [Admins -> [pc : {"idle", "loaded", "done"}, inst : Loaded]]
  /\ form \in [Forms -> [pc : {"idle", "rendered", "posted", "bound", "done"},
                         page : Loaded, object : Loaded, budget_object : Loaded]]
  /\ granted \in Nat /\ charged \in Nat /\ refunded \in Nat /\ charges \in Nat
  /\ again \in Nat
  /\ last \in Slots
  /\ stale \in BOOLEAN /\ grantLost \in BOOLEAN

Settled == [balance |-> InitialBalance + granted - charged + refunded,
            total   |-> charged - refunded]

\* The row equals opening balance plus top-ups minus charges plus refunds, and
\* the disbursed total charges minus refunds, for as long as no unlocked save
\* has replaced a row it was not computed from: charges, which read under the
\* lock, never lose anything of each other whatever their interleaving.
ExactUnlessStale == ~stale => budget = Settled

\* A lost charge cannot be seen in the row itself: balance plus total stays at
\* opening plus top-ups through stale refunds and stale admin saves, and only a
\* lost top-up or a portal form with two different loads disturbs it.
SumExactUnlessGrantLost ==
  ~grantLost => budget.balance + budget.total = InitialBalance + granted

\* Validation and charge are far apart, and a transaction validated once may be
\* charged twice, so the balance may go below zero; but never by more than one
\* transaction less than can be in between, and one for each repeated charge.
OverdraftBounded ==
  ~stale => budget.balance >= -((Cardinality(Slots) - 1 + again) * MaxCost)
=============================================================================
