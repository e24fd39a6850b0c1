------------------------ MODULE BudgetLedger_proofs ------------------------
(***************************************************************************)
(* What holds of the budget row for every number of concurrent             *)
(* transactions, top-ups and forms, every fee table and every opening      *)
(* balance.                                                                *)
(***************************************************************************)
EXTENDS BudgetLedger, FiniteSetTheorems, TLAPS

LEMMA CostType == ASSUME NEW a \in Amounts
                  PROVE  Cost(a) \in Nat /\ Cost(a) > 0 /\ Cost(a) <= MaxCost
BY AmountsAssumption DEF Cost

\* A top-up of a well-formed row is a well-formed row, one that differs from it
\* by the amount in the balance.
LEMMA ToppedUpType == ASSUME NEW row \in BudgetRow, NEW g \in Nat
                      PROVE  /\ ToppedUp(row, g) \in BudgetRow
                             /\ ToppedUp(row, g).balance = row.balance + g
                             /\ ToppedUp(row, g).total = row.total
BY DEF ToppedUp, BudgetRow

\* A transaction past its validation has an amount.
LEMMA AmountType == ASSUME TypeOK, NEW s \in Slots, trx[s].pc # "idle"
                    PROVE  /\ trx[s].amount \in Amounts
                           /\ trx[s].amount \in Nat
                           /\ Cost(trx[s].amount) \in Nat
                           /\ Cost(trx[s].amount) <= MaxCost
<1>1. trx[s].amount \in Amounts
  BY DEF TypeOK
<1>2. QED
  BY <1>1, CostType, AmountsAssumption

LEMMA HereType == TypeOK => Here \in Loaded
BY DEF TypeOK, Here, Loaded

LEMMA NothingType == Nothing \in Loaded
BY DEF Nothing, Opened, Loaded, BudgetRow

-----------------------------------------------------------------------------
(* Types *)

LEMMA InitTypeOK == Init => TypeOK
<1> SUFFICES ASSUME Init PROVE TypeOK
  OBVIOUS
<1>1. NoAmount \notin Amounts
  BY AmountsAssumption DEF NoAmount
<1>2. budget \in BudgetRow
  BY LedgerAssumption DEF Init, Opened, BudgetRow
<1>3. QED
  BY <1>1, <1>2, NothingType, LedgerAssumption DEF Init, TypeOK, FormAt

\* One step of the ledger keeps every variable in its type.
LEMMA NextTypeOK == TypeOK /\ [Next]_vars => TypeOK'
<1> SUFFICES ASSUME TypeOK, [Next]_vars PROVE TypeOK'
  OBVIOUS
<1>0. NoAmount \notin Amounts
  BY AmountsAssumption DEF NoAmount
<1>1. ASSUME NEW s \in Slots, Validate(s) PROVE TypeOK'
  BY <1>0, <1>1 DEF Validate, TypeOK
<1>2. ASSUME NEW s \in Slots, Drop(s) PROVE TypeOK'
  BY <1>0, <1>2 DEF Drop, TypeOK, books
<1>3. ASSUME NEW s \in Slots, Charge(s) PROVE TypeOK'
  <2>1. trx[s].amount \in Amounts
    BY <1>3, AmountType DEF Charge
  <2>2. Cost(trx[s].amount) \in Nat
    BY <1>3, AmountType DEF Charge
  <2>3. budget' \in BudgetRow
    BY <1>3, <2>2 DEF Charge, TypeOK, BudgetRow, Debited
  <2>4. charged' \in Nat /\ charges' \in Nat
    BY <1>3, <2>2 DEF Charge, TypeOK
  <2>5. QED
    BY <1>0, <1>3, <2>1, <2>3, <2>4 DEF Charge, TypeOK
<1>c. ASSUME NEW s \in Slots, ChargeAgain(s) PROVE TypeOK'
  <2>1. Cost(trx[s].amount) \in Nat
    BY <1>c, AmountType DEF ChargeAgain
  <2>2. budget' \in BudgetRow
    BY <1>c, <2>1 DEF ChargeAgain, TypeOK, BudgetRow, Debited
  <2>3. charged' \in Nat /\ charges' \in Nat /\ again' \in Nat
    BY <1>c, <2>1 DEF ChargeAgain, TypeOK
  <2>4. QED
    BY <1>c, <2>2, <2>3 DEF ChargeAgain, TypeOK
<1>4. ASSUME NEW s \in Slots, Settle(s) PROVE TypeOK'
  BY <1>0, <1>4 DEF Settle, TypeOK, books
<1>5. ASSUME NEW s \in Slots, LoadForRefund(s) PROVE TypeOK'
  BY <1>0, <1>5, HereType DEF LoadForRefund, TypeOK, books
<1>6. ASSUME NEW s \in Slots, SaveRefund(s) PROVE TypeOK'
  <2>1. trx[s].amount \in Amounts
    BY <1>6, AmountType DEF SaveRefund
  <2>2. trx[s].amount \in Nat
    BY <1>6, AmountType DEF SaveRefund
  <2>3. budget' \in BudgetRow
    BY <1>6, <2>2 DEF SaveRefund, TypeOK, BudgetRow, Returned, Loaded
  <2>4. refunded' \in Nat
    BY <1>6, <2>2 DEF SaveRefund, TypeOK
  <2>5. stale' \in BOOLEAN /\ grantLost' \in BOOLEAN
    BY <1>6 DEF SaveRefund, TypeOK
  <2>6. QED
    BY <1>0, <1>6, <2>3, <2>4, <2>5, NothingType DEF SaveRefund, TypeOK
<1>7. ASSUME NEW a \in Admins, AdminLoad(a) PROVE TypeOK'
  BY <1>7, HereType DEF AdminLoad, TypeOK, books
<1>8. ASSUME NEW a \in Admins, AdminSave(a) PROVE TypeOK'
  <2>1. PICK g \in Grants \cup {0} : /\ budget' = ToppedUp(admin[a].inst.row, g)
                                     /\ granted' = granted + g
    BY <1>8 DEF AdminSave
  <2>2. g \in Nat
    BY LedgerAssumption
  <2>3. budget' \in BudgetRow
    BY <2>1, <2>2 DEF TypeOK, BudgetRow, ToppedUp, Loaded
  <2>4. granted' \in Nat
    BY <2>1, <2>2 DEF TypeOK
  <2>5. stale' \in BOOLEAN /\ grantLost' \in BOOLEAN
    BY <1>8 DEF AdminSave, TypeOK
  <2>6. QED
    BY <1>8, <2>3, <2>4, <2>5, NothingType DEF AdminSave, TypeOK
<1>9. ASSUME NEW f \in Forms, FormRender(f) PROVE TypeOK'
  <2> DEFINE Pages == [pc : {"idle", "rendered", "posted", "bound", "done"},
                       page : Loaded, object : Loaded, budget_object : Loaded]
             g == [form[f] EXCEPT !.pc = "rendered", !.page = Here]
  <2>0. form[f] \in Pages /\ form' = [form EXCEPT ![f] = g]
    BY <1>9 DEF FormRender, TypeOK
  <2>1. form' \in [Forms -> Pages]
    <3>1. g \in Pages
      BY <2>0, HereType
    <3>2. form \in [Forms -> Pages]
      BY DEF TypeOK
    <3> HIDE DEF g, Pages
    <3>3. QED
      BY <2>0, <3>1, <3>2
  <2>2. UNCHANGED <<budget, trx, copy, admin, granted, charged, refunded, charges,
                    again, last, stale, grantLost>>
    BY <1>9 DEF FormRender, books
  <2>3. QED
    BY <2>1, <2>2 DEF TypeOK
<1>10. ASSUME NEW f \in Forms, FormLoad(f) PROVE TypeOK'
  <2> DEFINE Pages == [pc : {"idle", "rendered", "posted", "bound", "done"},
                       page : Loaded, object : Loaded, budget_object : Loaded]
             g == [form[f] EXCEPT !.pc = "posted", !.object = Here]
  <2>0. form[f] \in Pages /\ form' = [form EXCEPT ![f] = g]
    BY <1>10 DEF FormLoad, TypeOK
  <2>1. form' \in [Forms -> Pages]
    <3>1. g \in Pages
      BY <2>0, HereType
    <3>2. form \in [Forms -> Pages]
      BY DEF TypeOK
    <3> HIDE DEF g, Pages
    <3>3. QED
      BY <2>0, <3>1, <3>2
  <2>2. UNCHANGED <<budget, trx, copy, admin, granted, charged, refunded, charges,
                    again, last, stale, grantLost>>
    BY <1>10 DEF FormLoad, books
  <2>3. QED
    BY <2>1, <2>2 DEF TypeOK
<1>11. ASSUME NEW f \in Forms, FormLoadAgain(f) PROVE TypeOK'
  <2> DEFINE Pages == [pc : {"idle", "rendered", "posted", "bound", "done"},
                       page : Loaded, object : Loaded, budget_object : Loaded]
             g == [form[f] EXCEPT !.pc = "bound", !.budget_object = Here]
  <2>0. form[f] \in Pages /\ form' = [form EXCEPT ![f] = g]
    BY <1>11 DEF FormLoadAgain, TypeOK
  <2>1. form' \in [Forms -> Pages]
    <3>1. g \in Pages
      BY <2>0, HereType
    <3>2. form \in [Forms -> Pages]
      BY DEF TypeOK
    <3> HIDE DEF g, Pages
    <3>3. QED
      BY <2>0, <3>1, <3>2
  <2>2. UNCHANGED <<budget, trx, copy, admin, granted, charged, refunded, charges,
                    again, last, stale, grantLost>>
    BY <1>11 DEF FormLoadAgain, books
  <2>3. QED
    BY <2>1, <2>2 DEF TypeOK
<1>12. ASSUME NEW f \in Forms, NEW base \in Loaded, NEW g \in Nat, FormSave(f, base, g)
       PROVE  TypeOK'
  <2>0. form[f].object.row \in BudgetRow /\ base.row.balance \in Int
    BY DEF TypeOK, Loaded, BudgetRow
  <2> DEFINE row == [form[f].object.row EXCEPT !.balance = base.row.balance]
  <2>a. row \in BudgetRow
    BY <2>0 DEF BudgetRow
  <2>b. budget' = ToppedUp(row, g)
    BY <1>12 DEF FormSave
  <2>1. budget' \in BudgetRow
    BY <2>a, <2>b, ToppedUpType
  <2>2. granted' \in Nat
    BY <1>12 DEF FormSave, TypeOK
  <2>3. stale' \in BOOLEAN /\ grantLost' \in BOOLEAN
    BY <1>12 DEF FormSave, TypeOK
  <2>4. QED
    BY <1>12, <2>1, <2>2, <2>3, NothingType DEF FormSave, FormAt, TypeOK
<1>13. ASSUME NEW f \in Forms, FormSaveAmount(f) PROVE TypeOK'
  <2>1. form[f].budget_object \in Loaded
    BY DEF TypeOK
  <2>2. Grants \subseteq Nat
    BY LedgerAssumption
  <2>3. QED
    BY <1>12, <1>13, <2>1, <2>2 DEF FormSaveAmount
<1>14. ASSUME NEW f \in Forms, FormSaveBlank(f) PROVE TypeOK'
  <2>1. form[f].page \in Loaded
    BY DEF TypeOK
  <2>2. QED
    BY <1>12, <1>14, <2>1 DEF FormSaveBlank
<1>15. CASE UNCHANGED vars
  BY <1>15 DEF vars, books, TypeOK
<1>16. QED
  BY <1>1, <1>2, <1>3, <1>c, <1>4, <1>5, <1>6, <1>7, <1>8, <1>9, <1>10, <1>11, <1>13,
     <1>14, <1>15 DEF Next

\* The type invariant of the ledger, for all constants.
THEOREM TypeCorrect == Spec => []TypeOK
<1>1. QED
  BY InitTypeOK, NextTypeOK, PTL DEF Spec

-----------------------------------------------------------------------------
(* The row adds up until a stale save *)

\* Read under the lock, a charge starts from the row as it is; every other
\* save starts from a copy, and either the copy is the row or stale is raised.
LEMMA ExactStep == TypeOK /\ ExactUnlessStale /\ [Next]_vars => ExactUnlessStale'
<1> SUFFICES ASSUME TypeOK, ExactUnlessStale, [Next]_vars, ~stale'
             PROVE  (budget = Settled)'
  BY DEF ExactUnlessStale
<1> USE DEF Settled
<1>0. budget \in BudgetRow /\ InitialBalance \in Int /\ granted \in Int
      /\ charged \in Int /\ refunded \in Int
  BY LedgerAssumption DEF TypeOK
<1>1. CASE \E s \in Slots : Charge(s) \/ ChargeAgain(s)
  <2>1. PICK s \in Slots : Charge(s) \/ ChargeAgain(s)
    BY <1>1
  <2>2. budget = Settled
    BY <2>1 DEF Charge, ChargeAgain, ExactUnlessStale
  <2>3. Cost(trx[s].amount) \in Int
    BY <2>1, AmountType DEF Charge, ChargeAgain
  <2>4. /\ budget' = Debited(budget, trx[s].amount) /\ charged' = charged + Cost(trx[s].amount)
        /\ UNCHANGED <<granted, refunded>>
    BY <2>1 DEF Charge, ChargeAgain
  <2>5. QED
    BY <1>0, <2>2, <2>3, <2>4 DEF Debited
<1>2. CASE \E s \in Slots : SaveRefund(s)
  <2>1. PICK s \in Slots : SaveRefund(s)
    BY <1>2
  <2>2. budget = Settled /\ copy[s].row = budget
    BY <2>1 DEF SaveRefund, ExactUnlessStale, TypeOK
  <2>3. trx[s].amount \in Int
    BY <2>1, AmountType DEF SaveRefund
  <2>4. budget' = Returned(budget, trx[s].amount) /\ refunded' = refunded + trx[s].amount
        /\ granted' = granted /\ charged' = charged
    BY <2>1, <2>2 DEF SaveRefund
  <2>5. QED
    BY <1>0, <2>2, <2>3, <2>4 DEF Returned
<1>3. CASE \E a \in Admins : AdminSave(a)
  <2>1. PICK a \in Admins : AdminSave(a)
    BY <1>3
  <2>2. budget = Settled /\ admin[a].inst.row = budget
    BY <2>1 DEF AdminSave, ExactUnlessStale, TypeOK
  <2>3. PICK g \in Grants \cup {0} : budget' = ToppedUp(budget, g) /\ granted' = granted + g
    BY <2>1, <2>2 DEF AdminSave
  <2>4. g \in Nat
    BY LedgerAssumption
  <2>5. budget' \in BudgetRow /\ budget'.balance = budget.balance + g /\ budget'.total = budget.total
    BY <1>0, <2>3, <2>4, ToppedUpType
  <2>6. charged' = charged /\ refunded' = refunded
    BY <2>1 DEF AdminSave
  <2>7. QED
    BY <1>0, <2>2, <2>3, <2>4, <2>5, <2>6 DEF BudgetRow
<1>4. ASSUME NEW f \in Forms, NEW base \in Loaded, NEW g \in Nat, FormSave(f, base, g)
      PROVE  (budget = Settled)'
  <2> DEFINE row == [form[f].object.row EXCEPT !.balance = base.row.balance]
  <2>1. budget = Settled /\ base.row.balance = budget.balance
        /\ form[f].object.row.total = budget.total
    BY <1>4 DEF FormSave, ExactUnlessStale, TypeOK
  <2>2. form[f].object.row \in BudgetRow
    BY DEF TypeOK, Loaded
  <2>3. row = budget
    BY <1>0, <2>1, <2>2 DEF BudgetRow
  <2>4. budget' = ToppedUp(row, g) /\ granted' = granted + g
        /\ charged' = charged /\ refunded' = refunded
    BY <1>4 DEF FormSave
  <2>5. budget' \in BudgetRow /\ budget'.balance = budget.balance + g /\ budget'.total = budget.total
    BY <1>0, <2>3, <2>4, ToppedUpType
  <2>6. QED
    BY <1>0, <2>1, <2>4, <2>5 DEF BudgetRow
<1>5. CASE \E f \in Forms : FormSaveAmount(f) \/ FormSaveBlank(f)
  <2>1. PICK f \in Forms : FormSaveAmount(f) \/ FormSaveBlank(f)
    BY <1>5
  <2>2. form[f].page \in Loaded /\ form[f].budget_object \in Loaded /\ Grants \subseteq Nat
    BY LedgerAssumption DEF TypeOK
  <2>3. QED
    BY <1>4, <2>1, <2>2 DEF FormSaveAmount, FormSaveBlank
<1>6. CASE UNCHANGED <<budget, granted, charged, refunded, stale>>
  BY <1>6 DEF ExactUnlessStale
<1>7. QED
  BY <1>1, <1>2, <1>3, <1>5, <1>6
     DEF Next, vars, books, Validate, Drop, Settle, LoadForRefund, AdminLoad, FormRender,
         FormLoad, FormLoadAgain

\* The books balance until the first stale save, whatever interleaves.
THEOREM ExactTheorem == Spec => []ExactUnlessStale
<1>1. Init => ExactUnlessStale
  BY LedgerAssumption DEF Init, ExactUnlessStale, Settled, Opened
<1>2. QED
  BY <1>1, TypeCorrect, ExactStep, PTL DEF Spec

-----------------------------------------------------------------------------
(* Balance plus total *)

\* An instance loaded from the table carries the sum the table had then.
Summed(inst) == inst.row.balance + inst.row.total = InitialBalance + inst.granted

SumInv ==
  ~grantLost =>
    /\ Summed(Here)
    /\ \A s \in Slots : trx[s].pc = "returning" => Summed(copy[s])
    /\ \A a \in Admins : admin[a].pc = "loaded" => Summed(admin[a].inst)
    /\ \A f \in Forms :
         /\ form[f].pc \in {"rendered", "posted", "bound"} => Summed(form[f].page)
         /\ form[f].pc \in {"posted", "bound"} => Summed(form[f].object)
         /\ form[f].pc = "bound" => Summed(form[f].budget_object)

\* Whatever a step does to the row, each instance in memory after it was there
\* before or has just been loaded, so only the row's own sum is left to show.
Loads ==
  /\ \A s \in Slots : trx'[s].pc = "returning" =>
        (trx[s].pc = "returning" /\ copy'[s] = copy[s]) \/ copy'[s] = Here
  /\ \A a \in Admins : admin'[a].pc = "loaded" =>
        admin'[a] = admin[a] \/ admin'[a].inst = Here
  /\ \A f \in Forms :
       /\ form'[f].pc \in {"rendered", "posted", "bound"} =>
            \/ form'[f].page = Here
            \/ /\ form[f].pc \in {"rendered", "posted", "bound"}
               /\ form'[f].page = form[f].page
       /\ form'[f].pc \in {"posted", "bound"} =>
            \/ form'[f].object = Here
            \/ /\ form[f].pc \in {"posted", "bound"}
               /\ form'[f].object = form[f].object
       /\ form'[f].pc = "bound" =>
            \/ form'[f].budget_object = Here
            \/ /\ form[f].pc = "bound"
               /\ form'[f].budget_object = form[f].budget_object

LEMMA NextLoads == TypeOK /\ [Next]_vars => Loads /\ (grantLost => grantLost')
<1> SUFFICES ASSUME TypeOK, [Next]_vars PROVE Loads /\ (grantLost => grantLost')
  OBVIOUS
<1>1. ASSUME NEW s \in Slots,
             Validate(s) \/ Drop(s) \/ Charge(s) \/ ChargeAgain(s) \/ Settle(s)
               \/ LoadForRefund(s) \/ SaveRefund(s)
      PROVE  Loads /\ (grantLost => grantLost')
  <2>0. grantLost => grantLost'
    BY <1>1, Zenon DEF Validate, Drop, Charge, ChargeAgain, Settle, LoadForRefund, SaveRefund, books
  <2>1. UNCHANGED <<admin, form>>
    BY <1>1 DEF Validate, Drop, Charge, ChargeAgain, Settle, LoadForRefund, SaveRefund, books
  <2>2. \A t \in Slots : trx'[t].pc = "returning" =>
          (trx[t].pc = "returning" /\ copy'[t] = copy[t]) \/ copy'[t] = Here
    BY <1>1 DEF Validate, Drop, Charge, ChargeAgain, Settle, LoadForRefund, SaveRefund, TypeOK
  <2>3. QED
    BY <2>0, <2>1, <2>2 DEF Loads
<1>2. ASSUME NEW a \in Admins, AdminLoad(a) \/ AdminSave(a)
      PROVE  Loads /\ (grantLost => grantLost')
  <2>0. grantLost => grantLost'
    BY <1>2, Zenon DEF AdminLoad, AdminSave, books
  <2>1. UNCHANGED <<trx, copy, form>>
    BY <1>2 DEF AdminLoad, AdminSave, books
  <2>2. \A b \in Admins : admin'[b].pc = "loaded" => admin'[b] = admin[b] \/ admin'[b].inst = Here
    BY <1>2 DEF AdminLoad, AdminSave, TypeOK
  <2>3. QED
    BY <2>0, <2>1, <2>2 DEF Loads
<1>3. ASSUME NEW f \in Forms,
             FormRender(f) \/ FormLoad(f) \/ FormLoadAgain(f) \/ FormSaveAmount(f) \/ FormSaveBlank(f)
      PROVE  Loads /\ (grantLost => grantLost')
  <2>0. grantLost => grantLost'
    BY <1>3, Zenon DEF FormRender, FormLoad, FormLoadAgain, FormSaveAmount, FormSaveBlank, FormSave, books
  <2>1. UNCHANGED <<trx, copy, admin>>
    BY <1>3 DEF FormRender, FormLoad, FormLoadAgain, FormSaveAmount, FormSaveBlank, FormSave, books
  <2>2. CASE FormRender(f) \/ FormLoad(f) \/ FormLoadAgain(f)
    <3>1. ASSUME NEW g \in Forms PROVE g = f \/ form'[g] = form[g]
      BY <2>2 DEF FormRender, FormLoad, FormLoadAgain, TypeOK
    <3>2. \/ /\ form'[f].pc = "rendered" /\ form'[f].page = Here
          \/ /\ form[f].pc = "rendered" /\ form'[f].pc = "posted"
             /\ form'[f].page = form[f].page /\ form'[f].object = Here
          \/ /\ form[f].pc = "posted" /\ form'[f].pc = "bound"
             /\ form'[f].page = form[f].page /\ form'[f].object = form[f].object
             /\ form'[f].budget_object = Here
      BY <2>2 DEF FormRender, FormLoad, FormLoadAgain, TypeOK
    <3>3. QED
      BY <2>0, <2>1, <3>1, <3>2 DEF Loads
  <2>3. CASE FormSaveAmount(f) \/ FormSaveBlank(f)
    <3>1. form' = [form EXCEPT ![f] = FormAt("done", Nothing, Nothing, Nothing)]
      BY <2>3 DEF FormSaveAmount, FormSaveBlank, FormSave
    <3>2. QED
      BY <2>0, <2>1, <3>1 DEF FormAt, TypeOK, Loads
  <2>4. QED
    BY <1>3, <2>0, <2>2, <2>3
<1>4. CASE UNCHANGED vars
  BY <1>4 DEF vars, books, Loads
<1>5. QED
  BY <1>1, <1>2, <1>3, <1>4 DEF Next

LEMMA SumFromRow ==
  ASSUME SumInv, Loads, grantLost => grantLost', ~grantLost' => Summed(Here)'
  PROVE  SumInv'
<1> SUFFICES ASSUME ~grantLost' PROVE SumInv'
  BY DEF SumInv
<1>1. Summed(Here)
  BY DEF SumInv
<1>2. \A s \in Slots : trx'[s].pc = "returning" => Summed(copy'[s])
  BY <1>1 DEF SumInv, Loads
<1>3. \A a \in Admins : admin'[a].pc = "loaded" => Summed(admin'[a].inst)
  BY <1>1 DEF SumInv, Loads
<1>4. \A f \in Forms :
         /\ form'[f].pc \in {"rendered", "posted", "bound"} => Summed(form'[f].page)
         /\ form'[f].pc \in {"posted", "bound"} => Summed(form'[f].object)
         /\ form'[f].pc = "bound" => Summed(form'[f].budget_object)
  BY <1>1 DEF SumInv, Loads
<1>5. QED
  BY <1>2, <1>3, <1>4 DEF SumInv, Summed

LEMMA SumStep == TypeOK /\ SumInv /\ [Next]_vars => SumInv'
<1> SUFFICES ASSUME TypeOK, SumInv, [Next]_vars, ~grantLost' PROVE Summed(Here)'
  BY NextLoads, SumFromRow
<1>0. ~grantLost /\ Summed(Here) /\ budget.balance \in Int /\ budget.total \in Int
      /\ granted \in Nat /\ InitialBalance \in Nat /\ budget \in BudgetRow
  BY NextLoads, LedgerAssumption DEF SumInv, TypeOK, BudgetRow
<1>1. budget.balance + budget.total = InitialBalance + granted
  BY <1>0 DEF Summed, Here
<1>2. SUFFICES budget'.balance + budget'.total = InitialBalance + granted'
  BY DEF Summed, Here
<1>3. ASSUME NEW s \in Slots, Charge(s) \/ ChargeAgain(s)
      PROVE  budget'.balance + budget'.total = InitialBalance + granted'
  <2>1. Cost(trx[s].amount) \in Nat
    BY <1>3, AmountType DEF Charge, ChargeAgain
  <2>2. budget' = Debited(budget, trx[s].amount) /\ granted' = granted
    BY <1>3 DEF Charge, ChargeAgain
  <2>3. QED
    BY <1>0, <1>1, <2>1, <2>2 DEF Debited
<1>4. ASSUME NEW s \in Slots, SaveRefund(s)
      PROVE  budget'.balance + budget'.total = InitialBalance + granted'
  <2>1. trx[s].amount \in Nat
    BY <1>4, AmountType DEF SaveRefund
  <2>2. copy[s] \in Loaded /\ copy[s].granted = granted /\ Summed(copy[s])
    BY <1>0, <1>4 DEF SaveRefund, TypeOK, SumInv
  <2>3. budget' = Returned(copy[s].row, trx[s].amount) /\ granted' = granted
    BY <1>4 DEF SaveRefund
  <2>4. QED
    BY <1>0, <2>1, <2>2, <2>3 DEF Returned, Summed, Loaded, BudgetRow
<1>5. ASSUME NEW a \in Admins, AdminSave(a)
      PROVE  budget'.balance + budget'.total = InitialBalance + granted'
  <2>1. PICK g \in Grants \cup {0} : /\ budget' = ToppedUp(admin[a].inst.row, g)
                                     /\ granted' = granted + g
    BY <1>5 DEF AdminSave
  <2>2. g \in Nat
    BY LedgerAssumption
  <2>3. admin[a].inst \in Loaded /\ admin[a].inst.granted = granted /\ Summed(admin[a].inst)
    BY <1>0, <1>5 DEF AdminSave, TypeOK, SumInv
  <2>4. admin[a].inst.row \in BudgetRow
    BY <2>3 DEF Loaded
  <2>5. /\ budget'.balance = admin[a].inst.row.balance + g
        /\ budget'.total = admin[a].inst.row.total
    BY <2>1, <2>2, <2>4, ToppedUpType
  <2>6. QED
    BY <1>0, <2>1, <2>2, <2>3, <2>4, <2>5 DEF Summed, BudgetRow
<1>6. ASSUME NEW f \in Forms, NEW base \in Loaded, NEW g \in Nat, FormSave(f, base, g), Summed(base)
      PROVE  budget'.balance + budget'.total = InitialBalance + granted'
  <2> DEFINE row == [form[f].object.row EXCEPT !.balance = base.row.balance]
  <2>1. base.granted = granted /\ base.row = form[f].object.row
    BY <1>6 DEF FormSave
  <2>2. row = base.row /\ base.row \in BudgetRow
    BY <2>1 DEF Loaded, BudgetRow
  <2>3. budget' = ToppedUp(row, g) /\ granted' = granted + g
    BY <1>6 DEF FormSave
  <2>4. /\ budget'.balance = base.row.balance + g
        /\ budget'.total = base.row.total
    BY <2>2, <2>3, ToppedUpType
  <2>5. QED
    BY <1>0, <1>6, <2>1, <2>2, <2>3, <2>4 DEF Summed, BudgetRow
<1>7. ASSUME NEW f \in Forms, FormSaveAmount(f) \/ FormSaveBlank(f)
      PROVE  budget'.balance + budget'.total = InitialBalance + granted'
  <2>1. form[f].page \in Loaded /\ form[f].budget_object \in Loaded /\ Grants \subseteq Nat
    BY LedgerAssumption DEF TypeOK
  <2>2. Summed(form[f].page) /\ Summed(form[f].budget_object)
    BY <1>0, <1>7 DEF SumInv, FormSaveAmount, FormSaveBlank
  <2>3. QED
    BY <1>6, <1>7, <2>1, <2>2 DEF FormSaveAmount, FormSaveBlank
<1>8. CASE UNCHANGED <<budget, granted>>
  BY <1>1, <1>8
<1>9. QED
  BY <1>3, <1>4, <1>5, <1>7, <1>8
     DEF Next, vars, books, Validate, Drop, Settle, LoadForRefund, AdminLoad, FormRender,
         FormLoad, FormLoadAgain

\* Balance plus total is opening plus top-ups until a top-up is overwritten, no
\* matter how many charges and refunds have been lost.
THEOREM SumTheorem == Spec => []SumExactUnlessGrantLost
<1>1. Init => SumInv
  BY LedgerAssumption DEF Init, SumInv, Summed, Here, Opened, FormAt
<1>2. SumInv => SumExactUnlessGrantLost
  BY DEF SumInv, Summed, Here, SumExactUnlessGrantLost
<1>3. QED
  BY <1>1, <1>2, TypeCorrect, SumStep, PTL DEF Spec

-----------------------------------------------------------------------------
(* The overdraft *)

InFlight == {s \in Slots : trx[s].pc = "validated"}
Allowed  == (Cardinality(Slots) - 1 + again) * MaxCost

\* What is left for the others to take: the transaction validated last found
\* its own cost in the balance, so the balance less that cost was not negative
\* then, and every other one in flight takes at most MaxCost from it. A charge
\* made once more takes what nobody validated, at most MaxCost too.
OverdraftInv ==
  ~stale =>
    IF last \in InFlight
      THEN budget.balance - Cost(trx[last].amount)
             >= (Cardinality(InFlight) - 1) * MaxCost - Allowed
      ELSE budget.balance >= Cardinality(InFlight) * MaxCost - Allowed

\* How many transactions are in flight, and that they fit in the slots.
LEMMA InFlightSize ==
  /\ IsFiniteSet(InFlight) /\ Cardinality(InFlight) \in Nat
  /\ Cardinality(Slots) \in Nat /\ Cardinality(InFlight) <= Cardinality(Slots)
  /\ Cardinality(Slots) >= 1
  /\ \A s \in InFlight : Cardinality(InFlight) >= 1
<1>1. InFlight \subseteq Slots
  BY DEF InFlight
<1>2. Cardinality(Slots) # 0
  BY LedgerAssumption, FS_EmptySet
<1>3. \A s \in InFlight : Cardinality(InFlight) # 0
  BY <1>1, LedgerAssumption, FS_Subset, FS_EmptySet
<1>4. QED
  BY <1>1, <1>2, <1>3, LedgerAssumption, FS_Subset, FS_CardinalityType

\* The bound follows from the strengthening.
LEMMA OverdraftInvImplies == TypeOK /\ OverdraftInv => OverdraftBounded
<1> SUFFICES ASSUME TypeOK, OverdraftInv, ~stale PROVE budget.balance >= -Allowed
  BY DEF OverdraftBounded, Allowed
<1> DEFINE n == Cardinality(InFlight)
           S == Cardinality(Slots)
<1>1. n \in Nat /\ S \in Nat /\ S >= 1 /\ MaxCost \in Nat /\ budget.balance \in Int
      /\ again \in Nat
  BY InFlightSize, AmountsAssumption DEF TypeOK, BudgetRow
<1>2. Allowed \in Int
  BY <1>1 DEF Allowed
<1>3. n * MaxCost >= 0 /\ (n >= 1 => (n - 1) * MaxCost >= 0)
  BY <1>1
<1>4. CASE last \in InFlight
  <2>1. n >= 1 /\ Cost(trx[last].amount) \in Nat
    BY <1>4, InFlightSize, AmountType DEF InFlight
  <2>2. budget.balance - Cost(trx[last].amount) >= (n - 1) * MaxCost - Allowed
    BY <1>4 DEF OverdraftInv
  <2>3. (n - 1) * MaxCost \in Int
    BY <1>1
  <2> HIDE DEF n
  <2>4. QED
    BY <1>1, <1>2, <1>3, <2>1, <2>2, <2>3
<1>5. CASE last \notin InFlight
  <2>1. budget.balance >= n * MaxCost - Allowed
    BY <1>5 DEF OverdraftInv
  <2>2. n * MaxCost \in Int
    BY <1>1
  <2> HIDE DEF n
  <2>3. QED
    BY <1>1, <1>2, <1>3, <2>1, <2>2
<1>6. QED
  BY <1>4, <1>5

\* A step that changes nobody in flight and does not lower the balance.
LEMMA OverdraftKept ==
  ASSUME TypeOK, TypeOK', OverdraftInv, InFlight' = InFlight, UNCHANGED <<last, again>>, ~stale' => ~stale,
         ~stale' => budget'.balance >= budget.balance,
         \A s \in InFlight : trx'[s] = trx[s]
  PROVE  OverdraftInv'
<1> SUFFICES ASSUME ~stale' PROVE OverdraftInv'
  BY DEF OverdraftInv
<1>1. budget.balance \in Int /\ budget'.balance \in Int /\ Cardinality(InFlight) \in Nat
      /\ MaxCost \in Nat /\ Allowed \in Int /\ Allowed' = Allowed
  BY InFlightSize, AmountsAssumption, LedgerAssumption DEF TypeOK, BudgetRow, Allowed
<1>2. CASE last \in InFlight
  <2>1. Cost(trx[last].amount) \in Int /\ trx'[last] = trx[last]
    BY <1>2, AmountType DEF InFlight
  <2>2. budget.balance - Cost(trx[last].amount) >= (Cardinality(InFlight) - 1) * MaxCost - Allowed
    BY <1>2 DEF OverdraftInv
  <2>3. (Cardinality(InFlight) - 1) * MaxCost \in Int
    BY <1>1
  <2>4. budget'.balance - Cost(trx[last].amount) >= (Cardinality(InFlight) - 1) * MaxCost - Allowed
    BY <1>1, <2>1, <2>2, <2>3
  <2>5. QED
    BY <1>1, <1>2, <2>1, <2>4 DEF OverdraftInv
<1>3. CASE last \notin InFlight
  <2>1. budget.balance >= Cardinality(InFlight) * MaxCost - Allowed
    BY <1>3 DEF OverdraftInv
  <2>2. Cardinality(InFlight) * MaxCost \in Int
    BY <1>1
  <2>3. budget'.balance >= Cardinality(InFlight) * MaxCost - Allowed
    BY <1>1, <2>1, <2>2
  <2>4. QED
    BY <1>1, <1>3, <2>3 DEF OverdraftInv
<1>4. QED
  BY <1>2, <1>3

\* A transaction leaves the flight taking no more than its own cost.
LEMMA OverdraftLeft ==
  ASSUME TypeOK, TypeOK', OverdraftInv, NEW s \in InFlight, InFlight' = InFlight \ {s},
         last' = last, stale' = stale, again' = again,
         budget'.balance >= budget.balance - Cost(trx[s].amount),
         \A t \in InFlight \ {s} : trx'[t] = trx[t]
  PROVE  OverdraftInv'
<1> SUFFICES ASSUME ~stale PROVE OverdraftInv'
  BY DEF OverdraftInv
<1> DEFINE n == Cardinality(InFlight)
           c == Cost(trx[s].amount)
<1>1. budget.balance \in Int /\ budget'.balance \in Int /\ n \in Nat
      /\ MaxCost \in Nat /\ Allowed \in Int /\ Allowed' = Allowed
  BY InFlightSize, AmountsAssumption, LedgerAssumption DEF TypeOK, BudgetRow, Allowed
<1>2. Cardinality(InFlight') = n - 1
  BY InFlightSize, FS_RemoveElement
<1>3. c \in Nat /\ c <= MaxCost
  BY AmountType DEF InFlight
<1>4. n * MaxCost \in Int /\ (n - 1) * MaxCost = n * MaxCost - MaxCost
      /\ ((n - 1) - 1) * MaxCost = n * MaxCost - 2 * MaxCost
  BY <1>1
<1>5. CASE last \in InFlight \ {s}
  <2>1. Cost(trx[last].amount) \in Int /\ trx'[last] = trx[last] /\ last \in InFlight'
    BY <1>5, AmountType DEF InFlight
  <2>2. budget.balance - Cost(trx[last].amount) >= (n - 1) * MaxCost - Allowed
    BY <1>5 DEF OverdraftInv
  <2> HIDE DEF n, c
  <2>3. budget'.balance - Cost(trx[last].amount) >= ((n - 1) - 1) * MaxCost - Allowed
    BY <1>1, <1>3, <1>4, <2>1, <2>2 DEF c
  <2>4. QED
    BY <1>1, <1>2, <2>1, <2>3 DEF OverdraftInv
<1>6. CASE last = s
  <2>1. budget.balance - c >= (n - 1) * MaxCost - Allowed
    BY <1>6 DEF OverdraftInv
  <2>2. last' \notin InFlight'
    BY <1>6
  <2> HIDE DEF n, c
  <2>3. budget'.balance >= (n - 1) * MaxCost - Allowed
    BY <1>1, <1>3, <1>4, <2>1 DEF c
  <2>4. QED
    BY <1>1, <1>2, <2>2, <2>3 DEF OverdraftInv
<1>7. CASE last \notin InFlight
  <2>1. budget.balance >= n * MaxCost - Allowed /\ last' \notin InFlight'
    BY <1>7 DEF OverdraftInv
  <2> HIDE DEF n, c
  <2>2. budget'.balance >= (n - 1) * MaxCost - Allowed
    BY <1>1, <1>3, <1>4, <2>1 DEF c
  <2>3. QED
    BY <1>1, <1>2, <2>1, <2>2 DEF OverdraftInv
<1>8. QED
  BY <1>5, <1>6, <1>7

\* A validation makes itself the last one, and leaves nobody's cost uncovered:
\* the others are at most one transaction per remaining slot.
LEMMA OverdraftValidate ==
  ASSUME TypeOK, TypeOK', NEW s \in Slots, Validate(s)
  PROVE  OverdraftInv'
<1> DEFINE n == Cardinality(InFlight)
           S == Cardinality(Slots)
<1>1. s \notin InFlight /\ InFlight' = InFlight \cup {s} /\ last' = s
  BY DEF Validate, InFlight, TypeOK
<1>2. Cardinality(InFlight') = n + 1
  BY <1>1, InFlightSize, FS_AddElement
<1>3. n + 1 <= S /\ n \in Nat /\ S \in Nat
  <2>1. InFlight' \subseteq Slots
    BY DEF InFlight
  <2>2. Cardinality(InFlight') <= S
    BY <2>1, LedgerAssumption, FS_Subset
  <2>3. QED
    BY <1>2, <2>2, InFlightSize
<1>4. budget'.balance - Cost(trx'[s].amount) >= 0
  <2>1. PICK a \in Amounts : /\ WithinThreshold(budget, a)
                             /\ trx' = [trx EXCEPT ![s] = [pc |-> "validated", amount |-> a]]
    BY DEF Validate
  <2>2. budget' = budget /\ trx'[s].amount = a /\ budget.balance \in Int /\ Cost(a) \in Int
    BY <2>1, CostType DEF Validate, TypeOK, BudgetRow
  <2>3. QED
    BY <2>1, <2>2 DEF WithinThreshold
<1>5. n * MaxCost <= (S - 1) * MaxCost /\ n * MaxCost \in Int /\ (S - 1) * MaxCost \in Int
  <2>1. MaxCost \in Nat /\ S - 1 - n \in Nat
    BY <1>3, AmountsAssumption
  <2>2. (S - 1 - n) * MaxCost >= 0
    BY <2>1
  <2>3. (S - 1 - n) * MaxCost = (S - 1) * MaxCost - n * MaxCost
    BY <1>3, <2>1
  <2>4. QED
    BY <1>3, <2>1, <2>2, <2>3
<1>6. Allowed' >= (S - 1) * MaxCost /\ Allowed' \in Int
  <2>1. again' \in Nat /\ S - 1 \in Nat /\ MaxCost \in Nat /\ S' = S
    BY <1>3, AmountsAssumption DEF TypeOK
  <2>2. PICK k \in Nat, r \in Nat, m \in Nat : k = S - 1 /\ r = again' /\ m = MaxCost
    BY <2>1
  <2>3. Allowed' = (k + r) * m
    BY <2>2 DEF Allowed
  <2>4. (k + r) * m = k * m + r * m /\ r * m >= 0 /\ k * m \in Nat /\ r * m \in Nat
    OBVIOUS
  <2>5. QED
    BY <2>2, <2>3, <2>4
<1>7. ((n + 1) - 1) * MaxCost = n * MaxCost
  BY <1>3
<1>8. budget'.balance \in Int /\ Cost(trx'[s].amount) \in Int
  <2>1. trx'[s].amount \in Amounts
    BY DEF Validate, TypeOK
  <2>2. QED
    BY <2>1, CostType DEF TypeOK, BudgetRow
<1> HIDE DEF n, S
<1>9. budget'.balance - Cost(trx'[s].amount) >= ((n + 1) - 1) * MaxCost - Allowed'
  BY <1>4, <1>5, <1>6, <1>7, <1>8
<1>10. QED
  BY <1>1, <1>2, <1>9 DEF OverdraftInv, n

\* A transaction charged once more raises by MaxCost what is allowed, and takes
\* no more than that.
LEMMA OverdraftAgain ==
  ASSUME TypeOK, TypeOK', OverdraftInv, NEW s \in Slots, ChargeAgain(s)
  PROVE  OverdraftInv'
<1> SUFFICES ASSUME ~stale PROVE OverdraftInv'
  BY DEF OverdraftInv, ChargeAgain
<1>1. /\ InFlight' = InFlight /\ last' = last /\ trx' = trx
      /\ Cardinality(InFlight) \in Nat /\ Cardinality(Slots) \in Nat
      /\ MaxCost \in Nat /\ again \in Nat /\ again' = again + 1
      /\ budget.balance \in Int /\ budget'.balance \in Int
  BY InFlightSize, AmountsAssumption DEF TypeOK, BudgetRow, ChargeAgain, InFlight
<1>2. Allowed \in Int /\ Allowed' = Allowed + MaxCost
  BY <1>1 DEF Allowed
<1>3. budget'.balance >= budget.balance - MaxCost
  <2>1. Cost(trx[s].amount) \in Nat /\ Cost(trx[s].amount) <= MaxCost
    BY AmountType DEF ChargeAgain
  <2>2. budget'.balance = budget.balance - Cost(trx[s].amount)
    BY <2>1 DEF ChargeAgain, Debited, TypeOK, BudgetRow
  <2>3. QED
    BY <1>1, <2>1, <2>2
<1>4. CASE last \in InFlight
  <2>1. Cost(trx[last].amount) \in Nat
    BY <1>4, AmountType DEF InFlight
  <2>2. (Cardinality(InFlight) - 1) * MaxCost \in Int
    BY <1>1
  <2>3. budget.balance - Cost(trx[last].amount) >= (Cardinality(InFlight) - 1) * MaxCost - Allowed
    BY <1>4 DEF OverdraftInv
  <2>4. budget'.balance - Cost(trx[last].amount) >= (Cardinality(InFlight) - 1) * MaxCost - Allowed'
    BY <1>1, <1>2, <1>3, <2>1, <2>2, <2>3
  <2>5. QED
    BY <1>1, <1>4, <2>4 DEF OverdraftInv
<1>5. CASE last \notin InFlight
  <2>1. Cardinality(InFlight) * MaxCost \in Int
    BY <1>1
  <2>2. budget.balance >= Cardinality(InFlight) * MaxCost - Allowed
    BY <1>5 DEF OverdraftInv
  <2>3. budget'.balance >= Cardinality(InFlight) * MaxCost - Allowed'
    BY <1>1, <1>2, <1>3, <2>1, <2>2
  <2>4. QED
    BY <1>1, <1>5, <2>3 DEF OverdraftInv
<1>6. QED
  BY <1>4, <1>5

LEMMA OverdraftStep == TypeOK /\ TypeOK' /\ OverdraftInv /\ [Next]_vars => OverdraftInv'
<1> SUFFICES ASSUME TypeOK, TypeOK', OverdraftInv, [Next]_vars PROVE OverdraftInv'
  OBVIOUS
<1>0. budget \in BudgetRow /\ budget.balance \in Int /\ Grants \cup {0} \subseteq Nat
  BY LedgerAssumption DEF TypeOK, BudgetRow
<1>1. ASSUME NEW s \in Slots, Validate(s) PROVE OverdraftInv'
  BY <1>1, OverdraftValidate
<1>2. ASSUME NEW s \in Slots, Drop(s) PROVE OverdraftInv'
  <2>1. s \in InFlight /\ InFlight' = InFlight \ {s} /\ last' = last /\ stale' = stale
        /\ again' = again
    BY <1>2 DEF Drop, InFlight, TypeOK, books
  <2>2. budget'.balance >= budget.balance - Cost(trx[s].amount)
    BY <1>0, <1>2, AmountType DEF Drop
  <2>3. \A t \in InFlight \ {s} : trx'[t] = trx[t]
    BY <1>2 DEF Drop, InFlight, TypeOK
  <2>4. QED
    BY <2>1, <2>2, <2>3, OverdraftLeft
<1>3. ASSUME NEW s \in Slots, Charge(s) PROVE OverdraftInv'
  <2>1. s \in InFlight /\ InFlight' = InFlight \ {s} /\ last' = last /\ stale' = stale
        /\ again' = again
    BY <1>3 DEF Charge, InFlight, TypeOK
  <2>2. budget'.balance >= budget.balance - Cost(trx[s].amount)
    BY <1>0, <1>3, AmountType DEF Charge, Debited
  <2>3. \A t \in InFlight \ {s} : trx'[t] = trx[t]
    BY <1>3 DEF Charge, InFlight, TypeOK
  <2>4. QED
    BY <2>1, <2>2, <2>3, OverdraftLeft
<1>4. ASSUME NEW s \in Slots, Settle(s) \/ LoadForRefund(s) PROVE OverdraftInv'
  <2>1. InFlight' = InFlight /\ UNCHANGED <<last, again, stale, budget>>
    BY <1>4 DEF Settle, LoadForRefund, InFlight, TypeOK, books
  <2>2. \A t \in InFlight : trx'[t] = trx[t]
    BY <1>4 DEF Settle, LoadForRefund, InFlight, TypeOK
  <2>3. QED
    BY <1>0, <2>1, <2>2, OverdraftKept
<1>5. ASSUME NEW s \in Slots, SaveRefund(s) PROVE OverdraftInv'
  <2>1. InFlight' = InFlight /\ UNCHANGED <<last, again>>
    BY <1>5 DEF SaveRefund, InFlight, TypeOK
  <2>2. \A t \in InFlight : trx'[t] = trx[t]
    BY <1>5 DEF SaveRefund, InFlight, TypeOK
  <2>3. ASSUME ~stale' PROVE ~stale /\ copy[s].row = budget
    BY <1>5, <2>3 DEF SaveRefund, TypeOK
  <2>4. trx[s].amount \in Nat
    BY <1>5, AmountType DEF SaveRefund
  <2>5. ASSUME ~stale' PROVE budget'.balance >= budget.balance
    <3>1. budget' = Returned(budget, trx[s].amount)
      BY <1>5, <2>3, <2>5 DEF SaveRefund
    <3>2. QED
      BY <1>0, <2>4, <3>1 DEF Returned
  <2>6. QED
    BY <2>1, <2>2, <2>3, <2>5, OverdraftKept
<1>6. ASSUME UNCHANGED <<trx, last, again>>, ~stale' => ~stale, ~stale' => budget'.balance >= budget.balance
      PROVE  OverdraftInv'
  BY <1>6, OverdraftKept DEF InFlight
<1>7. ASSUME NEW a \in Admins, AdminSave(a) PROVE OverdraftInv'
  <2>1. PICK g \in Grants \cup {0} : budget' = ToppedUp(admin[a].inst.row, g)
    BY <1>7 DEF AdminSave
  <2>2. ASSUME ~stale' PROVE ~stale /\ admin[a].inst.row = budget
    BY <1>7, <2>2 DEF AdminSave, TypeOK
  <2>3. ASSUME ~stale' PROVE budget'.balance >= budget.balance
    <3>1. budget' = ToppedUp(budget, g) /\ g \in Nat
      BY <1>0, <2>1, <2>2, <2>3
    <3>2. budget'.balance = budget.balance + g
      BY <1>0, <3>1, ToppedUpType
    <3>3. QED
      BY <1>0, <3>1, <3>2
  <2>4. UNCHANGED <<trx, last, again>>
    BY <1>7 DEF AdminSave
  <2>5. QED
    BY <1>6, <2>2, <2>3, <2>4
<1>8. ASSUME NEW f \in Forms, NEW base \in Loaded, NEW g \in Nat, FormSave(f, base, g)
      PROVE  OverdraftInv'
  <2> DEFINE row == [form[f].object.row EXCEPT !.balance = base.row.balance]
  <2>1. ASSUME ~stale' PROVE ~stale /\ base.row.balance = budget.balance
    BY <1>8, <2>1 DEF FormSave, TypeOK
  <2>2. row \in BudgetRow /\ row.balance = base.row.balance
    BY DEF TypeOK, Loaded, BudgetRow
  <2>3. budget' = ToppedUp(row, g)
    BY <1>8 DEF FormSave
  <2>4. budget'.balance = row.balance + g
    BY <2>2, <2>3, ToppedUpType
  <2>5. ASSUME ~stale' PROVE budget'.balance >= budget.balance
    BY <1>0, <2>1, <2>2, <2>4, <2>5
  <2>6. UNCHANGED <<trx, last, again>>
    BY <1>8 DEF FormSave
  <2>7. QED
    BY <1>6, <2>1, <2>5, <2>6
<1>9. ASSUME NEW f \in Forms, FormSaveAmount(f) \/ FormSaveBlank(f) PROVE OverdraftInv'
  <2>1. form[f].page \in Loaded /\ form[f].budget_object \in Loaded
    BY DEF TypeOK
  <2>2. QED
    BY <1>0, <1>8, <1>9, <2>1 DEF FormSaveAmount, FormSaveBlank
<1>10. CASE UNCHANGED <<budget, trx, last, again, stale>>
  BY <1>0, <1>6, <1>10
<1>11. ASSUME NEW s \in Slots, ChargeAgain(s) PROVE OverdraftInv'
  BY <1>11, OverdraftAgain
<1>12. QED
  BY <1>1, <1>2, <1>3, <1>11, <1>4, <1>5, <1>7, <1>9, <1>10
     DEF Next, vars, books, AdminLoad, FormRender, FormLoad, FormLoadAgain

\* Until a stale save, the balance is never lower than one transaction less than
\* can be in flight and one per repeated charge take, for every number of slots
\* and every fee table.
THEOREM OverdraftTheorem == Spec => []OverdraftBounded
<1>1. Init => OverdraftInv
  <2> SUFFICES ASSUME Init PROVE OverdraftInv
    OBVIOUS
  <2>1. InFlight = {} /\ budget.balance = InitialBalance
    BY DEF Init, InFlight, Opened
  <2>2. Cardinality(InFlight) = 0
    BY <2>1, FS_EmptySet
  <2>3. again = 0 /\ Cardinality(Slots) - 1 \in Nat /\ MaxCost \in Nat /\ InitialBalance \in Nat
    BY InFlightSize, AmountsAssumption, LedgerAssumption DEF Init
  <2>4. Allowed >= 0 /\ Allowed \in Int
    BY <2>3 DEF Allowed
  <2>5. QED
    BY <2>1, <2>2, <2>3, <2>4 DEF OverdraftInv
<1>2. QED
  BY <1>1, TypeCorrect, OverdraftStep, OverdraftInvImplies, PTL DEF Spec
=============================================================================
