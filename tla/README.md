# Payout platform: TLA+ models, checks and proofs

The repository is a Django application with Celery workers through which companies pay out
money: single cash-ins to mobile wallets over an API, transfers to bank cards and bank wallets
over the clearing house (EBC), cash-outs over Aman, and whole documents of any of these that are
uploaded, reviewed and disbursed.  What every path shares is a prepaid *budget* per client that
is debited for what was paid out.  Money moves at providers that answer late, wrongly or not at
all; the rows that record it live in PostgreSQL, are saved whole from Python instances, and
almost nothing locks them.  `ATOMIC_REQUESTS` is not set, so every save commits by itself.

This directory models how those rows change when requests, periodic tasks, uploads and operators
interleave and when processes die between two saves, and proves the properties that matter most
for any number of them.

## 1. The system

| component | state it keeps | operations | hard part | correct when | here |
|---|---|---|---|---|---|
| Budget ledger | `Budget.current_balance`, `total_disbursed_amount` | `within_threshold`, `update_disbursed_amount_and_current_balance`, `return_disbursed_amount_for_cancelled_trx`, admin page, portal form | one writer of five takes the row lock; validation and charge are a provider call apart | the row is opening plus top-ups minus charges plus refunds; overdraft bounded | `Budget`, `BudgetLedger` |
| Instant cash-in to wallets | `InstantTransaction` | `InstantDisbursementAPIView.post`, the two inquiry tasks, `update_instant_timeouts_from_vodafone_report` | a request, two kinds of reconciler and a provider settle the same row | debited once and only if paid; a final status is final; open ones are settled | `WalletCashin`, `PayoutContract` |
| Bank transfers (ACH) | `BankTransaction` rows of one parent, `InstantTransaction` for wallets | `create_bank_transaction`, `send_transaction`, the two status tasks, `update_bank_trx_status` | every status change is a new row; two tables follow each other; tasks exclude themselves by inspection | one debit, one credit exactly for what comes back; both tables agree; the record follows EBC | `BankTransfers`, `TransferContract` |
| Bulk disbursement and callbacks | `DisbursementData`, `InstantTransaction` of deposits, `DisbursementDocData` | `DisburseAPIView`, `BulkDisbursementThroughOneStepCashin`, `DisburseCallBack`, `check_for_late_disbursement_callback` | four writers of a record, none of which looks at it; one debit for a batch; a batch id that is always 0 | nothing unpaid debited; a record is successful exactly if it is debited | `BulkDisbursement` |
| Documents, review, recurrence | `Doc`, `DocReview`, `DisbursementDocData.doc_status` | sheet processors, `AllowDocDisburse`, `RecuringForm`, `FileDeleteView`, `document_view`, `disburse`, `create_recuring_docs` | every writer saves the row it loaded; two rows say one thing; checks are not repeated at the insert | handed over once, with its approvals and records, and marked so | `DocWorkflow`, `DocLifecycle` |
| Aman cash-out | `AmanTransaction`, record and its `reference_id` | `AmanChannel`, `disburse_for_aman`, `notify_merchant`, `CancelAmanTransactionView` | a bill at Accept, a row here, a debit, in different orders; a flag at the first row, a void at the last bill | the budget has paid for exactly the bills that stand | `AmanCashout` |
| Fees and sheet validation | `FeeSetup`, the uploaded sheet | `accumulate_amount_with_fees_and_vat`, `calculate_fees_and_vat_for_amount`, `EWalletsSheetProcessor`, `BankWalletsAndCardsSheetProcessor` | limits, rounding, a fee of a total against a total of fees; nothing reserved | a document costs what it was checked for, up to what is explained | `Fees`, `SheetCharges` |
| Change-profile callbacks, reports, inquiries, users, agents, payment, pages | – | reads, configuration, rendering | – | – | not modelled, see section 6 |

Interactions: the API request, the bulk task, its callback and the reconcilers all call the
*budget* methods; a bank wallet transfer writes the *instant* table that the API and its
reconcilers use as well; a document is charged against the same budget that validated it, its
approvals let the *bulk* task run, and what the bulk task does with Aman recipients is undone by
the cancellation page; status tasks call back the client's URL while they hold a row; EBC, Accept
and the wallet provider are reached by HTTP with 10 or 30 seconds of patience or none at all.

The hazards this gives rise to are listed line by line in `PROJECT.json`, with the properties
that would catch them.

## 2. Modules

    Budget ----------> BudgetLedger -----> BudgetLedger_proofs
       \                    \-> MCBudgetLedger
        \-> WalletCashin --> WalletCashin_proofs
              |   \-> MCWalletCashin
              \-- INSTANCE PayoutContract
    BankTransfers ----> BankTransfers_proofs       MCBankTransfers
         \-- INSTANCE TransferContract
    FiniteSums -------> FiniteSums_proofs
         \-> BulkDisbursement -> BulkDisbursement_proofs    MCBulkDisbursement
    DocWorkflow ------> DocWorkflow_proofs         MCDocWorkflow
         \-- INSTANCE DocLifecycle
    AmanCashout ------> AmanCashout_proofs         MCAmanCashout
    Fees, FiniteSums -> SheetCharges -> SheetCharges_proofs    MCSheetCharges

**`Budget`** is the arithmetic of `utilities/models/generic_models.py`: what each method makes of
the row it holds.  Fees and VAT are a constant function of the amount; no property depends on how
they come about, only on a charge being amount plus both and a refund the bare amount.

**`BudgetLedger`** is everybody who writes one row.  `Validate` reads an unlocked copy;
`Charge` is one step because the code reads again under `select_for_update`; `ChargeAgain` is the
second debit of a transaction that was validated once; `LoadForRefund` and
`SaveRefund` are two because the refund works on the cached instance; `AdminLoad`/`AdminSave` and
`FormRender`/`FormLoad`/`FormLoadAgain`/`FormSave*` are the two pages, the latter with the second
load of `get_form_kwargs`.  The history variables `granted`, `charged`, `refunded` say what the row
should be; `stale` and `grantLost` are set at the very save that replaces a row it was not computed
from.

**`WalletCashin`** is one cash-in per member of `Trx`.  `req` is the place in
`InstantDisbursementAPIView.post` between two effects: `validated` (serializer and threshold
passed), `created` (row `P`), `sent`, `marked` (row `S`, debit next), `closing` (the trailing
`balance_before/after` and whole-row `save()`, which rewrites the status from `inst`).  A pass over
an issuer of `check_for_etisalat_and_vodafone_unknown_transactions` is a poller: it selects `U` and
`P` rows once, then asks about each, saves, and debits in the next step, never looking at the row
again.  A report upload is exported by the provider some time before it is used (`seen`) and
selects the 501/6005 timeouts.  `Polled` are the issuers the inquiry covers.  `RequestDies` and
`RunDies` are crashes and exceptions nothing catches.  `overlapped` records that a reconciler
selected a transaction that somebody else held.

**`PayoutContract`** is what a client is promised of one cash-in: paid at most once, decided once,
debited once, after the payout.  An overlap voids the outcome, but even then nothing unpaid is
debited.  `WalletCashin!Contract` is its specification under the mapping payout = what the provider
did, outcome = the row's status ("void" once `overlapped`, open while neither `S` nor `F`), debits
= `charges`.

**`BankTransfers`** is one transfer per member of `Trx`, those in `Wallets` with an instant row.
`latest` is the newest row of a parent, `older` which transfers have their newest row before
another's, the order in which the tasks page through them; `age` how many of the tasks' windows (6
days, 16 days) the newest row has outlived, and `Window` up to which age a task asks.  The request
debits, marks the bank row pending, then the instant row, in three steps.  A status task wakes,
inspects the active tasks (`Enter`, `GiveUp`), counts the pages once (`Count`), evaluates the query
anew for each (`Page`), and for each loaded row asks EBC (`Ask`, which also creates the copy), marks
the copy, follows with the instant row, credits and calls back.  `Raises` is an inquiry or callback
that fails: the handler reads a misspelt attribute and raises itself, so the run is over.  The two
tasks have the same body but for the window and exclude each other, so `Tasks` holds deliveries of
either.  A page is the rows whose place among the open ones, oldest first, is in it, so a row that
leaves the query or moves to its end shifts the others under the run.

**`TransferContract`** is what a client is promised of one transfer to a bank, whatever rows,
requests and tasks handle it: the record follows the clearing house, however late (it may skip a
stage that was missed, but never runs ahead, goes back, or contradicts what is final); the budget
is debited once, before the transfer is on record as accepted, and credited once, after it is on
record that the money came back.  A request may fail a transfer on what it knows although EBC took
it: that the contract allows (`Fail`), and nothing else without EBC.  `BankTransfers!Contract` is
its specification under `StageOf`, a stage for each code of EBC, and `Recorded`, which reads the
newest row.

**`BulkDisbursement`** is a set of documents, their records, and everybody who puts the provider's
verdict on record.  `run` is one delivery of the bulk task together with the API request that
queued it: the request queues the task *before* it loads and saves the document's row as disbursed
(`Queue`, `LoadTxn`, `MarkDisbursed`).  The task goes over two rounds of records; it posts one
(`Post`), and the answer, or none, decides (`AnswerPaid`, `AnswerRefused`, `AnswerUnknown`,
`NoAnswer`); wallet records are debited and then saved, deposits saved, debited and saved again.
`callback` and `inquiry` walk a list of entries in order, which may name a record several times, and
keep a running total, here how often it holds each record's amount; when the list is through, the
callback debits the total to the budget of the document of the last record that was paid and flags the
document of the last entry, the inquiry does both for the document it asked about.  The provider pays
or refuses what it took whenever it likes, and may be posted the same record by two deliveries.
`told` counts the verdicts acted on and `wins` those that said paid, `payers` are the documents whose
budgets were debited for a record, `cut` marks a record with which somebody stopped, `undone` a
document whose flag the API took back.

**`DocWorkflow`** is the document from upload to bulk task, each request with the row it loaded:
`proc` (the sheet processor), `edit` (allow, recur, stop recurring, delete), `review`, `order` (the
`disburse` view and the internal API it posts to) and `job` (the recurring copies).  `SaveOver` is
`doc.save()` of a loaded row; it records in `disturbed` that the row had changed since.  Documents in
`Copies` come into being only by `CopyDoc`.

**`DocLifecycle`** is the contract of a document: uploaded or copied, processed or refused,
allowed, handed over once, or deleted before.  `DocWorkflow!LifecycleSpec` is its specification
under `Phase`, which reads both rows of a document and how often it was handed over.

**`AmanCashout`** is the bills of Accept, one per attempt at a record: by a pass of the bulk task
(`Bulk`), or by a request for an instant transaction.  The exchange order, key, pay request is one
step with its outcomes (`Refused`, `Opened`, `OpenedUnheard`, `NotPending`).  `first` is
`aman_obj.first()`, the row pages look at; cancellations go by the record's reference, which is
that of the last attempt.

**`Fees`** is the arithmetic of `FeeSetup` in ten-thousandths with half-even rounding;
**`SheetCharges`** validates one sheet per document against one budget and debits its records in
any order and by any of the paths that do.  The number of transactions each path passes on is the
point: one for a bank document at validation, one per issuer and count for e-wallets, one per record
by the task, the batch's size by the callback, one by the inquiry.  No debit asks what was debited
before: a report lists any records, in any mixture and any of them again.  `charged` is the history of
the debits that cover records for the first time; whatever is debited again, or across documents, is in
`apart`, and the two differ for the properties only.  Amounts are integers of any
sign, as a sheet may hold them.  The slack `ChargedAsQuoted` grants has a fee with its VAT rounded
*up* (`Gross`): with the code's own half-even rounding the bound fails for a sheet of enough rows,
each of which loses a fraction.  The quote of a bank sheet without a row is that of a transaction
of nothing, which may have a fixed fee; the lower bound is about sheets that have one.

Every operator named a *plausible slip* in a comment is a mutation: it replaces the operator after
it, and the property it belongs to must then fail.

## 3. What is checked

| run | instance | shows |
|---|---|---|
| `budget` | three slots, one refundable, admin page, portal form, four charges, some of them second ones | the row is exact unless a save was stale, the sum unless a top-up was lost, the overdraft bounded |
| `wallet_overlaps` | two requests that may share a reference, two inquiries, one upload, one death | paid, reported and debited agree; the contract is implemented |
| `wallet_settles` | two requests, an inquiry, an upload, one death, fair | what reached the provider is settled in the end |
| `wallet_double_debit` | one request, one inquiry | **violated**: a payout is debited by the request and by the inquiry that selected its pending row |
| `bank_transfers` | a wallet and a card transfer, two status tasks, one death | one run at a time, one debit, one credit for what came back, both tables agree; the contract of a transfer is implemented |
| `bank_settles` | two transfers on a page each, two tasks, aborted runs, one row that may grow too old, fair | if runs come to their end again and again, EBC's decision gets on record |
| `bulk_disbursement` | a wallet document and a deposit document of a record each; three of two tasks, two callbacks and an inquiry; reports of up to two entries; one death | a record is debited as often as somebody was told of its payout; record and debit agree for a single verdict |
| `bulk_flags` | three records over both rounds, one task, one callback, one inquiry, one fault, fair | nothing unpaid is debited, no budget of a document nobody handed over; a task that does not die and whose posts return gets the callback flag set |
| `doc_workflow` | one document, three levels, two required reviews of three, two edits, two disbursals, one death | approvals, levels, records and marks are in order; the life cycle is implemented |
| `doc_copies` | a document and its copy, two levels, two edits, one review, one disbursal, one death | the copy starts allowed and lives as others do |
| `aman_cashout` | a record handled twice, an instant transaction, two cancellations, two notices, one fault | credits are covered, books agree, pages show what Accept has |
| `sheets` | four documents of up to two rows, two of them for e-wallets, every type of fee, two balances, reports of up to two records | recipients once, charged as quoted, overdraft explained |

`wallet_double_debit` is a disagreement between the code and what it says of itself;
`PROJECT.json` quotes the sentence.

**Bounds.**  `ChargeCap`, `MaxFaults`, `MaxDeliveries`, `MaxList`, `MaxApart` and `Aging` bound what
would otherwise grow for ever: charges, deaths, deliveries, entries of a report, what has been debited
again before one more such debit, and transfers whose rows grow old.  Two requests are enough for a
shared reference; one request, two pollers and an upload are every pair of holders of a row, and a
third holder of the same kind adds no new order of a select and a save.  Two transfers with a page of
one give two pages and the shift between them; two task deliveries give the exclusion (they are alike,
so `bank_transfers` takes them as symmetric); one death between any two saves gives every partial
effect.  `bank_settles` gives both tasks one window, and has no deaths, which would triple it: a run
that is aborted stops the other transfers just the same, and what a death leaves of the row in hand is
in `bank_transfers`.  Both bank runs are without client references (`Refs` is empty), which would
multiply their states and bear on the first two steps of a request only; what a unique column does for
requests with one reference is in the wallet runs.  In `bulk_disbursement` two entries are the fewest
with a record repeated, or one known and one not, three of the five deliveries the fewest with a
second callback or a second task and an inquiry between them; the posts of two rounds are in
`bulk_flags`.  Three levels are the fewest in which a gap can be left, three reviews the fewest with
one too many; two edits meet each other, the processor and a disbursal.  Two attempts at one record
are the fewest after which its first and its last bill differ.  Two rows a sheet are the fewest with a
duplicate and with a fee charged per record; two e-wallet documents the fewest that a report can mix,
three documents the fewest for which "all but one" is more than one.  `MaxApart` is 0, so one list is
debited again or across documents, at any point.  The theorems of section 4 do not have these bounds.

**Stopping.**  Requests end, the cap is reached, transfers settle: the systems may stop, so
deadlock is not checked in any run.

**Fairness.**  Liveness is checked under what the deployment provides and no more.  For
`WalletCashin`: the inquiry is a periodic task, processes that hold a row go on unless they die,
and the provider decides in the end; nothing forces an upload.  For `BankTransfers`: a
worker that runs a task goes on with what is the task's alone (weak fairness of `Works`).  Nothing is
assumed of which task is woken, whether two find each other active, what EBC answers, or whether a
client's endpoint, for which there is no timeout, ever does; instead `AcceptedIsSettled` has the premise
that runs with a window come to the end of their pages again and again, and its conclusion lets a row
outlive that window.  A system in which all runs give up or are aborted for ever does not satisfy the
premise; what the property shows is that pages that shift, rows passed over and runs aborted in between
do not leave a transfer out.  For `BulkDisbursement`: a worker takes the queued task and goes on with
what is its own unless it dies (weak fairness of `Works`).  `CustomRequests.post` and its callers
set no timeout, so nothing is assumed of a post; `HandedIsFlagged` has the premise that no post of a task
of the document hangs, and nothing is assumed of the provider, the callback or the inquiry.

## 4. What is proved

TLAPS checks the following for all values of the constants that satisfy the modules' assumptions:
any set of transactions, documents, records and requests, any number of inquiries, uploads, pages
and tasks, any amounts and fees.

* `BudgetLedger_proofs`.  `TypeCorrect`.  `ExactTheorem`: the row is exact unless stale; inductive as
  it stands, because each unlocked save compares its load with the row.  `SumTheorem`: the inductive
  invariant adds that every instance in memory has the sum that held when it was loaded (the `granted`
  it remembers), and that both loads of a form do.  `OverdraftTheorem`: the balance is at least minus
  (slots - 1 + repeated charges) times the dearest transaction.  This is not inductive: the invariant
  distinguishes whether the transaction that validated *last* is still in flight, since it alone is
  known to find its own cost in the balance, and counts what the others may still take.
* `WalletCashin_proofs`.  `TypeCorrect`; `NoChargeWithoutPayoutTheorem` by `PaidInv` (whoever is
  about to debit has seen the payout); `ChargedOnceTheorem`, `SuccessfulIsChargedTheorem` and
  `FinalStatusTheorem` by `CleanInv` (while no selection overlapped, exactly one process holds a
  transaction and its row is what that process thinks); `OnePayoutTheorem` by `RefInv` (no two
  recorded transactions share a reference, and only recorded ones are posted).  `ContractTheorem`:
  `WalletCashin` implements `PayoutContract`.  Every step is a step of the contract or a stutter;
  the guards come from `PaidInv`, `CleanInv` and `FreshInv` (nothing is with the provider before it
  is posted).
* `BankTransfers_proofs`.  `OneStatusRunTheorem`: at most one status task is past its inspection
  (`MutexInv`, the shape of a task record and the exclusion).  `BankTypeTheorem`, `CreditTheorem`,
  `BackTheorem`, `InstantTheorem` and `FinalTheorem` rest on `MoneyInv`, four parts that need each
  other: how far the request has come with its debit and its two rows (`RequestInv`); that the rows a
  run loaded and has not reached are still the newest of their parents, which holds because it is
  alone (`RunInv`); which rows have been credited (`BackInv`); and which bank row the instant row
  follows (`InstantInv`).  `FinalTheorem` is the action property `FinalRowKept`; no run checks it
  beside the contract, which says as much of the stages.  `ContractTheorem`: `BankTransfers`
  implements `TransferContract`.  Beyond `MoneyInv` this needs `FollowInv`: EBC has a transfer no
  sooner than it is sent; a row that is open has the code of its status, and EBC is at that code or
  has passed it; and the answer a task is about to save is news for the row it will replace, and at
  worst late. The last holds only because the task is alone with the row it loaded pages ago.
* `FiniteSums_proofs`.  What the sums of `BulkDisbursement` and `SheetCharges` need (`SumUnion`, `SumLe`,
  `SumPart` and others), proved from the folds by a smallest counterexample (`SmallestSubset`), since the
  library's induction theorems cannot be used.
* `BulkDisbursement_proofs`.  `TypeTheorem`; `PayoutTheorem` by `TruthInv` (what a callback or an
  inquiry has still to apply, and what anybody is about to debit, was paid) and `HandedInv` (whoever has
  a record or a document in hand has one that was handed over, for the provider knows no others).
  `ToldTheorem` (`DebitedAsTold`): the debits of a record, plus what every process has of it in its
  total (`Due`, a sum over tasks, callbacks and inquiries), are as many as the verdicts that it was paid;
  each step moves one unit between two of the three, and only a process that stops loses any (`Told`).
  `SuccessTheorem` and `DebitedTheorem` by `RecordInv`: `WonInv` says that a successful record was once
  reported paid, so `DebitedAsTold` gives its debit; `AloneInv` that
  nobody holds a record on which no verdict was acted on, and that after the first the task that has it
  in hand will save what it was told, or it is saved.  After a second verdict all four writers overwrite
  what they find.
* `DocWorkflow_proofs`.  `TypeTheorem`.  `LevelsTheorem`: reviews are only added, so a request the
  levels let through may still review when it inserts (`OpenedMay`).  `HandedTheorem`: a document
  whose approvals were there when a disbursal of it was checked keeps them (`ClearedInv`), and unless
  requests raced they are of as many checkers (`ReviewersOnce`).
  `ContractTheorem`: `DocWorkflow` implements `DocLifecycle`.
  `HeldInv` says that whoever is at a document holds a row of one that exists, `CalmInv` what is
  true of a document nothing disturbed: until its processor marks it, it is neither processed nor
  allowed, so nobody can be disbursing it; one disbursal at most is at it, and how far that has come
  is what its two rows and the number of hand-overs say.  A save that disturbs nothing saves the row
  that is there, so it is a move of the life cycle.  `MarkedTheorem` is a consequence;
  `RecordedTheorem` adds where the records of a sheet are (`Recorded`).
* `AmanCashout_proofs`.  `TypeTheorem`; `CreditsTheorem` by `VoidInv` and `CreditInv` (a void belongs to
  one cancellation, which credits it once) and `DebitInv` (a bill of a document is known to a row, a
  page or a callback only once its attempt has debited it, so nothing is voided that was not
  debited); `BooksTheorem` by `BookInv` (every bill was debited, or its attempt is about to).
  `ShownTheorem` (`ShownAsBilled`): `SavedInv` says that a row, a page or a callback that refers to an
  attempt does so once its bill is saved; `FlagInv` and `ShownInv` are about records with one attempt,
  whose flag, row and copies in flight agree with the bill.  That there is only one attempt so far is
  itself kept backwards (`SoleKept`).
* `SheetCharges_proofs`.  `TypeTheorem` and `RecipientsTheorem` by `Base`: the records are the rows of
  the sheet, the check was made of them, and the balance is the opening less what was charged and what
  is `apart`; the total of a list that covers records for the first time is the sum over those records
  (`ListTotal`).  `ChargedTheorem` by `BillInv`: what a document has cost is, up to the slack of the
  records that are debited, the bill of their *total* per issuer, and what the whole costs is the
  quote.  The heart is `CostOfSum`, by the kinds of fee: the fee of a sum with a count against the sum
  of the fees, with limits and rounding.  `OverdraftTheorem` adds the documents up: every quote fitted
  into the opening balance (`CheckedInv`), so the one left out is covered but for its slack, whichever
  it is, and what is debited again comes on top.

The assumptions are the named `ASSUME`s of `Budget`, `BudgetLedger`, `WalletCashin`,
`BankTransfers`, `BulkDisbursement`, `DocWorkflow`, `AmanCashout` and `SheetCharges`: positive amounts
with a largest cost, finite non-empty slots, disjoint kinds of reconciler, a page of at least one,
finitely many transfers and documents, records that belong to documents, a finite set of reviews,
finitely many issuers each with a fee setup, markers that are nobody's name.  Amounts, fees, lengths
of sheets and balances are not bounded.  The checked instances satisfy them.

**Only model-checked**: the three liveness properties, `OpenIsSettled`, `AcceptedIsSettled` and
`HandedIsFlagged`, because fairness and ENABLED are beyond the prover.  Every invariant and every
action property of the passing runs is proved, and so are the three refinements.  No module
declares a recursive operator.

## 5. What the models show of the code

Kept as a run that must fail: `wallet_double_debit`.  `update_disbursed_amount_and_current_balance`
says that it is for "each successful transaction" (`generic_models.py:224`), but the inquiry also
selects the pending row of a request that is still talking to the provider, and both debit it.

The rest are conditions under which a property of section 3 is stated; each is what the code does,
and without its condition the property is violated in the run that checks it.

* A refund is computed from an instance that was loaded before, without the lock: a charge that was
  committed in between is undone (`stale` in `BudgetLedger`, `utilities/models/generic_models.py`).
* Validation reserves nothing: several requests pass it with one balance and overdraw the budget, by
  as many transactions as there are requests in flight less one, and by one more for each time that a
  transaction is charged again (`disbursement/tasks.py:493-517` beside `instant_disbursement.py:376-378`).
* A request that ends in any error but a timeout is saved as failed with 424, whatever the provider
  has made of it; neither the inquiries nor the upload look at it again (`instant_disbursement.py:365`).
* A request to Orange or to a bank wallet that times out stays unknown: the inquiries ask about
  Etisalat and Vodafone only (`instant_disbursement.py:356`).
* The reference a client passes is looked up before the row is inserted (`serializers.py:115`).  An
  instant transaction's column is unique, so the second insert fails and `OnePayoutPerReference` holds;
  a bank transaction's is not, so two transfers to cards with one reference may both be sent.
* An EBC request that times out is saved as failed, whether EBC took it or not, and failed transfers
  are not asked about (`ach/instant_cashin.py:388`).  A crash between the debit and the first save
  leaves a transfer in its initial status, debited (`:217`).  The callback to the client has no
  timeout and holds the status task while it waits (`:337`).  An inquiry that fails reads a misspelt
  attribute in its handler, so the whole run ends there (`:411`).
* A record's verdict is overwritten by whichever of task, callback and inquiry comes last (`told` in
  `BulkDisbursement`).  A callback that is delivered twice, a callback and a late inquiry, a list that
  names a record twice or a second delivery of the task debit the record twice, without a look at what
  was debited before (`DebitedAsTold` says how often, `apart` in `OverdraftExplained` what it costs).
  An id that is not known ends a callback after its updates and before its debit.
* The bulk task's posts have no timeout, neither from `CustomRequests.post`
  (`utilities/custom_requests.py:37`) nor from their callers: one that hangs holds the task, and the
  flag of its document is not set.
* The API queues the bulk task before it marks the document, so a task that is quick sets a callback
  flag that the API then takes back; the inquiry asks about that document again.
* Two disburse requests that are checked together both queue the task; two checkers who open a
  document together both review it; every save of a loaded row takes back what was saved since
  (`disturbed`, `raced` in `DocWorkflow`).  An e-wallet sheet reads as processed before its records
  are inserted, so it may be handed over without them.
* A copy of a recurring document starts allowed and, in its status row, with the status of the
  original, so it may read as "disbursed" before anybody reviewed it.  `recuring_latest_date` is set
  on every run (`data/tasks.py:2275`), and nothing in the repository schedules
  `create_recuring_docs`.
* A cancellation credits the budget for every successful void it is told of, without a look at
  what is on record; the cancellation page goes by the first bill of a record and the void by the last.
* A sheet of bank cards is validated with one fixed fee for its total and charged one per record; a
  late inquiry charges one for a whole batch; duplicates of an IBAN are never found, because its
  digits are looked up in a list that keeps it whole (`data/tasks.py:249-268`).

## 6. What is not modelled, and what the models leave out

Not modelled at all:

* *Change-profile callbacks*: the method that asks for a change of profile
  (`bulk_change_profile_for_vodafone_recipients`) has no caller left, so no document waits for one.
* *Reports and exports, balance and transaction inquiries*: they read rows and write files.
* *Users, permissions, sign-on, agents' onboarding, payment collection*: configuration and calls
  whose order nothing above depends on; a checker's level and maximum and the budget's slots are
  constants here.
* *Web pages, static files, translations*: presentation.  All JavaScript of the repository is in
  `src/static` and is third-party or presentation, so no definition of the models stands for a line
  of it; everything that is modelled is Python.

Left out of the modelled components:

* Test numbers on staging; who may call what; texts, logs and mail; `balance_before` and
  `balance_after`, which no decision reads.
* `BudgetLedger`: the number of transactions behind one batch charge; the fee table (it is in `Fees`).
* `WalletCashin`: the Aman branch of the view, which is in `AmanCashout`; the serializer's format
  checks.  A row that an inquiry fails keeps its status code here, where the code writes back the one it
  loaded (`disbursement/tasks.py:508-511`); a failed row's code is read by nothing modelled.
* The bulk task's loop over the transfers of bank documents that go over EBC
  (`disbursement/tasks.py:290-308`) is in no module: `BankTransfers` has what becomes of a transfer once
  its rows exist and it is sent, but not a second delivery of that loop, which sends the rows again.
* `BankTransfers`: time is only the windows a row has outlived; the remaining amounts deducted for one
  client; two rows created by a crash between the copy and its mark are one newest row here, as they
  are for the tasks.
* Inspection of the active tasks is taken at its word: that an active task is on the one worker
  named by the environment, and that a woken task sees all others.
* `BulkDisbursement`: Aman recipients (in `AmanCashout`), clients without a budget, and the fee
  totals.  The debit of an e-wallet record precedes its save, the debit of an instant transaction
  follows it, so a document is not an implementation of `PayoutContract`.  Reports and answers are about
  records the provider has decided; an unknown id that is reported failed, which changes nothing, is
  not among them.
* `DocWorkflow`: edits of a file's category and of the levels while documents are under way; the
  legacy file format; the client's state and the budget check of `can_user_disburse`, which can only
  refuse; what the bulk task does with a document, which is `BulkDisbursement`.  The job takes up one
  original at a time, where the code works off a list it selected once (`data/tasks.py:2211-2213`), and
  inserts the status row and the records of a copy in one step.
* `AmanCashout`: Accept's authentication step, which has no effect that lasts.  The save of an instant
  row's balances after its debit (`aman/instant_cashin.py:187-189`) is left out; a payment notice loads
  its record when it arrives and not after the client's callback (229-238), so the copy it saves is at
  least as old as the code's.
* `SheetCharges`: the flag that suspends a client; edits of `FeeSetup` between check and debit; the
  exceptions the card processor swallows; the error sheet, whose accounts are shifted by a row.

## 7. Plan

Done: the budget, cash-ins, bank transfers, bulk disbursement, documents, Aman and fees, each with
its runs; the safety of all of them proved; three contracts (a cash-in, a transfer, a document) with
proofs that they are implemented.  Left, in the order of what each would add:

1. `DocWorkflow` and `BulkDisbursement` composed: a document that is handed over twice, together with
   the deliveries of its task and its callbacks, so that the count of `DebitedAsTold` is in terms of
   requests of checkers; and the bulk task's loop over bank documents composed with `BankTransfers`.
2. A contract of a record of a document, debited before its save or after, void after a second
   verdict, for `BulkDisbursement`; `DebitedAsTold` and `RecordInv` are most of its proof.
3. The steps that lead to `AcceptedIsSettled` and the others as safety lemmas (what each fair action
   does when it is taken), so that only the fairness argument itself rests on the runs.
4. Edits of levels and categories while a document is under review.
