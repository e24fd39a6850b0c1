---------------------------- MODULE WalletCashin ----------------------------
(***************************************************************************)
(* Instant cash-in to a wallet: the API request that validates, records,   *)
(* posts and settles one transaction, the provider that pays it, and the   *)
(* two reconcilers that later settle what the request left open: the       *)
(* background inquiry over U and P rows, and the report of the provider    *)
(* that an administrator uploads for the timeouts 501 and 6005.            *)
(*                                                                         *)
(* A row is saved whole from a Python instance; nothing locks it, and a    *)
(* reconciler works through the rows it selected at the start of its run   *)
(* without looking at them again.                                          *)
(***************************************************************************)
EXTENDS Budget, FiniteSets

CONSTANTS
  Trx,            \* the requests clients make
  Amount,         \* the amount of each
  Refs, NoRef,    \* the client_reference_ids in use; a request may have none
  NoTrx,          \* no transaction in hand
  Polled,         \* those of Vodafone and Etisalat: an inquiry covers them
  Pollers,        \* background inquiry runs that may be active at once
  Reports,        \* report uploads that may be active at once
  InitialBalance,
  MaxFaults       \* TLC bound: processes that die, inquiries that raise

ASSUME WalletAssumption ==
  /\ Amount \in [Trx -> Amounts]
  /\ Polled \subseteq Trx /\ NoTrx \notin Trx
  /\ Pollers \cap Reports = {}
  /\ InitialBalance \in Nat
  /\ MaxFaults \in Nat

Reconcilers == Pollers \cup Reports

VARIABLES
  budget,       \* the client's budget row
  row,          \* per transaction: status and code in the table
  req,          \* per transaction: where its API request is
  ref,          \* per transaction: its client_transaction_reference
  inst,         \* per transaction: the instance the request holds
  provider,     \* per transaction: what the provider has done with it
  rec,          \* per reconciler: its step, what it selected, what it holds
  faults,
  \* history
  charges,      \* per transaction: how often the budget was debited for it
  overlapped,   \* a reconciler selected it while somebody else held it
  lostDebit     \* somebody died between its success and its debit

books == <<charges, overlapped, lostDebit>>
vars  == <<budget, row, req, ref, inst, provider, rec, faults, books>>

Row(status, code) == [status |-> status, code |-> code]
NoRow == Row("none", "none")

\* after its row exists, and before the response
Active == {"created", "sent", "marked", "closing"}
Ended  == {"rejected", "done", "dead"}

Run(pc, todo, at, seen) == [pc |-> pc, todo |-> todo, at |-> at, seen |-> seen]
Idle == Run("idle", {}, NoTrx, {})

Holds(r, t) == t \in rec[r].todo \/ t = rec[r].at
Held(t) == req[t] \in Active \/ \E r \in Reconcilers : Holds(r, t)

Init ==
  /\ budget = Opened(InitialBalance)
  /\ row = [t \in Trx |-> NoRow]
  /\ req = [t \in Trx |-> "idle"]
  /\ ref = [t \in Trx |-> NoRef]
  /\ inst = [t \in Trx |-> NoRow]
  /\ provider = [t \in Trx |-> "none"]
  /\ rec = [r \in Reconcilers |-> Idle]
  /\ faults = 0
  /\ charges = [t \in Trx |-> 0]
  /\ overlapped = [t \in Trx |-> FALSE]
  /\ lostDebit = [t \in Trx |-> FALSE]

-----------------------------------------------------------------------------
(* The request: InstantDisbursementAPIView.post *)

RefTaken(c) == c # NoRef /\ \E u \in Trx : row[u].status # "none" /\ ref[u] = c

\* The serializer looks the client reference up, the view loads the budget and
\* compares; either refusal ends the request with 400 and no row.  The lookup is
\* in the table of the bank transactions for the issuers that are not Polled.
Validate(t) ==
  /\ req[t] = "idle"
  /\ \E c \in Refs \cup {NoRef} :
       IF (t \in Polled => ~RefTaken(c)) /\ WithinThreshold(budget, Amount[t])
         THEN /\ req' = [req EXCEPT ![t] = "validated"]
              /\ ref' = [ref EXCEPT ![t] = c]
         ELSE /\ req' = [req EXCEPT ![t] = "rejected"]
              /\ UNCHANGED ref
  /\ UNCHANGED <<budget, row, inst, provider, rec, faults, books>>

\* A plausible slip: the serializer's check is trusted and the column not unique.
CreateRowAnyRef(t) ==
  /\ req[t] = "validated"
  /\ req'  = [req EXCEPT ![t] = "created"]
  /\ row'  = [row EXCEPT ![t] = Row("P", "none")]
  /\ inst' = [inst EXCEPT ![t] = Row("P", "none")]
  /\ UNCHANGED <<budget, ref, provider, rec, faults, books>>

\* The unique column refuses a reference another request has used meanwhile;
\* that request ends with 500 and no row.
CreateRow(t) ==
  /\ req[t] = "validated"
  /\ IF RefTaken(ref[t])
       THEN /\ req' = [req EXCEPT ![t] = "rejected"]
            /\ UNCHANGED <<row, inst>>
       ELSE /\ req'  = [req EXCEPT ![t] = "created"]
            /\ row'  = [row EXCEPT ![t] = Row("P", "none")]
            /\ inst' = [inst EXCEPT ![t] = Row("P", "none")]
  /\ UNCHANGED <<budget, ref, provider, rec, faults, books>>

\* A plausible slip: an update of the table that leaves the instance behind.
MarkRowOnly(t, status, code, next) ==
  /\ row'  = [row EXCEPT ![t] = Row(status, code)]
  /\ req'  = [req EXCEPT ![t] = next]
  /\ UNCHANGED <<budget, inst, provider, rec, faults, books, ref>>

\* mark_successful, mark_unknown, mark_failed: the instance is changed and saved
Mark(t, status, code, next) ==
  /\ inst' = [inst EXCEPT ![t] = Row(status, code)]
  /\ row'  = [row EXCEPT ![t] = Row(status, code)]
  /\ req'  = [req EXCEPT ![t] = next]
  /\ UNCHANGED <<budget, provider, rec, faults, books, ref>>

\* Something raised between the row and the post (no PIN, no agent).
InternalError(t) == req[t] = "created" /\ Mark(t, "F", "500", "closing")

\* The payload leaves for the provider; it may never arrive.
Post(t) ==
  /\ req[t] = "created"
  /\ req' = [req EXCEPT ![t] = "sent"]
  /\ provider' \in {provider, [provider EXCEPT ![t] = "processing"]}
  /\ UNCHANGED <<budget, row, inst, rec, faults, books, ref>>

\* A plausible slip: the branch without the debit.
AnswerPaidFree(t) ==
  /\ req[t] = "sent" /\ provider[t] = "paid"
  /\ Mark(t, "S", "200", "closing")

\* TXNSTATUS 200
AnswerPaid(t) ==
  /\ req[t] = "sent" /\ provider[t] = "paid"
  /\ Mark(t, "S", "200", "marked")

\* TXNSTATUS 501 or 6005: the provider itself does not know yet
AnswerUnknown(t) ==
  /\ req[t] = "sent" /\ provider[t] # "none"
  /\ Mark(t, "U", "501", "closing")

\* any other TXNSTATUS
AnswerRefused(t) ==
  /\ req[t] = "sent" /\ provider[t] = "refused"
  /\ Mark(t, "F", "provider", "closing")

\* requests.Timeout: whether or not the provider got it or paid it
TimedOut(t) == req[t] = "sent" /\ Mark(t, "U", "408", "closing")

\* connection error, HTTP error or unreadable answer: likewise
ExternalError(t) == req[t] = "sent" /\ Mark(t, "F", "424", "closing")

DebitFor(t) ==
  /\ budget'  = Debited(budget, Amount[t])
  /\ charges' = [charges EXCEPT ![t] = @ + 1]

\* update_disbursed_amount_and_current_balance, after mark_successful
DebitRequest(t) ==
  /\ req[t] = "marked"
  /\ DebitFor(t)
  /\ req' = [req EXCEPT ![t] = "closing"]
  /\ UNCHANGED <<row, inst, provider, rec, faults, overlapped, lostDebit, ref>>

\* The last statement of every branch: balance_before and balance_after are set
\* on the instance and its whole row is saved again, status included.
FinalSave(t) ==
  /\ req[t] = "closing"
  /\ row' = [row EXCEPT ![t] = inst[t]]
  /\ req' = [req EXCEPT ![t] = "done"]
  /\ UNCHANGED <<budget, inst, provider, rec, faults, books, ref>>

\* The worker dies with the request, or the debit raises.
RequestDies(t) ==
  /\ req[t] \in Active
  /\ faults < MaxFaults
  /\ faults' = faults + 1
  /\ lostDebit' = [lostDebit EXCEPT ![t] = @ \/ req[t] = "marked"]
  /\ req' = [req EXCEPT ![t] = "dead"]
  /\ UNCHANGED <<budget, row, inst, provider, rec, charges, overlapped, ref>>

Request(t) ==
  \/ Validate(t) \/ CreateRow(t) \/ InternalError(t) \/ Post(t)
  \/ AnswerPaid(t) \/ AnswerUnknown(t) \/ AnswerRefused(t) \/ TimedOut(t) \/ ExternalError(t)
  \/ DebitRequest(t) \/ FinalSave(t) \/ RequestDies(t)

-----------------------------------------------------------------------------
(* The provider *)

Pays(t) ==
  /\ provider[t] = "processing"
  /\ provider' = [provider EXCEPT ![t] = "paid"]
  /\ UNCHANGED <<budget, row, req, inst, rec, faults, books, ref>>

Refuses(t) ==
  /\ provider[t] = "processing"
  /\ provider' = [provider EXCEPT ![t] = "refused"]
  /\ UNCHANGED <<budget, row, req, inst, rec, faults, books, ref>>

-----------------------------------------------------------------------------
(* The reconcilers *)

\* on to the rest of the run
Loop(r, todo) ==
  rec' = [rec EXCEPT ![r] = IF todo = {} THEN Idle
                            ELSE Run("looping", todo, NoTrx, rec[r].seen)]

\* The queryset is evaluated once; the run iterates over what it returned.
Select(r, rows) ==
  /\ Loop(r, rows)
  /\ overlapped' = [t \in Trx |-> overlapped[t] \/ (t \in rows /\ Held(t))]
  /\ UNCHANGED <<budget, row, req, inst, provider, faults, charges, lostDebit, ref>>


\* status S and code 200, saved; the debit is the next statement
SaveSuccessful(r, t) ==
  /\ row' = [row EXCEPT ![t] = Row("S", "200")]
  /\ rec' = [rec EXCEPT ![r] = Run("debiting", rec[r].todo \ {t}, t, rec[r].seen)]
  /\ UNCHANGED <<budget, req, inst, provider, faults, books, ref>>

SaveFailed(r, t) ==
  /\ row' = [row EXCEPT ![t].status = "F"]
  /\ Loop(r, rec[r].todo \ {t})
  /\ UNCHANGED <<budget, req, inst, provider, faults, books, ref>>

\* Plausible slips: the selection forgets the rows that are still pending, or
\* excludes the failed ones only.
PollSelectUnknown(r) ==
  /\ rec[r].pc = "idle"
  /\ Select(r, {t \in Polled : row[t].status = "U"})
PollSelectUnfailed(r) ==
  /\ rec[r].pc = "idle"
  /\ Select(r, {t \in Polled : row[t].status \notin {"none", "F"}})

\* check_for_etisalat_and_vodafone_unknown_transactions, for one issuer
PollSelect(r) ==
  /\ rec[r].pc = "idle"
  /\ Select(r, {t \in Polled : row[t].status \in {"U", "P"}})

\* A plausible slip: everything the provider does not refuse is successful.
PollInquireOptimistic(r, t) ==
  /\ rec[r].pc = "looping" /\ t \in rec[r].todo
  /\ IF provider[t] = "refused" THEN SaveFailed(r, t) ELSE SaveSuccessful(r, t)

\* One inquiry: the provider's answer and what the loop does with it.
PollInquire(r, t) ==
  /\ rec[r].pc = "looping" /\ t \in rec[r].todo
  /\ \/ provider[t] = "paid" /\ SaveSuccessful(r, t)
     \/ provider[t] = "refused" /\ SaveFailed(r, t)
     \/ /\ provider[t] \in {"none", "processing"}
        /\ Loop(r, rec[r].todo \ {t})
        /\ UNCHANGED <<budget, row, req, inst, provider, faults, books, ref>>

PollDebit(r) ==
  /\ rec[r].pc = "debiting"
  /\ DebitFor(rec[r].at)
  /\ Loop(r, rec[r].todo)
  /\ UNCHANGED <<row, req, inst, provider, faults, overlapped, lostDebit, ref>>

\* The provider's report is written, some time before it is uploaded.
ReportExport(r) ==
  /\ rec[r].pc = "idle"
  /\ rec' = [rec EXCEPT ![r] = Run("exported", {}, NoTrx, {t \in Trx : provider[t] = "paid"})]
  /\ UNCHANGED <<budget, row, req, inst, provider, faults, books, ref>>

\* update_instant_timeouts_from_vodafone_report selects what the provider
\* itself answered 501 or 6005 to; a 408 is not among them.
ReportSelect(r) ==
  /\ rec[r].pc = "exported"
  /\ Select(r, {t \in Trx : row[t] = Row("U", "501")})

\* A plausible slip: whatever the report does not call failed is successful.
ReportRowOptimistic(r, t) ==
  /\ rec[r].pc = "looping" /\ t \in rec[r].todo
  /\ SaveSuccessful(r, t)

\* A row with a successful line in the report, and any other row.
ReportRow(r, t) ==
  /\ rec[r].pc = "looping" /\ t \in rec[r].todo
  /\ IF t \in rec[r].seen THEN SaveSuccessful(r, t) ELSE SaveFailed(r, t)

\* A plausible slip: the row in hand is dropped before its second save.
ReportDebitDropped(r) ==
  /\ rec[r].pc = "debiting"
  /\ DebitFor(rec[r].at)
  /\ rec' = [rec EXCEPT ![r] = Run("resaving", rec[r].todo, NoTrx, rec[r].seen)]
  /\ UNCHANGED <<row, req, inst, provider, faults, overlapped, lostDebit, ref>>

\* the debit of an upload; one more save of its row follows
ReportDebit(r) ==
  /\ rec[r].pc = "debiting"
  /\ DebitFor(rec[r].at)
  /\ rec' = [rec EXCEPT ![r] = Run("resaving", rec[r].todo, rec[r].at, rec[r].seen)]
  /\ UNCHANGED <<row, req, inst, provider, faults, overlapped, lostDebit, ref>>

\* the instance is saved once more, with the balances
ReportResave(r) ==
  /\ rec[r].pc = "resaving"
  /\ row' = [row EXCEPT ![rec[r].at] = Row("S", "200")]
  /\ Loop(r, rec[r].todo)
  /\ UNCHANGED <<budget, req, inst, provider, faults, books, ref>>

\* The worker dies, an inquiry raises (no connection, no JSON) or the debit
\* does: nothing catches it and the rest of the run is dropped.
RunDies(r) ==
  /\ rec[r].pc \in {"looping", "debiting", "resaving"}
  /\ faults < MaxFaults
  /\ faults' = faults + 1
  /\ lostDebit' = [t \in Trx |-> lostDebit[t] \/ (rec[r].pc = "debiting" /\ t = rec[r].at)]
  /\ rec' = [rec EXCEPT ![r] = Idle]
  /\ UNCHANGED <<budget, row, req, inst, provider, charges, overlapped, ref>>

Poll(r)   == PollSelect(r) \/ (\E t \in Trx : PollInquire(r, t)) \/ PollDebit(r)
Upload(r) == \/ ReportExport(r) \/ ReportSelect(r) \/ (\E t \in Trx : ReportRow(r, t))
             \/ ReportDebit(r) \/ ReportResave(r)

Step ==
  \/ \E t \in Trx : Request(t) \/ Pays(t) \/ Refuses(t)
  \/ \E r \in Pollers : Poll(r)
  \/ \E r \in Reports : Upload(r)
  \/ \E r \in Reconcilers : RunDies(r)

Spec == Init /\ [][Step]_vars

\* The inquiry is a periodic task, a request that has marked its row and an
\* upload that has selected its rows go on to the end unless they die, and the
\* provider decides eventually.  Nobody has to export or upload a report.
Fairness ==
  /\ \A t \in Trx : WF_vars(DebitRequest(t) \/ FinalSave(t))
  /\ \A t \in Trx : WF_vars(Pays(t) \/ Refuses(t))
  /\ \A r \in Pollers : WF_vars(Poll(r))
  /\ \A r \in Reports :
       WF_vars((\E t \in Trx : ReportRow(r, t)) \/ ReportDebit(r) \/ ReportResave(r))
FairSpec == Spec /\ Fairness

-----------------------------------------------------------------------------
(* Properties *)

\* Shapes of the rows, the requests and the runs.
Rows == [status : {"none", "P", "S", "F", "U"},
         code : {"none", "200", "408", "424", "500", "501", "provider"}]
TypeOK ==
  /\ budget \in BudgetRow
  /\ row \in [Trx -> Rows] /\ inst \in [Trx -> Rows]
  /\ ref \in [Trx -> Refs \cup {NoRef}]
  /\ req \in [Trx -> {"idle", "validated"} \cup Active \cup Ended]
  /\ provider \in [Trx -> {"none", "processing", "paid", "refused"}]
  /\ rec \in [Reconcilers ->
              [pc : {"idle", "exported", "looping", "debiting", "resaving"},
               todo : SUBSET Trx, at : Trx \cup {NoTrx}, seen : SUBSET Trx]]
  /\ \A r \in Reconcilers : (rec[r].at \in Trx) = (rec[r].pc \in {"debiting", "resaving"})
  /\ faults \in 0..MaxFaults
  /\ charges \in [Trx -> Nat]
  /\ overlapped \in [Trx -> BOOLEAN] /\ lostDebit \in [Trx -> BOOLEAN]

\* The client's budget is never debited for a transaction the provider did not
\* pay: not by the request, nor by an inquiry, nor from a report written
\* before the run that uses it.
NoChargeWithoutPayout == \A t \in Trx : charges[t] > 0 => provider[t] = "paid"

\* A transaction is debited at most once unless some reconciler selected it
\* while its request, or another reconciler, still had it in hand: dead
\* requests, aborted runs and late reports never debit it again.
ChargedOnceUnlessOverlapped ==
  \A t \in Trx : ~overlapped[t] => charges[t] <= 1

AboutToDebit(t) ==
  \/ req[t] = "marked"
  \/ \E r \in Reconcilers : rec[r].pc = "debiting" /\ rec[r].at = t

\* A transaction reported successful has been debited, is about to be, or its
\* debit died with the process that saved the status.
SuccessfulIsCharged ==
  \A t \in Trx : row[t].status = "S" /\ ~overlapped[t] =>
    charges[t] = 1 \/ AboutToDebit(t) \/ lostDebit[t]

\* A client that repeats a request with the same client_reference_id, however
\* the two interleave, is paid for one of them at most.
OnePayoutPerReference ==
  \A t, u \in Trx :
    t # u /\ ref[t] = ref[u] /\ ref[t] # NoRef
      => ~(provider[t] = "paid" /\ provider[u] = "paid")

\* A final status is final: without an overlap no step, the trailing whole-row
\* saves included, takes a transaction back from successful or failed.
FinalStatusKept ==
  [][\A t \in Trx : row[t].status \in {"S", "F"} /\ ~overlapped'[t]
       => row'[t].status = row[t].status]_vars

\* A timed-out, unknown or abandoned transaction that reached the provider and
\* is covered by the inquiry does not stay open: it fails, it is debited, or
\* its debit was lost to a crash.
OpenIsSettled ==
  \A t \in Polled :
    (row[t].status \in {"U", "P"} /\ provider[t] # "none")
      ~> (row[t].status = "F" \/ charges[t] > 0 \/ lostDebit[t])

Outcome(t) ==
  IF overlapped[t] THEN "void"
  ELSE CASE row[t].status = "S" -> "successful"
         [] row[t].status = "F" -> "failed"
         [] OTHER -> "open"

Promise == INSTANCE PayoutContract
             WITH payout <- provider, outcome <- [t \in Trx |-> Outcome(t)], debits <- charges

\* The request and the reconcilers together keep the payout contract: every one
\* of their steps is one of its steps or invisible to the client.
Contract == Promise!Spec

\* "Update the total disbursement amount and the current balance after each
\* successful transaction": one successful transaction, one update.
ChargedOnce == \A t \in Trx : charges[t] <= 1
=============================================================================
