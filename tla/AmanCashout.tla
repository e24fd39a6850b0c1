---------------------------- MODULE AmanCashout ----------------------------
(***************************************************************************)
(* Cash-outs over Aman.  Accept is asked for a bill whose reference the    *)
(* recipient is sent, to be paid out at a branch; it tells this system so  *)
(* by a callback.  Until then an administrator may cancel: Accept voids    *)
(* the bill, and the budget gets the amount back.                          *)
(*                                                                         *)
(* A record of an e-wallet document is debited, saved with the reference,  *)
(* and given its AmanTransaction, in this order, for every delivery of the *)
(* bulk task; an instant transaction is saved, given its AmanTransaction,  *)
(* and debited.  Only the former can be cancelled.                         *)
(***************************************************************************)
EXTENDS Naturals, FiniteSets

CONSTANTS
  Records, Instant,    \* what is cashed out; the instant transactions of these
  Attempts, RecordOf,  \* passes of the bulk task, or of the request, over one
  Cancels, Notices,    \* cancellations, deliveries of Accept's callback
  NoRecord, NoBill,
  MaxFaults            \* TLC bound: processes that die, statements that raise

ASSUME AmanAssumption ==
  /\ Instant \subseteq Records
  /\ RecordOf \in [Attempts -> Records]
  /\ IsFiniteSet(Attempts)
  /\ NoRecord \notin Records /\ NoBill \notin Attempts
  /\ MaxFaults \in Nat

VARIABLES
  bill,     \* per attempt: the bill it opened at Accept
  row,      \* per record: its status and reference_id
  aman,     \* per attempt: the AmanTransaction it created
  first,    \* per record: the first of its AmanTransactions, aman_obj.first()
  attempt,  \* per attempt: its step
  cancel,   \* per cancellation: its step, its bill, what it loaded
  notice,   \* per callback: its step, the row it loaded
  faults,
  \* history
  debits, credits,   \* per record
  cut                \* per record: somebody stopped, or an answer got lost, at it

books == <<debits, credits, cut>>
vars  == <<bill, row, aman, first, attempt, cancel, notice, faults, books>>

Row(status, reference) == [status |-> status, reference |-> reference]
Open == Row("open", NoBill)

\* bill: the reference is that of the attempt's bill, not the record's own id
NoAman == [exists |-> FALSE, bill |-> FALSE, paid |-> FALSE, cancelled |-> FALSE]

NoCancel == [pc |-> "idle", bill |-> NoBill, record |-> NoRecord, row |-> Open, aman |-> NoAman]
NoNotice == [pc |-> "idle", record |-> NoRecord, row |-> Open]

Init ==
  /\ bill = [k \in Attempts |-> "none"]
  /\ row = [r \in Records |-> Open]
  /\ aman = [k \in Attempts |-> NoAman]
  /\ first = [r \in Records |-> NoBill]
  /\ attempt = [k \in Attempts |-> "idle"]
  /\ cancel = [u \in Cancels |-> NoCancel]
  /\ notice = [n \in Notices |-> NoNotice]
  /\ faults = 0
  /\ debits = [r \in Records |-> 0] /\ credits = [r \in Records |-> 0]
  /\ cut = [r \in Records |-> FALSE]

Step(k, from, to)  == attempt[k] = from /\ attempt' = [attempt EXCEPT ![k] = to]
Write(r, status, reference) == row' = [row EXCEPT ![r] = Row(status, reference)]
Cut(r)    == cut' = [cut EXCEPT ![r] = TRUE]
Fault     == faults < MaxFaults /\ faults' = faults + 1
Bulk(k)   == RecordOf[k] \notin Instant

-----------------------------------------------------------------------------
(* An attempt *)

Start(k) ==
  /\ Step(k, "idle", "ordering")
  /\ UNCHANGED <<bill, row, aman, first, cancel, notice, faults, books>>

\* No token, no order or no payment key: the exception fails the attempt.
Refused(k) ==
  /\ Step(k, "ordering", "failing")
  /\ UNCHANGED <<bill, row, aman, first, cancel, notice, faults, books>>

\* A plausible slip: a record is saved without having been debited.
OpenedUndebited(k) ==
  /\ Step(k, "ordering", "saving")
  /\ bill' = [bill EXCEPT ![k] = "open"]
  /\ UNCHANGED <<row, aman, first, cancel, notice, faults, books>>

\* The pay request is answered with the reference of a bill that is pending: a
\* record is debited next, an instant transaction saved.
Opened(k) ==
  /\ Step(k, "ordering", IF Bulk(k) THEN "debiting" ELSE "saving")
  /\ bill' = [bill EXCEPT ![k] = "open"]
  /\ UNCHANGED <<row, aman, first, cancel, notice, faults, books>>

\* The answer gets lost, and the attempt fails, with a bill at Accept.
OpenedUnheard(k) ==
  /\ Step(k, "ordering", "failing")
  /\ Fault
  /\ bill' = [bill EXCEPT ![k] = "open"]
  /\ Cut(RecordOf[k])
  /\ UNCHANGED <<row, aman, first, cancel, notice, debits, credits>>

\* An answer without a pending bill: an instant transaction fails; the bulk task
\* looks for a reference that is not there, and leaves the record alone.
NotPending(k) ==
  /\ Step(k, "ordering", "done")
  /\ IF Bulk(k) THEN UNCHANGED row ELSE Write(RecordOf[k], "failed", NoBill)
  /\ UNCHANGED <<bill, aman, first, cancel, notice, faults, books>>

Debit(k) ==
  /\ Step(k, "debiting", IF Bulk(k) THEN "saving" ELSE "done")
  /\ debits' = [debits EXCEPT ![RecordOf[k]] = @ + 1]
  /\ UNCHANGED <<bill, row, aman, first, cancel, notice, faults, credits, cut>>

\* A plausible slip: the reference is saved, the status is not.
SaveReference(k) ==
  /\ Step(k, "saving", "creating")
  /\ Write(RecordOf[k], row[RecordOf[k]].status, k)
  /\ UNCHANGED <<bill, aman, first, cancel, notice, faults, books>>

Save(k) ==
  /\ Step(k, "saving", "creating")
  /\ Write(RecordOf[k], "successful", k)
  /\ UNCHANGED <<bill, aman, first, cancel, notice, faults, books>>

\* A record that failed gets an AmanTransaction too, with its id for a reference.
SaveFailed(k) ==
  /\ Step(k, "failing", IF Bulk(k) THEN "creating failed" ELSE "done")
  /\ Write(RecordOf[k], "failed", NoBill)
  /\ UNCHANGED <<bill, aman, first, cancel, notice, faults, books>>

Create(k) ==
  LET r == RecordOf[k]
  IN /\ \/ Step(k, "creating", IF Bulk(k) THEN "done" ELSE "debiting")
        \/ Step(k, "creating failed", "done")
     /\ aman' = [aman EXCEPT ![k] = [NoAman EXCEPT !.exists = TRUE, !.bill = attempt[k] = "creating"]]
     /\ first' = [first EXCEPT ![r] = IF @ = NoBill THEN k ELSE @]
     /\ UNCHANGED <<bill, row, cancel, notice, faults, books>>

\* The process dies, or a statement raises: the bulk task goes on to the next
\* record; the request marks its transaction failed, debited or not.
Stops(k) ==
  /\ attempt[k] \notin {"idle", "done"}
  /\ Fault
  /\ attempt' = [attempt EXCEPT ![k] = "done"]
  /\ \/ UNCHANGED row
     \/ ~Bulk(k) /\ Write(RecordOf[k], "failed", row[RecordOf[k]].reference)
  /\ Cut(RecordOf[k])
  /\ UNCHANGED <<bill, aman, first, cancel, notice, debits, credits>>

Attempt(k) ==
  \/ Start(k) \/ Refused(k) \/ Opened(k) \/ OpenedUnheard(k) \/ NotPending(k) \/ Debit(k)
  \/ Save(k) \/ SaveFailed(k) \/ Create(k) \/ Stops(k)

-----------------------------------------------------------------------------
(* Accept, and its callback: notify_merchant *)

Pay(k) ==
  /\ bill[k] = "open"
  /\ bill' = [bill EXCEPT ![k] = "paid"]
  /\ UNCHANGED <<row, aman, first, attempt, cancel, notice, faults, books>>

\* is_paid by the reference; a bill without a row here yet is told in vain
Heard(n, k) ==
  /\ notice[n].pc = "idle"
  /\ bill[k] = "paid" /\ aman[k].exists /\ aman[k].bill
  /\ aman' = [aman EXCEPT ![k].paid = TRUE]
  /\ notice' = [notice EXCEPT ![n] = [pc |-> "saving", record |-> RecordOf[k],
                                       row |-> row[RecordOf[k]]]]
  /\ UNCHANGED <<bill, row, first, attempt, cancel, faults, books>>

\* the whole record, to have its updated_at edited
Resave(n) ==
  /\ notice[n].pc = "saving"
  /\ row' = [row EXCEPT ![notice[n].record] = notice[n].row]
  /\ notice' = [notice EXCEPT ![n] = [NoNotice EXCEPT !.pc = "done"]]
  /\ UNCHANGED <<bill, aman, first, attempt, cancel, faults, books>>

-----------------------------------------------------------------------------
(* CancelAmanTransactionView *)

\* A plausible slip: what has no AmanTransaction yet is offered too.
OfferAny(u, r) ==
  /\ cancel[u].pc = "idle"
  /\ r \notin Instant /\ row[r].status = "successful"
  /\ cancel' = [cancel EXCEPT ![u] = [NoCancel EXCEPT !.pc = "offered", !.bill = row[r].reference]]
  /\ UNCHANGED <<bill, row, aman, first, attempt, notice, faults, books>>

\* The page offers to cancel what it shows as successful, unpaid, not cancelled.
Offer(u, r) ==
  /\ cancel[u].pc = "idle"
  /\ r \notin Instant /\ row[r].status = "successful"
  /\ first[r] # NoBill /\ ~aman[first[r]].paid /\ ~aman[first[r]].cancelled
  /\ cancel' = [cancel EXCEPT ![u] = [NoCancel EXCEPT !.pc = "offered", !.bill = row[r].reference]]
  /\ UNCHANGED <<bill, row, aman, first, attempt, notice, faults, books>>

\* A plausible slip: nobody looks at Accept's answer.
VoidUnchecked(u) ==
  LET k == cancel[u].bill
  IN /\ cancel[u].pc = "offered"
     /\ bill' = [bill EXCEPT ![k] = IF @ = "open" THEN "voided" ELSE @]
     /\ cancel' = [cancel EXCEPT ![u].pc = "voided"]
     /\ UNCHANGED <<row, aman, first, attempt, notice, faults, books>>

\* Accept voids a bill that is open, and answers whether it did.
Void(u) ==
  LET k == cancel[u].bill
  IN /\ cancel[u].pc = "offered"
     /\ IF bill[k] = "open"
          THEN /\ bill' = [bill EXCEPT ![k] = "voided"]
               /\ cancel' = [cancel EXCEPT ![u].pc = "voided"]
          ELSE /\ cancel' = [cancel EXCEPT ![u] = [NoCancel EXCEPT !.pc = "done"]]
               /\ UNCHANGED bill
     /\ UNCHANGED <<row, aman, first, attempt, notice, faults, books>>

\* The record is looked up by the reference, and its first AmanTransaction; a
\* record that has got another reference since is not found.
LoadCancelled(u) ==
  LET k == cancel[u].bill  r == RecordOf[k]
  IN /\ cancel[u].pc = "voided"
     /\ IF row[r].reference = k
          THEN /\ cancel' = [cancel EXCEPT ![u] = [pc |-> "marking", bill |-> k, record |-> r,
                                row |-> row[r], aman |-> aman[first[r]]]]
               /\ UNCHANGED cut
          ELSE /\ cancel' = [cancel EXCEPT ![u] = [NoCancel EXCEPT !.pc = "done"]]
               /\ Cut(r)
     /\ UNCHANGED <<bill, row, aman, first, attempt, notice, faults, debits, credits>>

SaveCancelled(u) ==
  /\ cancel[u].pc = "marking"
  /\ aman' = [aman EXCEPT ![first[cancel[u].record]] = [cancel[u].aman EXCEPT !.cancelled = TRUE]]
  /\ cancel' = [cancel EXCEPT ![u].pc = "crediting"]
  /\ UNCHANGED <<bill, row, first, attempt, notice, faults, books>>

Credit(u) ==
  /\ cancel[u].pc = "crediting"
  /\ credits' = [credits EXCEPT ![cancel[u].record] = @ + 1]
  /\ cancel' = [cancel EXCEPT ![u].pc = "saving"]
  /\ UNCHANGED <<bill, row, aman, first, attempt, notice, faults, debits, cut>>

\* the balances, in the whole record
SaveBalances(u) ==
  /\ cancel[u].pc = "saving"
  /\ row' = [row EXCEPT ![cancel[u].record] = cancel[u].row]
  /\ cancel' = [cancel EXCEPT ![u] = [NoCancel EXCEPT !.pc = "done"]]
  /\ UNCHANGED <<bill, aman, first, attempt, notice, faults, books>>

\* The request dies, raises, or does not get Accept's answer.
CancelDies(u) ==
  /\ cancel[u].pc \in {"voided", "marking", "crediting", "saving"}
  /\ Fault
  /\ Cut(RecordOf[cancel[u].bill])
  /\ cancel' = [cancel EXCEPT ![u] = [NoCancel EXCEPT !.pc = "done"]]
  /\ UNCHANGED <<bill, row, aman, first, attempt, notice, debits, credits>>

Cancel(u) ==
  \/ (\E r \in Records : Offer(u, r)) \/ Void(u) \/ LoadCancelled(u) \/ SaveCancelled(u)
  \/ Credit(u) \/ SaveBalances(u) \/ CancelDies(u)

Next ==
  \/ \E k \in Attempts : Attempt(k) \/ Pay(k) \/ \E n \in Notices : Heard(n, k)
  \/ \E n \in Notices : Resave(n)
  \/ \E u \in Cancels : Cancel(u)

Spec == Init /\ [][Next]_vars

-----------------------------------------------------------------------------
(* Properties *)

Rows == [status : {"open", "successful", "failed"}, reference : Attempts \cup {NoBill}]
AmanRows == [exists : BOOLEAN, bill : BOOLEAN, paid : BOOLEAN, cancelled : BOOLEAN]
AttemptSteps == {"idle", "ordering", "debiting", "saving", "creating", "creating failed",
                 "failing", "done"}
CancelStates ==
  [pc : {"idle", "offered", "voided", "marking", "crediting", "saving", "done"},
   bill : Attempts \cup {NoBill}, record : Records \cup {NoRecord}, row : Rows, aman : AmanRows]
NoticeStates ==
  [pc : {"idle", "saving", "done"}, record : Records \cup {NoRecord}, row : Rows]

\* A cancellation past its offer knows its bill; past the void, the record, which
\* has its first AmanTransaction.
CancelOK(c) ==
  /\ c.pc \notin {"idle", "done"} => c.bill \in Attempts /\ first[RecordOf[c.bill]] \in Attempts
  /\ c.pc \in {"marking", "crediting", "saving"} => c.record = RecordOf[c.bill]

\* Shapes of the rows and of the requests.
TypeOK ==
  /\ bill \in [Attempts -> {"none", "open", "paid", "voided"}]
  /\ row \in [Records -> Rows]
  /\ aman \in [Attempts -> AmanRows]
  /\ first \in [Records -> Attempts \cup {NoBill}]
  /\ attempt \in [Attempts -> AttemptSteps]
  /\ cancel \in [Cancels -> CancelStates] /\ \A u \in Cancels : CancelOK(cancel[u])
  /\ notice \in [Notices -> NoticeStates]
  /\ \A n \in Notices : notice[n].pc = "saving" => notice[n].record \in Records
  /\ faults \in 0..MaxFaults
  /\ debits \in [Records -> Nat] /\ credits \in [Records -> Nat] /\ cut \in [Records -> BOOLEAN]

AttemptsAt(r)     == {k \in Attempts : RecordOf[k] = r}
Bills(r, states)  == {k \in AttemptsAt(r) : bill[k] \in states}

AtRest(r) ==
  /\ \A k \in AttemptsAt(r) : attempt[k] \in {"idle", "done"}
  /\ \A u \in Cancels : cancel[u].bill \in AttemptsAt(r) => cancel[u].pc = "offered"

\* Whatever is cancelled again, from stale pages, while the bulk task is still at
\* the record or handles it a second time: the budget gets nothing back but for a
\* bill that was voided, and nothing is voided that was not debited.
CreditsCovered ==
  \A r \in Records :
    /\ credits[r] <= Cardinality(Bills(r, {"voided"}))
    /\ Cardinality(Bills(r, {"voided"})) <= debits[r]

\* Once nobody is at a record, and nobody stopped half-way, the budget has paid
\* for exactly the bills that are paid or may still be, of all attempts at it.
BooksAgree ==
  \A r \in Records :
    AtRest(r) /\ ~cut[r] => debits[r] = credits[r] + Cardinality(Bills(r, {"open", "paid"}))

Once(r) == Cardinality({k \in AttemptsAt(r) : attempt[k] # "idle"}) <= 1

\* What the page shows is what Accept has, for a record or transaction that was
\* handled once: one shown as cancelled will not be paid out, and, if nobody
\* stopped half-way, one is shown as successful exactly if there is a bill for it.
\* (The flag is that of the first attempt, the void that of the last: after two,
\* the page hides that a bill is open.)
ShownAsBilled ==
  \A r \in Records : Once(r) =>
    /\ \A k \in AttemptsAt(r) : aman[k].cancelled => bill[k] = "voided"
    /\ AtRest(r) /\ ~cut[r] =>
         (row[r].status = "successful" <=> Bills(r, {"open", "paid", "voided"}) # {})
=============================================================================
