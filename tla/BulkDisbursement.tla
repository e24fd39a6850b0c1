-------------------------- MODULE BulkDisbursement --------------------------
(***************************************************************************)
(* The disbursement of documents: the API that hands a document to the     *)
(* bulk task, the task that posts its records to the wallet provider one   *)
(* by one, and the two others that put the provider's verdict on record:   *)
(* its callback and the inquiry about documents whose callback is late.    *)
(*                                                                         *)
(* The records of an e-wallet document are DisbursementData, debited       *)
(* before they are saved; those of a bank wallet document that goes over   *)
(* the wallet provider (Deposits) are InstantTransactions, saved           *)
(* successful before they are debited.  Nobody looks at what is on record  *)
(* before acting on a verdict.                                             *)
(***************************************************************************)
EXTENDS FiniteSums, Naturals, FiniteSets, Sequences

CONSTANTS
  Docs, Records,
  DocOf,         \* the document of each record
  Etisalat,      \* records that are posted in the first round of a run
  Deposits,      \* records of bank wallet documents
  ViaVodafone,   \* settings.ETISALAT_ISSUER = "VODAFONE"
  Runs,          \* deliveries of the bulk task
  Callbacks,     \* deliveries of the provider's callback
  Inquiries,     \* runs of the late-callback task
  NoDoc, NoRecord, Unknown,
  MaxList,       \* TLC bound: entries of a report
  MaxDeliveries, \* TLC bound: tasks, callbacks and inquiries in all
  MaxFaults      \* TLC bound: processes that die, statements that raise

ASSUME BulkAssumption ==
  /\ IsFiniteSet(Runs) /\ IsFiniteSet(Callbacks) /\ IsFiniteSet(Inquiries)
  /\ DocOf \in [Records -> Docs]
  /\ Etisalat \subseteq Records /\ Deposits \subseteq Records
  /\ Etisalat \cap Deposits = {}
  /\ \A r, s \in Records : DocOf[r] = DocOf[s] => (r \in Deposits <=> s \in Deposits)
  /\ ViaVodafone \in BOOLEAN
  /\ NoDoc \notin Docs /\ NoRecord \notin Records /\ Unknown \notin Records
  /\ MaxList \in Nat /\ MaxDeliveries \in Nat /\ MaxFaults \in Nat

VARIABLES
  txn,       \* per document: doc_status and has_callback of its DisbursementDocData
  record,    \* per record: what the table says of it
  provider,  \* per record: what has become of the last post the provider took
  run,       \* per bulk task: the API request that queued it, and its own step
  callback,  \* per callback: its step, the entries it has still to apply
  inquiry,   \* per late inquiry: its step, the documents and entries to go
  faults,
  \* history
  paidOut,   \* per record: the provider has paid it, once at least
  debits,    \* per record: how often a budget was debited for it
  payers,    \* per record: the documents whose budgets those were
  told,      \* per record: verdicts on it that were acted on, 2 for several
  wins,      \* per record: how many of them said that it was paid
  cut,       \* per record: a process died or raised with it in hand
  undone     \* per document: the API took its callback flag back

ledger == <<debits, payers>>
heard  == <<told, wins>>
books  == <<paidOut, ledger, heard, cut, undone>>
vars  == <<txn, record, provider, run, callback, inquiry, faults, books>>

Of(d)      == {r \in Records : DocOf[r] = d}
Deposit(d) == \E r \in Of(d) : r \in Deposits

FirstRound(d)  == Of(d) \cap (Etisalat \cup Deposits)
SecondRound(d) == Of(d) \ (Etisalat \cup Deposits)

\* api: the request that queued the task; copy: the has_callback it loaded;
\* round, todo, at: the task's place; will: the verdict it is about to save;
\* seen: the deposits as the task loaded them
NoRun == [api |-> "none", copy |-> FALSE, doc |-> NoDoc, pc |-> "none", round |-> 1,
          todo |-> {}, at |-> NoRecord, will |-> "open", seen |-> [r \in Deposits |-> "open"]]

\* what is still to be applied, the running total that is to be debited when all
\* is (how often it holds a record's amount), the document of the entry applied
\* last, and of the last that was paid
NonePaid   == [r \in Records |-> 0]
NoCallback == [pc |-> "idle", todo |-> <<>>, paid |-> NonePaid, doc |-> NoDoc, win |-> NoDoc]
NoInquiry  == [pc |-> "idle", docs |-> {}, doc |-> NoDoc, todo |-> <<>>, paid |-> NonePaid]

Init ==
  /\ txn = [d \in Docs |-> [status |-> "processed", has_callback |-> FALSE]]
  /\ record = [r \in Records |-> "open"]
  /\ provider = [r \in Records |-> "none"]
  /\ run = [k \in Runs |-> NoRun]
  /\ callback = [c \in Callbacks |-> NoCallback]
  /\ inquiry = [q \in Inquiries |-> NoInquiry]
  /\ faults = 0
  /\ paidOut = [r \in Records |-> FALSE] /\ debits = [r \in Records |-> 0]
  /\ payers = [r \in Records |-> {}]
  /\ told = [r \in Records |-> 0] /\ wins = [r \in Records |-> 0]
  /\ cut = [r \in Records |-> FALSE] /\ undone = [d \in Docs |-> FALSE]

\* where the task, the callback or the inquiry gets to
Go(k, state)      == run' = [run EXCEPT ![k] = state]
Hear(c, state)    == callback' = [callback EXCEPT ![c] = state]
Inquire(q, state) == inquiry' = [inquiry EXCEPT ![q] = state]

Tell(r)  == told' = [told EXCEPT ![r] = IF @ = 0 THEN 1 ELSE 2]
Win(r)   == wins' = [wins EXCEPT ![r] = @ + 1]
CutAll(R) == cut' = [r \in Records |-> cut[r] \/ r \in R]

\* the records a total holds, and its debit to the budget of a document's owner
Paid(total) == {r \in Records : total[r] > 0}
Charge(total, d) ==
  /\ debits' = [r \in Records |-> debits[r] + total[r]]
  /\ payers' = [r \in Records |-> IF r \in Paid(total) THEN payers[r] \cup {d} ELSE payers[r]]
Fault    == faults < MaxFaults /\ faults' = faults + 1

\* so far, and one more
Deliveries == Cardinality({k \in Runs : run[k].api # "none"})
              + Cardinality({c \in Callbacks : callback[c].pc # "idle"})
              + Cardinality({q \in Inquiries : inquiry[q].pc # "idle"})
OneMore == Deliveries < MaxDeliveries

-----------------------------------------------------------------------------
(* DisburseAPIView.post *)

\* The task is queued first ...
Queue(k, d) ==
  /\ run[k].api = "none" /\ OneMore
  /\ Go(k, [run[k] EXCEPT !.api = "queued", !.doc = d, !.pc = "queued"])
  /\ UNCHANGED <<txn, record, provider, callback, inquiry, faults, books>>

\* ... then the document's disbursement_txn is loaded ...
LoadTxn(k) ==
  /\ run[k].api = "queued"
  /\ Go(k, [run[k] EXCEPT !.api = "loaded", !.copy = txn[run[k].doc].has_callback])
  /\ UNCHANGED <<txn, record, provider, callback, inquiry, faults, books>>

\* ... and its whole row saved as disbursed.
MarkDisbursed(k) ==
  /\ run[k].api = "loaded"
  /\ txn' = [txn EXCEPT ![run[k].doc] = [status |-> "disbursed", has_callback |-> run[k].copy]]
  /\ undone' = [undone EXCEPT ![run[k].doc] = @ \/ (txn[run[k].doc].has_callback /\ ~run[k].copy)]
  /\ Go(k, [run[k] EXCEPT !.api = "done", !.copy = FALSE])
  /\ UNCHANGED <<record, provider, callback, inquiry, faults, paidOut, ledger, heard, cut>>

\* The request dies, or one of its saves raises, with the task in the queue.
ApiDies(k) ==
  /\ run[k].api \in {"queued", "loaded"}
  /\ Fault
  /\ Go(k, [run[k] EXCEPT !.api = "done", !.copy = FALSE])
  /\ UNCHANGED <<txn, record, provider, callback, inquiry, books>>

-----------------------------------------------------------------------------
(* BulkDisbursementThroughOneStepCashin *)

Flag(D) == txn' = [d \in Docs |-> IF d \in D THEN [txn[d] EXCEPT !.has_callback = TRUE] ELSE txn[d]]

StartRun(k) ==
  /\ run[k].pc = "queued"
  /\ Go(k, [run[k] EXCEPT !.pc = "posting", !.todo = FirstRound(run[k].doc),
                      !.seen = [r \in Deposits |-> record[r]]])
  /\ UNCHANGED <<txn, record, provider, callback, inquiry, faults, books>>

\* A plausible slip: the flag is forgotten when there is a first round only.
EndFirstRoundUnflagged(k) ==
  /\ run[k].pc = "posting" /\ run[k].round = 1 /\ run[k].todo = {}
  /\ Go(k, [run[k] EXCEPT !.round = 2, !.todo = SecondRound(run[k].doc)])
  /\ UNCHANGED <<txn, record, provider, callback, inquiry, faults, books>>

\* has_callback is set for a bank document, for one without a second round, and
\* already after the first round when that went over Vodafone.
EndFirstRound(k) ==
  LET d == run[k].doc
  IN /\ run[k].pc = "posting" /\ run[k].round = 1 /\ run[k].todo = {}
     /\ Flag(IF \/ Deposit(d)
                \/ FirstRound(d) # {} /\ (ViaVodafone \/ SecondRound(d) = {})
               THEN {d} ELSE {})
     /\ Go(k, [run[k] EXCEPT !.round = 2, !.todo = SecondRound(d)])
     /\ UNCHANGED <<record, provider, callback, inquiry, faults, books>>

EndSecondRound(k) ==
  LET d == run[k].doc
  IN /\ run[k].pc = "posting" /\ run[k].round = 2 /\ run[k].todo = {}
     /\ Flag(IF SecondRound(d) # {} THEN {d} ELSE {})
     /\ Go(k, [run[k] EXCEPT !.pc = "done", !.round = 1, !.seen = NoRun.seen])
     /\ UNCHANGED <<record, provider, callback, inquiry, faults, books>>

\* The payload leaves.  It may not arrive; the uid may or may not keep the
\* provider from working on what it knows already.
Post(k, r) ==
  /\ run[k].pc = "posting" /\ r \in run[k].todo
  /\ Go(k, [run[k] EXCEPT !.pc = "waiting", !.at = r, !.todo = @ \ {r}])
  /\ provider' \in {provider, [provider EXCEPT ![r] = "processing"]}
  /\ UNCHANGED <<txn, record, callback, inquiry, faults, books>>

\* what the record says once the task is through with the verdict it has, and
\* the step that comes next
Decide(k, verdict, pc) ==
  /\ Go(k, [run[k] EXCEPT !.pc = pc, !.will = verdict])
  /\ Tell(run[k].at)

\* A plausible slip: the record in hand is not let go.
NextRecordHeld(k) == Go(k, [run[k] EXCEPT !.pc = "posting", !.will = "open"])

NextRecord(k) == Go(k, [run[k] EXCEPT !.pc = "posting", !.at = NoRecord, !.will = "open"])

\* No answer of any use: CustomRequests swallows the error and returns None.  (It
\* sets no timeout: the post may also never return.)  A wallet record stays as it
\* is; a deposit becomes failed.
NoAnswer(k) ==
  LET r == run[k].at
  IN /\ run[k].pc = "waiting"
     /\ NextRecord(k)
     /\ IF r \in Deposits
          THEN record' = [record EXCEPT ![r] = "failed"] /\ Tell(r)
          ELSE UNCHANGED <<record, told>>
     /\ UNCHANGED <<txn, provider, callback, inquiry, faults, paidOut, ledger, wins, cut, undone>>

\* A plausible slip: the branch of the deposits without its debit.
AnswerPaidFree(k) ==
  LET r == run[k].at
  IN /\ run[k].pc = "waiting" /\ provider[r] = "paid"
     /\ Decide(k, "successful", IF r \in Deposits THEN "saving" ELSE "debiting")
     /\ Win(r)
     /\ record' = IF r \in Deposits THEN [record EXCEPT ![r] = "successful"] ELSE record
     /\ UNCHANGED <<txn, provider, callback, inquiry, faults, paidOut, ledger, cut, undone>>

\* TXNSTATUS 200: the debit comes next, a deposit is marked before it.
AnswerPaid(k) ==
  LET r == run[k].at
  IN /\ run[k].pc = "waiting" /\ provider[r] = "paid"
     /\ Decide(k, "successful", "debiting")
     /\ Win(r)
     /\ record' = IF r \in Deposits THEN [record EXCEPT ![r] = "successful"] ELSE record
     /\ UNCHANGED <<txn, provider, callback, inquiry, faults, paidOut, ledger, cut, undone>>

\* any other TXNSTATUS but 501
AnswerRefused(k) ==
  LET r == run[k].at
  IN /\ run[k].pc = "waiting" /\ provider[r] = "refused"
     /\ Decide(k, "failed", "saving")
     /\ record' = IF r \in Deposits THEN [record EXCEPT ![r] = "failed"] ELSE record
     /\ UNCHANGED <<txn, provider, callback, inquiry, faults, paidOut, ledger, wins, cut, undone>>

\* TXNSTATUS 501: the provider does not know yet.  A wallet record is saved as
\* not disbursed, with the reason it had, and so reads as failed if it had one; a
\* deposit is saved as the task loaded it.
AnswerUnknown(k) ==
  LET r == run[k].at
      verdict == IF r \in Deposits THEN run[k].seen[r]
                 ELSE IF record[r] = "open" THEN "open" ELSE "failed"
  IN /\ run[k].pc = "waiting" /\ provider[r] = "processing"
     /\ Decide(k, verdict, "saving")
     /\ UNCHANGED <<txn, record, provider, callback, inquiry, faults, paidOut, ledger, wins, cut, undone>>

\* update_disbursed_amount_and_current_balance, which commits by itself
Debit(k) ==
  /\ run[k].pc = "debiting"
  /\ Charge([NonePaid EXCEPT ![run[k].at] = 1], DocOf[run[k].at])
  /\ Go(k, [run[k] EXCEPT !.pc = "saving"])
  /\ UNCHANGED <<txn, record, provider, callback, inquiry, faults, paidOut, heard, cut, undone>>

\* A plausible slip: the task forgets to save.
SaveNothing(k) ==
  /\ run[k].pc = "saving"
  /\ NextRecord(k)
  /\ UNCHANGED <<txn, record, provider, callback, inquiry, faults, books>>

\* the whole record, with the verdict
Save(k) ==
  /\ run[k].pc = "saving"
  /\ record' = [record EXCEPT ![run[k].at] = run[k].will]
  /\ NextRecord(k)
  /\ UNCHANGED <<txn, provider, callback, inquiry, faults, books>>

\* The debit or the save raises.  The handler drops a wallet record and marks a
\* deposit failed, debited or not.
Raises(k) ==
  LET r == run[k].at
  IN /\ run[k].pc \in {"debiting", "saving"}
     /\ Fault
     /\ NextRecord(k)
     /\ record' = IF r \in Deposits THEN [record EXCEPT ![r] = "failed"] ELSE record
     /\ CutAll({r})
     /\ UNCHANGED <<txn, provider, callback, inquiry, paidOut, ledger, heard, undone>>

\* The worker dies, or something outside the handlers raises (no agent).
RunDies(k) ==
  /\ run[k].pc \notin {"none", "done", "dead"}
  /\ Fault
  /\ Go(k, [run[k] EXCEPT !.pc = "dead", !.round = 1, !.todo = {},
                      !.at = NoRecord, !.will = "open", !.seen = NoRun.seen])
  /\ CutAll(IF run[k].pc \in {"debiting", "saving"} THEN {run[k].at} ELSE {})
  /\ UNCHANGED <<txn, record, provider, callback, inquiry, paidOut, ledger, heard, undone>>

\* what the task does by itself, and what it waits for
Works(k) ==
  \/ StartRun(k) \/ EndFirstRound(k) \/ EndSecondRound(k) \/ (\E r \in Records : Post(k, r))
  \/ Debit(k) \/ Save(k)
Answered(k) == NoAnswer(k) \/ AnswerPaid(k) \/ AnswerRefused(k) \/ AnswerUnknown(k)
BulkTask(k) == Works(k) \/ Answered(k)

-----------------------------------------------------------------------------
(* The provider *)

Pays(r) ==
  /\ provider[r] = "processing"
  /\ provider' = [provider EXCEPT ![r] = "paid"]
  /\ paidOut' = [paidOut EXCEPT ![r] = TRUE]
  /\ UNCHANGED <<txn, record, run, callback, inquiry, faults, ledger, heard, cut, undone>>

Refuses(r) ==
  /\ provider[r] = "processing"
  /\ provider' = [provider EXCEPT ![r] = "refused"]
  /\ UNCHANGED <<txn, record, run, callback, inquiry, faults, books>>

\* what the provider may report: a list of records, in any order and perhaps with
\* one of them several times, with true verdicts
Decided(R) == {r \in R : provider[r] \in {"paid", "refused"}}
Lists(S)   == UNION {[1..n -> S] : n \in 1..MaxList}
Stranger   == [id |-> Unknown, ok |-> TRUE]
Entry(r)   == IF r = Unknown THEN Stranger ELSE [id |-> r, ok |-> provider[r] = "paid"]
Report(L)  == [i \in DOMAIN L |-> Entry(L[i])]

-----------------------------------------------------------------------------
(* DisburseCallBack.update *)

WalletRecords == Records \ Deposits

\* A callback about some records, perhaps with an id this system does not know;
\* the provider may deliver it again as another member of Callbacks.
Deliver(c) ==
  /\ callback[c].pc = "idle" /\ OneMore
  /\ \E L \in Lists(Decided(WalletRecords) \cup {Unknown}) :
       Hear(c, [callback[c] EXCEPT !.pc = "applying", !.todo = Report(L)])
  /\ UNCHANGED <<txn, record, provider, run, inquiry, faults, books>>

Verdict(e) == IF e.ok THEN "successful" ELSE "failed"
Add(total, e) == IF e.ok THEN [total EXCEPT ![e.id] = @ + 1] ELSE total

\* the record of an entry is updated in place
Update(e) ==
  /\ record' = [record EXCEPT ![e.id] = Verdict(e)]
  /\ Tell(e.id)
  /\ IF e.ok THEN Win(e.id) ELSE UNCHANGED wins

\* A plausible slip: a record that failed is debited with the others.
ApplyAll(c) ==
  /\ callback[c].pc = "applying" /\ callback[c].todo # <<>> /\ Head(callback[c].todo) # Stranger
  /\ LET e == Head(callback[c].todo)
     IN /\ Update(e)
        /\ Hear(c, [callback[c] EXCEPT !.todo = Tail(@), !.paid = [@ EXCEPT ![e.id] = @ + 1],
                        !.doc = DocOf[e.id], !.win = DocOf[e.id]])
  /\ UNCHANGED <<txn, provider, run, inquiry, faults, paidOut, ledger, cut, undone>>

\* The entries in their order; what is paid is added to the total.
Apply(c) ==
  /\ callback[c].pc = "applying" /\ callback[c].todo # <<>> /\ Head(callback[c].todo) # Stranger
  /\ LET e == Head(callback[c].todo)
     IN /\ Update(e)
        /\ Hear(c, [callback[c] EXCEPT !.todo = Tail(@), !.paid = Add(@, e),
                        !.doc = DocOf[e.id], !.win = IF e.ok THEN DocOf[e.id] ELSE @])
  /\ UNCHANGED <<txn, provider, run, inquiry, faults, paidOut, ledger, cut, undone>>

\* An unknown id: 404 at once, after the updates and before the debit.
ApplyUnknown(c) ==
  /\ callback[c].pc = "applying" /\ callback[c].todo # <<>> /\ Head(callback[c].todo) = Stranger
  /\ CutAll(Paid(callback[c].paid))
  /\ Hear(c, [NoCallback EXCEPT !.pc = "done"])
  /\ UNCHANGED <<txn, record, provider, run, inquiry, faults, paidOut, ledger, heard, undone>>

\* One debit for all that was paid, to the budget of the last that was.
DebitCallback(c) ==
  /\ callback[c].pc = "applying" /\ callback[c].todo = <<>>
  /\ Charge(callback[c].paid, callback[c].win)
  /\ Hear(c, [callback[c] EXCEPT !.pc = "flagging", !.paid = NonePaid, !.win = NoDoc])
  /\ UNCHANGED <<txn, record, provider, run, inquiry, faults, paidOut, heard, cut, undone>>

\* has_callback of the document of the record that came last
FlagCallback(c) ==
  /\ callback[c].pc = "flagging"
  /\ Flag({callback[c].doc})
  /\ Hear(c, [NoCallback EXCEPT !.pc = "done"])
  /\ UNCHANGED <<record, provider, run, inquiry, faults, books>>

CallbackDies(c) ==
  /\ callback[c].pc \in {"applying", "flagging"}
  /\ Fault
  /\ CutAll(Paid(callback[c].paid))
  /\ Hear(c, [NoCallback EXCEPT !.pc = "done"])
  /\ UNCHANGED <<txn, record, provider, run, inquiry, paidOut, ledger, heard, undone>>

CallbackStep(c) ==
  \/ Deliver(c) \/ Apply(c) \/ ApplyUnknown(c)
  \/ DebitCallback(c) \/ FlagCallback(c) \/ CallbackDies(c)

-----------------------------------------------------------------------------
(* check_for_late_disbursement_callback *)

Late == {d \in Docs : txn[d] = [status |-> "disbursed", has_callback |-> FALSE]}

\* The rows are loaded once.
Select(q) ==
  /\ inquiry[q].pc = "idle" /\ OneMore
  /\ Late # {}
  /\ Inquire(q, [inquiry[q] EXCEPT !.pc = "asking", !.docs = Late])
  /\ UNCHANGED <<txn, record, provider, run, callback, faults, books>>

\* The provider is asked about the batch of a document.  The API gives every
\* document the batch id 0, so its answer is about the records of any.
Ask(q, d) ==
  /\ inquiry[q].pc = "asking" /\ d \in inquiry[q].docs
  /\ \E L \in Lists(Decided(WalletRecords)) :
       Inquire(q, [inquiry[q] EXCEPT !.pc = "applying", !.docs = @ \ {d}, !.doc = d, !.todo = Report(L)])
  /\ UNCHANGED <<txn, record, provider, run, callback, faults, books>>

\* No connection, or a batch without transactions: on to the next document.
AskInVain(q, d) ==
  /\ inquiry[q].pc = "asking" /\ d \in inquiry[q].docs
  /\ Inquire(q, [inquiry[q] EXCEPT !.docs = @ \ {d}])
  /\ UNCHANGED <<txn, record, provider, run, callback, faults, books>>

ApplyLate(q) ==
  /\ inquiry[q].pc = "applying" /\ inquiry[q].todo # <<>>
  /\ LET e == Head(inquiry[q].todo)
     IN /\ Update(e)
        /\ Inquire(q, [inquiry[q] EXCEPT !.todo = Tail(@), !.paid = Add(@, e)])
  /\ UNCHANGED <<txn, provider, run, callback, faults, paidOut, ledger, cut, undone>>

\* A plausible slip: the total is not reset for the next document.
DebitLateCarries(q) ==
  /\ inquiry[q].pc = "applying" /\ inquiry[q].todo = <<>>
  /\ Charge(inquiry[q].paid, inquiry[q].doc)
  /\ Inquire(q, [inquiry[q] EXCEPT !.pc = "flagging"])
  /\ UNCHANGED <<txn, record, provider, run, callback, faults, paidOut, heard, cut, undone>>

\* One debit, to the budget of the document that was asked about.
DebitLate(q) ==
  /\ inquiry[q].pc = "applying" /\ inquiry[q].todo = <<>>
  /\ Charge(inquiry[q].paid, inquiry[q].doc)
  /\ Inquire(q, [inquiry[q] EXCEPT !.pc = "flagging", !.paid = NonePaid])
  /\ UNCHANGED <<txn, record, provider, run, callback, faults, paidOut, heard, cut, undone>>

\* the whole row, as it was selected
FlagLate(q) ==
  /\ inquiry[q].pc = "flagging"
  /\ txn' = [txn EXCEPT ![inquiry[q].doc] = [status |-> "disbursed", has_callback |-> TRUE]]
  /\ Inquire(q, [inquiry[q] EXCEPT !.pc = "asking", !.doc = NoDoc])
  /\ UNCHANGED <<record, provider, run, callback, faults, books>>

EndInquiry(q) ==
  /\ inquiry[q].pc = "asking" /\ inquiry[q].docs = {}
  /\ Inquire(q, [inquiry[q] EXCEPT !.pc = "done"])
  /\ UNCHANGED <<txn, record, provider, run, callback, faults, books>>

\* An answer that is no JSON, an id this system does not know, or a death.
InquiryDies(q) ==
  /\ inquiry[q].pc \in {"asking", "applying", "flagging"}
  /\ Fault
  /\ CutAll(Paid(inquiry[q].paid))
  /\ Inquire(q, [NoInquiry EXCEPT !.pc = "done"])
  /\ UNCHANGED <<txn, record, provider, run, callback, paidOut, ledger, heard, undone>>

InquiryStep(q) ==
  \/ Select(q) \/ (\E d \in Docs : Ask(q, d) \/ AskInVain(q, d))
  \/ ApplyLate(q) \/ DebitLate(q) \/ FlagLate(q) \/ EndInquiry(q) \/ InquiryDies(q)

Next ==
  \/ \E k \in Runs : \/ \E d \in Docs : Queue(k, d)
                      \/ LoadTxn(k) \/ MarkDisbursed(k) \/ ApiDies(k)
                      \/ BulkTask(k) \/ Raises(k) \/ RunDies(k)
  \/ \E r \in Records : Pays(r) \/ Refuses(r)
  \/ \E c \in Callbacks : CallbackStep(c)
  \/ \E q \in Inquiries : InquiryStep(q)

Spec == Init /\ [][Next]_vars

\* A task that is queued is run, and goes on with what is its own unless it dies.
\* Nothing is assumed of the posts: they have no timeout.
FairSpec == Spec /\ \A k \in Runs : WF_vars(Works(k))

-----------------------------------------------------------------------------
(* Properties *)

Verdicts == {"open", "successful", "failed"}
Reports  == [id : WalletRecords, ok : BOOLEAN]

TxnRows == [status : {"processed", "disbursed"}, has_callback : BOOLEAN]
RunStates ==
  [api : {"none", "queued", "loaded", "done"}, copy : BOOLEAN, doc : Docs \cup {NoDoc},
   pc : {"none", "queued", "posting", "waiting", "debiting", "saving", "done", "dead"},
   round : {1, 2}, todo : SUBSET Records, at : Records \cup {NoRecord},
   will : Verdicts, seen : [Deposits -> Verdicts]]
CallbackStates ==
  [pc : {"idle", "applying", "flagging", "done"}, todo : Seq(Reports \cup {Stranger}),
   paid : [Records -> Nat], doc : Docs \cup {NoDoc}, win : Docs \cup {NoDoc}]
InquiryStates ==
  [pc : {"idle", "asking", "applying", "flagging", "done"}, docs : SUBSET Docs,
   doc : Docs \cup {NoDoc}, todo : Seq(Reports), paid : [Records -> Nat]]

RowsOK ==
  /\ txn \in [Docs -> TxnRows] /\ record \in [Records -> Verdicts]
  /\ provider \in [Records -> {"none", "processing", "paid", "refused"}]
BooksOK ==
  /\ faults \in 0..MaxFaults
  /\ paidOut \in [Records -> BOOLEAN] /\ debits \in [Records -> Nat]
  /\ payers \in [Records -> SUBSET Docs]
  /\ told \in [Records -> 0..2] /\ wins \in [Records -> Nat]
  /\ cut \in [Records -> BOOLEAN] /\ undone \in [Docs -> BOOLEAN]
RunOK(s) ==
  /\ s.at \in Records <=> s.pc \in {"waiting", "debiting", "saving"}
  /\ s.doc = NoDoc => s.pc = "none" /\ s.api = "none"
  /\ s.api = "none" => s.pc = "none"
CallbackOK(s) ==
  /\ s.pc = "flagging" => s.doc # NoDoc /\ Paid(s.paid) = {}
  /\ s.pc = "applying" => s.doc # NoDoc \/ s.todo # <<>>
  /\ Paid(s.paid) # {} => s.win # NoDoc
InquiryOK(s) == s.pc \in {"applying", "flagging"} => s.doc # NoDoc

\* Shapes of rows and processes; a task has a record in hand exactly between its
\* post and the save that ends it, and a process about to change a document's
\* row knows which.
TypeOK ==
  /\ RowsOK /\ BooksOK
  /\ run \in [Runs -> RunStates] /\ \A k \in Runs : RunOK(run[k])
  /\ callback \in [Callbacks -> CallbackStates] /\ \A c \in Callbacks : CallbackOK(callback[c])
  /\ inquiry \in [Inquiries -> InquiryStates] /\ \A q \in Inquiries : InquiryOK(inquiry[q])

Handed(d) == \E k \in Runs : run[k].doc = d

\* No budget is debited for a record the provider did not pay, however late,
\* repeated or partial the reports on it are; and though an inquiry may be answered
\* with the records of other documents, and one report may mix several, no budget
\* is debited but that of a document that was handed over.
NoDebitWithoutPayout ==
  \A r \in Records : (debits[r] > 0 => paidOut[r]) /\ \A d \in payers[r] : Handed(d)

\* who has a record in hand with its debit still to come
Debiting(r) ==
  \/ \E k \in Runs : run[k].pc = "debiting" /\ run[k].at = r
  \/ \E c \in Callbacks : callback[c].paid[r] > 0
  \/ \E q \in Inquiries : inquiry[q].paid[r] > 0
Saving(r) == \E k \in Runs : run[k].pc = "saving" /\ run[k].at = r

\* how many debits they will make, or have in their totals
Due(r) ==
  Sum([k \in Runs |-> IF run[k].pc = "debiting" /\ run[k].at = r THEN 1 ELSE 0], Runs)
  + Sum([c \in Callbacks |-> callback[c].paid[r]], Callbacks)
  + Sum([q \in Inquiries |-> inquiry[q].paid[r]], Inquiries)

\* The budgets are debited for a record exactly as often as somebody was told that
\* it was paid, be it by several deliveries, by one list that repeats it, or by the
\* answers about several documents, and never more often: a debit is only lost with
\* a process that stopped with the record in hand.
DebitedAsTold ==
  \A r \in Records :
    /\ debits[r] + Due(r) <= wins[r]
    /\ ~cut[r] => debits[r] + Due(r) = wins[r]

\* A record that is successful has been debited or is about to be, unless somebody
\* stopped with it in hand; once only, as long as one verdict only was acted on.
SuccessIsDebited ==
  \A r \in Records :
    record[r] = "successful" /\ ~cut[r] =>
      /\ debits[r] > 0 \/ Debiting(r)
      /\ told[r] <= 1 => debits[r] <= 1

\* And what has been debited is on record as successful, or is about to be: it
\* takes a second verdict, or a crash, to debit a record the client sees failed.
DebitedIsSuccessful ==
  \A r \in Records :
    debits[r] > 0 /\ told[r] <= 1 /\ ~cut[r] => record[r] = "successful" \/ Saving(r)

\* Unless a post of theirs hangs or one of them dies, the tasks of a document see
\* to its callback flag, whatever the provider answers, and then it stays set; only
\* the API can still take it back, with the row it loaded before.
HandedIsFlagged ==
  \A d \in Docs :
    (\A k \in Runs : []<>(run[k].doc = d => run[k].pc # "waiting")) =>
      ((Of(d) # {} /\ \E k \in Runs : run[k].doc = d /\ run[k].pc = "queued")
         ~> (\/ [](txn[d].has_callback)
             \/ undone[d]
             \/ \E k \in Runs : run[k].doc = d /\ run[k].pc = "dead"))
=============================================================================
