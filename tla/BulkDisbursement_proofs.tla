---------------------- MODULE BulkDisbursement_proofs ----------------------
(***************************************************************************)
(* That the records of a document, what the provider paid and what the     *)
(* budget was debited agree, for any number of documents, records,         *)
(* deliveries of the task, callbacks and late inquiries.                   *)
(*                                                                         *)
(* TruthInv    what a callback or an inquiry still has to apply, and what  *)
(*             it or a task is about to debit, the provider paid           *)
(* HandedInv   whatever a process works on is of a document that was       *)
(*             handed over                                                 *)
(* WonInv      where "successful" is read or written somebody was told so  *)
(* RecordInv   one verdict puts a record in the hand of one task at most,  *)
(*             which will save what it was told                            *)
(***************************************************************************)
EXTENDS BulkDisbursement, FiniteSums_proofs, SequenceTheorems

LEMMA NoStates ==
  /\ NoRun \in RunStates /\ RunOK(NoRun) /\ NoRun.seen \in [Deposits -> Verdicts]
  /\ NonePaid \in [Records -> Nat] /\ Paid(NonePaid) = {}
  /\ NoCallback \in CallbackStates /\ CallbackOK(NoCallback)
  /\ NoInquiry \in InquiryStates /\ InquiryOK(NoInquiry)
<1>1. NoRun \in RunStates /\ RunOK(NoRun) /\ NoRun.seen \in [Deposits -> Verdicts]
  BY BulkAssumption DEF NoRun, RunStates, RunOK, Verdicts
<1>2. NonePaid \in [Records -> Nat] /\ Paid(NonePaid) = {}
  BY DEF NonePaid, Paid
<1>3. <<>> \in Seq(Reports \cup {Stranger}) /\ <<>> \in Seq(Reports)
  BY EmptySeq
<1> HIDE DEF NonePaid
<1>4. NoCallback \in CallbackStates /\ CallbackOK(NoCallback)
  BY <1>2, <1>3 DEF NoCallback, CallbackStates, CallbackOK
<1>5. NoInquiry \in InquiryStates /\ InquiryOK(NoInquiry)
  BY <1>2, <1>3 DEF NoInquiry, InquiryStates, InquiryOK
<1>6. QED
  BY <1>1, <1>2, <1>4, <1>5

LEMMA BulkTypeInit == Init => TypeOK
<1> SUFFICES ASSUME Init PROVE TypeOK
  OBVIOUS
<1>1. RowsOK /\ BooksOK
  BY BulkAssumption DEF Init, RowsOK, BooksOK, TxnRows, Verdicts
<1>2. /\ run \in [Runs -> RunStates] /\ \A k \in Runs : RunOK(run[k])
      /\ callback \in [Callbacks -> CallbackStates] /\ \A c \in Callbacks : CallbackOK(callback[c])
      /\ inquiry \in [Inquiries -> InquiryStates] /\ \A q \in Inquiries : InquiryOK(inquiry[q])
  BY NoStates DEF Init
<1>3. QED
  BY <1>1, <1>2 DEF TypeOK

\* What one process does to its own state leaves that of the others alone.
RunsOK      == run \in [Runs -> RunStates] /\ \A k \in Runs : RunOK(run[k])
CallbacksOK == callback \in [Callbacks -> CallbackStates] /\ \A c \in Callbacks : CallbackOK(callback[c])
InquiriesOK == inquiry \in [Inquiries -> InquiryStates] /\ \A q \in Inquiries : InquiryOK(inquiry[q])

LEMMA Parts == ASSUME (RowsOK /\ BooksOK /\ RunsOK /\ CallbacksOK /\ InquiriesOK)' PROVE TypeOK'
BY DEF TypeOK, RunsOK, CallbacksOK, InquiriesOK

LEMMA GoType ==
  ASSUME TypeOK, NEW k \in Runs, NEW s \in RunStates, RunOK(s), Go(k, s)
  PROVE  RunsOK' /\ run'[k] = s /\ \A j \in Runs \ {k} : run'[j] = run[j]
BY DEF TypeOK, Go, RunsOK, RunOK

LEMMA HearType ==
  ASSUME TypeOK, NEW c \in Callbacks, NEW s \in CallbackStates, CallbackOK(s), Hear(c, s)
  PROVE  CallbacksOK' /\ callback'[c] = s /\ \A d \in Callbacks \ {c} : callback'[d] = callback[d]
BY DEF TypeOK, Hear, CallbacksOK, CallbackOK

LEMMA InquireType ==
  ASSUME TypeOK, NEW q \in Inquiries, NEW s \in InquiryStates, InquiryOK(s), Inquire(q, s)
  PROVE  InquiriesOK' /\ inquiry'[q] = s /\ \A p \in Inquiries \ {q} : inquiry'[p] = inquiry[p]
BY DEF TypeOK, Inquire, InquiriesOK, InquiryOK

LEMMA FaultType == ASSUME faults \in 0..MaxFaults, Fault PROVE faults' \in 0..MaxFaults
BY BulkAssumption DEF Fault

LEMMA TellType ==
  ASSUME TypeOK, NEW r \in Records, Tell(r)
  PROVE  /\ told' \in [Records -> 0..2] /\ told'[r] = (IF told[r] = 0 THEN 1 ELSE 2)
         /\ \A q \in Records \ {r} : told'[q] = told[q]
BY DEF TypeOK, BooksOK, Tell

LEMMA WinType ==
  ASSUME TypeOK, NEW r \in Records, Win(r)
  PROVE  /\ wins' \in [Records -> Nat] /\ wins'[r] = wins[r] + 1
         /\ \A q \in Records \ {r} : wins'[q] = wins[q]
BY DEF TypeOK, BooksOK, Win

LEMMA ChargeType ==
  ASSUME TypeOK, NEW total \in [Records -> Nat], NEW d, Paid(total) # {} => d \in Docs, Charge(total, d)
  PROVE  /\ debits' \in [Records -> Nat] /\ payers' \in [Records -> SUBSET Docs]
         /\ \A r \in Records : /\ debits'[r] = debits[r] + total[r]
                               /\ payers'[r] \subseteq payers[r] \cup {d}
                               /\ total[r] = 0 => payers'[r] = payers[r]
<1>1. debits \in [Records -> Nat] /\ payers \in [Records -> SUBSET Docs]
  BY DEF TypeOK, BooksOK
<1>2. debits' = [r \in Records |-> debits[r] + total[r]]
  BY DEF Charge
<1>3. payers' = [r \in Records |-> IF r \in Paid(total) THEN payers[r] \cup {d} ELSE payers[r]]
  BY DEF Charge
<1>4. debits' \in [Records -> Nat] /\ \A r \in Records : debits'[r] = debits[r] + total[r]
  BY <1>1, <1>2
<1>5. payers' \in [Records -> SUBSET Docs]
  BY <1>1, <1>3
<1>6. \A r \in Records : payers'[r] \subseteq payers[r] \cup {d}
  BY <1>3
<1>7. \A r \in Records : total[r] = 0 => payers'[r] = payers[r]
  BY <1>3 DEF Paid
<1>8. QED
  BY <1>4, <1>5, <1>6, <1>7

\* A task debits its one record.
LEMMA OneType ==
  ASSUME TypeOK, NEW k \in Runs, Debit(k)
  PROVE  /\ run[k].at \in Records /\ DocOf[run[k].at] \in Docs
         /\ debits' \in [Records -> Nat] /\ payers' \in [Records -> SUBSET Docs]
         /\ \A r \in Records : /\ debits'[r] = debits[r] + (IF r = run[k].at THEN 1 ELSE 0)
                               /\ payers'[r] \subseteq payers[r] \cup {DocOf[run[k].at]}
                               /\ r # run[k].at => payers'[r] = payers[r]
<1> DEFINE total == [NonePaid EXCEPT ![run[k].at] = 1]
<1>1. run[k].at \in Records /\ DocOf[run[k].at] \in Docs
  BY BulkAssumption DEF Debit, TypeOK, RunOK
<1>2. /\ total \in [Records -> Nat]
      /\ \A r \in Records : total[r] = IF r = run[k].at THEN 1 ELSE 0
  BY <1>1 DEF NonePaid
<1>3. Charge(total, DocOf[run[k].at])
  BY DEF Debit
<1> HIDE DEF total
<1>4. QED
  BY <1>1, <1>2, <1>3, ChargeType

LEMMA CutType ==
  ASSUME TypeOK, NEW R, CutAll(R)
  PROVE  /\ cut' \in [Records -> BOOLEAN]
         /\ \A r \in Records : (cut[r] => cut'[r]) /\ (r \in R => cut'[r])
BY DEF TypeOK, BooksOK, CutAll

LEMMA FlagType == ASSUME TypeOK, NEW D, Flag(D) PROVE txn' \in [Docs -> TxnRows]
BY DEF TypeOK, RowsOK, Flag, TxnRows

-----------------------------------------------------------------------------
(* The states a bulk task may go to *)

LEMMA RunGoes ==
  ASSUME TypeOK, NEW k \in Runs,
         \/ \E d \in Docs : Queue(k, d)
         \/ LoadTxn(k) \/ MarkDisbursed(k) \/ ApiDies(k) \/ BulkTask(k) \/ Raises(k) \/ RunDies(k)
  PROVE  \E s \in RunStates : RunOK(s) /\ Go(k, s)
<1> USE BulkAssumption
<1>0. run[k] \in RunStates /\ RunOK(run[k])
  BY DEF TypeOK
<1>1. ASSUME NEW d \in Docs, Queue(k, d) PROVE \E s \in RunStates : RunOK(s) /\ Go(k, s)
  <2> DEFINE s == [run[k] EXCEPT !.api = "queued", !.doc = d, !.pc = "queued"]
  <2>1. s \in RunStates
    BY <1>0 DEF RunStates
  <2>2. s.at = run[k].at /\ s.pc = "queued" /\ s.doc = d /\ s.api = "queued"
    BY <1>0 DEF RunStates
  <2>3. QED
    BY <1>0, <1>1, <2>1, <2>2 DEF Queue, RunOK
<1>2. CASE LoadTxn(k)
  <2> DEFINE s == [run[k] EXCEPT !.api = "loaded", !.copy = txn[run[k].doc].has_callback]
  <2>1. run[k].api = "queued" /\ run[k].doc \in Docs /\ txn[run[k].doc].has_callback \in BOOLEAN
    <3>1. run[k].api = "queued"
      BY <1>2 DEF LoadTxn
    <3>2. run[k].doc \in Docs
      BY <1>0, <3>1 DEF RunStates, RunOK
    <3>3. txn[run[k].doc] \in TxnRows
      BY <3>2 DEF TypeOK, RowsOK
    <3>4. QED
      BY <3>1, <3>2, <3>3 DEF TxnRows
  <2>2. s \in RunStates
    BY <1>0, <2>1 DEF RunStates
  <2>3. s.at = run[k].at /\ s.pc = run[k].pc /\ s.doc = run[k].doc /\ s.api # "none"
    BY <1>0 DEF RunStates
  <2>4. QED
    BY <1>0, <1>2, <2>1, <2>2, <2>3 DEF LoadTxn, RunOK
<1>3. CASE MarkDisbursed(k) \/ ApiDies(k)
  <2> DEFINE s == [run[k] EXCEPT !.api = "done", !.copy = FALSE]
  <2>1. run[k].doc \in Docs
    BY <1>0, <1>3 DEF MarkDisbursed, ApiDies, RunStates, RunOK
  <2>2. s \in RunStates
    BY <1>0, <2>1 DEF RunStates
  <2>3. s.at = run[k].at /\ s.pc = run[k].pc /\ s.doc = run[k].doc /\ s.api # "none"
    BY <1>0 DEF RunStates
  <2>4. QED
    BY <1>0, <1>3, <2>1, <2>2, <2>3 DEF MarkDisbursed, ApiDies, RunOK
<1>4. CASE StartRun(k)
  <2> DEFINE s == [run[k] EXCEPT !.pc = "posting", !.todo = FirstRound(run[k].doc),
                                 !.seen = [r \in Deposits |-> record[r]]]
  <2>1. run[k].pc = "queued" /\ FirstRound(run[k].doc) \subseteq Records
        /\ [r \in Deposits |-> record[r]] \in [Deposits -> Verdicts]
    BY <1>4 DEF StartRun, FirstRound, Of, TypeOK, RowsOK
  <2>2. s \in RunStates
    BY <1>0, <2>1 DEF RunStates
  <2>3. s.at = run[k].at /\ s.pc = "posting" /\ s.doc = run[k].doc /\ s.api = run[k].api
    BY <1>0 DEF RunStates
  <2>4. QED
    BY <1>0, <1>4, <2>1, <2>2, <2>3 DEF StartRun, RunOK
<1>5. CASE EndFirstRound(k)
  <2> DEFINE s == [run[k] EXCEPT !.round = 2, !.todo = SecondRound(run[k].doc)]
  <2>1. SecondRound(run[k].doc) \subseteq Records
    BY DEF SecondRound, Of
  <2>2. s \in RunStates
    BY <1>0, <2>1 DEF RunStates
  <2>3. s.at = run[k].at /\ s.pc = run[k].pc /\ s.doc = run[k].doc /\ s.api = run[k].api
    BY <1>0 DEF RunStates
  <2>4. QED
    BY <1>0, <1>5, <2>2, <2>3 DEF EndFirstRound, RunOK
<1>6. CASE EndSecondRound(k)
  <2> DEFINE s == [run[k] EXCEPT !.pc = "done", !.round = 1, !.seen = NoRun.seen]
  <2>1. run[k].pc = "posting"
    BY <1>6 DEF EndSecondRound
  <2>2. s \in RunStates
    BY <1>0, NoStates DEF RunStates
  <2>3. s.at = run[k].at /\ s.pc = "done" /\ s.doc = run[k].doc /\ s.api = run[k].api
    BY <1>0 DEF RunStates
  <2>4. QED
    BY <1>0, <1>6, <2>1, <2>2, <2>3 DEF EndSecondRound, RunOK
<1>7. ASSUME NEW r \in Records, Post(k, r) PROVE \E s \in RunStates : RunOK(s) /\ Go(k, s)
  <2> DEFINE s == [run[k] EXCEPT !.pc = "waiting", !.at = r, !.todo = @ \ {r}]
  <2>1. run[k].pc = "posting"
    BY <1>7 DEF Post
  <2>2. s \in RunStates
    BY <1>0 DEF RunStates
  <2>3. s.at = r /\ s.pc = "waiting" /\ s.doc = run[k].doc /\ s.api = run[k].api
    BY <1>0 DEF RunStates
  <2>4. QED
    BY <1>0, <1>7, <2>1, <2>2, <2>3 DEF Post, RunOK
<1>8. ASSUME NEW verdict \in Verdicts, NEW pc \in {"debiting", "saving"}, Decide(k, verdict, pc),
             run[k].pc = "waiting"
      PROVE  \E s \in RunStates : RunOK(s) /\ Go(k, s)
  <2> DEFINE s == [run[k] EXCEPT !.pc = pc, !.will = verdict]
  <2>1. s \in RunStates
    BY <1>0 DEF RunStates
  <2>2. s.at = run[k].at /\ s.pc = pc /\ s.doc = run[k].doc /\ s.api = run[k].api
    BY <1>0 DEF RunStates
  <2>3. QED
    BY <1>0, <1>8, <2>1, <2>2 DEF Decide, RunOK
<1>9. ASSUME NextRecord(k), run[k].pc \in {"waiting", "debiting", "saving"}
      PROVE  \E s \in RunStates : RunOK(s) /\ Go(k, s)
  <2> DEFINE s == [run[k] EXCEPT !.pc = "posting", !.at = NoRecord, !.will = "open"]
  <2>1. s \in RunStates
    BY <1>0 DEF RunStates, Verdicts
  <2>2. s.at = NoRecord /\ s.pc = "posting" /\ s.doc = run[k].doc /\ s.api = run[k].api
    BY <1>0 DEF RunStates
  <2>3. QED
    BY <1>0, <1>9, <2>1, <2>2 DEF NextRecord, RunOK
<1>10. CASE AnswerPaid(k) \/ AnswerRefused(k)
  BY <1>8, <1>10 DEF AnswerPaid, AnswerRefused, Verdicts
<1>11. CASE AnswerUnknown(k)
  <2> DEFINE r == run[k].at
             verdict == IF r \in Deposits THEN run[k].seen[r]
                        ELSE IF record[r] = "open" THEN "open" ELSE "failed"
  <2>1. verdict \in Verdicts
    BY <1>0 DEF RunStates, Verdicts
  <2> HIDE DEF verdict
  <2>2. run[k].pc = "waiting" /\ Decide(k, verdict, "saving")
    BY <1>11 DEF AnswerUnknown, verdict
  <2>3. QED
    BY <1>8, <2>1, <2>2
<1>12. CASE NoAnswer(k) \/ Save(k) \/ Raises(k)
  BY <1>9, <1>12 DEF NoAnswer, Save, Raises
<1>13. CASE Debit(k)
  <2> DEFINE s == [run[k] EXCEPT !.pc = "saving"]
  <2>1. run[k].pc = "debiting"
    BY <1>13 DEF Debit
  <2>2. s \in RunStates
    BY <1>0 DEF RunStates
  <2>3. s.at = run[k].at /\ s.pc = "saving" /\ s.doc = run[k].doc /\ s.api = run[k].api
    BY <1>0 DEF RunStates
  <2>4. QED
    BY <1>0, <1>13, <2>1, <2>2, <2>3 DEF Debit, RunOK
<1>14. CASE RunDies(k)
  <2> DEFINE s == [run[k] EXCEPT !.pc = "dead", !.round = 1, !.todo = {},
                      !.at = NoRecord, !.will = "open", !.seen = NoRun.seen]
  <2>1. run[k].pc # "none"
    BY <1>14 DEF RunDies
  <2>2. s \in RunStates
    BY <1>0, NoStates DEF RunStates, Verdicts
  <2>3. s.at = NoRecord /\ s.pc = "dead" /\ s.doc = run[k].doc /\ s.api = run[k].api
    BY <1>0 DEF RunStates
  <2>4. QED
    BY <1>0, <1>14, <2>1, <2>2, <2>3 DEF RunDies, RunOK
<1>15. QED
  BY <1>1, <1>2, <1>3, <1>4, <1>5, <1>6, <1>7, <1>10, <1>11, <1>12, <1>13, <1>14 DEF BulkTask, Works, Answered

LEMMA RunType ==
  ASSUME TypeOK, NEW k \in Runs,
         \/ \E d \in Docs : Queue(k, d)
         \/ LoadTxn(k) \/ MarkDisbursed(k) \/ ApiDies(k) \/ BulkTask(k) \/ Raises(k) \/ RunDies(k)
  PROVE  TypeOK'
<1> USE BulkAssumption
<1>0. run[k] \in RunStates /\ RunOK(run[k])
  BY DEF TypeOK
<1>1. RunsOK'
  BY RunGoes, GoType
<1>2. UNCHANGED <<callback, inquiry>>
  BY DEF Queue, LoadTxn, MarkDisbursed, ApiDies, BulkTask, Works, Answered, StartRun, EndFirstRound, EndSecondRound, Post,
     NoAnswer, AnswerPaid, AnswerRefused, AnswerUnknown, Debit, Save, Raises, RunDies
<1>3. CallbacksOK' /\ InquiriesOK'
  BY <1>2 DEF TypeOK, CallbacksOK, InquiriesOK, CallbackOK, InquiryOK
<1>4. run[k].pc \in {"waiting", "debiting", "saving"} => run[k].at \in Records
  BY <1>0 DEF RunOK
<1>5. txn' \in [Docs -> TxnRows]
  <2>1. CASE MarkDisbursed(k)
    BY <1>0, <2>1 DEF MarkDisbursed, RunStates, TxnRows, TypeOK, RowsOK
  <2>2. CASE EndFirstRound(k) \/ EndSecondRound(k)
    BY <2>2, FlagType DEF EndFirstRound, EndSecondRound
  <2>3. CASE txn' = txn
    BY <2>3 DEF TypeOK, RowsOK
  <2>4. QED
    BY <2>1, <2>2, <2>3 DEF Queue, LoadTxn, ApiDies, BulkTask, Works, Answered, StartRun, Post, NoAnswer, AnswerPaid,
       AnswerRefused, AnswerUnknown, Debit, Save, Raises, RunDies
<1>6. record' \in [Records -> Verdicts]
  <2>1. CASE NoAnswer(k) \/ AnswerPaid(k) \/ AnswerRefused(k) \/ Raises(k)
    BY <1>4, <2>1 DEF NoAnswer, AnswerPaid, AnswerRefused, Raises, TypeOK, RowsOK, Verdicts
  <2>2. CASE Save(k)
    BY <1>0, <1>4, <2>2 DEF Save, RunStates, TypeOK, RowsOK
  <2>3. CASE record' = record
    BY <2>3 DEF TypeOK, RowsOK
  <2>4. QED
    BY <2>1, <2>2, <2>3 DEF Queue, LoadTxn, MarkDisbursed, ApiDies, BulkTask, Works, Answered, StartRun, EndFirstRound,
       EndSecondRound, Post, AnswerUnknown, Debit, RunDies
<1>7. provider' \in [Records -> {"none", "processing", "paid", "refused"}]
  BY DEF TypeOK, RowsOK, Queue, LoadTxn, MarkDisbursed, ApiDies, BulkTask, Works, Answered, StartRun, EndFirstRound,
     EndSecondRound, Post, NoAnswer, AnswerPaid, AnswerRefused, AnswerUnknown, Debit, Save, Raises, RunDies
<1>8. faults' \in 0..MaxFaults /\ paidOut' \in [Records -> BOOLEAN] /\ undone' \in [Docs -> BOOLEAN]
  <2>1. faults' = faults \/ Fault
    BY DEF Queue, LoadTxn, MarkDisbursed, ApiDies, BulkTask, Works, Answered, StartRun, EndFirstRound, EndSecondRound, Post,
       NoAnswer, AnswerPaid, AnswerRefused, AnswerUnknown, Debit, Save, Raises, RunDies
  <2>2. paidOut' = paidOut
    BY DEF Queue, LoadTxn, MarkDisbursed, ApiDies, BulkTask, Works, Answered, StartRun, EndFirstRound, EndSecondRound, Post,
       NoAnswer, AnswerPaid, AnswerRefused, AnswerUnknown, Debit, Save, Raises, RunDies, books
  <2>3. undone' = undone \/ undone' = [undone EXCEPT ![run[k].doc] = @ \/ (txn[run[k].doc].has_callback /\ ~run[k].copy)]
    BY DEF Queue, LoadTxn, MarkDisbursed, ApiDies, BulkTask, Works, Answered, StartRun, EndFirstRound, EndSecondRound, Post,
       NoAnswer, AnswerPaid, AnswerRefused, AnswerUnknown, Debit, Save, Raises, RunDies, books
  <2>4. QED
    BY <2>1, <2>2, <2>3, FaultType DEF TypeOK, BooksOK
<1>9. debits' \in [Records -> Nat] /\ payers' \in [Records -> SUBSET Docs]
  <2>1. UNCHANGED <<debits, payers>> \/ Debit(k)
    BY DEF Queue, LoadTxn, MarkDisbursed, ApiDies, BulkTask, Works, Answered, StartRun, EndFirstRound, EndSecondRound, Post,
       NoAnswer, AnswerPaid, AnswerRefused, AnswerUnknown, Save, Raises, RunDies, books, ledger
  <2>2. QED
    BY <2>1, OneType DEF TypeOK, BooksOK
<1>10. told' \in [Records -> 0..2] /\ wins' \in [Records -> Nat]
  <2>1. told' = told \/ (run[k].pc = "waiting" /\ Tell(run[k].at))
    BY DEF Queue, LoadTxn, MarkDisbursed, ApiDies, BulkTask, Works, Answered, StartRun, EndFirstRound, EndSecondRound, Post,
       NoAnswer, AnswerPaid, AnswerRefused, AnswerUnknown, Debit, Save, Raises, RunDies, Decide, books, heard
  <2>2. wins' = wins \/ (run[k].pc = "waiting" /\ Win(run[k].at))
    BY DEF Queue, LoadTxn, MarkDisbursed, ApiDies, BulkTask, Works, Answered, StartRun, EndFirstRound, EndSecondRound, Post,
       NoAnswer, AnswerPaid, AnswerRefused, AnswerUnknown, Debit, Save, Raises, RunDies, books, heard
  <2>3. QED
    BY <1>4, <2>1, <2>2, TellType, WinType DEF TypeOK, BooksOK
<1>11. cut' \in [Records -> BOOLEAN]
  <2>1. cut' = cut \/ \E R : CutAll(R)
    BY DEF Queue, LoadTxn, MarkDisbursed, ApiDies, BulkTask, Works, Answered, StartRun, EndFirstRound, EndSecondRound, Post,
       NoAnswer, AnswerPaid, AnswerRefused, AnswerUnknown, Debit, Save, Raises, RunDies, books
  <2>2. QED
    BY <2>1, CutType DEF TypeOK, BooksOK
<1>12. QED
  BY <1>1, <1>3, <1>5, <1>6, <1>7, <1>8, <1>9, <1>10, <1>11, Parts DEF RowsOK, BooksOK

LEMMA ProviderType == ASSUME TypeOK, NEW r \in Records, Pays(r) \/ Refuses(r) PROVE TypeOK'
<1>1. UNCHANGED <<txn, record, run, callback, inquiry, faults, debits, payers, told, wins, cut, undone>>
  BY DEF Pays, Refuses, books, ledger, heard
<1>2. RunsOK' /\ CallbacksOK' /\ InquiriesOK'
  BY <1>1 DEF TypeOK, RunsOK, CallbacksOK, InquiriesOK, RunOK, CallbackOK, InquiryOK
<1>3. provider' \in [Records -> {"none", "processing", "paid", "refused"}]
  BY DEF Pays, Refuses, TypeOK, RowsOK
<1>4. paidOut' \in [Records -> BOOLEAN]
  BY DEF Pays, Refuses, TypeOK, BooksOK, books
<1>5. QED
  BY <1>1, <1>2, <1>3, <1>4, Parts DEF TypeOK, RowsOK, BooksOK

LEMMA EntriesType ==
  /\ \A r \in WalletRecords : Entry(r) \in Reports /\ Entry(r).id = r /\ (Entry(r).ok <=> provider[r] = "paid")
  /\ \A e \in Reports : e # Stranger /\ e.id \in WalletRecords /\ e.ok \in BOOLEAN /\ Verdict(e) \in Verdicts
  /\ WalletRecords \subseteq Records
  /\ Entry(Unknown) = Stranger
<1>1. WalletRecords \subseteq Records
  BY DEF WalletRecords
<1>2. ASSUME NEW r \in WalletRecords
      PROVE  Entry(r) \in Reports /\ Entry(r).id = r /\ (Entry(r).ok <=> provider[r] = "paid")
  <2> DEFINE ok == provider[r] = "paid"
  <2>1. ok \in BOOLEAN /\ r # Unknown
    BY <1>1, BulkAssumption
  <2>2. Entry(r) = [id |-> r, ok |-> ok]
    BY <2>1 DEF Entry
  <2> HIDE DEF ok
  <2>3. Entry(r) \in Reports
    BY <2>1, <2>2 DEF Reports
  <2>4. Entry(r).id = r /\ Entry(r).ok = ok
    BY <2>2
  <2>5. QED
    BY <2>1, <2>3, <2>4 DEF ok
<1>3. ASSUME NEW e \in Reports PROVE e # Stranger /\ e.id \in WalletRecords /\ e.ok \in BOOLEAN
  <2>1. e.id \in WalletRecords /\ e.ok \in BOOLEAN
    BY DEF Reports
  <2>2. Stranger.id = Unknown
    BY DEF Stranger
  <2>3. QED
    BY <1>1, <2>1, <2>2, BulkAssumption
<1>4. \A e \in Reports : Verdict(e) \in Verdicts
  BY DEF Verdict, Verdicts
<1>5. Entry(Unknown) = Stranger
  BY DEF Entry
<1>6. QED
  BY <1>1, <1>2, <1>3, <1>4, <1>5

\* the entries of a list
Said(L) == {L[i] : i \in 1..Len(L)}

LEMMA SaidRest ==
  ASSUME NEW S, NEW L \in Seq(S)
  PROVE  /\ \A e \in Said(L) : e \in S
         /\ L # <<>> => Head(L) \in Said(L) /\ Head(L) \in S /\ Tail(L) \in Seq(S) /\ Said(Tail(L)) \subseteq Said(L)
         /\ Said(<<>>) = {}
<1>1. \A e \in Said(L) : e \in S
  BY ElementOfSeq DEF Said
<1>2. ASSUME L # <<>> PROVE Head(L) \in Said(L) /\ Head(L) \in S /\ Tail(L) \in Seq(S) /\ Said(Tail(L)) \subseteq Said(L)
  <2>1. /\ Head(L) \in S /\ Tail(L) \in Seq(S) /\ Len(Tail(L)) = Len(L) - 1
        /\ \A i \in 1..Len(Tail(L)) : Tail(L)[i] = L[i + 1]
    BY <1>2, HeadTailProperties
  <2>2. Len(L) \in Nat /\ Len(L) >= 1 /\ Head(L) = L[1]
    BY <1>2
  <2>3. \A i \in 1..Len(Tail(L)) : i + 1 \in 1..Len(L)
    BY <2>1, <2>2
  <2>4. 1 \in 1..Len(L)
    BY <2>2
  <2>5. QED
    BY <2>1, <2>2, <2>3, <2>4 DEF Said
<1>3. Said(<<>>) = {}
  BY EmptySeq DEF Said
<1>4. QED
  BY <1>1, <1>2, <1>3

\* What the provider reports are entries about the records the list names.
LEMMA ReportType ==
  ASSUME NEW S, NEW L \in Lists(S), NEW T, \A r \in S : Entry(r) \in T
  PROVE  /\ Report(L) \in Seq(T) /\ Report(L) # <<>>
         /\ \A e \in Said(Report(L)) : \E r \in S : e = Entry(r)
<1>1. PICK n \in 1..MaxList : L \in [1..n -> S]
  BY DEF Lists
<1>2. n \in Nat /\ n >= 1
  BY BulkAssumption
<1>3. Report(L) = [i \in 1..n |-> Entry(L[i])]
  BY <1>1 DEF Report
<1>4. Report(L) \in [1..n -> T]
  BY <1>1, <1>3
<1>5. Report(L) \in Seq(T) /\ Len(Report(L)) = n
  BY <1>2, <1>4
<1>6. Report(L) # <<>>
  BY <1>2, <1>5, EmptySeq
<1>7. \A i \in 1..n : Report(L)[i] = Entry(L[i]) /\ L[i] \in S
  BY <1>1, <1>3
<1>8. QED
  BY <1>5, <1>6, <1>7 DEF Said

LEMMA AddType ==
  ASSUME NEW total \in [Records -> Nat], NEW e \in Reports
  PROVE  /\ Add(total, e) \in [Records -> Nat]
         /\ \A r \in Records : Add(total, e)[r] = total[r] + (IF r = e.id /\ e.ok THEN 1 ELSE 0)
<1>1. e.id \in Records /\ e.ok \in BOOLEAN
  BY EntriesType
<1>2. QED
  BY <1>1 DEF Add

LEMMA UpdateType ==
  ASSUME TypeOK, NEW e \in Reports, Update(e)
  PROVE  /\ e.id \in Records
         /\ record' \in [Records -> Verdicts] /\ told' \in [Records -> 0..2] /\ wins' \in [Records -> Nat]
         /\ \A r \in Records : /\ record'[r] = IF r = e.id THEN Verdict(e) ELSE record[r]
                               /\ told'[r] = IF r # e.id THEN told[r] ELSE IF told[r] = 0 THEN 1 ELSE 2
                               /\ wins'[r] = wins[r] + (IF r = e.id /\ e.ok THEN 1 ELSE 0)
<1>1. e.id \in Records /\ Verdict(e) \in Verdicts /\ e.ok \in BOOLEAN
  BY EntriesType
<1>2. record' = [record EXCEPT ![e.id] = Verdict(e)] /\ Tell(e.id)
  BY DEF Update
<1>3. /\ record' \in [Records -> Verdicts]
      /\ \A r \in Records : record'[r] = IF r = e.id THEN Verdict(e) ELSE record[r]
  BY <1>1, <1>2 DEF TypeOK, RowsOK
<1>4. /\ told' \in [Records -> 0..2]
      /\ \A r \in Records : told'[r] = IF r # e.id THEN told[r] ELSE IF told[r] = 0 THEN 1 ELSE 2
  BY <1>1, <1>2, TellType
<1>5. /\ wins' \in [Records -> Nat]
      /\ \A r \in Records : wins'[r] = wins[r] + (IF r = e.id /\ e.ok THEN 1 ELSE 0)
  <2>1. CASE e.ok
    BY <1>1, <2>1, WinType DEF Update
  <2>2. CASE ~e.ok
    BY <2>2 DEF Update, TypeOK, BooksOK
  <2>3. QED
    BY <2>1, <2>2
<1>6. QED
  BY <1>1, <1>3, <1>4, <1>5

LEMMA CallbackGoes ==
  ASSUME TypeOK, NEW c \in Callbacks, CallbackStep(c)
  PROVE  \E s \in CallbackStates : CallbackOK(s) /\ Hear(c, s)
<1> USE BulkAssumption
<1>0. callback[c] \in CallbackStates /\ CallbackOK(callback[c])
  BY DEF TypeOK
<1>1. CASE Deliver(c)
  <2>1. PICK L \in Lists(Decided(WalletRecords) \cup {Unknown}) :
          Hear(c, [callback[c] EXCEPT !.pc = "applying", !.todo = Report(L)])
    BY <1>1 DEF Deliver
  <2> DEFINE s == [callback[c] EXCEPT !.pc = "applying", !.todo = Report(L)]
  <2>2. Report(L) \in Seq(Reports \cup {Stranger}) /\ Report(L) # <<>>
    <3>1. \A r \in Decided(WalletRecords) \cup {Unknown} : Entry(r) \in Reports \cup {Stranger}
      BY EntriesType DEF Decided
    <3>2. QED
      BY <3>1, ReportType
  <2>3. s \in CallbackStates
    BY <1>0, <2>2 DEF CallbackStates
  <2>4. s.pc = "applying" /\ s.todo = Report(L) /\ s.paid = callback[c].paid /\ s.win = callback[c].win
    BY <1>0 DEF CallbackStates
  <2>5. Hear(c, s)
    BY <2>1
  <2> HIDE DEF s
  <2>6. CallbackOK(s)
    BY <1>0, <2>2, <2>4 DEF CallbackOK
  <2>7. QED
    BY <2>3, <2>5, <2>6
<1>2. CASE Apply(c)
  <2> DEFINE e == Head(callback[c].todo)
             s == [callback[c] EXCEPT !.todo = Tail(@), !.paid = Add(@, e), !.doc = DocOf[e.id],
                                      !.win = IF e.ok THEN DocOf[e.id] ELSE @]
  <2>1. /\ callback[c].todo \in Seq(Reports \cup {Stranger}) /\ callback[c].paid \in [Records -> Nat]
        /\ callback[c].win \in Docs \cup {NoDoc}
    BY <1>0 DEF CallbackStates
  <2>2. callback[c].todo # <<>> /\ e # Stranger /\ Hear(c, s)
    BY <1>2 DEF Apply
  <2>3. e \in Reports /\ Tail(callback[c].todo) \in Seq(Reports \cup {Stranger})
    BY <2>1, <2>2, SaidRest
  <2> HIDE DEF e
  <2>4. e.id \in Records /\ DocOf[e.id] \in Docs /\ e.ok \in BOOLEAN
    BY <2>3, EntriesType
  <2>5. /\ Add(callback[c].paid, e) \in [Records -> Nat]
        /\ ~e.ok => Add(callback[c].paid, e) = callback[c].paid
    BY <2>1, <2>3, AddType DEF Add
  <2>6. s \in CallbackStates
    BY <1>0, <2>1, <2>3, <2>4, <2>5 DEF CallbackStates
  <2>7. /\ s.pc = callback[c].pc /\ s.doc = DocOf[e.id] /\ s.paid = Add(callback[c].paid, e)
        /\ s.win = IF e.ok THEN DocOf[e.id] ELSE callback[c].win
    BY <1>0 DEF CallbackStates
  <2>8. callback[c].pc = "applying"
    BY <1>2 DEF Apply
  <2> HIDE DEF s
  <2>9. CallbackOK(s)
    BY <1>0, <2>4, <2>5, <2>7, <2>8 DEF CallbackOK
  <2>10. QED
    BY <2>2, <2>6, <2>9
<1>3. CASE ApplyUnknown(c) \/ FlagCallback(c) \/ CallbackDies(c)
  <2> DEFINE s == [NoCallback EXCEPT !.pc = "done"]
  <2>1. s \in CallbackStates
    BY NoStates DEF CallbackStates
  <2>2. s.pc = "done" /\ s.paid = NonePaid
    BY DEF NoCallback
  <2>3. Hear(c, s)
    BY <1>3 DEF ApplyUnknown, FlagCallback, CallbackDies
  <2> HIDE DEF s
  <2>4. CallbackOK(s)
    BY <2>2, NoStates DEF CallbackOK
  <2>5. QED
    BY <2>1, <2>3, <2>4
<1>4. CASE DebitCallback(c)
  <2> DEFINE s == [callback[c] EXCEPT !.pc = "flagging", !.paid = NonePaid, !.win = NoDoc]
  <2>1. s \in CallbackStates
    BY <1>0, NoStates DEF CallbackStates
  <2>2. s.doc = callback[c].doc /\ s.pc = "flagging" /\ s.paid = NonePaid
    BY <1>0 DEF CallbackStates
  <2>3. callback[c].doc # NoDoc
    BY <1>0, <1>4 DEF DebitCallback, CallbackOK
  <2>4. Hear(c, s)
    BY <1>4 DEF DebitCallback
  <2> HIDE DEF s
  <2>5. CallbackOK(s)
    BY <2>2, <2>3, NoStates DEF CallbackOK
  <2>6. QED
    BY <2>1, <2>4, <2>5
<1>5. QED
  BY <1>1, <1>2, <1>3, <1>4 DEF CallbackStep

\* What a callback does to its list, its total and the document of its last payment.
LEMMA CallbackLists ==
  ASSUME TypeOK, NEW c \in Callbacks, CallbackStep(c)
  PROVE  /\ \A d \in Callbacks \ {c} : callback'[d] = callback[d]
         /\ \/ /\ Deliver(c) /\ callback'[c].paid = callback[c].paid /\ callback'[c].win = callback[c].win
               /\ \A e \in Said(callback'[c].todo) :
                    e = Stranger \/ \E r \in WalletRecords : provider[r] # "none" /\ e = Entry(r)
            \/ \E e \in Reports :
                 /\ Apply(c) /\ Update(e) /\ callback[c].todo # <<>> /\ e = Head(callback[c].todo)
                 /\ callback'[c].paid = Add(callback[c].paid, e)
                 /\ callback'[c].todo = Tail(callback[c].todo)
                 /\ callback'[c].win = IF e.ok THEN DocOf[e.id] ELSE callback[c].win
            \/ /\ DebitCallback(c) /\ Charge(callback[c].paid, callback[c].win)
               /\ callback'[c].paid = NonePaid /\ callback'[c].win = NoDoc
               /\ callback'[c].todo = callback[c].todo
            \/ /\ ApplyUnknown(c) \/ FlagCallback(c) \/ CallbackDies(c)
               /\ callback'[c].paid = NonePaid /\ callback'[c].todo = <<>> /\ callback'[c].win = NoDoc
<1>0. callback[c] \in CallbackStates
  BY DEF TypeOK
<1>1. ASSUME NEW s, Hear(c, s) PROVE callback'[c] = s /\ \A d \in Callbacks \ {c} : callback'[d] = callback[d]
  BY <1>1 DEF TypeOK, Hear
<1>2. CASE Deliver(c)
  <2>1. PICK L \in Lists(Decided(WalletRecords) \cup {Unknown}) :
          Hear(c, [callback[c] EXCEPT !.pc = "applying", !.todo = Report(L)])
    BY <1>2 DEF Deliver
  <2> DEFINE s == [callback[c] EXCEPT !.pc = "applying", !.todo = Report(L)]
  <2>2. s.paid = callback[c].paid /\ s.win = callback[c].win /\ s.todo = Report(L)
    BY <1>0 DEF CallbackStates
  <2>3. \A e \in Said(Report(L)) : \E r \in Decided(WalletRecords) \cup {Unknown} : e = Entry(r)
    <3>1. \A r \in Decided(WalletRecords) \cup {Unknown} : Entry(r) \in {Entry(x) : x \in Decided(WalletRecords) \cup {Unknown}}
      OBVIOUS
    <3>2. QED
      BY <3>1, ReportType
  <2>4. \A e \in Said(Report(L)) : e = Stranger \/ \E r \in WalletRecords : provider[r] # "none" /\ e = Entry(r)
    BY <2>3, EntriesType DEF Decided
  <2>5. Hear(c, s)
    BY <2>1
  <2> HIDE DEF s
  <2>6. QED
    BY <1>1, <1>2, <2>2, <2>4, <2>5
<1>3. CASE Apply(c)
  <2> DEFINE e == Head(callback[c].todo)
             s == [callback[c] EXCEPT !.todo = Tail(@), !.paid = Add(@, e), !.doc = DocOf[e.id],
                                      !.win = IF e.ok THEN DocOf[e.id] ELSE @]
  <2>1. callback[c].todo # <<>> /\ e # Stranger /\ Hear(c, s) /\ Update(e)
    BY <1>3 DEF Apply
  <2>2. callback[c].todo \in Seq(Reports \cup {Stranger})
    BY <1>0 DEF CallbackStates
  <2>3. e \in Reports
    BY <2>1, <2>2, SaidRest
  <2>4. e = Head(callback[c].todo)
    OBVIOUS
  <2> HIDE DEF e
  <2>5. /\ s.todo = Tail(callback[c].todo) /\ s.paid = Add(callback[c].paid, e)
        /\ s.win = IF e.ok THEN DocOf[e.id] ELSE callback[c].win
    BY <1>0 DEF CallbackStates
  <2> HIDE DEF s
  <2>6. QED
    BY <1>1, <1>3, <2>1, <2>3, <2>4, <2>5
<1>4. CASE DebitCallback(c)
  <2> DEFINE s == [callback[c] EXCEPT !.pc = "flagging", !.paid = NonePaid, !.win = NoDoc]
  <2>1. Hear(c, s) /\ Charge(callback[c].paid, callback[c].win)
    BY <1>4 DEF DebitCallback
  <2>2. s.paid = NonePaid /\ s.todo = callback[c].todo /\ s.win = NoDoc
    BY <1>0 DEF CallbackStates
  <2> HIDE DEF s
  <2>3. QED
    BY <1>1, <1>4, <2>1, <2>2
<1>5. CASE ApplyUnknown(c) \/ FlagCallback(c) \/ CallbackDies(c)
  <2> DEFINE s == [NoCallback EXCEPT !.pc = "done"]
  <2>1. Hear(c, s)
    BY <1>5 DEF ApplyUnknown, FlagCallback, CallbackDies
  <2>2. s.paid = NonePaid /\ s.todo = <<>> /\ s.win = NoDoc
    BY DEF NoCallback
  <2> HIDE DEF s
  <2>3. QED
    BY <1>1, <1>5, <2>1, <2>2
<1>6. QED
  BY <1>2, <1>3, <1>4, <1>5 DEF CallbackStep

LEMMA CallbackType == ASSUME TypeOK, NEW c \in Callbacks, CallbackStep(c) PROVE TypeOK'
<1> USE BulkAssumption
<1>0. callback[c] \in CallbackStates /\ CallbackOK(callback[c])
  BY DEF TypeOK
<1>1. CallbacksOK'
  BY CallbackGoes, HearType
<1>2. UNCHANGED <<provider, run, inquiry, paidOut, undone>>
  BY DEF CallbackStep, Deliver, Apply, ApplyUnknown, DebitCallback, FlagCallback, CallbackDies, books
<1>3. RunsOK' /\ InquiriesOK'
  BY <1>2 DEF TypeOK, RunsOK, InquiriesOK, RunOK, InquiryOK
<1>4. txn' \in [Docs -> TxnRows]
  BY FlagType DEF CallbackStep, Deliver, Apply, ApplyUnknown, DebitCallback, FlagCallback, CallbackDies, TypeOK, RowsOK
<1>5. record' \in [Records -> Verdicts] /\ told' \in [Records -> 0..2] /\ wins' \in [Records -> Nat]
  <2>1. ASSUME NEW e \in Reports, Update(e)
        PROVE  record' \in [Records -> Verdicts] /\ told' \in [Records -> 0..2] /\ wins' \in [Records -> Nat]
    BY <2>1, UpdateType
  <2>2. CASE UNCHANGED <<record, told, wins>>
    BY <2>2 DEF TypeOK, RowsOK, BooksOK
  <2>3. QED
    BY <2>1, <2>2, CallbackLists DEF Deliver, ApplyUnknown, DebitCallback, FlagCallback, CallbackDies, books, heard
<1>6. debits' \in [Records -> Nat] /\ payers' \in [Records -> SUBSET Docs]
  <2>1. CASE DebitCallback(c)
    <3>1. callback[c].paid \in [Records -> Nat] /\ (Paid(callback[c].paid) # {} => callback[c].win \in Docs)
      BY <1>0 DEF CallbackStates, CallbackOK
    <3>2. Charge(callback[c].paid, callback[c].win)
      BY <2>1 DEF DebitCallback
    <3>3. QED
      BY <3>1, <3>2, ChargeType
  <2>2. CASE UNCHANGED <<debits, payers>>
    BY <2>2 DEF TypeOK, BooksOK
  <2>3. QED
    BY <2>1, <2>2 DEF CallbackStep, Deliver, Apply, ApplyUnknown, FlagCallback, CallbackDies, books, ledger
<1>7. cut' \in [Records -> BOOLEAN]
  <2>1. cut' = cut \/ \E R : CutAll(R)
    BY DEF CallbackStep, Deliver, Apply, ApplyUnknown, DebitCallback, FlagCallback, CallbackDies, books
  <2>2. QED
    BY <2>1, CutType DEF TypeOK, BooksOK
<1>8. faults' \in 0..MaxFaults
  <2>1. faults' = faults \/ Fault
    BY DEF CallbackStep, Deliver, Apply, ApplyUnknown, DebitCallback, FlagCallback, CallbackDies
  <2>2. QED
    BY <2>1, FaultType DEF TypeOK, BooksOK
<1>9. QED
  BY <1>1, <1>2, <1>3, <1>4, <1>5, <1>6, <1>7, <1>8, Parts DEF TypeOK, RowsOK, BooksOK

LEMMA InquiryGoes ==
  ASSUME TypeOK, NEW q \in Inquiries, InquiryStep(q)
  PROVE  \E s \in InquiryStates : InquiryOK(s) /\ Inquire(q, s)
<1> USE BulkAssumption
<1>0. inquiry[q] \in InquiryStates /\ InquiryOK(inquiry[q])
  BY DEF TypeOK
<1>1. CASE Select(q)
  <2> DEFINE s == [inquiry[q] EXCEPT !.pc = "asking", !.docs = Late]
  <2>1. s \in InquiryStates
    BY <1>0 DEF InquiryStates, Late
  <2>2. s.pc = "asking"
    BY <1>0 DEF InquiryStates
  <2>3. QED
    BY <1>1, <2>1, <2>2 DEF Select, InquiryOK
<1>2. ASSUME NEW d \in Docs, Ask(q, d) PROVE \E s \in InquiryStates : InquiryOK(s) /\ Inquire(q, s)
  <2>1. PICK L \in Lists(Decided(WalletRecords)) :
          Inquire(q, [inquiry[q] EXCEPT !.pc = "applying", !.docs = @ \ {d}, !.doc = d, !.todo = Report(L)])
    BY <1>2 DEF Ask
  <2> DEFINE s == [inquiry[q] EXCEPT !.pc = "applying", !.docs = @ \ {d}, !.doc = d, !.todo = Report(L)]
  <2>2. Report(L) \in Seq(Reports)
    <3>1. \A r \in Decided(WalletRecords) : Entry(r) \in Reports
      BY EntriesType DEF Decided
    <3>2. QED
      BY <3>1, ReportType
  <2>3. s \in InquiryStates
    BY <1>0, <2>2 DEF InquiryStates
  <2>4. s.doc = d
    BY <1>0 DEF InquiryStates
  <2>5. QED
    BY <2>1, <2>3, <2>4 DEF InquiryOK
<1>3. ASSUME NEW d \in Docs, AskInVain(q, d) PROVE \E s \in InquiryStates : InquiryOK(s) /\ Inquire(q, s)
  <2> DEFINE s == [inquiry[q] EXCEPT !.docs = @ \ {d}]
  <2>1. s \in InquiryStates
    BY <1>0 DEF InquiryStates
  <2>2. s.pc = inquiry[q].pc /\ s.doc = inquiry[q].doc
    BY <1>0 DEF InquiryStates
  <2>3. QED
    BY <1>0, <1>3, <2>1, <2>2 DEF AskInVain, InquiryOK
<1>4. CASE ApplyLate(q)
  <2> DEFINE e == Head(inquiry[q].todo)
             s == [inquiry[q] EXCEPT !.todo = Tail(@), !.paid = Add(@, e)]
  <2>1. inquiry[q].todo \in Seq(Reports) /\ inquiry[q].todo # <<>> /\ inquiry[q].paid \in [Records -> Nat]
    BY <1>0, <1>4 DEF InquiryStates, ApplyLate
  <2>2. e \in Reports /\ Tail(inquiry[q].todo) \in Seq(Reports)
    BY <2>1, SaidRest
  <2>3. Inquire(q, s)
    BY <1>4 DEF ApplyLate
  <2> HIDE DEF e
  <2>4. Add(inquiry[q].paid, e) \in [Records -> Nat]
    BY <2>1, <2>2, AddType
  <2>5. s \in InquiryStates
    BY <1>0, <2>2, <2>4 DEF InquiryStates
  <2>6. s.doc = inquiry[q].doc /\ s.pc = inquiry[q].pc
    BY <1>0 DEF InquiryStates
  <2> HIDE DEF s
  <2>7. QED
    BY <1>0, <2>3, <2>5, <2>6 DEF InquiryOK
<1>5. CASE DebitLate(q)
  <2> DEFINE s == [inquiry[q] EXCEPT !.pc = "flagging", !.paid = NonePaid]
  <2>1. s \in InquiryStates
    BY <1>0, NoStates DEF InquiryStates
  <2>2. s.doc = inquiry[q].doc /\ inquiry[q].doc # NoDoc
    BY <1>0, <1>5 DEF DebitLate, InquiryStates, InquiryOK
  <2>3. QED
    BY <1>5, <2>1, <2>2 DEF DebitLate, InquiryOK
<1>6. CASE FlagLate(q) \/ EndInquiry(q)
  <2> DEFINE s == [inquiry[q] EXCEPT !.pc = "asking", !.doc = NoDoc]
             t == [inquiry[q] EXCEPT !.pc = "done"]
  <2>1. s \in InquiryStates /\ t \in InquiryStates
    BY <1>0 DEF InquiryStates
  <2>2. s.pc = "asking" /\ t.pc = "done"
    BY <1>0 DEF InquiryStates
  <2>3. QED
    BY <1>6, <2>1, <2>2 DEF FlagLate, EndInquiry, InquiryOK
<1>7. CASE InquiryDies(q)
  <2>1. [NoInquiry EXCEPT !.pc = "done"] \in InquiryStates
    BY NoStates DEF InquiryStates
  <2>2. InquiryOK([NoInquiry EXCEPT !.pc = "done"])
    BY DEF NoInquiry, InquiryOK
  <2>3. QED
    BY <1>7, <2>1, <2>2 DEF InquiryDies
<1>8. QED
  BY <1>1, <1>2, <1>3, <1>4, <1>5, <1>6, <1>7 DEF InquiryStep

LEMMA InquiryLists ==
  ASSUME TypeOK, NEW q \in Inquiries, InquiryStep(q)
  PROVE  /\ \A p \in Inquiries \ {q} : inquiry'[p] = inquiry[p]
         /\ \/ /\ \E d \in Docs : Ask(q, d)
               /\ inquiry'[q].paid = inquiry[q].paid
               /\ \A e \in Said(inquiry'[q].todo) : \E r \in WalletRecords : provider[r] # "none" /\ e = Entry(r)
            \/ \E e \in Reports :
                 /\ ApplyLate(q) /\ Update(e) /\ inquiry[q].todo # <<>> /\ e = Head(inquiry[q].todo)
                 /\ inquiry'[q].paid = Add(inquiry[q].paid, e)
                 /\ inquiry'[q].todo = Tail(inquiry[q].todo)
            \/ /\ DebitLate(q) /\ Charge(inquiry[q].paid, inquiry[q].doc)
               /\ inquiry'[q].paid = NonePaid /\ inquiry'[q].todo = inquiry[q].todo
            \/ /\ Select(q) \/ (\E d \in Docs : AskInVain(q, d)) \/ FlagLate(q) \/ EndInquiry(q)
               /\ inquiry'[q].paid = inquiry[q].paid /\ inquiry'[q].todo = inquiry[q].todo
            \/ InquiryDies(q) /\ inquiry'[q].paid = NonePaid /\ inquiry'[q].todo = <<>>
<1>0. inquiry[q] \in InquiryStates
  BY DEF TypeOK
<1>1. ASSUME NEW s, Inquire(q, s) PROVE inquiry'[q] = s /\ \A p \in Inquiries \ {q} : inquiry'[p] = inquiry[p]
  BY <1>1 DEF TypeOK, Inquire
<1>2. ASSUME NEW d \in Docs, Ask(q, d)
      PROVE  /\ \A p \in Inquiries \ {q} : inquiry'[p] = inquiry[p]
             /\ inquiry'[q].paid = inquiry[q].paid
             /\ \A e \in Said(inquiry'[q].todo) : \E r \in WalletRecords : provider[r] # "none" /\ e = Entry(r)
  <2>1. PICK L \in Lists(Decided(WalletRecords)) :
          Inquire(q, [inquiry[q] EXCEPT !.pc = "applying", !.docs = @ \ {d}, !.doc = d, !.todo = Report(L)])
    BY <1>2 DEF Ask
  <2> DEFINE s == [inquiry[q] EXCEPT !.pc = "applying", !.docs = @ \ {d}, !.doc = d, !.todo = Report(L)]
  <2>2. s.paid = inquiry[q].paid /\ s.todo = Report(L)
    BY <1>0 DEF InquiryStates
  <2>3. \A e \in Said(Report(L)) : \E r \in Decided(WalletRecords) : e = Entry(r)
    <3>1. \A r \in Decided(WalletRecords) : Entry(r) \in {Entry(x) : x \in Decided(WalletRecords)}
      OBVIOUS
    <3>2. QED
      BY <3>1, ReportType
  <2>4. \A e \in Said(Report(L)) : \E r \in WalletRecords : provider[r] # "none" /\ e = Entry(r)
    BY <2>3 DEF Decided
  <2>5. Inquire(q, s)
    BY <2>1
  <2> HIDE DEF s
  <2>6. QED
    BY <1>1, <2>2, <2>4, <2>5
<1>3. CASE ApplyLate(q)
  <2> DEFINE e == Head(inquiry[q].todo)
             s == [inquiry[q] EXCEPT !.todo = Tail(@), !.paid = Add(@, e)]
  <2>1. inquiry[q].todo \in Seq(Reports) /\ inquiry[q].todo # <<>> /\ Update(e) /\ Inquire(q, s)
    BY <1>0, <1>3 DEF ApplyLate, InquiryStates
  <2>2. e \in Reports
    BY <2>1, SaidRest
  <2>3. e = Head(inquiry[q].todo)
    OBVIOUS
  <2> HIDE DEF e
  <2>4. s.paid = Add(inquiry[q].paid, e) /\ s.todo = Tail(inquiry[q].todo)
    BY <1>0 DEF InquiryStates
  <2> HIDE DEF s
  <2>5. QED
    BY <1>1, <1>3, <2>1, <2>2, <2>3, <2>4
<1>4. CASE DebitLate(q)
  <2> DEFINE s == [inquiry[q] EXCEPT !.pc = "flagging", !.paid = NonePaid]
  <2>1. Inquire(q, s) /\ Charge(inquiry[q].paid, inquiry[q].doc)
    BY <1>4 DEF DebitLate
  <2>2. s.paid = NonePaid /\ s.todo = inquiry[q].todo
    BY <1>0 DEF InquiryStates
  <2> HIDE DEF s
  <2>3. QED
    BY <1>1, <1>4, <2>1, <2>2
<1>5. CASE Select(q) \/ (\E d \in Docs : AskInVain(q, d)) \/ FlagLate(q) \/ EndInquiry(q)
  <2>1. PICK s : Inquire(q, s) /\ s.paid = inquiry[q].paid /\ s.todo = inquiry[q].todo
    <3>1. CASE Select(q)
      <4> DEFINE s == [inquiry[q] EXCEPT !.pc = "asking", !.docs = Late]
      <4>1. s.paid = inquiry[q].paid /\ s.todo = inquiry[q].todo
        BY <1>0 DEF InquiryStates
      <4>2. QED
        BY <3>1, <4>1 DEF Select
    <3>2. ASSUME NEW d \in Docs, AskInVain(q, d)
          PROVE  \E s : Inquire(q, s) /\ s.paid = inquiry[q].paid /\ s.todo = inquiry[q].todo
      <4> DEFINE s == [inquiry[q] EXCEPT !.docs = @ \ {d}]
      <4>1. s.paid = inquiry[q].paid /\ s.todo = inquiry[q].todo
        BY <1>0 DEF InquiryStates
      <4>2. QED
        BY <3>2, <4>1 DEF AskInVain
    <3>3. CASE FlagLate(q)
      <4> DEFINE s == [inquiry[q] EXCEPT !.pc = "asking", !.doc = NoDoc]
      <4>1. s.paid = inquiry[q].paid /\ s.todo = inquiry[q].todo
        BY <1>0 DEF InquiryStates
      <4>2. QED
        BY <3>3, <4>1 DEF FlagLate
    <3>4. CASE EndInquiry(q)
      <4> DEFINE s == [inquiry[q] EXCEPT !.pc = "done"]
      <4>1. s.paid = inquiry[q].paid /\ s.todo = inquiry[q].todo
        BY <1>0 DEF InquiryStates
      <4>2. QED
        BY <3>4, <4>1 DEF EndInquiry
    <3>5. QED
      BY <1>5, <3>1, <3>2, <3>3, <3>4
  <2>2. QED
    BY <1>1, <1>5, <2>1
<1>6. CASE InquiryDies(q)
  <2> DEFINE s == [NoInquiry EXCEPT !.pc = "done"]
  <2>1. Inquire(q, s)
    BY <1>6 DEF InquiryDies
  <2>2. s.paid = NonePaid /\ s.todo = <<>>
    BY DEF NoInquiry
  <2> HIDE DEF s
  <2>3. QED
    BY <1>1, <1>6, <2>1, <2>2
<1>7. QED
  BY <1>2, <1>3, <1>4, <1>5, <1>6 DEF InquiryStep

LEMMA InquiryType == ASSUME TypeOK, NEW q \in Inquiries, InquiryStep(q) PROVE TypeOK'
<1> USE BulkAssumption
<1>0. inquiry[q] \in InquiryStates /\ InquiryOK(inquiry[q])
  BY DEF TypeOK
<1>1. InquiriesOK'
  BY InquiryGoes, InquireType
<1>2. UNCHANGED <<provider, run, callback, paidOut, undone>>
  BY DEF InquiryStep, Select, Ask, AskInVain, ApplyLate, DebitLate, FlagLate, EndInquiry, InquiryDies, books
<1>3. RunsOK' /\ CallbacksOK'
  BY <1>2 DEF TypeOK, RunsOK, CallbacksOK, RunOK, CallbackOK
<1>4. txn' \in [Docs -> TxnRows]
  <2>1. CASE FlagLate(q)
    BY <2>1 DEF FlagLate, TypeOK, RowsOK, TxnRows
  <2>2. QED
    BY <2>1 DEF InquiryStep, Select, Ask, AskInVain, ApplyLate, DebitLate, EndInquiry, InquiryDies, TypeOK, RowsOK
<1>5. record' \in [Records -> Verdicts] /\ told' \in [Records -> 0..2] /\ wins' \in [Records -> Nat]
  <2>1. ASSUME NEW e \in Reports, Update(e)
        PROVE  record' \in [Records -> Verdicts] /\ told' \in [Records -> 0..2] /\ wins' \in [Records -> Nat]
    BY <2>1, UpdateType
  <2>2. CASE UNCHANGED <<record, told, wins>>
    BY <2>2 DEF TypeOK, RowsOK, BooksOK
  <2>3. QED
    BY <2>1, <2>2, InquiryLists DEF Select, Ask, AskInVain, DebitLate, FlagLate, EndInquiry, InquiryDies, books, heard
<1>6. debits' \in [Records -> Nat] /\ payers' \in [Records -> SUBSET Docs]
  <2>1. CASE DebitLate(q)
    <3>1. inquiry[q].paid \in [Records -> Nat] /\ inquiry[q].doc \in Docs
      BY <1>0, <2>1 DEF DebitLate, InquiryStates, InquiryOK
    <3>2. Charge(inquiry[q].paid, inquiry[q].doc)
      BY <2>1 DEF DebitLate
    <3>3. QED
      BY <3>1, <3>2, ChargeType
  <2>2. CASE UNCHANGED <<debits, payers>>
    BY <2>2 DEF TypeOK, BooksOK
  <2>3. QED
    BY <2>1, <2>2 DEF InquiryStep, Select, Ask, AskInVain, ApplyLate, FlagLate, EndInquiry, InquiryDies, books, ledger
<1>7. cut' \in [Records -> BOOLEAN]
  <2>1. cut' = cut \/ \E R : CutAll(R)
    BY DEF InquiryStep, Select, Ask, AskInVain, ApplyLate, DebitLate, FlagLate, EndInquiry, InquiryDies, books
  <2>2. QED
    BY <2>1, CutType DEF TypeOK, BooksOK
<1>8. faults' \in 0..MaxFaults
  <2>1. faults' = faults \/ Fault
    BY DEF InquiryStep, Select, Ask, AskInVain, ApplyLate, DebitLate, FlagLate, EndInquiry, InquiryDies
  <2>2. QED
    BY <2>1, FaultType DEF TypeOK, BooksOK
<1>9. QED
  BY <1>1, <1>2, <1>3, <1>4, <1>5, <1>6, <1>7, <1>8, Parts DEF TypeOK, RowsOK, BooksOK

LEMMA BulkTypeStep == ASSUME TypeOK, [Next]_vars PROVE TypeOK'
<1>1. CASE UNCHANGED vars
  BY <1>1 DEF vars, books, ledger, heard, TypeOK, RowsOK, BooksOK, RunOK, CallbackOK, InquiryOK
<1>2. CASE Next
  BY <1>2, RunType, ProviderType, CallbackType, InquiryType DEF Next
<1>3. QED
  BY <1>1, <1>2

\* Rows, tasks, callbacks and inquiries keep their shapes, for any number of them.
THEOREM TypeTheorem == Spec => []TypeOK
BY BulkTypeInit, BulkTypeStep, PTL DEF Spec

-----------------------------------------------------------------------------
(* What the steps of a task do to the record in its hand *)

Holding(k)  == run[k].pc \in {"debiting", "saving"}
Others(k)   == \A j \in Runs \ {k} : run'[j] = run[j]
QuietRun(k) ==
  \/ \E d \in Docs : Queue(k, d)
  \/ LoadTxn(k) \/ MarkDisbursed(k) \/ ApiDies(k) \/ StartRun(k) \/ EndFirstRound(k)
  \/ EndSecondRound(k) \/ \E r \in Records : Post(k, r)

LEMMA GoIs ==
  ASSUME TypeOK, NEW k \in Runs, NEW s, Go(k, s)
  PROVE  run'[k] = s /\ Others(k)
BY DEF TypeOK, Go, Others

LEMMA QuietRunKeeps ==
  ASSUME TypeOK, NEW k \in Runs, QuietRun(k)
  PROVE  /\ Holding(k) <=> Holding(k)'
         /\ run'[k].pc = "debiting" <=> run[k].pc = "debiting"
         /\ Holding(k) => run'[k].at = run[k].at /\ run'[k].will = run[k].will
         /\ \A r \in Deposits : run'[k].seen[r] \in {run[k].seen[r], record[r], "open"}
         /\ Others(k)
<1>0. run[k] \in RunStates /\ RunOK(run[k])
  BY DEF TypeOK
<1>1. ASSUME NEW d \in Docs, Queue(k, d)
      PROVE  /\ run[k].pc = "none" /\ run'[k].pc = "queued" /\ run'[k].seen = run[k].seen /\ Others(k)
  <2> DEFINE s == [run[k] EXCEPT !.api = "queued", !.doc = d, !.pc = "queued"]
  <2>1. Go(k, s) /\ run[k].pc = "none"
    BY <1>0, <1>1 DEF Queue, RunOK
  <2>2. s.pc = "queued" /\ s.seen = run[k].seen
    BY <1>0 DEF RunStates
  <2> HIDE DEF s
  <2>3. QED
    BY <2>1, <2>2, GoIs
<1>2. CASE LoadTxn(k) \/ MarkDisbursed(k) \/ ApiDies(k) \/ EndFirstRound(k)
  <2>1. PICK s : /\ Go(k, s)
                 /\ s.pc = run[k].pc /\ s.at = run[k].at /\ s.will = run[k].will /\ s.seen = run[k].seen
    <3>1. CASE LoadTxn(k)
      <4> DEFINE s == [run[k] EXCEPT !.api = "loaded", !.copy = txn[run[k].doc].has_callback]
      <4>1. s.pc = run[k].pc /\ s.at = run[k].at /\ s.will = run[k].will /\ s.seen = run[k].seen
        BY <1>0 DEF RunStates
      <4>2. QED
        BY <3>1, <4>1 DEF LoadTxn
    <3>2. CASE MarkDisbursed(k) \/ ApiDies(k)
      <4> DEFINE s == [run[k] EXCEPT !.api = "done", !.copy = FALSE]
      <4>1. s.pc = run[k].pc /\ s.at = run[k].at /\ s.will = run[k].will /\ s.seen = run[k].seen
        BY <1>0 DEF RunStates
      <4>2. QED
        BY <3>2, <4>1 DEF MarkDisbursed, ApiDies
    <3>3. CASE EndFirstRound(k)
      <4> DEFINE s == [run[k] EXCEPT !.round = 2, !.todo = SecondRound(run[k].doc)]
      <4>1. s.pc = run[k].pc /\ s.at = run[k].at /\ s.will = run[k].will /\ s.seen = run[k].seen
        BY <1>0 DEF RunStates
      <4>2. QED
        BY <3>3, <4>1 DEF EndFirstRound
    <3>4. QED
      BY <1>2, <3>1, <3>2, <3>3
  <2>2. QED
    BY <2>1, GoIs DEF Holding
<1>3. CASE StartRun(k)
  <2> DEFINE s == [run[k] EXCEPT !.pc = "posting", !.todo = FirstRound(run[k].doc),
                                 !.seen = [r \in Deposits |-> record[r]]]
  <2>1. Go(k, s) /\ run[k].pc = "queued"
    BY <1>3 DEF StartRun
  <2>2. s.pc = "posting" /\ s.seen = [r \in Deposits |-> record[r]]
    BY <1>0 DEF RunStates
  <2> HIDE DEF s
  <2>3. QED
    BY <2>1, <2>2, GoIs DEF Holding
<1>4. CASE EndSecondRound(k)
  <2> DEFINE s == [run[k] EXCEPT !.pc = "done", !.round = 1, !.seen = NoRun.seen]
  <2>1. Go(k, s) /\ run[k].pc = "posting"
    BY <1>4 DEF EndSecondRound
  <2>2. s.pc = "done" /\ s.seen = NoRun.seen
    BY <1>0 DEF RunStates
  <2>3. NoRun.seen = [r \in Deposits |-> "open"]
    BY DEF NoRun
  <2> HIDE DEF s
  <2>4. QED
    BY <2>1, <2>2, <2>3, GoIs DEF Holding
<1>5. ASSUME NEW r \in Records, Post(k, r)
      PROVE  run[k].pc = "posting" /\ run'[k].pc = "waiting" /\ run'[k].seen = run[k].seen /\ Others(k)
  <2> DEFINE s == [run[k] EXCEPT !.pc = "waiting", !.at = r, !.todo = @ \ {r}]
  <2>1. Go(k, s) /\ run[k].pc = "posting"
    BY <1>5 DEF Post
  <2>2. s.pc = "waiting" /\ s.seen = run[k].seen
    BY <1>0 DEF RunStates
  <2> HIDE DEF s
  <2>3. QED
    BY <2>1, <2>2, GoIs
<1>6. QED
  BY <1>1, <1>2, <1>3, <1>4, <1>5 DEF QuietRun, Holding

LEMMA Decides ==
  ASSUME TypeOK, NEW k \in Runs, NEW verdict, NEW pc, Decide(k, verdict, pc)
  PROVE  /\ run'[k].pc = pc /\ run'[k].will = verdict /\ run'[k].at = run[k].at
         /\ run'[k].seen = run[k].seen /\ Others(k) /\ Tell(run[k].at)
<1> DEFINE s == [run[k] EXCEPT !.pc = pc, !.will = verdict]
<1>1. run[k] \in RunStates /\ Go(k, s) /\ Tell(run[k].at)
  BY DEF TypeOK, Decide
<1>2. s.pc = pc /\ s.will = verdict /\ s.at = run[k].at /\ s.seen = run[k].seen
  BY <1>1 DEF RunStates
<1> HIDE DEF s
<1>3. QED
  BY <1>1, <1>2, GoIs

LEMMA Releases ==
  ASSUME TypeOK, NEW k \in Runs, NextRecord(k) \/ RunDies(k)
  PROVE  /\ run'[k].pc \in {"posting", "dead"}
         /\ \A r \in Deposits : run'[k].seen[r] \in {run[k].seen[r], "open"}
         /\ Others(k)
<1>0. run[k] \in RunStates
  BY DEF TypeOK
<1>1. CASE NextRecord(k)
  <2> DEFINE s == [run[k] EXCEPT !.pc = "posting", !.at = NoRecord, !.will = "open"]
  <2>1. Go(k, s)
    BY <1>1 DEF NextRecord
  <2>2. s.pc = "posting" /\ s.seen = run[k].seen
    BY <1>0 DEF RunStates
  <2> HIDE DEF s
  <2>3. QED
    BY <2>1, <2>2, GoIs
<1>2. CASE RunDies(k)
  <2> DEFINE s == [run[k] EXCEPT !.pc = "dead", !.round = 1, !.todo = {},
                      !.at = NoRecord, !.will = "open", !.seen = NoRun.seen]
  <2>1. Go(k, s)
    BY <1>2 DEF RunDies
  <2>2. s.pc = "dead" /\ s.seen = NoRun.seen
    BY <1>0 DEF RunStates
  <2>3. NoRun.seen = [r \in Deposits |-> "open"]
    BY DEF NoRun
  <2> HIDE DEF s
  <2>4. QED
    BY <2>1, <2>2, <2>3, GoIs
<1>3. QED
  BY <1>1, <1>2

LEMMA Debits ==
  ASSUME TypeOK, NEW k \in Runs, Debit(k)
  PROVE  /\ run'[k].pc = "saving" /\ run'[k].will = run[k].will /\ run'[k].at = run[k].at
         /\ run'[k].seen = run[k].seen /\ Others(k)
<1> DEFINE s == [run[k] EXCEPT !.pc = "saving"]
<1>1. run[k] \in RunStates /\ Go(k, s)
  BY DEF TypeOK, Debit
<1>2. s.pc = "saving" /\ s.will = run[k].will /\ s.at = run[k].at /\ s.seen = run[k].seen
  BY <1>1 DEF RunStates
<1> HIDE DEF s
<1>3. QED
  BY <1>1, <1>2, GoIs

-----------------------------------------------------------------------------
(* Whoever is about to debit a record has the provider's word for it *)

TrueEntries(todo) == \A e \in Said(todo) : e # Stranger /\ e.ok => paidOut[e.id]
TrueList(paid)    == \A r \in Records : paid[r] > 0 => paidOut[r]

TruthInv ==
  /\ \A r \in Records : (provider[r] = "paid" \/ debits[r] > 0) => paidOut[r]
  /\ \A k \in Runs : run[k].pc = "debiting" => paidOut[run[k].at]
  /\ \A c \in Callbacks : TrueEntries(callback[c].todo) /\ TrueList(callback[c].paid)
  /\ \A q \in Inquiries : TrueEntries(inquiry[q].todo) /\ TrueList(inquiry[q].paid)

LEMMA TrueRest ==
  ASSUME NEW S, NEW L \in Seq(S), TrueEntries(L), L # <<>>
  PROVE  TrueEntries(Tail(L)) /\ (Head(L) # Stranger /\ Head(L).ok => paidOut[Head(L).id])
BY SaidRest DEF TrueEntries

LEMMA TrueEnds == TrueEntries(<<>>) /\ TrueList(NonePaid)
<1>1. Said(<<>>) = {}
  BY EmptySeq DEF Said
<1>2. QED
  BY <1>1 DEF TrueEntries, TrueList, NonePaid

LEMMA TrueEntry ==
  ASSUME TruthInv, NEW r \in WalletRecords, Entry(r).ok
  PROVE  paidOut[Entry(r).id]
BY EntriesType DEF TruthInv

LEMMA TrueCharge ==
  ASSUME TypeOK, TruthInv, NEW total \in [Records -> Nat], NEW d, TrueList(total), Charge(total, d)
  PROVE  \A r \in Records : debits'[r] > 0 => paidOut[r]
<1>1. ASSUME NEW r \in Records, debits'[r] > 0 PROVE paidOut[r]
  <2>1. debits'[r] = debits[r] + total[r] /\ debits[r] \in Nat /\ total[r] \in Nat
    BY DEF Charge, TypeOK, BooksOK
  <2>2. debits[r] > 0 \/ total[r] > 0
    BY <1>1, <2>1
  <2>3. QED
    BY <2>2 DEF TruthInv, TrueList
<1>2. QED
  BY <1>1

LEMMA TrueAdd ==
  ASSUME NEW total \in [Records -> Nat], TrueList(total), NEW e \in Reports, e.ok => paidOut[e.id]
  PROVE  TrueList(Add(total, e))
<1>1. ASSUME NEW r \in Records, Add(total, e)[r] > 0 PROVE paidOut[r]
  <2>1. Add(total, e)[r] = total[r] + (IF r = e.id /\ e.ok THEN 1 ELSE 0) /\ total[r] \in Nat
    BY AddType
  <2>2. total[r] > 0 \/ (r = e.id /\ e.ok)
    BY <1>1, <2>1
  <2>3. QED
    BY <2>2 DEF TrueList
<1>2. QED
  BY <1>1 DEF TrueList

LEMMA RunTruth ==
  ASSUME TypeOK, TruthInv, NEW k \in Runs,
         QuietRun(k) \/ BulkTask(k) \/ Raises(k) \/ RunDies(k)
  PROVE  TruthInv'
<1>0. UNCHANGED <<callback, inquiry, paidOut>>
  BY DEF QuietRun, Queue, LoadTxn, MarkDisbursed, ApiDies, BulkTask, Works, Answered, StartRun, EndFirstRound,
     EndSecondRound, Post, NoAnswer, AnswerPaid, AnswerRefused, AnswerUnknown, Debit, Save, Raises, RunDies, books
<1>1. \A r \in Records : provider'[r] = "paid" => paidOut[r]
  BY DEF QuietRun, Queue, LoadTxn, MarkDisbursed, ApiDies, BulkTask, Works, Answered, StartRun, EndFirstRound,
     EndSecondRound, Post, NoAnswer, AnswerPaid, AnswerRefused, AnswerUnknown, Debit, Save, Raises, RunDies,
     TruthInv, TypeOK, RowsOK
<1>2. \A r \in Records : debits'[r] > 0 => paidOut[r]
  <2>1. CASE debits' = debits
    BY <2>1 DEF TruthInv
  <2>2. CASE Debit(k)
    <3>1. run[k].pc = "debiting"
      BY <2>2 DEF Debit
    <3>2. \A r \in Records : debits[r] \in Nat /\ debits'[r] = debits[r] + (IF r = run[k].at THEN 1 ELSE 0)
      BY <2>2, OneType DEF TypeOK, BooksOK
    <3>3. QED
      BY <3>1, <3>2 DEF TruthInv
  <2>3. QED
    BY <2>1, <2>2 DEF QuietRun, Queue, LoadTxn, MarkDisbursed, ApiDies, BulkTask, Works, Answered, StartRun,
       EndFirstRound, EndSecondRound, Post, NoAnswer, AnswerPaid, AnswerRefused, AnswerUnknown, Save, Raises,
       RunDies, books, ledger
<1>3. Others(k) /\ (run'[k].pc = "debiting" => paidOut[run'[k].at])
  <2>1. CASE QuietRun(k)
    BY <2>1, QuietRunKeeps DEF TruthInv, Holding
  <2>2. CASE AnswerPaid(k)
    <3>1. run[k].at \in Records /\ provider[run[k].at] = "paid"
      BY <2>2 DEF AnswerPaid, TypeOK, RunOK
    <3>2. QED
      BY <2>2, <3>1, Decides DEF AnswerPaid, TruthInv
  <2>3. CASE AnswerRefused(k) \/ AnswerUnknown(k)
    BY <2>3, Decides DEF AnswerRefused, AnswerUnknown
  <2>4. CASE NoAnswer(k) \/ Save(k) \/ Raises(k) \/ RunDies(k)
    BY <2>4, Releases DEF NoAnswer, Save, Raises
  <2>5. CASE Debit(k)
    BY <2>5, Debits
  <2>6. QED
    BY <2>1, <2>2, <2>3, <2>4, <2>5 DEF BulkTask, Works, Answered, QuietRun
<1>4. QED
  BY <1>0, <1>1, <1>2, <1>3 DEF TruthInv, Others, TrueEntries, TrueList

LEMMA ProviderTruth == ASSUME TypeOK, TruthInv, NEW r \in Records, Pays(r) \/ Refuses(r) PROVE TruthInv'
<1>1. UNCHANGED <<run, callback, inquiry, debits>>
  BY DEF Pays, Refuses, books, ledger
<1>2. \A q \in Records : provider'[q] = "paid" => paidOut'[q]
  BY DEF Pays, Refuses, books, TypeOK, RowsOK, BooksOK, TruthInv
<1>3. \A x \in Records : paidOut[x] => paidOut'[x]
  <2>1. paidOut' = paidOut \/ paidOut' = [paidOut EXCEPT ![r] = TRUE]
    BY DEF Pays, Refuses, books
  <2>2. QED
    BY <2>1 DEF TypeOK, BooksOK
<1>4. \A k \in Runs : run[k].pc = "debiting" => run[k].at \in Records
  BY DEF TypeOK, RunOK
<1>5. \A c \in Callbacks : \A e \in Said(callback[c].todo) : e # Stranger => e.id \in Records
  <2>1. \A c \in Callbacks : callback[c].todo \in Seq(Reports \cup {Stranger})
    BY DEF TypeOK, CallbackStates
  <2>2. QED
    BY <2>1, SaidRest, EntriesType
<1>6. \A q \in Inquiries : \A e \in Said(inquiry[q].todo) : e.id \in Records
  <2>1. \A q \in Inquiries : inquiry[q].todo \in Seq(Reports)
    BY DEF TypeOK, InquiryStates
  <2>2. QED
    BY <2>1, SaidRest, EntriesType
<1>7. \A c \in Callbacks : TrueEntries(callback[c].todo)' /\ TrueList(callback[c].paid)'
  BY <1>1, <1>3, <1>5 DEF TruthInv, TrueEntries, TrueList
<1>8. \A q \in Inquiries : TrueEntries(inquiry[q].todo)' /\ TrueList(inquiry[q].paid)'
  BY <1>1, <1>3, <1>6 DEF TruthInv, TrueEntries, TrueList
<1>9. QED
  BY <1>1, <1>2, <1>3, <1>4, <1>7, <1>8 DEF TruthInv

LEMMA CallbackTruth == ASSUME TypeOK, TruthInv, NEW c \in Callbacks, CallbackStep(c) PROVE TruthInv'
<1>1. UNCHANGED <<run, inquiry, provider, paidOut>>
  BY DEF CallbackStep, Deliver, Apply, ApplyUnknown, DebitCallback, FlagCallback, CallbackDies, books
<1>2. /\ callback[c].paid \in [Records -> Nat] /\ callback[c].todo \in Seq(Reports \cup {Stranger})
      /\ TrueEntries(callback[c].todo) /\ TrueList(callback[c].paid)
  BY DEF TypeOK, CallbackStates, TruthInv
<1>3. \A r \in Records : debits'[r] > 0 => paidOut[r]
  <2>1. CASE debits' = debits
    BY <2>1 DEF TruthInv
  <2>2. CASE Charge(callback[c].paid, callback[c].win)
    BY <1>2, <2>2, TrueCharge
  <2>3. QED
    BY <2>1, <2>2 DEF CallbackStep, Deliver, Apply, ApplyUnknown, DebitCallback, FlagCallback, CallbackDies, books, ledger
<1>4. TrueEntries(callback'[c].todo) /\ TrueList(callback'[c].paid)
  <2>1. ASSUME \A e \in Said(callback'[c].todo) :
                 e = Stranger \/ \E r \in WalletRecords : provider[r] # "none" /\ e = Entry(r)
        PROVE  TrueEntries(callback'[c].todo)
    BY <2>1, TrueEntry DEF TrueEntries
  <2>2. ASSUME NEW e \in Reports, callback[c].todo # <<>>, e = Head(callback[c].todo)
        PROVE  TrueList(Add(callback[c].paid, e)) /\ TrueEntries(Tail(callback[c].todo))
    <3>1. e # Stranger
      BY EntriesType
    <3>2. (e.ok => paidOut[e.id]) /\ TrueEntries(Tail(callback[c].todo))
      BY <1>2, <2>2, <3>1, TrueRest
    <3>3. QED
      BY <1>2, <3>2, TrueAdd
  <2>3. QED
    BY <1>2, <2>1, <2>2, TrueEnds, CallbackLists
<1>5. \A d \in Callbacks \ {c} : callback'[d] = callback[d]
  BY CallbackLists
<1>6. \A d \in Callbacks : TrueEntries(callback'[d].todo) /\ TrueList(callback'[d].paid)
  BY <1>4, <1>5 DEF TruthInv
<1>7. QED
  BY <1>1, <1>3, <1>6 DEF TruthInv, TrueEntries, TrueList

LEMMA InquiryTruth == ASSUME TypeOK, TruthInv, NEW q \in Inquiries, InquiryStep(q) PROVE TruthInv'
<1>1. UNCHANGED <<run, callback, provider, paidOut>>
  BY DEF InquiryStep, Select, Ask, AskInVain, ApplyLate, DebitLate, FlagLate, EndInquiry, InquiryDies, books
<1>2. /\ inquiry[q].paid \in [Records -> Nat] /\ inquiry[q].todo \in Seq(Reports)
      /\ TrueEntries(inquiry[q].todo) /\ TrueList(inquiry[q].paid)
  BY DEF TypeOK, InquiryStates, TruthInv
<1>3. \A r \in Records : debits'[r] > 0 => paidOut[r]
  <2>1. CASE debits' = debits
    BY <2>1 DEF TruthInv
  <2>2. CASE Charge(inquiry[q].paid, inquiry[q].doc)
    BY <1>2, <2>2, TrueCharge
  <2>3. QED
    BY <2>1, <2>2 DEF InquiryStep, Select, Ask, AskInVain, ApplyLate, DebitLate, FlagLate, EndInquiry,
       InquiryDies, books, ledger
<1>4. TrueEntries(inquiry'[q].todo) /\ TrueList(inquiry'[q].paid)
  <2>1. ASSUME \A e \in Said(inquiry'[q].todo) : \E r \in WalletRecords : provider[r] # "none" /\ e = Entry(r)
        PROVE  TrueEntries(inquiry'[q].todo)
    BY <2>1, TrueEntry DEF TrueEntries
  <2>2. ASSUME NEW e \in Reports, inquiry[q].todo # <<>>, e = Head(inquiry[q].todo)
        PROVE  TrueList(Add(inquiry[q].paid, e)) /\ TrueEntries(Tail(inquiry[q].todo))
    <3>1. e # Stranger
      BY EntriesType
    <3>2. (e.ok => paidOut[e.id]) /\ TrueEntries(Tail(inquiry[q].todo))
      BY <1>2, <2>2, <3>1, TrueRest
    <3>3. QED
      BY <1>2, <3>2, TrueAdd
  <2>3. QED
    BY <1>2, <2>1, <2>2, TrueEnds, InquiryLists
<1>5. \A p \in Inquiries \ {q} : inquiry'[p] = inquiry[p]
  BY InquiryLists
<1>6. \A p \in Inquiries : TrueEntries(inquiry'[p].todo) /\ TrueList(inquiry'[p].paid)
  BY <1>4, <1>5 DEF TruthInv
<1>7. QED
  BY <1>1, <1>3, <1>6 DEF TruthInv, TrueEntries, TrueList

LEMMA TruthStep == ASSUME TypeOK, TruthInv, [Next]_vars PROVE TruthInv'
<1>1. CASE UNCHANGED vars
  BY <1>1 DEF vars, books, ledger, TruthInv, TrueEntries, TrueList
<1>2. CASE Next
  BY <1>2, RunTruth, ProviderTruth, CallbackTruth, InquiryTruth DEF Next, QuietRun
<1>3. QED
  BY <1>1, <1>2

-----------------------------------------------------------------------------
(* All they work on is of documents that were handed over *)

\* A task keeps the document it was queued for, and posts that document's records.
OwnRecords(s) ==
  /\ s.api = "none" => s.doc = NoDoc
  /\ \A r \in s.todo : DocOf[r] = s.doc
  /\ s.at \in Records => DocOf[s.at] = s.doc

HandedEntries(todo) == \A e \in Said(todo) : e # Stranger => Handed(DocOf[e.id])

HandedInv ==
  /\ \A k \in Runs : OwnRecords(run[k])
  /\ \A r \in Records : provider[r] # "none" => Handed(DocOf[r])
  /\ \A d \in Docs : txn[d].status = "disbursed" => Handed(d)
  /\ \A c \in Callbacks : HandedEntries(callback[c].todo) /\ (callback[c].win # NoDoc => Handed(callback[c].win))
  /\ \A q \in Inquiries : /\ \A d \in inquiry[q].docs : Handed(d)
                          /\ inquiry[q].doc # NoDoc => Handed(inquiry[q].doc)
  /\ \A r \in Records : \A d \in payers[r] : Handed(d)

LEMMA RunDocs ==
  ASSUME TypeOK, NEW k \in Runs, OwnRecords(run[k]),
         QuietRun(k) \/ BulkTask(k) \/ Raises(k) \/ RunDies(k)
  PROVE  /\ OwnRecords(run'[k]) /\ Others(k)
         /\ run[k].doc # NoDoc => run'[k].doc = run[k].doc
<1> USE BulkAssumption
<1>0. run[k] \in RunStates /\ RunOK(run[k])
  BY DEF TypeOK
<1>1. ASSUME NEW s, Go(k, s), s.doc = run[k].doc, s.api = "none" => run[k].api = "none",
             s.todo \subseteq run[k].todo \/ s.todo \subseteq Of(run[k].doc),
             s.at \in {run[k].at, NoRecord} \/ s.at \in run[k].todo
      PROVE  OwnRecords(run'[k]) /\ Others(k) /\ run'[k].doc = run[k].doc
  <2>1. run'[k] = s /\ Others(k)
    BY <1>1, GoIs
  <2>2. \A r \in s.todo : DocOf[r] = s.doc
    BY <1>1 DEF OwnRecords, Of
  <2>3. s.at \in Records => DocOf[s.at] = s.doc
    BY <1>1 DEF OwnRecords
  <2>4. OwnRecords(s)
    BY <1>1, <2>2, <2>3 DEF OwnRecords
  <2>5. QED
    BY <1>1, <2>1, <2>4
<1>2. ASSUME NEW d \in Docs, Queue(k, d) PROVE OwnRecords(run'[k]) /\ Others(k) /\ run[k].doc = NoDoc
  <2> DEFINE s == [run[k] EXCEPT !.api = "queued", !.doc = d, !.pc = "queued"]
  <2>1. Go(k, s) /\ run[k].api = "none"
    BY <1>2 DEF Queue
  <2>2. s.api = "queued" /\ s.doc = d /\ s.todo = run[k].todo /\ s.at = run[k].at
    BY <1>0 DEF RunStates
  <2>3. run[k].doc = NoDoc /\ run[k].todo \subseteq Records
    BY <1>0, <2>1 DEF OwnRecords, RunStates
  <2>4. run[k].todo = {} /\ run[k].at \notin Records
    BY <2>3 DEF OwnRecords
  <2> HIDE DEF s
  <2>5. OwnRecords(s)
    BY <2>2, <2>4 DEF OwnRecords
  <2>6. QED
    BY <2>1, <2>3, <2>5, GoIs
<1>3. CASE LoadTxn(k)
  <2> DEFINE s == [run[k] EXCEPT !.api = "loaded", !.copy = txn[run[k].doc].has_callback]
  <2>1. s.doc = run[k].doc /\ s.api = "loaded" /\ s.todo = run[k].todo /\ s.at = run[k].at
    BY <1>0 DEF RunStates
  <2>2. Go(k, s)
    BY <1>3 DEF LoadTxn
  <2> HIDE DEF s
  <2>3. QED
    BY <1>1, <2>1, <2>2
<1>4. CASE MarkDisbursed(k) \/ ApiDies(k)
  <2> DEFINE s == [run[k] EXCEPT !.api = "done", !.copy = FALSE]
  <2>1. s.doc = run[k].doc /\ s.api = "done" /\ s.todo = run[k].todo /\ s.at = run[k].at
    BY <1>0 DEF RunStates
  <2>2. Go(k, s)
    BY <1>4 DEF MarkDisbursed, ApiDies
  <2> HIDE DEF s
  <2>3. QED
    BY <1>1, <2>1, <2>2
<1>5. CASE StartRun(k)
  <2> DEFINE s == [run[k] EXCEPT !.pc = "posting", !.todo = FirstRound(run[k].doc),
                                 !.seen = [r \in Deposits |-> record[r]]]
  <2>1. s.doc = run[k].doc /\ s.api = run[k].api /\ s.todo = FirstRound(run[k].doc) /\ s.at = run[k].at
    BY <1>0 DEF RunStates
  <2>2. Go(k, s) /\ FirstRound(run[k].doc) \subseteq Of(run[k].doc)
    BY <1>5 DEF StartRun, FirstRound
  <2> HIDE DEF s
  <2>3. QED
    BY <1>1, <2>1, <2>2
<1>6. CASE EndFirstRound(k)
  <2> DEFINE s == [run[k] EXCEPT !.round = 2, !.todo = SecondRound(run[k].doc)]
  <2>1. s.doc = run[k].doc /\ s.api = run[k].api /\ s.todo = SecondRound(run[k].doc) /\ s.at = run[k].at
    BY <1>0 DEF RunStates
  <2>2. Go(k, s) /\ SecondRound(run[k].doc) \subseteq Of(run[k].doc)
    BY <1>6 DEF EndFirstRound, SecondRound
  <2> HIDE DEF s
  <2>3. QED
    BY <1>1, <2>1, <2>2
<1>7. CASE EndSecondRound(k)
  <2> DEFINE s == [run[k] EXCEPT !.pc = "done", !.round = 1, !.seen = NoRun.seen]
  <2>1. s.doc = run[k].doc /\ s.api = run[k].api /\ s.todo = run[k].todo /\ s.at = run[k].at
    BY <1>0 DEF RunStates
  <2>2. Go(k, s)
    BY <1>7 DEF EndSecondRound
  <2> HIDE DEF s
  <2>3. QED
    BY <1>1, <2>1, <2>2
<1>8. ASSUME NEW r \in Records, Post(k, r)
      PROVE  OwnRecords(run'[k]) /\ Others(k) /\ run'[k].doc = run[k].doc
  <2> DEFINE s == [run[k] EXCEPT !.pc = "waiting", !.at = r, !.todo = @ \ {r}]
  <2>1. s.doc = run[k].doc /\ s.api = run[k].api /\ s.todo = run[k].todo \ {r} /\ s.at = r
    BY <1>0 DEF RunStates
  <2>2. Go(k, s) /\ r \in run[k].todo
    BY <1>8 DEF Post
  <2> HIDE DEF s
  <2>3. s.todo \subseteq run[k].todo /\ s.at \in run[k].todo
    BY <2>1, <2>2
  <2>4. QED
    BY <1>1, <2>1, <2>2, <2>3
<1>9. ASSUME NEW verdict, NEW pc, Decide(k, verdict, pc)
      PROVE  OwnRecords(run'[k]) /\ Others(k) /\ run'[k].doc = run[k].doc
  <2> DEFINE s == [run[k] EXCEPT !.pc = pc, !.will = verdict]
  <2>1. s.doc = run[k].doc /\ s.api = run[k].api /\ s.todo = run[k].todo /\ s.at = run[k].at
    BY <1>0 DEF RunStates
  <2>2. Go(k, s)
    BY <1>9 DEF Decide
  <2> HIDE DEF s
  <2>3. QED
    BY <1>1, <2>1, <2>2
<1>10. CASE NextRecord(k)
  <2> DEFINE s == [run[k] EXCEPT !.pc = "posting", !.at = NoRecord, !.will = "open"]
  <2>1. s.doc = run[k].doc /\ s.api = run[k].api /\ s.todo = run[k].todo /\ s.at = NoRecord
    BY <1>0 DEF RunStates
  <2>2. Go(k, s)
    BY <1>10 DEF NextRecord
  <2> HIDE DEF s
  <2>3. QED
    BY <1>1, <2>1, <2>2
<1>11. CASE Debit(k)
  <2> DEFINE s == [run[k] EXCEPT !.pc = "saving"]
  <2>1. s.doc = run[k].doc /\ s.api = run[k].api /\ s.todo = run[k].todo /\ s.at = run[k].at
    BY <1>0 DEF RunStates
  <2>2. Go(k, s)
    BY <1>11 DEF Debit
  <2> HIDE DEF s
  <2>3. QED
    BY <1>1, <2>1, <2>2
<1>12. CASE RunDies(k)
  <2> DEFINE s == [run[k] EXCEPT !.pc = "dead", !.round = 1, !.todo = {},
                      !.at = NoRecord, !.will = "open", !.seen = NoRun.seen]
  <2>1. s.doc = run[k].doc /\ s.api = run[k].api /\ s.todo = {} /\ s.at = NoRecord
    BY <1>0 DEF RunStates
  <2>2. Go(k, s)
    BY <1>12 DEF RunDies
  <2> HIDE DEF s
  <2>3. s.todo \subseteq run[k].todo
    BY <2>1
  <2>4. QED
    BY <1>1, <2>1, <2>2, <2>3
<1>13. CASE NoAnswer(k) \/ Save(k) \/ Raises(k)
  BY <1>10, <1>13 DEF NoAnswer, Save, Raises
<1>14. CASE AnswerPaid(k) \/ AnswerRefused(k) \/ AnswerUnknown(k)
  BY <1>9, <1>14 DEF AnswerPaid, AnswerRefused, AnswerUnknown
<1>15. QED
  BY <1>2, <1>3, <1>4, <1>5, <1>6, <1>7, <1>8, <1>11, <1>12, <1>13, <1>14
     DEF QuietRun, BulkTask, Works, Answered

\* What is handed over stays so.
LEMMA StaysHanded ==
  ASSUME NEW k \in Runs, Others(k), run[k].doc # NoDoc => run'[k].doc = run[k].doc
  PROVE  \A d \in Docs : Handed(d) => Handed(d)'
<1>1. ASSUME NEW d \in Docs, NEW j \in Runs, run[j].doc = d PROVE run'[j].doc = d
  BY <1>1, BulkAssumption DEF Others
<1>2. QED
  BY <1>1 DEF Handed

\* What the lists hold are documents and records.
LEMMA ListsType ==
  ASSUME TypeOK
  PROVE  /\ \A c \in Callbacks : /\ \A e \in Said(callback[c].todo) : e # Stranger => DocOf[e.id] \in Docs
                                 /\ callback[c].win # NoDoc => callback[c].win \in Docs
         /\ \A q \in Inquiries : /\ inquiry[q].docs \subseteq Docs
                                 /\ inquiry[q].doc # NoDoc => inquiry[q].doc \in Docs
         /\ \A r \in Records : payers[r] \subseteq Docs /\ DocOf[r] \in Docs
<1>1. \A c \in Callbacks : /\ callback[c].todo \in Seq(Reports \cup {Stranger})
                           /\ callback[c].win \in Docs \cup {NoDoc}
  BY DEF TypeOK, CallbackStates
<1>2. \A q \in Inquiries : inquiry[q].docs \subseteq Docs /\ inquiry[q].doc \in Docs \cup {NoDoc}
  BY DEF TypeOK, InquiryStates
<1>3. \A r \in Records : payers[r] \subseteq Docs /\ DocOf[r] \in Docs
  BY BulkAssumption DEF TypeOK, BooksOK
<1>4. \A c \in Callbacks : \A e \in Said(callback[c].todo) : e # Stranger => e.id \in Records
  BY <1>1, SaidRest, EntriesType
<1>5. QED
  BY <1>1, <1>2, <1>3, <1>4

LEMMA RunHanded ==
  ASSUME TypeOK, HandedInv, NEW k \in Runs, QuietRun(k) \/ BulkTask(k) \/ Raises(k) \/ RunDies(k)
  PROVE  HandedInv'
<1>1. /\ OwnRecords(run'[k]) /\ Others(k) /\ (run[k].doc # NoDoc => run'[k].doc = run[k].doc)
      /\ OwnRecords(run[k])
  BY RunDocs DEF HandedInv
<1>2. \A d \in Docs : Handed(d) => Handed(d)'
  BY <1>1, StaysHanded
<1>3. run[k].doc \in Docs => Handed(run[k].doc)
  BY DEF Handed
<1>4. UNCHANGED <<callback, inquiry>>
  BY DEF QuietRun, Queue, LoadTxn, MarkDisbursed, ApiDies, BulkTask, Works, Answered, StartRun, EndFirstRound,
     EndSecondRound, Post, NoAnswer, AnswerPaid, AnswerRefused, AnswerUnknown, Debit, Save, Raises, RunDies
<1>5. \A r \in Records : provider'[r] # "none" => Handed(DocOf[r])
  <2>1. ASSUME NEW x \in Records, Post(k, x) PROVE Handed(DocOf[x])
    <3>1. DocOf[x] = run[k].doc
      BY <1>1, <2>1 DEF Post, OwnRecords
    <3>2. QED
      BY <3>1 DEF Handed
  <2>2. CASE provider' = provider
    BY <2>2 DEF HandedInv
  <2>3. ASSUME NEW x \in Records, Post(k, x) PROVE \A r \in Records \ {x} : provider'[r] = provider[r]
    BY <2>3 DEF Post, TypeOK, RowsOK
  <2>4. provider' = provider \/ \E x \in Records : Post(k, x)
    BY DEF QuietRun, Queue, LoadTxn, MarkDisbursed, ApiDies, BulkTask, Works, Answered, StartRun, EndFirstRound,
       EndSecondRound, NoAnswer, AnswerPaid, AnswerRefused, AnswerUnknown, Debit, Save, Raises, RunDies
  <2>5. QED
    BY <2>1, <2>2, <2>3, <2>4 DEF HandedInv
<1>6. \A d \in Docs : txn'[d].status = "disbursed" => Handed(d)
  <2>1. CASE MarkDisbursed(k)
    <3>1. \A d \in Docs \ {run[k].doc} : txn'[d] = txn[d]
      BY <2>1 DEF MarkDisbursed, TypeOK, RowsOK
    <3>2. QED
      BY <1>3, <3>1 DEF HandedInv
  <2>2. ASSUME NEW D, Flag(D) PROVE \A d \in Docs : txn'[d].status = txn[d].status
    <3>1. ASSUME NEW d \in Docs PROVE txn'[d].status = txn[d].status
      <4>1. txn[d] \in TxnRows
        BY DEF TypeOK, RowsOK
      <4>2. txn'[d] \in {txn[d], [txn[d] EXCEPT !.has_callback = TRUE]}
        BY <2>2 DEF Flag
      <4>3. QED
        BY <4>1, <4>2 DEF TxnRows
    <3>2. QED
      BY <3>1
  <2>3. txn' = txn \/ MarkDisbursed(k) \/ \E D : Flag(D)
    BY DEF QuietRun, Queue, LoadTxn, ApiDies, BulkTask, Works, Answered, StartRun, EndFirstRound,
       EndSecondRound, Post, NoAnswer, AnswerPaid, AnswerRefused, AnswerUnknown, Debit, Save, Raises, RunDies
  <2>4. QED
    BY <2>1, <2>2, <2>3 DEF HandedInv
<1>7. \A r \in Records : \A d \in payers'[r] : Handed(d)
  <2>1. CASE Debit(k)
    <3>1. DocOf[run[k].at] = run[k].doc /\ \A r \in Records : payers'[r] \subseteq payers[r] \cup {DocOf[run[k].at]}
      BY <1>1, <2>1, OneType DEF OwnRecords
    <3>2. QED
      BY <3>1 DEF HandedInv, Handed
  <2>2. payers' = payers \/ Debit(k)
    BY DEF QuietRun, Queue, LoadTxn, MarkDisbursed, ApiDies, BulkTask, Works, Answered, StartRun, EndFirstRound,
       EndSecondRound, Post, NoAnswer, AnswerPaid, AnswerRefused, AnswerUnknown, Save, Raises, RunDies, books, ledger
  <2>3. QED
    BY <2>1, <2>2 DEF HandedInv
<1>8. TypeOK'
  BY RunType DEF QuietRun, BulkTask, Works
<1>9. \A j \in Runs : OwnRecords(run'[j])
  BY <1>1 DEF HandedInv, Others
<1>10. (\A c \in Callbacks : /\ HandedEntries(callback[c].todo)
                             /\ callback[c].win # NoDoc => Handed(callback[c].win))'
  BY <1>2, <1>4, ListsType DEF HandedInv, HandedEntries
<1>11. (\A q \in Inquiries : /\ \A d \in inquiry[q].docs : Handed(d)
                             /\ inquiry[q].doc # NoDoc => Handed(inquiry[q].doc))'
  BY <1>2, <1>4, ListsType DEF HandedInv
<1>12. \A r \in Records : \A d \in payers'[r] : d \in Docs
  BY <1>8 DEF TypeOK, BooksOK
<1>13. \A r \in Records : DocOf[r] \in Docs
  BY BulkAssumption
<1>14. (\A j \in Runs : OwnRecords(run[j]))'
  BY <1>9 DEF OwnRecords
<1>15. (\A r \in Records : provider[r] # "none" => Handed(DocOf[r]))'
  BY <1>2, <1>5, <1>13
<1>16. (\A d \in Docs : txn[d].status = "disbursed" => Handed(d))'
  BY <1>2, <1>6
<1>17. (\A r \in Records : \A d \in payers[r] : Handed(d))'
  BY <1>2, <1>7, <1>12
<1>18. QED
  BY <1>10, <1>11, <1>14, <1>15, <1>16, <1>17 DEF HandedInv

\* The others start nothing, so for them it is enough to look at what they hold.
LEMMA OthersHanded ==
  ASSUME HandedInv, UNCHANGED run,
         \A r \in Records : provider'[r] # "none" => Handed(DocOf[r]),
         \A d \in Docs : txn'[d].status = "disbursed" => Handed(d),
         \A c \in Callbacks : HandedEntries(callback'[c].todo) /\ (callback'[c].win # NoDoc => Handed(callback'[c].win)),
         \A q \in Inquiries : /\ \A d \in inquiry'[q].docs : Handed(d)
                              /\ inquiry'[q].doc # NoDoc => Handed(inquiry'[q].doc),
         \A r \in Records : \A d \in payers'[r] : Handed(d)
  PROVE  HandedInv'
BY DEF HandedInv, Handed, HandedEntries, OwnRecords

LEMMA FlagStatus == ASSUME TypeOK, NEW D, Flag(D) PROVE \A d \in Docs : txn'[d].status = txn[d].status
<1>1. ASSUME NEW d \in Docs PROVE txn'[d].status = txn[d].status
  <2>1. txn[d] \in TxnRows
    BY DEF TypeOK, RowsOK
  <2>2. txn'[d] \in {txn[d], [txn[d] EXCEPT !.has_callback = TRUE]}
    BY DEF Flag
  <2>3. QED
    BY <2>1, <2>2 DEF TxnRows
<1>2. QED
  BY <1>1

LEMMA CallbackHanded ==
  ASSUME TypeOK, HandedInv, NEW c \in Callbacks, CallbackStep(c)
  PROVE  HandedInv'
<1>1. UNCHANGED <<run, inquiry, provider>>
  BY DEF CallbackStep, Deliver, Apply, ApplyUnknown, DebitCallback, FlagCallback, CallbackDies
<1>2. /\ callback[c].todo \in Seq(Reports \cup {Stranger}) /\ callback[c].paid \in [Records -> Nat]
      /\ HandedEntries(callback[c].todo) /\ (callback[c].win # NoDoc => Handed(callback[c].win))
      /\ Paid(callback[c].paid) # {} => callback[c].win # NoDoc /\ callback[c].win \in Docs
  BY DEF TypeOK, CallbackStates, CallbackOK, HandedInv
<1>3. \A d \in Docs : txn'[d].status = "disbursed" => Handed(d)
  <2>1. txn' = txn \/ \E D : Flag(D)
    BY DEF CallbackStep, Deliver, Apply, ApplyUnknown, DebitCallback, FlagCallback, CallbackDies
  <2>2. QED
    BY <2>1, FlagStatus DEF HandedInv
<1>4. \A r \in Records : \A d \in payers'[r] : Handed(d)
  <2>1. CASE Charge(callback[c].paid, callback[c].win)
    <3>1. \A r \in Records : /\ payers'[r] \subseteq payers[r] \cup {callback[c].win}
                             /\ callback[c].paid[r] = 0 => payers'[r] = payers[r]
      BY <1>2, <2>1, ChargeType
    <3>2. ASSUME NEW r \in Records, callback[c].paid[r] # 0 PROVE Handed(callback[c].win)
      <4>1. callback[c].paid[r] > 0
        BY <1>2, <3>2
      <4>2. QED
        BY <1>2, <4>1 DEF Paid
    <3>3. QED
      BY <3>1, <3>2 DEF HandedInv
  <2>2. CASE payers' = payers
    BY <2>2 DEF HandedInv
  <2>3. QED
    BY <2>1, <2>2 DEF CallbackStep, Deliver, Apply, ApplyUnknown, DebitCallback, FlagCallback, CallbackDies, books, ledger
<1>5. HandedEntries(callback'[c].todo) /\ (callback'[c].win # NoDoc => Handed(callback'[c].win))
  <2>1. ASSUME \A e \in Said(callback'[c].todo) :
                 e = Stranger \/ \E r \in WalletRecords : provider[r] # "none" /\ e = Entry(r)
        PROVE  HandedEntries(callback'[c].todo)
    BY <2>1, EntriesType DEF HandedEntries, HandedInv
  <2>2. ASSUME NEW e \in Reports, callback[c].todo # <<>>, e = Head(callback[c].todo)
        PROVE  Handed(DocOf[e.id]) /\ HandedEntries(Tail(callback[c].todo))
    <3>1. e # Stranger
      BY EntriesType
    <3>2. e \in Said(callback[c].todo) /\ Said(Tail(callback[c].todo)) \subseteq Said(callback[c].todo)
      BY <1>2, <2>2, SaidRest
    <3>3. QED
      BY <1>2, <3>1, <3>2 DEF HandedEntries
  <2>3. HandedEntries(<<>>)
    BY EmptySeq DEF HandedEntries, Said
  <2>4. QED
    BY <1>2, <2>1, <2>2, <2>3, CallbackLists
<1>6. \A d \in Callbacks \ {c} : callback'[d] = callback[d]
  BY CallbackLists
<1>7. \A d \in Callbacks : HandedEntries(callback'[d].todo) /\ (callback'[d].win # NoDoc => Handed(callback'[d].win))
  BY <1>5, <1>6 DEF HandedInv
<1>8. QED
  BY <1>1, <1>3, <1>4, <1>7, OthersHanded DEF HandedInv

\* The documents of an inquiry.
LEMMA InquiryDocs ==
  ASSUME TypeOK, NEW q \in Inquiries, InquiryStep(q)
  PROVE  /\ inquiry'[q].docs \subseteq inquiry[q].docs \cup Late
         /\ inquiry'[q].doc \in inquiry[q].docs \cup {inquiry[q].doc, NoDoc}
<1>0. inquiry[q] \in InquiryStates
  BY DEF TypeOK
<1>1. ASSUME NEW s, Inquire(q, s), s.docs \subseteq inquiry[q].docs \cup Late,
             s.doc \in inquiry[q].docs \cup {inquiry[q].doc, NoDoc}
      PROVE  /\ inquiry'[q].docs \subseteq inquiry[q].docs \cup Late
             /\ inquiry'[q].doc \in inquiry[q].docs \cup {inquiry[q].doc, NoDoc}
  BY <1>1 DEF TypeOK, Inquire
<1>2. CASE Select(q)
  <2> DEFINE s == [inquiry[q] EXCEPT !.pc = "asking", !.docs = Late]
  <2>1. s.docs = Late /\ s.doc = inquiry[q].doc /\ Inquire(q, s)
    BY <1>0, <1>2 DEF InquiryStates, Select
  <2> HIDE DEF s
  <2>2. QED
    BY <1>1, <2>1
<1>3. ASSUME NEW d \in Docs, Ask(q, d)
      PROVE  /\ inquiry'[q].docs \subseteq inquiry[q].docs \cup Late
             /\ inquiry'[q].doc \in inquiry[q].docs \cup {inquiry[q].doc, NoDoc}
  <2>1. PICK L \in Lists(Decided(WalletRecords)) :
          Inquire(q, [inquiry[q] EXCEPT !.pc = "applying", !.docs = @ \ {d}, !.doc = d, !.todo = Report(L)])
    BY <1>3 DEF Ask
  <2> DEFINE s == [inquiry[q] EXCEPT !.pc = "applying", !.docs = @ \ {d}, !.doc = d, !.todo = Report(L)]
  <2>2. s.docs = inquiry[q].docs \ {d} /\ s.doc = d
    BY <1>0 DEF InquiryStates
  <2>3. Inquire(q, s) /\ d \in inquiry[q].docs
    BY <1>3, <2>1 DEF Ask
  <2> HIDE DEF s
  <2>4. QED
    BY <1>1, <2>2, <2>3
<1>4. ASSUME NEW d \in Docs, AskInVain(q, d)
      PROVE  /\ inquiry'[q].docs \subseteq inquiry[q].docs \cup Late
             /\ inquiry'[q].doc \in inquiry[q].docs \cup {inquiry[q].doc, NoDoc}
  <2> DEFINE s == [inquiry[q] EXCEPT !.docs = @ \ {d}]
  <2>1. s.docs = inquiry[q].docs \ {d} /\ s.doc = inquiry[q].doc /\ Inquire(q, s)
    BY <1>0, <1>4 DEF InquiryStates, AskInVain
  <2> HIDE DEF s
  <2>2. QED
    BY <1>1, <2>1
<1>5. CASE ApplyLate(q)
  <2> DEFINE s == [inquiry[q] EXCEPT !.todo = Tail(@), !.paid = Add(@, Head(inquiry[q].todo))]
  <2>1. s.docs = inquiry[q].docs /\ s.doc = inquiry[q].doc /\ Inquire(q, s)
    BY <1>0, <1>5 DEF InquiryStates, ApplyLate
  <2> HIDE DEF s
  <2>2. QED
    BY <1>1, <2>1
<1>6. CASE DebitLate(q)
  <2> DEFINE s == [inquiry[q] EXCEPT !.pc = "flagging", !.paid = NonePaid]
  <2>1. s.docs = inquiry[q].docs /\ s.doc = inquiry[q].doc /\ Inquire(q, s)
    BY <1>0, <1>6 DEF InquiryStates, DebitLate
  <2> HIDE DEF s
  <2>2. QED
    BY <1>1, <2>1
<1>7. CASE FlagLate(q)
  <2> DEFINE s == [inquiry[q] EXCEPT !.pc = "asking", !.doc = NoDoc]
  <2>1. s.docs = inquiry[q].docs /\ s.doc = NoDoc /\ Inquire(q, s)
    BY <1>0, <1>7 DEF InquiryStates, FlagLate
  <2> HIDE DEF s
  <2>2. QED
    BY <1>1, <2>1
<1>8. CASE EndInquiry(q)
  <2> DEFINE s == [inquiry[q] EXCEPT !.pc = "done"]
  <2>1. s.docs = inquiry[q].docs /\ s.doc = inquiry[q].doc /\ Inquire(q, s)
    BY <1>0, <1>8 DEF InquiryStates, EndInquiry
  <2> HIDE DEF s
  <2>2. QED
    BY <1>1, <2>1
<1>9. CASE InquiryDies(q)
  <2> DEFINE s == [NoInquiry EXCEPT !.pc = "done"]
  <2>1. s.docs = {} /\ s.doc = NoDoc /\ Inquire(q, s)
    BY <1>9 DEF NoInquiry, InquiryDies
  <2> HIDE DEF s
  <2>2. QED
    BY <1>1, <2>1
<1>10. QED
  BY <1>2, <1>3, <1>4, <1>5, <1>6, <1>7, <1>8, <1>9 DEF InquiryStep

LEMMA InquiryHanded ==
  ASSUME TypeOK, HandedInv, NEW q \in Inquiries, InquiryStep(q)
  PROVE  HandedInv'
<1>1. UNCHANGED <<run, callback, provider>>
  BY DEF InquiryStep, Select, Ask, AskInVain, ApplyLate, DebitLate, FlagLate, EndInquiry, InquiryDies
<1>2. /\ inquiry[q] \in InquiryStates /\ InquiryOK(inquiry[q])
      /\ \A d \in inquiry[q].docs : Handed(d)
      /\ inquiry[q].doc # NoDoc => Handed(inquiry[q].doc)
  BY DEF TypeOK, HandedInv
<1>3. \A d \in Docs : txn'[d].status = "disbursed" => Handed(d)
  <2>1. CASE FlagLate(q)
    <3>1. inquiry[q].doc # NoDoc /\ \A d \in Docs \ {inquiry[q].doc} : txn'[d] = txn[d]
      BY <1>2, <2>1 DEF FlagLate, InquiryOK, TypeOK, RowsOK
    <3>2. QED
      BY <1>2, <3>1 DEF HandedInv
  <2>2. CASE txn' = txn
    BY <2>2 DEF HandedInv
  <2>3. QED
    BY <2>1, <2>2 DEF InquiryStep, Select, Ask, AskInVain, ApplyLate, DebitLate, EndInquiry, InquiryDies
<1>4. \A r \in Records : \A d \in payers'[r] : Handed(d)
  <2>1. CASE DebitLate(q)
    <3>1. inquiry[q].paid \in [Records -> Nat] /\ inquiry[q].doc \in Docs /\ Handed(inquiry[q].doc)
      BY <1>2, <2>1, BulkAssumption DEF DebitLate, InquiryStates, InquiryOK
    <3>2. \A r \in Records : payers'[r] \subseteq payers[r] \cup {inquiry[q].doc}
      BY <2>1, <3>1, ChargeType DEF DebitLate
    <3>3. QED
      BY <3>1, <3>2 DEF HandedInv
  <2>2. CASE payers' = payers
    BY <2>2 DEF HandedInv
  <2>3. QED
    BY <2>1, <2>2 DEF InquiryStep, Select, Ask, AskInVain, ApplyLate, FlagLate, EndInquiry, InquiryDies, books, ledger
<1>5. \A d \in inquiry'[q].docs : Handed(d)
  BY <1>2, InquiryDocs DEF Late, HandedInv
<1>6. inquiry'[q].doc # NoDoc => Handed(inquiry'[q].doc)
  BY <1>2, InquiryDocs
<1>7. \A p \in Inquiries \ {q} : inquiry'[p] = inquiry[p]
  BY InquiryLists
<1>8. \A p \in Inquiries : /\ \A d \in inquiry'[p].docs : Handed(d)
                           /\ inquiry'[p].doc # NoDoc => Handed(inquiry'[p].doc)
  BY <1>5, <1>6, <1>7 DEF HandedInv
<1>9. QED
  BY <1>1, <1>3, <1>4, <1>8, OthersHanded DEF HandedInv

LEMMA HandedStep == ASSUME TypeOK, HandedInv, [Next]_vars PROVE HandedInv'
<1>1. CASE UNCHANGED vars
  BY <1>1, OthersHanded DEF vars, books, ledger, HandedInv
<1>2. ASSUME NEW r \in Records, Pays(r) \/ Refuses(r) PROVE HandedInv'
  <2>1. UNCHANGED <<run, txn, callback, inquiry, payers>>
    BY <1>2 DEF Pays, Refuses, books, ledger
  <2>2. \A x \in Records : provider'[x] # "none" => provider[x] # "none"
    BY <1>2 DEF Pays, Refuses, TypeOK, RowsOK
  <2>3. QED
    BY <2>1, <2>2, OthersHanded DEF HandedInv
<1>3. QED
  BY <1>1, <1>2, RunHanded, CallbackHanded, InquiryHanded DEF Next, QuietRun

\* No budget is debited for a record the provider has not paid, nor one whose
\* document was never handed over.
THEOREM PayoutTheorem == Spec => []NoDebitWithoutPayout
<1>1. Init => TruthInv
  BY TrueEnds DEF Init, TruthInv, NoRun, NoCallback, NoInquiry
<1>2. Init => HandedInv
  <2>1. Said(<<>>) = {}
    BY EmptySeq DEF Said
  <2>2. QED
    BY <2>1, BulkAssumption DEF Init, HandedInv, HandedEntries, OwnRecords, NoRun, NoCallback, NoInquiry
<1>3. Spec => [](TypeOK /\ TruthInv /\ HandedInv)
  BY <1>1, <1>2, BulkTypeInit, BulkTypeStep, TruthStep, HandedStep, PTL DEF Spec
<1>4. TruthInv /\ HandedInv => NoDebitWithoutPayout
  BY DEF TruthInv, HandedInv, NoDebitWithoutPayout
<1>5. QED
  BY <1>3, <1>4, PTL

-----------------------------------------------------------------------------
(* The debits of a record, made or to come, are the payments it was told of *)

Ones(r)  == [k \in Runs |-> IF run[k].pc = "debiting" /\ run[k].at = r THEN 1 ELSE 0]
Calls(r) == [c \in Callbacks |-> callback[c].paid[r]]
Lates(r) == [q \in Inquiries |-> inquiry[q].paid[r]]

\* Only one of the summands changes.
LEMMA SumChanges ==
  ASSUME NEW I, IsFiniteSet(I), NEW f \in [I -> Nat], NEW g \in [I -> Nat], NEW i \in I,
         \A j \in I \ {i} : g[j] = f[j]
  PROVE  Sum(g, I) = Sum(f, I) - f[i] + g[i] /\ Sum(f, I) \in Nat /\ Sum(g, I) \in Nat /\ f[i] <= Sum(f, I)
<1> DEFINE J == I \ {i}
<1>1. IsFiniteSet(J)
  BY FS_Subset
<1>2. Ints(f, I) /\ Ints(g, I) /\ Ints(f, J) /\ Ints(g, J)
  BY DEF Ints
<1>3. Sum(f, I) = f[i] + Sum(f, J) /\ Sum(g, I) = g[i] + Sum(g, J)
  BY <1>2, SumLess
<1>4. Sum(f, J) = Sum(g, J)
  BY <1>1, <1>2, SumSame
<1>5. Sum(f, J) \in Nat /\ Sum(f, I) \in Nat /\ Sum(g, I) \in Nat
  BY <1>1, SumNat
<1>6. f[i] \in Nat /\ g[i] \in Nat
  OBVIOUS
<1> HIDE DEF J
<1>7. QED
  BY <1>3, <1>4, <1>5, <1>6

LEMMA DueParts ==
  ASSUME TypeOK, NEW r \in Records
  PROVE  /\ Due(r) = Sum(Ones(r), Runs) + Sum(Calls(r), Callbacks) + Sum(Lates(r), Inquiries)
         /\ Ones(r) \in [Runs -> Nat] /\ Calls(r) \in [Callbacks -> Nat] /\ Lates(r) \in [Inquiries -> Nat]
         /\ Sum(Ones(r), Runs) \in Nat /\ Sum(Calls(r), Callbacks) \in Nat /\ Sum(Lates(r), Inquiries) \in Nat
<1>1. Due(r) = Sum(Ones(r), Runs) + Sum(Calls(r), Callbacks) + Sum(Lates(r), Inquiries)
  BY DEF Due, Ones, Calls, Lates
<1>2. Ones(r) \in [Runs -> Nat]
  BY DEF Ones
<1>3. Calls(r) \in [Callbacks -> Nat]
  <2>1. \A c \in Callbacks : callback[c].paid \in [Records -> Nat]
    BY DEF TypeOK, CallbackStates
  <2>2. QED
    BY <2>1 DEF Calls
<1>4. Lates(r) \in [Inquiries -> Nat]
  <2>1. \A q \in Inquiries : inquiry[q].paid \in [Records -> Nat]
    BY DEF TypeOK, InquiryStates
  <2>2. QED
    BY <2>1 DEF Lates
<1>5. Sum(Ones(r), Runs) \in Nat /\ Sum(Calls(r), Callbacks) \in Nat /\ Sum(Lates(r), Inquiries) \in Nat
  BY <1>2, <1>3, <1>4, SumNat, BulkAssumption
<1>6. QED
  BY <1>1, <1>2, <1>3, <1>4, <1>5

LEMMA RunDue ==
  ASSUME TypeOK, TypeOK', NEW r \in Records, NEW k \in Runs, Others(k), UNCHANGED <<callback, inquiry>>
  PROVE  /\ Due(r)' = Due(r) - Ones(r)[k] + Ones(r)'[k]
         /\ Due(r) \in Nat /\ Due(r)' \in Nat /\ Ones(r)[k] <= Due(r)
<1>1. /\ Due(r) = Sum(Ones(r), Runs) + Sum(Calls(r), Callbacks) + Sum(Lates(r), Inquiries)
      /\ Ones(r) \in [Runs -> Nat]
      /\ Sum(Calls(r), Callbacks) \in Nat /\ Sum(Lates(r), Inquiries) \in Nat
  BY DueParts
<1>2. Due(r)' = Sum(Ones(r)', Runs) + Sum(Calls(r), Callbacks) + Sum(Lates(r), Inquiries)
  BY DEF Due, Ones, Calls, Lates
<1>3. Ones(r)' \in [Runs -> Nat] /\ \A j \in Runs \ {k} : Ones(r)'[j] = Ones(r)[j]
  BY DEF Ones, Others
<1> DEFINE f == Ones(r)
           g == Ones(r)'
<1> HIDE DEF f, g
<1>4. /\ Sum(g, Runs) = Sum(f, Runs) - f[k] + g[k] /\ Sum(f, Runs) \in Nat /\ Sum(g, Runs) \in Nat
      /\ f[k] <= Sum(f, Runs)
  BY <1>1, <1>3, SumChanges, BulkAssumption DEF f, g
<1>5. f[k] \in Nat /\ g[k] \in Nat
  BY <1>1, <1>3 DEF f, g
<1>6. QED
  BY <1>1, <1>2, <1>4, <1>5 DEF f, g

LEMMA CallbackDue ==
  ASSUME TypeOK, TypeOK', NEW r \in Records, NEW c \in Callbacks, UNCHANGED <<run, inquiry>>,
         \A d \in Callbacks \ {c} : callback'[d] = callback[d]
  PROVE  /\ Due(r)' = Due(r) - callback[c].paid[r] + callback'[c].paid[r]
         /\ Due(r) \in Nat /\ Due(r)' \in Nat /\ callback[c].paid[r] <= Due(r)
         /\ callback[c].paid[r] \in Nat /\ callback'[c].paid[r] \in Nat
<1>1. /\ Due(r) = Sum(Ones(r), Runs) + Sum(Calls(r), Callbacks) + Sum(Lates(r), Inquiries)
      /\ Calls(r) \in [Callbacks -> Nat]
      /\ Sum(Ones(r), Runs) \in Nat /\ Sum(Lates(r), Inquiries) \in Nat
  BY DueParts
<1>2. Due(r)' = Sum(Ones(r), Runs) + Sum(Calls(r)', Callbacks) + Sum(Lates(r), Inquiries)
  BY DEF Due, Ones, Calls, Lates
<1>3. Calls(r)' \in [Callbacks -> Nat] /\ \A d \in Callbacks \ {c} : Calls(r)'[d] = Calls(r)[d]
  <2>1. \A d \in Callbacks : callback'[d].paid \in [Records -> Nat]
    BY DEF TypeOK, CallbackStates
  <2>2. QED
    BY <2>1 DEF Calls
<1>4. Calls(r)[c] = callback[c].paid[r] /\ Calls(r)'[c] = callback'[c].paid[r]
  BY DEF Calls
<1> DEFINE f == Calls(r)
           g == Calls(r)'
<1> HIDE DEF f, g
<1>5. /\ Sum(g, Callbacks) = Sum(f, Callbacks) - f[c] + g[c]
      /\ Sum(f, Callbacks) \in Nat /\ Sum(g, Callbacks) \in Nat /\ f[c] <= Sum(f, Callbacks)
  BY <1>1, <1>3, SumChanges, BulkAssumption DEF f, g
<1>6. f[c] \in Nat /\ g[c] \in Nat
  BY <1>1, <1>3 DEF f, g
<1>7. f[c] = callback[c].paid[r] /\ g[c] = callback'[c].paid[r]
  BY <1>4 DEF f, g
<1>8. QED
  BY <1>1, <1>2, <1>5, <1>6, <1>7 DEF f, g

LEMMA InquiryDue ==
  ASSUME TypeOK, TypeOK', NEW r \in Records, NEW q \in Inquiries, UNCHANGED <<run, callback>>,
         \A p \in Inquiries \ {q} : inquiry'[p] = inquiry[p]
  PROVE  /\ Due(r)' = Due(r) - inquiry[q].paid[r] + inquiry'[q].paid[r]
         /\ Due(r) \in Nat /\ Due(r)' \in Nat /\ inquiry[q].paid[r] <= Due(r)
         /\ inquiry[q].paid[r] \in Nat /\ inquiry'[q].paid[r] \in Nat
<1>1. /\ Due(r) = Sum(Ones(r), Runs) + Sum(Calls(r), Callbacks) + Sum(Lates(r), Inquiries)
      /\ Lates(r) \in [Inquiries -> Nat]
      /\ Sum(Ones(r), Runs) \in Nat /\ Sum(Calls(r), Callbacks) \in Nat
  BY DueParts
<1>2. Due(r)' = Sum(Ones(r), Runs) + Sum(Calls(r), Callbacks) + Sum(Lates(r)', Inquiries)
  BY DEF Due, Ones, Calls, Lates
<1>3. Lates(r)' \in [Inquiries -> Nat] /\ \A p \in Inquiries \ {q} : Lates(r)'[p] = Lates(r)[p]
  <2>1. \A p \in Inquiries : inquiry'[p].paid \in [Records -> Nat]
    BY DEF TypeOK, InquiryStates
  <2>2. QED
    BY <2>1 DEF Lates
<1>4. Lates(r)[q] = inquiry[q].paid[r] /\ Lates(r)'[q] = inquiry'[q].paid[r]
  BY DEF Lates
<1> DEFINE f == Lates(r)
           g == Lates(r)'
<1> HIDE DEF f, g
<1>5. /\ Sum(g, Inquiries) = Sum(f, Inquiries) - f[q] + g[q]
      /\ Sum(f, Inquiries) \in Nat /\ Sum(g, Inquiries) \in Nat /\ f[q] <= Sum(f, Inquiries)
  BY <1>1, <1>3, SumChanges, BulkAssumption DEF f, g
<1>6. f[q] \in Nat /\ g[q] \in Nat
  BY <1>1, <1>3 DEF f, g
<1>7. f[q] = inquiry[q].paid[r] /\ g[q] = inquiry'[q].paid[r]
  BY <1>4 DEF f, g
<1>8. QED
  BY <1>1, <1>2, <1>5, <1>6, <1>7 DEF f, g

Told(r) == debits[r] + Due(r) <= wins[r] /\ (~cut[r] => debits[r] + Due(r) = wins[r])

LEMMA RunTold ==
  ASSUME TypeOK, TypeOK', NEW r \in Records, Told(r), NEW k \in Runs,
         QuietRun(k) \/ BulkTask(k) \/ Raises(k) \/ RunDies(k)
  PROVE  Told(r)'
<1>0. /\ debits[r] \in Nat /\ wins[r] \in Nat /\ cut[r] \in BOOLEAN /\ cut'[r] \in BOOLEAN
      /\ Ones(r)[k] = IF run[k].pc = "debiting" /\ run[k].at = r THEN 1 ELSE 0
      /\ Ones(r)'[k] = IF run'[k].pc = "debiting" /\ run'[k].at = r THEN 1 ELSE 0
      /\ run[k].pc \in {"waiting", "debiting"} => run[k].at \in Records
  BY DEF TypeOK, BooksOK, RunOK, Ones
<1>1. UNCHANGED <<callback, inquiry>>
  BY DEF QuietRun, Queue, LoadTxn, MarkDisbursed, ApiDies, BulkTask, Works, Answered, StartRun, EndFirstRound,
     EndSecondRound, Post, NoAnswer, AnswerPaid, AnswerRefused, AnswerUnknown, Debit, Save, Raises, RunDies
<1>2. ASSUME Others(k)
      PROVE  /\ Due(r)' = Due(r) - Ones(r)[k] + Ones(r)'[k]
             /\ Due(r) \in Nat /\ Due(r)' \in Nat /\ Ones(r)[k] <= Due(r)
  BY <1>1, <1>2, RunDue
<1>3. CASE QuietRun(k)
  <2>1. Others(k) /\ Ones(r)'[k] = Ones(r)[k]
    BY <1>0, <1>3, QuietRunKeeps DEF Holding
  <2>2. UNCHANGED <<debits, wins, cut>>
    BY <1>3 DEF QuietRun, Queue, LoadTxn, MarkDisbursed, ApiDies, StartRun, EndFirstRound, EndSecondRound, Post,
       books, ledger, heard
  <2>3. QED
    BY <1>0, <1>2, <2>1, <2>2 DEF Told
<1>4. CASE AnswerPaid(k)
  <2>1. /\ run[k].pc = "waiting" /\ Decide(k, "successful", "debiting") /\ Win(run[k].at)
        /\ UNCHANGED <<debits, cut>>
    BY <1>4 DEF AnswerPaid, ledger
  <2>2. Others(k) /\ run'[k].pc = "debiting" /\ run'[k].at = run[k].at
    BY <2>1, Decides
  <2>3. wins'[r] = wins[r] + (IF run[k].at = r THEN 1 ELSE 0)
    BY <1>0, <2>1, WinType
  <2>4. Ones(r)[k] = 0 /\ Ones(r)'[k] = (IF run[k].at = r THEN 1 ELSE 0)
    BY <1>0, <2>1, <2>2
  <2>5. QED
    BY <1>0, <1>2, <2>1, <2>2, <2>3, <2>4 DEF Told
<1>5. CASE NoAnswer(k) \/ AnswerRefused(k) \/ AnswerUnknown(k) \/ Save(k)
  <2>1. Others(k) /\ run'[k].pc # "debiting"
    BY <1>5, Decides, Releases DEF NoAnswer, AnswerRefused, AnswerUnknown, Save
  <2>2. run[k].pc # "debiting" /\ UNCHANGED <<debits, wins, cut>>
    BY <1>5 DEF NoAnswer, AnswerRefused, AnswerUnknown, Save, books, ledger, heard
  <2>3. Ones(r)[k] = 0 /\ Ones(r)'[k] = 0
    BY <1>0, <2>1, <2>2
  <2>4. QED
    BY <1>0, <1>2, <2>1, <2>2, <2>3 DEF Told
<1>6. CASE Debit(k)
  <2>1. /\ run[k].pc = "debiting" /\ UNCHANGED <<wins, cut>> /\ Others(k) /\ run'[k].pc = "saving"
        /\ debits'[r] = debits[r] + (IF r = run[k].at THEN 1 ELSE 0)
    BY <1>6, Debits, OneType DEF Debit, heard
  <2>2. Ones(r)[k] = (IF r = run[k].at THEN 1 ELSE 0) /\ Ones(r)'[k] = 0
    BY <1>0, <2>1
  <2>3. QED
    BY <1>0, <1>2, <2>1, <2>2 DEF Told
<1>7. CASE Raises(k) \/ RunDies(k)
  <2>1. Others(k) /\ run'[k].pc # "debiting" /\ UNCHANGED <<debits, wins>>
    BY <1>7, Releases DEF Raises, RunDies, ledger, heard
  <2>2. (cut[r] => cut'[r]) /\ (Ones(r)[k] = 1 => cut'[r])
    BY <1>0, <1>7, CutType DEF Raises, RunDies
  <2>3. Ones(r)'[k] = 0 /\ Ones(r)[k] \in {0, 1}
    BY <1>0, <2>1
  <2>4. QED
    BY <1>0, <1>2, <2>1, <2>2, <2>3 DEF Told
<1>8. QED
  BY <1>3, <1>4, <1>5, <1>6, <1>7 DEF BulkTask, Works, Answered, QuietRun

LEMMA CallbackTold ==
  ASSUME TypeOK, TypeOK', NEW r \in Records, Told(r), NEW c \in Callbacks, CallbackStep(c)
  PROVE  Told(r)'
<1>0. /\ debits[r] \in Nat /\ wins[r] \in Nat /\ cut[r] \in BOOLEAN /\ cut'[r] \in BOOLEAN
      /\ callback[c].paid \in [Records -> Nat] /\ CallbackOK(callback[c])
  BY DEF TypeOK, BooksOK, CallbackStates
<1>1. UNCHANGED <<run, inquiry>> /\ \A d \in Callbacks \ {c} : callback'[d] = callback[d]
  BY CallbackLists DEF CallbackStep, Deliver, Apply, ApplyUnknown, DebitCallback, FlagCallback, CallbackDies
<1>2. /\ Due(r)' = Due(r) - callback[c].paid[r] + callback'[c].paid[r]
      /\ Due(r) \in Nat /\ Due(r)' \in Nat /\ callback[c].paid[r] <= Due(r)
      /\ callback[c].paid[r] \in Nat /\ callback'[c].paid[r] \in Nat
  BY <1>1, CallbackDue
<1>3. NonePaid[r] = 0
  BY DEF NonePaid
<1>4. ASSUME Deliver(c), callback'[c].paid = callback[c].paid PROVE Told(r)'
  <2>1. UNCHANGED <<debits, wins, cut>>
    BY <1>4 DEF Deliver, books, ledger, heard
  <2>2. QED
    BY <1>0, <1>2, <1>4, <2>1 DEF Told
<1>5. ASSUME NEW e \in Reports, Apply(c), Update(e), callback'[c].paid = Add(callback[c].paid, e) PROVE Told(r)'
  <2>1. UNCHANGED <<debits, cut>>
    BY <1>5 DEF Apply, ledger
  <2>2. wins'[r] = wins[r] + (IF r = e.id /\ e.ok THEN 1 ELSE 0)
    BY <1>5, UpdateType
  <2>3. callback'[c].paid[r] = callback[c].paid[r] + (IF r = e.id /\ e.ok THEN 1 ELSE 0)
    BY <1>0, <1>5, AddType
  <2>4. QED
    BY <1>0, <1>2, <2>1, <2>2, <2>3 DEF Told
<1>6. ASSUME DebitCallback(c), Charge(callback[c].paid, callback[c].win), callback'[c].paid = NonePaid PROVE Told(r)'
  <2>1. UNCHANGED <<wins, cut>>
    BY <1>6 DEF DebitCallback, heard
  <2>2. debits'[r] = debits[r] + callback[c].paid[r]
    BY <1>6 DEF Charge
  <2>3. QED
    BY <1>0, <1>2, <1>3, <1>6, <2>1, <2>2 DEF Told
<1>7. ASSUME ApplyUnknown(c) \/ CallbackDies(c), callback'[c].paid = NonePaid PROVE Told(r)'
  <2>1. UNCHANGED <<debits, wins>> /\ (cut[r] => cut'[r]) /\ (callback[c].paid[r] > 0 => cut'[r])
    BY <1>7, CutType DEF ApplyUnknown, CallbackDies, ledger, heard, Paid
  <2>2. QED
    BY <1>0, <1>2, <1>3, <1>7, <2>1 DEF Told
<1>8. ASSUME FlagCallback(c), callback'[c].paid = NonePaid PROVE Told(r)'
  <2>1. UNCHANGED <<debits, wins, cut>> /\ ~(callback[c].paid[r] > 0)
    BY <1>0, <1>8 DEF FlagCallback, CallbackOK, Paid, books, ledger, heard
  <2>2. QED
    BY <1>0, <1>2, <1>3, <1>8, <2>1 DEF Told
<1>9. QED
  BY <1>4, <1>5, <1>6, <1>7, <1>8, CallbackLists

LEMMA InquiryTold ==
  ASSUME TypeOK, TypeOK', NEW r \in Records, Told(r), NEW q \in Inquiries, InquiryStep(q)
  PROVE  Told(r)'
<1>0. /\ debits[r] \in Nat /\ wins[r] \in Nat /\ cut[r] \in BOOLEAN /\ cut'[r] \in BOOLEAN
      /\ inquiry[q].paid \in [Records -> Nat]
  BY DEF TypeOK, BooksOK, InquiryStates
<1>1. UNCHANGED <<run, callback>> /\ \A p \in Inquiries \ {q} : inquiry'[p] = inquiry[p]
  BY InquiryLists DEF InquiryStep, Select, Ask, AskInVain, ApplyLate, DebitLate, FlagLate, EndInquiry, InquiryDies
<1>2. /\ Due(r)' = Due(r) - inquiry[q].paid[r] + inquiry'[q].paid[r]
      /\ Due(r) \in Nat /\ Due(r)' \in Nat /\ inquiry[q].paid[r] <= Due(r)
      /\ inquiry[q].paid[r] \in Nat /\ inquiry'[q].paid[r] \in Nat
  BY <1>1, InquiryDue
<1>3. NonePaid[r] = 0
  BY DEF NonePaid
<1>4. ASSUME Select(q) \/ (\E d \in Docs : Ask(q, d) \/ AskInVain(q, d)) \/ FlagLate(q) \/ EndInquiry(q),
             inquiry'[q].paid = inquiry[q].paid
      PROVE  Told(r)'
  <2>1. UNCHANGED <<debits, wins, cut>>
    BY <1>4 DEF Select, Ask, AskInVain, FlagLate, EndInquiry, books, ledger, heard
  <2>2. QED
    BY <1>0, <1>2, <1>4, <2>1 DEF Told
<1>5. ASSUME NEW e \in Reports, ApplyLate(q), Update(e), inquiry'[q].paid = Add(inquiry[q].paid, e) PROVE Told(r)'
  <2>1. UNCHANGED <<debits, cut>>
    BY <1>5 DEF ApplyLate, ledger
  <2>2. wins'[r] = wins[r] + (IF r = e.id /\ e.ok THEN 1 ELSE 0)
    BY <1>5, UpdateType
  <2>3. inquiry'[q].paid[r] = inquiry[q].paid[r] + (IF r = e.id /\ e.ok THEN 1 ELSE 0)
    BY <1>0, <1>5, AddType
  <2>4. QED
    BY <1>0, <1>2, <2>1, <2>2, <2>3 DEF Told
<1>6. ASSUME DebitLate(q), Charge(inquiry[q].paid, inquiry[q].doc), inquiry'[q].paid = NonePaid PROVE Told(r)'
  <2>1. UNCHANGED <<wins, cut>>
    BY <1>6 DEF DebitLate, heard
  <2>2. debits'[r] = debits[r] + inquiry[q].paid[r]
    BY <1>6 DEF Charge
  <2>3. QED
    BY <1>0, <1>2, <1>3, <1>6, <2>1, <2>2 DEF Told
<1>7. ASSUME InquiryDies(q), inquiry'[q].paid = NonePaid PROVE Told(r)'
  <2>1. UNCHANGED <<debits, wins>> /\ (cut[r] => cut'[r]) /\ (inquiry[q].paid[r] > 0 => cut'[r])
    BY <1>7, CutType DEF InquiryDies, ledger, heard, Paid
  <2>2. QED
    BY <1>0, <1>2, <1>3, <1>7, <2>1 DEF Told
<1>8. QED
  BY <1>4, <1>5, <1>6, <1>7, InquiryLists

LEMMA ToldStep == ASSUME TypeOK, TypeOK', NEW r \in Records, Told(r), [Next]_vars PROVE Told(r)'
<1>1. ASSUME UNCHANGED <<run, callback, inquiry, debits, wins, cut>> PROVE Told(r)'
  BY <1>1 DEF Told, Due
<1>2. CASE UNCHANGED vars
  BY <1>1, <1>2 DEF vars, books, ledger, heard
<1>3. ASSUME NEW s \in Records, Pays(s) \/ Refuses(s) PROVE Told(r)'
  BY <1>1, <1>3 DEF Pays, Refuses, books, ledger, heard
<1>4. QED
  BY <1>2, <1>3, RunTold, CallbackTold, InquiryTold DEF Next, QuietRun

\* However often a record is reported and by whom, the budgets are debited for it as
\* often as somebody was told that it was paid, but for what stopped processes lost.
THEOREM ToldTheorem == Spec => []DebitedAsTold
<1> DEFINE I == \A r \in Records : Told(r)
<1>1. Init => I
  <2>1. SUFFICES ASSUME Init, NEW r \in Records PROVE Told(r)
    OBVIOUS
  <2>2. \A k \in Runs : Ones(r)[k] = 0
    <3>1. \A k \in Runs : run[k].pc = "none"
      BY <2>1 DEF Init, NoRun
    <3>2. QED
      BY <3>1 DEF Ones
  <2>3. (\A c \in Callbacks : Calls(r)[c] = 0) /\ (\A q \in Inquiries : Lates(r)[q] = 0)
    <3>1. (\A c \in Callbacks : callback[c].paid = NonePaid) /\ (\A q \in Inquiries : inquiry[q].paid = NonePaid)
      BY <2>1 DEF Init, NoCallback, NoInquiry
    <3>2. NonePaid[r] = 0
      BY DEF NonePaid
    <3>3. QED
      BY <3>1, <3>2 DEF Calls, Lates
  <2>4. Sum(Ones(r), Runs) = 0 /\ Sum(Calls(r), Callbacks) = 0 /\ Sum(Lates(r), Inquiries) = 0
    BY <2>2, <2>3, SumZero, BulkAssumption
  <2>5. debits[r] = 0 /\ wins[r] = 0
    BY <2>1 DEF Init
  <2>6. Due(r) = 0
    BY <2>4 DEF Due, Ones, Calls, Lates
  <2>7. QED
    BY <2>5, <2>6 DEF Told
<1>2. TypeOK /\ TypeOK' /\ I /\ [Next]_vars => I'
  BY ToldStep
<1>3. I => DebitedAsTold
  BY DEF Told, DebitedAsTold
<1> HIDE DEF I
<1>4. QED
  BY <1>1, <1>2, <1>3, TypeTheorem, PTL DEF Spec

-----------------------------------------------------------------------------
(* One verdict on a record: it is debited exactly if it is successful *)

\* who has the record in hand, with a debit or a save to come
RunHolds(k, r)     == run[k].pc \in {"debiting", "saving"} /\ run[k].at = r
NoTaskHolds(r)     == \A k \in Runs : ~RunHolds(k, r)

\* Whoever writes "successful", or has read it, goes by a verdict.
WonInv(r) ==
  /\ record[r] = "successful" => wins[r] > 0
  /\ \A k \in Runs : RunHolds(k, r) /\ run[k].will = "successful" => wins[r] > 0
  /\ r \in Deposits => \A k \in Runs : run[k].seen[r] = "successful" => wins[r] > 0

\* Nobody holds a record before the first verdict.  After it the task that holds the
\* record will save what it was told, and if none does and none stopped it is saved.
AloneInv(r) ==
  /\ told[r] = 0 => wins[r] = 0 /\ NoTaskHolds(r)
  /\ told[r] = 1 => wins[r] <= 1
  /\ told[r] <= 1 /\ wins[r] > 0 =>
       /\ \A k \in Runs : RunHolds(k, r) => run[k].will = "successful"
       /\ NoTaskHolds(r) /\ ~cut[r] => record[r] = "successful"

RecordInv(r) == WonInv(r) /\ AloneInv(r)

\* A step leaves a record alone: its row and history, and who holds it how.
LEMMA LeftAlone ==
  ASSUME NEW r \in Records, RecordInv(r), cut[r] => cut'[r],
         record'[r] = record[r], wins'[r] = wins[r], told'[r] = told[r],
         \A k \in Runs : /\ RunHolds(k, r)' <=> RunHolds(k, r)
                         /\ RunHolds(k, r) => run'[k].will = run[k].will,
         r \in Deposits => \A k \in Runs : run'[k].seen[r] \in {run[k].seen[r], record[r], "open"}
  PROVE  RecordInv(r)'
<1>1. NoTaskHolds(r)' <=> NoTaskHolds(r)
  BY DEF NoTaskHolds
<1>2. WonInv(r)'
  BY DEF RecordInv, WonInv
<1>3. AloneInv(r)'
  BY <1>1 DEF RecordInv, AloneInv
<1>4. QED
  BY <1>2, <1>3 DEF RecordInv

\* The same for a step of a task.
LEMMA RunLeavesAlone ==
  ASSUME NEW r \in Records, RecordInv(r), NEW k \in Runs, Others(k), cut[r] => cut'[r],
         record'[r] = record[r], wins'[r] = wins[r], told'[r] = told[r],
         RunHolds(k, r)' <=> RunHolds(k, r),
         RunHolds(k, r) => run'[k].will = run[k].will,
         r \in Deposits => run'[k].seen[r] \in {run[k].seen[r], record[r], "open"}
  PROVE  RecordInv(r)'
<1>1. \A j \in Runs : /\ RunHolds(j, r)' <=> RunHolds(j, r)
                      /\ RunHolds(j, r) => run'[j].will = run[j].will
  BY DEF Others, RunHolds
<1>2. r \in Deposits => \A j \in Runs : run'[j].seen[r] \in {run[j].seen[r], record[r], "open"}
  BY DEF Others
<1>3. QED
  BY <1>1, <1>2, LeftAlone

\* A task decides on its record; no other task's hand changes.
LEMMA DecideRecord ==
  ASSUME TypeOK, NEW r \in Records, RecordInv(r), NEW k \in Runs, run[k].pc = "waiting",
         NEW verdict, NEW pc \in {"debiting", "saving"}, Decide(k, verdict, pc), UNCHANGED cut,
         \A q \in Records \ {run[k].at} : record'[q] = record[q],
         record'[run[k].at] = "successful" \/ verdict = "successful" =>
            wins'[run[k].at] > 0,
         \/ Win(run[k].at) /\ verdict = "successful"
         \/ UNCHANGED wins
  PROVE  RecordInv(r)'
<1>0. run[k].at \in Records /\ wins[r] \in Nat /\ told[r] \in 0..2
  BY DEF TypeOK, RunOK, BooksOK
<1>1. /\ run'[k].pc = pc /\ run'[k].will = verdict /\ run'[k].at = run[k].at
      /\ run'[k].seen = run[k].seen /\ Others(k) /\ Tell(run[k].at)
  BY Decides
<1>2. CASE r # run[k].at
  <2>1. told'[r] = told[r] /\ wins'[r] = wins[r]
    BY <1>0, <1>1, <1>2, TellType, WinType
  <2>2. QED
    BY <1>1, <1>2, <2>1, RunLeavesAlone DEF RunHolds
<1>3. CASE r = run[k].at
  <2>1. told'[r] = (IF told[r] = 0 THEN 1 ELSE 2) /\ wins'[r] \in {wins[r], wins[r] + 1}
    BY <1>0, <1>1, <1>3, TellType, WinType
  <2>2. \A j \in Runs \ {k} : (RunHolds(j, r)' <=> RunHolds(j, r)) /\ run'[j] = run[j]
    BY <1>1 DEF RunHolds, Others
  <2>3. RunHolds(k, r)'
    BY <1>1, <1>3 DEF RunHolds
  <2>4. wins[r] > 0 => wins'[r] > 0
    BY <1>0, <2>1
  <2>5. WonInv(r)'
    BY <1>1, <1>3, <2>2, <2>4 DEF RecordInv, WonInv
  <2>6. told'[r] # 0 /\ ~NoTaskHolds(r)'
    BY <2>1, <2>3 DEF NoTaskHolds
  <2>7. ASSUME told'[r] <= 1
        PROVE  /\ wins'[r] <= 1
               /\ wins'[r] > 0 => \A j \in Runs : RunHolds(j, r)' => run'[j].will = "successful"
    <3>1. told[r] = 0 /\ wins[r] = 0 /\ NoTaskHolds(r)
      BY <1>0, <2>1, <2>7 DEF RecordInv, AloneInv
    <3>2. wins'[r] <= 1
      BY <2>1, <3>1
    <3>3. wins'[r] > 0 => verdict = "successful"
      BY <3>1
    <3>4. QED
      BY <1>1, <2>2, <3>1, <3>2, <3>3 DEF NoTaskHolds
  <2>8. AloneInv(r)'
    BY <2>1, <2>6, <2>7 DEF AloneInv
  <2>9. QED
    BY <2>5, <2>8 DEF RecordInv
<1>4. QED
  BY <1>2, <1>3

\* The task lets go of a record it had not decided on.
LEMMA NoAnswerRecord ==
  ASSUME TypeOK, NEW r \in Records, RecordInv(r), NEW k \in Runs, NoAnswer(k)
  PROVE  RecordInv(r)'
<1>0. /\ run[k].pc = "waiting" /\ run[k].at \in Records /\ UNCHANGED <<wins, cut>>
      /\ run'[k].pc \in {"posting", "dead"} /\ Others(k)
      /\ \A q \in Deposits : run'[k].seen[q] \in {run[k].seen[q], "open"}
      /\ told[r] \in 0..2
  BY Releases DEF NoAnswer, TypeOK, RunOK, BooksOK
<1>1. CASE r # run[k].at \/ r \notin Deposits
  <2>1. record'[r] = record[r] /\ told'[r] = told[r]
    BY <1>0, <1>1, TellType DEF NoAnswer, TypeOK, RowsOK
  <2>2. QED
    BY <1>0, <2>1, RunLeavesAlone DEF RunHolds
<1>2. CASE r = run[k].at /\ r \in Deposits
  <2>1. record'[r] = "failed" /\ told'[r] = (IF told[r] = 0 THEN 1 ELSE 2)
    BY <1>2, TellType DEF NoAnswer, TypeOK, RowsOK
  <2>2. \A j \in Runs : (RunHolds(j, r)' <=> RunHolds(j, r)) /\ (RunHolds(j, r) => run'[j] = run[j])
    BY <1>0 DEF RunHolds, Others
  <2>3. \A j \in Runs : run'[j].seen[r] \in {run[j].seen[r], "open"}
    BY <1>0, <1>2 DEF Others
  <2>4. WonInv(r)'
    BY <1>0, <2>1, <2>2, <2>3 DEF RecordInv, WonInv
  <2>5. told'[r] <= 1 => wins[r] = 0
    BY <1>0, <2>1 DEF RecordInv, AloneInv
  <2>6. AloneInv(r)'
    BY <1>0, <2>1, <2>5 DEF AloneInv
  <2>7. QED
    BY <2>4, <2>6 DEF RecordInv
<1>3. QED
  BY <1>1, <1>2

LEMMA SaveRecord ==
  ASSUME TypeOK, NEW r \in Records, RecordInv(r), NEW k \in Runs, Save(k)
  PROVE  RecordInv(r)'
<1>0. /\ run[k].pc = "saving" /\ UNCHANGED <<told, cut, wins>>
      /\ run'[k].pc \in {"posting", "dead"} /\ Others(k)
      /\ \A q \in Deposits : run'[k].seen[q] \in {run[k].seen[q], "open"}
  BY Releases DEF Save, books, heard
<1>1. record'[r] = IF r = run[k].at THEN run[k].will ELSE record[r]
  BY DEF Save, TypeOK, RowsOK
<1>2. CASE r # run[k].at
  BY <1>0, <1>1, <1>2, RunLeavesAlone DEF RunHolds
<1>3. CASE r = run[k].at
  <2>1. RunHolds(k, r) /\ ~RunHolds(k, r)'
    BY <1>0, <1>3 DEF RunHolds
  <2>2. \A j \in Runs : RunHolds(j, r)' => RunHolds(j, r) /\ run'[j] = run[j]
    BY <1>0, <2>1 DEF RunHolds, Others
  <2>3. r \in Deposits => \A j \in Runs : run'[j].seen[r] \in {run[j].seen[r], "open"}
    BY <1>0 DEF Others
  <2>4. WonInv(r)'
    BY <1>0, <1>1, <1>3, <2>1, <2>2, <2>3 DEF RecordInv, WonInv
  <2>5. told[r] # 0
    BY <2>1 DEF RecordInv, AloneInv, NoTaskHolds
  <2>6. AloneInv(r)'
    BY <1>0, <1>1, <1>3, <2>1, <2>2, <2>5 DEF RecordInv, AloneInv
  <2>7. QED
    BY <2>4, <2>6 DEF RecordInv
<1>4. QED
  BY <1>2, <1>3

LEMMA StopRecord ==
  ASSUME TypeOK, NEW r \in Records, RecordInv(r), NEW k \in Runs, Raises(k) \/ RunDies(k)
  PROVE  RecordInv(r)'
<1>0. /\ UNCHANGED <<told, wins>> /\ run'[k].pc \in {"posting", "dead"} /\ Others(k)
      /\ \A q \in Deposits : run'[k].seen[q] \in {run[k].seen[q], "open"}
  BY Releases DEF Raises, RunDies, heard
<1>1. (cut[r] => cut'[r]) /\ (RunHolds(k, r) => cut'[r])
  BY CutType DEF Raises, RunDies, RunHolds
<1>2. CASE ~RunHolds(k, r)
  <2>1. record'[r] = record[r]
    BY <1>2 DEF Raises, RunDies, RunHolds, TypeOK, RowsOK
  <2>2. QED
    BY <1>0, <1>1, <1>2, <2>1, RunLeavesAlone DEF RunHolds
<1>3. CASE RunHolds(k, r)
  <2>1. record'[r] \in {record[r], "failed"}
    BY DEF Raises, RunDies, TypeOK, RowsOK
  <2>2. \A j \in Runs : RunHolds(j, r)' => RunHolds(j, r) /\ run'[j] = run[j]
    BY <1>0 DEF RunHolds, Others
  <2>3. r \in Deposits => \A j \in Runs : run'[j].seen[r] \in {run[j].seen[r], "open"}
    BY <1>0 DEF Others
  <2>4. WonInv(r)'
    BY <1>0, <2>1, <2>2, <2>3 DEF RecordInv, WonInv
  <2>5. told[r] # 0 /\ cut'[r]
    BY <1>1, <1>3 DEF RecordInv, AloneInv, NoTaskHolds
  <2>6. AloneInv(r)'
    BY <1>0, <2>2, <2>5 DEF RecordInv, AloneInv
  <2>7. QED
    BY <2>4, <2>6 DEF RecordInv
<1>4. QED
  BY <1>2, <1>3

LEMMA RunRecord ==
  ASSUME TypeOK, NEW r \in Records, \A q \in Records : RecordInv(q), NEW k \in Runs,
         QuietRun(k) \/ BulkTask(k) \/ Raises(k) \/ RunDies(k)
  PROVE  RecordInv(r)'
<1>0. /\ run[k].pc = "waiting" => run[k].at \in Records
      /\ \A q \in Records : wins[q] \in Nat
  BY DEF TypeOK, RunOK, BooksOK
<1>1. CASE QuietRun(k)
  <2>1. UNCHANGED <<record, wins, told, cut>>
    BY <1>1 DEF QuietRun, Queue, LoadTxn, MarkDisbursed, ApiDies, StartRun, EndFirstRound, EndSecondRound, Post,
       books, heard
  <2>2. QED
    BY <1>1, <2>1, QuietRunKeeps, RunLeavesAlone DEF Holding, RunHolds
<1>2. CASE AnswerPaid(k)
  <2>1. \A q \in Records \ {run[k].at} : record'[q] = record[q]
    BY <1>2 DEF AnswerPaid, TypeOK, RowsOK
  <2>2. run[k].pc = "waiting" /\ Decide(k, "successful", "debiting") /\ UNCHANGED cut /\ Win(run[k].at)
    BY <1>2 DEF AnswerPaid
  <2>3. wins'[run[k].at] > 0
    BY <1>0, <2>2, WinType
  <2>4. QED
    BY <2>1, <2>2, <2>3, DecideRecord
<1>3. CASE AnswerRefused(k)
  <2>1. \A q \in Records \ {run[k].at} : record'[q] = record[q]
    BY <1>3 DEF AnswerRefused, TypeOK, RowsOK
  <2>2. run[k].pc = "waiting" /\ Decide(k, "failed", "saving") /\ UNCHANGED <<cut, wins>>
    BY <1>3 DEF AnswerRefused
  <2>3. record'[run[k].at] = "successful" => wins'[run[k].at] > 0
    <3>1. record'[run[k].at] \in {record[run[k].at], "failed"}
      BY <1>0, <1>3 DEF AnswerRefused, TypeOK, RowsOK
    <3>2. QED
      BY <1>0, <2>2, <3>1 DEF RecordInv, WonInv
  <2>4. QED
    BY <2>1, <2>2, <2>3, DecideRecord
<1>4. CASE AnswerUnknown(k)
  <2> DEFINE at == run[k].at
             verdict == IF at \in Deposits THEN run[k].seen[at]
                        ELSE IF record[at] = "open" THEN "open" ELSE "failed"
  <2>1. run[k].pc = "waiting" /\ Decide(k, verdict, "saving") /\ UNCHANGED <<cut, record, wins>>
    BY <1>4 DEF AnswerUnknown
  <2>2. record[at] = "successful" \/ verdict = "successful" => wins[at] > 0
    BY <1>0, <2>1 DEF RecordInv, WonInv
  <2> HIDE DEF verdict
  <2>3. QED
    BY <2>1, <2>2, DecideRecord
<1>5. CASE Debit(k)
  <2>1. /\ UNCHANGED <<record, wins, told, cut>> /\ run[k].pc = "debiting"
        /\ run'[k].pc = "saving" /\ run'[k].will = run[k].will /\ run'[k].at = run[k].at
        /\ run'[k].seen = run[k].seen /\ Others(k)
    BY <1>5, Debits DEF Debit, heard
  <2>2. QED
    BY <2>1, RunLeavesAlone DEF RunHolds
<1>6. QED
  BY <1>1, <1>2, <1>3, <1>4, <1>5, NoAnswerRecord, SaveRecord, StopRecord DEF BulkTask, Works, Answered, QuietRun

\* An entry of a report: the first verdict on a record or the second.
LEMMA UpdateRecord ==
  ASSUME TypeOK, NEW r \in Records, RecordInv(r), NEW e \in Reports, Update(e), UNCHANGED <<run, cut>>
  PROVE  RecordInv(r)'
<1>0. wins[r] \in Nat /\ told[r] \in 0..2 /\ record[r] \in Verdicts
  BY DEF TypeOK, BooksOK, RowsOK
<1>1. /\ e.id \in Records /\ record'[r] = (IF r = e.id THEN Verdict(e) ELSE record[r])
      /\ told'[r] = (IF r # e.id THEN told[r] ELSE IF told[r] = 0 THEN 1 ELSE 2)
      /\ wins'[r] = wins[r] + (IF r = e.id /\ e.ok THEN 1 ELSE 0)
  BY UpdateType
<1>2. (\A k \in Runs : RunHolds(k, r)' <=> RunHolds(k, r)) /\ (NoTaskHolds(r)' <=> NoTaskHolds(r))
  BY DEF RunHolds, NoTaskHolds
<1>3. CASE r # e.id
  BY <1>0, <1>1, <1>2, <1>3, LeftAlone
<1>4. CASE r = e.id
  <2>1. /\ e.ok => record'[r] = "successful" /\ wins'[r] = wins[r] + 1
        /\ ~e.ok => record'[r] = "failed" /\ wins'[r] = wins[r]
    BY <1>0, <1>1, <1>4 DEF Verdict
  <2>2. (wins[r] > 0 => wins'[r] > 0) /\ (e.ok => wins'[r] > 0)
    BY <1>0, <2>1
  <2>3. WonInv(r)'
    BY <1>2, <2>1, <2>2 DEF RecordInv, WonInv
  <2>4. told'[r] # 0 /\ (told'[r] <= 1 => wins[r] = 0 /\ NoTaskHolds(r))
    BY <1>0, <1>1, <1>4 DEF RecordInv, AloneInv
  <2>5. told'[r] <= 1 => wins'[r] <= 1 /\ (wins'[r] > 0 => record'[r] = "successful")
    BY <2>1, <2>4
  <2>6. AloneInv(r)'
    BY <1>1, <1>2, <1>4, <2>4, <2>5 DEF AloneInv, NoTaskHolds
  <2>7. QED
    BY <2>3, <2>6 DEF RecordInv
<1>5. QED
  BY <1>3, <1>4

LEMMA OthersRecord ==
  ASSUME TypeOK, NEW r \in Records, RecordInv(r), UNCHANGED <<run, record, wins, told>>, cut[r] => cut'[r]
  PROVE  RecordInv(r)'
BY LeftAlone DEF RunHolds

LEMMA ReportRecord ==
  ASSUME TypeOK, NEW r \in Records, RecordInv(r),
         (\E c \in Callbacks : CallbackStep(c)) \/ \E q \in Inquiries : InquiryStep(q)
  PROVE  RecordInv(r)'
<1>1. ASSUME NEW R, CutAll(R) PROVE cut[r] => cut'[r]
  BY <1>1, CutType
<1>2. ASSUME NEW c \in Callbacks, CallbackStep(c) PROVE RecordInv(r)'
  <2>1. CASE Apply(c)
    <3>1. UNCHANGED <<run, cut>> /\ callback[c].todo # <<>> /\ Head(callback[c].todo) # Stranger
          /\ Update(Head(callback[c].todo))
      BY <2>1 DEF Apply
    <3>2. callback[c].todo \in Seq(Reports \cup {Stranger})
      BY DEF TypeOK, CallbackStates
    <3>3. Head(callback[c].todo) \in Reports
      BY <3>1, <3>2, SaidRest
    <3>4. QED
      BY <3>1, <3>3, UpdateRecord
  <2>2. CASE ~Apply(c)
    <3>1. UNCHANGED <<run, record, wins, told>> /\ (cut' = cut \/ \E R : CutAll(R))
      BY <1>2, <2>2 DEF CallbackStep, Deliver, ApplyUnknown, DebitCallback, FlagCallback, CallbackDies, books, heard
    <3>2. QED
      BY <1>1, <3>1, OthersRecord
  <2>3. QED
    BY <2>1, <2>2
<1>3. ASSUME NEW q \in Inquiries, InquiryStep(q) PROVE RecordInv(r)'
  <2>1. CASE ApplyLate(q)
    <3>1. UNCHANGED <<run, cut>> /\ inquiry[q].todo # <<>> /\ Update(Head(inquiry[q].todo))
      BY <2>1 DEF ApplyLate
    <3>2. inquiry[q].todo \in Seq(Reports)
      BY DEF TypeOK, InquiryStates
    <3>3. Head(inquiry[q].todo) \in Reports
      BY <3>1, <3>2, SaidRest
    <3>4. QED
      BY <3>1, <3>3, UpdateRecord
  <2>2. CASE ~ApplyLate(q)
    <3>1. UNCHANGED <<run, record, wins, told>> /\ (cut' = cut \/ \E R : CutAll(R))
      BY <1>3, <2>2 DEF InquiryStep, Select, Ask, AskInVain, DebitLate, FlagLate, EndInquiry, InquiryDies, books, heard
    <3>2. QED
      BY <1>1, <3>1, OthersRecord
  <2>3. QED
    BY <2>1, <2>2
<1>4. QED
  BY <1>2, <1>3

RecordsInv == \A r \in Records : RecordInv(r)

LEMMA RecordStep == ASSUME TypeOK, RecordsInv, [Next]_vars PROVE RecordsInv'
<1>1. SUFFICES ASSUME NEW r \in Records PROVE RecordInv(r)'
  BY DEF RecordsInv
<1>2. RecordInv(r)
  BY DEF RecordsInv
<1>3. CASE UNCHANGED vars
  BY <1>2, <1>3, OthersRecord DEF vars, books, heard
<1>4. ASSUME NEW s \in Records, Pays(s) \/ Refuses(s) PROVE RecordInv(r)'
  BY <1>2, <1>4, OthersRecord DEF Pays, Refuses, books, heard
<1>5. ASSUME NEW k \in Runs, QuietRun(k) \/ BulkTask(k) \/ Raises(k) \/ RunDies(k) PROVE RecordInv(r)'
  BY <1>5, RunRecord DEF RecordsInv
<1>6. QED
  BY <1>2, <1>3, <1>4, <1>5, ReportRecord DEF Next, QuietRun

LEMMA RecordTheorem == Spec => [](TypeOK /\ RecordsInv /\ DebitedAsTold)
<1>1. Init => RecordsInv
  <2>1. SUFFICES ASSUME Init, NEW r \in Records PROVE RecordInv(r)
    BY DEF RecordsInv
  <2>2. \A k \in Runs : run[k].pc = "none" /\ run[k].will = "open" /\ run[k].seen = [x \in Deposits |-> "open"]
    BY <2>1 DEF Init, NoRun
  <2>3. record[r] = "open" /\ wins[r] = 0 /\ told[r] = 0
    BY <2>1 DEF Init
  <2>4. WonInv(r) /\ AloneInv(r)
    BY <2>2, <2>3 DEF WonInv, AloneInv, NoTaskHolds, RunHolds
  <2>5. QED
    BY <2>4 DEF RecordInv
<1>2. QED
  BY <1>1, RecordStep, TypeTheorem, ToldTheorem, PTL DEF Spec

\* If nothing is due for a record nobody is about to debit it, and the other way round.
LEMMA DueDebiting ==
  ASSUME TypeOK, NEW r \in Records
  PROVE  /\ Due(r) \in Nat
         /\ Due(r) > 0 => Debiting(r)
         /\ (\E k \in Runs : run[k].pc = "debiting" /\ run[k].at = r) => Due(r) > 0
<1>1. /\ Due(r) = Sum(Ones(r), Runs) + Sum(Calls(r), Callbacks) + Sum(Lates(r), Inquiries)
      /\ Ones(r) \in [Runs -> Nat] /\ Calls(r) \in [Callbacks -> Nat] /\ Lates(r) \in [Inquiries -> Nat]
      /\ Sum(Ones(r), Runs) \in Nat /\ Sum(Calls(r), Callbacks) \in Nat /\ Sum(Lates(r), Inquiries) \in Nat
  BY DueParts
<1>2. ASSUME ~Debiting(r) PROVE Due(r) = 0
  <2>1. \A k \in Runs : Ones(r)[k] = 0
    BY <1>2 DEF Ones, Debiting
  <2>2. \A c \in Callbacks : Calls(r)[c] = 0
    <3>1. \A c \in Callbacks : Calls(r)[c] \in Nat /\ ~(Calls(r)[c] > 0)
      BY <1>1, <1>2 DEF Calls, Debiting
    <3>2. QED
      BY <3>1
  <2>3. \A q \in Inquiries : Lates(r)[q] = 0
    <3>1. \A q \in Inquiries : Lates(r)[q] \in Nat /\ ~(Lates(r)[q] > 0)
      BY <1>1, <1>2 DEF Lates, Debiting
    <3>2. QED
      BY <3>1
  <2>4. Sum(Ones(r), Runs) = 0 /\ Sum(Calls(r), Callbacks) = 0 /\ Sum(Lates(r), Inquiries) = 0
    BY <2>1, <2>2, <2>3, SumZero, BulkAssumption
  <2>5. QED
    BY <1>1, <2>4
<1>3. ASSUME NEW k \in Runs, run[k].pc = "debiting", run[k].at = r PROVE Due(r) > 0
  <2>1. Ones(r)[k] = 1
    BY <1>3 DEF Ones
  <2>2. Ones(r)[k] <= Sum(Ones(r), Runs)
    BY <1>1, SumChanges, BulkAssumption
  <2>3. QED
    BY <1>1, <2>1, <2>2
<1>4. Due(r) \in Nat
  BY <1>1
<1>5. QED
  BY <1>2, <1>3, <1>4

\* What is successful is debited or about to be, unless somebody stopped with it in
\* hand, and once only on one verdict.
THEOREM SuccessTheorem == Spec => []SuccessIsDebited
<1>1. TypeOK /\ RecordsInv /\ DebitedAsTold => SuccessIsDebited
  <2>1. SUFFICES ASSUME TypeOK, RecordsInv, DebitedAsTold, NEW r \in Records, record[r] = "successful", ~cut[r]
                 PROVE  (debits[r] > 0 \/ Debiting(r)) /\ (told[r] <= 1 => debits[r] <= 1)
    BY DEF SuccessIsDebited
  <2>2. debits[r] + Due(r) = wins[r] /\ debits[r] \in Nat /\ wins[r] \in Nat /\ told[r] \in 0..2 /\ Due(r) \in Nat
    BY <2>1, DueDebiting DEF DebitedAsTold, TypeOK, BooksOK
  <2>3. wins[r] > 0 /\ (told[r] <= 1 => wins[r] <= 1)
    BY <2>1, <2>2 DEF RecordsInv, RecordInv, WonInv, AloneInv
  <2>4. debits[r] > 0 \/ Due(r) > 0
    BY <2>2, <2>3
  <2>5. told[r] <= 1 => debits[r] <= 1
    BY <2>2, <2>3
  <2>6. QED
    BY <2>1, <2>4, <2>5, DueDebiting
<1>2. QED
  BY <1>1, RecordTheorem, PTL

\* And what is debited is successful or about to be.
THEOREM DebitedTheorem == Spec => []DebitedIsSuccessful
<1>1. TypeOK /\ RecordsInv /\ DebitedAsTold => DebitedIsSuccessful
  <2>1. SUFFICES ASSUME TypeOK, RecordsInv, DebitedAsTold, NEW r \in Records, debits[r] > 0, told[r] <= 1, ~cut[r]
                 PROVE  record[r] = "successful" \/ Saving(r)
    BY DEF DebitedIsSuccessful
  <2>2. debits[r] + Due(r) = wins[r] /\ debits[r] \in Nat /\ wins[r] \in Nat /\ told[r] \in 0..2 /\ Due(r) \in Nat
    BY <2>1, DueDebiting DEF DebitedAsTold, TypeOK, BooksOK
  <2>3. AloneInv(r)
    BY <2>1 DEF RecordsInv, RecordInv
  <2>4. wins[r] = 1 /\ Due(r) = 0
    BY <2>1, <2>2, <2>3 DEF AloneInv
  <2>5. ASSUME NEW k \in Runs, RunHolds(k, r) PROVE Saving(r)
    <3>1. ~(run[k].pc = "debiting" /\ run[k].at = r)
      BY <2>1, <2>4, DueDebiting
    <3>2. QED
      BY <2>5, <3>1 DEF RunHolds, Saving
  <2>6. CASE NoTaskHolds(r)
    BY <2>1, <2>3, <2>4, <2>6 DEF AloneInv
  <2>7. QED
    BY <2>5, <2>6 DEF NoTaskHolds
<1>2. QED
  BY <1>1, RecordTheorem, PTL

=============================================================================
