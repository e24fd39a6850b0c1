---------------------------- MODULE DocWorkflow ----------------------------
(***************************************************************************)
(* A document from its upload to the bulk task: the task that validates    *)
(* the sheet and records it, the maker who allows its disbursement or      *)
(* makes it recurring, the checkers who review it one level after the      *)
(* other, the checker who hands it over, the root user who deletes it, and *)
(* the job that copies the recurring ones.                                 *)
(*                                                                         *)
(* Everybody loads the whole Doc row, decides, and saves the whole row     *)
(* back, without a lock: a save takes back what others saved since.  The   *)
(* status that the lists and the inquiries go by is in a row of its own    *)
(* (DisbursementDocData), saved just before the Doc row.                   *)
(***************************************************************************)
EXTENDS Naturals, FiniteSets

CONSTANTS
  Docs,
  Copies,       \* those that are copies of a recurring one
  Checkers, LevelOf,
  MayDisburse,  \* the checkers whose level's maximum covers the amount
  Required,     \* no_of_reviews_required
  Edits, Reviews, Orders,   \* requests: of makers and root, reviews, disbursals
  NoDoc, NoOne,
  MaxFaults     \* TLC bound: processes that die, statements that raise

ASSUME DocAssumption ==
  /\ Copies \subseteq Docs
  /\ LevelOf \in [Checkers -> Nat]
  /\ MayDisburse \subseteq Checkers
  /\ Required \in Nat
  /\ NoDoc \notin Docs /\ NoOne \notin Checkers
  /\ IsFiniteSet(Reviews)
  /\ MaxFaults \in Nat

VARIABLES
  doc,      \* per document: the flags of its Doc row
  status,   \* per document: doc_status of its DisbursementDocData
  records,  \* per document: how many of its records are in the database
  proc,     \* per document: the step of its processor, the row it holds
  edit,     \* per request of a maker or of root: its step, the row it holds
  review,   \* per request to review: its step, and the review
  order,    \* per request to disburse: its step, the row it holds
  job,      \* the recurring job: its step, the row it holds, the copy it makes
  faults,
  \* history
  handed,     \* per document: how often it was queued for the bulk task
  raced,      \* per document: a review was saved that was not admissible any more
  disturbed   \* per document: a save, or the queueing, went by a row that had
              \* changed, somebody stopped half-way, or two disbursals overlapped

books == <<handed, raced, disturbed>>
vars  == <<doc, status, records, proc, edit, review, order, job, faults, books>>

NoRow == [kind |-> "none", processed |-> FALSE, allowed |-> FALSE, disbursed |-> FALSE,
          recurring |-> FALSE, gone |-> FALSE]
Uploaded(kind) == [NoRow EXCEPT !.kind = kind]

NoProc   == [pc |-> "none", inst |-> NoRow]
NoEdit   == [pc |-> "idle", kind |-> "allow", doc |-> NoDoc, inst |-> NoRow]
NoReview == [pc |-> "idle", doc |-> NoDoc, by |-> NoOne, ok |-> FALSE]
NoOrder  == [pc |-> "idle", doc |-> NoDoc, inst |-> NoRow]
NoJob    == [pc |-> "idle", doc |-> NoDoc, inst |-> NoRow, copy |-> NoDoc]

Init ==
  /\ doc = [d \in Docs |-> NoRow]
  /\ status = [d \in Docs |-> "none"]
  /\ records = [d \in Docs |-> "none"]
  /\ proc = [d \in Docs |-> NoProc]
  /\ edit = [e \in Edits |-> NoEdit]
  /\ review = [v \in Reviews |-> NoReview]
  /\ order = [k \in Orders |-> NoOrder]
  /\ job = NoJob
  /\ faults = 0
  /\ handed = [d \in Docs |-> 0]
  /\ raced = [d \in Docs |-> FALSE] /\ disturbed = [d \in Docs |-> FALSE]

Exists(d) == doc[d].kind # "none" /\ ~doc[d].gone   \* to the default manager

Proceed(d, state)  == proc' = [proc EXCEPT ![d] = state]
Request(e, state)  == edit' = [edit EXCEPT ![e] = state]
Ordered(k, state)  == order' = [order EXCEPT ![k] = state]
Says(d, s)         == status' = [status EXCEPT ![d] = s]

Disturb(d, b) == disturbed' = [disturbed EXCEPT ![d] = @ \/ b]
Fault == faults < MaxFaults /\ faults' = faults + 1

\* doc.save() of a row that was loaded as inst: the whole row, whatever is there
SaveOver(d, inst, row) ==
  /\ doc' = [doc EXCEPT ![d] = row]
  /\ Disturb(d, doc[d] # inst)

-----------------------------------------------------------------------------
(* Upload, and the task that processes the sheet *)

\* the form's document, then its status row and the task
Upload(d, kind) ==
  /\ d \notin Copies /\ doc[d].kind = "none"
  /\ doc' = [doc EXCEPT ![d] = Uploaded(kind)]
  /\ Proceed(d, [NoProc EXCEPT !.pc = "uploaded"])
  /\ UNCHANGED <<status, records, edit, review, order, job, faults, books>>

Register(d) ==
  /\ proc[d].pc = "uploaded"
  /\ Says(d, "uploaded")
  /\ Proceed(d, [proc[d] EXCEPT !.pc = "queued"])
  /\ UNCHANGED <<doc, records, edit, review, order, job, faults, books>>

\* The task holds on to the row it loads here to its end.
Load(d) ==
  /\ proc[d].pc = "queued"
  /\ Proceed(d, IF Exists(d) THEN [pc |-> "validating", inst |-> doc[d]]
                             ELSE [proc[d] EXCEPT !.pc = "done"])
  /\ UNCHANGED <<doc, status, records, edit, review, order, job, faults, books>>

EWallet(d) == proc[d].inst.kind = "e_wallet"

\* processed_successfully, first its status: an e-wallet sheet before its records
\* are there, a bank sheet after.
Accept(d) ==
  /\ proc[d].pc = IF EWallet(d) THEN "validating" ELSE "accepting"
  /\ Says(d, "processed")
  /\ Proceed(d, [proc[d] EXCEPT !.pc = "marking"])
  /\ UNCHANGED <<doc, records, edit, review, order, job, faults, books>>

\* ... then the row, which the maker sees from now on as processed
MarkProcessed(d) ==
  LET row == [proc[d].inst EXCEPT !.processed = TRUE]
  IN /\ proc[d].pc = "marking"
     /\ SaveOver(d, proc[d].inst, row)
     /\ Proceed(d, [pc |-> IF EWallet(d) THEN "recording" ELSE "notifying", inst |-> row])
     /\ UNCHANGED <<status, records, edit, review, order, job, faults, handed, raced>>

RecordWallets(d) ==
  /\ EWallet(d) /\ proc[d].pc = "recording"
  /\ records' = [records EXCEPT ![d] = "all"]
  /\ Proceed(d, [proc[d] EXCEPT !.pc = "saving"])
  /\ UNCHANGED <<doc, status, edit, review, order, job, faults, books>>

\* A plausible slip: an exception between two records is swallowed.
RecordBankSome(d) ==
  /\ ~EWallet(d) /\ proc[d].pc = "validating"
  /\ \E n \in {"some", "all"} : records' = [records EXCEPT ![d] = n]
  /\ Proceed(d, [proc[d] EXCEPT !.pc = "accepting"])
  /\ UNCHANGED <<doc, status, edit, review, order, job, faults, books>>

\* The records of bank cards are created one by one.
RecordBank(d) ==
  /\ ~EWallet(d) /\ proc[d].pc \in {"validating", "recording"}
  /\ \E n \in {"some", "all"} :
       /\ records' = [records EXCEPT ![d] = n]
       /\ Proceed(d, [proc[d] EXCEPT !.pc = IF n = "all" THEN "accepting" ELSE "recording"])
  /\ UNCHANGED <<doc, status, edit, review, order, job, faults, books>>

\* the e-wallet task's last doc_obj.save()
SaveAgain(d) ==
  /\ proc[d].pc = "saving"
  /\ SaveOver(d, proc[d].inst, proc[d].inst)
  /\ Proceed(d, [proc[d] EXCEPT !.pc = "notifying"])
  /\ UNCHANGED <<status, records, edit, review, order, job, faults, handed, raced>>

Notify(d) ==
  /\ proc[d].pc = "notifying"
  /\ Proceed(d, [NoProc EXCEPT !.pc = "done"])
  /\ UNCHANGED <<doc, status, records, edit, review, order, job, faults, books>>

\* processing_failure, when the sheet is not valid; and from the handler of any
\* exception, however far the task has come: first the status ...
Refuse(d) ==
  /\ \/ proc[d].pc = "validating" /\ UNCHANGED faults
     \/ proc[d].pc \in {"marking", "recording", "accepting", "saving", "notifying"} /\ Fault
  /\ Says(d, "failed")
  /\ Disturb(d, status[d] = "disbursed")
  /\ Proceed(d, [proc[d] EXCEPT !.pc = "failing"])
  /\ UNCHANGED <<doc, records, edit, review, order, job, handed, raced>>

\* ... then the row
SaveRefused(d) ==
  /\ proc[d].pc = "failing"
  /\ SaveOver(d, proc[d].inst, [proc[d].inst EXCEPT !.processed = FALSE])
  /\ Proceed(d, [NoProc EXCEPT !.pc = "done"])
  /\ UNCHANGED <<status, records, edit, review, order, job, faults, handed, raced>>

\* The upload request or the worker dies, perhaps between two rows.
ProcDies(d) ==
  /\ proc[d].pc \notin {"none", "done"}
  /\ Fault
  /\ Proceed(d, [NoProc EXCEPT !.pc = "done"])
  /\ Disturb(d, proc[d].pc \in {"marking", "failing"})
  /\ UNCHANGED <<doc, status, records, edit, review, order, job, handed, raced>>

Process(d) ==
  \/ (\E kind \in {"e_wallet", "bank"} : Upload(d, kind)) \/ Register(d) \/ Load(d)
  \/ Accept(d) \/ MarkProcessed(d) \/ RecordWallets(d) \/ RecordBank(d) \/ SaveAgain(d)
  \/ Notify(d) \/ Refuse(d) \/ SaveRefused(d) \/ ProcDies(d)

-----------------------------------------------------------------------------
(* Requests of the maker, and of the root user who deletes *)

EditKinds == {"allow", "recur", "once", "delete"}

\* what each kind of request looks for in the row, and makes of it
Admits(kind, row) ==
  \/ kind = "allow" /\ row.processed /\ ~row.allowed   \* AllowDocDisburse
  \/ kind \in {"recur", "once"}                        \* RecuringForm
  \/ kind = "delete" /\ ~row.disbursed                 \* FileDeleteView

Edited(kind, row) ==
  [row EXCEPT !.allowed = @ \/ kind = "allow",
              !.recurring = (kind = "recur") \/ (@ /\ kind # "once"),
              !.gone = @ \/ kind = "delete"]

OpenEdit(e, d, kind) ==
  /\ edit[e].pc = "idle"
  /\ Exists(d) /\ Admits(kind, doc[d])
  /\ Request(e, [pc |-> "opened", kind |-> kind, doc |-> d, inst |-> doc[d]])
  /\ UNCHANGED <<doc, status, records, proc, review, order, job, faults, books>>

SaveEdit(e) ==
  /\ edit[e].pc = "opened"
  /\ SaveOver(edit[e].doc, edit[e].inst, Edited(edit[e].kind, edit[e].inst))
  /\ Request(e, [NoEdit EXCEPT !.pc = "done"])
  /\ UNCHANGED <<status, records, proc, review, order, job, faults, handed, raced>>

Edit(e) ==
  \/ \E d \in Docs, kind \in EditKinds : OpenEdit(e, d, kind)
  \/ SaveEdit(e)

-----------------------------------------------------------------------------
(* Reviews *)

ReviewsOf(d)  == {v \in Reviews : review[v].pc = "saved" /\ review[v].doc = d}
Approvals(d)  == {v \in ReviewsOf(d) : review[v].ok}
Completed(d)  == Cardinality(Approvals(d)) >= Required
Rejected(d)   == \E v \in ReviewsOf(d) : ~review[v].ok

\* levels of authority: the lowest may start; the others when one of the level
\* just below, or of their own, has reviewed
JustBelow(l, c) ==
  l < LevelOf[c] /\ \A o \in Checkers : LevelOf[o] < LevelOf[c] => LevelOf[o] <= l

MayReview(c, d) ==
  \/ \A o \in Checkers : LevelOf[c] <= LevelOf[o]
  \/ \E v \in ReviewsOf(d) : LET l == LevelOf[review[v].by]
                             IN l = LevelOf[c] \/ JustBelow(l, c)

HasReviewed(c, d) == \E v \in ReviewsOf(d) : review[v].by = c

\* A plausible slip: nobody asks whether the checker has reviewed already.
AdmissibleAgain(c, d) ==
  /\ doc[d].allowed /\ ~doc[d].disbursed
  /\ ~Completed(d) /\ ~Rejected(d) /\ MayReview(c, d)

\* A plausible slip: the levels are not looked at.
AdmissibleAnyLevel(c, d) ==
  /\ doc[d].allowed /\ ~doc[d].disbursed
  /\ ~Completed(d) /\ ~Rejected(d) /\ ~HasReviewed(c, d)

Admissible(c, d) ==
  /\ doc[d].allowed /\ ~doc[d].disbursed
  /\ ~Completed(d) /\ ~Rejected(d) /\ ~HasReviewed(c, d) /\ MayReview(c, d)

\* document_view checks ...
OpenReview(v, c, d, ok) ==
  /\ review[v].pc = "idle"
  /\ Exists(d) /\ Admissible(c, d)
  /\ review' = [review EXCEPT ![v] = [pc |-> "opened", doc |-> d, by |-> c, ok |-> ok]]
  /\ UNCHANGED <<doc, status, records, proc, edit, order, job, faults, books>>

\* ... and inserts the review, which nothing keeps unique
SaveReview(v) ==
  LET d == review[v].doc
  IN /\ review[v].pc = "opened"
     /\ review' = [review EXCEPT ![v].pc = "saved"]
     /\ raced' = [raced EXCEPT ![d] = @ \/ ~Admissible(review[v].by, d)]
     /\ UNCHANGED <<doc, status, records, proc, edit, order, job, faults, handed, disturbed>>

Review(v) ==
  \/ \E c \in Checkers, d \in Docs, ok \in BOOLEAN : OpenReview(v, c, d, ok)
  \/ SaveReview(v)

-----------------------------------------------------------------------------
(* Disbursal: the checker's request, and the internal API it posts to *)

\* A plausible slip: any review counts.
CanDisburseReviewed(c, d) ==
  doc[d].allowed /\ Cardinality(ReviewsOf(d)) >= Required /\ c \in MayDisburse

\* can_user_disburse; the budget and the client's state may refuse as well
CanDisburse(c, d) == doc[d].allowed /\ ~Rejected(d) /\ Completed(d) /\ c \in MayDisburse

InHand(k, d) == order[k].doc = d /\ order[k].pc \in {"posting", "loaded", "queued", "marking"}

\* A plausible slip: a document that is disbursed is handed over again.
CheckAgain(k, c, d) ==
  /\ order[k].pc = "idle"
  /\ Exists(d) /\ CanDisburse(c, d)
  /\ Ordered(k, [NoOrder EXCEPT !.pc = "posting", !.doc = d])
  /\ Disturb(d, \E o \in Orders : InHand(o, d))
  /\ UNCHANGED <<doc, status, records, proc, edit, review, job, faults, handed, raced>>

\* the view disburse
Check(k, c, d) ==
  /\ order[k].pc = "idle"
  /\ Exists(d) /\ CanDisburse(c, d) /\ ~doc[d].disbursed
  /\ Ordered(k, [NoOrder EXCEPT !.pc = "posting", !.doc = d])
  /\ Disturb(d, \E o \in Orders : InHand(o, d))
  /\ UNCHANGED <<doc, status, records, proc, edit, review, job, faults, handed, raced>>

\* DisburseAPIView loads the row again, and looks at the pin only.
LoadOrder(k) ==
  LET d == order[k].doc
  IN /\ order[k].pc = "posting"
     /\ \/ Exists(d) /\ Ordered(k, [order[k] EXCEPT !.pc = "loaded", !.inst = doc[d]])
        \/ Ordered(k, [order[k] EXCEPT !.pc = "done"])
     /\ UNCHANGED <<doc, status, records, proc, edit, review, job, faults, books>>

Hand(k) ==
  /\ order[k].pc = "loaded"
  /\ handed' = [handed EXCEPT ![order[k].doc] = @ + 1]
  /\ Ordered(k, [order[k] EXCEPT !.pc = "queued"])
  /\ Disturb(order[k].doc, doc[order[k].doc] # order[k].inst)
  /\ UNCHANGED <<doc, status, records, proc, edit, review, job, faults, raced>>

\* mark_disbursed_successfully: the status, then the row
MarkStatus(k) ==
  /\ order[k].pc = "queued"
  /\ Says(order[k].doc, "disbursed")
  /\ Ordered(k, [order[k] EXCEPT !.pc = "marking"])
  /\ UNCHANGED <<doc, records, proc, edit, review, job, faults, books>>

\* A plausible slip: the row is not saved.
MarkNothing(k) ==
  /\ order[k].pc = "marking"
  /\ Ordered(k, [order[k] EXCEPT !.pc = "done", !.inst = NoRow])
  /\ UNCHANGED <<doc, status, records, proc, edit, review, job, faults, books>>

MarkDoc(k) ==
  /\ order[k].pc = "marking"
  /\ SaveOver(order[k].doc, order[k].inst, [order[k].inst EXCEPT !.disbursed = TRUE])
  /\ Ordered(k, [order[k] EXCEPT !.pc = "done", !.inst = NoRow])
  /\ UNCHANGED <<status, records, proc, edit, review, job, faults, handed, raced>>

OrderDies(k) ==
  /\ order[k].pc \in {"posting", "loaded", "queued", "marking"}
  /\ Fault
  /\ Disturb(order[k].doc, order[k].pc \in {"queued", "marking"})
  /\ Ordered(k, [order[k] EXCEPT !.pc = "done", !.inst = NoRow])
  /\ UNCHANGED <<doc, status, records, proc, edit, review, job, handed, raced>>

Disbursal(k) ==
  \/ \E c \in Checkers, d \in Docs : Check(k, c, d)
  \/ LoadOrder(k) \/ Hand(k) \/ MarkStatus(k) \/ MarkDoc(k) \/ OrderDies(k)

-----------------------------------------------------------------------------
(* create_recuring_docs *)

\* It works on the rows it selected: one that is due is copied, with the status
\* it has by then, allowed and without a review.
Select(d) ==
  /\ job.pc = "idle"
  /\ Exists(d) /\ doc[d].recurring
  /\ \E pc \in {"copying", "saving"} :
       job' = [pc |-> pc, doc |-> d, inst |-> doc[d], copy |-> NoDoc]
  /\ UNCHANGED <<doc, status, records, proc, edit, review, order, faults, books>>

\* A plausible slip: the flags of the original stay.
CopyDocAsIs(n) ==
  /\ job.pc = "copying"
  /\ n \in Copies /\ doc[n].kind = "none"
  /\ doc' = [doc EXCEPT ![n] = [job.inst EXCEPT !.recurring = FALSE]]
  /\ job' = [job EXCEPT !.pc = "recording", !.copy = n]
  /\ UNCHANGED <<status, records, proc, edit, review, order, faults, books>>

\* A plausible slip: the job forgets which copy it makes.
CopyDocLost(n) ==
  /\ job.pc = "copying"
  /\ n \in Copies /\ doc[n].kind = "none"
  /\ doc' = [doc EXCEPT ![n] = [job.inst EXCEPT !.processed = TRUE, !.allowed = TRUE,
                                  !.disbursed = FALSE, !.recurring = FALSE]]
  /\ job' = [job EXCEPT !.pc = "recording"]
  /\ UNCHANGED <<status, records, proc, edit, review, order, faults, books>>

CopyDoc(n) ==
  /\ job.pc = "copying"
  /\ n \in Copies /\ doc[n].kind = "none"
  /\ doc' = [doc EXCEPT ![n] = [job.inst EXCEPT !.processed = TRUE, !.allowed = TRUE,
                                  !.disbursed = FALSE, !.recurring = FALSE]]
  /\ job' = [job EXCEPT !.pc = "recording", !.copy = n]
  /\ UNCHANGED <<status, records, proc, edit, review, order, faults, books>>

CopyRecords ==
  /\ job.pc = "recording"
  /\ Says(job.copy, status[job.doc])
  /\ records' = [records EXCEPT ![job.copy] = records[job.doc]]
  /\ job' = [job EXCEPT !.pc = "saving"]
  /\ UNCHANGED <<doc, proc, edit, review, order, faults, books>>

\* recuring_latest_date, in the whole row
SaveSource ==
  /\ job.pc = "saving"
  /\ SaveOver(job.doc, job.inst, job.inst)
  /\ job' = NoJob
  /\ UNCHANGED <<status, records, proc, edit, review, order, faults, handed, raced>>

\* A copy may be left without its rows; a source, without its date, is due again.
JobDies ==
  /\ job.pc # "idle"
  /\ Fault
  /\ disturbed' = [d \in Docs |-> disturbed[d] \/ (job.pc = "recording" /\ d = job.copy)]
  /\ job' = NoJob
  /\ UNCHANGED <<doc, status, records, proc, edit, review, order, handed, raced>>

Job == (\E d \in Docs : Select(d) \/ CopyDoc(d)) \/ CopyRecords \/ SaveSource \/ JobDies

Next ==
  \/ \E d \in Docs : Process(d)
  \/ \E e \in Edits : Edit(e)
  \/ \E v \in Reviews : Review(v)
  \/ \E k \in Orders : Disbursal(k)
  \/ Job

Spec == Init /\ [][Next]_vars

-----------------------------------------------------------------------------
(* Properties *)

Kinds    == {"e_wallet", "bank"}
Statuses == {"none", "uploaded", "failed", "processed", "disbursed"}
DocRows  == [kind : Kinds \cup {"none"}, processed : BOOLEAN, allowed : BOOLEAN,
             disbursed : BOOLEAN, recurring : BOOLEAN, gone : BOOLEAN]

ProcStates ==
  [pc : {"none", "uploaded", "queued", "validating", "accepting", "marking", "recording",
         "saving", "notifying", "failing", "done"},
   inst : DocRows]
EditStates ==
  [pc : {"idle", "opened", "done"}, kind : EditKinds,
   doc : Docs \cup {NoDoc}, inst : DocRows]
ReviewStates ==
  [pc : {"idle", "opened", "saved"}, doc : Docs \cup {NoDoc}, by : Checkers \cup {NoOne},
   ok : BOOLEAN]
OrderStates ==
  [pc : {"idle", "posting", "loaded", "queued", "marking", "done"}, doc : Docs \cup {NoDoc},
   inst : DocRows]
JobStates ==
  [pc : {"idle", "copying", "recording", "saving"}, doc : Docs \cup {NoDoc}, inst : DocRows,
   copy : Docs \cup {NoDoc}]

RowsOK ==
  /\ doc \in [Docs -> DocRows] /\ status \in [Docs -> Statuses]
  /\ records \in [Docs -> {"none", "some", "all"}]
BooksOK ==
  /\ faults \in 0..MaxFaults /\ handed \in [Docs -> Nat]
  /\ raced \in [Docs -> BOOLEAN] /\ disturbed \in [Docs -> BOOLEAN]
ProcOK   == proc \in [Docs -> ProcStates]
EditOK   == edit \in [Edits -> EditStates] /\ \A e \in Edits : edit[e].pc = "opened" => edit[e].doc \in Docs
ReviewOK ==
  /\ review \in [Reviews -> ReviewStates]
  /\ \A v \in Reviews : review[v].pc # "idle" => review[v].doc \in Docs /\ review[v].by \in Checkers
OrderOK  == order \in [Orders -> OrderStates] /\ \A k \in Orders : order[k].pc # "idle" => order[k].doc \in Docs
JobOK    ==
  /\ job \in JobStates
  /\ job.pc # "idle" => job.doc \in Docs
  /\ job.pc = "recording" => job.copy \in Docs

\* Shapes of the rows and of the requests; a process that is at work knows its
\* document, and only a row that is there is ever held.
TypeOK == RowsOK /\ BooksOK /\ ProcOK /\ EditOK /\ ReviewOK /\ OrderOK /\ JobOK

\* However the requests of the checkers interleave, the levels that have reviewed
\* a document leave no level out below them.
LevelsInOrder ==
  \A d \in Docs, v \in Reviews, c \in Checkers :
    v \in ReviewsOf(d) /\ LevelOf[c] < LevelOf[review[v].by]
      => \E w \in ReviewsOf(d) : LevelOf[review[w].by] = LevelOf[c]

\* A document is never handed over without the approvals its category asks for;
\* and these are of as many checkers, and nobody has rejected it, before or
\* since, unless a review came in that two requests had raced for.
HandedIsApproved ==
  \A d \in Docs : handed[d] > 0 =>
    /\ Completed(d)
    /\ raced[d] \/ ( /\ ~Rejected(d)
                     /\ Cardinality({review[v].by : v \in Approvals(d)}) >= Required )

\* A document that was uploaded is handed over with all its records, unless its
\* e-wallet task is still recording them, failed to, or was disturbed.
HandedIsRecorded ==
  \A d \in Docs \ Copies :
    handed[d] > 0 /\ ~disturbed[d] /\ records[d] # "all"
      => doc[d].kind = "e_wallet" /\ proc[d].pc \in {"recording", "failing", "done"}

\* Once no request is at it, a document reads as disbursed, in both rows, exactly
\* if it was handed over, and it is there to be read, unless it was disturbed.
HandedIsMarked ==
  \A d \in Docs \ Copies :
    \/ disturbed[d]
    \/ \E k \in Orders : order[k].doc = d /\ order[k].pc \in {"queued", "marking"}
    \/ /\ doc[d].disbursed = (handed[d] > 0)
       /\ (status[d] = "disbursed") = (handed[d] > 0)
       /\ handed[d] > 0 => ~doc[d].gone

\* The phase of a document, as its rows and what was done with it tell it.
Phase(d) ==
  IF disturbed[d] THEN "disturbed"
  ELSE IF handed[d] > 0 THEN (IF handed[d] = 1 THEN "handed" ELSE "handed twice")
  ELSE IF doc[d].gone THEN "deleted"
  ELSE IF doc[d].allowed THEN "allowed"
  ELSE IF doc[d].processed THEN "processed"
  ELSE IF status[d] = "failed" THEN "refused"
  ELSE IF doc[d].kind = "none" THEN "none" ELSE "uploaded"

Lifecycle == INSTANCE DocLifecycle WITH phase <- [d \in Docs |-> Phase(d)]

\* As long as nothing disturbs it a document goes through its life as the contract
\* has it: allowed only when processed, handed over once and only when allowed,
\* gone for good when deleted.
LifecycleSpec == Lifecycle!Spec
=============================================================================
