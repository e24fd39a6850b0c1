------------------------- MODULE DocWorkflow_proofs -------------------------
(***************************************************************************)
(* What the reviews of a document are worth, for any number of documents,  *)
(* checkers, levels and requests.                                          *)
(*                                                                         *)
(* Reviews are only ever added, so a request that was let through by the   *)
(* levels may still review when its review is saved (OpenedMay), and a     *)
(* document that had its approvals when a disbursal of it was checked      *)
(* keeps them (ClearedInv).                                                *)
(***************************************************************************)
EXTENDS DocWorkflow, FiniteSetTheorems, TLAPS

LEMMA NoStates ==
  /\ NoRow \in DocRows /\ NoProc \in ProcStates /\ NoEdit \in EditStates
  /\ NoReview \in ReviewStates /\ NoOrder \in OrderStates /\ NoJob \in JobStates
  /\ NoEdit.pc = "idle" /\ NoReview.pc = "idle" /\ NoOrder.pc = "idle" /\ NoJob.pc = "idle"
BY DEF NoRow, NoProc, NoEdit, NoReview, NoOrder, NoJob, DocRows, Kinds, EditKinds, ProcStates, EditStates,
   ReviewStates, OrderStates, JobStates

LEMMA DocTypeInit == Init => TypeOK
<1> SUFFICES ASSUME Init PROVE TypeOK
  OBVIOUS
<1>1. RowsOK /\ BooksOK /\ ProcOK
  BY NoStates, DocAssumption DEF Init, RowsOK, BooksOK, ProcOK, Statuses
<1>2. EditOK /\ ReviewOK /\ OrderOK /\ JobOK
  BY NoStates DEF Init, EditOK, ReviewOK, OrderOK, JobOK
<1>3. QED
  BY <1>1, <1>2 DEF TypeOK

LEMMA FaultType == ASSUME faults \in 0..MaxFaults, Fault PROVE faults' \in 0..MaxFaults
BY DocAssumption DEF Fault

LEMMA SaveType ==
  ASSUME TypeOK, NEW d, NEW inst, NEW row \in DocRows, SaveOver(d, inst, row)
  PROVE  doc' \in [Docs -> DocRows] /\ disturbed' \in [Docs -> BOOLEAN]
BY DEF SaveOver, Disturb, TypeOK, RowsOK, BooksOK

LEMMA OrderMoves ==
  ASSUME TypeOK, NEW k \in Orders, NEW s \in OrderStates, s.doc \in Docs,
         order' = [order EXCEPT ![k] = s]
  PROVE  OrderOK'
BY DEF TypeOK, OrderOK

LEMMA ProcessType == ASSUME TypeOK, NEW d \in Docs, Process(d) PROVE TypeOK'
<1> USE DocAssumption
<1>0. proc[d] \in ProcStates /\ proc[d].inst \in DocRows
  BY DEF TypeOK, ProcOK, ProcStates
<1>1. UNCHANGED <<edit, review, order, job, handed, raced>>
  BY DEF Process, Upload, Register, Load, Accept, MarkProcessed, RecordWallets, RecordBank, SaveAgain,
     Notify, Refuse, SaveRefused, ProcDies, books
<1>2. (EditOK /\ ReviewOK /\ OrderOK /\ JobOK)'
  BY <1>1 DEF TypeOK, EditOK, ReviewOK, OrderOK, JobOK
<1>3. \E s \in ProcStates : proc' = [proc EXCEPT ![d] = s]
  <2>1. CASE \E kind \in {"e_wallet", "bank"} : Upload(d, kind)
    BY <2>1, NoStates DEF Upload, Proceed, ProcStates
  <2>2. CASE Register(d) \/ Accept(d) \/ RecordWallets(d) \/ SaveAgain(d) \/ Refuse(d)
    BY <1>0, <2>2 DEF Register, Accept, RecordWallets, SaveAgain, Refuse, Proceed, ProcStates
  <2>3. CASE Load(d)
    BY <1>0, <2>3 DEF Load, Proceed, ProcStates, TypeOK, RowsOK
  <2>4. CASE MarkProcessed(d)
    BY <1>0, <2>4 DEF MarkProcessed, Proceed, ProcStates, DocRows
  <2>5. CASE RecordBank(d)
    BY <1>0, <2>5 DEF RecordBank, Proceed, ProcStates
  <2>6. CASE Notify(d) \/ SaveRefused(d) \/ ProcDies(d)
    BY <2>6, NoStates DEF Notify, SaveRefused, ProcDies, Proceed, ProcStates
  <2>7. QED
    BY <2>1, <2>2, <2>3, <2>4, <2>5, <2>6 DEF Process
<1>4. ProcOK'
  BY <1>3 DEF TypeOK, ProcOK
<1>5. RowsOK' /\ disturbed' \in [Docs -> BOOLEAN]
  <2>1. CASE \E kind \in {"e_wallet", "bank"} : Upload(d, kind)
    BY <2>1, NoStates DEF Upload, Uploaded, DocRows, Kinds, TypeOK, RowsOK, BooksOK, books
  <2>2. CASE MarkProcessed(d) \/ SaveAgain(d) \/ SaveRefused(d)
    <3>1. PICK row \in DocRows : SaveOver(d, proc[d].inst, row)
      BY <1>0, <2>2 DEF MarkProcessed, SaveAgain, SaveRefused, DocRows
    <3>2. UNCHANGED <<status, records>>
      BY <2>2 DEF MarkProcessed, SaveAgain, SaveRefused
    <3>3. QED
      BY <3>1, <3>2, SaveType DEF TypeOK, RowsOK
  <2>3. CASE Refuse(d) \/ ProcDies(d)
    <3>1. disturbed' \in [Docs -> BOOLEAN]
      <4>1. CASE Refuse(d)
        BY <4>1 DEF Refuse, Disturb, TypeOK, BooksOK
      <4>2. CASE ProcDies(d)
        BY <4>2 DEF ProcDies, Disturb, TypeOK, BooksOK
      <4>3. QED
        BY <2>3, <4>1, <4>2
    <3>2. RowsOK'
      BY <2>3 DEF Refuse, ProcDies, Says, Statuses, TypeOK, RowsOK
    <3>3. QED
      BY <3>1, <3>2
  <2>4. CASE Register(d) \/ Accept(d) \/ Load(d) \/ RecordWallets(d) \/ RecordBank(d) \/ Notify(d)
    BY <2>4 DEF Register, Accept, Load, RecordWallets, RecordBank, Notify, Says, Statuses, TypeOK, RowsOK,
       BooksOK, books
  <2>5. QED
    BY <2>1, <2>2, <2>3, <2>4 DEF Process
<1>6. faults' \in 0..MaxFaults
  <2>1. faults' = faults \/ Fault
    BY DEF Process, Upload, Register, Load, Accept, MarkProcessed, RecordWallets, RecordBank, SaveAgain,
       Notify, Refuse, SaveRefused, ProcDies
  <2>2. QED
    BY <2>1, FaultType DEF TypeOK, BooksOK
<1>7. BooksOK'
  BY <1>1, <1>5, <1>6 DEF TypeOK, BooksOK
<1>8. QED
  BY <1>2, <1>4, <1>5, <1>7 DEF TypeOK

LEMMA EditType == ASSUME TypeOK, NEW e \in Edits, Edit(e) PROVE TypeOK'
<1>0. edit[e] \in EditStates /\ edit[e].inst \in DocRows
  BY DEF TypeOK, EditOK, EditStates
<1>1. UNCHANGED <<status, records, proc, review, order, job, faults, handed, raced>>
  BY DEF Edit, OpenEdit, SaveEdit, books
<1>2. (ProcOK /\ ReviewOK /\ OrderOK /\ JobOK)'
  BY <1>1 DEF TypeOK, ProcOK, ReviewOK, OrderOK, JobOK
<1>3. CASE SaveEdit(e)
  <2>1. Edited(edit[e].kind, edit[e].inst) \in DocRows
    BY <1>0 DEF Edited, DocRows
  <2>2. doc' \in [Docs -> DocRows] /\ disturbed' \in [Docs -> BOOLEAN]
    BY <1>3, <2>1, SaveType DEF SaveEdit
  <2>3. EditOK'
    BY <1>3, NoStates DEF SaveEdit, Request, TypeOK, EditOK, EditStates
  <2>4. QED
    BY <1>1, <1>2, <2>2, <2>3 DEF TypeOK, RowsOK, BooksOK
<1>4. ASSUME NEW d \in Docs, NEW kind \in EditKinds, OpenEdit(e, d, kind)
      PROVE  TypeOK'
  <2>1. EditOK'
    BY <1>4 DEF OpenEdit, Request, TypeOK, EditOK, EditStates, RowsOK
  <2>2. UNCHANGED <<doc, disturbed>>
    BY <1>4 DEF OpenEdit, books
  <2>3. QED
    BY <1>1, <1>2, <2>1, <2>2 DEF TypeOK, RowsOK, BooksOK
<1>5. QED
  BY <1>3, <1>4 DEF Edit

LEMMA ReviewType == ASSUME TypeOK, NEW v \in Reviews, Review(v) PROVE TypeOK'
<1>0. review[v] \in ReviewStates
  BY DEF TypeOK, ReviewOK
<1>1. UNCHANGED <<doc, status, records, proc, edit, order, job, faults, handed, disturbed>>
  BY DEF Review, OpenReview, SaveReview, books
<1>2. (RowsOK /\ ProcOK /\ EditOK /\ OrderOK /\ JobOK)'
  BY <1>1 DEF TypeOK, RowsOK, ProcOK, EditOK, OrderOK, JobOK
<1>3. ReviewOK' /\ raced' \in [Docs -> BOOLEAN]
  <2>1. CASE SaveReview(v)
    <3>1. ReviewOK'
      BY <1>0, <2>1 DEF SaveReview, TypeOK, ReviewOK, ReviewStates
    <3>2. raced' \in [Docs -> BOOLEAN]
      BY <2>1 DEF SaveReview, TypeOK, BooksOK
    <3>3. QED
      BY <3>1, <3>2
  <2>2. ASSUME NEW c \in Checkers, NEW d \in Docs, NEW ok \in BOOLEAN, OpenReview(v, c, d, ok)
        PROVE  ReviewOK' /\ raced' \in [Docs -> BOOLEAN]
    BY <2>2 DEF OpenReview, TypeOK, ReviewOK, ReviewStates, BooksOK, books
  <2>3. QED
    BY <2>1, <2>2 DEF Review
<1>4. QED
  BY <1>1, <1>2, <1>3 DEF TypeOK, BooksOK

LEMMA DisbursalType == ASSUME TypeOK, NEW k \in Orders, Disbursal(k) PROVE TypeOK'
<1> USE DocAssumption
<1>0. order[k] \in OrderStates /\ order[k].inst \in DocRows
  BY DEF TypeOK, OrderOK, OrderStates
<1>1. UNCHANGED <<records, proc, edit, review, job, raced>>
  BY DEF Disbursal, Check, LoadOrder, Hand, MarkStatus, MarkDoc, OrderDies, books
<1>2. (ProcOK /\ EditOK /\ ReviewOK /\ JobOK)'
  BY <1>1 DEF TypeOK, ProcOK, EditOK, ReviewOK, JobOK
<1>3. OrderOK'
  <2>1. ASSUME NEW c \in Checkers, NEW d \in Docs, Check(k, c, d) PROVE OrderOK'
    BY <2>1, NoStates DEF Check, Ordered, TypeOK, OrderOK, OrderStates
  <2>2. CASE LoadOrder(k)
    <3> DEFINE s == [order[k] EXCEPT !.pc = "loaded", !.inst = doc[order[k].doc]]
               t == [order[k] EXCEPT !.pc = "done"]
    <3>1. order[k].doc \in Docs /\ doc[order[k].doc] \in DocRows
      BY <2>2 DEF LoadOrder, TypeOK, OrderOK, RowsOK
    <3>2. s \in OrderStates /\ s.doc = order[k].doc /\ t \in OrderStates /\ t.doc = order[k].doc
      BY <1>0, <3>1 DEF OrderStates
    <3>3. order' = [order EXCEPT ![k] = s] \/ order' = [order EXCEPT ![k] = t]
      BY <2>2 DEF LoadOrder, Ordered
    <3> HIDE DEF s, t
    <3>4. QED
      BY <3>1, <3>2, <3>3, OrderMoves
  <2>3. CASE Hand(k) \/ MarkStatus(k)
    BY <1>0, <2>3 DEF Hand, MarkStatus, Ordered, TypeOK, OrderOK, OrderStates
  <2>4. CASE MarkDoc(k) \/ OrderDies(k)
    <3> DEFINE s == [order[k] EXCEPT !.pc = "done", !.inst = NoRow]
    <3>1. order[k].doc \in Docs
      BY <2>4 DEF MarkDoc, OrderDies, TypeOK, OrderOK
    <3>2. s \in OrderStates /\ s.doc = order[k].doc
      BY <1>0, NoStates DEF OrderStates
    <3>3. order' = [order EXCEPT ![k] = s]
      BY <2>4 DEF MarkDoc, OrderDies, Ordered
    <3> HIDE DEF s
    <3>4. QED
      BY <3>1, <3>2, <3>3, OrderMoves
  <2>5. QED
    BY <2>1, <2>2, <2>3, <2>4 DEF Disbursal
<1>4. RowsOK' /\ disturbed' \in [Docs -> BOOLEAN]
  <2>1. CASE MarkDoc(k)
    <3>1. [order[k].inst EXCEPT !.disbursed = TRUE] \in DocRows
      BY <1>0 DEF DocRows
    <3>2. UNCHANGED <<status, records>>
      BY <2>1 DEF MarkDoc
    <3>3. QED
      BY <2>1, <3>1, <3>2, SaveType DEF MarkDoc, TypeOK, RowsOK
  <2>2. CASE MarkStatus(k)
    BY <2>2 DEF MarkStatus, Says, Statuses, TypeOK, RowsOK, BooksOK, books
  <2>3. ASSUME NEW c \in Checkers, NEW d \in Docs, Check(k, c, d)
        PROVE  RowsOK' /\ disturbed' \in [Docs -> BOOLEAN]
    BY <2>3 DEF Check, Disturb, TypeOK, RowsOK, BooksOK
  <2>4. CASE LoadOrder(k)
    BY <2>4 DEF LoadOrder, TypeOK, RowsOK, BooksOK, books
  <2>5. CASE Hand(k)
    BY <2>5 DEF Hand, Disturb, TypeOK, RowsOK, BooksOK
  <2>6. CASE OrderDies(k)
    BY <2>6 DEF OrderDies, Disturb, TypeOK, RowsOK, BooksOK
  <2>7. QED
    BY <2>1, <2>2, <2>3, <2>4, <2>5, <2>6 DEF Disbursal
<1>5. faults' \in 0..MaxFaults
  <2>1. faults' = faults \/ Fault
    BY DEF Disbursal, Check, LoadOrder, Hand, MarkStatus, MarkDoc, OrderDies
  <2>2. QED
    BY <2>1, FaultType DEF TypeOK, BooksOK
<1>6. handed' \in [Docs -> Nat]
  <2>1. handed' = handed \/ handed' = [handed EXCEPT ![order[k].doc] = @ + 1]
    BY DEF Disbursal, Check, LoadOrder, Hand, MarkStatus, MarkDoc, OrderDies, books
  <2>2. QED
    BY <2>1 DEF TypeOK, BooksOK
<1>7. QED
  BY <1>1, <1>2, <1>3, <1>4, <1>5, <1>6 DEF TypeOK, BooksOK

LEMMA JobType == ASSUME TypeOK, Job PROVE TypeOK'
<1> USE DocAssumption
<1>0. job \in JobStates /\ job.inst \in DocRows
  BY DEF TypeOK, JobOK, JobStates
<1>1. UNCHANGED <<proc, edit, review, order, handed, raced>>
  BY DEF Job, Select, CopyDoc, CopyRecords, SaveSource, JobDies, books
<1>2. (ProcOK /\ EditOK /\ ReviewOK /\ OrderOK)'
  BY <1>1 DEF TypeOK, ProcOK, EditOK, ReviewOK, OrderOK
<1>3. JobOK'
  <2>1. ASSUME NEW d \in Docs, Select(d) PROVE JobOK'
    BY <2>1 DEF Select, TypeOK, JobOK, JobStates, RowsOK
  <2>2. ASSUME NEW n \in Docs, CopyDoc(n) PROVE JobOK'
    BY <1>0, <2>2 DEF CopyDoc, TypeOK, JobOK, JobStates
  <2>3. CASE CopyRecords
    BY <1>0, <2>3 DEF CopyRecords, TypeOK, JobOK, JobStates
  <2>4. CASE SaveSource \/ JobDies
    BY <2>4, NoStates DEF SaveSource, JobDies, JobOK
  <2>5. QED
    BY <2>1, <2>2, <2>3, <2>4 DEF Job
<1>4. RowsOK' /\ disturbed' \in [Docs -> BOOLEAN]
  <2>1. ASSUME NEW n \in Docs, CopyDoc(n) PROVE RowsOK' /\ disturbed' \in [Docs -> BOOLEAN]
    BY <1>0, <2>1 DEF CopyDoc, DocRows, TypeOK, RowsOK, BooksOK, books
  <2>2. CASE SaveSource
    <3>1. UNCHANGED <<status, records>>
      BY <2>2 DEF SaveSource
    <3>2. QED
      BY <1>0, <2>2, <3>1, SaveType DEF SaveSource, TypeOK, RowsOK
  <2>3. CASE CopyRecords
    BY <2>3 DEF CopyRecords, Says, TypeOK, RowsOK, BooksOK, JobOK, books
  <2>4. CASE JobDies
    BY <2>4 DEF JobDies, TypeOK, RowsOK, BooksOK
  <2>5. CASE \E d \in Docs : Select(d)
    BY <2>5 DEF Select, TypeOK, RowsOK, BooksOK, books
  <2>6. QED
    BY <2>1, <2>2, <2>3, <2>4, <2>5 DEF Job
<1>5. faults' \in 0..MaxFaults
  <2>1. faults' = faults \/ Fault
    BY DEF Job, Select, CopyDoc, CopyRecords, SaveSource, JobDies
  <2>2. QED
    BY <2>1, FaultType DEF TypeOK, BooksOK
<1>6. QED
  BY <1>1, <1>2, <1>3, <1>4, <1>5 DEF TypeOK, BooksOK

LEMMA DocTypeStep == ASSUME TypeOK, [Next]_vars PROVE TypeOK'
<1>1. CASE UNCHANGED vars
  BY <1>1 DEF vars, books, TypeOK, RowsOK, BooksOK, ProcOK, EditOK, ReviewOK, OrderOK, JobOK
<1>2. CASE Next
  BY <1>2, ProcessType, EditType, ReviewType, DisbursalType, JobType DEF Next
<1>3. QED
  BY <1>1, <1>2

\* Rows, requests and tasks keep their shapes, for any number of them.
THEOREM TypeTheorem == Spec => []TypeOK
BY DocTypeInit, DocTypeStep, PTL DEF Spec

-----------------------------------------------------------------------------
(* Reviews only grow *)

\* Nothing but a review's own save adds to what is saved.
LEMMA ReviewsKept ==
  ASSUME TypeOK, [Next]_vars
  PROVE  /\ \/ review' = review /\ raced' = raced
            \/ \E v \in Reviews : Review(v)
         /\ \A v \in Reviews : review[v].pc = "saved" => review'[v] = review[v]
<1>1. ASSUME NEW v \in Reviews, Review(v)
      PROVE  \A w \in Reviews : review[w].pc = "saved" => review'[w] = review[w]
  BY <1>1 DEF Review, OpenReview, SaveReview, TypeOK, ReviewOK
<1>2. ASSUME NEW d \in Docs, Process(d) PROVE review' = review /\ raced' = raced
  BY <1>2 DEF Process, Upload, Register, Load, Accept, MarkProcessed, RecordWallets, RecordBank, SaveAgain,
     Notify, Refuse, SaveRefused, ProcDies, books
<1>3. ASSUME NEW e \in Edits, Edit(e) PROVE review' = review /\ raced' = raced
  BY <1>3 DEF Edit, OpenEdit, SaveEdit, books
<1>4. ASSUME NEW k \in Orders, Disbursal(k) PROVE review' = review /\ raced' = raced
  BY <1>4 DEF Disbursal, Check, LoadOrder, Hand, MarkStatus, MarkDoc, OrderDies, books
<1>5. CASE Job
  BY <1>5 DEF Job, Select, CopyDoc, CopyRecords, SaveSource, JobDies, books
<1>6. QED
  BY <1>1, <1>2, <1>3, <1>4, <1>5 DEF Next, vars, books

LEMMA SaveReviewEffect ==
  ASSUME TypeOK, NEW v \in Reviews, SaveReview(v)
  PROVE  /\ review[v].pc = "opened" /\ review[v].doc \in Docs /\ review[v].by \in Checkers
         /\ review'[v].pc = "saved" /\ review'[v].doc = review[v].doc
         /\ review'[v].by = review[v].by /\ review'[v].ok = review[v].ok
         /\ \A w \in Reviews \ {v} : review'[w] = review[w]
         /\ \A d \in Docs : d # review[v].doc => raced'[d] = raced[d]
         /\ raced[review[v].doc] => raced'[review[v].doc]
         /\ ~Admissible(review[v].by, review[v].doc) => raced'[review[v].doc]
<1>1. review[v].pc = "opened" /\ review[v].doc \in Docs /\ review[v].by \in Checkers /\ review[v] \in ReviewStates
  BY DEF SaveReview, TypeOK, ReviewOK
<1>2. review'[v] = [review[v] EXCEPT !.pc = "saved"] /\ \A w \in Reviews \ {v} : review'[w] = review[w]
  BY DEF SaveReview, TypeOK, ReviewOK
<1>3. /\ review'[v].pc = "saved" /\ review'[v].doc = review[v].doc
      /\ review'[v].by = review[v].by /\ review'[v].ok = review[v].ok
  BY <1>1, <1>2 DEF ReviewStates
<1>4. /\ \A d \in Docs : d # review[v].doc => raced'[d] = raced[d]
      /\ raced[review[v].doc] => raced'[review[v].doc]
      /\ ~Admissible(review[v].by, review[v].doc) => raced'[review[v].doc]
  BY <1>1 DEF SaveReview, TypeOK, BooksOK
<1>5. QED
  BY <1>1, <1>2, <1>3, <1>4

-----------------------------------------------------------------------------
(* The levels *)

\* A request that was let through may still review: reviews are not taken back.
MayGoOn(v) == review[v].pc = "opened" => MayReview(review[v].by, review[v].doc)
OpenedMay == \A v \in Reviews : MayGoOn(v)

LevelsInv == OpenedMay /\ LevelsInOrder

LEMMA LevelsStep == ASSUME TypeOK, LevelsInv, [Next]_vars PROVE LevelsInv'
<1> USE DocAssumption
<1>1. \A d \in Docs : \A v \in ReviewsOf(d) : v \in ReviewsOf(d)' /\ review'[v] = review[v]
  BY ReviewsKept DEF ReviewsOf
<1>2. \A c \in Checkers, d \in Docs : MayReview(c, d) => MayReview(c, d)'
  <2> SUFFICES ASSUME NEW c \in Checkers, NEW d \in Docs, MayReview(c, d) PROVE MayReview(c, d)'
    OBVIOUS
  <2>1. CASE \A o \in Checkers : LevelOf[c] <= LevelOf[o]
    BY <2>1 DEF MayReview
  <2>2. ASSUME NEW v \in ReviewsOf(d),
               LevelOf[review[v].by] = LevelOf[c] \/ JustBelow(LevelOf[review[v].by], c)
        PROVE  MayReview(c, d)'
    BY <1>1, <2>2 DEF MayReview, JustBelow
  <2>3. QED
    BY <2>1, <2>2 DEF MayReview
<1>3. OpenedMay'
  <2> SUFFICES ASSUME NEW v \in Reviews, review'[v].pc = "opened" PROVE MayGoOn(v)'
    BY DEF OpenedMay, MayGoOn
  <2>1. ASSUME NEW c \in Checkers, NEW d \in Docs, review'[v].by = c, review'[v].doc = d, MayReview(c, d)'
        PROVE  MayGoOn(v)'
    BY <2>1 DEF MayGoOn
  <2>2. CASE review'[v] = review[v]
    <3>1. PICK c \in Checkers, d \in Docs : review[v].by = c /\ review[v].doc = d
      BY <2>2 DEF TypeOK, ReviewOK
    <3>2. MayReview(c, d)
      BY <2>2, <3>1 DEF LevelsInv, OpenedMay, MayGoOn
    <3>3. MayReview(c, d)'
      BY <1>2, <3>2
    <3>4. QED
      BY <2>1, <2>2, <3>1, <3>3
  <2>3. ASSUME NEW c \in Checkers, NEW d \in Docs, NEW ok \in BOOLEAN, OpenReview(v, c, d, ok)
        PROVE  MayGoOn(v)'
    <3>1. MayReview(c, d)'
      BY <1>2, <2>3 DEF OpenReview, Admissible
    <3>2. review'[v].by = c /\ review'[v].doc = d
      BY <2>3 DEF OpenReview, TypeOK, ReviewOK
    <3>3. QED
      BY <2>1, <3>1, <3>2
  <2>4. review'[v] = review[v] \/ Review(v)
    <3>1. ASSUME NEW w \in Reviews, Review(w), w # v PROVE review'[v] = review[v]
      BY <3>1 DEF Review, OpenReview, SaveReview, TypeOK, ReviewOK
    <3>2. QED
      BY <3>1, ReviewsKept
  <2>5. ~SaveReview(v)
    BY SaveReviewEffect
  <2>6. QED
    BY <2>2, <2>3, <2>4, <2>5 DEF Review
<1>4. LevelsInOrder'
  <2> SUFFICES ASSUME NEW d \in Docs, NEW v \in Reviews, NEW c \in Checkers,
                      v \in ReviewsOf(d)', LevelOf[c] < LevelOf[review'[v].by]
               PROVE  \E w \in ReviewsOf(d)' : LevelOf[review'[w].by] = LevelOf[c]
    BY DEF LevelsInOrder
  <2>0. ASSUME NEW w \in ReviewsOf(d), LevelOf[c] <= LevelOf[review[w].by]
        PROVE  \E x \in ReviewsOf(d)' : LevelOf[review'[x].by] = LevelOf[c]
    <3>1. w \in Reviews /\ review[w].by \in Checkers
      BY DEF ReviewsOf, TypeOK, ReviewOK
    <3>2. \E x \in ReviewsOf(d) : LevelOf[review[x].by] = LevelOf[c]
      BY <2>0, <3>1 DEF LevelsInv, LevelsInOrder
    <3>3. QED
      BY <1>1, <3>2
  <2>1. CASE v \in ReviewsOf(d)
    <3>1. review'[v] = review[v] /\ review[v].by \in Checkers
      BY <1>1, <2>1 DEF ReviewsOf, TypeOK, ReviewOK
    <3>2. QED
      BY <2>0, <2>1, <3>1
  <2>2. CASE v \notin ReviewsOf(d)
    <3>1. SaveReview(v)
      BY <2>2, ReviewsKept, SaveReviewEffect DEF ReviewsOf, Review, OpenReview, TypeOK, ReviewOK
    <3>2. review[v].pc = "opened" /\ review[v].doc = d /\ review'[v].by = review[v].by /\ review[v].by \in Checkers
      BY <3>1, SaveReviewEffect DEF ReviewsOf
    <3>3. MayReview(review[v].by, d)
      BY <3>2 DEF LevelsInv, OpenedMay, MayGoOn
    <3>4. PICK w \in ReviewsOf(d) : LevelOf[c] <= LevelOf[review[w].by]
      <4>1. PICK w \in ReviewsOf(d) : LevelOf[review[w].by] = LevelOf[review[v].by]
                                        \/ JustBelow(LevelOf[review[w].by], review[v].by)
        BY <3>2, <3>3 DEF MayReview
      <4>2. QED
        BY <3>2, <4>1 DEF JustBelow
    <3>5. QED
      BY <2>0, <3>4
  <2>3. QED
    BY <2>1, <2>2
<1>5. QED
  BY <1>3, <1>4 DEF LevelsInv

\* The levels that have reviewed a document leave no level out below them.
THEOREM LevelsTheorem == Spec => []LevelsInOrder
<1>1. Init => LevelsInv
  BY DEF Init, LevelsInv, OpenedMay, MayGoOn, LevelsInOrder, ReviewsOf, NoReview
<1>2. Spec => [](TypeOK /\ LevelsInv)
  BY <1>1, DocTypeInit, DocTypeStep, LevelsStep, PTL DEF Spec
<1>3. QED
  BY <1>2, PTL DEF LevelsInv

-----------------------------------------------------------------------------
(* Approved before it is handed over *)

\* A checker reviews once, unless two of his requests raced.
ReviewersOnce ==
  \A d \in Docs : ~raced[d] =>
    \A v, w \in ReviewsOf(d) : review[v].by = review[w].by => v = w

Cleared(d) == Completed(d) /\ (raced[d] \/ ~Rejected(d))

ClearedInv ==
  /\ \A d \in Docs : handed[d] > 0 => Cleared(d)
  /\ \A k \in Orders : order[k].pc \in {"posting", "loaded"} => Cleared(order[k].doc)

LEMMA CompletedKept ==
  ASSUME TypeOK, [Next]_vars, NEW d \in Docs, Completed(d)
  PROVE  Completed(d)'
<1> USE DocAssumption
<1>1. Approvals(d) \subseteq Approvals(d)' /\ Approvals(d)' \subseteq Reviews
  BY ReviewsKept DEF Approvals, ReviewsOf
<1>2. IsFiniteSet(Approvals(d)')
  BY <1>1, FS_Subset
<1>3. /\ Cardinality(Approvals(d)) \in Nat /\ Cardinality(Approvals(d)') \in Nat
      /\ Cardinality(Approvals(d)) <= Cardinality(Approvals(d)')
  BY <1>1, <1>2, FS_Subset, FS_CardinalityType
<1>4. QED
  BY <1>3 DEF Completed

LEMMA ClearedKept ==
  ASSUME TypeOK, [Next]_vars, NEW d \in Docs, Cleared(d)
  PROVE  Cleared(d)'
<1>1. Completed(d)'
  BY CompletedKept DEF Cleared
<1>2. raced'[d] \/ ~Rejected(d)'
  <2>1. ASSUME NEW v \in Reviews, SaveReview(v) PROVE raced'[d] \/ ~Rejected(d)'
    <3>1. CASE raced[d] \/ review[v].doc = d
      BY <2>1, <3>1, SaveReviewEffect DEF Cleared, Admissible
    <3>2. CASE review[v].doc # d /\ ~Rejected(d)
      BY <2>1, <3>2, SaveReviewEffect DEF Rejected, ReviewsOf
    <3>3. QED
      BY <3>1, <3>2 DEF Cleared
  <2>2. ASSUME NEW v \in Reviews, NEW c \in Checkers, NEW e \in Docs, NEW ok \in BOOLEAN,
               OpenReview(v, c, e, ok)
        PROVE  raced'[d] \/ ~Rejected(d)'
    <3>1. raced' = raced /\ review'[v].pc = "opened" /\ \A w \in Reviews \ {v} : review'[w] = review[w]
      BY <2>2 DEF OpenReview, TypeOK, ReviewOK, books
    <3>2. QED
      BY <3>1 DEF Cleared, Rejected, ReviewsOf
  <2>3. CASE review' = review /\ raced' = raced
    BY <2>3 DEF Cleared, Rejected, ReviewsOf
  <2>4. QED
    BY <2>1, <2>2, <2>3, ReviewsKept DEF Review
<1>3. QED
  BY <1>1, <1>2 DEF Cleared

LEMMA OnceStep == ASSUME TypeOK, ReviewersOnce, [Next]_vars PROVE ReviewersOnce'
<1>1. ASSUME NEW v \in Reviews, SaveReview(v) PROVE ReviewersOnce'
  <2> SUFFICES ASSUME NEW d \in Docs, ~raced'[d], NEW x \in ReviewsOf(d)', NEW y \in ReviewsOf(d)',
                      review'[x].by = review'[y].by
               PROVE  x = y
    BY DEF ReviewersOnce
  <2>1. ~raced[d]
    BY <1>1, SaveReviewEffect
  <2>2. \A w \in ReviewsOf(d)' \ {v} : w \in ReviewsOf(d) /\ review'[w] = review[w]
    BY <1>1, SaveReviewEffect DEF ReviewsOf
  <2>3. CASE v \notin ReviewsOf(d)'
    BY <2>1, <2>2, <2>3 DEF ReviewersOnce
  <2>4. CASE v \in ReviewsOf(d)'
    <3>1. review[v].doc = d /\ review'[v].by = review[v].by
      BY <1>1, <2>4, SaveReviewEffect DEF ReviewsOf
    <3>2. ~HasReviewed(review[v].by, d)
      BY <1>1, <3>1, SaveReviewEffect DEF Admissible
    <3>3. \A w \in ReviewsOf(d)' \ {v} : review'[w].by # review'[v].by
      BY <2>2, <3>1, <3>2 DEF HasReviewed
    <3>4. QED
      BY <2>1, <2>2, <3>3 DEF ReviewersOnce
  <2>5. QED
    BY <2>3, <2>4
<1>2. ASSUME NEW v \in Reviews, NEW c \in Checkers, NEW e \in Docs, NEW ok \in BOOLEAN,
             OpenReview(v, c, e, ok)
      PROVE  ReviewersOnce'
  <2>1. raced' = raced /\ review'[v].pc = "opened" /\ \A w \in Reviews \ {v} : review'[w] = review[w]
    BY <1>2 DEF OpenReview, TypeOK, ReviewOK, books
  <2>2. QED
    BY <2>1 DEF ReviewersOnce, ReviewsOf
<1>3. CASE review' = review /\ raced' = raced
  BY <1>3 DEF ReviewersOnce, ReviewsOf
<1>4. QED
  BY <1>1, <1>2, <1>3, ReviewsKept DEF Review

LEMMA ClearedStep == ASSUME TypeOK, ClearedInv, [Next]_vars PROVE ClearedInv'
<1>1. \A d \in Docs : Cleared(d) => Cleared(d)'
  BY ClearedKept
<1>2. ASSUME NEW d \in Docs, handed'[d] > 0 PROVE Cleared(d)
  <2>1. CASE handed' = handed
    BY <1>2, <2>1 DEF ClearedInv
  <2>2. ASSUME NEW k \in Orders, Hand(k) PROVE Cleared(d)
    <3>1. order[k].pc = "loaded" /\ handed' = [handed EXCEPT ![order[k].doc] = @ + 1]
      BY <2>2 DEF Hand
    <3>2. CASE d = order[k].doc
      BY <3>1, <3>2 DEF ClearedInv
    <3>3. CASE d # order[k].doc
      BY <1>2, <3>1, <3>3 DEF ClearedInv, TypeOK, BooksOK
    <3>4. QED
      BY <3>2, <3>3
  <2>3. handed' = handed \/ \E k \in Orders : Hand(k)
    BY DEF Next, vars, books, Process, Upload, Register, Load, Accept, MarkProcessed, RecordWallets, RecordBank,
       SaveAgain, Notify, Refuse, SaveRefused, ProcDies, Edit, OpenEdit, SaveEdit, Review, OpenReview,
       SaveReview, Disbursal, Check, LoadOrder, MarkStatus, MarkDoc, OrderDies, Job, Select, CopyDoc,
       CopyRecords, SaveSource, JobDies
  <2>4. QED
    BY <2>1, <2>2, <2>3
<1>3. ASSUME NEW k \in Orders, order'[k].pc \in {"posting", "loaded"}
      PROVE  order'[k].doc \in Docs /\ Cleared(order'[k].doc)
  <2>1. CASE order'[k] = order[k]
    BY <1>3, <2>1 DEF ClearedInv, TypeOK, OrderOK
  <2>2. ASSUME NEW c \in Checkers, NEW d \in Docs, Check(k, c, d)
        PROVE  order'[k].doc \in Docs /\ Cleared(order'[k].doc)
    BY <2>2 DEF Check, CanDisburse, Cleared, Ordered, TypeOK, OrderOK, NoOrder
  <2>3. CASE LoadOrder(k)
    <3>1. order[k].pc = "posting" /\ order[k].doc \in Docs /\ order[k] \in OrderStates
      BY <2>3 DEF LoadOrder, TypeOK, OrderOK
    <3>2. order'[k].doc = order[k].doc
      <4>1. \/ order'[k] = [order[k] EXCEPT !.pc = "loaded", !.inst = doc[order[k].doc]]
            \/ order'[k] = [order[k] EXCEPT !.pc = "done"]
        BY <2>3 DEF LoadOrder, Ordered, TypeOK, OrderOK
      <4>2. QED
        BY <3>1, <4>1 DEF OrderStates
    <3>3. QED
      BY <3>1, <3>2 DEF ClearedInv
  <2>4. CASE Hand(k) \/ MarkStatus(k) \/ MarkDoc(k) \/ OrderDies(k)
    BY <1>3, <2>4 DEF Hand, MarkStatus, MarkDoc, OrderDies, Ordered, TypeOK, OrderOK, OrderStates
  <2>5. order'[k] = order[k] \/ Disbursal(k)
    <3>1. ASSUME NEW o \in Orders, Disbursal(o), o # k PROVE order'[k] = order[k]
      BY <3>1 DEF Disbursal, Check, LoadOrder, Hand, MarkStatus, MarkDoc, OrderDies, Ordered, TypeOK, OrderOK
    <3>2. order' = order \/ \E o \in Orders : Disbursal(o)
      BY DEF Next, vars, Process, Upload, Register, Load, Accept, MarkProcessed, RecordWallets, RecordBank,
         SaveAgain, Notify, Refuse, SaveRefused, ProcDies, Edit, OpenEdit, SaveEdit, Review, OpenReview,
         SaveReview, Job, Select, CopyDoc, CopyRecords, SaveSource, JobDies
    <3>3. QED
      BY <3>1, <3>2
  <2>6. QED
    BY <2>1, <2>2, <2>3, <2>4, <2>5 DEF Disbursal
<1>4. ASSUME NEW k \in Orders, order'[k].pc \in {"posting", "loaded"} PROVE Cleared(order[k].doc)'
  <2>1. PICK d \in Docs : order'[k].doc = d /\ Cleared(d)
    BY <1>3, <1>4
  <2>2. Cleared(d)'
    BY <1>1, <2>1
  <2>3. QED
    BY <2>1, <2>2
<1>5. QED
  BY <1>1, <1>2, <1>4 DEF ClearedInv

\* As many checkers as approvals, when none has reviewed twice.
LEMMA Approvers ==
  ASSUME TypeOK, ReviewersOnce, NEW d \in Docs, ~raced[d]
  PROVE  Cardinality({review[v].by : v \in Approvals(d)}) = Cardinality(Approvals(d))
<1> DEFINE S == Approvals(d)
           T == {review[v].by : v \in S}
           f == [v \in S |-> review[v].by]
<1>1. IsFiniteSet(S)
  BY DocAssumption, FS_Subset DEF Approvals, ReviewsOf
<1>2. \A v, w \in S : review[v].by = review[w].by => v = w
  BY DEF ReviewersOnce, Approvals
<1> HIDE DEF S
<1>3. f \in Bijection(S, T)
  BY <1>2 DEF Bijection, Injection, Surjection, IsInjective
<1>4. Cardinality(T) = Cardinality(S)
  BY <1>1, <1>3, FS_Bijection DEF ExistsBijection
<1>5. QED
  BY <1>4 DEF S

\* What is handed over has the approvals it needs, of as many checkers, and no
\* rejection, unless two requests had raced.
THEOREM HandedTheorem == Spec => []HandedIsApproved
<1>1. Init => ReviewersOnce /\ ClearedInv
  BY DEF Init, ReviewersOnce, ClearedInv, ReviewsOf, NoReview, NoOrder
<1>2. Spec => [](TypeOK /\ ReviewersOnce /\ ClearedInv)
  BY <1>1, DocTypeInit, DocTypeStep, OnceStep, ClearedStep, PTL DEF Spec
<1>3. TypeOK /\ ReviewersOnce /\ ClearedInv => HandedIsApproved
  BY Approvers DEF ClearedInv, Cleared, Completed, HandedIsApproved
<1>4. QED
  BY <1>2, <1>3, PTL

-----------------------------------------------------------------------------
(***************************************************************************)
(* The uploads, requests, disbursals and copies of DocWorkflow together    *)
(* implement DocLifecycle, for any number of documents and of each.        *)
(*                                                                         *)
(* HeldInv   whoever is at a document is at one that exists, and holds a   *)
(*           row of it                                                     *)
(* CalmInv   of a document that nothing disturbed: what its processor has  *)
(*           still to mark is unmarked (ProcCalm); one disbursal at most   *)
(*           is at it, and its rows say how far that has come (OrderCalm)  *)
(*                                                                         *)
(* A save that disturbs nothing is of the row that is there, so its step   *)
(* is one of the life cycle; a second hand-over would have been checked    *)
(* against a row that says disbursed, or beside another disbursal.         *)
(***************************************************************************)


HasRow(d) == doc[d].kind # "none"

Free     == {"none", "uploaded", "queued", "done"}   \* steps without an instance
Unmarked(d) == \/ proc[d].pc \in {"uploaded", "queued", "validating", "accepting", "marking"}
               \/ proc[d].pc = "recording" /\ ~EWallet(d)
Posting(k, d) == order[k].doc = d /\ order[k].pc \in {"posting", "loaded"}
Marking(k, d) == order[k].doc = d /\ order[k].pc \in {"queued", "marking"}

\* Rows in hand are rows that exist; a document without a row has no history.
RowInv(d) ==
  /\ ~HasRow(d) => /\ doc[d] = NoRow /\ status[d] = "none" /\ handed[d] = 0
                   /\ ~disturbed[d] /\ proc[d].pc = "none"
  /\ proc[d].pc \notin Free => proc[d].inst.kind # "none"
  /\ d \in Copies => proc[d].pc = "none"
EditInv(e) ==
  edit[e].pc = "opened" =>
    /\ HasRow(edit[e].doc) /\ edit[e].inst.kind # "none"
    /\ Admits(edit[e].kind, edit[e].inst)
OrderInv(k) ==
  /\ order[k].pc # "idle" => HasRow(order[k].doc)
  /\ order[k].pc \in {"loaded", "queued", "marking"} => order[k].inst.kind # "none" /\ ~order[k].inst.gone
JobInv ==
  /\ job.pc # "idle" => HasRow(job.doc) /\ job.inst.kind # "none" /\ ~job.inst.gone
  /\ job.pc = "recording" => HasRow(job.copy) /\ job.copy \in Copies
HeldInv ==
  /\ \A d \in Docs : RowInv(d)
  /\ \A e \in Edits : EditInv(e)
  /\ \A k \in Orders : OrderInv(k)
  /\ JobInv

ProcCalm(d) ==
  /\ Unmarked(d) => ~doc[d].processed /\ ~doc[d].allowed /\ status[d] # "failed"
  /\ proc[d].pc \notin Free => ~proc[d].inst.allowed
  /\ proc[d].pc = "failing" => status[d] = "failed" \/ handed[d] > 0
  /\ d \in Copies /\ HasRow(d) => doc[d].allowed
OrderCalm(d) ==
  /\ \A j, k \in Orders : InHand(j, d) /\ InHand(k, d) => j = k
  /\ \A k \in Orders : Posting(k, d) => handed[d] = 0 /\ doc[d].allowed
  /\ \A k \in Orders : Marking(k, d) => handed[d] = 1
  /\ handed[d] <= 1 /\ (handed[d] = 1 => doc[d].allowed)
  /\ doc[d].disbursed => handed[d] = 1
  /\ d \notin Copies => (status[d] = "disbursed" => handed[d] = 1)
  /\ \A k \in Orders : Marking(k, d) /\ order[k].pc = "marking" /\ d \notin Copies => status[d] = "disbursed"
  /\ handed[d] = 1 /\ (\A k \in Orders : ~Marking(k, d)) =>
       doc[d].disbursed /\ ~doc[d].gone /\ (d \notin Copies => status[d] = "disbursed")
CalmInv == \A d \in Docs : ~disturbed[d] => ProcCalm(d) /\ OrderCalm(d)

Inv == TypeOK /\ HeldInv /\ CalmInv

-----------------------------------------------------------------------------
(* What steps do to rows *)

LEMMA Saved ==
  ASSUME TypeOK, NEW d \in Docs, NEW inst, NEW row, SaveOver(d, inst, row)
  PROVE  /\ doc'[d] = row
         /\ disturbed'[d] = (disturbed[d] \/ doc[d] # inst)
         /\ \A x \in Docs \ {d} : doc'[x] = doc[x] /\ disturbed'[x] = disturbed[x]
BY DEF SaveOver, Disturb, TypeOK, RowsOK, BooksOK

\* A document is left alone.
Alone(x) ==
  /\ doc'[x] = doc[x] /\ status'[x] = status[x] /\ proc'[x] = proc[x]
  /\ handed'[x] = handed[x] /\ disturbed'[x] = disturbed[x]

LEMMA ProcessFrame ==
  ASSUME TypeOK, HeldInv, NEW d \in Docs, Process(d)
  PROVE  /\ UNCHANGED <<edit, review, order, job, handed>>
         /\ \A x \in Docs \ {d} : Alone(x)
         /\ d \notin Copies
<1>1. UNCHANGED <<edit, review, order, job, handed>>
  BY DEF Process, Upload, Register, Load, Accept, MarkProcessed, RecordWallets, RecordBank, SaveAgain,
     Notify, Refuse, SaveRefused, ProcDies, books
<1>2. \A x \in Docs \ {d} : proc'[x] = proc[x] /\ status'[x] = status[x]
  BY DEF Process, Upload, Register, Load, Accept, MarkProcessed, RecordWallets, RecordBank, SaveAgain,
     Notify, Refuse, SaveRefused, ProcDies, Proceed, Says, books, TypeOK, ProcOK, RowsOK
<1>3. \A x \in Docs \ {d} : doc'[x] = doc[x] /\ disturbed'[x] = disturbed[x]
  <2>1. CASE MarkProcessed(d) \/ SaveAgain(d) \/ SaveRefused(d)
    BY <2>1, Saved DEF MarkProcessed, SaveAgain, SaveRefused
  <2>2. CASE \E kind \in {"e_wallet", "bank"} : Upload(d, kind)
    BY <2>2 DEF Upload, books, TypeOK, RowsOK
  <2>3. CASE Refuse(d) \/ ProcDies(d)
    BY <2>3 DEF Refuse, ProcDies, Disturb, TypeOK, BooksOK
  <2>4. CASE Register(d) \/ Load(d) \/ Accept(d) \/ RecordWallets(d) \/ RecordBank(d) \/ Notify(d)
    BY <2>4 DEF Register, Load, Accept, RecordWallets, RecordBank, Notify, books
  <2>5. QED
    BY <2>1, <2>2, <2>3, <2>4 DEF Process
<1>4. d \notin Copies
  <2>1. CASE \E kind \in {"e_wallet", "bank"} : Upload(d, kind)
    BY <2>1 DEF Upload
  <2>2. CASE proc[d].pc # "none"
    BY <2>2 DEF HeldInv, RowInv
  <2>3. QED
    BY <2>1, <2>2 DEF Process, Register, Load, Accept, MarkProcessed, RecordWallets, RecordBank, SaveAgain,
       Notify, Refuse, SaveRefused, ProcDies
<1>5. QED
  BY <1>1, <1>2, <1>3, <1>4 DEF Alone

\* What is at a document that exists stays so.
LEMMA HeldStays ==
  ASSUME TypeOK, HeldInv, \A x \in Docs : HasRow(x) => HasRow(x)', UNCHANGED <<edit, order, job>>
  PROVE  (\A e \in Edits : EditInv(e)') /\ (\A k \in Orders : OrderInv(k)') /\ JobInv'
<1>1. \A e \in Edits : EditInv(e)'
  BY DEF HeldInv, EditInv, TypeOK, EditOK
<1>2. \A k \in Orders : OrderInv(k)'
  BY DEF HeldInv, OrderInv, TypeOK, OrderOK
<1>3. JobInv'
  BY DEF HeldInv, JobInv, TypeOK, JobOK
<1>4. QED
  BY <1>1, <1>2, <1>3

LEMMA ProcessHeld == ASSUME TypeOK, HeldInv, NEW d \in Docs, Process(d) PROVE HeldInv'
<1>1. /\ UNCHANGED <<edit, review, order, job, handed>>
      /\ \A x \in Docs \ {d} : Alone(x)
      /\ d \notin Copies
  BY ProcessFrame
<1>2. proc[d] \in ProcStates /\ RowInv(d)
  BY DEF TypeOK, ProcOK, HeldInv
<1>3. RowInv(d)' /\ HasRow(d)'
  <2>1. CASE \E kind \in {"e_wallet", "bank"} : Upload(d, kind)
    <3>1. doc'[d].kind # "none" /\ proc'[d].pc = "uploaded"
      BY <2>1 DEF Upload, Uploaded, NoRow, NoProc, Proceed, TypeOK, RowsOK, ProcOK
    <3>2. QED
      BY <1>1, <3>1 DEF RowInv, HasRow, Free
  <2>2. CASE MarkProcessed(d) \/ SaveAgain(d) \/ SaveRefused(d)
    <3>1. PICK row : SaveOver(d, proc[d].inst, row) /\ row.kind = proc[d].inst.kind
      BY <1>2, <2>2 DEF MarkProcessed, SaveAgain, SaveRefused, ProcStates, DocRows
    <3>2. proc[d].inst.kind # "none"
      BY <1>2, <2>2 DEF MarkProcessed, SaveAgain, SaveRefused, RowInv, Free
    <3>3. doc'[d].kind # "none"
      BY <3>1, <3>2, Saved
    <3>4. proc'[d].pc \in Free \/ proc'[d].inst.kind = proc[d].inst.kind
      BY <1>2, <2>2 DEF MarkProcessed, SaveAgain, SaveRefused, Proceed, ProcStates, DocRows, NoProc, Free,
         TypeOK, ProcOK
    <3>5. QED
      BY <1>1, <3>2, <3>3, <3>4 DEF RowInv, HasRow
  <2>3. CASE Register(d) \/ Load(d) \/ Accept(d) \/ RecordWallets(d) \/ RecordBank(d) \/ Notify(d) \/ Refuse(d)
             \/ ProcDies(d)
    <3>1. proc[d].pc # "none" /\ doc' = doc
      BY <2>3 DEF Register, Load, Accept, RecordWallets, RecordBank, Notify, Refuse, ProcDies
    <3>2. HasRow(d) /\ HasRow(d)'
      BY <1>2, <3>1 DEF RowInv, HasRow
    <3>3. proc'[d].pc \notin Free => proc'[d].inst.kind # "none"
      <4>1. CASE Load(d)
        BY <4>1 DEF Load, Proceed, Exists, Free, TypeOK, ProcOK
      <4>2. CASE Register(d) \/ Notify(d) \/ ProcDies(d)
        BY <1>2, <4>2 DEF Register, Notify, ProcDies, Proceed, NoProc, Free, TypeOK, ProcOK, ProcStates
      <4>3. CASE Accept(d) \/ RecordWallets(d) \/ RecordBank(d) \/ Refuse(d)
        BY <1>2, <4>3 DEF Accept, RecordWallets, RecordBank, Refuse, Proceed, Free, RowInv, TypeOK, ProcOK,
           ProcStates
      <4>4. QED
        BY <2>3, <4>1, <4>2, <4>3
    <3>4. QED
      BY <1>1, <3>2, <3>3 DEF RowInv, HasRow
  <2>4. QED
    BY <2>1, <2>2, <2>3 DEF Process
<1>4. ASSUME NEW x \in Docs \ {d} PROVE RowInv(x)' /\ (HasRow(x) => HasRow(x)')
  BY <1>1, <1>4 DEF Alone, HeldInv, RowInv, HasRow
<1>5. QED
  BY <1>1, <1>3, <1>4, HeldStays DEF HeldInv

LEMMA EditFrame ==
  ASSUME TypeOK, NEW e \in Edits, Edit(e)
  PROVE  /\ UNCHANGED <<status, proc, review, order, job, handed>>
         /\ \A f \in Edits \ {e} : edit'[f] = edit[f]
BY DEF Edit, OpenEdit, SaveEdit, Request, books, TypeOK, EditOK

LEMMA EditHeld == ASSUME TypeOK, HeldInv, NEW e \in Edits, Edit(e) PROVE HeldInv'
<1>1. /\ UNCHANGED <<status, proc, review, order, job, handed>>
      /\ \A f \in Edits \ {e} : edit'[f] = edit[f]
  BY EditFrame
<1>2. edit[e] \in EditStates
  BY DEF TypeOK, EditOK
<1>3. CASE \E d \in Docs, kind \in EditKinds : OpenEdit(e, d, kind)
  <2>1. UNCHANGED <<doc, disturbed>>
    BY <1>3 DEF OpenEdit, books
  <2>2. EditInv(e)'
    BY <1>3, <2>1 DEF OpenEdit, Request, EditInv, Exists, HasRow, TypeOK, EditOK
  <2>3. \A d \in Docs : RowInv(d)'
    BY <1>1, <2>1 DEF HeldInv, RowInv, HasRow
  <2>4. (\A k \in Orders : OrderInv(k)') /\ JobInv'
    BY <1>1, <2>1 DEF HeldInv, OrderInv, JobInv, HasRow
  <2>5. \A f \in Edits \ {e} : EditInv(f)'
    BY <1>1, <2>1 DEF HeldInv, EditInv, HasRow
  <2>6. QED
    BY <2>2, <2>3, <2>4, <2>5 DEF HeldInv
<1>4. CASE SaveEdit(e)
  <2> DEFINE d == edit[e].doc
             row == Edited(edit[e].kind, edit[e].inst)
  <2>1. d \in Docs /\ edit[e].inst.kind # "none" /\ edit[e].inst \in DocRows
    BY <1>2, <1>4 DEF SaveEdit, HeldInv, EditInv, TypeOK, EditOK, EditStates
  <2>2. SaveOver(d, edit[e].inst, row) /\ row.kind = edit[e].inst.kind
    BY <1>4, <2>1 DEF SaveEdit, Edited, DocRows
  <2> HIDE DEF d, row
  <2>3. doc'[d].kind # "none" /\ \A x \in Docs \ {d} : doc'[x] = doc[x] /\ disturbed'[x] = disturbed[x]
    BY <2>1, <2>2, Saved
  <2>4. \A x \in Docs : HasRow(x) => HasRow(x)'
    BY <2>3 DEF HasRow
  <2>5. HasRow(d)
    BY <1>4 DEF SaveEdit, HeldInv, EditInv, d
  <2>6. \A x \in Docs : RowInv(x)'
    BY <1>1, <2>3, <2>5 DEF HeldInv, RowInv, HasRow
  <2>7. edit'[e].pc = "done"
    BY <1>4 DEF SaveEdit, Request, NoEdit, TypeOK, EditOK
  <2>8. \A f \in Edits : EditInv(f)'
    BY <1>1, <2>4, <2>7 DEF HeldInv, EditInv, TypeOK, EditOK
  <2>9. \A k \in Orders : OrderInv(k)'
    BY <1>1, <2>4 DEF HeldInv, OrderInv, TypeOK, OrderOK
  <2>10. JobInv'
    BY <1>1, <2>4 DEF HeldInv, JobInv, TypeOK, JobOK
  <2>11. QED
    BY <2>6, <2>8, <2>9, <2>10 DEF HeldInv
<1>5. QED
  BY <1>3, <1>4 DEF Edit

LEMMA OrderFrame ==
  ASSUME TypeOK, NEW k \in Orders, Disbursal(k)
  PROVE  /\ UNCHANGED <<proc, edit, review, job>>
         /\ \A o \in Orders \ {k} : order'[o] = order[o]
BY DEF Disbursal, Check, LoadOrder, Hand, MarkStatus, MarkDoc, OrderDies, Ordered, books, TypeOK, OrderOK

LEMMA DisbursalHeld == ASSUME TypeOK, HeldInv, NEW k \in Orders, Disbursal(k) PROVE HeldInv'
<1>1. /\ UNCHANGED <<proc, edit, review, job>>
      /\ \A o \in Orders \ {k} : order'[o] = order[o]
  BY OrderFrame
<1>2. order[k] \in OrderStates /\ OrderInv(k)
  BY DEF TypeOK, OrderOK, HeldInv
<1>3. ASSUME order[k].pc # "idle" PROVE order[k].doc \in Docs /\ HasRow(order[k].doc)
  BY <1>2, <1>3 DEF OrderInv, TypeOK, OrderOK
<1>4. CASE \E c \in Checkers, x \in Docs : Check(k, c, x)
  <2>1. PICK c \in Checkers, x \in Docs : Check(k, c, x)
    BY <1>4
  <2>2. HasRow(x) /\ UNCHANGED <<doc, status, handed>>
    BY <2>1 DEF Check, Exists, HasRow
  <2>3. order'[k].pc = "posting" /\ order'[k].doc = x
    BY <2>1 DEF Check, Ordered, NoOrder, TypeOK, OrderOK
  <2>4. \A y \in Docs \ {x} : disturbed'[y] = disturbed[y]
    BY <2>1 DEF Check, Disturb, TypeOK, BooksOK
  <2>5. \A y \in Docs : RowInv(y)'
    BY <1>1, <2>2, <2>4 DEF HeldInv, RowInv, HasRow
  <2>6. OrderInv(k)'
    BY <2>2, <2>3 DEF OrderInv, HasRow
  <2>7. \A o \in Orders \ {k} : OrderInv(o)'
    BY <1>1, <2>2 DEF HeldInv, OrderInv, HasRow
  <2>8. (\A e \in Edits : EditInv(e)') /\ JobInv'
    BY <1>1, <2>2 DEF HeldInv, EditInv, JobInv, HasRow
  <2>9. QED
    BY <2>5, <2>6, <2>7, <2>8 DEF HeldInv
<1>5. CASE LoadOrder(k) \/ Hand(k) \/ MarkStatus(k) \/ MarkDoc(k) \/ OrderDies(k)
  <2>1. PICK d \in Docs : d = order[k].doc /\ HasRow(d)
    BY <1>3, <1>5 DEF LoadOrder, Hand, MarkStatus, MarkDoc, OrderDies
  <2>2. HasRow(d)' /\ \A x \in Docs \ {d} : Alone(x)
    <3>1. CASE MarkDoc(k)
      <4> DEFINE row == [order[k].inst EXCEPT !.disbursed = TRUE]
      <4>1. row.kind # "none"
        BY <1>2, <3>1 DEF MarkDoc, OrderInv, OrderStates, DocRows
      <4>2. SaveOver(d, order[k].inst, row) /\ UNCHANGED <<status, proc, handed>>
        BY <1>1, <2>1, <3>1 DEF MarkDoc
      <4> HIDE DEF row
      <4>3. QED
        BY <2>1, <4>1, <4>2, Saved DEF HasRow, Alone
    <3>2. CASE ~MarkDoc(k)
      <4>1. UNCHANGED <<doc, proc>>
        BY <1>1, <1>5, <3>2 DEF LoadOrder, Hand, MarkStatus, OrderDies
      <4>2. \A x \in Docs \ {d} : status'[x] = status[x] /\ handed'[x] = handed[x] /\ disturbed'[x] = disturbed[x]
        BY <1>5, <2>1, <3>2 DEF LoadOrder, Hand, MarkStatus, OrderDies, Says, Disturb, books, TypeOK, RowsOK, BooksOK
      <4>3. QED
        BY <2>1, <4>1, <4>2 DEF HasRow, Alone
    <3>3. QED
      BY <3>1, <3>2
  <2>3. order'[k].doc = d
    <3>1. CASE LoadOrder(k)
      <4>1. \/ order'[k] = [order[k] EXCEPT !.pc = "loaded", !.inst = doc[d]]
            \/ order'[k] = [order[k] EXCEPT !.pc = "done"]
        BY <2>1, <3>1 DEF LoadOrder, Ordered, TypeOK, OrderOK
      <4>2. QED
        BY <1>2, <2>1, <4>1 DEF OrderStates
    <3>2. CASE Hand(k) \/ MarkStatus(k)
      BY <1>2, <2>1, <3>2 DEF Hand, MarkStatus, Ordered, OrderStates, TypeOK, OrderOK
    <3>3. CASE MarkDoc(k) \/ OrderDies(k)
      <4>1. order'[k] = [order[k] EXCEPT !.pc = "done", !.inst = NoRow]
        BY <3>3 DEF MarkDoc, OrderDies, Ordered, TypeOK, OrderOK
      <4>2. QED
        BY <1>2, <2>1, <4>1 DEF OrderStates
    <3>4. QED
      BY <1>5, <3>1, <3>2, <3>3
  <2>4. order'[k].pc \in {"loaded", "queued", "marking"} => order'[k].inst.kind # "none" /\ ~order'[k].inst.gone
    <3>1. CASE LoadOrder(k)
      <4>1. \/ order'[k] = [order[k] EXCEPT !.pc = "loaded", !.inst = doc[d]] /\ Exists(d)
            \/ order'[k] = [order[k] EXCEPT !.pc = "done"]
        BY <2>1, <3>1 DEF LoadOrder, Ordered, TypeOK, OrderOK
      <4>2. QED
        BY <1>2, <4>1 DEF OrderStates, Exists
    <3>2. CASE Hand(k) \/ MarkStatus(k)
      BY <1>2, <3>2 DEF Hand, MarkStatus, Ordered, OrderStates, OrderInv, TypeOK, OrderOK
    <3>3. CASE MarkDoc(k) \/ OrderDies(k)
      <4>1. order'[k] = [order[k] EXCEPT !.pc = "done", !.inst = NoRow]
        BY <3>3 DEF MarkDoc, OrderDies, Ordered, TypeOK, OrderOK
      <4>2. order'[k].pc = "done"
        BY <1>2, <4>1 DEF OrderStates
      <4>3. QED
        BY <4>2
    <3>4. QED
      BY <1>5, <3>1, <3>2, <3>3
  <2>5. \A x \in Docs : HasRow(x) => HasRow(x)'
    BY <2>2 DEF Alone, HasRow
  <2>6. \A x \in Docs : RowInv(x)'
    BY <1>1, <2>1, <2>2 DEF HeldInv, RowInv, Alone, HasRow
  <2>7. OrderInv(k)'
    BY <2>2, <2>3, <2>4 DEF OrderInv, HasRow
  <2>8. \A o \in Orders \ {k} : OrderInv(o)'
    BY <1>1, <2>5 DEF HeldInv, OrderInv, TypeOK, OrderOK
  <2>9. (\A e \in Edits : EditInv(e)') /\ JobInv'
    BY <1>1, <2>5 DEF HeldInv, EditInv, JobInv, TypeOK, EditOK, JobOK
  <2>10. QED
    BY <2>6, <2>7, <2>8, <2>9 DEF HeldInv
<1>6. QED
  BY <1>4, <1>5 DEF Disbursal

LEMMA JobFrame ==
  ASSUME TypeOK, Job
  PROVE  UNCHANGED <<proc, edit, review, order, handed>>
BY DEF Job, Select, CopyDoc, CopyRecords, SaveSource, JobDies, books

LEMMA JobHeld == ASSUME TypeOK, HeldInv, Job PROVE HeldInv'
<1>1. UNCHANGED <<proc, edit, review, order, handed>>
  BY JobFrame
<1>2. job \in JobStates /\ JobInv
  BY DEF TypeOK, JobOK, HeldInv
<1>3. ASSUME \A x \in Docs : HasRow(x) => HasRow(x)', \A x \in Docs : RowInv(x)', JobInv'
      PROVE  HeldInv'
  <2>1. \A k \in Orders : OrderInv(k)'
    BY <1>1, <1>3 DEF HeldInv, OrderInv, TypeOK, OrderOK
  <2>2. \A e \in Edits : EditInv(e)'
    BY <1>1, <1>3 DEF HeldInv, EditInv, TypeOK, EditOK
  <2>3. QED
    BY <1>3, <2>1, <2>2 DEF HeldInv
<1>4. ASSUME NEW d \in Docs, Select(d) PROVE HeldInv'
  <2>1. UNCHANGED <<doc, status, disturbed>>
    BY <1>4 DEF Select, books
  <2>2. JobInv'
    BY <1>4, <2>1 DEF Select, JobInv, Exists, HasRow
  <2>3. \A x \in Docs : RowInv(x)' /\ (HasRow(x) => HasRow(x)')
    BY <1>1, <2>1 DEF HeldInv, RowInv, HasRow
  <2>4. QED
    BY <1>3, <2>2, <2>3
<1>5. ASSUME NEW n \in Docs, CopyDoc(n) PROVE HeldInv'
  <2> DEFINE row == [job.inst EXCEPT !.processed = TRUE, !.allowed = TRUE, !.disbursed = FALSE, !.recurring = FALSE]
  <2>1. n \in Copies /\ job.pc = "copying" /\ doc' = [doc EXCEPT ![n] = row] /\ UNCHANGED <<status, disturbed>>
    BY <1>5 DEF CopyDoc, books
  <2>2. row.kind # "none"
    BY <1>2, <2>1 DEF JobInv, JobStates, DocRows
  <2> HIDE DEF row
  <2>3. HasRow(n)' /\ \A x \in Docs \ {n} : doc'[x] = doc[x]
    BY <2>1, <2>2 DEF HasRow, TypeOK, RowsOK
  <2>4. \A x \in Docs : RowInv(x)' /\ (HasRow(x) => HasRow(x)')
    BY <1>1, <2>1, <2>3 DEF HeldInv, RowInv, HasRow
  <2>5. job'.pc = "recording" /\ job'.copy = n /\ job'.doc = job.doc /\ job'.inst = job.inst
    BY <1>2, <1>5 DEF CopyDoc, JobStates
  <2>6. JobInv'
    BY <1>2, <2>1, <2>3, <2>4, <2>5 DEF JobInv, TypeOK, JobOK
  <2>7. QED
    BY <1>3, <2>4, <2>6
<1>6. CASE CopyRecords
  <2>1. /\ job.pc = "recording" /\ UNCHANGED <<doc, disturbed>>
        /\ status' = [status EXCEPT ![job.copy] = status[job.doc]]
    BY <1>6 DEF CopyRecords, Says, books
  <2>2. HasRow(job.copy) /\ job.copy \in Docs
    BY <1>2, <2>1 DEF JobInv, TypeOK, JobOK
  <2>3. \A x \in Docs : RowInv(x)' /\ (HasRow(x) => HasRow(x)')
    BY <1>1, <2>1, <2>2 DEF HeldInv, RowInv, HasRow, TypeOK, RowsOK
  <2>4. job'.pc = "saving" /\ job'.doc = job.doc /\ job'.inst = job.inst
    BY <1>2, <1>6 DEF CopyRecords, JobStates
  <2>5. JobInv'
    BY <1>2, <2>1, <2>4 DEF JobInv, HasRow
  <2>6. QED
    BY <1>3, <2>3, <2>5
<1>7. CASE SaveSource
  <2>1. job.pc = "saving" /\ SaveOver(job.doc, job.inst, job.inst) /\ job' = NoJob /\ UNCHANGED status
    BY <1>7 DEF SaveSource
  <2>2. PICK d \in Docs : d = job.doc /\ job.inst.kind # "none" /\ HasRow(d)
    BY <1>2, <2>1 DEF JobInv, TypeOK, JobOK
  <2>3. HasRow(d)' /\ \A x \in Docs \ {d} : doc'[x] = doc[x] /\ disturbed'[x] = disturbed[x]
    BY <2>1, <2>2, Saved DEF HasRow
  <2>4. \A x \in Docs : RowInv(x)' /\ (HasRow(x) => HasRow(x)')
    BY <1>1, <2>1, <2>2, <2>3 DEF HeldInv, RowInv, HasRow
  <2>5. JobInv'
    BY <2>1 DEF JobInv, NoJob
  <2>6. QED
    BY <1>3, <2>4, <2>5
<1>8. CASE JobDies
  <2>1. UNCHANGED <<doc, status>> /\ job' = NoJob
    BY <1>8 DEF JobDies
  <2>2. \A x \in Docs : disturbed'[x] = (disturbed[x] \/ (job.pc = "recording" /\ x = job.copy))
    BY <1>8 DEF JobDies
  <2>3. \A x \in Docs : RowInv(x)' /\ (HasRow(x) => HasRow(x)')
    BY <1>1, <1>2, <2>1, <2>2 DEF HeldInv, RowInv, HasRow, JobInv
  <2>4. JobInv'
    BY <2>1 DEF JobInv, NoJob
  <2>5. QED
    BY <1>3, <2>3, <2>4
<1>9. QED
  BY <1>4, <1>5, <1>6, <1>7, <1>8 DEF Job

LEMMA HeldStep == ASSUME TypeOK, HeldInv, [Next]_vars PROVE HeldInv'
<1>1. ASSUME UNCHANGED <<doc, status, proc, edit, order, job, handed, disturbed>> PROVE HeldInv'
  BY <1>1 DEF HeldInv, RowInv, EditInv, OrderInv, JobInv, HasRow
<1>2. ASSUME NEW v \in Reviews, Review(v) PROVE HeldInv'
  BY <1>1, <1>2 DEF Review, OpenReview, SaveReview, books
<1>3. CASE UNCHANGED vars
  BY <1>1, <1>3 DEF vars, books
<1>4. QED
  BY <1>2, <1>3, ProcessHeld, EditHeld, DisbursalHeld, JobHeld DEF Next

-----------------------------------------------------------------------------
(* A document that a step leaves undisturbed stays calm, and its phase moves as *)
(* the contract says                                                             *)

Moves ==
  {<<"none", "uploaded">>, <<"none", "allowed">>, <<"uploaded", "processed">>, <<"uploaded", "refused">>,
   <<"processed", "refused">>, <<"processed", "allowed">>, <<"allowed", "handed">>}
  \cup {"uploaded", "refused", "processed", "allowed"} \X {"deleted"}

Moved(d) == Phase(d)' = Phase(d) \/ <<Phase(d), Phase(d)'>> \in Moves

\* Nobody is at a document that is not allowed, and it was not handed over.
LEMMA NotAllowedIdle ==
  ASSUME TypeOK, NEW d \in Docs, OrderCalm(d), ~doc[d].allowed
  PROVE  /\ handed[d] = 0 /\ ~doc[d].disbursed /\ \A k \in Orders : ~InHand(k, d)
         /\ d \notin Copies => status[d] # "disbursed"
<1>1. handed[d] = 0
  BY DEF OrderCalm, TypeOK, BooksOK
<1>2. \A k \in Orders : ~InHand(k, d)
  BY <1>1 DEF OrderCalm, Posting, Marking, InHand
<1>3. QED
  BY <1>1, <1>2 DEF OrderCalm

LEMMA IdleCalm ==
  ASSUME NEW d \in Docs, handed'[d] = 0, ~doc'[d].disbursed, \A k \in Orders : ~InHand(k, d)',
         d \notin Copies => status'[d] # "disbursed"
  PROVE  OrderCalm(d)'
<1>1. \A k \in Orders : ~Posting(k, d)' /\ ~Marking(k, d)'
  BY DEF Posting, Marking, InHand
<1>2. QED
  BY <1>1 DEF OrderCalm

\* Only the flags that the disbursals go by count.
LEMMA SameCalm ==
  ASSUME NEW d \in Docs, OrderCalm(d), handed'[d] = handed[d], UNCHANGED order,
         doc'[d].allowed = doc[d].allowed, doc'[d].disbursed = doc[d].disbursed,
         doc'[d].gone = doc[d].gone, d \notin Copies => status'[d] = status[d]
  PROVE  OrderCalm(d)'
BY DEF OrderCalm, Posting, Marking, InHand

LEMMA SamePhase ==
  ASSUME NEW d \in Docs, doc'[d] = doc[d], status'[d] = status[d], handed'[d] = handed[d],
         disturbed'[d] = disturbed[d]
  PROVE  Phase(d)' = Phase(d)
BY DEF Phase

LEMMA ProcessCalm ==
  ASSUME Inv, NEW d \in Docs, Process(d), ~disturbed'[d]
  PROVE  ProcCalm(d)' /\ OrderCalm(d)' /\ Moved(d)
<1>1. TypeOK /\ RowInv(d) /\ proc[d] \in ProcStates /\ doc[d] \in DocRows /\ proc[d].inst \in DocRows
  BY DEF Inv, HeldInv, TypeOK, ProcOK, RowsOK, ProcStates
<1>2. order' = order /\ handed' = handed /\ d \notin Copies
  BY ProcessFrame DEF Inv
<1>3. ~disturbed[d]
  BY <1>1 DEF Process, Upload, Register, Load, Accept, MarkProcessed, RecordWallets, RecordBank, SaveAgain,
     Notify, Refuse, SaveRefused, ProcDies, SaveOver, Disturb, books, TypeOK, BooksOK
<1>4. ProcCalm(d) /\ OrderCalm(d)
  BY <1>3 DEF Inv, CalmInv
<1>5. ASSUME NEW s \in Statuses, s # "disbursed", ~doc[d].allowed, doc'[d].disbursed = doc[d].disbursed,
             status'[d] = s \/ status'[d] = status[d]
      PROVE  OrderCalm(d)' /\ handed[d] = 0
  BY <1>1, <1>2, <1>4, <1>5, NotAllowedIdle, IdleCalm DEF InHand
<1>6. ASSUME NEW kind \in {"e_wallet", "bank"}, Upload(d, kind) PROVE ProcCalm(d)' /\ OrderCalm(d)' /\ Moved(d)
  <2>1. /\ doc[d] = NoRow /\ status[d] = "none" /\ handed[d] = 0
        /\ \A k \in Orders : ~InHand(k, d)
    BY <1>1, <1>6 DEF Upload, RowInv, HasRow, Inv, HeldInv, OrderInv, InHand
  <2>2. doc'[d] = Uploaded(kind) /\ status' = status /\ proc'[d] = [NoProc EXCEPT !.pc = "uploaded"]
    BY <1>1, <1>6 DEF Upload, Proceed, TypeOK, RowsOK, ProcOK
  <2>3. OrderCalm(d)'
    BY <1>2, <2>1, <2>2, IdleCalm DEF Uploaded, NoRow, InHand
  <2>4. ProcCalm(d)'
    BY <1>2, <2>1, <2>2 DEF ProcCalm, Uploaded, NoRow, NoProc, Free
  <2>5. Phase(d) = "none" /\ Phase(d)' = "uploaded"
    BY <1>2, <1>3, <1>6, <2>1, <2>2 DEF Phase, Uploaded, NoRow
  <2>6. QED
    BY <2>3, <2>4, <2>5 DEF Moved, Moves
<1>7. CASE Register(d)
  <2>1. /\ proc[d].pc = "uploaded" /\ doc' = doc /\ disturbed' = disturbed
        /\ status'[d] = "uploaded" /\ proc'[d] = [proc[d] EXCEPT !.pc = "queued"]
    BY <1>1, <1>7 DEF Register, Says, Proceed, books, TypeOK, RowsOK, ProcOK
  <2>2. Unmarked(d) /\ ~doc[d].allowed /\ ~doc[d].processed /\ status[d] # "failed"
    BY <1>4, <2>1 DEF Unmarked, ProcCalm
  <2>3. OrderCalm(d)' /\ handed[d] = 0
    BY <1>5, <2>1, <2>2 DEF Statuses
  <2>4. proc'[d].pc = "queued"
    BY <1>1, <2>1 DEF ProcStates
  <2>5. ProcCalm(d)'
    BY <1>2, <2>1, <2>2, <2>4 DEF ProcCalm, Free
  <2>6. Phase(d)' = Phase(d)
    BY <1>2, <2>1, <2>2, <2>3 DEF Phase
  <2>7. QED
    BY <2>3, <2>5, <2>6 DEF Moved
<1>8. CASE Load(d)
  <2>1. /\ proc[d].pc = "queued" /\ doc' = doc /\ disturbed' = disturbed /\ status' = status
        /\ \/ proc'[d] = [pc |-> "validating", inst |-> doc[d]]
           \/ proc'[d] = [proc[d] EXCEPT !.pc = "done"]
    BY <1>1, <1>8 DEF Load, Proceed, books, TypeOK, ProcOK
  <2>2. ~doc[d].allowed /\ ~doc[d].processed /\ status[d] # "failed"
    BY <1>4, <2>1 DEF Unmarked, ProcCalm
  <2>3. proc'[d].pc = "done" \/ (proc'[d].pc = "validating" /\ proc'[d].inst = doc[d])
    BY <1>1, <2>1 DEF ProcStates
  <2>4. ProcCalm(d)'
    BY <1>2, <2>1, <2>2, <2>3 DEF ProcCalm, Free
  <2>5. OrderCalm(d)'
    BY <1>2, <1>4, <2>1, SameCalm
  <2>6. QED
    BY <1>2, <2>1, <2>4, <2>5, SamePhase DEF Moved
<1>9. CASE Accept(d)
  <2>1. /\ proc[d].pc \in {"validating", "accepting"} /\ doc' = doc /\ disturbed' = disturbed
        /\ status'[d] = "processed" /\ proc'[d] = [proc[d] EXCEPT !.pc = "marking"]
    BY <1>1, <1>9 DEF Accept, Says, Proceed, books, TypeOK, RowsOK, ProcOK
  <2>2. ~doc[d].allowed /\ ~doc[d].processed /\ status[d] # "failed" /\ ~proc[d].inst.allowed
    BY <1>4, <2>1 DEF Unmarked, ProcCalm, Free
  <2>3. OrderCalm(d)' /\ handed[d] = 0
    BY <1>5, <2>1, <2>2 DEF Statuses
  <2>4. proc'[d].pc = "marking" /\ proc'[d].inst = proc[d].inst
    BY <1>1, <2>1 DEF ProcStates
  <2>5. ProcCalm(d)'
    BY <1>2, <2>1, <2>2, <2>4 DEF ProcCalm, Free
  <2>6. Phase(d)' = Phase(d)
    BY <1>2, <2>1, <2>2, <2>3 DEF Phase
  <2>7. QED
    BY <2>3, <2>5, <2>6 DEF Moved
<1>10. CASE MarkProcessed(d)
  <2> DEFINE row == [doc[d] EXCEPT !.processed = TRUE]
  <2>1. doc[d] = proc[d].inst
    BY <1>1, <1>10 DEF MarkProcessed, SaveOver, Disturb, TypeOK, BooksOK
  <2>2. /\ proc[d].pc = "marking" /\ doc'[d] = row /\ status' = status
        /\ proc'[d] = [pc |-> IF EWallet(d) THEN "recording" ELSE "notifying", inst |-> row]
    BY <1>1, <1>10, <2>1 DEF MarkProcessed, SaveOver, Proceed, TypeOK, RowsOK, ProcOK
  <2>3. ~doc[d].allowed /\ ~doc[d].processed /\ status[d] # "failed"
    BY <1>4, <2>2 DEF Unmarked, ProcCalm
  <2>4. /\ row.processed /\ ~row.allowed /\ row.disbursed = doc[d].disbursed /\ row.gone = doc[d].gone
        /\ row.kind = doc[d].kind
    BY <1>1, <2>3 DEF DocRows
  <2>5. EWallet(d) = (row.kind = "e_wallet")
    BY <2>1, <2>4 DEF EWallet
  <2> HIDE DEF row
  <2>6. OrderCalm(d)' /\ handed[d] = 0
    <3>1. status[d] \in Statuses
      BY <1>1 DEF TypeOK, RowsOK
    <3>2. QED
      BY <1>1, <1>4, <1>5, <2>2, <2>3, <2>4, <3>1, NotAllowedIdle DEF Statuses
  <2>7. ~Unmarked(d)' /\ proc'[d].pc # "failing"
    BY <2>2, <2>5 DEF Unmarked, EWallet
  <2>8. ProcCalm(d)'
    BY <1>2, <2>2, <2>4, <2>7 DEF ProcCalm
  <2>9. Moved(d)
    <3>1. proc[d].inst.kind # "none"
      BY <1>1, <2>2 DEF RowInv, Free
    <3>2. CASE doc[d].gone
      BY <1>2, <1>3, <2>2, <2>4, <2>6, <3>2 DEF Phase, Moved
    <3>3. CASE ~doc[d].gone
      <4>1. Phase(d) = "uploaded" /\ Phase(d)' = "processed"
        BY <1>2, <1>3, <2>1, <2>2, <2>3, <2>4, <2>6, <3>1, <3>3 DEF Phase
      <4>2. QED
        BY <4>1 DEF Moved, Moves
    <3>4. QED
      BY <3>2, <3>3
  <2>10. QED
    BY <2>6, <2>8, <2>9
<1>11. CASE RecordWallets(d) \/ RecordBank(d) \/ Notify(d)
  <2>1. doc' = doc /\ disturbed' = disturbed /\ status' = status
    BY <1>11 DEF RecordWallets, RecordBank, Notify, books
  <2>2. /\ proc'[d].pc = "done" \/ proc'[d].inst = proc[d].inst
        /\ Unmarked(d)' => Unmarked(d)
        /\ proc'[d].pc \notin Free => proc[d].pc \notin Free
        /\ proc'[d].pc # "failing"
    <3>1. CASE RecordWallets(d)
      BY <1>1, <3>1 DEF RecordWallets, Proceed, Unmarked, EWallet, Free, TypeOK, ProcOK, ProcStates
    <3>2. CASE RecordBank(d)
      BY <1>1, <3>2 DEF RecordBank, Proceed, Unmarked, EWallet, Free, TypeOK, ProcOK, ProcStates
    <3>3. CASE Notify(d)
      BY <1>1, <3>3 DEF Notify, Proceed, NoProc, Unmarked, Free, TypeOK, ProcOK
    <3>4. QED
      BY <1>11, <3>1, <3>2, <3>3
  <2>3. ProcCalm(d)'
    BY <1>2, <1>4, <2>1, <2>2 DEF ProcCalm, Free
  <2>4. OrderCalm(d)'
    BY <1>2, <1>4, <2>1, SameCalm
  <2>5. QED
    BY <1>2, <2>1, <2>3, <2>4, SamePhase DEF Moved
<1>12. CASE SaveAgain(d)
  <2>1. doc[d] = proc[d].inst
    BY <1>1, <1>12 DEF SaveAgain, SaveOver, Disturb, TypeOK, BooksOK
  <2>2. /\ proc[d].pc = "saving" /\ doc'[d] = doc[d] /\ status' = status
        /\ proc'[d] = [proc[d] EXCEPT !.pc = "notifying"]
    BY <1>1, <1>12, <2>1 DEF SaveAgain, SaveOver, Proceed, TypeOK, RowsOK, ProcOK
  <2>3. proc'[d].pc = "notifying" /\ proc'[d].inst = proc[d].inst
    BY <1>1, <2>2 DEF ProcStates
  <2>4. ProcCalm(d)'
    BY <1>2, <1>4, <2>2, <2>3 DEF ProcCalm, Unmarked, Free
  <2>5. OrderCalm(d)'
    BY <1>2, <1>4, <2>2, SameCalm
  <2>6. QED
    BY <1>2, <1>3, <2>2, <2>4, <2>5 DEF Moved, Phase
<1>13. CASE Refuse(d)
  <2>1. /\ proc[d].pc \in {"validating", "marking", "recording", "accepting", "saving", "notifying"}
        /\ doc' = doc /\ status'[d] = "failed" /\ status[d] # "disbursed"
        /\ proc'[d] = [proc[d] EXCEPT !.pc = "failing"]
    BY <1>1, <1>13 DEF Refuse, Says, Disturb, Proceed, TypeOK, RowsOK, ProcOK, BooksOK
  <2>2. proc'[d].pc = "failing" /\ proc'[d].inst = proc[d].inst
    BY <1>1, <2>1 DEF ProcStates
  <2>3. ProcCalm(d)'
    BY <1>2, <1>4, <2>1, <2>2 DEF ProcCalm, Unmarked, Free
  <2>4. handed[d] # 1 \/ \E k \in Orders : Marking(k, d)
    BY <1>2, <1>4, <2>1 DEF OrderCalm
  <2>5. \A k \in Orders : ~(Marking(k, d) /\ order[k].pc = "marking")
    BY <1>2, <1>4, <2>1 DEF OrderCalm
  <2>6. OrderCalm(d)'
    BY <1>2, <1>4, <2>1, <2>4, <2>5 DEF OrderCalm, Posting, Marking, InHand
  <2>7. Moved(d)
    <3>1. CASE handed[d] > 0 \/ doc[d].gone \/ doc[d].allowed
      BY <1>2, <1>3, <2>1, <3>1 DEF Moved, Phase
    <3>2. CASE ~(handed[d] > 0) /\ ~doc[d].gone /\ ~doc[d].allowed /\ ~doc[d].processed
      <4>1. doc[d].kind # "none"
        BY <1>1, <2>1 DEF RowInv, HasRow
      <4>2. Phase(d) \in {"uploaded", "refused"} /\ Phase(d)' = "refused"
        BY <1>2, <1>3, <2>1, <3>2, <4>1 DEF Phase
      <4>3. QED
        BY <4>2 DEF Moved, Moves
    <3>3. CASE ~(handed[d] > 0) /\ ~doc[d].gone /\ ~doc[d].allowed /\ doc[d].processed
      BY <1>2, <1>3, <2>1, <3>3 DEF Moved, Phase
    <3>4. QED
      BY <3>1, <3>2, <3>3
  <2>8. QED
    BY <2>3, <2>6, <2>7
<1>14. CASE SaveRefused(d)
  <2> DEFINE row == [doc[d] EXCEPT !.processed = FALSE]
  <2>1. doc[d] = proc[d].inst
    BY <1>1, <1>14 DEF SaveRefused, SaveOver, Disturb, TypeOK, BooksOK
  <2>2. /\ proc[d].pc = "failing" /\ doc'[d] = row /\ status' = status
        /\ proc'[d] = [NoProc EXCEPT !.pc = "done"]
    BY <1>1, <1>14, <2>1 DEF SaveRefused, SaveOver, Proceed, TypeOK, RowsOK, ProcOK
  <2>3. /\ ~row.processed /\ row.allowed = doc[d].allowed /\ row.disbursed = doc[d].disbursed
        /\ row.gone = doc[d].gone /\ row.kind = doc[d].kind
    BY <1>1 DEF DocRows
  <2> HIDE DEF row
  <2>4. proc'[d].pc = "done"
    BY <2>2 DEF NoProc
  <2>5. ProcCalm(d)'
    BY <1>2, <2>4 DEF ProcCalm, Unmarked, Free
  <2>6. OrderCalm(d)'
    BY <1>2, <1>4, <2>2, <2>3, SameCalm
  <2>7. Moved(d)
    <3>1. status[d] = "failed" \/ handed[d] > 0
      BY <1>4, <2>2 DEF ProcCalm
    <3>2. CASE handed[d] > 0 \/ doc[d].gone \/ doc[d].allowed \/ ~doc[d].processed
      BY <1>2, <1>3, <2>2, <2>3, <3>2 DEF Moved, Phase
    <3>3. CASE ~(handed[d] > 0) /\ ~doc[d].gone /\ ~doc[d].allowed /\ doc[d].processed
      <4>1. Phase(d) = "processed" /\ Phase(d)' = "refused"
        BY <1>2, <1>3, <2>2, <2>3, <3>1, <3>3 DEF Phase
      <4>2. QED
        BY <4>1 DEF Moved, Moves
    <3>4. QED
      BY <3>2, <3>3
  <2>8. QED
    BY <2>5, <2>6, <2>7
<1>15. CASE ProcDies(d)
  <2>1. doc' = doc /\ status' = status /\ proc'[d] = [NoProc EXCEPT !.pc = "done"]
    BY <1>1, <1>15 DEF ProcDies, Proceed, TypeOK, ProcOK
  <2>2. proc'[d].pc = "done"
    BY <2>1 DEF NoProc
  <2>3. ProcCalm(d)'
    BY <1>2, <2>2 DEF ProcCalm, Unmarked, Free
  <2>4. OrderCalm(d)'
    BY <1>2, <1>4, <2>1, SameCalm
  <2>5. QED
    BY <1>2, <1>3, <2>1, <2>3, <2>4 DEF Moved, Phase
<1>16. QED
  BY <1>6, <1>7, <1>8, <1>9, <1>10, <1>11, <1>12, <1>13, <1>14, <1>15 DEF Process

\* A processor that stands still: its part of a document's calm.
LEMMA StillCalm ==
  ASSUME NEW d \in Docs, ProcCalm(d), proc'[d] = proc[d],
         Unmarked(d) => doc'[d].processed = doc[d].processed /\ doc'[d].allowed = doc[d].allowed,
         status'[d] = status[d] \/ (status'[d] # "failed" /\ (proc[d].pc = "failing" => handed'[d] > 0)),
         proc[d].pc = "failing" /\ handed[d] > 0 => handed'[d] > 0,
         d \in Copies /\ HasRow(d)' => doc'[d].allowed
  PROVE  ProcCalm(d)'
<1>1. Unmarked(d)' = Unmarked(d)
  BY DEF Unmarked, EWallet
<1>2. QED
  BY <1>1 DEF ProcCalm

LEMMA EditCalm ==
  ASSUME Inv, NEW e \in Edits, SaveEdit(e), NEW d \in Docs, d = edit[e].doc, ~disturbed'[d]
  PROVE  ProcCalm(d)' /\ OrderCalm(d)' /\ Moved(d)
<1> DEFINE kind == edit[e].kind
           row  == Edited(kind, doc[d])
<1>1. TypeOK /\ doc[d] \in DocRows /\ edit[e] \in EditStates /\ EditInv(e)
  BY DEF Inv, HeldInv, TypeOK, EditOK, RowsOK
<1>2. doc[d] = edit[e].inst /\ ~disturbed[d]
  BY <1>1 DEF SaveEdit, SaveOver, Disturb, TypeOK, BooksOK
<1>3. doc'[d] = row /\ UNCHANGED <<status, proc, order, handed>>
  BY <1>1, <1>2 DEF SaveEdit, SaveOver, TypeOK, RowsOK
<1>4. Admits(kind, doc[d]) /\ HasRow(d)
  BY <1>1, <1>2 DEF SaveEdit, EditInv
<1>5. /\ row.kind = doc[d].kind /\ row.processed = doc[d].processed /\ row.disbursed = doc[d].disbursed
      /\ row.allowed = (doc[d].allowed \/ kind = "allow") /\ row.gone = (doc[d].gone \/ kind = "delete")
  BY <1>1 DEF Edited, DocRows
<1>6. kind \in EditKinds
  BY <1>1 DEF EditStates
<1>7. ProcCalm(d) /\ OrderCalm(d)
  BY <1>2 DEF Inv, CalmInv
<1> HIDE DEF row, kind
<1>8. CASE kind = "allow"
  <2>1. doc[d].processed /\ ~doc[d].allowed
    BY <1>4, <1>8 DEF Admits
  <2>2. /\ handed[d] = 0 /\ ~doc[d].disbursed /\ \A k \in Orders : ~InHand(k, d)
        /\ d \notin Copies => status[d] # "disbursed"
    BY <1>1, <1>7, <2>1, NotAllowedIdle
  <2>3. OrderCalm(d)'
    BY <1>3, <1>5, <2>2, IdleCalm DEF InHand
  <2>4. ~Unmarked(d)
    BY <1>7, <2>1 DEF ProcCalm
  <2>5. ProcCalm(d)'
    <3>1. doc'[d].allowed
      BY <1>3, <1>5, <1>8, <1>1 DEF DocRows
    <3>2. QED
      BY <1>3, <1>7, <2>4, <3>1, StillCalm
  <2>6. Moved(d)
    <3>1. CASE doc[d].gone
      BY <1>2, <1>3, <1>5, <1>8, <2>2, <3>1 DEF Moved, Phase
    <3>2. CASE ~doc[d].gone
      <4>0. doc'[d].allowed /\ ~doc'[d].gone
        BY <1>3, <1>5, <1>8, <3>2
      <4>1. Phase(d) = "processed" /\ Phase(d)' = "allowed"
        BY <1>2, <1>3, <2>1, <2>2, <3>2, <4>0 DEF Phase
      <4>2. QED
        BY <4>1 DEF Moved, Moves
    <3>3. QED
      BY <3>1, <3>2
  <2>7. QED
    BY <2>3, <2>5, <2>6
<1>9. CASE kind # "allow"
  <2>1. row.allowed = doc[d].allowed
    BY <1>1, <1>5, <1>9 DEF DocRows
  <2>2. ProcCalm(d)'
    BY <1>3, <1>5, <1>7, <2>1, StillCalm DEF ProcCalm, HasRow
  <2>3. CASE row.gone = doc[d].gone
    <3>1. OrderCalm(d)'
      BY <1>3, <1>5, <1>7, <2>1, <2>3, SameCalm
    <3>2. QED
      BY <1>2, <1>3, <1>5, <2>1, <2>2, <2>3, <3>1 DEF Moved, Phase
  <2>4. CASE kind = "delete" /\ ~doc[d].gone
    <3>1. ~doc[d].disbursed
      BY <1>4, <2>4 DEF Admits
    <3>2. \A k \in Orders : InHand(k, d)' = InHand(k, d) /\ Marking(k, d)' = Marking(k, d)
                            /\ Posting(k, d)' = Posting(k, d)
      BY <1>3 DEF InHand, Marking, Posting
    <3>3. handed[d] # 1 \/ \E k \in Orders : Marking(k, d)
      BY <1>7, <3>1 DEF OrderCalm
    <3>4. OrderCalm(d)'
      BY <1>3, <1>5, <1>7, <2>1, <3>1, <3>2, <3>3 DEF OrderCalm
    <3>5. Moved(d)
      <4>1. CASE handed[d] > 0
        BY <1>2, <1>3, <4>1 DEF Moved, Phase
      <4>2. CASE ~(handed[d] > 0)
        <5>1. Phase(d)' = "deleted"
          BY <1>2, <1>3, <1>5, <2>4, <4>2 DEF Phase
        <5>2. Phase(d) \in {"uploaded", "refused", "processed", "allowed"}
          BY <1>2, <1>4, <2>4, <4>2 DEF Phase, HasRow
        <5>3. QED
          BY <5>1, <5>2 DEF Moved, Moves
      <4>3. QED
        BY <4>1, <4>2
    <3>6. QED
      BY <2>2, <3>4, <3>5
  <2>5. QED
    BY <1>1, <1>5, <1>6, <1>9, <2>3, <2>4 DEF DocRows
<1>10. QED
  BY <1>8, <1>9

\* The one disbursal that is at a document has handed it over.
LEMMA MarkedCalm ==
  ASSUME NEW d \in Docs, NEW k \in Orders, handed'[d] = 1, doc'[d].allowed, Marking(k, d)', ~Posting(k, d)',
         \A o \in Orders \ {k} : ~InHand(o, d)' /\ ~Posting(o, d)' /\ ~Marking(o, d)',
         order'[k].pc = "marking" /\ d \notin Copies => status'[d] = "disbursed"
  PROVE  OrderCalm(d)'
<1>1. \A j, o \in Orders : InHand(j, d)' /\ InHand(o, d)' => j = o
  OBVIOUS
<1>2. \A o \in Orders : ~Posting(o, d)'
  OBVIOUS
<1>3. \A o \in Orders : Marking(o, d)' => o = k
  OBVIOUS
<1>4. QED
  BY <1>1, <1>2, <1>3 DEF OrderCalm

\* Nobody is at a document that reads as disbursed any more.
LEMMA DoneCalm ==
  ASSUME NEW d \in Docs, handed'[d] = 1, doc'[d].allowed, doc'[d].disbursed, ~doc'[d].gone,
         d \notin Copies => status'[d] = "disbursed",
         \A o \in Orders : ~InHand(o, d)' /\ ~Posting(o, d)' /\ ~Marking(o, d)'
  PROVE  OrderCalm(d)'
<1>1. handed'[d] <= 1
  OBVIOUS
<1>2. QED
  BY <1>1 DEF OrderCalm

LEMMA DisbursalCalm ==
  ASSUME Inv, NEW k \in Orders, Disbursal(k), NEW d \in Docs, d = order'[k].doc, ~disturbed'[d]
  PROVE  ProcCalm(d)' /\ OrderCalm(d)' /\ Moved(d)
<1>1. TypeOK /\ doc[d] \in DocRows /\ order[k] \in OrderStates /\ OrderInv(k) /\ handed[d] \in Nat
  BY DEF Inv, HeldInv, TypeOK, OrderOK, RowsOK, BooksOK
<1>2. proc' = proc /\ \A o \in Orders \ {k} : order'[o] = order[o]
  BY OrderFrame DEF Inv
<1>3. \A o \in Orders \ {k} : /\ Posting(o, d)' <=> Posting(o, d)
                              /\ Marking(o, d)' <=> Marking(o, d)
                              /\ InHand(o, d)' <=> InHand(o, d)
                              /\ order'[o].pc = order[o].pc
  BY <1>2 DEF Posting, Marking, InHand
<1>4. CASE \E c \in Checkers, x \in Docs : Check(k, c, x)
  <2>1. PICK c \in Checkers, x \in Docs : Check(k, c, x)
    BY <1>4
  <2>2. order'[k] = [NoOrder EXCEPT !.pc = "posting", !.doc = x]
    BY <1>1, <2>1 DEF Check, Ordered, TypeOK, OrderOK
  <2>3. order'[k].pc = "posting" /\ d = x
    BY <2>2 DEF NoOrder
  <2>4. doc' = doc /\ status' = status /\ handed' = handed /\ doc[d].allowed /\ ~doc[d].disbursed
    BY <2>1, <2>3 DEF Check, CanDisburse
  <2>5. ~disturbed[d] /\ \A o \in Orders : ~InHand(o, d)
    BY <1>1, <2>1, <2>3 DEF Check, Disturb, TypeOK, BooksOK
  <2>6. ProcCalm(d) /\ OrderCalm(d)
    BY <2>5 DEF Inv, CalmInv
  <2>7. \A o \in Orders : ~Marking(o, d) /\ ~Posting(o, d)
    BY <2>5 DEF Marking, Posting, InHand
  <2>8. handed[d] = 0
    BY <1>1, <2>4, <2>6, <2>7 DEF OrderCalm
  <2>9. ~Marking(k, d)'
    BY <2>3 DEF Marking
  <2>10. (\A o \in Orders : ~Marking(o, d)') /\ \A o \in Orders \ {k} : ~InHand(o, d)'
    BY <1>3, <2>5, <2>7, <2>9
  <2>11. OrderCalm(d)'
    BY <2>4, <2>6, <2>8, <2>10 DEF OrderCalm
  <2>12. ProcCalm(d)'
    BY <1>2, <2>4, <2>6, StillCalm
  <2>13. Phase(d)' = Phase(d)
    BY <2>4, <2>5 DEF Phase
  <2>14. QED
    BY <2>11, <2>12, <2>13 DEF Moved
<1>5. ASSUME LoadOrder(k) \/ Hand(k) \/ MarkStatus(k) \/ MarkDoc(k) \/ OrderDies(k)
      PROVE  order[k].doc = d /\ ~disturbed[d]
  <2>1. CASE LoadOrder(k)
    <3>1. \/ order'[k] = [order[k] EXCEPT !.pc = "loaded", !.inst = doc[order[k].doc]]
          \/ order'[k] = [order[k] EXCEPT !.pc = "done"]
      BY <1>1, <2>1 DEF LoadOrder, Ordered, TypeOK, OrderOK
    <3>2. order[k].doc = d
      BY <1>1, <3>1 DEF OrderStates
    <3>3. QED
      BY <2>1, <3>2 DEF LoadOrder, books
  <2>2. CASE Hand(k) \/ MarkStatus(k)
    <3>1. \/ order'[k] = [order[k] EXCEPT !.pc = "queued"]
          \/ order'[k] = [order[k] EXCEPT !.pc = "marking"]
      BY <1>1, <2>2 DEF Hand, MarkStatus, Ordered, TypeOK, OrderOK
    <3>2. order[k].doc = d
      BY <1>1, <3>1 DEF OrderStates
    <3>3. QED
      BY <1>1, <2>2, <3>2 DEF Hand, MarkStatus, Disturb, books, TypeOK, BooksOK
  <2>3. CASE MarkDoc(k) \/ OrderDies(k)
    <3>1. order'[k] = [order[k] EXCEPT !.pc = "done", !.inst = NoRow]
      BY <1>1, <2>3 DEF MarkDoc, OrderDies, Ordered, TypeOK, OrderOK
    <3>2. order[k].doc = d
      BY <1>1, <3>1 DEF OrderStates
    <3>3. QED
      BY <1>1, <2>3, <3>2 DEF MarkDoc, OrderDies, SaveOver, Disturb, TypeOK, BooksOK
  <2>4. QED
    BY <1>5, <2>1, <2>2, <2>3
<1>6. ASSUME ~disturbed[d] PROVE ProcCalm(d) /\ OrderCalm(d)
  BY <1>6 DEF Inv, CalmInv
<1>7. ASSUME order[k].doc = d, ~disturbed[d], doc' = doc, status' = status, handed' = handed,
             order'[k].pc = "loaded" \/ order'[k].pc = "done", order[k].pc \in {"posting", "loaded"}
      PROVE  ProcCalm(d)' /\ OrderCalm(d)' /\ Moved(d)
  <2>1. ProcCalm(d) /\ OrderCalm(d)
    BY <1>6, <1>7
  <2>2. ~Marking(k, d) /\ ~Marking(k, d)' /\ Posting(k, d) /\ InHand(k, d)
    BY <1>7 DEF Marking, Posting, InHand
  <2>3. \A o \in Orders : Marking(o, d)' <=> Marking(o, d)
    BY <1>3, <2>2
  <2>4. \A o \in Orders : (Posting(o, d)' => Posting(o, d)) /\ (InHand(o, d)' => InHand(o, d))
    BY <1>3, <2>2
  <2>5. \A o \in Orders : Marking(o, d)' => order'[o].pc = order[o].pc
    BY <1>3, <2>2
  <2>6. OrderCalm(d)'
    BY <1>7, <2>1, <2>3, <2>4, <2>5 DEF OrderCalm
  <2>7. ProcCalm(d)'
    BY <1>2, <1>7, <2>1, StillCalm DEF ProcCalm, HasRow
  <2>8. Phase(d)' = Phase(d)
    BY <1>7 DEF Phase
  <2>9. QED
    BY <2>6, <2>7, <2>8 DEF Moved
<1>8. CASE LoadOrder(k)
  <2>1. order[k].pc = "posting" /\ doc' = doc /\ status' = status /\ handed' = handed
    BY <1>8 DEF LoadOrder, books
  <2>2. \/ order'[k] = [order[k] EXCEPT !.pc = "loaded", !.inst = doc[order[k].doc]]
        \/ order'[k] = [order[k] EXCEPT !.pc = "done"]
    BY <1>1, <1>8 DEF LoadOrder, Ordered, TypeOK, OrderOK
  <2>3. order'[k].pc = "loaded" \/ order'[k].pc = "done"
    BY <1>1, <2>2 DEF OrderStates
  <2>4. QED
    BY <1>5, <1>7, <1>8, <2>1, <2>3
<1>9. CASE OrderDies(k)
  <2>1. order[k].doc = d /\ ~disturbed[d]
    BY <1>5, <1>9
  <2>2. order[k].pc \in {"posting", "loaded"} /\ doc' = doc /\ status' = status /\ handed' = handed
    BY <1>1, <1>9, <2>1 DEF OrderDies, Disturb, TypeOK, BooksOK
  <2>3. order'[k].pc = "done"
    BY <1>1, <1>9 DEF OrderDies, Ordered, TypeOK, OrderOK, OrderStates
  <2>4. QED
    BY <1>7, <2>1, <2>2, <2>3
<1>10. CASE Hand(k)
  <2>1. order[k].doc = d /\ ~disturbed[d]
    BY <1>5, <1>10
  <2>2. ProcCalm(d) /\ OrderCalm(d)
    BY <1>6, <2>1
  <2>3. /\ order[k].pc = "loaded" /\ doc' = doc /\ status' = status /\ handed'[d] = handed[d] + 1
        /\ order'[k] = [order[k] EXCEPT !.pc = "queued"] /\ doc[d] = order[k].inst
    BY <1>1, <1>10, <2>1 DEF Hand, Ordered, Disturb, TypeOK, OrderOK, BooksOK
  <2>4. order'[k].pc = "queued" /\ order'[k].doc = d /\ ~doc[d].gone
    BY <1>1, <2>1, <2>3 DEF OrderStates, OrderInv
  <2>5. Posting(k, d) /\ InHand(k, d) /\ Marking(k, d)' /\ ~Posting(k, d)'
    BY <2>1, <2>3, <2>4 DEF Posting, InHand, Marking
  <2>6. handed[d] = 0 /\ doc[d].allowed /\ \A o \in Orders \ {k} : ~InHand(o, d)
    BY <2>2, <2>5 DEF OrderCalm
  <2>7. handed'[d] = 1 /\ handed'[d] > 0
    BY <2>3, <2>6
  <2>8. \A o \in Orders \ {k} : ~InHand(o, d)' /\ ~Posting(o, d)' /\ ~Marking(o, d)'
    <3>1. \A o \in Orders \ {k} : ~Posting(o, d) /\ ~Marking(o, d)
      BY <2>6 DEF InHand, Posting, Marking
    <3>2. QED
      BY <1>3, <2>6, <3>1
  <2>9. OrderCalm(d)'
    BY <2>3, <2>4, <2>5, <2>6, <2>7, <2>8, MarkedCalm
  <2>10. ProcCalm(d)'
    BY <1>2, <2>2, <2>3, <2>7, StillCalm DEF ProcCalm, HasRow
  <2>11. Phase(d) = "allowed" /\ Phase(d)' = "handed"
    BY <2>1, <2>3, <2>4, <2>6, <2>7 DEF Phase
  <2>12. QED
    BY <2>9, <2>10, <2>11 DEF Moved, Moves
<1>11. CASE MarkStatus(k)
  <2>1. order[k].doc = d /\ ~disturbed[d]
    BY <1>5, <1>11
  <2>2. ProcCalm(d) /\ OrderCalm(d)
    BY <1>6, <2>1
  <2>3. /\ order[k].pc = "queued" /\ doc' = doc /\ handed' = handed /\ status'[d] = "disbursed"
        /\ order'[k] = [order[k] EXCEPT !.pc = "marking"]
    BY <1>1, <1>11, <2>1 DEF MarkStatus, Says, Ordered, books, TypeOK, OrderOK, RowsOK
  <2>4. order'[k].pc = "marking" /\ order'[k].doc = d
    BY <1>1, <2>1, <2>3 DEF OrderStates
  <2>5. Marking(k, d) /\ InHand(k, d) /\ Marking(k, d)' /\ ~Posting(k, d)'
    BY <2>1, <2>3, <2>4 DEF Posting, InHand, Marking
  <2>6. handed[d] = 1 /\ doc[d].allowed /\ \A o \in Orders \ {k} : ~InHand(o, d)
    BY <2>2, <2>5 DEF OrderCalm
  <2>7. \A o \in Orders \ {k} : ~InHand(o, d)' /\ ~Posting(o, d)' /\ ~Marking(o, d)'
    <3>1. \A o \in Orders \ {k} : ~Posting(o, d) /\ ~Marking(o, d)
      BY <2>6 DEF InHand, Posting, Marking
    <3>2. QED
      BY <1>3, <2>6, <3>1
  <2>8. OrderCalm(d)'
    BY <2>3, <2>4, <2>5, <2>6, <2>7, MarkedCalm
  <2>9. ProcCalm(d)'
    BY <1>2, <2>2, <2>3, <2>6, StillCalm DEF ProcCalm, HasRow
  <2>10. Phase(d)' = Phase(d)
    BY <1>11, <2>1, <2>3, <2>6 DEF Phase, MarkStatus, books
  <2>11. QED
    BY <2>8, <2>9, <2>10 DEF Moved
<1>12. CASE MarkDoc(k)
  <2> DEFINE row == [doc[d] EXCEPT !.disbursed = TRUE]
  <2>1. order[k].doc = d /\ ~disturbed[d]
    BY <1>5, <1>12
  <2>2. ProcCalm(d) /\ OrderCalm(d)
    BY <1>6, <2>1
  <2>3. doc[d] = order[k].inst
    BY <1>1, <1>12, <2>1 DEF MarkDoc, SaveOver, Disturb, TypeOK, BooksOK
  <2>4. /\ order[k].pc = "marking" /\ doc'[d] = row /\ handed' = handed /\ status' = status
        /\ order'[k] = [order[k] EXCEPT !.pc = "done", !.inst = NoRow]
    BY <1>1, <1>12, <2>1, <2>3 DEF MarkDoc, SaveOver, Ordered, TypeOK, OrderOK, RowsOK
  <2>5. /\ row.disbursed /\ row.processed = doc[d].processed /\ row.allowed = doc[d].allowed
        /\ row.gone = doc[d].gone /\ row.kind = doc[d].kind
    BY <1>1 DEF DocRows
  <2> HIDE DEF row
  <2>6. order'[k].pc = "done" /\ ~doc[d].gone
    BY <1>1, <2>3, <2>4 DEF OrderStates, OrderInv
  <2>7. Marking(k, d) /\ InHand(k, d) /\ ~InHand(k, d)' /\ ~Marking(k, d)' /\ ~Posting(k, d)'
    BY <2>1, <2>4, <2>6 DEF Posting, InHand, Marking
  <2>8. /\ handed[d] = 1 /\ doc[d].allowed /\ \A o \in Orders \ {k} : ~InHand(o, d)
        /\ d \notin Copies => status[d] = "disbursed"
    BY <2>2, <2>4, <2>7 DEF OrderCalm
  <2>9. \A o \in Orders : ~InHand(o, d)' /\ ~Posting(o, d)' /\ ~Marking(o, d)'
    <3>1. \A o \in Orders \ {k} : ~Posting(o, d) /\ ~Marking(o, d)
      BY <2>8 DEF InHand, Posting, Marking
    <3>2. QED
      BY <1>3, <2>7, <2>8, <3>1
  <2>10. OrderCalm(d)'
    BY <2>4, <2>5, <2>6, <2>8, <2>9, DoneCalm
  <2>11. ProcCalm(d)'
    BY <1>2, <2>2, <2>4, <2>5, <2>8, StillCalm
  <2>12. Phase(d)' = Phase(d)
    BY <2>1, <2>4, <2>8 DEF Phase
  <2>13. QED
    BY <2>10, <2>11, <2>12 DEF Moved
<1>13. QED
  BY <1>4, <1>8, <1>9, <1>10, <1>11, <1>12 DEF Disbursal

\* A document that is left alone stays calm, in the phase it is in.
LEMMA AloneCalm ==
  ASSUME Inv, NEW d \in Docs, Alone(d), ~disturbed'[d],
         \A o \in Orders : order'[o] = order[o] \/ (~InHand(o, d) /\ ~InHand(o, d)')
  PROVE  ProcCalm(d)' /\ OrderCalm(d)'
<1>1. ProcCalm(d) /\ OrderCalm(d)
  BY DEF Alone, Inv, CalmInv
<1>2. \A o \in Orders : /\ InHand(o, d)' <=> InHand(o, d)
                        /\ Posting(o, d)' <=> Posting(o, d)
                        /\ Marking(o, d)' <=> Marking(o, d)
                        /\ Marking(o, d) => order'[o].pc = order[o].pc
  BY DEF InHand, Posting, Marking
<1>3. OrderCalm(d)'
  BY <1>1, <1>2 DEF Alone, OrderCalm
<1>4. ProcCalm(d)'
  BY <1>1, StillCalm DEF Alone, ProcCalm, HasRow
<1>5. QED
  BY <1>3, <1>4

LEMMA JobCalm ==
  ASSUME Inv, Job, NEW d \in Docs, ~disturbed'[d]
  PROVE  ProcCalm(d)' /\ OrderCalm(d)' /\ Moved(d)
<1>1. TypeOK /\ RowInv(d) /\ JobInv /\ job \in JobStates /\ doc[d] \in DocRows
  BY DEF Inv, HeldInv, TypeOK, JobOK, RowsOK
<1>2. UNCHANGED <<proc, edit, review, order, handed>>
  BY JobFrame DEF Inv
<1>3. ASSUME Alone(d) PROVE ProcCalm(d)' /\ OrderCalm(d)' /\ Moved(d)
  BY <1>2, <1>3, AloneCalm, SamePhase DEF Alone, Moved
<1>4. ASSUME NEW x \in Docs, Select(x) PROVE ProcCalm(d)' /\ OrderCalm(d)' /\ Moved(d)
  BY <1>2, <1>3, <1>4 DEF Select, Alone, books
<1>5. ASSUME NEW n \in Docs, CopyDoc(n) PROVE ProcCalm(d)' /\ OrderCalm(d)' /\ Moved(d)
  <2> DEFINE row == [job.inst EXCEPT !.processed = TRUE, !.allowed = TRUE, !.disbursed = FALSE, !.recurring = FALSE]
  <2>1. /\ n \in Copies /\ job.pc = "copying" /\ doc[n].kind = "none" /\ doc' = [doc EXCEPT ![n] = row]
        /\ UNCHANGED <<status, disturbed>>
    BY <1>5 DEF CopyDoc, books
  <2>2. row.allowed /\ ~row.disbursed /\ ~row.gone
    BY <1>1, <2>1 DEF JobInv, JobStates, DocRows
  <2> HIDE DEF row
  <2>3. CASE d # n
    BY <1>1, <1>2, <1>3, <2>1, <2>3 DEF Alone, TypeOK, RowsOK
  <2>4. CASE d = n
    <3>1. doc'[d] = row
      BY <1>1, <2>1, <2>4 DEF TypeOK, RowsOK
    <3>2. /\ doc[d] = NoRow /\ status[d] = "none" /\ handed[d] = 0 /\ proc[d].pc = "none"
          /\ \A k \in Orders : ~InHand(k, d)
      BY <1>1, <2>1, <2>4 DEF RowInv, HasRow, Inv, HeldInv, OrderInv, InHand
    <3>3. OrderCalm(d)'
      BY <1>2, <2>1, <2>2, <3>1, <3>2, IdleCalm DEF InHand
    <3>4. ProcCalm(d)'
      BY <1>2, <2>2, <3>1, <3>2 DEF ProcCalm, Unmarked, Free
    <3>5. Phase(d) = "none" /\ Phase(d)' = "allowed"
      BY <1>2, <2>1, <2>2, <3>1, <3>2 DEF Phase, NoRow
    <3>6. QED
      BY <3>3, <3>4, <3>5 DEF Moved, Moves
  <2>5. QED
    BY <2>3, <2>4
<1>6. CASE CopyRecords
  <2>1. /\ job.pc = "recording" /\ doc' = doc /\ disturbed' = disturbed
        /\ status' = [status EXCEPT ![job.copy] = status[job.doc]]
    BY <1>6 DEF CopyRecords, Says, books
  <2>2. job.copy \in Copies /\ HasRow(job.copy)
    BY <1>1, <2>1 DEF JobInv
  <2>3. CASE d # job.copy
    BY <1>1, <1>2, <1>3, <2>1, <2>3 DEF Alone, TypeOK, RowsOK
  <2>4. CASE d = job.copy
    <3>1. ProcCalm(d) /\ OrderCalm(d)
      BY <2>1 DEF Inv, CalmInv
    <3>2. d \in Copies /\ proc[d].pc = "none" /\ doc[d].allowed
      BY <1>1, <2>2, <2>4, <3>1 DEF RowInv, ProcCalm
    <3>3. OrderCalm(d)'
      BY <1>2, <2>1, <3>1, <3>2, SameCalm
    <3>4. ProcCalm(d)'
      BY <1>2, <2>1, <3>2 DEF ProcCalm, Unmarked, Free
    <3>5. Phase(d)' = Phase(d)
      BY <1>2, <2>1, <3>2 DEF Phase
    <3>6. QED
      BY <3>3, <3>4, <3>5 DEF Moved
  <2>5. QED
    BY <2>3, <2>4
<1>7. CASE SaveSource
  <2>1. SaveOver(job.doc, job.inst, job.inst) /\ status' = status
    BY <1>7 DEF SaveSource
  <2>2. CASE d # job.doc
    BY <1>1, <1>2, <1>3, <2>1, <2>2 DEF SaveOver, Disturb, Alone, TypeOK, RowsOK, BooksOK
  <2>3. CASE d = job.doc
    <3>1. doc[d] = job.inst /\ ~disturbed[d]
      BY <1>1, <2>1, <2>3 DEF SaveOver, Disturb, TypeOK, BooksOK
    <3>2. doc'[d] = doc[d]
      BY <1>1, <2>1, <2>3, <3>1 DEF SaveOver, TypeOK, RowsOK
    <3>3. disturbed'[d] = disturbed[d]
      BY <1>1, <2>1, <2>3, <3>1 DEF SaveOver, Disturb, TypeOK, BooksOK
    <3>4. QED
      BY <1>2, <1>3, <2>1, <3>2, <3>3 DEF Alone
  <2>4. QED
    BY <2>2, <2>3
<1>8. CASE JobDies
  <2>1. doc' = doc /\ status' = status /\ disturbed'[d] = (disturbed[d] \/ (job.pc = "recording" /\ d = job.copy))
    BY <1>8 DEF JobDies
  <2>2. disturbed'[d] = disturbed[d]
    BY <1>1, <2>1 DEF TypeOK, BooksOK
  <2>3. QED
    BY <1>2, <1>3, <2>1, <2>2 DEF Alone
<1>9. QED
  BY <1>4, <1>5, <1>6, <1>7, <1>8 DEF Job

-----------------------------------------------------------------------------
(* Every step is a move of one document, or none *)

phases == [d \in Docs |-> Phase(d)]

\* Once disturbed a document has no other phase; what is disturbed is there.
LEMMA DisturbedMoves ==
  ASSUME Inv, NEW d \in Docs, disturbed'[d], HasRow(d)
  PROVE  Phase(d)' = "disturbed" /\ Phase(d) \in Lifecycle!Phases \ {"none"}
<1>1. Phase(d)' = "disturbed"
  BY DEF Phase
<1>2. CASE disturbed[d]
  BY <1>1, <1>2 DEF Phase, Lifecycle!Phases
<1>3. CASE ~disturbed[d]
  <2>1. handed[d] \in Nat /\ handed[d] <= 1
    BY <1>3 DEF Inv, CalmInv, OrderCalm, TypeOK, BooksOK
  <2>2. handed[d] > 0 => handed[d] = 1
    BY <2>1
  <2>3. QED
    BY <1>1, <1>3, <2>2 DEF Phase, HasRow, Lifecycle!Phases
<1>4. QED
  BY <1>2, <1>3

LEMMA OneMoves ==
  ASSUME Inv, NEW d \in Docs,
         \A x \in Docs \ {d} : Phase(x)' = Phase(x),
         ~disturbed'[d] => Moved(d),
         disturbed'[d] => HasRow(d)
  PROVE  [Lifecycle!Next]_phases
<1>1. phases[d] = Phase(d) /\ phases' = [phases EXCEPT ![d] = Phase(d)']
  BY DEF phases
<1>2. CASE Phase(d)' = Phase(d)
  BY <1>1, <1>2 DEF phases
<1>3. CASE disturbed'[d]
  <2>1. Lifecycle!Disturb(d)
    BY <1>1, <1>3, DisturbedMoves DEF Lifecycle!Disturb, Lifecycle!Move, phases
  <2>2. QED
    BY <2>1 DEF Lifecycle!Next
<1>4. CASE <<Phase(d), Phase(d)'>> \in Moves
  <2>1. \/ Lifecycle!Upload(d) \/ Lifecycle!Copy(d) \/ Lifecycle!Process(d) \/ Lifecycle!Refuse(d)
        \/ Lifecycle!Allow(d) \/ Lifecycle!Hand(d) \/ Lifecycle!Delete(d)
    BY <1>1, <1>4 DEF Moves, phases, Lifecycle!Move, Lifecycle!Upload, Lifecycle!Copy, Lifecycle!Process,
       Lifecycle!Refuse, Lifecycle!Allow, Lifecycle!Hand, Lifecycle!Delete
  <2>2. QED
    BY <2>1 DEF Lifecycle!Next
<1>5. QED
  BY <1>2, <1>3, <1>4 DEF Moved

\* One document is at work; the others are left alone.
LEMMA CalmMoves ==
  ASSUME Inv, NEW d \in Docs,
         \A x \in Docs \ {d} : /\ Alone(x)
                               /\ \A o \in Orders : order'[o] = order[o] \/ (~InHand(o, x) /\ ~InHand(o, x)'),
         ~disturbed'[d] => ProcCalm(d)' /\ OrderCalm(d)' /\ Moved(d),
         disturbed'[d] => HasRow(d)
  PROVE  CalmInv' /\ [Lifecycle!Next]_phases
<1>1. ASSUME NEW x \in Docs \ {d} PROVE /\ ~disturbed'[x] => ProcCalm(x)' /\ OrderCalm(x)'
                                        /\ Phase(x)' = Phase(x)
  BY <1>1, AloneCalm, SamePhase DEF Alone
<1>2. CalmInv'
  BY <1>1 DEF CalmInv
<1>3. QED
  BY <1>1, <1>2, OneMoves

\* Nobody is at any document.
LEMMA CalmRests ==
  ASSUME Inv, UNCHANGED <<doc, status, proc, order, handed, disturbed>>
  PROVE  CalmInv' /\ [Lifecycle!Next]_phases
<1>1. ASSUME NEW x \in Docs PROVE /\ ~disturbed'[x] => ProcCalm(x)' /\ OrderCalm(x)'
                                  /\ Phase(x)' = Phase(x)
  BY <1>1, AloneCalm, SamePhase DEF Alone
<1>2. phases' = phases
  BY <1>1 DEF phases
<1>3. QED
  BY <1>1, <1>2 DEF CalmInv

LEMMA ContractStep == ASSUME Inv, [Next]_vars PROVE CalmInv' /\ [Lifecycle!Next]_phases
<1>1. ASSUME NEW d \in Docs, Process(d) PROVE CalmInv' /\ [Lifecycle!Next]_phases
  <2>1. order' = order /\ \A x \in Docs \ {d} : Alone(x)
    BY <1>1, ProcessFrame DEF Inv
  <2>2. disturbed'[d] => HasRow(d)
    <3>1. CASE proc[d].pc # "none"
      BY <3>1 DEF Inv, HeldInv, RowInv
    <3>2. CASE \E kind \in {"e_wallet", "bank"} : Upload(d, kind)
      BY <3>2 DEF Upload, books, Inv, HeldInv, RowInv
    <3>3. QED
      BY <1>1, <3>1, <3>2 DEF Process, Register, Load, Accept, MarkProcessed, RecordWallets, RecordBank,
         SaveAgain, Notify, Refuse, SaveRefused, ProcDies
  <2>3. QED
    BY <1>1, <2>1, <2>2, ProcessCalm, CalmMoves
<1>2. ASSUME NEW e \in Edits, Edit(e) PROVE CalmInv' /\ [Lifecycle!Next]_phases
  <2>1. UNCHANGED <<status, proc, order, handed>>
    BY <1>2, EditFrame DEF Inv
  <2>2. CASE SaveEdit(e)
    <3>1. PICK d \in Docs : d = edit[e].doc /\ HasRow(d)
      BY <2>2 DEF SaveEdit, Inv, HeldInv, EditInv, TypeOK, EditOK
    <3>2. \A x \in Docs \ {d} : Alone(x)
      BY <2>1, <2>2, <3>1, Saved DEF SaveEdit, Inv, Alone
    <3>3. QED
      BY <2>1, <2>2, <3>1, <3>2, EditCalm, CalmMoves
  <2>3. CASE \E d \in Docs, kind \in EditKinds : OpenEdit(e, d, kind)
    BY <2>1, <2>3, CalmRests DEF OpenEdit, books
  <2>4. QED
    BY <1>2, <2>2, <2>3 DEF Edit
<1>3. ASSUME NEW v \in Reviews, Review(v) PROVE CalmInv' /\ [Lifecycle!Next]_phases
  BY <1>3, CalmRests DEF Review, OpenReview, SaveReview, books
<1>4. ASSUME NEW k \in Orders, Disbursal(k) PROVE CalmInv' /\ [Lifecycle!Next]_phases
  <2>1. TypeOK /\ order[k] \in OrderStates /\ OrderInv(k)
    BY DEF Inv, HeldInv, TypeOK, OrderOK
  <2>2. PICK d \in Docs : /\ d = order'[k].doc /\ HasRow(d)
                          /\ order[k].pc = "idle" \/ order[k].doc = d
    <3>1. CASE \E c \in Checkers, x \in Docs : Check(k, c, x)
      BY <2>1, <3>1 DEF Check, Ordered, NoOrder, Exists, HasRow, TypeOK, OrderOK
    <3>2. CASE LoadOrder(k)
      <4>1. \/ order'[k] = [order[k] EXCEPT !.pc = "loaded", !.inst = doc[order[k].doc]]
            \/ order'[k] = [order[k] EXCEPT !.pc = "done"]
        BY <2>1, <3>2 DEF LoadOrder, Ordered, TypeOK, OrderOK
      <4>2. order'[k].doc = order[k].doc
        BY <2>1, <4>1 DEF OrderStates
      <4>3. QED
        BY <2>1, <3>2, <4>2 DEF LoadOrder, OrderInv, TypeOK, OrderOK
    <3>3. CASE Hand(k) \/ MarkStatus(k)
      BY <2>1, <3>3 DEF Hand, MarkStatus, Ordered, OrderInv, OrderStates, TypeOK, OrderOK
    <3>4. CASE MarkDoc(k) \/ OrderDies(k)
      <4>1. order'[k] = [order[k] EXCEPT !.pc = "done", !.inst = NoRow] /\ order[k].pc # "idle"
        BY <2>1, <3>4 DEF MarkDoc, OrderDies, Ordered, TypeOK, OrderOK
      <4>2. order'[k].doc = order[k].doc
        BY <2>1, <4>1 DEF OrderStates
      <4>3. QED
        BY <2>1, <4>1, <4>2 DEF OrderInv, TypeOK, OrderOK
    <3>5. QED
      BY <1>4, <3>1, <3>2, <3>3, <3>4 DEF Disbursal
  <2>3. proc' = proc /\ \A o \in Orders \ {k} : order'[o] = order[o]
    BY <1>4, <2>1, OrderFrame
  <2>4. \A x \in Docs \ {d} : Alone(x)
    <3>1. CASE MarkDoc(k)
      BY <2>2, <2>3, <3>1, Saved DEF MarkDoc, Inv, Alone
    <3>2. CASE ~MarkDoc(k)
      <4>1. doc' = doc
        BY <1>4, <3>2 DEF Disbursal, Check, LoadOrder, Hand, MarkStatus, OrderDies, books
      <4>2. CASE \E c \in Checkers, x \in Docs : Check(k, c, x)
        <5>1. PICK c \in Checkers, x \in Docs : Check(k, c, x)
          BY <4>2
        <5>2. x = d
          BY <2>1, <2>2, <5>1 DEF Check, Ordered, NoOrder, TypeOK, OrderOK
        <5>3. QED
          BY <2>1, <2>3, <5>1, <5>2 DEF Check, Disturb, Alone, TypeOK, BooksOK
      <4>3. CASE LoadOrder(k) \/ Hand(k) \/ MarkStatus(k) \/ OrderDies(k)
        BY <2>1, <2>2, <2>3, <4>1, <4>3 DEF LoadOrder, Hand, MarkStatus, OrderDies, Says, Disturb, books, Alone,
           TypeOK, RowsOK, BooksOK
      <4>4. QED
        BY <1>4, <3>2, <4>2, <4>3 DEF Disbursal
    <3>3. QED
      BY <3>1, <3>2
  <2>5. \A x \in Docs \ {d}, o \in Orders : order'[o] = order[o] \/ (~InHand(o, x) /\ ~InHand(o, x)')
    <3>1. \A x \in Docs \ {d} : ~InHand(k, x) /\ ~InHand(k, x)'
      BY <2>2 DEF InHand
    <3>2. QED
      BY <2>3, <3>1
  <2>6. ~disturbed'[d] => ProcCalm(d)' /\ OrderCalm(d)' /\ Moved(d)
    BY <1>4, <2>2, DisbursalCalm
  <2>7. QED
    BY <2>2, <2>4, <2>5, <2>6, CalmMoves
<1>5. CASE Job
  <2>1. TypeOK /\ JobInv /\ job \in JobStates /\ UNCHANGED <<proc, order, handed>>
    BY <1>5, JobFrame DEF Inv, HeldInv, TypeOK, JobOK
  <2>2. ASSUME NEW d \in Docs, Select(d) PROVE CalmInv' /\ [Lifecycle!Next]_phases
    BY <2>1, <2>2, CalmRests DEF Select, books
  <2>3. ASSUME NEW n \in Docs, CopyDoc(n) PROVE CalmInv' /\ [Lifecycle!Next]_phases
    <3>1. \A x \in Docs \ {n} : Alone(x)
      BY <2>1, <2>3 DEF CopyDoc, Alone, books, TypeOK, RowsOK
    <3>2. ~disturbed'[n]
      BY <2>3 DEF CopyDoc, books, Inv, HeldInv, RowInv, HasRow
    <3>3. QED
      BY <1>5, <2>1, <3>1, <3>2, JobCalm, CalmMoves
  <2>4. CASE CopyRecords
    <3>1. PICK d \in Docs : d = job.copy /\ HasRow(d)
      BY <2>1, <2>4 DEF CopyRecords, JobInv, TypeOK, JobOK
    <3>2. \A x \in Docs \ {d} : Alone(x)
      BY <2>1, <2>4, <3>1 DEF CopyRecords, Says, Alone, books, TypeOK, RowsOK
    <3>3. QED
      BY <1>5, <2>1, <3>1, <3>2, JobCalm, CalmMoves
  <2>5. CASE SaveSource
    <3>1. PICK d \in Docs : d = job.doc /\ HasRow(d)
      BY <2>1, <2>5 DEF SaveSource, JobInv, TypeOK, JobOK
    <3>2. \A x \in Docs \ {d} : Alone(x)
      BY <2>1, <2>5, <3>1, Saved DEF SaveSource, Alone
    <3>3. QED
      BY <1>5, <2>1, <3>1, <3>2, JobCalm, CalmMoves
  <2>6. CASE JobDies
    <3>1. doc' = doc /\ status' = status
      BY <2>6 DEF JobDies
    <3>2. \A x \in Docs : disturbed'[x] = (disturbed[x] \/ (job.pc = "recording" /\ x = job.copy))
      BY <2>6 DEF JobDies
    <3>3. CASE job.pc = "recording"
      <4>1. PICK d \in Docs : d = job.copy /\ HasRow(d)
        BY <2>1, <3>3 DEF JobInv, TypeOK, JobOK
      <4>2. \A x \in Docs \ {d} : Alone(x)
        BY <2>1, <3>1, <3>2, <4>1 DEF Alone, TypeOK, BooksOK
      <4>3. QED
        BY <1>5, <2>1, <4>1, <4>2, JobCalm, CalmMoves
    <3>4. CASE job.pc # "recording"
      <4>1. \A x \in Docs : disturbed'[x] = disturbed[x]
        BY <2>1, <3>2, <3>4 DEF TypeOK, BooksOK
      <4>2. disturbed' = disturbed
        BY <2>1, <2>6, <4>1 DEF JobDies, TypeOK, BooksOK
      <4>3. QED
        BY <2>1, <3>1, <4>2, CalmRests
    <3>5. QED
      BY <3>3, <3>4
  <2>7. QED
    BY <1>5, <2>2, <2>3, <2>4, <2>5, <2>6 DEF Job
<1>6. CASE UNCHANGED vars
  BY <1>6, CalmRests DEF vars, books
<1>7. QED
  BY <1>1, <1>2, <1>3, <1>4, <1>5, <1>6 DEF Next

LEMMA ContractInit == Init => Inv /\ Lifecycle!Init
<1> SUFFICES ASSUME Init PROVE Inv /\ Lifecycle!Init
  OBVIOUS
<1>1. TypeOK
  BY DocTypeInit
<1>2. /\ \A d \in Docs : doc[d] = NoRow /\ status[d] = "none" /\ handed[d] = 0 /\ ~disturbed[d] /\ proc[d] = NoProc
      /\ \A e \in Edits : edit[e].pc = "idle"
      /\ \A k \in Orders : order[k].pc = "idle"
      /\ job.pc = "idle"
  BY NoStates DEF Init
<1>3. \A d \in Docs : RowInv(d)
  BY <1>2 DEF RowInv, HasRow, NoRow, NoProc, Free
<1>4. HeldInv
  BY <1>2, <1>3 DEF HeldInv, EditInv, OrderInv, JobInv
<1>5. \A d \in Docs : OrderCalm(d)
  BY <1>2 DEF OrderCalm, InHand, Posting, Marking, NoRow
<1>6. \A d \in Docs : ProcCalm(d)
  BY <1>2 DEF ProcCalm, Unmarked, Free, HasRow, NoRow, NoProc
<1>7. CalmInv
  BY <1>5, <1>6 DEF CalmInv
<1>8. \A d \in Docs : Phase(d) = "none"
  BY <1>2 DEF Phase, NoRow
<1>9. Lifecycle!Init
  BY <1>8 DEF Lifecycle!Init
<1>10. QED
  BY <1>1, <1>4, <1>7, <1>9 DEF Inv

LEMMA InvHolds == Spec => []Inv
<1>1. Inv /\ [Next]_vars => Inv'
  BY DocTypeStep, HeldStep, ContractStep DEF Inv
<1>2. QED
  BY <1>1, ContractInit, PTL DEF Spec

\* Once nobody is at it any more, an undisturbed document reads as disbursed, in
\* both rows, exactly if it was handed over.
THEOREM MarkedTheorem == Spec => []HandedIsMarked
<1>1. Inv => HandedIsMarked
  <2> SUFFICES ASSUME Inv, NEW d \in Docs \ Copies, ~disturbed[d], \A k \in Orders : ~Marking(k, d)
               PROVE  /\ doc[d].disbursed = (handed[d] > 0)
                      /\ (status[d] = "disbursed") = (handed[d] > 0)
                      /\ handed[d] > 0 => ~doc[d].gone
    BY DEF HandedIsMarked, Marking
  <2>1. OrderCalm(d) /\ handed[d] \in Nat /\ doc[d].disbursed \in BOOLEAN
    BY DEF Inv, CalmInv, TypeOK, RowsOK, BooksOK, DocRows
  <2>2. handed[d] > 0 <=> handed[d] = 1
    BY <2>1 DEF OrderCalm
  <2>3. doc[d].disbursed <=> handed[d] = 1
    BY <2>1 DEF OrderCalm
  <2>4. status[d] = "disbursed" <=> handed[d] = 1
    BY <2>1 DEF OrderCalm
  <2>5. handed[d] = 1 => ~doc[d].gone
    BY <2>1 DEF OrderCalm
  <2>6. QED
    BY <2>1, <2>2, <2>3, <2>4, <2>5
<1>2. QED
  BY <1>1, InvHolds, PTL

\* A document that nothing disturbs goes through its life as the contract has it.
THEOREM ContractTheorem == Spec => LifecycleSpec
<1>1. Init => Lifecycle!Init
  BY ContractInit
<1>2. Inv /\ [Next]_vars => [Lifecycle!Next]_([d \in Docs |-> Phase(d)])
  BY ContractStep DEF phases
<1>3. QED
  BY <1>1, <1>2, InvHolds, PTL DEF Spec, LifecycleSpec, Lifecycle!Spec

-----------------------------------------------------------------------------
(* The records of what is handed over *)

\* Only an e-wallet sheet can be seen as processed before its records are there.
Recorded(d) ==
  /\ doc[d].processed \/ doc[d].allowed =>
       \/ records[d] = "all"
       \/ doc[d].kind = "e_wallet" /\ proc[d].pc \in {"recording", "failing", "done"}
  /\ ~EWallet(d) /\ proc[d].pc \in {"accepting", "marking"} => records[d] = "all"
  /\ proc[d].pc \notin Free => proc[d].inst.kind = doc[d].kind
RecordedInv == \A d \in Docs \ Copies : ~disturbed[d] => Recorded(d)

LEMMA ProcessRecorded ==
  ASSUME Inv, RecordedInv, NEW d \in Docs, Process(d), ~disturbed'[d]
  PROVE  Recorded(d)'
<1>1. TypeOK /\ RowInv(d) /\ proc[d] \in ProcStates /\ doc[d] \in DocRows /\ proc[d].inst \in DocRows
  BY DEF Inv, HeldInv, TypeOK, ProcOK, RowsOK, ProcStates
<1>2. d \notin Copies
  BY ProcessFrame DEF Inv
<1>3. ~disturbed[d]
  BY <1>1 DEF Process, Upload, Register, Load, Accept, MarkProcessed, RecordWallets, RecordBank, SaveAgain,
     Notify, Refuse, SaveRefused, ProcDies, SaveOver, Disturb, books, TypeOK, BooksOK
<1>4. ProcCalm(d) /\ Recorded(d)
  BY <1>2, <1>3 DEF Inv, CalmInv, RecordedInv
<1>5. Unmarked(d) => ~doc[d].processed /\ ~doc[d].allowed
  BY <1>4 DEF ProcCalm
<1>6. CASE \E kind \in {"e_wallet", "bank"} : Upload(d, kind)
  BY <1>1, <1>6 DEF Upload, Uploaded, NoRow, NoProc, Proceed, Recorded, Free, TypeOK, RowsOK, ProcOK
<1>7. CASE Register(d) \/ Notify(d) \/ ProcDies(d)
  <2>1. /\ doc' = doc /\ records' = records
        /\ proc'[d].pc \in {"queued", "done"}
        /\ proc[d].pc \in {"uploaded", "marking"} => proc'[d].pc = "queued" \/ ProcDies(d)
    BY <1>1, <1>7 DEF Register, Notify, ProcDies, Proceed, NoProc, TypeOK, ProcOK, ProcStates
  <2>2. CASE Register(d)
    BY <1>4, <1>5, <2>1, <2>2 DEF Register, Unmarked, Recorded, Free
  <2>3. CASE Notify(d) \/ ProcDies(d)
    <3>1. proc'[d].pc = "done"
      BY <1>1, <2>3 DEF Notify, ProcDies, Proceed, NoProc, TypeOK, ProcOK
    <3>2. QED
      BY <1>4, <2>1, <3>1 DEF Recorded, Free
  <2>4. QED
    BY <1>7, <2>2, <2>3
<1>8. CASE Load(d)
  <2>1. /\ proc[d].pc = "queued" /\ doc' = doc
        /\ \/ proc'[d] = [pc |-> "validating", inst |-> doc[d]]
           \/ proc'[d] = [proc[d] EXCEPT !.pc = "done"]
    BY <1>1, <1>8 DEF Load, Proceed, TypeOK, ProcOK
  <2>2. proc'[d].pc = "done" \/ (proc'[d].pc = "validating" /\ proc'[d].inst = doc[d])
    BY <1>1, <2>1 DEF ProcStates
  <2>3. QED
    BY <1>5, <2>1, <2>2 DEF Recorded, Unmarked, Free
<1>9. CASE Accept(d) \/ Refuse(d)
  <2>1. /\ doc' = doc /\ records' = records
        /\ \/ proc'[d] = [proc[d] EXCEPT !.pc = "marking"] /\ proc[d].pc \in {"validating", "accepting"}
              /\ (EWallet(d) \/ proc[d].pc = "accepting")
           \/ proc'[d] = [proc[d] EXCEPT !.pc = "failing"] /\ proc[d].pc \notin Free
    BY <1>1, <1>9 DEF Accept, Refuse, Proceed, Free, TypeOK, ProcOK
  <2>2. /\ proc'[d].inst = proc[d].inst /\ proc[d].pc \notin Free
        /\ \/ proc'[d].pc = "marking" /\ proc[d].pc \in {"validating", "accepting"}
              /\ (EWallet(d) \/ proc[d].pc = "accepting")
           \/ proc'[d].pc = "failing"
    BY <1>1, <2>1 DEF ProcStates, Free
  <2>3. CASE proc'[d].pc = "failing"
    BY <1>4, <2>1, <2>2, <2>3 DEF Recorded, Free
  <2>4. CASE proc'[d].pc # "failing"
    BY <1>4, <1>5, <2>1, <2>2, <2>4 DEF Recorded, Unmarked, Free, EWallet
  <2>5. QED
    BY <2>3, <2>4
<1>10. CASE MarkProcessed(d)
  <2>1. /\ proc[d].pc = "marking" /\ doc'[d] = [proc[d].inst EXCEPT !.processed = TRUE] /\ records' = records
        /\ proc'[d] = [pc |-> IF EWallet(d) THEN "recording" ELSE "notifying",
                       inst |-> [proc[d].inst EXCEPT !.processed = TRUE]]
    BY <1>1, <1>10 DEF MarkProcessed, SaveOver, Proceed, TypeOK, RowsOK, ProcOK
  <2>2. doc'[d].kind = proc[d].inst.kind /\ proc'[d].inst.kind = proc[d].inst.kind
    BY <1>1, <2>1 DEF DocRows
  <2>3. proc'[d].pc = IF EWallet(d) THEN "recording" ELSE "notifying"
    BY <2>1
  <2>4. QED
    BY <1>4, <2>1, <2>2, <2>3 DEF Recorded, EWallet
<1>11. CASE RecordWallets(d)
  <2>1. doc' = doc /\ records'[d] = "all" /\ proc[d].pc = "recording"
        /\ proc'[d].inst = proc[d].inst
    BY <1>1, <1>11 DEF RecordWallets, Proceed, TypeOK, RowsOK, ProcOK, ProcStates
  <2>2. QED
    BY <1>4, <2>1 DEF Recorded, Free
<1>12. CASE RecordBank(d)
  <2>1. /\ doc' = doc /\ proc'[d].inst = proc[d].inst /\ ~EWallet(d)
        /\ proc[d].pc \in {"validating", "recording"}
        /\ \/ records'[d] = "all" /\ proc'[d].pc = "accepting"
           \/ proc'[d].pc = "recording"
    BY <1>1, <1>12 DEF RecordBank, Proceed, TypeOK, RowsOK, ProcOK, ProcStates
  <2>2. Unmarked(d) /\ proc[d].pc \notin Free
    BY <2>1 DEF Unmarked, Free
  <2>3. QED
    BY <1>4, <1>5, <2>1, <2>2 DEF Recorded
<1>13. CASE SaveAgain(d)
  <2>1. doc[d] = proc[d].inst
    BY <1>1, <1>13 DEF SaveAgain, SaveOver, Disturb, TypeOK, BooksOK
  <2>2. /\ proc[d].pc = "saving" /\ doc'[d] = doc[d] /\ records' = records
        /\ proc'[d].pc = "notifying" /\ proc'[d].inst = proc[d].inst
    BY <1>1, <1>13, <2>1 DEF SaveAgain, SaveOver, Proceed, TypeOK, RowsOK, ProcOK, ProcStates
  <2>3. QED
    BY <1>4, <2>1, <2>2 DEF Recorded
<1>14. CASE SaveRefused(d)
  <2>1. doc[d] = proc[d].inst
    BY <1>1, <1>14 DEF SaveRefused, SaveOver, Disturb, TypeOK, BooksOK
  <2>2. /\ proc[d].pc = "failing" /\ doc'[d] = [doc[d] EXCEPT !.processed = FALSE] /\ records' = records
        /\ proc'[d].pc = "done"
    BY <1>1, <1>14, <2>1 DEF SaveRefused, SaveOver, Proceed, NoProc, TypeOK, RowsOK, ProcOK
  <2>3. ~doc'[d].processed /\ doc'[d].allowed = doc[d].allowed /\ doc'[d].kind = doc[d].kind
    BY <1>1, <2>2 DEF DocRows
  <2>4. QED
    BY <1>4, <2>2, <2>3 DEF Recorded, Free
<1>15. QED
  BY <1>6, <1>7, <1>8, <1>9, <1>10, <1>11, <1>12, <1>13, <1>14 DEF Process

\* Nobody else writes the records of an uploaded document, or takes a flag of its
\* row back.
LEMMA OthersRecorded ==
  ASSUME Inv, RecordedInv, NEW d \in Docs \ Copies, ~disturbed[d],
         records'[d] = records[d], proc'[d] = proc[d], doc'[d].kind = doc[d].kind,
         doc'[d].processed = doc[d].processed,
         doc'[d].allowed => doc[d].allowed \/ doc[d].processed
  PROVE  Recorded(d)'
BY DEF RecordedInv, Recorded, EWallet

LEMMA RecordedStep == ASSUME Inv, RecordedInv, [Next]_vars PROVE RecordedInv'
<1> SUFFICES ASSUME NEW d \in Docs \ Copies, ~disturbed'[d] PROVE Recorded(d)'
  BY DEF RecordedInv
<1>1. TypeOK /\ doc[d] \in DocRows
  BY DEF Inv, TypeOK, RowsOK
<1>2. ASSUME NEW x \in Docs, Process(x) PROVE Recorded(d)'
  <2>1. CASE x = d
    BY <1>2, <2>1, ProcessRecorded
  <2>2. CASE x # d
    <3>1. Alone(d)
      BY <1>2, <2>2, ProcessFrame DEF Inv
    <3>2. records'[d] = records[d]
      BY <1>1, <1>2, <2>2 DEF Process, Upload, Register, Load, Accept, MarkProcessed, RecordWallets, RecordBank,
         SaveAgain, Notify, Refuse, SaveRefused, ProcDies, TypeOK, RowsOK
    <3>3. QED
      BY <3>1, <3>2, OthersRecorded DEF Alone
  <2>3. QED
    BY <2>1, <2>2
<1>3. ASSUME UNCHANGED <<doc, records, proc, disturbed>> PROVE Recorded(d)'
  BY <1>3, OthersRecorded
<1>4. ASSUME NEW e \in Edits, Edit(e) PROVE Recorded(d)'
  <2>1. CASE SaveEdit(e)
    <3>1. CASE edit[e].doc = d
      <4>1. doc[d] = edit[e].inst /\ ~disturbed[d]
        BY <1>1, <2>1, <3>1 DEF SaveEdit, SaveOver, Disturb, TypeOK, BooksOK
      <4>2. doc'[d] = Edited(edit[e].kind, doc[d]) /\ UNCHANGED <<records, proc>>
        BY <1>1, <2>1, <3>1, <4>1 DEF SaveEdit, SaveOver, TypeOK, RowsOK
      <4>3. Admits(edit[e].kind, doc[d])
        BY <2>1, <4>1 DEF SaveEdit, Inv, HeldInv, EditInv
      <4>4. /\ doc'[d].kind = doc[d].kind /\ doc'[d].processed = doc[d].processed
            /\ doc'[d].allowed = (doc[d].allowed \/ edit[e].kind = "allow")
        BY <1>1, <4>2 DEF Edited, DocRows
      <4>5. doc'[d].allowed => doc[d].allowed \/ doc[d].processed
        BY <4>3, <4>4 DEF Admits
      <4>6. QED
        BY <4>1, <4>2, <4>4, <4>5, OthersRecorded
    <3>2. CASE edit[e].doc # d
      BY <1>1, <2>1, <3>2, OthersRecorded DEF SaveEdit, SaveOver, Disturb, TypeOK, RowsOK, BooksOK
    <3>3. QED
      BY <3>1, <3>2
  <2>2. CASE \E x \in Docs, kind \in EditKinds : OpenEdit(e, x, kind)
    BY <1>3, <2>2 DEF OpenEdit, books
  <2>3. QED
    BY <1>4, <2>1, <2>2 DEF Edit
<1>5. ASSUME NEW v \in Reviews, Review(v) PROVE Recorded(d)'
  BY <1>3, <1>5 DEF Review, OpenReview, SaveReview, books
<1>6. ASSUME NEW k \in Orders, Disbursal(k) PROVE Recorded(d)'
  <2>1. UNCHANGED <<records, proc>>
    BY <1>6 DEF Disbursal, Check, LoadOrder, Hand, MarkStatus, MarkDoc, OrderDies, books
  <2>2. CASE MarkDoc(k) /\ order[k].doc = d
    <3>1. doc[d] = order[k].inst /\ ~disturbed[d]
      BY <1>1, <2>2 DEF MarkDoc, SaveOver, Disturb, TypeOK, BooksOK
    <3>2. doc'[d] = [doc[d] EXCEPT !.disbursed = TRUE]
      BY <1>1, <2>2, <3>1 DEF MarkDoc, SaveOver, TypeOK, RowsOK
    <3>3. /\ doc'[d].kind = doc[d].kind /\ doc'[d].processed = doc[d].processed
          /\ doc'[d].allowed = doc[d].allowed
      BY <1>1, <3>2 DEF DocRows
    <3>4. QED
      BY <2>1, <3>1, <3>3, OthersRecorded
  <2>3. CASE ~(MarkDoc(k) /\ order[k].doc = d)
    <3>1. doc'[d] = doc[d] /\ ~disturbed[d]
      BY <1>1, <1>6, <2>3 DEF Disbursal, Check, LoadOrder, Hand, MarkStatus, MarkDoc, OrderDies, SaveOver, Disturb,
         books, TypeOK, RowsOK, BooksOK
    <3>2. QED
      BY <2>1, <3>1, OthersRecorded
  <2>4. QED
    BY <2>2, <2>3
<1>7. CASE Job
  <2>1. proc' = proc
    BY <1>7, JobFrame DEF Inv
  <2>2. records'[d] = records[d]
    BY <1>1, <1>7 DEF Job, Select, CopyDoc, CopyRecords, SaveSource, JobDies, Inv, HeldInv, JobInv, TypeOK, RowsOK
  <2>3. ~disturbed[d] /\ doc'[d] = doc[d]
    <3>1. CASE SaveSource
      BY <1>1, <3>1 DEF SaveSource, SaveOver, Disturb, TypeOK, RowsOK, BooksOK
    <3>2. CASE ~SaveSource
      BY <1>1, <1>7, <3>2 DEF Job, Select, CopyDoc, CopyRecords, JobDies, books, TypeOK, RowsOK, BooksOK
    <3>3. QED
      BY <3>1, <3>2
  <2>4. QED
    BY <2>1, <2>2, <2>3, OthersRecorded
<1>8. CASE UNCHANGED vars
  BY <1>3, <1>8 DEF vars, books
<1>9. QED
  BY <1>2, <1>4, <1>5, <1>6, <1>7, <1>8 DEF Next

\* What is handed over has all its records, unless its e-wallet task has not come
\* so far, or failed to.
THEOREM RecordedTheorem == Spec => []HandedIsRecorded
<1>1. Init => RecordedInv
  BY DEF Init, RecordedInv, Recorded, NoRow, NoProc, Free
<1>2. Inv /\ RecordedInv => HandedIsRecorded
  <2> SUFFICES ASSUME Inv, RecordedInv, NEW d \in Docs \ Copies, handed[d] > 0, ~disturbed[d]
               PROVE  records[d] # "all" => /\ doc[d].kind = "e_wallet"
                                            /\ proc[d].pc \in {"recording", "failing", "done"}
    BY DEF HandedIsRecorded
  <2>1. handed[d] \in Nat /\ OrderCalm(d) /\ Recorded(d)
    BY DEF Inv, CalmInv, RecordedInv, TypeOK, BooksOK
  <2>2. handed[d] <= 1 /\ (handed[d] = 1 => doc[d].allowed)
    BY <2>1 DEF OrderCalm
  <2>3. doc[d].allowed
    BY <2>1, <2>2
  <2>4. QED
    BY <2>1, <2>3 DEF Recorded
<1>3. Inv /\ RecordedInv /\ [Next]_vars => RecordedInv'
  BY RecordedStep
<1>4. QED
  BY <1>1, <1>2, <1>3, InvHolds, PTL DEF Spec
=============================================================================
