------------------------ MODULE WalletCashin_proofs ------------------------
(***************************************************************************)
(* What holds of instant cash-ins for every number of requests, pollers    *)
(* and report uploads, up to the theorem that together they implement the  *)
(* payout contract.                                                        *)
(***************************************************************************)
EXTENDS WalletCashin, TLAPS

-----------------------------------------------------------------------------
(* Types *)

LEMMA CostNat == ASSUME NEW a \in Amounts PROVE Cost(a) \in Nat
BY AmountsAssumption DEF Cost

LEMMA DebitedType == ASSUME NEW b \in BudgetRow, NEW t \in Trx
                     PROVE  Debited(b, Amount[t]) \in BudgetRow
<1>1. Amount[t] \in Amounts
  BY WalletAssumption
<1>2. Cost(Amount[t]) \in Nat
  BY <1>1, CostNat
<1>3. QED
  BY <1>2 DEF Debited, BudgetRow

LEMMA RowType == /\ Row("P", "none") \in Rows /\ Row("S", "200") \in Rows
                 /\ Row("U", "501") \in Rows /\ Row("U", "408") \in Rows
                 /\ Row("F", "500") \in Rows /\ Row("F", "424") \in Rows
                 /\ Row("F", "provider") \in Rows /\ NoRow \in Rows
BY DEF Row, Rows, NoRow

\* The part of the type invariant that is about the runs.
RecType == [pc : {"idle", "exported", "looping", "debiting", "resaving"},
            todo : SUBSET Trx, at : Trx \cup {NoTrx}, seen : SUBSET Trx]

LEMMA InitTypeOK == Init => TypeOK
<1> SUFFICES ASSUME Init PROVE TypeOK
  OBVIOUS
<1>1. budget \in BudgetRow
  BY WalletAssumption DEF Init, Opened, BudgetRow
<1>2. faults \in 0..MaxFaults
  BY WalletAssumption DEF Init
<1>3. QED
  BY <1>1, <1>2, RowType, WalletAssumption DEF Init, TypeOK, Idle, Run, Active, Ended

RunsOK ==
  /\ rec \in [Reconcilers -> RecType]
  /\ \A q \in Reconcilers : (rec[q].at \in Trx) = (rec[q].pc \in {"debiting", "resaving"})

\* What a run may become: well typed, and with a row in hand only while it is
\* saving or debiting it.
GoodRun(run) == run \in RecType /\ (run.at \in Trx) = (run.pc \in {"debiting", "resaving"})

LEMMA RunType == ASSUME TypeOK, NEW r \in Reconcilers, NEW run, GoodRun(run),
                        rec' = [rec EXCEPT ![r] = run]
                 PROVE  RunsOK'
BY DEF TypeOK, RecType, GoodRun, RunsOK

LEMMA FreeRuns == ASSUME NEW todo \in SUBSET Trx, NEW seen \in SUBSET Trx
                  PROVE  /\ GoodRun(Idle)
                         /\ GoodRun(Run("looping", todo, NoTrx, seen))
                         /\ GoodRun(Run("exported", todo, NoTrx, seen))
BY WalletAssumption DEF GoodRun, Idle, Run, RecType

LEMMA BusyRuns == ASSUME NEW todo \in SUBSET Trx, NEW seen \in SUBSET Trx, NEW t \in Trx
                  PROVE  /\ GoodRun(Run("debiting", todo, t, seen))
                         /\ GoodRun(Run("resaving", todo, t, seen))
BY WalletAssumption DEF GoodRun, Idle, Run, RecType

LEMMA LoopType == ASSUME TypeOK, NEW r \in Reconcilers, NEW todo \in SUBSET Trx, Loop(r, todo)
                  PROVE  RunsOK'
<1> DEFINE run == IF todo = {} THEN Idle ELSE Run("looping", todo, NoTrx, rec[r].seen)
<1>1. rec[r].seen \in SUBSET Trx
  BY DEF TypeOK
<1>2. rec' = [rec EXCEPT ![r] = run] /\ GoodRun(run)
  BY <1>1, FreeRuns DEF Loop
<1> HIDE DEF run
<1>3. QED
  BY <1>2, RunType

\* Every step of a request leaves a well-typed state.
LEMMA RequestTypeOK == ASSUME TypeOK, NEW t \in Trx, Request(t) PROVE TypeOK'
<1>1. ASSUME NEW status, NEW code, Row(status, code) \in Rows, NEW next \in Active,
             Mark(t, status, code, next)
      PROVE  TypeOK'
  BY <1>1 DEF Mark, TypeOK, books
<1>2. CASE Validate(t)
  BY <1>2 DEF Validate, TypeOK, Ended, books
<1>3. CASE CreateRow(t)
  BY <1>3, RowType DEF CreateRow, TypeOK, Active, Ended, books
<1>4. CASE InternalError(t) \/ AnswerUnknown(t) \/ AnswerRefused(t) \/ TimedOut(t) \/ ExternalError(t)
  BY <1>1, <1>4, RowType DEF InternalError, AnswerUnknown, AnswerRefused, TimedOut, ExternalError, Active
<1>5. CASE AnswerPaid(t)
  BY <1>1, <1>5, RowType DEF AnswerPaid, Active
<1>6. CASE Post(t)
  BY <1>6 DEF Post, TypeOK, Active, books
<1>7. CASE DebitRequest(t)
  <2>1. budget' \in BudgetRow
    BY <1>7, DebitedType DEF DebitRequest, DebitFor, TypeOK
  <2>2. charges' \in [Trx -> Nat]
    BY <1>7 DEF DebitRequest, DebitFor, TypeOK
  <2>3. QED
    BY <1>7, <2>1, <2>2 DEF DebitRequest, TypeOK, Active
<1>8. CASE FinalSave(t)
  BY <1>8 DEF FinalSave, TypeOK, Ended, books
<1>9. CASE RequestDies(t)
  <2>1. faults' \in 0..MaxFaults
    BY <1>9, WalletAssumption DEF RequestDies, TypeOK
  <2>2. lostDebit' \in [Trx -> BOOLEAN]
    BY <1>9 DEF RequestDies, TypeOK
  <2>3. QED
    BY <1>9, <2>1, <2>2 DEF RequestDies, TypeOK, Ended
<1>10. QED
  BY <1>2, <1>3, <1>4, <1>5, <1>6, <1>7, <1>8, <1>9 DEF Request

\* So does every step of the provider, of an inquiry and of an upload.
LEMMA ReconcileTypeOK ==
  ASSUME TypeOK, NEW r \in Reconcilers, Poll(r) \/ Upload(r) \/ RunDies(r)
  PROVE  TypeOK'
<1>0. rec[r] \in RecType /\ (rec[r].pc \in {"debiting", "resaving"} => rec[r].at \in Trx)
  BY DEF TypeOK, RecType
<1>1. rec[r].todo \in SUBSET Trx /\ rec[r].seen \in SUBSET Trx
  BY <1>0 DEF RecType
<1>2. ASSUME NEW rows \in SUBSET Trx, Select(r, rows) PROVE TypeOK'
  <2>1. RunsOK'
    BY <1>2, LoopType DEF Select
  <2>2. overlapped' \in [Trx -> BOOLEAN]
    BY <1>2 DEF Select, TypeOK
  <2>3. QED
    BY <1>2, <2>1, <2>2 DEF Select, TypeOK, RecType, RunsOK
<1>3. ASSUME NEW t \in Trx, SaveSuccessful(r, t) PROVE TypeOK'
  <2> DEFINE run == Run("debiting", rec[r].todo \ {t}, t, rec[r].seen)
  <2>1. GoodRun(run) /\ rec' = [rec EXCEPT ![r] = run]
    BY <1>1, <1>3, BusyRuns DEF SaveSuccessful
  <2> HIDE DEF run
  <2>2. RunsOK'
    BY <2>1, RunType
  <2>3. row' \in [Trx -> Rows]
    BY <1>3, RowType DEF SaveSuccessful, TypeOK
  <2>4. QED
    BY <1>3, <2>2, <2>3 DEF SaveSuccessful, TypeOK, RecType, RunsOK, books
<1>4. ASSUME NEW t \in Trx, SaveFailed(r, t) PROVE TypeOK'
  <2>1. RunsOK'
    BY <1>1, <1>4, LoopType DEF SaveFailed
  <2>2. row' \in [Trx -> Rows]
    BY <1>4 DEF SaveFailed, TypeOK, Rows
  <2>3. QED
    BY <1>4, <2>1, <2>2 DEF SaveFailed, TypeOK, RecType, RunsOK, books
<1>5. ASSUME NEW t \in Trx, DebitFor(t) PROVE budget' \in BudgetRow /\ charges' \in [Trx -> Nat]
  BY <1>5, DebitedType DEF DebitFor, TypeOK
<1>6. CASE PollSelect(r)
  BY <1>2, <1>6, WalletAssumption DEF PollSelect
<1>7. CASE ReportSelect(r)
  BY <1>2, <1>7 DEF ReportSelect
<1>8. ASSUME NEW t \in Trx, PollInquire(r, t) PROVE TypeOK'
  <2>1. CASE SaveSuccessful(r, t) \/ SaveFailed(r, t)
    BY <1>3, <1>4, <2>1
  <2>2. CASE Loop(r, rec[r].todo \ {t}) /\ UNCHANGED <<budget, row, req, inst, provider, faults, books, ref>>
    <3>1. RunsOK'
      BY <1>1, <2>2, LoopType
    <3>2. QED
      BY <2>2, <3>1 DEF TypeOK, RecType, RunsOK, books
  <2>3. QED
    BY <1>8, <2>1, <2>2 DEF PollInquire
<1>9. CASE PollDebit(r)
  <2>1. budget' \in BudgetRow /\ charges' \in [Trx -> Nat]
    BY <1>0, <1>5, <1>9 DEF PollDebit
  <2>2. RunsOK'
    BY <1>1, <1>9, LoopType DEF PollDebit
  <2>3. QED
    BY <1>9, <2>1, <2>2 DEF PollDebit, TypeOK, RecType, RunsOK
<1>10. CASE ReportExport(r)
  <2> DEFINE run == Run("exported", {}, NoTrx, {t \in Trx : provider[t] = "paid"})
  <2>1. GoodRun(run) /\ rec' = [rec EXCEPT ![r] = run]
    BY <1>10, FreeRuns DEF ReportExport
  <2> HIDE DEF run
  <2>2. RunsOK'
    BY <2>1, RunType
  <2>3. QED
    BY <1>10, <2>2 DEF ReportExport, TypeOK, RecType, RunsOK, books
<1>11. ASSUME NEW t \in Trx, ReportRow(r, t) PROVE TypeOK'
  BY <1>3, <1>4, <1>11 DEF ReportRow
<1>12. CASE ReportDebit(r)
  <2> DEFINE run == Run("resaving", rec[r].todo, rec[r].at, rec[r].seen)
  <2>1. GoodRun(run) /\ rec' = [rec EXCEPT ![r] = run]
    BY <1>0, <1>1, <1>12, BusyRuns DEF ReportDebit
  <2> HIDE DEF run
  <2>2. RunsOK'
    BY <2>1, RunType
  <2>3. budget' \in BudgetRow /\ charges' \in [Trx -> Nat]
    BY <1>0, <1>5, <1>12 DEF ReportDebit
  <2>4. QED
    BY <1>12, <2>2, <2>3 DEF ReportDebit, TypeOK, RecType, RunsOK
<1>13. CASE ReportResave(r)
  <2>1. RunsOK'
    BY <1>1, <1>13, LoopType DEF ReportResave
  <2>2. row' \in [Trx -> Rows]
    BY <1>13, RowType DEF ReportResave, TypeOK
  <2>3. QED
    BY <1>13, <2>1, <2>2 DEF ReportResave, TypeOK, RecType, RunsOK, books
<1>14. CASE RunDies(r)
  <2>1. RunsOK'
    BY <1>1, <1>14, FreeRuns, RunType DEF RunDies
  <2>2. faults' \in 0..MaxFaults
    BY <1>14, WalletAssumption DEF RunDies, TypeOK
  <2>3. lostDebit' \in [Trx -> BOOLEAN]
    BY <1>14 DEF RunDies, TypeOK
  <2>4. QED
    BY <1>14, <2>1, <2>2, <2>3 DEF RunDies, TypeOK, RecType, RunsOK
<1>15. QED
  BY <1>6, <1>7, <1>8, <1>9, <1>10, <1>11, <1>12, <1>13, <1>14 DEF Poll, Upload

LEMMA StepTypeOK == TypeOK /\ [Step]_vars => TypeOK'
<1> SUFFICES ASSUME TypeOK, [Step]_vars PROVE TypeOK'
  OBVIOUS
<1>1. ASSUME NEW t \in Trx, Pays(t) \/ Refuses(t) PROVE TypeOK'
  BY <1>1 DEF Pays, Refuses, TypeOK, books
<1>2. CASE UNCHANGED vars
  BY <1>2 DEF vars, books, TypeOK
<1>3. QED
  BY <1>1, <1>2, RequestTypeOK, ReconcileTypeOK DEF Step, Reconcilers

\* The type invariant of the wallet cash-in, for all constants.
THEOREM TypeCorrect == Spec => []TypeOK
<1>1. QED
  BY InitTypeOK, StepTypeOK, PTL DEF Spec

-----------------------------------------------------------------------------
(* Only what was paid is charged *)

\* Whoever is about to debit has seen the payout, be it in an answer, in an
\* inquiry or in a report; and a payout is never taken back.
PaidInv ==
  /\ NoChargeWithoutPayout
  /\ \A t \in Trx : req[t] = "marked" => provider[t] = "paid"
  /\ \A t \in Trx : req[t] \in {"idle", "validated", "created"} => provider[t] = "none"
  /\ \A r \in Reconcilers : rec[r].pc = "debiting" => provider[rec[r].at] = "paid"
  /\ \A r \in Reconcilers : \A t \in rec[r].seen : provider[t] = "paid"

LEMMA PaidStays ==
  TypeOK /\ PaidInv /\ [Step]_vars
    => \A t \in Trx : provider[t] = "paid" => provider'[t] = "paid"
<1> SUFFICES ASSUME TypeOK, PaidInv, [Step]_vars, NEW t \in Trx, provider[t] = "paid"
             PROVE  provider'[t] = "paid"
  OBVIOUS
<1>1. ASSUME NEW u \in Trx, Post(u) PROVE provider'[t] = "paid"
  <2>1. provider[u] = "none" /\ u # t
    BY <1>1 DEF Post, PaidInv
  <2>2. QED
    BY <1>1, <2>1 DEF Post, TypeOK
<1>2. ASSUME NEW u \in Trx, Pays(u) \/ Refuses(u) PROVE provider'[t] = "paid"
  BY <1>2 DEF Pays, Refuses, TypeOK
<1>3. CASE UNCHANGED provider
  BY <1>3
<1>4. ASSUME NEW u \in Trx, Request(u) PROVE Post(u) \/ UNCHANGED provider
  BY <1>4 DEF Request, Validate, CreateRow, InternalError, AnswerPaid, AnswerUnknown,
              AnswerRefused, TimedOut, ExternalError, DebitRequest, FinalSave, RequestDies, Mark
<1>5. ASSUME NEW r \in Reconcilers, Poll(r) \/ Upload(r) \/ RunDies(r) PROVE UNCHANGED provider
  BY <1>5 DEF Poll, Upload, RunDies, PollSelect, PollInquire, PollDebit, ReportExport,
              ReportSelect, ReportRow, ReportDebit, ReportResave, Select, SaveSuccessful, SaveFailed
<1>6. QED
  BY <1>1, <1>2, <1>3, <1>4, <1>5 DEF Step, vars, Reconcilers

\* What a request can do to the parts of PaidInv.
LEMMA PaidRequest ==
  ASSUME TypeOK, PaidInv, NEW t \in Trx, Request(t),
         \A u \in Trx : provider[u] = "paid" => provider'[u] = "paid"
  PROVE  PaidInv'
<1>1. \A u \in Trx : charges'[u] > 0 => charges[u] > 0 \/ (u = t /\ req[t] = "marked")
  <2>1. CASE DebitRequest(t)
    BY <2>1 DEF DebitRequest, DebitFor, TypeOK
  <2>2. CASE UNCHANGED charges
    BY <2>2
  <2>3. QED
    BY <2>1, <2>2
       DEF Request, Validate, CreateRow, InternalError, AnswerPaid, AnswerUnknown, AnswerRefused,
           TimedOut, ExternalError, FinalSave, RequestDies, Mark, Post, books
<1>2. \A u \in Trx : req'[u] = "marked" => req[u] = "marked" \/ (u = t /\ provider[t] = "paid")
  BY DEF Request, Validate, CreateRow, InternalError, AnswerPaid, AnswerUnknown, AnswerRefused,
         TimedOut, ExternalError, DebitRequest, FinalSave, RequestDies, Mark, Post, TypeOK
<1>3. \A u \in Trx : req'[u] \in {"idle", "validated", "created"} => provider'[u] = "none"
  <2>1. CASE Post(t)
    BY <2>1 DEF Post, PaidInv, TypeOK
  <2>2. CASE ~Post(t)
    <3>1. UNCHANGED provider
      BY <2>2 DEF Request, Validate, CreateRow, InternalError, AnswerPaid, AnswerUnknown,
              AnswerRefused, TimedOut, ExternalError, DebitRequest, FinalSave, RequestDies, Mark
    <3>2. \A u \in Trx : req'[u] \in {"idle", "validated", "created"}
                         => req[u] \in {"idle", "validated", "created"}
      BY <2>2 DEF Request, Validate, CreateRow, InternalError, AnswerPaid, AnswerUnknown,
              AnswerRefused, TimedOut, ExternalError, DebitRequest, FinalSave, RequestDies, Mark, TypeOK
    <3>3. QED
      BY <3>1, <3>2 DEF PaidInv
  <2>3. QED
    BY <2>1, <2>2
<1>4. UNCHANGED rec
  BY DEF Request, Validate, CreateRow, InternalError, AnswerPaid, AnswerUnknown, AnswerRefused,
         TimedOut, ExternalError, DebitRequest, FinalSave, RequestDies, Mark, Post
<1>5. \A r \in Reconcilers : rec[r].seen \subseteq Trx /\ (rec[r].pc = "debiting" => rec[r].at \in Trx)
  BY DEF TypeOK
<1>6. QED
  BY <1>1, <1>2, <1>3, <1>4, <1>5 DEF PaidInv, NoChargeWithoutPayout

\* What a run can do to them.
LEMMA PaidReconcile ==
  ASSUME TypeOK, PaidInv, NEW r \in Reconcilers, Poll(r) \/ Upload(r) \/ RunDies(r)
  PROVE  PaidInv'
<1>0. UNCHANGED <<req, provider>>
  BY DEF Poll, Upload, RunDies, PollSelect, PollInquire, PollDebit, ReportExport,
         ReportSelect, ReportRow, ReportDebit, ReportResave, Select, SaveSuccessful, SaveFailed
<1>1. \A u \in Trx : charges'[u] > 0 => charges[u] > 0 \/ (rec[r].pc = "debiting" /\ rec[r].at = u)
  <2>1. CASE PollDebit(r) \/ ReportDebit(r)
    BY <2>1 DEF PollDebit, ReportDebit, DebitFor, TypeOK
  <2>2. CASE UNCHANGED charges
    BY <2>2
  <2>3. QED
    BY <2>1, <2>2 DEF Poll, Upload, RunDies, PollSelect, PollInquire, ReportExport,
         ReportSelect, ReportRow, ReportResave, Select, SaveSuccessful, SaveFailed, books
<1>2. \A run : rec' = [rec EXCEPT ![r] = run] =>
        \A q \in Reconcilers : rec'[q] = IF q = r THEN run ELSE rec[q]
  BY DEF TypeOK
<1>3. ASSUME NEW run, rec' = [rec EXCEPT ![r] = run],
             run.pc = "debiting" => provider[run.at] = "paid",
             \A t \in run.seen : provider[t] = "paid"
      PROVE  PaidInv'
  <2>1. \A q \in Reconcilers : rec'[q] = IF q = r THEN run ELSE rec[q]
    BY <1>2, <1>3
  <2>2. \A u \in Trx : charges'[u] > 0 => provider[u] = "paid"
    BY <1>1 DEF PaidInv, NoChargeWithoutPayout
  <2>3. \A q \in Reconcilers : rec'[q].pc = "debiting" => provider[rec'[q].at] = "paid"
    BY <1>3, <2>1 DEF PaidInv
  <2>4. \A q \in Reconcilers : \A t \in rec'[q].seen : provider[t] = "paid"
    BY <1>3, <2>1 DEF PaidInv
  <2>5. QED
    BY <1>0, <2>2, <2>3, <2>4 DEF PaidInv, NoChargeWithoutPayout
<1>4. /\ Idle.seen = {} /\ Idle.pc # "debiting"
      /\ \A todo, t, seen :
           /\ Run("looping", todo, t, seen).seen = seen /\ Run("looping", todo, t, seen).pc # "debiting"
           /\ Run("resaving", todo, t, seen).seen = seen /\ Run("resaving", todo, t, seen).pc # "debiting"
           /\ Run("exported", todo, t, seen).seen = seen /\ Run("exported", todo, t, seen).pc # "debiting"
           /\ Run("debiting", todo, t, seen).seen = seen /\ Run("debiting", todo, t, seen).at = t
  BY DEF Idle, Run
<1>5. \A t \in rec[r].seen : provider[t] = "paid"
  BY DEF PaidInv
<1>6. ASSUME NEW todo, Loop(r, todo) PROVE PaidInv'
  <2> DEFINE run == IF todo = {} THEN Idle ELSE Run("looping", todo, NoTrx, rec[r].seen)
  <2>1. rec' = [rec EXCEPT ![r] = run]
    BY <1>6 DEF Loop
  <2>2. run.pc # "debiting" /\ \A t \in run.seen : provider[t] = "paid"
    BY <1>4, <1>5
  <2> HIDE DEF run
  <2>3. QED
    BY <1>3, <2>1, <2>2
<1>7. ASSUME NEW t \in Trx, SaveSuccessful(r, t), provider[t] = "paid" PROVE PaidInv'
  <2> DEFINE run == Run("debiting", rec[r].todo \ {t}, t, rec[r].seen)
  <2>1. rec' = [rec EXCEPT ![r] = run]
    BY <1>7 DEF SaveSuccessful
  <2>2. run.at = t /\ run.seen = rec[r].seen
    BY DEF Run
  <2> HIDE DEF run
  <2>3. QED
    BY <1>3, <1>5, <1>7, <2>1, <2>2
<1>8. CASE Poll(r)
  BY <1>6, <1>7, <1>8 DEF Poll, PollSelect, PollInquire, PollDebit, Select, SaveFailed
<1>9. CASE ReportExport(r)
  <2> DEFINE paid == {t \in Trx : provider[t] = "paid"}
  <2>1. rec' = [rec EXCEPT ![r] = Run("exported", {}, NoTrx, paid)]
    BY <1>9 DEF ReportExport
  <2> DEFINE run == Run("exported", {}, NoTrx, paid)
  <2>2. run.pc # "debiting" /\ run.seen = paid
    BY DEF Run
  <2>3. \A t \in paid : provider[t] = "paid"
    OBVIOUS
  <2> HIDE DEF run, paid
  <2>4. QED
    BY <1>3, <2>1, <2>2, <2>3 DEF run
<1>10. CASE ReportDebit(r)
  <2> DEFINE run == Run("resaving", rec[r].todo, rec[r].at, rec[r].seen)
  <2>1. rec' = [rec EXCEPT ![r] = run]
    BY <1>10 DEF ReportDebit
  <2>2. run.pc # "debiting" /\ run.seen = rec[r].seen
    BY DEF Run
  <2> HIDE DEF run
  <2>3. QED
    BY <1>3, <1>5, <2>1, <2>2
<1>11. ASSUME NEW t \in Trx, ReportRow(r, t) PROVE PaidInv'
  BY <1>5, <1>6, <1>7, <1>11 DEF ReportRow, SaveFailed
<1>12. CASE ReportSelect(r) \/ ReportResave(r)
  BY <1>6, <1>12 DEF ReportSelect, Select, ReportResave
<1>13. CASE RunDies(r)
  BY <1>3, <1>4, <1>13 DEF RunDies
<1>14. QED
  BY <1>8, <1>9, <1>10, <1>11, <1>12, <1>13 DEF Upload

LEMMA PaidStep == TypeOK /\ PaidInv /\ [Step]_vars => PaidInv'
<1> SUFFICES ASSUME TypeOK, PaidInv, [Step]_vars PROVE PaidInv'
  OBVIOUS
<1>1. \A t \in Trx : provider[t] = "paid" => provider'[t] = "paid"
  BY PaidStays
<1>2. ASSUME NEW t \in Trx, Request(t) PROVE PaidInv'
  BY <1>1, <1>2, PaidRequest
<1>3. ASSUME NEW r \in Reconcilers, Poll(r) \/ Upload(r) \/ RunDies(r) PROVE PaidInv'
  BY <1>3, PaidReconcile
<1>4. ASSUME NEW t \in Trx, Pays(t) \/ Refuses(t) PROVE PaidInv'
  <2>1. UNCHANGED <<req, rec, charges>> /\ provider[t] = "processing"
        /\ \A u \in Trx \ {t} : provider'[u] = provider[u]
    BY <1>4 DEF Pays, Refuses, TypeOK, books
  <2>2. \A r \in Reconcilers : rec[r].seen \subseteq Trx /\ (rec[r].pc = "debiting" => rec[r].at \in Trx)
    BY DEF TypeOK
  <2>3. QED
    BY <1>1, <2>1, <2>2 DEF PaidInv, NoChargeWithoutPayout
<1>5. CASE UNCHANGED vars
  BY <1>5 DEF vars, books, PaidInv, NoChargeWithoutPayout
<1>6. QED
  BY <1>2, <1>3, <1>4, <1>5 DEF Step, Reconcilers

\* The budget is only ever debited for what the provider has paid.
THEOREM NoChargeWithoutPayoutTheorem == Spec => []NoChargeWithoutPayout
<1>1. Init => PaidInv
  BY DEF Init, PaidInv, NoChargeWithoutPayout, Idle, Run
<1>2. PaidInv => NoChargeWithoutPayout
  BY DEF PaidInv
<1>3. QED
  BY <1>1, <1>2, TypeCorrect, PaidStep, PTL DEF Spec

-----------------------------------------------------------------------------
(* One process at a time *)

\* While nobody has selected t out of another's hands, exactly one process has
\* it, its row is what that process thinks it is, and the debit follows the
\* status S.
Clean(t) ==
  /\ req[t] \in Active => \A r \in Reconcilers : ~Holds(r, t)
  /\ \A r, q \in Reconcilers : Holds(r, t) /\ Holds(q, t) => r = q
  /\ \A r \in Reconcilers : rec[r].at = t => t \notin rec[r].todo
  /\ req[t] \in {"idle", "validated", "rejected"} => row[t].status = "none"
  /\ req[t] \in {"created", "sent"} => row[t].status = "P"
  /\ req[t] = "marked" => inst[t] = row[t] /\ row[t].status = "S" /\ charges[t] = 0
  /\ req[t] = "closing" => inst[t] = row[t] /\ row[t].status \in {"S", "F", "U"}
  /\ \A r \in Reconcilers : t \in rec[r].todo => row[t].status \in {"U", "P"}
  /\ \A r \in Reconcilers : rec[r].at = t =>
        row[t].status = "S" /\ (rec[r].pc = "debiting" => charges[t] = 0)
  /\ charges[t] <= 1 /\ (row[t].status # "S" => charges[t] = 0)
  /\ row[t].status = "S" => charges[t] = 1 \/ AboutToDebit(t) \/ lostDebit[t]

CleanInv == \A t \in Trx : ~overlapped[t] => Clean(t)

\* What Clean(t) looks at.
Seen(t) == <<req[t], row[t], inst[t], charges[t], lostDebit[t]>>

\* Steps of other transactions' requests, and of the provider.
LEMMA CleanUntouched ==
  ASSUME NEW t \in Trx, Clean(t), UNCHANGED <<Seen(t), rec>>
  PROVE  Clean(t)'
BY DEF Clean, Seen, Holds, AboutToDebit

LEMMA RequestFrame ==
  ASSUME TypeOK, NEW u \in Trx, Request(u), NEW t \in Trx \ {u}
  PROVE  UNCHANGED <<Seen(t), rec, overlapped>>
BY DEF Request, Validate, CreateRow, InternalError, AnswerPaid, AnswerUnknown, AnswerRefused,
       TimedOut, ExternalError, DebitRequest, FinalSave, RequestDies, Mark, Post, DebitFor,
       Seen, TypeOK, books

\* The request's own steps.
LEMMA CleanRequest ==
  ASSUME TypeOK, NEW t \in Trx, Clean(t), Request(t)
  PROVE  Clean(t)'
<1>1. UNCHANGED rec
  BY DEF Request, Validate, CreateRow, InternalError, AnswerPaid, AnswerUnknown, AnswerRefused,
         TimedOut, ExternalError, DebitRequest, FinalSave, RequestDies, Mark, Post
<1>2. \A r \in Reconcilers : Holds(r, t)' = Holds(r, t)
  BY <1>1 DEF Holds
<1>3. row[t].status = "none" => \A r \in Reconcilers : ~Holds(r, t)
  BY DEF Clean, Holds
<1>4. charges[t] \in Nat
  BY DEF TypeOK
<1>5. CASE Validate(t)
  <2>1. req[t] = "idle" /\ req'[t] \in {"validated", "rejected"} /\ UNCHANGED <<row, inst, charges, lostDebit>>
    BY <1>5 DEF Validate, TypeOK, books
  <2>2. QED
    BY <1>1, <1>2, <2>1 DEF Clean, AboutToDebit, Active
<1>6. CASE CreateRow(t)
  <2>1. CASE RefTaken(ref[t])
    <3>1. req[t] = "validated" /\ req'[t] = "rejected" /\ UNCHANGED <<row, inst, charges, lostDebit>>
      BY <1>6, <2>1 DEF CreateRow, TypeOK, books
    <3>2. QED
      BY <1>1, <1>2, <3>1 DEF Clean, AboutToDebit, Active
  <2>2. CASE ~RefTaken(ref[t])
    <3>1. req[t] = "validated" /\ req'[t] = "created" /\ row'[t].status = "P"
          /\ UNCHANGED <<charges, lostDebit>>
      BY <1>6, <2>2 DEF CreateRow, TypeOK, books, Row
    <3>2. QED
      BY <1>1, <1>2, <1>3, <3>1 DEF Clean, AboutToDebit, Active, Holds
  <2>3. QED
    BY <2>1, <2>2
<1>7. CASE Post(t)
  <2>1. req[t] = "created" /\ req'[t] = "sent" /\ UNCHANGED <<row, inst, charges, lostDebit>>
    BY <1>7 DEF Post, TypeOK, books
  <2>2. QED
    BY <1>1, <1>2, <2>1 DEF Clean, AboutToDebit, Active
<1>8. ASSUME NEW status \in {"S", "F", "U"}, NEW code, NEW next,
             next = IF status = "S" THEN "marked" ELSE "closing",
             req[t] \in {"created", "sent"}, Mark(t, status, code, next)
      PROVE  Clean(t)'
  <2>1. req'[t] = next /\ row'[t] = Row(status, code) /\ inst'[t] = row'[t]
        /\ UNCHANGED <<charges, lostDebit>>
    BY <1>8 DEF Mark, TypeOK, books
  <2>2. row'[t].status = status
    BY <2>1 DEF Row
  <2>3. charges[t] = 0 /\ \A r \in Reconcilers : ~Holds(r, t)
    BY <1>8 DEF Clean, Active
  <2>4. QED
    BY <1>1, <1>2, <1>8, <2>1, <2>2, <2>3 DEF Clean, AboutToDebit, Active, Holds
<1>9. CASE InternalError(t) \/ AnswerUnknown(t) \/ AnswerRefused(t) \/ TimedOut(t) \/ ExternalError(t)
  BY <1>8, <1>9 DEF InternalError, AnswerUnknown, AnswerRefused, TimedOut, ExternalError
<1>10. CASE AnswerPaid(t)
  BY <1>8, <1>10 DEF AnswerPaid
<1>11. CASE DebitRequest(t)
  <2>1. req[t] = "marked" /\ req'[t] = "closing" /\ charges'[t] = charges[t] + 1
        /\ UNCHANGED <<row, inst, lostDebit>>
    BY <1>11 DEF DebitRequest, DebitFor, TypeOK
  <2>2. charges'[t] = 1 /\ row'[t].status = "S" /\ inst'[t] = row'[t]
        /\ \A r \in Reconcilers : ~Holds(r, t)
    BY <2>1 DEF Clean, Active
  <2>3. QED
    BY <1>1, <1>2, <2>1, <2>2 DEF Clean, Active, Holds
<1>12. CASE FinalSave(t)
  <2>1. req[t] = "closing" /\ req'[t] = "done" /\ row'[t] = inst[t] /\ UNCHANGED <<inst, charges, lostDebit>>
    BY <1>12 DEF FinalSave, TypeOK, books
  <2>2. row'[t] = row[t]
    BY <2>1 DEF Clean
  <2>3. QED
    BY <1>1, <1>2, <2>1, <2>2 DEF Clean, AboutToDebit, Active
<1>13. CASE RequestDies(t)
  <2>1. req'[t] = "dead" /\ UNCHANGED <<row, inst, charges>>
        /\ lostDebit'[t] = (lostDebit[t] \/ req[t] = "marked")
    BY <1>13 DEF RequestDies, TypeOK
  <2>2. QED
    BY <1>1, <1>2, <2>1 DEF Clean, AboutToDebit, Active
<1>14. QED
  BY <1>5, <1>6, <1>7, <1>9, <1>10, <1>11, <1>12, <1>13 DEF Request

LEMMA RecUpdate ==
  ASSUME TypeOK, NEW r \in Reconcilers, NEW run, rec' = [rec EXCEPT ![r] = run]
  PROVE  \A q \in Reconcilers : rec'[q] = IF q = r THEN run ELSE rec[q]
BY DEF TypeOK

\* A run goes on, and t is not the row it deals with.
LEMMA CleanOtherRow ==
  ASSUME TypeOK, NEW t \in Trx, Clean(t), UNCHANGED Seen(t),
         NEW r \in Reconcilers, NEW run, rec' = [rec EXCEPT ![r] = run],
         t \in run.todo => t \in rec[r].todo, run.at # t, rec[r].at # t
  PROVE  Clean(t)'
<1>1. \A q \in Reconcilers : rec'[q] = IF q = r THEN run ELSE rec[q]
  BY RecUpdate
<1>2. \A q \in Reconcilers : Holds(q, t)' => Holds(q, t)
  BY <1>1 DEF Holds
<1>3. AboutToDebit(t) => AboutToDebit(t)'
  BY <1>1 DEF AboutToDebit, Seen
<1>4. QED
  BY <1>1, <1>2, <1>3 DEF Clean, Seen

\* A run is done with t, or drops it: its row stays open, fails, or stays
\* successful and debited.
LEMMA CleanReleased ==
  ASSUME TypeOK, NEW t \in Trx, Clean(t), UNCHANGED <<req, inst>>,
         NEW r \in Reconcilers, NEW run, rec' = [rec EXCEPT ![r] = run],
         Holds(r, t), t \notin run.todo, run.at # t,
         charges'[t] <= 1 /\ charges'[t] \in Nat, row'[t].status # "none",
         row'[t].status # "S" => charges'[t] = 0,
         row'[t].status = "S" => charges'[t] = 1 \/ lostDebit'[t]
  PROVE  Clean(t)'
<1>1. \A q \in Reconcilers : rec'[q] = IF q = r THEN run ELSE rec[q]
  BY RecUpdate
<1>2. \A q \in Reconcilers : ~Holds(q, t)'
  BY <1>1 DEF Holds, Clean
<1>3. req[t] \notin Active /\ req[t] \notin {"idle", "validated", "rejected"}
  <2>1. row[t].status # "none"
    BY DEF Holds, Clean
  <2>2. QED
    BY <2>1 DEF Clean
<1>4. QED
  BY <1>2, <1>3 DEF Clean, Holds, Active

\* A run has found t to be successful and goes on to debit it.
LEMMA CleanSuccessful ==
  ASSUME TypeOK, NEW t \in Trx, Clean(t), NEW r \in Reconcilers,
         t \in rec[r].todo, SaveSuccessful(r, t)
  PROVE  Clean(t)'
<1> DEFINE run == Run("debiting", rec[r].todo \ {t}, t, rec[r].seen)
<1>1. rec' = [rec EXCEPT ![r] = run] /\ row'[t].status = "S" /\ UNCHANGED <<req, inst, charges, lostDebit>>
  BY DEF SaveSuccessful, TypeOK, Row, books
<1>2. run.pc = "debiting" /\ run.todo = rec[r].todo \ {t} /\ run.at = t
  BY DEF Run
<1> HIDE DEF run
<1>3. \A q \in Reconcilers : rec'[q] = IF q = r THEN run ELSE rec[q]
  BY <1>1, RecUpdate
<1>4. Holds(r, t) /\ \A q \in Reconcilers : Holds(q, t) => q = r
  BY DEF Holds, Clean
<1>5. Holds(r, t)' /\ \A q \in Reconcilers : Holds(q, t)' => q = r
  BY <1>2, <1>3, <1>4 DEF Holds
<1>6. row[t].status \in {"U", "P"} /\ charges[t] = 0 /\ req[t] \notin Active
      /\ req[t] \notin {"idle", "validated", "rejected"}
  BY <1>4 DEF Clean
<1>7. AboutToDebit(t)'
  BY <1>2, <1>3 DEF AboutToDebit
<1>8. \A q \in Reconcilers : t \notin rec'[q].todo
  BY <1>2, <1>3, <1>4 DEF Holds
<1>9. QED
  BY <1>1, <1>2, <1>3, <1>5, <1>6, <1>7, <1>8 DEF Clean, Active

\* A run selects its rows; t is not taken from anybody.
LEMMA CleanSelect ==
  ASSUME TypeOK, NEW t \in Trx, Clean(t), NEW r \in Reconcilers, NEW rows \in SUBSET Trx,
         rec[r].pc \in {"idle", "exported"}, Select(r, rows), ~overlapped'[t],
         t \in rows => row[t].status \in {"U", "P"}
  PROVE  Clean(t)'
<1> DEFINE run == IF rows = {} THEN Idle ELSE Run("looping", rows, NoTrx, rec[r].seen)
<1>1. rec' = [rec EXCEPT ![r] = run] /\ UNCHANGED Seen(t)
  BY DEF Select, Loop, Seen
<1>2. run.todo = rows /\ run.at # t /\ run.pc # "debiting"
  BY WalletAssumption DEF Idle, Run
<1>3. rec[r].at # t
  BY DEF TypeOK
<1> HIDE DEF run
<1>4. CASE t \notin rows
  BY <1>1, <1>2, <1>3, <1>4, CleanOtherRow
<1>5. CASE t \in rows
  <2>1. ~Held(t)
    BY <1>5 DEF Select
  <2>2. \A q \in Reconcilers : rec'[q] = IF q = r THEN run ELSE rec[q]
    BY <1>1, RecUpdate
  <2>3. \A q \in Reconcilers : Holds(q, t)' => q = r
    BY <2>1, <2>2 DEF Held, Holds
  <2>4. row[t].status \in {"U", "P"} /\ charges[t] = 0 /\ req[t] \notin Active
        /\ req[t] \notin {"idle", "validated", "rejected"}
    BY <1>5, <2>1 DEF Clean, Held
  <2>5. \A q \in Reconcilers : rec'[q].at # t
    BY <1>2, <2>1, <2>2 DEF Held, Holds
  <2>6. QED
    BY <1>1, <2>3, <2>4, <2>5 DEF Clean, Seen, Active
<1>6. QED
  BY <1>4, <1>5

\* Every step of a run, for a transaction it did not take from anybody.
LEMMA CleanReconcile ==
  ASSUME TypeOK, NEW t \in Trx, Clean(t), NEW r \in Reconcilers,
         Poll(r) \/ Upload(r) \/ RunDies(r), ~overlapped'[t]
  PROVE  Clean(t)'
<1> DEFINE after(todo) == IF todo = {} THEN Idle ELSE Run("looping", todo, NoTrx, rec[r].seen)
<1>1. \A todo : after(todo).todo = todo /\ after(todo).at = NoTrx
  BY DEF Idle, Run
<1>2. NoTrx # t /\ charges[t] \in Nat
  BY WalletAssumption DEF TypeOK
<1>3. rec[r].pc \notin {"debiting", "resaving"} => rec[r].at # t
  BY DEF TypeOK
<1>4. \A todo : Loop(r, todo) => rec' = [rec EXCEPT ![r] = after(todo)]
  BY DEF Loop
<1> HIDE DEF after
\* a row that stays open, or fails
<1>5. ASSUME NEW u \in Trx, u \in rec[r].todo, rec[r].pc = "looping", Loop(r, rec[r].todo \ {u}),
             UNCHANGED <<req, inst, charges, lostDebit>>,
             \/ row' = row
             \/ row' = [row EXCEPT ![u].status = "F"]
      PROVE  Clean(t)'
  <2>1. rec' = [rec EXCEPT ![r] = after(rec[r].todo \ {u})]
    BY <1>4, <1>5
  <2>2. CASE u = t
    <3>1. row[t].status \in {"U", "P"} /\ charges[t] = 0 /\ Holds(r, t)
      BY <1>5, <2>2 DEF Clean, Holds
    <3>2. row'[t].status \in {"U", "P", "F"}
      BY <1>5, <2>2, <3>1 DEF TypeOK, Rows
    <3> DEFINE run == after(rec[r].todo \ {u})
    <3>3. t \notin run.todo /\ run.at # t /\ rec' = [rec EXCEPT ![r] = run]
      BY <1>1, <1>2, <2>1, <2>2
    <3>4. charges'[t] = 0 /\ UNCHANGED <<req, inst>>
      BY <1>5, <3>1
    <3> HIDE DEF run
    <3>5. charges'[t] <= 1 /\ charges'[t] \in Nat /\ row'[t].status # "none" /\ row'[t].status # "S"
      BY <3>2, <3>4
    <3>6. QED
      BY <3>1, <3>3, <3>4, <3>5, CleanReleased
  <2>3. CASE u # t
    <3>1. UNCHANGED Seen(t)
      BY <1>5, <2>3 DEF Seen, TypeOK
    <3> DEFINE run == after(rec[r].todo \ {u})
    <3>2. run.todo \subseteq rec[r].todo /\ run.at # t /\ rec[r].at # t /\ rec' = [rec EXCEPT ![r] = run]
      BY <1>1, <1>2, <1>3, <1>5, <2>1
    <3> HIDE DEF run
    <3>3. QED
      BY <3>1, <3>2, CleanOtherRow
  <2>4. QED
    BY <2>2, <2>3
<1>6. ASSUME NEW u \in Trx, u \in rec[r].todo, rec[r].pc = "looping", SaveSuccessful(r, u)
      PROVE  Clean(t)'
  <2>1. CASE u = t
    BY <1>6, <2>1, CleanSuccessful
  <2>2. CASE u # t
    <3> DEFINE run == Run("debiting", rec[r].todo \ {u}, u, rec[r].seen)
    <3>1. rec' = [rec EXCEPT ![r] = run] /\ UNCHANGED Seen(t)
      BY <1>6, <2>2 DEF SaveSuccessful, Seen, TypeOK, books
    <3>2. run.todo \subseteq rec[r].todo /\ run.at # t
      BY <2>2 DEF Run
    <3> HIDE DEF run
    <3>3. QED
      BY <1>3, <1>6, <3>1, <3>2, CleanOtherRow
  <2>3. QED
    BY <2>1, <2>2
<1>7. ASSUME NEW u \in Trx, PollInquire(r, u) PROVE Clean(t)'
  BY <1>5, <1>6, <1>7 DEF PollInquire, SaveFailed, books
<1>8. ASSUME NEW u \in Trx, ReportRow(r, u) PROVE Clean(t)'
  BY <1>5, <1>6, <1>8 DEF ReportRow, SaveFailed, books
<1>9. CASE PollSelect(r)
  <2> DEFINE rows == {u \in Polled : row[u].status \in {"U", "P"}}
  <2>1. Select(r, rows) /\ rec[r].pc = "idle" /\ rows \in SUBSET Trx
        /\ (t \in rows => row[t].status \in {"U", "P"})
    BY <1>9, WalletAssumption DEF PollSelect
  <2> HIDE DEF rows
  <2>2. QED
    BY <2>1, CleanSelect
<1>10. CASE ReportSelect(r)
  <2> DEFINE rows == {u \in Trx : row[u] = Row("U", "501")}
  <2>1. Select(r, rows) /\ rec[r].pc = "exported" /\ rows \in SUBSET Trx
        /\ (t \in rows => row[t].status \in {"U", "P"})
    BY <1>10 DEF ReportSelect, Row
  <2> HIDE DEF rows
  <2>2. QED
    BY <2>1, CleanSelect
<1>11. ASSUME NEW run, rec' = [rec EXCEPT ![r] = run], run.at # t, run.todo \subseteq rec[r].todo,
              rec[r].pc = "debiting", rec[r].at \in Trx, DebitFor(rec[r].at),
              UNCHANGED <<req, row, inst, lostDebit>>
       PROVE  Clean(t)'
  <2>1. CASE rec[r].at = t
    <3>1. Holds(r, t) /\ row[t].status = "S" /\ charges[t] = 0 /\ t \notin rec[r].todo
      BY <1>11, <2>1 DEF Clean, Holds
    <3>2. charges'[t] = 1
      BY <1>11, <2>1, <3>1 DEF DebitFor, TypeOK
    <3>3. t \notin run.todo /\ row' = row /\ UNCHANGED <<req, inst>>
      BY <1>11, <3>1
    <3>4. rec' = [rec EXCEPT ![r] = run] /\ run.at # t
      BY <1>11
    <3>5. charges'[t] <= 1 /\ charges'[t] \in Nat /\ row'[t].status = "S" /\ row'[t].status # "none"
      BY <3>1, <3>2, <3>3
    <3>6. QED
      BY <3>1, <3>2, <3>3, <3>4, <3>5, CleanReleased
  <2>2. CASE rec[r].at # t
    <3>1. UNCHANGED Seen(t)
      BY <1>11, <2>2 DEF DebitFor, Seen, TypeOK
    <3>2. QED
      BY <1>11, <2>2, <3>1, CleanOtherRow
  <2>3. QED
    BY <2>1, <2>2
<1>12. CASE PollDebit(r)
  <2>1. rec' = [rec EXCEPT ![r] = after(rec[r].todo)] /\ rec[r].at \in Trx /\ rec[r].pc = "debiting"
    BY <1>4, <1>12 DEF PollDebit, TypeOK
  <2>2. QED
    BY <1>1, <1>2, <1>11, <1>12, <2>1 DEF PollDebit
<1>13. CASE ReportExport(r)
  <2> DEFINE run == Run("exported", {}, NoTrx, {u \in Trx : provider[u] = "paid"})
  <2>1. rec' = [rec EXCEPT ![r] = run] /\ UNCHANGED Seen(t) /\ rec[r].pc = "idle"
    BY <1>13 DEF ReportExport, Seen, books
  <2>2. run.todo = {} /\ run.at = NoTrx
    BY DEF Run
  <2> HIDE DEF run
  <2>3. QED
    BY <1>2, <1>3, <2>1, <2>2, CleanOtherRow
<1>14. CASE ReportDebit(r)
  <2> DEFINE run == Run("resaving", rec[r].todo, rec[r].at, rec[r].seen)
  <2>1. rec' = [rec EXCEPT ![r] = run] /\ UNCHANGED <<req, row, inst, lostDebit>>
        /\ rec[r].pc = "debiting" /\ rec[r].at \in Trx /\ DebitFor(rec[r].at)
    BY <1>14 DEF ReportDebit, TypeOK
  <2>2. run.todo = rec[r].todo /\ run.at = rec[r].at /\ run.pc = "resaving"
    BY DEF Run
  <2> HIDE DEF run
  <2>3. \A q \in Reconcilers : rec'[q] = IF q = r THEN run ELSE rec[q]
    BY <2>1, RecUpdate
  <2>4. \A q \in Reconcilers : Holds(q, t)' = Holds(q, t)
    BY <2>2, <2>3 DEF Holds
  <2>5. CASE rec[r].at = t
    <3>1. Holds(r, t) /\ row[t].status = "S" /\ charges[t] = 0 /\ t \notin rec[r].todo /\ req[t] \notin Active
      BY <2>1, <2>5 DEF Clean, Holds
    <3>2. charges'[t] = 1
      BY <2>1, <2>5, <3>1 DEF DebitFor, TypeOK
    <3>3. \A q \in Reconcilers : rec'[q].at = t => rec'[q].pc = "resaving"
      BY <2>2, <2>3, <2>4, <3>1 DEF Clean, Holds
    <3>4. req'[t] = req[t] /\ row'[t] = row[t] /\ inst'[t] = inst[t]
      BY <2>1
    <3>5. \A q \in Reconcilers : rec'[q].todo = rec[q].todo /\ rec'[q].at = rec[q].at
      BY <2>2, <2>3
    <3>6. QED
      BY <2>4, <3>1, <3>2, <3>3, <3>4, <3>5 DEF Clean, Active
  <2>6. CASE rec[r].at # t
    <3>1. UNCHANGED Seen(t)
      BY <2>1, <2>6 DEF DebitFor, Seen, TypeOK
    <3>2. QED
      BY <2>1, <2>2, <2>6, <3>1, CleanOtherRow
  <2>7. QED
    BY <2>5, <2>6
<1>15. CASE ReportResave(r)
  <2>1. rec' = [rec EXCEPT ![r] = after(rec[r].todo)] /\ rec[r].at \in Trx /\ rec[r].pc = "resaving"
        /\ row' = [row EXCEPT ![rec[r].at] = Row("S", "200")] /\ UNCHANGED <<req, inst, charges, lostDebit>>
    BY <1>4, <1>15 DEF ReportResave, TypeOK, books
  <2>2. CASE rec[r].at = t
    <3>1. Holds(r, t) /\ row[t].status = "S" /\ t \notin rec[r].todo /\ req[t] \notin Active
          /\ charges[t] <= 1
      BY <2>1, <2>2 DEF Clean, Holds
    <3>2. ~AboutToDebit(t)
      BY <2>1, <2>2, <3>1 DEF Clean, Holds, AboutToDebit, Active
    <3>3. row'[t].status = "S"
      BY <2>1, <2>2 DEF Row, TypeOK
    <3>4. charges[t] = 1 \/ lostDebit[t]
      BY <3>1, <3>2 DEF Clean
    <3> DEFINE run == after(rec[r].todo)
    <3>5. t \notin run.todo /\ run.at # t /\ rec' = [rec EXCEPT ![r] = run]
      BY <1>1, <1>2, <2>1, <3>1
    <3>6. UNCHANGED <<req, inst>> /\ charges'[t] = charges[t] /\ lostDebit'[t] = lostDebit[t]
      BY <2>1
    <3> HIDE DEF run
    <3>7. QED
      BY <1>2, <3>1, <3>3, <3>4, <3>5, <3>6, CleanReleased
  <2>3. CASE rec[r].at # t
    <3>1. UNCHANGED Seen(t)
      BY <2>1, <2>3 DEF Seen, TypeOK
    <3>2. QED
      BY <1>1, <1>2, <2>1, <2>3, <3>1, CleanOtherRow
  <2>4. QED
    BY <2>2, <2>3
<1>16. CASE RunDies(r)
  <2>1. rec' = [rec EXCEPT ![r] = Idle] /\ UNCHANGED <<req, row, inst, charges>>
        /\ lostDebit'[t] = (lostDebit[t] \/ (rec[r].pc = "debiting" /\ t = rec[r].at))
    BY <1>16 DEF RunDies
  <2>2. Idle.todo = {} /\ Idle.at # t
    BY <1>2 DEF Idle, Run
  <2>3. CASE ~Holds(r, t)
    <3>1. UNCHANGED Seen(t)
      BY <2>1, <2>3 DEF Seen, Holds, TypeOK
    <3>2. QED
      BY <2>1, <2>2, <2>3, <3>1, CleanOtherRow DEF Holds
  <2>4. CASE Holds(r, t)
    <3>1. row[t].status \in {"U", "P", "S"} /\ req[t] \notin Active /\ charges[t] <= 1
          /\ (row[t].status # "S" => charges[t] = 0)
      BY <2>4 DEF Clean, Holds
    <3>2. row[t].status = "S" => charges[t] = 1 \/ lostDebit'[t]
      <4>1. AboutToDebit(t) => rec[r].pc = "debiting" /\ rec[r].at = t
        BY <2>4, <3>1 DEF AboutToDebit, Clean, Holds, Active
      <4>2. QED
        BY <2>1, <4>1 DEF Clean
    <3>3. QED
      BY <1>2, <2>1, <2>2, <2>4, <3>1, <3>2, CleanReleased
  <2>5. QED
    BY <2>3, <2>4
<1>17. QED
  BY <1>7, <1>8, <1>9, <1>10, <1>12, <1>13, <1>14, <1>15, <1>16 DEF Poll, Upload

LEMMA OverlappedStays == TypeOK /\ [Step]_vars => \A t \in Trx : overlapped[t] => overlapped'[t]
<1> SUFFICES ASSUME TypeOK, [Step]_vars, NEW t \in Trx, overlapped[t] PROVE overlapped'[t]
  OBVIOUS
<1>1. ASSUME NEW r \in Reconcilers, NEW rows, Select(r, rows) PROVE overlapped'[t]
  BY <1>1 DEF Select
<1>2. CASE UNCHANGED overlapped
  BY <1>2
<1>3. ASSUME NEW u \in Trx, Request(u) PROVE UNCHANGED overlapped
  BY <1>3 DEF Request, Validate, CreateRow, InternalError, AnswerPaid, AnswerUnknown, AnswerRefused,
       TimedOut, ExternalError, DebitRequest, FinalSave, RequestDies, Mark, Post, books
<1>4. ASSUME NEW r \in Reconcilers, Poll(r) \/ Upload(r) \/ RunDies(r)
      PROVE  UNCHANGED overlapped \/ overlapped'[t]
  <2>1. CASE PollSelect(r) \/ ReportSelect(r)
    BY <1>1, <2>1 DEF PollSelect, ReportSelect
  <2>2. CASE ~(PollSelect(r) \/ ReportSelect(r))
    BY <1>4, <2>2 DEF Poll, Upload, RunDies, PollInquire, PollDebit, ReportExport,
         ReportRow, ReportDebit, ReportResave, SaveSuccessful, SaveFailed, books
  <2>3. QED
    BY <2>1, <2>2
<1>5. QED
  BY <1>2, <1>3, <1>4 DEF Step, vars, books, Pays, Refuses, Reconcilers

LEMMA CleanStep == TypeOK /\ CleanInv /\ [Step]_vars => CleanInv'
<1> SUFFICES ASSUME TypeOK, CleanInv, [Step]_vars, NEW t \in Trx, ~overlapped'[t]
             PROVE  Clean(t)'
  BY DEF CleanInv
<1>1. Clean(t)
  BY OverlappedStays DEF CleanInv
<1>2. ASSUME NEW u \in Trx, Request(u) PROVE Clean(t)'
  <2>1. CASE u = t
    BY <1>1, <1>2, <2>1, CleanRequest
  <2>2. CASE u # t
    BY <1>1, <1>2, <2>2, CleanUntouched, RequestFrame
  <2>3. QED
    BY <2>1, <2>2
<1>3. ASSUME NEW u \in Trx, Pays(u) \/ Refuses(u) PROVE Clean(t)'
  BY <1>1, <1>3, CleanUntouched DEF Pays, Refuses, Seen, books
<1>4. ASSUME NEW r \in Reconcilers, Poll(r) \/ Upload(r) \/ RunDies(r) PROVE Clean(t)'
  BY <1>1, <1>4, CleanReconcile
<1>5. CASE UNCHANGED vars
  BY <1>1, <1>5, CleanUntouched DEF vars, Seen, books
<1>6. QED
  BY <1>2, <1>3, <1>4, <1>5 DEF Step, Reconcilers

LEMMA CleanAlways == Spec => []CleanInv
<1>1. Init => CleanInv
  BY WalletAssumption DEF Init, CleanInv, Clean, Active, Holds, AboutToDebit, Idle, Run, NoRow, Row
<1>2. QED
  BY <1>1, CleanStep, TypeCorrect, PTL DEF Spec

\* Nothing debits a transaction twice but two processes that had it at once.
THEOREM ChargedOnceTheorem == Spec => []ChargedOnceUnlessOverlapped
<1>1. CleanInv => ChargedOnceUnlessOverlapped
  BY DEF CleanInv, Clean, ChargedOnceUnlessOverlapped
<1>2. QED
  BY <1>1, CleanAlways, PTL

\* What is reported successful is debited, but for a crash at the debit itself.
THEOREM SuccessfulIsChargedTheorem == Spec => []SuccessfulIsCharged
<1>1. CleanInv => SuccessfulIsCharged
  BY DEF CleanInv, Clean, SuccessfulIsCharged
<1>2. QED
  BY <1>1, CleanAlways, PTL

-----------------------------------------------------------------------------
(* Final statuses *)

LEMMA FinalRequest ==
  ASSUME TypeOK, NEW t \in Trx, Clean(t), row[t].status \in {"S", "F"}, NEW u \in Trx, Request(u)
  PROVE  row'[t].status = row[t].status
<1>1. CASE u # t
  BY <1>1, RequestFrame DEF Seen
<1>2. CASE u = t
  <2>1. req[t] \notin {"idle", "validated", "created", "sent"}
    BY DEF Clean
  <2>2. CASE FinalSave(t)
    <3>1. row' = [row EXCEPT ![t] = inst[t]] /\ inst[t] = row[t]
      BY <2>2 DEF FinalSave, Clean
    <3>2. QED
      BY <3>1 DEF TypeOK
  <2>3. CASE DebitRequest(t) \/ RequestDies(t)
    BY <2>3 DEF DebitRequest, RequestDies
  <2>4. QED
    BY <1>2, <2>1, <2>2, <2>3 DEF Request, Validate, CreateRow, InternalError, Post, AnswerPaid,
         AnswerUnknown, AnswerRefused, TimedOut, ExternalError
<1>3. QED
  BY <1>1, <1>2

LEMMA FinalReconcile ==
  ASSUME TypeOK, NEW t \in Trx, Clean(t), row[t].status \in {"S", "F"},
         NEW r \in Reconcilers, Poll(r) \/ Upload(r) \/ RunDies(r)
  PROVE  row'[t].status = row[t].status
<1>1. t \notin rec[r].todo
  BY DEF Clean
<1>2. ASSUME NEW u \in Trx, u \in rec[r].todo, SaveSuccessful(r, u) \/ SaveFailed(r, u)
      PROVE  row'[t].status = row[t].status
  BY <1>1, <1>2 DEF SaveSuccessful, SaveFailed, TypeOK
<1>3. ASSUME NEW u \in Trx, PollInquire(r, u) \/ ReportRow(r, u)
      PROVE  row'[t].status = row[t].status
  BY <1>2, <1>3 DEF PollInquire, ReportRow
<1>4. CASE ReportResave(r)
  <2>1. row' = [row EXCEPT ![rec[r].at] = Row("S", "200")] /\ rec[r].at \in Trx
    BY <1>4 DEF ReportResave, TypeOK
  <2>2. rec[r].at = t => row[t].status = "S"
    BY DEF Clean
  <2>3. QED
    BY <2>1, <2>2 DEF TypeOK, Row
<1>5. QED
  BY <1>3, <1>4 DEF Poll, Upload, RunDies, PollSelect, PollDebit, ReportExport, ReportSelect,
       ReportDebit, Select

\* A final status stays what it is.
THEOREM FinalStatusTheorem == Spec => FinalStatusKept
<1> DEFINE Kept == \A t \in Trx : row[t].status \in {"S", "F"} /\ ~overlapped'[t]
                     => row'[t].status = row[t].status
<1>1. TypeOK /\ CleanInv /\ [Step]_vars => [Kept]_vars
  <2> SUFFICES ASSUME TypeOK, CleanInv, Step, NEW t \in Trx,
                      row[t].status \in {"S", "F"}, ~overlapped'[t]
               PROVE  row'[t].status = row[t].status
    OBVIOUS
  <2>1. Clean(t)
    BY OverlappedStays DEF CleanInv
  <2>2. QED
    BY <2>1, FinalRequest, FinalReconcile DEF Step, Reconcilers, Pays, Refuses
<1>2. QED
  BY <1>1, TypeCorrect, CleanAlways, PTL DEF Spec, FinalStatusKept

-----------------------------------------------------------------------------
(* Client references *)

\* Only recorded transactions reach the provider, and no two recorded
\* transactions share a reference.
RefInv ==
  /\ \A t \in Trx : req[t] \in {"idle", "validated", "rejected"} => row[t].status = "none"
  /\ \A t \in Trx : req[t] \in Active => row[t].status # "none" /\ inst[t].status # "none"
  /\ \A t \in Trx : provider[t] # "none" => row[t].status # "none"
  /\ \A r \in Reconcilers : \A t \in Trx : Holds(r, t) => row[t].status # "none"
  /\ \A t, u \in Trx : t # u /\ ref[t] = ref[u] /\ ref[t] # NoRef
                         => row[t].status = "none" \/ row[u].status = "none"

\* A step that records nothing new and lets nobody else's row go keeps it.
LEMMA RefFrame ==
  ASSUME TypeOK, RefInv, UNCHANGED ref,
         \A t \in Trx : (row'[t].status = "none") = (row[t].status = "none"),
         \A t \in Trx : req'[t] \in {"idle", "validated", "rejected"} => req[t] = req'[t],
         \A t \in Trx : req'[t] \in Active
            => req[t] \in Active /\ (inst'[t] = inst[t] \/ inst'[t].status # "none"),
         \A t \in Trx : provider'[t] # "none" => provider[t] # "none" \/ req[t] \in Active,
         \A r \in Reconcilers : \A t \in Trx : Holds(r, t)' => row[t].status # "none"
  PROVE  RefInv'
BY DEF RefInv, TypeOK

LEMMA RefMark ==
  ASSUME TypeOK, RefInv, NEW t \in Trx, req[t] \in Active, UNCHANGED <<ref, provider, rec>>,
         NEW next \in {"marked", "closing", "done", "dead"}, req' = [req EXCEPT ![t] = next],
         \/ UNCHANGED <<row, inst>>
         \/ /\ row' = [row EXCEPT ![t] = inst'[t]] /\ inst'[t].status # "none"
            /\ \A u \in Trx \ {t} : inst'[u] = inst[u]
  PROVE  RefInv'
<1>1. \A u \in Trx : (row'[u].status = "none") = (row[u].status = "none")
  BY DEF RefInv, TypeOK
<1>2. \A u \in Trx : req'[u] \in {"idle", "validated", "rejected"} => req[u] = req'[u]
  BY DEF TypeOK
<1>3. \A u \in Trx : req'[u] \in Active
            => req[u] \in Active /\ (inst'[u] = inst[u] \/ inst'[u].status # "none")
  BY DEF TypeOK
<1>4. \A r \in Reconcilers : \A u \in Trx : Holds(r, u)' => row[u].status # "none"
  BY DEF Holds, RefInv
<1>5. QED
  BY <1>1, <1>2, <1>3, <1>4, RefFrame

LEMMA RefRequest == ASSUME TypeOK, RefInv, NEW t \in Trx, Request(t) PROVE RefInv'
<1>1. CASE Validate(t)
  <2>1. row[t].status = "none" /\ req'[t] \in {"validated", "rejected"}
        /\ UNCHANGED <<row, inst, provider, rec>>
        /\ (\A u \in Trx \ {t} : req'[u] = req[u] /\ ref'[u] = ref[u])
    BY <1>1 DEF Validate, RefInv, TypeOK
  <2>2. QED
    BY <2>1 DEF RefInv, Holds, Active
<1>2. CASE CreateRow(t)
  <2>1. CASE RefTaken(ref[t])
    BY <1>2, <2>1 DEF CreateRow, RefInv, Holds, Active, TypeOK
  <2>2. CASE ~RefTaken(ref[t])
    <3>1. req'[t] = "created" /\ row'[t].status = "P" /\ inst'[t].status = "P"
          /\ UNCHANGED <<ref, provider, rec>>
          /\ \A u \in Trx \ {t} : req'[u] = req[u] /\ row'[u] = row[u] /\ inst'[u] = inst[u]
      BY <1>2, <2>2 DEF CreateRow, TypeOK, Row
    <3>2. \A u \in Trx \ {t} : ref[u] = ref[t] /\ ref[t] # NoRef => row[u].status = "none"
      BY <2>2 DEF RefTaken
    <3>3. QED
      BY <3>1, <3>2 DEF RefInv, Holds, Active
  <2>3. QED
    BY <2>1, <2>2
<1>3. ASSUME NEW status \in {"S", "U", "F"}, NEW code, NEW next \in {"marked", "closing"},
             Mark(t, status, code, next), req[t] \in Active
      PROVE  RefInv'
  <2>1. inst'[t] = Row(status, code) /\ inst'[t].status # "none"
        /\ \A u \in Trx \ {t} : inst'[u] = inst[u]
    BY <1>3 DEF Mark, Row, TypeOK
  <2>2. QED
    BY <1>3, <2>1, RefMark DEF Mark
<1>4. CASE InternalError(t) \/ AnswerPaid(t) \/ AnswerUnknown(t) \/ AnswerRefused(t)
           \/ TimedOut(t) \/ ExternalError(t)
  BY <1>3, <1>4 DEF InternalError, AnswerPaid, AnswerUnknown, AnswerRefused, TimedOut,
       ExternalError, Active
<1>5. CASE Post(t)
  <2>1. req[t] = "created" /\ req' = [req EXCEPT ![t] = "sent"] /\ UNCHANGED <<row, inst, rec, ref>>
        /\ (\A u \in Trx \ {t} : provider'[u] = provider[u])
    BY <1>5 DEF Post, TypeOK
  <2>2. QED
    BY <2>1 DEF RefInv, Holds, Active, TypeOK
<1>6. CASE DebitRequest(t) \/ RequestDies(t)
  BY <1>6, RefMark DEF DebitRequest, RequestDies, Active
<1>7. CASE FinalSave(t)
  <2>1. inst'[t] = inst[t] /\ inst[t].status # "none" /\ row' = [row EXCEPT ![t] = inst'[t]]
    BY <1>7 DEF FinalSave, RefInv, Active
  <2>2. QED
    BY <1>7, <2>1, RefMark DEF FinalSave, Active
<1>8. QED
  BY <1>1, <1>2, <1>4, <1>5, <1>6, <1>7 DEF Request

LEMMA RefReconcile ==
  ASSUME TypeOK, RefInv, NEW r \in Reconcilers, Poll(r) \/ Upload(r) \/ RunDies(r)
  PROVE  RefInv'
<1>1. UNCHANGED <<ref, req, inst, provider>>
  BY DEF Poll, Upload, RunDies, PollSelect, PollInquire, PollDebit, ReportExport, ReportSelect,
         ReportRow, ReportDebit, ReportResave, Select, SaveSuccessful, SaveFailed
<1> DEFINE Same == \A t \in Trx : (row'[t].status = "none") = (row[t].status = "none")
           Recorded(run) == \A t \in Trx : t \in run.todo \/ t = run.at => row[t].status # "none"
<1>2. ASSUME Same, NEW run, rec' = [rec EXCEPT ![r] = run], Recorded(run)
      PROVE  RefInv'
  <2>1. \A q \in Reconcilers : rec'[q] = IF q = r THEN run ELSE rec[q]
    BY <1>2, RecUpdate
  <2>2. \A q \in Reconcilers : \A t \in Trx : Holds(q, t)' => row[t].status # "none"
    BY <1>2, <2>1 DEF Holds, RefInv
  <2> HIDE DEF Recorded
  <2>3. QED
    BY <1>1, <1>2, <2>2, RefFrame
<1>3. Recorded(rec[r]) /\ NoTrx \notin Trx
  BY WalletAssumption DEF RefInv, Holds
<1>4. ASSUME NEW todo, Loop(r, todo), Same, \A t \in Trx : t \in todo => row[t].status # "none"
      PROVE  RefInv'
  <2> DEFINE run == IF todo = {} THEN Idle ELSE Run("looping", todo, NoTrx, rec[r].seen)
  <2>1. rec' = [rec EXCEPT ![r] = run] /\ run.todo = todo /\ run.at = NoTrx
    BY <1>4 DEF Loop, Idle, Run
  <2>2. Recorded(run)
    BY <1>3, <1>4, <2>1
  <2> HIDE DEF run
  <2>3. QED
    BY <1>2, <1>4, <2>1, <2>2
<1>5. ASSUME NEW u \in Trx, u \in rec[r].todo, SaveSuccessful(r, u) PROVE RefInv'
  <2> DEFINE run == Run("debiting", rec[r].todo \ {u}, u, rec[r].seen)
  <2>1. rec' = [rec EXCEPT ![r] = run] /\ Recorded(run)
    BY <1>3, <1>5 DEF SaveSuccessful, Run
  <2>2. Same
    BY <1>3, <1>5 DEF SaveSuccessful, Row, TypeOK
  <2> HIDE DEF run, Recorded, Same
  <2>3. QED
    BY <1>2, <2>1, <2>2
<1>6. ASSUME NEW u \in Trx, u \in rec[r].todo, SaveFailed(r, u) PROVE RefInv'
  <2>1. Same /\ Loop(r, rec[r].todo \ {u})
    BY <1>3, <1>6 DEF SaveFailed, TypeOK, Rows
  <2>2. QED
    BY <1>3, <1>4, <2>1
<1>7. ASSUME NEW u \in Trx, PollInquire(r, u) \/ ReportRow(r, u) PROVE RefInv'
  BY <1>3, <1>4, <1>5, <1>6, <1>7 DEF PollInquire, ReportRow
<1>8. CASE PollSelect(r) \/ ReportSelect(r) \/ PollDebit(r)
  BY <1>3, <1>4, <1>8 DEF PollSelect, ReportSelect, PollDebit, Select, Row
<1>9. CASE ReportExport(r)
  BY <1>2, <1>3, <1>9 DEF ReportExport, Run
<1>10. CASE ReportDebit(r)
  <2> DEFINE run == Run("resaving", rec[r].todo, rec[r].at, rec[r].seen)
  <2>1. rec' = [rec EXCEPT ![r] = run] /\ Same
    BY <1>10 DEF ReportDebit
  <2>2. Recorded(run)
    BY <1>3 DEF Run
  <2> HIDE DEF run, Recorded, Same
  <2>3. QED
    BY <1>2, <2>1, <2>2
<1>11. CASE ReportResave(r)
  <2>1. Same
    BY <1>3, <1>11 DEF ReportResave, Row, TypeOK
  <2>2. QED
    BY <1>3, <1>4, <1>11, <2>1 DEF ReportResave
<1>12. CASE RunDies(r)
  <2>1. rec' = [rec EXCEPT ![r] = Idle] /\ Same
    BY <1>12 DEF RunDies
  <2>2. Recorded(Idle)
    BY <1>3 DEF Idle, Run
  <2> HIDE DEF Recorded, Same
  <2>3. QED
    BY <1>2, <2>1, <2>2
<1>13. QED
  BY <1>7, <1>8, <1>9, <1>10, <1>11, <1>12 DEF Poll, Upload

\* One client reference, one payout.
THEOREM OnePayoutTheorem == Spec => []OnePayoutPerReference
<1>1. Init => RefInv
  BY WalletAssumption DEF Init, RefInv, Holds, Idle, Run, NoRow, Row, Active
<1>2. TypeOK /\ RefInv /\ [Step]_vars => RefInv'
  <2> SUFFICES ASSUME TypeOK, RefInv, [Step]_vars PROVE RefInv'
    OBVIOUS
  <2>1. ASSUME NEW t \in Trx, Pays(t) \/ Refuses(t) PROVE RefInv'
    <3>1. UNCHANGED <<row, req, inst, rec, ref>>
          /\ \A u \in Trx : provider'[u] # "none" => provider[u] # "none"
      BY <2>1 DEF Pays, Refuses, TypeOK
    <3>2. QED
      BY <3>1 DEF RefInv, Holds
  <2>2. CASE UNCHANGED vars
    BY <2>2 DEF vars, RefInv, Holds
  <2>3. QED
    BY <2>1, <2>2, RefRequest, RefReconcile DEF Step, Reconcilers
<1>3. RefInv => OnePayoutPerReference
  BY DEF RefInv, OnePayoutPerReference
<1>4. QED
  BY <1>1, <1>2, <1>3, TypeCorrect, PTL DEF Spec

-----------------------------------------------------------------------------
(* The payout contract                                                     *)
(*                                                                         *)
(* The request, the inquiry and the report upload together implement       *)
(* PayoutContract, for any number of each.  What a client sees of a        *)
(* transaction is its payout, its outcome and its debits.  Every step      *)
(* changes at most one of them for one transaction (Quiet, Decided,        *)
(* DebitMapped), but for a selection that overlaps, which voids the        *)
(* outcome of what it overlaps on.  The inductive invariants above give    *)
(* the guards: PaidInv that what succeeds and is debited was paid,         *)
(* CleanInv that an outcome is decided once.                               *)

\* Nothing is with the provider before it is posted.
FreshInv == \A t \in Trx : req[t] \in {"idle", "validated", "rejected", "created"}
                             => provider[t] = "none"

Inv == TypeOK /\ PaidInv /\ CleanInv /\ FreshInv

outs == [t \in Trx |-> Outcome(t)]

LEMMA FreshStep == TypeOK /\ FreshInv /\ [Step]_vars => FreshInv'
<1> SUFFICES ASSUME TypeOK, FreshInv, [Step]_vars PROVE FreshInv'
  OBVIOUS
<1>1. ASSUME NEW t \in Trx, Request(t), ~Post(t) PROVE FreshInv'
  <2>1. UNCHANGED provider /\ (\A u \in Trx \ {t} : req'[u] = req[u])
    BY <1>1 DEF Request, Validate, CreateRow, InternalError, AnswerPaid, AnswerUnknown,
         AnswerRefused, TimedOut, ExternalError, DebitRequest, FinalSave, RequestDies, Mark, TypeOK
  <2>2. req'[t] \in {"idle", "validated", "rejected", "created"} => req[t] \in {"idle", "validated"}
    BY <1>1 DEF Request, Validate, CreateRow, InternalError, AnswerPaid, AnswerUnknown,
         AnswerRefused, TimedOut, ExternalError, DebitRequest, FinalSave, RequestDies, Mark, TypeOK
  <2>3. QED
    BY <2>1, <2>2 DEF FreshInv
<1>2. ASSUME NEW t \in Trx, Post(t) PROVE FreshInv'
  BY <1>2 DEF Post, FreshInv, TypeOK
<1>3. ASSUME NEW t \in Trx, Pays(t) \/ Refuses(t) PROVE FreshInv'
  BY <1>3 DEF Pays, Refuses, FreshInv, TypeOK
<1>4. ASSUME NEW r \in Reconcilers, Poll(r) \/ Upload(r) \/ RunDies(r) PROVE FreshInv'
  BY <1>4 DEF Poll, Upload, RunDies, PollSelect, PollInquire, PollDebit, ReportExport, ReportSelect,
       ReportRow, ReportDebit, ReportResave, Select, SaveSuccessful, SaveFailed, FreshInv
<1>5. CASE UNCHANGED vars
  BY <1>5 DEF vars, FreshInv
<1>6. QED
  BY <1>1, <1>2, <1>3, <1>4, <1>5 DEF Step, Reconcilers

-----------------------------------------------------------------------------
(* The kinds of step a client can tell apart *)

LEMMA OutcomeOfRow ==
  ASSUME NEW t \in Trx
  PROVE  /\ overlapped[t] => Outcome(t) = "void"
         /\ ~overlapped[t] /\ row[t].status = "S" => Outcome(t) = "successful"
         /\ ~overlapped[t] /\ row[t].status = "F" => Outcome(t) = "failed"
         /\ ~overlapped[t] /\ row[t].status \notin {"S", "F"} => Outcome(t) = "open"
BY DEF Outcome

\* Only the status and the overlap count.
LEMMA SameOutcome ==
  ASSUME NEW t \in Trx, overlapped'[t] = overlapped[t],
         overlapped[t] \/ row'[t].status = row[t].status
                       \/ {row[t].status, row'[t].status} \cap {"S", "F"} = {}
  PROVE  Outcome(t)' = Outcome(t)
BY DEF Outcome

LEMMA Quiet ==
  ASSUME \A t \in Trx : Outcome(t)' = Outcome(t), UNCHANGED <<provider, charges>>
  PROVE  UNCHANGED Promise!vars
BY DEF Promise!vars

\* One transaction is decided.
LEMMA Decided ==
  ASSUME NEW t \in Trx, UNCHANGED <<provider, charges>>,
         \A u \in Trx \ {t} : Outcome(u)' = Outcome(u),
         Outcome(t) = "open",
         \/ Outcome(t)' = "successful" /\ provider[t] = "paid"
         \/ Outcome(t)' = "failed"
  PROVE  Promise!Next
<1>1. outs[t] = "open" /\ outs' = [outs EXCEPT ![t] = Outcome(t)']
  BY DEF outs
<1>2. Promise!Succeed(t) \/ Promise!Fail(t)
  BY <1>1 DEF outs, Promise!Succeed, Promise!Fail
<1>3. QED
  BY <1>2 DEF Promise!Next

\* One transaction is debited.
LEMMA DebitMapped ==
  ASSUME Inv, NEW t \in Trx, DebitFor(t), AboutToDebit(t), UNCHANGED <<provider, row, overlapped>>
  PROVE  Promise!Next
<1>1. provider[t] = "paid"
  BY DEF Inv, PaidInv, AboutToDebit
<1>2. \A u \in Trx : Outcome(u)' = Outcome(u)
  BY SameOutcome
<1>3. Outcome(t) = "void" \/ (Outcome(t) = "successful" /\ charges[t] = 0)
  <2>1. CASE overlapped[t]
    BY <2>1, OutcomeOfRow
  <2>2. CASE ~overlapped[t]
    <3>1. Clean(t)
      BY <2>2 DEF Inv, CleanInv
    <3>2. row[t].status = "S" /\ charges[t] = 0
      BY <3>1 DEF Clean, AboutToDebit
    <3>3. QED
      BY <2>2, <3>2, OutcomeOfRow
  <2>3. QED
    BY <2>1, <2>2
<1>4. outs[t] = Outcome(t) /\ outs' = outs
  BY <1>2 DEF outs
<1>5. charges' = [charges EXCEPT ![t] = @ + 1]
  BY DEF DebitFor
<1>6. Promise!Charge(t)
  BY <1>1, <1>3, <1>4, <1>5 DEF outs, Promise!Charge
<1>7. QED
  BY <1>6 DEF Promise!Next

\* A row saved for t is quiet, or decides what is open and not overlapped.
LEMMA SaveMapped ==
  ASSUME Inv, NEW t \in Trx, UNCHANGED <<provider, charges, overlapped>>,
         \A u \in Trx \ {t} : row'[u] = row[u],
         ~overlapped[t] => \/ row'[t].status = row[t].status
                           \/ row[t].status \notin {"S", "F"},
         row'[t].status = "S" /\ row[t].status # "S" => provider[t] = "paid" \/ overlapped[t]
  PROVE  Promise!Next \/ UNCHANGED Promise!vars
<1>1. \A u \in Trx \ {t} : Outcome(u)' = Outcome(u)
  BY SameOutcome
<1>2. CASE overlapped[t] \/ row'[t].status = row[t].status
           \/ {row[t].status, row'[t].status} \cap {"S", "F"} = {}
  <2>1. Outcome(t)' = Outcome(t)
    BY <1>2, SameOutcome
  <2>2. QED
    BY <1>1, <2>1, Quiet
<1>3. CASE ~overlapped[t] /\ row[t].status \notin {"S", "F"} /\ row'[t].status \in {"S", "F"}
  <2>1. Outcome(t) = "open"
    BY <1>3, OutcomeOfRow
  <2>2. Outcome(t)' = IF row'[t].status = "S" THEN "successful" ELSE "failed"
    BY <1>3 DEF Outcome
  <2>3. row'[t].status = "S" => provider[t] = "paid"
    BY <1>3
  <2>4. QED
    BY <1>1, <2>1, <2>2, <2>3, Decided
<1>4. QED
  BY <1>2, <1>3

-----------------------------------------------------------------------------
(* Every step *)

LEMMA RequestMapped ==
  ASSUME Inv, NEW t \in Trx, Request(t)
  PROVE  Promise!Next \/ UNCHANGED Promise!vars
<1> USE DEF Inv
<1>1. CASE Validate(t) \/ RequestDies(t)
  <2>1. UNCHANGED <<row, provider, charges, overlapped>>
    BY <1>1 DEF Validate, RequestDies, books
  <2>2. QED
    BY <2>1, SameOutcome, Quiet
<1>2. CASE CreateRow(t)
  <2>1. UNCHANGED <<provider, charges, overlapped>> /\ (\A u \in Trx \ {t} : row'[u] = row[u])
        /\ (row'[t] = row[t] \/ row'[t].status = "P") /\ req[t] = "validated"
    BY <1>2 DEF CreateRow, books, Row, TypeOK
  <2>2. ~overlapped[t] => row[t].status = "none"
    BY <2>1 DEF CleanInv, Clean
  <2>3. QED
    BY <2>1, <2>2, SaveMapped
<1>3. ASSUME NEW status, NEW code, NEW next, Mark(t, status, code, next), req[t] \in {"created", "sent"},
             status = "S" => provider[t] = "paid"
      PROVE  Promise!Next \/ UNCHANGED Promise!vars
  <2>1. UNCHANGED <<provider, charges, overlapped>> /\ (\A u \in Trx \ {t} : row'[u] = row[u])
        /\ row'[t].status = status
    BY <1>3 DEF Mark, Row, books, TypeOK
  <2>2. ~overlapped[t] => row[t].status = "P"
    BY <1>3 DEF CleanInv, Clean
  <2>3. QED
    BY <1>3, <2>1, <2>2, SaveMapped
<1>4. CASE InternalError(t) \/ AnswerPaid(t) \/ AnswerUnknown(t) \/ AnswerRefused(t)
           \/ TimedOut(t) \/ ExternalError(t)
  BY <1>3, <1>4 DEF InternalError, AnswerPaid, AnswerUnknown, AnswerRefused, TimedOut, ExternalError
<1>5. CASE Post(t)
  <2>1. provider[t] = "none" /\ UNCHANGED <<row, charges, overlapped>>
    BY <1>5 DEF Post, FreshInv, books
  <2>2. \A u \in Trx : Outcome(u)' = Outcome(u)
    BY <2>1, SameOutcome
  <2>3. CASE UNCHANGED provider
    BY <2>1, <2>2, <2>3, Quiet
  <2>4. CASE provider' = [provider EXCEPT ![t] = "processing"]
    <3>1. Promise!Submit(t)
      BY <2>1, <2>2, <2>4 DEF Promise!Submit
    <3>2. QED
      BY <3>1 DEF Promise!Next
  <2>5. QED
    BY <1>5, <2>3, <2>4 DEF Post
<1>6. CASE DebitRequest(t)
  <2>1. AboutToDebit(t) /\ DebitFor(t) /\ UNCHANGED <<provider, row, overlapped>>
    BY <1>6 DEF DebitRequest, AboutToDebit
  <2>2. QED
    BY <2>1, DebitMapped
<1>7. CASE FinalSave(t)
  <2>1. UNCHANGED <<provider, charges, overlapped>> /\ (\A u \in Trx \ {t} : row'[u] = row[u])
        /\ row'[t] = inst[t] /\ req[t] = "closing"
    BY <1>7 DEF FinalSave, books, TypeOK
  <2>2. ~overlapped[t] => inst[t] = row[t]
    BY <2>1 DEF CleanInv, Clean
  <2>3. QED
    BY <2>1, <2>2, SaveMapped
<1>8. QED
  BY <1>1, <1>2, <1>4, <1>5, <1>6, <1>7 DEF Request

LEMMA ProviderMapped ==
  ASSUME Inv, NEW t \in Trx, Pays(t) \/ Refuses(t)
  PROVE  Promise!Next
<1>1. UNCHANGED <<row, charges, overlapped>> /\ provider[t] = "processing"
      /\ \E answer \in {"paid", "refused"} : provider' = [provider EXCEPT ![t] = answer]
  BY DEF Pays, Refuses, books
<1>2. \A u \in Trx : Outcome(u)' = Outcome(u)
  BY <1>1, SameOutcome
<1>3. Promise!Decide(t)
  BY <1>1, <1>2 DEF Promise!Decide
<1>4. QED
  BY <1>3 DEF Promise!Next

LEMMA SelectMapped ==
  ASSUME Inv, NEW r, NEW rows, Select(r, rows)
  PROVE  Promise!Next
<1> DEFINE T == {t \in Trx : overlapped'[t]}
<1>1. UNCHANGED <<row, provider, charges>>
  BY DEF Select
<1>2. \A t \in Trx : Outcome(t)' = IF t \in T THEN "void" ELSE Outcome(t)
  <2> SUFFICES ASSUME NEW t \in Trx PROVE Outcome(t)' = IF t \in T THEN "void" ELSE Outcome(t)
    OBVIOUS
  <2>1. ~overlapped'[t] => ~overlapped[t]
    BY DEF Select
  <2>2. QED
    BY <1>1, <2>1 DEF Outcome
<1>3. Promise!Void(T)
  BY <1>1, <1>2 DEF Promise!Void
<1>4. T \in SUBSET Trx
  OBVIOUS
<1>5. QED
  BY <1>3, <1>4 DEF Promise!Next

LEMMA ReconcileMapped ==
  ASSUME Inv, NEW r \in Reconcilers, Poll(r) \/ Upload(r) \/ RunDies(r)
  PROVE  Promise!Next \/ UNCHANGED Promise!vars
<1> USE DEF Inv
<1>1. ASSUME NEW t \in Trx, t \in rec[r].todo,
             \/ SaveSuccessful(r, t) /\ provider[t] = "paid"
             \/ SaveFailed(r, t)
      PROVE  Promise!Next \/ UNCHANGED Promise!vars
  <2>1. UNCHANGED <<provider, charges, overlapped>> /\ (\A u \in Trx \ {t} : row'[u] = row[u])
    BY <1>1 DEF SaveSuccessful, SaveFailed, books, TypeOK
  <2>2. row'[t].status = "S" /\ row[t].status # "S" => provider[t] = "paid"
    BY <1>1 DEF SaveSuccessful, SaveFailed, TypeOK, Rows
  <2>3. ~overlapped[t] => row[t].status \notin {"S", "F"}
    BY <1>1 DEF CleanInv, Clean
  <2>4. QED
    BY <2>1, <2>2, <2>3, SaveMapped
<1>2. ASSUME NEW t \in Trx, PollInquire(r, t) \/ ReportRow(r, t)
      PROVE  Promise!Next \/ UNCHANGED Promise!vars
  <2>1. CASE UNCHANGED <<row, provider, books>>
    BY <2>1, SameOutcome, Quiet DEF books
  <2>2. t \in rec[r].seen => provider[t] = "paid"
    BY DEF PaidInv, TypeOK
  <2>3. QED
    BY <1>1, <1>2, <2>1, <2>2 DEF PollInquire, ReportRow
<1>3. CASE PollSelect(r) \/ ReportSelect(r)
  BY <1>3, SelectMapped DEF PollSelect, ReportSelect
<1>4. CASE PollDebit(r) \/ ReportDebit(r)
  <2>1. rec[r].at \in Trx /\ DebitFor(rec[r].at) /\ AboutToDebit(rec[r].at)
        /\ UNCHANGED <<provider, row, overlapped>>
    BY <1>4 DEF PollDebit, ReportDebit, AboutToDebit, TypeOK
  <2>2. QED
    BY <2>1, DebitMapped
<1>5. CASE ReportExport(r) \/ RunDies(r)
  <2>1. UNCHANGED <<row, provider, charges, overlapped>>
    BY <1>5 DEF ReportExport, RunDies, books
  <2>2. QED
    BY <2>1, SameOutcome, Quiet
<1>6. CASE ReportResave(r)
  <2> DEFINE t == rec[r].at
  <2>1. t \in Trx /\ row' = [row EXCEPT ![t] = Row("S", "200")]
        /\ UNCHANGED <<provider, charges, overlapped>>
    BY <1>6 DEF ReportResave, books, TypeOK
  <2>2. row'[t].status = "S" /\ (\A u \in Trx \ {t} : row'[u] = row[u])
    BY <2>1 DEF Row, TypeOK
  <2>3. ~overlapped[t] => row[t].status = "S"
    BY <2>1 DEF CleanInv, Clean
  <2> HIDE DEF t
  <2>4. QED
    BY <2>1, <2>2, <2>3, SaveMapped
<1>7. QED
  BY <1>2, <1>3, <1>4, <1>5, <1>6 DEF Poll, Upload

\* The payout contract is kept by every behaviour of the request, the
\* inquiries and the uploads.
THEOREM ContractTheorem == Spec => Contract
<1>1. Init => Promise!Init /\ FreshInv
  BY DEF Init, Promise!Init, FreshInv, Outcome, NoRow, Row
<1>2. Inv /\ [Step]_vars => [Promise!Next]_(Promise!vars)
  <2> SUFFICES ASSUME Inv, [Step]_vars PROVE Promise!Next \/ UNCHANGED Promise!vars
    OBVIOUS
  <2>1. CASE UNCHANGED vars
    <3>1. UNCHANGED <<row, provider, charges, overlapped>>
      BY <2>1 DEF vars, books
    <3>2. QED
      BY <3>1, SameOutcome, Quiet
  <2>2. QED
    BY <2>1, RequestMapped, ProviderMapped, ReconcileMapped DEF Step, Reconcilers
<1>3. Init => PaidInv
  BY DEF Init, PaidInv, NoChargeWithoutPayout, Idle, Run
<1>4. QED
  BY <1>1, <1>2, <1>3, TypeCorrect, PaidStep, FreshStep, CleanAlways, PTL
     DEF Spec, Inv, Contract, Promise!Spec
=============================================================================
