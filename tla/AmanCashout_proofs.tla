------------------------- MODULE AmanCashout_proofs -------------------------
(***************************************************************************)
(* That the budget's books about Aman's bills are right, and what the page *)
(* shows of them, for any number of records, attempts, cancellations and   *)
(* callbacks.                                                              *)
(*                                                                         *)
(* Base    shapes, and that a row refers to a bill of its own record only  *)
(* VoidInv, CreditInv   a void belongs to one cancellation, which credits  *)
(*         it once; what was voided is credited, or due, or its request    *)
(*         was cut short                                                   *)
(* DebitInv   an attempt's bill is known to a row, a page or a callback    *)
(*         only once the attempt has debited it, for bulk records, and     *)
(*         only those can be voided (VoidedBulk)                           *)
(* BookInv every bill was debited, or its attempt is about to              *)
(* SavedInv   whatever refers to an attempt does so once its bill is saved *)
(* FlagInv, ShownInv   of a record handled once, the flag, the row and its *)
(*         copies in flight agree with the bill                            *)
(***************************************************************************)
EXTENDS AmanCashout, FiniteSetTheorems, TLAPS

\* A row of record r refers to a bill of an attempt at it, if any, and to one
\* when it is successful.
RefersTo(r, x) ==
  /\ x.reference # NoBill => x.reference \in AttemptsAt(r)
  /\ x.status = "successful" /\ r \notin Instant => x.reference # NoBill

RefInv ==
  /\ \A r \in Records : RefersTo(r, row[r])
  /\ \A u \in Cancels :
       cancel[u].pc \in {"marking", "crediting", "saving"} =>
         RefersTo(cancel[u].record, cancel[u].row)
  /\ \A n \in Notices : notice[n].pc = "saving" => RefersTo(notice[n].record, notice[n].row)
  /\ \A u \in Cancels : cancel[u].bill # NoBill => Bulk(cancel[u].bill)

Base == TypeOK /\ RefInv

LEMMA BaseInit == Init => Base
BY AmanAssumption DEF Init, Base, TypeOK, RefInv, RefersTo, Row, Open, Rows, AmanRows, NoAman, NoCancel, NoNotice,
   CancelStates, NoticeStates, AttemptSteps, CancelOK

LEMMA FaultType == ASSUME faults \in 0..MaxFaults, Fault PROVE faults' \in 0..MaxFaults
BY AmanAssumption DEF Fault

LEMMA CountType ==
  ASSUME NEW f \in [Records -> Nat], NEW r \in Records
  PROVE  [f EXCEPT ![r] = @ + 1] \in [Records -> Nat]
OBVIOUS

LEMMA AttemptBase == ASSUME Base, NEW k \in Attempts, Attempt(k) PROVE Base'
<1> USE AmanAssumption
<1>0. RecordOf[k] \in Records
  OBVIOUS
<1>1. CASE Start(k)
  BY <1>1 DEF Base, TypeOK, RefInv, Start, Step, AttemptSteps, CancelOK, books
<1>2. CASE Refused(k)
  BY <1>2 DEF Base, TypeOK, RefInv, Refused, Step, AttemptSteps, CancelOK, books
<1>3. CASE Opened(k)
  BY <1>3 DEF Base, TypeOK, RefInv, Opened, Step, AttemptSteps, CancelOK, books
<1>4. CASE OpenedUnheard(k)
  <2>1. faults' \in 0..MaxFaults
    BY <1>4, FaultType DEF OpenedUnheard, Base, TypeOK
  <2>2. TypeOK'
    BY <1>0, <1>4, <2>1 DEF Base, TypeOK, OpenedUnheard, Step, AttemptSteps, CancelOK, Cut
  <2>3. RefInv'
    BY <1>4 DEF Base, RefInv, OpenedUnheard
  <2>4. QED
    BY <2>2, <2>3 DEF Base
<1>5. CASE NotPending(k)
  <2>1. row' = row \/ Write(RecordOf[k], "failed", NoBill)
    BY <1>5 DEF NotPending
  <2>2. row' \in [Records -> Rows]
    BY <1>0, <2>1 DEF Base, TypeOK, Write, Row, Rows
  <2>3. TypeOK'
    BY <1>5, <2>2 DEF Base, TypeOK, NotPending, Step, AttemptSteps, CancelOK, books
  <2>4. RefInv'
    BY <1>0, <1>5, <2>1 DEF Base, TypeOK, RefInv, NotPending, Write, Row, RefersTo
  <2>5. QED
    BY <2>3, <2>4 DEF Base
<1>6. CASE Debit(k)
  <2>1. debits' \in [Records -> Nat]
    BY <1>0, <1>6, CountType DEF Debit, Base, TypeOK
  <2>2. TypeOK'
    BY <1>6, <2>1 DEF Base, TypeOK, Debit, Step, AttemptSteps, CancelOK
  <2>3. RefInv'
    BY <1>6 DEF Base, RefInv, Debit
  <2>4. QED
    BY <2>2, <2>3 DEF Base
<1>7. CASE Save(k)
  BY <1>0, <1>7 DEF Base, TypeOK, RefInv, Save, Step, AttemptSteps, CancelOK, Write, Row, Rows, RefersTo, AttemptsAt, books
<1>8. CASE SaveFailed(k)
  BY <1>0, <1>8 DEF Base, TypeOK, RefInv, SaveFailed, Step, AttemptSteps, CancelOK, Write, Row, Rows, RefersTo, books
<1>9. CASE Create(k)
  BY <1>0, <1>9 DEF Base, TypeOK, RefInv, Create, Step, AttemptSteps, CancelOK, AmanRows, NoAman, books
<1>10. CASE Stops(k)
  <2>1. faults' \in 0..MaxFaults
    BY <1>10, FaultType DEF Stops, Base, TypeOK
  <2>2. row' = row \/ (~Bulk(k) /\ Write(RecordOf[k], "failed", row[RecordOf[k]].reference))
    BY <1>10 DEF Stops
  <2>3. row' \in [Records -> Rows]
    BY <1>0, <2>2 DEF Base, TypeOK, Write, Row, Rows
  <2>4. TypeOK'
    BY <1>0, <1>10, <2>1, <2>3 DEF Base, TypeOK, Stops, AttemptSteps, CancelOK, Cut
  <2>5. RefInv'
    BY <1>0, <1>10, <2>2 DEF Base, TypeOK, RefInv, Stops, Bulk, Write, Row, RefersTo
  <2>6. QED
    BY <2>4, <2>5 DEF Base
<1>11. QED
  BY <1>1, <1>2, <1>3, <1>4, <1>5, <1>6, <1>7, <1>8, <1>9, <1>10 DEF Attempt

LEMMA AcceptBase ==
  ASSUME Base, \/ \E k \in Attempts : Pay(k) \/ \E n \in Notices : Heard(n, k)
               \/ \E n \in Notices : Resave(n)
  PROVE  Base'
<1> USE AmanAssumption
<1>1. ASSUME NEW k \in Attempts, Pay(k) PROVE Base'
  BY <1>1 DEF Base, TypeOK, RefInv, Pay, CancelOK, books
<1>2. ASSUME NEW k \in Attempts, NEW n \in Notices, Heard(n, k) PROVE Base'
  <2>1. TypeOK'
    <3>1. RecordOf[k] \in Records /\ row[RecordOf[k]] \in Rows
      BY DEF Base, TypeOK
    <3>2. /\ notice' \in [Notices -> NoticeStates]
          /\ \A m \in Notices : notice'[m].pc = "saving" => notice'[m].record \in Records
      BY <1>2, <3>1 DEF Base, TypeOK, Heard, NoticeStates
    <3>3. aman' \in [Attempts -> AmanRows]
      BY <1>2 DEF Base, TypeOK, Heard, AmanRows
    <3>4. UNCHANGED <<bill, row, first, attempt, cancel, faults, debits, credits, cut>>
      BY <1>2 DEF Heard, books
    <3>5. QED
      BY <3>2, <3>3, <3>4 DEF Base, TypeOK, CancelOK
  <2>2. RefInv'
    BY <1>2 DEF Base, TypeOK, RefInv, Heard, NoticeStates
  <2>3. QED
    BY <2>1, <2>2 DEF Base
<1>3. ASSUME NEW n \in Notices, Resave(n) PROVE Base'
  <2>1. TypeOK'
    <3>1. /\ notice' \in [Notices -> NoticeStates]
          /\ \A m \in Notices : notice'[m].pc = "saving" => notice'[m].record \in Records
      BY <1>3 DEF Base, TypeOK, Resave, NoticeStates, NoNotice, Open, Row, Rows
    <3>2. row' \in [Records -> Rows]
      BY <1>3 DEF Base, TypeOK, Resave, NoticeStates
    <3>3. UNCHANGED <<bill, aman, first, attempt, cancel, faults, debits, credits, cut>>
      BY <1>3 DEF Resave, books
    <3>4. QED
      BY <3>1, <3>2, <3>3 DEF Base, TypeOK, CancelOK
  <2>2. RefInv'
    BY <1>3 DEF Base, TypeOK, RefInv, Resave, NoticeStates, NoNotice
  <2>3. QED
    BY <2>1, <2>2 DEF Base
<1>4. QED
  BY <1>1, <1>2, <1>3

\* A cancellation moves on to a state of its own; the others stay as they are.
LEMMA CancelMoves ==
  ASSUME Base, NEW u \in Cancels, NEW c \in CancelStates, cancel' = [cancel EXCEPT ![u] = c],
         first' = first,
         c.pc \notin {"idle", "done"} => c.bill \in Attempts /\ first[RecordOf[c.bill]] \in Attempts,
         c.pc \in {"marking", "crediting", "saving"} => c.record = RecordOf[c.bill]
  PROVE  cancel' \in [Cancels -> CancelStates] /\ \A v \in Cancels : CancelOK(cancel[v])'
BY DEF Base, TypeOK, CancelOK

LEMMA NoCancelType == NoCancel \in CancelStates /\ [NoCancel EXCEPT !.pc = "done"] \in CancelStates
BY DEF NoCancel, CancelStates, Open, Row, Rows, NoAman, AmanRows

LEMMA CancelBase == ASSUME Base, NEW u \in Cancels, Cancel(u) PROVE Base'
<1> USE AmanAssumption
<1> DEFINE c == cancel[u]
<1>0. c \in CancelStates /\ CancelOK(c)
  BY DEF Base, TypeOK
<1>1. ASSUME NEW r \in Records, Offer(u, r) PROVE Base'
  <2>1. row[r].reference \in Attempts /\ RecordOf[row[r].reference] = r /\ Bulk(row[r].reference)
    BY <1>1 DEF Base, TypeOK, RefInv, RefersTo, Offer, AttemptsAt, Bulk, Rows
  <2> DEFINE s == [NoCancel EXCEPT !.pc = "offered", !.bill = row[r].reference]
  <2>2. s \in CancelStates
    BY <2>1, NoCancelType DEF CancelStates
  <2>3. first[r] \in Attempts
    BY <1>1 DEF Base, TypeOK, Offer
  <2>4. s.pc = "offered" /\ s.bill = row[r].reference /\ s.row = Open
    BY DEF NoCancel
  <2>5. cancel' = [cancel EXCEPT ![u] = s] /\ UNCHANGED <<bill, row, aman, first, attempt, notice, faults, books>>
    BY <1>1 DEF Offer
  <2> HIDE DEF s
  <2>6. cancel' \in [Cancels -> CancelStates] /\ \A v \in Cancels : CancelOK(cancel[v])'
    BY <2>1, <2>2, <2>3, <2>4, <2>5, CancelMoves
  <2>7. TypeOK'
    BY <2>5, <2>6 DEF Base, TypeOK, books
  <2>8. RefInv'
    BY <2>1, <2>4, <2>5 DEF Base, TypeOK, RefInv
  <2>9. QED
    BY <2>7, <2>8 DEF Base
<1>2. CASE Void(u)
  <2>1. PICK s \in {[cancel[u] EXCEPT !.pc = "voided"], [NoCancel EXCEPT !.pc = "done"]} :
          cancel' = [cancel EXCEPT ![u] = s]
    BY <1>2 DEF Void, Base, TypeOK
  <2>2. c.pc = "offered" /\ c.bill \in Attempts /\ first[RecordOf[c.bill]] \in Attempts
    BY <1>0, <1>2 DEF Void, CancelOK
  <2>3. /\ s \in CancelStates /\ s.pc \in {"voided", "done"} /\ s.bill \in {c.bill, NoBill}
        /\ s.pc = "voided" => s.bill = c.bill
    BY <1>0, <2>1, NoCancelType DEF CancelStates, NoCancel
  <2>4. cancel' \in [Cancels -> CancelStates] /\ \A v \in Cancels : CancelOK(cancel[v])'
    BY <1>2, <2>1, <2>2, <2>3, CancelMoves DEF Void
  <2>5. bill' \in [Attempts -> {"none", "open", "paid", "voided"}]
    BY <1>2, <2>2 DEF Void, Base, TypeOK
  <2>6. TypeOK'
    BY <1>2, <2>4, <2>5 DEF Void, Base, TypeOK, books
  <2>7. RefInv'
    BY <1>2, <2>1, <2>3 DEF Void, Base, TypeOK, RefInv, Bulk
  <2>8. QED
    BY <2>6, <2>7 DEF Base
<1>3. CASE LoadCancelled(u)
  <2> DEFINE r == RecordOf[c.bill]
             s == [pc |-> "marking", bill |-> c.bill, record |-> r, row |-> row[r],
                   aman |-> aman[first[r]]]
             n == [NoCancel EXCEPT !.pc = "done"]
  <2>1. c.pc = "voided" /\ c.bill \in Attempts /\ first[r] \in Attempts /\ r \in Records
    BY <1>0, <1>3 DEF LoadCancelled, CancelOK
  <2>2. s \in CancelStates /\ n \in CancelStates /\ n.pc = "done" /\ n.bill = NoBill
    BY <2>1, NoCancelType DEF Base, TypeOK, CancelStates, NoCancel
  <2>3. /\ cancel' = [cancel EXCEPT ![u] = s] \/ cancel' = [cancel EXCEPT ![u] = n]
        /\ UNCHANGED <<bill, row, aman, first, attempt, notice, faults, debits, credits>>
        /\ cut' = cut \/ cut' = [cut EXCEPT ![r] = TRUE]
    BY <1>3 DEF LoadCancelled, Cut
  <2>4. s.pc = "marking" /\ s.bill = c.bill /\ s.record = r /\ s.row = row[r]
    OBVIOUS
  <2> HIDE DEF s, n
  <2>5. cancel' \in [Cancels -> CancelStates] /\ \A v \in Cancels : CancelOK(cancel[v])'
    BY <2>1, <2>2, <2>3, <2>4, CancelMoves
  <2>6. TypeOK'
    BY <2>1, <2>3, <2>5 DEF Base, TypeOK
  <2>7. RefInv'
    BY <2>1, <2>2, <2>3, <2>4 DEF Base, TypeOK, RefInv, Bulk
  <2>8. QED
    BY <2>6, <2>7 DEF Base
<1>4. CASE SaveCancelled(u)
  <2> DEFINE s == [cancel[u] EXCEPT !.pc = "crediting"]
  <2>1. /\ c.pc = "marking" /\ c.bill \in Attempts /\ c.record = RecordOf[c.bill]
        /\ first[RecordOf[c.bill]] \in Attempts
    BY <1>0, <1>4 DEF SaveCancelled, CancelOK
  <2>2. /\ s \in CancelStates /\ s.pc = "crediting" /\ s.bill = c.bill /\ s.record = c.record
        /\ s.row = c.row
    BY <1>0 DEF CancelStates
  <2>3. cancel' = [cancel EXCEPT ![u] = s]
    BY <1>4 DEF SaveCancelled, Base, TypeOK
  <2> HIDE DEF s
  <2>4. cancel' \in [Cancels -> CancelStates] /\ \A v \in Cancels : CancelOK(cancel[v])'
    <3>1. s.record = RecordOf[s.bill] /\ s.bill \in Attempts /\ first[RecordOf[s.bill]] \in Attempts
      BY <2>1, <2>2
    <3>2. first' = first
      BY <1>4 DEF SaveCancelled
    <3>3. QED
      BY <2>2, <2>3, <3>1, <3>2, CancelMoves
  <2>5. aman' \in [Attempts -> AmanRows]
    BY <1>0, <1>4, <2>1 DEF SaveCancelled, Base, TypeOK, CancelStates, AmanRows
  <2>6. TypeOK'
    BY <1>4, <2>4, <2>5 DEF SaveCancelled, Base, TypeOK, books
  <2>7. RefInv'
    BY <1>4, <2>1, <2>2, <2>3 DEF SaveCancelled, Base, TypeOK, RefInv, Bulk
  <2>8. QED
    BY <2>6, <2>7 DEF Base
<1>5. CASE Credit(u)
  <2> DEFINE s == [cancel[u] EXCEPT !.pc = "saving"]
  <2>1. /\ c.pc = "crediting" /\ c.bill \in Attempts /\ c.record = RecordOf[c.bill]
        /\ first[RecordOf[c.bill]] \in Attempts
    BY <1>0, <1>5 DEF Credit, CancelOK
  <2>2. /\ s \in CancelStates /\ s.pc = "saving" /\ s.bill = c.bill /\ s.record = c.record
        /\ s.row = c.row
    BY <1>0 DEF CancelStates
  <2>3. cancel' = [cancel EXCEPT ![u] = s]
    BY <1>5 DEF Credit, Base, TypeOK
  <2> HIDE DEF s
  <2>4. cancel' \in [Cancels -> CancelStates] /\ \A v \in Cancels : CancelOK(cancel[v])'
    <3>1. s.record = RecordOf[s.bill] /\ s.bill \in Attempts /\ first[RecordOf[s.bill]] \in Attempts
      BY <2>1, <2>2
    <3>2. first' = first
      BY <1>5 DEF Credit
    <3>3. QED
      BY <2>2, <2>3, <3>1, <3>2, CancelMoves
  <2>5. credits' \in [Records -> Nat]
    BY <1>5, <2>1, CountType DEF Credit, Base, TypeOK
  <2>6. TypeOK'
    BY <1>5, <2>4, <2>5 DEF Credit, Base, TypeOK
  <2>7. RefInv'
    BY <1>5, <2>1, <2>2, <2>3 DEF Credit, Base, TypeOK, RefInv, Bulk
  <2>8. QED
    BY <2>6, <2>7 DEF Base
<1>6. CASE SaveBalances(u) \/ CancelDies(u)
  <2> DEFINE n == [NoCancel EXCEPT !.pc = "done"]
  <2>1. n \in CancelStates /\ n.pc = "done" /\ n.bill = NoBill
    BY NoCancelType DEF NoCancel
  <2>2. cancel' = [cancel EXCEPT ![u] = n] /\ UNCHANGED <<bill, aman, first, attempt, notice, debits, credits>>
    BY <1>6 DEF SaveBalances, CancelDies, books
  <2>3. /\ row' = row \/ (c.pc = "saving" /\ row' = [row EXCEPT ![c.record] = c.row])
        /\ cut' = cut \/ cut' = [cut EXCEPT ![RecordOf[c.bill]] = TRUE]
    BY <1>6 DEF SaveBalances, CancelDies, books, Cut
  <2>4. faults' \in 0..MaxFaults
    BY <1>6, FaultType DEF SaveBalances, CancelDies, Base, TypeOK
  <2> HIDE DEF n
  <2>5. cancel' \in [Cancels -> CancelStates] /\ \A v \in Cancels : CancelOK(cancel[v])'
    BY <2>1, <2>2, CancelMoves
  <2>6. row' \in [Records -> Rows] /\ cut' \in [Records -> BOOLEAN]
    BY <1>0, <2>3 DEF Base, TypeOK, CancelStates
  <2>7. TypeOK'
    BY <2>2, <2>4, <2>5, <2>6 DEF Base, TypeOK
  <2>8. RefInv'
    BY <1>0, <2>1, <2>2, <2>3 DEF Base, TypeOK, RefInv, Bulk, CancelOK
  <2>9. QED
    BY <2>7, <2>8 DEF Base
<1>7. QED
  BY <1>1, <1>2, <1>3, <1>4, <1>5, <1>6 DEF Cancel

LEMMA BaseStep == ASSUME Base, [Next]_vars PROVE Base'
<1>1. CASE UNCHANGED vars
  BY <1>1 DEF vars, books, Base, TypeOK, RefInv, CancelOK
<1>2. CASE Next
  BY <1>2, AttemptBase, AcceptBase, CancelBase DEF Next
<1>3. QED
  BY <1>1, <1>2

\* TypeOK of every state, for any number of records, attempts and cancellations.
THEOREM TypeTheorem == Spec => []TypeOK
<1>1. Spec => []Base
  BY BaseInit, BaseStep, PTL DEF Spec
<1>2. Base => TypeOK
  BY DEF Base
<1>3. QED
  BY <1>1, <1>2, PTL

-----------------------------------------------------------------------------
(* When there is a bill *)

\* An attempt has one from the answer to its pay request on, not before.
StepInv ==
  \A k \in Attempts :
    /\ attempt[k] \in {"idle", "ordering"} => bill[k] = "none"
    /\ attempt[k] \in {"debiting", "saving", "creating"} => bill[k] # "none"

LEMMA StepStep == ASSUME Base, StepInv, [Next]_vars PROVE StepInv'
<1>1. ASSUME NEW k \in Attempts, Attempt(k) PROVE StepInv'
  <2>1. CASE Opened(k) \/ OpenedUnheard(k)
    BY <2>1 DEF Opened, OpenedUnheard, Step, StepInv, Base, TypeOK
  <2>2. CASE bill' = bill
    BY <1>1, <2>2 DEF Attempt, Start, Refused, Opened, OpenedUnheard, NotPending, Debit, Save,
       SaveFailed, Create, Stops, Step, StepInv, Base, TypeOK, Bulk
  <2>3. QED
    BY <1>1, <2>1, <2>2 DEF Attempt, Start, Refused, NotPending, Debit, Save, SaveFailed, Create, Stops
<1>2. ASSUME attempt' = attempt, \A k \in Attempts : bill'[k] = "none" <=> bill[k] = "none"
      PROVE StepInv'
  BY <1>2 DEF StepInv
<1>3. ASSUME NEW k \in Attempts, Pay(k) PROVE StepInv'
  BY <1>2, <1>3 DEF Pay, Base, TypeOK
<1>4. ASSUME NEW u \in Cancels, Cancel(u) PROVE StepInv'
  <2>1. CASE bill' = bill
    BY <1>2, <1>4, <2>1 DEF Cancel, Offer, Void, LoadCancelled, SaveCancelled, Credit, SaveBalances, CancelDies
  <2>2. CASE Void(u)
    BY <1>2, <2>2 DEF Void, Base, TypeOK
  <2>3. QED
    BY <1>4, <2>1, <2>2 DEF Cancel, Offer, LoadCancelled, SaveCancelled, Credit, SaveBalances, CancelDies
<1>5. ASSUME NEW n \in Notices, Resave(n) \/ \E k \in Attempts : Heard(n, k) PROVE StepInv'
  BY <1>2, <1>5 DEF Resave, Heard
<1>6. CASE UNCHANGED vars
  BY <1>2, <1>6 DEF vars
<1>7. QED
  BY <1>1, <1>3, <1>4, <1>5, <1>6 DEF Next

-----------------------------------------------------------------------------
(* Counting bills *)

LEMMA SomeAttempts ==
  ASSUME NEW S, S \subseteq Attempts
  PROVE  IsFiniteSet(S) /\ Cardinality(S) \in Nat
BY AmanAssumption, FS_Subset, FS_CardinalityType

LEMMA OneMore ==
  ASSUME NEW S, S \subseteq Attempts, NEW k \in Attempts, k \notin S
  PROVE  Cardinality(S \cup {k}) = Cardinality(S) + 1
BY SomeAttempts, FS_AddElement

LEMMA OneLess ==
  ASSUME NEW S, S \subseteq Attempts, NEW k \in S
  PROVE  Cardinality(S \ {k}) = Cardinality(S) - 1 /\ Cardinality(S \ {k}) \in Nat
BY SomeAttempts, FS_RemoveElement

-----------------------------------------------------------------------------
(* What was voided was credited once, or will be *)

\* between the void and the credit
Voiding(u) == cancel[u].pc \in {"voided", "marking", "crediting"}
Due(r)     == {k \in AttemptsAt(r) : \E u \in Cancels : Voiding(u) /\ cancel[u].bill = k}
Voided(r)  == Bills(r, {"voided"})

\* Accept voids a bill for one cancellation only.
VoidInv ==
  \A u \in Cancels : Voiding(u) =>
    /\ bill[cancel[u].bill] = "voided"
    /\ \A w \in Cancels : Voiding(w) /\ cancel[w].bill = cancel[u].bill => w = u

Counted(r) ==
  /\ credits[r] + Cardinality(Due(r)) <= Cardinality(Voided(r))
  /\ ~cut[r] => credits[r] + Cardinality(Due(r)) = Cardinality(Voided(r))

CreditInv == \A r \in Records : Counted(r)

Same(r)       == Due(r)' = Due(r) /\ Voided(r)' = Voided(r) /\ credits'[r] = credits[r]
Adds(r, k)    == /\ k \notin Voided(r) /\ Due(r)' = Due(r) \cup {k}
                 /\ Voided(r)' = Voided(r) \cup {k} /\ credits'[r] = credits[r]
Credits(r, k) == /\ k \in Due(r) /\ Due(r)' = Due(r) \ {k} /\ Voided(r)' = Voided(r)
                 /\ credits'[r] = credits[r] + 1
Drops(r, k)   == /\ k \in Due(r) /\ Due(r)' = Due(r) \ {k} /\ Voided(r)' = Voided(r)
                 /\ credits'[r] = credits[r] /\ cut'[r]

\* What a step may do to the count of a record.
LEMMA CreditCases ==
  ASSUME Base, VoidInv, CreditInv,
         \A r \in Records : /\ cut[r] => cut'[r]
                            /\ \/ Same(r)
                               \/ \E k \in Attempts : Adds(r, k) \/ Credits(r, k) \/ Drops(r, k)
  PROVE  CreditInv'
<1> SUFFICES ASSUME NEW r \in Records PROVE Counted(r)'
  BY DEF CreditInv
<1>1. Due(r) \subseteq Attempts /\ Voided(r) \subseteq Attempts /\ Due(r) \subseteq Voided(r)
  BY DEF Due, Voided, Bills, AttemptsAt, VoidInv
<1>2. /\ credits[r] \in Nat /\ Cardinality(Due(r)) \in Nat /\ Cardinality(Voided(r)) \in Nat
  BY <1>1, SomeAttempts DEF Base, TypeOK
<1>3. /\ credits[r] + Cardinality(Due(r)) <= Cardinality(Voided(r))
      /\ ~cut[r] => credits[r] + Cardinality(Due(r)) = Cardinality(Voided(r))
  BY DEF CreditInv, Counted
<1>4. cut[r] => cut'[r]
  OBVIOUS
<1>5. CASE Same(r)
  BY <1>3, <1>4, <1>5 DEF Same, Counted
<1>6. ASSUME NEW k \in Attempts, Adds(r, k) PROVE Counted(r)'
  <2>1. /\ Cardinality(Due(r)') = Cardinality(Due(r)) + 1
        /\ Cardinality(Voided(r)') = Cardinality(Voided(r)) + 1
    BY <1>1, <1>6, OneMore DEF Adds
  <2>2. QED
    BY <1>2, <1>3, <1>4, <1>6, <2>1 DEF Adds, Counted
<1>7. ASSUME NEW k \in Attempts, Credits(r, k) \/ Drops(r, k) PROVE Counted(r)'
  <2>1. Cardinality(Due(r)') = Cardinality(Due(r)) - 1 /\ Cardinality(Due(r)') \in Nat
    BY <1>1, <1>7, OneLess DEF Credits, Drops
  <2>2. CASE Credits(r, k)
    BY <1>2, <1>3, <1>4, <2>1, <2>2 DEF Credits, Counted
  <2>3. CASE Drops(r, k)
    BY <1>2, <1>3, <2>1, <2>3 DEF Drops, Counted
  <2>4. QED
    BY <1>7, <2>2, <2>3
<1>8. Same(r) \/ \E k \in Attempts : Adds(r, k) \/ Credits(r, k) \/ Drops(r, k)
  OBVIOUS
<1>9. QED
  BY <1>5, <1>6, <1>7, <1>8

\* An attempt, and Accept, leave the cancellations and what is voided alone.
LEMMA QuietCredit ==
  ASSUME Base, VoidInv, CreditInv, cancel' = cancel, credits' = credits,
         \A j \in Attempts : bill'[j] = "voided" <=> bill[j] = "voided",
         \A r \in Records : cut[r] => cut'[r]
  PROVE  VoidInv' /\ CreditInv'
<1>1. \A r \in Records : Same(r)
  BY DEF Same, Due, Voided, Voiding, Bills, AttemptsAt
<1>2. VoidInv'
  BY DEF VoidInv, Voiding, Base, TypeOK, CancelOK
<1>3. QED
  BY <1>1, <1>2, CreditCases

LEMMA AttemptCredit ==
  ASSUME Base, StepInv, VoidInv, CreditInv, NEW k \in Attempts, Attempt(k) \/ Pay(k)
  PROVE  VoidInv' /\ CreditInv'
<1> USE AmanAssumption
<1>1. cancel' = cancel /\ credits' = credits
  BY DEF Attempt, Start, Refused, Opened, OpenedUnheard, NotPending, Debit, Save, SaveFailed, Create,
     Stops, Pay, books
<1>2. \A j \in Attempts : bill'[j] = "voided" <=> bill[j] = "voided"
  <2>1. CASE Opened(k) \/ OpenedUnheard(k) \/ Pay(k)
    BY <2>1 DEF Opened, OpenedUnheard, Pay, Step, StepInv, Base, TypeOK
  <2>2. QED
    BY <2>1 DEF Attempt, Start, Refused, NotPending, Debit, Save, SaveFailed, Create, Stops
<1>3. \A r \in Records : cut[r] => cut'[r]
  BY DEF Attempt, Start, Refused, Opened, OpenedUnheard, NotPending, Debit, Save, SaveFailed, Create,
     Stops, Pay, books, Cut, Base, TypeOK
<1>4. QED
  BY <1>1, <1>2, <1>3, QuietCredit

LEMMA CancelCredit ==
  ASSUME Base, VoidInv, CreditInv, NEW u \in Cancels, Cancel(u)
  PROVE  VoidInv' /\ CreditInv'
<1> USE AmanAssumption
<1> DEFINE k == cancel[u].bill
<1>0. /\ cancel[u] \in CancelStates /\ DOMAIN cancel' = Cancels
      /\ \A w \in Cancels \ {u} : cancel'[w] = cancel[w]
      /\ \A r \in Records : cut[r] => cut'[r]
      /\ cancel[u].pc \notin {"idle", "done"} => k \in Attempts /\ RecordOf[k] \in Records
  BY DEF Cancel, Offer, Void, LoadCancelled, SaveCancelled, Credit, SaveBalances, CancelDies, Cut, books, Base, TypeOK, CancelOK
<1>1. CASE Voiding(u) = Voiding(u)' /\ cancel'[u].bill = k /\ bill' = bill /\ credits' = credits
  <2>1. \A r \in Records : Same(r)
    BY <1>0, <1>1 DEF Same, Due, Voided, Voiding, Bills, AttemptsAt
  <2>2. VoidInv'
    BY <1>0, <1>1 DEF VoidInv, Voiding
  <2>3. QED
    BY <1>0, <2>1, <2>2, CreditCases
<1>2. CASE ~Voiding(u) /\ ~Voiding(u)' /\ bill' = bill /\ credits' = credits
  <2>1. \A r \in Records : Same(r)
    BY <1>0, <1>2 DEF Same, Due, Voided, Voiding, Bills, AttemptsAt
  <2>2. VoidInv'
    BY <1>0, <1>2 DEF VoidInv, Voiding
  <2>3. QED
    BY <1>0, <2>1, <2>2, CreditCases
<1>3. CASE Void(u) /\ bill[k] = "open"
  <2>1. /\ ~Voiding(u) /\ Voiding(u)' /\ cancel'[u].bill = k /\ k \in Attempts
        /\ bill' = [bill EXCEPT ![k] = "voided"] /\ credits' = credits
    <3>1. cancel[u].pc = "offered"
      BY <1>3 DEF Void
    <3>2. k \in Attempts
      BY <1>0, <3>1
    <3>3. cancel' = [cancel EXCEPT ![u].pc = "voided"] /\ bill' = [bill EXCEPT ![k] = "voided"]
      BY <1>3 DEF Void
    <3>4. cancel'[u] = [cancel[u] EXCEPT !.pc = "voided"]
      BY <3>3 DEF Base, TypeOK
    <3>5. cancel'[u].pc = "voided" /\ cancel'[u].bill = k
      BY <1>0, <3>4 DEF CancelStates
    <3>6. credits' = credits
      BY <1>3 DEF Void, books
    <3>7. QED
      BY <3>1, <3>2, <3>3, <3>5, <3>6 DEF Voiding
  <2>2. \A r \in Records : IF r = RecordOf[k] THEN Adds(r, k) ELSE Same(r)
    BY <1>0, <1>3, <2>1 DEF Adds, Same, Due, Voided, Voiding, Bills, AttemptsAt, Base, TypeOK
  <2>3. VoidInv'
    BY <1>0, <1>3, <2>1 DEF VoidInv, Voiding, Base, TypeOK, CancelOK
  <2>4. QED
    BY <1>0, <2>1, <2>2, <2>3, CreditCases
<1>4. CASE Voiding(u) /\ ~Voiding(u)' /\ bill' = bill
           /\ \/ credits' = [credits EXCEPT ![RecordOf[k]] = @ + 1]
              \/ credits' = credits /\ cut'[RecordOf[k]]
  <2>1. k \in Attempts /\ RecordOf[k] \in Records /\ k \in Due(RecordOf[k])
    BY <1>0, <1>4 DEF Voiding, Due, AttemptsAt
  <2>2. \A r \in Records : Voided(r)' = Voided(r)
    BY <1>4 DEF Voided, Bills, AttemptsAt
  <2>3. \A r \in Records : Due(r)' = IF r = RecordOf[k] THEN Due(r) \ {k} ELSE Due(r)
    BY <1>0, <1>4, <2>1 DEF Due, Voiding, AttemptsAt, VoidInv
  <2>4. \A r \in Records : IF r = RecordOf[k] THEN Credits(r, k) \/ Drops(r, k) ELSE Same(r)
    BY <1>4, <2>1, <2>2, <2>3 DEF Credits, Drops, Same, Base, TypeOK
  <2>5. VoidInv'
    BY <1>0, <1>4 DEF VoidInv, Voiding
  <2>6. QED
    BY <1>0, <2>1, <2>4, <2>5, CreditCases
<1>5. CASE \E r \in Records : Offer(u, r)
  BY <1>2, <1>5 DEF Offer, Voiding, Base, TypeOK, NoCancel, books
<1>6. CASE Void(u)
  BY <1>2, <1>3, <1>6 DEF Void, Voiding, Base, TypeOK, NoCancel, books
<1>7. CASE LoadCancelled(u)
  BY <1>0, <1>1, <1>4, <1>7 DEF LoadCancelled, Voiding, Cut, Base, TypeOK, NoCancel
<1>8. CASE SaveCancelled(u)
  BY <1>1, <1>8 DEF SaveCancelled, Voiding, Base, TypeOK, books
<1>9. CASE Credit(u)
  <2>1. cancel[u].record = RecordOf[k]
    BY <1>9 DEF Credit, Base, TypeOK, CancelOK
  <2>2. QED
    BY <1>4, <1>9, <2>1 DEF Credit, Voiding, Base, TypeOK
<1>10. CASE SaveBalances(u)
  BY <1>2, <1>10 DEF SaveBalances, Voiding, Base, TypeOK, NoCancel, books
<1>11. CASE CancelDies(u)
  BY <1>0, <1>2, <1>4, <1>11 DEF CancelDies, Voiding, Cut, Base, TypeOK, NoCancel
<1>12. QED
  BY <1>5, <1>6, <1>7, <1>8, <1>9, <1>10, <1>11 DEF Cancel

LEMMA CreditStep ==
  ASSUME Base, StepInv, VoidInv, CreditInv, [Next]_vars
  PROVE  VoidInv' /\ CreditInv'
<1>1. ASSUME NEW k \in Attempts, Attempt(k) \/ Pay(k) PROVE VoidInv' /\ CreditInv'
  BY <1>1, AttemptCredit
<1>2. ASSUME NEW n \in Notices, Resave(n) \/ \E k \in Attempts : Heard(n, k)
      PROVE VoidInv' /\ CreditInv'
  BY <1>2, QuietCredit DEF Resave, Heard, books
<1>3. ASSUME NEW u \in Cancels, Cancel(u) PROVE VoidInv' /\ CreditInv'
  BY <1>3, CancelCredit
<1>4. CASE UNCHANGED vars
  BY <1>4, QuietCredit DEF vars, books
<1>5. QED
  BY <1>1, <1>2, <1>3, <1>4 DEF Next

LEMMA CreditInit == Init => StepInv /\ VoidInv /\ CreditInv
<1> SUFFICES ASSUME Init PROVE StepInv /\ VoidInv /\ CreditInv
  OBVIOUS
<1>1. StepInv
  BY DEF Init, StepInv
<1>2. VoidInv
  BY DEF Init, VoidInv, Voiding, NoCancel
<1>3. ASSUME NEW r \in Records PROVE Due(r) = {} /\ Voided(r) = {} /\ credits[r] = 0
  BY DEF Init, Due, Voided, Voiding, NoCancel, Bills, AttemptsAt
<1>4. CreditInv
  BY <1>3, FS_EmptySet DEF CreditInv, Counted
<1>5. QED
  BY <1>1, <1>2, <1>4

-----------------------------------------------------------------------------
(* What is voided was debited *)

\* A bill that a row, a cancellation or a callback refers to, that was voided, or
\* that is about to be saved.
Known(r) ==
  {k \in AttemptsAt(r) :
     \/ attempt[k] \in {"saving", "creating"}
     \/ bill[k] = "voided"
     \/ row[r].reference = k
     \/ \E u \in Cancels : cancel[u].bill = k
     \/ \E u \in Cancels : cancel[u].record = r /\ cancel[u].row.reference = k
     \/ \E n \in Notices : notice[n].record = r /\ notice[n].row.reference = k}

\* Only what can be cancelled is voided.
VoidedBulk == \A k \in Attempts : bill[k] = "voided" => Bulk(k)

DebitInv == \A r \in Records \ Instant : Cardinality(Known(r)) <= debits[r]

\* A record gets one more bill to know of when it is debited; otherwise no more.
LEMMA KnownCases ==
  ASSUME Base, DebitInv,
         \A r \in Records \ Instant :
           \/ Known(r)' \subseteq Known(r) /\ debits'[r] = debits[r]
           \/ \E k \in Attempts : Known(r)' \subseteq Known(r) \cup {k} /\ debits'[r] = debits[r] + 1
  PROVE  DebitInv'
<1> SUFFICES ASSUME NEW r \in Records \ Instant PROVE Cardinality(Known(r)') <= debits'[r]
  BY DEF DebitInv
<1>1. Known(r) \subseteq Attempts
  BY DEF Known, AttemptsAt
<1>2. Cardinality(Known(r)) \in Nat /\ debits[r] \in Nat /\ Cardinality(Known(r)) <= debits[r]
  BY <1>1, SomeAttempts DEF Base, TypeOK, DebitInv
<1>3. CASE Known(r)' \subseteq Known(r) /\ debits'[r] = debits[r]
  <2>1. Cardinality(Known(r)') \in Nat /\ Cardinality(Known(r)') <= Cardinality(Known(r))
    BY <1>1, <1>3, SomeAttempts, FS_Subset
  <2>2. QED
    BY <1>2, <1>3, <2>1
<1>4. ASSUME NEW k \in Attempts, Known(r)' \subseteq Known(r) \cup {k}, debits'[r] = debits[r] + 1
      PROVE Cardinality(Known(r)') <= debits'[r]
  <2> DEFINE S == Known(r) \cup {k}
  <2>1. S \subseteq Attempts /\ Known(r)' \subseteq S /\ (k \in Known(r) => S = Known(r))
    BY <1>1, <1>4
  <2>2. Cardinality(S) \in Nat /\ Cardinality(S) <= Cardinality(Known(r)) + 1
    <3>1. CASE k \in Known(r)
      <4>1. S = Known(r)
        BY <2>1, <3>1
      <4> HIDE DEF S
      <4>2. QED
        BY <1>2, <4>1
    <3>2. CASE k \notin Known(r)
      BY <1>1, <1>2, <3>2, OneMore
    <3>3. QED
      BY <3>1, <3>2
  <2>3. Cardinality(Known(r)') \in Nat /\ Cardinality(Known(r)') <= Cardinality(S)
    BY <2>1, SomeAttempts, FS_Subset
  <2>4. QED
    BY <1>2, <1>4, <2>2, <2>3
<1>5. QED
  BY <1>3, <1>4

LEMMA AttemptKnown ==
  ASSUME Base, DebitInv, NEW k \in Attempts, Attempt(k)
  PROVE  DebitInv'
<1> USE AmanAssumption
<1>0. UNCHANGED <<cancel, notice>> /\ RecordOf[k] \in Records
  BY DEF Attempt, Start, Refused, Opened, OpenedUnheard, NotPending, Debit, Save, SaveFailed, Create, Stops
<1>1. \A j \in Attempts : bill'[j] = "voided" => bill[j] = "voided"
  BY DEF Attempt, Start, Refused, Opened, OpenedUnheard, NotPending, Debit, Save, SaveFailed, Create, Stops,
     Base, TypeOK
<1>2. CASE Debit(k)
  <2>1. ASSUME NEW r \in Records \ Instant, r # RecordOf[k]
        PROVE  Known(r)' \subseteq Known(r) /\ debits'[r] = debits[r]
    BY <1>0, <1>2, <2>1 DEF Debit, Step, Known, AttemptsAt, Base, TypeOK
  <2>2. Known(RecordOf[k])' \subseteq Known(RecordOf[k]) \cup {k}
    BY <1>0, <1>2 DEF Debit, Step, Known, AttemptsAt, Base, TypeOK
  <2>3. debits'[RecordOf[k]] = debits[RecordOf[k]] + 1
    BY <1>0, <1>2 DEF Debit, Base, TypeOK
  <2>4. QED
    BY <2>1, <2>2, <2>3, KnownCases
<1>3. ASSUME debits' = debits,
             Bulk(k) => (attempt'[k] \in {"saving", "creating"} => attempt[k] \in {"saving", "creating"}),
             \A j \in Attempts \ {k} : attempt'[j] = attempt[j],
             Bulk(k) /\ row'[RecordOf[k]].reference = k =>
               row[RecordOf[k]].reference = k \/ attempt[k] \in {"saving", "creating"},
             \A r \in Records : \A j \in Attempts \ {k} : row'[r].reference = j => row[r].reference = j
      PROVE DebitInv'
  <2>1. ASSUME NEW r \in Records \ Instant PROVE Known(r)' \subseteq Known(r)
    <3>1. ASSUME NEW j \in Known(r)' PROVE j \in Known(r)
      <4>1. j \in AttemptsAt(r)
        BY <3>1 DEF Known, AttemptsAt
      <4>2. CASE j # k
        BY <1>0, <1>1, <1>3, <3>1, <4>1, <4>2 DEF Known, AttemptsAt
      <4>3. CASE j = k
        <5>1. r = RecordOf[k] /\ Bulk(k)
          BY <4>1, <4>3 DEF AttemptsAt, Bulk
        <5>2. QED
          BY <1>0, <1>1, <1>3, <3>1, <4>1, <4>3, <5>1 DEF Known, AttemptsAt
      <4>4. QED
        BY <4>2, <4>3
    <3>2. QED
      BY <3>1
  <2>2. QED
    BY <1>3, <2>1, KnownCases
<1>4. CASE Save(k)
  BY <1>0, <1>3, <1>4 DEF Save, Step, Write, Row, books, Base, TypeOK
<1>5. CASE UNCHANGED row /\ ~Debit(k)
  BY <1>0, <1>3, <1>5 DEF Attempt, Start, Refused, Opened, OpenedUnheard, NotPending, Save, SaveFailed,
     Create, Stops, Step, books, Base, TypeOK
<1>6. CASE SaveFailed(k) \/ NotPending(k) \/ Stops(k)
  <2>1. row' = row \/ Write(RecordOf[k], "failed", NoBill)
          \/ Write(RecordOf[k], "failed", row[RecordOf[k]].reference)
    BY <1>6 DEF SaveFailed, NotPending, Stops
  <2>2. \A r \in Records : row'[r].reference = row[r].reference \/ row'[r].reference = NoBill
    BY <1>0, <2>1 DEF Write, Row, Base, TypeOK
  <2>3. debits' = debits /\ attempt'[k] \in {"done", "creating failed"}
        /\ \A j \in Attempts \ {k} : attempt'[j] = attempt[j]
    BY <1>6 DEF SaveFailed, NotPending, Stops, Step, books, Base, TypeOK
  <2>4. QED
    BY <1>0, <1>3, <2>2, <2>3
<1>7. QED
  BY <1>2, <1>4, <1>5, <1>6 DEF Attempt, Start, Refused, Opened, OpenedUnheard, Create

LEMMA RestKnown ==
  ASSUME Base, VoidInv, DebitInv, VoidedBulk,
         \/ UNCHANGED vars
         \/ \E k \in Attempts : Pay(k) \/ \E n \in Notices : Heard(n, k)
         \/ \E n \in Notices : Resave(n)
         \/ \E u \in Cancels : Cancel(u)
  PROVE  DebitInv' /\ VoidedBulk'
<1> USE AmanAssumption
<1>0. debits' = debits /\ attempt' = attempt
  BY DEF vars, books, Pay, Heard, Resave, Cancel, Offer, Void, LoadCancelled, SaveCancelled, Credit,
     SaveBalances, CancelDies
<1>1. ASSUME \A j \in Attempts : bill'[j] = "voided" => bill[j] = "voided",
             \A r \in Records : Known(r)' \subseteq Known(r)
      PROVE  DebitInv' /\ VoidedBulk'
  BY <1>0, <1>1, KnownCases DEF VoidedBulk, Bulk
<1>2. CASE UNCHANGED vars
  BY <1>1, <1>2 DEF vars, Known, AttemptsAt
<1>3. ASSUME NEW k \in Attempts, Pay(k) PROVE DebitInv' /\ VoidedBulk'
  <2>1. \A j \in Attempts : bill'[j] = "voided" => bill[j] = "voided"
    BY <1>3 DEF Pay, Base, TypeOK
  <2>2. \A r \in Records : Known(r)' \subseteq Known(r)
    BY <1>0, <1>3, <2>1 DEF Pay, Known, AttemptsAt
  <2>3. QED
    BY <1>1, <2>1, <2>2
<1>4. ASSUME NEW k \in Attempts, NEW n \in Notices, Heard(n, k) PROVE DebitInv' /\ VoidedBulk'
  <2>1. RecordOf[k] \in Records /\ UNCHANGED <<bill, row, cancel>>
    BY <1>4 DEF Heard
  <2>2. /\ notice'[n].record = RecordOf[k] /\ notice'[n].row = row[RecordOf[k]]
        /\ \A m \in Notices \ {n} : notice'[m] = notice[m]
    BY <1>4 DEF Heard, Base, TypeOK
  <2>3. \A r \in Records : Known(r)' \subseteq Known(r)
    BY <1>0, <2>1, <2>2 DEF Known, AttemptsAt
  <2>4. QED
    BY <1>1, <2>1, <2>3
<1>5. ASSUME NEW n \in Notices, Resave(n) PROVE DebitInv' /\ VoidedBulk'
  <2>1. /\ notice[n].record \in Records /\ UNCHANGED <<bill, cancel>>
        /\ row' = [row EXCEPT ![notice[n].record] = notice[n].row]
        /\ notice'[n].record = NoRecord
        /\ \A m \in Notices \ {n} : notice'[m] = notice[m]
    BY <1>5 DEF Resave, Base, TypeOK, NoNotice
  <2>2. \A r \in Records : row'[r] = row[r] \/ (r = notice[n].record /\ row'[r] = notice[n].row)
    BY <2>1 DEF Base, TypeOK
  <2>3. ASSUME NEW r \in Records, NEW j \in Known(r)' PROVE j \in Known(r)
    <3>1. j \in AttemptsAt(r) /\ r # NoRecord
      BY <2>1, <2>3, AmanAssumption DEF Known, AttemptsAt
    <3>2. CASE row'[r].reference = j
      BY <2>1, <2>2, <3>1, <3>2 DEF Known
    <3>3. CASE \E m \in Notices : notice'[m].record = r /\ notice'[m].row.reference = j
      <4>1. PICK m \in Notices : notice'[m].record = r /\ notice'[m].row.reference = j
        BY <3>3
      <4>2. m # n /\ notice[m] = notice'[m]
        BY <2>1, <4>1, AmanAssumption
      <4>3. QED
        BY <3>1, <4>1, <4>2 DEF Known
    <3>4. QED
      BY <1>0, <2>1, <2>3, <3>1, <3>2, <3>3 DEF Known
  <2>4. \A r \in Records : Known(r)' \subseteq Known(r)
    BY <2>3
  <2>5. \A j \in Attempts : bill'[j] = "voided" => bill[j] = "voided"
    BY <2>1
  <2>6. QED
    BY <1>1, <2>4, <2>5
<1>6. ASSUME NEW u \in Cancels, Cancel(u) PROVE DebitInv' /\ VoidedBulk'
  <2>0. UNCHANGED notice /\ \A w \in Cancels \ {u} : cancel'[w] = cancel[w]
    <3>1. DOMAIN cancel = Cancels
      BY DEF Base, TypeOK
    <3>2. UNCHANGED notice
      BY <1>6 DEF Cancel, Offer, Void, LoadCancelled, SaveCancelled, Credit, SaveBalances, CancelDies
    <3>3. ASSUME \E r \in Records : Offer(u, r) PROVE \A w \in Cancels \ {u} : cancel'[w] = cancel[w]
      BY <3>1, <3>3 DEF Offer
    <3>4. ASSUME Void(u) \/ LoadCancelled(u) PROVE \A w \in Cancels \ {u} : cancel'[w] = cancel[w]
      BY <3>1, <3>4 DEF Void, LoadCancelled
    <3>5. ASSUME SaveCancelled(u) \/ Credit(u) \/ SaveBalances(u) \/ CancelDies(u)
          PROVE \A w \in Cancels \ {u} : cancel'[w] = cancel[w]
      BY <3>1, <3>5 DEF SaveCancelled, Credit, SaveBalances, CancelDies
    <3>6. QED
      BY <1>6, <3>2, <3>3, <3>4, <3>5 DEF Cancel
  <2> DEFINE c == cancel[u]
             d == cancel'[u]
  <2>1. ASSUME bill' = bill,
               \A r \in Records : row'[r] = row[r]
                 \/ (c.record = r /\ row'[r].reference = c.row.reference),
               d.bill = c.bill \/ d.bill = NoBill
                 \/ \E r \in Records : d.bill = row[r].reference /\ RecordOf[d.bill] = r,
               \/ d.record = NoRecord
               \/ d.record = c.record /\ d.row = c.row
               \/ d.record \in Records /\ d.row = row[d.record]
        PROVE  DebitInv' /\ VoidedBulk'
    <3>1. ASSUME NEW r \in Records, NEW k \in Known(r)' PROVE k \in Known(r)
      <4>1. k \in Attempts /\ RecordOf[k] = r
        BY <3>1 DEF Known, AttemptsAt
      <4>2. CASE attempt[k] \in {"saving", "creating"} \/ bill[k] = "voided"
        BY <4>1, <4>2 DEF Known, AttemptsAt
      <4>3. CASE row'[r].reference = k
        BY <2>1, <4>1, <4>3 DEF Known, AttemptsAt
      <4>4. ASSUME NEW w \in Cancels, cancel'[w].bill = k PROVE k \in Known(r)
        <5>1. CASE w = u
          BY <2>1, <4>1, <4>4, <5>1 DEF Known, AttemptsAt
        <5>2. CASE w # u
          BY <2>0, <4>1, <4>4, <5>2 DEF Known, AttemptsAt
        <5>3. QED
          BY <5>1, <5>2
      <4>5. ASSUME NEW w \in Cancels, cancel'[w].record = r /\ cancel'[w].row.reference = k
            PROVE k \in Known(r)
        <5>1. CASE w = u
          BY <2>1, <4>1, <4>5, <5>1 DEF Known, AttemptsAt
        <5>2. CASE w # u
          BY <2>0, <4>1, <4>5, <5>2 DEF Known, AttemptsAt
        <5>3. QED
          BY <5>1, <5>2
      <4>6. CASE \E n \in Notices : notice[n].record = r /\ notice[n].row.reference = k
        BY <4>1, <4>6 DEF Known, AttemptsAt
      <4>7. QED
        BY <1>0, <2>0, <2>1, <3>1, <4>2, <4>3, <4>4, <4>5, <4>6 DEF Known, AttemptsAt
    <3>2. QED
      BY <1>1, <2>1, <3>1
  <2>2. CASE Void(u) /\ bill[c.bill] = "open"
    <3>1. c.bill \in Attempts /\ Bulk(c.bill) /\ RecordOf[c.bill] \in Records
      BY <2>2 DEF Void, Base, TypeOK, RefInv, CancelOK, Bulk
    <3>2. /\ bill' = [bill EXCEPT ![c.bill] = "voided"] /\ UNCHANGED row
          /\ cancel' = [cancel EXCEPT ![u].pc = "voided"]
      BY <2>2 DEF Void
    <3>3. d.bill = c.bill /\ d.record = c.record /\ d.row = c.row
      BY <3>2 DEF Base, TypeOK, CancelStates
    <3>4. VoidedBulk'
      BY <3>1, <3>2 DEF VoidedBulk, Bulk, Base, TypeOK
    <3>5. ASSUME NEW r \in Records PROVE Known(r)' \subseteq Known(r)
      BY <1>0, <2>0, <3>1, <3>2, <3>3 DEF Known, AttemptsAt, Base, TypeOK
    <3>6. QED
      BY <1>0, <3>4, <3>5, KnownCases
  <2>3. ASSUME NEW r \in Records, Offer(u, r) PROVE DebitInv' /\ VoidedBulk'
    <3>1. RecordOf[row[r].reference] = r
      BY <2>3 DEF Base, TypeOK, RefInv, RefersTo, Offer, AttemptsAt
    <3>2. d.bill = row[r].reference /\ d.record = NoRecord
      BY <2>3 DEF Offer, NoCancel, Base, TypeOK
    <3>3. bill' = bill /\ row' = row
      BY <2>3 DEF Offer
    <3>4. QED
      BY <2>1, <3>1, <3>2, <3>3
  <2>4. CASE Void(u) /\ bill[c.bill] # "open"
    BY <2>1, <2>4 DEF Void, NoCancel, Base, TypeOK
  <2>5. CASE LoadCancelled(u)
    <3>1. RecordOf[c.bill] \in Records /\ bill' = bill /\ row' = row
      BY <2>5 DEF LoadCancelled, Base, TypeOK, CancelOK
    <3>2. \/ d.bill = c.bill /\ d.record = RecordOf[c.bill] /\ d.row = row[RecordOf[c.bill]]
          \/ d.bill = NoBill /\ d.record = NoRecord
      BY <2>5 DEF LoadCancelled, NoCancel, Base, TypeOK
    <3>3. QED
      BY <2>1, <3>1, <3>2
  <2>6. CASE SaveCancelled(u) \/ Credit(u)
    <3>1. d.bill = c.bill /\ d.record = c.record /\ d.row = c.row /\ bill' = bill /\ row' = row
      BY <2>6 DEF SaveCancelled, Credit, Base, TypeOK, CancelStates, books
    <3>2. QED
      BY <2>1, <3>1
  <2>7. CASE SaveBalances(u)
    <3>1. d.bill = NoBill /\ d.record = NoRecord /\ bill' = bill
      BY <2>7 DEF SaveBalances, NoCancel, Base, TypeOK
    <3>2. \A r \in Records : row'[r] = row[r] \/ (c.record = r /\ row'[r] = c.row)
      BY <2>7 DEF SaveBalances, Base, TypeOK
    <3>3. QED
      BY <2>1, <3>1, <3>2
  <2>8. CASE CancelDies(u)
    BY <2>1, <2>8 DEF CancelDies, NoCancel, Base, TypeOK
  <2>9. QED
    BY <1>6, <2>2, <2>3, <2>4, <2>5, <2>6, <2>7, <2>8 DEF Cancel
<1>7. QED
  BY <1>2, <1>3, <1>4, <1>5, <1>6

-----------------------------------------------------------------------------
(* Every bill is debited once *)

Started(r) == {k \in AttemptsAt(r) : bill[k] # "none"}

\* billed, and still to be debited
Undebited(r) ==
  {k \in AttemptsAt(r) :
     attempt[k] = "debiting" \/ (~Bulk(k) /\ attempt[k] \in {"saving", "creating"})}

Booked(r) == ~cut[r] => debits[r] + Cardinality(Undebited(r)) = Cardinality(Started(r))

BookInv == \A r \in Records : Booked(r)

LEMMA BookStep == ASSUME Base, StepInv, BookInv, [Next]_vars PROVE BookInv'
<1> USE AmanAssumption
<1> SUFFICES ASSUME NEW r \in Records PROVE Booked(r)'
  BY DEF BookInv
<1>0. /\ Undebited(r) \subseteq Attempts /\ Started(r) \subseteq Attempts
      /\ Cardinality(Undebited(r)) \in Nat /\ Cardinality(Started(r)) \in Nat /\ debits[r] \in Nat
  BY SomeAttempts DEF Undebited, Started, AttemptsAt, Base, TypeOK
<1>1. Booked(r)
  BY DEF BookInv
<1>2. ASSUME debits'[r] = debits[r], cut[r] => cut'[r], Undebited(r)' = Undebited(r),
             Started(r)' = Started(r)
      PROVE  Booked(r)'
  BY <1>1, <1>2 DEF Booked
<1>3. CASE cut'[r]
  BY <1>3 DEF Booked
<1>4. ASSUME debits' = debits, \A q \in Records : cut[q] => cut'[q], attempt' = attempt,
             \A k \in Attempts : bill'[k] = "none" <=> bill[k] = "none"
      PROVE  Booked(r)'
  <2>1. Undebited(r)' = Undebited(r) /\ Started(r)' = Started(r)
    BY <1>4 DEF Undebited, Started, AttemptsAt, Bulk
  <2>2. QED
    BY <1>2, <1>4, <2>1
<1>5. ASSUME NEW k \in Attempts, Attempt(k) PROVE Booked(r)'
  <2>0. /\ RecordOf[k] \in Records /\ \A j \in Attempts \ {k} : attempt'[j] = attempt[j] /\ bill'[j] = bill[j]
    BY <1>5 DEF Attempt, Start, Refused, Opened, OpenedUnheard, NotPending, Debit, Save, SaveFailed, Create,
       Stops, Step, Base, TypeOK
  <2>1. CASE OpenedUnheard(k) \/ Stops(k)
    <3>1. cut' = [cut EXCEPT ![RecordOf[k]] = TRUE] /\ debits' = debits
      BY <2>1 DEF OpenedUnheard, Stops, Cut
    <3>2. CASE r = RecordOf[k]
      BY <1>3, <3>1, <3>2 DEF Base, TypeOK
    <3>3. CASE r # RecordOf[k]
      BY <1>2, <2>0, <3>1, <3>3 DEF Undebited, Started, AttemptsAt, Bulk, Base, TypeOK
    <3>4. QED
      BY <3>2, <3>3
  <2>2. CASE Opened(k) /\ r = RecordOf[k]
    <3>1. /\ attempt[k] = "ordering" /\ bill[k] = "none" /\ bill'[k] = "open"
          /\ attempt'[k] = IF Bulk(k) THEN "debiting" ELSE "saving"
          /\ debits' = debits /\ cut' = cut
      BY <2>2 DEF Opened, Step, StepInv, Base, TypeOK, books
    <3>2. /\ k \notin Undebited(r) /\ Undebited(r)' = Undebited(r) \cup {k}
          /\ k \notin Started(r) /\ Started(r)' = Started(r) \cup {k}
      BY <2>0, <2>2, <3>1 DEF Undebited, Started, AttemptsAt, Bulk
    <3>3. /\ Cardinality(Undebited(r)') = Cardinality(Undebited(r)) + 1
          /\ Cardinality(Started(r)') = Cardinality(Started(r)) + 1
      BY <1>0, <3>2, OneMore
    <3>4. QED
      BY <1>0, <1>1, <3>1, <3>3 DEF Booked
  <2>3. CASE Debit(k) /\ r = RecordOf[k]
    <3>1. /\ attempt[k] = "debiting" /\ attempt'[k] = (IF Bulk(k) THEN "saving" ELSE "done")
          /\ debits'[r] = debits[r] + 1 /\ cut' = cut /\ bill' = bill
      BY <2>3 DEF Debit, Step, Base, TypeOK
    <3>2. k \in Undebited(r) /\ Undebited(r)' = Undebited(r) \ {k} /\ Started(r)' = Started(r)
      BY <2>0, <2>3, <3>1 DEF Undebited, Started, AttemptsAt, Bulk
    <3>3. /\ Cardinality(Undebited(r)') = Cardinality(Undebited(r)) - 1
          /\ Cardinality(Undebited(r)') \in Nat
      BY <1>0, <3>2, OneLess
    <3>4. QED
      BY <1>0, <1>1, <3>1, <3>2, <3>3 DEF Booked
  <2>4. CASE (Opened(k) \/ Debit(k)) /\ r # RecordOf[k]
    <3>1. debits'[r] = debits[r] /\ cut' = cut
      BY <2>4 DEF Opened, Debit, Base, TypeOK, books
    <3>2. QED
      BY <1>2, <2>0, <2>4, <3>1 DEF Undebited, Started, AttemptsAt, Bulk
  <2>5. CASE Start(k) \/ Refused(k) \/ NotPending(k) \/ Save(k) \/ SaveFailed(k) \/ Create(k)
    <3>1. bill' = bill /\ debits' = debits /\ cut' = cut
      BY <2>5 DEF Start, Refused, NotPending, Save, SaveFailed, Create, books
    <3>2. \/ /\ attempt[k] \in {"idle", "ordering", "failing", "creating failed"}
             /\ attempt'[k] \in {"ordering", "failing", "creating failed", "done"}
          \/ attempt[k] = "saving" /\ attempt'[k] = "creating"
          \/ attempt[k] = "creating" /\ attempt'[k] = IF Bulk(k) THEN "done" ELSE "debiting"
      BY <2>5 DEF Start, Refused, NotPending, Save, SaveFailed, Create, Step, Base, TypeOK
    <3>3. Undebited(r)' = Undebited(r) /\ Started(r)' = Started(r)
      BY <2>0, <3>1, <3>2 DEF Undebited, Started, AttemptsAt, Bulk
    <3>4. QED
      BY <1>2, <3>1, <3>3
  <2>6. QED
    BY <1>5, <2>1, <2>2, <2>3, <2>4, <2>5 DEF Attempt
<1>6. ASSUME NEW k \in Attempts, Pay(k) PROVE Booked(r)'
  BY <1>4, <1>6 DEF Pay, Base, TypeOK, books
<1>7. ASSUME NEW n \in Notices, Resave(n) \/ \E k \in Attempts : Heard(n, k) PROVE Booked(r)'
  BY <1>4, <1>7 DEF Resave, Heard, books
<1>8. ASSUME NEW u \in Cancels, Cancel(u) PROVE Booked(r)'
  <2>1. debits' = debits /\ attempt' = attempt
    BY <1>8 DEF Cancel, Offer, Void, LoadCancelled, SaveCancelled, Credit, SaveBalances, CancelDies, books
  <2>2. \A q \in Records : cut[q] => cut'[q]
    BY <1>8 DEF Cancel, Offer, Void, LoadCancelled, SaveCancelled, Credit, SaveBalances, CancelDies, books,
       Cut, Base, TypeOK
  <2>3. \A k \in Attempts : bill'[k] = "none" <=> bill[k] = "none"
    BY <1>8 DEF Cancel, Offer, Void, LoadCancelled, SaveCancelled, Credit, SaveBalances, CancelDies, Base, TypeOK
  <2>4. QED
    BY <1>4, <2>1, <2>2, <2>3
<1>9. CASE UNCHANGED vars
  BY <1>4, <1>9 DEF vars, books
<1>10. QED
  BY <1>5, <1>6, <1>7, <1>8, <1>9 DEF Next

LEMMA DebitInit == Init => DebitInv /\ VoidedBulk /\ BookInv
<1> SUFFICES ASSUME Init PROVE DebitInv /\ VoidedBulk /\ BookInv
  OBVIOUS
<1>1. ASSUME NEW r \in Records
      PROVE Known(r) = {} /\ Undebited(r) = {} /\ Started(r) = {} /\ debits[r] = 0
  BY <1>1, AmanAssumption DEF Init, Known, Undebited, Started, AttemptsAt, NoCancel, NoNotice, Open, Row
<1>2. Cardinality({}) = 0
  BY FS_EmptySet
<1>3. DebitInv
  BY <1>1, <1>2 DEF DebitInv
<1>4. VoidedBulk
  BY DEF Init, VoidedBulk
<1>5. ASSUME NEW r \in Records PROVE Booked(r)
  <2>1. debits[r] = 0 /\ Cardinality(Undebited(r)) = 0 /\ Cardinality(Started(r)) = 0
    BY <1>1, <1>2
  <2>2. QED
    BY <2>1 DEF Booked
<1>6. QED
  BY <1>3, <1>4, <1>5 DEF BookInv

AmanInv == Base /\ StepInv /\ VoidInv /\ CreditInv /\ DebitInv /\ VoidedBulk /\ BookInv

LEMMA AmanInvStep == ASSUME AmanInv, [Next]_vars PROVE AmanInv'
<1>1. Base' /\ StepInv' /\ VoidInv' /\ CreditInv' /\ BookInv'
  BY BaseStep, StepStep, CreditStep, BookStep DEF AmanInv
<1>2. ASSUME NEW k \in Attempts, Attempt(k) PROVE DebitInv' /\ VoidedBulk'
  <2>1. DebitInv'
    BY <1>2, AttemptKnown DEF AmanInv
  <2>2. \A j \in Attempts : bill'[j] = "voided" => bill[j] = "voided"
    BY <1>2 DEF Attempt, Start, Refused, Opened, OpenedUnheard, NotPending, Debit, Save, SaveFailed,
       Create, Stops, AmanInv, Base, TypeOK
  <2>3. VoidedBulk'
    BY <2>2 DEF AmanInv, VoidedBulk, Bulk
  <2>4. QED
    BY <2>1, <2>3
<1>3. ASSUME \/ UNCHANGED vars
             \/ \E k \in Attempts : Pay(k) \/ \E n \in Notices : Heard(n, k)
             \/ \E n \in Notices : Resave(n)
             \/ \E u \in Cancels : Cancel(u)
      PROVE  DebitInv' /\ VoidedBulk'
  BY <1>3, RestKnown DEF AmanInv
<1>4. DebitInv' /\ VoidedBulk'
  BY <1>2, <1>3 DEF Next
<1>5. QED
  BY <1>1, <1>4 DEF AmanInv

LEMMA AmanInvariant == Spec => []AmanInv
<1>1. Init => AmanInv
  BY BaseInit, CreditInit, DebitInit DEF AmanInv
<1>2. QED
  BY <1>1, AmanInvStep, PTL DEF Spec

\* The budget never gets back more than what was voided, nor is more voided than
\* it paid for.
THEOREM CreditsTheorem == Spec => []CreditsCovered
<1>1. AmanInv => CreditsCovered
  <2> SUFFICES ASSUME AmanInv, NEW r \in Records
               PROVE  credits[r] <= Cardinality(Voided(r)) /\ Cardinality(Voided(r)) <= debits[r]
    BY DEF CreditsCovered, Voided
  <2>1. Due(r) \subseteq Attempts /\ Voided(r) \subseteq Attempts /\ Known(r) \subseteq Attempts
    BY DEF Due, Voided, Bills, Known, AttemptsAt
  <2>2. /\ Cardinality(Due(r)) \in Nat /\ Cardinality(Voided(r)) \in Nat
        /\ Cardinality(Known(r)) \in Nat /\ credits[r] \in Nat /\ debits[r] \in Nat
    BY <2>1, SomeAttempts DEF AmanInv, Base, TypeOK
  <2>3. credits[r] + Cardinality(Due(r)) <= Cardinality(Voided(r))
    BY DEF AmanInv, CreditInv, Counted
  <2>4. Cardinality(Voided(r)) <= debits[r]
    <3>1. CASE r \in Instant
      <4>1. Voided(r) = {}
        BY <3>1 DEF AmanInv, VoidedBulk, Voided, Bills, AttemptsAt, Bulk
      <4>2. QED
        BY <2>2, <4>1, FS_EmptySet
    <3>2. CASE r \notin Instant
      <4>1. Voided(r) \subseteq Known(r)
        BY DEF Voided, Bills, Known
      <4>2. Cardinality(Voided(r)) <= Cardinality(Known(r))
        BY <2>1, <4>1, SomeAttempts, FS_Subset
      <4>3. QED
        BY <2>2, <3>2, <4>2 DEF AmanInv, DebitInv
    <3>3. QED
      BY <3>1, <3>2
  <2>5. QED
    BY <2>2, <2>3, <2>4
<1>2. QED
  BY <1>1, AmanInvariant, PTL

\* At rest, the debits are the credits and one for each bill that is not voided.
THEOREM BooksTheorem == Spec => []BooksAgree
<1>1. AmanInv => BooksAgree
  <2> SUFFICES ASSUME AmanInv, NEW r \in Records, AtRest(r), ~cut[r]
               PROVE  debits[r] = credits[r] + Cardinality(Bills(r, {"open", "paid"}))
    BY DEF BooksAgree
  <2> DEFINE Live == Bills(r, {"open", "paid"})
  <2>1. Due(r) = {}
    BY DEF AtRest, Due, Voiding
  <2>2. Undebited(r) = {}
    BY DEF AtRest, Undebited
  <2>3. /\ Voided(r) \subseteq Started(r) /\ Started(r) \subseteq Attempts
        /\ Live = Started(r) \ Voided(r) /\ Started(r) \cap Voided(r) = Voided(r)
    BY DEF Voided, Started, Bills, AttemptsAt, AmanInv, Base, TypeOK
  <2>4. /\ credits[r] = Cardinality(Voided(r)) /\ debits[r] = Cardinality(Started(r))
    <3>1. credits[r] + 0 = Cardinality(Voided(r)) /\ debits[r] + 0 = Cardinality(Started(r))
      BY <2>1, <2>2, FS_EmptySet DEF AmanInv, CreditInv, Counted, BookInv, Booked
    <3>2. credits[r] \in Nat /\ debits[r] \in Nat
      BY DEF AmanInv, Base, TypeOK
    <3>3. QED
      BY <3>1, <3>2
  <2>5. Cardinality(Live) = Cardinality(Started(r)) - Cardinality(Voided(r))
    BY <2>3, SomeAttempts, FS_Difference
  <2>6. Cardinality(Started(r)) \in Nat /\ Cardinality(Voided(r)) \in Nat
    BY <2>3, SomeAttempts
  <2> HIDE DEF Live
  <2>7. debits[r] = credits[r] + Cardinality(Live)
    BY <2>4, <2>5, <2>6
  <2>8. QED
    BY <2>7 DEF Live
<1>2. QED
  BY <1>1, AmanInvariant, PTL

-----------------------------------------------------------------------------
(* What the page shows of a record that was handled once *)

\* Its bill's reference is saved, or the attempt is over.
Saved(k)  == attempt[k] \in {"creating", "done"} \/ (~Bulk(k) /\ attempt[k] = "debiting")
Billed(k) == Saved(k) /\ bill[k] # "none"
Loaded(u) == cancel[u].pc \in {"marking", "crediting", "saving"}

\* A row that refers to a bill has it from an attempt that saved it, and one that
\* is successful refers to one.
Stems(x) ==
  /\ x.reference # NoBill => Billed(x.reference)
  /\ x.status = "successful" => x.reference # NoBill

SavedInv ==
  /\ \A r \in Records : first[r] # NoBill => first[r] \in AttemptsAt(r) /\ Saved(first[r])
  /\ \A k \in Attempts : aman[k].exists \/ aman[k].cancelled => Saved(k)
  /\ \A r \in Records : Stems(row[r])
  /\ \A n \in Notices : notice[n].pc = "saving" => Stems(notice[n].row)
  /\ \A u \in Cancels : cancel[u].bill # NoBill => Billed(cancel[u].bill)
  /\ \A u \in Cancels : Loaded(u) => Stems(cancel[u].row)

\* What an attempt touches is its own, and its record's.
LEMMA AttemptTouches ==
  ASSUME Base, NEW k \in Attempts, Attempt(k)
  PROVE  /\ UNCHANGED <<cancel, notice>> /\ attempt'[k] # "idle"
         /\ \A j \in Attempts \ {k} :
              attempt'[j] = attempt[j] /\ bill'[j] = bill[j] /\ aman'[j] = aman[j]
         /\ \A r \in Records \ {RecordOf[k]} :
              row'[r] = row[r] /\ first'[r] = first[r] /\ cut'[r] = cut[r]
         /\ Create(k) \/ UNCHANGED <<aman, first>>
<1> USE AmanAssumption
<1>1. UNCHANGED <<cancel, notice>> /\ (Create(k) \/ UNCHANGED <<aman, first>>)
  BY DEF Attempt, Start, Refused, Opened, OpenedUnheard, NotPending, Debit, Save, SaveFailed, Create, Stops
<1>2. attempt'[k] # "idle" /\ \A j \in Attempts \ {k} : attempt'[j] = attempt[j]
  BY DEF Attempt, Start, Refused, Opened, OpenedUnheard, NotPending, Debit, Save, SaveFailed, Create,
     Stops, Step, Base, TypeOK
<1>3. \A j \in Attempts \ {k} : bill'[j] = bill[j] /\ aman'[j] = aman[j]
  BY DEF Attempt, Start, Refused, Opened, OpenedUnheard, NotPending, Debit, Save, SaveFailed, Create,
     Stops, Base, TypeOK
<1>4. \A r \in Records \ {RecordOf[k]} : row'[r] = row[r] /\ first'[r] = first[r] /\ cut'[r] = cut[r]
  BY DEF Attempt, Start, Refused, Opened, OpenedUnheard, NotPending, Debit, Save, SaveFailed, Create,
     Stops, Write, Cut, books, Base, TypeOK
<1>5. QED
  BY <1>1, <1>2, <1>3, <1>4

\* What a cancellation touches.
LEMMA CancelTouches ==
  ASSUME Base, NEW u \in Cancels, Cancel(u)
  PROVE  /\ UNCHANGED <<attempt, first, notice>>
         /\ \A w \in Cancels \ {u} : cancel'[w] = cancel[w]
         /\ \A k \in Attempts : bill'[k] = bill[k] \/ (bill[k] = "open" /\ bill'[k] = "voided")
         /\ \A r \in Records : cut[r] => cut'[r]
<1>1. UNCHANGED <<attempt, first, notice>>
  BY DEF Cancel, Offer, Void, LoadCancelled, SaveCancelled, Credit, SaveBalances, CancelDies
<1>2. \A w \in Cancels \ {u} : cancel'[w] = cancel[w]
  <2>1. DOMAIN cancel = Cancels
    BY DEF Base, TypeOK
  <2>2. CASE \E r \in Records : Offer(u, r)
    BY <2>1, <2>2 DEF Offer
  <2>3. CASE Void(u) \/ LoadCancelled(u)
    BY <2>1, <2>3 DEF Void, LoadCancelled
  <2>4. CASE SaveCancelled(u) \/ Credit(u) \/ SaveBalances(u) \/ CancelDies(u)
    BY <2>1, <2>4 DEF SaveCancelled, Credit, SaveBalances, CancelDies
  <2>5. QED
    BY <2>2, <2>3, <2>4 DEF Cancel
<1>3. \A k \in Attempts : bill'[k] = bill[k] \/ (bill[k] = "open" /\ bill'[k] = "voided")
  BY DEF Cancel, Offer, Void, LoadCancelled, SaveCancelled, Credit, SaveBalances, CancelDies, Base, TypeOK
<1>4. \A r \in Records : cut[r] => cut'[r]
  BY DEF Cancel, Offer, Void, LoadCancelled, SaveCancelled, Credit, SaveBalances, CancelDies, books,
     Cut, Base, TypeOK
<1>5. QED
  BY <1>1, <1>2, <1>3, <1>4

\* What was saved stays saved, what was billed stays billed, and what was begun, begun.
LEMMA Keeps ==
  ASSUME Base, StepInv, [Next]_vars, NEW k \in Attempts
  PROVE  /\ Saved(k) => Saved(k)'
         /\ Billed(k) => Billed(k)'
         /\ attempt[k] # "idle" => attempt'[k] # "idle"
<1> USE AmanAssumption
<1>1. ASSUME NEW j \in Attempts, Attempt(j)
      PROVE /\ Saved(k) => Saved(k)'
            /\ attempt[k] # "idle" => attempt'[k] # "idle"
            /\ bill[k] # "none" => bill'[k] # "none"
  <2>1. CASE j # k
    BY <1>1, <2>1, AttemptTouches DEF Saved, Bulk
  <2>2. CASE j = k
    <3>1. attempt'[k] # "idle" /\ (Saved(k) => Saved(k)')
      BY <1>1, <2>2 DEF Attempt, Start, Refused, Opened, OpenedUnheard, NotPending, Debit, Save, SaveFailed,
         Create, Stops, Step, Saved, Bulk, Base, TypeOK
    <3>2. bill[k] # "none" => bill'[k] # "none"
      BY <1>1, <2>2 DEF Attempt, Start, Refused, Opened, OpenedUnheard, NotPending, Debit, Save, SaveFailed,
         Create, Stops, Base, TypeOK
    <3>3. QED
      BY <3>1, <3>2
  <2>3. QED
    BY <2>1, <2>2
<1>2. CASE UNCHANGED <<attempt, bill>>
  BY <1>2 DEF Saved, Billed, Bulk
<1>3. ASSUME NEW j \in Attempts, Pay(j)
      PROVE attempt' = attempt /\ (bill[k] # "none" => bill'[k] # "none")
  BY <1>3 DEF Pay, Base, TypeOK
<1>4. ASSUME NEW u \in Cancels, Cancel(u)
      PROVE attempt' = attempt /\ (bill[k] # "none" => bill'[k] # "none")
  BY <1>4, CancelTouches
<1>5. ASSUME NEW n \in Notices, Resave(n) \/ \E j \in Attempts : Heard(n, j)
      PROVE UNCHANGED <<attempt, bill>>
  BY <1>5 DEF Resave, Heard
<1>6. CASE UNCHANGED vars
  BY <1>2, <1>6 DEF vars
<1>7. ASSUME attempt' = attempt PROVE Saved(k)' = Saved(k)
  BY <1>7 DEF Saved, Bulk
<1>8. QED
  BY <1>1, <1>2, <1>3, <1>4, <1>5, <1>6, <1>7 DEF Next, Billed

LEMMA AttemptSaved ==
  ASSUME Base, StepInv, SavedInv, NEW k \in Attempts, Attempt(k)
  PROVE  SavedInv'
<1> USE AmanAssumption
<1>0. RecordOf[k] \in Records /\ [Next]_vars
  BY DEF Next
<1>1. \A j \in Attempts : (Saved(j) => Saved(j)') /\ (Billed(j) => Billed(j)')
  BY <1>0, Keeps
<1>2. /\ UNCHANGED <<cancel, notice>> /\ attempt'[k] # "idle"
      /\ \A j \in Attempts \ {k} : aman'[j] = aman[j]
      /\ \A r \in Records \ {RecordOf[k]} : row'[r] = row[r] /\ first'[r] = first[r]
  BY AttemptTouches
<1>3. CASE Create(k)
  <2>1. Saved(k)' /\ row' = row
    BY <1>3 DEF Create, Step, Saved, Bulk, Base, TypeOK
  <2>2. \A r \in Records : first'[r] = first[r] \/ (r = RecordOf[k] /\ first'[r] = k)
    BY <1>3, <1>0 DEF Create, Base, TypeOK
  <2>3. \A r \in Records : first'[r] # NoBill => first'[r] \in AttemptsAt(r) /\ Saved(first[r])'
    BY <1>1, <2>1, <2>2 DEF SavedInv, AttemptsAt, Saved, Bulk
  <2>4. \A j \in Attempts : aman'[j].exists \/ aman'[j].cancelled => Saved(j)'
    BY <1>1, <1>2, <2>1 DEF SavedInv
  <2>5. QED
    BY <1>1, <1>2, <2>1, <2>3, <2>4
       DEF SavedInv, Stems, Billed, Saved, Bulk, Loaded, AttemptsAt, Base, TypeOK, CancelStates, NoticeStates, Rows
<1>4. CASE UNCHANGED <<aman, first>>
  <2>1. \/ row' = row
        \/ Save(k)
        \/ Write(RecordOf[k], "failed", NoBill)
        \/ Write(RecordOf[k], "failed", row[RecordOf[k]].reference)
    BY DEF Attempt, Start, Refused, Opened, OpenedUnheard, NotPending, Debit, SaveFailed, Create, Stops
  <2>2. Save(k) => Billed(k)' /\ row'[RecordOf[k]] = Row("successful", k)
    BY <1>0 DEF Save, Step, Write, StepInv, Billed, Saved, Base, TypeOK
  <2>3. row[RecordOf[k]] \in Rows
    BY <1>0 DEF Base, TypeOK
  <2>4. \A r \in Records : Stems(row[r])'
    <3>1. ASSUME NEW r \in Records, row'[r] = row[r] PROVE Stems(row[r])'
      BY <1>1, <3>1 DEF SavedInv, Stems, Billed, Saved, Bulk, Base, TypeOK, Rows
    <3>2. Stems(row[RecordOf[k]])'
      <4>1. CASE Save(k)
        BY <2>2, <4>1 DEF Row, Stems, Billed, Saved, Bulk
      <4>2. CASE Write(RecordOf[k], "failed", NoBill)
        BY <1>0, <4>2 DEF Write, Row, Stems, Base, TypeOK
      <4>3. CASE Write(RecordOf[k], "failed", row[RecordOf[k]].reference)
        <5>1. /\ row'[RecordOf[k]].status = "failed"
              /\ row'[RecordOf[k]].reference = row[RecordOf[k]].reference
          BY <1>0, <4>3 DEF Write, Row, Base, TypeOK
        <5>2. QED
          BY <1>0, <1>1, <2>3, <5>1 DEF SavedInv, Stems, Billed, Saved, Bulk, Rows
      <4>4. CASE row' = row
        BY <1>0, <3>1, <4>4
      <4>5. QED
        BY <2>1, <4>1, <4>2, <4>3, <4>4
    <3>3. QED
      BY <1>2, <3>1, <3>2
  <2>5. QED
    BY <1>1, <1>2, <1>4, <2>4
       DEF SavedInv, Stems, Billed, Saved, Bulk, Loaded, AttemptsAt, Base, TypeOK, CancelStates, NoticeStates, Rows
<1>5. QED
  BY <1>3, <1>4, AttemptTouches

LEMMA AcceptSaved ==
  ASSUME Base, StepInv, SavedInv, [Next]_vars,
         \/ UNCHANGED vars
         \/ \E k \in Attempts : Pay(k) \/ \E n \in Notices : Heard(n, k)
         \/ \E n \in Notices : Resave(n)
  PROVE  SavedInv'
<1> USE AmanAssumption
<1>1. \A j \in Attempts : (Saved(j) => Saved(j)') /\ (Billed(j) => Billed(j)')
  BY Keeps
<1>2. UNCHANGED <<first, cancel>>
  BY DEF vars, Pay, Heard, Resave
<1>3. \A j \in Attempts : aman'[j].exists = aman[j].exists /\ aman'[j].cancelled = aman[j].cancelled
  <2>1. CASE UNCHANGED aman
    BY <2>1
  <2>2. ASSUME NEW k \in Attempts, aman' = [aman EXCEPT ![k].paid = TRUE]
        PROVE \A j \in Attempts : aman'[j].exists = aman[j].exists /\ aman'[j].cancelled = aman[j].cancelled
    BY <2>2 DEF Base, TypeOK, AmanRows
  <2>3. QED
    BY <2>1, <2>2 DEF vars, Pay, Heard, Resave
<1>4. \A r \in Records : row'[r] = row[r]
        \/ \E n \in Notices : notice[n].pc = "saving" /\ row'[r] = notice[n].row
  BY DEF vars, Pay, Heard, Resave, Base, TypeOK
<1>5. \A n \in Notices : notice'[n] = notice[n] \/ notice'[n].pc = "done"
        \/ \E r \in Records : notice'[n].row = row[r]
  <2>1. CASE UNCHANGED notice
    BY <2>1
  <2>2. ASSUME NEW k \in Attempts, NEW m \in Notices, Heard(m, k)
        PROVE  /\ RecordOf[k] \in Records /\ notice'[m].row = row[RecordOf[k]]
               /\ \A n \in Notices \ {m} : notice'[n] = notice[n]
    BY <2>2 DEF Heard, Base, TypeOK
  <2>3. ASSUME NEW m \in Notices, Resave(m)
        PROVE notice'[m].pc = "done" /\ \A n \in Notices \ {m} : notice'[n] = notice[n]
    BY <2>3 DEF Resave, Base, TypeOK, NoNotice
  <2>4. QED
    BY <2>1, <2>2, <2>3 DEF vars, Pay
<1>6. ASSUME NEW r \in Records PROVE Stems(row[r])'
  <2>1. PICK x \in Rows : row'[r] = x /\ Stems(x)
    BY <1>4 DEF SavedInv, Base, TypeOK, NoticeStates
  <2>2. QED
    BY <1>1, <2>1 DEF Stems, Billed, Saved, Bulk, Rows
<1>7. ASSUME NEW n \in Notices, notice'[n].pc = "saving" PROVE Stems(notice[n].row)'
  <2>1. PICK x \in Rows : notice'[n].row = x /\ Stems(x)
    BY <1>5, <1>7 DEF SavedInv, Base, TypeOK, NoticeStates
  <2>2. QED
    BY <1>1, <2>1 DEF Stems, Billed, Saved, Bulk, Rows
<1>8. \A j \in Attempts : aman'[j].exists \/ aman'[j].cancelled => Saved(j)'
  BY <1>1, <1>3 DEF SavedInv
<1>9. QED
  BY <1>1, <1>2, <1>6, <1>7, <1>8
     DEF SavedInv, Stems, Billed, Saved, Bulk, Loaded, AttemptsAt, Base, TypeOK, CancelStates, Rows

LEMMA CancelSaved ==
  ASSUME Base, StepInv, SavedInv, NEW u \in Cancels, Cancel(u)
  PROVE  SavedInv'
<1> USE AmanAssumption
<1>0. [Next]_vars
  BY DEF Next
<1>1. \A j \in Attempts : (Saved(j) => Saved(j)') /\ (Billed(j) => Billed(j)')
  BY <1>0, Keeps
<1>2. UNCHANGED <<attempt, first, notice>> /\ \A w \in Cancels \ {u} : cancel'[w] = cancel[w]
  BY CancelTouches
<1> DEFINE c == cancel[u]
           d == cancel'[u]
<1>3. \A r \in Records : row'[r] = row[r] \/ (Loaded(u) /\ row'[r] = c.row)
  BY DEF Cancel, Offer, Void, LoadCancelled, SaveCancelled, Credit, SaveBalances, CancelDies, Loaded,
     Base, TypeOK
<1>4. \A j \in Attempts : aman'[j] = aman[j] \/ (c.pc = "marking" /\ j = first[c.record])
  BY DEF Cancel, Offer, Void, LoadCancelled, SaveCancelled, Credit, SaveBalances, CancelDies, Base, TypeOK
<1>5. c.pc = "marking" => c.record \in Records
  BY DEF Base, TypeOK, CancelOK
<1>6. /\ d.bill \in {c.bill, NoBill} \/ \E r \in Records : d.bill = row[r].reference
      /\ Loaded(u)' => (Loaded(u) /\ d.row = c.row) \/ \E r \in Records : d.row = row[r]
  <2>1. CASE \E r \in Records : Offer(u, r)
    BY <2>1 DEF Offer, NoCancel, Loaded, Base, TypeOK
  <2>2. CASE Void(u)
    BY <2>2 DEF Void, NoCancel, Loaded, Base, TypeOK, CancelStates
  <2>3. CASE LoadCancelled(u)
    BY <2>3 DEF LoadCancelled, NoCancel, Loaded, Base, TypeOK, CancelOK
  <2>4. CASE SaveCancelled(u) \/ Credit(u)
    BY <2>4 DEF SaveCancelled, Credit, Loaded, Base, TypeOK, CancelStates
  <2>5. CASE SaveBalances(u) \/ CancelDies(u)
    BY <2>5 DEF SaveBalances, CancelDies, NoCancel, Loaded, Base, TypeOK
  <2>6. QED
    BY <2>1, <2>2, <2>3, <2>4, <2>5 DEF Cancel
<1>7. ASSUME NEW r \in Records PROVE Stems(row[r])'
  <2>1. PICK x \in Rows : row'[r] = x /\ Stems(x)
    BY <1>3 DEF SavedInv, Base, TypeOK, CancelStates
  <2>2. QED
    BY <1>1, <2>1 DEF Stems, Billed, Saved, Bulk, Rows
<1>8. \A j \in Attempts : aman'[j].exists \/ aman'[j].cancelled => Saved(j)'
  BY <1>1, <1>4, <1>5 DEF SavedInv
<1>9. \A w \in Cancels : cancel'[w].bill # NoBill => Billed(cancel[w].bill)'
  BY <1>1, <1>2, <1>6 DEF SavedInv, Stems, Billed, Saved, Bulk, Base, TypeOK, CancelStates, Rows
<1>10. \A w \in Cancels : Loaded(w)' => Stems(cancel[w].row)'
  BY <1>1, <1>2, <1>6 DEF SavedInv, Stems, Billed, Saved, Bulk, Loaded, Base, TypeOK, CancelStates, Rows
<1>11. QED
  BY <1>1, <1>2, <1>7, <1>8, <1>9, <1>10
     DEF SavedInv, Stems, Billed, Saved, Bulk, AttemptsAt, Base, TypeOK, NoticeStates, Rows

LEMMA SavedStep == ASSUME Base, StepInv, SavedInv, [Next]_vars PROVE SavedInv'
BY AttemptSaved, AcceptSaved, CancelSaved DEF Next

\* No other attempt at its record was begun.
Sole(k) == \A j \in AttemptsAt(RecordOf[k]) : j # k => attempt[j] = "idle"

FlagInv == \A k \in Attempts : Sole(k) /\ aman[k].cancelled => bill[k] = "voided"

\* The row says of a bill that it is there, and so does every copy of the row that
\* somebody is about to save; what fails has no bill.
Shown(k) ==
  LET r == RecordOf[k]
  IN /\ Billed(k) => row[r].status = "successful"
     /\ attempt[k] \in {"failing", "creating failed"} => bill[k] = "none"
     /\ \A n \in Notices :
          notice[n].pc = "saving" /\ notice[n].record = r => notice[n].row.status = "successful"
     /\ \A u \in Cancels :
          Loaded(u) /\ cancel[u].record = r => cancel[u].row.status = "successful"

ShownInv == \A k \in Attempts : Sole(k) /\ ~cut[RecordOf[k]] => Shown(k)

LEMMA SoleKept ==
  ASSUME Base, StepInv, [Next]_vars, NEW k \in Attempts, Sole(k)'
  PROVE  Sole(k)
BY Keeps DEF Sole, AttemptsAt

\* The sole attempt at a record is the one that was begun.
LEMMA SoleIs ==
  ASSUME NEW k \in Attempts, Sole(k), NEW j \in Attempts, RecordOf[j] = RecordOf[k], attempt[j] # "idle"
  PROVE  j = k
BY DEF Sole, AttemptsAt

LEMMA AttemptShown ==
  ASSUME Base, StepInv, FlagInv, ShownInv, NEW k \in Attempts, Attempt(k)
  PROVE  FlagInv' /\ ShownInv'
<1> USE AmanAssumption
<1>0. [Next]_vars /\ RecordOf[k] \in Records
  BY DEF Next
<1>1. /\ UNCHANGED <<cancel, notice>> /\ attempt'[k] # "idle"
      /\ \A j \in Attempts \ {k} :
           attempt'[j] = attempt[j] /\ bill'[j] = bill[j] /\ aman'[j] = aman[j]
      /\ \A r \in Records \ {RecordOf[k]} : row'[r] = row[r] /\ cut'[r] = cut[r]
      /\ Create(k) \/ UNCHANGED aman
  BY AttemptTouches
<1>2. \A j \in Attempts : Sole(j)' => Sole(j) /\ (j = k \/ RecordOf[j] # RecordOf[k])
  BY <1>0, <1>1, SoleKept DEF Sole, AttemptsAt
<1>3. FlagInv'
  <2>1. ASSUME NEW j \in Attempts, Sole(j)', aman'[j].cancelled PROVE bill'[j] = "voided"
    <3>1. CASE j # k
      BY <1>1, <1>2, <2>1, <3>1 DEF FlagInv
    <3>2. CASE j = k
      <4>1. ~Create(k)
        <5>1. Create(k) =>
                aman'[k] = [NoAman EXCEPT !.exists = TRUE, !.bill = attempt[k] = "creating"]
          BY DEF Create, Base, TypeOK
        <5>2. Create(k) => aman'[k].cancelled = FALSE
          BY <5>1 DEF NoAman
        <5>3. QED
          BY <2>1, <3>2, <5>2
      <4>2. bill[k] = "voided"
        BY <1>1, <1>2, <2>1, <3>2, <4>1 DEF FlagInv
      <4>3. attempt[k] # "ordering"
        BY <4>2 DEF StepInv
      <4>4. bill' = bill
        BY <4>3 DEF Attempt, Start, Refused, Opened, OpenedUnheard, NotPending, Debit, Save, SaveFailed,
           Create, Stops, Step
      <4>5. QED
        BY <3>2, <4>2, <4>4
    <3>3. QED
      BY <3>1, <3>2
  <2>2. QED
    BY <2>1 DEF FlagInv
<1>4. ASSUME NEW j \in Attempts, Sole(j)', ~cut'[RecordOf[j]] PROVE Shown(j)'
  <2>1. CASE j # k
    <3>1. RecordOf[j] \in Records \ {RecordOf[k]} /\ Shown(j)
      BY <1>1, <1>2, <1>4, <2>1 DEF ShownInv
    <3>2. QED
      BY <1>1, <2>1, <3>1 DEF Shown, Billed, Saved, Bulk, Loaded
  <2>2. CASE j = k
    <3>1. ~OpenedUnheard(k) /\ ~Stops(k) /\ cut' = cut
      BY <1>0, <1>4, <2>2 DEF Attempt, Start, Refused, Opened, OpenedUnheard, NotPending, Debit, Save,
         SaveFailed, Create, Stops, Cut, books, Base, TypeOK
    <3>2. Shown(k)
      BY <1>2, <1>4, <2>2, <3>1 DEF ShownInv
    <3>3. /\ Billed(k)' => row'[RecordOf[k]].status = "successful"
          /\ attempt'[k] \in {"failing", "creating failed"} => bill'[k] = "none"
      <4>1. CASE Start(k) \/ Refused(k) \/ Opened(k)
        BY <4>1 DEF Start, Refused, Opened, Step, StepInv, Billed, Saved, Bulk, Base, TypeOK
      <4>2. CASE NotPending(k)
        BY <4>2 DEF NotPending, Step, StepInv, Billed, Base, TypeOK
      <4>3. CASE Save(k)
        BY <1>0, <4>3 DEF Save, Step, Write, Row, Base, TypeOK
      <4>4. CASE SaveFailed(k)
        BY <3>2, <4>4 DEF SaveFailed, Step, Shown, Billed, Base, TypeOK
      <4>5. CASE Create(k) \/ Debit(k)
        BY <3>2, <4>5 DEF Create, Debit, Step, Shown, Billed, Saved, Bulk, Base, TypeOK
      <4>6. QED
        BY <3>1, <4>1, <4>2, <4>3, <4>4, <4>5 DEF Attempt
    <3>4. QED
      BY <1>1, <2>2, <3>2, <3>3 DEF Shown, Loaded
  <2>3. QED
    BY <2>1, <2>2
<1>5. QED
  BY <1>3, <1>4 DEF ShownInv

\* Nobody's attempt moves.
LEMMA RestShown ==
  ASSUME Base, StepInv, VoidInv, SavedInv, FlagInv, ShownInv, [Next]_vars,
         \/ UNCHANGED vars
         \/ \E k \in Attempts : Pay(k) \/ \E n \in Notices : Heard(n, k)
         \/ \E n \in Notices : Resave(n)
         \/ \E u \in Cancels : Cancel(u)
  PROVE  FlagInv' /\ ShownInv'
<1> USE AmanAssumption
<1>1. /\ attempt' = attempt
      /\ \A k \in Attempts : bill'[k] = bill[k] \/ (bill[k] = "open" /\ bill'[k] \in {"paid", "voided"})
      /\ \A r \in Records : cut[r] => cut'[r]
  <2>1. ASSUME NEW u \in Cancels, Cancel(u)
        PROVE  /\ attempt' = attempt
               /\ \A k \in Attempts : bill'[k] = bill[k] \/ (bill[k] = "open" /\ bill'[k] = "voided")
               /\ \A r \in Records : cut[r] => cut'[r]
    BY <2>1, CancelTouches
  <2>2. ASSUME NEW k \in Attempts, Pay(k)
        PROVE  attempt' = attempt /\ cut' = cut
               /\ \A j \in Attempts : bill'[j] = bill[j] \/ (bill[j] = "open" /\ bill'[j] = "paid")
    BY <2>2 DEF Pay, books, Base, TypeOK
  <2>3. CASE UNCHANGED <<attempt, bill, cut>>
    BY <2>3
  <2>4. QED
    BY <2>1, <2>2, <2>3 DEF vars, Heard, Resave, books
<1>2. \A k \in Attempts : (Sole(k)' => Sole(k)) /\ (Billed(k)' => Billed(k))
  BY <1>1 DEF Sole, AttemptsAt, Billed, Saved, Bulk, Base, TypeOK
<1>3. \A k \in Attempts : Saved(k) => attempt[k] # "idle"
  BY DEF Saved
<1>4. FlagInv'
  <2>1. ASSUME NEW k \in Attempts, Sole(k), aman'[k].cancelled PROVE bill[k] = "voided"
    <3>1. CASE aman[k].cancelled
      BY <2>1, <3>1 DEF FlagInv
    <3>2. CASE ~aman[k].cancelled
      <4>1. PICK u \in Cancels : SaveCancelled(u)
        <5>1. aman' # aman
          BY <2>1, <3>2
        <5>2. ASSUME NEW j \in Attempts, NEW n \in Notices, Heard(n, j) PROVE aman'[k].cancelled = aman[k].cancelled
          BY <5>2 DEF Heard, Base, TypeOK, AmanRows
        <5>3. QED
          BY <2>1, <3>2, <5>1, <5>2 DEF vars, Pay, Resave, Cancel, Offer, Void, LoadCancelled, Credit,
             SaveBalances, CancelDies
      <4>2. /\ cancel[u].pc = "marking" /\ cancel[u].bill \in Attempts
            /\ cancel[u].record = RecordOf[cancel[u].bill] /\ k = first[cancel[u].record]
        BY <2>1, <3>2, <4>1 DEF SaveCancelled, Base, TypeOK, CancelOK
      <4>3. RecordOf[k] = RecordOf[cancel[u].bill] /\ Saved(cancel[u].bill)
        BY <4>2 DEF SavedInv, AttemptsAt, Billed
      <4>4. cancel[u].bill = k
        BY <1>3, <2>1, <4>2, <4>3, SoleIs
      <4>5. QED
        BY <4>2, <4>4 DEF VoidInv, Voiding
    <3>3. QED
      BY <3>1, <3>2
  <2>2. QED
    BY <1>1, <1>2, <2>1 DEF FlagInv
<1>5. ASSUME NEW k \in Attempts, Sole(k)', ~cut'[RecordOf[k]] PROVE Shown(k)'
  <2> DEFINE r == RecordOf[k]
  <2>1. r \in Records /\ Sole(k) /\ Shown(k)
    BY <1>1, <1>2, <1>5 DEF ShownInv
  <2>2. row'[r].status = "successful" \/ row'[r] = row[r]
    <3>1. \/ row' = row
          \/ \E n \in Notices : notice[n].pc = "saving" /\ row' = [row EXCEPT ![notice[n].record] = notice[n].row]
          \/ \E u \in Cancels : Loaded(u) /\ row' = [row EXCEPT ![cancel[u].record] = cancel[u].row]
      BY DEF vars, Pay, Heard, Resave, Cancel, Offer, Void, LoadCancelled, SaveCancelled, Credit, SaveBalances,
         CancelDies, Loaded
    <3>2. QED
      BY <2>1, <3>1 DEF Shown, Base, TypeOK
  <2>3. ASSUME NEW n \in Notices, notice'[n].pc = "saving", notice'[n].record = r
        PROVE  notice'[n].row.status = "successful"
    <3>1. CASE notice'[n] = notice[n]
      BY <2>1, <2>3, <3>1 DEF Shown
    <3>2. CASE notice'[n] # notice[n]
      <4>1. PICK j \in Attempts : Heard(n, j)
        BY <2>3, <3>2, CancelTouches DEF vars, Pay, Heard, Resave, NoNotice, Base, TypeOK
      <4>2. /\ RecordOf[j] = r /\ notice'[n].row = row[r] /\ Saved(j) /\ bill[j] = "paid"
        BY <2>3, <4>1 DEF Heard, SavedInv, Base, TypeOK
      <4>3. j = k
        BY <1>3, <2>1, <4>2, SoleIs
      <4>4. QED
        BY <2>1, <4>2, <4>3 DEF Shown, Billed
    <3>3. QED
      BY <3>1, <3>2
  <2>4. ASSUME NEW u \in Cancels, Loaded(u)', cancel'[u].record = r
        PROVE  cancel'[u].row.status = "successful"
    <3>1. CASE Loaded(u) /\ cancel'[u].record = cancel[u].record /\ cancel'[u].row = cancel[u].row
      BY <2>1, <2>4, <3>1 DEF Shown
    <3>2. CASE LoadCancelled(u)
      <4>1. /\ cancel[u].bill \in Attempts /\ RecordOf[cancel[u].bill] = r /\ cancel'[u].row = row[r]
        BY <2>4, <3>2 DEF LoadCancelled, NoCancel, Loaded, Base, TypeOK, CancelOK
      <4>2. Billed(cancel[u].bill)
        BY <4>1 DEF SavedInv
      <4>3. cancel[u].bill = k
        BY <1>3, <2>1, <4>1, <4>2, SoleIs DEF Billed
      <4>4. QED
        BY <2>1, <4>1, <4>2, <4>3 DEF Shown
    <3>3. CASE SaveCancelled(u) \/ Credit(u)
      BY <2>4, <3>1, <3>3 DEF SaveCancelled, Credit, Loaded, Base, TypeOK, CancelStates
    <3>4. CASE (\E q \in Records : Offer(u, q)) \/ Void(u) \/ SaveBalances(u) \/ CancelDies(u)
      <4>1. ASSUME NEW q \in Records, Offer(u, q) PROVE cancel'[u].pc = "offered"
        BY <4>1 DEF Offer, NoCancel, Base, TypeOK
      <4>2. CASE SaveBalances(u) \/ CancelDies(u)
        BY <2>4, <4>2 DEF SaveBalances, CancelDies, NoCancel, Loaded, Base, TypeOK
      <4>3. CASE Void(u)
        BY <2>4, <4>3 DEF Void, NoCancel, Loaded, Base, TypeOK, CancelStates
      <4>4. QED
        BY <2>4, <3>4, <4>1, <4>2, <4>3 DEF Loaded
    <3>5. CASE cancel'[u] = cancel[u]
      BY <2>4, <3>1, <3>5 DEF Loaded
    <3>6. CASE Cancel(u)
      BY <3>2, <3>3, <3>4, <3>6 DEF Cancel
    <3>7. QED
      BY <3>5, <3>6, CancelTouches DEF vars, Pay, Heard, Resave
  <2>5. /\ Billed(k)' => row'[r].status = "successful"
        /\ attempt'[k] \in {"failing", "creating failed"} => bill'[k] = "none"
    BY <1>1, <1>2, <2>1, <2>2 DEF Shown
  <2>6. QED
    BY <2>3, <2>4, <2>5 DEF Shown, Loaded
<1>6. QED
  BY <1>4, <1>5 DEF ShownInv

PageInv == SavedInv /\ FlagInv /\ ShownInv

LEMMA PageInvariant == Spec => []PageInv
<1>1. Init => PageInv
  <2> SUFFICES ASSUME Init PROVE PageInv
    OBVIOUS
  <2>1. SavedInv
    BY AmanAssumption DEF Init, SavedInv, Stems, Loaded, Open, Row, NoCancel, NoNotice, NoAman
  <2>2. FlagInv
    BY DEF Init, FlagInv, NoAman
  <2>3. ShownInv
    BY DEF Init, ShownInv, Shown, Billed, Loaded, NoCancel, NoNotice
  <2>4. QED
    BY <2>1, <2>2, <2>3 DEF PageInv
<1>2. AmanInv /\ PageInv /\ [Next]_vars => PageInv'
  <2> SUFFICES ASSUME AmanInv, PageInv, [Next]_vars PROVE PageInv'
    OBVIOUS
  <2>1. SavedInv'
    BY SavedStep DEF AmanInv, PageInv
  <2>2. FlagInv' /\ ShownInv'
    <3>1. ASSUME NEW k \in Attempts, Attempt(k) PROVE FlagInv' /\ ShownInv'
      BY <3>1, AttemptShown DEF AmanInv, PageInv
    <3>2. ASSUME \/ UNCHANGED vars
                 \/ \E k \in Attempts : Pay(k) \/ \E n \in Notices : Heard(n, k)
                 \/ \E n \in Notices : Resave(n)
                 \/ \E u \in Cancels : Cancel(u)
          PROVE  FlagInv' /\ ShownInv'
      BY <3>2, RestShown DEF AmanInv, PageInv
    <3>3. QED
      BY <3>1, <3>2 DEF Next
  <2>3. QED
    BY <2>1, <2>2 DEF PageInv
<1>3. QED
  BY <1>1, <1>2, AmanInvariant, PTL DEF Spec

\* Of a record handled once at most, the one attempt that was begun is the sole one.
LEMMA OnceIsSole ==
  ASSUME NEW k \in Attempts, Once(RecordOf[k]), attempt[k] # "idle"
  PROVE  Sole(k)
<1> DEFINE S == {j \in AttemptsAt(RecordOf[k]) : attempt[j] # "idle"}
<1>1. S \subseteq Attempts /\ k \in S /\ Cardinality(S) <= 1
  BY DEF Once, AttemptsAt
<1>2. ASSUME NEW j \in S, j # k PROVE FALSE
  <2>1. {k} \cup {j} \subseteq S /\ {k} \subseteq Attempts /\ j \in Attempts /\ j \notin {k}
    BY <1>1, <1>2
  <2>2. Cardinality({k} \cup {j}) = 2
    <3>1. Cardinality({k}) = 1
      BY FS_Singleton
    <3>2. Cardinality({k} \cup {j}) = Cardinality({k}) + 1
      BY <2>1, OneMore
    <3>3. QED
      BY <3>1, <3>2
  <2>3. Cardinality({k} \cup {j}) <= Cardinality(S) /\ Cardinality(S) \in Nat
    BY <1>1, <2>1, SomeAttempts, FS_Subset
  <2> HIDE DEF S
  <2>4. QED
    BY <1>1, <2>2, <2>3
<1>3. QED
  BY <1>2 DEF Sole

\* A record or transaction handled once shows what Accept has: as cancelled only
\* what was voided and, unless somebody stopped half-way, as successful exactly
\* what has a bill.
THEOREM ShownTheorem == Spec => []ShownAsBilled
<1>1. AmanInv /\ PageInv => ShownAsBilled
  <2> SUFFICES ASSUME AmanInv, PageInv, NEW r \in Records, Once(r)
               PROVE  /\ \A k \in AttemptsAt(r) : aman[k].cancelled => bill[k] = "voided"
                      /\ AtRest(r) /\ ~cut[r] =>
                           (row[r].status = "successful" <=> Bills(r, {"open", "paid", "voided"}) # {})
    BY DEF ShownAsBilled
  <2>1. ASSUME NEW k \in AttemptsAt(r), aman[k].cancelled PROVE bill[k] = "voided"
    <3>1. k \in Attempts /\ RecordOf[k] = r /\ attempt[k] # "idle"
      BY <2>1 DEF AttemptsAt, PageInv, SavedInv, Saved
    <3>2. QED
      BY <2>1, <3>1, OnceIsSole DEF PageInv, FlagInv
  <2>2. ASSUME AtRest(r), ~cut[r], row[r].status = "successful"
        PROVE  Bills(r, {"open", "paid", "voided"}) # {}
    <3>1. row[r].reference # NoBill /\ row[r].reference \in AttemptsAt(r) /\ Billed(row[r].reference)
      BY <2>2 DEF PageInv, SavedInv, Stems, AmanInv, Base, RefInv, RefersTo
    <3>2. bill[row[r].reference] \in {"open", "paid", "voided"}
      BY <3>1 DEF AttemptsAt, Billed, AmanInv, Base, TypeOK
    <3>3. QED
      BY <3>1, <3>2 DEF Bills
  <2>3. ASSUME AtRest(r), ~cut[r], NEW k \in Bills(r, {"open", "paid", "voided"})
        PROVE  row[r].status = "successful"
    <3>1. k \in Attempts /\ RecordOf[k] = r /\ bill[k] # "none" /\ attempt[k] \in {"idle", "done"}
      BY <2>3 DEF Bills, AttemptsAt, AtRest
    <3>2. attempt[k] = "done" /\ Billed(k)
      BY <3>1 DEF AmanInv, StepInv, Billed, Saved
    <3>3. Shown(k)
      BY <2>3, <3>1, <3>2, OnceIsSole DEF PageInv, ShownInv
    <3>4. QED
      BY <3>1, <3>2, <3>3 DEF Shown
  <2>4. QED
    BY <2>1, <2>2, <2>3
<1>2. QED
  BY <1>1, AmanInvariant, PageInvariant, PTL
=============================================================================
