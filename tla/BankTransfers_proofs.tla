------------------------ MODULE BankTransfers_proofs ------------------------
(***************************************************************************)
(* The status tasks exclude one another, and because they do, the rows of  *)
(* a transfer, the budget and EBC's word agree: for any number of          *)
(* transfers, page sizes, deliveries of the two kinds, and however they    *)
(* wake up, give up, raise and die.                                        *)
(*                                                                         *)
(* MutexInv    whoever is past the inspection is found by the others       *)
(* RequestInv  what a request has done so far against row, debit, credit   *)
(* RunInv      what a run has loaded is still the newest row, and what it  *)
(*             holds is on record as EBC answered and not yet credited     *)
(* BackInv     what came back is credited, or held by a run that is about  *)
(*             to, or was cut off                                          *)
(* InstantInv  the instant row lags only while somebody is to write it     *)
(* FollowInv   what is on record is where EBC is or was, and what a task   *)
(*             is about to save is news and at worst late (with MoneyInv   *)
(*             it makes every step one of the contract)                    *)
(***************************************************************************)
EXTENDS BankTransfers, FiniteSetTheorems, TLAPS

\* All the proof needs of the shape of a task.
TaskShape == DOMAIN task = Tasks /\ \A k \in Tasks : "pc" \in DOMAIN task[k]

\* The exclusion is inductive: who is past the inspection is found by the others.
MutexInv == TaskShape /\ OneStatusRun

LEMMA InitMutex == Init => MutexInv
BY DEF Init, MutexInv, TaskShape, OneStatusRun, Running, Idle, At

\* Task k gets to step pc and the others stay where they are.
TaskStep(k, pc) ==
  /\ DOMAIN task' = Tasks
  /\ "pc" \in DOMAIN task'[k] /\ task'[k].pc = pc
  /\ \A j \in Tasks \ {k} : task'[j] = task[j]

\* That keeps the exclusion if k was past the inspection already, or is not
\* now, or found all the others idle.
LEMMA TaskKeepsMutex ==
  ASSUME MutexInv, NEW k \in Tasks, NEW pc, TaskStep(k, pc),
         \/ k \in Running
         \/ pc \in {"idle", "active"}
         \/ \A j \in Tasks \ {k} : task[j].pc = "idle"
  PROVE  MutexInv'
<1>1. TaskShape'
  BY DEF MutexInv, TaskShape, TaskStep
<1>2. \A j \in Tasks \ {k} : j \in Running' <=> j \in Running
  BY DEF Running, TaskStep
<1>3. k \in Running' => pc \notin {"idle", "active"}
  BY DEF Running, TaskStep
<1>4. OneStatusRun'
  BY <1>2, <1>3 DEF MutexInv, OneStatusRun, Running
<1>5. QED
  BY <1>1, <1>4 DEF MutexInv

\* The request and EBC leave the tasks alone.
LEMMA RequestLeavesTasks == ASSUME NEW t \in Trx, Request(t) \/ Clears(t) PROVE task' = task
BY DEF Request, Clears, Validate, CreateInstant, CreateBank, Send, DebitAccepted, MarkPending,
       SyncPending, MarkFailed, SyncFailed, RequestDies

\* Age is all that days change.
LEMMA AgesKeeps ==
  ASSUME NEW t \in Trx, Ages(t)
  PROVE  UNCHANGED <<req, ref, latest, older, instant, ebc, task, faults, debits, credits, crossed, cut>>
BY DEF Ages, books

\* Each action of a task: where it leads, and that it is one the lemma covers.
LEMMA MutexStatusTask == ASSUME MutexInv, NEW k \in Tasks, StatusTask(k) PROVE MutexInv'
<1>0. /\ DOMAIN task = Tasks /\ "pc" \in DOMAIN task[k]
      /\ task[k].pc \notin {"idle", "active"} => k \in Running
  BY DEF MutexInv, TaskShape, Running
<1>1. CASE Wake(k)
  <2>1. TaskStep(k, "active")
    BY <1>0, <1>1 DEF Wake, TaskStep
  <2>2. QED
    BY <2>1, TaskKeepsMutex
<1>2. CASE Enter(k)
  <2>1. TaskStep(k, "counting")
    BY <1>0, <1>2 DEF Enter, TaskStep
  <2>2. QED
    BY <1>2, <2>1, TaskKeepsMutex DEF Enter
<1>3. CASE GiveUp(k) \/ Raises(k) \/ TaskDies(k)
  <2>1. TaskStep(k, "idle")
    BY <1>0, <1>3 DEF GiveUp, Raises, TaskDies, TaskStep, Idle, At
  <2>2. QED
    BY <2>1, TaskKeepsMutex
<1>4. CASE Count(k)
  <2>1. TaskStep(k, "paging")
    BY <1>0, <1>4 DEF Count, TaskStep
  <2>2. QED
    BY <1>0, <1>4, <2>1, TaskKeepsMutex DEF Count
<1>5. CASE Page(k)
  <2>1. TaskStep(k, IF task[k].next > task[k].pages THEN "idle" ELSE "asking")
    <3>1. \/ /\ task[k].next > task[k].pages
             /\ task' = [task EXCEPT ![k] = Idle]
          \/ /\ ~(task[k].next > task[k].pages)
             /\ \E rows : task' = [task EXCEPT ![k].pc = "asking", ![k].next = @ + 1, ![k].todo = rows]
      BY <1>5, Zenon DEF Page
    <3>2. QED
      BY <1>0, <3>1 DEF TaskStep, Idle, At
  <2>2. QED
    BY <1>0, <1>5, <2>1, TaskKeepsMutex DEF Page
<1>6. CASE NextPage(k)
  <2>1. TaskStep(k, "paging")
    BY <1>0, <1>6 DEF NextPage, TaskStep
  <2>2. QED
    BY <1>0, <1>6, <2>1, TaskKeepsMutex DEF NextPage
<1>7. ASSUME NEW e \in task[k].todo, Ask(k, e) PROVE MutexInv'
  <2>1. TaskStep(k, "asking") \/ TaskStep(k, "marking")
    <3> DEFINE rest == [task EXCEPT ![k].todo = @ \ {e}]
    <3>1. \/ task' = rest
          \/ task' = [rest EXCEPT ![k].pc = "marking", ![k].at = e.trx, ![k].answer = ebc[e.trx]]
      BY <1>7, Zenon DEF Ask
    <3>2. /\ DOMAIN rest = Tasks /\ "pc" \in DOMAIN rest[k] /\ rest[k].pc = "asking"
          /\ \A j \in Tasks \ {k} : rest[j] = task[j]
      BY <1>0, <1>7 DEF Ask
    <3> HIDE DEF rest
    <3>3. QED
      BY <3>1, <3>2 DEF TaskStep
  <2>2. QED
    BY <1>0, <1>7, <2>1, TaskKeepsMutex DEF Ask
<1>8. CASE MarkCopy(k)
  <2>1. TaskStep(k, "syncing")
    BY <1>0, <1>8 DEF MarkCopy, TaskStep
  <2>2. QED
    BY <1>0, <1>8, <2>1, TaskKeepsMutex DEF MarkCopy
<1>9. CASE Sync(k)
  <2>1. TaskStep(k, IF task[k].answer \in Back THEN "crediting" ELSE "callback")
    BY <1>0, <1>9 DEF Sync, TaskStep
  <2>2. QED
    BY <1>0, <1>9, <2>1, TaskKeepsMutex DEF Sync
<1>10. CASE Credit(k)
  <2>1. TaskStep(k, "callback")
    BY <1>0, <1>10 DEF Credit, TaskStep
  <2>2. QED
    BY <1>0, <1>10, <2>1, TaskKeepsMutex DEF Credit
<1>11. CASE Callback(k)
  <2>1. TaskStep(k, "asking")
    BY <1>0, <1>11 DEF Callback, TaskStep, Hold
  <2>2. QED
    BY <1>0, <1>11, <2>1, TaskKeepsMutex DEF Callback
<1>12. QED
  BY <1>1, <1>2, <1>3, <1>4, <1>5, <1>6, <1>7, <1>8, <1>9, <1>10, <1>11 DEF StatusTask

LEMMA MutexStep == MutexInv /\ [Next]_vars => MutexInv'
<1> SUFFICES ASSUME MutexInv, [Next]_vars PROVE MutexInv'
  OBVIOUS
<1>1. ASSUME task' = task PROVE MutexInv'
  BY <1>1 DEF MutexInv, TaskShape, OneStatusRun, Running
<1>2. ASSUME NEW t \in Trx, Request(t) \/ Clears(t) PROVE MutexInv'
  BY <1>1, <1>2, RequestLeavesTasks
<1>3. ASSUME NEW t \in Trx, Ages(t) PROVE MutexInv'
  BY <1>1, <1>3, AgesKeeps
<1>4. ASSUME NEW k \in Tasks, StatusTask(k) PROVE MutexInv'
  BY <1>4, MutexStatusTask
<1>5. QED
  BY <1>1, <1>2, <1>3, <1>4 DEF Next, vars

\* At most one delivery of the two periodic tasks is past its inspection of the
\* active tasks, for any number of deliveries.
THEOREM OneStatusRunTheorem == Spec => []OneStatusRun
<1>1. Spec => []MutexInv
  BY InitMutex, MutexStep, PTL DEF Spec
<1>2. MutexInv => OneStatusRun
  BY DEF MutexInv
<1>3. QED
  BY <1>1, <1>2, PTL
-----------------------------------------------------------------------------
(* Shapes *)

LEMMA CodesStates ==
  /\ \A code \in Expected : StatusOf(code) \in {"pending", "successful", "rejected", "returned"}
  /\ \A code \in Expected : StatusOf(code) \in {"rejected", "returned"} <=> code \in Back
  /\ \A code \in Expected : StatusOf(code) \in {"pending", "successful"} <=> code \notin Back
  /\ Back \subseteq Expected /\ Expected \subseteq Codes
  /\ \A status \in Statuses : InstantOf(status) \in Statuses
BY DEF StatusOf, Expected, Back, Rejected, Returned, Codes, Statuses, InstantOf

LEMMA RowType ==
  /\ \A status, code : Row(status, code).status = status /\ Row(status, code).code = code
  /\ \A status \in Statuses, code \in Codes : Row(status, code) \in RowStates
BY DEF Row, RowStates

LEMMA IdleType == Idle \in TaskStates /\ TaskOK(Idle) /\ Idle.pc = "idle" /\ Idle.todo = {} /\ Idle.at = NoTrx
BY TransferAssumption DEF Idle, At, TaskStates, TaskOK, Codes, Statuses

LEMMA BankTypeInit == Init => TypeOK
<1> SUFFICES ASSUME Init PROVE TypeOK
  OBVIOUS
<1>1. RequestsOK /\ BooksOK
  BY TransferAssumption DEF Init, RequestsOK, BooksOK
<1>2. RowsOK
  BY RowType DEF Init, RowsOK, NoRow, Statuses, Codes
<1>3. TasksOK
  BY IdleType DEF Init, TasksOK, TaskOK
<1>4. QED
  BY <1>1, <1>2, <1>3 DEF TypeOK

\* The page arithmetic stays in the naturals.
LEMMA LatestType == ASSUME NEW k PROVE Latest(k) \subseteq Trx /\ Cardinality(Latest(k)) \in Nat
BY TransferAssumption, FS_Subset, FS_CardinalityType DEF Latest

LEMMA PagesType == ASSUME NEW k PROVE (Cardinality(Latest(k)) + PageSize - 1) \div PageSize \in Nat
BY LatestType, TransferAssumption

LEMMA FaultType == ASSUME BooksOK, faults < MaxFaults, faults' = faults + 1 PROVE faults' \in 0..MaxFaults
BY TransferAssumption DEF BooksOK

\* The age of a new row is nought; days add to it, and nothing else touches it.
LEMMA AgeType == ASSUME RowsOK, [Next]_vars PROVE age' \in [Trx -> Nat]
<1>0. age \in [Trx -> Nat]
  BY DEF RowsOK
<1>1. ASSUME NEW t \in Trx, Ages(t) PROVE age' \in [Trx -> Nat]
  BY <1>0, <1>1 DEF Ages
<1>2. ASSUME NEW t \in Trx, Request(t) \/ Clears(t)
      PROVE  age' = age \/ age' = [age EXCEPT ![t] = 0]
  BY <1>2 DEF Request, Clears, Validate, CreateInstant, CreateBank, NewRow, Send, DebitAccepted, MarkPending,
     SyncPending, MarkFailed, SyncFailed, RequestDies
<1>3. ASSUME NEW k \in Tasks, StatusTask(k)
      PROVE  age' = age \/ \E t : age' = [age EXCEPT ![t] = 0]
  BY <1>3 DEF StatusTask, Wake, Enter, GiveUp, Count, Page, NextPage, Ask, NewRow, Raises, MarkCopy, Sync, Credit,
     Callback, TaskDies, quiet
<1>4. QED
  BY <1>0, <1>1, <1>2, <1>3 DEF Next, vars

LEMMA AgesType == ASSUME TypeOK, NEW t \in Trx, Ages(t) PROVE TypeOK'
<1>1. age' \in [Trx -> Nat]
  BY AgeType DEF TypeOK, Next
<1>2. QED
  BY <1>1, AgesKeeps DEF TypeOK, RequestsOK, RowsOK, BooksOK, TasksOK, TaskOK

LEMMA RequestType == ASSUME TypeOK, NEW t \in Trx, Request(t) \/ Clears(t) PROVE TypeOK'
<1>1. task' = task
  BY RequestLeavesTasks
<1>2. TasksOK'
  BY <1>1 DEF TypeOK, TasksOK
<1>3. req' \in [Trx -> {"idle", "validated", "instant", "created", "sent", "debited", "marked",
                      "failing", "rejected", "done", "dead"}]
  BY DEF TypeOK, RequestsOK, Request, Clears, Validate, CreateInstant, CreateBank, Send, DebitAccepted,
         MarkPending, SyncPending, MarkFailed, SyncFailed, RequestDies, Go
<1>4. ref' \in [Trx -> Refs \cup {NoRef}]
  BY DEF TypeOK, RequestsOK, Request, Clears, Validate, CreateInstant, CreateBank, Send, DebitAccepted,
         MarkPending, SyncPending, MarkFailed, SyncFailed, RequestDies
<1>5. latest' \in [Trx -> RowStates]
  <2>1. CASE CreateBank(t)
    BY <2>1, RowType DEF CreateBank, NewRow, TypeOK, RowsOK, Statuses, Codes
  <2>2. CASE MarkPending(t)
    BY <2>2, RowType DEF MarkPending, TypeOK, RowsOK, Statuses, Codes, Expected
  <2>3. CASE MarkFailed(t)
    BY <2>3, RowType DEF MarkFailed, TypeOK, RowsOK, Statuses, Codes
  <2>4. CASE latest' = latest
    BY <2>4 DEF TypeOK, RowsOK
  <2>5. QED
    BY <2>1, <2>2, <2>3, <2>4 DEF Request, Clears, Validate, CreateInstant, Send, DebitAccepted, SyncPending,
       SyncFailed, RequestDies
<1>6. older' \in [Trx -> SUBSET Trx]
  BY DEF TypeOK, RowsOK, Request, Clears, Validate, CreateInstant, CreateBank, NewRow, Send, DebitAccepted,
         MarkPending, SyncPending, MarkFailed, SyncFailed, RequestDies
<1>7. instant' \in [Trx -> Statuses]
  BY DEF TypeOK, RowsOK, Statuses, Request, Clears, Validate, CreateInstant, CreateBank, Send, DebitAccepted,
         MarkPending, SyncPending, MarkFailed, SyncFailed, RequestDies, SyncInstant
<1>8. ebc' \in [Trx -> {"none", "refused", "8000"} \cup Expected]
  <2>1. \A move \in Moves : move[2] \in Expected
    BY DEF Moves, Expected, Back
  <2>2. CASE Clears(t)
    BY <2>1, <2>2 DEF Clears, TypeOK, RowsOK
  <2>3. CASE Request(t)
    BY <2>3 DEF TypeOK, RowsOK, Request, Validate, CreateInstant, CreateBank, Send, DebitAccepted,
         MarkPending, SyncPending, MarkFailed, SyncFailed, RequestDies
  <2>4. QED
    BY <2>2, <2>3
<1>9. faults' \in 0..MaxFaults
  <2>1. faults' = faults \/ (faults < MaxFaults /\ faults' = faults + 1)
    BY DEF Request, Clears, Validate, CreateInstant, CreateBank, Send, DebitAccepted, MarkPending, SyncPending,
       MarkFailed, SyncFailed, RequestDies
  <2>2. QED
    BY <2>1, FaultType DEF TypeOK, BooksOK
<1>10. debits' \in [Trx -> Nat]
  <2>1. debits' = debits \/ debits' = [debits EXCEPT ![t] = @ + 1]
    BY DEF Request, Clears, Validate, CreateInstant, CreateBank, Send, DebitAccepted, MarkPending, SyncPending,
       MarkFailed, SyncFailed, RequestDies, books
  <2>2. QED
    BY <2>1 DEF TypeOK, BooksOK
<1>11. UNCHANGED <<credits, crossed, cut>>
  BY DEF Request, Clears, Validate, CreateInstant, CreateBank, Send, DebitAccepted, MarkPending, SyncPending,
     MarkFailed, SyncFailed, RequestDies, books
<1>12. BooksOK'
  BY <1>9, <1>10, <1>11 DEF TypeOK, BooksOK
<1>13. RequestsOK' /\ RowsOK'
  BY <1>3, <1>4, <1>5, <1>6, <1>7, <1>8, AgeType DEF RequestsOK, RowsOK, TypeOK, Next
<1>14. QED
  BY <1>2, <1>12, <1>13 DEF TypeOK
\* Where task k stands after a step, what it holds, and that the others stay.
Stands(k, pc, todo, at, answer) ==
  /\ task' \in [Tasks -> TaskStates] /\ TaskOK(task'[k])
  /\ \A j \in Tasks \ {k} : task'[j] = task[j]
  /\ task'[k].pc = pc /\ task'[k].todo = todo /\ task'[k].at = at /\ task'[k].answer = answer

LEMMA Puts ==
  ASSUME TypeOK, NEW k \in Tasks, NEW s \in TaskStates, TaskOK(s), task' = [task EXCEPT ![k] = s]
  PROVE  Stands(k, s.pc, s.todo, s.at, s.answer)
BY DEF TypeOK, TasksOK, Stands

LEMMA KeepsHold ==
  ASSUME TypeOK, NEW k \in Tasks, Wake(k) \/ Enter(k) \/ Count(k) \/ NextPage(k) \/ MarkCopy(k) \/ Sync(k) \/ Credit(k)
  PROVE  Stands(k, task'[k].pc, task[k].todo, task[k].at, task[k].answer)
<1>0. task \in [Tasks -> TaskStates] /\ TaskOK(task[k])
  BY DEF TypeOK, TasksOK, TaskOK
<1>1. ASSUME NEW pc \in {"active", "counting", "paging", "syncing", "crediting", "callback"},
             task' = [task EXCEPT ![k].pc = pc],
             task[k].at \in Trx <=> pc \in {"marking", "syncing", "crediting", "callback"}
      PROVE  Stands(k, task'[k].pc, task[k].todo, task[k].at, task[k].answer)
  <2> DEFINE s == [task[k] EXCEPT !.pc = pc]
  <2>1. s \in TaskStates /\ s.pc = pc /\ s.todo = task[k].todo /\ s.at = task[k].at /\ s.answer = task[k].answer
    BY <1>0 DEF TaskStates
  <2>2. task' = [task EXCEPT ![k] = s]
    BY <1>0, <1>1
  <2>3. TaskOK(s)
    BY <1>0, <1>1, <2>1 DEF TaskOK
  <2> HIDE DEF s
  <2>4. task'[k] = s
    BY <1>0, <2>2
  <2>5. QED
    BY <2>1, <2>2, <2>3, <2>4, Puts
<1>2. CASE Wake(k)
  BY <1>0, <1>1, <1>2 DEF Wake, TaskOK
<1>3. CASE Enter(k)
  BY <1>0, <1>1, <1>3 DEF Enter, TaskOK
<1>4. CASE Count(k)
  <2> DEFINE n == (Cardinality(Latest(k)) + PageSize - 1) \div PageSize
             s == [task[k] EXCEPT !.pc = "paging", !.next = 1, !.pages = n]
  <2>0. n \in Nat
    BY PagesType
  <2> HIDE DEF n
  <2>1. s \in TaskStates /\ s.pc = "paging" /\ s.todo = task[k].todo /\ s.at = task[k].at /\ s.answer = task[k].answer
    BY <1>0, <2>0 DEF TaskStates
  <2>2. task' = [task EXCEPT ![k] = s] /\ task[k].pc = "counting"
    BY <1>0, <1>4 DEF Count, n
  <2>3. TaskOK(s)
    BY <1>0, <2>1, <2>2 DEF TaskOK
  <2> HIDE DEF s
  <2>4. task'[k] = s
    BY <1>0, <2>2
  <2>5. QED
    BY <2>1, <2>2, <2>3, <2>4, Puts
<1>5. CASE NextPage(k)
  BY <1>0, <1>1, <1>5 DEF NextPage, TaskOK
<1>6. CASE MarkCopy(k)
  BY <1>0, <1>1, <1>6 DEF MarkCopy, TaskOK
<1>7. CASE Sync(k)
  <2> DEFINE pc == IF task[k].answer \in Back THEN "crediting" ELSE "callback"
  <2>1. pc \in {"crediting", "callback"} /\ task[k].pc = "syncing" /\ task' = [task EXCEPT ![k].pc = pc]
    BY <1>7 DEF Sync
  <2> HIDE DEF pc
  <2>2. QED
    BY <1>0, <1>1, <2>1 DEF TaskOK
<1>8. CASE Credit(k)
  BY <1>0, <1>1, <1>8 DEF Credit, TaskOK
<1>9. QED
  BY <1>2, <1>3, <1>4, <1>5, <1>6, <1>7, <1>8

LEMMA GivesUp ==
  ASSUME TypeOK, NEW k \in Tasks, GiveUp(k) \/ Raises(k) \/ TaskDies(k)
  PROVE  Stands(k, "idle", {}, NoTrx, Idle.answer)
BY IdleType, Puts DEF GiveUp, Raises, TaskDies

LEMMA LetsGo == ASSUME TypeOK, NEW k \in Tasks, Callback(k) PROVE Stands(k, "asking", task[k].todo, NoTrx, "none")
<1> DEFINE s == [task[k] EXCEPT !.pc = "asking", !.at = NoTrx, !.answer = "none"]
<1>1. task \in [Tasks -> TaskStates] /\ "none" \in Codes
  BY DEF TypeOK, TasksOK, Codes
<1>2. s \in TaskStates /\ s.pc = "asking" /\ s.todo = task[k].todo /\ s.at = NoTrx /\ s.answer = "none"
  BY <1>1 DEF TaskStates
<1>3. TaskOK(s)
  BY <1>2, TransferAssumption DEF TaskOK
<1>4. task' = [task EXCEPT ![k] = s]
  BY <1>1 DEF Callback, Hold
<1> HIDE DEF s
<1>5. QED
  BY <1>2, <1>3, <1>4, Puts

\* A page loads open transfers, each with the row it has.
LoadedRows(R) == \A e \in R : e.trx \in Trx /\ Open(e.trx) /\ e.row = latest[e.trx]

LEMMA Pages ==
  ASSUME TypeOK, NEW k \in Tasks, Page(k)
  PROVE  \/ Stands(k, "idle", {}, NoTrx, Idle.answer)
         \/ \E R : LoadedRows(R) /\ Stands(k, "asking", R, task[k].at, task[k].answer)
<1>0. task \in [Tasks -> TaskStates] /\ TaskOK(task[k]) /\ task[k].pc = "paging"
  BY DEF TypeOK, TasksOK, TaskOK, Page
<1>1. CASE task[k].next > task[k].pages
  <2>1. task' = [task EXCEPT ![k] = Idle]
    BY <1>1 DEF Page
  <2>2. QED
    BY <2>1, IdleType, Puts
<1>2. CASE ~(task[k].next > task[k].pages)
  <2> DEFINE R == {[trx |-> t, row |-> latest[t]] :
                    t \in {u \in Latest(k) : Before(k, u) \div PageSize = task[k].next - 1}}
             s == [task[k] EXCEPT !.pc = "asking", !.next = @ + 1, !.todo = R]
  <2>1. LoadedRows(R)
    BY DEF LoadedRows, Latest
  <2>2. R \subseteq [trx : Trx, row : RowStates]
    BY LatestType DEF TypeOK, RowsOK
  <2>3. task' = [task EXCEPT ![k] = s]
    <3>1. task' = [task EXCEPT ![k].pc = "asking", ![k].next = @ + 1, ![k].todo = R]
      BY <1>2 DEF Page
    <3> HIDE DEF R
    <3>2. QED
      BY <1>0, <3>1 DEF TaskStates
  <2> HIDE DEF R
  <2>4. s \in TaskStates /\ s.pc = "asking" /\ s.todo = R /\ s.at = task[k].at /\ s.answer = task[k].answer
    <3>1. task[k].next + 1 \in Nat
      BY <1>0 DEF TaskStates
    <3>2. R \in SUBSET [trx : Trx, row : RowStates]
      BY <2>2
    <3>3. QED
      BY <1>0, <3>1, <3>2 DEF TaskStates
  <2>5. TaskOK(s)
    BY <1>0, <2>4 DEF TaskOK
  <2> HIDE DEF s
  <2>6. QED
    BY <2>1, <2>3, <2>4, <2>5, Puts
<1>3. QED
  BY <1>1, <1>2

LEMMA Asks ==
  ASSUME TypeOK, NEW k \in Tasks, NEW e \in task[k].todo, Ask(k, e)
  PROVE  /\ task[k].pc = "asking" /\ task[k].at \notin Trx /\ e.trx \in Trx /\ e.row \in RowStates
         /\ \/ /\ Stands(k, "asking", task[k].todo \ {e}, task[k].at, task[k].answer)
               /\ UNCHANGED <<latest, older, age, crossed>>
            \/ /\ Stands(k, "marking", task[k].todo \ {e}, e.trx, ebc[e.trx])
               /\ ebc[e.trx] # e.row.code /\ ebc[e.trx] \in Expected /\ NewRow(e.trx, e.row)
               /\ crossed' = [crossed EXCEPT ![e.trx] = @ \/ req[e.trx] = "marked"]
<1>0. task \in [Tasks -> TaskStates] /\ TaskOK(task[k]) /\ task[k].pc = "asking"
  BY DEF TypeOK, TasksOK, TaskOK, Ask
<1>1. e.trx \in Trx /\ e.row \in RowStates /\ task[k].at \notin Trx
  BY <1>0 DEF TaskStates, TaskOK
<1>2. CASE ebc[e.trx] = e.row.code \/ ebc[e.trx] \notin Expected
  <2> DEFINE s == [task[k] EXCEPT !.todo = @ \ {e}]
  <2>1. task' = [task EXCEPT ![k].todo = @ \ {e}] /\ UNCHANGED <<latest, older, age, crossed>>
    BY <1>2 DEF Ask
  <2>2. task' = [task EXCEPT ![k] = s]
    BY <1>0, <2>1 DEF TaskStates
  <2>3. s \in TaskStates /\ s.pc = task[k].pc /\ s.todo = task[k].todo \ {e} /\ s.at = task[k].at
        /\ s.answer = task[k].answer
    BY <1>0 DEF TaskStates
  <2>4. TaskOK(s)
    BY <1>0, <2>3 DEF TaskOK
  <2> HIDE DEF s
  <2>5. Stands(k, "asking", task[k].todo \ {e}, task[k].at, task[k].answer)
    BY <1>0, <2>2, <2>3, <2>4, Puts
  <2>6. QED
    BY <1>0, <1>1, <2>1, <2>5
<1>3. CASE ebc[e.trx] # e.row.code /\ ebc[e.trx] \in Expected
  <2> DEFINE s == [task[k] EXCEPT !.todo = @ \ {e}, !.pc = "marking", !.at = e.trx, !.answer = ebc[e.trx]]
  <2>1. /\ task' = [[task EXCEPT ![k].todo = @ \ {e}]
                      EXCEPT ![k].pc = "marking", ![k].at = e.trx, ![k].answer = ebc[e.trx]]
        /\ NewRow(e.trx, e.row) /\ crossed' = [crossed EXCEPT ![e.trx] = @ \/ req[e.trx] = "marked"]
    BY <1>3 DEF Ask
  <2>2. task' = [task EXCEPT ![k] = s]
    BY <1>0, <2>1 DEF TaskStates
  <2>3. s \in TaskStates /\ s.pc = "marking" /\ s.todo = task[k].todo \ {e} /\ s.at = e.trx
        /\ s.answer = ebc[e.trx]
    BY <1>0, <1>1, <1>3, CodesStates DEF TaskStates
  <2>4. TaskOK(s)
    BY <1>1, <1>3, <2>3 DEF TaskOK
  <2> HIDE DEF s
  <2>5. Stands(k, "marking", task[k].todo \ {e}, e.trx, ebc[e.trx])
    BY <2>2, <2>3, <2>4, Puts
  <2>6. QED
    BY <1>0, <1>1, <1>3, <2>1, <2>5
<1>4. QED
  BY <1>0, <1>1, <1>2, <1>3

LEMMA StandsType == ASSUME TypeOK, NEW k \in Tasks, NEW pc, NEW todo, NEW at, NEW answer, Stands(k, pc, todo, at, answer)
                    PROVE  TasksOK'
BY DEF TypeOK, TasksOK, Stands, TaskOK

LEMMA TaskType == ASSUME TypeOK, NEW k \in Tasks, StatusTask(k) PROVE TypeOK'
<1>1. TasksOK'
  BY KeepsHold, GivesUp, LetsGo, Pages, Asks, StandsType DEF StatusTask
<1>2. UNCHANGED <<req, ref, ebc, debits>>
  BY DEF StatusTask, Wake, Enter, GiveUp, Count, Page, NextPage, Ask, Raises, MarkCopy, Sync, Credit, Callback,
         TaskDies, quiet, books
<1>3. task[k].pc \in {"marking", "syncing", "crediting", "callback"} => task[k].at \in Trx
  BY DEF TypeOK, TasksOK, TaskOK
<1>4. latest' \in [Trx -> RowStates] /\ older' \in [Trx -> SUBSET Trx] /\ crossed' \in [Trx -> BOOLEAN]
  <2>1. ASSUME NEW e \in task[k].todo, Ask(k, e)
        PROVE  latest' \in [Trx -> RowStates] /\ older' \in [Trx -> SUBSET Trx] /\ crossed' \in [Trx -> BOOLEAN]
    <3>1. crossed' = crossed \/ \E x \in BOOLEAN : crossed' = [crossed EXCEPT ![e.trx] = x]
      BY <2>1, Asks DEF TypeOK, BooksOK
    <3>2. crossed' \in [Trx -> BOOLEAN]
      BY <3>1 DEF TypeOK, BooksOK
    <3>3. UNCHANGED <<latest, older>> \/ NewRow(e.trx, e.row)
      BY <2>1, Asks
    <3>4. e.trx \in Trx /\ e.row \in RowStates
      BY <2>1, Asks
    <3>5. QED
      BY <2>1, <3>2, <3>3, <3>4 DEF NewRow, TypeOK, RowsOK
  <2>2. CASE MarkCopy(k)
    <3>1. task[k].answer \in Expected /\ task[k].at \in Trx
      BY <1>3, <2>2 DEF MarkCopy, TypeOK, TasksOK, TaskOK
    <3>2. Row(StatusOf(task[k].answer), task[k].answer) \in RowStates
      BY <3>1, CodesStates, RowType DEF Statuses
    <3>3. latest' \in [Trx -> RowStates]
      BY <2>2, <3>1, <3>2 DEF MarkCopy, TypeOK, RowsOK
    <3>4. QED
      BY <2>2, <3>3 DEF MarkCopy, TypeOK, RowsOK, BooksOK, books
  <2>3. CASE UNCHANGED <<latest, older, crossed>>
    BY <2>3 DEF TypeOK, RowsOK, BooksOK
  <2>4. QED
    BY <2>1, <2>2, <2>3 DEF StatusTask, Wake, Enter, GiveUp, Count, Page, NextPage, Raises, Sync, Credit, Callback,
         TaskDies, quiet, books
<1>5. instant' \in [Trx -> Statuses]
  <2>1. CASE Sync(k)
    <3>1. task[k].answer \in Expected /\ task[k].at \in Trx
      BY <1>3, <2>1 DEF Sync, TypeOK, TasksOK, TaskOK
    <3>2. InstantOf(StatusOf(task[k].answer)) \in Statuses
      BY <3>1, CodesStates DEF Statuses
    <3>3. QED
      BY <2>1, <3>2 DEF Sync, SyncInstant, TypeOK, RowsOK
  <2>2. CASE Credit(k)
    BY <2>2 DEF Credit, SyncInstant, TypeOK, RowsOK, Statuses
  <2>3. CASE instant' = instant
    BY <2>3 DEF TypeOK, RowsOK
  <2>4. QED
    BY <2>1, <2>2, <2>3 DEF StatusTask, Wake, Enter, GiveUp, Count, Page, NextPage, Ask, Raises, MarkCopy, Callback,
         TaskDies, quiet
<1>6. credits' \in [Trx -> Nat]
  <2>1. CASE Credit(k)
    <3>1. credits' = [credits EXCEPT ![task[k].at] = @ + 1]
      BY <2>1 DEF Credit
    <3>2. credits \in [Trx -> Nat] /\ task[k].at \in Trx
      BY <1>3, <2>1 DEF Credit, TypeOK, BooksOK
    <3>3. QED
      BY <3>1, <3>2
  <2>2. CASE credits' = credits
    BY <2>2 DEF TypeOK, BooksOK
  <2>3. QED
    BY <2>1, <2>2 DEF StatusTask, Wake, Enter, GiveUp, Count, Page, NextPage, Ask, Raises, MarkCopy, Sync, Callback,
         TaskDies, quiet, books
<1>7. faults' \in 0..MaxFaults
  <2>1. faults' = faults \/ (faults < MaxFaults /\ faults' = faults + 1)
    BY DEF StatusTask, Wake, Enter, GiveUp, Count, Page, NextPage, Ask, Raises, MarkCopy, Sync, Credit, Callback,
         TaskDies, quiet, books
  <2>2. QED
    BY <2>1, FaultType DEF TypeOK, BooksOK
<1>8. cut' \in [Trx -> BOOLEAN]
  <2>1. CASE TaskDies(k)
    <3>1. \A t \in Trx : (cut[t] \/ (t = task[k].at /\ task[k].pc \in {"syncing", "crediting"})) \in BOOLEAN
      OBVIOUS
    <3>2. QED
      BY <2>1, <3>1 DEF TaskDies
  <2>2. CASE cut' = cut
    BY <2>2 DEF TypeOK, BooksOK
  <2>3. QED
    BY <2>1, <2>2 DEF StatusTask, Wake, Enter, GiveUp, Count, Page, NextPage, Ask, Raises, MarkCopy, Sync, Credit,
         Callback, quiet, books
<1>9. QED
  BY <1>1, <1>2, <1>4, <1>5, <1>6, <1>7, <1>8, AgeType DEF TypeOK, RequestsOK, RowsOK, BooksOK, Next

LEMMA BankTypeStep == ASSUME TypeOK, [Next]_vars PROVE TypeOK'
<1>1. CASE UNCHANGED vars
  BY <1>1 DEF vars, books, TypeOK, RequestsOK, RowsOK, BooksOK, TasksOK, TaskOK
<1>2. CASE Next
  BY <1>2, RequestType, AgesType, TaskType DEF Next
<1>3. QED
  BY <1>1, <1>2

\* Rows, requests and tasks keep their shapes, for any number of transfers and
\* of deliveries of the tasks, and any page size.
THEOREM BankTypeTheorem == Spec => []TypeOK
BY BankTypeInit, BankTypeStep, PTL DEF Spec
-----------------------------------------------------------------------------
(* Why nothing is credited that was not debited, nor twice *)

Accepted == {"pending", "successful", "rejected", "returned"}

\* The request of a transfer against its rows and the budget: the transfer has
\* no row before the request creates one, no status before the request marks
\* one, and what is on record as accepted has been debited, once.
RequestInv(t) ==
  /\ req[t] \in {"idle", "validated", "instant", "rejected"} => latest[t] = NoRow
  /\ req[t] \in {"created", "sent", "debited"} => latest[t] = Row("default", "none")
  /\ req[t] \in {"idle", "validated", "instant", "rejected", "created", "sent"} => debits[t] = 0
  /\ req[t] = "debited" => debits[t] = 1
  /\ req[t] = "failing" => latest[t].status = "failed"
  /\ req[t] = "marked" => latest[t].status \in Accepted
  /\ debits[t] <= 1
  /\ latest[t].status \in Accepted => debits[t] = 1
  /\ credits[t] <= 1
  /\ credits[t] = 1 => latest[t].status \in {"rejected", "returned"}
  /\ latest[t].status \in {"rejected", "returned"} => ebc[t] \in Back

\* A run against the rows: what it loaded is what is still on record, because
\* it is alone; what it holds is on record as EBC answered, and not credited
\* until it does.
RunInv(k) ==
  /\ task[k].pc \in {"idle", "active"} => task[k].todo = {}
  /\ \A e \in task[k].todo : e.row = latest[e.trx] /\ Open(e.trx) /\ e.trx # task[k].at
  /\ task[k].pc = "marking" => Open(task[k].at)
  /\ task[k].pc \in {"syncing", "crediting", "callback"} =>
       latest[task[k].at] = Row(StatusOf(task[k].answer), task[k].answer)
  /\ task[k].pc \in {"syncing", "crediting"} => credits[task[k].at] = 0
  /\ task[k].pc = "crediting" => task[k].answer \in Back
  /\ task[k].at \in Trx /\ task[k].answer \in Back => ebc[task[k].at] = task[k].answer

BackInv(t) ==
  latest[t].status \in {"rejected", "returned"} /\ credits[t] = 0
    => cut[t] \/ \E k \in Tasks : task[k].at = t /\ task[k].pc \in {"syncing", "crediting"}

\* The instant row may lag only while a run is about to write it.
InstantInv(t) ==
  /\ req[t] = "marked" /\ ~crossed[t] => latest[t].status = "pending" /\ \A k \in Tasks : task[k].at # t
  /\ req[t] = "done" /\ ~crossed[t] /\ ~cut[t] /\ (\A k \in Tasks : task[k].at = t => task[k].pc # "syncing")
       => instant[t] = InstantOf(latest[t].status)

MoneyInv ==
  /\ \A t \in Trx : RequestInv(t) /\ BackInv(t)
  /\ \A k \in Tasks : RunInv(k)
  /\ \A t \in Wallets : InstantInv(t)

LEMMA MoneyInit == Init => MoneyInv
<1> SUFFICES ASSUME Init PROVE MoneyInv
  OBVIOUS
<1>1. Idle.pc = "idle" /\ Idle.todo = {} /\ Idle.at \notin Trx
  BY IdleType, TransferAssumption
<1>2. NoRow.status = "none"
  BY RowType DEF NoRow
<1>3. \A t \in Trx : RequestInv(t) /\ BackInv(t)
  BY <1>2 DEF Init, RequestInv, BackInv, Accepted
<1>4. \A k \in Tasks : RunInv(k)
  BY <1>1 DEF Init, RunInv
<1>5. \A t \in Wallets : InstantInv(t)
  BY TransferAssumption DEF Init, InstantInv
<1>6. QED
  BY <1>3, <1>4, <1>5 DEF MoneyInv

\* What a step of a request, or of EBC, may touch.
LEMMA RequestTouches ==
  ASSUME TypeOK, MoneyInv, NEW t \in Trx, Request(t) \/ Clears(t)
  PROVE  /\ UNCHANGED <<task, credits, crossed, cut>>
         /\ \A u \in Trx \ {t} : /\ req'[u] = req[u] /\ latest'[u] = latest[u] /\ debits'[u] = debits[u]
                                 /\ ebc'[u] = ebc[u] /\ instant'[u] = instant[u]
         /\ latest'[t] # latest[t] => latest[t].status \in {"none", "default"}
         /\ ebc'[t] # ebc[t] => latest[t].status \in {"none", "default"} \/ ebc[t] \notin Back
<1>1. UNCHANGED <<task, credits, crossed, cut>>
  BY RequestLeavesTasks DEF Request, Clears, Validate, CreateInstant, CreateBank, Send, DebitAccepted, MarkPending,
     SyncPending, MarkFailed, SyncFailed, RequestDies, books
<1>2. \A u \in Trx \ {t} : req'[u] = req[u]
  BY DEF TypeOK, RequestsOK, Request, Clears, Validate, CreateInstant, CreateBank, Send, DebitAccepted, MarkPending,
     SyncPending, MarkFailed, SyncFailed, RequestDies, Go
<1>3. \A u \in Trx \ {t} : latest'[u] = latest[u]
  BY DEF TypeOK, RowsOK, Request, Clears, Validate, CreateInstant, CreateBank, NewRow, Send, DebitAccepted,
     MarkPending, SyncPending, MarkFailed, SyncFailed, RequestDies
<1>4. \A u \in Trx \ {t} : debits'[u] = debits[u]
  BY DEF TypeOK, BooksOK, Request, Clears, Validate, CreateInstant, CreateBank, Send, DebitAccepted, MarkPending,
     SyncPending, MarkFailed, SyncFailed, RequestDies, books
<1>5. \A u \in Trx \ {t} : ebc'[u] = ebc[u] /\ instant'[u] = instant[u]
  BY DEF TypeOK, RowsOK, Request, Clears, Validate, CreateInstant, CreateBank, Send, DebitAccepted, MarkPending,
     SyncPending, MarkFailed, SyncFailed, RequestDies, SyncInstant
<1>6. req[t] \in {"idle", "validated", "instant", "created", "sent", "debited"}
        => latest[t].status \in {"none", "default"}
  BY RowType DEF MoneyInv, RequestInv, NoRow
<1>7. latest'[t] # latest[t] => latest[t].status \in {"none", "default"}
  BY <1>6 DEF Request, Clears, Validate, CreateInstant, CreateBank, Send, DebitAccepted, MarkPending, SyncPending,
     MarkFailed, SyncFailed, RequestDies
<1>8. ebc'[t] # ebc[t] => latest[t].status \in {"none", "default"} \/ ebc[t] \notin Back
  <2>1. \A move \in Moves : move[1] \notin Back
    BY DEF Moves, Back, Rejected, Returned
  <2>2. QED
    BY <1>6, <2>1 DEF Request, Clears, Validate, CreateInstant, CreateBank, Send, DebitAccepted, MarkPending,
       SyncPending, MarkFailed, SyncFailed, RequestDies
<1>9. QED
  BY <1>1, <1>2, <1>3, <1>4, <1>5, <1>7, <1>8

LEMMA RequestRows ==
  ASSUME TypeOK, MoneyInv, NEW t \in Trx, Request(t) \/ Clears(t)
  PROVE  RequestInv(t)'
<1>0. RequestInv(t) /\ credits' = credits
  BY RequestTouches DEF MoneyInv
<1>1. CASE Validate(t) \/ CreateInstant(t) \/ SyncPending(t) \/ SyncFailed(t) \/ RequestDies(t)
  <2>1. UNCHANGED <<latest, debits, ebc>>
    BY <1>1 DEF Validate, CreateInstant, SyncPending, SyncFailed, RequestDies, books
  <2>2. \/ req[t] \in {"idle", "validated"} /\ req'[t] \in {"rejected", "validated", "instant"}
        \/ req'[t] \in {"done", "dead"}
    BY <1>1 DEF Validate, CreateInstant, SyncPending, SyncFailed, RequestDies, Go, TypeOK, RequestsOK
  <2>3. QED
    BY <1>0, <2>1, <2>2 DEF RequestInv
<1>2. CASE CreateBank(t)
  <2>1. /\ latest'[t] = Row("default", "none") /\ debits' = debits /\ ebc' = ebc
        /\ req[t] \in {"instant", "validated"} /\ req'[t] = "created"
    BY <1>2 DEF CreateBank, NewRow, Go, TypeOK, RequestsOK, RowsOK, books
  <2>2. QED
    BY <1>0, <2>1, RowType DEF RequestInv, NoRow, Accepted
<1>3. CASE Send(t)
  <2>1. latest' = latest /\ debits' = debits /\ req[t] = "created" /\ req'[t] = "sent"
    BY <1>3 DEF Send, Go, TypeOK, RequestsOK, books
  <2>2. QED
    BY <1>0, <2>1, RowType DEF RequestInv
<1>4. CASE DebitAccepted(t)
  <2>1. /\ latest' = latest /\ ebc' = ebc /\ req[t] = "sent" /\ req'[t] = "debited"
        /\ debits'[t] = debits[t] + 1
    BY <1>4 DEF DebitAccepted, Go, TypeOK, RequestsOK, BooksOK
  <2>2. QED
    BY <1>0, <2>1, RowType DEF RequestInv, Accepted
<1>5. CASE MarkPending(t)
  <2>1. /\ debits' = debits /\ ebc' = ebc /\ req[t] = "debited" /\ req'[t] = "marked"
        /\ latest'[t].status = "pending"
    BY <1>5, RowType DEF MarkPending, Go, TypeOK, RequestsOK, RowsOK, books
  <2>2. QED
    BY <1>0, <2>1, RowType DEF RequestInv, Accepted
<1>6. CASE MarkFailed(t)
  <2>1. /\ debits' = debits /\ ebc' = ebc /\ req[t] = "sent" /\ req'[t] = "failing"
        /\ latest'[t].status = "failed"
    BY <1>6, RowType DEF MarkFailed, Go, TypeOK, RequestsOK, RowsOK, books
  <2>2. QED
    BY <1>0, <2>1, RowType DEF RequestInv, Accepted
<1>7. CASE Clears(t)
  <2>1. latest' = latest /\ debits' = debits /\ req' = req
    BY <1>7 DEF Clears, books
  <2>2. latest[t].status \in {"rejected", "returned"} => ebc'[t] \in Back
    BY <1>0, RequestTouches DEF RequestInv
  <2>3. QED
    BY <1>0, <2>1, <2>2 DEF RequestInv
<1>8. QED
  BY <1>1, <1>2, <1>3, <1>4, <1>5, <1>6, <1>7 DEF Request

LEMMA RequestRuns ==
  ASSUME TypeOK, MoneyInv, NEW t \in Trx, Request(t) \/ Clears(t), NEW k \in Tasks
  PROVE  RunInv(k)'
<1>0. RunInv(k) /\ TaskOK(task[k]) /\ UNCHANGED <<task, credits>> /\ task[k] \in TaskStates
  BY RequestTouches DEF MoneyInv, TypeOK, TasksOK
<1>1. \A u \in Trx : latest[u].status \notin {"none", "default"} => latest'[u] = latest[u]
  BY RequestTouches
<1>2. \A u \in Trx : Open(u) => latest'[u] = latest[u] /\ Open(u)'
  BY <1>1 DEF Open
<1>3. \A e \in task[k].todo : e.trx \in Trx
  BY <1>0 DEF TaskStates
<1>4. task[k].pc \in {"syncing", "crediting", "callback"} => latest'[task[k].at] = latest[task[k].at]
  BY <1>0, <1>1, CodesStates, RowType DEF RunInv, TaskOK
<1>5. task[k].at \in Trx /\ task[k].answer \in Back => ebc'[task[k].at] = ebc[task[k].at]
  <2>1. SUFFICES ASSUME task[k].at = t, task[k].answer \in Back PROVE ebc'[t] = ebc[t]
    BY RequestTouches
  <2>2. latest[t].status \notin {"none", "default"}
    BY <1>0, <2>1, CodesStates, RowType DEF RunInv, TaskOK, Open
  <2>3. ebc[t] \in Back
    BY <1>0, <2>1 DEF RunInv
  <2>4. QED
    BY <2>2, <2>3, RequestTouches
<1>6. QED
  BY <1>0, <1>2, <1>3, <1>4, <1>5 DEF RunInv, TaskOK

LEMMA RequestInstant ==
  ASSUME TypeOK, MoneyInv, NEW t \in Wallets, Request(t) \/ Clears(t)
  PROVE  InstantInv(t)'
<1>0. InstantInv(t) /\ t \in Trx /\ RequestInv(t) /\ UNCHANGED <<task, crossed, cut>>
  BY RequestTouches, TransferAssumption DEF MoneyInv
<1>1. CASE SyncPending(t)
  <2>1. req[t] = "marked" /\ req'[t] = "done" /\ latest' = latest /\ instant'[t] = "pending"
    BY <1>0, <1>1 DEF SyncPending, SyncInstant, Go, TypeOK, RequestsOK, RowsOK
  <2>2. InstantOf("pending") = "pending"
    BY DEF InstantOf
  <2>3. QED
    BY <1>0, <2>1, <2>2 DEF InstantInv
<1>2. CASE SyncFailed(t)
  <2>1. req[t] = "failing" /\ req'[t] = "done" /\ latest' = latest /\ instant'[t] = "failed"
    BY <1>0, <1>2 DEF SyncFailed, SyncInstant, Go, TypeOK, RequestsOK, RowsOK
  <2>2. InstantOf("failed") = "failed"
    BY DEF InstantOf
  <2>3. QED
    BY <1>0, <2>1, <2>2 DEF InstantInv, RequestInv
<1>3. CASE MarkPending(t)
  <2>1. req[t] = "debited" /\ req'[t] = "marked" /\ latest'[t].status = "pending"
    BY <1>0, <1>3, RowType DEF MarkPending, Go, TypeOK, RequestsOK, RowsOK
  <2>2. ASSUME NEW k \in Tasks PROVE task[k].at # t
    <3>1. latest[t].status = "default" /\ RunInv(k) /\ TaskOK(task[k])
      BY <1>0, <2>1, RowType DEF RequestInv, MoneyInv, TypeOK, TasksOK
    <3>2. QED
      BY <1>0, <3>1, CodesStates, RowType DEF RunInv, TaskOK, Open
  <2>3. QED
    BY <1>0, <2>1, <2>2 DEF InstantInv
<1>4. CASE Clears(t)
  <2>1. UNCHANGED <<req, latest, instant>>
    BY <1>4 DEF Clears
  <2>2. QED
    BY <1>0, <2>1 DEF InstantInv
<1>5. CASE Validate(t) \/ CreateInstant(t) \/ CreateBank(t) \/ Send(t) \/ DebitAccepted(t) \/ MarkFailed(t)
           \/ RequestDies(t)
  <2>1. req'[t] \notin {"marked", "done"}
    BY <1>0, <1>5 DEF Validate, CreateInstant, CreateBank, Send, DebitAccepted, MarkFailed, RequestDies, Go,
       TypeOK, RequestsOK
  <2>2. QED
    BY <2>1 DEF InstantInv
<1>6. QED
  BY <1>1, <1>2, <1>3, <1>4, <1>5 DEF Request

LEMMA RequestStep == ASSUME TypeOK, MoneyInv, NEW t \in Trx, Request(t) \/ Clears(t) PROVE MoneyInv'
<1>1. ASSUME NEW u \in Trx \ {t} PROVE RequestInv(u)' /\ BackInv(u)'
  BY RequestTouches DEF MoneyInv, RequestInv, BackInv
<1>2. ASSUME NEW u \in Wallets \ {t} PROVE InstantInv(u)'
  BY RequestTouches, TransferAssumption DEF MoneyInv, InstantInv
<1>3. BackInv(t)'
  <2>1. latest'[t].status \in {"rejected", "returned"} => latest'[t] = latest[t]
    <3>1. CASE MarkPending(t) \/ MarkFailed(t) \/ CreateBank(t)
      BY <3>1, RowType DEF MarkPending, MarkFailed, CreateBank, NewRow, TypeOK, RowsOK
    <3>2. QED
      BY <3>1 DEF Request, Clears, Validate, CreateInstant, Send, DebitAccepted, SyncPending, SyncFailed, RequestDies
  <2>2. QED
    BY <2>1, RequestTouches DEF MoneyInv, BackInv
<1>4. QED
  BY <1>1, <1>2, <1>3, RequestRows, RequestRuns, RequestInstant DEF MoneyInv
\* A step of a task that writes no bank row and no credit: what it leaves as it is.
Bookless(k) ==
  Wake(k) \/ Enter(k) \/ GiveUp(k) \/ Count(k) \/ Page(k) \/ NextPage(k) \/ Raises(k) \/ Callback(k)

LEMMA BooklessKeeps ==
  ASSUME NEW k \in Tasks, Bookless(k)
  PROVE  UNCHANGED <<req, latest, instant, ebc, debits, credits, crossed, cut>>
BY DEF Bookless, Wake, Enter, GiveUp, Count, Page, NextPage, Raises, Callback, quiet, books

\* What is open has been debited and not credited.
LEMMA OpenUncredited ==
  ASSUME TypeOK, MoneyInv, NEW t \in Trx, Open(t)
  PROVE  credits[t] = 0 /\ debits[t] = 1
<1>1. RequestInv(t) /\ latest[t].status \in {"pending", "successful"}
  BY DEF MoneyInv, Open
<1>2. credits[t] \in Nat
  BY DEF TypeOK, BooksOK
<1>3. credits[t] <= 1 /\ credits[t] # 1
  BY <1>1 DEF RequestInv
<1>4. debits[t] = 1
  BY <1>1 DEF RequestInv, Accepted
<1>5. QED
  BY <1>2, <1>3, <1>4

\* Because the loaded rows are what is on record, the copy changes nothing yet.
LEMMA CopyIsSame ==
  ASSUME TypeOK, MoneyInv, NEW k \in Tasks, NEW e \in task[k].todo, Ask(k, e)
  PROVE  /\ latest' = latest
         /\ UNCHANGED <<req, instant, ebc, debits, credits, cut>>
<1>1. e.row = latest[e.trx]
  BY DEF MoneyInv, RunInv
<1>2. latest' = latest
  <2>1. UNCHANGED latest \/ NewRow(e.trx, e.row)
    BY Asks
  <2>2. e.trx \in Trx
    BY Asks
  <2>3. QED
    BY <1>1, <2>1, <2>2 DEF NewRow, TypeOK, RowsOK
<1>3. UNCHANGED <<req, instant, ebc, debits, credits, cut>>
  BY DEF Ask
<1>4. QED
  BY <1>2, <1>3

\* Where each step leads.
MovesTo(k, pc) == Stands(k, pc, task[k].todo, task[k].at, task[k].answer)

LEMMA KeepsHoldAt ==
  ASSUME TypeOK, NEW k \in Tasks
  PROVE  /\ Wake(k) => task[k].pc = "idle" /\ MovesTo(k, "active")
         /\ Enter(k) => task[k].pc = "active" /\ MovesTo(k, "counting")
         /\ Count(k) => task[k].pc = "counting" /\ MovesTo(k, "paging")
         /\ NextPage(k) => task[k].pc = "asking" /\ MovesTo(k, "paging")
         /\ MarkCopy(k) => task[k].pc = "marking" /\ MovesTo(k, "syncing")
         /\ Sync(k) => task[k].pc = "syncing" /\ MovesTo(k, IF task[k].answer \in Back THEN "crediting" ELSE "callback")
         /\ Credit(k) => task[k].pc = "crediting" /\ MovesTo(k, "callback")
<1>0. task \in [Tasks -> TaskStates]
  BY DEF TypeOK, TasksOK
<1>1. ASSUME NEW pc, task' = [task EXCEPT ![k].pc = pc] PROVE task'[k].pc = pc
  BY <1>0, <1>1 DEF TaskStates
<1>2. ASSUME Wake(k) PROVE task[k].pc = "idle" /\ MovesTo(k, "active")
  BY <1>1, <1>2, KeepsHold DEF Wake, MovesTo
<1>3. ASSUME Enter(k) PROVE task[k].pc = "active" /\ MovesTo(k, "counting")
  BY <1>1, <1>3, KeepsHold DEF Enter, MovesTo
<1>4. ASSUME Count(k) PROVE task[k].pc = "counting" /\ MovesTo(k, "paging")
  BY <1>0, <1>4, KeepsHold DEF Count, TaskStates, MovesTo
<1>5. ASSUME NextPage(k) PROVE task[k].pc = "asking" /\ MovesTo(k, "paging")
  BY <1>1, <1>5, KeepsHold DEF NextPage, MovesTo
<1>6. ASSUME MarkCopy(k) PROVE task[k].pc = "marking" /\ MovesTo(k, "syncing")
  BY <1>1, <1>6, KeepsHold DEF MarkCopy, MovesTo
<1>7. ASSUME Sync(k) PROVE task[k].pc = "syncing" /\ MovesTo(k, IF task[k].answer \in Back THEN "crediting" ELSE "callback")
  BY <1>1, <1>7, KeepsHold DEF Sync, MovesTo
<1>8. ASSUME Credit(k) PROVE task[k].pc = "crediting" /\ MovesTo(k, "callback")
  BY <1>1, <1>8, KeepsHold DEF Credit, MovesTo
<1>9. QED
  BY <1>2, <1>3, <1>4, <1>5, <1>6, <1>7, <1>8

LEMMA TaskSteps ==
  ASSUME TypeOK, NEW k \in Tasks, StatusTask(k)
  PROVE  Bookless(k) \/ (\E e \in task[k].todo : Ask(k, e)) \/ MarkCopy(k) \/ Sync(k) \/ Credit(k) \/ TaskDies(k)
BY DEF StatusTask, Bookless

\* The other tasks: if this one writes, they are not past the inspection.
LEMMA OtherRuns ==
  ASSUME TypeOK, MoneyInv, OneStatusRun, NEW k \in Tasks, StatusTask(k), NEW j \in Tasks \ {k}
  PROVE  task'[j] = task[j] /\ RunInv(j)'
<1>1. task'[j] = task[j]
  BY KeepsHold, GivesUp, LetsGo, Pages, Asks DEF StatusTask, Stands
<1>2. RunInv(j) /\ TaskOK(task[j])
  BY DEF MoneyInv, TypeOK, TasksOK
<1>3. CASE UNCHANGED <<latest, ebc, credits>>
  BY <1>1, <1>2, <1>3 DEF RunInv, Open
<1>4. CASE k \in Running
  <2>1. task[j].pc \in {"idle", "active"}
    BY <1>4 DEF OneStatusRun, Running
  <2>2. task[j].at \notin Trx
    BY <1>2, <2>1 DEF TaskOK
  <2>3. QED
    BY <1>1, <1>2, <2>1, <2>2 DEF RunInv
<1>5. QED
  <2>1. CASE Bookless(k) \/ Sync(k) \/ TaskDies(k)
    BY <1>1, <1>3, <2>1, BooklessKeeps DEF Sync, TaskDies, books
  <2>2. CASE (\E e \in task[k].todo : Ask(k, e)) \/ MarkCopy(k) \/ Credit(k)
    BY <1>1, <1>4, <2>2 DEF Ask, MarkCopy, Credit, Running
  <2>3. QED
    BY <2>1, <2>2, TaskSteps

LEMMA OwnRun ==
  ASSUME TypeOK, MoneyInv, NEW k \in Tasks, StatusTask(k)
  PROVE  RunInv(k)'
<1>0. RunInv(k) /\ TaskOK(task[k]) /\ task[k] \in TaskStates /\ NoTrx \notin Trx
  BY TransferAssumption DEF MoneyInv, TypeOK, TasksOK
<1>1. CASE Wake(k) \/ Enter(k) \/ Count(k) \/ NextPage(k)
  <2>1. UNCHANGED <<latest, ebc, credits>>
    BY <1>1, BooklessKeeps DEF Bookless
  <2>2. /\ task[k].pc \notin {"marking", "syncing", "crediting", "callback"}
        /\ task'[k].pc \in {"active", "counting", "paging"} /\ task'[k].todo = task[k].todo
        /\ task'[k].at = task[k].at /\ (task'[k].pc = "active" => task[k].pc = "idle")
    BY <1>1, KeepsHoldAt DEF MovesTo, Stands
  <2>3. QED
    BY <1>0, <2>1, <2>2 DEF RunInv, TaskOK, Open
<1>2. CASE GiveUp(k) \/ Raises(k) \/ TaskDies(k)
  <2>1. task'[k].pc = "idle" /\ task'[k].todo = {} /\ task'[k].at = NoTrx
    BY <1>2, GivesUp DEF Stands
  <2>2. QED
    BY <1>0, <2>1 DEF RunInv
<1>3. CASE Callback(k)
  <2>1. task'[k].pc = "asking" /\ task'[k].todo = task[k].todo /\ task'[k].at = NoTrx
    BY <1>3, LetsGo DEF Stands
  <2>2. UNCHANGED <<latest, ebc, credits>>
    BY <1>3, BooklessKeeps DEF Bookless
  <2>3. \A e \in task[k].todo : e.trx # NoTrx
    BY <1>0 DEF TaskStates
  <2>4. QED
    BY <1>0, <2>1, <2>2, <2>3 DEF RunInv, Open
<1>4. CASE Page(k)
  <2>1. UNCHANGED <<latest, ebc, credits>> /\ task[k].at \notin Trx
    BY <1>0, <1>4, BooklessKeeps DEF Bookless, TaskOK, Page
  <2>2. CASE Stands(k, "idle", {}, NoTrx, Idle.answer)
    BY <1>0, <2>2 DEF RunInv, Stands
  <2>3. ASSUME NEW R, LoadedRows(R), Stands(k, "asking", R, task[k].at, task[k].answer) PROVE RunInv(k)'
    <3>1. task'[k].pc = "asking" /\ task'[k].todo = R /\ task'[k].at = task[k].at
      BY <2>3 DEF Stands
    <3>2. \A e \in R : e.row = latest[e.trx] /\ Open(e.trx) /\ e.trx # task[k].at
      BY <2>1, <2>3 DEF LoadedRows
    <3>3. QED
      BY <2>1, <3>1, <3>2 DEF RunInv, Open
  <2>4. QED
    BY <1>4, <2>2, <2>3, Pages
<1>5. ASSUME NEW e \in task[k].todo, Ask(k, e) PROVE RunInv(k)'
  <2>1. UNCHANGED <<latest, ebc, credits>>
    BY <1>5, CopyIsSame
  <2>2. CASE Stands(k, "asking", task[k].todo \ {e}, task[k].at, task[k].answer)
    <3>1. /\ task'[k].pc = "asking" /\ task'[k].todo = task[k].todo \ {e} /\ task'[k].at = task[k].at
          /\ task[k].at \notin Trx
      BY <1>5, <2>2, Asks DEF Stands
    <3>2. QED
      BY <1>0, <2>1, <3>1 DEF RunInv, Open
  <2>3. CASE Stands(k, "marking", task[k].todo \ {e}, e.trx, ebc[e.trx])
    <3>1. /\ task'[k].pc = "marking" /\ task'[k].todo = task[k].todo \ {e} /\ task'[k].at = e.trx
          /\ task'[k].answer = ebc[e.trx]
      BY <2>3 DEF Stands
    <3>2. \A f \in task[k].todo \ {e} : f.trx # e.trx
      <4>1. ASSUME NEW f \in task[k].todo, f.trx = e.trx PROVE f = e
        BY <1>0, <4>1 DEF RunInv, TaskStates
      <4>2. QED
        BY <4>1
    <3>3. QED
      BY <1>0, <2>1, <3>1, <3>2 DEF RunInv, Open
  <2>4. QED
    BY <1>5, <2>2, <2>3, Asks
<1>6. CASE MarkCopy(k)
  <2>1. /\ task[k].pc = "marking" /\ task'[k].pc = "syncing" /\ task'[k].todo = task[k].todo
        /\ task'[k].at = task[k].at /\ task'[k].answer = task[k].answer
    BY <1>6, KeepsHoldAt DEF MovesTo, Stands
  <2>2. /\ task[k].at \in Trx /\ Open(task[k].at) /\ credits' = credits /\ ebc' = ebc
        /\ latest' = [latest EXCEPT ![task[k].at] = Row(StatusOf(task[k].answer), task[k].answer)]
    BY <1>0, <1>6, <2>1 DEF MarkCopy, RunInv, TaskOK, books
  <2>3. /\ latest'[task[k].at] = Row(StatusOf(task[k].answer), task[k].answer)
        /\ \A u \in Trx \ {task[k].at} : latest'[u] = latest[u] /\ (Open(u) => Open(u)')
    BY <2>2 DEF TypeOK, RowsOK, Open
  <2>4. credits[task[k].at] = 0
    BY <2>2, OpenUncredited
  <2>5. \A e \in task[k].todo : e.trx \in Trx \ {task[k].at}
    BY <1>0 DEF RunInv, TaskStates
  <2>6. QED
    BY <1>0, <2>1, <2>2, <2>3, <2>4, <2>5 DEF RunInv
<1>7. CASE Sync(k)
  <2>1. /\ task[k].pc = "syncing" /\ task'[k].todo = task[k].todo
        /\ task'[k].pc = IF task[k].answer \in Back THEN "crediting" ELSE "callback"
        /\ task'[k].at = task[k].at /\ task'[k].answer = task[k].answer
    BY <1>7, KeepsHoldAt DEF MovesTo, Stands
  <2>2. UNCHANGED <<latest, ebc, credits>>
    BY <1>7 DEF Sync, books
  <2>3. QED
    BY <1>0, <2>1, <2>2 DEF RunInv, Open
<1>8. CASE Credit(k)
  <2>1. /\ task[k].pc = "crediting" /\ task'[k].todo = task[k].todo /\ task'[k].pc = "callback"
        /\ task'[k].at = task[k].at /\ task'[k].answer = task[k].answer
    BY <1>8, KeepsHoldAt DEF MovesTo, Stands
  <2>2. UNCHANGED <<latest, ebc>>
    BY <1>8 DEF Credit
  <2>3. QED
    BY <1>0, <2>1, <2>2 DEF RunInv, Open
<1>9. QED
  BY <1>1, <1>2, <1>3, <1>4, <1>5, <1>6, <1>7, <1>8 DEF StatusTask
LEMMA TaskRows ==
  ASSUME TypeOK, MoneyInv, NEW k \in Tasks, StatusTask(k), NEW t \in Trx
  PROVE  RequestInv(t)'
<1>0. RequestInv(t) /\ RunInv(k) /\ TaskOK(task[k])
  BY DEF MoneyInv, TypeOK, TasksOK
<1>1. UNCHANGED <<req, ebc, debits>>
  BY DEF StatusTask, Wake, Enter, GiveUp, Count, Page, NextPage, Ask, Raises, MarkCopy, Sync, Credit, Callback,
         TaskDies, quiet, books
<1>2. CASE UNCHANGED <<latest, credits>>
  BY <1>0, <1>1, <1>2 DEF RequestInv
<1>3. CASE MarkCopy(k)
  <2>1. /\ task[k].at \in Trx /\ task[k].answer \in Expected /\ Open(task[k].at) /\ credits' = credits
        /\ latest' = [latest EXCEPT ![task[k].at] = Row(StatusOf(task[k].answer), task[k].answer)]
    BY <1>0, <1>3 DEF MarkCopy, RunInv, TaskOK, books
  <2>2. CASE t # task[k].at
    BY <1>0, <1>1, <2>1, <2>2 DEF RequestInv, TypeOK, RowsOK
  <2>3. CASE t = task[k].at
    <3>1. latest'[t].status = StatusOf(task[k].answer) /\ latest[t].status \in {"pending", "successful"}
      BY <2>1, <2>3, RowType DEF TypeOK, RowsOK, Open
    <3>2. latest'[t].status \in Accepted
      BY <2>1, <3>1, CodesStates DEF Accepted
    <3>3. credits[t] = 0 /\ debits[t] = 1
      BY <2>1, <2>3, OpenUncredited
    <3>4. req[t] \notin {"idle", "validated", "instant", "rejected", "created", "sent", "debited", "failing"}
      BY <1>0, <3>1, RowType DEF RequestInv, NoRow
    <3>5. latest'[t].status \in {"rejected", "returned"} => ebc[t] \in Back
      BY <1>0, <2>1, <2>3, <3>1, CodesStates DEF RunInv
    <3>6. QED
      BY <1>1, <2>1, <3>2, <3>3, <3>4, <3>5 DEF RequestInv
  <2>4. QED
    BY <2>2, <2>3
<1>4. CASE Credit(k)
  <2>1. latest' = latest /\ credits' = [credits EXCEPT ![task[k].at] = @ + 1] /\ task[k].pc = "crediting"
    BY <1>4 DEF Credit
  <2>2. credits \in [Trx -> Nat]
    BY DEF TypeOK, BooksOK
  <2>3. CASE t # task[k].at
    BY <1>0, <1>1, <2>1, <2>2, <2>3 DEF RequestInv
  <2>4. CASE t = task[k].at
    <3>1. credits[t] = 0 /\ latest[t].status \in {"rejected", "returned"}
      BY <1>0, <2>1, <2>4, CodesStates, RowType DEF RunInv, TaskOK
    <3>2. credits'[t] = 1
      BY <2>1, <2>2, <2>4, <3>1
    <3>3. QED
      BY <1>0, <1>1, <2>1, <3>1, <3>2 DEF RequestInv
  <2>5. QED
    BY <2>3, <2>4
<1>5. QED
  <2>1. CASE Bookless(k) \/ (\E e \in task[k].todo : Ask(k, e)) \/ Sync(k) \/ TaskDies(k)
    BY <1>2, <2>1, BooklessKeeps, CopyIsSame DEF Sync, TaskDies, books
  <2>2. QED
    BY <1>3, <1>4, <2>1, TaskSteps

LEMMA TaskBack ==
  ASSUME TypeOK, MoneyInv, NEW k \in Tasks, StatusTask(k), NEW t \in Trx
  PROVE  BackInv(t)'
<1>0. BackInv(t) /\ RunInv(k) /\ TaskOK(task[k])
  BY DEF MoneyInv, TypeOK, TasksOK
<1>1. \A j \in Tasks \ {k} : task'[j] = task[j]
  BY KeepsHold, GivesUp, LetsGo, Pages, Asks DEF StatusTask, Stands
<1>2. CASE task[k].pc \notin {"syncing", "crediting"} /\ UNCHANGED <<latest, credits, cut>>
  BY <1>0, <1>1, <1>2 DEF BackInv
<1>3. CASE MarkCopy(k)
  <2>1. UNCHANGED <<credits, cut>> /\ task'[k].pc = "syncing" /\ task'[k].at = task[k].at /\ task[k].pc = "marking"
    BY <1>3, KeepsHoldAt DEF MarkCopy, MovesTo, Stands, books
  <2>2. t # task[k].at => latest'[t] = latest[t]
    BY <1>3 DEF MarkCopy, TypeOK, RowsOK
  <2>3. QED
    BY <1>0, <1>1, <2>1, <2>2 DEF BackInv
<1>4. CASE Sync(k)
  <2>1. /\ UNCHANGED <<latest, credits, cut>> /\ task[k].pc = "syncing" /\ task'[k].at = task[k].at
        /\ task'[k].pc = IF task[k].answer \in Back THEN "crediting" ELSE "callback"
    BY <1>4, KeepsHoldAt DEF Sync, MovesTo, Stands, books
  <2>2. task[k].at = t /\ latest[t].status \in {"rejected", "returned"} => task[k].answer \in Back
    BY <1>0, <2>1, CodesStates, RowType DEF RunInv, TaskOK
  <2>3. QED
    BY <1>0, <1>1, <2>1, <2>2 DEF BackInv
<1>5. CASE Credit(k)
  <2>1. UNCHANGED <<latest, cut>> /\ task[k].pc = "crediting" /\ task[k].at \in Trx /\ credits[task[k].at] = 0
    BY <1>0, <1>5 DEF Credit, RunInv, TaskOK
  <2>2. credits' = [credits EXCEPT ![task[k].at] = @ + 1] /\ credits \in [Trx -> Nat]
    BY <1>5 DEF Credit, TypeOK, BooksOK
  <2>3. credits'[task[k].at] = 1 /\ \A u \in Trx \ {task[k].at} : credits'[u] = credits[u]
    BY <2>1, <2>2
  <2>4. QED
    BY <1>0, <1>1, <2>1, <2>3 DEF BackInv
<1>6. CASE TaskDies(k)
  <2>1. /\ UNCHANGED <<latest, credits>>
        /\ \A u \in Trx : cut'[u] <=> cut[u] \/ (u = task[k].at /\ task[k].pc \in {"syncing", "crediting"})
    BY <1>6 DEF TaskDies
  <2>2. QED
    BY <1>0, <1>1, <2>1 DEF BackInv
<1>7. QED
  <2>1. CASE Bookless(k)
    <3>1. task[k].pc \notin {"syncing", "crediting"}
      BY <2>1 DEF Bookless, Wake, Enter, GiveUp, Count, Page, NextPage, Raises, Callback
    <3>2. QED
      BY <1>2, <2>1, <3>1, BooklessKeeps
  <2>2. ASSUME NEW e \in task[k].todo, Ask(k, e) PROVE BackInv(t)'
    BY <1>2, <2>2, CopyIsSame, Asks
  <2>3. QED
    BY <1>3, <1>4, <1>5, <1>6, <2>1, <2>2, TaskSteps

LEMMA TaskInstant ==
  ASSUME TypeOK, MoneyInv, NEW k \in Tasks, StatusTask(k), NEW t \in Wallets
  PROVE  InstantInv(t)'
<1>0. t \in Trx /\ InstantInv(t) /\ RunInv(k) /\ TaskOK(task[k])
  BY TransferAssumption DEF MoneyInv, TypeOK, TasksOK
<1>1. \A j \in Tasks \ {k} : task'[j] = task[j]
  BY KeepsHold, GivesUp, LetsGo, Pages, Asks DEF StatusTask, Stands
<1>2. CASE /\ task[k].pc # "syncing" /\ UNCHANGED <<req, latest, instant, crossed, cut>>
           /\ task'[k].at \in {task[k].at, NoTrx}
  BY <1>0, <1>1, <1>2, TransferAssumption DEF InstantInv
<1>3. CASE MarkCopy(k)
  <2>1. /\ UNCHANGED <<req, instant, crossed, cut>> /\ task'[k].pc = "syncing" /\ task'[k].at = task[k].at
        /\ task[k].pc = "marking"
    BY <1>3, KeepsHoldAt DEF MarkCopy, MovesTo, Stands, books
  <2>2. t # task[k].at => latest'[t] = latest[t]
    BY <1>0, <1>3 DEF MarkCopy, TypeOK, RowsOK
  <2>3. QED
    BY <1>0, <1>1, <2>1, <2>2 DEF InstantInv
<1>4. CASE Sync(k)
  <2>1. /\ UNCHANGED <<req, latest, crossed, cut>> /\ task[k].pc = "syncing" /\ task'[k].at = task[k].at
        /\ task[k].at \in Trx
    BY <1>0, <1>4, KeepsHoldAt DEF Sync, MovesTo, Stands, TaskOK, books
  <2>2. /\ t # task[k].at => instant'[t] = instant[t]
        /\ t = task[k].at => instant'[t] = InstantOf(latest[t].status)
    BY <1>0, <1>4, <2>1, RowType DEF Sync, SyncInstant, RunInv, TypeOK, RowsOK
  <2>3. QED
    BY <1>0, <1>1, <2>1, <2>2 DEF InstantInv
<1>5. CASE TaskDies(k)
  <2>1. /\ UNCHANGED <<req, latest, instant, crossed>> /\ task'[k].at = NoTrx
        /\ cut'[t] <=> cut[t] \/ (t = task[k].at /\ task[k].pc \in {"syncing", "crediting"})
    BY <1>0, <1>5, GivesUp DEF TaskDies, Stands
  <2>2. QED
    BY <1>0, <1>1, <2>1, TransferAssumption DEF InstantInv
<1>6. CASE Credit(k)
  <2>1. /\ UNCHANGED <<req, latest, crossed, cut>> /\ task'[k].at = task[k].at /\ task[k].pc = "crediting"
        /\ task[k].at \in Trx /\ task'[k].pc # "syncing"
    BY <1>0, <1>6, KeepsHoldAt DEF Credit, MovesTo, Stands, TaskOK
  <2>2. /\ t # task[k].at => instant'[t] = instant[t]
        /\ t = task[k].at => instant'[t] = "failed"
    BY <1>0, <1>6 DEF Credit, SyncInstant, TypeOK, RowsOK
  <2>3. t = task[k].at => InstantOf(latest[t].status) = "failed"
    BY <1>0, <2>1, CodesStates, RowType DEF RunInv, InstantOf
  <2>4. QED
    BY <1>0, <1>1, <2>1, <2>2, <2>3 DEF InstantInv
<1>7. ASSUME NEW e \in task[k].todo, Ask(k, e) PROVE InstantInv(t)'
  <2>1. UNCHANGED <<req, latest, instant, cut>> /\ task[k].pc = "asking" /\ task[k].at \notin Trx
    BY <1>7, CopyIsSame, Asks
  <2>2. CASE UNCHANGED crossed /\ task'[k].at = task[k].at
    BY <1>2, <2>1, <2>2
  <2>3. CASE /\ task'[k].at = e.trx /\ task'[k].pc = "marking"
             /\ crossed' = [crossed EXCEPT ![e.trx] = @ \/ req[e.trx] = "marked"]
    <3>1. CASE e.trx # t
      <4>1. crossed'[t] = crossed[t]
        BY <1>0, <2>3, <3>1 DEF TypeOK, BooksOK
      <4>2. QED
        BY <1>0, <1>1, <2>1, <2>3, <3>1, <4>1 DEF InstantInv
    <3>2. CASE e.trx = t
      <4>1. crossed'[t] <=> crossed[t] \/ req[t] = "marked"
        BY <1>0, <2>3, <3>2 DEF TypeOK, BooksOK
      <4>2. QED
        BY <1>0, <1>1, <2>1, <2>3, <4>1 DEF InstantInv
    <3>3. QED
      BY <3>1, <3>2
  <2>4. QED
    BY <1>7, <2>2, <2>3, Asks DEF Stands
<1>8. CASE Bookless(k)
  <2>1. task[k].pc # "syncing"
    BY <1>8 DEF Bookless, Wake, Enter, GiveUp, Count, Page, NextPage, Raises, Callback
  <2>2. task'[k].at \in {task[k].at, NoTrx}
    BY <1>8, KeepsHold, GivesUp, LetsGo, Pages DEF Bookless, Stands
  <2>3. QED
    BY <1>2, <1>8, <2>1, <2>2, BooklessKeeps
<1>9. QED
  BY <1>3, <1>4, <1>5, <1>6, <1>7, <1>8, TaskSteps

LEMMA MoneyStep == ASSUME TypeOK, MoneyInv, MutexInv, [Next]_vars PROVE MoneyInv'
<1>1. CASE UNCHANGED vars
  BY <1>1 DEF vars, books, MoneyInv, RequestInv, RunInv, BackInv, InstantInv, Open
<1>2. ASSUME NEW k \in Tasks, StatusTask(k) PROVE MoneyInv'
  <2>1. OneStatusRun
    BY DEF MutexInv
  <2>2. \A j \in Tasks : RunInv(j)'
    BY <1>2, <2>1, OtherRuns, OwnRun
  <2>3. QED
    BY <1>2, <2>2, TaskRows, TaskBack, TaskInstant DEF MoneyInv
<1>3. ASSUME NEW t \in Trx, Ages(t) PROVE MoneyInv'
  BY <1>3, AgesKeeps DEF MoneyInv, RequestInv, RunInv, BackInv, InstantInv, Open
<1>4. QED
  BY <1>1, <1>2, <1>3, RequestStep DEF Next

LEMMA MoneyTheorem == Spec => [](TypeOK /\ MoneyInv)
BY InitMutex, MutexStep, BankTypeInit, BankTypeStep, MoneyInit, MoneyStep, PTL DEF Spec

\* Debited once at most, and credited at most once and only after a debit: for
\* any number of transfers, tasks and deaths.
THEOREM CreditTheorem == Spec => []CreditedWithinDebit
<1>1. TypeOK /\ MoneyInv => CreditedWithinDebit
  <2>1. SUFFICES ASSUME TypeOK, MoneyInv, NEW t \in Trx PROVE credits[t] <= debits[t] /\ debits[t] <= 1
    BY DEF CreditedWithinDebit
  <2>2. RequestInv(t) /\ credits[t] \in Nat /\ debits[t] \in Nat
    BY <2>1 DEF MoneyInv, TypeOK, BooksOK
  <2>3. credits[t] = 1 => debits[t] = 1
    BY <2>2 DEF RequestInv, Accepted
  <2>4. QED
    BY <2>2, <2>3 DEF RequestInv
<1>2. QED
  BY <1>1, MoneyTheorem, PTL

\* What comes back from the bank is credited, and nothing else is, unless a task
\* died between the two.
THEOREM BackTheorem == Spec => []BackIsCredited
<1>1. TypeOK /\ MoneyInv => BackIsCredited
  <2>1. SUFFICES ASSUME TypeOK, MoneyInv, NEW t \in Trx
                 PROVE  /\ credits[t] > 0 => ebc[t] \in Back /\ latest[t].status \in {"rejected", "returned"}
                        /\ latest[t].status \in {"rejected", "returned"} /\ credits[t] = 0
                             => cut[t] \/ \E k \in Tasks : task[k].at = t /\ task[k].pc \in {"syncing", "crediting"}
    BY DEF BackIsCredited
  <2>2. RequestInv(t) /\ BackInv(t) /\ credits[t] \in Nat
    BY <2>1 DEF MoneyInv, TypeOK, BooksOK
  <2>3. credits[t] > 0 => credits[t] = 1
    BY <2>2 DEF RequestInv
  <2>4. QED
    BY <2>2, <2>3 DEF RequestInv, BackInv
<1>2. QED
  BY <1>1, MoneyTheorem, PTL

\* The row the client sees follows the bank row.
THEOREM InstantTheorem == Spec => []InstantFollows
<1>1. TypeOK /\ MoneyInv => InstantFollows
  BY DEF MoneyInv, InstantInv, InstantFollows
<1>2. QED
  BY <1>1, MoneyTheorem, PTL

\* What is failed, rejected, returned or settled for good stays so.
THEOREM FinalTheorem == Spec => FinalRowKept
<1> DEFINE Final(t) == latest[t].status \in {"failed", "rejected", "returned"} \/ latest[t].code = "8333"
           Kept == \A t \in Trx : Final(t) => latest'[t] = latest[t]
<1>1. ASSUME TypeOK, MoneyInv, [Next]_vars PROVE [Kept]_vars
  <2>1. ASSUME NEW t \in Trx, Request(t) \/ Clears(t) PROVE Kept
    <3>1. latest[t] = NoRow \/ latest[t] = Row("default", "none") => ~Final(t)
      BY RowType DEF NoRow
    <3>2. req[t] \in {"idle", "validated", "instant", "created", "sent", "debited"} => ~Final(t)
      BY <1>1, <3>1 DEF MoneyInv, RequestInv
    <3>3. latest' = latest \/ req[t] \in {"validated", "instant", "sent", "debited"}
      BY <2>1 DEF Request, Clears, Validate, CreateInstant, CreateBank, Send, DebitAccepted, MarkPending,
         SyncPending, MarkFailed, SyncFailed, RequestDies
    <3>4. QED
      BY <1>1, <2>1, <3>2, <3>3, RequestTouches
  <2>2. ASSUME NEW k \in Tasks, StatusTask(k) PROVE Kept
    <3>1. CASE MarkCopy(k)
      <4>1. Open(task[k].at) /\ \A t \in Trx \ {task[k].at} : latest'[t] = latest[t]
        BY <1>1, <3>1 DEF MoneyInv, RunInv, MarkCopy, TypeOK, RowsOK
      <4>2. QED
        BY <4>1 DEF Open
    <3>2. CASE ~MarkCopy(k)
      BY <1>1, <2>2, <3>2, TaskSteps, BooklessKeeps, CopyIsSame DEF Sync, Credit, TaskDies
    <3>3. QED
      BY <3>1, <3>2
  <2>3. QED
    BY <1>1, <2>1, <2>2, AgesKeeps DEF Next
<1>2. QED
  BY <1>1, MoneyTheorem, PTL DEF Spec, FinalRowKept

-----------------------------------------------------------------------------
(* The contract is implemented: the record follows the clearing house *)

\* EBC has a transfer no sooner than it is sent, and takes what is debited; what is
\* on record as accepted has a code of its status, at which EBC was or still is.
Path(pc, row, code) ==
  /\ pc \in {"idle", "validated", "instant", "rejected", "created"} => code = "none"
  /\ pc = "debited" => StageOf(code) \in Promise!Stages
  /\ row.status \in {"pending", "successful"} => row.code \in {"8000", "8111", "8222", "8333"}
  /\ Recorded(row) \in Promise!Stages => StageOf(code) \in Promise!Since(Recorded(row))
PathInv(t) == Path(req[t], latest[t], ebc[t])

\* An answer that is about to be saved is news, and at worst late.
News(answer, row, code) ==
  /\ StageOf(answer) \in Promise!Since(Recorded(row)) \ {Recorded(row)}
  /\ StageOf(code) \in Promise!Since(StageOf(answer))
AnswerInv(k) ==
  task[k].pc = "marking" => News(task[k].answer, latest[task[k].at], ebc[task[k].at])

FollowInv == (\A t \in Trx : PathInv(t)) /\ (\A k \in Tasks : AnswerInv(k))

LEMMA SinceFacts ==
  /\ \A x \in Promise!Stages : x \in Promise!Since(x)
  /\ \A x, y, z : y \in Promise!Since(x) /\ z \in Promise!After(y) => z \in Promise!Since(x)
  /\ \A x \in Promise!Stages : \A y : y \in Promise!Since(x) => y \in Promise!Stages
BY DEF Promise!Stages, Promise!Since, Promise!After

LEMMA StageFacts ==
  /\ \A code \in {"8000"} \cup Expected : StageOf(code) \in Promise!Stages
  /\ StageOf("none") = "none" /\ StageOf("refused") = "refused" /\ StageOf("8000") = "accepted"
  /\ \A c, d \in {"8000"} \cup Expected : c # d => StageOf(c) # StageOf(d)
  /\ \A move \in Moves : StageOf(move[2]) \in Promise!After(StageOf(move[1]))
  /\ {"none", "refused", "failed"} \cap Promise!Stages = {}
BY DEF StageOf, Expected, Back, Rejected, Returned, Moves, Promise!Stages, Promise!After

LEMMA RecordedFacts ==
  /\ \A code \in Expected : Recorded(Row(StatusOf(code), code)) = StageOf(code)
  /\ \A code : Recorded(Row("pending", code)) = StageOf(code) /\ Recorded(Row("failed", code)) = "failed"
  /\ Recorded(NoRow) = "none" /\ Recorded(Row("default", "none")) = "none"
BY RowType DEF Recorded, NoRow, StatusOf, StageOf, Expected, Back, Rejected, Returned

\* EBC moves on only to what comes after.
LEMMA ClearsOn ==
  ASSUME TypeOK, NEW t \in Trx, Clears(t)
  PROVE  /\ StageOf(ebc'[t]) \in Promise!After(StageOf(ebc[t]))
         /\ \A u \in Trx \ {t} : ebc'[u] = ebc[u]
         /\ ebc'[t] \in Expected
<1>1. PICK move \in Moves : move[1] = ebc[t] /\ ebc' = [ebc EXCEPT ![t] = move[2]]
  BY DEF Clears
<1>2. ebc'[t] = move[2] /\ \A u \in Trx \ {t} : ebc'[u] = ebc[u]
  BY <1>1 DEF TypeOK, RowsOK
<1>3. move[2] \in Expected
  BY DEF Moves, Expected, Back
<1>4. QED
  BY <1>1, <1>2, <1>3, StageFacts

LEMMA RequestPath ==
  ASSUME TypeOK, MoneyInv, FollowInv, NEW t \in Trx, Request(t) \/ Clears(t), NEW u \in Trx
  PROVE  PathInv(u)'
<1>0. PathInv(u) /\ RequestInv(u) /\ ebc[u] \in {"none", "refused", "8000"} \cup Expected
  BY DEF FollowInv, MoneyInv, TypeOK, RowsOK
<1>1. CASE u # t
  <2>1. UNCHANGED <<req[u], latest[u], ebc[u]>>
    BY <1>1 DEF Request, Clears, Validate, CreateInstant, CreateBank, NewRow, Send, DebitAccepted, MarkPending,
       SyncPending, MarkFailed, SyncFailed, RequestDies, Go, TypeOK, RequestsOK, RowsOK
  <2>2. QED
    BY <1>0, <2>1 DEF PathInv
<1>2. CASE u = t /\ Clears(t)
  <2>1. UNCHANGED <<req, latest>>
    BY <1>2 DEF Clears
  <2>2. StageOf(ebc'[t]) \in Promise!After(StageOf(ebc[t])) /\ ebc'[t] \in Expected
    BY <1>2, ClearsOn
  <2>3. StageOf(ebc'[t]) \in Promise!Stages
    BY <2>2, StageFacts
  <2>4. ebc[t] # "none"
    BY <1>2 DEF Clears, Moves, Rejected, Returned
  <2>5. QED
    BY <1>0, <1>2, <2>1, <2>2, <2>3, <2>4, SinceFacts DEF PathInv, Path
<1>3. CASE u = t /\ Request(t)
  <2>1. CASE Send(t)
    <3>1. req[t] = "created" /\ req'[t] = "sent" /\ latest' = latest
      BY <2>1 DEF Send, Go, TypeOK, RequestsOK
    <3>2. latest[t] = Row("default", "none")
      BY <1>0, <1>3, <3>1 DEF RequestInv
    <3>3. Recorded(latest[t]) = "none" /\ latest[t].status = "default"
      BY <3>2, RecordedFacts, RowType
    <3>4. QED
      BY <1>3, <3>1, <3>3, StageFacts DEF PathInv, Path
  <2>2. CASE MarkPending(t)
    <3>1. /\ req[t] = "debited" /\ req'[t] = "marked" /\ ebc' = ebc
          /\ \E code \in IF ebc[t] = "8000" THEN {"8000"} ELSE {"8000", "8111"} : latest'[t] = Row("pending", code)
      BY <2>2 DEF MarkPending, Go, TypeOK, RequestsOK, RowsOK
    <3>2. PICK code \in {"8000", "8111"} : latest'[t] = Row("pending", code) /\ (ebc[t] = "8000" => code = "8000")
      BY <3>1
    <3>3. Recorded(latest'[t]) = StageOf(code)
      BY <3>2, RecordedFacts
    <3>4. ebc[t] \in {"8000"} \cup Expected
      BY <1>0, <1>3, <3>1, StageFacts DEF PathInv, Path
    <3>5. StageOf(ebc[t]) \in Promise!Since(StageOf(code))
      BY <3>2, <3>4 DEF StageOf, Expected, Back, Rejected, Returned, Promise!Stages, Promise!Since
    <3>6. QED
      BY <1>3, <3>1, <3>2, <3>3, <3>5, RowType DEF PathInv, Path
  <2>3. CASE MarkFailed(t) \/ CreateBank(t)
    <3>1. /\ req'[t] \in {"failing", "created"} /\ (req'[t] = "created" => ebc[t] = "none") /\ ebc' = ebc
          /\ latest'[t] = Row("default", "none") \/ \E code : latest'[t] = Row("failed", code)
      BY <1>0, <1>3, <2>3 DEF MarkFailed, CreateBank, NewRow, Go, TypeOK, RequestsOK, RowsOK, PathInv, Path
    <3>2. Recorded(latest'[t]) \in {"none", "failed"} /\ latest'[t].status \in {"default", "failed"}
      BY <3>1, RecordedFacts, RowType
    <3>3. QED
      BY <1>3, <3>1, <3>2, StageFacts DEF PathInv, Path
  <2>4. CASE DebitAccepted(t)
    <3>1. req'[t] = "debited" /\ UNCHANGED <<latest, ebc>> /\ ebc[t] \in {"8000"} \cup Expected
      BY <1>0, <1>3, <2>4 DEF DebitAccepted, Go, TypeOK, RequestsOK
    <3>2. QED
      BY <1>0, <1>3, <3>1, StageFacts DEF PathInv, Path
  <2>5. CASE Validate(t) \/ CreateInstant(t) \/ SyncPending(t) \/ SyncFailed(t) \/ RequestDies(t)
    <3>1. UNCHANGED <<latest, ebc>> /\ req'[t] # "debited"
          /\ (req'[t] \in {"idle", "validated", "instant", "rejected", "created"}
              => req[t] \in {"idle", "validated", "instant", "rejected", "created"})
      BY <2>5 DEF Validate, CreateInstant, SyncPending, SyncFailed, RequestDies, Go, TypeOK, RequestsOK
    <3>2. QED
      BY <1>0, <1>3, <3>1 DEF PathInv, Path
  <2>6. QED
    BY <1>3, <2>1, <2>2, <2>3, <2>4, <2>5 DEF Request
<1>4. QED
  BY <1>1, <1>2, <1>3

LEMMA RequestAnswers ==
  ASSUME TypeOK, MoneyInv, FollowInv, NEW t \in Trx, Request(t) \/ Clears(t), NEW k \in Tasks
  PROVE  AnswerInv(k)'
<1>1. task' = task
  BY RequestLeavesTasks
<1>2. SUFFICES ASSUME task[k].pc = "marking" PROVE AnswerInv(k)'
  BY <1>1 DEF AnswerInv
<1> DEFINE u == task[k].at
<1>3. u \in Trx /\ Open(u) /\ AnswerInv(k) /\ RequestInv(u)
  BY <1>2 DEF MoneyInv, RunInv, FollowInv, TypeOK, TasksOK, TaskOK
<1>4. latest'[u] = latest[u]
  BY <1>3, RequestTouches DEF Open
<1>5. ebc'[u] = ebc[u] \/ StageOf(ebc'[u]) \in Promise!After(StageOf(ebc[u]))
  <2>1. CASE Clears(t)
    BY <1>3, <2>1, ClearsOn
  <2>2. CASE Send(t)
    <3>1. latest[u] # Row("default", "none")
      BY <1>3, RowType DEF Open
    <3>2. u # t
      BY <1>3, <2>2, <3>1 DEF Send, RequestInv
    <3>3. QED
      BY <1>3, <3>2, RequestTouches
  <2>3. CASE ebc' = ebc
    BY <2>3
  <2>4. QED
    BY <2>1, <2>2, <2>3 DEF Request, Validate, CreateInstant, CreateBank, DebitAccepted, MarkPending, SyncPending,
       MarkFailed, SyncFailed, RequestDies
<1>6. News(task[k].answer, latest[u], ebc[u])
  BY <1>2, <1>3 DEF AnswerInv
<1>7. News(task[k].answer, latest[u], ebc'[u])
  BY <1>5, <1>6, SinceFacts DEF News
<1>8. QED
  BY <1>1, <1>4, <1>7 DEF AnswerInv

LEMMA TaskFollows ==
  ASSUME TypeOK, MoneyInv, FollowInv, OneStatusRun, NEW k \in Tasks, StatusTask(k)
  PROVE  FollowInv'
<1>0. /\ RunInv(k) /\ AnswerInv(k) /\ TaskOK(task[k])
      /\ \A j \in Tasks \ {k} : task'[j] = task[j]
      /\ UNCHANGED <<req, ebc>>
  <2>1. \A j \in Tasks \ {k} : task'[j] = task[j]
    BY OtherRuns
  <2>2. UNCHANGED <<req, ebc>>
    BY DEF StatusTask, Wake, Enter, GiveUp, Count, Page, NextPage, Ask, Raises, MarkCopy, Sync, Credit, Callback,
           TaskDies, quiet, books
  <2>3. QED
    BY <2>1, <2>2 DEF MoneyInv, FollowInv, TypeOK, TasksOK
<1>1. CASE MarkCopy(k)
  <2> DEFINE u == task[k].at
             row == Row(StatusOf(task[k].answer), task[k].answer)
  <2>1. /\ task[k].pc = "marking" /\ u \in Trx /\ task[k].answer \in Expected
        /\ latest'[u] = row /\ \A v \in Trx \ {u} : latest'[v] = latest[v]
    BY <1>0, <1>1 DEF MarkCopy, TaskOK, TypeOK, RowsOK
  <2>2. Recorded(row) = StageOf(task[k].answer)
    BY <2>1, RecordedFacts
  <2>3. StageOf(ebc[u]) \in Promise!Since(StageOf(task[k].answer))
    BY <1>0, <2>1 DEF AnswerInv, News
  <2>4. Open(u) /\ PathInv(u) /\ RequestInv(u)
    BY <1>0, <2>1 DEF RunInv, FollowInv, MoneyInv
  <2>5. row.status \in {"pending", "successful"} => row.code \in {"8000", "8111", "8222", "8333"}
    BY <2>1, RowType, CodesStates DEF Expected
  <2>6. Path(req[u], row, ebc[u])
    BY <2>2, <2>3, <2>4, <2>5 DEF PathInv, Path
  <2>7. \A v \in Trx : PathInv(v)'
    BY <1>0, <2>1, <2>6 DEF FollowInv, PathInv
  <2>8. \A j \in Tasks : task'[j].pc # "marking"
    <3>1. k \in Running
      BY <2>1 DEF Running
    <3>2. \A j \in Tasks \ {k} : task[j].pc # "marking"
      BY <3>1 DEF OneStatusRun, Running
    <3>3. task'[k].pc = "syncing"
      BY <1>1, KeepsHoldAt DEF MovesTo, Stands
    <3>4. QED
      BY <1>0, <3>2, <3>3
  <2>9. QED
    BY <2>7, <2>8 DEF FollowInv, AnswerInv
<1>2. CASE latest' = latest
  <2>1. \A t \in Trx : PathInv(t)'
    BY <1>0, <1>2 DEF FollowInv, PathInv
  <2>2. \A j \in Tasks \ {k} : AnswerInv(j)'
    BY <1>0, <1>2 DEF FollowInv, AnswerInv
  <2>3. AnswerInv(k)'
    <3>1. ASSUME NEW e \in task[k].todo, Ask(k, e) PROVE AnswerInv(k)'
      <4>1. CASE task'[k].pc = "marking"
        <5>1. /\ task'[k].at = e.trx /\ task'[k].answer = ebc[e.trx] /\ e.trx \in Trx
              /\ ebc[e.trx] # e.row.code /\ ebc[e.trx] \in Expected
          BY <3>1, <4>1, Asks DEF Stands
        <5>2. e.row = latest[e.trx] /\ Open(e.trx) /\ PathInv(e.trx)
          BY <1>0, <5>1 DEF RunInv, FollowInv
        <5>3. /\ latest[e.trx].code \in {"8000", "8111", "8222", "8333"}
              /\ Recorded(latest[e.trx]) = StageOf(latest[e.trx].code)
          BY <5>2 DEF PathInv, Path, Open, Recorded
        <5>4. {"8000", "8111", "8222", "8333"} \subseteq {"8000"} \cup Expected
          BY DEF Expected
        <5>5. StageOf(ebc[e.trx]) \in Promise!Since(Recorded(latest[e.trx]))
          BY <5>2, <5>3, <5>4, StageFacts DEF PathInv, Path
        <5>6. StageOf(ebc[e.trx]) # Recorded(latest[e.trx])
          BY <5>1, <5>2, <5>3, <5>4, StageFacts
        <5>7. StageOf(ebc[e.trx]) \in Promise!Since(StageOf(ebc[e.trx]))
          BY <5>1, StageFacts, SinceFacts
        <5>8. News(ebc[e.trx], latest[e.trx], ebc[e.trx])
          BY <5>5, <5>6, <5>7 DEF News
        <5>9. QED
          BY <1>0, <1>2, <5>1, <5>8 DEF AnswerInv
      <4>2. CASE task'[k].pc # "marking"
        BY <4>2 DEF AnswerInv
      <4>3. QED
        BY <4>1, <4>2
    <3>2. ASSUME ~\E e \in task[k].todo : Ask(k, e) PROVE task'[k].pc # "marking"
      <4>1. CASE Wake(k) \/ Enter(k) \/ Count(k) \/ NextPage(k) \/ MarkCopy(k) \/ Sync(k) \/ Credit(k)
        BY <4>1, KeepsHoldAt DEF MovesTo, Stands
      <4>2. CASE GiveUp(k) \/ Raises(k) \/ TaskDies(k)
        BY <4>2, GivesUp DEF Stands
      <4>3. CASE Page(k)
        BY <4>3, Pages DEF Stands
      <4>4. CASE Callback(k)
        BY <4>4, LetsGo DEF Stands
      <4>5. QED
        BY <3>2, <4>1, <4>2, <4>3, <4>4 DEF StatusTask
    <3>3. QED
      BY <3>1, <3>2 DEF AnswerInv
  <2>4. QED
    BY <2>1, <2>2, <2>3 DEF FollowInv
<1>3. QED
  BY <1>1, <1>2, TaskSteps, BooklessKeeps, CopyIsSame DEF Sync, Credit, TaskDies

LEMMA FollowInit == Init => FollowInv
<1> SUFFICES ASSUME Init PROVE FollowInv
  OBVIOUS
<1>1. \A k \in Tasks : task[k].pc = "idle"
  BY DEF Init, Idle, At
<1>2. \A t \in Trx : req[t] = "idle" /\ latest[t] = NoRow /\ ebc[t] = "none"
  BY DEF Init
<1>3. Path("idle", NoRow, "none")
  BY RecordedFacts, StageFacts, RowType DEF Path, NoRow
<1>4. QED
  BY <1>1, <1>2, <1>3 DEF FollowInv, PathInv, AnswerInv

LEMMA FollowStep == ASSUME TypeOK, MoneyInv, MutexInv, FollowInv, [Next]_vars PROVE FollowInv'
<1>1. CASE UNCHANGED vars
  BY <1>1 DEF vars, FollowInv, PathInv, AnswerInv
<1>2. ASSUME NEW k \in Tasks, StatusTask(k) PROVE FollowInv'
  BY <1>2, TaskFollows DEF MutexInv
<1>3. ASSUME NEW t \in Trx, Request(t) \/ Clears(t) PROVE FollowInv'
  BY <1>3, RequestPath, RequestAnswers DEF FollowInv
<1>4. ASSUME NEW t \in Trx, Ages(t) PROVE FollowInv'
  BY <1>4, AgesKeeps DEF FollowInv, PathInv, AnswerInv
<1>5. QED
  BY <1>1, <1>2, <1>3, <1>4 DEF Next

\* The contract's view of EBC and of the rows.
stages == [t \in Trx |-> StageOf(ebc[t])]
record == [t \in Trx |-> Recorded(latest[t])]

LEMMA Views ==
  /\ stages' = [t \in Trx |-> StageOf(ebc'[t])]
  /\ record' = [t \in Trx |-> Recorded(latest'[t])]
BY DEF stages, record, StageOf, Recorded, Rejected, Returned

\* Nothing of it moves.
LEMMA QuietMapped ==
  ASSUME UNCHANGED <<debits, credits>>, \A t \in Trx : ebc'[t] = ebc[t],
         \A t \in Trx : Recorded(latest'[t]) = Recorded(latest[t])
  PROVE  UNCHANGED Promise!vars
<1>1. stages' = stages /\ record' = record
  BY Views DEF stages, record
<1>2. QED
  BY <1>1 DEF Promise!vars, stages, record

\* EBC has one transfer elsewhere.
LEMMA ClearingMapped ==
  ASSUME NEW t \in Trx, UNCHANGED <<debits, credits, latest>>, \A u \in Trx \ {t} : ebc'[u] = ebc[u],
         \/ StageOf(ebc'[t]) \in Promise!After(StageOf(ebc[t]))
         \/ /\ StageOf(ebc'[t]) \in {"refused", "accepted"} /\ StageOf(ebc[t]) = "none"
            /\ Recorded(latest[t]) = "none" /\ debits[t] = 0
  PROVE  Promise!Next
<1>1. stages' = [stages EXCEPT ![t] = StageOf(ebc'[t])] /\ stages[t] = StageOf(ebc[t])
  BY Views DEF stages
<1>2. record' = record /\ record[t] = Recorded(latest[t])
  BY Views DEF record
<1>3. Promise!Clear(t) \/ Promise!Send(t)
  BY <1>1, <1>2 DEF Promise!Clear, Promise!Send, stages, record
<1>4. QED
  BY <1>3 DEF Promise!Next

\* One transfer gets another status on record.
LEMMA RecordMapped ==
  ASSUME NEW t \in Trx, UNCHANGED <<debits, credits, ebc>>, \A u \in Trx \ {t} : latest'[u] = latest[u],
         NEW old, old = Recorded(latest[t]), NEW new, new = Recorded(latest'[t]),
         \/ /\ old = "none" /\ debits[t] = 1 /\ new \in {"accepted", "pending"}
            /\ StageOf(ebc[t]) \in Promise!Since(new)
         \/ old = "none" /\ debits[t] = 0 /\ new = "failed"
         \/ /\ old \in Promise!Stages /\ new \in Promise!Since(old) \ {old}
            /\ StageOf(ebc[t]) \in Promise!Since(new)
  PROVE  Promise!Next
<1>1. record[t] = old /\ \A u \in Trx : record[u] = Recorded(latest[u])
  BY DEF record
<1>2. record' = [record EXCEPT ![t] = new]
  <2>1. record' = [u \in Trx |-> Recorded(latest'[u])]
    BY Views
  <2>2. record' = [u \in Trx |-> IF u = t THEN new ELSE record[u]]
    BY <1>1, <2>1
  <2>3. QED
    BY <2>2 DEF record
<1>3. stages' = stages /\ stages[t] = StageOf(ebc[t])
  BY Views DEF stages
<1>4. Promise!Accept(t) \/ Promise!Fail(t) \/ Promise!Report(t)
  BY <1>1, <1>2, <1>3 DEF Promise!Accept, Promise!Fail, Promise!Report, stages, record
<1>5. QED
  BY <1>4 DEF Promise!Next

\* The budget is changed for one transfer.
LEMMA BudgetMapped ==
  ASSUME NEW t \in Trx, UNCHANGED <<latest, ebc>>,
         \/ /\ debits[t] = 0 /\ debits' = [debits EXCEPT ![t] = 1] /\ credits' = credits
            /\ StageOf(ebc[t]) \in Promise!Stages /\ Recorded(latest[t]) = "none"
         \/ /\ credits[t] = 0 /\ credits' = [credits EXCEPT ![t] = 1] /\ debits' = debits
            /\ Recorded(latest[t]) \in {"rejected", "returned"}
  PROVE  Promise!Next
<1>1. stages' = stages /\ record' = record
  BY Views DEF stages, record
<1>2. stages[t] = StageOf(ebc[t]) /\ record[t] = Recorded(latest[t])
  BY DEF stages, record
<1>3. Promise!Debit(t) \/ Promise!Credit(t)
  BY <1>1, <1>2 DEF Promise!Debit, Promise!Credit, stages, record
<1>4. QED
  BY <1>3 DEF Promise!Next

LEMMA RequestMapped ==
  ASSUME TypeOK, MoneyInv, FollowInv, NEW t \in Trx, Request(t) \/ Clears(t)
  PROVE  Promise!Next \/ UNCHANGED Promise!vars
<1>0. /\ PathInv(t) /\ RequestInv(t) /\ ebc[t] \in {"none", "refused", "8000"} \cup Expected
      /\ UNCHANGED credits /\ \A u \in Trx \ {t} : ebc'[u] = ebc[u] /\ latest'[u] = latest[u]
  BY RequestTouches DEF FollowInv, MoneyInv, TypeOK, RowsOK
<1>1. req[t] \in {"created", "sent", "debited"} => Recorded(latest[t]) = "none"
  BY <1>0, RecordedFacts DEF RequestInv
<1>2. CASE Clears(t)
  BY <1>0, <1>2, ClearsOn, ClearingMapped DEF Clears, books
<1>3. CASE Send(t)
  <2>1. /\ req[t] = "created" /\ UNCHANGED <<latest, debits>>
        /\ ebc'[t] \in {"none", "refused", "8000"}
    BY <1>3 DEF Send, books, TypeOK, RowsOK
  <2>2. ebc[t] = "none" /\ debits[t] = 0
    BY <1>0, <2>1 DEF PathInv, Path, RequestInv
  <2>3. CASE ebc'[t] = "none"
    BY <1>0, <2>1, <2>2, <2>3, QuietMapped
  <2>4. CASE ebc'[t] \in {"refused", "8000"}
    BY <1>0, <1>1, <2>1, <2>2, <2>4, StageFacts, ClearingMapped
  <2>5. QED
    BY <2>1, <2>3, <2>4
<1>4. CASE DebitAccepted(t)
  <2>1. /\ req[t] = "sent" /\ ebc[t] \in {"8000"} \cup Expected /\ UNCHANGED <<latest, ebc>>
        /\ debits' = [debits EXCEPT ![t] = debits[t] + 1]
    BY <1>0, <1>4 DEF DebitAccepted
  <2>2. debits[t] = 0
    BY <1>0, <2>1 DEF RequestInv
  <2>3. debits' = [debits EXCEPT ![t] = 1]
    BY <2>1, <2>2
  <2>4. QED
    BY <1>0, <1>1, <2>1, <2>2, <2>3, StageFacts, BudgetMapped
<1>5. CASE MarkPending(t)
  <2>1. /\ req[t] = "debited" /\ UNCHANGED <<ebc, debits>>
        /\ \E code \in IF ebc[t] = "8000" THEN {"8000"} ELSE {"8000", "8111"} : latest'[t] = Row("pending", code)
    BY <1>5 DEF MarkPending, books, TypeOK, RowsOK
  <2>2. debits[t] = 1
    BY <1>0, <2>1 DEF RequestInv
  <2>3. PICK code \in {"8000", "8111"} : latest'[t] = Row("pending", code) /\ (ebc[t] = "8000" => code = "8000")
    BY <2>1
  <2>4. ebc[t] \in {"8000"} \cup Expected
    BY <1>0, <2>1, StageFacts DEF PathInv, Path
  <2>5. StageOf(ebc[t]) \in Promise!Since(StageOf(code)) /\ StageOf(code) \in {"accepted", "pending"}
    BY <2>3, <2>4 DEF StageOf, Expected, Back, Rejected, Returned, Promise!Stages, Promise!Since
  <2>6. Recorded(latest'[t]) = StageOf(code)
    BY <2>3, RecordedFacts
  <2>7. QED
    BY <1>0, <1>1, <2>1, <2>2, <2>5, <2>6, RecordMapped
<1>6. CASE MarkFailed(t)
  <2>1. req[t] = "sent" /\ UNCHANGED <<ebc, debits>> /\ \E code : latest'[t] = Row("failed", code)
    BY <1>6 DEF MarkFailed, books, TypeOK, RowsOK
  <2>2. debits[t] = 0 /\ Recorded(latest'[t]) = "failed"
    BY <1>0, <2>1, RecordedFacts DEF RequestInv
  <2>3. QED
    BY <1>0, <1>1, <2>1, <2>2, RecordMapped
<1>7. CASE CreateBank(t)
  <2>1. req[t] \in {"validated", "instant"} /\ UNCHANGED <<ebc, debits>> /\ latest'[t] = Row("default", "none")
    BY <1>7 DEF CreateBank, NewRow, books, TypeOK, RowsOK
  <2>2. Recorded(latest[t]) = "none" /\ Recorded(latest'[t]) = "none"
    BY <1>0, <2>1, RecordedFacts DEF RequestInv
  <2>3. QED
    BY <1>0, <2>1, <2>2, QuietMapped
<1>8. CASE Validate(t) \/ CreateInstant(t) \/ SyncPending(t) \/ SyncFailed(t) \/ RequestDies(t)
  <2>1. UNCHANGED <<latest, ebc, debits>>
    BY <1>8 DEF Validate, CreateInstant, SyncPending, SyncFailed, RequestDies, books
  <2>2. QED
    BY <1>0, <2>1, QuietMapped
<1>9. QED
  BY <1>2, <1>3, <1>4, <1>5, <1>6, <1>7, <1>8 DEF Request

LEMMA TaskMapped ==
  ASSUME TypeOK, MoneyInv, FollowInv, NEW k \in Tasks, StatusTask(k)
  PROVE  Promise!Next \/ UNCHANGED Promise!vars
<1>0. RunInv(k) /\ AnswerInv(k) /\ TaskOK(task[k])
  BY DEF FollowInv, MoneyInv, TypeOK, TasksOK
<1> DEFINE u == task[k].at
<1>1. CASE MarkCopy(k)
  <2>1. /\ task[k].pc = "marking" /\ u \in Trx /\ task[k].answer \in Expected
        /\ latest'[u] = Row(StatusOf(task[k].answer), task[k].answer)
        /\ (\A v \in Trx \ {u} : latest'[v] = latest[v]) /\ UNCHANGED <<ebc, debits, credits>>
    BY <1>0, <1>1 DEF MarkCopy, TaskOK, TypeOK, RowsOK, books
  <2>2. Recorded(latest'[u]) = StageOf(task[k].answer)
    BY <2>1, RecordedFacts
  <2>3. Open(u) /\ PathInv(u) /\ News(task[k].answer, latest[u], ebc[u])
    BY <1>0, <2>1 DEF RunInv, AnswerInv, FollowInv
  <2>4. Recorded(latest[u]) \in Promise!Stages
    <3>1. latest[u].code \in {"8000"} \cup Expected /\ Recorded(latest[u]) = StageOf(latest[u].code)
      BY <2>3 DEF PathInv, Path, Open, Recorded, Expected
    <3>2. QED
      BY <3>1, StageFacts
  <2>5. QED
    BY <2>1, <2>2, <2>3, <2>4, RecordMapped DEF News
<1>2. CASE Credit(k)
  <2>1. /\ task[k].pc = "crediting" /\ u \in Trx /\ UNCHANGED <<latest, ebc, debits>>
        /\ credits' = [credits EXCEPT ![u] = credits[u] + 1]
    BY <1>0, <1>2 DEF Credit, TaskOK
  <2>2. /\ task[k].answer \in Back /\ credits[u] = 0
        /\ latest[u] = Row(StatusOf(task[k].answer), task[k].answer)
    BY <1>0, <2>1 DEF RunInv
  <2>3. Recorded(latest[u]) \in {"rejected", "returned"}
    BY <2>2, RecordedFacts DEF Expected, Back, StageOf, Rejected, Returned
  <2>4. credits' = [credits EXCEPT ![u] = 1]
    BY <2>1, <2>2
  <2>5. QED
    BY <2>1, <2>2, <2>3, <2>4, BudgetMapped
<1>3. CASE UNCHANGED <<latest, ebc, debits, credits>>
  BY <1>3, QuietMapped
<1>4. QED
  BY <1>1, <1>2, <1>3, TaskSteps, BooklessKeeps, CopyIsSame DEF Sync, TaskDies, books

\* A transfer to a bank is what its client was promised, for any number of transfers
\* and of deliveries of the tasks, and any page size: the record follows EBC and never
\* goes back, and the budget is debited before it and credited after it.
THEOREM ContractTheorem == Spec => Contract
<1>1. Init => Promise!Init
  BY StageFacts, RecordedFacts DEF Init, Promise!Init
<1>2. TypeOK /\ MoneyInv /\ FollowInv /\ [Next]_vars => [Promise!Next]_(Promise!vars)
  <2> SUFFICES ASSUME TypeOK, MoneyInv, FollowInv, [Next]_vars PROVE Promise!Next \/ UNCHANGED Promise!vars
    OBVIOUS
  <2>1. CASE UNCHANGED vars
    BY <2>1, QuietMapped DEF vars, books
  <2>2. ASSUME NEW t \in Trx, Ages(t) PROVE UNCHANGED Promise!vars
    BY <2>2, AgesKeeps, QuietMapped
  <2>3. QED
    BY <2>1, <2>2, RequestMapped, TaskMapped DEF Next
<1>3. QED
  BY <1>1, <1>2, MoneyTheorem, InitMutex, MutexStep, FollowInit, FollowStep, PTL
     DEF Spec, Contract, Promise!Spec
=============================================================================
