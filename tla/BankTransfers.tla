---------------------------- MODULE BankTransfers ----------------------------
(***************************************************************************)
(* Transfers over the automated clearing house (EBC): to a bank card as a  *)
(* BankTransaction, to a bank wallet as a BankTransaction and the          *)
(* InstantTransaction the client looks at.  The request creates the rows,  *)
(* sends the transfer and debits what EBC accepts; periodic tasks ask EBC  *)
(* for the status of what is pending or not finally settled, put each      *)
(* change on record as a new row of the same parent, and credit back what  *)
(* the bank rejects or returns.                                            *)
(*                                                                         *)
(* Every create, mark and save commits by itself.  A task excludes the     *)
(* others by looking at the tasks that are active on its worker.           *)
(***************************************************************************)
EXTENDS Naturals, FiniteSets

CONSTANTS
  Trx,          \* the transfers clients make
  Wallets,      \* those to a bank wallet: they have an instant row too
  Refs, NoRef,  \* the client_reference_ids in use; a request may have none
  Tasks,        \* deliveries of the periodic status tasks, of either kind
  Window,       \* per task: how old a newest row may be for it to ask about
  PageSize,     \* rows to a page of a run: 500 in the code
  NoTrx,        \* no transfer in hand
  Aging,        \* TLC bound: transfers whose rows may outlive a window
  MaxFaults     \* TLC bound: processes that die

ASSUME TransferAssumption ==
  /\ IsFiniteSet(Trx)
  /\ Wallets \subseteq Trx /\ Aging \subseteq Trx /\ NoTrx \notin Trx
  /\ PageSize \in Nat \ {0}
  /\ Window \in [Tasks -> Nat]
  /\ MaxFaults \in Nat

VARIABLES
  req,      \* per transfer: where its request is
  ref,      \* per transfer: its client_transaction_reference
  latest,   \* per transfer: status and code of the newest row of its parent
  older,    \* per transfer: those whose newest row is older than its own
  age,      \* per transfer: how many windows its newest row has outlived
  instant,  \* per transfer: status of its instant row
  ebc,      \* per transfer: its status code at EBC
  task,     \* per task: its step, what is left of its page, what it holds
  faults,
  \* history
  debits, credits,  \* per transfer: how often the budget was changed
  crossed,  \* a task recorded a change before the request marked the instant row
  cut       \* a task died between a new status and the saves that follow it

books == <<debits, credits, crossed, cut>>
vars  == <<req, ref, latest, older, age, instant, ebc, task, faults, books>>

Row(status, code) == [status |-> status, code |-> code]
NoRow == Row("none", "none")

\* what EBC says once the bank has it: TRX_REJECTED_BY_BANK_CODES and
\* TRX_RETURNED_BY_BANK_CODES have one member here each
Rejected == "000001"
Returned == "000100"
Back     == {Rejected, Returned}
Expected == {"8111", "8222", "8333"} \cup Back

StatusOf(code) ==
  CASE code = "8111"              -> "pending"
    [] code \in {"8222", "8333"}  -> "successful"
    [] code = Rejected            -> "rejected"
    [] code = Returned            -> "returned"

InstantOf(status) == IF status \in {"pending", "successful"} THEN status ELSE "failed"

\* a task's step, its number of pages and the next one, the rows of the page still
\* to be asked about as they were loaded, the transfer it holds and EBC's answer
At(pc, pages, next, todo, at, answer) ==
  [pc |-> pc, pages |-> pages, next |-> next, todo |-> todo, at |-> at, answer |-> answer]
Idle == At("idle", 0, 0, {}, NoTrx, "none")
Hold(k, pc, t, answer) ==
  [task EXCEPT ![k].pc = pc, ![k].at = t, ![k].answer = answer]

Init ==
  /\ req = [t \in Trx |-> "idle"]
  /\ ref = [t \in Trx |-> NoRef]
  /\ latest = [t \in Trx |-> NoRow]
  /\ older = [t \in Trx |-> {}]
  /\ age = [t \in Trx |-> 0]
  /\ instant = [t \in Trx |-> "none"]
  /\ ebc = [t \in Trx |-> "none"]
  /\ task = [k \in Tasks |-> Idle]
  /\ faults = 0
  /\ debits = [t \in Trx |-> 0] /\ credits = [t \in Trx |-> 0]
  /\ crossed = [t \in Trx |-> FALSE] /\ cut = [t \in Trx |-> FALSE]

-----------------------------------------------------------------------------
(* The request *)

Go(t, pc) == req' = [req EXCEPT ![t] = pc]

\* The serializer looks for the reference among the bank transactions.
Validate(t) ==
  /\ req[t] = "idle"
  /\ \E c \in Refs \cup {NoRef} :
       IF c # NoRef /\ \E u \in Trx : latest[u] # NoRow /\ ref[u] = c
         THEN Go(t, "rejected") /\ UNCHANGED ref
         ELSE Go(t, "validated") /\ ref' = [ref EXCEPT ![t] = c]
  /\ UNCHANGED <<latest, older, age, instant, ebc, task, faults, books>>

\* The instant row of a wallet; its reference column is unique.
CreateInstant(t) ==
  /\ req[t] = "validated" /\ t \in Wallets
  /\ IF ref[t] # NoRef /\ \E u \in Wallets : instant[u] # "none" /\ ref[u] = ref[t]
       THEN Go(t, "rejected") /\ UNCHANGED instant
       ELSE Go(t, "instant") /\ instant' = [instant EXCEPT ![t] = "default"]
  /\ UNCHANGED <<ref, latest, older, age, ebc, task, faults, books>>

\* a new row of the transfer's parent: it is newer than all there are
NewRow(t, row) ==
  /\ latest' = [latest EXCEPT ![t] = row]
  /\ age' = [age EXCEPT ![t] = 0]
  /\ older' = [u \in Trx |-> IF u = t THEN {v \in Trx \ {t} : latest[v] # NoRow} ELSE older[u] \ {t}]

\* The bank row, whose reference column is not.
CreateBank(t) ==
  /\ req[t] = IF t \in Wallets THEN "instant" ELSE "validated"
  /\ NewRow(t, Row("default", "none"))
  /\ Go(t, "created")
  /\ UNCHANGED <<ref, instant, ebc, task, faults, books>>

\* The payload leaves; EBC takes it or refuses it, or never gets it.
Send(t) ==
  /\ req[t] = "created"
  /\ \E code \in {"none", "refused", "8000"} : ebc' = [ebc EXCEPT ![t] = code]
  /\ Go(t, "sent")
  /\ UNCHANGED <<ref, latest, older, age, instant, task, faults, books>>

\* Response code 8000 or 8111: the budget is debited first ...
DebitAccepted(t) ==
  /\ req[t] = "sent" /\ ebc[t] \notin {"none", "refused"}
  /\ debits' = [debits EXCEPT ![t] = @ + 1]
  /\ Go(t, "debited")
  /\ UNCHANGED <<ref, latest, older, age, instant, ebc, task, faults, credits, crossed, cut>>

\* ... then the bank row is marked, with the code of the response ...
MarkPending(t) ==
  /\ req[t] = "debited"
  /\ \E code \in IF ebc[t] = "8000" THEN {"8000"} ELSE {"8000", "8111"} :
       latest' = [latest EXCEPT ![t] = Row("pending", code)]
  /\ Go(t, "marked")
  /\ UNCHANGED <<ref, older, age, instant, ebc, task, faults, books>>

SyncInstant(t, status) ==
  instant' = IF t \in Wallets THEN [instant EXCEPT ![t] = status] ELSE instant

\* ... then the instant row, whatever has become of the transfer since.
SyncPending(t) ==
  /\ req[t] = "marked"
  /\ SyncInstant(t, "pending")
  /\ Go(t, "done")
  /\ UNCHANGED <<ref, latest, older, age, ebc, task, faults, books>>

\* Any other response code, and any exception: no connection, a timeout, an
\* answer that is no JSON, whether EBC took the transfer or not.
MarkFailed(t) ==
  /\ req[t] = "sent"
  /\ \E code \in {"424", "500", "8002"} :
       /\ code # "424" => ebc[t] = "refused"
       /\ latest' = [latest EXCEPT ![t] = Row("failed", code)]
  /\ Go(t, "failing")
  /\ UNCHANGED <<ref, older, age, instant, ebc, task, faults, books>>

\* A plausible slip: only the bank row is failed.
SyncFailedBankOnly(t) ==
  /\ req[t] = "failing"
  /\ Go(t, "done")
  /\ UNCHANGED <<ref, latest, older, age, instant, ebc, task, faults, books>>

SyncFailed(t) ==
  /\ req[t] = "failing"
  /\ SyncInstant(t, "failed")
  /\ Go(t, "done")
  /\ UNCHANGED <<ref, latest, older, age, ebc, task, faults, books>>

\* The worker dies with the request, or the debit raises.
RequestDies(t) ==
  /\ req[t] \notin {"idle", "rejected", "done", "dead"}
  /\ faults < MaxFaults
  /\ faults' = faults + 1
  /\ Go(t, "dead")
  /\ UNCHANGED <<ref, latest, older, age, instant, ebc, task, books>>

Request(t) ==
  \/ Validate(t) \/ CreateInstant(t) \/ CreateBank(t) \/ Send(t)
  \/ DebitAccepted(t) \/ MarkPending(t) \/ SyncPending(t)
  \/ MarkFailed(t) \/ SyncFailed(t) \/ RequestDies(t)

-----------------------------------------------------------------------------
(* EBC and the bank *)

Moves == {<<"8000", "8111">>, <<"8111", "8222">>, <<"8222", "8333">>,
          <<"8000", Rejected>>, <<"8111", Rejected>>, <<"8222", Returned>>}

Clears(t) ==
  /\ \E move \in Moves : move[1] = ebc[t] /\ ebc' = [ebc EXCEPT ![t] = move[2]]
  /\ UNCHANGED <<req, ref, latest, older, age, instant, task, faults, books>>

-----------------------------------------------------------------------------
(* The status tasks *)

\* A plausible slip: whatever was sent and is not settled is asked about.
OpenUnsettled(t) == latest[t].status \notin {"none", "default"} /\ latest[t].code # "8333"

\* pending or successful, and not settled for good
Open(t) == latest[t].status \in {"pending", "successful"} /\ latest[t].code # "8333"

\* Days pass, and the newest row of a transfer that is still asked about is too
\* old for one kind of task, and later for the other.
Ages(t) ==
  /\ t \in Aging /\ Open(t) /\ \E k \in Tasks : age[t] < Window[k]
  /\ age' = [age EXCEPT ![t] = @ + 1]
  /\ UNCHANGED <<req, ref, latest, older, instant, ebc, task, faults, books>>

quiet == <<req, ref, latest, older, age, instant, ebc, faults, books>>

\* The worker takes the task up; from here on it is active.
Wake(k) ==
  /\ task[k].pc = "idle"
  /\ task' = [task EXCEPT ![k].pc = "active"]
  /\ UNCHANGED quiet

\* A plausible slip: off by one, as if the task did not find itself active.
EnterBesideOne(k) ==
  /\ task[k].pc = "active"
  /\ Cardinality({j \in Tasks : task[j].pc # "idle"}) <= 2
  /\ task' = [task EXCEPT ![k].pc = "counting"]
  /\ UNCHANGED quiet

\* EBC is up and no other task of either kind is active.
Enter(k) ==
  /\ task[k].pc = "active"
  /\ \A j \in Tasks \ {k} : task[j].pc = "idle"
  /\ task' = [task EXCEPT ![k].pc = "counting"]
  /\ UNCHANGED quiet

\* EBC is down, nobody answers the inspection, or another task is active.
GiveUp(k) ==
  /\ task[k].pc = "active"
  /\ task' = [task EXCEPT ![k] = Idle]
  /\ UNCHANGED quiet

\* the query of a task, whose rows come oldest first: the transfers it finds,
\* and how many of them come before one
Latest(k) == {t \in Trx : Open(t) /\ age[t] < Window[k]}
Before(k, t) == Cardinality(older[t] \cap Latest(k))

\* The paginator counts once ...
Count(k) ==
  /\ task[k].pc = "counting"
  /\ task' = [task EXCEPT ![k].pc = "paging", ![k].next = 1,
                          ![k].pages = (Cardinality(Latest(k)) + PageSize - 1) \div PageSize]
  /\ UNCHANGED quiet

\* A plausible slip: the pages are counted from zero.
PageFromZero(k) ==
  /\ task[k].pc = "paging"
  /\ task' =
       IF task[k].next > task[k].pages
         THEN [task EXCEPT ![k] = Idle]
         ELSE [task EXCEPT ![k].pc = "asking", ![k].next = @ + 1,
                 ![k].todo = {[trx |-> t, row |-> latest[t]] :
                              t \in {u \in Latest(k) : Before(k, u) \div PageSize = task[k].next}}]
  /\ UNCHANGED quiet

\* ... and evaluates the query anew for every page.
Page(k) ==
  /\ task[k].pc = "paging"
  /\ task' =
       IF task[k].next > task[k].pages
         THEN [task EXCEPT ![k] = Idle]
         ELSE [task EXCEPT ![k].pc = "asking", ![k].next = @ + 1,
                 ![k].todo = {[trx |-> t, row |-> latest[t]] :
                              t \in {u \in Latest(k) : Before(k, u) \div PageSize = task[k].next - 1}}]
  /\ UNCHANGED quiet

\* the page is through
NextPage(k) ==
  /\ task[k].pc = "asking" /\ task[k].todo = {}
  /\ task' = [task EXCEPT ![k].pc = "paging"]
  /\ UNCHANGED quiet

\* EBC answers about the first of the loaded rows.  An answer that is known or
\* not expected changes nothing; otherwise a copy of the row becomes the newest.
Ask(k, e) ==
  LET rest == [task EXCEPT ![k].todo = @ \ {e}]
  IN /\ task[k].pc = "asking"
     /\ e \in task[k].todo /\ \A f \in task[k].todo : f.trx \notin older[e.trx]
     /\ IF ebc[e.trx] = e.row.code \/ ebc[e.trx] \notin Expected
          THEN task' = rest /\ UNCHANGED <<latest, older, age, crossed>>
          ELSE /\ task' = [rest EXCEPT ![k].pc = "marking", ![k].at = e.trx, ![k].answer = ebc[e.trx]]
               /\ NewRow(e.trx, e.row)
               /\ crossed' = [crossed EXCEPT ![e.trx] = @ \/ req[e.trx] = "marked"]
     /\ UNCHANGED <<req, ref, instant, ebc, faults, debits, credits, cut>>

\* The inquiry raises, or the client's callback does.  The handler raises in
\* its turn (transatcion_id), and the run ends where it is.
Raises(k) ==
  /\ task[k].pc = "callback" \/ (task[k].pc = "asking" /\ task[k].todo # {})
  /\ task' = [task EXCEPT ![k] = Idle]
  /\ UNCHANGED quiet

\* mark_pending, mark_successful, mark_rejected or mark_returned on the copy
MarkCopy(k) ==
  /\ task[k].pc = "marking"
  /\ latest' = [latest EXCEPT ![task[k].at] = Row(StatusOf(task[k].answer), task[k].answer)]
  /\ task' = [task EXCEPT ![k].pc = "syncing"]
  /\ UNCHANGED <<req, ref, older, age, instant, ebc, faults, books>>

\* A plausible slip: what is returned after its settlement is not credited.
SyncRejectedOnly(k) ==
  /\ task[k].pc = "syncing"
  /\ SyncInstant(task[k].at, InstantOf(StatusOf(task[k].answer)))
  /\ task' = [task EXCEPT ![k].pc = IF task[k].answer = Rejected THEN "crediting" ELSE "callback"]
  /\ UNCHANGED <<req, ref, latest, older, age, ebc, faults, books>>

\* the instant row follows
Sync(k) ==
  /\ task[k].pc = "syncing"
  /\ SyncInstant(task[k].at, InstantOf(StatusOf(task[k].answer)))
  /\ task' = [task EXCEPT ![k].pc = IF task[k].answer \in Back THEN "crediting" ELSE "callback"]
  /\ UNCHANGED <<req, ref, latest, older, age, ebc, faults, books>>

\* return_disbursed_amount_for_cancelled_trx, and the saves of the balances: the
\* instant row is saved whole once more, as failed as Sync left it.
Credit(k) ==
  /\ task[k].pc = "crediting"
  /\ credits' = [credits EXCEPT ![task[k].at] = @ + 1]
  /\ SyncInstant(task[k].at, "failed")
  /\ task' = [task EXCEPT ![k].pc = "callback"]
  /\ UNCHANGED <<req, ref, latest, older, age, ebc, faults, debits, crossed, cut>>

\* A plausible slip: the row in hand is not let go.
CallbackKeepsHold(k) ==
  /\ task[k].pc = "callback"
  /\ task' = [task EXCEPT ![k].pc = "asking"]
  /\ UNCHANGED quiet

\* The client, if it has a callback URL, is told and answers.
Callback(k) ==
  /\ task[k].pc = "callback"
  /\ task' = Hold(k, "asking", NoTrx, "none")
  /\ UNCHANGED quiet

\* The worker dies, or one of the saves raises.
TaskDies(k) ==
  /\ task[k].pc \notin {"idle", "active"}
  /\ faults < MaxFaults
  /\ faults' = faults + 1
  /\ cut' = [t \in Trx |-> cut[t] \/ (t = task[k].at /\ task[k].pc \in {"syncing", "crediting"})]
  /\ task' = [task EXCEPT ![k] = Idle]
  /\ UNCHANGED <<req, ref, latest, older, age, instant, ebc, debits, credits, crossed>>

StatusTask(k) ==
  \/ Wake(k) \/ Enter(k) \/ GiveUp(k) \/ Count(k) \/ Page(k) \/ NextPage(k)
  \/ (\E e \in task[k].todo : Ask(k, e)) \/ Raises(k) \/ MarkCopy(k) \/ Sync(k) \/ Credit(k) \/ Callback(k) \/ TaskDies(k)

Next ==
  \/ \E t \in Trx : Request(t) \/ Clears(t) \/ Ages(t)
  \/ \E k \in Tasks : StatusTask(k)

Spec == Init /\ [][Next]_vars

\* A worker that runs a task goes on with what is the task's alone. Nothing is
\* assumed of who is woken and finds others active, of EBC, of the clients that
\* are called back, nor of what raises.
Works(k) == Count(k) \/ Page(k) \/ NextPage(k) \/ MarkCopy(k) \/ Sync(k) \/ Credit(k)
FairSpec == Spec /\ \A k \in Tasks : WF_vars(Works(k))

\* a run that asks about rows up to the age w comes to the end of its pages
Completes(w) ==
  \E k \in Tasks : Window[k] >= w /\ task[k].next > task[k].pages /\ Page(k)

-----------------------------------------------------------------------------
(* Properties *)

Statuses == {"none", "default", "pending", "successful", "failed", "rejected", "returned"}
Codes == {"none", "424", "500", "8002", "8000"} \cup Expected

RowStates == [status : Statuses, code : Codes]
TaskStates ==
  [pc : {"idle", "active", "counting", "paging", "asking", "marking", "syncing", "crediting", "callback"},
   pages : Nat, next : Nat, todo : SUBSET [trx : Trx, row : RowStates],
   at : Trx \cup {NoTrx}, answer : Codes]

RequestsOK ==
  /\ req \in [Trx -> {"idle", "validated", "instant", "created", "sent", "debited", "marked",
                      "failing", "rejected", "done", "dead"}]
  /\ ref \in [Trx -> Refs \cup {NoRef}]
RowsOK ==
  /\ latest \in [Trx -> RowStates] /\ older \in [Trx -> SUBSET Trx]
  /\ age \in [Trx -> Nat]
  /\ instant \in [Trx -> Statuses]
  /\ ebc \in [Trx -> {"none", "refused", "8000"} \cup Expected]
BooksOK ==
  /\ faults \in 0..MaxFaults
  /\ debits \in [Trx -> Nat] /\ credits \in [Trx -> Nat]
  /\ crossed \in [Trx -> BOOLEAN] /\ cut \in [Trx -> BOOLEAN]
TaskOK(s) ==
  /\ s.at \in Trx <=> s.pc \in {"marking", "syncing", "crediting", "callback"}
  /\ s.at \in Trx => s.answer \in Expected
TasksOK == task \in [Tasks -> TaskStates] /\ \A k \in Tasks : TaskOK(task[k])

\* Shapes of rows, requests and tasks; a task has a transfer in hand exactly
\* between the copy of its row and the end of the client's callback, and with
\* it an answer that was expected.
TypeOK == RequestsOK /\ RowsOK /\ BooksOK /\ TasksOK

Running == {k \in Tasks : task[k].pc \notin {"idle", "active"}}

\* The inspection of the active tasks is a mutual exclusion: of all deliveries
\* of both kinds of task at most one is past it.
OneStatusRun == \A j, k \in Running : j = k

\* A transfer is debited once at most, and never credited more often than it
\* was debited: not by two tasks, nor by a run after one that died.
CreditedWithinDebit == \A t \in Trx : credits[t] <= debits[t] /\ debits[t] <= 1

\* What the bank rejected or returned, and nothing else, is credited back; the
\* credit is only missing while a task is about to make it, or for good when
\* the task died between the two.
BackIsCredited ==
  \A t \in Trx :
    /\ credits[t] > 0 => ebc[t] \in Back /\ latest[t].status \in {"rejected", "returned"}
    /\ latest[t].status \in {"rejected", "returned"} /\ credits[t] = 0
         => cut[t] \/ \E k \in Tasks : task[k].at = t /\ task[k].pc \in {"syncing", "crediting"}

\* Once the request is through and no task has the transfer in hand, the
\* instant row the client sees agrees with the newest bank row, unless a task
\* overtook the request's last save or died before its own.
InstantFollows ==
  \A t \in Wallets :
    req[t] = "done" /\ ~crossed[t] /\ ~cut[t] /\ (\A k \in Tasks : task[k].at # t)
      => instant[t] = InstantOf(latest[t].status)

\* What the contract calls a code of EBC, and the newest row of a transfer.
StageOf(code) ==
  CASE code = "8000"   -> "accepted"
    [] code = "8111"   -> "pending"
    [] code = "8222"   -> "settled"
    [] code = "8333"   -> "final"
    [] code = Rejected -> "rejected"
    [] code = Returned -> "returned"
    [] OTHER           -> code
Recorded(row) ==
  CASE row.status \in {"none", "default"}        -> "none"
    [] row.status \in {"pending", "successful"}  -> StageOf(row.code)
    [] OTHER                                     -> row.status

Promise == INSTANCE TransferContract WITH
             clearing <- [t \in Trx |-> StageOf(ebc[t])],
             recorded <- [t \in Trx |-> Recorded(latest[t])]

\* A transfer is what its client was promised: its record follows EBC and never
\* goes back, over requests and tasks that overtake each other, answers that are
\* out of date when they are saved, rows that were loaded pages ago, and deaths.
Contract == Promise!Spec

\* Failed, rejected, returned and finally settled transfers get no newer row.
FinalRowKept ==
  [][\A t \in Trx :
       latest[t].status \in {"failed", "rejected", "returned"} \/ latest[t].code = "8333"
         => latest'[t] = latest[t]]_vars

\* A transfer that is on record as pending or in its first settlement and that
\* EBC has settled, rejected or had returned gets that status on record, or its
\* row outlives the window first, provided that runs with that window come to
\* their end again and again, whatever others give up or are aborted: the pages
\* that shift under a run, the rows that are passed over and the deaths are not
\* enough to leave it out for ever.
AcceptedIsSettled ==
  \A w \in {Window[k] : k \in Tasks} :
    []<><<Completes(w)>>_vars =>
      \A t \in Trx :
        (Open(t) /\ ebc[t] \in {"8333"} \cup Back) ~> (latest[t].code = ebc[t] \/ age[t] >= w)
=============================================================================
