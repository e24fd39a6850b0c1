---------------------------- MODULE SheetCharges ----------------------------
(***************************************************************************)
(* An uploaded sheet is checked once, as a whole: its rows, its total, and *)
(* the total with its fees against the budget.  What it costs is debited   *)
(* later, row by row as each is paid, or in batches by the provider's      *)
(* callback and the late inquiry.  Nothing is reserved in between, the fee *)
(* of a total is not the total of the fees, and no debit asks what was     *)
(* debited before.                                                         *)
(***************************************************************************)
EXTENDS Fees, FiniteSums, FiniteSets, Sequences

CONSTANTS
  Docs,
  Wallets, Cards,  \* e-wallet documents, bank card documents; the others are
                   \* bank wallet documents
  Spellings,       \* what a row may say for a recipient
  Recipient,       \* whom it means
  Ibans,           \* spellings that are IBANs
  Nobody,          \* whom an invalid one means
  Issuers,         \* of all kinds of documents
  Accepted,        \* per document: the issuers its processor knows
  Sheets,          \* per document: what may be uploaded, sequences of rows
  Tariffs,         \* functions from issuers to FeeSetup
  Balances,        \* what the budget may have to begin with
  MaxTotal,        \* the highest max_amount_can_be_disbursed of the levels
  \* bounds
  MaxList,         \* of the records a report lists as paid
  MaxApart         \* of what has been debited apart, before one more such debit

Row == [to : Spellings, amount : Int, issuer : Issuers]

ASSUME SheetAssumption ==
  /\ IsFiniteSet(Docs) /\ IsFiniteSet(Issuers)
  /\ Wallets \subseteq Docs /\ Cards \subseteq Docs /\ Wallets \cap Cards = {}
  /\ DOMAIN Recipient = Spellings
  /\ Ibans \subseteq Spellings
  /\ {"bank_wallet", "bank_card"} \subseteq Issuers
  /\ \A d \in Docs : Accepted[d] \subseteq Issuers /\ Sheets[d] \subseteq Seq(Row)
  /\ Tariffs \subseteq [Issuers -> FeeSetup]
  /\ Balances \subseteq Int /\ MaxTotal \in Nat /\ MaxList \in Nat

VARIABLES
  sheet, tariff,   \* what was uploaded, and the fees of the entity
  balance,
  status,          \* per document
  records,         \* per document: the rows saved for it
  \* history
  opening,         \* the balance to begin with
  quote, charged,  \* per document: what it was checked for, what it has cost
  open,            \* per document: the records that cost does not hold yet
  short,           \* per document: debited by the inquiry, in part at least
  apart            \* what was debited for records again, or of several documents

vars == <<sheet, tariff, balance, status, records, opening, quote, charged, open, short, apart>>

-----------------------------------------------------------------------------
(* process_and_validate_..._records *)

AmountOK(row) == row.amount >= 100

\* A plausible slip: recipients are compared as they are spelt.
DuplicateSpelling(d, s, i) ==
  Recipient[s[i].to] # Nobody /\ \E j \in 1..i-1 : s[j].to = s[i].to

\* The list holds what the rows before this one mean; for an IBAN of a card, its
\* digits are looked for among entries that keep the country code.
Duplicate(d, s, i) ==
  /\ Recipient[s[i].to] # Nobody
  /\ ~(d \in Cards /\ s[i].to \in Ibans)
  /\ \E j \in 1..i-1 : Recipient[s[j].to] = Recipient[s[i].to]

Flagged(d, s, i) ==
  \/ Recipient[s[i].to] = Nobody
  \/ Duplicate(d, s, i)
  \/ ~AmountOK(s[i])
  \/ s[i].issuer \notin Accepted[d]

Amount(s, I)  == Sum([i \in I |-> s[i].amount], I)
Of(s, issuer) == {i \in DOMAIN s : s[i].issuer = issuer}
Used(s)       == {u \in Issuers : Of(s, u) # {}}

\* A plausible slip: the number of transactions is not passed on.
QuoteOnce(d, s) ==
  IF d \in Wallets
  THEN Sum([u \in Used(s) |-> Cost(tariff[u], Amount(s, Of(s, u)), 1)], Used(s))
  ELSE Cost(tariff[IF d \in Cards THEN "bank_card" ELSE "bank_wallet"], Amount(s, DOMAIN s), 1)

\* validate_doc_total_amount_against_custom_budget, by issuer, or
\* within_threshold, for bank documents, as one transaction of one issuer
Quote(d, s) ==
  IF d \in Wallets
  THEN Sum([u \in Used(s) |-> Cost(tariff[u], Amount(s, Of(s, u)), Cardinality(Of(s, u)))], Used(s))
  ELSE Cost(tariff[IF d \in Cards THEN "bank_card" ELSE "bank_wallet"], Amount(s, DOMAIN s), 1)

Init ==
  /\ sheet \in {f \in [Docs -> UNION {Sheets[d] : d \in Docs}] : \A d \in Docs : f[d] \in Sheets[d]}
  /\ tariff \in Tariffs
  /\ balance \in Balances /\ opening = balance
  /\ status = [d \in Docs |-> "uploaded"]
  /\ records = [d \in Docs |-> <<>>]
  /\ open = [d \in Docs |-> {}]
  /\ quote = [d \in Docs |-> 0] /\ charged = [d \in Docs |-> 0] /\ short = [d \in Docs |-> FALSE]
  /\ apart = 0

Refuse(d) ==
  /\ status' = [status EXCEPT ![d] = "refused"]
  /\ UNCHANGED <<sheet, tariff, balance, records, opening, quote, charged, open, short, apart>>

\* A plausible slip: the bare total is compared with the budget.
AffordableBare(d, s) == Amount(s, DOMAIN s) <= balance

Affordable(d, s) == Quote(d, s) <= balance

\* A plausible slip: the rows of one issuer are left out.
SavedShort(s) == SelectSeq(s, LAMBDA row : row.issuer # "orange")

Saved(s) == s

\* The sheet processors' run(): errors, then the total, then the budget.
Process(d) ==
  LET s == sheet[d]
  IN /\ status[d] = "uploaded"
     /\ \/ /\ \/ \E i \in DOMAIN s : Flagged(d, s, i)
              \/ Amount(s, DOMAIN s) > MaxTotal
              \/ ~Affordable(d, s)
           /\ Refuse(d)
        \/ /\ \A i \in DOMAIN s : ~Flagged(d, s, i)
           /\ Amount(s, DOMAIN s) <= MaxTotal
           /\ Affordable(d, s)
           /\ status' = [status EXCEPT ![d] = "processed"]
           /\ records' = [records EXCEPT ![d] = Saved(s)]
           /\ open' = [open EXCEPT ![d] = DOMAIN Saved(s)]
           /\ quote' = [quote EXCEPT ![d] = Quote(d, s)]
           /\ UNCHANGED <<sheet, tariff, balance, opening, charged, short, apart>>

\* No record of a list was debited before, or is in it twice or of another
\* document than d.
First(d, L) ==
  /\ \A k \in DOMAIN L : L[k][1] = d /\ L[k][2] \in open[d]
  /\ \A k, l \in DOMAIN L : L[k] = L[l] => k = l

\* The code debits the list without asking for any of that, which only the history
\* tells apart.
Debit(L, cost) ==
  /\ balance' = balance - cost
  /\ \/ \E d \in Docs :
          /\ First(d, L)
          /\ charged' = [charged EXCEPT ![d] = @ + cost]
          /\ open' = [open EXCEPT ![d] = @ \ {L[k][2] : k \in DOMAIN L}]
          /\ UNCHANGED apart
     \/ /\ \A d \in Docs : ~First(d, L)
        /\ apart <= MaxApart
        /\ apart' = apart + cost
        /\ UNCHANGED <<charged, open>>
  /\ UNCHANGED <<sheet, tariff, status, records, opening, quote>>

\* A record is paid, by the bulk task or its second delivery: a bank transfer is
\* sent, or the wallet's answer is a success.
Charge(d, i) ==
  LET row == records[d][i]
  IN /\ Debit(<< <<d, i>> >>, Cost(tariff[row.issuer], row.amount, 1))
     /\ UNCHANGED short

\* What a report may list as paid: Vodafone records of e-wallet documents, as the
\* provider was sent them; any of them, and any of them again.
Vodafone == UNION {{d} \X {i \in DOMAIN records[d] : records[d][i].issuer = "vodafone"} : d \in Wallets}
Lists    == UNION {[1..n -> Vodafone] : n \in 1..MaxList}

\* the running total
Total(L) == Sum([k \in DOMAIN L |-> records[L[k][1]][L[k][2]].amount], DOMAIN L)

\* A plausible slip: the callback charges for one transaction, like the inquiry.
ChargeCallbackOnce(L) ==
  /\ Debit(L, Cost(tariff["vodafone"], Total(L), 1))
  /\ UNCHANGED short

\* DisburseCallBack.update
ChargeCallback(L) ==
  /\ Debit(L, Cost(tariff["vodafone"], Total(L), Len(L)))
  /\ UNCHANGED short

\* check_for_late_disbursement_callback: a batch is one transaction
ChargeInquiry(L) ==
  /\ Debit(L, Cost(tariff["vodafone"], Total(L), 1))
  /\ short' = [d \in Docs |-> short[d] \/ First(d, L)]

Next ==
  \/ \E d \in Docs :
       \/ Process(d)
       \/ \E i \in DOMAIN records[d] : Charge(d, i)
  \/ \E L \in Lists : ChargeCallback(L) \/ ChargeInquiry(L)

Spec == Init /\ [][Next]_vars

-----------------------------------------------------------------------------
(* Properties *)

\* Shapes; and the records of a document are the rows of its sheet.
TypeOK ==
  /\ balance \in Int
  /\ status \in [Docs -> {"uploaded", "refused", "processed"}]
  /\ \A d \in Docs :
       /\ records[d] = IF status[d] = "processed" THEN sheet[d] ELSE <<>>
       /\ open[d] \subseteq DOMAIN records[d]
       /\ quote[d] \in Nat /\ charged[d] \in Nat /\ short[d] \in BOOLEAN
  /\ apart \in Nat

\* No recipient is twice among the records of a document, however its number or
\* account is written, but for IBANs, of which the check finds none.
RecipientsOnce ==
  \A d \in Docs : \A i, j \in DOMAIN records[d] :
    /\ Recipient[records[d][i].to] # Nobody
    /\ i # j /\ Recipient[records[d][i].to] = Recipient[records[d][j].to] =>
         d \in Cards /\ {records[d][i].to, records[d][j].to} \cap Ibans # {}

\* The issuer whose fees the quote of a document has for a row.
QuotedAs(d, row) ==
  IF d \in Wallets THEN row.issuer ELSE IF d \in Cards THEN "bank_card" ELSE "bank_wallet"
QuotedAlike(d) == \A i \in DOMAIN records[d] :
                    tariff[QuotedAs(d, records[d][i])] = tariff[records[d][i].issuer]

\* a fee with its VAT, rounded up
Gross(fee) == fee + (14 * fee + 99) \div 100
Largest(S) == CHOOSE x \in S : \A y \in S : y <= x

\* What a quote may have too little for one more record: the fixed part, unless
\* it was counted, or a limit that was applied to the total only.
Flat(d, s) == Largest({s.min, s.max, IF s.type = "percentage" \/ (s.type = "fixed" /\ d \in Wallets)
                                     THEN 0 ELSE s.fixed})
Slack(d) == Sum([i \in DOMAIN records[d] |-> 1 + Gross(Flat(d, tariff[records[d][i].issuer]))],
                DOMAIN records[d])

\* The debits that cover each record of a document once cost no more than what the
\* budget was checked for but a flat fee and a rounding for every record; and, once
\* they cover all of it and the inquiry made none of them, no less but for the
\* rounding.  What is debited for a record again is apart from that.  (A bank
\* document without a row is quoted the fees of a transaction of nothing.)
ChargedAsQuoted ==
  \A d \in Docs :
    status[d] = "processed" /\ QuotedAlike(d) =>
      /\ charged[d] <= quote[d] + Slack(d)
      /\ records[d] # <<>> /\ open[d] = {} /\ ~short[d] => charged[d] >= quote[d] - Len(records[d])

Processed == {d \in Docs : status[d] = "processed"}

\* The budget falls below zero by no more than the quotes of all documents but
\* one, whichever that is, which were checked against the same money, what the
\* quotes lack, and what was debited for records again, or for several documents at
\* once, by a report that came again, a report and an inquiry, or a second bulk task.
OverdraftExplained ==
  (\A d \in Processed : QuotedAlike(d)) =>
    \A d \in Processed :
      balance >= -(Slack(d) + Sum([e \in Processed \ {d} |-> quote[e] + Slack(e)], Processed \ {d}) + apart)
=============================================================================
