-------------------------- MODULE TransferContract --------------------------
(***************************************************************************)
(* What a client is promised of one transfer to a bank, whatever rows,     *)
(* requests and tasks handle it.  The record follows the clearing house,   *)
(* however late: it skips what it missed, never runs ahead, never goes     *)
(* back, and never contradicts what is final.  The budget is debited once, *)
(* before the transfer is on record as accepted, and credited once, after  *)
(* it is on record that the money came back.                               *)
(***************************************************************************)
EXTENDS Naturals

CONSTANT Trx

VARIABLES
  clearing,   \* where the clearing house has it: none, refused or a stage
  recorded,   \* what is on record: none, failed or a stage
  debits, credits

vars == <<clearing, recorded, debits, credits>>

Stages == {"accepted", "pending", "settled", "final", "rejected", "returned"}

\* the next stages of one, and all that it may still get to
After(s) ==
  CASE s = "accepted" -> {"pending", "rejected"}
    [] s = "pending"  -> {"settled", "rejected"}
    [] s = "settled"  -> {"final", "returned"}
    [] OTHER          -> {}
Since(s) ==
  CASE s = "accepted" -> Stages
    [] s = "pending"  -> Stages \ {"accepted"}
    [] s = "settled"  -> {"settled", "final", "returned"}
    [] OTHER          -> {s}

Init ==
  /\ clearing = [t \in Trx |-> "none"]
  /\ recorded = [t \in Trx |-> "none"]
  /\ debits = [t \in Trx |-> 0] /\ credits = [t \in Trx |-> 0]

Send(t) ==
  /\ clearing[t] = "none" /\ recorded[t] = "none" /\ debits[t] = 0
  /\ \E answer \in {"refused", "accepted"} : clearing' = [clearing EXCEPT ![t] = answer]
  /\ UNCHANGED <<recorded, debits, credits>>

Clear(t) ==
  /\ \E s \in After(clearing[t]) : clearing' = [clearing EXCEPT ![t] = s]
  /\ UNCHANGED <<recorded, debits, credits>>

Debit(t) ==
  /\ clearing[t] \in Stages /\ recorded[t] = "none" /\ debits[t] = 0
  /\ debits' = [debits EXCEPT ![t] = 1]
  /\ UNCHANGED <<clearing, recorded, credits>>

Accept(t) ==
  /\ recorded[t] = "none" /\ debits[t] = 1
  /\ \E s \in {"accepted", "pending"} :
       clearing[t] \in Since(s) /\ recorded' = [recorded EXCEPT ![t] = s]
  /\ UNCHANGED <<clearing, debits, credits>>

\* On what is known: the clearing house may have taken it all the same.
Fail(t) ==
  /\ recorded[t] = "none" /\ debits[t] = 0
  /\ recorded' = [recorded EXCEPT ![t] = "failed"]
  /\ UNCHANGED <<clearing, debits, credits>>

Report(t) ==
  /\ recorded[t] \in Stages
  /\ \E s \in Since(recorded[t]) \ {recorded[t]} :
       clearing[t] \in Since(s) /\ recorded' = [recorded EXCEPT ![t] = s]
  /\ UNCHANGED <<clearing, debits, credits>>

Credit(t) ==
  /\ recorded[t] \in {"rejected", "returned"} /\ credits[t] = 0
  /\ credits' = [credits EXCEPT ![t] = 1]
  /\ UNCHANGED <<clearing, recorded, debits>>

Next ==
  \E t \in Trx :
    Send(t) \/ Clear(t) \/ Debit(t) \/ Accept(t) \/ Fail(t) \/ Report(t) \/ Credit(t)

Spec == Init /\ [][Next]_vars
=============================================================================
