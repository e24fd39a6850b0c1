---------------------------- MODULE DocLifecycle ----------------------------
(***************************************************************************)
(* What the people who work with documents rely on: a document is uploaded *)
(* or copied from a recurring one, processed or refused, allowed to be     *)
(* disbursed, handed to the bulk task once, or deleted before that.        *)
(* "disturbed" is where a document goes that two of its writers, or a      *)
(* crash, left in disorder: nothing is promised of it.                     *)
(***************************************************************************)
CONSTANT Docs

VARIABLE phase   \* per document

Phases == {"none", "uploaded", "refused", "processed", "allowed", "handed", "deleted",
           "disturbed"}

Init == phase = [d \in Docs |-> "none"]

Move(d, from, to) == phase[d] \in from /\ phase' = [phase EXCEPT ![d] = to]

Upload(d)  == Move(d, {"none"}, "uploaded")
Copy(d)    == Move(d, {"none"}, "allowed")
Process(d) == Move(d, {"uploaded"}, "processed")
Refuse(d)  == Move(d, {"uploaded", "processed"}, "refused")
Allow(d)   == Move(d, {"processed"}, "allowed")
Hand(d)    == Move(d, {"allowed"}, "handed")
Delete(d)  == Move(d, {"uploaded", "refused", "processed", "allowed"}, "deleted")
Disturb(d) == Move(d, Phases \ {"none"}, "disturbed")

Next == \E d \in Docs : \/ Upload(d) \/ Copy(d) \/ Process(d) \/ Refuse(d) \/ Allow(d)
                        \/ Hand(d) \/ Delete(d) \/ Disturb(d)

Spec == Init /\ [][Next]_phase
=============================================================================
