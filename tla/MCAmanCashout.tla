--------------------------- MODULE MCAmanCashout ---------------------------
(* A record the bulk task handles twice, and an instant transaction. *)
EXTENDS AmanCashout, TLC

CONSTANTS r1, i1, k1, k2, k3

MCRecordOf == k1 :> r1 @@ k2 :> r1 @@ k3 :> i1

MCSymmetry == Permutations({k1, k2}) \cup Permutations(Cancels) \cup Permutations(Notices)
=============================================================================
