------------------------- MODULE MCBulkDisbursement -------------------------
(* A wallet document and a bank wallet document, with a record each, for the    *)
(* books; or with one for each round, for the flags.                            *)
EXTENDS BulkDisbursement, TLC

CONSTANTS wallets, deposits, w1, w2, b1

MCDocOf == [r \in Records |-> IF r = b1 THEN deposits ELSE wallets]
MCSymmetry == Permutations(Runs) \cup Permutations(Callbacks)
=============================================================================
