----------------------------- MODULE FiniteSums -----------------------------
(* The sum of a function over a finite set of its arguments. *)
EXTENDS FiniteSetsExt

Sum(f, I) == MapThenSumSet(LAMBDA i : f[i], I)
=============================================================================
