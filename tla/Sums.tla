---------------------------------- MODULE Sums ----------------------------------
(* What the analysis scripts write as sum(f(x) for x in ...): over a finite set, so *)
(* that what it counts is named and its order does not matter.                      *)
EXTENDS Integers, FiniteSetsExt

SumOver(R, f) == FoldSet(LAMBDA r, t : f[r] + t, 0, R)
===============================================================================
