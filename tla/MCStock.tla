------------------------------- MODULE MCStock -------------------------------
(* Small instances of StockRequests. *)
EXTENDS StockRequests, TLC

CONSTANTS o1, i1, i2

BothOfOne == i1 :> o1 @@ i2 :> o1

SignedAmounts == Needs \cup {-1}

Symmetry ==
  {f @@ g @@ h : f \in Permutations(Parts), g \in Permutations(Warehouses),
                 h \in Permutations(Items)}
==============================================================================
