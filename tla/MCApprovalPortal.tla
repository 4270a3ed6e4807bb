--------------------------- MODULE MCApprovalPortal ---------------------------
(* Small instances of ApprovalPortal. *)
EXTENDS ApprovalPortal, TLC

Symmetry == {f @@ g : f \in Permutations(Lines), g \in Permutations(Links)}
==============================================================================
