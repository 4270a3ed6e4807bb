------------------------------ MODULE MCProgress ------------------------------
(* Progress on the instances of MCJobLifecycle.                                *)
EXTENDS Progress, MCJobLifecycle
==============================================================================
