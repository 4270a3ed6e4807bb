--------------------------- MODULE MCJobLifecycle ---------------------------
(***************************************************************************)
(* Small instances of JobLifecycle: which endpoints are exercised together *)
(* and which PATCH bodies are sent.                                        *)
(***************************************************************************)
EXTENDS JobLifecycle, TLC

Body(s, l, g, p) == [status |-> s, lane |-> l, stage |-> g, parts |-> p]

\* A status sent through PATCH, a closed job dragged back to a lane, and a drag
\* to the handover lane that also carries a status.
BoardPatches ==
  {Body("closed", Keep, Keep, Keep), Body(Keep, "in_progress", Keep, Keep),
   Body("approved", Keep, "ready_handover", Keep)}

\* The parts desk reports that the parts have arrived.
PartsPatches == {Body(Keep, Keep, Keep, "parts_ready")}

NoPatches == {}

\* All that moves, stamps or deletes a job.
Movers == AllOps \ {"assign"}

\* The handlers that stamp completed_at, invoiced_at or archived_at on what they
\* read, the customer's, and one that writes beside them.
Stampers ==
  {"import", "transition", "qc", "archive", "nightlyArchive", "link", "decide", "assign"}

OneAtATime == AllOps \ {"noShow", "abort", "import"}

TwoTransitions == {"create", "transition"}
Reopeners == {"create", "transition", "patch"}

Symmetry == Permutations(Reqs)
==============================================================================
