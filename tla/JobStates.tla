------------------------------ MODULE JobStates ------------------------------
(***************************************************************************)
(* The job states of jobs.state-machine.ts and the moves its table allows. *)
(***************************************************************************)

Statuses ==
  {"booked", "checking", "estimate_sent", "approved", "in_progress",
   "waiting_parts", "quality_check", "ready", "closed", "no_show"}

Transitions ==
  [booked        |-> {"checking", "closed", "no_show"},
   checking      |-> {"estimate_sent", "approved", "in_progress", "closed"},
   estimate_sent |-> {"checking", "approved", "closed"},
   approved      |-> {"estimate_sent", "in_progress", "closed"},
   in_progress   |-> {"waiting_parts", "quality_check", "ready", "closed"},
   waiting_parts |-> {"in_progress", "closed"},
   quality_check |-> {"in_progress", "ready"},
   ready         |-> {"quality_check", "closed"},
   closed        |-> {},
   no_show       |-> {}]

CanTransition(from, to) == from # to /\ to \in Transitions[from]

\* No status has a way out of these in the table.
Terminal == {"closed", "no_show"}

(***************************************************************************)
(* The moves the endpoints make on top of the table: starting a QC         *)
(* checklist pulls a waiting_parts job into quality_check, a new approval  *)
(* link puts any open job back to estimate_sent, and a portal answer puts  *)
(* any open job to approved.                                               *)
(***************************************************************************)
ForcedMove(from, to) ==
  \/ from = "waiting_parts" /\ to = "quality_check"
  \/ from \notin Terminal /\ to \in {"estimate_sent", "approved"}

LegalMove(from, to) == CanTransition(from, to) \/ ForcedMove(from, to)
==============================================================================
