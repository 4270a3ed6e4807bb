-------------------------- MODULE JobStatusMachine --------------------------
(***************************************************************************)
(* What a job's status promises to its readers, whatever endpoint moves    *)
(* it: a job is born booked, moves only along legal moves, and is never    *)
(* moved again once it is closed or a no-show.                             *)
(***************************************************************************)
EXTENDS JobStates

CONSTANT Jobs

VARIABLE status

Init == status = [j \in Jobs |-> "none"]

Book(j) ==
  /\ status[j] = "none"
  /\ status' = [status EXCEPT ![j] = "booked"]

Move(j, to) ==
  /\ status[j] \in Statuses
  /\ LegalMove(status[j], to)
  /\ status' = [status EXCEPT ![j] = to]

Next ==
  \E j \in Jobs : Book(j) \/ \E to \in Statuses : Move(j, to)

Spec == Init /\ [][Next]_status
==============================================================================
