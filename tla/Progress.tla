------------------------------- MODULE Progress -------------------------------
(* What must eventually happen: a stored verdict moves its job, and a queued   *)
(* notification leaves the queue.  The jobs and the delivery of notifications  *)
(* rest on no column in common, so here, as in Services, one of them runs and  *)
(* the other rests, each with the fairness of its own specification.           *)
EXTENDS JobLifecycle, NotificationDelivery

VARIABLE running

progressVars == <<running, vars, deliveryVars>>

ProgressInit == running \in {"jobs", "delivery"} /\ Init /\ DeliveryInit

ProgressNext ==
  \/ running = "jobs" /\ Next /\ UNCHANGED <<running, deliveryVars>>
  \/ running = "delivery" /\ DeliveryNext /\ UNCHANGED <<running, vars>>

ProgressSpec == ProgressInit /\ [][ProgressNext]_progressVars /\ Fairness /\ DeliveryFairness
==============================================================================
