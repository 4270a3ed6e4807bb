------------------------------- MODULE Services -------------------------------
(* The services around the job, checked together.  They meet in keys and rows, *)
(* not in the columns these models keep (but for job_concerns: an advisor may  *)
(* delete a concern an inspection made, and then it is not missing but gone),  *)
(* so a behaviour of the whole is, for each of them, a behaviour of its own    *)
(* interleaved with steps that leave it alone.  Here one of them, the subject, *)
(* runs and the others rest: what is checked of each is what its own           *)
(* specification says, at the cost of the sum of the state spaces.             *)
EXTENDS NotificationDelivery, InspectionForm, MediaFiles, Sessions, DeferredDesk,
        Billing, TrialWarnings, PortalReleases, JobsBoard

VARIABLE subject

serviceVars ==
  <<subject, deliveryVars, formVars, mediaVars, sessionVars, deskVars, billingVars,
    lockVars, portalVars, boardVars>>

ServicesInit ==
  /\ subject \in {"delivery", "forms", "media", "sessions", "desk", "billing",
                  "warnings", "portal", "board"}
  /\ DeliveryInit /\ FormInit /\ MediaInit /\ SessionInit /\ DeskInit /\ BillingInit
  /\ WarningInit /\ PortalInit /\ BoardInit

ServicesNext ==
  /\ UNCHANGED subject
  /\ IF subject = "delivery" THEN DeliveryNext ELSE UNCHANGED deliveryVars
  /\ IF subject = "forms" THEN FormNext ELSE UNCHANGED formVars
  /\ IF subject = "media" THEN MediaNext ELSE UNCHANGED mediaVars
  /\ IF subject = "sessions" THEN SessionNext ELSE UNCHANGED sessionVars
  /\ IF subject = "desk" THEN DeskNext ELSE UNCHANGED deskVars
  /\ IF subject = "billing" THEN BillingNext ELSE UNCHANGED billingVars
  /\ IF subject = "warnings" THEN WarningNext ELSE UNCHANGED lockVars
  /\ IF subject = "portal" THEN PortalNext ELSE UNCHANGED portalVars
  /\ IF subject = "board" THEN BoardNext ELSE UNCHANGED boardVars

(* Only the delivery of notifications promises anything; at rest, none of the  *)
(* actions it is fair to is enabled.                                           *)
ServicesSpec == ServicesInit /\ [][ServicesNext]_serviceVars /\ DeliveryFairness

(* Every service keeps its types, whichever runs.                              *)
ServicesTypeOK ==
  /\ DeliveryTypeOK /\ FormTypeOK /\ MediaTypeOK /\ SessionTypeOK
  /\ DeskTypeOK /\ BillingTypeOK /\ WarningTypeOK /\ PortalTypeOK /\ BoardTypeOK
==============================================================================
