---------------------------- MODULE ServicesProofs ----------------------------
(*****************************************************************************)
(* Proofs about the services together: the composition lets each of them do  *)
(* what its own specification allows and nothing else, so what is proved of  *)
(* each on its own holds of the whole.                                       *)
(*****************************************************************************)
EXTENDS Services, OfficeProofs, BackgroundProofs, ScreenProofs

LEMMA ServicesStart ==
  ServicesInit =>
    /\ DeliveryInit /\ FormInit /\ MediaInit /\ SessionInit /\ DeskInit /\ BillingInit
    /\ WarningInit /\ PortalInit /\ BoardInit
BY DEF ServicesInit

\* A step of the whole is a step of each service or leaves it alone.
LEMMA ServicesStep ==
  ASSUME [ServicesNext]_serviceVars
  PROVE  /\ [DeliveryNext]_deliveryVars /\ [FormNext]_formVars /\ [MediaNext]_mediaVars
         /\ [SessionNext]_sessionVars /\ [DeskNext]_deskVars /\ [BillingNext]_billingVars
         /\ [WarningNext]_lockVars /\ [PortalNext]_portalVars /\ [BoardNext]_boardVars
<1>1. CASE ServicesNext
  BY <1>1 DEF ServicesNext
<1>2. CASE UNCHANGED serviceVars
  BY <1>2 DEF serviceVars
<1> QED BY <1>1, <1>2

(* The services together implement each of the nine specifications, the        *)
(* fairness of the delivery included.                                          *)
THEOREM EachServiceAsSpecified ==
  ServicesSpec => /\ DeliverySpec /\ FormSpec /\ MediaSpec /\ SessionSpec /\ DeskSpec
                  /\ BillingSpec /\ WarningSpec /\ PortalSpec /\ BoardSpec
<1>1. [ServicesNext]_serviceVars =>
         /\ [DeliveryNext]_deliveryVars /\ [FormNext]_formVars /\ [MediaNext]_mediaVars
         /\ [SessionNext]_sessionVars /\ [DeskNext]_deskVars /\ [BillingNext]_billingVars
         /\ [WarningNext]_lockVars /\ [PortalNext]_portalVars /\ [BoardNext]_boardVars
  BY ServicesStep
<1>2. ServicesSpec => DeliverySpec
  BY <1>1, ServicesStart, PTL DEF ServicesSpec, DeliverySpec
<1>3. ServicesSpec => FormSpec
  BY <1>1, ServicesStart, PTL DEF ServicesSpec, FormSpec
<1>4. ServicesSpec => MediaSpec
  BY <1>1, ServicesStart, PTL DEF ServicesSpec, MediaSpec
<1>5. ServicesSpec => SessionSpec
  BY <1>1, ServicesStart, PTL DEF ServicesSpec, SessionSpec
<1>6. ServicesSpec => DeskSpec
  BY <1>1, ServicesStart, PTL DEF ServicesSpec, DeskSpec
<1>7. ServicesSpec => BillingSpec
  BY <1>1, ServicesStart, PTL DEF ServicesSpec, BillingSpec
<1>8. ServicesSpec => WarningSpec
  BY <1>1, ServicesStart, PTL DEF ServicesSpec, WarningSpec
<1>9. ServicesSpec => PortalSpec
  BY <1>1, ServicesStart, PTL DEF ServicesSpec, PortalSpec
<1>10. ServicesSpec => BoardSpec
  BY <1>1, ServicesStart, PTL DEF ServicesSpec, BoardSpec
<1> QED BY <1>2, <1>3, <1>4, <1>5, <1>6, <1>7, <1>8, <1>9, <1>10

(* Every service keeps its types, whichever runs (ServicesTypeOK), for any     *)
(* rows, forms, files, sessions, items, plans, instances, editions and jobs.   *)
THEOREM ServicesTyped == ServicesSpec => []ServicesTypeOK
<1>1. /\ DeliveryTypeOK /\ FormTypeOK /\ MediaTypeOK /\ SessionTypeOK
      /\ DeskTypeOK /\ BillingTypeOK /\ WarningTypeOK /\ PortalTypeOK /\ BoardTypeOK
      => ServicesTypeOK
  BY DEF ServicesTypeOK
<1> QED BY <1>1, EachServiceAsSpecified, DeliveryTyping, FindingsReachTheAdvisor, MediaTyping,
           SessionTyping, DeskTyping, BillingTyping, WarningTyping, PortalTyping, BoardIsReal, PTL

(* What is promised of each service holds while they run together: the         *)
(* invariants that the run of Services checks, for every value of its          *)
(* constants.                                                                  *)
THEOREM ServicesKeepPromises ==
  ServicesSpec =>
    [](/\ SecondDeliveryExplained /\ FindingsBecomeConcerns /\ CountFollowsPhotos
       /\ ListedHasContent /\ SessionsDoNotMultiply /\ EndedStaysEnded /\ BookedOncePerClick
       /\ BilledOnce /\ WarnedOnce /\ ReleasesReachThePortal /\ BoardShowsRealStatuses)
BY EachServiceAsSpecified, DeliveriesExplained, FindingsReachTheAdvisor, PhotosCounted,
   PhotosOpen, SessionsPaidFor, EndingsHold, ItemsBookedOnce, WorkshopBilledOnce,
   CustomersWarnedOnce, ReleasedIsShown, BoardIsReal, PTL
===============================================================================
