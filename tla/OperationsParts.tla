---------------------------- MODULE OperationsParts ----------------------------
(***************************************************************************)
(* Two parts of the operations that share no state: one of them, chosen at *)
(* the start, moves.                                                       *)
(*   incident   IncidentApproval  incident, response plan and approval     *)
(*   promotion  Promotion         calibration to a change of the policy    *)
(***************************************************************************)
EXTENDS IncidentApproval, Promotion

VARIABLE focus     \* the part that moves

OperationsInit == focus \in {"incident", "promotion"} /\ IncidentInit /\ PromotionInit

OperationsNext ==
    \/ focus = "incident" /\ IncidentNext /\ UNCHANGED <<focus, promotionVars>>
    \/ focus = "promotion" /\ PromotionNext /\ UNCHANGED <<focus, incidentVars>>

OperationsSpec == OperationsInit /\ [][OperationsNext]_<<focus, incidentVars, promotionVars>>

-----------------------------------------------------------------------------
(* Type correctness of the part that moves.                                *)
AllTypesOK ==
    /\ focus = "incident" => IncidentTypeOK
    /\ focus = "promotion" => PromotionTypeOK
=============================================================================
