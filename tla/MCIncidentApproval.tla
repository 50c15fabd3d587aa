-------------------------- MODULE MCIncidentApproval --------------------------
(* IncidentApproval with two steps of the daily job and decisions made once. *)
EXTENDS IncidentApproval, TLC

MCSteps == <<"raw", "dbt">>

(* A case is decided once: no two holders of a pending case decide it.     *)
OneDecision == \A c \in DOMAIN cases' : Cardinality(cases'[c].versions) <= 2
=============================================================================
