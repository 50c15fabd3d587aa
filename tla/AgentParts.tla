------------------------------ MODULE AgentParts ------------------------------
(***************************************************************************)
(* Five parts of the agent and its gateway that share no state: one of     *)
(* them, chosen at the start, moves.                                       *)
(*   analysis      MetricAnalysis     diagnosis of a metric, its drivers   *)
(*   turn          AgentTurn          one turn of the agent                *)
(*   session       AnalysisSession    clarifications and follow-ups        *)
(*   admission     LocalTraffic       the traffic guard of one process     *)
(*   verification  TokenVerification  bearer tokens and their keys         *)
(***************************************************************************)
EXTENDS MetricAnalysis, TokenVerification, LocalTraffic, AgentTurn, AnalysisSession

VARIABLE focus     \* the part that moves

AgentInit ==
    /\ focus \in {"analysis", "turn", "session", "admission", "verification"}
    /\ Init /\ TurnInit /\ SessionInit /\ AdmissionInit /\ VerificationInit

AgentNext ==
    \/ /\ focus = "analysis" /\ Next
       /\ UNCHANGED <<focus, turnVars, sessionVars, admissionVars, verificationVars>>
    \/ /\ focus = "turn" /\ TurnNext
       /\ UNCHANGED <<focus, vars, sessionVars, admissionVars, verificationVars>>
    \/ /\ focus = "session" /\ SessionNext
       /\ UNCHANGED <<focus, vars, turnVars, admissionVars, verificationVars>>
    \/ /\ focus = "admission" /\ AdmissionNext
       /\ UNCHANGED <<focus, vars, turnVars, sessionVars, verificationVars>>
    \/ /\ focus = "verification" /\ VerificationNext
       /\ UNCHANGED <<focus, vars, turnVars, sessionVars, admissionVars>>

agentVars == <<focus, vars, turnVars, sessionVars, admissionVars, verificationVars>>

AgentSpec == AgentInit /\ [][AgentNext]_agentVars

-----------------------------------------------------------------------------
(* Type correctness of the part that moves.                                *)
AllTypesOK ==
    /\ focus = "analysis" => TypeOK
    /\ focus = "turn" => TurnTypeOK
    /\ focus = "session" => SessionTypeOK
    /\ focus = "admission" => AdmissionTypeOK
    /\ focus = "verification" => VerificationTypeOK
=============================================================================
