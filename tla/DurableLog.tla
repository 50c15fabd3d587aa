----------------------------- MODULE DurableLog -----------------------------
(***************************************************************************)
(* What the audit sink promises its callers (writer.py:6-8, and the policy *)
(* lines acknowledged_runtime_audit_is_durable and                         *)
(* durable_group_commit_preserves_per_record_ack of agent_audit_policy.yml)*)
(* records are submitted, some of them reach the device, and only a record *)
(* that is on the device is ever acknowledged.  Nothing leaves the device, *)
(* and an acknowledgement is never taken back.                             *)
(***************************************************************************)
CONSTANT Record             \* identities of the records that can be written

VARIABLES submitted,        \* records handed to the log
          durable,          \* records a power loss cannot take away
          acked             \* records whose write returned successfully

logvars == <<submitted, durable, acked>>

Init == submitted = {} /\ durable = {} /\ acked = {}

Submit(r) ==
    /\ r \in Record \ submitted
    /\ submitted' = submitted \union {r}
    /\ UNCHANGED <<durable, acked>>

(* One device sync covers any number of submitted records. *)
Persist ==
    /\ durable' \in SUBSET submitted
    /\ durable \subseteq durable'
    /\ UNCHANGED <<submitted, acked>>

Ack(r) ==
    /\ r \in durable \ acked
    /\ acked' = acked \union {r}
    /\ UNCHANGED <<submitted, durable>>

Next == \/ \E r \in Record : Submit(r) \/ Ack(r)
        \/ Persist

Spec == Init /\ [][Next]_logvars
=============================================================================
