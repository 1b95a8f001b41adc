---------------------------- MODULE MCAuditFile -----------------------------
(* Two executions that remove one container each. *)
EXTENDS AuditFile

MCItems == {[mark |-> [kind |-> "container", id |-> id], est |-> 2] : id \in {"c1", "c2"}}
MCPlans == {<<i>> : i \in MCItems}
=============================================================================
