----------------------------- MODULE AuditTrail -----------------------------
(* The timeline of a task, /tasks/{id}/audit-trail.  Nothing is stored for   *)
(* it: every request assembles it anew from the record tables, so it is a    *)
(* function of the chain's state, and what it once showed is gone when the   *)
(* record changes.  Summaries, details and timestamps are left out.          *)

EXTENDS ExecutionChain

\* One type per kind of record; a result's event is named after its mode here,
\* because only the detail of the event tells a real run from a dry run.
EventTypes == {"proposal:created", "approval:decided", "snapshot:frozen",
               "execution_request:created", "execution_request:finalized"}
                  \union Modes

\* WHERE status IN ('approved', 'rejected').
Decided(status) == status \in {"approved", "rejected"}

Occurred(type, p) ==
    \/ type = "proposal:created" /\ proposal[p] # "none"
    \/ type = "approval:decided" /\ Decided(approval[p])
    \/ type = "snapshot:frozen" /\ snapshot[p] = "frozen"
    \/ type = "execution_request:created" /\ request[p] # "none"
    \/ type = "execution_request:finalized" /\ request[p] \in {"confirmed", "rejected"}
    \/ type \in Modes /\ result[p][type] \in Outcomes

\* _build_task_audit_trail, as a set of (event type, record) pairs.
Trail == {e \in EventTypes \X Proposals : Occurred(e[1], e[2])}

=============================================================================
