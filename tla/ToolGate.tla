------------------------------ MODULE ToolGate ------------------------------
(* /tools/execute and /tools/execute-approved beside the execution chain:    *)
(* both live on the same approval_requests table, so a person's one "yes"    *)
(* can be asked for by a snapshot and by a tool call.  A handler runs to its *)
(* first await without a break; only the shell and git tools await (the file *)
(* tools return at once), and everything else happens meanwhile.  The        *)
(* process may die while tools run: the rows stay, the answers do not come.  *)

EXTENDS AuditTrail, Naturals, Sequences

CONSTANTS
    Calls,        \* POSTs to the two endpoints, or of an approval by hand
    Unknown       \* an approval id of no row

ASSUME CallsAssumption ==
    /\ Calls \cap Proposals = {}
    /\ Unknown \notin Calls \union Proposals

VARIABLES
    call,         \* call[c]: how far the handler is
    uses,         \* uses[c]: the approval its tool runs on
    grant,        \* status of the approval row that call c created
    audit         \* the log_events rows of call c with source 'tool_audit'

gateVars == <<call, uses, grant, audit>>
toolVars == <<vars, gateVars>>

NoApproval == "none"
Approvals == Proposals \union Calls

\* "refused": 404, 422, 403 for the role, or an audit row the foreign keys
\* refuse; "filed": an approval was
\* asked for by hand; "denied": the approval will not do; "raised": the tool raised;
\* "lost": the process died.
CallStates == {"none", "filed", "refused", "blocked", "denied", "running",
               "success", "failed", "raised", "lost"}
AuditEvents == {"request", "role_denied", "risk_classified", "blocked",
                "denied", "already_consumed", "success", "failed"}

GateTypeOK ==
    /\ call \in [Calls -> CallStates]
    /\ uses \in [Calls -> Approvals \union {NoApproval}]
    /\ grant \in [Calls -> ApprovalStatus]
    /\ audit \in [Calls -> Seq(AuditEvents)]
    /\ \A c \in Calls : Len(audit[c]) <= 3

GateInit ==
    /\ call = [c \in Calls |-> "none"]
    /\ uses = [c \in Calls |-> NoApproval]
    /\ grant = [c \in Calls |-> "none"]
    /\ audit = [c \in Calls |-> <<>>]

-----------------------------------------------------------------------------
(* The operations.                                                           *)

\* RiskClassifier.classify: the highest level of the rules that match.
RiskLevel(matches) ==
    IF "critical" \in matches THEN "critical"
    ELSE IF "high" \in matches THEN "high" ELSE "safe"

NeedsApproval(level) == level \in {"high", "critical"}

Ends(c, state, events) ==
    /\ call[c] = "none"
    /\ call' = [call EXCEPT ![c] = state]
    /\ audit' = [audit EXCEPT ![c] = events]

\* An unknown tool, or a task id no row has, before anything is recorded; bad
\* parameters after the request is; a role that may not use the tool.
Refuse(c) ==
    /\ \E events \in {<<>>, <<"request">>, <<"request", "role_denied">>} :
           Ends(c, "refused", events)
    /\ UNCHANGED <<vars, uses, grant>>

\* create_approval: a pending row for a task, linked to no proposal.
CreateApproval(c) ==
    /\ Ends(c, "filed", <<>>)
    /\ grant' = [grant EXCEPT ![c] = "pending"]
    /\ UNCHANGED <<vars, uses>>

\* A risky call is answered with the id of a new pending approval.
Block(c, matches) ==
    /\ NeedsApproval(RiskLevel(matches))
    /\ Ends(c, "blocked", <<"request", "risk_classified", "blocked">>)
    /\ grant' = [grant EXCEPT ![c] = "pending"]
    /\ UNCHANGED <<vars, uses>>

\* A safe call runs its tool at once.
ExecuteTool(c, matches) ==
    /\ ~NeedsApproval(RiskLevel(matches))
    /\ Ends(c, "running", <<"request", "risk_classified">>)
    /\ UNCHANGED <<vars, uses, grant>>

StatusOf(a) == IF a \in Proposals THEN approval[a]
               ELSE IF a \in Calls THEN grant[a] ELSE "none"

\* consume_approval of a row some call created.
ConsumeGrant(a) ==
    /\ grant[a] = "approved"
    /\ grant' = [grant EXCEPT ![a] = "consumed"]
    /\ UNCHANGED vars

\* Mutant: the approval is consumed before the request is recorded.
ExecuteApproved_recordsLate(c, a) ==
    /\ \/ a \in Calls /\ ConsumeGrant(a)
       \/ a \in Proposals /\ ConsumeApproval(a) /\ UNCHANGED grant
    /\ call[c] = "none"
    /\ call' = [call EXCEPT ![c] = "running"]
    /\ uses' = [uses EXCEPT ![c] = a]
    /\ UNCHANGED audit

\* execute_approved_tool: the approval is spent before the tool runs, whatever
\* it was given for.
ExecuteApproved(c, a) ==
    /\ \/ a \in Calls /\ ConsumeGrant(a)
       \/ a \in Proposals /\ ConsumeApproval(a) /\ UNCHANGED grant
    /\ call[c] = "none"
    /\ call' = [call EXCEPT ![c] = "running"]
    /\ uses' = [uses EXCEPT ![c] = a]
    /\ audit' = [audit EXCEPT ![c] = <<"request">>]

\* 409 for a consumed approval, 403 for any other that is not approved.
Deny(c, a) ==
    /\ StatusOf(a) # "approved"
    /\ Ends(c, "denied", <<"request", IF StatusOf(a) = "consumed"
                                      THEN "already_consumed" ELSE "denied">>)
    /\ UNCHANGED <<vars, uses, grant>>

\* The tool returns: a result, or a failure (exit code, timeout, missing file).
ToolReturns(c, outcome) ==
    /\ call[c] = "running"
    /\ call' = [call EXCEPT ![c] = outcome]
    /\ audit' = [audit EXCEPT ![c] = Append(@, outcome)]
    /\ UNCHANGED <<vars, uses, grant>>

\* What a tool does not catch (a parameter of the wrong type) is HTTP 500.
ToolCrashes(c) ==
    /\ call[c] = "running"
    /\ call' = [call EXCEPT ![c] = "raised"]
    /\ UNCHANGED <<vars, uses, grant, audit>>

\* resolve_approval of a row without a proposal: nothing cascades.
ResolveGrant(a, status) ==
    /\ grant[a] = "pending"
    /\ grant' = [grant EXCEPT ![a] = status]
    /\ UNCHANGED <<vars, call, uses, audit>>

\* The process dies: nobody hears of the tools that were running.
CallsLost ==
    /\ call' = [c \in Calls |-> IF call[c] = "running" THEN "lost" ELSE call[c]]
    /\ UNCHANGED <<vars, uses, grant, audit>>

GateOperation(c) ==
    \/ Refuse(c) \/ CreateApproval(c)
    \/ \E matches \in SUBSET {"high", "critical"} :
           Block(c, matches) \/ ExecuteTool(c, matches)
    \/ \E a \in Approvals \union {Unknown} : ExecuteApproved(c, a) \/ Deny(c, a)
    \/ \E outcome \in {"success", "failed"} : ToolReturns(c, outcome)
    \/ ToolCrashes(c)
    \/ \E status \in {"approved", "rejected", "consumed"} : ResolveGrant(c, status)

-----------------------------------------------------------------------------
(* The properties.                                                           *)

Ran(c) == call[c] \in {"running", "success", "failed", "raised", "lost"}

\* One "yes" is one tool run: no two calls run on the same approval, however
\* they race, fail, raise or die with the process, and an approval that was run
\* on stays spent (consume_approval's compare-and-swap).
OneRunPerApproval ==
    \A c \in Calls : Ran(c) /\ uses[c] # NoApproval =>
        /\ StatusOf(uses[c]) = "consumed"
        /\ \A d \in Calls : Ran(d) /\ uses[d] = uses[c] => d = c

\* A proposal that was approved and can never be frozen, because its approval
\* was spent elsewhere, is explained by the audit: a tool call recorded its
\* request before it spent the approval, and its outcome if the tool returned.
SpentIsAccounted ==
    \A p \in Proposals :
        proposal[p] = "approved" /\ approval[p] = "consumed" =>
            \E c \in Calls :
                /\ uses[c] = p /\ Ran(c)
                /\ Len(audit[c]) >= 1 /\ audit[c][1] = "request"
                /\ call[c] \in {"success", "failed"} =>
                       audit[c][Len(audit[c])] = call[c]

=============================================================================
