--------------------------- MODULE ExecutionChain ---------------------------
(* The control records between an agent's proposal and a change of the       *)
(* user's workspace: proposal -> approval -> frozen snapshot -> execution    *)
(* request -> dry run -> real run -> rollback.  Every HTTP handler of the    *)
(* chain is an `async def` without an await inside, so the event loop runs   *)
(* it to completion: one handler is one action.  The exception is a handler  *)
(* that dies half way: ExecuteUnrecorded.  What a real run does to the files *)
(* is in ScopedExecution; here it is `applied`.  The project's directory may *)
(* appear and vanish at any moment, so that a handler which asks for it may  *)
(* find it or not, and refuses without it.                                   *)

CONSTANT Proposals     \* identifiers of execution proposals

VARIABLES
    proposal,    \* execution_proposals.status ("none": no row yet)
    requires,    \* execution_proposals.requires_approval
    verdict,     \* what build_action_plan and the command checks say of the plan
    approval,    \* status of the approval_requests row linked to the proposal
    snapshot,    \* execution_snapshots.status
    request,     \* execution_requests.status
    result,      \* execution_results: one status per mode
    applied      \* history: the plan may have changed files or run commands

vars == <<proposal, requires, verdict, approval, snapshot, request, result,
          applied>>

ProposalStatus == {"none", "pending", "approved", "rejected"}
ApprovalStatus == {"none", "pending", "approved", "rejected", "consumed"}
SnapshotStatus == {"none", "frozen"}
RequestStatus  == {"none", "requested", "confirmed", "rejected"}
Modes          == {"dry_run", "real_run", "rollback"}
Outcomes       == {"completed", "failed"}

\* Do the frozen actions and commands give check_execution_eligibility a
\* blocked_reason?  Which one makes no difference to any handler.
Verdicts == {"ok", "blocked"}

TypeOK ==
    /\ proposal \in [Proposals -> ProposalStatus]
    /\ requires \in [Proposals -> BOOLEAN]
    /\ verdict \in [Proposals -> Verdicts]
    /\ approval \in [Proposals -> ApprovalStatus]
    /\ snapshot \in [Proposals -> SnapshotStatus]
    /\ request \in [Proposals -> RequestStatus]
    /\ result \in [Proposals -> [Modes -> Outcomes \union {"none"}]]
    /\ applied \in [Proposals -> BOOLEAN]

Init ==
    /\ proposal = [p \in Proposals |-> "none"]
    /\ requires = [p \in Proposals |-> FALSE]
    /\ verdict = [p \in Proposals |-> "ok"]
    /\ approval = [p \in Proposals |-> "none"]
    /\ snapshot = [p \in Proposals |-> "none"]
    /\ request = [p \in Proposals |-> "none"]
    /\ result = [p \in Proposals |-> [m \in Modes |-> "none"]]
    /\ applied = [p \in Proposals |-> FALSE]

-----------------------------------------------------------------------------
(* The operations.                                                           *)

\* _create_execution_proposal: the risk verdict and requires_approval are
\* independent, because the model's own requires_approval wins over the risk
\* report.  Proposal and approval request go in with one commit.
CreateProposal(p, needsApproval, v) ==
    /\ proposal[p] = "none"
    /\ proposal' = [proposal EXCEPT
                      ![p] = IF needsApproval THEN "pending" ELSE "approved"]
    /\ approval' = [approval EXCEPT
                      ![p] = IF needsApproval THEN "pending" ELSE "none"]
    /\ requires' = [requires EXCEPT ![p] = needsApproval]
    /\ verdict' = [verdict EXCEPT ![p] = v]
    /\ UNCHANGED <<snapshot, request, result, applied>>

\* Mutant: an approval that was resolved may be resolved again.
ResolveApproval_again(p, status) ==
    /\ approval[p] \notin {"none", "consumed"}
    /\ approval' = [approval EXCEPT ![p] = status]
    /\ proposal' = [proposal EXCEPT
                      ![p] = IF status = "approved" THEN "approved" ELSE "rejected"]
    /\ UNCHANGED <<requires, verdict, snapshot, request, result, applied>>

\* resolve_approval: any status but "pending" is accepted, "consumed" too;
\* anything that is not "approved" rejects the linked proposal.
ResolveApproval(p, status) ==
    /\ approval[p] = "pending"
    /\ approval' = [approval EXCEPT ![p] = status]
    /\ proposal' = [proposal EXCEPT
                      ![p] = IF status = "approved" THEN "approved" ELSE "rejected"]
    /\ UNCHANGED <<requires, verdict, snapshot, request, result, applied>>

\* Mutant: read, then write; the status is not part of the UPDATE.
ConsumeApproval_noCas(p) ==
    /\ approval[p] \in {"approved", "consumed"}
    /\ approval' = [approval EXCEPT ![p] = "consumed"]
    /\ UNCHANGED <<proposal, requires, verdict, snapshot, request, result,
                   applied>>

\* consume_approval: the compare-and-swap behind /tools/execute-approved, which
\* accepts the approval of a proposal as well as one made for the tool.
ConsumeApproval(p) ==
    /\ approval[p] = "approved"
    /\ approval' = [approval EXCEPT ![p] = "consumed"]
    /\ UNCHANGED <<proposal, requires, verdict, snapshot, request, result,
                   applied>>

\* May the proposal be frozen: a human's approval, or none needed.
Freezable(p) ==
    /\ proposal[p] = "approved"
    /\ approval[p] = "approved" \/ ~requires[p]

\* Mutant: the synthetic approval's status is its action type.
FreezeSnapshot_autoStatus(p) ==
    /\ snapshot[p] = "none"
    /\ Freezable(p)
    /\ snapshot' = [snapshot EXCEPT ![p] = "frozen"]
    /\ approval' = [approval EXCEPT ![p] =
                      IF requires[p] THEN "approved" ELSE "auto_approve"]
    /\ UNCHANGED <<proposal, requires, verdict, request, result, applied>>

\* freeze_snapshot: a proposal nobody had to approve gets a synthetic
\* approval, inserted as "approved" by the commit that freezes the snapshot.
FreezeSnapshot(p) ==
    /\ snapshot[p] = "none"
    /\ Freezable(p)
    /\ snapshot' = [snapshot EXCEPT ![p] = "frozen"]
    /\ approval' = [approval EXCEPT ![p] = "approved"]
    /\ UNCHANGED <<proposal, requires, verdict, request, result, applied>>

\* create_execution_request: one request per frozen snapshot.
CreateRequest(p) ==
    /\ request[p] = "none"
    /\ snapshot[p] = "frozen"
    /\ request' = [request EXCEPT ![p] = "requested"]
    /\ UNCHANGED <<proposal, requires, verdict, approval, snapshot, result,
                   applied>>

\* Mutant: no _VALID_TRANSITIONS, a confirmed request can still be rejected.
UpdateRequestStatus_anyTransition(p, status) ==
    /\ request[p] # "none"
    /\ request' = [request EXCEPT ![p] = status]
    /\ UNCHANGED <<proposal, requires, verdict, approval, snapshot, result,
                   applied>>

\* update_execution_request_status: confirmed and rejected are terminal.
UpdateRequestStatus(p, status) ==
    /\ request[p] = "requested"
    /\ request' = [request EXCEPT ![p] = status]
    /\ UNCHANGED <<proposal, requires, verdict, approval, snapshot, result,
                   applied>>

\* Mutant: a failed dry run may be repeated.
DryRun_retryFailed(p, outcome) ==
    /\ result[p]["dry_run"] # "completed"
    /\ request[p] = "confirmed"
    /\ result' = [result EXCEPT ![p]["dry_run"] = outcome]
    /\ UNCHANGED <<proposal, requires, verdict, approval, snapshot, request,
                   applied>>

\* run_dry_execution: it fails when it finds the workspace and predicts that a
\* parent directory will be missing; both are a matter of the disk.
DryRun(p, outcome) ==
    /\ result[p]["dry_run"] = "none"
    /\ request[p] = "confirmed"
    /\ result' = [result EXCEPT ![p]["dry_run"] = outcome]
    /\ UNCHANGED <<proposal, requires, verdict, approval, snapshot, request,
                   applied>>

\* Mutant: the dry run has to exist, not to have completed.
Eligible_anyDryRun(p) ==
    /\ request[p] = "confirmed"
    /\ snapshot[p] = "frozen"
    /\ verdict[p] = "ok"
    /\ result[p]["dry_run"] # "none"

\* check_execution_eligibility: every blocked_reason that the records decide.
\* (A path that leaves the workspace also blocks; that is decided by the disk,
\* has no effect on the records, and is in ScopedExecution.)
Eligible(p) ==
    /\ request[p] = "confirmed"
    /\ snapshot[p] = "frozen"
    /\ verdict[p] = "ok"
    /\ result[p]["dry_run"] = "completed"

MayExecute(p) ==
    /\ Eligible(p)
    /\ result[p]["real_run"] = "none"

\* execute_scoped, when it gets as far as its commit.
Execute(p, outcome) ==
    /\ MayExecute(p)
    /\ result' = [result EXCEPT ![p]["real_run"] = outcome]
    /\ applied' = [applied EXCEPT ![p] = TRUE]
    /\ UNCHANGED <<proposal, requires, verdict, approval, snapshot, request>>

\* execute_scoped, when the process dies or the INSERTs raise after files were
\* written: no row remains of the run, and a later call executes it again.
ExecuteUnrecorded(p) ==
    /\ MayExecute(p)
    /\ applied' = [applied EXCEPT ![p] = TRUE]
    /\ UNCHANGED <<proposal, requires, verdict, approval, snapshot, request,
                   result>>

\* rollback_result: any terminal real run, once.
Rollback(p, outcome) ==
    /\ result[p]["real_run"] \in Outcomes
    /\ result[p]["rollback"] = "none"
    /\ result' = [result EXCEPT ![p]["rollback"] = outcome]
    /\ UNCHANGED <<proposal, requires, verdict, approval, snapshot, request,
                   applied>>

\* The handlers of the chain itself; approvals are consumed by tool calls only.
ChainHandler(p) ==
    \/ \E needsApproval \in BOOLEAN, v \in Verdicts :
           CreateProposal(p, needsApproval, v)
    \/ \E status \in {"approved", "rejected", "consumed"} :
           ResolveApproval(p, status)
    \/ FreezeSnapshot(p)
    \/ CreateRequest(p)
    \/ \E status \in {"confirmed", "rejected"} : UpdateRequestStatus(p, status)
    \/ \E outcome \in Outcomes :
           DryRun(p, outcome) \/ Execute(p, outcome) \/ Rollback(p, outcome)
    \/ ExecuteUnrecorded(p)

Operation(p) == ChainHandler(p) \/ ConsumeApproval(p)

Next == \E p \in Proposals : Operation(p)

Spec == Init /\ [][Next]_vars

-----------------------------------------------------------------------------
(* The properties.                                                           *)

\* The approval a person gave, if one was needed.  A consumed approval counts:
\* consuming it cannot undo that it was given.
Authorised(p) ==
    /\ proposal[p] = "approved"
    /\ requires[p] => approval[p] \in {"approved", "consumed"}

\* No plan reaches the workspace past a missing gate: whatever the order of
\* approvals, consumptions, confirmations, retries and crashes, a plan that
\* changed anything was authorised, frozen, confirmed, rehearsed with success
\* and made of allowed actions only, and all of this still shows in the
\* records (check_execution_eligibility, freeze_snapshot).
ExecutionGated ==
    \A p \in Proposals : applied[p] =>
        /\ Authorised(p)
        /\ snapshot[p] = "frozen"
        /\ request[p] = "confirmed"
        /\ verdict[p] = "ok"
        /\ result[p]["dry_run"] = "completed"

\* A refusal at any gate: the proposal or request rejected, or a dry run failed.
Vetoed(p) ==
    \/ proposal[p] = "rejected"
    \/ request[p] = "rejected"
    \/ result[p]["dry_run"] = "failed"

\* A refusal is final, and nothing that was applied can be refused afterwards:
\* no later approval, confirmation or dry run revives a vetoed plan
\* (resolve_approval, _VALID_TRANSITIONS, the cached dry run).
VetoIsFinal ==
    [][\A p \in Proposals :
          /\ Vetoed(p) => Vetoed(p)' /\ applied[p]' = applied[p]
          /\ applied[p] => ~Vetoed(p)']_vars

\* The chain's results obey the ledger every reader of execution_results
\* relies on: one row per mode, in order, never rewritten.
Ledger == INSTANCE ResultLedger WITH Requests <- Proposals, ledger <- result
LedgerSpec == Ledger!LedgerSpec
=============================================================================
