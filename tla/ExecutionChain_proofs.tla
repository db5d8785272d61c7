------------------------ MODULE ExecutionChain_proofs ------------------------
(* ExecutionGated, VetoIsFinal and the refinement of ResultLedger for every  *)
(* set of proposals.                                                         *)

EXTENDS ExecutionChain, TLAPS

(* ExecutionGated is not inductive: that a confirmed request stays authorised *)
(* rests on the links of the chain, each record implying the one before it.  *)
Linked(p) ==
    /\ proposal[p] = "none" =>
           approval[p] = "none" /\ snapshot[p] = "none"
    /\ proposal[p] = "approved" /\ requires[p] =>
           approval[p] \in {"approved", "consumed"}
    /\ approval[p] = "pending" => proposal[p] = "pending"
    /\ snapshot[p] = "frozen" =>
           proposal[p] = "approved" /\ approval[p] \in {"approved", "consumed"}
    /\ request[p] # "none" => snapshot[p] = "frozen"
    /\ result[p]["dry_run"] # "none" => request[p] = "confirmed"
    /\ applied[p] => verdict[p] = "ok" /\ result[p]["dry_run"] = "completed"
    /\ result[p]["real_run"] # "none" => applied[p]

Inv == TypeOK /\ \A p \in Proposals : Linked(p)

\* The links of the chain give the gate.
LEMMA LinkedGated == Inv => ExecutionGated
  BY DEF Inv, TypeOK, Linked, ExecutionGated, Authorised, RequestStatus,
         SnapshotStatus

-----------------------------------------------------------------------------

\* Every action assigns its variables values of their types.
LEMMA TypeStep == TypeOK /\ [Next]_vars => TypeOK'
<1> SUFFICES ASSUME TypeOK, [Next]_vars PROVE TypeOK'
  OBVIOUS
<1> USE DEF TypeOK, ProposalStatus, ApprovalStatus, SnapshotStatus,
            RequestStatus, Modes, Outcomes
<1>1. ASSUME NEW p \in Proposals, NEW b \in BOOLEAN, NEW v \in Verdicts,
             CreateProposal(p, b, v)
      PROVE  TypeOK'
  BY <1>1 DEF CreateProposal
<1>2. ASSUME NEW p \in Proposals, NEW s \in {"approved", "rejected", "consumed"},
             ResolveApproval(p, s)
      PROVE  TypeOK'
  BY <1>2 DEF ResolveApproval
<1>3. ASSUME NEW p \in Proposals, ConsumeApproval(p) PROVE TypeOK'
  BY <1>3 DEF ConsumeApproval
<1>4. ASSUME NEW p \in Proposals, FreezeSnapshot(p) PROVE TypeOK'
  BY <1>4 DEF FreezeSnapshot
<1>5. ASSUME NEW p \in Proposals, CreateRequest(p) PROVE TypeOK'
  BY <1>5 DEF CreateRequest
<1>6. ASSUME NEW p \in Proposals, NEW s \in {"confirmed", "rejected"},
             UpdateRequestStatus(p, s)
      PROVE  TypeOK'
  BY <1>6 DEF UpdateRequestStatus
<1>7. ASSUME NEW p \in Proposals, NEW o \in Outcomes, DryRun(p, o)
      PROVE  TypeOK'
  BY <1>7 DEF DryRun
<1>8. ASSUME NEW p \in Proposals, NEW o \in Outcomes, Execute(p, o)
      PROVE  TypeOK'
  BY <1>8 DEF Execute
<1>9. ASSUME NEW p \in Proposals, NEW o \in Outcomes, Rollback(p, o)
      PROVE  TypeOK'
  BY <1>9 DEF Rollback
<1>10. ASSUME NEW p \in Proposals, ExecuteUnrecorded(p) PROVE TypeOK'
  BY <1>10 DEF ExecuteUnrecorded
<1>11. CASE UNCHANGED vars
  BY <1>11 DEF vars
<1>12. QED
  BY <1>1, <1>2, <1>3, <1>4, <1>5, <1>6, <1>7, <1>8, <1>9, <1>10, <1>11
  DEF Next, Operation, ChainHandler

\* One operation on one proposal keeps every proposal's chain linked.
LEMMA LinkedStep == Inv /\ [Next]_vars => Inv'
<1> SUFFICES ASSUME Inv, [Next]_vars PROVE Inv'
  OBVIOUS
<1>0. TypeOK'
  BY TypeStep DEF Inv
<1> SUFFICES ASSUME NEW q \in Proposals PROVE Linked(q)'
  BY <1>0 DEF Inv
<1> USE DEF Inv, TypeOK, Linked, ProposalStatus, ApprovalStatus,
            SnapshotStatus, RequestStatus, Modes, Outcomes
<1>1. ASSUME NEW p \in Proposals, NEW b \in BOOLEAN, NEW v \in Verdicts,
             CreateProposal(p, b, v)
      PROVE  Linked(q)'
  BY <1>1 DEF CreateProposal
<1>2. ASSUME NEW p \in Proposals, NEW s \in {"approved", "rejected", "consumed"},
             ResolveApproval(p, s)
      PROVE  Linked(q)'
  BY <1>2 DEF ResolveApproval
<1>3. ASSUME NEW p \in Proposals, ConsumeApproval(p) PROVE Linked(q)'
  BY <1>3 DEF ConsumeApproval
<1>4. ASSUME NEW p \in Proposals, FreezeSnapshot(p) PROVE Linked(q)'
  BY <1>4 DEF FreezeSnapshot, Freezable
<1>5. ASSUME NEW p \in Proposals, CreateRequest(p) PROVE Linked(q)'
  BY <1>5 DEF CreateRequest
<1>6. ASSUME NEW p \in Proposals, NEW s \in {"confirmed", "rejected"},
             UpdateRequestStatus(p, s)
      PROVE  Linked(q)'
  BY <1>6 DEF UpdateRequestStatus
<1>7. ASSUME NEW p \in Proposals, NEW o \in Outcomes, DryRun(p, o)
      PROVE  Linked(q)'
  BY <1>7 DEF DryRun
<1>8. ASSUME NEW p \in Proposals, NEW o \in Outcomes, Execute(p, o)
      PROVE  Linked(q)'
  BY <1>8 DEF Execute, MayExecute, Eligible
<1>9. ASSUME NEW p \in Proposals, NEW o \in Outcomes, Rollback(p, o)
      PROVE  Linked(q)'
  BY <1>9 DEF Rollback
<1>10. ASSUME NEW p \in Proposals, ExecuteUnrecorded(p) PROVE Linked(q)'
  BY <1>10 DEF ExecuteUnrecorded, MayExecute, Eligible
<1>11. CASE UNCHANGED vars
  BY <1>11 DEF vars
<1>12. QED
  BY <1>1, <1>2, <1>3, <1>4, <1>5, <1>6, <1>7, <1>8, <1>9, <1>10, <1>11
  DEF Next, Operation, ChainHandler

\* The tables start empty.
LEMMA InitInv == Init => Inv
  BY DEF Init, Inv, TypeOK, Linked, ProposalStatus, ApprovalStatus,
         SnapshotStatus, RequestStatus, Verdicts, Modes, Outcomes

-----------------------------------------------------------------------------

\* The chain's invariant holds throughout.
LEMMA Invariance == Spec => []Inv
  BY InitInv, LinkedStep, PTL DEF Spec

\* The tables keep their types.
THEOREM TypeCorrect == Spec => []TypeOK
<1>1. Inv => TypeOK
  BY DEF Inv
<1> QED
  BY <1>1, Invariance, PTL

\* For any number of proposals and any order of calls, crashes included, a
\* plan that touched the workspace passed every gate (ExecutionGated).
THEOREM GatedExecution == Spec => []ExecutionGated
  BY LinkedGated, Invariance, PTL

-----------------------------------------------------------------------------

\* One step never lifts a veto, applies a vetoed plan or vetoes an applied one.
LEMMA VetoStep ==
    ASSUME Inv, Next, NEW q \in Proposals
    PROVE  /\ Vetoed(q) => Vetoed(q)' /\ applied[q]' = applied[q]
           /\ applied[q] => ~Vetoed(q)'
<1> USE DEF Inv, TypeOK, Linked, Vetoed, ProposalStatus, ApprovalStatus,
            SnapshotStatus, RequestStatus, Modes, Outcomes
<1> DEFINE Kept == /\ Vetoed(q) => Vetoed(q)' /\ applied[q]' = applied[q]
                   /\ applied[q] => ~Vetoed(q)'
<1>1. ASSUME NEW p \in Proposals, NEW b \in BOOLEAN, NEW v \in Verdicts,
             CreateProposal(p, b, v)
      PROVE  Kept
  BY <1>1 DEF CreateProposal
<1>2. ASSUME NEW p \in Proposals, NEW s \in {"approved", "rejected", "consumed"},
             ResolveApproval(p, s)
      PROVE  Kept
  BY <1>2 DEF ResolveApproval
<1>3. ASSUME NEW p \in Proposals, ConsumeApproval(p) PROVE Kept
  BY <1>3 DEF ConsumeApproval
<1>4. ASSUME NEW p \in Proposals, FreezeSnapshot(p) PROVE Kept
  BY <1>4 DEF FreezeSnapshot, Freezable
<1>5. ASSUME NEW p \in Proposals, CreateRequest(p) PROVE Kept
  BY <1>5 DEF CreateRequest
<1>6. ASSUME NEW p \in Proposals, NEW s \in {"confirmed", "rejected"},
             UpdateRequestStatus(p, s)
      PROVE  Kept
  BY <1>6 DEF UpdateRequestStatus
<1>7. ASSUME NEW p \in Proposals, NEW o \in Outcomes, DryRun(p, o)
      PROVE  Kept
  BY <1>7 DEF DryRun
<1>8. ASSUME NEW p \in Proposals, NEW o \in Outcomes, Execute(p, o)
      PROVE  Kept
  <2>1. result[q]["dry_run"]' = result[q]["dry_run"]
    BY <1>8 DEF Execute
  <2>2. request[p] = "confirmed" /\ result[p]["dry_run"] = "completed"
    BY <1>8 DEF Execute, MayExecute, Eligible
  <2>3. ~Vetoed(p)
    BY <2>2
  <2>4. q # p => applied[q]' = applied[q]
    BY <1>8 DEF Execute
  <2>5. Vetoed(q)' = Vetoed(q)
    BY <1>8, <2>1 DEF Execute
  <2>6. QED
    BY <2>3, <2>4, <2>5
<1>9. ASSUME NEW p \in Proposals, NEW o \in Outcomes, Rollback(p, o)
      PROVE  Kept
  BY <1>9 DEF Rollback
<1>10. ASSUME NEW p \in Proposals, ExecuteUnrecorded(p) PROVE Kept
  <2>1. request[p] = "confirmed" /\ result[p]["dry_run"] = "completed"
    BY <1>10 DEF ExecuteUnrecorded, MayExecute, Eligible
  <2>2. ~Vetoed(p)
    BY <2>1
  <2>3. q # p => applied[q]' = applied[q]
    BY <1>10 DEF ExecuteUnrecorded
  <2>4. Vetoed(q)' = Vetoed(q)
    BY <1>10 DEF ExecuteUnrecorded
  <2>5. QED
    BY <2>2, <2>3, <2>4
<1>11. QED
  BY <1>1, <1>2, <1>3, <1>4, <1>5, <1>6, <1>7, <1>8, <1>9, <1>10
  DEF Next, Operation, ChainHandler

\* A refusal at any gate is final, whatever is called afterwards (VetoIsFinal).
THEOREM FinalVeto == Spec => VetoIsFinal
<1>1. Inv /\ [Next]_vars =>
        [\A p \in Proposals :
            /\ Vetoed(p) => Vetoed(p)' /\ applied[p]' = applied[p]
            /\ applied[p] => ~Vetoed(p)']_vars
  BY VetoStep
<1> QED
  BY <1>1, Invariance, PTL DEF Spec, VetoIsFinal

-----------------------------------------------------------------------------

\* An approved proposal stays approved, and it has been frozen, can be frozen,
\* or has had its approval spent on a tool call.
StaysFreezable ==
    \A p \in Proposals : proposal[p] = "approved" =>
        /\ proposal[p]' = "approved"
        /\ snapshot[p]' = "frozen" \/ Freezable(p)' \/ approval[p]' = "consumed"

\* Approving is never undone and never a dead end: a freeze of an approved
\* proposal is refused only once its approval was spent on a tool call, whatever
\* was called in between (resolve_approval, freeze_snapshot).
THEOREM ApprovalLeadsOn == Spec => [][StaysFreezable]_vars
<1>1. ASSUME Inv, [Next]_vars, NEW p \in Proposals, proposal[p] = "approved"
      PROVE  proposal[p]' = "approved"
  <2>1. approval[p] # "pending"
    BY <1>1 DEF Inv, Linked
  <2>2. \A s : ~ResolveApproval(p, s)
    BY <2>1 DEF ResolveApproval
  <2>3. \A b, v : ~CreateProposal(p, b, v)
    BY <1>1 DEF CreateProposal
  <2>4. ASSUME NEW q \in Proposals, q # p,
               \/ \E s : ResolveApproval(q, s)
               \/ \E b, v : CreateProposal(q, b, v)
        PROVE  proposal[p]' = proposal[p]
    BY <1>1, <2>4 DEF ResolveApproval, CreateProposal, Inv, TypeOK
  <2>5. \/ proposal' = proposal
        \/ \E q \in Proposals : \/ \E s : ResolveApproval(q, s)
                               \/ \E b, v : CreateProposal(q, b, v)
    BY <1>1 DEF Next, Operation, ChainHandler, ConsumeApproval, FreezeSnapshot, CreateRequest,
                UpdateRequestStatus, DryRun, Execute, Rollback, ExecuteUnrecorded, vars
  <2> QED
    BY <1>1, <2>2, <2>3, <2>4, <2>5
<1>2. Inv' => \A p \in Proposals : proposal[p]' = "approved" =>
               snapshot[p]' = "frozen" \/ Freezable(p)' \/ approval[p]' = "consumed"
  BY DEF Inv, TypeOK, Linked, Freezable
<1>3. Inv /\ Inv' /\ [Next]_vars => StaysFreezable
  BY <1>1, <1>2 DEF StaysFreezable
<1> QED
  BY <1>3, Invariance, PTL DEF Spec

-----------------------------------------------------------------------------

\* A step of the chain writes one row the ledger may write next, or none.
LEMMA LedgerStep == Inv /\ [Next]_vars => [Ledger!LedgerNext]_result
<1> SUFFICES ASSUME Inv, [Next]_vars PROVE [Ledger!LedgerNext]_result
  OBVIOUS
<1> USE DEF Ledger!LedgerNext, Ledger!Record, Ledger!Preceded,
            Ledger!Modes, Ledger!Outcomes, Modes, Outcomes
<1>1. ASSUME NEW p \in Proposals, NEW o \in Outcomes, DryRun(p, o)
      PROVE  Ledger!Record(p, "dry_run", o)
  BY <1>1 DEF DryRun
<1>2. ASSUME NEW p \in Proposals, NEW o \in Outcomes, Execute(p, o)
      PROVE  Ledger!Record(p, "real_run", o)
  BY <1>2 DEF Execute, MayExecute, Eligible
<1>3. ASSUME NEW p \in Proposals, NEW o \in Outcomes, Rollback(p, o)
      PROVE  Ledger!Record(p, "rollback", o)
  BY <1>3 DEF Rollback
<1>4. \/ UNCHANGED result
      \/ \E p \in Proposals, o \in Outcomes :
             DryRun(p, o) \/ Execute(p, o) \/ Rollback(p, o)
  BY DEF Next, Operation, ChainHandler, CreateProposal, ResolveApproval, ConsumeApproval,
         FreezeSnapshot, CreateRequest, UpdateRequestStatus,
         ExecuteUnrecorded, vars
<1>5. QED
  BY <1>1, <1>2, <1>3, <1>4

\* The chain implements the ledger: at most one row per mode, written in order,
\* never rewritten (LedgerSpec).
THEOREM ImplementsLedger == Spec => LedgerSpec
<1>1. Init => Ledger!LedgerInit
  BY DEF Init, Ledger!LedgerInit, Ledger!Modes, Modes
<1> QED
  BY <1>1, Invariance, LedgerStep, PTL DEF Spec, LedgerSpec, Ledger!LedgerSpec
=============================================================================
