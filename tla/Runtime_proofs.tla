--------------------------- MODULE Runtime_proofs ---------------------------
(* The running server implements the execution chain, so what is proved of   *)
(* the chain holds of the server; and the tool gate's own invariants, for    *)
(* every set of proposals and calls and however often the process dies.      *)

EXTENDS Runtime, ExecutionChain_proofs, SchemaUpgrade_proofs

-----------------------------------------------------------------------------
(* The server implements the chain.                                          *)

\* A call on the tool endpoints is a ConsumeApproval of the chain, or nothing.
LEMMA GateStepIsChainStep ==
    ASSUME NEW c \in Calls, GateOperation(c)
    PROVE  (\E p \in Proposals : ConsumeApproval(p)) \/ UNCHANGED vars
<1>1. ASSUME NEW a \in Approvals \union {Unknown}, ExecuteApproved(c, a)
      PROVE  (\E p \in Proposals : ConsumeApproval(p)) \/ UNCHANGED vars
  BY <1>1 DEF ExecuteApproved, ConsumeGrant
<1>2. QED
  BY <1>1 DEF GateOperation, Refuse, CreateApproval, Block, ExecuteTool, Deny, ToolReturns,
              ToolCrashes, ResolveGrant

\* What the task board's click has the server do is an operation of the chain.
LEMMA ClickIsChainStep ==
    ASSUME NEW p \in Proposals, BeginClick(p) \/ SettleClick(p)
    PROVE  ChainHandler(p) \/ UNCHANGED vars
<1>1. CASE Approve(p)
  BY <1>1 DEF Approve, ChainHandler
<1>2. CASE Proceed(p)
  BY <1>2 DEF Proceed, Perform, ChainHandler
<1>3. CASE Refused(p) \/ Cut(p)
  BY <1>3 DEF Refused, Cut
<1>4. QED
  BY <1>1, <1>2, <1>3 DEF BeginClick, SettleClick

\* Starting, dying, the tool endpoints and the board add no step the chain does
\* not know.
LEMMA ChainStep == [RuntimeNext]_runtimeVars => [Next]_vars
<1> SUFFICES ASSUME [RuntimeNext]_runtimeVars PROVE [Next]_vars
  OBVIOUS
<1>1. CASE Boot
  BY <1>1 DEF Boot, toolVars
<1>2. CASE Serve
  BY <1>2, GateStepIsChainStep DEF Serve, Next, Operation
<1>3. CASE ServerDies
  BY <1>3 DEF ServerDies, CallsLost
<1>4. CASE \E p \in Proposals : BeginClick(p) \/ SettleClick(p)
  BY <1>4, ClickIsChainStep DEF Next, Operation
<1>5. CASE UNCHANGED runtimeVars
  BY <1>5 DEF runtimeVars, toolVars
<1>6. QED
  BY <1>1, <1>2, <1>3, <1>4, <1>5 DEF RuntimeNext

\* Every behaviour of the server, its upgrades, deaths and tool calls
\* included, is a behaviour of the execution chain.
THEOREM RuntimeImplementsChain == RuntimeSpec => Spec
<1>1. RuntimeInit => Init
  BY DEF RuntimeInit
<1> QED
  BY <1>1, ChainStep, PTL DEF RuntimeSpec, Spec

\* Nothing reaches the workspace past a missing gate while tools compete for
\* the approvals and the process dies and upgrades (ExecutionGated).
THEOREM RuntimeGated == RuntimeSpec => []ExecutionGated
  BY RuntimeImplementsChain, Invariance, LinkedGated, PTL

\* Nor does any of this revive a refused proposal (VetoIsFinal).
THEOREM RuntimeVeto == RuntimeSpec => VetoIsFinal
  BY RuntimeImplementsChain, FinalVeto, PTL

\* And the results it records obey the abstract ledger (LedgerSpec).
THEOREM RuntimeLedger == RuntimeSpec => LedgerSpec
  BY RuntimeImplementsChain, ImplementsLedger, PTL

-----------------------------------------------------------------------------
(* The tool gate.  That an approval a call has run on stays spent rests on   *)
(* the chain: only the freeze sets an approval that is not pending, and it   *)
(* finds none on a proposal nobody had to approve.                           *)

NoneYet(p) == ~requires[p] /\ snapshot[p] = "none" => approval[p] = "none"

CallLinked(c) ==
    /\ grant[c] # "none" => call[c] \in {"blocked", "filed"}
    /\ ~Ran(c) => uses[c] = NoApproval
    /\ Ran(c) => Len(audit[c]) >= 1 /\ audit[c][1] = "request"
    /\ call[c] = "running" => Len(audit[c]) <= 2
    /\ call[c] \in {"success", "failed"} => audit[c][Len(audit[c])] = call[c]

GateTyped == GateTypeOK /\ \A c \in Calls : CallLinked(c)

GateInv ==
    /\ Inv
    /\ GateTyped
    /\ \A p \in Proposals : NoneYet(p)
    /\ OneRunPerApproval
    /\ SpentIsAccounted

LEMMA InitGateInv == RuntimeInit => GateInv
<1> SUFFICES ASSUME RuntimeInit PROVE GateInv
  OBVIOUS
<1>1. Inv
  BY InitInv DEF RuntimeInit
<1>2. GateTypeOK
  BY DEF RuntimeInit, GateInit, GateTypeOK, CallStates, NoApproval, ApprovalStatus
<1>3. \A p \in Proposals : NoneYet(p)
  BY DEF RuntimeInit, Init, NoneYet
<1>4. \A c \in Calls : CallLinked(c) /\ ~Ran(c)
  BY DEF RuntimeInit, GateInit, CallLinked, Ran
<1>5. SpentIsAccounted
  BY DEF RuntimeInit, Init, SpentIsAccounted
<1>6. QED
  BY <1>1, <1>2, <1>3, <1>4, <1>5 DEF GateInv, GateTyped, OneRunPerApproval

\* No handler of the chain gives back an approval that was spent, or spends one.
LEMMA ChainKeepsSpent ==
    ASSUME Inv, \A p \in Proposals : NoneYet(p),
           NEW p \in Proposals, ChainHandler(p),
           NEW q \in Proposals
    PROVE  /\ approval[q] = "consumed" => approval'[q] = "consumed"
           /\ NoneYet(q)'
           /\ proposal'[q] = "approved" /\ approval'[q] = "consumed" =>
                  proposal[q] = "approved" /\ approval[q] = "consumed"
<1> DEFINE Kept == /\ approval[q] = "consumed" => approval'[q] = "consumed"
                   /\ NoneYet(q)'
                   /\ proposal'[q] = "approved" /\ approval'[q] = "consumed" =>
                          proposal[q] = "approved" /\ approval[q] = "consumed"
<1> USE DEF NoneYet
<1>0. TypeOK /\ Linked(q) /\ Linked(p) /\ NoneYet(q) /\ NoneYet(p)
  BY DEF Inv
<1>1. ASSUME NEW b \in BOOLEAN, NEW v \in Verdicts, CreateProposal(p, b, v)
      PROVE  Kept
  BY <1>0, <1>1 DEF CreateProposal, TypeOK, Linked
<1>2. ASSUME NEW s \in {"approved", "rejected", "consumed"}, ResolveApproval(p, s)
      PROVE  Kept
  BY <1>0, <1>2 DEF ResolveApproval, TypeOK, Linked
<1>3. ASSUME FreezeSnapshot(p) PROVE Kept
  BY <1>0, <1>3 DEF FreezeSnapshot, Freezable, TypeOK
<1>4. ASSUME UNCHANGED <<proposal, requires, approval, snapshot>> PROVE Kept
  BY <1>0, <1>4
<1>5. QED
  BY <1>1, <1>2, <1>3, <1>4
  DEF ChainHandler, CreateRequest, UpdateRequestStatus, DryRun, Execute,
      Rollback, ExecuteUnrecorded

\* What a step of the server is to the tool gate.
LEMMA StepCases ==
    [RuntimeNext]_runtimeVars =>
        \/ (\E p \in Proposals : ChainHandler(p)) /\ UNCHANGED gateVars
        \/ \E c \in Calls : GateOperation(c)
        \/ CallsLost
        \/ UNCHANGED <<proposal, requires, approval, snapshot, gateVars>>
<1>1. ASSUME NEW p \in Proposals, BeginClick(p) \/ SettleClick(p)
      PROVE  (ChainHandler(p) \/ UNCHANGED vars) /\ UNCHANGED gateVars
  BY <1>1, ClickIsChainStep DEF BeginClick, SettleClick
<1>2. QED
  BY <1>1 DEF RuntimeNext, Boot, Serve, ServerDies, runtimeVars, toolVars, vars

\* A recorded event stays where it is when one more is appended.
LEMMA Appended ==
    ASSUME NEW S, NEW s \in Seq(S), NEW e \in S
    PROVE  /\ Append(s, e) \in Seq(S)
           /\ Len(Append(s, e)) = Len(s) + 1
           /\ Append(s, e)[Len(Append(s, e))] = e
           /\ Len(s) >= 1 => Append(s, e)[1] = s[1]
  OBVIOUS

\* The audit rows a handler may have written when it ends or starts a tool.
LEMMA Recorded ==
    /\ <<>> \in Seq(AuditEvents) /\ Len(<<>>) = 0
    /\ \A e \in AuditEvents : <<e>> \in Seq(AuditEvents) /\ Len(<<e>>) = 1
    /\ \A e, f \in AuditEvents :
           <<e, f>> \in Seq(AuditEvents) /\ Len(<<e, f>>) = 2 /\ <<e, f>>[1] = e
    /\ \A e, f, g \in AuditEvents :
           <<e, f, g>> \in Seq(AuditEvents) /\ Len(<<e, f, g>>) = 3
  OBVIOUS

\* A handler that changes its own call only, and leaves it well recorded.
LEMMA OneCallMoves ==
    ASSUME GateTyped, NEW c \in Calls, NEW r \in CallStates,
           NEW s \in Seq(AuditEvents), Len(s) <= 3,
           call' = [call EXCEPT ![c] = r],
           audit' = [audit EXCEPT ![c] = s],
           uses' \in [Calls -> Approvals \union {NoApproval}],
           grant' \in [Calls -> ApprovalStatus],
           \A d \in Calls \ {c} : uses'[d] = uses[d] /\ (grant'[d] # "none" => grant[d] # "none"),
           CallLinked(c)'
    PROVE  GateTyped'
<1>1. GateTypeOK'
  BY DEF GateTyped, GateTypeOK
<1>2. ASSUME NEW d \in Calls, d # c PROVE CallLinked(d)'
  BY <1>2 DEF GateTyped, GateTypeOK, CallLinked, Ran
<1>3. QED
  BY <1>1, <1>2 DEF GateTyped

\* A call's state, its approval and its audit rows move together.
LEMMA GateCallStep ==
    ASSUME GateTyped, [RuntimeNext]_runtimeVars
    PROVE  GateTyped'
<1>1. ASSUME UNCHANGED gateVars PROVE GateTyped'
  BY <1>1 DEF gateVars, GateTyped, GateTypeOK, CallLinked, Ran
<1>2. ASSUME NEW c \in Calls, NEW r \in {"refused", "denied", "blocked", "filed"},
             NEW s \in Seq(AuditEvents), Len(s) <= 3, Ends(c, r, s),
             UNCHANGED uses, grant' \in [Calls -> ApprovalStatus],
             grant'[c] # "none" => r \in {"blocked", "filed"},
             \A d \in Calls \ {c} : grant'[d] = grant[d]
      PROVE  GateTyped'
  <2>1. r \in CallStates
    BY DEF CallStates
  <2>2. uses[c] = NoApproval
    BY <1>2 DEF GateTyped, CallLinked, Ran, Ends
  <2>3. CallLinked(c)'
    BY <1>2, <2>2 DEF CallLinked, Ran, Ends, GateTyped, GateTypeOK
  <2>4. QED
    BY <1>2, <2>1, <2>3, OneCallMoves DEF Ends, GateTyped, GateTypeOK
<1>3. ASSUME NEW c \in Calls, NEW s \in Seq(AuditEvents), Len(s) >= 1, Len(s) <= 2,
             s[1] = "request", call[c] = "none",
             call' = [call EXCEPT ![c] = "running"],
             audit' = [audit EXCEPT ![c] = s],
             uses' \in [Calls -> Approvals \union {NoApproval}],
             grant' \in [Calls -> ApprovalStatus],
             grant'[c] = "none",
             \A d \in Calls \ {c} : uses'[d] = uses[d] /\ (grant'[d] # "none" => grant[d] # "none")
      PROVE  GateTyped'
  <2>1. "running" \in CallStates
    BY DEF CallStates
  <2>2. CallLinked(c)'
    BY <1>3 DEF CallLinked, Ran, GateTyped, GateTypeOK
  <2>3. Len(s) <= 3
    BY <1>3
  <2>4. QED
    BY <1>3, <2>1, <2>2, <2>3, OneCallMoves
<1>4. ASSUME NEW c \in Calls, NEW r \in {"success", "failed", "raised"},
             NEW s \in Seq(AuditEvents), Len(s) >= 1, Len(s) <= 3, s[1] = "request",
             r # "raised" => s[Len(s)] = r,
             call[c] = "running",
             call' = [call EXCEPT ![c] = r],
             audit' = [audit EXCEPT ![c] = s],
             UNCHANGED <<uses, grant>>
      PROVE  GateTyped'
  <2>1. r \in CallStates
    BY DEF CallStates
  <2>2. CallLinked(c)'
    BY <1>4 DEF CallLinked, Ran, GateTyped, GateTypeOK
  <2>3. QED
    BY <1>4, <2>1, <2>2, OneCallMoves DEF GateTyped, GateTypeOK
<1>5. ASSUME NEW c \in Calls, call[c] = "none"
      PROVE  grant[c] = "none"
  BY <1>5 DEF GateTyped, CallLinked
<1>6. ASSUME NEW c \in Calls, Refuse(c) PROVE GateTyped'
  <2>1. /\ <<>> \in Seq(AuditEvents) /\ Len(<<>>) <= 3
        /\ <<"request">> \in Seq(AuditEvents) /\ Len(<<"request">>) <= 3
        /\ <<"request", "role_denied">> \in Seq(AuditEvents)
        /\ Len(<<"request", "role_denied">>) <= 3
    BY Recorded DEF AuditEvents
  <2>2. QED
    BY <1>2, <1>5, <1>6, <2>1 DEF Refuse, Ends, GateTyped, GateTypeOK
<1>7. ASSUME NEW c \in Calls, NEW m \in SUBSET {"high", "critical"}, Block(c, m)
      PROVE  GateTyped'
  <2>1. LET s == <<"request", "risk_classified", "blocked">>
        IN  s \in Seq(AuditEvents) /\ Len(s) <= 3
    BY Recorded DEF AuditEvents
  <2>2. /\ grant' \in [Calls -> ApprovalStatus]
        /\ \A d \in Calls \ {c} : grant'[d] = grant[d]
    BY <1>7 DEF Block, GateTyped, GateTypeOK, ApprovalStatus
  <2>3. QED
    BY <1>2, <1>7, <2>1, <2>2 DEF Block
<1>8. ASSUME NEW c \in Calls, CreateApproval(c) PROVE GateTyped'
  <2>1. /\ grant' \in [Calls -> ApprovalStatus]
        /\ \A d \in Calls \ {c} : grant'[d] = grant[d]
    BY <1>8 DEF CreateApproval, GateTyped, GateTypeOK, ApprovalStatus
  <2>2. <<>> \in Seq(AuditEvents) /\ Len(<<>>) <= 3
    BY Recorded
  <2>3. QED
    BY <1>2, <1>8, <2>1, <2>2 DEF CreateApproval
<1>9. ASSUME NEW c \in Calls, NEW m \in SUBSET {"high", "critical"},
             ExecuteTool(c, m)
      PROVE  GateTyped'
  <2>1. LET s == <<"request", "risk_classified">>
        IN  s \in Seq(AuditEvents) /\ Len(s) >= 1 /\ Len(s) <= 2 /\ s[1] = "request"
    BY Recorded DEF AuditEvents
  <2>2. QED
    BY <1>3, <1>5, <1>9, <2>1 DEF ExecuteTool, Ends, GateTyped, GateTypeOK
<1>10. ASSUME NEW c \in Calls, NEW a \in Approvals \union {Unknown},
             ExecuteApproved(c, a)
      PROVE  GateTyped'
  <2>1. a \in Approvals /\ grant[c] = "none"
    BY <1>5, <1>10 DEF ExecuteApproved, Approvals
  <2>2. grant' = grant \/ (a \in Calls /\ ConsumeGrant(a))
    BY <1>10 DEF ExecuteApproved
  <2>3. /\ grant' \in [Calls -> ApprovalStatus] /\ grant'[c] = "none"
        /\ \A d \in Calls \ {c} : grant'[d] # "none" => grant[d] # "none"
    BY <2>1, <2>2 DEF ConsumeGrant, ApprovalStatus, GateTyped, GateTypeOK
  <2>4. /\ uses' \in [Calls -> Approvals \union {NoApproval}]
        /\ \A d \in Calls \ {c} : uses'[d] = uses[d]
    BY <1>10, <2>1 DEF ExecuteApproved, GateTyped, GateTypeOK
  <2>5. LET s == <<"request">>
        IN  s \in Seq(AuditEvents) /\ Len(s) >= 1 /\ Len(s) <= 2 /\ s[1] = "request"
    BY Recorded DEF AuditEvents
  <2>6. QED
    BY <1>3, <1>10, <2>3, <2>4, <2>5 DEF ExecuteApproved
<1>11. ASSUME NEW c \in Calls, NEW a \in Approvals \union {Unknown}, Deny(c, a)
       PROVE  GateTyped'
  <2>1. \A e \in {"already_consumed", "denied"} :
            <<"request", e>> \in Seq(AuditEvents) /\ Len(<<"request", e>>) <= 3
    BY Recorded DEF AuditEvents
  <2>2. PICK e \in {"already_consumed", "denied"} : Ends(c, "denied", <<"request", e>>)
    BY <1>11 DEF Deny
  <2>3. QED
    BY <1>2, <1>5, <1>11, <2>1, <2>2 DEF Deny, Ends, GateTyped, GateTypeOK
<1>12. ASSUME NEW c \in Calls, call[c] = "running"
       PROVE  /\ audit[c] \in Seq(AuditEvents)
              /\ Len(audit[c]) >= 1 /\ Len(audit[c]) <= 2 /\ audit[c][1] = "request"
  BY <1>12 DEF GateTyped, GateTypeOK, CallLinked, Ran
<1>13. ASSUME NEW c \in Calls, NEW o \in {"success", "failed"}, ToolReturns(c, o)
       PROVE  GateTyped'
  <2>1. call[c] = "running" /\ o \in AuditEvents
    BY <1>13 DEF ToolReturns, AuditEvents
  <2>2. LET s == Append(audit[c], o)
        IN  s \in Seq(AuditEvents) /\ Len(s) >= 1 /\ Len(s) <= 3 /\ s[1] = "request" /\ s[Len(s)] = o
    BY <1>12, <2>1, Appended
  <2>3. audit' = [audit EXCEPT ![c] = Append(audit[c], o)]
    BY <1>13 DEF ToolReturns
  <2>4. QED
    BY <1>4, <1>13, <2>1, <2>2, <2>3 DEF ToolReturns
<1>14. ASSUME NEW c \in Calls, ToolCrashes(c) PROVE GateTyped'
  <2>1. call[c] = "running" /\ audit' = [audit EXCEPT ![c] = audit[c]]
    BY <1>14 DEF ToolCrashes, GateTyped, GateTypeOK
  <2>2. /\ audit[c] \in Seq(AuditEvents) /\ audit[c][1] = "request"
        /\ Len(audit[c]) >= 1 /\ Len(audit[c]) <= 3
    BY <1>12, <2>1
  <2>3. call' = [call EXCEPT ![c] = "raised"] /\ UNCHANGED <<uses, grant>>
    BY <1>14 DEF ToolCrashes
  <2>4. QED
    BY <1>4, <2>1, <2>2, <2>3
<1>15. ASSUME NEW c \in Calls, NEW s \in {"approved", "rejected", "consumed"},
             ResolveGrant(c, s)
      PROVE  GateTyped'
  BY <1>15 DEF ResolveGrant, GateTyped, GateTypeOK, CallLinked, Ran, ApprovalStatus
<1>16. ASSUME CallsLost PROVE GateTyped'
  <2>1. GateTypeOK'
    BY <1>16 DEF CallsLost, GateTyped, GateTypeOK, CallStates
  <2>2. ASSUME NEW c \in Calls PROVE CallLinked(c)'
    BY <1>16 DEF CallsLost, GateTyped, GateTypeOK, CallLinked, Ran
  <2>3. QED
    BY <2>1, <2>2 DEF GateTyped
<1>17. QED
  BY StepCases, <1>1, <1>6, <1>7, <1>9, <1>10, <1>11, <1>13, <1>14, <1>15, <1>16,
     <1>8
  DEF GateOperation, gateVars

-----------------------------------------------------------------------------
(* One tool run per approval.                                                *)

\* Only a call that runs on an approval uses one, and a call that ran has run.
LEMMA UsesStep ==
    ASSUME GateTyped, [RuntimeNext]_runtimeVars
    PROVE  \/ \E c \in Calls, a \in Approvals \union {Unknown} : ExecuteApproved(c, a)
           \/ uses' = uses /\ \A c \in Calls : Ran(c) => Ran(c)'
<1>1. ASSUME CallsLost
      PROVE  uses' = uses /\ \A c \in Calls : Ran(c) => Ran(c)'
  BY <1>1 DEF CallsLost, Ran
<1>2. ASSUME NEW c \in Calls, NEW d \in Calls, Ran(d),
             Refuse(c) \/ CreateApproval(c)
                 \/ (\E m \in SUBSET {"high", "critical"} : Block(c, m) \/ ExecuteTool(c, m))
                 \/ (\E a \in Approvals \union {Unknown} : Deny(c, a))
      PROVE  Ran(d)'
  BY <1>2 DEF Refuse, CreateApproval, Block, ExecuteTool, Deny, Ends, Ran, GateTyped, GateTypeOK
<1>3. ASSUME NEW c \in Calls, NEW d \in Calls, Ran(d),
             (\E o \in {"success", "failed"} : ToolReturns(c, o)) \/ ToolCrashes(c)
                 \/ \E s \in {"approved", "rejected", "consumed"} : ResolveGrant(c, s)
      PROVE  Ran(d)'
  BY <1>3 DEF ToolReturns, ToolCrashes, ResolveGrant, Ran, GateTyped, GateTypeOK
<1>4. ASSUME NEW c \in Calls, GateOperation(c),
             ~ \E a \in Approvals \union {Unknown} : ExecuteApproved(c, a)
      PROVE  uses' = uses /\ \A d \in Calls : Ran(d) => Ran(d)'
  <2>1. uses' = uses
    BY <1>4 DEF GateOperation, Refuse, CreateApproval, Block, ExecuteTool, Deny, ToolReturns,
                ToolCrashes, ResolveGrant
  <2>2. QED
    BY <1>2, <1>3, <1>4, <2>1 DEF GateOperation
<1>5. QED
  BY StepCases, <1>1, <1>4 DEF Ran, gateVars

\* A tool run leaves the approval of every other proposal alone.
LEMMA ExecuteApprovedStep ==
    ASSUME GateTyped, Inv, NEW c \in Calls, NEW a \in Approvals \union {Unknown},
           ExecuteApproved(c, a)
    PROVE  /\ a \in Approvals /\ StatusOf(a) = "approved" /\ StatusOf(a)' = "consumed"
           /\ uses' = [uses EXCEPT ![c] = a] /\ ~Ran(c) /\ Ran(c)'
           /\ \A d \in Calls \ {c} : Ran(d)' = Ran(d)
           /\ \A b \in Approvals \ {a} : StatusOf(b)' = StatusOf(b)
           /\ UNCHANGED <<proposal, requires, snapshot>>
<1>1. CASE a \in Calls /\ ConsumeGrant(a)
  BY <1>1, CallsAssumption DEF ExecuteApproved, ConsumeGrant, StatusOf, Approvals,
     GateTyped, GateTypeOK, Ran, vars
<1>2. CASE a \in Proposals /\ ConsumeApproval(a) /\ UNCHANGED grant
  BY <1>2, CallsAssumption DEF ExecuteApproved, ConsumeApproval, StatusOf, Approvals,
     GateTyped, GateTypeOK, Ran, Inv, TypeOK
<1>3. QED
  BY <1>1, <1>2 DEF ExecuteApproved

\* A step that runs no tool on an approval spends none, and gives none back.
LEMMA OtherStep ==
    ASSUME GateInv, [RuntimeNext]_runtimeVars,
           ~ \E c \in Calls, a \in Approvals \union {Unknown} : ExecuteApproved(c, a)
    PROVE  /\ \A a \in Approvals : StatusOf(a) = "consumed" => StatusOf(a)' = "consumed"
           /\ \A p \in Proposals :
                 /\ NoneYet(p)'
                 /\ proposal'[p] = "approved" /\ approval'[p] = "consumed" =>
                        proposal[p] = "approved" /\ approval[p] = "consumed"
<1>1. ASSUME NEW p \in Proposals, ChainHandler(p), UNCHANGED gateVars
      PROVE  /\ \A a \in Approvals : StatusOf(a) = "consumed" => StatusOf(a)' = "consumed"
             /\ \A q \in Proposals :
                   /\ NoneYet(q)'
                   /\ proposal'[q] = "approved" /\ approval'[q] = "consumed" =>
                          proposal[q] = "approved" /\ approval[q] = "consumed"
  <2>1. Inv /\ \A q \in Proposals : NoneYet(q)
    BY DEF GateInv
  <2>2. QED
    BY <1>1, <2>1, ChainKeepsSpent DEF StatusOf, Approvals, gateVars
<1>2. ASSUME NEW c \in Calls, GateOperation(c)
      PROVE  UNCHANGED vars /\ \A a \in Calls : grant[a] = "consumed" => grant'[a] = "consumed"
  BY <1>2 DEF GateInv, GateTyped, GateTypeOK, GateOperation, Refuse, CreateApproval, Block, ExecuteTool,
              Deny, ToolReturns, ToolCrashes, ResolveGrant, Ends, CallLinked
<1>3. QED
  BY StepCases, <1>1, <1>2 DEF GateInv, NoneYet, StatusOf, CallsLost, vars, gateVars

\* One step keeps the tool gate's invariant.
LEMMA GateStep == GateInv /\ [RuntimeNext]_runtimeVars => GateInv'
<1> SUFFICES ASSUME GateInv, [RuntimeNext]_runtimeVars PROVE GateInv'
  OBVIOUS
<1>1. Inv'
  BY ChainStep, LinkedStep DEF GateInv
<1>2. GateTyped'
  BY GateCallStep DEF GateInv
<1>3. ASSUME NEW c \in Calls, NEW a \in Approvals \union {Unknown},
             ExecuteApproved(c, a)
      PROVE  (\A p \in Proposals : NoneYet(p)') /\ OneRunPerApproval' /\ SpentIsAccounted'
  <2>0. /\ a \in Approvals /\ StatusOf(a) = "approved" /\ StatusOf(a)' = "consumed"
        /\ uses' = [uses EXCEPT ![c] = a] /\ ~Ran(c) /\ Ran(c)'
        /\ \A d \in Calls \ {c} : Ran(d)' = Ran(d)
        /\ \A b \in Approvals \ {a} : StatusOf(b)' = StatusOf(b)
        /\ UNCHANGED <<proposal, requires, snapshot>>
    BY <1>3, ExecuteApprovedStep DEF GateInv
  <2>1. ASSUME NEW p \in Proposals PROVE NoneYet(p)'
    BY <2>0 DEF GateInv, NoneYet, StatusOf, Approvals
  <2>2. OneRunPerApproval'
    BY <2>0 DEF GateInv, OneRunPerApproval, GateTyped, GateTypeOK
  <2>3. ASSUME NEW p \in Proposals, proposal'[p] = "approved", approval'[p] = "consumed"
        PROVE  \E d \in Calls : uses'[d] = p /\ Ran(d)'
    <3>1. CASE p = a
      BY <2>0, <3>1 DEF GateInv, GateTyped, GateTypeOK
    <3>2. CASE p # a
      <4>1. proposal[p] = "approved" /\ approval[p] = "consumed"
        BY <2>0, <2>3, <3>2 DEF StatusOf, Approvals
      <4>2. PICK d \in Calls : uses[d] = p /\ Ran(d)
        BY <4>1 DEF GateInv, SpentIsAccounted
      <4>3. d # c
        BY <2>0, <4>2
      <4>4. QED
        BY <2>0, <4>2, <4>3 DEF GateInv, GateTyped, GateTypeOK
    <3>3. QED
      BY <3>1, <3>2
  <2>4. QED
    BY <1>2, <2>1, <2>2, <2>3 DEF SpentIsAccounted, GateTyped, CallLinked
<1>4. ASSUME ~ \E c \in Calls, a \in Approvals \union {Unknown} : ExecuteApproved(c, a)
      PROVE  (\A p \in Proposals : NoneYet(p)') /\ OneRunPerApproval' /\ SpentIsAccounted'
  <2>1. uses' = uses /\ \A c \in Calls : Ran(c) => Ran(c)'
    BY <1>4, UsesStep DEF GateInv
  <2>2. /\ \A a \in Approvals : StatusOf(a) = "consumed" => StatusOf(a)' = "consumed"
        /\ \A p \in Proposals :
              /\ NoneYet(p)'
              /\ proposal'[p] = "approved" /\ approval'[p] = "consumed" =>
                     proposal[p] = "approved" /\ approval[p] = "consumed"
    BY <1>4, OtherStep
  <2>3. ASSUME NEW c \in Calls, uses[c] # NoApproval
        PROVE  Ran(c) /\ uses[c] \in Approvals
    BY <2>3 DEF GateInv, GateTyped, GateTypeOK, CallLinked
  <2>4. OneRunPerApproval'
    BY <2>1, <2>2, <2>3 DEF GateInv, OneRunPerApproval
  <2>5. ASSUME NEW p \in Proposals, proposal'[p] = "approved", approval'[p] = "consumed"
        PROVE  \E d \in Calls : uses'[d] = p /\ Ran(d)'
    BY <2>1, <2>2, <2>5 DEF GateInv, SpentIsAccounted
  <2>6. QED
    BY <1>2, <2>2, <2>4, <2>5 DEF SpentIsAccounted, GateTyped, CallLinked
<1>5. QED
  BY <1>1, <1>2, <1>3, <1>4 DEF GateInv

\* The tool gate's invariant holds throughout.
LEMMA GateInvariance == RuntimeSpec => []GateInv
  BY InitGateInv, GateStep, PTL DEF RuntimeSpec

\* For every set of approvals and calls, in any order and with the process
\* dying at any moment, one "yes" is one tool run (OneRunPerApproval).
THEOREM OneRun == RuntimeSpec => []OneRunPerApproval
<1>1. GateInv => OneRunPerApproval
  BY DEF GateInv
<1> QED
  BY <1>1, GateInvariance, PTL

\* And an approved proposal whose approval is gone is explained by the audit
\* rows of the tool call that spent it (SpentIsAccounted).
THEOREM Accounted == RuntimeSpec => []SpentIsAccounted
<1>1. GateInv => SpentIsAccounted
  BY DEF GateInv
<1> QED
  BY <1>1, GateInvariance, PTL

-----------------------------------------------------------------------------
(* The timeline.                                                             *)

\* No handler of the chain takes an event off the timeline.
LEMMA ChainKeepsEvents ==
    ASSUME Inv, NEW p \in Proposals, ChainHandler(p),
           NEW q \in Proposals, NEW t \in EventTypes, Occurred(t, q)
    PROVE  Occurred(t, q)'
<1> USE DEF Occurred, Decided, TypeOK, Inv, Linked, Modes, Outcomes
<1>1. ASSUME NEW b \in BOOLEAN, NEW v \in Verdicts, CreateProposal(p, b, v)
      PROVE  Occurred(t, q)'
  BY <1>1 DEF CreateProposal
<1>2. ASSUME NEW s \in {"approved", "rejected", "consumed"}, ResolveApproval(p, s)
      PROVE  Occurred(t, q)'
  BY <1>2 DEF ResolveApproval
<1>3. ASSUME FreezeSnapshot(p) PROVE Occurred(t, q)'
  BY <1>3 DEF FreezeSnapshot, Freezable
<1>4. ASSUME CreateRequest(p) PROVE Occurred(t, q)'
  BY <1>4 DEF CreateRequest
<1>5. ASSUME NEW s \in {"confirmed", "rejected"}, UpdateRequestStatus(p, s)
      PROVE  Occurred(t, q)'
  BY <1>5 DEF UpdateRequestStatus
<1>6. ASSUME NEW o \in Outcomes, DryRun(p, o) PROVE Occurred(t, q)'
  BY <1>6 DEF DryRun
<1>7. ASSUME NEW o \in Outcomes, Execute(p, o) PROVE Occurred(t, q)'
  BY <1>7 DEF Execute, MayExecute
<1>8. ASSUME NEW o \in Outcomes, Rollback(p, o) PROVE Occurred(t, q)'
  BY <1>8 DEF Rollback
<1>9. CASE ExecuteUnrecorded(p)
  BY <1>9 DEF ExecuteUnrecorded
<1>10. QED
  BY <1>1, <1>2, <1>3, <1>4, <1>5, <1>6, <1>7, <1>8, <1>9 DEF ChainHandler

\* One step keeps the timeline, but for the decision a tool run spends.
LEMMA TrailStep ==
    ASSUME GateInv, [RuntimeNext]_runtimeVars, NEW e \in Trail
    PROVE  \/ e \in Trail'
           \/ /\ e[1] = "approval:decided"
              /\ \E c \in Calls : ~Ran(c) /\ Ran(c)' /\ uses'[c] = e[2]
<1>1. PICK t \in EventTypes, q \in Proposals : e = <<t, q>> /\ Occurred(t, q)
  BY DEF Trail
<1>2. e[1] = t /\ e[2] = q /\ (Occurred(t, q)' => e \in Trail')
  BY <1>1 DEF Trail
<1>3. CASE \E p \in Proposals : ChainHandler(p)
  BY <1>1, <1>2, <1>3, ChainKeepsEvents DEF GateInv
<1>4. CASE UNCHANGED vars
  BY <1>1, <1>2, <1>4 DEF Occurred, vars
<1>5. CASE \E p \in Proposals : BeginClick(p) \/ SettleClick(p)
  BY <1>3, <1>4, <1>5, ClickIsChainStep
<1>6. ASSUME NEW c \in Calls, NEW a \in Approvals \union {Unknown},
             ExecuteApproved(c, a)
      PROVE  \/ Occurred(t, q)'
             \/ t = "approval:decided" /\ ~Ran(c) /\ Ran(c)' /\ uses'[c] = q
  <2>0. ~Ran(c) /\ Ran(c)' /\ uses'[c] = a
    BY <1>6, ExecuteApprovedStep DEF GateInv, GateTyped, GateTypeOK
  <2>1. CASE UNCHANGED vars
    BY <1>1, <2>1 DEF Occurred, vars
  <2>2. CASE a \in Proposals /\ ConsumeApproval(a)
    BY <1>1, <2>0, <2>2 DEF Occurred, Decided, ConsumeApproval, GateInv, Inv, TypeOK
  <2>3. QED
    BY <1>6, <2>1, <2>2 DEF ExecuteApproved, ConsumeGrant
<1>7. CASE \E c \in Calls : GateOperation(c)
  <2>1. UNCHANGED vars \/ \E c \in Calls, a \in Approvals \union {Unknown} : ExecuteApproved(c, a)
    BY <1>7 DEF GateOperation, Refuse, CreateApproval, Block, ExecuteTool, Deny, ToolReturns,
                ToolCrashes, ResolveGrant
  <2>2. QED
    BY <1>2, <1>4, <1>6, <2>1
<1>8. QED
  BY <1>3, <1>4, <1>5, <1>7
  DEF RuntimeNext, Boot, Serve, ServerDies, CallsLost, runtimeVars, toolVars

\* What the timeline of a task has shown stays there (AuditTrailGrows).
THEOREM TrailGrows == RuntimeSpec => AuditTrailGrows
<1>1. GateInv /\ [RuntimeNext]_runtimeVars =>
        [\A e \in Trail :
            \/ e \in Trail'
            \/ /\ e[1] = "approval:decided"
               /\ \E c \in Calls : ~Ran(c) /\ Ran(c)' /\ uses'[c] = e[2]]_runtimeVars
  BY TrailStep
<1> QED
  BY <1>1, GateInvariance, PTL DEF RuntimeSpec, AuditTrailGrows

-----------------------------------------------------------------------------
(* The click on the task board.  That it is refused for no other cause rests *)
(* on what its earlier answers have told it, and nobody can take back.       *)

ClickLinked(p) ==
    /\ click[p] = "none" => posts[p] = "freeze"
    /\ click[p] # "none" =>
           proposal[p] = "approved" /\ approval[p] \in {"approved", "consumed"}
    /\ click[p] # "none" /\ posts[p] # "freeze" => snapshot[p] = "frozen"
    /\ click[p] # "none" /\ posts[p] \in {"confirm", "dry_run"} => request[p] # "none"
    /\ click[p] # "none" /\ posts[p] = "dry_run" => request[p] = "confirmed"

\* A click that has ended rehearsed the plan, or was refused for a cause.
ClickAnswered(p) ==
    /\ click[p] = "done" => result[p]["dry_run"] # "none"
    /\ click[p] = "refused" => Forestalled(p)

ClickKnown(p) ==
    /\ ClickLinked(p) /\ ClickAnswered(p)
    /\ click[p] = "refused" /\ posts[p] = "freeze" => requires[p]

ClickInv ==
    /\ GateInv
    /\ ClickTypeOK
    /\ \A p \in Proposals : ClickKnown(p)

\* What an approved proposal has reached, no operation takes back.
LEMMA ApprovedKeeps ==
    ASSUME Inv, [Next]_vars, NEW p \in Proposals,
           proposal[p] = "approved", approval[p] \in {"approved", "consumed"}
    PROVE  /\ proposal'[p] = "approved" /\ approval'[p] \in {"approved", "consumed"}
           /\ requires'[p] = requires[p]
           /\ snapshot[p] = "frozen" => snapshot'[p] = "frozen"
           /\ request[p] # "none" => request'[p] # "none"
           /\ request[p] \in {"confirmed", "rejected"} => request'[p] = request[p]
           /\ result[p]["dry_run"] # "none" => result'[p]["dry_run"] # "none"
           /\ requires[p] /\ approval[p] = "consumed" /\ snapshot[p] = "none" =>
                  approval'[p] = "consumed" /\ snapshot'[p] = "none"
<1> DEFINE Kept ==
       /\ proposal'[p] = "approved" /\ approval'[p] \in {"approved", "consumed"}
       /\ requires'[p] = requires[p]
       /\ snapshot[p] = "frozen" => snapshot'[p] = "frozen"
       /\ request[p] # "none" => request'[p] # "none"
       /\ request[p] \in {"confirmed", "rejected"} => request'[p] = request[p]
       /\ result[p]["dry_run"] # "none" => result'[p]["dry_run"] # "none"
       /\ requires[p] /\ approval[p] = "consumed" /\ snapshot[p] = "none" =>
              approval'[p] = "consumed" /\ snapshot'[p] = "none"
<1> USE DEF Inv, TypeOK, Modes, Outcomes
<1>1. ASSUME NEW q \in Proposals, NEW b \in BOOLEAN, NEW v \in Verdicts,
             CreateProposal(q, b, v)
      PROVE  Kept
  BY <1>1 DEF CreateProposal
<1>2. ASSUME NEW q \in Proposals, NEW s \in {"approved", "rejected", "consumed"},
             ResolveApproval(q, s)
      PROVE  Kept
  BY <1>2 DEF ResolveApproval
<1>3. ASSUME NEW q \in Proposals, ConsumeApproval(q) PROVE Kept
  BY <1>3 DEF ConsumeApproval
<1>4. ASSUME NEW q \in Proposals, FreezeSnapshot(q) PROVE Kept
  BY <1>4 DEF FreezeSnapshot, Freezable
<1>5. ASSUME NEW q \in Proposals, CreateRequest(q) PROVE Kept
  BY <1>5 DEF CreateRequest
<1>6. ASSUME NEW q \in Proposals, NEW s \in {"confirmed", "rejected"},
             UpdateRequestStatus(q, s)
      PROVE  Kept
  BY <1>6 DEF UpdateRequestStatus
<1>7. ASSUME NEW q \in Proposals, NEW o \in Outcomes, DryRun(q, o) PROVE Kept
  BY <1>7 DEF DryRun
<1>8. ASSUME NEW q \in Proposals, NEW o \in Outcomes, Execute(q, o) PROVE Kept
  BY <1>8 DEF Execute
<1>9. ASSUME NEW q \in Proposals, NEW o \in Outcomes, Rollback(q, o) PROVE Kept
  BY <1>9 DEF Rollback
<1>10. CASE UNCHANGED <<proposal, requires, approval, snapshot, request, result>>
  BY <1>10
<1>11. QED
  BY <1>1, <1>2, <1>3, <1>4, <1>5, <1>6, <1>7, <1>8, <1>9, <1>10
  DEF Next, Operation, ChainHandler, ExecuteUnrecorded, vars

\* Whatever the server does, a click it does not answer stays where it is.
LEMMA OtherClick ==
    ASSUME ClickInv, [RuntimeNext]_runtimeVars, NEW p \in Proposals,
           click'[p] = click[p], posts'[p] = posts[p]
    PROVE  ClickKnown(p)'
<1>1. Inv /\ [Next]_vars /\ ClickLinked(p) /\ ClickAnswered(p)
  BY ChainStep DEF ClickInv, ClickKnown, GateInv
<1>2. click[p] = "refused" /\ posts[p] = "freeze" => requires[p]
  BY DEF ClickInv, ClickKnown
<1>3. CASE click[p] = "none"
  BY <1>1, <1>3 DEF ClickKnown, ClickLinked, ClickAnswered
<1>4. CASE click[p] # "none"
  <2>1. ClickLinked(p)'
    BY <1>1, <1>4, ApprovedKeeps DEF ClickLinked
  <2>2. click[p] = "refused" /\ posts[p] = "freeze" => requires'[p]
    BY <1>1, <1>2, <1>4, ApprovedKeeps DEF ClickLinked
  <2>3. ClickAnswered(p)'
    BY <1>1, <1>2, <1>4, ApprovedKeeps DEF ClickLinked, ClickAnswered, Forestalled
  <2>4. QED
    BY <2>1, <2>2, <2>3 DEF ClickKnown
<1>5. QED
  BY <1>3, <1>4

\* The answer to a request tells the click how far its plan has come.
LEMMA ClickProceeds ==
    ASSUME ClickInv, NEW p \in Proposals, Proceed(p), [Next]_vars
    PROVE  ClickKnown(p)'
<1>0. /\ Inv /\ ClickLinked(p) /\ click[p] = "waits"
      /\ posts[p] \in Posts /\ ClickTypeOK
  BY DEF ClickInv, ClickKnown, GateInv, Proceed, ClickTypeOK
<1>1. /\ proposal'[p] = "approved" /\ approval'[p] \in {"approved", "consumed"}
      /\ snapshot[p] = "frozen" => snapshot'[p] = "frozen"
      /\ request[p] # "none" => request'[p] # "none"
      /\ request[p] = "confirmed" => request'[p] = "confirmed"
      /\ result[p]["dry_run"] # "none" => result'[p]["dry_run"] # "none"
  BY <1>0, ApprovedKeeps DEF ClickLinked
<1>2. CASE posts[p] = "freeze"
  <2>1. snapshot'[p] = "frozen"
    BY <1>0, <1>1, <1>2 DEF Proceed, Already, Perform, FreezeSnapshot, Inv, TypeOK
  <2>2. click'[p] = "waits" /\ posts'[p] = "request"
    BY <1>0, <1>2 DEF Proceed, FollowingPost, ClickTypeOK
  <2>3. QED
    BY <1>1, <2>1, <2>2 DEF ClickKnown, ClickLinked, ClickAnswered
<1>3. CASE posts[p] = "request"
  <2>1. request'[p] # "none"
    BY <1>0, <1>1, <1>3 DEF Proceed, Already, Perform, CreateRequest, Inv, TypeOK
  <2>2. click'[p] = "waits" /\ posts'[p] = "confirm"
    BY <1>0, <1>3 DEF Proceed, FollowingPost, ClickTypeOK
  <2>3. snapshot'[p] = "frozen"
    BY <1>0, <1>1, <1>3 DEF ClickLinked
  <2>4. QED
    BY <1>1, <2>1, <2>2, <2>3 DEF ClickKnown, ClickLinked, ClickAnswered
<1>4. CASE posts[p] = "confirm"
  <2>1. request'[p] = "confirmed"
    BY <1>0, <1>1, <1>4 DEF Proceed, Already, Perform, UpdateRequestStatus, Inv, TypeOK
  <2>2. click'[p] = "waits" /\ posts'[p] = "dry_run"
    BY <1>0, <1>4 DEF Proceed, FollowingPost, ClickTypeOK
  <2>3. snapshot'[p] = "frozen"
    BY <1>0, <1>1, <1>4 DEF ClickLinked
  <2>4. QED
    BY <1>1, <2>1, <2>2, <2>3 DEF ClickKnown, ClickLinked, ClickAnswered
<1>5. CASE posts[p] = "dry_run"
  <2>1. result'[p]["dry_run"] # "none"
    BY <1>0, <1>1, <1>5 DEF Proceed, Already, Perform, DryRun, Inv, TypeOK, Modes, Outcomes
  <2>2. click'[p] = "done" /\ posts'[p] = "dry_run"
    BY <1>0, <1>5 DEF Proceed, FollowingPost, ClickTypeOK
  <2>3. snapshot'[p] = "frozen" /\ request'[p] = "confirmed"
    BY <1>0, <1>1, <1>5 DEF ClickLinked
  <2>4. QED
    BY <1>1, <2>1, <2>2, <2>3 DEF ClickKnown, ClickLinked, ClickAnswered
<1>6. QED
  BY <1>0, <1>2, <1>3, <1>4, <1>5 DEF Posts

\* A request is refused when another client took what it asks for.
LEMMA ClickRefused ==
    ASSUME ClickInv, NEW p \in Proposals, Refused(p)
    PROVE  ClickKnown(p)'
<1>0. /\ Inv /\ ClickLinked(p) /\ click[p] = "waits" /\ posts[p] \in Posts
      /\ click'[p] = "refused" /\ UNCHANGED vars /\ posts' = posts
  BY DEF ClickInv, ClickKnown, GateInv, Refused, ClickTypeOK
<1>1. ClickLinked(p)'
  BY <1>0 DEF ClickLinked, vars
<1>2. CASE posts[p] = "freeze"
  <2>1. snapshot[p] = "none" /\ ~Freezable(p)
    BY <1>0, <1>2 DEF Refused, Already, Acceptable, Inv, TypeOK, SnapshotStatus
  <2>2. requires[p] /\ approval[p] = "consumed"
    BY <1>0, <2>1 DEF ClickLinked, Freezable
  <2>3. QED
    BY <1>0, <1>1, <1>2, <2>1, <2>2 DEF ClickKnown, ClickAnswered, Forestalled, vars
<1>3. CASE posts[p] = "request"
  BY <1>0, <1>3 DEF Refused, Already, Acceptable, ClickLinked
<1>4. CASE posts[p] = "confirm"
  <2>1. request[p] \in {"confirmed", "rejected"}
    BY <1>0, <1>4 DEF Refused, Acceptable, ClickLinked, Inv, TypeOK, RequestStatus
  <2>2. QED
    BY <1>0, <1>1, <1>4, <2>1 DEF ClickKnown, ClickAnswered, Forestalled, vars
<1>5. CASE posts[p] = "dry_run"
  BY <1>0, <1>5 DEF Refused, Already, Acceptable, ClickLinked
<1>6. QED
  BY <1>0, <1>2, <1>3, <1>4, <1>5 DEF Posts

LEMMA InitClickInv == RuntimeInit => ClickInv
<1> SUFFICES ASSUME RuntimeInit PROVE ClickInv
  OBVIOUS
<1>1. GateInv
  BY InitGateInv
<1>2. ClickTypeOK
  BY DEF RuntimeInit, ClickInit, ClickTypeOK, Clicks, Posts
<1>3. \A p \in Proposals : click[p] = "none" /\ posts[p] = "freeze"
  BY DEF RuntimeInit, ClickInit
<1>4. QED
  BY <1>1, <1>2, <1>3 DEF ClickInv, ClickKnown, ClickLinked, ClickAnswered

\* One step keeps what is known of every click.
LEMMA ClickStep == ClickInv /\ [RuntimeNext]_runtimeVars => ClickInv'
<1> SUFFICES ASSUME ClickInv, [RuntimeNext]_runtimeVars PROVE ClickInv'
  OBVIOUS
<1>1. GateInv'
  BY GateStep DEF ClickInv
<1>2. \/ UNCHANGED clickVars
      \/ \E p \in Proposals : BeginClick(p) \/ SettleClick(p)
  BY DEF RuntimeNext, Boot, Serve, ServerDies, runtimeVars
<1>3. ClickTypeOK'
  BY <1>2 DEF ClickInv, ClickTypeOK, clickVars, BeginClick, SettleClick, Approve, Proceed, Refused,
              Cut, Clicks, Posts, FollowingPost
<1>4. CASE UNCHANGED clickVars
  BY <1>1, <1>3, <1>4, OtherClick DEF ClickInv, ClickKnown, clickVars
<1>5. ASSUME NEW p \in Proposals, BeginClick(p) \/ SettleClick(p)
      PROVE  \A q \in Proposals : ClickKnown(q)'
  <2>1. ASSUME NEW q \in Proposals, q # p
        PROVE  click'[q] = click[q] /\ posts'[q] = posts[q]
    BY <1>5, <2>1 DEF BeginClick, SettleClick, Approve, Proceed, Refused, Cut, ClickInv, ClickTypeOK
  <2>2. ASSUME BeginClick(p) PROVE ClickKnown(p)'
    <3>1. approval[p] = "pending" /\ ClickLinked(p) /\ Inv
      BY <2>2 DEF BeginClick, Approve, ResolveApproval, ClickInv, ClickKnown, GateInv
    <3>2. click[p] = "none" /\ posts[p] = "freeze"
      BY <3>1 DEF ClickLinked
    <3>3. /\ proposal'[p] = "approved" /\ approval'[p] = "approved"
          /\ click'[p] = "waits" /\ posts'[p] = "freeze"
      BY <2>2, <3>1, <3>2 DEF BeginClick, Approve, ResolveApproval, ClickInv, ClickTypeOK, Inv, TypeOK
    <3>4. QED
      BY <3>3 DEF ClickKnown, ClickLinked, ClickAnswered
  <2>3. ASSUME Proceed(p) PROVE ClickKnown(p)'
    BY <2>3, ChainStep, ClickProceeds
  <2>4. ASSUME Refused(p) PROVE ClickKnown(p)'
    BY <2>4, ClickRefused
  <2>5. ASSUME Cut(p) PROVE ClickKnown(p)'
    <3>1. /\ click'[p] = "cut" /\ click[p] = "waits" /\ posts' = posts /\ UNCHANGED vars
      BY <2>5 DEF Cut, ClickInv, ClickTypeOK
    <3>2. QED
      BY <3>1 DEF ClickInv, ClickKnown, ClickLinked, ClickAnswered, vars
  <2>6. ClickKnown(p)'
    BY <1>5, <2>2, <2>3, <2>4, <2>5 DEF SettleClick
  <2>7. QED
    BY <2>1, <2>6, OtherClick
<1>6. QED
  BY <1>1, <1>2, <1>3, <1>4, <1>5 DEF ClickInv, ClickKnown

LEMMA ClickInvariance == RuntimeSpec => []ClickInv
  BY InitClickInv, ClickStep, PTL DEF RuntimeSpec

\* For any number of proposals and tool calls, and with deaths in between: a
\* click of "approve" that got all its answers has the plan rehearsed, and one
\* that was refused lost its approval to a tool call or its decision to another
\* client (the safety half of ApprovedIsRehearsed; resolveApproval of the board).
THEOREM ClicksEndForCause == RuntimeSpec => [](\A p \in Proposals : ClickAnswered(p))
<1>1. ClickInv => \A p \in Proposals : ClickAnswered(p)
  BY DEF ClickInv, ClickKnown
<1> QED
  BY <1>1, ClickInvariance, PTL

-----------------------------------------------------------------------------
(* The server upgrades its database as SchemaUpgrade says.                   *)

LEMMA UpgradePart == [RuntimeNext]_runtimeVars => [UpgradeNext]_upgradeVars
  BY DEF RuntimeNext, Boot, Serve, ServerDies, BeginClick, SettleClick, UpgradeNext, runtimeVars,
         upgradeVars

\* Its start-ups and deaths, and nothing that it serves, are steps of the
\* upgrade: what is proved of the upgrade holds of the server.
THEOREM RuntimeUpgrades == RuntimeSpec => UpgradeSpec
<1>1. RuntimeInit => UpgradeInit
  BY DEF RuntimeInit
<1> QED
  BY <1>1, UpgradePart, PTL DEF RuntimeSpec, UpgradeSpec

\* No operation, upgrade or death loses a row (RowsSurvive).
THEOREM RuntimeKeepsRows == RuntimeSpec => []RowsSurvive
  BY RuntimeUpgrades, RowsKept, PTL

\* Every route is served on the latest schema (ServesLatest).
THEOREM RuntimeServesLatest == RuntimeSpec => []ServesLatest
  BY RuntimeUpgrades, LatestServed, PTL

\* A start-up that fails finds a database between two versions, and without a
\* death there is none.
THEOREM RuntimeFailsOnlyStranded == RuntimeSpec => [](FailsOnlyStranded /\ UndisturbedIsClean)
  BY RuntimeUpgrades, OnlyStrandedFails, PTL

\* Chain, tool gate and upgrade keep to the states they know (RuntimeTypeOK).
THEOREM RuntimeTypes == RuntimeSpec => []RuntimeTypeOK
<1>1. ClickInv => TypeOK /\ GateTypeOK /\ ClickTypeOK
  BY DEF ClickInv, GateInv, GateTyped, Inv
<1> QED
  BY <1>1, ClickInvariance, RuntimeUpgrades, UpgradeTypes, PTL DEF RuntimeTypeOK

=============================================================================
