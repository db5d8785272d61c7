------------------------------- MODULE Runtime -------------------------------
(* The whole server process over its one database: it starts by upgrading    *)
(* the schema (SchemaUpgrade), then serves the execution chain, the tool     *)
(* endpoints (ToolGate, ExecutionChain) and the task board (ApprovalClick),  *)
(* dies at any moment and is started again.  Rows are in the database and    *)
(* survive; handlers that wait for a tool do not.                            *)

EXTENDS ToolGate, ApprovalClick, SchemaUpgrade

runtimeVars == <<toolVars, clickVars, upgradeVars>>

RuntimeTypeOK == TypeOK /\ GateTypeOK /\ ClickTypeOK /\ UpgradeTypeOK

RuntimeInit == Init /\ GateInit /\ ClickInit /\ UpgradeInit

-----------------------------------------------------------------------------
(* lifespan(): no route is served before init_db has returned.               *)

Boot == StartUp /\ UNCHANGED <<toolVars, clickVars>>

Serve ==
    /\ phase = "serving"
    /\ \/ (\E p \in Proposals : ChainHandler(p)) /\ UNCHANGED gateVars
       \/ \E c \in Calls : GateOperation(c)
    /\ UNCHANGED <<clickVars, upgradeVars>>

ServerDies == Die /\ CallsLost /\ UNCHANGED clickVars

BeginClick(p) ==
    /\ phase = "serving"
    /\ Approve(p)
    /\ UNCHANGED <<gateVars, upgradeVars>>

\* The request the board awaits is answered by a server that serves, or fails.
SettleClick(p) ==
    /\ \/ phase = "serving" /\ (Proceed(p) \/ Refused(p))
       \/ Cut(p)
    /\ UNCHANGED <<gateVars, upgradeVars>>

RuntimeNext ==
    \/ Boot \/ Serve \/ ServerDies
    \/ \E p \in Proposals : BeginClick(p) \/ SettleClick(p)

RuntimeSpec == RuntimeInit /\ [][RuntimeNext]_runtimeVars

\* The start-up runs on, and a runtime that is down is started again; an
\* awaited request is answered or its connection breaks.
RuntimeFairSpec ==
    /\ RuntimeSpec
    /\ WF_runtimeVars(Boot)
    /\ \A p \in Proposals : WF_runtimeVars(SettleClick(p))

-----------------------------------------------------------------------------
(* The properties.                                                           *)

\* Every start ends in a server that serves, unless the process dies again or
\* the start finds a database that an earlier death left between two versions
\* (_ensure_schema); the n-th death is what it is counted from.
UpgradeEnds ==
    \A n \in 0..MaxDeaths :
        phase = "down" /\ deaths = n /\ ~Stranded ~> phase = "serving" \/ deaths > n

\* The timeline only grows: an event a person has seen is not taken back by any
\* later operation, except the decision whose approval a tool call spends.
AuditTrailGrows ==
    [][\A e \in Trail :
          \/ e \in Trail'
          \/ /\ e[1] = "approval:decided"
             /\ \E c \in Calls : ~Ran(c) /\ Ran(c)' /\ uses'[c] = e[2]]_runtimeVars
=============================================================================
