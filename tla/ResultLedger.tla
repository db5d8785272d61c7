---------------------------- MODULE ResultLedger ----------------------------
(* What the execution_results table promises its readers, whichever service  *)
(* writes it: a request collects at most one dry run, one real run and one   *)
(* rollback (UNIQUE (execution_request_id, mode)), always in that order, a   *)
(* real run only after a dry run that completed, and a row never changes.    *)
(* ExecutionChain and ScopedExecution are both shown to implement it.        *)

CONSTANT Requests          \* identifiers of execution requests

VARIABLE ledger            \* ledger[r][m]: status of r's row of mode m

Modes == {"dry_run", "real_run", "rollback"}

\* Every INSERT writes a terminal status; "none" stands for no row.
Outcomes == {"completed", "failed"}
RowStatus == Outcomes \union {"none"}

LedgerType == ledger \in [Requests -> [Modes -> RowStatus]]

LedgerInit == ledger = [r \in Requests |-> [m \in Modes |-> "none"]]

\* The row a row of mode m must find before it may be written.
Preceded(r, m) ==
    \/ m = "dry_run"
    \/ m = "real_run" /\ ledger[r]["dry_run"] = "completed"
    \/ m = "rollback" /\ ledger[r]["real_run"] # "none"

Record(r, m, outcome) ==
    /\ ledger[r][m] = "none"
    /\ Preceded(r, m)
    /\ ledger' = [ledger EXCEPT ![r][m] = outcome]

LedgerNext == \E r \in Requests, m \in Modes, outcome \in Outcomes :
                  Record(r, m, outcome)

LedgerSpec == LedgerInit /\ [][LedgerNext]_ledger
=============================================================================
