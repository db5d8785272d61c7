# A verification development for AI Team Studio

AI Team Studio runs a team of LLM agents over a user's repository.  A task goes
through a pipeline of agents; the Builder's proposal is approved by a person,
frozen, requested, confirmed, rehearsed, executed in the user's workspace, and
can be rolled back.  The runtime (`services/runtime`) is one FastAPI process
over one SQLite file; the desktop application and the VS Code extension are its
clients.  This directory holds TLA+ models of the parts in which order, failure
and interruption matter, the TLC configurations that check them, and proofs
checked by TLAPS.

## 1. The system

### Concurrency and failure

All HTTP handlers are `async def` functions on one event loop.  Their bodies
are synchronous, so a handler without an `await` is atomic with respect to other
handlers.  The only awaits are in an agent's call (`executor.execute`, provider
completions) and in a tool's `execute`; there other handlers interleave.  Every
handler opens its own SQLite connection and commits once at its end, and the
process can be killed between any two statements.  There is no start-up repair.
The user's workspace is a shared resource: editors, builds and git change it at
any time, also while a handler runs.

### Components

| Component | State | Operations | Talks to | What is hard |
|---|---|---|---|---|
| Agent orchestrator (`agents/orchestrator.py`, `definitions.py`, `routers/tasks.py`) | `tasks.status`, `agent_runs`, the locals of `run()` | orchestrate, agent answers, review decisions, PATCH status | executors, proposals | status changes while an agent is awaited; review loop; restart |
| Projects and participants (`routers/projects.py`) | `projects.local_repo_path`, `project_role_participants` | update project, PUT participants | orchestrator, executors | configuration that changes under a run |
| Proposals and approvals (`orchestrator.py`, `routers/approvals.py`, `tools/approval_gate.py`) | `execution_proposals`, `approval_requests` | create, resolve, consume | snapshots, tools | order of resolve, consume, freeze |
| Snapshots, requests, eligibility (`snapshot_service.py`, `execution_request_service.py`, `execution_eligibility_service.py`) | `execution_snapshots`, `execution_requests` | freeze, request, confirm, reject, check | everything before and after | gates checked in one handler and relied on in another |
| Execution results (`execution_result_service.py`, `database.py`) | `execution_results` | dry run | executors, rollback | idempotence, cached answers |
| Scoped executors (`scoped_file_executor.py`, `scoped_command_executor.py`) | files of the workspace, `execution_file_backups` | real run | workspace | partial failure, crash before the one commit |
| Rollback (`rollback_service.py`) | files, the rollback row | rollback | backups, workspace | undo order, later edits, moved workspace |
| Tool gate and tools (`routers/tools.py`, `tools/*`) | `tool_audit_log`, approvals | execute, execute-approved | approvals, workspace | approval consumed before the tool runs |
| Model executor (`agents/model_executor.py`) | none outside a call | completion, retry, tool loop | providers, file reader | rounds, retries, budgets |
| Providers, settings, roles, skills, logs, dashboard | single rows | CRUD, queries | - | little |
| Audit trail (`routers/orchestration.py`) | none (view) | read | all tables | reads of records that changed meanwhile |
| Migrations (`database.py`) | schema | migrate | - | dying half way |
| Desktop application, VS Code extension (`TaskBoard.tsx`, `client.ts`) | UI state | call the API | runtime | the calls one click makes, each awaited, while others post |

`PROJECT.json` lists each with what is modelled and, under `hazards`, each thing
that is hard to test with the line where it bites.

### What makes each part correct

- Orchestrator: the review loop is bounded; every review is of fresh work; done
  work was approved; what a call reports is what the task is; rows say which
  agent runs; a task left alone settles.
- Approval chain: nothing reaches the workspace past a missing gate, in any
  order of requests and retries; a refusal is final; one click of "approve" on the
  task board ends with the plan rehearsed, unless the connection fails or another
  client has taken the approval or the decision.
- Model calls: a call ends after a bounded number of completions; the turns of
  every request alternate, as the chat APIs ask; a role that informs never fails the task; the rows
  tell of the model that was asked; an output is the model's only if it was valid.
- Results: one row per mode, in order, never rewritten.
- Tool gate: one approval is one tool run; an approval that was spent is accounted
  for in the audit rows of the call that spent it.
- Audit trail: what a person has seen there stays there, but for a decision whose
  approval a tool call spends.
- Migrations: no start, finished or interrupted, loses a row; a server that serves
  has the latest schema; a start ends in a server that serves, unless it dies or finds
  a database that an earlier death left between two versions (section 5).
- Executors and rollback: a run reports what it changed and nothing else; a
  failure is the last thing that happens; every overwritten file of a recorded
  run has its backup; a rollback that reports success has restored the files.

## 2. The modules

| Module | Models | Depends on |
|---|---|---|
| `ResultLedger` | what `execution_results` promises its readers (abstract) | - |
| `ExecutionChain` | proposal, approval, snapshot, request, dry run, run, rollback as records | implements `ResultLedger` |
| `AuditTrail` | the timeline of a task, a function of the chain's records | extends `ExecutionChain` |
| `ToolGate` | /tools/execute and /tools/execute-approved beside the chain, over the same approvals | extends `AuditTrail` |
| `ApprovalClick` | "approve" on the task board: one click, request by request, beside everybody else | extends `ExecutionChain` |
| `SchemaUpgrade` | `init_db` and the 24 migrations, statement by statement | - |
| `Runtime` | the whole server: starts, upgrades, serves chain, tools and task board, dies, starts again | extends `ToolGate`, `ApprovalClick` and `SchemaUpgrade` |
| `ScopedExecution` | the dry run, the real run file by file, the rollback, crashes, other programs | implements `ResultLedger` |
| `TaskOrchestration` | `Orchestrator.run` beside PATCHes, participants and restarts | - |
| `ModelCall` | one agent step answered by a real model: retries, tool loop, fall-backs, what is recorded | - |
| `MC*` | sets of plans and configurations for TLC | the module they extend |
| `ExecutionChain_proofs` | theorems about the chain for every set of proposals | `TLAPS` |
| `SchemaUpgrade_proofs` | theorems about the start-up for every set of installed versions and any number of deaths | `TLAPS` |
| `Runtime_proofs` | the server implements the chain and the upgrade; the tool gate's own invariants; why a click ends early | `ExecutionChain_proofs`, `SchemaUpgrade_proofs` |
| `ScopedExecution_proofs` | theorems about runs, backups and rollbacks for every set of requests and plans | `TLAPS` |
| `TaskOrchestration_proofs` | theorems about the pipeline for every number of tasks, calls and rounds | `TLAPS` |
| `ModelCall_proofs` | types, budget, vetoes and turns for every number of retries and rounds | `TLAPS` |
| `ModelCallRecords_proofs` | what an agent step records, for the same | `ModelCall_proofs` |

Operators whose name has a suffix after an underscore and whose comment begins
with *Mutant* are faulty variants of the definition after them; no specification
uses them.  They are kept to show that each property can fail.

### ExecutionChain

One variable per table column the gates read, as functions of the proposal: the
chain is one to one from proposal to snapshot to request, and `UNIQUE` keeps it
so.  One handler is one action.  `verdict` abstracts the action plan to whether
the policy blocks it; that is chosen when the proposal is created, and the policy's
rules are not modelled.  The project's directory is no part of the state: several
gates ask whether it is there, a person may move or remove it between any two
handlers, and so each of them may find it or not (a dry run that fails or not, a
real run that is refused or not).  What a move does to files is in `ScopedExecution`.
`ExecuteUnrecorded` is a real run that dies after it touched the workspace and
before its commit.  `applied` is a history variable: the plan may have changed
something.  Hash checks are left out: no handler changes frozen data.

### AuditTrail, ToolGate

Nothing is stored for the timeline: `_build_task_audit_trail` assembles it from the
record tables at every request, so `Trail` is a state function, and "the trail only
grows" is a property of everybody who writes those tables.

One `Calls` element is one POST to a tool endpoint, or to /approvals by hand.
`call[c]` is how far its handler is, `uses[c]` the approval it runs its tool on,
`grant[c]` the approval row it created, `audit[c]` its audit rows.  Only the shell
and git tools await, so a call is at most two actions: everything up to the await
(`ExecuteTool`, `Block`, `Deny`, `ExecuteApproved`, `Refuse`), and what follows it
(`ToolReturns`, `ToolCrashes`).  `ConsumeGrant` spends a proposal's approval by the
chain's own `ConsumeApproval`: the two subsystems share that table and no code.
Which risk rules match a text is a choice (`matches`); what the gate makes of them
is not.

### ApprovalClick

`resolveApproval` of the task board (`TaskBoard.tsx:246-338`).  `Approve` is the
resolution; then `click[p]` says what has become of the click and `posts[p]` which of
its four requests it awaits.  `Proceed` is the answer to one: the row that exists
(`Already`), or the chain's own handler (`Perform`).  `Refused` is an answer that is
not ok, which `client.ts:35-44` throws, and `Cut` a fetch that fails.  Either ends the
click with an error text; nothing is posted twice.  The two reads after the
resolution change nothing, and their errors are swallowed.  The rest of the board
posts single requests, which `ChainHandler` takes at any moment.

### SchemaUpgrade, Runtime

A migration is the sequence of its statements.  Python's sqlite3 opens a
transaction only in front of an INSERT: a CREATE, ALTER or DROP before the first
INSERT of an upgrade is durable at once, everything later waits for the one commit
in `_ensure_schema`.  So the module keeps `disk`, what a death would leave, apart
from `db`, what the migrating connection sees.  A table is known by the migration
whose columns it has (`form`), by whether it holds every row stored so far
(`whole`), and by the table its foreign key names (`refers`): ALTER TABLE RENAME
takes foreign keys along.  Modelled are the four tables some migration rebuilds;
the others are created IF NOT EXISTS or seeded (`Other`, `Insert`).  `Raises` is
what SQLite refuses, and a statement that raises ends the start (`Fail`).

`Runtime` composes them: `Boot` is a step of the start-up, `Serve` one handler of
the chain or of the tools, `BeginClick` and `SettleClick` the task board's click, and
`ServerDies` takes the process and the calls that wait for a tool.

### ScopedExecution

A job on the event loop is the variable `job`; it advances file by file, so a
crash or another program's edit can come between the checks of a file
(`PrepareFile`) and its replacement (`ReplaceFile`).  Result row and backups are
written in one commit (`CommitRun`).  `disk` maps workspaces and paths to
contents; `Decoded` is what reading and writing in text mode does to a file (it
loses CRLF).  `before`, `original`, `ranIn`, `touched`, `commands` and `preview`
are history for the properties.  Paths that leave the workspace and paths that
are sensitive are refused at the same place, so one set (`Sensitive`) stands for
both.

### TaskOrchestration

`call[c]` is the coroutine of one POST /orchestrate, `runs[c]` its `agent_runs`
rows, `status` the tasks.  Everything the coroutine does between two awaits is
one action: `AgentFails`, `ReviewerRejects`, `ReviewerBlocks`, `AgentSucceeds`.
An invalid transition ends the coroutine in pc "raised" (HTTP 500).  The filtered
pipeline is the set of enabled roles, fixed at the claim, visited in the order of
`Position`.  A row's `proposes` says that its agent's output became an execution
proposal.  What agents say is not modelled.

### ModelCall

One `_execute_step` with a `ModelAgentExecutor`, for any of the seven roles,
beside a user who changes the role's settings.  The coroutine suspends only in
`provider.complete`, so an action is an answer (`Final`, `Malformed`,
`ToolRefused`, `ToolRuns`, `ToolRaises`) or an exception (`ProviderFails`) with
everything the code does until the next request or the end.  `attempt` is the
loop variable of `_parse_retry_core`; `loop` and `talk` are the locals of
`_call_model_with_tools` (for a role without tools, of its one completion); `row`
is the `agent_runs` row with its `token_usage_log` row, and `summary` the
tool-loop record in `log_events`.  An answer is what the parsers make of it:
which protocol turn, what the schema check says of the text as a whole and of the
result inside a final envelope, and whether the output limit cut it.  `Answers`
excludes what no text can be (an envelope is valid JSON; a cut text is not).
The tools are a sample of the registry that has every case: allowed and
advertised, allowed and not advertised (`write_file`, `bash` for the Builder),
an alias, and a name a role lists and no tool has (`grep`).  `setting` is the
provider of the role or `Unusable`, for every reason `_resolve_provider` raises.
`seen` is history.  The OpenAI-compatible providers (deepseek, kimi, minimax)
answer as openai does.

## 3. The runs

| Run | Instance | Question |
|---|---|---|
| `Chain` | `Runtime`: 1 proposal, a click of "approve", 2 tool calls, every installed schema version, 1 death | are the gates, vetoes, ledger, single use of approvals, timeline and upgrade right in every order, and does one click of "approve" suffice? |
| `ExecOneRequest` | 1 request, 3 paths, 1 crash, 1 foreign edit | are run, log, backups, commands, preview and rollback consistent? |
| `ExecTwoRequests` | 2 requests on the same 2 paths, 1 crash, text mode that loses line ends | does a rollback restore when requests overlap? |
| `ExecAwkwardPlans` | plans that repeat an operation on a path, use an unknown operation, lack a content, or run a command after such a step; 2 workspaces, 1 move (sensitive paths are in `ExecOneRequest`) | is every job recorded, is the preview faithful? |
| `Orchestration` | 1 task, 2 orchestrate calls, every PATCH, 2 configurations, restarts | is the pipeline right beside them, proposals included? |
| `ModelCall` | every role, 3 providers, 2 retries, 3 rounds | does a call end, keep to its bounds, and record what happened? |

Runs that are expected to fail show what the code does against what its
documentation says:

| Run | What TLC finds |
|---|---|
| `ExecCreateThenModify` | a plan that creates a file and modifies it again is rolled back in forward order, and the file stays |
| `ExecModifyTwice` | a plan that modifies a file twice breaks a UNIQUE constraint at the end, so no row is written and each retry runs the commands again |
| `ExecCrashLosesBackup` | a crash before the commit loses the only copy of the original |
| `OrchReviewerAlone` | with QA and Security Reviewer off, an approval raises instead of finishing the task |
| `OrchTwoOrchestrators` | failing and resetting a task while its agent is awaited starts a second orchestrator beside the first |
| `ModelTruncation` | an answer Anthropic cut at the output limit is re-prompted, because only the word "length" is recognised |

### Bounds, and why they are enough

No action of `Runtime` reads two proposals, and the proofs hold for every set of
them, so one is enough in `Chain`; its two calls compete for the proposal's approval
and for the one the other was granted.  (A grant that two further calls ask for
would take a third; the theorem `OneRun` covers it.)  `Installed` is every version
there is; the one death interrupts an upgrade, a start, a tool or a click, and is
followed by a start that may die no more.  Further deaths add nothing to the upgrade:
`SchemaUpgrade` alone, compared without the counter of deaths, has the same 1042
states for one death as for six.  The theorems hold for any number.
In `ScopedExecution` three paths (root, nested, refused) are one per answer of the
checks; plans of up to three steps have a step before, at and after a failure;
one crash shows a lost commit and the retry after it; one foreign edit at every
point shows each check gone stale; two requests show a rollback under a later
run.  `MaxCommands` stops a counter above every legal value.  In
`TaskOrchestration` two calls are what one reset of a task allows, and
MAX_REJECTIONS = 2 in the passing run has a round that is repeated and a last one;
the code's 3 is used in the others.
`ModelCall` has the code's two retries; its three rounds have a first, a middle
and a last one, each ended in every way (the code's five are used in
`ModelTruncation`, and the proofs hold for any number).  Deadlock is checked wherever the system
cannot legitimately stop.  `Chain`, the `Exec*` runs and the small `Orch*` runs stop
when their requests, calls and budgets are used up.

### Fairness

`Chain`: weak fairness of `Boot`: a start-up that began runs on, and a runtime that
is down is started again; the desktop application starts it.  And of
`SettleClick(p)`: a fetch the board awaits is answered, by a handler that has no
`await`, or rejects because the process, the connection or the window is gone.
Whether it is answered or cut is not fair, and neither are a click, a tool or a death.
`ScopedExecution`: weak fairness of a started job's steps; they block
the event loop and commands have a 60 second timeout.  `TaskOrchestration`: weak
fairness of each awaited agent's answer; the mock sleeps a bounded time, the
provider SDKs have default timeouts and bounded retries.  `ModelCall`: weak
fairness of an answer or an exception of the awaited provider, for the same
reason; which of them it is, is not fair.  Nothing a person does
is fair.

## 4. The proofs

`ExecutionChain_proofs` proves, for every set `Proposals`, `TypeCorrect`,
`GatedExecution`, `FinalVeto`, `ImplementsLedger` and `ApprovalLeadsOn` (an approved
proposal stays approved and freezable, until it is frozen or its approval spent: why a
freeze that comes late still succeeds).  `ExecutionGated` alone is not inductive: it says nothing of a plan that is about to run.  The invariant
`Linked` adds, for each record, what its existence implies about the records
before it: a frozen snapshot needs an authorised proposal, a request a snapshot,
a result row the confirmation and the row before it.  `Inv` is `TypeOK /\ Linked`;
`InitInv` and `Invariance` carry it, `LinkedGated` gets `ExecutionGated` from it,
and `VetoStep` and `LedgerStep` use it for one step of the action property and of
the refinement.  No assumption on the constants is needed.

`ModelCall_proofs` proves, for every number of retries and rounds and every set of
providers, `TypeCorrect` (with the bound on attempts), `NeverVetoes`, `BudgetKept`
and `TurnsAlternate`, from the assumption that a tool loop has at least one round
and that providers are among those whose stop reasons are known.  `CallBudget` is
not inductive: it does not say how much of the budget an unfinished attempt may
still use.  `Spent` does: the calls made, plus the rounds this attempt has left,
are at most the rounds of all attempts begun.  `Linked` keeps the counters of a
round below its number and `attempt` at 0 for roles that do not retry.  An answer
is proved in two halves: `JudgeStep` says what any judged answer does to the
state (`Judged`), `JudgedInv` that this keeps `Inv`; `EndRoundInv` adds the case
that the loop goes on.  `OneMore` and `Monotone` are the arithmetic of a product.

`ModelCallRecords_proofs` goes on from there to what a step leaves behind: the five
invariants about the tool loop, the row, the summary, the retries and the output.
Three parts strengthen them.  `OneProvider`: as long as a step asks, all it has seen
is of the provider it resolved, and the answers counted are the attempt's.
`Pending`: the counters of the loop are counts over the conversation `talk` (a
request per reply, a round per turn), kept by one lemma per way a round can end.
`Told` puts them with the five properties; `JudgeTold` carries it over the common
end of all answers.  The rule "never retry truncation" is refuted by `ModelTruncation`
for a provider with a word of its own.  `TruncationIsFinal` is the other half: it
holds where every provider says "length" (`Reporting`), and `ReportedCutsAreFinal`
where some do.  It is not inductive, because the cut may be seen in one round and the
attempt end in a later one, by an answer or an exception: `CutShows` says that the
loop's finish reason still shows it then.

`SchemaUpgrade_proofs` proves `UpgradeTypes`, `RowsKept`, `LatestServed` and
`OnlyStrandedFails`, for every set of installed versions and every `MaxDeaths`.
`RowsSurvive` says nothing of the tables a death leaves under temporary names, nor of
where the next start finds them.  The invariant makes them a function of the program's
position: `Halfway(w, j)` are the tables after `j` statements of migration `w`, written
down for each migration that touches a rebuilt table (`RebuildHalf` for V3, V17, V19
and V21, `AsideHalf` for V10, `PairHalf` for V12).  `DiskInv`: what a death leaves is
`Halfway(w, j)` for the migration after its version, with `j` at most `Prefix(w)`, the
statements before the migration's first INSERT, which SQLite makes durable at once.
`MigratingInv`: the migrating connection sees `Halfway` at its own position if it has
its transaction, and at that position or further on before.  A start on a database
that is ahead runs until a statement that is refused (what raises is decided by
`Halfway` again), so it never comes to one that would lose rows.  One lemma per
migration executes its statements on `Halfway(w, j)`; `Rebuilding` does so for the four
rebuilds of the same shape.  `OnlyStrandedFails` is what `UpgradeEnds` rests on: a start
that fails has found a database an earlier death left between two versions, and while
nothing has died there is none.  (An undisturbed upgrade from some versions passes
through such databases on the way to its commit; it does not fail there.)

`Runtime_proofs` also shows `RuntimeUpgrades`: `RuntimeSpec => UpgradeSpec`, because what
is served leaves the upgrade's variables alone; `RuntimeKeepsRows`,
`RuntimeServesLatest` and `RuntimeFailsOnlyStranded` follow, and `RuntimeTypes` joins the
types of the three parts.

`Runtime_proofs` proves `RuntimeImplementsChain`: `RuntimeSpec => Spec`, a step of a
tool call being a `ConsumeApproval` of the chain or nothing to it.  `RuntimeGated`,
`RuntimeVeto` and `RuntimeLedger` follow from the chain's theorems.  `OneRun`,
`Accounted` and `TrailGrows` are the gate's own.  An approval that ran a tool must
stay spent whatever the chain does: the only handler that sets an approval that is
not pending is the freeze, for proposals nobody had to approve, and `NoneYet` says
that such a proposal has no approval before.  `CallLinked` says what the state of a
call implies about its audit rows; `GateInv` is their conjunction with the chain's
`Inv`.  The assumption is that calls, proposals and the unknown id are different.

`ClicksEndForCause` is the safety half of `ApprovedIsRehearsed`: a click of "approve"
that gets as far as its end has its dry run, and one that is refused was forestalled.
`ClickLinked` says what earlier answers have told a waiting click and nobody can take
back: the approval, the snapshot, the request, its confirmation.  `ApprovedKeeps` is
that a step of anybody else takes none of them, but for an approval spent before the
freeze and a request decided before the confirmation (`Forestalled`).  That an
awaited request is answered at all stays with TLC.

`TaskOrchestration_proofs` proves `TypeCorrect`, `RowsTellWhoRuns`, `RoundsAreCounted`,
`DoneWasApproved`, `ReviewsAreFresh`, `ProposalsAreDecided` and `ReportsAreTrue` for
every number of tasks, calls and rejections, every set of configurations with the
mandatory roles, and any PATCHes and restarts.  `Awaited` is what a waiting call
knows: its row is the last, of its round, and no row is of a later one; `StepCases`
reduces every step to what it does to one call: it stays, is lost, begins, or is
answered (and then ends, repeats or continues).  On these cases rest `ReviewInv` (no
role stands between an approval and the end), `RoundInv` (of the roles under review,
those before the awaited one have completed one run of this round, the others none)
and `ProposalInv` (up to the Comparator's turn all earlier proposals were rejected).
`ReportsAreTrue` assumes `AlwaysReviewed`, that every configuration has a Reviewer:
with the mandatory roles only, `run` reports done for a task in progress.
What the two violation runs refute is proved where its cause is absent.
`OrchestratorsExclude`: at most one orchestrator per task, up to the first PATCH or
restart, and for ever where nobody PATCHes a task to "pending"; `Claimed` adds that the task of a waiting call is not pending.
`ApprovedWorkIsDone` and `ApprovalsAdvance`: an approval makes its task done, up to the
first PATCH or restart (and for ever where no status is PATCHed), where every configuration has QA or the Security Reviewer
(`AlwaysChecked`), the only roles that set "reviewing"; `UnderReview` says that the
Reviewer is asked only in that status.
`AgentRunsAreBounded`: one POST /orchestrate asks at most `5 * MAX_REJECTIONS + 3`
agents, whatever happens meanwhile; that the call then ends (`TaskSettles`) stays with TLC.

`ScopedExecution_proofs` works with `Inv`: types, what a job knows of itself
(`JobInv`), what every recorded row says (`RowInv`) and what a preview foresaw
(`PreviewInv`).  The log of a run under way already follows the plan, stops at its
first failure, is truthful, and was foretold; a commit only moves it into a row.  A
step of the job touches one path of one workspace, and a frame argument leaves the
rest.  From `Inv`: `TypeCorrect`, `RunsFailFast`, `LogsAreTrue`, `PreviewsAreFaithful`
and `JobsKeepLedger`, the refinement of the ledger.  `BackupsAreComplete` adds
`DistinctPaths`, that no plan names a path twice; nothing in the proposal schema
demands it.  The rollback needs it too (`ExecCreateThenModify` shows what happens
without).  `UndoneSoFar` is its invariant: every file before the entry it comes to is put
back, unless a failure is noted or it runs in another workspace than the run did.
`RollbacksPutBackInPlace` is then an action property of the commit, for every number of
moves of the project; `RollbacksRestore` is that what was put back stays so, in every
state that no move came before (after one, a rollback in the wrong workspace reports
"completed" too).  `CommandsRunOnce` and `CommitsNeverClash` need only that no plan
modifies a file twice (`OneModifyEach`); `ExecModifyTwice` is the other case.
`OriginalsRestore` is the other half of `ExecCrashLosesBackup`: before the first crash a
request has begun at most one run, which is under way or recorded (`OneAttempt`), so that
a completed rollback puts back what the first attempt found, byte for byte where text
mode loses nothing (`Lossless`).

Only model-checked: liveness (`ApprovedIsRehearsed`, `UpgradeEnds`, `TaskSettles`,
`CallEnds`, `JobRecorded`), which is out of the prover's reach.  Every invariant and
action property of the passing runs is a theorem, and each of the six properties that a
run refutes is a theorem under the hypothesis that run breaks.
What is proved with an extra hypothesis
(`BackupsMatchLog`, `RollbackRestores`, `CommandsOnce`, `ReplyTruthful`) is
checked in the runs on plans and configurations that satisfy it
(`ReplyTruthful` also beside every PATCH).

## 5. Divergences seen while modelling that no run shows

- `resolve_approval` accepts "consumed" as the resolution of a pending approval
  (`routers/approvals.py:80`) and rejects the proposal.
- `/tools/execute-approved` consumes any approval, a proposal's too; the proposal
  then stays approved and can never be frozen (`snapshot_service.py:78`).
- Text mode: a restored CRLF file has LF ends; the hash mismatch is counted as
  restored (`rollback_service.py:208-211`).
- File operations "update" and "edit" pass the policy as file_modify and are
  skipped by the executor, which reports completed.
- A rollback works in the project's current path (`routers/orchestration.py:1084`):
  after a move it may report "completed" with nothing restored where the run was.
- The board's click confirms a request another window has just confirmed, gets HTTP
  409 and stops before its dry run (`TaskBoard.tsx:287-301`).
- The approvals panel resolves an approval and freezes nothing; the board posts
  /freeze once.  An approved proposal may stay unfrozen until a person clicks again.
- A sensitive path is refused after earlier files were written, although
  `docs/execution-pipeline.md:155` says "before any write".
- A Documentation agent that fails when the task is done raises; the task stays
  done (`orchestrator.py:166`).
- With the mandatory roles only, `run` reports done for a task in_progress
  (`orchestrator.py:262`).
- The third rejection fails the task; `docs/onboarding-brief.md:104` says the
  fourth.
- A provider exception in the Builder's tool loop is caught there
  (`model_executor.py:1509`): with no text before it, the step fails or retries as
  "invalid JSON", and a missing key or a network error is asked for again.
- `_update_run_model_info` says the row "reflects what was really used, not the
  seed defaults" (`orchestrator.py:658`): a step that got no answer keeps the
  seed's provider and model, and its `token_usage_log` row is refused by NOT NULL.
- The tokens of attempts that were retried are recorded nowhere: the usage
  returned is the decisive attempt's (`model_executor.py:1157`).
- `"proposed_commands": null` passes the Builder's schema and raises in
  `_normalize_builder_proposal`; the step fails without its text or usage.
- A base URL set to empty stays in the live registry until a restart
  (`routers/settings.py:59`).
- An upgrade that is killed after DDL became durable and before its commit cannot be
  repeated: the next start finds the temporary table, the renamed table or the new
  column, raises, and so does every later one.  It happens to databases of versions
  2, 5, 9, 11, 16, 18 and 20, the ones whose next migration begins with such DDL.
  No row is lost (`RowsSurvive`), and the start-up ends otherwise: `UpgradeEnds`
  excepts exactly the starts that find such a database (`Stranded`).  The docstrings of V19 and V21 call
  idempotent (`database.py:814`, `:898`) what the rebuild before the seeds is not.
- Rows left running by a restart make `orchestration-status` name an agent that
  does not run.

## 6. Plan

Done: the chain and its ledger, the executors and the rollback, the pipeline, the
model call, the tool gate, the timeline, the board's click, the migrations and their composition in
`Runtime`; every safety property of the passing runs is proved.

Left, in this order:

1. An abstract agent step that both `ModelCall` and the answer actions of
   `TaskOrchestration` implement.
2. `TaskChain`: `TaskOrchestration` composed with `ExecutionChain`, so that a
   proposal of a rejected round, which `OneProposalPerReview` finds among the rows,
   is followed to its execution.
3. `RiskPolicy`: action plan, risk report and command checks as operators, checked
   against each other.
4. `Comparator`: the choice among Builder variants as an operator.

## 7. Not modelled, and why

- Prompts, contexts, parsing of texts, the scoped file reader and the redactor:
  stateless functions on characters; no property of the models depends on more
  than the verdict they abstract to.
- The patterns of the risk rules and the path and command allow-lists: as above;
  which rule matches is a choice.
- Summaries, details, timestamps and order of the timeline: layout.
- Deaths between two commits of one handler: the chain's handlers commit once;
  the tool endpoints commit their audit rows one at a time, and a death
  between two of them leaves a prefix of what `ToolGate` writes in one action.
- Mock executor and Comparator: an agent's outcome is a choice in
  `TaskOrchestration`, which includes theirs.
- Network clients keep no state; a base URL (`routers/settings.py:59`) reaches a
  provider only at a restart and changes no outcome a model distinguishes.
- Roles, skills, logs, dashboards, project CRUD: single-statement writes and queries.
- User interfaces, but for the click of "approve" (`ApprovalClick`): each of their
  calls is among the calls the models allow in any order.
