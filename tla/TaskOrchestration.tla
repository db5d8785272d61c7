------------------------- MODULE TaskOrchestration -------------------------
(* One task's way through the agent pipeline (Orchestrator.run) beside the   *)
(* people who PATCH its status, change the project's participants, start     *)
(* another orchestration, or restart the server.  The event loop is single   *)
(* threaded and run() awaits only inside executor.execute: everything        *)
(* between two answers of an agent is one action, and what another handler   *)
(* did while the agent was thinking shows in `status` when it answers.       *)

EXTENDS Naturals, Sequences, FiniteSets

CONSTANTS
    Tasks,
    Calls,             \* POST /tasks/{id}/orchestrate requests, one run() each
    MAX_REJECTIONS,
    ParticipantSets,   \* configurations the user may PUT (sets of roles)
    Patches,           \* statuses the user may PATCH a task to
    MayCrash           \* TRUE: the server may be restarted

VARIABLES
    status,     \* tasks.status
    enabled,    \* roles enabled in project_role_participants
    call,       \* the run() coroutine of each request
    runs,       \* agent_runs rows of each request, in order of creation
    disturbed   \* history: somebody PATCHed a status, or the server stopped

vars == <<status, enabled, call, runs, disturbed>>

TaskStatus == {"pending", "planning", "in_progress", "reviewing", "done", "failed"}

\* AGENT_PIPELINE, with the Comparator between Builder and QA.
Position == [planner |-> 1, architect |-> 2, builder |-> 3, comparator |-> 4,
             qa |-> 5, security_reviewer |-> 6, reviewer |-> 7, documentation |-> 8]

Roles == DOMAIN Position

\* success_task_status of each role.
SuccessStatus ==
    [planner |-> "planning", architect |-> "planning", builder |-> "in_progress",
     comparator |-> "in_progress", qa |-> "reviewing",
     security_reviewer |-> "reviewing", reviewer |-> "done", documentation |-> "done"]

TASK_TRANSITIONS ==
    [pending     |-> {"planning", "in_progress", "failed"},
     planning    |-> {"in_progress", "failed"},
     in_progress |-> {"reviewing", "failed"},
     reviewing   |-> {"done", "in_progress", "failed"},
     done        |-> {},
     failed      |-> {"pending"}]

MandatoryRoles == {"planner", "builder"}

ASSUME OrchestrationAssumption ==
    /\ MAX_REJECTIONS \in Nat \ {0}
    /\ ParticipantSets \subseteq {S \in SUBSET Roles : MandatoryRoles \subseteq S}
    /\ Patches \subseteq TaskStatus
    /\ MayCrash \in BOOLEAN

NoTask == "none"

CallState == [pc : {"idle", "agent", "returned", "raised", "lost"},
              task : Tasks \union {NoTask}, active : SUBSET Roles, role : Roles,
              rejections : 0 .. MAX_REJECTIONS,
              final : {"none", "done", "failed"}]

RunRow == [role : Roles, attempt : 0 .. MAX_REJECTIONS - 1,
           status : {"running", "completed", "failed"},
           decision : {"none", "approve", "request_changes", "block"},
           proposes : BOOLEAN]

TypeOK ==
    /\ status \in [Tasks -> TaskStatus]
    /\ enabled \in SUBSET Roles
    /\ call \in [Calls -> CallState]
    /\ runs \in [Calls -> Seq(RunRow)]
    /\ disturbed \in BOOLEAN

Init ==
    /\ status = [t \in Tasks |-> "pending"]
    /\ enabled \in ParticipantSets
    /\ call = [c \in Calls |->
                 [pc |-> "idle", task |-> NoTask, active |-> {}, role |-> "planner",
                  rejections |-> 0, final |-> "none"]]
    /\ runs = [c \in Calls |-> <<>>]
    /\ disturbed = FALSE

-----------------------------------------------------------------------------
(* The pipeline of one call.                                                 *)

Live(c) == call[c].pc = "agent"

\* The next role of the filtered pipeline: `idx += 1`, as a set of at most one.
NextRole(c) ==
    LET later == {r \in call[c].active : Position[r] > Position[call[c].role]}
    IN  {r \in later : \A s \in later : Position[r] <= Position[s]}

\* Mutant: every round is recorded as the first.
NewRun_firstRound(role, attempt) ==
    [role |-> role, attempt |-> 0, status |-> "running",
     decision |-> "none", proposes |-> FALSE]

\* _create_run and _update_run(RUNNING): both before the first await.
NewRun(role, attempt) ==
    [role |-> role, attempt |-> attempt, status |-> "running",
     decision |-> "none", proposes |-> FALSE]

\* The row of the agent that has just answered.
Answered(c, outcome, decision, proposes) ==
    [runs[c] EXCEPT ![Len(runs[c])] =
        [@ EXCEPT !.status = outcome, !.decision = decision, !.proposes = proposes]]

IsValidTransition(from, to) == to \in TASK_TRANSITIONS[from]

\* Mutant: an invalid transition is ignored and the call goes on.
Proceed_swallows(c, answered, allowed, target, then) ==
    /\ IF allowed
       THEN status' = [status EXCEPT ![call[c].task] = target]
       ELSE UNCHANGED status
    /\ call' = [call EXCEPT ![c] = then]
    /\ runs' = [runs EXCEPT ![c] =
                  IF then.pc = "agent"
                  THEN Append(answered, NewRun(then.role, then.rejections))
                  ELSE answered]
    /\ UNCHANGED <<enabled, disturbed>>

\* _update_task_status and what follows it: an invalid transition raises a
\* ValueError that nothing catches, so the coroutine ends and the client gets a
\* 500.  A call that goes on starts its next agent at once.
Proceed(c, answered, allowed, target, then) ==
    /\ IF allowed
       THEN /\ status' = [status EXCEPT ![call[c].task] = target]
            /\ call' = [call EXCEPT ![c] = then]
       ELSE /\ UNCHANGED status
            /\ call' = [call EXCEPT ![c].pc = "raised"]
    /\ runs' = [runs EXCEPT ![c] =
                  IF call'[c].pc = "agent"
                  THEN Append(answered, NewRun(call'[c].role, call'[c].rejections))
                  ELSE answered]
    /\ UNCHANGED <<enabled, disturbed>>

Return(c, final) == [call[c] EXCEPT !.pc = "returned", !.final = final]

\* The three ways to fail a task: agent failure, too many rejections, block.
FailTask(c, answered, then) ==
    Proceed(c, answered, IsValidTransition(status[call[c].task], "failed"), "failed", then)

-----------------------------------------------------------------------------
(* The operations.                                                           *)

\* orchestrate_task: the check for "pending", the claim and the first agent's
\* start are one step; a task in another status is refused with a 400.  The
\* Comparator is exempt from the participant filter.
Orchestrate(c, t) ==
    /\ call[c].pc = "idle"
    /\ status[t] = "pending"
    /\ status' = [status EXCEPT ![t] = "planning"]
    /\ call' = [call EXCEPT ![c] =
                  [pc |-> "agent", task |-> t,
                   active |-> enabled \union {"comparator"},
                   role |-> "planner", rejections |-> 0, final |-> "none"]]
    /\ runs' = [runs EXCEPT ![c] = <<NewRun("planner", 0)>>]
    /\ UNCHANGED <<enabled, disturbed>>

\* Mutant: an exception of the executor leaves its row "running".
AgentFails_leavesRow(c) ==
    /\ Live(c)
    /\ \E outcome \in {"failed", "running"} :
           FailTask(c, Answered(c, outcome, "none", FALSE), Return(c, "failed"))

\* Mutant: the call returns without failing its task.
AgentFails_leavesTask(c) ==
    /\ Live(c)
    /\ Proceed(c, Answered(c, "failed", "none", FALSE), TRUE, status[call[c].task],
               Return(c, "failed"))

\* An unsuccessful result, or an exception of the executor.
AgentFails(c) ==
    /\ Live(c)
    /\ FailTask(c, Answered(c, "failed", "none", FALSE), Return(c, "failed"))

\* Mutant: off by one.
TooMany_offByOne(n) == n > MAX_REJECTIONS

TooMany(n) == n >= MAX_REJECTIONS

\* Mutant: only the checks are repeated.
LoopBack_toComparator == "comparator"

\* builder_idx: where a rejected task starts again.
LoopBack == "builder"

\* Reviewer, REQUEST_CHANGES: back to the Builder, or the end of the task.
ReviewerRejects(c) ==
    /\ Live(c)
    /\ call[c].role = "reviewer"
    /\ LET answered == Answered(c, "completed", "request_changes", FALSE)
           n == call[c].rejections + 1
       IN  IF TooMany(n)
           THEN FailTask(c, answered, [Return(c, "failed") EXCEPT !.rejections = n])
           ELSE Proceed(c, answered,
                        IsValidTransition(status[call[c].task], "in_progress"),
                        "in_progress",
                        [call[c] EXCEPT !.role = LoopBack, !.rejections = n])

\* Mutant: a block falls through to the next role, as an approval does.
ReviewerBlocks_fallsThrough(c) ==
    /\ Live(c)
    /\ call[c].role = "reviewer"
    /\ \E r \in NextRole(c) :
           Proceed(c, Answered(c, "completed", "block", FALSE),
                   IsValidTransition(status[call[c].task], "done"), "done",
                   [call[c] EXCEPT !.role = r])

\* Reviewer, BLOCK (a decision executors may return; none of src/ does).
ReviewerBlocks(c) ==
    /\ Live(c)
    /\ call[c].role = "reviewer"
    /\ FailTask(c, Answered(c, "completed", "block", FALSE), Return(c, "failed"))

\* Mutant: the Builder's own output creates a proposal beside the Comparator's.
AgentSucceeds_builderToo(c, proposes) ==
    /\ Live(c)
    /\ proposes => call[c].role \in {"builder", "comparator", "documentation"}
    /\ LET from == status[call[c].task]
           to == SuccessStatus[call[c].role]
           decision == IF call[c].role = "reviewer" THEN "approve" ELSE "none"
       IN  \E then \in IF NextRole(c) = {}
                       THEN {Return(c, "done")}
                       ELSE {[call[c] EXCEPT !.role = r] : r \in NextRole(c)} :
               Proceed(c, Answered(c, "completed", decision, proposes),
                       from = to \/ IsValidTransition(from, to), to, then)

\* Every other success.  The Comparator and the Documentation agent create an
\* execution proposal when their output has files (`proposes`); since C2 the
\* Builder's wrapper never has.  The status is left alone if it already is the
\* target; otherwise the transition must be valid.
AgentSucceeds(c, proposes) ==
    /\ Live(c)
    /\ proposes => call[c].role \in {"comparator", "documentation"}
    /\ LET from == status[call[c].task]
           to == SuccessStatus[call[c].role]
           decision == IF call[c].role = "reviewer" THEN "approve" ELSE "none"
       IN  \E then \in IF NextRole(c) = {}
                       THEN {Return(c, "done")}
                       ELSE {[call[c] EXCEPT !.role = r] : r \in NextRole(c)} :
               Proceed(c, Answered(c, "completed", decision, proposes),
                       from = to \/ IsValidTransition(from, to), to, then)

AgentAnswers(c) ==
    \/ AgentFails(c)
    \/ ReviewerRejects(c)
    \/ ReviewerBlocks(c)
    \/ \E proposes \in BOOLEAN : AgentSucceeds(c, proposes)

\* update_task_status (PATCH): checked against the same table, and against
\* nothing else: an orchestration may be under way.
PatchStatus(t, new) ==
    /\ IsValidTransition(status[t], new)
    /\ status' = [status EXCEPT ![t] = new]
    /\ disturbed' = TRUE
    /\ UNCHANGED <<enabled, call, runs>>

\* update_project_participants (PUT): read by the next orchestration only.
PutParticipants(S) ==
    /\ enabled' = S
    /\ UNCHANGED <<status, call, runs, disturbed>>

\* The server stops: coroutines are gone, rows stay, and start-up repairs none.
Crash ==
    /\ MayCrash
    /\ \E c \in Calls : Live(c)
    /\ call' = [c \in Calls |-> IF Live(c) THEN [call[c] EXCEPT !.pc = "lost"] ELSE call[c]]
    /\ disturbed' = TRUE
    /\ UNCHANGED <<status, enabled, runs>>

Next ==
    \/ \E c \in Calls : AgentAnswers(c) \/ \E t \in Tasks : Orchestrate(c, t)
    \/ \E t \in Tasks, new \in Patches : PatchStatus(t, new)
    \/ \E S \in ParticipantSets \ {enabled} : PutParticipants(S)
    \/ Crash

Spec == Init /\ [][Next]_vars

\* An agent that was started answers or raises: the mock sleeps a bounded time,
\* and every provider call has a client timeout and a bounded number of retries.
FairSpec == Spec /\ \A c \in Calls : WF_vars(AgentAnswers(c))

-----------------------------------------------------------------------------
(* The properties.                                                           *)

\* The rows say which rejection round they belong to (data-model.md:
\* attempt_number), counted by the decisions recorded before them, whoever
\* PATCHes the task meanwhile; what is only done once is done in round 0.
AttemptsCountRejections ==
    \A c \in Calls : \A i \in 1 .. Len(runs[c]) :
        /\ runs[c][i].attempt =
               Cardinality({j \in 1 .. i - 1 : runs[c][j].decision = "request_changes"})
        /\ runs[c][i].role \in {"planner", "architect"} => runs[c][i].attempt = 0

\* No review of stale work: when the Reviewer is asked, every enabled role
\* between Builder and Reviewer has completed exactly one run of this round
\* (the loop back to builder_idx re-runs the whole tail).
ReviewedAfresh ==
    \A c \in Calls : \A i \in 1 .. Len(runs[c]) :
        runs[c][i].role = "reviewer" =>
            \A r \in {s \in call[c].active : Position[s] \in 3 .. 6} :
                Cardinality({j \in 1 .. i - 1 :
                                /\ runs[c][j].role = r
                                /\ runs[c][j].attempt = runs[c][i].attempt
                                /\ runs[c][j].status = "completed"}) = 1

\* With a Reviewer in its pipeline, a call reports "done", and lets the
\* Documentation agent propose files, only for work whose last review is an
\* approval: no block, rejection or failure is skipped on the way.
DoneIsReviewed ==
    \A c \in Calls : "reviewer" \in call[c].active =>
        LET reviews == {i \in 1 .. Len(runs[c]) : runs[c][i].role = "reviewer"}
            documented == \E i \in 1 .. Len(runs[c]) : runs[c][i].role = "documentation"
        IN  call[c].final = "done" \/ documented =>
                \E i \in reviews : /\ \A j \in reviews : j <= i
                                   /\ runs[c][i].decision = "approve"

\* With a Reviewer in its pipeline, a call never lays two proposals side by side
\* that nobody decided between: the Comparator's next one follows the rejection
\* of the one before, the Documentation agent's follows the approval (the "SOLE
\* proposal-creation site" of _execute_step; no constraint of the database).
\* The rejected ones stay, each with its approval; their round tells them.
OneProposalPerReview ==
    \A c \in Calls : "reviewer" \in call[c].active =>
        \A j \in 1 .. Len(runs[c]) : \A i \in 1 .. j - 1 :
            runs[c][i].proposes /\ runs[c][j].proposes =>
                \E k \in i + 1 .. j - 1 :
                    /\ runs[c][k].role = "reviewer"
                    /\ runs[c][k].decision = IF runs[c][j].role = "comparator"
                                             THEN "request_changes" ELSE "approve"

\* orchestration-status names the currently-running agent: a row is "running"
\* only if it is the last of its call and that agent was not heard of again,
\* because the call still waits for it or a restart cut it off; no failure,
\* exception or refused transition leaves one behind.
RunningMeansAgent ==
    \A c \in Calls :
        {i \in 1 .. Len(runs[c]) : runs[c][i].status = "running"}
            = IF call[c].pc \in {"agent", "lost"} THEN {Len(runs[c])} ELSE {}

\* run() returns "the final task status": the status it reports is the task's
\* at that moment, also if somebody changed it while an agent was thinking.
ReplyTruthful ==
    [][\A c \in Calls :
          call[c].final # call[c].final' => status'[call[c].task] = call[c].final']_vars

\* Left alone, a claimed task is done or failed in the end: the review loop is
\* bounded and every role finds a status from which its own is reachable.
TaskSettles ==
    \A t \in Tasks :
        status[t] = "planning" ~> status[t] \in {"done", "failed"} \/ disturbed

\* _claim_task: "False if another orchestrator already claimed it".
OneOrchestrator ==
    \A c, d \in Calls : Live(c) /\ Live(d) /\ c # d => call[c].task # call[d].task

\* run(): after an APPROVE "fall through to advance status", to done.
ApprovalAdvances ==
    [][\A c \in Calls :
          /\ runs[c] # <<>> /\ runs[c] # runs'[c]
          /\ runs'[c][Len(runs[c])].decision = "approve"
          => status'[call[c].task] = "done"]_vars
=============================================================================
