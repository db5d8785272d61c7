---------------------- MODULE TaskOrchestration_proofs ----------------------
(* What holds of the pipeline for every number of tasks, calls, rejections   *)
(* and configurations, whatever people PATCH and whenever the server stops.  *)

EXTENDS TaskOrchestration, FiniteSetTheorems, TLAPS

-----------------------------------------------------------------------------
(* The strengthening: what a call that waits for an agent remembers.         *)

\* Its row is the last one, of the round it counts, and no row is of a later
\* round; planning is over once work was rejected.
Awaited(c) ==
    Live(c) =>
        /\ call[c].task \in Tasks
        /\ call[c].final = "none"
        /\ Len(runs[c]) >= 1
        /\ runs[c][Len(runs[c])] = NewRun(call[c].role, call[c].rejections)
        /\ call[c].rejections < MAX_REJECTIONS
        /\ call[c].rejections > 0 => Position[call[c].role] >= 3
        /\ \A i \in 1 .. Len(runs[c]) : runs[c][i].attempt <= call[c].rejections

\* A call that was not made has no rows and nothing to report.
Unmade(c) ==
    call[c].pc = "idle" =>
        runs[c] = <<>> /\ call[c].final = "none" /\ call[c].active = {}

Inv == TypeOK /\ \A c \in Calls : Awaited(c) /\ Unmade(c)

-----------------------------------------------------------------------------
(* What a step does to one call.                                             *)

\* The agent of call c was heard of, and `row` is what is written of it.
Heard(c, row) ==
    LET n == Len(runs[c]) IN
    /\ row \in RunRow
    /\ row.role = call[c].role
    /\ row.attempt = call[c].rejections
    /\ row.status # "running"
    /\ row.proposes => row.role \in {"comparator", "documentation"}
    /\ call'[c] \in CallState
    /\ call'[c].task = call[c].task
    /\ call'[c].active = call[c].active
    /\ runs'[c] \in Seq(RunRow)
    /\ \A i \in 1 .. n - 1 : runs'[c][i] = runs[c][i]
    /\ runs'[c][n] = row

Verdict(c) == IF call[c].role = "reviewer" THEN "approve" ELSE "none"

\* The call is over, and "done" if the agent was the last of the pipeline.
Ends(c, row) ==
    /\ call'[c].pc \in {"returned", "raised"}
    /\ Len(runs'[c]) = Len(runs[c])
    /\ call'[c].final = "done" => NextRole(c) = {} /\ row.decision = Verdict(c)

\* The next agent is asked.
Asks(c) ==
    /\ call'[c].pc = "agent"
    /\ call'[c].final = "none"
    /\ Len(runs'[c]) = Len(runs[c]) + 1
    /\ runs'[c][Len(runs[c]) + 1] = NewRun(call'[c].role, call'[c].rejections)

Repeats(c, row) ==
    /\ Asks(c)
    /\ call[c].role = "reviewer"
    /\ row.decision = "request_changes"
    /\ call'[c].role = "builder"
    /\ call'[c].rejections = call[c].rejections + 1
    /\ call'[c].rejections < MAX_REJECTIONS

Continues(c, row) ==
    /\ Asks(c)
    /\ row.status = "completed"
    /\ row.decision = Verdict(c)
    /\ call'[c].role \in NextRole(c)
    /\ call'[c].rejections = call[c].rejections

\* What the call reports is what it made of the task.
Reports(c) ==
    "reviewer" \in call[c].active /\ call'[c].final # "none" =>
        status'[call[c].task] = call'[c].final

Answers(c, row) ==
    /\ Live(c)
    /\ Heard(c, row)
    /\ Reports(c)
    /\ Ends(c, row) \/ Repeats(c, row) \/ Continues(c, row)

Begins(c) ==
    /\ call[c].pc = "idle"
    /\ runs'[c] = <<NewRun("planner", 0)>>
    /\ call'[c].pc = "agent"
    /\ call'[c].task \in Tasks
    /\ call'[c].active = enabled \union {"comparator"}
    /\ call'[c].role = "planner"
    /\ call'[c].rejections = 0
    /\ call'[c].final = "none"

Stays(c) == call'[c] = call[c] /\ runs'[c] = runs[c]

IsLost(c) ==
    /\ Live(c)
    /\ call'[c] = [call[c] EXCEPT !.pc = "lost"]
    /\ runs'[c] = runs[c]

-----------------------------------------------------------------------------
(* Proceed, the common end of the answers.                                   *)

Row(c, outcome, decision, proposes) ==
    [runs[c][Len(runs[c])] EXCEPT !.status = outcome, !.decision = decision,
                                  !.proposes = proposes]

\* What the row of the awaited agent becomes.
IsWritten(c, outcome, decision, proposes) ==
    LET row == Row(c, outcome, decision, proposes)
    IN  /\ row \in RunRow
        /\ row.role = call[c].role
        /\ row.attempt = call[c].rejections
        /\ row.status = outcome
        /\ row.decision = decision
        /\ row.proposes = proposes
        /\ Answered(c, outcome, decision, proposes)
               = [runs[c] EXCEPT ![Len(runs[c])] = row]

LEMMA RowOf ==
    ASSUME Inv, NEW c \in Calls, Live(c),
           NEW outcome \in {"completed", "failed"},
           NEW decision \in {"none", "approve", "request_changes", "block"},
           NEW proposes \in BOOLEAN
    PROVE  IsWritten(c, outcome, decision, proposes)
<1>1. runs[c] \in Seq(RunRow) /\ Len(runs[c]) \in 1 .. Len(runs[c])
  BY DEF Inv, TypeOK, Awaited
<1>2. runs[c][Len(runs[c])] = NewRun(call[c].role, call[c].rejections)
  BY DEF Inv, Awaited
<1>3. runs[c][Len(runs[c])] \in RunRow
  BY <1>1
<1> DEFINE old == runs[c][Len(runs[c])]
           row == Row(c, outcome, decision, proposes)
<1>4. row = [old EXCEPT !.status = outcome, !.decision = decision, !.proposes = proposes]
  BY DEF Row
<1>5. Answered(c, outcome, decision, proposes) = [runs[c] EXCEPT ![Len(runs[c])] = row]
  BY DEF Row, Answered
<1>6. old.role = call[c].role /\ old.attempt = call[c].rejections
  BY <1>2 DEF NewRun
<1>7. old \in RunRow
  BY <1>3
<1> HIDE DEF old, row
<1>8. /\ row \in RunRow
      /\ row.role = old.role /\ row.attempt = old.attempt
      /\ row.status = outcome /\ row.decision = decision /\ row.proposes = proposes
  BY <1>4, <1>7 DEF RunRow
<1> QED
  BY <1>5, <1>6, <1>8 DEF row, IsWritten

\* The rows after an answer: one is rewritten, and one follows if the call goes on.
LEMMA RowsAfter ==
    ASSUME NEW s \in Seq(RunRow), Len(s) >= 1, NEW row \in RunRow,
           NEW next \in RunRow, NEW on \in BOOLEAN
    PROVE  LET answered == [s EXCEPT ![Len(s)] = row]
               rows == IF on THEN Append(answered, next) ELSE answered
           IN  /\ rows \in Seq(RunRow)
               /\ Len(rows) = IF on THEN Len(s) + 1 ELSE Len(s)
               /\ \A i \in 1 .. Len(s) - 1 : rows[i] = s[i]
               /\ rows[Len(s)] = row
               /\ on => rows[Len(s) + 1] = next
<1> DEFINE answered == [s EXCEPT ![Len(s)] = row]
<1>1. answered \in Seq(RunRow) /\ Len(answered) = Len(s)
  OBVIOUS
<1>2. \A i \in 1 .. Len(s) - 1 : answered[i] = s[i]
  OBVIOUS
<1>3. answered[Len(s)] = row
  OBVIOUS
<1> HIDE DEF answered
<1>4. Append(answered, next) \in Seq(RunRow)
      /\ Len(Append(answered, next)) = Len(s) + 1
      /\ Append(answered, next)[Len(s) + 1] = next
      /\ \A i \in 1 .. Len(s) : Append(answered, next)[i] = answered[i]
  BY <1>1
<1>5. Len(s) \in Nat
  OBVIOUS
<1>6. CASE on
  <2>1. \A i \in 1 .. Len(s) - 1 : Append(answered, next)[i] = s[i]
    BY <1>2, <1>4, <1>5
  <2>2. Append(answered, next)[Len(s)] = row
    BY <1>3, <1>4, <1>5
  <2> QED
    BY <1>4, <1>6, <2>1, <2>2 DEF answered
<1>7. CASE ~on
  BY <1>1, <1>2, <1>3, <1>7 DEF answered
<1> QED
  BY <1>6, <1>7

\* The call of a Proceed: it goes on as `then` says, or raises.
LEMMA ProceedCall ==
    ASSUME Inv, NEW c \in Calls, Live(c),
           NEW row \in RunRow,
           NEW allowed \in BOOLEAN, NEW target \in TaskStatus,
           NEW then \in CallState,
           then.pc = "agent" => then.rejections < MAX_REJECTIONS,
           Proceed(c, [runs[c] EXCEPT ![Len(runs[c])] = row], allowed, target, then)
    PROVE  LET n == Len(runs[c]) IN
           /\ status' \in [Tasks -> TaskStatus]
           /\ call' \in [Calls -> CallState]
           /\ runs' \in [Calls -> Seq(RunRow)]
           /\ UNCHANGED <<enabled, disturbed>>
           /\ \A d \in Calls \ {c} : Stays(d)
           /\ \A i \in 1 .. n - 1 : runs'[c][i] = runs[c][i]
           /\ runs'[c][n] = row
           /\ \/ allowed /\ call'[c] = then /\ status'[call[c].task] = target
              \/ ~allowed /\ call'[c] = [call[c] EXCEPT !.pc = "raised"]
           /\ call'[c].pc # "agent" => Len(runs'[c]) = n
           /\ call'[c].pc = "agent" =>
                 /\ Len(runs'[c]) = n + 1
                 /\ runs'[c][n + 1] = NewRun(call'[c].role, call'[c].rejections)
<1> DEFINE n == Len(runs[c])
           next == NewRun(call'[c].role, call'[c].rejections)
           answered == [runs[c] EXCEPT ![n] = row]
<1>1. /\ status \in [Tasks -> TaskStatus] /\ call[c].task \in Tasks
      /\ call \in [Calls -> CallState] /\ runs \in [Calls -> Seq(RunRow)]
      /\ n >= 1
  BY DEF Inv, TypeOK, Awaited
<1>2. status' \in [Tasks -> TaskStatus] /\ UNCHANGED <<enabled, disturbed>>
  BY <1>1 DEF Proceed
<1>3. [call[c] EXCEPT !.pc = "raised"] \in CallState
  BY <1>1 DEF CallState
<1>4. /\ call' \in [Calls -> CallState]
      /\ \A d \in Calls \ {c} : call'[d] = call[d]
      /\ \/ allowed /\ call'[c] = then /\ status'[call[c].task] = target
         \/ ~allowed /\ call'[c] = [call[c] EXCEPT !.pc = "raised"]
  BY <1>1, <1>3 DEF Proceed
<1>5. runs' = [runs EXCEPT ![c] = IF call'[c].pc = "agent"
                                  THEN Append(answered, next) ELSE answered]
  BY DEF Proceed
<1>6. CASE call'[c].pc = "agent"
  <2>1. call'[c] = then
    BY <1>4, <1>6, <1>1 DEF CallState
  <2>2. next \in RunRow
    BY <2>1, <1>6, OrchestrationAssumption DEF next, NewRun, RunRow, CallState
  <2> HIDE DEF next
  <2>3. /\ Append(answered, next) \in Seq(RunRow)
        /\ Len(Append(answered, next)) = n + 1
        /\ \A i \in 1 .. n - 1 : Append(answered, next)[i] = runs[c][i]
        /\ Append(answered, next)[n] = row
        /\ Append(answered, next)[n + 1] = next
    BY <2>2, <1>1, RowsAfter
  <2>4. runs' = [runs EXCEPT ![c] = Append(answered, next)]
    BY <1>5, <1>6
  <2> HIDE DEF answered
  <2> QED
    BY <1>1, <1>2, <1>4, <1>6, <2>3, <2>4 DEF next, Stays
<1>7. CASE call'[c].pc # "agent"
  <2>1. runs' = [runs EXCEPT ![c] = answered]
    BY <1>5, <1>7
  <2>2. /\ answered \in Seq(RunRow)
        /\ Len(answered) = n
        /\ \A i \in 1 .. n - 1 : answered[i] = runs[c][i]
        /\ answered[n] = row
    BY <1>1
  <2> HIDE DEF answered
  <2> QED
    BY <1>1, <1>2, <1>4, <1>7, <2>1, <2>2 DEF Stays
<1> QED
  BY <1>6, <1>7

\* What `then` may say, given what is written of the agent.
Plans(c, row, then) ==
    /\ then \in CallState
    /\ then.task = call[c].task
    /\ then.active = call[c].active
    /\ \/ /\ then.pc = "returned"
          /\ then.final = "done" => NextRole(c) = {} /\ row.decision = Verdict(c)
       \/ /\ then.pc = "agent" /\ then.final = "none"
          /\ call[c].role = "reviewer" /\ row.decision = "request_changes"
          /\ then.role = "builder"
          /\ then.rejections = call[c].rejections + 1
          /\ then.rejections < MAX_REJECTIONS
       \/ /\ then.pc = "agent" /\ then.final = "none"
          /\ row.status = "completed" /\ row.decision = Verdict(c)
          /\ then.role \in NextRole(c)
          /\ then.rejections = call[c].rejections

\* An answer as the other calls and the types see it.
Effect(c) ==
    /\ status' \in [Tasks -> TaskStatus]
    /\ call' \in [Calls -> CallState]
    /\ runs' \in [Calls -> Seq(RunRow)]
    /\ UNCHANGED <<enabled, disturbed>>
    /\ \A d \in Calls \ {c} : Stays(d)
    /\ \E row \in RunRow : Answers(c, row)

LEMMA ProceedStep ==
    ASSUME Inv, NEW c \in Calls, Live(c),
           NEW row \in RunRow,
           row.role = call[c].role, row.attempt = call[c].rejections,
           row.status # "running",
           row.proposes => row.role \in {"comparator", "documentation"},
           NEW allowed \in BOOLEAN, NEW target \in TaskStatus,
           NEW then, Plans(c, row, then),
           "reviewer" \in call[c].active => then.final \in {"none", target},
           Proceed(c, [runs[c] EXCEPT ![Len(runs[c])] = row], allowed, target, then)
    PROVE  Effect(c)
<1>1. call[c] \in CallState /\ runs[c] \in Seq(RunRow) /\ call[c].final = "none"
      /\ call[c].rejections < MAX_REJECTIONS /\ call[c].pc = "agent"
  BY DEF Inv, TypeOK, Awaited, Live
<1>2. then \in CallState /\ (then.pc = "agent" => then.rejections < MAX_REJECTIONS)
  BY <1>1 DEF Plans
<1> DEFINE n == Len(runs[c])
<1>3. /\ status' \in [Tasks -> TaskStatus]
      /\ call' \in [Calls -> CallState]
      /\ runs' \in [Calls -> Seq(RunRow)]
      /\ UNCHANGED <<enabled, disturbed>>
      /\ \A d \in Calls \ {c} : Stays(d)
      /\ \A i \in 1 .. n - 1 : runs'[c][i] = runs[c][i]
      /\ runs'[c][n] = row
      /\ \/ allowed /\ call'[c] = then /\ status'[call[c].task] = target
         \/ ~allowed /\ call'[c] = [call[c] EXCEPT !.pc = "raised"]
      /\ call'[c].pc # "agent" => Len(runs'[c]) = n
      /\ call'[c].pc = "agent" =>
            /\ Len(runs'[c]) = n + 1
            /\ runs'[c][n + 1] = NewRun(call'[c].role, call'[c].rejections)
  BY <1>2, ProceedCall
<1>4. call'[c] \in CallState /\ runs'[c] \in Seq(RunRow)
  BY <1>3
<1>5. CASE call'[c] = [call[c] EXCEPT !.pc = "raised"]
  <2>1. /\ call'[c].pc = "raised" /\ call'[c].task = call[c].task
        /\ call'[c].active = call[c].active /\ call'[c].final = "none"
    BY <1>1, <1>5 DEF CallState
  <2>2. Heard(c, row) /\ Ends(c, row) /\ Reports(c)
    BY <1>3, <1>4, <2>1 DEF Heard, Ends, Reports
  <2> QED
    BY <1>3, <2>2 DEF Effect, Answers
<1>6. CASE call'[c] = then /\ status'[call[c].task] = target
  <2>1. Heard(c, row) /\ Reports(c)
    BY <1>3, <1>4, <1>6 DEF Heard, Plans, Reports
  <2>2. Ends(c, row) \/ Repeats(c, row) \/ Continues(c, row)
    BY <1>3, <1>6 DEF Plans, Ends, Repeats, Continues, Asks
  <2> QED
    BY <1>3, <2>1, <2>2 DEF Effect, Answers
<1> QED
  BY <1>3, <1>5, <1>6

\* A role that is asked next is one of the call's.
LEMMA NextIsRole ==
    ASSUME Inv, NEW c \in Calls, NEW r \in NextRole(c)
    PROVE  r \in Roles /\ r \in call[c].active /\ Position[r] > Position[call[c].role]
<1>1. call[c].active \subseteq Roles
  BY DEF Inv, TypeOK, CallState
<1> QED
  BY <1>1 DEF NextRole

LEMMA RoleTypes ==
    /\ SuccessStatus \in [Roles -> TaskStatus]
    /\ Position \in [Roles -> 1 .. 8]
    /\ Roles = {"planner", "architect", "builder", "comparator", "qa",
                "security_reviewer", "reviewer", "documentation"}
  BY DEF SuccessStatus, Roles, TaskStatus, Position

Later(c) == {r \in call[c].active : Position[r] > Position[call[c].role]}

\* The pipeline stops only where nobody is left.
LEMMA NobodyLeft ==
    ASSUME Inv, NEW c \in Calls, NextRole(c) = {}
    PROVE  Later(c) = {}
<1>1. Later(c) \subseteq Roles
  BY DEF Inv, TypeOK, CallState, Later
<1>2. \A r \in Later(c) : \E s \in Later(c) : ~(Position[r] <= Position[s])
  BY DEF NextRole, Later
<1>3. \A r \in Later(c) : Position[r] \in 1 .. 8
  BY <1>1, RoleTypes
<1>4. \A r \in Later(c) : \E s \in Later(c) : Position[s] < Position[r]
  BY <1>2, <1>3
<1> HIDE DEF Later
<1>5. \A r \in Later(c) : Position[r] > 1
  BY <1>3, <1>4
<1>6. \A r \in Later(c) : Position[r] > 2
  BY <1>3, <1>4, <1>5
<1>7. \A r \in Later(c) : Position[r] > 3
  BY <1>3, <1>4, <1>6
<1>8. \A r \in Later(c) : Position[r] > 4
  BY <1>3, <1>4, <1>7
<1>9. \A r \in Later(c) : Position[r] > 5
  BY <1>3, <1>4, <1>8
<1>10. \A r \in Later(c) : Position[r] > 6
  BY <1>3, <1>4, <1>9
<1>11. \A r \in Later(c) : Position[r] > 7
  BY <1>3, <1>4, <1>10
<1>12. \A r \in Later(c) : Position[r] > 8
  BY <1>3, <1>4, <1>11
<1> QED
  BY <1>3, <1>12

\* Where a Reviewer stands in the pipeline, nobody gets past it.
LEMMA ReviewerStands ==
    ASSUME Inv, NEW c \in Calls, "reviewer" \in call[c].active
    PROVE  /\ NextRole(c) = {} => call[c].role \in {"reviewer", "documentation"}
           /\ "documentation" \in NextRole(c) => call[c].role = "reviewer"
<1>1. call[c].role \in Roles
  BY DEF Inv, TypeOK, CallState
<1>2. Position["reviewer"] = 7 /\ Position["documentation"] = 8
  BY DEF Position
<1>3. Position[call[c].role] >= 7 => call[c].role \in {"reviewer", "documentation"}
  BY <1>1, RoleTypes DEF Position
<1>4. ASSUME NextRole(c) = {} PROVE call[c].role \in {"reviewer", "documentation"}
  BY <1>1, <1>2, <1>3, <1>4, NobodyLeft, RoleTypes DEF Later
<1>5. ASSUME "documentation" \in NextRole(c) PROVE call[c].role = "reviewer"
  <2>1. Position[call[c].role] < 8
    BY <1>1, <1>2, <1>5, RoleTypes DEF NextRole
  <2>2. ~(Position[call[c].role] < 7)
    BY <1>1, <1>2, <1>5 DEF NextRole
  <2> QED
    BY <1>1, <1>2, <1>3, <2>1, <2>2, RoleTypes
<1> QED
  BY <1>4, <1>5

LEMMA AnswerStep ==
    ASSUME Inv, NEW c \in Calls, AgentAnswers(c)
    PROVE  Effect(c)
<1>1. Live(c)
  BY DEF AgentAnswers, AgentFails, ReviewerRejects, ReviewerBlocks, AgentSucceeds
<1>2. /\ call[c] \in CallState /\ call[c].task \in Tasks /\ status[call[c].task] \in TaskStatus
      /\ call[c].rejections < MAX_REJECTIONS /\ call[c].final = "none"
      /\ call[c].role \in Roles /\ call[c].rejections \in Nat /\ MAX_REJECTIONS \in Nat
  BY <1>1, OrchestrationAssumption DEF Inv, TypeOK, Awaited, CallState
<1>3. ASSUME NEW n \in 0 .. MAX_REJECTIONS
      PROVE  LET then == [Return(c, "failed") EXCEPT !.rejections = n]
             IN  /\ then \in CallState /\ then.pc = "returned" /\ then.final = "failed"
                 /\ then.task = call[c].task /\ then.active = call[c].active
  BY <1>2 DEF Return, CallState
<1>4. Return(c, "failed") \in CallState /\ Return(c, "failed").pc = "returned"
      /\ Return(c, "failed").final = "failed" /\ Return(c, "failed").task = call[c].task
      /\ Return(c, "failed").active = call[c].active
  BY <1>2 DEF Return, CallState
<1>5. Return(c, "done") \in CallState /\ Return(c, "done").pc = "returned"
      /\ Return(c, "done").final = "done" /\ Return(c, "done").task = call[c].task
      /\ Return(c, "done").active = call[c].active
  BY <1>2 DEF Return, CallState
<1>6. \A s \in TaskStatus : IsValidTransition(s, "failed") \in BOOLEAN
                            /\ IsValidTransition(s, "in_progress") \in BOOLEAN
  BY DEF IsValidTransition
<1>7. CASE AgentFails(c)
  <2> DEFINE row == Row(c, "failed", "none", FALSE)
  <2>0. IsWritten(c, "failed", "none", FALSE)
    BY <1>1, RowOf
  <2>1. row \in RunRow /\ row.role = call[c].role /\ row.attempt = call[c].rejections
        /\ row.status = "failed" /\ ~row.proposes
        /\ Answered(c, "failed", "none", FALSE) = [runs[c] EXCEPT ![Len(runs[c])] = row]
    BY <2>0 DEF IsWritten
  <2>2. Proceed(c, [runs[c] EXCEPT ![Len(runs[c])] = row],
                IsValidTransition(status[call[c].task], "failed"), "failed", Return(c, "failed"))
    BY <1>7, <2>1 DEF AgentFails, FailTask
  <2> HIDE DEF row
  <2>3. Plans(c, row, Return(c, "failed"))
    BY <1>4 DEF Plans
  <2> QED
    BY <1>1, <1>2, <1>4, <1>6, <2>1, <2>2, <2>3, ProceedStep DEF TaskStatus
<1>8. CASE ReviewerRejects(c)
  <2> DEFINE row == Row(c, "completed", "request_changes", FALSE)
  <2>0. IsWritten(c, "completed", "request_changes", FALSE)
    BY <1>1, RowOf
  <2>1. row \in RunRow /\ row.role = call[c].role /\ row.attempt = call[c].rejections
        /\ row.status = "completed" /\ row.decision = "request_changes" /\ ~row.proposes
        /\ Answered(c, "completed", "request_changes", FALSE)
              = [runs[c] EXCEPT ![Len(runs[c])] = row]
    BY <2>0 DEF IsWritten
  <2> DEFINE n == call[c].rejections + 1
  <2>2. n \in 0 .. MAX_REJECTIONS /\ call[c].role = "reviewer"
    BY <1>2, <1>8 DEF ReviewerRejects
  <2>3. CASE TooMany(n)
    <3> DEFINE then == [Return(c, "failed") EXCEPT !.rejections = n]
    <3>1. Proceed(c, [runs[c] EXCEPT ![Len(runs[c])] = row],
                  IsValidTransition(status[call[c].task], "failed"), "failed", then)
      BY <1>8, <2>1, <2>3 DEF ReviewerRejects, FailTask
    <3>2. then \in CallState /\ then.pc = "returned" /\ then.final = "failed"
          /\ then.task = call[c].task /\ then.active = call[c].active
      BY <1>3, <2>2
    <3> HIDE DEF row, then
    <3>3. Plans(c, row, then)
      BY <3>2 DEF Plans
    <3> QED
      BY <1>1, <1>2, <1>6, <2>1, <3>1, <3>2, <3>3, ProceedStep DEF TaskStatus
  <2>4. CASE ~TooMany(n)
    <3> DEFINE then == [call[c] EXCEPT !.role = "builder", !.rejections = n]
    <3>1. Proceed(c, [runs[c] EXCEPT ![Len(runs[c])] = row],
                  IsValidTransition(status[call[c].task], "in_progress"), "in_progress", then)
      BY <1>8, <2>1, <2>4 DEF ReviewerRejects, LoopBack
    <3>2. /\ then \in CallState /\ then.pc = "agent" /\ then.final = "none"
          /\ then.task = call[c].task /\ then.active = call[c].active
          /\ then.role = "builder" /\ then.rejections = n
      BY <1>1, <1>2, <2>2, RoleTypes DEF CallState, Live
    <3>3. n < MAX_REJECTIONS
      BY <1>2, <2>4 DEF TooMany
    <3> HIDE DEF row, then
    <3>4. Plans(c, row, then)
      BY <2>1, <2>2, <3>2, <3>3 DEF Plans
    <3> QED
      BY <1>1, <1>2, <1>6, <2>1, <3>1, <3>2, <3>4, ProceedStep DEF TaskStatus
  <2> QED
    BY <2>3, <2>4
<1>9. CASE ReviewerBlocks(c)
  <2> DEFINE row == Row(c, "completed", "block", FALSE)
  <2>0. IsWritten(c, "completed", "block", FALSE)
    BY <1>1, RowOf
  <2>1. row \in RunRow /\ row.role = call[c].role /\ row.attempt = call[c].rejections
        /\ row.status = "completed" /\ ~row.proposes
        /\ Answered(c, "completed", "block", FALSE) = [runs[c] EXCEPT ![Len(runs[c])] = row]
    BY <2>0 DEF IsWritten
  <2>2. Proceed(c, [runs[c] EXCEPT ![Len(runs[c])] = row],
                IsValidTransition(status[call[c].task], "failed"), "failed", Return(c, "failed"))
    BY <1>9, <2>1 DEF ReviewerBlocks, FailTask
  <2> HIDE DEF row
  <2>3. Plans(c, row, Return(c, "failed"))
    BY <1>4 DEF Plans
  <2> QED
    BY <1>1, <1>2, <1>4, <1>6, <2>1, <2>2, <2>3, ProceedStep DEF TaskStatus
<1>10. ASSUME NEW proposes \in BOOLEAN, AgentSucceeds(c, proposes)
       PROVE  Effect(c)
  <2> DEFINE row == Row(c, "completed", Verdict(c), proposes)
             from == status[call[c].task]
             to == SuccessStatus[call[c].role]
             allowed == from = to \/ IsValidTransition(from, to)
  <2>1. Verdict(c) \in {"none", "approve", "request_changes", "block"}
    BY DEF Verdict
  <2>0. IsWritten(c, "completed", Verdict(c), proposes)
    BY <1>1, <2>1, RowOf
  <2>2. row \in RunRow /\ row.role = call[c].role /\ row.attempt = call[c].rejections
        /\ row.status = "completed" /\ row.decision = Verdict(c) /\ row.proposes = proposes
        /\ Answered(c, "completed", Verdict(c), proposes)
              = [runs[c] EXCEPT ![Len(runs[c])] = row]
    BY <2>0 DEF IsWritten
  <2>9. row.proposes => row.role \in {"comparator", "documentation"}
    BY <1>10, <2>2 DEF AgentSucceeds
  <2>3. to \in TaskStatus /\ allowed \in BOOLEAN
    BY <1>2, RoleTypes DEF IsValidTransition
  <2>4. PICK then \in IF NextRole(c) = {} THEN {Return(c, "done")}
                      ELSE {[call[c] EXCEPT !.role = r] : r \in NextRole(c)} :
            Proceed(c, [runs[c] EXCEPT ![Len(runs[c])] = row], allowed, to, then)
    BY <1>10, <2>2 DEF AgentSucceeds, Verdict
  <2> HIDE DEF row, allowed, to
  <2>5. CASE NextRole(c) = {}
    <3>1. then = Return(c, "done")
      BY <2>4, <2>5
    <3>2. Plans(c, row, then)
      BY <1>5, <2>2, <2>5, <3>1 DEF Plans
    <3>3. "reviewer" \in call[c].active => then.final \in {"none", to}
      <4>1. "reviewer" \in call[c].active => to = "done"
        BY <2>5, ReviewerStands DEF to, SuccessStatus
      <4> QED
        BY <1>5, <3>1, <4>1
    <3> QED
      BY <1>1, <2>2, <2>3, <2>4, <2>9, <3>2, <3>3, ProceedStep
  <2>6. CASE NextRole(c) # {}
    <3>1. PICK r \in NextRole(c) : then = [call[c] EXCEPT !.role = r]
      BY <2>4, <2>6
    <3>2. /\ then \in CallState /\ then.pc = "agent" /\ then.final = "none"
          /\ then.task = call[c].task /\ then.active = call[c].active
          /\ then.role = r /\ then.rejections = call[c].rejections
      BY <1>1, <1>2, <3>1, NextIsRole DEF CallState, Live
    <3>3. Plans(c, row, then)
      BY <2>2, <3>2 DEF Plans
    <3> QED
      BY <1>1, <2>2, <2>3, <2>4, <2>9, <3>2, <3>3, ProceedStep
  <2> QED
    BY <2>5, <2>6
<1> QED
  BY <1>7, <1>8, <1>9, <1>10 DEF AgentAnswers

-----------------------------------------------------------------------------
(* Every step, as one call sees it.                                          *)

LEMMA StepCases ==
    ASSUME Inv, [Next]_vars
    PROVE  /\ TypeOK'
           /\ enabled' \in ParticipantSets \union {enabled}
           /\ \A c \in Calls :
                 Stays(c) \/ IsLost(c) \/ Begins(c) \/ \E row \in RunRow : Answers(c, row)
<1> USE DEF Inv
<1>1. CASE UNCHANGED vars
  <2>1. TypeOK' /\ enabled' = enabled
    BY <1>1 DEF vars, TypeOK
  <2>2. \A d \in Calls : Stays(d)
    BY <1>1 DEF vars, Stays
  <2> QED
    BY <2>1, <2>2
<1>2. ASSUME NEW c \in Calls, AgentAnswers(c)
      PROVE  /\ TypeOK' /\ enabled' = enabled
             /\ \A d \in Calls : Stays(d) \/ \E row \in RunRow : Answers(d, row)
  BY <1>2, AnswerStep DEF Effect, TypeOK
<1>3. ASSUME NEW c \in Calls, NEW t \in Tasks, Orchestrate(c, t)
      PROVE  TypeOK' /\ enabled' = enabled /\ \A d \in Calls : Stays(d) \/ Begins(d)
  <2> DEFINE new == [pc |-> "agent", task |-> t, active |-> enabled \union {"comparator"},
                     role |-> "planner", rejections |-> 0, final |-> "none"]
  <2>1. new \in CallState
    BY OrchestrationAssumption, RoleTypes DEF TypeOK, CallState
  <2>2. NewRun("planner", 0) \in RunRow
    BY OrchestrationAssumption, RoleTypes DEF NewRun, RunRow
  <2>3. /\ status' = [status EXCEPT ![t] = "planning"]
        /\ call' = [call EXCEPT ![c] = new]
        /\ runs' = [runs EXCEPT ![c] = <<NewRun("planner", 0)>>]
        /\ call[c].pc = "idle" /\ UNCHANGED <<enabled, disturbed>>
    BY <1>3 DEF Orchestrate
  <2>4. <<NewRun("planner", 0)>> \in Seq(RunRow)
    BY <2>2
  <2>5. TypeOK'
    BY <2>1, <2>3, <2>4 DEF TypeOK, TaskStatus
  <2>6. Begins(c)
    BY <2>3 DEF TypeOK, Begins
  <2>7. \A d \in Calls \ {c} : Stays(d)
    BY <2>3 DEF TypeOK, Stays
  <2> QED
    BY <2>3, <2>5, <2>6, <2>7
<1>4. ASSUME NEW t \in Tasks, NEW new \in Patches, PatchStatus(t, new)
      PROVE  TypeOK' /\ enabled' = enabled /\ \A d \in Calls : Stays(d)
  BY <1>4, OrchestrationAssumption DEF PatchStatus, TypeOK, Stays
<1>5. ASSUME NEW S \in ParticipantSets, PutParticipants(S)
      PROVE  TypeOK' /\ enabled' = S /\ \A d \in Calls : Stays(d)
  BY <1>5, OrchestrationAssumption DEF PutParticipants, TypeOK, Stays
<1>6. CASE Crash
  <2>1. \A d \in Calls : [call[d] EXCEPT !.pc = "lost"] \in CallState
    BY DEF TypeOK, CallState
  <2>2. TypeOK'
    BY <1>6, <2>1 DEF Crash, TypeOK
  <2>3. \A d \in Calls : Stays(d) \/ IsLost(d)
    BY <1>6 DEF Crash, TypeOK, Stays, IsLost
  <2>4. enabled' = enabled
    BY <1>6 DEF Crash
  <2> QED
    BY <2>2, <2>3, <2>4
<1> QED
  BY <1>1, <1>2, <1>3, <1>4, <1>5, <1>6 DEF Next

\* The row of an agent that was just asked.
LEMMA NewRunFields ==
    ASSUME NEW r, NEW k
    PROVE  /\ NewRun(r, k).role = r /\ NewRun(r, k).attempt = k
           /\ NewRun(r, k).status = "running" /\ NewRun(r, k).decision = "none"
  BY DEF NewRun

LEMMA NewRunProposes ==
    ASSUME NEW r, NEW k
    PROVE  ~NewRun(r, k).proposes
  BY DEF NewRun

LEMMA InitInv == Init => Inv
<1> SUFFICES ASSUME Init PROVE Inv
  OBVIOUS
<1> DEFINE idle == [pc |-> "idle", task |-> NoTask, active |-> {}, role |-> "planner",
                    rejections |-> 0, final |-> "none"]
<1>1. idle \in CallState
  BY OrchestrationAssumption, RoleTypes DEF CallState
<1>2. TypeOK
  <2>1. call = [c \in Calls |-> idle]
    BY DEF Init
  <2> HIDE DEF idle
  <2>2. call \in [Calls -> CallState]
    BY <1>1, <2>1
  <2>3. status \in [Tasks -> TaskStatus] /\ disturbed \in BOOLEAN
    BY DEF Init, TaskStatus
  <2>4. enabled \in SUBSET Roles
    BY OrchestrationAssumption DEF Init
  <2>5. runs \in [Calls -> Seq(RunRow)]
    <3>1. <<>> \in Seq(RunRow)
      OBVIOUS
    <3> QED
      BY <3>1 DEF Init
  <2> QED
    BY <2>2, <2>3, <2>4, <2>5 DEF TypeOK
<1>3. \A c \in Calls : call[c] = idle /\ runs[c] = <<>>
  BY DEF Init
<1>4. \A c \in Calls : Awaited(c) /\ Unmade(c)
  BY <1>3 DEF Awaited, Unmade, Live
<1> QED
  BY <1>2, <1>4 DEF Inv

LEMMA InvStep ==
    ASSUME Inv, [Next]_vars
    PROVE  Inv'
<1>1. TypeOK'
  BY StepCases
<1>2. ASSUME NEW c \in Calls
      PROVE  (Awaited(c) /\ Unmade(c))'
  <2>0. /\ Awaited(c) /\ Unmade(c)
        /\ call[c] \in CallState /\ runs[c] \in Seq(RunRow)
        /\ call'[c] \in CallState /\ runs'[c] \in Seq(RunRow)
    BY <1>1 DEF Inv, TypeOK
  <2>1. CASE Stays(c)
    BY <2>0, <2>1 DEF Stays, Awaited, Unmade, Live
  <2>2. CASE IsLost(c)
    BY <2>0, <2>2 DEF IsLost, Awaited, Unmade, Live, CallState
  <2>3. CASE Begins(c)
    <3>1. Len(runs'[c]) = 1 /\ runs'[c][1] = NewRun("planner", 0)
      BY <2>3 DEF Begins
    <3> QED
      BY <2>3, <3>1, NewRunFields, OrchestrationAssumption DEF Begins, Awaited, Unmade, Live
  <2>4. ASSUME NEW row \in RunRow, Answers(c, row)
        PROVE  (Awaited(c) /\ Unmade(c))'
    <3> DEFINE n == Len(runs[c])
    <3>1. /\ n \in Nat /\ n >= 1
          /\ call[c].rejections \in Nat /\ call[c].rejections < MAX_REJECTIONS
          /\ call[c].role \in Roles /\ MAX_REJECTIONS \in Nat
          /\ \A i \in 1 .. n : runs[c][i] \in RunRow
          /\ \A i \in 1 .. n : runs[c][i].attempt <= call[c].rejections
          /\ call[c].rejections > 0 => Position[call[c].role] >= 3
      BY <2>0, <2>4, OrchestrationAssumption DEF Awaited, Answers, CallState
    <3>2. CASE Ends(c, row)
      BY <3>2 DEF Ends, Awaited, Unmade, Live
    <3>3. ASSUME Asks(c), call'[c].rejections \in Nat,
                 call[c].rejections <= call'[c].rejections,
                 call'[c].rejections < MAX_REJECTIONS,
                 call'[c].rejections > 0 => Position[call'[c].role] >= 3
          PROVE  (Awaited(c) /\ Unmade(c))'
      <4>1. \A i \in 1 .. n : runs'[c][i].attempt <= call[c].rejections
        <5>1. /\ \A i \in 1 .. n - 1 : runs'[c][i] = runs[c][i]
              /\ runs'[c][n].attempt = call[c].rejections
          BY <2>4 DEF Answers, Heard
        <5>2. \A i \in 1 .. n : i \in 1 .. n - 1 \/ i = n
          BY <3>1
        <5>3. call[c].rejections <= call[c].rejections
          BY <3>1
        <5> QED
          BY <3>1, <5>1, <5>2, <5>3
      <4>2. \A i \in 1 .. n + 1 : runs'[c][i].attempt <= call'[c].rejections
        <5> SUFFICES ASSUME NEW i \in 1 .. n + 1
                     PROVE  runs'[c][i].attempt <= call'[c].rejections
          OBVIOUS
        <5>1. CASE i \in 1 .. n
          <6>1. runs'[c][i] \in RunRow
            BY <2>0, <3>3, <5>1 DEF Asks
          <6> QED
            BY <3>1, <3>3, <4>1, <5>1, <6>1, OrchestrationAssumption DEF RunRow
        <5>2. CASE i = n + 1
          BY <3>3, <5>2, NewRunFields DEF Asks
        <5> QED
          BY <3>1, <5>1, <5>2
      <4>3. call'[c].task \in Tasks
        BY <2>0, <2>4 DEF Answers, Heard, Awaited
      <4> QED
        BY <3>1, <3>3, <4>2, <4>3 DEF Asks, Awaited, Unmade, Live
    <3>4. CASE Repeats(c, row)
      BY <3>1, <3>3, <3>4 DEF Repeats, Position
    <3>5. CASE Continues(c, row)
      <4>1. call'[c].role \in Roles /\ Position[call'[c].role] > Position[call[c].role]
        BY <3>5, NextIsRole DEF Continues
      <4>2. Position[call[c].role] \in 1 .. 8 /\ Position[call'[c].role] \in 1 .. 8
        BY <3>1, <4>1, RoleTypes
      <4>3. call[c].rejections > 0 => Position[call'[c].role] >= 3
        <5> DEFINE a == Position[call[c].role]
                   b == Position[call'[c].role]
        <5>1. call[c].rejections > 0 => a >= 3
          BY <3>1
        <5>2. a \in 1 .. 8 /\ b \in 1 .. 8 /\ b > a
          BY <4>1, <4>2
        <5> HIDE DEF a, b
        <5>3. a >= 3 => b >= 3
          BY <5>2
        <5> QED
          BY <5>1, <5>3 DEF b
      <4> QED
        BY <3>1, <3>3, <3>5, <4>3 DEF Continues
    <3> QED
      BY <2>4, <3>2, <3>4, <3>5 DEF Answers
  <2> QED
    BY <2>1, <2>2, <2>3, <2>4, StepCases
<1> QED
  BY <1>1, <1>2 DEF Inv

\* Types, and what a waiting call remembers (Orchestrator.run's locals and the
\* agent_runs rows): for every pipeline, whatever people PATCH.
THEOREM TypeCorrect == Spec => []TypeOK
<1>1. Spec => []Inv
  BY InitInv, InvStep, PTL DEF Spec
<1>2. Inv => TypeOK
  BY DEF Inv
<1> QED
  BY <1>1, <1>2, PTL

-----------------------------------------------------------------------------
(* The agent that runs.                                                      *)

LEMMA RunningStep ==
    ASSUME Inv, RunningMeansAgent, [Next]_vars
    PROVE  RunningMeansAgent'
<1> DEFINE Running(c) == {i \in 1 .. Len(runs[c]) : runs[c][i].status = "running"}
           Expected(c) == IF call[c].pc \in {"agent", "lost"} THEN {Len(runs[c])} ELSE {}
<1> SUFFICES ASSUME NEW c \in Calls
             PROVE  Running(c)' = Expected(c)'
  BY DEF RunningMeansAgent
<1>1. Running(c) = Expected(c)
  BY DEF RunningMeansAgent
<1>2. runs[c] \in Seq(RunRow) /\ call[c] \in CallState
  BY DEF Inv, TypeOK
<1>3. CASE Stays(c)
  BY <1>1, <1>3 DEF Stays
<1>4. CASE IsLost(c)
  BY <1>1, <1>2, <1>4 DEF IsLost, Live, CallState
<1>5. CASE Begins(c)
  <2>1. Len(runs'[c]) = 1 /\ runs'[c][1].status = "running" /\ call'[c].pc = "agent"
    BY <1>5, NewRunFields DEF Begins
  <2> QED
    BY <2>1
<1>6. ASSUME NEW row \in RunRow, Answers(c, row)
      PROVE  Running(c)' = Expected(c)'
  <2> DEFINE n == Len(runs[c])
  <2>1. n \in Nat /\ n >= 1 /\ Live(c)
    BY <1>2, <1>6 DEF Inv, Awaited, Answers
  <2>2. \A i \in 1 .. n - 1 : runs'[c][i].status # "running"
    BY <1>1, <1>6, <2>1 DEF Answers, Heard, Live
  <2>3. runs'[c][n].status # "running"
    BY <1>6 DEF Answers, Heard
  <2>4. CASE Ends(c, row)
    BY <2>1, <2>2, <2>3, <2>4 DEF Ends
  <2>5. CASE Asks(c)
    <3>1. /\ Len(runs'[c]) = n + 1 /\ runs'[c][n + 1].status = "running"
          /\ call'[c].pc = "agent"
      BY <2>5, NewRunFields DEF Asks
    <3>2. \A i \in 1 .. n + 1 : runs'[c][i].status = "running" <=> i = n + 1
      BY <2>1, <2>2, <2>3, <3>1
    <3> QED
      BY <2>1, <3>1, <3>2
  <2> QED
    BY <1>6, <2>4, <2>5 DEF Answers, Repeats, Continues
<1> QED
  BY <1>3, <1>4, <1>5, <1>6, StepCases

\* A row is "running" only if its agent is awaited, or a restart cut it off
\* (_update_run in run()).
THEOREM RowsTellWhoRuns == Spec => []RunningMeansAgent
<1>1. Init => RunningMeansAgent
  <2> SUFFICES ASSUME Init, NEW c \in Calls
               PROVE  {i \in 1 .. Len(runs[c]) : runs[c][i].status = "running"}
                          = IF call[c].pc \in {"agent", "lost"} THEN {Len(runs[c])} ELSE {}
    BY DEF RunningMeansAgent
  <2>1. runs[c] = <<>> /\ call[c].pc = "idle"
    BY DEF Init
  <2> QED
    BY <2>1
<1> QED
  BY <1>1, InitInv, InvStep, RunningStep, PTL DEF Spec

-----------------------------------------------------------------------------
(* The rounds.                                                               *)

\* The rejections recorded before row n of a call.
Rejected(rows, n) == {j \in 1 .. n : rows[j].decision = "request_changes"}

\* What one more row adds to their number.
LEMMA OneMoreRow ==
    ASSUME NEW rows, NEW n \in Nat, n >= 1
    PROVE  /\ Cardinality(Rejected(rows, n - 1)) \in Nat
           /\ Cardinality(Rejected(rows, n)) =
                Cardinality(Rejected(rows, n - 1))
                    + IF rows[n].decision = "request_changes" THEN 1 ELSE 0
<1>1. IsFiniteSet(1 .. n - 1)
  BY FS_Interval
<1>2. IsFiniteSet(Rejected(rows, n - 1))
  BY <1>1, FS_Subset DEF Rejected
<1>3. Cardinality(Rejected(rows, n - 1)) \in Nat
  BY <1>2, FS_CardinalityType
<1>4. CASE rows[n].decision = "request_changes"
  <2>1. Rejected(rows, n) = Rejected(rows, n - 1) \union {n}
    BY <1>4 DEF Rejected
  <2>2. n \notin Rejected(rows, n - 1)
    BY DEF Rejected
  <2> QED
    BY <1>2, <1>3, <1>4, <2>1, <2>2, FS_AddElement
<1>5. CASE rows[n].decision # "request_changes"
  <2>1. Rejected(rows, n) = Rejected(rows, n - 1)
    BY <1>5 DEF Rejected
  <2> QED
    BY <1>3, <1>5, <2>1
<1> QED
  BY <1>4, <1>5

\* Every row of a call carries the number of rejections before it.
Counted(rows) ==
    \A i \in 1 .. Len(rows) :
        /\ rows[i].attempt = Cardinality(Rejected(rows, i - 1))
        /\ rows[i].role \in {"planner", "architect"} => rows[i].attempt = 0

LEMMA AttemptsStep ==
    ASSUME Inv, AttemptsCountRejections, [Next]_vars
    PROVE  AttemptsCountRejections'
<1> SUFFICES ASSUME NEW c \in Calls
             PROVE  Counted(runs'[c])
  BY DEF AttemptsCountRejections, Counted, Rejected
<1>1. Counted(runs[c])
  BY DEF AttemptsCountRejections, Counted, Rejected
<1>2. runs[c] \in Seq(RunRow) /\ call[c] \in CallState
  BY DEF Inv, TypeOK
<1>3. CASE Stays(c) \/ IsLost(c)
  BY <1>1, <1>3 DEF Stays, IsLost
<1>4. CASE Begins(c)
  <2>1. /\ Len(runs'[c]) = 1 /\ runs'[c][1].attempt = 0
    BY <1>4, NewRunFields DEF Begins
  <2>2. Rejected(runs'[c], 0) = {}
    BY DEF Rejected
  <2> QED
    BY <2>1, <2>2, FS_EmptySet DEF Counted
<1>5. ASSUME NEW row \in RunRow, Answers(c, row)
      PROVE  Counted(runs'[c])
  <2> DEFINE n == Len(runs[c])
             k == call[c].rejections
  <2>1. /\ n \in Nat /\ n >= 1 /\ Live(c) /\ k \in Nat
        /\ runs[c][n].role = call[c].role /\ runs[c][n].attempt = k
    BY <1>2, <1>5, NewRunFields DEF Inv, Awaited, Answers, CallState
  <2>2. /\ \A i \in 1 .. n - 1 : runs'[c][i] = runs[c][i]
        /\ runs'[c][n] = row /\ row.role = call[c].role /\ row.attempt = k
    BY <1>5 DEF Answers, Heard
  <2>3. \A i \in 1 .. n : Rejected(runs'[c], i - 1) = Rejected(runs[c], i - 1)
    BY <2>1, <2>2 DEF Rejected
  <2>4. \A i \in 1 .. n :
           /\ runs'[c][i].attempt = Cardinality(Rejected(runs'[c], i - 1))
           /\ runs'[c][i].role \in {"planner", "architect"} => runs'[c][i].attempt = 0
    <3> SUFFICES ASSUME NEW i \in 1 .. n
                 PROVE  /\ runs'[c][i].attempt = Cardinality(Rejected(runs[c], i - 1))
                        /\ runs'[c][i].role \in {"planner", "architect"} =>
                               runs'[c][i].attempt = 0
      BY <2>3
    <3>1. /\ runs'[c][i].attempt = runs[c][i].attempt
          /\ runs'[c][i].role = runs[c][i].role
      BY <2>1, <2>2
    <3> QED
      BY <1>1, <3>1 DEF Counted
  <2>5. CASE Ends(c, row)
    BY <2>4, <2>5 DEF Ends, Counted
  <2>6. CASE Asks(c)
    <3>1. /\ Len(runs'[c]) = n + 1
          /\ runs'[c][n + 1].attempt = call'[c].rejections
          /\ runs'[c][n + 1].role = call'[c].role
      BY <2>6, NewRunFields DEF Asks
    <3>2. Cardinality(Rejected(runs'[c], n - 1)) = k
      BY <2>1, <2>2, <2>4
    <3>3. Cardinality(Rejected(runs'[c], n)) =
              k + IF row.decision = "request_changes" THEN 1 ELSE 0
      BY <2>1, <2>2, <3>2, OneMoreRow
    <3>4. call'[c].rejections = Cardinality(Rejected(runs'[c], n))
      <4>1. CASE Repeats(c, row)
        BY <3>3, <4>1 DEF Repeats
      <4>2. CASE Continues(c, row)
        BY <2>1, <3>3, <4>2 DEF Continues, Verdict
      <4> QED
        BY <1>5, <2>6, <4>1, <4>2 DEF Answers, Asks, Ends
    <3>5. call'[c].role \in {"planner", "architect"} => call'[c].rejections = 0
      <4>1. call'[c] \in CallState /\ Awaited(c)'
        BY InvStep DEF Inv, TypeOK
      <4> QED
        BY <2>6, <4>1 DEF Awaited, Live, Asks, CallState, Position
    <3> QED
      BY <2>1, <2>4, <3>1, <3>4, <3>5 DEF Counted
  <2> QED
    BY <1>5, <2>5, <2>6 DEF Answers, Repeats, Continues
<1> QED
  BY <1>3, <1>4, <1>5, StepCases

\* attempt_number of every row is its review round (_create_run), for any
\* MAX_REJECTIONS.
THEOREM RoundsAreCounted == Spec => []AttemptsCountRejections
<1>1. Init => AttemptsCountRejections
  <2> SUFFICES ASSUME Init, NEW c \in Calls PROVE Len(runs[c]) = 0
    BY DEF AttemptsCountRejections
  <2> QED
    BY DEF Init
<1> QED
  BY <1>1, InitInv, InvStep, AttemptsStep, PTL DEF Spec

-----------------------------------------------------------------------------
(* The review.                                                               *)

Documented(rows) == \E i \in 1 .. Len(rows) : rows[i].role = "documentation"

Approved(rows) ==
    \E i \in 1 .. Len(rows) :
        /\ rows[i].role = "reviewer" /\ rows[i].decision = "approve"
        /\ \A j \in 1 .. Len(rows) : rows[j].role = "reviewer" => j <= i

Reviewed(c) ==
    "reviewer" \in call[c].active =>
        (call[c].final = "done" \/ Documented(runs[c]) => Approved(runs[c]))

\* The Documentation agent is only ever the last.
DocumentsLast(c) ==
    Live(c) /\ call[c].role # "documentation" => ~Documented(runs[c])

ReviewInv == \A c \in Calls : Reviewed(c) /\ DocumentsLast(c)

LEMMA ReviewInvMeans == ReviewInv => DoneIsReviewed
<1> SUFFICES ASSUME ReviewInv, NEW c \in Calls, "reviewer" \in call[c].active,
                    call[c].final = "done" \/ Documented(runs[c])
             PROVE  \E i \in {k \in 1 .. Len(runs[c]) : runs[c][k].role = "reviewer"} :
                       /\ \A j \in {k \in 1 .. Len(runs[c]) : runs[c][k].role = "reviewer"} :
                             j <= i
                       /\ runs[c][i].decision = "approve"
  BY DEF DoneIsReviewed, Documented
<1>1. Approved(runs[c])
  BY DEF ReviewInv, Reviewed
<1> QED
  BY <1>1 DEF Approved

LEMMA ReviewStep ==
    ASSUME Inv, ReviewInv, [Next]_vars
    PROVE  ReviewInv'
<1> SUFFICES ASSUME NEW c \in Calls
             PROVE  (Reviewed(c) /\ DocumentsLast(c))'
  BY DEF ReviewInv
<1>1. /\ Reviewed(c) /\ DocumentsLast(c)
      /\ runs[c] \in Seq(RunRow) /\ call[c] \in CallState
  BY DEF ReviewInv, Inv, TypeOK
<1>2. CASE Stays(c)
  BY <1>1, <1>2 DEF Stays, Reviewed, DocumentsLast, Live
<1>3. CASE IsLost(c)
  BY <1>1, <1>3 DEF IsLost, Reviewed, DocumentsLast, Live, CallState
<1>4. CASE Begins(c)
  <2>1. /\ Len(runs'[c]) = 1 /\ runs'[c][1].role = "planner"
        /\ call'[c].final = "none"
    BY <1>4, NewRunFields DEF Begins
  <2>2. ~Documented(runs'[c])
    BY <2>1 DEF Documented
  <2> QED
    BY <2>1, <2>2 DEF Reviewed, DocumentsLast
<1>5. ASSUME NEW row \in RunRow, Answers(c, row)
      PROVE  (Reviewed(c) /\ DocumentsLast(c))'
  <2> DEFINE n == Len(runs[c])
  <2>1. /\ n \in Nat /\ n >= 1 /\ Live(c)
        /\ runs[c][n].role = call[c].role /\ call[c].final = "none"
    BY <1>1, <1>5, NewRunFields DEF Inv, Awaited, Answers
  <2>2. /\ \A i \in 1 .. n - 1 : runs'[c][i] = runs[c][i]
        /\ runs'[c][n] = row /\ row.role = call[c].role
        /\ call'[c].active = call[c].active
    BY <1>5 DEF Answers, Heard
  <2>3. \A i \in 1 .. n : runs'[c][i].role = runs[c][i].role
    BY <2>1, <2>2
  <2>4. call[c].role # "documentation" =>
            \A i \in 1 .. n : runs'[c][i].role # "documentation"
    BY <1>1, <2>1, <2>3 DEF DocumentsLast, Documented
  \* An approval by the agent that has just answered.
  <2>5. ASSUME call[c].role = "reviewer", row.decision = "approve",
               Len(runs'[c]) = n \/ (Len(runs'[c]) = n + 1
                                     /\ runs'[c][n + 1].role # "reviewer")
        PROVE  Approved(runs'[c])
    <3>1. \A j \in 1 .. Len(runs'[c]) : runs'[c][j].role = "reviewer" => j <= n
      BY <2>1, <2>5
    <3> QED
      BY <2>1, <2>2, <2>5, <3>1 DEF Approved
  \* An earlier approval, while the task is documented.
  <2>6. ASSUME call[c].role = "documentation", "reviewer" \in call[c].active,
               Len(runs'[c]) = n
        PROVE  Approved(runs'[c])
    <3>1. Documented(runs[c])
      BY <2>1, <2>6 DEF Documented
    <3>2. PICK i \in 1 .. n :
             /\ runs[c][i].role = "reviewer" /\ runs[c][i].decision = "approve"
             /\ \A j \in 1 .. n : runs[c][j].role = "reviewer" => j <= i
      BY <1>1, <2>6, <3>1 DEF Reviewed, Approved
    <3>3. i # n
      BY <2>1, <2>6, <3>2
    <3>4. runs'[c][i] = runs[c][i]
      BY <2>1, <2>2, <3>3
    <3>5. \A j \in 1 .. Len(runs'[c]) : runs'[c][j].role = "reviewer" => j <= i
      BY <2>3, <2>6, <3>2
    <3> QED
      BY <2>6, <3>2, <3>4, <3>5 DEF Approved
  <2>7. CASE Ends(c, row)
    <3>1. ~Live(c)' /\ Len(runs'[c]) = n
      BY <2>7 DEF Ends, Live
    <3>2. ASSUME "reviewer" \in call[c].active, call'[c].final = "done"
          PROVE  Approved(runs'[c])
      <4>1. call[c].role \in {"reviewer", "documentation"} /\ row.decision = Verdict(c)
        BY <2>7, <3>2, ReviewerStands DEF Ends
      <4> QED
        BY <2>5, <2>6, <3>1, <3>2, <4>1 DEF Verdict
    <3>3. ASSUME "reviewer" \in call[c].active, Documented(runs'[c])
          PROVE  Approved(runs'[c])
      <4>1. call[c].role = "documentation"
        BY <2>4, <3>1, <3>3 DEF Documented
      <4> QED
        BY <2>6, <3>1, <3>3, <4>1
    <3> QED
      BY <2>2, <3>1, <3>2, <3>3 DEF Reviewed, DocumentsLast
  <2>8. CASE Asks(c)
    <3>1. /\ Len(runs'[c]) = n + 1 /\ call'[c].final = "none"
          /\ runs'[c][n + 1].role = call'[c].role
      BY <2>8, NewRunFields DEF Asks
    <3>2. call[c].role # "documentation"
      <4>1. CASE Repeats(c, row)
        BY <4>1 DEF Repeats
      <4>2. CASE Continues(c, row)
        <5>1. call'[c].role \in Roles /\ Position[call'[c].role] > Position[call[c].role]
          BY <4>2, NextIsRole DEF Continues
        <5> QED
          BY <5>1, RoleTypes DEF Position
      <4> QED
        BY <1>5, <2>8, <4>1, <4>2 DEF Answers, Asks, Ends
    <3>3. Documented(runs'[c]) => call'[c].role = "documentation"
      BY <2>1, <2>4, <3>1, <3>2 DEF Documented
    <3>4. ASSUME "reviewer" \in call[c].active, call'[c].role = "documentation"
          PROVE  Approved(runs'[c])
      <4>1. Continues(c, row)
        BY <1>5, <2>8, <3>4 DEF Answers, Asks, Ends, Repeats
      <4>2. call[c].role = "reviewer"
        BY <3>4, <4>1, ReviewerStands DEF Continues
      <4>3. row.decision = "approve"
        BY <4>1, <4>2 DEF Continues, Verdict
      <4> QED
        BY <2>5, <3>1, <3>4, <4>2, <4>3
    <3> QED
      BY <2>2, <3>1, <3>3, <3>4 DEF Reviewed, DocumentsLast
  <2> QED
    BY <1>5, <2>7, <2>8 DEF Answers, Repeats, Continues
<1> QED
  BY <1>2, <1>3, <1>4, <1>5, StepCases

\* With a Reviewer in its pipeline no call reports "done", and no Documentation
\* agent is asked, for work whose last review is not an approval.
THEOREM DoneWasApproved == Spec => []DoneIsReviewed
<1>1. Init => ReviewInv
  <2> SUFFICES ASSUME Init, NEW c \in Calls PROVE Reviewed(c) /\ DocumentsLast(c)
    BY DEF ReviewInv
  <2>1. runs[c] = <<>> /\ call[c].active = {}
    BY DEF Init
  <2> QED
    BY <2>1 DEF Reviewed, DocumentsLast, Documented
<1> QED
  BY <1>1, InitInv, InvStep, ReviewStep, ReviewInvMeans, PTL DEF Spec

-----------------------------------------------------------------------------
(* The work under review.                                                    *)

\* The runs of role r that were completed in a round, in the first n rows.
Completed(rows, r, k, n) ==
    {j \in 1 .. n : rows[j].role = r /\ rows[j].attempt = k /\ rows[j].status = "completed"}

Reviewable(c) == {s \in call[c].active : Position[s] \in 3 .. 6}

\* The round so far: of the roles under review, those before the awaited one
\* have completed a run, the others none.
RoundSoFar(c) ==
    Live(c) => \A r \in Reviewable(c) :
        Cardinality(Completed(runs[c], r, call[c].rejections, Len(runs[c]) - 1)) =
            IF Position[r] < Position[call[c].role] THEN 1 ELSE 0

Afresh(c) ==
    \A i \in 1 .. Len(runs[c]) : runs[c][i].role = "reviewer" =>
        \A r \in Reviewable(c) :
            Cardinality(Completed(runs[c], r, runs[c][i].attempt, i - 1)) = 1

RoundInv == \A c \in Calls : RoundSoFar(c) /\ Afresh(c)

LEMMA RoundInvMeans == RoundInv => ReviewedAfresh
<1> SUFFICES ASSUME RoundInv, NEW c \in Calls, NEW i \in 1 .. Len(runs[c]),
                    runs[c][i].role = "reviewer",
                    NEW r \in {s \in call[c].active : Position[s] \in 3 .. 6}
             PROVE  Cardinality({j \in 1 .. i - 1 :
                                    /\ runs[c][j].role = r
                                    /\ runs[c][j].attempt = runs[c][i].attempt
                                    /\ runs[c][j].status = "completed"}) = 1
  BY DEF ReviewedAfresh
<1> QED
  BY DEF RoundInv, Afresh, Completed, Reviewable

\* What one more row adds to the completed runs of a role.
LEMMA OneMoreRun ==
    ASSUME NEW rows, NEW r, NEW k, NEW n \in Nat, n >= 1
    PROVE  Cardinality(Completed(rows, r, k, n)) =
               Cardinality(Completed(rows, r, k, n - 1))
                   + IF rows[n].role = r /\ rows[n].attempt = k
                        /\ rows[n].status = "completed" THEN 1 ELSE 0
<1>1. IsFiniteSet(1 .. n - 1)
  BY FS_Interval
<1>2. IsFiniteSet(Completed(rows, r, k, n - 1))
  BY <1>1, FS_Subset DEF Completed
<1>3. Cardinality(Completed(rows, r, k, n - 1)) \in Nat
  BY <1>2, FS_CardinalityType
<1>4. CASE rows[n].role = r /\ rows[n].attempt = k /\ rows[n].status = "completed"
  <2>1. Completed(rows, r, k, n) = Completed(rows, r, k, n - 1) \union {n}
    BY <1>4 DEF Completed
  <2>2. n \notin Completed(rows, r, k, n - 1)
    BY DEF Completed
  <2> QED
    BY <1>2, <1>3, <1>4, <2>1, <2>2, FS_AddElement
<1>5. CASE ~(rows[n].role = r /\ rows[n].attempt = k /\ rows[n].status = "completed")
  <2>1. Completed(rows, r, k, n) = Completed(rows, r, k, n - 1)
    BY <1>5 DEF Completed
  <2> QED
    BY <1>3, <1>5, <2>1
<1> QED
  BY <1>4, <1>5

\* The pipeline passes one role at a time.
LEMMA NextIsFirst ==
    ASSUME Inv, NEW c \in Calls, NEW next \in NextRole(c), NEW r \in Reviewable(c)
    PROVE  Position[r] < Position[next]
               <=> Position[r] < Position[call[c].role] \/ r = call[c].role
<1>1. /\ call[c].role \in Roles /\ r \in Roles /\ next \in Roles
      /\ r \in call[c].active
  BY NextIsRole DEF Inv, TypeOK, CallState, Reviewable
<1>2. /\ Position[r] \in 1 .. 8 /\ Position[next] \in 1 .. 8
      /\ Position[call[c].role] \in 1 .. 8
      /\ Position[call[c].role] < Position[next]
  BY <1>1, NextIsRole, RoleTypes
<1>3. Position[r] = Position[call[c].role] => r = call[c].role
  BY <1>1, RoleTypes DEF Position
<1>4. Position[r] > Position[call[c].role] => Position[next] <= Position[r]
  BY <1>1 DEF NextRole
<1> QED
  BY <1>2, <1>3, <1>4

LEMMA RoundStep ==
    ASSUME Inv, RoundInv, [Next]_vars
    PROVE  RoundInv'
<1> SUFFICES ASSUME NEW c \in Calls
             PROVE  (RoundSoFar(c) /\ Afresh(c))'
  BY DEF RoundInv
<1>1. /\ RoundSoFar(c) /\ Afresh(c)
      /\ runs[c] \in Seq(RunRow) /\ call[c] \in CallState
  BY DEF RoundInv, Inv, TypeOK
<1>2. CASE Stays(c)
  BY <1>1, <1>2 DEF Stays, RoundSoFar, Afresh, Reviewable, Live
<1>3. CASE IsLost(c)
  BY <1>1, <1>3 DEF IsLost, RoundSoFar, Afresh, Reviewable, Live, CallState
<1>4. CASE Begins(c)
  <2>1. /\ Len(runs'[c]) = 1 /\ runs'[c][1].role = "planner"
        /\ call'[c].role = "planner"
    BY <1>4, NewRunFields DEF Begins
  <2>2. ASSUME NEW r \in Reviewable(c)'
        PROVE  /\ Cardinality(Completed(runs'[c], r, call'[c].rejections, 0)) = 0
               /\ ~(Position[r] < Position["planner"])
    <3>1. Completed(runs'[c], r, call'[c].rejections, 0) = {}
      BY DEF Completed
    <3>2. Position[r] \in 3 .. 6 /\ Position["planner"] = 1
      BY DEF Reviewable, Position
    <3> QED
      BY <3>1, <3>2, FS_EmptySet
  <2> QED
    BY <2>1, <2>2 DEF RoundSoFar, Afresh
<1>5. ASSUME NEW row \in RunRow, Answers(c, row)
      PROVE  (RoundSoFar(c) /\ Afresh(c))'
  <2> DEFINE n == Len(runs[c])
             k == call[c].rejections
  <2>1. /\ n \in Nat /\ n >= 1 /\ Live(c) /\ k \in Nat
        /\ runs[c][n].role = call[c].role /\ runs[c][n].attempt = k
        /\ \A i \in 1 .. n : runs[c][i] \in RunRow /\ runs[c][i].attempt <= k
    BY <1>1, <1>5, NewRunFields DEF Inv, Awaited, Answers, CallState
  <2>2. /\ \A i \in 1 .. n - 1 : runs'[c][i] = runs[c][i]
        /\ runs'[c][n] = row /\ row.role = call[c].role /\ row.attempt = k
        /\ call'[c].active = call[c].active
    BY <1>5 DEF Answers, Heard
  <2>3. Reviewable(c)' = Reviewable(c)
    BY <2>2 DEF Reviewable
  <2>4. \A r, m : \A i \in 1 .. n :
            Completed(runs'[c], r, m, i - 1) = Completed(runs[c], r, m, i - 1)
    <3> SUFFICES ASSUME NEW r, NEW m, NEW i \in 1 .. n
                 PROVE  Completed(runs'[c], r, m, i - 1) = Completed(runs[c], r, m, i - 1)
      OBVIOUS
    <3>1. \A j \in 1 .. i - 1 : j \in 1 .. n - 1
      BY <2>1
    <3>2. \A j \in 1 .. i - 1 : runs'[c][j] = runs[c][j]
      BY <2>2, <3>1
    <3> HIDE DEF n
    <3> QED
      BY <3>2 DEF Completed
  <2>5. \A i \in 1 .. n : runs'[c][i].role = "reviewer" =>
            \A r \in Reviewable(c) :
                Cardinality(Completed(runs'[c], r, runs'[c][i].attempt, i - 1)) = 1
    <3> SUFFICES ASSUME NEW i \in 1 .. n, runs'[c][i].role = "reviewer",
                        NEW r \in Reviewable(c)
                 PROVE  Cardinality(Completed(runs'[c], r, runs'[c][i].attempt, i - 1)) = 1
      OBVIOUS
    <3>1. runs'[c][i].role = runs[c][i].role /\ runs'[c][i].attempt = runs[c][i].attempt
      BY <2>1, <2>2
    <3> QED
      BY <1>1, <2>4, <3>1 DEF Afresh
  <2>6. CASE Ends(c, row)
    BY <2>3, <2>5, <2>6 DEF Ends, RoundSoFar, Afresh, Live
  <2>7. CASE Asks(c)
    <3>1. /\ Len(runs'[c]) = n + 1
          /\ runs'[c][n + 1].attempt = call'[c].rejections
          /\ runs'[c][n + 1].role = call'[c].role
      BY <2>7, NewRunFields DEF Asks
    <3>2. ASSUME NEW r \in Reviewable(c)
          PROVE  Cardinality(Completed(runs'[c], r, call'[c].rejections, n)) =
                     IF Position[r] < Position[call'[c].role] THEN 1 ELSE 0
      <4>1. CASE Continues(c, row)
        <5>1. Cardinality(Completed(runs'[c], r, k, n - 1)) =
                  IF Position[r] < Position[call[c].role] THEN 1 ELSE 0
          BY <1>1, <2>1, <2>4 DEF RoundSoFar
        <5>2. Cardinality(Completed(runs'[c], r, k, n)) =
                  Cardinality(Completed(runs'[c], r, k, n - 1))
                      + IF r = call[c].role THEN 1 ELSE 0
          BY <2>1, <2>2, <4>1, OneMoreRun DEF Continues
        <5>3. r = call[c].role => ~(Position[r] < Position[call[c].role])
          <6>1. Position[r] \in Nat
            BY DEF Reviewable
          <6> QED
            BY <6>1
        <5>4. Position[r] < Position[call'[c].role]
                  <=> Position[r] < Position[call[c].role] \/ r = call[c].role
          BY <4>1, NextIsFirst DEF Continues
        <5> QED
          BY <4>1, <5>1, <5>2, <5>3, <5>4 DEF Continues
      <4>2. CASE Repeats(c, row)
        <5>1. \A i \in 1 .. n : runs'[c][i].attempt # k + 1
          <6> SUFFICES ASSUME NEW i \in 1 .. n PROVE runs'[c][i].attempt # k + 1
            OBVIOUS
          <6>1. runs'[c][i].attempt = runs[c][i].attempt
            BY <2>1, <2>2
          <6>2. runs[c][i] \in RunRow /\ runs[c][i].attempt <= k
            BY <2>1
          <6>3. runs[c][i].attempt \in 0 .. MAX_REJECTIONS - 1
            BY <6>2 DEF RunRow
          <6>4. \A a, b \in Int : a <= b => a # b + 1
            OBVIOUS
          <6>5. runs[c][i].attempt \in Int /\ k \in Int
            BY <2>1, <6>3, OrchestrationAssumption
          <6> QED
            BY <6>1, <6>2, <6>4, <6>5
        <5>2. Completed(runs'[c], r, k + 1, n) = {}
          BY <5>1 DEF Completed
        <5>3. Position[r] \in 3 .. 6 /\ Position["builder"] = 3
          BY DEF Reviewable, Position
        <5>4. call'[c].rejections = k + 1 /\ call'[c].role = "builder"
          BY <4>2 DEF Repeats
        <5>5. ~(Position[r] < Position["builder"])
          BY <5>3
        <5>6. Cardinality(Completed(runs'[c], r, k + 1, n)) = 0
          BY <5>2, FS_EmptySet
        <5> HIDE DEF k, n
        <5> QED
          BY <5>4, <5>5, <5>6
      <4> QED
        BY <1>5, <2>7, <4>1, <4>2 DEF Answers, Asks, Ends
    <3>3. RoundSoFar(c)'
      BY <2>1, <2>3, <3>1, <3>2 DEF RoundSoFar
    <3>4. ASSUME call'[c].role = "reviewer", NEW r \in Reviewable(c)
          PROVE  Cardinality(Completed(runs'[c], r, call'[c].rejections, n)) = 1
      <4>1. Position[r] \in 3 .. 6 /\ Position["reviewer"] = 7
        BY DEF Reviewable, Position
      <4> QED
        BY <3>2, <3>4, <4>1
    <3>5. Afresh(c)'
      <4> SUFFICES ASSUME NEW i \in 1 .. n + 1, runs'[c][i].role = "reviewer",
                          NEW r \in Reviewable(c)
                   PROVE  Cardinality(Completed(runs'[c], r, runs'[c][i].attempt, i - 1)) = 1
        BY <2>3, <3>1 DEF Afresh
      <4>1. CASE i \in 1 .. n
        BY <2>5, <4>1
      <4>2. CASE i = n + 1
        BY <2>1, <3>1, <3>4, <4>2
      <4> QED
        BY <2>1, <4>1, <4>2
    <3> QED
      BY <3>3, <3>5
  <2> QED
    BY <1>5, <2>6, <2>7 DEF Answers, Repeats, Continues
<1> QED
  BY <1>2, <1>3, <1>4, <1>5, StepCases

\* When the Reviewer is asked, every enabled role between Builder and Reviewer
\* has completed exactly one run of this round (the loop back to builder_idx).
THEOREM ReviewsAreFresh == Spec => []ReviewedAfresh
<1>1. Init => RoundInv
  <2> SUFFICES ASSUME Init, NEW c \in Calls PROVE RoundSoFar(c) /\ Afresh(c)
    BY DEF RoundInv
  <2>1. runs[c] = <<>> /\ call[c].pc = "idle"
    BY DEF Init
  <2> QED
    BY <2>1 DEF RoundSoFar, Afresh, Live
<1> QED
  BY <1>1, InitInv, InvStep, RoundStep, RoundInvMeans, PTL DEF Spec

-----------------------------------------------------------------------------
(* The report.                                                               *)

\* Every configuration of the project has a Reviewer.
AlwaysReviewed == \A S \in ParticipantSets : "reviewer" \in S

ReviewerKept ==
    /\ "reviewer" \in enabled
    /\ \A c \in Calls : Live(c) => "reviewer" \in call[c].active

LEMMA KeptStep ==
    ASSUME AlwaysReviewed, Inv, ReviewerKept, [Next]_vars
    PROVE  ReviewerKept'
<1>1. "reviewer" \in enabled'
  BY StepCases DEF AlwaysReviewed, ReviewerKept
<1>2. ASSUME NEW c \in Calls, Live(c)' PROVE "reviewer" \in call'[c].active
  <2>1. CASE Stays(c)
    BY <1>2, <2>1 DEF Stays, ReviewerKept, Live
  <2>2. CASE IsLost(c)
    BY <1>2, <2>2 DEF IsLost, Live, Inv, TypeOK, CallState
  <2>3. CASE Begins(c)
    BY <2>3 DEF Begins, ReviewerKept
  <2>4. ASSUME NEW row \in RunRow, Answers(c, row) PROVE "reviewer" \in call'[c].active
    BY <2>4 DEF Answers, Heard, ReviewerKept
  <2> QED
    BY <2>1, <2>2, <2>3, <2>4, StepCases
<1> QED
  BY <1>1, <1>2 DEF ReviewerKept

\* Where every configuration has a Reviewer, the status run() reports is the
\* task's at that moment, whoever PATCHed it meanwhile.  (With the mandatory
\* roles only, it reports "done" for a task that is in progress.)
THEOREM ReportsAreTrue == AlwaysReviewed => (Spec => ReplyTruthful)
<1> SUFFICES ASSUME AlwaysReviewed PROVE Spec => ReplyTruthful
  OBVIOUS
<1>1. Init => ReviewerKept
  BY DEF Init, AlwaysReviewed, ReviewerKept, Live
<1>2. ASSUME Inv, ReviewerKept, [Next]_vars, NEW c \in Calls,
             call[c].final # call[c].final'
      PROVE  status'[call[c].task] = call[c].final'
  <2>1. ~Stays(c)
    BY <1>2 DEF Stays
  <2>2. ~IsLost(c)
    BY <1>2 DEF IsLost, Inv, TypeOK, CallState
  <2>3. ~Begins(c)
    BY <1>2 DEF Begins, Inv, Unmade
  <2>4. PICK row \in RunRow : Answers(c, row)
    BY <1>2, <2>1, <2>2, <2>3, StepCases
  <2>5. call[c].final = "none" /\ "reviewer" \in call[c].active
    BY <1>2, <2>4 DEF Inv, Awaited, Answers, ReviewerKept
  <2> QED
    BY <1>2, <2>4, <2>5 DEF Answers, Reports
<1>3. Inv /\ ReviewerKept /\ [Next]_vars =>
          [\A c \in Calls : call[c].final # call[c].final' =>
                               status'[call[c].task] = call[c].final']_vars
  BY <1>2
<1>4. Inv /\ ReviewerKept /\ [Next]_vars => Inv' /\ ReviewerKept'
  BY InvStep, KeptStep
<1> QED
  BY <1>1, <1>3, <1>4, InitInv, PTL DEF Spec, ReplyTruthful

-----------------------------------------------------------------------------
(* The proposals.                                                            *)

\* A Reviewer's decision among the rows after i and before j.
DecidedBetween(rows, i, j, decision) ==
    \E k \in i + 1 .. j - 1 : rows[k].role = "reviewer" /\ rows[k].decision = decision

\* What must have been decided before an agent proposes (again).
Needed(role) == IF role = "comparator" THEN "request_changes" ELSE "approve"

PairsDecided(c) ==
    \A j \in 1 .. Len(runs[c]) : \A i \in 1 .. j - 1 :
        runs[c][i].proposes /\ runs[c][j].proposes =>
            DecidedBetween(runs[c], i, j, Needed(runs[c][j].role))

\* Every proposal of the rows before the last was decided upon.
SoFar(c, decision) ==
    \A i \in 1 .. Len(runs[c]) - 1 :
        runs[c][i].proposes => DecidedBetween(runs[c], i, Len(runs[c]), decision)

\* Up to the Comparator's turn all earlier proposals were rejected; at the
\* Documentation agent's the last review approved.
Cleared(c) ==
    Live(c) => /\ Position[call[c].role] <= 4 => SoFar(c, "request_changes")
               /\ call[c].role = "documentation" => SoFar(c, "approve")

ProposalInv ==
    \A c \in Calls : "reviewer" \in call[c].active => PairsDecided(c) /\ Cleared(c)

LEMMA ProposalInvMeans == ProposalInv => OneProposalPerReview
  BY DEF ProposalInv, PairsDecided, DecidedBetween, Needed, OneProposalPerReview

LEMMA ProposalStep ==
    ASSUME Inv, ProposalInv, [Next]_vars
    PROVE  ProposalInv'
<1> SUFFICES ASSUME NEW c \in Calls, "reviewer" \in call'[c].active
             PROVE  (PairsDecided(c) /\ Cleared(c))'
  BY DEF ProposalInv
<1>1. /\ "reviewer" \in call[c].active => PairsDecided(c) /\ Cleared(c)
      /\ runs[c] \in Seq(RunRow) /\ call[c] \in CallState
  BY DEF ProposalInv, Inv, TypeOK
<1>2. CASE Stays(c)
  BY <1>1, <1>2 DEF Stays, PairsDecided, Cleared, SoFar, Live
<1>3. CASE IsLost(c)
  BY <1>1, <1>3 DEF IsLost, PairsDecided, Cleared, SoFar, Live, CallState
<1>4. CASE Begins(c)
  <2>1. Len(runs'[c]) = 1 /\ call'[c].role = "planner"
    BY <1>4 DEF Begins
  <2> QED
    BY <2>1 DEF PairsDecided, Cleared, SoFar
<1>5. ASSUME NEW row \in RunRow, Answers(c, row)
      PROVE  (PairsDecided(c) /\ Cleared(c))'
  <2> DEFINE n == Len(runs[c])
  <2>1. /\ n \in Nat /\ n >= 1 /\ Live(c) /\ call[c].role \in Roles
        /\ "reviewer" \in call[c].active /\ PairsDecided(c) /\ Cleared(c)
    BY <1>1, <1>5 DEF Inv, Awaited, Answers, Heard, CallState
  <2>2. /\ \A i \in 1 .. n - 1 : runs'[c][i] = runs[c][i]
        /\ runs'[c][n] = row /\ row.role = call[c].role
        /\ row.proposes => row.role \in {"comparator", "documentation"}
    BY <1>5 DEF Answers, Heard
  <2>3. \A i, j, d : i \in 1 .. n /\ j \in 1 .. n =>
            (DecidedBetween(runs[c], i, j, d) <=> DecidedBetween(runs'[c], i, j, d))
    BY <2>1, <2>2 DEF DecidedBetween
  <2>4. row.proposes => \A i \in 1 .. n - 1 : runs[c][i].proposes =>
                            DecidedBetween(runs[c], i, n, Needed(row.role))
    BY <2>1, <2>2 DEF Cleared, SoFar, Needed, Position
  <2>5. ASSUME NEW j \in 1 .. n, NEW i \in 1 .. j - 1,
               runs'[c][i].proposes, runs'[c][j].proposes
        PROVE  DecidedBetween(runs'[c], i, j, Needed(runs'[c][j].role))
    <3>1. i \in 1 .. n - 1 /\ i \in 1 .. n /\ runs'[c][i] = runs[c][i]
      BY <2>1, <2>2
    <3>2. CASE j = n
      BY <2>1, <2>2, <2>3, <2>4, <2>5, <3>1, <3>2
    <3>3. CASE j \in 1 .. n - 1
      <4>1. runs'[c][j] = runs[c][j]
        BY <2>2, <3>3
      <4>2. DecidedBetween(runs[c], i, j, Needed(runs[c][j].role))
        BY <2>1, <2>5, <3>1, <4>1 DEF PairsDecided
      <4> QED
        BY <2>3, <3>1, <4>1, <4>2
    <3> QED
      BY <2>1, <3>2, <3>3
  <2>6. CASE Ends(c, row)
    BY <2>5, <2>6 DEF Ends, PairsDecided, Cleared, Live
  <2>7. CASE Asks(c)
    <3>1. /\ Len(runs'[c]) = n + 1
          /\ ~runs'[c][n + 1].proposes
      BY <2>7, NewRunProposes DEF Asks
    <3>2. PairsDecided(c)'
      <4> SUFFICES ASSUME NEW j \in 1 .. n + 1, NEW i \in 1 .. j - 1,
                          runs'[c][i].proposes, runs'[c][j].proposes
                   PROVE  DecidedBetween(runs'[c], i, j, Needed(runs'[c][j].role))
        BY <3>1 DEF PairsDecided
      <4>1. j \in 1 .. n
        BY <2>1, <3>1
      <4> QED
        BY <2>5, <4>1
    \* A decision recorded in row n clears every proposal before it.
    <3>3. ASSUME NEW d, row.role = "reviewer", row.decision = d
          PROVE  SoFar(c, d)'
      <4> SUFFICES ASSUME NEW i \in 1 .. n, runs'[c][i].proposes
                   PROVE  DecidedBetween(runs'[c], i, n + 1, d)
        BY <2>1, <3>1 DEF SoFar
      <4>1. i # n
        BY <2>2, <3>3
      <4>2. n \in i + 1 .. n + 1 - 1
        BY <2>1, <4>1
      <4> QED
        BY <2>2, <3>3, <4>2 DEF DecidedBetween
    <3>4. CASE Repeats(c, row)
      <4>1. SoFar(c, "request_changes")'
        BY <2>2, <3>3, <3>4 DEF Repeats
      <4>2. call'[c].role = "builder"
        BY <3>4 DEF Repeats
      <4> QED
        BY <3>2, <4>1, <4>2 DEF Cleared
    <3>5. CASE Continues(c, row)
      <4>1. /\ call'[c].role \in Roles
            /\ Position[call[c].role] < Position[call'[c].role]
            /\ Position[call[c].role] \in 1 .. 8 /\ Position[call'[c].role] \in 1 .. 8
        BY <2>1, <3>5, NextIsRole, RoleTypes DEF Continues
      <4>2. ASSUME Position[call'[c].role] <= 4
            PROVE  SoFar(c, "request_changes")'
        <5>1. Position[call[c].role] < 4
          BY <4>1, <4>2
        <5>2. ~row.proposes
          BY <2>2, <5>1 DEF Position
        <5>3. SoFar(c, "request_changes")
          BY <2>1, <4>1, <5>1 DEF Cleared
        <5> SUFFICES ASSUME NEW i \in 1 .. n, runs'[c][i].proposes
                     PROVE  DecidedBetween(runs'[c], i, n + 1, "request_changes")
          BY <2>1, <3>1 DEF SoFar
        <5>4. i \in 1 .. n - 1
          BY <2>1, <2>2, <5>2
        <5>5. DecidedBetween(runs'[c], i, n, "request_changes")
          BY <2>1, <2>2, <2>3, <5>3, <5>4 DEF SoFar
        <5>6. i + 1 .. n - 1 \subseteq i + 1 .. n + 1 - 1
          BY <2>1
        <5> QED
          BY <5>5, <5>6 DEF DecidedBetween
      <4>3. ASSUME call'[c].role = "documentation" PROVE SoFar(c, "approve")'
        <5>1. call[c].role = "reviewer"
          BY <2>1, <3>5, <4>3, ReviewerStands DEF Continues
        <5>2. row.role = "reviewer" /\ row.decision = "approve"
          BY <2>2, <3>5, <5>1 DEF Continues, Verdict
        <5> QED
          BY <3>3, <5>2
      <4> QED
        BY <3>2, <4>2, <4>3 DEF Cleared
    <3> QED
      BY <1>5, <2>7, <3>4, <3>5 DEF Answers, Asks, Ends
  <2> QED
    BY <1>5, <2>6, <2>7 DEF Answers, Repeats, Continues
<1> QED
  BY <1>2, <1>3, <1>4, <1>5, StepCases

\* With a Reviewer in its pipeline, a call never has two proposals nobody
\* decided between, whatever people PATCH and however many rounds there are.
THEOREM ProposalsAreDecided == Spec => []OneProposalPerReview
<1>1. Init => ProposalInv
  <2> SUFFICES ASSUME Init, NEW c \in Calls PROVE PairsDecided(c) /\ Cleared(c)
    BY DEF ProposalInv
  <2>1. runs[c] = <<>> /\ call[c].pc = "idle"
    BY DEF Init
  <2> QED
    BY <2>1 DEF PairsDecided, Cleared, Live
<1> QED
  BY <1>1, InitInv, InvStep, ProposalStep, ProposalInvMeans, PTL DEF Spec

-----------------------------------------------------------------------------
(* The task's status, as the calls move it.                                  *)

\* What an answer of call c does to the status of its task.
Moves(c) ==
    LET t == call[c].task
        n == Len(runs[c])
    IN /\ Live(c) /\ t \in Tasks
       /\ \A u \in Tasks \ {t} : status'[u] = status[u]
       /\ status'[t] = "pending" => status[t] = "pending"
       /\ call'[c].task = t /\ call'[c].active = call[c].active
       /\ call'[c].pc = "agent" =>
             \/ call'[c].role = "builder"
             \/ call'[c].role \in NextRole(c) /\ status'[t] = SuccessStatus[call[c].role]
       /\ runs'[c][n].decision = "approve" =>
             /\ call[c].role = "reviewer"
             /\ status[t] = "reviewing" => status'[t] = "done"
       /\ \A d \in Calls \ {c} : Stays(d)
       /\ disturbed' = disturbed /\ enabled' = enabled

LEMMA ProceedMoves ==
    ASSUME Inv, NEW c \in Calls, Live(c),
           NEW outcome \in {"completed", "failed"},
           NEW decision \in {"none", "approve", "request_changes", "block"},
           NEW proposes \in BOOLEAN,
           NEW allowed \in BOOLEAN, NEW target \in TaskStatus \ {"pending"},
           NEW then \in CallState, then.task = call[c].task, then.active = call[c].active,
           then.pc = "agent" => /\ then.rejections < MAX_REJECTIONS
                                /\ \/ then.role = "builder"
                                   \/ /\ then.role \in NextRole(c)
                                      /\ target = SuccessStatus[call[c].role],
           decision = "approve" =>
               /\ call[c].role = "reviewer" /\ target = "done"
               /\ status[call[c].task] = "reviewing" => allowed,
           Proceed(c, Answered(c, outcome, decision, proposes), allowed, target, then)
    PROVE  Moves(c)
<1> DEFINE t == call[c].task
           n == Len(runs[c])
           row == Row(c, outcome, decision, proposes)
<1>1. call[c] \in CallState /\ t \in Tasks /\ status \in [Tasks -> TaskStatus]
  BY DEF Inv, TypeOK, Awaited
<1>2. /\ row \in RunRow /\ row.decision = decision
      /\ Answered(c, outcome, decision, proposes) = [runs[c] EXCEPT ![n] = row]
  BY RowOf DEF IsWritten
<1>3. Proceed(c, [runs[c] EXCEPT ![n] = row], allowed, target, then)
  BY <1>2
<1> HIDE DEF row
<1>4. /\ UNCHANGED <<enabled, disturbed>>
      /\ \A d \in Calls \ {c} : Stays(d)
      /\ runs'[c][n] = row
      /\ \/ allowed /\ call'[c] = then /\ status'[t] = target
         \/ ~allowed /\ call'[c] = [call[c] EXCEPT !.pc = "raised"]
  BY <1>2, <1>3, ProceedCall
<1>5. /\ \A u \in Tasks \ {t} : status'[u] = status[u]
      /\ ~allowed => status' = status
  BY <1>1 DEF Proceed
<1>6. CASE allowed
  <2>1. call'[c] = then /\ status'[t] = target
    BY <1>4, <1>6
  <2> QED
    BY <1>1, <1>2, <1>4, <1>5, <1>6, <2>1 DEF Moves
<1>7. CASE ~allowed
  <2>1. /\ call'[c].pc = "raised" /\ call'[c].task = t /\ call'[c].active = call[c].active
        /\ status' = status
    BY <1>1, <1>4, <1>5, <1>7 DEF CallState
  <2> QED
    BY <1>1, <1>2, <1>4, <1>5, <1>7, <2>1 DEF Moves
<1> QED
  BY <1>6, <1>7

LEMMA AnswerMoves ==
    ASSUME Inv, NEW c \in Calls, AgentAnswers(c)
    PROVE  Moves(c)
<1>1. Live(c)
  BY DEF AgentAnswers, AgentFails, ReviewerRejects, ReviewerBlocks, AgentSucceeds
<1>2. /\ call[c] \in CallState /\ call[c].task \in Tasks /\ status[call[c].task] \in TaskStatus
      /\ call[c].rejections < MAX_REJECTIONS /\ call[c].pc = "agent"
      /\ call[c].role \in Roles /\ call[c].rejections \in Nat /\ MAX_REJECTIONS \in Nat
  BY <1>1, OrchestrationAssumption DEF Inv, TypeOK, Awaited, CallState, Live
<1>3. /\ "failed" \in TaskStatus \ {"pending"} /\ "in_progress" \in TaskStatus \ {"pending"}
      /\ \A r \in Roles : SuccessStatus[r] \in TaskStatus \ {"pending"}
      /\ SuccessStatus["reviewer"] = "done"
  BY RoleTypes DEF TaskStatus, SuccessStatus
<1>4. \A s, x : IsValidTransition(s, x) \in BOOLEAN
  BY DEF IsValidTransition
<1>5. \A f \in {"done", "failed"} : \A n \in 0 .. MAX_REJECTIONS :
          LET then == Return(c, f)
              last == [Return(c, f) EXCEPT !.rejections = n]
          IN  /\ then \in CallState /\ then.pc = "returned"
              /\ then.task = call[c].task /\ then.active = call[c].active
              /\ last \in CallState /\ last.pc = "returned"
              /\ last.task = call[c].task /\ last.active = call[c].active
  BY <1>2 DEF Return, CallState
<1>6. 0 \in 0 .. MAX_REJECTIONS
  BY <1>2
<1>7. CASE AgentFails(c)
  <2> DEFINE then == Return(c, "failed")
  <2>1. Proceed(c, Answered(c, "failed", "none", FALSE),
                IsValidTransition(status[call[c].task], "failed"), "failed", then)
    BY <1>7 DEF AgentFails, FailTask
  <2>2. /\ then \in CallState /\ then.pc = "returned"
        /\ then.task = call[c].task /\ then.active = call[c].active
    BY <1>5, <1>6
  <2> HIDE DEF then
  <2> QED
    BY <1>1, <1>3, <1>4, <2>1, <2>2, ProceedMoves
<1>8. CASE ReviewerBlocks(c)
  <2> DEFINE then == Return(c, "failed")
  <2>1. Proceed(c, Answered(c, "completed", "block", FALSE),
                IsValidTransition(status[call[c].task], "failed"), "failed", then)
    BY <1>8 DEF ReviewerBlocks, FailTask
  <2>2. /\ then \in CallState /\ then.pc = "returned"
        /\ then.task = call[c].task /\ then.active = call[c].active
    BY <1>5, <1>6
  <2> HIDE DEF then
  <2> QED
    BY <1>1, <1>3, <1>4, <2>1, <2>2, ProceedMoves
<1>9. CASE ReviewerRejects(c)
  <2> DEFINE n == call[c].rejections + 1
  <2>1. n \in 0 .. MAX_REJECTIONS
    BY <1>2
  <2>2. CASE TooMany(n)
    <3> DEFINE then == [Return(c, "failed") EXCEPT !.rejections = n]
    <3>1. Proceed(c, Answered(c, "completed", "request_changes", FALSE),
                  IsValidTransition(status[call[c].task], "failed"), "failed", then)
      BY <1>9, <2>2 DEF ReviewerRejects, FailTask
    <3>2. /\ then \in CallState /\ then.pc = "returned"
          /\ then.task = call[c].task /\ then.active = call[c].active
      BY <1>5, <2>1
    <3> HIDE DEF then
    <3> QED
      BY <1>1, <1>3, <1>4, <3>1, <3>2, ProceedMoves
  <2>3. CASE ~TooMany(n)
    <3> DEFINE then == [call[c] EXCEPT !.role = "builder", !.rejections = n]
    <3>1. /\ then \in CallState /\ then.role = "builder" /\ then.rejections = n
          /\ then.task = call[c].task /\ then.active = call[c].active
      BY <1>2, <2>1, RoleTypes DEF CallState
    <3>2. n < MAX_REJECTIONS
      BY <1>2, <2>3 DEF TooMany
    <3>3. Proceed(c, Answered(c, "completed", "request_changes", FALSE),
                  IsValidTransition(status[call[c].task], "in_progress"), "in_progress", then)
      BY <1>9, <2>3 DEF ReviewerRejects, LoopBack
    <3> HIDE DEF then
    <3> QED
      BY <1>1, <1>3, <1>4, <3>1, <3>2, <3>3, ProceedMoves
  <2> QED
    BY <2>2, <2>3
<1>10. ASSUME NEW proposes \in BOOLEAN, AgentSucceeds(c, proposes)
       PROVE  Moves(c)
  <2> DEFINE from == status[call[c].task]
             to == SuccessStatus[call[c].role]
             allowed == from = to \/ IsValidTransition(from, to)
  <2>1. PICK then \in IF NextRole(c) = {} THEN {Return(c, "done")}
                      ELSE {[call[c] EXCEPT !.role = r] : r \in NextRole(c)} :
            Proceed(c, Answered(c, "completed", Verdict(c), proposes), allowed, to, then)
    BY <1>10 DEF AgentSucceeds, Verdict
  <2>2. /\ then \in CallState /\ then.task = call[c].task /\ then.active = call[c].active
        /\ then.pc = "agent" => /\ then.rejections < MAX_REJECTIONS
                                /\ then.role \in NextRole(c)
    <3>1. CASE NextRole(c) = {}
      BY <1>5, <1>6, <2>1, <3>1
    <3>2. CASE NextRole(c) # {}
      <4>1. PICK r \in NextRole(c) : then = [call[c] EXCEPT !.role = r]
        BY <2>1, <3>2
      <4> QED
        BY <1>2, <4>1, NextIsRole DEF CallState
    <3> QED
      BY <3>1, <3>2
  <2>3. /\ Verdict(c) \in {"none", "approve", "request_changes", "block"}
        /\ Verdict(c) = "approve" => call[c].role = "reviewer"
    BY DEF Verdict
  <2>4. call[c].role = "reviewer" => to = "done" /\ (from = "reviewing" => allowed)
    BY <1>3 DEF IsValidTransition, TASK_TRANSITIONS
  <2>5. to \in TaskStatus \ {"pending"} /\ allowed \in BOOLEAN
    BY <1>2, <1>3, <1>4
  <2> HIDE DEF allowed, to, from
  <2> QED
    BY <1>1, <2>1, <2>2, <2>3, <2>4, <2>5, ProceedMoves DEF to, from
<1> QED
  BY <1>7, <1>8, <1>9, <1>10 DEF AgentAnswers

-----------------------------------------------------------------------------
(* One orchestrator.  The claim is a check of "pending" and nothing sets a   *)
(* task back to it but a PATCH: where there is none, a task that is being    *)
(* orchestrated cannot be claimed again.                                     *)

NotReopened == ~disturbed \/ "pending" \notin Patches

Claimed == \A c \in Calls : Live(c) => status[call[c].task] # "pending"

ClaimInv == NotReopened => Claimed /\ OneOrchestrator

LEMMA ClaimStep ==
    ASSUME Inv, ClaimInv, [Next]_vars
    PROVE  ClaimInv'
<1> SUFFICES ASSUME NotReopened' PROVE Claimed' /\ OneOrchestrator'
  BY DEF ClaimInv
<1>1. CASE UNCHANGED vars
  <2>1. NotReopened /\ Claimed' = Claimed /\ OneOrchestrator' = OneOrchestrator
    BY <1>1 DEF vars, NotReopened, Claimed, OneOrchestrator, Live
  <2> QED
    BY <2>1 DEF ClaimInv
<1>2. ASSUME NEW c \in Calls, AgentAnswers(c) PROVE Claimed' /\ OneOrchestrator'
  <2>1. Moves(c)
    BY <1>2, AnswerMoves
  <2>2. Claimed /\ OneOrchestrator
    BY <2>1 DEF Moves, NotReopened, ClaimInv
  <2>3. \A u \in Tasks : status'[u] = "pending" => status[u] = "pending"
    BY <2>1 DEF Moves
  <2>4. \A d \in Calls : Live(d)' => Live(d) /\ call'[d].task = call[d].task /\ call[d].task \in Tasks
    <3> SUFFICES ASSUME NEW d \in Calls, Live(d)'
                 PROVE  Live(d) /\ call'[d].task = call[d].task /\ call[d].task \in Tasks
      OBVIOUS
    <3>1. CASE d = c
      BY <2>1, <3>1 DEF Moves
    <3>2. CASE d # c
      BY <2>1, <3>2 DEF Moves, Stays, Live, Inv, Awaited
    <3> QED
      BY <3>1, <3>2
  <2> QED
    BY <2>2, <2>3, <2>4 DEF Claimed, OneOrchestrator
<1>3. ASSUME NEW c \in Calls, NEW t \in Tasks, Orchestrate(c, t)
      PROVE  Claimed' /\ OneOrchestrator'
  <2>1. /\ status[t] = "pending" /\ status' = [status EXCEPT ![t] = "planning"]
        /\ disturbed' = disturbed
        /\ \A d \in Calls \ {c} : call'[d] = call[d]
        /\ call'[c].task = t
    BY <1>3 DEF Orchestrate, Inv, TypeOK
  <2>2. Claimed /\ OneOrchestrator
    BY <2>1 DEF NotReopened, ClaimInv
  <2>3. \A d \in Calls \ {c} : Live(d)' => /\ Live(d) /\ call[d].task \in Tasks
                                           /\ call[d].task # t /\ call'[d].task = call[d].task
    BY <2>1, <2>2 DEF Live, Claimed, Inv, Awaited
  <2>4. status'[t] = "planning" /\ \A u \in Tasks \ {t} : status'[u] = status[u]
    BY <2>1 DEF Inv, TypeOK
  <2> QED
    BY <2>1, <2>2, <2>3, <2>4 DEF Claimed, OneOrchestrator, Live
<1>4. ASSUME NEW t \in Tasks, NEW new \in Patches, PatchStatus(t, new)
      PROVE  Claimed' /\ OneOrchestrator'
  <2>1. /\ status' = [status EXCEPT ![t] = new] /\ disturbed' /\ call' = call
    BY <1>4 DEF PatchStatus
  <2>2. "pending" \notin Patches
    BY <2>1 DEF NotReopened
  <2>3. Claimed /\ OneOrchestrator
    BY <2>2 DEF NotReopened, ClaimInv
  <2>4. \A u \in Tasks : status'[u] = "pending" => status[u] = "pending"
    BY <2>1, <2>2 DEF Inv, TypeOK
  <2>5. \A d \in Calls : Live(d) => call[d].task \in Tasks
    BY DEF Inv, Awaited
  <2> QED
    BY <2>1, <2>3, <2>4, <2>5 DEF Claimed, OneOrchestrator, Live
<1>5. ASSUME NEW S \in ParticipantSets, PutParticipants(S) PROVE Claimed' /\ OneOrchestrator'
  BY <1>5 DEF PutParticipants, NotReopened, ClaimInv, Claimed, OneOrchestrator, Live
<1>6. CASE Crash
  <2>1. \A d \in Calls : ~Live(d)'
    BY <1>6 DEF Crash, Live, Inv, TypeOK, CallState
  <2> QED
    BY <2>1 DEF Claimed, OneOrchestrator
<1> QED
  BY <1>1, <1>2, <1>3, <1>4, <1>5, <1>6 DEF Next

LEMMA ClaimInvariance == Spec => [](Inv /\ ClaimInv)
<1>1. Init => ClaimInv
  BY DEF Init, ClaimInv, Claimed, OneOrchestrator, Live
<1>2. Inv /\ ClaimInv /\ [Next]_vars => (Inv /\ ClaimInv)'
  BY InvStep, ClaimStep
<1> QED
  BY <1>1, <1>2, InitInv, PTL DEF Spec

\* _claim_task's promise, as far as it goes: no two calls orchestrate one task
\* before the first PATCH or restart; and where nobody PATCHes a task back to
\* "pending", no other PATCH, no change of participants and no restart lets a
\* second one in.
THEOREM OrchestratorsExclude == Spec => [](NotReopened => OneOrchestrator)
<1>1. Inv /\ ClaimInv => (NotReopened => OneOrchestrator)
  BY DEF ClaimInv
<1> QED
  BY <1>1, ClaimInvariance, PTL

-----------------------------------------------------------------------------
(* The approval.  It reaches "done" from "reviewing", and only QA and the    *)
(* Security Reviewer set that.                                               *)

Checkers == {"qa", "security_reviewer"}

\* Every configuration of the project has a role that sets "reviewing".
AlwaysChecked == \A S \in ParticipantSets : S \intersect Checkers # {}

\* Nobody has PATCHed a status or stopped the server so far, or nobody ever
\* PATCHes one.
Unpatched == ~disturbed \/ Patches = {}

CheckersKept ==
    /\ enabled \intersect Checkers # {}
    /\ \A c \in Calls : Live(c) => call[c].active \intersect Checkers # {}

UnderReview == \A c \in Calls : Live(c) /\ call[c].role = "reviewer" =>
                                    status[call[c].task] = "reviewing"

ApprovalInv == CheckersKept /\ (Unpatched => UnderReview)

\* Between a checker and the Reviewer there is only the other checker.
LEMMA CheckedBefore ==
    ASSUME Inv, NEW c \in Calls, call[c].active \intersect Checkers # {},
           "reviewer" \in NextRole(c)
    PROVE  SuccessStatus[call[c].role] = "reviewing"
<1>1. call[c].role \in Roles /\ call[c].active \subseteq Roles
  BY DEF Inv, TypeOK, CallState
<1>2. PICK r \in call[c].active : r \in Checkers
  OBVIOUS
<1>3. Position[r] \in {5, 6} /\ Position["reviewer"] = 7
  BY <1>2 DEF Position, Checkers
<1>4. Position[call[c].role] < 7 /\ Position[call[c].role] \in 1 .. 8
  BY <1>1, <1>3, RoleTypes DEF NextRole
<1>5. ~(Position[r] > Position[call[c].role])
  BY <1>2, <1>3 DEF NextRole
<1>6. Position[call[c].role] \in {5, 6}
  BY <1>3, <1>4, <1>5
<1>7. call[c].role \in Checkers
  BY <1>1, <1>6, RoleTypes DEF Position, Checkers
<1> QED
  BY <1>7 DEF Checkers, SuccessStatus

LEMMA CheckersStep ==
    ASSUME AlwaysChecked, Inv, CheckersKept, [Next]_vars
    PROVE  CheckersKept'
<1>1. enabled' \intersect Checkers # {}
  BY StepCases DEF AlwaysChecked, CheckersKept
<1>2. ASSUME NEW c \in Calls, Live(c)' PROVE call'[c].active \intersect Checkers # {}
  <2>1. CASE Stays(c)
    BY <1>2, <2>1 DEF Stays, CheckersKept, Live
  <2>2. CASE IsLost(c)
    BY <1>2, <2>2 DEF IsLost, Live, Inv, TypeOK, CallState
  <2>3. CASE Begins(c)
    BY <2>3 DEF Begins, CheckersKept
  <2>4. ASSUME NEW row \in RunRow, Answers(c, row)
        PROVE  call'[c].active \intersect Checkers # {}
    BY <2>4 DEF Answers, Heard, CheckersKept
  <2> QED
    BY <2>1, <2>2, <2>3, <2>4, StepCases
<1> QED
  BY <1>1, <1>2 DEF CheckersKept

LEMMA UnderReviewStep ==
    ASSUME Inv, ClaimInv, ApprovalInv, [Next]_vars, Unpatched'
    PROVE  UnderReview'
<1> SUFFICES ASSUME NEW c \in Calls, Live(c)', call'[c].role = "reviewer"
             PROVE  status'[call'[c].task] = "reviewing"
  BY DEF UnderReview
<1>1. CASE UNCHANGED vars
  BY <1>1 DEF vars, ApprovalInv, Unpatched, UnderReview, Live
<1>2. ASSUME NEW d \in Calls, AgentAnswers(d)
      PROVE  status'[call'[c].task] = "reviewing"
  <2>1. Moves(d)
    BY <1>2, AnswerMoves
  <2>2. Unpatched /\ NotReopened
    BY <2>1 DEF Moves, Unpatched, NotReopened
  <2>3. CASE c = d
    <3>1. "reviewer" \in NextRole(c) /\ status'[call'[c].task] = SuccessStatus[call[c].role]
      BY <2>1, <2>3 DEF Moves, Live
    <3>2. call[c].active \intersect Checkers # {}
      BY <2>1, <2>3 DEF Moves, ApprovalInv, CheckersKept
    <3> QED
      BY <3>1, <3>2, CheckedBefore
  <2>4. CASE c # d
    <3>1. call'[c] = call[c] /\ Live(c)
      BY <2>1, <2>4 DEF Moves, Stays, Live
    <3>2. call[c].task # call[d].task /\ call[c].task \in Tasks
      BY <2>1, <2>2, <2>4, <3>1 DEF Moves, ClaimInv, OneOrchestrator, Inv, Awaited
    <3>3. status'[call[c].task] = status[call[c].task]
      BY <2>1, <3>2 DEF Moves
    <3> QED
      BY <2>2, <3>1, <3>3 DEF ApprovalInv, UnderReview
  <2> QED
    BY <2>3, <2>4
<1>3. ASSUME NEW d \in Calls, NEW t \in Tasks, Orchestrate(d, t)
      PROVE  status'[call'[c].task] = "reviewing"
  <2>1. /\ status[t] = "pending" /\ status' = [status EXCEPT ![t] = "planning"]
        /\ disturbed' = disturbed
        /\ \A e \in Calls \ {d} : call'[e] = call[e]
        /\ call'[d].role = "planner"
    BY <1>3 DEF Orchestrate, Inv, TypeOK
  <2>2. c # d
    BY <2>1
  <2>3. Unpatched /\ Live(c) /\ call'[c] = call[c]
    BY <2>1, <2>2 DEF Unpatched, Live
  <2>4. status[call[c].task] = "reviewing"
    BY <2>3 DEF ApprovalInv, UnderReview
  <2>5. call[c].task # t /\ call[c].task \in Tasks
    BY <2>1, <2>3, <2>4 DEF Inv, Awaited
  <2> QED
    BY <2>1, <2>3, <2>4, <2>5 DEF Inv, TypeOK
<1>4. ASSUME NEW t \in Tasks, NEW new \in Patches, PatchStatus(t, new)
      PROVE  status'[call'[c].task] = "reviewing"
  BY <1>4 DEF PatchStatus, Unpatched
<1>5. ASSUME NEW S \in ParticipantSets, PutParticipants(S)
      PROVE  status'[call'[c].task] = "reviewing"
  BY <1>5 DEF PutParticipants, ApprovalInv, Unpatched, UnderReview, Live
<1>6. CASE Crash
  BY <1>6 DEF Crash, Live, Inv, TypeOK, CallState
<1> QED
  BY <1>1, <1>2, <1>3, <1>4, <1>5, <1>6 DEF Next

\* An approval is recorded and its task is done.
Advances(c) ==
    /\ runs[c] # <<>> /\ runs[c] # runs'[c]
    /\ runs'[c][Len(runs[c])].decision = "approve"
    => status'[call[c].task] = "done"

LEMMA AdvanceStep ==
    ASSUME Inv, ApprovalInv, Unpatched, [Next]_vars, NEW c \in Calls
    PROVE  Advances(c)
<1> SUFFICES ASSUME runs[c] # <<>>, runs[c] # runs'[c],
                    runs'[c][Len(runs[c])].decision = "approve"
             PROVE  status'[call[c].task] = "done"
  BY DEF Advances
<1>1. ASSUME NEW d \in Calls, AgentAnswers(d) PROVE c = d /\ Moves(c)
  BY <1>1, AnswerMoves DEF Moves, Stays
<1>2. ASSUME NEW d \in Calls, AgentAnswers(d) PROVE status'[call[c].task] = "done"
  BY <1>1, <1>2 DEF Moves, ApprovalInv, UnderReview
<1>3. ASSUME NEW d \in Calls, NEW t \in Tasks, Orchestrate(d, t)
      PROVE  FALSE
  BY <1>3 DEF Orchestrate, Inv, Unmade, TypeOK
<1> QED
  BY <1>2, <1>3 DEF Next, PatchStatus, PutParticipants, Crash, vars

LEMMA ApprovalInvariance == AlwaysChecked => (Spec => [](Inv /\ ApprovalInv))
<1> SUFFICES ASSUME AlwaysChecked PROVE Spec => [](Inv /\ ApprovalInv)
  OBVIOUS
<1>1. Init => ApprovalInv
  BY DEF Init, ApprovalInv, CheckersKept, UnderReview, AlwaysChecked, Live
<1>2. Inv /\ ClaimInv /\ ApprovalInv /\ [Next]_vars => ApprovalInv'
  BY CheckersStep, UnderReviewStep DEF ApprovalInv
<1> QED
  BY <1>1, <1>2, ClaimInvariance, PTL DEF Spec

\* run(): an approval advances the task to "done" if every configuration has a
\* role that sets "reviewing" before the Reviewer is asked, with any number of
\* calls: up to the first PATCH or restart, and beyond restarts where nobody
\* PATCHes a status.
THEOREM ApprovedWorkIsDone ==
    AlwaysChecked => (Spec => [][Unpatched => \A c \in Calls : Advances(c)]_vars)
<1> SUFFICES ASSUME AlwaysChecked
             PROVE  Spec => [][Unpatched => \A c \in Calls : Advances(c)]_vars
  OBVIOUS
<1>1. Inv /\ ApprovalInv /\ [Next]_vars =>
          [Unpatched => \A c \in Calls : Advances(c)]_vars
  BY AdvanceStep
<1> QED
  BY <1>1, ApprovalInvariance, PTL DEF Spec

\* The same for a project whose statuses nobody PATCHes (ApprovalAdvances).
THEOREM ApprovalsAdvance == AlwaysChecked /\ Patches = {} => (Spec => ApprovalAdvances)
<1> SUFFICES ASSUME AlwaysChecked, Patches = {} PROVE Spec => ApprovalAdvances
  OBVIOUS
<1>1. Inv /\ ApprovalInv /\ [Next]_vars =>
          [\A c \in Calls :
              /\ runs[c] # <<>> /\ runs[c] # runs'[c]
              /\ runs'[c][Len(runs[c])].decision = "approve"
              => status'[call[c].task] = "done"]_vars
  BY AdvanceStep DEF Unpatched, Advances
<1> QED
  BY <1>1, ApprovalInvariance, PTL DEF Spec, ApprovalAdvances

-----------------------------------------------------------------------------
(* How many agents one call asks.  A round asks every role of the pipeline   *)
(* at most once, and a later round begins again at the Builder.              *)

\* A POST /orchestrate asks at most five agents for every rejection and those
\* of the whole pipeline once, however the task is PATCHed meanwhile; it ends
\* because an agent can only be followed by a later one or by another round.
RunBudget == \A c \in Calls : Len(runs[c]) <= 5 * MAX_REJECTIONS + 3

SpentSoFar == \A c \in Calls : Live(c) =>
    Len(runs[c]) <= 5 * call[c].rejections + Position[call[c].role]

BudgetInv == SpentSoFar /\ RunBudget

\* Five more rows for every round.
LEMMA RoundRows ==
    ASSUME NEW k \in Nat, NEW n \in Nat, k < n, NEW p \in 1 .. 8
    PROVE  5 * k + p <= 5 * n + 3
  OBVIOUS

LEMMA BudgetStep ==
    ASSUME Inv, BudgetInv, [Next]_vars
    PROVE  BudgetInv'
<1> SUFFICES ASSUME NEW c \in Calls
             PROVE  /\ call'[c].pc = "agent" =>
                         Len(runs'[c]) <= 5 * call'[c].rejections + Position[call'[c].role]
                    /\ Len(runs'[c]) <= 5 * MAX_REJECTIONS + 3
  BY DEF BudgetInv, SpentSoFar, RunBudget, Live
<1> DEFINE n == Len(runs[c])
           k == call[c].rejections
           p == Position[call[c].role]
<1>1. /\ n \in Nat /\ k \in Nat /\ p \in 1 .. 8 /\ MAX_REJECTIONS \in Nat
      /\ MAX_REJECTIONS > 0 /\ call[c] \in CallState
  BY RoleTypes, OrchestrationAssumption DEF Inv, TypeOK, CallState
<1>2. /\ Live(c) => n <= 5 * k + p /\ k < MAX_REJECTIONS
      /\ n <= 5 * MAX_REJECTIONS + 3
  BY DEF BudgetInv, SpentSoFar, RunBudget, Inv, Awaited
<1>3. CASE Stays(c)
  BY <1>2, <1>3 DEF Stays, Live
<1>4. CASE IsLost(c)
  <2>1. call'[c].pc = "lost" /\ runs'[c] = runs[c]
    BY <1>1, <1>4 DEF IsLost, CallState
  <2> QED
    BY <1>2, <2>1
<1>5. CASE Begins(c)
  <2>1. Len(runs'[c]) = 1 /\ call'[c].rejections = 0 /\ call'[c].role = "planner"
    BY <1>5 DEF Begins
  <2>2. Position["planner"] = 1
    BY DEF Position
  <2> QED
    BY <1>1, <2>1, <2>2
<1>6. ASSUME NEW row \in RunRow, Answers(c, row)
      PROVE  /\ call'[c].pc = "agent" =>
                    Len(runs'[c]) <= 5 * call'[c].rejections + Position[call'[c].role]
             /\ Len(runs'[c]) <= 5 * MAX_REJECTIONS + 3
  <2>1. Live(c) /\ n <= 5 * k + p /\ k < MAX_REJECTIONS
    BY <1>2, <1>6 DEF Answers
  <2>2. CASE Ends(c, row)
    BY <1>2, <2>2 DEF Ends
  <2>3. CASE Repeats(c, row)
    <3>1. /\ Len(runs'[c]) = n + 1 /\ call'[c].role = "builder" /\ call[c].role = "reviewer"
          /\ call'[c].rejections = k + 1 /\ k + 1 < MAX_REJECTIONS
      BY <2>3 DEF Repeats, Asks
    <3>2. p = 7 /\ Position["builder"] = 3
      BY <3>1 DEF Position
    <3> HIDE DEF n, k, p
    <3>3. n + 1 <= 5 * (k + 1) + 3
      BY <1>1, <2>1, <3>2
    <3>4. 5 * (k + 1) + 3 <= 5 * MAX_REJECTIONS + 3
      BY <1>1, <3>1
    <3>5. n + 1 <= 5 * MAX_REJECTIONS + 3
      BY <1>1, <3>3, <3>4
    <3> QED
      BY <3>1, <3>2, <3>3, <3>5
  <2>4. CASE Continues(c, row)
    <3> DEFINE q == Position[call'[c].role]
    <3>1. /\ Len(runs'[c]) = n + 1 /\ call'[c].rejections = k
          /\ call'[c].role \in NextRole(c)
      BY <2>4 DEF Continues, Asks
    <3>2. q \in 1 .. 8 /\ q > p
      BY <3>1, NextIsRole, RoleTypes
    <3> HIDE DEF n, k, p, q
    <3>3. n + 1 <= 5 * k + q
      BY <1>1, <2>1, <3>2
    <3>4. 5 * k + q <= 5 * MAX_REJECTIONS + 3
      BY <1>1, <2>1, <3>2, RoundRows
    <3>5. n + 1 <= 5 * MAX_REJECTIONS + 3
      BY <1>1, <3>2, <3>3, <3>4
    <3> QED
      BY <3>1, <3>3, <3>5 DEF q
  <2> QED
    BY <1>6, <2>2, <2>3, <2>4 DEF Answers
<1> QED
  BY <1>3, <1>4, <1>5, <1>6, StepCases

\* One POST /orchestrate asks a bounded number of agents, whatever they answer
\* and whatever is PATCHed, configured or restarted meanwhile (run(), its index
\* and MAX_REJECTIONS).
THEOREM AgentRunsAreBounded == Spec => []RunBudget
<1>1. Init => BudgetInv
  <2> SUFFICES ASSUME Init, NEW c \in Calls
               PROVE  ~Live(c) /\ Len(runs[c]) <= 5 * MAX_REJECTIONS + 3
    BY DEF BudgetInv, SpentSoFar, RunBudget
  <2>1. runs[c] = <<>> /\ call[c].pc = "idle"
    BY DEF Init
  <2> QED
    BY <2>1, OrchestrationAssumption DEF Live
<1>2. BudgetInv => RunBudget
  BY DEF BudgetInv
<1> QED
  BY <1>1, <1>2, InitInv, InvStep, BudgetStep, PTL DEF Spec

=============================================================================
