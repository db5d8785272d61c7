----------------------- MODULE ScopedExecution_proofs -----------------------
(* What holds of runs and rollbacks for every number of requests, paths,     *)
(* workspaces, contents and plans, and however often the process dies and    *)
(* others change the workspace.                                              *)

EXTENDS ScopedExecution, FiniteSetTheorems, SequenceTheorems, TLAPS

-----------------------------------------------------------------------------
(* The job on the event loop.                                                *)

LEMMA JobKinds ==
    ASSUME TypeOK
    PROVE  /\ job.kind = "run" => job \in RunJob
           /\ job.kind = "undo" => job \in UndoJob
           /\ job = Idle => job.kind = "idle"
           /\ job # Idle => job.kind \in {"run", "undo"}
  BY DEF TypeOK, RunJob, UndoJob, Idle

LEMMA PlanOf ==
    ASSUME TypeOK, NEW r \in Requests
    PROVE  /\ plan[r] \in Seq(Steps)
           /\ Len(plan[r]) \in Nat
           /\ \A i \in 1 .. Len(plan[r]) : plan[r][i] \in Steps
<1>1. plan[r] \in Seq(Steps)
  BY PlanAssumption DEF TypeOK
<1> QED
  BY <1>1

LEMMA StepOf ==
    ASSUME TypeOK, job.kind = "run", job.next <= Len(plan[job.req])
    PROVE  Step \in Steps /\ job.next \in 1 .. Len(plan[job.req])
<1>1. job.req \in Requests /\ job.next \in Nat \ {0}
  BY JobKinds DEF RunJob
<1>2. job.next \in 1 .. Len(plan[job.req])
  BY <1>1, PlanOf
<1> QED
  BY <1>1, <1>2, PlanOf DEF Step

\* A step that is a file.
LEMMA FileStep ==
    ASSUME TypeOK, Running({"create", "modify"})
    PROVE  /\ Step.path \in Paths
           /\ Step.op \in {"create", "modify"}
           /\ Step.content \in Contents \union {NoContent}
<1>1. Step \in Steps /\ Step.op \in {"create", "modify"}
  BY StepOf DEF Running, Step
<1> QED
  BY <1>1 DEF Steps, FileOps

\* A log that grows by one entry and then by the entries `more`.
IsGrown(all, log, e, more) ==
    /\ all \in Seq(Entries)
    /\ Len(all) = Len(log) + 1 + Len(more)
    /\ \A i \in 1 .. Len(log) : all[i] = log[i]
    /\ all[Len(log) + 1] = e
    /\ \A i \in Len(log) + 2 .. Len(all) : all[i] = more[i - Len(log) - 1]

LEMMA GrownLog ==
    ASSUME NEW log \in Seq(Entries), NEW e \in Entries, NEW more \in Seq(Entries)
    PROVE  IsGrown(Append(log, e) \o more, log, e, more)
<1> DEFINE first == Append(log, e)
           n == Len(log)
           m == Len(more)
<1>1. n \in Nat /\ m \in Nat
  OBVIOUS
<1>2. /\ first \in Seq(Entries) /\ Len(first) = n + 1 /\ first[n + 1] = e
      /\ \A i \in 1 .. n : first[i] = log[i]
  OBVIOUS
<1> HIDE DEF first
<1>3. /\ first \o more \in Seq(Entries)
      /\ Len(first \o more) = Len(first) + Len(more)
      /\ \A i \in 1 .. Len(first) + Len(more) : (first \o more)[i] =
            IF i <= Len(first) THEN first[i] ELSE more[i - Len(first)]
  BY <1>2, ConcatProperties
<1> DEFINE all == first \o more
<1> HIDE DEF all, n, m
<1>4. /\ all \in Seq(Entries) /\ Len(all) = n + 1 + m
      /\ \A i \in 1 .. n + 1 + m : all[i] = IF i <= n + 1 THEN first[i] ELSE more[i - (n + 1)]
  BY <1>2, <1>3 DEF all, m
<1>5. /\ \A i \in 1 .. n : all[i] = log[i]
      /\ all[n + 1] = e
      /\ \A i \in n + 2 .. n + 1 + m : all[i] = more[i - (n + 1)]
  BY <1>1, <1>2, <1>4
<1>6. \A i \in n + 2 .. n + 1 + m : i - (n + 1) = i - n - 1
  BY <1>1
<1> QED
  BY <1>4, <1>5, <1>6 DEF IsGrown, all, first, n, m

LEMMA EntryType ==
    ASSUME NEW s \in Steps, NEW status \in {"success", "failed", "skipped"},
           NEW why \in {"none", "parent", "other"}
    PROVE  /\ Entry(s, status, why) \in Entries
           /\ Entry(s, status, why).step = s
           /\ Entry(s, status, why).status = status
           /\ Entry(s, status, why).why = why
  BY DEF Entry, Entries

\* The job after a step that went well, or was skipped.
IsAdvanced(j, status) ==
    /\ j \in RunJob
    /\ j.req = job.req /\ j.ws = job.ws /\ j.strict = job.strict
    /\ j.next = job.next + 1
    /\ j.held = FALSE
    /\ j.log = Append(job.log, Entry(Step, status, "none"))
    /\ j.saved = job.saved

LEMMA AdvancedJob ==
    ASSUME TypeOK, job.kind = "run", job.next <= Len(plan[job.req]),
           NEW status \in {"success", "failed", "skipped"}
    PROVE  IsAdvanced(Advanced(status), status)
<1>1. job \in RunJob /\ Step \in Steps
  BY JobKinds, StepOf
<1>2. Entry(Step, status, "none") \in Entries
  BY <1>1, EntryType
<1>3. Append(job.log, Entry(Step, status, "none")) \in Seq(Entries)
  BY <1>1, <1>2 DEF RunJob
<1> DEFINE e == Entry(Step, status, "none")
<1>4. Advanced(status) = [job EXCEPT !.next = job.next + 1, !.held = FALSE,
                                     !.log = Append(job.log, e)]
  BY DEF Advanced
<1> DEFINE longer == Append(job.log, e)
<1>5. longer \in Seq(Entries)
  BY <1>3
<1>6. Advanced(status) = [job EXCEPT !.next = job.next + 1, !.held = FALSE, !.log = longer]
  BY <1>4
<1> HIDE DEF longer
<1>7. job.next + 1 \in Nat \ {0}
  BY <1>1 DEF RunJob
<1>8. /\ Advanced(status) \in RunJob
      /\ Advanced(status).req = job.req /\ Advanced(status).ws = job.ws
      /\ Advanced(status).strict = job.strict /\ Advanced(status).next = job.next + 1
      /\ Advanced(status).held = FALSE /\ Advanced(status).log = longer
      /\ Advanced(status).saved = job.saved
  BY <1>1, <1>5, <1>6, <1>7 DEF RunJob
<1> QED
  BY <1>8 DEF IsAdvanced, longer

\* The job after a file that failed: the rest of the plan is skipped.
IsStopped(j, why) ==
    LET n == Len(job.log) IN
    /\ j \in RunJob
    /\ j.req = job.req /\ j.ws = job.ws /\ j.strict = job.strict
    /\ j.next = Len(plan[job.req]) + 1
    /\ j.held = FALSE
    /\ j.saved = job.saved
    /\ Len(j.log) = n + 1 + (Len(plan[job.req]) - job.next)
    /\ \A i \in 1 .. n : j.log[i] = job.log[i]
    /\ j.log[n + 1] = Entry(Step, "failed", why)
    /\ \A i \in n + 2 .. Len(j.log) :
          j.log[i] = Entry(plan[job.req][job.next + (i - n - 1)], "skipped", "none")

LEMMA StoppedJob ==
    ASSUME TypeOK, job.kind = "run", job.next <= Len(plan[job.req]),
           NEW why \in {"none", "parent", "other"}
    PROVE  IsStopped(Stopped(why), why)
<1> DEFINE steps == plan[job.req]
           rest == SubSeq(steps, job.next + 1, Len(steps))
           skipped == [i \in DOMAIN rest |-> Entry(rest[i], "skipped", "none")]
           e == Entry(Step, "failed", why)
           log == Append(job.log, e) \o skipped
           n == Len(job.log)
<1>1. job \in RunJob /\ job.req \in Requests /\ Step \in Steps
      /\ job.next \in 1 .. Len(steps)
  BY JobKinds, StepOf DEF RunJob
<1>2. steps \in Seq(Steps) /\ Len(steps) \in Nat
      /\ \A i \in job.next + 1 .. Len(steps) : steps[i] \in Steps
  BY <1>1, PlanOf
<1>3. /\ rest \in Seq(Steps)
      /\ Len(rest) = Len(steps) - job.next
      /\ \A i \in 1 .. Len(rest) : rest[i] = steps[job.next + i]
  <2> HIDE DEF steps
  <2> DEFINE m == job.next + 1
             N == Len(steps)
             t == SubSeq(steps, m, N)
  <2>1. m \in Int /\ N \in Int /\ \A i \in m .. N : steps[i] \in Steps
    BY <1>1, <1>2
  <2> HIDE DEF m, N
  <2>2. /\ t \in Seq(Steps) /\ Len(t) = IF m <= N THEN N - m + 1 ELSE 0
        /\ \A i \in 1 .. N - m + 1 : t[i] = steps[m + i - 1]
    BY <2>1, SubSeqProperties
  <2> HIDE DEF t
  <2>3. job.next \in Int /\ m = job.next + 1 /\ m <= N + 1
    BY <1>1, <1>2 DEF m, N
  <2>4. N - m + 1 = N - job.next
    BY <2>1, <2>3
  <2>5. Len(t) = N - job.next
    <3>1. m <= N => Len(t) = N - m + 1
      BY <2>2
    <3>2. ~(m <= N) => Len(t) = 0 /\ N - job.next = 0
      BY <2>1, <2>2, <2>3
    <3> QED
      BY <2>4, <3>1, <3>2
  <2>6. \A i \in Int : m + i - 1 = job.next + i
    BY <2>3
  <2>7. \A i \in 1 .. Len(t) : t[i] = steps[job.next + i]
    <3> SUFFICES ASSUME NEW i \in 1 .. Len(t) PROVE t[i] = steps[job.next + i]
      OBVIOUS
    <3>1. Len(t) = N - m + 1
      BY <2>4, <2>5
    <3>2. i \in 1 .. N - m + 1
      BY <3>1
    <3>3. t[i] = steps[m + i - 1]
      BY <2>2, <3>2
    <3>4. m + i - 1 = job.next + i
      BY <2>6
    <3> QED
      BY <3>3, <3>4
  <2> QED
    BY <2>2, <2>5, <2>7 DEF t, m, N
<1>4. e \in Entries
  BY <1>1, EntryType
<1> HIDE DEF rest
<1>5. Len(rest) \in Nat /\ DOMAIN rest = 1 .. Len(rest)
      /\ \A i \in 1 .. Len(rest) : rest[i] \in Steps
  BY <1>3
<1>6. \A i \in 1 .. Len(rest) : Entry(rest[i], "skipped", "none") \in Entries
  BY <1>5, EntryType
<1>7. /\ skipped \in Seq(Entries) /\ Len(skipped) = Len(rest)
      /\ \A i \in 1 .. Len(skipped) : skipped[i] = Entry(steps[job.next + i], "skipped", "none")
  BY <1>3, <1>5, <1>6
<1>8. job.log \in Seq(Entries) /\ n \in Nat
  BY <1>1 DEF RunJob
<1> HIDE DEF skipped, e
<1>9. /\ log \in Seq(Entries)
      /\ Len(log) = n + 1 + Len(skipped)
      /\ \A i \in 1 .. n : log[i] = job.log[i]
      /\ log[n + 1] = e
      /\ \A i \in n + 2 .. Len(log) : log[i] = skipped[i - n - 1]
  <2>1. IsGrown(log, job.log, e, skipped)
    BY <1>4, <1>7, <1>8, GrownLog
  <2> QED
    BY <2>1 DEF IsGrown
<1> HIDE DEF log, n
<1>10. /\ Len(log) = n + 1 + (Len(steps) - job.next)
       /\ \A i \in n + 2 .. Len(log) :
             log[i] = Entry(steps[job.next + (i - n - 1)], "skipped", "none")
  <2>1. Len(skipped) \in Nat
    BY <1>5, <1>7
  <2>2. \A i \in n + 2 .. Len(log) : i - n - 1 \in 1 .. Len(skipped)
    BY <1>8, <1>9, <2>1
  <2>3. \A i \in n + 2 .. Len(log) : log[i] = skipped[i - n - 1]
    BY <1>9
  <2> HIDE DEF steps
  <2>4. \A i \in n + 2 .. Len(log) :
           log[i] = Entry(steps[job.next + (i - n - 1)], "skipped", "none")
    BY <1>7, <2>2, <2>3
  <2> QED
    BY <1>3, <1>7, <1>9, <2>4
<1>11. Stopped(why) = [job EXCEPT !.next = Len(steps) + 1, !.held = FALSE, !.log = log]
  BY DEF Stopped, log, e, skipped, rest
<1>12. Len(steps) + 1 \in Nat \ {0}
  BY <1>2
<1> HIDE DEF steps
<1>13. /\ Stopped(why) \in RunJob
       /\ Stopped(why).req = job.req /\ Stopped(why).ws = job.ws
       /\ Stopped(why).strict = job.strict /\ Stopped(why).next = Len(steps) + 1
       /\ Stopped(why).held = FALSE /\ Stopped(why).log = log
       /\ Stopped(why).saved = job.saved
  BY <1>1, <1>9, <1>11, <1>12 DEF RunJob
<1> QED
  BY <1>9, <1>10, <1>13 DEF IsStopped, e, n, steps

-----------------------------------------------------------------------------
(* What every log says, the one being written and the one in the database.   *)

\* The paths a log reports as written.
WroteIn(log) ==
    {log[i].step.path : i \in {k \in DOMAIN log : /\ log[k].status = "success"
                                                  /\ log[k].step.op \in {"create", "modify"}}}

Follows(r, log) ==
    /\ Len(log) <= Len(plan[r])
    /\ \A i \in 1 .. Len(log) : log[i].step = plan[r][i]

StopsAtFailure(log) ==
    \A i \in Failures(log) : \A j \in i + 1 .. Len(log) : log[j].status = "skipped"

Truthful(r, log) ==
    \A f \in Untouched(r) \ WroteIn(log) : disk[ranIn[r]][f] = before[r][f]

Foretold(r, log) ==
    (\E i \in DOMAIN log : log[i].why = "parent") =>
        ~preview[r].strict \/ preview[r].stale \/ preview[r].ws # ranIn[r]

LogOf(r, log) ==
    Follows(r, log) /\ StopsAtFailure(log) /\ Truthful(r, log) /\ Foretold(r, log)

\* The run under way continues a dry run that completed, has no result yet, and
\* has met no failure as long as steps are left.
JobInv ==
    /\ job.kind = "run" =>
         /\ result[job.req]["dry_run"] = "completed" /\ ~Recorded(job.req)
         /\ ranIn[job.req] = job.ws
         /\ job.next <= Len(plan[job.req]) =>
              Len(job.log) = job.next - 1 /\ Failures(job.log) = {}
         /\ job.held => Running({"create", "modify"}) /\ Step.content \in Contents
         /\ LogOf(job.req, job.log)
    /\ job.kind = "undo" => Recorded(job.req) /\ result[job.req]["rollback"] = "none"

RowInv ==
    \A r \in Requests :
        /\ Recorded(r) => /\ result[r]["dry_run"] = "completed"
                          /\ ranIn[r] \in Workspaces
                          /\ LogOf(r, fileLog[r])
        /\ ~Recorded(r) => /\ fileLog[r] = <<>> /\ backups[r] = {}
                           /\ result[r]["rollback"] = "none"

PreviewInv ==
    \A r \in Requests : result[r]["dry_run"] = "completed" =>
        /\ preview[r].ws \in Workspaces
        /\ preview[r].strict /\ ~preview[r].stale =>
             \A i \in 1 .. Len(plan[r]) : plan[r][i].op \in {"create", "modify"} =>
                 HasParent(preview[r].ws, plan[r][i].path)

Inv == TypeOK /\ JobInv /\ RowInv /\ PreviewInv

-----------------------------------------------------------------------------
(* How a step of a run changes its log.                                      *)

\* The log only grows, with nothing after a failure, along the plan.
LogStep ==
    LET n == Len(job.log) IN
    /\ job' \in RunJob
    /\ job'.req = job.req /\ job'.ws = job.ws
    /\ n <= Len(job'.log)
    /\ \A i \in 1 .. n : job'.log[i] = job.log[i]
    /\ Follows(job.req, job'.log)
    /\ StopsAtFailure(job'.log)
    /\ job'.next <= Len(plan[job.req]) =>
         Len(job'.log) = job'.next - 1 /\ Failures(job'.log) = {}
    /\ \A i \in n + 1 .. Len(job'.log) : job'.log[i].why = "parent" =>
          Running({"create", "modify"}) /\ ParentMissing

\* What is known when a step is about to be taken.
LEMMA BeforeStep ==
    ASSUME TypeOK, JobInv, job.kind = "run", job.next <= Len(plan[job.req])
    PROVE  /\ job.log \in Seq(Entries)
           /\ job.next \in 1 .. Len(plan[job.req])
           /\ Len(plan[job.req]) \in Nat
           /\ Len(job.log) = job.next - 1
           /\ \A i \in 1 .. Len(job.log) : /\ job.log[i] \in Entries
                                           /\ job.log[i].status # "failed"
                                           /\ job.log[i].step = plan[job.req][i]
           /\ Step = plan[job.req][job.next]
<1>1. job \in RunJob /\ job.req \in Requests /\ job.log \in Seq(Entries)
  BY JobKinds DEF RunJob
<1>2. job.next \in 1 .. Len(plan[job.req]) /\ Len(plan[job.req]) \in Nat
  BY <1>1, StepOf, PlanOf
<1>3. Len(job.log) = job.next - 1 /\ Failures(job.log) = {} /\ Follows(job.req, job.log)
  BY DEF JobInv, LogOf
<1>4. \A i \in 1 .. Len(job.log) : job.log[i] \in Entries /\ i \in DOMAIN job.log
  BY <1>1
<1> QED
  BY <1>1, <1>2, <1>3, <1>4 DEF Failures, Follows, Step

LEMMA AdvancedLog ==
    ASSUME TypeOK, JobInv, job.kind = "run", job.next <= Len(plan[job.req]),
           NEW status \in {"success", "skipped"}, job' = Advanced(status)
    PROVE  LogStep /\ IsAdvanced(job', status)
<1> DEFINE e == Entry(Step, status, "none")
           n == Len(job.log)
           log == job'.log
<1>1. IsAdvanced(job', status)
  BY AdvancedJob
<1>2. Step \in Steps /\ e.step = Step /\ e.status = status /\ e.why = "none" /\ e \in Entries
  BY StepOf, EntryType
<1> HIDE DEF e
<1>3. log = Append(job.log, e) /\ job' \in RunJob /\ job'.next = job.next + 1
      /\ job'.req = job.req /\ job'.ws = job.ws
  BY <1>1 DEF IsAdvanced, e
<1>4. /\ job.log \in Seq(Entries) /\ n = job.next - 1 /\ Step = plan[job.req][job.next]
      /\ job.next \in 1 .. Len(plan[job.req]) /\ Len(plan[job.req]) \in Nat
      /\ \A i \in 1 .. n : job.log[i].status # "failed" /\ job.log[i].step = plan[job.req][i]
  BY BeforeStep
<1>5. /\ log \in Seq(Entries) /\ Len(log) = n + 1 /\ log[n + 1] = e /\ DOMAIN log = 1 .. n + 1
      /\ \A i \in 1 .. n : log[i] = job.log[i]
  BY <1>2, <1>3, <1>4
<1> HIDE DEF log, n
<1>6. \A i \in 1 .. n + 1 : log[i].status # "failed" /\ log[i].step = plan[job.req][i]
  <2>1. n \in Nat /\ n + 1 = job.next
    BY <1>4
  <2>2. \A i \in 1 .. n + 1 : i \in 1 .. n \/ i = n + 1
    BY <2>1
  <2>3. log[n + 1].status # "failed" /\ log[n + 1].step = plan[job.req][n + 1]
    BY <1>2, <1>4, <1>5, <2>1
  <2> QED
    BY <1>4, <1>5, <2>2, <2>3
<1>7. Failures(log) = {}
  BY <1>5, <1>6 DEF Failures
<1>8. Follows(job.req, log)
  BY <1>4, <1>5, <1>6 DEF Follows
<1>9. StopsAtFailure(log)
  BY <1>7 DEF StopsAtFailure
<1>10. \A i \in n + 1 .. Len(log) : log[i].why # "parent"
  BY <1>2, <1>4, <1>5
<1> QED
  BY <1>1, <1>3, <1>4, <1>5, <1>7, <1>8, <1>9, <1>10 DEF LogStep, log, n

LEMMA StoppedLog ==
    ASSUME TypeOK, JobInv, job.kind = "run", job.next <= Len(plan[job.req]),
           NEW why \in {"parent", "other"}, job' = Stopped(why),
           why = "parent" => Running({"create", "modify"}) /\ ParentMissing
    PROVE  LogStep /\ IsStopped(job', why)
<1> DEFINE e == Entry(Step, "failed", why)
           n == Len(job.log)
           log == job'.log
           N == Len(plan[job.req])
           later(i) == Entry(plan[job.req][i], "skipped", "none")
<1>1. IsStopped(job', why)
  BY StoppedJob
<1>2. Step \in Steps /\ e.step = Step /\ e.status = "failed" /\ e.why = why
  BY StepOf, EntryType
<1> HIDE DEF e
<1>3. /\ job.log \in Seq(Entries) /\ n = job.next - 1 /\ Step = plan[job.req][job.next]
      /\ job.next \in 1 .. N /\ N \in Nat /\ job.req \in Requests
      /\ \A i \in 1 .. n : job.log[i].status # "failed" /\ job.log[i].step = plan[job.req][i]
  BY BeforeStep, JobKinds DEF RunJob
<1>4. \A i \in 1 .. N : later(i).step = plan[job.req][i] /\ later(i).status = "skipped"
                        /\ later(i).why = "none"
  BY <1>3, PlanOf, EntryType
<1> HIDE DEF later
<1>5. /\ job' \in RunJob /\ job'.req = job.req /\ job'.ws = job.ws /\ job'.next = N + 1
      /\ Len(log) = n + 1 + (N - job.next)
      /\ \A i \in 1 .. n : log[i] = job.log[i]
      /\ log[n + 1] = e
      /\ \A i \in n + 2 .. Len(log) : log[i] = later(job.next + (i - n - 1))
  BY <1>1 DEF IsStopped, e, later
<1>6. log \in Seq(Entries)
  BY <1>5 DEF RunJob
<1>7. Len(log) = N /\ DOMAIN log = 1 .. N
  BY <1>3, <1>5, <1>6
<1> DEFINE k == job.next
<1> HIDE DEF log, n, N, k
<1>8. \A i \in n + 2 .. N : i \in 1 .. N /\ k + (i - n - 1) = i
  <2>1. n = k - 1 /\ k \in 1 .. N /\ N \in Nat
    BY <1>3 DEF k
  <2> QED
    BY <2>1
<1>9. \A i \in n + 2 .. N : log[i] = later(i) /\ i \in 1 .. N
  BY <1>5, <1>7, <1>8 DEF k
<1>10. n \in Nat /\ n + 1 = k /\ \A i \in 1 .. N : i \in 1 .. n \/ i = n + 1 \/ i \in n + 2 .. N
  <2>1. n = k - 1 /\ k \in 1 .. N /\ N \in Nat
    BY <1>3 DEF k
  <2> QED
    BY <2>1
<1>11. \A i \in 1 .. N : log[i].step = plan[job.req][i]
  <2>1. log[n + 1].step = plan[job.req][n + 1]
    BY <1>2, <1>3, <1>5, <1>10 DEF k
  <2>2. \A i \in 1 .. n : log[i].step = plan[job.req][i]
    BY <1>3, <1>5
  <2>3. \A i \in n + 2 .. N : log[i].step = plan[job.req][i]
    BY <1>4, <1>9
  <2> QED
    BY <1>10, <2>1, <2>2, <2>3
<1>12. Follows(job.req, log)
  BY <1>3, <1>7, <1>11 DEF Follows, N
<1>13. \A i \in n + 2 .. N : log[i].status = "skipped" /\ log[i].why = "none"
  BY <1>4, <1>9
<1>14. \A i \in Failures(log) : i = n + 1
  <2>1. \A i \in Failures(log) : i \in 1 .. N /\ log[i].status = "failed"
    BY <1>7 DEF Failures
  <2>2. \A i \in 1 .. n : log[i].status # "failed"
    BY <1>3, <1>5
  <2>3. \A i \in n + 2 .. N : log[i].status # "failed"
    BY <1>13
  <2> QED
    BY <1>10, <2>1, <2>2, <2>3
<1>15. StopsAtFailure(log)
  <2>1. \A j \in n + 1 + 1 .. Len(log) : j \in n + 2 .. N
    BY <1>3, <1>7, <1>10
  <2> SUFFICES ASSUME NEW i \in Failures(log), NEW j \in i + 1 .. Len(log)
               PROVE  log[j].status = "skipped"
    BY DEF StopsAtFailure
  <2>2. i = n + 1
    BY <1>14
  <2>3. j \in n + 2 .. N
    BY <2>1, <2>2
  <2> QED
    BY <1>13, <2>3
<1>16. \A i \in n + 1 .. Len(log) : log[i].why = "parent" =>
          Running({"create", "modify"}) /\ ParentMissing
  <2>1. \A i \in n + 1 .. Len(log) : i = n + 1 \/ i \in n + 2 .. N
    BY <1>7, <1>10
  <2>2. log[n + 1].why = why
    BY <1>2, <1>5
  <2> QED
    BY <1>13, <2>1, <2>2
<1>17. n <= Len(log) /\ ~(job'.next <= N)
  BY <1>3, <1>5, <1>7
<1> QED
  BY <1>1, <1>5, <1>12, <1>15, <1>16, <1>17 DEF LogStep, log, n, N

\* The job after a command that failed: nothing is said of the steps after it.
LEMMA FailedCommandLog ==
    ASSUME TypeOK, JobInv, job.kind = "run", job.next <= Len(plan[job.req]),
           job' = [job EXCEPT !.next = Len(plan[job.req]) + 1,
                              !.log = Append(@, Entry(Step, "failed", "other"))]
    PROVE  LogStep /\ job'.saved = job.saved /\ job'.held = job.held
                   /\ job'.next = Len(plan[job.req]) + 1
<1> DEFINE e == Entry(Step, "failed", "other")
           n == Len(job.log)
           N == Len(plan[job.req])
           log == Append(job.log, e)
<1>1. Step \in Steps /\ e.step = Step /\ e.status = "failed" /\ e.why = "other" /\ e \in Entries
  BY StepOf, EntryType
<1>2. /\ job.log \in Seq(Entries) /\ n = job.next - 1 /\ Step = plan[job.req][job.next]
      /\ job.next \in 1 .. N /\ N \in Nat
      /\ \A i \in 1 .. n : job.log[i].status # "failed" /\ job.log[i].step = plan[job.req][i]
  BY BeforeStep
<1> HIDE DEF e
<1>3. /\ log \in Seq(Entries) /\ Len(log) = n + 1 /\ log[n + 1] = e /\ DOMAIN log = 1 .. n + 1
      /\ \A i \in 1 .. n : log[i] = job.log[i]
  BY <1>1, <1>2
<1>4. job' = [job EXCEPT !.next = N + 1, !.log = log]
  BY DEF e
<1> HIDE DEF log, n
<1>5. job \in RunJob /\ N + 1 \in Nat \ {0}
  BY <1>2, JobKinds
<1> HIDE DEF N
<1>6. /\ job' \in RunJob /\ job'.req = job.req /\ job'.ws = job.ws /\ job'.next = N + 1
      /\ job'.log = log /\ job'.saved = job.saved /\ job'.held = job.held
  BY <1>3, <1>4, <1>5 DEF RunJob
<1>7. n \in Nat /\ n + 1 = job.next /\ \A i \in 1 .. n + 1 : i \in 1 .. n \/ i = n + 1
  BY <1>2
<1>8. \A i \in 1 .. n + 1 : log[i].step = plan[job.req][i]
  <2>1. log[n + 1].step = plan[job.req][n + 1]
    BY <1>1, <1>2, <1>3, <1>7
  <2> QED
    BY <1>2, <1>3, <1>7, <2>1
<1>9. Follows(job.req, log)
  BY <1>2, <1>3, <1>7, <1>8 DEF Follows, N
<1>10. \A i \in Failures(log) : i = n + 1
  BY <1>2, <1>3, <1>7 DEF Failures
<1>11. StopsAtFailure(log)
  <2> SUFFICES ASSUME NEW i \in Failures(log), NEW j \in i + 1 .. Len(log)
               PROVE  FALSE
    BY DEF StopsAtFailure
  <2> QED
    BY <1>3, <1>7, <1>10
<1>12. \A i \in n + 1 .. Len(log) : log[i].why # "parent"
  BY <1>1, <1>3, <1>7
<1>13. ~(N + 1 <= N) /\ n <= Len(log)
  BY <1>2, <1>3, <1>7
<1> QED
  BY <1>3, <1>6, <1>9, <1>11, <1>12, <1>13 DEF LogStep, log, n, N

\* What a file that passes the checks looks like, and the job that holds it.
IsPrepared ==
    LET f == Step.path
        now == disk[job.ws][f]
        copy == [path |-> f, content |-> Decoded[now], hash |-> now]
    IN /\ job' \in RunJob
       /\ job'.req = job.req /\ job'.ws = job.ws /\ job'.strict = job.strict
       /\ job'.next = job.next /\ job'.log = job.log /\ job'.held = TRUE
       /\ f \in Paths /\ Step.op \in {"create", "modify"} /\ Step.content \in Contents
       /\ Step.op = "create" => now = Absent /\ job'.saved = job.saved
       /\ Step.op = "modify" => copy \in Backups /\ job'.saved = Append(job.saved, copy)

LEMMA PreparedJob ==
    ASSUME TypeOK, PrepareFile
    PROVE  IsPrepared
<1> DEFINE f == Step.path
           now == disk[job.ws][f]
           copy == [path |-> f, content |-> Decoded[now], hash |-> now]
           saved == IF Step.op = "modify" THEN Append(job.saved, copy) ELSE job.saved
<1>1. f \in Paths /\ Step.op \in {"create", "modify"} /\ Step.content \in Contents \union {NoContent}
  BY FileStep DEF PrepareFile
<1>2. job \in RunJob /\ job.ws \in Workspaces /\ job.saved \in Seq(Backups)
  BY JobKinds DEF PrepareFile, Running, RunJob
<1>3. now \in Files
  BY <1>1, <1>2 DEF TypeOK, Trees
<1>4. /\ now # Symlink /\ Step.content # NoContent
      /\ Step.op = "create" => now = Absent
      /\ Step.op = "modify" => now \notin {Absent} \union NotText
  BY DEF PrepareFile, Refused
<1>5. Step.op = "modify" => copy \in Backups
  <2>1. Step.op = "modify" => now \in Contents \ NotText
    BY <1>3, <1>4 DEF Files
  <2>2. Step.op = "modify" => Decoded[now] \in Contents \ NotText
    BY <2>1, ContentAssumption
  <2> HIDE DEF f, now
  <2> QED
    BY <1>1, <2>1, <2>2 DEF Backups
<1>6. job' = [job EXCEPT !.held = TRUE, !.saved = saved]
  BY DEF PrepareFile
<1> HIDE DEF copy
<1>7. saved \in Seq(Backups)
  BY <1>2, <1>5
<1> HIDE DEF saved
<1>8. /\ job' \in RunJob
      /\ job'.req = job.req /\ job'.ws = job.ws /\ job'.strict = job.strict
      /\ job'.next = job.next /\ job'.log = job.log /\ job'.held = TRUE
      /\ job'.saved = saved
  BY <1>2, <1>6, <1>7 DEF RunJob
<1>9. /\ Step.op = "create" => saved = job.saved
      /\ Step.op = "modify" => saved = Append(job.saved, copy)
  BY DEF saved
<1> QED
  BY <1>1, <1>4, <1>5, <1>8, <1>9 DEF IsPrepared, copy

RunStep == \/ SkipFile \/ RefuseFile \/ PrepareFile \/ ReplaceFile \/ FailWrite
           \/ \E status \in {"success", "failed"} : RunCommand(status)

LEMMA RunLog ==
    ASSUME TypeOK, JobInv, RunStep
    PROVE  job.kind = "run" /\ job.next <= Len(plan[job.req]) /\ LogStep
<1>1. job.kind = "run" /\ job.next <= Len(plan[job.req])
  BY DEF RunStep, SkipFile, RefuseFile, PrepareFile, ReplaceFile, FailWrite, RunCommand, Running
<1>2. CASE SkipFile
  BY <1>1, <1>2, AdvancedLog DEF SkipFile
<1>3. CASE RefuseFile
  <2>1. CASE ParentMissing
    <3>1. job' = Stopped("parent") /\ Running({"create", "modify"})
      BY <1>3, <2>1 DEF RefuseFile
    <3> QED
      BY <1>1, <2>1, <3>1, StoppedLog
  <2>2. CASE ~ParentMissing
    <3>1. job' = Stopped("other")
      BY <1>3, <2>2 DEF RefuseFile
    <3> QED
      BY <1>1, <3>1, StoppedLog
  <2> QED
    BY <2>1, <2>2
<1>4. CASE PrepareFile
  <2>1. IsPrepared
    BY <1>4, PreparedJob
  <2>2. /\ job' \in RunJob /\ job'.req = job.req /\ job'.ws = job.ws
        /\ job'.next = job.next /\ job'.log = job.log
    BY <2>1 DEF IsPrepared
  <2>3. Follows(job.req, job.log) /\ StopsAtFailure(job.log)
        /\ Len(job.log) = job.next - 1 /\ Failures(job.log) = {}
    BY <1>1 DEF JobInv, LogOf
  <2>4. Len(job.log) \in Nat
    BY <1>1, BeforeStep
  <2>5. \A i \in Len(job.log) + 1 .. Len(job.log) : FALSE
    BY <2>4
  <2> QED
    BY <1>1, <2>2, <2>3, <2>4, <2>5 DEF LogStep
<1>5. CASE ReplaceFile
  BY <1>1, <1>5, AdvancedLog DEF ReplaceFile
<1>6. CASE FailWrite
  <2>1. job' = Stopped("other")
    BY <1>6 DEF FailWrite
  <2> QED
    BY <1>1, <2>1, StoppedLog
<1>7. ASSUME NEW status \in {"success", "failed"}, RunCommand(status)
      PROVE  LogStep
  <2>1. CASE status = "success"
    <3>1. job' = Advanced("success")
      BY <1>7, <2>1 DEF RunCommand
    <3> QED
      BY <1>1, <3>1, AdvancedLog
  <2>2. CASE status = "failed"
    <3>1. job' = [job EXCEPT !.next = Len(plan[job.req]) + 1,
                             !.log = Append(@, Entry(Step, "failed", "other"))]
      BY <1>7, <2>2 DEF RunCommand
    <3> QED
      BY <1>1, <3>1, FailedCommandLog
  <2> QED
    BY <1>7, <2>1, <2>2
<1> QED
  BY <1>1, <1>2, <1>3, <1>4, <1>5, <1>6, <1>7 DEF RunStep

-----------------------------------------------------------------------------
(* What a step leaves alone of a request it does not start.                  *)

\* Only others' changes and writes to the files F: the log of r still fits.
Frame(r, F) ==
    /\ plan' = plan /\ before'[r] = before[r] /\ ranIn'[r] = ranIn[r]
    /\ touched[r] \subseteq touched'[r]
    /\ preview'[r].strict = preview[r].strict /\ preview'[r].ws = preview[r].ws
    /\ preview[r].stale => preview'[r].stale
    /\ ranIn[r] \in Workspaces => \A f \in (Paths \ touched'[r]) \ F :
                                     disk'[ranIn[r]][f] = disk[ranIn[r]][f]

\* LogOf in the next state.
LogNext(r, log) ==
    /\ Len(log) <= Len(plan'[r])
    /\ \A i \in 1 .. Len(log) : log[i].step = plan'[r][i]
    /\ StopsAtFailure(log)
    /\ \A f \in (Paths \ touched'[r]) \ WroteIn(log) : disk'[ranIn'[r]][f] = before'[r][f]
    /\ (\E i \in DOMAIN log : log[i].why = "parent") =>
           ~preview'[r].strict \/ preview'[r].stale \/ preview'[r].ws # ranIn'[r]

LEMMA QuietFrame ==
    ASSUME UNCHANGED <<plan, disk, before, ranIn, touched, preview>>, NEW r
    PROVE  Frame(r, {})
  BY DEF Frame

LEMMA DisturbFrame ==
    ASSUME TypeOK, NEW w \in Workspaces, NEW fs, NEW self, Disturb(w, fs, self),
           plan' = plan, NEW r \in Requests,
           \A v \in Workspaces : \A f \in Paths :
               v # w \/ f \notin fs => disk'[v][f] = disk[v][f]
    PROVE  Frame(r, IF r = self THEN fs ELSE {})
<1>1. /\ touched'[r] = IF r # self /\ ranIn[r] = w THEN touched[r] \union fs ELSE touched[r]
      /\ preview'[r] = IF r # self /\ preview[r].ws = w
                       THEN [preview[r] EXCEPT !.stale = TRUE] ELSE preview[r]
      /\ before' = before /\ ranIn' = ranIn
  BY DEF Disturb
<1>2. preview[r] \in [strict : BOOLEAN, ws : Workspaces \union {Nowhere}, stale : BOOLEAN]
  BY DEF TypeOK
<1>3. /\ preview'[r].strict = preview[r].strict /\ preview'[r].ws = preview[r].ws
      /\ preview[r].stale => preview'[r].stale
  BY <1>1, <1>2
<1>4. ASSUME ranIn[r] \in Workspaces,
             NEW f \in (Paths \ touched'[r]) \ (IF r = self THEN fs ELSE {})
      PROVE  disk'[ranIn[r]][f] = disk[ranIn[r]][f]
  BY <1>1, <1>4
<1> QED
  BY <1>1, <1>3, <1>4 DEF Frame

LEMMA LogKept ==
    ASSUME NEW r \in Requests, NEW log, NEW F, Frame(r, F), F \subseteq WroteIn(log),
           ranIn[r] \in Workspaces, LogOf(r, log)
    PROVE  LogNext(r, log)
<1>1. ASSUME NEW f \in (Paths \ touched'[r]) \ WroteIn(log)
      PROVE  disk'[ranIn'[r]][f] = before'[r][f]
  <2>1. f \in Untouched(r) \ WroteIn(log)
    BY DEF Frame, Untouched
  <2>2. disk[ranIn[r]][f] = before[r][f]
    BY <2>1 DEF LogOf, Truthful
  <2> QED
    BY <2>2 DEF Frame
<1>2. /\ Len(log) <= Len(plan'[r])
      /\ \A i \in 1 .. Len(log) : log[i].step = plan'[r][i]
      /\ StopsAtFailure(log)
  BY DEF Frame, LogOf, Follows
<1>3. (\E i \in DOMAIN log : log[i].why = "parent") =>
         ~preview'[r].strict \/ preview'[r].stale \/ preview'[r].ws # ranIn'[r]
  BY DEF Frame, LogOf, Foretold
<1> QED
  BY <1>1, <1>2, <1>3 DEF LogNext

\* A missing parent was foretold by the dry run of the request.
LEMMA ParentForetold ==
    ASSUME TypeOK, JobInv, PreviewInv, Running({"create", "modify"}), ParentMissing
    PROVE  ~preview[job.req].strict \/ preview[job.req].stale \/ preview[job.req].ws # ranIn[job.req]
<1>1. job.req \in Requests /\ job.next \in 1 .. Len(plan[job.req])
  BY JobKinds, StepOf DEF Running, RunJob
<1>2. result[job.req]["dry_run"] = "completed" /\ ranIn[job.req] = job.ws
  BY DEF JobInv, Running
<1>3. plan[job.req][job.next].op \in {"create", "modify"}
      /\ ~HasParent(job.ws, plan[job.req][job.next].path)
  BY DEF Running, ParentMissing, Step
<1> QED
  BY <1>1, <1>2, <1>3 DEF PreviewInv

LEMMA LogExtended ==
    ASSUME Inv, job.kind = "run", LogStep, NEW F, Frame(job.req, F), F \subseteq WroteIn(job'.log)
    PROVE  LogNext(job.req, job'.log)
<1> DEFINE r == job.req
           log == job'.log
           n == Len(job.log)
<1>1. /\ r \in Requests /\ job.log \in Seq(Entries) /\ log \in Seq(Entries)
      /\ ranIn[r] \in Workspaces /\ ranIn[r] = job.ws
      /\ LogOf(r, job.log)
  BY JobKinds DEF Inv, JobInv, LogStep, RunJob
<1>2. /\ n \in Nat /\ Len(log) \in Nat /\ n <= Len(log)
      /\ DOMAIN job.log = 1 .. n /\ DOMAIN log = 1 .. Len(log)
      /\ \A i \in 1 .. n : log[i] = job.log[i] /\ i \in DOMAIN log
  BY <1>1 DEF LogStep
<1> HIDE DEF log, n
<1>3. WroteIn(job.log) \subseteq WroteIn(log)
  BY <1>2 DEF WroteIn
<1>4. ASSUME NEW f \in (Paths \ touched'[r]) \ WroteIn(log)
      PROVE  disk'[ranIn'[r]][f] = before'[r][f]
  <2>1. f \in Untouched(r) \ WroteIn(job.log)
    BY <1>3 DEF Frame, Untouched
  <2>2. disk[ranIn[r]][f] = before[r][f]
    BY <1>1, <2>1 DEF LogOf, Truthful
  <2> QED
    BY <1>1, <2>2 DEF Frame, log
<1>5. Follows(r, log) /\ StopsAtFailure(log)
  BY DEF LogStep, log
<1>6. ASSUME NEW i \in DOMAIN log, log[i].why = "parent"
      PROVE  ~preview'[r].strict \/ preview'[r].stale \/ preview'[r].ws # ranIn'[r]
  <2>1. i \in 1 .. n \/ i \in n + 1 .. Len(log)
    BY <1>2
  <2>2. ~preview[r].strict \/ preview[r].stale \/ preview[r].ws # ranIn[r]
    <3>1. CASE i \in 1 .. n
      BY <1>1, <1>2, <1>6, <3>1 DEF LogOf, Foretold
    <3>2. CASE i \in n + 1 .. Len(log)
      <4>1. Running({"create", "modify"}) /\ ParentMissing
        BY <1>6, <3>2 DEF LogStep, log, n
      <4> QED
        BY <4>1, ParentForetold DEF Inv
    <3> QED
      BY <2>1, <3>1, <3>2
  <2> QED
    BY <2>2 DEF Frame
<1>7. Len(log) <= Len(plan'[r]) /\ \A i \in 1 .. Len(log) : log[i].step = plan'[r][i]
  BY <1>5 DEF Follows, Frame
<1> QED
  BY <1>4, <1>5, <1>6, <1>7 DEF LogNext, log

-----------------------------------------------------------------------------
(* Type correctness.                                                         *)

\* The parts of TypeOK that a step of a job may change, besides the job.
DiskType == disk \in [Workspaces -> Trees] /\ subdir \in [Workspaces -> BOOLEAN]
RowType == /\ result \in [Requests -> [Modes -> {"none", "completed", "failed"}]]
           /\ fileLog \in [Requests -> Seq(Entries)]
           /\ backups \in [Requests -> SUBSET Backups]
SeenType == /\ touched \in [Requests -> SUBSET Paths]
            /\ preview \in [Requests -> [strict : BOOLEAN, ws : Workspaces \union {Nowhere},
                                         stale : BOOLEAN]]

LEMMA DisturbType ==
    ASSUME TypeOK, NEW w \in Workspaces, NEW fs \in SUBSET Paths, NEW self, Disturb(w, fs, self)
    PROVE  SeenType'
<1>1. \A r \in Requests : touched[r] \union fs \in SUBSET Paths /\ touched[r] \in SUBSET Paths
  BY DEF TypeOK
<1>2. touched' \in [Requests -> SUBSET Paths]
  BY <1>1 DEF Disturb
<1>3. \A r \in Requests :
         /\ preview[r] \in [strict : BOOLEAN, ws : Workspaces \union {Nowhere}, stale : BOOLEAN]
         /\ [preview[r] EXCEPT !.stale = TRUE]
               \in [strict : BOOLEAN, ws : Workspaces \union {Nowhere}, stale : BOOLEAN]
  BY DEF TypeOK
<1>4. preview' \in [Requests -> [strict : BOOLEAN, ws : Workspaces \union {Nowhere},
                                 stale : BOOLEAN]]
  BY <1>3 DEF Disturb
<1> QED
  BY <1>2, <1>4 DEF SeenType

LEMMA WriteType ==
    ASSUME TypeOK, NEW w \in Workspaces, NEW f \in Paths, NEW c \in Files,
           disk' = [disk EXCEPT ![w][f] = c]
    PROVE  /\ disk' \in [Workspaces -> Trees]
           /\ \A v \in Workspaces : \A g \in Paths :
                 v # w \/ g # f => disk'[v][g] = disk[v][g]
           /\ disk'[w][f] = c
<1>1. disk \in [Workspaces -> Trees] /\ disk[w] \in Trees
  BY DEF TypeOK
<1>2. [disk[w] EXCEPT ![f] = c] \in Trees
  BY <1>1 DEF Trees
<1>3. disk' = [disk EXCEPT ![w] = [disk[w] EXCEPT ![f] = c]]
  OBVIOUS
<1>4. disk' \in [Workspaces -> Trees]
  BY <1>1, <1>2, <1>3
<1>5. \A v \in Workspaces : disk'[v] = IF v = w THEN [disk[w] EXCEPT ![f] = c] ELSE disk[v]
  BY <1>1, <1>3
<1> QED
  BY <1>1, <1>4, <1>5 DEF Trees

LEMMA RunType ==
    ASSUME TypeOK, JobInv, RunStep
    PROVE  TypeOK'
<1>1. job' \in RunJob
  BY RunLog DEF LogStep
<1>2. job \in RunJob /\ job.ws \in Workspaces /\ job.req \in Requests
  BY RunLog, JobKinds DEF RunJob
<1>3. DiskType'
  <2>1. CASE ReplaceFile
    <3>1. Step.path \in Paths
      BY <2>1, FileStep DEF ReplaceFile
    <3>2. Step.content \in Files
      BY <2>1 DEF ReplaceFile, Running, JobInv, Files
    <3>3. disk' = [disk EXCEPT ![job.ws][Step.path] = Step.content] /\ UNCHANGED subdir
      BY <2>1 DEF ReplaceFile
    <3>4. disk' \in [Workspaces -> Trees]
      BY <1>2, <3>1, <3>2, <3>3, WriteType
    <3> QED
      BY <3>3, <3>4 DEF DiskType, TypeOK
  <2>2. CASE ~ReplaceFile
    <3>1. disk' = disk /\ (subdir' = subdir \/ MakeParent)
      BY <2>2 DEF RunStep, SkipFile, RefuseFile, PrepareFile, FailWrite, RunCommand
    <3>2. ASSUME MakeParent PROVE subdir' \in [Workspaces -> BOOLEAN]
      BY <1>2, <3>2 DEF MakeParent, TypeOK
    <3> QED
      BY <3>1, <3>2 DEF DiskType, TypeOK
  <2> QED
    BY <2>1, <2>2
<1>4. SeenType'
  <2>1. CASE ReplaceFile
    <3>1. Disturb(job.ws, {Step.path}, job.req) /\ Step.path \in Paths
      BY <2>1, FileStep DEF ReplaceFile
    <3> QED
      BY <1>2, <3>1, DisturbType
  <2>2. CASE ~ReplaceFile
    BY <2>2 DEF RunStep, SkipFile, RefuseFile, PrepareFile, FailWrite, RunCommand, history,
                SeenType, TypeOK
  <2> QED
    BY <2>1, <2>2
<1>5. commands' \in [Requests -> 0 .. MaxCommands]
  <2>1. commands' = commands \/
          commands' = [commands EXCEPT ![job.req] = IF @ < MaxCommands THEN @ + 1 ELSE @]
    BY DEF RunStep, SkipFile, RefuseFile, PrepareFile, ReplaceFile, FailWrite, RunCommand, history
  <2>2. commands \in [Requests -> 0 .. MaxCommands] /\ commands[job.req] \in 0 .. MaxCommands
        /\ MaxCommands \in Nat
    BY <1>2, BoundAssumption DEF TypeOK
  <2>3. (IF commands[job.req] < MaxCommands THEN commands[job.req] + 1 ELSE commands[job.req])
           \in 0 .. MaxCommands
    BY <2>2
  <2> QED
    BY <1>2, <2>1, <2>2, <2>3
<1>6. UNCHANGED <<plan, current, records, bounds, before, original, ranIn>>
  BY DEF RunStep, SkipFile, RefuseFile, PrepareFile, ReplaceFile, FailWrite, RunCommand,
         history, Disturb
<1> QED
  BY <1>1, <1>3, <1>4, <1>5, <1>6 DEF TypeOK, DiskType, SeenType, records, bounds

UndoStep == UndoNothing \/ UndoFails \/ UndoModify \/ UndoCreate

\* The entry an undo job comes to, and the job after it.
LEMMA UndoneEntry ==
    ASSUME TypeOK, job.kind = "undo", job.next <= Len(fileLog[job.req])
    PROVE  /\ job \in UndoJob /\ job.req \in Requests /\ job.ws \in Workspaces
           /\ fileLog[job.req] \in Seq(Entries)
           /\ job.next \in 1 .. Len(fileLog[job.req])
           /\ Undone \in Entries
           /\ Undone.step.op \in {"create", "modify"} => Undone.step.path \in Paths
<1>1. job \in UndoJob /\ job.req \in Requests /\ job.ws \in Workspaces /\ job.next \in Nat \ {0}
  BY JobKinds DEF UndoJob
<1>2. fileLog[job.req] \in Seq(Entries)
  BY <1>1 DEF TypeOK
<1>3. job.next \in 1 .. Len(fileLog[job.req])
  BY <1>1, <1>2
<1>4. Undone \in Entries
  BY <1>2, <1>3 DEF Undone
<1>5. Undone.step \in Steps
  BY <1>4 DEF Entries
<1>6. Undone.step.op \in {"create", "modify"} => Undone.step.path \in Paths
  BY <1>5 DEF Steps, FileOps
<1> QED
  BY <1>1, <1>2, <1>3, <1>4, <1>6

LEMMA UndoneJob ==
    ASSUME TypeOK, job.kind = "undo", job.next <= Len(fileLog[job.req]),
           NEW status \in {"success", "failed", "skipped"}, UndoNext(status)
    PROVE  /\ job' \in UndoJob
           /\ job'.kind = "undo" /\ job'.req = job.req /\ job'.ws = job.ws
           /\ job'.next = job.next + 1
           /\ job'.log = IF status = "failed"
                         THEN Append(job.log, Entry(Undone.step, status, "other")) ELSE job.log
<1> DEFINE log == IF status = "failed"
                  THEN Append(job.log, Entry(Undone.step, status, "other")) ELSE job.log
<1>1. job \in UndoJob /\ Undone \in Entries /\ Undone.step \in Steps
  BY UndoneEntry DEF Entries
<1>2. Entry(Undone.step, status, "other") \in Entries
  BY <1>1, EntryType
<1>3. log \in Seq(Entries)
  BY <1>1, <1>2 DEF UndoJob
<1>4. job' = [job EXCEPT !.next = job.next + 1, !.log = log]
  <2>1. CASE status = "failed"
    <3>1. job' = [job EXCEPT !.next = job.next + 1,
                             !.log = Append(job.log, Entry(Undone.step, status, "other"))]
      BY <2>1 DEF UndoNext
    <3> QED
      BY <2>1, <3>1
  <2>2. CASE status # "failed"
    <3>1. job' = [job EXCEPT !.next = job.next + 1, !.log = job.log]
      <4>1. job' = [job EXCEPT !.next = job.next + 1, !.log = @]
        BY <2>2 DEF UndoNext
      <4> QED
        BY <1>1, <4>1 DEF UndoJob
    <3> QED
      BY <2>2, <3>1
  <2> QED
    BY <2>1, <2>2
<1> HIDE DEF log
<1>5. job.next + 1 \in Nat \ {0}
  BY <1>1 DEF UndoJob
<1>6. /\ job' \in UndoJob
      /\ job'.kind = "undo" /\ job'.req = job.req /\ job'.ws = job.ws
      /\ job'.next = job.next + 1 /\ job'.log = log
  BY <1>1, <1>3, <1>4, <1>5 DEF UndoJob
<1> QED
  BY <1>6 DEF log

LEMMA UndoStepJob ==
    ASSUME TypeOK, UndoStep
    PROVE  /\ job.kind = "undo" /\ job.next <= Len(fileLog[job.req])
           /\ \E status \in {"success", "failed", "skipped"} : UndoNext(status)
  BY DEF UndoStep, UndoNothing, UndoFails, UndoModify, UndoCreate, Undoing, UndoWrite

\* What an undo step writes, if it writes: a file the log of the run names.
LEMMA UndoneWrite ==
    ASSUME TypeOK, UndoModify \/ UndoCreate
    PROVE  /\ Undone.status = "success" /\ Undone.step.op \in {"create", "modify"}
           /\ Undone.step.path \in Paths
           /\ Undone.step.path \in WroteIn(fileLog[job.req])
           /\ \E c \in Files : UndoWrite(Undone.step.path, c)
<1>1. /\ job.kind = "undo" /\ job.next <= Len(fileLog[job.req])
      /\ Undone.status = "success" /\ Undone.step.op \in {"create", "modify"}
  BY DEF UndoModify, UndoCreate, Undoing
<1>2. Undone.step.path \in Paths /\ fileLog[job.req] \in Seq(Entries)
      /\ job.next \in 1 .. Len(fileLog[job.req]) /\ job.req \in Requests
  BY <1>1, UndoneEntry
<1>3. Undone.step.path \in WroteIn(fileLog[job.req])
  <2> DEFINE log == fileLog[job.req]
             k == job.next
  <2>1. k \in DOMAIN log /\ log \in Seq(Entries) /\ Undone = log[k]
    BY <1>2 DEF Undone
  <2> HIDE DEF log, k
  <2>2. log[k].step.path \in WroteIn(log)
    BY <1>1, <2>1 DEF WroteIn
  <2> QED
    BY <2>1, <2>2 DEF log
<1>4. \E c \in Files : UndoWrite(Undone.step.path, c)
  <2>1. CASE UndoCreate
    BY <2>1 DEF UndoCreate, Files
  <2>2. CASE UndoModify
    <3>1. PICK b \in backups[job.req] : b.path = Undone.step.path
                                        /\ UndoWrite(b.path, Decoded[b.content])
      BY <2>2 DEF UndoModify
    <3>2. b \in Backups
      BY <1>2 DEF TypeOK
    <3>3. Decoded[b.content] \in Contents \ NotText
      BY <3>2, ContentAssumption DEF Backups
    <3> QED
      BY <3>1, <3>3 DEF Files
  <2> QED
    BY <2>1, <2>2
<1> QED
  BY <1>1, <1>2, <1>3, <1>4

LEMMA UndoType ==
    ASSUME TypeOK, UndoStep
    PROVE  TypeOK'
<1>1. job.kind = "undo" /\ job.next <= Len(fileLog[job.req])
  BY UndoStepJob
<1>2. job' \in UndoJob /\ job.ws \in Workspaces
  BY <1>1, UndoStepJob, UndoneJob, UndoneEntry
<1>3. UNCHANGED <<plan, subdir, current, records, bounds, before, original, ranIn, commands>>
  <2>1. CASE UndoModify
    BY <2>1 DEF UndoModify, UndoWrite, Disturb
  <2>2. CASE UndoCreate
    BY <2>2 DEF UndoCreate, UndoWrite, Disturb
  <2> QED
    BY <2>1, <2>2 DEF UndoStep, UndoNothing, UndoFails, history
<1>4. DiskType' /\ SeenType'
  <2>1. CASE UndoModify \/ UndoCreate
    <3>1. PICK c \in Files : UndoWrite(Undone.step.path, c)
      BY <2>1, UndoneWrite
    <3>2. Undone.step.path \in Paths
      BY <2>1, UndoneWrite
    <3>3. disk' = [disk EXCEPT ![job.ws][Undone.step.path] = c]
          /\ Disturb(job.ws, {Undone.step.path}, job.req)
      BY <3>1 DEF UndoWrite
    <3>4. disk' \in [Workspaces -> Trees]
      BY <1>2, <3>2, <3>3, WriteType
    <3>5. SeenType'
      BY <1>2, <3>2, <3>3, DisturbType
    <3> QED
      BY <1>3, <3>4, <3>5 DEF DiskType, TypeOK
  <2>2. CASE ~(UndoModify \/ UndoCreate)
    BY <2>2 DEF UndoStep, UndoNothing, UndoFails, history, DiskType, SeenType, TypeOK
  <2> QED
    BY <2>1, <2>2
<1> QED
  BY <1>2, <1>3, <1>4 DEF TypeOK, DiskType, SeenType, records, bounds

LEMMA RowStepType ==
    ASSUME TypeOK, CommitRun \/ LoseRun \/ CommitUndo
           \/ (\E r \in Requests, strict \in BOOLEAN : DryRun(r, strict))
    PROVE  TypeOK'
<1>1. /\ \A r \in Requests, m \in Modes, s \in {"none", "completed", "failed"} :
            [result EXCEPT ![r][m] = s] \in [Requests -> [Modes -> {"none", "completed", "failed"}]]
      /\ "dry_run" \in Modes /\ "real_run" \in Modes /\ "rollback" \in Modes
  BY DEF TypeOK, Modes
<1>2. CASE CommitRun
  <2>1. job.req \in Requests /\ job.log \in Seq(Entries) /\ job.saved \in Seq(Backups)
    BY <1>2, JobKinds DEF CommitRun, AtCommit, RunJob
  <2>2. ToSet(job.saved) \in SUBSET Backups
    BY <2>1 DEF ToSet
  <2>3. fileLog' \in [Requests -> Seq(Entries)] /\ backups' \in [Requests -> SUBSET Backups]
    BY <1>2, <2>1, <2>2 DEF CommitRun, TypeOK
  <2>4. result' \in [Requests -> [Modes -> {"none", "completed", "failed"}]]
    BY <1>1, <1>2, <2>1 DEF CommitRun
  <2> QED
    BY <1>2, <2>3, <2>4 DEF CommitRun, TypeOK, bounds, history
<1>3. CASE LoseRun
  BY <1>3 DEF LoseRun, TypeOK, records, bounds, history
<1>4. CASE CommitUndo
  <2>1. job.req \in Requests
    BY <1>4, JobKinds DEF CommitUndo, UndoJob
  <2>2. result' \in [Requests -> [Modes -> {"none", "completed", "failed"}]]
    BY <1>1, <1>4, <2>1 DEF CommitUndo
  <2> QED
    BY <1>4, <2>2 DEF CommitUndo, TypeOK, bounds, history
<1>5. ASSUME NEW r \in Requests, NEW strict \in BOOLEAN, DryRun(r, strict)
      PROVE  TypeOK'
  <2>1. result' \in [Requests -> [Modes -> {"none", "completed", "failed"}]]
    BY <1>1, <1>5 DEF DryRun
  <2>2. [strict |-> strict, ws |-> current, stale |-> FALSE]
           \in [strict : BOOLEAN, ws : Workspaces \union {Nowhere}, stale : BOOLEAN]
    BY DEF TypeOK
  <2>3. preview' \in [Requests -> [strict : BOOLEAN, ws : Workspaces \union {Nowhere},
                                   stale : BOOLEAN]]
    BY <1>5, <2>2 DEF DryRun, TypeOK
  <2> QED
    BY <1>5, <2>1, <2>3 DEF DryRun, TypeOK, bounds
<1> QED
  BY <1>2, <1>3, <1>4, <1>5

LEMMA StartType ==
    ASSUME TypeOK,
           (\E r \in Requests, strict \in BOOLEAN : StartRun(r, strict))
           \/ (\E r \in Requests : StartUndo(r))
    PROVE  TypeOK'
<1>1. <<>> \in Seq(Entries) /\ <<>> \in Seq(Backups)
  OBVIOUS
<1>2. ASSUME NEW r \in Requests, NEW strict \in BOOLEAN, StartRun(r, strict)
      PROVE  TypeOK'
  <2>1. job' \in RunJob
    BY <1>1, <1>2 DEF StartRun, TypeOK, RunJob
  <2>2. disk[current] \in Trees /\ current \in Workspaces
    BY DEF TypeOK
  <2>3. /\ before' \in [Requests -> Trees] /\ original' \in [Requests -> Trees]
        /\ ranIn' \in [Requests -> Workspaces \union {Nowhere}]
        /\ touched' \in [Requests -> SUBSET Paths]
    BY <1>2, <2>2 DEF StartRun, TypeOK
  <2> QED
    BY <1>2, <2>1, <2>3 DEF StartRun, TypeOK, records, bounds
<1>3. ASSUME NEW r \in Requests, StartUndo(r)
      PROVE  TypeOK'
  <2>1. job' \in UndoJob
    BY <1>1, <1>3 DEF StartUndo, TypeOK, UndoJob
  <2> QED
    BY <1>3, <2>1 DEF StartUndo, TypeOK, records, bounds, history
<1> QED
  BY <1>2, <1>3

UserStep ==
    \/ \E w \in Workspaces : UserDirectory(w)
    \/ \E w \in Workspaces, f \in Paths, c \in Files : UserEdit(w, f, c)

\* What the disk is after someone else's change of files fs of workspace w.
LEMMA UserChange ==
    ASSUME TypeOK, UserStep
    PROVE  /\ DiskType'
           /\ \E w \in Workspaces, fs \in SUBSET Paths :
                 /\ Disturb(w, fs, Nowhere)
                 /\ \A v \in Workspaces : \A f \in Paths :
                       v # w \/ f \notin fs => disk'[v][f] = disk[v][f]
           /\ edits' \in 0 .. MaxEdits
           /\ UNCHANGED <<plan, current, job, records, crashes, moves, commands>>
<1>1. edits < MaxEdits /\ edits' = edits + 1 => edits' \in 0 .. MaxEdits
  BY BoundAssumption DEF TypeOK
<1>2. ASSUME NEW w \in Workspaces, UserDirectory(w)
      PROVE  /\ DiskType'
             /\ \E fs \in SUBSET Paths :
                   /\ Disturb(w, fs, Nowhere)
                   /\ \A v \in Workspaces : \A f \in Paths :
                         v # w \/ f \notin fs => disk'[v][f] = disk[v][f]
  <2> DEFINE t == [f \in Paths |-> IF f \in Nested THEN Absent ELSE disk[w][f]]
  <2>1. disk \in [Workspaces -> Trees] /\ disk[w] \in Trees /\ subdir \in [Workspaces -> BOOLEAN]
    BY DEF TypeOK
  <2>2. t \in Trees
    BY <2>1 DEF Trees, Files
  <2>3. disk' = [disk EXCEPT ![w] = t] /\ subdir' = [subdir EXCEPT ![w] = ~subdir[w]]
    BY <1>2 DEF UserDirectory
  <2>4. \A f \in Paths : f \notin Nested => t[f] = disk[w][f]
    OBVIOUS
  <2> HIDE DEF t
  <2>5. disk' \in [Workspaces -> Trees] /\ subdir' \in [Workspaces -> BOOLEAN]
    BY <2>1, <2>2, <2>3
  <2>6. \A v \in Workspaces : \A f \in Paths :
           v # w \/ f \notin Nested => disk'[v][f] = disk[v][f]
    BY <2>1, <2>3, <2>4
  <2>7. Disturb(w, Nested, Nowhere) /\ Nested \in SUBSET Paths
    BY <1>2, ContentAssumption DEF UserDirectory
  <2> QED
    BY <2>5, <2>6, <2>7 DEF DiskType
<1>3. ASSUME NEW w \in Workspaces, NEW f \in Paths, NEW c \in Files, UserEdit(w, f, c)
      PROVE  /\ DiskType'
             /\ \E fs \in SUBSET Paths :
                   /\ Disturb(w, fs, Nowhere)
                   /\ \A v \in Workspaces : \A g \in Paths :
                         v # w \/ g \notin fs => disk'[v][g] = disk[v][g]
  <2>1. disk' = [disk EXCEPT ![w][f] = c] /\ Disturb(w, {f}, Nowhere) /\ subdir' = subdir
    BY <1>3 DEF UserEdit
  <2>2. disk' = [disk EXCEPT ![w][f] = c]
    BY <2>1
  <2>3. disk' \in [Workspaces -> Trees]
    BY <2>2, WriteType
  <2>4. \A v \in Workspaces : \A g \in Paths : v # w \/ g # f => disk'[v][g] = disk[v][g]
    BY <2>2, WriteType
  <2>5. DiskType'
    BY <2>1, <2>3 DEF DiskType, TypeOK
  <2>6. {f} \in SUBSET Paths
    OBVIOUS
  <2>7. \A v \in Workspaces : \A g \in Paths : v # w \/ g \notin {f} => disk'[v][g] = disk[v][g]
    BY <2>4
  <2> QED
    BY <2>1, <2>5, <2>6, <2>7
<1>4. /\ edits < MaxEdits /\ edits' = edits + 1
      /\ UNCHANGED <<plan, current, job, records, crashes, moves, commands>>
  BY DEF UserStep, UserDirectory, UserEdit
<1> QED
  BY <1>1, <1>2, <1>3, <1>4 DEF UserStep

LEMMA TypeStep ==
    ASSUME TypeOK, JobInv, [Next]_vars
    PROVE  TypeOK'
<1>1. CASE RunStep
  BY <1>1, RunType
<1>2. CASE UndoStep
  BY <1>2, UndoType
<1>3. CASE CommitRun \/ LoseRun \/ CommitUndo
           \/ (\E r \in Requests, strict \in BOOLEAN : DryRun(r, strict))
  BY <1>3, RowStepType
<1>4. CASE (\E r \in Requests, strict \in BOOLEAN : StartRun(r, strict))
           \/ (\E r \in Requests : StartUndo(r))
  BY <1>4, StartType
<1>5. CASE Crash
  <2>1. crashes' \in 0 .. MaxCrashes
    BY <1>5, BoundAssumption DEF Crash, TypeOK
  <2> QED
    BY <1>5, <2>1 DEF Crash, TypeOK, records, history
<1>6. CASE \E w \in Workspaces : Repoint(w)
  <2>1. PICK w \in Workspaces : Repoint(w)
    BY <1>6
  <2>2. moves' \in 0 .. MaxMoves
    BY <2>1, BoundAssumption DEF Repoint, TypeOK
  <2> QED
    BY <2>1, <2>2 DEF Repoint, TypeOK, records, history
<1>7. CASE UserStep
  <2>1. SeenType'
    BY <1>7, UserChange, DisturbType
  <2>2. DiskType' /\ edits' \in 0 .. MaxEdits
        /\ UNCHANGED <<plan, current, job, records, crashes, moves, commands>>
    BY <1>7, UserChange
  <2>3. UNCHANGED <<before, original, ranIn>>
    BY <1>7 DEF UserStep, UserDirectory, UserEdit, Disturb
  <2> QED
    BY <2>1, <2>2, <2>3 DEF TypeOK, DiskType, SeenType, records
<1>8. CASE UNCHANGED vars
  BY <1>8 DEF vars, TypeOK, records, bounds, history
<1> QED
  BY <1>1, <1>2, <1>3, <1>4, <1>5, <1>6, <1>7, <1>8
  DEF Next, Call, JobStep, Environment, RunStep, UndoStep, UserStep

-----------------------------------------------------------------------------
(* What a step leaves of the requests.                                       *)

LEMMA UserFrame ==
    ASSUME TypeOK, UserStep, NEW r \in Requests
    PROVE  Frame(r, {})
<1>1. PICK w \in Workspaces, fs \in SUBSET Paths :
         /\ Disturb(w, fs, Nowhere)
         /\ \A v \in Workspaces : \A f \in Paths :
               v # w \/ f \notin fs => disk'[v][f] = disk[v][f]
  BY UserChange
<1>2. plan' = plan /\ r # Nowhere
  BY UserChange, BoundAssumption
<1> QED
  BY <1>1, <1>2, DisturbFrame

\* Nobody starts anything for r: its log fits as before, but for the file its
\* own job writes.
LEMMA RequestFrame ==
    ASSUME Inv, [Next]_vars, NEW r \in Requests
    PROVE  \/ Frame(r, {})
           \/ \E strict \in BOOLEAN : DryRun(r, strict) \/ StartRun(r, strict)
           \/ r = job.req /\ ReplaceFile /\ Frame(r, {Step.path})
           \/ /\ r = job.req /\ job.kind = "undo"
              /\ UndoModify \/ UndoCreate
              /\ Frame(r, {Undone.step.path})
<1> USE DEF Inv
<1>1. CASE UNCHANGED <<plan, disk, before, ranIn, touched, preview>>
  BY <1>1, QuietFrame
<1>2. CASE ReplaceFile
  <2>1. /\ Disturb(job.ws, {Step.path}, job.req) /\ plan' = plan
        /\ disk' = [disk EXCEPT ![job.ws][Step.path] = Step.content]
        /\ Step.path \in Paths /\ Step.content \in Files
    BY <1>2, FileStep DEF ReplaceFile, Running, JobInv, Files
  <2>2. job.ws \in Workspaces
    BY <1>2, JobKinds DEF ReplaceFile, Running, RunJob
  <2>3. \A v \in Workspaces : \A f \in Paths :
           v # job.ws \/ f # Step.path => disk'[v][f] = disk[v][f]
    BY <2>1, <2>2, WriteType
  <2>4. Frame(r, IF r = job.req THEN {Step.path} ELSE {})
    BY <2>1, <2>2, <2>3, DisturbFrame
  <2> QED
    BY <1>2, <2>4
<1>3. CASE UndoModify \/ UndoCreate
  <2>1. PICK c \in Files : UndoWrite(Undone.step.path, c)
    BY <1>3, UndoneWrite
  <2>2. /\ Disturb(job.ws, {Undone.step.path}, job.req) /\ plan' = plan
        /\ disk' = [disk EXCEPT ![job.ws][Undone.step.path] = c]
        /\ Undone.step.path \in Paths
    BY <1>3, <2>1, UndoneWrite DEF UndoWrite
  <2>3. job.ws \in Workspaces /\ job.kind = "undo"
    BY <1>3, UndoStepJob, UndoneEntry DEF UndoStep
  <2>4. \A v \in Workspaces : \A f \in Paths :
           v # job.ws \/ f # Undone.step.path => disk'[v][f] = disk[v][f]
    BY <2>2, <2>3, WriteType
  <2>5. Frame(r, IF r = job.req THEN {Undone.step.path} ELSE {})
    BY <2>2, <2>3, <2>4, DisturbFrame
  <2> QED
    BY <1>3, <2>3, <2>5
<1>4. CASE UserStep
  BY <1>4, UserFrame
<1>5. CASE \E q \in Requests, strict \in BOOLEAN : q # r /\ (DryRun(q, strict) \/ StartRun(q, strict))
  <2>1. PICK q \in Requests, strict \in BOOLEAN :
           q # r /\ (DryRun(q, strict) \/ StartRun(q, strict))
    BY <1>5
  <2>2. /\ plan' = plan /\ disk' = disk
        /\ before'[r] = before[r] /\ ranIn'[r] = ranIn[r] /\ touched'[r] = touched[r]
        /\ preview'[r] = preview[r]
    BY <2>1 DEF DryRun, StartRun, TypeOK
  <2> QED
    BY <2>2 DEF Frame
<1> QED
  BY <1>1, <1>2, <1>3, <1>4, <1>5
  DEF Next, Call, JobStep, Environment, UserStep, StartUndo, SkipFile, RefuseFile, PrepareFile,
      FailWrite, RunCommand, CommitRun, LoseRun, UndoNothing, UndoFails, CommitUndo, Crash,
      Repoint, vars, history

-----------------------------------------------------------------------------
(* The rows of the database.                                                 *)

\* A write to the row of mode m of request q.
Wrote(q, m) ==
    /\ \A r \in Requests : r # q => result'[r] = result[r]
    /\ \A k \in Modes : k # m => result'[q][k] = result[q][k]
    /\ result'[q][m] # "none"

LEMMA RowWritten ==
    ASSUME TypeOK, NEW q \in Requests, NEW m \in Modes, NEW s \in {"completed", "failed"},
           result' = [result EXCEPT ![q][m] = s]
    PROVE  Wrote(q, m) /\ result'[q][m] = s
  BY DEF Wrote, TypeOK

LEMMA CommitCases ==
    ASSUME Inv, [Next]_vars
    PROVE  \/ UNCHANGED records
           \/ \E q \in Requests, strict \in BOOLEAN :
                 DryRun(q, strict) /\ Wrote(q, "dry_run") /\ UNCHANGED <<fileLog, backups>>
           \/ /\ CommitRun /\ job.req \in Requests /\ Wrote(job.req, "real_run")
              /\ fileLog' = [fileLog EXCEPT ![job.req] = job.log]
              /\ backups' = [backups EXCEPT ![job.req] = ToSet(job.saved)]
           \/ /\ CommitUndo /\ job.req \in Requests /\ Wrote(job.req, "rollback")
              /\ UNCHANGED <<fileLog, backups>>
<1>1. "dry_run" \in Modes /\ "real_run" \in Modes /\ "rollback" \in Modes
  BY DEF Modes
<1>2. ASSUME NEW q \in Requests, NEW strict \in BOOLEAN, DryRun(q, strict)
      PROVE  Wrote(q, "dry_run") /\ UNCHANGED <<fileLog, backups>>
  <2>1. PICK s \in {"completed", "failed"} : result' = [result EXCEPT ![q]["dry_run"] = s]
    BY <1>2 DEF DryRun
  <2>2. Wrote(q, "dry_run")
    BY <1>1, <2>1, RowWritten DEF Inv
  <2> QED
    BY <1>2, <2>2 DEF DryRun
<1>3. CASE CommitRun
  <2>1. PICK s \in {"completed", "failed"} : result' = [result EXCEPT ![job.req]["real_run"] = s]
    BY <1>3 DEF CommitRun
  <2>2. job.req \in Requests
    BY <1>3, JobKinds DEF CommitRun, AtCommit, RunJob, Inv
  <2>3. Wrote(job.req, "real_run")
    BY <1>1, <2>1, <2>2, RowWritten DEF Inv
  <2> QED
    BY <1>3, <2>2, <2>3 DEF CommitRun
<1>4. CASE CommitUndo
  <2>1. PICK s \in {"completed", "failed"} : result' = [result EXCEPT ![job.req]["rollback"] = s]
    BY <1>4 DEF CommitUndo
  <2>2. job.req \in Requests
    BY <1>4, JobKinds DEF CommitUndo, UndoJob, Inv
  <2>3. Wrote(job.req, "rollback")
    BY <1>1, <2>1, <2>2, RowWritten DEF Inv
  <2> QED
    BY <1>4, <2>2, <2>3 DEF CommitUndo
<1>5. ASSUME ~CommitRun, ~CommitUndo, \A q \in Requests, strict \in BOOLEAN : ~DryRun(q, strict)
      PROVE  UNCHANGED records
  BY <1>5, UserChange
  DEF Inv, Next, Call, JobStep, Environment, UserDirectory, UserEdit, StartRun, StartUndo,
      SkipFile, RefuseFile, PrepareFile, ReplaceFile, FailWrite, RunCommand, LoseRun,
      UndoNothing, UndoFails, UndoModify, UndoCreate, UndoWrite, Crash, Repoint, vars
<1> QED
  BY <1>2, <1>3, <1>4, <1>5

\* A recorded run: its rows stay, and its log goes on fitting.
LEMMA RecordKept ==
    ASSUME Inv, [Next]_vars, NEW r \in Requests, Recorded(r)
    PROVE  /\ result'[r]["dry_run"] = "completed" /\ result'[r]["real_run"] # "none"
           /\ ranIn'[r] = ranIn[r] /\ ranIn[r] \in Workspaces
           /\ fileLog'[r] = fileLog[r] /\ backups'[r] = backups[r]
           /\ LogNext(r, fileLog[r])
<1>1. /\ result[r]["dry_run"] = "completed" /\ ranIn[r] \in Workspaces /\ LogOf(r, fileLog[r])
      /\ result[r]["real_run"] # "none"
  BY DEF Inv, RowInv, Recorded
<1>2. \A strict \in BOOLEAN : ~DryRun(r, strict) /\ ~StartRun(r, strict)
  BY <1>1 DEF DryRun, StartRun
<1>3. job.kind = "run" => job.req # r
  BY DEF Inv, JobInv
<1>4. /\ result'[r]["dry_run"] = "completed" /\ result'[r]["real_run"] # "none"
      /\ fileLog'[r] = fileLog[r] /\ backups'[r] = backups[r]
  <2>1. CASE UNCHANGED records
    BY <1>1, <2>1 DEF records
  <2>2. CASE \E q \in Requests, strict \in BOOLEAN :
                DryRun(q, strict) /\ Wrote(q, "dry_run") /\ UNCHANGED <<fileLog, backups>>
    BY <1>1, <1>2, <2>2 DEF Wrote
  <2>3. CASE /\ CommitRun /\ job.req \in Requests /\ Wrote(job.req, "real_run")
             /\ fileLog' = [fileLog EXCEPT ![job.req] = job.log]
             /\ backups' = [backups EXCEPT ![job.req] = ToSet(job.saved)]
    <3>1. job.req # r
      BY <1>3, <2>3 DEF CommitRun, AtCommit
    <3> QED
      BY <1>1, <2>3, <3>1 DEF Wrote, Inv, TypeOK
  <2>4. CASE /\ CommitUndo /\ job.req \in Requests /\ Wrote(job.req, "rollback")
             /\ UNCHANGED <<fileLog, backups>>
    BY <1>1, <2>4 DEF Wrote, Modes
  <2> QED
    BY <2>1, <2>2, <2>3, <2>4, CommitCases
<1>5. LogNext(r, fileLog[r]) /\ ranIn'[r] = ranIn[r]
  <2>1. CASE Frame(r, {})
    BY <1>1, <2>1, LogKept DEF Frame
  <2>2. CASE r = job.req /\ ReplaceFile /\ Frame(r, {Step.path})
    BY <1>3, <2>2 DEF ReplaceFile, Running
  <2>3. CASE /\ r = job.req /\ job.kind = "undo"
             /\ UndoModify \/ UndoCreate
             /\ Frame(r, {Undone.step.path})
    <3>1. {Undone.step.path} \subseteq WroteIn(fileLog[r])
      BY <2>3, UndoneWrite DEF Inv
    <3> QED
      BY <1>1, <2>3, <3>1, LogKept DEF Frame
  <2> QED
    BY <1>2, <2>1, <2>2, <2>3, RequestFrame
<1> QED
  BY <1>1, <1>4, <1>5

LEMMA RowInvStep ==
    ASSUME Inv, [Next]_vars
    PROVE  RowInv'
<1> SUFFICES ASSUME NEW r \in Requests
             PROVE  /\ Recorded(r)' => /\ result'[r]["dry_run"] = "completed"
                                       /\ ranIn'[r] \in Workspaces
                                       /\ LogNext(r, fileLog'[r])
                    /\ ~Recorded(r)' => /\ fileLog'[r] = <<>> /\ backups'[r] = {}
                                        /\ result'[r]["rollback"] = "none"
  BY DEF RowInv, LogOf, LogNext, Follows, Truthful, Foretold, Untouched
<1>1. CASE Recorded(r)
  BY <1>1, RecordKept DEF Recorded
<1>2. CASE ~Recorded(r)
  <2>1. fileLog[r] = <<>> /\ backups[r] = {} /\ result[r]["rollback"] = "none"
        /\ result[r]["real_run"] = "none"
    BY <1>2 DEF Inv, RowInv, Recorded
  <2>2. CASE UNCHANGED records
    BY <2>1, <2>2 DEF records, Recorded
  <2>3. CASE \E q \in Requests, strict \in BOOLEAN :
                DryRun(q, strict) /\ Wrote(q, "dry_run") /\ UNCHANGED <<fileLog, backups>>
    <3>1. result'[r]["rollback"] = "none" /\ result'[r]["real_run"] = "none"
      BY <2>1, <2>3 DEF Wrote, Modes
    <3> QED
      BY <2>1, <2>3, <3>1 DEF Recorded
  <2>4. CASE /\ CommitRun /\ job.req \in Requests /\ Wrote(job.req, "real_run")
             /\ fileLog' = [fileLog EXCEPT ![job.req] = job.log]
             /\ backups' = [backups EXCEPT ![job.req] = ToSet(job.saved)]
    <3>1. CASE r = job.req
      <4>1. /\ result[r]["dry_run"] = "completed" /\ ranIn[r] = job.ws /\ LogOf(r, job.log)
            /\ job.ws \in Workspaces
        BY <2>4, <3>1, JobKinds DEF Inv, JobInv, CommitRun, AtCommit, RunJob
      <4>2. result'[r]["dry_run"] = "completed" /\ result'[r]["real_run"] # "none"
        BY <2>4, <3>1, <4>1 DEF Wrote, Modes
      <4>3. fileLog'[r] = job.log
        BY <2>4, <3>1 DEF Inv, TypeOK
      <4>4. Frame(r, {})
        BY <2>4, QuietFrame DEF CommitRun, history
      <4>5. LogNext(r, job.log)
        BY <4>1, <4>4, LogKept
      <4> QED
        BY <4>1, <4>2, <4>3, <4>4, <4>5 DEF Frame, Recorded
    <3>2. CASE r # job.req
      BY <2>1, <2>4, <3>2 DEF Wrote, Inv, TypeOK, Recorded
    <3> QED
      BY <3>1, <3>2
  <2>5. CASE /\ CommitUndo /\ job.req \in Requests /\ Wrote(job.req, "rollback")
             /\ UNCHANGED <<fileLog, backups>>
    <3>1. job.req # r
      BY <1>2, <2>5 DEF Inv, JobInv, CommitUndo
    <3> QED
      BY <2>1, <2>5, <3>1 DEF Wrote, Recorded
  <2> QED
    BY <2>2, <2>3, <2>4, <2>5, CommitCases
<1> QED
  BY <1>1, <1>2

-----------------------------------------------------------------------------
(* The preview of the dry run.                                               *)

\* A directory disappears only in front of every preview taken there.
LEMMA DirectoriesStay ==
    ASSUME TypeOK, JobInv, [Next]_vars, NEW w \in Workspaces, subdir[w], ~subdir'[w]
    PROVE  Disturb(w, Nested, Nowhere)
<1>1. subdir \in [Workspaces -> BOOLEAN]
  BY DEF TypeOK
<1>2. CASE MakeParent
  BY <1>1, <1>2 DEF MakeParent
<1>3. ASSUME NEW v \in Workspaces, UserDirectory(v)
      PROVE  Disturb(w, Nested, Nowhere)
  <2>1. subdir' = [subdir EXCEPT ![v] = ~subdir[v]] /\ Disturb(v, Nested, Nowhere)
    BY <1>3 DEF UserDirectory
  <2>2. v = w
    BY <1>1, <2>1
  <2> QED
    BY <2>1, <2>2
<1>4. CASE UNCHANGED subdir
  BY <1>4
<1>5. ASSUME ~MakeParent, \A v \in Workspaces : ~UserDirectory(v)
      PROVE  UNCHANGED subdir
  BY <1>5
  DEF Next, Call, JobStep, Environment, UserEdit, DryRun, StartRun, StartUndo,
      SkipFile, RefuseFile, PrepareFile, ReplaceFile, FailWrite, RunCommand, CommitRun, LoseRun,
      UndoNothing, UndoFails, UndoModify, UndoCreate, UndoWrite, CommitUndo, Crash, Repoint, vars
<1> QED
  BY <1>2, <1>3, <1>4, <1>5

LEMMA PreviewStep ==
    ASSUME Inv, [Next]_vars
    PROVE  PreviewInv'
<1> USE DEF Inv
<1> DEFINE Seen(r) ==
             /\ preview'[r].ws \in Workspaces
             /\ preview'[r].strict /\ ~preview'[r].stale =>
                  \A i \in 1 .. Len(plan'[r]) : plan'[r][i].op \in {"create", "modify"} =>
                      (plan'[r][i].path \in Nested => subdir'[preview'[r].ws])
<1> SUFFICES ASSUME NEW r \in Requests, result'[r]["dry_run"] = "completed" PROVE Seen(r)
  BY DEF PreviewInv, HasParent
<1>1. ASSUME NEW strict \in BOOLEAN, DryRun(r, strict) PROVE Seen(r)
  <2>1. /\ plan' = plan /\ subdir' = subdir /\ current \in Workspaces
        /\ preview'[r] = [strict |-> strict, ws |-> current, stale |-> FALSE]
    BY <1>1 DEF DryRun, TypeOK
  <2>2. ~PredictedFailure(r, strict)
    BY <1>1 DEF DryRun, TypeOK, Modes
  <2>3. DOMAIN plan[r] = 1 .. Len(plan[r])
    BY PlanOf
  <2>4. strict => \A i \in 1 .. Len(plan[r]) : plan[r][i].op \in {"create", "modify"} =>
                      (plan[r][i].path \in Nested => subdir[current])
    BY <2>2, <2>3 DEF PredictedFailure, HasParent
  <2> QED
    BY <2>1, <2>4
<1>2. ASSUME \A strict \in BOOLEAN : ~DryRun(r, strict)
      PROVE  Seen(r)
  <2>1. result[r]["dry_run"] = "completed"
    <3>1. CASE UNCHANGED records
      BY <3>1 DEF records
    <3>2. CASE \E q \in Requests, strict \in BOOLEAN :
                  DryRun(q, strict) /\ Wrote(q, "dry_run") /\ UNCHANGED <<fileLog, backups>>
      BY <1>2, <3>2 DEF Wrote
    <3>3. CASE job.req \in Requests /\ (Wrote(job.req, "real_run") \/ Wrote(job.req, "rollback"))
      BY <3>3 DEF Wrote, Modes
    <3> QED
      BY <3>1, <3>2, <3>3, CommitCases
  <2>2. /\ preview[r].ws \in Workspaces
        /\ preview[r].strict /\ ~preview[r].stale =>
             \A i \in 1 .. Len(plan[r]) : plan[r][i].op \in {"create", "modify"} =>
                 (plan[r][i].path \in Nested => subdir[preview[r].ws])
    BY <2>1 DEF PreviewInv, HasParent
  <2>3. /\ plan' = plan /\ preview'[r].strict = preview[r].strict
        /\ preview'[r].ws = preview[r].ws /\ (preview[r].stale => preview'[r].stale)
    <3>1. CASE \E strict \in BOOLEAN : StartRun(r, strict)
      BY <3>1 DEF StartRun
    <3> QED
      BY <1>2, <3>1, RequestFrame DEF Frame
  <2>4. ASSUME subdir[preview[r].ws], ~subdir'[preview[r].ws]
        PROVE  preview'[r].stale
    <3>1. Disturb(preview[r].ws, Nested, Nowhere)
      BY <2>2, <2>4, DirectoriesStay
    <3>2. preview'[r] = [preview[r] EXCEPT !.stale = TRUE]
      BY <3>1, BoundAssumption DEF Disturb
    <3>3. preview[r] \in [strict : BOOLEAN, ws : Workspaces \union {Nowhere}, stale : BOOLEAN]
      BY DEF TypeOK
    <3> QED
      BY <3>2, <3>3
  <2>5. CASE preview'[r].strict /\ ~preview'[r].stale
    BY <2>2, <2>3, <2>4, <2>5
  <2>6. CASE ~(preview'[r].strict /\ ~preview'[r].stale)
    BY <2>2, <2>3, <2>6
  <2> QED
    BY <2>5, <2>6
<1> QED
  BY <1>1, <1>2

-----------------------------------------------------------------------------
(* The job.                                                                  *)

LEMMA RunFrame ==
    ASSUME Inv, RunStep
    PROVE  \E F \in SUBSET WroteIn(job'.log) : Frame(job.req, F)
<1> USE DEF Inv
<1> DEFINE r == job.req
<1>1. job.kind = "run" /\ job.next <= Len(plan[r]) /\ r \in Requests
  BY RunLog, JobKinds DEF RunJob
<1>2. CASE ReplaceFile
  <2>1. job' = Advanced("success") /\ Step.op \in {"create", "modify"}
    BY <1>2, FileStep DEF ReplaceFile
  <2>2. IsAdvanced(job', "success")
    BY <1>1, <2>1, AdvancedLog
  <2>3. /\ job'.log = Append(job.log, Entry(Step, "success", "none"))
        /\ Entry(Step, "success", "none").step = Step
        /\ Entry(Step, "success", "none").status = "success"
        /\ job.log \in Seq(Entries) /\ Entry(Step, "success", "none") \in Entries
    BY <1>1, <2>2, StepOf, EntryType, BeforeStep DEF IsAdvanced
  <2>4. /\ Len(job.log) + 1 \in DOMAIN job'.log
        /\ job'.log[Len(job.log) + 1] = Entry(Step, "success", "none")
    BY <2>3
  <2>5. Step.path \in WroteIn(job'.log)
    BY <2>1, <2>3, <2>4 DEF WroteIn
  <2>6. Frame(r, {Step.path}) \/ Frame(r, {})
    <3>1. [Next]_vars
      BY <1>2 DEF Next, JobStep
    <3>2. \A strict \in BOOLEAN : ~DryRun(r, strict) /\ ~StartRun(r, strict)
      BY <1>1 DEF DryRun, StartRun, Idle
    <3> QED
      BY <1>1, <3>1, <3>2, RequestFrame
  <2> QED
    BY <2>5, <2>6
<1>3. CASE ~ReplaceFile
  <2>1. Frame(r, {})
    BY <1>3, QuietFrame DEF RunStep, SkipFile, RefuseFile, PrepareFile, FailWrite, RunCommand,
                            history
  <2> QED
    BY <2>1
<1> QED
  BY <1>2, <1>3

\* A step other than preparing a file lets go of the file, or is a command.
LEMMA HeldStep ==
    ASSUME TypeOK, JobInv, RunStep, ~PrepareFile
    PROVE  /\ job'.saved = job.saved /\ job'.next > job.next
           /\ job'.held = FALSE \/ (job'.held = job.held /\ Running({"run"}))
<1>1. /\ job.kind = "run" /\ job.next <= Len(plan[job.req])
      /\ job.next \in 1 .. Len(plan[job.req]) /\ Len(plan[job.req]) \in Nat
  BY RunLog, BeforeStep
<1>2. job.next + 1 > job.next /\ Len(plan[job.req]) + 1 > job.next
  BY <1>1
<1>3. CASE \E status \in {"success", "skipped"} : job' = Advanced(status)
  <2>1. PICK status \in {"success", "skipped"} : job' = Advanced(status)
    BY <1>3
  <2>2. IsAdvanced(job', status)
    BY <1>1, <2>1, AdvancedJob
  <2> QED
    BY <1>2, <2>2 DEF IsAdvanced
<1>4. CASE \E why \in {"parent", "other"} : job' = Stopped(why)
  <2>1. PICK why \in {"parent", "other"} : job' = Stopped(why)
    BY <1>4
  <2>2. IsStopped(job', why)
    BY <1>1, <2>1, StoppedJob
  <2> QED
    BY <1>2, <2>2 DEF IsStopped
<1>5. CASE RunCommand("failed")
  <2>1. job' = [job EXCEPT !.next = Len(plan[job.req]) + 1,
                           !.log = Append(@, Entry(Step, "failed", "other"))]
    BY <1>5 DEF RunCommand
  <2>2. job'.saved = job.saved /\ job'.held = job.held /\ job'.next = Len(plan[job.req]) + 1
    BY <1>1, <2>1, FailedCommandLog
  <2> QED
    BY <1>2, <1>5, <2>2 DEF RunCommand
<1> QED
  BY <1>3, <1>4, <1>5
  DEF RunStep, SkipFile, RefuseFile, ReplaceFile, FailWrite, RunCommand

LEMMA RunJobInv ==
    ASSUME Inv, RunStep
    PROVE  JobInv'
<1> USE DEF Inv
<1> DEFINE r == job.req
<1>1. /\ job.kind = "run" /\ job.next <= Len(plan[r]) /\ LogStep
      /\ job' \in RunJob /\ job'.req = r /\ job'.ws = job.ws /\ r \in Requests
      /\ job'.kind = "run"
  BY RunLog, JobKinds DEF LogStep, RunJob
<1>2. /\ result[r]["dry_run"] = "completed" /\ result[r]["real_run"] = "none" /\ ranIn[r] = job.ws
  BY <1>1 DEF JobInv, Recorded
<1>3. result' = result /\ plan' = plan /\ ranIn' = ranIn
  BY DEF RunStep, SkipFile, RefuseFile, PrepareFile, ReplaceFile, FailWrite, RunCommand,
         records, history, Disturb
<1>4. PICK F \in SUBSET WroteIn(job'.log) : Frame(r, F)
  BY RunFrame
<1>5. LogNext(r, job'.log)
  BY <1>1, <1>4, LogExtended
<1>6. ASSUME job'.held
      PROVE  /\ job'.next <= Len(plan'[r]) /\ plan'[r][job'.next].op \in {"create", "modify"}
             /\ plan'[r][job'.next].content \in Contents
  <2>1. CASE PrepareFile
    <3>1. IsPrepared
      BY <2>1, PreparedJob
    <3> QED
      BY <1>1, <1>3, <3>1 DEF IsPrepared, Step
  <2>2. CASE ~PrepareFile
    <3>1. job'.held = FALSE \/ (job'.held = job.held /\ Running({"run"}))
      BY <2>2, HeldStep
    <3>2. ~job.held \/ ~Running({"run"})
      BY <1>1 DEF JobInv, Running
    <3> QED
      BY <1>6, <3>1, <3>2
  <2> QED
    BY <2>1, <2>2
<1>7. job'.next <= Len(plan'[r]) => Len(job'.log) = job'.next - 1 /\ Failures(job'.log) = {}
  BY <1>1, <1>3 DEF LogStep
<1> QED
  BY <1>1, <1>2, <1>3, <1>5, <1>6, <1>7
  DEF JobInv, Recorded, Running, Step, LogOf, LogNext, Follows, Truthful, Foretold, Untouched

LEMMA JobStepInv ==
    ASSUME Inv, [Next]_vars
    PROVE  JobInv'
<1> USE DEF Inv
<1>1. CASE RunStep
  BY <1>1, RunJobInv
<1>2. CASE UndoStep
  <2>1. /\ job.kind = "undo" /\ job'.kind = "undo" /\ job'.req = job.req
    BY <1>2, UndoStepJob, UndoneJob
  <2>2. result' = result
    BY <1>2 DEF UndoStep, UndoNothing, UndoFails, UndoModify, UndoCreate, UndoWrite, records
  <2> QED
    BY <2>1, <2>2 DEF JobInv, Recorded
<1>3. CASE job' = Idle
  BY <1>3 DEF JobInv, Idle
<1>4. ASSUME NEW r \in Requests, NEW strict \in BOOLEAN, StartRun(r, strict)
      PROVE  JobInv'
  <2>1. /\ job'.kind = "run" /\ job'.req = r /\ job'.ws = current /\ job'.next = 1
        /\ job'.held = FALSE /\ job'.log = <<>>
        /\ result' = result /\ plan' = plan /\ disk' = disk
        /\ result[r]["dry_run"] = "completed" /\ result[r]["real_run"] = "none"
    BY <1>4 DEF StartRun, records
  <2>2. before'[r] = disk[current] /\ ranIn'[r] = current
    BY <1>4 DEF StartRun, TypeOK
  <2>3. Len(<<>>) = 0 /\ DOMAIN <<>> = {} /\ Len(plan[r]) \in Nat
    BY PlanOf
  <2>4. LogNext(r, <<>>)
    BY <2>1, <2>2, <2>3 DEF LogNext, StopsAtFailure, Failures
  <2>5. Len(<<>>) = 1 - 1 /\ Failures(<<>>) = {}
    BY <2>3 DEF Failures
  <2> QED
    BY <2>1, <2>2, <2>4, <2>5
    DEF JobInv, Recorded, LogOf, LogNext, Follows, Truthful, Foretold, Untouched
<1>5. ASSUME NEW r \in Requests, StartUndo(r)
      PROVE  JobInv'
  BY <1>5 DEF StartUndo, JobInv, Recorded, records
<1>6. CASE job = Idle /\ job' = job
  BY <1>3, <1>6
<1>7. CASE UserStep \/ UNCHANGED vars
  <2>1. UNCHANGED <<plan, job, result>>
    BY <1>7, UserChange DEF vars, records
  <2>2. CASE job.kind = "run"
    <3>1. job.req \in Requests /\ ranIn[job.req] \in Workspaces /\ LogOf(job.req, job.log)
      BY <2>2, JobKinds DEF JobInv, RunJob
    <3>2. Frame(job.req, {})
      <4>1. CASE UNCHANGED vars
        BY <4>1, QuietFrame DEF vars, history
      <4>2. CASE UserStep
        BY <3>1, <4>2, UserFrame
      <4> QED
        BY <1>7, <4>1, <4>2
    <3>3. LogNext(job.req, job.log)
      BY <3>1, <3>2, LogKept
    <3>4. ranIn'[job.req] = ranIn[job.req]
      BY <3>2 DEF Frame
    <3> QED
      BY <2>1, <2>2, <3>3, <3>4
      DEF JobInv, Recorded, Running, Step, LogOf, LogNext, Follows, Truthful, Foretold, Untouched
  <2>3. CASE job.kind # "run"
    BY <2>1, <2>3 DEF JobInv, Recorded
  <2> QED
    BY <2>2, <2>3
<1> QED
  BY <1>1, <1>2, <1>3, <1>4, <1>5, <1>6, <1>7
  DEF Next, Call, JobStep, Environment, RunStep, UndoStep, UserStep, DryRun, CommitRun, LoseRun,
      CommitUndo, Crash, Repoint

-----------------------------------------------------------------------------
(* The invariant, and what follows from it.                                  *)

LEMMA InitInv == Init => Inv
<1> SUFFICES ASSUME Init PROVE Inv
  OBVIOUS
<1>1. /\ <<>> \in Seq(Entries) /\ DOMAIN <<>> = {}
      /\ job.kind = "idle"
  BY DEF Init, Idle
<1>2. \A w \in Workspaces : disk[w] \in Trees
  BY DEF Init, Trees, Files
<1>3. disk \in [Workspaces -> Trees] /\ current \in Workspaces
  BY <1>2 DEF Init
<1>4. before \in [Requests -> Trees] /\ original \in [Requests -> Trees]
  BY <1>2, <1>3 DEF Init
<1>5. \A r \in Requests : /\ result[r] = [m \in Modes |-> "none"]
                          /\ fileLog[r] = <<>> /\ backups[r] = {}
  BY DEF Init
<1>6. MaxCommands \in Nat /\ 0 \in 0 .. MaxCrashes /\ 0 \in 0 .. MaxEdits /\ 0 \in 0 .. MaxMoves
      /\ 0 \in 0 .. MaxCommands
  BY BoundAssumption
<1>7. preview \in [Requests -> [strict : BOOLEAN, ws : Workspaces \union {Nowhere},
                                stale : BOOLEAN]]
  BY DEF Init
<1>8. TypeOK
  BY <1>1, <1>3, <1>4, <1>6, <1>7 DEF Init, TypeOK
<1>9. JobInv
  BY <1>1 DEF JobInv
<1>10. \A r \in Requests : \A m \in Modes : result[r][m] = "none"
  BY <1>5
<1>11. RowInv /\ PreviewInv
  BY <1>5, <1>10 DEF RowInv, PreviewInv, Recorded, Modes
<1> QED
  BY <1>8, <1>9, <1>11 DEF Inv

LEMMA InvHolds == Spec => []Inv
<1>1. Inv /\ [Next]_vars => Inv'
  <2> SUFFICES ASSUME Inv, [Next]_vars PROVE Inv'
    OBVIOUS
  <2>1. TypeOK'
    BY TypeStep DEF Inv
  <2> QED
    BY <2>1, JobStepInv, RowInvStep, PreviewStep DEF Inv
<1> QED
  BY InitInv, <1>1, PTL DEF Spec

\* Runs, rollbacks and everything others do keep the state well-typed.
THEOREM TypeCorrect == Spec => []TypeOK
<1>1. Inv => TypeOK
  BY DEF Inv
<1> QED
  BY InvHolds, <1>1, PTL

LEMMA LogInDatabase ==
    ASSUME Inv, NEW r \in Requests
    PROVE  /\ Recorded(r) => LogOf(r, fileLog[r])
           /\ fileLog[r] # <<>> => Recorded(r)
           /\ DOMAIN fileLog[r] = 1 .. Len(fileLog[r])
<1>1. fileLog[r] \in Seq(Entries)
  BY DEF Inv, TypeOK
<1> QED
  BY <1>1 DEF Inv, RowInv

\* A recorded run has nothing but skipped steps after its first failure: no
\* command runs and no file is written once a file or command has failed.
THEOREM RunsFailFast == Spec => []FailFast
<1>1. Inv => FailFast
  <2> SUFFICES ASSUME Inv, NEW r \in Requests PROVE StopsAtFailure(fileLog[r])
    BY DEF FailFast, StopsAtFailure
  <2>1. CASE fileLog[r] = <<>>
    BY <2>1 DEF StopsAtFailure, Failures
  <2>2. CASE fileLog[r] # <<>>
    BY <2>2, LogInDatabase DEF LogOf
  <2> QED
    BY <2>1, <2>2
<1> QED
  BY InvHolds, <1>1, PTL

\* However often a crash interrupted a run, whoever else wrote, and wherever
\* the run stopped: a file that nobody else touched and the log does not report
\* as written is as the run found it.
THEOREM LogsAreTrue == Spec => []LogTellsTruth
<1>1. Inv => LogTellsTruth
  <2> SUFFICES ASSUME Inv, NEW r \in Requests, Recorded(r),
                      NEW f \in Untouched(r) \ {fileLog[r][i].step.path :
                                                   i \in Written(r, {"create", "modify"})}
               PROVE  disk[ranIn[r]][f] = before[r][f]
    BY DEF LogTellsTruth
  <2>1. f \in Untouched(r) \ WroteIn(fileLog[r])
    BY DEF Written, WroteIn
  <2> QED
    BY <2>1, LogInDatabase DEF LogOf, Truthful
<1> QED
  BY InvHolds, <1>1, PTL

\* A parent directory that is missing when the file comes up was missing in the
\* dry run, or the dry run could not know.
THEOREM PreviewsAreFaithful == Spec => []PreviewFaithful
<1>1. Inv => PreviewFaithful
  <2> SUFFICES ASSUME Inv, NEW r \in Requests,
                      NEW i \in DOMAIN fileLog[r], fileLog[r][i].why = "parent"
               PROVE  ~preview[r].strict \/ preview[r].stale \/ preview[r].ws # ranIn[r]
    BY DEF PreviewFaithful
  <2>1. fileLog[r] # <<>>
    OBVIOUS
  <2> QED
    BY <2>1, LogInDatabase DEF LogOf, Foretold
<1> QED
  BY InvHolds, <1>1, PTL

\* Cut into steps, interrupted by crashes and posted twice, runs and rollbacks
\* still write the rows of ResultLedger one at a time and in its order.
THEOREM JobsKeepLedger == Spec => LedgerSpec
<1>1. Init => Ledger!LedgerInit
  BY DEF Init, Ledger!LedgerInit, Ledger!Modes, Modes
<1>2. Inv /\ [Next]_vars => [Ledger!LedgerNext]_result
  <2> SUFFICES ASSUME Inv, [Next]_vars, result' # result
               PROVE  \E r \in Requests, m \in Modes, outcome \in {"completed", "failed"} :
                         /\ result[r][m] = "none"
                         /\ \/ m = "dry_run"
                            \/ m = "real_run" /\ result[r]["dry_run"] = "completed"
                            \/ m = "rollback" /\ result[r]["real_run"] # "none"
                         /\ result' = [result EXCEPT ![r][m] = outcome]
    BY DEF Ledger!LedgerNext, Ledger!Record, Ledger!Preceded, Ledger!Modes, Ledger!Outcomes, Modes
  <2>1. CASE UNCHANGED records
    BY <2>1 DEF records
  <2>2. ASSUME NEW q \in Requests, NEW strict \in BOOLEAN, DryRun(q, strict)
        PROVE  \E s \in {"completed", "failed"} :
                  result[q]["dry_run"] = "none" /\ result' = [result EXCEPT ![q]["dry_run"] = s]
    BY <2>2 DEF DryRun
  <2>3. CASE CommitRun
    <3>1. \E s \in {"completed", "failed"} : result' = [result EXCEPT ![job.req]["real_run"] = s]
      BY <2>3 DEF CommitRun
    <3>2. /\ job.req \in Requests /\ result[job.req]["real_run"] = "none"
          /\ result[job.req]["dry_run"] = "completed"
      BY <2>3, JobKinds DEF CommitRun, AtCommit, RunJob, Inv, JobInv, Recorded
    <3> QED
      BY <3>1, <3>2 DEF Modes
  <2>4. CASE CommitUndo
    <3>1. \E s \in {"completed", "failed"} : result' = [result EXCEPT ![job.req]["rollback"] = s]
      BY <2>4 DEF CommitUndo
    <3>2. /\ job.req \in Requests /\ result[job.req]["rollback"] = "none"
          /\ result[job.req]["real_run"] # "none"
      BY <2>4, JobKinds DEF CommitUndo, UndoJob, Inv, JobInv, Recorded
    <3> QED
      BY <3>1, <3>2 DEF Modes
  <2> QED
    BY <2>1, <2>2, <2>3, <2>4, CommitCases DEF Modes
<1> QED
  BY InvHolds, <1>1, <1>2, PTL DEF Spec, LedgerSpec, Ledger!LedgerSpec

-----------------------------------------------------------------------------
(* Backups, where no plan names a file twice.                                *)

\* The Builder's schema does not ask for it; without it a file can be created
\* and then modified, and its backup is not what the run found.
DistinctPaths ==
    \A p \in PlanSet : \A i, j \in 1 .. Len(p) :
        i # j /\ p[i].op \in {"create", "modify"} /\ p[j].op \in {"create", "modify"}
            => p[i].path # p[j].path

\* A backup is of what r's run found, unless someone else touched the file.
Kept(r, b) ==
    /\ b.hash \in Contents \ NotText /\ b.content = Decoded[b.hash]
    /\ b.path \in Untouched(r) => b.hash = before[r][b.path]

NewlyMade(r, f) == f \in Untouched(r) => before[r][f] = Absent

\* Every file the log reports as written can be put back from the backups B.
BackedUp(r, log, B) ==
    /\ \A b \in B : Kept(r, b)
    /\ \A i \in 1 .. Len(log) : log[i].status = "success" =>
         /\ log[i].step.op = "modify" => \E b \in B : b.path = log[i].step.path
         /\ log[i].step.op = "create" => NewlyMade(r, log[i].step.path)

BackupInv ==
    /\ job.kind = "run" =>
         /\ BackedUp(job.req, job.log, ToSet(job.saved))
         /\ job.held =>
              /\ Step.op = "modify" => \E b \in ToSet(job.saved) : b.path = Step.path
              /\ Step.op = "create" => NewlyMade(job.req, Step.path)
    /\ \A r \in Requests : Recorded(r) => BackedUp(r, fileLog[r], backups[r])

\* BackedUp in the next state, for constant log and backups.
KeptNext(r, b) ==
    /\ b.hash \in Contents \ NotText /\ b.content = Decoded[b.hash]
    /\ b.path \in Paths \ touched'[r] => b.hash = before'[r][b.path]

NewlyMadeNext(r, f) == f \in Paths \ touched'[r] => before'[r][f] = Absent

BackedUpNext(r, log, B) ==
    /\ \A b \in B : KeptNext(r, b)
    /\ \A i \in 1 .. Len(log) : log[i].status = "success" =>
         /\ log[i].step.op = "modify" => \E b \in B : b.path = log[i].step.path
         /\ log[i].step.op = "create" => NewlyMadeNext(r, log[i].step.path)

LEMMA BackedUpKept ==
    ASSUME NEW r, NEW F, Frame(r, F), NEW log, NEW B, BackedUp(r, log, B)
    PROVE  BackedUpNext(r, log, B)
  BY DEF Frame, BackedUp, BackedUpNext, Kept, KeptNext, NewlyMade, NewlyMadeNext, Untouched

LEMMA SavedSet ==
    ASSUME NEW s \in Seq(Backups), NEW b \in Backups
    PROVE  ToSet(Append(s, b)) = ToSet(s) \union {b}
<1>1. /\ DOMAIN s = 1 .. Len(s) /\ Len(s) \in Nat
      /\ DOMAIN Append(s, b) = 1 .. Len(s) + 1
      /\ Append(s, b)[Len(s) + 1] = b
      /\ \A i \in 1 .. Len(s) : Append(s, b)[i] = s[i]
  OBVIOUS
<1>2. \A i \in 1 .. Len(s) + 1 : i \in 1 .. Len(s) \/ i = Len(s) + 1
  BY <1>1
<1>3. \A i \in 1 .. Len(s) : i \in 1 .. Len(s) + 1
  BY <1>1
<1>4. Len(s) + 1 \in 1 .. Len(s) + 1
  BY <1>1
<1> QED
  BY <1>1, <1>2, <1>3, <1>4 DEF ToSet

\* The step a run is about to take names no file its log names.
LEMMA NotWrittenYet ==
    ASSUME DistinctPaths, TypeOK, JobInv, Running({"create", "modify"})
    PROVE  Step.path \notin WroteIn(job.log)
<1>1. job.kind = "run" /\ job.next <= Len(plan[job.req]) /\ job.req \in Requests
      /\ Step.op \in {"create", "modify"}
  BY JobKinds DEF Running, RunJob, Step
<1>2. /\ job.log \in Seq(Entries) /\ job.next \in 1 .. Len(plan[job.req])
      /\ Len(job.log) = job.next - 1 /\ Len(plan[job.req]) \in Nat
      /\ \A i \in 1 .. Len(job.log) : job.log[i].step = plan[job.req][i]
      /\ Step = plan[job.req][job.next]
  BY <1>1, BeforeStep
<1>3. ASSUME NEW i \in DOMAIN job.log, job.log[i].step.op \in {"create", "modify"}
      PROVE  job.log[i].step.path # Step.path
  <2>1. i \in 1 .. Len(plan[job.req]) /\ i # job.next /\ job.log[i].step = plan[job.req][i]
    BY <1>2
  <2>2. plan[job.req] \in PlanSet
    BY <1>1 DEF TypeOK
  <2> QED
    BY <1>1, <1>2, <1>3, <2>1, <2>2 DEF DistinctPaths
<1> QED
  BY <1>3 DEF WroteIn

\* Only a replaced file is a new success that a rollback has to undo.
LEMMA NewWrites ==
    ASSUME TypeOK, JobInv, RunStep, NEW i \in Len(job.log) + 1 .. Len(job'.log),
           job'.log[i].status = "success", job'.log[i].step.op \in {"create", "modify"}
    PROVE  ReplaceFile /\ job'.log[i].step = Step
<1>1. job.kind = "run" /\ job.next <= Len(plan[job.req]) /\ job.log \in Seq(Entries)
      /\ Len(job.log) \in Nat /\ Step \in Steps
  BY RunLog, JobKinds, StepOf DEF RunJob
<1>2. ASSUME NEW status \in {"success", "skipped"}, job' = Advanced(status)
      PROVE  status = "success" /\ job'.log[i].step = Step
  <2>1. IsAdvanced(job', status)
    BY <1>1, <1>2, AdvancedJob
  <2>2. /\ Entry(Step, status, "none") \in Entries
        /\ Entry(Step, status, "none").status = status /\ Entry(Step, status, "none").step = Step
    BY <1>1, EntryType
  <2>3. job'.log = Append(job.log, Entry(Step, status, "none"))
    BY <2>1 DEF IsAdvanced
  <2> DEFINE e == Entry(Step, status, "none")
  <2> HIDE DEF e
  <2>4. /\ Len(Append(job.log, e)) = Len(job.log) + 1
        /\ Append(job.log, e)[Len(job.log) + 1] = e
    BY <1>1, <2>2 DEF e
  <2>5. i = Len(job.log) + 1 /\ job'.log[i] = e
    BY <1>1, <2>3, <2>4 DEF e
  <2> QED
    BY <2>2, <2>5 DEF e
<1>3. ASSUME NEW why \in {"parent", "other"}, job' = Stopped(why)
      PROVE  FALSE
  <2>1. IsStopped(job', why)
    BY <1>1, <1>3, StoppedJob
  <2>2. /\ job'.log[Len(job.log) + 1] = Entry(Step, "failed", why)
        /\ Len(job'.log) = Len(job.log) + 1 + (Len(plan[job.req]) - job.next)
        /\ \A k \in Len(job.log) + 2 .. Len(job'.log) :
              job'.log[k] = Entry(plan[job.req][job.next + (k - Len(job.log) - 1)],
                                  "skipped", "none")
    BY <2>1 DEF IsStopped
  <2>3. i = Len(job.log) + 1 \/ i \in Len(job.log) + 2 .. Len(job'.log)
    BY <1>1
  <2>4. \A x, y, z : Entry(x, y, z).status = y
    BY DEF Entry
  <2>5. CASE i = Len(job.log) + 1
    BY <2>2, <2>4, <2>5
  <2>6. CASE i \in Len(job.log) + 2 .. Len(job'.log)
    BY <2>2, <2>4, <2>6
  <2> QED
    BY <2>3, <2>5, <2>6
<1>4. ASSUME RunCommand("failed")
      PROVE  FALSE
  <2>1. job' = [job EXCEPT !.next = Len(plan[job.req]) + 1,
                           !.log = Append(@, Entry(Step, "failed", "other"))]
    BY <1>4 DEF RunCommand
  <2>2. job \in RunJob
    BY <1>1, JobKinds
  <2>3. job'.log = Append(job.log, Entry(Step, "failed", "other"))
    BY <2>1, <2>2 DEF RunJob
  <2>4. Entry(Step, "failed", "other") \in Entries /\ Entry(Step, "failed", "other").status = "failed"
    BY <1>1, EntryType
  <2>5. job'.log[i] = Entry(Step, "failed", "other")
    BY <1>1, <2>3, <2>4
  <2> QED
    BY <2>4, <2>5
<1>5. ASSUME PrepareFile
      PROVE  FALSE
  <2>1. IsPrepared
    BY <1>5, PreparedJob
  <2> QED
    BY <1>1, <2>1 DEF IsPrepared
<1>6. ~SkipFile
  BY <1>2 DEF SkipFile
<1>7. ~RunCommand("success")
  BY <1>2 DEF RunCommand, Running, Step
<1>8. ~RefuseFile /\ ~FailWrite
  BY <1>3 DEF RefuseFile, FailWrite
<1>9. ReplaceFile
  BY <1>4, <1>5, <1>6, <1>7, <1>8 DEF RunStep
<1> QED
  BY <1>2, <1>9 DEF ReplaceFile

LEMMA BackupRun ==
    ASSUME DistinctPaths, Inv, BackupInv, RunStep
    PROVE  /\ BackedUpNext(job.req, job'.log, ToSet(job'.saved))
           /\ job'.held =>
                /\ Step.op = "modify" => \E b \in ToSet(job'.saved) : b.path = Step.path
                /\ Step.op = "create" => NewlyMadeNext(job.req, Step.path)
<1> USE DEF Inv
<1> DEFINE r == job.req
           n == Len(job.log)
<1>1. /\ job.kind = "run" /\ job.next <= Len(plan[r]) /\ LogStep
      /\ job \in RunJob /\ job' \in RunJob /\ r \in Requests
      /\ n \in Nat /\ Len(job'.log) \in Nat /\ n <= Len(job'.log)
      /\ \A i \in 1 .. n : job'.log[i] = job.log[i]
  BY RunLog, JobKinds DEF LogStep, RunJob
<1>2. PICK F \in SUBSET WroteIn(job'.log) : Frame(r, F)
  BY RunFrame
<1>3. BackedUp(r, job.log, ToSet(job.saved))
  BY <1>1 DEF BackupInv
<1>4. BackedUpNext(r, job.log, ToSet(job.saved))
  BY <1>2, <1>3, BackedUpKept
<1>5. CASE PrepareFile
  <2>1. IsPrepared /\ ~Refused /\ Running({"create", "modify"})
    BY <1>5, PreparedJob DEF PrepareFile
  <2> DEFINE f == Step.path
             now == disk[job.ws][f]
             copy == [path |-> f, content |-> Decoded[now], hash |-> now]
  <2>2. /\ job'.log = job.log /\ f \in Paths
        /\ Step.op = "create" => now = Absent /\ job'.saved = job.saved
        /\ Step.op = "modify" => copy \in Backups /\ job'.saved = Append(job.saved, copy)
        /\ Step.op \in {"create", "modify"}
    BY <2>1 DEF IsPrepared
  <2>3. f \in Untouched(r) => now = before[r][f]
    <3>1. f \notin WroteIn(job.log)
      BY <2>1, NotWrittenYet
    <3>2. Truthful(r, job.log) /\ ranIn[r] = job.ws
      BY <1>1 DEF JobInv, LogOf
    <3> QED
      BY <3>1, <3>2 DEF Truthful
  <2>4. f \in Paths \ touched'[r] => now = before'[r][f]
    BY <1>2, <2>3 DEF Frame, Untouched
  <2>5. CASE Step.op = "create"
    <3>1. NewlyMadeNext(r, f)
      BY <2>2, <2>4, <2>5 DEF NewlyMadeNext
    <3> QED
      BY <1>4, <2>2, <2>5, <3>1
  <2>6. CASE Step.op = "modify"
    <3>1. ToSet(job'.saved) = ToSet(job.saved) \union {copy}
      BY <1>1, <2>2, <2>6, SavedSet DEF RunJob
    <3>2. now \in Contents \ NotText
      <4>1. now \in Files
        BY <1>1, <2>2 DEF TypeOK, Trees, RunJob
      <4> QED
        BY <2>1, <2>6, <4>1 DEF Refused, Files
    <3>3. copy.path = f /\ copy.hash = now /\ copy.content = Decoded[now]
      OBVIOUS
    <3> HIDE DEF copy, now, f
    <3>4. KeptNext(r, copy)
      BY <2>4, <3>2, <3>3 DEF KeptNext
    <3>5. BackedUpNext(r, job.log, ToSet(job'.saved))
      BY <1>4, <3>1, <3>4 DEF BackedUpNext
    <3>6. \E b \in ToSet(job'.saved) : b.path = f
      BY <3>1, <3>3
    <3> QED
      BY <2>2, <2>6, <3>5, <3>6 DEF f
  <2> QED
    BY <2>2, <2>5, <2>6
<1>6. CASE ~PrepareFile
  <2>1. job'.saved = job.saved
    BY <1>6, HeldStep
  <2>2. ~job'.held
    BY <1>1, <1>6, HeldStep DEF JobInv, Running
  <2>3. ASSUME NEW i \in 1 .. Len(job'.log), job'.log[i].status = "success"
        PROVE  /\ job'.log[i].step.op = "modify" =>
                     \E b \in ToSet(job.saved) : b.path = job'.log[i].step.path
               /\ job'.log[i].step.op = "create" => NewlyMadeNext(r, job'.log[i].step.path)
    <3>1. i \in 1 .. n \/ i \in n + 1 .. Len(job'.log)
      BY <1>1
    <3>2. CASE i \in 1 .. n
      BY <1>1, <1>4, <2>3, <3>2 DEF BackedUpNext
    <3>3. CASE i \in n + 1 .. Len(job'.log) /\ job'.log[i].step.op \in {"create", "modify"}
      <4>1. ReplaceFile /\ job'.log[i].step = Step
        BY <2>3, <3>3, NewWrites
      <4>2. job.held = TRUE
        BY <1>1, <4>1 DEF ReplaceFile, RunJob
      <4>3. /\ Step.op = "modify" => \E b \in ToSet(job.saved) : b.path = Step.path
            /\ Step.op = "create" => NewlyMade(r, Step.path)
        BY <1>1, <4>2 DEF BackupInv
      <4>4. Step.op = "create" => NewlyMadeNext(r, Step.path)
        BY <1>2, <4>3 DEF NewlyMade, NewlyMadeNext, Frame, Untouched
      <4> QED
        BY <4>1, <4>3, <4>4
    <3> QED
      BY <3>1, <3>2, <3>3
  <2>4. BackedUpNext(r, job'.log, ToSet(job'.saved))
    BY <1>4, <2>1, <2>3 DEF BackedUpNext
  <2> QED
    BY <2>2, <2>4
<1> QED
  BY <1>5, <1>6

LEMMA BackupStep ==
    ASSUME DistinctPaths, Inv, BackupInv, [Next]_vars
    PROVE  BackupInv'
<1> USE DEF Inv
<1> DEFINE JobPart ==
             job'.kind = "run" =>
               /\ BackedUpNext(job'.req, job'.log, ToSet(job'.saved))
               /\ job'.held =>
                    /\ plan'[job'.req][job'.next].op = "modify" =>
                         \E b \in ToSet(job'.saved) : b.path = plan'[job'.req][job'.next].path
                    /\ plan'[job'.req][job'.next].op = "create" =>
                         NewlyMadeNext(job'.req, plan'[job'.req][job'.next].path)
           RowPart == \A r \in Requests :
                        result'[r]["real_run"] # "none" => BackedUpNext(r, fileLog'[r], backups'[r])
<1> SUFFICES JobPart /\ RowPart
  BY DEF BackupInv, BackedUp, BackedUpNext, Kept, KeptNext, NewlyMade, NewlyMadeNext, Untouched,
         Recorded, Step
<1>1. JobPart
  <2>1. CASE RunStep
    <3>1. job'.req = job.req /\ plan' = plan
      BY <2>1, RunLog, RunFrame DEF LogStep, Frame
    <3>2. job'.held => job'.next = job.next
      <4>1. CASE PrepareFile
        BY <4>1, PreparedJob DEF IsPrepared
      <4>2. CASE ~PrepareFile
        BY <2>1, <4>2, HeldStep, RunLog DEF JobInv, Running
      <4> QED
        BY <4>1, <4>2
    <3> QED
      BY <2>1, <3>1, <3>2, BackupRun DEF Step
  <2>2. CASE UndoStep
    <3>1. job'.kind = "undo"
      BY <2>2, UndoStepJob, UndoneJob
    <3> QED
      BY <3>1
  <2>3. CASE job' = Idle
    BY <2>3 DEF Idle
  <2>4. ASSUME NEW r \in Requests, NEW strict \in BOOLEAN, StartRun(r, strict)
        PROVE  JobPart
    <3>1. job'.req = r /\ job'.held = FALSE /\ job'.log = <<>> /\ job'.saved = <<>>
      BY <2>4 DEF StartRun
    <3>2. ToSet(<<>>) = {} /\ Len(<<>>) = 0
      BY DEF ToSet
    <3>3. BackedUpNext(r, <<>>, ToSet(<<>>))
      BY <3>2 DEF BackedUpNext
    <3> QED
      BY <3>1, <3>3
  <2>5. ASSUME NEW r \in Requests, StartUndo(r)
        PROVE  JobPart
    BY <2>5 DEF StartUndo
  <2>6. CASE job = Idle /\ job' = job
    BY <2>3, <2>6
  <2>7. CASE UserStep \/ UNCHANGED vars
    <3>1. UNCHANGED <<plan, job>>
      BY <2>7, UserChange DEF vars
    <3>2. CASE job.kind = "run"
      <4>1. job.req \in Requests
        BY <3>2, JobKinds DEF RunJob
      <4>2. Frame(job.req, {})
        <5>1. CASE UNCHANGED vars
          BY <5>1, QuietFrame DEF vars, history
        <5>2. CASE UserStep
          BY <4>1, <5>2, UserFrame
        <5> QED
          BY <2>7, <5>1, <5>2
      <4>3. BackedUpNext(job.req, job.log, ToSet(job.saved))
        BY <3>2, <4>2, BackedUpKept DEF BackupInv
      <4>4. job.held =>
              /\ Step.op = "modify" => \E b \in ToSet(job.saved) : b.path = Step.path
              /\ Step.op = "create" => NewlyMadeNext(job.req, Step.path)
        BY <3>2, <4>2 DEF BackupInv, NewlyMade, NewlyMadeNext, Frame, Untouched
      <4> QED
        BY <3>1, <4>3, <4>4 DEF Step
    <3>3. CASE job.kind # "run"
      BY <3>1, <3>3
    <3> QED
      BY <3>2, <3>3
  <2> QED
    BY <2>1, <2>2, <2>3, <2>4, <2>5, <2>6, <2>7
    DEF Next, Call, JobStep, Environment, RunStep, UndoStep, UserStep, DryRun, CommitRun, LoseRun,
        CommitUndo, Crash, Repoint
<1>2. RowPart
  <2> SUFFICES ASSUME NEW r \in Requests, result'[r]["real_run"] # "none"
               PROVE  BackedUpNext(r, fileLog'[r], backups'[r])
    OBVIOUS
  <2>1. CASE Recorded(r)
    <3>1. fileLog'[r] = fileLog[r] /\ backups'[r] = backups[r]
      BY <2>1, RecordKept
    <3>2. \A strict \in BOOLEAN : ~DryRun(r, strict) /\ ~StartRun(r, strict)
      BY <2>1 DEF DryRun, StartRun, RowInv, Recorded
    <3>3. PICK F : Frame(r, F)
      BY <3>2, RequestFrame
    <3> QED
      BY <2>1, <3>1, <3>3, BackedUpKept DEF BackupInv
  <2>2. CASE ~Recorded(r)
    <3>1. /\ CommitRun /\ job.req = r
          /\ fileLog'[r] = job.log /\ backups'[r] = ToSet(job.saved)
      <4>1. CASE UNCHANGED records
        BY <2>2, <4>1 DEF records, Recorded
      <4>2. CASE \E q \in Requests, strict \in BOOLEAN :
                    DryRun(q, strict) /\ Wrote(q, "dry_run") /\ UNCHANGED <<fileLog, backups>>
        BY <2>2, <4>2 DEF Wrote, Modes, Recorded
      <4>3. CASE /\ CommitRun /\ job.req \in Requests /\ Wrote(job.req, "real_run")
                 /\ fileLog' = [fileLog EXCEPT ![job.req] = job.log]
                 /\ backups' = [backups EXCEPT ![job.req] = ToSet(job.saved)]
        BY <2>2, <4>3 DEF Wrote, Recorded, TypeOK
      <4>4. CASE /\ CommitUndo /\ job.req \in Requests /\ Wrote(job.req, "rollback")
                 /\ UNCHANGED <<fileLog, backups>>
        BY <2>2, <4>4 DEF Wrote, Modes, Recorded
      <4> QED
        BY <4>1, <4>2, <4>3, <4>4, CommitCases
    <3>2. BackedUp(r, job.log, ToSet(job.saved))
      BY <3>1 DEF BackupInv, CommitRun, AtCommit
    <3>3. Frame(r, {})
      BY <3>1, QuietFrame DEF CommitRun, history
    <3> QED
      BY <3>1, <3>2, <3>3, BackedUpKept
  <2> QED
    BY <2>1, <2>2
<1> QED
  BY <1>1, <1>2

LEMMA BackupHolds == DistinctPaths => (Spec => [](Inv /\ BackupInv))
<1> SUFFICES ASSUME DistinctPaths PROVE Spec => [](Inv /\ BackupInv)
  OBVIOUS
<1>1. Init => BackupInv
  <2> SUFFICES ASSUME Init PROVE BackupInv
    OBVIOUS
  <2>1. job.kind = "idle" /\ \A r \in Requests : ~Recorded(r)
    BY DEF Init, Idle, Recorded, Modes
  <2> QED
    BY <2>1 DEF BackupInv
<1>2. Inv /\ BackupInv /\ [Next]_vars => BackupInv'
  BY BackupStep
<1> QED
  BY InvHolds, <1>1, <1>2, PTL DEF Spec

\* Where no plan names a file twice, every overwritten file of a recorded run
\* has the backup its rollback needs, and that is what the run found.
THEOREM BackupsAreComplete == DistinctPaths => (Spec => []BackupsMatchLog)
<1> SUFFICES ASSUME DistinctPaths PROVE Spec => []BackupsMatchLog
  OBVIOUS
<1>1. Inv /\ BackupInv => BackupsMatchLog
  <2> SUFFICES ASSUME Inv, BackupInv, NEW r \in Requests
               PROVE  /\ backups[r] # {} => Recorded(r)
                      /\ \A i \in Written(r, {"modify"}) : \E b \in backups[r] :
                            LET f == fileLog[r][i].step.path IN
                            b.path = f /\ (f \in Untouched(r) => b.hash = before[r][f])
    BY DEF BackupsMatchLog
  <2>1. backups[r] # {} => Recorded(r)
    BY DEF Inv, RowInv
  <2>2. ASSUME NEW i \in Written(r, {"modify"})
        PROVE  \E b \in backups[r] :
                  LET f == fileLog[r][i].step.path IN
                  b.path = f /\ (f \in Untouched(r) => b.hash = before[r][f])
    <3>1. /\ i \in 1 .. Len(fileLog[r]) /\ fileLog[r] # <<>>
          /\ fileLog[r][i].status = "success" /\ fileLog[r][i].step.op = "modify"
      BY LogInDatabase DEF Written
    <3>2. BackedUp(r, fileLog[r], backups[r])
      BY <3>1, LogInDatabase DEF BackupInv
    <3>3. PICK b \in backups[r] : b.path = fileLog[r][i].step.path
      BY <3>1, <3>2 DEF BackedUp
    <3> QED
      BY <3>2, <3>3 DEF BackedUp, Kept
  <2> QED
    BY <2>1, <2>2
<1> QED
  BY BackupHolds, <1>1, PTL

-----------------------------------------------------------------------------
(* The rollback, in the workspace the run wrote to.                          *)

Restored(r, f) == f \in Untouched(r) => PutBack(disk[ranIn[r]][f], before[r][f])

\* What a rollback that met no failure so far has put back, if it runs where
\* the run did.
UndoneSoFar ==
    job.kind = "undo" /\ job.log = <<>> /\ job.ws = ranIn[job.req] =>
      \A i \in 1 .. Len(fileLog[job.req]) :
          /\ i < job.next
          /\ fileLog[job.req][i].status = "success"
          /\ fileLog[job.req][i].step.op \in {"create", "modify"}
          => Restored(job.req, fileLog[job.req][i].step.path)

\* A step that starts nothing for r and writes no file of r leaves what is
\* restored so.
LEMMA RestoredKept ==
    ASSUME NEW r \in Requests, Frame(r, {}), ranIn[r] \in Workspaces, NEW f \in Paths, Restored(r, f)
    PROVE  f \in Paths \ touched'[r] => PutBack(disk'[ranIn'[r]][f], before'[r][f])
<1> SUFFICES ASSUME f \in Paths \ touched'[r]
             PROVE  PutBack(disk'[ranIn'[r]][f], before'[r][f])
  OBVIOUS
<1>1. f \in Untouched(r)
  BY DEF Frame, Untouched
<1>2. disk'[ranIn'[r]][f] = disk[ranIn[r]][f] /\ before'[r] = before[r]
  BY DEF Frame
<1> QED
  BY <1>1, <1>2 DEF Restored

\* An undo step that writes puts the file back.
LEMMA UndoneRestored ==
    ASSUME DistinctPaths, Inv, BackupInv, job.ws = ranIn[job.req], UndoModify \/ UndoCreate
    PROVE  LET f == Undone.step.path
               r == job.req
           IN  f \in Paths \ touched'[r] => PutBack(disk'[ranIn'[r]][f], before'[r][f])
<1> DEFINE f == Undone.step.path
           r == job.req
<1> SUFFICES ASSUME f \in Paths \ touched'[r]
             PROVE  PutBack(disk'[ranIn'[r]][f], before'[r][f])
  OBVIOUS
<1> USE DEF Inv
<1>1. /\ job.kind = "undo" /\ job.next \in 1 .. Len(fileLog[r]) /\ r \in Requests
      /\ job.ws \in Workspaces /\ job # Idle
  BY UndoStepJob, UndoneEntry DEF UndoStep, Idle
<1>2. Recorded(r) /\ ranIn[r] \in Workspaces
  BY <1>1 DEF JobInv, RowInv
<1>3. ranIn[r] = job.ws
  OBVIOUS
<1>4. BackedUp(r, fileLog[r], backups[r])
  BY <1>1, <1>2 DEF BackupInv
<1>5. before' = before /\ ranIn' = ranIn /\ touched'[r] = touched[r] /\ f \in Untouched(r)
  <2>1. \E c : UndoWrite(f, c)
    BY UndoneWrite
  <2> QED
    BY <1>1, <2>1 DEF UndoWrite, Disturb, Untouched
<1>6. CASE UndoCreate
  <2>1. UndoWrite(f, Absent) /\ Undone.status = "success" /\ Undone.step.op = "create"
    BY <1>6 DEF UndoCreate, Undoing
  <2>2. before[r][f] = Absent
    BY <1>1, <1>4, <1>5, <2>1 DEF BackedUp, NewlyMade, Undone
  <2>3. disk' = [disk EXCEPT ![job.ws][f] = Absent] /\ f \in Paths
    BY <2>1 DEF UndoWrite
  <2>4. disk'[job.ws][f] = Absent
    BY <1>1, <2>3 DEF TypeOK, Trees
  <2> QED
    BY <1>3, <1>5, <2>2, <2>4 DEF PutBack
<1>7. CASE UndoModify
  <2>1. PICK b \in backups[r] : b.path = f /\ UndoWrite(b.path, Decoded[b.content])
    BY <1>7 DEF UndoModify
  <2>2. b.hash \in Contents \ NotText /\ b.content = Decoded[b.hash] /\ b.hash = before[r][f]
    BY <1>4, <1>5, <2>1 DEF BackedUp, Kept
  <2>3. Decoded[b.content] \in Contents \ NotText
    BY <2>2, ContentAssumption
  <2>4. disk' = [disk EXCEPT ![job.ws][f] = Decoded[b.content]] /\ f \in Paths
    BY <2>1 DEF UndoWrite
  <2>5. disk'[job.ws][f] = Decoded[b.content]
    BY <1>1, <2>4 DEF TypeOK, Trees
  <2>6. b.hash \in DOMAIN Decoded
    BY <2>2, ContentAssumption
  <2> QED
    BY <1>3, <1>5, <2>2, <2>5, <2>6 DEF PutBack
<1> QED
  BY <1>6, <1>7

RestoredNext(r, f) == f \in Paths \ touched'[r] => PutBack(disk'[ranIn'[r]][f], before'[r][f])

LEMMA UndoJobInv ==
    ASSUME DistinctPaths, Inv, BackupInv, UndoneSoFar, job.ws = ranIn[job.req],
           UndoStep, job'.log = <<>>, NEW i \in 1 .. Len(fileLog[job.req]), i < job'.next,
           fileLog[job.req][i].status = "success",
           fileLog[job.req][i].step.op \in {"create", "modify"}
    PROVE  RestoredNext(job.req, fileLog[job.req][i].step.path)
<1> USE DEF Inv
<1> DEFINE r == job.req
           g == fileLog[r][i].step.path
<1>1. /\ job.kind = "undo" /\ job \in UndoJob /\ r \in Requests
      /\ job.next \in 1 .. Len(fileLog[r]) /\ fileLog[r] \in Seq(Entries)
      /\ Len(fileLog[r]) \in Nat
  BY UndoStepJob, UndoneEntry
<1>2. PICK status \in {"success", "failed", "skipped"} : UndoNext(status)
  BY UndoStepJob
<1>3. /\ job'.next = job.next + 1
      /\ job'.log = IF status = "failed"
                    THEN Append(job.log, Entry(Undone.step, status, "other")) ELSE job.log
  BY <1>1, <1>2, UndoStepJob, UndoneJob
<1>4. status # "failed" /\ job.log = <<>>
  <2>1. job.log \in Seq(Entries)
    BY <1>1 DEF UndoJob
  <2>2. Append(job.log, Entry(Undone.step, status, "other")) # <<>>
    BY <2>1
  <2> QED
    BY <1>3, <2>2
<1>5. i < job.next \/ i = job.next
  BY <1>1, <1>3
<1>6. g \in Paths
  <2>1. fileLog[r][i] \in Entries
    BY <1>1
  <2> QED
    BY <2>1 DEF Entries, Steps, FileOps
<1>7. ranIn[r] \in Workspaces
  BY <1>1 DEF JobInv, RowInv
<1>8. i < job.next => Restored(r, g)
  BY <1>1, <1>4 DEF UndoneSoFar
<1>9. CASE UndoModify \/ UndoCreate
  <2>1. CASE g = Undone.step.path
    BY <1>9, <2>1, UndoneRestored DEF RestoredNext
  <2>2. CASE g # Undone.step.path
    <3>1. Restored(r, g)
      BY <1>5, <1>8, <2>2 DEF Undone
    <3>2. Frame(r, {Undone.step.path}) \/ Frame(r, {})
      <4>1. [Next]_vars
        BY <1>9 DEF Next, JobStep
      <4>2. \A strict \in BOOLEAN : ~DryRun(r, strict) /\ ~StartRun(r, strict)
        BY <1>1 DEF DryRun, StartRun, Idle
      <4>3. ~ReplaceFile
        BY <1>1 DEF ReplaceFile, Running
      <4> QED
        BY <1>1, <4>1, <4>2, <4>3, RequestFrame
    <3>3. g \in Paths \ touched'[r] =>
            /\ g \in Untouched(r) /\ disk'[ranIn'[r]][g] = disk[ranIn[r]][g]
            /\ before'[r] = before[r]
      <4>1. CASE Frame(r, {Undone.step.path})
        <5> SUFFICES ASSUME g \in Paths \ touched'[r]
                     PROVE  /\ g \in Untouched(r) /\ disk'[ranIn'[r]][g] = disk[ranIn[r]][g]
                            /\ before'[r] = before[r]
          OBVIOUS
        <5>1. g \in (Paths \ touched'[r]) \ {Undone.step.path}
          BY <2>2
        <5>2. g \in Untouched(r)
          BY <1>6, <4>1, <5>1 DEF Frame, Untouched
        <5> QED
          <6>1. ranIn'[r] = ranIn[r] /\ before'[r] = before[r]
            BY <4>1 DEF Frame
          <6>2. disk'[ranIn[r]][g] = disk[ranIn[r]][g]
            BY <1>7, <4>1, <5>1 DEF Frame
          <6> QED
            BY <5>2, <6>1, <6>2
      <4>2. CASE Frame(r, {})
        BY <1>6, <1>7, <4>2 DEF Frame, Untouched
      <4> QED
        BY <3>2, <4>1, <4>2
    <3> QED
      BY <3>1, <3>3 DEF Restored, RestoredNext
  <2> QED
    BY <2>1, <2>2
<1>10. CASE UndoFails
  <2>1. UndoNext("failed") /\ job.kind = "undo" /\ job.next <= Len(fileLog[r])
    BY <1>1, <1>10 DEF UndoFails
  <2>2. job'.log = Append(job.log, Entry(Undone.step, "failed", "other"))
    BY <2>1, UndoneJob
  <2>3. job.log \in Seq(Entries)
    BY <1>1 DEF UndoJob
  <2> QED
    BY <2>2, <2>3
<1>11. CASE UndoNothing
  <2>1. i < job.next
    BY <1>5, <1>11 DEF UndoNothing, Undone
  <2>2. Frame(r, {})
    BY <1>11, QuietFrame DEF UndoNothing, history
  <2> QED
    BY <1>1, <1>6, <1>7, <1>8, <2>1, <2>2, RestoredKept DEF RestoredNext
<1> QED
  BY <1>9, <1>10, <1>11 DEF UndoStep

LEMMA UndoneStep ==
    ASSUME DistinctPaths, Inv, BackupInv, UndoneSoFar, [Next]_vars
    PROVE  UndoneSoFar'
<1> USE DEF Inv
<1> DEFINE Then ==
             job'.kind = "undo" /\ job'.log = <<>> /\ job'.ws = ranIn'[job'.req] =>
               \A i \in 1 .. Len(fileLog'[job'.req]) :
                 /\ i < job'.next
                 /\ fileLog'[job'.req][i].status = "success"
                 /\ fileLog'[job'.req][i].step.op \in {"create", "modify"}
                 => RestoredNext(job'.req, fileLog'[job'.req][i].step.path)
<1> SUFFICES Then
  BY DEF UndoneSoFar, Restored, RestoredNext, Untouched
<1>1. CASE RunStep
  <2>1. job'.kind = "run"
    BY <1>1, RunLog DEF LogStep, RunJob
  <2> QED
    BY <2>1
<1>2. CASE UndoStep
  <2>1. job'.req = job.req /\ job'.ws = job.ws
    BY <1>2, UndoStepJob, UndoneJob
  <2>2. fileLog' = fileLog /\ ranIn' = ranIn
    BY <1>2 DEF UndoStep, UndoNothing, UndoFails, UndoModify, UndoCreate, UndoWrite, Disturb,
                records, history
  <2>3. CASE job.ws = ranIn[job.req]
    BY <1>2, <2>1, <2>2, <2>3, UndoJobInv
  <2>4. CASE job.ws # ranIn[job.req]
    BY <2>1, <2>2, <2>4
  <2> QED
    BY <2>3, <2>4
<1>3. CASE job' = Idle
  BY <1>3 DEF Idle
<1>4. CASE \E r \in Requests, strict \in BOOLEAN : StartRun(r, strict)
  BY <1>4 DEF StartRun
<1>5. ASSUME NEW r \in Requests, StartUndo(r)
      PROVE  Then
  <2>1. job'.next = 1 /\ job'.req = r /\ fileLog' = fileLog
    BY <1>5 DEF StartUndo, records
  <2>2. \A i \in 1 .. Len(fileLog[r]) : ~(i < 1)
    BY DEF TypeOK
  <2> QED
    BY <2>1, <2>2
<1>6. CASE job = Idle /\ job' = job
  BY <1>3, <1>6
<1>7. CASE UserStep \/ UNCHANGED vars
  <2>1. job' = job /\ fileLog' = fileLog /\ ranIn' = ranIn
    BY <1>7, UserChange DEF vars, records, history, Disturb
  <2>2. ASSUME job.kind = "undo", job.log = <<>>, job.ws = ranIn[job.req],
               NEW i \in 1 .. Len(fileLog[job.req]), i < job.next,
               fileLog[job.req][i].status = "success",
               fileLog[job.req][i].step.op \in {"create", "modify"}
        PROVE  RestoredNext(job.req, fileLog[job.req][i].step.path)
    <3>1. job.req \in Requests /\ fileLog[job.req] \in Seq(Entries)
      BY <2>2, JobKinds DEF UndoJob, TypeOK
    <3>2. fileLog[job.req][i] \in Entries
      BY <3>1
    <3>3. fileLog[job.req][i].step.path \in Paths
      BY <2>2, <3>2 DEF Entries, Steps, FileOps
    <3>4. ranIn[job.req] \in Workspaces
      BY <2>2, <3>1 DEF JobInv, RowInv
    <3>5. Frame(job.req, {})
      <4>1. CASE UNCHANGED vars
        BY <4>1, QuietFrame DEF vars, history
      <4>2. CASE UserStep
        BY <3>1, <4>2, UserFrame
      <4> QED
        BY <1>7, <4>1, <4>2
    <3>6. Restored(job.req, fileLog[job.req][i].step.path)
      BY <2>2 DEF UndoneSoFar
    <3> QED
      BY <3>1, <3>3, <3>4, <3>5, <3>6, RestoredKept DEF RestoredNext
  <2> QED
    BY <2>1, <2>2
<1> QED
  BY <1>1, <1>2, <1>3, <1>4, <1>5, <1>6, <1>7
  DEF Next, Call, JobStep, Environment, RunStep, UndoStep, UserStep, DryRun, CommitRun, LoseRun,
      CommitUndo, Crash, Repoint

\* A rollback becomes "completed" only as its own job commits, with no failure
\* noted.
LEMMA CompletedByCommit ==
    ASSUME Inv, [Next]_vars, NEW r \in Requests, result'[r]["rollback"] = "completed",
           result[r]["rollback"] # "completed"
    PROVE  CommitUndo /\ r = job.req /\ job.log = <<>>
<1> USE DEF Inv
<1>1. CommitUndo /\ r = job.req
  <2>1. CASE UNCHANGED records
    BY <2>1 DEF records
  <2>2. CASE \E q \in Requests, strict \in BOOLEAN :
                DryRun(q, strict) /\ Wrote(q, "dry_run") /\ UNCHANGED <<fileLog, backups>>
    BY <2>2 DEF Wrote, Modes
  <2>3. CASE CommitRun /\ job.req \in Requests /\ Wrote(job.req, "real_run")
    BY <2>3 DEF Wrote, Modes
  <2>4. CASE CommitUndo /\ job.req \in Requests /\ Wrote(job.req, "rollback")
    BY <2>4 DEF Wrote
  <2> QED
    BY <2>1, <2>2, <2>3, <2>4, CommitCases
<1>2. result' = [result EXCEPT ![r]["rollback"] =
                   IF job.log = <<>> THEN "completed" ELSE "failed"]
  BY <1>1 DEF CommitUndo
<1> QED
  BY <1>1, <1>2 DEF TypeOK, Modes

\* The commit of a rollback that met no failure: everything is put back.
LEMMA CommitRestores ==
    ASSUME Inv, UndoneSoFar, CommitUndo, job.log = <<>>, job.ws = ranIn[job.req],
           NEW f \in Paths
    PROVE  Restored(job.req, f) /\ RestoredNext(job.req, f)
<1> USE DEF Inv
<1> DEFINE r == job.req
<1>1. /\ job.kind = "undo" /\ job.next > Len(fileLog[r])
      /\ UNCHANGED <<disk, before, ranIn, touched>>
  BY DEF CommitUndo, history
<1>2. Recorded(r) /\ LogOf(r, fileLog[r]) /\ fileLog[r] \in Seq(Entries) /\ job.next \in Nat
  BY <1>1, JobKinds DEF JobInv, RowInv, TypeOK, UndoJob
<1>3. Restored(r, f)
  <2>1. CASE f \in WroteIn(fileLog[r])
    <3>1. PICK i \in DOMAIN fileLog[r] : /\ fileLog[r][i].status = "success"
                                         /\ fileLog[r][i].step.op \in {"create", "modify"}
                                         /\ f = fileLog[r][i].step.path
      BY <2>1 DEF WroteIn
    <3>2. i \in 1 .. Len(fileLog[r]) /\ i < job.next
      BY <1>1, <1>2
    <3> QED
      BY <1>1, <3>1, <3>2 DEF UndoneSoFar
  <2>2. CASE f \notin WroteIn(fileLog[r])
    BY <1>2, <2>2 DEF LogOf, Truthful, Restored, PutBack
  <2> QED
    BY <2>1, <2>2
<1> QED
  BY <1>1, <1>3 DEF Restored, RestoredNext, Untouched

LEMMA UndoneHolds == DistinctPaths => (Spec => [](Inv /\ BackupInv /\ UndoneSoFar))
<1> SUFFICES ASSUME DistinctPaths PROVE Spec => [](Inv /\ BackupInv /\ UndoneSoFar)
  OBVIOUS
<1>1. Init => UndoneSoFar
  BY DEF Init, UndoneSoFar, Idle
<1>2. Inv /\ BackupInv /\ UndoneSoFar /\ [Next]_vars => UndoneSoFar'
  BY UndoneStep
<1> QED
  BY BackupHolds, <1>1, <1>2, PTL DEF Spec

\* A rollback of r that ends well in the workspace its run wrote to.
FinishesInPlace(r) ==
    /\ result[r]["rollback"] = "none" /\ result'[r]["rollback"] = "completed"
    /\ job.ws = ranIn[r]

PutsBackInPlace ==
    \A r \in Requests : FinishesInPlace(r) =>
        \A f \in Untouched(r) : PutBack(disk[ranIn[r]][f], before[r][f])

\* Where no plan names a file twice: a rollback that reports "completed" in the
\* workspace of its run has put back every file nobody else touched, however
\* often the project was pointed elsewhere in between, whatever a crash
\* interrupted and however often the rollback was repeated (rollback_execution).
THEOREM RollbacksPutBackInPlace == DistinctPaths => (Spec => [][PutsBackInPlace]_vars)
<1> SUFFICES ASSUME DistinctPaths PROVE Spec => [][PutsBackInPlace]_vars
  OBVIOUS
<1>1. Inv /\ UndoneSoFar /\ [Next]_vars => PutsBackInPlace
  <2> SUFFICES ASSUME Inv, UndoneSoFar, [Next]_vars, NEW r \in Requests, FinishesInPlace(r),
                      NEW f \in Untouched(r)
               PROVE  PutBack(disk[ranIn[r]][f], before[r][f])
    BY DEF PutsBackInPlace
  <2>1. CommitUndo /\ r = job.req /\ job.log = <<>> /\ job.ws = ranIn[job.req]
    BY CompletedByCommit DEF FinishesInPlace
  <2>2. f \in Paths
    BY DEF Untouched
  <2>3. Restored(r, f)
    BY <2>1, <2>2, CommitRestores
  <2> QED
    BY <2>3 DEF Restored
<1> QED
  BY UndoneHolds, <1>1, PTL DEF Spec

\* Everything happens in the one workspace the project names.
Stays ==
    /\ \A r \in Requests : ranIn[r] \in Workspaces => ranIn[r] = current
    /\ job # Idle => job.ws = current

RestoredRows ==
    \A r \in Requests : result[r]["rollback"] = "completed" => \A f \in Paths : Restored(r, f)

\* As long as nobody has pointed the project elsewhere.
UnmovedInv == moves = 0 => Stays /\ RestoredRows

LEMMA UnmovedBefore ==
    ASSUME TypeOK, [Next]_vars, moves' = 0
    PROVE  moves = 0 /\ \A w \in Workspaces : ~Repoint(w)
<1>1. moves \in Nat
  BY BoundAssumption DEF TypeOK
<1>2. \A w \in Workspaces : Repoint(w) => moves' = moves + 1
  BY DEF Repoint
<1>3. \A w \in Workspaces : ~Repoint(w)
  BY <1>1, <1>2
<1>4. moves' = moves
  BY <1>3, UserChange
  DEF Next, Call, JobStep, Environment, UserStep, DryRun, StartRun, StartUndo,
      SkipFile, RefuseFile, PrepareFile, ReplaceFile, FailWrite, RunCommand, CommitRun, LoseRun,
      UndoNothing, UndoFails, UndoModify, UndoCreate, UndoWrite, CommitUndo, Crash, vars, bounds
<1> QED
  BY <1>3, <1>4

LEMMA StaysStep ==
    ASSUME TypeOK, JobInv, Stays, [Next]_vars, moves' = 0
    PROVE  Stays'
<1>1. current' = current
  <2>1. \A w \in Workspaces : ~Repoint(w)
    BY UnmovedBefore
  <2> QED
    BY <2>1, UserChange
    DEF Next, Call, JobStep, Environment, UserStep, DryRun, StartRun, StartUndo,
        SkipFile, RefuseFile, PrepareFile, ReplaceFile, FailWrite, RunCommand, CommitRun, LoseRun,
        UndoNothing, UndoFails, UndoModify, UndoCreate, UndoWrite, CommitUndo, Crash, vars
<1>2. \A r \in Requests : ranIn'[r] = ranIn[r] \/ ranIn'[r] = current
  <2>1. ranIn' = ranIn \/ \E q \in Requests : ranIn' = [ranIn EXCEPT ![q] = current]
    BY DEF Next, Call, JobStep, Environment, UserDirectory, UserEdit, Disturb,
           DryRun, StartRun, StartUndo, SkipFile, RefuseFile, PrepareFile, ReplaceFile, FailWrite,
           RunCommand, CommitRun, LoseRun, UndoNothing, UndoFails, UndoModify, UndoCreate,
           UndoWrite, CommitUndo, Crash, Repoint, vars, history
  <2> QED
    BY <2>1 DEF TypeOK
<1>3. job' = Idle \/ (job'.ws = job.ws /\ job # Idle) \/ job'.ws = current
  <2>1. CASE RunStep
    BY <2>1, RunLog DEF LogStep, Idle
  <2>2. CASE UndoStep
    BY <2>2, UndoStepJob, UndoneJob DEF Idle
  <2>3. CASE \E r \in Requests, strict \in BOOLEAN : StartRun(r, strict)
    BY <2>3 DEF StartRun
  <2>4. CASE \E r \in Requests : StartUndo(r)
    BY <2>4 DEF StartUndo
  <2>5. CASE UserStep \/ UNCHANGED vars
    BY <2>5, UserChange DEF vars
  <2> QED
    BY <2>1, <2>2, <2>3, <2>4, <2>5
    DEF Next, Call, JobStep, Environment, RunStep, UndoStep, UserStep, DryRun, CommitRun, LoseRun,
        CommitUndo, Crash, Repoint
<1> QED
  BY <1>1, <1>2, <1>3 DEF Stays

LEMMA UnmovedStep ==
    ASSUME Inv, UndoneSoFar, UnmovedInv, [Next]_vars
    PROVE  UnmovedInv'
<1> USE DEF Inv
<1> SUFFICES ASSUME moves' = 0 PROVE Stays' /\ RestoredRows'
  BY DEF UnmovedInv
<1>1. Stays /\ RestoredRows
  BY UnmovedBefore DEF UnmovedInv
<1>2. Stays'
  BY <1>1, StaysStep
<1>3. ASSUME NEW r \in Requests, result'[r]["rollback"] = "completed", NEW f \in Paths
      PROVE  RestoredNext(r, f)
  <2>1. CASE result[r]["rollback"] = "completed"
    <3>1. Recorded(r) /\ ranIn[r] \in Workspaces /\ Restored(r, f)
          /\ result[r]["dry_run"] = "completed"
      BY <1>1, <2>1 DEF RowInv, RestoredRows
    <3>2. Frame(r, {})
      <4>1. \A strict \in BOOLEAN : ~DryRun(r, strict) /\ ~StartRun(r, strict)
        BY <3>1 DEF DryRun, StartRun, Recorded
      <4>2. ~(r = job.req /\ ReplaceFile) /\ ~(r = job.req /\ job.kind = "undo")
        BY <2>1, <3>1 DEF JobInv, ReplaceFile, Running
      <4> QED
        BY <4>1, <4>2, RequestFrame
    <3> QED
      BY <3>1, <3>2, RestoredKept DEF RestoredNext
  <2>2. CASE result[r]["rollback"] # "completed"
    <3>1. CommitUndo /\ r = job.req /\ job.log = <<>>
      BY <1>3, <2>2, CompletedByCommit
    <3>2. ranIn[r] \in Workspaces /\ job # Idle
      BY <3>1 DEF CommitUndo, JobInv, RowInv, Idle
    <3>3. job.ws = ranIn[job.req]
      BY <1>1, <3>1, <3>2 DEF Stays
    <3> QED
      BY <3>1, <3>3, CommitRestores
  <2> QED
    BY <2>1, <2>2
<1> QED
  BY <1>2, <1>3 DEF RestoredRows, Restored, RestoredNext, Untouched

LEMMA UnmovedHolds == DistinctPaths => (Spec => [](Inv /\ UnmovedInv))
<1> SUFFICES ASSUME DistinctPaths PROVE Spec => [](Inv /\ UnmovedInv)
  OBVIOUS
<1>1. Init => UnmovedInv
  <2> SUFFICES ASSUME Init PROVE Stays /\ RestoredRows
    BY DEF UnmovedInv
  <2>1. /\ job = Idle /\ \A r \in Requests : ranIn[r] = Nowhere
        /\ \A r \in Requests : result[r]["rollback"] = "none"
    BY DEF Init, Modes
  <2>2. Nowhere \notin Workspaces
    BY BoundAssumption
  <2> QED
    BY <2>1, <2>2 DEF Stays, RestoredRows, Idle
<1>2. Inv /\ UndoneSoFar /\ UnmovedInv /\ [Next]_vars => UnmovedInv'
  BY UnmovedStep
<1> QED
  BY UndoneHolds, <1>1, <1>2, PTL DEF Spec

\* Where no plan names a file twice, and as long as the project has stayed where
\* it was: a rollback that reports "completed" has put back every file nobody
\* else touched, and it stays put back.
THEOREM RollbacksRestore == DistinctPaths => (Spec => [](moves = 0 => RollbackRestores))
<1> SUFFICES ASSUME DistinctPaths PROVE Spec => [](moves = 0 => RollbackRestores)
  OBVIOUS
<1>1. UnmovedInv => (moves = 0 => RollbackRestores)
  BY DEF UnmovedInv, RestoredRows, Restored, RollbackRestores, Untouched
<1> QED
  BY UnmovedHolds, <1>1, PTL

-----------------------------------------------------------------------------
(* The commit, where no plan modifies a file twice.                          *)

OneModifyEach == \A p \in PlanSet : ~ModifiesTwice(p)

\* The backups in memory are of the files modified so far, one each, so that
\* the commit at the end does not fail on them.
SavedInv ==
    job.kind = "run" =>
      /\ ~DuplicateBackup
      /\ \A k \in DOMAIN job.saved : \E i \in DOMAIN plan[job.req] :
            /\ i < job.next \/ (job.held /\ i = job.next)
            /\ plan[job.req][i].op = "modify" /\ plan[job.req][i].path = job.saved[k].path

LEMMA SavedRun ==
    ASSUME OneModifyEach, Inv, SavedInv, RunStep
    PROVE  SavedInv'
<1> USE DEF Inv
<1> DEFINE r == job.req
           N == Len(plan[r])
<1>1. /\ job.kind = "run" /\ job \in RunJob /\ job' \in RunJob /\ r \in Requests
      /\ job'.req = r /\ plan' = plan /\ job.next \in 1 .. N /\ N \in Nat
      /\ DOMAIN plan[r] = 1 .. N /\ plan[r] \in PlanSet
      /\ Step = plan[r][job.next] /\ job'.next \in Nat
  <2>1. job.kind = "run" /\ job.next <= N /\ LogStep
    BY RunLog
  <2>2. job \in RunJob /\ r \in Requests
    BY <2>1, JobKinds DEF RunJob
  <2>3. job' \in RunJob /\ job'.req = r /\ job'.next \in Nat
    BY <2>1 DEF LogStep, RunJob
  <2>4. plan' = plan
    BY RunFrame DEF Frame
  <2>5. job.next \in 1 .. N /\ N \in Nat /\ Step = plan[r][job.next]
    BY <2>1, BeforeStep
  <2>6. plan[r] \in PlanSet /\ plan[r] \in Seq(Steps)
    BY <2>2, PlanOf DEF TypeOK
  <2>7. DOMAIN plan[r] = 1 .. N
    BY <2>6
  <2> QED
    BY <2>1, <2>2, <2>3, <2>4, <2>5, <2>6, <2>7
<1>2. /\ \A k, m \in DOMAIN job.saved : k # m => job.saved[k].path # job.saved[m].path
      /\ \A k \in DOMAIN job.saved : \E i \in DOMAIN plan[r] :
            /\ i < job.next \/ (job.held /\ i = job.next)
            /\ plan[r][i].op = "modify" /\ plan[r][i].path = job.saved[k].path
  BY <1>1 DEF SavedInv, DuplicateBackup
<1> SUFFICES
      /\ \A k, m \in DOMAIN job'.saved : k # m => job'.saved[k].path # job'.saved[m].path
      /\ \A k \in DOMAIN job'.saved : \E i \in DOMAIN plan[r] :
            /\ i < job'.next \/ (job'.held /\ i = job'.next)
            /\ plan[r][i].op = "modify" /\ plan[r][i].path = job'.saved[k].path
  BY <1>1 DEF SavedInv, DuplicateBackup
<1>3. CASE PrepareFile
  <2>1. IsPrepared
    BY <1>3, PreparedJob
  <2>2. job'.next = job.next /\ job'.held /\ ~job.held
    BY <1>3, <2>1 DEF IsPrepared, PrepareFile
  <2>3. CASE job'.saved = job.saved
    BY <1>1, <1>2, <2>2, <2>3
  <2>4. CASE job'.saved # job.saved
    <3>1. PICK copy \in Backups : copy.path = Step.path /\ job'.saved = Append(job.saved, copy)
      BY <2>1, <2>4 DEF IsPrepared
    <3>2. Step.op = "modify"
      BY <2>1, <2>4 DEF IsPrepared
    <3> DEFINE n == Len(job.saved)
    <3>3. job.saved \in Seq(Backups) /\ n \in Nat /\ DOMAIN job.saved = 1 .. n
      BY <1>1 DEF RunJob
    <3>4. /\ DOMAIN job'.saved = 1 .. n + 1 /\ job'.saved[n + 1] = copy
          /\ \A k \in 1 .. n : job'.saved[k] = job.saved[k]
          /\ \A k \in 1 .. n + 1 : k \in 1 .. n \/ k = n + 1
      BY <3>1, <3>3
    <3> HIDE DEF n
    <3>5. \A k \in 1 .. n : job.saved[k].path # Step.path
      <4> SUFFICES ASSUME NEW k \in 1 .. n PROVE job.saved[k].path # Step.path
        OBVIOUS
      <4>1. PICK i \in DOMAIN plan[r] :
               /\ i < job.next \/ (job.held /\ i = job.next)
               /\ plan[r][i].op = "modify" /\ plan[r][i].path = job.saved[k].path
        BY <1>2, <3>3
      <4>2. i < job.next /\ job.next \in DOMAIN plan[r]
        BY <1>1, <2>2, <4>1
      <4> QED
        BY <1>1, <3>2, <4>1, <4>2 DEF OneModifyEach, ModifiesTwice
    <3>6. ASSUME NEW k \in DOMAIN job'.saved, NEW m \in DOMAIN job'.saved, k # m
          PROVE  job'.saved[k].path # job'.saved[m].path
      BY <1>2, <3>1, <3>3, <3>4, <3>5, <3>6
    <3>7. ASSUME NEW k \in DOMAIN job'.saved
          PROVE  \E i \in DOMAIN plan[r] :
                    /\ i < job'.next \/ (job'.held /\ i = job'.next)
                    /\ plan[r][i].op = "modify" /\ plan[r][i].path = job'.saved[k].path
      <4>1. CASE k \in 1 .. n
        BY <1>2, <2>2, <3>3, <3>4, <4>1
      <4>2. CASE k = n + 1
        BY <1>1, <2>2, <3>1, <3>2, <3>4, <4>2
      <4> QED
        BY <3>4, <4>1, <4>2
    <3> QED
      BY <3>6, <3>7
  <2> QED
    BY <2>3, <2>4
<1>4. CASE ~PrepareFile
  <2>1. job'.saved = job.saved /\ job'.next > job.next
    BY <1>4, HeldStep
  <2>2. \A i \in DOMAIN plan[r] : i < job.next \/ i = job.next => i < job'.next
    BY <1>1, <2>1
  <2> SUFFICES ASSUME NEW k \in DOMAIN job.saved
               PROVE  \E i \in DOMAIN plan[r] :
                         /\ i < job'.next
                         /\ plan[r][i].op = "modify" /\ plan[r][i].path = job.saved[k].path
    BY <1>2, <2>1
  <2> QED
    BY <1>2, <2>2
<1> QED
  BY <1>3, <1>4

LEMMA SavedStep ==
    ASSUME OneModifyEach, Inv, SavedInv, [Next]_vars
    PROVE  SavedInv'
<1>1. CASE RunStep
  BY <1>1, SavedRun
<1>2. CASE UndoStep
  <2>1. job'.kind = "undo"
    BY <1>2, UndoStepJob, UndoneJob DEF Inv
  <2> QED
    BY <2>1 DEF SavedInv
<1>3. CASE job' = Idle
  BY <1>3 DEF SavedInv, Idle
<1>4. CASE \E r \in Requests, strict \in BOOLEAN : StartRun(r, strict)
  <2>1. job'.saved = <<>>
    BY <1>4 DEF StartRun
  <2>2. DOMAIN job'.saved = {}
    BY <2>1
  <2> QED
    BY <2>2 DEF SavedInv, DuplicateBackup
<1>5. CASE \E r \in Requests : StartUndo(r)
  BY <1>5 DEF StartUndo, SavedInv
<1>6. CASE job = Idle /\ job' = job
  BY <1>3, <1>6
<1>7. CASE UserStep \/ UNCHANGED vars
  <2>1. UNCHANGED <<plan, job>>
    BY <1>7, UserChange DEF vars, Inv
  <2> QED
    BY <2>1 DEF SavedInv, DuplicateBackup
<1> QED
  BY <1>1, <1>2, <1>3, <1>4, <1>5, <1>6, <1>7
  DEF Next, Call, JobStep, Environment, RunStep, UndoStep, UserStep, DryRun, CommitRun, LoseRun,
      CommitUndo, Crash, Repoint

LEMMA SavedHolds == OneModifyEach => (Spec => [](Inv /\ SavedInv))
<1> SUFFICES ASSUME OneModifyEach PROVE Spec => [](Inv /\ SavedInv)
  OBVIOUS
<1>1. Init => SavedInv
  BY DEF Init, Idle, SavedInv
<1>2. Inv /\ SavedInv /\ [Next]_vars => SavedInv'
  BY SavedStep
<1> QED
  BY InvHolds, <1>1, <1>2, PTL DEF Spec

\* Where no plan modifies a file twice: a run that has come to its commit never
\* meets the uniqueness of execution_file_backups, so that what it did to the
\* workspace is not dropped with its transaction (execute_scoped_files).
CommitsStand == AtCommit => ~DuplicateBackup

THEOREM CommitsNeverClash == OneModifyEach => (Spec => []CommitsStand)
<1> SUFFICES ASSUME OneModifyEach PROVE Spec => []CommitsStand
  OBVIOUS
<1>1. SavedInv => CommitsStand
  BY DEF SavedInv, CommitsStand, AtCommit
<1> QED
  BY SavedHolds, <1>1, PTL

-----------------------------------------------------------------------------
(* The first attempt, as long as the process has not died.                   *)

\* Until the process dies for the first time, a request that began a run has it
\* recorded or under way, and it began only once.
OneAttempt ==
    crashes = 0 => \A r \in Requests : ranIn[r] # Nowhere =>
        /\ original[r] = before[r]
        /\ Recorded(r) \/ (job.kind = "run" /\ job.req = r)

LEMMA OneAttemptStep ==
    ASSUME Inv, SavedInv, OneAttempt, [Next]_vars
    PROVE  OneAttempt'
<1> USE DEF Inv
<1> SUFFICES ASSUME crashes' = 0, NEW r \in Requests, ranIn'[r] # Nowhere
             PROVE  /\ original'[r] = before'[r]
                    /\ result'[r]["real_run"] # "none" \/ (job'.kind = "run" /\ job'.req = r)
  BY DEF OneAttempt, Recorded
<1>1. crashes = 0 /\ ~Crash
  <2>1. crashes \in Nat
    BY BoundAssumption DEF TypeOK
  <2>2. Crash => crashes' = crashes + 1
    BY DEF Crash
  <2>3. ~Crash
    BY <2>1, <2>2
  <2>4. crashes' = crashes
    BY <2>3, UserChange
    DEF Next, Call, JobStep, Environment, UserStep, DryRun, StartRun, StartUndo, Repoint,
        SkipFile, RefuseFile, PrepareFile, ReplaceFile, FailWrite, RunCommand, CommitRun, LoseRun,
        UndoNothing, UndoFails, UndoModify, UndoCreate, UndoWrite, CommitUndo, vars, bounds
  <2> QED
    BY <2>3, <2>4
<1>2. CASE \E strict \in BOOLEAN : StartRun(r, strict)
  <2>1. PICK strict \in BOOLEAN : StartRun(r, strict)
    BY <1>2
  <2>2. ranIn[r] = Nowhere
    BY <1>1, <2>1 DEF OneAttempt, StartRun, Recorded, Idle
  <2>3. original'[r] = disk[current] /\ before'[r] = disk[current]
    BY <2>1, <2>2 DEF StartRun, TypeOK
  <2>4. job'.kind = "run" /\ job'.req = r
    BY <2>1 DEF StartRun
  <2> QED
    BY <2>3, <2>4
<1>3. ASSUME \A strict \in BOOLEAN : ~StartRun(r, strict)
      PROVE  ranIn'[r] = ranIn[r] /\ before'[r] = before[r] /\ original'[r] = original[r]
  <2>1. CASE \E q \in Requests, strict \in BOOLEAN : StartRun(q, strict)
    <3>1. PICK q \in Requests, strict \in BOOLEAN : StartRun(q, strict)
      BY <2>1
    <3>2. q # r
      BY <1>3, <3>1
    <3> QED
      BY <3>1, <3>2 DEF StartRun, TypeOK
  <2>2. CASE ~\E q \in Requests, strict \in BOOLEAN : StartRun(q, strict)
    BY <2>2, UserChange
    DEF Next, Call, JobStep, Environment, UserDirectory, UserEdit, DryRun, StartUndo, Repoint, Crash,
        SkipFile, RefuseFile, PrepareFile, ReplaceFile, FailWrite, RunCommand, CommitRun, LoseRun,
        UndoNothing, UndoFails, UndoModify, UndoCreate, UndoWrite, CommitUndo, Disturb, vars,
        history
  <2> QED
    BY <2>1, <2>2
<1>4. ASSUME Recorded(r)
      PROVE  result'[r]["real_run"] # "none"
  BY <1>4, RecordKept
<1>5. ASSUME job.kind = "run", job.req = r
      PROVE  result'[r]["real_run"] # "none" \/ (job'.kind = "run" /\ job'.req = r)
  <2>1. CASE RunStep
    <3>1. job' \in RunJob /\ job'.req = job.req
      BY <2>1, RunLog DEF LogStep
    <3> QED
      BY <1>5, <3>1 DEF RunJob
  <2>2. CASE CommitRun
    <3> DEFINE status == IF Failures(job.log) = {} THEN "completed" ELSE "failed"
    <3>1. job.req \in Requests /\ "real_run" \in Modes
      BY <1>5 DEF Modes
    <3>2. result' = [result EXCEPT ![job.req]["real_run"] = status]
      BY <2>2 DEF CommitRun
    <3>3. status \in {"completed", "failed"}
      OBVIOUS
    <3> HIDE DEF status
    <3>4. Wrote(job.req, "real_run")
      BY <3>1, <3>2, <3>3, RowWritten
    <3> QED
      BY <1>5, <3>4 DEF Wrote
  <2>3. ~LoseRun
    BY <1>5 DEF SavedInv, LoseRun
  <2>4. CASE job' = job
    BY <1>5, <2>4
  <2>5. ~UndoStep /\ ~CommitUndo /\ job # Idle
    BY <1>5 DEF UndoStep, UndoNothing, UndoFails, UndoModify, UndoCreate, Undoing, CommitUndo, Idle
  <2>6. CASE UserStep \/ UNCHANGED vars
    BY <2>4, <2>6, UserChange DEF vars
  <2> QED
    BY <1>1, <2>1, <2>2, <2>3, <2>5, <2>6
    DEF Next, Call, JobStep, Environment, RunStep, UndoStep, UserStep, DryRun, StartRun, StartUndo,
        Repoint
<1> QED
  BY <1>1, <1>2, <1>3, <1>4, <1>5 DEF OneAttempt

LEMMA OneAttemptHolds == OneModifyEach => (Spec => []OneAttempt)
<1> SUFFICES ASSUME OneModifyEach PROVE Spec => []OneAttempt
  OBVIOUS
<1>1. Init => OneAttempt
  BY DEF Init, OneAttempt
<1>2. Inv /\ SavedInv /\ OneAttempt /\ [Next]_vars => OneAttempt'
  BY OneAttemptStep
<1> QED
  BY SavedHolds, <1>1, <1>2, PTL DEF Spec

LEMMA DistinctModifies == DistinctPaths => OneModifyEach
<1> SUFFICES ASSUME DistinctPaths, NEW p \in PlanSet, ModifiesTwice(p)
             PROVE  FALSE
  BY DEF OneModifyEach
<1>1. p \in Seq(Steps)
  BY PlanAssumption
<1>2. PICK i, j \in DOMAIN p : /\ i < j
                               /\ p[i].op = "modify" /\ p[j].op = "modify"
                               /\ p[i].path = p[j].path
  BY DEF ModifiesTwice
<1>3. i \in 1 .. Len(p) /\ j \in 1 .. Len(p) /\ i # j
  BY <1>1, <1>2
<1> QED
  BY <1>2, <1>3 DEF DistinctPaths

\* The contents a copy in text mode leaves as they are, byte for byte.
Lossless == \A c \in Contents \ NotText : Decoded[c] = c

\* Where no plan names a file twice and the files survive a copy in text mode:
\* as long as the process has not died and the project stayed where it was, a
\* rollback that reports "completed" has put back what the FIRST attempt found,
\* as execution-pipeline.md promises.  The condition on crashes is what the
\* documented promise lacks.
THEOREM OriginalsRestore ==
    DistinctPaths /\ Lossless => (Spec => [](crashes = 0 /\ moves = 0 => OriginalRecoverable))
<1> SUFFICES ASSUME DistinctPaths, Lossless
             PROVE  Spec => [](crashes = 0 /\ moves = 0 => OriginalRecoverable)
  OBVIOUS
<1>1. ASSUME Inv, UnmovedInv, OneAttempt, crashes = 0, moves = 0
      PROVE  OriginalRecoverable
  <2> SUFFICES ASSUME NEW r \in Requests, result[r]["rollback"] = "completed",
                      NEW f \in Untouched(r)
               PROVE  disk[ranIn[r]][f] = original[r][f]
    BY DEF OriginalRecoverable
  <2>1. Recorded(r) /\ ranIn[r] \in Workspaces
    BY <1>1 DEF Inv, RowInv
  <2>2. original[r] = before[r]
    BY <1>1, <2>1, BoundAssumption DEF OneAttempt
  <2>3. PutBack(disk[ranIn[r]][f], before[r][f])
    BY <1>1 DEF UnmovedInv, RestoredRows, Restored, Untouched
  <2>4. before[r][f] \in DOMAIN Decoded => Decoded[Decoded[before[r][f]]] = before[r][f]
    BY ContentAssumption DEF Lossless
  <2> QED
    BY <2>2, <2>3, <2>4 DEF PutBack
<1>2. Inv /\ UnmovedInv /\ OneAttempt => (crashes = 0 /\ moves = 0 => OriginalRecoverable)
  BY <1>1
<1> QED
  BY UnmovedHolds, OneAttemptHolds, DistinctModifies, <1>2, PTL

-----------------------------------------------------------------------------
(* Commands, where no plan modifies a file twice.                            *)

\* The commands among the first steps of r's plan, up to but not including n.
CommandsBefore(r, n) == {i \in DOMAIN plan[r] : i < n /\ plan[r][i].op = "run"}
CommandsOf(r) == {i \in DOMAIN plan[r] : plan[r][i].op = "run"}

\* Each crash costs at most one complete run of the commands.
CommandInv ==
    \A r \in Requests :
        /\ Recorded(r) => commands[r] <= (1 + crashes) * Cardinality(CommandsOf(r))
        /\ ~Recorded(r) =>
             commands[r] <= crashes * Cardinality(CommandsOf(r))
                            + (IF job.kind = "run" /\ job.req = r
                               THEN Cardinality(CommandsBefore(r, job.next)) ELSE 0)

LEMMA CommandCounts ==
    ASSUME TypeOK, NEW r \in Requests
    PROVE  /\ Cardinality(CommandsOf(r)) \in Nat
           /\ \A n \in Nat :
                /\ Cardinality(CommandsBefore(r, n)) \in Nat
                /\ Cardinality(CommandsBefore(r, n)) <= Cardinality(CommandsOf(r))
           /\ \A n, m \in Nat : n <= m =>
                Cardinality(CommandsBefore(r, n)) <= Cardinality(CommandsBefore(r, m))
           /\ \A n \in DOMAIN plan[r], m \in Nat : n < m /\ plan[r][n].op = "run" =>
                Cardinality(CommandsBefore(r, n)) + 1 <= Cardinality(CommandsBefore(r, m))
<1>1. DOMAIN plan[r] = 1 .. Len(plan[r]) /\ Len(plan[r]) \in Nat
  BY PlanOf
<1>2. IsFiniteSet(DOMAIN plan[r])
  BY <1>1, FS_Interval
<1>3. IsFiniteSet(CommandsOf(r))
  BY <1>2, FS_Subset DEF CommandsOf
<1>4. \A n : IsFiniteSet(CommandsBefore(r, n)) /\ CommandsBefore(r, n) \subseteq CommandsOf(r)
  <2>1. \A n : CommandsBefore(r, n) \subseteq CommandsOf(r)
    BY DEF CommandsBefore, CommandsOf
  <2> QED
    BY <1>3, <2>1, FS_Subset
<1>5. Cardinality(CommandsOf(r)) \in Nat
  BY <1>3, FS_CardinalityType
<1>6. ASSUME NEW n \in Nat
      PROVE  /\ Cardinality(CommandsBefore(r, n)) \in Nat
             /\ Cardinality(CommandsBefore(r, n)) <= Cardinality(CommandsOf(r))
  BY <1>3, <1>4, FS_CardinalityType, FS_Subset
<1>7. ASSUME NEW n \in Nat, NEW m \in Nat, n <= m
      PROVE  Cardinality(CommandsBefore(r, n)) <= Cardinality(CommandsBefore(r, m))
  <2>1. CommandsBefore(r, n) \subseteq CommandsBefore(r, m)
    BY <1>1, <1>7 DEF CommandsBefore
  <2> QED
    BY <1>4, <2>1, FS_Subset
<1>8. ASSUME NEW n \in DOMAIN plan[r], NEW m \in Nat, n < m, plan[r][n].op = "run"
      PROVE  Cardinality(CommandsBefore(r, n)) + 1 <= Cardinality(CommandsBefore(r, m))
  <2>1. n \notin CommandsBefore(r, n)
    BY <1>1 DEF CommandsBefore
  <2>2. CommandsBefore(r, n) \union {n} \subseteq CommandsBefore(r, m)
    BY <1>1, <1>8 DEF CommandsBefore
  <2>3. Cardinality(CommandsBefore(r, n) \union {n}) = Cardinality(CommandsBefore(r, n)) + 1
    BY <1>4, <2>1, FS_AddElement
  <2>4. Cardinality(CommandsBefore(r, n) \union {n}) <= Cardinality(CommandsBefore(r, m))
    BY <1>4, <2>2, FS_Subset
  <2> QED
    BY <2>3, <2>4
<1> QED
  BY <1>5, <1>6, <1>7, <1>8

LEMMA Product ==
    ASSUME NEW a \in Nat, NEW k \in Nat
    PROVE  a * k \in Nat /\ (1 + a) * k = a * k + k /\ (a + 1) * k = a * k + k
  OBVIOUS

\* The part of a request's account that its run under way may have used.
Used(r) == IF job.kind = "run" /\ job.req = r
           THEN Cardinality(CommandsBefore(r, job.next)) ELSE 0

LEMMA CommandRun ==
    ASSUME Inv, RunStep, NEW r \in Requests
    PROVE  /\ UNCHANGED <<plan, records, crashes>>
           /\ commands'[r] - commands[r] <= Used(r)' - Used(r)
           /\ Used(r) \in Nat /\ Used(r)' \in Nat
<1> USE DEF Inv
<1>1. /\ job.kind = "run" /\ job.next \in Nat /\ job.next \in DOMAIN plan[job.req]
      /\ job.req \in Requests /\ Step = plan[job.req][job.next]
      /\ job'.kind = "run" /\ job'.req = job.req /\ job'.next \in Nat
  <2>1. job.kind = "run" /\ job.next <= Len(plan[job.req]) /\ LogStep
    BY RunLog
  <2>2. job \in RunJob /\ job' \in RunJob /\ job'.req = job.req /\ job.req \in Requests
    BY <2>1, JobKinds DEF LogStep, RunJob
  <2>3. job.next \in 1 .. Len(plan[job.req]) /\ Step = plan[job.req][job.next]
    BY <2>1, BeforeStep
  <2>4. DOMAIN plan[job.req] = 1 .. Len(plan[job.req])
    BY <2>2, PlanOf
  <2> QED
    BY <2>1, <2>2, <2>3, <2>4 DEF RunJob
<1>2. UNCHANGED <<plan, records, crashes>>
  BY DEF RunStep, SkipFile, RefuseFile, PrepareFile, ReplaceFile, FailWrite, RunCommand, bounds
<1>3. Used(r)' = IF job'.req = r THEN Cardinality(CommandsBefore(r, job'.next)) ELSE 0
  BY <1>1, <1>2 DEF Used, CommandsBefore
<1>4. Used(r) = IF job.req = r THEN Cardinality(CommandsBefore(r, job.next)) ELSE 0
  BY <1>1 DEF Used
<1>5. /\ Cardinality(CommandsBefore(r, job.next)) \in Nat
      /\ Cardinality(CommandsBefore(r, job'.next)) \in Nat
  BY <1>1, CommandCounts
<1>6. commands[r] \in Nat /\ MaxCommands \in Nat
  BY BoundAssumption DEF TypeOK
<1>7. CASE r # job.req
  <2>1. commands'[r] = commands[r]
    BY <1>7 DEF RunStep, SkipFile, RefuseFile, PrepareFile, ReplaceFile, FailWrite, RunCommand,
                history, TypeOK
  <2> QED
    BY <1>1, <1>2, <1>3, <1>4, <1>6, <1>7, <2>1
<1>8. CASE r = job.req /\ \E status \in {"success", "failed"} : RunCommand(status)
  <2>1. commands' = [commands EXCEPT ![r] = IF @ < MaxCommands THEN @ + 1 ELSE @]
        /\ Step.op = "run" /\ ~PrepareFile
    BY <1>8 DEF RunCommand, Running, Step, PrepareFile
  <2>2. commands'[r] = commands[r] \/ commands'[r] = commands[r] + 1
    BY <1>8, <2>1 DEF TypeOK
  <2>3. job'.next > job.next
    BY <2>1, HeldStep
  <2>4. Cardinality(CommandsBefore(r, job.next)) + 1 <= Cardinality(CommandsBefore(r, job'.next))
    BY <1>1, <1>8, <2>1, <2>3, CommandCounts
  <2> QED
    BY <1>1, <1>2, <1>3, <1>4, <1>5, <1>6, <1>8, <2>2, <2>4
<1>9. CASE r = job.req /\ ~(\E status \in {"success", "failed"} : RunCommand(status))
  <2>1. commands' = commands
    BY <1>9 DEF RunStep, SkipFile, RefuseFile, PrepareFile, ReplaceFile, FailWrite, history
  <2>2. job.next <= job'.next
    <3>1. CASE PrepareFile
      <4>1. IsPrepared
        BY <3>1, PreparedJob
      <4>2. job'.next = job.next
        BY <4>1 DEF IsPrepared
      <4> QED
        BY <1>1, <4>2
    <3>2. CASE ~PrepareFile
      BY <1>1, <3>2, HeldStep
    <3> QED
      BY <3>1, <3>2
  <2>3. Cardinality(CommandsBefore(r, job.next)) <= Cardinality(CommandsBefore(r, job'.next))
    BY <1>1, <2>2, CommandCounts
  <2> QED
    BY <1>1, <1>2, <1>3, <1>4, <1>5, <1>6, <1>9, <2>1, <2>3
<1> QED
  BY <1>7, <1>8, <1>9

LEMMA CommandStep ==
    ASSUME Inv, SavedInv, CommandInv, [Next]_vars
    PROVE  CommandInv'
<1> USE DEF Inv
<1> SUFFICES ASSUME NEW r \in Requests
             PROVE  /\ Recorded(r)' =>
                         commands'[r] <= (1 + crashes') * Cardinality(CommandsOf(r))
                    /\ ~Recorded(r)' =>
                         commands'[r] <= crashes' * Cardinality(CommandsOf(r)) + Used(r)'
  <2>1. plan' = plan
    BY UserChange
    DEF Next, Call, JobStep, Environment, UserStep, DryRun, StartRun, StartUndo,
        SkipFile, RefuseFile, PrepareFile, ReplaceFile, FailWrite, RunCommand, CommitRun, LoseRun,
        UndoNothing, UndoFails, UndoModify, UndoCreate, UndoWrite, CommitUndo, Crash, Repoint, vars
  <2>2. \A r \in Requests : CommandsOf(r)' = CommandsOf(r)
    BY <2>1 DEF CommandsOf
  <2> QED
    BY <2>2 DEF CommandInv, Used
<1> DEFINE K == Cardinality(CommandsOf(r))
           b == crashes * K
<1>1. /\ K \in Nat /\ crashes \in Nat /\ commands[r] \in Nat /\ MaxCrashes \in Nat
      /\ \A n \in Nat : Cardinality(CommandsBefore(r, n)) <= K
                        /\ Cardinality(CommandsBefore(r, n)) \in Nat
  <2>1. crashes \in 0 .. MaxCrashes /\ commands \in [Requests -> 0 .. MaxCommands]
    BY DEF TypeOK
  <2>2. crashes \in Nat /\ commands[r] \in Nat /\ MaxCrashes \in Nat
    BY <2>1, BoundAssumption
  <2>3. /\ K \in Nat
        /\ \A n \in Nat : Cardinality(CommandsBefore(r, n)) <= K
                          /\ Cardinality(CommandsBefore(r, n)) \in Nat
    BY CommandCounts
  <2> QED
    BY <2>2, <2>3
<1>2. job.kind = "run" => job.next \in Nat
  BY JobKinds DEF RunJob
<1>3. Used(r) \in Nat /\ Used(r) <= K
  BY <1>1, <1>2 DEF Used
<1>4. /\ Recorded(r) => commands[r] <= (1 + crashes) * K
      /\ ~Recorded(r) => commands[r] <= crashes * K + Used(r)
  BY DEF CommandInv, Used
<1> HIDE DEF K
<1>5. /\ b \in Nat /\ (1 + crashes) * K = b + K
      /\ (1 + (crashes + 1)) * K = b + K + K /\ (crashes + 1) * K = b + K
  BY <1>1, Product
<1> HIDE DEF b
<1>6. /\ Recorded(r) => commands[r] <= b + K
      /\ ~Recorded(r) => commands[r] <= b + Used(r)
  BY <1>4, <1>5 DEF b
<1>7. CASE RunStep
  <2>1. /\ crashes' = crashes /\ Recorded(r)' = Recorded(r)
        /\ commands'[r] - commands[r] <= Used(r)' - Used(r) /\ Used(r)' \in Nat
    BY <1>7, CommandRun DEF Recorded, records
  <2>2. commands'[r] \in Nat
    BY <1>7, RunType, BoundAssumption DEF TypeOK
  <2>3. ~Recorded(r) => commands'[r] <= b + Used(r)'
    BY <1>1, <1>3, <1>5, <1>6, <2>1, <2>2
  <2>4. Recorded(r) => commands'[r] <= b + K
    <3>1. ASSUME Recorded(r) PROVE Used(r)' = Used(r)
      <4>1. job.kind = "run" /\ job'.req = job.req
        BY <1>7, RunLog DEF LogStep
      <4>2. job.req # r
        BY <3>1, <4>1 DEF JobInv
      <4> QED
        BY <4>1, <4>2 DEF Used
    <3> QED
      BY <1>1, <1>3, <1>5, <1>6, <2>1, <2>2, <3>1
  <2> QED
    BY <1>5, <2>1, <2>3, <2>4 DEF b, K
<1>8. CASE CommitRun
  <2>1. /\ crashes' = crashes /\ commands' = commands /\ job' = Idle
        /\ job.kind = "run" /\ job.req \in Requests /\ Wrote(job.req, "real_run")
    BY <1>8, CommitCases, RowWritten, JobKinds
    DEF CommitRun, AtCommit, bounds, history, RunJob, Modes, TypeOK, Wrote
  <2>2. CASE r = job.req
    <3>1. Recorded(r)'
      BY <2>1, <2>2 DEF Wrote, Recorded
    <3>2. commands[r] <= b + K
      BY <1>1, <1>3, <1>5, <1>6
    <3> QED
      BY <1>5, <2>1, <3>1, <3>2 DEF b, K
  <2>3. CASE r # job.req
    <3>1. Recorded(r)' = Recorded(r) /\ Used(r)' = 0 /\ Used(r) = 0
      BY <2>1, <2>3 DEF Wrote, Recorded, Used, Idle
    <3> QED
      BY <1>5, <1>6, <2>1, <3>1 DEF b, K
  <2> QED
    BY <2>2, <2>3
<1>9. CASE Crash
  <2>1. crashes' = crashes + 1 /\ commands' = commands /\ job' = Idle /\ result' = result
    BY <1>9 DEF Crash, records, history
  <2>2. Recorded(r)' = Recorded(r) /\ Used(r)' = 0
    BY <2>1 DEF Recorded, Used, Idle
  <2>3. commands[r] <= b + K /\ b + K <= b + K + K /\ b + K = b + K + 0
    BY <1>1, <1>3, <1>5, <1>6
  <2>4. /\ (1 + crashes') * K = b + K + K /\ crashes' * K = b + K
    BY <1>5, <2>1
  <2> QED
    BY <1>1, <1>5, <2>1, <2>2, <2>3, <2>4 DEF K
<1>10. CASE LoseRun
  BY <1>10 DEF LoseRun, AtCommit, SavedInv
<1>11. CASE \E q \in Requests, strict \in BOOLEAN : StartRun(q, strict)
  <2>1. PICK q \in Requests, strict \in BOOLEAN : StartRun(q, strict)
    BY <1>11
  <2>2. /\ crashes' = crashes /\ commands' = commands /\ result' = result /\ plan' = plan
        /\ job = Idle /\ job'.kind = "run" /\ job'.req = q /\ job'.next = 1
    BY <2>1 DEF StartRun, bounds, records
  <2>3. Used(r) = 0 /\ Recorded(r)' = Recorded(r)
    BY <2>2 DEF Used, Recorded, Idle
  <2>4. Used(r)' = IF q = r THEN Cardinality(CommandsBefore(r, 1)) ELSE 0
    BY <2>2 DEF Used, CommandsBefore
  <2>5. Used(r)' \in Nat
    BY <1>1, <2>4
  <2> QED
    BY <1>1, <1>5, <1>6, <2>2, <2>3, <2>5 DEF b, K
<1>12. CASE UNCHANGED <<plan, crashes, commands>> /\ result'[r]["real_run"] = result[r]["real_run"]
            /\ (job' = job \/ (job.kind # "run" /\ job'.kind # "run"))
  <2>1. Recorded(r)' = Recorded(r) /\ Used(r)' = Used(r)
    BY <1>12 DEF Recorded, Used, CommandsBefore
  <2> QED
    BY <1>5, <1>6, <1>12, <2>1 DEF b, K
<1>13. ASSUME ~RunStep, ~CommitRun, ~Crash, ~LoseRun,
              ~(\E q \in Requests, strict \in BOOLEAN : StartRun(q, strict))
       PROVE  UNCHANGED <<plan, crashes, commands>> /\ result'[r]["real_run"] = result[r]["real_run"]
              /\ (job' = job \/ (job.kind # "run" /\ job'.kind # "run"))
  <2>1. CASE UndoStep
    <3>1. job.kind = "undo" /\ job'.kind = "undo"
      BY <2>1, UndoStepJob, UndoneJob
    <3> QED
      BY <2>1, <3>1
      DEF UndoStep, UndoNothing, UndoFails, UndoModify, UndoCreate, UndoWrite, records, bounds, history
  <2>2. CASE UserStep \/ UNCHANGED vars
    BY <2>2, UserChange DEF vars, records, bounds, history
  <2>3. CASE \E q \in Requests, strict \in BOOLEAN : DryRun(q, strict)
    <3>1. result'[r]["real_run"] = result[r]["real_run"]
      BY <1>13, CommitCases, <2>3 DEF DryRun, TypeOK, Modes
    <3> QED
      BY <2>3, <3>1 DEF DryRun, bounds, Idle
  <2>4. CASE CommitUndo
    <3>1. result'[r]["real_run"] = result[r]["real_run"]
      BY <2>4, JobKinds DEF CommitUndo, TypeOK, Modes
    <3> QED
      BY <2>4, <3>1 DEF CommitUndo, bounds, history, Idle
  <2>5. CASE \E q \in Requests : StartUndo(q)
    BY <2>5 DEF StartUndo, records, bounds, history, Idle
  <2>6. CASE \E w \in Workspaces : Repoint(w)
    BY <2>6 DEF Repoint, records, history
  <2> QED
    BY <1>13, <2>1, <2>2, <2>3, <2>4, <2>5, <2>6
    DEF Next, Call, JobStep, Environment, RunStep, UndoStep, UserStep
<1> QED
  BY <1>7, <1>8, <1>9, <1>10, <1>11, <1>12, <1>13

\* Where no plan modifies a file twice, the commands of a plan run at most once
\* and once more for every crash, however often the execution is posted.
THEOREM CommandsRunOnce == OneModifyEach => (Spec => []CommandsOnce)
<1> SUFFICES ASSUME OneModifyEach PROVE Spec => []CommandsOnce
  OBVIOUS
<1>1. Init => SavedInv /\ CommandInv
  <2> SUFFICES ASSUME Init PROVE SavedInv /\ CommandInv
    OBVIOUS
  <2>1. Inv
    BY InitInv
  <2>2. job.kind = "idle" /\ crashes = 0
        /\ \A r \in Requests : commands[r] = 0 /\ ~Recorded(r)
    BY DEF Init, Idle, Recorded, Modes
  <2>3. \A r \in Requests : Cardinality(CommandsOf(r)) \in Nat
    BY <2>1, CommandCounts DEF Inv
  <2> QED
    BY <2>2, <2>3 DEF SavedInv, CommandInv
<1>2. Inv /\ SavedInv /\ CommandInv /\ [Next]_vars => SavedInv' /\ CommandInv'
  BY SavedStep, CommandStep
<1>3. Inv /\ CommandInv => CommandsOnce
  <2> SUFFICES ASSUME Inv, CommandInv, NEW r \in Requests
               PROVE  commands[r] <= (1 + crashes) * Cardinality(CommandsOf(r))
    BY DEF CommandsOnce, CommandsOf
  <2> DEFINE K == Cardinality(CommandsOf(r))
             u == IF job.kind = "run" /\ job.req = r
                  THEN Cardinality(CommandsBefore(r, job.next)) ELSE 0
  <2>1. job.kind = "run" => job.next \in Nat
    BY JobKinds DEF Inv, RunJob
  <2>2. K \in Nat /\ crashes \in Nat /\ commands[r] \in Nat /\ u \in Nat /\ u <= K
    <3>1. crashes \in 0 .. MaxCrashes /\ commands \in [Requests -> 0 .. MaxCommands]
      BY DEF Inv, TypeOK
    <3>2. crashes \in Nat /\ commands[r] \in Nat
      BY <3>1, BoundAssumption
    <3>3. /\ K \in Nat
          /\ \A n \in Nat : Cardinality(CommandsBefore(r, n)) <= K
                            /\ Cardinality(CommandsBefore(r, n)) \in Nat
      BY CommandCounts DEF Inv
    <3>4. u \in Nat /\ u <= K
      BY <2>1, <3>3
    <3> QED
      BY <3>2, <3>3, <3>4
  <2>3. commands[r] <= (1 + crashes) * K \/ commands[r] <= crashes * K + u
    BY DEF CommandInv
  <2> HIDE DEF K, u
  <2>4. crashes * K \in Nat /\ (1 + crashes) * K = crashes * K + K
    BY <2>2, Product
  <2> QED
    BY <2>2, <2>3, <2>4 DEF K
<1> QED
  BY InvHolds, <1>1, <1>2, <1>3, PTL DEF Spec

=============================================================================
