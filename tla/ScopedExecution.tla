--------------------------- MODULE ScopedExecution ---------------------------
(* What a confirmed request does to the user's workspace: the dry run that   *)
(* previews it, the real run that writes files and runs commands one by one  *)
(* and records its result and backups in ONE commit at the end, and the      *)
(* rollback that reads them back.  The handlers block the event loop, so one *)
(* job runs at a time; but the process can die between any two writes, and   *)
(* the user, an editor or a build keeps changing the same files meanwhile.   *)
(* The approvals in front of a run are in ExecutionChain.                    *)

EXTENDS Naturals, Sequences, FiniteSets, SequencesExt

CONSTANTS
    Requests,      \* confirmed execution requests
    Workspaces,    \* directories that projects.local_repo_path can name
    Paths,         \* workspace-relative paths
    Nested,        \* the paths inside a subdirectory that may not exist
    Sensitive,     \* the paths _is_sensitive_path refuses
    Contents,      \* file contents, as bytes
    NotText,       \* the contents that are not UTF-8
    Decoded,       \* Decoded[c]: c read and written again in text mode
    NoContent,     \* a proposed_files entry whose content is not a string
    PlanSet,       \* the plans a snapshot may hold
    MaxCrashes,    \* bound: how often the process dies
    MaxEdits,      \* bound: how often someone else changes the workspace
    MaxMoves,      \* bound: how often the project is pointed elsewhere
    MaxCommands    \* bound: where the counting of commands stops

Absent  == "absent"
Symlink == "symlink"       \* to a place inside the workspace
Nowhere == "nowhere"

ASSUME ContentAssumption ==
    /\ Nested \subseteq Paths /\ Sensitive \subseteq Paths
    /\ NotText \subseteq Contents
    /\ Decoded \in [Contents \ NotText -> Contents \ NotText]
    /\ {Absent, Symlink, NoContent} \cap Contents = {}

ASSUME BoundAssumption ==
    /\ {MaxCrashes, MaxEdits, MaxMoves, MaxCommands} \subseteq Nat
    /\ Nowhere \notin Requests \union Workspaces

\* The steps of a plan, files before commands.  "edit" stands for every
\* operation name that action_policy maps to file_modify but is not "modify".
FileOps == {"create", "modify", "edit"}
Steps == [op : FileOps, path : Paths, content : Contents \union {NoContent}]
             \union [op : {"run"}]

ASSUME PlanAssumption ==
    /\ PlanSet \subseteq Seq(Steps)
    /\ \A p \in PlanSet : \A i, j \in 1 .. Len(p) :
           i < j /\ p[i].op = "run" => p[j].op = "run"

VARIABLES
    plan,        \* plan[r]: the steps frozen in r's snapshot
    disk,        \* disk[w][f]: contents of file f of workspace w
    subdir,      \* subdir[w]: does the directory of the Nested paths exist?
    current,     \* projects.local_repo_path
    job,         \* the handler on the event loop, gone after a crash
    result,      \* execution_results: status per request and mode
    fileLog,     \* result_data of the real run: one entry per step
    backups,     \* execution_file_backups of the real run
    crashes, edits, moves,          \* how much of each bound is used
    before,      \* history: r's workspace when its last attempt began
    original,    \* history: r's workspace when its first attempt began
    ranIn,       \* history: the workspace of r's last attempt
    touched,     \* history: what others changed in it since
    commands,    \* history: commands run for r, over all attempts
    preview      \* history: what r's dry run saw

records == <<result, fileLog, backups>>
history == <<before, original, ranIn, touched, commands, preview>>
bounds == <<crashes, edits, moves>>
vars == <<plan, disk, subdir, current, job, records, bounds, history>>

Modes == {"dry_run", "real_run", "rollback"}
Files == Contents \union {Absent, Symlink}
Trees == [Paths -> Files]
Idle == [kind |-> "idle"]
Entries == [step : Steps, status : {"success", "failed", "skipped"},
            why : {"none", "parent", "other"}]
Backups == [path : Paths, content : Contents \ NotText, hash : Contents]

\* The locals of a running handler: the file or log entry it comes to next,
\* whether it holds a prepared file, its log, and pending_backups.
RunJob == [kind : {"run"}, req : Requests, ws : Workspaces, strict : BOOLEAN,
           next : Nat \ {0}, held : BOOLEAN, log : Seq(Entries), saved : Seq(Backups)]
UndoJob == [kind : {"undo"}, req : Requests, ws : Workspaces,
            next : Nat \ {0}, log : Seq(Entries), saved : Seq(Backups)]

TypeOK ==
    /\ plan \in [Requests -> PlanSet]
    /\ disk \in [Workspaces -> Trees]
    /\ subdir \in [Workspaces -> BOOLEAN]
    /\ current \in Workspaces
    /\ job \in RunJob \union UndoJob \union {Idle}
    /\ result \in [Requests -> [Modes -> {"none", "completed", "failed"}]]
    /\ fileLog \in [Requests -> Seq(Entries)]
    /\ backups \in [Requests -> SUBSET Backups]
    /\ crashes \in 0 .. MaxCrashes /\ edits \in 0 .. MaxEdits /\ moves \in 0 .. MaxMoves
    /\ before \in [Requests -> Trees] /\ original \in [Requests -> Trees]
    /\ ranIn \in [Requests -> Workspaces \union {Nowhere}]
    /\ touched \in [Requests -> SUBSET Paths]
    /\ commands \in [Requests -> 0 .. MaxCommands]
    /\ preview \in [Requests -> [strict : BOOLEAN, ws : Workspaces \union {Nowhere},
                                stale : BOOLEAN]]

Init ==
    /\ plan \in [Requests -> PlanSet]
    /\ subdir \in [Workspaces -> BOOLEAN]
    /\ disk \in [Workspaces -> [Paths -> Contents \union {Absent}]]
    /\ \A w \in Workspaces, f \in Nested : ~subdir[w] => disk[w][f] = Absent
    /\ current \in Workspaces
    /\ job = Idle
    /\ result = [r \in Requests |-> [m \in Modes |-> "none"]]
    /\ fileLog = [r \in Requests |-> <<>>]
    /\ backups = [r \in Requests |-> {}]
    /\ crashes = 0 /\ edits = 0 /\ moves = 0
    /\ before = [r \in Requests |-> disk[current]]
    /\ original = before
    /\ ranIn = [r \in Requests |-> Nowhere]
    /\ touched = [r \in Requests |-> {}]
    /\ commands = [r \in Requests |-> 0]
    /\ preview = [r \in Requests |-> [strict |-> TRUE, ws |-> Nowhere, stale |-> FALSE]]

\* Bookkeeping: someone other than request `self` changed files fs of w.
Disturb(w, fs, self) ==
    /\ touched' = [r \in Requests |->
                     IF r # self /\ ranIn[r] = w THEN touched[r] \union fs ELSE touched[r]]
    /\ preview' = [r \in Requests |->
                     IF r # self /\ preview[r].ws = w
                     THEN [preview[r] EXCEPT !.stale = TRUE] ELSE preview[r]]
    /\ UNCHANGED <<before, original, ranIn>>

HasParent(w, f) == f \in Nested => subdir[w]

-----------------------------------------------------------------------------
(* run_dry_execution: only the parent directories are looked at.             *)

\* Mutant: only new files are checked for their parent.
PredictedFailure_createOnly(r, strict) ==
    /\ strict
    /\ \E i \in DOMAIN plan[r] : /\ plan[r][i].op = "create"
                                 /\ ~HasParent(current, plan[r][i].path)

PredictedFailure(r, strict) ==
    /\ strict
    /\ \E i \in DOMAIN plan[r] : /\ plan[r][i].op \in {"create", "modify"}
                                 /\ ~HasParent(current, plan[r][i].path)

DryRun(r, strict) ==
    /\ job = Idle
    /\ result[r]["dry_run"] = "none"
    /\ result' = [result EXCEPT ![r]["dry_run"] =
                    IF PredictedFailure(r, strict) THEN "failed" ELSE "completed"]
    /\ preview' = [preview EXCEPT
                     ![r] = [strict |-> strict, ws |-> current, stale |-> FALSE]]
    /\ UNCHANGED <<plan, disk, subdir, current, job, fileLog, backups, bounds,
                   before, original, ranIn, touched, commands>>

-----------------------------------------------------------------------------
(* execute_scoped_files.                                                     *)

\* Mutant: the request's earlier real run is not looked up.
StartRun_again(r, strict) ==
    /\ job = Idle
    /\ result[r]["dry_run"] = "completed"
    /\ job' = [kind |-> "run", req |-> r, ws |-> current, strict |-> strict,
               next |-> 1, held |-> FALSE, log |-> <<>>, saved |-> <<>>]
    /\ before' = [before EXCEPT ![r] = disk[current]]
    /\ original' = original
    /\ ranIn' = [ranIn EXCEPT ![r] = current]
    /\ touched' = [touched EXCEPT ![r] = {}]
    /\ UNCHANGED <<plan, disk, subdir, current, records, bounds, commands, preview>>

StartRun(r, strict) ==
    /\ job = Idle
    /\ result[r]["dry_run"] = "completed"
    /\ result[r]["real_run"] = "none"
    /\ job' = [kind |-> "run", req |-> r, ws |-> current, strict |-> strict,
               next |-> 1, held |-> FALSE, log |-> <<>>, saved |-> <<>>]
    /\ before' = [before EXCEPT ![r] = disk[current]]
    /\ original' = IF ranIn[r] = Nowhere
                   THEN [original EXCEPT ![r] = disk[current]] ELSE original
    /\ ranIn' = [ranIn EXCEPT ![r] = current]
    /\ touched' = [touched EXCEPT ![r] = {}]
    /\ UNCHANGED <<plan, disk, subdir, current, records, bounds, commands, preview>>

Running(op) == /\ job.kind = "run"
               /\ job.next <= Len(plan[job.req])
               /\ plan[job.req][job.next].op \in op

Step == plan[job.req][job.next]
Entry(step, status, why) == [step |-> step, status |-> status, why |-> why]

\* The job after a success or skip of its step: on to the next one.
Advanced(status) ==
    [job EXCEPT !.next = @ + 1, !.held = FALSE,
                !.log = Append(@, Entry(Step, status, "none"))]

\* Mutant: after a failed file the next one is tried.
Stopped_goesOn(why) ==
    [job EXCEPT !.next = @ + 1, !.held = FALSE,
                !.log = Append(@, Entry(Step, "failed", why))]

\* Mutant: a failed file is reported with the status of the rollback log.
Stopped_oddStatus(why) ==
    [job EXCEPT !.next = Len(plan[job.req]) + 1, !.held = FALSE,
                !.log = Append(@, Entry(Step, "rollback_failed", why))]

\* The job after a failed file: every later file and command is skipped.
Stopped(why) ==
    LET steps == plan[job.req]
        rest == SubSeq(steps, job.next + 1, Len(steps))
    IN [job EXCEPT !.next = Len(steps) + 1, !.held = FALSE,
                   !.log = Append(@, Entry(Step, "failed", why))
                             \o [i \in DOMAIN rest |-> Entry(rest[i], "skipped", "none")]]

\* Operations other than exactly "create" and "modify" are skipped.
SkipFile ==
    /\ Running({"edit"})
    /\ job' = Advanced("skipped")
    /\ UNCHANGED <<plan, disk, subdir, current, records, bounds, history>>

\* The checks of one file in their order; the first that fails names the entry.
ParentMissing == /\ Step.path \notin Sensitive
                 /\ disk[job.ws][Step.path] # Symlink
                 /\ ~HasParent(job.ws, Step.path)
                 /\ job.strict

Refused ==
    LET now == disk[job.ws][Step.path] IN
    \/ Step.path \in Sensitive
    \/ now = Symlink
    \/ ParentMissing
    \/ Step.op = "create" /\ now # Absent
    \/ Step.op = "modify" /\ now \in {Absent} \union NotText
    \/ Step.content = NoContent

\* os.makedirs comes before the checks of the file itself, and stays if they fail.
MakeParent ==
    subdir' = [subdir EXCEPT ![job.ws] =
                 @ \/ (Step.path \in Nested \ Sensitive /\ ~job.strict)]

RefuseFile ==
    /\ Running({"create", "modify"})
    /\ ~job.held
    /\ Refused
    /\ MakeParent
    /\ job' = Stopped(IF ParentMissing THEN "parent" ELSE "other")
    /\ UNCHANGED <<plan, disk, current, records, bounds, history>>

\* The checks passed: the original goes to pending_backups (in memory), the new
\* content to a temporary file.
PrepareFile ==
    /\ Running({"create", "modify"})
    /\ ~job.held
    /\ ~Refused
    /\ MakeParent
    /\ LET now == disk[job.ws][Step.path]
           copy == [path |-> Step.path, content |-> Decoded[now], hash |-> now]
       IN job' = [job EXCEPT !.held = TRUE,
                             !.saved = IF Step.op = "modify" THEN Append(@, copy) ELSE @]
    /\ UNCHANGED <<plan, disk, current, records, bounds, history>>

\* os.replace: whatever is at the path now is overwritten.
ReplaceFile ==
    /\ Running({"create", "modify"})
    /\ job.held
    /\ HasParent(job.ws, Step.path)
    /\ disk' = [disk EXCEPT ![job.ws][Step.path] = Step.content]
    /\ Disturb(job.ws, {Step.path}, job.req)
    /\ job' = Advanced("success")
    /\ UNCHANGED <<plan, subdir, current, records, bounds, commands>>

\* Mutant: the file is written in place, so a failing write leaves its half.
FailWrite_inPlace ==
    /\ Running({"create", "modify"})
    /\ job.held
    /\ HasParent(job.ws, Step.path)
    /\ disk' = [disk EXCEPT ![job.ws][Step.path] = Step.content]
    /\ Disturb(job.ws, {Step.path}, job.req)
    /\ job' = Stopped("other")
    /\ UNCHANGED <<plan, subdir, current, records, bounds, commands>>

\* The write raises (disk full, parent gone): the temporary file is removed.
FailWrite ==
    /\ Running({"create", "modify"})
    /\ job.held
    /\ job' = Stopped("other")
    /\ UNCHANGED <<plan, disk, subdir, current, records, bounds, history>>

\* execute_scoped_commands: success, or failure or timeout, which ends the run
\* with no entry for the commands after it.
RunCommand(status) ==
    /\ Running({"run"})
    /\ job' = IF status = "success" THEN Advanced(status)
              ELSE [job EXCEPT !.next = Len(plan[job.req]) + 1,
                               !.log = Append(@, Entry(Step, status, "other"))]
    /\ commands' = [commands EXCEPT ![job.req] = IF @ < MaxCommands THEN @ + 1 ELSE @]
    /\ UNCHANGED <<plan, disk, subdir, current, records, bounds, before,
                   original, ranIn, touched, preview>>

Failures(log) == {i \in DOMAIN log : log[i].status = "failed"}

AtCommit == job.kind = "run" /\ job.next > Len(plan[job.req])

\* Mutant: UNIQUE (execution_result_id) alone.
DuplicateBackup_oneBackup == Len(job.saved) > 1

\* UNIQUE (execution_result_id, path) of execution_file_backups.
DuplicateBackup == \E i, j \in DOMAIN job.saved :
                       i # j /\ job.saved[i].path = job.saved[j].path

\* Mutant: the commit comes before the backups are inserted.
CommitRun_noBackups ==
    /\ AtCommit
    /\ ~DuplicateBackup
    /\ result' = [result EXCEPT ![job.req]["real_run"] =
                    IF Failures(job.log) = {} THEN "completed" ELSE "failed"]
    /\ fileLog' = [fileLog EXCEPT ![job.req] = job.log]
    /\ job' = Idle
    /\ UNCHANGED <<plan, disk, subdir, current, backups, bounds, history>>

\* The single commit: result row and backups together.
CommitRun ==
    /\ AtCommit
    /\ ~DuplicateBackup
    /\ result' = [result EXCEPT ![job.req]["real_run"] =
                    IF Failures(job.log) = {} THEN "completed" ELSE "failed"]
    /\ fileLog' = [fileLog EXCEPT ![job.req] = job.log]
    /\ backups' = [backups EXCEPT ![job.req] = ToSet(job.saved)]
    /\ job' = Idle
    /\ UNCHANGED <<plan, disk, subdir, current, bounds, history>>

\* IntegrityError: HTTP 500 and the transaction is dropped; the files stay.
LoseRun ==
    /\ AtCommit
    /\ DuplicateBackup
    /\ job' = Idle
    /\ UNCHANGED <<plan, disk, subdir, current, records, bounds, history>>

-----------------------------------------------------------------------------
(* rollback_execution, in whatever workspace the project names by then.      *)

\* Mutant: an existing rollback is not looked up.
StartUndo_again(r) ==
    /\ job = Idle
    /\ result[r]["real_run"] # "none"
    /\ job' = [kind |-> "undo", req |-> r, ws |-> current, next |-> 1,
               log |-> <<>>, saved |-> <<>>]
    /\ UNCHANGED <<plan, disk, subdir, current, records, bounds, history>>

StartUndo(r) ==
    /\ job = Idle
    /\ result[r]["real_run"] # "none"
    /\ result[r]["rollback"] = "none"
    /\ job' = [kind |-> "undo", req |-> r, ws |-> current, next |-> 1,
               log |-> <<>>, saved |-> <<>>]
    /\ UNCHANGED <<plan, disk, subdir, current, records, bounds, history>>

Undone == fileLog[job.req][job.next]

Undoing(ops) == /\ job.kind = "undo"
                /\ job.next <= Len(fileLog[job.req])
                /\ Undone.step.op \in ops

\* Mutant: fail_count is not incremented.
UndoNext_ignoresFailure(status) == job' = [job EXCEPT !.next = @ + 1]

\* The log of an undo job holds an entry per file it could not put back.
UndoNext(status) ==
    job' = [job EXCEPT !.next = @ + 1,
                       !.log = IF status = "failed"
                               THEN Append(@, Entry(Undone.step, status, "other")) ELSE @]

\* Commands and unsuccessful files are passed over.
UndoNothing ==
    /\ Undoing(FileOps \union {"run"})
    /\ Undone.status # "success" \/ Undone.step.op = "run"
    /\ UndoNext("skipped")
    /\ UNCHANGED <<plan, disk, subdir, current, records, bounds, history>>

\* Best effort: a symlink, a missing backup or parent, a failing write or
\* unlink is noted, and the next file is tried.
UndoFails ==
    /\ Undoing({"create", "modify"})
    /\ Undone.status = "success"
    /\ UndoNext("failed")
    /\ UNCHANGED <<plan, disk, subdir, current, records, bounds, history>>

UndoWrite(f, c) ==
    /\ disk[job.ws][f] # Symlink
    /\ disk' = [disk EXCEPT ![job.ws][f] = c]
    /\ Disturb(job.ws, {f}, job.req)
    /\ UndoNext("success")
    /\ UNCHANGED <<plan, subdir, current, records, bounds, commands>>

\* A hash mismatch after the write is counted as restored.
UndoModify ==
    /\ Undoing({"modify"})
    /\ Undone.status = "success"
    /\ HasParent(job.ws, Undone.step.path)
    /\ \E b \in backups[job.req] :
          /\ b.path = Undone.step.path
          /\ UndoWrite(b.path, Decoded[b.content])

\* A file that is already absent counts as deleted.
UndoCreate ==
    /\ Undoing({"create"})
    /\ Undone.status = "success"
    /\ UndoWrite(Undone.step.path, Absent)

CommitUndo ==
    /\ job.kind = "undo"
    /\ job.next > Len(fileLog[job.req])
    /\ result' = [result EXCEPT ![job.req]["rollback"] =
                    IF job.log = <<>> THEN "completed" ELSE "failed"]
    /\ job' = Idle
    /\ UNCHANGED <<plan, disk, subdir, current, fileLog, backups, bounds, history>>

-----------------------------------------------------------------------------
(* The environment.                                                          *)

Crash ==
    /\ job # Idle
    /\ crashes < MaxCrashes
    /\ crashes' = crashes + 1
    /\ job' = Idle
    /\ UNCHANGED <<plan, disk, subdir, current, records, edits, moves, history>>

\* Someone else writes, deletes or links a file.
UserEdit(w, f, c) ==
    /\ edits < MaxEdits
    /\ HasParent(w, f)
    /\ disk[w][f] # c
    /\ edits' = edits + 1
    /\ disk' = [disk EXCEPT ![w][f] = c]
    /\ Disturb(w, {f}, Nowhere)
    /\ UNCHANGED <<plan, subdir, current, job, records, crashes, moves, commands>>

\* Someone else makes the subdirectory, or removes it with its files.
UserDirectory(w) ==
    /\ edits < MaxEdits
    /\ edits' = edits + 1
    /\ subdir' = [subdir EXCEPT ![w] = ~@]
    /\ disk' = [disk EXCEPT ![w] = [f \in Paths |-> IF f \in Nested THEN Absent ELSE @[f]]]
    /\ Disturb(w, Nested, Nowhere)
    /\ UNCHANGED <<plan, current, job, records, crashes, moves, commands>>

\* update_project: PATCH /projects/{id} with another local_repo_path.
Repoint(w) ==
    /\ job = Idle
    /\ moves < MaxMoves
    /\ w # current
    /\ moves' = moves + 1
    /\ current' = w
    /\ UNCHANGED <<plan, disk, subdir, job, records, crashes, edits, history>>

JobStep ==
    \/ SkipFile \/ RefuseFile \/ PrepareFile \/ ReplaceFile \/ FailWrite
    \/ \E status \in {"success", "failed"} : RunCommand(status)
    \/ CommitRun \/ LoseRun
    \/ UndoNothing \/ UndoFails \/ UndoModify \/ UndoCreate \/ CommitUndo

Call ==
    \/ \E r \in Requests, strict \in BOOLEAN : DryRun(r, strict) \/ StartRun(r, strict)
    \/ \E r \in Requests : StartUndo(r)

Environment ==
    \/ Crash
    \/ \E w \in Workspaces : UserDirectory(w) \/ Repoint(w)
    \/ \E w \in Workspaces, f \in Paths, c \in Files : UserEdit(w, f, c)

Next == Call \/ JobStep \/ Environment

Spec == Init /\ [][Next]_vars

\* A handler on the event loop runs on; its commands time out after 60 seconds.
FairSpec == Spec /\ WF_vars(JobStep)

-----------------------------------------------------------------------------
(* The properties.                                                           *)

Recorded(r) == result[r]["real_run"] # "none"
Written(r, ops) == {i \in DOMAIN fileLog[r] : /\ fileLog[r][i].status = "success"
                                              /\ fileLog[r][i].step.op \in ops}
ModifiesTwice(steps) ==
    \E i, j \in DOMAIN steps : /\ i < j
                               /\ steps[i].op = "modify" /\ steps[j].op = "modify"
                               /\ steps[i].path = steps[j].path
Untouched(r) == Paths \ touched[r]

\* Is file `now` what `was` has become: the same bytes, or the same text after
\* the backup has been read and written in text mode?
PutBack(now, was) ==
    \/ now = was
    \/ was \in DOMAIN Decoded /\ now = Decoded[Decoded[was]]

\* A rollback that reports "completed" has put back every file nobody else
\* changed since the run began, wherever the run stopped and however often a
\* crash interrupted the run or the rollback (rollback_execution); line ends
\* aside, which it silently rewrites.
RollbackRestores ==
    \A r \in Requests : result[r]["rollback"] = "completed" =>
        \A f \in Untouched(r) : PutBack(disk[ranIn[r]][f], before[r][f])

\* The same from the first attempt on, when a crash left files that no result
\* row describes (execution-pipeline.md: backed up before it is overwritten).
OriginalRecoverable ==
    \A r \in Requests : result[r]["rollback"] = "completed" =>
        \A f \in Untouched(r) : disk[ranIn[r]][f] = original[r][f]

\* A recorded run changed no file its log does not report as written: nothing
\* is half written, and nothing after the first failure (execute_scoped_files).
LogTellsTruth ==
    \A r \in Requests : Recorded(r) =>
        \A f \in Untouched(r) \ {fileLog[r][i].step.path :
                                    i \in Written(r, {"create", "modify"})} :
            disk[ranIn[r]][f] = before[r][f]

\* A failure is the last thing that happened: files after it are skipped, and
\* no command was even tried after a failed file.
FailFast ==
    \A r \in Requests : \A i \in Failures(fileLog[r]) :
        \A j \in i+1 .. Len(fileLog[r]) : fileLog[r][j].status = "skipped"

\* Every overwritten file of a recorded run has the backup its rollback needs,
\* with the hash of what the run found, and no backup is stored without a run.
BackupsMatchLog ==
    \A r \in Requests :
        /\ backups[r] # {} => Recorded(r)
        /\ \A i \in Written(r, {"modify"}) : \E b \in backups[r] :
              LET f == fileLog[r][i].step.path IN
              b.path = f /\ (f \in Untouched(r) => b.hash = before[r][f])

\* Without a crash the commands of a plan run at most once, however often the
\* execution is posted (execute_scoped: repeat calls return the result).
CommandsOnce ==
    \A r \in Requests :
        commands[r] <= (1 + crashes)
                         * Cardinality({i \in DOMAIN plan[r] : plan[r][i].op = "run"})

\* A missing parent fails the run only if the dry run was asked not to look,
\* looked elsewhere, or the workspace changed after it (run_dry_execution).
PreviewFaithful ==
    \A r \in Requests :
        (\E i \in DOMAIN fileLog[r] : fileLog[r][i].why = "parent") =>
            ~preview[r].strict \/ preview[r].stale \/ preview[r].ws # ranIn[r]

\* Runs and rollbacks, cut into steps and interrupted, still write the ledger
\* one row at a time and in order.
Ledger == INSTANCE ResultLedger WITH ledger <- result
LedgerSpec == Ledger!LedgerSpec

\* Every run and rollback that starts is recorded in the end (no crash), unless
\* the plan modifies one path twice.
JobRecorded ==
    \A r \in Requests :
        /\ job.kind = "run" /\ job.req = r ~> Recorded(r) \/ ModifiesTwice(plan[r])
        /\ job.kind = "undo" /\ job.req = r ~> result[r]["rollback"] # "none"
=============================================================================
