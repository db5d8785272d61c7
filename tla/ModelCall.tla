----------------------------- MODULE ModelCall -----------------------------
(* One agent step answered by a language model: Orchestrator._execute_step    *)
(* around ModelAgentExecutor.execute, with its retries of malformed JSON, its *)
(* read-only tool loop and its fall-backs, beside a user who PATCHes the      *)
(* role's model settings.  The coroutine gives way only in provider.complete  *)
(* (tools and list_models are awaited but never suspend), so all it does      *)
(* between two answers is one action.                                         *)

EXTENDS Naturals, Sequences, FiniteSets

CONSTANTS
    Providers,             \* providers the user may choose
    JSON_RETRY_MAX,        \* retries after the first attempt
    TOOL_LOOP_MAX_ROUNDS   \* completions of one tool loop

VARIABLES
    role,      \* the role executed
    setting,   \* its provider in role_model_settings, or Unusable
    pc,
    provider,  \* what _resolve_provider returned
    attempt,   \* of _parse_retry_core
    loop,      \* locals of this attempt: accum_usage, counters, last_content
    talk,      \* `messages` of this attempt
    row,       \* the agent_runs row, with its token_usage_log row
    summary,   \* the tool-loop SUMMARY in log_events
    seen       \* history: what was asked, answered and run

vars == <<role, setting, pc, provider, attempt, loop, talk, row, summary, seen>>

\* The pipeline stops when one of these fails ...
Blocking == {"planner", "builder", "reviewer"}
\* ... and these inform it (VETO INVARIANT).
Informing == {"architect", "qa", "security_reviewer", "documentation"}

ToolRoles == {"architect", "builder"}

Roles == Blocking \union Informing

\* No row, disabled, mock, no model, not registered, or without an API key.
Unusable == "unusable"

ASSUME ModelCallAssumption ==
    /\ JSON_RETRY_MAX \in Nat
    /\ TOOL_LOOP_MAX_ROUNDS \in Nat \ {0}
    /\ Providers \subseteq {"anthropic", "openai", "gemini"}

-----------------------------------------------------------------------------
(* Tools.                                                                    *)

\* _register_all_tools; the three git tools, which no role's list names and which
\* have no alias, are refused like write_file for a role that may not write.
Tools == {"read_file", "list_directory", "write_file", "shell"}

AliasMap == [read |-> "read_file", ls |-> "list_directory",
             write |-> "write_file", edit |-> "write_file", bash |-> "shell"]

AllowedTools ==
    [r \in Roles |->
        CASE r = "documentation" -> {"read", "grep", "glob"}
          [] r = "builder" -> {"read", "edit", "write", "bash", "grep", "glob"}
          [] r = "qa" -> {"read", "bash", "grep", "glob"}
          [] OTHER -> {"read", "grep", "glob"}]

Canonical(name) == IF name \in DOMAIN AliasMap THEN AliasMap[name] ELSE name

\* ToolRegistry.is_allowed: by the name itself, by an alias of the tool, or by
\* the tool an alias stands for.
IsAllowed(name, allowed) ==
    \/ name \in allowed
    \/ name \in Tools /\ \E a \in allowed \intersect DOMAIN AliasMap : AliasMap[a] = name
    \/ name \in DOMAIN AliasMap /\ AliasMap[name] \in allowed

\* What architect and builder pass as advertised_tools.
Advertised == {"read_file"}

\* Mutant: the role's list alone decides, as if it held read tools only.
Executes_byRole(name) ==
    IsAllowed(name, AllowedTools[role]) /\ Canonical(name) \in Tools

\* ENFORCEMENT 1, an unknown tool, ENFORCEMENT 2.
Executes(name) ==
    /\ IsAllowed(name, AllowedTools[role])
    /\ Canonical(name) \in Tools
    /\ Canonical(name) \in Advertised

-----------------------------------------------------------------------------
(* Answers of a model.                                                       *)

\* What _parse_and_validate finds in a text.  "ok_null" passes the schema with
\* `"proposed_commands": null`.
Content == {"ok", "ok_null", "schema", "json_parse"}

Requests == {"read_file", "read", "list_directory", "write_file", "bash", "grep"}
NoTool == "none"

\* `turn` is what _parse_tool_protocol makes of the text, `inner` the result in
\* a final envelope, `raw` the whole text taken as the role's output, `cut`
\* whether the output limit ended it.
Answers ==
    {a \in [turn : {"tool", "final", "malformed"}, tool : Requests \union {NoTool},
            inner : Content \ {"json_parse"}, raw : Content, cut : BOOLEAN] :
        /\ a.turn = "tool" <=> a.tool # NoTool
        /\ a.turn # "malformed" => a.raw \in {"schema", "json_parse"}
        /\ a.turn # "final" => a.inner = "schema"
        /\ a.cut => a.raw = "json_parse"}

\* CompletionResponse.finish_reason for a text that hit the limit.
CutReason == [anthropic |-> "max_tokens", openai |-> "length", gemini |-> "stop"]

FinishReason(p, cut) == IF cut THEN CutReason[p] ELSE "stop"

FinishReasons == {"none", "stop", "length", "max_tokens"}

\* Valid, and survives the role's own normalisation: for the Builder
\* _normalize_builder_proposal iterates over a null list and raises.
Usable(content) ==
    \/ content = "ok"
    \/ content = "ok_null" /\ role # "builder"

\* Not JSON, or refused by the role's schema: for the Builder a wrapper without
\* its two or three proposals, or one with a required field missing or ill-typed.
Rejected(content) == content \in {"schema", "json_parse"}

\* The text handed to _parse_and_validate when `a` ends the attempt.
Delivered(a) ==
    IF role \in ToolRoles /\ a.turn = "final" THEN a.inner ELSE a.raw

-----------------------------------------------------------------------------
(* State.                                                                    *)

LoopState ==
    [rounds : 1 .. TOOL_LOOP_MAX_ROUNDS, calls : 0 .. TOOL_LOOP_MAX_ROUNDS,
     requests : Seq(Tools), counted : 0 .. TOOL_LOOP_MAX_ROUNDS,
     finish : FinishReasons, last : Content]

Fresh == [rounds |-> 1, calls |-> 0, requests |-> <<>>, counted |-> 0,
          finish |-> "none", last |-> "json_parse"]

RowState ==
    [status : {"none", "running", "completed", "failed"},
     raw : {"none", "model", "fallback", "text"},
     provider : Providers \union {"seed"}, finish : FinishReasons,
     tokens : 0 .. TOOL_LOOP_MAX_ROUNDS]

NewRow == [status |-> "running", raw |-> "none", provider |-> "seed",
           finish |-> "none", tokens |-> 0]

SummaryState ==
    [rounds : 1 .. TOOL_LOOP_MAX_ROUNDS, calls : 0 .. TOOL_LOOP_MAX_ROUNDS,
     requests : Seq(Tools), ended : {"final", "max_rounds_exhausted", "error"}]

NoSummary == [rounds |-> 0]

Messages == {"task", "turn", "result", "refusal", "nudge"}

TypeOK ==
    /\ role \in Roles
    /\ setting \in Providers \union {Unusable}
    /\ pc \in {"idle", "asking", "recorded"}
    /\ provider \in Providers \union {Unusable}
    /\ attempt \in 0 .. JSON_RETRY_MAX
    /\ loop \in LoopState
    /\ talk \in Seq(Messages)
    /\ row \in RowState
    /\ summary \in SummaryState \union {NoSummary}
    /\ seen \in [calls : Nat, providers : SUBSET Providers, answers : Nat,
                 cut : BOOLEAN, usable : BOOLEAN, tools : SUBSET Tools]

\* orchestrate_task chose the model executor for the role because its setting
\* was usable then.
Init ==
    /\ role \in Roles
    /\ setting \in Providers
    /\ pc = "idle"
    /\ provider = Unusable
    /\ attempt = 0
    /\ loop = Fresh
    /\ talk = <<>>
    /\ row = [NewRow EXCEPT !.status = "none"]
    /\ summary = NoSummary
    /\ seen = [calls |-> 0, providers |-> {}, answers |-> 0,
               cut |-> FALSE, usable |-> FALSE, tools |-> {}]

-----------------------------------------------------------------------------
(* The end of a call.                                                        *)

\* What _execute_step writes.  Provider and model stay the seed's, and the token
\* row is refused by NOT NULL, when the attempt got no answer.  A result without
\* token_usage (`metered` FALSE) comes with no statistics either.
Record(lp, status, raw, metered, ended) ==
    /\ pc' = "recorded"
    /\ row' = [status |-> status, raw |-> raw,
               provider |-> IF metered /\ lp.counted > 0 THEN provider ELSE "seed",
               finish |-> IF metered THEN lp.finish ELSE "none",
               tokens |-> IF metered THEN lp.counted ELSE 0]
    /\ summary' = IF metered /\ role \in ToolRoles
                  THEN [rounds |-> lp.rounds, calls |-> lp.calls,
                        requests |-> lp.requests, ended |-> ended]
                  ELSE NoSummary
    /\ UNCHANGED <<role, setting, provider, attempt>>

\* A schema-valid verdict of "concerns" in place of the model's, success=True.
Degrade(lp, metered, ended) == Record(lp, "completed", "fallback", metered, ended)

\* Mutant: nobody catches an informing role's exception.
Abandon_vetoes(lp) == Record(lp, "failed", "none", FALSE, "error")

\* An exception: an informing role catches it, for the others _execute_step does.
Abandon(lp) ==
    IF role \in Informing
    THEN Degrade(lp, FALSE, "error")
    ELSE Record(lp, "failed", "none", FALSE, "error")

\* Mutant: off by one.
MayRetry_offByOne(lp) == lp.finish # "length" /\ attempt <= JSON_RETRY_MAX

\* Mutant: one attempt too few.
MayRetry_early(lp) == lp.finish # "length" /\ attempt + 1 < JSON_RETRY_MAX

\* The gates of _parse_retry_core for malformed JSON.
MayRetry(lp) == lp.finish # "length" /\ attempt < JSON_RETRY_MAX

\* Mutant: the usage goes on from the attempt before.
NextAttempt_keepsUsage ==
    /\ attempt' = attempt + 1
    /\ loop' = [Fresh EXCEPT !.counted = loop.counted]
    /\ talk' = <<"task">>
    /\ UNCHANGED <<role, setting, pc, provider, row, summary>>

\* A fresh model_call, the parse error in its first message.
NextAttempt ==
    /\ attempt' = attempt + 1
    /\ loop' = Fresh
    /\ talk' = <<"task">>
    /\ UNCHANGED <<role, setting, pc, provider, row, summary>>

\* Mutant: a text that fails the schema is used all the same.
Judge_lax(lp, content, ended, said) ==
    /\ IF content # "json_parse"
       THEN Record(lp, "completed", "model", TRUE, ended)
       ELSE IF role \in Informing
       THEN Degrade(lp, TRUE, ended)
       ELSE Record(lp, "failed", "text", TRUE, ended)
    /\ loop' = lp
    /\ talk' = said

\* The text of the attempt is parsed, checked, and answered for.
Judge(lp, content, ended, said) ==
    LET again == role \in Blocking /\ content = "json_parse" /\ MayRetry(lp)
    IN  \/ again /\ NextAttempt
        \/ /\ ~again
           /\ loop' = lp
           /\ talk' = said
           /\ \/ Usable(content) /\ Record(lp, "completed", "model", TRUE, ended)
              \/ /\ Rejected(content) /\ role \in Blocking
                 /\ Record(lp, "failed", "text", TRUE, ended)
              \/ /\ Rejected(content) /\ role \in Informing
                 /\ Degrade(lp, TRUE, ended)
              \/ ~Rejected(content) /\ ~Usable(content) /\ Abandon(lp)

-----------------------------------------------------------------------------
(* The operations.                                                           *)

\* PATCH /settings/role-models or /settings/providers.
UpdateSettings(s) ==
    /\ setting' = s
    /\ UNCHANGED <<role, pc, provider, attempt, loop, talk, row, summary, seen>>

\* _create_run, _update_run(RUNNING), _resolve_provider and the first request.
Execute ==
    /\ pc = "idle"
    /\ setting \in Providers
    /\ pc' = "asking"
    /\ provider' = setting
    /\ talk' = <<"task">>
    /\ row' = NewRow
    /\ UNCHANGED <<role, setting, attempt, loop, summary, seen>>

\* The setting became unusable after the executors were chosen.
ExecuteUnresolved ==
    /\ pc = "idle"
    /\ setting = Unusable
    /\ Abandon(loop)
    /\ UNCHANGED <<loop, talk, seen>>

\* The usage of an answer, summed over the rounds of the attempt.
Counted(a) == [loop EXCEPT !.counted = @ + 1, !.last = a.raw,
                           !.finish = FinishReason(provider, a.cut)]

\* An answer is heard; a retry begins a new count.
Heard(a, tool) ==
    seen' = [calls |-> seen.calls + 1,
             providers |-> seen.providers \union {provider},
             answers |-> IF attempt' = attempt THEN seen.answers + 1 ELSE 0,
             cut |-> a.cut,
             usable |-> Usable(Delivered(a)),
             tools |-> seen.tools \union tool]

\* Single-shot roles take the first answer; a final envelope ends a tool loop.
Final(a) ==
    /\ pc = "asking"
    /\ role \notin ToolRoles \/ a.turn = "final"
    /\ Judge(Counted(a), Delivered(a), "final", talk)
    /\ Heard(a, {})

\* Mutant: only a final answer ends the loop.
RoundsLeft_unbounded(lp) == lp.rounds <= TOOL_LOOP_MAX_ROUNDS

RoundsLeft(lp) == lp.rounds < TOOL_LOOP_MAX_ROUNDS

\* The loop goes on with one more request, or is exhausted and the last text,
\* whatever it is, is the role's output.
EndRound(lp, said) ==
    \/ /\ RoundsLeft(lp)
       /\ loop' = [lp EXCEPT !.rounds = @ + 1]
       /\ talk' = said
       /\ UNCHANGED <<role, setting, pc, provider, attempt, row, summary>>
    \/ ~RoundsLeft(lp) /\ Judge(lp, lp.last, "max_rounds_exhausted", said)

\* Mutant: the model's turn is not recorded.
Malformed_dropsTurn(a) ==
    /\ pc = "asking"
    /\ role \in ToolRoles /\ a.turn = "malformed"
    /\ EndRound(Counted(a), Append(talk, "nudge"))
    /\ Heard(a, {})

\* Mutant: a malformed turn is forgotten and does not use up a round.
Malformed_uncounted(a) ==
    /\ pc = "asking"
    /\ role \in ToolRoles /\ a.turn = "malformed"
    /\ loop' = [loop EXCEPT !.last = a.raw]
    /\ UNCHANGED <<role, setting, pc, provider, attempt, talk, row, summary, seen>>

\* A bounded protocol-error nudge.
Malformed(a) ==
    /\ pc = "asking"
    /\ role \in ToolRoles /\ a.turn = "malformed"
    /\ EndRound(Counted(a), talk \o <<"turn", "nudge">>)
    /\ Heard(a, {})

ToolRefused(a) ==
    /\ pc = "asking"
    /\ role \in ToolRoles /\ a.turn = "tool"
    /\ ~Executes(a.tool)
    /\ EndRound(Counted(a), talk \o <<"turn", "refusal">>)
    /\ Heard(a, {})

\* Mutant: the call is counted although it never came back.
ToolRaises_counted(a) ==
    /\ pc = "asking"
    /\ role \in ToolRoles /\ a.turn = "tool"
    /\ Executes(a.tool)
    /\ Judge([Counted(a) EXCEPT !.calls = @ + 1], a.raw, "error", Append(talk, "turn"))
    /\ Heard(a, {Canonical(a.tool)})

\* tool.execute returns a ToolResult, successful or not.
ToolRuns(a) ==
    /\ pc = "asking"
    /\ role \in ToolRoles /\ a.turn = "tool"
    /\ Executes(a.tool)
    /\ EndRound([Counted(a) EXCEPT !.calls = @ + 1,
                                   !.requests = Append(@, Canonical(a.tool))],
                talk \o <<"turn", "result">>)
    /\ Heard(a, {Canonical(a.tool)})

\* tool.execute raises, a bad parameter for one: the loop ends with the text
\* that asked for the tool.
ToolRaises(a) ==
    /\ pc = "asking"
    /\ role \in ToolRoles /\ a.turn = "tool"
    /\ Executes(a.tool)
    /\ Judge(Counted(a), a.raw, "error", Append(talk, "turn"))
    /\ Heard(a, {Canonical(a.tool)})

\* provider.complete raises: network, quota, a key removed meanwhile.  The tool
\* loop ends with the text before, "" in its first round; the others raise.
ProviderFails ==
    /\ pc = "asking"
    /\ \/ role \in ToolRoles /\ Judge(loop, loop.last, "error", talk)
       \/ role \notin ToolRoles /\ Abandon(loop) /\ UNCHANGED <<loop, talk>>
    /\ seen' = [seen EXCEPT !.calls = @ + 1, !.providers = @ \union {provider},
                            !.answers = IF attempt' = attempt THEN @ ELSE 0]

Answer ==
    \E a \in Answers :
        Final(a) \/ Malformed(a) \/ ToolRefused(a) \/ ToolRuns(a) \/ ToolRaises(a)

Next ==
    \/ \E s \in Providers \union {Unusable} : UpdateSettings(s)
    \/ Execute
    \/ ExecuteUnresolved
    \/ Answer
    \/ ProviderFails

Spec == Init /\ [][Next]_vars

\* The provider SDKs answer or time out; nothing the user does is fair.
FairSpec == Spec /\ WF_vars(Answer \/ ProviderFails)

-----------------------------------------------------------------------------
(* Properties.                                                               *)

\* VETO INVARIANT: a role that only informs the next one never fails its step,
\* whatever its settings, its provider, its tools and its answers do.
InformersNeverVeto == row.status = "failed" => role \in Blocking

Attempts == IF role \in Blocking THEN JSON_RETRY_MAX + 1 ELSE 1
Rounds == IF role \in ToolRoles THEN TOOL_LOOP_MAX_ROUNDS ELSE 1

\* _execute_builder: "bounded <=3 attempts x max_rounds"; and likewise for the
\* other roles, with provider failures and restarted attempts counted in.
CallBudget == seen.calls <= Attempts * Rounds

\* The roles of a request's messages are what the chat APIs ask for: they begin
\* and end with the user's and alternate, on every path through the loop.
RequestsAlternate ==
    pc = "asking" =>
        /\ Len(talk) % 2 = 1
        /\ \A i \in 1 .. Len(talk) : talk[i] = "turn" <=> i % 2 = 0

\* The tool loop is read-only for every role, whatever name or alias the model
\* calls a tool by and whatever the role may do elsewhere.
ReadsOnly == seen.tools \subseteq {"read_file", "list_directory"}

\* The row and its token_usage_log row tell of one model: the only one that was
\* asked, also when the settings changed under the call, with all the answers of
\* the decisive attempt; an accepted output is never without them.
RecordsLastAttempt ==
    /\ Cardinality(seen.providers) <= 1
    /\ row.provider # "seed" =>
           row.provider \in seen.providers /\ row.tokens = seen.answers
    /\ row.raw = "model" => row.tokens = seen.answers /\ row.tokens > 0

Count(kind) == Cardinality({i \in DOMAIN talk : talk[i] = kind})

\* The tool-loop SUMMARY in log_events agrees with the conversation: a request
\* for each result the model was given, and a round for each turn, plus the
\* round whose answer was final or never came.
SummaryTruthful ==
    summary # NoSummary =>
        /\ Len(summary.requests) = Count("result")
        /\ summary.calls = Count("result")
        /\ summary.rounds - Count("turn") \in
               CASE summary.ended = "final" -> {1}
                 [] summary.ended = "error" -> {0, 1}
                 [] summary.ended = "max_rounds_exhausted" -> {0}
        /\ summary.ended = "max_rounds_exhausted" =>
               summary.rounds = TOOL_LOOP_MAX_ROUNDS

\* A role fails on malformed JSON only after the last retry, or when the
\* provider said that the text was cut off.
RetriesUsedUp ==
    (/\ row.raw = "text"
     /\ loop.last = "json_parse"
     /\ role \in ToolRoles => summary.ended # "final")
        => attempt = JSON_RETRY_MAX \/ row.finish = "length"

\* The role's output is the model's own exactly when the last thing the model
\* said was usable: never an invented verdict in its place, and never a text
\* that failed the schema, also when the loop ended by an error or exhaustion.
AnswerIsUsed == pc = "recorded" => (row.raw = "model" <=> seen.usable)

\* A started step ends: no answer keeps the loops going.
CallEnds == pc = "asking" ~> pc = "recorded"

\* _parse_retry_core: "Never retry truncation - re-prompting truncates again at
\* the same max_tokens cap."
TruncationNotRetried == [][attempt' > attempt => ~seen'.cut]_vars
=============================================================================
