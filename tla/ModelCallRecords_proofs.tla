----------------------- MODULE ModelCallRecords_proofs -----------------------
(* What a step of an agent leaves behind: the row, the summary of its tool    *)
(* loop and the output it goes on with, for every number of retries and       *)
(* rounds and every choice of providers.  On top of the invariant of          *)
(* ModelCall_proofs.                                                          *)

EXTENDS ModelCall_proofs, FiniteSetTheorems, SequenceTheorems

CountIn(t, kind) == Cardinality({i \in DOMAIN t : t[i] = kind})

\* The conversation holds a turn for every round before this one, and a result
\* for every tool that came back.
Kept ==
    /\ Len(loop.requests) = loop.calls /\ CountIn(talk, "result") = loop.calls
    /\ loop.rounds = CountIn(talk, "turn") + 1

\* While a step is not recorded: nothing was written about it, and what was
\* heard agrees with the counters of the attempt and its last text.
Pending ==
    /\ row.raw = "none" /\ row.provider = "seed" /\ summary = NoSummary
    /\ seen.answers = loop.counted
    /\ loop.counted = 0 => loop.last = "json_parse"
    /\ seen.usable <=> Usable(loop.last)
    /\ role \in ToolRoles => Kept

OneProvider ==
    /\ pc = "idle" => seen.providers = {}
    /\ seen.providers \subseteq {provider}

Told ==
    /\ ReadsOnly
    /\ OneProvider
    /\ pc # "recorded" => Pending
    /\ RecordsLastAttempt
    /\ SummaryTruthful
    /\ RetriesUsedUp
    /\ AnswerIsUsed

-----------------------------------------------------------------------------
(* Counting.                                                                 *)

LEMMA CountNat ==
    ASSUME NEW t \in Seq(Messages), NEW kind
    PROVE  CountIn(t, kind) \in Nat /\ IsFiniteSet({i \in DOMAIN t : t[i] = kind})
<1>1. IsFiniteSet(DOMAIN t)
  BY FS_Interval
<1>2. IsFiniteSet({i \in DOMAIN t : t[i] = kind})
  BY <1>1, FS_Subset
<1> QED BY <1>2, FS_CardinalityType DEF CountIn

LEMMA CountAppend ==
    ASSUME NEW t \in Seq(Messages), NEW m \in Messages, NEW kind
    PROVE  CountIn(Append(t, m), kind) = CountIn(t, kind) + (IF m = kind THEN 1 ELSE 0)
<1> DEFINE S == {i \in DOMAIN t : t[i] = kind}
           u == Append(t, m)
           n == Len(t) + 1
<1> SUFFICES CountIn(u, kind) = CountIn(t, kind) + (IF m = kind THEN 1 ELSE 0)
  OBVIOUS
<1>1. /\ DOMAIN t = 1 .. Len(t) /\ Len(t) \in Nat
      /\ DOMAIN u = 1 .. n /\ u[n] = m
      /\ \A i \in 1 .. Len(t) : u[i] = t[i]
  OBVIOUS
<1>2. n \notin S /\ IsFiniteSet(S) /\ Cardinality(S) \in Nat
  <2>1. n \notin S
    BY <1>1
  <2>2. IsFiniteSet(S)
    BY CountNat
  <2> QED BY <2>1, <2>2, FS_CardinalityType
<1> HIDE DEF n
<1>3. CASE m = kind
  <2>1. {i \in DOMAIN u : u[i] = kind} = S \union {n}
    BY <1>1, <1>3 DEF n
  <2>2. Cardinality(S \union {n}) = Cardinality(S) + 1
    BY <1>2, FS_AddElement
  <2> QED BY <1>3, <2>1, <2>2 DEF CountIn
<1>4. CASE m # kind
  <2>1. {i \in DOMAIN u : u[i] = kind} = S
    BY <1>1, <1>4 DEF n
  <2>2. CountIn(u, kind) = Cardinality(S) /\ CountIn(t, kind) = Cardinality(S)
    BY <2>1 DEF CountIn
  <2> HIDE DEF u, S
  <2> QED BY <1>2, <1>4, <2>2
<1> QED BY <1>3, <1>4

\* A turn and its reply are one round, and one result if the reply is one.
LEMMA CountRound ==
    ASSUME NEW t \in Seq(Messages), NEW reply \in Messages \ {"turn"}
    PROVE  LET s == t \o <<"turn", reply>>
           IN  /\ CountIn(s, "turn") = CountIn(t, "turn") + 1
               /\ CountIn(s, "result") =
                    CountIn(t, "result") + (IF reply = "result" THEN 1 ELSE 0)
<1> DEFINE s == t \o <<"turn", reply>>
           u == Append(t, "turn")
<1>1. u \in Seq(Messages) /\ "turn" \in Messages
  BY DEF Messages
<1>2. s = Append(u, reply)
  OBVIOUS
<1>3. /\ CountIn(u, "turn") = CountIn(t, "turn") + 1
      /\ CountIn(u, "result") = CountIn(t, "result") + 0
  BY <1>1, CountAppend
<1>4. CountIn(t, "turn") \in Nat /\ CountIn(t, "result") \in Nat
  BY CountNat
<1> HIDE DEF u, s
<1>5. /\ CountIn(Append(u, reply), "turn") = CountIn(u, "turn") + 0
      /\ CountIn(Append(u, reply), "result") =
           CountIn(u, "result") + (IF reply = "result" THEN 1 ELSE 0)
  BY <1>1, CountAppend
<1>6. /\ CountIn(s, "turn") = CountIn(t, "turn") + 1
      /\ CountIn(s, "result") = CountIn(t, "result") + (IF reply = "result" THEN 1 ELSE 0)
  BY <1>2, <1>3, <1>4, <1>5
<1> QED BY <1>6 DEF s

LEMMA EmptyCounts == \A kind : CountIn(<<>>, kind) = 0 /\ CountIn(<<"task">>, "turn") = 0
                                /\ CountIn(<<"task">>, "result") = 0
<1>1. ASSUME NEW kind PROVE CountIn(<<>>, kind) = 0
  <2>1. {i \in DOMAIN <<>> : <<>>[i] = kind} = {}
    OBVIOUS
  <2> QED BY <2>1, FS_EmptySet DEF CountIn
<1>2. ASSUME NEW kind \in {"turn", "result"} PROVE CountIn(<<"task">>, kind) = 0
  <2>1. {i \in DOMAIN <<"task">> : <<"task">>[i] = kind} = {}
    OBVIOUS
  <2> QED BY <2>1, FS_EmptySet DEF CountIn
<1> QED BY <1>1, <1>2

-----------------------------------------------------------------------------
(* What the end of an attempt records.                                       *)

\* The rounds a summary tells of, against the turns of the conversation `t`.
Rightly(lp, ended, t) ==
    /\ Len(lp.requests) = lp.calls /\ CountIn(t, "result") = lp.calls
    /\ lp.rounds - CountIn(t, "turn") \in
           CASE ended = "final" -> {1}
             [] ended = "error" -> {0, 1}
             [] ended = "max_rounds_exhausted" -> {0}
    /\ ended = "max_rounds_exhausted" => lp.rounds = TOOL_LOOP_MAX_ROUNDS

\* What was heard when `content` was judged at the end of a round counted in lp.
HeardOf(lp, content) ==
    /\ seen'.providers \subseteq {provider} /\ provider \in seen'.providers
    /\ seen'.answers = (IF attempt' = attempt THEN lp.counted ELSE 0)
    /\ seen'.usable <=> Usable(content)
    /\ seen'.tools \subseteq {"read_file", "list_directory"}

\* The fields of whatever is recorded.
RecordedAs(lp, raw, metered, ended) ==
    /\ pc' = "recorded" /\ UNCHANGED <<role, provider, attempt>>
    /\ row'.raw = raw
    /\ row'.provider = IF metered /\ lp.counted > 0 THEN provider ELSE "seed"
    /\ metered => row'.finish = lp.finish /\ row'.tokens = lp.counted
    /\ summary' # NoSummary =>
         /\ role \in ToolRoles /\ summary'.rounds = lp.rounds
         /\ summary'.calls = lp.calls /\ summary'.requests = lp.requests
         /\ summary'.ended = ended
    /\ metered /\ role \in ToolRoles => summary' # NoSummary /\ summary'.ended = ended

LEMMA Recorded ==
    ASSUME NEW lp \in LoopState, NEW status, NEW raw, NEW metered \in BOOLEAN, NEW ended,
           Record(lp, status, raw, metered, ended)
    PROVE  RecordedAs(lp, raw, metered, ended)
<1>1. lp.rounds # 0
  BY ModelCallAssumption DEF LoopState
<1>2. [rounds |-> lp.rounds, calls |-> lp.calls,
       requests |-> lp.requests, ended |-> ended] # NoSummary
  BY <1>1 DEF NoSummary
<1> QED BY <1>2 DEF Record, RecordedAs

\* A conversation rightly summed up makes the summary truthful.
LEMMA SummedUp ==
    ASSUME NEW lp \in LoopState, NEW ended \in Endings, NEW status, NEW raw,
           NEW metered \in BOOLEAN,
           Record(lp, status, raw, metered, ended),
           role \in ToolRoles /\ metered => Rightly(lp, ended, talk')
    PROVE  SummaryTruthful'
<1> SUFFICES ASSUME summary' # NoSummary
             PROVE  /\ Len(summary'.requests) = CountIn(talk', "result")
                    /\ summary'.calls = CountIn(talk', "result")
                    /\ summary'.rounds - CountIn(talk', "turn") \in
                           CASE summary'.ended = "final" -> {1}
                             [] summary'.ended = "error" -> {0, 1}
                             [] summary'.ended = "max_rounds_exhausted" -> {0}
                    /\ summary'.ended = "max_rounds_exhausted" =>
                           summary'.rounds = TOOL_LOOP_MAX_ROUNDS
  BY DEF SummaryTruthful, Count, CountIn
<1>1. /\ role \in ToolRoles /\ summary'.rounds = lp.rounds
      /\ summary'.calls = lp.calls /\ summary'.requests = lp.requests
      /\ summary'.ended = ended
  BY Recorded DEF RecordedAs
<1>2. metered
  BY DEF Record
<1> QED BY <1>1, <1>2 DEF Rightly

LEMMA OneAtMost ==
    ASSUME NEW S, NEW p, S \subseteq {p}
    PROVE  Cardinality(S) <= 1
<1>1. CASE S = {}
  BY <1>1, FS_EmptySet
<1>2. CASE S = {p}
  <2>1. Cardinality({p}) = 1
    BY FS_Singleton
  <2> QED BY <1>2, <2>1
<1> QED BY <1>1, <1>2

\* An exception leaves neither statistics nor an output of the model.
LEMMA AbandonTold ==
    ASSUME Inv, NEW lp \in LoopState, Abandon(lp),
           OneProvider', ReadsOnly', ~seen'.usable
    PROVE  Told'
<1>1. PICK status \in {"completed", "failed"}, raw \in {"none", "fallback"} :
          Record(lp, status, raw, FALSE, "error")
  BY DEF Abandon, Degrade
<1>2. /\ pc' = "recorded" /\ row'.raw \in {"none", "fallback"} /\ row'.provider = "seed"
  <2> DEFINE no == FALSE
  <2>1. Record(lp, status, raw, no, "error") /\ no \in BOOLEAN /\ ~no
    BY <1>1
  <2> HIDE DEF no
  <2>2. RecordedAs(lp, raw, no, "error")
    BY <2>1, Recorded
  <2> QED
    BY <2>1, <2>2 DEF RecordedAs
<1>3. SummaryTruthful'
  BY <1>1, SummedUp DEF Endings
<1>4. Cardinality(seen'.providers) <= 1
  BY OneAtMost DEF OneProvider
<1>5. RecordsLastAttempt' /\ RetriesUsedUp' /\ AnswerIsUsed'
  BY <1>2, <1>4 DEF RecordsLastAttempt, RetriesUsedUp, AnswerIsUsed
<1> QED BY <1>2, <1>3, <1>5 DEF Told

\* A judged answer ends the step with a true record, or begins an attempt that
\* has heard nothing yet.
LEMMA JudgeTold ==
    ASSUME Inv, Told, pc = "asking", NEW lp \in LoopState, NEW content \in Content,
           NEW ended \in Endings, NEW said \in Seq(Messages),
           Judge(lp, content, ended, said), HeardOf(lp, content),
           content = lp.last \/ (role \in ToolRoles /\ ended = "final"),
           lp.counted = 0 => content = "json_parse",
           role \in ToolRoles => Rightly(lp, ended, said)
    PROVE  Told'
<1> DEFINE again == role \in Blocking /\ content = "json_parse" /\ MayRetry(lp)
<1>1. /\ role' = role /\ provider' = provider /\ provider \in Providers
      /\ pc' # "idle"
  BY DEF Judge, NextAttempt, Record, Abandon, Degrade, Inv, Linked
<1>2. ReadsOnly' /\ OneProvider'
  BY <1>1 DEF HeardOf, ReadsOnly, OneProvider
<1>3. Cardinality(seen'.providers) <= 1
  BY OneAtMost DEF HeardOf
<1>4. \A c : Usable(c)' <=> Usable(c)
  BY <1>1 DEF Usable
<1>5. ~Usable("json_parse")
  BY DEF Usable
<1>6. CASE again /\ NextAttempt
  <2>1. /\ pc' = pc /\ row' = row /\ summary' = summary /\ attempt' = attempt + 1
        /\ loop' = Fresh /\ talk' = <<"task">>
    BY <1>6 DEF NextAttempt
  <2>2. attempt' # attempt
    BY <2>1, ModelCallAssumption DEF Inv, TypeOK
  <2>3. seen'.answers = 0 /\ ~seen'.usable
    BY <1>5, <1>6, <2>2 DEF HeardOf
  <2>4. Pending'
    <3>1. row.raw = "none" /\ row.provider = "seed" /\ summary = NoSummary
      BY DEF Told, Pending
    <3>2. Kept'
      BY <2>1, EmptyCounts DEF Kept, Fresh
    <3>3. loop'.counted = 0 /\ loop'.last = "json_parse"
      BY <2>1 DEF Fresh
    <3> QED BY <1>4, <1>5, <2>1, <2>3, <3>1, <3>2, <3>3 DEF Pending
  <2>5. RecordsLastAttempt' /\ RetriesUsedUp' /\ AnswerIsUsed' /\ SummaryTruthful'
    BY <1>3, <2>1, <2>4
    DEF Pending, RecordsLastAttempt, RetriesUsedUp, AnswerIsUsed, SummaryTruthful
  <2> QED BY <1>2, <2>4, <2>5 DEF Told
<1>11. ASSUME NEW status, NEW raw, NEW metered \in BOOLEAN, metered,
              Record(lp, status, raw, metered, ended)
       PROVE  /\ pc' = "recorded" /\ attempt' = attempt /\ row'.raw = raw
              /\ row'.provider = IF lp.counted > 0 THEN provider ELSE "seed"
              /\ row'.finish = lp.finish /\ row'.tokens = lp.counted
              /\ role \in ToolRoles => summary'.ended = ended
  <2>1. RecordedAs(lp, raw, metered, ended)
    BY <1>11, Recorded
  <2> QED
    BY <1>11, <2>1 DEF RecordedAs
<1>7. ASSUME NEW status \in {"completed", "failed"}, NEW raw \in {"model", "text", "fallback"},
             ~again, loop' = lp, talk' = said,
             Record(lp, status, raw, TRUE, ended),
             raw = "model" <=> Usable(content),
             raw = "text" => role \in Blocking
      PROVE  Told'
  <2>1. /\ pc' = "recorded" /\ attempt' = attempt /\ row'.raw = raw
        /\ row'.provider = IF lp.counted > 0 THEN provider ELSE "seed"
        /\ row'.finish = lp.finish /\ row'.tokens = lp.counted
        /\ role \in ToolRoles => summary'.ended = ended
    <3> DEFINE yes == TRUE
    <3>1. Record(lp, status, raw, yes, ended) /\ yes \in BOOLEAN /\ yes
      BY <1>7
    <3> HIDE DEF yes
    <3> QED
      BY <3>1, <1>11
  <2>2. SummaryTruthful'
    BY <1>7, SummedUp
  <2>3. AnswerIsUsed'
    BY <1>7, <2>1 DEF AnswerIsUsed, HeardOf
  <2>4. RecordsLastAttempt'
    <3>1. row'.tokens = seen'.answers
      BY <2>1 DEF HeardOf
    <3>2. row'.provider # "seed" => row'.provider \in seen'.providers
      BY <2>1 DEF HeardOf
    <3>3. row'.raw = "model" => lp.counted # 0
      BY <1>5, <1>7, <2>1
    <3>4. lp.counted \in Nat
      BY LoopFields
    <3> QED BY <1>3, <2>1, <3>1, <3>2, <3>3, <3>4 DEF RecordsLastAttempt
  <2>5. RetriesUsedUp'
    <3> SUFFICES ASSUME raw = "text", lp.last = "json_parse",
                        role \in ToolRoles => ended # "final"
                 PROVE  attempt = JSON_RETRY_MAX \/ lp.finish = "length"
      BY <1>1, <1>7, <2>1 DEF RetriesUsedUp
    <3>1. ~MayRetry(lp)
      BY <1>7
    <3>2. attempt \in 0 .. JSON_RETRY_MAX
      BY DEF Inv, TypeOK
    <3> QED BY <3>1, <3>2, ModelCallAssumption DEF MayRetry
  <2> QED BY <1>2, <2>1, <2>2, <2>3, <2>4, <2>5 DEF Told
<1>8. CASE loop' = lp /\ talk' = said /\ ~Usable(content) /\ Abandon(lp)
  <2>1. ~seen'.usable
    BY <1>8 DEF HeardOf
  <2> QED BY <1>2, <1>8, <2>1, AbandonTold
<1>9. /\ Rejected(content) => ~Usable(content)
      /\ role \in Informing => role \notin Blocking
  BY DEF Rejected, Usable, Informing, Blocking
<1>10. CASE ~again /\ loop' = lp /\ talk' = said
  <2>1. CASE Usable(content) /\ Record(lp, "completed", "model", TRUE, ended)
    BY <1>7, <1>10, <2>1
  <2>2. CASE Rejected(content) /\ role \in Blocking /\ Record(lp, "failed", "text", TRUE, ended)
    BY <1>7, <1>9, <1>10, <2>2
  <2>3. CASE Rejected(content) /\ role \in Informing /\ Degrade(lp, TRUE, ended)
    BY <1>7, <1>9, <1>10, <2>3 DEF Degrade
  <2>4. CASE ~Rejected(content) /\ ~Usable(content) /\ Abandon(lp)
    BY <1>8, <1>10, <2>4
  <2> QED BY <1>10, <2>1, <2>2, <2>3, <2>4 DEF Judge, NextAttempt
<1> QED BY <1>6, <1>10 DEF Judge

-----------------------------------------------------------------------------
(* The answers, one by one.                                                  *)

\* The tool loop runs one tool, whatever name the model calls it by.
LEMMA RunsReadOnly ==
    ASSUME NEW name, Executes(name)
    PROVE  Canonical(name) = "read_file"
  BY DEF Executes, Advertised

\* What an answer adds to what was heard.
LEMMA AnswerHeard ==
    ASSUME Inv, Told, pc = "asking", NEW a \in Answers,
           NEW tool \in SUBSET {"read_file"}, Heard(a, tool), provider' = provider
    PROVE  LET lp == Counted(a)
           IN  /\ HeardOf(lp, Delivered(a))
               /\ lp.counted \in Nat \ {0} /\ lp.last = a.raw
               /\ lp.rounds = loop.rounds /\ lp.calls = loop.calls
               /\ lp.requests = loop.requests
<1>1. loop \in LoopState /\ loop.counted \in Nat
  BY LoopFields DEF Inv, TypeOK
<1> DEFINE f == FinishReason(provider, a.cut)
           lp == Counted(a)
<1>2. lp = [loop EXCEPT !.counted = @ + 1, !.last = a.raw, !.finish = f]
  BY DEF Counted
<1> HIDE DEF lp, f
<1>3. /\ lp.counted = loop.counted + 1 /\ lp.last = a.raw
      /\ lp.rounds = loop.rounds /\ lp.calls = loop.calls
      /\ lp.requests = loop.requests
  BY <1>1, <1>2 DEF LoopState
<1>4. /\ seen.answers = loop.counted /\ seen.providers \subseteq {provider}
      /\ seen.tools \subseteq {"read_file", "list_directory"}
  BY DEF Told, Pending, OneProvider, ReadsOnly
<1>5. /\ seen'.providers = seen.providers \union {provider}
      /\ seen'.answers = (IF attempt' = attempt THEN seen.answers + 1 ELSE 0)
      /\ seen'.usable = Usable(Delivered(a))
      /\ seen'.tools = seen.tools \union tool
  BY DEF Heard
<1>6. HeardOf(lp, Delivered(a))
  BY <1>3, <1>4, <1>5 DEF HeardOf
<1> QED BY <1>1, <1>3, <1>6 DEF lp

\* The loop goes on with one more turn told, or is exhausted.
LEMMA EndRoundTold ==
    ASSUME Inv, Told, pc = "asking", role \in ToolRoles,
           NEW lp \in LoopState, lp.rounds = loop.rounds,
           lp.counted # 0, HeardOf(lp, lp.last),
           NEW reply \in Messages \ {"turn"},
           EndRound(lp, talk \o <<"turn", reply>>),
           Len(lp.requests) = lp.calls,
           lp.calls = loop.calls + (IF reply = "result" THEN 1 ELSE 0)
    PROVE  Told'
<1> DEFINE said == talk \o <<"turn", reply>>
<1>1. /\ talk \in Seq(Messages) /\ loop \in LoopState /\ provider \in Providers
      /\ said \in Seq(Messages)
  BY DEF Inv, TypeOK, Linked, Messages
<1>2. /\ CountIn(talk, "result") = loop.calls /\ loop.rounds = CountIn(talk, "turn") + 1
  BY DEF Told, Pending, Kept
<1>3. /\ CountIn(said, "turn") = CountIn(talk, "turn") + 1
      /\ CountIn(said, "result") = CountIn(talk, "result") + (IF reply = "result" THEN 1 ELSE 0)
  BY <1>1, CountRound
<1> HIDE DEF said
<1>4. CountIn(said, "turn") = lp.rounds /\ CountIn(said, "result") = lp.calls
  BY <1>2, <1>3
<1>5. /\ lp.rounds \in 1 .. TOOL_LOOP_MAX_ROUNDS /\ lp.last \in Content
  BY LoopFields
<1>6. CASE RoundsLeft(lp) /\ loop' = [lp EXCEPT !.rounds = @ + 1] /\ talk' = said
           /\ UNCHANGED <<role, setting, pc, provider, attempt, row, summary>>
  <2>1. /\ loop'.rounds = lp.rounds + 1 /\ loop'.calls = lp.calls
        /\ loop'.requests = lp.requests /\ loop'.counted = lp.counted
        /\ loop'.last = lp.last
    BY <1>6 DEF LoopState
  <2>2. Kept'
    BY <1>4, <1>6, <2>1 DEF Kept
  <2>3. Pending'
    <3>1. row.raw = "none" /\ row.provider = "seed" /\ summary = NoSummary
      BY DEF Told, Pending
    <3>2. seen'.answers = lp.counted /\ (seen'.usable <=> Usable(lp.last))
      BY <1>6 DEF HeardOf
    <3>3. Usable(loop.last)' <=> Usable(lp.last)
      BY <1>6, <2>1 DEF Usable
    <3> QED BY <1>6, <2>1, <2>2, <3>1, <3>2, <3>3 DEF Pending
  <2>4. ReadsOnly' /\ OneProvider' /\ Cardinality(seen'.providers) <= 1
    BY <1>6, OneAtMost DEF HeardOf, ReadsOnly, OneProvider
  <2>5. RecordsLastAttempt' /\ RetriesUsedUp' /\ AnswerIsUsed' /\ SummaryTruthful'
    BY <1>6, <2>3, <2>4
    DEF Pending, RecordsLastAttempt, RetriesUsedUp, AnswerIsUsed, SummaryTruthful
  <2> QED BY <2>3, <2>4, <2>5 DEF Told
<1>7. CASE ~RoundsLeft(lp) /\ Judge(lp, lp.last, "max_rounds_exhausted", said)
  <2>1. lp.rounds = TOOL_LOOP_MAX_ROUNDS
    BY <1>5, <1>7, ModelCallAssumption DEF RoundsLeft
  <2>2. lp.rounds - CountIn(said, "turn") = 0
    BY <1>4, <1>5
  <2>3. Rightly(lp, "max_rounds_exhausted", said)
    BY <1>4, <2>1, <2>2 DEF Rightly
  <2>4. "max_rounds_exhausted" \in Endings
    BY DEF Endings
  <2> QED BY <1>1, <1>5, <1>7, <2>3, <2>4, JudgeTold
<1> QED BY <1>6, <1>7 DEF EndRound, said

\* The counters of a pending step, for the lemmas below.
LEMMA PendingLoop ==
    ASSUME Inv, Told, pc = "asking", role \in ToolRoles
    PROVE  /\ Len(loop.requests) = loop.calls /\ loop.requests \in Seq(Tools)
           /\ CountIn(talk, "result") = loop.calls
           /\ loop.rounds = CountIn(talk, "turn") + 1
           /\ loop.calls \in Nat /\ CountIn(talk, "turn") \in Nat
           /\ talk \in Seq(Messages)
<1>1. loop \in LoopState /\ talk \in Seq(Messages)
  BY DEF Inv, TypeOK
<1>2. Kept
  BY DEF Told, Pending
<1> QED BY <1>1, <1>2, CountNat, LoopFields DEF Kept

LEMMA FinalTold ==
    ASSUME Inv, Told, NEW a \in Answers, Final(a)
    PROVE  Told'
<1> DEFINE lp == Counted(a)
<1>1. /\ pc = "asking" /\ Heard(a, {}) /\ Judge(lp, Delivered(a), "final", talk)
      /\ role \notin ToolRoles \/ a.turn = "final"
  BY DEF Final
<1>2. provider' = provider
  BY <1>1 DEF Judge, NextAttempt, Record, Abandon, Degrade
<1>3. lp \in LoopState
  BY <1>1, CountedStep
<1>4. /\ HeardOf(lp, Delivered(a)) /\ lp.counted \in Nat \ {0} /\ lp.last = a.raw
      /\ lp.rounds = loop.rounds /\ lp.calls = loop.calls
      /\ lp.requests = loop.requests
  BY <1>1, <1>2, AnswerHeard
<1> HIDE DEF lp
<1>5. ASSUME role \in ToolRoles PROVE Rightly(lp, "final", talk)
  BY <1>1, <1>4, <1>5, PendingLoop DEF Rightly
<1>6. role \notin ToolRoles => Delivered(a) = lp.last
  BY <1>4 DEF Delivered
<1>7. Delivered(a) \in Content /\ talk \in Seq(Messages) /\ "final" \in Endings
  BY DeliveredContent DEF Inv, TypeOK, Endings
<1> QED BY <1>1, <1>3, <1>4, <1>5, <1>6, <1>7, JudgeTold

\* A turn that runs no tool.
LEMMA NudgeTold ==
    ASSUME Inv, Told, NEW a \in Answers, Malformed(a) \/ ToolRefused(a)
    PROVE  Told'
<1> DEFINE lp == Counted(a)
<1>1. PICK reply \in {"nudge", "refusal"} : EndRound(lp, talk \o <<"turn", reply>>)
  BY DEF Malformed, ToolRefused
<1>2. /\ pc = "asking" /\ Heard(a, {}) /\ role \in ToolRoles /\ a.turn # "final"
  BY DEF Malformed, ToolRefused
<1>3. provider' = provider
  BY <1>1 DEF EndRound, Judge, NextAttempt, Record, Abandon, Degrade
<1>4. lp \in LoopState
  BY <1>2, CountedStep
<1>5. /\ HeardOf(lp, Delivered(a)) /\ lp.counted \in Nat \ {0} /\ lp.last = a.raw
      /\ lp.rounds = loop.rounds /\ lp.calls = loop.calls
      /\ lp.requests = loop.requests
  BY <1>2, <1>3, AnswerHeard
<1> HIDE DEF lp
<1>6. Delivered(a) = lp.last
  BY <1>2, <1>5 DEF Delivered
<1>7. /\ reply \in Messages \ {"turn"} /\ reply # "result"
      /\ Len(lp.requests) = lp.calls /\ lp.calls = loop.calls + 0
  BY <1>2, <1>5, PendingLoop DEF Messages
<1> QED BY <1>1, <1>2, <1>4, <1>5, <1>6, <1>7, EndRoundTold

LEMMA ToolRunsTold ==
    ASSUME Inv, Told, NEW a \in Answers, ToolRuns(a)
    PROVE  Told'
<1> DEFINE lp == Counted(a)
           ran == [lp EXCEPT !.calls = @ + 1, !.requests = Append(@, Canonical(a.tool))]
<1>1. /\ pc = "asking" /\ role \in ToolRoles /\ a.turn = "tool" /\ Executes(a.tool)
      /\ EndRound(ran, talk \o <<"turn", "result">>)
      /\ Heard(a, {Canonical(a.tool)})
  BY DEF ToolRuns
<1>2. provider' = provider
  BY <1>1 DEF EndRound, Judge, NextAttempt, Record, Abandon, Degrade
<1>3. Canonical(a.tool) = "read_file" /\ {Canonical(a.tool)} \subseteq {"read_file"}
      /\ Canonical(a.tool) \in Tools
  BY <1>1, RunsReadOnly DEF Tools
<1>4. lp \in LoopState /\ lp.rounds = loop.rounds /\ lp.calls < lp.rounds
  BY <1>1, CountedStep
<1>5. /\ HeardOf(lp, Delivered(a)) /\ lp.counted \in Nat \ {0} /\ lp.last = a.raw
      /\ lp.rounds = loop.rounds /\ lp.calls = loop.calls
      /\ lp.requests = loop.requests
  BY <1>1, <1>2, <1>3, AnswerHeard
<1> HIDE DEF lp
<1>6. lp.calls + 1 \in 0 .. TOOL_LOOP_MAX_ROUNDS /\ Append(lp.requests, Canonical(a.tool)) \in Seq(Tools)
  BY <1>3, <1>4, LoopFields, ModelCallAssumption
<1>7. /\ ran \in LoopState /\ ran.rounds = lp.rounds /\ ran.counted = lp.counted
      /\ ran.calls = lp.calls + 1
  BY <1>4, <1>6, CallFields DEF LoopState
<1>8. /\ ran.last = lp.last /\ ran.requests = Append(lp.requests, Canonical(a.tool))
      /\ Len(ran.requests) = Len(lp.requests) + 1
  BY <1>4, <1>6 DEF LoopState
<1> HIDE DEF ran
<1>9. Delivered(a) = ran.last
  BY <1>1, <1>5, <1>8 DEF Delivered
<1>10. HeardOf(ran, ran.last)
  BY <1>5, <1>7, <1>9 DEF HeardOf
<1>11. /\ "result" \in Messages \ {"turn"} /\ ran.counted # 0 /\ ran.rounds = loop.rounds
       /\ Len(ran.requests) = ran.calls /\ ran.calls = loop.calls + 1
  BY <1>1, <1>5, <1>7, <1>8, PendingLoop DEF Messages
<1> QED BY <1>1, <1>7, <1>10, <1>11, EndRoundTold

LEMMA ToolRaisesTold ==
    ASSUME Inv, Told, NEW a \in Answers, ToolRaises(a)
    PROVE  Told'
<1> DEFINE lp == Counted(a)
           said == Append(talk, "turn")
<1>1. /\ pc = "asking" /\ role \in ToolRoles /\ a.turn = "tool" /\ Executes(a.tool)
      /\ Judge(lp, a.raw, "error", said)
      /\ Heard(a, {Canonical(a.tool)})
  BY DEF ToolRaises
<1>2. provider' = provider
  BY <1>1 DEF Judge, NextAttempt, Record, Abandon, Degrade
<1>3. {Canonical(a.tool)} \subseteq {"read_file"}
  BY <1>1, RunsReadOnly
<1>4. lp \in LoopState
  BY <1>1, CountedStep
<1>5. /\ HeardOf(lp, Delivered(a)) /\ lp.counted \in Nat \ {0} /\ lp.last = a.raw
      /\ lp.rounds = loop.rounds /\ lp.calls = loop.calls
      /\ lp.requests = loop.requests
  BY <1>1, <1>2, <1>3, AnswerHeard
<1> HIDE DEF lp
<1>6. Delivered(a) = a.raw /\ a.raw \in Content /\ "error" \in Endings
  BY <1>1, DeliveredContent DEF Delivered, Endings
<1>7. /\ CountIn(said, "turn") = CountIn(talk, "turn") + 1
      /\ CountIn(said, "result") = CountIn(talk, "result") + 0
      /\ said \in Seq(Messages)
  BY <1>1, PendingLoop, CountAppend DEF Messages
<1> HIDE DEF said
<1>8. Rightly(lp, "error", said)
  BY <1>1, <1>5, <1>7, PendingLoop DEF Rightly
<1> QED BY <1>1, <1>4, <1>5, <1>6, <1>7, <1>8, JudgeTold

LEMMA ProviderFailsTold ==
    ASSUME Inv, Told, ProviderFails
    PROVE  Told'
<1>1. /\ pc = "asking" /\ Pending /\ loop \in LoopState /\ talk \in Seq(Messages)
      /\ seen \in SeenState /\ "error" \in Endings /\ loop.last \in Content
  BY LoopFields DEF ProviderFails, Told, Inv, TypeOK, SeenState, Endings
<1>2. provider' = provider /\ role' = role /\ pc' # "idle"
  BY <1>1 DEF ProviderFails, Judge, NextAttempt, Record, Abandon, Degrade
<1>3. /\ seen'.providers = seen.providers \union {provider}
      /\ seen'.answers = (IF attempt' = attempt THEN seen.answers ELSE 0)
      /\ seen'.usable = seen.usable /\ seen'.tools = seen.tools
  BY <1>1 DEF ProviderFails, SeenState
<1>4. HeardOf(loop, loop.last)
  BY <1>1, <1>3 DEF HeardOf, Told, OneProvider, ReadsOnly, Pending
<1>5. CASE role \in ToolRoles /\ Judge(loop, loop.last, "error", talk)
  <2>1. Rightly(loop, "error", talk)
    BY <1>1, <1>5, PendingLoop DEF Rightly
  <2>2. loop.counted = 0 => loop.last = "json_parse"
    BY <1>1 DEF Pending
  <2> QED BY <1>1, <1>4, <1>5, <2>1, <2>2, JudgeTold
<1>6. CASE role \notin ToolRoles /\ Abandon(loop) /\ UNCHANGED <<loop, talk>>
  <2>1. ~seen'.usable
    <3>1. loop.counted = 0
      BY <1>1, <1>6, LoopFields DEF Inv, Linked
    <3> QED BY <1>1, <1>3, <3>1 DEF Pending, Usable
  <2>2. OneProvider' /\ ReadsOnly'
    BY <1>2, <1>4 DEF HeardOf, OneProvider, ReadsOnly
  <2> QED BY <1>1, <1>6, <2>1, <2>2, AbandonTold
<1> QED BY <1>5, <1>6 DEF ProviderFails

-----------------------------------------------------------------------------
(* The records are true in every state.                                      *)

LEMMA InitTold == Init => Told
<1> SUFFICES ASSUME Init PROVE Told
  OBVIOUS
<1>1. /\ pc = "idle" /\ loop = Fresh /\ talk = <<>> /\ summary = NoSummary
      /\ row.raw = "none" /\ row.provider = "seed"
      /\ seen.answers = 0 /\ ~seen.usable /\ seen.providers = {} /\ seen.tools = {}
  BY DEF Init, NewRow
<1>2. Pending
  BY <1>1, EmptyCounts DEF Pending, Kept, Fresh, Usable
<1>3. Cardinality(seen.providers) <= 1
  BY <1>1, FS_EmptySet
<1> QED
  BY <1>1, <1>2, <1>3
  DEF Told, ReadsOnly, OneProvider, RecordsLastAttempt, SummaryTruthful, RetriesUsedUp, AnswerIsUsed

LEMMA NextTold == Inv /\ Told /\ [Next]_vars => Told'
<1> SUFFICES ASSUME Inv, Told, [Next]_vars PROVE Told'
  OBVIOUS
<1>1. CASE UNCHANGED <<role, pc, provider, attempt, loop, talk, row, summary, seen>>
  BY <1>1
  DEF Told, ReadsOnly, OneProvider, Pending, Kept, CountIn, Usable, RecordsLastAttempt,
      SummaryTruthful, Count, RetriesUsedUp, AnswerIsUsed
<1>2. CASE Execute
  <2>1. /\ pc = "idle" /\ pc' = "asking" /\ talk' = <<"task">>
        /\ UNCHANGED <<role, attempt, loop, summary, seen>>
        /\ row'.raw = "none" /\ row'.provider = "seed" /\ loop = Fresh
    BY <1>2 DEF Execute, NewRow, Inv, Linked
  <2>2. Pending /\ seen.providers = {}
    BY <2>1 DEF Told, OneProvider
  <2>3. Pending'
    <3>1. Kept'
      BY <2>1, EmptyCounts DEF Kept, Fresh
    <3> QED BY <2>1, <2>2, <3>1 DEF Pending, Usable
  <2>4. Cardinality(seen'.providers) <= 1 /\ ReadsOnly' /\ OneProvider'
    BY <2>1, <2>2, FS_EmptySet DEF Told, ReadsOnly, OneProvider
  <2>5. RecordsLastAttempt' /\ RetriesUsedUp' /\ AnswerIsUsed' /\ SummaryTruthful'
    BY <2>1, <2>3, <2>4
    DEF Pending, RecordsLastAttempt, RetriesUsedUp, AnswerIsUsed, SummaryTruthful
  <2> QED BY <2>3, <2>4, <2>5 DEF Told
<1>3. CASE ExecuteUnresolved
  <2>1. pc = "idle" /\ Abandon(loop) /\ seen' = seen /\ loop = Fresh /\ loop \in LoopState
    BY <1>3 DEF ExecuteUnresolved, Inv, TypeOK, Linked
  <2>2. Pending /\ seen.providers = {}
    BY <2>1 DEF Told, OneProvider
  <2>3. ~seen'.usable
    BY <2>1, <2>2 DEF Pending, Fresh, Usable
  <2>4. ReadsOnly' /\ OneProvider'
    BY <2>1, <2>2 DEF Told, ReadsOnly, OneProvider
  <2> QED BY <2>1, <2>3, <2>4, AbandonTold
<1>4. CASE Answer
  BY <1>4, FinalTold, NudgeTold, ToolRunsTold, ToolRaisesTold DEF Answer
<1>5. CASE ProviderFails
  BY <1>5, ProviderFailsTold
<1> QED BY <1>1, <1>2, <1>3, <1>4, <1>5 DEF Next, UpdateSettings, vars

LEMMA AlwaysTold == Spec => []Told
<1> QED BY InitTold, NextTold, Invariance, PTL DEF Spec

-----------------------------------------------------------------------------
(* The theorems.                                                             *)

\* The tool loop is read-only for every role: no name or alias a model calls a
\* tool by makes it run one that writes.
THEOREM LoopReadsOnly == Spec => []ReadsOnly
<1>1. Told => ReadsOnly
  BY DEF Told
<1> QED BY <1>1, AlwaysTold, PTL

\* The row and its token usage tell of the one model that was asked, with all
\* the answers of the decisive attempt, whatever the user sets meanwhile.
THEOREM RowsTellOfTheModel == Spec => []RecordsLastAttempt
<1>1. Told => RecordsLastAttempt
  BY DEF Told
<1> QED BY <1>1, AlwaysTold, PTL

\* The summary of a tool loop agrees with its conversation, however many rounds
\* it had and however it ended.
THEOREM SummariesAreTrue == Spec => []SummaryTruthful
<1>1. Told => SummaryTruthful
  BY DEF Told
<1> QED BY <1>1, AlwaysTold, PTL

\* Malformed JSON fails a role only after its last retry or a reported cut.
THEOREM RetriesAreSpent == Spec => []RetriesUsedUp
<1>1. Told => RetriesUsedUp
  BY DEF Told
<1> QED BY <1>1, AlwaysTold, PTL

\* The output is the model's own exactly when its last text was usable.
THEOREM OutputIsTheAnswer == Spec => []AnswerIsUsed
<1>1. Told => AnswerIsUsed
  BY DEF Told
<1> QED BY <1>1, AlwaysTold, PTL

-----------------------------------------------------------------------------
(* Truncation.  "Never retry truncation" holds of the providers that say      *)
(* "length" when they cut a text off, and the loop remembers it: also when    *)
(* the next request of the same attempt fails.                                *)

Reporting == {p \in Providers : CutReason[p] = "length"}

CutShows ==
    /\ pc = "idle" => ~seen.cut
    /\ pc = "asking" /\ provider \in Reporting /\ seen.cut => loop.finish = "length"

\* A text is judged for good, or asked for again because nobody said "length".
LEMMA JudgeCut ==
    ASSUME Inv, pc = "asking", NEW lp, NEW content, NEW ended, NEW said,
           Judge(lp, content, ended, said)
    PROVE  /\ provider' = provider
           /\ \/ pc' = "recorded" /\ attempt' = attempt
              \/ pc' = "asking" /\ lp.finish # "length"
<1>1. CASE NextAttempt /\ MayRetry(lp)
  BY <1>1 DEF NextAttempt, MayRetry
<1>2. ASSUME NEW status, NEW raw, NEW metered, NEW e, Record(lp, status, raw, metered, e)
      PROVE  provider' = provider /\ pc' = "recorded" /\ attempt' = attempt
  BY <1>2 DEF Record
<1> QED
  BY <1>1, <1>2 DEF Judge, Abandon, Degrade

\* An answer ends its attempt, or goes on in it with the reason it stopped for.
LEMMA AnswerCut ==
    ASSUME Inv, NEW a \in Answers,
           Final(a) \/ Malformed(a) \/ ToolRefused(a) \/ ToolRuns(a) \/ ToolRaises(a)
    PROVE  /\ pc = "asking" /\ provider' = provider /\ seen'.cut = a.cut
           /\ \/ pc' = "recorded" /\ attempt' = attempt
              \/ pc' = "asking" /\ attempt' = attempt /\ loop'.finish = FinishReason(provider, a.cut)
              \/ pc' = "asking" /\ FinishReason(provider, a.cut) # "length"
<1> DEFINE lp == Counted(a)
           ran == [lp EXCEPT !.calls = @ + 1, !.requests = Append(@, Canonical(a.tool))]
           f == FinishReason(provider, a.cut)
<1>1. pc = "asking" /\ loop \in LoopState
  BY DEF Final, Malformed, ToolRefused, ToolRuns, ToolRaises, Inv, TypeOK
<1>2. seen'.cut = a.cut
  BY DEF Final, Malformed, ToolRefused, ToolRuns, ToolRaises, Heard
<1>3. lp \in LoopState /\ lp.finish = f
  <2>1. lp \in LoopState
    BY <1>1, CountedStep
  <2>2. lp.finish = f
    BY <1>1 DEF Counted, LoopState
  <2> QED
    BY <2>1, <2>2
<1> HIDE DEF lp, f
<1>4. ran.finish = f
  BY <1>3 DEF LoopState
<1> DEFINE Shows == /\ provider' = provider
                    /\ \/ pc' = "recorded" /\ attempt' = attempt
                       \/ pc' = "asking" /\ attempt' = attempt /\ loop'.finish = f
                       \/ pc' = "asking" /\ f # "length"
<1>5. ASSUME NEW l, NEW content, NEW ended, NEW said, Judge(l, content, ended, said), l.finish = f
      PROVE  Shows
  BY <1>1, <1>5, JudgeCut
<1>6. ASSUME NEW l \in LoopState, NEW said, EndRound(l, said), l.finish = f
      PROVE  Shows
  <2>1. CASE Judge(l, l.last, "max_rounds_exhausted", said)
    BY <1>5, <1>6, <2>1
  <2>2. CASE loop' = [l EXCEPT !.rounds = @ + 1] /\ UNCHANGED <<pc, provider, attempt>>
    BY <1>1, <1>6, <2>2 DEF LoopState
  <2> QED
    BY <1>6, <2>1, <2>2 DEF EndRound
<1> HIDE DEF Shows
<1>7. ASSUME Final(a) PROVE Shows
  <2>1. Judge(lp, Delivered(a), "final", talk)
    BY <1>7 DEF Final, lp
  <2> QED
    BY <1>3, <1>5, <2>1
<1>8. ASSUME Malformed(a) PROVE Shows
  <2>1. EndRound(lp, talk \o <<"turn", "nudge">>)
    BY <1>8 DEF Malformed, lp
  <2> QED
    BY <1>3, <1>6, <2>1
<1>9. ASSUME ToolRefused(a) PROVE Shows
  <2>1. EndRound(lp, talk \o <<"turn", "refusal">>)
    BY <1>9 DEF ToolRefused, lp
  <2> QED
    BY <1>3, <1>6, <2>1
<1>10. ASSUME ToolRuns(a) PROVE Shows
  <2>1. EndRound(ran, talk \o <<"turn", "result">>) /\ Executes(a.tool)
    BY <1>10 DEF ToolRuns, lp
  <2>2. lp.calls + 1 \in 0 .. TOOL_LOOP_MAX_ROUNDS
    <3>1. lp.calls < lp.rounds
      BY <1>1, CountedStep DEF lp
    <3> QED
      BY <1>3, <3>1, LoopFields, ModelCallAssumption
  <2>3. Append(lp.requests, Canonical(a.tool)) \in Seq(Tools)
    BY <1>3, <2>1, ExecutesKnown, LoopFields
  <2>4. ran \in LoopState
    BY <1>3, <2>2, <2>3, CallFields DEF LoopState
  <2> HIDE DEF ran
  <2> QED
    BY <1>4, <1>6, <2>1, <2>4
<1>11. ASSUME ToolRaises(a) PROVE Shows
  <2>1. Judge(lp, a.raw, "error", Append(talk, "turn"))
    BY <1>11 DEF ToolRaises, lp
  <2> QED
    BY <1>3, <1>5, <2>1
<1> QED
  BY <1>1, <1>2, <1>7, <1>8, <1>9, <1>10, <1>11 DEF Shows, f

\* The answer that starts another attempt was not cut off.
CutIsFinal == provider \in Reporting /\ attempt' > attempt => ~seen'.cut

\* An attempt that a reporting provider cut off is the last one.
LEMMA CutStep ==
    ASSUME Inv, CutShows, [Next]_vars
    PROVE  CutShows' /\ CutIsFinal
<1>1. attempt \in Nat /\ loop \in LoopState
  BY DEF Inv, TypeOK
<1>2. CASE UNCHANGED <<pc, provider, attempt, loop, seen>>
  BY <1>1, <1>2 DEF CutIsFinal, CutShows, Reporting
<1>3. CASE Execute
  <2>1. pc = "idle" /\ pc' = "asking" /\ seen' = seen /\ attempt' = attempt
    BY <1>3 DEF Execute
  <2> QED
    BY <1>1, <2>1 DEF CutIsFinal, CutShows
<1>4. CASE ExecuteUnresolved
  <2>1. pc' = "recorded" /\ attempt' = attempt
    BY <1>1, <1>4, AbandonStep DEF ExecuteUnresolved, Inv
  <2> QED
    BY <1>1, <2>1 DEF CutIsFinal, CutShows
<1>5. ASSUME NEW a \in Answers,
             Final(a) \/ Malformed(a) \/ ToolRefused(a) \/ ToolRuns(a) \/ ToolRaises(a)
      PROVE  CutShows' /\ CutIsFinal
  <2>1. /\ pc = "asking" /\ provider' = provider /\ seen'.cut = a.cut
        /\ \/ pc' = "recorded" /\ attempt' = attempt
           \/ pc' = "asking" /\ attempt' = attempt /\ loop'.finish = FinishReason(provider, a.cut)
           \/ pc' = "asking" /\ FinishReason(provider, a.cut) # "length"
    BY <1>5, AnswerCut
  <2>2. a.cut /\ provider \in Reporting => FinishReason(provider, a.cut) = "length"
    BY DEF FinishReason, Reporting
  <2> QED
    BY <1>1, <2>1, <2>2 DEF CutIsFinal, CutShows, Reporting
<1>6. CASE ProviderFails
  <2>1. pc = "asking" /\ seen'.cut = seen.cut
    BY <1>6 DEF ProviderFails, Inv, TypeOK
  <2>2. CASE Judge(loop, loop.last, "error", talk)
    <3>1. /\ provider' = provider
          /\ \/ pc' = "recorded" /\ attempt' = attempt
             \/ pc' = "asking" /\ loop.finish # "length"
      BY <2>1, <2>2, JudgeCut
    <3> QED
      BY <1>1, <2>1, <3>1 DEF CutIsFinal, CutShows, Reporting
  <2>3. CASE Abandon(loop)
    <3>1. pc' = "recorded" /\ attempt' = attempt
      BY <1>1, <2>3, AbandonStep DEF Inv
    <3> QED
      BY <1>1, <3>1 DEF CutIsFinal, CutShows
  <2> QED
    BY <1>6, <2>2, <2>3 DEF ProviderFails
<1>7. \/ UNCHANGED <<pc, provider, attempt, loop, seen>> \/ Execute \/ ExecuteUnresolved
      \/ Answer \/ ProviderFails
  BY DEF Next, UpdateSettings, vars
<1> QED
  BY <1>2, <1>3, <1>4, <1>5, <1>6, <1>7 DEF Answer

\* Whatever providers there are: no attempt is repeated after a text that a
\* provider reporting "length" cut off (_parse_retry_core).
THEOREM ReportedCutsAreFinal ==
    Spec => [][CutIsFinal]_vars
<1>1. Init => CutShows
  BY DEF Init, CutShows
<1>2. Inv /\ CutShows /\ [Next]_vars =>
          CutShows' /\ [CutIsFinal]_vars
  BY CutStep
<1> QED
  BY <1>1, <1>2, Invariance, PTL DEF Spec

\* So where every provider reports "length", truncation is never retried: what
\* breaks TruncationNotRetried is that the others name it differently.
THEOREM TruncationIsFinal ==
    Providers \subseteq Reporting => (Spec => TruncationNotRetried)
<1> SUFFICES ASSUME Providers \subseteq Reporting PROVE Spec => TruncationNotRetried
  OBVIOUS
<1>1. ASSUME Inv, [Next]_vars, attempt' > attempt PROVE provider \in Reporting
  <2>1. attempt' # attempt
    BY <1>1 DEF Inv, TypeOK
  <2>2. ~ExecuteUnresolved
    BY <1>1, <2>1, AbandonStep DEF ExecuteUnresolved, Inv, TypeOK
  <2>3. pc = "asking"
    BY <1>1, <2>1, <2>2 DEF Next, UpdateSettings, Execute, Answer, Final, Malformed, ToolRefused,
       ToolRuns, ToolRaises, ProviderFails, vars
  <2> QED
    BY <1>1, <2>3 DEF Inv, Linked
<1>2. Inv /\ [Next]_vars /\ [CutIsFinal]_vars
          => [attempt' > attempt => ~seen'.cut]_vars
  BY <1>1 DEF CutIsFinal
<1> QED
  BY <1>2, ReportedCutsAreFinal, Invariance, PTL DEF Spec, TruncationNotRetried

=============================================================================
