-------------------------- MODULE ModelCall_proofs --------------------------
(* InformersNeverVeto, CallBudget and RequestsAlternate for every number of   *)
(* retries and rounds and every choice of providers.                          *)

EXTENDS ModelCall, TLAPS

\* What a call has left to spend, and the links between its counters.
Linked ==
    /\ pc # "recorded" => loop.counted < loop.rounds /\ loop.calls < loop.rounds
    /\ pc = "asking" => provider \in Providers
    /\ pc = "idle" => loop = Fresh /\ attempt = 0 /\ seen.calls = 0
    /\ role \in Informing => attempt = 0
    /\ pc # "recorded" /\ role \notin ToolRoles => loop.rounds = 1

Remaining == IF pc = "recorded" THEN 0 ELSE Rounds - loop.rounds + 1

Spent == seen.calls + Remaining <= (attempt + 1) * Rounds

Inv == TypeOK /\ Linked /\ Spent /\ RequestsAlternate /\ InformersNeverVeto

-----------------------------------------------------------------------------
(* Arithmetic.                                                               *)

\* One more attempt is worth one more loop of rounds.
LEMMA OneMore == \A a, r \in Nat : (a + 1 + 1) * r = (a + 1) * r + r
  BY SMT

\* More attempts never cost less.
LEMMA Monotone == \A a, b, r \in Nat : a <= b => a * r <= b * r
<1> SUFFICES ASSUME NEW a \in Nat, NEW b \in Nat, NEW r \in Nat, a <= b
             PROVE  a * r <= b * r
  OBVIOUS
<1>1. PICK d \in Nat : b = a + d
  <2>1. b - a \in Nat /\ b = a + (b - a)
    BY SMT
  <2> QED BY <2>1
<1>2. b * r = a * r + d * r
  BY <1>1, SMT
<1>3. d * r >= 0
  BY SMT
<1> QED BY <1>2, <1>3, SMT

LEMMA RoundsPositive == Rounds \in Nat \ {0} /\ Rounds <= TOOL_LOOP_MAX_ROUNDS
  BY ModelCallAssumption DEF Rounds

-----------------------------------------------------------------------------
(* What the shared parts of the actions do.                                  *)

Endings == {"final", "max_rounds_exhausted", "error"}

SeenState == [calls : Nat, providers : SUBSET Providers, answers : Nat,
              cut : BOOLEAN, usable : BOOLEAN, tools : SUBSET Tools]

\* A judged answer ends the call or starts the next attempt.
Judged ==
    /\ UNCHANGED <<role, setting, provider>>
    /\ loop' \in LoopState
    /\ talk' \in Seq(Messages)
    /\ row' \in RowState
    /\ summary' \in SummaryState \union {NoSummary}
    /\ InformersNeverVeto'
    /\ \/ pc' = "recorded" /\ attempt' = attempt
       \/ /\ pc' = "asking" /\ role \in Blocking
          /\ attempt' = attempt + 1 /\ attempt' \in 0 .. JSON_RETRY_MAX
          /\ loop' = Fresh /\ talk' = <<"task">>

\* Whatever is recorded is a legal row, and fails only as the caller says.
LEMMA RecordStep ==
    ASSUME TypeOK, NEW lp \in LoopState,
           NEW status \in {"completed", "failed"},
           NEW raw \in {"none", "model", "fallback", "text"},
           NEW metered \in BOOLEAN, NEW ended \in Endings,
           metered => provider \in Providers,
           Record(lp, status, raw, metered, ended)
    PROVE  /\ UNCHANGED <<role, setting, provider, attempt>>
           /\ pc' = "recorded"
           /\ row' \in RowState /\ row'.status = status
           /\ summary' \in SummaryState \union {NoSummary}
<1>1. /\ UNCHANGED <<role, setting, provider, attempt>>
      /\ pc' = "recorded"
  BY DEF Record
<1>2. row' \in RowState /\ row'.status = status
  BY RoundsPositive, ModelCallAssumption DEF Record, LoopState, RowState, FinishReasons
<1>3. summary' \in SummaryState \union {NoSummary}
  BY DEF Record, LoopState, SummaryState, Endings
<1> QED BY <1>1, <1>2, <1>3

\* An exception fails the row of a blocking role only.
LEMMA AbandonStep ==
    ASSUME TypeOK, NEW lp \in LoopState, Abandon(lp)
    PROVE  /\ UNCHANGED <<role, setting, provider, attempt>>
           /\ pc' = "recorded"
           /\ row' \in RowState
           /\ summary' \in SummaryState \union {NoSummary}
           /\ InformersNeverVeto'
<1>1. CASE role \in Informing
  <2>1. Record(lp, "completed", "fallback", FALSE, "error")
    BY <1>1 DEF Abandon, Degrade
  <2> QED BY <2>1, RecordStep DEF Endings, InformersNeverVeto
<1>2. CASE role \notin Informing
  <2>1. Record(lp, "failed", "none", FALSE, "error")
    BY <1>2 DEF Abandon
  <2>2. role \in Blocking
    BY <1>2 DEF TypeOK, Roles
  <2> QED BY <2>1, <2>2, RecordStep DEF Endings, InformersNeverVeto
<1> QED BY <1>1, <1>2

LEMMA JudgeStep ==
    ASSUME TypeOK, pc = "asking", provider \in Providers,
           NEW lp \in LoopState, NEW content \in Content, NEW ended \in Endings,
           NEW said \in Seq(Messages), Judge(lp, content, ended, said),
           InformersNeverVeto
    PROVE  Judged
<1> DEFINE again == role \in Blocking /\ content = "json_parse" /\ MayRetry(lp)
<1>1. CASE again /\ NextAttempt
  <2>1. Fresh \in LoopState
    BY ModelCallAssumption DEF Fresh, LoopState, FinishReasons, Content
  <2>2. attempt + 1 \in 0 .. JSON_RETRY_MAX
    BY <1>1, ModelCallAssumption DEF TypeOK, MayRetry
  <2>3. <<"task">> \in Seq(Messages)
    BY DEF Messages
  <2> QED
    BY <1>1, <2>1, <2>2, <2>3 DEF NextAttempt, Judged, TypeOK, InformersNeverVeto
<1>2. CASE loop' = lp /\ talk' = said /\ Usable(content)
           /\ Record(lp, "completed", "model", TRUE, ended)
  BY <1>2, RecordStep DEF Judged, InformersNeverVeto
<1>3. CASE loop' = lp /\ talk' = said /\ role \in Blocking
           /\ Record(lp, "failed", "text", TRUE, ended)
  BY <1>3, RecordStep DEF Judged, InformersNeverVeto
<1>4. CASE loop' = lp /\ talk' = said
           /\ Record(lp, "completed", "fallback", TRUE, ended)
  BY <1>4, RecordStep DEF Judged, InformersNeverVeto
<1>5. CASE loop' = lp /\ talk' = said /\ Abandon(lp)
  BY <1>5, AbandonStep DEF Judged
<1> QED BY <1>1, <1>2, <1>3, <1>4, <1>5 DEF Judge, Degrade

-----------------------------------------------------------------------------
(* The invariant.                                                            *)

LEMMA InitInv == Init => Inv
<1> SUFFICES ASSUME Init PROVE Inv
  OBVIOUS
<1>1. TypeOK
  BY ModelCallAssumption
     DEF Init, TypeOK, Fresh, LoopState, FinishReasons, Content, NewRow, RowState,
         Messages, Tools
<1>2. Linked
  BY DEF Init, Linked, Fresh
<1>3. Spent
  <2>1. seen.calls = 0 /\ attempt = 0 /\ Remaining = Rounds
    BY RoundsPositive DEF Init, Remaining, Fresh
  <2> QED BY <2>1, RoundsPositive DEF Spent
<1>4. RequestsAlternate /\ InformersNeverVeto
  BY DEF Init, RequestsAlternate, InformersNeverVeto, NewRow
<1> QED BY <1>1, <1>2, <1>3, <1>4 DEF Inv

\* A judged request costs one call, and a new attempt brings its own rounds.
LEMMA JudgedInv ==
    ASSUME Inv, pc = "asking", Judged,
           seen' \in SeenState, seen'.calls = seen.calls + 1
    PROVE  Inv'
<1> USE DEF Inv
<1>1. Rounds' = Rounds /\ Rounds \in Nat \ {0} /\ loop.rounds \in Nat
      /\ attempt \in Nat /\ seen.calls \in Nat
  BY RoundsPositive DEF Judged, Rounds, TypeOK, LoopState
<1>2. seen.calls + 1 <= (attempt + 1) * Rounds
  <2>1. loop.rounds <= Rounds
    BY RoundsPositive DEF Rounds, Linked, TypeOK, LoopState
  <2>2. seen.calls + (Rounds - loop.rounds + 1) <= (attempt + 1) * Rounds
    BY DEF Spent, Remaining
  <2>3. (attempt + 1) * Rounds \in Nat
    BY <1>1
  <2> QED BY <1>1, <2>1, <2>2, <2>3
<1>3. CASE pc' = "recorded" /\ attempt' = attempt
  <2>1. TypeOK'
    BY <1>3 DEF Judged, TypeOK, SeenState
  <2>2. Linked'
    BY <1>3 DEF Judged, Linked
  <2>3. Spent'
    BY <1>1, <1>2, <1>3 DEF Spent, Remaining
  <2> QED BY <1>3, <2>1, <2>2, <2>3 DEF Judged, RequestsAlternate
<1>4. CASE /\ pc' = "asking" /\ role \in Blocking
           /\ attempt' = attempt + 1 /\ attempt' \in 0 .. JSON_RETRY_MAX
           /\ loop' = Fresh /\ talk' = <<"task">>
  <2>1. TypeOK'
    BY <1>4 DEF Judged, TypeOK, SeenState
  <2>2. Linked'
    BY <1>4 DEF Judged, Linked, Fresh, Blocking, Informing
  <2>3. Spent'
    <3>1. Remaining' = Rounds
      BY <1>1, <1>4 DEF Remaining, Fresh
    <3>2. (attempt' + 1) * Rounds = (attempt + 1) * Rounds + Rounds
      BY <1>1, <1>4, OneMore
    <3>3. (attempt + 1) * Rounds \in Nat
      BY <1>1
    <3> QED BY <1>1, <1>2, <3>1, <3>2, <3>3 DEF Spent
  <2>4. RequestsAlternate'
    BY <1>4 DEF RequestsAlternate
  <2> QED BY <2>1, <2>2, <2>3, <2>4 DEF Judged
<1> QED BY <1>3, <1>4 DEF Judged

\* The model's turn and one reply keep a conversation alternating.
LEMMA Alternates ==
    ASSUME NEW t \in Seq(Messages), Len(t) % 2 = 1,
           \A i \in 1 .. Len(t) : t[i] = "turn" <=> i % 2 = 0,
           NEW reply \in Messages \ {"turn"}
    PROVE  LET s == t \o <<"turn", reply>>
           IN  /\ s \in Seq(Messages)
               /\ Len(s) % 2 = 1
               /\ \A i \in 1 .. Len(s) : s[i] = "turn" <=> i % 2 = 0
<1> DEFINE s == t \o <<"turn", reply>>
<1>1. s \in Seq(Messages) /\ Len(s) = Len(t) + 2 /\ Len(t) \in Nat
  BY DEF Messages
<1>2. ASSUME NEW i \in 1 .. Len(s) PROVE s[i] = "turn" <=> i % 2 = 0
  <2>1. CASE i \in 1 .. Len(t)
    BY <2>1, <1>1
  <2>2. CASE i = Len(t) + 1
    BY <2>2, <1>1
  <2>3. CASE i = Len(t) + 2
    BY <2>3, <1>1
  <2> QED BY <1>1, <2>1, <2>2, <2>3
<1>3. Len(s) % 2 = 1
  BY <1>1
<1> QED BY <1>1, <1>2, <1>3

-----------------------------------------------------------------------------
(* The invariant is inductive.                                               *)

\* Updates of records, for any sets of fields.
LEMMA AnswerFields ==
    ASSUME NEW R, NEW C, NEW Q, NEW N, NEW F, NEW L,
           NEW lp \in [rounds : R, calls : C, requests : Q, counted : N,
                       finish : F, last : L],
           NEW n \in N, NEW l \in L, NEW f \in F
    PROVE  LET new == [lp EXCEPT !.counted = n, !.last = l, !.finish = f]
           IN  /\ new \in [rounds : R, calls : C, requests : Q, counted : N,
                           finish : F, last : L]
               /\ new.rounds = lp.rounds /\ new.calls = lp.calls
               /\ new.counted = n
  OBVIOUS

LEMMA CallFields ==
    ASSUME NEW R, NEW C, NEW Q, NEW N, NEW F, NEW L,
           NEW lp \in [rounds : R, calls : C, requests : Q, counted : N,
                       finish : F, last : L],
           NEW c \in C, NEW q \in Q
    PROVE  LET new == [lp EXCEPT !.calls = c, !.requests = q]
           IN  /\ new \in [rounds : R, calls : C, requests : Q, counted : N,
                           finish : F, last : L]
               /\ new.rounds = lp.rounds /\ new.counted = lp.counted
               /\ new.calls = c
  OBVIOUS

LEMMA RoundFields ==
    ASSUME NEW R, NEW C, NEW Q, NEW N, NEW F, NEW L,
           NEW lp \in [rounds : R, calls : C, requests : Q, counted : N,
                       finish : F, last : L],
           NEW r \in R
    PROVE  LET new == [lp EXCEPT !.rounds = r]
           IN  /\ new \in [rounds : R, calls : C, requests : Q, counted : N,
                           finish : F, last : L]
               /\ new.rounds = r /\ new.counted = lp.counted
               /\ new.calls = lp.calls
  OBVIOUS

LEMMA SeenFields ==
    ASSUME NEW P, NEW T,
           NEW s \in [calls : Nat, providers : P, answers : Nat,
                      cut : BOOLEAN, usable : BOOLEAN, tools : T],
           NEW c \in Nat, NEW p \in P, NEW n \in Nat
    PROVE  LET new == [s EXCEPT !.calls = c, !.providers = p, !.answers = n]
           IN  /\ new \in [calls : Nat, providers : P, answers : Nat,
                           cut : BOOLEAN, usable : BOOLEAN, tools : T]
               /\ new.calls = c
  OBVIOUS

\* What the counters of a loop are bounded by.
LEMMA LoopFields ==
    ASSUME NEW lp \in LoopState
    PROVE  /\ lp.rounds \in 1 .. TOOL_LOOP_MAX_ROUNDS
           /\ lp.calls \in 0 .. TOOL_LOOP_MAX_ROUNDS
           /\ lp.counted \in 0 .. TOOL_LOOP_MAX_ROUNDS
           /\ lp.requests \in Seq(Tools) /\ lp.last \in Content
  BY DEF LoopState

\* The counters of a round whose answer is `a`.
LEMMA CountedStep ==
    ASSUME Inv, pc = "asking", NEW a \in Answers
    PROVE  LET lp == Counted(a)
           IN  /\ lp \in LoopState
               /\ lp.rounds = loop.rounds
               /\ lp.counted <= lp.rounds /\ lp.calls < lp.rounds
<1>1. loop.counted < loop.rounds /\ loop.calls < loop.rounds /\ loop \in LoopState
      /\ provider \in Providers
  BY DEF Inv, Linked, TypeOK
<1>2. FinishReason(provider, a.cut) \in FinishReasons
  BY <1>1, ModelCallAssumption DEF FinishReason, FinishReasons, CutReason
<1>3. a.raw \in Content
  BY DEF Answers
<1>4. loop.counted + 1 \in 0 .. TOOL_LOOP_MAX_ROUNDS /\ loop.counted + 1 <= loop.rounds
  BY <1>1, LoopFields, ModelCallAssumption
<1> DEFINE f == FinishReason(provider, a.cut)
           l == a.raw
           new == [loop EXCEPT !.counted = loop.counted + 1, !.last = l, !.finish = f]
<1>5. Counted(a) = new
  BY DEF Counted
<1> HIDE DEF f, l
<1>6. /\ new \in LoopState
      /\ new.rounds = loop.rounds /\ new.calls = loop.calls
      /\ new.counted = loop.counted + 1
  <2>1. f \in FinishReasons /\ l \in Content
    BY <1>2, <1>3 DEF f, l
  <2> QED BY <1>1, <1>4, <2>1, AnswerFields DEF LoopState
<1> HIDE DEF new
<1> QED BY <1>1, <1>4, <1>5, <1>6

\* A tool that runs is one the registry knows.
LEMMA ExecutesKnown ==
    ASSUME NEW name, Executes(name)
    PROVE  Canonical(name) \in Tools
  BY DEF Executes

LEMMA DeliveredContent ==
    ASSUME NEW a \in Answers
    PROVE  a.raw \in Content /\ Delivered(a) \in Content
  BY DEF Answers, Delivered

\* What is heard keeps its type, and costs one call.
LEMMA HeardStep ==
    ASSUME TypeOK, provider \in Providers, NEW a \in Answers,
           NEW tool \in SUBSET Tools, Heard(a, tool)
    PROVE  seen' \in SeenState /\ seen'.calls = seen.calls + 1
<1>1. a.cut \in BOOLEAN /\ Usable(Delivered(a)) \in BOOLEAN
  BY DEF Answers, Usable
<1>2. seen \in SeenState
  BY DEF TypeOK, SeenState
<1>3. seen.answers + 1 \in Nat /\ seen.calls + 1 \in Nat
      /\ seen.providers \union {provider} \in SUBSET Providers
      /\ seen.tools \union tool \in SUBSET Tools
  BY <1>2 DEF SeenState
<1> QED BY <1>1, <1>2, <1>3 DEF Heard, SeenState

\* A request that used up its round is followed by the next round or judged.
LEMMA EndRoundInv ==
    ASSUME Inv, pc = "asking", role \in ToolRoles,
           NEW lp \in LoopState, lp.rounds = loop.rounds,
           lp.counted <= lp.rounds, lp.calls <= lp.rounds,
           NEW reply \in Messages \ {"turn"},
           EndRound(lp, talk \o <<"turn", reply>>),
           seen' \in SeenState, seen'.calls = seen.calls + 1
    PROVE  Inv'
<1> USE DEF Inv
<1> DEFINE said == talk \o <<"turn", reply>>
<1>1. /\ said \in Seq(Messages)
      /\ Len(said) % 2 = 1
      /\ \A i \in 1 .. Len(said) : said[i] = "turn" <=> i % 2 = 0
  BY Alternates DEF RequestsAlternate, TypeOK
<1>2. provider \in Providers
  BY DEF Linked
<1>3. CASE RoundsLeft(lp) /\ loop' = [lp EXCEPT !.rounds = @ + 1] /\ talk' = said
           /\ UNCHANGED <<role, setting, pc, provider, attempt, row, summary>>
  <2>1. loop' \in LoopState /\ loop'.rounds = loop.rounds + 1
        /\ loop'.counted < loop'.rounds /\ loop'.calls < loop'.rounds
    <3>1. lp.rounds + 1 \in 1 .. TOOL_LOOP_MAX_ROUNDS
          /\ lp.counted < lp.rounds + 1 /\ lp.calls < lp.rounds + 1
      BY <1>3, LoopFields, ModelCallAssumption DEF RoundsLeft
    <3>2. /\ [lp EXCEPT !.rounds = lp.rounds + 1] \in LoopState
          /\ [lp EXCEPT !.rounds = lp.rounds + 1].rounds = lp.rounds + 1
          /\ [lp EXCEPT !.rounds = lp.rounds + 1].counted = lp.counted
          /\ [lp EXCEPT !.rounds = lp.rounds + 1].calls = lp.calls
      BY <3>1, RoundFields DEF LoopState
    <3> QED BY <1>3, <3>1, <3>2
  <2>2. TypeOK'
    BY <1>1, <1>3, <2>1 DEF TypeOK, SeenState
  <2>3. Linked'
    BY <1>3, <2>1 DEF Linked
  <2>4. Spent'
    <3>1. Rounds' = Rounds /\ Rounds \in Nat /\ loop.rounds \in Nat /\ seen.calls \in Nat
      BY <1>3, RoundsPositive DEF Rounds, TypeOK, LoopState
    <3>2. Remaining = Rounds - loop.rounds + 1 /\ Remaining' = Rounds - loop.rounds
      BY <1>3, <2>1, <3>1 DEF Remaining
    <3>3. seen'.calls + Remaining' = seen.calls + Remaining
      BY <3>1, <3>2
    <3> QED BY <1>3, <3>1, <3>3 DEF Spent
  <2>5. RequestsAlternate'
    BY <1>1, <1>3 DEF RequestsAlternate
  <2> QED BY <1>3, <2>2, <2>3, <2>4, <2>5 DEF InformersNeverVeto
<1>4. CASE Judge(lp, lp.last, "max_rounds_exhausted", said)
  <2>1. lp.last \in Content
    BY DEF LoopState
  <2>2. Judged
    BY <1>1, <1>2, <1>4, <2>1, JudgeStep DEF Endings
  <2> QED BY <2>2, JudgedInv
<1> QED BY <1>3, <1>4 DEF EndRound

\* A request judged at once.
LEMMA JudgedAtOnce ==
    ASSUME Inv, pc = "asking", NEW lp \in LoopState, NEW content \in Content,
           NEW ended \in Endings, NEW said \in Seq(Messages),
           Judge(lp, content, ended, said),
           seen' \in SeenState, seen'.calls = seen.calls + 1
    PROVE  Inv'
<1>1. provider \in Providers
  BY DEF Inv, Linked
<1>2. Judged
  BY <1>1, JudgeStep DEF Inv
<1> QED BY <1>2, JudgedInv

LEMMA AnswerInv ==
    ASSUME Inv, NEW a \in Answers,
           Final(a) \/ Malformed(a) \/ ToolRefused(a) \/ ToolRuns(a) \/ ToolRaises(a)
    PROVE  Inv'
<1>1. pc = "asking"
  BY DEF Final, Malformed, ToolRefused, ToolRuns, ToolRaises
<1>2. TypeOK /\ provider \in Providers /\ talk \in Seq(Messages)
  BY <1>1 DEF Inv, Linked, TypeOK
<1> DEFINE lp == Counted(a)
           ran == [lp EXCEPT !.calls = @ + 1, !.requests = Append(@, Canonical(a.tool))]
<1>3. /\ lp \in LoopState /\ lp.rounds = loop.rounds
      /\ lp.counted <= lp.rounds /\ lp.calls < lp.rounds
  BY <1>1, CountedStep
<1> HIDE DEF lp
<1>4. CASE Final(a)
  <2>1. Judge(lp, Delivered(a), "final", talk) /\ Heard(a, {})
    BY <1>4 DEF Final, lp
  <2>2. seen' \in SeenState /\ seen'.calls = seen.calls + 1
    BY <1>2, <2>1, HeardStep
  <2> QED BY <1>1, <1>2, <1>3, <2>1, <2>2, DeliveredContent, JudgedAtOnce DEF Endings
<1>5. CASE Malformed(a)
  <2>1. role \in ToolRoles /\ EndRound(lp, talk \o <<"turn", "nudge">>) /\ Heard(a, {})
    BY <1>5 DEF Malformed, lp
  <2>2. seen' \in SeenState /\ seen'.calls = seen.calls + 1
    BY <1>2, <2>1, HeardStep
  <2> QED BY <1>1, <1>3, <2>1, <2>2, EndRoundInv DEF Messages, LoopState
<1>6. CASE ToolRefused(a)
  <2>1. role \in ToolRoles /\ EndRound(lp, talk \o <<"turn", "refusal">>) /\ Heard(a, {})
    BY <1>6 DEF ToolRefused, lp
  <2>2. seen' \in SeenState /\ seen'.calls = seen.calls + 1
    BY <1>2, <2>1, HeardStep
  <2> QED BY <1>1, <1>3, <2>1, <2>2, EndRoundInv DEF Messages, LoopState
<1>7. CASE ToolRuns(a)
  <2>1. /\ role \in ToolRoles /\ Executes(a.tool)
        /\ EndRound(ran, talk \o <<"turn", "result">>)
        /\ Heard(a, {Canonical(a.tool)})
    BY <1>7 DEF ToolRuns, lp
  <2>2. Canonical(a.tool) \in Tools
    BY <2>1, ExecutesKnown
  <2>3. seen' \in SeenState /\ seen'.calls = seen.calls + 1
    BY <1>2, <2>1, <2>2, HeardStep
  <2>4. /\ ran \in LoopState /\ ran.rounds = loop.rounds
        /\ ran.counted <= ran.rounds /\ ran.calls <= ran.rounds
    <3>1. lp.calls + 1 \in 0 .. TOOL_LOOP_MAX_ROUNDS /\ lp.calls + 1 <= lp.rounds
      BY <1>3, LoopFields, ModelCallAssumption
    <3>2. Append(lp.requests, Canonical(a.tool)) \in Seq(Tools)
      BY <1>3, <2>2, LoopFields
    <3>3. /\ ran \in LoopState /\ ran.rounds = lp.rounds
          /\ ran.counted = lp.counted /\ ran.calls = lp.calls + 1
      BY <1>3, <3>1, <3>2, CallFields DEF LoopState
    <3> QED BY <1>3, <3>1, <3>3
  <2>5. "result" \in Messages \ {"turn"}
    BY DEF Messages
  <2> HIDE DEF ran
  <2> QED BY <1>1, <2>1, <2>3, <2>4, <2>5, EndRoundInv
<1>8. CASE ToolRaises(a)
  <2>1. /\ Executes(a.tool)
        /\ Judge(lp, a.raw, "error", Append(talk, "turn"))
        /\ Heard(a, {Canonical(a.tool)})
    BY <1>8 DEF ToolRaises, lp
  <2>2. Append(talk, "turn") \in Seq(Messages)
    BY <1>2 DEF Messages
  <2>3. seen' \in SeenState /\ seen'.calls = seen.calls + 1
    BY <1>2, <2>1, HeardStep, ExecutesKnown
  <2> QED BY <1>1, <1>3, <2>1, <2>2, <2>3, DeliveredContent, JudgedAtOnce DEF Endings
<1> QED BY <1>4, <1>5, <1>6, <1>7, <1>8

LEMMA ProviderFailsInv ==
    ASSUME Inv, ProviderFails
    PROVE  Inv'
<1>1. pc = "asking" /\ TypeOK /\ provider \in Providers /\ talk \in Seq(Messages)
      /\ loop \in LoopState
  BY DEF ProviderFails, Inv, Linked, TypeOK
<1>2. seen' \in SeenState /\ seen'.calls = seen.calls + 1
  <2>1. seen \in SeenState
    BY <1>1 DEF TypeOK, SeenState
  <2> DEFINE n == IF attempt' = attempt THEN seen.answers ELSE 0
  <2>2. n \in Nat /\ seen.calls + 1 \in Nat
        /\ seen.providers \union {provider} \in SUBSET Providers
    BY <1>1, <2>1 DEF SeenState
  <2>3. seen' = [seen EXCEPT !.calls = seen.calls + 1,
                             !.providers = seen.providers \union {provider},
                             !.answers = n]
    BY DEF ProviderFails
  <2> HIDE DEF n
  <2> QED BY <2>1, <2>2, <2>3, SeenFields DEF SeenState
<1>3. CASE Judge(loop, loop.last, "error", talk)
  <2>1. loop.last \in Content
    BY <1>1 DEF LoopState
  <2> QED BY <1>1, <1>2, <1>3, <2>1, JudgedAtOnce DEF Endings
<1>4. CASE Abandon(loop) /\ UNCHANGED <<loop, talk>>
  <2>1. Judged
    BY <1>1, <1>4, AbandonStep DEF Judged
  <2> QED BY <1>1, <1>2, <2>1, JudgedInv
<1> QED BY <1>3, <1>4 DEF ProviderFails

LEMMA NextInv == Inv /\ [Next]_vars => Inv'
<1> SUFFICES ASSUME Inv, [Next]_vars PROVE Inv'
  OBVIOUS
<1>1. ASSUME NEW s \in Providers \union {Unusable}, UpdateSettings(s) PROVE Inv'
  BY <1>1
     DEF Inv, UpdateSettings, TypeOK, Linked, Spent, Remaining, Rounds,
         RequestsAlternate, InformersNeverVeto
<1>2. CASE Execute
  <2>1. TypeOK'
    BY <1>2, ModelCallAssumption
       DEF Inv, Execute, TypeOK, Messages, NewRow, RowState, FinishReasons
  <2>2. Linked'
    BY <1>2, ModelCallAssumption DEF Inv, Execute, Linked, Fresh
  <2>3. Spent'
    BY <1>2 DEF Inv, Execute, Spent, Remaining, Rounds
  <2>4. RequestsAlternate' /\ InformersNeverVeto'
    BY <1>2 DEF Execute, RequestsAlternate, InformersNeverVeto, NewRow
  <2> QED BY <2>1, <2>2, <2>3, <2>4 DEF Inv
<1>3. CASE ExecuteUnresolved
  <2>1. /\ UNCHANGED <<role, setting, provider, attempt, loop, talk, seen>>
        /\ pc' = "recorded" /\ row' \in RowState
        /\ summary' \in SummaryState \union {NoSummary} /\ InformersNeverVeto'
    BY <1>3, AbandonStep DEF ExecuteUnresolved, Inv, TypeOK
  <2>2. TypeOK'
    BY <2>1 DEF Inv, TypeOK
  <2>3. Linked'
    BY <2>1 DEF Inv, Linked
  <2>4. Spent'
    <3>1. seen.calls = 0 /\ attempt = 0 /\ Rounds' = Rounds
      BY <1>3, <2>1 DEF ExecuteUnresolved, Inv, Linked, Rounds
    <3> QED BY <2>1, <3>1, RoundsPositive DEF Spent, Remaining
  <2> QED BY <2>1, <2>2, <2>3, <2>4 DEF Inv, RequestsAlternate
<1>4. CASE Answer
  BY <1>4, AnswerInv DEF Answer
<1>5. CASE ProviderFails
  BY <1>5, ProviderFailsInv
<1>6. CASE UNCHANGED vars
  BY <1>6
     DEF Inv, vars, TypeOK, Linked, Spent, Remaining, Rounds, RequestsAlternate,
         InformersNeverVeto
<1> QED BY <1>1, <1>2, <1>3, <1>4, <1>5, <1>6 DEF Next

\* The inductive invariant: types, counters, the calls that are left, the turns
\* of the conversation and the veto rule, for every number of retries and rounds.
THEOREM Invariance == Spec => []Inv
<1> QED BY InitInv, NextInv, PTL DEF Spec

-----------------------------------------------------------------------------
(* The theorems.                                                             *)

\* Every state of a call has the declared types, the bound of _parse_retry_core
\* on attempts among them.
THEOREM TypeCorrect == Spec => []TypeOK
<1>1. Inv => TypeOK
  BY DEF Inv
<1> QED BY <1>1, Invariance, PTL

\* VETO INVARIANT: no setting, provider, answer or tool makes a role that only
\* informs the next one fail its step.
THEOREM NeverVetoes == Spec => []InformersNeverVeto
<1>1. Inv => InformersNeverVeto
  BY DEF Inv
<1> QED BY <1>1, Invariance, PTL

\* However many retries and rounds are configured, a step asks its provider at
\* most once per round of each attempt it is allowed.
THEOREM BudgetKept == Spec => []CallBudget
<1>1. ASSUME Inv PROVE CallBudget
  <2>1. Rounds \in Nat \ {0} /\ attempt \in Nat /\ seen.calls \in Nat
        /\ Attempts \in Nat /\ attempt + 1 <= Attempts
    BY <1>1, RoundsPositive, ModelCallAssumption
       DEF Inv, TypeOK, Linked, Attempts, Roles
  <2>2. Remaining \in Nat
    BY <1>1, <2>1, RoundsPositive
       DEF Inv, Linked, Remaining, Rounds, TypeOK, LoopState
  <2>3. (attempt + 1) * Rounds <= Attempts * Rounds
    BY <2>1, Monotone
  <2>4. seen.calls + Remaining <= (attempt + 1) * Rounds
    BY <1>1 DEF Inv, Spent
  <2>5. (attempt + 1) * Rounds \in Nat /\ Attempts * Rounds \in Nat
    BY <2>1
  <2> QED BY <2>1, <2>2, <2>3, <2>4, <2>5 DEF CallBudget
<1> QED BY <1>1, Invariance, PTL

\* Every request alternates the turns, for every length of the tool loop.
THEOREM TurnsAlternate == Spec => []RequestsAlternate
<1>1. Inv => RequestsAlternate
  BY DEF Inv
<1> QED BY <1>1, Invariance, PTL
=============================================================================
