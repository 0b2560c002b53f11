------------------------ MODULE ProviderDecisionProofs ------------------------
(***************************************************************************)
(* Proofs about ProviderDecision, for any options, skills, thresholds and  *)
(* number of requests.                                                     *)
(*                                                                         *)
(* Every step but a registration replaces the record of one request, so    *)
(* the inductive invariant is a condition Fit on a record, and each lemma  *)
(* says that the record an action puts there is fit.                       *)
(***************************************************************************)
EXTENDS ProviderDecision, TLAPS

RecordOK(a) ==
  a \in [at: {"idle", "asked", "answered", "failed", "no such skill"},
         kind: {"none", "choice", "route", "run", "control"}, options: Seq(Names),
         sent: SUBSET (Keys \cup {"task", "content_length"}), policy: Verdicts \cup {"none"},
         altered: BOOLEAN, result: Names \cup {"none", "elsewhere"},
         source: {"none", "policy", "confidence", "jev"},
         heard: {NothingHeard} \cup Choices(a.options)]

Local(a) == a.kind = "control" => a.sent \subseteq {"path", "command", "content_length"}

Earned(a) ==
  a.kind = "control" /\ a.result = "allow" =>
    /\ a.policy = "pass"
    /\ \/ client = "mock" /\ a.source = "policy"
       \/ /\ a.source = "jev" /\ ~a.altered
          /\ a.heard.choice = "allow"
          /\ a.heard.confidence \in MinConfidence..Full
          /\ \A o \in DOMAIN a.heard.probabilities :
               a.heard.probabilities[o] <= a.heard.probabilities["allow"]

Optional(a) ==
  /\ a.at # "no such skill"
  /\ a.at = "answered" /\ a.source # "policy" => a.result \in Range(a.options)
  /\ a.at = "answered" /\ a.kind = "run" => a.result \in Range(registry)

\* What a request that is still open relies on.
Open(a) ==
  /\ a.at = "idle" => a.kind = "none"
  /\ a.at \in {"idle", "asked"} => a.result = "none" /\ a.source = "none" /\ a.heard = NothingHeard
  /\ a.at = "asked" /\ a.kind = "control" =>
       client # "mock" /\ a.policy = "pass" /\ a.options = Outcomes
  /\ a.at = "asked" /\ a.kind = "run" => Range(a.options) \subseteq Range(registry)
  /\ a.at = "failed" => a.result = "none"

Fit(a) == RecordOK(a) /\ Local(a) /\ Earned(a) /\ Optional(a) /\ Open(a)

Inv ==
  /\ client \in Clients /\ view \in Views
  /\ registry \in Seq(Skills)
  /\ DOMAIN ask = Asks
  /\ \A q \in Asks : Fit(ask[q])

Rest == UNCHANGED <<client, view, registry>>

-----------------------------------------------------------------------------
(* Records *)

LEMMA IdleFit == Fit(Idle)
<1>1. RecordOK(Idle)
  BY DEF RecordOK, Idle, Entry
<1>2. Local(Idle) /\ Earned(Idle) /\ Optional(Idle) /\ Open(Idle)
  BY DEF Local, Earned, Optional, Open, Idle, Entry
<1> QED BY <1>1, <1>2 DEF Fit

\* The range of a sequence is within the set it is a sequence over, and a sequence
\* that is appended to keeps its range.
LEMMA RangeIn == ASSUME NEW S, NEW s \in Seq(S) PROVE Range(s) \subseteq S
  BY DEF Range

LEMMA RangeGrows == ASSUME NEW S, NEW s \in Seq(S), NEW e \in S PROVE Range(s) \subseteq Range(Append(s, e))
<1>1. DOMAIN s \subseteq DOMAIN Append(s, e)  OBVIOUS
<1>2. \A i \in DOMAIN s : Append(s, e)[i] = s[i]  OBVIOUS
<1> QED BY <1>1, <1>2 DEF Range

\* Every client validates the confidence.
LEMMA ConfidenceInRange ==
  ASSUME client \in Clients, NEW options, NEW wire, ClientAccepts(options, wire)
  PROVE  InRange(wire.confidence)
  BY DEF Clients, ClientAccepts, TypeSafeAccepts, HTTPAccepts, MockAccepts, CustomAccepts

\* No client accepts probabilities by which another option is likelier.
LEMMA NoneLikelier ==
  ASSUME client \in Clients, NEW options, NEW wire \in Choices(options),
         ClientAccepts(options, wire)
  PROVE  \A o \in DOMAIN wire.probabilities : wire.probabilities[o] <= wire.probabilities[wire.choice]
<1>1. CASE client = "typesafe"
  BY <1>1 DEF ClientAccepts, TypeSafeAccepts
<1>2. CASE client # "typesafe"
  <2>1. wire.probabilities \in [{} -> Levels]
    BY <1>2 DEF Choices, Given
  <2> QED BY <2>1
<1> QED BY <1>1, <1>2

\* What is fit stays fit while the registry grows.
LEMMA FitStays ==
  ASSUME client' = client, Range(registry) \subseteq Range(registry')
  PROVE  \A b : Fit(b) => Fit(b)'
<1> SUFFICES ASSUME NEW b, Fit(b) PROVE Fit(b)'
  OBVIOUS
<1>1. Choices(b.options)' = Choices(b.options)
  BY DEF Choices, Given, Words
<1>2. RecordOK(b)'
  BY <1>1 DEF Fit, RecordOK
<1>3. Local(b)' /\ Earned(b)'
  BY DEF Fit, Local, Earned
<1>4. Optional(b)' /\ Open(b)'
  BY DEF Fit, Optional, Open
<1> QED BY <1>2, <1>3, <1>4 DEF Fit

\* The registry may grow; otherwise one record is replaced by a fit one, or none.
LEMMA NoneReplaced ==
  ASSUME Inv, UNCHANGED <<client, view, ask>>, registry' \in Seq(Skills),
         Range(registry) \subseteq Range(registry')
  PROVE  Inv'
<1>1. \A q \in Asks : Fit(ask[q])'
  BY FitStays DEF Inv
<1> QED BY <1>1 DEF Inv

LEMMA OneReplaced ==
  ASSUME Inv, Rest, NEW q \in Asks, NEW a, Fit(a), ask' = [ask EXCEPT ![q] = a]
  PROVE  Inv'
<1>1. \A r \in Asks : ask'[r] = IF r = q THEN a ELSE ask[r]
  BY DEF Inv
<1>2. \A b : Fit(b) => Fit(b)'
  BY FitStays DEF Rest
<1>3. \A r \in Asks : Fit(ask'[r])
  BY <1>1 DEF Inv
<1> QED BY <1>1, <1>2, <1>3 DEF Inv, Rest

-----------------------------------------------------------------------------
(* Asking *)

LEMMA SendFits ==
  ASSUME Inv, Rest, NEW q \in Asks,
         NEW kind \in {"choice", "route", "run", "control"}, NEW task, NEW options \in Seq(Names),
         NEW sent \in SUBSET (Keys \cup {"task", "content_length"}),
         NEW policy \in Verdicts \cup {"none"},
         kind = "run" => options = registry,
         kind = "control" => /\ client # "mock" /\ policy = "pass" /\ options = Outcomes
                             /\ sent \subseteq {"path", "command", "content_length"},
         Send(q, kind, task, options, sent, policy)
  PROVE  Inv'
<1> DEFINE at == IF Valid(task, options) THEN "asked" ELSE "failed"
           a == [at |-> at, kind |-> kind, options |-> options, sent |-> sent, policy |-> policy,
                 altered |-> FALSE, result |-> "none", source |-> "none", heard |-> NothingHeard]
<1>1. ask' = [ask EXCEPT ![q] = a]
  BY DEF Send, Entry
<1>2. at \in {"asked", "failed"}
  OBVIOUS
<1> HIDE DEF at
<1>3. RecordOK(a)
  BY <1>2 DEF RecordOK
<1>4. Local(a) /\ Earned(a) /\ Optional(a) /\ Open(a)
  BY <1>2 DEF Local, Earned, Optional, Open
<1>5. Fit(a)
  BY <1>3, <1>4 DEF Fit
<1> HIDE DEF a
<1> QED BY <1>1, <1>5, OneReplaced

\* The projection of a well-shaped proposal holds no content.
LEMMA ProjectionHidesContent ==
  ASSUME NEW tool, NEW args, WellShaped(tool, args)
  PROVE  Projected(tool, args) \subseteq {"path", "command", "content_length"}
<1>1. /\ DOMAIN Accepted = {"list_files", "read_file", "write_file", "run_safe_command"}
      /\ Accepted["list_files"] = {"path"} /\ Accepted["read_file"] = {"path"}
      /\ Accepted["write_file"] = {"path", "content"}
      /\ Accepted["run_safe_command"] = {"command"}
  BY DEF Accepted
<1>2. CASE tool = "write_file"
  <2>1. DOMAIN args \subseteq {"path", "content"}
    BY <1>1, <1>2 DEF WellShaped
  <2>2. "content" \in DOMAIN args => args["content"] # "not a string"
    BY DEF WellShaped
  <2> QED BY <1>2, <2>1, <2>2 DEF Projected
<1>3. CASE tool # "write_file"
  <2>1. DOMAIN args \subseteq {"path", "command"}
    BY <1>1, <1>3 DEF WellShaped
  <2> QED BY <1>3, <2>1 DEF Projected
<1> QED BY <1>2, <1>3

LEMMA SettleFits ==
  ASSUME Inv, Rest, NEW q \in Asks, NEW verdict \in Verdicts,
         NEW at \in {"answered", "failed"}, NEW result \in {"allow", "review", "deny", "none"},
         NEW source \in {"none", "policy"},
         at = "answered" => source = "policy",
         at = "failed" => result = "none",
         result = "allow" => verdict = "pass" /\ client = "mock",
         ask' = [ask EXCEPT ![q] = Entry(at, "control", <<>>, {}, verdict, result, source)]
  PROVE  Inv'
<1> DEFINE a == Entry(at, "control", <<>>, {}, verdict, result, source)
<1>1. RecordOK(a)
  <2>1. result \in Names \cup {"none", "elsewhere"} /\ verdict \in Verdicts \cup {"none"}
    BY NamesAssumption
  <2>2. <<>> \in Seq(Names) /\ {} \in SUBSET (Keys \cup {"task", "content_length"})
    OBVIOUS
  <2>3. at \in {"idle", "asked", "answered", "failed", "no such skill"}
    OBVIOUS
  <2>4. source \in {"none", "policy", "confidence", "jev"}
    OBVIOUS
  <2> QED BY <2>1, <2>2, <2>3, <2>4 DEF RecordOK, Entry
<1>2. Local(a) /\ Earned(a) /\ Optional(a) /\ Open(a)
  BY DEF Local, Earned, Optional, Open, Entry
<1>3. Fit(a)
  BY <1>1, <1>2 DEF Fit
<1> HIDE DEF a
<1> QED BY <1>3, OneReplaced DEF a

LEMMA OutcomesAreNames == Outcomes \in Seq(Names)
  BY NamesAssumption DEF Outcomes

LEMMA AskControlFits ==
  ASSUME Inv, NEW q \in Asks, NEW tool \in Tools, NEW args \in Arguments,
         NEW verdict \in Verdicts, AskControl(q, tool, args, verdict)
  PROVE  Inv'
<1>1. Rest /\ MayFind(tool, args, verdict)
  BY DEF AskControl, Rest
<1>2. CASE verdict # "pass" /\ Settle(q, verdict, verdict)
  BY <1>1, <1>2, SettleFits DEF Verdicts, Settle
<1>3. CASE verdict = "pass" /\ ~Consulted /\ Settle(q, verdict, "allow")
  BY <1>1, <1>3, SettleFits DEF Consulted, Settle
<1>4. CASE verdict = "pass" /\ Withhold(q, verdict)
  BY <1>1, <1>4, SettleFits DEF Withhold
<1>5. CASE /\ verdict = "pass" /\ Consulted /\ view = "decision_arguments"
           /\ Send(q, "control", "text", Outcomes, Projected(tool, args), verdict)
  <2>1. Projected(tool, args) \subseteq {"path", "command", "content_length"}
    <3>1. WellShaped(tool, args)
      BY <1>1, <1>5 DEF MayFind
    <3> QED BY <3>1, ProjectionHidesContent
  <2>2. Projected(tool, args) \in SUBSET (Keys \cup {"task", "content_length"})
    BY <2>1 DEF Keys
  <2> QED BY <1>1, <1>5, <2>1, <2>2, SendFits, OutcomesAreNames DEF Consulted
<1> QED BY <1>2, <1>3, <1>4, <1>5 DEF AskControl

-----------------------------------------------------------------------------
(* Answering *)

LEMMA EndFits ==
  ASSUME Inv, Rest, NEW q \in Asks, ask[q].at = "asked", End(q, "failed")
  PROVE  Inv'
<1> DEFINE a == [ask[q] EXCEPT !.at = "failed"]
<1>1. Fit(ask[q]) /\ ask' = [ask EXCEPT ![q] = a]
  BY DEF Inv, End
<1>2. RecordOK(a)
  BY <1>1 DEF Fit, RecordOK
<1>3. Local(a) /\ Earned(a) /\ Optional(a) /\ Open(a)
  BY <1>1 DEF Fit, RecordOK, Local, Earned, Optional, Open
<1>4. Fit(a)
  BY <1>2, <1>3 DEF Fit
<1> HIDE DEF a
<1> QED BY <1>1, <1>4, OneReplaced

LEMMA AlterFits ==
  ASSUME Inv, NEW q \in Asks, Alter(q)
  PROVE  Inv'
<1> DEFINE a == [ask[q] EXCEPT !.altered = TRUE]
<1>1. Fit(ask[q]) /\ ask' = [ask EXCEPT ![q] = a] /\ ask[q].at = "asked" /\ Rest
  BY DEF Inv, Alter, Rest
<1>2. RecordOK(a)
  BY <1>1 DEF Fit, RecordOK
<1>3. Local(a) /\ Earned(a) /\ Optional(a) /\ Open(a)
  BY <1>1 DEF Fit, RecordOK, Local, Earned, Optional, Open
<1>4. Fit(a)
  BY <1>2, <1>3 DEF Fit
<1> HIDE DEF a
<1> QED BY <1>1, <1>4, OneReplaced

\* An accepted reply may be handed on as it is, or as a review if it allows with
\* too little confidence.
LEMMA ConcludeFits ==
  ASSUME Inv, Rest, NEW q \in Asks, ask[q].at = "asked", NEW wire \in Choices(ask[q].options),
         ClientAccepts(ask[q].options, wire), EngineAccepts(ask[q].options, wire),
         NEW result, NEW source \in {"confidence", "jev"},
         result = wire.choice \/ (ask[q].kind = "control" /\ result = "review"),
         result = "allow" /\ ask[q].kind = "control" =>
           source = "jev" /\ ~ask[q].altered /\ ~(wire.confidence < MinConfidence),
         Conclude(q, wire, result, source)
  PROVE  Inv'
<1> DEFINE a == [ask[q] EXCEPT !.at = "answered", !.result = result, !.source = source, !.heard = wire]
<1>1. Fit(ask[q]) /\ ask' = [ask EXCEPT ![q] = a]
  BY DEF Inv, Conclude
<1>2. /\ RecordOK(ask[q]) /\ Open(ask[q]) /\ ask[q].options \in Seq(Names)
      /\ Range(ask[q].options) \subseteq Names
  <2>1. RecordOK(ask[q]) /\ Open(ask[q]) /\ ask[q].options \in Seq(Names)
    BY <1>1 DEF Fit, RecordOK
  <2> QED BY <2>1, RangeIn
<1>3. result \in Range(ask[q].options)
  <2>1. CASE result = wire.choice
    BY <2>1 DEF EngineAccepts
  <2>2. CASE ask[q].kind = "control" /\ result = "review"
    <3>1. ask[q].options = Outcomes
      BY <1>2, <2>2 DEF Open
    <3>2. Outcomes[2] = "review" /\ 2 \in DOMAIN Outcomes
      BY DEF Outcomes
    <3> QED BY <2>2, <3>1, <3>2 DEF Range
  <2> QED BY <2>1, <2>2
<1>4. /\ a.at = "answered" /\ a.result = result /\ a.source = source /\ a.heard = wire
      /\ a.options = ask[q].options /\ a.kind = ask[q].kind /\ a.sent = ask[q].sent
      /\ a.policy = ask[q].policy /\ a.altered = ask[q].altered
  BY <1>2 DEF RecordOK
<1>5. RecordOK(a)
  <2>1. result \in Names \cup {"none", "elsewhere"} /\ wire \in {NothingHeard} \cup Choices(a.options)
    BY <1>2, <1>3, <1>4
  <2>2. source \in {"none", "policy", "confidence", "jev"}
    OBVIOUS
  <2> QED BY <1>2, <1>4, <2>1, <2>2 DEF RecordOK
<1> HIDE DEF a
<1>6. Local(a)
  BY <1>1, <1>4 DEF Fit, Local
<1>7. Optional(a)
  BY <1>2, <1>3, <1>4 DEF Optional, Open
<1>8. Earned(a)
  <2> SUFFICES ASSUME a.kind = "control", a.result = "allow"
               PROVE  /\ a.policy = "pass" /\ a.source = "jev" /\ ~a.altered
                      /\ a.heard.choice = "allow"
                      /\ a.heard.confidence \in MinConfidence..Full
                      /\ \A o \in DOMAIN a.heard.probabilities :
                           a.heard.probabilities[o] <= a.heard.probabilities["allow"]
    BY DEF Earned
  <2>1. wire.choice = "allow" /\ ~(wire.confidence < MinConfidence) /\ source = "jev" /\ ~ask[q].altered
    BY <1>4
  <2>2. a.policy = "pass"
    BY <1>2, <1>4 DEF Open
  <2>3. client \in Clients
    BY DEF Inv
  <2>4. wire.confidence \in MinConfidence..Full
    BY <2>1, <2>3, ConfidenceInRange, BoundsAssumption DEF InRange
  <2>5. \A o \in DOMAIN wire.probabilities : wire.probabilities[o] <= wire.probabilities["allow"]
    BY <2>1, <2>3, NoneLikelier
  <2> QED BY <1>4, <2>1, <2>2, <2>4, <2>5
<1>9. Open(a)
  BY <1>4 DEF Open
<1>10. Fit(a)
  BY <1>5, <1>6, <1>7, <1>8, <1>9 DEF Fit
<1> QED BY <1>1, <1>10, OneReplaced

LEMMA ReplyFits ==
  ASSUME Inv, NEW q \in Asks, NEW wire \in Choices(ask[q].options), Reply(q, wire)
  PROVE  Inv'
<1> DEFINE taken == ClientAccepts(ask[q].options, wire) /\ EngineAccepts(ask[q].options, wire)
<1>1. Rest /\ ask[q].at = "asked" /\ Open(ask[q]) /\ RecordOK(ask[q])
  BY DEF Reply, Rest, Inv, Fit
<1>2. CASE ~taken
  BY <1>1, <1>2, EndFits DEF Reply
<1>3. CASE taken /\ ask[q].kind = "control" /\ Control(q, wire)
  <2>1. CASE End(q, "failed")
    BY <1>1, <2>1, EndFits
  <2>2. CASE ~ask[q].altered /\ wire.choice = "allow" /\ wire.confidence < MinConfidence
             /\ Conclude(q, wire, "review", "confidence")
    BY <1>1, <1>3, <2>2, ConcludeFits
  <2>3. CASE ~ask[q].altered /\ ~(wire.choice = "allow" /\ wire.confidence < MinConfidence)
             /\ Conclude(q, wire, wire.choice, "jev")
    BY <1>1, <1>3, <2>3, ConcludeFits
  <2> QED BY <1>3, <2>1, <2>2, <2>3 DEF Control
<1>4. CASE taken /\ ask[q].kind = "run" /\ RunSkill(q, wire)
  <2>1. wire.choice \in Range(registry)
    BY <1>1, <1>4 DEF Open, EngineAccepts
  <2> QED BY <1>1, <1>4, <2>1, ConcludeFits DEF RunSkill
<1>5. CASE taken /\ ask[q].kind \notin {"control", "run"} /\ Conclude(q, wire, wire.choice, "jev")
  BY <1>1, <1>5, ConcludeFits
<1> QED BY <1>2, <1>3, <1>4, <1>5 DEF Reply

LEMMA NoReplyFits ==
  ASSUME Inv, NEW q \in Asks, NoReply(q)
  PROVE  Inv'
  BY EndFits DEF NoReply, Rest

LEMMA RegisterFits ==
  ASSUME Inv, NEW skill \in Skills, Register(skill)
  PROVE  Inv'
<1>1. /\ registry' = Append(registry, skill) /\ registry \in Seq(Skills)
      /\ UNCHANGED <<client, view, ask>>
  BY DEF Inv, Register
<1>2. registry' \in Seq(Skills) /\ Range(registry) \subseteq Range(registry')
  BY <1>1, RangeGrows
<1> QED BY <1>1, <1>2, NoneReplaced

-----------------------------------------------------------------------------
(* The invariant *)

LEMMA StartsFit == Init => Inv
  BY IdleFit DEF Init, Inv

LEMMA StepsFit == Inv /\ [Next]_vars => Inv'
<1> SUFFICES ASSUME Inv, [Next]_vars PROVE Inv'
  OBVIOUS
<1>1. ASSUME NEW q \in Asks, NEW task, NEW options \in OptionLists, AskChoice(q, task, options)
      PROVE  Inv'
  <2>1. options \in Seq(Names) /\ {"task"} \in SUBSET (Keys \cup {"task", "content_length"})
    BY ListsAssumption
  <2> QED BY <1>1, <2>1, SendFits DEF AskChoice, Rest
<1>2. ASSUME NEW q \in Asks, NEW task, NEW options \in Routes, AskRoute(q, task, options)
      PROVE  Inv'
  <2>1. options \in Seq(Names) /\ {"task"} \in SUBSET (Keys \cup {"task", "content_length"})
    BY ListsAssumption
  <2> QED BY <1>2, <2>1, SendFits DEF AskRoute, Rest
<1>3. ASSUME NEW q \in Asks, NEW task, AskRun(q, task)
      PROVE  Inv'
  <2>1. registry \in Seq(Names) /\ {"task"} \in SUBSET (Keys \cup {"task", "content_length"})
    BY SkillsAssumption DEF Inv
  <2> QED BY <1>3, <2>1, SendFits DEF AskRun, Rest
<1>4. ASSUME NEW q \in Asks, NEW tool \in Tools, NEW args \in Arguments, NEW verdict \in Verdicts,
             AskControl(q, tool, args, verdict)
      PROVE  Inv'
  BY <1>4, AskControlFits
<1>5. ASSUME NEW q \in Asks, NEW wire \in Choices(ask[q].options), Reply(q, wire)
      PROVE  Inv'
  BY <1>5, ReplyFits
<1>6. ASSUME NEW q \in Asks, NoReply(q) \/ Alter(q)
      PROVE  Inv'
  BY <1>6, NoReplyFits, AlterFits
<1>7. ASSUME NEW skill \in Skills, Register(skill)
      PROVE  Inv'
  BY <1>7, RegisterFits
<1>8. CASE UNCHANGED vars
  <2>1. UNCHANGED <<client, view, ask>> /\ registry' = registry /\ registry \in Seq(Skills)
    BY <1>8 DEF vars, Inv
  <2> QED BY <2>1, NoneReplaced
<1> QED BY <1>1, <1>2, <1>3, <1>4, <1>5, <1>6, <1>7, <1>8 DEF Next

LEMMA AlwaysFit == Spec => []Inv
  BY StartsFit, StepsFit, PTL DEF Spec

\* Requests, the registry and what was heard keep their types.
THEOREM TypeCorrect == Spec => []TypeOK
<1>1. Inv => TypeOK
  BY DEF Inv, Fit, RecordOK, TypeOK
<1> QED BY <1>1, AlwaysFit, PTL

\* No content reaches a provider of control decisions, for any arguments of any
\* shape and any policy.
THEOREM ContentsStayLocal == Spec => []ContentStaysLocal
<1>1. Inv => ContentStaysLocal
  BY DEF Inv, Fit, Local, ContentStaysLocal
<1> QED BY <1>1, AlwaysFit, PTL

\* Whatever a provider replies, an allow is earned, for every threshold.
THEOREM AllowsAreEarned == Spec => []AllowIsEarned
<1>1. Inv => AllowIsEarned
  BY DEF Inv, Fit, Earned, AllowIsEarned
<1> QED BY <1>1, AlwaysFit, PTL

\* Whatever a provider or a client of the user's own replies, the answer is among
\* the options, and the skill chosen is registered.
THEOREM AnswersAreAmongOptions == Spec => []AnswersAreOptions
<1>1. Inv => AnswersAreOptions
  BY DEF Inv, Fit, Optional, AnswersAreOptions
<1> QED BY <1>1, AlwaysFit, PTL
=============================================================================
