--------------------------- MODULE ProviderDecision ---------------------------
(***************************************************************************)
(* Every question the program puts to a decision provider, and what it     *)
(* does with the answer: control decisions (control/controller.py), the    *)
(* choices of jev_decide and /decide, skill and agent routing, and         *)
(* agent_run, which executes the chosen skill (mcp/tools.py, api/routes.py,*)
(* core/router.py, skills).  They share DecisionEngine (core/decision.py)  *)
(* and one client (jev/).                                                  *)
(*                                                                         *)
(* Requests are coroutines; each is suspended once, in the client.  What   *)
(* the file system and the permits do to a control decision is the matter  *)
(* of ControlChain.  Nothing is asked twice: the program retries nothing.  *)
(***************************************************************************)
EXTENDS Integers, Sequences, Functions

CONSTANTS Asks,           \* the requests made
          Names,          \* the strings that stand for options
          OptionLists,    \* lists of options that callers of /decide send
          Routes,         \* SKILLS and AGENTS of core/router.py
          Skills, Ruled,  \* names of skills; those the mock has a rule for
          MaxOptions,     \* 255
          Full,           \* a confidence or probability of 1, in units
          MinConfidence   \* minimum_confidence, in units

ASSUME NamesAssumption == {"allow", "review", "deny"} \subseteq Names
ASSUME ListsAssumption == OptionLists \subseteq Seq(Names) /\ Routes \subseteq Seq(Names)
ASSUME SkillsAssumption == Skills \subseteq Names /\ Ruled \subseteq Skills
ASSUME BoundsAssumption ==
  MaxOptions \in Nat /\ Full \in Nat \ {0} /\ MinConfidence \in 0..Full

VARIABLES
  client,    \* the JEV client, the same for the life of the process
  view,      \* argument_view of the controller, likewise
  registry,  \* names in the SkillRegistry, in order of registration
  ask        \* request -> where it is and what it knows

vars == <<client, view, registry, ask>>

Clients == {"typesafe", "http", "mock", "custom"}
Views == {"decision_arguments", "none", "not a dict"}
Outcomes == <<"allow", "review", "deny">>
Keys == {"path", "content", "command", "extra"}
Values == {"text", "blank", "not a string"}
Verdicts == {"pass", "review", "deny"}

NothingHeard == [choice |-> "none", confidence |-> -1, probabilities |-> <<>>]

Entry(at, kind, options, sent, policy, result, source) ==
  [at |-> at, kind |-> kind, options |-> options, sent |-> sent, policy |-> policy,
   altered |-> FALSE, result |-> result, source |-> source, heard |-> NothingHeard]

Idle == Entry("idle", "none", <<>>, {}, "none", "none", "none")

-----------------------------------------------------------------------------
(* What is asked *)

\* DecisionRequest: a task, and 1 to 255 options, neither blank nor repeated.
Valid(task, options) ==
  /\ task # "blank"
  /\ Len(options) \in 1..MaxOptions
  /\ "blank" \notin Range(options)
  /\ IsInjective(options)

\* DecisionEngine.decide up to the await: an invalid request is not sent.
Send(q, kind, task, options, sent, policy) ==
  ask' = [ask EXCEPT ![q] = Entry(IF Valid(task, options) THEN "asked" ELSE "failed",
                                  kind, options, sent, policy, "none", "none")]

\* jev_decide and /decide, with the caller's options.
AskChoice(q, task, options) ==
  /\ ask[q].at = "idle"
  /\ Send(q, "choice", task, options, {"task"}, "none")
  /\ UNCHANGED <<client, view, registry>>

\* /route/skill and /route/agent, with fixed options.
AskRoute(q, task, options) ==
  /\ ask[q].at = "idle"
  /\ Send(q, "route", task, options, {"task"}, "none")
  /\ UNCHANGED <<client, view, registry>>

\* agent_run, with the skills registered at this moment.
AskRun(q, task) ==
  /\ ask[q].at = "idle"
  /\ Send(q, "run", task, registry, {"task"}, "none")
  /\ UNCHANGED <<client, view, registry>>

-----------------------------------------------------------------------------
(* Control decisions *)

Accepted == [list_files |-> {"path"}, read_file |-> {"path"},
             write_file |-> {"path", "content"}, run_safe_command |-> {"command"}]
Required == [Accepted EXCEPT !.list_files = {}]

\* Faulty variant: only the keys are looked at.
KeysFit(tool, args) ==
  tool \in DOMAIN Accepted /\ Required[tool] \subseteq DOMAIN args /\ DOMAIN args \subseteq Accepted[tool]

\* What DeterministicPolicy.check requires of a proposal's shape.
WellShaped(tool, args) ==
  /\ tool \in DOMAIN Accepted
  /\ Required[tool] \subseteq DOMAIN args /\ DOMAIN args \subseteq Accepted[tool]
  /\ \A k \in DOMAIN args : args[k] # "not a string"
  /\ "path" \in DOMAIN args => args["path"] # "blank"

\* What it may find of a proposal of that shape: only a write is reviewed.
\* Another policy has its own rules.
MayFind(tool, args, verdict) ==
  view = "decision_arguments" =>
    IF WellShaped(tool, args) THEN verdict = "review" => tool = "write_file"
                              ELSE verdict = "deny"

\* decision_arguments: a content that is text is sent as its length.
Projected(tool, args) ==
  IF tool = "write_file" /\ "content" \in DOMAIN args /\ args["content"] # "not a string"
  THEN (DOMAIN args \ {"content"}) \cup {"content_length"} ELSE DOMAIN args

\* create_controlled_agent leaves the mock out of control decisions.
Consulted == client # "mock"

\* The policy settles the matter.
Settle(q, verdict, result) ==
  ask' = [ask EXCEPT ![q] = Entry("answered", "control", <<>>, {}, verdict, result, "policy")]

\* A provider is configured, but no view of the arguments that it may be shown.
Withhold(q, verdict) ==
  ask' = [ask EXCEPT ![q] = Entry("failed", "control", <<>>, {}, verdict, "none", "none")]

\* DecisionController.decide up to the await.
AskControl(q, tool, args, verdict) ==
  /\ ask[q].at = "idle"
  /\ MayFind(tool, args, verdict)
  /\ \/ verdict # "pass" /\ Settle(q, verdict, verdict)
     \/ verdict = "pass" /\ ~Consulted /\ Settle(q, verdict, "allow")
     \/ verdict = "pass" /\ Consulted /\ view # "decision_arguments" /\ Withhold(q, verdict)
     \/ /\ verdict = "pass" /\ Consulted /\ view = "decision_arguments"
        /\ Send(q, "control", "text", Outcomes, Projected(tool, args), verdict)
  /\ UNCHANGED <<client, view, registry>>

-----------------------------------------------------------------------------
(* What the client makes of the provider's reply *)

Levels == -1..(Full + 1)
InRange(x) == x \in 0..Full

\* What a provider that was asked to choose among options may reply.  Only
\* TypeSafe's replies tell the probability of each.
Words(options) == Range(options) \cup {"elsewhere"}
Given(options) == IF client = "typesafe" THEN SUBSET Words(options) ELSE {{}}
Choices(options) ==
  [choice: Words(options), confidence: Levels,
   probabilities: UNION {[words -> Levels] : words \in Given(options)}]

\* Faulty variant: the choice need not be the most probable one.
TypeSafeChecksShape(options, wire) ==
  /\ InRange(wire.confidence)
  /\ wire.choice \in Range(options) /\ DOMAIN wire.probabilities = Range(options)

\* TypeSafeJEVClient.decide.
TypeSafeAccepts(options, wire) ==
  /\ InRange(wire.confidence)
  /\ DOMAIN wire.probabilities # {}
  /\ \A o \in DOMAIN wire.probabilities : InRange(wire.probabilities[o])
  /\ wire.choice \in Range(options)
  /\ DOMAIN wire.probabilities = Range(options)
  /\ \A o \in Range(options) : wire.probabilities[o] <= wire.probabilities[wire.choice]

\* HTTPJEVClient.decide.
HTTPAccepts(options, wire) ==
  InRange(wire.confidence) /\ wire.choice \in Range(options)

\* A client of the user's own: its DecisionResult is validated, not its choice.
CustomAccepts(options, wire) == InRange(wire.confidence)

\* MockJEVClient.decide: an option with a rule if there is one, else the first.
\* It has its answer at hand and refuses none.
MockAccepts(options, wire) ==
  /\ InRange(wire.confidence)
  /\ IF Range(options) = Range(Outcomes) THEN wire.choice = "review" /\ wire.confidence = Full
     ELSE IF Range(options) \cap Ruled = {} THEN wire.choice = options[1]
     ELSE wire.choice \in Range(options) \cap Ruled

ClientAccepts(options, wire) ==
  CASE client = "typesafe" -> TypeSafeAccepts(options, wire)
    [] client = "http"     -> HTTPAccepts(options, wire)
    [] client = "mock"     -> MockAccepts(options, wire)
    [] client = "custom"   -> CustomAccepts(options, wire)

\* Faulty variant: the engine relies on its client.
EngineTrusts(options, wire) == TRUE

\* DecisionEngine.decide after the await.
EngineAccepts(options, wire) == wire.choice \in Range(options)

-----------------------------------------------------------------------------
(* What is done with the answer *)

\* Faulty variant: decision and source are swapped.
ConcludeSwapped(q, wire, result, source) ==
  ask' = [ask EXCEPT ![q] =
    [@ EXCEPT !.at = "answered", !.result = source, !.source = result, !.heard = wire]]

Conclude(q, wire, result, source) ==
  ask' = [ask EXCEPT ![q] =
    [@ EXCEPT !.at = "answered", !.result = result, !.source = source, !.heard = wire]]

End(q, how) == ask' = [ask EXCEPT ![q] = [@ EXCEPT !.at = how]]

\* DecisionController.decide after the await.
Control(q, wire) ==
  \/ ask[q].altered /\ End(q, "failed")
  \/ /\ ~ask[q].altered
     /\ IF wire.choice = "allow" /\ wire.confidence < MinConfidence
        THEN Conclude(q, wire, "review", "confidence") ELSE Conclude(q, wire, wire.choice, "jev")

\* SkillExecutor.execute.
RunSkill(q, wire) ==
  IF wire.choice \in Range(registry) THEN Conclude(q, wire, wire.choice, "jev")
                                     ELSE End(q, "no such skill")

Reply(q, wire) ==
  /\ ask[q].at = "asked"
  /\ \/ /\ ~(ClientAccepts(ask[q].options, wire) /\ EngineAccepts(ask[q].options, wire))
        /\ client # "mock" /\ End(q, "failed")
     \/ /\ ClientAccepts(ask[q].options, wire) /\ EngineAccepts(ask[q].options, wire)
        /\ CASE ask[q].kind = "control" -> Control(q, wire)
             [] ask[q].kind = "run"     -> RunSkill(q, wire)
             [] OTHER                   -> Conclude(q, wire, wire.choice, "jev")
  /\ UNCHANGED <<client, view, registry>>

\* No reply in time, an HTTP error, a body that is not the JSON expected, or the
\* caller goes away.
NoReply(q) ==
  /\ ask[q].at = "asked"
  /\ End(q, "failed")
  /\ UNCHANGED <<client, view, registry>>

-----------------------------------------------------------------------------
(* The environment *)

\* SkillRegistry.register: a name is registered once, and for good.
Register(skill) ==
  /\ skill \notin Range(registry)
  /\ registry' = Append(registry, skill)
  /\ UNCHANGED <<client, view, ask>>

\* The arguments of a proposal are a dict that others may hold.
Alter(q) ==
  /\ ask[q].at = "asked" /\ ask[q].kind = "control"
  /\ ask' = [ask EXCEPT ![q] = [@ EXCEPT !.altered = TRUE]]
  /\ UNCHANGED <<client, view, registry>>

-----------------------------------------------------------------------------
Init ==
  /\ client \in Clients
  /\ view \in Views
  /\ registry = <<>>
  /\ ask = [q \in Asks |-> Idle]

Tools == DOMAIN Accepted \cup {"unregistered"}
Arguments == UNION {[keys -> Values] : keys \in SUBSET Keys}

Next ==
  \/ \E q \in Asks :
       \/ \E task \in {"text", "blank"} :
            \/ \E options \in OptionLists : AskChoice(q, task, options)
            \/ \E options \in Routes : AskRoute(q, task, options)
            \/ AskRun(q, task)
       \/ \E tool \in Tools, args \in Arguments, verdict \in Verdicts :
            AskControl(q, tool, args, verdict)
       \/ \E wire \in Choices(ask[q].options) : Reply(q, wire)
       \/ NoReply(q)
       \/ Alter(q)
  \/ \E skill \in Skills : Register(skill)

Spec == Init /\ [][Next]_vars

-----------------------------------------------------------------------------
(* Properties *)

\* Type invariant.
TypeOK ==
  /\ client \in Clients /\ view \in Views
  /\ registry \in Seq(Skills)
  /\ DOMAIN ask = Asks
  /\ \A q \in Asks : ask[q] \in
       [at: {"idle", "asked", "answered", "failed", "no such skill"},
        kind: {"none", "choice", "route", "run", "control"}, options: Seq(Names),
        sent: SUBSET (Keys \cup {"task", "content_length"}), policy: Verdicts \cup {"none"},
        altered: BOOLEAN, result: Names \cup {"none", "elsewhere"},
        source: {"none", "policy", "confidence", "jev"},
        heard: {NothingHeard} \cup Choices(ask[q].options)]

\* The provider of a control decision is sent no content and nothing that the
\* policy has no name for: the projection hides a content only if it is text, so
\* it is safe only behind the policy's check of the shape, and a policy without a
\* projection discloses nothing (policy.py:45-52, 101-107, controller.py:70-80).
ContentStaysLocal ==
  \A q \in Asks : ask[q].kind = "control" =>
    ask[q].sent \subseteq {"path", "command", "content_length"}

\* An action is allowed only if its policy passed it and either nobody else is to
\* be asked, or the provider allowed these very arguments with the confidence
\* required and, where it gives probabilities, preferred no other outcome
\* (controller.py:41-109, typesafe.py:57-68, http.py:22-25, decision.py:9-14).
AllowIsEarned ==
  \A q \in Asks : ask[q].kind = "control" /\ ask[q].result = "allow" =>
    /\ ask[q].policy = "pass"
    /\ \/ client = "mock" /\ ask[q].source = "policy"
       \/ /\ ask[q].source = "jev" /\ ~ask[q].altered
          /\ ask[q].heard.choice = "allow"
          /\ ask[q].heard.confidence \in MinConfidence..Full
          /\ \A o \in DOMAIN ask[q].heard.probabilities :
               ask[q].heard.probabilities[o] <= ask[q].heard.probabilities["allow"]

\* Whatever client is configured, an answer is one of the options that were asked
\* for, and a skill that was chosen while the registry grew is there to be run
\* (decision.py:12-13, mcp/tools.py:51-54, skills/executor.py:13).
AnswersAreOptions ==
  \A q \in Asks :
    /\ ask[q].at # "no such skill"
    /\ ask[q].at = "answered" /\ ask[q].source # "policy" => ask[q].result \in Range(ask[q].options)
    /\ ask[q].at = "answered" /\ ask[q].kind = "run" => ask[q].result \in Range(registry)
=============================================================================
