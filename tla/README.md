# PermitMCP in TLA+

PermitMCP puts one control chain between an agent (or an MCP client) and its
tools: a deterministic policy, an optional decision provider, a caller's
approval where one is needed, a one-use execution permit, and an executor that
checks again before it acts. These modules model that chain from the source in
`src/src`, model-check it with TLC and prove theorems about it with TLAPS.

## Inventory

| Component | State it keeps | Operations | Interacts through |
|---|---|---|---|
| Permit authority, `control/permits.py` | `_issued`: permit id -> bound terms; the wall clock is read | `issue`, `consume`, `revoke` | called by chain and executor |
| Decision controller, `control/controller.py` | none; the digest captured before its await | `decide` | policy (call), provider (await) |
| Control chain, `control/chain.py` | none; a `ControlResult` held by its caller between `run` and `approve` | `run`, `approve`, `_execute` | controller, authority, executor (calls) |
| Sandbox policy, `control/policy.py` | none; reads the file system | `check`, `resolve_for_execution` | shared file system |
| Executor and tool registry, `tools/executor.py` | none; acts on the file system | `execute`, four handlers | authority, policy, shared file system |
| Agent runner, `agent/runner.py` | `_pending`: (run, action) -> parked run; steps and history of each run | `run`, `approve_action`, `_run_loop` | planner (await), chain (await and calls) |
| Configured upstream, `upstream/configured.py` | discovered schemas, the chain built from them | `initialize`, `check`, `execute` | stdio MCP server process |
| MCP adapter, `mcp/tools.py` | `pending` upstream actions, `init_lock` | `upstream_tools`, `upstream_call`, `upstream_approve`, agent tools | runner, upstream |
| Decision engine and JEV clients, `core/`, `jev/` | none | `decide` | HTTPS request with a time-out |
| Skill routing, `skills/`, `core/router.py` | the registry of skills | `register`, `get`, `list`, `route` | engine (await), adapters |
| HTTP adapter, `api/` | two tokens from the environment | run, approve, decide, route | runner, engine |
| Demo planner, `agent/demo.py` | none; reads the history it is given | `propose` | runner |
| Public trace, `control/models.py` | none | `public_dict` | adapters |
| Composition, `composition.py` | none | `create_controlled_agent` | adapters |
| Sample upstream proof, benchmark, examples | none of their own | fixed demonstrations | a console |
| Upstream command line, `upstream/cli.py` | one call | initialize, run, approve once | upstream, a console |

Everything runs as coroutines on one event loop of one process, and all state is
in memory. The only suspension points are the planner, the decision provider,
and the lock and connection of the upstream's initialization; what lies between
two of them is atomic for the other coroutines, but not for other processes that
share the file system, and not for the clock.

What is hard, and what makes each component correct:

* **Permits** are mutable objects that may be presented altered, twice, late, or
  after the clock was set back. Correct: each is consumed at most once, for the
  content it was issued for, before its expiry; one that was refused as expired or
  revoked stays refused.
* **One call** reads the policy up to four times (before the await, at approval,
  in the executor, after a refusal), each of which may pass, refuse or raise, and
  the world changes in between; arguments
  can be altered while it waits. Correct: what is done is what was judged; an
  existing file is overwritten only with the informed consent of the caller; no
  permit outlives the turn it was issued in; every call ends.
* **A run** pauses for approval and is resumed by another request; approvals are
  repeated, arrive together, are lost in a restart, or lead to a second review.
  Correct: each action's tool runs at most once, one request drives a run, the
  budget holds across pauses, the planner sees every earlier step, and what
  ended stays ended.
* **The upstream** is discovered lazily by whichever request comes first, may
  fail half way, and may act and then not answer. Correct: one initialization at
  a time, nobody served from a partial discovery, the server acts at most once
  per call and only as the owner's rules say, and the lock is always released.
* **A path** is resolved for the check, resolved again for the tool, tested, its
  parents made and then opened; links may lead anywhere, and the tree may change
  between any two lookups. Correct: the tool works on the location that was
  checked, inside the sandbox.
* **A provider** may reply with anything. Correct: it is shown no file contents; an
  action is allowed only if the provider meant it; an answer is one of the options.
* **The demo** keeps no state: planner and adapter see a history and a trace.
  Correct: it reports only what it did; answers disclose no contents; whoever
  starts a run cannot approve it.

The hazards, each at its line and with the properties aimed at it, are listed in
`PROJECT.json`.

## Modules

* `OneUsePermit` - the abstract permit: minted for a content, used at most once.
* `PermitAuthority` - `ExecutionPermitAuthority`. `issued` is the `_issued`
  dictionary, `now` the wall clock; `terms`, `uses` and `refused` are histories of
  what was issued, consumed, and refused as expired or revoked. `Issue`, `Accept` (consume returns), `Expire` (consume
  drops the permit and raises), `Revoke`; `SetClock` and `Restart` are the
  environment. A call that raises before touching the table is a stuttering
  step. `PresentablePermits` is every permit object of the right type, so an
  altered copy is just another member. `Digest` is injective: SHA-256 over all
  fields.
* `PermitAuthorityProofs` - the theorems below.
* `ControlledCall` - the abstract control call: it acts at most once, in the step
  that ends it, and never from review unless (`Atomic`) approval and execution
  are one step, as they are for the runner. `Lose` is the end of the process.
* `ControlledCallProofs` - what it promises, for whoever implements it.
* `ControlChain` - controller, chain, policy, executor and registry on top of an
  instance of `PermitAuthority` whose variables it shares. `pc` says where a call
  is, `loop` which call holds the event loop; every step reads the file system or
  the clock at most once, so that other processes fit in between when `Racing` is
  TRUE. With `Racing` FALSE they act only between turns of the loop, the
  separation the repository's documentation assumes. `fs` says what each path
  resolves to; a path may lie where its status cannot be read, so the policy may
  raise wherever it is called. `Run` and `ProviderAnswers` are `decide` up to and
  from its await, `Approve` is `approve`, and `IssuePermit`, `Recheck`,
  `RecheckFails` (any exception but a refusal), `Reclassify` (a refusal),
  `Consume`, `Handle`, `Write` are the steps of `_execute` and
  `SandboxToolExecutor.execute`. `judged`, `consent`, `effects` are histories.
* `ControlChainProofs` - the theorems about it, using `PermitAuthorityProofs`.
* `AgentRunner` - the runner's coroutines. `req` holds each request's place,
  `steps` and `history` the run's lists, `pending` the keys of `_pending`, `held`
  the fields of the parked state that later code reads. The chain appears through
  the results `ControlledCall` allows. The refinement mapping at its end reads the
  phase of the call of each (run, action) off requests, steps and `pending`.
* `AgentRunnerProofs` - its theorems, about its state and about the mapping.
* `ConfiguredUpstream` - the upstream with the three MCP tools in front of it.
  After `ready()` a handler has no await, so it is one action. Its validator may
  accept or refuse the arguments or raise something else. The mapping to
  `ControlledCall` reads the phase of each call off requests and `pending`.
* `ConfiguredUpstreamProofs` - the upstream's theorems.
* `SandboxPath` - a file tool and its path. `fs` is a tree with symbolic links;
  `cur`, `rest`, `hops` and `following` are the lookup in progress, of
  `Path.resolve()` or of the kernel, one name or link at a time. The kernel counts
  links and gives up at a limit; `Path.resolve()` has no limit but knows the links it
  is following, and on a loop raises or goes on behind the link (`GiveUp`), as it
  does since Python 3.13. `stage` says which call the lookup belongs to:
  `recheck` (`check` resolves the path), `look` (`exists`, `is_dir`), `resolve`
  (`resolve_for_execution`), `test`, `parents` (`mkdir`), `open`. The lookups are
  external code, modelled from what the callers rely on; what is decided after each
  is `policy.py` and `executor.py`. `Disturb` is another process, once.
* `SandboxPathProofs` - its theorems.
* `ProviderDecision` - every question to a provider from its caller to its end.
  `ask` holds each request's place, its options, the names of the data that left the
  process (`sent`), and the reply (`heard`). `client` and `view` are the
  configuration, so that one model covers all four clients and a controller with
  and without a projection.
* `ProviderDecisionProofs` - its theorems.
* `DemoRun` - `AgentRunner` (whose variables it shares) behind the two tokens, with
  the demo planner in the place of an arbitrary one, the two files it touches, and
  what each client reads in its answer (`seen`). Every step of the runner is a step
  of `AgentRunner`, so what holds there holds here.
* `DemoRunProofs` - its theorems, using `AgentRunnerProofs`.
* `MC*` modules and the `.cfg` files give the constants of the runs. Operators
  commented "Faulty variant" are not part of any specification: each is the form
  a plausible mistake would give the operator after it, and confirms that a
  property notices.

How they compose: `PermitAuthority` implements `OneUsePermit` and is part of
`ControlChain`; `ControlChain` implements `ControlledCall`; `AgentRunner` relies
on what `ControlledCall` says of a call, and promises the same of each action of
its runs to whoever starts and approves them, as `ConfiguredUpstream` does of each
call of the server. `DemoRun` composes `AgentRunner`
with a planner and an adapter. `SandboxPath` opens up the resolution that
`ControlChain` takes as one step, and `ProviderDecision` the await. `ConfiguredUpstream`
has a chain of its own, with a static policy and no provider, so a call of it is
one action.

## Runs

| Run | Instance | Shows |
|---|---|---|
| `permit_authority` | 3 proposals, 2 permits, clock 0..2, life time 1 | permits are one-use and bound, and a refusal as expired is final although the clock goes back; the authority implements `OneUsePermit` |
| `chain_turns` | 2 calls with a provider, 3 writing proposals on one path, `Racing` FALSE | what runs is what was judged; overwrites are informed; a call's request for a permit passes `issue()` and its permit `consume()`; what is handed out for review can be approved; the chain implements `ControlledCall` |
| `chain_local` | 2 calls without a provider, all tools on one path, `Racing` FALSE | the policy alone guards overwrites; every effect is paid for with one permit of its own and told to its caller |
| `chain_race` | 1 call with a provider, all tools, `Racing` TRUE | no permit is left behind, and every call returns, whatever the file system does in the middle of a turn |
| `chain_race_review` | 1 call, writing proposals, `Racing` TRUE | a finding: see below |
| `runner_approvals` | 3 requests, 2 runs, 3 actions, 2 steps | an action runs once and its run's steps say so, one driver per run, budget, complete history, ends are final |
| `runner_answers` | 2 requests, 2 runs, 2 actions, 2 steps | every request is answered; each action of a run is one `ControlledCall` |
| `runner_feedback` | 2 requests, 1 run, 1 action, 1 step | a finding: see below |
| `upstream_calls` | 3 requests, a tool of each rule and one unconfigured | each call is one `ControlledCall`; the server acts by the owner's rules and the caller is told so; complete and exclusive discovery, every request answered |
| `sandbox_path` | a sandbox of two entries and one level below, 6 paths, links relative, absolute, climbing and circular, one change by another process | the tool works where the recheck looked, inside the sandbox; the paths that recheck and handler accept lie in it, each by its own resolution |
| `provider_decision` | 1 request, 4 clients, 3 views, up to 3 options, 2 skills, confidence in halves | nothing confidential is sent, an allow is earned, answers are options |
| `demo_run` | 3 requests, 2 runs, 3 actions, 2 steps, 2 tokens | "saved" means saved, answers disclose no contents, separate duties |

Why these bounds are enough for the interesting cases:

* Two permits, with three proposals that differ in content only or in id only:
  one permit can be presented for another's proposal, and an id be used up while
  another is live. Clock 0..2 and life time 1 make a permit expire and let the
  clock go back before its expiry afterwards.
* Two calls on one path: each can create the file the other was about to create,
  between its judgement and its approval or recheck. Each call issues at most
  two permits (a refused execution that comes back for review, then an approved
  one), so four ids never run out. Two contents let arguments be altered.
* Three requests: one that starts a run, two approvals that arrive together or
  one after the other. With two steps a run pauses, resumes, pauses again, and
  meets its budget; three actions leave one to be proposed beyond it. `Requests`,
  `Runs` and `Actions` are bounds of the model, not of the code.
* Three upstream requests: one initializes while two wait; or one is reviewed and
  two approve it.
* The trees of `sandbox_path` have a link to a sibling, to itself, out of the
  sandbox, out and back in, and through a loop to a sibling; the kernel follows four
  links, so that it gives up on loops and on nothing shorter. One change suffices
  to separate any two lookups.
* In `provider_decision` requests share only the registry, which others extend at
  any time, so one request meets all that several would. Confidence takes the
  values below, at and above the threshold and outside 0..1; probabilities
  likewise. `MaxOptions` 3 lets the three control outcomes through and makes a list
  of four too long.
* In `demo_run` two steps are just enough to read and write, with the completion
  beyond the budget; a run that pauses twice needs all three requests. Two tokens
  and none allow every configuration: equal, missing, proper.

Symmetry is used in `chain_turns`, `chain_local`, `runner_approvals` and
`demo_run`, where calls, or requests, runs and actions, are interchangeable and no
liveness is checked. `SandboxPath` is one action and `ProviderDecision` a fixed
number of requests, which end: their cfgs set CHECK_DEADLOCK FALSE. Every other cfg
leaves the deadlock check on: the clock, the file system or a restart can always
move, so what must not get stuck is stated as liveness.

## Fairness

* `ControlChain`: weak fairness of each call's steps while it holds the loop
  (straight-line code), and of the provider's answer or failure: both HTTP clients
  set a time-out (`jev/http.py:15`, `jev/typesafe.py:49`) for connecting and for
  each read; a server that sends one byte at a time for ever is assumed away. The
  handlers return: file operations are local, and a command has a time-out
  (`tools/executor.py:72`).
* `AgentRunner`: weak fairness of the planner and of the chain for each request.
  The loop sets no time-out on the planner: a planner that never returns keeps
  its request for ever, and the result says nothing about such a planner.
* `ConfiguredUpstream`: weak fairness of entering and of initializing. The lock
  wakes its waiters in order, `initialize()` gives up after 15 seconds
  (`upstream/configured.py:172`), and once the chain is in place nobody takes the
  lock for long.
* Nobody has to call, approve, tamper, cancel, restart or move the clock.

## Assumptions on the callers

* A reviewed result is approved once. `ControlChain.approve` keeps no record of what
  it approved (`control/chain.py:48-66`): a caller that gave it the same reviewed
  result twice would be given a permit, and an execution, each time. `Approve` in
  the model takes a call out of review, as every caller in the repository does: the
  runner and the MCP adapter remove what they approve before the chain sees it
  (`agent/runner.py:94`, `mcp/tools.py:139`), and `upstream/cli.py:33` approves once
  and ends. `ImplementsControlledCall`, `EffectsAccountedFor` and `ResultsAreFinal`
  of `ControlChain` rest on it; that the callers keep it, under repeated and
  concurrent approvals, is what `ImplementsControlledCall` and `ActsAsTold` check of
  `AgentRunner` and `ConfiguredUpstream`.
* A restart loses everything in memory, by definition of `Restart` in each module:
  it adds interleavings, and nothing is claimed of a recovery, since nothing is
  persisted.
* What `RefusedForGood` does not say: an expired permit that nobody presented is
  still in the table, and in time again if the clock is set back (`permits.py:87`
  compares with the clock of the moment). The chain never leaves one there
  (`PermitsConfined`).

## What is proved

All theorems hold for every value of the constants under the assumptions named
in the modules: proposals have the fields they are declared with, the life time
is positive, `MaxSteps` lies in 1..20 as the code requires, rules are one of
three, trees and paths consist of names, what a tree holds is in directories, option
lists consist of options, and `NoCall`,
`NoRun`, `NoAction`, `NoRequest`, `NoToken` and the name `"list"` of a listing are none of
the real values.

* **`PermitAuthorityProofs`**: `TypeCorrect`, `PermitsBindOnce`
  (`UsedOnceAsIssued`), `RefusalIsFinal` (`RefusedForGood`), `Refinement`. The
  invariant adds that the table's entries agree
  with the history and are unused, that ids never issued are unused, and that what was
  refused left the table unused. The first is what makes the tuple comparison of `consume` tie the presented proposal and
  permit to the terms of issue.
* **`ControlChainProofs`**: `TypeCorrect`, `ExecutesAsJudged`,
  `PermitsStayConfined`, `PermitsServeTheirCalls` (`PermitsSuffice`),
  `EffectsAreAccountedFor` (`EffectsAccountedFor`) and `Refinement` with a file
  system that may change at any moment; `OverwritesAreInformed` only when
  others act between turns, because with `Racing` it is false, as the repository's
  documentation says, and so is `ReviewIsApprovable` (`ReviewsCanBeApproved`). The
  invariant `IInv` says of each call that it is busy
  exactly while it holds the loop, that its decision is about what was first
  judged and is grounds for a permit, that its permit says what its decision says,
  and that the source is `caller` exactly when the caller consented. The authority
  keeps its own invariant because every step of the chain is a step of it or a
  stutter (`UsesAuthority`, which brings the theorems about permits to the chain).
  `QuietInv` adds that what was shown and what was rechecked still hold; `PaidInv`
  that permits are distinct, within a call and between calls, and only the last one
  of a call is used. From the refinement and `ControlledCallProofs` follows
  `ResultsAreFinal`. For
  `ReviewsCanBeApproved` the policy's answer is carried from the executor's refusal
  to the second look, between which nobody else moves.
* **`AgentRunnerProofs`**: `TypeCorrect`, `RunsHaveOneDriver`,
  `RunsStayWithinBudget`, `PlannersSeeAll`, `EndsAreFinal`, `Refinement`
  (`ImplementsControlledCall`), `TracesAreTrue` (`ActsAsTold`). The invariant relates,
  for each run, its driver or its parked action to the step number, the length of
  steps and history and the set of actions that acted: each acted action has its
  own step, which bounds their number. For the refinement that does not suffice: the
  phase of a call is read off requests and steps, so it must also be known that a request that plans has recorded the
  action it last controlled (`Named`), that a run one of whose requests ended before
  that stands still (`Dropped`), and that an action under review has one step, which
  tells no result (`Single`). Then each action of the runner moves one call and
  leaves every other where it was (`Only`), a restart moves all that had begun, and
  the rest stutters. How a call ended is told by its action's first step, which
  appending and refilling leave alone (`Appended`, `Replaced`). `TracesAreTrue` takes
  from the refinement that an action acts at most once and only if its outcome says
  so.
* **`ControlledCallProofs`**: `Promised` and `GoesOnward`: a call acts at most once,
  with a result that admits it, in its last step, and keeps that result. Whatever
  refines `ControlledCall` inherits both.
* **`ConfiguredUpstreamProofs`**: `TypeCorrect`, `ServerObeysRules`,
  `DiscoveryIsComplete`, `InitializationIsExclusive`, `Refinement`
  (`ImplementsControlledCall`), `ServerActsAsTold` (`ActsAsTold`). The invariant adds
  that a call not yet served has not acted, that a pending one has not acted and
  awaits review, and that what a request was told fits what became of its call.
* **`SandboxPathProofs`**: `TypeCorrect`, `ToolsStayInside` (`Confined`) and
  `ToolsActAsChecked` (`ActsAsChecked`), with any number of links and loops of them.
  The danger is a link that `resolve()` gave up on and the tool then follows. A walk
  that follows every link takes one step from each of its places; it is `Lost` if
  these lie in a set that no step leaves and that no walk has finished in, so that
  it never arrives, whatever names come after (`LostExtends`). While `resolve()`
  follows a link, the places it has passed are known (`Pursued`); if it comes back
  to the link they close up, and the link is lost (`PursuedAround`). So the
  invariant says that every link on the way to where `resolve()` is, is lost
  (`Settled`, `Careful`), and that each later walk along the candidate follows it
  name by name or is lost itself (`Retraces`), until the tool has opened it, unless
  the tree changed under the handler. The tool therefore arrives at the location
  that `Inside` compared with the root, or nowhere. For the second theorem the two
  walks of `resolve()` are one: each place of a walk has one next place, so what the
  first walk reached from the start (`Leads`) the second will reach. That the tree
  holds no file where an unapproved write was judged (`Spares`) follows from the
  look's walk: what holds a file are directories, so it would have found it
  (`FileFound`, from `TreesAssumption`).
* **`ProviderDecisionProofs`**: `TypeCorrect`, `ContentsStayLocal`,
  `AllowsAreEarned`, `AnswersAreAmongOptions`, for every set of options, every list
  a caller may send and every reply. The invariant is, for each request, a predicate
  of its own record that no other request can disturb, plus the fact that the
  options of an `agent_run` are registered and the registry only grows.
* **`DemoRunProofs`**: `UsesRunner`, `TypeCorrect`, `CompletedIsSaved`
  (`CompletedMeansSaved`), `ContentsStayHidden` (`ContentsHidden`),
  `DutiesAreSeparate` (`SeparateDuties`), `ActionsAreControlled`. Every step is a step of the runner
  (`UsesRunner`), so the runner's invariant is at hand. To it come: history and
  output are aligned with the steps; each output fits the tool of its step
  (`Told`); each step's tool is what the planner's rule chooses from the successes
  before it (`Stepped`, `Called`, with `Chosen`), which is why a completion has a
  read and then a write behind it; what acted after a review was approved with the
  approval token (`Duty`), which is never the token that started the run.

## What is only model-checked

* Liveness (`CallReturns`, both `RequestsAnswered`): fairness and `ENABLED` are
  out of the prover's reach.
* That a conclusion of `ControlledCall` is eventually reached, which is part of no
  refinement here: the refinements are about safety.
* The two findings.

## Findings

* **A review nobody can approve** (`chain_race_review`, `control/chain.py:77`).
  `_execute` takes the status `review` from the executor's exception and the
  decision from a second reading of the policy. If the file that caused the
  review disappears in between, the result has status `review` and outcome
  `deny`; the runner parks it, and the approval that follows is refused. It needs
  a file-system change within one turn of the loop; `chain_turns` shows that
  without one it cannot happen.
* **A failed approval is not fed back** (`runner_feedback`, `agent/runner.py:118`).
  `docs/controlled-agent.md` says that denials and tool errors are passed back to
  the planner and that an approved action's result is fed to it; when an approved
  action is blocked or fails, `approve_action` ends the run at once.

One observation is no finding of a run: without a matching term, `MockJEVClient`
says that it "selected the first available option" (`jev/mock.py:30`), but where
options have rules it takes the greatest name among those, because all have the
score 0. The model lets the mock choose any option it has a rule for.

## What is not modelled, and why

* Races within a turn as a safety question: they are allowed when `Racing`, and
  the documentation declares them out of scope; `InformedOverwrite` is claimed
  only without them.
* Strings: whether a path is absolute, which commands are safe, how a reason or a
  summary reads, which words make the mock choose a skill. What depends on them is
  the form of a path, one unregistered tool, or a choice. Special files (a fifo, a
  device) and the permissions of a directory are not in `SandboxPath`; in
  `ControlChain` a path may be unreadable.
* How `Path.resolve()` treats loops, in two respects. It remembers where a link led
  and does not follow it again; the model does, which leads elsewhere only within a
  loop. And before Python 3.13 it raises on a loop, but where the target of a link
  climbs out of the loop again with `..` the names behind are taken as they are and
  not resolved; the model raises there too, so that the theorems say nothing of such
  a tree under those versions.
* Two changes to the tree by others within one file action: with one, every pair of
  lookups is already separated, and after two nothing is promised either.
* A confidence that is not a number: whether the bounds of `DecisionResult` refuse it
  is the validation library's.
* The configuration file of the upstream: it is checked once, before anything is
  served. JSON Schema: whether arguments fit is one BOOLEAN.
* The Python object a trace is: the model's answers are values, as they are once an
  adapter has dumped them.
* The sample upstream proof (`sample_executor.py`, `sample_policy.py`,
  `sample_server.py`): one fixed call of one read-only tool. `upstream/cli.py` is the
  owner's command line for any configured tool: it initializes, runs one call,
  approves its review once if told to, and ends. Neither keeps state beside one
  call, and the protocol is that of the configured upstream. The benchmark and the examples: scripts that drive the program.
* HTTP routing and status codes, `config.py` (nobody reads it), the Doubao stub.

## Plan

The order was by what matters most: permits, then the chain built on them, then
the runner and the upstream that stand in front; then what the chain takes as one
step (paths, replies), and the demo as the composition a user meets. What is left: the
proofs can still carry the theorems of one component into another that uses it (the
runner's traces into `DemoRun`'s answers, a permit's one use into the upstream's own
chain).
