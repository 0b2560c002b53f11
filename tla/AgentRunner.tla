------------------------------ MODULE AgentRunner ------------------------------
(***************************************************************************)
(* ControlledAgentRunner (agent/runner.py): the loop proposal -> control   *)
(* -> observation of each run, its pause for approval and its resumption.  *)
(*                                                                         *)
(* Requests are coroutines on one event loop: run() and approve_action()   *)
(* calls of the MCP and HTTP adapters.  They are suspended only while the  *)
(* planner or, inside the control chain, the decision provider is awaited; *)
(* what happens between two awaits is one action here.  The control chain  *)
(* appears as what it promises (ControlledCall): the result of a call, and *)
(* whether the tool acted.                                                 *)
(***************************************************************************)
EXTENDS Naturals, Sequences, FiniteSets

CONSTANTS Requests,  \* run() and approve_action() calls that clients make
          Runs,      \* run_id: uuid4 values
          Actions,   \* action_id: chosen by the planner
          MaxSteps   \* max_steps of the runs

ASSUME MaxStepsAssumption == MaxSteps \in 1..20

VARIABLES
  req,      \* request -> where it is, its run, step number, action and answer
  steps,    \* run -> the AgentSteps of its trace
  history,  \* run -> the observations its planner is given
  pending,  \* the _pending keys: (run, action) pairs that await approval
  held,     \* run -> what the pending state remembers of its review
  acts      \* history: (run, action) -> how often its tool acted

vars == <<req, steps, history, pending, held, acts>>

NoRun == "no run"
NoAction == "no action"

ASSUME NoRunAssumption == NoRun \notin Runs
ASSUME NoActionAssumption == NoAction \notin Actions

Planning == {"planning", "last planning"}
Active == Planning \cup {"controlling"}
Finishes == {"completed", "blocked", "failed"}
Results == {"success", "blocked", "review", "error"}

-----------------------------------------------------------------------------
(* Building blocks *)

\* A step of the trace: what the control chain returned for an action, or how
\* the run ended.
Step(action, status, observation) ==
  [action |-> action, status |-> status, observation |-> observation]

AddStep(r, s) == steps' = [steps EXCEPT ![r] = Append(@, s)]

\* _fill_step: the step tells the result; a review has nothing to observe yet.
Filled(a, result) ==
  IF result = "review" THEN Step(a, "approval_required", "none")
                       ELSE Step(a, result, result)

\* The execution status of the step in which a planner finishes.
FinishStatus == [completed |-> "finished", blocked |-> "blocked", failed |-> "error"]

\* Faulty variant: only successes are fed back.
ObserveSuccess(r, result) ==
  IF result = "success" THEN history' = [history EXCEPT ![r] = Append(@, result)]
                        ELSE UNCHANGED history

Observe(r, result) == history' = [history EXCEPT ![r] = Append(@, result)]

\* Faulty variant: a request for approval keeps the caller waiting.
AnswerLater(q, r, status) ==
  req' = [req EXCEPT ![q].at = IF status = "approval_required" THEN "waiting" ELSE "answered",
                     ![q].run = r, ![q].answer = status]

\* The request returns a trace with this status, or raises.
Answer(q, r, status) ==
  req' = [req EXCEPT ![q].at = "answered", ![q].run = r, ![q].answer = status]

\* Faulty variant: one step too many.
LoopBeyond(q, r, n) ==
  req' = [req EXCEPT ![q].run = r, ![q].step = n,
                     ![q].at = IF n <= MaxSteps + 1 THEN "planning" ELSE "last planning"]

\* _run_loop goes on with step n, or asks the planner once more when the
\* budget is used.
LoopAt(q, r, n) ==
  req' = [req EXCEPT ![q].run = r, ![q].step = n,
                     ![q].at = IF n <= MaxSteps THEN "planning" ELSE "last planning"]

\* The tool may have acted when the chain says success or error, never otherwise.
Acted(r, a, result) ==
  \/ result \in {"success", "error"} /\ acts' = [acts EXCEPT ![<<r, a>>] = @ + 1]
  \/ result # "success" /\ UNCHANGED acts

Reused(r, a) == \E i \in DOMAIN steps[r] : steps[r][i].action = a

-----------------------------------------------------------------------------
(* run() and _run_loop *)

Run(q, r) ==
  /\ req[q].at = "idle"
  /\ \A other \in Requests : req[other].run # r
  /\ LoopAt(q, r, 1)
  /\ UNCHANGED <<steps, history, pending, held, acts>>

PlannerFails(q) ==
  /\ req[q].at \in Planning
  /\ AddStep(req[q].run, Step(NoAction, "error", "none"))
  /\ Answer(q, req[q].run, "failed")
  /\ UNCHANGED <<history, pending, held, acts>>

PlannerFinishes(q, status) ==
  /\ req[q].at \in Planning
  /\ AddStep(req[q].run, Step(NoAction, FinishStatus[status], "none"))
  /\ Answer(q, req[q].run, status)
  /\ UNCHANGED <<history, pending, held, acts>>

\* An action proposed after the budget is recorded, never controlled.
PlannerExceedsBudget(q, a) ==
  /\ req[q].at = "last planning"
  /\ AddStep(req[q].run, Step(a, "blocked", "over budget"))
  /\ Answer(q, req[q].run, "blocked")
  /\ UNCHANGED <<history, pending, held, acts>>

PlannerRepeats(q, a) ==
  /\ req[q].at = "planning" /\ Reused(req[q].run, a)
  /\ AddStep(req[q].run, Step(a, "error", "none"))
  /\ Answer(q, req[q].run, "failed")
  /\ UNCHANGED <<history, pending, held, acts>>

\* The proposal goes to ControlChain.run.
PlannerProposes(q, a) ==
  /\ req[q].at = "planning" /\ ~Reused(req[q].run, a)
  /\ req' = [req EXCEPT ![q].at = "controlling", ![q].action = a]
  /\ UNCHANGED <<steps, history, pending, held, acts>>

\* ControlChain.run returned: the step is recorded; a review parks the run.
Controlled(q, result) ==
  LET r == req[q].run
      a == req[q].action
  IN /\ req[q].at = "controlling"
     /\ AddStep(r, Filled(a, result))
     /\ Acted(r, a, result)
     /\ \/ /\ result = "review"
           /\ pending' = pending \cup {<<r, a>>}
           /\ \E shown \in {"pass", "review"} :
                held' = [held EXCEPT ![r] = [action |-> a, step |-> req[q].step, policy |-> shown]]
           /\ Answer(q, r, "approval_required")
           /\ UNCHANGED history
        \/ /\ result # "review"
           /\ Observe(r, result)
           /\ LoopAt(q, r, req[q].step + 1)
           /\ UNCHANGED <<pending, held>>

\* ControlChain.run raised: the provider failed or the action was altered.
ControlFails(q) ==
  /\ req[q].at = "controlling"
  /\ AddStep(req[q].run, Step(req[q].action, "error", "raised"))
  /\ Answer(q, req[q].run, "failed")
  /\ UNCHANGED <<history, pending, held, acts>>

-----------------------------------------------------------------------------
(* approve_action() *)

\* No pending action has the ids that the client names.
ApproveUnknown(q) ==
  /\ req[q].at = "idle"
  /\ Answer(q, NoRun, "refused")
  /\ UNCHANGED <<steps, history, pending, held, acts>>

Refill(r, result) ==
  steps' = [steps EXCEPT ![r][Len(steps[r])] = Filled(held[r].action, result)]

\* Faulty variant: the key is read, not taken.
StayParked(r, a) == UNCHANGED pending

Unpark(r, a) == pending' = pending \ {<<r, a>>}

\* Faulty variant: the approved step is not counted.
ResumeSame(r) == held[r].step

ResumeStep(r) == held[r].step + 1

\* The key is taken out first, and put back only for another review: the policy
\* now asks for one it had not asked for before.
Approve(q, r, a, result) ==
  /\ req[q].at = "idle" /\ <<r, a>> \in pending
  /\ Refill(r, result)
  /\ Acted(r, a, result)
  /\ \/ /\ result = "review" /\ held[r].policy = "pass"
        /\ held' = [held EXCEPT ![r].policy = "review"]
        /\ Answer(q, r, "approval_required")
        /\ UNCHANGED <<pending, history>>
     \/ /\ result \in {"blocked", "error"}
        /\ Unpark(r, a)
        /\ Answer(q, r, IF result = "blocked" THEN "blocked" ELSE "failed")
        /\ UNCHANGED <<held, history>>
     \/ /\ result = "success"
        /\ Unpark(r, a)
        /\ Observe(r, result)
        /\ LoopAt(q, r, ResumeStep(r))
        /\ UNCHANGED held

\* The proposal was altered while it waited, the chain will not take the review,
\* or its policy raises: nobody gets an answer and the run cannot be resumed.
ApproveRefused(q, r, a) ==
  /\ req[q].at = "idle" /\ <<r, a>> \in pending
  /\ Unpark(r, a)
  /\ Answer(q, r, "refused")
  /\ UNCHANGED <<steps, history, held, acts>>

-----------------------------------------------------------------------------
(* The environment *)

\* The client goes away: the coroutine is cancelled where it is suspended.
Cancel(q) ==
  /\ req[q].at \in Active
  /\ Answer(q, req[q].run, "cancelled")
  /\ UNCHANGED <<steps, history, pending, held, acts>>

\* The process restarts: requests in flight and pending approvals are lost.
Restart ==
  /\ pending' = {}
  /\ req' = [q \in Requests |->
       IF req[q].at \in Active THEN [req[q] EXCEPT !.at = "answered", !.answer = "cancelled"]
                               ELSE req[q]]
  /\ UNCHANGED <<steps, history, held, acts>>

-----------------------------------------------------------------------------
Init ==
  /\ req = [q \in Requests |->
       [at |-> "idle", run |-> NoRun, step |-> 0, action |-> NoAction, answer |-> "none"]]
  /\ steps = [r \in Runs |-> <<>>]
  /\ history = [r \in Runs |-> <<>>]
  /\ pending = {}
  /\ held = [r \in Runs |-> [action |-> NoAction, step |-> 0, policy |-> "none"]]
  /\ acts = [ra \in Runs \X Actions |-> 0]

Planner(q) ==
  \/ PlannerFails(q)
  \/ \E status \in Finishes : PlannerFinishes(q, status)
  \/ \E a \in Actions : PlannerExceedsBudget(q, a) \/ PlannerRepeats(q, a) \/ PlannerProposes(q, a)

Chain(q) == ControlFails(q) \/ \E result \in Results : Controlled(q, result)

Next ==
  \/ \E q \in Requests :
       \/ \E r \in Runs : Run(q, r)
       \/ Planner(q)
       \/ Chain(q)
       \/ Cancel(q)
       \/ ApproveUnknown(q)
       \/ \E r \in Runs, a \in Actions :
            \/ ApproveRefused(q, r, a)
            \/ \E result \in Results : Approve(q, r, a, result)
  \/ Restart

\* The chain returns (ControlChain!CallReturns), and so must a planner: the
\* loop sets no timeout of its own.  Nobody has to approve, cancel or restart.
Fairness == \A q \in Requests : WF_vars(Planner(q)) /\ WF_vars(Chain(q))

Spec == Init /\ [][Next]_vars
FairSpec == Spec /\ Fairness

-----------------------------------------------------------------------------
(* Properties *)

Drives(q, r) == req[q].at \in Active /\ req[q].run = r
Parked(r) == {ra \in pending : ra[1] = r}
Ended(r) == \E q \in Requests : req[q].run = r /\ req[q].answer \in Finishes

RequestStates ==
  [at: {"idle", "answered"} \cup Active, run: Runs \cup {NoRun}, step: 0..(MaxSteps + 1),
   action: Actions \cup {NoAction},
   answer: Finishes \cup {"none", "approval_required", "refused", "cancelled"}]
AgentSteps ==
  [action: Actions \cup {NoAction},
   status: {"success", "blocked", "error", "approval_required", "finished"},
   observation: Results \cup {"none", "raised", "over budget"}]
Reviews ==
  [action: Actions \cup {NoAction}, step: 0..MaxSteps, policy: {"none", "pass", "review"}]

\* Type invariant.
TypeOK ==
  /\ req \in [Requests -> RequestStates]
  /\ steps \in [Runs -> Seq(AgentSteps)]
  /\ history \in [Runs -> Seq({"success", "blocked", "error"})]
  /\ pending \subseteq Runs \X Actions
  /\ held \in [Runs -> Reviews]
  /\ acts \in [Runs \X Actions -> Nat]

\* An action that awaits approval has not run, and its run stands still: nobody
\* drives it, and it awaits one approval only (runner.py:176-187).
OneDriver ==
  \A r \in Runs :
    /\ Cardinality({q \in Requests : Drives(q, r)}) + Cardinality(Parked(r)) <= 1
    /\ \A ra \in Parked(r) : acts[ra] = 0 /\ held[r].action = ra[2] /\ ~Ended(r)

\* The step budget holds across pauses: however often a run is approved and
\* resumed, its tools run at most max_steps times (runner.py:123-126).
WithinBudget ==
  \A r \in Runs :
    /\ Len(steps[r]) <= MaxSteps + 1
    /\ Cardinality({a \in Actions : acts[<<r, a>>] > 0}) <= MaxSteps

\* Whenever the planner is asked for step n, it is given the observation of each
\* of the n - 1 steps before, in order (runner.py:122, 188).
PlannerSeesAll ==
  \A q \in Requests : req[q].at \in Planning =>
    LET r == req[q].run
    IN /\ req[q].step = Len(steps[r]) + 1
       /\ history[r] = [i \in 1..Len(steps[r]) |-> steps[r][i].observation]

\* A run whose trace was returned as completed, blocked or failed is over: no
\* late approval and no other request adds a step or runs a tool for it.
EndedStaysEnded ==
  [][\A r \in Runs : Ended(r) =>
       UNCHANGED <<steps[r], history[r]>> /\ \A a \in Actions : UNCHANGED acts[<<r, a>>]]_vars

\* Every request in flight is answered.
RequestsAnswered ==
  \A q \in Requests : req[q].at \in Active ~> req[q].at = "answered"

\* Each action a planner proposes is one control call in ControlledCall's sense:
\* it acts at most once, only while it is under control or approved, and ends
\* once, whether its request is answered, cancelled, or lost in a restart between
\* its review and its approval (runner.py:97, 150).
StepsOf(ra) == {i \in DOMAIN steps[ra[1]] : steps[ra[1]][i].action = ra[2]}
InControl(ra) ==
  \E q \in Requests : req[q].at = "controlling" /\ <<req[q].run, req[q].action>> = ra
Abandoned(ra) ==
  \E q \in Requests : req[q].at = "answered" /\ <<req[q].run, req[q].action>> = ra

CallPhase(ra) ==
  IF InControl(ra) THEN "running"
  ELSE IF ra \in pending THEN "review"
  ELSE IF StepsOf(ra) # {} \/ Abandoned(ra) THEN "done"
  ELSE "new"

\* The first step of an action tells how its call ended; a step still waiting
\* for an approval that can no longer come tells nothing, and neither does none.
FirstStep(ra) == steps[ra[1]][CHOOSE i \in StepsOf(ra) : \A j \in StepsOf(ra) : i <= j]

CallResult(ra) ==
  IF CallPhase(ra) # "done" THEN "none"
  ELSE IF StepsOf(ra) = {} \/ FirstStep(ra).observation \in {"raised", "none"} THEN "raised"
  ELSE FirstStep(ra).status

Call == INSTANCE ControlledCall WITH
  Calls  <- Runs \X Actions,
  Atomic <- TRUE,
  phase  <- [ra \in Runs \X Actions |-> CallPhase(ra)],
  result <- [ra \in Runs \X Actions |-> CallResult(ra)]

ImplementsControlledCall == Call!Spec

\* The tool runs at most once for each action of a run, although approvals may
\* be repeated, may arrive together, and may come for a run that goes on; and the
\* trace tells of it: what the action's step reports as blocked or failed by an
\* exception, or as still waiting, was not done, and what any step reports as a
\* success was (runner.py:94-97, 150).
ActsAsTold ==
  \A r \in Runs, a \in Actions :
    LET ra == <<r, a>>
    IN /\ acts[ra] <= 1
       /\ acts[ra] = 1 =>
            /\ StepsOf(ra) # {} /\ FirstStep(ra).status \in {"success", "error"}
            /\ FirstStep(ra).observation # "raised"
       /\ \A i \in StepsOf(ra) : steps[r][i].status = "success" => acts[ra] = 1

\* "Successful results, policy denials, and tool errors are passed back as
\* observations" (docs/controlled-agent.md:33), after an approval too: the
\* service "feeds the result to the planner, and continues the same run"
\* (docs/controlled-agent.md:41).
OutcomesFedBack ==
  \A r \in Runs : \A i \in DOMAIN steps[r] :
    steps[r][i].observation \in {"success", "blocked", "error"} => i <= Len(history[r])
=============================================================================
