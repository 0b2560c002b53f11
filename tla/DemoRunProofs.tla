----------------------------- MODULE DemoRunProofs -----------------------------
(***************************************************************************)
(* Theorems about DemoRun, for every set of requests, runs, actions and    *)
(* tokens, every configuration of the two tokens, and every step budget.   *)
(***************************************************************************)
EXTENDS DemoRun, FiniteSetTheorems, TLAPS

\* The runner again, with what is proved about it.
R == INSTANCE AgentRunnerProofs

-----------------------------------------------------------------------------
(* The inductive invariant, beside the runner's *)

\* Steps follow the tokens' roles: what ran after a review was approved with the
\* approval token, which is not the one its run was started with.
Duty ==
  /\ \A r \in Runs : startedBy[r] \in {NoToken, tokens["execution"]}
  /\ \A ra \in reviewed : acts[ra] > 0 =>
       /\ approvedBy[ra] = tokens["approval"]
       /\ tokens["approval"] \notin {NoToken, tokens["execution"]}
  /\ pending \subseteq reviewed
  /\ \A ra \in reviewed : \E i \in DOMAIN steps[ra[1]] : steps[ra[1]][i].action = ra[2]

\* Every step is observed, the last one perhaps not.
Aligned(r) == Len(history[r]) \in {Len(steps[r]), Len(steps[r]) - 1}

\* An observation tells of the action of its step: what the tool t said, and that
\* it acted (n times).
Fits(n, t, told, out) ==
  /\ told # "success" => out = "reason"
  /\ told = "success" =>
       /\ n > 0
       /\ t = "write_file" => out = "note"
       /\ t = "read_file" => out \in {"text", "empty"}

Told(r) ==
  \A i \in DOMAIN history[r] :
    LET ra == <<r, steps[r][i].action>>
    IN /\ steps[r][i].action \in Actions
       /\ Fits(acts[ra], tool[ra], history[r][i], output[r][i])

\* What the planner goes by: it reads until something was read, then it writes,
\* and it proposes nothing more.
Earlier(r, i) == {j \in SuccessfulReads(r) : j < i}
Chosen(past, t) ==
  /\ t \in Tools
  /\ t = "read_file" <=> past = {}
  /\ \A j, k \in past : j = k

Stepped(r) ==
  \A i \in DOMAIN steps[r] : steps[r][i].action # R!NoAction =>
    Chosen(Earlier(r, i), tool[<<r, steps[r][i].action>>])
Called(r) ==
  \A q \in Requests : req[q].at = "controlling" /\ req[q].run = r =>
    Chosen(Earlier(r, Len(steps[r]) + 1), tool[<<r, req[q].action>>])

Saved(r) ==
  \E i, j \in DOMAIN history[r] :
    i < j /\ Did(r, i, "read_file") /\ output[r][i] = "text" /\ Did(r, j, "write_file")
Finished ==
  \A q \in Requests : req[q].answer = "completed" => \E r \in Runs : req[q].run = r /\ Saved(r)

RunInv(r) == Aligned(r) /\ Told(r) /\ Stepped(r) /\ Called(r)
Base == TypeOK /\ R!IInv
IInv == Base /\ Duty /\ ContentsHidden /\ Finished /\ \A r \in Runs : RunInv(r)

-----------------------------------------------------------------------------
(* The runner *)

\* Both instances of the runner are the same.
LEMMA OneRunner ==
  /\ Runner!TypeOK <=> R!TypeOK
  /\ Runner!Init <=> R!Init
  /\ Runner!vars = R!vars
  /\ Runner!NoRun = R!NoRun /\ Runner!NoAction = R!NoAction
  /\ Runner!Planning = R!Planning /\ Runner!Results = R!Results
  /\ \A q, r, status : Runner!Answer(q, r, status) <=> R!Answer(q, r, status)
<1>1. /\ Runner!NoRun = R!NoRun /\ Runner!NoAction = R!NoAction
      /\ Runner!Planning = R!Planning /\ Runner!Active = R!Active
      /\ Runner!Finishes = R!Finishes /\ Runner!Results = R!Results
  BY DEF Runner!NoRun, R!NoRun, Runner!NoAction, R!NoAction, Runner!Planning, R!Planning,
     Runner!Active, R!Active, Runner!Finishes, R!Finishes, Runner!Results, R!Results
<1>2. /\ Runner!RequestStates = R!RequestStates /\ Runner!AgentSteps = R!AgentSteps
      /\ Runner!Reviews = R!Reviews
  BY <1>1 DEF Runner!RequestStates, R!RequestStates, Runner!AgentSteps, R!AgentSteps,
     Runner!Reviews, R!Reviews
<1>3. Runner!TypeOK <=> R!TypeOK
  BY <1>2 DEF Runner!TypeOK, R!TypeOK
<1>4. Runner!Init <=> R!Init
  BY <1>1 DEF Runner!Init, R!Init
<1>5. Runner!vars = R!vars
  BY DEF Runner!vars, R!vars
<1>6. \A q, r, status : Runner!Answer(q, r, status) <=> R!Answer(q, r, status)
  BY DEF Runner!Answer, R!Answer
<1> QED BY <1>1, <1>3, <1>4, <1>5, <1>6

LEMMA SamePlans ==
  ASSUME NEW q
  PROVE  /\ \A r : Runner!Run(q, r) <=> R!Run(q, r)
         /\ \A status : Runner!PlannerFinishes(q, status) <=> R!PlannerFinishes(q, status)
         /\ \A a : Runner!PlannerProposes(q, a) <=> R!PlannerProposes(q, a)
         /\ \A a : Runner!PlannerExceedsBudget(q, a) <=> R!PlannerExceedsBudget(q, a)
<1>1. /\ \A r, n : Runner!LoopAt(q, r, n) <=> R!LoopAt(q, r, n)
      /\ \A r, a : Runner!Reused(r, a) <=> R!Reused(r, a)
      /\ \A r, s : Runner!AddStep(r, s) <=> R!AddStep(r, s)
      /\ \A a, b, c : Runner!Step(a, b, c) = R!Step(a, b, c)
  BY DEF Runner!LoopAt, R!LoopAt, Runner!Reused, R!Reused, Runner!AddStep, R!AddStep,
     Runner!Step, R!Step
<1>2. \A r : Runner!Run(q, r) <=> R!Run(q, r)
  BY <1>1 DEF Runner!Run, R!Run
<1>3. Runner!FinishStatus = R!FinishStatus
  BY DEF Runner!FinishStatus, R!FinishStatus
<1>4. \A status : Runner!PlannerFinishes(q, status) <=> R!PlannerFinishes(q, status)
  BY <1>1, <1>3, OneRunner DEF Runner!PlannerFinishes, R!PlannerFinishes
<1>5. \A a : Runner!PlannerProposes(q, a) <=> R!PlannerProposes(q, a)
  BY <1>1 DEF Runner!PlannerProposes, R!PlannerProposes
<1>6. \A a : Runner!PlannerExceedsBudget(q, a) <=> R!PlannerExceedsBudget(q, a)
  BY <1>1, OneRunner DEF Runner!PlannerExceedsBudget, R!PlannerExceedsBudget
<1> QED BY <1>2, <1>4, <1>5, <1>6

LEMMA SameCalls ==
  ASSUME NEW q
  PROVE  /\ \A result : Runner!Controlled(q, result) <=> R!Controlled(q, result)
         /\ Runner!ControlFails(q) <=> R!ControlFails(q)
         /\ \A r, a, result : Runner!Approve(q, r, a, result) <=> R!Approve(q, r, a, result)
         /\ \A r, a : Runner!ApproveRefused(q, r, a) <=> R!ApproveRefused(q, r, a)
         /\ Runner!ApproveUnknown(q) <=> R!ApproveUnknown(q)
<1>1. /\ \A r, n : Runner!LoopAt(q, r, n) <=> R!LoopAt(q, r, n)
      /\ \A r, s : Runner!AddStep(r, s) <=> R!AddStep(r, s)
      /\ \A a, b, c : Runner!Step(a, b, c) = R!Step(a, b, c)
      /\ \A r, result : Runner!Observe(r, result) <=> R!Observe(r, result)
      /\ \A r, a, result : Runner!Acted(r, a, result) <=> R!Acted(r, a, result)
      /\ \A r, a : Runner!Unpark(r, a) <=> R!Unpark(r, a)
      /\ \A r : Runner!ResumeStep(r) = R!ResumeStep(r)
  BY DEF Runner!LoopAt, R!LoopAt, Runner!AddStep, R!AddStep, Runner!Step, R!Step,
     Runner!Observe, R!Observe, Runner!Acted, R!Acted, Runner!Unpark, R!Unpark,
     Runner!ResumeStep, R!ResumeStep
<1>2. \A a, result : Runner!Filled(a, result) = R!Filled(a, result)
  BY <1>1 DEF Runner!Filled, R!Filled
<1>3. \A r, result : Runner!Refill(r, result) <=> R!Refill(r, result)
  BY <1>2 DEF Runner!Refill, R!Refill
<1>4. ASSUME NEW result PROVE Runner!Controlled(q, result) <=> R!Controlled(q, result)
  BY <1>1, <1>2, OneRunner DEF Runner!Controlled, R!Controlled
<1>5. Runner!ControlFails(q) <=> R!ControlFails(q)
  BY <1>1, OneRunner DEF Runner!ControlFails, R!ControlFails
<1>6. ASSUME NEW r, NEW a, NEW result
      PROVE  Runner!Approve(q, r, a, result) <=> R!Approve(q, r, a, result)
  BY <1>1, <1>3, OneRunner DEF Runner!Approve, R!Approve
<1>7. /\ \A r, a : Runner!ApproveRefused(q, r, a) <=> R!ApproveRefused(q, r, a)
      /\ Runner!ApproveUnknown(q) <=> R!ApproveUnknown(q)
  BY <1>1, OneRunner DEF Runner!ApproveRefused, R!ApproveRefused, Runner!ApproveUnknown,
     R!ApproveUnknown
<1> QED BY <1>4, <1>5, <1>6, <1>7

LEMMA SameInterrupts ==
  /\ Runner!Restart <=> R!Restart
  /\ \A q : Runner!Cancel(q) <=> R!Cancel(q)
BY OneRunner DEF Runner!Restart, R!Restart, Runner!Cancel, R!Cancel, Runner!Active, R!Active,
   Runner!Planning, R!Planning

-----------------------------------------------------------------------------
(* What a state says of a run *)

LEMMA Typed ==
  ASSUME Base
  PROVE  /\ req \in [Requests -> R!RequestStates]
         /\ steps \in [Runs -> Seq(R!AgentSteps)]
         /\ history \in [Runs -> Seq({"success", "blocked", "error"})]
         /\ pending \subseteq Runs \X Actions
         /\ acts \in [Runs \X Actions -> Nat]
         /\ tool \in [Runs \X Actions -> Tools \cup {NoTool}]
         /\ output \in [Runs -> Seq(Outputs)]
         /\ \A r \in Runs : Len(output[r]) = Len(history[r])
         /\ seen \in [Requests -> SUBSET Outputs]
BY DEF Base, TypeOK, R!IInv, R!TypeOK

LEMMA TypedNext ==
  ASSUME Base'
  PROVE  /\ req' \in [Requests -> R!RequestStates]
         /\ steps' \in [Runs -> Seq(R!AgentSteps)]
         /\ history' \in [Runs -> Seq({"success", "blocked", "error"})]
         /\ acts' \in [Runs \X Actions -> Nat]
         /\ tool' \in [Runs \X Actions -> Tools \cup {NoTool}]
         /\ output' \in [Runs -> Seq(Outputs)]
         /\ \A r \in Runs : Len(output'[r]) = Len(history'[r])
BY DEF Base, TypeOK, R!IInv, R!TypeOK

LEMMA Lengths ==
  ASSUME Base, NEW r \in Runs
  PROVE  /\ Len(steps[r]) \in Nat /\ DOMAIN steps[r] = 1..Len(steps[r])
         /\ Len(history[r]) \in Nat /\ DOMAIN history[r] = 1..Len(history[r])
         /\ Len(output[r]) = Len(history[r]) /\ DOMAIN output[r] = 1..Len(history[r])
         /\ \A i \in DOMAIN steps[r] : steps[r][i].action \in Actions \cup {R!NoAction}
<1>1. steps[r] \in Seq(R!AgentSteps)
  BY Typed
<1>2. \A i \in DOMAIN steps[r] : steps[r][i].action \in Actions \cup {R!NoAction}
  <2>1. SUFFICES ASSUME NEW i \in DOMAIN steps[r] PROVE steps[r][i].action \in Actions \cup {R!NoAction}
    OBVIOUS
  <2>2. steps[r][i] \in R!AgentSteps
    BY <1>1
  <2> QED BY <2>2 DEF R!AgentSteps
<1>3. Len(steps[r]) \in Nat /\ DOMAIN steps[r] = 1..Len(steps[r])
  BY <1>1
<1>4. Len(history[r]) \in Nat /\ DOMAIN history[r] = 1..Len(history[r])
  BY Typed
<1>5. /\ output[r] \in Seq(Outputs) /\ Len(output[r]) = Len(history[r])
  BY Typed
<1>6. DOMAIN output[r] = 1..Len(history[r])
  BY <1>5
<1> QED BY <1>2, <1>3, <1>4, <1>5, <1>6

\* What the planner decides, from what it has seen.
LEMMA PlanFacts ==
  ASSUME Base, NEW r \in Runs
  PROVE  /\ Plan(r) \in Tools \cup R!Finishes
         /\ Plan(r) = "read_file" => SuccessfulReads(r) = {}
         /\ Plan(r) = "write_file" => \E i : SuccessfulReads(r) = {i}
         /\ Plan(r) = "completed" => \E i, j \in SuccessfulReads(r) : i < j
         /\ Plan(r) \in {"blocked", "failed"} =>
              history[r] # <<>> /\ history[r][Len(history[r])] # "success"
<1> DEFINE done == SuccessfulReads(r)
<1>1. done \subseteq 1..Len(history[r]) /\ Len(history[r]) \in Nat
  BY Lengths DEF SuccessfulReads
<1>2. IsFiniteSet(done)
  <2>1. IsFiniteSet(1..Len(history[r]))
    BY <1>1, FS_Interval
  <2> QED BY <1>1, <2>1, FS_Subset
<1>3. Cardinality(done) = 0 <=> done = {}
  BY <1>2, FS_EmptySet
<1>4. Cardinality(done) = 1 <=> \E i : done = {i}
  BY <1>2, FS_Singleton
<1>5. (\E i, j \in done : i < j) \/ done = {} \/ \E i : done = {i}
  <2>1. SUFFICES ASSUME done # {}, ~\E i : done = {i} PROVE \E i, j \in done : i < j
    OBVIOUS
  <2>2. PICK i \in done : TRUE
    BY <2>1
  <2>3. PICK j \in done : j # i
    BY <2>1, <2>2
  <2>4. i < j \/ j < i
    BY <1>1, <2>2, <2>3
  <2> QED BY <2>2, <2>3, <2>4
<1> HIDE DEF done
<1>6. CASE history[r] # <<>> /\ history[r][Len(history[r])] \in {"blocked", "error"}
  <2>1. Plan(r) \in {"blocked", "failed"}
    BY <1>6 DEF Plan, Last
  <2> QED BY <1>6, <2>1 DEF R!Finishes
<1>7. CASE ~(history[r] # <<>> /\ history[r][Len(history[r])] \in {"blocked", "error"})
  <2>1. Plan(r) = IF Cardinality(done) = 0 THEN "read_file"
                  ELSE IF Cardinality(done) = 1 THEN "write_file" ELSE "completed"
    BY <1>7 DEF Plan, Last, done
  <2>2. CASE Cardinality(done) = 0
    BY <1>3, <2>1, <2>2 DEF Tools, done
  <2>3. CASE Cardinality(done) = 1
    BY <1>4, <2>1, <2>3 DEF Tools, done
  <2>4. CASE Cardinality(done) \notin {0, 1}
    <3>1. Plan(r) = "completed"
      BY <2>1, <2>4
    <3>2. \E i, j \in done : i < j
      BY <1>3, <1>4, <1>5, <2>4
    <3> QED BY <3>1, <3>2 DEF R!Finishes, done
  <2> QED BY <2>2, <2>3, <2>4
<1> QED BY <1>6, <1>7

\* Two successes are the two the planner asked for, in this order.
LEMMA TwoSuccesses ==
  ASSUME IInv, NEW r \in Runs, NEW i \in SuccessfulReads(r), NEW j \in SuccessfulReads(r), i < j
  PROVE  Saved(r)
<1>1. /\ Told(r) /\ Stepped(r) /\ Aligned(r) /\ Base
  BY DEF IInv, RunInv
<1>2. /\ i \in DOMAIN history[r] /\ j \in DOMAIN history[r]
      /\ history[r][i] = "success" /\ history[r][j] = "success" /\ output[r][i] # "empty"
  BY DEF SuccessfulReads
<1>3. i \in DOMAIN steps[r] /\ j \in DOMAIN steps[r]
  BY <1>1, <1>2, Lengths DEF Aligned
<1> DEFINE first == <<r, steps[r][i].action>>
           second == <<r, steps[r][j].action>>
<1>4. /\ steps[r][i].action \in Actions /\ steps[r][j].action \in Actions
      /\ Fits(acts[first], tool[first], "success", output[r][i])
      /\ Fits(acts[second], tool[second], "success", output[r][j])
  BY <1>1, <1>2 DEF Told
<1>5. R!NoAction \notin Actions
  BY NamesAssumption, OneRunner
<1>6. Chosen(Earlier(r, i), tool[first]) /\ Chosen(Earlier(r, j), tool[second])
  BY <1>1, <1>3, <1>4, <1>5 DEF Stepped
<1>7. i \in Earlier(r, j)
  BY DEF Earlier
<1>8. tool[second] = "write_file"
  BY <1>6, <1>7 DEF Chosen, Tools
<1>9. Earlier(r, i) = {}
  <2>1. SUFFICES ASSUME NEW k \in Earlier(r, i) PROVE FALSE
    OBVIOUS
  <2>2. k \in Nat /\ i \in Nat /\ j \in Nat /\ k < i /\ k \in SuccessfulReads(r)
    BY <1>1, <1>2, Lengths DEF Earlier, SuccessfulReads
  <2>3. k \in Earlier(r, j)
    BY <2>2 DEF Earlier
  <2> QED BY <1>6, <1>7, <2>2, <2>3 DEF Chosen
<1>10. tool[first] = "read_file"
  BY <1>6, <1>9 DEF Chosen
<1>11. acts[first] = 1 /\ acts[second] = 1
  <2>1. R!Budget(r) /\ acts \in [Runs \X Actions -> Nat]
    BY <1>1, Typed DEF Base, R!IInv, R!RunInv
  <2>2. /\ acts[first] <= 1 /\ acts[second] <= 1 /\ acts[first] \in Nat /\ acts[second] \in Nat
    BY <1>4, <2>1 DEF R!Budget
  <2> QED BY <1>4, <2>2 DEF Fits
<1>12. output[r][i] = "text"
  BY <1>2, <1>4, <1>10 DEF Fits
<1> QED BY <1>2, <1>8, <1>10, <1>11, <1>12 DEF Saved, Did

-----------------------------------------------------------------------------
(* How a step carries the invariant of a run over *)

\* What was done stays done.
Grows(r) ==
  /\ Len(steps[r]) <= Len(steps'[r])
  /\ \A i \in DOMAIN steps[r] : steps'[r][i].action = steps[r][i].action
  /\ Len(history[r]) <= Len(history'[r])
  /\ \A i \in DOMAIN history[r] : history'[r][i] = history[r][i] /\ output'[r][i] = output[r][i]
  /\ \A a \in Actions : /\ acts[<<r, a>>] <= acts'[<<r, a>>]
                        /\ tool[<<r, a>>] # NoTool => tool'[<<r, a>>] = tool[<<r, a>>]

\* The past of a step is not disturbed by what is observed at it or after it.
LEMMA Past ==
  ASSUME Base, Base', NEW r \in Runs, Grows(r), NEW i \in 1..(Len(history[r]) + 1)
  PROVE  Earlier(r, i)' = Earlier(r, i)
<1>1. /\ Len(history[r]) \in Nat /\ DOMAIN history[r] = 1..Len(history[r])
      /\ DOMAIN history'[r] = 1..Len(history'[r]) /\ Len(history'[r]) \in Nat
  <2>1. history'[r] \in Seq({"success", "blocked", "error"})
    BY TypedNext
  <2> QED BY <2>1, Lengths
<1>2. \A j : j < i => (j \in SuccessfulReads(r)' <=> j \in SuccessfulReads(r))
  BY <1>1 DEF Grows, SuccessfulReads
<1> QED BY <1>2 DEF Earlier

LEMMA TellsOn ==
  ASSUME IInv, Base', NEW r \in Runs, Grows(r),
         \A i \in DOMAIN history'[r] \ DOMAIN history[r] :
           LET ra == <<r, steps'[r][i].action>>
           IN /\ steps'[r][i].action \in Actions
              /\ Fits(acts'[ra], tool'[ra], history'[r][i], output'[r][i])
  PROVE  Told(r)'
<1>1. Told(r) /\ Aligned(r) /\ Base
  BY DEF IInv, RunInv
<1>2. ASSUME NEW i \in DOMAIN history[r]
      PROVE  LET ra == <<r, steps'[r][i].action>>
             IN /\ steps'[r][i].action \in Actions
                /\ Fits(acts'[ra], tool'[ra], history'[r][i], output'[r][i])
  <2>1. i \in DOMAIN steps[r]
    BY <1>1, Lengths DEF Aligned
  <2> DEFINE a == steps[r][i].action
  <2>2. a \in Actions /\ Fits(acts[<<r, a>>], tool[<<r, a>>], history[r][i], output[r][i])
    BY <1>1 DEF Told
  <2>3. steps'[r][i].action = a
    BY <2>1 DEF Grows
  <2>4. tool[<<r, a>>] # NoTool
    <3>1. R!NoAction \notin Actions
      BY NamesAssumption, OneRunner
    <3>2. Chosen(Earlier(r, i), tool[<<r, a>>])
      BY <2>1, <2>2, <3>1 DEF IInv, RunInv, Stepped
    <3> QED BY <3>2 DEF Chosen, Tools, NoTool
  <2> HIDE DEF a
  <2>5. /\ history'[r][i] = history[r][i] /\ output'[r][i] = output[r][i]
        /\ acts[<<r, a>>] <= acts'[<<r, a>>]
        /\ tool[<<r, a>>] # NoTool => tool'[<<r, a>>] = tool[<<r, a>>]
    BY <2>2 DEF Grows
  <2>6. acts[<<r, a>>] \in Nat /\ acts'[<<r, a>>] \in Nat
    <3>1. acts' \in [Runs \X Actions -> Nat]
      BY TypedNext
    <3> QED BY <1>1, <2>2, <3>1, Typed
  <2>7. Fits(acts'[<<r, a>>], tool'[<<r, a>>], history'[r][i], output'[r][i])
    BY <2>2, <2>4, <2>5, <2>6 DEF Fits
  <2> QED BY <2>2, <2>3, <2>7
<1> QED BY <1>2 DEF Told

LEMMA StepsOn ==
  ASSUME IInv, Base', NEW r \in Runs, Grows(r),
         \A i \in DOMAIN steps'[r] \ DOMAIN steps[r] : steps'[r][i].action # R!NoAction =>
           Chosen(Earlier(r, i)', tool'[<<r, steps'[r][i].action>>])
  PROVE  Stepped(r)'
<1>1. Stepped(r) /\ Aligned(r) /\ Base
  BY DEF IInv, RunInv
<1>2. ASSUME NEW i \in DOMAIN steps[r], steps'[r][i].action # R!NoAction
      PROVE  Chosen(Earlier(r, i)', tool'[<<r, steps'[r][i].action>>])
  <2>1. i \in 1..(Len(history[r]) + 1)
    BY <1>1, Lengths DEF Aligned
  <2> DEFINE a == steps[r][i].action
  <2>2. steps'[r][i].action = a /\ a \in Actions
    BY <1>1, <1>2, Lengths DEF Grows
  <2>3. Chosen(Earlier(r, i), tool[<<r, a>>])
    BY <1>1, <1>2, <2>2 DEF Stepped
  <2> HIDE DEF a
  <2>4. tool'[<<r, a>>] = tool[<<r, a>>]
    BY <2>2, <2>3 DEF Grows, Chosen, Tools, NoTool
  <2>5. Earlier(r, i)' = Earlier(r, i)
    BY <1>1, <2>1, Past
  <2> QED BY <2>2, <2>3, <2>4, <2>5
<1> QED BY <1>2 DEF Stepped

\* What was saved stays saved.
LEMMA SavedOn ==
  ASSUME IInv, Base', NEW r \in Runs, Grows(r), Saved(r)
  PROVE  Saved(r)'
<1>1. Told(r) /\ Aligned(r) /\ Base
  BY DEF IInv, RunInv
<1>2. ASSUME NEW i \in DOMAIN history[r], NEW t \in Tools, Did(r, i, t)
      PROVE  i \in DOMAIN history'[r] /\ Did(r, i, t)'
  <2>1. i \in DOMAIN steps[r] /\ i \in DOMAIN history'[r]
    <3>1. history'[r] \in Seq({"success", "blocked", "error"})
      BY TypedNext
    <3> QED BY <1>1, <3>1, Lengths DEF Aligned, Grows
  <2> DEFINE a == steps[r][i].action
  <2>2. a \in Actions /\ steps'[r][i].action = a
    BY <1>1, <2>1 DEF Told, Grows
  <2>3. history[r][i] = "success" /\ tool[<<r, a>>] = t /\ acts[<<r, a>>] = 1
    BY <1>2 DEF Did
  <2> HIDE DEF a
  <2>4. history'[r][i] = "success" /\ tool'[<<r, a>>] = t /\ 1 <= acts'[<<r, a>>]
    BY <2>2, <2>3 DEF Grows, Tools, NoTool
  <2>5. acts'[<<r, a>>] \in Nat /\ acts'[<<r, a>>] <= 1
    <3>1. acts' \in [Runs \X Actions -> Nat] /\ R!Budget(r)'
      BY TypedNext DEF Base, R!IInv, R!RunInv
    <3> QED BY <2>2, <3>1 DEF R!Budget
  <2> QED BY <2>1, <2>2, <2>4, <2>5 DEF Did
<1>3. PICK i, j \in DOMAIN history[r] :
        i < j /\ Did(r, i, "read_file") /\ output[r][i] = "text" /\ Did(r, j, "write_file")
  BY DEF Saved
<1>4. output'[r][i] = "text"
  BY <1>3 DEF Grows
<1> QED BY <1>2, <1>3, <1>4 DEF Saved, Tools

\* A run that a step does not concern.
Same(r) ==
  /\ steps'[r] = steps[r] /\ history'[r] = history[r] /\ output'[r] = output[r]
  /\ \A a \in Actions : acts'[<<r, a>>] = acts[<<r, a>>] /\ tool'[<<r, a>>] = tool[<<r, a>>]
  /\ \A q \in Requests : req'[q].at = "controlling" /\ req'[q].run = r =>
       req[q].at = "controlling" /\ req[q].run = r /\ req'[q].action = req[q].action

LEMMA Frame ==
  ASSUME IInv, Base', NEW r \in Runs, Same(r)
  PROVE  Grows(r) /\ RunInv(r)'
<1>1. RunInv(r) /\ Base
  BY DEF IInv
<1>2. Grows(r)
  <2>1. \A a \in Actions : acts[<<r, a>>] \in Nat
    BY <1>1, Typed
  <2> QED BY <1>1, <2>1, Lengths DEF Same, Grows
<1>3. Aligned(r)'
  BY <1>1 DEF Same, Aligned, RunInv
<1>4. Told(r)'
  BY <1>2, TellsOn DEF Same
<1>5. Stepped(r)'
  BY <1>2, StepsOn DEF Same
<1>6. Called(r)'
  <2>1. SUFFICES ASSUME NEW q \in Requests, req'[q].at = "controlling", req'[q].run = r
                 PROVE  Chosen(Earlier(r, Len(steps[r]) + 1)', tool'[<<r, req'[q].action>>])
    BY DEF Same, Called
  <2>2. req[q].at = "controlling" /\ req[q].run = r /\ req'[q].action = req[q].action
    BY <2>1 DEF Same
  <2>3. Chosen(Earlier(r, Len(steps[r]) + 1), tool[<<r, req[q].action>>])
    BY <1>1, <2>2 DEF RunInv, Called
  <2>4. R!Drives(q, r) /\ R!Driven(r)
    BY <1>1, <2>2 DEF Base, R!IInv, R!RunInv, R!Drives, R!Active
  <2>5. req[q].action \in Actions /\ Len(history[r]) = Len(steps[r])
    BY <2>2, <2>4 DEF R!Driven, R!Observed
  <2>6. Earlier(r, Len(steps[r]) + 1)' = Earlier(r, Len(steps[r]) + 1)
    BY DEF Same, Earlier, SuccessfulReads
  <2> QED BY <2>2, <2>3, <2>5, <2>6 DEF Same
<1> QED BY <1>2, <1>3, <1>4, <1>5, <1>6 DEF RunInv

-----------------------------------------------------------------------------
(* How a step carries the whole invariant over *)

\* The assumptions of the runner's own lemmas.
LEMMA Assumed == MaxSteps \in 1..20 /\ R!NoRun \notin Runs /\ R!NoAction \notin Actions
BY MaxStepsAssumption, NamesAssumption, OneRunner

LEMMA BaseOn ==
  ASSUME Base, R!IInv', tokens' = tokens,
         readme' \in {"absent", "empty", "text"}, summary' \in {"absent", "file", "directory"},
         tool' \in [Runs \X Actions -> Tools \cup {NoTool}],
         output' \in [Runs -> Seq(Outputs)], \A r \in Runs : Len(output'[r]) = Len(history'[r]),
         seen' \in [Requests -> SUBSET Outputs],
         startedBy' \in [Runs -> Tokens \cup {NoToken}],
         approvedBy' \in [Runs \X Actions -> Tokens \cup {NoToken}],
         reviewed' \subseteq Runs \X Actions
  PROVE  Base'
<1>1. Runner!TypeOK'
  BY OneRunner DEF R!IInv, Runner!TypeOK, R!TypeOK, Runner!RequestStates, R!RequestStates,
     Runner!AgentSteps, R!AgentSteps, Runner!Reviews, R!Reviews, Runner!Active, R!Active,
     Runner!Planning, R!Planning, Runner!Finishes, R!Finishes, Runner!Results, R!Results,
     Runner!NoRun, R!NoRun, Runner!NoAction, R!NoAction
<1>2. TypeOK'
  BY <1>1 DEF Base, TypeOK
<1> QED BY <1>2 DEF Base

\* A client is told nothing of the files' contents.
LEMMA TellTyped ==
  ASSUME Base, output' \in [Runs -> Seq(Outputs)], NEW q \in Requests, NEW r \in Runs,
         NEW final \in SUBSET Outputs, Tell(q, r, final)
  PROVE  seen' \in [Requests -> SUBSET Outputs]
<1> DEFINE shown == UNION {Redacted(r, i) :
             i \in {j \in DOMAIN steps'[r] : steps'[r][j].action # Runner!NoAction}}
<1>1. \A i : Redacted(r, i) \subseteq Outputs
  <2>1. SUFFICES ASSUME NEW i \in DOMAIN output'[r] PROVE output'[r][i] \in Outputs
    BY DEF Redacted, Observed
  <2>2. output'[r] \in Seq(Outputs)
    OBVIOUS
  <2> QED BY <2>1, <2>2
<1>2. shown \subseteq Outputs
  BY <1>1
<1>3. seen' = [seen EXCEPT ![q] = final \cup shown]
  BY DEF Tell
<1> HIDE DEF shown
<1> QED BY <1>2, <1>3, Typed

LEMMA TellHidden ==
  ASSUME IInv, Base', NEW q \in Requests, NEW r \in Runs, RunInv(r)',
         NEW final \in SUBSET (Outputs \ {"text"}), Tell(q, r, final)
  PROVE  ContentsHidden'
<1> DEFINE shown == UNION {Redacted(r, i) :
             i \in {j \in DOMAIN steps'[r] : steps'[r][j].action # Runner!NoAction}}
<1>1. ASSUME NEW i \in DOMAIN steps'[r], steps'[r][i].action # Runner!NoAction,
             "text" \in Redacted(r, i)
      PROVE  FALSE
  <2> DEFINE t == tool'[<<r, steps'[r][i].action>>]
             past == Earlier(r, i)'
  <2>1. t # "read_file" /\ i \in DOMAIN output'[r] /\ output'[r][i] = "text"
    BY <1>1 DEF Redacted, Observed
  <2>2. Chosen(past, t)
    BY <1>1, OneRunner DEF RunInv, Stepped
  <2>3. t = "write_file"
    BY <2>1, <2>2 DEF Chosen, Tools
  <2>4. i \in DOMAIN history'[r]
    <3>1. /\ history'[r] \in Seq({"success", "blocked", "error"}) /\ output'[r] \in Seq(Outputs)
          /\ Len(output'[r]) = Len(history'[r])
      BY TypedNext
    <3> QED BY <2>1, <3>1
  <2>5. Fits(acts'[<<r, steps'[r][i].action>>], t, history'[r][i], output'[r][i])
    BY <2>4 DEF RunInv, Told
  <2> HIDE DEF t
  <2> QED BY <2>1, <2>3, <2>5 DEF Fits
<1>2. "text" \notin shown
  BY <1>1
<1>3. seen' = [seen EXCEPT ![q] = final \cup shown]
  BY DEF Tell
<1> HIDE DEF shown
<1>4. seen \in [Requests -> SUBSET Outputs] /\ \A p \in Requests : "text" \notin seen[p]
  BY Typed DEF IInv, ContentsHidden
<1> QED BY <1>2, <1>3, <1>4 DEF ContentsHidden

\* A step that concerns one run at most.
LEMMA Assemble ==
  ASSUME IInv, Base', Duty', NEW q \in Requests, NEW r \in Runs,
         \A s \in Runs \ {r} : Same(s), Grows(r), RunInv(r)',
         \A p \in Requests \ {q} : req'[p] = req[p],
         req'[q].answer = "completed" => \E s \in Runs : req'[q].run = s /\ Saved(s),
         \/ UNCHANGED seen
         \/ \E final \in SUBSET (Outputs \ {"text"}) : Tell(q, r, final)
  PROVE  IInv'
<1>1. \A s \in Runs : Grows(s) /\ RunInv(s)'
  BY Frame
<1>2. ContentsHidden'
  <2>1. CASE UNCHANGED seen
    BY <2>1 DEF IInv, ContentsHidden
  <2>2. CASE \E final \in SUBSET (Outputs \ {"text"}) : Tell(q, r, final)
    BY <1>1, <2>2, TellHidden
  <2> QED BY <2>1, <2>2
<1>3. Finished'
  <2>1. SUFFICES ASSUME NEW p \in Requests, req'[p].answer = "completed"
                 PROVE  \E s \in Runs : req'[p].run = s /\ Saved(s)'
    BY DEF Finished
  <2>2. PICK s \in Runs : req'[p].run = s /\ Saved(s)
    BY <2>1 DEF IInv, Finished
  <2>3. Saved(s)'
    BY <1>1, <2>2, SavedOn
  <2> QED BY <2>2, <2>3
<1> QED BY <1>1, <1>2, <1>3 DEF IInv

\* A request at work: its run, alone.
LEMMA AtWork ==
  ASSUME IInv, NEW q \in Requests, req[q].at \in R!Active
  PROVE  \E r \in Runs, n \in Nat :
           /\ req[q].run = r /\ R!Driven(r)
           /\ n = Len(steps[r]) /\ n = Len(history[r])
           /\ \A p \in Requests : R!Drives(p, r) => p = q
           /\ \A a \in Actions : <<r, a>> \notin pending
<1> DEFINE r == req[q].run
<1>1. Base /\ R!IInv
  BY DEF IInv, Base
<1>2. /\ r \in Runs /\ R!Drives(q, r) /\ R!RunInv(r)
      /\ \A p \in Requests : R!Drives(p, r) => p = q
      /\ \A a \in Actions : <<r, a>> \notin pending
      /\ Len(steps[r]) \in Nat
  BY <1>1, R!ActiveFacts, Assumed
<1>3. R!Driven(r) /\ Len(history[r]) = Len(steps[r])
  BY <1>2 DEF R!RunInv, R!Driven, R!Observed
<1> QED BY <1>2, <1>3

LEMMA ReviewKept ==
  ASSUME IInv, NEW ra \in reviewed, Grows(ra[1])
  PROVE  \E i \in DOMAIN steps'[ra[1]] : steps'[ra[1]][i].action = ra[2]
<1>1. PICK i \in DOMAIN steps[ra[1]] : steps[ra[1]][i].action = ra[2]
  BY DEF IInv, Duty
<1>2. ra[1] \in Runs
  BY DEF IInv, Base, TypeOK
<1>3. i \in DOMAIN steps'[ra[1]]
  BY <1>1, <1>2, Lengths DEF Grows, IInv
<1> QED BY <1>1, <1>3 DEF Grows

\* A step that concerns no run's past: who starts, gives up or is refused.
LEMMA SilentIInv ==
  ASSUME IInv, R!IInv',
         UNCHANGED <<steps, history, acts, tool, output, seen, tokens, approvedBy, reviewed>>,
         pending' \subseteq pending,
         readme' \in {"absent", "empty", "text"}, summary' \in {"absent", "file", "directory"},
         startedBy' \in [Runs -> Tokens \cup {NoToken}],
         \A r \in Runs : startedBy'[r] \in {startedBy[r], tokens["execution"]},
         \A q \in Requests :
           /\ req'[q].at = "controlling" =>
                /\ req[q].at = "controlling" /\ req'[q].run = req[q].run
                /\ req'[q].action = req[q].action
           /\ req'[q].answer = "completed" =>
                req[q].answer = "completed" /\ req'[q].run = req[q].run
  PROVE  IInv'
<1>1. Base'
  BY BaseOn DEF IInv, Base, TypeOK
<1>2. \A r \in Runs : Same(r)
  BY DEF Same
<1>3. \A r \in Runs : Grows(r) /\ RunInv(r)'
  BY <1>1, <1>2, Frame
<1>4. Duty'
  <2>1. Duty
    BY DEF IInv
  <2>2. \A r \in Runs : startedBy'[r] \in {NoToken, tokens["execution"]}
    BY <2>1 DEF Duty
  <2> QED BY <2>1, <2>2 DEF Duty
<1>5. ContentsHidden'
  BY DEF IInv, ContentsHidden
<1>6. Finished'
  <2>1. SUFFICES ASSUME NEW q \in Requests, req'[q].answer = "completed"
                 PROVE  \E r \in Runs : req'[q].run = r /\ Saved(r)'
    BY DEF Finished
  <2>2. PICK r \in Runs : req'[q].run = r /\ Saved(r)
    BY <2>1 DEF IInv, Finished
  <2>3. Saved(r)'
    BY <1>1, <1>3, <2>2, SavedOn
  <2> QED BY <2>2, <2>3
<1> QED BY <1>1, <1>3, <1>4, <1>5, <1>6 DEF IInv

\* A run ends with a step that nothing is observed of.
EndsWith(q, r, n, s, status, final) ==
  /\ req[q].at \in R!Active /\ req[q].run = r
  /\ n = Len(steps[r]) /\ n = Len(history[r])
  /\ \A p \in Requests : R!Drives(p, r) => p = q
  /\ R!AddStep(r, s) /\ R!Answer(q, r, status)
  /\ UNCHANGED <<history, pending, held, acts>> /\ UNCHANGED <<files, tokens, output, ghosts>>
  /\ tool' \in [Runs \X Actions -> Tools \cup {NoTool}]
  /\ \A ra \in Runs \X Actions : ra[1] # r \/ tool[ra] # NoTool => tool'[ra] = tool[ra]
  /\ s.action # R!NoAction => Chosen(Earlier(r, n + 1), tool'[<<r, s.action>>])
  /\ status = "completed" => Saved(r)
  /\ Tell(q, r, final)

LEMMA EndIInv ==
  ASSUME IInv, R!IInv', NEW q \in Requests, NEW r \in Runs, NEW n \in Nat,
         NEW s \in R!AgentSteps, NEW status \in R!Finishes,
         NEW final \in SUBSET (Outputs \ {"text"}), EndsWith(q, r, n, s, status, final)
  PROVE  IInv'
<1> USE DEF EndsWith
<1>1. Base /\ RunInv(r) /\ R!TypeOK
  BY DEF IInv, Base, R!IInv
<1>2. /\ DOMAIN steps[r] = 1..n /\ DOMAIN steps'[r] = 1..(n + 1)
      /\ Len(steps'[r]) = n + 1
      /\ \A i \in 1..n : steps'[r][i] = steps[r][i]
      /\ steps'[r][n + 1] = s
      /\ \A other \in Runs \ {r} : steps'[other] = steps[other]
  <2>1. /\ steps' \in [Runs -> Seq(R!AgentSteps)]
        /\ Len(steps'[r]) = Len(steps[r]) + 1
        /\ \A i \in 1..Len(steps[r]) : steps'[r][i] = steps[r][i]
        /\ steps'[r][Len(steps[r]) + 1] = s
        /\ \A other \in Runs \ {r} : steps'[other] = steps[other]
    BY <1>1, R!AddStepFacts, Assumed
  <2>2. DOMAIN steps[r] = 1..n
    BY <1>1, Lengths
  <2>3. DOMAIN steps'[r] = 1..(n + 1)
    BY <2>1
  <2> QED BY <2>1, <2>2, <2>3
<1>3. /\ req'[q].at = "answered" /\ req'[q].run = r /\ req'[q].answer = status
      /\ \A p \in Requests \ {q} : req'[p] = req[p]
  <2>1. status \in R!Finishes \cup {"approval_required", "refused", "cancelled"}
    OBVIOUS
  <2> QED BY <1>1, <2>1, R!AnswerFacts, Assumed
<1>4. Base'
  <2>1. output' = output /\ seen' \in [Requests -> SUBSET Outputs]
    <3>1. output' = output /\ final \in SUBSET Outputs
      OBVIOUS
    <3>2. output' \in [Runs -> Seq(Outputs)]
      BY <1>1, <3>1, Typed
    <3> QED BY <1>1, <3>1, <3>2, TellTyped
  <2> QED BY <1>1, <2>1, BaseOn DEF Base, TypeOK, files, ghosts
<1>5. \A other \in Runs \ {r} : Same(other)
  BY <1>2, <1>3 DEF Same
<1>6. Grows(r)
  <2>1. \A a \in Actions : /\ acts[<<r, a>>] <= acts'[<<r, a>>]
                           /\ tool[<<r, a>>] # NoTool => tool'[<<r, a>>] = tool[<<r, a>>]
    BY <1>1, Typed
  <2> QED BY <1>1, <1>2, <2>1, Lengths DEF Grows
<1>7. \A other \in Runs : Grows(other)
  BY <1>4, <1>5, <1>6, Frame
<1>8. RunInv(r)'
  <2>1. Aligned(r)'
    BY <1>2, Lengths DEF Aligned
  <2>2. Told(r)'
    BY <1>4, <1>6, TellsOn
  <2>3. Stepped(r)'
    <3>1. Earlier(r, n + 1)' = Earlier(r, n + 1)
      BY DEF Earlier, SuccessfulReads
    <3>2. \A i \in DOMAIN steps'[r] \ DOMAIN steps[r] : i = n + 1
      BY <1>2
    <3> QED BY <1>2, <1>4, <1>6, <3>1, <3>2, StepsOn
  <2>4. Called(r)'
    <3>1. SUFFICES ASSUME NEW p \in Requests, req'[p].at = "controlling", req'[p].run = r
                   PROVE  FALSE
      BY DEF Called
    <3>2. p # q /\ req[p].at = "controlling" /\ req[p].run = r
      BY <1>3, <3>1
    <3> QED BY <3>2 DEF R!Drives, R!Active
  <2> QED BY <2>1, <2>2, <2>3, <2>4 DEF RunInv
<1>9. Duty'
  <2>1. ASSUME NEW ra \in reviewed
        PROVE  \E i \in DOMAIN steps'[ra[1]] : steps'[ra[1]][i].action = ra[2]
    <3>1. ra[1] \in Runs
      BY <1>1 DEF Base, TypeOK
    <3> QED BY <1>7, <3>1, ReviewKept
  <2>2. /\ UNCHANGED <<pending, acts, tokens, startedBy, approvedBy, reviewed>>
        /\ Duty
    BY DEF IInv, ghosts
  <2> QED BY <2>1, <2>2 DEF Duty
<1> QED BY <1>3, <1>4, <1>5, <1>6, <1>8, <1>9, Assemble

-----------------------------------------------------------------------------
(* Each action keeps the invariant *)

LEMMA UnauthorizedIInv ==
  ASSUME IInv, R!IInv', NEW q \in Requests, Unauthorized(q)
  PROVE  IInv'
<1>1. Base /\ R!TypeOK
  BY DEF IInv, Base, R!IInv
<1>2. R!Answer(q, R!NoRun, "refused")
  BY OneRunner DEF Unauthorized
<1>3. /\ req'[q].at = "answered" /\ req'[q].answer = "refused"
      /\ \A p \in Requests \ {q} : req'[p] = req[p]
  BY <1>1, <1>2, R!AnswerFacts, Assumed
<1>4. /\ UNCHANGED <<steps, history, acts, tool, output, seen, tokens, approvedBy, reviewed>>
      /\ UNCHANGED <<pending, readme, summary, startedBy>>
  BY DEF Unauthorized, files, ghosts
<1>5. \A p \in Requests :
        /\ req'[p].at = "controlling" => req'[p] = req[p]
        /\ req'[p].answer = "completed" => req'[p] = req[p]
  BY <1>3
<1> QED BY <1>1, <1>4, <1>5, SilentIInv DEF Base, TypeOK

LEMMA RunIInv ==
  ASSUME IInv, R!IInv', NEW q \in Requests, NEW r \in Runs, Run(q, r)
  PROVE  IInv'
<1>1. Base /\ R!TypeOK
  BY DEF IInv, Base, R!IInv
<1>2. PICK token \in Tokens \cup {NoToken} :
        Authorized("execution", token) /\ startedBy' = [startedBy EXCEPT ![r] = token]
  BY DEF Run
<1>3. R!Run(q, r)
  BY SamePlans DEF Run
<1>4. req[q].at = "idle" /\ R!LoopAt(q, r, 1) /\ UNCHANGED <<steps, history, pending, held, acts>>
  BY <1>3 DEF R!Run
<1>5. /\ req'[q].at \in {"planning", "last planning"} /\ req'[q].answer = req[q].answer
      /\ \A p \in Requests \ {q} : req'[p] = req[p]
  <2>1. 1 \in 1..(MaxSteps + 1)
    BY Assumed
  <2> QED BY <1>1, <1>4, <2>1, R!LoopAtFacts, Assumed
<1>6. req[q].answer = "none"
  BY <1>4 DEF IInv, Base, R!IInv, R!Idle
<1>7. \A p \in Requests :
        /\ req'[p].at = "controlling" => req'[p] = req[p]
        /\ req'[p].answer = "completed" => req'[p] = req[p]
  BY <1>5, <1>6
<1>8. startedBy' \in [Runs -> Tokens \cup {NoToken}]
  BY <1>1, <1>2 DEF Base, TypeOK
<1>9. \A s \in Runs : startedBy'[s] \in {startedBy[s], tokens["execution"]}
  BY <1>1, <1>2 DEF Base, TypeOK, Authorized
<1>10. UNCHANGED <<steps, history, acts, tool, output, seen, tokens, approvedBy, reviewed,
                   pending, readme, summary>>
  BY <1>4 DEF Run, files
<1> QED BY <1>1, <1>7, <1>8, <1>9, <1>10, SilentIInv DEF Base, TypeOK

LEMMA ApproveRefusedIInv ==
  ASSUME IInv, R!IInv', NEW q \in Requests, NEW r \in Runs, NEW a \in Actions,
         ApproveRefused(q, r, a)
  PROVE  IInv'
<1>1. Base /\ R!TypeOK
  BY DEF IInv, Base, R!IInv
<1>2. R!ApproveRefused(q, r, a) \/ R!ApproveUnknown(q)
  BY SameCalls DEF ApproveRefused
<1>3. /\ \E s \in Runs \cup {R!NoRun} : R!Answer(q, s, "refused")
      /\ UNCHANGED <<steps, history, acts>> /\ pending' \subseteq pending
  BY <1>2 DEF R!ApproveRefused, R!ApproveUnknown, R!Unpark
<1>4. /\ req'[q].at = "answered" /\ req'[q].answer = "refused"
      /\ \A p \in Requests \ {q} : req'[p] = req[p]
  BY <1>1, <1>3, R!AnswerFacts, Assumed
<1>5. UNCHANGED <<tool, output, seen, tokens, startedBy, approvedBy, reviewed, readme, summary>>
  BY DEF ApproveRefused, files, ghosts
<1>6. \A p \in Requests :
        /\ req'[p].at = "controlling" => req'[p] = req[p]
        /\ req'[p].answer = "completed" => req'[p] = req[p]
  BY <1>4
<1> QED BY <1>1, <1>3, <1>5, <1>6, SilentIInv DEF Base, TypeOK

LEMMA InterruptIInv ==
  ASSUME IInv, R!IInv', Interrupt
  PROVE  IInv'
<1>1. Base /\ R!TypeOK
  BY DEF IInv, Base, R!IInv
<1>2. UNCHANGED <<tool, output, seen, tokens, startedBy, approvedBy, reviewed, readme, summary>>
  BY DEF Interrupt, files, ghosts
<1>3. CASE R!Restart
  <2>1. UNCHANGED <<steps, history, acts>> /\ pending' \subseteq pending
    BY <1>3 DEF R!Restart
  <2>2. \A p \in Requests :
          /\ req'[p].at = "controlling" => req'[p] = req[p]
          /\ req'[p].answer = "completed" => req'[p] = req[p]
    <3>1. req \in [Requests -> R!RequestStates]
      BY <1>1, Typed
    <3> QED BY <1>3, <3>1 DEF R!Restart, R!RequestStates, R!Active
  <2> QED BY <1>1, <1>2, <2>1, <2>2, SilentIInv DEF Base, TypeOK
<1>4. ASSUME NEW q \in Requests, R!Cancel(q) PROVE IInv'
  <2>1. /\ UNCHANGED <<steps, history, acts, pending>>
        /\ R!Answer(q, req[q].run, "cancelled") /\ req[q].run \in Runs
    BY <1>1, <1>4, AtWork DEF R!Cancel
  <2>2. /\ req'[q].at = "answered" /\ req'[q].answer = "cancelled"
        /\ \A p \in Requests \ {q} : req'[p] = req[p]
    BY <1>1, <2>1, R!AnswerFacts, Assumed
  <2>3. \A p \in Requests :
          /\ req'[p].at = "controlling" => req'[p] = req[p]
          /\ req'[p].answer = "completed" => req'[p] = req[p]
    BY <2>2
  <2> QED BY <1>1, <1>2, <2>1, <2>3, SilentIInv DEF Base, TypeOK
<1> QED BY <1>3, <1>4, SameInterrupts DEF Interrupt

LEMMA FilesChangeIInv ==
  ASSUME IInv, R!IInv', FilesChange
  PROVE  IInv'
BY SilentIInv DEF FilesChange, runner, ghosts, IInv, Base, TypeOK

LEMMA StutterIInv ==
  ASSUME IInv, R!IInv', UNCHANGED vars
  PROVE  IInv'
BY SilentIInv DEF vars, runner, files, ghosts, IInv, Base, TypeOK

LEMMA TurnDownIInv ==
  ASSUME IInv, R!IInv', NEW q \in Requests, TurnDown(q)
  PROVE  IInv'
<1>1. R!PlannerFinishes(q, "blocked")
  BY SamePlans DEF TurnDown
<1>2. req[q].at \in R!Active
  BY <1>1 DEF R!PlannerFinishes, R!Active
<1>3. PICK r \in Runs, n \in Nat :
        /\ req[q].run = r /\ n = Len(steps[r]) /\ n = Len(history[r])
        /\ \A p \in Requests : R!Drives(p, r) => p = q
  BY <1>2, AtWork
<1> DEFINE s == R!Step(R!NoAction, R!FinishStatus["blocked"], "none")
<1>4. /\ R!AddStep(r, s) /\ R!Answer(q, r, "blocked")
      /\ UNCHANGED <<history, pending, held, acts>>
  BY <1>1, <1>3 DEF R!PlannerFinishes
<1>5. s \in R!AgentSteps /\ s.action = R!NoAction /\ "blocked" \in R!Finishes
  BY DEF R!Step, R!FinishStatus, R!AgentSteps, R!Finishes
<1>6. UNCHANGED <<files, tokens, tool, output, ghosts>> /\ Tell(q, r, {})
  BY <1>3 DEF TurnDown
<1>7. tool' = tool /\ tool' \in [Runs \X Actions -> Tools \cup {NoTool}]
  BY <1>6, Typed DEF IInv
<1> HIDE DEF s
<1>8. EndsWith(q, r, n, s, "blocked", {})
  BY <1>2, <1>3, <1>4, <1>5, <1>6, <1>7 DEF EndsWith
<1> QED BY <1>5, <1>8, EndIInv

LEMMA FinishIInv ==
  ASSUME IInv, R!IInv', NEW q \in Requests, Finish(q)
  PROVE  IInv'
<1>1. Base
  BY DEF IInv
<1>2. req[q].at \in R!Active
  BY OneRunner DEF Finish, R!Active
<1>3. PICK r \in Runs, n \in Nat :
        /\ req[q].run = r /\ n = Len(steps[r]) /\ n = Len(history[r])
        /\ \A p \in Requests : R!Drives(p, r) => p = q
  BY <1>2, AtWork
<1>4. PICK status \in R!Finishes : status = Plan(r)
  BY <1>1, <1>3, PlanFacts DEF Finish
<1>5. R!PlannerFinishes(q, status)
  BY <1>3, <1>4, SamePlans DEF Finish
<1> DEFINE s == R!Step(R!NoAction, R!FinishStatus[status], "none")
           final == IF status = "completed" THEN {} ELSE {Last(output[r])}
<1>6. /\ R!AddStep(r, s) /\ R!Answer(q, r, status)
      /\ UNCHANGED <<history, pending, held, acts>>
  BY <1>3, <1>5 DEF R!PlannerFinishes
<1>7. s \in R!AgentSteps /\ s.action = R!NoAction
  BY DEF R!Step, R!FinishStatus, R!AgentSteps, R!Finishes
<1>8. UNCHANGED <<files, tokens, tool, output, ghosts>> /\ Tell(q, r, final)
  BY <1>3, <1>4 DEF Finish
<1>9. tool' = tool /\ tool' \in [Runs \X Actions -> Tools \cup {NoTool}]
  BY <1>8, Typed DEF IInv
<1>10. status = "completed" => Saved(r)
  BY <1>1, <1>4, PlanFacts, TwoSuccesses
<1>11. final \in SUBSET (Outputs \ {"text"})
  <2>1. CASE status = "completed"
    BY <2>1
  <2>2. CASE status # "completed"
    <3>1. history[r] # <<>> /\ history[r][n] # "success"
      BY <1>1, <1>3, <1>4, <2>2, PlanFacts DEF R!Finishes
    <3>2. n \in DOMAIN history[r]
      <4>1. history[r] \in Seq({"success", "blocked", "error"})
        BY <1>1, Typed
      <4> QED BY <1>3, <3>1, <4>1
    <3>3. Told(r)
      BY DEF IInv, RunInv
    <3>4. output[r][n] = "reason"
      BY <3>1, <3>2, <3>3 DEF Told, Fits
    <3>5. Last(output[r]) = output[r][n]
      BY <1>1, <1>3, Lengths DEF Last
    <3> QED BY <2>2, <3>4, <3>5 DEF Outputs
  <2> QED BY <2>1, <2>2
<1> HIDE DEF s, final
<1>12. EndsWith(q, r, n, s, status, final)
  BY <1>2, <1>3, <1>6, <1>7, <1>8, <1>9, <1>10 DEF EndsWith
<1> QED BY <1>7, <1>11, <1>12, EndIInv

LEMMA ControlFailsIInv ==
  ASSUME IInv, R!IInv', NEW q \in Requests, ControlFails(q)
  PROVE  IInv'
<1>1. R!ControlFails(q)
  BY SameCalls DEF ControlFails
<1>2. req[q].at = "controlling" /\ req[q].at \in R!Active
  BY <1>1 DEF R!ControlFails, R!Active
<1>3. PICK r \in Runs, n \in Nat :
        /\ req[q].run = r /\ n = Len(steps[r]) /\ n = Len(history[r]) /\ R!Driven(r)
        /\ \A p \in Requests : R!Drives(p, r) => p = q
  BY <1>2, AtWork
<1>4. PICK a \in Actions : a = req[q].action
  BY <1>2, <1>3 DEF R!Driven, R!Drives
<1> DEFINE s == R!Step(a, "error", "raised")
<1>5. /\ R!AddStep(r, s) /\ R!Answer(q, r, "failed")
      /\ UNCHANGED <<history, pending, held, acts>>
  BY <1>1, <1>3, <1>4 DEF R!ControlFails
<1>6. s \in R!AgentSteps /\ s.action = a /\ "failed" \in R!Finishes
  BY DEF R!Step, R!AgentSteps, R!Finishes
<1>7. UNCHANGED <<files, tokens, tool, output, ghosts>> /\ Tell(q, r, {})
  BY <1>3 DEF ControlFails
<1>8. tool' = tool /\ tool' \in [Runs \X Actions -> Tools \cup {NoTool}]
  BY <1>7, Typed DEF IInv
<1>9. Chosen(Earlier(r, n + 1), tool'[<<r, a>>])
  BY <1>2, <1>3, <1>4, <1>8 DEF IInv, RunInv, Called
<1> HIDE DEF s
<1>10. EndsWith(q, r, n, s, "failed", {})
  BY <1>2, <1>3, <1>5, <1>6, <1>7, <1>8, <1>9 DEF EndsWith
<1> QED BY <1>6, <1>10, EndIInv

\* What the planner proposes now is what its rule chooses.
LEMMA ChosenNow ==
  ASSUME Base, NEW r \in Runs, NEW n \in Nat, n = Len(history[r]), Plan(r) \in Tools
  PROVE  Chosen(Earlier(r, n + 1), Plan(r))
<1>1. \A i \in SuccessfulReads(r) : i < n + 1
  BY Lengths DEF SuccessfulReads
<1>2. Earlier(r, n + 1) = SuccessfulReads(r)
  BY <1>1 DEF Earlier
<1> QED BY <1>2, PlanFacts DEF Chosen, Tools

LEMMA ProposeIInv ==
  ASSUME IInv, R!IInv', NEW q \in Requests, NEW a \in Actions, Propose(q, a)
  PROVE  IInv'
<1>1. Base
  BY DEF IInv
<1>2. req[q].at \in R!Planning /\ req[q].at \in R!Active
  BY OneRunner DEF Propose, R!Active
<1>3. PICK r \in Runs, n \in Nat :
        /\ req[q].run = r /\ n = Len(steps[r]) /\ n = Len(history[r])
        /\ \A p \in Requests : R!Drives(p, r) => p = q
  BY <1>2, AtWork
<1>4. /\ Plan(r) \in Tools /\ tool[<<r, a>>] = NoTool
      /\ tool' = [tool EXCEPT ![<<r, a>>] = Plan(r)]
      /\ UNCHANGED <<files, tokens, output, ghosts>>
      /\ TellIfAnswered(q, r)
  BY <1>3 DEF Propose
<1>5. /\ tool' \in [Runs \X Actions -> Tools \cup {NoTool}] /\ tool'[<<r, a>>] = Plan(r)
      /\ \A ra \in Runs \X Actions : ra # <<r, a>> => tool'[ra] = tool[ra]
  <2>1. tool \in [Runs \X Actions -> Tools \cup {NoTool}]
    BY <1>1, Typed
  <2> QED BY <1>4, <2>1
<1>6. Chosen(Earlier(r, n + 1), tool'[<<r, a>>])
  BY <1>1, <1>3, <1>4, <1>5, ChosenNow
<1>7. CASE R!PlannerExceedsBudget(q, a)
  <2> DEFINE s == R!Step(a, "blocked", "over budget")
  <2>1. /\ R!AddStep(r, s) /\ R!Answer(q, r, "blocked")
        /\ UNCHANGED <<history, pending, held, acts>>
    BY <1>3, <1>7 DEF R!PlannerExceedsBudget
  <2>2. s \in R!AgentSteps /\ s.action = a /\ "blocked" \in R!Finishes
    BY DEF R!Step, R!AgentSteps, R!Finishes
  <2>3. Tell(q, r, {})
    <3>1. R!TypeOK /\ "blocked" \in R!Finishes \cup {"approval_required", "refused", "cancelled"}
      BY <1>1, <2>2 DEF Base, R!IInv
    <3>2. req'[q].at = "answered"
      BY <2>1, <3>1, R!AnswerFacts, Assumed
    <3> QED BY <1>4, <3>2 DEF TellIfAnswered
  <2>4. \A ra \in Runs \X Actions : ra[1] # r \/ tool[ra] # NoTool => tool'[ra] = tool[ra]
    BY <1>4, <1>5
  <2> HIDE DEF s
  <2>5. EndsWith(q, r, n, s, "blocked", {})
    BY <1>2, <1>3, <1>4, <1>5, <1>6, <2>1, <2>2, <2>3, <2>4 DEF EndsWith
  <2> QED BY <2>2, <2>5, EndIInv
<1>8. CASE R!PlannerProposes(q, a)
  <2>1. /\ req' = [req EXCEPT ![q].at = "controlling", ![q].action = a]
        /\ UNCHANGED <<steps, history, pending, held, acts>>
    BY <1>8 DEF R!PlannerProposes
  <2>2. /\ req'[q].at = "controlling" /\ req'[q].action = a /\ req'[q].run = r
        /\ req'[q].answer = req[q].answer
        /\ \A p \in Requests \ {q} : req'[p] = req[p]
    <3>1. req \in [Requests -> R!RequestStates] /\ req[q] \in R!RequestStates
      BY <1>1, Typed
    <3> QED BY <1>3, <2>1, <3>1 DEF R!RequestStates
  <2>3. UNCHANGED seen
    BY <1>4, <2>2 DEF TellIfAnswered
  <2>4. Base'
    BY <1>1, <1>4, <1>5, <2>1, <2>3, BaseOn DEF Base, TypeOK, files, ghosts
  <2>5. \A other \in Runs \ {r} : Same(other)
    BY <1>4, <1>5, <2>1, <2>2 DEF Same
  <2>6. Grows(r)
    <3>1. \A b \in Actions : /\ acts[<<r, b>>] <= acts'[<<r, b>>]
                             /\ tool[<<r, b>>] # NoTool => tool'[<<r, b>>] = tool[<<r, b>>]
      <4>1. SUFFICES ASSUME NEW b \in Actions
                     PROVE  /\ acts[<<r, b>>] <= acts'[<<r, b>>]
                            /\ tool[<<r, b>>] # NoTool => tool'[<<r, b>>] = tool[<<r, b>>]
        OBVIOUS
      <4>2. acts[<<r, b>>] \in Nat /\ acts' = acts
        BY <1>1, <2>1, Typed
      <4>3. tool[<<r, b>>] # NoTool => <<r, b>> # <<r, a>>
        BY <1>4
      <4> QED BY <1>5, <4>2, <4>3
    <3> QED BY <1>1, <1>4, <2>1, <3>1, Lengths DEF Grows
  <2>7. RunInv(r)'
    <3>1. Aligned(r)'
      BY <2>1 DEF IInv, RunInv, Aligned
    <3>2. Told(r)' /\ Stepped(r)'
      BY <2>1, <2>4, <2>6, TellsOn, StepsOn
    <3>3. Called(r)'
      <4>1. SUFFICES ASSUME NEW p \in Requests, req'[p].at = "controlling", req'[p].run = r
                     PROVE  Chosen(Earlier(r, Len(steps[r]) + 1)', tool'[<<r, req'[p].action>>])
        BY DEF Called
      <4>2. p = q
        BY <1>3, <2>2, <4>1 DEF R!Drives, R!Active
      <4>3. Earlier(r, Len(steps[r]) + 1)' = Earlier(r, n + 1)
        BY <1>3, <1>4, <2>1 DEF Earlier, SuccessfulReads
      <4> QED BY <1>6, <2>2, <4>2, <4>3
    <3> QED BY <3>1, <3>2, <3>3 DEF RunInv
  <2>8. Duty'
    BY <1>4, <2>1 DEF IInv, Duty, ghosts
  <2>9. req'[q].answer # "completed"
    BY <1>2, <2>2 DEF IInv, Base, R!IInv, R!Idle, R!Planning
  <2> QED BY <2>2, <2>3, <2>4, <2>5, <2>6, <2>7, <2>8, <2>9, Assemble
<1> QED BY <1>7, <1>8, SamePlans DEF Propose

\* The request goes on with the run or is answered, but not with an end of the run
\* that its planner decided.
LEMMA Moves ==
  ASSUME R!TypeOK, NEW q \in Requests, NEW r \in Runs, req[q].answer = "none",
         \/ \E status \in {"approval_required", "blocked", "failed"} : R!Answer(q, r, status)
         \/ \E m \in 1..(MaxSteps + 1) : R!LoopAt(q, r, m)
  PROVE  /\ req'[q].at # "controlling" /\ req'[q].run = r /\ req'[q].answer # "completed"
         /\ \A p \in Requests \ {q} : req'[p] = req[p]
<1>1. ASSUME NEW status \in {"approval_required", "blocked", "failed"}, R!Answer(q, r, status)
      PROVE  /\ req'[q].at # "controlling" /\ req'[q].run = r /\ req'[q].answer # "completed"
             /\ \A p \in Requests \ {q} : req'[p] = req[p]
  <2>1. status \in R!Finishes \cup {"approval_required", "refused", "cancelled"}
    BY DEF R!Finishes
  <2> QED BY <1>1, <2>1, R!AnswerFacts, Assumed
<1>2. ASSUME NEW m \in 1..(MaxSteps + 1), R!LoopAt(q, r, m)
      PROVE  /\ req'[q].at # "controlling" /\ req'[q].run = r /\ req'[q].answer # "completed"
             /\ \A p \in Requests \ {q} : req'[p] = req[p]
  BY <1>2, R!LoopAtFacts, Assumed
<1> QED BY <1>1, <1>2

LEMMA SeenFacts ==
  ASSUME Base, NEW q \in Requests, NEW r \in Runs, output' \in [Runs -> Seq(Outputs)],
         TellIfAnswered(q, r)
  PROVE  /\ seen' \in [Requests -> SUBSET Outputs]
         /\ \/ UNCHANGED seen
            \/ \E final \in SUBSET (Outputs \ {"text"}) : Tell(q, r, final)
<1>1. UNCHANGED seen \/ Tell(q, r, {})
  BY DEF TellIfAnswered
<1>2. {} \in SUBSET Outputs /\ {} \in SUBSET (Outputs \ {"text"})
  OBVIOUS
<1>3. Tell(q, r, {}) => seen' \in [Requests -> SUBSET Outputs]
  BY <1>2, TellTyped
<1> QED BY <1>1, <1>2, <1>3, Typed

\* What a controlled action leaves in the files, the outputs and the history.
LEMMA LeavesFacts ==
  ASSUME Base, NEW r \in Runs, NEW a \in Actions, NEW result \in R!Results, NEW k \in Nat,
         k = Len(history[r]), NEW may \in BOOLEAN, Yields(<<r, a>>, result, may),
         Leaves(<<r, a>>, result), tool[<<r, a>>] \in Tools,
         \/ UNCHANGED history
         \/ result \in {"success", "blocked", "error"} /\ R!Observe(r, result)
  PROVE  /\ UNCHANGED <<readme, tokens, tool, startedBy>>
         /\ summary' \in {"absent", "file", "directory"} /\ reviewed' = reviewed \cup pending'
         /\ output' \in [Runs -> Seq(Outputs)]
         /\ \A s \in Runs : Len(output'[s]) = Len(history'[s])
         /\ \A s \in Runs \ {r} : output'[s] = output[s] /\ history'[s] = history[s]
         /\ \A i \in 1..k : output'[r][i] = output[r][i] /\ history'[r][i] = history[r][i]
         /\ \/ UNCHANGED history /\ DOMAIN history'[r] = 1..k
            \/ /\ R!Observe(r, result) /\ DOMAIN history'[r] = 1..(k + 1)
               /\ \A m \in Nat : (result = "success" => m > 0) =>
                    Fits(m, tool[<<r, a>>], history'[r][k + 1], output'[r][k + 1])
<1> DEFINE x == IF result = "success" THEN IF tool[<<r, a>>] = "write_file" THEN "note" ELSE readme
                ELSE "reason"
<1>1. /\ UNCHANGED <<readme, tokens, tool, startedBy>> /\ reviewed' = reviewed \cup pending'
      /\ output' = IF history'[r] = history[r] THEN output
                   ELSE [output EXCEPT ![r] = Append(output[r], x)]
  BY DEF Leaves
<1>2. summary' \in {"absent", "file", "directory"}
  BY DEF Leaves, Base, TypeOK
<1>3. /\ x \in Outputs
      /\ \A m \in Nat : (result = "success" => m > 0) => Fits(m, tool[<<r, a>>], result, x)
  <2>1. readme \in {"absent", "empty", "text"}
    BY DEF Base, TypeOK
  <2>2. CASE result = "success" /\ tool[<<r, a>>] = "read_file"
    <3>1. readme # "absent"
      BY <2>2 DEF Yields
    <3> QED BY <2>1, <2>2, <3>1 DEF Fits, Outputs
  <2>3. CASE result = "success" /\ tool[<<r, a>>] = "write_file"
    BY <2>3 DEF Fits, Outputs
  <2>4. CASE result # "success"
    BY <2>4 DEF Fits, Outputs
  <2> QED BY <2>2, <2>3, <2>4 DEF Tools
<1> HIDE DEF x
<1>4. /\ output \in [Runs -> Seq(Outputs)] /\ \A s \in Runs : Len(output[s]) = Len(history[s])
      /\ DOMAIN history[r] = 1..k /\ Len(output[r]) = k
  BY Typed, Lengths
<1>5. CASE UNCHANGED history
  BY <1>1, <1>2, <1>4, <1>5
<1>6. CASE result \in {"success", "blocked", "error"} /\ R!Observe(r, result)
  <2>1. /\ history' \in [Runs -> Seq({"success", "blocked", "error"})]
        /\ Len(history'[r]) = k + 1
        /\ \A i \in 1..k : history'[r][i] = history[r][i]
        /\ history'[r][k + 1] = result
        /\ \A s \in Runs \ {r} : history'[s] = history[s]
    BY <1>6, R!ObserveFacts, Assumed DEF Base, R!IInv
  <2>2. history'[r] # history[r] /\ DOMAIN history'[r] = 1..(k + 1)
    BY <2>1
  <2>3. output' = [output EXCEPT ![r] = Append(output[r], x)] /\ output[r] \in Seq(Outputs)
    BY <1>1, <1>4, <2>2
  <2>4. /\ Append(output[r], x) \in Seq(Outputs) /\ Len(Append(output[r], x)) = k + 1
        /\ \A i \in 1..k : Append(output[r], x)[i] = output[r][i]
        /\ Append(output[r], x)[k + 1] = x
    BY <1>3, <1>4, <2>3
  <2>5. /\ output'[r] = Append(output[r], x) /\ output' \in [Runs -> Seq(Outputs)]
        /\ \A s \in Runs \ {r} : output'[s] = output[s]
    BY <1>4, <2>3, <2>4
  <2>6. \A s \in Runs : Len(output'[s]) = Len(history'[s])
    BY <1>4, <2>1, <2>4, <2>5
  <2>7. \A m \in Nat : (result = "success" => m > 0) =>
          Fits(m, tool[<<r, a>>], history'[r][k + 1], output'[r][k + 1])
    BY <1>3, <2>1, <2>4, <2>5
  <2> QED BY <1>1, <1>2, <1>6, <2>1, <2>2, <2>4, <2>5, <2>6, <2>7
<1> QED BY <1>5, <1>6

\* The step of a call: what its observation tells, and what it was chosen from.
LEMMA NewTold ==
  ASSUME IInv, Base', NEW r \in Runs, Grows(r), NEW a \in Actions, NEW k \in Nat,
         DOMAIN history[r] = 1..k, steps'[r][k + 1].action = a,
         \/ DOMAIN history'[r] = 1..k
         \/ /\ DOMAIN history'[r] = 1..(k + 1)
            /\ Fits(acts'[<<r, a>>], tool'[<<r, a>>], history'[r][k + 1], output'[r][k + 1])
  PROVE  Told(r)'
<1>1. SUFFICES ASSUME NEW i \in DOMAIN history'[r] \ DOMAIN history[r]
               PROVE  LET ra == <<r, steps'[r][i].action>>
                      IN /\ steps'[r][i].action \in Actions
                         /\ Fits(acts'[ra], tool'[ra], history'[r][i], output'[r][i])
  BY TellsOn
<1>2. i = k + 1 /\ DOMAIN history'[r] # 1..k
  OBVIOUS
<1> QED BY <1>2

LEMMA NewStepped ==
  ASSUME IInv, Base', NEW r \in Runs, Grows(r), NEW a \in Actions, NEW k \in Nat,
         k = Len(history[r]), DOMAIN steps[r] \in {1..k, 1..(k + 1)},
         DOMAIN steps'[r] = 1..(k + 1), steps'[r][k + 1].action = a,
         Chosen(Earlier(r, k + 1), tool'[<<r, a>>])
  PROVE  Stepped(r)'
<1>1. Earlier(r, k + 1)' = Earlier(r, k + 1)
  BY Past DEF IInv
<1>2. \A i \in DOMAIN steps'[r] \ DOMAIN steps[r] : i = k + 1
  OBVIOUS
<1>3. \A i \in DOMAIN steps'[r] \ DOMAIN steps[r] :
        Chosen(Earlier(r, i)', tool'[<<r, steps'[r][i].action>>])
  BY <1>1, <1>2
<1> QED BY <1>3, StepsOn

\* A tool call, at once or after its review: the last step of its run is now its
\* step, and is perhaps observed.
ActsFor(q, r, a, result, k, may) ==
  /\ req'[q].at # "controlling" /\ req'[q].run = r /\ req'[q].answer # "completed"
  /\ \A p \in Requests \ {q} : req'[p] = req[p] /\ ~R!Drives(p, r)
  /\ k = Len(history[r]) /\ Len(steps[r]) \in {k, k + 1} /\ DOMAIN steps'[r] = 1..(k + 1)
  /\ \A i \in DOMAIN steps[r] : steps'[r][i].action = steps[r][i].action
  /\ steps'[r][k + 1].action = a /\ \A s \in Runs \ {r} : steps'[s] = steps[s]
  /\ Chosen(Earlier(r, k + 1), tool[<<r, a>>])
  /\ acts[<<r, a>>] = 0 /\ R!Acted(r, a, result)
  /\ Yields(<<r, a>>, result, may) /\ Leaves(<<r, a>>, result) /\ TellIfAnswered(q, r)
  /\ UNCHANGED history \/ (result \in {"success", "blocked", "error"} /\ R!Observe(r, result))
  /\ pending' \subseteq pending \cup {<<r, a>>}
  /\ approvedBy' \in [Runs \X Actions -> Tokens \cup {NoToken}]
  /\ \A ra \in Runs \X Actions : ra # <<r, a>> => approvedBy'[ra] = approvedBy[ra]
  /\ <<r, a>> \in reviewed' /\ acts'[<<r, a>>] > 0 =>
       /\ approvedBy'[<<r, a>>] = tokens["approval"]
       /\ tokens["approval"] \notin {NoToken, tokens["execution"]}

LEMMA ActIInv ==
  ASSUME IInv, R!IInv', NEW q \in Requests, NEW r \in Runs, NEW a \in Actions,
         NEW result \in R!Results, NEW k \in Nat, NEW may \in BOOLEAN,
         ActsFor(q, r, a, result, k, may)
  PROVE  IInv'
<1> USE DEF ActsFor
<1>1. Base /\ RunInv(r) /\ R!TypeOK /\ pending \subseteq Runs \X Actions
  BY Typed DEF IInv, Base, R!IInv
<1>2. tool[<<r, a>>] \in Tools
  BY DEF Chosen
<1>3. /\ UNCHANGED <<readme, tokens, tool, startedBy>>
      /\ summary' \in {"absent", "file", "directory"} /\ reviewed' = reviewed \cup pending'
      /\ output' \in [Runs -> Seq(Outputs)] /\ \A s \in Runs : Len(output'[s]) = Len(history'[s])
      /\ \A s \in Runs \ {r} : output'[s] = output[s] /\ history'[s] = history[s]
      /\ \A i \in 1..k : output'[r][i] = output[r][i] /\ history'[r][i] = history[r][i]
      /\ \/ UNCHANGED history /\ DOMAIN history'[r] = 1..k
         \/ /\ R!Observe(r, result) /\ DOMAIN history'[r] = 1..(k + 1)
            /\ \A m \in Nat : (result = "success" => m > 0) =>
                 Fits(m, tool[<<r, a>>], history'[r][k + 1], output'[r][k + 1])
  BY <1>1, <1>2, LeavesFacts
<1>4. /\ acts' \in [Runs \X Actions -> Nat]
      /\ result = "success" => acts'[<<r, a>>] = 1
      /\ \A s \in Runs, b \in Actions : s # r \/ b # a => acts'[<<s, b>>] = acts[<<s, b>>]
  <2>1. acts \in [Runs \X Actions -> Nat]
    BY <1>1, Typed
  <2>2. result = "success" => acts' = [acts EXCEPT ![<<r, a>>] = acts[<<r, a>>] + 1]
    BY DEF R!Acted
  <2>3. result = "success" => acts'[<<r, a>>] = 1
    BY <2>1, <2>2
  <2> QED BY <1>1, <2>3, R!ActedFacts, Assumed
<1>5. /\ seen' \in [Requests -> SUBSET Outputs]
      /\ UNCHANGED seen \/ \E final \in SUBSET (Outputs \ {"text"}) : Tell(q, r, final)
  BY <1>1, <1>3, SeenFacts
<1>6. Base'
  <2>1. reviewed' \subseteq Runs \X Actions
    BY <1>1, <1>3 DEF Base, TypeOK
  <2> QED BY <1>1, <1>3, <1>5, <2>1, BaseOn DEF Base, TypeOK
<1>7. ASSUME NEW s \in Runs \ {r} PROVE Same(s)
  <2>1. \A p \in Requests : req'[p].at = "controlling" => req'[p] = req[p]
    OBVIOUS
  <2>2. \A b \in Actions : acts'[<<s, b>>] = acts[<<s, b>>] /\ tool'[<<s, b>>] = tool[<<s, b>>]
    BY <1>3, <1>4
  <2> QED BY <1>3, <2>1, <2>2 DEF Same
<1>8. /\ DOMAIN history[r] = 1..k /\ Len(history'[r]) \in {k, k + 1}
      /\ Len(steps[r]) \in Nat /\ DOMAIN steps[r] = 1..Len(steps[r]) /\ Len(steps'[r]) = k + 1
  <2>1. history'[r] \in Seq({"success", "blocked", "error"}) /\ steps'[r] \in Seq(R!AgentSteps)
    BY <1>6, TypedNext
  <2> QED BY <1>1, <1>3, <2>1, Lengths
<1>9. Grows(r)
  <2>1. \A b \in Actions : acts[<<r, b>>] <= acts'[<<r, b>>]
    <3>1. \A b \in Actions : acts[<<r, b>>] \in Nat /\ acts'[<<r, b>>] \in Nat
      BY <1>1, <1>4, Typed
    <3>2. SUFFICES ASSUME NEW b \in Actions PROVE acts[<<r, b>>] <= acts'[<<r, b>>]
      OBVIOUS
    <3>3. acts[<<r, b>>] \in Nat /\ acts'[<<r, b>>] \in Nat
      BY <3>1
    <3>4. b = a => acts[<<r, b>>] = 0
      BY DEF ActsFor
    <3>5. b # a => acts'[<<r, b>>] = acts[<<r, b>>]
      BY <1>4
    <3> HIDE DEF ActsFor
    <3> QED BY <3>3, <3>4, <3>5
  <2> QED BY <1>3, <1>8, <2>1 DEF Grows
<1>10. RunInv(r)'
  <2>1. Aligned(r)'
    BY <1>8 DEF Aligned
  <2>2. Told(r)'
    <3>1. acts'[<<r, a>>] \in Nat /\ (result = "success" => acts'[<<r, a>>] > 0)
      BY <1>4
    <3>2. \/ DOMAIN history'[r] = 1..k
          \/ /\ DOMAIN history'[r] = 1..(k + 1)
             /\ Fits(acts'[<<r, a>>], tool'[<<r, a>>], history'[r][k + 1], output'[r][k + 1])
      BY <1>3, <1>4, <3>1
    <3> QED BY <1>6, <1>8, <1>9, <3>2, NewTold
  <2>3. Stepped(r)'
    BY <1>3, <1>6, <1>8, <1>9, NewStepped
  <2>4. Called(r)'
    <3>1. SUFFICES ASSUME NEW p \in Requests, req'[p].at = "controlling", req'[p].run = r
                   PROVE  FALSE
      BY DEF Called
    <3> QED BY <3>1 DEF R!Drives, R!Active
  <2> QED BY <2>1, <2>2, <2>3, <2>4 DEF RunInv
<1>11. Duty'
  <2>1. Duty
    BY DEF IInv
  <2>2. ASSUME NEW ra \in reviewed', acts'[ra] > 0
        PROVE  /\ approvedBy'[ra] = tokens["approval"]
               /\ tokens["approval"] \notin {NoToken, tokens["execution"]}
    <3>1. CASE ra = <<r, a>>
      BY <2>2, <3>1
    <3>2. CASE ra # <<r, a>>
      <4>1. ra \in reviewed /\ ra \in Runs \X Actions
        BY <1>1, <1>3, <2>1, <2>2, <3>2 DEF Duty, Base, TypeOK
      <4>2. acts'[ra] = acts[ra]
        BY <1>4, <3>2, <4>1
      <4> QED BY <2>1, <2>2, <3>2, <4>1, <4>2 DEF Duty
    <3> QED BY <3>1, <3>2
  <2>3. ASSUME NEW ra \in reviewed'
        PROVE  \E i \in DOMAIN steps'[ra[1]] : steps'[ra[1]][i].action = ra[2]
    <3>1. CASE ra \in reviewed
      <4>1. ra[1] \in Runs
        BY <1>1, <3>1 DEF Base, TypeOK
      <4>2. Grows(ra[1])
        BY <1>6, <1>7, <1>9, <4>1, Frame
      <4> QED BY <3>1, <4>2, ReviewKept
    <3>2. CASE ra \notin reviewed
      <4>1. ra = <<r, a>>
        BY <1>3, <2>1, <2>3, <3>2 DEF Duty
      <4>2. k + 1 \in DOMAIN steps'[r]
        OBVIOUS
      <4> QED BY <4>1, <4>2
    <3> QED BY <3>1, <3>2
  <2> QED BY <1>3, <2>1, <2>2, <2>3 DEF Duty
<1> QED BY <1>5, <1>6, <1>7, <1>9, <1>10, <1>11, Assemble

LEMMA ControlledIInv ==
  ASSUME IInv, R!IInv', NEW q \in Requests, NEW result \in R!Results, Controlled(q, result)
  PROVE  IInv'
<1>1. Base /\ R!TypeOK /\ pending \subseteq Runs \X Actions /\ pending \subseteq reviewed
  BY Typed DEF IInv, Base, R!IInv, Duty
<1>2. R!Controlled(q, result)
  BY SameCalls DEF Controlled
<1>3. req[q].at = "controlling" /\ req[q].at \in R!Active
  BY <1>2 DEF R!Controlled, R!Active
<1>4. PICK r \in Runs, k \in Nat :
        /\ req[q].run = r /\ k = Len(steps[r]) /\ k = Len(history[r]) /\ R!Driven(r)
        /\ \A p \in Requests : R!Drives(p, r) => p = q
        /\ \A b \in Actions : <<r, b>> \notin pending
  BY <1>3, AtWork
<1>5. PICK a \in Actions : a = req[q].action /\ ~R!Reused(r, a)
  BY <1>3, <1>4 DEF R!Driven, R!Drives
<1> DEFINE s == R!Filled(a, result)
<1>6. /\ R!AddStep(r, s) /\ R!Acted(r, a, result)
      /\ \/ /\ result = "review" /\ UNCHANGED history
            /\ pending' = pending \cup {<<r, a>>} /\ R!Answer(q, r, "approval_required")
         \/ /\ result # "review" /\ R!Observe(r, result) /\ R!LoopAt(q, r, req[q].step + 1)
            /\ UNCHANGED pending
  BY <1>2, <1>4, <1>5 DEF R!Controlled
<1>7. s \in R!AgentSteps /\ s.action = a
  BY DEF R!Filled, R!Step, R!AgentSteps, R!Results
<1> HIDE DEF s
<1>8. /\ DOMAIN steps[r] = 1..k /\ DOMAIN steps'[r] = 1..(k + 1)
      /\ \A i \in DOMAIN steps[r] : steps'[r][i].action = steps[r][i].action
      /\ steps'[r][k + 1].action = a /\ \A other \in Runs \ {r} : steps'[other] = steps[other]
  <2>1. /\ steps' \in [Runs -> Seq(R!AgentSteps)]
        /\ Len(steps'[r]) = Len(steps[r]) + 1
        /\ \A i \in 1..Len(steps[r]) : steps'[r][i] = steps[r][i]
        /\ steps'[r][Len(steps[r]) + 1] = s
        /\ \A other \in Runs \ {r} : steps'[other] = steps[other]
    BY <1>1, <1>6, <1>7, R!AddStepFacts, Assumed
  <2>2. DOMAIN steps[r] = 1..k
    BY <1>1, <1>4, Lengths
  <2>3. DOMAIN steps'[r] = 1..(k + 1)
    BY <1>4, <2>1
  <2> QED BY <1>4, <1>7, <2>1, <2>2, <2>3
<1>9. acts[<<r, a>>] = 0 /\ <<r, a>> \notin reviewed
  <2>1. acts[<<r, a>>] \in Nat /\ R!Budget(r)
    BY <1>1, Typed DEF Base, R!IInv, R!RunInv
  <2>2. ~\E i \in DOMAIN steps[r] : steps[r][i].action = a
    BY <1>5 DEF R!Reused
  <2>3. acts[<<r, a>>] = 0
    BY <2>1, <2>2 DEF R!Budget
  <2>4. <<r, a>> \notin reviewed
    BY <2>2 DEF IInv, Duty
  <2> QED BY <2>3, <2>4
<1>10. /\ Yields(<<r, a>>, result, FALSE) /\ Leaves(<<r, a>>, result) /\ TellIfAnswered(q, r)
       /\ UNCHANGED approvedBy
  BY <1>4, <1>5 DEF Controlled
<1>11. Chosen(Earlier(r, k + 1), tool[<<r, a>>])
  BY <1>3, <1>4, <1>5 DEF IInv, RunInv, Called
<1>12. /\ req'[q].at # "controlling" /\ req'[q].run = r /\ req'[q].answer # "completed"
       /\ \A p \in Requests \ {q} : req'[p] = req[p]
  <2>1. req[q].answer = "none"
    BY <1>1, <1>3 DEF Base, R!IInv, R!Idle
  <2>2. result # "review" => req[q].step + 1 \in 1..(MaxSteps + 1)
    <3>1. R!Drives(q, r)
      BY <1>3, <1>4 DEF R!Drives
    <3>2. req[q].step = k + 1 /\ req[q].step <= MaxSteps
      BY <1>3, <1>4, <3>1 DEF R!Driven
    <3>3. req[q].step = k + 1 /\ k \in Nat /\ MaxSteps \in Nat
      BY <1>4, <3>2, Assumed
    <3> QED BY <3>2, <3>3
  <2> QED BY <1>1, <1>6, <2>1, <2>2, Moves
<1>13. UNCHANGED history \/ (result \in {"success", "blocked", "error"} /\ R!Observe(r, result))
  BY <1>6 DEF R!Results
<1>14. \A p \in Requests \ {q} : req'[p] = req[p] /\ ~R!Drives(p, r)
  BY <1>4, <1>12
<1>15. /\ pending' \subseteq pending \cup {<<r, a>>}
       /\ <<r, a>> \in reviewed' => acts'[<<r, a>>] = 0
  <2>1. pending' \subseteq pending \cup {<<r, a>>}
    BY <1>6
  <2>2. ASSUME <<r, a>> \in reviewed' PROVE acts'[<<r, a>>] = 0
    <3>1. <<r, a>> \in pending'
      BY <1>9, <1>10, <2>2 DEF Leaves
    <3>2. result = "review"
      BY <1>4, <1>6, <3>1
    <3> QED BY <1>6, <1>9, <3>2 DEF R!Acted
  <2> QED BY <2>1, <2>2
<1>16. /\ approvedBy' \in [Runs \X Actions -> Tokens \cup {NoToken}]
       /\ \A ra \in Runs \X Actions : ra # <<r, a>> => approvedBy'[ra] = approvedBy[ra]
       /\ ~(<<r, a>> \in reviewed' /\ acts'[<<r, a>>] > 0)
  BY <1>1, <1>10, <1>15 DEF Base, TypeOK
<1>17. Len(steps[r]) \in {k, k + 1} /\ FALSE \in BOOLEAN
  BY <1>4
<1>18. ActsFor(q, r, a, result, k, FALSE)
  BY <1>4, <1>6, <1>8, <1>9, <1>10, <1>11, <1>12, <1>13, <1>14, <1>15, <1>16, <1>17 DEF ActsFor
<1> QED BY <1>17, <1>18, ActIInv

LEMMA ApproveIInv ==
  ASSUME IInv, R!IInv', NEW q \in Requests, NEW r \in Runs, NEW a \in Actions,
         NEW result \in R!Results, Approve(q, r, a, result)
  PROVE  IInv'
<1>1. Base /\ R!TypeOK /\ pending \subseteq reviewed
  BY DEF IInv, Base, R!IInv, Duty
<1>2. R!Approve(q, r, a, result)
  BY SameCalls DEF Approve
<1>3. req[q].at = "idle" /\ <<r, a>> \in pending /\ req[q].answer = "none"
  BY <1>1, <1>2 DEF R!Approve, Base, R!IInv, R!Idle
<1>4. /\ \A p \in Requests : ~R!Drives(p, r)
      /\ acts[<<r, a>>] = 0 /\ held[r].action = a /\ held[r].step = Len(steps[r])
      /\ Len(steps[r]) \in 1..MaxSteps /\ steps[r][Len(steps[r])].action = a
      /\ Len(history[r]) = Len(steps[r]) - 1
  BY <1>1, <1>3, R!ParkedFacts, Assumed DEF Base, R!Observed
<1>5. PICK k \in Nat : k = Len(history[r]) /\ k + 1 = Len(steps[r])
  BY <1>1, <1>4, Lengths
<1>6. /\ R!Refill(r, result) /\ R!Acted(r, a, result) /\ pending' \subseteq pending
      /\ UNCHANGED history \/ (result = "success" /\ R!Observe(r, result))
      /\ \/ \E status \in {"approval_required", "blocked", "failed"} : R!Answer(q, r, status)
         \/ R!LoopAt(q, r, held[r].step + 1)
  BY <1>2 DEF R!Approve, R!Unpark, R!ResumeStep
<1>7. /\ DOMAIN steps[r] = 1..(k + 1) /\ DOMAIN steps'[r] = 1..(k + 1)
      /\ \A i \in DOMAIN steps[r] : steps'[r][i].action = steps[r][i].action
      /\ steps'[r][k + 1].action = a /\ \A other \in Runs \ {r} : steps'[other] = steps[other]
  <2>1. /\ steps' \in [Runs -> Seq(R!AgentSteps)]
        /\ Len(steps'[r]) = Len(steps[r])
        /\ \A i \in 1..(Len(steps[r]) - 1) : steps'[r][i] = steps[r][i]
        /\ steps'[r][Len(steps[r])] = R!Filled(held[r].action, result)
        /\ \A other \in Runs \ {r} : steps'[other] = steps[other]
    BY <1>1, <1>4, <1>6, R!RefillFacts, Assumed
  <2>2. R!Filled(held[r].action, result).action = a
    BY <1>4 DEF R!Filled, R!Step
  <2>3. DOMAIN steps[r] = 1..(k + 1)
    BY <1>1, <1>5, Lengths
  <2>4. DOMAIN steps'[r] = 1..(k + 1)
    BY <1>5, <2>1
  <2>5. \A i \in 1..(k + 1) : i \in 1..k \/ i = k + 1
    OBVIOUS
  <2>6. \A i \in 1..k : steps'[r][i] = steps[r][i]
    BY <1>5, <2>1
  <2> QED BY <1>4, <1>5, <2>1, <2>2, <2>3, <2>4, <2>5, <2>6
<1>8. PICK token \in Tokens \cup {NoToken} :
        /\ Authorized("approval", token)
        /\ approvedBy' = [approvedBy EXCEPT ![<<r, a>>] = token]
  BY DEF Approve
<1>9. /\ approvedBy' \in [Runs \X Actions -> Tokens \cup {NoToken}]
      /\ approvedBy'[<<r, a>>] = tokens["approval"]
      /\ \A ra \in Runs \X Actions : ra # <<r, a>> => approvedBy'[ra] = approvedBy[ra]
      /\ tokens["approval"] \notin {NoToken, tokens["execution"]}
  <2>1. approvedBy \in [Runs \X Actions -> Tokens \cup {NoToken}]
    BY <1>1 DEF Base, TypeOK
  <2> QED BY <1>8, <2>1 DEF Authorized
<1>10. PICK may \in BOOLEAN : Yields(<<r, a>>, result, may)
  BY DEF Approve
<1>11. Leaves(<<r, a>>, result) /\ TellIfAnswered(q, r)
  BY DEF Approve
<1>12. Chosen(Earlier(r, k + 1), tool[<<r, a>>])
  BY <1>4, <1>5, <1>7, Assumed DEF IInv, RunInv, Stepped
<1>13. /\ req'[q].at # "controlling" /\ req'[q].run = r /\ req'[q].answer # "completed"
       /\ \A p \in Requests \ {q} : req'[p] = req[p]
  <2>1. held[r].step = k + 1 /\ k + 1 \in 1..MaxSteps
    BY <1>4, <1>5
  <2>2. MaxSteps \in Nat
    BY Assumed
  <2>3. k + 1 + 1 \in 1..(MaxSteps + 1)
    BY <2>1, <2>2
  <2>4. held[r].step + 1 \in 1..(MaxSteps + 1)
    BY <2>1, <2>3
  <2> QED BY <1>1, <1>3, <1>6, <2>4, Moves
<1>14. UNCHANGED history \/ (result \in {"success", "blocked", "error"} /\ R!Observe(r, result))
  BY <1>6
<1>15. \A p \in Requests \ {q} : req'[p] = req[p] /\ ~R!Drives(p, r)
  BY <1>4, <1>13
<1>16. pending' \subseteq pending \cup {<<r, a>>} /\ Len(steps[r]) \in {k, k + 1}
  BY <1>5, <1>6
<1>17. <<r, a>> \in reviewed' /\ acts'[<<r, a>>] > 0 =>
         /\ approvedBy'[<<r, a>>] = tokens["approval"]
         /\ tokens["approval"] \notin {NoToken, tokens["execution"]}
  BY <1>9
<1>18. k = Len(history[r]) /\ acts[<<r, a>>] = 0 /\ R!Acted(r, a, result)
  BY <1>4, <1>5, <1>6
<1>19. /\ approvedBy' \in [Runs \X Actions -> Tokens \cup {NoToken}]
       /\ \A ra \in Runs \X Actions : ra # <<r, a>> => approvedBy'[ra] = approvedBy[ra]
  BY <1>9
<1>20. ActsFor(q, r, a, result, k, may)
  BY <1>7, <1>11, <1>10, <1>12, <1>13, <1>14, <1>15, <1>16, <1>17, <1>18, <1>19 DEF ActsFor
<1> QED BY <1>20, ActIInv

-----------------------------------------------------------------------------
(* The inductive invariant *)

LEMMA InitIInv == Init => IInv
<1> SUFFICES ASSUME Init PROVE IInv
  OBVIOUS
<1>1. R!Init /\ Runner!TypeOK
  <2>1. R!Init
    BY OneRunner DEF Init
  <2>2. R!IInv
    BY <2>1, R!InitIInv, Assumed
  <2> QED BY <2>1, <2>2, OneRunner DEF R!IInv
<1>2. R!IInv
  BY <1>1, R!InitIInv, Assumed
<1>3. /\ \A r \in Runs : steps[r] = <<>> /\ history[r] = <<>> /\ output[r] = <<>>
      /\ \A q \in Requests : req[q].at = "idle" /\ req[q].answer = "none" /\ seen[q] = {}
      /\ pending = {} /\ reviewed = {}
  BY <1>1 DEF Init, R!Init
<1>4. TypeOK
  <2>1. output \in [Runs -> Seq(Outputs)] /\ \A r \in Runs : Len(output[r]) = Len(history[r])
    <3>1. <<>> \in Seq(Outputs) /\ output = [r \in Runs |-> <<>>]
      BY DEF Init
    <3> QED BY <1>3, <3>1
  <2> QED BY <1>1, <2>1 DEF Init, TypeOK
<1>5. Duty /\ ContentsHidden /\ Finished
  BY <1>3 DEF Init, Duty, ContentsHidden, Finished
<1>6. ASSUME NEW r \in Runs PROVE RunInv(r)
  <2>1. Aligned(r)
    BY <1>3 DEF Aligned
  <2>2. Told(r) /\ Stepped(r) /\ Called(r)
    BY <1>3 DEF Told, Stepped, Called
  <2> QED BY <2>1, <2>2 DEF RunInv
<1> QED BY <1>2, <1>4, <1>5, <1>6 DEF IInv, Base

\* Every step is one of the runner's.
LEMMA RunnerSteps == [Next]_vars => [R!Next]_(R!vars)
<1> SUFFICES ASSUME [Next]_vars PROVE [R!Next]_(R!vars)
  OBVIOUS
<1>1. ASSUME NEW q \in Requests, Unauthorized(q) PROVE R!Next
  <2>1. R!ApproveUnknown(q)
    BY <1>1, OneRunner DEF Unauthorized, R!ApproveUnknown
  <2> QED BY <2>1 DEF R!Next
<1>2. ASSUME NEW q \in Requests, TurnDown(q) PROVE R!Next
  <2>1. R!PlannerFinishes(q, "blocked") /\ "blocked" \in R!Finishes
    BY <1>2, SamePlans DEF TurnDown, R!Finishes
  <2> QED BY <2>1 DEF R!Next, R!Planner
<1>3. ASSUME NEW q \in Requests, Finish(q) PROVE R!Next
  <2>1. PICK status : status = Plan(req[q].run)
    OBVIOUS
  <2>2. status \in R!Finishes
    BY <1>3, <2>1 DEF Finish, Plan, Tools, R!Finishes
  <2>3. R!PlannerFinishes(q, status)
    BY <1>3, <2>1, SamePlans DEF Finish
  <2> QED BY <2>2, <2>3 DEF R!Next, R!Planner
<1>4. ASSUME NEW q \in Requests, NEW a \in Actions, Propose(q, a) PROVE R!Next
  <2>1. R!PlannerProposes(q, a) \/ R!PlannerExceedsBudget(q, a)
    BY <1>4, SamePlans DEF Propose
  <2> QED BY <2>1 DEF R!Next, R!Planner
<1>5. ASSUME NEW q \in Requests, NEW r \in Runs, Run(q, r) PROVE R!Next
  <2>1. R!Run(q, r)
    BY <1>5, SamePlans DEF Run
  <2> QED BY <2>1 DEF R!Next
<1>6. ASSUME NEW q \in Requests, ControlFails(q) PROVE R!Next
  <2>1. R!ControlFails(q)
    BY <1>6, SameCalls DEF ControlFails
  <2> QED BY <2>1 DEF R!Next, R!Chain
<1>7. ASSUME NEW q \in Requests, NEW result \in R!Results, Controlled(q, result) PROVE R!Next
  <2>1. R!Controlled(q, result)
    BY <1>7, SameCalls DEF Controlled
  <2> QED BY <2>1 DEF R!Next, R!Chain
<1>8. ASSUME NEW q \in Requests, NEW r \in Runs, NEW a \in Actions,
             ApproveRefused(q, r, a) \/ \E result \in R!Results : Approve(q, r, a, result)
      PROVE  R!Next
  <2>1. \/ R!ApproveRefused(q, r, a) \/ R!ApproveUnknown(q)
        \/ \E result \in R!Results : R!Approve(q, r, a, result)
    BY <1>8, SameCalls DEF ApproveRefused, Approve
  <2> QED BY <2>1 DEF R!Next
<1>9. CASE Interrupt
  <2>1. R!Restart \/ \E q \in Requests : R!Cancel(q)
    BY <1>9, SameInterrupts DEF Interrupt
  <2> QED BY <2>1 DEF R!Next
<1>10. CASE FilesChange \/ UNCHANGED vars
  BY <1>10 DEF FilesChange, vars, runner, R!vars
<1>11. Runner!Results = R!Results
  BY OneRunner
<1> QED BY <1>1, <1>2, <1>3, <1>4, <1>5, <1>6, <1>7, <1>8, <1>9, <1>10, <1>11 DEF Next

LEMMA NextIInv == IInv /\ [Next]_vars => IInv'
<1> SUFFICES ASSUME IInv, [Next]_vars PROVE IInv'
  OBVIOUS
<1>1. R!IInv'
  <2>1. R!IInv
    BY DEF IInv, Base
  <2> QED BY <2>1, RunnerSteps, R!NextIInv, Assumed
<1>2. CASE UNCHANGED vars
  BY <1>1, <1>2, StutterIInv
<1>3. ASSUME NEW q \in Requests, Unauthorized(q) \/ TurnDown(q) \/ Finish(q) \/ ControlFails(q)
      PROVE  IInv'
  BY <1>1, <1>3, UnauthorizedIInv, TurnDownIInv, FinishIInv, ControlFailsIInv
<1>4. ASSUME NEW q \in Requests, \E r \in Runs : Run(q, r) PROVE IInv'
  BY <1>1, <1>4, RunIInv
<1>5. ASSUME NEW q \in Requests, \E a \in Actions : Propose(q, a) PROVE IInv'
  BY <1>1, <1>5, ProposeIInv
<1>6. ASSUME NEW q \in Requests, \E result \in R!Results : Controlled(q, result) PROVE IInv'
  BY <1>1, <1>6, ControlledIInv
<1>7. ASSUME NEW q \in Requests, NEW r \in Runs, NEW a \in Actions,
             ApproveRefused(q, r, a) \/ \E result \in R!Results : Approve(q, r, a, result)
      PROVE  IInv'
  BY <1>1, <1>7, ApproveRefusedIInv, ApproveIInv
<1>8. CASE Interrupt \/ FilesChange
  BY <1>1, <1>8, InterruptIInv, FilesChangeIInv
<1>9. Runner!Results = R!Results
  BY OneRunner
<1> QED BY <1>2, <1>3, <1>4, <1>5, <1>6, <1>7, <1>8, <1>9 DEF Next

THEOREM Invariance == Spec => []IInv
BY InitIInv, NextIInv, PTL DEF Spec

-----------------------------------------------------------------------------
(* The properties *)

\* Behind its endpoints the runner does what AgentRunner says, so that all that
\* is proved of it there holds here: the demo planner, the files, the tokens and
\* the trace add nothing to its steps (composition.py:10-16).
THEOREM UsesRunner == Spec => R!Spec
<1>1. Init => R!Init
  BY OneRunner DEF Init
<1> QED BY <1>1, RunnerSteps, PTL DEF Spec, R!Spec

\* Behind the endpoints, too, each action is one control call, and the trace of a run
\* says of each of its actions whether it was executed: at most once, and never for a
\* step that was denied, failed to be decided, or still waits (runner.py:92-123, 150).
THEOREM ActionsAreControlled == Spec => R!ImplementsControlledCall /\ []R!ActsAsTold
<1>1. R!Spec => R!ImplementsControlledCall /\ []R!ActsAsTold
  BY R!Refinement, R!TracesAreTrue, Assumed, PTL
<1> QED BY <1>1, UsesRunner, PTL

\* Type correctness: tokens, files, tools, outputs and answers keep their types,
\* and there is one output for each observation.
THEOREM TypeCorrect == Spec => []TypeOK
<1>1. IInv => TypeOK
  BY DEF IInv, Base
<1> QED BY <1>1, Invariance, PTL

\* A run reported as completed has read text and saved a summary after it, each
\* once (demo.py:31-48).
THEOREM CompletedIsSaved == Spec => []CompletedMeansSaved
<1>1. IInv => CompletedMeansSaved
  BY DEF IInv, Finished, Saved, CompletedMeansSaved
<1> QED BY <1>1, Invariance, PTL

\* No answer shows what was read or is to be written (control/models.py:138-152).
THEOREM ContentsStayHidden == Spec => []ContentsHidden
<1>1. IInv => ContentsHidden
  BY DEF IInv
<1> QED BY <1>1, Invariance, PTL

\* Whoever started a run has not approved its reviewed actions (auth.py:13-31).
THEOREM DutiesAreSeparate == Spec => []SeparateDuties
<1>1. IInv => SeparateDuties
  <2>1. SUFFICES ASSUME IInv, NEW ra \in reviewed, acts[ra] > 0
                 PROVE  approvedBy[ra] \notin {NoToken, startedBy[ra[1]]}
    BY DEF SeparateDuties
  <2>2. ra[1] \in Runs
    BY <2>1 DEF IInv, Base, TypeOK
  <2> QED BY <2>1, <2>2 DEF IInv, Duty
<1> QED BY <1>1, Invariance, PTL
================================================================================
