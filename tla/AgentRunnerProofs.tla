--------------------------- MODULE AgentRunnerProofs ---------------------------
(***************************************************************************)
(* Theorems about AgentRunner, for every set of requests, runs and actions *)
(* and every step budget.                                                  *)
(***************************************************************************)
EXTENDS AgentRunner, FiniteSetTheorems, SequenceTheorems, WellFoundedInduction, TLAPS

-----------------------------------------------------------------------------
(* The inductive invariant.  A run is untouched, driven by one request, parked *)
(* on one action, or over; each part below says what its state then is.        *)

Idle ==
  \A q \in Requests :
    /\ req[q].at = "idle" => req[q].run = NoRun
    /\ req[q].at # "answered" => req[q].answer = "none"
    /\ req[q].at \in Active => req[q].run \in Runs

\* No request has this run: it does not exist yet.
Untouched(r) ==
  (\A q \in Requests : req[q].run # r) =>
    /\ steps[r] = <<>> /\ history[r] = <<>>
    /\ \A a \in Actions : <<r, a>> \notin pending /\ acts[<<r, a>>] = 0

\* At most one request drives the run, or one action of it is parked.
Exclusive(r) ==
  /\ \A p, q \in Requests : Drives(p, r) /\ Drives(q, r) => p = q
  /\ \A a, b \in Actions : <<r, a>> \in pending /\ <<r, b>> \in pending => a = b
  /\ \A q \in Requests, a \in Actions : ~(Drives(q, r) /\ <<r, a>> \in pending)

Over(r) ==
  Ended(r) => /\ \A q \in Requests : ~Drives(q, r)
              /\ \A a \in Actions : <<r, a>> \notin pending

\* The planner has been given the observations of the first n steps.
Observed(r, n) ==
  /\ Len(history[r]) = n
  /\ \A i \in 1..n : history[r][i] = steps[r][i].observation

Driven(r) ==
  \A q \in Requests : Drives(q, r) =>
    /\ Len(steps[r]) + 1 = req[q].step
    /\ Observed(r, Len(steps[r]))
    /\ req[q].at # "last planning" => req[q].step <= MaxSteps
    /\ req[q].at = "controlling" => req[q].action \in Actions /\ ~Reused(r, req[q].action)

Waits(r) ==
  \A a \in Actions : <<r, a>> \in pending =>
    /\ acts[<<r, a>>] = 0
    /\ held[r].action = a
    /\ Len(steps[r]) > 0 /\ held[r].step = Len(steps[r]) /\ steps[r][Len(steps[r])].action = a
    /\ Observed(r, Len(steps[r]) - 1)

\* What acted is the action of a step within the budget, and acted once.
Budget(r) ==
  /\ Len(steps[r]) <= MaxSteps + 1
  /\ \A a \in Actions :
       /\ acts[<<r, a>>] <= 1
       /\ acts[<<r, a>>] > 0 => \E i \in DOMAIN steps[r] : i <= MaxSteps /\ steps[r][i].action = a

RunInv(r) == Untouched(r) /\ Exclusive(r) /\ Over(r) /\ Driven(r) /\ Waits(r) /\ Budget(r)
IInv == TypeOK /\ Idle /\ \A r \in Runs : RunInv(r)

-----------------------------------------------------------------------------
(* What the building blocks do to the state *)

LEMMA Typed ==
  ASSUME TypeOK
  PROVE  /\ req \in [Requests -> RequestStates]
         /\ steps \in [Runs -> Seq(AgentSteps)]
         /\ history \in [Runs -> Seq({"success", "blocked", "error"})]
         /\ pending \subseteq Runs \X Actions
         /\ held \in [Runs -> Reviews]
         /\ acts \in [Runs \X Actions -> Nat]
         /\ MaxSteps \in Nat /\ MaxSteps > 0
BY MaxStepsAssumption DEF TypeOK

\* The request moves to a run and no other request moves.
Touches(q, r) ==
  /\ req[q].run \in {r, NoRun} /\ req'[q].run \in {r, NoRun}
  /\ \A other \in Requests \ {q} : req'[other] = req[other]
  /\ \A s \in Runs \ {r} :
       /\ steps'[s] = steps[s] /\ history'[s] = history[s] /\ held'[s] = held[s]
       /\ \A a \in Actions : /\ <<s, a>> \in pending' <=> <<s, a>> \in pending
                             /\ acts'[<<s, a>>] = acts[<<s, a>>]

LEMMA AnswerFacts ==
  ASSUME TypeOK, NEW q \in Requests, NEW r \in Runs \cup {NoRun},
         NEW status \in Finishes \cup {"approval_required", "refused", "cancelled"},
         Answer(q, r, status)
  PROVE  /\ req' \in [Requests -> RequestStates]
         /\ req'[q].at = "answered" /\ req'[q].run = r /\ req'[q].answer = status
         /\ \A other \in Requests \ {q} : req'[other] = req[other]
<1>1. req \in [Requests -> RequestStates]
  BY Typed
<1>2. req' = [req EXCEPT ![q] = [req[q] EXCEPT !.at = "answered", !.run = r, !.answer = status]]
  BY <1>1 DEF Answer, RequestStates
<1>3. [req[q] EXCEPT !.at = "answered", !.run = r, !.answer = status] \in RequestStates
  BY <1>1 DEF RequestStates
<1> QED BY <1>1, <1>2, <1>3 DEF RequestStates

LEMMA LoopAtFacts ==
  ASSUME TypeOK, NEW q \in Requests, NEW r \in Runs, NEW n \in 1..(MaxSteps + 1), LoopAt(q, r, n)
  PROVE  /\ req' \in [Requests -> RequestStates]
         /\ req'[q].at = IF n <= MaxSteps THEN "planning" ELSE "last planning"
         /\ req'[q].run = r /\ req'[q].step = n /\ req'[q].answer = req[q].answer
         /\ \A other \in Requests \ {q} : req'[other] = req[other]
<1> DEFINE place == IF n <= MaxSteps THEN "planning" ELSE "last planning"
<1>1. req \in [Requests -> RequestStates] /\ MaxSteps \in Nat
  BY Typed
<1>2. req' = [req EXCEPT ![q] = [req[q] EXCEPT !.run = r, !.step = n, !.at = place]]
  BY <1>1 DEF LoopAt, RequestStates
<1>3. place \in Active
  BY DEF Active, Planning
<1> HIDE DEF place
<1>4. [req[q] EXCEPT !.run = r, !.step = n, !.at = place] \in RequestStates
  <2>1. /\ req[q] \in RequestStates /\ n \in 0..(MaxSteps + 1)
        /\ place \in {"idle", "answered"} \cup Active /\ r \in Runs \cup {NoRun}
    BY <1>1, <1>3
  <2> QED BY <2>1 DEF RequestStates
<1>5. /\ req' \in [Requests -> RequestStates]
      /\ req'[q].at = place
      /\ req'[q].run = r /\ req'[q].step = n /\ req'[q].answer = req[q].answer
      /\ \A other \in Requests \ {q} : req'[other] = req[other]
  <2>1. req' = [req EXCEPT ![q] = [req[q] EXCEPT !.run = r, !.step = n, !.at = place]]
    BY <1>2
  <2>2. req'[q] = [req[q] EXCEPT !.run = r, !.step = n, !.at = place]
    BY <1>1, <2>1
  <2> QED BY <1>1, <1>4, <2>1, <2>2 DEF RequestStates
<1> QED BY <1>5 DEF place

\* A step added to a run: its earlier steps stay.
LEMMA AddStepFacts ==
  ASSUME TypeOK, NEW r \in Runs, NEW s \in AgentSteps, AddStep(r, s)
  PROVE  /\ steps' \in [Runs -> Seq(AgentSteps)]
         /\ Len(steps'[r]) = Len(steps[r]) + 1
         /\ \A i \in 1..Len(steps[r]) : steps'[r][i] = steps[r][i]
         /\ steps'[r][Len(steps[r]) + 1] = s
         /\ \A other \in Runs \ {r} : steps'[other] = steps[other]
<1>1. steps \in [Runs -> Seq(AgentSteps)]
  BY Typed
<1>2. steps' = [steps EXCEPT ![r] = Append(steps[r], s)]
  BY DEF AddStep
<1>3. steps[r] \in Seq(AgentSteps) /\ steps'[r] = Append(steps[r], s)
  BY <1>1, <1>2
<1>4. /\ Append(steps[r], s) \in Seq(AgentSteps)
      /\ Len(Append(steps[r], s)) = Len(steps[r]) + 1
      /\ \A i \in 1..Len(steps[r]) : Append(steps[r], s)[i] = steps[r][i]
      /\ Append(steps[r], s)[Len(steps[r]) + 1] = s
  BY <1>3
<1> QED BY <1>1, <1>2, <1>3, <1>4

LEMMA ObserveFacts ==
  ASSUME TypeOK, NEW r \in Runs, NEW o \in {"success", "blocked", "error"}, Observe(r, o)
  PROVE  /\ history' \in [Runs -> Seq({"success", "blocked", "error"})]
         /\ Len(history'[r]) = Len(history[r]) + 1
         /\ \A i \in 1..Len(history[r]) : history'[r][i] = history[r][i]
         /\ history'[r][Len(history[r]) + 1] = o
         /\ \A other \in Runs \ {r} : history'[other] = history[other]
<1> DEFINE S == {"success", "blocked", "error"}
<1>1. history \in [Runs -> Seq(S)]
  BY Typed
<1>2. history' = [history EXCEPT ![r] = Append(history[r], o)] /\ o \in S
  BY DEF Observe
<1> HIDE DEF S
<1>3. history[r] \in Seq(S) /\ history'[r] = Append(history[r], o)
  BY <1>1, <1>2
<1>4. /\ Append(history[r], o) \in Seq(S)
      /\ Len(Append(history[r], o)) = Len(history[r]) + 1
      /\ \A i \in 1..Len(history[r]) : Append(history[r], o)[i] = history[r][i]
      /\ Append(history[r], o)[Len(history[r]) + 1] = o
  BY <1>2, <1>3
<1>5. /\ history' \in [Runs -> Seq(S)]
      /\ \A other \in Runs \ {r} : history'[other] = history[other]
  BY <1>1, <1>2, <1>4
<1> QED BY <1>3, <1>4, <1>5 DEF S

\* The step of a reviewed action is filled in again, for the same action.
LEMMA RefillFacts ==
  ASSUME TypeOK, NEW r \in Runs, NEW result \in Results, Len(steps[r]) > 0, Refill(r, result)
  PROVE  /\ steps' \in [Runs -> Seq(AgentSteps)]
         /\ Len(steps'[r]) = Len(steps[r])
         /\ \A i \in 1..(Len(steps[r]) - 1) : steps'[r][i] = steps[r][i]
         /\ steps'[r][Len(steps[r])] = Filled(held[r].action, result)
         /\ \A other \in Runs \ {r} : steps'[other] = steps[other]
<1> DEFINE n == Len(steps[r])
           s == Filled(held[r].action, result)
<1>1. steps \in [Runs -> Seq(AgentSteps)] /\ held[r] \in Reviews
  BY Typed
<1>2. s \in AgentSteps
  BY <1>1 DEF Filled, Step, AgentSteps, Results, Reviews
<1>3. steps[r] \in Seq(AgentSteps) /\ n \in 1..Len(steps[r]) /\ n \in Nat
  BY <1>1
<1>4. steps' = [steps EXCEPT ![r] = [steps[r] EXCEPT ![n] = s]]
  BY DEF Refill
<1> HIDE DEF n, s
<1>5. /\ [steps[r] EXCEPT ![n] = s] \in Seq(AgentSteps)
      /\ Len([steps[r] EXCEPT ![n] = s]) = Len(steps[r])
      /\ \A j \in 1..Len(steps[r]) : [steps[r] EXCEPT ![n] = s][j] = IF j = n THEN s ELSE steps[r][j]
  BY <1>2, <1>3, ExceptSeq
<1>6. steps'[r] = [steps[r] EXCEPT ![n] = s] /\ \A other \in Runs \ {r} : steps'[other] = steps[other]
  BY <1>1, <1>4
<1>7. steps' \in [Runs -> Seq(AgentSteps)]
  BY <1>1, <1>4, <1>5
<1>8. n = Len(steps[r])
  BY DEF n
<1> QED BY <1>3, <1>5, <1>6, <1>7, <1>8 DEF s

-----------------------------------------------------------------------------
(* How the invariant of a run is kept *)

\* A run that the step does not concern stays as it is.
LEMMA Frame ==
  ASSUME IInv, NEW q \in Requests, NEW r, Touches(q, r), NEW s \in Runs \ {r}
  PROVE  RunInv(s)'
<1>0. RunInv(s) /\ s # NoRun
  BY NoRunAssumption DEF IInv
<1>1. \A p \in Requests : (req'[p].run = s <=> req[p].run = s) /\ (req[p].run = s => req'[p] = req[p])
  BY <1>0 DEF Touches
<1>2. \A p \in Requests : Drives(p, s)' <=> Drives(p, s)
  BY <1>1 DEF Drives
<1>3. Ended(s)' <=> Ended(s)
  BY <1>1 DEF Ended
<1>4. /\ steps'[s] = steps[s] /\ history'[s] = history[s] /\ held'[s] = held[s]
      /\ \A a \in Actions : /\ <<s, a>> \in pending' <=> <<s, a>> \in pending
                            /\ acts'[<<s, a>>] = acts[<<s, a>>]
  BY DEF Touches
<1>5. Untouched(s)' /\ Exclusive(s)' /\ Over(s)'
  BY <1>0, <1>1, <1>2, <1>3, <1>4 DEF RunInv, Untouched, Exclusive, Over
<1>6. Driven(s)'
  <2>1. \A p \in Requests : Drives(p, s) => req'[p] = req[p]
    BY <1>1 DEF Drives
  <2> QED BY <1>0, <1>2, <1>4, <2>1 DEF RunInv, Driven, Observed, Reused
<1>7. Waits(s)' /\ Budget(s)'
  BY <1>0, <1>4 DEF RunInv, Waits, Observed, Budget
<1> QED BY <1>5, <1>6, <1>7 DEF RunInv

\* Nobody drives the run any more and nothing of it is parked.
LEMMA Quiet ==
  ASSUME NEW r \in Runs, NEW q \in Requests, req'[q].run = r,
         \A p \in Requests : ~Drives(p, r)', \A a \in Actions : <<r, a>> \notin pending',
         Budget(r)'
  PROVE  RunInv(r)'
BY DEF RunInv, Untouched, Exclusive, Over, Driven, Waits

\* One request drives the run, and has shown its planner what happened so far.
LEMMA Goes ==
  ASSUME NEW r \in Runs, NEW q \in Requests, req'[q].run = r,
         \A p \in Requests : Drives(p, r)' => p = q,
         \A a \in Actions : <<r, a>> \notin pending',
         ~Ended(r)',
         Len(steps'[r]) + 1 = req'[q].step, Observed(r, Len(steps[r]))',
         req'[q].at # "last planning" => req'[q].step <= MaxSteps,
         req'[q].at = "controlling" => req'[q].action \in Actions /\ ~Reused(r, req[q].action)',
         Budget(r)'
  PROVE  RunInv(r)'
BY DEF RunInv, Untouched, Exclusive, Over, Driven, Waits

\* The run is parked on one action.
LEMMA Parks ==
  ASSUME NEW r \in Runs, NEW q \in Requests, req'[q].run = r,
         \A p \in Requests : ~Drives(p, r)', ~Ended(r)',
         NEW a \in Actions, \A b \in Actions : <<r, b>> \in pending' => b = a,
         acts'[<<r, a>>] = 0, held'[r].action = a,
         Len(steps'[r]) > 0, held'[r].step = Len(steps'[r]), steps'[r][Len(steps'[r])].action = a,
         Observed(r, Len(steps[r]) - 1)',
         Budget(r)'
  PROVE  RunInv(r)'
BY DEF RunInv, Untouched, Exclusive, Over, Driven, Waits

\* A request that is at work drives a run, alone, and nothing of it is parked.
LEMMA ActiveFacts ==
  ASSUME IInv, NEW q \in Requests, req[q].at \in Active
  PROVE  LET r == req[q].run
         IN /\ r \in Runs /\ Drives(q, r) /\ RunInv(r) /\ ~Ended(r) /\ req[q].answer = "none"
            /\ \A p \in Requests : Drives(p, r) => p = q
            /\ \A a \in Actions : <<r, a>> \notin pending
            /\ Len(steps[r]) \in Nat /\ Len(steps[r]) + 1 = req[q].step
            /\ req[q].step \in 1..(MaxSteps + 1)
<1> DEFINE r == req[q].run
<1>1. r \in Runs /\ Drives(q, r) /\ RunInv(r)
  BY DEF IInv, Idle, Drives
<1>2. req[q].answer = "none"
  BY DEF IInv, Idle, Active, Planning
<1>3. /\ ~Ended(r) /\ \A p \in Requests : Drives(p, r) => p = q
      /\ \A a \in Actions : <<r, a>> \notin pending
      /\ Len(steps[r]) + 1 = req[q].step
  BY <1>1 DEF RunInv, Over, Exclusive, Driven
<1>4. /\ steps \in [Runs -> Seq(AgentSteps)] /\ req \in [Requests -> RequestStates]
      /\ MaxSteps \in Nat
  BY Typed DEF IInv
<1>5. Len(steps[r]) \in Nat /\ req[q].step \in 0..(MaxSteps + 1)
  BY <1>1, <1>4 DEF RequestStates
<1> QED BY <1>1, <1>2, <1>3, <1>4, <1>5

\* An action that awaits approval belongs to a run nobody drives.
LEMMA ParkedFacts ==
  ASSUME IInv, NEW r \in Runs, NEW a \in Actions, <<r, a>> \in pending
  PROVE  /\ RunInv(r) /\ ~Ended(r)
         /\ \A p \in Requests : ~Drives(p, r)
         /\ \A b \in Actions : <<r, b>> \in pending => b = a
         /\ acts[<<r, a>>] = 0 /\ held[r].action = a
         /\ Len(steps[r]) > 0 /\ held[r].step = Len(steps[r])
         /\ steps[r][Len(steps[r])].action = a
         /\ Observed(r, Len(steps[r]) - 1)
         /\ Len(steps[r]) \in Nat /\ Len(steps[r]) \in 1..MaxSteps
<1>1. RunInv(r)
  BY DEF IInv
<1>2. /\ steps \in [Runs -> Seq(AgentSteps)] /\ held[r] \in Reviews /\ MaxSteps \in Nat
  BY Typed DEF IInv
<1>3. Len(steps[r]) \in Nat /\ held[r].step \in 0..MaxSteps
  BY <1>2 DEF Reviews
<1> QED BY <1>1, <1>2, <1>3 DEF RunInv, Over, Exclusive, Waits

LEMMA Assemble ==
  ASSUME IInv, NEW q \in Requests, NEW r, Touches(q, r), TypeOK', Idle',
         r \in Runs => RunInv(r)'
  PROVE  IInv'
BY Frame DEF IInv

-----------------------------------------------------------------------------
(* Parts of the invariant that every action keeps in the same way *)

LEMMA IdleKept ==
  ASSUME IInv, NEW q \in Requests, \A p \in Requests \ {q} : req'[p] = req[p],
         req'[q].at # "idle", req'[q].at # "answered" => req'[q].answer = "none",
         req'[q].at \in Active => req'[q].run \in Runs
  PROVE  Idle'
BY DEF IInv, Idle

LEMMA ActedFacts ==
  ASSUME TypeOK, NEW r \in Runs, NEW a \in Actions, NEW result \in Results,
         Acted(r, a, result), acts[<<r, a>>] = 0
  PROVE  /\ acts' \in [Runs \X Actions -> Nat]
         /\ acts'[<<r, a>>] \in {0, 1}
         /\ result \in {"blocked", "review"} => acts' = acts
         /\ \A s \in Runs, b \in Actions : s # r \/ b # a => acts'[<<s, b>>] = acts[<<s, b>>]
<1>1. acts \in [Runs \X Actions -> Nat] /\ <<r, a>> \in Runs \X Actions
  BY Typed
<1>2. CASE UNCHANGED acts
  BY <1>1, <1>2
<1>3. CASE result \in {"success", "error"} /\ acts' = [acts EXCEPT ![<<r, a>>] = @ + 1]
  BY <1>1, <1>3
<1> QED BY <1>2, <1>3 DEF Acted

\* A step added within the budget may have acted; one added after it may not.
LEMMA BudgetAdd ==
  ASSUME IInv, NEW r \in Runs, NEW s \in AgentSteps, AddStep(r, s), Len(steps[r]) <= MaxSteps,
         \A a \in Actions :
           \/ acts'[<<r, a>>] = acts[<<r, a>>]
           \/ Len(steps[r]) < MaxSteps /\ s.action = a /\ acts'[<<r, a>>] \in {0, 1}
  PROVE  Budget(r)'
<1>0. Budget(r) /\ MaxSteps \in Nat /\ steps[r] \in Seq(AgentSteps) /\ Len(steps[r]) \in Nat
  BY Typed DEF IInv, RunInv
<1>1. /\ steps' \in [Runs -> Seq(AgentSteps)]
      /\ Len(steps'[r]) = Len(steps[r]) + 1
      /\ \A i \in 1..Len(steps[r]) : steps'[r][i] = steps[r][i]
      /\ steps'[r][Len(steps[r]) + 1] = s
  BY AddStepFacts DEF IInv
<1>2. DOMAIN steps[r] = 1..Len(steps[r]) /\ DOMAIN steps'[r] = 1..(Len(steps[r]) + 1)
  BY <1>0, <1>1
<1>3. Len(steps'[r]) <= MaxSteps + 1
  BY <1>0, <1>1
<1>4. ASSUME NEW a \in Actions
      PROVE  /\ acts'[<<r, a>>] <= 1
             /\ acts'[<<r, a>>] > 0 =>
                  \E i \in DOMAIN steps'[r] : i <= MaxSteps /\ steps'[r][i].action = a
  <2>1. CASE acts'[<<r, a>>] = acts[<<r, a>>]
    BY <1>0, <1>1, <1>2, <2>1 DEF Budget
  <2>2. CASE Len(steps[r]) < MaxSteps /\ s.action = a /\ acts'[<<r, a>>] \in {0, 1}
    <3>1. Len(steps[r]) + 1 \in DOMAIN steps'[r] /\ Len(steps[r]) + 1 <= MaxSteps
      BY <1>0, <1>2, <2>2
    <3> QED BY <1>1, <2>2, <3>1
  <2> QED BY <2>1, <2>2
<1> QED BY <1>3, <1>4 DEF Budget

\* The approved step is filled in again: only its action may have acted.
LEMMA BudgetRefill ==
  ASSUME IInv, NEW r \in Runs, NEW a \in Actions, <<r, a>> \in pending,
         NEW result \in Results, Refill(r, result), acts'[<<r, a>>] \in {0, 1},
         \A b \in Actions \ {a} : acts'[<<r, b>>] = acts[<<r, b>>]
  PROVE  Budget(r)'
<1> DEFINE n == Len(steps[r])
<1>0. /\ Budget(r) /\ MaxSteps \in Nat /\ steps[r] \in Seq(AgentSteps)
      /\ n \in 1..MaxSteps /\ held[r].action = a /\ acts[<<r, a>>] = 0 /\ steps[r][n].action = a
  BY Typed, ParkedFacts DEF IInv, RunInv
<1>1. /\ steps' \in [Runs -> Seq(AgentSteps)]
      /\ Len(steps'[r]) = n
      /\ \A i \in 1..(n - 1) : steps'[r][i] = steps[r][i]
      /\ steps'[r][n] = Filled(a, result)
  BY <1>0, RefillFacts DEF IInv
<1>2. DOMAIN steps[r] = 1..n /\ DOMAIN steps'[r] = 1..n
  BY <1>0, <1>1
<1>3. Filled(a, result).action = a
  BY DEF Filled, Step
<1>4. Len(steps'[r]) <= MaxSteps + 1
  BY <1>0, <1>1
<1> HIDE DEF n
<1>5. \A i \in 1..n : steps'[r][i].action = steps[r][i].action
  BY <1>0, <1>1, <1>3
<1>6. ASSUME NEW b \in Actions
      PROVE  /\ acts'[<<r, b>>] <= 1
             /\ acts'[<<r, b>>] > 0 =>
                  \E i \in DOMAIN steps'[r] : i <= MaxSteps /\ steps'[r][i].action = b
  <2>1. CASE b = a
    BY <1>0, <1>2, <1>5, <2>1
  <2>2. CASE b # a
    BY <1>0, <1>2, <1>5, <2>2 DEF Budget
  <2> QED BY <2>1, <2>2
<1> QED BY <1>4, <1>6 DEF Budget

\* The request that drove the run, or that took its only parked action, is
\* answered: nobody drives it.
LEMMA NobodyDrives ==
  ASSUME NEW q \in Requests, NEW r, \A p \in Requests : Drives(p, r) => p = q,
         req'[q].at = "answered", \A p \in Requests \ {q} : req'[p] = req[p]
  PROVE  \A p \in Requests : ~Drives(p, r)'
BY DEF Drives, Active, Planning

\* The run is not over as long as no request got its end as an answer.
LEMMA NotOver ==
  ASSUME NEW q \in Requests, NEW r, ~Ended(r), req'[q].answer \notin Finishes,
         \A p \in Requests \ {q} : req'[p] = req[p]
  PROVE  ~Ended(r)'
BY DEF Ended

-----------------------------------------------------------------------------
(* The actions *)

LEMMA InitIInv == Init => IInv
<1> SUFFICES ASSUME Init PROVE IInv
  OBVIOUS
<1>1. TypeOK
  <2>1. [at |-> "idle", run |-> NoRun, step |-> 0, action |-> NoAction, answer |-> "none"] \in RequestStates
    BY MaxStepsAssumption DEF RequestStates
  <2>2. [action |-> NoAction, step |-> 0, policy |-> "none"] \in Reviews
    BY MaxStepsAssumption DEF Reviews
  <2> QED BY <2>1, <2>2 DEF Init, TypeOK
<1>2. \A q \in Requests : req[q].at = "idle" /\ req[q].run = NoRun /\ req[q].answer = "none"
  BY DEF Init
<1>3. Idle
  BY <1>2 DEF Idle, Active, Planning
<1>4. ASSUME NEW r \in Runs PROVE RunInv(r)
  <2>1. /\ steps[r] = <<>> /\ history[r] = <<>> /\ pending = {}
        /\ \A a \in Actions : acts[<<r, a>>] = 0
    BY DEF Init
  <2>2. \A q \in Requests : ~Drives(q, r)
    BY <1>2 DEF Drives, Active, Planning
  <2>3. ~Ended(r)
    BY <1>2 DEF Ended, Finishes
  <2>4. Budget(r)
    BY <2>1, MaxStepsAssumption DEF Budget
  <2> QED BY <2>1, <2>2, <2>3, <2>4
    DEF RunInv, Untouched, Exclusive, Over, Driven, Waits
<1> QED BY <1>1, <1>3, <1>4 DEF IInv

LEMMA RunIInv ==
  ASSUME IInv, NEW q \in Requests, NEW r \in Runs, Run(q, r)
  PROVE  IInv'
<1>0. /\ TypeOK /\ MaxSteps \in Nat /\ MaxSteps > 0 /\ 1 \in 1..(MaxSteps + 1) /\ LoopAt(q, r, 1)
      /\ req[q].at = "idle" /\ req[q].run = NoRun /\ req[q].answer = "none"
      /\ \A p \in Requests : req[p].run # r
      /\ UNCHANGED <<steps, history, pending, held, acts>>
  BY Typed DEF Run, IInv, Idle
<1>1. /\ req' \in [Requests -> RequestStates]
      /\ req'[q].at = "planning"
      /\ req'[q].run = r /\ req'[q].step = 1 /\ req'[q].answer = "none"
      /\ \A other \in Requests \ {q} : req'[other] = req[other]
  <2>1. /\ req'[q].at = IF 1 <= MaxSteps THEN "planning" ELSE "last planning"
        /\ req'[q].answer = req[q].answer
        /\ req' \in [Requests -> RequestStates] /\ req'[q].run = r /\ req'[q].step = 1
        /\ \A other \in Requests \ {q} : req'[other] = req[other]
    BY <1>0, LoopAtFacts
  <2>2. 1 <= MaxSteps
    BY <1>0
  <2> QED BY <1>0, <2>1, <2>2
<1>2. Touches(q, r)
  BY <1>0, <1>1 DEF Touches
<1>3. TypeOK' /\ Idle'
  BY <1>0, <1>1, IdleKept DEF TypeOK
<1>4. /\ steps[r] = <<>> /\ history[r] = <<>>
      /\ \A a \in Actions : <<r, a>> \notin pending /\ acts[<<r, a>>] = 0
  BY <1>0 DEF IInv, RunInv, Untouched
<1>5. ~Ended(r)' /\ \A p \in Requests : Drives(p, r)' => p = q
  BY <1>0, <1>1 DEF Ended, Drives, Finishes
<1>6. Observed(r, Len(steps[r]))' /\ Len(steps'[r]) = 0
  BY <1>0, <1>4 DEF Observed
<1>7. Budget(r)'
  BY <1>0, <1>4, <1>6 DEF Budget
<1>8. RunInv(r)'
  <2>1. Len(steps'[r]) + 1 = req'[q].step /\ req'[q].step <= MaxSteps /\ req'[q].at # "controlling"
    BY <1>0, <1>1, <1>6
  <2>2. \A a \in Actions : <<r, a>> \notin pending'
    BY <1>0, <1>4
  <2> QED BY <1>1, <1>5, <1>6, <1>7, <2>1, <2>2, Goes
<1> QED BY <1>2, <1>3, <1>8, Assemble

\* The run ends with a last step: the planner failed, finished, repeated an
\* action or went beyond the budget, or the chain raised.
LEMMA EndsIInv ==
  ASSUME IInv, NEW q \in Requests, req[q].at \in Active,
         NEW s \in AgentSteps, AddStep(req[q].run, s),
         NEW status \in Finishes, Answer(q, req[q].run, status),
         UNCHANGED <<history, pending, held, acts>>
  PROVE  IInv'
<1> PICK r \in Runs : req[q].run = r
  BY ActiveFacts DEF Cancel, PlannerProposes, Active, Planning
<1>0. /\ TypeOK /\ r \in Runs /\ RunInv(r) /\ MaxSteps \in Nat
      /\ \A p \in Requests : Drives(p, r) => p = q
      /\ \A a \in Actions : <<r, a>> \notin pending
      /\ Len(steps[r]) <= MaxSteps
  BY ActiveFacts, Typed DEF IInv
<1>1. /\ req' \in [Requests -> RequestStates]
      /\ req'[q].at = "answered" /\ req'[q].run = r
      /\ \A other \in Requests \ {q} : req'[other] = req[other]
  BY <1>0, AnswerFacts
<1>2. /\ steps' \in [Runs -> Seq(AgentSteps)]
      /\ \A other \in Runs \ {r} : steps'[other] = steps[other]
  BY <1>0, AddStepFacts
<1>3. Touches(q, r)
  BY <1>1, <1>2 DEF Touches
<1>4. TypeOK' /\ Idle'
  BY <1>0, <1>1, <1>2, IdleKept DEF TypeOK, Active, Planning
<1>5. Budget(r)'
  BY <1>0, BudgetAdd
<1>6. RunInv(r)'
  <2>1. \A p \in Requests : ~Drives(p, r)'
    BY <1>0, <1>1, NobodyDrives
  <2> QED BY <1>0, <1>1, <1>5, <2>1, Quiet
<1> QED BY <1>0, <1>3, <1>4, <1>6, Assemble

\* A request stops working on its run, which stays as it is for ever.
LEMMA CancelIInv ==
  ASSUME IInv, NEW q \in Requests, Cancel(q)
  PROVE  IInv'
<1> PICK r \in Runs : req[q].run = r
  BY ActiveFacts DEF Cancel, PlannerProposes, Active, Planning
<1>0. /\ TypeOK /\ r \in Runs /\ RunInv(r) /\ req[q].at \in Active
      /\ \A p \in Requests : Drives(p, r) => p = q
      /\ \A a \in Actions : <<r, a>> \notin pending
      /\ Answer(q, r, "cancelled") /\ UNCHANGED <<steps, history, pending, held, acts>>
  BY ActiveFacts DEF IInv, Cancel
<1>1. /\ req' \in [Requests -> RequestStates]
      /\ req'[q].at = "answered" /\ req'[q].run = r
      /\ \A other \in Requests \ {q} : req'[other] = req[other]
  BY <1>0, AnswerFacts
<1>2. Touches(q, r)
  BY <1>0, <1>1 DEF Touches
<1>3. TypeOK' /\ Idle'
  BY <1>0, <1>1, IdleKept DEF TypeOK, Active, Planning
<1>4. RunInv(r)'
  <2>1. \A p \in Requests : ~Drives(p, r)'
    BY <1>0, <1>1, NobodyDrives
  <2>2. Budget(r)'
    BY <1>0 DEF RunInv, Budget
  <2> QED BY <1>0, <1>1, <2>1, <2>2, Quiet
<1> QED BY <1>0, <1>2, <1>3, <1>4, Assemble

LEMMA ProposesIInv ==
  ASSUME IInv, NEW q \in Requests, NEW a \in Actions, PlannerProposes(q, a)
  PROVE  IInv'
<1> PICK r \in Runs : req[q].run = r
  BY ActiveFacts DEF Cancel, PlannerProposes, Active, Planning
<1>0. /\ req[q].at = "planning" /\ req[q].at \in Active /\ ~Reused(r, a)
      /\ req' = [req EXCEPT ![q].at = "controlling", ![q].action = a]
      /\ UNCHANGED <<steps, history, pending, held, acts>>
  BY DEF PlannerProposes, Active, Planning
<1>1. /\ TypeOK /\ r \in Runs /\ Drives(q, r) /\ RunInv(r) /\ ~Ended(r) /\ req[q].answer = "none"
      /\ \A p \in Requests : Drives(p, r) => p = q
      /\ \A b \in Actions : <<r, b>> \notin pending
      /\ Len(steps[r]) + 1 = req[q].step
  BY <1>0, ActiveFacts DEF IInv
<1>2. /\ req' \in [Requests -> RequestStates]
      /\ req'[q].at = "controlling" /\ req'[q].run = r /\ req'[q].action = a
      /\ req'[q].step = req[q].step /\ req'[q].answer = "none"
      /\ \A other \in Requests \ {q} : req'[other] = req[other]
  <2>1. req \in [Requests -> RequestStates] /\ req[q] \in RequestStates
    BY <1>1, Typed
  <2>2. req' = [req EXCEPT ![q] = [req[q] EXCEPT !.at = "controlling", !.action = a]]
    BY <1>0, <2>1 DEF RequestStates
  <2>3. [req[q] EXCEPT !.at = "controlling", !.action = a] \in RequestStates
    BY <2>1 DEF RequestStates, Active
  <2>4. req'[q] = [req[q] EXCEPT !.at = "controlling", !.action = a]
    BY <2>1, <2>2
  <2> QED BY <1>1, <2>1, <2>2, <2>3, <2>4 DEF RequestStates
<1>3. Touches(q, r)
  BY <1>0, <1>2 DEF Touches
<1>4. TypeOK' /\ Idle'
  BY <1>0, <1>1, <1>2, IdleKept DEF TypeOK
<1>5. /\ ~Ended(r)' /\ \A p \in Requests : Drives(p, r)' => p = q
  BY <1>1, <1>2, NotOver DEF Drives, Finishes
<1>6. Observed(r, Len(steps[r]))' /\ Budget(r)' /\ req[q].step <= MaxSteps
  BY <1>0, <1>1 DEF RunInv, Driven, Observed, Budget
<1>7. ~Reused(r, req[q].action)'
  <2>1. \A i \in DOMAIN steps'[r] : steps'[r][i].action # a
    BY <1>0 DEF Reused
  <2> QED BY <1>2, <2>1 DEF Reused
<1>8. RunInv(r)'
  <2>1. Len(steps'[r]) + 1 = req'[q].step /\ req'[q].step <= MaxSteps /\ req'[q].action \in Actions
    BY <1>0, <1>1, <1>2, <1>6
  <2>2. \A b \in Actions : <<r, b>> \notin pending'
    BY <1>0, <1>1
  <2> QED BY <1>2, <1>5, <1>6, <1>7, <2>1, <2>2, Goes
<1> QED BY <1>1, <1>3, <1>4, <1>8, Assemble

LEMMA PlannerIInv ==
  ASSUME IInv, NEW q \in Requests, Planner(q)
  PROVE  IInv'
<1>1. CASE PlannerFails(q)
  <2>1. Step(NoAction, "error", "none") \in AgentSteps
    BY DEF Step, AgentSteps
  <2> QED BY <1>1, <2>1, EndsIInv DEF PlannerFails, Active, Finishes
<1>2. ASSUME NEW status \in Finishes, PlannerFinishes(q, status) PROVE IInv'
  <2>1. Step(NoAction, FinishStatus[status], "none") \in AgentSteps
    BY DEF Step, AgentSteps, FinishStatus, Finishes
  <2> QED BY <1>2, <2>1, EndsIInv DEF PlannerFinishes, Active
<1>3. ASSUME NEW a \in Actions, PlannerExceedsBudget(q, a) PROVE IInv'
  <2>1. Step(a, "blocked", "over budget") \in AgentSteps
    BY DEF Step, AgentSteps
  <2> QED BY <1>3, <2>1, EndsIInv DEF PlannerExceedsBudget, Active, Planning, Finishes
<1>4. ASSUME NEW a \in Actions, PlannerRepeats(q, a) PROVE IInv'
  <2>1. Step(a, "error", "none") \in AgentSteps
    BY DEF Step, AgentSteps
  <2> QED BY <1>4, <2>1, EndsIInv DEF PlannerRepeats, Active, Planning, Finishes
<1> QED BY <1>1, <1>2, <1>3, <1>4, ProposesIInv DEF Planner

LEMMA ControlFailsIInv ==
  ASSUME IInv, NEW q \in Requests, ControlFails(q)
  PROVE  IInv'
<1>1. req[q].action \in Actions \cup {NoAction}
  <2>1. req[q] \in RequestStates
    BY Typed DEF IInv
  <2> QED BY <2>1 DEF RequestStates
<1>2. Step(req[q].action, "error", "raised") \in AgentSteps
  BY <1>1 DEF Step, AgentSteps
<1> QED BY <1>2, EndsIInv DEF ControlFails, Active, Finishes

\* The chain returned a result for the action the run waits for.
LEMMA ControlledIInv ==
  ASSUME IInv, NEW q \in Requests, NEW result \in Results, Controlled(q, result)
  PROVE  IInv'
<1> PICK r \in Runs : req[q].run = r
  BY ActiveFacts DEF Controlled, Active
<1> PICK a \in Actions : req[q].action = a
  BY ActiveFacts DEF Controlled, Active, RunInv, Driven
<1> DEFINE n == Len(steps[r])
           s == Filled(a, result)
<1>0. /\ TypeOK /\ RunInv(r) /\ ~Ended(r) /\ req[q].answer = "none" /\ MaxSteps \in Nat
      /\ Drives(q, r) /\ \A p \in Requests : Drives(p, r) => p = q
      /\ \A b \in Actions : <<r, b>> \notin pending
      /\ n \in Nat /\ n + 1 = req[q].step /\ req[q].at = "controlling"
  BY ActiveFacts, Typed DEF Controlled, Active, IInv
<1>1. ~Reused(r, a) /\ req[q].step <= MaxSteps /\ n < MaxSteps /\ Observed(r, n)
  <2>1. ~Reused(r, a) /\ req[q].step <= MaxSteps /\ Observed(r, n)
    BY <1>0 DEF RunInv, Driven
  <2> QED BY <1>0, <2>1
<1>2. acts[<<r, a>>] = 0
  <2>1. acts[<<r, a>>] \in Nat
    BY <1>0, Typed
  <2> QED BY <1>0, <1>1, <2>1 DEF RunInv, Budget, Reused
<1>3. s \in AgentSteps /\ s.action = a /\ AddStep(r, s) /\ Acted(r, a, result)
  BY DEF Controlled, Filled, Step, AgentSteps, Results
<1>4. /\ acts' \in [Runs \X Actions -> Nat] /\ acts'[<<r, a>>] \in {0, 1}
      /\ result \in {"blocked", "review"} => acts' = acts
      /\ \A other \in Runs, b \in Actions :
           other # r \/ b # a => acts'[<<other, b>>] = acts[<<other, b>>]
  BY <1>0, <1>2, <1>3, ActedFacts
<1>5. /\ steps' \in [Runs -> Seq(AgentSteps)]
      /\ Len(steps'[r]) = n + 1
      /\ \A i \in 1..n : steps'[r][i] = steps[r][i]
      /\ steps'[r][n + 1] = s
      /\ \A other \in Runs \ {r} : steps'[other] = steps[other]
  BY <1>0, <1>3, AddStepFacts
<1>6. Budget(r)'
  <2>1. ASSUME NEW b \in Actions
        PROVE  \/ acts'[<<r, b>>] = acts[<<r, b>>]
               \/ n < MaxSteps /\ s.action = b /\ acts'[<<r, b>>] \in {0, 1}
    BY <1>1, <1>3, <1>4
  <2>2. n <= MaxSteps
    BY <1>0, <1>1
  <2> HIDE DEF s
  <2> QED BY <1>3, <2>1, <2>2, BudgetAdd
<1>7. CASE result = "review"
  <2>1. /\ pending' = pending \cup {<<r, a>>} /\ Answer(q, r, "approval_required")
        /\ UNCHANGED history
    BY <1>7 DEF Controlled
  <2>2. PICK shown \in {"pass", "review"} :
          held' = [held EXCEPT ![r] = [action |-> a, step |-> req[q].step, policy |-> shown]]
    BY <1>7 DEF Controlled
  <2>3. /\ held \in [Runs -> Reviews] /\ pending \subseteq Runs \X Actions
        /\ [action |-> a, step |-> req[q].step, policy |-> shown] \in Reviews
    BY <1>0, <1>1, Typed DEF Reviews
  <2>4. /\ held' \in [Runs -> Reviews] /\ held'[r].action = a /\ held'[r].step = n + 1
        /\ \A other \in Runs \ {r} : held'[other] = held[other]
    BY <1>0, <2>2, <2>3
  <2>5. /\ req' \in [Requests -> RequestStates]
        /\ req'[q].at = "answered" /\ req'[q].run = r /\ req'[q].answer = "approval_required"
        /\ \A other \in Requests \ {q} : req'[other] = req[other]
    BY <1>0, <2>1, AnswerFacts
  <2>6. Touches(q, r)
    BY <1>4, <1>5, <2>1, <2>4, <2>5 DEF Touches
  <2>7. TypeOK'
    BY <1>0, <1>4, <1>5, <2>1, <2>3, <2>4, <2>5 DEF TypeOK
  <2>8. Idle'
    BY <2>5, IdleKept DEF Active, Planning
  <2>9. (\A p \in Requests : ~Drives(p, r)') /\ ~Ended(r)'
    BY <1>0, <2>5, NobodyDrives, NotOver DEF Finishes
  <2>10. Observed(r, Len(steps[r]) - 1)'
    <3>1. Len(steps'[r]) - 1 = n
      BY <1>0, <1>5
    <3> QED BY <1>1, <1>5, <2>1, <3>1 DEF Observed
  <2>11. /\ Len(steps'[r]) > 0 /\ held'[r].step = Len(steps'[r])
         /\ steps'[r][Len(steps'[r])].action = a /\ acts'[<<r, a>>] = 0
         /\ \A b \in Actions : <<r, b>> \in pending' => b = a
    BY <1>0, <1>2, <1>3, <1>4, <1>5, <1>7, <2>1, <2>4
  <2>12. RunInv(r)'
    BY <1>6, <2>4, <2>5, <2>9, <2>10, <2>11, Parks
  <2> QED BY <2>6, <2>7, <2>8, <2>12, Assemble
<1>8. CASE result # "review"
  <2>1. /\ Observe(r, result) /\ LoopAt(q, r, req[q].step + 1) /\ UNCHANGED <<pending, held>>
        /\ result \in {"success", "blocked", "error"}
    BY <1>8 DEF Controlled, Results
  <2>2. /\ history' \in [Runs -> Seq({"success", "blocked", "error"})]
        /\ Len(history'[r]) = n + 1
        /\ \A i \in 1..n : history'[r][i] = history[r][i]
        /\ history'[r][n + 1] = result
        /\ \A other \in Runs \ {r} : history'[other] = history[other]
    <3>1. Len(history[r]) = n
      BY <1>1 DEF Observed
    <3> QED BY <1>0, <2>1, <3>1, ObserveFacts
  <2>3. req[q].step + 1 = n + 2 /\ n + 2 \in 1..(MaxSteps + 1)
    BY <1>0, <1>1
  <2>4. /\ req' \in [Requests -> RequestStates]
        /\ req'[q].at = IF n + 2 <= MaxSteps THEN "planning" ELSE "last planning"
        /\ req'[q].run = r /\ req'[q].step = n + 2 /\ req'[q].answer = "none"
        /\ \A other \in Requests \ {q} : req'[other] = req[other]
    BY <1>0, <2>1, <2>3, LoopAtFacts
  <2>5. Touches(q, r)
    BY <1>4, <1>5, <2>1, <2>2, <2>4 DEF Touches
  <2>6. TypeOK'
    BY <1>0, <1>4, <1>5, <2>1, <2>2, <2>4 DEF TypeOK
  <2>7. Idle'
    BY <2>4, IdleKept
  <2>8. ~Ended(r)' /\ \A p \in Requests : Drives(p, r)' => p = q
    BY <1>0, <2>4, NotOver DEF Finishes, Drives
  <2>9. Observed(r, Len(steps[r]))'
    <3>1. s.observation = result
      BY <1>8 DEF Filled, Step
    <3>2. \A i \in 1..(n + 1) : history'[r][i] = steps'[r][i].observation
      <4> TAKE i \in 1..(n + 1)
      <4>1. i \in 1..n \/ i = n + 1
        BY <1>0
      <4> QED BY <1>1, <1>5, <2>2, <3>1, <4>1 DEF Observed
    <3> QED BY <1>5, <2>2, <3>2 DEF Observed
  <2>10. /\ Len(steps'[r]) + 1 = req'[q].step
         /\ req'[q].at # "last planning" => req'[q].step <= MaxSteps
         /\ req'[q].at # "controlling"
    <3>1. Len(steps'[r]) + 1 = n + 2
      BY <1>0, <1>5
    <3> HIDE DEF n
    <3> QED BY <2>4, <3>1
  <2>11. \A b \in Actions : <<r, b>> \notin pending'
    BY <1>0, <2>1
  <2>12. RunInv(r)'
    BY <1>6, <2>4, <2>8, <2>9, <2>10, <2>11, Goes
  <2> QED BY <2>5, <2>6, <2>7, <2>12, Assemble
<1> QED BY <1>7, <1>8

LEMMA ApproveUnknownIInv ==
  ASSUME IInv, NEW q \in Requests, ApproveUnknown(q)
  PROVE  IInv'
<1>0. /\ TypeOK /\ req[q].run = NoRun /\ Answer(q, NoRun, "refused")
      /\ UNCHANGED <<steps, history, pending, held, acts>>
  BY DEF ApproveUnknown, IInv, Idle
<1>1. /\ req' \in [Requests -> RequestStates]
      /\ req'[q].at = "answered" /\ req'[q].run = NoRun
      /\ \A other \in Requests \ {q} : req'[other] = req[other]
  BY <1>0, AnswerFacts
<1>2. Touches(q, NoRun)
  BY <1>0, <1>1 DEF Touches
<1>3. TypeOK' /\ Idle'
  BY <1>0, <1>1, IdleKept DEF TypeOK, Active, Planning
<1> QED BY <1>2, <1>3, NoRunAssumption, Assemble

\* The parked action is taken, and the request is answered: the run is over,
\* whatever the answer.
LEMMA TakenIInv ==
  ASSUME IInv, NEW q \in Requests, NEW r \in Runs, NEW a \in Actions,
         req[q].at = "idle", <<r, a>> \in pending, Unpark(r, a),
         NEW status \in Finishes \cup {"refused"}, Answer(q, r, status),
         steps' \in [Runs -> Seq(AgentSteps)], \A s \in Runs \ {r} : steps'[s] = steps[s],
         acts' \in [Runs \X Actions -> Nat],
         \A s \in Runs \ {r}, b \in Actions : acts'[<<s, b>>] = acts[<<s, b>>],
         UNCHANGED <<held, history>>, Budget(r)'
  PROVE  IInv'
<1>0. /\ TypeOK /\ req[q].run = NoRun /\ pending' = pending \ {<<r, a>>}
      /\ \A p \in Requests : ~Drives(p, r)
      /\ \A b \in Actions : <<r, b>> \in pending => b = a
  BY ParkedFacts DEF IInv, Idle, Unpark
<1>1. /\ req' \in [Requests -> RequestStates]
      /\ req'[q].at = "answered" /\ req'[q].run = r
      /\ \A other \in Requests \ {q} : req'[other] = req[other]
  BY <1>0, AnswerFacts
<1>2. Touches(q, r)
  BY <1>0, <1>1 DEF Touches
<1>3. TypeOK' /\ Idle'
  BY <1>0, <1>1, IdleKept DEF TypeOK, Active, Planning
<1>4. /\ \A p \in Requests : ~Drives(p, r)'
      /\ \A b \in Actions : <<r, b>> \notin pending'
  BY <1>0, <1>1, NobodyDrives
<1>5. RunInv(r)'
  BY <1>1, <1>4, Quiet
<1> QED BY <1>2, <1>3, <1>5, Assemble

LEMMA ApproveRefusedIInv ==
  ASSUME IInv, NEW q \in Requests, NEW r \in Runs, NEW a \in Actions, ApproveRefused(q, r, a)
  PROVE  IInv'
<1>1. /\ req[q].at = "idle" /\ <<r, a>> \in pending /\ Unpark(r, a) /\ Answer(q, r, "refused")
      /\ UNCHANGED <<steps, history, held, acts>>
  BY DEF ApproveRefused
<1>2. steps \in [Runs -> Seq(AgentSteps)] /\ acts \in [Runs \X Actions -> Nat] /\ RunInv(r)
  BY Typed DEF IInv
<1>3. Budget(r)'
  BY <1>1, <1>2 DEF RunInv, Budget
<1> QED BY <1>1, <1>2, <1>3, TakenIInv

\* An approval: the run is parked again, ends, or goes on.
LEMMA ApproveIInv ==
  ASSUME IInv, NEW q \in Requests, NEW r \in Runs, NEW a \in Actions, NEW result \in Results,
         Approve(q, r, a, result)
  PROVE  IInv'
<1> DEFINE n == Len(steps[r])
<1>0. /\ TypeOK /\ req[q].at = "idle" /\ req[q].run = NoRun /\ req[q].answer = "none"
      /\ <<r, a>> \in pending /\ Refill(r, result) /\ Acted(r, a, result) /\ MaxSteps \in Nat
  BY Typed DEF Approve, IInv, Idle
<1>1. /\ ~Ended(r) /\ \A p \in Requests : ~Drives(p, r)
      /\ \A b \in Actions : <<r, b>> \in pending => b = a
      /\ acts[<<r, a>>] = 0 /\ held[r].action = a /\ held[r].step = n
      /\ Observed(r, n - 1) /\ n \in Nat /\ n \in 1..MaxSteps
  BY <1>0, ParkedFacts
<1>2. /\ acts' \in [Runs \X Actions -> Nat] /\ acts'[<<r, a>>] \in {0, 1}
      /\ result \in {"blocked", "review"} => acts' = acts
      /\ \A other \in Runs, b \in Actions :
           other # r \/ b # a => acts'[<<other, b>>] = acts[<<other, b>>]
  BY <1>0, <1>1, ActedFacts
<1>3. /\ steps' \in [Runs -> Seq(AgentSteps)]
      /\ Len(steps'[r]) = n
      /\ \A i \in 1..(n - 1) : steps'[r][i] = steps[r][i]
      /\ steps'[r][n] = Filled(a, result)
      /\ \A other \in Runs \ {r} : steps'[other] = steps[other]
  BY <1>0, <1>1, RefillFacts
<1>4. Budget(r)'
  BY <1>0, <1>2, BudgetRefill
<1>5. CASE /\ result = "review" /\ held' = [held EXCEPT ![r].policy = "review"]
           /\ Answer(q, r, "approval_required") /\ UNCHANGED <<pending, history>>
  <2>1. /\ held' \in [Runs -> Reviews] /\ held'[r].action = a /\ held'[r].step = n
        /\ \A other \in Runs \ {r} : held'[other] = held[other]
    <3>1. held \in [Runs -> Reviews] /\ held[r] \in Reviews
      BY <1>0, Typed
    <3>2. held' = [held EXCEPT ![r] = [held[r] EXCEPT !.policy = "review"]]
      BY <1>5
    <3>3. /\ [held[r] EXCEPT !.policy = "review"] \in Reviews
          /\ [held[r] EXCEPT !.policy = "review"].action = a
          /\ [held[r] EXCEPT !.policy = "review"].step = n
      BY <1>1, <3>1 DEF Reviews
    <3> QED BY <3>1, <3>2, <3>3
  <2>2. /\ req' \in [Requests -> RequestStates]
        /\ req'[q].at = "answered" /\ req'[q].run = r /\ req'[q].answer = "approval_required"
        /\ \A other \in Requests \ {q} : req'[other] = req[other]
    BY <1>0, <1>5, AnswerFacts
  <2>3. Touches(q, r)
    BY <1>0, <1>2, <1>3, <1>5, <2>1, <2>2 DEF Touches
  <2>4. TypeOK'
    BY <1>0, <1>2, <1>3, <1>5, <2>1, <2>2 DEF TypeOK
  <2>5. Idle'
    BY <2>2, IdleKept DEF Active, Planning
  <2>6. (\A p \in Requests : ~Drives(p, r)') /\ ~Ended(r)'
    BY <1>1, <2>2, NobodyDrives, NotOver DEF Finishes
  <2>7. Observed(r, Len(steps[r]) - 1)'
    BY <1>1, <1>3, <1>5 DEF Observed
  <2>8. /\ Len(steps'[r]) > 0 /\ held'[r].step = Len(steps'[r])
        /\ steps'[r][Len(steps'[r])].action = a /\ acts'[<<r, a>>] = 0
    BY <1>1, <1>2, <1>3, <1>5, <2>1 DEF Filled, Step
  <2>9. RunInv(r)'
    BY <1>1, <1>4, <1>5, <2>1, <2>2, <2>6, <2>7, <2>8, Parks
  <2> QED BY <2>3, <2>4, <2>5, <2>9, Assemble
<1>6. CASE /\ result \in {"blocked", "error"} /\ Unpark(r, a)
           /\ Answer(q, r, IF result = "blocked" THEN "blocked" ELSE "failed")
           /\ UNCHANGED <<held, history>>
  <2>1. (IF result = "blocked" THEN "blocked" ELSE "failed") \in Finishes \cup {"refused"}
    BY DEF Finishes
  <2> QED BY <1>0, <1>2, <1>3, <1>4, <1>6, <2>1, TakenIInv
<1>7. CASE /\ result = "success" /\ Unpark(r, a) /\ Observe(r, result)
           /\ LoopAt(q, r, ResumeStep(r)) /\ UNCHANGED held
  <2>1. /\ history' \in [Runs -> Seq({"success", "blocked", "error"})]
        /\ Len(history'[r]) = n
        /\ \A i \in 1..(n - 1) : history'[r][i] = history[r][i]
        /\ history'[r][n] = "success"
        /\ \A other \in Runs \ {r} : history'[other] = history[other]
    <3>1. Len(history[r]) = n - 1 /\ Len(history[r]) + 1 = n
      BY <1>1 DEF Observed
    <3>2. /\ history' \in [Runs -> Seq({"success", "blocked", "error"})]
          /\ Len(history'[r]) = Len(history[r]) + 1
          /\ \A i \in 1..Len(history[r]) : history'[r][i] = history[r][i]
          /\ history'[r][Len(history[r]) + 1] = "success"
          /\ \A other \in Runs \ {r} : history'[other] = history[other]
      BY <1>0, <1>7, ObserveFacts
    <3> HIDE DEF n
    <3> QED BY <3>1, <3>2
  <2>2. ResumeStep(r) = n + 1 /\ n + 1 \in 1..(MaxSteps + 1)
    BY <1>0, <1>1 DEF ResumeStep
  <2>3. /\ req' \in [Requests -> RequestStates]
        /\ req'[q].at = IF n + 1 <= MaxSteps THEN "planning" ELSE "last planning"
        /\ req'[q].run = r /\ req'[q].step = n + 1 /\ req'[q].answer = "none"
        /\ \A other \in Requests \ {q} : req'[other] = req[other]
    BY <1>0, <1>7, <2>2, LoopAtFacts
  <2>4. pending' = pending \ {<<r, a>>}
    BY <1>7 DEF Unpark
  <2>5. Touches(q, r)
    BY <1>0, <1>2, <1>3, <1>7, <2>1, <2>3, <2>4 DEF Touches
  <2>6. TypeOK'
    BY <1>0, <1>2, <1>3, <1>7, <2>1, <2>3, <2>4 DEF TypeOK
  <2>7. Idle'
    BY <2>3, IdleKept
  <2>8. ~Ended(r)' /\ \A p \in Requests : Drives(p, r)' => p = q
    BY <1>1, <2>3, NotOver DEF Finishes, Drives
  <2>9. Observed(r, Len(steps[r]))'
    <3>1. Filled(a, result).observation = "success"
      BY <1>7 DEF Filled, Step
    <3>2. \A i \in 1..n : history'[r][i] = steps'[r][i].observation
      <4> TAKE i \in 1..n
      <4>1. i \in 1..(n - 1) \/ i = n
        BY <1>1
      <4> QED BY <1>1, <1>3, <2>1, <3>1, <4>1 DEF Observed
    <3> QED BY <1>3, <2>1, <3>2 DEF Observed
  <2>10. /\ Len(steps'[r]) + 1 = req'[q].step
         /\ req'[q].at # "last planning" => req'[q].step <= MaxSteps
         /\ req'[q].at # "controlling"
    BY <1>3, <2>3
  <2>11. \A b \in Actions : <<r, b>> \notin pending'
    BY <1>1, <2>4
  <2>12. RunInv(r)'
    BY <1>4, <2>3, <2>8, <2>9, <2>10, <2>11, Goes
  <2> QED BY <2>5, <2>6, <2>7, <2>12, Assemble
<1> QED BY <1>5, <1>6, <1>7 DEF Approve

\* After a restart no run is driven or parked.
LEMMA RestartIInv ==
  ASSUME IInv, Restart
  PROVE  IInv'
<1>0. TypeOK /\ Idle /\ req \in [Requests -> RequestStates]
  BY Typed DEF IInv
<1>1. /\ pending' = {} /\ UNCHANGED <<steps, history, held, acts>>
      /\ req' = [q \in Requests |->
           IF req[q].at \in Active THEN [req[q] EXCEPT !.at = "answered", !.answer = "cancelled"]
                                   ELSE req[q]]
  BY DEF Restart
<1>2. \A q \in Requests :
        /\ req'[q] \in RequestStates /\ req'[q].run = req[q].run /\ req'[q].at \notin Active
        /\ req'[q].at = "idle" \/ req'[q].at # "answered" => req'[q] = req[q]
  <2> TAKE q \in Requests
  <2>1. req[q] \in RequestStates
    BY <1>0
  <2>2. CASE req[q].at \in Active
    <3>1. req'[q] = [req[q] EXCEPT !.at = "answered", !.answer = "cancelled"]
      BY <1>1, <2>2
    <3> QED BY <2>1, <3>1 DEF RequestStates, Active, Planning
  <2>3. CASE req[q].at \notin Active
    BY <1>1, <2>1, <2>3
  <2> QED BY <2>2, <2>3
<1>3. TypeOK'
  <2>1. req' \in [Requests -> RequestStates]
    BY <1>1, <1>2
  <2> QED BY <1>0, <1>1, <2>1 DEF TypeOK
<1>4. Idle'
  BY <1>0, <1>2 DEF Idle
<1>5. ASSUME NEW r \in Runs PROVE RunInv(r)'
  <2>1. RunInv(r)
    BY DEF IInv
  <2>2. (\A q \in Requests : ~Drives(q, r)') /\ Untouched(r)' /\ Budget(r)'
    BY <1>1, <1>2, <2>1 DEF Drives, RunInv, Untouched, Budget
  <2> QED BY <1>1, <2>2 DEF RunInv, Exclusive, Over, Driven, Waits
<1> QED BY <1>3, <1>4, <1>5 DEF IInv

LEMMA NextIInv == IInv /\ [Next]_vars => IInv'
<1> SUFFICES ASSUME IInv, [Next]_vars PROVE IInv'
  OBVIOUS
<1>1. CASE UNCHANGED vars
  <2>0. TypeOK'
    BY <1>1 DEF vars, IInv, TypeOK
  <2>1. Idle'
    BY <1>1 DEF vars, IInv, Idle
  <2>2. ASSUME NEW r \in Runs PROVE RunInv(r)'
    <3>1. RunInv(r) /\ UNCHANGED <<req, steps, history, pending, held, acts>>
      BY <1>1 DEF vars, IInv
    <3>2. Untouched(r)' /\ Exclusive(r)' /\ Over(r)'
      BY <3>1 DEF RunInv, Untouched, Exclusive, Over, Drives, Ended
    <3>3. Driven(r)'
      BY <3>1 DEF RunInv, Driven, Drives, Observed, Reused
    <3>4. Waits(r)' /\ Budget(r)'
      BY <3>1 DEF RunInv, Waits, Budget, Observed
    <3> QED BY <3>2, <3>3, <3>4 DEF RunInv
  <2> QED BY <2>0, <2>1, <2>2 DEF IInv
<1>2. ASSUME NEW q \in Requests, Chain(q) PROVE IInv'
  BY <1>2, ControlFailsIInv, ControlledIInv DEF Chain
<1>3. CASE Next
  BY <1>2, <1>3, RunIInv, PlannerIInv, CancelIInv, ApproveUnknownIInv, ApproveRefusedIInv,
     ApproveIInv, RestartIInv
  DEF Next
<1> QED BY <1>1, <1>3

THEOREM Invariance == Spec => []IInv
BY InitIInv, NextIInv, PTL DEF Spec

-----------------------------------------------------------------------------
(* The properties *)

\* Type correctness: requests, traces, parked runs and counts keep their types.
THEOREM TypeCorrect == Spec => []TypeOK
<1>1. IInv => TypeOK
  BY DEF IInv
<1> QED BY <1>1, Invariance, PTL

\* A run has one driver or one parked action, and a parked action has not run
\* (runner.py:173-187).
THEOREM RunsHaveOneDriver == Spec => []OneDriver
<1>1. ASSUME IInv, NEW r \in Runs
      PROVE  /\ Cardinality({q \in Requests : Drives(q, r)}) + Cardinality(Parked(r)) <= 1
             /\ \A ra \in Parked(r) : acts[ra] = 0 /\ held[r].action = ra[2] /\ ~Ended(r)
  <2> DEFINE D == {q \in Requests : Drives(q, r)}
  <2>0. RunInv(r) /\ pending \subseteq Runs \X Actions
    BY <1>1, Typed DEF IInv
  <2>1. \A ra \in Parked(r) : \E a \in Actions : ra = <<r, a>> /\ <<r, a>> \in pending
    BY <2>0 DEF Parked
  <2>2. \A ra \in Parked(r) : acts[ra] = 0 /\ held[r].action = ra[2] /\ ~Ended(r)
    <3> TAKE ra \in Parked(r)
    <3>1. PICK a \in Actions : ra = <<r, a>> /\ <<r, a>> \in pending
      BY <2>1
    <3> QED BY <2>0, <3>1 DEF RunInv, Waits, Over
  <2>3. D = {} \/ \E q \in Requests : D = {q}
    BY <2>0 DEF RunInv, Exclusive
  <2>4. Parked(r) = {} \/ \E ra \in Parked(r) : Parked(r) = {ra}
    <3>1. ASSUME NEW ra \in Parked(r), NEW rb \in Parked(r) PROVE ra = rb
      <4>1. PICK a \in Actions : ra = <<r, a>> /\ <<r, a>> \in pending
        BY <2>1
      <4>2. PICK b \in Actions : rb = <<r, b>> /\ <<r, b>> \in pending
        BY <2>1
      <4> QED BY <2>0, <4>1, <4>2 DEF RunInv, Exclusive
    <3> QED BY <3>1
  <2>5. D = {} \/ Parked(r) = {}
    BY <2>0, <2>1 DEF RunInv, Exclusive
  <2>6. Cardinality(D) \in {0, 1} /\ (D = {} => Cardinality(D) = 0)
    BY <2>3, FS_EmptySet, FS_Singleton
  <2>7. Cardinality(Parked(r)) \in {0, 1} /\ (Parked(r) = {} => Cardinality(Parked(r)) = 0)
    BY <2>4, FS_EmptySet, FS_Singleton
  <2>8. Cardinality(D) + Cardinality(Parked(r)) <= 1
    <3> HIDE DEF D
    <3> QED BY <2>5, <2>6, <2>7
  <2> QED BY <2>2, <2>8
<1>2. IInv => OneDriver
  BY <1>1 DEF OneDriver
<1> QED BY <1>2, Invariance, PTL

\* No more tools act for a run than max_steps allows, however often it was paused
\* and resumed (runner.py:123-126).
THEOREM RunsStayWithinBudget == Spec => []WithinBudget
<1>1. ASSUME IInv, NEW r \in Runs
      PROVE  /\ Len(steps[r]) <= MaxSteps + 1
             /\ Cardinality({a \in Actions : acts[<<r, a>>] > 0}) <= MaxSteps
  <2> DEFINE A == {a \in Actions : acts[<<r, a>>] > 0}
             I == {i \in 1..MaxSteps : i \in DOMAIN steps[r]}
             f == [i \in I |-> steps[r][i].action]
             B == {f[i] : i \in I}
  <2>0. Budget(r) /\ MaxSteps \in Nat /\ steps[r] \in Seq(AgentSteps) /\ DOMAIN steps[r] \subseteq Nat \ {0}
    <3>1. Budget(r) /\ MaxSteps \in Nat /\ steps[r] \in Seq(AgentSteps)
      BY <1>1, Typed DEF IInv, RunInv
    <3> QED BY <3>1
  <2>1. IsFiniteSet(1..MaxSteps) /\ Cardinality(1..MaxSteps) = MaxSteps
    <3>1. 1 \in Int /\ MaxSteps \in Int
      BY <2>0
    <3>2. /\ IsFiniteSet(1..MaxSteps)
          /\ Cardinality(1..MaxSteps) = IF 1 > MaxSteps THEN 0 ELSE MaxSteps - 1 + 1
      BY <3>1, FS_Interval
    <3> QED BY <2>0, <3>2
  <2>2. IsFiniteSet(I) /\ Cardinality(I) <= MaxSteps
    BY <2>1, FS_Subset
  <2>3. f \in Surjection(I, B)
    BY DEF Surjection
  <2>4. A \subseteq B
    <3> SUFFICES ASSUME NEW a \in Actions, acts[<<r, a>>] > 0 PROVE a \in B
      OBVIOUS
    <3>1. PICK i \in DOMAIN steps[r] : i <= MaxSteps /\ steps[r][i].action = a
      BY <2>0 DEF Budget
    <3>2. i \in I
      BY <2>0, <3>1
    <3> QED BY <3>1, <3>2
  <2> HIDE DEF A, I, f, B
  <2>5. IsFiniteSet(B) /\ Cardinality(B) <= Cardinality(I)
    BY <2>2, <2>3, FS_Surjection
  <2>6. IsFiniteSet(A) /\ Cardinality(A) <= Cardinality(B)
    BY <2>4, <2>5, FS_Subset
  <2>7. Cardinality(A) \in Nat /\ Cardinality(B) \in Nat /\ Cardinality(I) \in Nat
    BY <2>2, <2>5, <2>6, FS_CardinalityType
  <2>8. Cardinality(A) <= MaxSteps
    BY <2>0, <2>2, <2>5, <2>6, <2>7
  <2> QED BY <2>0, <2>8 DEF A, Budget
<1>2. IInv => WithinBudget
  BY <1>1 DEF WithinBudget
<1> QED BY <1>2, Invariance, PTL

\* The planner always sees one observation for each earlier step, in order
\* (runner.py:122, 188).
THEOREM PlannersSeeAll == Spec => []PlannerSeesAll
<1>1. ASSUME IInv, NEW q \in Requests, req[q].at \in Planning
      PROVE  LET r == req[q].run
             IN /\ req[q].step = Len(steps[r]) + 1
                /\ history[r] = [i \in 1..Len(steps[r]) |-> steps[r][i].observation]
  <2> PICK r \in Runs : req[q].run = r
    BY <1>1, ActiveFacts DEF Active
  <2>1. RunInv(r) /\ Drives(q, r) /\ Len(steps[r]) \in Nat /\ Len(steps[r]) + 1 = req[q].step
    BY <1>1, ActiveFacts DEF Active
  <2>2. Observed(r, Len(steps[r]))
    BY <2>1 DEF RunInv, Driven
  <2>3. history[r] \in Seq({"success", "blocked", "error"})
    BY <1>1, Typed DEF IInv
  <2>4. history[r] = [i \in 1..Len(history[r]) |-> history[r][i]]
    BY <2>3
  <2>5. history[r] = [i \in 1..Len(steps[r]) |-> steps[r][i].observation]
    BY <2>2, <2>4 DEF Observed
  <2> QED BY <2>1, <2>5
<1>2. IInv => PlannerSeesAll
  BY <1>1 DEF PlannerSeesAll
<1> QED BY <1>2, Invariance, PTL

\* A run whose end was reported never moves again (runner.py:94, 118-121).
THEOREM EndsAreFinal == Spec => EndedStaysEnded
<1> DEFINE Still(r) == /\ steps'[r] = steps[r] /\ history'[r] = history[r]
                       /\ \A a \in Actions : acts'[<<r, a>>] = acts[<<r, a>>]
<1>1. ASSUME IInv, Next, NEW r \in Runs, Ended(r) PROVE Still(r)
  <2>0. /\ TypeOK /\ \A q \in Requests : req[q].at \in Active => req[q].run # r
        /\ \A a \in Actions : <<r, a>> \notin pending
    BY <1>1 DEF IInv, RunInv, Over, Drives
  <2>1. /\ steps \in [Runs -> Seq(AgentSteps)] /\ acts \in [Runs \X Actions -> Nat]
        /\ history \in [Runs -> Seq({"success", "blocked", "error"})]
    BY <2>0, Typed
  <2>2. /\ \A q \in Requests, s \in Runs : Run(q, s) => Still(r)
        /\ \A q \in Requests : Cancel(q) \/ ApproveUnknown(q) => Still(r)
    BY DEF Run, Cancel, ApproveUnknown
  <2>3. ASSUME NEW q \in Requests, Planner(q) PROVE Still(r)
    <3>1. UNCHANGED <<history, acts>> /\ req[q].run # r
      BY <2>0, <2>3 DEF Planner, PlannerFails, PlannerFinishes, PlannerExceedsBudget,
                        PlannerRepeats, PlannerProposes, Active, Planning
    <3>2. steps' = steps \/ \E s : AddStep(req[q].run, s)
      BY <2>3 DEF Planner, PlannerFails, PlannerFinishes, PlannerExceedsBudget,
                  PlannerRepeats, PlannerProposes
    <3> QED BY <2>1, <3>1, <3>2 DEF AddStep
  <2>4. ASSUME NEW q \in Requests, Chain(q) PROVE Still(r)
    <3>1. req[q].run # r
      BY <2>0, <2>4 DEF Chain, ControlFails, Controlled, Active
    <3>2. CASE ControlFails(q)
      BY <2>1, <3>1, <3>2 DEF ControlFails, AddStep
    <3>3. ASSUME NEW result \in Results, Controlled(q, result) PROVE Still(r)
      <4>1. steps'[r] = steps[r]
        BY <2>1, <3>1, <3>3 DEF Controlled, AddStep
      <4>2. history'[r] = history[r]
        BY <2>1, <3>1, <3>3 DEF Controlled, Observe
      <4>3. \A a \in Actions : acts'[<<r, a>>] = acts[<<r, a>>]
        BY <2>1, <3>1, <3>3 DEF Controlled, Acted
      <4> QED BY <4>1, <4>2, <4>3
    <3> QED BY <2>4, <3>2, <3>3 DEF Chain
  <2>5. ASSUME NEW q \in Requests, NEW s \in Runs, NEW a \in Actions, ApproveRefused(q, s, a)
        PROVE  Still(r)
    BY <2>5 DEF ApproveRefused
  <2>6. ASSUME NEW q \in Requests, NEW s \in Runs, NEW a \in Actions, NEW result \in Results,
               Approve(q, s, a, result)
        PROVE  Still(r)
    <3>1. s # r
      BY <2>0, <2>6 DEF Approve
    <3>2. steps'[r] = steps[r]
      BY <2>1, <2>6, <3>1 DEF Approve, Refill
    <3>3. history'[r] = history[r]
      BY <2>1, <2>6, <3>1 DEF Approve, Observe
    <3>4. \A b \in Actions : acts'[<<r, b>>] = acts[<<r, b>>]
      BY <2>1, <2>6, <3>1 DEF Approve, Acted
    <3> QED BY <3>2, <3>3, <3>4
  <2>7. CASE Restart
    BY <2>7 DEF Restart
  <2> HIDE DEF Still
  <2> QED BY <1>1, <2>2, <2>3, <2>4, <2>5, <2>6, <2>7 DEF Next
<1>2. IInv /\ [Next]_vars =>
        [\A r \in Runs : Ended(r) =>
           UNCHANGED <<steps[r], history[r]>> /\ \A a \in Actions : UNCHANGED acts[<<r, a>>]]_vars
  BY <1>1
<1> QED BY <1>2, Invariance, PTL DEF Spec, EndedStaysEnded

-----------------------------------------------------------------------------
(* Each action of a run is one control call.                               *)
(* The steps of one action in a list of steps                              *)

Places(s, a) == {i \in DOMAIN s : s[i].action = a}
First(s, a) == s[CHOOSE i \in Places(s, a) : \A j \in Places(s, a) : i <= j]

LEMMA FirstAt ==
  ASSUME NEW s \in Seq(AgentSteps), NEW a, NEW i \in Places(s, a), \A j \in Places(s, a) : i <= j
  PROVE  First(s, a) = s[i]
<1>1. \A j \in Places(s, a) : j \in Nat
  BY DEF Places
<1>2. \A k \in Places(s, a) : (\A j \in Places(s, a) : k <= j) => k = i
  BY <1>1
<1>3. (CHOOSE k \in Places(s, a) : \A j \in Places(s, a) : k <= j) = i
  BY <1>2
<1> QED BY <1>3 DEF First

LEMMA FirstExists ==
  ASSUME NEW s \in Seq(AgentSteps), NEW a, Places(s, a) # {}
  PROVE  \E i \in Places(s, a) : \A j \in Places(s, a) : i <= j
<1>1. Places(s, a) \subseteq Nat
  BY DEF Places
<1>2. PICK i \in Places(s, a) : \A j \in Places(s, a) : ~(<<j, i>> \in OpToRel(<, Nat))
  BY <1>1, WFMin, NatLessThanWellFounded
<1>3. \A j \in Places(s, a) : ~(j < i)
  BY <1>1, <1>2 DEF OpToRel
<1> QED BY <1>1, <1>3

\* What follows an action's first step does not change it.
LEMMA FirstKept ==
  ASSUME NEW s \in Seq(AgentSteps), NEW t \in Seq(AgentSteps), NEW a, Places(s, a) # {},
         \A j \in Places(s, a) : j \in Places(t, a) /\ t[j] = s[j],
         \A j \in Places(t, a) : j \in Places(s, a) \/ Len(s) < j
  PROVE  Places(t, a) # {} /\ First(t, a) = First(s, a)
<1>1. PICK i \in Places(s, a) : \A j \in Places(s, a) : i <= j
  BY FirstExists
<1>2. i \in 1..Len(s) /\ \A j \in Places(t, a) : j \in Nat
  BY DEF Places
<1>3. i \in Places(t, a) /\ t[i] = s[i]
  BY <1>1
<1>4. \A j \in Places(t, a) : i <= j
  BY <1>1, <1>2
<1>5. First(t, a) = t[i] /\ First(s, a) = s[i]
  BY <1>1, <1>3, <1>4, FirstAt
<1> QED BY <1>3, <1>5

LEMMA Appended ==
  ASSUME NEW s \in Seq(AgentSteps), NEW t \in Seq(AgentSteps), NEW e, NEW a,
         Len(t) = Len(s) + 1, \A i \in 1..Len(s) : t[i] = s[i], t[Len(s) + 1] = e
  PROVE  /\ Places(s, a) # {} => Places(t, a) # {} /\ First(t, a) = First(s, a)
         /\ e.action # a => Places(t, a) = Places(s, a)
         /\ e.action = a /\ Places(s, a) = {} => Places(t, a) = {Len(t)} /\ First(t, a) = e
<1> DEFINE n == Len(s)
<1>1. n \in Nat /\ DOMAIN s = 1..n /\ DOMAIN t = 1..(n + 1)
  OBVIOUS
<1>2. /\ Places(s, a) = {i \in 1..n : s[i].action = a}
      /\ Places(t, a) = {i \in 1..(n + 1) : t[i].action = a}
  BY <1>1 DEF Places
<1> HIDE DEF n
<1>3. \A i \in 1..(n + 1) : i \in 1..n \/ i = n + 1
  BY <1>1
<1>4. /\ \A i \in 1..n : t[i] = s[i]
      /\ t[n + 1] = e /\ Len(t) = n + 1 /\ Len(s) = n
  BY DEF n
<1>5. ASSUME Places(s, a) # {} PROVE Places(t, a) # {} /\ First(t, a) = First(s, a)
  <2>1. \A j \in Places(s, a) : j \in Places(t, a) /\ t[j] = s[j]
    BY <1>1, <1>2, <1>4
  <2>2. \A j \in Places(t, a) : j \in Places(s, a) \/ Len(s) < j
    BY <1>1, <1>2, <1>3, <1>4
  <2> QED BY <1>5, <2>1, <2>2, FirstKept
<1>6. ASSUME e.action # a PROVE Places(t, a) = Places(s, a)
  <2>1. \A i \in Places(t, a) : i \in Places(s, a)
    BY <1>2, <1>3, <1>4, <1>6
  <2>2. \A i \in Places(s, a) : i \in Places(t, a)
    BY <1>1, <1>2, <1>4
  <2> QED BY <2>1, <2>2
<1>7. ASSUME e.action = a, Places(s, a) = {} PROVE Places(t, a) = {Len(t)} /\ First(t, a) = e
  <2>1. \A i \in Places(t, a) : i = n + 1
    BY <1>2, <1>3, <1>4, <1>7
  <2>2. n + 1 \in Places(t, a)
    BY <1>1, <1>2, <1>4, <1>7
  <2>3. First(t, a) = t[n + 1]
    BY <1>1, <2>1, <2>2, FirstAt
  <2> QED BY <1>4, <2>1, <2>2, <2>3
<1> QED BY <1>5, <1>6, <1>7

\* The last step is replaced by another one of the same action.
LEMMA Replaced ==
  ASSUME NEW s \in Seq(AgentSteps), NEW t \in Seq(AgentSteps), NEW b,
         Len(s) > 0, Len(t) = Len(s), \A i \in 1..(Len(s) - 1) : t[i] = s[i],
         t[Len(s)].action = s[Len(s)].action
  PROVE  /\ Places(t, b) = Places(s, b)
         /\ Places(s, b) # {} /\ s[Len(s)].action # b => First(t, b) = First(s, b)
         /\ Places(s, b) = {Len(s)} => First(t, b) = t[Len(s)]
<1> DEFINE n == Len(s)
<1>1. n \in Nat /\ n > 0 /\ DOMAIN s = 1..n /\ DOMAIN t = 1..n
  OBVIOUS
<1>2. /\ Places(s, b) = {i \in 1..n : s[i].action = b}
      /\ Places(t, b) = {i \in 1..n : t[i].action = b}
  BY <1>1 DEF Places
<1> HIDE DEF n
<1>3. /\ \A i \in 1..(n - 1) : t[i] = s[i]
      /\ Len(s) = n /\ t[n].action = s[n].action
  BY DEF n
<1>4. \A i \in 1..n : i \in 1..(n - 1) \/ i = n
  BY <1>1
<1>5. Places(t, b) = Places(s, b)
  <2>1. \A i \in 1..n : t[i].action = s[i].action
    BY <1>3, <1>4
  <2> QED BY <1>2, <2>1
<1>6. ASSUME Places(s, b) # {}, s[n].action # b PROVE First(t, b) = First(s, b)
  <2>1. \A j \in Places(s, b) : j \in Places(t, b) /\ t[j] = s[j]
    BY <1>2, <1>3, <1>4, <1>5, <1>6
  <2> QED BY <1>5, <1>6, <2>1, FirstKept
<1>7. ASSUME Places(s, b) = {n} PROVE First(t, b) = t[n]
  <2>1. Places(t, b) = {n} /\ n \in Places(t, b)
    BY <1>5, <1>7
  <2>2. \A j \in Places(t, b) : n <= j
    BY <1>1, <2>1
  <2> QED BY <2>1, <2>2, FirstAt
<1> QED BY <1>3, <1>5, <1>6, <1>7

-----------------------------------------------------------------------------
(* The invariant: what tells where a call is                               *)

\* A request that plans has recorded the action it last controlled.
Named ==
  \A q \in Requests :
    /\ req[q].at = "idle" => req[q].action = NoAction
    /\ req[q].at \in Planning =>
         req[q].action = NoAction \/ Places(steps[req[q].run], req[q].action) # {}

\* A run one of whose requests ended before it recorded its action stands still.
Dropped(r, a) ==
  Abandoned(<<r, a>>) /\ Places(steps[r], a) = {} =>
    /\ \A q \in Requests : ~Drives(q, r)
    /\ \A b \in Actions : <<r, b>> \notin pending

\* An action that awaits approval has one step, which tells no result.
Single(r, a) ==
  <<r, a>> \in pending =>
    Places(steps[r], a) = {Len(steps[r])} /\ steps[r][Len(steps[r])].observation = "none"

CallInv(r) == \A a \in Actions : Dropped(r, a) /\ Single(r, a)
CInv == IInv /\ Named /\ \A r \in Runs : CallInv(r)

-----------------------------------------------------------------------------
(* How a call changes its phase *)

Calls == Runs \X Actions
Same(r, a) == /\ CallPhase(<<r, a>>)' = CallPhase(<<r, a>>)
              /\ CallResult(<<r, a>>)' = CallResult(<<r, a>>)

LEMMA CallIs ==
  ASSUME NEW r \in Runs, NEW a \in Actions
  PROVE  /\ CallPhase(<<r, a>>) =
              IF InControl(<<r, a>>) THEN "running"
              ELSE IF <<r, a>> \in pending THEN "review"
              ELSE IF Places(steps[r], a) # {} \/ Abandoned(<<r, a>>) THEN "done"
              ELSE "new"
         /\ CallResult(<<r, a>>) =
              IF CallPhase(<<r, a>>) # "done" THEN "none"
              ELSE IF Places(steps[r], a) = {} \/ First(steps[r], a).observation \in {"raised", "none"}
              THEN "raised"
              ELSE First(steps[r], a).status
<1>1. StepsOf(<<r, a>>) = Places(steps[r], a)
  BY DEF StepsOf, Places
<1>2. FirstStep(<<r, a>>) = First(steps[r], a)
  BY <1>1 DEF FirstStep, First
<1> QED BY <1>1, <1>2 DEF CallPhase, CallResult

LEMMA CallIsNext ==
  ASSUME NEW r \in Runs, NEW a \in Actions
  PROVE  /\ CallPhase(<<r, a>>)' =
              IF InControl(<<r, a>>)' THEN "running"
              ELSE IF <<r, a>> \in pending' THEN "review"
              ELSE IF Places(steps'[r], a) # {} \/ Abandoned(<<r, a>>)' THEN "done"
              ELSE "new"
         /\ CallResult(<<r, a>>)' =
              IF CallPhase(<<r, a>>)' # "done" THEN "none"
              ELSE IF Places(steps'[r], a) = {} \/ First(steps'[r], a).observation \in {"raised", "none"}
              THEN "raised"
              ELSE First(steps'[r], a).status
<1>1. StepsOf(<<r, a>>)' = Places(steps'[r], a)
  BY DEF StepsOf, Places
<1>2. FirstStep(<<r, a>>)' = First(steps'[r], a)
  BY <1>1 DEF FirstStep, First
<1> QED BY <1>1, <1>2 DEF CallPhase, CallResult

\* A call whose requests, steps and approval are as before is where it was.
LEMMA SameCall ==
  ASSUME NEW r \in Runs, NEW a \in Actions,
         InControl(<<r, a>>)' <=> InControl(<<r, a>>),
         <<r, a>> \in pending' <=> <<r, a>> \in pending,
         Places(steps'[r], a) = {} <=> Places(steps[r], a) = {},
         Places(steps[r], a) # {} => First(steps'[r], a) = First(steps[r], a),
         Places(steps[r], a) = {} => (Abandoned(<<r, a>>)' <=> Abandoned(<<r, a>>))
  PROVE  Same(r, a)
<1>1. CallPhase(<<r, a>>)' = CallPhase(<<r, a>>)
  BY CallIs, CallIsNext
<1> QED BY <1>1, CallIs, CallIsNext DEF Same

\* Only request q moves, and no run but r does.
Moves(q, r) ==
  /\ req[q].run \in {r, NoRun} /\ req'[q].run \in {r, NoRun}
  /\ \A p \in Requests \ {q} : req'[p] = req[p]
  /\ \A s \in Runs \ {r} :
       steps'[s] = steps[s] /\ \A a \in Actions : <<s, a>> \in pending' <=> <<s, a>> \in pending

Controls(q, r, a) == req[q].at = "controlling" /\ <<req[q].run, req[q].action>> = <<r, a>>
Left(q, r, a) == req[q].at = "answered" /\ <<req[q].run, req[q].action>> = <<r, a>>

LEMMA Elsewhere ==
  ASSUME NEW q \in Requests, NEW r, Moves(q, r), NEW s \in Runs \ {r}, NEW a \in Actions
  PROVE  Same(s, a)
<1>1. s # NoRun
  BY NoRunAssumption
<1>2. \A p \in Requests : (Controls(p, s, a)' <=> Controls(p, s, a)) /\ (Left(p, s, a)' <=> Left(p, s, a))
  BY <1>1 DEF Moves, Controls, Left
<1>3. (InControl(<<s, a>>)' <=> InControl(<<s, a>>)) /\ (Abandoned(<<s, a>>)' <=> Abandoned(<<s, a>>))
  BY <1>2 DEF InControl, Abandoned, Controls, Left
<1> QED BY <1>3, SameCall DEF Moves

\* A call of the run that moves, but that q neither controls nor leaves behind.
LEMMA Beside ==
  ASSUME NEW q \in Requests, NEW r \in Runs, Moves(q, r), NEW a \in Actions,
         ~Controls(q, r, a), ~Controls(q, r, a)', ~Left(q, r, a),
         Left(q, r, a)' => Places(steps[r], a) # {},
         <<r, a>> \in pending' <=> <<r, a>> \in pending,
         Places(steps'[r], a) = {} <=> Places(steps[r], a) = {},
         Places(steps[r], a) # {} => First(steps'[r], a) = First(steps[r], a)
  PROVE  Same(r, a)
<1>1. \A p \in Requests \ {q} : (Controls(p, r, a)' <=> Controls(p, r, a)) /\ (Left(p, r, a)' <=> Left(p, r, a))
  BY DEF Moves, Controls, Left
<1>2. InControl(<<r, a>>)' <=> InControl(<<r, a>>)
  BY <1>1 DEF InControl, Controls
<1>3. Places(steps[r], a) = {} => (Abandoned(<<r, a>>)' <=> Abandoned(<<r, a>>))
  BY <1>1 DEF Abandoned, Left
<1> QED BY <1>2, <1>3, SameCall

-----------------------------------------------------------------------------
(* The steps of ControlledCall that steps of the runner map to             *)

Phases == [c \in Calls |-> CallPhase(c)]
Outcomes == [c \in Calls |-> CallResult(c)]

\* All calls but one are where they were.
Only(r, a) == \A s \in Runs, b \in Actions : s # r \/ b # a => Same(s, b)

LEMMA OneMoves ==
  ASSUME NEW r \in Runs, NEW a \in Actions, Only(r, a)
  PROVE  /\ Phases' = [Phases EXCEPT ![<<r, a>>] = CallPhase(<<r, a>>)']
         /\ Outcomes' = [Outcomes EXCEPT ![<<r, a>>] = CallResult(<<r, a>>)']
<1>1. \A c \in Calls : c # <<r, a>> => CallPhase(c)' = CallPhase(c) /\ CallResult(c)' = CallResult(c)
  <2> SUFFICES ASSUME NEW s \in Runs, NEW b \in Actions, <<s, b>> # <<r, a>>
               PROVE  /\ CallPhase(<<s, b>>)' = CallPhase(<<s, b>>)
                      /\ CallResult(<<s, b>>)' = CallResult(<<s, b>>)
    BY DEF Calls
  <2> QED BY DEF Only, Same
<1>2. <<r, a>> \in Calls
  BY DEF Calls
<1>3. Phases' = [Phases EXCEPT ![<<r, a>>] = CallPhase(<<r, a>>)']
  BY <1>1, <1>2 DEF Phases
<1>4. Outcomes' = [Outcomes EXCEPT ![<<r, a>>] = CallResult(<<r, a>>)']
  BY <1>1, <1>2 DEF Outcomes
<1> QED BY <1>3, <1>4

\* The result stays, unless the call ends.
LEMMA NoResult ==
  ASSUME NEW r \in Runs, NEW a \in Actions, Only(r, a),
         CallPhase(<<r, a>>) # "done", CallPhase(<<r, a>>)' # "done"
  PROVE  Outcomes' = Outcomes
<1>1. CallResult(<<r, a>>) = "none" /\ CallResult(<<r, a>>)' = "none"
  BY CallIs, CallIsNext
<1>2. Outcomes' = [Outcomes EXCEPT ![<<r, a>>] = "none"]
  BY <1>1, OneMoves
<1>3. Outcomes[<<r, a>>] = "none"
  BY <1>1 DEF Outcomes, Calls
<1> QED BY <1>2, <1>3 DEF Outcomes

LEMMA Stutters ==
  ASSUME \A r \in Runs, a \in Actions : Same(r, a), acts' = acts
  PROVE  UNCHANGED Call!vars
<1>1. \A c \in Calls : CallPhase(c)' = CallPhase(c) /\ CallResult(c)' = CallResult(c)
  BY DEF Calls, Same
<1>2. Phases' = Phases /\ Outcomes' = Outcomes
  BY <1>1 DEF Phases, Outcomes
<1> QED BY <1>2 DEF Call!vars, Phases, Outcomes, Calls

LEMMA Starts ==
  ASSUME NEW r \in Runs, NEW a \in Actions, Only(r, a), acts' = acts,
         CallPhase(<<r, a>>) = "new", CallPhase(<<r, a>>)' = "running"
  PROVE  Call!Next
<1>1. Phases' = [Phases EXCEPT ![<<r, a>>] = "running"] /\ Outcomes' = Outcomes
  BY OneMoves, NoResult
<1>2. Phases[<<r, a>>] = "new" /\ <<r, a>> \in Calls
  BY DEF Phases, Calls
<1>3. Call!Start(<<r, a>>)
  BY <1>1, <1>2 DEF Call!Start, Call!Go, Phases, Outcomes, Calls
<1> QED BY <1>2, <1>3 DEF Call!Next, Calls

LEMMA Holds ==
  ASSUME NEW r \in Runs, NEW a \in Actions, Only(r, a), acts' = acts,
         CallPhase(<<r, a>>) = "running", CallPhase(<<r, a>>)' = "review"
  PROVE  Call!Next
<1>1. Phases' = [Phases EXCEPT ![<<r, a>>] = "review"] /\ Outcomes' = Outcomes
  BY OneMoves, NoResult
<1>2. Phases[<<r, a>>] = "running" /\ <<r, a>> \in Calls
  BY DEF Phases, Calls
<1>3. Call!Hold(<<r, a>>)
  BY <1>1, <1>2 DEF Call!Hold, Call!Go, Phases, Outcomes, Calls
<1> QED BY <1>2, <1>3 DEF Call!Next, Calls

LEMMA Refuses ==
  ASSUME NEW r \in Runs, NEW a \in Actions, Only(r, a), acts' = acts,
         CallPhase(<<r, a>>) \in {"new", "running", "review"},
         CallPhase(<<r, a>>)' = "done", CallResult(<<r, a>>)' \in {"blocked", "raised"}
  PROVE  Call!Next
<1> DEFINE v == CallResult(<<r, a>>)'
<1>1. /\ Phases' = [Phases EXCEPT ![<<r, a>>] = "done"]
      /\ Outcomes' = [Outcomes EXCEPT ![<<r, a>>] = v]
  BY OneMoves
<1>2. Phases[<<r, a>>] \in {"new", "running", "review"} /\ <<r, a>> \in Calls
  BY DEF Phases, Calls
<1>3. v \in {"blocked", "raised"}
  OBVIOUS
<1> HIDE DEF v
<1>4. Call!Refuse(<<r, a>>, v)
  BY <1>1, <1>2, <1>3 DEF Call!Refuse, Call!Go, Phases, Outcomes, Calls
<1> QED BY <1>2, <1>3, <1>4 DEF Call!Next, Calls

LEMMA Executes ==
  ASSUME NEW r \in Runs, NEW a \in Actions, Only(r, a),
         CallPhase(<<r, a>>) \in {"running", "review"},
         CallPhase(<<r, a>>)' = "done", CallResult(<<r, a>>)' \in {"success", "error"},
         acts \in [Runs \X Actions -> Nat],
         acts' = acts \/ acts' = [acts EXCEPT ![<<r, a>>] = @ + 1]
  PROVE  Call!Next
<1> DEFINE v == CallResult(<<r, a>>)'
<1>1. /\ Phases' = [Phases EXCEPT ![<<r, a>>] = "done"]
      /\ Outcomes' = [Outcomes EXCEPT ![<<r, a>>] = v]
  BY OneMoves
<1>2. Phases[<<r, a>>] \in {"running", "review"} /\ <<r, a>> \in Calls
  BY DEF Phases, Calls
<1>3. v \in {"success", "error"}
  OBVIOUS
<1>4. \E n \in {0, 1} : acts' = [acts EXCEPT ![<<r, a>>] = @ + n]
  <2>1. acts[<<r, a>>] \in Nat
    OBVIOUS
  <2>2. acts' = acts => acts' = [acts EXCEPT ![<<r, a>>] = @ + 0]
    BY <2>1
  <2> QED BY <2>2
<1> HIDE DEF v
<1>5. Call!Execute(<<r, a>>, v)
  BY <1>1, <1>2, <1>3, <1>4 DEF Call!Execute, Call!Go, Phases, Outcomes, Calls
<1> QED BY <1>2, <1>3, <1>5 DEF Call!Next, Calls

-----------------------------------------------------------------------------
(* How the invariant is kept *)

LEMMA ActionStays ==
  ASSUME TypeOK, NEW q \in Requests
  PROVE  /\ \A r, status : Answer(q, r, status) => req'[q].action = req[q].action
         /\ \A r, n : LoopAt(q, r, n) => req'[q].action = req[q].action
<1>1. req \in [Requests -> RequestStates]
  BY Typed
<1>2. ASSUME NEW r, NEW status, Answer(q, r, status) PROVE req'[q].action = req[q].action
  BY <1>1, <1>2 DEF Answer, RequestStates
<1>3. ASSUME NEW r, NEW n, LoopAt(q, r, n) PROVE req'[q].action = req[q].action
  BY <1>1, <1>3 DEF LoopAt, RequestStates
<1> QED BY <1>2, <1>3

\* A request at work is alone with its run: it knows where each call stands.
Alone(q, r) ==
  /\ \A p \in Requests : Drives(p, r) => p = q
  /\ \A a \in Actions :
       /\ <<r, a>> \notin pending
       /\ InControl(<<r, a>>) <=> Controls(q, r, a)
       /\ Abandoned(<<r, a>>) => Places(steps[r], a) # {}
  /\ req[q].at = "controlling" =>
       req[q].action \in Actions /\ Places(steps[r], req[q].action) = {}
  /\ req[q].at \in Planning =>
       req[q].action = NoAction \/ Places(steps[r], req[q].action) # {}

LEMMA AtWork ==
  ASSUME CInv, NEW q \in Requests, NEW r \in Runs, req[q].run = r, req[q].at \in Active
  PROVE  TypeOK /\ Alone(q, r)
<1>1. /\ TypeOK /\ steps[r] \in Seq(AgentSteps) /\ Drives(q, r) /\ RunInv(r)
      /\ \A p \in Requests : Drives(p, r) => p = q
      /\ \A a \in Actions : <<r, a>> \notin pending
  BY ActiveFacts, Typed DEF CInv, IInv
<1>2. \A a \in Actions : InControl(<<r, a>>) <=> Controls(q, r, a)
  BY <1>1 DEF InControl, Controls, Drives, Active
<1>3. \A a \in Actions : Abandoned(<<r, a>>) => Places(steps[r], a) # {}
  BY <1>1 DEF CInv, CallInv, Dropped
<1>4. req[q].at = "controlling" => req[q].action \in Actions /\ Places(steps[r], req[q].action) = {}
  BY <1>1 DEF RunInv, Driven, Reused, Places
<1>5. req[q].at \in Planning => req[q].action = NoAction \/ Places(steps[r], req[q].action) # {}
  BY DEF CInv, Named
<1> QED BY <1>1, <1>2, <1>3, <1>4, <1>5 DEF Alone

\* Nobody drives the run of an action that awaits approval.
LEMMA AtRest ==
  ASSUME CInv, NEW r \in Runs, NEW a \in Actions, <<r, a>> \in pending
  PROVE  /\ TypeOK /\ steps[r] \in Seq(AgentSteps)
         /\ \A p \in Requests : ~Drives(p, r)
         /\ \A b \in Actions :
              /\ <<r, b>> \in pending => b = a
              /\ ~InControl(<<r, b>>)
              /\ Abandoned(<<r, b>>) => Places(steps[r], b) # {}
         /\ Len(steps[r]) > 0 /\ Places(steps[r], a) = {Len(steps[r])}
         /\ steps[r][Len(steps[r])].action = a /\ steps[r][Len(steps[r])].observation = "none"
         /\ held[r].action = a
<1>1. /\ TypeOK /\ steps[r] \in Seq(AgentSteps)
      /\ \A p \in Requests : ~Drives(p, r)
      /\ \A b \in Actions : <<r, b>> \in pending => b = a
      /\ Len(steps[r]) > 0 /\ steps[r][Len(steps[r])].action = a /\ held[r].action = a
  BY ParkedFacts, Typed DEF CInv, IInv
<1>2. \A b \in Actions : ~InControl(<<r, b>>)
  BY <1>1 DEF InControl, Drives, Active
<1>3. \A b \in Actions : Abandoned(<<r, b>>) => Places(steps[r], b) # {}
  BY DEF CInv, CallInv, Dropped
<1>4. Places(steps[r], a) = {Len(steps[r])} /\ steps[r][Len(steps[r])].observation = "none"
  BY DEF CInv, CallInv, Single
<1> QED BY <1>1, <1>2, <1>3, <1>4

\* What adding a step does to the places and first steps of actions.
Grown(u, t, s) ==
  /\ Len(t) = Len(u) + 1 /\ t[Len(t)] = s
  /\ \A a : /\ Places(u, a) # {} => Places(t, a) # {} /\ First(t, a) = First(u, a)
            /\ s.action # a => Places(t, a) = Places(u, a)
            /\ s.action = a /\ Places(u, a) = {} =>
                 Places(t, a) # {} /\ Places(t, a) = {Len(t)} /\ First(t, a) = s

LEMMA StepAdded ==
  ASSUME TypeOK, NEW r \in Runs, NEW s \in AgentSteps, AddStep(r, s)
  PROVE  /\ Grown(steps[r], steps'[r], s)
         /\ \A other \in Runs \ {r} : steps'[other] = steps[other]
<1> DEFINE u == steps[r]
           t == steps'[r]
<1>1. /\ u \in Seq(AgentSteps) /\ t \in Seq(AgentSteps) /\ Len(t) = Len(u) + 1
      /\ \A i \in 1..Len(u) : t[i] = u[i]
      /\ t[Len(u) + 1] = s
      /\ \A other \in Runs \ {r} : steps'[other] = steps[other]
  BY Typed, AddStepFacts
<1> HIDE DEF u, t
<1>2. ASSUME NEW a
      PROVE  /\ Places(u, a) # {} => Places(t, a) # {} /\ First(t, a) = First(u, a)
             /\ s.action # a => Places(t, a) = Places(u, a)
             /\ s.action = a /\ Places(u, a) = {} =>
                  Places(t, a) # {} /\ Places(t, a) = {Len(t)} /\ First(t, a) = s
  <2>1. /\ Places(u, a) # {} => Places(t, a) # {} /\ First(t, a) = First(u, a)
        /\ s.action # a => Places(t, a) = Places(u, a)
        /\ s.action = a /\ Places(u, a) = {} => Places(t, a) = {Len(t)} /\ First(t, a) = s
    BY <1>1, Appended
  <2> QED BY <2>1
<1>3. t[Len(t)] = s
  BY <1>1
<1>4. Grown(u, t, s)
  BY <1>1, <1>2, <1>3 DEF Grown
<1> QED BY <1>1, <1>4 DEF u, t

LEMMA NamedKept ==
  ASSUME CInv, NEW q \in Requests, NEW r \in Runs, Moves(q, r),
         \A a : Places(steps[r], a) # {} => Places(steps'[r], a) # {},
         req'[q].at # "idle",
         req'[q].at \in Planning =>
           /\ req'[q].run = r
           /\ req'[q].action = NoAction \/ Places(steps'[r], req'[q].action) # {}
  PROVE  Named'
<1>1. ASSUME NEW p \in Requests, p # q, req[p].at \in Planning
      PROVE  req[p].action = NoAction \/ Places(steps'[req[p].run], req[p].action) # {}
  <2>1. req[p].run \in Runs
    BY <1>1 DEF CInv, IInv, Idle, Active
  <2>2. req[p].action = NoAction \/ Places(steps[req[p].run], req[p].action) # {}
    BY <1>1 DEF CInv, Named
  <2> QED BY <2>1, <2>2 DEF Moves
<1>2. ASSUME NEW p \in Requests
      PROVE  /\ req'[p].at = "idle" => req'[p].action = NoAction
             /\ req'[p].at \in Planning =>
                  req'[p].action = NoAction \/ Places(steps'[req'[p].run], req'[p].action) # {}
  <2>1. CASE p = q
    BY <2>1
  <2>2. CASE p # q
    BY <1>1, <2>2 DEF Moves, CInv, Named
  <2> QED BY <2>1, <2>2
<1> QED BY <1>2 DEF Named

LEMMA CallInvElsewhere ==
  ASSUME CInv, NEW q \in Requests, NEW r, Moves(q, r), NEW s \in Runs \ {r}
  PROVE  CallInv(s)'
<1>1. s # NoRun
  BY NoRunAssumption
<1>2. \A p \in Requests : Drives(p, s)' <=> Drives(p, s)
  BY <1>1 DEF Moves, Drives
<1>3. \A a \in Actions : Abandoned(<<s, a>>)' <=> Abandoned(<<s, a>>)
  BY <1>1 DEF Moves, Abandoned
<1>4. steps'[s] = steps[s] /\ \A a \in Actions : <<s, a>> \in pending' <=> <<s, a>> \in pending
  BY DEF Moves
<1>5. CallInv(s)
  BY DEF CInv
<1>6. \A a \in Actions : Dropped(s, a)'
  BY <1>2, <1>3, <1>4, <1>5 DEF CallInv, Dropped
<1>7. \A a \in Actions : Single(s, a)'
  BY <1>4, <1>5 DEF CallInv, Single
<1> QED BY <1>6, <1>7 DEF CallInv

LEMMA StandsStill ==
  ASSUME NEW r, \A p \in Requests : ~Drives(p, r)', \A a \in Actions : <<r, a>> \notin pending'
  PROVE  CallInv(r)'
BY DEF CallInv, Dropped, Single

LEMMA GoesOn ==
  ASSUME NEW r, \A a \in Actions : Abandoned(<<r, a>>)' => Places(steps'[r], a) # {},
         \A a \in Actions : Single(r, a)'
  PROVE  CallInv(r)'
BY DEF CallInv, Dropped

-----------------------------------------------------------------------------
(* The actions *)

Mapped == Call!Next \/ UNCHANGED Call!vars
Kept == Named' /\ \A r \in Runs : CallInv(r)'

LEMMA OnlyHere ==
  ASSUME NEW q \in Requests, NEW r \in Runs, Moves(q, r), NEW a,
         \A b \in Actions \ {a} : Same(r, b)
  PROVE  Only(r, a)
BY Elsewhere DEF Only

LEMMA AllSame ==
  ASSUME NEW q \in Requests, NEW r, Moves(q, r), acts' = acts,
         r \in Runs => \A b \in Actions : Same(r, b)
  PROVE  Mapped
<1>1. \A s \in Runs, b \in Actions : Same(s, b)
  BY Elsewhere
<1> QED BY <1>1, Stutters DEF Mapped

LEMMA KeptIf ==
  ASSUME CInv, NEW q \in Requests, NEW r \in Runs, Moves(q, r), Named', CallInv(r)'
  PROVE  Kept
BY CallInvElsewhere DEF Kept

LEMMA RunMaps ==
  ASSUME CInv, NEW q \in Requests, NEW r \in Runs, Run(q, r)
  PROVE  Mapped /\ Kept
<1>0. /\ TypeOK /\ MaxSteps \in 1..20 /\ LoopAt(q, r, 1)
      /\ req[q].at = "idle" /\ req[q].run = NoRun /\ req[q].action = NoAction
      /\ \A p \in Requests : req[p].run # r
      /\ UNCHANGED <<steps, history, pending, held, acts>>
  BY MaxStepsAssumption DEF Run, CInv, IInv, Idle, Named
<1>1. /\ req'[q].at = "planning" /\ req'[q].run = r /\ req'[q].action = NoAction
      /\ \A other \in Requests \ {q} : req'[other] = req[other]
  <2>1. 1 \in 1..(MaxSteps + 1) /\ 1 <= MaxSteps
    BY <1>0
  <2> QED BY <1>0, <2>1, LoopAtFacts, ActionStays
<1>2. Moves(q, r)
  BY <1>0, <1>1 DEF Moves
<1>3. \A a \in Actions : <<r, a>> \notin pending
  BY <1>0 DEF CInv, IInv, RunInv, Untouched
<1>4. ASSUME NEW a \in Actions PROVE Same(r, a)
  BY <1>0, <1>1, <1>2, Beside DEF Controls, Left
<1>5. Mapped
  BY <1>0, <1>2, <1>4, AllSame
<1>6. Named'
  BY <1>0, <1>1, <1>2, NamedKept
<1>7. \A a \in Actions : ~Abandoned(<<r, a>>)'
  BY <1>0, <1>1 DEF Abandoned
<1>8. CallInv(r)'
  BY <1>0, <1>3, <1>7, GoesOn DEF Single
<1> QED BY <1>2, <1>5, <1>6, <1>8, KeptIf

LEMMA ApproveUnknownMaps ==
  ASSUME CInv, NEW q \in Requests, ApproveUnknown(q)
  PROVE  Mapped /\ Kept
<1>0. /\ TypeOK /\ req[q].at = "idle" /\ req[q].run = NoRun
      /\ Answer(q, NoRun, "refused") /\ UNCHANGED <<steps, history, pending, held, acts>>
  BY DEF ApproveUnknown, CInv, IInv, Idle
<1>1. /\ req'[q].at = "answered" /\ req'[q].run = NoRun
      /\ \A other \in Requests \ {q} : req'[other] = req[other]
  BY <1>0, AnswerFacts
<1>2. Moves(q, NoRun)
  BY <1>0, <1>1 DEF Moves
<1>3. Mapped
  BY <1>0, <1>2, NoRunAssumption, AllSame
<1>4. \A r \in Runs : CallInv(r)'
  BY <1>2, NoRunAssumption, CallInvElsewhere
<1>5. Named'
  BY <1>0, <1>1 DEF CInv, Named, Planning
<1> QED BY <1>3, <1>4, <1>5 DEF Kept

\* The run ends with a last step.
LEMMA EndsMaps ==
  ASSUME CInv, NEW q \in Requests, NEW r \in Runs, req[q].run = r, req[q].at \in Active,
         NEW s \in AgentSteps, AddStep(r, s),
         NEW status \in Finishes, Answer(q, r, status),
         UNCHANGED <<history, pending, held, acts>>,
         \/ req[q].at \in Planning /\ (s.action = NoAction \/ Places(steps[r], s.action) # {})
         \/ req[q].at \in Planning /\ s.status = "blocked" /\ s.observation = "over budget"
         \/ req[q].at = "controlling" /\ s.action = req[q].action /\ s.observation = "raised"
  PROVE  Mapped /\ Kept
<1>0. TypeOK /\ Alone(q, r)
  BY AtWork
<1>1. /\ req'[q].at = "answered" /\ req'[q].run = r /\ req'[q].action = req[q].action
      /\ \A other \in Requests \ {q} : req'[other] = req[other]
  BY <1>0, AnswerFacts, ActionStays
<1>2. /\ Grown(steps[r], steps'[r], s)
      /\ \A other \in Runs \ {r} : steps'[other] = steps[other]
  BY <1>0, StepAdded
<1>3. Moves(q, r)
  BY <1>1, <1>2 DEF Moves
<1>5. \A p \in Requests : ~Drives(p, r)'
  BY <1>0, <1>1, NobodyDrives DEF Alone
<1>6. Kept
  <2>1. Named'
    BY <1>1, <1>2, <1>3, NamedKept DEF Grown, Planning
  <2>2. CallInv(r)'
    BY <1>0, <1>5, StandsStill DEF Alone
  <2> QED BY <1>3, <2>1, <2>2, KeptIf
<1>7. ASSUME NEW a \in Actions, s.action # a \/ Places(steps[r], a) # {} PROVE Same(r, a)
  <2>1. ~Controls(q, r, a)
    BY <1>0, <1>7 DEF Alone, Controls, Planning
  <2>2. ~Controls(q, r, a)' /\ ~Left(q, r, a)
    BY <1>1 DEF Controls, Left, Active, Planning
  <2>3. Left(q, r, a)' => Places(steps[r], a) # {}
    <3>1. Left(q, r, a)' => req[q].action = a
      BY <1>1 DEF Left
    <3>2. CASE req[q].at \in Planning
      BY <1>0, <3>1, <3>2, NoActionAssumption DEF Alone
    <3>3. CASE req[q].at = "controlling"
      BY <1>7, <3>1, <3>3 DEF Planning
    <3> QED BY <3>2, <3>3 DEF Active
  <2> QED BY <1>0, <1>2, <1>3, <1>7, <2>1, <2>2, <2>3, Beside DEF Alone, Grown
<1>8. CASE \A a \in Actions : s.action # a \/ Places(steps[r], a) # {}
  BY <1>3, <1>6, <1>7, <1>8, AllSame
<1>9. ASSUME NEW a \in Actions, s.action = a, Places(steps[r], a) = {} PROVE Mapped
  <2>1. Only(r, a)
    BY <1>3, <1>7, <1>9, OnlyHere
  <2>2. CallPhase(<<r, a>>) \in {"new", "running"}
    BY <1>0, <1>9, CallIs DEF Alone
  <2>3. ~InControl(<<r, a>>)' /\ <<r, a>> \notin pending'
    BY <1>0, <1>5 DEF Alone, InControl, Drives, Active
  <2>4. CallPhase(<<r, a>>)' = "done"
    BY <1>2, <1>9, <2>3, CallIsNext DEF Grown
  <2>5. CallResult(<<r, a>>)' \in {"blocked", "raised"}
    <3>1. s.observation = "raised" \/ s.status = "blocked"
      BY <1>9, NoActionAssumption
    <3>2. First(steps'[r], a) = s /\ Places(steps'[r], a) # {}
      BY <1>2, <1>9 DEF Grown
    <3> QED BY <2>4, <3>1, <3>2, CallIsNext
  <2> QED BY <2>1, <2>2, <2>4, <2>5, Refuses DEF Mapped
<1> QED BY <1>6, <1>8, <1>9

\* A request stops working on its run.
LEMMA CancelMaps ==
  ASSUME CInv, NEW q \in Requests, Cancel(q)
  PROVE  Mapped /\ Kept
<1> PICK r \in Runs : req[q].run = r /\ req[q].at \in Active
  BY DEF Cancel, CInv, IInv, Idle
<1>same. Answer(q, r, "cancelled") /\ UNCHANGED <<steps, history, pending, held, acts>>
  BY DEF Cancel
<1>0. TypeOK /\ Alone(q, r)
  BY AtWork
<1>1. /\ req'[q].at = "answered" /\ req'[q].run = r /\ req'[q].action = req[q].action
      /\ \A other \in Requests \ {q} : req'[other] = req[other]
  BY <1>0, <1>same, AnswerFacts, ActionStays
<1>2. Moves(q, r)
  BY <1>1, <1>same DEF Moves
<1>3. \A p \in Requests : ~Drives(p, r)'
  BY <1>0, <1>1, NobodyDrives DEF Alone
<1>4. Kept
  <2>1. Named'
    BY <1>1, <1>2, <1>same, NamedKept DEF Planning
  <2>2. CallInv(r)'
    BY <1>0, <1>3, <1>same, StandsStill DEF Alone
  <2> QED BY <1>2, <2>1, <2>2, KeptIf
<1>5. ASSUME NEW a \in Actions, req[q].at \in Planning \/ req[q].action # a PROVE Same(r, a)
  <2>1. ~Controls(q, r, a) /\ ~Controls(q, r, a)' /\ ~Left(q, r, a)
    BY <1>1, <1>5 DEF Controls, Left, Active, Planning
  <2>2. Left(q, r, a)' => Places(steps[r], a) # {}
    BY <1>0, <1>1, <1>5, NoActionAssumption DEF Alone, Left
  <2> QED BY <1>2, <1>same, <2>1, <2>2, Beside
<1>6. CASE req[q].at \in Planning
  BY <1>2, <1>4, <1>5, <1>6, <1>same, AllSame
<1>7. CASE req[q].at = "controlling"
  <2> PICK a \in Actions : req[q].action = a
    BY <1>0, <1>7 DEF Alone
  <2>0. Places(steps[r], a) = {}
    BY <1>0, <1>7 DEF Alone
  <2>1. Only(r, a)
    BY <1>2, <1>5, OnlyHere
  <2>2. CallPhase(<<r, a>>) = "running"
    BY <1>0, <1>7, <2>0, CallIs DEF Alone, Controls
  <2>3. ~InControl(<<r, a>>)' /\ <<r, a>> \notin pending' /\ Abandoned(<<r, a>>)'
    BY <1>0, <1>1, <1>3, <1>same DEF Alone, InControl, Drives, Active, Abandoned
  <2>4. CallPhase(<<r, a>>)' = "done" /\ CallResult(<<r, a>>)' = "raised"
    BY <1>same, <2>0, <2>3, CallIsNext
  <2> QED BY <1>4, <1>same, <2>1, <2>2, <2>4, Refuses DEF Mapped
<1> QED BY <1>6, <1>7 DEF Active

LEMMA ProposesMaps ==
  ASSUME CInv, NEW q \in Requests, NEW a \in Actions, PlannerProposes(q, a)
  PROVE  Mapped /\ Kept
<1> PICK r \in Runs : req[q].run = r /\ req[q].at \in Active
  BY DEF PlannerProposes, CInv, IInv, Idle, Active, Planning
<1>0. TypeOK /\ Alone(q, r)
  BY AtWork
<1>same. /\ req[q].at = "planning" /\ Places(steps[r], a) = {}
         /\ UNCHANGED <<steps, history, pending, held, acts>>
  BY DEF PlannerProposes, Reused, Places
<1>1. /\ req'[q].at = "controlling" /\ req'[q].run = r /\ req'[q].action = a
      /\ \A other \in Requests \ {q} : req'[other] = req[other]
  <2>1. req \in [Requests -> RequestStates]
    BY <1>0, Typed
  <2> QED BY <2>1 DEF PlannerProposes, RequestStates
<1>2. Moves(q, r)
  BY <1>1, <1>same DEF Moves
<1>3. \A b \in Actions : Abandoned(<<r, b>>)' => Abandoned(<<r, b>>)
  BY <1>1 DEF Abandoned
<1>4. Kept
  <2>1. Named'
    BY <1>1, <1>2, <1>same, NamedKept DEF Planning
  <2>2. CallInv(r)'
    BY <1>0, <1>3, <1>same, GoesOn DEF Alone, Single
  <2> QED BY <1>2, <2>1, <2>2, KeptIf
<1>5. ASSUME NEW b \in Actions \ {a} PROVE Same(r, b)
  <2>1. ~Controls(q, r, b) /\ ~Controls(q, r, b)' /\ ~Left(q, r, b) /\ ~Left(q, r, b)'
    BY <1>1, <1>same DEF Controls, Left
  <2> QED BY <1>2, <1>same, <2>1, Beside
<1>6. Only(r, a)
  BY <1>2, <1>5, OnlyHere
<1>7. CallPhase(<<r, a>>) = "new"
  BY <1>0, <1>same, CallIs DEF Alone, Controls
<1>8. CallPhase(<<r, a>>)' = "running"
  BY <1>1, CallIsNext DEF InControl
<1> QED BY <1>4, <1>6, <1>7, <1>8, <1>same, Starts DEF Mapped

LEMMA LoopMoves ==
  ASSUME TypeOK, NEW q \in Requests, NEW r \in Runs, NEW n, LoopAt(q, r, n)
  PROVE  /\ req'[q].at \in Planning /\ req'[q].run = r /\ req'[q].action = req[q].action
         /\ \A other \in Requests \ {q} : req'[other] = req[other]
<1>1. req \in [Requests -> RequestStates]
  BY Typed
<1> QED BY <1>1 DEF LoopAt, RequestStates, Planning

LEMMA FilledFacts ==
  ASSUME NEW a \in Actions, NEW result \in Results
  PROVE  /\ Filled(a, result) \in AgentSteps /\ Filled(a, result).action = a
         /\ result = "review" => Filled(a, result).observation = "none"
         /\ result # "review" =>
              Filled(a, result).observation = result /\ Filled(a, result).status = result
BY DEF Filled, Step, AgentSteps, Results

\* The chain's result is recorded: the call ended, or it is parked.
LEMMA ControlledMaps ==
  ASSUME CInv, NEW q \in Requests, NEW result \in Results, Controlled(q, result)
  PROVE  Mapped /\ Kept
<1> PICK r \in Runs : req[q].run = r /\ req[q].at = "controlling"
  BY DEF Controlled, CInv, IInv, Idle, Active, Planning
<1>0. TypeOK /\ Alone(q, r)
  BY AtWork DEF Active
<1> PICK a \in Actions : req[q].action = a
  BY <1>0 DEF Alone
<1> DEFINE s == Filled(a, result)
<1>1. AddStep(r, s) /\ Acted(r, a, result)
  BY DEF Controlled
<1>2. \/ /\ result = "review" /\ pending' = pending \cup {<<r, a>>}
         /\ Answer(q, r, "approval_required")
      \/ result # "review" /\ LoopAt(q, r, req[q].step + 1) /\ pending' = pending
  BY DEF Controlled
<1>3. /\ s \in AgentSteps /\ s.action = a
      /\ result = "review" => s.observation = "none"
      /\ result # "review" => s.observation = result /\ s.status = result
  BY FilledFacts
<1> HIDE DEF s
<1>4. /\ req'[q].at = "answered" \/ (result # "review" /\ req'[q].at \in Planning)
      /\ req'[q].run = r /\ req'[q].action = a
      /\ \A other \in Requests \ {q} : req'[other] = req[other]
  BY <1>0, <1>2, AnswerFacts, ActionStays, LoopMoves
<1>5. /\ Grown(steps[r], steps'[r], s)
      /\ \A other \in Runs \ {r} : steps'[other] = steps[other]
  BY <1>0, <1>1, <1>3, StepAdded
<1>6. /\ Places(steps[r], a) = {} /\ Places(steps'[r], a) # {} /\ First(steps'[r], a) = s
      /\ Places(steps'[r], a) = {Len(steps'[r])} /\ steps'[r][Len(steps'[r])] = s
      /\ \A b : b # a => Places(steps'[r], b) = Places(steps[r], b)
      /\ \A b : Places(steps[r], b) # {} =>
           Places(steps'[r], b) # {} /\ First(steps'[r], b) = First(steps[r], b)
  BY <1>0, <1>3, <1>5 DEF Alone, Grown
<1>7. Moves(q, r)
  BY <1>2, <1>4, <1>5 DEF Moves
<1>8. ~InControl(<<r, a>>)'
  BY <1>0, <1>4 DEF Alone, InControl, Drives, Active, Planning
<1>9. ASSUME NEW b \in Actions \ {a} PROVE Same(r, b)
  <2>1. ~Controls(q, r, b) /\ ~Controls(q, r, b)' /\ ~Left(q, r, b) /\ ~Left(q, r, b)'
    BY <1>4 DEF Controls, Left, Planning
  <2>2. <<r, b>> \in pending' <=> <<r, b>> \in pending
    BY <1>2
  <2> QED BY <1>6, <1>7, <2>1, <2>2, Beside
<1>10. Only(r, a)
  BY <1>7, <1>9, OnlyHere
<1>11. CallPhase(<<r, a>>) = "running"
  BY <1>0, CallIs DEF Alone, Controls
<1>12. Kept
  <2>1. Named'
    BY <1>4, <1>6, <1>7, NamedKept DEF Planning
  <2>2. \A b \in Actions : Abandoned(<<r, b>>)' => Places(steps'[r], b) # {}
    <3>1. \A b \in Actions : Abandoned(<<r, b>>)' => Abandoned(<<r, b>>) \/ b = a
      BY <1>4 DEF Abandoned
    <3> QED BY <1>0, <1>6, <3>1 DEF Alone
  <2>3. \A b \in Actions : Single(r, b)'
    <3>1. \A b \in Actions : <<r, b>> \in pending' => b = a /\ result = "review"
      BY <1>0, <1>2 DEF Alone
    <3> QED BY <1>3, <1>6, <3>1 DEF Single
  <2>4. CallInv(r)'
    BY <2>2, <2>3, GoesOn
  <2> QED BY <1>7, <2>1, <2>4, KeptIf
<1>13. CASE result = "review"
  <2>1. CallPhase(<<r, a>>)' = "review"
    BY <1>2, <1>8, <1>13, CallIsNext
  <2>2. acts' = acts
    BY <1>1, <1>13 DEF Acted
  <2> QED BY <1>10, <1>11, <1>12, <2>1, <2>2, Holds DEF Mapped
<1>14. CASE result # "review"
  <2>1. <<r, a>> \notin pending'
    BY <1>0, <1>2, <1>14 DEF Alone
  <2>2. CallPhase(<<r, a>>)' = "done"
    BY <1>6, <1>8, <2>1, CallIsNext
  <2>3. CallResult(<<r, a>>)' = result
    BY <1>3, <1>6, <1>14, <2>2, CallIsNext DEF Results
  <2>4. CASE result = "blocked"
    <3>1. acts' = acts
      BY <1>1, <2>4 DEF Acted
    <3> QED BY <1>10, <1>11, <1>12, <2>2, <2>3, <2>4, <3>1, Refuses DEF Mapped
  <2>5. CASE result \in {"success", "error"}
    <3>1. acts' = acts \/ acts' = [acts EXCEPT ![<<r, a>>] = @ + 1]
      BY <1>1 DEF Acted
    <3>2. acts \in [Runs \X Actions -> Nat]
      BY <1>0, Typed
    <3> QED BY <1>10, <1>11, <1>12, <2>2, <2>3, <2>5, <3>1, <3>2, Executes DEF Mapped
  <2> QED BY <1>14, <2>4, <2>5 DEF Results
<1> QED BY <1>13, <1>14

LEMMA ControlFailsMaps ==
  ASSUME CInv, NEW q \in Requests, ControlFails(q)
  PROVE  Mapped /\ Kept
<1> PICK r \in Runs : req[q].run = r
  BY DEF ControlFails, CInv, IInv, Idle, Active
<1> DEFINE s == Step(req[q].action, "error", "raised")
<1>1. /\ req[q].at = "controlling" /\ AddStep(r, s) /\ Answer(q, r, "failed")
      /\ UNCHANGED <<history, pending, held, acts>>
  BY DEF ControlFails
<1>2. req[q].action \in Actions
  BY <1>1, AtWork DEF Alone, Active
<1>3. s \in AgentSteps /\ s.action = req[q].action /\ s.observation = "raised"
  BY <1>2 DEF Step, AgentSteps
<1> HIDE DEF s
<1>4. "failed" \in Finishes /\ req[q].at \in Active
  BY <1>1 DEF Finishes, Active
<1> QED BY <1>1, <1>3, <1>4, EndsMaps

LEMMA PlannerMaps ==
  ASSUME CInv, NEW q \in Requests, Planner(q)
  PROVE  Mapped /\ Kept
<1>1. req[q].at \in Planning /\ req[q].at \in Active
  BY DEF Planner, PlannerFails, PlannerFinishes, PlannerExceedsBudget, PlannerRepeats,
         PlannerProposes, Active, Planning
<1> PICK r \in Runs : req[q].run = r
  BY <1>1 DEF CInv, IInv, Idle
<1>2. ASSUME NEW s \in AgentSteps, NEW status \in Finishes, AddStep(r, s), Answer(q, r, status),
             UNCHANGED <<history, pending, held, acts>>,
             \/ s.action = NoAction
             \/ Places(steps[r], s.action) # {}
             \/ s.status = "blocked" /\ s.observation = "over budget"
      PROVE  Mapped /\ Kept
  BY <1>1, <1>2, EndsMaps
<1>3. CASE PlannerFails(q)
  <2>1. /\ AddStep(r, Step(NoAction, "error", "none")) /\ Answer(q, r, "failed")
        /\ UNCHANGED <<history, pending, held, acts>>
    BY <1>3 DEF PlannerFails
  <2>2. /\ Step(NoAction, "error", "none") \in AgentSteps
        /\ Step(NoAction, "error", "none").action = NoAction /\ "failed" \in Finishes
    BY DEF Step, AgentSteps, Finishes
  <2> QED BY <1>2, <2>1, <2>2
<1>4. ASSUME NEW status \in Finishes, PlannerFinishes(q, status) PROVE Mapped /\ Kept
  <2> DEFINE s == Step(NoAction, FinishStatus[status], "none")
  <2>1. AddStep(r, s) /\ Answer(q, r, status) /\ UNCHANGED <<history, pending, held, acts>>
    BY <1>4 DEF PlannerFinishes
  <2>2. s \in AgentSteps /\ s.action = NoAction
    BY DEF Step, AgentSteps, Finishes, FinishStatus
  <2> HIDE DEF s
  <2> QED BY <1>2, <2>1, <2>2
<1>5. ASSUME NEW a \in Actions, PlannerExceedsBudget(q, a) PROVE Mapped /\ Kept
  <2> DEFINE s == Step(a, "blocked", "over budget")
  <2>1. AddStep(r, s) /\ Answer(q, r, "blocked") /\ UNCHANGED <<history, pending, held, acts>>
    BY <1>5 DEF PlannerExceedsBudget
  <2>2. /\ s \in AgentSteps /\ s.status = "blocked" /\ s.observation = "over budget"
        /\ "blocked" \in Finishes
    BY DEF Step, AgentSteps, Finishes
  <2> HIDE DEF s
  <2> QED BY <1>2, <2>1, <2>2
<1>6. ASSUME NEW a \in Actions, PlannerRepeats(q, a) PROVE Mapped /\ Kept
  <2> DEFINE s == Step(a, "error", "none")
  <2>1. AddStep(r, s) /\ Answer(q, r, "failed") /\ UNCHANGED <<history, pending, held, acts>>
    BY <1>6 DEF PlannerRepeats
  <2>2. s \in AgentSteps /\ s.action = a /\ "failed" \in Finishes
    BY DEF Step, AgentSteps, Finishes
  <2>3. Places(steps[r], a) # {}
    BY <1>6 DEF PlannerRepeats, Reused, Places
  <2> HIDE DEF s
  <2> QED BY <1>2, <2>1, <2>2, <2>3
<1> QED BY <1>3, <1>4, <1>5, <1>6, ProposesMaps DEF Planner

\* What refilling the last step does to the places and first steps of actions.
LEMMA StepReplaced ==
  ASSUME CInv, NEW r \in Runs, NEW a \in Actions, <<r, a>> \in pending,
         NEW result \in Results, Refill(r, result)
  PROVE  /\ \A other \in Runs \ {r} : steps'[other] = steps[other]
         /\ \A b : /\ Places(steps'[r], b) = Places(steps[r], b)
                   /\ Places(steps[r], b) # {} /\ b # a => First(steps'[r], b) = First(steps[r], b)
         /\ Places(steps'[r], a) = {Len(steps'[r])} /\ Places(steps'[r], a) # {}
         /\ steps'[r][Len(steps'[r])] = Filled(a, result) /\ First(steps'[r], a) = Filled(a, result)
<1> DEFINE u == steps[r]
           t == steps'[r]
<1>1. /\ u \in Seq(AgentSteps) /\ Len(u) > 0 /\ TypeOK /\ held[r].action = a
      /\ Places(u, a) = {Len(u)} /\ u[Len(u)].action = a
  BY AtRest
<1>2. /\ t \in Seq(AgentSteps) /\ Len(t) = Len(u)
      /\ \A i \in 1..(Len(u) - 1) : t[i] = u[i]
      /\ t[Len(u)] = Filled(a, result)
      /\ \A other \in Runs \ {r} : steps'[other] = steps[other]
  BY <1>1, RefillFacts
<1>3. t[Len(u)].action = u[Len(u)].action
  BY <1>1, <1>2, FilledFacts
<1> HIDE DEF u, t
<1>4. ASSUME NEW b
      PROVE  /\ Places(t, b) = Places(u, b)
             /\ Places(u, b) # {} /\ u[Len(u)].action # b => First(t, b) = First(u, b)
             /\ Places(u, b) = {Len(u)} => First(t, b) = t[Len(u)]
  BY <1>1, <1>2, <1>3, Replaced
<1>5. /\ \A b : /\ Places(t, b) = Places(u, b)
                /\ Places(u, b) # {} /\ b # a => First(t, b) = First(u, b)
      /\ Places(t, a) = {Len(t)} /\ Places(t, a) # {}
      /\ t[Len(t)] = Filled(a, result) /\ First(t, a) = Filled(a, result)
  BY <1>1, <1>2, <1>4
<1> QED BY <1>2, <1>5 DEF u, t

\* The approved action ended, or is reviewed once more.
LEMMA ApproveMaps ==
  ASSUME CInv, NEW q \in Requests, NEW r \in Runs, NEW a \in Actions, NEW result \in Results,
         Approve(q, r, a, result)
  PROVE  Mapped /\ Kept
<1>1. /\ req[q].at = "idle" /\ <<r, a>> \in pending /\ Refill(r, result) /\ Acted(r, a, result)
      /\ req[q].run = NoRun /\ req[q].action = NoAction
  BY DEF Approve, CInv, IInv, Idle, Named
<1>2. /\ TypeOK
      /\ \A p \in Requests : ~Drives(p, r)
      /\ \A b \in Actions :
           /\ <<r, b>> \in pending => b = a
           /\ ~InControl(<<r, b>>)
           /\ Abandoned(<<r, b>>) => Places(steps[r], b) # {}
      /\ Places(steps[r], a) # {}
  BY <1>1, AtRest
<1> DEFINE s == Filled(a, result)
<1>3. /\ \A other \in Runs \ {r} : steps'[other] = steps[other]
      /\ \A b : /\ Places(steps'[r], b) = Places(steps[r], b)
                /\ Places(steps[r], b) # {} /\ b # a => First(steps'[r], b) = First(steps[r], b)
      /\ Places(steps'[r], a) = {Len(steps'[r])} /\ Places(steps'[r], a) # {}
      /\ steps'[r][Len(steps'[r])] = s /\ First(steps'[r], a) = s
  BY <1>1, StepReplaced
<1>4. /\ s \in AgentSteps /\ s.action = a
      /\ result = "review" => s.observation = "none"
      /\ result # "review" => s.observation = result /\ s.status = result
  BY FilledFacts
<1> HIDE DEF s
<1>5. \/ result = "review" /\ pending' = pending
      \/ result # "review" /\ pending' = pending \ {<<r, a>>}
  BY DEF Approve, Unpark
<1>6. \/ \E status \in {"approval_required", "blocked", "failed"} : Answer(q, r, status)
      \/ LoopAt(q, r, ResumeStep(r))
  BY DEF Approve
<1>7. /\ req'[q].at = "answered" \/ req'[q].at \in Planning
      /\ result = "review" => req'[q].at = "answered"
      /\ req'[q].run = r /\ req'[q].action = NoAction
      /\ \A other \in Requests \ {q} : req'[other] = req[other]
  <2>1. ASSUME NEW status \in {"approval_required", "blocked", "failed"}, Answer(q, r, status)
        PROVE  /\ req'[q].at = "answered" /\ req'[q].run = r /\ req'[q].action = NoAction
               /\ \A other \in Requests \ {q} : req'[other] = req[other]
    BY <1>1, <1>2, <2>1, AnswerFacts, ActionStays DEF Finishes
  <2>2. CASE LoopAt(q, r, ResumeStep(r))
    <3>1. result = "success" \/ \E status \in {"approval_required", "blocked", "failed"} : Answer(q, r, status)
      BY DEF Approve
    <3> QED BY <1>1, <1>2, <2>1, <2>2, <3>1, LoopMoves
  <2> QED BY <1>6, <2>1, <2>2
<1>8. Moves(q, r)
  BY <1>1, <1>3, <1>5, <1>7 DEF Moves
<1>9. \A b \in Actions : ~InControl(<<r, b>>)' /\ (Abandoned(<<r, b>>)' => Abandoned(<<r, b>>))
  BY <1>2, <1>7, NoActionAssumption DEF InControl, Abandoned, Planning
<1>10. ASSUME NEW b \in Actions \ {a} PROVE Same(r, b)
  <2>1. ~Controls(q, r, b) /\ ~Controls(q, r, b)' /\ ~Left(q, r, b) /\ ~Left(q, r, b)'
    BY <1>1, <1>7, NoActionAssumption DEF Controls, Left, Planning
  <2>2. <<r, b>> \in pending' <=> <<r, b>> \in pending
    BY <1>5
  <2> QED BY <1>3, <1>8, <2>1, <2>2, Beside
<1>11. Only(r, a)
  BY <1>8, <1>10, OnlyHere
<1>12. CallPhase(<<r, a>>) = "review"
  BY <1>1, <1>2, CallIs
<1>13. Kept
  <2>1. Named'
    BY <1>3, <1>7, <1>8, NamedKept DEF Planning
  <2>2. \A b \in Actions : Abandoned(<<r, b>>)' => Places(steps'[r], b) # {}
    BY <1>2, <1>3, <1>9
  <2>3. \A b \in Actions : Single(r, b)'
    <3>1. \A b \in Actions : <<r, b>> \in pending' => b = a /\ result = "review"
      BY <1>2, <1>5
    <3> QED BY <1>3, <1>4, <3>1 DEF Single
  <2>4. CallInv(r)'
    BY <2>2, <2>3, GoesOn
  <2> QED BY <1>8, <2>1, <2>4, KeptIf
<1>14. CASE result = "review"
  <2>1. CallPhase(<<r, a>>)' = "review"
    BY <1>1, <1>5, <1>9, <1>14, CallIsNext
  <2>2. Same(r, a)
    BY <1>12, <2>1, CallIs, CallIsNext DEF Same
  <2>3. acts' = acts
    BY <1>1, <1>14 DEF Acted
  <2> QED BY <1>8, <1>10, <1>13, <2>2, <2>3, AllSame
<1>15. CASE result # "review"
  <2>1. <<r, a>> \notin pending'
    BY <1>5, <1>15
  <2>2. CallPhase(<<r, a>>)' = "done"
    BY <1>3, <1>9, <2>1, CallIsNext
  <2>3. CallResult(<<r, a>>)' = result
    BY <1>3, <1>4, <1>15, <2>2, CallIsNext DEF Results
  <2>4. CASE result = "blocked"
    <3>1. acts' = acts
      BY <1>1, <2>4 DEF Acted
    <3> QED BY <1>11, <1>12, <1>13, <2>2, <2>3, <2>4, <3>1, Refuses DEF Mapped
  <2>5. CASE result \in {"success", "error"}
    <3>1. acts' = acts \/ acts' = [acts EXCEPT ![<<r, a>>] = @ + 1]
      BY <1>1 DEF Acted
    <3>2. acts \in [Runs \X Actions -> Nat]
      BY <1>2, Typed
    <3> QED BY <1>11, <1>12, <1>13, <2>2, <2>3, <2>5, <3>1, <3>2, Executes DEF Mapped
  <2> QED BY <1>15, <2>4, <2>5 DEF Results
<1> QED BY <1>14, <1>15

\* The approval was taken out and nothing came of it.
LEMMA ApproveRefusedMaps ==
  ASSUME CInv, NEW q \in Requests, NEW r \in Runs, NEW a \in Actions, ApproveRefused(q, r, a)
  PROVE  Mapped /\ Kept
<1>1. /\ req[q].at = "idle" /\ <<r, a>> \in pending /\ pending' = pending \ {<<r, a>>}
      /\ Answer(q, r, "refused") /\ UNCHANGED <<steps, history, held, acts>>
      /\ req[q].run = NoRun /\ req[q].action = NoAction
  BY DEF ApproveRefused, Unpark, CInv, IInv, Idle, Named
<1>2. /\ TypeOK /\ steps[r] \in Seq(AgentSteps)
      /\ \A p \in Requests : ~Drives(p, r)
      /\ \A b \in Actions : (<<r, b>> \in pending => b = a) /\ ~InControl(<<r, b>>)
      /\ Places(steps[r], a) = {Len(steps[r])} /\ steps[r][Len(steps[r])].observation = "none"
  BY <1>1, AtRest
<1>3. /\ req'[q].at = "answered" /\ req'[q].run = r /\ req'[q].action = NoAction
      /\ \A other \in Requests \ {q} : req'[other] = req[other]
  BY <1>1, <1>2, AnswerFacts, ActionStays
<1>4. Moves(q, r)
  BY <1>1, <1>3 DEF Moves
<1>5. \A p \in Requests : ~Drives(p, r)'
  BY <1>2, <1>3 DEF Drives, Active, Planning
<1>6. Kept
  <2>1. Named'
    BY <1>1, <1>3, <1>4, NamedKept DEF Planning
  <2>2. \A b \in Actions : <<r, b>> \notin pending'
    BY <1>1, <1>2
  <2>3. CallInv(r)'
    BY <1>5, <2>2, StandsStill
  <2> QED BY <1>4, <2>1, <2>3, KeptIf
<1>7. ASSUME NEW b \in Actions \ {a} PROVE Same(r, b)
  <2>1. ~Controls(q, r, b) /\ ~Controls(q, r, b)' /\ ~Left(q, r, b) /\ ~Left(q, r, b)'
    BY <1>1, <1>3, NoActionAssumption DEF Controls, Left
  <2>2. <<r, b>> \in pending' <=> <<r, b>> \in pending
    BY <1>1
  <2> QED BY <1>1, <1>4, <2>1, <2>2, Beside
<1>8. Only(r, a)
  BY <1>4, <1>7, OnlyHere
<1>9. CallPhase(<<r, a>>) = "review"
  BY <1>1, <1>2, CallIs
<1>10. ~InControl(<<r, a>>)' /\ <<r, a>> \notin pending'
  BY <1>1, <1>5 DEF InControl, Drives, Active
<1>11. CallPhase(<<r, a>>)' = "done"
  BY <1>1, <1>2, <1>10, CallIsNext
<1>12. CallResult(<<r, a>>)' = "raised"
  <2>1. First(steps[r], a) = steps[r][Len(steps[r])]
    BY <1>2, FirstAt
  <2> QED BY <1>1, <1>2, <1>11, <2>1, CallIsNext
<1> QED BY <1>1, <1>6, <1>8, <1>9, <1>11, <1>12, Refuses DEF Mapped

\* A restart ends every call that had begun, and starts none.
LEMMA RestartMaps ==
  ASSUME CInv, Restart
  PROVE  Mapped /\ Kept
<1>1. /\ pending' = {} /\ UNCHANGED <<steps, acts>>
      /\ \A q \in Requests :
           /\ req'[q].at \notin Active
           /\ req'[q].at = "idle" \/ req[q].at \notin Active => req'[q] = req[q]
           /\ req'[q].run = req[q].run /\ req'[q].action = req[q].action
           /\ req[q].at \in Active => req'[q].at = "answered"
  <2>1. /\ pending' = {} /\ UNCHANGED <<steps, acts>> /\ req \in [Requests -> RequestStates]
        /\ req' = [q \in Requests |->
             IF req[q].at \in Active THEN [req[q] EXCEPT !.at = "answered", !.answer = "cancelled"]
                                     ELSE req[q]]
    BY Typed DEF Restart, CInv, IInv
  <2>2. ASSUME NEW q \in Requests
        PROVE  /\ req'[q].at \notin Active
               /\ req'[q].at = "idle" \/ req[q].at \notin Active => req'[q] = req[q]
               /\ req'[q].run = req[q].run /\ req'[q].action = req[q].action
               /\ req[q].at \in Active => req'[q].at = "answered"
    <3>1. req[q] \in RequestStates
      BY <2>1
    <3>2. CASE req[q].at \in Active
      <4>1. req'[q] = [req[q] EXCEPT !.at = "answered", !.answer = "cancelled"]
        BY <2>1, <3>2
      <4> QED BY <3>1, <3>2, <4>1 DEF RequestStates, Active, Planning
    <3>3. CASE req[q].at \notin Active
      BY <2>1, <3>3
    <3> QED BY <3>2, <3>3
  <2> QED BY <2>1, <2>2
<1>2. Kept
  <2>1. \A r \in Runs, p \in Requests : ~Drives(p, r)'
    BY <1>1 DEF Drives
  <2>2. \A r \in Runs : CallInv(r)'
    BY <1>1, <2>1, StandsStill
  <2>3. Named'
    BY <1>1 DEF CInv, Named, Active
  <2> QED BY <2>2, <2>3 DEF Kept
<1>3. ASSUME NEW r \in Runs, NEW a \in Actions
      PROVE  /\ CallPhase(<<r, a>>)' = IF CallPhase(<<r, a>>) = "new" THEN "new" ELSE "done"
             /\ CallResult(<<r, a>>)' = IF CallPhase(<<r, a>>) \in {"new", "done"}
                                        THEN CallResult(<<r, a>>) ELSE "raised"
  <2>1. ~InControl(<<r, a>>)' /\ <<r, a>> \notin pending' /\ steps'[r] = steps[r]
    BY <1>1 DEF InControl, Active
  <2>2. InControl(<<r, a>>) => Abandoned(<<r, a>>)' /\ Places(steps[r], a) = {}
    <3> SUFFICES ASSUME NEW q \in Requests, req[q].at = "controlling", req[q].run = r, req[q].action = a
                 PROVE  Abandoned(<<r, a>>)' /\ Places(steps[r], a) = {}
      BY DEF InControl
    <3>1. req[q].at \in Active
      BY DEF Active
    <3>2. Places(steps[r], a) = {}
      BY <3>1, AtWork DEF Alone
    <3> QED BY <1>1, <3>1, <3>2 DEF Abandoned
  <2>3. Abandoned(<<r, a>>) => Abandoned(<<r, a>>)'
    BY <1>1 DEF Abandoned, Active, Planning
  <2>4. Abandoned(<<r, a>>)' => Abandoned(<<r, a>>) \/ InControl(<<r, a>>) \/ Places(steps[r], a) # {}
    <3> SUFFICES ASSUME NEW q \in Requests, req'[q].at = "answered", req'[q].run = r, req'[q].action = a
                 PROVE  Abandoned(<<r, a>>) \/ InControl(<<r, a>>) \/ Places(steps[r], a) # {}
      BY DEF Abandoned
    <3>1. req[q].run = r /\ req[q].action = a
      BY <1>1
    <3>2. CASE req[q].at \notin Active
      BY <1>1, <3>1, <3>2 DEF Abandoned
    <3>3. CASE req[q].at = "controlling"
      BY <3>1, <3>3 DEF InControl
    <3>4. CASE req[q].at \in Planning
      BY <3>1, <3>4, NoActionAssumption DEF CInv, Named
    <3> QED BY <3>2, <3>3, <3>4 DEF Active
  <2>5. <<r, a>> \in pending =>
          /\ Places(steps[r], a) # {} /\ First(steps[r], a).observation = "none"
          /\ ~InControl(<<r, a>>)
    <3> SUFFICES ASSUME <<r, a>> \in pending
                 PROVE  /\ Places(steps[r], a) # {} /\ First(steps[r], a).observation = "none"
                        /\ ~InControl(<<r, a>>)
      OBVIOUS
    <3>1. /\ steps[r] \in Seq(AgentSteps) /\ Places(steps[r], a) = {Len(steps[r])}
          /\ steps[r][Len(steps[r])].observation = "none" /\ ~InControl(<<r, a>>)
      BY AtRest
    <3>2. First(steps[r], a) = steps[r][Len(steps[r])]
      BY <3>1, FirstAt
    <3> QED BY <3>1, <3>2
  <2>6. CASE InControl(<<r, a>>)
    <3>1. CallPhase(<<r, a>>) = "running"
      BY <2>6, CallIs
    <3>2. CallPhase(<<r, a>>)' = "done" /\ CallResult(<<r, a>>)' = "raised"
      BY <2>1, <2>2, <2>6, CallIsNext
    <3> QED BY <3>1, <3>2
  <2>7. CASE <<r, a>> \in pending
    <3>1. CallPhase(<<r, a>>) = "review"
      BY <2>5, <2>7, CallIs
    <3>2. CallPhase(<<r, a>>)' = "done" /\ CallResult(<<r, a>>)' = "raised"
      BY <2>1, <2>5, <2>7, CallIsNext
    <3> QED BY <3>1, <3>2
  <2>8. CASE ~InControl(<<r, a>>) /\ <<r, a>> \notin pending
    <3>1. CallPhase(<<r, a>>)' = CallPhase(<<r, a>>) /\ CallPhase(<<r, a>>) \in {"new", "done"}
      BY <2>1, <2>3, <2>4, <2>8, CallIs, CallIsNext
    <3>2. CallResult(<<r, a>>)' = CallResult(<<r, a>>)
      BY <2>1, <3>1, CallIs, CallIsNext
    <3> QED BY <3>1, <3>2
  <2> QED BY <2>6, <2>7, <2>8
<1>4. Call!Lose
  <2>1. ASSUME NEW c \in Calls
        PROVE  /\ CallPhase(c)' = IF CallPhase(c) = "new" THEN "new" ELSE "done"
               /\ CallResult(c)' = IF CallPhase(c) \in {"new", "done"} THEN CallResult(c) ELSE "raised"
    BY <1>3 DEF Calls
  <2>2. Phases' = [c \in Calls |-> IF Phases[c] = "new" THEN "new" ELSE "done"]
    BY <2>1 DEF Phases
  <2>3. Outcomes' = [c \in Calls |-> IF Phases[c] \in {"new", "done"} THEN Outcomes[c] ELSE "raised"]
    BY <2>1 DEF Phases, Outcomes
  <2> QED BY <1>1, <2>2, <2>3 DEF Call!Lose, Phases, Outcomes, Calls
<1> QED BY <1>2, <1>4 DEF Mapped, Call!Next

-----------------------------------------------------------------------------
(* The refinement *)

LEMMA CInvInit == Init => CInv
<1> SUFFICES ASSUME Init PROVE CInv
  OBVIOUS
<1>1. IInv
  BY InitIInv
<1>2. /\ \A q \in Requests : req[q].at = "idle" /\ req[q].action = NoAction
      /\ pending = {}
  BY DEF Init
<1>3. Named
  BY <1>2 DEF Named, Planning
<1>4. \A r \in Runs : CallInv(r)
  BY <1>2 DEF CallInv, Dropped, Single, Abandoned
<1> QED BY <1>1, <1>3, <1>4 DEF CInv

LEMMA NextMaps ==
  ASSUME CInv, Next
  PROVE  Mapped /\ Kept
<1>1. ASSUME NEW q \in Requests, Chain(q) PROVE Mapped /\ Kept
  BY <1>1, ControlFailsMaps, ControlledMaps DEF Chain
<1> QED BY <1>1, RunMaps, PlannerMaps, CancelMaps, ApproveUnknownMaps, ApproveRefusedMaps,
           ApproveMaps, RestartMaps
    DEF Next

LEMMA CInvNext == CInv /\ [Next]_vars => CInv' /\ [Call!Next]_(Call!vars)
<1> SUFFICES ASSUME CInv, [Next]_vars PROVE CInv' /\ [Call!Next]_(Call!vars)
  OBVIOUS
<1>1. IInv'
  BY NextIInv DEF CInv
<1>2. CASE Next
  BY <1>1, <1>2, NextMaps DEF CInv, Kept, Mapped
<1>3. CASE UNCHANGED vars
  <2>0. UNCHANGED <<req, steps, history, pending, held, acts>>
    BY <1>3 DEF vars
  <2>1. Named'
    BY <2>0 DEF CInv, Named
  <2>2. \A r \in Runs : CallInv(r)'
    BY <2>0 DEF CInv, CallInv, Dropped, Single, Abandoned, Drives
  <2>3. \A r \in Runs, a \in Actions : Same(r, a)
    <3> TAKE r \in Runs, a \in Actions
    <3>1. (InControl(<<r, a>>)' <=> InControl(<<r, a>>)) /\ (Abandoned(<<r, a>>)' <=> Abandoned(<<r, a>>))
      BY <2>0 DEF InControl, Abandoned
    <3> QED BY <2>0, <3>1, SameCall
  <2> QED BY <1>1, <2>0, <2>1, <2>2, <2>3, Stutters DEF CInv
<1> QED BY <1>2, <1>3

\* Each action a planner proposes is one control call to whoever starts and
\* approves the run: it acts at most once, only while it is under control or
\* approved, and ends once, whether its request is answered, cancelled, or lost
\* in a restart between its review and its approval (runner.py:97, 150).
THEOREM Refinement == Spec => ImplementsControlledCall
<1>1. Init => Call!Init
  <2> SUFFICES ASSUME Init PROVE Call!Init
    OBVIOUS
  <2>1. ASSUME NEW r \in Runs, NEW a \in Actions
        PROVE  CallPhase(<<r, a>>) = "new" /\ CallResult(<<r, a>>) = "none"
    <3>1. ~InControl(<<r, a>>) /\ ~Abandoned(<<r, a>>) /\ <<r, a>> \notin pending
      BY DEF Init, InControl, Abandoned
    <3>2. Places(steps[r], a) = {}
      BY DEF Init, Places
    <3> QED BY <3>1, <3>2, CallIs
  <2>2. \A c \in Calls : CallPhase(c) = "new" /\ CallResult(c) = "none"
    BY <2>1 DEF Calls
  <2>3. Phases = [c \in Calls |-> "new"] /\ Outcomes = [c \in Calls |-> "none"]
    BY <2>2 DEF Phases, Outcomes
  <2>4. acts = [c \in Calls |-> 0]
    BY DEF Init, Calls
  <2> QED BY <2>3, <2>4 DEF Call!Init, Phases, Outcomes, Calls
<1> QED BY <1>1, CInvInit, CInvNext, PTL DEF Spec, ImplementsControlledCall, Call!Spec

-----------------------------------------------------------------------------
(* The trace tells what was done *)

\* What any step reports as a success has acted.
Successes ==
  \A r \in Runs : \A i \in DOMAIN steps[r] : steps[r][i].status = "success" =>
    steps[r][i].action \in Actions /\ acts[<<r, steps[r][i].action>>] > 0

ActsGrow == \A r \in Runs, a \in Actions : acts[<<r, a>>] > 0 => acts'[<<r, a>>] > 0

\* A step is as it was, or tells the truth.
Truthful(r, i) ==
  \/ i \in DOMAIN steps[r] /\ steps'[r][i] = steps[r][i]
  \/ steps'[r][i].status = "success" =>
       steps'[r][i].action \in Actions /\ acts'[<<r, steps'[r][i].action>>] > 0

LEMMA SuccessesKept ==
  ASSUME Successes, ActsGrow, \A r \in Runs : \A i \in DOMAIN steps'[r] : Truthful(r, i)
  PROVE  Successes'
BY DEF Successes, ActsGrow, Truthful

LEMMA ActedGrows ==
  ASSUME TypeOK, NEW r \in Runs, NEW a \in Actions, NEW result \in Results, Acted(r, a, result)
  PROVE  ActsGrow /\ (result = "success" => acts'[<<r, a>>] > 0)
<1>1. acts \in [Runs \X Actions -> Nat] /\ <<r, a>> \in Runs \X Actions
  BY Typed
<1>2. CASE UNCHANGED acts /\ result # "success"
  BY <1>2 DEF ActsGrow
<1>3. CASE acts' = [acts EXCEPT ![<<r, a>>] = @ + 1]
  <2>1. acts'[<<r, a>>] > 0
    BY <1>1, <1>3
  <2>2. \A s \in Runs, b \in Actions : <<s, b>> # <<r, a>> => acts'[<<s, b>>] = acts[<<s, b>>]
    BY <1>1, <1>3
  <2> QED BY <2>1, <2>2 DEF ActsGrow
<1> QED BY <1>2, <1>3 DEF Acted

LEMMA SuccessesAdd ==
  ASSUME TypeOK, Successes, ActsGrow, NEW r \in Runs, NEW s \in AgentSteps, AddStep(r, s),
         s.status = "success" => s.action \in Actions /\ acts'[<<r, s.action>>] > 0
  PROVE  Successes'
<1>1. /\ steps \in [Runs -> Seq(AgentSteps)] /\ steps' \in [Runs -> Seq(AgentSteps)]
      /\ Len(steps'[r]) = Len(steps[r]) + 1
      /\ \A i \in 1..Len(steps[r]) : steps'[r][i] = steps[r][i]
      /\ steps'[r][Len(steps[r]) + 1] = s
      /\ \A other \in Runs \ {r} : steps'[other] = steps[other]
  BY Typed, AddStepFacts
<1>2. DOMAIN steps[r] = 1..Len(steps[r]) /\ DOMAIN steps'[r] = 1..(Len(steps[r]) + 1)
      /\ Len(steps[r]) \in Nat
  BY <1>1
<1>3. ASSUME NEW i \in DOMAIN steps'[r] PROVE Truthful(r, i)
  <2>1. i \in 1..Len(steps[r]) \/ i = Len(steps[r]) + 1
    BY <1>2
  <2> QED BY <1>1, <1>2, <2>1 DEF Truthful
<1>4. \A other \in Runs \ {r} : \A i \in DOMAIN steps'[other] : Truthful(other, i)
  BY <1>1 DEF Truthful
<1> QED BY <1>3, <1>4, SuccessesKept

LEMMA SuccessesRefill ==
  ASSUME IInv, Successes, NEW r \in Runs, NEW a \in Actions, <<r, a>> \in pending,
         NEW result \in Results, Refill(r, result), Acted(r, a, result)
  PROVE  Successes'
<1>1. TypeOK /\ Len(steps[r]) > 0 /\ held[r].action = a
  BY ParkedFacts DEF IInv
<1>2. /\ steps \in [Runs -> Seq(AgentSteps)] /\ steps' \in [Runs -> Seq(AgentSteps)]
      /\ Len(steps'[r]) = Len(steps[r])
      /\ \A i \in 1..(Len(steps[r]) - 1) : steps'[r][i] = steps[r][i]
      /\ steps'[r][Len(steps[r])] = Filled(a, result)
      /\ \A other \in Runs \ {r} : steps'[other] = steps[other]
  BY <1>1, Typed, RefillFacts
<1>3. ActsGrow /\ (result = "success" => acts'[<<r, a>>] > 0)
  BY <1>1, ActedGrows
<1>4. Filled(a, result).action = a /\ (Filled(a, result).status = "success" => result = "success")
  BY DEF Filled, Step, Results
<1>5. DOMAIN steps[r] = 1..Len(steps[r]) /\ DOMAIN steps'[r] = 1..Len(steps[r])
      /\ Len(steps[r]) \in Nat
  BY <1>2
<1>6. ASSUME NEW i \in DOMAIN steps'[r] PROVE Truthful(r, i)
  <2>1. i \in 1..(Len(steps[r]) - 1) \/ i = Len(steps[r])
    BY <1>5
  <2> QED BY <1>2, <1>3, <1>4, <1>5, <2>1 DEF Truthful
<1>7. \A other \in Runs \ {r} : \A i \in DOMAIN steps'[other] : Truthful(other, i)
  BY <1>2 DEF Truthful
<1> QED BY <1>3, <1>6, <1>7, SuccessesKept

LEMMA SuccessesNext ==
  ASSUME IInv, Successes, [Next]_vars
  PROVE  Successes'
<1>0. TypeOK /\ \A q \in Requests : req[q].at \in Active => req[q].run \in Runs
  BY DEF IInv, Idle
<1>1. CASE UNCHANGED <<steps, acts>>
  BY <1>1 DEF Successes
<1>2. ASSUME NEW q \in Requests, req[q].at \in Active, NEW s \in AgentSteps,
             AddStep(req[q].run, s), s.status # "success", UNCHANGED acts
      PROVE  Successes'
  <2>1. ActsGrow
    BY <1>2 DEF ActsGrow
  <2> QED BY <1>0, <1>2, <2>1, SuccessesAdd
<1>3. ASSUME NEW q \in Requests, Planner(q) PROVE Successes'
  <2>1. CASE PlannerFails(q)
    <3>1. Step(NoAction, "error", "none") \in AgentSteps /\ Step(NoAction, "error", "none").status # "success"
      BY DEF Step, AgentSteps
    <3> QED BY <1>2, <2>1, <3>1 DEF PlannerFails, Active
  <2>2. ASSUME NEW status \in Finishes, PlannerFinishes(q, status) PROVE Successes'
    <3> DEFINE s == Step(NoAction, FinishStatus[status], "none")
    <3>1. s \in AgentSteps /\ s.status # "success"
      BY DEF Step, AgentSteps, Finishes, FinishStatus
    <3>2. AddStep(req[q].run, s) /\ req[q].at \in Active /\ UNCHANGED acts
      BY <2>2 DEF PlannerFinishes, Active
    <3> HIDE DEF s
    <3> QED BY <1>2, <3>1, <3>2
  <2>3. ASSUME NEW a \in Actions, PlannerExceedsBudget(q, a) \/ PlannerRepeats(q, a) PROVE Successes'
    <3>1. /\ Step(a, "blocked", "over budget") \in AgentSteps
          /\ Step(a, "blocked", "over budget").status # "success"
          /\ Step(a, "error", "none") \in AgentSteps /\ Step(a, "error", "none").status # "success"
      BY DEF Step, AgentSteps
    <3> QED BY <1>2, <2>3, <3>1 DEF PlannerExceedsBudget, PlannerRepeats, Active, Planning
  <2>4. ASSUME NEW a \in Actions, PlannerProposes(q, a) PROVE Successes'
    BY <1>1, <2>4 DEF PlannerProposes
  <2> QED BY <1>3, <2>1, <2>2, <2>3, <2>4 DEF Planner
<1>4. ASSUME NEW q \in Requests, ControlFails(q) PROVE Successes'
  <2>1. req[q] \in RequestStates
    BY <1>0, Typed
  <2>2. /\ Step(req[q].action, "error", "raised") \in AgentSteps
        /\ Step(req[q].action, "error", "raised").status # "success"
    BY <2>1 DEF Step, AgentSteps, RequestStates
  <2> QED BY <1>2, <1>4, <2>2 DEF ControlFails, Active
<1>5. ASSUME NEW q \in Requests, NEW result \in Results, Controlled(q, result) PROVE Successes'
  <2>1. /\ req[q].run \in Runs /\ req[q].action \in Actions
        /\ AddStep(req[q].run, Filled(req[q].action, result))
        /\ Acted(req[q].run, req[q].action, result)
    <3>1. req[q].at \in Active
      BY <1>5 DEF Controlled, Active
    <3>2. Drives(q, req[q].run) /\ RunInv(req[q].run)
      BY <3>1, ActiveFacts
    <3> QED BY <1>0, <1>5, <3>1, <3>2 DEF Controlled, RunInv, Driven
  <2>2. ActsGrow /\ (result = "success" => acts'[<<req[q].run, req[q].action>>] > 0)
    BY <1>0, <2>1, ActedGrows
  <2>3. /\ Filled(req[q].action, result) \in AgentSteps
        /\ Filled(req[q].action, result).action = req[q].action
        /\ Filled(req[q].action, result).status = "success" => result = "success"
    BY <2>1, FilledFacts DEF Filled, Step, Results
  <2> QED BY <1>0, <2>1, <2>2, <2>3, SuccessesAdd
<1>6. ASSUME NEW q \in Requests, NEW r \in Runs, NEW a \in Actions, NEW result \in Results,
             Approve(q, r, a, result)
      PROVE  Successes'
  BY <1>6, SuccessesRefill DEF Approve
<1>7. ASSUME NEW q \in Requests,
             \/ \E r \in Runs : Run(q, r)
             \/ Cancel(q) \/ ApproveUnknown(q)
             \/ \E r \in Runs, a \in Actions : ApproveRefused(q, r, a)
      PROVE  Successes'
  BY <1>1, <1>7 DEF Run, Cancel, ApproveUnknown, ApproveRefused
<1>8. CASE Restart
  BY <1>1, <1>8 DEF Restart
<1>9. CASE UNCHANGED vars
  BY <1>1, <1>9 DEF vars
<1> QED BY <1>3, <1>4, <1>5, <1>6, <1>7, <1>8, <1>9 DEF Next, Chain

\* What follows from each action's being a control call.
Promises == INSTANCE ControlledCallProofs WITH
  Calls  <- Runs \X Actions,
  Atomic <- TRUE,
  phase  <- [ra \in Runs \X Actions |-> CallPhase(ra)],
  result <- [ra \in Runs \X Actions |-> CallResult(ra)]

LEMMA KeepsPromise == Spec => []Promises!Promise
<1>1. Call!Init <=> Promises!Init
  BY DEF Call!Init, Promises!Init
<1>2. [Call!Next]_(Call!vars) <=> [Promises!Next]_(Promises!vars)
  BY DEF Call!Next, Promises!Next, Call!vars, Promises!vars, Call!Lose, Promises!Lose,
     Call!Start, Promises!Start, Call!Hold, Promises!Hold, Call!Approve, Promises!Approve,
     Call!Refuse, Promises!Refuse, Call!Execute, Promises!Execute, Call!Go, Promises!Go
<1>3. ImplementsControlledCall => Promises!Spec
  BY <1>1, <1>2, PTL DEF ImplementsControlledCall, Call!Spec, Promises!Spec
<1> QED BY <1>3, Refinement, Promises!Promised, PTL

\* Each action of a run is executed at most once, for any number of requests and
\* approvals, repeated or simultaneous, and the trace says of each whether it was:
\* a step that tells of a denial, of an exception or of a review that is still to
\* be approved is no act, and one that tells of a success is (runner.py:92-123, 150).
THEOREM TracesAreTrue == Spec => []ActsAsTold
<1>1. Promises!Promise /\ Successes => ActsAsTold
  <2> SUFFICES ASSUME Promises!Promise, Successes, NEW r \in Runs, NEW a \in Actions
               PROVE  /\ acts[<<r, a>>] <= 1
                      /\ acts[<<r, a>>] = 1 =>
                           /\ StepsOf(<<r, a>>) # {}
                           /\ FirstStep(<<r, a>>).status \in {"success", "error"}
                           /\ FirstStep(<<r, a>>).observation # "raised"
                      /\ \A i \in StepsOf(<<r, a>>) :
                           steps[r][i].status = "success" => acts[<<r, a>>] = 1
    BY DEF ActsAsTold
  <2>1. acts[<<r, a>>] \in {0, 1} /\ (acts[<<r, a>>] = 1 => CallResult(<<r, a>>) \in {"success", "error"})
    BY DEF Promises!Promise, Promises!Kept
  <2>2. acts[<<r, a>>] = 1 =>
          /\ StepsOf(<<r, a>>) # {} /\ FirstStep(<<r, a>>).status \in {"success", "error"}
          /\ FirstStep(<<r, a>>).observation # "raised"
    BY <2>1 DEF CallResult
  <2>3. \A i \in StepsOf(<<r, a>>) : steps[r][i].status = "success" => acts[<<r, a>>] > 0
    BY DEF Successes, StepsOf
  <2> QED BY <2>1, <2>2, <2>3
<1>2. Init => Successes
  BY DEF Init, Successes
<1>3. IInv /\ Successes /\ [Next]_vars => Successes'
  BY SuccessesNext
<1> QED BY <1>1, <1>2, <1>3, Invariance, KeepsPromise, PTL DEF Spec
=============================================================================
