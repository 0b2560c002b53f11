-------------------------------- MODULE DemoRun --------------------------------
(***************************************************************************)
(* The controlled agent as it is served over HTTP: the endpoints of        *)
(* api/routes.py with their two tokens (api/auth.py), the runner           *)
(* (AgentRunner) that create_controlled_agent puts behind them, its demo   *)
(* planner (agent/demo.py), and the public trace that a client gets        *)
(* (AgentTrace.public_dict).                                               *)
(*                                                                         *)
(* The planner has no state: it infers from the history alone what it did. *)
(* Its actions read README.md and write output/summary.md; other programs  *)
(* change both files at any time.                                          *)
(***************************************************************************)
EXTENDS Naturals, SequencesExt

CONSTANTS Requests, Runs, Actions, MaxSteps,
          Tokens,   \* what a client may present, and the owner may configure
          NoToken   \* nothing presented or configured

ASSUME NoTokenAssumption == NoToken \notin Tokens

VARIABLES
  req, steps, history, pending, held, acts,  \* the runner's
  tokens,      \* the two configured tokens
  readme,      \* README.md: "absent", "empty" or "text"
  summary,     \* output/summary.md: "absent", "file" or "directory"
  tool,        \* (run, action) -> the tool it proposes, or "none"
  output,      \* run -> the outputs of its history's observations
  seen,        \* request -> what its client reads in the answer
  startedBy,   \* history: run -> the token it was started with
  approvedBy,  \* history: (run, action) -> the token it was last approved with
  reviewed     \* history: the actions that were handed out for review

Runner == INSTANCE AgentRunner

ASSUME MaxStepsAssumption == MaxSteps \in 1..20
ASSUME NamesAssumption == Runner!NoRun \notin Runs /\ Runner!NoAction \notin Actions

runner == <<req, steps, history, pending, held, acts>>
files == <<readme, summary>>
ghosts == <<startedBy, approvedBy, reviewed>>
vars == <<runner, files, tokens, tool, output, seen, ghosts>>

Tools == {"read_file", "write_file"}
Outputs == {"text", "empty", "note", "reason"}
NoTool == "none"

-----------------------------------------------------------------------------
(* Tokens *)

\* Faulty variant: one token may do for both.
AuthorizedByEither(role, token) ==
  /\ tokens["execution"] # NoToken /\ tokens["approval"] # NoToken
  /\ token = tokens[role]

\* _require_token: both are configured, and they differ.
Authorized(role, token) ==
  /\ tokens["execution"] # NoToken /\ tokens["approval"] # NoToken
  /\ tokens["execution"] # tokens["approval"]
  /\ token = tokens[role]

Unauthorized(q) ==
  /\ req[q].at = "idle"
  /\ \E role \in {"execution", "approval"}, token \in Tokens \cup {NoToken} : ~Authorized(role, token)
  /\ Runner!Answer(q, Runner!NoRun, "refused")
  /\ UNCHANGED <<steps, history, pending, held, acts, files, tokens, tool, output, seen, ghosts>>

-----------------------------------------------------------------------------
(* The demo planner *)

\* Faulty variant: every success counts, even one that read nothing.
Successes(r) == {i \in DOMAIN history[r] : history[r][i] = "success"}

\* successful_reads: what the history shows was done.
SuccessfulReads(r) ==
  {i \in DOMAIN history[r] : history[r][i] = "success" /\ output[r][i] # "empty"}

\* DeterministicDemoAgent.propose for a task that asks for a README summary.
Plan(r) ==
  IF history[r] # <<>> /\ Last(history[r]) = "blocked" THEN "blocked"
  ELSE IF history[r] # <<>> /\ Last(history[r]) = "error" THEN "failed"
  ELSE IF Cardinality(SuccessfulReads(r)) = 0 THEN "read_file"
  ELSE IF Cardinality(SuccessfulReads(r)) = 1 THEN "write_file"
  ELSE "completed"

-----------------------------------------------------------------------------
(* The public trace *)

\* What step i of the trace holds of the files: the content its proposal is to
\* write, and the output that its tool result and its observation carry.
ToWrite(r, i) == IF tool'[<<r, steps'[r][i].action>>] = "write_file" THEN {"text"} ELSE {}
Observed(r, i) == IF i \in DOMAIN output'[r] THEN {output'[r][i]} ELSE {}

\* Faulty variant: only what was read is redacted.
RedactReads(r, i) ==
  ToWrite(r, i) \cup
    (IF tool'[<<r, steps'[r][i].action>>] = "read_file" THEN {} ELSE Observed(r, i))

\* public_dict: write_file's content and read_file's output are redacted.
Redacted(r, i) ==
  IF tool'[<<r, steps'[r][i].action>>] = "read_file" THEN {} ELSE Observed(r, i)

\* What a client reads in a trace: its steps (the pending action is that of the
\* last step) and its final output.
Tell(q, r, final) ==
  seen' = [seen EXCEPT ![q] = final \cup UNION {Redacted(r, i) :
    i \in {j \in DOMAIN steps'[r] : steps'[r][j].action # Runner!NoAction}}]

TellIfAnswered(q, r) ==
  IF req'[q].at = "answered" THEN Tell(q, r, {}) ELSE UNCHANGED seen

-----------------------------------------------------------------------------
(* run *)

Run(q, r) ==
  /\ \E token \in Tokens \cup {NoToken} :
       /\ Authorized("execution", token)
       /\ startedBy' = [startedBy EXCEPT ![r] = token]
  /\ Runner!Run(q, r)
  /\ UNCHANGED <<files, tokens, tool, output, seen, approvedBy, reviewed>>

\* Any other task is turned down before anything is done.
TurnDown(q) ==
  /\ req[q].run \in Runs /\ steps[req[q].run] = <<>>
  /\ Runner!PlannerFinishes(q, "blocked")
  /\ UNCHANGED <<files, tokens, tool, output, ghosts>>
  /\ Tell(q, req[q].run, {})

\* The final output of a run that is not completed is its last observation's.
Finish(q) ==
  LET r == req[q].run
  IN /\ req[q].at \in Runner!Planning
     /\ Plan(r) \notin Tools
     /\ Runner!PlannerFinishes(q, Plan(r))
     /\ UNCHANGED <<files, tokens, tool, output, ghosts>>
     /\ Tell(q, r, IF Plan(r) = "completed" THEN {} ELSE {Last(output[r])})

\* Every proposal gets a new action_id.
Propose(q, a) ==
  LET r == req[q].run
  IN /\ req[q].at \in Runner!Planning
     /\ Plan(r) \in Tools /\ tool[<<r, a>>] = NoTool
     /\ tool' = [tool EXCEPT ![<<r, a>>] = Plan(r)]
     /\ Runner!PlannerProposes(q, a) \/ Runner!PlannerExceedsBudget(q, a)
     /\ UNCHANGED <<files, tokens, output, ghosts>>
     /\ TellIfAnswered(q, r)

-----------------------------------------------------------------------------
(* The control chain with this tool on these files *)

\* The provider may block or ask for a review of either; the policy asks for one
\* when a file is to be replaced, and blocks the replacement of a directory.
Yields(ra, result, mayReplace) ==
  \/ result = "error"
  \/ result = "blocked"
  \/ result = "review" /\ ~mayReplace
  \/ result = "success" /\ tool[ra] = "read_file" /\ readme # "absent"
  \/ result = "success" /\ tool[ra] = "write_file"
       /\ (summary = "absent" \/ (summary = "file" /\ mayReplace))

\* Faulty variant: a review leaves an output although nothing was observed.
LeavesAlways(ra, result) ==
  /\ IF tool[ra] = "write_file" /\ result = "success" THEN summary' = "file" ELSE UNCHANGED summary
  /\ output' = [output EXCEPT ![ra[1]] =
                  Append(@, IF tool[ra] = "write_file" THEN "note" ELSE readme)]
  /\ reviewed' = reviewed \cup pending'
  /\ UNCHANGED <<readme, tokens, tool, startedBy>>

\* What a tool leaves behind: the file it wrote, and the output of each
\* observation that is added to the history.
Leaves(ra, result) ==
  /\ IF tool[ra] = "write_file" /\ result = "success" THEN summary' = "file" ELSE UNCHANGED summary
  /\ LET out == IF tool[ra] = "write_file" THEN "note" ELSE readme
     IN output' = IF history'[ra[1]] = history[ra[1]] THEN output
                  ELSE [output EXCEPT ![ra[1]] = Append(@, IF result = "success" THEN out ELSE "reason")]
  /\ reviewed' = reviewed \cup pending'
  /\ UNCHANGED <<readme, tokens, tool, startedBy>>

Controlled(q, result) ==
  LET ra == <<req[q].run, req[q].action>>
  IN /\ req[q].at = "controlling"
     /\ Yields(ra, result, FALSE)
     /\ Runner!Controlled(q, result)
     /\ result = "review" =>
          (held'[ra[1]].policy = "review" <=> tool[ra] = "write_file" /\ summary = "file")
     /\ Leaves(ra, result)
     /\ TellIfAnswered(q, ra[1])
     /\ UNCHANGED approvedBy

ControlFails(q) ==
  /\ Runner!ControlFails(q)
  /\ UNCHANGED <<files, tokens, tool, output, ghosts>>
  /\ Tell(q, req[q].run, {})

-----------------------------------------------------------------------------
(* approve *)

Approve(q, r, a, result) ==
  /\ \E token \in Tokens \cup {NoToken} :
       /\ Authorized("approval", token)
       /\ approvedBy' = [approvedBy EXCEPT ![<<r, a>>] = token]
  /\ Yields(<<r, a>>, result, held[r].policy = "review")
  /\ Runner!Approve(q, r, a, result)
  /\ Leaves(<<r, a>>, result)
  /\ TellIfAnswered(q, r)

ApproveRefused(q, r, a) ==
  /\ \E token \in Tokens \cup {NoToken} : Authorized("approval", token)
  /\ Runner!ApproveRefused(q, r, a) \/ Runner!ApproveUnknown(q)
  /\ UNCHANGED <<files, tokens, tool, output, seen, ghosts>>

-----------------------------------------------------------------------------
(* The environment *)

Interrupt ==
  /\ Runner!Restart \/ \E q \in Requests : Runner!Cancel(q)
  /\ UNCHANGED <<files, tokens, tool, output, seen, ghosts>>

FilesChange ==
  /\ \/ readme' \in {"absent", "empty", "text"} /\ UNCHANGED summary
     \/ summary' \in {"absent", "file", "directory"} /\ UNCHANGED readme
  /\ UNCHANGED <<runner, tokens, tool, output, seen, ghosts>>

-----------------------------------------------------------------------------
Init ==
  /\ Runner!Init
  /\ tokens \in [{"execution", "approval"} -> Tokens \cup {NoToken}]
  /\ readme \in {"absent", "empty", "text"} /\ summary \in {"absent", "file", "directory"}
  /\ tool = [ra \in Runs \X Actions |-> NoTool]
  /\ output = [r \in Runs |-> <<>>]
  /\ seen = [q \in Requests |-> {}]
  /\ startedBy = [r \in Runs |-> NoToken]
  /\ approvedBy = [ra \in Runs \X Actions |-> NoToken]
  /\ reviewed = {}

Next ==
  \/ \E q \in Requests :
       \/ Unauthorized(q) \/ TurnDown(q) \/ Finish(q) \/ ControlFails(q)
       \/ \E r \in Runs : Run(q, r)
       \/ \E a \in Actions : Propose(q, a)
       \/ \E result \in Runner!Results : Controlled(q, result)
       \/ \E r \in Runs, a \in Actions :
            \/ ApproveRefused(q, r, a)
            \/ \E result \in Runner!Results : Approve(q, r, a, result)
  \/ Interrupt
  \/ FilesChange

Spec == Init /\ [][Next]_vars

-----------------------------------------------------------------------------
(* Properties *)

\* Type invariant of what this module adds to the runner.
TypeOK ==
  /\ Runner!TypeOK
  /\ tokens \in [{"execution", "approval"} -> Tokens \cup {NoToken}]
  /\ readme \in {"absent", "empty", "text"} /\ summary \in {"absent", "file", "directory"}
  /\ tool \in [Runs \X Actions -> Tools \cup {NoTool}]
  /\ output \in [Runs -> Seq(Outputs)]
  /\ \A r \in Runs : Len(output[r]) = Len(history[r])
  /\ seen \in [Requests -> SUBSET Outputs]
  /\ startedBy \in [Runs -> Tokens \cup {NoToken}]
  /\ approvedBy \in [Runs \X Actions -> Tokens \cup {NoToken}]
  /\ reviewed \subseteq Runs \X Actions

\* "Summary saved" is true: a run that ends as completed has got text out of
\* README.md and has written a summary after it, each once, although its planner
\* only counts successes in a history that empty files, reviews, approvals,
\* restarts and the budget shape (demo.py:31-48).
Did(r, i, t) ==
  LET ra == <<r, steps[r][i].action>>
  IN history[r][i] = "success" /\ tool[ra] = t /\ acts[ra] = 1

CompletedMeansSaved ==
  \A q \in Requests : req[q].answer = "completed" =>
    LET r == req[q].run
    IN \E i, j \in DOMAIN history[r] :
         i < j /\ Did(r, i, "read_file") /\ output[r][i] = "text" /\ Did(r, j, "write_file")

\* No answer shows what was read or what is to be written, however the run ends
\* or pauses, not even through the planner's final output, which repeats an
\* observation (control/models.py:138-152, demo.py:22-30).
ContentsHidden == \A q \in Requests : "text" \notin seen[q]

\* Whoever starts a run cannot approve its reviewed actions: an action that was
\* handed out for review acts only with a token other than its run's
\* (auth.py:13-31, routes.py:62-73).
SeparateDuties ==
  \A ra \in reviewed : acts[ra] > 0 => approvedBy[ra] \notin {NoToken, startedBy[ra[1]]}
=============================================================================
