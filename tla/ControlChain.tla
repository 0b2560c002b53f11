----------------------------- MODULE ControlChain -----------------------------
(***************************************************************************)
(* One proposed action through policy, optional decision provider, permit  *)
(* and sandbox executor: DecisionController.decide (control/controller.py),*)
(* ControlChain.run, approve and _execute (control/chain.py),              *)
(* DeterministicPolicy.check (control/policy.py), SandboxToolExecutor and  *)
(* its tool registry (tools/executor.py), on top of PermitAuthority.       *)
(*                                                                         *)
(* Calls are coroutines on one event loop.  The only suspension point is   *)
(* the await of the decision provider; between two of them a call holds    *)
(* the loop, and each of its steps here reads the file system or the clock *)
(* at most once.  Other processes share the file system.                   *)
(***************************************************************************)
EXTENDS Naturals, Sequences, FiniteSets

CONSTANTS Calls,      \* the control calls made, one coroutine each
          ActionIds, Paths, Contents,
          Proposals,
          Engine,     \* is a decision provider configured?
          Racing,     \* may the file system change while a call holds the
                      \* loop, or only between turns of the loop?
          NoCall,     \* nobody holds the loop
          PermitId, TTL, MaxTime

Tools == {"list_files", "read_file", "write_file", "run_safe_command", "unregistered"}
Bodies == [path: Paths, content: Contents]

ASSUME ChainAssumption == Engine \in BOOLEAN /\ Racing \in BOOLEAN /\ NoCall \notin Calls
ASSUME ProposalsAssumption ==
  Proposals \subseteq [action: ActionIds, tool: Tools, body: Bodies] /\ Proposals # {}
ASSUME TimeAssumption == TTL \in Nat \ {0} /\ MaxTime \in Nat

VARIABLES
  pc,        \* call -> where it is
  loop,      \* the call that holds the event loop, or NoCall
  fs,        \* path -> what it resolves to
  prop,      \* call -> its proposal
  policy,    \* call -> status of the PolicyResult it returns or has returned
  decision,  \* call -> its ControlDecision
  permits,   \* call -> ids of the permits issued for it, in order
  result,    \* call -> status of its ControlResult, or "raised"
  issued, now, terms, uses, refused,   \* the permit authority
  judged,    \* history: call -> digest of the proposal the policy first judged
  consent,   \* history: call -> policy status shown to the approving caller
  effects    \* history: call -> what it did to the file system, in order

authority == <<issued, now, terms, uses, refused>>
vars == <<pc, loop, fs, prop, policy, decision, permits, result, authority,
          judged, consent, effects>>

Permits == INSTANCE PermitAuthority
Digest(p) == Permits!Digest(p)

\* A path is free, a regular file, a directory, resolves outside the root, or
\* lies where its status cannot be read.
Kinds == {"absent", "file", "dir", "outside", "unreadable"}
Answers == {"allow", "review", "deny"}
Undecided == [outcome |-> "none"]

-----------------------------------------------------------------------------
(* DeterministicPolicy.check *)

Target(p) == fs[p.body.path]
UsesPath(p) == p.tool \in {"list_files", "read_file", "write_file"}

\* An unregistered tool stands for every refusal that does not depend on the
\* file system: argument shape, blank, absolute or ".." path, unlisted command.
Denied(p) ==
  \/ p.tool = "unregistered"
  \/ UsesPath(p) /\ Target(p) = "outside"
  \/ p.tool = "write_file" /\ Target(p) = "dir"

\* Faulty variant: the policy does not look whether the file exists.
OverwritesUnseen(p) == FALSE

Overwrites(p) == p.tool = "write_file" /\ Target(p) = "file"

\* candidate.exists() raises what is not a sign of absence, and check() with it.
Unreadable(p) == p.tool = "write_file" /\ Target(p) = "unreadable"

Check(p) ==
  IF Denied(p) THEN "deny"
  ELSE IF Unreadable(p) THEN "raises"
  ELSE IF Overwrites(p) THEN "review" ELSE "pass"

-----------------------------------------------------------------------------
(* Control flow of a call *)

\* The call goes on to l without giving up the loop.
Goto(c, l) ==
  /\ pc' = [pc EXCEPT ![c] = l]
  /\ loop' = c
  /\ UNCHANGED result

\* The call returns r, or raises; a "review" waits for its caller.
Return(c, r) ==
  /\ pc' = [pc EXCEPT ![c] = IF r = "review" THEN "reviewed" ELSE "done"]
  /\ result' = [result EXCEPT ![c] = r]
  /\ loop' = NoCall

\* The call is suspended in the await of the provider.
Suspend(c) ==
  /\ pc' = [pc EXCEPT ![c] = "awaiting"]
  /\ loop' = NoCall
  /\ UNCHANGED result

\* Faulty variant: outcome and source are swapped.
DecideSwapped(c, p, digest, outcome, source) ==
  decision' = [decision EXCEPT ![c] =
    [action |-> p.action, digest |-> digest, outcome |-> source, source |-> outcome]]

Decide(c, p, digest, outcome, source) ==
  decision' = [decision EXCEPT ![c] =
    [action |-> p.action, digest |-> digest, outcome |-> outcome, source |-> source]]

NothingExecuted == UNCHANGED <<fs, permits, authority, effects>>

\* ControlChain.run up to the await: what the policy decides alone.
Run(c, p) ==
  /\ pc[c] = "idle" /\ loop = NoCall
  /\ prop' = [prop EXCEPT ![c] = p]
  /\ judged' = [judged EXCEPT ![c] = Digest(p)]
  /\ policy' = IF Check(p) = "raises" THEN policy ELSE [policy EXCEPT ![c] = Check(p)]
  /\ \/ Check(p) = "raises" /\ UNCHANGED decision /\ Return(c, "raised")
     \/ Check(p) = "deny" /\ Decide(c, p, Digest(p), "deny", "policy") /\ Return(c, "blocked")
     \/ Check(p) = "review" /\ Decide(c, p, Digest(p), "review", "policy") /\ Return(c, "review")
     \/ Check(p) = "pass" /\ ~Engine /\ Decide(c, p, Digest(p), "allow", "policy") /\ Goto(c, "issuing")
     \/ Check(p) = "pass" /\ Engine /\ UNCHANGED decision /\ Suspend(c)
  /\ UNCHANGED consent /\ NothingExecuted

\* The provider answers.  The digest was captured before the await.
ProviderAnswers(c, answer, confident) ==
  /\ pc[c] = "awaiting" /\ loop = NoCall
  /\ \/ Digest(prop[c]) # judged[c] /\ UNCHANGED decision /\ Return(c, "raised")
     \/ /\ Digest(prop[c]) = judged[c]
        /\ \/ answer = "allow" /\ confident /\ Decide(c, prop[c], judged[c], "allow", "jev") /\ Goto(c, "issuing")
           \/ answer = "allow" /\ ~confident /\ Decide(c, prop[c], judged[c], "review", "confidence") /\ Return(c, "review")
           \/ answer = "review" /\ Decide(c, prop[c], judged[c], "review", "jev") /\ Return(c, "review")
           \/ answer = "deny" /\ Decide(c, prop[c], judged[c], "deny", "jev") /\ Return(c, "blocked")
  /\ UNCHANGED <<prop, policy, judged, consent>> /\ NothingExecuted

\* The provider fails, times out or answers out of range, or the call is
\* cancelled while it waits.
ProviderFails(c) ==
  /\ pc[c] = "awaiting" /\ loop = NoCall
  /\ Return(c, "raised")
  /\ UNCHANGED <<prop, policy, decision, judged, consent>> /\ NothingExecuted

\* Faulty variant: the digest is not compared.
ApprovableUnbound(c) == decision[c].outcome = "review"

\* What approve() requires of the result it is given.
Approvable(c) == decision[c].outcome = "review" /\ decision[c].digest = Digest(prop[c])

\* Faulty variant: an approval covers whatever the policy finds later.
NoNewRisk(c) == FALSE

\* The policy asks for a review now and did not when the caller was asked.
NewRisk(c) == Check(prop[c]) = "review" /\ policy[c] # "review"

\* ControlChain.approve: the caller approves the result it was shown.  The code
\* keeps no record of the approvals it served; that a result is approved once is
\* an assumption on the callers, which remove what they approve (agent/runner.py:94,
\* mcp/tools.py:139) or approve once before they end (upstream/cli.py:33).
Approve(c) ==
  /\ pc[c] = "reviewed" /\ loop = NoCall
  /\ LET p == prop[c]
     IN \/ /\ ~Approvable(c) \/ Check(p) = "raises"
           /\ Return(c, "raised") /\ UNCHANGED <<policy, decision, consent>>
        \/ /\ Approvable(c) /\ Check(p) = "deny"
           /\ policy' = [policy EXCEPT ![c] = "deny"]
           /\ Decide(c, p, Digest(p), "deny", "policy")
           /\ Return(c, "blocked") /\ UNCHANGED consent
        \/ /\ Approvable(c) /\ NewRisk(c)
           /\ policy' = [policy EXCEPT ![c] = "review"]
           /\ Decide(c, p, Digest(p), "review", "policy")
           /\ Return(c, "review") /\ UNCHANGED consent
        \/ /\ Approvable(c) /\ Check(p) \notin {"deny", "raises"} /\ ~NewRisk(c)
           /\ policy' = [policy EXCEPT ![c] = Check(p)]
           /\ Decide(c, p, Digest(p), "review", "caller")
           /\ consent' = [consent EXCEPT ![c] = policy[c]]
           /\ Goto(c, "issuing")
  /\ UNCHANGED <<prop, judged>> /\ NothingExecuted

-----------------------------------------------------------------------------
(* ControlChain._execute and SandboxToolExecutor.execute *)

\* Faulty variant: every permit is issued in the caller's name.
ApprovalSourceCaller(c) == "caller"

ApprovalSource(c) == decision[c].source
FreshPermit == CHOOSE id \in PermitId : id \notin DOMAIN terms
PermitOf(c) == permits[c][Len(permits[c])]

\* The permit object the chain holds: what issue() returned, unaltered.
Held(c) == LET id == PermitOf(c) IN
  [id |-> id, approved |-> TRUE, action |-> terms[id].action, digest |-> terms[id].digest,
   tool |-> terms[id].tool, decision |-> terms[id].decision, source |-> terms[id].source,
   expires |-> terms[id].expires]

Unjudged == UNCHANGED <<prop, judged, consent>>

IssuePermit(c) ==
  /\ pc[c] = "issuing"
  /\ Permits!Issue(prop[c], decision[c], ApprovalSource(c), FreshPermit)
  /\ permits' = [permits EXCEPT ![c] = Append(@, FreshPermit)]
  /\ Goto(c, "checking")
  /\ UNCHANGED <<fs, policy, decision, effects>> /\ Unjudged

\* Faulty variant: the caller's approval is not recognised.
CallerUnrecognised(permit) == FALSE

\* Whether a permit lets the executor do what the policy wants reviewed.
CallerApproved(permit) == permit.decision = "review" /\ permit.source = "caller"

Recheck(c) ==
  /\ pc[c] = "checking"
  /\ \/ Check(prop[c]) = "deny" /\ Goto(c, "denied")
     \/ Check(prop[c]) = "review" /\ ~CallerApproved(Held(c)) /\ Goto(c, "sent back")
     \/ Check(prop[c]) = "review" /\ CallerApproved(Held(c)) /\ Goto(c, "consuming")
     \/ Check(prop[c]) = "pass" /\ Goto(c, "consuming")
  /\ UNCHANGED <<policy, decision>> /\ NothingExecuted /\ Unjudged

\* Faulty variant: a refused execution leaves its permit behind.
KeepPermit(c) == UNCHANGED authority

RevokePermit(c) == Permits!Revoke(PermitOf(c))

\* Faulty variant: whatever the policy refused is a denial.
PolicyOutcomeDeny(p) == "deny"

\* The decision _policy_decision derives from a policy result.
PolicyOutcome(p) == IF Check(p) = "review" THEN "review" ELSE "deny"

\* Faulty variant: the executor is called again until the policy agrees.
Retry(c) ==
  /\ pc[c] \in {"denied", "sent back"}
  /\ Goto(c, "checking")
  /\ UNCHANGED <<policy, decision>> /\ NothingExecuted /\ Unjudged

\* The recheck itself fails: any other exception revokes the permit, too.
RecheckFails(c) ==
  /\ pc[c] = "checking" /\ Check(prop[c]) = "raises"
  /\ RevokePermit(c)
  /\ Return(c, "error")
  /\ UNCHANGED <<fs, policy, decision, permits, effects>> /\ Unjudged

\* PolicyDenied or ReviewRequired: the permit is revoked and the policy read
\* again for the result; its status comes from the exception, not from that
\* second reading.  When the second reading fails, nobody handles it.
Reclassify(c) ==
  /\ pc[c] \in {"denied", "sent back"}
  /\ RevokePermit(c)
  /\ \/ Check(prop[c]) = "raises" /\ UNCHANGED <<policy, decision>> /\ Return(c, "raised")
     \/ /\ Check(prop[c]) # "raises"
        /\ policy' = [policy EXCEPT ![c] = Check(prop[c])]
        /\ Decide(c, prop[c], Digest(prop[c]), PolicyOutcome(prop[c]), "policy")
        /\ Return(c, IF pc[c] = "sent back" THEN "review" ELSE "blocked")
  /\ UNCHANGED <<fs, prop, permits, judged, consent, effects>>

\* Faulty variant: the permit is presented to nobody.
ConsumeNothing(c) ==
  /\ pc[c] = "consuming"
  /\ Goto(c, "acting")
  /\ UNCHANGED <<policy, decision>> /\ NothingExecuted /\ Unjudged

Consume(c) ==
  /\ pc[c] = "consuming"
  /\ \/ Permits!Accept(prop[c], Held(c)) /\ Goto(c, "acting")
     \/ Permits!Expire(prop[c], Held(c)) /\ Return(c, "error")
  /\ UNCHANGED <<fs, policy, decision, permits, effects>> /\ Unjudged

\* What a handler requires of its resolved target before it acts.
Serves(p) ==
  CASE p.tool = "list_files" -> Target(p) = "dir"
    [] p.tool = "read_file"  -> Target(p) = "file"
    [] p.tool = "write_file" -> Target(p) \in {"absent", "file"}
    [] OTHER -> TRUE

\* The registry's handler: the tools without effect return or raise here.
Handle(c) ==
  /\ pc[c] = "acting"
  /\ \/ ~Serves(prop[c]) /\ Return(c, "error")
     \/ Serves(prop[c]) /\ prop[c].tool = "write_file" /\ Goto(c, "writing")
     \/ /\ Serves(prop[c]) /\ prop[c].tool # "write_file"
        /\ \E r \in {"success", "error"} : Return(c, r)
  /\ UNCHANGED <<policy, decision>> /\ NothingExecuted /\ Unjudged

Effect(c) == [digest |-> Digest(prop[c]), onto |-> Target(prop[c]),
              source |-> Held(c).source, shown |-> consent[c]]

\* mkdir and write_text: done, failed before touching the target, or failed
\* after truncating it.
Write(c) ==
  LET p == prop[c] IN
  /\ pc[c] = "writing"
  /\ \/ /\ Target(p) \notin {"dir", "unreadable"}
        /\ effects' = [effects EXCEPT ![c] = Append(@, Effect(c))]
        /\ fs' = IF Target(p) = "absent" THEN [fs EXCEPT ![p.body.path] = "file"] ELSE fs
        /\ \E r \in {"success", "error"} : Return(c, r)
     \/ Return(c, "error") /\ UNCHANGED <<fs, effects>>
  /\ UNCHANGED <<policy, decision, permits, authority>> /\ Unjudged

-----------------------------------------------------------------------------
(* The environment *)

\* ActionProposal is frozen, but its arguments dict is not: whoever shares it
\* may change it while the call is suspended or under review.
Tamper(c) ==
  /\ pc[c] \in {"awaiting", "reviewed"} /\ loop = NoCall
  /\ \E q \in Proposals : /\ q.action = prop[c].action /\ q.tool = prop[c].tool
                          /\ prop' = [prop EXCEPT ![c] = q]
  /\ UNCHANGED <<pc, loop, policy, decision, result, judged, consent>> /\ NothingExecuted

\* Another process creates, removes or relinks a path.
External ==
  /\ Racing \/ loop = NoCall
  /\ \E path \in Paths, kind \in Kinds : fs' = [fs EXCEPT ![path] = kind]
  /\ UNCHANGED <<pc, loop, prop, policy, decision, permits, result, authority,
                 judged, consent, effects>>

ClockMoves ==
  /\ Permits!SetClock
  /\ UNCHANGED <<pc, loop, fs, prop, policy, decision, permits, result,
                 judged, consent, effects>>

-----------------------------------------------------------------------------
Init ==
  /\ pc = [c \in Calls |-> "idle"]
  /\ loop = NoCall
  /\ fs \in [Paths -> Kinds]
  /\ prop \in [Calls -> {CHOOSE p \in Proposals : TRUE}]
  /\ policy = [c \in Calls |-> "none"]
  /\ decision = [c \in Calls |-> Undecided]
  /\ permits = [c \in Calls |-> <<>>]
  /\ result = [c \in Calls |-> "none"]
  /\ Permits!Init
  /\ judged = [c \in Calls |-> <<>>]
  /\ consent = [c \in Calls |-> "none"]
  /\ effects = [c \in Calls |-> <<>>]

\* The steps a call takes while it holds the loop.
Turn(c) ==
  \/ IssuePermit(c) \/ Recheck(c) \/ RecheckFails(c) \/ Reclassify(c)
  \/ Consume(c) \/ Handle(c) \/ Write(c)

Provider(c) ==
  \/ \E answer \in Answers, confident \in BOOLEAN : ProviderAnswers(c, answer, confident)
  \/ ProviderFails(c)

Next ==
  \/ \E c \in Calls, p \in Proposals : Run(c, p)
  \/ \E c \in Calls : Turn(c) \/ Provider(c) \/ Approve(c) \/ Tamper(c)
  \/ External
  \/ ClockMoves

\* A call that holds the loop runs on, and every provider request ends: the
\* HTTP clients time out.  Nobody is obliged to call, to approve or to tamper.
Fairness == \A c \in Calls : WF_vars(Turn(c)) /\ WF_vars(Provider(c))

Spec == Init /\ [][Next]_vars
FairSpec == Spec /\ Fairness

-----------------------------------------------------------------------------
(* Properties *)

Effects == [digest: Permits!Digests, onto: Kinds, source: Permits!ApprovalSources,
            shown: {"none", "pass", "review"}]

\* Type invariant.
TypeOK ==
  /\ pc \in [Calls -> {"idle", "awaiting", "reviewed", "issuing", "checking", "denied",
                       "sent back", "consuming", "acting", "writing", "done"}]
  /\ loop \in Calls \cup {NoCall}
  /\ fs \in [Paths -> Kinds]
  /\ prop \in [Calls -> Proposals]
  /\ policy \in [Calls -> {"none", "pass", "review", "deny"}]
  /\ consent \in [Calls -> {"none", "pass", "review"}]
  /\ decision \in [Calls -> Permits!Decisions \cup {Undecided}]
  /\ permits \in [Calls -> Seq(PermitId)]
  /\ result \in [Calls -> {"none", "success", "blocked", "review", "error", "raised"}]
  /\ judged \in [Calls -> Permits!Digests \cup {<<>>}]
  /\ effects \in [Calls -> Seq(Effects)]
  /\ Permits!TypeOK

\* What changed the file system is, to the byte, the action the policy first
\* judged: arguments altered while the provider or the reviewer was thinking
\* never get through (controller.py:85, chain.py:51).
ExecutedAsJudged ==
  \A c \in Calls : \A i \in DOMAIN effects[c] : effects[c][i].digest = judged[c]

\* A file that exists is overwritten only for a caller who approved after being
\* shown that the action needs review for that reason, although the file may
\* have appeared after the first judgement or after the review (chain.py:53-57,
\* executor.py:106-112).
InformedOverwrite ==
  \A c \in Calls : \A i \in DOMAIN effects[c] :
    /\ effects[c][i].onto \in {"absent", "file"}
    /\ effects[c][i].onto = "file" =>
         effects[c][i].source = "caller" /\ effects[c][i].shown = "review"

\* Permits never outlive the turn of the loop that issued them: a call that
\* waits, or is over, however it ended, leaves none behind (chain.py:75, 81).
PermitsConfined ==
  \A id \in DOMAIN issued :
    /\ loop # NoCall
    /\ pc[loop] \in {"checking", "denied", "sent back", "consuming"}
    /\ id = PermitOf(loop)

UsedPermits(c) == {i \in DOMAIN permits[c] : uses[permits[c][i]] # <<>>}

PaidOnce(c) ==
  /\ Cardinality(UsedPermits(c)) <= 1
  /\ effects[c] # <<>> =>
       /\ Len(effects[c]) = 1
       /\ UsedPermits(c) = {Len(permits[c])}
       /\ Len(uses[PermitOf(c)]) = 1 /\ uses[PermitOf(c)][1].digest = effects[c][1].digest

Told(c) ==
  /\ effects[c] # <<>> => pc[c] = "done" /\ result[c] \in {"success", "error"}
  /\ pc[c] = "done" /\ result[c] = "success" /\ prop[c].tool = "write_file" => effects[c] # <<>>

\* Every effect was paid for with a permit that was issued for this call and for
\* what it did, and consumed once; no call consumes two, and no two calls act on
\* the same one (executor.py:113).  The caller is told: whoever is refused, or
\* gets an exception, changed nothing, and a write that succeeded was made
\* (chain.py:71-103).
EffectsAccountedFor ==
  /\ \A c \in Calls : PaidOnce(c) /\ Told(c)
  /\ \A c, d \in Calls : effects[c] # <<>> /\ effects[d] # <<>> /\ PermitOf(c) = PermitOf(d) => c = d

\* Nobody can spoil a permit while its call holds the loop: whatever reaches
\* issue() satisfies its checks, and what reaches consume() satisfies all of them
\* but the expiry, whatever the other calls and the environment did since the
\* decision was made (permits.py:25-41, 65-85).
PermitsSuffice ==
  \A c \in Calls :
    /\ pc[c] = "issuing" => Permits!MayIssue(prop[c], decision[c], ApprovalSource(c))
    /\ pc[c] = "consuming" => Permits!Matches(prop[c], Held(c))

\* A result handed out for review can be approved: its decision says review.
ReviewIsApprovable ==
  \A c \in Calls : pc[c] = "reviewed" => decision[c].outcome = "review"

\* A call, once made, comes back to its caller, and so does an approval.
CallReturns ==
  \A c \in Calls :
    pc[c] \notin {"idle", "reviewed", "done"} ~> pc[c] \in {"reviewed", "done"}

\* The chain implements the control call its callers rely on.
Phase(c) ==
  CASE pc[c] = "idle" -> "new"
    [] pc[c] = "reviewed" -> "review"
    [] pc[c] = "done" -> "done"
    [] OTHER -> IF consent[c] = "none" THEN "running" ELSE "approved"

Call == INSTANCE ControlledCall WITH
  Atomic <- FALSE,
  phase  <- [c \in Calls |-> Phase(c)],
  result <- [c \in Calls |-> IF pc[c] = "done" THEN result[c] ELSE "none"],
  acts   <- [c \in Calls |-> Len(effects[c])]

ImplementsControlledCall == Call!Spec
=============================================================================
