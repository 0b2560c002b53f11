--------------------------- MODULE ControlChainProofs ---------------------------
(***************************************************************************)
(* Theorems about ControlChain, for any number of calls, every set of      *)
(* proposals and paths, with and without a decision provider, and, unless  *)
(* a theorem says otherwise, with a file system that may change at any     *)
(* moment.                                                                 *)
(***************************************************************************)
EXTENDS ControlChain, FiniteSetTheorems, TLAPS

\* The permit authority with what is proved about it.
Authority == INSTANCE PermitAuthorityProofs

\* Where a call holds the event loop, where it holds a permit, and where that
\* permit is still in the table.
Busy == {"issuing", "checking", "denied", "sent back", "consuming", "acting", "writing"}
Holding == Busy \ {"issuing"}
Unused == {"checking", "denied", "sent back", "consuming"}

-----------------------------------------------------------------------------
(* The inductive invariant *)

\* Calls take turns: whoever is busy holds the loop.
OneTurn(c) == pc[c] \in Busy <=> loop = c

\* A decision is about what was first judged, and so is what is executed.
Bound(c) ==
  /\ pc[c] \in Busy \cup {"reviewed"} => decision[c].digest = judged[c]
  /\ pc[c] \in Busy => Permits!MayIssue(prop[c], decision[c], decision[c].source)
  /\ pc[c] \in {"idle", "awaiting"} => effects[c] = <<>>
  /\ \A i \in DOMAIN effects[c] : effects[c][i].digest = judged[c]

\* The permit of a busy call says what its decision says.
Holds(c) ==
  pc[c] \in Holding =>
    /\ permits[c] # <<>> /\ PermitOf(c) \in DOMAIN terms
    /\ terms[PermitOf(c)].decision = decision[c].outcome
    /\ terms[PermitOf(c)].source = decision[c].source

\* Only a caller who was shown a review has approved, and it approved the
\* execution that goes on; who approved is not asked again.
Consented(c) ==
  /\ pc[c] \in {"idle", "awaiting", "reviewed"} => consent[c] = "none"
  /\ pc[c] = "awaiting" => policy[c] = "pass"
  /\ pc[c] = "reviewed" /\ decision[c].outcome = "review" => policy[c] \in {"pass", "review"}
  /\ pc[c] \in Busy => (consent[c] # "none" <=> decision[c].source = "caller")
  /\ pc[c] = "sent back" => consent[c] = "none"

CallInv(c) == OneTurn(c) /\ Bound(c) /\ Holds(c) /\ Consented(c)
IInv == TypeOK /\ Authority!IInv /\ PermitsConfined /\ \A c \in Calls : CallInv(c)

-----------------------------------------------------------------------------
(* With a file system that is quiet while a call holds the loop *)

Cleared == {"consuming", "acting", "writing"}

\* What the caller was shown still describes the action.
Described(c) ==
  pc[c] \in Busy /\ Check(prop[c]) = "review" /\ consent[c] # "none" => consent[c] = "review"

\* What was rechecked still holds.
Rechecked(c) ==
  /\ pc[c] \in Cleared => /\ Check(prop[c]) # "deny"
                          /\ Check(prop[c]) = "review" => consent[c] # "none"
  /\ pc[c] = "writing" => prop[c].tool = "write_file" /\ Target(prop[c]) \in {"absent", "file"}

Informed(c) ==
  \A i \in DOMAIN effects[c] :
    /\ effects[c][i].onto \in {"absent", "file"}
    /\ effects[c][i].onto = "file" => effects[c][i].source = "caller" /\ effects[c][i].shown = "review"

QuietInv == \A c \in Calls : Described(c) /\ Rechecked(c) /\ Informed(c)

-----------------------------------------------------------------------------
(* The authority *)

\* Both instances of the permit authority are the same.
LEMMA OneAuthority ==
  /\ Permits!TypeOK <=> Authority!TypeOK
  /\ Permits!Next <=> Authority!Next
  /\ Permits!vars = Authority!vars
  /\ Permits!Init <=> Authority!Init
<1>1. Permits!TypeOK <=> Authority!TypeOK
  BY DEF Permits!TypeOK, Authority!TypeOK, Permits!Terms, Authority!Terms, Permits!Clock,
     Authority!Clock, Permits!Expiries, Authority!Expiries, Permits!Digests, Authority!Digests,
     Permits!Outcomes, Authority!Outcomes, Permits!ApprovalSources, Authority!ApprovalSources
<1>2. Permits!Next <=> Authority!Next
  <2>1. /\ Permits!Decisions = Authority!Decisions
        /\ Permits!ApprovalSources = Authority!ApprovalSources
        /\ Permits!PresentablePermits = Authority!PresentablePermits
        /\ Permits!Clock = Authority!Clock
    BY DEF Permits!Decisions, Authority!Decisions, Permits!ApprovalSources,
       Authority!ApprovalSources, Permits!PresentablePermits, Authority!PresentablePermits,
       Permits!Clock, Authority!Clock, Permits!Digests, Authority!Digests, Permits!Outcomes,
       Authority!Outcomes, Permits!DecisionSources, Authority!DecisionSources,
       Permits!Expiries, Authority!Expiries
  <2>2. ASSUME NEW p, NEW d, NEW source, NEW id
        PROVE  Permits!Issue(p, d, source, id) <=> Authority!Issue(p, d, source, id)
    BY DEF Permits!Issue, Authority!Issue, Permits!MayIssue, Authority!MayIssue,
       Permits!Grounds, Authority!Grounds, Permits!FreshIds, Authority!FreshIds,
       Permits!TermsOf, Authority!TermsOf, Permits!Digest, Authority!Digest
  <2>3. ASSUME NEW id PROVE Permits!Remove(id) <=> Authority!Remove(id)
    BY DEF Permits!Remove, Authority!Remove, Permits!Restrict, Authority!Restrict
  <2>4. ASSUME NEW p, NEW permit
        PROVE  /\ Permits!Accept(p, permit) <=> Authority!Accept(p, permit)
               /\ Permits!Expire(p, permit) <=> Authority!Expire(p, permit)
    BY <2>3 DEF Permits!Accept, Authority!Accept, Permits!Expire, Authority!Expire,
       Permits!Matches, Authority!Matches, Permits!Expected, Authority!Expected,
       Permits!Digest, Authority!Digest
  <2>5. /\ \A id : Permits!Revoke(id) <=> Authority!Revoke(id)
        /\ Permits!SetClock <=> Authority!SetClock
        /\ Permits!Restart <=> Authority!Restart
    BY <2>1, <2>3 DEF Permits!Revoke, Authority!Revoke, Permits!SetClock, Authority!SetClock,
       Permits!Restart, Authority!Restart
  <2> QED BY <2>1, <2>2, <2>4, <2>5 DEF Permits!Next, Authority!Next
<1>3. Permits!vars = Authority!vars
  BY DEF Permits!vars, Authority!vars
<1>4. Permits!Init <=> Authority!Init
  BY DEF Permits!Init, Authority!Init
<1> QED BY <1>1, <1>2, <1>3, <1>4

\* Its own invariant, proved for any use of it.
LEMMA AuthorityInv ==
  /\ Permits!Init => Authority!IInv
  /\ Authority!IInv /\ [Permits!Next]_(Permits!vars) => Authority!IInv'
  /\ Authority!IInv => Permits!TypeOK
<1>1. Authority!Init => Authority!IInv
  BY Authority!InitIInv, ProposalsAssumption, TimeAssumption
<1>2. Authority!IInv /\ [Authority!Next]_(Authority!vars) => Authority!IInv'
  BY Authority!NextIInv, ProposalsAssumption, TimeAssumption
<1>3. Permits!vars' = Authority!vars'
  BY DEF Permits!vars, Authority!vars
<1>4. Authority!IInv => Authority!TypeOK
  BY DEF Authority!IInv
<1> QED BY <1>1, <1>2, <1>3, <1>4, OneAuthority

-----------------------------------------------------------------------------
(* What a state says of one call *)

LEMMA Typed ==
  ASSUME IInv, NEW c \in Calls
  PROVE  /\ prop[c] \in Proposals /\ prop[c].action \in ActionIds /\ prop[c].tool \in Tools
         /\ prop[c].body.path \in Paths /\ Digest(prop[c]) \in Permits!Digests
         /\ Target(prop[c]) \in Kinds
         /\ CallInv(c) /\ c # NoCall
<1>1. prop[c] \in Proposals /\ fs \in [Paths -> Kinds]
  BY DEF IInv, TypeOK
<1>2. prop[c] \in [action: ActionIds, tool: Tools, body: [path: Paths, content: Contents]]
  BY <1>1, ProposalsAssumption DEF Bodies
<1>3. Digest(prop[c]) \in Permits!Digests
  BY <1>2 DEF Digest, Permits!Digest, Permits!Digests, Bodies
<1> QED BY <1>1, <1>2, <1>3, ChainAssumption DEF IInv, Target

\* The permit a call holds, field by field.
LEMMA HeldFact ==
  ASSUME IInv, NEW c \in Calls, pc[c] \in Holding
  PROVE  /\ PermitOf(c) \in PermitId
         /\ Held(c) \in Permits!PresentablePermits
         /\ Held(c).decision = decision[c].outcome
         /\ Held(c).source = decision[c].source
         /\ Held(c).source \in Permits!ApprovalSources
<1>1. /\ PermitOf(c) \in DOMAIN terms
      /\ terms[PermitOf(c)].decision = decision[c].outcome
      /\ terms[PermitOf(c)].source = decision[c].source
  BY DEF IInv, CallInv, Holds
<1>2. DOMAIN terms \subseteq PermitId /\ terms \in [DOMAIN terms -> Permits!Terms]
  BY DEF IInv, TypeOK, Permits!TypeOK
<1>3. terms[PermitOf(c)] \in Permits!Terms /\ PermitOf(c) \in PermitId
  BY <1>1, <1>2
<1> QED BY <1>3, <1>1, <1>2 DEF Held, Permits!Terms, Permits!PresentablePermits

\* A busy call goes on under a decision that grants it a permit, about the
\* proposal it now has, which is the one first judged.
LEMMA BusyFact ==
  ASSUME IInv, NEW c \in Calls, pc[c] \in Busy
  PROVE  /\ loop = c
         /\ Digest(prop[c]) = judged[c] /\ decision[c].digest = judged[c]
         /\ decision[c] \in Permits!Decisions
         /\ decision[c].source \in Permits!ApprovalSources
         /\ decision[c].outcome = "review" <=> decision[c].source = "caller"
<1>1. /\ loop = c /\ decision[c].digest = judged[c]
      /\ Permits!MayIssue(prop[c], decision[c], decision[c].source)
  BY DEF IInv, CallInv, OneTurn, Bound
<1>2. decision[c].outcome # "none"
  BY <1>1 DEF Permits!MayIssue, Permits!Grounds
<1>3. decision[c] \in Permits!Decisions
  <2>1. decision[c] \in Permits!Decisions \cup {Undecided}
    BY DEF IInv, TypeOK
  <2> QED BY <1>2, <2>1 DEF Undecided
<1> QED BY <1>1, <1>3 DEF Permits!MayIssue, Permits!Grounds, Permits!ApprovalSources, Digest

-----------------------------------------------------------------------------
(* What a step changes *)

\* Nothing that the invariant says of call d changes.
Aside(d) ==
  /\ UNCHANGED <<pc[d], prop[d], policy[d], decision[d], permits[d],
                 judged[d], consent[d], effects[d], result[d]>>
  /\ loop' = d <=> loop = d

\* The history of issues only grows.
TermsKept == \A id \in DOMAIN terms : id \in DOMAIN terms' /\ terms'[id] = terms[id]

\* Every step of call c leaves the other calls aside.
StepOf(c) ==
  \/ \E p \in Proposals : Run(c, p)
  \/ Turn(c) \/ Provider(c) \/ Approve(c) \/ Tamper(c)

LEMMA GotoFact ==
  ASSUME IInv, NEW c \in Calls, NEW l, Goto(c, l)
  PROVE  pc'[c] = l /\ loop' = c /\ result' = result
BY DEF Goto, IInv, TypeOK

LEMMA ReturnFact ==
  ASSUME IInv, NEW c \in Calls, NEW r, Return(c, r)
  PROVE  /\ r = "review" => pc'[c] = "reviewed"
         /\ r # "review" => pc'[c] = "done"
         /\ loop' = NoCall /\ result'[c] = r
BY DEF Return, IInv, TypeOK

LEMMA SuspendFact ==
  ASSUME IInv, NEW c \in Calls, Suspend(c)
  PROVE  pc'[c] = "awaiting" /\ loop' = NoCall /\ result' = result
BY DEF Suspend, IInv, TypeOK

LEMMA DecideFact ==
  ASSUME IInv, NEW c \in Calls, NEW p, NEW digest, NEW outcome, NEW source,
         Decide(c, p, digest, outcome, source)
  PROVE  /\ decision'[c].action = p.action /\ decision'[c].digest = digest
         /\ decision'[c].outcome = outcome /\ decision'[c].source = source
BY DEF Decide, IInv, TypeOK

\* What the invariant says of a call that is left aside stays true.
LEMMA AsideInv ==
  ASSUME NEW d \in Calls, CallInv(d), Aside(d), TermsKept
  PROVE  CallInv(d)'
<1>1. OneTurn(d)'
  BY DEF CallInv, OneTurn, Aside
<1>2. Bound(d)'
  BY DEF CallInv, Bound, Aside, Permits!MayIssue, Permits!Digest, Permits!Grounds
<1>3. Holds(d)'
  BY DEF CallInv, Holds, Aside, TermsKept, PermitOf
<1>4. Consented(d)'
  BY DEF CallInv, Consented, Aside
<1> QED BY <1>1, <1>2, <1>3, <1>4 DEF CallInv

LEMMA TermsFact ==
  ASSUME IInv, Permits!Next \/ UNCHANGED terms
  PROVE  TermsKept
<1>1. CASE \E p \in Proposals, d \in Permits!Decisions, source \in Permits!ApprovalSources,
              id \in PermitId : Permits!Issue(p, d, source, id)
  BY <1>1 DEF Permits!Issue, Permits!FreshIds, TermsKept
<1>2. CASE UNCHANGED terms
  BY <1>2 DEF TermsKept
<1> QED BY <1>1, <1>2 DEF Permits!Next, Permits!Accept, Permits!Expire, Permits!Revoke,
           Permits!SetClock, Permits!Restart

\* A call that takes a step holds the loop, or nobody does, and so afterwards.
LEMMA LoopFact ==
  ASSUME IInv, NEW c \in Calls, StepOf(c)
  PROVE  /\ loop \in {c, NoCall} /\ loop' \in {c, NoCall}
         /\ loop = c <=> pc[c] \in Busy
<1>1. ASSUME NEW p \in Proposals, Run(c, p) PROVE loop = NoCall /\ loop' \in {c, NoCall}
  BY <1>1 DEF Run, Goto, Return, Suspend
<1>2. ASSUME Turn(c) PROVE pc[c] \in Busy /\ loop' \in {c, NoCall}
  BY <1>2 DEF Turn, Busy, IssuePermit, Recheck, RecheckFails, Reclassify, Consume, Handle, Write, Goto, Return
<1>3. ASSUME Provider(c) \/ Approve(c) \/ Tamper(c)
      PROVE  loop = NoCall /\ loop' \in {c, NoCall}
  BY <1>3 DEF Provider, ProviderAnswers, ProviderFails, Approve, Tamper, Goto, Return
<1>4. OneTurn(c)
  BY Typed DEF CallInv
<1> QED BY <1>1, <1>2, <1>3, <1>4 DEF StepOf, OneTurn

\* A step of a call leaves the others aside.
LEMMA OthersAside ==
  ASSUME IInv, NEW c \in Calls, StepOf(c), NEW d \in Calls \ {c}
  PROVE  Aside(d)
<1>0. (loop' = d <=> loop = d) /\ c # d
  BY LoopFact, Typed
<1>1. UNCHANGED <<pc[d], result[d]>>
  BY <1>0 DEF StepOf, Turn, Provider, Run, IssuePermit, Recheck, RecheckFails, Reclassify, Consume, Handle,
     Write, ProviderAnswers, ProviderFails, Approve, Tamper, Goto, Return, Suspend, IInv, TypeOK
<1>2. UNCHANGED <<prop[d], policy[d], judged[d], consent[d]>>
  BY <1>0 DEF StepOf, Turn, Provider, Run, IssuePermit, Recheck, RecheckFails, Reclassify, Consume, Handle,
     Write, ProviderAnswers, ProviderFails, Approve, Tamper, Unjudged, IInv, TypeOK
<1>3. UNCHANGED decision[d]
  BY <1>0 DEF StepOf, Turn, Provider, Run, IssuePermit, Recheck, RecheckFails, Reclassify, Consume, Handle,
     Write, ProviderAnswers, ProviderFails, Approve, Tamper, Decide, IInv, TypeOK
<1>4. UNCHANGED <<permits[d], effects[d]>>
  BY <1>0 DEF StepOf, Turn, Provider, Run, IssuePermit, Recheck, RecheckFails, Reclassify, Consume, Handle,
     Write, ProviderAnswers, ProviderFails, Approve, Tamper, NothingExecuted, IInv, TypeOK
<1> QED BY <1>0, <1>1, <1>2, <1>3, <1>4 DEF Aside

-----------------------------------------------------------------------------
(* The authority's view of a step *)

\* issue() is called with a proposal, a decision and a source of their types.
LEMMA IssueStep ==
  ASSUME IInv, NEW c \in Calls, IssuePermit(c)
  PROVE  /\ Permits!Next
         /\ FreshPermit \in PermitId /\ FreshPermit \notin DOMAIN terms
         /\ DOMAIN issued' = DOMAIN issued \cup {FreshPermit}
         /\ DOMAIN terms' = DOMAIN terms \cup {FreshPermit}
         /\ terms'[FreshPermit].decision = decision[c].outcome
         /\ terms'[FreshPermit].source = decision[c].source
<1>1. /\ prop[c] \in Proposals /\ decision[c] \in Permits!Decisions
      /\ ApprovalSource(c) \in Permits!ApprovalSources
  BY Typed, BusyFact DEF IssuePermit, Busy, ApprovalSource
<1>2. Permits!Issue(prop[c], decision[c], ApprovalSource(c), FreshPermit)
  BY DEF IssuePermit
<1>3. FreshPermit \in PermitId /\ FreshPermit \notin DOMAIN terms
  BY <1>2 DEF Permits!Issue, Permits!FreshIds
<1>4. Permits!Next
  BY <1>1, <1>2, <1>3 DEF Permits!Next
<1> HIDE DEF FreshPermit
<1> QED BY <1>2, <1>3, <1>4 DEF Permits!Issue, Permits!TermsOf, ApprovalSource

\* consume() is called with the permit the call holds.
LEMMA ConsumeStep ==
  ASSUME IInv, NEW c \in Calls, Consume(c)
  PROVE  /\ Permits!Next
         /\ DOMAIN issued' = DOMAIN issued \ {PermitOf(c)}
         /\ UNCHANGED terms
<1>1. prop[c] \in Proposals /\ Held(c) \in Permits!PresentablePermits
  BY Typed, HeldFact DEF Consume, Holding, Busy
<1>2. Held(c).id = PermitOf(c)
  BY DEF Held
<1>3. Permits!Accept(prop[c], Held(c)) \/ Permits!Expire(prop[c], Held(c))
  BY DEF Consume
<1>4. Permits!Remove(PermitOf(c)) /\ UNCHANGED terms
  BY <1>2, <1>3 DEF Permits!Accept, Permits!Expire
<1> QED BY <1>1, <1>3, <1>4 DEF Permits!Next, Permits!Remove, Permits!Restrict

\* revoke() is called with the id of the permit the call holds.
LEMMA RevokeStep ==
  ASSUME IInv, NEW c \in Calls, Reclassify(c) \/ RecheckFails(c)
  PROVE  /\ Permits!Next
         /\ DOMAIN issued' = DOMAIN issued \ {PermitOf(c)}
         /\ UNCHANGED terms
<1>1. PermitOf(c) \in PermitId /\ Permits!Revoke(PermitOf(c))
  BY HeldFact DEF Reclassify, RecheckFails, RevokePermit, Holding, Busy
<1> QED BY <1>1 DEF Permits!Next, Permits!Revoke, Permits!Remove, Permits!Restrict

\* The other steps of a call do not touch the authority.
LEMMA NoPermitStep ==
  ASSUME NEW c \in Calls, StepOf(c), ~IssuePermit(c), ~Consume(c), ~Reclassify(c), ~RecheckFails(c)
  PROVE  UNCHANGED authority
BY DEF StepOf, Turn, Provider, Run, Recheck, Handle, Write, ProviderAnswers, ProviderFails,
   Approve, Tamper, NothingExecuted

\* Every step of the chain is a step of the authority, or none.
LEMMA AuthorityStep ==
  ASSUME IInv, [Next]_vars
  PROVE  [Permits!Next]_(Permits!vars)
<1>1. ASSUME NEW c \in Calls, StepOf(c) PROVE Permits!Next \/ UNCHANGED authority
  BY <1>1, IssueStep, ConsumeStep, RevokeStep, NoPermitStep
<1>2. CASE External \/ UNCHANGED vars
  BY <1>2 DEF External, vars, authority, Permits!vars
<1>3. CASE ClockMoves
  BY <1>3 DEF ClockMoves, Permits!Next
<1> QED BY <1>1, <1>2, <1>3 DEF Next, StepOf, authority, Permits!vars

LEMMA AuthorityKept ==
  ASSUME IInv, [Next]_vars
  PROVE  Authority!IInv' /\ Permits!TypeOK' /\ TermsKept
<1>1. Authority!IInv /\ [Permits!Next]_(Permits!vars)
  BY AuthorityStep DEF IInv
<1>2. Authority!IInv'
  BY <1>1, AuthorityInv
<1>3. Permits!TypeOK'
  BY <1>2, AuthorityInv, PTL
<1>4. TermsKept
  BY <1>1, TermsFact DEF Permits!vars
<1> QED BY <1>2, <1>3, <1>4

-----------------------------------------------------------------------------
(* Types *)

Places == {"idle", "awaiting", "reviewed", "issuing", "checking", "denied", "sent back",
           "consuming", "acting", "writing", "done"}
Results == {"none", "success", "blocked", "review", "error", "raised"}

\* Where a step leaves a call, and with what result.
LEMMA PlaceKept ==
  ASSUME IInv, NEW c \in Calls, StepOf(c)
  PROVE  /\ pc' \in [Calls -> Places] /\ result' \in [Calls -> Results]
         /\ loop' \in Calls \cup {NoCall}
<1>1. pc \in [Calls -> Places] /\ result \in [Calls -> Results]
  BY DEF IInv, TypeOK, Places, Results
<1>2. ASSUME NEW l \in Places, Goto(c, l)
      PROVE  pc' \in [Calls -> Places] /\ result' \in [Calls -> Results]
  BY <1>1, <1>2 DEF Goto
<1>3. ASSUME NEW r \in Results, Return(c, r)
      PROVE  pc' \in [Calls -> Places] /\ result' \in [Calls -> Results]
  BY <1>1, <1>3 DEF Return, Places
<1>4. ASSUME Suspend(c) PROVE pc' \in [Calls -> Places] /\ result' \in [Calls -> Results]
  BY <1>1, <1>4 DEF Suspend, Places
<1>5. loop' \in Calls \cup {NoCall}
  BY LoopFact
<1> QED BY <1>1, <1>2, <1>3, <1>4, <1>5
        DEF StepOf, Turn, Provider, Run, IssuePermit, Recheck, RecheckFails, Reclassify, Consume, Handle,
            Write, ProviderAnswers, ProviderFails, Approve, Tamper, Places, Results

LEMMA CheckType == ASSUME NEW p PROVE Check(p) \in {"pass", "review", "deny", "raises"}
BY DEF Check

\* The policy status, the consent and the first judgement of a call.
LEMMA JudgementKept ==
  ASSUME IInv, NEW c \in Calls, StepOf(c)
  PROVE  /\ prop' \in [Calls -> Proposals]
         /\ policy' \in [Calls -> {"none", "pass", "review", "deny"}]
         /\ consent' \in [Calls -> {"none", "pass", "review"}]
         /\ judged' \in [Calls -> Permits!Digests \cup {<<>>}]
<1>1. /\ prop \in [Calls -> Proposals]
      /\ policy \in [Calls -> {"none", "pass", "review", "deny"}]
      /\ consent \in [Calls -> {"none", "pass", "review"}]
      /\ judged \in [Calls -> Permits!Digests \cup {<<>>}]
  BY DEF IInv, TypeOK
<1>2. ASSUME NEW p \in Proposals, Run(c, p)
      PROVE  /\ prop' \in [Calls -> Proposals]
             /\ policy' \in [Calls -> {"none", "pass", "review", "deny"}]
             /\ judged' \in [Calls -> Permits!Digests \cup {<<>>}]
             /\ UNCHANGED consent
  <2>1. Digest(p) \in Permits!Digests
    BY ProposalsAssumption DEF Digest, Permits!Digest, Permits!Digests
  <2> QED BY <1>1, <1>2, <2>1, CheckType DEF Run
<1>3. ASSUME Approve(c)
      PROVE  /\ policy' \in [Calls -> {"none", "pass", "review", "deny"}]
             /\ consent' \in [Calls -> {"none", "pass", "review"}]
             /\ UNCHANGED <<prop, judged>>
  <2>1. Approvable(c) => policy[c] \in {"pass", "review"}
    BY <1>3, Typed DEF Approve, Approvable, CallInv, Consented
  <2> QED BY <1>1, <1>3, <2>1, CheckType DEF Approve
<1>4. ASSUME Reclassify(c)
      PROVE  policy' \in [Calls -> {"none", "pass", "review", "deny"}] /\ UNCHANGED <<prop, consent, judged>>
  BY <1>1, <1>4, CheckType DEF Reclassify
<1>5. ASSUME Provider(c) \/ IssuePermit(c) \/ Recheck(c) \/ RecheckFails(c) \/ Consume(c)
             \/ Handle(c) \/ Write(c)
      PROVE  UNCHANGED <<prop, policy, consent, judged>>
  BY <1>5 DEF Provider, ProviderAnswers, ProviderFails, IssuePermit, Recheck, RecheckFails,
     Consume, Handle, Write, Unjudged
<1>6. ASSUME Tamper(c)
      PROVE  prop' \in [Calls -> Proposals] /\ UNCHANGED <<policy, consent, judged>>
  BY <1>1, <1>6 DEF Tamper
<1> QED BY <1>1, <1>2, <1>3, <1>4, <1>5, <1>6 DEF StepOf, Turn

LEMMA DecisionKept ==
  ASSUME IInv, NEW c \in Calls, StepOf(c)
  PROVE  decision' \in [Calls -> Permits!Decisions \cup {Undecided}]
<1>1. decision \in [Calls -> Permits!Decisions \cup {Undecided}]
  BY DEF IInv, TypeOK
<1>2. ASSUME NEW p \in Proposals, NEW outcome \in Permits!Outcomes,
             NEW source \in Permits!DecisionSources, Decide(c, p, Digest(p), outcome, source)
      PROVE  decision' \in [Calls -> Permits!Decisions \cup {Undecided}]
  <2>1. Digest(p) \in Permits!Digests
    BY ProposalsAssumption DEF Digest, Permits!Digest, Permits!Digests
  <2>2. p.action \in ActionIds
    BY ProposalsAssumption
  <2> QED BY <1>1, <1>2, <2>1, <2>2 DEF Decide, Permits!Decisions
<1>3. prop[c] \in Proposals
  BY Typed
<1>4. ASSUME NEW p \in Proposals, Run(c, p)
      PROVE  decision' \in [Calls -> Permits!Decisions \cup {Undecided}]
  BY <1>1, <1>2, <1>4 DEF Run, Permits!Outcomes, Permits!DecisionSources
<1>5. ASSUME Provider(c) PROVE decision' \in [Calls -> Permits!Decisions \cup {Undecided}]
  <2>1. UNCHANGED decision \/ \E outcome \in Permits!Outcomes, source \in Permits!DecisionSources :
                                 Decide(c, prop[c], Digest(prop[c]), outcome, source)
    BY <1>5 DEF Provider, ProviderAnswers, ProviderFails, Permits!Outcomes, Permits!DecisionSources
  <2> QED BY <1>1, <1>2, <1>3, <2>1
<1>6. ASSUME Approve(c) \/ Reclassify(c)
      PROVE  decision' \in [Calls -> Permits!Decisions \cup {Undecided}]
  <2>1. UNCHANGED decision \/ \E outcome \in Permits!Outcomes, source \in Permits!DecisionSources :
                                 Decide(c, prop[c], Digest(prop[c]), outcome, source)
    BY <1>6 DEF Approve, Reclassify, PolicyOutcome, Permits!Outcomes, Permits!DecisionSources
  <2> QED BY <1>1, <1>2, <1>3, <2>1
<1>7. ASSUME IssuePermit(c) \/ Recheck(c) \/ RecheckFails(c) \/ Consume(c)
             \/ Handle(c) \/ Write(c) \/ Tamper(c)
      PROVE  UNCHANGED decision
  BY <1>7 DEF IssuePermit, Recheck, RecheckFails, Consume, Handle, Write, Tamper
<1> QED BY <1>1, <1>4, <1>5, <1>6, <1>7 DEF StepOf, Turn

LEMMA EffectFact ==
  ASSUME IInv, NEW c \in Calls, Write(c)
  PROVE  Effect(c) \in Effects
<1>1. /\ Digest(prop[c]) \in Permits!Digests /\ Target(prop[c]) \in Kinds
      /\ Held(c).source \in Permits!ApprovalSources
  BY Typed, HeldFact DEF Write, Holding, Busy
<1>2. consent[c] \in {"none", "pass", "review"}
  BY DEF IInv, TypeOK
<1> QED BY <1>1, <1>2 DEF Effect, Effects

\* What a write does: one more effect, and the file is there.
LEMMA WriteFact ==
  ASSUME IInv, NEW c \in Calls, Write(c)
  PROVE  \/ UNCHANGED <<effects, fs>>
         \/ /\ Effect(c) \in Effects
            /\ effects' = [effects EXCEPT ![c] = Append(effects[c], Effect(c))]
            /\ fs' \in [Paths -> Kinds]
            /\ \/ UNCHANGED fs
               \/ Target(prop[c]) = "absent" /\ fs' = [fs EXCEPT ![prop[c].body.path] = "file"]
<1>1. Effect(c) \in Effects
  BY EffectFact
<1>2. fs \in [Paths -> Kinds]
  BY DEF IInv, TypeOK
<1> QED BY <1>1, <1>2 DEF Write, Kinds

LEMMA StoreKept ==
  ASSUME IInv, NEW c \in Calls, StepOf(c)
  PROVE  /\ permits' \in [Calls -> Seq(PermitId)]
         /\ effects' \in [Calls -> Seq(Effects)]
         /\ fs' \in [Paths -> Kinds]
<1>1. /\ permits \in [Calls -> Seq(PermitId)]
      /\ effects \in [Calls -> Seq(Effects)]
      /\ fs \in [Paths -> Kinds]
  BY DEF IInv, TypeOK
<1>2. CASE IssuePermit(c)
  <2>1. permits' = [permits EXCEPT ![c] = Append(permits[c], FreshPermit)]
        /\ FreshPermit \in PermitId /\ UNCHANGED <<effects, fs>>
    BY <1>2, IssueStep DEF IssuePermit
  <2> HIDE DEF FreshPermit
  <2> QED BY <1>1, <2>1
<1>3. CASE Write(c)
  <2>1. UNCHANGED permits
    BY <1>3 DEF Write
  <2>2. \/ UNCHANGED <<effects, fs>>
        \/ /\ Effect(c) \in Effects
           /\ effects' = [effects EXCEPT ![c] = Append(effects[c], Effect(c))]
           /\ fs' \in [Paths -> Kinds]
    BY <1>3, WriteFact
  <2>3. ASSUME NEW e \in Effects, effects' = [effects EXCEPT ![c] = Append(effects[c], e)]
        PROVE  effects' \in [Calls -> Seq(Effects)]
    BY <1>1, <2>3
  <2>4. effects' \in [Calls -> Seq(Effects)]
    BY <1>1, <2>2, <2>3
  <2>5. fs' \in [Paths -> Kinds]
    BY <1>1, <2>2
  <2> QED BY <1>1, <2>1, <2>4, <2>5
<1>4. CASE ~IssuePermit(c) /\ ~Write(c)
  BY <1>1, <1>4 DEF StepOf, Turn, Provider, Run, Recheck, RecheckFails, Reclassify, Consume, Handle,
     ProviderAnswers, ProviderFails, Approve, Tamper, NothingExecuted
<1> QED BY <1>2, <1>3, <1>4

LEMMA TypeKept ==
  ASSUME IInv, [Next]_vars
  PROVE  TypeOK'
<1>1. Permits!TypeOK'
  BY AuthorityKept
<1>2. ASSUME NEW c \in Calls, StepOf(c) PROVE TypeOK'
  BY <1>1, <1>2, PlaceKept, JudgementKept, DecisionKept, StoreKept
  DEF TypeOK, Places, Results
<1>3. TypeOK
  BY DEF IInv
<1>4. CASE External
  BY <1>1, <1>3, <1>4 DEF External, TypeOK
<1>5. CASE ClockMoves \/ UNCHANGED vars
  BY <1>1, <1>3, <1>5 DEF ClockMoves, vars, authority, TypeOK
<1> QED BY <1>2, <1>4, <1>5 DEF Next, StepOf

-----------------------------------------------------------------------------
(* Permits stay within the turn *)

\* Only the call that holds the loop has a permit in the table, its last one.
LEMMA TableFact ==
  ASSUME IInv, NEW c \in Calls, StepOf(c)
  PROVE  /\ pc[c] \in Unused => DOMAIN issued \subseteq {PermitOf(c)}
         /\ pc[c] \notin Unused => DOMAIN issued = {}
<1>1. loop \in {c, NoCall}
  BY LoopFact
<1> QED BY <1>1 DEF IInv, PermitsConfined, Unused

LEMMA ConfinedKept ==
  ASSUME IInv, [Next]_vars
  PROVE  PermitsConfined'
<1>1. ASSUME NEW c \in Calls, IssuePermit(c) PROVE PermitsConfined'
  <2>1. DOMAIN issued = {}
    BY <1>1, TableFact DEF StepOf, Turn, IssuePermit, Unused
  <2>2. DOMAIN issued' = {FreshPermit} /\ FreshPermit \in PermitId
    BY <1>1, <2>1, IssueStep
  <2>3. permits' = [permits EXCEPT ![c] = Append(permits[c], FreshPermit)]
        /\ permits \in [Calls -> Seq(PermitId)]
    BY <1>1 DEF IssuePermit, IInv, TypeOK
  <2>4. loop' = c /\ pc'[c] = "checking" /\ c # NoCall
    BY <1>1, GotoFact, Typed DEF IssuePermit
  <2>5. permits'[c][Len(permits'[c])] = FreshPermit
    <3> HIDE DEF FreshPermit
    <3> QED BY <2>2, <2>3
  <2> QED BY <2>2, <2>4, <2>5 DEF PermitsConfined, PermitOf
<1>2. ASSUME NEW c \in Calls, Reclassify(c) \/ RecheckFails(c) \/ Consume(c) PROVE PermitsConfined'
  <2>1. DOMAIN issued \subseteq {PermitOf(c)}
    BY <1>2, TableFact DEF StepOf, Turn, Reclassify, RecheckFails, Consume, Unused
  <2>2. DOMAIN issued' = {}
    BY <1>2, <2>1, RevokeStep, ConsumeStep
  <2> QED BY <2>2 DEF PermitsConfined
<1>3. ASSUME NEW c \in Calls, Recheck(c) PROVE PermitsConfined'
  <2>1. DOMAIN issued \subseteq {PermitOf(c)} /\ UNCHANGED <<issued, permits>>
    BY <1>3, TableFact
    DEF StepOf, Turn, Recheck, Unused, NothingExecuted, authority
  <2>2. loop' = c /\ pc'[c] \in Unused /\ c # NoCall
    BY <1>3, Typed, GotoFact DEF Recheck, Unused
  <2> QED BY <2>1, <2>2 DEF PermitsConfined, PermitOf, Unused
<1>4. ASSUME NEW c \in Calls, StepOf(c), ~IssuePermit(c), ~Reclassify(c), ~RecheckFails(c), ~Consume(c),
             ~Recheck(c)
      PROVE  PermitsConfined'
  <2>1. pc[c] \notin Unused
    BY <1>4 DEF StepOf, Turn, Provider, Run, Handle, Write, ProviderAnswers, ProviderFails,
       Approve, Tamper, Unused
  <2>2. DOMAIN issued = {} /\ UNCHANGED issued
    BY <1>4, <2>1, TableFact, NoPermitStep DEF authority
  <2> QED BY <2>2 DEF PermitsConfined
<1>5. CASE External \/ ClockMoves \/ UNCHANGED vars
  <2>1. UNCHANGED <<issued, loop, pc, permits>>
    BY <1>5 DEF External, ClockMoves, Permits!SetClock, vars, authority
  <2> QED BY <2>1 DEF IInv, PermitsConfined, PermitOf
<1> QED BY <1>1, <1>2, <1>3, <1>4, <1>5 DEF Next, StepOf, Turn

-----------------------------------------------------------------------------
(* What the invariant says of the call that takes the step *)

LEMMA TurnKept ==
  ASSUME IInv, NEW c \in Calls, StepOf(c)
  PROVE  OneTurn(c)'
<1>1. loop = c <=> pc[c] \in Busy
  BY LoopFact
<1>2. c # NoCall
  BY Typed
<1>3. ASSUME NEW l \in Busy, Goto(c, l) PROVE OneTurn(c)'
  BY <1>3, GotoFact DEF OneTurn
<1>4. ASSUME NEW r, Return(c, r) PROVE OneTurn(c)'
  BY <1>2, <1>4, ReturnFact DEF OneTurn, Busy
<1>5. ASSUME Suspend(c) PROVE OneTurn(c)'
  BY <1>2, <1>5, SuspendFact DEF OneTurn, Busy
<1>6. ASSUME Tamper(c) PROVE OneTurn(c)'
  BY <1>1, <1>6 DEF Tamper, OneTurn
<1> QED BY <1>3, <1>4, <1>5, <1>6
        DEF StepOf, Turn, Provider, Run, IssuePermit, Recheck, RecheckFails, Reclassify, Consume, Handle,
            Write, ProviderAnswers, ProviderFails, Approve, Busy

\* A busy call keeps proposal, decision and judgement until it returns.
LEMMA TurnChanges ==
  ASSUME NEW c \in Calls, Turn(c)
  PROVE  /\ UNCHANGED <<prop, judged, consent>>
         /\ ~Reclassify(c) => UNCHANGED <<decision, policy>>
         /\ ~Write(c) => UNCHANGED <<effects, fs>>
         /\ ~IssuePermit(c) => UNCHANGED permits
BY DEF Turn, IssuePermit, Recheck, RecheckFails, Reclassify, Consume, Handle, Write, Unjudged, NothingExecuted

LEMMA BoundKept ==
  ASSUME IInv, NEW c \in Calls, StepOf(c)
  PROVE  Bound(c)'
<1>0. Bound(c) /\ prop[c] \in Proposals
  BY Typed DEF CallInv
<1>1. ASSUME NEW p \in Proposals, Run(c, p) PROVE Bound(c)'
  <2>1. prop'[c] = p /\ judged'[c] = Digest(p) /\ effects[c] = <<>> /\ effects' = effects
    BY <1>0, <1>1 DEF Run, NothingExecuted, Bound, IInv, TypeOK
  <2>2. CASE Return(c, "blocked") \/ Return(c, "raised")
    <3>1. pc'[c] = "done"
      BY <2>2, ReturnFact
    <3> QED BY <2>1, <3>1 DEF Bound, Busy
  <2>3. CASE Decide(c, p, Digest(p), "review", "policy") /\ Return(c, "review")
    <3>1. decision'[c].digest = Digest(p)
      BY <2>3, DecideFact
    <3>2. pc'[c] = "reviewed"
      BY <2>3, ReturnFact
    <3> QED BY <2>1, <3>1, <3>2 DEF Bound, Busy
  <2>4. CASE Decide(c, p, Digest(p), "allow", "policy") /\ Goto(c, "issuing")
    <3>1. /\ decision'[c].action = p.action /\ decision'[c].digest = Digest(p)
          /\ decision'[c].outcome = "allow" /\ decision'[c].source = "policy"
      BY <2>4, DecideFact
    <3>2. pc'[c] = "issuing"
      BY <2>4, GotoFact
    <3> QED BY <2>1, <3>1, <3>2 DEF Bound, Permits!MayIssue, Permits!Grounds, Digest
  <2>5. CASE Suspend(c)
    <3>1. pc'[c] = "awaiting"
      BY <2>5, SuspendFact
    <3> QED BY <2>1, <3>1 DEF Bound, Busy
  <2> QED BY <1>1, <2>2, <2>3, <2>4, <2>5 DEF Run
<1>2. ASSUME Provider(c) PROVE Bound(c)'
  <2>1. UNCHANGED <<prop, judged, effects>> /\ effects[c] = <<>>
    BY <1>0, <1>2 DEF Provider, ProviderAnswers, ProviderFails, NothingExecuted, Bound
  <2>2. CASE Return(c, "raised") \/ Return(c, "blocked")
    <3>1. pc'[c] = "done"
      BY <2>2, ReturnFact
    <3> QED BY <2>1, <3>1 DEF Bound, Busy
  <2>3. ASSUME NEW source, Decide(c, prop[c], judged[c], "review", source), Return(c, "review")
        PROVE  Bound(c)'
    <3>1. decision'[c].digest = judged[c]
      BY <1>0, <2>3, DecideFact
    <3>2. pc'[c] = "reviewed"
      BY <2>3, ReturnFact
    <3> QED BY <2>1, <3>1, <3>2 DEF Bound, Busy
  <2>4. ASSUME Digest(prop[c]) = judged[c],
               Decide(c, prop[c], judged[c], "allow", "jev"), Goto(c, "issuing")
        PROVE  Bound(c)'
    <3>1. /\ decision'[c].action = prop[c].action /\ decision'[c].digest = judged[c]
          /\ decision'[c].outcome = "allow" /\ decision'[c].source = "jev"
      BY <1>0, <2>4, DecideFact
    <3>2. pc'[c] = "issuing"
      BY <1>0, <2>4, GotoFact
    <3> QED BY <2>1, <2>4, <3>1, <3>2 DEF Bound, Permits!MayIssue, Permits!Grounds, Digest
  <2> QED BY <1>2, <2>2, <2>3, <2>4 DEF Provider, ProviderAnswers, ProviderFails
<1>3. ASSUME Approve(c) PROVE Bound(c)'
  <2>1. /\ UNCHANGED <<prop, judged, effects>>
        /\ Approvable(c) => Digest(prop[c]) = judged[c]
    BY <1>0, <1>3 DEF Approve, Approvable, NothingExecuted, Bound
  <2>2. CASE Return(c, "raised") \/ Return(c, "blocked")
    <3>1. pc'[c] = "done"
      BY <2>2, ReturnFact
    <3> QED BY <1>0, <2>1, <3>1 DEF Bound, Busy
  <2>3. CASE Approvable(c) /\ Decide(c, prop[c], Digest(prop[c]), "review", "policy") /\ Return(c, "review")
    <3>1. decision'[c].digest = judged[c]
      BY <1>0, <2>1, <2>3, DecideFact
    <3>2. pc'[c] = "reviewed"
      BY <2>3, ReturnFact
    <3> QED BY <1>0, <2>1, <3>1, <3>2 DEF Bound, Busy
  <2>4. CASE Approvable(c) /\ Decide(c, prop[c], Digest(prop[c]), "review", "caller") /\ Goto(c, "issuing")
    <3>1. /\ decision'[c].action = prop[c].action /\ decision'[c].digest = judged[c]
          /\ decision'[c].outcome = "review" /\ decision'[c].source = "caller"
      BY <1>0, <2>1, <2>4, DecideFact
    <3>2. pc'[c] = "issuing"
      BY <1>0, <2>1, <2>4, GotoFact
    <3> QED BY <1>0, <2>1, <2>4, <3>1, <3>2 DEF Bound, Permits!MayIssue, Permits!Grounds, Digest
  <2> QED BY <1>3, <2>2, <2>3, <2>4 DEF Approve
<1>4. ASSUME Reclassify(c) PROVE Bound(c)'
  <2>1. UNCHANGED <<prop, judged, effects>> /\ pc[c] \in Busy
    BY <1>4 DEF Reclassify, Busy
  <2>2. decision'[c].digest = judged[c]
    <3>1. \/ UNCHANGED decision
          \/ Decide(c, prop[c], Digest(prop[c]), PolicyOutcome(prop[c]), "policy")
      BY <1>4 DEF Reclassify
    <3>2. decision'[c].digest = Digest(prop[c]) \/ UNCHANGED decision
      BY <1>0, <3>1, DecideFact
    <3> QED BY <2>1, <3>2, BusyFact
  <2>3. pc'[c] \in {"reviewed", "done"}
    BY <1>4, ReturnFact DEF Reclassify
  <2> QED BY <1>0, <2>1, <2>2, <2>3 DEF Bound, Busy
<1>5. ASSUME Write(c) PROVE Bound(c)'
  <2>1. UNCHANGED <<prop, judged, decision>> /\ pc[c] \in Busy /\ pc'[c] = "done"
    BY <1>5, ReturnFact DEF Write, Unjudged, Busy
  <2>2. \A i \in DOMAIN effects'[c] : effects'[c][i].digest = judged[c]
    <3>1. effects \in [Calls -> Seq(Effects)]
      BY DEF IInv, TypeOK
    <3>2. Effect(c).digest = judged[c]
      BY <2>1, BusyFact DEF Effect
    <3>3. CASE UNCHANGED effects
      BY <1>0, <3>3 DEF Bound
    <3>4. ASSUME NEW e \in Effects, e.digest = judged[c],
                 effects' = [effects EXCEPT ![c] = Append(effects[c], e)]
          PROVE  \A i \in DOMAIN effects'[c] : effects'[c][i].digest = judged[c]
      <4>1. effects'[c] = Append(effects[c], e) /\ effects[c] \in Seq(Effects)
        BY <3>1, <3>4
      <4>2. \A i \in DOMAIN effects[c] : effects[c][i].digest = judged[c]
        BY <1>0 DEF Bound
      <4> QED BY <3>4, <4>1, <4>2
    <3> QED BY <1>5, <3>2, <3>3, <3>4, WriteFact
  <2> QED BY <2>1, <2>2 DEF Bound, Busy
<1>6. ASSUME Turn(c), ~Write(c), ~Reclassify(c) PROVE Bound(c)'
  <2>1. UNCHANGED <<prop, judged, decision, effects>> /\ pc[c] \in Busy
    BY <1>6, TurnChanges DEF Turn, IssuePermit, Recheck, RecheckFails, Consume, Handle, Busy
  <2>2. pc'[c] \in Busy \cup {"done"}
    <3>1. \/ Goto(c, "checking") \/ Goto(c, "denied") \/ Goto(c, "sent back") \/ Goto(c, "consuming")
          \/ Goto(c, "acting") \/ Goto(c, "writing")
          \/ Return(c, "error") \/ Return(c, "success")
      BY <1>6 DEF Turn, IssuePermit, Recheck, RecheckFails, Consume, Handle
    <3>2. ASSUME NEW l \in Busy, Goto(c, l) PROVE pc'[c] \in Busy
      BY <3>2, GotoFact
    <3>3. ASSUME NEW r \in {"error", "success"}, Return(c, r) PROVE pc'[c] = "done"
      BY <3>3, ReturnFact
    <3> QED BY <3>1, <3>2, <3>3 DEF Busy
  <2> QED BY <1>0, <2>1, <2>2 DEF Bound, Busy, Permits!MayIssue, Permits!Digest, Permits!Grounds
<1>7. ASSUME Tamper(c) PROVE Bound(c)'
  BY <1>0, <1>7 DEF Tamper, NothingExecuted, Bound, Busy
<1> QED BY <1>1, <1>2, <1>3, <1>4, <1>5, <1>6, <1>7 DEF StepOf, Turn

LEMMA HoldsKept ==
  ASSUME IInv, NEW c \in Calls, StepOf(c), TermsKept
  PROVE  Holds(c)'
<1>0. Holds(c)
  BY Typed DEF CallInv
<1>1. ASSUME NEW p \in Proposals, Run(c, p) PROVE Holds(c)'
  <2>1. pc'[c] \in {"done", "reviewed", "issuing", "awaiting"}
    BY <1>1, ReturnFact, GotoFact, SuspendFact DEF Run
  <2> QED BY <2>1 DEF Holds, Holding, Busy
<1>2. ASSUME Provider(c) \/ Approve(c) PROVE Holds(c)'
  <2>1. pc'[c] \in {"done", "reviewed", "issuing"}
    BY <1>2, ReturnFact, GotoFact DEF Provider, ProviderAnswers, ProviderFails, Approve
  <2> QED BY <2>1 DEF Holds, Holding, Busy
<1>3. ASSUME Reclassify(c) \/ RecheckFails(c) \/ Write(c) PROVE Holds(c)'
  <2>1. pc'[c] \in {"done", "reviewed"}
    BY <1>3, ReturnFact DEF Reclassify, RecheckFails, Write
  <2> QED BY <2>1 DEF Holds, Holding, Busy
<1>4. ASSUME Tamper(c) PROVE Holds(c)'
  BY <1>4 DEF Tamper, Holds, Holding, Busy
<1>5. ASSUME IssuePermit(c) PROVE Holds(c)'
  <2>1. permits' = [permits EXCEPT ![c] = Append(permits[c], FreshPermit)]
        /\ UNCHANGED decision /\ permits \in [Calls -> Seq(PermitId)]
    BY <1>5 DEF IssuePermit, IInv, TypeOK
  <2>2. /\ FreshPermit \in PermitId /\ FreshPermit \in DOMAIN terms'
        /\ terms'[FreshPermit].decision = decision[c].outcome
        /\ terms'[FreshPermit].source = decision[c].source
    BY <1>5, IssueStep
  <2> HIDE DEF FreshPermit
  <2>3. permits'[c] = Append(permits[c], FreshPermit) /\ permits[c] \in Seq(PermitId)
    BY <2>1
  <2>4. Len(permits'[c]) = Len(permits[c]) + 1 /\ permits'[c] \in Seq(PermitId)
        /\ permits'[c][Len(permits'[c])] = FreshPermit
    BY <2>2, <2>3
  <2>5. permits'[c] # <<>>
    BY <2>3, <2>4
  <2> QED BY <2>1, <2>2, <2>4, <2>5 DEF Holds, PermitOf
<1>6. ASSUME Recheck(c) \/ Consume(c) \/ Handle(c) PROVE Holds(c)'
  <2>1. pc[c] \in Holding /\ UNCHANGED <<permits, decision>>
    BY <1>6 DEF Recheck, Consume, Handle, NothingExecuted, Holding, Busy
  <2> QED BY <1>0, <2>1 DEF Holds, PermitOf, TermsKept
<1> QED BY <1>1, <1>2, <1>3, <1>4, <1>5, <1>6 DEF StepOf, Turn

LEMMA ConsentedKept ==
  ASSUME IInv, NEW c \in Calls, StepOf(c)
  PROVE  Consented(c)'
<1>0. Consented(c) /\ prop[c] \in Proposals
  BY Typed DEF CallInv
<1>1. ASSUME NEW p \in Proposals, Run(c, p) PROVE Consented(c)'
  <2>1. /\ UNCHANGED consent /\ consent[c] = "none"
        /\ Check(p) # "raises" => policy'[c] = Check(p)
    BY <1>0, <1>1 DEF Run, Consented, IInv, TypeOK
  <2>2. CASE Return(c, "blocked") \/ Return(c, "raised")
    <3>1. pc'[c] = "done"
      BY <2>2, ReturnFact
    <3> QED BY <2>1, <3>1 DEF Consented, Busy
  <2>3. CASE Check(p) = "review" /\ Return(c, "review")
    <3>1. pc'[c] = "reviewed"
      BY <2>3, ReturnFact
    <3> QED BY <2>1, <2>3, <3>1 DEF Consented, Busy
  <2>4. CASE Decide(c, p, Digest(p), "allow", "policy") /\ Goto(c, "issuing")
    <3>1. decision'[c].source = "policy"
      BY <2>4, DecideFact
    <3>2. pc'[c] = "issuing"
      BY <2>4, GotoFact
    <3> QED BY <2>1, <3>1, <3>2 DEF Consented, Busy
  <2>5. CASE Check(p) = "pass" /\ Suspend(c)
    <3>1. pc'[c] = "awaiting"
      BY <2>5, SuspendFact
    <3> QED BY <2>1, <2>5, <3>1 DEF Consented, Busy
  <2> QED BY <1>1, <2>2, <2>3, <2>4, <2>5 DEF Run
<1>2. ASSUME Provider(c) PROVE Consented(c)'
  <2>1. UNCHANGED <<consent, policy>> /\ consent[c] = "none" /\ policy[c] = "pass"
    BY <1>0, <1>2 DEF Provider, ProviderAnswers, ProviderFails, Consented
  <2>2. CASE Return(c, "raised") \/ Return(c, "blocked") \/ Return(c, "review")
    <3>1. pc'[c] \in {"done", "reviewed"}
      BY <2>2, ReturnFact
    <3> QED BY <2>1, <3>1 DEF Consented, Busy
  <2>3. CASE Decide(c, prop[c], judged[c], "allow", "jev") /\ Goto(c, "issuing")
    <3>1. decision'[c].source = "jev"
      BY <1>0, <2>3, DecideFact
    <3>2. pc'[c] = "issuing"
      BY <2>3, GotoFact
    <3> QED BY <2>1, <3>1, <3>2 DEF Consented, Busy
  <2> QED BY <1>2, <2>2, <2>3 DEF Provider, ProviderAnswers, ProviderFails
<1>3. ASSUME Approve(c) PROVE Consented(c)'
  <2>1. consent[c] = "none" /\ (Approvable(c) => policy[c] \in {"pass", "review"})
    BY <1>0, <1>3 DEF Approve, Approvable, Consented
  <2>2. CASE Return(c, "raised") \/ Return(c, "blocked")
    <3>1. pc'[c] = "done"
      BY <2>2, ReturnFact
    <3> QED BY <3>1 DEF Consented, Busy
  <2>3. CASE policy' = [policy EXCEPT ![c] = "review"] /\ Return(c, "review") /\ UNCHANGED consent
    <3>1. pc'[c] = "reviewed"
      BY <2>3, ReturnFact
    <3>2. policy'[c] = "review"
      BY <2>3 DEF IInv, TypeOK
    <3> QED BY <2>1, <2>3, <3>1, <3>2 DEF Consented, Busy
  <2>4. CASE /\ Approvable(c) /\ Decide(c, prop[c], Digest(prop[c]), "review", "caller")
             /\ consent' = [consent EXCEPT ![c] = policy[c]] /\ Goto(c, "issuing")
    <3>1. decision'[c].source = "caller"
      BY <1>0, <2>4, DecideFact
    <3>2. pc'[c] = "issuing"
      BY <2>4, GotoFact
    <3>3. consent'[c] # "none"
      BY <2>1, <2>4 DEF IInv, TypeOK
    <3> QED BY <3>1, <3>2, <3>3 DEF Consented, Busy
  <2> QED BY <1>3, <2>2, <2>3, <2>4 DEF Approve
<1>4. ASSUME Reclassify(c) PROVE Consented(c)'
  <2>1. CASE pc[c] = "denied" \/ Check(prop[c]) = "raises"
    <3>1. Return(c, "blocked") \/ Return(c, "raised")
      BY <1>4, <2>1 DEF Reclassify
    <3>2. pc'[c] = "done"
      BY <3>1, ReturnFact
    <3> QED BY <3>2 DEF Consented, Busy
  <2>2. CASE pc[c] = "sent back" /\ Check(prop[c]) # "raises"
    <3>1. UNCHANGED consent /\ consent[c] = "none" /\ policy'[c] = Check(prop[c])
      BY <1>0, <1>4, <2>2 DEF Reclassify, Consented, IInv, TypeOK
    <3>2. Return(c, "review")
          /\ Decide(c, prop[c], Digest(prop[c]), PolicyOutcome(prop[c]), "policy")
      BY <1>4, <2>2 DEF Reclassify
    <3>3. pc'[c] = "reviewed"
      BY <3>2, ReturnFact
    <3>4. decision'[c].outcome = PolicyOutcome(prop[c])
      BY <1>0, <3>2, DecideFact
    <3>5. decision'[c].outcome = "review" => Check(prop[c]) = "review"
      BY <3>4 DEF PolicyOutcome
    <3> QED BY <3>1, <3>3, <3>5 DEF Consented, Busy
  <2> QED BY <1>4, <2>1, <2>2 DEF Reclassify
<1>5. ASSUME Recheck(c) PROVE Consented(c)'
  <2>1. UNCHANGED <<consent, decision, policy>>
    BY <1>5 DEF Recheck, Unjudged
  <2>2. /\ pc[c] \in Busy
        /\ consent[c] # "none" <=> decision[c].source = "caller"
        /\ decision[c].source = "caller" => CallerApproved(Held(c))
    BY <1>0, <1>5, BusyFact, HeldFact DEF Recheck, Consented, CallerApproved, Busy, Holding
  <2>3. \/ Goto(c, "denied") \/ Goto(c, "consuming")
        \/ Goto(c, "sent back") /\ ~CallerApproved(Held(c))
    BY <1>5 DEF Recheck
  <2>4. \/ pc'[c] = "denied" \/ pc'[c] = "consuming"
        \/ pc'[c] = "sent back" /\ ~CallerApproved(Held(c))
    BY <2>3, GotoFact
  <2> QED BY <2>1, <2>2, <2>4 DEF Consented, Busy
<1>6. ASSUME IssuePermit(c) \/ RecheckFails(c) \/ Consume(c) \/ Handle(c) \/ Write(c)
      PROVE  Consented(c)'
  <2>1. UNCHANGED <<consent, decision>> /\ pc[c] \in Busy
    BY <1>6 DEF IssuePermit, RecheckFails, Consume, Handle, Write, Unjudged, Busy
  <2>2. pc'[c] \in {"checking", "acting", "writing", "done"}
    BY <1>6, GotoFact, ReturnFact DEF IssuePermit, RecheckFails, Consume, Handle, Write
  <2> QED BY <1>0, <2>1, <2>2 DEF Consented, Busy
<1>7. ASSUME Tamper(c) PROVE Consented(c)'
  BY <1>0, <1>7 DEF Tamper, Consented
<1> QED BY <1>1, <1>2, <1>3, <1>4, <1>5, <1>6, <1>7 DEF StepOf, Turn

-----------------------------------------------------------------------------
(* The invariant *)

LEMMA InitIInv == Init => IInv
<1> SUFFICES ASSUME Init PROVE IInv
  OBVIOUS
<1>1. Authority!IInv /\ Permits!TypeOK
  BY AuthorityInv DEF Init
<1>2. TypeOK
  <2>1. (CHOOSE p \in Proposals : TRUE) \in Proposals
    BY ProposalsAssumption
  <2>2. permits \in [Calls -> Seq(PermitId)] /\ effects \in [Calls -> Seq(Effects)]
    BY DEF Init
  <2> QED BY <1>1, <2>1, <2>2 DEF Init, TypeOK
<1>3. PermitsConfined
  BY DEF Init, Permits!Init, PermitsConfined
<1>4. ASSUME NEW c \in Calls PROVE CallInv(c)
  <2>1. pc[c] = "idle" /\ loop # c /\ effects[c] = <<>> /\ consent[c] = "none"
    BY ChainAssumption DEF Init
  <2> QED BY <2>1 DEF CallInv, OneTurn, Bound, Holds, Consented, Busy, Holding
<1> QED BY <1>1, <1>2, <1>3, <1>4 DEF IInv

LEMMA NextIInv == IInv /\ [Next]_vars => IInv'
<1> SUFFICES ASSUME IInv, [Next]_vars PROVE IInv'
  OBVIOUS
<1>1. TypeOK' /\ Authority!IInv' /\ PermitsConfined' /\ TermsKept
  BY TypeKept, AuthorityKept, ConfinedKept
<1>2. ASSUME NEW d \in Calls PROVE CallInv(d)'
  <2>0. CallInv(d)
    BY Typed
  <2>1. ASSUME NEW c \in Calls, StepOf(c), c # d PROVE CallInv(d)'
    BY <1>1, <2>0, <2>1, OthersAside, AsideInv
  <2>2. ASSUME StepOf(d) PROVE CallInv(d)'
    BY <1>1, <2>2, TurnKept, BoundKept, HoldsKept, ConsentedKept DEF CallInv
  <2>3. CASE External \/ ClockMoves \/ UNCHANGED vars
    <3>1. Aside(d)
      BY <2>3 DEF External, ClockMoves, vars, Aside
    <3> QED BY <1>1, <2>0, <3>1, AsideInv
  <2> QED BY <2>1, <2>2, <2>3 DEF Next, StepOf
<1> QED BY <1>1, <1>2 DEF IInv

LEMMA Invariance == Spec => []IInv
BY InitIInv, NextIInv, PTL DEF Spec

-----------------------------------------------------------------------------
\* Every variable of the chain keeps its type (control/chain.py).
THEOREM TypeCorrect == Spec => []TypeOK
<1>1. IInv => TypeOK
  BY DEF IInv
<1> QED BY <1>1, Invariance, PTL

\* What is executed is what the policy first judged (controller.py:85,
\* chain.py:51), however the file system and the arguments change.
THEOREM ExecutesAsJudged == Spec => []ExecutedAsJudged
<1>1. IInv => ExecutedAsJudged
  BY DEF IInv, CallInv, Bound, ExecutedAsJudged
<1> QED BY <1>1, Invariance, PTL

\* No permit outlives the turn it was issued in (chain.py:75, 81).
THEOREM PermitsStayConfined == Spec => []PermitsConfined
<1>1. IInv => PermitsConfined
  BY DEF IInv
<1> QED BY <1>1, Invariance, PTL

-----------------------------------------------------------------------------
(* A permit fits its call until it is used *)

\* The permit a call has not used is in the table, for what the call will present.
Carries(c) ==
  pc[c] \in Unused =>
    /\ PermitOf(c) \in DOMAIN issued
    /\ terms[PermitOf(c)].action = prop[c].action /\ terms[PermitOf(c)].tool = prop[c].tool
    /\ terms[PermitOf(c)].digest = Digest(prop[c])

CarryInv == \A c \in Calls : Carries(c)

\* The turn of one call is not interrupted by a step of another.
LEMMA NotDisturbed ==
  ASSUME IInv, NEW c \in Calls, StepOf(c), NEW d \in Calls \ {c}
  PROVE  pc[d] \notin Unused /\ pc'[d] \notin Unused
<1>1. loop # d /\ OneTurn(d)
  BY LoopFact, Typed DEF CallInv
<1>2. pc[d] \notin Unused
  BY <1>1 DEF OneTurn, Unused, Busy
<1> QED BY <1>2, OthersAside DEF Aside

LEMMA IssueCarries ==
  ASSUME IInv, NEW c \in Calls, IssuePermit(c)
  PROVE  Carries(c)'
<1>1. /\ permits' = [permits EXCEPT ![c] = Append(permits[c], FreshPermit)]
      /\ permits \in [Calls -> Seq(PermitId)] /\ UNCHANGED prop
  BY DEF IssuePermit, IInv, TypeOK, Unjudged
<1>2. FreshPermit \in PermitId /\ FreshPermit \in DOMAIN issued'
  BY IssueStep
<1>3. Permits!Issue(prop[c], decision[c], ApprovalSource(c), FreshPermit)
  BY DEF IssuePermit
<1> HIDE DEF FreshPermit
<1>4. permits'[c][Len(permits'[c])] = FreshPermit
  BY <1>1, <1>2
<1>5. /\ terms'[FreshPermit].action = prop[c].action /\ terms'[FreshPermit].tool = prop[c].tool
      /\ terms'[FreshPermit].digest = Permits!Digest(prop[c])
  BY <1>3 DEF Permits!Issue, Permits!TermsOf
<1>6. Digest(prop[c])' = Permits!Digest(prop[c])
  BY <1>1 DEF Digest, Permits!Digest
<1> QED BY <1>1, <1>2, <1>4, <1>5, <1>6 DEF Carries, PermitOf

LEMMA CarryStep ==
  ASSUME IInv, CarryInv, NEW c \in Calls, StepOf(c)
  PROVE  Carries(c)'
<1>1. CASE IssuePermit(c)
  BY <1>1, IssueCarries
<1>2. CASE Recheck(c)
  <2>1. /\ pc[c] \in Unused /\ Carries(c)
        /\ UNCHANGED <<issued, terms, permits, prop>>
    BY <1>2 DEF Recheck, CarryInv, Unused, NothingExecuted, authority, Unjudged
  <2> QED BY <2>1 DEF Carries, PermitOf, Digest, Permits!Digest
<1>3. CASE Tamper(c)
  BY <1>3 DEF Tamper, Carries, Unused
<1>4. ASSUME ~IssuePermit(c), ~Recheck(c), ~Tamper(c) PROVE pc'[c] \notin Unused
  <2>1. ASSUME NEW r, Return(c, r) PROVE pc'[c] \notin Unused
    BY <2>1, ReturnFact DEF Unused
  <2>2. ASSUME Suspend(c) PROVE pc'[c] \notin Unused
    BY <2>2, SuspendFact DEF Unused
  <2>3. ASSUME NEW l \in {"issuing", "acting", "writing"}, Goto(c, l) PROVE pc'[c] \notin Unused
    BY <2>3, GotoFact DEF Unused
  <2> QED BY <1>4, <2>1, <2>2, <2>3
          DEF StepOf, Turn, Provider, Run, RecheckFails, Reclassify, Consume, Handle, Write,
              ProviderAnswers, ProviderFails, Approve
<1> QED BY <1>1, <1>2, <1>3, <1>4 DEF Carries

LEMMA CarryNext == IInv /\ CarryInv /\ [Next]_vars => CarryInv'
<1> SUFFICES ASSUME IInv, CarryInv, [Next]_vars, NEW d \in Calls PROVE Carries(d)'
  BY DEF CarryInv
<1>1. ASSUME NEW c \in Calls, StepOf(c) PROVE Carries(d)'
  BY <1>1, CarryStep, NotDisturbed DEF Carries
<1>2. CASE External \/ ClockMoves \/ UNCHANGED vars
  <2>1. UNCHANGED <<issued, terms, permits, prop, pc>>
    BY <1>2 DEF External, ClockMoves, Permits!SetClock, vars, authority
  <2> QED BY <2>1 DEF CarryInv, Carries, PermitOf, Digest, Permits!Digest
<1> QED BY <1>1, <1>2 DEF Next, StepOf

\* Once a call was decided, nothing that other calls or the environment do, short of
\* letting time pass, keeps it from getting its permit and using it: issue() never
\* raises in _execute, and consume() only for expiry (permits.py:25-41, 65-85).
THEOREM PermitsServeTheirCalls == Spec => []PermitsSuffice
<1>1. ASSUME IInv, CarryInv PROVE PermitsSuffice
  <2> SUFFICES ASSUME NEW c \in Calls
               PROVE  /\ pc[c] = "issuing" => Permits!MayIssue(prop[c], decision[c], ApprovalSource(c))
                      /\ pc[c] = "consuming" => Permits!Matches(prop[c], Held(c))
    BY DEF PermitsSuffice
  <2>1. ASSUME pc[c] = "issuing" PROVE Permits!MayIssue(prop[c], decision[c], ApprovalSource(c))
    BY <1>1, <2>1, Typed DEF CallInv, Bound, Busy, ApprovalSource
  <2>2. ASSUME pc[c] = "consuming" PROVE Permits!Matches(prop[c], Held(c))
    <3>1. /\ PermitOf(c) \in DOMAIN issued
          /\ terms[PermitOf(c)].action = prop[c].action /\ terms[PermitOf(c)].tool = prop[c].tool
          /\ terms[PermitOf(c)].digest = Permits!Digest(prop[c])
      BY <1>1, <2>2 DEF CarryInv, Carries, Unused, Digest
    <3>2. issued[PermitOf(c)] = terms[PermitOf(c)] /\ PermitOf(c) \in DOMAIN terms
      BY <1>1, <3>1 DEF IInv, Authority!IInv, Authority!Live
    <3>3. terms[PermitOf(c)] \in Permits!Terms
      BY <1>1, <3>2 DEF IInv, TypeOK, Permits!TypeOK
    <3>4. terms[PermitOf(c)] = Permits!Expected(prop[c], Held(c))
      BY <3>1, <3>3 DEF Permits!Terms, Permits!Expected, Held
    <3> QED BY <3>1, <3>2, <3>4 DEF Permits!Matches, Held
  <2> QED BY <2>1, <2>2
<1>2. Init => CarryInv
  BY DEF Init, CarryInv, Carries, Unused
<1> QED BY <1>1, <1>2, CarryNext, Invariance, PTL DEF Spec

-----------------------------------------------------------------------------
(* Overwrites, when the file system is quiet while a call holds the loop *)

\* A call that has not reached the recheck depends on its consent alone.
LEMMA ConsentOnly ==
  ASSUME IInv, NEW c \in Calls, Approve(c)
  PROVE  Described(c)'
<1>1. UNCHANGED <<fs, prop>> /\ consent[c] = "none"
  BY Typed DEF Approve, NothingExecuted, CallInv, Consented
<1>2. \/ UNCHANGED consent
      \/ consent' = [consent EXCEPT ![c] = policy[c]] /\ ~NewRisk(c)
  BY DEF Approve
<1>3. CASE UNCHANGED consent
  BY <1>1, <1>3 DEF Described
<1>4. CASE consent' = [consent EXCEPT ![c] = policy[c]] /\ ~NewRisk(c)
  <2>1. consent'[c] = policy[c]
    BY <1>4 DEF IInv, TypeOK
  <2>2. Check(prop[c])' = Check(prop[c])
    BY <1>1 DEF Check, Denied, Overwrites, Unreadable, UsesPath, Target
  <2> QED BY <1>1, <1>4, <2>1, <2>2 DEF Described, NewRisk
<1> QED BY <1>2, <1>3, <1>4

LEMMA QuietStep ==
  ASSUME IInv, NEW c \in Calls, StepOf(c), Described(c), Rechecked(c), Informed(c)
  PROVE  Described(c)' /\ Rechecked(c)' /\ Informed(c)'
<1>1. ASSUME NEW p \in Proposals, Run(c, p)
      PROVE  Described(c)' /\ Rechecked(c)' /\ Informed(c)'
  <2>1. UNCHANGED effects /\ UNCHANGED consent /\ consent[c] = "none"
    BY <1>1, Typed DEF Run, NothingExecuted, CallInv, Consented
  <2>2. pc'[c] \in {"done", "reviewed", "issuing", "awaiting"}
    BY <1>1, ReturnFact, GotoFact, SuspendFact DEF Run
  <2> QED BY <2>1, <2>2 DEF Described, Rechecked, Informed, Cleared
<1>2. ASSUME Provider(c) PROVE Described(c)' /\ Rechecked(c)' /\ Informed(c)'
  <2>1. UNCHANGED effects /\ UNCHANGED consent /\ consent[c] = "none"
    BY <1>2, Typed DEF Provider, ProviderAnswers, ProviderFails, NothingExecuted, CallInv, Consented
  <2>2. pc'[c] \in {"done", "reviewed", "issuing"}
    BY <1>2, ReturnFact, GotoFact DEF Provider, ProviderAnswers, ProviderFails
  <2> QED BY <2>1, <2>2 DEF Described, Rechecked, Informed, Cleared
<1>3. ASSUME Approve(c) PROVE Described(c)' /\ Rechecked(c)' /\ Informed(c)'
  <2>1. UNCHANGED effects
    BY <1>3 DEF Approve, NothingExecuted
  <2>2. pc'[c] \in {"done", "reviewed", "issuing"}
    BY <1>3, ReturnFact, GotoFact DEF Approve
  <2> QED BY <1>3, <2>1, <2>2, ConsentOnly DEF Rechecked, Informed, Cleared
<1>4. ASSUME Tamper(c) PROVE Described(c)' /\ Rechecked(c)' /\ Informed(c)'
  BY <1>4 DEF Tamper, NothingExecuted, Described, Rechecked, Informed, Cleared, Busy
<1>5. ASSUME Reclassify(c) \/ RecheckFails(c) PROVE Described(c)' /\ Rechecked(c)' /\ Informed(c)'
  <2>1. pc'[c] \in {"done", "reviewed"} /\ UNCHANGED effects
    BY <1>5, ReturnFact DEF Reclassify, RecheckFails
  <2> QED BY <2>1 DEF Described, Rechecked, Informed, Cleared, Busy
<1>6. ASSUME IssuePermit(c) \/ Recheck(c) \/ Consume(c) \/ Handle(c)
      PROVE  Described(c)' /\ Rechecked(c)' /\ Informed(c)'
  <2>1. UNCHANGED <<fs, prop, consent, effects>> /\ pc[c] \in Busy
    BY <1>6 DEF IssuePermit, Recheck, Consume, Handle, NothingExecuted, Unjudged, Busy
  <2>2. /\ Check(prop[c])' = Check(prop[c]) /\ Target(prop[c])' = Target(prop[c])
    BY <2>1 DEF Check, Denied, Overwrites, Unreadable, UsesPath, Target
  <2>3. Described(c)' /\ Informed(c)'
    BY <2>1, <2>2 DEF Described, Informed
  <2>4. CASE IssuePermit(c)
    BY <2>3, <2>4, GotoFact DEF IssuePermit, Rechecked, Cleared
  <2>5. CASE Recheck(c)
    <3>1. \/ Goto(c, "denied") \/ Goto(c, "sent back")
          \/ Goto(c, "consuming") /\ Check(prop[c]) # "deny"
             /\ (Check(prop[c]) = "review" => CallerApproved(Held(c)))
      BY <2>5 DEF Recheck
    <3>2. \/ pc'[c] = "denied" \/ pc'[c] = "sent back"
          \/ pc'[c] = "consuming" /\ Check(prop[c]) # "deny"
             /\ (Check(prop[c]) = "review" => CallerApproved(Held(c)))
      BY <3>1, GotoFact
    <3>3. CallerApproved(Held(c)) => consent[c] # "none"
      BY <2>5, Typed, HeldFact DEF Recheck, Holding, Busy, CallerApproved, CallInv, Consented
    <3>4. Rechecked(c)'
      BY <2>1, <2>2, <3>2, <3>3 DEF Rechecked, Cleared
    <3> QED BY <2>3, <3>4
  <2>6. CASE Consume(c)
    <3>1. pc[c] = "consuming" /\ pc'[c] \in {"acting", "done"}
      BY <2>6, GotoFact, ReturnFact DEF Consume
    <3> QED BY <2>1, <2>2, <2>3, <3>1 DEF Rechecked, Cleared
  <2>7. CASE Handle(c)
    <3>1. /\ pc[c] = "acting"
          /\ \/ pc'[c] = "done"
             \/ pc'[c] = "writing" /\ Serves(prop[c]) /\ prop[c].tool = "write_file"
      BY <2>7, GotoFact, ReturnFact DEF Handle
    <3>2. Serves(prop[c]) /\ prop[c].tool = "write_file" => Target(prop[c]) \in {"absent", "file"}
      BY DEF Serves
    <3>3. Rechecked(c)'
      BY <2>1, <2>2, <3>1, <3>2 DEF Rechecked, Cleared
    <3> QED BY <2>3, <3>3
  <2> QED BY <1>6, <2>4, <2>5, <2>6, <2>7
<1>7. ASSUME Write(c) PROVE Described(c)' /\ Rechecked(c)' /\ Informed(c)'
  <2>1. pc'[c] = "done" /\ pc[c] = "writing"
    BY <1>7, ReturnFact DEF Write
  <2>2. Effect(c).onto = Target(prop[c]) /\ Effect(c).source = Held(c).source
        /\ Effect(c).shown = consent[c]
    BY DEF Effect
  <2>3. Target(prop[c]) = "file" => Held(c).source = "caller" /\ consent[c] = "review"
    <3>1. prop[c].tool = "write_file" /\ Target(prop[c]) \in {"absent", "file"}
      BY <2>1 DEF Rechecked
    <3>2. Target(prop[c]) = "file" => Check(prop[c]) = "review"
      BY <3>1 DEF Check, Denied, Overwrites, Unreadable, UsesPath
    <3>3. Check(prop[c]) = "review" => consent[c] = "review"
      BY <2>1 DEF Rechecked, Cleared, Described, Busy
    <3>4. consent[c] # "none" => Held(c).source = "caller"
      BY <2>1, Typed, HeldFact DEF Holding, Busy, CallInv, Consented
    <3> QED BY <3>2, <3>3, <3>4
  <2>4. Target(prop[c]) \in {"absent", "file"}
    BY <2>1 DEF Rechecked
  <2>5. ASSUME NEW e \in Effects, e.onto \in {"absent", "file"},
               e.onto = "file" => e.source = "caller" /\ e.shown = "review",
               effects' = [effects EXCEPT ![c] = Append(effects[c], e)]
        PROVE  Informed(c)'
    <3>1. effects \in [Calls -> Seq(Effects)]
      BY DEF IInv, TypeOK
    <3>2. effects'[c] = Append(effects[c], e) /\ effects[c] \in Seq(Effects)
      BY <3>1, <2>5
    <3> QED BY <2>5, <3>2 DEF Informed
  <2>6. Informed(c)'
    BY <1>7, <2>2, <2>3, <2>4, <2>5, WriteFact DEF Informed
  <2> QED BY <2>1, <2>6 DEF Described, Rechecked, Cleared, Busy
<1> QED BY <1>1, <1>2, <1>3, <1>4, <1>5, <1>6, <1>7 DEF StepOf, Turn

LEMMA QuietNext ==
  ASSUME ~Racing, IInv, QuietInv, [Next]_vars
  PROVE  QuietInv'
<1> SUFFICES ASSUME NEW d \in Calls PROVE Described(d)' /\ Rechecked(d)' /\ Informed(d)'
  BY DEF QuietInv
<1>0. Described(d) /\ Rechecked(d) /\ Informed(d)
  BY DEF QuietInv
<1>1. CASE StepOf(d)
  BY <1>0, <1>1, QuietStep
<1>2. ASSUME NEW c \in Calls, StepOf(c), c # d PROVE Described(d)' /\ Rechecked(d)' /\ Informed(d)'
  <2>1. Aside(d)
    BY <1>2, OthersAside
  <2>2. pc'[d] \notin Busy
    <3>1. loop # d /\ (pc[d] \in Busy <=> loop = d)
      BY <1>2, LoopFact, Typed DEF CallInv, OneTurn
    <3> QED BY <2>1, <3>1 DEF Aside
  <2>3. Informed(d)'
    BY <1>0, <2>1 DEF Aside, Informed
  <2> QED BY <2>2, <2>3 DEF Described, Rechecked, Cleared, Busy
<1>3. CASE External
  <2>1. loop = NoCall /\ UNCHANGED <<pc, effects>>
    BY <1>3 DEF External
  <2>2. pc'[d] \notin Busy
    BY <2>1, Typed DEF CallInv, OneTurn
  <2> QED BY <1>0, <2>1, <2>2 DEF Described, Rechecked, Informed, Cleared, Busy
<1>4. CASE ClockMoves \/ UNCHANGED vars
  <2>1. UNCHANGED <<pc, fs, prop, consent, effects>>
    BY <1>4 DEF ClockMoves, vars
  <2>2. Check(prop[d])' = Check(prop[d]) /\ Target(prop[d])' = Target(prop[d])
    BY <2>1 DEF Check, Denied, Overwrites, Unreadable, UsesPath, Target
  <2> QED BY <1>0, <2>1, <2>2 DEF Described, Rechecked, Informed
<1> QED BY <1>1, <1>2, <1>3, <1>4 DEF Next, StepOf

LEMMA QuietInit == Init => QuietInv
<1> SUFFICES ASSUME Init, NEW c \in Calls PROVE Described(c) /\ Rechecked(c) /\ Informed(c)
  BY DEF QuietInv
<1>1. pc[c] = "idle" /\ effects[c] = <<>>
  BY DEF Init
<1> QED BY <1>1 DEF Described, Rechecked, Informed, Cleared, Busy

\* While other processes leave the file system alone during a turn of the loop,
\* a file is overwritten only for a caller who approved that review
\* (chain.py:53-57, executor.py:106-112), for any number of calls.
THEOREM OverwritesAreInformed ==
  ASSUME ~Racing
  PROVE  Spec => []InformedOverwrite
<1>1. QuietInv => InformedOverwrite
  BY DEF QuietInv, Informed, InformedOverwrite
<1>2. IInv /\ QuietInv /\ [Next]_vars => QuietInv'
  BY QuietNext
<1> QED BY <1>1, <1>2, QuietInit, Invariance, PTL DEF Spec

-----------------------------------------------------------------------------
(* Reviews, when the file system is quiet while a call holds the loop *)

\* The execution that is sent back for review still needs one, and a result
\* under review says so.
Offered(c) ==
  /\ pc[c] = "sent back" => Check(prop[c]) = "review"
  /\ pc[c] = "reviewed" => decision[c].outcome = "review"

OfferInv == \A c \in Calls : Offered(c)

\* A decision for review is taken wherever a call returns for review.
LEMMA OfferedReview ==
  ASSUME IInv, NEW c \in Calls, NEW p, NEW digest, NEW source,
         Decide(c, p, digest, "review", source), Return(c, "review")
  PROVE  Offered(c)'
<1>1. pc'[c] = "reviewed"
  BY ReturnFact
<1>2. decision'[c].outcome = "review"
  BY DEF Decide, IInv, TypeOK
<1> QED BY <1>1, <1>2 DEF Offered

\* A call that goes elsewhere offers nothing.
LEMMA OfferedNothing ==
  ASSUME IInv, NEW c \in Calls,
         \/ \E l \in Busy \ {"sent back"} : Goto(c, l)
         \/ \E r \in {"raised", "blocked", "error", "success"} : Return(c, r)
         \/ Suspend(c)
  PROVE  Offered(c)'
<1>1. ASSUME NEW l \in Busy \ {"sent back"}, Goto(c, l) PROVE Offered(c)'
  <2>1. pc'[c] = l
    BY <1>1, GotoFact
  <2> QED BY <1>1, <2>1 DEF Offered, Busy
<1>2. ASSUME NEW r \in {"raised", "blocked", "error", "success"}, Return(c, r) PROVE Offered(c)'
  <2>1. pc'[c] = "done"
    BY <1>2, ReturnFact
  <2> QED BY <2>1 DEF Offered
<1>3. CASE Suspend(c)
  BY <1>3, SuspendFact DEF Offered
<1> QED BY <1>1, <1>2, <1>3

LEMMA OfferStep ==
  ASSUME IInv, NEW c \in Calls, StepOf(c), Offered(c)
  PROVE  Offered(c)'
<1>1. ASSUME NEW p \in Proposals, Run(c, p) PROVE Offered(c)'
  <2>1. CASE Decide(c, p, Digest(p), "review", "policy") /\ Return(c, "review")
    BY <2>1, OfferedReview
  <2>2. CASE Return(c, "raised") \/ Return(c, "blocked") \/ Goto(c, "issuing") \/ Suspend(c)
    BY <2>2, OfferedNothing DEF Busy
  <2> QED BY <1>1, <2>1, <2>2 DEF Run
<1>2. ASSUME Provider(c) PROVE Offered(c)'
  <2>1. ASSUME NEW source, Decide(c, prop[c], judged[c], "review", source), Return(c, "review")
        PROVE  Offered(c)'
    BY <2>1, OfferedReview
  <2>2. CASE Return(c, "raised") \/ Return(c, "blocked") \/ Goto(c, "issuing")
    BY <2>2, OfferedNothing DEF Busy
  <2> QED BY <1>2, <2>1, <2>2 DEF Provider, ProviderAnswers, ProviderFails
<1>3. ASSUME Approve(c) PROVE Offered(c)'
  <2>1. CASE Decide(c, prop[c], Digest(prop[c]), "review", "policy") /\ Return(c, "review")
    BY <2>1, OfferedReview
  <2>2. CASE Return(c, "raised") \/ Return(c, "blocked") \/ Goto(c, "issuing")
    BY <2>2, OfferedNothing DEF Busy
  <2> QED BY <1>3, <2>1, <2>2 DEF Approve
<1>4. ASSUME Tamper(c) PROVE Offered(c)'
  BY <1>4 DEF Tamper, Offered
<1>5. ASSUME Recheck(c) PROVE Offered(c)'
  <2>1. UNCHANGED <<fs, prop>>
    BY <1>5 DEF Recheck, NothingExecuted, Unjudged
  <2>2. Check(prop[c])' = Check(prop[c])
    BY <2>1 DEF Check, Denied, Overwrites, Unreadable, UsesPath, Target
  <2>3. CASE Goto(c, "denied") \/ Goto(c, "consuming")
    BY <2>3, OfferedNothing DEF Busy
  <2>4. CASE Check(prop[c]) = "review" /\ Goto(c, "sent back")
    <3>1. pc'[c] = "sent back"
      BY <2>4, GotoFact
    <3> QED BY <2>2, <2>4, <3>1 DEF Offered
  <2> QED BY <1>5, <2>3, <2>4 DEF Recheck
<1>6. ASSUME Reclassify(c) PROVE Offered(c)'
  <2>1. CASE Return(c, "raised") \/ Return(c, "blocked")
    BY <2>1, OfferedNothing
  <2>2. CASE pc[c] = "sent back" /\ Return(c, "review")
    <3>1. Decide(c, prop[c], Digest(prop[c]), "review", "policy")
      BY <1>6, <2>2 DEF Reclassify, Offered, PolicyOutcome
    <3> QED BY <2>2, <3>1, OfferedReview
  <2> QED BY <1>6, <2>1, <2>2 DEF Reclassify
<1>7. ASSUME IssuePermit(c) \/ RecheckFails(c) \/ Consume(c) \/ Handle(c) \/ Write(c)
      PROVE  Offered(c)'
  <2>1. \/ Goto(c, "checking") \/ Goto(c, "acting") \/ Goto(c, "writing")
        \/ Return(c, "error") \/ Return(c, "success")
    BY <1>7 DEF IssuePermit, RecheckFails, Consume, Handle, Write
  <2> QED BY <2>1, OfferedNothing DEF Busy
<1> QED BY <1>1, <1>2, <1>3, <1>4, <1>5, <1>6, <1>7 DEF StepOf, Turn

LEMMA OfferNext ==
  ASSUME ~Racing, IInv, OfferInv, [Next]_vars
  PROVE  OfferInv'
<1> SUFFICES ASSUME NEW d \in Calls PROVE Offered(d)'
  BY DEF OfferInv
<1>0. Offered(d)
  BY DEF OfferInv
<1>1. CASE StepOf(d)
  BY <1>0, <1>1, OfferStep
<1>2. ASSUME NEW c \in Calls, StepOf(c), c # d PROVE Offered(d)'
  <2>1. Aside(d)
    BY <1>2, OthersAside
  <2>2. pc'[d] \notin Busy
    <3>1. loop # d /\ (pc[d] \in Busy <=> loop = d)
      BY <1>2, LoopFact, Typed DEF CallInv, OneTurn
    <3> QED BY <2>1, <3>1 DEF Aside
  <2> QED BY <1>0, <2>1, <2>2 DEF Aside, Offered, Busy
<1>3. CASE External
  <2>1. loop = NoCall /\ UNCHANGED <<pc, decision>>
    BY <1>3 DEF External
  <2>2. pc'[d] \notin Busy
    BY <2>1, Typed DEF CallInv, OneTurn
  <2> QED BY <1>0, <2>1, <2>2 DEF Offered, Busy
<1>4. CASE ClockMoves \/ UNCHANGED vars
  <2>1. UNCHANGED <<pc, fs, prop, decision>>
    BY <1>4 DEF ClockMoves, vars
  <2>2. Check(prop[d])' = Check(prop[d])
    BY <2>1 DEF Check, Denied, Overwrites, Unreadable, UsesPath, Target
  <2> QED BY <1>0, <2>1, <2>2 DEF Offered
<1> QED BY <1>1, <1>2, <1>3, <1>4 DEF Next, StepOf

\* While other processes leave the file system alone during a turn of the loop,
\* the second look of _execute agrees with the refusal that caused it, so what is
\* handed out for review can be approved (chain.py:74-79), for any number of calls.
THEOREM ReviewsCanBeApproved ==
  ASSUME ~Racing
  PROVE  Spec => []ReviewIsApprovable
<1>1. Init => OfferInv
  BY DEF Init, OfferInv, Offered
<1>2. OfferInv => ReviewIsApprovable
  BY DEF OfferInv, Offered, ReviewIsApprovable
<1>3. IInv /\ OfferInv /\ [Next]_vars => OfferInv'
  BY OfferNext
<1> QED BY <1>1, <1>2, <1>3, Invariance, PTL DEF Spec

-----------------------------------------------------------------------------
(* The chain implements ControlledCall *)

Phases == [c \in Calls |-> Phase(c)]
Ended(c) == IF pc[c] = "done" THEN result[c] ELSE "none"
Ends == [c \in Calls |-> Ended(c)]
Acts == [c \in Calls |-> Len(effects[c])]

\* In terms of the abstract call, a step of c changes c alone.
LEMMA OnlyOne ==
  ASSUME IInv, NEW c \in Calls, StepOf(c)
  PROVE  /\ Phases' = [Phases EXCEPT ![c] = Phase(c)']
         /\ Ends' = [Ends EXCEPT ![c] = Ended(c)']
         /\ Acts' = [Acts EXCEPT ![c] = Len(effects'[c])]
<1>1. ASSUME NEW d \in Calls \ {c}
      PROVE  Phase(d)' = Phase(d) /\ Ended(d)' = Ended(d) /\ effects'[d] = effects[d]
  <2>1. Aside(d)
    BY OthersAside
  <2> QED BY <2>1 DEF Aside, Phase, Ended
<1>2. Phases' = [Phases EXCEPT ![c] = Phase(c)']
  BY <1>1 DEF Phases
<1>3. Ends' = [Ends EXCEPT ![c] = Ended(c)']
  BY <1>1 DEF Ends
<1>4. Acts' = [Acts EXCEPT ![c] = Len(effects'[c])]
  BY <1>1 DEF Acts
<1> QED BY <1>2, <1>3, <1>4

\* A step that changes nothing the caller sees.
LEMMA Unseen ==
  ASSUME IInv, NEW c \in Calls, StepOf(c), Phase(c)' = Phase(c), pc[c] # "done",
         pc'[c] # "done", UNCHANGED effects
  PROVE  UNCHANGED Call!vars
<1>1. UNCHANGED <<Phases, Ends, Acts>>
  BY OnlyOne DEF Phases, Ends, Acts, Ended
<1> QED BY <1>1 DEF Call!vars, Phases, Ends, Ended, Acts

\* A step to another phase without an end.
LEMMA Seen ==
  ASSUME IInv, NEW c \in Calls, StepOf(c), pc[c] # "done", pc'[c] # "done", UNCHANGED effects
  PROVE  /\ \A from : Phase(c) \in from => Call!Go(c, from, Phase(c)')
         /\ UNCHANGED <<Ends, Acts>>
<1>1. UNCHANGED <<Ends, Acts>>
  BY OnlyOne DEF Ends, Acts, Ended
<1>2. Phases' = [Phases EXCEPT ![c] = Phase(c)'] /\ Phases[c] = Phase(c)
  BY OnlyOne DEF Phases
<1> QED BY <1>1, <1>2 DEF Call!Go, Phases

\* A call that returns r without having acted is refused, or executed in vain.
LEMMA Over ==
  ASSUME IInv, NEW c \in Calls, StepOf(c), pc[c] # "done", NEW r, Return(c, r), r # "review"
  PROVE  /\ Phases' = [Phases EXCEPT ![c] = "done"]
         /\ Ends' = [Ends EXCEPT ![c] = r]
         /\ Phases[c] = Phase(c)
<1>1. pc'[c] = "done" /\ result'[c] = r
  BY ReturnFact
<1>2. Phase(c)' = "done" /\ Ended(c)' = r
  BY <1>1 DEF Phase, Ended
<1> QED BY <1>2, OnlyOne DEF Phases

LEMMA Refused ==
  ASSUME IInv, NEW c \in Calls, StepOf(c), pc[c] # "done", NEW r \in {"blocked", "raised"},
         Return(c, r), UNCHANGED effects
  PROVE  Call!Refuse(c, r)
<1>1. Phase(c) \in {"new", "running", "review", "approved"}
  BY DEF Phase
<1>2. UNCHANGED Acts
  BY DEF Acts
<1> QED BY <1>1, <1>2, Over DEF Call!Refuse, Call!Go, Phases, Ends, Ended, Acts

LEMMA Executed ==
  ASSUME IInv, NEW c \in Calls, StepOf(c), pc[c] \in Busy, NEW r \in {"success", "error"},
         Return(c, r), NEW n \in {0, 1}, Len(effects'[c]) = Len(effects[c]) + n
  PROVE  Call!Execute(c, r)
<1>1. Phase(c) \in {"running", "approved"} /\ pc[c] # "done"
  BY DEF Phase, Busy
<1>2. Acts' = [Acts EXCEPT ![c] = Acts[c] + n]
  BY OnlyOne DEF Acts
<1>3. Phases' = [Phases EXCEPT ![c] = "done"] /\ Ends' = [Ends EXCEPT ![c] = r]
      /\ Phases[c] = Phase(c)
  BY <1>1, Over
<1> QED BY <1>1, <1>2, <1>3 DEF Call!Execute, Call!Go, Phases, Ends, Ended, Acts

LEMMA CallStep ==
  ASSUME IInv, NEW c \in Calls, StepOf(c)
  PROVE  Call!Next \/ UNCHANGED Call!vars
<1>0. CallInv(c)
  BY Typed
<1>1. ASSUME NEW p \in Proposals, Run(c, p) PROVE Call!Next
  <2>1. pc[c] = "idle" /\ UNCHANGED <<effects, consent>> /\ consent[c] = "none" /\ Phase(c) = "new"
    BY <1>0, <1>1 DEF Run, NothingExecuted, CallInv, Consented, Phase
  <2>2. CASE Return(c, "blocked") \/ Return(c, "raised")
    BY <2>1, <2>2, Refused DEF Call!Next
  <2>3. CASE Return(c, "review")
    <3>1. pc'[c] = "reviewed"
      BY <2>3, ReturnFact
    <3>2. Phase(c)' = "review"
      BY <3>1 DEF Phase
    <3> QED BY <2>1, <3>1, <3>2, Seen DEF Call!Next, Call!Hold, Ends, Ended, Acts
  <2>4. CASE Goto(c, "issuing") \/ Suspend(c)
    <3>1. pc'[c] \in {"issuing", "awaiting"}
      BY <2>4, GotoFact, SuspendFact
    <3>2. Phase(c)' = "running"
      BY <2>1, <3>1 DEF Phase
    <3> QED BY <2>1, <3>1, <3>2, Seen DEF Call!Next, Call!Start, Ends, Ended, Acts
  <2> QED BY <1>1, <2>2, <2>3, <2>4 DEF Run
<1>2. ASSUME Provider(c) PROVE Call!Next \/ UNCHANGED Call!vars
  <2>1. pc[c] = "awaiting" /\ UNCHANGED <<effects, consent>> /\ consent[c] = "none"
        /\ Phase(c) = "running"
    BY <1>0, <1>2
    DEF Provider, ProviderAnswers, ProviderFails, NothingExecuted, CallInv, Consented, Phase
  <2>2. CASE Return(c, "blocked") \/ Return(c, "raised")
    BY <2>1, <2>2, Refused DEF Call!Next
  <2>3. CASE Return(c, "review")
    <3>1. pc'[c] = "reviewed"
      BY <2>3, ReturnFact
    <3>2. Phase(c)' = "review"
      BY <3>1 DEF Phase
    <3> QED BY <2>1, <3>1, <3>2, Seen DEF Call!Next, Call!Hold, Ends, Ended, Acts
  <2>4. CASE Goto(c, "issuing")
    <3>1. pc'[c] = "issuing"
      BY <2>4, GotoFact
    <3>2. Phase(c)' = Phase(c)
      BY <2>1, <3>1 DEF Phase
    <3> QED BY <2>1, <3>1, <3>2, Unseen
  <2> QED BY <1>2, <2>2, <2>3, <2>4 DEF Provider, ProviderAnswers, ProviderFails
<1>3. ASSUME Approve(c) PROVE Call!Next \/ UNCHANGED Call!vars
  <2>1. pc[c] = "reviewed" /\ UNCHANGED effects /\ Phase(c) = "review"
    BY <1>3 DEF Approve, NothingExecuted, Phase
  <2>2. CASE Return(c, "blocked") \/ Return(c, "raised")
    BY <2>1, <2>2, Refused DEF Call!Next
  <2>3. CASE Return(c, "review")
    <3>1. pc'[c] = "reviewed"
      BY <2>3, ReturnFact
    <3>2. Phase(c)' = Phase(c)
      BY <2>1, <3>1 DEF Phase
    <3> QED BY <2>1, <3>1, <3>2, Unseen
  <2>4. CASE Goto(c, "issuing") /\ Approvable(c) /\ consent' = [consent EXCEPT ![c] = policy[c]]
    <3>1. pc'[c] = "issuing"
      BY <2>4, GotoFact
    <3>2. consent'[c] # "none"
      BY <1>0, <2>1, <2>4 DEF IInv, TypeOK, CallInv, Consented, Approvable
    <3>3. Phase(c)' = "approved"
      BY <3>1, <3>2 DEF Phase
    <3> QED BY <2>1, <3>1, <3>3, Seen DEF Call!Next, Call!Approve, Ends, Ended, Acts
  <2> QED BY <1>3, <2>2, <2>3, <2>4 DEF Approve
<1>4. ASSUME Reclassify(c) PROVE Call!Next
  <2>1. UNCHANGED <<effects, consent>> /\ pc[c] # "done"
    BY <1>4 DEF Reclassify
  <2>2. CASE Return(c, "blocked") \/ Return(c, "raised")
    BY <2>1, <2>2, Refused DEF Call!Next
  <2>3. CASE pc[c] = "sent back" /\ Return(c, "review")
    <3>1. pc'[c] = "reviewed"
      BY <2>3, ReturnFact
    <3>2. Phase(c) = "running" /\ Phase(c)' = "review"
      BY <1>0, <2>3, <3>1 DEF Phase, CallInv, Consented
    <3> QED BY <2>1, <3>1, <3>2, Seen DEF Call!Next, Call!Hold, Ends, Ended, Acts
  <2> QED BY <1>4, <2>2, <2>3 DEF Reclassify
<1>5. ASSUME IssuePermit(c) \/ Recheck(c) \/ RecheckFails(c) \/ Consume(c) \/ Handle(c)
      PROVE  Call!Next \/ UNCHANGED Call!vars
  <2>1. UNCHANGED <<effects, consent>> /\ pc[c] \in Busy
    BY <1>5 DEF IssuePermit, Recheck, RecheckFails, Consume, Handle, NothingExecuted, Unjudged, Busy
  <2>2. ASSUME NEW r \in {"success", "error"}, Return(c, r) PROVE Call!Next
    <3>1. Len(effects'[c]) = Len(effects[c]) + 0
      <4>1. effects \in [Calls -> Seq(Effects)]
        BY DEF IInv, TypeOK
      <4>2. Len(effects[c]) \in Nat
        BY <4>1
      <4> QED BY <2>1, <4>2
    <3> QED BY <2>1, <2>2, <3>1, Executed DEF Call!Next
  <2>3. ASSUME NEW l \in Busy, Goto(c, l) PROVE UNCHANGED Call!vars
    <3>1. pc'[c] \in Busy
      BY <2>3, GotoFact
    <3>2. Phase(c)' = Phase(c)
      BY <2>1, <3>1 DEF Phase, Busy
    <3> QED BY <2>1, <3>1, <3>2, Unseen DEF Busy
  <2> QED BY <1>5, <2>2, <2>3 DEF IssuePermit, Recheck, RecheckFails, Consume, Handle, Busy
<1>6. ASSUME Write(c) PROVE Call!Next
  <2>1. pc[c] \in Busy /\ \E r \in {"success", "error"} : Return(c, r)
    BY <1>6 DEF Write, Busy
  <2>2. \E n \in {0, 1} : Len(effects'[c]) = Len(effects[c]) + n
    <3>1. effects \in [Calls -> Seq(Effects)]
      BY DEF IInv, TypeOK
    <3>2. CASE UNCHANGED effects
      <4>1. Len(effects'[c]) = Len(effects[c]) + 0
        BY <3>1, <3>2
      <4> QED BY <4>1
    <3>3. ASSUME NEW e \in Effects, effects' = [effects EXCEPT ![c] = Append(effects[c], e)]
          PROVE  Len(effects'[c]) = Len(effects[c]) + 1
      <4>1. effects'[c] = Append(effects[c], e) /\ effects[c] \in Seq(Effects)
        BY <3>1, <3>3
      <4> QED BY <4>1
    <3> QED BY <1>6, <3>2, <3>3, WriteFact
  <2> QED BY <2>1, <2>2, Executed DEF Call!Next
<1>7. ASSUME Tamper(c) PROVE UNCHANGED Call!vars
  <2>1. UNCHANGED <<pc, consent, effects>> /\ pc[c] # "done"
    BY <1>7 DEF Tamper, NothingExecuted
  <2>2. Phase(c)' = Phase(c)
    BY <2>1 DEF Phase
  <2> QED BY <2>1, <2>2, Unseen
<1> QED BY <1>1, <1>2, <1>3, <1>4, <1>5, <1>6, <1>7 DEF StepOf, Turn

LEMMA CallNext == IInv /\ [Next]_vars => [Call!Next]_(Call!vars)
<1> SUFFICES ASSUME IInv, [Next]_vars PROVE [Call!Next]_(Call!vars)
  OBVIOUS
<1>1. ASSUME NEW c \in Calls, StepOf(c) PROVE [Call!Next]_(Call!vars)
  BY <1>1, CallStep
<1>2. CASE External \/ ClockMoves \/ UNCHANGED vars
  <2>1. UNCHANGED <<pc, result, consent, effects>>
    BY <1>2 DEF External, ClockMoves, vars
  <2>2. UNCHANGED <<Phases, Ends, Acts>>
    BY <2>1 DEF Phases, Phase, Ends, Ended, Acts
  <2> QED BY <2>2 DEF Call!vars, Phases, Ends, Ended, Acts
<1> QED BY <1>1, <1>2 DEF Next, StepOf

LEMMA CallInit == Init => Call!Init
<1> SUFFICES ASSUME Init PROVE Call!Init
  OBVIOUS
<1>1. Phases = [c \in Calls |-> "new"]
  BY DEF Init, Phases, Phase
<1>2. Ends = [c \in Calls |-> "none"]
  BY DEF Init, Ends, Ended
<1>3. Acts = [c \in Calls |-> 0]
  BY DEF Init, Acts
<1> QED BY <1>1, <1>2, <1>3 DEF Call!Init, Phases, Ends, Ended, Acts

\* A control call acts at most once, only in the step that ends it, never from
\* review, and is approved at most once: with any number of calls and however
\* the file system races (chain.py:29-103).
THEOREM Refinement == Spec => ImplementsControlledCall
BY Invariance, CallInit, CallNext, PTL DEF Spec, Call!Spec, ImplementsControlledCall

\* Every behaviour of the chain uses the permit authority as it promises to be
\* used, so the theorems about PermitAuthority hold of it (permits.py).
THEOREM UsesAuthority == Spec => Permits!Spec
<1>1. Init => Permits!Init
  BY DEF Init
<1>2. IInv /\ [Next]_vars => [Permits!Next]_(Permits!vars)
  BY AuthorityStep
<1> QED BY <1>1, <1>2, Invariance, PTL DEF Spec, Permits!Spec

-----------------------------------------------------------------------------
(* Every effect is paid for *)

\* No two issues got the same id.
Distinct ==
  \A c, d \in Calls : \A i \in DOMAIN permits[c], j \in DOMAIN permits[d] :
    permits[c][i] = permits[d][j] => c = d /\ i = j

Spent(c) ==
  /\ permits[c] # <<>> /\ uses[PermitOf(c)] # <<>> /\ Len(uses[PermitOf(c)]) = 1
  /\ uses[PermitOf(c)][1].digest = judged[c]

\* A call spends only its last permit, before it acts.
Paid(c) ==
  /\ \A i \in DOMAIN permits[c] : permits[c][i] \in DOMAIN terms
  /\ \A i \in DOMAIN permits[c] : uses[permits[c][i]] # <<>> =>
       i = Len(permits[c]) /\ pc[c] \in {"acting", "writing", "done"}
  /\ pc[c] \in {"acting", "writing"} => Spent(c)
  /\ effects[c] # <<>> => /\ pc[c] = "done" /\ Len(effects[c]) = 1 /\ Spent(c)

PaidInv == Distinct /\ \A c \in Calls : Paid(c)

\* The state of the permits matters only as long as they are not used.
LEMMA PaidFrame ==
  ASSUME NEW d \in Calls, Paid(d), TermsKept,
         UNCHANGED <<permits[d], pc[d], effects[d], judged[d]>>,
         \A i \in DOMAIN permits[d] : uses'[permits[d][i]] = uses[permits[d][i]],
         permits[d] # <<>> => PermitOf(d) \in {permits[d][i] : i \in DOMAIN permits[d]}
  PROVE  Paid(d)'
<1>1. permits[d] # <<>> => uses'[PermitOf(d)] = uses[PermitOf(d)]
  OBVIOUS
<1>2. PermitOf(d)' = PermitOf(d)
  BY DEF PermitOf
<1>3. Spent(d) => Spent(d)'
  BY <1>1, <1>2 DEF Spent
<1> QED BY <1>3 DEF Paid, TermsKept

LEMMA LastPermit ==
  ASSUME IInv, NEW c \in Calls, permits[c] # <<>>
  PROVE  /\ Len(permits[c]) \in DOMAIN permits[c]
         /\ PermitOf(c) \in {permits[c][i] : i \in DOMAIN permits[c]}
<1>1. permits[c] \in Seq(PermitId)
  BY DEF IInv, TypeOK
<1>2. Len(permits[c]) \in DOMAIN permits[c]
  BY <1>1
<1> QED BY <1>2 DEF PermitOf

LEMMA NewPermit ==
  ASSUME IInv, PaidInv, NEW c \in Calls, IssuePermit(c), TermsKept
  PROVE  PaidInv'
<1>1. /\ permits \in [Calls -> Seq(PermitId)]
      /\ permits' = [permits EXCEPT ![c] = Append(permits[c], FreshPermit)]
      /\ UNCHANGED <<effects, judged>> /\ pc[c] = "issuing"
  BY DEF IInv, TypeOK, IssuePermit, Unjudged
<1>2. /\ FreshPermit \in PermitId /\ FreshPermit \notin DOMAIN terms
      /\ FreshPermit \in DOMAIN terms' /\ UNCHANGED uses /\ uses[FreshPermit] = <<>>
  <2>1. FreshPermit \in PermitId /\ FreshPermit \notin DOMAIN terms /\ FreshPermit \in DOMAIN terms'
    BY IssueStep
  <2>2. UNCHANGED uses
    BY DEF IssuePermit, Permits!Issue
  <2> QED BY <2>1, <2>2 DEF IInv, Authority!IInv, Authority!Unborn
<1> HIDE DEF FreshPermit
<1>3. pc'[c] = "checking"
  BY GotoFact DEF IssuePermit
<1>4. /\ permits'[c] = Append(permits[c], FreshPermit) /\ permits[c] \in Seq(PermitId)
      /\ \A d \in Calls \ {c} : permits'[d] = permits[d]
  BY <1>1
<1>5. /\ DOMAIN permits'[c] = DOMAIN permits[c] \cup {Len(permits[c]) + 1}
      /\ Len(permits[c]) + 1 \notin DOMAIN permits[c]
      /\ permits'[c][Len(permits[c]) + 1] = FreshPermit
      /\ \A i \in DOMAIN permits[c] : permits'[c][i] = permits[c][i]
  BY <1>2, <1>4
<1>6. \A d \in Calls : \A i \in DOMAIN permits[d] : permits[d][i] \in DOMAIN terms
  BY DEF PaidInv, Paid
<1>7. Distinct'
  <2>1. \A d \in Calls : \A i \in DOMAIN permits'[d] :
          \/ i \in DOMAIN permits[d] /\ permits'[d][i] = permits[d][i]
          \/ d = c /\ i = Len(permits[c]) + 1 /\ permits'[d][i] = FreshPermit
    BY <1>4, <1>5
  <2> QED BY <1>2, <1>6, <2>1 DEF Distinct, PaidInv
<1>8. ASSUME NEW d \in Calls \ {c} PROVE Paid(d)'
  <2>1. Aside(d)
    BY OthersAside DEF StepOf, Turn
  <2>2. Paid(d) /\ (permits[d] # <<>> => PermitOf(d) \in {permits[d][i] : i \in DOMAIN permits[d]})
    BY LastPermit DEF PaidInv
  <2> QED BY <1>2, <2>1, <2>2, PaidFrame DEF Aside
<1>9. Paid(c)'
  <2>1. \A i \in DOMAIN permits'[c] : permits'[c][i] \in DOMAIN terms'
    BY <1>2, <1>5, <1>6 DEF TermsKept
  <2>2. \A i \in DOMAIN permits'[c] : uses'[permits'[c][i]] = <<>>
    BY <1>1, <1>2, <1>5 DEF PaidInv, Paid
  <2>3. effects'[c] = <<>>
    BY <1>1 DEF PaidInv, Paid
  <2> QED BY <1>3, <2>1, <2>2, <2>3 DEF Paid
<1> QED BY <1>7, <1>8, <1>9 DEF PaidInv

LEMMA SpentPermit ==
  ASSUME IInv, PaidInv, NEW c \in Calls, Consume(c), TermsKept
  PROVE  PaidInv'
<1>1. /\ UNCHANGED <<permits, effects, judged>> /\ pc[c] = "consuming"
      /\ permits[c] # <<>> /\ uses \in [PermitId -> Seq([digest: Permits!Digests, at: Permits!Clock])]
      /\ PermitOf(c) \in PermitId
  BY Typed, HeldFact
  DEF IInv, TypeOK, Permits!TypeOK, Consume, Unjudged, CallInv, Holds, Holding, Busy
<1>2. \A i \in DOMAIN permits[c] : uses[permits[c][i]] = <<>>
  BY <1>1 DEF PaidInv, Paid
<1>3. effects[c] = <<>>
  BY <1>1 DEF PaidInv, Paid
<1>4. /\ Len(permits[c]) \in DOMAIN permits[c]
      /\ PermitOf(c) = permits[c][Len(permits[c])]
  BY <1>1, LastPermit DEF PermitOf
<1>5. \/ UNCHANGED uses /\ pc'[c] = "done"
      \/ /\ uses' = [uses EXCEPT ![PermitOf(c)] =
                       Append(uses[PermitOf(c)], [digest |-> judged[c], at |-> now])]
         /\ pc'[c] = "acting"
  <2>1. Held(c).id = PermitOf(c) /\ Permits!Digest(prop[c]) = judged[c]
    BY <1>1, BusyFact DEF Held, Busy, Digest
  <2>2. CASE Permits!Accept(prop[c], Held(c)) /\ Goto(c, "acting")
    BY <2>1, <2>2, GotoFact DEF Permits!Accept
  <2>3. CASE Permits!Expire(prop[c], Held(c)) /\ Return(c, "error")
    BY <2>3, ReturnFact DEF Permits!Expire
  <2> QED BY <2>2, <2>3 DEF Consume
<1>6. \A id \in PermitId \ {PermitOf(c)} : uses'[id] = uses[id]
  <2>1. CASE UNCHANGED uses
    BY <2>1
  <2>2. ASSUME NEW u, uses' = [uses EXCEPT ![PermitOf(c)] = u],
               NEW id \in PermitId \ {PermitOf(c)}
        PROVE  uses'[id] = uses[id]
    BY <1>1, <2>2
  <2> QED BY <1>5, <2>1, <2>2
<1>0. \A d \in Calls : \A i \in DOMAIN permits[d] : permits[d][i] \in PermitId
  <2>1. permits \in [Calls -> Seq(PermitId)]
    BY DEF IInv, TypeOK
  <2> QED BY <2>1
<1>7. ASSUME NEW d \in Calls \ {c} PROVE Paid(d)'
  <2>1. Aside(d)
    BY OthersAside DEF StepOf, Turn
  <2>2. Paid(d) /\ (permits[d] # <<>> => PermitOf(d) \in {permits[d][i] : i \in DOMAIN permits[d]})
    BY LastPermit DEF PaidInv
  <2>3. \A i \in DOMAIN permits[d] : permits[d][i] \in PermitId \ {PermitOf(c)}
    BY <1>0, <1>4 DEF PaidInv, Distinct
  <2> QED BY <1>6, <2>1, <2>2, <2>3, PaidFrame DEF Aside
<1>8. Paid(c)'
  <2>1. \A i \in DOMAIN permits[c] : permits[c][i] \in DOMAIN terms'
    BY DEF PaidInv, Paid, TermsKept
  <2>2. \A i \in DOMAIN permits[c] : i # Len(permits[c]) => uses'[permits[c][i]] = <<>>
    BY <1>0, <1>2, <1>4, <1>6 DEF PaidInv, Distinct
  <2>3. PermitOf(c)' = PermitOf(c)
    BY <1>1 DEF PermitOf
  <2>4. pc'[c] = "acting" => Spent(c)'
    <3> SUFFICES ASSUME pc'[c] = "acting" PROVE Spent(c)'
      OBVIOUS
    <3>1. uses[PermitOf(c)] = <<>> /\ judged[c] \in Permits!Digests /\ now \in Permits!Clock
      BY <1>1, <1>2, <1>4, Typed, BusyFact DEF Busy, IInv, TypeOK, Permits!TypeOK
    <3> DEFINE u == [digest |-> judged[c], at |-> now]
    <3>2. uses'[PermitOf(c)] = Append(uses[PermitOf(c)], u)
      BY <1>1, <1>5
    <3>3. u.digest = judged[c]
      OBVIOUS
    <3> HIDE DEF u
    <3>4. uses'[PermitOf(c)] = <<u>>
      BY <3>1, <3>2
    <3> QED BY <1>1, <2>3, <3>3, <3>4 DEF Spent
  <2> QED BY <1>1, <1>3, <1>5, <2>1, <2>2, <2>4 DEF Paid
<1>9. Distinct'
  BY <1>1 DEF PaidInv, Distinct
<1> QED BY <1>7, <1>8, <1>9 DEF PaidInv

\* Steps that use no permit.
LEMMA PaidStep ==
  ASSUME IInv, PaidInv, NEW c \in Calls, StepOf(c), ~IssuePermit(c), ~Consume(c), TermsKept
  PROVE  PaidInv'
<1>1. UNCHANGED <<permits, uses>>
  <2>1. UNCHANGED permits
    BY DEF StepOf, Turn, Provider, Run, Recheck, RecheckFails, Reclassify, Handle, Write, ProviderAnswers,
       ProviderFails, Approve, Tamper, NothingExecuted
  <2>2. UNCHANGED uses
    BY DEF StepOf, Turn, Provider, Run, Recheck, RecheckFails, Reclassify, RevokePermit, Permits!Revoke, Handle,
       Write, ProviderAnswers, ProviderFails, Approve, Tamper, NothingExecuted, authority
  <2> QED BY <2>1, <2>2
<1>2. Distinct'
  BY <1>1 DEF PaidInv, Distinct
<1>3. ASSUME NEW d \in Calls \ {c} PROVE Paid(d)'
  <2>1. Aside(d)
    BY OthersAside
  <2>2. Paid(d) /\ (permits[d] # <<>> => PermitOf(d) \in {permits[d][i] : i \in DOMAIN permits[d]})
    BY LastPermit DEF PaidInv
  <2> QED BY <1>1, <2>1, <2>2, PaidFrame DEF Aside
<1>4. Paid(c)'
  <2>0. Paid(c) /\ effects \in [Calls -> Seq(Effects)]
    BY DEF PaidInv, IInv, TypeOK
  <2>1. \A i \in DOMAIN permits[c] : permits[c][i] \in DOMAIN terms'
    BY <2>0 DEF Paid, TermsKept
  <2>2. CASE Handle(c)
    <3>1. /\ pc[c] = "acting" /\ UNCHANGED <<effects, judged>>
          /\ pc'[c] \in {"writing", "done"}
      BY <2>2, GotoFact, ReturnFact DEF Handle, NothingExecuted, Unjudged
    <3>2. Spent(c)'
      BY <1>1, <2>0, <3>1 DEF Paid, Spent, PermitOf
    <3> QED BY <1>1, <2>0, <2>1, <3>1, <3>2 DEF Paid
  <2>3. CASE Write(c)
    <3>1. pc[c] = "writing" /\ pc'[c] = "done" /\ UNCHANGED judged
      BY <2>3, ReturnFact DEF Write, Unjudged
    <3>2. Spent(c)' /\ effects[c] = <<>>
      BY <1>1, <2>0, <3>1 DEF Paid, Spent, PermitOf
    <3>3. effects'[c] # <<>> => Len(effects'[c]) = 1
      <4>1. CASE UNCHANGED effects
        BY <3>2, <4>1
      <4>2. ASSUME NEW e \in Effects, effects' = [effects EXCEPT ![c] = Append(effects[c], e)]
            PROVE  Len(effects'[c]) = 1
        BY <2>0, <3>2, <4>2
      <4> QED BY <2>3, <4>1, <4>2, WriteFact
    <3> QED BY <1>1, <2>0, <2>1, <3>1, <3>2, <3>3 DEF Paid
  <2>4. CASE ~Handle(c) /\ ~Write(c)
    <3>1. /\ pc[c] \notin {"acting", "writing", "done"} /\ UNCHANGED effects
      BY <2>4 DEF StepOf, Turn, Provider, Run, Recheck, RecheckFails, Reclassify, ProviderAnswers,
         ProviderFails, Approve, Tamper, NothingExecuted
    <3>2. pc'[c] \notin {"acting", "writing"}
      <4>1. CASE Provider(c) \/ \E p \in Proposals : Run(c, p)
        BY <4>1, GotoFact, ReturnFact, SuspendFact DEF Provider, Run, ProviderAnswers, ProviderFails
      <4>2. CASE Approve(c) \/ Reclassify(c) \/ RecheckFails(c)
        <5>1. \/ Return(c, "raised") \/ Return(c, "blocked") \/ Return(c, "review")
              \/ Return(c, "error") \/ Goto(c, "issuing")
          BY <4>2 DEF Approve, Reclassify, RecheckFails
        <5> QED BY <5>1, GotoFact, ReturnFact
      <4>3. CASE Recheck(c)
        <5>1. Goto(c, "denied") \/ Goto(c, "sent back") \/ Goto(c, "consuming")
          BY <4>3 DEF Recheck
        <5>2. pc'[c] = "denied" \/ pc'[c] = "sent back" \/ pc'[c] = "consuming"
          BY <5>1, GotoFact
        <5> QED BY <5>2
      <4>4. CASE Tamper(c)
        BY <3>1, <4>4 DEF Tamper
      <4> QED BY <2>4, <4>1, <4>2, <4>3, <4>4 DEF StepOf, Turn
    <3>3. effects'[c] = <<>> /\ \A i \in DOMAIN permits[c] : uses[permits[c][i]] = <<>>
      BY <2>0, <3>1 DEF Paid
    <3> QED BY <1>1, <2>1, <3>2, <3>3 DEF Paid
  <2> QED BY <2>2, <2>3, <2>4
<1> QED BY <1>2, <1>3, <1>4 DEF PaidInv

LEMMA PaidNext == IInv /\ PaidInv /\ [Next]_vars => PaidInv'
<1> SUFFICES ASSUME IInv, PaidInv, [Next]_vars PROVE PaidInv'
  OBVIOUS
<1>1. TermsKept
  BY AuthorityKept
<1>2. ASSUME NEW c \in Calls, StepOf(c) PROVE PaidInv'
  BY <1>1, <1>2, NewPermit, SpentPermit, PaidStep
<1>3. CASE External \/ ClockMoves \/ UNCHANGED vars
  <2>1. UNCHANGED <<permits, pc, effects, judged, uses, terms>>
    BY <1>3 DEF External, ClockMoves, Permits!SetClock, vars, authority
  <2>2. ASSUME NEW d \in Calls PROVE Paid(d)'
    <3>1. Paid(d) /\ (permits[d] # <<>> => PermitOf(d) \in {permits[d][i] : i \in DOMAIN permits[d]})
      BY LastPermit DEF PaidInv
    <3> QED BY <1>1, <2>1, <3>1, PaidFrame
  <2>3. Distinct'
    BY <2>1 DEF PaidInv, Distinct
  <2> QED BY <2>2, <2>3 DEF PaidInv
<1> QED BY <1>2, <1>3 DEF Next, StepOf

LEMMA PaidInit == Init => PaidInv
<1> SUFFICES ASSUME Init PROVE PaidInv
  OBVIOUS
<1>1. \A c \in Calls : permits[c] = <<>> /\ effects[c] = <<>> /\ pc[c] = "idle"
  BY DEF Init
<1> QED BY <1>1 DEF PaidInv, Distinct, Paid

-----------------------------------------------------------------------------
(* Every caller is told what was done *)

\* A write that succeeded was made.
Wrote(c) ==
  pc[c] = "done" /\ result[c] = "success" /\ prop[c].tool = "write_file" => effects[c] # <<>>

WroteInv == \A c \in Calls : Wrote(c)

LEMMA WroteStep ==
  ASSUME IInv, NEW c \in Calls, StepOf(c)
  PROVE  Wrote(c)'
<1>1. pc[c] # "done"
  BY DEF StepOf, Turn, Provider, Run, IssuePermit, Recheck, RecheckFails, Reclassify, Consume,
     Handle, Write, ProviderAnswers, ProviderFails, Approve, Tamper
<1>2. ASSUME NEW l \in Busy, Goto(c, l) PROVE Wrote(c)'
  BY <1>2, GotoFact DEF Wrote, Busy
<1>3. ASSUME NEW r, r # "success", Return(c, r) PROVE Wrote(c)'
  BY <1>3, ReturnFact DEF Wrote
<1>4. ASSUME Suspend(c) PROVE Wrote(c)'
  BY <1>4, SuspendFact DEF Wrote
<1>5. CASE Tamper(c)
  BY <1>1, <1>5 DEF Tamper, Wrote
<1>6. CASE Handle(c) /\ prop[c].tool # "write_file"
  BY <1>6 DEF Handle, Unjudged, Wrote
<1>7. ASSUME NEW e \in Effects, effects' = [effects EXCEPT ![c] = Append(effects[c], e)]
      PROVE  Wrote(c)'
  <2>1. effects'[c] = Append(effects[c], e) /\ effects[c] \in Seq(Effects)
    BY <1>7 DEF IInv, TypeOK
  <2> QED BY <2>1 DEF Wrote
<1>8. CASE Handle(c) /\ prop[c].tool = "write_file"
  BY <1>2, <1>3, <1>8 DEF Handle, Busy
<1>9. CASE Write(c)
  <2>1. Return(c, "error") \/ effects' = [effects EXCEPT ![c] = Append(effects[c], Effect(c))]
    BY <1>9 DEF Write
  <2>2. Effect(c) \in Effects
    BY <1>9, EffectFact
  <2> QED BY <1>3, <1>7, <2>1, <2>2
<1> QED BY <1>2, <1>3, <1>4, <1>5, <1>6, <1>8, <1>9
        DEF StepOf, Turn, Provider, Run, IssuePermit, Recheck, RecheckFails, Reclassify, Consume,
            ProviderAnswers, ProviderFails, Approve, Busy

LEMMA WroteNext == IInv /\ WroteInv /\ [Next]_vars => WroteInv'
<1> SUFFICES ASSUME IInv, WroteInv, [Next]_vars, NEW d \in Calls PROVE Wrote(d)'
  BY DEF WroteInv
<1>1. ASSUME NEW c \in Calls, StepOf(c), c # d PROVE Wrote(d)'
  BY <1>1, OthersAside DEF WroteInv, Wrote, Aside
<1>2. CASE External \/ ClockMoves \/ UNCHANGED vars
  BY <1>2 DEF External, ClockMoves, vars, WroteInv, Wrote
<1> QED BY <1>1, <1>2, WroteStep DEF Next, StepOf

\* What follows from each call's being a control call.
Promises == INSTANCE ControlledCallProofs WITH
  Atomic <- FALSE,
  phase  <- [c \in Calls |-> Phase(c)],
  result <- [c \in Calls |-> IF pc[c] = "done" THEN result[c] ELSE "none"],
  acts   <- [c \in Calls |-> Len(effects[c])]

\* The two instances name the same specification.
LEMMA SamePromises == ImplementsControlledCall => Promises!Spec
<1>1. Call!Init <=> Promises!Init
  BY DEF Call!Init, Promises!Init
<1>2. [Call!Next]_(Call!vars) <=> [Promises!Next]_(Promises!vars)
  BY DEF Call!Next, Promises!Next, Call!vars, Promises!vars, Call!Lose, Promises!Lose,
     Call!Start, Promises!Start, Call!Hold, Promises!Hold, Call!Approve, Promises!Approve,
     Call!Refuse, Promises!Refuse, Call!Execute, Promises!Execute, Call!Go, Promises!Go
<1> QED BY <1>1, <1>2, PTL DEF ImplementsControlledCall, Call!Spec, Promises!Spec

LEMMA KeepsPromise == Spec => []Promises!Promise
BY Refinement, SamePromises, Promises!Promised, PTL

\* Any number of effects: each was paid for with one permit, issued for its call and
\* for what it did, used for nothing else (executor.py:113); and the caller is told of
\* it (chain.py:71-103).  The file system and the clock may move as they will.
THEOREM EffectsAreAccountedFor == Spec => []EffectsAccountedFor
<1>1. ASSUME IInv, PaidInv, WroteInv, Promises!Promise PROVE EffectsAccountedFor
  <2>1. ASSUME NEW c \in Calls PROVE PaidOnce(c)
    <3>0. Paid(c) /\ Bound(c) /\ effects \in [Calls -> Seq(Effects)]
      BY <1>1, Typed DEF PaidInv, CallInv, IInv, TypeOK
    <3>1. UsedPermits(c) \subseteq {Len(permits[c])}
      BY <3>0 DEF Paid, UsedPermits
    <3>2. Cardinality(UsedPermits(c)) <= 1
      <4>1. Cardinality({}) = 0 /\ Cardinality({Len(permits[c])}) = 1
        BY FS_EmptySet, FS_Singleton
      <4>2. UsedPermits(c) = {} \/ UsedPermits(c) = {Len(permits[c])}
        BY <3>1
      <4>3. Cardinality(UsedPermits(c)) \in {0, 1}
        <5>1. CASE UsedPermits(c) = {}
          BY <4>1, <5>1, Zenon
        <5>2. CASE UsedPermits(c) = {Len(permits[c])}
          BY <4>1, <5>2, Zenon
        <5> QED BY <4>2, <5>1, <5>2
      <4> QED BY <4>3
    <3>3. ASSUME effects[c] # <<>>
          PROVE  /\ Len(effects[c]) = 1 /\ UsedPermits(c) = {Len(permits[c])}
                 /\ Len(uses[PermitOf(c)]) = 1
                 /\ uses[PermitOf(c)][1].digest = effects[c][1].digest
      <4>1. Len(effects[c]) = 1 /\ Spent(c)
        BY <3>0, <3>3 DEF Paid
      <4>2. Len(permits[c]) \in UsedPermits(c)
        BY <1>1, <4>1, LastPermit DEF Spent, PermitOf, UsedPermits
      <4>3. effects[c][1].digest = judged[c]
        BY <3>0, <4>1 DEF Bound
      <4> QED BY <3>1, <4>1, <4>2, <4>3 DEF Spent
    <3> QED BY <3>2, <3>3 DEF PaidOnce
  <2>2. ASSUME NEW c \in Calls PROVE Told(c)
    <3>1. effects[c] \in Seq(Effects) /\ Paid(c)
      BY <1>1 DEF PaidInv, IInv, TypeOK
    <3>2. /\ Len(effects[c]) \in {0, 1}
          /\ Len(effects[c]) = 1 =>
               (IF pc[c] = "done" THEN result[c] ELSE "none") \in {"success", "error"}
      BY <1>1 DEF Promises!Promise, Promises!Kept
    <3>3. effects[c] # <<>> => Len(effects[c]) = 1
      BY <3>1, <3>2
    <3> QED BY <1>1, <3>2, <3>3 DEF WroteInv, Wrote, Told
  <2>3. ASSUME NEW c \in Calls, NEW d \in Calls, effects[c] # <<>>, effects[d] # <<>>,
               PermitOf(c) = PermitOf(d)
        PROVE  c = d
    <3>1. permits[c] # <<>> /\ permits[d] # <<>>
      BY <1>1, <2>3 DEF PaidInv, Paid, Spent
    <3>2. Len(permits[c]) \in DOMAIN permits[c] /\ Len(permits[d]) \in DOMAIN permits[d]
      BY <1>1, <3>1, LastPermit
    <3> QED BY <1>1, <2>3, <3>2 DEF PaidInv, Distinct, PermitOf
  <2> QED BY <2>1, <2>2, <2>3 DEF EffectsAccountedFor
<1>2. Init => WroteInv
  BY DEF Init, WroteInv, Wrote
<1> QED BY <1>1, <1>2, PaidInit, PaidNext, WroteNext, KeepsPromise, Invariance, PTL DEF Spec

\* A call that is over stays as it ended, and a review ends only through its
\* approval: nothing that happens later, in this call or another, changes a result
\* that was returned or acts for it (chain.py:29-69).
THEOREM ResultsAreFinal ==
  Spec => [][\A c \in Calls : Promises!Onward(c) /\ Promises!ActsAtItsEnd(c)]_(Promises!vars)
BY Refinement, SamePromises, Promises!GoesOnward, PTL
=============================================================================
