----------------------- MODULE ConfiguredUpstreamProofs -----------------------
(***************************************************************************)
(* Theorems about ConfiguredUpstream, for every set of requests and tools  *)
(* and every configuration of rules.                                       *)
(***************************************************************************)
EXTENDS ConfiguredUpstream, TLAPS

Approvals == [Requests -> Requests \cup {NoRequest}]

\* The inductive invariant: nothing was done for a request that is not answered,
\* and what is parked was reviewed by the owner's rule and has not been done.
ActsOnce == \A q \in Requests : acts[q] <= 1
Unserved == \A q \in Requests : at[q] # "answered" => acts[q] = 0 /\ q \notin pending
Reviewed == \A q \in pending : acts[q] = 0 /\ tool[q] \in Configured /\ Rules[tool[q]] = "review"
Served == ActsOnce /\ ActsByRule /\ Unserved /\ Reviewed
IInv == TypeOK /\ CompleteDiscovery /\ InitializesAlone /\ Served

-----------------------------------------------------------------------------
\* The parts of the type invariant that the steps below need.
LEMMA Typed ==
  ASSUME TypeOK
  PROVE  /\ acts \in [Requests -> Nat]
         /\ tool \in [Requests -> Tools \cup {"list"}]
         /\ at \in [Requests -> {"idle", "answered"} \cup Waiting]
         /\ pending \subseteq Requests
BY DEF TypeOK

\* A request that is answered has its place and its answer updated, no other.
LEMMA Answered ==
  ASSUME TypeOK, NEW q \in Requests,
         NEW a \in Results \cup {"listed", "blocked", "review", "raised", "refused"},
         Answer(q, a)
  PROVE  /\ at' \in [Requests -> {"idle", "answered"} \cup Waiting]
         /\ at'[q] = "answered"
         /\ \A other \in Requests \ {q} : at'[other] = at[other]
         /\ answer' \in [Requests -> Results \cup {"none", "listed", "listed in part", "blocked",
                                                   "review", "raised", "refused"}]
         /\ answer'[q] = a
         /\ \A other \in Requests \ {q} : answer'[other] = answer[other]
<1>1. at \in [Requests -> {"idle", "answered"} \cup Waiting]
  BY DEF TypeOK
<1>2. answer \in [Requests -> Results \cup {"none", "listed", "listed in part", "blocked",
                                            "review", "raised", "refused"}]
  BY DEF TypeOK
<1> QED BY <1>1, <1>2 DEF Answer

\* No answer of a handler tells of a partial discovery.
LEMMA AnswerDiscovery ==
  ASSUME IInv, NEW q \in Requests,
         NEW a \in Results \cup {"listed", "blocked", "review", "raised", "refused"},
         Answer(q, a)
  PROVE  \A other \in Requests : answer'[other] # "listed in part"
BY Answered DEF IInv, CompleteDiscovery, Results

\* A request that is answered without the server, and parks nothing, leaves what
\* is served as it was.
LEMMA AnswerServed ==
  ASSUME IInv, NEW q \in Requests,
         NEW a \in Results \cup {"listed", "blocked", "review", "raised", "refused"},
         Answer(q, a), UNCHANGED <<pending, tool, acts, approved>>
  PROVE  Served'
BY Answered DEF IInv, Served, ActsOnce, ActsByRule, Unserved, Reviewed

\* The server acts for a request for which it has not acted yet.
LEMMA CallActs ==
  ASSUME TypeOK, NEW q \in Requests, NEW result \in Results, Call(q, result), acts[q] = 0
  PROVE  /\ acts' \in [Requests -> Nat]
         /\ acts'[q] <= 1
         /\ \A other \in Requests \ {q} : acts'[other] = acts[other]
<1>1. acts \in [Requests -> Nat]
  BY Typed
<1> QED BY <1>1 DEF Call

\* Whatever the handler does once ready() has returned.
LEMMA ServeInv ==
  ASSUME IInv, NEW q \in Requests, at[q] # "answered", Serve(q, Configured)
  PROVE  /\ Served'
         /\ pending' \subseteq Requests /\ acts' \in [Requests -> Nat]
         /\ UNCHANGED <<tool, approved>>
         /\ \E a \in Results \cup {"listed", "blocked", "review", "raised"} : Answer(q, a)
<1>0. /\ TypeOK /\ UNCHANGED <<tool, approved>> /\ acts[q] = 0 /\ q \notin pending
      /\ pending \subseteq Requests /\ acts \in [Requests -> Nat]
  BY Typed DEF Serve, IInv, Served, Unserved
<1>1. CASE List(q, Configured)
  <2>1. Answer(q, "listed") /\ UNCHANGED <<pending, acts>>
    BY <1>1 DEF List
  <2> QED BY <1>0, <2>1, AnswerServed
<1>2. CASE ValidationRaises(q, Configured)
  <2>1. Answer(q, "raised") /\ UNCHANGED <<pending, acts>>
    BY <1>2 DEF ValidationRaises
  <2> QED BY <1>0, <2>1, AnswerServed
<1>3. CASE Validated(q, Configured)
  <2> PICK fits \in BOOLEAN :
        LET verdict == Check(tool[q], Configured, fits)
        IN \/ verdict = "deny" /\ Answer(q, "blocked") /\ UNCHANGED <<pending, acts>>
           \/ /\ verdict = "review"
              /\ pending' = pending \cup {q}
              /\ Answer(q, "review") /\ UNCHANGED acts
           \/ /\ verdict = "allow"
              /\ \E result \in Results : Call(q, result) /\ Answer(q, result)
              /\ UNCHANGED pending
    BY <1>3 DEF Validated
  <2> DEFINE verdict == Check(tool[q], Configured, fits)
  <2>1. CASE Answer(q, "blocked") /\ UNCHANGED <<pending, acts>>
    BY <1>0, <2>1, AnswerServed
  <2>2. CASE verdict = "review" /\ pending' = pending \cup {q} /\ Answer(q, "review") /\ UNCHANGED acts
    <3>1. tool[q] \in Configured /\ Rules[tool[q]] = "review"
      BY <2>2 DEF Check
    <3>2. at'[q] = "answered" /\ \A other \in Requests \ {q} : at'[other] = at[other]
      BY <1>0, <2>2, Answered
    <3>3. ActsOnce' /\ ActsByRule'
      BY <1>0, <2>2 DEF IInv, Served, ActsOnce, ActsByRule
    <3>4. Unserved' /\ Reviewed'
      BY <1>0, <2>2, <3>1, <3>2 DEF IInv, Served, Unserved, Reviewed
    <3> QED BY <1>0, <2>2, <3>3, <3>4 DEF Served
  <2>3. ASSUME verdict = "allow", UNCHANGED pending,
               NEW result \in Results, Call(q, result), Answer(q, result)
        PROVE  Served' /\ acts' \in [Requests -> Nat]
    <3>1. tool[q] \in Configured /\ Rules[tool[q]] = "allow"
      BY <2>3 DEF Check
    <3>2. /\ acts' \in [Requests -> Nat] /\ acts'[q] <= 1
          /\ \A other \in Requests \ {q} : acts'[other] = acts[other]
      BY <1>0, <2>3, CallActs
    <3>3. at'[q] = "answered" /\ \A other \in Requests \ {q} : at'[other] = at[other]
      BY <1>0, <2>3, Answered
    <3>4. ActsOnce' /\ ActsByRule'
      BY <1>0, <3>1, <3>2 DEF IInv, Served, ActsOnce, ActsByRule
    <3>5. Unserved' /\ Reviewed'
      BY <1>0, <2>3, <3>2, <3>3 DEF IInv, Served, Unserved, Reviewed
    <3> QED BY <3>2, <3>4, <3>5 DEF Served
  <2> QED BY <1>0, <2>1, <2>2, <2>3
<1> QED BY <1>1, <1>2, <1>3 DEF Serve, CallTool

-----------------------------------------------------------------------------
LEMMA InitIInv == Init => IInv
<1> SUFFICES ASSUME Init PROVE IInv
  OBVIOUS
<1>1. TypeOK
  BY DEF Init, TypeOK, Results
<1>2. CompleteDiscovery /\ InitializesAlone
  BY NoRequestAssumption DEF Init, CompleteDiscovery, InitializesAlone
<1>3. Served
  BY DEF Init, Served, ActsOnce, ActsByRule, Unserved, Reviewed
<1> QED BY <1>1, <1>2, <1>3 DEF IInv

\* A request arrives: nothing was done for it yet.
LEMMA ArriveIInv ==
  ASSUME IInv, NEW q \in Requests, NEW t \in Tools \cup {"list"}, Arrive(q, t)
  PROVE  IInv'
<1>0. /\ at \in [Requests -> {"idle", "answered"} \cup Waiting] /\ at[q] = "idle"
      /\ tool \in [Requests -> Tools \cup {"list"}] /\ pending \subseteq Requests
  BY Typed DEF IInv, Arrive
<1>1. TypeOK'
  BY <1>0 DEF IInv, TypeOK, Arrive, Waiting
<1>2. CompleteDiscovery' /\ InitializesAlone'
  BY <1>0 DEF IInv, CompleteDiscovery, InitializesAlone, Arrive
<1>3. Served'
  BY <1>0 DEF IInv, Served, ActsOnce, ActsByRule, Unserved, Reviewed, Arrive
<1> QED BY <1>1, <1>2, <1>3 DEF IInv

\* ready(): requests queue for the lock, and one initializes.
LEMMA EnterIInv ==
  ASSUME IInv, NEW q \in Requests, Enter(q)
  PROVE  IInv'
<1>0. /\ at \in [Requests -> {"idle", "answered"} \cup Waiting] /\ at[q] = "entering"
      /\ lock = NoRequest /\ ~chain /\ pending \subseteq Requests
  BY Typed DEF IInv, Enter, MustInitialize
<1>1. TypeOK'
  BY <1>0 DEF IInv, TypeOK, Enter, Waiting
<1>2. CompleteDiscovery' /\ InitializesAlone'
  BY <1>0, NoRequestAssumption DEF IInv, CompleteDiscovery, InitializesAlone, Enter
<1>3. Served'
  BY <1>0 DEF IInv, Served, ActsOnce, ActsByRule, Unserved, Reviewed, Enter
<1> QED BY <1>1, <1>2, <1>3 DEF IInv

\* A request is answered while nobody, or it alone, holds the lock: the
\* invariant holds again when the lock is free.
LEMMA ServedIInv ==
  ASSUME IInv, NEW q \in Requests, lock \in {NoRequest, q}, lock' = NoRequest,
         schemas' \subseteq Configured, chain' \in BOOLEAN, chain' => schemas' = Configured,
         Served', pending' \subseteq Requests, acts' \in [Requests -> Nat],
         UNCHANGED tool, approved' \in Approvals,
         NEW a \in Results \cup {"listed", "blocked", "review", "raised", "refused"}, Answer(q, a)
  PROVE  IInv'
<1>0. TypeOK /\ tool \in [Requests -> Tools \cup {"list"}]
  BY Typed DEF IInv
<1>1. TypeOK'
  BY <1>0, Answered DEF TypeOK, Approvals
<1>2. CompleteDiscovery'
  BY AnswerDiscovery DEF CompleteDiscovery
<1>3. InitializesAlone'
  BY <1>0, Answered, NoRequestAssumption DEF IInv, InitializesAlone
<1> QED BY <1>1, <1>2, <1>3 DEF IInv

LEMMA EnterReadyIInv ==
  ASSUME IInv, NEW q \in Requests, EnterReady(q)
  PROVE  IInv'
<1>1. /\ schemas = Configured /\ at[q] = "entering" /\ lock = NoRequest /\ chain
      /\ approved \in Approvals
  BY DEF EnterReady, IInv, CompleteDiscovery, TypeOK, Approvals
<1>2. Serve(q, Configured) /\ UNCHANGED <<lock, schemas, chain>>
  BY <1>1 DEF EnterReady
<1>3. /\ Served' /\ pending' \subseteq Requests /\ acts' \in [Requests -> Nat]
      /\ UNCHANGED <<tool, approved>>
      /\ \E a \in Results \cup {"listed", "blocked", "review", "raised"} : Answer(q, a)
  BY <1>1, <1>2, ServeInv
<1> QED BY <1>1, <1>2, <1>3, ServedIInv

\* A request that fails while it waits for the lock holds nothing.
LEMMA CancelWaitingIInv ==
  ASSUME IInv, NEW q \in Requests, CancelWaiting(q)
  PROVE  IInv'
<1>0. TypeOK /\ at[q] = "entering" /\ Answer(q, "raised")
  BY DEF IInv, CancelWaiting
<1>1. TypeOK'
  BY <1>0, Answered DEF TypeOK, CancelWaiting
<1>2. CompleteDiscovery'
  BY <1>0, AnswerDiscovery DEF IInv, CompleteDiscovery, CancelWaiting
<1>3. InitializesAlone'
  BY <1>0, Answered DEF IInv, InitializesAlone, CancelWaiting
<1>4. Served'
  BY <1>0, AnswerServed DEF CancelWaiting
<1> QED BY <1>1, <1>2, <1>3, <1>4 DEF IInv

\* initialize(): success, a partial or ill-formed discovery, or a failure.
LEMMA InitializeIInv ==
  ASSUME IInv, NEW q \in Requests, Initialize(q)
  PROVE  IInv'
<1>0. /\ at[q] = "initializing" /\ lock = q /\ chain = FALSE /\ lock' = NoRequest
      /\ schemas \subseteq Configured
      /\ approved \in Approvals /\ pending \subseteq Requests /\ acts \in [Requests -> Nat]
  BY NoRequestAssumption
  DEF Initialize, Discover, DiscoverFails, IInv, TypeOK, Approvals, InitializesAlone
<1>1. ASSUME NEW advertised \in SUBSET Tools, NEW wellFormed \in BOOLEAN,
             Discover(q, advertised, wellFormed)
      PROVE  IInv'
  <2>0. schemas' \subseteq Configured
    BY <1>1 DEF Discover, Kept
  <2>1. CASE Complete(schemas') /\ chain' = TRUE /\ Serve(q, schemas')
    <3>1. schemas' = Configured
      BY <2>1 DEF Complete
    <3>2. /\ Served' /\ pending' \subseteq Requests /\ acts' \in [Requests -> Nat]
          /\ UNCHANGED <<tool, approved>>
          /\ \E a \in Results \cup {"listed", "blocked", "review", "raised"} : Answer(q, a)
      BY <1>0, <2>1, <3>1, ServeInv
    <3> QED BY <1>0, <2>0, <2>1, <3>1, <3>2, ServedIInv
  <2>2. CASE Answer(q, "raised") /\ UNCHANGED <<chain, pending, tool, acts, approved>>
    <3>1. Served' /\ chain' = FALSE
      BY <1>0, <2>2, AnswerServed
    <3> QED BY <1>0, <2>0, <2>2, <3>1, ServedIInv
  <2> QED BY <1>1, <2>1, <2>2 DEF Discover
<1>2. CASE DiscoverFails(q)
  <2>1. /\ Answer(q, "raised") /\ UNCHANGED <<schemas, chain, pending, tool, acts, approved>>
    BY <1>2 DEF DiscoverFails
  <2>2. Served' /\ chain' = FALSE
    BY <1>0, <2>1, AnswerServed
  <2> QED BY <1>0, <2>1, <2>2, ServedIInv
<1> QED BY <1>1, <1>2 DEF Initialize

\* An approval that is refused changes nothing but its own answer.
LEMMA ApproveRefusedIInv ==
  ASSUME IInv, NEW q \in Requests, NEW action \in Requests, NEW secret \in BOOLEAN,
         ApproveRefused(q, action, secret)
  PROVE  IInv'
<1>0. TypeOK /\ at[q] = "idle" /\ Answer(q, "refused")
  BY DEF IInv, ApproveRefused
<1>1. TypeOK'
  BY <1>0, Answered DEF TypeOK, ApproveRefused
<1>2. CompleteDiscovery'
  BY <1>0, AnswerDiscovery DEF IInv, CompleteDiscovery, ApproveRefused
<1>3. InitializesAlone'
  BY <1>0, Answered DEF IInv, InitializesAlone, ApproveRefused
<1>4. Served'
  BY <1>0, AnswerServed DEF ApproveRefused
<1> QED BY <1>1, <1>2, <1>3, <1>4 DEF IInv

\* upstream_approve: the pending call is taken, then executed.
LEMMA ApproveIInv ==
  ASSUME IInv, NEW q \in Requests, NEW action \in Requests, NEW result \in Results,
         Approve(q, action, result)
  PROVE  IInv'
<1>0. /\ TypeOK /\ at[q] = "idle" /\ Answer(q, result) /\ Call(action, result)
      /\ acts[action] = 0 /\ tool[action] \in Configured /\ Rules[tool[action]] = "review"
      /\ pending' = pending \ {action} /\ approved' = [approved EXCEPT ![action] = q]
      /\ approved \in Approvals
      /\ UNCHANGED <<lock, schemas, chain, tool>> /\ action \in pending
  BY DEF IInv, TypeOK, Approvals, Served, Reviewed, Approve, Take
<1>1. /\ acts' \in [Requests -> Nat] /\ acts'[action] <= 1
      /\ \A other \in Requests \ {action} : acts'[other] = acts[other]
  BY <1>0, CallActs
<1>2. /\ at'[q] = "answered" /\ at[action] = "answered"
      /\ \A other \in Requests \ {q} : at'[other] = at[other]
  BY <1>0, Answered DEF IInv, Served, Unserved
<1>3. ActsOnce' /\ ActsByRule'
  BY <1>0, <1>1, NoRequestAssumption DEF IInv, Approvals, Served, ActsOnce, ActsByRule
<1>4. Unserved' /\ Reviewed'
  <2>1. pending \subseteq Requests
    BY <1>0, Typed
  <2> QED BY <1>0, <1>1, <1>2, <2>1 DEF IInv, Served, Unserved, Reviewed
<1>5. TypeOK'
  BY <1>0, <1>1, Answered DEF TypeOK, Approvals
<1>6. CompleteDiscovery'
  BY <1>0, AnswerDiscovery DEF IInv, CompleteDiscovery
<1>7. InitializesAlone'
  <2>1. at'[q] = "answered" /\ at[q] = "idle" /\ UNCHANGED <<lock, chain>>
    BY <1>0, <1>2
  <2> QED BY <1>2, <2>1 DEF IInv, InitializesAlone
<1> QED BY <1>3, <1>4, <1>5, <1>6, <1>7 DEF IInv, Served

\* After a restart nothing is known, parked or in flight.
LEMMA RestartIInv ==
  ASSUME IInv, Restart
  PROVE  IInv'
<1>0. /\ acts \in [Requests -> Nat] /\ tool \in [Requests -> Tools \cup {"list"}]
      /\ at \in [Requests -> {"idle", "answered"} \cup Waiting]
      /\ answer \in [Requests -> Results \cup {"none", "listed", "listed in part", "blocked",
                                               "review", "raised", "refused"}]
      /\ approved \in Approvals
  BY DEF IInv, TypeOK, Approvals
<1>1. TypeOK'
  BY <1>0 DEF Restart, TypeOK, Approvals, Waiting
<1>2. CompleteDiscovery' /\ InitializesAlone'
  BY <1>0, NoRequestAssumption
  DEF Restart, IInv, CompleteDiscovery, InitializesAlone, Waiting
<1>3. Served'
  BY <1>0 DEF Restart, IInv, Served, ActsOnce, ActsByRule, Unserved, Reviewed, Waiting
<1> QED BY <1>1, <1>2, <1>3 DEF IInv

LEMMA NextIInv == IInv /\ [Next]_vars => IInv'
<1> SUFFICES ASSUME IInv, [Next]_vars PROVE IInv'
  OBVIOUS
<1>1. CASE UNCHANGED vars
  BY <1>1 DEF vars, IInv, TypeOK, CompleteDiscovery, InitializesAlone, Served, ActsOnce,
              ActsByRule, Unserved, Reviewed
<1>2. ASSUME NEW q \in Requests, Ready(q) \/ CancelWaiting(q)
      PROVE  IInv'
  BY <1>2, EnterIInv, EnterReadyIInv, CancelWaitingIInv DEF Ready
<1>3. CASE Next
  BY <1>2, <1>3, ArriveIInv, InitializeIInv, ApproveIInv, ApproveRefusedIInv, RestartIInv
  DEF Next
<1> QED BY <1>1, <1>3

THEOREM Invariance == Spec => []IInv
BY InitIInv, NextIInv, PTL DEF Spec

-----------------------------------------------------------------------------
\* Type correctness: every variable of the upstream keeps its type.
THEOREM TypeCorrect == Spec => []TypeOK
<1>1. IInv => TypeOK
  BY DEF IInv
<1> QED BY <1>1, Invariance, PTL

\* The server acts only as the owner's rules say: never for a denied or unknown
\* tool, and for a reviewed one only after an approval (configured.py:34-82).
THEOREM ServerObeysRules == Spec => []ActsByRule
<1>1. IInv => ActsByRule
  BY DEF IInv, Served
<1> QED BY <1>1, Invariance, PTL

\* Nobody is served from a partial discovery (configured.py:179-192).
THEOREM DiscoveryIsComplete == Spec => []CompleteDiscovery
<1>1. IInv => CompleteDiscovery
  BY DEF IInv
<1> QED BY <1>1, Invariance, PTL

\* init_lock protects the initialization and is never left behind by a failure
\* or a cancellation (mcp/tools.py:102-105).
THEOREM InitializationIsExclusive == Spec => []InitializesAlone
<1>1. IInv => InitializesAlone
  BY DEF IInv
<1> QED BY <1>1, Invariance, PTL

-----------------------------------------------------------------------------
(* Each call of the server is one control call                             *)

\* What tells where a call stands: a request is a call only once it arrived, what
\* is not answered has no answer, what is parked was answered as such, and what was approved was answered, is parked no
\* more, and shares its outcome with the request that approved it.
Linked ==
  \A q \in Requests :
    /\ at[q] = "idle" => tool[q] = "list"
    /\ at[q] # "answered" => answer[q] = "none"
    /\ q \in pending => answer[q] = "review"
    /\ approved[q] # NoRequest =>
         at[q] = "answered" /\ q \notin pending /\ at[approved[q]] = "answered"
RInv == IInv /\ Linked

Result(q) == IF Phase(q) = "done" THEN Outcome(q) ELSE "none"
Phases == [q \in Requests |-> Phase(q)]
Outcomes == [q \in Requests |-> Result(q)]
Same(q) == Phase(q)' = Phase(q) /\ Result(q)' = Result(q)

\* How a request is finished: listed or refused, parked for a review, or served.
Refusals == {"blocked", "raised"}
Finish(q) ==
  /\ at[q] \in Waiting /\ UNCHANGED <<tool, approved>>
  /\ \E a \in Results \cup Refusals \cup {"listed", "review"} :
       /\ Answer(q, a)
       /\ \/ (tool[q] = "list" \/ a \in Refusals) /\ UNCHANGED <<pending, acts>>
          \/ a = "review" /\ pending' = pending \cup {q} /\ UNCHANGED acts
          \/ tool[q] # "list" /\ a \in Results /\ Call(q, a) /\ UNCHANGED pending

LEMMA ServeFinishes ==
  ASSUME NEW q \in Requests, at[q] \in Waiting, Serve(q, Configured)
  PROVE  Finish(q)
<1>0. UNCHANGED <<tool, approved>>
  BY DEF Serve
<1>1. CASE List(q, Configured)
  BY <1>0, <1>1 DEF List, Finish
<1>2. CASE tool[q] # "list" /\ ValidationRaises(q, Configured)
  BY <1>0, <1>2 DEF ValidationRaises, Finish, Refusals
<1>3. CASE tool[q] # "list" /\ Validated(q, Configured)
  <2> PICK fits \in BOOLEAN :
        LET verdict == Check(tool[q], Configured, fits)
        IN \/ verdict = "deny" /\ Answer(q, "blocked") /\ UNCHANGED <<pending, acts>>
           \/ /\ verdict = "review"
              /\ pending' = pending \cup {q}
              /\ Answer(q, "review") /\ UNCHANGED acts
           \/ /\ verdict = "allow"
              /\ \E result \in Results : Call(q, result) /\ Answer(q, result)
              /\ UNCHANGED pending
    BY <1>3 DEF Validated
  <2>1. CASE Answer(q, "blocked") /\ UNCHANGED <<pending, acts>>
    BY <1>0, <2>1 DEF Finish, Refusals
  <2>2. CASE pending' = pending \cup {q} /\ Answer(q, "review") /\ UNCHANGED acts
    BY <1>0, <2>2 DEF Finish
  <2>3. CASE (\E result \in Results : Call(q, result) /\ Answer(q, result)) /\ UNCHANGED pending
    BY <1>0, <1>3, <2>3 DEF Finish
  <2> QED BY <2>1, <2>2, <2>3
<1> QED BY <1>1, <1>2, <1>3 DEF Serve, CallTool

\* ready() and initialize() finish a request, or only move it along.
LEMMA Finishes ==
  ASSUME RInv, NEW q \in Requests, EnterReady(q) \/ Initialize(q) \/ CancelWaiting(q)
  PROVE  Finish(q)
<1>1. CASE EnterReady(q)
  <2>1. schemas = Configured /\ at[q] \in Waiting /\ Serve(q, schemas)
    BY <1>1 DEF EnterReady, RInv, IInv, CompleteDiscovery, Waiting
  <2> QED BY <2>1, ServeFinishes
<1>2. CASE CancelWaiting(q) \/ DiscoverFails(q)
  BY <1>2 DEF CancelWaiting, DiscoverFails, Finish, Refusals, Waiting
<1>3. ASSUME NEW advertised \in SUBSET Tools, NEW wellFormed \in BOOLEAN,
             Discover(q, advertised, wellFormed)
      PROVE  Finish(q)
  <2>1. at[q] \in Waiting
    BY <1>3 DEF Discover, Waiting
  <2>2. CASE Complete(schemas') /\ Serve(q, schemas')
    BY <2>1, <2>2, ServeFinishes DEF Complete
  <2>3. CASE Answer(q, "raised") /\ UNCHANGED <<chain, pending, tool, acts, approved>>
    BY <2>1, <2>3 DEF Finish, Refusals
  <2> QED BY <1>3, <2>2, <2>3 DEF Discover
<1> QED BY <1>1, <1>2, <1>3 DEF Initialize

-----------------------------------------------------------------------------
(* How a call changes its phase *)

LEMMA PhaseNext ==
  ASSUME NEW q \in Requests
  PROVE  /\ Phase(q)' = IF at'[q] = "idle" \/ tool'[q] = "list" THEN "new"
                        ELSE IF at'[q] \in Waiting THEN "running"
                        ELSE IF q \in pending' THEN "review" ELSE "done"
         /\ Result(q)' = IF Phase(q)' # "done" THEN "none"
                         ELSE IF answer'[q] # "review" THEN answer'[q]
                         ELSE IF approved'[q] # NoRequest THEN answer'[approved'[q]]
                         ELSE "raised"
BY DEF Phase, Outcome, Result

\* A call that waited, and waits, and one that is over, and is left alone, are
\* where they were: nobody who was answered is answered again.
LEMMA SameCall ==
  ASSUME RInv, NEW q \in Requests, tool'[q] = tool[q], approved'[q] = approved[q],
         \/ at'[q] = at[q]
         \/ at[q] \in Waiting /\ at'[q] \in Waiting
         \/ tool[q] = "list",
         q \in pending' <=> q \in pending,
         \A p \in Requests : at[p] = "answered" => answer'[p] = answer[p]
  PROVE  Same(q)
<1>1. Phase(q)' = Phase(q)
  BY PhaseNext DEF Phase, Waiting
<1>2. ASSUME Phase(q) = "done"
      PROVE  Outcome(q)' = Outcome(q)
  <2>1. at[q] = "answered"
    BY <1>2 DEF Phase, RInv, IInv, TypeOK, Waiting
  <2>2. approved[q] # NoRequest => approved[q] \in Requests /\ at[approved[q]] = "answered"
    BY DEF RInv, IInv, TypeOK, Linked
  <2> QED BY <2>1, <2>2 DEF Outcome
<1> QED BY <1>1, <1>2 DEF Same, Result

Only(q) == \A p \in Requests \ {q} : Same(p)

LEMMA OneMoves ==
  ASSUME NEW q \in Requests, Only(q)
  PROVE  /\ Phases' = [Phases EXCEPT ![q] = Phase(q)']
         /\ Outcomes' = [Outcomes EXCEPT ![q] = Result(q)']
BY DEF Only, Same, Phases, Outcomes

LEMMA Stutters ==
  ASSUME \A q \in Requests : Same(q), UNCHANGED acts
  PROVE  UNCHANGED ServerCall!vars
<1>1. Phases' = Phases /\ Outcomes' = Outcomes
  BY DEF Same, Phases, Outcomes
<1> QED BY <1>1 DEF ServerCall!vars, Phases, Outcomes, Result

LEMMA NoResult ==
  ASSUME NEW q \in Requests, Only(q), Phase(q) # "done", Phase(q)' # "done"
  PROVE  Outcomes' = Outcomes
BY OneMoves, PhaseNext DEF Outcomes, Result

LEMMA Starts ==
  ASSUME NEW q \in Requests, Only(q), UNCHANGED acts,
         Phase(q) = "new", Phase(q)' = "running"
  PROVE  ServerCall!Next
<1>1. Phases' = [Phases EXCEPT ![q] = "running"] /\ Outcomes' = Outcomes /\ Phases[q] = "new"
  BY OneMoves, NoResult DEF Phases
<1>2. ServerCall!Start(q)
  BY <1>1 DEF ServerCall!Start, ServerCall!Go, Phases, Outcomes, Result
<1> QED BY <1>2 DEF ServerCall!Next

LEMMA Holds ==
  ASSUME NEW q \in Requests, Only(q), UNCHANGED acts,
         Phase(q) = "running", Phase(q)' = "review"
  PROVE  ServerCall!Next
<1>1. Phases' = [Phases EXCEPT ![q] = "review"] /\ Outcomes' = Outcomes /\ Phases[q] = "running"
  BY OneMoves, NoResult DEF Phases
<1>2. ServerCall!Hold(q)
  BY <1>1 DEF ServerCall!Hold, ServerCall!Go, Phases, Outcomes, Result
<1> QED BY <1>2 DEF ServerCall!Next

LEMMA Refuses ==
  ASSUME NEW q \in Requests, NEW r \in Refusals, Only(q), UNCHANGED acts,
         Phase(q) = "running", Phase(q)' = "done", Result(q)' = r
  PROVE  ServerCall!Next
<1>1. /\ Phases' = [Phases EXCEPT ![q] = "done"] /\ Phases[q] = "running"
      /\ Outcomes' = [Outcomes EXCEPT ![q] = r]
  BY OneMoves DEF Phases
<1>2. ServerCall!Refuse(q, r)
  BY <1>1 DEF ServerCall!Refuse, ServerCall!Go, Phases, Outcomes, Result, Refusals
<1> QED BY <1>2 DEF ServerCall!Next, Refusals

LEMMA Executes ==
  ASSUME NEW q \in Requests, NEW r \in Results, Only(q), Call(q, r),
         acts \in [Requests -> Nat],
         Phase(q) \in {"running", "review"}, Phase(q)' = "done", Result(q)' = r
  PROVE  ServerCall!Next
<1>1. /\ Phases' = [Phases EXCEPT ![q] = "done"] /\ Phases[q] \in {"running", "review"}
      /\ Outcomes' = [Outcomes EXCEPT ![q] = r]
  BY OneMoves DEF Phases
<1>2. \E n \in {0, 1} : acts' = [acts EXCEPT ![q] = @ + n]
  <2>1. acts' = acts => acts' = [acts EXCEPT ![q] = @ + 0]
    OBVIOUS
  <2> QED BY <2>1 DEF Call
<1>3. ServerCall!Execute(q, r)
  BY <1>1, <1>2 DEF ServerCall!Execute, ServerCall!Go, Phases, Outcomes, Result, Results
<1> QED BY <1>3 DEF ServerCall!Next, Results

-----------------------------------------------------------------------------
(* Each step of the upstream, as a step of one call *)

Mapped == [ServerCall!Next]_(ServerCall!vars)

\* What the invariant tells of types.
LEMMA Places ==
  ASSUME RInv
  PROVE  /\ TypeOK /\ acts \in [Requests -> Nat] /\ tool \in [Requests -> Tools \cup {"list"}]
         /\ at \in [Requests -> {"idle", "answered"} \cup Waiting] /\ pending \subseteq Requests
         /\ approved \in Approvals
BY Typed DEF RInv, IInv, TypeOK, Approvals

\* A request arrives and becomes a call, unless it asks for the list.
LEMMA ArriveMaps ==
  ASSUME RInv, NEW q \in Requests, NEW t \in Tools \cup {"list"}, Arrive(q, t)
  PROVE  Mapped /\ Linked'
<1>1. /\ at[q] = "idle" /\ tool[q] = "list" /\ q \notin pending /\ approved[q] = NoRequest
      /\ at'[q] = "entering" /\ tool'[q] = t
      /\ \A p \in Requests \ {q} : at'[p] = at[p] /\ tool'[p] = tool[p]
      /\ UNCHANGED <<pending, answer, acts, approved>>
  BY Places DEF Arrive, RInv, Linked, IInv, Served, Unserved
<1>2. Linked'
  <2>1. \A p \in Requests : at[p] = "answered" => at'[p] = "answered"
    BY <1>1
  <2> QED BY <1>1, <2>1, Places DEF RInv, Linked, Approvals
<1>3. Only(q)
  BY <1>1, SameCall DEF Only
<1>4. Phase(q) = "new"
  BY <1>1 DEF Phase
<1>5. CASE t = "list"
  <2>1. Same(q)
    BY <1>1, <1>4, <1>5, PhaseNext DEF Same, Result
  <2> QED BY <1>1, <1>2, <1>3, <2>1, Stutters DEF Mapped, Only
<1>6. CASE t # "list"
  <2>1. Phase(q)' = "running"
    BY <1>1, <1>6, PhaseNext DEF Waiting
  <2> QED BY <1>1, <1>2, <1>3, <1>4, <2>1, Starts DEF Mapped
<1> QED BY <1>5, <1>6

\* ready(): the request only moves along.
LEMMA EnterMaps ==
  ASSUME RInv, NEW q \in Requests, Enter(q)
  PROVE  Mapped /\ Linked'
<1>1. /\ at[q] = "entering" /\ at'[q] = "initializing"
      /\ \A p \in Requests \ {q} : at'[p] = at[p]
      /\ UNCHANGED <<tool, pending, answer, acts, approved>>
  BY Places DEF Enter
<1>2. Linked'
  <2>1. \A p \in Requests : at[p] = "answered" => at'[p] = "answered"
    BY <1>1
  <2> QED BY <1>1, <2>1, Places DEF RInv, Linked, Approvals
<1>3. \A p \in Requests : Same(p)
  BY <1>1, SameCall DEF Waiting
<1> QED BY <1>1, <1>2, <1>3, Stutters DEF Mapped

\* A request is finished: its call is refused, parked or served.
LEMMA FinishMaps ==
  ASSUME RInv, NEW q \in Requests, Finish(q)
  PROVE  Mapped /\ Linked'
<1>1. /\ at[q] \in Waiting /\ at[q] # "idle" /\ at[q] # "answered"
      /\ UNCHANGED <<tool, approved>>
      /\ q \notin pending /\ acts[q] = 0 /\ approved[q] = NoRequest
  BY DEF Finish, RInv, Linked, IInv, Served, Unserved, Waiting
<1> PICK a \in Results \cup Refusals \cup {"listed", "review"} :
      /\ Answer(q, a)
      /\ \/ (tool[q] = "list" \/ a \in Refusals) /\ UNCHANGED <<pending, acts>>
         \/ a = "review" /\ pending' = pending \cup {q} /\ UNCHANGED acts
         \/ tool[q] # "list" /\ a \in Results /\ Call(q, a) /\ UNCHANGED pending
  BY DEF Finish
<1>2. /\ at'[q] = "answered" /\ answer'[q] = a
      /\ \A p \in Requests \ {q} : at'[p] = at[p] /\ answer'[p] = answer[p]
  BY Places, Answered DEF Refusals
<1>3. \A p \in Requests : at[p] = "answered" => at'[p] = "answered" /\ answer'[p] = answer[p]
  BY <1>1, <1>2
<1>4. /\ \A p \in Requests \ {q} : p \in pending' <=> p \in pending
      /\ q \in pending' => a = "review"
  BY <1>1
<1>5. Linked'
  BY <1>1, <1>2, <1>3, <1>4, Places DEF RInv, Linked, Approvals
<1>6. Only(q)
  BY <1>1, <1>2, <1>3, <1>4, SameCall DEF Only
<1>7. CASE tool[q] = "list" /\ UNCHANGED acts
  <2>1. Same(q)
    BY <1>1, <1>7, PhaseNext DEF Same, Phase, Result
  <2> QED BY <1>5, <1>6, <1>7, <2>1, Stutters DEF Mapped, Only
<1>8. CASE tool[q] # "list"
  <2>1. Phase(q) = "running"
    BY <1>1, <1>8 DEF Phase
  <2>2. Phase(q)' = IF q \in pending' THEN "review" ELSE "done"
    BY <1>1, <1>2, <1>8, PhaseNext DEF Waiting
  <2>3. CASE a = "review" /\ pending' = pending \cup {q} /\ UNCHANGED acts
    BY <1>5, <1>6, <2>1, <2>2, <2>3, Holds DEF Mapped
  <2>4. ASSUME UNCHANGED pending, a # "review"
        PROVE  Phase(q)' = "done" /\ Result(q)' = a
    BY <1>1, <1>2, <2>2, <2>4, PhaseNext
  <2>5. CASE a \in Refusals /\ UNCHANGED <<pending, acts>>
    BY <1>5, <1>6, <2>1, <2>4, <2>5, Refuses DEF Mapped, Refusals
  <2>6. CASE a \in Results /\ Call(q, a) /\ UNCHANGED pending
    BY <1>5, <1>6, <2>1, <2>4, <2>6, Executes, Places DEF Mapped, Results
  <2> QED BY <1>8, <2>3, <2>5, <2>6
<1> QED BY <1>7, <1>8

\* An approval that is refused touches no call: the request is none itself.
LEMMA ApproveRefusedMaps ==
  ASSUME RInv, NEW q \in Requests, NEW action \in Requests, NEW secret \in BOOLEAN,
         ApproveRefused(q, action, secret)
  PROVE  Mapped /\ Linked'
<1>1. /\ at[q] = "idle" /\ tool[q] = "list" /\ approved[q] = NoRequest /\ q \notin pending
      /\ Answer(q, "refused") /\ UNCHANGED <<pending, tool, acts, approved>>
  BY DEF ApproveRefused, RInv, Linked, IInv, Served, Unserved
<1>2. /\ at'[q] = "answered"
      /\ \A p \in Requests \ {q} : at'[p] = at[p] /\ answer'[p] = answer[p]
  BY <1>1, Places, Answered
<1>3. \A p \in Requests : at[p] = "answered" => at'[p] = "answered" /\ answer'[p] = answer[p]
  BY <1>1, <1>2
<1>4. Linked'
  BY <1>1, <1>2, <1>3, Places DEF RInv, Linked, Approvals
<1>5. \A p \in Requests : Same(p)
  BY <1>1, <1>2, <1>3, SameCall
<1> QED BY <1>1, <1>4, <1>5, Stutters DEF Mapped

\* An approval takes the parked call and ends it with what its own client is told.
LEMMA ApproveMaps ==
  ASSUME RInv, NEW q \in Requests, NEW action \in Requests, NEW result \in Results,
         Approve(q, action, result)
  PROVE  Mapped /\ Linked'
<1>1. /\ at[q] = "idle" /\ tool[q] = "list" /\ approved[q] = NoRequest /\ q \notin pending
      /\ action \in pending /\ action # q /\ at[action] = "answered" /\ answer[action] = "review"
      /\ tool[action] \in Tools /\ tool[action] # "list"
      /\ pending' = pending \ {action} /\ approved' = [approved EXCEPT ![action] = q]
      /\ Call(action, result) /\ Answer(q, result) /\ UNCHANGED tool
  BY ListAssumption, RulesAssumption, Places
  DEF Approve, Take, RInv, Linked, IInv, Served, Unserved, Reviewed, Configured, Waiting
<1>2. /\ at'[q] = "answered" /\ answer'[q] = result
      /\ \A p \in Requests \ {q} : at'[p] = at[p] /\ answer'[p] = answer[p]
  BY <1>1, Places, Answered
<1>3. /\ approved'[action] = q
      /\ \A p \in Requests \ {action} : approved'[p] = approved[p]
  BY <1>1, Places DEF Approvals
<1>4. \A p \in Requests : at[p] = "answered" => at'[p] = "answered" /\ answer'[p] = answer[p]
  BY <1>1, <1>2
<1>5. Linked'
  <2> SUFFICES ASSUME NEW p \in Requests
               PROVE  /\ at'[p] = "idle" => tool'[p] = "list"
                      /\ at'[p] # "answered" => answer'[p] = "none"
                      /\ p \in pending' => answer'[p] = "review"
                      /\ approved'[p] # NoRequest =>
                           at'[p] = "answered" /\ p \notin pending' /\ at'[approved'[p]] = "answered"
    BY DEF Linked
  <2>1. CASE p = action
    BY <1>1, <1>2, <1>3, <1>4, <2>1
  <2>2. CASE p # action
    <3>1. approved[p] # NoRequest => approved[p] \in Requests /\ at[approved[p]] = "answered"
      BY Places DEF RInv, Linked, Approvals
    <3> QED BY <1>1, <1>2, <1>3, <1>4, <2>2, <3>1 DEF RInv, Linked
  <2> QED BY <2>1, <2>2
<1>6. Only(action)
  BY <1>1, <1>2, <1>3, <1>4, SameCall DEF Only
<1>7. Phase(action) = "review"
  BY <1>1 DEF Phase, Waiting
<1>8. Phase(action)' = "done" /\ Result(action)' = result
  <2>1. at'[action] = "answered" /\ answer'[action] = "review" /\ tool'[action] # "list"
    BY <1>1, <1>2
  <2> QED BY <1>1, <1>2, <1>3, <2>1, PhaseNext, NoRequestAssumption DEF Waiting
<1> QED BY <1>1, <1>5, <1>6, <1>7, <1>8, Executes, Places DEF Mapped

\* A restart loses every call that is not over, and none that is.
LEMMA RestartMaps ==
  ASSUME RInv, Restart
  PROVE  Mapped /\ Linked'
<1>1. /\ pending' = {} /\ UNCHANGED <<tool, acts, approved>>
      /\ \A q \in Requests :
           /\ at[q] \in Waiting => at'[q] = "answered" /\ answer'[q] = "raised"
           /\ at[q] \notin Waiting => at'[q] = at[q] /\ answer'[q] = answer[q]
  BY DEF Restart
<1>2. \A q \in Requests : at[q] = "answered" => at'[q] = "answered" /\ answer'[q] = answer[q]
  BY <1>1 DEF Waiting
<1>3. Linked'
  BY <1>1, <1>2, Places DEF RInv, Linked, Approvals, Waiting
<1>4. ASSUME NEW q \in Requests
      PROVE  /\ Phase(q)' = IF Phase(q) = "new" THEN "new" ELSE "done"
             /\ Result(q)' = IF Phase(q) \in {"new", "done"} THEN Result(q) ELSE "raised"
  <2>1. CASE Phase(q) = "new" \/ Phase(q) = "done"
    <3>1. Same(q)
      <4>1. CASE Phase(q) = "done"
        <5>1. at[q] = "answered" /\ q \notin pending
          BY <4>1, Places DEF Phase
        <5> QED BY <1>1, <1>2, <5>1, SameCall
      <4>2. CASE Phase(q) = "new" /\ tool[q] = "list"
        BY <1>1, <4>2, PhaseNext DEF Same, Result
      <4>3. CASE Phase(q) = "new" /\ tool[q] # "list"
        BY <4>3 DEF Phase, RInv, Linked
      <4> QED BY <2>1, <4>1, <4>2, <4>3
    <3> QED BY <2>1, <3>1 DEF Same
  <2>2. CASE Phase(q) = "running"
    <3>1. at[q] \in Waiting /\ tool[q] # "list" /\ approved[q] = NoRequest
      BY <2>2 DEF Phase, RInv, Linked, Waiting
    <3> QED BY <1>1, <2>2, <3>1, PhaseNext DEF Waiting
  <2>3. CASE Phase(q) = "review"
    <3>1. /\ at[q] = "answered" /\ tool[q] # "list" /\ answer[q] = "review"
          /\ approved[q] = NoRequest
      BY <2>3, Places DEF Phase, RInv, Linked
    <3> QED BY <1>1, <1>2, <2>3, <3>1, PhaseNext DEF Waiting
  <2> QED BY <2>1, <2>2, <2>3 DEF Phase
<1>5. /\ Phases' = [q \in Requests |-> IF Phases[q] = "new" THEN "new" ELSE "done"]
      /\ Outcomes' = [q \in Requests |-> IF Phases[q] \in {"new", "done"} THEN Outcomes[q]
                                         ELSE "raised"]
  BY <1>4 DEF Phases, Outcomes
<1>6. ServerCall!Lose
  BY <1>1, <1>5 DEF ServerCall!Lose, Phases, Outcomes, Result
<1> QED BY <1>3, <1>6 DEF Mapped, ServerCall!Next

-----------------------------------------------------------------------------
(* The refinement *)

LEMMA RInvNext == RInv /\ [Next]_vars => RInv' /\ [ServerCall!Next]_(ServerCall!vars)
<1> SUFFICES ASSUME RInv, [Next]_vars PROVE RInv' /\ Mapped
  BY DEF Mapped
<1>1. IInv'
  BY NextIInv DEF RInv
<1>2. CASE UNCHANGED vars
  <2>1. UNCHANGED <<pending, at, tool, answer, acts, approved>>
    BY <1>2 DEF vars
  <2>2. Linked'
    BY <2>1 DEF RInv, Linked
  <2>3. \A q \in Requests : Same(q)
    BY <2>1, SameCall
  <2> QED BY <1>1, <2>1, <2>2, <2>3, Stutters DEF RInv, Mapped
<1>3. ASSUME NEW q \in Requests, Ready(q) \/ Initialize(q) \/ CancelWaiting(q)
      PROVE  Mapped /\ Linked'
  BY <1>3, EnterMaps, Finishes, FinishMaps DEF Ready
<1>4. CASE Next
  BY <1>1, <1>3, <1>4, ArriveMaps, ApproveMaps, ApproveRefusedMaps, RestartMaps
  DEF Next, RInv
<1> QED BY <1>2, <1>4

\* A call of the server is one control call to the client that makes it and the
\* owner who approves it: it acts at most once, in the step that ends it, and ends
\* once, whether it is answered at once, approved later by another request, or lost
\* in a restart (configured.py:70-82, mcp/tools.py:107-145).
THEOREM Refinement == Spec => ImplementsControlledCall
<1>1. Init => RInv /\ ServerCall!Init
  <2> SUFFICES ASSUME Init PROVE RInv /\ ServerCall!Init
    OBVIOUS
  <2>1. RInv
    BY InitIInv DEF Init, RInv, Linked
  <2>2. Phases = [q \in Requests |-> "new"] /\ Outcomes = [q \in Requests |-> "none"]
    BY DEF Init, Phases, Outcomes, Phase, Result
  <2> QED BY <2>1, <2>2 DEF Init, ServerCall!Init, Phases, Outcomes, Result
<1> QED BY <1>1, RInvNext, PTL DEF Spec, ImplementsControlledCall, ServerCall!Spec

-----------------------------------------------------------------------------
(* Clients and approvers are told what was done *)

\* Who is told that a call succeeded is told the truth.
Successes ==
  \A q \in Requests :
    /\ tool[q] # "list" /\ answer[q] = "success" => acts[q] > 0
    /\ approved[q] # NoRequest /\ answer[approved[q]] = "success" => acts[q] > 0

\* No answer is taken back, and nothing done is undone.
Stays ==
  /\ \A q \in Requests :
       /\ at[q] = "answered" => answer'[q] = answer[q]
       /\ acts[q] > 0 => acts'[q] > 0

LEMMA CallStays ==
  ASSUME RInv, NEW q \in Requests, NEW r \in Results, Call(q, r)
  PROVE  /\ \A p \in Requests : acts[p] > 0 => acts'[p] > 0
         /\ r = "success" => acts'[q] > 0
BY Places DEF Call

\* A request that is not answered yet gets an answer that is no success, or the
\* success of its own call.
LEMMA SuccessesAnswer ==
  ASSUME RInv, Successes, Stays, NEW q \in Requests, at[q] # "answered",
         \A p \in Requests \ {q} : answer'[p] = answer[p],
         UNCHANGED <<tool, approved>>,
         answer'[q] = "success" => acts'[q] > 0
  PROVE  Successes'
<1>1. \A p \in Requests : approved[p] # NoRequest => approved[p] \in Requests /\ at[approved[p]] = "answered"
  BY Places DEF RInv, Linked, Approvals
<1> QED BY <1>1 DEF Successes, Stays

LEMMA SuccessesNext ==
  ASSUME RInv, Successes, [Next]_vars
  PROVE  Successes'
<1>0. \A p \in Requests : approved[p] # NoRequest => approved[p] \in Requests /\ at[approved[p]] = "answered"
  BY Places DEF RInv, Linked, Approvals
<1>1. ASSUME NEW q \in Requests, Finish(q) PROVE Successes'
  <2>1. at[q] # "answered" /\ UNCHANGED <<tool, approved>>
    BY <1>1 DEF Finish, Waiting
  <2> PICK a \in Results \cup Refusals \cup {"listed", "review"} :
        /\ Answer(q, a)
        /\ \/ (tool[q] = "list" \/ a \in Refusals) /\ UNCHANGED <<pending, acts>>
           \/ a = "review" /\ pending' = pending \cup {q} /\ UNCHANGED acts
           \/ tool[q] # "list" /\ a \in Results /\ Call(q, a) /\ UNCHANGED pending
    BY <1>1 DEF Finish
  <2>2. answer'[q] = a /\ \A p \in Requests \ {q} : answer'[p] = answer[p]
    BY Places, Answered DEF Refusals
  <2>3. CASE (tool[q] = "list" \/ a \in Refusals \cup {"review"}) /\ UNCHANGED acts
    BY <1>0, <2>1, <2>2, <2>3 DEF Successes, Refusals
  <2>4. CASE tool[q] # "list" /\ a \in Results /\ Call(q, a)
    <3>1. Stays /\ (a = "success" => acts'[q] > 0)
      BY <2>1, <2>2, <2>4, CallStays DEF Stays
    <3> QED BY <2>1, <2>2, <3>1, SuccessesAnswer
  <2> QED BY <2>3, <2>4
<1>2. ASSUME NEW q \in Requests, NEW action \in Requests, NEW result \in Results,
             Approve(q, action, result)
      PROVE  Successes'
  <2>1. /\ at[q] = "idle" /\ tool[q] = "list" /\ action \in Requests
        /\ approved' = [approved EXCEPT ![action] = q] /\ approved \in Approvals
        /\ Call(action, result) /\ Answer(q, result) /\ UNCHANGED tool
    BY <1>2, Places DEF Approve, RInv, Linked
  <2>2. answer'[q] = result /\ \A p \in Requests \ {q} : answer'[p] = answer[p]
    BY <2>1, Places, Answered
  <2>3. /\ \A p \in Requests : acts[p] > 0 => acts'[p] > 0
        /\ result = "success" => acts'[action] > 0
    BY <2>1, CallStays
  <2>4. /\ approved'[action] = q
        /\ \A p \in Requests \ {action} : approved'[p] = approved[p]
    BY <2>1 DEF Approvals
  <2> QED BY <1>0, <2>1, <2>2, <2>3, <2>4 DEF Successes
<1>3. ASSUME NEW q \in Requests, NEW action \in Requests, NEW secret \in BOOLEAN,
             ApproveRefused(q, action, secret)
      PROVE  Successes'
  <2>1. /\ at[q] = "idle" /\ Answer(q, "refused") /\ UNCHANGED <<tool, acts, approved>>
    BY <1>3 DEF ApproveRefused
  <2>2. answer'[q] = "refused" /\ \A p \in Requests \ {q} : answer'[p] = answer[p]
    BY <2>1, Places, Answered
  <2>3. Stays
    BY <2>1, <2>2 DEF Stays
  <2> QED BY <2>1, <2>2, <2>3, SuccessesAnswer
<1>4. ASSUME NEW q \in Requests, NEW t \in Tools \cup {"list"}, Arrive(q, t) PROVE Successes'
  <2>1. /\ at[q] = "idle" /\ UNCHANGED <<answer, acts, approved>>
        /\ \A p \in Requests \ {q} : tool'[p] = tool[p]
    BY <1>4, Places DEF Arrive
  <2>2. answer[q] = "none"
    BY <2>1 DEF RInv, Linked
  <2> QED BY <2>1, <2>2 DEF Successes
<1>5. ASSUME NEW q \in Requests, Enter(q) PROVE Successes'
  BY <1>5 DEF Enter, Successes
<1>6. CASE Restart
  <2>1. /\ UNCHANGED <<tool, acts, approved>>
        /\ \A q \in Requests : answer'[q] = "success" => answer[q] = "success"
    BY <1>6 DEF Restart
  <2> QED BY <1>0, <2>1 DEF Successes
<1>7. CASE UNCHANGED vars
  BY <1>7 DEF vars, Successes
<1>8. ASSUME NEW q \in Requests, Ready(q) \/ Initialize(q) \/ CancelWaiting(q)
      PROVE  Successes'
  BY <1>1, <1>5, <1>8, Finishes DEF Ready
<1> QED BY <1>2, <1>3, <1>4, <1>6, <1>7, <1>8 DEF Next

\* What follows from each call's being a control call.
Promises == INSTANCE ControlledCallProofs WITH
  Calls  <- Requests,
  Atomic <- TRUE,
  phase  <- [q \in Requests |-> Phase(q)],
  result <- [q \in Requests |-> IF Phase(q) = "done" THEN Outcome(q) ELSE "none"],
  acts   <- acts

LEMMA KeepsPromise == Spec => []Promises!Promise
<1>1. ServerCall!Init <=> Promises!Init
  BY DEF ServerCall!Init, Promises!Init
<1>2. [ServerCall!Next]_(ServerCall!vars) <=> [Promises!Next]_(Promises!vars)
  BY DEF ServerCall!Next, Promises!Next, ServerCall!vars, Promises!vars,
     ServerCall!Lose, Promises!Lose, ServerCall!Start, Promises!Start, ServerCall!Hold,
     Promises!Hold, ServerCall!Approve, Promises!Approve, ServerCall!Refuse, Promises!Refuse,
     ServerCall!Execute, Promises!Execute, ServerCall!Go, Promises!Go
<1>3. ImplementsControlledCall => Promises!Spec
  BY <1>1, <1>2, PTL DEF ImplementsControlledCall, ServerCall!Spec, Promises!Spec
<1> QED BY <1>3, Refinement, Promises!Promised, PTL

\* The upstream server acts at most once for a call, although the call may fail
\* after it acted and approvals may be repeated; a call that is denied, parked,
\* lost, or failed otherwise than by the server has not acted, and one of which
\* success is told, to its client or to its approver, has (mcp/tools.py:137-145).
THEOREM ServerActsAsTold == Spec => []ActsAsTold
<1>1. Promises!Promise /\ Successes => ActsAsTold
  <2> SUFFICES ASSUME Promises!Promise, Successes, NEW q \in Requests
               PROVE  /\ acts[q] <= 1
                      /\ acts[q] = 1 => Phase(q) = "done" /\ Outcome(q) \in Results
                      /\ Phase(q) = "done" /\ Outcome(q) = "success" => acts[q] = 1
    BY DEF ActsAsTold
  <2>1. /\ acts[q] \in {0, 1}
        /\ acts[q] = 1 => (IF Phase(q) = "done" THEN Outcome(q) ELSE "none") \in {"success", "error"}
    BY DEF Promises!Promise, Promises!Kept
  <2>2. Phase(q) = "done" => tool[q] # "list"
    BY DEF Phase
  <2> QED BY <2>1, <2>2 DEF Successes, Outcome, Results
<1>2. Init => RInv /\ Successes
  BY InitIInv DEF Init, RInv, Linked, Successes
<1>3. RInv /\ Successes /\ [Next]_vars => RInv' /\ Successes'
  BY RInvNext, SuccessesNext
<1> QED BY <1>1, <1>2, <1>3, KeepsPromise, PTL DEF Spec
=============================================================================
