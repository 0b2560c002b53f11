--------------------------- MODULE ConfiguredUpstream ---------------------------
(***************************************************************************)
(* The configured upstream: discovery of the owner's stdio MCP server and  *)
(* permit-gated calls to it (upstream/configured.py), behind the MCP tools *)
(* upstream_tools, upstream_call and upstream_approve (mcp/tools.py).      *)
(*                                                                         *)
(* Requests are coroutines.  They are suspended at init_lock and while one *)
(* of them initializes; once ready() returns, the rest of the handler runs *)
(* without an await, upstream call included, so it is one action here.     *)
(* The upstream server is a new process for each connection: what it       *)
(* advertises may change, and it may act and then fail to answer.          *)
(***************************************************************************)
EXTENDS Naturals, FiniteSets, Functions

CONSTANTS Requests,  \* calls of the three MCP tools
          Tools,     \* tool names a client or the server may mention
          Rules,     \* configured tool -> "allow", "review" or "deny"
          NoRequest

ASSUME RulesAssumption ==
  DOMAIN Rules \subseteq Tools /\ Rules \in [DOMAIN Rules -> {"allow", "review", "deny"}]
ASSUME NoRequestAssumption == NoRequest \notin Requests
ASSUME ListAssumption == "list" \notin Tools  \* it stands for upstream_tools

VARIABLES
  lock,      \* the request that holds init_lock, or NoRequest
  schemas,   \* the configured tools with a discovered schema
  chain,     \* is the control chain in place?
  pending,   \* reviewed calls that await approval; an action is named by its request
  at,        \* request -> "idle", "entering", "initializing" or "answered"
  tool,      \* request -> the tool upstream_call names, or "list"
  answer,    \* request -> what its client gets
  acts,      \* history: request -> how often the upstream server acted for it
  approved   \* history: call -> the request that approved it, or NoRequest

vars == <<lock, schemas, chain, pending, at, tool, answer, acts, approved>>

Configured == DOMAIN Rules
Waiting == {"entering", "initializing"}
Results == {"success", "error"}

-----------------------------------------------------------------------------
(* ConfiguredPolicy and ConfiguredExecutor *)

\* Faulty variant: a reviewed tool counts as allowed.
CheckLax(t, known, fits) ==
  IF t \in Configured /\ t \in known /\ fits
  THEN IF Rules[t] = "deny" THEN "deny" ELSE "allow"
  ELSE "deny"

\* ConfiguredPolicy.check; the arguments fit the schema or not.
Check(t, known, fits) ==
  IF t \in Configured /\ t \in known /\ fits THEN Rules[t] ELSE "deny"

\* Faulty variant: a call that failed is tried once more, and may have acted before.
CallRetry(q, result) ==
  \/ result \in Results /\ \E n \in {1, 2} : acts' = [acts EXCEPT ![q] = @ + n]
  \/ result = "error" /\ UNCHANGED acts

\* ConfiguredExecutor.execute: the server acts and the call succeeds, or any
\* failure, before or after it acted, is one error.
Call(q, result) ==
  \/ result \in Results /\ acts' = [acts EXCEPT ![q] = @ + 1]
  \/ result = "error" /\ UNCHANGED acts

Answer(q, a) ==
  /\ at' = [at EXCEPT ![q] = "answered"]
  /\ answer' = [answer EXCEPT ![q] = a]

-----------------------------------------------------------------------------
(* The handlers once ready() has returned: known is upstream.schemas *)

List(q, known) ==
  /\ tool[q] = "list"
  /\ Answer(q, IF known = Configured THEN "listed" ELSE "listed in part")
  /\ UNCHANGED <<pending, acts>>

\* A schema that is well formed may still not be usable (a reference that leads
\* nowhere): what the validator raises then is no ValidationError.
ValidationRaises(q, known) ==
  tool[q] \in Configured \cap known /\ Answer(q, "raised") /\ UNCHANGED <<pending, acts>>

Validated(q, known) ==
  \E fits \in BOOLEAN :
    LET verdict == Check(tool[q], known, fits)
    IN \/ verdict = "deny" /\ Answer(q, "blocked") /\ UNCHANGED <<pending, acts>>
       \/ /\ verdict = "review"
          /\ pending' = pending \cup {q}
          /\ Answer(q, "review") /\ UNCHANGED acts
       \/ /\ verdict = "allow"
          /\ \E result \in Results : Call(q, result) /\ Answer(q, result)
          /\ UNCHANGED pending

CallTool(q, known) == tool[q] # "list" /\ (Validated(q, known) \/ ValidationRaises(q, known))

Serve(q, known) == (List(q, known) \/ CallTool(q, known)) /\ UNCHANGED <<tool, approved>>

-----------------------------------------------------------------------------
(* upstream_tools, upstream_call: ready() *)

Arrive(q, t) ==
  /\ at[q] = "idle"
  /\ at' = [at EXCEPT ![q] = "entering"]
  /\ tool' = [tool EXCEPT ![q] = t]
  /\ UNCHANGED <<lock, schemas, chain, pending, answer, acts, approved>>

\* The lock is free and the chain is in place: straight through.
EnterReady(q) ==
  /\ at[q] = "entering" /\ lock = NoRequest /\ chain
  /\ Serve(q, schemas)
  /\ UNCHANGED <<lock, schemas, chain>>

\* Faulty variant: whoever waited for the lock initializes again.
InitializeAgain == TRUE

MustInitialize == ~chain

Enter(q) ==
  /\ at[q] = "entering" /\ lock = NoRequest /\ MustInitialize
  /\ lock' = q
  /\ at' = [at EXCEPT ![q] = "initializing"]
  /\ UNCHANGED <<schemas, chain, pending, tool, answer, acts, approved>>

\* Faulty variant: tools that are not configured are kept.
AllAdvertised(advertised) == advertised

Kept(advertised) == advertised \cap Configured

\* Faulty variant: a partial discovery will do.
AnyDiscovery(known) == TRUE

Complete(known) == known = Configured

\* initialize() up to the last await went well: the server advertised these
\* tools.  schemas is assigned before the checks that may still raise.
Discover(q, advertised, wellFormed) ==
  /\ at[q] = "initializing"
  /\ lock' = NoRequest
  /\ schemas' = Kept(advertised)
  /\ \/ /\ Complete(schemas') /\ wellFormed
        /\ chain' = TRUE
        /\ Serve(q, schemas')
     \/ /\ ~Complete(schemas') \/ ~wellFormed
        /\ Answer(q, "raised")
        /\ UNCHANGED <<chain, pending, tool, acts, approved>>

\* Faulty variant: the lock is not released on failure.
DiscoverHangs(q) ==
  /\ at[q] = "initializing"
  /\ Answer(q, "raised")
  /\ UNCHANGED <<lock, schemas, chain, pending, tool, acts, approved>>

\* The server does not start, times out or breaks the protocol, or the client
\* gives up: init_lock is released, nothing else changed.
DiscoverFails(q) ==
  /\ at[q] = "initializing"
  /\ lock' = NoRequest
  /\ Answer(q, "raised")
  /\ UNCHANGED <<schemas, chain, pending, tool, acts, approved>>

CancelWaiting(q) ==
  /\ at[q] = "entering" /\ lock # NoRequest
  /\ Answer(q, "raised")
  /\ UNCHANGED <<lock, schemas, chain, pending, tool, acts, approved>>

-----------------------------------------------------------------------------
(* upstream_approve *)

ApproveRefused(q, action, secret) ==
  /\ at[q] = "idle"
  /\ ~secret \/ action \notin pending
  /\ Answer(q, "refused")
  /\ UNCHANGED <<lock, schemas, chain, pending, tool, acts, approved>>

\* Faulty variant: the pending call is read, not taken.
Peek(action) == UNCHANGED pending

Take(action) == pending' = pending \ {action}

\* The policy is static, so the chain accepts what it reviewed.
Approve(q, action, result) ==
  /\ at[q] = "idle" /\ action \in pending
  /\ Take(action)
  /\ approved' = [approved EXCEPT ![action] = q]
  /\ Call(action, result)
  /\ Answer(q, result)
  /\ UNCHANGED <<lock, schemas, chain, tool>>

\* All of it lives in memory.
Restart ==
  /\ lock' = NoRequest /\ schemas' = {} /\ chain' = FALSE /\ pending' = {}
  /\ at' = [q \in Requests |-> IF at[q] \in Waiting THEN "answered" ELSE at[q]]
  /\ answer' = [q \in Requests |-> IF at[q] \in Waiting THEN "raised" ELSE answer[q]]
  /\ UNCHANGED <<tool, acts, approved>>

-----------------------------------------------------------------------------
Init ==
  /\ lock = NoRequest /\ schemas = {} /\ chain = FALSE /\ pending = {}
  /\ at = [q \in Requests |-> "idle"]
  /\ tool = [q \in Requests |-> "list"]
  /\ answer = [q \in Requests |-> "none"]
  /\ acts = [q \in Requests |-> 0]
  /\ approved = [q \in Requests |-> NoRequest]

Ready(q) == EnterReady(q) \/ Enter(q)

Initialize(q) ==
  \/ \E advertised \in SUBSET Tools, wellFormed \in BOOLEAN : Discover(q, advertised, wellFormed)
  \/ DiscoverFails(q)

Next ==
  \/ \E q \in Requests :
       \/ \E t \in Tools \cup {"list"} : Arrive(q, t)
       \/ Ready(q)
       \/ Initialize(q)
       \/ CancelWaiting(q)
       \/ \E action \in Requests :
            \/ \E secret \in BOOLEAN : ApproveRefused(q, action, secret)
            \/ \E result \in Results : Approve(q, action, result)
  \/ Restart

\* init_lock is granted in the order of arrival, and initialize() gives up after
\* 15 seconds.
Fairness == \A q \in Requests : WF_vars(Ready(q)) /\ WF_vars(Initialize(q))

Spec == Init /\ [][Next]_vars
FairSpec == Spec /\ Fairness

-----------------------------------------------------------------------------
(* Properties *)

\* Type invariant.
TypeOK ==
  /\ lock \in Requests \cup {NoRequest}
  /\ schemas \subseteq Configured
  /\ chain \in BOOLEAN
  /\ pending \subseteq Requests
  /\ at \in [Requests -> {"idle", "answered"} \cup Waiting]
  /\ tool \in [Requests -> Tools \cup {"list"}]
  /\ answer \in [Requests -> Results \cup {"none", "listed", "listed in part", "blocked",
                                           "review", "raised", "refused"}]
  /\ acts \in [Requests -> Nat]
  /\ approved \in [Requests -> Requests \cup {NoRequest}]

\* The server acts only for tools the owner allows, and for those he wants
\* reviewed only after an approval (configured.py:73-82).
ActsByRule ==
  \A q \in Requests : acts[q] > 0 =>
    /\ tool[q] \in Configured
    /\ Rules[tool[q]] # "deny"
    /\ Rules[tool[q]] = "review" => approved[q] # NoRequest

\* The chain is in place only after a complete discovery, although a failed
\* attempt leaves a part of the schemas behind; nobody is served from such a
\* part (configured.py:179-192).
CompleteDiscovery ==
  /\ chain => schemas = Configured
  /\ \A q \in Requests : answer[q] # "listed in part"

\* One request at a time initializes, init_lock is never left behind by a failed
\* or cancelled one, and a request that waited for it does not discover again and
\* replace the chain under the calls that were reviewed (mcp/tools.py:102-105).
InitializesAlone ==
  /\ \A q \in Requests : at[q] = "initializing" <=> lock = q
  /\ chain => lock = NoRequest

\* Every request that arrived is answered, however initialization goes.
RequestsAnswered ==
  \A q \in Requests : at[q] = "entering" ~> at[q] = "answered"

\* How far the control of a call has come: a request for a call is idle until it
\* arrives, and its call is parked under its name.
Phase(q) ==
  IF at[q] = "idle" \/ tool[q] = "list" THEN "new"
  ELSE IF at[q] \in Waiting THEN "running"
  ELSE IF q \in pending THEN "review" ELSE "done"

\* A reviewed call ends with what its approver is told, or is lost.
Outcome(q) ==
  IF answer[q] # "review" THEN answer[q]
  ELSE IF approved[q] # NoRequest THEN answer[approved[q]] ELSE "raised"

\* The server acts for a call at most once, although the call may fail after it
\* acted and approvals may be repeated.  A call that was denied, is parked, was
\* lost, or failed otherwise than by the server has not acted; one of which
\* success is told, to its client or its approver, has (mcp/tools.py:137-145).
ActsAsTold ==
  \A q \in Requests :
    /\ acts[q] <= 1
    /\ acts[q] = 1 => Phase(q) = "done" /\ Outcome(q) \in Results
    /\ Phase(q) = "done" /\ Outcome(q) = "success" => acts[q] = 1

\* A call of the server is one control call, although it is parked in a dictionary
\* of the adapter, approved by a request of its own, and may be lost in a restart:
\* the server acts at most once, in the step that ends the call, and never while
\* the call waits or after it was refused (configured.py:70-82, mcp/tools.py:107-145).
ServerCall == INSTANCE ControlledCall WITH
  Calls  <- Requests,
  Atomic <- TRUE,
  phase  <- [q \in Requests |-> Phase(q)],
  result <- [q \in Requests |-> IF Phase(q) = "done" THEN Outcome(q) ELSE "none"],
  acts   <- acts

ImplementsControlledCall == ServerCall!Spec
=============================================================================
