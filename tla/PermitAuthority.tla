--------------------------- MODULE PermitAuthority ---------------------------
(***************************************************************************)
(* ExecutionPermitAuthority (control/permits.py): the in-memory table of   *)
(* one-use permits bound to the content of an action.                      *)
(*                                                                         *)
(* The caller of issue() supplies the proposal, the decision and the       *)
(* approval source; the caller of consume() supplies a proposal and a      *)
(* permit object.  ExecutionPermit is a mutable pydantic model, so what is *)
(* presented may be an altered copy of what was issued.  A call that       *)
(* raises before it touches the table changes nothing: it is a stuttering  *)
(* step.  The expiry is read from the wall clock, which may be set back.   *)
(***************************************************************************)
EXTENDS Naturals, Sequences, Functions

CONSTANTS ActionIds, Tools, Bodies,  \* the fields of a proposal; a body is
                                     \* everything beside its id and tool
          Proposals,  \* the proposals that can be made
          PermitId,   \* uuid4 values
          TTL,        \* lifetime of a permit, in clock units
          MaxTime     \* bound: the clock stays within 0..MaxTime

ASSUME ProposalsAssumption ==
  Proposals \subseteq [action: ActionIds, tool: Tools, body: Bodies]
ASSUME TimeAssumption == TTL \in Nat \ {0} /\ MaxTime \in Nat

VARIABLES issued,  \* the _issued table: permit id -> the terms it is bound to
          now,     \* datetime.now(timezone.utc)
          terms,   \* history: the terms of every permit ever issued
          uses,    \* history: per permit, the calls of consume() that returned
          refused  \* history: the permits refused as expired, or revoked

vars == <<issued, now, terms, uses, refused>>

-----------------------------------------------------------------------------
(* Data *)

\* SHA-256 of the canonical JSON of all fields: two proposals have the same
\* digest exactly when they have the same fields.
Digest(p) == <<"sha256", p.action, p.tool, p.body>>

Digests == {<<"sha256", a, t, b>> : a \in ActionIds, t \in Tools, b \in Bodies}
Outcomes == {"allow", "review", "deny"}
DecisionSources == {"jev", "policy", "confidence", "caller"}
ApprovalSources == {"jev", "policy", "caller"}
Clock == 0..MaxTime
Expiries == 0..(MaxTime + TTL)

Decisions ==
  [action: ActionIds, digest: Digests, outcome: Outcomes, source: DecisionSources]

Terms == [action: ActionIds, digest: Digests, tool: Tools, decision: Outcomes,
          source: ApprovalSources, expires: Expiries]

PresentablePermits ==
  [id: PermitId, approved: BOOLEAN, action: ActionIds, digest: Digests,
   tool: Tools, decision: Outcomes, source: ApprovalSources,
   expires: Expiries]

-----------------------------------------------------------------------------
(* What issue() and consume() require *)

\* The grounds on which a permit may be issued: (outcome, decision source,
\* approval source).
Grounds == {<<"allow", "jev", "jev">>, <<"allow", "policy", "policy">>,
            <<"review", "caller", "caller">>}

MayIssue(p, d, source) ==
  /\ d.action = p.action
  /\ d.digest = Digest(p)
  /\ <<d.outcome, d.source, source>> \in Grounds

FreshIds == PermitId \ DOMAIN terms

\* Faulty variant: outcome and approval source are swapped.
SwappedTermsOf(p, d, source) ==
  [action |-> p.action, digest |-> Digest(p), tool |-> p.tool,
   decision |-> source, source |-> d.outcome, expires |-> now + TTL]

TermsOf(p, d, source) ==
  [action |-> p.action, digest |-> Digest(p), tool |-> p.tool,
   decision |-> d.outcome, source |-> source, expires |-> now + TTL]

\* The tuple consume() compares the table entry with.
Expected(p, permit) ==
  [action |-> p.action, digest |-> Digest(p), tool |-> p.tool,
   decision |-> permit.decision, source |-> permit.source,
   expires |-> permit.expires]

\* Faulty variant: the presented permit is believed, the table entry not compared.
MatchesUnchecked(p, permit) ==
  /\ permit.approved
  /\ permit.id \in DOMAIN issued
  /\ permit.action = p.action
  /\ permit.tool = p.tool
  /\ permit.digest = Digest(p)

Matches(p, permit) ==
  /\ permit.approved
  /\ permit.id \in DOMAIN issued
  /\ issued[permit.id] = Expected(p, permit)
  /\ permit.action = p.action
  /\ permit.tool = p.tool
  /\ permit.digest = Digest(p)

Remove(id) == issued' = Restrict(issued, DOMAIN issued \ {id})

-----------------------------------------------------------------------------
Init ==
  /\ issued = << >>
  /\ now = 0
  /\ terms = << >>
  /\ uses = [id \in PermitId |-> <<>>]
  /\ refused = {}

Issue(p, d, source, id) ==
  /\ MayIssue(p, d, source)
  /\ id \in FreshIds
  /\ issued' = [i \in DOMAIN issued \cup {id} |->
                  IF i = id THEN TermsOf(p, d, source) ELSE issued[i]]
  /\ terms' = [i \in DOMAIN terms \cup {id} |->
                  IF i = id THEN TermsOf(p, d, source) ELSE terms[i]]
  /\ UNCHANGED <<now, uses, refused>>

\* Faulty variant: the entry stays in the table.
AcceptAndKeep(p, permit) ==
  /\ Matches(p, permit)
  /\ now < permit.expires
  /\ uses' = [uses EXCEPT ![permit.id] = Append(@, [digest |-> Digest(p), at |-> now])]
  /\ UNCHANGED <<issued, now, terms, refused>>

\* consume() returns: the caller goes on to act.
Accept(p, permit) ==
  /\ Matches(p, permit)
  /\ now < permit.expires
  /\ Remove(permit.id)
  /\ uses' = [uses EXCEPT ![permit.id] = Append(@, [digest |-> Digest(p), at |-> now])]
  /\ UNCHANGED <<now, terms, refused>>

\* Faulty variant: an expired permit is refused and stays in the table.
ExpireAndKeep(p, permit) ==
  /\ Matches(p, permit)
  /\ now >= permit.expires
  /\ refused' = refused \cup {permit.id}
  /\ UNCHANGED <<issued, now, terms, uses>>

\* consume() raises, and drops the permit: its time is over.
Expire(p, permit) ==
  /\ Matches(p, permit)
  /\ now >= permit.expires
  /\ Remove(permit.id)
  /\ refused' = refused \cup {permit.id}
  /\ UNCHANGED <<now, terms, uses>>

Revoke(id) ==
  /\ Remove(id)
  /\ refused' = refused \cup ({id} \cap DOMAIN issued)
  /\ UNCHANGED <<now, terms, uses>>

\* Time passes, or the wall clock is corrected, possibly backwards.
SetClock ==
  /\ now' \in Clock
  /\ UNCHANGED <<issued, terms, uses, refused>>

\* The table lives in memory: a restarted process starts with an empty one.
Restart ==
  /\ issued' = << >>
  /\ UNCHANGED <<now, terms, uses, refused>>

Next ==
  \/ \E p \in Proposals, d \in Decisions, source \in ApprovalSources, id \in PermitId :
       Issue(p, d, source, id)
  \/ \E p \in Proposals, permit \in PresentablePermits :
       Accept(p, permit) \/ Expire(p, permit)
  \/ \E id \in PermitId : Revoke(id)
  \/ SetClock
  \/ Restart

Spec == Init /\ [][Next]_vars

-----------------------------------------------------------------------------
(* Properties *)

\* Type invariant.
TypeOK ==
  /\ DOMAIN issued \subseteq PermitId
  /\ issued \in [DOMAIN issued -> Terms]
  /\ DOMAIN terms \subseteq PermitId
  /\ terms \in [DOMAIN terms -> Terms]
  /\ now \in Clock
  /\ uses \in [PermitId -> Seq([digest: Digests, at: Clock])]
  /\ refused \subseteq PermitId

OneUse == \A id \in PermitId : Len(uses[id]) <= 1

AsIssued ==
  \A id \in PermitId : \A i \in DOMAIN uses[id] :
    /\ id \in DOMAIN terms
    /\ uses[id][i].digest = terms[id].digest
    /\ uses[id][i].at < terms[id].expires

\* A permit is consumed at most once, for exactly the action content it was issued
\* for, before the expiry it was issued with: whatever altered copies of it are
\* presented, with whatever clock corrections and restarts in between
\* (permits.py:65-90).
UsedOnceAsIssued == OneUse /\ AsIssued

\* A refusal is final: a permit that consume() once refused as expired, or that was
\* revoked, is never consumed, although the clock may be set back to before its
\* expiry (permits.py:87-94).  Nothing is said of an expired permit that was never
\* presented: with the clock set back it is in time again.
RefusedForGood == \A id \in refused : uses[id] = <<>>

\* The authority implements the one-use permit: the table and its history map
\* to the status of each permit.
Status ==
  [id \in PermitId |->
     IF id \notin DOMAIN terms THEN "unborn"
     ELSE IF id \in DOMAIN issued THEN "live"
     ELSE IF uses[id] = <<>> THEN "void" ELSE "used"]

OneUsePermits ==
  INSTANCE OneUsePermit WITH
    Content <- Digests,
    status  <- Status,
    boundTo <- [id \in DOMAIN terms |-> terms[id].digest],
    uses    <- [id \in PermitId |-> [i \in DOMAIN uses[id] |-> uses[id][i].digest]]

ImplementsOneUsePermit == OneUsePermits!Spec
=============================================================================
