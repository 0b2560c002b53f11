------------------------ MODULE PermitAuthorityProofs ------------------------
(***************************************************************************)
(* Theorems about PermitAuthority, for every set of proposals and permit   *)
(* ids, every lifetime and every clock bound.                              *)
(***************************************************************************)
EXTENDS PermitAuthority, TLAPS

\* The inductive invariant: the table is a part of the history of issues, and
\* only permits that left the table were used, once and as issued.  A permit that
\* was refused for good left the table, and unused.
Live == \A id \in DOMAIN issued :
          id \in DOMAIN terms /\ issued[id] = terms[id] /\ uses[id] = <<>>
Unborn == \A id \in PermitId : id \notin DOMAIN terms => uses[id] = <<>>
Refused == \A id \in refused :
             id \in DOMAIN terms /\ id \notin DOMAIN issued /\ uses[id] = <<>>
IInv == TypeOK /\ Live /\ Unborn /\ Refused /\ OneUse /\ AsIssued

\* Removing an entry leaves the other entries as they were.
LEMMA RemoveFact ==
  ASSUME NEW id, Remove(id)
  PROVE  /\ DOMAIN issued' = DOMAIN issued \ {id}
         /\ \A i \in DOMAIN issued' : issued'[i] = issued[i]
BY DEF Remove, Restrict

\* A use appended to an unused permit is its only use.
LEMMA FirstUse ==
  ASSUME NEW S, NEW s \in Seq(S), s = <<>>, NEW u \in S
  PROVE  /\ Append(s, u) \in Seq(S)
         /\ Len(Append(s, u)) = 1
         /\ DOMAIN Append(s, u) = {1}
         /\ Append(s, u)[1] = u
OBVIOUS

\* The fields of a proposal have their types.
LEMMA ProposalType ==
  ASSUME NEW p \in Proposals
  PROVE  p.action \in ActionIds /\ p.tool \in Tools /\ Digest(p) \in Digests
BY ProposalsAssumption DEF Digest, Digests

-----------------------------------------------------------------------------
LEMMA InitIInv == Init => IInv
<1> SUFFICES ASSUME Init PROVE IInv
  OBVIOUS
<1>1. issued = [i \in {} |-> 0] /\ terms = [i \in {} |-> 0]
  BY DEF Init
<1>2. TypeOK
  BY <1>1, TimeAssumption DEF Init, TypeOK, Clock
<1>3. Live /\ Unborn /\ Refused /\ OneUse /\ AsIssued
  BY <1>1 DEF Init, Live, Unborn, Refused, OneUse, AsIssued
<1> QED BY <1>2, <1>3 DEF IInv

\* issue() adds one entry, under an id never seen before, to table and history.
LEMMA IssueIInv ==
  ASSUME IInv, NEW p \in Proposals, NEW d \in Decisions,
         NEW source \in ApprovalSources, NEW id \in PermitId, Issue(p, d, source, id)
  PROVE  IInv'
<1> DEFINE t == TermsOf(p, d, source)
<1>1. t \in Terms
  BY ProposalType, TimeAssumption
  DEF TermsOf, Terms, Decisions, IInv, TypeOK, Clock, Expiries
<1>2. id \notin DOMAIN terms /\ id \notin DOMAIN issued
  BY DEF Issue, FreshIds, IInv, Live
<1>3. TypeOK'
  BY <1>1 DEF Issue, IInv, TypeOK
<1>4. Live'
  BY <1>2 DEF Issue, IInv, TypeOK, Live, Unborn
<1>5. Unborn' /\ OneUse'
  BY DEF Issue, IInv, TypeOK, Unborn, OneUse
<1>6. AsIssued'
  BY <1>2 DEF Issue, IInv, AsIssued, Unborn
<1>7. Refused'
  BY <1>2 DEF Issue, IInv, Refused
<1> QED BY <1>3, <1>4, <1>5, <1>6, <1>7 DEF IInv

\* Dropping an entry and recording it as refused keeps the invariant: what was in
\* the table is unused, and cannot be used any more.
LEMMA RemoveIInv ==
  ASSUME IInv, NEW id \in PermitId, Remove(id), UNCHANGED <<now, terms, uses>>,
         refused' = refused \cup ({id} \cap DOMAIN issued)
  PROVE  IInv'
<1>1. /\ DOMAIN issued' = DOMAIN issued \ {id}
      /\ \A i \in DOMAIN issued' : issued'[i] = issued[i]
  BY RemoveFact
<1>2. TypeOK'
  BY <1>1 DEF IInv, TypeOK, Remove, Restrict
<1>3. Live'
  BY <1>1 DEF IInv, Live
<1>4. Refused'
  BY <1>1 DEF IInv, Live, Refused
<1>5. Unborn' /\ OneUse' /\ AsIssued'
  BY DEF IInv, Unborn, OneUse, AsIssued
<1> QED BY <1>2, <1>3, <1>4, <1>5 DEF IInv

\* consume() drops the entry and records its use; the tuple comparison is what
\* ties the presented proposal and permit to the terms of issue.
LEMMA AcceptIInv ==
  ASSUME IInv, NEW p \in Proposals, NEW permit \in PresentablePermits, Accept(p, permit)
  PROVE  IInv'
<1> DEFINE id == permit.id
           u  == [digest |-> Digest(p), at |-> now]
<1>1. /\ id \in PermitId /\ id \in DOMAIN issued /\ id \in DOMAIN terms
      /\ uses[id] = <<>>
      /\ terms[id].digest = Digest(p) /\ terms[id].expires = permit.expires
  BY DEF Accept, Matches, Expected, PresentablePermits, IInv, Live
<1>2. u \in [digest: Digests, at: Clock]
  BY ProposalType DEF IInv, TypeOK
<1>3. uses[id] \in Seq([digest: Digests, at: Clock])
  BY <1>1 DEF IInv, TypeOK
<1>4. /\ Len(uses'[id]) = 1 /\ DOMAIN uses'[id] = {1} /\ uses'[id][1] = u
      /\ uses'[id] \in Seq([digest: Digests, at: Clock])
      /\ DOMAIN uses' = PermitId
      /\ \A i \in PermitId \ {id} : uses'[i] = uses[i]
  <2>1. uses' = [uses EXCEPT ![id] = Append(uses[id], u)]
    BY DEF Accept
  <2>2. uses \in [PermitId -> Seq([digest: Digests, at: Clock])]
    BY DEF IInv, TypeOK
  <2>3. uses'[id] = Append(uses[id], u)
    BY <1>1, <2>1, <2>2
  <2> HIDE DEF id, u
  <2> QED BY <1>1, <1>2, <1>3, <2>1, <2>2, <2>3, FirstUse
<1>5. /\ DOMAIN issued' = DOMAIN issued \ {id}
      /\ issued' = [i \in DOMAIN issued \ {id} |-> issued[i]]
  BY DEF Accept, Remove, Restrict
<1> HIDE DEF id
<1>6. TypeOK'
  BY <1>1, <1>2, <1>4, <1>5 DEF Accept, IInv, TypeOK
<1>7. Live'
  BY <1>1, <1>4, <1>5 DEF Accept, IInv, TypeOK, Live
<1>8. Unborn' /\ OneUse'
  BY <1>1, <1>4 DEF Accept, IInv, Unborn, OneUse
<1>9. AsIssued'
  <2> SUFFICES ASSUME NEW i \in PermitId, NEW n \in DOMAIN uses'[i]
               PROVE  /\ i \in DOMAIN terms
                      /\ uses'[i][n].digest = terms[i].digest
                      /\ uses'[i][n].at < terms[i].expires
    BY DEF AsIssued, Accept
  <2>1. CASE i = id
    BY <2>1, <1>1, <1>4 DEF Accept
  <2>2. CASE i # id
    BY <2>2, <1>4 DEF IInv, AsIssued
  <2> QED BY <2>1, <2>2
<1>10. Refused'
  BY <1>1, <1>4, <1>5 DEF Accept, IInv, TypeOK, Refused
<1> QED BY <1>6, <1>7, <1>8, <1>9, <1>10 DEF IInv

\* Moving the clock, and losing the table, touch no entry.
LEMMA EnvironmentIInv ==
  ASSUME IInv, SetClock \/ Restart
  PROVE  IInv'
<1>1. CASE SetClock
  BY <1>1 DEF SetClock, IInv, TypeOK, Live, Unborn, Refused, OneUse, AsIssued
<1>2. CASE Restart
  <2>1. issued' = [i \in {} |-> 0]
    BY <1>2 DEF Restart
  <2> QED BY <1>2, <2>1 DEF Restart, IInv, TypeOK, Live, Unborn, Refused, OneUse, AsIssued
<1> QED BY <1>1, <1>2

LEMMA NextIInv == IInv /\ [Next]_vars => IInv'
<1> SUFFICES ASSUME IInv, [Next]_vars PROVE IInv'
  OBVIOUS
<1>1. CASE \E p \in Proposals, d \in Decisions, source \in ApprovalSources, id \in PermitId :
             Issue(p, d, source, id)
  BY <1>1, IssueIInv
<1>2. CASE \E p \in Proposals, permit \in PresentablePermits : Accept(p, permit)
  BY <1>2, AcceptIInv
<1>3. CASE \E p \in Proposals, permit \in PresentablePermits : Expire(p, permit)
  <2> SUFFICES ASSUME NEW p \in Proposals, NEW permit \in PresentablePermits,
                      Expire(p, permit)
               PROVE  IInv'
    BY <1>3
  <2>1. permit.id \in PermitId /\ permit.id \in DOMAIN issued
    BY DEF Expire, Matches, PresentablePermits
  <2>2. refused' = refused \cup ({permit.id} \cap DOMAIN issued)
    BY <2>1 DEF Expire
  <2> QED BY <2>1, <2>2, RemoveIInv DEF Expire
<1>4. CASE \E id \in PermitId : Revoke(id)
  BY <1>4, RemoveIInv DEF Revoke
<1>5. CASE SetClock \/ Restart
  BY <1>5, EnvironmentIInv
<1>6. CASE UNCHANGED vars
  BY <1>6 DEF vars, IInv, TypeOK, Live, Unborn, Refused, OneUse, AsIssued
<1> QED BY <1>1, <1>2, <1>3, <1>4, <1>5, <1>6 DEF Next

LEMMA Invariance == Spec => []IInv
BY InitIInv, NextIInv, PTL DEF Spec

-----------------------------------------------------------------------------
\* The table and its history keep their types (permits.py:17).
THEOREM TypeCorrect == Spec => []TypeOK
<1>1. IInv => TypeOK
  BY DEF IInv
<1> QED BY <1>1, Invariance, PTL

\* Whatever is consumed was issued for that content, had not expired, and is not
\* consumed again (permits.py:65-90).
THEOREM PermitsBindOnce == Spec => []UsedOnceAsIssued
<1>1. IInv => UsedOnceAsIssued
  BY DEF IInv, UsedOnceAsIssued
<1> QED BY <1>1, Invariance, PTL

\* A permit refused as expired, or revoked, is never consumed, wherever the clock
\* is set afterwards (permits.py:87-94).
THEOREM RefusalIsFinal == Spec => []RefusedForGood
<1>1. IInv => RefusedForGood
  BY DEF IInv, Refused, RefusedForGood
<1> QED BY <1>1, Invariance, PTL

-----------------------------------------------------------------------------
(* The authority implements OneUsePermit *)

Bound == [id \in DOMAIN terms |-> terms[id].digest]
UsedFor == [id \in PermitId |-> [i \in DOMAIN uses[id] |-> uses[id][i].digest]]

\* The status a permit has, case by case.
LEMMA StatusFact ==
  ASSUME IInv, NEW id \in PermitId
  PROVE  /\ id \notin DOMAIN terms => Status[id] = "unborn"
         /\ id \in DOMAIN issued => Status[id] = "live"
         /\ Status[id] = "live" => id \in DOMAIN issued
BY DEF Status, IInv, Live

\* A fresh issue is a Mint of the abstract permit.
LEMMA IssueRefines ==
  ASSUME IInv, NEW p \in Proposals, NEW d \in Decisions,
         NEW source \in ApprovalSources, NEW id \in PermitId, Issue(p, d, source, id)
  PROVE  OneUsePermits!Mint(id, Digest(p))
<1>1. Status[id] = "unborn"
  BY StatusFact DEF Issue, FreshIds
<1>2. Status' = [Status EXCEPT ![id] = "live"]
  BY DEF Issue, FreshIds, Status, IInv, Live
<1>3. Bound' = [i \in DOMAIN Bound \cup {id} |-> IF i = id THEN Digest(p) ELSE Bound[i]]
  BY DEF Issue, FreshIds, Bound, TermsOf
<1>4. UNCHANGED UsedFor
  BY DEF Issue, UsedFor
<1> QED BY <1>1, <1>2, <1>3, <1>4 DEF OneUsePermits!Mint, Bound, UsedFor

\* A consume() that returns is the Use of a live permit.
LEMMA AcceptRefines ==
  ASSUME IInv, NEW p \in Proposals, NEW permit \in PresentablePermits, Accept(p, permit)
  PROVE  OneUsePermits!Use(permit.id)
<1> DEFINE id == permit.id
           u  == [digest |-> Digest(p), at |-> now]
<1>1. /\ id \in PermitId /\ id \in DOMAIN issued /\ id \in DOMAIN terms
      /\ uses[id] = <<>> /\ terms[id].digest = Digest(p)
  BY DEF Accept, Matches, Expected, PresentablePermits, IInv, Live
<1>2. DOMAIN issued' = DOMAIN issued \ {id}
  BY DEF Accept, Remove, Restrict
<1>3. /\ uses' = [uses EXCEPT ![id] = Append(uses[id], u)]
      /\ DOMAIN uses = PermitId /\ uses'[id] = <<u>>
      /\ \A i \in PermitId \ {id} : uses'[i] = uses[i]
  BY <1>1 DEF Accept, IInv, TypeOK
<1>4. Status[id] = "live"
  BY <1>1, StatusFact
<1>5. Status' = [Status EXCEPT ![id] = "used"]
  <2>1. ASSUME NEW i \in PermitId \ {id} PROVE Status'[i] = Status[i]
    BY <1>2, <1>3 DEF Status, Accept
  <2>2. Status'[id] = "used"
    BY <1>1, <1>2, <1>3 DEF Status, Accept
  <2> HIDE DEF id
  <2>3. Status = [i \in PermitId |-> Status[i]] /\ Status' = [i \in PermitId |-> Status'[i]]
    BY DEF Status
  <2> QED BY <1>1, <2>1, <2>2, <2>3
<1>6. UNCHANGED Bound
  BY DEF Accept, Bound
<1>7. UsedFor' = [UsedFor EXCEPT ![id] = Append(UsedFor[id], Bound[id])]
  <2>1. ASSUME NEW i \in PermitId \ {id} PROVE UsedFor'[i] = UsedFor[i]
    BY <1>3 DEF UsedFor
  <2>2. UsedFor'[id] = <<Digest(p)>>
    BY <1>1, <1>3 DEF UsedFor
  <2>3. UsedFor[id] = <<>> /\ Bound[id] = Digest(p)
    BY <1>1 DEF UsedFor, Bound
  <2> HIDE DEF id
  <2>4. UsedFor = [i \in PermitId |-> UsedFor[i]] /\ UsedFor' = [i \in PermitId |-> UsedFor'[i]]
    BY DEF UsedFor
  <2>5. Append(UsedFor[id], Bound[id]) = <<Digest(p)>>
    BY <2>3
  <2> QED BY <1>1, <2>1, <2>2, <2>4, <2>5
<1> QED BY <1>4, <1>5, <1>6, <1>7 DEF OneUsePermits!Use, Bound, UsedFor

\* Entries that leave the table unused become void.
LEMMA DropRefines ==
  ASSUME IInv, NEW ids \in SUBSET PermitId, ids \subseteq DOMAIN issued,
         DOMAIN issued' = DOMAIN issued \ ids, UNCHANGED <<terms, uses>>
  PROVE  OneUsePermits!Void(ids)
<1>1. \A id \in ids : Status[id] = "live"
  BY StatusFact
<1>2. Status' = [id \in PermitId |-> IF id \in ids THEN "void" ELSE Status[id]]
  BY DEF Status, IInv, Live
<1>3. UNCHANGED <<Bound, UsedFor>>
  BY DEF Bound, UsedFor
<1> QED BY <1>1, <1>2, <1>3 DEF OneUsePermits!Void, Bound, UsedFor

LEMMA StepRefines == IInv /\ [Next]_vars => [OneUsePermits!Next]_OneUsePermits!vars
<1> SUFFICES ASSUME IInv, [Next]_vars PROVE [OneUsePermits!Next]_OneUsePermits!vars
  OBVIOUS
<1>1. CASE \E p \in Proposals, d \in Decisions, source \in ApprovalSources, id \in PermitId :
             Issue(p, d, source, id)
  BY <1>1, IssueRefines, ProposalType DEF OneUsePermits!Next
<1>2. CASE \E p \in Proposals, permit \in PresentablePermits : Accept(p, permit)
  BY <1>2, AcceptRefines DEF OneUsePermits!Next, PresentablePermits
<1>3. ASSUME NEW id \in PermitId, Remove(id), UNCHANGED <<terms, uses>>
      PROVE  OneUsePermits!Next
  <2>1. DOMAIN issued' = DOMAIN issued \ ({id} \cap DOMAIN issued)
    BY <1>3, RemoveFact
  <2> QED BY <1>3, <2>1, DropRefines DEF OneUsePermits!Next
<1>4. CASE \E p \in Proposals, permit \in PresentablePermits : Expire(p, permit)
  BY <1>3, <1>4 DEF Expire, PresentablePermits
<1>5. CASE \E id \in PermitId : Revoke(id)
  BY <1>3, <1>5 DEF Revoke
<1>6. CASE Restart
  <2>1. DOMAIN issued' = DOMAIN issued \ DOMAIN issued
    BY <1>6 DEF Restart
  <2>2. DOMAIN issued \in SUBSET PermitId /\ UNCHANGED <<terms, uses>>
    BY <1>6 DEF Restart, IInv, TypeOK
  <2> QED BY <2>1, <2>2, DropRefines DEF OneUsePermits!Next
<1>7. CASE SetClock \/ UNCHANGED vars
  <2>1. UNCHANGED <<Status, Bound, UsedFor>>
    BY <1>7 DEF SetClock, vars, Status, Bound, UsedFor
  <2> QED BY <2>1 DEF OneUsePermits!vars, Bound, UsedFor
<1> QED BY <1>1, <1>2, <1>4, <1>5, <1>6, <1>7 DEF Next

LEMMA InitRefines == Init => OneUsePermits!Init
<1> SUFFICES ASSUME Init PROVE OneUsePermits!Init
  OBVIOUS
<1>1. terms = [i \in {} |-> 0] /\ uses = [id \in PermitId |-> <<>>]
  BY DEF Init
<1>2. Status = [id \in PermitId |-> "unborn"]
  BY <1>1 DEF Status
<1>3. Bound = [id \in {} |-> CHOOSE c \in Digests : TRUE]
  BY <1>1 DEF Bound
<1>4. UsedFor = [id \in PermitId |-> <<>>]
  BY <1>1 DEF UsedFor
<1> QED BY <1>2, <1>3, <1>4 DEF OneUsePermits!Init, Bound, UsedFor

\* The table implements the one-use permit: every behaviour of the authority,
\* with clock corrections, altered permits and restarts, is one of the abstract
\* permit (control/permits.py).
THEOREM Refinement == Spec => ImplementsOneUsePermit
BY Invariance, InitRefines, StepRefines, PTL DEF Spec, OneUsePermits!Spec, ImplementsOneUsePermit
=============================================================================
