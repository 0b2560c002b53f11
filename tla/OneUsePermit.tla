---------------------------- MODULE OneUsePermit ----------------------------
(***************************************************************************)
(* What an execution permit promises, with nothing of how the authority    *)
(* keeps it: a permit is minted for one action content, is used at most    *)
(* once and only for that content, and once used or void it stays so.      *)
(***************************************************************************)
EXTENDS Sequences

CONSTANTS PermitId,  \* names of permits
          Content    \* digests of action contents

VARIABLES status,    \* permit -> "unborn", "live", "used" or "void"
          boundTo,   \* permits minted so far -> the content they stand for
          uses       \* permit -> the contents it was used for, in order

vars == <<status, boundTo, uses>>

Init ==
  /\ status = [id \in PermitId |-> "unborn"]
  /\ boundTo = [id \in {} |-> CHOOSE c \in Content : TRUE]
  /\ uses = [id \in PermitId |-> <<>>]

Mint(id, c) ==
  /\ status[id] = "unborn"
  /\ status' = [status EXCEPT ![id] = "live"]
  /\ boundTo' = [i \in DOMAIN boundTo \cup {id} |-> IF i = id THEN c ELSE boundTo[i]]
  /\ UNCHANGED uses

Use(id) ==
  /\ status[id] = "live"
  /\ status' = [status EXCEPT ![id] = "used"]
  /\ uses' = [uses EXCEPT ![id] = Append(@, boundTo[id])]
  /\ UNCHANGED boundTo

\* One permit is refused for good, or all live ones are lost together.
Void(ids) ==
  /\ \A id \in ids : status[id] = "live"
  /\ status' = [id \in PermitId |-> IF id \in ids THEN "void" ELSE status[id]]
  /\ UNCHANGED <<boundTo, uses>>

Next ==
  \/ \E id \in PermitId, c \in Content : Mint(id, c)
  \/ \E id \in PermitId : Use(id)
  \/ \E ids \in SUBSET PermitId : Void(ids)

Spec == Init /\ [][Next]_vars
=============================================================================
