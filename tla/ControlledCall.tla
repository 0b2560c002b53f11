---------------------------- MODULE ControlledCall ----------------------------
(***************************************************************************)
(* What one control call promises its caller, with nothing of policy,      *)
(* provider, permit or tool: it acts at most once, only in the step that   *)
(* ends it with success or error, never while it is under review, and once *)
(* its caller approved it never comes back for another approval.           *)
(***************************************************************************)
EXTENDS Naturals

CONSTANTS Calls,
          Atomic  \* is an approval one step with what it leads to?

VARIABLES phase,  \* call -> "new", "running", "review", "approved" or "done"
          result, \* call -> its result once done
          acts    \* call -> how often it acted

vars == <<phase, result, acts>>

Init ==
  /\ phase = [c \in Calls |-> "new"]
  /\ result = [c \in Calls |-> "none"]
  /\ acts = [c \in Calls |-> 0]

Go(c, from, to) ==
  /\ phase[c] \in from
  /\ phase' = [phase EXCEPT ![c] = to]

Start(c) == Go(c, {"new"}, "running") /\ UNCHANGED <<result, acts>>

\* The call comes back for approval: nothing was done.
Hold(c) == Go(c, {"new", "running"}, "review") /\ UNCHANGED <<result, acts>>

Approve(c) == Go(c, {"review"}, "approved") /\ UNCHANGED <<result, acts>>

\* The call ends without having acted.
Refuse(c, r) ==
  /\ Go(c, {"new", "running", "review", "approved"}, "done")
  /\ r \in {"blocked", "raised"}
  /\ result' = [result EXCEPT ![c] = r]
  /\ UNCHANGED acts

\* The call ends having run its tool, which acted once or not at all.
Execute(c, r) ==
  /\ Go(c, {"running", "approved"} \cup (IF Atomic THEN {"review"} ELSE {}), "done")
  /\ r \in {"success", "error"}
  /\ result' = [result EXCEPT ![c] = r]
  /\ \E n \in {0, 1} : acts' = [acts EXCEPT ![c] = @ + n]

\* The callers' process ends, and every call in flight or under review with it.
Lose ==
  /\ phase' = [c \in Calls |-> IF phase[c] = "new" THEN "new" ELSE "done"]
  /\ result' = [c \in Calls |-> IF phase[c] \in {"new", "done"} THEN result[c] ELSE "raised"]
  /\ UNCHANGED acts

Next ==
  \/ Lose
  \/ \E c \in Calls :
    \/ Start(c) \/ Hold(c) \/ Approve(c)
    \/ \E r \in {"blocked", "raised"} : Refuse(c, r)
    \/ \E r \in {"success", "error"} : Execute(c, r)

Spec == Init /\ [][Next]_vars
=============================================================================
