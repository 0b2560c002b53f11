-------------------------- MODULE ControlledCallProofs --------------------------
(***************************************************************************)
(* What ControlledCall promises, drawn out once: every component that      *)
(* implements it (ControlChain, AgentRunner, ConfiguredUpstream) has it.   *)
(***************************************************************************)
EXTENDS ControlledCall, TLAPS

\* What a caller may conclude from where a call stands: it acted at most once, and
\* not at all unless it ended with success or error; it is over exactly when it has
\* a result.
Kept(c) ==
  /\ phase[c] \in {"new", "running", "review", "approved", "done"}
  /\ result[c] \in {"none", "success", "error", "blocked", "raised"}
  /\ acts[c] \in {0, 1}
  /\ phase[c] = "done" <=> result[c] # "none"
  /\ acts[c] = 1 => result[c] \in {"success", "error"}

Functional ==
  /\ phase = [c \in Calls |-> phase[c]]
  /\ result = [c \in Calls |-> result[c]]
  /\ acts = [c \in Calls |-> acts[c]]

Promise == Functional /\ \A c \in Calls : Kept(c)

\* A call that is over stays as it ended; one that waits for approval, or has it,
\* goes on only from there.
Onward(c) ==
  /\ phase[c] = "done" => UNCHANGED <<phase[c], result[c], acts[c]>>
  /\ phase[c] = "review" => phase'[c] \in {"review", "approved", "done"}
  /\ phase[c] = "approved" => phase'[c] \in {"approved", "done"}
  /\ phase'[c] = "new" => phase[c] = "new"

\* No step acts for a call and leaves it open.
ActsAtItsEnd(c) == acts'[c] # acts[c] => phase[c] # "done" /\ phase'[c] = "done"

LEMMA PromiseInit == Init => Promise
BY DEF Init, Promise, Functional, Kept

\* A step of one call leaves every other as it is.
LEMMA PromiseStep ==
  ASSUME Promise, [Next]_vars
  PROVE  Promise' /\ \A c \in Calls : Onward(c) /\ ActsAtItsEnd(c)
<1>0. /\ phase = [c \in Calls |-> phase[c]] /\ result = [c \in Calls |-> result[c]]
      /\ acts = [c \in Calls |-> acts[c]] /\ \A c \in Calls : Kept(c)
  BY DEF Promise, Functional
<1>1. CASE UNCHANGED vars
  BY <1>0, <1>1 DEF vars, Promise, Functional, Kept, Onward, ActsAtItsEnd
<1>2. CASE Lose
  BY <1>0, <1>2 DEF Lose, Promise, Functional, Kept, Onward, ActsAtItsEnd
<1>3. ASSUME NEW c \in Calls, Start(c) \/ Hold(c) \/ Approve(c)
      PROVE  Promise' /\ \A d \in Calls : Onward(d) /\ ActsAtItsEnd(d)
  BY <1>0, <1>3
  DEF Start, Hold, Approve, Go, Promise, Functional, Kept, Onward, ActsAtItsEnd
<1>4. ASSUME NEW c \in Calls, NEW r \in {"blocked", "raised"}, Refuse(c, r)
      PROVE  Promise' /\ \A d \in Calls : Onward(d) /\ ActsAtItsEnd(d)
  BY <1>0, <1>4 DEF Refuse, Go, Promise, Functional, Kept, Onward, ActsAtItsEnd
<1>5. ASSUME NEW c \in Calls, NEW r \in {"success", "error"}, Execute(c, r)
      PROVE  Promise' /\ \A d \in Calls : Onward(d) /\ ActsAtItsEnd(d)
  <2>1. phase[c] # "done" /\ phase' = [phase EXCEPT ![c] = "done"]
    BY <1>5 DEF Execute, Go
  <2>2. acts[c] = 0
    BY <1>0, <2>1 DEF Kept
  <2>3. PICK n \in {0, 1} : acts' = [acts EXCEPT ![c] = acts[c] + n]
    BY <1>5 DEF Execute
  <2>5. acts[c] + n \in {0, 1}
    BY <2>2
  <2>4. result' = [result EXCEPT ![c] = r]
    BY <1>5 DEF Execute
  <2> QED
    BY <1>0, <2>1, <2>3, <2>4, <2>5 DEF Promise, Functional, Kept, Onward, ActsAtItsEnd
<1> QED BY <1>1, <1>2, <1>3, <1>4, <1>5 DEF Next

\* A control call acts at most once and only if it ends with success or error.
THEOREM Promised == Spec => []Promise
<1>1. Promise /\ [Next]_vars => Promise'
  BY PromiseStep
<1> QED BY PromiseInit, <1>1, PTL DEF Spec

\* A control call that is over stays as it ended, and acts in the step that ends it.
THEOREM GoesOnward == Spec => [][\A c \in Calls : Onward(c) /\ ActsAtItsEnd(c)]_vars
<1>1. Promise /\ [Next]_vars => [\A c \in Calls : Onward(c) /\ ActsAtItsEnd(c)]_vars
  BY PromiseStep
<1> QED BY <1>1, Promised, PTL DEF Spec
=============================================================================
