---------------------------- MODULE MCAgentRunner ----------------------------
(* Instances of AgentRunner for TLC. *)
EXTENDS AgentRunner, TLC

CONSTANTS q1, q2, q3, r1, r2, a1, a2, a3  \* model values

\* Requests, run ids and action ids are interchangeable.
Symmetry == Permutations(Requests) \cup Permutations(Runs) \cup Permutations(Actions)
=============================================================================
