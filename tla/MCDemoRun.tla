------------------------------- MODULE MCDemoRun -------------------------------
(* Instance of DemoRun for TLC. *)
EXTENDS DemoRun

CONSTANTS q1, q2, q3, r1, r2, a1, a2, a3, t1, t2  \* model values

Symmetry == Permutations(Requests) \cup Permutations(Runs) \cup Permutations(Actions)
              \cup Permutations(Tokens)
==============================================================================
