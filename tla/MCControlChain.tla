--------------------------- MODULE MCControlChain ---------------------------
(* Instances of ControlChain for TLC. *)
EXTENDS ControlChain, TLC

CONSTANTS c1, c2  \* model values

\* One writing action, its copy with other content, and a second action that
\* writes to the same path.
Writers ==
  {[action |-> 1, tool |-> "write_file", body |-> [path |-> "f", content |-> "x"]],
   [action |-> 1, tool |-> "write_file", body |-> [path |-> "f", content |-> "y"]],
   [action |-> 2, tool |-> "write_file", body |-> [path |-> "f", content |-> "x"]]}

\* The calls are interchangeable.
Symmetry == Permutations(Calls)

\* Every tool on one path.
AllTools ==
  {[action |-> 1, tool |-> t, body |-> [path |-> "f", content |-> "x"]] : t \in Tools}

Everything == Writers \cup AllTools
=============================================================================
