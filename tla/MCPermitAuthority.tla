-------------------------- MODULE MCPermitAuthority --------------------------
(* Instance of PermitAuthority for TLC. *)
EXTENDS PermitAuthority

CONSTANTS a1, a2, write, x, y  \* model values

\* One proposal, the same action with its arguments altered, and the same
\* arguments under another action id.
MCProposals ==
  {[action |-> a1, tool |-> write, body |-> x], [action |-> a1, tool |-> write, body |-> y],
   [action |-> a2, tool |-> write, body |-> x]}
=============================================================================
