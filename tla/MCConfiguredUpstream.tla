------------------------- MODULE MCConfiguredUpstream -------------------------
(* Instance of ConfiguredUpstream for TLC. *)
EXTENDS ConfiguredUpstream

CONSTANTS q1, q2, q3  \* model values

\* One tool of each rule, and one that is not configured.
MCRules == [read |-> "allow", send |-> "review", wipe |-> "deny"]
MCTools == DOMAIN MCRules \cup {"other"}

==============================================================================
