-------------------------- MODULE MCProviderDecision --------------------------
(* Instance of ProviderDecision for TLC.  Both lists of routes are stood for *)
(* by two names each.                                                        *)
EXTENDS ProviderDecision

CONSTANT q1  \* model value

MCNames == {"allow", "review", "deny", "paper", "coding", "general", "x", "y", "z", "blank"}
MCOptionLists ==
  {<<>>, <<"x">>, <<"x", "blank">>, <<"x", "x">>, <<"paper", "x">>,
   <<"review", "deny", "allow">>, <<"x", "y", "z", "paper">>}
MCRoutes == {<<"paper", "coding">>, <<"coding", "general">>}
===============================================================================
