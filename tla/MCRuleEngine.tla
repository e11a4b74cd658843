---------------------------- MODULE MCRuleEngine -----------------------------
(***************************************************************************)
(* An instance of RuleEngine.  The last of the three phases has actions    *)
(* but no conditions.  Rules 0 and 2 belong to the first phase, rule 1 to  *)
(* the second; rules 0 and 2 share a filter condition, and the rules have  *)
(* actions in their own phase and in later ones.                           *)
(***************************************************************************)
EXTENDS RuleEngine, TLC

CONSTANTS q1, q2, q3, path, queryarg, regex0, arg0, arg1

MCCondPhase     == 0 :> 0 @@ 1 :> 1 @@ 2 :> 0
MCActionPhase   == 0 :> <<0, 1>> @@ 1 :> <<1, 2, 1>> @@ 2 :> <<2, 0>>
MCFiltCondIdxs  == 0 :> <<regex0>> @@ 1 :> <<arg1>> @@ 2 :> <<arg0, regex0>>
MCFiltPhase     == regex0 :> 0 @@ arg0 :> 0 @@ arg1 :> 1
MCFiltHolds     == regex0 :> {q1, q3} @@ arg0 :> {q1, q3} @@ arg1 :> {q2, q3}
MCFiltModule    == regex0 :> NoModule @@ arg0 :> queryarg @@ arg1 :> queryarg
MCMatchAllRules == path :> {1} @@ queryarg :> {0}
MCLookup2 ==
  path :> (q1 :> {0, 2} @@ q2 :> {0, 2} @@ q3 :> {2}) @@
  queryarg :> (q1 :> {1} @@ q2 :> {1, 2} @@ q3 :> {1, 2})

=============================================================================
