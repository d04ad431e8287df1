------------------------------ MODULE MCIntake ------------------------------
(* The instance of Intake that TLC checks: a feature branch and a dependency *)
(* bot's branch two levels deep, under filters that separate the rules.      *)
EXTENDS Intake

Feature == <<"feat", "login">>
Bot == <<"bot", "npm", "lodash">>

Filter(prOnly, deny, allow, labels) ==
    [prOnly |-> prOnly, deny |-> deny, allow |-> allow, labels |-> labels]

MCBranches == {Feature, Bot}
MCPolicies ==
    { Filter(FALSE, {}, {}, FALSE),
      Filter(TRUE, {}, {}, TRUE),
      Filter(FALSE, {<<"bot", "**">>}, {}, TRUE),
      Filter(FALSE, {<<"bot", "*">>, <<"feat">>}, {<<"**">>}, FALSE),
      Filter(FALSE, {<<"[">>}, {<<"feat", "*">>}, FALSE) }
=============================================================================
