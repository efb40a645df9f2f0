---------------------------- MODULE MCGoalFiles ----------------------------
EXTENDS GoalFiles
CONSTANTS g1, g2, t1

RequiredModel == [g \in Goals |-> IF g = g1 THEN {"tests"} ELSE {"review"}]
DependsModel == {<<g2, g1>>}
============================================================================
