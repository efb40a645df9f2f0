-------------------------- MODULE MCPlanLifecycle --------------------------
EXTENDS PlanLifecycle

CONSTANTS l1, l2, s1, s2

TwoLockers   == {l1, l2}
OneStarter   == {s1}
TwoStarters  == {s1, s2}
=============================================================================
