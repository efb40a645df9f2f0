---------------------------- MODULE MCRunEngine ----------------------------
\* Three tasks, one waiting for another: a pass with two ready tasks, a pass
\* that follows it, and a task that a failure leaves behind.
EXTENDS RunEngine

CONSTANTS a, b, c, c1, c2, eng

MCTasks    == {a, b, c}
MCDeps     == [t \in MCTasks |-> IF t = b THEN {a} ELSE {}]
TwoCallers == {c1, c2}
OneCaller  == {c1}
=============================================================================
