----------------------------- MODULE MCGoalRun -----------------------------
\* Four tasks: b may not run beside a, c waits for a, a and d are isolated and
\* d is reviewed.  The pair is for what is only looked at by hand.
EXTENDS GoalRun

CONSTANTS a, b, c, d

Four     == <<a, b, c, d>>
FourDeps == [t \in {a, b, c, d} |-> IF t = c THEN {a} ELSE {}]
ClashAB  == {{a, b}}
AandD    == {a, d}
JustD    == {d}

Pair     == <<a, b>>
PairDeps == [t \in {a, b} |-> {}]
NoClash  == {}
NoTask   == {}
JustA    == {a}
JustB    == {b}
=============================================================================
