---------------------------- MODULE MCAuthoring ----------------------------
EXTENDS Authoring, TLC

CONSTANTS l1, l2, s1

GoalModel == [p \in Plans |-> "g1"]

(* Requests that lock are alike.                                            *)
RequestSymmetry == Permutations(Lockers)

(* Two titles with the same slug, and two without.                           *)
TitleModel == {[d \in Decisions |-> "storage"],
               [d \in Decisions |-> IF d = 1 THEN "storage" ELSE "queue"]}
============================================================================
