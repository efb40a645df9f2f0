------------------------------ MODULE Dispatch ------------------------------
(***************************************************************************)
(* A goal's plan is validated and then carried out: GoalRunner.execute takes    *)
(* the tasks whose dependencies have succeeded, and _run_task routes each of     *)
(* them.  The graph of TaskGraph and the router of Routing, one task at a time   *)
(* (max_parallel_tasks = 1).                                                 *)
(***************************************************************************)
EXTENDS TaskGraph, Routing

CONSTANTS RoleOf, \* the role of a task
          Risky,  \* the tasks of high risk
          MaxBegun \* bound on tasks begun

ASSUME RoleAssumption == RoleOf \in [Ids -> DOMAIN Preference] /\ Risky \subseteq Ids
                         /\ MaxBegun \in Nat

VARIABLES succeeded, failed,  \* of this run, which ends with its application
          begun

dvars == <<succeeded, failed, begun>>
vars == <<gvars, rvars, dvars>>

TypeOK ==
  /\ GTypeOK /\ RTypeOK
  /\ succeeded \subseteq TaskIds /\ failed \subseteq TaskIds \ succeeded
  /\ job.task \in TaskIds \cup {None} /\ begun \in 0..MaxBegun

Init == GInit /\ RInit /\ succeeded = {} /\ failed = {} /\ begun = 0

(* ready_tasks over the materialised plan.                                   *)
CanBegin(t) == t \notin succeeded \cup failed /\ Adj(t) \subseteq succeeded

(* The calls of the planner do not wait for anything: nothing comes between.     *)
Planning == GNext /\ UNCHANGED <<rvars, dvars>>

Begin ==
  /\ at = "valid" /\ begun < MaxBegun /\ begun' = begun + 1
  /\ \E t \in TaskIds : CanBegin(t) /\ Route(t, RoleOf[t], t \in Risky)
  /\ UNCHANGED <<gvars, succeeded, failed>>

(* A task has succeeded when its work, and the review it needs, are accepted.    *)
Carry ==
  /\ DrawUp \/ Observe \/ Record
  /\ IF job.at # "idle" /\ job'.at = "idle"
     THEN IF job.ok /\ stored' # stored
          THEN succeeded' = succeeded \cup {job.task} /\ UNCHANGED failed
          ELSE failed' = failed \cup {job.task} /\ UNCHANGED succeeded
     ELSE UNCHANGED <<succeeded, failed>>
  /\ UNCHANGED <<gvars, begun>>

Application ==
  /\ at = "valid" /\ (Boot \/ Probed \/ ProbeDies \/ Stop)
  /\ IF up' THEN UNCHANGED <<succeeded, failed>> ELSE succeeded' = {} /\ failed' = {}
  /\ UNCHANGED <<gvars, begun>>

Next == Planning \/ Begin \/ Carry \/ Application
Spec == Init /\ [][Next]_vars /\ WF_vars(Planning) /\ WF_vars(Begin) /\ WF_vars(Carry)

----------------------------------------------------------------------------
(* A plan validate_dag accepts never leaves its run without a task to begin:     *)
(* as long as nothing failed, something is ready or all of it is done.          *)
NeverStranded ==
  at = "valid" /\ failed = {} /\ job.at = "idle" /\ succeeded # TaskIds
    => \E t \in TaskIds : CanBegin(t)

(* The algorithms over a plan agree with what they stand for, and with the run    *)
(* that is carried out from it.                                             *)
PlanIsSound == /\ AcceptedHasOrder /\ RefusedForCause /\ OrderIsExact
               /\ OverlapIsReported /\ BatchesAreDisjoint /\ NeverStranded

(* The router knows what the registry said, what was tried counts, and each        *)
(* attempt and its review go to a model of their own.                         *)
RoutingIsSound == TypeOK /\ RouterFollowsRegistry /\ NothingForgotten /\ TriedOnce
                  /\ IndependentReview

(* A task that was routed is carried to its end: falling back comes to one,       *)
(* whatever is reachable, unless the application stops.                      *)
TaskSettles == job.at # "idle" ~> job.at = "idle"
============================================================================
