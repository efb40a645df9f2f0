----------------------------- MODULE Lifecycle -----------------------------
(***************************************************************************)
(* The states of runs, tasks and attempts and the moves between them that  *)
(* the domain permits: AtlasFlow.Domain/Execution/StateMachine.cs.  The    *)
(* Python runtime carries the same three tables                            *)
(* (reference/python-backend/atlas_flow/execution/models.py).              *)
(***************************************************************************)

RunStates == {"CREATED", "PLANNING", "READY", "RUNNING", "VERIFYING",
              "REVIEWING", "COMPLETED", "CANCELLED", "FAILED", "BLOCKED"}

TaskStates == {"PLANNED", "READY", "RUNNING", "SUCCEEDED", "FAILED",
               "BLOCKED", "CANCELLED", "SUPERSEDED"}

AttemptStates == {"CREATED", "STARTING", "RUNNING", "COMPLETED", "FAILED",
                  "CANCELLED"}

\* A state with no row in its table is one that nothing leaves.
RunMoves ==
  [s \in RunStates |->
    CASE s = "CREATED"   -> {"PLANNING", "CANCELLED"}
      [] s = "PLANNING"  -> {"READY", "FAILED", "CANCELLED"}
      [] s = "READY"     -> {"RUNNING", "CANCELLED"}
      [] s = "RUNNING"   -> {"VERIFYING", "BLOCKED", "FAILED", "CANCELLED"}
      [] s = "VERIFYING" -> {"REVIEWING", "FAILED"}
      [] s = "REVIEWING" -> {"COMPLETED", "FAILED"}
      [] OTHER           -> {}]

TaskMoves ==
  [s \in TaskStates |->
    CASE s = "PLANNED"   -> {"READY", "BLOCKED", "CANCELLED"}
      [] s = "BLOCKED"   -> {"READY", "CANCELLED"}
      [] s = "READY"     -> {"RUNNING", "CANCELLED"}
      [] s = "RUNNING"   -> {"SUCCEEDED", "FAILED", "CANCELLED"}
      [] s = "SUCCEEDED" -> {"SUPERSEDED"}
      [] s = "FAILED"    -> {"READY", "CANCELLED"}
      [] OTHER           -> {}]

AttemptMoves ==
  [s \in AttemptStates |->
    CASE s = "CREATED"  -> {"STARTING", "CANCELLED"}
      [] s = "STARTING" -> {"RUNNING", "FAILED", "CANCELLED"}
      [] s = "RUNNING"  -> {"COMPLETED", "FAILED", "CANCELLED"}
      [] OTHER          -> {}]

\* IsTerminal.  A FAILED task is not terminal: it may become READY again.
RunTerminal     == {"COMPLETED", "CANCELLED", "FAILED"}
TaskTerminal    == {"SUCCEEDED", "CANCELLED", "SUPERSEDED"}
AttemptTerminal == {"COMPLETED", "FAILED", "CANCELLED"}
=============================================================================
