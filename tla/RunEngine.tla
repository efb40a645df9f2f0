----------------------------- MODULE RunEngine -----------------------------
(***************************************************************************)
(* One run of a locked plan in the .NET runtime: RunService.StartAsync     *)
(* writes the run row and launches a background engine; RunEngine walks    *)
(* the task graph through Scheduler and RunRepository; CancelAsync either  *)
(* pulls the engine's token or, when no engine is registered, closes the   *)
(* run by itself.                                                          *)
(*                                                                         *)
(* Every action is one database call (the database gate makes each call,   *)
(* and each row-plus-event transaction, atomic) or one purely local step.  *)
(* run and task are the rows in the database.  RunRepository checks a move *)
(* against the object in the caller's memory, never against the row, so    *)
(* the guards here read what the process last loaded, never run or task.   *)
(*                                                                         *)
(* Any database call may fail, and then it has written nothing: the        *)
(* engine's (CallFails, and Throws when its token is cancelled) and those  *)
(* of CancelAsync (CloseFails).  Nothing catches the exception before      *)
(* StartInBackground, which drops it.                                      *)
(***************************************************************************)
EXTENDS Lifecycle

CONSTANTS
  Tasks,      \* the nodes of the plan
  Deps,       \* Deps[t]: the tasks t waits for
  Callers,    \* the concurrent callers of CancelAsync
  Engine      \* the background engine, as a process that may close the run

\* TaskGraph.Validate refused unknown dependencies and cycles when the plan was
\* drawn; every set of tasks has one that waits for nothing inside the set.
ASSUME DepsAssumption ==
  /\ Deps \in [Tasks -> SUBSET Tasks]
  /\ \A S \in SUBSET Tasks : S # {} => \E t \in S : Deps[t] \cap S = {}

ASSUME ProcessAssumption == Engine \notin Callers

VARIABLES
  run,        \* the run's row
  task,       \* the tasks' rows
  pc,         \* where the engine is
  ready,      \* the tasks left in the engine's foreach
  cur,        \* the task RunOneAsync holds: at most one
  to,         \* the state the engine has decided to write next
  token,      \* the engine's token has been cancelled
  inFlight,   \* the run has an entry in RunService._inFlight
  cpc,        \* where each process is inside CancelAsync / CancelRunAsync
  snap,       \* the open tasks it listed and has not closed yet
  started,    \* history: tasks handed to the runner
  succeeded,  \* history: tasks whose success was recorded
  raced       \* history: a caller was closing the run while the engine lived

db     == <<run, task>>
engine == <<pc, ready, cur, to, token, inFlight>>
closer == <<cpc, snap>>
work   == <<started, succeeded, raced>>
vars   == <<run, task, pc, ready, cur, to, token, inFlight, cpc, snap,
            started, succeeded, raced>>

Closers == Callers \cup {Engine}

\* The engine's program points that exist while it runs, and all of them.
LivePoints == {"start", "schedule", "advance", "loop", "list", "each", "ready",
               "run", "close", "evaluate", "settle", "closing", "exit", "unwind"}
Points     == LivePoints \cup {"idle", "saved", "orphaned", "exited", "dead", "crashed"}
Live       == pc \in LivePoints

\* Points whose next database call is given the engine's token.
TokenPoint == \/ pc \in {"start", "schedule", "advance", "list", "ready",
                         "evaluate", "settle"}
              \/ pc = "each" /\ ready # {}
              \/ pc = "close" /\ to # "CANCELLED"

\* p is past the lookup and the read of CancelAsync and may write rows.
InCancelRun(p) == cpc[p] \in {"list", "cancel", "finish"}

\* Mutants: CancelRunAsync overlooks what never became ready; it leaves a
\* RUNNING run alone.
OpenOnceReady   == {"BLOCKED", "READY", "RUNNING"}
ClosableUnlessRunning == {"PLANNING", "READY"}

Open     == {"PLANNED", "BLOCKED", "READY", "RUNNING"}
Closable == {"PLANNING", "READY", "RUNNING"}
Settled  == {"VERIFYING", "FAILED", "CANCELLED"}

\* Mutants: a dependency that ended is as good as one that succeeded; a failed
\* task is tried again.
ReadyAfterAnyEnd ==
  {t \in Tasks : /\ task[t] = "PLANNED"
                 /\ \A d \in Deps[t] : task[d] \in TaskTerminal \cup {"FAILED"}}
ReadyUntilSucceeded ==
  {t \in Tasks : /\ task[t] \in {"PLANNED", "FAILED"}
                 /\ \A d \in Deps[t] : task[d] = "SUCCEEDED"}

\* Scheduler.ReadyTasks
ReadyTasks == {t \in Tasks : /\ task[t] = "PLANNED"
                             /\ \A d \in Deps[t] : task[d] = "SUCCEEDED"}

\* Mutants: any terminal task counts as done; a failed task does not settle the
\* run; a finished run skips verification.
CompletionOfTerminal ==
  CASE \E t \in Tasks : task[t] = "FAILED"          -> "FAILED"
    [] \A t \in Tasks : task[t] \in TaskTerminal    -> "VERIFYING"
    [] OTHER                                         -> "NONE"
CompletionWithoutFailure ==
  CASE \E t \in Tasks : task[t] = "CANCELLED"       -> "CANCELLED"
    [] \A t \in Tasks : task[t] = "SUCCEEDED"       -> "VERIFYING"
    [] OTHER                                         -> "NONE"
CompletionUnverified ==
  CASE \E t \in Tasks : task[t] = "FAILED"          -> "FAILED"
    [] \A t \in Tasks : task[t] = "SUCCEEDED"       -> "REVIEWING"
    [] OTHER                                         -> "NONE"

\* Where Scheduler.EvaluateCompletionAsync moves the run; NONE is no move.
Completion ==
  CASE Tasks = {}                                -> "NONE"
    [] \E t \in Tasks : task[t] = "FAILED"       -> "FAILED"
    [] /\ \A t \in Tasks : task[t] # "FAILED"
       /\ \E t \in Tasks : task[t] = "CANCELLED" -> "CANCELLED"
    [] /\ Tasks # {}
       /\ \A t \in Tasks : task[t] \in TaskTerminal \ {"CANCELLED"} -> "VERIFYING"
    [] OTHER                                     -> "NONE"

Init ==
  /\ run = "NONE"
  /\ task = [t \in Tasks |-> "NONE"]
  /\ pc = "idle"
  /\ ready = {}
  /\ cur = {}
  /\ to = "NONE"
  /\ token = FALSE
  /\ inFlight = FALSE
  /\ cpc = [p \in Closers |-> "idle"]
  /\ snap = [p \in Closers |-> {}]
  /\ started = {}
  /\ succeeded = {}
  /\ raced = FALSE

-----------------------------------------------------------------------------
(* RunService.StartAsync *)

SaveRun ==
  /\ pc = "idle"
  /\ pc' = "saved"
  /\ run' = "CREATED"
  /\ UNCHANGED <<task, ready, cur, to, token, inFlight, closer, work>>

\* The plan is saved as CONSUMED, then StartInBackground registers the token.
Launch ==
  /\ pc = "saved"
  /\ pc' = "start"
  /\ inFlight' = TRUE
  /\ raced' = (raced \/ \E c \in Callers : InCancelRun(c))
  /\ UNCHANGED <<db, ready, cur, to, token, closer, started, succeeded>>

\* Saving the plan throws: the run row is already there and nobody drives it.
StartFails ==
  /\ pc = "saved"
  /\ pc' = "orphaned"
  /\ UNCHANGED <<db, ready, cur, to, token, inFlight, closer, work>>

-----------------------------------------------------------------------------
(* RunEngine.ExecuteAsync *)

\* The state of the Run object the engine holds: what it last wrote.
RunInHand == CASE pc = "start"    -> "CREATED"
               [] pc = "schedule" -> "PLANNING"
               [] pc = "advance"  -> "READY"
               [] OTHER           -> "RUNNING"

\* Writes s to the run's row and continues at p; TransitionAsync refuses what
\* the object in hand may not move to.  The moves of tasks and of CancelRunAsync
\* need no such guard: each is written for a state it is permitted from
\* (PLANNED, READY, RUNNING; Open and Closable to CANCELLED).
MoveRun(from, s, p) ==
  /\ pc = from
  /\ ~token
  /\ pc' = IF s \in RunMoves[RunInHand] THEN p ELSE "unwind"
  /\ run' = IF s \in RunMoves[RunInHand] THEN s ELSE run
  /\ UNCHANGED <<task, ready, cur, to, token, inFlight, closer, work>>

StartAsync == MoveRun("start", "PLANNING", "schedule")

\* ScheduleAsync saves the tasks one call at a time, then moves the run.
SaveTask(t) ==
  /\ pc = "schedule"
  /\ ~token
  /\ task[t] = "NONE"
  /\ task' = [task EXCEPT ![t] = "PLANNED"]
  /\ UNCHANGED <<run, engine, closer, work>>

Schedule ==
  /\ \A t \in Tasks : task[t] # "NONE"
  /\ MoveRun("schedule", "READY", "advance")

Advance == MoveRun("advance", "RUNNING", "loop")

\* The token is looked at here, and again inside the next call.
LoopGoesOn ==
  /\ pc = "loop"
  /\ ~token
  /\ pc' = "list"
  /\ UNCHANGED <<db, ready, cur, to, token, inFlight, closer, work>>

LoopCancels ==
  /\ pc = "loop"
  /\ token
  /\ pc' = "closing"
  /\ cpc' = [cpc EXCEPT ![Engine] = "list"]
  /\ UNCHANGED <<db, ready, cur, to, token, inFlight, snap, work>>

ListTasks ==
  /\ pc = "list"
  /\ ~token
  /\ ready' = ReadyTasks
  /\ pc' = IF ReadyTasks = {} THEN "evaluate" ELSE "each"
  /\ UNCHANGED <<db, cur, to, token, inFlight, closer, work>>

EachDone ==
  /\ pc = "each"
  /\ ready = {}
  /\ pc' = "loop"
  /\ UNCHANGED <<db, ready, cur, to, token, inFlight, closer, work>>

Evaluate ==
  /\ pc = "evaluate"
  /\ ~token
  /\ to' = Completion
  /\ pc' = IF Completion = "NONE" THEN "exit" ELSE "settle"
  /\ UNCHANGED <<db, ready, cur, token, inFlight, closer, work>>

Settle == MoveRun("settle", to, "exit")

\* CancelRunAsync, run by the engine, has returned or has thrown.
Closed ==
  /\ pc = "closing"
  /\ cpc[Engine] \in {"idle", "failed"}
  /\ pc' = IF cpc[Engine] = "idle" THEN "exit" ELSE "unwind"
  /\ UNCHANGED <<db, ready, cur, to, token, inFlight, closer, work>>

\* The exception leaves ExecuteAsync and takes its locals with it.
Unwind ==
  /\ pc' = "unwind"
  /\ ready' = {}
  /\ cur' = {}
  /\ to' = "NONE"
  /\ UNCHANGED <<db, token, inFlight, closer, work>>

\* The call is given the cancelled token.
Throws == TokenPoint /\ token /\ Unwind

\* The call fails on its own account: a locked, full or unreadable database.
CallFails == (TokenPoint \/ pc = "close") /\ Unwind

\* The catch, which records nothing, and the finally block of StartInBackground.
Exit ==
  /\ pc \in {"exit", "unwind"}
  /\ pc' = IF pc = "exit" THEN "exited" ELSE "dead"
  /\ inFlight' = FALSE
  /\ token' = FALSE
  /\ to' = "NONE"
  /\ UNCHANGED <<db, ready, cur, closer, work>>

-----------------------------------------------------------------------------
(* RunEngine.RunOneAsync *)

\* Mutant: the move to READY is made in memory only.
MarkReadyInMemory(t) ==
  /\ pc = "each"
  /\ ~token
  /\ t \in ready
  /\ ready' = ready \ {t}
  /\ cur' = {t}
  /\ pc' = "ready"
  /\ UNCHANGED <<db, to, token, inFlight, closer, work>>

MarkReady(t) ==
  /\ pc = "each"
  /\ ~token
  /\ t \in ready
  /\ ready' = ready \ {t}
  /\ cur' = {t}
  /\ task' = [task EXCEPT ![t] = "READY"]
  /\ pc' = "ready"
  /\ UNCHANGED <<run, to, token, inFlight, closer, work>>

StartTask(t) ==
  /\ pc = "ready"
  /\ ~token
  /\ t \in cur
  /\ task' = [task EXCEPT ![t] = "RUNNING"]
  /\ started' = started \cup {t}
  /\ pc' = "run"
  /\ UNCHANGED <<run, ready, cur, to, token, inFlight, closer, succeeded, raced>>

\* Success, a failed outcome or any exception, or OperationCanceledException.
\* The catch of the last has no filter: a runner may raise it for a timeout
\* of its own when nobody cancelled the run.
RunnerReturns(outcome) ==
  /\ pc = "run"
  /\ to' = outcome
  /\ pc' = "close"
  /\ UNCHANGED <<db, ready, cur, token, inFlight, closer, work>>

\* CompleteTaskAsync and FailTaskAsync are given the token, CancelTaskAsync is not.
CloseTask(t) ==
  /\ pc = "close"
  /\ token => to = "CANCELLED"
  /\ t \in cur
  /\ task' = [task EXCEPT ![t] = to]
  /\ succeeded' = IF to = "SUCCEEDED" THEN succeeded \cup {t} ELSE succeeded
  /\ cur' = {}
  /\ to' = "NONE"
  /\ pc' = "each"
  /\ UNCHANGED <<run, ready, token, inFlight, closer, started, raced>>

-----------------------------------------------------------------------------
(* RunService.CancelAsync *)

CancelLookup(c) ==
  /\ cpc[c] \in {"idle", "failed"}
  /\ run # "NONE"
  /\ cpc' = [cpc EXCEPT ![c] = IF inFlight THEN "signal" ELSE "find"]
  /\ UNCHANGED <<db, engine, snap, work>>

\* When the engine has left in the meantime the source is disposed and the
\* caller gets an exception instead.
CancelSignal(c) ==
  /\ cpc[c] = "signal"
  /\ cpc' = [cpc EXCEPT ![c] = "idle"]
  /\ token' = (token \/ inFlight)
  /\ UNCHANGED <<db, pc, ready, cur, to, inFlight, snap, work>>

CancelFind(c) ==
  /\ cpc[c] = "find"
  /\ IF run \in RunTerminal
     THEN cpc' = [cpc EXCEPT ![c] = "idle"] /\ UNCHANGED raced
     ELSE cpc' = [cpc EXCEPT ![c] = "list"] /\ raced' = (raced \/ Live)
  /\ UNCHANGED <<db, engine, snap, started, succeeded>>

-----------------------------------------------------------------------------
(* Scheduler.CancelRunAsync, by the engine or by a caller *)

CloseList(p) ==
  /\ cpc[p] = "list"
  /\ snap' = [snap EXCEPT ![p] = {t \in Tasks : task[t] \in Open}]
  /\ cpc' = [cpc EXCEPT ![p] = "cancel"]
  /\ UNCHANGED <<db, engine, work>>

\* Guarded by the listed state, which was open, whatever the row is by now.
CloseOne(p, t) ==
  /\ cpc[p] = "cancel"
  /\ t \in snap[p]
  /\ snap' = [snap EXCEPT ![p] = @ \ {t}]
  /\ task' = [task EXCEPT ![t] = "CANCELLED"]
  /\ UNCHANGED <<run, engine, cpc, work>>

CloseReload(p) ==
  /\ cpc[p] = "cancel"
  /\ snap[p] = {}
  /\ cpc' = [cpc EXCEPT ![p] = IF run \in Closable THEN "finish" ELSE "idle"]
  /\ UNCHANGED <<db, engine, snap, work>>

CloseFinish(p) ==
  /\ cpc[p] = "finish"
  /\ run' = "CANCELLED"
  /\ cpc' = [cpc EXCEPT ![p] = "idle"]
  /\ UNCHANGED <<task, engine, snap, work>>

\* The read of CancelAsync or any call of CancelRunAsync fails.
CloseFails(p) ==
  /\ cpc[p] = "find" \/ InCancelRun(p)
  /\ cpc' = [cpc EXCEPT ![p] = "failed"]
  /\ snap' = [snap EXCEPT ![p] = {}]
  /\ UNCHANGED <<db, engine, work>>

-----------------------------------------------------------------------------
\* The process dies and is started again.  Nothing resumes the engine.
\* Bound: one crash; a second could only interrupt callers of CancelAsync.
Crash ==
  /\ pc \notin {"idle", "crashed"}
  /\ pc' = "crashed"
  /\ ready' = {}
  /\ cur' = {}
  /\ to' = "NONE"
  /\ token' = FALSE
  /\ inFlight' = FALSE
  /\ cpc' = [p \in Closers |-> "idle"]
  /\ snap' = [p \in Closers |-> {}]
  /\ UNCHANGED <<db, work>>

RunTask(t) == MarkReady(t) \/ StartTask(t) \/ CloseTask(t)

EngineStep ==
  \/ SaveRun \/ Launch
  \/ StartAsync \/ Schedule \/ Advance \/ LoopGoesOn \/ LoopCancels
  \/ ListTasks \/ EachDone \/ Evaluate \/ Settle \/ Closed \/ Throws \/ Exit
  \/ \E t \in Tasks : SaveTask(t) \/ RunTask(t)
  \/ \E outcome \in {"SUCCEEDED", "FAILED", "CANCELLED"} : RunnerReturns(outcome)

CloseRun(p) ==
  \/ CloseList(p) \/ CloseReload(p) \/ CloseFinish(p)
  \/ \E t \in Tasks : CloseOne(p, t)

CallerStep(c) == CancelSignal(c) \/ CancelFind(c)

Next ==
  \/ EngineStep
  \/ CallFails
  \/ \E p \in Closers : CloseRun(p) \/ CloseFails(p)
  \/ \E c \in Callers : CallerStep(c) \/ CancelLookup(c)
  \/ StartFails
  \/ Crash

\* The thread pool runs every ready continuation, the database answers or
\* fails, and the runner returns; a caller that began CancelAsync goes on with
\* it.  No failure is ever due, and none is ruled out.
Fairness ==
  /\ WF_vars(EngineStep)
  /\ \A p \in Closers : WF_vars(CloseRun(p))
  /\ \A c \in Callers : WF_vars(CallerStep(c))

Spec == Init /\ [][Next]_vars /\ Fairness

-----------------------------------------------------------------------------
TypeOK ==
  /\ run \in RunStates \cup {"NONE"}
  /\ task \in [Tasks -> TaskStates \cup {"NONE"}]
  /\ pc \in Points
  /\ ready \in SUBSET Tasks
  /\ cur \in SUBSET Tasks
  /\ to \in Settled \cup {"SUCCEEDED", "NONE"}
  /\ token \in BOOLEAN
  /\ inFlight \in BOOLEAN
  /\ cpc \in [Closers -> {"idle", "signal", "find", "list", "cancel", "finish", "failed"}]
  /\ snap \in [Closers -> SUBSET Tasks]
  /\ started \in SUBSET Tasks
  /\ succeeded \in SUBSET Tasks
  /\ raced \in BOOLEAN

\* No task is handed to the runner before the success of everything it waits
\* for was recorded (ReadyTasks over the materialised dependency ids), even
\* when a caller rewrites the rows of the graph under the engine.
DependenciesDone == \A t \in started : Deps[t] \subseteq succeeded

\* The loop reads the tasks afresh on every pass and works from that list;
\* no task is ever handed to the runner twice.
RunsOnce == [][\A t \in Tasks : StartTask(t) => t \notin started]_vars

\* A run that waits for verification has had every task of its plan succeed
\* (EvaluateCompletionAsync), whatever was cancelled or overwritten meanwhile.
VerifiedWorkIsDone == run = "VERIFYING" => succeeded = Tasks

\* The tables of StateMachine, read over the rows of the database.
LegalMoves ==
  /\ run' # run /\ run # "NONE" => run' \in RunMoves[run]
  /\ \A t \in Tasks :
       task'[t] # task[t] /\ task[t] # "NONE" => task'[t] \in TaskMoves[task[t]]

\* The check RunRepository makes in memory keeps the rows inside the tables as
\* long as no caller's CancelRunAsync overlaps the engine.
LegalWhenAlone == [][~raced' => LegalMoves]_vars

\* When CancelRunAsync comes to the run itself, nothing in it is open any more
\* ("closes a run and everything in it that is still open").
ClosedMeansClosed ==
  ~raced => \A p \in Closers, t \in Tasks :
              cpc[p] = "finish" => task[t] \in TaskTerminal \cup {"FAILED", "NONE"}

\* An engine that returns, cancelled or not and whoever closed rows under it,
\* leaves the run in a state it stops in: IsWhereTheEngineStops.  (A plan
\* without tasks is the exception.)
ReturnSettles == pc = "exited" /\ Tasks # {} => run \in Settled

\* The tasks between PLANNED and their end.
InHand == {t \in Tasks : task[t] \in {"BLOCKED", "READY", "RUNNING"}}

\* What the engine leaves in hand when it is gone, wherever it was stopped: no
\* task when it returned, at most one when a call of its own failed.
LeavesLittleInHand ==
  /\ pc = "exited" => InHand = {}
  /\ pc = "dead" => \A t, u \in InHand : t = u

\* What the end of a run says of its tasks is so, whoever brought it about:
\* VERIFYING, the end of CancelRunAsync, and an engine that leaves.
EndsHonestly ==
  TypeOK /\ VerifiedWorkIsDone /\ ClosedMeansClosed /\ ReturnSettles /\ LeavesLittleInHand

\* A run that is started settles, unless it is cancelled, a call of the engine
\* fails or the process dies.
UncancelledRunSettles ==
  pc = "start" ~> (run \in Settled \/ token \/ pc \in {"dead", "crashed"})

\* A run left active by an engine that is gone, by a failed call or a crash for
\* instance, is closed by the next CancelAsync that finds it and whose own calls
\* succeed ("refusing to close it would leave it looking active forever").
CancelClosesAbandoned ==
  \A c \in Callers, Gone \in {{"exited", "dead"}, {"crashed"}} :
    (pc \in Gone /\ cpc[c] = "find" /\ run \in {"PLANNING", "READY", "RUNNING"})
      ~> (run \in RunTerminal \/ pc \notin Gone \/ cpc[c] = "failed")

\* Either way a run comes to rest, or can be brought to rest.
RunsSettle == UncancelledRunSettles /\ CancelClosesAbandoned

-----------------------------------------------------------------------------
(* What the documentation says and the code does not keep. *)

\* RunService.StartInBackground: what the engine could not record goes into
\* "the run's own final state".
FailureIsRecorded == pc = "dead" => run \in Settled

\* IRunService.CancelAsync: "The run reaches Cancelled when its in-flight
\* attempts have been torn down."
CancelReachesTerminal == token ~> (run \in RunTerminal \/ pc = "crashed")

\* StateMachine: "A transition that is not listed is refused."
UnlistedMovesRefused == [][LegalMoves]_vars

\* RunService.CancelAsync, on a run no engine drives: "refusing to close it
\* would leave it looking active forever."
OrphanIsClosed ==
  \A c \in Callers : (pc = "orphaned" /\ cpc[c] = "list")
                       ~> (run \in RunTerminal \/ pc = "crashed" \/ cpc[c] = "failed")
=============================================================================
