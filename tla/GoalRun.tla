------------------------------ MODULE GoalRun ------------------------------
(***************************************************************************)
(* One run of the Python runtime: GoalRunner.execute drives the plan batch *)
(* by batch, the tasks of a batch run as concurrent coroutines             *)
(* (_run_task, with Harness.execute for every attempt), POST .../cancel    *)
(* records a request and kills the attempts in flight, and recover_run     *)
(* reconciles the rows after a crash.                                      *)
(*                                                                         *)
(* A step runs from one await that matters to the next.  Only the executor *)
(* writes the run's row, only a task's own coroutine its row while it      *)
(* runs, so what a coroutine holds of a row is what the row holds; every   *)
(* transition is one transaction with its event.                           *)
(***************************************************************************)
EXTENDS Lifecycle, Naturals, FiniteSets, FiniteSetsExt, SequencesExt

CONSTANTS
  Order,        \* the tasks of the plan, in the order load_tasks returns them
  Deps,         \* Deps[t]: the tasks t waits for
  Clash,        \* pairs {t, u} whose write scopes may overlap
  Isolated,     \* tasks with a write scope: each gets a worktree of its own
  HighRisk,     \* tasks reviewed by another provider before they are merged
  MaxParallel,  \* config.max_parallel_tasks
  Limit,        \* attempts _attempt_with_fallback makes at most
  Retries,      \* config.max_retries_per_task
  Metered,      \* runners report tokens: the run may reach its token limit
  GitFails,     \* git commands may fail
  MaxCrashes    \* bound on crashes of the process

Tasks == Range(Order)

\* BudgetLedger.max_attempts
MaxAttempts == Max({1, Cardinality(Tasks)}) * (1 + Retries)

\* The plan is acyclic, and load_tasks returns each row once.
ASSUME PlanAssumption ==
  /\ Order \in Seq(Tasks)
  /\ \A i, j \in DOMAIN Order : Order[i] = Order[j] => i = j
  /\ Deps \in [Tasks -> SUBSET Tasks]
  /\ \A S \in SUBSET Tasks : S # {} => \E t \in S : Deps[t] \cap S = {}
  /\ Isolated \subseteq Tasks /\ HighRisk \subseteq Tasks
  /\ IsFiniteSet(Tasks)

ASSUME ConfigAssumption ==
  /\ MaxParallel \in Nat \ {0} /\ Limit \in Nat \ {0} /\ Retries \in Nat
  /\ Metered \in BOOLEAN /\ GitFails \in BOOLEAN /\ MaxCrashes \in Nat

VARIABLES
  run, task,    \* the rows
  attempt,      \* the state of each task's last attempt row
  epc,          \* where execute is
  to,           \* the state it writes next
  todo,         \* the batches it has not started
  batch,        \* the tasks of the batch it gathers
  tpc,          \* where each task's coroutine is
  ok,           \* whether its last attempt succeeded
  tries,        \* attempts its fallback loop has finished
  reviewing,    \* tasks whose attempt is the cross-provider review
  good,         \* tasks whose outcome is a success
  attempts,     \* BudgetLedger.attempts
  spent,        \* the reported usage has reached a limit
  requested,    \* CancellationRegistry holds a request for the run
  cpc,          \* where the caller of the cancel route is
  rpc,          \* where recover_run is
  orphans,      \* it closed a task in this call
  crashes,      \* bounded by MaxCrashes
  made,         \* history: attempt rows this process has written
  merged,       \* history: tasks merged into the target branch
  rejected,     \* history: tasks a reviewer rejected
  interrupted   \* history: a crash caught a task RUNNING

rows     == <<run, task, attempt>>
executor == <<epc, to, todo, batch>>
routine  == <<tpc, ok, tries, reviewing, good>>
budget   == <<attempts, spent>>
recovery == <<rpc, orphans, crashes, interrupted>>
history  == <<made, merged, rejected>>
vars == <<rows, executor, routine, budget, requested, cpc, recovery, history>>

\* A coroutine that neither waits to be started nor has ended.
Begun(t)   == tpc[t] \notin {"idle", "done", "raised"}
InFlight   == {t \in Tasks : tpc[t] = "flight"}
ExecutorUp == epc \notin {"idle", "finished", "dead", "crashed"}

ActiveRun == {"CREATED", "PLANNING", "READY", "RUNNING"}

Init ==
  /\ run = "NONE"
  /\ task = [t \in Tasks |-> "NONE"]
  /\ attempt = [t \in Tasks |-> "NONE"]
  /\ epc = "idle" /\ to = "NONE"
  /\ todo = <<>> /\ batch = {}
  /\ tpc = [t \in Tasks |-> "idle"]
  /\ ok = [t \in Tasks |-> FALSE]
  /\ tries = [t \in Tasks |-> 0]
  /\ reviewing = {} /\ good = {}
  /\ attempts = 0 /\ spent = FALSE
  /\ requested = FALSE /\ cpc = "idle"
  /\ rpc = "off" /\ orphans = FALSE /\ crashes = 0 /\ interrupted = FALSE
  /\ made = 0 /\ merged = {} /\ rejected = {}

-----------------------------------------------------------------------------
(* GoalRunner.execute *)

ReadyTasks ==
  {t \in Tasks : task[t] = "PLANNED" /\ \A d \in Deps[t] : task[d] = "SUCCEEDED"}

\* Mutant: the limit is kept, the write scopes are not compared.
FitsAnyScope(b, t) == Cardinality(b) < MaxParallel

Fits(b, t) == Cardinality(b) < MaxParallel /\ \A u \in b : {t, u} \notin Clash

\* Every ready task joins the first batch it fits, or opens one.
Place(batches, t) ==
  LET fit == {i \in DOMAIN batches : Fits(batches[i], t)} IN
  IF fit = {} THEN Append(batches, {t})
  ELSE [batches EXCEPT ![Min(fit)] = @ \cup {t}]

\* The batches once the first n tasks of the plan have been looked at.
Placed[n \in 0..Len(Order)] ==
  IF n = 0 THEN <<>>
  ELSE IF Order[n] \in ReadyTasks THEN Place(Placed[n-1], Order[n])
  ELSE Placed[n-1]

Batches == Placed[Len(Order)]

\* The executor looks at the registry and goes on without an await between.
UnlessCancelled(p) == IF requested THEN "cancelling" ELSE p

MoveRun(from, s, p) ==
  /\ epc = from
  /\ run' = s
  /\ epc' = p
  /\ UNCHANGED <<task, attempt, to, todo, batch, routine, budget, requested,
                 cpc, recovery, history>>

SaveRun == MoveRun("idle", "CREATED", "created")

StartRun == MoveRun("created", "PLANNING", "schedule")

SaveTask(t) ==
  /\ epc = "schedule"
  /\ task[t] = "NONE"
  /\ task' = [task EXCEPT ![t] = "PLANNED"]
  /\ UNCHANGED <<run, attempt, executor, routine, budget, requested, cpc,
                 recovery, history>>

ScheduleTasks ==
  /\ \A t \in Tasks : task[t] # "NONE"
  /\ MoveRun("schedule", "READY", "advance")

AdvanceRun == MoveRun("advance", "RUNNING", UnlessCancelled("ready"))

ListReady ==
  /\ epc = "ready"
  /\ todo' = Batches
  /\ epc' = IF ReadyTasks = {} THEN UnlessCancelled("remaining") ELSE "batch"
  /\ UNCHANGED <<rows, to, batch, routine, budget, requested, cpc, recovery, history>>

StartBatch ==
  /\ epc = "batch"
  /\ todo # <<>>
  /\ batch' = Head(todo)
  /\ todo' = Tail(todo)
  /\ tpc' = [t \in Tasks |-> IF t \in Head(todo) THEN "begin" ELSE tpc[t]]
  /\ epc' = "gather"
  /\ UNCHANGED <<rows, to, ok, tries, reviewing, good, budget, requested, cpc,
                 recovery, history>>

\* The gather returned; a task that did not succeed ends the loop once all
\* batches of this pass are through.
Gathered ==
  /\ epc = "gather"
  /\ \A t \in batch : tpc[t] = "done"
  /\ epc' = IF todo # <<>> THEN "batch"
            ELSE UnlessCancelled(IF \A t \in Tasks : tpc[t] = "done" => t \in good
                                 THEN "ready" ELSE "remaining")
  /\ UNCHANGED <<rows, to, todo, batch, routine, budget, requested, cpc,
                 recovery, history>>

\* A coroutine raised: so does gather, and nothing catches it.  The others go on.
GatherRaises ==
  /\ epc = "gather"
  /\ \E t \in batch : tpc[t] = "raised"
  /\ epc' = "dead"
  /\ todo' = <<>> /\ batch' = {}
  /\ UNCHANGED <<rows, to, routine, budget, requested, cpc, recovery, history>>

\* The declared gates are only run on finished work.
Remaining ==
  /\ epc = "remaining"
  /\ epc' = IF /\ \A t \in Tasks : task[t] \notin {"PLANNED", "BLOCKED"}
               /\ \E t \in Tasks : tpc[t] = "done"
               /\ \A t \in Tasks : tpc[t] = "done" => t \in good
            THEN "gates" ELSE "evaluate"
  /\ UNCHANGED <<rows, to, todo, batch, routine, budget, requested, cpc,
                 recovery, history>>

VerifyGates ==
  /\ epc = "gates"
  /\ epc' = "evaluate"
  /\ UNCHANGED <<rows, to, todo, batch, routine, budget, requested, cpc,
                 recovery, history>>

\* Mutant: a run is handed to verification by the tasks that are left over.
CompletionOfTerminal ==
  IF \A t \in Tasks : task[t] \in TaskTerminal \cup {"FAILED"} THEN "VERIFYING" ELSE "NONE"

\* Mutant: the failed tasks are not looked at.
CompletionWithoutFailure ==
  CASE \E t \in Tasks : task[t] = "CANCELLED"    -> "CANCELLED"
    [] \A t \in Tasks : task[t] = "SUCCEEDED"    -> "VERIFYING"
    [] OTHER                                     -> "NONE"

\* Mutant: work that is done is taken for verified.
CompletionUnverified ==
  IF \E t \in Tasks : task[t] = "FAILED" THEN "FAILED" ELSE "COMPLETED"

\* Scheduler.evaluate_run_completion; NONE leaves the run where it is.
Completion ==
  CASE Tasks = {}                                -> "NONE"
    [] \E t \in Tasks : task[t] = "FAILED"       -> "FAILED"
    [] /\ \A t \in Tasks : task[t] # "FAILED"
       /\ \E t \in Tasks : task[t] = "CANCELLED" -> "CANCELLED"
    [] /\ Tasks # {}
       /\ \A t \in Tasks : task[t] \in TaskTerminal \ {"CANCELLED"} -> "VERIFYING"
    [] OTHER                                     -> "NONE"

Evaluate ==
  /\ epc = "evaluate"
  /\ to' = Completion
  /\ epc' = IF Completion = "NONE" THEN "finished" ELSE "settle"
  /\ UNCHANGED <<rows, todo, batch, routine, budget, requested, cpc, recovery, history>>

Settle == MoveRun("settle", to, "finished")

\* Mutant: what was never started is left as it is.
OpenUnlessPlanned == {"BLOCKED", "READY", "RUNNING"}

\* Mutant: what has succeeded is cancelled too.
OpenOrSucceeded == {"PLANNED", "BLOCKED", "READY", "RUNNING", "SUCCEEDED"}

Open     == {"PLANNED", "BLOCKED", "READY", "RUNNING"}
Closable == {"PLANNING", "READY", "RUNNING"}

\* Scheduler.cancel_run: no coroutine is left, so what it listed is what is there.
CancelOpenTask(t) ==
  /\ epc = "cancelling"
  /\ task[t] \in Open
  /\ task' = [task EXCEPT ![t] = "CANCELLED"]
  /\ UNCHANGED <<run, attempt, executor, routine, budget, requested, cpc,
                 recovery, history>>

\* ... and the registry forgets the run.
FinishCancel ==
  /\ epc = "cancelling"
  /\ \A t \in Tasks : task[t] \notin Open
  /\ run' = IF run \in Closable THEN "CANCELLED" ELSE run
  /\ requested' = FALSE
  /\ epc' = "finished"
  /\ UNCHANGED <<task, attempt, to, todo, batch, routine, budget, cpc,
                 recovery, history>>

-----------------------------------------------------------------------------
(* GoalRunner._run_task *)

\* t's coroutine goes on at p and changes nothing else of its own.
Goto(t, p) ==
  /\ tpc' = [tpc EXCEPT ![t] = p]
  /\ UNCHANGED <<ok, tries, reviewing, good>>

Idle == UNCHANGED <<run, executor, requested, cpc, recovery>>

BeginTask(t) ==
  /\ tpc[t] = "begin"
  /\ Goto(t, IF requested THEN "done" ELSE "ready")
  /\ UNCHANGED <<task, attempt, budget, history>> /\ Idle

MarkTaskReady(t) ==
  /\ tpc[t] = "ready"
  /\ task' = [task EXCEPT ![t] = "READY"]
  /\ Goto(t, IF t \in Isolated THEN "worktree" ELSE "reserve")
  /\ UNCHANGED <<attempt, budget, history>> /\ Idle

CreateWorktree(t) ==
  /\ tpc[t] = "worktree"
  /\ \/ Goto(t, "reserve")
     \/ GitFails /\ Goto(t, "raised")
  /\ UNCHANGED <<task, attempt, budget, history>> /\ Idle

\* Mutant: asking "may I?" and counting the attempt when it is made.
CanReserveByMade == made < MaxAttempts /\ ~spent

CanReserve == attempts < MaxAttempts /\ ~spent

\* reserve_attempt checks and claims in one go.  Without budget a first attempt
\* is never made, a later one leaves the last failure standing, and a review
\* does not hold the task up.
Reserve(t) ==
  /\ tpc[t] = "reserve"
  /\ IF CanReserve
     THEN attempts' = attempts + 1 /\ Goto(t, "save")
     ELSE /\ UNCHANGED attempts
          /\ Goto(t, CASE t \in reviewing -> "merge"
                       [] t \notin reviewing /\ tries[t] = 0 -> "stopped"
                       [] t \notin reviewing /\ tries[t] # 0 -> "fail")
  /\ UNCHANGED <<task, attempt, spent, history>> /\ Idle

\* Harness.execute: the rows before the runner starts.
SaveAttempt(t) ==
  /\ \/ tpc[t] = "save"     /\ attempt' = [attempt EXCEPT ![t] = "CREATED"]
                            /\ made' = made + 1
                            /\ Goto(t, "starting")
     \/ tpc[t] = "starting" /\ attempt' = [attempt EXCEPT ![t] = "STARTING"]
                            /\ UNCHANGED made
                            /\ Goto(t, "running")
     \/ tpc[t] = "running"  /\ attempt' = [attempt EXCEPT ![t] = "RUNNING"]
                            /\ UNCHANGED made
                            /\ Goto(t, IF task[t] = "READY" THEN "start" ELSE "flight")
  /\ UNCHANGED <<task, budget, merged, rejected>> /\ Idle

StartTask(t) ==
  /\ tpc[t] = "start"
  /\ task' = [task EXCEPT ![t] = "RUNNING"]
  /\ Goto(t, "flight")
  /\ UNCHANGED <<attempt, budget, history>> /\ Idle

\* The runner's own task ends: a result, or an exception read as a failure.
RunnerEnds(t, success) ==
  /\ tpc[t] = "flight"
  /\ tpc' = [tpc EXCEPT ![t] = "close"]
  /\ ok' = [ok EXCEPT ![t] = success]
  /\ UNCHANGED <<task, attempt, tries, reviewing, good, budget, history>> /\ Idle

\* Mutant: a review is taken for an opinion.
AfterReviewMerge(t) ==
  CASE t \in reviewing                                   -> "merge"
    [] t \notin reviewing /\ ok[t] /\ t \in HighRisk     -> "review"
    [] t \notin reviewing /\ ok[t] /\ t \notin HighRisk  -> "merge"
    [] t \notin reviewing /\ ~ok[t]                      -> "fail"

\* Where the coroutine goes with the result of an attempt.
AfterAttempt(t) ==
  CASE t \in reviewing /\ ok[t]                         -> "merge"
    [] t \in reviewing /\ ~ok[t]                        -> "fail"
    [] t \notin reviewing /\ ok[t] /\ t \in HighRisk    -> "review"
    [] t \notin reviewing /\ ok[t] /\ t \notin HighRisk -> "merge"
    [] t \notin reviewing /\ ~ok[t] /\ tries[t] + 1 < Limit  -> "reserve"
    [] t \notin reviewing /\ ~ok[t] /\ tries[t] + 1 >= Limit -> "fail"

\* The attempt is closed and its usage recorded, which may reach a limit.
CloseAttempt(t) ==
  /\ tpc[t] = "close"
  /\ attempt' = [attempt EXCEPT ![t] = IF ok[t] THEN "COMPLETED" ELSE "FAILED"]
  /\ spent' \in IF Metered THEN {spent, TRUE} ELSE {spent}
  /\ tpc' = [tpc EXCEPT ![t] = AfterAttempt(t)]
  /\ tries' = [tries EXCEPT ![t] = IF t \in reviewing THEN @ ELSE @ + 1]
  /\ rejected' = IF t \in reviewing /\ ~ok[t] THEN rejected \cup {t} ELSE rejected
  /\ UNCHANGED <<task, ok, reviewing, good, attempts, made, merged>> /\ Idle

\* Mutant: the cancelled attempt's row is left as it is.
KilledUnclosed(t) ==
  /\ tpc[t] = "killed"
  /\ Goto(t, IF t \notin reviewing /\ requested THEN "cancel" ELSE "raised")
  /\ UNCHANGED <<task, attempt, budget, history>> /\ Idle

\* The runner's task was cancelled.  _attempt_with_fallback takes the raised
\* CancelledError for the run's own cancellation; a review does not catch it.
AttemptKilled(t) ==
  /\ tpc[t] = "killed"
  /\ attempt' = [attempt EXCEPT ![t] = "CANCELLED"]
  /\ Goto(t, IF t \notin reviewing /\ requested THEN "cancel" ELSE "raised")
  /\ UNCHANGED <<task, budget, history>> /\ Idle

\* A reviewer of another provider is reachable, or the gate stays pending.
Review(t) ==
  /\ tpc[t] = "review"
  /\ \/ /\ tpc' = [tpc EXCEPT ![t] = "reserve"]
        /\ reviewing' = reviewing \cup {t}
     \/ /\ tpc' = [tpc EXCEPT ![t] = "merge"]
        /\ UNCHANGED reviewing
  /\ UNCHANGED <<task, attempt, ok, tries, good, budget, history>> /\ Idle

\* commit_all and integrate, one task at a time: merged, refused, or git fails.
Integrate(t) ==
  /\ tpc[t] = "merge"
  /\ \/ /\ Goto(t, "complete")
        /\ merged' = IF t \in Isolated THEN merged \cup {t} ELSE merged
     \/ t \in Isolated /\ Goto(t, "fail") /\ UNCHANGED merged
     \/ t \in Isolated /\ GitFails /\ Goto(t, "raised") /\ UNCHANGED merged
  /\ UNCHANGED <<task, attempt, budget, made, rejected>> /\ Idle

CompleteTask(t) ==
  /\ tpc[t] = "complete"
  /\ task' = [task EXCEPT ![t] = "SUCCEEDED"]
  /\ tpc' = [tpc EXCEPT ![t] = "done"]
  /\ good' = good \cup {t}
  /\ UNCHANGED <<attempt, ok, tries, reviewing, budget, history>> /\ Idle

FailTask(t) ==
  /\ tpc[t] = "fail"
  /\ task' = [task EXCEPT ![t] = "FAILED"]
  /\ Goto(t, "done")
  /\ UNCHANGED <<attempt, budget, history>> /\ Idle

\* The budget stopped the task before its first attempt.
StopTask(t) ==
  /\ tpc[t] = "stopped"
  /\ task' = [task EXCEPT ![t] = IF @ = "RUNNING" THEN "FAILED" ELSE @]
  /\ Goto(t, "done")
  /\ UNCHANGED <<attempt, budget, history>> /\ Idle

CancelTask(t) ==
  /\ tpc[t] = "cancel"
  /\ task' = [task EXCEPT ![t] = IF @ \in {"RUNNING", "READY", "PLANNED"}
                                 THEN "CANCELLED" ELSE @]
  /\ Goto(t, "done")
  /\ UNCHANGED <<attempt, budget, history>> /\ Idle

-----------------------------------------------------------------------------
(* POST /runs/{id}/cancel *)

Caller == UNCHANGED <<rows, executor, ok, tries, reviewing, good, budget,
                      recovery, history>>

\* A run with no way to CANCELLED is refused with 409.  The row is read on the
\* database's own thread: the executor may move it before the route goes on.
CancelLoad ==
  /\ cpc = "idle"
  /\ run \in ActiveRun
  /\ cpc' = "request"
  /\ UNCHANGED <<tpc, requested>> /\ Caller

CancelRequest ==
  /\ cpc = "request"
  /\ requested' = TRUE
  /\ cpc' = "kill"
  /\ UNCHANGED tpc /\ Caller

CancelKill ==
  /\ cpc = "kill"
  /\ tpc' = [t \in Tasks |-> IF t \in InFlight THEN "killed" ELSE tpc[t]]
  /\ cpc' = "idle"
  /\ UNCHANGED requested /\ Caller

-----------------------------------------------------------------------------
(* Crash and recover_run *)

\* The process dies.  Memory is gone, what was committed stays.
Crash ==
  /\ epc # "idle"
  /\ crashes < MaxCrashes
  /\ crashes' = crashes + 1
  /\ epc' = "crashed" /\ todo' = <<>> /\ batch' = {}
  /\ tpc' = [t \in Tasks |-> "idle"]
  /\ requested' = FALSE /\ cpc' = "idle"
  /\ rpc' = "off" /\ orphans' = FALSE
  /\ interrupted' = (interrupted \/ \E t \in Tasks : task[t] = "RUNNING")
  /\ ok' = [t \in Tasks |-> FALSE]
  /\ tries' = [t \in Tasks |-> 0]
  /\ reviewing' = {} /\ good' = {}
  /\ attempts' = 0 /\ spent' = FALSE /\ made' = 0
  /\ UNCHANGED <<rows, to, merged, rejected>>

Others == UNCHANGED <<executor, routine, budget, requested, cpc, history,
                      crashes, interrupted>>

Recover ==
  /\ epc = "crashed"
  /\ rpc \in {"off", "done"}
  /\ rpc' = "attempts"
  /\ orphans' = FALSE
  /\ UNCHANGED rows /\ Others

\* Mutant: an attempt that was just starting is forgotten.
OrphanedRunning == {"RUNNING"}

Orphaned == {"STARTING", "RUNNING"}

RecoverAttempt(t) ==
  /\ rpc = "attempts"
  /\ attempt[t] \in Orphaned
  /\ attempt' = [attempt EXCEPT ![t] = "FAILED"]
  /\ UNCHANGED <<run, task, rpc, orphans>> /\ Others

AttemptsRecovered ==
  /\ rpc = "attempts"
  /\ \A t \in Tasks : attempt[t] \notin Orphaned
  /\ rpc' = "tasks"
  /\ UNCHANGED <<rows, orphans>> /\ Others

RecoverTask(t) ==
  /\ rpc = "tasks"
  /\ task[t] = "RUNNING"
  /\ task' = [task EXCEPT ![t] = "FAILED"]
  /\ orphans' = TRUE
  /\ UNCHANGED <<run, attempt, rpc>> /\ Others

RecoverRun ==
  /\ rpc = "tasks"
  /\ \A t \in Tasks : task[t] # "RUNNING"
  /\ run' = IF orphans /\ run = "RUNNING" THEN "BLOCKED" ELSE run
  /\ rpc' = "done"
  /\ UNCHANGED <<task, attempt, orphans>> /\ Others

-----------------------------------------------------------------------------
Execute ==
  \/ StartRun \/ ScheduleTasks \/ AdvanceRun \/ ListReady \/ StartBatch
  \/ Gathered \/ GatherRaises \/ Remaining \/ VerifyGates \/ Evaluate \/ Settle
  \/ FinishCancel
  \/ \E t \in Tasks : SaveTask(t) \/ CancelOpenTask(t)

RunTask(t) ==
  \/ BeginTask(t) \/ MarkTaskReady(t) \/ CreateWorktree(t) \/ Reserve(t)
  \/ SaveAttempt(t) \/ StartTask(t) \/ CloseAttempt(t) \/ AttemptKilled(t)
  \/ Review(t) \/ Integrate(t) \/ CompleteTask(t) \/ FailTask(t) \/ StopTask(t)
  \/ CancelTask(t)
  \/ \E success \in BOOLEAN : RunnerEnds(t, success)

RecoverStep ==
  \/ Recover \/ AttemptsRecovered \/ RecoverRun
  \/ \E t \in Tasks : RecoverAttempt(t) \/ RecoverTask(t)

Next ==
  \/ SaveRun
  \/ Execute
  \/ \E t \in Tasks : RunTask(t)
  \/ CancelLoad \/ CancelRequest \/ CancelKill
  \/ Crash
  \/ RecoverStep

\* The event loop runs every ready coroutine, the database and git answer, and
\* a runner ends: the command line's by its timeout at the latest, an ACP
\* agent's unless it leaves its stdin full (AcpSession!Stalled).  Nothing calls
\* recover_run.
Fairness ==
  /\ WF_vars(Execute)
  /\ \A t \in Tasks : WF_vars(RunTask(t))
  /\ WF_vars(CancelRequest) /\ WF_vars(CancelKill)

Spec == Init /\ [][Next]_vars /\ Fairness

-----------------------------------------------------------------------------
TaskPoints == {"idle", "begin", "ready", "worktree", "reserve", "save",
               "starting", "running", "start", "flight", "killed", "close",
               "review", "merge", "complete", "fail", "stopped", "cancel",
               "done", "raised"}

TypeOK ==
  /\ run \in RunStates \cup {"NONE"}
  /\ task \in [Tasks -> TaskStates \cup {"NONE"}]
  /\ attempt \in [Tasks -> AttemptStates \cup {"NONE"}]
  /\ epc \in {"idle", "created", "schedule", "advance", "ready", "batch", "gather",
              "remaining", "gates", "evaluate", "settle", "cancelling",
              "finished", "dead", "crashed"}
  /\ to \in {"NONE", "FAILED", "CANCELLED", "VERIFYING"}
  /\ todo \in Seq(SUBSET Tasks) /\ batch \in SUBSET Tasks
  /\ tpc \in [Tasks -> TaskPoints]
  /\ ok \in [Tasks -> BOOLEAN]
  /\ tries \in [Tasks -> 0..Limit]
  /\ reviewing \in SUBSET Tasks /\ good \in SUBSET Tasks
  /\ attempts \in Nat /\ spent \in BOOLEAN
  /\ requested \in BOOLEAN /\ cpc \in {"idle", "request", "kill"}
  /\ rpc \in {"off", "attempts", "tasks", "done"} /\ orphans \in BOOLEAN
  /\ crashes \in 0..MaxCrashes /\ interrupted \in BOOLEAN
  /\ made \in Nat /\ merged \in SUBSET Tasks /\ rejected \in SUBSET Tasks

\* A task is only ever begun on the success of all it waits for, through
\* batches, failures, cancellation, a dead executor and recovery.
BegunAfterDependencies ==
  \A t \in Tasks : task[t] \in {"READY", "RUNNING", "SUCCEEDED", "FAILED"} =>
    \A d \in Deps[t] : task[d] = "SUCCEEDED"

\* _parallel_batches: two tasks at work never have overlapping write scopes,
\* and no more are at work than the configuration allows, even while the
\* coroutines of a dead executor finish by themselves.
NoOverlap ==
  LET atWork == {t \in Tasks : Begun(t)} IN
  /\ \A t, u \in atWork : t # u => {t, u} \notin Clash
  /\ Cardinality(atWork) <= MaxParallel

\* reserve_attempt, "Reserving up front is what makes the cap a cap": the
\* attempts concurrent tasks, their retries and their reviews really make
\* never exceed it, and one is made only for a reservation.
BudgetIsACap == made <= MaxAttempts /\ made <= attempts

\* A task is not closed while an attempt of its own is open.  (One whose row
\* was just written when the process died is never closed: CREATED.)
ClosedWithItsAttempt ==
  \A t \in Tasks : task[t] \in {"SUCCEEDED", "FAILED", "CANCELLED"} =>
    attempt[t] \in AttemptTerminal \cup {"NONE"} \cup (IF crashes > 0 THEN {"CREATED"} ELSE {})

\* "a change that a reviewer rejects must never have reached the target
\* branch", and "a task that cannot be integrated is not a task that
\* succeeded".
HonestIntegration ==
  /\ merged \cap rejected = {}
  /\ \A t \in Isolated : task[t] = "SUCCEEDED" => t \in merged

\* A run is handed to verification only with all its tasks succeeded.
VerifiedWorkIsDone == run = "VERIFYING" => \A t \in Tasks : task[t] = "SUCCEEDED"

\* The tables hold of the rows themselves and not only of the copies the
\* guard looks at: nobody overwrites a row another has moved.  An attempt row
\* is only succeeded by another when it is closed, or was never started.
LegalMoves ==
  [][/\ run' # run /\ run # "NONE" => run' \in RunMoves[run]
     /\ \A t \in Tasks :
          /\ task'[t] # task[t] /\ task[t] # "NONE" => task'[t] \in TaskMoves[task[t]]
          /\ attempt'[t] # attempt[t] =>
               IF attempt'[t] = "CREATED" THEN attempt[t] \in AttemptTerminal \cup {"NONE"}
               ELSE attempt'[t] \in AttemptMoves[attempt[t]]]_vars

\* "a task or attempt left in a running state has no live process behind it":
\* whatever a crash leaves, also one in the middle of recovery, nothing is
\* RUNNING when recover_run has returned.
RecoveredNothingRuns ==
  rpc = "done" =>
    \A t \in Tasks : task[t] # "RUNNING" /\ attempt[t] \notin {"STARTING", "RUNNING"}

\* The rows say what was done: tasks begin after what they depend on, a merge
\* and a verified run stand for work that succeeded, recovery leaves nothing open.
HonestRun == /\ TypeOK /\ BegunAfterDependencies /\ HonestIntegration
             /\ VerifiedWorkIsDone /\ RecoveredNothingRuns

\* A run settles by itself, unless it is cancelled, the process dies, a
\* coroutine raises or the budget stops a task before its first attempt.
RunSettles ==
  epc = "created" ~>
    \/ run \in {"VERIFYING", "FAILED", "CANCELLED"}
    \/ requested \/ epc \in {"crashed", "dead"}
    \/ \E t \in Tasks : tpc[t] = "done" /\ task[t] = "READY"

\* A request that is there before the executor's last look at the registry
\* ends the run CANCELLED, with nothing in it open, unless the executor dies.
CancelCarriedOut ==
  (requested /\ epc \in {"created", "schedule", "advance", "ready", "batch", "gather"})
    ~> \/ run = "CANCELLED" /\ \A t \in Tasks : task[t] \notin {"PLANNED", "READY", "RUNNING"}
       \/ epc \in {"crashed", "dead"}

-----------------------------------------------------------------------------
(* What the documentation says and the code does not keep. *)

\* cancel_run: "accepting a request that cannot be carried out is worse than
\* refusing it".
AcceptedIsCarriedOut == cpc = "kill" ~> (run = "CANCELLED" \/ epc = "crashed")

\* "records the request; the runner checks it between tasks and winds down."
CancelWindsDown ==
  cpc = "kill" ~> (run \notin ActiveRun \/ epc = "crashed")

\* Scheduler: a failure is a state of the run.  A run nobody cancels does not
\* stay active for good.
StoppedIsSettled ==
  epc = "created" ~> (run \notin ActiveRun \/ requested \/ epc = "crashed")

\* "moves the run to BLOCKED if any task was interrupted".
RecoveryBlocks == rpc = "done" /\ interrupted => run # "RUNNING"
=============================================================================
