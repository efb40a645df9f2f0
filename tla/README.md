# Atlas Flow in TLA+

Atlas Flow turns a discussed and reviewed plan into a run: tasks are
materialised from the plan, handed to coding agents in dependency order, and
every change of state is stored with an event that explains it. This directory
holds a formal model of it, the TLC configurations that check the model, and the
TLAPS proofs about it.

The repository holds two implementations of one design. `src/` is the .NET
application, which is the product. `reference/python-backend/` is the runtime it
is being ported from; it has much that the port does not have yet (parallel
batches, retries, review, worktrees, recovery, settings, the agent protocol in
use, goal gates, the documentation tool), and so is modelled for its own sake.
.NET paths below are relative to `src/`, Python paths to
`reference/python-backend/atlas_flow/`.

## 1. Inventory

| Part | State it keeps | Operations | What is hard | Module |
| --- | --- | --- | --- | --- |
| Lifecycle (`AtlasFlow.Domain/Execution`) | none: three tables | `CanTransition`, `IsTerminal` | a move is checked against a copy, not against the row | `Lifecycle` |
| Run service (`AtlasFlow.Application`) | `_inFlight`: tokens of live runs | `StartAsync`, `CancelAsync`, `WatchAsync` | start and cancel race; the engine runs unawaited; watchers come and go | `RunEngine`, `PlanLifecycle`, `EventStream` |
| Run engine, scheduler (`AtlasFlow.Orchestration/Execution`) | lists and records it has read | `ExecuteAsync`, `RunOneAsync`, `CancelRunAsync`, `EvaluateCompletionAsync` | stale lists; one token both for stopping and for its own database calls; any call may fail and nobody hears of it; a crash | `RunEngine` |
| Run repository, database (`AtlasFlow.Persistence`) | rows of runs, tasks, attempts; the event log | `SaveAsync`, `TransitionAsync`, `CommitAsync` | one gate per call, none across calls | `RunEngine`, `EventStream` |
| Event store | listeners | `AppendAsync`, `PublishAsync`, `Subscribe` | published after the commit, outside the gate | `EventStream` over `EventFeed` |
| Plan service, plan repository | the plan's row | `CreateAsync`, `LockAsync`, `SaveAsync` | find and write are two calls | `PlanLifecycle` |
| Goal runner, harness, scheduler (`execution/`, `harness/`) | outcomes, batches, rows | `execute`, `_run_task`, `_attempt_with_fallback`, `_cross_provider_review`, `cancel_task`, `recover_run` | concurrent coroutines; exceptions through `gather`; an attempt killed at any point; a crash inside recovery | `GoalRun` |
| Budget, cancellation | counters; requests | `reserve_attempt`, `record`, `request` | check and claim; a request after the last look | `GoalRun` |
| Agent protocol (`acp/`, `runners/acp.py`) | pending calls, sessions, updates | `call`, `_read_loop`, `prompt`, `run` | late answers, a dying agent, one that does not read, requests in both directions, a session the agent forgot | `AcpSession` |
| Persistence and push (`execution/persistence.py`, `api/websocket.py`) | one SQLite connection; a table of sockets | `_transaction`, `_execute`, `broadcast`, `connect` | cancellation between two statements on a shared connection; reconnects | `Store` |
| Goals and evidence (`goals/`, `verification/`, `scripts/`) | YAML files, a cache, rows | `resolve_project`, `evaluate_gate`, `complete_goal`, `attach_evidence.py` | four writers of one file; threads share the cache | `GoalFiles` |
| Settings (`settings.py`, `config.py`) | a user's file, project files, the environment | `apply_settings`, `reset_settings`, `load` | two readers that must agree; a save over several files | `Settings` |
| Discussion and plans (`discuss/`, `execution/plans.py`, `api/routes.py`) | decisions, drafts, plans, ADR files | accept, finalize, lock, start | load and write are two awaits; the save that spends a plan may fail; titles that share a file name; a finalization dies half-way | `Authoring` |
| Plan graph (`planner/dag.py`, `planner/worktree.py`) | none | `validate_dag`, `dependency_aware_order`, `can_coexist`, `partition_parallel_safe` | cycles, unknown ids, nested and root scopes | `TaskGraph` |
| Model routing (`routing/`) | the probed registry, a scorecard | `refresh`, `route`, `select_high_risk_reviewer`, `_fallback_candidates` | the registry changes between two looks | `Routing`, with `TaskGraph` in `Dispatch` |
| Documentation tool (`cli.py`, `evolution/`) | index, site, ledger, summary | `validate`, `graph`, `site`, `cost`, `context`, `impact` | processes killed between two files; documents edited meanwhile | `Knowledge`, `Commands` |
| View models, shells, project inspection, redaction, context engine, workforce, MCP registry, guard | little or none | load, list, convert | sequential | none (section 5) |

The parts interact by calls and through shared rows and files. In .NET the
engine, the callers of `CancelAsync` and the watchers run on different threads
and share rows, the token table and the listener list. In Python all coroutines
share one event loop, one database connection, the registry of cancel requests
and the registry of models; the tools and scripts are processes of their own
that share files with it.

What makes each part correct, in short:

- a task starts only after what it waits for succeeded, and never twice; rows
  move only along the tables; a run left alone settles, one that was left behind
  can be closed;
- a plan gives one run, and only after it was reviewed;
- a watcher gets every event once, in order, and is released; what was reported
  to a caller is what a restart finds;
- parallel tasks stay within the budget and out of each other's files, nothing
  rejected is merged, recovery leaves nothing running;
- a call to an agent is answered by its own answer or ends by itself, and an edit
  that was denied is not reported as done;
- a goal is closed on evidence for each of its gates, wherever it is looked at;
- a setting shown is the setting in force at the next start, and no save makes
  the configuration unreadable;
- ADRs and sites say what the decisions and documents say, and hand-written
  files survive.

`PROJECT.json` lists the hazards behind these, line by line, with the property
for each, and for every definition the lines it stands for.

## 2. Modules

| Module | Models | Uses | Instance | Proofs |
| --- | --- | --- | --- | --- |
| `Lifecycle` | states and transition tables | | | |
| `RunEngine` | one run in .NET: start, engine, cancel, crash | `Lifecycle` | `MCRunEngine` | `RuntimeProofs` |
| `PlanLifecycle` | one .NET plan and the runs started from it | | `MCPlanLifecycle` | `RuntimeProofs` |
| `EventFeed` | abstract: what `WatchAsync` promises | | | |
| `EventStream` | commit, publish, subscribe, replay, live | instance of `EventFeed` | `MCEventStream` | `EventStreamProofs` |
| `GoalRun` | one run in Python: batches, tasks, attempts, cancel, recovery | `Lifecycle` | `MCGoalRun` | `GoalRunProofs` |
| `AcpSession` | runs over agent processes, both ends of the pipe | | `MCAcpSession` | `AcpSessionProofs` |
| `Store` | the shared connection, and the push to sockets | | `MCStore` | `StoreProofs` |
| `GoalFiles` | goal files, cache, evidence, completion, scripts | | `MCGoalFiles` | `FilesProofs` |
| `Settings` | files of two scopes, environment, saves and resets | | `MCSettings` | `FilesProofs` |
| `Authoring` | decisions, finalization, plans, starts | | `MCAuthoring` | `DocumentsProofs` |
| `TaskGraph` | validation, order, overlap, batches | | | |
| `Routing` | probe, route, fallback, review, scorecard | | | |
| `Dispatch` | a validated plan carried out by the router | `TaskGraph`, `Routing` | `MCDispatch` | `DispatchProofs` |
| `Knowledge` | documents, registry, graph, context plan, impact | | | `DocumentsProofs` |
| `Commands` | the commands that write, as processes | `Knowledge` | `MCCommands` | `DocumentsProofs` |

**RunEngine.** `run` and `task` are the rows. `pc` is where `ExecuteAsync`
stands (a point per database call), `ready`, `cur` and `to` what it holds in
memory, `token` and `inFlight` the cancellation source and its entry in
`_inFlight`. `cpc[p]` and `snap[p]` are the same for each closer, that is each
caller of `CancelAsync` and the engine itself when it closes its run. Any
database call may fail: the engine's on its own account (`CallFails`) or because
the token it was given is signalled (`Throws`), a closer's in `CloseFails`. The
exception leaves the engine at `unwind` and, past the catch that records nothing,
at `dead`; `exited` is an engine that returned. `RunInHand` is the state of the
`Run` object that `TransitionAsync` checks. `started`, `succeeded` and `raced` are
history. The attempt rows are left out: the engine does not write any.

**PlanLifecycle.** One row, with the find and the write of `SaveAsync` as two
steps. Clients that lock and clients that start interleave; each call may be
abandoned at every database call. `locked`, the clients that have written LOCKED,
is history. Its specification is `PlanSpec`, as that of
`Settings` is `SettingsSpec` and that of `Commands` is `CommandsSpec`: these names
are apart from those of the module that is proved about in the same file.

**EventStream.** An event is its position in the log. Publishing copies the
listeners and calls them one by one after the commit. A watcher subscribes,
lists, replays and goes live; it may leave at any time. `FeedSpec` is the
abstract feed, whose `state` is `open` while a watcher lists, replays or is live
and `wpc` otherwise.

**GoalRun.** `epc` is where `execute` stands, `tpc[t]` where the coroutine of
task t does, `cpc` the cancel route, `rpc` `recover_run`. A step runs from one
await that matters to the next. `attempt[t]` is the state of t's last attempt
row. `attempts` and `spent` are the budget, `made`, `merged`, `rejected` and
`interrupted` history. The runner, the reviewer and git are oracles.
`recover_run` is exported but nothing in the product calls it, so its steps
carry no fairness. A graceful shutdown, which cancels the background tasks
(`api/app.py`), is not modelled; the crash is.

**AcpSession.** `pc` is where `AcpRunner.run` stands, `fut` and `pending` the
calls of its connection, `reader` the read loop, which awaits each handler
before it reads on. `agent` is the process: alive, mute (its output closed) or
dead. Each method is called once on a connection, so a request id is its
method. A request is registered and then written; the write waits at `drain` while
the agent leaves its stdin full, as the read loop does at `replying` with an
answer. The agent may answer in any order, late or not at all. It sends updates
while it carries out a `session/load` or a prompt, also when the client has given
up on that call, and permission requests while it carries out a prompt; what it
would send of its own accord otherwise is left out.

**Store.** `queue` is the worker thread's queue of statements, `mem` what the
connection sees and `disk` what a restart would find. A cancelled coroutine
leaves its statement in the queue. A write opens a transaction if none is open,
and a commit takes everything written since the last one. Sockets connect, drop
unnoticed, and are replaced in `table` by a second one of their session.

**GoalFiles.** A file is its content and its mtime. Readers parse file by file
between two computations of the signature; the script and `complete_goal` read a
file and write it back later; hands edit it in between.

**Settings.** `entries` holds a value per key and file, `running` the configuration
the server started with. `Shown` is what the settings route computes and
`Config` what `AtlasFlowConfig.load` would; each is translated from its own code.

**Authoring.** Requests that lock, start and accept stand between two awaits of
the database, any of which may raise; `adrift` holds the runs whose request could
then not save the plan as CONSUMED. The file of an ADR is its number and the slug
of its title (`AdrPath`), which other titles may have too; `adrOf` is the decision
that a file was last written for. A finalization loads, then writes its files one
by one and may die inside a write.

**TaskGraph, Routing, Dispatch.** The depth-first colouring, the rounds of the
order and the pass over scopes are actions; reference definitions (a cycle, a
topological order, an overlap) are stated on their own and compared. Scopes are
keyed by id, as the dictionary of `partition_parallel_safe` is: of two nodes with
one id the first gives the place and the last the scope. A path `""` is
the root: `_shared_prefix` never reports it and `can_coexist` keeps it apart from
another `""` only, although it contains every other scope. `Overlap` is the
documented relation (two scopes under which one file may be written); what the
code reports is compared with it `BelowRoot`, and the root is `RootKeptApart`. The
registry is probed once per process, in the background, while tasks are routed;
the probe may die without an answer (`ProbeDies`).
`FirstIn` and `Kept` are the router's loops over a list: the first that is
reachable, and all that are, in the order of the list.

**Knowledge, Commands.** `Knowledge` is pure: registry, graph, context plan and
impact of a set of documents. `Commands` runs the commands that write as
processes, a step per file, killed between any two. A build that finds a marker
removes what it lists file by file and the marker last; `site.search` is empty or
holds the set of pages that `search.json` lists, so that what a site shows is its
pages and what its search finds. `crossed` says that two builds have run at once,
which nothing prevents. A reference is looked up as it is written and then without
its leading `./` (`Stripped`). `Unambiguous` says that no document declares the
id `AGENTS.md` or the path of the Atlas; the code does not ask for it
(`validate_project` looks for duplicates only, and the field `id` has no pattern).
Without it a required document can be left out, since `_add_unique` finds its id
in the context already, so it is the precondition of the first half of
`RequiredOnce`.

Operators that a comment introduces as a *mutant* are wrong variants of the
definition that follows. No specification uses them; they exist to show that
the properties would notice such a mistake.

## 3. What is checked

| Run | Instance | States | Properties | Shows |
| --- | --- | --- | --- | --- |
| `RunEngine` | 3 tasks, b behind a, 2 callers, 1 crash, any call may fail | 576,821 | `DependenciesDone`, `EndsHonestly`, `RunsOnce`, `LegalWhenAlone`, `RunsSettle` | tasks start after their dependencies and once; VERIFYING means all succeeded; what `CancelRunAsync` closed stays closed; an engine that returns leaves a settled run, one that dies of a failed call leaves at most one task in hand; moves are legal while nobody closes a run under the engine; a run settles unless it is cancelled or a call fails, and an abandoned one can be closed |
| `PlanLifecycle` | 2 lockers, 2 starters, 4 runs | 4,320 | `RunsAreReviewed`, `LaunchesFollowLocks`, `LockersWriteOnce` | only reviewed plans run; each client writes LOCKED at most once, also over a spent plan; no client launches the plan more often than it was locked, and a launched plan that is not spent was locked again |
| `EventStreamEngine` | 1 writer, 2 watchers, 3 events | 100,247 | `FeedSpec` | with the engine as the only writer the stream implements `EventFeed`, liveness included |
| `EventStreamTwo` | 2 writers, 1 watcher, 4 events | 95,967 | `NoRepetition`, `StreamIsWhole`, `WatchersComplete` | nothing is repeated or falls between replay and channel; a stream ends behind a stopping event only, and does end |
| `GoalRun` | 4 tasks, 2 at a time, budget 4, 2 crashes | 103,560 | `HonestRun`, `BudgetIsACap`, `ClosedWithItsAttempt`, `NoOverlap`, `LegalMoves`, `RunSettles`, `CancelCarriedOut` | a Python run under concurrency, review, failing git, cancellation, and crashes inside the run and inside recovery |
| `AcpSession` | 2 runs, 2 unread lines, 1 permission request | 1,106,475 | `OwnAnswer`, `NothingLeftBehind`, `HonestResult`, `CallsEnd` | a late answer reaches nobody; closing leaves no call, no process, no loop; edits are reported and a denied one is no success; every run and every request ends, unless the agent leaves its stdin full for ever |
| `Store` | 2 coroutines, 2 sockets, 2 operations, a fault of each sort | 698,224 | `StoreIsHonest`, `DeliveredToOpen`, `EveryCallEnds` | row and event together unless cancelled inside; what was shown is durable; what was refused is not stored; every open socket is sent to; no caller waits for ever |
| `GoalFiles` | 2 goals, 1 running, 2 gates, 1 thread, 2 writes, 2 pieces of evidence | 4,517,928 | `CacheFresh`, `EvidenceDecides` | the cache is what its signature stands for; failures count and missing passes are missed in all four places that look at evidence |
| `Settings` | 4 keys, 4 files, 2 saves, 1 edit | 442,857 | `ShownIsConfig`, `RequestIsExact`, `StaysLoadable` | two translations of precedence agree; a save changes what it was asked to and nothing else, or nothing; only a hand breaks a file |
| `Authoring` | 1 plan, 2 lockers (symmetric), 1 starter, 2 decisions with equal or different slugs, 2 finalizations, 2 runs, 1 edit | 3,386,520 | `PlansRunOnce`, `AdrsFollow`, `HandEditsKept` | what runs was locked, and once unless requests overlap or the plan could not be saved as CONSUMED; ADRs are of accepted decisions, and each of those has a file under its number and slug; edits survive |
| `Dispatch` | 3 task ids and an unknown one, 1 fallback, 2 starts, 3 tasks begun | 1,154,502 | `PlanIsSound`, `RoutingIsSound`, `TaskSettles` | every plan of three nodes through the graph algorithms; overlaps below the root kept apart; routing while the registry is probed or its probe dies; no model twice; an independent reviewer |
| `Commands` | 2 processes (symmetric), 3 paths, 9 contents for each, 3 commands, 1 edit | 483,933 | `SiteWithinVisibility`, `SummaryCountsOnce`, `AnswersAreExact` | no page above the visibility the marker names, on the disk or in the search, whatever was killed and ran beside, until two builds run at once; the last report of a task counts; impact and budget are exact |

Several properties are conjunctions of named parts, each with a comment of its
own in its module:

- `EndsHonestly` (RunEngine): `TypeOK`, `VerifiedWorkIsDone`,
  `ClosedMeansClosed`, `ReturnSettles`, `LeavesLittleInHand`; `RunsSettle`:
  `UncancelledRunSettles`, `CancelClosesAbandoned`.
- `LaunchesFollowLocks` (PlanLifecycle): `LaunchedOncePerLock`,
  `SpentUnlessRelocked`.
- `StreamIsWhole` (EventStream): `TypeOK`, `NothingSlipsBetween`,
  `CompleteMeansStopped`.
- `HonestRun` (GoalRun): `TypeOK`, `BegunAfterDependencies`,
  `HonestIntegration`, `VerifiedWorkIsDone`, `RecoveredNothingRuns`.
- `HonestResult` (AcpSession): `TypeOK`, `EditsReported`, `DeniedIsNoSuccess`,
  `OwnUpdates`, `NotTriedTwice`; `CallsEnd`: `OneOutcome`, `EveryRunEnds`,
  `AskAnswered`.
- `StoreIsHonest` (Store): `TypeOK`, `UncancelledAtomic`, `PublishedIsDurable`,
  `FailedStaysOut`.
- `EvidenceDecides` (GoalFiles): `TypeOK`, `ViewsAgree`, `FailureIsKept`,
  `ClosedOnEvidence`, `ScriptCovers`.
- `RequestIsExact` (Settings): `SettingsTypeOK`, `SavedExactly`, `RefusedWritesNothing`.
- `PlansRunOnce` (Authoring): `TypeOK`, `OnlyLockedRuns`, `ConsumedWasStarted`,
  `OneRunPerPlan`; `AdrsFollow`: `AdrsAreAccepted`, `FinalizedHasAdr`.
- `PlanIsSound` (TaskGraph): `AcceptedHasOrder`, `RefusedForCause`,
  `OrderIsExact`, `OverlapIsReported`, `BatchesAreDisjoint`, and `NeverStranded`
  of Dispatch; `RoutingIsSound` (Routing): `TypeOK` of Dispatch,
  `RouterFollowsRegistry`, `NothingForgotten`, `TriedOnce`, `IndependentReview`.
- `AnswersAreExact` (Commands): `CommandsTypeOK`, and, while nothing has been written
  (`Fresh`), `ImpactIsExact`, `BudgetIsKept`, `RequiredOnce` of Knowledge. The answers
  read the documents alone and every corpus is an initial state, so the run misses
  nothing by it; `AnswersCorrect` proves them of every reachable state.

### Bounds

- Tasks in `RunEngine`: three, because one must wait, one must be independent,
  and one pass of the loop must follow another. Callers: two, the least with
  which two closers meet.
- Events: three or four; a stopping event, one before and one after it, and one
  in the gap between subscribe and replay.
- `PlanLifecycle`: two clients that lock, the least with which a stale lock is
  written over a spent plan, and two that start; `MaxRuns` 4 leaves each a second
  launch.
- `GoalRun`: a and b clash, c waits for a, d is reviewed and isolated like a; so a
  batch is full, one is split by scopes, and one follows another. `Retries = 0`
  gives one attempt per task, which a fallback (`Limit = 3`) or a review then
  takes from another task. Two crashes: one in the run and one inside recovery.
- `AcpSession`: two runs, for a session that is resumed; two unread lines, for an
  answer behind an update; one permission request, which suffices to block the
  read loop while a prompt waits.
- `Store`: one crash, one failing statement and one cancellation, each at every
  point of two operations that interleave on one connection.
- `GoalFiles`: two writes, so that a read and its write can enclose another; one
  thread, because threads share nothing but the cache and each of them is
  checked against files that change under it. `CacheFresh` is proved for any
  number.
- `Settings`: a key per case of the two readers (environment or not, restart or
  not, a file that is not read, a null that is skipped, a section or none).
  `SettingsTwo.cfg` has two requests at once and passes too.
- `Authoring`: two requests to lock, of which one may write over what became of the
  plan since; one client that starts, again and again, so that a start follows one
  whose save failed (two starts that cross are outside of `OneRunPerPlan`, and the
  theorems are for any number); two decisions whose numbers may shift, with one
  slug or two; a second finalization over what the first one left.
- `Dispatch`: three nodes make every shape of cycle (of one, two and three nodes,
  and one entered from outside) and of overlap (equal, nested, disjoint, and the
  root with each).
- `Commands`: the pure answers are compared over all 729 corpora of three
  documents with nine contents; the processes run on one corpus, edited once, in
  any of three ways. Two processes are alike, so they are a symmetry set.

Deadlock checking is off where the modelled system may stop: a plan that is
spent, a stream that is over, a run with no executor, requests that are used up.
It is on for `RunEngine`, where `CancelAsync` can be called in every state.

### Fairness

- `RunEngine`: weak fairness of the engine's next step, of each closer's and of
  each caller's once begun. The thread pool runs them, the database answers or
  fails, and a runner returns. The failures (`CallFails`, `CloseFails`) have no
  fairness and nothing rules them out; nothing makes anyone call `CancelAsync`,
  and nothing prevents a crash.
- `EventStream`: weak fairness of publishing and of each watcher's steps: a
  consumer keeps reading its channel until it leaves. Commits have none.
- `GoalRun`: weak fairness of the executor, of every task coroutine and of the
  route once it has read the run. A runner is taken to end: that of the command
  line does by its timeout (`runners/cli.py:40`), that of an ACP agent unless the
  agent leaves its stdin full (`StalledRunEnds` below). None for cancel requests,
  crashes or `recover_run`.
- `AcpSession`: weak fairness of the run and of the read loop. Waits for an answer
  have a timeout, which is a step of the run; waits inside a write have none
  (`protocol.py:103`), and end only when the agent reads or exits. The agent owes
  nothing: it may answer nothing and read nothing.
- `Store`: weak fairness of the worker thread and of each caller's own steps;
  strong fairness of taking the lock, since `asyncio.Lock` hands it on in the
  order of the waiters.
- `Dispatch`: weak fairness of planning, of beginning and of carrying out, where a
  runner is taken to end as in `GoalRun`. None for the probe, for stops and for
  restarts.
- `PlanLifecycle`, `GoalFiles`, `Settings`, `Authoring` and `Commands` have none;
  they promise only safety.

### What the code does not keep

The modules also state what a comment, a document or the design says and the
code does not do. These definitions are no part of a listed run. Ten
configurations beside the runs each show one with the MC module of its prefix
(`PlanRelock` with `MCPlanLifecycle`); for the others, put the
definition into the configuration named.

| Definition | Configuration | What happens |
| --- | --- | --- |
| `FailureIsRecorded` | in `RunEngine` | `RunService.cs:118` "there is nowhere better to put it than the run's own final state"; the catch puts nothing there, and a run whose engine died of a failed call stays RUNNING until somebody cancels it |
| `CancelReachesTerminal` | `RunEngineCancel` | `IRunService.cs:28` "The run reaches CANCELLED when its in-flight attempts have been torn down"; the engine's own database call throws on the cancelled token, `StartInBackground` swallows it (`RunService.cs:114`) and the run stays where it was |
| `UnlistedMovesRefused` | in `RunEngine` | `StateMachine.cs:8` "A transition that is not listed is refused"; `RunRepository.cs:71` checks the caller's record, and a `CancelAsync` before the token is registered closes rows the engine then moves on |
| `OrphanIsClosed` | in `RunEngineCancel` | `RunService.cs:139` "refusing to close it would leave it looking active forever"; a run whose start failed is CREATED, which `Scheduler.cs:145` does not close |
| `OneRunPerPlan` | in `PlanLifecycle` | `RunService.cs:84` "That is what stops one reviewed plan producing two runs"; two starts both find LOCKED, and CONSUMED over CONSUMED is a silent no-op |
| `LockedPlanOnlyConsumed` | `PlanRelock` | `PlanRepository.cs:30` "The single change a locked plan may undergo is to Consumed"; of two clients that lock, the one that had read the draft writes LOCKED over CONSUMED (`PlanRepository.cs:58`) |
| `NothingLost` | `EventStreamLost` | `RunService.cs:150` "with nothing lost in between"; two writers publish in the other order than they committed, and a stream ends without the earlier event |
| `AcceptedIsCarriedOut` | `GoalRunAccepted` | `api/routes.py:503` "accepting a request that cannot be carried out is worse than refusing it"; a request after the executor's last look is answered 202 and forgotten |
| `CancelWindsDown` | `GoalRunReview` | a cancelled review raises through `gather` (`goal_runner.py:456`): `execute` ends, the run stays RUNNING |
| `StoppedIsSettled` | `GoalRunBudget`, `GoalRunGit` | a task stopped by the budget before its first attempt stays READY, a git error ends `execute`: the run stays RUNNING in both |
| `RecoveryBlocks` | `GoalRunRecovery` | `RECOVERY.md:15` "moves the run to BLOCKED if any task was interrupted"; not when the crash was between the last task and the run |
| `TransitionAtomic` | in `Store` | `persistence.py:469` "Either both the row and the event land, or neither does"; a `CancelledError` between two statements is no `Exception`, nothing is rolled back, and the next commit stores half |
| `StalledRunEnds` | in `AcpSession` | `acp/protocol.py:86` writes before `wait_for` and `drain()` (`:103`) has no timeout: a call to an agent that does not read its stdin waits as long as the agent lives |
| `OpenIsRegistered` | `StoreReconnect` | the late disconnect of an old socket removes the new one of its session |
| `DoneIsAccepted` | in `GoalFiles` | `complete_goal` and the script write DONE where `validate_goals.py` refuses it: they look neither at dependencies nor at failing entries that are there |
| `SavedIsInForce` | in `Settings` | a saved key marked "new runs" (`settings.py:65`) is not in force: the server keeps the configuration it started with |
| `RefusedResetsNothing` | in `Settings` | a reset refused at one file has already reset the keys before it (`settings.py:340`) |
| `NeverRunnableAgain` | in `Authoring` | `save_plan` loads, awaits and writes (`persistence.py:273`): of two requests that lock, the later writes LOCKED over CONSUMED |
| `OneRunEver` | in `Authoring` | `create_run` starts the executor (`api/routes.py:580`) before `save_plan` (`:587`), which may raise: the plan stays LOCKED with its run under way, and the next request runs it again |
| `FinalizedHasOwnAdr` | in `Authoring` | the file of an ADR is its number and the slug of its title (`discuss/finalize.py:85-91`): of two decisions with one slug the second may find its file there already, as the other's, and get none |
| `FinalizedAdrIsWhole` | in `Authoring` | an ADR half-written by a crash exists and is left alone for good (`discuss/finalize.py:113`) |
| `NumberIsUnique` | in `Authoring` | an ADR's number is its position among the accepted decisions (`discuss/finalize.py:85`), which a later acceptance of an earlier one shifts |
| `LedgerFollows` | in `Authoring` | the first ledger stays as it is in later finalizations |
| `RootKeptApart` | in `Dispatch` | `GIT_WORKTREES.md:13` "a scope that contains another is treated as overlapping", as the docstring of `can_coexist` (`planner/worktree.py:47`) says; the root contains every other scope and shares no segment with any, so it is put into their batch |
| `PendingIsProbed` | in `Dispatch` | `routing/discovery.py:80` "A missing or failing harness is a degraded state"; only `FileNotFoundError` is (`:92`), another error ends the probe and the registry stays pending for good |
| `OnlyLiveTried` | in `Dispatch` | `MODEL_ROUTER.md:57` "an unreachable model is not a fallback"; the model that was selected is tried although the probe has dropped it since |
| `SiteAlwaysWithin` | `CommandsTwoBuilds` | two builds of one directory at once, which nothing prevents, leave pages of the one under the marker of the other |
| `NeverRefused` | in `Commands` | a build killed after it removed the marker leaves pages without one, and every later build refuses the directory (`evolution/site.py:53`) |
| `IndexIsValid` | in `Commands` | `validate --write` writes what it reads after it has validated (`cli.py:198`) |
| `LedgerReadable` | in `Commands` | an append that is killed leaves a torn line, and every later command that reads the ledger fails (`evolution/intelligence.py:115`) |
| `NoFileTwice` | in `Commands` | a context names a file by its path and again by its id |

## 4. What is proved

Each theorem holds for every value of the constants that satisfies the named
assumptions of its module and of the modules that one extends; nothing else is
assumed. "Any number" below means any set, empty ones included. Each invariant
named below was first checked by TLC on the run of its component. A theorem is
about properties of a module that its own module EXTENDS; where two components
share a proof module, their names are kept apart, and the theorems of the one use
nothing of the other.

**RuntimeProofs**, of `RunEngine` (any plan graph and any number of callers):
`TypeCorrect`, `DependenciesCorrect`, `VerifiedCorrect`, `RunsOnceCorrect` by
`OrderInv`, `EndsCorrect` by `EndInv`, and `LegalCorrect` by `AloneInv`. All of them
hold with any call of the engine or of a closer failing.

- `TypeInv` is `TypeOK` and `Decided`: what the engine has decided fits the row
  it is going to write. Without it `Settle` could write anything.
- `WorkInv` ties the history to the rows and to the engine's memory: a row that
  says SUCCEEDED is of a task in `succeeded`, and what the engine holds in `ready`
  or `cur` has all its dependencies there. A row alone does not do, since a
  closer may overwrite it at any time; it can only lose SUCCEEDED by that.
- `OnceInv` says that the list in hand holds no started task and that a started
  task is never PLANNED again, so that no later pass lists it.
- `CloseInv` says that a closer has listed every open row and that, unless the
  two raced, it is alone: so nobody opens a row behind it. `LeaveInv` says that
  only the task in hand is between PLANNED and its end. That an engine which
  finds nothing ready has a verdict to write rests on the graph being acyclic
  (`NothingReadyIsAVerdict`, from `DepsAssumption`).
- `RowsInv` says what the engine's place and the objects in its memory tell of the
  rows as long as no caller's `CancelRunAsync` overlaps it. The check of
  `RunRepository.cs:71` is against those objects, so this is what makes every move
  of a row a legal one (`LegalWhenAlone`).

Closers write rows but never the engine's memory or the history; `CloserStep`
states that once and each theorem uses it.

**RuntimeProofs**, of `PlanLifecycle` (any number of clients): `PlanTypeCorrect` (every launch
has a row of its own, `RowsInv`), `ReviewCorrect` and `ConsumedCorrect` (by
`SeenInv`: what a client saw at its find still bounds what the plan can be when
it writes), `LockersCorrect` and `LaunchesCorrect` (by `LockInv`: nothing is a draft
after the first lock, and while the plan is LOCKED, or a client past its find, one
of the locks is not used up by the launches of that client). None has a hypothesis
on the clients.

**EventStreamProofs** (any number of writers, watchers and events):

- `RepetitionCorrect` by `WatchInv`: `delivered` is exactly what was given, and
  while a watcher replays it has given the first events of the log.
- `WholeCorrect` by `WholeInv`: a writer has one event on its way at a time, and
  each recorded event that a live watcher was not given is in its channel or
  still to be handed to it.
- `FeedCorrect`: with one writer, every step is a step of `EventFeed` or a
  stutter, and the initial states agree. `OrderInv` says that the event on its
  way is the newest, so channels are in order and what a watcher gives is the
  log from its start. The fairness half of `FeedSpec` stays with TLC.

**StoreProofs** (any number of coroutines, sockets, operations and faults):
`StoreCorrect`, `DeliveryCorrect`. `CallInv` says who holds the lock and which
statements of whose operation are in the queue; `DataInv` what of an operation
the connection and the disk can hold at each of its statements, the cancelled
ones excepted; `DeliverInv` that every socket a broadcast owes was sent to, is
still to be sent to, or has closed.

**FilesProofs**, of `GoalFiles` (any goals, gates and readers): `CacheCorrect` by `FreshInv`,
which states of a signature taken earlier that, if it is that of the files now,
what was parsed since is what the files hold; mtimes only grow. `EvidenceCorrect`
by `EvidenceInv`: evidence is never removed, and what the script or
`complete_goal` is about to write was decided on evidence that is still there.

**FilesProofs**, of `Settings` (any keys, files, environment and number of requests
at once): `RequestCorrect`, `ShownCorrect`, `LoadableCorrect`, all from
`SettingsInv`. `Shape` is what a request has in hand at each of its points: what it
read fits the file, and a value of the wrong kind is not past the check.
`Progress` says of a request that no other crossed that the files it has still to
write are as it found them and the others as its patch makes them; without it
nothing relates the file about to be written to the one that was read. `Exact` is
the same at its end. `ShownCorrect` compares two programs, so it follows from the
types and the cases of `Source`.

**DocumentsProofs**, of `Authoring` (any plans, requests, decisions): `PlansCorrect` by
`LockedInv`, `StartedInv` and `AloneAt`, which relates a plan no two requests
were at to the one request and the runs it has, those in `adrift` apart;
`AdrsCorrect` by `AdrInv`: accepted decisions stay accepted, a finalization writes
for those it loaded, and a file under a slug of its own was written for that
decision; `EditsCorrect` from the types alone. No hypothesis is made on titles.

**DocumentsProofs**, of `Commands` and `Knowledge` (any documents, references,
budgets, tasks and costs, any number of processes):

- `SiteCorrect` by `SiteInv`: until two builds run at once, what a build has in hand
  is within what it was asked for, and from the moment it has taken the marker away
  the disk holds nothing but what it wrote. Neither other commands nor edits of the
  documents disturb it, since a build parsed them before. That two builds at once do
  is a part of the property and not a hypothesis of the theorem.
- `SummaryCorrect` by `SummaryInv`: a summary written, or about to be, is that of a
  beginning of the ledger without a torn line, which later lines leave as it is.
  `build_summary` counts a task where it first came and takes its latest record;
  that this is the sum over the records that were their task's last is
  `TotalsAgree`, by induction over the ledger.
- `AnswersCorrect`, from the types: `LastInIs` says what a dictionary filled in the
  order of the paths answers, `AddedHas` what `_add_unique` leaves of two lists,
  `HitsAre` what the ranking of the matches holds. For the budget it is enough that
  sums are numbers and that the sum of nothing is 0 (`SumExists`).

**GoalRunProofs** (any plan, batches, configuration and crashes):

- `BudgetCorrect` by `BudgetInv`: the attempts made and those reserved by a
  coroutine that has yet to write its row are together no more than `attempts`.
- `ClosedCorrect` by `AttemptInv`, the state of the attempt at each point of a
  coroutine, and `LoneInv`: outside `gather`, unless the executor died, no
  coroutine is at work, which is why `cancel_run` meets none.
- `WorkIsDoneCorrect` by `DoneInv` and `RecoverInv`: what was evaluated holds
  when it is written, and recovery closes attempts before tasks.
- `HonestCorrect`, `OverlapCorrect` and `MovesCorrect` by `Inv`, the conjunction of
  all of these with `WorkInv` (how far a row is at each point of its coroutine, and
  what was merged or rejected is not looked at again), `BatchInv` (the batches in
  hand are disjoint, within the limit and free of clashes, and each of their tasks
  still waits with its dependencies done) and `DepsInv`. That `_parallel_batches`
  splits the ready tasks this way is `BatchesSplit`, for any order of the plan.

**DispatchProofs**, of `TaskGraph`, `Routing` and `Dispatch` (any ids, dependency
lists and scopes; any roster, preferences, listings and limit): `PlanCorrect` and
`RoutingCorrect`, both from `DispatchInv`. No hypothesis is added to the assumptions
of the modules, which say what the inputs are: `IdAssumption`, `PathAssumption`
(only the path `""` begins with an empty segment), `RosterAssumption` (a roster and
a role's list name a model once) and the bounds.

- The colouring: `BlackInv` says that every set of black ids has a member that
  waits for none of the set, and that black ids lead to black ids; `StackInv` that
  the stack is a path whose ids have looked at everything but the next one. From
  these, a gray id that is met closes a cycle (`CycleIsStuck`), and an accepted plan
  has none, also where an id comes twice (`AcceptedIs`).
- The order: `OrderInv`, with an id once and after what it names; a round without
  progress leaves a stuck set behind (`OrderIs`).
- The scopes: that prefixes of one path are prefixes of each other
  (`PrefixesMeet`) makes the first-segment test and `can_coexist` complete below
  the root (`OverlapIs`, `DisjointIs`); `PlacedIs`, by induction over the nodes, puts each id in exactly one batch.
- The router: `JobInv` says that what was tried is a beginning of a list without
  repetition, capped as configured, and that a reviewer is of another provider than
  the last model tried; `CardInv` that the card is ahead of the table by what is
  `Owed` to it; `UpInv` that no probe and no job outlives the application. `KeptIs`
  and `FallbackIs` say what the loops over a list of models leave, and in which
  order.

**AcpSessionProofs** (any number of runs, unread lines and permission requests,
any kinds of update):

- `AnswerCorrect` by `WireInv`: a request is with the agent or is one line of its
  stdout, and when its call was answered it is neither. That no id is used twice
  is `CallInv`: the methods are called in one order.
- `CloseCorrect`, and `OutcomeCorrect` for `OneOutcome`: only the call that is
  made can be pending, and it is in the table.
- `ResultCorrect`, all of `HonestResult`. `AheadInv` puts the edits and the
  permission requests of a prompt ahead of its response in the pipe, so that
  they have been handled when it is read; `ReplayInv` puts what `session/load`
  replays ahead of the response to it, and needs that the load did not time out;
  `StoredInv` that the row is emptied as its session is given up. `AskInv`, which
  counts unanswered requests along the pipe, is for the type of `open`.

Induction. The library's induction theorems take an operator as a parameter and
cannot be instantiated here, so the inductions over a list (batches, the fallback
list, the rounds of the order, the ledger, the lists of a context) are stated for
a set in place of a predicate: `SetInduction` says that a set of numbers with 0
and with every successor is all of them, and `FoldExists` that a function defined
by recursion over them exists. The folds are written as recursive functions for
that reason (`Placed`, `Extended`, `Kept`, `Added`, `Hits`, `SumOf`).

Only model-checked: the liveness properties (`RunsSettle`, `WatchersComplete`,
`RunSettles`, `CancelCarriedOut`, `EveryCallEnds`, `TaskSettles`, and `CallsEnd`
but for `OneOutcome`) and the fairness half of `FeedSpec`, which are out of the
prover's reach. Every other property that a run checks is the subject of a theorem.

## 5. What is not modelled

- The C# ports of the task graph, the agent connection, goals and evidence: the
  same algorithms as the Python originals that are modelled, and nothing in the
  .NET services calls the connection or decides a gate yet.
- `RunViewModel`: its overlapping observations are a matter of the UI thread's
  dispatcher. The other view models, the desktop shell and both command-line
  entry points load, display and parse arguments.
- The command-line agent runner (`runners/cli.py`): an oracle to the harness; one
  subprocess per attempt.
- The graceful shutdown of a Python run, and git itself: `create` and `integrate`
  succeed, refuse or fail.
- In persistence the reads, the schema and the mapping of columns; in the API the
  listing routes and response schemas; in the documentation tool `init`, the
  debt ledger, freshness and coverage reports, and the choice of changed files
  by git.
- Project inspection and adaptation, the context engine, workforce resolution,
  the MCP registry, the guard, secret redaction, identifiers: each call reads its
  input, returns a value and keeps nothing between two calls.
- The sources of the old web front end.

What could come next: the two halves of a .NET run composed, `PlanLifecycle` with
`RunEngine` and `EventStream`, to check that what a client sees of its run
agrees with what the plan allows.

## 6. Running

From this directory: `tlc -config RunEngine.cfg MCRunEngine.tla` and likewise for
the other configurations; `tlapm RuntimeProofs.tla` and likewise for the other
proof modules. The longest run takes about three minutes with two workers, the longest proof under two.
