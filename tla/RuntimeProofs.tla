--------------------------- MODULE RuntimeProofs ---------------------------
(***************************************************************************)
(* What the two halves of a run in the .NET runtime guarantee.             *)
(*                                                                         *)
(* RunEngine, for every plan graph and any number of callers: type         *)
(* correctness, that a task starts only after everything it waits for has  *)
(* succeeded, that VERIFYING means every task succeeded, that no task is   *)
(* handed to the runner twice, that the end of a run, of CancelRunAsync    *)
(* and of an engine says what is so whichever calls fail, and that the     *)
(* rows keep to the tables of StateMachine while no caller overlaps the    *)
(* engine.                                                                 *)
(*                                                                         *)
(* PlanLifecycle: what the find-and-write saves of a plan guarantee        *)
(* however many clients lock and start it.                                 *)
(***************************************************************************)
EXTENDS RunEngine, PlanLifecycle, FiniteSetTheorems, TLAPS

-----------------------------------------------------------------------------
(* RunEngine: type correctness *)

\* The decision the engine carries fits the row it will write it to.
Decided ==
  /\ pc = "settle" => to \in Settled
  /\ pc = "close" => to \in {"SUCCEEDED", "FAILED", "CANCELLED"}

TypeInv == TypeOK /\ Decided

\* Where EvaluateCompletionAsync can send a run.
LEMMA CompletionType == Completion \in Settled \cup {"NONE"}
BY DEF Completion, Settled

\* No move the engine makes is refused for the object it has in hand.
LEMMA MovesArePermitted ==
  /\ pc = "start" => "PLANNING" \in RunMoves[RunInHand]
  /\ pc = "schedule" => "READY" \in RunMoves[RunInHand]
  /\ pc = "advance" => "RUNNING" \in RunMoves[RunInHand]
  /\ pc = "settle" /\ to \in Settled => to \in RunMoves[RunInHand]
BY DEF RunInHand, RunMoves, RunStates, Settled

\* What MoveRun does when the move is permitted.
Moved(from, s, p) ==
  /\ pc = from
  /\ ~token
  /\ pc' = p
  /\ run' = s
  /\ UNCHANGED <<task, ready, cur, to, token, inFlight, closer, work>>

LEMMA MovesAreMade ==
  ASSUME TypeInv
  PROVE  /\ StartAsync => Moved("start", "PLANNING", "schedule")
         /\ Schedule => Moved("schedule", "READY", "advance") /\ \A t \in Tasks : task[t] # "NONE"
         /\ Advance => Moved("advance", "RUNNING", "loop")
         /\ Settle => Moved("settle", to, "exit")
BY MovesArePermitted
DEF StartAsync, Schedule, Advance, Settle, MoveRun, Moved, TypeInv, Decided

LEMMA TypeInit == Init => TypeInv
BY DEF Init, TypeInv, TypeOK, Decided, Points, RunStates, TaskStates, Settled

\* Every step of the engine, of a closer or of a caller keeps TypeInv.
LEMMA TypeStep == TypeInv /\ [Next]_vars => TypeInv'
<1> SUFFICES ASSUME TypeInv, [Next]_vars
             PROVE  TypeInv'
  OBVIOUS
<1> USE DEF TypeInv, TypeOK, Decided, db, engine, closer, work, RunStates,
            TaskStates, Settled, Points, LivePoints, Closers
<1>1. CASE SaveRun  BY <1>1 DEF SaveRun
<1>2. CASE Launch  BY <1>2 DEF Launch
<1>3. CASE StartAsync  BY <1>3, MovesAreMade DEF Moved
<1>4. CASE Schedule  BY <1>4, MovesAreMade DEF Moved
<1>5. CASE Advance  BY <1>5, MovesAreMade DEF Moved
<1>6. CASE LoopGoesOn  BY <1>6 DEF LoopGoesOn
<1>7. CASE LoopCancels  BY <1>7 DEF LoopCancels
<1>8. CASE ListTasks  BY <1>8 DEF ListTasks, ReadyTasks
<1>9. CASE EachDone  BY <1>9 DEF EachDone
<1>10. CASE Evaluate  BY <1>10, CompletionType DEF Evaluate
<1>11. CASE Settle  BY <1>11, MovesAreMade DEF Moved
<1>12. CASE Closed  BY <1>12 DEF Closed
<1>13. CASE Throws \/ CallFails  BY <1>13 DEF Throws, CallFails, Unwind
<1>14. CASE Exit  BY <1>14 DEF Exit
<1>15. ASSUME NEW t \in Tasks, SaveTask(t) PROVE TypeInv'
  BY <1>15 DEF SaveTask
<1>16. ASSUME NEW t \in Tasks, MarkReady(t) PROVE TypeInv'
  BY <1>16 DEF MarkReady
<1>17. ASSUME NEW t \in Tasks, StartTask(t) PROVE TypeInv'
  BY <1>17 DEF StartTask
<1>18. ASSUME NEW t \in Tasks, CloseTask(t) PROVE TypeInv'
  BY <1>18 DEF CloseTask
<1>19. ASSUME NEW outcome \in {"SUCCEEDED", "FAILED", "CANCELLED"},
              RunnerReturns(outcome)
       PROVE  TypeInv'
  BY <1>19 DEF RunnerReturns
<1>20. ASSUME NEW p \in Closers, CloseList(p) PROVE TypeInv'
  BY <1>20 DEF CloseList
<1>21. ASSUME NEW p \in Closers, NEW t \in Tasks, CloseOne(p, t) PROVE TypeInv'
  BY <1>21 DEF CloseOne
<1>22. ASSUME NEW p \in Closers, CloseReload(p) PROVE TypeInv'
  BY <1>22 DEF CloseReload
<1>23. ASSUME NEW p \in Closers, CloseFinish(p) PROVE TypeInv'
  BY <1>23 DEF CloseFinish
<1>24. ASSUME NEW c \in Callers, CancelLookup(c) PROVE TypeInv'
  BY <1>24 DEF CancelLookup
<1>25. ASSUME NEW c \in Callers, CancelSignal(c) PROVE TypeInv'
  BY <1>25 DEF CancelSignal
<1>26. ASSUME NEW c \in Callers, CancelFind(c) PROVE TypeInv'
  <2>1. (raced \/ Live) \in BOOLEAN  BY DEF Live
  <2>2. CASE run \in RunTerminal  BY <1>26, <2>2 DEF CancelFind
  <2>3. CASE run \notin RunTerminal
    BY <1>26, <2>1, <2>3 DEF CancelFind
  <2> QED  BY <2>2, <2>3
<1>27. CASE StartFails  BY <1>27 DEF StartFails
<1>28. CASE Crash  BY <1>28 DEF Crash
<1>29. ASSUME NEW p \in Closers, CloseFails(p) PROVE TypeInv'
  BY <1>29 DEF CloseFails
<1>30. CASE UNCHANGED vars  BY <1>30 DEF vars
<1> QED
  BY <1>1, <1>2, <1>3, <1>4, <1>5, <1>6, <1>7, <1>8, <1>9, <1>10, <1>11,
     <1>12, <1>13, <1>14, <1>15, <1>16, <1>17, <1>18, <1>19, <1>20, <1>21,
     <1>22, <1>23, <1>24, <1>25, <1>26, <1>27, <1>28, <1>29, <1>30
  DEF Next, EngineStep, RunTask, CloseRun, CallerStep

\* Every variable keeps its type: the rows hold states of the domain's tables
\* and the engine and the closers are at one of their program points.
THEOREM TypeCorrect == Spec => []TypeOK
<1>1. TypeInv => TypeOK  BY DEF TypeInv
<1> QED  BY <1>1, TypeInit, TypeStep, PTL DEF Spec

-----------------------------------------------------------------------------
(* Work is done in the order of the graph, and once *)

\* What the order of work rests on: a row says SUCCEEDED only of a task whose
\* success the engine recorded, and what the engine holds ready was read from
\* such rows.  Rows a closer overwrites only lose SUCCEEDED.
WorkInv ==
  /\ \A t \in Tasks : task[t] \in {"SUCCEEDED", "SUPERSEDED"} => t \in succeeded
  /\ \A t \in ready \cup cur : Deps[t] \subseteq succeeded
  /\ DependenciesDone
  /\ to = "VERIFYING" => succeeded = Tasks
  /\ VerifiedWorkIsDone

\* Inside RunOneAsync.
Holding == pc \in {"ready", "run", "close"}

\* What RunsOnce rests on: a started task never becomes PLANNED again, so no
\* later pass lists it, and the list in hand holds only tasks not started.
OnceInv ==
  /\ ready \cap started = {}
  /\ cur \cap ready = {}
  /\ ~Holding => cur = {}
  /\ pc = "ready" => cur \cap started = {}
  /\ \A t \in started : task[t] \notin {"NONE", "PLANNED"}

OrderInv == TypeInv /\ WorkInv /\ OnceInv

\* The steps that touch neither the graph nor the engine's hold on it.
QuietVars == <<run, task, ready, cur, to, started, succeeded>>

LEMMA QuietStep ==
  ASSUME OrderInv, UNCHANGED QuietVars, pc' = pc \/ (~Holding /\ pc' # "ready")
  PROVE  WorkInv' /\ OnceInv'
BY DEF Holding, OrderInv, WorkInv, OnceInv, QuietVars, DependenciesDone, VerifiedWorkIsDone

\* Writes to the run's row that are no verdict about its tasks.
LEMMA RunStep ==
  ASSUME OrderInv, UNCHANGED <<task, ready, cur, to, started, succeeded>>,
         run' # "VERIFYING", ~Holding, pc' # "ready"
  PROVE  WorkInv' /\ OnceInv'
BY DEF Holding, OrderInv, WorkInv, OnceInv, DependenciesDone, VerifiedWorkIsDone

\* An engine that goes, by a failed call, a return or a crash, lets go of all.
LEMMA LetGoStep ==
  ASSUME OrderInv, UNCHANGED <<run, task, started, succeeded>>,
         ready' \subseteq ready, cur' = {}, to' = "NONE", pc' # "ready"
  PROVE  WorkInv' /\ OnceInv'
BY DEF Holding, OrderInv, WorkInv, OnceInv, DependenciesDone, VerifiedWorkIsDone

\* Every row written by a closer becomes CANCELLED.
LEMMA CloserStep ==
  ASSUME OrderInv, NEW p \in Closers, CloseRun(p)
  PROVE  WorkInv' /\ OnceInv'
<1> USE DEF db, engine, work, Holding
<1>1. CASE CloseList(p) \/ CloseReload(p)
  BY <1>1, QuietStep DEF CloseList, CloseReload, QuietVars
<1>2. CASE CloseFinish(p)
  BY <1>2 DEF CloseFinish, OrderInv, WorkInv, OnceInv, DependenciesDone,
              VerifiedWorkIsDone
<1>3. ASSUME NEW t \in Tasks, CloseOne(p, t)
      PROVE  WorkInv' /\ OnceInv'
  BY <1>3 DEF CloseOne, OrderInv, WorkInv, OnceInv, DependenciesDone,
              VerifiedWorkIsDone, TypeInv, TypeOK
<1> QED  BY <1>1, <1>2, <1>3 DEF CloseRun

\* The engine's own steps.
LEMMA EngineOrder ==
  ASSUME OrderInv, EngineStep
  PROVE  WorkInv' /\ OnceInv'
<1> USE DEF db, closer, work, Holding
<1>1. CASE SaveRun  BY <1>1, RunStep DEF SaveRun
<1>2. CASE Launch  BY <1>2, QuietStep DEF Launch, QuietVars
<1>m. TypeInv  BY DEF OrderInv
<1>3. CASE StartAsync  BY <1>3, <1>m, MovesAreMade, RunStep DEF Moved
<1>4. CASE Schedule  BY <1>4, <1>m, MovesAreMade, RunStep DEF Moved
<1>5. CASE Advance  BY <1>5, <1>m, MovesAreMade, RunStep DEF Moved
<1>6. CASE LoopGoesOn \/ LoopCancels \/ EachDone \/ Closed
  BY <1>6, QuietStep DEF LoopGoesOn, LoopCancels, EachDone, Closed, QuietVars
<1>7. CASE ListTasks
  <2>1. /\ UNCHANGED <<db, cur, to, work>>
        /\ cur = {}
        /\ ready' = ReadyTasks
        /\ pc' # "ready"
    BY <1>7 DEF ListTasks, OrderInv, OnceInv
  <2>2. \A t \in ReadyTasks : Deps[t] \subseteq succeeded
    <3> SUFFICES ASSUME NEW t \in ReadyTasks, NEW d \in Deps[t]
                 PROVE  d \in succeeded
      OBVIOUS
    <3>1. d \in Tasks  BY DepsAssumption DEF ReadyTasks
    <3> QED  BY <3>1 DEF ReadyTasks, OrderInv, WorkInv
  <2>3. WorkInv'
    BY <2>1, <2>2 DEF OrderInv, WorkInv, DependenciesDone, VerifiedWorkIsDone
  <2>4. OnceInv'
    BY <2>1 DEF OrderInv, OnceInv, ReadyTasks
  <2> QED  BY <2>3, <2>4
<1>8. CASE Evaluate
  <2>1. Completion = "VERIFYING" => succeeded = Tasks
    BY DEF Completion, OrderInv, WorkInv, TypeInv, TypeOK, TaskTerminal
  <2> QED  BY <1>8, <2>1 DEF Evaluate, OrderInv, WorkInv, OnceInv,
                             DependenciesDone, VerifiedWorkIsDone
<1>9. CASE Settle
  BY <1>9, <1>m, MovesAreMade
  DEF Moved, OrderInv, WorkInv, OnceInv, DependenciesDone, VerifiedWorkIsDone
<1>10. CASE Exit \/ Throws
  BY <1>10, LetGoStep DEF Exit, Throws, Unwind, OrderInv, OnceInv
<1>11. ASSUME NEW t \in Tasks, SaveTask(t)
       PROVE  WorkInv' /\ OnceInv'
  BY <1>11 DEF SaveTask, engine, OrderInv, WorkInv, OnceInv, DependenciesDone,
               VerifiedWorkIsDone, TypeInv, TypeOK
<1>12. ASSUME NEW t \in Tasks, MarkReady(t)
       PROVE  WorkInv' /\ OnceInv'
  BY <1>12 DEF MarkReady, OrderInv, WorkInv, OnceInv, DependenciesDone,
               VerifiedWorkIsDone, TypeInv, TypeOK
<1>13. ASSUME NEW t \in Tasks, StartTask(t)
       PROVE  WorkInv' /\ OnceInv'
  BY <1>13 DEF StartTask, OrderInv, WorkInv, OnceInv, DependenciesDone,
               VerifiedWorkIsDone, TypeInv, TypeOK
<1>14. ASSUME NEW t \in Tasks, CloseTask(t)
       PROVE  WorkInv' /\ OnceInv'
  <2> USE <1>14 DEF CloseTask, OrderInv, TypeInv, TypeOK, Decided
  <2>1. to \in {"SUCCEEDED", "FAILED", "CANCELLED"}  OBVIOUS
  <2>2. /\ succeeded \subseteq succeeded'
        /\ succeeded' \in SUBSET Tasks
        /\ to = "SUCCEEDED" => t \in succeeded'
    OBVIOUS
  <2>3. \A u \in Tasks : task'[u] = IF u = t THEN to ELSE task[u]
    OBVIOUS
  <2>4. WorkInv'
    BY <2>1, <2>2, <2>3 DEF WorkInv, DependenciesDone, VerifiedWorkIsDone
  <2>5. OnceInv'
    BY <2>1, <2>3 DEF OnceInv
  <2> QED  BY <2>4, <2>5
<1>15. ASSUME NEW outcome \in {"SUCCEEDED", "FAILED", "CANCELLED"},
              RunnerReturns(outcome)
       PROVE  WorkInv' /\ OnceInv'
  BY <1>15 DEF RunnerReturns, OrderInv, WorkInv, OnceInv, DependenciesDone,
               VerifiedWorkIsDone
<1> QED
  BY <1>1, <1>2, <1>3, <1>4, <1>5, <1>6, <1>7, <1>8, <1>9, <1>10, <1>11,
     <1>12, <1>13, <1>14, <1>15
  DEF EngineStep, RunTask

LEMMA OrderInit == Init => OrderInv
BY TypeInit
DEF Init, OrderInv, WorkInv, OnceInv, DependenciesDone, VerifiedWorkIsDone

LEMMA OrderStep == OrderInv /\ [Next]_vars => OrderInv'
<1> SUFFICES ASSUME OrderInv, [Next]_vars
             PROVE  WorkInv' /\ OnceInv'
  BY TypeStep DEF OrderInv
<1> USE DEF db, engine, work, Holding
<1>1. CASE EngineStep  BY <1>1, EngineOrder
<1>2. ASSUME NEW p \in Closers, CloseRun(p) PROVE WorkInv' /\ OnceInv'
  BY <1>2, CloserStep
<1>3. ASSUME NEW c \in Callers, CallerStep(c) \/ CancelLookup(c)
      PROVE  WorkInv' /\ OnceInv'
  BY <1>3, QuietStep
  DEF CallerStep, CancelSignal, CancelFind, CancelLookup, QuietVars
<1>4. CASE StartFails \/ \E p \in Closers : CloseFails(p)
  BY <1>4, QuietStep DEF StartFails, CloseFails, closer, QuietVars
<1>5. CASE Crash \/ CallFails
  BY <1>5, LetGoStep DEF Crash, CallFails, Unwind
<1>6. CASE UNCHANGED vars  BY <1>6, QuietStep DEF vars, QuietVars
<1> QED  BY <1>1, <1>2, <1>3, <1>4, <1>5, <1>6 DEF Next

LEMMA OrderAlways == Spec => []OrderInv
BY OrderInit, OrderStep, PTL DEF Spec

\* No task is handed to the runner before the success of everything it waits
\* for was recorded, for every acyclic graph and any number of cancellers.
THEOREM DependenciesCorrect == Spec => []DependenciesDone
<1>1. OrderInv => DependenciesDone  BY DEF OrderInv, WorkInv
<1> QED  BY <1>1, OrderAlways, PTL

\* A run waits for verification only when every task of its plan succeeded.
THEOREM VerifiedCorrect == Spec => []VerifiedWorkIsDone
<1>1. OrderInv => VerifiedWorkIsDone  BY DEF OrderInv, WorkInv
<1> QED  BY <1>1, OrderAlways, PTL

\* No task is handed to the runner a second time.
THEOREM RunsOnceCorrect == Spec => RunsOnce
<1>1. OrderInv /\ [Next]_vars
        => [\A t \in Tasks : StartTask(t) => t \notin started]_vars
  BY DEF OrderInv, OnceInv, StartTask
<1> QED  BY <1>1, OrderAlways, PTL DEF Spec, RunsOnce

-----------------------------------------------------------------------------
(* What the end of a run says is so *)

\* Closing a run.  The engine closes only at its own point; while no caller
\* raced the engine, a caller closes only when the engine is not there; so
\* nobody opens a row that a closer has not listed.
CloseInv ==
  /\ cpc[Engine] \notin {"idle", "failed"} => pc = "closing"
  /\ ~raced => \A c \in Callers : InCancelRun(c) => ~Live
  /\ ~raced => \A p \in Closers : cpc[p] = "cancel" =>
                 \A t \in Tasks : task[t] \in Open => t \in snap[p]
  /\ ClosedMeansClosed

\* Leaving.  Only the task in hand is between PLANNED and its end, and it is all
\* that a failed call leaves there; so a pass that finds nothing ready has a
\* verdict to write, which a closer's CANCELLED only changes into another.
LeaveInv ==
  /\ pc \notin {"exited", "unwind", "dead", "crashed"} => InHand \subseteq cur
  /\ LeavesLittleInHand
  /\ pc = "unwind" => \A t, u \in InHand : t = u
  /\ \A t, u \in cur : t = u
  /\ \A t \in Tasks : task[t] # "SUPERSEDED"
  /\ pc \in {"advance", "loop", "list", "each", "ready", "run", "close", "evaluate"} =>
       \A t \in Tasks : task[t] # "NONE"
  /\ pc = "evaluate" /\ Tasks # {} => Completion # "NONE"
  /\ pc \in {"loop", "list", "each", "ready", "run", "close", "evaluate", "settle", "closing"}
       => run \in {"RUNNING", "CANCELLED"}
  /\ pc = "closing" /\ cpc[Engine] = "idle" => run = "CANCELLED"
  /\ pc \in {"exit", "exited"} /\ Tasks # {} => run \in Settled

EndInv == OrderInv /\ CloseInv /\ LeaveInv

\* A graph in which nothing is ready and nothing failed, was cancelled or is in
\* hand is done: the PLANNED tasks would have one that waits for none of them.
LEMMA NothingReadyIsAVerdict ==
  ASSUME TypeInv, ReadyTasks = {}, Tasks # {},
         \A t \in Tasks : task[t] \in {"PLANNED", "SUCCEEDED", "FAILED", "CANCELLED"}
  PROVE  Completion # "NONE"
<1>1. CASE \E t \in Tasks : task[t] \in {"FAILED", "CANCELLED"}
  BY <1>1 DEF Completion
<1>2. CASE \A t \in Tasks : task[t] \in {"PLANNED", "SUCCEEDED"}
  <2> DEFINE S == {t \in Tasks : task[t] = "PLANNED"}
  <2>1. S = {}
    <3> SUFFICES ASSUME S # {} PROVE FALSE
      OBVIOUS
    <3>1. PICK t \in S : Deps[t] \cap S = {}
      BY DepsAssumption
    <3>2. \A d \in Deps[t] : d \in Tasks /\ task[d] = "SUCCEEDED"
      BY <3>1, <1>2, DepsAssumption
    <3> QED  BY <3>1, <3>2 DEF ReadyTasks
  <2>2. \A t \in Tasks : task[t] = "SUCCEEDED"
    BY <2>1, <1>2
  <2> QED  BY <2>2 DEF Completion, TaskTerminal
<1> QED  BY <1>1, <1>2

LEMMA EndInit == Init => EndInv
BY OrderInit, ProcessAssumption
DEF Init, EndInv, CloseInv, LeaveInv, LeavesLittleInHand, InHand, ClosedMeansClosed,
    InCancelRun, Closers, Settled

\* While the engine writes tasks and nobody raced it, no closer is at work.
LEMMA AloneAtWork ==
  ASSUME EndInv, Live, pc # "closing", ~raced, NEW p \in Closers
  PROVE  ~InCancelRun(p)
BY DEF EndInv, CloseInv, InCancelRun, Closers

LEMMA EngineClose ==
  ASSUME EndInv, EngineStep
  PROVE  CloseInv'
<1> USE DEF db, closer, work, engine, Live, LivePoints
<1>1. ASSUME UNCHANGED <<task, closer, raced>>, pc \in LivePoints \cup {"idle"}, pc # "closing",
             pc' # "closing", pc = "idle" => pc' = "saved"
      PROVE  CloseInv'
  BY <1>1 DEF EndInv, CloseInv, ClosedMeansClosed, InCancelRun
<1>2. CASE SaveRun  BY <1>2, <1>1 DEF SaveRun
<1>3. CASE Launch
  BY <1>3 DEF Launch, EndInv, CloseInv, ClosedMeansClosed, InCancelRun
<1>m. TypeInv  BY DEF EndInv, OrderInv
<1>4. CASE StartAsync \/ Schedule \/ Advance  BY <1>4, <1>m, MovesAreMade, <1>1 DEF Moved
<1>5. CASE LoopGoesOn \/ ListTasks \/ EachDone \/ Evaluate
  BY <1>5, <1>1 DEF LoopGoesOn, ListTasks, EachDone, Evaluate
<1>6. CASE LoopCancels
  BY <1>6, ProcessAssumption DEF LoopCancels, EndInv, CloseInv, ClosedMeansClosed, InCancelRun,
    OrderInv, TypeInv, TypeOK, Closers
<1>7. CASE Settle  BY <1>7, <1>m, MovesAreMade, <1>1 DEF Moved
<1>8. CASE Closed
  BY <1>8 DEF Closed, EndInv, CloseInv, ClosedMeansClosed, InCancelRun
<1>9. CASE Throws  BY <1>9, <1>1 DEF Throws, TokenPoint, Unwind
<1>10. CASE Exit
  BY <1>10 DEF Exit, EndInv, CloseInv, ClosedMeansClosed, InCancelRun
<1>11. ASSUME Live, pc # "closing", pc' # "closing", UNCHANGED <<closer, raced>>
       PROVE  CloseInv'
  BY <1>11, AloneAtWork DEF EndInv, CloseInv, ClosedMeansClosed, InCancelRun
<1>12. ASSUME NEW t \in Tasks, SaveTask(t) \/ RunTask(t) PROVE CloseInv'
  BY <1>12, <1>11 DEF SaveTask, RunTask, MarkReady, StartTask, CloseTask
<1>13. ASSUME NEW outcome \in {"SUCCEEDED", "FAILED", "CANCELLED"}, RunnerReturns(outcome)
       PROVE  CloseInv'
  BY <1>13, <1>1 DEF RunnerReturns
<1> QED  BY <1>2, <1>3, <1>4, <1>5, <1>6, <1>7, <1>8, <1>9, <1>10, <1>12, <1>13 DEF EngineStep

LEMMA CloserClose ==
  ASSUME EndInv, NEW p \in Closers, CloseRun(p)
  PROVE  CloseInv'
<1> USE DEF db, engine, work, Live, EndInv, OrderInv, TypeInv, TypeOK
<1>1. CASE CloseList(p)
  BY <1>1 DEF CloseList, CloseInv, ClosedMeansClosed, InCancelRun, Closers
<1>2. ASSUME NEW t \in Tasks, CloseOne(p, t) PROVE CloseInv'
  BY <1>2 DEF CloseOne, CloseInv, ClosedMeansClosed, InCancelRun, Closers, Open, TaskTerminal
<1>3. CASE CloseReload(p)
  <2>1. ~raced /\ cpc'[p] = "finish" => \A t \in Tasks : task[t] \notin Open
    BY <1>3 DEF CloseReload, CloseInv
  <2>2. \A t \in Tasks : task[t] \notin Open =>
          task[t] \in TaskTerminal \cup {"FAILED", "NONE"}
    BY DEF Open, TaskStates, TaskTerminal
  <2> QED  BY <1>3, <2>1, <2>2 DEF CloseReload, CloseInv, ClosedMeansClosed, InCancelRun, Closers
<1>4. CASE CloseFinish(p)
  BY <1>4 DEF CloseFinish, CloseInv, ClosedMeansClosed, InCancelRun, Closers
<1> QED  BY <1>1, <1>2, <1>3, <1>4 DEF CloseRun

LEMMA CloseStep == EndInv /\ [Next]_vars => CloseInv'
<1> SUFFICES ASSUME EndInv, [Next]_vars PROVE CloseInv'
  OBVIOUS
<1> USE DEF db, engine, work, closer
<1>1. CASE EngineStep  BY <1>1, EngineClose
<1>2. ASSUME NEW p \in Closers, CloseRun(p) PROVE CloseInv'
  BY <1>2, CloserClose
<1>3. ASSUME NEW c \in Callers, CallerStep(c) \/ CancelLookup(c) PROVE CloseInv'
  BY <1>3, ProcessAssumption
  DEF CallerStep, CancelSignal, CancelFind, CancelLookup, EndInv, CloseInv, ClosedMeansClosed,
      InCancelRun, Live, Closers, OrderInv, TypeInv, TypeOK
<1>4. CASE StartFails
  BY <1>4 DEF StartFails, EndInv, CloseInv, ClosedMeansClosed, InCancelRun, Live, LivePoints
<1>5. CASE Crash
  BY <1>5 DEF Crash, CloseInv, ClosedMeansClosed, InCancelRun, Closers
<1>7. CASE CallFails
  BY <1>7 DEF CallFails, Unwind, TokenPoint, EndInv, CloseInv, ClosedMeansClosed, InCancelRun,
              Live, LivePoints
<1>8. ASSUME NEW p \in Closers, CloseFails(p) PROVE CloseInv'
  BY <1>8 DEF CloseFails, EndInv, CloseInv, ClosedMeansClosed, InCancelRun, Live, Closers,
              OrderInv, TypeInv, TypeOK
<1>6. CASE UNCHANGED vars
  BY <1>6 DEF vars, EndInv, CloseInv, ClosedMeansClosed, InCancelRun, Live
<1> QED  BY <1>1, <1>2, <1>3, <1>4, <1>5, <1>6, <1>7, <1>8 DEF Next

\* An engine that lets go leaves at most the one task it had in hand.
LEMMA LetGoLeave ==
  ASSUME EndInv, UNCHANGED <<run, task>>, cur' = {}, pc \notin {"exited", "dead", "crashed"},
         pc' \in {"unwind", "crashed"}
  PROVE  LeaveInv'
BY DEF EndInv, LeaveInv, LeavesLittleInHand, InHand

LEMMA EngineLeave ==
  ASSUME EndInv, EngineStep
  PROVE  LeaveInv'
<1> USE DEF db, closer, work, EndInv, OrderInv, TypeInv, TypeOK, InHand, LeavesLittleInHand
<1>1. ASSUME UNCHANGED <<task, cur, cpc>>,
             pc' \notin {"exit", "exited", "evaluate", "closing", "unwind", "dead"},
             pc \notin {"exited", "unwind", "dead", "crashed"},
             pc' \in {"advance", "loop", "list", "each", "ready", "run", "close"} =>
               \A t \in Tasks : task[t] # "NONE",
             pc' \in {"loop", "list", "each", "ready", "run", "close", "settle"} =>
               run' \in {"RUNNING", "CANCELLED"}
      PROVE  LeaveInv'
  BY <1>1 DEF LeaveInv
<1>2. CASE SaveRun \/ Launch  BY <1>2, <1>1 DEF SaveRun, Launch
<1>3. CASE StartAsync \/ Schedule \/ Advance
  BY <1>3, MovesAreMade, <1>1 DEF Moved, LeaveInv
<1>4. CASE LoopGoesOn \/ EachDone
  BY <1>4, <1>1 DEF LoopGoesOn, EachDone, LeaveInv
<1>5. CASE LoopCancels
  BY <1>5 DEF LoopCancels, LeaveInv, Closers
<1>6. CASE ListTasks
  <2>1. cur = {}
    BY <1>6 DEF ListTasks, OnceInv, Holding
  <2>2. \A t \in Tasks : task[t] \in {"PLANNED", "SUCCEEDED", "FAILED", "CANCELLED"}
    BY <1>6, <2>1 DEF ListTasks, LeaveInv, TaskStates
  <2>3. ReadyTasks = {} /\ Tasks # {} => Completion # "NONE"
    BY <2>2, NothingReadyIsAVerdict
  <2>4. Completion' = Completion
    BY <1>6 DEF ListTasks, Completion
  <2> QED  BY <1>6, <2>1, <2>3, <2>4 DEF ListTasks, LeaveInv
<1>7. CASE Evaluate
  BY <1>7, CompletionType DEF Evaluate, LeaveInv
<1>8. CASE Settle
  BY <1>8, MovesAreMade DEF Moved, LeaveInv, Decided
<1>9. CASE Closed
  BY <1>9 DEF Closed, LeaveInv, Settled, OnceInv, Holding
<1>10. CASE Throws
  BY <1>10, LetGoLeave DEF Throws, TokenPoint, Unwind
<1>11. CASE Exit
  BY <1>11 DEF Exit, LeaveInv, OnceInv, Holding
<1>12. ASSUME NEW t \in Tasks, SaveTask(t) PROVE LeaveInv'
  BY <1>12 DEF SaveTask, engine, LeaveInv
<1>13. ASSUME NEW t \in Tasks, MarkReady(t) PROVE LeaveInv'
  <2>1. cur = {}
    BY <1>13 DEF MarkReady, OnceInv, Holding
  <2> QED  BY <1>13, <2>1 DEF MarkReady, LeaveInv
<1>14. ASSUME NEW t \in Tasks, StartTask(t) PROVE LeaveInv'
  BY <1>14 DEF StartTask, LeaveInv
<1>15. ASSUME NEW t \in Tasks, CloseTask(t) PROVE LeaveInv'
  <2>1. cur = {t}
    BY <1>15 DEF CloseTask, LeaveInv
  <2> QED  BY <1>15, <2>1 DEF CloseTask, LeaveInv, Decided
<1>16. ASSUME NEW outcome \in {"SUCCEEDED", "FAILED", "CANCELLED"}, RunnerReturns(outcome)
       PROVE  LeaveInv'
  BY <1>16, <1>1 DEF RunnerReturns, LeaveInv
<1> QED  BY <1>2, <1>3, <1>4, <1>5, <1>6, <1>7, <1>8, <1>9, <1>10, <1>11, <1>12, <1>13,
            <1>14, <1>15, <1>16 DEF EngineStep, RunTask

LEMMA LeaveStep == EndInv /\ [Next]_vars => LeaveInv'
<1> SUFFICES ASSUME EndInv, [Next]_vars PROVE LeaveInv'
  OBVIOUS
<1> USE DEF db, engine, work, closer, EndInv, InHand, LeavesLittleInHand
<1>1. ASSUME UNCHANGED <<run, task, pc, cur>>,
             pc = "closing" /\ cpc'[Engine] = "idle" => cpc[Engine] = "idle" \/ run = "CANCELLED"
      PROVE  LeaveInv'
  BY <1>1 DEF LeaveInv, Completion
<1>2. CASE EngineStep  BY <1>2, EngineLeave
<1>3. ASSUME NEW p \in Closers, CloseList(p) \/ CloseReload(p) \/ CloseFails(p) PROVE LeaveInv'
  BY <1>3, <1>1 DEF CloseList, CloseReload, CloseFails, LeaveInv, Closable, Closers,
                    OrderInv, TypeInv, TypeOK
<1>4. ASSUME NEW p \in Closers, CloseFinish(p) PROVE LeaveInv'
  BY <1>4 DEF CloseFinish, LeaveInv, Completion, Settled
<1>5. ASSUME NEW p \in Closers, NEW t \in Tasks, CloseOne(p, t) PROVE LeaveInv'
  <2>1. \A u \in Tasks : task'[u] = IF u = t THEN "CANCELLED" ELSE task[u]
    BY <1>5 DEF CloseOne, OrderInv, TypeInv, TypeOK
  <2>2. Completion' # "NONE"
    BY <2>1 DEF Completion
  <2> QED  BY <1>5, <2>1, <2>2 DEF CloseOne, LeaveInv
<1>6. ASSUME NEW c \in Callers, CallerStep(c) \/ CancelLookup(c) PROVE LeaveInv'
  BY <1>6, <1>1, ProcessAssumption
  DEF CallerStep, CancelSignal, CancelFind, CancelLookup, Closers, OrderInv, TypeInv, TypeOK
<1>7. CASE StartFails
  BY <1>7 DEF StartFails, LeaveInv
<1>8. CASE CallFails
  BY <1>8, LetGoLeave DEF CallFails, TokenPoint, Unwind
<1>9. CASE UNCHANGED vars
  BY <1>9, <1>1 DEF vars
<1>10. CASE Crash
  BY <1>10 DEF Crash, LeaveInv
<1> QED  BY <1>2, <1>3, <1>4, <1>5, <1>6, <1>7, <1>8, <1>9, <1>10 DEF Next, CloseRun

\* VERIFYING, the end of CancelRunAsync and an engine that leaves are honest,
\* whoever brought the run there and however the calls interleave.
THEOREM EndsCorrect == Spec => []EndsHonestly
<1>1. EndInv /\ [Next]_vars => EndInv'
  BY OrderStep, CloseStep, LeaveStep DEF EndInv
<1>2. EndInv => EndsHonestly
  BY DEF EndInv, EndsHonestly, OrderInv, TypeInv, WorkInv, CloseInv, LeaveInv, ReturnSettles
<1> QED  BY EndInit, <1>1, <1>2, PTL DEF Spec

-----------------------------------------------------------------------------
(* The rows stay inside the tables while nobody races the engine *)

\* What the memory of the engine and of the closers says of the rows, while no
\* caller's CancelRunAsync overlaps the engine: the object a move is checked
\* against holds what the row holds.
RowsInv ==
  /\ pc \notin {"each", "ready", "run", "close"} => ready = {}
  /\ pc = "idle" => run = "NONE" /\ \A p \in Closers : cpc[p] = "idle"
  /\ ~raced =>
       /\ pc \in {"saved", "start"} => run = "CREATED"
       /\ pc = "schedule" => run = "PLANNING"
       /\ pc = "advance" => run = "READY"
       /\ pc \in {"loop", "list", "each", "ready", "run", "close", "evaluate", "settle"}
            => run = "RUNNING"
       /\ \A t \in ready : task[t] = "PLANNED"
       /\ pc = "ready" => \A t \in cur : task[t] = "READY"
       /\ pc \in {"run", "close"} => \A t \in cur : task[t] = "RUNNING"
       /\ \A p \in Closers :
            /\ cpc[p] = "cancel" => \A t \in snap[p] : task[t] \in Open \cup {"CANCELLED"}
            /\ cpc[p] = "finish" => run \in Closable \cup {"CANCELLED"}

AloneInv == EndInv /\ RowsInv

LEMMA AloneInit == Init => AloneInv
BY EndInit DEF Init, AloneInv, RowsInv

\* The engine's own steps.
LEMMA EngineRows ==
  ASSUME AloneInv, EngineStep
  PROVE  RowsInv'
<1> USE DEF db, closer, work, engine, AloneInv, EndInv, OrderInv, TypeInv, TypeOK
<1>1. CASE SaveRun
  BY <1>1 DEF SaveRun, RowsInv
<1>2. CASE Launch
  BY <1>2 DEF Launch, RowsInv, InCancelRun
<1>3. CASE StartAsync \/ Schedule \/ Advance \/ Settle
  <2>1. ~raced => \A p \in Closers : ~InCancelRun(p)
    BY <1>3, MovesAreMade, AloneAtWork DEF Moved, Live, LivePoints
  <2> QED  BY <1>3, <2>1, MovesAreMade DEF Moved, RowsInv, InCancelRun
<1>4. CASE LoopGoesOn \/ EachDone \/ Evaluate \/ Closed \/ Throws
  BY <1>4 DEF LoopGoesOn, EachDone, Evaluate, Closed, Throws, Unwind, TokenPoint, RowsInv
<1>5. CASE LoopCancels
  BY <1>5 DEF LoopCancels, RowsInv
<1>6. CASE ListTasks
  BY <1>6 DEF ListTasks, ReadyTasks, RowsInv
<1>7. CASE Exit
  BY <1>7 DEF Exit, RowsInv
<1>8. ASSUME NEW t \in Tasks, SaveTask(t) PROVE RowsInv'
  <2>1. ~raced => \A p \in Closers : ~InCancelRun(p)
    BY <1>8, AloneAtWork DEF SaveTask, Live, LivePoints
  <2> QED  BY <1>8, <2>1 DEF SaveTask, RowsInv, InCancelRun
<1>9. ASSUME NEW t \in Tasks, RunTask(t) PROVE RowsInv'
  <2>1. ~raced => \A p \in Closers : ~InCancelRun(p)
    BY <1>9, AloneAtWork DEF RunTask, MarkReady, StartTask, CloseTask, Live, LivePoints
  <2>2. CASE MarkReady(t)
    BY <2>1, <2>2 DEF MarkReady, RowsInv, InCancelRun
  <2>3. CASE StartTask(t)
    BY <2>1, <2>3 DEF StartTask, RowsInv, InCancelRun, LeaveInv, OnceInv
  <2>4. CASE CloseTask(t)
    BY <2>1, <2>4 DEF CloseTask, RowsInv, InCancelRun, OnceInv
  <2> QED  BY <1>9, <2>2, <2>3, <2>4 DEF RunTask
<1>10. ASSUME NEW outcome \in {"SUCCEEDED", "FAILED", "CANCELLED"}, RunnerReturns(outcome)
       PROVE  RowsInv'
  BY <1>10 DEF RunnerReturns, RowsInv
<1> QED  BY <1>1, <1>2, <1>3, <1>4, <1>5, <1>6, <1>7, <1>8, <1>9, <1>10 DEF EngineStep

\* A closer works beside no engine, or is the engine with no task in hand.
LEMMA CloserRows ==
  ASSUME AloneInv, NEW p \in Closers, CloseRun(p)
  PROVE  RowsInv'
<1> USE DEF db, work, engine, AloneInv, EndInv, OrderInv, TypeInv, TypeOK
<1>0. ~raced => pc = "closing" \/ ~Live
  BY DEF CloseInv, InCancelRun, Closers, CloseRun, CloseList, CloseOne, CloseReload, CloseFinish
<1>1. CASE CloseList(p)
  BY <1>1 DEF CloseList, RowsInv
<1>2. CASE CloseReload(p)
  BY <1>2 DEF CloseReload, RowsInv
<1>3. CASE CloseFinish(p)
  <2>1. ~raced => run \in Closable \cup {"CANCELLED"}
    BY <1>3 DEF CloseFinish, RowsInv
  <2> QED  BY <1>0, <1>3, <2>1 DEF CloseFinish, RowsInv, Closable, Live, LivePoints
<1>4. ASSUME NEW t \in Tasks, CloseOne(p, t) PROVE RowsInv'
  BY <1>0, <1>4 DEF CloseOne, RowsInv, Live, LivePoints
<1> QED  BY <1>1, <1>2, <1>3, <1>4 DEF CloseRun

LEMMA RowsStep == AloneInv /\ [Next]_vars => RowsInv'
<1> SUFFICES ASSUME AloneInv, [Next]_vars PROVE RowsInv'
  OBVIOUS
<1> USE DEF db, engine, work, closer, AloneInv, EndInv, OrderInv, TypeInv, TypeOK
<1>1. CASE EngineStep  BY <1>1, EngineRows
<1>2. ASSUME NEW p \in Closers, CloseRun(p) PROVE RowsInv'
  BY <1>2, CloserRows
<1>3. ASSUME NEW c \in Callers, CallerStep(c) \/ CancelLookup(c) PROVE RowsInv'
  BY <1>3 DEF CallerStep, CancelSignal, CancelFind, CancelLookup, RowsInv, Closers
<1>4. CASE StartFails \/ \E p \in Closers : CloseFails(p)
  BY <1>4 DEF StartFails, CloseFails, InCancelRun, RowsInv
<1>5. CASE Crash \/ CallFails
  BY <1>5 DEF Crash, CallFails, Unwind, TokenPoint, RowsInv
<1>6. CASE UNCHANGED vars
  BY <1>6 DEF vars, RowsInv
<1> QED  BY <1>1, <1>2, <1>3, <1>4, <1>5, <1>6 DEF Next

LEMMA LegalStep ==
  ASSUME AloneInv, [Next]_vars, ~raced'
  PROVE  LegalMoves
<1> USE DEF db, engine, work, closer, AloneInv, EndInv, OrderInv, TypeInv, TypeOK
<1>0. UNCHANGED <<run, task>> => LegalMoves
  BY DEF LegalMoves
<1>1. ASSUME ~raced, EngineStep PROVE LegalMoves
  <2>1. CASE StartAsync \/ Schedule \/ Advance \/ Settle
    BY <1>1, <2>1, MovesAreMade DEF Moved, RowsInv, Decided, LegalMoves, RunMoves, RunStates, Settled
  <2>2. CASE SaveRun
    BY <2>2 DEF SaveRun, RowsInv, LegalMoves
  <2>3. ASSUME NEW t \in Tasks, SaveTask(t) PROVE LegalMoves
    BY <2>3 DEF SaveTask, LegalMoves
  <2>4. ASSUME NEW t \in Tasks, MarkReady(t) PROVE LegalMoves
    BY <1>1, <2>4 DEF MarkReady, LegalMoves, RowsInv, TaskMoves, TaskStates
  <2>5. ASSUME NEW t \in Tasks, StartTask(t) PROVE LegalMoves
    BY <1>1, <2>5 DEF StartTask, LegalMoves, RowsInv, TaskMoves, TaskStates
  <2>6. ASSUME NEW t \in Tasks, CloseTask(t) PROVE LegalMoves
    BY <1>1, <2>6 DEF CloseTask, LegalMoves, RowsInv, Decided, TaskMoves, TaskStates
  <2>7. CASE Launch \/ LoopGoesOn \/ LoopCancels \/ ListTasks \/ EachDone \/ Evaluate \/ Closed \/ Throws \/ Exit
    BY <1>0, <2>7 DEF Launch, LoopGoesOn, LoopCancels, ListTasks, EachDone, Evaluate, Closed, Throws, Unwind, Exit
  <2>8. ASSUME NEW outcome \in {"SUCCEEDED", "FAILED", "CANCELLED"}, RunnerReturns(outcome)
        PROVE  LegalMoves
    BY <1>0, <2>8 DEF RunnerReturns
  <2> QED  BY <1>1, <2>1, <2>2, <2>3, <2>4, <2>5, <2>6, <2>7, <2>8 DEF EngineStep, RunTask
<1>2. ASSUME ~raced, NEW p \in Closers, CloseRun(p) PROVE LegalMoves
  <2>1. CASE CloseList(p) \/ CloseReload(p)
    BY <1>0, <2>1 DEF CloseList, CloseReload
  <2>2. CASE CloseFinish(p)
    BY <1>2, <2>2 DEF CloseFinish, LegalMoves, RowsInv, Closable, RunMoves, RunStates
  <2>3. ASSUME NEW t \in Tasks, CloseOne(p, t) PROVE LegalMoves
    BY <1>2, <2>3 DEF CloseOne, LegalMoves, RowsInv, Open, TaskMoves, TaskStates
  <2> QED  BY <1>2, <2>1, <2>2, <2>3 DEF CloseRun
<1>3. ASSUME NEW c \in Callers, CallerStep(c) \/ CancelLookup(c) PROVE LegalMoves
  BY <1>0, <1>3 DEF CallerStep, CancelSignal, CancelFind, CancelLookup
<1>4. CASE StartFails \/ Crash \/ CallFails \/ UNCHANGED vars \/ \E p \in Closers : CloseFails(p)
  BY <1>0, <1>4 DEF StartFails, Crash, CallFails, Unwind, CloseFails, vars
<1>5. ~raced
  BY DEF Next, EngineStep, RunTask, CloseRun, CallerStep, SaveRun, Launch, StartFails, StartAsync, Schedule,
     Advance, MoveRun, SaveTask, LoopGoesOn, LoopCancels, ListTasks, EachDone, Evaluate, Settle, Closed,
     Throws, CallFails, Unwind, CloseFails, Exit, MarkReady, StartTask, RunnerReturns, CloseTask, CancelLookup, CancelSignal, CancelFind,
     CloseList, CloseOne, CloseReload, CloseFinish, Crash, vars
<1> QED  BY <1>1, <1>2, <1>3, <1>4, <1>5 DEF Next

\* RunRepository compares a move with the object in memory and never with the
\* row.  As long as no caller's CancelRunAsync overlaps the engine the two agree,
\* whatever is cancelled, crashes or fails, and every write over a row of the run
\* or of a task is a move of the tables.
THEOREM LegalCorrect == Spec => LegalWhenAlone
<1>1. AloneInv /\ [Next]_vars => AloneInv'
  BY OrderStep, CloseStep, LeaveStep, RowsStep DEF AloneInv, EndInv
<1>2. AloneInv /\ [Next]_vars => [~raced' => LegalMoves]_vars
  BY LegalStep
<1> QED  BY AloneInit, <1>1, <1>2, PTL DEF Spec, LegalWhenAlone

-----------------------------------------------------------------------------
(* PlanLifecycle: any number of clients *)

\* A start past the row it has written.
Written == {"find", "write", "saved"}

\* Every launch and every start about to launch has a row of its own.
PlanRowsInv ==
  \A s \in Starters :
    /\ launched[s] <= rows
    /\ client[s] \in Written => launched[s] < rows

PlanTypeInv == PlanTypeOK /\ PlanRowsInv /\ \A l \in Lockers : client[l] # "saveRun"

\* Who is past its find has seen a clean plan, and a starter a locked one.
SeenInv ==
  /\ plan \in {"LOCKED", "CONSUMED"} => clean
  /\ \A l \in Lockers : client[l] # "idle" => plan # "NONE" /\ clean
  /\ \A s \in Starters : client[s] # "idle" => plan \in {"LOCKED", "CONSUMED"}

ReviewInv == PlanTypeInv /\ SeenInv /\ RunsAreReviewed /\ ConsumedHasRun

LEMMA PlanTypeInit == PlanInit => PlanTypeInv
BY ClientAssumption
   DEF PlanInit, PlanTypeInv, PlanTypeOK, PlanRowsInv, Written, PlanStates, Clients

LEMMA PlanTypeStep == PlanTypeInv /\ [PlanNext]_planVars => PlanTypeInv'
<1> SUFFICES ASSUME PlanTypeInv, [PlanNext]_planVars
             PROVE  PlanTypeInv'
  OBVIOUS
<1> USE ClientAssumption
    DEF PlanTypeInv, PlanTypeOK, PlanRowsInv, Written, PlanStates, Clients, Saving, Goto
<1>1. ASSUME NEW c \in Clients, SaveFind(c) PROVE PlanTypeInv'
  BY <1>1 DEF SaveFind, Decision
<1>2. ASSUME NEW c \in Clients, SaveWrite(c) PROVE PlanTypeInv'
  BY <1>2 DEF SaveWrite
<1>3. ASSUME NEW c \in Clients, Abandon(c) PROVE PlanTypeInv'
  BY <1>3 DEF Abandon
<1>4. ASSUME NEW c \in Lockers, Create(c) PROVE PlanTypeInv'
  BY <1>4 DEF Create
<1>5. ASSUME NEW c \in Lockers, LockFind(c) PROVE PlanTypeInv'
  BY <1>5 DEF LockFind
<1>6. ASSUME NEW c \in Lockers, LockReturns(c) PROVE PlanTypeInv'
  BY <1>6 DEF LockReturns
<1>7. ASSUME NEW c \in Starters, StartFind(c) PROVE PlanTypeInv'
  BY <1>7 DEF StartFind
<1>8. ASSUME NEW c \in Starters, SaveRunRow(c) PROVE PlanTypeInv'
  BY <1>8 DEF SaveRunRow
<1>9. ASSUME NEW c \in Starters, LaunchRun(c) PROVE PlanTypeInv'
  BY <1>9 DEF LaunchRun
<1>10. CASE UNCHANGED planVars
  BY <1>10 DEF planVars
<1>11. QED
  BY <1>1, <1>2, <1>3, <1>4, <1>5, <1>6, <1>7, <1>8, <1>9, <1>10 DEF PlanNext

\* The variables of PlanLifecycle keep their types: a launch never outnumbers
\* the run rows StartAsync has written.
THEOREM PlanTypeCorrect == PlanSpec => []PlanTypeOK
<1>1. PlanTypeInv => PlanTypeOK
  BY DEF PlanTypeInv
<1>2. QED
  BY <1>1, PlanTypeInit, PlanTypeStep, PTL DEF PlanSpec

LEMMA ReviewStep == ReviewInv /\ [PlanNext]_planVars => ReviewInv'
<1> SUFFICES ASSUME ReviewInv, [PlanNext]_planVars
             PROVE  ReviewInv'
  OBVIOUS
<1>t. PlanTypeInv'
  BY PlanTypeStep DEF ReviewInv
<1> USE ClientAssumption, <1>t
    DEF ReviewInv, SeenInv, RunsAreReviewed, ConsumedHasRun, PlanTypeInv, PlanTypeOK,
        PlanRowsInv, Written, PlanStates, Clients, Saving, Goto
<1>1. ASSUME NEW c \in Clients, SaveFind(c) PROVE ReviewInv'
  BY <1>1 DEF SaveFind, Decision
<1>2. ASSUME NEW c \in Clients, SaveWrite(c) PROVE ReviewInv'
  BY <1>2 DEF SaveWrite
<1>3. ASSUME NEW c \in Clients, Abandon(c) PROVE ReviewInv'
  BY <1>3 DEF Abandon
<1>4. ASSUME NEW c \in Lockers, Create(c) PROVE ReviewInv'
  BY <1>4 DEF Create
<1>5. ASSUME NEW c \in Lockers, LockFind(c) PROVE ReviewInv'
  BY <1>5 DEF LockFind, MayLock
<1>6. ASSUME NEW c \in Lockers, LockReturns(c) PROVE ReviewInv'
  BY <1>6 DEF LockReturns
<1>7. ASSUME NEW c \in Starters, StartFind(c) PROVE ReviewInv'
  BY <1>7 DEF StartFind
<1>8. ASSUME NEW c \in Starters, SaveRunRow(c) PROVE ReviewInv'
  BY <1>8 DEF SaveRunRow
<1>9. ASSUME NEW c \in Starters, LaunchRun(c) PROVE ReviewInv'
  BY <1>9 DEF LaunchRun
<1>10. CASE UNCHANGED planVars
  BY <1>10 DEF planVars
<1>11. QED
  BY <1>1, <1>2, <1>3, <1>4, <1>5, <1>6, <1>7, <1>8, <1>9, <1>10 DEF PlanNext

LEMMA ReviewAlways == PlanSpec => []ReviewInv
<1>1. PlanInit => ReviewInv
  BY PlanTypeInit
     DEF PlanInit, ReviewInv, SeenInv, RunsAreReviewed, ConsumedHasRun, Clients
<1>2. QED
  BY <1>1, ReviewStep, PTL DEF PlanSpec

\* No run of a plan that was never locked or that has overlapping write scopes.
THEOREM ReviewCorrect == PlanSpec => []RunsAreReviewed
<1>1. ReviewInv => RunsAreReviewed
  BY DEF ReviewInv
<1>2. QED
  BY <1>1, ReviewAlways, PTL

\* A plan that says CONSUMED has a run row.
THEOREM ConsumedCorrect == PlanSpec => []ConsumedHasRun
<1>1. ReviewInv => ConsumedHasRun
  BY DEF ReviewInv
<1>2. QED
  BY <1>1, ReviewAlways, PTL

-----------------------------------------------------------------------------
(* PlanLifecycle: what a plan that is locked again costs *)

\* A client writes LOCKED over a draft it has read, and nothing is a draft after
\* the first lock.  Each launch of a client lies between two such writes: while
\* the plan is LOCKED, or the client past its find, one of them is not used up.
LockInv ==
  /\ IsFiniteSet(locked)
  /\ plan \in {"NONE", "DRAFT"} => locked = {}
  /\ \A l \in locked : client[l] \in {"idle", "saved"}
  /\ \A s \in Starters :
       /\ launched[s] <= Cardinality(locked)
       /\ plan = "LOCKED" \/ client[s] # "idle" => launched[s] < Cardinality(locked)
       /\ plan = "LOCKED" /\ client[s] = "saved" => launched[s] + 1 < Cardinality(locked)

LockedInv == ReviewInv /\ LockInv

LEMMA LockedInit == PlanInit => LockedInv
<1> SUFFICES ASSUME PlanInit PROVE LockedInv
  OBVIOUS
<1>1. IsFiniteSet(locked) /\ Cardinality(locked) = 0
  BY FS_EmptySet DEF PlanInit
<1> QED  BY <1>1, PlanTypeInit
  DEF PlanInit, LockedInv, LockInv, ReviewInv, SeenInv, RunsAreReviewed, ConsumedHasRun, Clients

LEMMA LockedStep == LockedInv /\ [PlanNext]_planVars => LockedInv'
<1> SUFFICES ASSUME LockedInv, [PlanNext]_planVars
             PROVE  LockInv'
  BY ReviewStep DEF LockedInv
<1> DEFINE n == Cardinality(locked)
<1>n. n \in Nat
  BY FS_CardinalityType DEF LockedInv, LockInv
<1> HIDE DEF n
<1> USE ClientAssumption
    DEF LockedInv, LockInv, ReviewInv, SeenInv, PlanTypeInv, PlanTypeOK, PlanStates, Clients,
        Saving, Goto
<1>1. ASSUME NEW c \in Clients, SaveFind(c) PROVE LockInv'
  BY <1>1 DEF SaveFind, Decision
<1>2. ASSUME NEW c \in Clients, SaveWrite(c) PROVE LockInv'
  <2>1. CASE c \in Lockers
    <3>1. c \notin locked
      BY <1>2 DEF SaveWrite
    <3>2. IsFiniteSet(locked') /\ Cardinality(locked') = n + 1
      BY <1>2, <2>1, <3>1, FS_AddElement DEF SaveWrite, n
    <3>3. \A s \in Starters : launched[s] \in Nat /\ launched[s] <= n /\ client'[s] = client[s]
                                 /\ (client[s] # "idle" => launched[s] < n)
      BY <1>2, <2>1 DEF SaveWrite, n
    <3>4. \A s \in Starters : launched[s] < n + 1 /\ (client[s] = "saved" => launched[s] + 1 < n + 1)
      BY <3>3, <1>n
    <3>5. /\ plan' = "LOCKED" /\ launched' = launched /\ locked' = locked \cup {c}
          /\ \A l \in locked' : client'[l] \in {"idle", "saved"}
      BY <1>2, <2>1 DEF SaveWrite
    <3>6. \A s \in Starters :
            /\ launched'[s] < Cardinality(locked')
            /\ client'[s] = "saved" => launched'[s] + 1 < Cardinality(locked')
      BY <3>2, <3>3, <3>4, <3>5
    <3>7. \A s \in Starters : launched'[s] <= Cardinality(locked')
      BY <3>2, <3>3, <3>5, <1>n
    <3> QED  BY <3>2, <3>5, <3>6, <3>7
  <2>2. CASE c \in Starters
    BY <1>2, <2>2 DEF SaveWrite
  <2> QED  BY <2>1, <2>2
<1>3. ASSUME NEW c \in Clients, Abandon(c) PROVE LockInv'
  BY <1>3 DEF Abandon
<1>4. ASSUME NEW c \in Lockers, Create(c) PROVE LockInv'
  BY <1>4 DEF Create
<1>5. ASSUME NEW c \in Lockers, LockFind(c) PROVE LockInv'
  BY <1>5 DEF LockFind, MayLock
<1>6. ASSUME NEW c \in Lockers, LockReturns(c) PROVE LockInv'
  BY <1>6 DEF LockReturns
<1>7. ASSUME NEW c \in Starters, StartFind(c) PROVE LockInv'
  BY <1>7 DEF StartFind
<1>8. ASSUME NEW c \in Starters, SaveRunRow(c) PROVE LockInv'
  BY <1>8 DEF SaveRunRow
<1>9. ASSUME NEW c \in Starters, LaunchRun(c) PROVE LockInv'
  <2>1. launched[c] \in Nat /\ launched[c] < n /\ (plan = "LOCKED" => launched[c] + 1 < n)
    BY <1>9 DEF LaunchRun, n
  <2>2. launched[c] + 1 <= n
    BY <2>1, <1>n
  <2> QED  BY <1>9, <2>1, <2>2 DEF LaunchRun, n
<1>10. CASE UNCHANGED planVars
  BY <1>10 DEF planVars
<1>11. QED
  BY <1>1, <1>2, <1>3, <1>4, <1>5, <1>6, <1>7, <1>8, <1>9, <1>10 DEF PlanNext

LEMMA LockedAlways == PlanSpec => []LockedInv
BY LockedInit, LockedStep, PTL DEF PlanSpec

\* However many clients lock and start, each writes LOCKED at most once.
THEOREM LockersCorrect == PlanSpec => LockersWriteOnce
<1>1. LockedInv /\ [PlanNext]_planVars
        => [\A l \in Lockers : SaveWrite(l) => l \notin locked]_planVars
  BY DEF LockedInv, LockInv, SaveWrite
<1> QED  BY <1>1, LockedAlways, PTL DEF PlanSpec, LockersWriteOnce

\* However many clients lock and start, no client launches the plan more often
\* than there are clients that have locked it, and a launched plan that is not
\* spent was locked by two.
THEOREM LaunchesCorrect == PlanSpec => []LaunchesFollowLocks
<1>1. LockedInv => LaunchesFollowLocks
  <2> SUFFICES ASSUME LockedInv PROVE LaunchesFollowLocks
    OBVIOUS
  <2>1. LaunchedOncePerLock
    BY DEF LockedInv, LockInv, LaunchedOncePerLock
  <2>2. ASSUME NEW s \in Starters, launched[s] > 0, plan # "CONSUMED"
        PROVE  Cardinality(locked) > 1
    <3>1. Cardinality(locked) \in Nat /\ launched[s] \in Nat
      BY FS_CardinalityType DEF LockedInv, LockInv, ReviewInv, PlanTypeInv, PlanTypeOK
    <3>2. plan = "LOCKED"
      BY <2>2, <3>1, FS_EmptySet
      DEF LockedInv, LockInv, ReviewInv, PlanTypeInv, PlanTypeOK, PlanStates
    <3> QED  BY <2>2, <3>1, <3>2 DEF LockedInv, LockInv
  <2> QED  BY <2>1, <2>2 DEF LaunchesFollowLocks, SpentUnlessRelocked
<1> QED  BY <1>1, LockedAlways, PTL
=============================================================================
