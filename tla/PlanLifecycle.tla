--------------------------- MODULE PlanLifecycle ---------------------------
(***************************************************************************)
(* One plan of the .NET runtime from the moment it is drawn until it is    *)
(* spent: PlanService.CreateAsync and LockAsync, RunService.StartAsync and *)
(* the rule of PlanRepository.SaveAsync that a locked plan cannot change.  *)
(*                                                                         *)
(* A save is a read, a decision in memory and a write, and the database    *)
(* gate is released between the two.  A client holds in memory the state   *)
(* it is going to save; the rest of a plan never changes after it is drawn *)
(* and every drawn plan has an id of its own, so one plan is enough.       *)
(***************************************************************************)
EXTENDS Naturals, FiniteSets

CONSTANTS
  Lockers,    \* clients that draw and lock
  Starters,   \* clients that start runs
  MaxRuns     \* bound on the run rows written

ASSUME ClientAssumption == Lockers \cap Starters = {} /\ MaxRuns \in Nat

VARIABLES
  plan,       \* the state in the plan's row
  clean,      \* the drawn graph has no overlapping write scopes
  client,     \* where each client is in its call
  rows,       \* run rows written for the plan
  launched,   \* engines each starter has launched
  locked      \* history: the clients that have written LOCKED

planVars == <<plan, clean, client, rows, launched, locked>>

Clients    == Lockers \cup Starters
PlanStates == {"DRAFT", "LOCKED", "CONSUMED"}

\* The state a client saves: LockAsync saves LOCKED, StartAsync CONSUMED.
Saving(c) == IF c \in Lockers THEN "LOCKED" ELSE "CONSUMED"

PlanInit ==
  /\ plan = "NONE"
  /\ clean \in BOOLEAN
  /\ client = [c \in Clients |-> "idle"]
  /\ rows = 0
  /\ launched = [s \in Starters |-> 0]
  /\ locked = {}

Goto(c, p) == client' = [client EXCEPT ![c] = p]

\* Mutant: drawing again reuses the id of a plan that was reviewed.
Redraw(c) ==
  /\ client[c] = "idle"
  /\ plan' = "DRAFT"
  /\ UNCHANGED <<clean, client, rows, launched, locked>>

\* PlanService.CreateAsync: the id is new, so its save finds nothing.
Create(c) ==
  /\ plan = "NONE"
  /\ client[c] = "idle"
  /\ plan' = "DRAFT"
  /\ UNCHANGED <<clean, client, rows, launched, locked>>

\* Mutant: conflicting write scopes do not keep a plan from being locked.
MayLockAnyDraft == plan = "DRAFT"

\* What LockAsync demands of the plan it read.
MayLock == plan = "DRAFT" /\ clean

\* LockAsync up to its save; a refusal is a PlanStateException.
LockFind(c) ==
  /\ client[c] = "idle"
  /\ MayLock
  /\ Goto(c, "find")
  /\ UNCHANGED <<plan, clean, rows, launched, locked>>

\* RunService.LockedPlanFor
StartFind(c) ==
  /\ client[c] = "idle"
  /\ plan = "LOCKED"
  /\ Goto(c, "saveRun")
  /\ UNCHANGED <<plan, clean, rows, launched, locked>>

\* The run's row is written before the plan is spent.
SaveRunRow(c) ==
  /\ client[c] = "saveRun"
  /\ rows < MaxRuns
  /\ rows' = rows + 1
  /\ Goto(c, "find")
  /\ UNCHANGED <<plan, clean, launched, locked>>

\* Mutant: a locked plan is never rewritten, being consumed included, and
\* keeping it is no error.
DecisionKeepsLocked(existing, incoming) ==
  IF existing \in {"NONE", "DRAFT"} THEN "write" ELSE "saved"

\* What SaveAsync decides from the row it found: write it, leave it as it is,
\* or throw because the plan is immutable.
Decision(existing, incoming) ==
  CASE existing \in {"NONE", "DRAFT"}                          -> "write"
    [] existing = "LOCKED" /\ incoming = "CONSUMED"            -> "write"
    [] existing \in {"LOCKED", "CONSUMED"} /\ existing = incoming -> "saved"
    [] OTHER                                                   -> "idle"

SaveFind(c) ==
  /\ client[c] = "find"
  /\ Goto(c, Decision(plan, Saving(c)))
  /\ UNCHANGED <<plan, clean, rows, launched, locked>>

SaveWrite(c) ==
  /\ client[c] = "write"
  /\ plan' = Saving(c)
  /\ locked' = IF c \in Lockers THEN locked \cup {c} ELSE locked
  /\ Goto(c, "saved")
  /\ UNCHANGED <<clean, rows, launched>>

\* LockAsync returns the plan.
LockReturns(c) ==
  /\ client[c] = "saved"
  /\ Goto(c, "idle")
  /\ UNCHANGED <<plan, clean, rows, launched, locked>>

\* StartInBackground
LaunchRun(c) ==
  /\ client[c] = "saved"
  /\ launched' = [launched EXCEPT ![c] = @ + 1]
  /\ Goto(c, "idle")
  /\ UNCHANGED <<plan, clean, rows, locked>>

\* The call ends at any of its database calls: the caller's token is
\* cancelled, the database fails, or the process dies.
Abandon(c) ==
  /\ client[c] # "idle"
  /\ Goto(c, "idle")
  /\ UNCHANGED <<plan, clean, rows, launched, locked>>

PlanNext ==
  \/ \E c \in Clients : SaveFind(c) \/ SaveWrite(c) \/ Abandon(c)
  \/ \E c \in Lockers : Create(c) \/ LockFind(c) \/ LockReturns(c)
  \/ \E c \in Starters : StartFind(c) \/ SaveRunRow(c) \/ LaunchRun(c)

PlanSpec == PlanInit /\ [][PlanNext]_planVars

-----------------------------------------------------------------------------
PlanTypeOK ==
  /\ plan \in PlanStates \cup {"NONE"}
  /\ clean \in BOOLEAN
  /\ client \in [Clients -> {"idle", "find", "saveRun", "write", "saved"}]
  /\ rows \in 0..MaxRuns
  /\ launched \in [Starters -> 0..MaxRuns]
  /\ locked \in SUBSET Lockers

\* No run exists of a graph that was never locked, or that has two concurrent
\* tasks writing one place, however the calls of the clients interleave.
RunsAreReviewed == rows > 0 => plan \in {"LOCKED", "CONSUMED"} /\ clean

\* A spent plan has a run: the row is there before the plan says CONSUMED, so
\* an abandoned start can lose the plan's run but never invent one.
ConsumedHasRun == plan = "CONSUMED" => rows > 0

\* A LockAsync that read the draft may write LOCKED over a plan that was spent
\* since, but each client only once: no plan becomes a draft again, and whoever
\* comes to LockAsync after the first lock is refused.
LockersWriteOnce == [][\A l \in Lockers : SaveWrite(l) => l \notin locked]_planVars

\* What those stale locks cost: a client that starts the plan again and again
\* launches it at most once for each client that has locked it, and a launched
\* plan that is not spent has been locked a second time.
LaunchedOncePerLock == \A s \in Starters : launched[s] <= Cardinality(locked)
SpentUnlessRelocked ==
  (\E s \in Starters : launched[s] > 0) /\ plan # "CONSUMED" => Cardinality(locked) > 1
LaunchesFollowLocks == LaunchedOncePerLock /\ SpentUnlessRelocked

-----------------------------------------------------------------------------
(* What the documentation says and the code does not keep. *)

\* PlanRepository.SaveAsync: "The single change a locked plan may undergo is
\* to Consumed."
LockedPlanOnlyConsumed ==
  [][/\ plan = "LOCKED" => plan' \in {"LOCKED", "CONSUMED"}
     /\ plan = "CONSUMED" => plan' = "CONSUMED"]_planVars

\* RunService.StartAsync: the plan is spent the moment it is scheduled, "That
\* is what stops one reviewed plan producing two runs."
OneRunPerPlan ==
  \A r, s \in Starters : launched[r] > 0 /\ launched[s] > 0 => r = s
=============================================================================
