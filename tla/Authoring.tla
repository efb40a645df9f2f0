------------------------------ MODULE Authoring ------------------------------
(***************************************************************************)
(* From a discussion and a Goal to a run (Python: discuss/store.py, ledger.py, *)
(* finalize.py, execution/plans.py, Persistence.save_plan and the routes of     *)
(* api/routes.py).  Every route is a coroutine: another may go on wherever it   *)
(* awaits the database, and any call of it may fail.  Runs and plans are rows;  *)
(* finalization writes files, whose names are numbers and shortened titles.    *)
(***************************************************************************)
EXTENDS Naturals, FiniteSets

CONSTANTS Plans, Goals, GoalOf,
          Lockers,   \* requests to lock a plan
          Starters,  \* requests to start a run
          Acceptors, \* requests to accept a decision
          Decisions, \* 1..n in the order they are proposed in
          NeedAdr,   \* the decisions that ask for an ADR
          Slugs,     \* what is left of a title in a file name
          Titles,    \* the slugs that the decisions may have
          Domains,   \* the domains of the draft
          MaxRuns, MaxEdits, MaxFinal

ASSUME PlanAssumption == GoalOf \in [Plans -> Goals]
ASSUME DecisionAssumption == IsFiniteSet(Decisions) /\ Decisions = 1..Cardinality(Decisions)
ASSUME AdrAssumption == NeedAdr \subseteq Decisions /\ Titles \subseteq [Decisions -> Slugs]
ASSUME BoundAssumption == MaxRuns \in Nat /\ MaxEdits \in Nat /\ MaxFinal \in Nat

VARIABLES
  plan,      \* the plans table: the state of each
  locker, starter, acceptor, \* the requests between two awaits
  run,       \* the runs: started in the background, then a row
  decision,  \* the decisions table
  draft,     \* the draft's completeness, where only sufficient counts
  loaded,    \* finalize between its load and its writing
  slugOf,    \* the slug of each decision's title
  files,     \* docs/07-decisions: ADR number and slug to what is there
  adrOf,     \* the decision of the ADR that was last written there
  ledger,    \* DECISION_LEDGER.md
  edits, finals,
  overlapped,\* history: plans that two requests were at, or a crash
  everLocked,\* history
  adrift,    \* history: runs whose plan could not be saved as CONSUMED
  finalized  \* history: what the last completed finalization had loaded

planVars == <<plan, locker, starter, run, overlapped, everLocked, adrift>>
talkVars == <<decision, acceptor, draft, loaded, finals>>
fileVars == <<slugOf, files, adrOf, ledger, edits, finalized>>
vars == <<planVars, talkVars, fileVars>>

PlanStates == {"absent", "DRAFT", "LOCKED", "CONSUMED"}
NoPlan == "none"
ASSUME NoPlanAssumption == NoPlan \notin Plans
Idle == [at |-> "idle"]
Busy(at, p) == [at |-> at, plan |-> p]
RunIds == 1..MaxRuns
NoRun == [at |-> "none", plan |-> NoPlan]
AdrPaths == Decisions \X Slugs
FileStates == {"absent", "rendered", "torn", "edited"}

TypeOK ==
  /\ plan \in [Plans -> PlanStates]
  /\ \A l \in Lockers : locker[l].at \in {"idle", "loaded", "write"}
  /\ \A s \in Starters : starter[s].at \in {"idle", "loaded", "consume", "write"}
  /\ \A a \in Acceptors : acceptor[a] \in Decisions \cup {0}
  /\ run \in [RunIds -> [at : {"none", "working", "row", "lost"},
                       plan : Plans \cup {NoPlan}]]
  /\ decision \in [Decisions -> {"absent", "PROPOSED", "ACCEPTED"}]
  /\ draft \in [Domains -> {"lacking", "sufficient"}]
  /\ loaded.at \in {"idle", "loaded"}
  /\ slugOf \in Titles /\ files \in [AdrPaths -> FileStates] /\ adrOf \in [AdrPaths -> Decisions \cup {0}]
  /\ ledger.state \in FileStates /\ ledger.lists \subseteq Decisions
  /\ edits \in 0..MaxEdits /\ finals \in 0..MaxFinal
  /\ overlapped \subseteq Plans /\ everLocked \subseteq Plans /\ adrift \subseteq RunIds
  /\ finalized \subseteq Decisions

Init ==
  /\ plan = [p \in Plans |-> "absent"]
  /\ locker = [l \in Lockers |-> Idle] /\ starter = [s \in Starters |-> Idle]
  /\ acceptor = [a \in Acceptors |-> 0]
  /\ run = [i \in RunIds |-> NoRun]
  /\ decision = [d \in Decisions |-> "absent"] /\ draft = [m \in Domains |-> "lacking"]
  /\ slugOf \in Titles
  /\ loaded = Idle /\ files = [f \in AdrPaths |-> "absent"]
  /\ adrOf = [f \in AdrPaths |-> 0]
  /\ ledger = [state |-> "absent", lists |-> {}]
  /\ edits = 0 /\ finals = 0 /\ overlapped = {} /\ everLocked = {} /\ adrift = {}
  /\ finalized = {}

----------------------------------------------------------------------------
(* Plans.  save_plan loads the row and then writes it; a row that is no        *)
(* longer a draft only goes from LOCKED to CONSUMED.                        *)
AtPlan(p) ==
  {l \in Lockers : locker[l].at # "idle" /\ locker[l].plan = p}
  \cup {s \in Starters : starter[s].at # "idle" /\ starter[s].plan = p}

Enter(p) ==
  overlapped' = IF AtPlan(p) # {} THEN overlapped \cup {p} ELSE overlapped

SaveAllowed(p, state) ==
  plan[p] \in {"absent", "DRAFT"} \/ (plan[p] = "LOCKED" /\ state = "CONSUMED")

CreatePlan(p) ==
  /\ plan[p] = "absent" /\ plan' = [plan EXCEPT ![p] = "DRAFT"]
  /\ UNCHANGED <<locker, starter, run, overlapped, everLocked, adrift, talkVars, fileVars>>

LockLoad(l, p) ==
  /\ locker[l] = Idle /\ plan[p] = "DRAFT"
  /\ locker' = [locker EXCEPT ![l] = Busy("loaded", p)] /\ Enter(p)
  /\ UNCHANGED <<plan, starter, run, everLocked, adrift, talkVars, fileVars>>

LockCheck(l) ==
  /\ locker[l].at = "loaded"
  /\ locker' = [locker EXCEPT ![l] = IF SaveAllowed(locker[l].plan, "LOCKED")
                                     THEN Busy("write", locker[l].plan) ELSE Idle]
  /\ UNCHANGED <<plan, starter, run, overlapped, everLocked, adrift, talkVars, fileVars>>

LockWrite(l) ==
  /\ locker[l].at = "write"
  /\ plan' = [plan EXCEPT ![locker[l].plan] = "LOCKED"]
  /\ everLocked' = everLocked \cup {locker[l].plan}
  /\ locker' = [locker EXCEPT ![l] = Idle]
  /\ UNCHANGED <<starter, run, overlapped, adrift, talkVars, fileVars>>

(* A call of the database raises: the request answers with an error.          *)
LockFails(l) ==
  /\ locker[l] # Idle /\ locker' = [locker EXCEPT ![l] = Idle]
  /\ UNCHANGED <<plan, starter, run, overlapped, everLocked, adrift, talkVars, fileVars>>

----------------------------------------------------------------------------
(* create_run.  The plan must be LOCKED and be of the Goal that is asked for;  *)
(* the run is started before the plan is saved as CONSUMED.                  *)
FreshRun == CHOOSE i \in RunIds : run[i] = NoRun
CanStart == \E i \in RunIds : run[i] = NoRun
Started(p) == {i \in RunIds : run[i].plan = p /\ run[i].at # "none"}

(* Mutant: any plan of the Goal will do.                                    *)
MayRunAny(p, g) == plan[p] # "absent" /\ GoalOf[p] = g

MayRun(p, g) == plan[p] = "LOCKED" /\ GoalOf[p] = g

StartLoad(s, p, g) ==
  /\ starter[s] = Idle /\ MayRun(p, g)
  /\ starter' = [starter EXCEPT ![s] = Busy("loaded", p)] /\ Enter(p)
  /\ UNCHANGED <<plan, locker, run, everLocked, adrift, talkVars, fileVars>>

(* Mutant: the run is left to whoever finds the plan consumed.              *)
StartRunLater(s) ==
  /\ starter[s].at = "loaded" /\ CanStart
  /\ starter' = [starter EXCEPT ![s] = Busy("consume", starter[s].plan)]
  /\ UNCHANGED <<plan, locker, run, overlapped, everLocked, adrift, talkVars, fileVars>>

StartRun(s) ==
  /\ starter[s].at = "loaded" /\ CanStart
  /\ run' = [run EXCEPT ![FreshRun] = [at |-> "working", plan |-> starter[s].plan]]
  /\ starter' = [starter EXCEPT ![s] = Busy("consume", starter[s].plan)]
  /\ UNCHANGED <<plan, locker, overlapped, everLocked, adrift, talkVars, fileVars>>

ConsumeCheck(s) ==
  /\ starter[s].at = "consume"
  /\ starter' = [starter EXCEPT ![s] = IF plan[starter[s].plan] = "LOCKED"
                                       THEN Busy("write", starter[s].plan) ELSE Idle]
  /\ UNCHANGED <<plan, locker, run, overlapped, everLocked, adrift, talkVars, fileVars>>

(* Mutant: the plan stays as it is.                                         *)
ConsumeNothing(s) ==
  /\ starter[s].at = "write" /\ starter' = [starter EXCEPT ![s] = Idle]
  /\ UNCHANGED <<plan, locker, run, overlapped, everLocked, adrift, talkVars, fileVars>>

(* Mutant: the state of a Goal is written.                                  *)
ConsumeDone(s) ==
  /\ starter[s].at = "write"
  /\ plan' = [plan EXCEPT ![starter[s].plan] = "DONE"]
  /\ starter' = [starter EXCEPT ![s] = Idle]
  /\ UNCHANGED <<locker, run, overlapped, everLocked, adrift, talkVars, fileVars>>

ConsumeWrite(s) ==
  /\ starter[s].at = "write"
  /\ plan' = [plan EXCEPT ![starter[s].plan] = "CONSUMED"]
  /\ starter' = [starter EXCEPT ![s] = Idle]
  /\ UNCHANGED <<locker, run, overlapped, everLocked, adrift, talkVars, fileVars>>

(* save_plan raises, after the run was started: the plan stays as it is.      *)
ConsumeFails(s) ==
  /\ starter[s].at \in {"consume", "write"}
  /\ adrift' = adrift \cup Started(starter[s].plan)
  /\ starter' = [starter EXCEPT ![s] = Idle]
  /\ UNCHANGED <<plan, locker, run, overlapped, everLocked, talkVars, fileVars>>

(* The request is refused before it starts anything: no such runner.         *)
StartRefused(s) ==
  /\ starter[s].at = "loaded" /\ starter' = [starter EXCEPT ![s] = Idle]
  /\ UNCHANGED <<plan, locker, run, overlapped, everLocked, adrift, talkVars, fileVars>>

(* A request without a plan runs what plan_for_goal derives.                 *)
StartUnplanned ==
  /\ CanStart /\ run' = [run EXCEPT ![FreshRun] = [at |-> "working", plan |-> NoPlan]]
  /\ UNCHANGED <<plan, locker, starter, overlapped, everLocked, adrift, talkVars, fileVars>>

(* GoalRunner.execute saves the run's row.                                   *)
RunSaved ==
  /\ \E i \in RunIds : run[i].at = "working" /\ run' = [run EXCEPT ![i].at = "row"]
  /\ UNCHANGED <<plan, locker, starter, overlapped, everLocked, adrift, talkVars, fileVars>>

----------------------------------------------------------------------------
(* Discussions.                                                             *)
Propose(d) ==
  /\ decision[d] = "absent" /\ \A e \in Decisions : e < d => decision[e] # "absent"
  /\ decision' = [decision EXCEPT ![d] = "PROPOSED"]
  /\ UNCHANGED <<planVars, acceptor, draft, loaded, finals, fileVars>>

AcceptLoad(a, d) ==
  /\ acceptor[a] = 0 /\ decision[d] = "PROPOSED" /\ acceptor' = [acceptor EXCEPT ![a] = d]
  /\ UNCHANGED <<planVars, decision, draft, loaded, finals, fileVars>>

AcceptSave(a) ==
  /\ acceptor[a] # 0
  /\ decision' = [decision EXCEPT ![acceptor[a]] = "ACCEPTED"]
  /\ acceptor' = [acceptor EXCEPT ![a] = 0]
  /\ UNCHANGED <<planVars, draft, loaded, finals, fileVars>>

AcceptFails(a) ==
  /\ acceptor[a] # 0 /\ acceptor' = [acceptor EXCEPT ![a] = 0]
  /\ UNCHANGED <<planVars, decision, draft, loaded, finals, fileVars>>

SaveDraft ==
  /\ \E m \in Domains, c \in {"lacking", "sufficient"} :
       draft' = [draft EXCEPT ![m] = c]
  /\ UNCHANGED <<planVars, decision, acceptor, loaded, finals, fileVars>>

----------------------------------------------------------------------------
(* finalize_discussion: load_session and the gap report, then every file       *)
(* without an await.                                                        *)
Accepted == {d \in Decisions : decision[d] = "ACCEPTED"}
IsComplete == \A m \in Domains : draft[m] = "sufficient"
IndexIn(accepted, d) == Cardinality({e \in accepted : e <= d})

FinalizeLoad ==
  /\ loaded = Idle /\ finals < MaxFinal /\ finals' = finals + 1 /\ IsComplete
  /\ \E overwrite \in BOOLEAN :
       loaded' = [at |-> "loaded", accepted |-> Accepted, overwrite |-> overwrite]
  /\ UNCHANGED <<planVars, decision, acceptor, draft, fileVars>>

(* The file of a decision's ADR: its number among the accepted ones and its    *)
(* slug, which other decisions may share.                                    *)
AdrPath(accepted, d) == <<IndexIn(accepted, d), slugOf[d]>>

(* generate_artifacts: the files of the ADRs, and of which decision each is.   *)
Artifacts(accepted) == {AdrPath(accepted, d) : d \in accepted \cap NeedAdr}
Numbered(accepted, n) == CHOOSE d \in accepted : IndexIn(accepted, d) = n

(* Mutant: what is there is overwritten.                                    *)
SkippedNever(state, overwrite) == FALSE

Skipped(state, overwrite) == state # "absent" /\ ~overwrite

(* Mutant: the writing ends at the first file that is there.                *)
RenderedToFirst(artifacts, overwrite) ==
  {f \in artifacts : ~\E g \in artifacts : g[1] <= f[1] /\ Skipped(files[g], overwrite)}

Rendered(artifacts, overwrite) == {f \in artifacts : ~Skipped(files[f], overwrite)}

(* The files of ADRs that this finalization writes.                         *)
Todo == Rendered(Artifacts(loaded.accepted), loaded.overwrite)

WriteFiles(whole, torn) ==
  /\ files' = [f \in DOMAIN files |-> IF f \in torn THEN "torn"
                                      ELSE IF f \in whole THEN "rendered" ELSE files[f]]
  /\ adrOf' = [f \in DOMAIN adrOf |-> IF f \in whole \cup torn
                                      THEN Numbered(loaded.accepted, f[1]) ELSE adrOf[f]]

WriteLedger(states) ==
  ledger' \in {[state |-> t, lists |-> loaded.accepted] : t \in states}

(* write_artifacts: the ADRs, the ledger last.                              *)
FinalizeWrite ==
  /\ loaded.at = "loaded" /\ loaded' = Idle
  /\ WriteFiles(Todo, {})
  /\ IF Skipped(ledger.state, loaded.overwrite) THEN UNCHANGED ledger
     ELSE WriteLedger({"rendered"})
  /\ finalized' = loaded.accepted
  /\ UNCHANGED <<planVars, decision, acceptor, draft, finals, slugOf, edits>>

EditByHand ==
  /\ edits < MaxEdits /\ edits' = edits + 1
  /\ \/ /\ \E f \in DOMAIN files :
             files[f] # "absent" /\ files' = [files EXCEPT ![f] = "edited"]
        /\ UNCHANGED ledger
     \/ /\ ledger.state # "absent" /\ ledger' = [ledger EXCEPT !.state = "edited"]
        /\ UNCHANGED files
  /\ UNCHANGED <<planVars, talkVars, slugOf, adrOf, finalized>>

----------------------------------------------------------------------------
(* The process ends: requests and background tasks are gone; of the files       *)
(* that were being written some are there, and one may be cut short.  The      *)
(* ledger is the last of them.                                              *)
Crash ==
  /\ locker' = [l \in Lockers |-> Idle] /\ starter' = [s \in Starters |-> Idle]
  /\ acceptor' = [a \in Acceptors |-> 0] /\ loaded' = Idle
  /\ run' = [i \in RunIds |-> IF run[i].at = "working" THEN [run[i] EXCEPT !.at = "lost"]
                              ELSE run[i]]
  /\ overlapped' = overlapped \cup {p \in Plans : AtPlan(p) # {}}
  /\ \/ UNCHANGED <<files, adrOf, ledger>>
     \/ /\ loaded.at = "loaded"
        /\ \E whole \in SUBSET Todo : \E torn \in {{}} \cup {{f} : f \in Todo \ whole} :
             WriteFiles(whole, torn)
        /\ UNCHANGED ledger
     \/ /\ loaded.at = "loaded" /\ ~Skipped(ledger.state, loaded.overwrite)
        /\ WriteFiles(Todo, {}) /\ WriteLedger({"torn", "rendered"})
  /\ UNCHANGED <<plan, everLocked, adrift, decision, draft, finals, slugOf, edits, finalized>>

Next ==
  \/ \E p \in Plans : CreatePlan(p) \/ \E l \in Lockers : LockLoad(l, p)
  \/ \E l \in Lockers : LockCheck(l) \/ LockWrite(l) \/ LockFails(l)
  \/ \E s \in Starters : \/ \E p \in Plans, g \in Goals : StartLoad(s, p, g)
                         \/ StartRun(s) \/ StartRefused(s)
                         \/ ConsumeCheck(s) \/ ConsumeWrite(s) \/ ConsumeFails(s)
  \/ StartUnplanned \/ RunSaved
  \/ \E d \in Decisions : Propose(d) \/ \E a \in Acceptors : AcceptLoad(a, d)
  \/ \E a \in Acceptors : AcceptSave(a) \/ AcceptFails(a)
  \/ SaveDraft \/ FinalizeLoad \/ FinalizeWrite \/ EditByHand \/ Crash

Spec == Init /\ [][Next]_vars

----------------------------------------------------------------------------
(* A run of a plan was started only after the plan had been locked             *)
(* (create_run), whatever happened to the plan since.                       *)
OnlyLockedRuns == \A i \in RunIds : run[i].plan \in Plans => run[i].plan \in everLocked

(* A consumed plan has had its run started: a crash between the two loses       *)
(* the state CONSUMED, never the run (create_run starts the run first).        *)
ConsumedWasStarted == \A p \in Plans : plan[p] = "CONSUMED" => Started(p) # {}

(* A plan that requests visit one after the other, without a crash, is run once, *)
(* but for the runs whose request could not save it as CONSUMED: each of those  *)
(* leaves the plan to be run again (create_run, save_plan).                   *)
OneRunPerPlan ==
  \A p \in Plans : p \notin overlapped /\ AtPlan(p) = {} =>
    Cardinality(Started(p) \ adrift) <= 1

(* The code does not keep this: save_plan may raise when the run is under way.  *)
OneRunEver ==
  \A p \in Plans : p \notin overlapped /\ AtPlan(p) = {} => Cardinality(Started(p)) <= 1

(* What is run was reviewed, and run again only when its saving failed.          *)
PlansRunOnce == TypeOK /\ OnlyLockedRuns /\ ConsumedWasStarted /\ OneRunPerPlan

(* A plan is never unlocked or made runnable again ("immutable after").         *)
(* save_plan loads and then writes: of two requests that lock, the one that      *)
(* had loaded the draft can write after the plan was consumed.                *)
NeverRunnableAgain ==
  [][\A p \in Plans : /\ plan[p] = "CONSUMED" => plan'[p] = "CONSUMED"
                      /\ plan[p] = "LOCKED" => plan'[p] \in {"LOCKED", "CONSUMED"}]_vars

(* "Re-finalizing cannot quietly destroy hand-edited documentation": a file      *)
(* that a person changed is only overwritten on request (write_artifacts).      *)
HandEditsKept ==
  [][\A f \in DOMAIN files :
       files[f] = "edited" /\ files'[f] # "edited" => loaded # Idle /\ loaded.overwrite]_vars

(* Every ADR in the project is of a decision that the database has as            *)
(* accepted, after any crash (generate_artifacts, accept_decision).            *)
AdrsAreAccepted == \A f \in AdrPaths : files[f] # "absent" =>
                     adrOf[f] \in NeedAdr /\ decision[adrOf[f]] = "ACCEPTED"

(* Once a finalization has completed, every decision it had loaded as accepted   *)
(* and that asks for an ADR has a file under its number and slug, also when     *)
(* earlier ones were already there or a crash had left some, and the file is of   *)
(* that decision unless another one has its slug (write_artifacts).            *)
OwnSlug(d) == \A e \in NeedAdr : slugOf[e] = slugOf[d] => e = d
FinalizedHasAdr ==
  \A d \in finalized \cap NeedAdr : LET f == AdrPath(finalized, d) IN
    files[f] # "absent" /\ (OwnSlug(d) => adrOf[f] = d)

(* The ADRs of the project are of accepted decisions, and of all of them.       *)
AdrsFollow == AdrsAreAccepted /\ FinalizedHasAdr

(* The code does not keep this: a decision accepted later moves the numbers of   *)
(* those after it, and the file that its own ADR would go to is there already    *)
(* when their slugs are the same.                                           *)
FinalizedHasOwnAdr == \A d \in finalized \cap NeedAdr : \E f \in AdrPaths : adrOf[f] = d

(* Nor this: write_text leaves half a file if the process ends, and the next     *)
(* finalization leaves that file alone.                                     *)
FinalizedAdrIsWhole ==
  \A d \in finalized \cap NeedAdr : files[AdrPath(finalized, d)] # "torn"

(* An ADR number is of one decision.  The number is the position among the       *)
(* accepted ones, which a later acceptance shifts.                           *)
NumberIsUnique ==
  \A f, g \in DOMAIN files :
    files[f] # "absent" /\ files[g] # "absent" /\ f[1] = g[1] => f = g

(* The ledger lists what the last finalization had loaded, unless a person       *)
(* changed it.  Without overwrite an existing ledger stays as it is.           *)
LedgerFollows == ledger.state = "rendered" => ledger.lists = finalized
=============================================================================
