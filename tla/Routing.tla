------------------------------ MODULE Routing ------------------------------
(***************************************************************************)
(* Model routing (Python: routing/router.py, discovery.py, store.py, the      *)
(* attempts of execution/goal_runner.py).  The registry is probed once, in      *)
(* the background; the router goes by what the last good probe listed.  A       *)
(* task is routed, its decision recorded, and then attempted model by model.   *)
(***************************************************************************)
EXTENDS Naturals, FiniteSets, SequencesExt

CONSTANTS
  Roster,      \* ModelRouter.ROSTER, in its order
  Provider, Primary, Expected,
  Preference,  \* a role's models: ROLE_DEFAULTS
  Listings,    \* what `cmd --list-models` may print: sets of ids
  Names,       \* the listed ids that contain a model's id or its key
  MaxFallback, \* config.max_fallback_attempts
  MaxBoots     \* bound on starts of the application

Models == Range(Roster)
None == "none"
Default == "default"    \* the harness runs on the model it likes

ASSUME RosterAssumption == /\ Roster \in Seq(Models) /\ IsInjective(Roster)
                           /\ {None, Default} \cap Models = {}
                           /\ Primary \subseteq Models /\ Expected \subseteq Models
                           /\ \A r \in DOMAIN Preference :
                                Preference[r] \in Seq(Models) /\ IsInjective(Preference[r])
ASSUME BoundAssumption == MaxFallback \in Nat /\ MaxBoots \in Nat \ {0}

VARIABLES
  up, boots,
  cached,     \* ModelRegistry._cached: the process's, not the application's
  current,    \* registry.current
  available,  \* router._available
  probing,    \* the background probe
  score,      \* router.scorecard: observations by model and outcome
  stored,     \* model_observations
  job         \* the task being carried out

rvars == <<up, boots, cached, current, available, probing, score, stored, job>>
registry == <<up, boots, cached, current, available, probing>>

Pending == [state |-> "pending", ids |-> {}]
Degraded == [state |-> "degraded", ids |-> {}]
Answers == {Degraded} \cup {[state |-> "reachable", ids |-> L] : L \in Listings}
Counters == [(Models \cup {Default}) \X BOOLEAN -> Nat]
NoJob == [at |-> "idle", task |-> None, selected |-> None, candidates |-> <<>>, list |-> <<>>,
          tried |-> <<>>, reviewed |-> FALSE, reviewer |-> None, ok |-> FALSE]
Steps == {"idle", "routed", "trying", "observed", "reviewing", "judged"}

RTypeOK ==
  /\ up \in BOOLEAN /\ boots \in 0..MaxBoots
  /\ cached \in Answers \cup {Pending} /\ current \in Answers \cup {Pending}
  /\ probing \in BOOLEAN /\ available \in SUBSET UNION Listings
  /\ score \in Counters /\ stored \in Counters
  /\ DOMAIN job = DOMAIN NoJob /\ job.at \in Steps
  /\ job.selected \in Models \cup {None} /\ job.reviewer \in Models \cup {None}
  /\ Range(job.list) \subseteq Models \cup {Default}

RInit ==
  /\ up = FALSE /\ boots = 0 /\ cached = Pending /\ current = Pending
  /\ available = {} /\ probing = FALSE /\ job = NoJob
  /\ score = [c \in (Models \cup {Default}) \X BOOLEAN |-> 0] /\ stored = score

----------------------------------------------------------------------------
(* ModelRouter                                                              *)
IsReachable(m) ==
  IF available = {} THEN m \in Expected ELSE Names[m] \cap available # {}

Live == {m \in Models : IsReachable(m)}

(* The first of a list that is in S.                                         *)
FirstIn(s, S) ==
  LET found == {i \in DOMAIN s : s[i] \in S} IN IF found = {} THEN None ELSE s[Min(found)]

Select(role) == FirstIn(Preference[role], Live)

SelectReviewer(provider) ==
  LET cross == {m \in Live : Provider[m] # provider}
  IN FirstIn(Roster, IF cross \cap Primary # {} THEN cross \cap Primary ELSE cross)

(* s, and after it what of a list is in S, in the order of the list.           *)
Kept(s, list, S) ==
  LET grown[n \in 0..Len(list)] ==
        IF n = 0 THEN s
        ELSE IF list[n] \in S THEN Append(grown[n - 1], list[n]) ELSE grown[n - 1]
  IN grown[Len(list)]

(* Mutant: the selected model is put in front and left in its place.          *)
FallbackRepeats(selected, candidates) ==
  LET all == IF selected = None THEN Kept(<<>>, candidates, Live)
             ELSE Kept(<<selected>>, candidates, Live)
  IN IF all = <<>> THEN <<Default>> ELSE all

(* _fallback_candidates                                                     *)
Fallback(selected, candidates) ==
  LET all == IF selected = None THEN Kept(<<>>, candidates, Live)
             ELSE Kept(<<selected>>, candidates, Live \ {selected})
  IN IF all = <<>> THEN <<Default>> ELSE all

----------------------------------------------------------------------------
(* Mutant: the restored card knows successes only.                           *)
RestoredSuccesses == [c \in DOMAIN stored |-> IF c[2] THEN stored[c] ELSE 0]

(* RoutingStore.restore: uses, and successes among them, from the table.      *)
Restored == stored

(* Mutant: a cached answer is not applied to the new router.                  *)
ListedNow(answer) == {}

(* ModelRegistry.__init__ and refresh: what the router goes by afterwards.     *)
Listed(answer) == answer.ids

(* lifespan: a new router and card; the registry starts from the process's      *)
(* cached answer and is probed only when there is none.                       *)
Boot ==
  /\ ~up /\ boots < MaxBoots /\ up' = TRUE /\ boots' = boots + 1
  /\ score' = Restored /\ current' = cached /\ available' = Listed(cached)
  /\ probing' = (cached = Pending)
  /\ UNCHANGED <<cached, stored, job>>

(* refresh: discover_models answers, fails or times out; only a list that was   *)
(* read reaches the router.                                                 *)
Probed ==
  /\ probing /\ probing' = FALSE
  /\ \E answer \in Answers :
       /\ current' = answer /\ cached' = answer
       /\ available' = IF answer.state = "reachable" THEN answer.ids ELSE available
  /\ UNCHANGED <<up, boots, score, stored, job>>

(* Only a harness that is not on the path is an answer: any other error of its   *)
(* start ends the probe, and the registry stays as it was.                    *)
ProbeDies ==
  /\ probing /\ probing' = FALSE
  /\ UNCHANGED <<up, boots, cached, current, available, score, stored, job>>

(* The application stops, with its background tasks; perhaps the process too.  *)
Stop ==
  /\ up /\ up' = FALSE /\ probing' = FALSE /\ job' = NoJob
  /\ cached' \in {cached, Pending}
  /\ UNCHANGED <<boots, current, available, score, stored>>

----------------------------------------------------------------------------
(* _run_task: route before the first await.                                  *)
Route(task, role, risky) ==
  /\ up /\ job.at = "idle"
  /\ job' = [NoJob EXCEPT !.at = "routed", !.task = task, !.selected = Select(role),
                          !.candidates = Preference[role], !.reviewed = risky]
  /\ UNCHANGED <<registry, score, stored>>

(* The decision is recorded, the task readied, its worktree made: then the       *)
(* list of candidates is drawn up from what is reachable by now.              *)
Capped(s) == IF Len(s) <= 1 + MaxFallback THEN s ELSE SubSeq(s, 1, 1 + MaxFallback)

DrawUp ==
  /\ job.at = "routed"
  /\ LET list == Capped(Fallback(job.selected, job.candidates)) IN
     job' = [job EXCEPT !.at = "trying", !.list = list, !.tried = <<Head(list)>>]
  /\ UNCHANGED <<registry, score, stored>>

Current == IF job.reviewer # None THEN job.reviewer ELSE Last(job.tried)

(* Mutant: an attempt on a model that is not reachable has no end.            *)
ObserveReachable ==
  /\ job.at \in {"trying", "reviewing"} /\ (Current = Default \/ IsReachable(Current))
  /\ \E ok \in BOOLEAN :
       /\ score' = [score EXCEPT ![<<Current, ok>>] = @ + 1]
       /\ job' = [job EXCEPT !.ok = ok,
                             !.at = IF job.at = "trying" THEN "observed" ELSE "judged"]
  /\ UNCHANGED <<registry, stored>>

(* An attempt ends, or the review does: the card in memory is told first.       *)
Observe ==
  /\ job.at \in {"trying", "reviewing"}
  /\ \E ok \in BOOLEAN :
       /\ score' = [score EXCEPT ![<<Current, ok>>] = @ + 1]
       /\ job' = [job EXCEPT !.ok = ok,
                             !.at = IF job.at = "trying" THEN "observed" ELSE "judged"]
  /\ UNCHANGED <<registry, stored>>

(* Mutant: the reviewer is chosen against the model that was selected.         *)
AuthorSelected == IF job.selected = None THEN None ELSE Provider[job.selected]

(* outcome.provider: the model that did the work; "" for the default one.       *)
Author == IF Last(job.tried) = Default THEN None ELSE Provider[Last(job.tried)]

AfterFailure ==
  LET i == Len(job.tried) IN
  IF i < Len(job.list) THEN [job EXCEPT !.at = "trying", !.tried = Append(@, job.list[i + 1])]
  ELSE NoJob

AfterSuccess ==
  LET reviewer == SelectReviewer(Author) IN
  IF job.reviewed /\ reviewer # None
  THEN [job EXCEPT !.at = "reviewing", !.reviewer = reviewer] ELSE NoJob

(* record_observation: then the next model, the review, or the end.  A save       *)
(* that raises ends the task; the card keeps what it was told.               *)
Record ==
  /\ job.at \in {"observed", "judged"}
  /\ \/ /\ stored' = [stored EXCEPT ![<<Current, job.ok>>] = @ + 1]
        /\ job' = CASE job.at = "judged" -> NoJob
                    [] job.at = "observed" /\ job.ok -> AfterSuccess
                    [] OTHER -> AfterFailure
     \/ job' = NoJob /\ UNCHANGED stored
  /\ UNCHANGED <<registry, score>>

----------------------------------------------------------------------------
(* The router goes by the registry's last answer, in a process where the          *)
(* application starts again too; without a list it goes by the roster, and what  *)
(* has been answered is not asked for again.                                 *)
RouterFollowsRegistry ==
  up => available = current.ids /\ (probing => current = Pending)

(* "A missing or failing harness is a degraded state": the code does not keep     *)
(* this, a harness that cannot be started may leave the registry pending.        *)
PendingIsProbed == up /\ current = Pending => probing

(* The card in memory never knows less than the table, whatever was restored.   *)
NothingForgotten == up => \A c \in DOMAIN stored : stored[c] <= score[c]

(* No model is tried twice for a task, nor more than the configuration says.    *)
TriedOnce == IsInjective(job.tried) /\ Len(job.tried) <= 1 + MaxFallback

(* High-risk work is reviewed by another provider than the one whose model did   *)
(* it, also after falling back.                                             *)
IndependentReview ==
  job.reviewer # None /\ Last(job.tried) # Default
    => Provider[job.reviewer] # Provider[Last(job.tried)]

(* MODEL_ROUTER.md:57: an unreachable model is not a fallback.  What is tried,   *)
(* the registry listed, once it has answered.                               *)
OnlyLiveTried ==
  [][job'.tried # job.tried /\ job'.tried # <<>> /\ current.state = "reachable"
       => Last(job'.tried) \in current.ids \cup {Default}]_rvars
============================================================================
