------------------------------ MODULE GoalFiles ------------------------------
(***************************************************************************)
(* Goals, their evidence and their completion (Python: verification/gates.py, *)
(* verification/commands.py, verification/goal_completion.py, goals/loader.py *)
(* and scripts/attach_evidence.py, scripts/validate_goals.py).               *)
(*                                                                         *)
(* A Goal is a YAML file.  It is edited by hand, by the script and by        *)
(* complete_goal, each a read and a write of the whole file.  The server      *)
(* reads all files through a cache keyed by their mtimes; its threads share   *)
(* the cache.  Evidence of runs is in the database.                         *)
(***************************************************************************)
EXTENDS Naturals, FiniteSets

CONSTANTS Goals, Gates,
          Required,   \* the gates each Goal requires at first
          Commands,   \* the gates the project declares a command for
          Running,    \* the Goals that runs work on
          Depends,    \* pairs: the first Goal depends on the second
          Readers,    \* server threads that resolve the project
          MaxWrites,  \* writes of Goal files
          MaxRecords  \* pieces of evidence

ASSUME RequiredAssumption == Required \in [Goals -> SUBSET Gates] /\ Commands \subseteq Gates
ASSUME DependsAssumption == Depends \subseteq Goals \X Goals /\ Running \subseteq Goals
ASSUME LimitsAssumption == MaxWrites \in Nat /\ MaxRecords \in Nat

VARIABLES
  file,      \* the Goal files
  clock,     \* the last mtime
  cache,     \* _CACHE[root]
  reader,    \* each thread inside resolve_project
  rows,      \* the evidence table
  todo,      \* gates whose command a verification has still to run
  script,    \* attach_evidence.py between its read and its write
  closer,    \* complete_goal and what its caller loaded for it
  failedEver \* history: Goal and gate of every failing piece saved

dbVars == <<rows, todo, failedEver>>
cacheVars == <<cache, reader>>
toolVars == <<script, closer>>
vars == <<file, clock, cacheVars, dbVars, toolVars>>

Verdicts == {"PASSED", "FAILED"}
States == {"ACTIVE", "DONE"}
Evidence == [goal : Running, gate : Gates, verdict : Verdicts]

(* An entry of the file covers a gate or, if it opens with a non-passing      *)
(* verdict, reports that it did not pass (declares_failure).                *)
Entry == [gate : Gates, passing : BOOLEAN]
Content == [state : States, required : SUBSET Gates, declared : SUBSET Entry]
Mtimes == [Goals -> 0..MaxWrites]
None == [at |-> "none"]
Contents(f) == [g \in Goals |-> f[g].content]
Signature(f) == [g \in Goals |-> f[g].mtime]

TypeOK ==
  /\ file \in [Goals -> [content : Content, mtime : 0..MaxWrites]]
  /\ clock \in 0..MaxWrites
  /\ cache # None => cache.sig \in Mtimes /\ cache.context \in [Goals -> Content]
  /\ \A t \in Readers : /\ reader[t].at \in {"none", "parse"}
                        /\ reader[t].at = "parse" => reader[t].left \subseteq Goals
  /\ rows \subseteq Evidence
  /\ todo \in [Goals -> SUBSET Commands]
  /\ script.at \in {"none", "write"} /\ closer.at \in {"none", "loaded", "write"}
  /\ failedEver \subseteq Goals \X Gates

Init ==
  /\ file = [g \in Goals |->
       [content |-> [state |-> "ACTIVE", required |-> Required[g], declared |-> {}], mtime |-> 0]]
  /\ clock = 0 /\ cache = None /\ reader = [t \in Readers |-> None]
  /\ rows = {} /\ todo = [g \in Goals |-> {}]
  /\ script = None /\ closer = None /\ failedEver = {}

----------------------------------------------------------------------------
(* Verdicts.  GateCoordinator and check_completion each decide for           *)
(* themselves what passed.                                                  *)
Of(evidence, g, gate) == {e \in evidence : e.goal = g /\ e.gate = gate}
With(evidence, verdict) == {e \in evidence : e.verdict = verdict}

(* Mutant: one passing piece is enough.                                     *)
EvaluateGateLenient(evidence, gate) ==
  LET relevant == {e \in evidence : e.gate = gate} IN
  IF With(relevant, "PASSED") # {} THEN "PASSED"
  ELSE IF With(relevant, "FAILED") # {} THEN "FAILED" ELSE "PENDING"

EvaluateGate(evidence, gate) ==
  LET relevant == {e \in evidence : e.gate = gate} IN
  IF With(relevant, "FAILED") # {} THEN "FAILED"
  ELSE IF With(relevant, "PASSED") = {} THEN "PENDING" ELSE "PASSED"

AllPassed(evidence, required) ==
  required # {} /\ \A gate \in required : EvaluateGate(evidence, gate) = "PASSED"

(* check_completion: the missing and the failed gates.                      *)
Check(evidence, g, required) ==
  [failed |-> {gate \in required : With(Of(evidence, g, gate), "FAILED") # {}},
   missing |-> {gate \in required : With(Of(evidence, g, gate), "FAILED") = {}
                                    /\ With(Of(evidence, g, gate), "PASSED") = {}}]
Completable(check) == check.failed = {} /\ check.missing = {}

(* Mutant: a gate without an entry is not missed.                           *)
CheckDeclaredFailures(content) ==
  [failed |-> content.required \cap {e.gate : e \in {x \in content.declared : ~x.passing}},
   missing |-> {}]

(* check_declared_evidence.                                                 *)
CheckDeclared(content) ==
  LET failing == {e.gate : e \in {x \in content.declared : ~x.passing}}
      passing == {e.gate : e \in {x \in content.declared : x.passing}}
  IN [failed |-> content.required \cap failing,
      missing |-> content.required \ (failing \cup passing)]

(* validate_goals.py: what it refuses of the Goals that are DONE.            *)
Accepted(contents, g) ==
  contents[g].state = "DONE" =>
    /\ Completable(CheckDeclared(contents[g]))
    /\ \A d \in Goals : <<g, d>> \in Depends => contents[d].state = "DONE"

----------------------------------------------------------------------------
(* Evidence of runs.  It comes from a task (_record_gate) or from a declared   *)
(* command (run_gate_command: an exit code other than 0, a timeout and a      *)
(* command that cannot run are all FAILED).  A save that fails raises: the     *)
(* run's verification ends there.                                           *)

(* Mutant: the table keeps one row for a Goal and a gate.                   *)
SaveLatest(e) == rows' = (rows \ Of(rows, e.goal, e.gate)) \cup {e}

Save(e) == rows' = rows \cup {e}

RecordEvidence(e) ==
  /\ Cardinality(rows) < MaxRecords
  /\ Save(e)
  /\ failedEver' = IF e.verdict = "FAILED"
                   THEN failedEver \cup {<<e.goal, e.gate>>} ELSE failedEver

RecordGate ==
  /\ \E e \in Evidence : RecordEvidence(e)
  /\ UNCHANGED <<file, clock, cacheVars, todo, toolVars>>

(* Mutant: gates without a declared command are tried too.                  *)
BeginVerificationAll(g) ==
  /\ todo[g] = {} /\ todo' = [todo EXCEPT ![g] = Gates]
  /\ UNCHANGED <<file, clock, cacheVars, rows, failedEver, toolVars>>

BeginVerification(g) ==
  /\ todo[g] = {} /\ todo' = [todo EXCEPT ![g] = Commands]
  /\ UNCHANGED <<file, clock, cacheVars, rows, failedEver, toolVars>>

VerifyDeclaredGate(g) ==
  /\ \E gate \in todo[g], v \in Verdicts :
       \/ /\ RecordEvidence([goal |-> g, gate |-> gate, verdict |-> v])
          /\ todo' = [todo EXCEPT ![g] = @ \ {gate}]
       \/ /\ todo' = [todo EXCEPT ![g] = {}]
          /\ UNCHANGED <<rows, failedEver>>
  /\ UNCHANGED <<file, clock, cacheVars, toolVars>>

Restart ==
  /\ todo' = [g \in Goals |-> {}]
  /\ cache' = None /\ reader' = [t \in Readers |-> None]
  /\ UNCHANGED <<file, clock, rows, failedEver, toolVars>>

----------------------------------------------------------------------------
(* resolve_project: the signature first, then the files one by one, then the *)
(* entry; a hit returns what is cached.                                     *)
Resolve(t) ==
  /\ reader[t].at = "none"
  /\ cache # None => cache.sig # Signature(file)
  /\ reader' = [reader EXCEPT ![t] =
       [at |-> "parse", sig |-> Signature(file), context |-> Contents(file), left |-> Goals]]
  /\ UNCHANGED <<file, clock, cache, dbVars, toolVars>>

ParseFile(t) ==
  /\ reader[t].at = "parse"
  /\ \E g \in reader[t].left :
       reader' = [reader EXCEPT ![t].context[g] = file[g].content, ![t].left = @ \ {g}]
  /\ UNCHANGED <<file, clock, cache, dbVars, toolVars>>

(* Mutant: the signature is taken when the files have been read.            *)
StoreLate(t) ==
  /\ reader[t].at = "parse" /\ reader[t].left = {}
  /\ cache' = [at |-> "cached", sig |-> Signature(file), context |-> reader[t].context]
  /\ reader' = [reader EXCEPT ![t] = None]
  /\ UNCHANGED <<file, clock, dbVars, toolVars>>

StoreContext(t) ==
  /\ reader[t].at = "parse" /\ reader[t].left = {}
  /\ cache' = [at |-> "cached", sig |-> reader[t].sig, context |-> reader[t].context]
  /\ reader' = [reader EXCEPT ![t] = None]
  /\ UNCHANGED <<file, clock, dbVars, toolVars>>

----------------------------------------------------------------------------
(* The writers of a Goal file.                                              *)
Write(g, content) ==
  /\ clock < MaxWrites /\ clock' = clock + 1
  /\ file' = [file EXCEPT ![g] = [content |-> content, mtime |-> clock + 1]]

EditByHand(g) ==
  /\ \E gate \in Gates \ file[g].content.required :
       Write(g, [file[g].content EXCEPT !.required = @ \cup {gate}, !.state = "ACTIVE"])
  /\ UNCHANGED <<cacheVars, dbVars, toolVars>>

(* attach: the entry of the gate is replaced.                               *)
Attached(content, gate, passing) ==
  [content EXCEPT !.declared =
     {e \in @ : e.gate # gate} \cup {[gate |-> gate, passing |-> passing]}]

(* attach_evidence.py --complete: refused when the entries, with the new one, *)
(* do not cover what the file requires, or when the new one does not pass.   *)
ScriptRead(g) ==
  /\ script = None /\ clock < MaxWrites
  /\ \E gate \in Gates, passing \in BOOLEAN, complete \in BOOLEAN :
       LET data == Attached(file[g].content, gate, passing) IN
       /\ complete => passing /\ Completable(CheckDeclared(data))
       /\ script' = [at |-> "write", goal |-> g, complete |-> complete,
                     data |-> IF complete THEN [data EXCEPT !.state = "DONE"] ELSE data]
  /\ UNCHANGED <<file, clock, cacheVars, dbVars, closer>>

ScriptWrite ==
  /\ script.at = "write" /\ Write(script.goal, script.data) /\ script' = None
  /\ UNCHANGED <<cacheVars, dbVars, closer>>

(* complete_goal is given a Goal and evidence that were loaded before.       *)
CloserLoad(g) ==
  /\ closer = None /\ cache # None /\ clock < MaxWrites
  /\ closer' = [at |-> "loaded", goal |-> g, required |-> cache.context[g].required,
                evidence |-> rows]
  /\ UNCHANGED <<file, clock, cacheVars, dbVars, script>>

(* Mutant: the missing gates are not looked at.                             *)
MayCompleteUnlessFailed(c) == Check(c.evidence, c.goal, c.required).failed = {}

MayComplete(c) == Completable(Check(c.evidence, c.goal, c.required))

(* assert_goal_completable, the read, and one passing entry per gate added.  *)
CloserRead ==
  /\ closer.at = "loaded"
  /\ IF MayComplete(closer)
     THEN LET new == {[gate |-> gate, passing |-> TRUE] : gate \in closer.required}
              data == [file[closer.goal].content EXCEPT !.state = "DONE",
                                                        !.declared = @ \cup new]
          IN closer' = [at |-> "write", goal |-> closer.goal, data |-> data,
                        required |-> closer.required, evidence |-> closer.evidence]
     ELSE closer' = None
  /\ UNCHANGED <<file, clock, cacheVars, dbVars, script>>

CloserWrite ==
  /\ closer.at = "write" /\ Write(closer.goal, closer.data) /\ closer' = None
  /\ UNCHANGED <<cacheVars, dbVars, script>>

Next ==
  \/ RecordGate \/ Restart
  \/ \E g \in Running : BeginVerification(g) \/ VerifyDeclaredGate(g)
  \/ \E g \in Goals : EditByHand(g) \/ ScriptRead(g) \/ CloserLoad(g)
  \/ ScriptWrite \/ CloserRead \/ CloserWrite
  \/ \E t \in Readers : Resolve(t) \/ ParseFile(t) \/ StoreContext(t)

Spec == Init /\ [][Next]_vars

----------------------------------------------------------------------------
(* A cache entry whose signature is the one on disk holds what is on disk,    *)
(* also when a file is edited while threads read it (resolve_project): a       *)
(* reader may see a mixture once, the cache never keeps it.                  *)
CacheFresh ==
  cache # None /\ cache.sig = Signature(file) => cache.context = Contents(file)

(* The verdicts the API shows and its "completable" agree, and both agree     *)
(* with the coordinator, except where nothing is required                    *)
(* (evaluate_gate, check_completion, all_passed).                            *)
ViewsAgree ==
  \A g \in Goals :
    LET mine == {e \in rows : e.goal = g}
        required == file[g].content.required IN
    required # {} =>
      (AllPassed(mine, required) <=> Completable(Check(rows, g, required)))

(* A failing piece of evidence counts for good: a Goal that may be completed  *)
(* never had one saved for a gate it requires, in this run or an earlier one, *)
(* before a restart or after (save_evidence, check_completion).              *)
FailureIsKept ==
  \A g \in Goals : \A gate \in file[g].content.required :
    <<g, gate>> \in failedEver => ~Completable(Check(rows, g, file[g].content.required))

(* A Goal that complete_goal is about to close is covered by what its caller   *)
(* loaded: each gate has passing evidence in the database and none that        *)
(* failed when it was loaded (assert_goal_completable).                       *)
ClosedOnEvidence ==
  closer.at = "write" =>
    \A gate \in closer.required :
      [goal |-> closer.goal, gate |-> gate, verdict |-> "PASSED"] \in rows

(* What attach_evidence.py --complete writes covers every gate the file        *)
(* required, and leaves one answer for the gate it was about.                 *)
ScriptCovers ==
  script.at = "write" /\ script.complete =>
    \A gate \in script.data.required :
      {e.passing : e \in {x \in script.data.declared : x.gate = gate}} = {TRUE}

(* However the evidence of a Goal is looked at, a failure counts and a missing   *)
(* pass is missed: in the coordinator, in the views, and when it is closed.     *)
EvidenceDecides == TypeOK /\ ViewsAgree /\ FailureIsKept /\ ClosedOnEvidence
                   /\ ScriptCovers

(* validate_goals.py: "a Goal cannot be marked done" without evidence, nor     *)
(* before its dependencies.  The tools do not look at dependencies, and         *)
(* complete_goal keeps earlier failing entries.                               *)
DoneIsAccepted ==
  [][\A g \in Goals :
       file'[g].content.state = "DONE" /\ file[g].content.state # "DONE" =>
         Accepted(Contents(file'), g)]_vars
=============================================================================
