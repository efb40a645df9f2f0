------------------------------ MODULE Settings ------------------------------
(***************************************************************************)
(* Settings (Python: settings.py, config.py, the routes of api/routes.py).   *)
(* A value comes from the environment, the user's file, a project file or      *)
(* the default.  AtlasFlowConfig.load and load_settings each compute it: the   *)
(* first once, when the server starts, the second for every request.  A save   *)
(* reads each file, changes it and replaces it; requests run on threads.      *)
(***************************************************************************)
EXTENDS Naturals, FiniteSets

CONSTANTS Keys, Files,
          Scope,     \* "user" or "project"
          FileOf,    \* the project file of a project key
          RestartRequired, \* the keys whose spec says so
          EnvKeys,   \* the keys with an environment variable
          Unread,    \* project keys whose file config.py does not read
          Nullable,  \* project keys whose null config.py skips
          Sectioned, \* files that hold their keys in a section
          Requests, MaxSaves, MaxEdits

ASSUME ScopeAssumption == Scope \in [Keys -> {"user", "project"}]
ASSUME FileAssumption == FileOf \in [Keys -> Files] /\ "user" \in Files
                         /\ \A k \in Keys : Scope[k] = "user" <=> FileOf[k] = "user"
ASSUME SubsetAssumption == /\ RestartRequired \subseteq Keys /\ EnvKeys \subseteq Keys
                           /\ Unread \subseteq Keys /\ Nullable \subseteq Keys
                           /\ Sectioned \subseteq Files \ {"user"}
ASSUME BoundAssumption == MaxSaves \in Nat /\ MaxEdits \in Nat

VARIABLES
  entries,  \* what each file declares: a value per key, or absent
  broken,   \* files that are not YAML
  odd,      \* files whose section is not a mapping
  env,      \* the environment of the server
  running,  \* app.state.config, or down
  request,  \* the requests that write
  saves, edits,
  before,   \* history: the files when the request began
  alone     \* history: nobody else has written since

settingsVars == <<entries, broken, odd, env, running, request, saves, edits, before, alone>>
bounds == <<saves, edits>>

(* "good" and "other" have the key's kind, "wrong" has not.                  *)
Values == {"default", "good", "other", "null", "wrong"}
Absent == "absent"
FileContent == [Keys -> {Absent, "good", "other", "null"}]
Down == [at |-> "down"]
Idle == [at |-> "idle", op |-> "none", end |-> "none"]
Ends == {"none", "saved", "refused", "raised", "failed"}
Nothing == [k \in Keys |-> Absent]

SettingsTypeOK ==
  /\ entries \in [Files -> FileContent]
  /\ \A f \in Files, k \in Keys :
       entries[f][k] # Absent => f = "user" \/ f = FileOf[k]
  /\ broken \subseteq Files /\ odd \subseteq Sectioned
  /\ env \in [Keys -> {Absent, "good", "wrong"}]
  /\ running = Down \/ running \in [Keys -> Values]
  /\ \A r \in Requests : /\ request[r].at \in {"idle", "check", "read", "write", "pop", "popped"}
                         /\ request[r].end \in Ends
  /\ saves \in 0..MaxSaves /\ edits \in 0..MaxEdits
  /\ before \in [Requests -> [Files -> FileContent]] /\ alone \in [Requests -> BOOLEAN]

----------------------------------------------------------------------------
(* AtlasFlowConfig.load: layer over layer.                                  *)
Declares(f, k) == f \notin odd /\ entries[f][k] # Absent

ProjectConfig(k) ==
  /\ Scope[k] = "project" /\ k \notin Unread /\ Declares(FileOf[k], k)
  /\ k \in Nullable => entries[FileOf[k]][k] # "null"

(* Mutant: the project's file wins over the user's.                         *)
ConfigProjectFirst(k) ==
  IF env[k] # Absent THEN env[k]
  ELSE IF ProjectConfig(k) THEN entries[FileOf[k]][k]
  ELSE IF entries["user"][k] # Absent THEN entries["user"][k] ELSE "default"

Config(k) ==
  IF env[k] # Absent THEN env[k]
  ELSE IF entries["user"][k] # Absent THEN entries["user"][k]
  ELSE IF ProjectConfig(k) THEN entries[FileOf[k]][k] ELSE "default"

ConfigFiles == {"user"} \cup {FileOf[k] : k \in Keys \ Unread}
Loads == broken \cap ConfigFiles = {} /\ \A k \in Keys : env[k] # "wrong"

(* load_settings: what the settings screen shows, and where it is from.      *)
Source(k) ==
  IF env[k] # Absent THEN "environment"
  ELSE IF entries["user"][k] # Absent THEN "user"
  ELSE IF Scope[k] = "project" /\ Declares(FileOf[k], k) THEN "project" ELSE "default"

Shown(k) ==
  CASE Source(k) = "environment" -> env[k]
    [] Source(k) = "user" -> entries["user"][k]
    [] Source(k) = "project" -> entries[FileOf[k]][k]
    [] OTHER -> Config(k)

----------------------------------------------------------------------------
SettingsInit ==
  /\ entries = [f \in Files |-> Nothing] /\ broken = {} /\ odd = {}
  /\ env \in {e \in [Keys -> {Absent, "good", "wrong"}] :
               \A k \in Keys : e[k] # Absent => k \in EnvKeys}
  /\ running = Down /\ request = [r \in Requests |-> Idle]
  /\ saves = 0 /\ edits = 0
  /\ before = [r \in Requests |-> entries] /\ alone = [r \in Requests |-> TRUE]

(* lifespan: the configuration is loaded once; if it cannot be, the server    *)
(* does not start.                                                          *)
Start ==
  /\ running = Down /\ Loads /\ running' = [k \in Keys |-> Config(k)]
  /\ UNCHANGED <<entries, broken, odd, env, request, bounds, before, alone>>

Stop ==
  /\ running # Down /\ running' = Down /\ request' = [r \in Requests |-> Idle]
  /\ UNCHANGED <<entries, broken, odd, env, bounds, before, alone>>

(* A person edits a file: a value, or the file's form.                       *)
EditFile ==
  /\ edits < MaxEdits /\ edits' = edits + 1 /\ alone' = [r \in Requests |-> FALSE]
  /\ \E f \in Files :
       \/ \E k \in Keys, v \in {Absent, "other", "null"} :
            /\ f = "user" \/ f = FileOf[k]
            /\ entries' = [entries EXCEPT ![f][k] = v]
            /\ odd' = odd \ {f} /\ UNCHANGED broken
       \/ /\ broken' = (broken \ {f}) \cup ({f} \ broken) /\ UNCHANGED <<entries, odd>>
       \/ /\ f \in Sectioned /\ odd' = odd \cup {f}
          /\ entries' = [entries EXCEPT ![f] = Nothing] /\ UNCHANGED broken
  /\ UNCHANGED <<env, running, request, saves, before>>

----------------------------------------------------------------------------
(* apply_settings: load and validate, then read every file, then write.      *)
Finish(r, end) == request' = [request EXCEPT ![r].at = "idle", ![r].end = end]

(* Mutant: a value of the wrong kind is only refused for the user's file.    *)
ValidUser(scope, patch) ==
  \A k \in DOMAIN patch :
    Scope[k] = scope /\ env[k] = Absent /\ (scope = "user" => patch[k] # "wrong")

Valid(scope, patch) ==
  \A k \in DOMAIN patch : Scope[k] = scope /\ env[k] = Absent /\ patch[k] # "wrong"

TargetOf(scope, k) == IF scope = "user" THEN "user" ELSE FileOf[k]
Targets(r) == {TargetOf(request[r].scope, k) : k \in DOMAIN request[r].patch}

Begin(r, op, scope, patch, at, left) ==
  /\ running # Down /\ request[r].at = "idle"
  /\ saves < MaxSaves /\ saves' = saves + 1
  /\ request' = [request EXCEPT ![r] =
       [at |-> at, op |-> op, end |-> "none", scope |-> scope, patch |-> patch,
        left |-> left, data |-> entries]]
  /\ before' = [before EXCEPT ![r] = entries] /\ alone' = [alone EXCEPT ![r] = TRUE]
  /\ UNCHANGED <<entries, broken, odd, env, running, edits>>

SaveRequest(r) ==
  \E scope \in {"user", "project"}, ks \in SUBSET Keys :
    \E patch \in [ks -> {"good", "wrong"}] :
      /\ ks # {} /\ Cardinality(ks) <= 2
      /\ Begin(r, "save", scope, patch, "check", {TargetOf(scope, k) : k \in ks})

(* The route catches SettingsError and ValueError, not what YAML raises.     *)
CheckRequest(r) ==
  /\ request[r].at = "check"
  /\ LET q == request[r] IN
     IF broken \cap ConfigFiles # {} THEN Finish(r, "raised")
     ELSE IF Loads /\ broken = {} /\ Valid(q.scope, q.patch)
     THEN request' = [request EXCEPT ![r].at = "read"] ELSE Finish(r, "refused")
  /\ UNCHANGED <<entries, broken, odd, env, running, bounds, before, alone>>

(* Mutant: the file is replaced by the patch.                               *)
PatchedOnly(q, f) ==
  [k \in Keys |-> IF k \in DOMAIN q.patch /\ TargetOf(q.scope, k) = f
                  THEN q.patch[k] ELSE Absent]

Patched(q, f) ==
  [k \in Keys |-> IF k \in DOMAIN q.patch /\ TargetOf(q.scope, k) = f
                  THEN q.patch[k] ELSE entries[f][k]]

(* _atomic_yaml_write: the file is replaced whole, or an OSError is raised.   *)
(* Mutant: written in place, a failure leaves half of it.                    *)
ReplaceInPlace(f, data) ==
  \/ /\ entries' = [entries EXCEPT ![f] = data] /\ broken' = broken \ {f}
  \/ /\ broken' = broken \cup {f} /\ UNCHANGED entries

Replace(f, data) ==
  /\ entries' = [entries EXCEPT ![f] = data] /\ broken' = broken \ {f}

NobodyElse(r) == alone' = [s \in Requests |-> IF s = r THEN alone[r] ELSE FALSE]

TakeFile(r, f) ==
  LET last == request[r].left = {f} IN
  request' = [request EXCEPT ![r].data[f] = Patched(request[r], f),
                ![r].at = IF last THEN "write" ELSE @,
                ![r].left = IF last THEN Targets(r) ELSE @ \ {f}]

(* Mutant: each file is written as soon as it has been changed.             *)
ReadFileWriting(r) ==
  /\ request[r].at = "read"
  /\ \E f \in request[r].left :
       IF f \in broken \cup odd THEN Finish(r, "refused") /\ UNCHANGED <<entries, broken>>
       ELSE TakeFile(r, f) /\ Replace(f, Patched(request[r], f))
  /\ UNCHANGED <<odd, env, running, bounds, before, alone>>

(* Every file is read, and may refuse, before one is written.               *)
ReadFile(r) ==
  /\ request[r].at = "read"
  /\ \E f \in request[r].left :
       IF f \in broken \cup odd THEN Finish(r, "refused") ELSE TakeFile(r, f)
  /\ UNCHANGED <<entries, broken, odd, env, running, bounds, before, alone>>

WriteFile(r) ==
  /\ request[r].at = "write"
  /\ \E f \in request[r].left :
       /\ Replace(f, request[r].data[f])
       /\ request' = [request EXCEPT ![r].left = @ \ {f},
            ![r].at = IF request[r].left = {f} THEN "idle" ELSE @,
            ![r].end = IF request[r].left = {f} THEN "saved" ELSE @]
       /\ odd' = odd \ {f}
  /\ NobodyElse(r)
  /\ UNCHANGED <<env, running, bounds, before>>

WriteFails(r) ==
  /\ request[r].at \in {"write", "popped"} /\ Finish(r, "failed")
  /\ UNCHANGED <<entries, broken, odd, env, running, bounds, before, alone>>

(* reset_settings: the user's file is read and written once, project keys one by  *)
(* one; neither the environment nor the values are looked at.               *)
ResetRequest(r) ==
  \E scope \in {"user", "project"}, ks \in SUBSET Keys :
    /\ ks # {} /\ Cardinality(ks) <= 2
    /\ Begin(r, "reset", scope, [k \in ks |-> Absent], "pop", ks)

Together(q) == IF q.scope = "user" THEN {q.left} ELSE {{k} : k \in q.left}

Pop(r) ==
  /\ request[r].at = "pop"
  /\ LET q == request[r] IN
     IF \E k \in DOMAIN q.patch : Scope[k] # q.scope THEN Finish(r, "refused")
     ELSE \E ks \in Together(q) :
       LET f == TargetOf(q.scope, CHOOSE k \in ks : TRUE) IN
       IF f \in broken THEN Finish(r, "refused")
       ELSE request' = [request EXCEPT ![r].at = "popped", ![r].left = @ \ ks,
              ![r].data = [target |-> f, odd |-> f \in odd,
                           content |-> [k \in Keys |-> IF k \in ks THEN Absent ELSE entries[f][k]]]]
  /\ UNCHANGED <<entries, broken, odd, env, running, bounds, before, alone>>

PopWrite(r) ==
  /\ request[r].at = "popped"
  /\ LET d == request[r].data IN
     /\ Replace(d.target, d.content)
     /\ odd' = IF d.odd THEN odd \cup {d.target} ELSE odd \ {d.target}
  /\ request' = [request EXCEPT ![r].data = <<>>,
       ![r].at = IF request[r].left = {} THEN "idle" ELSE "pop",
       ![r].end = IF request[r].left = {} THEN "saved" ELSE @]
  /\ NobodyElse(r)
  /\ UNCHANGED <<env, running, bounds, before>>

SettingsNext ==
  \/ Start \/ Stop \/ EditFile
  \/ \E r \in Requests : \/ SaveRequest(r) \/ CheckRequest(r) \/ ReadFile(r) \/ WriteFile(r)
                         \/ WriteFails(r) \/ ResetRequest(r) \/ Pop(r) \/ PopWrite(r)

SettingsSpec == SettingsInit /\ [][SettingsNext]_settingsVars

----------------------------------------------------------------------------
(* What the settings screen shows is what a restart would load, although the   *)
(* two are computed by different code (load_settings, AtlasFlowConfig.load);    *)
(* the exceptions are a file that config.py does not read and a null that it    *)
(* skips.                                                                   *)
ShownIsConfig ==
  \A k \in Keys :
    \/ Source(k) = "project" /\ k \in Unread
    \/ Source(k) = "project" /\ k \in Nullable /\ entries[FileOf[k]][k] = "null"
    \/ Shown(k) = Config(k)

(* A save or a reset that nobody's write crossed did exactly what it was asked:  *)
(* its keys have the new values and no other key of any file changed           *)
(* (_apply_project_patch, reset_settings).                                  *)
SavedExactly ==
  \A r \in Requests : request[r].end = "saved" /\ alone[r] =>
    LET q == request[r] IN
    \A f \in Files, k \in Keys :
      entries[f][k] = IF k \in DOMAIN q.patch /\ TargetOf(q.scope, k) = f
                   THEN q.patch[k] ELSE before[r][f][k]

(* A save that is refused, at whichever file, has written nothing               *)
(* (apply_settings checks and reads everything first).                       *)
RefusedWritesNothing ==
  \A r \in Requests :
    request[r].op = "save" /\ request[r].end \in {"refused", "raised"} /\ alone[r] =>
      entries = before[r]

(* A request that nobody crossed does all of what it was asked, or nothing.     *)
RequestIsExact == SettingsTypeOK /\ SavedExactly /\ RefusedWritesNothing

(* The same of a reset.  A file that cannot be read refuses after the keys       *)
(* before it were reset.                                                    *)
RefusedResetsNothing ==
  \A r \in Requests :
    request[r].op = "reset" /\ request[r].end = "refused" /\ alone[r] => entries = before[r]

(* A configuration that loads still loads after any save, reset, failed write   *)
(* or crash: only a hand breaks a file (_validate_value, _atomic_yaml_write).   *)
StaysLoadable == [][edits' = edits /\ Loads => Loads']_settingsVars

(* A saved key whose spec asks for no restart is in force for the next run, as    *)
(* "new runs" says.  The server's configuration is the one it started with.     *)
SavedIsInForce ==
  \A r \in Requests :
    request[r].op = "save" /\ request[r].end = "saved" /\ alone[r] /\ running # Down =>
      \A k \in DOMAIN request[r].patch \ RestartRequired : running[k] = Shown(k)
=============================================================================
