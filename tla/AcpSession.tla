----------------------------- MODULE AcpSession -----------------------------
(***************************************************************************)
(* The runs of one task through an ACP agent (Python: acp/protocol.py,      *)
(* acp/client.py, acp/events.py, acp/store.py, runners/acp.py).  A run      *)
(* starts an agent process, initializes it, resumes the stored session or   *)
(* opens a new one, prompts and closes.  Both directions share one pair of  *)
(* pipes: a read loop takes the agent's lines one at a time and awaits the  *)
(* handler of each before it reads the next.  Lines that are not JSON are    *)
(* skipped and left out.  A write waits, without a timeout, for the agent to  *)
(* make room in its stdin.                                                  *)
(*                                                                         *)
(* Each method is called at most once on a connection, so a request id is   *)
(* the method.  The session opened by the i-th run is session i; one more    *)
(* may be left from an earlier life of the application.                     *)
(***************************************************************************)
EXTENDS Naturals, Sequences, FiniteSets

CONSTANTS Updates,    \* the session/update payloads an agent may send
          MaxRuns,    \* runs of the task, one after the other
          MaxLines,   \* unread lines in the agent's stdout
          MaxAsks     \* permission requests in one run

ASSUME BoundsAssumption == MaxRuns \in Nat \ {0} /\ MaxLines \in Nat \ {0} /\ MaxAsks \in Nat
ASSUME UpdatesAssumption ==
  Updates \subseteq [sort : {"message", "thought", "plan", "tool", "other"},
                     kind : {"execute", "edit", "none"},
                     text : BOOLEAN, terminal : BOOLEAN, diff : BOOLEAN, title : BOOLEAN]

VARIABLES
  runs,      \* runs begun
  pc,        \* where AcpRunner.run stands
  cur,       \* the method of the call it is making
  canLoad,   \* what the agent answered to initialize about loadSession
  session,   \* client.session_id, 0 for None
  recalled,  \* the id the run read from the store, 0 for none
  resumed,   \* what the run believes about its session
  result,    \* the outcome of the last run
  fut,       \* the future of each call
  pending,   \* AcpConnection._pending
  reader,    \* the read loop
  seen,      \* AcpClient._updates: what arrived since the prompt began
  denied,    \* AcpClient._denied is not empty
  agent,     \* the process: none, alive, mute (stdout closed) or dead
  asked,     \* requests the agent has not answered
  out,       \* lines in the agent's stdout
  asks,      \* permission requests sent by this agent
  open,      \* of those, the ones without an answer
  known,     \* sessions the agent's installation can load
  stored,    \* the row of acp_sessions for this task, 0 for none
  edits,     \* history: edits made in the prompt before its answer
  loadLost,  \* history: session/load timed out in this run
  cut,       \* history: the run was cancelled inside close()
  dropped    \* history: session ids given up by any run

clientVars == <<runs, pc, cur, canLoad, session, recalled, resumed, result>>
wireVars == <<fut, pending, reader, seen, denied>>
agentVars == <<agent, asked, out, asks, open, known>>
history == <<edits, loadLost, cut, dropped>>
vars == <<clientVars, wireVars, agentVars, stored, history>>

Methods == {"initialize", "load", "new", "prompt"}
Futures == {"none", "pending", "result", "error", "closed", "cancelled"}
Past == MaxRuns + 1
Sessions == 1..Past

Line ==
  [type : {"response"}, id : Methods, value : {"result", "error"}]
    \cup [type : {"update"}, session : Sessions, update : Updates]
    \cup {[type |-> "permission"]}

(* Mutant: a call without a title is dropped before its diffs are read.     *)
ToolKindTitleFirst(u) ==
  IF ~u.title THEN "none"
  ELSE IF u.kind = "execute" \/ u.terminal THEN "terminal"
  ELSE IF u.kind = "edit" \/ u.diff THEN "file" ELSE "tool"

----------------------------------------------------------------------------
(* normalize_update: what an update says, or none.                          *)
ToolKind(u) ==
  IF u.kind = "execute" \/ u.terminal THEN "terminal"
  ELSE IF u.kind = "edit" \/ u.diff THEN "file"
  ELSE IF u.title THEN "tool" ELSE "none"

Normalized(u) ==
  CASE u.sort \in {"message", "thought"} -> IF u.text THEN u.sort ELSE "none"
    [] u.sort = "plan" -> "plan"
    [] u.sort = "tool" -> ToolKind(u)
    [] u.sort = "other" -> "none"

(* PromptResult.files_changed: the diffs of the file events.                *)
FilesChanged(notes) == {n \in notes : Normalized(n.update) = "file" /\ n.update.diff}

----------------------------------------------------------------------------
TypeOK ==
  /\ runs \in 0..MaxRuns
  /\ pc \in {"idle", "call", "drain", "await", "late", "recall", "touch", "forget", "remember",
             "close", "closing", "closed"}
  /\ cur \in Methods
  /\ canLoad \in BOOLEAN /\ resumed \in BOOLEAN /\ denied \in BOOLEAN
  /\ session \in 0..Past /\ stored \in 0..Past /\ recalled \in 0..Past
  /\ result.verdict \in {"none", "success", "refused", "error", "cancelled"}
  /\ fut \in [Methods -> Futures]
  /\ pending \subseteq Methods /\ asked \subseteq Methods
  /\ reader \in {"off", "reading", "policy", "replying", "ended"}
  /\ seen \subseteq [session : Sessions, update : Updates]
  /\ agent \in {"none", "alive", "mute", "dead"}
  /\ out \in Seq(Line) /\ Len(out) <= MaxLines
  /\ asks \in 0..MaxAsks /\ open \in 0..asks
  /\ known \subseteq Sessions
  /\ edits \subseteq [session : Sessions, update : Updates]
  /\ loadLost \in BOOLEAN /\ cut \in BOOLEAN /\ dropped \subseteq Sessions

NoResult == [verdict |-> "none", files |-> {}, session |-> 0]

Init ==
  /\ runs = 0 /\ pc = "idle" /\ cur = "initialize" /\ canLoad = FALSE
  /\ session = 0 /\ recalled = 0 /\ resumed = FALSE /\ result = NoResult
  /\ fut = [m \in Methods |-> "none"] /\ pending = {} /\ reader = "off"
  /\ seen = {} /\ denied = FALSE
  /\ agent = "none" /\ asked = {} /\ out = <<>> /\ asks = 0 /\ open = 0
  /\ stored \in {0, Past} /\ known = {stored} \ {0}
  /\ edits = {} /\ loadLost = FALSE /\ cut = FALSE /\ dropped = {}

Running == agent \in {"alive", "mute"}

(* Mutant: the futures that are not pending are lost.                        *)
FailPendingForgetful ==
  /\ fut' = [m \in pending |-> IF fut[m] = "pending" THEN "closed" ELSE fut[m]]
  /\ pending' = {}

(* Mutant: only the futures are failed, the table is not cleared.           *)
FailPendingOnly ==
  /\ fut' = [m \in Methods |-> IF m \in pending /\ fut[m] = "pending" THEN "closed" ELSE fut[m]]
  /\ UNCHANGED pending

(* What is left of the calls when the read loop ends or the connection is    *)
(* closed (_fail_pending).                                                   *)
FailPending ==
  /\ fut' = [m \in Methods |-> IF m \in pending /\ fut[m] = "pending" THEN "closed" ELSE fut[m]]
  /\ pending' = {}

Go(m) == pc' = "call" /\ cur' = m
GoTo(label) == pc' = label /\ UNCHANGED cur
Fail(verdict) == GoTo("close") /\ result' = [NoResult EXCEPT !.verdict = verdict]

----------------------------------------------------------------------------
(* AcpRunner.run: a new client, a new process, the read loop, initialize.    *)
(* A command that is not found fails the run before there is a process.      *)
Start ==
  /\ pc \in {"idle", "closed"} /\ runs < MaxRuns
  /\ runs' = runs + 1
  /\ session' = 0 /\ recalled' = 0 /\ resumed' = FALSE /\ canLoad' = FALSE
  /\ fut' = [m \in Methods |-> "none"] /\ pending' = {} /\ seen' = {} /\ denied' = FALSE
  /\ asked' = {} /\ out' = <<>> /\ asks' = 0 /\ open' = 0
  /\ edits' = {} /\ loadLost' = FALSE /\ cut' = FALSE
  /\ \/ agent' = "alive" /\ reader' = "reading" /\ Go("initialize") /\ result' = NoResult
     \/ agent' = "none" /\ reader' = "off" /\ Fail("error")
  /\ UNCHANGED <<known, stored, dropped>>

(* What a failed call does: a failed session/load opens a new session, any   *)
(* other AcpError is the result of the run.                                  *)
AcpFailure ==
  IF cur = "load" THEN GoTo("forget") /\ UNCHANGED result ELSE Fail("error")

(* Mutant: updates of an earlier call are kept.                             *)
KeepCollected == UNCHANGED <<seen, denied>>

(* prompt() first clears what the connection delivered before it.           *)
ClearCollected ==
  IF cur = "prompt" THEN seen' = {} /\ denied' = FALSE ELSE UNCHANGED <<seen, denied>>

(* call(): refused when the process has exited; else register and write. A   *)
(* write to a broken pipe raises past `except AcpError` and leaves the entry *)
(* in the table; the process may also exit without the writer noticing.  The *)
(* wait for room in the pipe is outside wait_for.                           *)
Call ==
  /\ pc = "call"
  /\ ClearCollected
  /\ \/ /\ ~Running /\ AcpFailure
        /\ UNCHANGED <<fut, pending, asked>>
     \/ /\ fut' = [fut EXCEPT ![cur] = "pending"]
        /\ pending' = pending \cup {cur}
        /\ \/ Running /\ asked' = asked \cup {cur} /\ GoTo("await") /\ UNCHANGED result
           \/ UNCHANGED asked /\ GoTo("await") /\ UNCHANGED result
           \/ Running /\ UNCHANGED asked /\ GoTo("drain") /\ UNCHANGED result
           \/ agent # "alive" /\ UNCHANGED asked /\ Fail("error")
  /\ edits' = IF cur = "prompt" THEN {} ELSE edits
  /\ UNCHANGED <<runs, canLoad, session, recalled, resumed, reader, agent, out, asks, open, known,
                 stored, loadLost, cut, dropped>>

(* The process exits while its stdin is full: drain() returns or raises.     *)
DrainBroken ==
  /\ pc = "drain" /\ ~Running
  /\ (GoTo("await") /\ UNCHANGED result) \/ Fail("error")
  /\ UNCHANGED <<runs, canLoad, session, recalled, resumed, wireVars, agentVars, stored, history>>

(* The future is done and the coroutine goes on with its value.             *)
Answered ==
  /\ pc = "await" /\ fut[cur] \in {"result", "error", "closed"}
  /\ CASE fut[cur] # "result" ->
            AcpFailure /\ UNCHANGED <<canLoad, session, resumed>>
       [] cur = "initialize" /\ fut[cur] = "result" ->
            \/ /\ canLoad' \in BOOLEAN /\ GoTo("recall")
               /\ UNCHANGED <<session, resumed, result>>
            \/ AcpFailure /\ UNCHANGED <<canLoad, session, resumed>> \* a newer protocol
       [] cur = "load" /\ fut[cur] = "result" ->
            /\ session' = recalled /\ GoTo("touch") /\ UNCHANGED <<canLoad, resumed, result>>
       [] cur = "new" /\ fut[cur] = "result" ->
            /\ session' = runs /\ GoTo("remember") /\ UNCHANGED <<canLoad, resumed, result>>
       [] cur = "prompt" /\ fut[cur] = "result" ->
            /\ \E completed \in BOOLEAN :
                 result' = [verdict |-> IF completed /\ ~denied THEN "success" ELSE "refused",
                            files |-> FilesChanged(seen), session |-> session]
            /\ GoTo("close") /\ UNCHANGED <<canLoad, session, resumed>>
  /\ UNCHANGED <<runs, recalled, wireVars, agentVars, stored, history>>

(* Mutant: only a call whose read loop still runs times out.                *)
TimeoutWhileReading ==
  /\ pc = "await" /\ reader # "ended" /\ fut[cur] = "pending"
  /\ fut' = [fut EXCEPT ![cur] = "cancelled"]
  /\ GoTo("late")
  /\ loadLost' = (loadLost \/ cur = "load")
  /\ UNCHANGED <<runs, canLoad, session, recalled, resumed, result, pending, reader, seen, denied,
                 agentVars, stored, edits, cut, dropped>>

(* wait_for gives up: the future is cancelled, and the coroutine removes the *)
(* entry when it runs again.  A response may be read in between, and a        *)
(* future that was just resolved may lose to the timeout.                    *)
Timeout ==
  /\ pc = "await"
  /\ fut' = [fut EXCEPT ![cur] = IF @ = "pending" THEN "cancelled" ELSE @]
  /\ GoTo("late")
  /\ loadLost' = (loadLost \/ cur = "load")
  /\ UNCHANGED <<runs, canLoad, session, recalled, resumed, result, pending, reader, seen, denied,
                 agentVars, stored, edits, cut, dropped>>

TimedOut ==
  /\ pc = "late"
  /\ pending' = pending \ {cur}
  /\ AcpFailure
  /\ UNCHANGED <<runs, canLoad, session, recalled, resumed, fut, reader, seen, denied, agentVars,
                 stored, history>>

(* _resume and AcpSessionStore: recall, touch, forget, remember.            *)
Recall ==
  /\ pc = "recall" /\ recalled' = stored
  /\ IF stored = 0 THEN Go("new") ELSE IF canLoad THEN Go("load") ELSE GoTo("forget")
  /\ UNCHANGED <<runs, canLoad, session, resumed, result, wireVars, agentVars, stored, history>>

Touch ==
  /\ pc = "touch" /\ resumed' = TRUE /\ Go("prompt")
  /\ UNCHANGED <<runs, canLoad, session, recalled, result, wireVars, agentVars, stored, history>>

(* Mutant: the stale id stays in the store.                                 *)
ForgetNothing ==
  /\ pc = "forget" /\ Go("new")
  /\ dropped' = dropped \cup {stored}
  /\ UNCHANGED <<runs, canLoad, session, recalled, resumed, result, wireVars, agentVars, stored,
                 edits, loadLost, cut>>

Forget ==
  /\ pc = "forget" /\ stored' = 0 /\ Go("new")
  /\ dropped' = dropped \cup {stored}
  /\ UNCHANGED <<runs, canLoad, session, recalled, resumed, result, wireVars, agentVars,
                 edits, loadLost, cut>>

Remember ==
  /\ pc = "remember" /\ stored' = session /\ Go("prompt")
  /\ UNCHANGED <<runs, canLoad, session, recalled, resumed, result, wireVars, agentVars, history>>

(* The harness cancels the task that runs AcpRunner.run, at any await; the   *)
(* entry of the call it was making stays in the table, and in a write nobody  *)
(* was waiting for its future yet.                                          *)
Cancel ==
  /\ pc \in {"drain", "await", "late", "recall", "touch", "forget", "remember"}
  /\ fut' = [fut EXCEPT ![cur] = IF @ = "pending" /\ pc # "drain" THEN "cancelled" ELSE @]
  /\ Fail("cancelled")
  /\ UNCHANGED <<runs, canLoad, session, recalled, resumed, pending, reader, seen, denied, agentVars,
                 stored, history>>

(* Cancelled inside close(): the CancelledError leaves it where it waits for *)
(* the process, so nothing is killed, and _closed is already set.           *)
CancelClose ==
  /\ pc = "closing" /\ GoTo("closed") /\ cut' = TRUE
  /\ result' = [NoResult EXCEPT !.verdict = "cancelled"]
  /\ UNCHANGED <<runs, canLoad, session, recalled, resumed, wireVars, agentVars, stored, edits, loadLost, dropped>>

(* close(): stdin first; the agent exits or is killed after five seconds;    *)
(* then the read loop is cancelled and what is pending fails.               *)
CloseStdin ==
  /\ pc = "close" /\ GoTo("closing")
  /\ UNCHANGED <<runs, canLoad, session, recalled, resumed, result, wireVars, agentVars, stored, history>>

CloseReader ==
  /\ pc = "closing" /\ GoTo("closed")
  /\ agent' = IF agent = "none" THEN "none" ELSE "dead"
  /\ reader' = IF reader = "off" THEN "off" ELSE "ended"
  /\ FailPending
  /\ UNCHANGED <<runs, canLoad, session, recalled, resumed, result, seen, denied, asked, out, asks,
                 open, known, stored, history>>

----------------------------------------------------------------------------
(* The read loop.                                                           *)
EndReader == reader' = "ended" /\ FailPending

(* Mutant: a future that is done is set again.                              *)
HandleResponseAlways(line) ==
  /\ pending' = pending \ {line.id}
  /\ fut' = IF line.id \in pending THEN [fut EXCEPT ![line.id] = line.value] ELSE fut
  /\ UNCHANGED <<reader, seen, denied>>

(* Mutant: a response goes to the call that is waiting, whatever its id.     *)
HandleResponseToCurrent(line) ==
  /\ pending' = pending \ {cur}
  /\ fut' = IF cur \in pending /\ fut[cur] = "pending"
            THEN [fut EXCEPT ![cur] = line.value] ELSE fut
  /\ UNCHANGED <<reader, seen, denied>>

(* _handle_response: an unknown id and a future that is done are ignored.    *)
HandleResponse(line) ==
  /\ pending' = pending \ {line.id}
  /\ fut' = IF line.id \in pending /\ fut[line.id] = "pending"
            THEN [fut EXCEPT ![line.id] = line.value] ELSE fut
  /\ UNCHANGED <<reader, seen, denied>>

(* _on_notification: recorded, then passed to a listener that may raise,     *)
(* which ends the read loop.                                                *)
HandleNotification(line) ==
  /\ seen' = seen \cup {[session |-> line.session, update |-> line.update]}
  /\ UNCHANGED denied
  /\ \/ UNCHANGED <<reader, fut, pending>>
     \/ Normalized(line.update) # "none" /\ EndReader

(* Mutant: the loop reads on while the policy decides.                      *)
ReadPastPolicy ==
  /\ reader \in {"reading", "policy"} /\ out # <<>>
  /\ out' = Tail(out)
  /\ LET line == Head(out) IN
       CASE line.type = "response" -> HandleResponse(line)
         [] line.type = "update" -> HandleNotification(line)
         [] line.type = "permission" ->
              reader' = "policy" /\ UNCHANGED <<fut, pending, seen, denied>>
  /\ UNCHANGED <<clientVars, agent, asked, asks, open, known, stored, history>>

Read ==
  /\ reader = "reading" /\ out # <<>>
  /\ out' = Tail(out)
  /\ LET line == Head(out) IN
       CASE line.type = "response" -> HandleResponse(line)
         [] line.type = "update" -> HandleNotification(line)
         [] line.type = "permission" ->
              reader' = "policy" /\ UNCHANGED <<fut, pending, seen, denied>>
  /\ UNCHANGED <<clientVars, agent, asked, asks, open, known, stored, history>>

(* Mutant: an allowed or refused request is forgotten, not answered.        *)
AnswerPermissionNever ==
  /\ reader = "policy"
  /\ denied' \in {denied, TRUE}
  /\ reader' = "reading"
  /\ UNCHANGED <<clientVars, fut, pending, seen, agentVars, stored, history>>

(* _on_permission_request and the answer of _handle_request: allowed,        *)
(* denied, or an error when the policy raises.  A broken pipe ends the loop,  *)
(* a full one holds it.                                                     *)
AnswerPermission ==
  /\ reader = "policy"
  /\ denied' \in {denied, TRUE}
  /\ \/ reader' = "reading" /\ open' = open - 1 /\ UNCHANGED <<fut, pending>>
     \/ Running /\ reader' = "replying" /\ UNCHANGED <<open, fut, pending>>
     \/ agent # "alive" /\ EndReader /\ UNCHANGED open
  /\ UNCHANGED <<clientVars, seen, agent, asked, out, asks, known, stored, history>>

(* The process exits before it takes the answer.                            *)
ReplyBroken ==
  /\ reader = "replying" /\ ~Running
  /\ (reader' = "reading" /\ UNCHANGED <<fut, pending>>) \/ EndReader
  /\ UNCHANGED <<clientVars, seen, denied, agentVars, stored, history>>

ReadEnd ==
  /\ reader = "reading" /\ out = <<>> /\ agent \in {"mute", "dead"}
  /\ EndReader
  /\ UNCHANGED <<clientVars, seen, denied, agentVars, stored, history>>

----------------------------------------------------------------------------
(* The agent, as the client sees it: it reads its stdin or leaves it full,   *)
(* answers what it was asked in any order, narrates while it loads or prompts, *)
(* asks for permission while it prompts, or stops.                          *)
Send(line) == agent = "alive" /\ Len(out) < MaxLines /\ out' = Append(out, line)

Drained ==
  /\ pc = "drain" /\ Running
  /\ asked' = asked \cup {cur} /\ GoTo("await")
  /\ UNCHANGED <<runs, canLoad, session, recalled, resumed, result, wireVars, agent, out, asks,
                 open, known, stored, history>>

ReplyTaken ==
  /\ reader = "replying" /\ Running
  /\ reader' = "reading" /\ open' = open - 1
  /\ UNCHANGED <<clientVars, fut, pending, seen, denied, agent, asked, out, asks, known, stored,
                 history>>

AgentAnswer(m) ==
  /\ m \in asked /\ asked' = asked \ {m}
  /\ \E value \in {"result", "error"} :
       /\ value = "result" /\ m = "load" => recalled \in known
       /\ Send([type |-> "response", id |-> m, value |-> value])
       /\ known' = IF m = "new" /\ value = "result" THEN known \cup {runs} ELSE known
  /\ UNCHANGED <<clientVars, wireVars, agent, asks, open, stored, history>>

(* Updates belong to the session that is loading or prompting, also when the  *)
(* client no longer waits: a session/load replays the session's past.        *)
AgentUpdate ==
  /\ \E u \in Updates, s \in Sessions :
       /\ \/ "load" \in asked /\ s = recalled /\ s \in known /\ UNCHANGED edits
          \/ /\ "prompt" \in asked /\ s = session
             /\ edits' = IF u.diff /\ ~u.terminal /\ u.kind # "execute" /\ u.sort = "tool"
                         THEN edits \cup {[session |-> s, update |-> u]} ELSE edits
       /\ Send([type |-> "update", session |-> s, update |-> u])
  /\ UNCHANGED <<clientVars, wireVars, agent, asked, asks, open, known, stored, loadLost, cut, dropped>>

AgentAsk ==
  /\ "prompt" \in asked /\ asks < MaxAsks
  /\ asks' = asks + 1 /\ open' = open + 1
  /\ Send([type |-> "permission"])
  /\ UNCHANGED <<clientVars, wireVars, agent, asked, known, stored, history>>

AgentStops ==
  /\ \/ agent = "alive" /\ agent' \in {"mute", "dead"}
     \/ agent = "mute" /\ agent' = "dead"
  /\ UNCHANGED <<clientVars, wireVars, asked, out, asks, open, known, stored, history>>

(* Between two runs the agent may lose a session.                           *)
AgentForgets ==
  /\ pc = "closed" /\ \E s \in known : known' = known \ {s}
  /\ UNCHANGED <<clientVars, wireVars, agent, asked, out, asks, open, stored, history>>

----------------------------------------------------------------------------
RunStep == \/ Call \/ DrainBroken \/ Answered \/ Timeout \/ TimedOut \/ Recall \/ Touch \/ Forget
           \/ Remember \/ CloseStdin \/ CloseReader
ReaderStep == Read \/ AnswerPermission \/ ReplyBroken \/ ReadEnd
AgentStep == \/ \E m \in Methods : AgentAnswer(m)
             \/ Drained \/ ReplyTaken \/ AgentUpdate \/ AgentAsk \/ AgentStops \/ AgentForgets

Next == Start \/ RunStep \/ ReaderStep \/ AgentStep \/ Cancel \/ CancelClose

(* The event loop runs the coroutine and the read loop; timers fire. The     *)
(* agent, the harness and the callers owe nothing.                          *)
Spec == Init /\ [][Next]_vars /\ WF_vars(RunStep) /\ WF_vars(ReaderStep)

----------------------------------------------------------------------------
(* A future is resolved once: neither a late answer, nor a timeout, nor the   *)
(* end of the connection changes what a call has already been told           *)
(* (_handle_response, _fail_pending: `if not future.done()`).               *)
Unresolved == {"none", "pending"}
OneOutcome ==
  [][\A m \in Methods : fut[m] \notin Unresolved =>
       fut'[m] = fut[m] \/ runs' # runs]_vars

(* No call is told the answer of another: an answer of session/load that      *)
(* arrives after its timeout does not open the session of session/new        *)
(* (the id routing of _handle_response).                                     *)
OwnAnswer ==
  \A m \in Methods : fut[m] \in {"result", "error"} =>
    m \notin asked /\ (\A i \in DOMAIN out : out[i].type = "response" => out[i].id # m)

(* Once close() is done nothing of the run is left: no process, no read loop, *)
(* no entry in the table, also after a cancelled or unwritable call          *)
(* (AcpConnection.close).  A cancellation inside close() is the exception.   *)
NothingLeftBehind ==
  pc = "closed" /\ ~cut => pending = {} /\ ~Running /\ reader \in {"off", "ended"}
                    /\ \A m \in Methods : fut[m] # "pending"

(* A run that reports success used a session of its own and reports every     *)
(* edit the agent made in the prompt: none is lost between the pipe, the     *)
(* normalizer and the result (PromptResult.files_changed).                   *)
EditsReported ==
  result.verdict = "success" => result.session = session /\ edits \subseteq result.files

(* A run that reports success was refused nothing: every permission request   *)
(* ahead of the answer was decided before the answer was read                *)
(* (_read_loop awaits _dispatch, AcpRunner.run).                             *)
DeniedIsNoSuccess == result.verdict = "success" => ~denied

(* What a run reports is of its own session: the replay of session/load and   *)
(* whatever came before the prompt is not reported.  It takes a load that     *)
(* timed out to break this, since updates are not matched with the session.   *)
OwnUpdates ==
  ~loadLost => \A n \in result.files : n.session = result.session
                 /\ (result.verdict = "success" => n \in edits)

(* An id that could not be loaded is never tried again, by this run or a     *)
(* later one, unless the run was cancelled before it could forget it         *)
(* (AcpRunner._resume, AcpSessionStore.forget).                              *)
NotTriedTwice == cur = "load" /\ pc \in {"call", "drain", "await"} => recalled \notin dropped

(* What the harness is told of a run is what the agent did in it: all edits, no   *)
(* others, no success after a refusal, in a session that could be had.         *)
HonestResult == TypeOK /\ EditsReported /\ DeniedIsNoSuccess /\ OwnUpdates /\ NotTriedTwice

(* Every run ends, whatever the agent does or fails to do, unless it never    *)
(* reads its stdin again and a request has filled that: a call whose read     *)
(* loop is gone ends by its timeout (call, close).                          *)
Stalled == pc = "drain" /\ Running
EveryRunEnds == <>[]Stalled \/ ((pc = "call") ~> (pc = "closed"))

(* The code does not keep this: drain() has no timeout, so that a run waits   *)
(* for an agent that leaves its stdin full as long as the agent lives (call).  *)
StalledRunEnds == (pc = "call") ~> (pc = "closed")

(* An agent that asked for permission gets an answer or a closed connection,  *)
(* also when it does not take the answer: the prompt times out, and close()   *)
(* ends a read loop that waits in a write, unless it is cancelled itself      *)
(* (_handle_request).                                                       *)
AskAnswered ==
  (open > 0) ~> (open = 0 \/ reader = "ended" \/ (cut /\ reader = "replying"))

(* Every call that is written has one outcome and every request an answer, so   *)
(* that the run ends.                                                       *)
CallsEnd == OneOutcome /\ EveryRunEnds /\ AskAnswered
=============================================================================
