------------------------- MODULE AcpSessionProofs -------------------------
(***************************************************************************)
(* What a run through an agent tells the harness, for every number of runs, *)
(* unread lines, permission requests and kinds of update.  The argument is   *)
(* the order of things: methods are called one after the other, the lines of *)
(* a pipe are read in the order they were written, and one line is handled   *)
(* before the next is read.                                                 *)
(***************************************************************************)
EXTENDS AcpSession, TLAPS

Closing == {"close", "closing", "closed"}

(* The methods a run may still call after m.                                *)
Later(m) == CASE m = "initialize" -> {"load", "new", "prompt"}
              [] m = "load" -> {"new", "prompt"}
              [] m = "new" -> {"prompt"}
              [] m = "prompt" -> {}

ResponseAt(i, m) == out[i].type = "response" /\ out[i].id = m
UpdateAt(i) == out[i].type = "update"
Update(line) == [session |-> line.session, update |-> line.update]
IsEdit(n) == Normalized(n.update) = "file" /\ n.update.diff

(* The call that is made is the only one that can be pending, those after it *)
(* have not been made, and the result is of the last one.                    *)
CallInv ==
  /\ \A m \in Methods : fut[m] = "pending" =>
       m = cur /\ m \in pending /\ pc \in Closing \cup {"drain", "await"}
  /\ \A m \in Later(cur) : fut[m] = "none"
  /\ pc \in {"idle", "call"} => fut[cur] = "none"
  /\ pc \in {"idle", "recall"} => cur = "initialize"
  /\ pc = "call" /\ cur = "prompt" => "result" \in {fut["load"], fut["new"]}
  /\ pc = "touch" => cur = "load" /\ fut["load"] = "result"
  /\ pc = "remember" => cur = "new" /\ fut["new"] = "result" /\ session = runs
  /\ pc = "forget" => cur \in {"initialize", "load"}
  /\ pc # "idle" => runs >= 1

(* The result is that of the prompt, and comes with the last step of a run.  *)
ResultInv ==
  /\ pc \notin Closing => result = NoResult
  /\ result.verdict = "success" \/ result.files # {} => fut["prompt"] = "result"

(* A request is in one place, once: with the agent, which has not answered   *)
(* it, or as one line of its stdout, and nowhere when it has been answered or *)
(* has not been read.                                                       *)
WireInv ==
  /\ \A m \in Methods : fut[m] \in {"none", "result", "error"} =>
       m \notin asked /\ \A i \in DOMAIN out : ~ResponseAt(i, m)
  /\ \A m \in asked : \A i \in DOMAIN out : ~ResponseAt(i, m)
  /\ \A i, j \in DOMAIN out : \A m \in Methods :
       ResponseAt(i, m) /\ ResponseAt(j, m) => i = j
  /\ pc = "drain" => /\ fut[cur] \in {"pending", "closed"} /\ cur \notin asked
                     /\ \A i \in DOMAIN out : ~ResponseAt(i, cur)

(* A call is told that the connection closed once the read loop has gone, and *)
(* after that nothing is answered.  A load is cancelled by its timeout only. *)
EndInv ==
  /\ \A m \in Methods : fut[m] = "closed" => reader \in {"off", "ended"}
  /\ fut["load"] = "closed" => fut["new"] \notin {"result", "error"}
  /\ fut["load"] = "cancelled" /\ pc \notin Closing => loadLost

(* Permission requests and edits of a prompt are ahead of its response.      *)
AheadInv ==
  /\ \A i, j \in DOMAIN out :
       out[i].type = "permission" /\ ResponseAt(j, "prompt") => i < j
  /\ fut["prompt"] \in {"result", "error"} =>
       reader \notin {"policy", "replying"} /\ \A i \in DOMAIN out : out[i].type # "permission"
  /\ \A e \in edits : IsEdit(e)
  /\ \A e \in edits \ seen : \E i \in DOMAIN out :
       /\ UpdateAt(i) /\ Update(out[i]) = e
       /\ \A j \in DOMAIN out : ResponseAt(j, "prompt") => i < j
  /\ fut["prompt"] = "result" => edits \subseteq seen

(* The past that session/load replays is ahead of its response, so that what *)
(* comes after the prompt is of the prompt.                                  *)
ReplayInv ==
  ~loadLost =>
    /\ fut["prompt"] = "none" => \A i \in DOMAIN out : UpdateAt(i) =>
         "load" \in asked \/ \E j \in DOMAIN out : ResponseAt(j, "load") /\ i < j
    /\ fut["prompt"] # "none" =>
         /\ "load" \notin asked
         /\ \A n \in seen \cup {Update(out[i]) : i \in {k \in DOMAIN out : UpdateAt(k)}} :
              n.session = session /\ (IsEdit(n) => n \in edits)

(* The stored session is not one that was given up.                         *)
StoredInv ==
  /\ stored \in 0..runs \cup {Past} /\ dropped \subseteq 1..(runs - 1) \cup {Past}
  /\ stored \notin dropped
  /\ stored = runs /\ runs # 0 => pc \in Closing \/ cur = "prompt"
  /\ cur = "load" /\ pc \notin Closing => stored # 0 /\ recalled = stored
  /\ pc = "forget" => stored # 0

(* As many requests are open as the policy and the lines of stdout hold:     *)
(* before[i] is at least the number of them up to the i-th line.             *)
Counts(before) ==
  /\ \A i, j \in 0..Len(out) : i <= j => before[i] <= before[j]
  /\ reader \in {"policy", "replying"} => before[0] >= 1
  /\ \A i \in DOMAIN out : out[i].type = "permission" => before[i] >= before[i - 1] + 1
AskInv == \E before \in [0..Len(out) -> 0..open] : Counts(before)

Inv == /\ TypeOK /\ CallInv /\ ResultInv /\ WireInv /\ EndInv
       /\ NothingLeftBehind /\ AheadInv /\ ReplayInv /\ StoredInv /\ AskInv
       /\ EditsReported /\ DeniedIsNoSuccess /\ OwnUpdates

(* What a line can be.                                                     *)
LEMMA LineShape ==
  ASSUME NEW line \in Line
  PROVE  /\ line.type \in {"response", "update", "permission"}
         /\ line.type = "response" => line.id \in Methods /\ line.value \in {"result", "error"}
         /\ line.type = "update" => line.session \in Sessions /\ line.update \in Updates
BY DEF Line

(* What is unread after one line was read, and after one was written.       *)
LEMMA TailIs ==
  ASSUME out \in Seq(Line), out # <<>>, out' = Tail(out)
  PROVE  /\ out' \in Seq(Line) /\ Head(out) = out[1] /\ out[1] \in Line
         /\ 1 \in DOMAIN out /\ Len(out) \in Nat
         /\ Len(out') = Len(out) - 1
         /\ \A i \in DOMAIN out' : i \in Nat /\ i >= 1 /\ i + 1 \in DOMAIN out /\ out'[i] = out[i + 1]
         /\ \A i \in DOMAIN out : i \in Nat /\ (i # 1 => i - 1 \in DOMAIN out' /\ out'[i - 1] = out[i])
OBVIOUS

LEMMA AppendIs ==
  ASSUME out \in Seq(Line), NEW line \in Line, Send(line)
  PROVE  /\ out' \in Seq(Line) /\ Len(out) \in Nat /\ Len(out') = Len(out) + 1
         /\ DOMAIN out \subseteq DOMAIN out'
         /\ \A i \in DOMAIN out : i \in Nat /\ i >= 1 /\ i <= Len(out) /\ out'[i] = out[i]
         /\ \A i \in DOMAIN out' : i \in DOMAIN out \/ i = Len(out) + 1
         /\ Len(out) + 1 \in DOMAIN out' /\ out'[Len(out) + 1] = line
         /\ agent = "alive" /\ Len(out') <= MaxLines
BY BoundsAssumption DEF Send

(* What the three kinds of line do when they are read.                      *)
LEMMA ReadIs ==
  ASSUME TypeOK, Read
  PROVE  /\ reader = "reading" /\ out # <<>> /\ out' = Tail(out) /\ out[1] \in Line
         /\ \/ out[1].type = "response" /\ HandleResponse(out[1])
            \/ out[1].type = "update" /\ HandleNotification(out[1])
            \/ /\ out[1].type = "permission" /\ reader' = "policy"
               /\ UNCHANGED <<fut, pending, seen, denied>>
         /\ UNCHANGED <<clientVars, agent, asked, asks, open, known, stored, history>>
<1>1. out \in Seq(Line) /\ out # <<>> /\ out' = Tail(out)
  BY DEF TypeOK, Read
<1>2. Head(out) = out[1] /\ out[1] \in Line
  BY <1>1, TailIs
<1>3. out[1].type \in {"response", "update", "permission"}
  BY <1>2, LineShape
<1> QED  BY <1>1, <1>2, <1>3 DEF Read

LEMMA FailPendingIs ==
  ASSUME TypeOK, FailPending
  PROVE  /\ fut' \in [Methods -> Futures] /\ pending' = {}
         /\ \A m \in Methods : fut'[m] = IF m \in pending /\ fut[m] = "pending" THEN "closed" ELSE fut[m]
BY DEF TypeOK, FailPending, Futures

(* How a run goes on after each of its calls.                               *)
LEMMA AnsweredIs ==
  ASSUME TypeOK, Answered
  PROVE  /\ pc = "await" /\ cur' = cur /\ pc' \notin {"idle", "drain"}
         /\ UNCHANGED <<runs, recalled, wireVars, agentVars, stored, history>>
         /\ \/ /\ AcpFailure /\ fut[cur] \in {"result", "error", "closed"}
               /\ UNCHANGED <<canLoad, session, resumed>>
               /\ cur = "load" => fut[cur] # "result"
            \/ /\ cur = "initialize" /\ fut[cur] = "result" /\ pc' = "recall"
               /\ canLoad' \in BOOLEAN /\ UNCHANGED <<session, resumed, result>>
            \/ /\ cur = "load" /\ fut[cur] = "result" /\ pc' = "touch"
               /\ session' = recalled /\ UNCHANGED <<canLoad, resumed, result>>
            \/ /\ cur = "new" /\ fut[cur] = "result" /\ pc' = "remember"
               /\ session' = runs /\ UNCHANGED <<canLoad, resumed, result>>
            \/ /\ cur = "prompt" /\ fut[cur] = "result" /\ pc' = "close"
               /\ \E completed \in BOOLEAN :
                    result' = [verdict |-> IF completed /\ ~denied THEN "success" ELSE "refused",
                               files |-> FilesChanged(seen), session |-> session]
               /\ UNCHANGED <<canLoad, session, resumed>>
<1> USE DEF TypeOK
<1>1. cur \in {"initialize", "load", "new", "prompt"} /\ fut[cur] \in {"result", "error", "closed"}
  BY DEF Answered, Methods
<1>2. /\ pc = "await" /\ UNCHANGED <<runs, recalled, wireVars, agentVars, stored, history>>
  BY DEF Answered
<1>3. CASE fut[cur] # "result"
  BY <1>1, <1>2, <1>3 DEF Answered, AcpFailure, GoTo, Fail
<1>4. CASE fut[cur] = "result" /\ cur = "initialize"
  BY <1>1, <1>2, <1>4 DEF Answered, AcpFailure, GoTo, Fail
<1>5. CASE fut[cur] = "result" /\ cur = "load"
  BY <1>1, <1>2, <1>5 DEF Answered, GoTo
<1>6. CASE fut[cur] = "result" /\ cur = "new"
  BY <1>1, <1>2, <1>6 DEF Answered, GoTo
<1>7. CASE fut[cur] = "result" /\ cur = "prompt"
  BY <1>1, <1>2, <1>7 DEF Answered, GoTo
<1> QED  BY <1>1, <1>3, <1>4, <1>5, <1>6, <1>7

(* The type of the state, in parts.                                         *)
ClientType ==
  /\ runs \in 0..MaxRuns
  /\ pc \in {"idle", "call", "drain", "await", "late", "recall", "touch", "forget", "remember",
             "close", "closing", "closed"}
  /\ cur \in Methods
  /\ canLoad \in BOOLEAN /\ resumed \in BOOLEAN
  /\ session \in 0..Past /\ stored \in 0..Past /\ recalled \in 0..Past
  /\ result.verdict \in {"none", "success", "refused", "error", "cancelled"}
  /\ loadLost \in BOOLEAN /\ cut \in BOOLEAN /\ dropped \subseteq Sessions
WireType ==
  /\ fut \in [Methods -> Futures]
  /\ pending \subseteq Methods
  /\ reader \in {"off", "reading", "policy", "replying", "ended"}
  /\ seen \subseteq [session : Sessions, update : Updates]
  /\ denied \in BOOLEAN
AgentType ==
  /\ agent \in {"none", "alive", "mute", "dead"}
  /\ asked \subseteq Methods
  /\ out \in Seq(Line) /\ Len(out) <= MaxLines
  /\ asks \in 0..MaxAsks /\ open \in 0..asks
  /\ known \subseteq Sessions
  /\ edits \subseteq [session : Sessions, update : Updates]

LEMMA TypeParts == TypeOK <=> ClientType /\ WireType /\ AgentType
BY DEF TypeOK, ClientType, WireType, AgentType

LEMMA ClientTypeStep ==
  ASSUME TypeOK, CallInv, StoredInv, [Next]_vars
  PROVE  ClientType'
<1> USE BoundsAssumption DEF TypeOK, ClientType, Past, Sessions, NoResult, GoTo, Go, Fail
<1>1. CASE Start
  <2>1. runs + 1 \in 0..MaxRuns
    BY <1>1 DEF Start
  <2>2. result'.verdict \in {"none", "error"} /\ pc' \in {"call", "close"} /\ cur' \in Methods
    BY <1>1 DEF Start, Methods
  <2>3. /\ runs' = runs + 1 /\ session' = 0 /\ recalled' = 0 /\ stored' = stored /\ dropped' = dropped
        /\ resumed' = FALSE /\ canLoad' = FALSE /\ loadLost' = FALSE /\ cut' = FALSE
    BY <1>1 DEF Start
  <2>4. runs' \in 0..MaxRuns
    BY <2>1, <2>3
  <2>5. pc' \in {"idle", "call", "drain", "await", "late", "recall", "touch", "forget", "remember",
             "close", "closing", "closed"} /\ cur' \in Methods
    BY <2>2
  <2>6. canLoad' \in BOOLEAN /\ resumed' \in BOOLEAN
    BY <2>3
  <2>7. session' \in 0..Past /\ stored' \in 0..Past /\ recalled' \in 0..Past
    BY <2>3
  <2>8. loadLost' \in BOOLEAN /\ cut' \in BOOLEAN /\ dropped' \subseteq Sessions
    BY <2>3
  <2> QED  BY <2>4, <2>5, <2>6, <2>7, <2>8, <2>2
<1>2. CASE Call
  BY <1>2 DEF Call, AcpFailure, history
<1>3. CASE Answered
  BY <1>3, AnsweredIs DEF AcpFailure, history
<1>4. CASE DrainBroken \/ Timeout \/ TimedOut \/ Cancel
  BY <1>4 DEF DrainBroken, Timeout, TimedOut, Cancel, AcpFailure, history
<1>5. CASE Recall \/ Touch \/ Forget \/ Remember \/ CloseStdin \/ CancelClose
  <2>1. CASE Forget
    BY <1>5, <2>1 DEF Forget, StoredInv, Methods
  <2> QED  BY <1>5, <2>1 DEF Recall, Touch, Remember, CloseStdin, CancelClose, history, Methods
<1>6. CASE CloseReader
  BY <1>6 DEF CloseReader, history
<1>7. CASE ReaderStep
  BY <1>7 DEF ReaderStep, Read, AnswerPermission, ReplyBroken, ReadEnd, clientVars, history
<1>8. CASE AgentStep
  BY <1>8 DEF AgentStep, AgentAnswer, Drained, ReplyTaken, AgentUpdate, AgentAsk, AgentStops, AgentForgets, clientVars, history
<1>9. CASE UNCHANGED vars
  BY <1>9 DEF vars, clientVars, history
<1> QED
  BY <1>1, <1>2, <1>3, <1>4, <1>5, <1>6, <1>7, <1>8, <1>9 DEF Next, RunStep

LEMMA WireTypeStep ==
  ASSUME TypeOK, [Next]_vars
  PROVE  WireType'
<1> USE DEF TypeOK, WireType
<1>1. CASE Start
  BY <1>1 DEF Start, Futures
<1>2. CASE Call
  BY <1>2 DEF Call, ClearCollected, Futures
<1>3. CASE DrainBroken \/ Timeout \/ TimedOut \/ Cancel
  BY <1>3 DEF DrainBroken, Timeout, TimedOut, Cancel, wireVars, Futures
<1>4. CASE Answered \/ Recall \/ Touch \/ Forget \/ Remember \/ CloseStdin \/ CancelClose
  BY <1>4 DEF Answered, Recall, Touch, Forget, Remember, CloseStdin, CancelClose, wireVars
<1>5. CASE CloseReader
  BY <1>5, FailPendingIs DEF CloseReader
<1>6. CASE Read
  BY SMTT(30), <1>6, ReadIs, LineShape, FailPendingIs DEF HandleResponse, HandleNotification, EndReader, Futures
<1>7. CASE AnswerPermission
  BY <1>7, FailPendingIs DEF AnswerPermission, EndReader
<1>8. CASE ReadEnd \/ ReplyBroken
  BY <1>8, FailPendingIs DEF ReadEnd, ReplyBroken, EndReader
<1>9. CASE AgentStep
  BY <1>9 DEF AgentStep, AgentAnswer, Drained, ReplyTaken, AgentUpdate, AgentAsk, AgentStops, AgentForgets, wireVars
<1>10. CASE UNCHANGED vars
  BY <1>10 DEF vars, wireVars
<1> QED
  BY <1>1, <1>2, <1>3, <1>4, <1>5, <1>6, <1>7, <1>8, <1>9, <1>10 DEF Next, RunStep, ReaderStep

LEMMA AgentTypeStep ==
  ASSUME TypeOK, CallInv, WireInv, AskInv, [Next]_vars
  PROVE  AgentType'
<1> USE BoundsAssumption DEF TypeOK, AgentType
<1>1. CASE Start
  BY <1>1 DEF Start
<1>2. CASE Call
  BY <1>2 DEF Call
<1>3. CASE \/ Answered \/ DrainBroken \/ Timeout \/ TimedOut \/ Cancel \/ Recall \/ Touch \/ Forget
           \/ Remember \/ CloseStdin \/ CancelClose
  BY <1>3 DEF Answered, DrainBroken, Timeout, TimedOut, Cancel, Recall, Touch, Forget, Remember, CloseStdin, CancelClose, agentVars, history
<1>4. CASE CloseReader
  BY <1>4 DEF CloseReader, history
<1>5. CASE Read
  BY <1>5, ReadIs, TailIs DEF history
<1>6. CASE AnswerPermission \/ ReplyTaken
  <2>1. reader \in {"policy", "replying"} => open - 1 \in 0..asks
    BY DEF AskInv, Counts
  <2> QED  BY <1>6, <2>1 DEF AnswerPermission, ReplyTaken, history
<1>7. CASE ReadEnd \/ ReplyBroken \/ Drained
  BY <1>7 DEF ReadEnd, ReplyBroken, Drained, agentVars, history
<1>8. CASE \E m \in Methods : AgentAnswer(m)
  <2>1. PICK m \in Methods : AgentAnswer(m)
    BY <1>8
  <2>2. PICK value \in {"result", "error"} :
          /\ Send([type |-> "response", id |-> m, value |-> value])
          /\ known' = IF m = "new" /\ value = "result" THEN known \cup {runs} ELSE known
    BY <2>1 DEF AgentAnswer
  <2>3. [type |-> "response", id |-> m, value |-> value] \in Line
    BY DEF Line
  <2>4. out' \in Seq(Line) /\ Len(out') <= MaxLines
    BY <2>2, <2>3, AppendIs
  <2>5. runs \in Sessions
    <3>1. fut[m] # "none"
      BY <2>1 DEF AgentAnswer, WireInv
    <3>2. pc # "idle"
      BY <3>1 DEF CallInv, Later, Methods
    <3> QED  BY <3>2 DEF CallInv, Sessions, Past
  <2> QED  BY <2>1, <2>2, <2>4, <2>5 DEF AgentAnswer, history
<1>9. CASE AgentUpdate
  <2>1. PICK u \in Updates, s \in Sessions :
          /\ Send([type |-> "update", session |-> s, update |-> u])
          /\ edits' \in {edits, edits \cup {[session |-> s, update |-> u]}}
    BY <1>9 DEF AgentUpdate
  <2>2. [type |-> "update", session |-> s, update |-> u] \in Line
    BY DEF Line
  <2>3. out' \in Seq(Line) /\ Len(out') <= MaxLines
    BY <2>1, <2>2, AppendIs
  <2> QED  BY <1>9, <2>1, <2>3 DEF AgentUpdate
<1>10. CASE AgentAsk
  <2>1. [type |-> "permission"] \in Line
    BY DEF Line
  <2>2. out' \in Seq(Line) /\ Len(out') <= MaxLines
    BY <1>10, <2>1, AppendIs DEF AgentAsk
  <2> QED  BY <1>10, <2>2 DEF AgentAsk, history
<1>11. CASE AgentStops
  BY <1>11 DEF AgentStops, history
<1>12. CASE AgentForgets
  BY <1>12 DEF AgentForgets, history
<1>13. CASE UNCHANGED vars
  BY <1>13 DEF vars, agentVars, history
<1> QED
  BY <1>1, <1>2, <1>3, <1>4, <1>5, <1>6, <1>7, <1>8, <1>9, <1>10, <1>11, <1>12, <1>13
  DEF Next, RunStep, ReaderStep, AgentStep

(* The read loop, and close, only settle calls that are in the table.       *)
LEMMA SettledIs ==
  ASSUME TypeOK, ReaderStep \/ CloseReader
  PROVE  /\ \A m \in Methods : \/ fut'[m] = fut[m]
                               \/ fut[m] = "pending" /\ fut'[m] \in {"result", "error", "closed"}
         /\ \A m \in Methods : fut'[m] = "pending" /\ m \in pending => m \in pending'
<1> USE DEF TypeOK
<1>1. CASE CloseReader
  BY <1>1, FailPendingIs DEF CloseReader
<1>2. CASE Read
  <2>1. CASE HandleResponse(out[1]) /\ out[1].type = "response"
    BY <1>2, <2>1, ReadIs, LineShape DEF HandleResponse
  <2>2. CASE HandleNotification(out[1])
    BY <2>2, FailPendingIs DEF HandleNotification, EndReader
  <2> QED  BY <1>2, <2>1, <2>2, ReadIs
<1>3. CASE AnswerPermission
  BY <1>3, FailPendingIs DEF AnswerPermission, EndReader
<1>4. CASE ReadEnd \/ ReplyBroken
  BY <1>4, FailPendingIs DEF ReadEnd, ReplyBroken, EndReader
<1> QED  BY <1>1, <1>2, <1>3, <1>4 DEF ReaderStep

(* The client goes from one call to the next and never back.                *)
LEMMA CallStep ==
  ASSUME TypeOK, TypeOK', CallInv, StoredInv, [Next]_vars
  PROVE  CallInv'
<1> USE DEF CallInv, TypeOK, GoTo, Go, Fail
<1>1. CASE Start
  BY <1>1 DEF Start, Methods, Later, Closing
<1>2. CASE Call
  BY <1>2 DEF Call, AcpFailure, Methods, Later, Closing
<1>3. CASE Answered
  BY <1>3, AnsweredIs DEF AcpFailure, wireVars, Closing, Methods, Later
<1>4. CASE DrainBroken \/ Timeout \/ TimedOut \/ Cancel
  BY <1>4 DEF DrainBroken, Timeout, TimedOut, Cancel, AcpFailure, wireVars, Closing, Methods, Later
<1>5. CASE Recall \/ Touch \/ Forget \/ Remember
  BY <1>5 DEF Recall, Touch, Forget, Remember, wireVars, Closing, Methods, Later
<1>6. CASE CloseStdin \/ CancelClose
  BY <1>6 DEF CloseStdin, CancelClose, wireVars, Closing, Methods, Later
<1>7. CASE CloseReader
  BY <1>7, SettledIs DEF CloseReader, Closing, Methods, Later
<1>8. CASE ReaderStep
  <2>1. UNCHANGED clientVars
    BY <1>8 DEF ReaderStep, Read, AnswerPermission, ReplyBroken, ReadEnd
  <2> QED  BY <1>8, <2>1, SettledIs DEF clientVars, Closing, Methods, Later
<1>9. CASE AgentStep
  BY <1>9 DEF AgentStep, AgentAnswer, Drained, ReplyTaken, AgentUpdate, AgentAsk, AgentStops, AgentForgets, clientVars, wireVars, Closing
<1>10. CASE UNCHANGED vars
  BY <1>10 DEF vars, clientVars, wireVars, Closing
<1> QED
  BY <1>1, <1>2, <1>3, <1>4, <1>5, <1>6, <1>7, <1>8, <1>9, <1>10 DEF Next, RunStep

(* Only the answer of the prompt makes more of the result than a failure.   *)
LEMMA ResultStep ==
  ASSUME TypeOK, TypeOK', CallInv, ResultInv, [Next]_vars
  PROVE  ResultInv'
<1> USE DEF ResultInv, CallInv, TypeOK, GoTo, Go, Fail, NoResult, Closing
<1>1. CASE Start
  BY <1>1 DEF Start
<1>2. CASE Call
  BY <1>2 DEF Call, AcpFailure, Methods
<1>3. CASE Answered
  BY <1>3, AnsweredIs DEF AcpFailure, wireVars
<1>4. CASE DrainBroken \/ Timeout \/ TimedOut \/ Cancel
  BY <1>4 DEF DrainBroken, Timeout, TimedOut, Cancel, AcpFailure
<1>5. CASE Recall \/ Touch \/ Forget \/ Remember
  BY <1>5 DEF Recall, Touch, Forget, Remember, wireVars
<1>6. CASE CloseStdin \/ CancelClose
  BY <1>6 DEF CloseStdin, CancelClose, wireVars
<1>7. CASE CloseReader
  BY <1>7, SettledIs DEF CloseReader, Methods
<1>8. CASE ReaderStep
  <2>1. UNCHANGED clientVars
    BY <1>8 DEF ReaderStep, Read, AnswerPermission, ReplyBroken, ReadEnd
  <2> QED  BY <1>8, <2>1, SettledIs DEF clientVars, Methods
<1>9. CASE AgentStep
  BY <1>9 DEF AgentStep, AgentAnswer, Drained, ReplyTaken, AgentUpdate, AgentAsk, AgentStops, AgentForgets, clientVars, wireVars
<1>10. CASE UNCHANGED vars
  BY <1>10 DEF vars, clientVars, wireVars
<1> QED
  BY <1>1, <1>2, <1>3, <1>4, <1>5, <1>6, <1>7, <1>8, <1>9, <1>10 DEF Next, RunStep

(* What the agent writes is one line, which it was asked for or its own.    *)
LEMMA AgentWrites ==
  ASSUME TypeOK, \/ \E m \in Methods : AgentAnswer(m)
                 \/ AgentUpdate \/ AgentAsk
  PROVE  \E line \in Line :
           /\ Send(line) /\ asked' \subseteq asked
           /\ line.type = "response" => line.id \in asked /\ asked' = asked \ {line.id}
           /\ line.type = "response" => edits' = edits
           /\ line.type = "permission" => "prompt" \in asked /\ asked' = asked /\ edits' = edits
           /\ line.type = "update" =>
                /\ asked' = asked
                /\ \/ "load" \in asked /\ edits' = edits
                   \/ /\ "prompt" \in asked /\ line.session = session
                      /\ edits' = IF IsEdit(Update(line)) THEN edits \cup {Update(line)} ELSE edits
<1>1. CASE \E m \in Methods : AgentAnswer(m)
  <2>1. PICK m \in Methods, value \in {"result", "error"} :
          /\ m \in asked /\ asked' = asked \ {m} /\ edits' = edits
          /\ Send([type |-> "response", id |-> m, value |-> value])
    BY <1>1 DEF AgentAnswer, history
  <2>2. [type |-> "response", id |-> m, value |-> value] \in Line
    BY DEF Line
  <2> QED  BY <2>1, <2>2
<1>2. CASE AgentUpdate
  <2>1. PICK u \in Updates, s \in Sessions :
          /\ \/ "load" \in asked /\ edits' = edits
             \/ /\ "prompt" \in asked /\ s = session
                /\ edits' = IF u.diff /\ ~u.terminal /\ u.kind # "execute" /\ u.sort = "tool"
                            THEN edits \cup {[session |-> s, update |-> u]} ELSE edits
          /\ Send([type |-> "update", session |-> s, update |-> u]) /\ asked' = asked
    BY <1>2 DEF AgentUpdate
  <2> DEFINE line == [type |-> "update", session |-> s, update |-> u]
  <2>2. line \in Line /\ Update(line) = [session |-> s, update |-> u] /\ line.session = s
    BY DEF Line, Update
  <2>3. IsEdit(Update(line)) <=> u.diff /\ ~u.terminal /\ u.kind # "execute" /\ u.sort = "tool"
    BY <2>2, UpdatesAssumption DEF IsEdit, Normalized, ToolKind
  <2>4. line.type = "update"
    OBVIOUS
  <2> QED  BY <2>1, <2>2, <2>3, <2>4
<1>3. CASE AgentAsk
  <2>1. [type |-> "permission"] \in Line
    BY DEF Line
  <2> QED  BY <1>3, <2>1 DEF AgentAsk, history
<1> QED  BY <1>1, <1>2, <1>3

(* A step that neither writes a line nor reads one, and asks the agent for    *)
(* nothing: all but Start, Call, Drained, Read and what the agent writes.    *)
Quiet ==
  /\ UNCHANGED <<out, asked, seen, edits>>
  /\ reader' \in {"policy", "replying"} => reader \in {"policy", "replying"}
  /\ AnswerPermission \/ ReplyTaken \/ open' = open
  /\ pc' = "drain" => pc = "drain" /\ cur' = cur /\ \A m \in Methods : fut'[m] \in {fut[m], "closed"}
  /\ loadLost => loadLost'
  /\ session' = session \/ cur \in {"load", "new"}
  /\ \A m \in Methods : \/ fut'[m] = fut[m]
                        \/ fut[m] = "pending" /\ fut'[m] \in {"closed", "cancelled"}

LEMMA QuietSteps ==
  ASSUME TypeOK, [Next]_vars
  PROVE  \/ Start \/ Call \/ Drained \/ Read \/ (\E m \in Methods : AgentAnswer(m)) \/ AgentUpdate \/ AgentAsk
         \/ Quiet
<1> USE DEF TypeOK, Quiet
<1>1. CASE Answered
  BY <1>1, AnsweredIs DEF wireVars, agentVars, history, AcpFailure, GoTo, Fail
<1>2. CASE DrainBroken \/ Timeout \/ TimedOut \/ Cancel
  BY <1>2 DEF DrainBroken, Timeout, TimedOut, Cancel, wireVars, agentVars, history, Methods, AcpFailure, GoTo, Fail
<1>3. CASE Recall \/ Touch \/ Forget \/ Remember \/ CloseStdin \/ CancelClose
  BY <1>3 DEF Recall, Touch, Forget, Remember, CloseStdin, CancelClose, clientVars, wireVars, agentVars, history, GoTo, Go
<1>4. CASE CloseReader
  BY <1>4, FailPendingIs DEF CloseReader, history, GoTo
<1>5. CASE AnswerPermission
  BY <1>5, FailPendingIs DEF AnswerPermission, EndReader, clientVars, history
<1>6. CASE ReadEnd \/ ReplyBroken
  BY <1>6, FailPendingIs DEF ReadEnd, ReplyBroken, EndReader, clientVars, agentVars, history
<1>7. CASE AgentStops \/ AgentForgets \/ ReplyTaken
  BY <1>7 DEF ReplyTaken, AgentStops, AgentForgets, clientVars, wireVars, history
<1>8. CASE UNCHANGED vars
  BY <1>8 DEF vars, clientVars, wireVars, agentVars, history
<1> QED
  BY <1>1, <1>2, <1>3, <1>4, <1>5, <1>6, <1>7, <1>8 DEF Next, RunStep, ReaderStep, AgentStep

(* A response is written for a request and uses it up, reading uses up the   *)
(* response.                                                               *)
LEMMA WireStep ==
  ASSUME TypeOK, CallInv, WireInv, [Next]_vars
  PROVE  WireInv'
<1> USE DEF WireInv, TypeOK, ResponseAt
<1>1. CASE Start
  BY <1>1 DEF Start, Go, GoTo, Fail
<1>2. CASE Call
  <2>1. fut[cur] = "none" /\ cur' = cur /\ UNCHANGED out
    BY <1>2 DEF Call, CallInv, AcpFailure, GoTo, Fail
  <2>2. /\ \A m \in Methods : fut'[m] = fut[m] \/ (m = cur /\ fut'[m] = "pending")
        /\ asked' = asked \/ asked' = asked \cup {cur}
        /\ asked' # asked => fut'[cur] = "pending"
        /\ pc' = "drain" => asked' = asked /\ fut'[cur] = "pending"
    BY <1>2 DEF Call, AcpFailure, GoTo, Fail
  <2> QED  BY <2>1, <2>2
<1>6. CASE Drained
  BY <1>6 DEF Drained, wireVars, GoTo
<1>3. CASE Read
  <2>1. out' = Tail(out) /\ out # <<>> /\ asked' = asked /\ UNCHANGED <<pc, cur>>
    BY <1>3, ReadIs DEF clientVars
  <2>2. \A m \in Methods : \/ fut'[m] = fut[m] \/ fut'[m] = "closed"
                           \/ fut'[m] # "none" /\ ResponseAt(1, m)
    BY <1>3, ReadIs, LineShape, FailPendingIs DEF HandleResponse, HandleNotification, EndReader
  <2>3. \A i \in DOMAIN out' : i + 1 \in DOMAIN out /\ i + 1 # 1 /\ out'[i] = out[i + 1]
    BY <2>1, TailIs
  <2>4. \A i, j \in DOMAIN out' : i \in Nat /\ j \in Nat /\ (i + 1 = j + 1 => i = j)
    BY <2>1, TailIs
  <2>5. \A m \in Methods : ResponseAt(1, m) => m \notin asked /\ \A i \in DOMAIN out' : ~ResponseAt(i + 1, m)
    BY <2>1, <2>3, TailIs
  <2> QED  BY <2>1, <2>2, <2>3, <2>4, <2>5
<1>4. CASE (\E m \in Methods : AgentAnswer(m)) \/ AgentUpdate \/ AgentAsk
  <2>1. PICK line \in Line :
           /\ Send(line) /\ asked' \subseteq asked
           /\ line.type = "response" => line.id \in asked /\ asked' = asked \ {line.id}
    BY <1>4, AgentWrites
  <2>2. /\ \A i \in DOMAIN out : out'[i] = out[i]
        /\ \A i \in DOMAIN out' : i \in DOMAIN out \/ i = Len(out) + 1
        /\ out'[Len(out) + 1] = line
    BY <2>1, AppendIs
  <2>3. UNCHANGED <<fut, pc, cur>>
    BY <1>4 DEF AgentAnswer, AgentUpdate, AgentAsk, wireVars, clientVars
  <2> QED  BY <2>1, <2>2, <2>3
<1>5. CASE Quiet
  BY <1>5 DEF Quiet
<1> QED  BY <1>1, <1>2, <1>3, <1>4, <1>5, <1>6, QuietSteps

(* What is pending when the read loop goes is failed by it, or by close.     *)
LEMMA EndStep ==
  ASSUME TypeOK, TypeOK', CallInv, EndInv, NothingLeftBehind, [Next]_vars
  PROVE  EndInv' /\ NothingLeftBehind'
<1> USE DEF EndInv, NothingLeftBehind, CallInv, TypeOK, GoTo, Go, Fail, Running
<1>1. CASE Start
  BY <1>1 DEF Start, Methods
<1>2. CASE Call
  BY <1>2 DEF Call, AcpFailure, ClearCollected, Closing, Methods
<1>3. CASE Answered
  BY <1>3, AnsweredIs DEF AcpFailure, wireVars, history, Closing
<1>4. CASE DrainBroken \/ Timeout \/ TimedOut \/ Cancel
  BY <1>4 DEF DrainBroken, Timeout, TimedOut, Cancel, AcpFailure, wireVars, Closing, Methods, history
<1>5. CASE Recall \/ Touch \/ Forget \/ Remember \/ CloseStdin
  BY <1>5 DEF Recall, Touch, Forget, Remember, CloseStdin, Closing, wireVars, history
<1>6. CASE CancelClose
  BY <1>6 DEF CancelClose, wireVars, Closing
<1>7. CASE CloseReader
  BY <1>7, FailPendingIs DEF CloseReader, Closing, Later, Methods, history
<1>8. CASE Read
  <2>1. CASE HandleResponse(out[1]) /\ out[1].type = "response"
    <3>1. out[1] \in Line /\ reader = "reading" /\ UNCHANGED <<clientVars, history, agent>>
      BY <1>8, ReadIs
    <3>2. \A m \in Methods : fut'[m] = fut[m] \/ fut'[m] \in {"result", "error"}
      BY <2>1, <3>1, LineShape DEF HandleResponse
    <3>3. reader' = reader
      BY <2>1 DEF HandleResponse
    <3>4. fut["load"] # "closed"
      BY <3>1 DEF Methods
    <3> QED  BY <3>1, <3>2, <3>3, <3>4 DEF clientVars, history, Methods
  <2>2. CASE HandleNotification(out[1])
    BY <1>8, <2>2, ReadIs, FailPendingIs DEF HandleNotification, EndReader, clientVars, history, Later, Methods
  <2> QED  BY <1>8, <2>1, <2>2, ReadIs DEF clientVars, history
<1>9. CASE AnswerPermission
  BY <1>9, FailPendingIs DEF AnswerPermission, EndReader, clientVars, history, Later, Methods
<1>10. CASE ReadEnd \/ ReplyBroken
  BY <1>10, FailPendingIs DEF ReadEnd, ReplyBroken, EndReader, clientVars, agentVars, history, Later, Methods
<1>11. CASE AgentStep
  <2>1. /\ UNCHANGED <<cut, fut, pending, loadLost>>
        /\ pc' = pc \/ (pc = "drain" /\ pc' = "await")
        /\ reader' = reader \/ (reader = "replying" /\ reader' = "reading" /\ Running)
        /\ agent' = agent \/ Running
    BY <1>11 DEF AgentStep, AgentAnswer, Drained, ReplyTaken, AgentUpdate, AgentAsk, AgentStops, AgentForgets, clientVars, wireVars, history
  <2> QED  BY <2>1 DEF Closing
<1>12. CASE UNCHANGED vars
  BY <1>12 DEF vars, clientVars, wireVars, agentVars, history
<1> QED
  BY <1>1, <1>2, <1>3, <1>4, <1>5, <1>6, <1>7, <1>8, <1>9, <1>10, <1>11, <1>12 DEF Next, RunStep, ReaderStep

(* The row is emptied as its session is given up; a new one has a new id.    *)
LEMMA StoredStep ==
  ASSUME TypeOK, TypeOK', CallInv, StoredInv, [Next]_vars
  PROVE  StoredInv'
<1> USE BoundsAssumption DEF StoredInv, CallInv, TypeOK, GoTo, Go, Fail, Closing, Past, Sessions
<1>1. CASE Start
  BY <1>1 DEF Start
<1>2. CASE Call
  BY <1>2 DEF Call, AcpFailure
<1>3. CASE Answered
  BY <1>3, AnsweredIs DEF AcpFailure, history
<1>4. CASE DrainBroken \/ Timeout \/ TimedOut \/ Cancel
  BY <1>4 DEF DrainBroken, Timeout, TimedOut, Cancel, AcpFailure, history
<1>5. CASE Recall \/ Touch
  BY <1>5 DEF Recall, Touch, history
<1>6. CASE Forget
  BY <1>6 DEF Forget
<1>7. CASE Remember
  BY <1>7 DEF Remember, history
<1>8. CASE CloseStdin \/ CancelClose \/ CloseReader
  BY <1>8 DEF CloseStdin, CancelClose, CloseReader, history
<1>9. CASE ReaderStep \/ AgentStep
  BY ZenonT(60), <1>9 DEF ReaderStep, Read, AnswerPermission, ReplyBroken, ReadEnd, AgentStep, AgentAnswer, Drained, ReplyTaken, AgentUpdate, AgentAsk, AgentStops, AgentForgets, clientVars, history
<1>10. CASE UNCHANGED vars
  BY <1>10 DEF vars, clientVars, history
<1> QED
  BY <1>1, <1>2, <1>3, <1>4, <1>5, <1>6, <1>7, <1>8, <1>9, <1>10 DEF Next, RunStep

(* The agent narrates and asks before it answers the prompt, and lines keep   *)
(* their order.                                                            *)
LEMMA AheadStep ==
  ASSUME TypeOK, CallInv, WireInv, AheadInv, [Next]_vars
  PROVE  AheadInv'
<1> USE DEF AheadInv, TypeOK, ResponseAt, UpdateAt, Update
<1>0. "prompt" \in Methods
  BY DEF Methods
<1>1. CASE Start
  BY <1>0, <1>1 DEF Start, NoResult
<1>2. CASE Call
  BY <1>0, <1>2 DEF Call, ClearCollected, CallInv
<1>6. CASE Drained
  BY <1>6 DEF Drained, wireVars, history
<1>3. CASE Read
  <2>1. /\ out' = Tail(out) /\ out # <<>> /\ out[1] \in Line /\ edits' = edits
        /\ reader = "reading"
    BY <1>3, ReadIs DEF history
  <2>2. \A i \in DOMAIN out' : i \in Nat /\ i + 1 \in DOMAIN out /\ out'[i] = out[i + 1]
    BY <2>1, TailIs
  <2>3. 1 \in DOMAIN out /\ \A i \in DOMAIN out : i \in Nat /\ i >= 1 /\ (i # 1 => i - 1 \in DOMAIN out' /\ out'[i - 1] = out[i])
    BY <2>1, TailIs
  <2>4. /\ fut'["prompt"] \in {"result", "error"} => fut["prompt"] = fut'["prompt"] \/ ResponseAt(1, "prompt")
        /\ reader' \in {"policy", "replying"} =>
             out[1].type = "permission" /\ fut'["prompt"] = fut["prompt"]
        /\ seen' = IF UpdateAt(1) THEN seen \cup {Update(out[1])} ELSE seen
    BY <1>0, <1>3, ReadIs, LineShape, FailPendingIs DEF HandleResponse, HandleNotification, EndReader
  <2>5. (\A i, j \in DOMAIN out :
           out[i].type = "permission" /\ ResponseAt(j, "prompt") => i < j)'
    <3> SUFFICES ASSUME NEW i \in DOMAIN out', NEW j \in DOMAIN out',
                        out'[i].type = "permission", ResponseAt(j, "prompt")'
                 PROVE  i < j
      OBVIOUS
    <3>1. i + 1 < j + 1
      BY <2>2
    <3> QED  BY <2>2, <3>1
  <2>6. ResponseAt(1, "prompt") => /\ \A i \in DOMAIN out : out[i].type # "permission"
                                   /\ edits \subseteq seen
    BY <2>3
  <2>7. fut'["prompt"] \in {"result", "error"} =>
          reader' \notin {"policy", "replying"} /\ \A i \in DOMAIN out' : out'[i].type # "permission"
    BY <2>2, <2>3, <2>4, <2>6
  <2>8. ASSUME NEW e \in edits' \ seen'
        PROVE  \E i \in DOMAIN out' :
                 /\ UpdateAt(i)' /\ Update(out'[i]) = e
                 /\ \A j \in DOMAIN out' : ResponseAt(j, "prompt")' => i < j
    <3>1. PICK i \in DOMAIN out : /\ UpdateAt(i) /\ Update(out[i]) = e
                                  /\ \A j \in DOMAIN out : ResponseAt(j, "prompt") => i < j
      BY <2>1, <2>4, <2>8
    <3>2. i # 1
      BY <2>4, <2>8, <3>1
    <3>3. i - 1 \in DOMAIN out' /\ out'[i - 1] = out[i]
      BY <2>3, <3>2
    <3>4. \A j \in DOMAIN out' : ResponseAt(j, "prompt")' => i < j + 1
      BY <2>2, <3>1
    <3>5. \A j \in DOMAIN out' : ResponseAt(j, "prompt")' => i - 1 < j
      BY <2>2, <2>3, <3>4
    <3> QED  BY <3>1, <3>3, <3>5
  <2>9. fut'["prompt"] = "result" => edits' \subseteq seen'
    BY <2>1, <2>4, <2>6
  <2> QED  BY <2>1, <2>5, <2>7, <2>8, <2>9
<1>4. CASE (\E m \in Methods : AgentAnswer(m)) \/ AgentUpdate \/ AgentAsk
  <2>1. PICK line \in Line :
           /\ Send(line) /\ asked' \subseteq asked
           /\ line.type = "response" => line.id \in asked /\ asked' = asked \ {line.id}
           /\ line.type = "response" => edits' = edits
           /\ line.type = "permission" => "prompt" \in asked /\ asked' = asked /\ edits' = edits
           /\ line.type = "update" =>
                /\ asked' = asked
                /\ \/ "load" \in asked /\ edits' = edits
                   \/ /\ "prompt" \in asked /\ line.session = session
                      /\ edits' = IF IsEdit(Update(line)) THEN edits \cup {Update(line)} ELSE edits
    BY <1>4, AgentWrites
  <2>2. /\ \A i \in DOMAIN out : i \in Nat /\ i < Len(out) + 1 /\ i \in DOMAIN out' /\ out'[i] = out[i]
        /\ \A i \in DOMAIN out' : i \in DOMAIN out \/ i = Len(out) + 1
        /\ Len(out) + 1 \in DOMAIN out' /\ out'[Len(out) + 1] = line
    BY <2>1, AppendIs
  <2>3. UNCHANGED <<fut, reader, seen>>
    BY <1>4 DEF AgentAnswer, AgentUpdate, AgentAsk, wireVars
  <2>4. "prompt" \in asked => /\ \A i \in DOMAIN out : ~ResponseAt(i, "prompt")
                              /\ fut["prompt"] \notin {"result", "error"}
    BY <1>0 DEF WireInv
  <2>5. line.type \in {"response", "update", "permission"}
    BY LineShape
  <2>6. (\A i, j \in DOMAIN out :
           out[i].type = "permission" /\ ResponseAt(j, "prompt") => i < j)'
    BY <2>1, <2>2, <2>4
  <2>7. fut'["prompt"] \in {"result", "error"} =>
          reader' \notin {"policy", "replying"} /\ \A i \in DOMAIN out' : out'[i].type # "permission"
    BY <2>1, <2>2, <2>3, <2>4
  <2>8. (\A e \in edits : IsEdit(e))'
    <3>1. \A e \in edits' : IsEdit(e)
      BY <2>1, <2>5
    <3> QED  BY <3>1
  <2>9. ASSUME NEW e \in edits' \ seen'
        PROVE  \E i \in DOMAIN out' :
                 /\ UpdateAt(i)' /\ Update(out'[i]) = e
                 /\ \A j \in DOMAIN out' : ResponseAt(j, "prompt")' => i < j
    <3>1. CASE e \in edits
      <4>1. PICK i \in DOMAIN out : /\ UpdateAt(i) /\ Update(out[i]) = e
                                    /\ \A j \in DOMAIN out : ResponseAt(j, "prompt") => i < j
        BY <2>3, <2>9, <3>1
      <4> QED  BY <2>2, <4>1
    <3>2. CASE e \notin edits
      <4>1. line.type = "update" /\ e = Update(line) /\ "prompt" \in asked
        BY <2>1, <2>5, <2>9, <3>2
      <4>2. \A j \in DOMAIN out' : ~ResponseAt(j, "prompt")'
        BY <2>2, <2>4, <4>1
      <4> QED  BY <2>2, <4>1, <4>2
    <3> QED  BY <3>1, <3>2
  <2>10. fut'["prompt"] = "result" => edits' \subseteq seen'
    BY <2>1, <2>3, <2>4, <2>5
  <2> QED  BY <2>6, <2>7, <2>8, <2>9, <2>10
<1>5. CASE Quiet
  BY <1>0, <1>5 DEF Quiet
<1> QED  BY <1>1, <1>2, <1>3, <1>4, <1>5, <1>6, QuietSteps

(* What is unread of the past of a session when its prompt is about to begin: *)
(* nothing, since the load it came with was answered or never made.          *)
LEMMA NothingReplayed ==
  ASSUME TypeOK, CallInv, WireInv, EndInv, ReplayInv, ~loadLost, pc = "call", cur = "prompt"
  PROVE  "load" \notin asked /\ \A i \in DOMAIN out : ~UpdateAt(i)
<1>1. {"load", "new", "prompt"} \subseteq Methods /\ fut["prompt"] = "none"
  BY DEF CallInv, Methods
<1>2. fut["load"] \in {"none", "result", "error"}
  BY <1>1 DEF CallInv, EndInv, Closing, TypeOK, Futures
<1>3. "load" \notin asked /\ \A i \in DOMAIN out : ~ResponseAt(i, "load")
  BY <1>1, <1>2 DEF WireInv
<1> QED  BY <1>1, <1>3 DEF ReplayInv

Coming == {Update(out[i]) : i \in {k \in DOMAIN out : UpdateAt(k)}}

(* The replay is ahead of the answer to session/load, which the client waits  *)
(* for before it prompts.                                                  *)
LEMMA ReplayStep ==
  ASSUME TypeOK, CallInv, WireInv, EndInv, ReplayInv, [Next]_vars
  PROVE  ReplayInv'
<1> SUFFICES ASSUME ~loadLost' PROVE ReplayInv'
  BY DEF ReplayInv
<1> USE DEF ReplayInv, TypeOK, ResponseAt, UpdateAt
<1>0. {"load", "new", "prompt"} \subseteq Methods
  BY DEF Methods
<1>1. CASE Start
  BY <1>0, <1>1 DEF Start
<1>2. CASE Call
  <2>1. ~loadLost /\ UNCHANGED <<out, session>>
    BY <1>2 DEF Call
  <2>2. CASE cur # "prompt"
    <3>1. fut["prompt"] = "none"
      BY <2>2 DEF CallInv, Later, Methods
    <3>2. fut'["prompt"] = "none" /\ asked \subseteq asked'
      BY <1>0, <1>2, <2>2, <3>1 DEF Call
    <3> QED  BY <2>1, <3>1, <3>2
  <2>3. CASE cur = "prompt"
    <3>1. "load" \notin asked /\ \A i \in DOMAIN out : ~UpdateAt(i)
      BY <1>2, <2>1, <2>3, NothingReplayed DEF Call
    <3>2. "load" \notin asked' /\ seen' = {}
      BY <1>2, <2>3, <3>1 DEF Call, ClearCollected
    <3> QED  BY <2>1, <3>1, <3>2
  <2> QED  BY <2>2, <2>3
<1>6. CASE Drained
  <2>1. /\ asked' = asked \cup {cur} /\ fut[cur] \in {"pending", "closed"}
        /\ UNCHANGED <<out, session, seen, edits, fut, loadLost>>
    BY <1>6 DEF Drained, WireInv, wireVars, history
  <2>2. fut["prompt"] # "none" => cur = "prompt" \/ cur \notin {"load"}
    BY DEF CallInv, Later, Methods
  <2> QED  BY <2>1, <2>2
<1>3. CASE Read
  <2>1. /\ out' = Tail(out) /\ out # <<>> /\ out[1] \in Line
        /\ UNCHANGED <<asked, session, loadLost, edits>>
    BY <1>3, ReadIs DEF history, clientVars
  <2>2. \A i \in DOMAIN out' : i \in Nat /\ i + 1 \in DOMAIN out /\ out'[i] = out[i + 1]
    BY <2>1, TailIs
  <2>3. 1 \in DOMAIN out /\ \A i \in DOMAIN out : i \in Nat /\ i >= 1 /\ (i # 1 => i - 1 \in DOMAIN out' /\ out'[i - 1] = out[i])
    BY <2>1, TailIs
  <2>4. /\ fut'["prompt"] = "none" <=> fut["prompt"] = "none"
        /\ seen' = IF UpdateAt(1) THEN seen \cup {Update(out[1])} ELSE seen
    BY <1>0, <1>3, ReadIs, LineShape, FailPendingIs DEF HandleResponse, HandleNotification, EndReader, Update
  <2>5. ASSUME fut'["prompt"] = "none", NEW i \in DOMAIN out', UpdateAt(i)', "load" \notin asked'
        PROVE  \E j \in DOMAIN out' : ResponseAt(j, "load")' /\ i < j
    <3>1. PICK j \in DOMAIN out : ResponseAt(j, "load") /\ i + 1 < j
      BY <2>1, <2>2, <2>4, <2>5
    <3>2. j # 1 /\ i < j - 1
      BY <2>2, <2>3, <3>1
    <3> QED  BY <2>3, <3>1, <3>2
  <2>6. seen' \cup Coming' \subseteq seen \cup Coming
    <3>1. Coming' \subseteq Coming
      BY <2>2 DEF Coming
    <3>2. UpdateAt(1) => Update(out[1]) \in Coming
      BY <2>3 DEF Coming
    <3> QED  BY <2>4, <3>1, <3>2
  <2> QED  BY <2>1, <2>4, <2>5, <2>6 DEF Coming
<1>4. CASE (\E m \in Methods : AgentAnswer(m)) \/ AgentUpdate \/ AgentAsk
  <2>1. PICK line \in Line :
           /\ Send(line) /\ asked' \subseteq asked
           /\ line.type = "response" => line.id \in asked /\ asked' = asked \ {line.id}
           /\ line.type = "response" => edits' = edits
           /\ line.type = "permission" => "prompt" \in asked /\ asked' = asked /\ edits' = edits
           /\ line.type = "update" =>
                /\ asked' = asked
                /\ \/ "load" \in asked /\ edits' = edits
                   \/ /\ "prompt" \in asked /\ line.session = session
                      /\ edits' = IF IsEdit(Update(line)) THEN edits \cup {Update(line)} ELSE edits
    BY <1>4, AgentWrites
  <2>2. /\ \A i \in DOMAIN out : i \in Nat /\ i < Len(out) + 1 /\ i \in DOMAIN out' /\ out'[i] = out[i]
        /\ \A i \in DOMAIN out' : i \in DOMAIN out \/ i = Len(out) + 1
        /\ Len(out) + 1 \in DOMAIN out' /\ out'[Len(out) + 1] = line
    BY <2>1, AppendIs
  <2>3. UNCHANGED <<fut, seen, session, loadLost>>
    BY <1>4 DEF AgentAnswer, AgentUpdate, AgentAsk, wireVars, clientVars, history
  <2>4. line.type \in {"response", "update", "permission"}
    BY LineShape
  <2>5. ASSUME fut'["prompt"] = "none", NEW i \in DOMAIN out', UpdateAt(i)', "load" \notin asked'
        PROVE  \E j \in DOMAIN out' : ResponseAt(j, "load")' /\ i < j
    <3>1. "prompt" \notin asked
      BY <1>0, <2>3, <2>5 DEF WireInv
    <3>2. i \in DOMAIN out
      BY <2>1, <2>2, <2>5, <3>1
    <3>3. CASE "load" \in asked
      BY <2>1, <2>2, <2>4, <2>5, <3>2, <3>3
    <3>4. CASE "load" \notin asked
      BY <2>2, <2>3, <2>5, <3>2, <3>4
    <3> QED  BY <3>3, <3>4
  <2>6. ASSUME fut'["prompt"] # "none"
        PROVE  /\ "load" \notin asked'
               /\ \A n \in (seen \cup Coming)' : n.session = session' /\ (IsEdit(n) => n \in edits')
    <3>1. /\ "load" \notin asked
          /\ \A n \in seen \cup Coming : n.session = session /\ (IsEdit(n) => n \in edits)
      BY <2>3, <2>6 DEF Coming
    <3>2. Coming' \subseteq Coming \cup (IF line.type = "update" THEN {Update(line)} ELSE {})
      BY <2>2 DEF Coming
    <3>3. edits \subseteq edits' /\ Update(line).session = line.session
      BY <2>1, <2>4 DEF Update
    <3>4. line.type = "update" => line.session = session /\ (IsEdit(Update(line)) => Update(line) \in edits')
      BY <2>1, <3>1
    <3> QED  BY <2>1, <2>3, <3>1, <3>2, <3>3, <3>4
  <2> QED  BY <2>5, <2>6 DEF Coming
<1>5. CASE Quiet
  <2>1. ~loadLost /\ UNCHANGED <<out, asked, seen, edits>>
    BY <1>5 DEF Quiet
  <2>2. fut'["prompt"] = "none" <=> fut["prompt"] = "none"
    BY <1>0, <1>5 DEF Quiet
  <2>3. session' = session \/ fut["prompt"] = "none"
    BY <1>5 DEF Quiet, CallInv, Later
  <2> QED  BY <2>1, <2>2, <2>3
<1> QED  BY <1>1, <1>2, <1>3, <1>4, <1>5, <1>6, QuietSteps

(* The read loop waits for the policy, so one request is decided at a time.  *)
LEMMA AskStep ==
  ASSUME TypeOK, TypeOK', AskInv, [Next]_vars
  PROVE  AskInv'
<1>a. PICK before \in [0..Len(out) -> 0..open] : Counts(before)
  BY DEF AskInv
<1>b. Len(out) \in Nat /\ DOMAIN out = 1..Len(out) /\ open \in Nat
  BY DEF TypeOK
<1>1. CASE Start
  <2> DEFINE none == [i \in 0..0 |-> 0]
  <2>1. out' = <<>> /\ open' = 0 /\ reader' \in {"off", "reading"} /\ Len(out') = 0 /\ DOMAIN out' = {}
    BY <1>1 DEF Start
  <2>2. none \in [0..0 -> 0..0]
    OBVIOUS
  <2>3. Counts(none)'
    BY <2>1 DEF Counts
  <2> QED  BY <2>1, <2>2, <2>3 DEF AskInv
<1>2. CASE Read
  <2>1. /\ out' = Tail(out) /\ out # <<>> /\ open' = open
        /\ reader' \in {"policy", "replying"} => out[1].type = "permission"
    BY <1>2, ReadIs, LineShape DEF HandleResponse, HandleNotification, EndReader
  <2>2. /\ Len(out') = Len(out) - 1 /\ 1 \in DOMAIN out /\ DOMAIN out' = 1..Len(out')
        /\ \A i \in DOMAIN out' : i \in Nat /\ i >= 1 /\ i + 1 \in DOMAIN out /\ out'[i] = out[i + 1]
    BY <2>1, TailIs
  <2>3. PICK rest \in [0..Len(out') -> 0..open'] :
          \A i \in 0..Len(out') : rest[i] = before[i + 1] /\ i + 1 \in 0..Len(out)
    <3>1. \A i \in 0..Len(out') : i + 1 \in 0..Len(out) /\ before[i + 1] \in 0..open'
      BY <1>b, <2>1, <2>2
    <3>2. [i \in 0..Len(out') |-> before[i + 1]] \in [0..Len(out') -> 0..open']
      BY <3>1
    <3> QED  BY <3>1, <3>2
  <2>4. reader' \in {"policy", "replying"} => rest[0] >= 1
    <3>1. 0 \in 0..Len(out') /\ before[0] \in Nat /\ before[1] \in Nat /\ rest[0] = before[1]
      BY <1>b, <2>2, <2>3
    <3>2. out[1].type = "permission" => before[1] >= before[1 - 1] + 1
      BY <1>a, <2>2 DEF Counts
    <3>3. 1 - 1 = 0
      OBVIOUS
    <3>4. reader' \in {"policy", "replying"} => before[1] >= before[0] + 1
      BY <2>1, <3>2, <3>3
    <3> QED  BY <3>1, <3>4
  <2>5. \A i, j \in 0..Len(out') : i <= j => rest[i] <= rest[j]
    BY <1>a, <1>b, <2>2, <2>3 DEF Counts
  <2>6. ASSUME NEW i \in DOMAIN out', out'[i].type = "permission"
        PROVE  rest[i] >= rest[i - 1] + 1
    <3>1. before[i + 1] >= before[(i + 1) - 1] + 1
      BY <1>a, <2>2, <2>6 DEF Counts
    <3>2. i \in 0..Len(out') /\ i - 1 \in 0..Len(out') /\ (i + 1) - 1 = i /\ (i - 1) + 1 = i
      BY <1>b, <2>2
    <3>3. rest[i] = before[i + 1] /\ rest[i - 1] = before[i]
      BY <2>3, <3>2
    <3> QED  BY <3>1, <3>2, <3>3
  <2>7. Counts(rest)'
    BY <2>4, <2>5, <2>6 DEF Counts
  <2> QED  BY <2>3, <2>7 DEF AskInv
<1>3. CASE AnswerPermission \/ ReplyTaken
  <2>1. /\ reader \in {"policy", "replying"} /\ out' = out
        /\ reader' \in {"policy", "replying"} => open' = open
    BY <1>3 DEF AnswerPermission, ReplyTaken, EndReader
  <2>2. CASE open' = open
    <3>1. Counts(before)'
      BY <1>a, <2>1 DEF Counts
    <3> QED  BY <2>1, <2>2, <3>1 DEF AskInv
  <2>3. CASE open' = open - 1
    <3>1. \A i \in 0..Len(out) : before[i] >= 1 /\ before[i] \in 0..open
      BY <1>a, <1>b, <2>1 DEF Counts
    <3>2. PICK less \in [0..Len(out) -> 0..open'] :
            \A i \in 0..Len(out) : less[i] = before[i] - 1
      <4>1. [i \in 0..Len(out) |-> before[i] - 1] \in [0..Len(out) -> 0..open']
        BY <1>b, <2>3, <3>1
      <4> QED  BY <4>1
    <3>3. \A i, j \in 0..Len(out) : i <= j => less[i] <= less[j]
      BY <1>a, <3>1, <3>2 DEF Counts
    <3>4. ASSUME NEW i \in DOMAIN out, out[i].type = "permission"
          PROVE  less[i] >= less[i - 1] + 1
      <4>1. i \in 0..Len(out) /\ i - 1 \in 0..Len(out)
        BY <1>b
      <4>2. before[i] >= before[i - 1] + 1
        BY <1>a, <3>4 DEF Counts
      <4> QED  BY <1>b, <3>1, <3>2, <4>1, <4>2
    <3>5. Counts(less)'
      BY <1>b, <2>1, <2>3, <3>3, <3>4 DEF Counts
    <3> QED  BY <2>1, <3>2, <3>5 DEF AskInv
  <2> QED  BY <1>3, <2>2, <2>3 DEF AnswerPermission, ReplyTaken
<1>4. CASE AgentAsk
  <2>1. Send([type |-> "permission"]) /\ open' = open + 1 /\ reader' = reader
    BY <1>4 DEF AgentAsk, wireVars
  <2>2. [type |-> "permission"] \in Line
    BY DEF Line
  <2>3. /\ Len(out') = Len(out) + 1 /\ DOMAIN out' = 1..(Len(out) + 1)
        /\ \A i \in DOMAIN out : out'[i] = out[i]
    BY <1>b, <2>1, <2>2, AppendIs DEF TypeOK
  <2>4. PICK more \in [0..Len(out') -> 0..open'] : \A i \in 0..Len(out') :
          more[i] = IF i <= Len(out) THEN before[i] ELSE open + 1
    <3>1. [i \in 0..Len(out') |-> IF i <= Len(out) THEN before[i] ELSE open + 1]
            \in [0..Len(out') -> 0..open']
      BY <1>b, <2>1, <2>3
    <3> QED  BY <3>1
  <2>5. \A i \in 0..Len(out) : /\ more[i] = before[i] /\ before[i] \in 0..open
                               /\ more[Len(out) + 1] = open + 1
    BY <1>a, <1>b, <2>3, <2>4
  <2>6. \A i, j \in 0..Len(out') : i <= j => more[i] <= more[j]
    BY <1>a, <1>b, <2>3, <2>4, <2>5 DEF Counts
  <2>7. ASSUME NEW i \in DOMAIN out', out'[i].type = "permission"
        PROVE  more[i] >= more[i - 1] + 1
    <3>1. CASE i \in DOMAIN out
      <4>1. i \in 0..Len(out) /\ i - 1 \in 0..Len(out)
        BY <1>b, <3>1
      <4>2. before[i] >= before[i - 1] + 1
        BY <1>a, <2>3, <2>7, <3>1 DEF Counts
      <4> QED  BY <2>5, <4>1, <4>2
    <3>2. CASE i = Len(out) + 1
      BY SMTT(30), <2>1, <1>b, <2>3, <2>5, <2>7, <3>2
    <3> QED  BY <1>b, <2>3, <3>1, <3>2
  <2>8. reader' \in {"policy", "replying"} => more[0] >= 1
    <3>1. 0 \in 0..Len(out)
      BY <1>b
    <3> QED  BY <1>a, <2>1, <2>5, <3>1 DEF Counts
  <2>9. Counts(more)'
    BY <2>6, <2>7, <2>8 DEF Counts
  <2> QED  BY <2>4, <2>9 DEF AskInv
<1>5. CASE (\E m \in Methods : AgentAnswer(m)) \/ AgentUpdate
  <2>1. PICK line \in Line : Send(line) /\ line.type # "permission"
    <3>1. CASE \E m \in Methods : AgentAnswer(m)
      <4>1. PICK m \in Methods, value \in {"result", "error"} :
              Send([type |-> "response", id |-> m, value |-> value])
        BY <3>1 DEF AgentAnswer
      <4>2. [type |-> "response", id |-> m, value |-> value] \in Line
        BY DEF Line
      <4> QED  BY <4>1, <4>2
    <3>2. CASE AgentUpdate
      <4>1. PICK u \in Updates, s \in Sessions :
              Send([type |-> "update", session |-> s, update |-> u])
        BY <3>2 DEF AgentUpdate
      <4>2. [type |-> "update", session |-> s, update |-> u] \in Line
        BY DEF Line
      <4> QED  BY <4>1, <4>2
    <3> QED  BY <1>5, <3>1, <3>2
  <2>2. open' = open /\ reader' = reader
    BY <1>5 DEF AgentAnswer, AgentUpdate, wireVars
  <2>3. /\ Len(out') = Len(out) + 1 /\ DOMAIN out' = 1..(Len(out) + 1)
        /\ \A i \in DOMAIN out : out'[i] = out[i]
        /\ out'[Len(out) + 1] = line
    BY <1>b, <2>1, AppendIs DEF TypeOK
  <2>4. PICK more \in [0..Len(out') -> 0..open'] : \A i \in 0..Len(out') :
          more[i] = IF i <= Len(out) THEN before[i] ELSE open
    <3>1. [i \in 0..Len(out') |-> IF i <= Len(out) THEN before[i] ELSE open]
            \in [0..Len(out') -> 0..open']
      BY <1>b, <2>2, <2>3
    <3> QED  BY <3>1
  <2>5. \A i \in 0..Len(out) : /\ more[i] = before[i] /\ before[i] \in 0..open
                               /\ more[Len(out) + 1] = open
    BY <1>a, <1>b, <2>3, <2>4
  <2>6. \A i, j \in 0..Len(out') : i <= j => more[i] <= more[j]
    BY <1>a, <1>b, <2>3, <2>4, <2>5 DEF Counts
  <2>7. ASSUME NEW i \in DOMAIN out', out'[i].type = "permission"
        PROVE  more[i] >= more[i - 1] + 1
    <3>1. CASE i \in DOMAIN out
      <4>1. i \in 0..Len(out) /\ i - 1 \in 0..Len(out)
        BY <1>b, <3>1
      <4>2. before[i] >= before[i - 1] + 1
        BY <1>a, <2>3, <2>7, <3>1 DEF Counts
      <4> QED  BY <2>5, <4>1, <4>2
    <3>2. CASE i = Len(out) + 1
      BY <2>1, <1>b, <2>3, <2>5, <2>7, <3>2
    <3> QED  BY <1>b, <2>3, <3>1, <3>2
  <2>8. reader' \in {"policy", "replying"} => more[0] >= 1
    <3>1. 0 \in 0..Len(out)
      BY <1>b
    <3> QED  BY <1>a, <2>2, <2>5, <3>1 DEF Counts
  <2>9. Counts(more)'
    BY <2>6, <2>7, <2>8 DEF Counts
  <2> QED  BY <2>4, <2>9 DEF AskInv
<1>6. CASE Call
  <2>1. UNCHANGED <<out, open, reader>>
    BY <1>6 DEF Call
  <2> QED  BY <2>1 DEF AskInv, Counts
<1>8. CASE Drained
  <2>1. UNCHANGED <<out, open, reader>>
    BY <1>8 DEF Drained, wireVars
  <2> QED  BY <2>1 DEF AskInv, Counts
<1>7. CASE Quiet /\ ~AnswerPermission /\ ~ReplyTaken
  <2>1. /\ out' = out /\ open' = open
        /\ reader' \in {"policy", "replying"} => reader \in {"policy", "replying"}
    BY <1>7 DEF Quiet
  <2>2. Counts(before)'
    BY <1>a, <2>1 DEF Counts
  <2> QED  BY <2>1, <2>2 DEF AskInv
<1> QED  BY <1>1, <1>2, <1>3, <1>4, <1>5, <1>6, <1>7, <1>8, QuietSteps

(* Nothing about a run changes once it has a result, but that it is closed.  *)
LEMMA HonestStep ==
  ASSUME TypeOK, CallInv, ResultInv, WireInv, AheadInv, ReplayInv,
         EditsReported, DeniedIsNoSuccess, OwnUpdates, [Next]_vars
  PROVE  EditsReported' /\ DeniedIsNoSuccess' /\ OwnUpdates'
<1>0. "prompt" \in Methods
  BY DEF Methods
<1>1. CASE result' = result
  <2>1. CASE result.verdict # "success" /\ result.files = {}
    BY <1>1, <2>1 DEF EditsReported, DeniedIsNoSuccess, OwnUpdates
  <2>2. CASE result.verdict = "success" \/ result.files # {}
    <3>1. /\ fut["prompt"] = "result" /\ pc \in Closing /\ "prompt" \notin asked
          /\ \A i \in DOMAIN out : out[i].type # "permission" /\ reader \notin {"policy", "replying"}
      BY <1>0, <2>2 DEF ResultInv, WireInv, NoResult, AheadInv
    <3>2. ~Answered /\ ~DrainBroken /\ ~Drained /\ ~Timeout /\ ~TimedOut /\ ~Call /\ ~Cancel /\ ~Recall /\ ~Touch /\ ~Forget /\ ~Remember
      BY <3>1 DEF Closing, Answered, DrainBroken, Drained, Timeout, TimedOut, Call, Cancel, Recall, Touch, Forget, Remember
    <3>3. /\ session' = session /\ edits' \subseteq edits /\ denied' = denied
          /\ loadLost' = loadLost /\ edits \subseteq edits'
      <4>1. CASE Start
        BY <1>1, <2>2, <4>1 DEF Start, Fail, NoResult
      <4>2. CASE CloseStdin \/ CloseReader \/ CancelClose
        BY <4>2 DEF CloseStdin, CloseReader, CancelClose, wireVars, history
      <4>3. CASE Read
        BY <3>1, <4>3, ReadIs DEF HandleResponse, HandleNotification, clientVars, history, AheadInv
      <4>4. CASE AnswerPermission \/ ReadEnd \/ ReplyBroken \/ ReplyTaken
        BY <1>0, <3>1, <4>4 DEF AnswerPermission, ReadEnd, ReplyBroken, ReplyTaken, clientVars, history, AheadInv
      <4>5. CASE (\E m \in Methods : AgentAnswer(m)) \/ AgentUpdate \/ AgentAsk
        BY <3>1, <4>5 DEF AgentAnswer, AgentUpdate, AgentAsk, clientVars, wireVars, history
      <4>6. CASE AgentStops \/ AgentForgets \/ UNCHANGED vars
        BY <4>6 DEF AgentStops, AgentForgets, vars, clientVars, wireVars, history
      <4> QED  BY <3>2, <4>1, <4>2, <4>3, <4>4, <4>5, <4>6 DEF Next, RunStep, ReaderStep, AgentStep
    <3> QED  BY <1>1, <3>3 DEF EditsReported, DeniedIsNoSuccess, OwnUpdates
  <2> QED  BY <2>1, <2>2
<1>2. CASE result'.verdict # "success" /\ result'.files = {}
  BY <1>2 DEF EditsReported, DeniedIsNoSuccess, OwnUpdates
<1>3. CASE result' # result /\ (result'.verdict = "success" \/ result'.files # {})
  <2>1. Answered
    <3>1. ~Start /\ ~Call /\ ~DrainBroken /\ ~Timeout /\ ~TimedOut /\ ~Cancel /\ ~CancelClose
      BY <1>3 DEF Start, Call, DrainBroken, Timeout, TimedOut, Cancel, CancelClose, AcpFailure, GoTo, Fail, NoResult
    <3>2. ~Recall /\ ~Touch /\ ~Forget /\ ~Remember /\ ~CloseStdin /\ ~CloseReader
      BY <1>3 DEF Recall, Touch, Forget, Remember, CloseStdin, CloseReader
    <3>3. ~ReaderStep /\ ~AgentStep /\ ~UNCHANGED vars
      BY <1>3 DEF ReaderStep, Read, AnswerPermission, ReplyBroken, ReadEnd, AgentStep, AgentAnswer, Drained, ReplyTaken, AgentUpdate, AgentAsk, AgentStops, AgentForgets, clientVars, vars
    <3> QED  BY <3>1, <3>2, <3>3 DEF Next, RunStep
  <2>2. /\ fut["prompt"] = "result" /\ session' = session
        /\ UNCHANGED <<seen, edits, denied, loadLost>>
        /\ \E completed \in BOOLEAN :
             result' = [verdict |-> IF completed /\ ~denied THEN "success" ELSE "refused",
                        files |-> FilesChanged(seen), session |-> session]
    BY <1>3, <2>1, AnsweredIs DEF AcpFailure, GoTo, Fail, NoResult, wireVars, history
  <2>3. /\ result'.files = FilesChanged(seen) /\ result'.session = session
        /\ result'.verdict = "success" => ~denied
    BY <2>2
  <2>4. edits \subseteq FilesChanged(seen)
    BY <2>2 DEF AheadInv, IsEdit, FilesChanged
  <2>5. ~loadLost => \A n \in FilesChanged(seen) : n.session = session /\ n \in edits
    BY <2>2 DEF ReplayInv, IsEdit, FilesChanged
  <2> QED  BY <2>2, <2>3, <2>4, <2>5 DEF EditsReported, DeniedIsNoSuccess, OwnUpdates
<1> QED  BY <1>1, <1>2, <1>3

LEMMA InitInv == Init => Inv
<1> SUFFICES ASSUME Init PROVE Inv
  OBVIOUS
<1> USE BoundsAssumption DEF Init, NoResult
<1>1. TypeOK
  <2>1. ClientType
    <3>1. 0 \in 0..Past /\ Past \in 0..Past /\ 0 \in 0..MaxRuns
      BY DEF Past
    <3>2. result.verdict = "none" /\ cur \in Methods /\ dropped \subseteq Sessions
      BY DEF Methods
    <3> QED  BY <3>1, <3>2 DEF ClientType
  <2>2. WireType
    BY DEF WireType, Futures
  <2>3. AgentType
    BY DEF AgentType, Past, Sessions
  <2> QED  BY <2>1, <2>2, <2>3, TypeParts
<1>2. CallInv /\ ResultInv /\ WireInv /\ EndInv /\ NothingLeftBehind
  BY DEF CallInv, ResultInv, WireInv, EndInv, NothingLeftBehind, Later, Methods, Closing
<1>3. AheadInv /\ ReplayInv
  BY DEF AheadInv, ReplayInv, Methods
<1>4. StoredInv
  BY DEF StoredInv, Past, Closing
<1>5. AskInv
  <2>1. [i \in 0..0 |-> 0] \in [0..0 -> 0..0] /\ Len(out) = 0 /\ DOMAIN out = {}
    OBVIOUS
  <2>2. Counts([i \in 0..0 |-> 0])
    BY <2>1 DEF Counts
  <2> QED  BY <2>1, <2>2 DEF AskInv
<1>6. EditsReported /\ DeniedIsNoSuccess /\ OwnUpdates
  BY DEF EditsReported, DeniedIsNoSuccess, OwnUpdates
<1> QED  BY <1>1, <1>2, <1>3, <1>4, <1>5, <1>6 DEF Inv

THEOREM InvCorrect == Spec => []Inv
<1>1. ASSUME Inv, [Next]_vars PROVE Inv'
  <2>1. TypeOK'
    BY <1>1, ClientTypeStep, WireTypeStep, AgentTypeStep DEF Inv, TypeOK, ClientType, WireType, AgentType
  <2> QED  BY <1>1, <2>1, CallStep, ResultStep, WireStep, EndStep, AheadStep, ReplayStep, StoredStep, AskStep, HonestStep DEF Inv
<1> QED  BY InitInv, <1>1, PTL DEF Spec

(* _handle_response routes by id: however late an answer comes, and whatever  *)
(* timed out before it, a call is told its own answer or none.               *)
THEOREM AnswerCorrect == Spec => []OwnAnswer
<1>1. Inv => OwnAnswer
  BY DEF Inv, WireInv, ResponseAt, OwnAnswer
<1> QED  BY InvCorrect, <1>1, PTL

(* AcpConnection.close leaves no process, no read loop and no waiting call,    *)
(* wherever the run was when it came to it.                                 *)
THEOREM CloseCorrect == Spec => []NothingLeftBehind
<1>1. Inv => NothingLeftBehind
  BY DEF Inv
<1> QED  BY InvCorrect, <1>1, PTL

(* AcpRunner.run: a success reports every edit of its prompt and, unless a    *)
(* session/load timed out, nothing else; it was refused nothing; and a session *)
(* that could not be loaded is not tried again.                             *)
THEOREM ResultCorrect == Spec => []HonestResult
<1>1. Inv => HonestResult
  BY DEF Inv, HonestResult, StoredInv, NotTriedTwice, Closing
<1> QED  BY InvCorrect, <1>1, PTL

(* No future is resolved twice, by an answer, a timeout or the end of the     *)
(* connection (`if not future.done()`).                                     *)
THEOREM OutcomeCorrect == Spec => OneOutcome
<1>1. ASSUME Inv, [Next]_vars
      PROVE  [\A m \in Methods : fut[m] \notin Unresolved => fut'[m] = fut[m] \/ runs' # runs]_vars
  <2> USE <1>1 DEF Inv, Unresolved
  <2>1. CASE Start
    BY <2>1 DEF Start, TypeOK
  <2>2. CASE Call
    BY <2>2 DEF Call, CallInv, TypeOK
  <2>3. CASE Read
    BY <2>3, SettledIs DEF ReaderStep
  <2>4. CASE (\E m \in Methods : AgentAnswer(m)) \/ AgentUpdate \/ AgentAsk
    BY <2>4 DEF AgentAnswer, AgentUpdate, AgentAsk, wireVars
  <2>5. CASE Quiet
    BY <2>5 DEF Quiet
  <2>6. CASE Drained
    BY <2>6 DEF Drained, wireVars
  <2> QED  BY <2>1, <2>2, <2>3, <2>4, <2>5, <2>6, QuietSteps
<1> QED  BY InvCorrect, <1>1, PTL DEF Spec, OneOutcome
=============================================================================
