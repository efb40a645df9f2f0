-------------------------------- MODULE Store --------------------------------
(***************************************************************************)
(* The Python store: one SQLite connection shared by all coroutines, and the *)
(* push of committed events to the clients (execution/persistence.py,       *)
(* api/websocket.py, the shutdown in api/app.py).                           *)
(*                                                                         *)
(* A worker thread executes what the coroutines queue, in order; a statement *)
(* whose coroutine was cancelled is executed all the same.  A write opens a  *)
(* transaction if none is open, and a commit commits whatever the connection *)
(* has written since the last one.  An operation is a number; `mem` is what *)
(* the connection sees, `disk` what a restart would find.                    *)
(***************************************************************************)
EXTENDS Naturals, Sequences, FiniteSets

CONSTANTS Clients,     \* the coroutines that write: a run, a route, the probe
          Sockets,     \* websocket connections
          Sessions, SessionOf, \* the id each one connects to, /ws/{session_id}
          MaxOps,      \* operations begun
          MaxCrashes, MaxFailures, MaxCancels

ASSUME SocketsAssumption == SessionOf \in [Sockets -> Sessions]
ASSUME OpsAssumption == MaxOps \in Nat /\ MaxCrashes \in Nat /\ MaxFailures \in Nat /\ MaxCancels \in Nat

None == "none"
ASSUME NoneAssumption == None \notin Clients \cup Sockets
Kinds == {"transition", "save", "append"}

(* _transaction writes a row and its event, _execute one of them; then comes *)
(* the commit.                                                              *)
Statements(kind) ==
  CASE kind = "transition" -> <<"row", "event", "commit">>
    [] kind = "save" -> <<"row", "commit">>
    [] kind = "append" -> <<"event", "commit">>

VARIABLES
  kind,      \* the operations begun: a sequence of kinds
  op,        \* the operation a client is in, 0 for none
  pc,        \* where the client stands in it
  at,        \* its statement
  lock,      \* Persistence._lock
  queue,     \* the worker's queue: statements with their operation
  mem, disk, \* rows written and events logged, as sets of operations
  unsent,    \* the sockets broadcast has still to send to
  table,     \* ConnectionManager._connections
  sock,      \* each socket as its client sees it
  got,       \* the events each socket received
  published, \* history: operations whose event was handed to the listeners
  owed,      \* history: the sockets it was owed to
  failed,    \* history: operations whose caller was told they failed
  loose,     \* history: operations cancelled inside the transaction
  unsure,    \* history: operations whose commit failed
  replaced,  \* history: sockets whose entry another socket took over
  faults     \* crashes, failures and cancellations so far

callVars == <<op, pc, at, lock, queue>>
dataVars == <<mem, disk>>
sockVars == <<table, sock, got>>
pubVars == <<unsent, published, owed>>
history == <<failed, loose, unsure, replaced>>
vars == <<kind, callVars, dataVars, sockVars, pubVars, history, faults>>

Ops == 1..MaxOps
Begun == 1..Len(kind)
Content == [rows : SUBSET Ops, events : SUBSET Ops]
Labels == {"idle", "lock", "issue", "wait", "rollback", "rolling", "publish"}

TypeOK ==
  /\ kind \in Seq(Kinds) /\ Len(kind) <= MaxOps
  /\ op \in [Clients -> 0..Len(kind)] /\ pc \in [Clients -> Labels]
  /\ at \in [Clients -> 1..3]
  /\ \A c \in Clients : op[c] # 0 => at[c] <= Len(Statements(kind[op[c]]))
  /\ lock \in Clients \cup {None}
  /\ queue \in Seq([op : Ops, do : {"row", "event", "commit", "rollback"}])
  /\ mem \in Content /\ disk \in Content
  /\ unsent \in [Clients -> SUBSET Sockets]
  /\ table \in [Sessions -> Sockets \cup {None}]
  /\ sock \in [Sockets -> {"new", "open", "dropped", "gone"}]
  /\ got \in [Sockets -> SUBSET Ops] /\ owed \in [Ops -> SUBSET Sockets]
  /\ published \subseteq Ops /\ failed \subseteq Ops /\ loose \subseteq Ops /\ unsure \subseteq Ops
  /\ replaced \subseteq Sockets
  /\ faults \in [crash : 0..MaxCrashes, failure : 0..MaxFailures, cancel : 0..MaxCancels]

Empty == [rows |-> {}, events |-> {}]
Init ==
  /\ kind = <<>> /\ op = [c \in Clients |-> 0] /\ pc = [c \in Clients |-> "idle"]
  /\ at = [c \in Clients |-> 1] /\ lock = None /\ queue = <<>>
  /\ mem = Empty /\ disk = Empty
  /\ unsent = [c \in Clients |-> {}] /\ published = {} /\ owed = [n \in Ops |-> {}]
  /\ table = [s \in Sessions |-> None] /\ sock = [w \in Sockets |-> "new"]
  /\ got = [w \in Sockets |-> {}]
  /\ failed = {} /\ loose = {} /\ unsure = {} /\ replaced = {}
  /\ faults = [crash |-> 0, failure |-> 0, cancel |-> 0]

KindOf(c) == kind[op[c]]
Program(c) == Statements(KindOf(c))
Goto(c, label) == pc' = [pc EXCEPT ![c] = label]
Unlock(c) == lock' = IF lock = c THEN None ELSE lock

----------------------------------------------------------------------------
(* Persistence.                                                             *)
Begin(c) ==
  /\ pc[c] = "idle" /\ Len(kind) < MaxOps
  /\ \E k \in Kinds : kind' = Append(kind, k)
  /\ op' = [op EXCEPT ![c] = Len(kind')] /\ at' = [at EXCEPT ![c] = 1]
  /\ Goto(c, "lock")
  /\ UNCHANGED <<lock, queue, dataVars, sockVars, pubVars, history, faults>>

(* Mutant: the statements are queued without the lock.                      *)
AcquireNothing(c) ==
  /\ pc[c] = "lock" /\ Goto(c, "issue")
  /\ UNCHANGED <<kind, op, at, lock, queue, dataVars, sockVars, pubVars, history, faults>>

Acquire(c) ==
  /\ pc[c] = "lock" /\ lock = None /\ lock' = c /\ Goto(c, "issue")
  /\ UNCHANGED <<kind, op, at, queue, dataVars, sockVars, pubVars, history, faults>>

Issue(c) ==
  /\ \/ pc[c] = "issue" /\ Goto(c, "wait")
        /\ queue' = Append(queue, [op |-> op[c], do |-> Program(c)[at[c]]])
     \/ pc[c] = "rollback" /\ Goto(c, "rolling")
        /\ queue' = Append(queue, [op |-> op[c], do |-> "rollback"])
  /\ UNCHANGED <<kind, op, at, lock, dataVars, sockVars, pubVars, history, faults>>

(* What the worker does to the connection.                                  *)
Execute(s) ==
  CASE s.do = "row" -> mem' = [mem EXCEPT !.rows = @ \cup {s.op}] /\ UNCHANGED disk
    [] s.do = "event" -> mem' = [mem EXCEPT !.events = @ \cup {s.op}] /\ UNCHANGED disk
    [] s.do = "commit" -> disk' = mem /\ UNCHANGED mem
    [] s.do = "rollback" -> mem' = disk /\ UNCHANGED disk

HasEvent(c) == KindOf(c) # "save"

(* Mutant: the listeners hear of the event before the commit.               *)
AdvancePublished(c) ==
  IF at[c] < Len(Program(c))
    THEN /\ at' = [at EXCEPT ![c] = @ + 1] /\ Goto(c, "issue")
         /\ published' = IF Program(c)[at[c]] = "event" THEN published \cup {op[c]} ELSE published
         /\ UNCHANGED <<op, lock, unsent, owed>>
    ELSE Unlock(c) /\ UNCHANGED <<at, pubVars>> /\ Goto(c, "idle") /\ op' = [op EXCEPT ![c] = 0]

(* Mutant: the position runs past the last statement.                       *)
AdvanceStuck(c) == /\ at' = [at EXCEPT ![c] = @ + 1] /\ Goto(c, "issue")
                   /\ UNCHANGED <<op, lock, pubVars>>

(* The coroutine goes on: to the next statement, or out of the lock and to   *)
(* _publish, where the listener takes a copy of the connections.             *)
Advance(c) ==
  IF at[c] < Len(Program(c))
    THEN /\ at' = [at EXCEPT ![c] = @ + 1] /\ Goto(c, "issue")
         /\ UNCHANGED <<op, lock, pubVars>>
    ELSE /\ Unlock(c) /\ UNCHANGED at
         /\ IF HasEvent(c)
            THEN LET open == {table[s] : s \in Sessions} \ {None} IN
                 /\ Goto(c, "publish") /\ UNCHANGED op
                 /\ unsent' = [unsent EXCEPT ![c] = open]
                 /\ published' = published \cup {op[c]}
                 /\ owed' = [owed EXCEPT ![op[c]] = open]
            ELSE /\ Goto(c, "idle") /\ op' = [op EXCEPT ![c] = 0] /\ UNCHANGED pubVars

(* Waiting(n): the client that awaits operation n, if it was not cancelled.  *)
Waiting(n) == {c \in Clients : op[c] = n /\ pc[c] \in {"wait", "rolling"}}

Leave(c) == Goto(c, "idle") /\ op' = [op EXCEPT ![c] = 0] /\ Unlock(c)

Succeed ==
  /\ queue # <<>> /\ queue' = Tail(queue)
  /\ Execute(Head(queue))
  /\ \/ /\ Waiting(Head(queue).op) = {} /\ UNCHANGED <<op, pc, at, lock, pubVars, failed>>
     \/ \E c \in Waiting(Head(queue).op) :
          \/ pc[c] = "wait" /\ Advance(c) /\ UNCHANGED failed
          \/ pc[c] = "rolling" /\ Leave(c) /\ failed' = failed \cup {op[c]}
             /\ UNCHANGED <<at, pubVars>>
  /\ UNCHANGED <<kind, sockVars, loose, unsure, replaced, faults>>

(* Mutant: the exception leaves the transaction open.                       *)
AfterFailureNothing(c, do) == Leave(c) /\ failed' = failed \cup {op[c]} /\ UNCHANGED unsure

(* Mutant: the failed caller keeps the lock.                                *)
AfterFailureLocked(c, do) ==
  IF KindOf(c) = "transition" /\ do # "commit"
  THEN Goto(c, "rollback") /\ UNCHANGED <<op, lock, failed, unsure>>
  ELSE /\ Goto(c, "idle") /\ op' = [op EXCEPT ![c] = 0] /\ failed' = failed \cup {op[c]}
       /\ unsure' = IF do = "commit" THEN unsure \cup {op[c]} ELSE unsure
       /\ UNCHANGED lock

(* Only _transaction rolls back, and not when it is the commit that failed.  *)
AfterFailure(c, do) ==
  IF KindOf(c) = "transition" /\ do # "commit"
  THEN Goto(c, "rollback") /\ UNCHANGED <<op, lock, failed, unsure>>
  ELSE /\ Leave(c) /\ failed' = failed \cup {op[c]}
       /\ unsure' = IF do = "commit" THEN unsure \cup {op[c]} ELSE unsure

(* A statement fails: nothing is written and the exception goes to its        *)
(* coroutine, if that still waits.                                          *)
FailStatement ==
  /\ queue # <<>> /\ Head(queue).do # "rollback" /\ queue' = Tail(queue)
  /\ faults.failure < MaxFailures /\ faults' = [faults EXCEPT !.failure = @ + 1]
  /\ \/ Waiting(Head(queue).op) = {} /\ UNCHANGED <<op, pc, lock, failed, unsure>>
     \/ \E c \in Waiting(Head(queue).op) : AfterFailure(c, Head(queue).do)
  /\ UNCHANGED <<kind, at, dataVars, sockVars, pubVars, loose, replaced>>

(* A cancelled coroutine (a shutdown, harness.cancel_task) leaves at its next *)
(* await; the lock is released and CancelledError is not an Exception, so     *)
(* nothing is rolled back.  While it waits for the lock nothing has happened. *)
Cancel(c) ==
  /\ pc[c] \notin {"idle"}
  /\ faults.cancel < MaxCancels /\ faults' = [faults EXCEPT !.cancel = @ + 1]
  /\ loose' = IF pc[c] \in {"issue", "wait", "rollback", "rolling"}
              THEN loose \cup {op[c]} ELSE loose
  /\ Leave(c) /\ unsent' = [unsent EXCEPT ![c] = {}]
  /\ owed' = [owed EXCEPT ![op[c]] = {}]
  /\ UNCHANGED <<kind, at, queue, dataVars, sockVars, published, failed, unsure, replaced>>

----------------------------------------------------------------------------
(* ConnectionManager: broadcast sends to its copy one by one; a send that     *)
(* fails removes the entry of that session.                                 *)
Entry(s, w) == [table EXCEPT ![s] = w]
IsOpen(w) == sock[w] = "open"

(* Mutant: a dead socket ends the broadcast.                                *)
BroadcastOneOrStop(c, w) ==
  /\ unsent' = [unsent EXCEPT ![c] = IF IsOpen(w) THEN @ \ {w} ELSE {}]
  /\ IF IsOpen(w) THEN got' = [got EXCEPT ![w] = @ \cup {op[c]}] /\ UNCHANGED table
                  ELSE table' = Entry(SessionOf[w], None) /\ UNCHANGED got

BroadcastOne(c, w) ==
  /\ unsent' = [unsent EXCEPT ![c] = @ \ {w}]
  /\ IF IsOpen(w) THEN got' = [got EXCEPT ![w] = @ \cup {op[c]}] /\ UNCHANGED table
                  ELSE table' = Entry(SessionOf[w], None) /\ UNCHANGED got

Publish(c) ==
  /\ pc[c] = "publish"
  /\ \/ /\ \E w \in unsent[c] : BroadcastOne(c, w)
        /\ UNCHANGED <<op, pc, lock>>
     \/ unsent[c] = {} /\ Leave(c) /\ UNCHANGED <<unsent, table, got>>
  /\ UNCHANGED <<kind, at, queue, dataVars, sock, published, owed, history, faults>>

(* ag_ui_socket: connect, and the end of the handler, which removes the entry *)
(* of the session whoever holds it.                                         *)
Connect(w) ==
  /\ sock[w] = "new" /\ sock' = [sock EXCEPT ![w] = "open"]
  /\ table' = Entry(SessionOf[w], w)
  /\ replaced' = replaced \cup ({table[SessionOf[w]]} \ {None})
  /\ UNCHANGED <<kind, callVars, dataVars, got, pubVars, failed, loose, unsure, faults>>

(* The client goes away; the server learns of it later.                     *)
Drop(w) ==
  /\ IsOpen(w) /\ sock' = [sock EXCEPT ![w] = "dropped"]
  /\ UNCHANGED <<kind, callVars, dataVars, table, got, pubVars, history, faults>>

Disconnect(w) ==
  /\ sock[w] = "dropped" /\ sock' = [sock EXCEPT ![w] = "gone"]
  /\ table' = Entry(SessionOf[w], None)
  /\ UNCHANGED <<kind, callVars, dataVars, got, pubVars, history, faults>>

(* The process dies: what was not committed is gone.                        *)
Crash ==
  /\ faults.crash < MaxCrashes /\ faults' = [faults EXCEPT !.crash = @ + 1]
  /\ op' = [c \in Clients |-> 0] /\ pc' = [c \in Clients |-> "idle"] /\ lock' = None
  /\ queue' = <<>> /\ mem' = disk
  /\ unsent' = [c \in Clients |-> {}] /\ owed' = [n \in Ops |-> {}]
  /\ table' = [s \in Sessions |-> None]
  /\ sock' = [w \in Sockets |-> IF sock[w] = "new" THEN "new" ELSE "gone"]
  /\ UNCHANGED <<kind, at, disk, got, published, history>>

ClientStep(c) == Acquire(c) \/ Issue(c) \/ Publish(c)
Next ==
  \/ \E c \in Clients : Begin(c) \/ ClientStep(c) \/ Cancel(c)
  \/ Succeed \/ FailStatement \/ Crash
  \/ \E w \in Sockets : Connect(w) \/ Drop(w) \/ Disconnect(w)

(* asyncio.Lock wakes its waiters in order and the worker drains its queue.   *)
Spec == /\ Init /\ [][Next]_vars /\ WF_vars(Succeed)
        /\ \A c \in Clients : SF_vars(Acquire(c)) /\ WF_vars(Issue(c)) /\ WF_vars(Publish(c))

----------------------------------------------------------------------------
Transitions == {n \in Begun : kind[n] = "transition"}

(* "Either both the row and the event land, or neither does": what a restart  *)
(* finds explains itself (record_run_transition, _transaction).  Stated for   *)
(* all transitions; a cancellation inside the transaction breaks it.         *)
TransitionAtomic == \A n \in Transitions : n \in disk.rows <=> n \in disk.events

(* The same for the transitions nobody cancelled inside the transaction,      *)
(* whatever failed, crashed or was cancelled around them.                    *)
UncancelledAtomic ==
  \A n \in Transitions \ loose : n \in disk.rows <=> n \in disk.events

(* Listeners run after the commit: a client is never shown an event that a    *)
(* crash could take back (_publish, broadcast_domain_event).                 *)
PublishedIsDurable ==
  /\ published \subseteq disk.events
  /\ \A w \in Sockets : got[w] \subseteq disk.events

(* A caller that was told its operation failed does not find it in the store  *)
(* later, carried there by the commit of another.  A failed commit and a      *)
(* cancellation are the exceptions.                                          *)
FailedStaysOut ==
  \A n \in failed \ (unsure \cup loose) : n \notin disk.rows \cup disk.events

(* The database holds what its callers and its listeners were told.            *)
StoreIsHonest == TypeOK /\ UncancelledAtomic /\ PublishedIsDurable /\ FailedStaysOut

(* Nobody is kept at the lock: whatever fails or is cancelled inside releases *)
(* it (`async with self._lock`).                                            *)
EveryCallEnds == \A c \in Clients : (pc[c] = "lock") ~> (pc[c] = "idle")

(* A published event has been sent to every connection that was registered    *)
(* when it was published and is still open, dead ones among them or not       *)
(* (ConnectionManager.broadcast).                                           *)
DeliveredToOpen ==
  \A n \in published : (\A c \in Clients : op[c] # n) =>
    \A w \in owed[n] : IsOpen(w) => n \in got[w]

(* "Clients subscribe to a session and receive the run events the backend     *)
(* commits": an open socket that nobody replaced is registered.  A client     *)
(* that reconnects before its old socket is noticed breaks it.               *)
OpenIsRegistered ==
  \A w \in Sockets \ replaced : IsOpen(w) => \E s \in Sessions : table[s] = w
=============================================================================
