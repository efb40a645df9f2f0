----------------------------- MODULE StoreProofs -----------------------------
(***************************************************************************)
(* What Store guarantees for any number of coroutines and sockets: the      *)
(* database holds what its callers and its listeners were told, and a       *)
(* published event reaches every open connection it was owed to.            *)
(***************************************************************************)
EXTENDS Store, SequenceTheorems, TLAPS

Statement == [op : Ops, do : {"row", "event", "commit", "rollback"}]

Faults == [crash : 0..MaxCrashes, failure : 0..MaxFailures, cancel : 0..MaxCancels]

TypeInv ==
  /\ kind \in Seq(Kinds) /\ Len(kind) <= MaxOps
  /\ op \in [Clients -> 0..Len(kind)] /\ pc \in [Clients -> Labels]
  /\ at \in [Clients -> 1..3]
  /\ \A c \in Clients : op[c] # 0 => at[c] <= Len(Statements(kind[op[c]]))
  /\ lock \in Clients \cup {None}
  /\ queue \in Seq(Statement)
  /\ mem \in Content /\ disk \in Content
  /\ unsent \in [Clients -> SUBSET Sockets]
  /\ table \in [Sessions -> Sockets \cup {None}]
  /\ sock \in [Sockets -> {"new", "open", "dropped", "gone"}]
  /\ got \in [Sockets -> SUBSET Ops] /\ owed \in [Ops -> SUBSET Sockets]
  /\ published \in SUBSET Ops /\ failed \in SUBSET Ops
  /\ loose \in SUBSET Ops /\ unsure \in SUBSET Ops /\ replaced \in SUBSET Sockets
  /\ faults \in Faults
  /\ \A c \in Clients : op[c] # 0 <=> pc[c] # "idle"

LEMMA TypeInvIsType == TypeInv => TypeOK
BY DEF TypeInv, TypeOK, Statement, Faults

LEMMA TypeInit == Init => TypeInv
BY OpsAssumption DEF Init, TypeInv, Kinds, Labels, Content, Empty, Faults

(* What an operation does, by its kind.                                    *)
LEMMA Programs ==
  /\ Len(Statements("transition")) = 3 /\ Len(Statements("save")) = 2
  /\ Len(Statements("append")) = 2
  /\ Statements("transition")[1] = "row" /\ Statements("transition")[2] = "event"
  /\ Statements("transition")[3] = "commit"
  /\ Statements("save")[1] = "row" /\ Statements("save")[2] = "commit"
  /\ Statements("append")[1] = "event" /\ Statements("append")[2] = "commit"
BY DEF Statements

(* The worker's queue and the operations grow and shrink at their ends.     *)
LEMMA TailIs ==
  ASSUME NEW S, NEW q \in Seq(S), q # <<>>
  PROVE  /\ Len(q) \in Nat \ {0} /\ Head(q) = q[1] /\ q[1] \in S
         /\ Tail(q) \in Seq(S) /\ Len(Tail(q)) = Len(q) - 1
         /\ \A i \in 1..(Len(q) - 1) : Tail(q)[i] = q[i + 1]
OBVIOUS

LEMMA AppendIs ==
  ASSUME NEW S, NEW q \in Seq(S), NEW x \in S
  PROVE  /\ Append(q, x) \in Seq(S) /\ Len(q) \in Nat /\ Len(Append(q, x)) = Len(q) + 1
         /\ Append(q, x)[Len(q) + 1] = x
         /\ \A i \in 1..Len(q) : Append(q, x)[i] = q[i]
OBVIOUS

(* An operation in progress has a kind, and its statement is one of its own. *)
LEMMA CurrentStatement ==
  ASSUME TypeInv, NEW c \in Clients, op[c] # 0
  PROVE  /\ op[c] \in 1..Len(kind) /\ op[c] \in Ops /\ KindOf(c) \in Kinds
         /\ Program(c)[at[c]] \in {"row", "event", "commit"}
         /\ at[c] \in 1..Len(Program(c))
<1>1. op[c] \in 1..Len(kind) /\ Len(kind) \in Nat /\ Len(kind) <= MaxOps
  BY DEF TypeInv
<1>2. KindOf(c) \in Kinds
  BY <1>1 DEF TypeInv, KindOf
<1>3. at[c] \in 1..3 /\ at[c] <= Len(Program(c))
  BY DEF TypeInv, Program, KindOf
<1>4. Len(Program(c)) \in Nat /\ at[c] \in 1..Len(Program(c))
  BY <1>2, <1>3, Programs DEF Program, Kinds
<1>5. Program(c)[at[c]] \in {"row", "event", "commit"}
  BY <1>2, <1>4, Programs DEF Program, Kinds
<1> QED  BY <1>1, <1>2, <1>4, <1>5, OpsAssumption DEF Ops

LEMMA ExecuteType ==
  ASSUME TypeInv, NEW s \in Statement, Execute(s)
  PROVE  mem' \in Content /\ disk' \in Content
<1>1. mem \in Content /\ disk \in Content /\ s.op \in Ops
  BY DEF TypeInv, Statement
<1>2. s.do \in {"row", "event", "commit", "rollback"}
  BY DEF Statement
<1>3. /\ [mem EXCEPT !.rows = @ \cup {s.op}] \in Content
      /\ [mem EXCEPT !.events = @ \cup {s.op}] \in Content
  BY <1>1 DEF Content
<1> QED  BY <1>1, <1>2, <1>3 DEF Execute

(* One more fault of a sort.                                               *)
LEMMA FaultsType ==
  ASSUME TypeInv
  PROVE  /\ faults.crash < MaxCrashes => [faults EXCEPT !.crash = @ + 1] \in Faults
         /\ faults.failure < MaxFailures => [faults EXCEPT !.failure = @ + 1] \in Faults
         /\ faults.cancel < MaxCancels => [faults EXCEPT !.cancel = @ + 1] \in Faults
<1>1. faults \in Faults
  BY DEF TypeInv
<1> QED  BY <1>1, OpsAssumption DEF Faults

(* A client that goes on keeps the types, whether it was answered or failed. *)
LEMMA AdvanceType ==
  ASSUME TypeInv, NEW c \in Clients, op[c] # 0, Advance(c), UNCHANGED kind
  PROVE  /\ op' \in [Clients -> 0..Len(kind)] /\ pc' \in [Clients -> Labels]
         /\ at' \in [Clients -> 1..3] /\ lock' \in Clients \cup {None}
         /\ \A d \in Clients : op'[d] # 0 => at'[d] <= Len(Statements(kind[op'[d]]))
         /\ unsent' \in [Clients -> SUBSET Sockets] /\ owed' \in [Ops -> SUBSET Sockets]
         /\ published' \in SUBSET Ops
         /\ \A d \in Clients : op'[d] # 0 <=> pc'[d] # "idle"
<1>1. /\ op[c] \in Ops /\ at[c] \in 1..Len(Program(c)) /\ KindOf(c) \in Kinds
  BY CurrentStatement
<1>2. Len(Program(c)) \in 1..3
  BY <1>1, Programs DEF Program, Kinds
<1>3. CASE at[c] < Len(Program(c))
  <2>1. /\ at' = [at EXCEPT ![c] = at[c] + 1] /\ pc' = [pc EXCEPT ![c] = "issue"]
        /\ UNCHANGED <<op, lock, pubVars>>
    BY <1>3 DEF Advance, Goto
  <2>2. at[c] + 1 \in 1..3 /\ at[c] + 1 <= Len(Statements(kind[op[c]]))
    <3>1. at[c] \in Nat /\ Len(Program(c)) \in 1..3 /\ at[c] < Len(Program(c)) /\ at[c] >= 1
      BY <1>1, <1>2, <1>3 DEF TypeInv
    <3>2. \A n \in 1..3, m \in Nat : m < n /\ m >= 1 => m + 1 \in 1..3 /\ m + 1 <= n
      OBVIOUS
    <3>3. at[c] + 1 \in 1..3 /\ at[c] + 1 <= Len(Program(c))
      BY <3>1, <3>2
    <3> QED  BY <3>3 DEF Program, KindOf
  <2>3. at' \in [Clients -> 1..3] /\ pc' \in [Clients -> Labels]
    BY <2>1, <2>2 DEF TypeInv, Labels
  <2>4. \A d \in Clients : op'[d] # 0 => at'[d] <= Len(Statements(kind[op'[d]]))
    BY <2>1, <2>2 DEF TypeInv
  <2> QED  BY <2>1, <2>3, <2>4 DEF TypeInv, pubVars
<1>4. CASE ~(at[c] < Len(Program(c)))
  <2>1. {table[s] : s \in Sessions} \ {None} \in SUBSET Sockets
    BY DEF TypeInv
  <2>2. Unlock(c) /\ UNCHANGED at /\ lock' \in Clients \cup {None}
    BY <1>4 DEF Advance, Unlock, TypeInv
  <2>3. CASE HasEvent(c)
    <3>1. /\ pc' = [pc EXCEPT ![c] = "publish"] /\ UNCHANGED op
          /\ unsent' = [unsent EXCEPT ![c] = {table[s] : s \in Sessions} \ {None}]
          /\ published' = published \cup {op[c]}
          /\ owed' = [owed EXCEPT ![op[c]] = {table[s] : s \in Sessions} \ {None}]
      BY <1>4, <2>3 DEF Advance, Goto
    <3>2. unsent' \in [Clients -> SUBSET Sockets] /\ owed' \in [Ops -> SUBSET Sockets]
      BY <1>1, <2>1, <3>1 DEF TypeInv
    <3> QED  BY <1>1, <2>2, <3>1, <3>2 DEF TypeInv, Labels
  <2>4. CASE ~HasEvent(c)
    <3>1. /\ pc' = [pc EXCEPT ![c] = "idle"] /\ op' = [op EXCEPT ![c] = 0]
          /\ UNCHANGED pubVars
      BY <1>4, <2>4 DEF Advance, Goto
    <3> QED  BY <2>2, <3>1 DEF TypeInv, Labels, pubVars
  <2> QED  BY <2>3, <2>4
<1> QED  BY <1>3, <1>4

LEMMA LeaveType ==
  ASSUME TypeInv, NEW c \in Clients, Leave(c)
  PROVE  /\ op' \in [Clients -> 0..Len(kind)] /\ pc' \in [Clients -> Labels]
         /\ lock' \in Clients \cup {None}
         /\ \A d \in Clients : op'[d] = op[d] \/ op'[d] = 0
         /\ \A d \in Clients : op'[d] # 0 <=> pc'[d] # "idle"
BY DEF TypeInv, Leave, Goto, Unlock, Labels

LEMMA TypeStep == TypeInv /\ [Next]_vars => TypeInv'
<1> SUFFICES ASSUME TypeInv, [Next]_vars PROVE TypeInv'
  OBVIOUS
<1> USE DEF callVars, dataVars, sockVars, pubVars, history
<1>1. ASSUME NEW c \in Clients, Begin(c) PROVE TypeInv'
  <2>1. PICK k \in Kinds : kind' = Append(kind, k)
    BY <1>1 DEF Begin
  <2>2. /\ kind' \in Seq(Kinds) /\ Len(kind') = Len(kind) + 1 /\ Len(kind) \in Nat
        /\ \A n \in 1..Len(kind) : kind'[n] = kind[n]
        /\ kind'[Len(kind) + 1] \in Kinds
    BY <2>1, AppendIs DEF TypeInv
  <2>3. Len(kind') <= MaxOps
    BY <1>1, <2>2, OpsAssumption DEF Begin
  <2>4. /\ op' \in [Clients -> 0..Len(kind')] /\ at' \in [Clients -> 1..3]
        /\ pc' \in [Clients -> Labels]
    BY <1>1, <2>2 DEF Begin, Goto, TypeInv, Labels
  <2>5. ASSUME NEW d \in Clients, op'[d] # 0
        PROVE  at'[d] <= Len(Statements(kind'[op'[d]]))
    <3>1. CASE d = c
      <4>1. at'[d] = 1 /\ op'[d] = Len(kind) + 1
        BY <1>1, <2>2, <3>1 DEF Begin, TypeInv
      <4> QED  BY <4>1, <2>2, Programs DEF Kinds
    <3>2. CASE d # c
      <4>1. at'[d] = at[d] /\ op'[d] = op[d] /\ op[d] \in 1..Len(kind)
        BY <1>1, <2>5, <3>2 DEF Begin, TypeInv
      <4> QED  BY <4>1, <2>2, <2>5 DEF TypeInv
    <3> QED  BY <3>1, <3>2
  <2>6. \A d \in Clients : op'[d] # 0 <=> pc'[d] # "idle"
    BY <1>1, <2>2 DEF Begin, Goto, TypeInv
  <2> QED  BY <1>1, <2>2, <2>3, <2>4, <2>5, <2>6 DEF Begin, TypeInv
<1>2. ASSUME NEW c \in Clients, Acquire(c) PROVE TypeInv'
  BY <1>2 DEF Acquire, Goto, TypeInv, Labels
<1>3. ASSUME NEW c \in Clients, Issue(c) PROVE TypeInv'
  <2>0. op[c] # 0
    BY <1>3 DEF Issue, TypeInv
  <2>1. [op |-> op[c], do |-> Program(c)[at[c]]] \in Statement
        /\ [op |-> op[c], do |-> "rollback"] \in Statement
    BY <2>0, CurrentStatement DEF Statement
  <2>2. queue \in Seq(Statement)
    BY DEF TypeInv
  <2>3. queue' \in Seq(Statement)
    BY <1>3, <2>1, <2>2, AppendIs DEF Issue
  <2>4. /\ pc' \in [Clients -> Labels]
        /\ \A d \in Clients : pc'[d] = "idle" <=> pc[d] = "idle"
    BY <1>3 DEF Issue, Goto, TypeInv, Labels
  <2> QED  BY <1>3, <2>3, <2>4 DEF Issue, TypeInv
<1>4. CASE Succeed
  <2>1. Head(queue) \in Statement /\ queue' \in Seq(Statement)
    BY <1>4, TailIs DEF Succeed, TypeInv
  <2>2. mem' \in Content /\ disk' \in Content
    BY <1>4, <2>1, ExecuteType DEF Succeed
  <2>3. \A c \in Waiting(Head(queue).op) : c \in Clients /\ op[c] \in Ops /\ op[c] # 0
    BY <2>1, OpsAssumption DEF Waiting, Statement, Ops
  <2>4. CASE UNCHANGED <<op, pc, at, lock, pubVars, failed>>
    BY <1>4, <2>1, <2>2, <2>4 DEF Succeed, TypeInv
  <2>5. ASSUME NEW c \in Waiting(Head(queue).op), Advance(c), UNCHANGED failed PROVE TypeInv'
    BY <1>4, <2>1, <2>2, <2>3, <2>5, AdvanceType DEF Succeed, TypeInv
  <2>6. ASSUME NEW c \in Waiting(Head(queue).op), Leave(c), failed' = failed \cup {op[c]},
               UNCHANGED <<at, pubVars>>
        PROVE  TypeInv'
    BY <1>4, <2>1, <2>2, <2>3, <2>6, LeaveType DEF Succeed, TypeInv
  <2> QED  BY <1>4, <2>4, <2>5, <2>6 DEF Succeed
<1>5. CASE FailStatement
  <2>1. Head(queue) \in Statement /\ queue' \in Seq(Statement)
    BY <1>5, TailIs DEF FailStatement, TypeInv
  <2>2. faults' \in Faults
    BY <1>5, FaultsType DEF FailStatement
  <2>3. \A c \in Waiting(Head(queue).op) : c \in Clients /\ op[c] \in Ops
    BY <2>1 DEF Waiting, Statement
  <2>4. CASE UNCHANGED <<op, pc, lock, failed, unsure>>
    BY <1>5, <2>1, <2>2, <2>4 DEF FailStatement, TypeInv
  <2>5. ASSUME NEW c \in Waiting(Head(queue).op), AfterFailure(c, Head(queue).do) PROVE TypeInv'
    <3>1. CASE Goto(c, "rollback") /\ UNCHANGED <<op, lock, failed, unsure>>
      <4>1. pc' \in [Clients -> Labels] /\ pc[c] # "idle" /\ pc' = [pc EXCEPT ![c] = "rollback"]
        BY <3>1 DEF Goto, Labels, TypeInv, Waiting
      <4>2. \A d \in Clients : op'[d] # 0 <=> pc'[d] # "idle"
        BY <3>1, <4>1 DEF TypeInv
      <4> QED  BY <1>5, <2>1, <2>2, <3>1, <4>1, <4>2 DEF FailStatement, TypeInv
    <3>2. CASE /\ Leave(c) /\ failed' = failed \cup {op[c]}
               /\ unsure' \in {unsure, unsure \cup {op[c]}}
      BY <1>5, <2>1, <2>2, <2>3, <3>2, LeaveType DEF FailStatement, TypeInv
    <3> QED  BY <2>5, <3>1, <3>2 DEF AfterFailure
  <2> QED  BY <1>5, <2>4, <2>5 DEF FailStatement
<1>6. ASSUME NEW c \in Clients, Cancel(c) PROVE TypeInv'
  <2>1. op[c] \in Ops
    BY <1>6, CurrentStatement DEF Cancel, TypeInv
  <2>2. faults' \in Faults
    BY <1>6, FaultsType DEF Cancel
  <2>3. loose' \in SUBSET Ops
    BY <1>6, <2>1 DEF Cancel, TypeInv
  <2>4. owed' \in [Ops -> SUBSET Sockets] /\ unsent' \in [Clients -> SUBSET Sockets]
    BY <1>6 DEF Cancel, TypeInv
  <2>5. Leave(c)
    BY <1>6 DEF Cancel
  <2> QED  BY <1>6, <2>2, <2>3, <2>4, <2>5, LeaveType DEF Cancel, TypeInv
<1>7. ASSUME NEW c \in Clients, Publish(c) PROVE TypeInv'
  <2>1. ASSUME NEW w \in unsent[c], BroadcastOne(c, w), UNCHANGED <<op, pc, lock>> PROVE TypeInv'
    <3>1. w \in Sockets /\ op[c] \in Ops
      BY <1>7, <2>1, CurrentStatement DEF Publish, TypeInv
    <3>2. unsent' \in [Clients -> SUBSET Sockets]
      BY <2>1 DEF BroadcastOne, TypeInv
    <3>3. got' \in [Sockets -> SUBSET Ops]
      <4>1. got \in [Sockets -> SUBSET Ops] /\ got[w] \cup {op[c]} \in SUBSET Ops
        BY <3>1 DEF TypeInv
      <4>2. got' = [got EXCEPT ![w] = got[w] \cup {op[c]}] \/ got' = got
        BY <2>1 DEF BroadcastOne
      <4> QED  BY <4>1, <4>2
    <3>4. table' \in [Sessions -> Sockets \cup {None}]
      BY <2>1 DEF BroadcastOne, Entry, TypeInv
    <3> QED  BY <1>7, <2>1, <3>2, <3>3, <3>4 DEF Publish, TypeInv
  <2>2. CASE Leave(c) /\ UNCHANGED <<unsent, table, got>>
    BY <1>7, <2>2, LeaveType DEF Publish, TypeInv
  <2> QED  BY <1>7, <2>1, <2>2 DEF Publish
<1>8. ASSUME NEW w \in Sockets, Connect(w) PROVE TypeInv'
  BY <1>8, SocketsAssumption DEF Connect, Entry, TypeInv
<1>9. ASSUME NEW w \in Sockets, Drop(w) \/ Disconnect(w) PROVE TypeInv'
  BY <1>9 DEF Drop, Disconnect, Entry, TypeInv
<1>10. CASE Crash
  <2>1. faults' \in Faults
    BY <1>10, FaultsType DEF Crash
  <2> QED  BY <1>10, <2>1 DEF Crash, TypeInv, Labels
<1>11. CASE UNCHANGED vars
  BY <1>11 DEF vars, TypeInv
<1> QED  BY <1>1, <1>2, <1>3, <1>4, <1>5, <1>6, <1>7, <1>8, <1>9, <1>10, <1>11
         DEF Next, ClientStep

----------------------------------------------------------------------------
(* The lock, the queue and the operations *)

(* The steps a client makes while it holds the lock.                        *)
Inside == {"issue", "wait", "rollback", "rolling"}

(* The lock has one holder.  What is in the queue ahead of its statement was   *)
(* left by cancelled operations, and is gone once its first one has returned. *)
CallInv ==
  /\ \A c, d \in Clients : op[c] = op[d] /\ op[c] # 0 => c = d
  /\ \A c \in Clients : pc[c] \in Inside <=> lock = c
  /\ \A c \in Clients : pc[c] = "lock" => at[c] = 1
  /\ \A c \in Clients : pc[c] \in {"rollback", "rolling"} => KindOf(c) = "transition"
  /\ \A i \in 1..Len(queue) : queue[i].op \in 1..Len(kind)
  /\ \A i \in 1..Len(queue), c \in Clients :
       queue[i].op = op[c] => i = Len(queue) /\ pc[c] \in {"wait", "rolling"}
  /\ \A i \in 1..Len(queue) : (\A c \in Clients : queue[i].op # op[c]) => queue[i].op \in loose
  /\ \A c \in Clients : pc[c] = "wait" =>
       Len(queue) > 0 /\ queue[Len(queue)] = [op |-> op[c], do |-> Program(c)[at[c]]]
  /\ \A c \in Clients : pc[c] = "rolling" =>
       Len(queue) = 1 /\ queue[1] = [op |-> op[c], do |-> "rollback"]
  /\ \A c \in Clients : pc[c] = "rollback" \/ (pc[c] = "issue" /\ at[c] > 1) => Len(queue) = 0
  /\ \A c \in Clients : pc[c] = "wait" /\ at[c] > 1 => Len(queue) = 1

(* What the connection and the disk hold of an operation in progress, of one   *)
(* that failed and of one that is over.                                     *)
DataInv ==
  /\ disk.rows \subseteq mem.rows /\ disk.events \subseteq mem.events
  /\ mem.rows \cup mem.events \subseteq 1..Len(kind)
  /\ \A c \in Clients : pc[c] \in {"lock"} \cup Inside => op[c] \notin disk.rows \cup disk.events
  /\ \A c \in Clients : pc[c] = "lock" \/ (pc[c] \in {"issue", "wait"} /\ at[c] = 1) =>
       op[c] \notin mem.rows \cup mem.events
  /\ \A c \in Clients : pc[c] \in {"issue", "wait"} /\ at[c] > 1 =>
       /\ KindOf(c) = "transition" =>
            op[c] \in mem.rows /\ (at[c] = 3 <=> op[c] \in mem.events)
       /\ KindOf(c) = "append" => op[c] \in mem.events
  /\ \A n \in Transitions \ loose :
       (\A c \in Clients : op[c] = n => pc[c] \notin Inside) => (n \in mem.rows <=> n \in mem.events)
  /\ UncancelledAtomic
  /\ \A n \in failed \ (unsure \cup loose) :
       n \notin mem.rows \cup mem.events /\ \A c \in Clients : op[c] # n
  /\ failed \cup loose \cup unsure \cup published \subseteq 1..Len(kind)

(* A socket that has not connected is known to nobody.  While its client       *)
(* publishes, a socket has the event, is still to get it, or is not open.     *)
DeliverInv ==
  /\ PublishedIsDurable
  /\ \A w \in Sockets : sock[w] = "new" =>
       (\A s \in Sessions : table[s] # w) /\ (\A n \in Ops : w \notin owed[n])
  /\ \A c \in Clients : pc[c] = "publish" => op[c] \in published
  /\ \A n \in published, c \in Clients : op[c] = n =>
       \A w \in owed[n] : IsOpen(w) => n \in got[w] \/ w \in unsent[c]
  /\ DeliveredToOpen

LEMMA SameProgram ==
  ASSUME TypeInv, NEW c \in Clients, op[c] # 0, op'[c] = op[c],
         UNCHANGED kind \/ \E k \in Kinds : kind' = Append(kind, k)
  PROVE  KindOf(c)' = KindOf(c) /\ Program(c)' = Program(c)
<1>1. op[c] \in 1..Len(kind)
  BY CurrentStatement
<1>2. kind'[op[c]] = kind[op[c]]
  BY <1>1, AppendIs DEF TypeInv
<1> QED  BY <1>2 DEF KindOf, Program

(* The statement the worker takes is that of the one client that waits, alone *)
(* in the queue, or it was left by a cancelled operation.                   *)
LEMMA HeadIs ==
  ASSUME TypeInv, CallInv, queue # <<>>
  PROVE  /\ Head(queue) \in Statement /\ Head(queue).op \in 1..Len(kind)
         /\ \A c \in Waiting(Head(queue).op) :
              /\ c \in Clients /\ op[c] # 0 /\ lock = c /\ op[c] = Head(queue).op
              /\ Len(queue) = 1 /\ Tail(queue) = <<>>
              /\ \A d \in Clients : op[d] = op[c] => d = c
              /\ pc[c] = "wait" => Head(queue).do = Program(c)[at[c]]
              /\ pc[c] = "rolling" => Head(queue).do = "rollback"
         /\ Waiting(Head(queue).op) = {} =>
              Head(queue).op \in loose /\ \A c \in Clients : op[c] # Head(queue).op
<1>1. /\ Len(queue) \in Nat \ {0} /\ Head(queue) = queue[1] /\ queue[1] \in Statement
      /\ Tail(queue) \in Seq(Statement) /\ Len(Tail(queue)) = Len(queue) - 1
  BY TailIs DEF TypeInv
<1>2. 1 \in 1..Len(queue)
  BY <1>1
<1>3. Head(queue).op \in 1..Len(kind)
  BY <1>1, <1>2 DEF CallInv
<1>4. ASSUME NEW c \in Waiting(Head(queue).op)
      PROVE  /\ c \in Clients /\ op[c] # 0 /\ lock = c /\ op[c] = Head(queue).op
             /\ Len(queue) = 1 /\ Tail(queue) = <<>>
             /\ \A d \in Clients : op[d] = op[c] => d = c
             /\ pc[c] = "wait" => Head(queue).do = Program(c)[at[c]]
             /\ pc[c] = "rolling" => Head(queue).do = "rollback"
  <2>1. c \in Clients /\ op[c] = Head(queue).op /\ pc[c] \in {"wait", "rolling"}
    BY DEF Waiting
  <2>2. op[c] # 0 /\ lock = c
    BY <2>1 DEF TypeInv, CallInv, Inside
  <2>3. Len(queue) = 1
    BY <1>1, <1>2, <2>1 DEF CallInv
  <2>4. Len(Tail(queue)) = 0
    BY <1>1, <2>3
  <2>e. Tail(queue) = <<>>
    BY <1>1, <2>4, EmptySeq
  <2>5. \A d \in Clients : op[d] = op[c] => d = c
    BY <2>1, <2>2 DEF CallInv
  <2>6. /\ pc[c] = "wait" => Head(queue).do = Program(c)[at[c]]
        /\ pc[c] = "rolling" => Head(queue).do = "rollback"
    BY <1>1, <2>1, <2>3 DEF CallInv
  <2> QED  BY <2>1, <2>2, <2>3, <2>e, <2>5, <2>6
<1>5. Waiting(Head(queue).op) = {} => \A c \in Clients : op[c] # Head(queue).op
  BY <1>1, <1>2 DEF CallInv, Waiting
<1>6. Waiting(Head(queue).op) = {} => Head(queue).op \in loose
  BY ZenonT(60), <1>1, <1>2, <1>5 DEF CallInv
<1> QED  BY <1>1, <1>3, <1>4, <1>5, <1>6

LEMMA CallInit == Init => CallInv
BY NoneAssumption DEF Init, CallInv, Inside

(* Steps of the sockets and of publishing.                                 *)
LEMMA CallQuiet ==
  ASSUME TypeInv, CallInv, UNCHANGED <<kind, op, pc, at, lock, queue>>, loose \subseteq loose'
  PROVE  CallInv'
BY DEF CallInv, KindOf, Program

(* A client leaves: its statement, if one is queued, is left behind.        *)
LEMMA CallLeave ==
  ASSUME TypeInv, CallInv, NEW c \in Clients, Leave(c), UNCHANGED <<kind, at>>,
         \/ UNCHANGED <<queue, loose>> /\ pc[c] \notin {"wait", "rolling"}
         \/ UNCHANGED queue /\ loose' = loose \cup {op[c]}
         \/ queue' = <<>> /\ UNCHANGED loose /\ lock = c
  PROVE  CallInv'
<1>1. /\ \A d \in Clients : op'[d] = IF d = c THEN 0 ELSE op[d]
      /\ \A d \in Clients : pc'[d] = IF d = c THEN "idle" ELSE pc[d]
      /\ lock' = IF lock = c THEN None ELSE lock
  BY DEF Leave, Goto, Unlock, TypeInv
<1>2. \A d \in Clients : d # c => (op[d] # 0 => KindOf(d)' = KindOf(d) /\ Program(d)' = Program(d))
  BY <1>1, SameProgram
<1>3. \A d \in Clients : pc'[d] # "idle" => d # c /\ op[d] # 0 /\ pc'[d] = pc[d] /\ op'[d] = op[d]
  BY <1>1 DEF TypeInv
<1>4. /\ \A d, e \in Clients : op'[d] = op'[e] /\ op'[d] # 0 => d = e
      /\ \A d \in Clients : pc'[d] \in Inside <=> lock' = d
      /\ \A d \in Clients : pc'[d] = "lock" => at'[d] = 1
      /\ \A d \in Clients : pc'[d] \in {"rollback", "rolling"} => KindOf(d)' = "transition"
  BY <1>1, <1>2, <1>3, NoneAssumption DEF CallInv, Inside
<1>5. CASE UNCHANGED queue
  <2>1. \A i \in 1..Len(queue) : queue[i].op \in 1..Len(kind) /\ queue[i].op # 0
    BY DEF CallInv, TypeInv
  <2>2. \A i \in 1..Len(queue), d \in Clients :
          queue[i].op = op'[d] => i = Len(queue) /\ pc'[d] \in {"wait", "rolling"}
    BY <1>1, <2>1 DEF CallInv
  <2>3. \A i \in 1..Len(queue) : (\A d \in Clients : queue[i].op # op'[d]) => queue[i].op \in loose'
    <3> TAKE i \in 1..Len(queue)
    <3> HAVE \A d \in Clients : queue[i].op # op'[d]
    <3>1. CASE queue[i].op = op[c]
      <4>1. pc[c] \in {"wait", "rolling"}
        BY <3>1 DEF CallInv
      <4>2. loose' = loose \cup {op[c]}
        BY <4>1, <1>5
      <4> QED  BY <3>1, <4>2
    <3>2. CASE queue[i].op # op[c]
      <4>1. \A d \in Clients : queue[i].op # op[d]
        BY <1>1, <3>2
      <4>2. loose \subseteq loose'
        OBVIOUS
      <4> QED  BY <4>1, <4>2 DEF CallInv
    <3> QED  BY <3>1, <3>2
  <2>4. /\ \A d \in Clients : pc'[d] = "wait" =>
             Len(queue) > 0 /\ queue[Len(queue)] = [op |-> op'[d], do |-> Program(d)'[at'[d]]]
        /\ \A d \in Clients : pc'[d] = "rolling" =>
             Len(queue) = 1 /\ queue[1] = [op |-> op'[d], do |-> "rollback"]
        /\ \A d \in Clients : pc'[d] = "rollback" \/ (pc'[d] = "issue" /\ at'[d] > 1) =>
             Len(queue) = 0
        /\ \A d \in Clients : pc'[d] = "wait" /\ at'[d] > 1 => Len(queue) = 1
    BY <1>2, <1>3 DEF CallInv
  <2> QED  BY <1>4, <1>5, <2>1, <2>2, <2>3, <2>4 DEF CallInv
<1>6. CASE queue' = <<>> /\ UNCHANGED loose /\ lock = c
  <2>1. \A d \in Clients : pc'[d] \notin Inside
    BY <1>3, <1>6 DEF CallInv, Inside
  <2>2. \A i \in 1..Len(queue') : FALSE
    BY <1>6
  <2> QED  BY <1>4, <1>6, <2>1, <2>2 DEF CallInv, Inside
<1> QED  BY <1>5, <1>6

(* A client goes on inside the lock, with nothing in the queue.             *)
LEMMA CallGoesOn ==
  ASSUME TypeInv, CallInv, NEW c \in Clients, pc[c] \in {"wait", "rolling"},
         Len(queue') = 0, UNCHANGED <<kind, op, lock, loose>>,
         \A d \in Clients : d # c => pc'[d] = pc[d] /\ at'[d] = at[d],
         pc'[c] \in {"issue", "rollback"}, pc'[c] = "rollback" => KindOf(c) = "transition"
  PROVE  CallInv'
<1>1. \A d \in Clients : KindOf(d)' = KindOf(d)
  BY DEF KindOf
<1>2. lock = c /\ \A d \in Clients : pc[d] \in Inside => d = c
  BY DEF CallInv, Inside
<1>3. \A d \in Clients : pc'[d] \in Inside => d = c
  BY <1>2
<1>4. \A d \in Clients : pc'[d] \in Inside <=> lock = d
  BY <1>2, <1>3 DEF Inside
<1>5. \A i \in 1..Len(queue') : FALSE
  OBVIOUS
<1> QED  BY <1>1, <1>3, <1>4, <1>5 DEF CallInv, Inside

(* What a cancelled operation left is taken from the queue.                  *)
LEMMA CallTail ==
  ASSUME TypeInv, CallInv, queue # <<>>, queue' = Tail(queue),
         Waiting(Head(queue).op) = {}, UNCHANGED <<kind, op, pc, at, lock, loose>>
  PROVE  CallInv'
<1>1. /\ Len(queue) \in Nat \ {0} /\ Len(queue') = Len(queue) - 1 /\ Head(queue) = queue[1]
      /\ \A i \in 1..Len(queue') : i + 1 \in 1..Len(queue) /\ queue'[i] = queue[i + 1]
  BY TailIs DEF TypeInv
<1>2. \A c \in Clients : op[c] # queue[1].op
  BY <1>1, HeadIs
<1>3. ASSUME NEW c \in Clients, pc[c] \in {"wait", "rolling"}
      PROVE  Len(queue) > 1 /\ pc[c] = "wait" /\ at[c] = 1
  <2>1. Len(queue) # 1
    <3> SUFFICES ASSUME Len(queue) = 1 PROVE FALSE
      OBVIOUS
    <3>1. queue[Len(queue)].op = op[c]
      <4>1. CASE pc[c] = "wait"
        BY <4>1 DEF CallInv
      <4>2. CASE pc[c] = "rolling"
        <5>1. queue[1] = [op |-> op[c], do |-> "rollback"]
          BY <4>2 DEF CallInv
        <5> QED  BY <5>1
      <4> QED  BY <1>3, <4>1, <4>2
    <3> QED  BY <1>2, <3>1
  <2>2. pc[c] = "wait"
    BY <1>3, <2>1 DEF CallInv
  <2>3. ~(at[c] > 1)
    BY <2>1, <2>2 DEF CallInv
  <2>4. at[c] \in 1..3
    BY DEF TypeInv
  <2> QED  BY <1>1, <2>1, <2>2, <2>3, <2>4
<1>4. ASSUME NEW c \in Clients, pc[c] = "wait"
      PROVE  queue'[Len(queue')] = [op |-> op[c], do |-> Program(c)[at[c]]] /\ Len(queue') > 0
  <2>1. Len(queue) > 1
    BY <1>3, <1>4
  <2>2. Len(queue') \in 1..Len(queue') /\ Len(queue') + 1 = Len(queue) /\ Len(queue') > 0
    BY <1>1, <2>1
  <2>3. queue'[Len(queue')] = queue[Len(queue)]
    BY <1>1, <2>2
  <2> QED  BY <1>4, <2>2, <2>3 DEF CallInv
<1>5. \A c \in Clients : pc[c] = "rollback" \/ (pc[c] = "issue" /\ at[c] > 1) => FALSE
  BY <1>1 DEF CallInv
<1>6. \A i \in 1..Len(queue') : queue'[i].op \in 1..Len(kind)
  BY <1>1 DEF CallInv
<1>7. ASSUME NEW i \in 1..Len(queue'), NEW c \in Clients, queue'[i].op = op[c]
      PROVE  i = Len(queue') /\ pc[c] \in {"wait", "rolling"}
  <2>1. i + 1 \in 1..Len(queue) /\ queue[i + 1].op = op[c]
    BY <1>1, <1>7
  <2>2. i + 1 = Len(queue) /\ pc[c] \in {"wait", "rolling"}
    BY <2>1 DEF CallInv
  <2>3. Len(queue) \in Nat /\ Len(queue') = Len(queue) - 1
    BY <1>1
  <2>4. i = Len(queue')
    BY <2>2, <2>3
  <2> QED  BY <2>2, <2>4
<1>8. ASSUME NEW i \in 1..Len(queue'), \A c \in Clients : queue'[i].op # op[c]
      PROVE  queue'[i].op \in loose
  <2>1. i + 1 \in 1..Len(queue) /\ queue'[i] = queue[i + 1]
    BY <1>1
  <2> QED  BY <1>8, <2>1 DEF CallInv
<1>9. \A c \in Clients : KindOf(c)' = KindOf(c) /\ Program(c)' = Program(c)
  BY DEF KindOf, Program
<1>10. \A c \in Clients : pc[c] # "rolling" /\ (pc[c] = "wait" => ~(at[c] > 1))
  BY <1>3
<1> QED  BY <1>4, <1>5, <1>6, <1>7, <1>8, <1>9, <1>10 DEF CallInv

LEMMA CallStep == TypeInv /\ CallInv /\ [Next]_vars => CallInv'
<1> SUFFICES ASSUME TypeInv, CallInv, [Next]_vars PROVE CallInv'
  OBVIOUS
<1> USE DEF callVars, dataVars, sockVars, pubVars, history
<1>1. ASSUME NEW c \in Clients, Begin(c) PROVE CallInv'
  <2>1. PICK k \in Kinds : kind' = Append(kind, k)
    BY <1>1 DEF Begin
  <2>2. Len(kind') = Len(kind) + 1 /\ Len(kind) \in Nat
    BY <2>1, AppendIs DEF TypeInv
  <2>3. /\ \A d \in Clients : op'[d] = IF d = c THEN Len(kind) + 1 ELSE op[d]
        /\ \A d \in Clients : pc'[d] = IF d = c THEN "lock" ELSE pc[d]
        /\ \A d \in Clients : at'[d] = IF d = c THEN 1 ELSE at[d]
        /\ pc[c] = "idle" /\ UNCHANGED <<lock, queue, loose>>
    BY <1>1, <2>2 DEF Begin, Goto, TypeInv
  <2>4. \A d \in Clients : op[d] \in 0..Len(kind)
    BY DEF TypeInv
  <2>5. \A d \in Clients : d # c /\ op[d] # 0 =>
          KindOf(d)' = KindOf(d) /\ Program(d)' = Program(d)
    BY <2>1, <2>3, SameProgram
  <2>6. \A d \in Clients : pc[d] # "idle" => d # c /\ op[d] # 0
    BY <2>3 DEF TypeInv
  <2>7. \A i \in 1..Len(queue) : queue[i].op \in 1..Len(kind') /\ queue[i].op # Len(kind) + 1
    BY <2>2 DEF CallInv
  <2>8. /\ \A d, e \in Clients : op'[d] = op'[e] /\ op'[d] # 0 => d = e
        /\ \A d \in Clients : pc'[d] \in Inside <=> lock' = d
    BY <2>2, <2>3, <2>4 DEF CallInv, Inside
  <2>9. /\ \A i \in 1..Len(queue), d \in Clients :
             queue[i].op = op'[d] => i = Len(queue) /\ pc'[d] \in {"wait", "rolling"}
        /\ \A i \in 1..Len(queue) :
             (\A d \in Clients : queue[i].op # op'[d]) => queue[i].op \in loose
    <3>1. ASSUME NEW i \in 1..Len(queue), NEW d \in Clients, queue[i].op = op'[d]
          PROVE  i = Len(queue) /\ pc'[d] \in {"wait", "rolling"}
      <4>1. d # c
        BY <2>3, <2>7, <3>1
      <4> QED  BY <2>3, <3>1, <4>1 DEF CallInv
    <3>2. ASSUME NEW i \in 1..Len(queue), \A d \in Clients : queue[i].op # op'[d]
          PROVE  queue[i].op \in loose
      <4>1. \A d \in Clients : d # c => queue[i].op # op[d]
        BY <2>3, <3>2
      <4>2. queue[i].op # op[c]
        BY <2>3 DEF CallInv
      <4> QED  BY <4>1, <4>2 DEF CallInv
    <3> QED  BY <3>1, <3>2
  <2>10. /\ \A d \in Clients : pc'[d] = "lock" => at'[d] = 1
         /\ \A d \in Clients : pc'[d] \in {"rollback", "rolling"} => KindOf(d)' = "transition"
         /\ \A d \in Clients : pc'[d] = "wait" =>
              Len(queue) > 0 /\ queue[Len(queue)] = [op |-> op'[d], do |-> Program(d)'[at'[d]]]
         /\ \A d \in Clients : pc'[d] = "rolling" =>
              Len(queue) = 1 /\ queue[1] = [op |-> op'[d], do |-> "rollback"]
         /\ \A d \in Clients : pc'[d] = "rollback" \/ (pc'[d] = "issue" /\ at'[d] > 1) =>
              Len(queue) = 0
         /\ \A d \in Clients : pc'[d] = "wait" /\ at'[d] > 1 => Len(queue) = 1
    BY <2>3, <2>5, <2>6 DEF CallInv
  <2> QED  BY <2>3, <2>7, <2>8, <2>9, <2>10 DEF CallInv
<1>2. ASSUME NEW c \in Clients, Acquire(c) PROVE CallInv'
  <2>1. /\ pc[c] = "lock" /\ lock = None /\ lock' = c
        /\ \A d \in Clients : pc'[d] = IF d = c THEN "issue" ELSE pc[d]
        /\ UNCHANGED <<kind, op, at, queue, loose>>
    BY <1>2 DEF Acquire, Goto, TypeInv
  <2>2. at[c] = 1 /\ \A d \in Clients : pc[d] \notin Inside
    BY <2>1, NoneAssumption DEF CallInv
  <2>3. \A d \in Clients : KindOf(d)' = KindOf(d)
    BY <2>1 DEF KindOf
  <2> QED  BY <2>1, <2>2, <2>3 DEF CallInv, Inside
<1>3. ASSUME NEW c \in Clients, Issue(c) PROVE CallInv'
  <2>1. /\ pc[c] \in {"issue", "rollback"} /\ UNCHANGED <<kind, op, at, lock, loose>>
        /\ \A d \in Clients : pc'[d] = IF d = c THEN IF pc[c] = "issue" THEN "wait" ELSE "rolling"
                                      ELSE pc[d]
    BY <1>3 DEF Issue, Goto, TypeInv
  <2>2. op[c] # 0 /\ op[c] \in Ops /\ op[c] \in 1..Len(kind)
    BY <2>1, CurrentStatement DEF TypeInv
  <2>3. PICK x \in Statement :
          /\ queue' = Append(queue, x) /\ x.op = op[c]
          /\ pc[c] = "issue" => x = [op |-> op[c], do |-> Program(c)[at[c]]]
          /\ pc[c] = "rollback" => x = [op |-> op[c], do |-> "rollback"]
    <3>1. [op |-> op[c], do |-> Program(c)[at[c]]] \in Statement
          /\ [op |-> op[c], do |-> "rollback"] \in Statement
      BY <2>2, CurrentStatement DEF Statement
    <3> QED  BY <1>3, <3>1 DEF Issue
  <2>4. /\ Len(queue') = Len(queue) + 1 /\ Len(queue) \in Nat /\ queue'[Len(queue) + 1] = x
        /\ \A i \in 1..Len(queue) : queue'[i] = queue[i]
    BY <2>3, AppendIs DEF TypeInv
  <2>5. \A d \in Clients : d # c => pc[d] \notin Inside /\ op[d] # op[c]
    BY <2>1, <2>2 DEF CallInv, Inside
  <2>6. \A i \in 1..Len(queue), d \in Clients : queue[i].op # op[d]
    BY <2>1, <2>5 DEF CallInv, Inside
  <2>7. \A i \in 1..Len(queue') : i \in 1..Len(queue) \/ i = Len(queue) + 1
    BY <2>4
  <2>8. \A i \in 1..Len(queue') : queue'[i].op \in 1..Len(kind)
    BY <2>2, <2>3, <2>4, <2>7 DEF CallInv
  <2>9. \A i \in 1..Len(queue'), d \in Clients :
          queue'[i].op = op[d] => i = Len(queue') /\ d = c
    BY <2>3, <2>4, <2>5, <2>6, <2>7
  <2>10. \A i \in 1..Len(queue') :
           (\A d \in Clients : queue'[i].op # op[d]) => queue'[i].op \in loose
    BY <2>3, <2>4, <2>7 DEF CallInv
  <2>11. \A d \in Clients : KindOf(d)' = KindOf(d) /\ Program(d)' = Program(d)
    BY <2>1 DEF KindOf, Program
  <2>12. pc[c] = "rollback" \/ at[c] > 1 => Len(queue') = 1
    BY <2>1, <2>4 DEF CallInv
  <2>13. \A d \in Clients : pc'[d] \in Inside <=> lock' = d
    BY <2>1 DEF CallInv, Inside
  <2>14. /\ \A d \in Clients : pc'[d] = "wait" => d = c /\ pc[c] = "issue"
         /\ \A d \in Clients : pc'[d] = "rolling" => d = c /\ pc[c] = "rollback"
         /\ \A d \in Clients : pc'[d] \notin {"issue", "rollback"}
    BY <2>1, <2>5 DEF Inside
  <2>15. Len(queue') > 0 /\ queue'[Len(queue')] = x
    BY <2>4
  <2> QED
    BY <2>1, <2>3, <2>8, <2>9, <2>10, <2>11, <2>12, <2>13, <2>14, <2>15 DEF CallInv
<1>4. ASSUME Waiting(Head(queue).op) = {}, UNCHANGED <<kind, op, pc, at, lock, loose>>,
             queue # <<>>, queue' = Tail(queue)
      PROVE  CallInv'
  BY <1>4, CallTail
<1>5. CASE Succeed
  <2>1. queue # <<>> /\ queue' = Tail(queue) /\ UNCHANGED <<kind, loose>>
    BY <1>5 DEF Succeed
  <2>2. ASSUME NEW c \in Waiting(Head(queue).op), pc[c] = "wait", Advance(c) PROVE CallInv'
    <3>1. c \in Clients /\ lock = c /\ queue' = <<>> /\ op[c] # 0
      BY <2>1, HeadIs
    <3>2. CASE at[c] < Len(Program(c))
      <4>1. /\ \A d \in Clients : pc'[d] = IF d = c THEN "issue" ELSE pc[d]
            /\ \A d \in Clients : d # c => at'[d] = at[d]
            /\ UNCHANGED <<op, lock>>
        BY <2>2, <3>1, <3>2 DEF Advance, Goto, TypeInv
      <4> QED  BY <2>1, <2>2, <3>1, <4>1, CallGoesOn
    <3>3. CASE ~(at[c] < Len(Program(c))) /\ ~HasEvent(c)
      <4>1. Leave(c) /\ UNCHANGED at
        BY <2>2, <3>3 DEF Advance, Leave
      <4> QED  BY <2>1, <3>1, <4>1, CallLeave
    <3>4. CASE ~(at[c] < Len(Program(c))) /\ HasEvent(c)
      <4>1. /\ \A d \in Clients : pc'[d] = IF d = c THEN "publish" ELSE pc[d]
            /\ lock' = None /\ UNCHANGED <<op, at>>
        BY <2>2, <3>1, <3>4 DEF Advance, Goto, Unlock, TypeInv
      <4>2. \A d \in Clients : pc'[d] \notin Inside
        BY <3>1, <4>1 DEF CallInv, Inside
      <4>3. \A i \in 1..Len(queue') : FALSE
        BY <3>1
      <4> QED  BY <2>1, <3>1, <4>1, <4>2, <4>3, NoneAssumption DEF CallInv, Inside
    <3> QED  BY <3>2, <3>3, <3>4
  <2>3. ASSUME NEW c \in Waiting(Head(queue).op), Leave(c), UNCHANGED at PROVE CallInv'
    BY <2>1, <2>3, HeadIs, CallLeave
  <2>4. CASE Waiting(Head(queue).op) = {} /\ UNCHANGED <<op, pc, at, lock>>
    BY <2>1, <2>4, <1>4
  <2> QED  BY <1>5, <2>2, <2>3, <2>4 DEF Succeed
<1>6. CASE FailStatement
  <2>1. queue # <<>> /\ queue' = Tail(queue) /\ UNCHANGED <<kind, at, loose>>
    BY <1>6 DEF FailStatement
  <2>2. ASSUME NEW c \in Waiting(Head(queue).op), AfterFailure(c, Head(queue).do) PROVE CallInv'
    <3>1. c \in Clients /\ lock = c /\ queue' = <<>> /\ op[c] # 0 /\ pc[c] \in {"wait", "rolling"}
      BY <2>1, HeadIs DEF Waiting
    <3>2. CASE KindOf(c) = "transition" /\ Goto(c, "rollback") /\ UNCHANGED <<op, lock>>
      <4>1. \A d \in Clients : pc'[d] = IF d = c THEN "rollback" ELSE pc[d]
        BY <3>2 DEF Goto, TypeInv
      <4> QED  BY <2>1, <3>1, <3>2, <4>1, CallGoesOn
    <3>3. CASE Leave(c)
      BY <2>1, <3>1, <3>3, CallLeave
    <3> QED  BY <2>2, <3>2, <3>3 DEF AfterFailure
  <2>3. CASE Waiting(Head(queue).op) = {} /\ UNCHANGED <<op, pc, lock>>
    BY <2>1, <2>3, <1>4
  <2> QED  BY <1>6, <2>2, <2>3 DEF FailStatement
<1>7. ASSUME NEW c \in Clients, Cancel(c) PROVE CallInv'
  <2>1. Leave(c) /\ UNCHANGED <<kind, at, queue>>
    BY <1>7 DEF Cancel
  <2>2. \/ loose' = loose \cup {op[c]}
        \/ UNCHANGED loose /\ pc[c] \notin {"wait", "rolling"}
    BY <1>7 DEF Cancel
  <2> QED  BY <2>1, <2>2, CallLeave
<1>8. ASSUME NEW c \in Clients, Publish(c) PROVE CallInv'
  <2>1. CASE UNCHANGED <<op, pc, lock>>
    BY <1>8, <2>1, CallQuiet DEF Publish
  <2>2. CASE Leave(c)
    BY <1>8, <2>2, CallLeave DEF Publish
  <2> QED  BY <1>8, <2>1, <2>2 DEF Publish
<1>9. ASSUME NEW w \in Sockets, Connect(w) \/ Drop(w) \/ Disconnect(w) PROVE CallInv'
  BY <1>9, CallQuiet DEF Connect, Drop, Disconnect
<1>10. CASE Crash
  <2>1. /\ \A c \in Clients : op'[c] = 0 /\ pc'[c] = "idle"
        /\ lock' = None /\ queue' = <<>> /\ UNCHANGED kind
    BY <1>10 DEF Crash
  <2>2. \A i \in 1..Len(queue') : FALSE
    BY <2>1
  <2> QED  BY <2>1, <2>2, NoneAssumption DEF CallInv, Inside
<1>11. CASE UNCHANGED vars
  BY <1>11, CallQuiet DEF vars
<1> QED  BY <1>1, <1>2, <1>3, <1>5, <1>6, <1>7, <1>8, <1>9, <1>10, <1>11 DEF Next, ClientStep

----------------------------------------------------------------------------
(* What the database holds *)

LEMMA DataInit == Init => DataInv
BY DEF Init, DataInv, Empty, UncancelledAtomic, Transitions, Begun, Inside

(* Steps that write nothing and move no client past a statement.            *)
LEMMA DataQuiet ==
  ASSUME TypeInv, DataInv, UNCHANGED <<kind, op, mem, disk, failed, unsure, loose>>,
         published' \subseteq 1..Len(kind),
         \A c \in Clients : pc'[c] # pc[c] \/ at'[c] # at[c] =>
           \/ pc[c] = "lock" /\ pc'[c] = "issue" /\ at'[c] = at[c] /\ at[c] = 1
           \/ pc[c] = "issue" /\ pc'[c] = "wait" /\ at'[c] = at[c]
           \/ pc[c] = "rollback" /\ pc'[c] = "rolling" /\ at'[c] = at[c]
  PROVE  DataInv'
<1>1. Transitions' = Transitions /\ \A c \in Clients : KindOf(c)' = KindOf(c)
  BY DEF Transitions, Begun, KindOf
<1>2. \A c \in Clients : pc'[c] \in Inside => pc[c] \in {"lock"} \cup Inside
  BY DEF Inside
<1>3. \A c \in Clients : pc'[c] \notin Inside => pc[c] \notin Inside
  BY DEF Inside
<1>4. \A n \in Transitions \ loose :
        (\A c \in Clients : op[c] = n => pc'[c] \notin Inside) => (n \in mem.rows <=> n \in mem.events)
  BY <1>3 DEF DataInv
<1>5. /\ \A c \in Clients : pc'[c] \in {"lock"} \cup Inside => op[c] \notin disk.rows \cup disk.events
      /\ \A c \in Clients : pc'[c] = "lock" \/ (pc'[c] \in {"issue", "wait"} /\ at'[c] = 1) =>
           op[c] \notin mem.rows \cup mem.events
      /\ \A c \in Clients : pc'[c] \in {"issue", "wait"} /\ at'[c] > 1 =>
           /\ KindOf(c) = "transition" =>
                op[c] \in mem.rows /\ (at'[c] = 3 <=> op[c] \in mem.events)
           /\ KindOf(c) = "append" => op[c] \in mem.events
  BY <1>2 DEF DataInv, Inside
<1>6. UncancelledAtomic'
  BY <1>1 DEF DataInv, UncancelledAtomic
<1> QED  BY <1>1, <1>4, <1>5, <1>6 DEF DataInv

(* A commit puts on disk what the connection has, which is nothing of an      *)
(* operation that waits for the lock or has yet to write.                   *)
LEMMA DataCommit ==
  ASSUME TypeInv, DataInv, disk' = mem, UNCHANGED <<kind, mem, failed, unsure, loose>>,
         published' \subseteq 1..Len(kind), \A d \in Clients : op'[d] \in {0, op[d]},
         \A d \in Clients : pc'[d] \in {"lock"} \cup Inside =>
           /\ pc'[d] = pc[d] /\ op'[d] = op[d] /\ at'[d] = at[d]
           /\ op[d] \notin mem.rows \cup mem.events,
         \A n \in Transitions \ loose : n \in mem.rows <=> n \in mem.events
  PROVE  DataInv'
<1>1. Transitions' = Transitions /\ Len(kind) \in Nat
  BY DEF Transitions, Begun, TypeInv
<1>2. UncancelledAtomic'
  BY <1>1 DEF UncancelledAtomic
<1>3. \A d \in Clients : pc'[d] \in {"issue", "wait"} =>
        KindOf(d)' = KindOf(d) /\ pc'[d] = pc[d] /\ op'[d] = op[d] /\ at'[d] = at[d]
  BY DEF KindOf, Inside
<1>4. \A d \in Clients : pc'[d] \in {"issue", "wait"} /\ at'[d] > 1 =>
        /\ KindOf(d)' = "transition" =>
             op'[d] \in mem'.rows /\ (at'[d] = 3 <=> op'[d] \in mem'.events)
        /\ KindOf(d)' = "append" => op'[d] \in mem'.events
  BY <1>3 DEF DataInv
<1>5. \A n \in failed' \ (unsure' \cup loose') :
        n \notin mem'.rows \cup mem'.events /\ \A d \in Clients : op'[d] # n
  <2>1. \A n \in failed : n # 0
    BY DEF DataInv
  <2> QED  BY <2>1 DEF DataInv
<1>6. \A d \in Clients : pc'[d] \in {"issue", "wait"} => pc'[d] \in {"lock"} \cup Inside
  BY DEF Inside
<1>7. /\ disk'.rows \subseteq mem'.rows /\ disk'.events \subseteq mem'.events
      /\ mem'.rows \cup mem'.events \subseteq 1..Len(kind')
      /\ failed' \cup loose' \cup unsure' \cup published' \subseteq 1..Len(kind')
  BY DEF DataInv
<1>8. /\ \A d \in Clients : pc'[d] \in {"lock"} \cup Inside =>
           op'[d] \notin disk'.rows \cup disk'.events
      /\ \A d \in Clients : pc'[d] = "lock" \/ (pc'[d] \in {"issue", "wait"} /\ at'[d] = 1) =>
           op'[d] \notin mem'.rows \cup mem'.events
  BY <1>6
<1>9. \A n \in Transitions' \ loose' : n \in mem'.rows <=> n \in mem'.events
  BY <1>1
<1> QED  BY <1>2, <1>4, <1>5, <1>7, <1>8, <1>9 DEF DataInv

(* A rollback or a crash leaves what the disk has, which is nothing of an     *)
(* operation that has yet to return.                                        *)
LEMMA DataRollback ==
  ASSUME TypeInv, DataInv, mem' = disk, UNCHANGED <<kind, disk, unsure, loose>>,
         published' \subseteq 1..Len(kind), \A d \in Clients : op'[d] \in {0, op[d]},
         \A d \in Clients : pc'[d] \in {"lock"} \cup Inside =>
           /\ pc'[d] = pc[d] /\ op'[d] = op[d]
           /\ ~(pc'[d] \in {"issue", "wait"} /\ at'[d] > 1),
         failed' \subseteq 1..Len(kind),
         \A n \in failed' \ failed :
           n \notin disk.rows \cup disk.events /\ \A d \in Clients : op'[d] # n
  PROVE  DataInv'
<1>1. Transitions' = Transitions
  BY DEF Transitions, Begun
<1>2. UncancelledAtomic'
  BY <1>1 DEF UncancelledAtomic, DataInv
<1>3. \A d \in Clients : pc'[d] \in {"issue", "wait"} => ~(at'[d] > 1)
  BY DEF Inside
<1>4. ASSUME NEW n \in failed' \ (unsure' \cup loose')
      PROVE  n \notin mem'.rows \cup mem'.events /\ \A d \in Clients : op'[d] # n
  <2>1. n # 0
    BY <1>4
  <2> QED  BY <1>4, <2>1 DEF DataInv
<1>5. /\ disk'.rows \subseteq mem'.rows /\ disk'.events \subseteq mem'.events
      /\ mem'.rows \cup mem'.events \subseteq 1..Len(kind')
      /\ failed' \cup loose' \cup unsure' \cup published' \subseteq 1..Len(kind')
  BY DEF DataInv
<1>6. \A d \in Clients : pc'[d] \in {"lock"} \cup Inside =>
           op'[d] \notin disk'.rows \cup disk'.events
  BY DEF DataInv
<1>7. \A d \in Clients : pc'[d] = "lock" \/ (pc'[d] \in {"issue", "wait"} /\ at'[d] = 1) =>
           op'[d] \notin mem'.rows \cup mem'.events
  BY <1>6 DEF Inside
<1>8. \A n \in Transitions' \ loose' : n \in mem'.rows <=> n \in mem'.events
  BY <1>1 DEF DataInv, UncancelledAtomic
<1> QED  BY <1>2, <1>3, <1>4, <1>5, <1>6, <1>7, <1>8 DEF DataInv

(* A statement of a cancelled operation is nobody's: what it writes is loose. *)
LEMMA DataLoose ==
  ASSUME TypeInv, DataInv, NEW n \in loose, \A c \in Clients : op[c] # n,
         UNCHANGED <<kind, op, pc, at, disk, failed, unsure, loose, published>>,
         \/ mem' = [mem EXCEPT !.rows = @ \cup {n}]
         \/ mem' = [mem EXCEPT !.events = @ \cup {n}]
  PROVE  DataInv'
<1>1. /\ mem.rows \subseteq mem'.rows /\ mem'.rows \subseteq mem.rows \cup {n}
      /\ mem.events \subseteq mem'.events /\ mem'.events \subseteq mem.events \cup {n}
  <2>1. mem \in Content
    BY DEF TypeInv
  <2> QED  BY <2>1 DEF Content
<1>2. Transitions' = Transitions /\ \A c \in Clients : KindOf(c)' = KindOf(c)
  BY DEF Transitions, Begun, KindOf
<1>3. /\ \A c \in Clients : op[c] \in mem'.rows <=> op[c] \in mem.rows
      /\ \A c \in Clients : op[c] \in mem'.events <=> op[c] \in mem.events
      /\ \A m \in (Ops \cup Begun) \ loose : m \in mem'.rows <=> m \in mem.rows
      /\ \A m \in (Ops \cup Begun) \ loose : m \in mem'.events <=> m \in mem.events
  BY <1>1
<1>4. \A m \in failed \ (unsure \cup loose) : m \in Begun \ loose
  BY DEF DataInv, Begun
<1>5. \A m \in Transitions \ loose : m \in Begun \ loose
  BY DEF Transitions
<1>6. /\ disk.rows \subseteq mem'.rows /\ disk.events \subseteq mem'.events
      /\ mem'.rows \cup mem'.events \subseteq 1..Len(kind)
  BY <1>1 DEF DataInv
<1>7. UncancelledAtomic'
  BY <1>2 DEF DataInv, UncancelledAtomic
<1>8. \A m \in Transitions \ loose :
        (\A c \in Clients : op[c] = m => pc[c] \notin Inside) => (m \in mem'.rows <=> m \in mem'.events)
  BY <1>3, <1>5 DEF DataInv
<1>9. \A m \in failed \ (unsure \cup loose) :
       m \notin mem'.rows \cup mem'.events /\ \A c \in Clients : op[c] # m
  BY <1>3, <1>4 DEF DataInv
<1> QED  BY <1>2, <1>3, <1>6, <1>7, <1>8, <1>9 DEF DataInv

(* A client leaves with nothing written in between.  If it is told that it     *)
(* failed, its operation is not in the connection, or that is not known.     *)
LEMMA DataLeave ==
  ASSUME TypeInv, CallInv, DataInv, NEW c \in Clients, op[c] # 0, Leave(c),
         UNCHANGED <<kind, at, mem, disk, published>>,
         loose \subseteq loose', loose' \subseteq loose \cup {op[c]},
         unsure \subseteq unsure', unsure' \subseteq unsure \cup {op[c]},
         failed' \subseteq failed \cup {op[c]},
         op[c] \in failed' => op[c] \in unsure' \cup loose' \/ op[c] \notin mem.rows \cup mem.events,
         KindOf(c) = "transition" /\ pc[c] \in Inside =>
           op[c] \in loose' \/ (op[c] \in mem.rows <=> op[c] \in mem.events)
  PROVE  DataInv'
<1>1. /\ \A d \in Clients : op'[d] = IF d = c THEN 0 ELSE op[d]
      /\ \A d \in Clients : pc'[d] = IF d = c THEN "idle" ELSE pc[d]
  BY DEF Leave, Goto, TypeInv
<1>2. Transitions' = Transitions
  BY DEF Transitions, Begun
<1>3. \A d \in Clients : pc'[d] # "idle" =>
        d # c /\ pc'[d] = pc[d] /\ op'[d] = op[d] /\ at'[d] = at[d] /\ KindOf(d)' = KindOf(d)
  BY <1>1 DEF KindOf
<1>4. op[c] \in 1..Len(kind)
  BY CurrentStatement
<1>5. ASSUME NEW n \in Transitions \ loose', \A d \in Clients : op'[d] = n => pc'[d] \notin Inside
      PROVE  n \in mem.rows <=> n \in mem.events
  <2>1. CASE n = op[c] /\ pc[c] \in Inside
    BY <1>5, <2>1 DEF Transitions, KindOf
  <2>2. CASE ~(n = op[c] /\ pc[c] \in Inside)
    <3>1. \A d \in Clients : op[d] = n => pc[d] \notin Inside
      BY <1>1, <1>5, <2>2
    <3> QED  BY <1>5, <3>1 DEF DataInv
  <2> QED  BY <2>1, <2>2
<1>6. ASSUME NEW n \in failed' \ (unsure' \cup loose')
      PROVE  n \notin mem.rows \cup mem.events /\ \A d \in Clients : op'[d] # n
  <2>1. CASE n = op[c]
    <3>1. \A d \in Clients : op[d] = op[c] => d = c
      BY DEF CallInv
    <3> QED  BY <1>1, <1>6, <2>1, <3>1
  <2>2. CASE n # op[c]
    <3>1. n \in failed \ (unsure \cup loose)
      BY <1>6, <2>2
    <3>2. n # 0
      BY <3>1 DEF DataInv
    <3> QED  BY <1>1, <3>1, <3>2 DEF DataInv
  <2> QED  BY <2>1, <2>2
<1>7. UncancelledAtomic'
  BY <1>2 DEF DataInv, UncancelledAtomic
<1>8. failed' \cup loose' \cup unsure' \cup published' \subseteq 1..Len(kind')
  BY <1>4 DEF DataInv
<1>9. /\ \A d \in Clients : pc'[d] \in {"lock"} \cup Inside =>
           op'[d] \notin disk.rows \cup disk.events
      /\ \A d \in Clients : pc'[d] = "lock" \/ (pc'[d] \in {"issue", "wait"} /\ at'[d] = 1) =>
           op'[d] \notin mem.rows \cup mem.events
      /\ \A d \in Clients : pc'[d] \in {"issue", "wait"} /\ at'[d] > 1 =>
           /\ KindOf(d)' = "transition" =>
                op'[d] \in mem.rows /\ (at'[d] = 3 <=> op'[d] \in mem.events)
           /\ KindOf(d)' = "append" => op'[d] \in mem.events
  BY <1>3 DEF DataInv, Inside
<1> QED  BY <1>2, <1>5, <1>6, <1>7, <1>8, <1>9 DEF DataInv

(* A statement of the holder that writes, after which it issues the next one. *)
LEMMA DataWrite ==
  ASSUME TypeInv, CallInv, DataInv, NEW c \in Clients, pc[c] = "wait", lock = c,
         op[c] # 0, \A d \in Clients : op[d] = op[c] => d = c,
         UNCHANGED <<kind, op, disk, failed, unsure, loose, published>>,
         \A d \in Clients : pc'[d] = IF d = c THEN "issue" ELSE pc[d],
         \A d \in Clients : at'[d] = IF d = c THEN at[c] + 1 ELSE at[d],
         \/ Program(c)[at[c]] = "row" /\ mem' = [mem EXCEPT !.rows = @ \cup {op[c]}]
         \/ Program(c)[at[c]] = "event" /\ mem' = [mem EXCEPT !.events = @ \cup {op[c]}]
  PROVE  DataInv'
<1>1. /\ op[c] \in 1..Len(kind) /\ KindOf(c) \in Kinds /\ at[c] \in 1..Len(Program(c))
  BY CurrentStatement
<1>2. /\ mem.rows \subseteq mem'.rows /\ mem'.rows \subseteq mem.rows \cup {op[c]}
      /\ mem.events \subseteq mem'.events /\ mem'.events \subseteq mem.events \cup {op[c]}
      /\ Program(c)[at[c]] = "row" => op[c] \in mem'.rows /\ mem'.events = mem.events
      /\ Program(c)[at[c]] = "event" => op[c] \in mem'.events /\ mem'.rows = mem.rows
  <2>1. mem \in Content
    BY DEF TypeInv
  <2> QED  BY <2>1 DEF Content
<1>3. Transitions' = Transitions /\ \A d \in Clients : KindOf(d)' = KindOf(d)
  BY DEF Transitions, Begun, KindOf
<1>4. \A d \in Clients : pc'[d] \in Inside => d = c
  BY DEF CallInv, Inside
<1>5. KindOf(c) = "transition" =>
        \/ at[c] = 1 /\ Program(c)[at[c]] = "row"
        \/ at[c] = 2 /\ Program(c)[at[c]] = "event"
  <2>1. at[c] \in {1, 2, 3}
    BY DEF TypeInv
  <2> QED  BY <2>1, Programs DEF Program
<1>6. KindOf(c) = "append" => at[c] = 1 /\ Program(c)[at[c]] = "event"
  <2>1. KindOf(c) = "append" => at[c] \in {1, 2}
    BY <1>1, Programs DEF Program
  <2> QED  BY <2>1, Programs DEF Program
<1>7. /\ at[c] = 1 => op[c] \notin mem.rows \cup mem.events
      /\ KindOf(c) = "transition" /\ at[c] = 2 => op[c] \in mem.rows
      /\ op[c] \notin disk.rows \cup disk.events
  BY DEF DataInv, Inside
<1>8. /\ KindOf(c) = "transition" =>
           op[c] \in mem'.rows /\ (at'[c] = 3 <=> op[c] \in mem'.events)
      /\ KindOf(c) = "append" => op[c] \in mem'.events
  BY <1>2, <1>5, <1>6, <1>7
<1>9. ASSUME NEW n \in Transitions \ loose, \A d \in Clients : op[d] = n => pc'[d] \notin Inside
      PROVE  n \in mem'.rows <=> n \in mem'.events
  <2>1. n # op[c]
    BY <1>9 DEF Inside
  <2>2. \A d \in Clients : op[d] = n => pc[d] \notin Inside
    BY <1>9, <2>1
  <2>3. n \in mem.rows <=> n \in mem.events
    BY <1>9, <2>2 DEF DataInv
  <2> QED  BY <1>2, <2>1, <2>3
<1>10. \A n \in failed \ (unsure \cup loose) :
         n \notin mem'.rows \cup mem'.events /\ \A d \in Clients : op[d] # n
  BY <1>2 DEF DataInv
<1>11. UncancelledAtomic'
  BY <1>3 DEF DataInv, UncancelledAtomic
<1>12. /\ disk.rows \subseteq mem'.rows /\ disk.events \subseteq mem'.events
       /\ mem'.rows \cup mem'.events \subseteq 1..Len(kind)
  BY <1>1, <1>2 DEF DataInv
<1>13. \A d \in Clients : pc'[d] \in {"lock"} \cup Inside =>
         op[d] \notin disk.rows \cup disk.events
  BY <1>7 DEF DataInv, Inside
<1>14. at'[c] > 1 /\ at'[c] # 1
  BY <1>1 DEF TypeInv
<1>15. ASSUME NEW d \in Clients, pc'[d] = "lock" \/ (pc'[d] \in {"issue", "wait"} /\ at'[d] = 1)
       PROVE  op[d] \notin mem'.rows \cup mem'.events
  <2>1. d # c
    BY <1>14, <1>15
  <2>2. op[d] # op[c] /\ op[d] \notin mem.rows \cup mem.events
    BY <1>15, <2>1 DEF DataInv
  <2> QED  BY <1>2, <2>2
<1>16. \A d \in Clients : pc'[d] \in {"issue", "wait"} => d = c
  BY <1>4 DEF Inside
<1> QED  BY <1>3, <1>8, <1>9, <1>10, <1>11, <1>12, <1>13, <1>15, <1>16 DEF DataInv

LEMMA DataStep == TypeInv /\ CallInv /\ DataInv /\ [Next]_vars => DataInv'
<1> SUFFICES ASSUME TypeInv, CallInv, DataInv, [Next]_vars PROVE DataInv'
  OBVIOUS
<1> USE DEF callVars, dataVars, sockVars, pubVars, history
<1>0. published \subseteq 1..Len(kind)
  BY DEF DataInv
<1>1. ASSUME NEW c \in Clients, Begin(c) PROVE DataInv'
  <2>1. PICK k \in Kinds : kind' = Append(kind, k)
    BY <1>1 DEF Begin
  <2>2. /\ Len(kind') = Len(kind) + 1 /\ Len(kind) \in Nat
        /\ \A n \in 1..Len(kind) : kind'[n] = kind[n]
    BY <2>1, AppendIs DEF TypeInv
  <2>3. /\ \A d \in Clients : op'[d] = IF d = c THEN Len(kind) + 1 ELSE op[d]
        /\ \A d \in Clients : pc'[d] = IF d = c THEN "lock" ELSE pc[d]
        /\ \A d \in Clients : at'[d] = IF d = c THEN 1 ELSE at[d]
        /\ pc[c] = "idle" /\ UNCHANGED <<mem, disk, failed, loose, unsure, published>>
    BY <1>1, <2>2 DEF Begin, Goto, TypeInv
  <2>4. \A d \in Clients : d # c /\ op[d] # 0 => KindOf(d)' = KindOf(d)
    BY <2>1, <2>3, SameProgram
  <2>5. \A d \in Clients : pc'[d] # "idle" /\ d # c => op[d] # 0
    BY <2>3 DEF TypeInv
  <2>6. /\ mem.rows \cup mem.events \subseteq 1..Len(kind)
        /\ disk.rows \cup disk.events \subseteq 1..Len(kind)
        /\ failed \cup loose \cup unsure \cup published \subseteq 1..Len(kind)
    BY DEF DataInv
  <2>7. Len(kind) + 1 \notin 1..Len(kind) /\ 1..Len(kind) \subseteq 1..Len(kind')
    BY <2>2
  <2>8. \A n \in Transitions' : n \in Transitions \/ n = Len(kind) + 1
    <3> SUFFICES ASSUME NEW n \in Transitions', n # Len(kind) + 1 PROVE n \in Transitions
      OBVIOUS
    <3>1. n \in 1..Len(kind') /\ kind'[n] = "transition"
      BY DEF Transitions, Begun
    <3>2. n \in 1..Len(kind)
      BY <2>2, <3>1
    <3> QED  BY <2>2, <3>1, <3>2 DEF Transitions, Begun
  <2>9. UncancelledAtomic'
    BY <2>3, <2>6, <2>7, <2>8 DEF DataInv, UncancelledAtomic
  <2>10. ASSUME NEW n \in Transitions' \ loose, \A d \in Clients : op'[d] = n => pc'[d] \notin Inside
         PROVE  n \in mem.rows <=> n \in mem.events
    <3>1. CASE n = Len(kind) + 1
      BY <2>6, <2>7, <3>1
    <3>2. CASE n \in Transitions
      <4>1. \A d \in Clients : op[d] = n => pc[d] \notin Inside
        BY <2>3, <2>10 DEF Inside
      <4> QED  BY <2>10, <3>2, <4>1 DEF DataInv
    <3> QED  BY <2>8, <2>10, <3>1, <3>2
  <2>11. \A n \in failed \ (unsure \cup loose) :
           n \notin mem.rows \cup mem.events /\ \A d \in Clients : op'[d] # n
    <3>1. \A n \in failed : n # Len(kind) + 1
      BY <2>6, <2>7
    <3> QED  BY <2>3, <3>1 DEF DataInv
  <2>12. /\ \A d \in Clients : pc'[d] \in {"lock"} \cup Inside =>
              op'[d] \notin disk.rows \cup disk.events
         /\ \A d \in Clients : pc'[d] = "lock" \/ (pc'[d] \in {"issue", "wait"} /\ at'[d] = 1) =>
              op'[d] \notin mem.rows \cup mem.events
    BY <2>3, <2>6, <2>7 DEF DataInv
  <2>13. \A d \in Clients : pc'[d] \in {"issue", "wait"} /\ at'[d] > 1 =>
           /\ KindOf(d)' = "transition" =>
                op'[d] \in mem.rows /\ (at'[d] = 3 <=> op'[d] \in mem.events)
           /\ KindOf(d)' = "append" => op'[d] \in mem.events
    BY <2>3, <2>4, <2>5 DEF DataInv
  <2> QED  BY <2>3, <2>6, <2>7, <2>9, <2>10, <2>11, <2>12, <2>13 DEF DataInv
<1>2. ASSUME NEW c \in Clients, Acquire(c) PROVE DataInv'
  <2>1. at[c] = 1 /\ pc[c] = "lock"
    BY <1>2 DEF Acquire, CallInv
  <2>2. \A d \in Clients : pc'[d] = IF d = c THEN "issue" ELSE pc[d]
    BY <1>2 DEF Acquire, Goto, TypeInv
  <2> QED  BY <1>0, <1>2, <2>1, <2>2, DataQuiet DEF Acquire
<1>3. ASSUME NEW c \in Clients, Issue(c) PROVE DataInv'
  <2>1. \A d \in Clients : pc'[d] # pc[d] =>
          \/ pc[d] = "issue" /\ pc'[d] = "wait"
          \/ pc[d] = "rollback" /\ pc'[d] = "rolling"
    BY <1>3 DEF Issue, Goto, TypeInv
  <2> QED  BY <1>0, <1>3, <2>1, DataQuiet DEF Issue
<1>4. CASE Succeed
  <2>1. /\ queue # <<>> /\ Execute(Head(queue)) /\ UNCHANGED <<kind, loose, unsure>>
        /\ Head(queue) \in Statement /\ Head(queue).do \in {"row", "event", "commit", "rollback"}
    BY <1>4, HeadIs DEF Succeed, Statement
  <2>2. CASE Waiting(Head(queue).op) = {} /\ UNCHANGED <<op, pc, at, lock, pubVars, failed>>
    <3>1. Head(queue).op \in loose /\ \A c \in Clients : op[c] # Head(queue).op
      BY <2>1, <2>2, HeadIs
    <3>2. \A c \in Clients : pc[c] \in Inside =>
            pc[c] \in {"issue", "wait"} /\ at[c] = 1 /\ op[c] \notin mem.rows \cup mem.events
      <4> SUFFICES ASSUME NEW c \in Clients, pc[c] \in Inside
                   PROVE  pc[c] \in {"issue", "wait"} /\ at[c] = 1
        BY DEF DataInv
      <4>1. Len(queue) \in Nat \ {0} /\ Head(queue) = queue[1] /\ 1 \in 1..Len(queue)
        BY <2>1, TailIs DEF TypeInv
      <4>2. queue[1].op # op[c]
        BY <3>1, <4>1
      <4>3. pc[c] # "rollback" /\ ~(pc[c] = "issue" /\ at[c] > 1)
        BY <4>1 DEF CallInv
      <4>4. pc[c] # "rolling"
        <5> SUFFICES ASSUME pc[c] = "rolling" PROVE FALSE
          OBVIOUS
        <5>1. queue[1] = [op |-> op[c], do |-> "rollback"]
          BY DEF CallInv
        <5> QED  BY <4>2, <5>1
      <4>5. ~(pc[c] = "wait" /\ at[c] > 1)
        <5> SUFFICES ASSUME pc[c] = "wait", at[c] > 1 PROVE FALSE
          OBVIOUS
        <5>1. Len(queue) = 1 /\ queue[Len(queue)] = [op |-> op[c], do |-> Program(c)[at[c]]]
          BY DEF CallInv
        <5> QED  BY <4>2, <5>1
      <4>6. at[c] \in 1..3
        BY DEF TypeInv
      <4> QED  BY <4>3, <4>4, <4>5, <4>6 DEF Inside
    <3>3. CASE Head(queue).do \in {"row", "event"}
      BY <2>1, <2>2, <3>1, <3>3, DataLoose DEF Execute
    <3>4. CASE Head(queue).do = "commit"
      <4>1. disk' = mem /\ UNCHANGED mem
        BY <2>1, <3>4 DEF Execute
      <4>2. \A n \in Transitions \ loose : n \in mem.rows <=> n \in mem.events
        <5> TAKE n \in Transitions \ loose
        <5>1. CASE \E c \in Clients : op[c] = n /\ pc[c] \in Inside
          BY <3>2, <5>1
        <5>2. CASE \A c \in Clients : op[c] = n => pc[c] \notin Inside
          BY <5>2 DEF DataInv
        <5> QED  BY <5>1, <5>2
      <4>3. \A d \in Clients : pc[d] \in {"lock"} \cup Inside => op[d] \notin mem.rows \cup mem.events
        BY <3>2 DEF DataInv
      <4> QED  BY <1>0, <2>1, <2>2, <4>1, <4>2, <4>3, DataCommit
    <3>5. CASE Head(queue).do = "rollback"
      <4>1. mem' = disk /\ UNCHANGED disk
        BY <2>1, <3>5 DEF Execute
      <4>2. \A d \in Clients : pc[d] \in {"lock"} \cup Inside => ~(pc[d] \in {"issue", "wait"} /\ at[d] > 1)
        BY <3>2 DEF Inside
      <4>3. failed \subseteq 1..Len(kind)
        BY DEF DataInv
      <4> QED  BY <1>0, <2>1, <2>2, <4>1, <4>2, <4>3, DataRollback
    <3> QED  BY <2>1, <3>3, <3>4, <3>5
  <2>3. ASSUME NEW c \in Waiting(Head(queue).op), pc[c] = "wait", Advance(c), UNCHANGED failed
        PROVE  DataInv'
    <3>1. /\ c \in Clients /\ lock = c /\ op[c] # 0 /\ op[c] = Head(queue).op
          /\ Head(queue).do = Program(c)[at[c]] /\ \A d \in Clients : op[d] = op[c] => d = c
      BY <2>1, <2>3, HeadIs
    <3>2. /\ op[c] \in 1..Len(kind) /\ KindOf(c) \in Kinds /\ at[c] \in 1..Len(Program(c))
          /\ Program(c)[at[c]] \in {"row", "event", "commit"}
      BY <3>1, CurrentStatement
    <3>3. Program(c)[at[c]] = "commit" <=> ~(at[c] < Len(Program(c)))
      <4>1. CASE KindOf(c) = "transition"
        <5>1. Len(Program(c)) = 3 /\ at[c] \in {1, 2, 3}
          BY <3>2, <4>1, Programs DEF Program
        <5> QED  BY <4>1, <5>1, Programs DEF Program
      <4>2. CASE KindOf(c) \in {"save", "append"}
        <5>1. Len(Program(c)) = 2 /\ at[c] \in {1, 2}
          BY <3>2, <4>2, Programs DEF Program
        <5> QED  BY <4>2, <5>1, Programs DEF Program
      <4> QED  BY <3>2, <4>1, <4>2 DEF Kinds
    <3>4. CASE at[c] < Len(Program(c))
      <4>1. /\ \A d \in Clients : pc'[d] = IF d = c THEN "issue" ELSE pc[d]
            /\ \A d \in Clients : at'[d] = IF d = c THEN at[c] + 1 ELSE at[d]
            /\ UNCHANGED <<op, published>>
        BY <2>3, <3>1, <3>4 DEF Advance, Goto, TypeInv
      <4>2. /\ UNCHANGED disk
            /\ \/ Program(c)[at[c]] = "row" /\ mem' = [mem EXCEPT !.rows = @ \cup {op[c]}]
               \/ Program(c)[at[c]] = "event" /\ mem' = [mem EXCEPT !.events = @ \cup {op[c]}]
        BY <2>1, <3>1, <3>2, <3>3, <3>4 DEF Execute
      <4> QED  BY <2>1, <2>3, <3>1, <4>1, <4>2, DataWrite
    <3>5. CASE ~(at[c] < Len(Program(c)))
      <4>1. disk' = mem /\ UNCHANGED mem
        BY <2>1, <3>1, <3>3, <3>5 DEF Execute
      <4>2. /\ \A d \in Clients : d # c => pc'[d] = pc[d] /\ op'[d] = op[d] /\ at'[d] = at[d]
            /\ pc'[c] \in {"publish", "idle"} /\ op'[c] \in {0, op[c]}
            /\ published' \subseteq published \cup {op[c]}
        BY <2>3, <3>1, <3>5 DEF Advance, Goto, TypeInv
      <4>3. \A d \in Clients : pc'[d] \in {"lock"} \cup Inside =>
              pc'[d] = pc[d] /\ op'[d] = op[d] /\ at'[d] = at[d] /\ pc[d] = "lock"
        BY <3>1, <4>2 DEF CallInv, Inside
      <4>4. \A d \in Clients : pc[d] = "lock" => op[d] \notin mem.rows \cup mem.events
        BY DEF DataInv
      <4>5. \A n \in Transitions \ loose : n \in mem.rows <=> n \in mem.events
        <5> TAKE n \in Transitions \ loose
        <5>1. CASE n = op[c]
          <6>1. KindOf(c) = "transition" /\ at[c] = 3
            BY <3>2, <3>5, <5>1, Programs DEF Transitions, KindOf, Program
          <6> QED  BY <2>3, <3>1, <5>1, <6>1 DEF DataInv
        <5>2. CASE n # op[c]
          <6>1. \A d \in Clients : op[d] = n => pc[d] \notin Inside
            BY <3>1, <5>2 DEF CallInv
          <6> QED  BY <6>1 DEF DataInv
        <5> QED  BY <5>1, <5>2
      <4>6. published' \subseteq 1..Len(kind) /\ \A d \in Clients : op'[d] \in {0, op[d]}
        BY <1>0, <3>2, <4>2
      <4> QED  BY <2>1, <2>3, <4>1, <4>3, <4>4, <4>5, <4>6, DataCommit
    <3> QED  BY <3>4, <3>5
  <2>4. ASSUME NEW c \in Waiting(Head(queue).op), pc[c] = "rolling", Leave(c),
               failed' = failed \cup {op[c]}, UNCHANGED <<at, pubVars>>
        PROVE  DataInv'
    <3>1. /\ c \in Clients /\ lock = c /\ op[c] # 0 /\ Head(queue).do = "rollback"
          /\ \A d \in Clients : op[d] = op[c] => d = c
      BY <2>1, <2>4, HeadIs
    <3>2. mem' = disk /\ UNCHANGED disk
      BY <2>1, <3>1 DEF Execute
    <3>3. /\ \A d \in Clients : op'[d] = IF d = c THEN 0 ELSE op[d]
          /\ \A d \in Clients : pc'[d] = IF d = c THEN "idle" ELSE pc[d]
      BY <2>4 DEF Leave, Goto, TypeInv
    <3>4. \A d \in Clients : pc'[d] \in {"lock"} \cup Inside =>
            pc'[d] = pc[d] /\ op'[d] = op[d] /\ pc'[d] = "lock"
      BY <3>1, <3>3 DEF CallInv, Inside
    <3>5. op[c] \in 1..Len(kind) /\ failed' \subseteq 1..Len(kind)
      BY <2>4, <3>1, CurrentStatement DEF DataInv
    <3>6. op[c] \notin disk.rows \cup disk.events /\ \A d \in Clients : op'[d] # op[c]
      BY <2>4, <3>1, <3>3 DEF DataInv, Inside
    <3>7. \A d \in Clients : op'[d] \in {0, op[d]}
      BY <3>3
    <3> QED  BY <1>0, <2>1, <2>4, <3>2, <3>4, <3>5, <3>6, <3>7, DataRollback
  <2> QED  BY <1>4, <2>2, <2>3, <2>4 DEF Succeed
<1>5. CASE FailStatement
  <2>1. queue # <<>> /\ UNCHANGED <<kind, at, mem, disk, published, loose>>
    BY <1>5 DEF FailStatement
  <2>2. CASE Waiting(Head(queue).op) = {} /\ UNCHANGED <<op, pc, lock, failed, unsure>>
    BY <1>0, <2>1, <2>2, DataQuiet
  <2>3. ASSUME NEW c \in Waiting(Head(queue).op), AfterFailure(c, Head(queue).do) PROVE DataInv'
    <3>1. /\ c \in Clients /\ lock = c /\ op[c] # 0 /\ Head(queue).do # "rollback"
          /\ pc[c] = "wait" /\ Head(queue).do = Program(c)[at[c]]
      BY <1>5, <2>1, <2>3, HeadIs DEF Waiting, FailStatement
    <3>2. /\ KindOf(c) \in Kinds /\ at[c] \in 1..Len(Program(c)) /\ op[c] \in 1..Len(kind)
      BY <3>1, CurrentStatement
    <3>3. CASE KindOf(c) = "transition" /\ Head(queue).do # "commit"
      <4>1. /\ \A d \in Clients : pc'[d] = IF d = c THEN "rollback" ELSE pc[d]
            /\ UNCHANGED <<op, failed, unsure>>
        BY <2>3, <3>3 DEF AfterFailure, Goto, TypeInv
      <4>2. UNCHANGED Transitions /\ \A d \in Clients : KindOf(d)' = KindOf(d)
        BY <2>1, <4>1 DEF Transitions, Begun, KindOf
      <4>3. \A n \in Transitions \ loose :
              (\A d \in Clients : op[d] = n => pc'[d] \notin Inside) => (n \in mem.rows <=> n \in mem.events)
        BY <3>1, <4>1 DEF DataInv, Inside
      <4>4. \A d \in Clients : pc'[d] \in {"lock"} \cup Inside => op[d] \notin disk.rows \cup disk.events
        BY <3>1, <4>1 DEF DataInv, Inside
      <4>5. \A d \in Clients : pc'[d] \in {"lock", "issue", "wait"} => pc'[d] = pc[d]
        BY <4>1
      <4>6. UncancelledAtomic'
        BY <2>1, <4>2 DEF DataInv, UncancelledAtomic
      <4> QED  BY <2>1, <4>1, <4>2, <4>3, <4>4, <4>5, <4>6 DEF DataInv
    <3>4. CASE ~(KindOf(c) = "transition" /\ Head(queue).do # "commit")
      <4>1. /\ Leave(c) /\ failed' = failed \cup {op[c]}
            /\ unsure' = IF Head(queue).do = "commit" THEN unsure \cup {op[c]} ELSE unsure
        BY <2>3, <3>4 DEF AfterFailure
      <4>2. op[c] \in unsure' \/ op[c] \notin mem.rows \cup mem.events
        <5> SUFFICES ASSUME Head(queue).do # "commit" PROVE op[c] \notin mem.rows \cup mem.events
          BY <4>1
        <5>1. KindOf(c) \in {"save", "append"}
          BY <3>2, <3>4 DEF Kinds
        <5>2. at[c] = 1
          BY <3>1, <3>2, <5>1, Programs DEF Program
        <5> QED  BY <3>1, <5>2 DEF DataInv
      <4>3. KindOf(c) = "transition" => (op[c] \in mem.rows <=> op[c] \in mem.events)
        <5> SUFFICES ASSUME KindOf(c) = "transition" PROVE op[c] \in mem.rows /\ op[c] \in mem.events
          OBVIOUS
        <5>1. at[c] = 3
          BY <3>1, <3>2, <3>4, Programs DEF Program
        <5> QED  BY <3>1, <5>1 DEF DataInv
      <4> QED  BY <2>1, <3>1, <4>1, <4>2, <4>3, DataLeave
    <3> QED  BY <3>3, <3>4
  <2> QED  BY <1>5, <2>2, <2>3 DEF FailStatement
<1>6. ASSUME NEW c \in Clients, Cancel(c) PROVE DataInv'
  <2>1. /\ Leave(c) /\ op[c] # 0 /\ UNCHANGED <<kind, at, mem, disk, published, failed, unsure>>
        /\ loose' = IF pc[c] \in Inside THEN loose \cup {op[c]} ELSE loose
    BY <1>6 DEF Cancel, TypeInv, Inside
  <2>2. op[c] \in failed => op[c] \in unsure' \cup loose' \/ op[c] \notin mem.rows \cup mem.events
    BY <2>1 DEF DataInv
  <2> QED  BY <2>1, <2>2, DataLeave
<1>7. ASSUME NEW c \in Clients, Publish(c) PROVE DataInv'
  <2>1. /\ pc[c] = "publish" /\ op[c] # 0
        /\ UNCHANGED <<kind, at, mem, disk, published, failed, unsure, loose>>
    BY <1>7 DEF Publish, TypeInv
  <2>2. CASE UNCHANGED <<op, pc, lock>>
    BY <1>0, <2>1, <2>2, DataQuiet
  <2>3. CASE Leave(c)
    <3>1. op[c] \in failed => op[c] \in unsure \cup loose \/ op[c] \notin mem.rows \cup mem.events
      BY DEF DataInv
    <3> QED  BY <2>1, <2>3, <3>1, DataLeave DEF Inside
  <2> QED  BY <1>7, <2>2, <2>3 DEF Publish
<1>8. ASSUME NEW w \in Sockets, Connect(w) \/ Drop(w) \/ Disconnect(w) PROVE DataInv'
  BY <1>0, <1>8, DataQuiet DEF Connect, Drop, Disconnect
<1>9. CASE Crash
  <2>1. /\ \A c \in Clients : op'[c] = 0 /\ pc'[c] = "idle" /\ mem' = disk
        /\ UNCHANGED <<kind, disk, published, failed, unsure, loose>>
    BY <1>9 DEF Crash
  <2>2. mem' = disk /\ UNCHANGED <<kind, disk, published, failed, unsure, loose>>
    BY <1>9 DEF Crash
  <2>3. failed \subseteq 1..Len(kind)
    BY DEF DataInv
  <2> QED  BY <1>0, <2>1, <2>2, <2>3, DataRollback DEF Inside
<1>10. CASE UNCHANGED vars
  BY <1>0, <1>10, DataQuiet DEF vars
<1> QED  BY <1>1, <1>2, <1>3, <1>4, <1>5, <1>6, <1>7, <1>8, <1>9, <1>10 DEF Next, ClientStep

(* The database explains itself for every operation that was not cancelled    *)
(* inside its transaction, holds every published event, and holds nothing of *)
(* an operation that was reported as failed.                                *)
LEMMA HonestData == TypeInv /\ DataInv /\ PublishedIsDurable => StoreIsHonest
<1> SUFFICES ASSUME TypeInv, DataInv, PublishedIsDurable PROVE StoreIsHonest
  OBVIOUS
<1>1. FailedStaysOut
  BY DEF DataInv, FailedStaysOut
<1> QED  BY <1>1, TypeInvIsType DEF DataInv, StoreIsHonest

----------------------------------------------------------------------------
(* What the clients are told *)

LEMMA DeliverInit == Init => DeliverInv
BY NoneAssumption, SocketsAssumption
   DEF Init, DeliverInv, PublishedIsDurable, DeliveredToOpen, IsOpen, Empty

(* Steps that publish nothing and send nothing.                             *)
LEMMA DeliverQuiet ==
  ASSUME TypeInv, DeliverInv, UNCHANGED <<table, sock, got, unsent, published, owed>>,
         disk.events \subseteq disk'.events,
         \A c \in Clients : op[c] \in published => op'[c] = op[c],
         \A c \in Clients : op'[c] = op[c] \/ op'[c] \notin published,
         \A c \in Clients : pc'[c] = "publish" => pc[c] = "publish" /\ op'[c] = op[c]
  PROVE  DeliverInv'
<1>1. \A c \in Clients, n \in published : op'[c] = n <=> op[c] = n
  OBVIOUS
<1>2. DeliveredToOpen'
  BY <1>1 DEF DeliverInv, DeliveredToOpen, IsOpen
<1>3. PublishedIsDurable'
  BY DEF DeliverInv, PublishedIsDurable
<1> QED  BY <1>1, <1>2, <1>3 DEF DeliverInv, IsOpen

(* A client leaves before it publishes, or with its connections released.    *)
LEMMA DeliverLeave ==
  ASSUME TypeInv, CallInv, DeliverInv, NEW c \in Clients, op[c] # 0, Leave(c),
         UNCHANGED <<table, sock, got, published>>, disk.events \subseteq disk'.events,
         \A d \in Clients : d # c => unsent'[d] = unsent[d],
         \A n \in Ops : owed'[n] = owed[n] \/ owed'[n] = {},
         op[c] \in published => \A w \in owed'[op[c]] : IsOpen(w) => op[c] \in got[w]
  PROVE  DeliverInv'
<1>1. /\ \A d \in Clients : op'[d] = IF d = c THEN 0 ELSE op[d]
      /\ \A d \in Clients : pc'[d] = IF d = c THEN "idle" ELSE pc[d]
  BY DEF Leave, Goto, TypeInv
<1>2. published \subseteq Ops /\ \A n \in published : owed'[n] \subseteq owed[n]
  BY DEF TypeInv
<1>3. \A d \in Clients : op'[d] # 0 => d # c /\ op'[d] = op[d] /\ unsent'[d] = unsent[d]
  BY <1>1
<1>4. \A n \in published : n # 0
  BY <1>2, OpsAssumption DEF Ops
<1>5. ASSUME NEW n \in published, \A d \in Clients : op'[d] # n, NEW w \in owed'[n], IsOpen(w)
      PROVE  n \in got[w]
  <2>1. CASE n = op[c]
    BY <1>5, <2>1
  <2>2. CASE n # op[c]
    <3>1. \A d \in Clients : op[d] # n
      BY <1>1, <1>5, <2>2
    <3> QED  BY <1>2, <1>5, <3>1 DEF DeliverInv, DeliveredToOpen
  <2> QED  BY <2>1, <2>2
<1>6. DeliveredToOpen'
  BY <1>5 DEF DeliveredToOpen, IsOpen
<1>7. ASSUME NEW n \in published, NEW d \in Clients, op'[d] = n, NEW w \in owed'[n], IsOpen(w)
      PROVE  n \in got[w] \/ w \in unsent'[d]
  BY <1>2, <1>3, <1>4, <1>7 DEF DeliverInv
<1>8. PublishedIsDurable'
  BY DEF DeliverInv, PublishedIsDurable
<1>9. \A w \in Sockets : sock'[w] = "new" =>
        (\A s \in Sessions : table'[s] # w) /\ (\A n \in Ops : w \notin owed'[n])
  BY DEF DeliverInv
<1>10. \A d \in Clients : pc'[d] = "publish" => op'[d] \in published
  BY <1>1 DEF DeliverInv
<1> QED  BY <1>6, <1>7, <1>8, <1>9, <1>10 DEF DeliverInv, IsOpen

LEMMA DeliverStep == TypeInv /\ CallInv /\ DataInv /\ DeliverInv /\ [Next]_vars => DeliverInv'
<1> SUFFICES ASSUME TypeInv, CallInv, DataInv, DeliverInv, [Next]_vars PROVE DeliverInv'
  OBVIOUS
<1> USE DEF callVars, dataVars, sockVars, pubVars, history
<1>0. \A c \in Clients : pc[c] \in {"lock"} \cup Inside => op[c] \notin published
  BY DEF DataInv, DeliverInv, PublishedIsDurable
<1>1. ASSUME NEW c \in Clients, Begin(c) PROVE DeliverInv'
  <2>1. PICK k \in Kinds : kind' = Append(kind, k)
    BY <1>1 DEF Begin
  <2>2. Len(kind') = Len(kind) + 1 /\ Len(kind) \in Nat
    BY <2>1, AppendIs DEF TypeInv
  <2>3. /\ \A d \in Clients : op'[d] = IF d = c THEN Len(kind) + 1 ELSE op[d]
        /\ \A d \in Clients : pc'[d] = IF d = c THEN "lock" ELSE pc[d]
        /\ op[c] = 0 /\ UNCHANGED <<table, sock, got, unsent, published, owed, disk>>
    BY <1>1, <2>2 DEF Begin, Goto, TypeInv
  <2>4. published \subseteq 1..Len(kind)
    BY DEF DataInv
  <2>5. 0 \notin published /\ Len(kind) + 1 \notin published
    BY <2>2, <2>4
  <2> QED  BY <2>3, <2>5, DeliverQuiet
<1>2. ASSUME NEW c \in Clients, Acquire(c) \/ Issue(c) PROVE DeliverInv'
  <2>1. UNCHANGED <<op, disk, table, sock, got, unsent, published, owed>>
    BY <1>2 DEF Acquire, Issue
  <2>2. \A d \in Clients : pc'[d] = "publish" => pc[d] = "publish"
    BY <1>2 DEF Acquire, Issue, Goto, TypeInv
  <2> QED  BY <2>1, <2>2, DeliverQuiet
<1>3. CASE Succeed
  <2>1. /\ queue # <<>> /\ Execute(Head(queue)) /\ UNCHANGED <<kind, table, sock, got>>
        /\ Head(queue).do \in {"row", "event", "commit", "rollback"}
    BY <1>3, HeadIs DEF Succeed, Statement
  <2>2. disk.events \subseteq disk'.events
    BY <2>1 DEF Execute, DataInv
  <2>3. CASE UNCHANGED <<op, pc, at, lock, pubVars, failed>>
    BY <2>1, <2>2, <2>3, DeliverQuiet
  <2>4. ASSUME NEW c \in Waiting(Head(queue).op), pc[c] = "wait", Advance(c) PROVE DeliverInv'
    <3>1. /\ c \in Clients /\ lock = c /\ op[c] # 0
          /\ Head(queue).do = Program(c)[at[c]] /\ \A d \in Clients : op[d] = op[c] => d = c
      BY <2>1, <2>4, HeadIs
    <3>2. op[c] \in 1..Len(kind) /\ op[c] \in Ops /\ KindOf(c) \in Kinds /\ at[c] \in 1..Len(Program(c))
      BY <3>1, CurrentStatement
    <3>3. CASE at[c] < Len(Program(c))
      <4>1. /\ \A d \in Clients : pc'[d] = "publish" => pc[d] = "publish"
            /\ UNCHANGED <<op, unsent, published, owed>>
        BY <2>4, <3>3 DEF Advance, Goto, TypeInv
      <4> QED  BY <2>1, <2>2, <4>1, DeliverQuiet
    <3>4. CASE ~(at[c] < Len(Program(c))) /\ ~HasEvent(c)
      <4>1. Leave(c) /\ UNCHANGED <<unsent, published, owed>>
        BY <2>4, <3>4 DEF Advance, Leave
      <4>2. op[c] \notin published
        BY <1>0, <2>4, <3>1 DEF Inside
      <4> QED  BY <2>1, <2>2, <3>1, <4>1, <4>2, DeliverLeave
    <3>5. CASE ~(at[c] < Len(Program(c))) /\ HasEvent(c)
      <4>1. PICK open \in SUBSET Sockets :
              /\ \A w \in open : \E s \in Sessions : table[s] = w
              /\ unsent' = [unsent EXCEPT ![c] = open]
              /\ owed' = [owed EXCEPT ![op[c]] = open]
        <5>1. {table[s] : s \in Sessions} \ {None} \in SUBSET Sockets
          BY DEF TypeInv
        <5> QED  BY <2>4, <3>5, <5>1 DEF Advance
      <4>2. /\ published' = published \cup {op[c]} /\ UNCHANGED op
            /\ \A d \in Clients : pc'[d] = IF d = c THEN "publish" ELSE pc[d]
        BY <2>4, <3>5 DEF Advance, Goto, TypeInv
      <4>3. /\ \A d \in Clients : unsent'[d] = IF d = c THEN open ELSE unsent[d]
            /\ \A n \in Ops : owed'[n] = IF n = op[c] THEN open ELSE owed[n]
        BY <3>2, <4>1 DEF TypeInv
      <4>4. Program(c)[at[c]] = "commit" /\ at[c] > 1
        <5>0. Len(Program(c)) \in Nat /\ at[c] = Len(Program(c))
          <6>1. Len(Program(c)) \in {2, 3}
            BY <3>2, Programs DEF Program, Kinds
          <6> QED  BY <3>2, <3>5, <6>1
        <5>1. CASE KindOf(c) = "transition"
          BY <5>0, <5>1, Programs DEF Program
        <5>2. CASE KindOf(c) = "append"
          BY <5>0, <5>2, Programs DEF Program
        <5> QED  BY <3>2, <3>5, <5>1, <5>2 DEF HasEvent, Kinds
      <4>5. disk' = mem
        BY <2>1, <3>1, <4>4 DEF Execute
      <4>6. op[c] \in mem.events
        <5>0. at[c] \in {1, 2, 3}
          BY <3>1 DEF TypeInv
        <5>1. KindOf(c) = "transition" => at[c] = 3
          BY <4>4, <5>0, Programs DEF Program
        <5> QED  BY <2>4, <3>1, <3>2, <3>5, <4>4, <5>1 DEF DataInv, HasEvent, Kinds
      <4>7. PublishedIsDurable'
        BY <2>1, <2>2, <4>2, <4>5, <4>6 DEF DeliverInv, PublishedIsDurable
      <4>8. \A w \in Sockets : sock'[w] = "new" =>
              (\A s \in Sessions : table'[s] # w) /\ (\A n \in Ops : w \notin owed'[n])
        BY <2>1, <4>1, <4>3 DEF DeliverInv
      <4>9. published' \subseteq Ops
        BY <3>2, <4>2 DEF TypeInv
      <4>10. ASSUME NEW n \in published', NEW d \in Clients, op'[d] = n, NEW w \in owed'[n], IsOpen(w)
             PROVE  n \in got[w] \/ w \in unsent'[d]
        <5>1. CASE n = op[c]
          <6>1. d = c
            BY <3>1, <4>2, <4>10, <5>1
          <6> QED  BY <3>2, <4>3, <4>10, <5>1, <6>1
        <5>2. CASE n # op[c]
          <6>1. d # c /\ n \in published /\ owed'[n] = owed[n] /\ unsent'[d] = unsent[d]
            BY <4>2, <4>3, <4>9, <4>10, <5>2
          <6> QED  BY <4>2, <4>10, <6>1 DEF DeliverInv
        <5> QED  BY <5>1, <5>2
      <4>11. DeliveredToOpen'
        <5> SUFFICES ASSUME NEW n \in published', \A d \in Clients : op'[d] # n,
                            NEW w \in owed'[n], IsOpen(w)
                     PROVE  n \in got[w]
          BY <2>1 DEF DeliveredToOpen, IsOpen
        <5>1. n # op[c] /\ n \in published /\ owed'[n] = owed[n]
          BY <3>1, <4>2, <4>3, <4>9
        <5> QED  BY <4>2, <5>1 DEF DeliverInv, DeliveredToOpen
      <4>12. \A d \in Clients : pc'[d] = "publish" => op'[d] \in published'
        BY <4>2 DEF DeliverInv
      <4> QED  BY <2>1, <4>7, <4>8, <4>10, <4>11, <4>12 DEF DeliverInv, IsOpen
    <3> QED  BY <3>3, <3>4, <3>5
  <2>5. ASSUME NEW c \in Waiting(Head(queue).op), pc[c] = "rolling", Leave(c), UNCHANGED pubVars
        PROVE  DeliverInv'
    <3>1. c \in Clients /\ op[c] # 0 /\ op[c] \notin published
      BY <1>0, <2>1, <2>5, HeadIs DEF Inside
    <3> QED  BY <2>1, <2>2, <2>5, <3>1, DeliverLeave
  <2> QED  BY <1>3, <2>3, <2>4, <2>5 DEF Succeed
<1>4. CASE FailStatement
  <2>1. queue # <<>> /\ UNCHANGED <<kind, disk, table, sock, got, unsent, published, owed>>
    BY <1>4 DEF FailStatement
  <2>2. CASE UNCHANGED <<op, pc, lock, failed, unsure>>
    BY <2>1, <2>2, DeliverQuiet
  <2>3. ASSUME NEW c \in Waiting(Head(queue).op), AfterFailure(c, Head(queue).do) PROVE DeliverInv'
    <3>1. c \in Clients /\ op[c] # 0 /\ op[c] \notin published
      BY <1>0, <2>1, <2>3, HeadIs DEF Inside, Waiting
    <3>2. CASE Goto(c, "rollback") /\ UNCHANGED op
      <4>1. \A d \in Clients : pc'[d] = "publish" => pc[d] = "publish"
        BY <3>2 DEF Goto, TypeInv
      <4> QED  BY <2>1, <3>2, <4>1, DeliverQuiet
    <3>3. CASE Leave(c)
      BY <2>1, <3>1, <3>3, DeliverLeave
    <3> QED  BY <2>3, <3>2, <3>3 DEF AfterFailure
  <2> QED  BY <1>4, <2>2, <2>3 DEF FailStatement
<1>5. ASSUME NEW c \in Clients, Cancel(c) PROVE DeliverInv'
  <2>1. /\ Leave(c) /\ op[c] # 0 /\ op[c] \in Ops /\ UNCHANGED <<disk, table, sock, got, published>>
    BY <1>5, CurrentStatement DEF Cancel, TypeInv
  <2>2. /\ \A d \in Clients : d # c => unsent'[d] = unsent[d]
        /\ \A n \in Ops : owed'[n] = IF n = op[c] THEN {} ELSE owed[n]
    BY <1>5, <2>1 DEF Cancel, TypeInv
  <2> QED  BY <2>1, <2>2, DeliverLeave
<1>6. ASSUME NEW c \in Clients, Publish(c) PROVE DeliverInv'
  <2>1. /\ pc[c] = "publish" /\ op[c] # 0 /\ op[c] \in published
        /\ UNCHANGED <<disk, sock, published, owed>>
    BY <1>6 DEF Publish, TypeInv, DeliverInv
  <2>2. ASSUME NEW w \in unsent[c], BroadcastOne(c, w), UNCHANGED <<op, pc, lock>> PROVE DeliverInv'
    <3>1. w \in Sockets /\ \A d \in Clients : unsent'[d] = IF d = c THEN unsent[c] \ {w} ELSE unsent[d]
      BY <2>2 DEF BroadcastOne, TypeInv
    <3>2. /\ \A v \in Sockets : got[v] \subseteq got'[v] /\ got'[v] \subseteq got[v] \cup {op[c]}
          /\ IsOpen(w) => op[c] \in got'[w]
      <4>1. got \in [Sockets -> SUBSET Ops] /\ w \in Sockets
        BY <3>1 DEF TypeInv
      <4>2. CASE IsOpen(w)
        <5>1. got' = [got EXCEPT ![w] = got[w] \cup {op[c]}]
          BY <2>2, <4>2 DEF BroadcastOne
        <5> QED  BY <4>1, <5>1
      <4>3. CASE ~IsOpen(w)
        BY <2>2, <4>3 DEF BroadcastOne
      <4> QED  BY <4>2, <4>3
    <3>3. \A s \in Sessions : table'[s] \in {table[s], None}
      BY <2>2 DEF BroadcastOne, Entry, TypeInv
    <3>4. PublishedIsDurable'
      BY <2>1, <3>2 DEF DeliverInv, PublishedIsDurable
    <3>5. published \subseteq Ops /\ \A n \in published : owed[n] \subseteq Sockets
      BY DEF TypeInv
    <3>6. DeliveredToOpen'
      BY <2>1, <2>2, <3>2, <3>5 DEF DeliverInv, DeliveredToOpen, IsOpen
    <3>7. ASSUME NEW n \in published, NEW d \in Clients, op[d] = n, NEW v \in owed[n], IsOpen(v)
          PROVE  n \in got'[v] \/ v \in unsent'[d]
      <4>1. v \in Sockets /\ (n \in got[v] \/ v \in unsent[d])
        BY <3>5, <3>7 DEF DeliverInv
      <4> QED  BY <3>1, <3>2, <3>7, <4>1
    <3>8. \A v \in Sockets : sock'[v] = "new" =>
            (\A s \in Sessions : table'[s] # v) /\ (\A n \in Ops : v \notin owed'[n])
      BY <2>1, <3>3, NoneAssumption DEF DeliverInv
    <3> QED  BY <2>1, <2>2, <3>4, <3>6, <3>7, <3>8 DEF DeliverInv, IsOpen
  <2>3. CASE unsent[c] = {} /\ Leave(c) /\ UNCHANGED <<unsent, table, got>>
    <3>1. \A w \in owed[op[c]] : IsOpen(w) => op[c] \in got[w]
      BY <2>1, <2>3 DEF DeliverInv
    <3> QED  BY <2>1, <2>3, <3>1, DeliverLeave
  <2> QED  BY <1>6, <2>2, <2>3 DEF Publish
<1>7. ASSUME NEW w \in Sockets, Connect(w) PROVE DeliverInv'
  <2>1. /\ sock[w] = "new" /\ UNCHANGED <<op, pc, disk, got, unsent, published, owed>>
        /\ \A v \in Sockets : sock'[v] = IF v = w THEN "open" ELSE sock[v]
        /\ \A s \in Sessions : table'[s] \in {table[s], w}
    BY <1>7 DEF Connect, Entry, TypeInv
  <2>2. \A n \in published : owed[n] \subseteq Sockets /\ w \notin owed[n]
    BY <2>1 DEF DeliverInv, TypeInv
  <2>3. \A n \in published : \A v \in owed[n] : IsOpen(v)' => IsOpen(v)
    BY <2>1, <2>2 DEF IsOpen
  <2>4. DeliveredToOpen' /\ PublishedIsDurable'
    BY <2>1, <2>3 DEF DeliverInv, DeliveredToOpen, PublishedIsDurable
  <2>5. \A n \in published, c \in Clients : op[c] = n =>
          \A v \in owed[n] : IsOpen(v)' => n \in got[v] \/ v \in unsent[c]
    BY <2>3 DEF DeliverInv
  <2>6. \A v \in Sockets : sock'[v] = "new" =>
          (\A s \in Sessions : table'[s] # v) /\ (\A n \in Ops : v \notin owed[n])
    BY <2>1 DEF DeliverInv
  <2> QED  BY <2>1, <2>4, <2>5, <2>6 DEF DeliverInv
<1>8. ASSUME NEW w \in Sockets, Drop(w) \/ Disconnect(w) PROVE DeliverInv'
  <2>1. /\ UNCHANGED <<op, pc, disk, got, unsent, published, owed>>
        /\ \A v \in Sockets : sock'[v] = sock[v] \/ sock'[v] \in {"dropped", "gone"}
        /\ \A s \in Sessions : table'[s] \in {table[s], None}
    BY <1>8 DEF Drop, Disconnect, Entry, TypeInv
  <2>2. \A n \in published : \A v \in owed[n] : v \in Sockets /\ (IsOpen(v)' => IsOpen(v))
    BY <2>1 DEF IsOpen, TypeInv
  <2>3. DeliveredToOpen' /\ PublishedIsDurable'
    BY <2>1, <2>2 DEF DeliverInv, DeliveredToOpen, PublishedIsDurable
  <2>4. \A n \in published, c \in Clients : op[c] = n =>
          \A v \in owed[n] : IsOpen(v)' => n \in got[v] \/ v \in unsent[c]
    BY <2>2 DEF DeliverInv
  <2>5. \A v \in Sockets : sock'[v] = "new" =>
          (\A s \in Sessions : table'[s] # v) /\ (\A n \in Ops : v \notin owed[n])
    BY <2>1, NoneAssumption DEF DeliverInv
  <2> QED  BY <2>1, <2>3, <2>4, <2>5 DEF DeliverInv
<1>9. CASE Crash
  <2>1. /\ UNCHANGED <<disk, got, published>> /\ \A c \in Clients : pc'[c] = "idle"
        /\ \A n \in Ops : owed'[n] = {} /\ \A s \in Sessions : table'[s] = None
    BY <1>9 DEF Crash
  <2>2. published \subseteq Ops
    BY DEF TypeInv
  <2>3. \A n \in published : owed'[n] = {}
    BY <2>1, <2>2
  <2>4. DeliveredToOpen' /\ PublishedIsDurable'
    BY <2>1, <2>3 DEF DeliverInv, DeliveredToOpen, PublishedIsDurable
  <2>5. \A w \in Sockets : (\A s \in Sessions : table'[s] # w) /\ (\A n \in Ops : w \notin owed'[n])
    <3>1. \A w \in Sockets : w # None
      BY NoneAssumption
    <3>2. ASSUME NEW w \in Sockets, NEW s \in Sessions PROVE table'[s] # w
      <4>1. table'[s] = None
        BY <1>9 DEF Crash
      <4> QED  BY <3>1, <4>1
    <3>3. \A w \in Sockets, n \in Ops : w \notin owed'[n]
      BY <2>1
    <3> QED  BY <3>2, <3>3
  <2>6. \A c \in Clients : pc'[c] # "publish"
    BY <2>1
  <2>7. \A n \in published' : owed'[n] = {}
    BY <2>1, <2>3
  <2> QED  BY <2>4, <2>5, <2>6, <2>7 DEF DeliverInv
<1>10. CASE UNCHANGED vars
  BY <1>10, DeliverQuiet DEF vars
<1> QED  BY <1>1, <1>2, <1>3, <1>4, <1>5, <1>6, <1>7, <1>8, <1>9, <1>10 DEF Next, ClientStep

----------------------------------------------------------------------------
Inv == TypeInv /\ CallInv /\ DataInv /\ DeliverInv

LEMMA InvHolds == Spec => []Inv
<1>1. Init => Inv
  BY TypeInit, CallInit, DataInit, DeliverInit DEF Inv
<1>2. Inv /\ [Next]_vars => Inv'
  BY TypeStep, CallStep, DataStep, DeliverStep DEF Inv
<1> QED  BY <1>1, <1>2, PTL DEF Spec

(* What a restart finds explains itself: a transition's row and its event are  *)
(* both there or both not, unless it was cancelled inside the transaction;   *)
(* nobody was shown an event that a crash can take back; and what a caller was *)
(* told has failed is not there (Persistence._transaction, _publish).       *)
THEOREM StoreCorrect == Spec => []StoreIsHonest
<1>1. Inv => StoreIsHonest
  BY HonestData DEF Inv, DeliverInv
<1> QED  BY <1>1, InvHolds, PTL

(* A broadcast ends with the event sent to every connection that was           *)
(* registered when it was published and is still open, whatever connects,    *)
(* drops and is removed in between (ConnectionManager.broadcast).            *)
THEOREM DeliveryCorrect == Spec => []DeliveredToOpen
<1>1. Inv => DeliveredToOpen
  BY DEF Inv, DeliverInv
<1> QED  BY <1>1, InvHolds, PTL
=============================================================================
