--------------------------- MODULE GoalRunProofs ---------------------------
(***************************************************************************)
(* What the runner keeps for every plan, limit and relation of scopes: the *)
(* batches it makes are sound, no two tasks at work clash, a task is begun  *)
(* on the success of all it waits for, the rows only make legal moves, the *)
(* cap on attempts, no closed task with an attempt of its own still open,  *)
(* no verified run with work left, and nothing RUNNING after recovery.     *)
(***************************************************************************)
EXTENDS GoalRun, FiniteSetTheorems, TLAPS

(* The states the code gives its tasks: nothing is blocked or superseded.  *)
Kind ==
  /\ run \in RunStates \cup {"NONE"}
  /\ task \in [Tasks -> {"NONE", "PLANNED", "READY", "RUNNING", "SUCCEEDED",
                         "FAILED", "CANCELLED"}]
  /\ attempt \in [Tasks -> AttemptStates \cup {"NONE"}]
  /\ to \in {"NONE", "FAILED", "CANCELLED", "VERIFYING"}
  /\ tpc \in [Tasks -> TaskPoints]
  /\ ok \in [Tasks -> BOOLEAN]
  /\ tries \in [Tasks -> Nat]
  /\ attempts \in Nat /\ made \in Nat
  /\ crashes \in Nat

(* A coroutine is at work only while the executor gathers its batch, or has *)
(* died and left it behind.                                                *)
LoneInv ==
  /\ epc \notin {"gather", "dead"} => \A t \in Tasks : tpc[t] \in {"idle", "done"}
  /\ epc = "gather" => \A t \in Tasks \ batch : tpc[t] \in {"idle", "done"}

(* Where the attempt of a coroutine is, point by point.                    *)
Unclosed == {"starting", "running", "start", "flight", "killed", "close"}
Outside  == {"idle", "begin", "ready", "done", "raised"}

AttemptOf(t) ==
  /\ tpc[t] = "starting" => attempt[t] = "CREATED"
  /\ tpc[t] = "running" => attempt[t] = "STARTING"
  /\ tpc[t] \in {"start", "flight", "killed", "close"} => attempt[t] = "RUNNING"
  /\ tpc[t] \notin Unclosed /\ epc # "crashed" => attempt[t] \in AttemptTerminal \cup {"NONE"}
  /\ tpc[t] \notin Outside => task[t] \in {"READY", "RUNNING"}

ClosedOf(t) ==
  task[t] \in {"SUCCEEDED", "FAILED", "CANCELLED"} =>
    attempt[t] \in AttemptTerminal \cup {"NONE"} \cup (IF crashes > 0 THEN {"CREATED"} ELSE {})

AttemptInv == \A t \in Tasks : AttemptOf(t) /\ ClosedOf(t)

(* Recovery works on the rows of a dead process, attempts before tasks.    *)
RecoverInv ==
  /\ rpc \in {"off", "attempts", "tasks", "done"}
  /\ epc = "crashed" => crashes > 0
  /\ rpc # "off" => epc = "crashed"
  /\ rpc \in {"tasks", "done"} => \A t \in Tasks : attempt[t] \notin Orphaned
  /\ rpc = "done" => \A t \in Tasks : task[t] # "RUNNING"

(* What was evaluated still holds when the run is settled, and afterwards. *)
DoneInv ==
  /\ epc = "settle" /\ to = "VERIFYING" => \A t \in Tasks : task[t] = "SUCCEEDED"
  /\ run = "VERIFYING" => /\ epc \in {"finished", "crashed"}
                          /\ \A t \in Tasks : task[t] = "SUCCEEDED"

(* Every reservation is an attempt that was made or is about to be.        *)
Saving == {t \in Tasks : tpc[t] = "save"}

BudgetInv == made + Cardinality(Saving) <= attempts /\ attempts <= MaxAttempts

(* The row of the run is where execute is.                                 *)
RunInv ==
  /\ epc = "idle" => run = "NONE"
  /\ epc = "created" => run = "CREATED"
  /\ epc = "schedule" => run = "PLANNING"
  /\ epc = "advance" => run = "READY"
  /\ epc \in {"ready", "batch", "gather", "remaining", "gates", "evaluate",
              "settle", "cancelling"} => run = "RUNNING"
  /\ epc = "settle" => to # "NONE"
  /\ epc \in {"idle", "created", "schedule", "advance", "ready", "batch", "gather",
              "remaining", "gates", "evaluate", "settle", "cancelling",
              "finished", "dead", "crashed"}

(* How far the row of a task is, point by point of its coroutine; a task is *)
(* worked on once, so what was merged or rejected is not looked at again.  *)
Runs     == {"flight", "killed", "close", "review", "merge", "complete", "fail"}
Attempts == {"worktree", "reserve", "save", "starting", "running", "start",
             "flight", "killed", "close"}

WorkOf(t) ==
  /\ tpc[t] \in {"begin", "ready"} => task[t] = "PLANNED"
  /\ tpc[t] = "worktree" \/ tpc[t] = "start" => task[t] = "READY"
  /\ tpc[t] \in Runs => task[t] = "RUNNING"
  /\ tries[t] # 0 \/ t \in reviewing => task[t] \notin {"NONE", "PLANNED", "READY"}
  /\ tries[t] <= Limit
  /\ tpc[t] \in Attempts /\ t \notin reviewing => tries[t] < Limit
  /\ t \in rejected => tpc[t] \in {"fail", "done", "idle"} /\ task[t] \notin {"NONE", "PLANNED"}
  /\ t \in merged => tpc[t] \in {"complete", "done", "idle"} /\ task[t] \notin {"NONE", "PLANNED"}
  /\ t \in merged => t \notin rejected
  /\ t \in Isolated /\ (tpc[t] = "complete" \/ task[t] = "SUCCEEDED") => t \in merged

WorkInv ==
  /\ reviewing \in SUBSET Tasks /\ merged \in SUBSET Tasks /\ rejected \in SUBSET Tasks
  /\ \A t \in Tasks : WorkOf(t)

(* What waits in a batch may be begun as long as the executor is at work.  *)
May(t) == \A d \in Deps[t] : task[d] = "SUCCEEDED"

Sound(ts) ==
  /\ ts \in SUBSET Tasks
  /\ \A t, u \in ts : t # u => {t, u} \notin Clash
  /\ Cardinality(ts) <= MaxParallel

Apart(bs) == \A i, j \in DOMAIN bs : i # j => bs[i] \cap bs[j] = {}

Waiting(ts) == \A t \in ts : task[t] = "PLANNED" /\ May(t)

BatchInv ==
  /\ todo \in Seq(SUBSET Tasks)
  /\ epc \in {"batch", "gather"} =>
       /\ Apart(todo)
       /\ \A i \in DOMAIN todo : Sound(todo[i]) /\ Waiting(todo[i])
  /\ epc = "gather" => \A i \in DOMAIN todo : todo[i] \cap batch = {}

DepsInv ==
  \A t \in Tasks :
    Begun(t) \/ task[t] \in {"READY", "RUNNING", "SUCCEEDED", "FAILED"} => May(t)

-----------------------------------------------------------------------------
(* Induction over the natural numbers, for a set in place of a predicate:   *)
(* whatever is not in the set has a least member.                          *)
LEMMA LeastMember ==
  ASSUME NEW S, S \subseteq Nat, S # {}
  PROVE  \E n \in S : \A m \in S : n <= m
<1> DEFINE R == OpToRel(<, Nat)
<1>1. IsWellFoundedOn(R, Nat)
  BY NatLessThanWellFounded
<1>2. \A m, k \in Nat : m < k => <<m, k>> \in R
  BY DEF OpToRel
<1> HIDE DEF R
<1>3. PICK n \in S : \A m \in S : ~ (<<m, n>> \in R)
  BY <1>1, WFMin
<1>4. ASSUME NEW m \in S PROVE n <= m
  <2>1. m \in Nat /\ n \in Nat /\ ~(m < n)
    BY <1>2, <1>3
  <2> QED  BY <2>1
<1> QED  BY <1>4

LEMMA SetInduction ==
  ASSUME NEW S, 0 \in S, \A n \in Nat : n \in S => n + 1 \in S
  PROVE  Nat \subseteq S
<1> SUFFICES ASSUME Nat \ S # {} PROVE FALSE
  OBVIOUS
<1>1. PICK n \in Nat \ S : \A m \in Nat \ S : n <= m
  BY LeastMember
<1>2. n # 0 /\ n - 1 \in Nat /\ ~(n <= n - 1)
  BY <1>1
<1>3. n - 1 \in S /\ (n - 1) + 1 = n
  BY <1>1, <1>2
<1> QED  BY <1>1, <1>2, <1>3

(* f is what the steps F[1] .. F[k] make of c, one after the other.        *)
Folded(f, k, V, c, F) ==
  f \in [0..k -> V] /\ f[0] = c /\ \A i \in 1..k : f[i] = F[i][f[i-1]]

(* There is such an f: a function defined by recursion over 0..n is one.    *)
LEMMA FoldExists ==
  ASSUME NEW n \in Nat, NEW V, NEW c \in V, NEW F \in [1..n -> [V -> V]]
  PROVE  \E f : Folded(f, n, V, c, F)
<1> DEFINE S == {k \in Nat : k > n \/ \E f : Folded(f, k, V, c, F)}
<1>1. 0 \in S
  <2> DEFINE g == [i \in 0..0 |-> c]
  <2>1. Folded(g, 0, V, c, F)
    BY DEF Folded
  <2> HIDE DEF g
  <2> QED  BY <2>1
<1>2. ASSUME NEW k \in Nat, k \in S PROVE k + 1 \in S
  <2>1. CASE k >= n
    <3>1. k + 1 > n /\ k + 1 \in Nat
      BY <2>1
    <3> QED  BY <3>1
  <2>2. CASE k < n
    <3>1. PICK f : Folded(f, k, V, c, F)
      BY <1>2, <2>2
    <3> DEFINE g == [i \in 0..(k+1) |-> IF i = k + 1 THEN F[k+1][f[k]] ELSE f[i]]
    <3>2. f[k] \in V /\ k + 1 \in 1..n
      BY <2>2, <3>1 DEF Folded
    <3>3. F[k+1][f[k]] \in V
      BY <3>2
    <3>4. g \in [0..(k+1) -> V]
      BY <3>1, <3>3 DEF Folded
    <3>5. g[0] = c
      BY <3>1 DEF Folded
    <3>6. ASSUME NEW i \in 1..(k+1) PROVE g[i] = F[i][g[i-1]]
      <4>1. CASE i = k + 1
        BY <4>1
      <4>2. CASE i # k + 1
        <5>1. i \in 1..k /\ i - 1 \in 0..(k+1) /\ i - 1 # k + 1 /\ i \in 0..(k+1)
          BY <4>2
        <5>2. g[i] = f[i] /\ g[i-1] = f[i-1]
          BY <5>1
        <5> QED  BY <3>1, <5>1, <5>2 DEF Folded
      <4> QED  BY <4>1, <4>2
    <3> HIDE DEF g
    <3>7. Folded(g, k + 1, V, c, F)
      BY <3>4, <3>5, <3>6 DEF Folded
    <3> QED  BY <3>7
  <2>3. k \in Nat /\ n \in Nat
    OBVIOUS
  <2> HIDE DEF S
  <2> QED  BY <2>1, <2>2, <2>3
<1>3. Nat \subseteq S
  <2> HIDE DEF S
  <2> QED  BY <1>1, <1>2, SetInduction
<1>4. n \in S /\ ~(n > n)
  BY <1>3
<1> QED  BY <1>4

-----------------------------------------------------------------------------
(* _parallel_batches: what comes of placing tasks one by one.              *)

(* The batches split what has been looked at, and each may run at once.    *)
Split(bs, seen) ==
  /\ Apart(bs)
  /\ \A i \in DOMAIN bs : Sound(bs[i]) /\ bs[i] \subseteq seen
  /\ \A t \in seen : \E i \in DOMAIN bs : t \in bs[i]

LEMMA PlaceIs ==
  ASSUME NEW bs \in Seq(SUBSET Tasks), NEW t \in Tasks
  PROVE  \/ Place(bs, t) = Append(bs, {t})
         \/ \E i \in DOMAIN bs : /\ Fits(bs[i], t)
                                 /\ Place(bs, t) = [bs EXCEPT ![i] = @ \cup {t}]
<1> DEFINE fit == {i \in DOMAIN bs : Fits(bs[i], t)}
<1>1. CASE fit = {}
  BY <1>1 DEF Place
<1>2. CASE fit # {}
  <2>1. fit \subseteq Nat
    OBVIOUS
  <2> HIDE DEF fit
  <2>2. \E m \in fit : \A n \in fit : m <= n
    BY <1>2, <2>1, LeastMember
  <2>3. Min(fit) \in fit
    BY <2>2 DEF Min
  <2>4. Place(bs, t) = [bs EXCEPT ![Min(fit)] = @ \cup {t}]
    BY <1>2 DEF Place, fit
  <2> QED  BY <2>3, <2>4 DEF fit
<1> QED  BY <1>1, <1>2

LEMMA PlaceKeeps ==
  ASSUME NEW bs \in Seq(SUBSET Tasks), NEW t \in Tasks, NEW seen,
         t \notin seen, Split(bs, seen)
  PROVE  /\ Place(bs, t) \in Seq(SUBSET Tasks)
         /\ Split(Place(bs, t), seen \cup {t})
<1>1. CASE Place(bs, t) = Append(bs, {t})
  <2> DEFINE cs == Append(bs, {t})
  <2>1. /\ cs \in Seq(SUBSET Tasks) /\ DOMAIN cs = DOMAIN bs \cup {Len(bs) + 1}
        /\ \A i \in DOMAIN bs : cs[i] = bs[i] /\ i # Len(bs) + 1
        /\ cs[Len(bs) + 1] = {t} /\ DOMAIN bs = 1..Len(bs)
    OBVIOUS
  <2>2. Sound({t})
    <3>1. Cardinality({t}) = 1
      BY FS_Singleton
    <3> QED  BY <3>1, ConfigAssumption DEF Sound
  <2> HIDE DEF cs
  <2>3. Apart(cs)
    BY <2>1 DEF Split, Apart
  <2>4. \A i \in DOMAIN cs : Sound(cs[i]) /\ cs[i] \subseteq seen \cup {t}
    BY <2>1, <2>2 DEF Split
  <2>5. \A u \in seen \cup {t} : \E i \in DOMAIN cs : u \in cs[i]
    BY <2>1 DEF Split
  <2>6. Place(bs, t) = cs
    BY <1>1 DEF cs
  <2> QED  BY <2>1, <2>3, <2>4, <2>5, <2>6 DEF Split
<1>2. ASSUME NEW k \in DOMAIN bs, Fits(bs[k], t),
             Place(bs, t) = [bs EXCEPT ![k] = @ \cup {t}]
      PROVE  /\ Place(bs, t) \in Seq(SUBSET Tasks)
             /\ Split(Place(bs, t), seen \cup {t})
  <2> DEFINE cs == [bs EXCEPT ![k] = @ \cup {t}]
  <2>1. /\ DOMAIN cs = DOMAIN bs
        /\ \A i \in DOMAIN bs : i # k => cs[i] = bs[i]
        /\ cs[k] = bs[k] \cup {t} /\ k \in DOMAIN cs
    OBVIOUS
  <2>2. cs \in Seq(SUBSET Tasks)
    OBVIOUS
  <2>3. Sound(bs[k] \cup {t})
    <3>1. IsFiniteSet(bs[k]) /\ t \notin bs[k]
      BY PlanAssumption, FS_Subset DEF Split
    <3>2. Cardinality(bs[k] \cup {t}) = Cardinality(bs[k]) + 1
      BY <3>1, FS_AddElement
    <3>3. Cardinality(bs[k] \cup {t}) <= MaxParallel
      BY <3>1, <3>2, <1>2, FS_CardinalityType, ConfigAssumption DEF Fits
    <3>4. ASSUME NEW u \in bs[k] \cup {t}, NEW v \in bs[k] \cup {t}, u # v
          PROVE  {u, v} \notin Clash
      <4>1. CASE u \in bs[k] /\ v \in bs[k]
        BY <3>4, <4>1 DEF Split, Sound
      <4>2. CASE v = t
        <5>1. u \in bs[k] /\ {t, u} = {u, v}
          BY <3>4, <4>2
        <5> QED  BY <5>1, <1>2 DEF Fits
      <4>3. CASE u = t
        <5>1. v \in bs[k] /\ {t, v} = {u, v}
          BY <3>4, <4>3
        <5> QED  BY <5>1, <1>2 DEF Fits
      <4> QED  BY <4>1, <4>2, <4>3
    <3>5. bs[k] \cup {t} \in SUBSET Tasks
      OBVIOUS
    <3> HIDE DEF cs
    <3> QED  BY <3>3, <3>4, <3>5 DEF Sound
  <2> HIDE DEF cs
  <2>4. Apart(cs)
    BY <2>1 DEF Split, Apart
  <2>5. \A i \in DOMAIN cs : Sound(cs[i]) /\ cs[i] \subseteq seen \cup {t}
    BY <2>1, <2>3 DEF Split
  <2>6. \A u \in seen \cup {t} : \E i \in DOMAIN cs : u \in cs[i]
    BY <2>1 DEF Split
  <2>7. Place(bs, t) = cs
    BY <1>2 DEF cs
  <2> QED  BY <2>2, <2>4, <2>5, <2>6, <2>7 DEF Split
<1> QED  BY <1>1, <1>2, PlaceIs

(* What the executor is given: the recursion over the plan has a value ... *)
Onward(bs, n) == IF Order[n] \in ReadyTasks THEN Place(bs, Order[n]) ELSE bs

LEMMA PlaceType ==
  ASSUME NEW bs \in Seq(SUBSET Tasks), NEW n \in 1..Len(Order)
  PROVE  Onward(bs, n) \in Seq(SUBSET Tasks)
<1>1. Order[n] \in Tasks
  BY PlanAssumption
<1>2. Append(bs, {Order[n]}) \in Seq(SUBSET Tasks)
  BY <1>1
<1>3. \A i \in DOMAIN bs : [bs EXCEPT ![i] = @ \cup {Order[n]}] \in Seq(SUBSET Tasks)
  BY <1>1
<1>4. Place(bs, Order[n]) \in Seq(SUBSET Tasks)
  <2>1. CASE Place(bs, Order[n]) = Append(bs, {Order[n]})
    BY <1>2, <2>1
  <2>2. CASE \E i \in DOMAIN bs : Place(bs, Order[n]) = [bs EXCEPT ![i] = @ \cup {Order[n]}]
    <3>1. PICK i \in DOMAIN bs : Place(bs, Order[n]) = [bs EXCEPT ![i] = @ \cup {Order[n]}]
      BY <2>2
    <3>2. [bs EXCEPT ![i] = @ \cup {Order[n]}] \in Seq(SUBSET Tasks)
      BY <1>3
    <3> QED  BY <3>1, <3>2
  <2>3. \/ Place(bs, Order[n]) = Append(bs, {Order[n]})
        \/ \E i \in DOMAIN bs : Place(bs, Order[n]) = [bs EXCEPT ![i] = @ \cup {Order[n]}]
    BY <1>1, PlaceIs
  <2> QED  BY <2>1, <2>2, <2>3
<1> QED  BY <1>4 DEF Onward

LEMMA PlacedIs ==
  /\ Placed \in [0..Len(Order) -> Seq(SUBSET Tasks)]
  /\ Placed[0] = <<>>
  /\ \A n \in 1..Len(Order) : Placed[n] = Onward(Placed[n-1], n)
<1> DEFINE L == Len(Order)
           V == Seq(SUBSET Tasks)
           F == [n \in 1..L |-> [bs \in V |-> Onward(bs, n)]]
<1>1. L \in Nat /\ <<>> \in V
  BY PlanAssumption
<1>2. F \in [1..L -> [V -> V]]
  BY PlaceType
<1> HIDE DEF F, L, V
<1>3. PICK f : Folded(f, L, V, <<>>, F)
  BY <1>1, <1>2, FoldExists
<1>4. ASSUME NEW n \in 1..L PROVE f[n] = Onward(f[n-1], n)
  <2>1. n - 1 \in 0..L
    BY <1>1
  <2>2. f[n] = F[n][f[n-1]] /\ f[n-1] \in V
    BY <1>3, <2>1 DEF Folded
  <2> QED  BY <2>2 DEF F
<1>5. f = [n \in 0..L |-> IF n = 0 THEN <<>> ELSE Onward(f[n-1], n)]
  <2>1. ASSUME NEW n \in 0..L
        PROVE  f[n] = IF n = 0 THEN <<>> ELSE Onward(f[n-1], n)
    <3>1. n = 0 \/ n \in 1..L
      BY <1>1
    <3>2. f[0] = <<>>
      BY <1>3 DEF Folded
    <3>3. n \in 1..L => n # 0
      BY <1>1
    <3> QED  BY <1>4, <3>1, <3>2, <3>3
  <2>2. f = [n \in 0..L |-> f[n]]
    BY <1>3 DEF Folded
  <2> QED  BY <2>1, <2>2, Zenon
<1>6. Placed = [n \in 0..L |-> IF n = 0 THEN <<>> ELSE Onward(Placed[n-1], n)]
  BY <1>5, Zenon DEF Placed, Onward, L
<1>7. ASSUME NEW n \in 1..L PROVE Placed[n] = Onward(Placed[n-1], n)
  <2>1. n \in 0..L /\ n # 0
    BY <1>1
  <2> QED  BY <1>6, <2>1
<1>8. Placed[0] = <<>>
  <2>1. 0 \in 0..L
    BY <1>1
  <2> QED  BY <1>6, <2>1
<1>9. Placed \in [0..L -> V]
  <2> DEFINE S == {n \in Nat : n <= L => Placed[n] \in V}
  <2>1. 0 \in S
    BY <1>1, <1>8
  <2>2. ASSUME NEW n \in Nat, n \in S PROVE n + 1 \in S
    <3>1. CASE n + 1 <= L
      <4>1. n + 1 \in 1..L /\ n <= L /\ (n + 1) - 1 = n
        BY <3>1, <1>1
      <4>2. Placed[n + 1] = Onward(Placed[n], n + 1)
        BY <4>1, <1>7
      <4>3. Placed[n] \in V
        BY <2>2, <4>1
      <4>4. Onward(Placed[n], n + 1) \in V
        BY <4>1, <4>3, PlaceType DEF V, L
      <4> QED  BY <4>2, <4>4
    <3>2. CASE ~(n + 1 <= L)
      BY <3>2
    <3> QED  BY <3>1, <3>2
  <2>3. Nat \subseteq S
    <3> HIDE DEF S
    <3> QED  BY <2>1, <2>2, SetInduction
  <2>4. \A n \in 0..L : Placed[n] \in V
    BY <1>1, <2>3
  <2>5. Placed = [n \in 0..L |-> Placed[n]]
    BY <1>6
  <2> QED  BY <2>4, <2>5
<1> QED  BY <1>7, <1>8, <1>9 DEF L, V

(* ... which is sound: every task that is ready is in one batch, and only  *)
(* those are; no batch has two tasks that may clash or more than the limit. *)
LEMMA BatchesSplit ==
  /\ Batches \in Seq(SUBSET Tasks)
  /\ Split(Batches, ReadyTasks)
<1> DEFINE Seen(n) == {t \in ReadyTasks : \E i \in 1..n : t = Order[i]}
           S == {n \in Nat : n <= Len(Order) => Split(Placed[n], Seen(n))}
<1>1. Len(Order) \in Nat /\ \A i \in 1..Len(Order) : Order[i] \in Tasks
  BY PlanAssumption
<1>2. 0 \in S
  <2>1. Seen(0) = {} /\ DOMAIN <<>> = {}
    OBVIOUS
  <2>2. Split(<<>>, {})
    BY <2>1 DEF Split, Apart
  <2> QED  BY <2>1, <2>2, PlacedIs
<1>3. ASSUME NEW n \in Nat, n \in S PROVE n + 1 \in S
  <2>1. CASE n + 1 <= Len(Order)
    <3>1. n + 1 \in 1..Len(Order) /\ n \in 0..Len(Order) /\ (n + 1) - 1 = n /\ n <= Len(Order)
      BY <2>1, <1>1
    <3>2. Placed[n + 1] = Onward(Placed[n], n + 1) /\ Placed[n] \in Seq(SUBSET Tasks)
      BY <3>1, PlacedIs
    <3>3. Split(Placed[n], Seen(n))
      BY <1>3, <3>1
    <3>4. 1..(n+1) = 1..n \cup {n + 1} /\ n + 1 \notin 1..n
      OBVIOUS
    <3>5. CASE Order[n+1] \in ReadyTasks
      <4>1. Seen(n + 1) = Seen(n) \cup {Order[n+1]}
        BY <3>4, <3>5
      <4>2. Order[n+1] \notin Seen(n)
        <5>1. \A i \in 1..n : i \in DOMAIN Order /\ i # n + 1
          BY <3>1, <3>4, PlanAssumption
        <5>2. n + 1 \in DOMAIN Order
          BY <3>1, PlanAssumption
        <5> QED  BY <5>1, <5>2, PlanAssumption
      <4>3. Order[n+1] \in Tasks
        BY <1>1, <3>1
      <4> HIDE DEF Seen
      <4> QED  BY SMTT(30), <3>2, <3>3, <3>5, <4>1, <4>2, <4>3, PlaceKeeps DEF Onward
    <3>6. CASE Order[n+1] \notin ReadyTasks
      <4>1. Seen(n + 1) = Seen(n)
        BY <3>4, <3>6
      <4> HIDE DEF Seen
      <4> QED  BY <3>2, <3>3, <3>6, <4>1 DEF Onward
    <3> QED  BY <3>5, <3>6
  <2>2. CASE ~(n + 1 <= Len(Order))
    BY <2>2
  <2> QED  BY <2>1, <2>2
<1>4. Nat \subseteq S
  <2> HIDE DEF S
  <2> QED  BY <1>2, <1>3, SetInduction
<1>5. Split(Batches, Seen(Len(Order)))
  <2>1. Len(Order) \in S
    BY <1>1, <1>4
  <2> HIDE DEF Seen
  <2>2. Len(Order) <= Len(Order)
    BY <1>1
  <2> QED  BY <2>1, <2>2 DEF Batches
<1>6. Seen(Len(Order)) = ReadyTasks
  BY PlanAssumption DEF ReadyTasks, Tasks, Range
<1>7. Batches \in Seq(SUBSET Tasks)
  BY <1>1, PlacedIs DEF Batches
<1> QED  BY <1>5, <1>6, <1>7

-----------------------------------------------------------------------------
LEMMA CapIsNat == MaxAttempts \in Nat
<1>1. Cardinality(Tasks) \in Nat
  BY PlanAssumption, FS_CardinalityType
<1>2. Max({1, Cardinality(Tasks)}) \in {1, Cardinality(Tasks)}
  BY <1>1 DEF Max
<1>3. Max({1, Cardinality(Tasks)}) \in Nat /\ 1 + Retries \in Nat
  BY <1>1, <1>2, ConfigAssumption
<1>4. \A m, n \in Nat : m * n \in Nat
  OBVIOUS
<1> QED  BY <1>3, <1>4 DEF MaxAttempts

LEMMA CompletionIs ==
  ASSUME Kind
  PROVE  /\ Completion \in {"NONE", "FAILED", "CANCELLED", "VERIFYING"}
         /\ Completion = "VERIFYING" => \A t \in Tasks : task[t] = "SUCCEEDED"
<1>1. CASE Tasks = {}
  BY <1>1 DEF Completion
<1>2. CASE \E t \in Tasks : task[t] = "FAILED"
  BY <1>2 DEF Completion, TaskTerminal
<1>3. CASE /\ Tasks # {} /\ \A t \in Tasks : task[t] # "FAILED"
           /\ \E t \in Tasks : task[t] = "CANCELLED"
  BY <1>3 DEF Completion
<1>4. CASE /\ Tasks # {} /\ \A t \in Tasks : task[t] # "FAILED"
           /\ \A t \in Tasks : task[t] # "CANCELLED"
  BY <1>4 DEF Completion, Kind, TaskTerminal
<1> QED  BY <1>1, <1>2, <1>3, <1>4

LEMMA AfterAttemptIs ==
  ASSUME Kind, NEW t \in Tasks
  PROVE  AfterAttempt(t) \in {"merge", "fail", "review", "reserve"}
<1>1. tries[t] + 1 < Limit \/ tries[t] + 1 >= Limit
  BY ConfigAssumption DEF Kind
<1>2. CASE t \in reviewing
  BY <1>2 DEF AfterAttempt, Kind
<1>3. CASE t \notin reviewing /\ ok[t]
  BY <1>3 DEF AfterAttempt, Kind
<1>4. CASE t \notin reviewing /\ ~ok[t]
  BY <1>1, <1>4 DEF AfterAttempt, Kind
<1> QED  BY <1>2, <1>3, <1>4

(* A step of t's coroutine leaves the other tasks and everybody else alone. *)
LEMMA TaskFrame ==
  ASSUME Kind, LoneInv, NEW t \in Tasks, RunTask(t)
  PROVE  /\ UNCHANGED <<run, epc, to, todo, batch, requested, cpc, rpc, orphans, crashes, interrupted>>
         /\ epc \in {"gather", "dead"} /\ (epc = "gather" => t \in batch)
         /\ \A u \in Tasks \ {t} : /\ tpc'[u] = tpc[u] /\ task'[u] = task[u]
                                   /\ attempt'[u] = attempt[u]
<1> USE DEF Kind
<1>1. tpc[t] \notin {"idle", "done"}
  BY DEF RunTask, BeginTask, MarkTaskReady, CreateWorktree, Reserve, SaveAttempt, StartTask, CloseAttempt, AttemptKilled, Review, Integrate, CompleteTask, FailTask, StopTask, CancelTask, RunnerEnds
<1>2. UNCHANGED <<run, epc, to, todo, batch, requested, cpc, rpc, orphans, crashes, interrupted>>
  BY DEF RunTask, Idle, executor, recovery, BeginTask, MarkTaskReady, CreateWorktree, Reserve, SaveAttempt, StartTask, CloseAttempt, AttemptKilled, Review, Integrate, CompleteTask, FailTask, StopTask, CancelTask, RunnerEnds
<1>3. \A u \in Tasks \ {t} : /\ tpc'[u] = tpc[u] /\ task'[u] = task[u]
                             /\ attempt'[u] = attempt[u]
  <2>1. CASE BeginTask(t)
    BY <2>1 DEF BeginTask, Goto
  <2>2. CASE MarkTaskReady(t)
    BY <2>2 DEF MarkTaskReady, Goto
  <2>3. CASE CreateWorktree(t)
    BY <2>3 DEF CreateWorktree, Goto
  <2>4. CASE Reserve(t)
    BY <2>4 DEF Reserve, Goto
  <2>5. CASE SaveAttempt(t)
    BY <2>5 DEF SaveAttempt, Goto
  <2>6. CASE StartTask(t)
    BY <2>6 DEF StartTask, Goto
  <2>7. CASE CloseAttempt(t)
    BY <2>7 DEF CloseAttempt, Goto
  <2>8. CASE AttemptKilled(t)
    BY <2>8 DEF AttemptKilled, Goto
  <2>9. CASE Review(t)
    BY <2>9 DEF Review, Goto
  <2>10. CASE Integrate(t)
    BY <2>10 DEF Integrate, Goto
  <2>11. CASE CompleteTask(t)
    BY <2>11 DEF CompleteTask, Goto
  <2>12. CASE FailTask(t)
    BY <2>12 DEF FailTask, Goto
  <2>13. CASE StopTask(t)
    BY <2>13 DEF StopTask, Goto
  <2>14. CASE CancelTask(t)
    BY <2>14 DEF CancelTask, Goto
  <2>15. CASE \E success \in BOOLEAN : RunnerEnds(t, success)
    BY <2>15 DEF RunnerEnds
  <2> QED  BY <2>1, <2>2, <2>3, <2>4, <2>5, <2>6, <2>7, <2>8, <2>9, <2>10, <2>11, <2>12, <2>13, <2>14, <2>15 DEF RunTask
<1> QED  BY <1>1, <1>2, <1>3 DEF LoneInv

LEMMA KindStep == Kind /\ [Next]_vars => Kind'
<1> SUFFICES ASSUME Kind, [Next]_vars PROVE Kind'
  OBVIOUS
<1> USE DEF Kind
<1>1. CASE UNCHANGED vars
  BY <1>1 DEF vars, rows, executor, routine, budget, recovery, history
<1>2. CASE SaveRun
  BY <1>2 DEF SaveRun, MoveRun, RunStates, routine, budget, recovery, history, executor
<1>3. CASE StartRun
  BY <1>3 DEF StartRun, MoveRun, RunStates, routine, budget, recovery, history, executor
<1>4. CASE ScheduleTasks
  BY <1>4 DEF ScheduleTasks, MoveRun, RunStates, routine, budget, recovery, history, executor
<1>5. CASE AdvanceRun
  BY <1>5 DEF AdvanceRun, MoveRun, RunStates, routine, budget, recovery, history, executor
<1>6. CASE ListReady
  BY <1>6 DEF ListReady, rows, routine, budget, recovery, history, executor
<1>7. CASE StartBatch
  BY <1>7 DEF StartBatch, rows, TaskPoints, routine, budget, recovery, history, executor
<1>8. CASE Gathered
  BY <1>8 DEF Gathered, rows, routine, budget, recovery, history, executor
<1>9. CASE GatherRaises
  BY <1>9 DEF GatherRaises, rows, routine, budget, recovery, history, executor
<1>10. CASE Remaining
  BY <1>10 DEF Remaining, rows, routine, budget, recovery, history, executor
<1>11. CASE VerifyGates
  BY <1>11 DEF VerifyGates, rows, routine, budget, recovery, history, executor
<1>12. CASE Evaluate
  BY <1>12, CompletionIs DEF Evaluate, rows, routine, budget, recovery, history, executor
<1>13. CASE Settle
  BY <1>13 DEF Settle, MoveRun, RunStates, routine, budget, recovery, history, executor
<1>14. CASE FinishCancel
  BY <1>14 DEF FinishCancel, RunStates, routine, budget, recovery, history, executor
<1>15. CASE \E t \in Tasks : SaveTask(t)
  BY <1>15 DEF SaveTask, executor, routine, budget, recovery, history
<1>16. CASE \E t \in Tasks : CancelOpenTask(t)
  BY <1>16 DEF CancelOpenTask, executor, routine, budget, recovery, history
<1>17. CASE \E t \in Tasks : BeginTask(t)
  BY <1>17 DEF BeginTask, Idle, Goto, TaskPoints, AttemptStates, routine, budget, recovery, history, executor
<1>18. CASE \E t \in Tasks : MarkTaskReady(t)
  BY <1>18 DEF MarkTaskReady, Idle, Goto, TaskPoints, AttemptStates, routine, budget, recovery, history, executor
<1>19. CASE \E t \in Tasks : CreateWorktree(t)
  BY <1>19 DEF CreateWorktree, Idle, Goto, TaskPoints, AttemptStates, routine, budget, recovery, history, executor
<1>20. CASE \E t \in Tasks : Reserve(t)
  BY <1>20 DEF Reserve, Idle, Goto, TaskPoints, AttemptStates, routine, budget, recovery, history, executor
<1>21. CASE \E t \in Tasks : SaveAttempt(t)
  BY <1>21 DEF SaveAttempt, Idle, Goto, TaskPoints, AttemptStates, routine, budget, recovery, history, executor
<1>22. CASE \E t \in Tasks : StartTask(t)
  BY <1>22 DEF StartTask, Idle, Goto, TaskPoints, AttemptStates, routine, budget, recovery, history, executor
<1>23. CASE \E t \in Tasks : CloseAttempt(t)
  BY <1>23, AfterAttemptIs DEF CloseAttempt, Idle, Goto, TaskPoints, AttemptStates, routine, budget, recovery, history, executor
<1>24. CASE \E t \in Tasks : AttemptKilled(t)
  BY <1>24 DEF AttemptKilled, Idle, Goto, TaskPoints, AttemptStates, routine, budget, recovery, history, executor
<1>25. CASE \E t \in Tasks : Review(t)
  BY <1>25 DEF Review, Idle, Goto, TaskPoints, AttemptStates, routine, budget, recovery, history, executor
<1>26. CASE \E t \in Tasks : Integrate(t)
  BY <1>26 DEF Integrate, Idle, Goto, TaskPoints, AttemptStates, routine, budget, recovery, history, executor
<1>27. CASE \E t \in Tasks : CompleteTask(t)
  BY <1>27 DEF CompleteTask, Idle, Goto, TaskPoints, AttemptStates, routine, budget, recovery, history, executor
<1>28. CASE \E t \in Tasks : FailTask(t)
  BY <1>28 DEF FailTask, Idle, Goto, TaskPoints, AttemptStates, routine, budget, recovery, history, executor
<1>29. CASE \E t \in Tasks : StopTask(t)
  BY <1>29 DEF StopTask, Idle, Goto, TaskPoints, AttemptStates, routine, budget, recovery, history, executor
<1>30. CASE \E t \in Tasks : CancelTask(t)
  BY <1>30 DEF CancelTask, Idle, Goto, TaskPoints, AttemptStates, routine, budget, recovery, history, executor
<1>31. CASE \E t \in Tasks, success \in BOOLEAN : RunnerEnds(t, success)
  BY <1>31 DEF RunnerEnds, Idle, TaskPoints, routine, budget, recovery, history, executor
<1>32. CASE CancelLoad
  BY <1>32 DEF CancelLoad, Caller, rows, routine, budget, recovery, history, executor
<1>33. CASE CancelRequest
  BY <1>33 DEF CancelRequest, Caller, rows, routine, budget, recovery, history, executor
<1>34. CASE CancelKill
  BY <1>34 DEF CancelKill, Caller, rows, TaskPoints, routine, budget, recovery, history, executor
<1>35. CASE Crash
  BY <1>35 DEF Crash, rows, TaskPoints, routine, budget, recovery, history, executor
<1>36. CASE Recover
  BY <1>36 DEF Recover, Others, rows, routine, budget, recovery, history, executor
<1>37. CASE AttemptsRecovered
  BY <1>37 DEF AttemptsRecovered, Others, rows, routine, budget, recovery, history, executor
<1>38. CASE RecoverRun
  BY <1>38 DEF RecoverRun, Others, RunStates, routine, budget, recovery, history, executor
<1>39. CASE \E t \in Tasks : RecoverAttempt(t)
  BY <1>39 DEF RecoverAttempt, Others, AttemptStates, routine, budget, recovery, history, executor
<1>40. CASE \E t \in Tasks : RecoverTask(t)
  BY <1>40 DEF RecoverTask, Others, routine, budget, recovery, history, executor
<1> QED
  BY <1>1, <1>2, <1>3, <1>4, <1>5, <1>6, <1>7, <1>8, <1>9, <1>10, <1>11, <1>12, <1>13, <1>14, <1>15, <1>16, <1>17, <1>18, <1>19, <1>20, <1>21, <1>22, <1>23, <1>24, <1>25, <1>26, <1>27, <1>28, <1>29, <1>30, <1>31, <1>32, <1>33, <1>34, <1>35, <1>36, <1>37, <1>38, <1>39, <1>40 DEF Next, Execute, RunTask, RecoverStep

LEMMA LoneStep == Kind /\ LoneInv /\ [Next]_vars => LoneInv'
<1> SUFFICES ASSUME Kind, LoneInv, [Next]_vars PROVE LoneInv'
  OBVIOUS
<1> USE DEF Kind, LoneInv
<1>1. CASE UNCHANGED vars
  BY <1>1 DEF vars, rows, executor, routine, budget, recovery, history
<1>2. CASE SaveRun
  BY <1>2 DEF SaveRun, MoveRun, RunStates, rows, routine, budget, recovery, history, executor
<1>3. CASE StartRun
  BY <1>3 DEF StartRun, MoveRun, RunStates, rows, routine, budget, recovery, history, executor
<1>4. CASE ScheduleTasks
  BY <1>4 DEF ScheduleTasks, MoveRun, RunStates, rows, routine, budget, recovery, history, executor
<1>5. CASE AdvanceRun
  BY <1>5 DEF AdvanceRun, MoveRun, RunStates, rows, routine, budget, recovery, history, executor, UnlessCancelled
<1>6. CASE ListReady
  BY <1>6 DEF ListReady, rows, routine, budget, recovery, history, executor, UnlessCancelled
<1>7. CASE StartBatch
  BY <1>7 DEF StartBatch, rows, TaskPoints, routine, budget, recovery, history, executor
<1>8. CASE Gathered
  BY <1>8 DEF Gathered, rows, routine, budget, recovery, history, executor, UnlessCancelled
<1>9. CASE GatherRaises
  BY <1>9 DEF GatherRaises, rows, routine, budget, recovery, history, executor
<1>10. CASE Remaining
  BY <1>10 DEF Remaining, rows, routine, budget, recovery, history, executor
<1>11. CASE VerifyGates
  BY <1>11 DEF VerifyGates, rows, routine, budget, recovery, history, executor
<1>12. CASE Evaluate
  BY <1>12 DEF Evaluate, rows, routine, budget, recovery, history, executor
<1>13. CASE Settle
  BY <1>13 DEF Settle, MoveRun, RunStates, rows, routine, budget, recovery, history, executor
<1>14. CASE FinishCancel
  BY <1>14 DEF FinishCancel, RunStates, rows, routine, budget, recovery, history, executor
<1>15. CASE \E t \in Tasks : SaveTask(t)
  BY <1>15 DEF SaveTask, executor, rows, routine, budget, recovery, history
<1>16. CASE \E t \in Tasks : CancelOpenTask(t)
  BY <1>16 DEF CancelOpenTask, executor, rows, routine, budget, recovery, history
<1>17. CASE CancelLoad
  BY <1>17 DEF CancelLoad, Caller, rows, routine, budget, recovery, history, executor
<1>18. CASE CancelRequest
  BY <1>18 DEF CancelRequest, Caller, rows, routine, budget, recovery, history, executor
<1>19. CASE CancelKill
  BY <1>19 DEF CancelKill, Caller, rows, TaskPoints, routine, budget, recovery, history, executor, InFlight
<1>20. CASE Crash
  BY <1>20 DEF Crash, rows, TaskPoints, routine, budget, recovery, history, executor
<1>21. CASE Recover
  BY <1>21 DEF Recover, Others, rows, routine, budget, recovery, history, executor
<1>22. CASE AttemptsRecovered
  BY <1>22 DEF AttemptsRecovered, Others, rows, routine, budget, recovery, history, executor
<1>23. CASE RecoverRun
  BY <1>23 DEF RecoverRun, Others, RunStates, rows, routine, budget, recovery, history, executor
<1>24. CASE \E t \in Tasks : RecoverAttempt(t)
  BY <1>24 DEF RecoverAttempt, Others, AttemptStates, rows, routine, budget, recovery, history, executor
<1>25. CASE \E t \in Tasks : RecoverTask(t)
  BY <1>25 DEF RecoverTask, Others, rows, routine, budget, recovery, history, executor
<1>26. CASE \E t \in Tasks : RunTask(t)
  <2> PICK t \in Tasks : RunTask(t)
    BY <1>26
  <2> QED  BY TaskFrame
<1> QED
  BY <1>1, <1>2, <1>3, <1>4, <1>5, <1>6, <1>7, <1>8, <1>9, <1>10, <1>11, <1>12, <1>13, <1>14, <1>15, <1>16, <1>17, <1>18, <1>19, <1>20, <1>21, <1>22, <1>23, <1>24, <1>25, <1>26 DEF Next, Execute, RecoverStep

LEMMA RecoverKept == Kind /\ LoneInv /\ RecoverInv /\ [Next]_vars => RecoverInv'
<1> SUFFICES ASSUME Kind, LoneInv, RecoverInv, [Next]_vars PROVE RecoverInv'
  OBVIOUS
<1> USE DEF Kind, RecoverInv
<1>1. CASE UNCHANGED vars
  BY <1>1 DEF vars, rows, executor, routine, budget, recovery, history
<1>2. CASE SaveRun
  BY <1>2 DEF SaveRun, MoveRun, RunStates, rows, routine, budget, recovery, history, executor
<1>3. CASE StartRun
  BY <1>3 DEF StartRun, MoveRun, RunStates, rows, routine, budget, recovery, history, executor
<1>4. CASE ScheduleTasks
  BY <1>4 DEF ScheduleTasks, MoveRun, RunStates, rows, routine, budget, recovery, history, executor
<1>5. CASE AdvanceRun
  BY <1>5 DEF AdvanceRun, MoveRun, RunStates, rows, routine, budget, recovery, history, executor, UnlessCancelled
<1>6. CASE ListReady
  BY <1>6 DEF ListReady, rows, routine, budget, recovery, history, executor, UnlessCancelled
<1>7. CASE StartBatch
  BY <1>7 DEF StartBatch, rows, TaskPoints, routine, budget, recovery, history, executor
<1>8. CASE Gathered
  BY <1>8 DEF Gathered, rows, routine, budget, recovery, history, executor, UnlessCancelled
<1>9. CASE GatherRaises
  BY <1>9 DEF GatherRaises, rows, routine, budget, recovery, history, executor
<1>10. CASE Remaining
  BY <1>10 DEF Remaining, rows, routine, budget, recovery, history, executor
<1>11. CASE VerifyGates
  BY <1>11 DEF VerifyGates, rows, routine, budget, recovery, history, executor
<1>12. CASE Evaluate
  BY <1>12 DEF Evaluate, rows, routine, budget, recovery, history, executor
<1>13. CASE Settle
  BY <1>13 DEF Settle, MoveRun, RunStates, rows, routine, budget, recovery, history, executor
<1>14. CASE FinishCancel
  BY <1>14 DEF FinishCancel, RunStates, rows, routine, budget, recovery, history, executor
<1>15. CASE \E t \in Tasks : SaveTask(t)
  BY <1>15 DEF SaveTask, executor, rows, routine, budget, recovery, history
<1>16. CASE \E t \in Tasks : CancelOpenTask(t)
  BY <1>16 DEF CancelOpenTask, executor, rows, routine, budget, recovery, history
<1>17. CASE CancelLoad
  BY <1>17 DEF CancelLoad, Caller, rows, routine, budget, recovery, history, executor
<1>18. CASE CancelRequest
  BY <1>18 DEF CancelRequest, Caller, rows, routine, budget, recovery, history, executor
<1>19. CASE CancelKill
  BY <1>19 DEF CancelKill, Caller, rows, TaskPoints, routine, budget, recovery, history, executor
<1>20. CASE Crash
  BY <1>20 DEF Crash, rows, TaskPoints, routine, budget, recovery, history, executor
<1>21. CASE Recover
  BY <1>21 DEF Recover, Others, rows, routine, budget, recovery, history, executor
<1>22. CASE AttemptsRecovered
  BY <1>22 DEF AttemptsRecovered, Others, rows, routine, budget, recovery, history, executor, Orphaned
<1>23. CASE RecoverRun
  BY <1>23 DEF RecoverRun, Others, RunStates, rows, routine, budget, recovery, history, executor
<1>24. CASE \E t \in Tasks : RecoverAttempt(t)
  BY <1>24 DEF RecoverAttempt, Others, AttemptStates, rows, routine, budget, recovery, history, executor, Orphaned
<1>25. CASE \E t \in Tasks : RecoverTask(t)
  BY <1>25 DEF RecoverTask, Others, rows, routine, budget, recovery, history, executor
<1>26. CASE \E t \in Tasks : RunTask(t)
  <2> PICK t \in Tasks : RunTask(t)
    BY <1>26
  <2> QED  BY TaskFrame
<1> QED
  BY <1>1, <1>2, <1>3, <1>4, <1>5, <1>6, <1>7, <1>8, <1>9, <1>10, <1>11, <1>12, <1>13, <1>14, <1>15, <1>16, <1>17, <1>18, <1>19, <1>20, <1>21, <1>22, <1>23, <1>24, <1>25, <1>26 DEF Next, Execute, RecoverStep

LEMMA DoneStep == Kind /\ LoneInv /\ RecoverInv /\ DoneInv /\ [Next]_vars => DoneInv'
<1> SUFFICES ASSUME Kind, LoneInv, RecoverInv, DoneInv, [Next]_vars PROVE DoneInv'
  OBVIOUS
<1> USE DEF Kind, RecoverInv, DoneInv
<1>1. CASE UNCHANGED vars
  BY <1>1 DEF vars, rows, executor, routine, budget, recovery, history
<1>2. CASE SaveRun
  BY <1>2 DEF SaveRun, MoveRun, RunStates, rows, routine, budget, recovery, history, executor
<1>3. CASE StartRun
  BY <1>3 DEF StartRun, MoveRun, RunStates, rows, routine, budget, recovery, history, executor
<1>4. CASE ScheduleTasks
  BY <1>4 DEF ScheduleTasks, MoveRun, RunStates, rows, routine, budget, recovery, history, executor
<1>5. CASE AdvanceRun
  BY <1>5 DEF AdvanceRun, MoveRun, RunStates, rows, routine, budget, recovery, history, executor, UnlessCancelled
<1>6. CASE ListReady
  BY <1>6 DEF ListReady, rows, routine, budget, recovery, history, executor, UnlessCancelled
<1>7. CASE StartBatch
  BY <1>7 DEF StartBatch, rows, TaskPoints, routine, budget, recovery, history, executor
<1>8. CASE Gathered
  BY <1>8 DEF Gathered, rows, routine, budget, recovery, history, executor, UnlessCancelled
<1>9. CASE GatherRaises
  BY <1>9 DEF GatherRaises, rows, routine, budget, recovery, history, executor
<1>10. CASE Remaining
  BY <1>10 DEF Remaining, rows, routine, budget, recovery, history, executor
<1>11. CASE VerifyGates
  BY <1>11 DEF VerifyGates, rows, routine, budget, recovery, history, executor
<1>12. CASE Evaluate
  BY <1>12, CompletionIs DEF Evaluate, rows, routine, budget, recovery, history, executor
<1>13. CASE Settle
  BY <1>13 DEF Settle, MoveRun, RunStates, rows, routine, budget, recovery, history, executor
<1>14. CASE FinishCancel
  BY <1>14 DEF FinishCancel, RunStates, rows, routine, budget, recovery, history, executor, Closable
<1>15. CASE \E t \in Tasks : SaveTask(t)
  BY <1>15 DEF SaveTask, executor, rows, routine, budget, recovery, history
<1>16. CASE \E t \in Tasks : CancelOpenTask(t)
  BY <1>16 DEF CancelOpenTask, executor, rows, routine, budget, recovery, history
<1>17. CASE CancelLoad
  BY <1>17 DEF CancelLoad, Caller, rows, routine, budget, recovery, history, executor
<1>18. CASE CancelRequest
  BY <1>18 DEF CancelRequest, Caller, rows, routine, budget, recovery, history, executor
<1>19. CASE CancelKill
  BY <1>19 DEF CancelKill, Caller, rows, TaskPoints, routine, budget, recovery, history, executor
<1>20. CASE Crash
  BY <1>20 DEF Crash, rows, TaskPoints, routine, budget, recovery, history, executor
<1>21. CASE Recover
  BY <1>21 DEF Recover, Others, rows, routine, budget, recovery, history, executor
<1>22. CASE AttemptsRecovered
  BY <1>22 DEF AttemptsRecovered, Others, rows, routine, budget, recovery, history, executor
<1>23. CASE RecoverRun
  BY <1>23 DEF RecoverRun, Others, RunStates, rows, routine, budget, recovery, history, executor
<1>24. CASE \E t \in Tasks : RecoverAttempt(t)
  BY <1>24 DEF RecoverAttempt, Others, AttemptStates, rows, routine, budget, recovery, history, executor
<1>25. CASE \E t \in Tasks : RecoverTask(t)
  BY <1>25 DEF RecoverTask, Others, rows, routine, budget, recovery, history, executor
<1>26. CASE \E t \in Tasks : RunTask(t)
  <2> PICK t \in Tasks : RunTask(t)
    BY <1>26
  <2> QED  BY TaskFrame
<1> QED
  BY <1>1, <1>2, <1>3, <1>4, <1>5, <1>6, <1>7, <1>8, <1>9, <1>10, <1>11, <1>12, <1>13, <1>14, <1>15, <1>16, <1>17, <1>18, <1>19, <1>20, <1>21, <1>22, <1>23, <1>24, <1>25, <1>26 DEF Next, Execute, RecoverStep

LEMMA AttemptStep == Kind /\ LoneInv /\ RecoverInv /\ AttemptInv /\ [Next]_vars => AttemptInv'
<1> SUFFICES ASSUME Kind, LoneInv, RecoverInv, AttemptInv, [Next]_vars PROVE AttemptInv'
  OBVIOUS
<1> USE DEF Kind, AttemptInv, AttemptOf, ClosedOf, Unclosed, Outside, AttemptTerminal, AttemptStates
<1>1. CASE UNCHANGED vars
  BY <1>1 DEF vars, rows, executor, routine, budget, recovery, history
<1>2. CASE SaveRun
  BY <1>2 DEF SaveRun, MoveRun, RunStates, rows, routine, budget, recovery, history, executor
<1>3. CASE StartRun
  BY <1>3 DEF StartRun, MoveRun, RunStates, rows, routine, budget, recovery, history, executor
<1>4. CASE ScheduleTasks
  BY <1>4 DEF ScheduleTasks, MoveRun, RunStates, rows, routine, budget, recovery, history, executor
<1>5. CASE AdvanceRun
  BY <1>5 DEF AdvanceRun, MoveRun, RunStates, rows, routine, budget, recovery, history, executor, UnlessCancelled
<1>6. CASE ListReady
  BY <1>6 DEF ListReady, rows, routine, budget, recovery, history, executor, UnlessCancelled
<1>7. CASE StartBatch
  BY <1>7 DEF StartBatch, rows, TaskPoints, routine, budget, recovery, history, executor, LoneInv
<1>8. CASE Gathered
  BY <1>8 DEF Gathered, rows, routine, budget, recovery, history, executor, UnlessCancelled
<1>9. CASE GatherRaises
  BY <1>9 DEF GatherRaises, rows, routine, budget, recovery, history, executor
<1>10. CASE Remaining
  BY <1>10 DEF Remaining, rows, routine, budget, recovery, history, executor
<1>11. CASE VerifyGates
  BY <1>11 DEF VerifyGates, rows, routine, budget, recovery, history, executor
<1>12. CASE Evaluate
  BY <1>12 DEF Evaluate, rows, routine, budget, recovery, history, executor
<1>13. CASE Settle
  BY <1>13 DEF Settle, MoveRun, RunStates, rows, routine, budget, recovery, history, executor
<1>14. CASE FinishCancel
  BY <1>14 DEF FinishCancel, RunStates, rows, routine, budget, recovery, history, executor
<1>15. CASE \E t \in Tasks : SaveTask(t)
  BY <1>15 DEF SaveTask, executor, rows, routine, budget, recovery, history, LoneInv
<1>16. CASE \E t \in Tasks : CancelOpenTask(t)
  BY <1>16 DEF CancelOpenTask, executor, rows, routine, budget, recovery, history, LoneInv, Open
<1>17. CASE CancelLoad
  BY <1>17 DEF CancelLoad, Caller, rows, routine, budget, recovery, history, executor
<1>18. CASE CancelRequest
  BY <1>18 DEF CancelRequest, Caller, rows, routine, budget, recovery, history, executor
<1>19. CASE CancelKill
  BY <1>19 DEF CancelKill, Caller, rows, TaskPoints, routine, budget, recovery, history, executor, InFlight
<1>20. CASE Crash
  BY <1>20 DEF Crash, rows, TaskPoints, routine, budget, recovery, history, executor, LoneInv, RecoverInv, Orphaned
<1>21. CASE Recover
  BY <1>21 DEF Recover, Others, rows, routine, budget, recovery, history, executor, LoneInv, RecoverInv, Orphaned
<1>22. CASE AttemptsRecovered
  BY <1>22 DEF AttemptsRecovered, Others, rows, routine, budget, recovery, history, executor, LoneInv, RecoverInv, Orphaned
<1>23. CASE RecoverRun
  BY <1>23 DEF RecoverRun, Others, RunStates, rows, routine, budget, recovery, history, executor, LoneInv, RecoverInv, Orphaned
<1>24. CASE \E t \in Tasks : RecoverAttempt(t)
  BY <1>24 DEF RecoverAttempt, Others, rows, routine, budget, recovery, history, executor, LoneInv, RecoverInv, Orphaned
<1>25. CASE \E t \in Tasks : RecoverTask(t)
  BY <1>25 DEF RecoverTask, Others, rows, routine, budget, recovery, history, executor, LoneInv, RecoverInv, Orphaned
<1>26. CASE \E t \in Tasks : RunTask(t)
  <2> PICK t \in Tasks : RunTask(t)
    BY <1>26
  <2>a. \A u \in Tasks \ {t} : AttemptOf(u)' /\ ClosedOf(u)'
    BY TaskFrame
  <2>b. AttemptOf(t)' /\ ClosedOf(t)'
    <3>0. epc # "crashed" /\ epc' = epc /\ crashes' = crashes
      BY TaskFrame
    <3>1. CASE BeginTask(t)
      BY <3>0, <3>1 DEF BeginTask, Goto, TaskPoints
    <3>2. CASE MarkTaskReady(t)
      BY <3>0, <3>2 DEF MarkTaskReady, Goto, TaskPoints
    <3>3. CASE CreateWorktree(t)
      BY <3>0, <3>3 DEF CreateWorktree, Goto, TaskPoints
    <3>4. CASE Reserve(t)
      BY <3>0, <3>4 DEF Reserve, Goto, TaskPoints
    <3>5. CASE SaveAttempt(t)
      BY <3>0, <3>5 DEF SaveAttempt, Goto, TaskPoints
    <3>6. CASE StartTask(t)
      BY <3>0, <3>6 DEF StartTask, Goto, TaskPoints
    <3>7. CASE CloseAttempt(t)
      BY <3>0, <3>7, AfterAttemptIs DEF CloseAttempt, Goto, TaskPoints
    <3>8. CASE AttemptKilled(t)
      BY <3>0, <3>8 DEF AttemptKilled, Goto, TaskPoints
    <3>9. CASE Review(t)
      BY <3>0, <3>9 DEF Review, Goto, TaskPoints
    <3>10. CASE Integrate(t)
      BY <3>0, <3>10 DEF Integrate, Goto, TaskPoints
    <3>11. CASE CompleteTask(t)
      BY <3>0, <3>11 DEF CompleteTask, Goto, TaskPoints
    <3>12. CASE FailTask(t)
      BY <3>0, <3>12 DEF FailTask, Goto, TaskPoints
    <3>13. CASE StopTask(t)
      BY <3>0, <3>13 DEF StopTask, Goto, TaskPoints
    <3>14. CASE CancelTask(t)
      BY <3>0, <3>14 DEF CancelTask, Goto, TaskPoints
    <3>15. CASE \E success \in BOOLEAN : RunnerEnds(t, success)
      BY <3>0, <3>15 DEF RunnerEnds, TaskPoints
    <3> QED  BY <3>1, <3>2, <3>3, <3>4, <3>5, <3>6, <3>7, <3>8, <3>9, <3>10, <3>11, <3>12, <3>13, <3>14, <3>15 DEF RunTask
  <2> QED  BY <2>a, <2>b
<1> QED
  BY <1>1, <1>2, <1>3, <1>4, <1>5, <1>6, <1>7, <1>8, <1>9, <1>10, <1>11, <1>12, <1>13, <1>14, <1>15, <1>16, <1>17, <1>18, <1>19, <1>20, <1>21, <1>22, <1>23, <1>24, <1>25, <1>26 DEF Next, Execute, RecoverStep

(* Nothing is reserved or made, and no coroutine comes to its attempt.      *)
LEMMA SavingShrinks ==
  ASSUME BudgetInv, Kind, UNCHANGED <<attempts, made>>, Saving' \subseteq Saving
  PROVE  BudgetInv'
<1>1. IsFiniteSet(Saving) /\ Cardinality(Saving) \in Nat
  BY PlanAssumption, FS_Subset, FS_CardinalityType DEF Saving
<1>2. Cardinality(Saving') \in Nat /\ Cardinality(Saving') <= Cardinality(Saving)
  BY <1>1, FS_Subset, FS_CardinalityType
<1> QED  BY <1>1, <1>2, CapIsNat DEF BudgetInv, Kind

LEMMA BudgetStep == Kind /\ BudgetInv /\ [Next]_vars => BudgetInv'
<1> SUFFICES ASSUME Kind, BudgetInv, [Next]_vars PROVE BudgetInv'
  OBVIOUS
<1>0. IsFiniteSet(Saving) /\ Cardinality(Saving) \in Nat /\ MaxAttempts \in Nat
  BY PlanAssumption, FS_Subset, FS_CardinalityType, CapIsNat DEF Saving
<1>1. CASE UNCHANGED vars
  <2>1. UNCHANGED <<attempts, made>> /\ Saving' \subseteq Saving
    BY <1>1 DEF vars, rows, executor, routine, budget, recovery, history, Saving
  <2> QED  BY <2>1, SavingShrinks
<1>2. CASE SaveRun
  <2>1. UNCHANGED <<attempts, made>> /\ Saving' \subseteq Saving
    BY <1>2 DEF SaveRun, MoveRun, Saving, vars, rows, routine, budget, recovery, history, executor
  <2> QED  BY <2>1, SavingShrinks
<1>3. CASE StartRun
  <2>1. UNCHANGED <<attempts, made>> /\ Saving' \subseteq Saving
    BY <1>3 DEF StartRun, MoveRun, Saving, vars, rows, routine, budget, recovery, history, executor
  <2> QED  BY <2>1, SavingShrinks
<1>4. CASE ScheduleTasks
  <2>1. UNCHANGED <<attempts, made>> /\ Saving' \subseteq Saving
    BY <1>4 DEF ScheduleTasks, MoveRun, Saving, vars, rows, routine, budget, recovery, history, executor
  <2> QED  BY <2>1, SavingShrinks
<1>5. CASE AdvanceRun
  <2>1. UNCHANGED <<attempts, made>> /\ Saving' \subseteq Saving
    BY <1>5 DEF AdvanceRun, MoveRun, Saving, vars, rows, routine, budget, recovery, history, executor
  <2> QED  BY <2>1, SavingShrinks
<1>6. CASE ListReady
  <2>1. UNCHANGED <<attempts, made>> /\ Saving' \subseteq Saving
    BY <1>6 DEF ListReady, rows, Saving, vars, routine, budget, recovery, history, executor
  <2> QED  BY <2>1, SavingShrinks
<1>7. CASE StartBatch
  <2>1. UNCHANGED <<attempts, made>> /\ Saving' \subseteq Saving
    BY <1>7 DEF StartBatch, rows, Saving, vars, routine, budget, recovery, history, executor, Kind
  <2> QED  BY <2>1, SavingShrinks
<1>8. CASE Gathered
  <2>1. UNCHANGED <<attempts, made>> /\ Saving' \subseteq Saving
    BY <1>8 DEF Gathered, rows, Saving, vars, routine, budget, recovery, history, executor
  <2> QED  BY <2>1, SavingShrinks
<1>9. CASE GatherRaises
  <2>1. UNCHANGED <<attempts, made>> /\ Saving' \subseteq Saving
    BY <1>9 DEF GatherRaises, rows, Saving, vars, routine, budget, recovery, history, executor
  <2> QED  BY <2>1, SavingShrinks
<1>10. CASE Remaining
  <2>1. UNCHANGED <<attempts, made>> /\ Saving' \subseteq Saving
    BY <1>10 DEF Remaining, rows, Saving, vars, routine, budget, recovery, history, executor
  <2> QED  BY <2>1, SavingShrinks
<1>11. CASE VerifyGates
  <2>1. UNCHANGED <<attempts, made>> /\ Saving' \subseteq Saving
    BY <1>11 DEF VerifyGates, rows, Saving, vars, routine, budget, recovery, history, executor
  <2> QED  BY <2>1, SavingShrinks
<1>12. CASE Evaluate
  <2>1. UNCHANGED <<attempts, made>> /\ Saving' \subseteq Saving
    BY <1>12 DEF Evaluate, rows, Saving, vars, routine, budget, recovery, history, executor
  <2> QED  BY <2>1, SavingShrinks
<1>13. CASE Settle
  <2>1. UNCHANGED <<attempts, made>> /\ Saving' \subseteq Saving
    BY <1>13 DEF Settle, MoveRun, Saving, vars, rows, routine, budget, recovery, history, executor
  <2> QED  BY <2>1, SavingShrinks
<1>14. CASE FinishCancel
  <2>1. UNCHANGED <<attempts, made>> /\ Saving' \subseteq Saving
    BY <1>14 DEF FinishCancel, Saving, vars, rows, routine, budget, recovery, history, executor
  <2> QED  BY <2>1, SavingShrinks
<1>15. CASE \E t \in Tasks : SaveTask(t)
  <2>1. UNCHANGED <<attempts, made>> /\ Saving' \subseteq Saving
    BY <1>15 DEF SaveTask, executor, Saving, vars, rows, routine, budget, recovery, history
  <2> QED  BY <2>1, SavingShrinks
<1>16. CASE \E t \in Tasks : CancelOpenTask(t)
  <2>1. UNCHANGED <<attempts, made>> /\ Saving' \subseteq Saving
    BY <1>16 DEF CancelOpenTask, executor, Saving, vars, rows, routine, budget, recovery, history
  <2> QED  BY <2>1, SavingShrinks
<1>17. CASE \E t \in Tasks : BeginTask(t)
  <2>1. UNCHANGED <<attempts, made>> /\ Saving' \subseteq Saving
    BY <1>17 DEF BeginTask, Idle, Goto, Saving, vars, rows, routine, budget, recovery, history, executor, Kind
  <2> QED  BY <2>1, SavingShrinks
<1>18. CASE \E t \in Tasks : MarkTaskReady(t)
  <2>1. UNCHANGED <<attempts, made>> /\ Saving' \subseteq Saving
    BY <1>18 DEF MarkTaskReady, Idle, Goto, Saving, vars, rows, routine, budget, recovery, history, executor, Kind
  <2> QED  BY <2>1, SavingShrinks
<1>19. CASE \E t \in Tasks : CreateWorktree(t)
  <2>1. UNCHANGED <<attempts, made>> /\ Saving' \subseteq Saving
    BY <1>19 DEF CreateWorktree, Idle, Goto, Saving, vars, rows, routine, budget, recovery, history, executor, Kind
  <2> QED  BY <2>1, SavingShrinks
<1>20. CASE \E t \in Tasks : Reserve(t)
  <2> PICK t \in Tasks : Reserve(t)
    BY <1>20
  <2>1. CASE CanReserve
    <3>1. Saving' = Saving \cup {t} /\ t \notin Saving /\ attempts' = attempts + 1 /\ made' = made
      BY <2>1 DEF Reserve, Goto, Saving, Kind, history
    <3>2. Cardinality(Saving') = Cardinality(Saving) + 1
      BY <3>1, <1>0, FS_AddElement
    <3> QED  BY <2>1, <3>1, <3>2, <1>0 DEF BudgetInv, Kind, CanReserve
  <2>2. CASE ~CanReserve
    <3>1. UNCHANGED <<attempts, made>> /\ Saving' \subseteq Saving
      BY <2>2 DEF Reserve, Goto, Saving, Kind, history
    <3> QED  BY <3>1, SavingShrinks
  <2> QED  BY <2>1, <2>2
<1>21. CASE \E t \in Tasks : SaveAttempt(t)
  <2> PICK t \in Tasks : SaveAttempt(t)
    BY <1>21
  <2>1. CASE tpc[t] = "save"
    <3>1. Saving' = Saving \ {t} /\ t \in Saving /\ attempts' = attempts /\ made' = made + 1
      BY <2>1 DEF SaveAttempt, Goto, Saving, Kind, budget
    <3>2. Cardinality(Saving') = Cardinality(Saving) - 1
      BY <3>1, <1>0, FS_RemoveElement
    <3> QED  BY <3>1, <3>2, <1>0 DEF BudgetInv, Kind
  <2>2. CASE tpc[t] # "save"
    <3>1. UNCHANGED <<attempts, made>> /\ Saving' \subseteq Saving
      BY <2>2 DEF SaveAttempt, Goto, Saving, Kind, budget
    <3> QED  BY <3>1, SavingShrinks
  <2> QED  BY <2>1, <2>2
<1>22. CASE \E t \in Tasks : StartTask(t)
  <2>1. UNCHANGED <<attempts, made>> /\ Saving' \subseteq Saving
    BY <1>22 DEF StartTask, Idle, Goto, Saving, vars, rows, routine, budget, recovery, history, executor, Kind
  <2> QED  BY <2>1, SavingShrinks
<1>23. CASE \E t \in Tasks : CloseAttempt(t)
  <2>1. UNCHANGED <<attempts, made>> /\ Saving' \subseteq Saving
    BY <1>23, AfterAttemptIs DEF CloseAttempt, Idle, Goto, AfterAttempt, Saving, vars, rows, routine, budget, recovery, history, executor, Kind
  <2> QED  BY <2>1, SavingShrinks
<1>24. CASE \E t \in Tasks : AttemptKilled(t)
  <2>1. UNCHANGED <<attempts, made>> /\ Saving' \subseteq Saving
    BY <1>24 DEF AttemptKilled, Idle, Goto, Saving, vars, rows, routine, budget, recovery, history, executor, Kind
  <2> QED  BY <2>1, SavingShrinks
<1>25. CASE \E t \in Tasks : Review(t)
  <2>1. UNCHANGED <<attempts, made>> /\ Saving' \subseteq Saving
    BY <1>25 DEF Review, Idle, Goto, Saving, vars, rows, routine, budget, recovery, history, executor, Kind
  <2> QED  BY <2>1, SavingShrinks
<1>26. CASE \E t \in Tasks : Integrate(t)
  <2>1. UNCHANGED <<attempts, made>> /\ Saving' \subseteq Saving
    BY <1>26 DEF Integrate, Idle, Goto, Saving, vars, rows, routine, budget, recovery, history, executor, Kind
  <2> QED  BY <2>1, SavingShrinks
<1>27. CASE \E t \in Tasks : CompleteTask(t)
  <2>1. UNCHANGED <<attempts, made>> /\ Saving' \subseteq Saving
    BY <1>27 DEF CompleteTask, Idle, Goto, Saving, vars, rows, routine, budget, recovery, history, executor, Kind
  <2> QED  BY <2>1, SavingShrinks
<1>28. CASE \E t \in Tasks : FailTask(t)
  <2>1. UNCHANGED <<attempts, made>> /\ Saving' \subseteq Saving
    BY <1>28 DEF FailTask, Idle, Goto, Saving, vars, rows, routine, budget, recovery, history, executor, Kind
  <2> QED  BY <2>1, SavingShrinks
<1>29. CASE \E t \in Tasks : StopTask(t)
  <2>1. UNCHANGED <<attempts, made>> /\ Saving' \subseteq Saving
    BY <1>29 DEF StopTask, Idle, Goto, Saving, vars, rows, routine, budget, recovery, history, executor, Kind
  <2> QED  BY <2>1, SavingShrinks
<1>30. CASE \E t \in Tasks : CancelTask(t)
  <2>1. UNCHANGED <<attempts, made>> /\ Saving' \subseteq Saving
    BY <1>30 DEF CancelTask, Idle, Goto, Saving, vars, rows, routine, budget, recovery, history, executor, Kind
  <2> QED  BY <2>1, SavingShrinks
<1>31. CASE \E t \in Tasks, success \in BOOLEAN : RunnerEnds(t, success)
  <2>1. UNCHANGED <<attempts, made>> /\ Saving' \subseteq Saving
    BY <1>31 DEF RunnerEnds, Idle, Saving, vars, rows, routine, budget, recovery, history, executor, Kind
  <2> QED  BY <2>1, SavingShrinks
<1>32. CASE CancelLoad
  <2>1. UNCHANGED <<attempts, made>> /\ Saving' \subseteq Saving
    BY <1>32 DEF CancelLoad, Caller, rows, Saving, vars, routine, budget, recovery, history, executor
  <2> QED  BY <2>1, SavingShrinks
<1>33. CASE CancelRequest
  <2>1. UNCHANGED <<attempts, made>> /\ Saving' \subseteq Saving
    BY <1>33 DEF CancelRequest, Caller, rows, Saving, vars, routine, budget, recovery, history, executor
  <2> QED  BY <2>1, SavingShrinks
<1>34. CASE CancelKill
  <2>1. UNCHANGED <<attempts, made>> /\ Saving' \subseteq Saving
    BY <1>34 DEF CancelKill, Caller, rows, Saving, vars, routine, budget, recovery, history, executor, Kind
  <2> QED  BY <2>1, SavingShrinks
<1>35. CASE Crash
  <2>1. Saving' = {} /\ made' = 0 /\ attempts' = 0
    BY <1>35 DEF Crash, Saving
  <2> QED  BY <2>1, <1>0, FS_EmptySet DEF BudgetInv
<1>36. CASE Recover
  <2>1. UNCHANGED <<attempts, made>> /\ Saving' \subseteq Saving
    BY <1>36 DEF Recover, Others, rows, Saving, vars, routine, budget, recovery, history, executor
  <2> QED  BY <2>1, SavingShrinks
<1>37. CASE AttemptsRecovered
  <2>1. UNCHANGED <<attempts, made>> /\ Saving' \subseteq Saving
    BY <1>37 DEF AttemptsRecovered, Others, rows, Saving, vars, routine, budget, recovery, history, executor
  <2> QED  BY <2>1, SavingShrinks
<1>38. CASE RecoverRun
  <2>1. UNCHANGED <<attempts, made>> /\ Saving' \subseteq Saving
    BY <1>38 DEF RecoverRun, Others, Saving, vars, rows, routine, budget, recovery, history, executor
  <2> QED  BY <2>1, SavingShrinks
<1>39. CASE \E t \in Tasks : RecoverAttempt(t)
  <2>1. UNCHANGED <<attempts, made>> /\ Saving' \subseteq Saving
    BY <1>39 DEF RecoverAttempt, Others, Saving, vars, rows, routine, budget, recovery, history, executor
  <2> QED  BY <2>1, SavingShrinks
<1>40. CASE \E t \in Tasks : RecoverTask(t)
  <2>1. UNCHANGED <<attempts, made>> /\ Saving' \subseteq Saving
    BY <1>40 DEF RecoverTask, Others, Saving, vars, rows, routine, budget, recovery, history, executor
  <2> QED  BY <2>1, SavingShrinks
<1> QED
  BY <1>1, <1>2, <1>3, <1>4, <1>5, <1>6, <1>7, <1>8, <1>9, <1>10, <1>11, <1>12, <1>13, <1>14, <1>15, <1>16, <1>17, <1>18, <1>19, <1>20, <1>21, <1>22, <1>23, <1>24, <1>25, <1>26, <1>27, <1>28, <1>29, <1>30, <1>31, <1>32, <1>33, <1>34, <1>35, <1>36, <1>37, <1>38, <1>39, <1>40 DEF Next, Execute, RunTask, RecoverStep

-----------------------------------------------------------------------------
(* The steps that move a task or its coroutine.                            *)
LEMMA Movers ==
  ASSUME [Next]_vars
  PROVE  \/ \E t \in Tasks : RunTask(t) \/ SaveTask(t) \/ CancelOpenTask(t) \/ RecoverTask(t)
         \/ StartBatch \/ CancelKill \/ Crash
         \/ UNCHANGED <<task, tpc, tries, reviewing, merged, rejected>>
<1>1. CASE UNCHANGED vars
  BY <1>1 DEF vars, rows, routine, history
<1>2. CASE SaveRun \/ StartRun \/ ScheduleTasks \/ AdvanceRun \/ Settle
  BY <1>2 DEF SaveRun, StartRun, ScheduleTasks, AdvanceRun, Settle, MoveRun, routine, history
<1>3. CASE ListReady \/ Gathered \/ GatherRaises \/ Remaining \/ VerifyGates \/ Evaluate \/ FinishCancel
  BY <1>3 DEF ListReady, Gathered, GatherRaises, Remaining, VerifyGates, Evaluate, FinishCancel, rows, routine, history
<1>4. CASE CancelLoad \/ CancelRequest
  BY <1>4 DEF CancelLoad, CancelRequest, Caller, rows, history
<1>5. CASE Recover \/ AttemptsRecovered \/ RecoverRun \/ \E t \in Tasks : RecoverAttempt(t)
  BY <1>5 DEF Recover, AttemptsRecovered, RecoverRun, RecoverAttempt, Others, rows, routine, history
<1> QED  BY <1>1, <1>2, <1>3, <1>4, <1>5 DEF Next, Execute, RecoverStep

LEMMA AfterAttemptLeft ==
  ASSUME Kind, NEW t \in Tasks
  PROVE  /\ AfterAttempt(t) = "reserve" => t \notin reviewing /\ tries[t] + 1 < Limit
         /\ t \in reviewing /\ ~ok[t] => AfterAttempt(t) = "fail"
<1>1. tries[t] + 1 < Limit \/ tries[t] + 1 >= Limit
  BY ConfigAssumption DEF Kind
<1>2. CASE t \in reviewing
  BY <1>2 DEF AfterAttempt, Kind
<1>3. CASE t \notin reviewing /\ ok[t]
  BY <1>3 DEF AfterAttempt, Kind
<1>4. CASE t \notin reviewing /\ ~ok[t]
  BY <1>1, <1>4 DEF AfterAttempt, Kind
<1> QED  BY <1>2, <1>3, <1>4

(* Nor does it touch how far the others are.                               *)
LEMMA WorkFrame ==
  ASSUME Kind, WorkInv, NEW t \in Tasks, RunTask(t)
  PROVE  /\ reviewing' \in SUBSET Tasks /\ merged' \in SUBSET Tasks /\ rejected' \in SUBSET Tasks
         /\ \A u \in Tasks \ {t} : /\ tries'[u] = tries[u]
                                   /\ u \in reviewing' <=> u \in reviewing
                                   /\ u \in merged' <=> u \in merged
                                   /\ u \in rejected' <=> u \in rejected
<1> USE DEF Kind, WorkInv
<1>1. CASE BeginTask(t) \/ MarkTaskReady(t) \/ CreateWorktree(t) \/ Reserve(t) \/ StartTask(t)
  BY <1>1 DEF BeginTask, MarkTaskReady, CreateWorktree, Reserve, StartTask, Goto, history
<1>2. CASE SaveAttempt(t) \/ AttemptKilled(t) \/ CompleteTask(t) \/ FailTask(t) \/ StopTask(t) \/ CancelTask(t)
  BY <1>2 DEF SaveAttempt, AttemptKilled, CompleteTask, FailTask, StopTask, CancelTask, Goto, history
<1>3. CASE \E success \in BOOLEAN : RunnerEnds(t, success)
  BY <1>3 DEF RunnerEnds, history
<1>4. CASE CloseAttempt(t)
  BY <1>4 DEF CloseAttempt
<1>5. CASE Review(t)
  BY <1>5 DEF Review, history
<1>6. CASE Integrate(t)
  BY <1>6 DEF Integrate, Goto
<1> QED  BY <1>1, <1>2, <1>3, <1>4, <1>5, <1>6 DEF RunTask

LEMMA WorkOfStep ==
  ASSUME Kind, AttemptInv, WorkInv, NEW t \in Tasks, RunTask(t)
  PROVE  WorkOf(t)'
<1> USE ConfigAssumption DEF Kind
<1>0. WorkOf(t) /\ AttemptOf(t)
  BY DEF WorkInv, AttemptInv
<1>1. CASE BeginTask(t)
  BY <1>0, <1>1 DEF BeginTask, Goto, WorkOf, Runs, Attempts, history
<1>2. CASE MarkTaskReady(t)
  BY <1>0, <1>2 DEF MarkTaskReady, Goto, WorkOf, Runs, Attempts, history
<1>3. CASE CreateWorktree(t)
  BY <1>0, <1>3 DEF CreateWorktree, Goto, WorkOf, Runs, Attempts, history
<1>4. CASE Reserve(t)
  <2>1. tpc'[t] \in {"save", "merge", "stopped", "fail"} /\ tpc[t] = "reserve"
    BY <1>4 DEF Reserve, Goto
  <2>2. tpc'[t] \in {"merge", "fail"} => task[t] = "RUNNING"
    BY <1>0, <1>4 DEF Reserve, Goto, WorkOf, AttemptOf, Outside
  <2> QED  BY <1>0, <1>4, <2>1, <2>2 DEF Reserve, Goto, WorkOf, Runs, Attempts, history
<1>5. CASE SaveAttempt(t)
  BY <1>0, <1>5 DEF SaveAttempt, Goto, WorkOf, Runs, Attempts, AttemptOf, Outside
<1>6. CASE StartTask(t)
  BY <1>0, <1>6 DEF StartTask, Goto, WorkOf, Runs, Attempts, history
<1>7. CASE CloseAttempt(t)
  <2>1. AfterAttempt(t) \in {"merge", "fail", "review", "reserve"}
    BY AfterAttemptIs
  <2>2. /\ AfterAttempt(t) = "reserve" => t \notin reviewing /\ tries[t] + 1 < Limit
        /\ t \in reviewing /\ ~ok[t] => AfterAttempt(t) = "fail"
    BY AfterAttemptLeft
  <2>3. /\ tpc[t] = "close" /\ tpc'[t] = AfterAttempt(t) /\ task' = task /\ reviewing' = reviewing
        /\ merged' = merged /\ tries'[t] = IF t \in reviewing THEN tries[t] ELSE tries[t] + 1
        /\ t \in rejected' <=> t \in rejected \/ (t \in reviewing /\ ~ok[t])
    BY <1>7 DEF CloseAttempt
  <2>4. task[t] = "RUNNING" /\ (t \notin reviewing => tries[t] < Limit) /\ tries[t] <= Limit
    BY <1>0, <2>3 DEF WorkOf, Runs, Attempts
  <2> QED  BY <1>0, <2>1, <2>2, <2>3, <2>4 DEF WorkOf, Runs, Attempts
<1>8. CASE AttemptKilled(t)
  BY <1>0, <1>8 DEF AttemptKilled, Goto, WorkOf, Runs, Attempts, history
<1>9. CASE Review(t)
  BY <1>0, <1>9 DEF Review, WorkOf, Runs, Attempts, history
<1>10. CASE Integrate(t)
  BY <1>0, <1>10 DEF Integrate, Goto, WorkOf, Runs, Attempts
<1>11. CASE CompleteTask(t)
  BY <1>0, <1>11 DEF CompleteTask, WorkOf, Runs, Attempts, history
<1>12. CASE FailTask(t)
  BY <1>0, <1>12 DEF FailTask, Goto, WorkOf, Runs, Attempts, history
<1>13. CASE StopTask(t)
  BY <1>0, <1>13 DEF StopTask, Goto, WorkOf, Runs, Attempts, AttemptOf, Outside, history
<1>14. CASE CancelTask(t)
  BY <1>0, <1>14 DEF CancelTask, Goto, WorkOf, Runs, Attempts, AttemptOf, Outside, history
<1>15. CASE \E success \in BOOLEAN : RunnerEnds(t, success)
  BY <1>0, <1>15 DEF RunnerEnds, WorkOf, Runs, Attempts, history
<1> QED  BY <1>1, <1>2, <1>3, <1>4, <1>5, <1>6, <1>7, <1>8, <1>9, <1>10, <1>11, <1>12, <1>13, <1>14, <1>15 DEF RunTask

LEMMA WorkStep ==
  Kind /\ LoneInv /\ RecoverInv /\ AttemptInv /\ BatchInv /\ WorkInv /\ [Next]_vars => WorkInv'
<1> SUFFICES ASSUME Kind, LoneInv, RecoverInv, AttemptInv, BatchInv, WorkInv, [Next]_vars PROVE WorkInv'
  OBVIOUS
<1> USE DEF Kind
<1>1. ASSUME NEW t \in Tasks, RunTask(t) PROVE WorkInv'
  <2>1. ASSUME NEW u \in Tasks, u # t PROVE WorkOf(u)'
    <3>1. WorkOf(u) /\ tpc'[u] = tpc[u] /\ task'[u] = task[u]
      BY <1>1, <2>1, TaskFrame DEF WorkInv
    <3>2. /\ tries'[u] = tries[u]
          /\ u \in reviewing' <=> u \in reviewing
          /\ u \in merged' <=> u \in merged
          /\ u \in rejected' <=> u \in rejected
      BY <1>1, <2>1, WorkFrame
    <3> QED  BY <3>1, <3>2 DEF WorkOf
  <2>2. WorkOf(t)'
    BY <1>1, WorkOfStep
  <2>3. reviewing' \in SUBSET Tasks /\ merged' \in SUBSET Tasks /\ rejected' \in SUBSET Tasks
    BY <1>1, WorkFrame
  <2> QED  BY <2>1, <2>2, <2>3 DEF WorkInv
<1>2. ASSUME NEW t \in Tasks, SaveTask(t) PROVE WorkInv'
  <2>1. ASSUME NEW u \in Tasks PROVE WorkOf(u)'
    <3>1. WorkOf(u) /\ tpc[u] \in {"idle", "done"}
      BY <1>2 DEF WorkInv, SaveTask, LoneInv
    <3> QED  BY <3>1, <1>2 DEF WorkOf, SaveTask, Runs, Attempts, routine, history
  <2> QED  BY <2>1, <1>2 DEF WorkInv, SaveTask, routine, history
<1>3. ASSUME NEW t \in Tasks, CancelOpenTask(t) PROVE WorkInv'
  <2>1. ASSUME NEW u \in Tasks PROVE WorkOf(u)'
    <3>1. WorkOf(u) /\ tpc[u] \in {"idle", "done"}
      BY <1>3 DEF WorkInv, CancelOpenTask, LoneInv
    <3> QED  BY <3>1, <1>3 DEF WorkOf, CancelOpenTask, Runs, Attempts, routine, history
  <2> QED  BY <2>1, <1>3 DEF WorkInv, CancelOpenTask, routine, history
<1>4. ASSUME NEW t \in Tasks, RecoverTask(t) PROVE WorkInv'
  <2>1. ASSUME NEW u \in Tasks PROVE WorkOf(u)'
    <3>1. WorkOf(u) /\ tpc[u] \in {"idle", "done"}
      BY <1>4 DEF WorkInv, RecoverTask, LoneInv, RecoverInv
    <3> QED  BY <3>1, <1>4 DEF WorkOf, RecoverTask, Others, Runs, Attempts, routine, history
  <2> QED  BY <2>1, <1>4 DEF WorkInv, RecoverTask, Others, routine, history
<1>5. CASE StartBatch
  <2>1. ASSUME NEW u \in Tasks PROVE WorkOf(u)'
    <3>1. WorkOf(u) /\ (u \in Head(todo) => task[u] = "PLANNED")
      BY <1>5 DEF WorkInv, StartBatch, BatchInv, Waiting
    <3> QED  BY <3>1, <1>5 DEF WorkOf, StartBatch, Runs, Attempts, rows, history
  <2> QED  BY <2>1, <1>5 DEF WorkInv, StartBatch, history
<1>6. CASE CancelKill
  <2>1. ASSUME NEW u \in Tasks PROVE WorkOf(u)'
    <3>1. WorkOf(u)
      BY DEF WorkInv
    <3>2. tpc'[u] = IF tpc[u] = "flight" THEN "killed" ELSE tpc[u]
      BY <1>6 DEF CancelKill, InFlight
    <3> QED  BY <3>1, <3>2, <1>6 DEF WorkOf, CancelKill, Caller, Runs, Attempts, rows, history
  <2> QED  BY <2>1, <1>6 DEF WorkInv, CancelKill, Caller, history
<1>7. CASE Crash
  <2>1. ASSUME NEW u \in Tasks PROVE WorkOf(u)'
    <3>1. WorkOf(u)
      BY DEF WorkInv
    <3> QED  BY <3>1, <1>7, ConfigAssumption DEF WorkOf, Crash, Runs, Attempts, rows
  <2> QED  BY <2>1, <1>7 DEF WorkInv, Crash
<1>8. CASE UNCHANGED <<task, tpc, tries, reviewing, merged, rejected>>
  BY <1>8 DEF WorkInv, WorkOf
<1> QED  BY <1>1, <1>2, <1>3, <1>4, <1>5, <1>6, <1>7, <1>8, Movers

(* Nothing takes back the success of a task.                               *)
LEMMA SuccessStays ==
  ASSUME Kind, LoneInv, RecoverInv, AttemptInv, WorkInv, BatchInv, [Next]_vars,
         NEW d \in Tasks, task[d] = "SUCCEEDED"
  PROVE  task'[d] = "SUCCEEDED"
<1> USE DEF Kind
<1>1. ASSUME NEW t \in Tasks, RunTask(t) PROVE task'[d] = "SUCCEEDED"
  <2>1. CASE t # d
    BY <1>1, <2>1, TaskFrame
  <2>2. CASE t = d
    <3>1. WorkOf(d) /\ AttemptOf(d) /\ RunTask(d)
      BY <1>1, <2>2 DEF WorkInv, AttemptInv
    <3>2. tpc[d] \in {"idle", "begin", "ready", "done", "raised"}
      BY <3>1 DEF AttemptOf, Outside
    <3>3. BeginTask(d) \/ MarkTaskReady(d)
      BY <3>1, <3>2 DEF RunTask, CreateWorktree, Reserve, SaveAttempt, StartTask, CloseAttempt, AttemptKilled, Review, Integrate, CompleteTask, FailTask, StopTask, CancelTask, RunnerEnds
    <3>4. tpc[d] \in {"begin", "ready"}
      BY <3>3 DEF BeginTask, MarkTaskReady
    <3> QED  BY <3>1, <3>4 DEF WorkOf
  <2> QED  BY <2>1, <2>2
<1>2. ASSUME NEW t \in Tasks, SaveTask(t) \/ CancelOpenTask(t) \/ RecoverTask(t)
      PROVE  task'[d] = "SUCCEEDED"
  BY <1>2 DEF SaveTask, CancelOpenTask, RecoverTask, Open
<1>3. CASE StartBatch \/ CancelKill \/ Crash
  BY <1>3 DEF StartBatch, CancelKill, Caller, Crash, rows
<1> QED  BY <1>1, <1>2, <1>3, Movers

LEMMA MayStays ==
  ASSUME Kind, LoneInv, RecoverInv, AttemptInv, WorkInv, BatchInv, [Next]_vars,
         NEW t \in Tasks, May(t)
  PROVE  May(t)'
<1>1. \A d \in Deps[t] : d \in Tasks
  BY PlanAssumption
<1>2. \A d \in Deps[t] : task'[d] = "SUCCEEDED"
  BY <1>1, SuccessStays DEF May
<1> QED  BY <1>2 DEF May

LEMMA BusyTask ==
  ASSUME NEW t \in Tasks, RunTask(t)
  PROVE  Begun(t)
BY DEF Begun, RunTask, BeginTask, MarkTaskReady, CreateWorktree, Reserve, SaveAttempt, StartTask, CloseAttempt, AttemptKilled, Review, Integrate, CompleteTask, FailTask, StopTask, CancelTask, RunnerEnds

LEMMA FirstBatch ==
  ASSUME BatchInv, StartBatch
  PROVE  /\ Head(todo) \in SUBSET Tasks
         /\ Sound(Head(todo)) /\ Waiting(Head(todo))
         /\ Tail(todo) \in Seq(SUBSET Tasks)
         /\ Apart(Tail(todo))
         /\ \A i \in DOMAIN Tail(todo) : /\ Sound(Tail(todo)[i]) /\ Waiting(Tail(todo)[i])
                                         /\ Tail(todo)[i] \cap Head(todo) = {}
<1>1. /\ todo \in Seq(SUBSET Tasks) /\ todo # <<>> /\ Apart(todo)
      /\ \A i \in DOMAIN todo : Sound(todo[i]) /\ Waiting(todo[i])
  BY DEF BatchInv, StartBatch
<1>2. /\ Head(todo) = todo[1] /\ 1 \in DOMAIN todo /\ Head(todo) \in SUBSET Tasks
      /\ Tail(todo) \in Seq(SUBSET Tasks)
  BY <1>1
<1>3. \A i \in DOMAIN Tail(todo) : /\ i + 1 \in DOMAIN todo /\ i + 1 # 1
                                   /\ Tail(todo)[i] = todo[i+1]
  BY <1>1
<1>4. \A i, j \in DOMAIN Tail(todo) : i # j => i + 1 # j + 1
  BY <1>2
<1> HIDE <1>1
<1> QED  BY <1>1, <1>2, <1>3, <1>4 DEF Apart

(* What is begun now was begun before, or its batch is started.            *)
LEMMA BegunStep ==
  ASSUME Kind, LoneInv, RecoverInv, AttemptInv, WorkInv, BatchInv, [Next]_vars,
         NEW u \in Tasks, Begun(u)'
  PROVE  Begun(u) \/ (StartBatch /\ u \in Head(todo))
<1> USE DEF Kind
<1>1. ASSUME NEW t \in Tasks, RunTask(t) PROVE Begun(u)
  BY <1>1, BusyTask, TaskFrame DEF Begun
<1>2. ASSUME NEW t \in Tasks, SaveTask(t) \/ CancelOpenTask(t) \/ RecoverTask(t) PROVE Begun(u)
  BY <1>2 DEF Begun, SaveTask, CancelOpenTask, RecoverTask, Others, routine
<1>3. CASE StartBatch
  BY <1>3 DEF StartBatch, Begun
<1>4. CASE CancelKill
  <2>1. tpc'[u] = IF tpc[u] = "flight" THEN "killed" ELSE tpc[u]
    BY <1>4 DEF CancelKill, InFlight
  <2> QED  BY <2>1 DEF Begun
<1>5. CASE Crash
  BY <1>5 DEF Crash, Begun
<1>6. CASE UNCHANGED tpc
  BY <1>6 DEF Begun
<1> QED  BY <1>1, <1>2, <1>3, <1>4, <1>5, <1>6, Movers

LEMMA DepsStep ==
  Kind /\ LoneInv /\ RecoverInv /\ AttemptInv /\ WorkInv /\ BatchInv /\ DepsInv /\ [Next]_vars => DepsInv'
<1> SUFFICES ASSUME Kind, LoneInv, RecoverInv, AttemptInv, WorkInv, BatchInv, DepsInv, [Next]_vars,
                    NEW u \in Tasks, Begun(u)' \/ task'[u] \in {"READY", "RUNNING", "SUCCEEDED", "FAILED"}
             PROVE  May(u)'
  BY DEF DepsInv
<1> DEFINE Past(t) == task[t] \in {"READY", "RUNNING", "SUCCEEDED", "FAILED"}
<1> USE DEF Kind
<1>1. CASE Begun(u)'
  <2>1. CASE Begun(u)
    BY <2>1, MayStays DEF DepsInv
  <2>2. CASE StartBatch /\ u \in Head(todo)
    BY <2>2, FirstBatch, MayStays DEF Waiting
  <2> QED  BY <1>1, <2>1, <2>2, BegunStep
<1>2. CASE task'[u] \in {"READY", "RUNNING", "SUCCEEDED", "FAILED"}
  <2>1. ASSUME NEW t \in Tasks, RunTask(t) PROVE Past(u) \/ Begun(u)
    BY <1>2, <2>1, BusyTask, TaskFrame
  <2>2. ASSUME NEW t \in Tasks, SaveTask(t) \/ CancelOpenTask(t) \/ RecoverTask(t)
        PROVE  Past(u)
    BY <1>2, <2>2 DEF SaveTask, CancelOpenTask, RecoverTask
  <2>3. StartBatch \/ CancelKill \/ Crash => Past(u)
    BY <1>2 DEF StartBatch, CancelKill, Caller, Crash, rows
  <2>4. UNCHANGED task => Past(u)
    BY <1>2
  <2>5. Past(u) \/ Begun(u)
    BY <2>1, <2>2, <2>3, <2>4, Movers
  <2> QED  BY <2>5, MayStays DEF DepsInv
<1> QED  BY <1>1, <1>2

LEMMA OverlapStep ==
  Kind /\ LoneInv /\ RecoverInv /\ AttemptInv /\ WorkInv /\ BatchInv /\ NoOverlap /\ [Next]_vars
    => NoOverlap'
<1> SUFFICES ASSUME Kind, LoneInv, RecoverInv, AttemptInv, WorkInv, BatchInv, NoOverlap, [Next]_vars
             PROVE  NoOverlap'
  OBVIOUS
<1> DEFINE AtWork == {t \in Tasks : Begun(t)}
<1>1. CASE StartBatch
  <2>1. AtWork = {}
    BY <1>1 DEF StartBatch, LoneInv, Begun
  <2>2. AtWork' \subseteq Head(todo)
    BY <1>1, <2>1, BegunStep
  <2>3. Sound(Head(todo)) /\ Head(todo) \in SUBSET Tasks
    BY <1>1, FirstBatch
  <2>4. Cardinality(AtWork') <= Cardinality(Head(todo)) /\ IsFiniteSet(Head(todo)) /\ IsFiniteSet(AtWork')
    BY <2>2, <2>3, FS_Subset, PlanAssumption
  <2>5. Cardinality(AtWork') \in Nat /\ Cardinality(Head(todo)) \in Nat
    BY <2>4, FS_CardinalityType
  <2>6. Cardinality(AtWork') <= MaxParallel
    BY <2>3, <2>4, <2>5, ConfigAssumption DEF Sound
  <2>7. \A t, u \in AtWork' : t # u => {t, u} \notin Clash
    BY <2>2, <2>3 DEF Sound
  <2> HIDE DEF AtWork
  <2> QED  BY <2>6, <2>7 DEF NoOverlap, AtWork
<1>2. CASE ~StartBatch
  <2>1. AtWork' \subseteq AtWork
    BY <1>2, BegunStep
  <2>2. IsFiniteSet(AtWork) /\ IsFiniteSet(AtWork') /\ Cardinality(AtWork') <= Cardinality(AtWork)
    BY <2>1, FS_Subset, PlanAssumption
  <2>3. Cardinality(AtWork') \in Nat /\ Cardinality(AtWork) \in Nat
    BY <2>2, FS_CardinalityType
  <2>4. Cardinality(AtWork) <= MaxParallel /\ \A t, u \in AtWork : t # u => {t, u} \notin Clash
    BY DEF NoOverlap
  <2>5. Cardinality(AtWork') <= MaxParallel
    BY <2>2, <2>3, <2>4, ConfigAssumption
  <2>6. \A t, u \in AtWork' : t # u => {t, u} \notin Clash
    BY <2>1, <2>4
  <2> HIDE DEF AtWork
  <2> QED  BY <2>5, <2>6 DEF NoOverlap, AtWork
<1> QED  BY <1>1, <1>2

LEMMA BatchStep ==
  Kind /\ LoneInv /\ RecoverInv /\ AttemptInv /\ WorkInv /\ BatchInv /\ [Next]_vars => BatchInv'
<1> SUFFICES ASSUME Kind, LoneInv, RecoverInv, AttemptInv, WorkInv, BatchInv, [Next]_vars PROVE BatchInv'
  OBVIOUS
<1> USE DEF Kind
<1>0. \A t \in Tasks : May(t) => May(t)'
  BY MayStays
<1>1. ASSUME UNCHANGED <<todo, batch, task, tpc>>, epc' \in {"batch", "gather"} => epc' = epc
      PROVE  BatchInv'
  BY <1>1 DEF BatchInv, Sound, Waiting, Apart, May
<1>2. ASSUME NEW t \in Tasks, RunTask(t) PROVE BatchInv'
  <2>1. UNCHANGED <<epc, todo, batch>> /\ (epc = "gather" => t \in batch) /\ epc \in {"gather", "dead"}
    BY <1>2, TaskFrame
  <2>2. ASSUME epc = "gather", NEW i \in DOMAIN todo PROVE Waiting(todo[i])'
    <3>1. todo[i] \in SUBSET Tasks /\ t \notin todo[i] /\ Waiting(todo[i])
      BY <2>1, <2>2 DEF BatchInv, Sound
    <3>2. \A u \in todo[i] : task'[u] = task[u] /\ May(u)'
      BY <3>1, <1>0, <1>2, TaskFrame DEF Waiting
    <3>3. UNCHANGED todo
      BY <2>1
    <3> QED  BY <3>1, <3>2, <3>3 DEF Waiting
  <2> QED  BY <2>1, <2>2 DEF BatchInv, Sound, Apart
<1>3. CASE ListReady
  <2>1. Batches \in Seq(SUBSET Tasks) /\ Split(Batches, ReadyTasks)
    BY BatchesSplit
  <2>2. ASSUME NEW i \in DOMAIN Batches PROVE Waiting(Batches[i])
    BY <2>1 DEF Split, ReadyTasks, Waiting, May
  <2>3. todo' = Batches /\ UNCHANGED <<task, tpc>> /\ epc' # "gather"
    BY <1>3 DEF ListReady, UnlessCancelled, rows, routine
  <2>4. BatchInv' = ( /\ todo' \in Seq(SUBSET Tasks)
                      /\ epc' = "batch" => /\ Apart(todo')
                                           /\ \A i \in DOMAIN todo' : Sound(todo'[i]) /\ Waiting(todo'[i]))
    BY <2>3 DEF BatchInv, Apart, Sound, Waiting, May
  <2> QED  BY <2>1, <2>2, <2>3, <2>4 DEF Split
<1>4. CASE StartBatch
  <2>1. todo' = Tail(todo) /\ batch' = Head(todo) /\ UNCHANGED task /\ epc' = "gather"
    BY <1>4 DEF StartBatch, rows
  <2>2. /\ Tail(todo) \in Seq(SUBSET Tasks)
        /\ Apart(Tail(todo))
        /\ \A i \in DOMAIN Tail(todo) : /\ Sound(Tail(todo)[i]) /\ Waiting(Tail(todo)[i])
                                        /\ Tail(todo)[i] \cap Head(todo) = {}
    BY <1>4, FirstBatch
  <2>3. \A i \in DOMAIN todo' : Sound(todo'[i]) /\ Waiting(todo'[i]) /\ todo'[i] \cap batch' = {}
    BY <2>1, <2>2
  <2> QED  BY <2>1, <2>2, <2>3 DEF BatchInv, Apart, Sound, Waiting, May
<1>5. CASE Gathered
  <2>1. UNCHANGED <<todo, batch, task>> /\ epc = "gather" /\ epc' # "gather"
    BY <1>5 DEF Gathered, rows, UnlessCancelled
  <2> QED  BY <2>1 DEF BatchInv, Sound, Waiting, Apart, May
<1>6. CASE GatherRaises \/ Crash
  <2>1. todo' = <<>> /\ epc' \in {"dead", "crashed"}
    BY <1>6 DEF GatherRaises, Crash
  <2> QED  BY <2>1 DEF BatchInv
<1>7. CASE SaveRun \/ StartRun \/ ScheduleTasks \/ AdvanceRun \/ Settle
  BY <1>7, <1>1 DEF SaveRun, StartRun, ScheduleTasks, AdvanceRun, Settle, MoveRun, UnlessCancelled, routine
<1>8. CASE Remaining \/ VerifyGates \/ Evaluate \/ FinishCancel
  BY <1>8, <1>1 DEF Remaining, VerifyGates, Evaluate, FinishCancel, rows, routine
<1>9. ASSUME NEW t \in Tasks, SaveTask(t) \/ CancelOpenTask(t) \/ RecoverTask(t) PROVE BatchInv'
  <2>1. UNCHANGED <<todo, batch, epc>> /\ epc \notin {"batch", "gather"}
    BY <1>9 DEF SaveTask, CancelOpenTask, RecoverTask, Others, RecoverInv, executor
  <2> QED  BY <2>1 DEF BatchInv
<1>10. CASE CancelLoad \/ CancelRequest \/ CancelKill
  <2>1. UNCHANGED <<todo, batch, epc, task>>
    BY <1>10 DEF CancelLoad, CancelRequest, CancelKill, Caller, rows, executor
  <2> QED  BY <2>1 DEF BatchInv, Sound, Waiting, Apart, May
<1>11. CASE Recover \/ AttemptsRecovered \/ RecoverRun \/ \E t \in Tasks : RecoverAttempt(t)
  BY <1>11, <1>1 DEF Recover, AttemptsRecovered, RecoverRun, RecoverAttempt, Others, rows, routine, executor
<1>12. CASE UNCHANGED vars
  BY <1>12, <1>1 DEF vars, rows, routine, executor
<1> QED
  BY <1>2, <1>3, <1>4, <1>5, <1>6, <1>7, <1>8, <1>9, <1>10, <1>11, <1>12 DEF Next, Execute, RecoverStep

LEMMA RunStep == Kind /\ LoneInv /\ RecoverInv /\ RunInv /\ [Next]_vars => RunInv'
<1> SUFFICES ASSUME Kind, LoneInv, RecoverInv, RunInv, [Next]_vars PROVE RunInv'
  OBVIOUS
<1> USE DEF RunInv
<1>1. CASE UNCHANGED vars
  BY <1>1 DEF vars, rows, executor
<1>2. ASSUME NEW t \in Tasks, RunTask(t) PROVE RunInv'
  BY <1>2, TaskFrame
<1>3. CASE SaveRun \/ StartRun \/ ScheduleTasks \/ AdvanceRun \/ Settle
  BY <1>3 DEF SaveRun, StartRun, ScheduleTasks, AdvanceRun, Settle, MoveRun, UnlessCancelled
<1>4. CASE ListReady \/ StartBatch \/ Gathered \/ GatherRaises
  BY <1>4 DEF ListReady, StartBatch, Gathered, GatherRaises, UnlessCancelled, rows
<1>5. CASE Remaining \/ VerifyGates \/ Evaluate \/ FinishCancel
  BY <1>5 DEF Remaining, VerifyGates, Evaluate, FinishCancel, rows
<1>6. ASSUME NEW t \in Tasks, SaveTask(t) \/ CancelOpenTask(t) PROVE RunInv'
  BY <1>6 DEF SaveTask, CancelOpenTask, executor
<1>7. CASE CancelLoad \/ CancelRequest \/ CancelKill
  BY <1>7 DEF CancelLoad, CancelRequest, CancelKill, Caller, rows, executor
<1>8. CASE Crash
  BY <1>8 DEF Crash, rows
<1>9. CASE RecoverStep
  <2>1. epc = "crashed" /\ epc' = epc
    BY <1>9 DEF RecoverStep, Recover, AttemptsRecovered, RecoverRun, RecoverAttempt, RecoverTask, Others, executor, RecoverInv
  <2> QED  BY <2>1
<1> QED  BY <1>1, <1>2, <1>3, <1>4, <1>5, <1>6, <1>7, <1>8, <1>9 DEF Next, Execute

(* The rest of the type.                                                   *)
RestInv ==
  /\ batch \in SUBSET Tasks /\ good \in SUBSET Tasks
  /\ spent \in BOOLEAN /\ requested \in BOOLEAN /\ cpc \in {"idle", "request", "kill"}
  /\ orphans \in BOOLEAN /\ crashes \in 0..MaxCrashes /\ interrupted \in BOOLEAN

LEMMA RestStep == Kind /\ LoneInv /\ BatchInv /\ RestInv /\ [Next]_vars => RestInv'
<1> SUFFICES ASSUME Kind, LoneInv, BatchInv, RestInv, [Next]_vars PROVE RestInv'
  OBVIOUS
<1> USE DEF RestInv
<1>1. CASE UNCHANGED vars
  BY <1>1 DEF vars, executor, routine, budget, recovery
<1>2. ASSUME NEW t \in Tasks, RunTask(t) PROVE RestInv'
  <2>1. UNCHANGED <<batch, requested, cpc, orphans, crashes, interrupted>>
    BY <1>2, TaskFrame
  <2>2. good' \in SUBSET Tasks
    BY <1>2 DEF RunTask, Goto, BeginTask, MarkTaskReady, CreateWorktree, Reserve, SaveAttempt, StartTask, CloseAttempt, AttemptKilled, Review, Integrate, CompleteTask, FailTask, StopTask, CancelTask, RunnerEnds
  <2>3. spent' \in BOOLEAN
    BY <1>2 DEF RunTask, budget, BeginTask, MarkTaskReady, CreateWorktree, Reserve, SaveAttempt, StartTask, CloseAttempt, AttemptKilled, Review, Integrate, CompleteTask, FailTask, StopTask, CancelTask, RunnerEnds
  <2> QED  BY <2>1, <2>2, <2>3
<1>3. CASE SaveRun \/ StartRun \/ ScheduleTasks \/ AdvanceRun \/ Settle
  BY <1>3 DEF SaveRun, StartRun, ScheduleTasks, AdvanceRun, Settle, MoveRun, routine, budget, recovery
<1>4. CASE ListReady \/ Gathered \/ GatherRaises \/ Remaining \/ VerifyGates \/ Evaluate \/ FinishCancel
  BY <1>4 DEF ListReady, Gathered, GatherRaises, Remaining, VerifyGates, Evaluate, FinishCancel, routine, budget, recovery
<1>5. CASE StartBatch
  BY <1>5, FirstBatch DEF StartBatch, budget, recovery
<1>6. ASSUME NEW t \in Tasks, SaveTask(t) \/ CancelOpenTask(t) PROVE RestInv'
  BY <1>6 DEF SaveTask, CancelOpenTask, executor, routine, budget, recovery
<1>7. CASE CancelLoad \/ CancelRequest \/ CancelKill
  BY <1>7 DEF CancelLoad, CancelRequest, CancelKill, Caller, executor, budget, recovery
<1>8. CASE Crash
  <2>1. crashes' \in 0..MaxCrashes
    BY <1>8, ConfigAssumption DEF Crash
  <2>2. interrupted' \in BOOLEAN
    BY <1>8 DEF Crash
  <2> QED  BY <1>8, <2>1, <2>2 DEF Crash
<1>9. CASE RecoverStep
  BY <1>9 DEF RecoverStep, Recover, AttemptsRecovered, RecoverRun, RecoverAttempt, RecoverTask, Others, executor, routine, budget
<1> QED  BY <1>1, <1>2, <1>3, <1>4, <1>5, <1>6, <1>7, <1>8, <1>9 DEF Next, Execute

Inv == /\ Kind /\ RunInv /\ LoneInv /\ AttemptInv /\ WorkInv /\ BatchInv /\ DepsInv
       /\ NoOverlap /\ RecoverInv /\ DoneInv /\ BudgetInv /\ RestInv

LEMMA InitInv == Init => Inv
<1> SUFFICES ASSUME Init PROVE Inv
  OBVIOUS
<1> USE DEF Init
<1>1. Kind
  BY DEF Kind, TaskPoints
<1>2. LoneInv /\ AttemptInv /\ RecoverInv /\ DoneInv /\ RunInv
  BY DEF LoneInv, AttemptInv, AttemptOf, ClosedOf, Unclosed, Outside, RecoverInv, DoneInv, RunInv
<1>3. WorkInv /\ BatchInv /\ DepsInv /\ RestInv
  <2>1. WorkInv
    BY ConfigAssumption DEF WorkInv, WorkOf, Runs, Attempts
  <2>2. BatchInv
    BY DEF BatchInv
  <2>3. DepsInv
    BY DEF DepsInv, Begun
  <2>4. RestInv
    <3>1. 0 \in 0..MaxCrashes
      BY ConfigAssumption
    <3> QED  BY <3>1 DEF RestInv
  <2> QED  BY <2>1, <2>2, <2>3, <2>4
<1>4. Saving = {} /\ {t \in Tasks : Begun(t)} = {}
  BY DEF Saving, Begun
<1>5. NoOverlap
  <2>1. Cardinality({}) = 0 /\ 0 <= MaxParallel
    BY FS_EmptySet, ConfigAssumption
  <2> DEFINE AtWork == {t \in Tasks : Begun(t)}
  <2>2. AtWork = {} /\ Cardinality(AtWork) <= MaxParallel
    BY <1>4, <2>1
  <2> HIDE DEF AtWork
  <2> QED  BY <2>2 DEF NoOverlap, AtWork
<1>6. BudgetInv
  BY <1>4, FS_EmptySet, CapIsNat DEF BudgetInv
<1> QED  BY <1>1, <1>2, <1>3, <1>5, <1>6 DEF Inv

THEOREM InvCorrect == Spec => []Inv
<1>1. Inv /\ [Next]_vars => Inv'
  BY KindStep, RunStep, LoneStep, RecoverKept, DoneStep, AttemptStep, BudgetStep, WorkStep, BatchStep, DepsStep, OverlapStep, RestStep DEF Inv
<1> QED  BY InitInv, <1>1, PTL DEF Spec

(* reserve_attempt, "Reserving up front is what makes the cap a cap": for every *)
(* plan, whatever is retried, reviewed or killed in parallel.              *)
THEOREM BudgetCorrect == Spec => []BudgetIsACap
<1>1. Inv => BudgetIsACap
  <2> SUFFICES ASSUME Inv PROVE BudgetIsACap
    OBVIOUS
  <2>1. Cardinality(Saving) \in Nat /\ MaxAttempts \in Nat
    BY PlanAssumption, FS_Subset, FS_CardinalityType, CapIsNat DEF Saving
  <2> QED  BY <2>1 DEF Inv, BudgetInv, Kind, BudgetIsACap
<1> QED  BY InvCorrect, <1>1, PTL

(* No row of a task is closed by the runner, a cancellation or recovery while *)
(* an attempt of its own is open.                                          *)
THEOREM ClosedCorrect == Spec => []ClosedWithItsAttempt
<1>1. Inv => ClosedWithItsAttempt
  BY DEF Inv, AttemptInv, ClosedOf, ClosedWithItsAttempt
<1> QED  BY InvCorrect, <1>1, PTL

(* evaluate_run_completion: a run in verification has all its tasks done, and *)
(* goes on having them done.  recover_run leaves nothing RUNNING.          *)
THEOREM WorkIsDoneCorrect == Spec => [](VerifiedWorkIsDone /\ RecoveredNothingRuns)
<1>1. Inv => VerifiedWorkIsDone /\ RecoveredNothingRuns
  BY DEF Inv, DoneInv, RecoverInv, Orphaned, VerifiedWorkIsDone, RecoveredNothingRuns
<1> QED  BY InvCorrect, <1>1, PTL
(* "The rows say what was done": a task is begun on the success of all it   *)
(* waits for, what was rejected is never merged, what counts as done with a *)
(* worktree of its own was merged, and nothing undoes it.                  *)
THEOREM HonestCorrect == Spec => []HonestRun
<1>1. ASSUME Inv PROVE HonestRun
  <2>1. Kind /\ WorkInv /\ BatchInv /\ RestInv /\ RunInv /\ RecoverInv
    BY <1>1 DEF Inv
  <2>2. tries \in [Tasks -> 0..Limit]
    BY <2>1, ConfigAssumption DEF Kind, WorkInv, WorkOf
  <2>3. task \in [Tasks -> TaskStates \cup {"NONE"}]
    BY <2>1 DEF Kind, TaskStates
  <2>4. TypeOK
    BY <2>1, <2>2, <2>3 DEF TypeOK, Kind, WorkInv, BatchInv, RestInv, RunInv, RecoverInv
  <2>5. BegunAfterDependencies
    BY <1>1 DEF Inv, DepsInv, May, BegunAfterDependencies
  <2>6. HonestIntegration
    BY <2>1, PlanAssumption DEF WorkInv, WorkOf, HonestIntegration
  <2>7. VerifiedWorkIsDone /\ RecoveredNothingRuns
    BY <1>1 DEF Inv, DoneInv, RecoverInv, Orphaned, VerifiedWorkIsDone, RecoveredNothingRuns
  <2> QED  BY <2>4, <2>5, <2>6, <2>7 DEF HonestRun
<1> QED  BY InvCorrect, <1>1, PTL

(* _parallel_batches, "no two in a batch write to overlapping paths": for    *)
(* every plan, limit and relation of scopes, whoever is cancelled, killed or *)
(* left behind by a dead executor.                                         *)
THEOREM OverlapCorrect == Spec => []NoOverlap
<1>1. Inv => NoOverlap
  BY DEF Inv
<1> QED  BY InvCorrect, <1>1, PTL

(* The tables hold of the rows: what a step writes over a row is a move from *)
(* what the row holds, not only from the copy the writer had read.          *)
LEMMA RunRowMoves ==
  ASSUME Inv, [Next]_vars, run' # run, run # "NONE"
  PROVE  run' \in RunMoves[run]
<1> USE DEF Inv, RunInv, Kind, RunMoves, RunStates
<1>1. CASE SaveRun \/ StartRun \/ ScheduleTasks \/ AdvanceRun
  BY <1>1 DEF SaveRun, StartRun, ScheduleTasks, AdvanceRun, MoveRun
<1>2. CASE Settle
  BY <1>2 DEF Settle, MoveRun
<1>3. CASE FinishCancel
  BY <1>3 DEF FinishCancel, Closable
<1>4. CASE RecoverRun
  BY <1>4 DEF RecoverRun
<1>5. ASSUME NEW t \in Tasks, RunTask(t) PROVE FALSE
  BY <1>5, TaskFrame
<1>6. CASE ListReady \/ StartBatch \/ Gathered \/ GatherRaises \/ Remaining \/ VerifyGates \/ Evaluate
  BY <1>6 DEF ListReady, StartBatch, Gathered, GatherRaises, Remaining, VerifyGates, Evaluate, rows
<1>7. ASSUME NEW t \in Tasks, SaveTask(t) \/ CancelOpenTask(t) \/ RecoverAttempt(t) \/ RecoverTask(t) PROVE FALSE
  BY <1>7 DEF SaveTask, CancelOpenTask, RecoverAttempt, RecoverTask
<1>8. CASE CancelLoad \/ CancelRequest \/ CancelKill \/ Crash \/ Recover \/ AttemptsRecovered
  BY <1>8 DEF CancelLoad, CancelRequest, CancelKill, Caller, Crash, Recover, AttemptsRecovered, rows
<1>9. ~UNCHANGED vars
  BY DEF vars, rows
<1> QED  BY <1>1, <1>2, <1>3, <1>4, <1>5, <1>6, <1>7, <1>8, <1>9 DEF Next, Execute, RecoverStep

LEMMA TaskRowMoves ==
  ASSUME Inv, [Next]_vars, NEW t \in Tasks, task'[t] # task[t], task[t] # "NONE"
  PROVE  task'[t] \in TaskMoves[task[t]]
<1>0. /\ Kind /\ LoneInv /\ AttemptOf(t) /\ WorkOf(t)
      /\ task[t] \in {"PLANNED", "READY", "RUNNING", "SUCCEEDED", "FAILED", "CANCELLED"}
  BY DEF Inv, AttemptInv, WorkInv, Kind
<1> USE DEF TaskMoves, TaskStates
<1>1. ASSUME RunTask(t) PROVE task'[t] \in TaskMoves[task[t]]
  <2>1. CASE MarkTaskReady(t)
    BY <2>1, <1>0 DEF MarkTaskReady, WorkOf, Kind
  <2>2. CASE StartTask(t)
    BY <2>2, <1>0 DEF StartTask, WorkOf, Kind
  <2>3. CASE CompleteTask(t) \/ FailTask(t)
    BY <2>3, <1>0 DEF CompleteTask, FailTask, WorkOf, Runs, Kind
  <2>4. CASE StopTask(t) \/ CancelTask(t)
    BY <2>4, <1>0 DEF StopTask, CancelTask, Kind
  <2>5. CASE BeginTask(t) \/ CreateWorktree(t) \/ Reserve(t) \/ SaveAttempt(t) \/ CloseAttempt(t) \/ AttemptKilled(t) \/ Review(t) \/ Integrate(t)
    BY <2>5 DEF BeginTask, CreateWorktree, Reserve, SaveAttempt, CloseAttempt, AttemptKilled, Review, Integrate
  <2>6. CASE \E success \in BOOLEAN : RunnerEnds(t, success)
    BY <2>6 DEF RunnerEnds
  <2> QED  BY <1>1, <2>1, <2>2, <2>3, <2>4, <2>5, <2>6 DEF RunTask
<1>2. ASSUME NEW u \in Tasks, RunTask(u) PROVE task'[t] \in TaskMoves[task[t]]
  BY <1>0, <1>1, <1>2, TaskFrame
<1>3. ASSUME NEW u \in Tasks, SaveTask(u) \/ CancelOpenTask(u) \/ RecoverTask(u)
      PROVE  task'[t] \in TaskMoves[task[t]]
  BY <1>0, <1>3 DEF SaveTask, CancelOpenTask, RecoverTask, Open, Kind
<1>4. ~(StartBatch \/ CancelKill \/ Crash)
  BY DEF StartBatch, CancelKill, Caller, Crash, rows
<1> QED  BY <1>2, <1>3, <1>4, Movers

LEMMA AttemptRowMoves ==
  ASSUME Inv, [Next]_vars, NEW t \in Tasks, attempt'[t] # attempt[t]
  PROVE  IF attempt'[t] = "CREATED" THEN attempt[t] \in AttemptTerminal \cup {"NONE"}
         ELSE attempt'[t] \in AttemptMoves[attempt[t]]
<1> DEFINE Goal == IF attempt'[t] = "CREATED" THEN attempt[t] \in AttemptTerminal \cup {"NONE"}
                   ELSE attempt'[t] \in AttemptMoves[attempt[t]]
<1>0. Kind /\ LoneInv /\ AttemptOf(t)
  BY DEF Inv, AttemptInv
<1> USE DEF AttemptMoves, AttemptStates
<1>1. ASSUME RunTask(t) PROVE Goal
  <2>1. epc # "crashed"
    BY <1>0, <1>1, TaskFrame
  <2>2. CASE SaveAttempt(t)
    BY <2>1, <2>2, <1>0 DEF SaveAttempt, AttemptOf, Unclosed, Kind
  <2>3. CASE CloseAttempt(t)
    BY <2>3, <1>0 DEF CloseAttempt, AttemptOf, Kind
  <2>4. CASE AttemptKilled(t)
    BY <2>4, <1>0 DEF AttemptKilled, AttemptOf, Kind
  <2>5. CASE BeginTask(t) \/ MarkTaskReady(t) \/ CreateWorktree(t) \/ Reserve(t) \/ StartTask(t) \/ Review(t) \/ Integrate(t)
    BY <2>5 DEF BeginTask, MarkTaskReady, CreateWorktree, Reserve, StartTask, Review, Integrate
  <2>6. CASE CompleteTask(t) \/ FailTask(t) \/ StopTask(t) \/ CancelTask(t)
    BY <2>6 DEF CompleteTask, FailTask, StopTask, CancelTask
  <2>7. CASE \E success \in BOOLEAN : RunnerEnds(t, success)
    BY <2>7 DEF RunnerEnds
  <2> QED  BY <1>1, <2>2, <2>3, <2>4, <2>5, <2>6, <2>7 DEF RunTask
<1>2. ASSUME NEW u \in Tasks, RunTask(u) PROVE Goal
  BY <1>0, <1>1, <1>2, TaskFrame
<1>3. ASSUME NEW u \in Tasks, RecoverAttempt(u) PROVE Goal
  BY <1>0, <1>3 DEF RecoverAttempt, Orphaned, Kind
<1>4. ASSUME NEW u \in Tasks, SaveTask(u) \/ CancelOpenTask(u) \/ RecoverTask(u) PROVE FALSE
  BY <1>4 DEF SaveTask, CancelOpenTask, RecoverTask
<1>5. ~(SaveRun \/ StartRun \/ ScheduleTasks \/ AdvanceRun \/ Settle \/ FinishCancel)
  BY DEF SaveRun, StartRun, ScheduleTasks, AdvanceRun, Settle, MoveRun, FinishCancel
<1>6. ~(ListReady \/ StartBatch \/ Gathered \/ GatherRaises \/ Remaining \/ VerifyGates \/ Evaluate)
  BY DEF ListReady, StartBatch, Gathered, GatherRaises, Remaining, VerifyGates, Evaluate, rows
<1>7. ~(CancelLoad \/ CancelRequest \/ CancelKill \/ Crash \/ Recover \/ AttemptsRecovered \/ RecoverRun)
  BY DEF CancelLoad, CancelRequest, CancelKill, Caller, Crash, Recover, AttemptsRecovered, RecoverRun, rows
<1>8. ~UNCHANGED vars
  BY DEF vars, rows
<1> QED  BY <1>2, <1>3, <1>4, <1>5, <1>6, <1>7, <1>8 DEF Next, Execute, RecoverStep

THEOREM MovesCorrect == Spec => LegalMoves
<1> DEFINE A == /\ run' # run /\ run # "NONE" => run' \in RunMoves[run]
                /\ \A t \in Tasks :
                     /\ task'[t] # task[t] /\ task[t] # "NONE" => task'[t] \in TaskMoves[task[t]]
                     /\ attempt'[t] # attempt[t] =>
                          IF attempt'[t] = "CREATED" THEN attempt[t] \in AttemptTerminal \cup {"NONE"}
                          ELSE attempt'[t] \in AttemptMoves[attempt[t]]
<1>1. Inv /\ [Next]_vars => A
  BY RunRowMoves, TaskRowMoves, AttemptRowMoves
<1> HIDE DEF A
<1>2. Inv /\ [Next]_vars => [A]_vars
  BY <1>1
<1>3. Spec => [][A]_vars
  BY InvCorrect, <1>2, PTL DEF Spec
<1> QED  BY <1>3 DEF LegalMoves, A
=============================================================================
