--------------------------- MODULE DispatchProofs ---------------------------
(***************************************************************************)
(* What holds of the planner's graph algorithms and of the routing of a      *)
(* task, for every plan, set of scopes, roster, preference and limit:       *)
(* validate_dag accepts exactly what has an order, the order found is one,   *)
(* overlapping scopes are reported and kept apart; the router goes by the    *)
(* registry, observations are not lost, no model is tried twice for a task   *)
(* and the reviewer is of another provider than the author.                 *)
(***************************************************************************)
EXTENDS Dispatch, FiniteSetTheorems, TLAPS

-----------------------------------------------------------------------------
(* The inductive invariant of the planner: the search ...                  *)
TaskSets == SUBSET TaskIds
Black == {t \in TaskIds : color[t] = "black"}

(* Every non-empty part of S has a member that depends on none of it.        *)
Unstuck(S) == \A T \in SUBSET S : T # {} => \E t \in T : Adj(t) \cap T = {}
SomeStuck == \E T \in TaskSets : T # {} /\ \A t \in T : Adj(t) \cap T # {}

(* ... has left nothing behind that depends on what it has not left, ...     *)
BlackInv == Unstuck(Black) /\ \A t \in Black : Adj(t) \cap TaskIds \subseteq Black

(* ... and its stack is a path, whose nodes have looked at what is behind     *)
(* them and at the next one.                                               *)
StackInv ==
  /\ stack \in Seq(TaskIds)
  /\ \A t \in TaskIds : left[t] \subseteq Adj(t)
  /\ \A i \in DOMAIN stack : i + 1 \in DOMAIN stack => stack[i + 1] \in Adj(stack[i])
  /\ \A i \in DOMAIN stack : \A d \in (Adj(stack[i]) \ left[stack[i]]) \cap TaskIds :
       d \in Black \/ (i + 1 \in DOMAIN stack /\ d = stack[i + 1])

(* What the outcomes of validate_dag say.                                  *)
Absent == {e \in Nodes \X (Ids \cup {Unknown}) : e[2] \in deps[e[1]] \ TaskIds}

OutcomeInv ==
  /\ cycle => SomeStuck
  /\ at \in {"validate", "valid", "refused"} => missing = Absent
  /\ at = "valid" => missing = {} /\ Black = TaskIds
  /\ at = "refused" => cycle \/ missing # {}

(* The order is one as far as it goes, and ends when nothing is ready.       *)
OrderInv ==
  /\ \A i \in DOMAIN order : \A d \in deps[order[i]] : \E j \in 1..(i - 1) : ids[order[j]] = d
  /\ at = "ordered" => Range(order) = Nodes
  /\ at = "unordered" => Range(order) # Nodes /\ \A n \in Nodes \ Range(order) : ~Ready(n)

GraphInv == GTypeOK /\ BlackInv /\ StackInv /\ OutcomeInv /\ OrderInv

-----------------------------------------------------------------------------
(* The inductive invariant of the router: the job ...                      *)
Candidates == Models \cup {Default}

Jobs ==
  [at : Steps, task : Ids \cup {None}, selected : Models \cup {None},
   candidates : Seq(Models), list : Seq(Candidates), tried : Seq(Candidates),
   reviewed : BOOLEAN, reviewer : Models \cup {None}, ok : BOOLEAN]

JobType == job \in Jobs

(* ... tries its list from the front, and is then reviewed by another; ...    *)
JobInv ==
  /\ job.at \in {"idle", "routed"} => job.tried = <<>>
  /\ job.at = "routed" => IsInjective(job.candidates)
  /\ job.at \in {"trying", "observed", "reviewing", "judged"} =>
       /\ Len(job.tried) \in 1..Len(job.list)
       /\ \A i \in DOMAIN job.tried : job.tried[i] = job.list[i]
       /\ IsInjective(job.list) /\ Len(job.list) <= 1 + MaxFallback
  /\ job.reviewer # None =>
       /\ job.at \in {"reviewing", "judged"}
       /\ Last(job.tried) # Default => Provider[job.reviewer] # Provider[Last(job.tried)]

(* ... what the card was told and the table not yet; ...                    *)
Owed(c) == job.at \in {"observed", "judged"} /\ c = <<Current, job.ok>>

CardInv == up => \A c \in Candidates \X BOOLEAN :
                   stored[c] + (IF Owed(c) THEN 1 ELSE 0) <= score[c]

(* ... and nothing runs in an application that is down.                     *)
UpInv == /\ probing => up
         /\ job.at # "idle" => up
         /\ RouterFollowsRegistry

RegistryType ==
  /\ up \in BOOLEAN /\ boots \in 0..MaxBoots
  /\ cached \in Answers \cup {Pending} /\ current \in Answers \cup {Pending}
  /\ probing \in BOOLEAN /\ available \in SUBSET UNION Listings
  /\ score \in Counters /\ stored \in Counters

RouterInv == RegistryType /\ JobType /\ JobInv /\ CardInv /\ UpInv

(* The run: what is being carried out has not come to an end before.         *)
RunInv ==
  /\ succeeded \subseteq TaskIds /\ failed \subseteq TaskIds \ succeeded /\ begun \in 0..MaxBegun
  /\ job.at # "idle" => job.task \in TaskIds \ (succeeded \cup failed)
  /\ job.task \in TaskIds \cup {None}

DispatchInv == GraphInv /\ RouterInv /\ RunInv

-----------------------------------------------------------------------------
LEMMA LeastMember ==
  ASSUME NEW S, S \subseteq Nat, S # {}
  PROVE  \E n \in S : \A m \in S : n <= m
<1> DEFINE R == OpToRel(<, Nat)
<1>1. IsWellFoundedOn(R, Nat)
  BY NatLessThanWellFounded
<1>2. \A m, k \in Nat : m < k => <<m, k>> \in R
  BY DEF OpToRel
<1> HIDE DEF R
<1>3. PICK n \in S : \A m \in S : ~ (<<m, n>> \in R)
  BY <1>1, WFMin
<1>4. ASSUME NEW m \in S PROVE n <= m
  <2>1. m \in Nat /\ n \in Nat /\ ~(m < n)
    BY <1>2, <1>3
  <2> QED  BY <2>1
<1> QED  BY <1>4

LEMMA SetInduction ==
  ASSUME NEW S, 0 \in S, \A n \in Nat : n \in S => n + 1 \in S
  PROVE  Nat \subseteq S
<1> SUFFICES ASSUME Nat \ S # {} PROVE FALSE
  OBVIOUS
<1>1. PICK n \in Nat \ S : \A m \in Nat \ S : n <= m
  BY LeastMember
<1>2. n # 0 /\ n - 1 \in Nat /\ ~(n <= n - 1)
  BY <1>1
<1>3. n - 1 \in S /\ (n - 1) + 1 = n
  BY <1>1, <1>2
<1> QED  BY <1>1, <1>2, <1>3

(* f is what the steps F[1] .. F[k] make of c, one after the other.        *)
Folded(f, k, V, c, F) ==
  f \in [0..k -> V] /\ f[0] = c /\ \A i \in 1..k : f[i] = F[i][f[i-1]]

(* There is such an f: a function defined by recursion over 0..n is one.    *)
LEMMA FoldExists ==
  ASSUME NEW n \in Nat, NEW V, NEW c \in V, NEW F \in [1..n -> [V -> V]]
  PROVE  \E f : Folded(f, n, V, c, F)
<1> DEFINE S == {k \in Nat : k > n \/ \E f : Folded(f, k, V, c, F)}
<1>1. 0 \in S
  <2> DEFINE g == [i \in 0..0 |-> c]
  <2>1. Folded(g, 0, V, c, F)
    BY DEF Folded
  <2> HIDE DEF g
  <2> QED  BY <2>1
<1>2. ASSUME NEW k \in Nat, k \in S PROVE k + 1 \in S
  <2>1. CASE k >= n
    <3>1. k + 1 > n /\ k + 1 \in Nat
      BY <2>1
    <3> QED  BY <3>1
  <2>2. CASE k < n
    <3>1. PICK f : Folded(f, k, V, c, F)
      BY <1>2, <2>2
    <3> DEFINE g == [i \in 0..(k+1) |-> IF i = k + 1 THEN F[k+1][f[k]] ELSE f[i]]
    <3>2. f[k] \in V /\ k + 1 \in 1..n
      BY <2>2, <3>1 DEF Folded
    <3>3. F[k+1][f[k]] \in V
      BY <3>2
    <3>4. g \in [0..(k+1) -> V]
      BY <3>1, <3>3 DEF Folded
    <3>5. g[0] = c
      BY <3>1 DEF Folded
    <3>6. ASSUME NEW i \in 1..(k+1) PROVE g[i] = F[i][g[i-1]]
      <4>1. CASE i = k + 1
        BY <4>1
      <4>2. CASE i # k + 1
        <5>1. i \in 1..k /\ i - 1 \in 0..(k+1) /\ i - 1 # k + 1 /\ i \in 0..(k+1)
          BY <4>2
        <5>2. g[i] = f[i] /\ g[i-1] = f[i-1]
          BY <5>1
        <5> QED  BY <3>1, <5>1, <5>2 DEF Folded
      <4> QED  BY <4>1, <4>2
    <3> HIDE DEF g
    <3>7. Folded(g, k + 1, V, c, F)
      BY <3>4, <3>5, <3>6 DEF Folded
    <3> QED  BY <3>7
  <2>3. k \in Nat /\ n \in Nat
    OBVIOUS
  <2> HIDE DEF S
  <2> QED  BY <2>1, <2>2, <2>3
<1>3. Nat \subseteq S
  <2> HIDE DEF S
  <2> QED  BY <1>1, <1>2, SetInduction
<1>4. n \in S /\ ~(n > n)
  BY <1>3
<1> QED  BY <1>4

LEMMA LeastIs ==
  ASSUME NEW S, S \subseteq Nat, S # {}
  PROVE  Min(S) \in S
<1>1. \E n \in S : \A m \in S : n <= m
  BY LeastMember
<1> QED  BY <1>1 DEF Min

LEMMA GreatestIs ==
  ASSUME NEW k \in Nat, NEW S, S \subseteq 0..k, S # {}
  PROVE  Max(S) \in S
<1> DEFINE R == {i \in 0..k : k - i \in S}
<1>1. \A n \in S : n \in 0..k /\ k - n \in 0..k /\ k - (k - n) = n
  OBVIOUS
<1>2. R \subseteq Nat /\ R # {}
  <2>1. PICK n \in S : TRUE
    OBVIOUS
  <2>2. k - n \in R
    BY <1>1, <2>1
  <2>3. R \subseteq Nat
    OBVIOUS
  <2> HIDE DEF R
  <2> QED  BY <2>2, <2>3
<1>3. PICK r \in R : \A i \in R : r <= i
  <2> HIDE DEF R
  <2> QED  BY <1>2, LeastMember
<1>4. k - r \in S /\ r \in 0..k
  BY <1>3
<1>5. ASSUME NEW n \in S PROVE k - r >= n
  <2>1. k - n \in R
    BY <1>1
  <2>2. r <= k - n
    BY <2>1, <1>3
  <2> QED  BY <2>2, <1>1, <1>4
<1>6. \E x \in S : \A y \in S : x >= y
  BY <1>4, <1>5
<1> QED  BY <1>6 DEF Max

-----------------------------------------------------------------------------
(* A sequence that grows by what of a list is in a set.                    *)
Grow(x, list, S, i) == IF list[i] \in S THEN Append(x, list[i]) ELSE x

Growing(g, s, list, S, k) ==
  /\ g[0] = s /\ \A i \in 1..k : g[i] = Grow(g[i-1], list, S, i)

LEMMA GrowingExists ==
  ASSUME NEW T, NEW s \in Seq(T), NEW k \in Nat, NEW list \in [1..k -> T], NEW S
  PROVE  \E g : /\ g = [n \in 0..k |-> IF n = 0 THEN s ELSE Grow(g[n-1], list, S, n)]
                /\ Growing(g, s, list, S, k)
<1> DEFINE V == Seq(T)
           F == [i \in 1..k |-> [x \in V |-> Grow(x, list, S, i)]]
<1>1. \A i \in 1..k, x \in V : Grow(x, list, S, i) \in V
  BY DEF Grow
<1>2. F \in [1..k -> [V -> V]]
  BY <1>1
<1> HIDE DEF F, V
<1>3. s \in V
  BY DEF V
<1>4. PICK g : Folded(g, k, V, s, F)
  BY <1>2, <1>3, FoldExists
<1>5. ASSUME NEW n \in 1..k PROVE g[n] = Grow(g[n-1], list, S, n)
  <2>1. n - 1 \in 0..k
    OBVIOUS
  <2>2. g[n] = F[n][g[n-1]] /\ g[n-1] \in V
    BY <1>4, <2>1 DEF Folded
  <2> QED  BY <2>2 DEF F
<1>6. ASSUME NEW n \in 0..k
      PROVE  g[n] = IF n = 0 THEN s ELSE Grow(g[n-1], list, S, n)
  <2>1. CASE n = 0
    BY <1>4, <2>1 DEF Folded
  <2>2. CASE n # 0
    <3>1. n \in 1..k
      BY <2>2
    <3> QED  BY <1>5, <2>2, <3>1
  <2> QED  BY <2>1, <2>2
<1>7. g = [n \in 0..k |-> g[n]]
  BY <1>4 DEF Folded
<1>8. g = [n \in 0..k |-> IF n = 0 THEN s ELSE Grow(g[n-1], list, S, n)]
  BY <1>6, <1>7, Zenon
<1>9. Growing(g, s, list, S, k)
  BY <1>4, <1>5 DEF Growing, Folded
<1> QED  BY <1>8, <1>9

(* Such a sequence begins as it began and goes on with members of the set,    *)
(* all that the list has; it comes to no member twice.                      *)
Grown(x, s, list, S, k, T) ==
  /\ x \in Seq(T) /\ Len(s) <= Len(x)
  /\ \A i \in 1..Len(s) : x[i] = s[i]
  /\ \A i \in 1..Len(x) : i > Len(s) => \E j \in 1..k : x[i] = list[j] /\ list[j] \in S
  /\ \A j \in 1..k : list[j] \in S => \E i \in 1..Len(x) : x[i] = list[j]
  /\ IsInjective(x)

LEMMA GrowKeeps ==
  ASSUME NEW T, NEW s \in Seq(T), NEW k \in Nat, NEW list \in [1..(k+1) -> T], NEW S,
         IsInjective(list), \A j \in 1..(k+1) : list[j] \in S => list[j] \notin Range(s),
         NEW x, Grown(x, s, list, S, k, T)
  PROVE  Grown(Grow(x, list, S, k + 1), s, list, S, k + 1, T)
<1>1. k + 1 \in 1..(k+1) /\ 1..(k+1) = 1..k \cup {k + 1} /\ k + 1 \notin 1..k
  OBVIOUS
<1>2. CASE list[k+1] \notin S
  BY <1>1, <1>2 DEF Grown, Grow
<1>3. CASE list[k+1] \in S
  <2> DEFINE e == list[k+1]
             y == Append(x, e)
  <2>1. x \in Seq(T) /\ e \in T /\ Len(x) \in Nat /\ Len(s) \in Nat /\ Len(s) <= Len(x)
    BY <1>1 DEF Grown
  <2>2. /\ y \in Seq(T) /\ Len(y) = Len(x) + 1 /\ y[Len(x) + 1] = e
        /\ \A i \in 1..Len(x) : y[i] = x[i]
        /\ 1..Len(y) = 1..Len(x) \cup {Len(x) + 1} /\ DOMAIN y = 1..Len(y) /\ DOMAIN x = 1..Len(x)
    BY <2>1
  <2>3. Grow(x, list, S, k + 1) = y
    BY <1>3 DEF Grow
  <2>4. \A i \in 1..Len(x) : x[i] # e
    <3>1. ASSUME NEW i \in 1..Len(x), x[i] = e PROVE FALSE
      <4>1. CASE i > Len(s)
        <5>1. PICK j \in 1..k : x[i] = list[j]
          BY <4>1 DEF Grown
        <5>2. j \in DOMAIN list /\ k + 1 \in DOMAIN list /\ j # k + 1
          BY <1>1
        <5> QED  BY <3>1, <5>1, <5>2 DEF IsInjective
      <4>2. CASE i <= Len(s)
        <5>1. i \in 1..Len(s) /\ DOMAIN s = 1..Len(s)
          BY <4>2
        <5>2. x[i] = s[i]
          BY <5>1 DEF Grown
        <5>3. e \in Range(s)
          BY <3>1, <5>1, <5>2 DEF Range
        <5> QED  BY <5>3, <1>1, <1>3
      <4> QED  BY <2>1, <4>1, <4>2
    <3> QED  BY <3>1
  <2> HIDE DEF y
  <2>5. IsInjective(y)
    <3>1. ASSUME NEW a \in DOMAIN y, NEW b \in DOMAIN y, y[a] = y[b] PROVE a = b
      <4>1. CASE a \in 1..Len(x) /\ b \in 1..Len(x)
        BY <2>2, <3>1, <4>1 DEF Grown, IsInjective
      <4>2. CASE a = Len(x) + 1 \/ b = Len(x) + 1
        BY <2>2, <2>4, <3>1, <4>2
      <4> QED  BY <2>2, <4>1, <4>2
    <3> QED  BY <3>1 DEF IsInjective
  <2>6. Len(s) <= Len(y) /\ \A i \in 1..Len(s) : y[i] = s[i]
    <3>1. \A i \in 1..Len(s) : i \in 1..Len(x) /\ x[i] = s[i]
      BY <2>1 DEF Grown
    <3> QED  BY <2>1, <2>2, <3>1
  <2>7. ASSUME NEW i \in 1..Len(y), i > Len(s)
        PROVE  \E j \in 1..(k+1) : y[i] = list[j] /\ list[j] \in S
    <3>1. CASE i \in 1..Len(x)
      <4>1. \E j \in 1..k : x[i] = list[j] /\ list[j] \in S
        BY <2>7, <3>1 DEF Grown
      <4> QED  BY <1>1, <2>2, <3>1, <4>1
    <3>2. CASE i = Len(x) + 1
      BY <1>1, <1>3, <2>2, <3>2
    <3> QED  BY <2>2, <3>1, <3>2
  <2>8. ASSUME NEW j \in 1..(k+1), list[j] \in S PROVE \E i \in 1..Len(y) : y[i] = list[j]
    <3>1. CASE j \in 1..k
      <4>1. PICK i \in 1..Len(x) : x[i] = list[j]
        BY <2>8, <3>1 DEF Grown
      <4> QED  BY <2>2, <4>1
    <3>2. CASE j = k + 1
      BY <2>2, <3>2
    <3> QED  BY <1>1, <3>1, <3>2
  <2> HIDE DEF e
  <2> QED  BY <2>2, <2>3, <2>5, <2>6, <2>7, <2>8 DEF Grown
<1> QED  BY <1>2, <1>3

(* All of a growing sequence is as its steps are.                          *)
LEMMA GrowingIs ==
  ASSUME NEW T, NEW s \in Seq(T), NEW k \in Nat, NEW list \in [1..k -> T], NEW S,
         IsInjective(s), IsInjective(list), \A j \in 1..k : list[j] \in S => list[j] \notin Range(s),
         NEW g, Growing(g, s, list, S, k)
  PROVE  Grown(g[k], s, list, S, k, T)
<1> DEFINE First(n) == [j \in 1..n |-> list[j]]
           R == {n \in Nat : n <= k => Grown(g[n], s, First(n), S, n, T)}
<1>1. 0 \in R
  <2>1. g[0] = s /\ Len(s) \in Nat /\ DOMAIN s = 1..Len(s)
    BY DEF Growing
  <2>2. Grown(s, s, First(0), S, 0, T)
    BY <2>1 DEF Grown
  <2> QED  BY <2>1, <2>2
<1>2. ASSUME NEW n \in Nat, n \in R PROVE n + 1 \in R
  <2>1. CASE n + 1 <= k
    <3>1. /\ n + 1 \in 1..k /\ (n + 1) - 1 = n /\ n <= k /\ n + 1 \in 1..(n+1)
          /\ \A j \in 1..(n+1) : j \in 1..k
          /\ \A j \in 1..n : j \in 1..(n+1)
      BY <2>1
    <3>2. g[n+1] = Grow(g[n], list, S, n + 1)
      BY <3>1 DEF Growing
    <3>3. Grow(g[n], list, S, n + 1) = Grow(g[n], First(n + 1), S, n + 1)
      BY <3>1 DEF Grow
    <3>4. Grown(g[n], s, First(n), S, n, T)
      BY <1>2, <3>1
    <3>5. Grown(g[n], s, First(n + 1), S, n, T)
      <4>1. \A j \in 1..n : First(n)[j] = First(n + 1)[j]
        BY <3>1
      <4> HIDE DEF First
      <4> QED  BY <3>4, <4>1 DEF Grown
    <3>6. First(n + 1) \in [1..(n+1) -> T] /\ IsInjective(First(n + 1))
      BY <3>1 DEF IsInjective
    <3>7. \A j \in 1..(n+1) : First(n + 1)[j] \in S => First(n + 1)[j] \notin Range(s)
      BY <3>1
    <3> HIDE DEF First
    <3>8. Grown(Grow(g[n], First(n + 1), S, n + 1), s, First(n + 1), S, n + 1, T)
      BY <3>5, <3>6, <3>7, GrowKeeps
    <3> QED  BY <3>2, <3>3, <3>8
  <2>2. CASE ~(n + 1 <= k)
    BY <2>2
  <2> QED  BY <2>1, <2>2
<1>3. Nat \subseteq R
  <2> HIDE DEF R
  <2> QED  BY <1>1, <1>2, SetInduction
<1>4. Grown(g[k], s, First(k), S, k, T)
  <2>1. k \in R /\ k <= k
    BY <1>3
  <2> HIDE DEF First
  <2> QED  BY <2>1
<1>5. First(k) = list
  OBVIOUS
<1> QED  BY <1>4, <1>5

(* _fallback_candidates: what it keeps of a list ...                       *)
LEMMA KeptIs ==
  ASSUME NEW T, NEW s \in Seq(T), NEW list \in Seq(T), NEW S,
         IsInjective(s), IsInjective(list),
         \A j \in 1..Len(list) : list[j] \in S => list[j] \notin Range(s)
  PROVE  Grown(Kept(s, list, S), s, list, S, Len(list), T)
<1> DEFINE Is(g) == g = [n \in 0..Len(list) |->
                           IF n = 0 THEN s
                           ELSE IF list[n] \in S THEN Append(g[n-1], list[n]) ELSE g[n-1]]
<1>1. Len(list) \in Nat /\ list \in [1..Len(list) -> T]
  OBVIOUS
<1>2. \E g : Is(g)
  <2>1. PICK g : /\ g = [n \in 0..Len(list) |-> IF n = 0 THEN s ELSE Grow(g[n-1], list, S, n)]
                 /\ Growing(g, s, list, S, Len(list))
    BY <1>1, GrowingExists
  <2>2. ASSUME NEW n \in 0..Len(list)
        PROVE  g[n] = IF n = 0 THEN s
                      ELSE IF list[n] \in S THEN Append(g[n-1], list[n]) ELSE g[n-1]
    <3>1. g[n] = IF n = 0 THEN s ELSE Grow(g[n-1], list, S, n)
      BY <2>1
    <3> QED  BY <3>1 DEF Grow
  <2>3. g = [n \in 0..Len(list) |-> g[n]]
    BY <2>1
  <2>4. Is(g)
    BY <2>2, <2>3, Zenon
  <2> QED  BY <2>4
<1> DEFINE h == CHOOSE h : Is(h)
<1>3. Is(h)
  BY <1>2
<1>4. Kept(s, list, S) = h[Len(list)]
  BY Zenon DEF Kept
<1> HIDE DEF h
<1>5. Growing(h, s, list, S, Len(list))
  <2>1. h[0] = s
    BY <1>1, <1>3
  <2>2. ASSUME NEW i \in 1..Len(list) PROVE h[i] = Grow(h[i-1], list, S, i)
    <3>1. i \in 0..Len(list) /\ i # 0
      BY <1>1
    <3> QED  BY <1>3, <3>1 DEF Grow
  <2> QED  BY <2>1, <2>2 DEF Growing
<1> QED  BY <1>1, <1>4, <1>5, GrowingIs

(* ... and dependency_aware_order: what a round appends.                    *)
LEMMA ExtendedIs ==
  ASSUME NEW s \in Seq(Nodes), NEW R \in SUBSET Nodes, ids \in Seq(Ids),
         IsInjective(s), R \cap Range(s) = {}
  PROVE  Grown(Extended(s, R), s, [n \in Nodes |-> n], R, Len(ids), Nodes)
<1> DEFINE list == [n \in Nodes |-> n]
           Is(g) == g = [n \in 0..Len(ids) |->
                           IF n = 0 THEN s
                           ELSE IF n \in R THEN Append(g[n-1], n) ELSE g[n-1]]
<1>1. Len(ids) \in Nat /\ Nodes = 1..Len(ids)
  BY DEF Nodes
<1>2. list \in [1..Len(ids) -> Nodes] /\ IsInjective(list) /\ \A j \in 1..Len(ids) : list[j] = j
  BY <1>1 DEF IsInjective
<1>3. \A j \in 1..Len(ids) : list[j] \in R => list[j] \notin Range(s)
  BY <1>2
<1> HIDE DEF list
<1>4. PICK g : /\ g = [n \in 0..Len(ids) |-> IF n = 0 THEN s ELSE Grow(g[n-1], list, R, n)]
               /\ Growing(g, s, list, R, Len(ids))
  BY <1>1, <1>2, GrowingExists
<1>5. Is(g)
  <2>1. ASSUME NEW n \in 0..Len(ids)
        PROVE  g[n] = IF n = 0 THEN s ELSE IF n \in R THEN Append(g[n-1], n) ELSE g[n-1]
    <3>1. n # 0 => n \in 1..Len(ids)
      BY <1>1
    <3> QED  BY <1>2, <1>4, <3>1 DEF Grow
  <2>2. g = [n \in 0..Len(ids) |-> g[n]]
    BY <1>4
  <2> QED  BY <2>1, <2>2, Zenon
<1> DEFINE h == CHOOSE h : Is(h)
<1>6. Is(h)
  BY <1>5
<1>7. Extended(s, R) = h[Len(ids)]
  BY Zenon DEF Extended
<1> HIDE DEF h
<1>8. Growing(h, s, list, R, Len(ids))
  <2>1. h[0] = s
    BY <1>1, <1>6
  <2>2. ASSUME NEW i \in 1..Len(ids) PROVE h[i] = Grow(h[i-1], list, R, i)
    <3>1. i \in 0..Len(ids) /\ i # 0
      BY <1>1
    <3> QED  BY <1>2, <1>6, <3>1 DEF Grow
  <2> QED  BY <2>1, <2>2 DEF Growing
<1>9. Grown(h[Len(ids)], s, list, R, Len(ids), Nodes)
  BY <1>1, <1>2, <1>3, <1>8, GrowingIs
<1> QED  BY <1>7, <1>9 DEF list

-----------------------------------------------------------------------------
(* The plan does not change; a task is known by a node of it.              *)
LEMMA NodeIs ==
  ASSUME ids \in Seq(Ids), NEW t \in TaskIds
  PROVE  NodeOf(t) \in Nodes /\ ids[NodeOf(t)] = t
<1> DEFINE S == {n \in Nodes : ids[n] = t}
<1>1. Len(ids) \in Nat /\ Nodes = 1..Len(ids)
  BY DEF Nodes
<1>2. S \subseteq 0..Len(ids)
  BY <1>1
<1>3. S # {}
  BY DEF TaskIds, Range, Nodes
<1>4. Max(S) \in S
  <2> HIDE DEF S
  <2> QED  BY <1>1, <1>2, <1>3, GreatestIs
<1> QED  BY <1>4 DEF NodeOf

LEMMA AdjIs ==
  ASSUME GTypeOK, NEW t \in TaskIds
  PROVE  Adj(t) \in SUBSET (Ids \cup {Unknown})
<1>1. ids \in Seq(Ids)
  BY IdAssumption DEF GTypeOK
<1> QED  BY <1>1, NodeIs DEF Adj, GTypeOK

LEMMA PlanSame ==
  ASSUME UNCHANGED plan
  PROVE  /\ Nodes' = Nodes /\ TaskIds' = TaskIds /\ Absent' = Absent
         /\ \A t : Adj(t)' = Adj(t)
<1>1. ids' = ids /\ deps' = deps
  BY DEF plan
<1> QED  BY <1>1 DEF Nodes, TaskIds, Absent, Adj, NodeOf

LEMMA SomeStuckSame ==
  ASSUME UNCHANGED plan
  PROVE  SomeStuck' = SomeStuck
BY PlanSame DEF SomeStuck, TaskSets

LEMMA UnstuckGrows ==
  ASSUME NEW B, NEW t, Unstuck(B), \A u \in B \cup {t} : t \notin Adj(u)
  PROVE  Unstuck(B \cup {t})
<1> SUFFICES ASSUME NEW T \in SUBSET (B \cup {t}), T # {}
             PROVE  \E u \in T : Adj(u) \cap T = {}
  BY DEF Unstuck
<1>1. CASE T \ {t} = {}
  <2>1. T = {t}
    BY <1>1
  <2> QED  BY <2>1
<1>2. CASE T \ {t} # {}
  <2>1. T \ {t} \in SUBSET B
    OBVIOUS
  <2>2. PICK u \in T \ {t} : Adj(u) \cap (T \ {t}) = {}
    BY <1>2, <2>1 DEF Unstuck
  <2>3. t \notin Adj(u)
    OBVIOUS
  <2> QED  BY <2>2, <2>3
<1> QED  BY <1>1, <1>2

-----------------------------------------------------------------------------
(* validate_dag, step by step.  What the steps of the search keep of the      *)
(* rest of the invariant is the same for each of them.                     *)
SearchType ==
  /\ color \in [TaskIds -> {"white", "gray", "black"}]
  /\ IsInjective(stack) /\ Range(stack) = {t \in TaskIds : color[t] = "gray"}
  /\ left \in [TaskIds -> SUBSET (Ids \cup {Unknown})]

LEMMA SearchKeeps ==
  ASSUME GraphInv, UNCHANGED <<plan, at, missing, order>>, at = "validate",
         SearchType', BlackInv', StackInv', cycle' \in BOOLEAN, cycle' => SomeStuck
  PROVE  GraphInv'
<1> USE DEF GraphInv
<1>1. /\ Nodes' = Nodes /\ TaskIds' = TaskIds /\ Absent' = Absent
      /\ ids' = ids /\ deps' = deps /\ scope' = scope
      /\ at' = at /\ missing' = missing /\ order' = order /\ SomeStuck' = SomeStuck
  BY PlanSame, SomeStuckSame DEF plan
<1>2. GTypeOK'
  BY <1>1 DEF GTypeOK, SearchType
<1>3. OutcomeInv'
  BY <1>1 DEF OutcomeInv
<1>4. OrderInv'
  <2>1. \A i \in DOMAIN order : \A d \in deps[order[i]] : \E j \in 1..(i - 1) : ids[order[j]] = d
    BY DEF OrderInv
  <2>2. at' # "ordered" /\ at' # "unordered"
    BY <1>1
  <2> QED  BY <1>1, <2>1, <2>2 DEF OrderInv
<1> QED  BY <1>2, <1>3, <1>4

(* A white task is coloured gray, on a stack it is not yet on.             *)
LEMMA GrayIs ==
  ASSUME SearchType, stack \in Seq(TaskIds), UNCHANGED plan,
         NEW d \in TaskIds, color[d] = "white",
         color' = [color EXCEPT ![d] = "gray"], stack' = Append(stack, d),
         left' \in [TaskIds -> SUBSET (Ids \cup {Unknown})]
  PROVE  SearchType' /\ Black' = Black /\ stack' \in Seq(TaskIds)
<1>1. TaskIds' = TaskIds
  BY PlanSame
<1>2. color' \in [TaskIds -> {"white", "gray", "black"}] /\ Black' = Black
  BY <1>1 DEF SearchType, Black
<1>3. /\ stack' \in Seq(TaskIds) /\ Len(stack) \in Nat /\ Len(stack') = Len(stack) + 1
      /\ DOMAIN stack' = DOMAIN stack \cup {Len(stack) + 1} /\ Len(stack) + 1 \notin DOMAIN stack
      /\ \A i \in DOMAIN stack : stack'[i] = stack[i]
      /\ stack'[Len(stack) + 1] = d
  OBVIOUS
<1>4. \A i \in DOMAIN stack : stack[i] # d
  BY DEF SearchType, Range
<1>5. IsInjective(stack')
  BY <1>3, <1>4 DEF SearchType, IsInjective
<1>6. Range(stack') = Range(stack) \cup {d}
  BY <1>3 DEF Range
<1>7. Range(stack') = {t \in TaskIds : color'[t] = "gray"}
  BY <1>6 DEF SearchType
<1> QED  BY <1>1, <1>2, <1>3, <1>5, <1>7 DEF SearchType

LEMMA RootKeeps ==
  ASSUME GraphInv, Root
  PROVE  GraphInv'
<1> USE DEF GraphInv
<1>1. PICK t \in TaskIds : color[t] = "white" /\ Push(t)
  BY DEF Root
<1>2. SearchType /\ stack \in Seq(TaskIds) /\ stack = <<>> /\ UNCHANGED plan
  BY DEF GTypeOK, SearchType, StackInv, Root
<1>3. /\ TaskIds' = TaskIds /\ \A u : Adj(u)' = Adj(u)
  BY <1>2, PlanSame
<1>4. /\ color' = [color EXCEPT ![t] = "gray"] /\ stack' = Append(stack, t)
      /\ left' = [left EXCEPT ![t] = Adj(t)]
  BY <1>1 DEF Push
<1>5. left' \in [TaskIds -> SUBSET (Ids \cup {Unknown})]
  BY <1>2, <1>4, AdjIs DEF SearchType
<1>6. SearchType' /\ Black' = Black /\ stack' \in Seq(TaskIds)
  BY <1>1, <1>2, <1>4, <1>5, GrayIs
<1>7. BlackInv'
  BY <1>3, <1>6 DEF BlackInv, Unstuck
<1>8. StackInv'
  <2>1. DOMAIN stack' = {1} /\ stack'[1] = t
    BY <1>2, <1>4
  <2>2. \A u \in TaskIds : left'[u] \subseteq Adj(u)
    BY <1>4, <1>2 DEF StackInv, SearchType
  <2>3. left'[t] = Adj(t)
    BY <1>4, <1>2 DEF SearchType
  <2>4. \A i \in DOMAIN stack' : i + 1 \notin DOMAIN stack' /\ Adj(stack'[i]) \ left'[stack'[i]] = {}
    BY <2>1, <2>3
  <2> QED  BY <1>3, <1>6, <2>2, <2>4 DEF StackInv
<1>9. UNCHANGED <<plan, at, missing, order>> /\ at = "validate" /\ cycle' \in BOOLEAN /\ ~cycle'
  BY DEF Root, GTypeOK
<1> QED  BY <1>6, <1>7, <1>8, <1>9, SearchKeeps

(* The top of the stack is gray, and like no other on it.                   *)
LEMMA TopIs ==
  ASSUME GraphInv, stack # <<>>
  PROVE  /\ Len(stack) \in Nat /\ DOMAIN stack = 1..Len(stack) /\ Len(stack) \in DOMAIN stack
         /\ Last(stack) = stack[Len(stack)] /\ Last(stack) \in TaskIds
         /\ color[Last(stack)] = "gray"
         /\ \A i \in DOMAIN stack : i # Len(stack) => stack[i] # Last(stack)
<1>1. stack \in Seq(TaskIds) /\ IsInjective(stack)
  BY DEF GraphInv, StackInv, GTypeOK
<1>2. /\ Len(stack) \in Nat /\ DOMAIN stack = 1..Len(stack) /\ Len(stack) \in DOMAIN stack
  BY <1>1
<1>3. Last(stack) = stack[Len(stack)] /\ stack[Len(stack)] \in Range(stack)
  BY <1>2 DEF Last, Range
<1>4. Range(stack) = {t \in TaskIds : color[t] = "gray"}
  BY DEF GraphInv, GTypeOK
<1> QED  BY <1>1, <1>2, <1>3, <1>4 DEF IsInjective

(* What is closed is a cycle: the stack from the gray id up.                *)
LEMMA CycleIsStuck ==
  ASSUME GraphInv, stack # <<>>, NEW d \in left[Last(stack)], Closes(d)
  PROVE  SomeStuck
<1>1. d \in TaskIds /\ color[d] = "gray"
  BY DEF Closes, Mark
<1>2. d \in Range(stack)
  BY <1>1 DEF GraphInv, GTypeOK
<1>3. PICK k \in DOMAIN stack : stack[k] = d
  BY <1>2 DEF Range
<1> DEFINE T == {stack[j] : j \in k..Len(stack)}
<1>4. \A j \in k..Len(stack) : j \in DOMAIN stack /\ stack[j] \in TaskIds
  BY TopIs DEF GraphInv, StackInv
<1>5. d \in T /\ T \in TaskSets
  BY <1>3, <1>4, TopIs DEF TaskSets
<1>6. ASSUME NEW j \in k..Len(stack) PROVE Adj(stack[j]) \cap T # {}
  <2>1. CASE j = Len(stack)
    <3>1. d \in Adj(stack[j])
      BY <2>1, TopIs DEF GraphInv, StackInv
    <3> QED  BY <3>1, <1>5
  <2>2. CASE j # Len(stack)
    <3>1. j \in DOMAIN stack /\ j + 1 \in DOMAIN stack /\ j + 1 \in k..Len(stack)
      BY <2>2, <1>3, <1>4, TopIs
    <3>2. stack[j + 1] \in Adj(stack[j]) /\ stack[j + 1] \in T
      BY <3>1 DEF GraphInv, StackInv
    <3> QED  BY <3>2
  <2> QED  BY <2>1, <2>2
<1>7. \A t \in T : Adj(t) \cap T # {}
  BY <1>6
<1> HIDE DEF T
<1> QED  BY <1>5, <1>7 DEF SomeStuck

LEMMA LookKeeps ==
  ASSUME GraphInv, Look
  PROVE  GraphInv'
<1> USE DEF GraphInv
<1> DEFINE u == Last(stack)
<1>1. /\ at = "validate" /\ ~cycle /\ stack # <<>>
      /\ UNCHANGED <<plan, at, missing, order>> /\ UNCHANGED plan
  BY DEF Look
<1>2. /\ u \in TaskIds /\ color[u] = "gray" /\ Len(stack) \in DOMAIN stack /\ u = stack[Len(stack)]
      /\ DOMAIN stack = 1..Len(stack) /\ Len(stack) \in Nat
      /\ \A i \in DOMAIN stack : i # Len(stack) => stack[i] # u
  BY <1>1, TopIs
<1>3. SearchType /\ stack \in Seq(TaskIds)
  BY DEF GTypeOK, SearchType, StackInv
<1>4. /\ TaskIds' = TaskIds /\ \A t : Adj(t)' = Adj(t)
  BY <1>1, PlanSame
<1>5. PICK d \in left[u] :
        LET rest == [left EXCEPT ![u] = @ \ {d}] IN
        \/ /\ Closes(d) /\ cycle' = TRUE /\ UNCHANGED search
        \/ /\ ~Closes(d) /\ Mark(d) # "white"
           /\ left' = rest /\ UNCHANGED <<color, stack, cycle>>
        \/ /\ ~Closes(d) /\ Mark(d) = "white"
           /\ color' = [color EXCEPT ![d] = "gray"] /\ stack' = Append(stack, d)
           /\ left' = [rest EXCEPT ![d] = Adj(d)] /\ UNCHANGED cycle
  BY DEF Look
<1> DEFINE rest == [left EXCEPT ![u] = @ \ {d}]
<1>6. /\ rest \in [TaskIds -> SUBSET (Ids \cup {Unknown})]
      /\ rest[u] = left[u] \ {d} /\ \A t \in TaskIds : t # u => rest[t] = left[t]
  BY <1>2, <1>3 DEF SearchType
<1>7. CASE Closes(d) /\ cycle' = TRUE /\ UNCHANGED search
  <2>1. color' = color /\ stack' = stack /\ left' = left
    BY <1>7 DEF search
  <2>2. SomeStuck
    BY <1>1, <1>7, CycleIsStuck
  <2>3. SearchType'
    BY <1>3, <1>4, <2>1 DEF SearchType
  <2>4. Black' = Black
    BY <1>4, <2>1 DEF Black
  <2>5. BlackInv'
    BY <1>4, <2>4 DEF BlackInv, Unstuck
  <2>6. StackInv'
    BY <1>4, <2>1, <2>4 DEF StackInv
  <2> QED  BY <1>1, <1>7, <2>2, <2>3, <2>5, <2>6, SearchKeeps
<1>8. CASE /\ ~Closes(d) /\ Mark(d) # "white"
           /\ left' = rest /\ UNCHANGED <<color, stack, cycle>>
  <2>1. color' = color /\ stack' = stack /\ cycle' = cycle /\ left' = rest
    BY <1>8
  <2>2. d \in TaskIds => d \in Black
    BY <1>8, <1>3 DEF Closes, Mark, Black, SearchType
  <2>3. SearchType'
    BY <1>3, <1>4, <1>6, <2>1 DEF SearchType
  <2>4. Black' = Black
    BY <1>4, <2>1 DEF Black
  <2>5. BlackInv'
    BY <1>4, <2>4 DEF BlackInv, Unstuck
  <2> HIDE DEF rest
  <2>6. \A t \in TaskIds : rest[t] \subseteq Adj(t)
    BY <1>6 DEF StackInv
  <2>7. ASSUME NEW i \in DOMAIN stack, NEW e \in (Adj(stack[i]) \ rest[stack[i]]) \cap TaskIds
        PROVE  e \in Black \/ (i + 1 \in DOMAIN stack /\ e = stack[i + 1])
    <3>1. CASE e = d
      BY <2>2, <3>1
    <3>2. CASE e # d
      <4>1. stack[i] \in TaskIds
        BY <1>3
      <4>2. e \in (Adj(stack[i]) \ left[stack[i]]) \cap TaskIds
        BY <1>6, <3>2, <4>1
      <4> QED  BY <4>2 DEF StackInv
    <3> QED  BY <3>1, <3>2
  <2>8. StackInv'
    BY <1>4, <2>1, <2>4, <2>6, <2>7 DEF StackInv
  <2>9. cycle' \in BOOLEAN /\ ~cycle'
    BY <1>1, <2>1 DEF GTypeOK
  <2> QED  BY <1>1, <2>3, <2>5, <2>8, <2>9, SearchKeeps
<1>9. CASE /\ ~Closes(d) /\ Mark(d) = "white"
           /\ color' = [color EXCEPT ![d] = "gray"] /\ stack' = Append(stack, d)
           /\ left' = [rest EXCEPT ![d] = Adj(d)] /\ UNCHANGED cycle
  <2>1. d \in TaskIds /\ color[d] = "white" /\ d # u
    BY <1>2, <1>9 DEF Mark
  <2>2. Adj(d) \in SUBSET (Ids \cup {Unknown})
    BY <2>1, AdjIs
  <2> HIDE DEF rest
  <2>3. /\ left' \in [TaskIds -> SUBSET (Ids \cup {Unknown})]
        /\ left'[d] = Adj(d) /\ left'[u] = left[u] \ {d}
        /\ \A t \in TaskIds : t # u /\ t # d => left'[t] = left[t]
    BY <1>2, <1>6, <1>9, <2>1, <2>2
  <2>4. SearchType' /\ Black' = Black /\ stack' \in Seq(TaskIds)
    BY <1>1, <1>3, <1>9, <2>1, <2>3, GrayIs
  <2>5. BlackInv'
    BY <1>4, <2>4 DEF BlackInv, Unstuck
  <2>6. /\ DOMAIN stack' = 1..(Len(stack) + 1)
        /\ \A i \in DOMAIN stack : i \in DOMAIN stack' /\ stack'[i] = stack[i]
        /\ stack'[Len(stack) + 1] = d
    BY <1>2, <1>3, <1>9
  <2>7. \A t \in TaskIds : left'[t] \subseteq Adj(t)
    BY <1>2, <2>3 DEF StackInv
  <2>8. ASSUME NEW i \in DOMAIN stack', i + 1 \in DOMAIN stack'
        PROVE  stack'[i + 1] \in Adj(stack'[i])
    <3>1. CASE i = Len(stack)
      <4>1. d \in Adj(u)
        BY <1>2 DEF StackInv
      <4> QED  BY <1>2, <2>6, <3>1, <4>1
    <3>2. CASE i # Len(stack)
      <4>1. i \in DOMAIN stack /\ i + 1 \in DOMAIN stack
        BY <1>2, <2>6, <2>8, <3>2
      <4> QED  BY <2>6, <4>1 DEF StackInv
    <3> QED  BY <3>1, <3>2
  <2>9. ASSUME NEW i \in DOMAIN stack', NEW e \in (Adj(stack'[i]) \ left'[stack'[i]]) \cap TaskIds
        PROVE  e \in Black \/ (i + 1 \in DOMAIN stack' /\ e = stack'[i + 1])
    <3>1. CASE i = Len(stack) + 1
      BY <2>3, <2>6, <3>1
    <3>2. CASE i = Len(stack)
      <4>1. stack'[i] = u /\ i + 1 \in DOMAIN stack' /\ stack'[i + 1] = d
        BY <1>2, <2>6, <3>2
      <4>2. e = d \/ e \in (Adj(u) \ left[u]) \cap TaskIds
        BY <2>3, <4>1
      <4>3. i + 1 \notin DOMAIN stack
        BY <1>2, <3>2
      <4>4. e = d \/ e \in Black
        BY <1>2, <3>2, <4>2, <4>3 DEF StackInv
      <4> QED  BY <4>1, <4>4
    <3>3. CASE i \in DOMAIN stack /\ i # Len(stack)
      <4>1. i + 1 \in DOMAIN stack /\ stack'[i] = stack[i] /\ stack'[i + 1] = stack[i + 1]
        BY <1>2, <2>6, <3>3
      <4>2. stack[i] # d
        BY <1>3, <2>1, <3>3 DEF SearchType, Range
      <4>3. stack[i] \in TaskIds /\ left'[stack[i]] = left[stack[i]]
        BY <1>2, <1>3, <2>3, <3>3, <4>2
      <4>4. e \in Black \/ e = stack[i + 1]
        BY <3>3, <4>1, <4>3 DEF StackInv
      <4> QED  BY <2>6, <4>1, <4>4
    <3> QED  BY <1>2, <2>6, <3>1, <3>2, <3>3
  <2>10. StackInv'
    BY <1>4, <2>4, <2>7, <2>8, <2>9 DEF StackInv
  <2>11. cycle' \in BOOLEAN /\ ~cycle'
    BY <1>1, <1>9 DEF GTypeOK
  <2> QED  BY <1>1, <2>4, <2>5, <2>10, <2>11, SearchKeeps
<1> QED  BY <1>5, <1>7, <1>8, <1>9

LEMMA LeaveKeeps ==
  ASSUME GraphInv, Leave
  PROVE  GraphInv'
<1> USE DEF GraphInv
<1> DEFINE u == Last(stack)
           n == Len(stack)
<1>1. /\ at = "validate" /\ ~cycle /\ stack # <<>> /\ left[u] = {}
      /\ color' = [color EXCEPT ![u] = "black"] /\ stack' = Front(stack)
      /\ UNCHANGED <<plan, at, missing, order>> /\ UNCHANGED plan
      /\ left' = left /\ cycle' = cycle
  BY DEF Leave
<1>2. /\ u \in TaskIds /\ color[u] = "gray" /\ n \in DOMAIN stack /\ u = stack[n]
      /\ DOMAIN stack = 1..n /\ n \in Nat
      /\ \A i \in DOMAIN stack : i # n => stack[i] # u
  BY <1>1, TopIs
<1>3. SearchType /\ stack \in Seq(TaskIds)
  BY DEF GTypeOK, SearchType, StackInv
<1>4. /\ TaskIds' = TaskIds /\ \A t : Adj(t)' = Adj(t)
  BY <1>1, PlanSame
<1>5. /\ stack' \in Seq(TaskIds) /\ DOMAIN stack' = 1..(n - 1)
      /\ \A i \in DOMAIN stack' : i \in DOMAIN stack /\ i # n /\ stack'[i] = stack[i]
  BY <1>1, <1>2, <1>3 DEF Front
<1> HIDE DEF u, n
<1>6. /\ color' \in [TaskIds -> {"white", "gray", "black"}]
      /\ Black' = Black \cup {u} /\ u \notin Black
      /\ {t \in TaskIds : color'[t] = "gray"} = {t \in TaskIds : color[t] = "gray"} \ {u}
  BY <1>1, <1>2, <1>3, <1>4 DEF SearchType, Black
<1>7. IsInjective(stack')
  BY <1>3, <1>5 DEF SearchType, IsInjective
<1>8. Range(stack') = Range(stack) \ {u}
  <2>1. \A i \in DOMAIN stack : i # n => i \in DOMAIN stack'
    BY <1>2, <1>5
  <2> QED  BY <1>2, <1>5, <2>1 DEF Range
<1>9. SearchType'
  BY <1>1, <1>3, <1>4, <1>6, <1>7, <1>8 DEF SearchType
<1>10. Adj(u) \cap TaskIds \subseteq Black
  <2>1. n + 1 \notin DOMAIN stack
    BY <1>2
  <2>2. \A e \in (Adj(stack[n]) \ left[stack[n]]) \cap TaskIds : e \in Black
    BY <1>2, <2>1 DEF StackInv
  <2> QED  BY <1>1, <1>2, <2>2
<1>11. BlackInv'
  <2>1. \A t \in Black \cup {u} : u \notin Adj(t)
    BY <1>2, <1>6, <1>10 DEF BlackInv
  <2>2. Unstuck(Black \cup {u})
    BY <2>1, UnstuckGrows DEF BlackInv
  <2>3. \A t \in Black \cup {u} : Adj(t) \cap TaskIds \subseteq Black \cup {u}
    BY <1>10 DEF BlackInv
  <2> QED  BY <1>4, <1>6, <2>2, <2>3 DEF BlackInv, Unstuck
<1>12. StackInv'
  <2>1. ASSUME NEW i \in DOMAIN stack', i + 1 \in DOMAIN stack' PROVE stack'[i + 1] \in Adj(stack'[i])
    BY <1>5, <2>1 DEF StackInv
  <2>2. ASSUME NEW i \in DOMAIN stack', NEW e \in (Adj(stack'[i]) \ left[stack'[i]]) \cap TaskIds
        PROVE  e \in Black \cup {u} \/ (i + 1 \in DOMAIN stack' /\ e = stack'[i + 1])
    <3>1. e \in Black \/ (i + 1 \in DOMAIN stack /\ e = stack[i + 1])
      BY <1>5, <2>2 DEF StackInv
    <3>2. i + 1 \in DOMAIN stack => i + 1 = n \/ i + 1 \in DOMAIN stack'
      BY <1>2, <1>5
    <3> QED  BY <1>2, <1>5, <3>1, <3>2
  <2>3. \A t \in TaskIds : left[t] \subseteq Adj(t)
    BY DEF StackInv
  <2> QED  BY <1>1, <1>4, <1>5, <1>6, <2>1, <2>2, <2>3 DEF StackInv
<1>13. cycle' \in BOOLEAN /\ ~cycle'
  BY <1>1 DEF GTypeOK
<1> QED  BY <1>1, <1>9, <1>11, <1>12, <1>13, SearchKeeps

LEMMA ValidatedKeeps ==
  ASSUME GraphInv, Validated
  PROVE  GraphInv'
<1> USE DEF GraphInv
<1>1. /\ at = "validate" /\ at' = IF cycle \/ missing # {} THEN "refused" ELSE "valid"
      /\ UNCHANGED <<plan, search, missing, cycle, order>> /\ UNCHANGED plan
      /\ cycle \/ (stack = <<>> /\ \A t \in TaskIds : color[t] # "white")
  BY DEF Validated
<1>2. /\ ids' = ids /\ deps' = deps /\ scope' = scope /\ color' = color /\ stack' = stack
      /\ left' = left /\ missing' = missing /\ cycle' = cycle /\ order' = order
  BY <1>1 DEF plan, search
<1>3. /\ Nodes' = Nodes /\ TaskIds' = TaskIds /\ Absent' = Absent
      /\ SomeStuck' = SomeStuck /\ \A t : Adj(t)' = Adj(t)
  BY <1>1, PlanSame, SomeStuckSame
<1>4. Black' = Black
  BY <1>2, <1>3 DEF Black
<1>5. GTypeOK'
  BY <1>1, <1>2, <1>3 DEF GTypeOK
<1>6. BlackInv' /\ StackInv'
  BY <1>2, <1>3, <1>4 DEF BlackInv, StackInv, Unstuck
<1>7. ~cycle => Black = TaskIds
  <2>1. ASSUME ~cycle, NEW t \in TaskIds PROVE color[t] = "black"
    <3>1. Range(stack) = {}
      BY <1>1, <2>1 DEF Range
    <3>2. color[t] \in {"white", "gray", "black"} /\ color[t] # "white" /\ color[t] # "gray"
      BY <1>1, <2>1, <3>1 DEF GTypeOK
    <3> QED  BY <3>2
  <2> QED  BY <2>1 DEF Black
<1>8. OutcomeInv'
  BY <1>1, <1>2, <1>3, <1>4, <1>7 DEF OutcomeInv
<1>9. OrderInv'
  <2>1. \A i \in DOMAIN order : \A d \in deps[order[i]] : \E j \in 1..(i - 1) : ids[order[j]] = d
    BY DEF OrderInv
  <2>2. at' # "ordered" /\ at' # "unordered"
    BY <1>1
  <2> QED  BY <1>2, <2>1, <2>2 DEF OrderInv
<1> QED  BY <1>5, <1>6, <1>8, <1>9

-----------------------------------------------------------------------------
(* dependency_aware_order.                                                 *)
LEMMA OrderRoundKeeps ==
  ASSUME GraphInv, OrderRound
  PROVE  GraphInv'
<1> USE DEF GraphInv
<1> DEFINE remaining == Nodes \ Range(order)
           ready == {n \in remaining : Ready(n)}
           x == Extended(order, ready)
<1>1. /\ at = "order" /\ order' = x
      /\ at' = CASE remaining = {} -> "ordered"
                 [] remaining # {} /\ ready = {} -> "unordered"
                 [] OTHER -> "order"
      /\ UNCHANGED <<plan, search, missing, cycle>> /\ UNCHANGED plan
  BY DEF OrderRound
<1>2. /\ ids' = ids /\ deps' = deps /\ scope' = scope /\ color' = color /\ stack' = stack
      /\ left' = left /\ missing' = missing /\ cycle' = cycle
  BY <1>1 DEF plan, search
<1>3. /\ Nodes' = Nodes /\ TaskIds' = TaskIds /\ Absent' = Absent
      /\ SomeStuck' = SomeStuck /\ \A t : Adj(t)' = Adj(t)
  BY <1>1, PlanSame, SomeStuckSame
<1>4. Black' = Black
  BY <1>2, <1>3 DEF Black
<1>5. order \in Seq(Nodes) /\ IsInjective(order) /\ ids \in Seq(Ids)
  BY IdAssumption DEF GTypeOK
<1>6. ready \in SUBSET Nodes /\ ready \cap Range(order) = {}
  OBVIOUS
<1> HIDE DEF ready, x
<1>7. Grown(x, order, [n \in Nodes |-> n], ready, Len(ids), Nodes)
  BY <1>5, <1>6, ExtendedIs DEF x
<1>8. /\ x \in Seq(Nodes) /\ IsInjective(x) /\ Len(order) <= Len(x)
      /\ Len(x) \in Nat /\ Len(order) \in Nat
      /\ DOMAIN x = 1..Len(x) /\ DOMAIN order = 1..Len(order)
      /\ \A i \in 1..Len(order) : x[i] = order[i]
  BY <1>5, <1>7 DEF Grown
<1>9. Nodes = 1..Len(ids) /\ Len(ids) \in Nat
  BY <1>5 DEF Nodes
<1>10. \A i \in 1..Len(x) : i > Len(order) => x[i] \in ready
  <2>1. ASSUME NEW i \in 1..Len(x), i > Len(order) PROVE x[i] \in ready
    <3>1. PICK j \in 1..Len(ids) : x[i] = [n \in Nodes |-> n][j] /\ [n \in Nodes |-> n][j] \in ready
      BY <1>7, <2>1 DEF Grown
    <3> QED  BY <3>1
  <2> QED  BY <2>1
<1>11. at' \in {"ordered", "unordered", "order"}
  BY <1>1
<1>12. GTypeOK'
  BY <1>1, <1>2, <1>3, <1>8, <1>11 DEF GTypeOK
<1>13. BlackInv' /\ StackInv'
  BY <1>2, <1>3, <1>4 DEF BlackInv, StackInv, Unstuck
<1>14. OutcomeInv'
  BY <1>2, <1>3, <1>11 DEF OutcomeInv
<1>15. ASSUME NEW i \in DOMAIN x, NEW d \in deps[x[i]]
       PROVE  \E j \in 1..(i - 1) : ids[x[j]] = d
  <2>1. CASE i \in 1..Len(order)
    <3>1. PICK j \in 1..(i - 1) : ids[order[j]] = d
      BY <1>8, <2>1 DEF OrderInv
    <3>2. j \in 1..Len(order)
      BY <1>8, <2>1
    <3> QED  BY <1>8, <3>1, <3>2
  <2>2. CASE i > Len(order)
    <3>1. Ready(x[i])
      BY <1>8, <1>10, <2>2 DEF ready
    <3>2. d \in Completed
      BY <3>1 DEF Ready
    <3>3. PICK n \in Range(order) : ids[n] = d
      BY <3>2 DEF Completed
    <3>4. PICK j \in 1..Len(order) : order[j] = n
      BY <1>8, <3>3 DEF Range
    <3>5. j \in 1..(i - 1) /\ x[j] = order[j]
      BY <1>8, <2>2, <3>4
    <3> QED  BY <3>3, <3>4, <3>5
  <2> QED  BY <1>8, <2>1, <2>2
<1>16. ASSUME at' = "ordered" PROVE Range(x) = Nodes
  <2>1. remaining = {}
    BY <1>1, <1>16
  <2>2. \A n \in Nodes : \E i \in 1..Len(order) : order[i] = n
    BY <1>8, <2>1 DEF Range
  <2>3. \A n \in Nodes : \E i \in 1..Len(x) : x[i] = n
    <3>1. \A i \in 1..Len(order) : i \in 1..Len(x)
      BY <1>8
    <3> QED  BY <1>8, <2>2, <3>1
  <2>4. Nodes \subseteq Range(x)
    BY <1>8, <2>3 DEF Range
  <2>5. Range(x) \subseteq Nodes
    BY <1>8 DEF Range
  <2> QED  BY <2>4, <2>5
<1>17. ASSUME at' = "unordered"
       PROVE  x = order /\ Range(order) # Nodes /\ \A n \in Nodes \ Range(order) : ~Ready(n)
  <2>1. remaining # {} /\ ready = {}
    BY <1>1, <1>17
  <2>2. \A i \in 1..Len(x) : ~(i > Len(order))
    BY <1>10, <2>1
  <2>3. Len(x) = Len(order)
    <3>1. ASSUME Len(x) > Len(order) PROVE FALSE
      <4>1. Len(x) \in 1..Len(x)
        BY <1>8, <3>1
      <4> QED  BY <2>2, <3>1, <4>1
    <3>2. ~(Len(x) > Len(order)) /\ Len(order) <= Len(x) /\ Len(x) \in Nat /\ Len(order) \in Nat
      BY <1>8, <3>1
    <3> QED  BY <3>2
  <2>4. x = order
    BY <1>5, <1>8, <2>3
  <2>5. \A n \in Nodes \ Range(order) : ~Ready(n)
    BY <2>1 DEF ready
  <2> QED  BY <2>1, <2>4, <2>5
<1>18. OrderInv'
  <2>1. order' = x
    BY <1>1
  <2>2. at' = "unordered" => /\ Range(order') # Nodes
                             /\ \A n \in Nodes \ Range(order') : ~Ready(n)'
    BY <1>2, <1>17, <2>1 DEF Ready, Completed
  <2> QED  BY <1>2, <1>3, <1>15, <1>16, <2>1, <2>2 DEF OrderInv
<1> QED  BY <1>12, <1>13, <1>14, <1>18

LEMMA GraphStarts ==
  ASSUME GInit
  PROVE  GraphInv
<1>1. /\ ids \in IdLists /\ at \in Ops /\ ids \in Seq(Ids) /\ deps \in [Nodes -> SUBSET (Ids \cup {Unknown})]
      /\ color = [t \in TaskIds |-> "white"] /\ stack = <<>> /\ left = [t \in TaskIds |-> {}]
      /\ missing = {e \in Nodes \X (Ids \cup {Unknown}) :
                      at = "validate" /\ e[2] \in deps[e[1]] \ TaskIds}
      /\ cycle = FALSE /\ order = <<>>
  BY IdAssumption DEF GInit
<1>2. scope \in [Nodes -> Scopes]
  BY PathAssumption DEF GInit
<1>3. Black = {}
  BY <1>1 DEF Black
<1>4. IsInjective(<<>>) /\ Range(<<>>) = {}
  BY DEF IsInjective, Range
<1>5. at \in {"validate", "order", "scopes"}
  BY <1>1, IdAssumption
<1>6. {t \in TaskIds : color[t] = "gray"} = {}
  BY <1>1
<1>7. GTypeOK
  <2>1. /\ color \in [TaskIds -> {"white", "gray", "black"}]
        /\ left \in [TaskIds -> SUBSET (Ids \cup {Unknown})]
        /\ missing \subseteq Nodes \X (Ids \cup {Unknown}) /\ order \in Seq(Nodes)
    BY <1>1
  <2> QED  BY <1>1, <1>2, <1>4, <1>5, <1>6, <2>1 DEF GTypeOK
<1>8. BlackInv
  BY <1>3 DEF BlackInv, Unstuck
<1>9. StackInv
  <2>1. DOMAIN stack = {} /\ stack \in Seq(TaskIds) /\ \A t \in TaskIds : left[t] = {}
    BY <1>1
  <2> QED  BY <2>1 DEF StackInv
<1>10. OutcomeInv
  BY <1>1, <1>5 DEF OutcomeInv, Absent
<1>11. OrderInv
  BY <1>1, <1>5 DEF OrderInv
<1> QED  BY <1>7, <1>8, <1>9, <1>10, <1>11 DEF GraphInv

LEMMA GraphKeeps ==
  ASSUME GraphInv, GNext \/ UNCHANGED gvars
  PROVE  GraphInv'
<1>1. CASE UNCHANGED gvars
  <2>1. /\ ids' = ids /\ deps' = deps /\ scope' = scope /\ color' = color /\ stack' = stack
        /\ left' = left /\ missing' = missing /\ cycle' = cycle /\ order' = order /\ at' = at
    BY <1>1 DEF gvars, plan, search
  <2>2. /\ Nodes' = Nodes /\ TaskIds' = TaskIds /\ Absent' = Absent
        /\ SomeStuck' = SomeStuck /\ \A t : Adj(t)' = Adj(t)
    BY <2>1, PlanSame, SomeStuckSame DEF plan
  <2>3. Black' = Black
    BY <2>1, <2>2 DEF Black
  <2>4. GTypeOK' /\ BlackInv' /\ StackInv'
    BY <2>1, <2>2, <2>3 DEF GraphInv, GTypeOK, BlackInv, StackInv, Unstuck
  <2>5. OutcomeInv'
    BY <2>1, <2>2, <2>3 DEF GraphInv, OutcomeInv
  <2>6. OrderInv'
    BY <2>1, <2>2 DEF GraphInv, OrderInv, Ready, Completed
  <2> QED  BY <2>4, <2>5, <2>6 DEF GraphInv
<1>2. CASE GNext
  BY <1>2, RootKeeps, LookKeeps, LeaveKeeps, ValidatedKeeps, OrderRoundKeeps DEF GNext
<1> QED  BY <1>1, <1>2

-----------------------------------------------------------------------------
(* What the invariant says of the plan.  An id no node of a part of the       *)
(* accepted plan provides is not there to wait for: a stuck set of nodes        *)
(* gives a stuck set of ids, of the nodes that count.                       *)
LEMMA AcceptedIs ==
  ASSUME GraphInv
  PROVE  AcceptedHasOrder
<1> USE DEF GraphInv
<1> SUFFICES ASSUME at = "valid", NEW S \in SUBSET Nodes, Stuck(S) PROVE FALSE
  BY DEF AcceptedHasOrder, NoneStuck
<1>1. Absent = {} /\ Black = TaskIds
  BY DEF OutcomeInv
<1>2. ids \in Seq(Ids) /\ DOMAIN ids = Nodes
  BY IdAssumption DEF GTypeOK, Nodes
<1>3. ASSUME NEW n \in Nodes, NEW d \in deps[n] PROVE d \in TaskIds
  <2>1. d \in Ids \cup {Unknown}
    BY DEF GTypeOK
  <2>2. <<n, d>> \in Nodes \X (Ids \cup {Unknown})
    BY <2>1
  <2>3. <<n, d>>[1] = n /\ <<n, d>>[2] = d
    OBVIOUS
  <2> QED  BY <1>1, <2>2, <2>3 DEF Absent
<1> DEFINE T == {t \in TaskIds : \A m \in Nodes : ids[m] = t => m \in S}
<1>4. ASSUME NEW n \in S PROVE \E d \in deps[n] : d \in T
  <2>1. PICK d \in deps[n] : \A m \in Nodes : ids[m] = d => m \in S
    BY DEF Stuck
  <2> QED  BY <1>3, <2>1
<1>5. T # {}
  <2>1. PICK n \in S : TRUE
    BY DEF Stuck
  <2> QED  BY <1>4, <2>1
<1>6. ASSUME NEW t \in T PROVE Adj(t) \cap T # {}
  <2>1. NodeOf(t) \in S
    BY <1>2, NodeIs
  <2> QED  BY <1>4, <2>1 DEF Adj
<1>7. \E t \in T : Adj(t) \cap T = {}
  <2>1. T \in SUBSET Black
    BY <1>1
  <2> HIDE DEF T
  <2> QED  BY <1>5, <2>1 DEF BlackInv, Unstuck
<1> QED  BY <1>6, <1>7

LEMMA RefusedIs ==
  ASSUME GraphInv
  PROVE  RefusedForCause
<1> USE DEF GraphInv
<1> SUFFICES ASSUME at = "refused"
             PROVE  (UNION Range(deps)) \ TaskIds # {} \/ SomeStuck
  BY DEF RefusedForCause, SomeStuck, TaskSets
<1>1. cycle \/ Absent # {}
  BY DEF OutcomeInv
<1>2. CASE cycle
  BY <1>2 DEF OutcomeInv
<1>3. CASE Absent # {}
  <2>1. PICK e \in Nodes \X (Ids \cup {Unknown}) : e[2] \in deps[e[1]] \ TaskIds
    BY <1>3 DEF Absent
  <2>2. e[1] \in DOMAIN deps
    BY <2>1 DEF GTypeOK
  <2>3. deps[e[1]] \in Range(deps)
    BY <2>2 DEF Range
  <2> QED  BY <2>1, <2>3
<1> QED  BY <1>1, <1>2, <1>3

(* Of a stuck set, the node that comes first in the order waits for an id      *)
(* that a node before it provides.                                         *)
LEMMA OrderIs ==
  ASSUME GraphInv
  PROVE  OrderIsExact
<1> USE DEF GraphInv
<1>1. order \in Seq(Nodes) /\ DOMAIN order = 1..Len(order) /\ Len(order) \in Nat
  BY DEF GTypeOK
<1>2. \A i \in DOMAIN order : \A d \in deps[order[i]] : \E j \in 1..(i - 1) : ids[order[j]] = d
  BY DEF OrderInv
<1>3. ASSUME at = "unordered" PROVE ~NoneStuck
  <2> DEFINE S == Nodes \ Range(order)
  <2>1. S \in SUBSET Nodes /\ S # {}
    <3>1. Range(order) \subseteq Nodes
      BY <1>1 DEF Range
    <3> QED  BY <1>3, <3>1 DEF OrderInv
  <2>2. ASSUME NEW n \in S
        PROVE  \E d \in deps[n] : \A m \in Nodes : ids[m] = d => m \in S
    <3>1. PICK d \in deps[n] : d \notin Completed
      BY <1>3 DEF OrderInv, Ready
    <3> QED  BY <3>1 DEF Completed
  <2> QED  BY <2>1, <2>2 DEF NoneStuck, Stuck
<1>4. ASSUME at = "ordered" PROVE Range(order) = Nodes
  BY <1>4 DEF OrderInv
<1>5. ASSUME at = "ordered", NEW S \in SUBSET Nodes, Stuck(S) PROVE FALSE
  <2> DEFINE I == {i \in 1..Len(order) : order[i] \in S}
  <2>1. \A n \in S : \E i \in 1..Len(order) : order[i] = n
    BY <1>1, <1>4, <1>5 DEF Range
  <2>2. I \subseteq Nat
    OBVIOUS
  <2>3. I # {}
    <3>1. PICK n \in S : TRUE
      BY <1>5 DEF Stuck
    <3>2. PICK i \in 1..Len(order) : order[i] = n
      BY <2>1, <3>1
    <3>3. i \in I
      BY <3>1, <3>2
    <3> HIDE DEF I
    <3> QED  BY <3>3
  <2>4. PICK i \in I : \A j \in I : i <= j
    <3> HIDE DEF I
    <3> QED  BY <2>2, <2>3, LeastMember
  <2>5. PICK d \in deps[order[i]] : \A m \in Nodes : ids[m] = d => m \in S
    BY <1>5, <2>4 DEF Stuck
  <2>6. PICK j \in 1..(i - 1) : ids[order[j]] = d
    BY <1>1, <1>2, <2>4, <2>5
  <2>7. j \in 1..Len(order) /\ order[j] \in Nodes /\ ~(i <= j)
    BY <1>1, <2>4, <2>6
  <2> QED  BY <2>4, <2>5, <2>6, <2>7
<1>6. at = "ordered" => NoneStuck
  BY <1>5 DEF NoneStuck
<1> QED  BY <1>2, <1>3, <1>4, <1>6 DEF OrderIsExact

-----------------------------------------------------------------------------
(* Paths: two with a common path below them begin with one segment, and one    *)
(* of them is within the other.                                            *)
LEMMA PrefixIs ==
  ASSUME NEW p \in Seq(STRING), NEW f \in Seq(STRING), IsPrefix(p, f)
  PROVE  Len(p) <= Len(f) /\ \A i \in 1..Len(p) : p[i] = f[i]
<1>1. Len(p) \in Nat /\ Len(f) \in Nat /\ Len(p) <= Len(f)
  BY DEF IsPrefix
<1>2. SubSeq(p, 1, Len(p)) = SubSeq(f, 1, Len(p))
  BY DEF IsPrefix
<1>3. ASSUME NEW i \in 1..Len(p) PROVE p[i] = f[i]
  <2>1. SubSeq(p, 1, Len(p))[i] = p[i] /\ SubSeq(f, 1, Len(p))[i] = f[i]
    BY <1>1
  <2> QED  BY <1>2, <2>1
<1> QED  BY <1>1, <1>3

LEMMA PrefixOf ==
  ASSUME NEW p \in Seq(STRING), NEW f \in Seq(STRING), Len(p) <= Len(f),
         \A i \in 1..Len(p) : p[i] = f[i]
  PROVE  IsPrefix(p, f)
<1>1. Len(p) \in Nat /\ Len(f) \in Nat
  OBVIOUS
<1>2. SubSeq(p, 1, Len(p)) = [i \in 1..Len(p) |-> p[i]]
  BY <1>1
<1>3. SubSeq(f, 1, Len(p)) = [i \in 1..Len(p) |-> f[i]]
  BY <1>1
<1>4. SubSeq(p, 1, Len(p)) = SubSeq(f, 1, Len(p))
  BY <1>2, <1>3
<1> QED  BY <1>4 DEF IsPrefix

LEMMA PrefixesMeet ==
  ASSUME NEW p \in Seq(STRING) \ {<<>>}, NEW q \in Seq(STRING) \ {<<>>}, NEW f \in Seq(STRING),
         IsPrefix(p, f), IsPrefix(q, f)
  PROVE  Head(p) = Head(q) /\ (IsPrefix(p, q) \/ IsPrefix(q, p))
<1>1. /\ Len(p) <= Len(f) /\ \A i \in 1..Len(p) : p[i] = f[i]
      /\ Len(q) <= Len(f) /\ \A i \in 1..Len(q) : q[i] = f[i]
  BY PrefixIs
<1>2. Len(p) \in Nat /\ Len(q) \in Nat /\ 1 \in 1..Len(p) /\ 1 \in 1..Len(q)
  OBVIOUS
<1>3. Head(p) = Head(q)
  BY <1>1, <1>2
<1>4. CASE Len(p) <= Len(q)
  <2>1. \A i \in 1..Len(p) : p[i] = q[i]
    BY <1>1, <1>2, <1>4
  <2> QED  BY <1>3, <1>4, <2>1, PrefixOf
<1>5. CASE Len(q) <= Len(p)
  <2>1. \A i \in 1..Len(q) : q[i] = p[i]
    BY <1>1, <1>2, <1>5
  <2> QED  BY <1>3, <1>5, <2>1, PrefixOf
<1> QED  BY <1>2, <1>4, <1>5

LEMMA OverlapIs ==
  ASSUME NEW S \in Scopes, NEW T \in Scopes, Overlap(BelowRoot(S), BelowRoot(T))
  PROVE  ~CanCoexist(S, T) /\ \E p \in S, q \in T : Shares(p, q)
<1>1. PICK f \in Paths, p \in BelowRoot(S), q \in BelowRoot(T) : IsPrefix(p, f) /\ IsPrefix(q, f)
  BY DEF Overlap, Within, BelowRoot
<1>2. /\ p \in Seq(STRING) \ {<<>>} /\ q \in Seq(STRING) \ {<<>>} /\ f \in Seq(STRING)
      /\ p \in S /\ q \in T /\ Head(p) # ""
  BY <1>1, PathAssumption DEF BelowRoot, RootScope
<1>3. Head(p) = Head(q) /\ (IsPrefix(p, q) \/ IsPrefix(q, p))
  BY <1>1, <1>2, PrefixesMeet
<1> QED  BY <1>2, <1>3 DEF CanCoexist, Shares

(* Scopes that overlap and coexist do so at the root, which one of them names. *)
LEMMA RootIs ==
  ASSUME NEW S \in Scopes, NEW T \in Scopes, Overlap(S, T), CanCoexist(S, T)
  PROVE  (RootScope \in S) # (RootScope \in T)
<1>1. ~Overlap(BelowRoot(S), BelowRoot(T))
  BY OverlapIs
<1>2. RootScope \in S \/ RootScope \in T
  BY <1>1 DEF BelowRoot
<1>3. ~(RootScope \in S /\ RootScope \in T)
  <2>1. Len(RootScope) = 1
    BY DEF RootScope
  <2>2. IsPrefix(RootScope, RootScope)
    BY <2>1 DEF IsPrefix
  <2> QED  BY <2>2 DEF CanCoexist
<1> QED  BY <1>2, <1>3

LEMMA ReportedIs ==
  ASSUME GraphInv
  PROVE  OverlapIsReported
<1> SUFFICES ASSUME NEW m \in Nodes, NEW n \in Nodes, m < n, ~After(m, n), ~After(n, m),
                    Overlap(BelowRoot(scope[m]), BelowRoot(scope[n]))
             PROVE  <<ids[m], ids[n]>> \in Conflicts
  BY DEF OverlapIsReported
<1>1. scope[m] \in Scopes /\ scope[n] \in Scopes
  BY DEF GraphInv, GTypeOK
<1>2. n \notin Needs(m) /\ m \notin Needs(n)
  BY DEF After
<1>3. Concurrent(m, n)
  BY <1>2 DEF Needs, Concurrent
<1>4. Clashing(m, n)
  BY <1>1, <1>3, OverlapIs DEF Clashing
<1>5. ids[m] \in TaskIds /\ ids[n] \in TaskIds
  BY DEF TaskIds, Range, Nodes
<1> QED  BY <1>4, <1>5 DEF Conflicts

-----------------------------------------------------------------------------
(* partition_parallel_safe: what comes of placing ids one by one.           *)
Apart(bs) == \A i, j \in DOMAIN bs : i # j => bs[i] \cap bs[j] = {}
Safe(b) == \A s, t \in b : s # t => CanCoexist(ScopeOf(s), ScopeOf(t))

Split(bs, seen) ==
  /\ Apart(bs)
  /\ \A i \in DOMAIN bs : Safe(bs[i]) /\ bs[i] \subseteq seen
  /\ \A t \in seen : \E i \in DOMAIN bs : t \in bs[i]

LEMMA PutIs ==
  ASSUME NEW bs \in Seq(SUBSET TaskIds), NEW t \in TaskIds
  PROVE  \/ Put(bs, t) = Append(bs, {t})
         \/ \E i \in DOMAIN bs : /\ \A u \in bs[i] : CanCoexist(ScopeOf(t), ScopeOf(u))
                                 /\ Put(bs, t) = [bs EXCEPT ![i] = @ \cup {t}]
<1> DEFINE fit == {i \in DOMAIN bs : \A u \in bs[i] : CanCoexist(ScopeOf(t), ScopeOf(u))}
<1>1. CASE fit = {}
  BY <1>1 DEF Put
<1>2. CASE fit # {}
  <2>1. fit \subseteq Nat
    OBVIOUS
  <2>2. Put(bs, t) = [bs EXCEPT ![Min(fit)] = @ \cup {t}]
    BY <1>2 DEF Put
  <2> HIDE DEF fit
  <2>3. Min(fit) \in fit
    BY <1>2, <2>1, LeastIs
  <2> QED  BY <2>2, <2>3 DEF fit
<1> QED  BY <1>1, <1>2

LEMMA PutKeeps ==
  ASSUME NEW bs \in Seq(SUBSET TaskIds), NEW t \in TaskIds, NEW seen,
         t \notin seen, Split(bs, seen)
  PROVE  Put(bs, t) \in Seq(SUBSET TaskIds) /\ Split(Put(bs, t), seen \cup {t})
<1>1. CASE Put(bs, t) = Append(bs, {t})
  <2> DEFINE cs == Append(bs, {t})
  <2>1. /\ cs \in Seq(SUBSET TaskIds) /\ DOMAIN cs = DOMAIN bs \cup {Len(bs) + 1}
        /\ \A i \in DOMAIN bs : cs[i] = bs[i] /\ i # Len(bs) + 1
        /\ cs[Len(bs) + 1] = {t} /\ DOMAIN bs = 1..Len(bs)
    OBVIOUS
  <2>2. Safe({t})
    BY DEF Safe
  <2> HIDE DEF cs
  <2>3. Apart(cs)
    BY <2>1 DEF Split, Apart
  <2>4. \A i \in DOMAIN cs : Safe(cs[i]) /\ cs[i] \subseteq seen \cup {t}
    BY <2>1, <2>2 DEF Split
  <2>5. \A u \in seen \cup {t} : \E i \in DOMAIN cs : u \in cs[i]
    BY <2>1 DEF Split
  <2>6. Put(bs, t) = cs
    BY <1>1 DEF cs
  <2> QED  BY <2>1, <2>3, <2>4, <2>5, <2>6 DEF Split
<1>2. ASSUME NEW k \in DOMAIN bs, \A u \in bs[k] : CanCoexist(ScopeOf(t), ScopeOf(u)),
             Put(bs, t) = [bs EXCEPT ![k] = @ \cup {t}]
      PROVE  Put(bs, t) \in Seq(SUBSET TaskIds) /\ Split(Put(bs, t), seen \cup {t})
  <2> DEFINE cs == [bs EXCEPT ![k] = @ \cup {t}]
  <2>1. /\ DOMAIN cs = DOMAIN bs
        /\ \A i \in DOMAIN bs : i # k => cs[i] = bs[i]
        /\ cs[k] = bs[k] \cup {t} /\ k \in DOMAIN cs
    OBVIOUS
  <2>2. cs \in Seq(SUBSET TaskIds)
    OBVIOUS
  <2> HIDE DEF cs
  <2>3. Safe(bs[k] \cup {t})
    <3>1. \A u \in bs[k] : CanCoexist(ScopeOf(u), ScopeOf(t))
      BY <1>2 DEF CanCoexist
    <3> QED  BY <1>2, <3>1 DEF Split, Safe
  <2>4. Apart(cs)
    BY <2>1 DEF Split, Apart
  <2>5. \A i \in DOMAIN cs : Safe(cs[i]) /\ cs[i] \subseteq seen \cup {t}
    BY <2>1, <2>3 DEF Split
  <2>6. \A u \in seen \cup {t} : \E i \in DOMAIN cs : u \in cs[i]
    BY <2>1 DEF Split
  <2>7. Put(bs, t) = cs
    BY <1>2 DEF cs
  <2> QED  BY <2>2, <2>4, <2>5, <2>6, <2>7 DEF Split
<1> QED  BY <1>1, <1>2, PutIs

(* The recursion over the plan has a value ...                             *)
Onward(bs, n) ==
  IF \E m \in 1..(n - 1) : ids[m] = ids[n] THEN bs ELSE Put(bs, ids[n])

LEMMA OnwardType ==
  ASSUME ids \in Seq(Ids), NEW bs \in Seq(SUBSET TaskIds), NEW n \in 1..Len(ids)
  PROVE  Onward(bs, n) \in Seq(SUBSET TaskIds)
<1>1. ids[n] \in TaskIds
  BY DEF TaskIds, Range
<1>2. Append(bs, {ids[n]}) \in Seq(SUBSET TaskIds)
  BY <1>1
<1>3. ASSUME NEW i \in DOMAIN bs PROVE [bs EXCEPT ![i] = @ \cup {ids[n]}] \in Seq(SUBSET TaskIds)
  BY <1>1
<1>4. Put(bs, ids[n]) \in Seq(SUBSET TaskIds)
  <2>1. CASE Put(bs, ids[n]) = Append(bs, {ids[n]})
    BY <1>2, <2>1
  <2>2. CASE \E i \in DOMAIN bs : Put(bs, ids[n]) = [bs EXCEPT ![i] = @ \cup {ids[n]}]
    <3>1. PICK i \in DOMAIN bs : Put(bs, ids[n]) = [bs EXCEPT ![i] = @ \cup {ids[n]}]
      BY <2>2
    <3>2. [bs EXCEPT ![i] = @ \cup {ids[n]}] \in Seq(SUBSET TaskIds)
      BY <1>3
    <3> QED  BY <3>1, <3>2
  <2>3. \/ Put(bs, ids[n]) = Append(bs, {ids[n]})
        \/ \E i \in DOMAIN bs : Put(bs, ids[n]) = [bs EXCEPT ![i] = @ \cup {ids[n]}]
    BY <1>1, PutIs
  <2> QED  BY <2>1, <2>2, <2>3
<1> QED  BY <1>4 DEF Onward

LEMMA PlacedIs ==
  ASSUME ids \in Seq(Ids)
  PROVE  /\ Placed[0] = <<>>
         /\ \A n \in 1..Len(ids) : Placed[n] = Onward(Placed[n-1], n)
<1> DEFINE L == Len(ids)
           V == Seq(SUBSET TaskIds)
           F == [n \in 1..L |-> [bs \in V |-> Onward(bs, n)]]
<1>1. L \in Nat /\ <<>> \in V
  OBVIOUS
<1>2. F \in [1..L -> [V -> V]]
  BY OnwardType
<1> HIDE DEF F, L, V
<1>3. PICK f : Folded(f, L, V, <<>>, F)
  BY <1>1, <1>2, FoldExists
<1>4. ASSUME NEW n \in 1..L PROVE f[n] = Onward(f[n-1], n)
  <2>1. n - 1 \in 0..L
    BY <1>1
  <2>2. f[n] = F[n][f[n-1]] /\ f[n-1] \in V
    BY <1>3, <2>1 DEF Folded
  <2> QED  BY <2>2 DEF F
<1>5. f = [n \in 0..L |-> IF n = 0 THEN <<>> ELSE Onward(f[n-1], n)]
  <2>1. ASSUME NEW n \in 0..L
        PROVE  f[n] = IF n = 0 THEN <<>> ELSE Onward(f[n-1], n)
    <3>1. n = 0 \/ n \in 1..L
      BY <1>1
    <3>2. f[0] = <<>>
      BY <1>3 DEF Folded
    <3>3. n \in 1..L => n # 0
      BY <1>1
    <3> QED  BY <1>4, <3>1, <3>2, <3>3
  <2>2. f = [n \in 0..L |-> f[n]]
    BY <1>3 DEF Folded
  <2> QED  BY <2>1, <2>2, Zenon
<1>6. Placed = [n \in 0..L |-> IF n = 0 THEN <<>> ELSE Onward(Placed[n-1], n)]
  BY <1>5, Zenon DEF Placed, Onward, L
<1>7. ASSUME NEW n \in 1..L PROVE Placed[n] = Onward(Placed[n-1], n)
  <2>1. n \in 0..L /\ n # 0
    BY <1>1
  <2> QED  BY <1>6, <2>1
<1>8. Placed[0] = <<>>
  <2>1. 0 \in 0..L
    BY <1>1
  <2> QED  BY <1>6, <2>1
<1> QED  BY <1>7, <1>8 DEF L

(* ... that has every id once, with none its scope cannot coexist with.      *)
LEMMA BatchesSplit ==
  ASSUME ids \in Seq(Ids)
  PROVE  Split(Batches, TaskIds)
<1> DEFINE Seen(n) == {ids[m] : m \in 1..n}
           S == {n \in Nat : n <= Len(ids) =>
                   Placed[n] \in Seq(SUBSET TaskIds) /\ Split(Placed[n], Seen(n))}
<1>1. Len(ids) \in Nat /\ DOMAIN ids = 1..Len(ids)
  OBVIOUS
<1>2. 0 \in S
  <2>1. Seen(0) = {} /\ DOMAIN <<>> = {} /\ <<>> \in Seq(SUBSET TaskIds)
    OBVIOUS
  <2>2. Split(<<>>, {})
    BY <2>1 DEF Split, Apart
  <2> QED  BY <2>1, <2>2, PlacedIs
<1>3. ASSUME NEW n \in Nat, n \in S PROVE n + 1 \in S
  <2>1. CASE n + 1 <= Len(ids)
    <3>1. n + 1 \in 1..Len(ids) /\ (n + 1) - 1 = n /\ n <= Len(ids) /\ ids[n+1] \in TaskIds
      BY <2>1, <1>1 DEF TaskIds, Range
    <3>2. Placed[n + 1] = Onward(Placed[n], n + 1)
      BY <3>1, PlacedIs
    <3>3. Placed[n] \in Seq(SUBSET TaskIds) /\ Split(Placed[n], Seen(n))
      BY <1>3, <3>1
    <3>4. 1..(n+1) = 1..n \cup {n + 1}
      OBVIOUS
    <3>5. Seen(n + 1) = Seen(n) \cup {ids[n+1]}
      BY <3>4
    <3>6. (\E m \in 1..n : ids[m] = ids[n+1]) <=> ids[n+1] \in Seen(n)
      OBVIOUS
    <3> HIDE DEF Seen
    <3>7. ASSUME ids[n+1] \in Seen(n)
          PROVE  Placed[n + 1] \in Seq(SUBSET TaskIds) /\ Split(Placed[n + 1], Seen(n + 1))
      <4>1. Placed[n + 1] = Placed[n] /\ Seen(n + 1) = Seen(n)
        BY <3>1, <3>2, <3>5, <3>6, <3>7 DEF Onward
      <4> QED  BY <3>3, <4>1
    <3>8. ASSUME ids[n+1] \notin Seen(n)
          PROVE  Placed[n + 1] \in Seq(SUBSET TaskIds) /\ Split(Placed[n + 1], Seen(n + 1))
      <4>1. Placed[n + 1] = Put(Placed[n], ids[n+1])
        BY <3>1, <3>2, <3>6, <3>8 DEF Onward
      <4> QED  BY <3>1, <3>3, <3>5, <3>8, <4>1, PutKeeps
    <3>9. Placed[n + 1] \in Seq(SUBSET TaskIds) /\ Split(Placed[n + 1], Seen(n + 1))
      BY <3>7, <3>8
    <3> QED  BY <3>9
  <2>2. CASE ~(n + 1 <= Len(ids))
    BY <2>2
  <2> QED  BY <2>1, <2>2
<1>4. Nat \subseteq S
  <2> HIDE DEF S
  <2> QED  BY <1>2, <1>3, SetInduction
<1>5. Split(Batches, Seen(Len(ids)))
  <2>1. Len(ids) \in S
    <3> HIDE DEF S
    <3> QED  BY <1>1, <1>4
  <2> HIDE DEF Seen
  <2>2. Len(ids) <= Len(ids)
    BY <1>1
  <2> QED  BY <2>1, <2>2 DEF Batches
<1>6. Seen(Len(ids)) = TaskIds
  BY <1>1 DEF TaskIds, Range
<1> QED  BY <1>5, <1>6

LEMMA DisjointIs ==
  ASSUME GraphInv
  PROVE  BatchesAreDisjoint
<1>1. ids \in Seq(Ids)
  BY IdAssumption DEF GraphInv, GTypeOK
<1>2. Split(Batches, TaskIds)
  BY <1>1, BatchesSplit
<1>3. \A t \in TaskIds : \E i \in DOMAIN Batches :
        t \in Batches[i] /\ \A j \in DOMAIN Batches : t \in Batches[j] => j = i
  BY <1>2 DEF Split, Apart
<1>4. ASSUME NEW i \in DOMAIN Batches, NEW s \in Batches[i], NEW t \in Batches[i], s # t,
             Overlap(ScopeOf(s), ScopeOf(t))
      PROVE  /\ (RootScope \in ScopeOf(s)) # (RootScope \in ScopeOf(t))
             /\ ~Overlap(BelowRoot(ScopeOf(s)), BelowRoot(ScopeOf(t)))
  <2>1. CanCoexist(ScopeOf(s), ScopeOf(t)) /\ s \in TaskIds /\ t \in TaskIds
    BY <1>2, <1>4 DEF Split, Safe
  <2>2. ScopeOf(s) \in Scopes /\ ScopeOf(t) \in Scopes
    BY <1>1, <2>1, NodeIs DEF ScopeOf, GraphInv, GTypeOK
  <2> QED  BY <1>4, <2>1, <2>2, OverlapIs, RootIs
<1> QED  BY <1>3, <1>4 DEF BatchesAreDisjoint

(* With nothing failed and nothing under way, what has not succeeded has a    *)
(* member that waits for none of the rest.                                *)
LEMMA NotStranded ==
  ASSUME GraphInv, succeeded \subseteq TaskIds
  PROVE  NeverStranded
<1> SUFFICES ASSUME at = "valid", failed = {}, succeeded # TaskIds
             PROVE  \E t \in TaskIds : CanBegin(t)
  BY DEF NeverStranded
<1> DEFINE S == TaskIds \ succeeded
<1>1. Black = TaskIds /\ Absent = {}
  BY DEF GraphInv, OutcomeInv
<1>2. S \in SUBSET Black /\ S # {}
  BY <1>1
<1>3. PICK t \in S : Adj(t) \cap S = {}
  <2> HIDE DEF S
  <2> QED  BY <1>2 DEF GraphInv, BlackInv, Unstuck
<1>4. Adj(t) \subseteq TaskIds
  <2>1. ids \in Seq(Ids)
    BY IdAssumption DEF GraphInv, GTypeOK
  <2>2. NodeOf(t) \in Nodes /\ Adj(t) = deps[NodeOf(t)] /\ Adj(t) \in SUBSET (Ids \cup {Unknown})
    BY <2>1, NodeIs, AdjIs DEF GraphInv, Adj
  <2>3. ASSUME NEW d \in Adj(t), d \notin TaskIds PROVE FALSE
    <3> DEFINE e == <<NodeOf(t), d>>
    <3>1. e \in Nodes \X (Ids \cup {Unknown}) /\ e[1] = NodeOf(t) /\ e[2] = d
      BY <2>2
    <3>2. e \in Absent
      BY <2>2, <2>3, <3>1 DEF Absent
    <3> QED  BY <1>1, <3>2
  <2> QED  BY <2>3
<1>5. CanBegin(t)
  BY <1>3, <1>4 DEF CanBegin
<1> QED  BY <1>5

LEMMA PlanIs ==
  ASSUME GraphInv, succeeded \subseteq TaskIds
  PROVE  PlanIsSound
BY AcceptedIs, RefusedIs, OrderIs, ReportedIs, DisjointIs, NotStranded DEF PlanIsSound

-----------------------------------------------------------------------------
(* ModelRouter: what it selects.                                           *)
LEMMA FirstInIs ==
  ASSUME NEW T, NEW s \in Seq(T), NEW S
  PROVE  FirstIn(s, S) = None \/ FirstIn(s, S) \in S \cap T
<1> DEFINE found == {i \in DOMAIN s : s[i] \in S}
<1>1. CASE found = {}
  BY <1>1 DEF FirstIn
<1>2. CASE found # {}
  <2>1. found \subseteq Nat
    OBVIOUS
  <2>2. FirstIn(s, S) = s[Min(found)]
    BY <1>2 DEF FirstIn
  <2> HIDE DEF found
  <2>3. Min(found) \in found
    BY <1>2, <2>1, LeastIs
  <2> QED  BY <2>2, <2>3 DEF found
<1> QED  BY <1>1, <1>2

LEMMA SelectIs ==
  ASSUME NEW role \in DOMAIN Preference
  PROVE  Select(role) \in Models \cup {None}
<1>1. Preference[role] \in Seq(Models)
  BY RosterAssumption
<1> QED  BY <1>1, FirstInIs DEF Select

LEMMA ReviewerIs ==
  ASSUME NEW p
  PROVE  /\ SelectReviewer(p) \in Models \cup {None}
         /\ SelectReviewer(p) # None => Provider[SelectReviewer(p)] # p
<1> DEFINE cross == {m \in Live : Provider[m] # p}
           S == IF cross \cap Primary # {} THEN cross \cap Primary ELSE cross
<1>1. SelectReviewer(p) = FirstIn(Roster, S)
  BY DEF SelectReviewer
<1>2. \A m \in S : Provider[m] # p
  OBVIOUS
<1> HIDE DEF S
<1>3. FirstIn(Roster, S) = None \/ FirstIn(Roster, S) \in S \cap Models
  BY RosterAssumption, FirstInIs
<1> QED  BY <1>1, <1>2, <1>3

(* _fallback_candidates: the list is not empty, and comes to no model twice.   *)
LEMMA FallbackIs ==
  ASSUME NEW selected \in Models \cup {None}, NEW list \in Seq(Models), IsInjective(list)
  PROVE  /\ Fallback(selected, list) \in Seq(Candidates)
         /\ IsInjective(Fallback(selected, list)) /\ Len(Fallback(selected, list)) >= 1
<1> DEFINE all == IF selected = None THEN Kept(<<>>, list, Live)
                  ELSE Kept(<<selected>>, list, Live \ {selected})
<1>1. all \in Seq(Models) /\ IsInjective(all)
  <2>1. CASE selected = None
    <3>1. <<>> \in Seq(Models) /\ IsInjective(<<>>) /\ Range(<<>>) = {}
      BY DEF IsInjective, Range
    <3>2. Grown(Kept(<<>>, list, Live), <<>>, list, Live, Len(list), Models)
      BY <3>1, KeptIs
    <3> QED  BY <2>1, <3>2 DEF Grown
  <2>2. CASE selected # None
    <3>1. <<selected>> \in Seq(Models) /\ DOMAIN <<selected>> = {1} /\ <<selected>>[1] = selected
      BY <2>2
    <3>2. IsInjective(<<selected>>) /\ Range(<<selected>>) = {selected}
      BY <3>1 DEF IsInjective, Range
    <3>3. \A j \in 1..Len(list) : list[j] \in Live \ {selected} => list[j] \notin Range(<<selected>>)
      BY <3>2
    <3>4. Grown(Kept(<<selected>>, list, Live \ {selected}), <<selected>>, list,
                Live \ {selected}, Len(list), Models)
      BY <3>1, <3>2, <3>3, KeptIs
    <3> QED  BY <2>2, <3>4 DEF Grown
  <2> QED  BY <2>1, <2>2
<1>2. Fallback(selected, list) = IF all = <<>> THEN <<Default>> ELSE all
  BY DEF Fallback
<1> HIDE DEF all
<1>3. CASE all = <<>>
  <2>1. Fallback(selected, list) = <<Default>>
    BY <1>2, <1>3
  <2>2. <<Default>> \in Seq(Candidates) /\ Len(<<Default>>) = 1 /\ DOMAIN <<Default>> = {1}
    BY DEF Candidates
  <2> QED  BY <2>1, <2>2 DEF IsInjective
<1>4. CASE all # <<>>
  <2>1. all \in Seq(Candidates) /\ Len(all) >= 1
    BY <1>1, <1>4 DEF Candidates
  <2> QED  BY <1>1, <1>2, <1>4, <2>1
<1> QED  BY <1>3, <1>4

LEMMA CappedIs ==
  ASSUME NEW s \in Seq(Candidates), IsInjective(s), Len(s) >= 1
  PROVE  /\ Capped(s) \in Seq(Candidates) /\ IsInjective(Capped(s))
         /\ Len(Capped(s)) \in 1..(1 + MaxFallback)
<1>1. MaxFallback \in Nat /\ Len(s) \in Nat /\ DOMAIN s = 1..Len(s)
  BY BoundAssumption
<1>2. CASE Len(s) <= 1 + MaxFallback
  BY <1>1, <1>2 DEF Capped
<1>3. CASE ~(Len(s) <= 1 + MaxFallback)
  <2> DEFINE c == SubSeq(s, 1, 1 + MaxFallback)
  <2>1. Capped(s) = c
    BY <1>3 DEF Capped
  <2>2. /\ c \in Seq(Candidates) /\ Len(c) = 1 + MaxFallback /\ DOMAIN c = 1..Len(c)
        /\ \A i \in 1..(1 + MaxFallback) : c[i] = s[i] /\ i \in DOMAIN s
    BY <1>1, <1>3
  <2> HIDE DEF c
  <2>3. IsInjective(c)
    BY <2>2 DEF IsInjective
  <2> QED  BY <1>1, <2>1, <2>2, <2>3
<1> QED  BY <1>2, <1>3

LEMMA AnswerIs ==
  ASSUME NEW a \in Answers \cup {Pending}
  PROVE  /\ a.ids \in SUBSET UNION Listings
         /\ a = Pending \/ (a \in Answers /\ a # Pending)
         /\ a.state # "reachable" => a.ids = {}
BY DEF Answers, Pending, Degraded

LEMMA RouterTyped ==
  ASSUME RegistryType, JobType
  PROVE  RTypeOK
<1>1. /\ DOMAIN job = DOMAIN NoJob /\ job.at \in Steps
      /\ job.selected \in Models \cup {None} /\ job.reviewer \in Models \cup {None}
  BY DEF JobType, Jobs, NoJob
<1>2. job.list \in Seq(Candidates)
  BY DEF JobType, Jobs
<1>3. Range(job.list) \subseteq Models \cup {Default}
  BY <1>2 DEF Range, Candidates
<1> QED  BY <1>1, <1>3 DEF RTypeOK, RegistryType

LEMMA NoJobIs ==
  /\ NoJob \in Jobs /\ NoJob.at = "idle" /\ NoJob.tried = <<>> /\ NoJob.reviewer = None
BY DEF NoJob, Jobs, Steps

LEMMA CurrentIs ==
  ASSUME JobType, JobInv, job.at \notin {"idle", "routed"}
  PROVE  /\ Current \in Candidates /\ Last(job.tried) = job.tried[Len(job.tried)]
         /\ Last(job.tried) \in Candidates
<1>1. /\ job.tried \in Seq(Candidates) /\ job.reviewer \in Models \cup {None} /\ job.at \in Steps
      /\ job.list \in Seq(Candidates)
  BY DEF JobType, Jobs
<1>2. Len(job.tried) \in 1..Len(job.list)
  BY <1>1 DEF JobInv, Steps
<1>3. Len(job.tried) \in DOMAIN job.tried
  BY <1>1, <1>2
<1>4. Last(job.tried) = job.tried[Len(job.tried)] /\ Last(job.tried) \in Candidates
  BY <1>1, <1>3 DEF Last
<1> QED  BY <1>1, <1>4 DEF Current, Candidates

-----------------------------------------------------------------------------
(* The registry and the application.                                       *)
LEMMA IdleIs ==
  ASSUME JobType', job'.at = "idle", job'.tried = <<>>, job'.reviewer = None
  PROVE  JobInv' /\ \A c : ~Owed(c)'
BY DEF JobInv, Owed

LEMMA BootKeeps ==
  ASSUME RouterInv, Boot
  PROVE  RouterInv'
<1> USE DEF RouterInv
<1>1. /\ ~up /\ boots < MaxBoots /\ up' = TRUE /\ boots' = boots + 1
      /\ score' = stored /\ current' = cached /\ available' = cached.ids
      /\ probing' = (cached = Pending)
      /\ cached' = cached /\ stored' = stored /\ job' = job
  BY DEF Boot, Restored, Listed
<1>2. cached \in Answers \cup {Pending} /\ cached.ids \in SUBSET UNION Listings
  BY AnswerIs DEF RegistryType
<1>3. boots' \in 0..MaxBoots
  BY <1>1, BoundAssumption DEF RegistryType
<1>4. RegistryType'
  BY <1>1, <1>2, <1>3 DEF RegistryType
<1>5. JobType' /\ JobInv' /\ job.at = "idle"
  BY <1>1 DEF JobType, JobInv, UpInv
<1>6. CardInv'
  <2>1. ASSUME NEW c \in Candidates \X BOOLEAN PROVE ~Owed(c)' /\ stored[c] + 0 <= stored[c]
    <3>1. stored[c] \in Nat
      BY DEF RegistryType, Counters, Candidates
    <3> QED  BY <1>1, <1>5, <3>1 DEF Owed
  <2> QED  BY <1>1, <2>1 DEF CardInv
<1>7. UpInv'
  BY <1>1, <1>5 DEF UpInv, RouterFollowsRegistry
<1> QED  BY <1>4, <1>5, <1>6, <1>7

LEMMA ProbedKeeps ==
  ASSUME RouterInv, Probed
  PROVE  RouterInv'
<1> USE DEF RouterInv
<1>1. PICK answer \in Answers :
        /\ current' = answer /\ cached' = answer
        /\ available' = IF answer.state = "reachable" THEN answer.ids ELSE available
  BY DEF Probed
<1>2. /\ probing /\ probing' = FALSE /\ up' = up /\ boots' = boots /\ score' = score
      /\ stored' = stored /\ job' = job
  BY DEF Probed
<1>3. up /\ current = Pending /\ available = {}
  <2>1. up /\ available = current.ids /\ (probing => current = Pending)
    BY <1>2 DEF UpInv, RouterFollowsRegistry
  <2>2. current = Pending
    BY <1>2, <2>1
  <2>3. Pending.ids = {}
    BY DEF Pending
  <2> QED  BY <2>1, <2>2, <2>3
<1>4. answer.ids \in SUBSET UNION Listings /\ answer # Pending /\ available' = answer.ids
  <2>1. answer # Pending
    BY DEF Answers, Pending, Degraded
  <2> QED  BY <1>1, <1>3, <2>1, AnswerIs
<1>5. RegistryType'
  BY <1>1, <1>2, <1>4 DEF RegistryType
<1>6. JobType' /\ JobInv'
  BY <1>2 DEF JobType, JobInv
<1>7. CardInv'
  BY <1>2 DEF CardInv, Owed, Current
<1>8. UpInv'
  BY <1>1, <1>2, <1>3, <1>4 DEF UpInv, RouterFollowsRegistry
<1> QED  BY <1>5, <1>6, <1>7, <1>8

LEMMA ProbeDiesKeeps ==
  ASSUME RouterInv, ProbeDies
  PROVE  RouterInv'
<1> USE DEF RouterInv
<1>1. /\ probing /\ probing' = FALSE
      /\ UNCHANGED <<up, boots, cached, current, available, score, stored, job>>
  BY DEF ProbeDies
<1>2. RegistryType' /\ JobType' /\ JobInv'
  BY <1>1 DEF RegistryType, JobType, JobInv
<1>3. CardInv'
  BY <1>1 DEF CardInv, Owed, Current
<1>4. UpInv'
  BY <1>1 DEF UpInv, RouterFollowsRegistry
<1> QED  BY <1>2, <1>3, <1>4

LEMMA StopKeeps ==
  ASSUME RouterInv, Stop
  PROVE  RouterInv'
<1> USE DEF RouterInv
<1>1. /\ up' = FALSE /\ probing' = FALSE /\ job' = NoJob /\ cached' \in {cached, Pending}
      /\ boots' = boots /\ current' = current /\ available' = available /\ score' = score
      /\ stored' = stored
  BY DEF Stop
<1>2. RegistryType'
  BY <1>1 DEF RegistryType
<1>3. JobType'
  BY <1>1, NoJobIs DEF JobType
<1>4. JobInv'
  BY <1>1, <1>3, NoJobIs, IdleIs
<1>5. CardInv' /\ UpInv'
  BY <1>1, NoJobIs DEF CardInv, UpInv, RouterFollowsRegistry
<1> QED  BY <1>2, <1>3, <1>4, <1>5

-----------------------------------------------------------------------------
(* _run_task.                                                              *)
LEMMA JobKeeps ==
  ASSUME RouterInv, UNCHANGED <<registry, score, stored>>, JobType', JobInv',
         job'.at # "idle" => up, \A c : ~Owed(c)'
  PROVE  RouterInv'
<1> USE DEF RouterInv
<1>1. /\ up' = up /\ boots' = boots /\ cached' = cached /\ current' = current
      /\ available' = available /\ probing' = probing /\ score' = score /\ stored' = stored
  BY DEF registry
<1>2. RegistryType'
  BY <1>1 DEF RegistryType
<1>3. UpInv'
  BY <1>1 DEF UpInv, RouterFollowsRegistry
<1>4. CardInv'
  <2>1. ASSUME up, NEW c \in Candidates \X BOOLEAN PROVE stored[c] + 0 <= score[c]
    <3>1. stored[c] \in Nat /\ score[c] \in Nat
      BY DEF RegistryType, Counters, Candidates
    <3>2. stored[c] + (IF Owed(c) THEN 1 ELSE 0) <= score[c]
      BY <2>1 DEF CardInv
    <3> QED  BY <3>1, <3>2
  <2> QED  BY <1>1, <2>1 DEF CardInv
<1> QED  BY <1>2, <1>3, <1>4

LEMMA RouteKeeps ==
  ASSUME RouterInv, NEW t \in Ids, NEW role \in DOMAIN Preference, NEW risky \in BOOLEAN,
         Route(t, role, risky)
  PROVE  RouterInv' /\ job'.task = t /\ job'.at # "idle" /\ job.at = "idle"
<1> USE DEF RouterInv
<1>1. /\ up /\ job.at = "idle" /\ UNCHANGED <<registry, score, stored>>
      /\ job' = [NoJob EXCEPT !.at = "routed", !.task = t, !.selected = Select(role),
                              !.candidates = Preference[role], !.reviewed = risky]
  BY DEF Route
<1>2. /\ job'.at = "routed" /\ job'.task = t /\ job'.selected = Select(role)
      /\ job'.candidates = Preference[role] /\ job'.tried = <<>> /\ job'.reviewer = None
  BY <1>1 DEF NoJob
<1>3. Preference[role] \in Seq(Models) /\ IsInjective(Preference[role])
  BY RosterAssumption
<1>4. JobType'
  <2>1. Select(role) \in Models \cup {None} /\ "routed" \in Steps
    BY SelectIs DEF Steps
  <2> QED  BY <1>1, <1>3, <2>1, NoJobIs DEF JobType, Jobs
<1>5. JobInv'
  BY <1>2, <1>3 DEF JobInv
<1>6. \A c : ~Owed(c)'
  BY <1>2 DEF Owed
<1>7. RouterInv'
  BY <1>1, <1>4, <1>5, <1>6, JobKeeps
<1> QED  BY <1>1, <1>2, <1>7

LEMMA DrawUpKeeps ==
  ASSUME RouterInv, DrawUp
  PROVE  RouterInv' /\ job'.task = job.task /\ job'.at # "idle" /\ job.at # "idle"
<1> USE DEF RouterInv
<1> DEFINE list == Capped(Fallback(job.selected, job.candidates))
<1>1. /\ job.at = "routed" /\ UNCHANGED <<registry, score, stored>>
      /\ job' = [job EXCEPT !.at = "trying", !.list = list, !.tried = <<Head(list)>>]
  BY DEF DrawUp
<1>2. /\ job \in Jobs /\ job.selected \in Models \cup {None} /\ job.candidates \in Seq(Models)
      /\ IsInjective(job.candidates) /\ job.reviewer = None
  BY <1>1 DEF JobType, Jobs, JobInv
<1>3. list \in Seq(Candidates) /\ IsInjective(list) /\ Len(list) \in 1..(1 + MaxFallback)
  BY <1>2, FallbackIs, CappedIs
<1> HIDE DEF list
<1>4. /\ job'.at = "trying" /\ job'.list = list /\ job'.tried = <<Head(list)>>
      /\ job'.task = job.task /\ job'.reviewer = None
  BY <1>1, <1>2 DEF Jobs
<1>5. Head(list) \in Candidates /\ Head(list) = list[1] /\ "trying" \in Steps
      /\ <<Head(list)>> \in Seq(Candidates)
  BY <1>3 DEF Steps
<1>6. JobType'
  BY <1>1, <1>2, <1>3, <1>5 DEF JobType, Jobs
<1>7. JobInv'
  <2>1. Len(<<Head(list)>>) = 1 /\ DOMAIN <<Head(list)>> = {1} /\ <<Head(list)>>[1] = list[1]
    BY <1>5
  <2>2. Len(list) <= 1 + MaxFallback /\ 1 \in 1..Len(list)
    BY <1>3, BoundAssumption
  <2> QED  BY <1>3, <1>4, <2>1, <2>2 DEF JobInv
<1>8. \A c : ~Owed(c)'
  BY <1>4 DEF Owed
<1>9. RouterInv'
  BY <1>1, <1>6, <1>7, <1>8, JobKeeps DEF UpInv
<1> QED  BY <1>1, <1>4, <1>9

LEMMA ObserveKeeps ==
  ASSUME RouterInv, Observe
  PROVE  RouterInv' /\ job'.task = job.task /\ job'.at # "idle" /\ job.at # "idle"
<1> USE DEF RouterInv
<1>1. /\ job.at \in {"trying", "reviewing"} /\ UNCHANGED <<registry, stored>>
  BY DEF Observe
<1>2. PICK ok \in BOOLEAN :
        /\ score' = [score EXCEPT ![<<Current, ok>>] = @ + 1]
        /\ job' = [job EXCEPT !.ok = ok,
                              !.at = IF job.at = "trying" THEN "observed" ELSE "judged"]
  BY DEF Observe
<1>3. /\ up' = up /\ boots' = boots /\ cached' = cached /\ current' = current
      /\ available' = available /\ probing' = probing /\ stored' = stored
  BY <1>1 DEF registry
<1>4. /\ job'.at = (IF job.at = "trying" THEN "observed" ELSE "judged") /\ job'.ok = ok
      /\ job'.tried = job.tried /\ job'.list = job.list /\ job'.reviewer = job.reviewer
      /\ job'.task = job.task /\ job'.at \in Steps
  BY <1>1, <1>2 DEF JobType, Jobs, Steps
<1>5. JobType'
  BY <1>2, <1>4 DEF JobType, Jobs
<1>6. JobInv'
  BY <1>1, <1>4 DEF JobInv
<1>7. Current \in Candidates /\ Current' = Current
  BY <1>1, <1>4, CurrentIs DEF Current
<1> DEFINE c0 == <<Current, ok>>
<1>8. c0 \in Candidates \X BOOLEAN
  BY <1>7
<1>9. score \in [Candidates \X BOOLEAN -> Nat] /\ stored \in [Candidates \X BOOLEAN -> Nat]
  BY DEF RegistryType, Counters, Candidates
<1> HIDE DEF c0
<1>10. /\ score' \in [Candidates \X BOOLEAN -> Nat] /\ score'[c0] = score[c0] + 1
       /\ \A c \in Candidates \X BOOLEAN : c # c0 => score'[c] = score[c]
  BY <1>2, <1>8, <1>9 DEF c0
<1>11. RegistryType'
  BY <1>3, <1>9, <1>10 DEF RegistryType, Counters, Candidates
<1>12. CardInv'
  <2>1. ASSUME up, NEW c \in Candidates \X BOOLEAN
        PROVE  stored[c] + (IF Owed(c)' THEN 1 ELSE 0) <= score'[c]
    <3>1. ~Owed(c)
      BY <1>1 DEF Owed
    <3>2. stored[c] + 0 <= score[c] /\ stored[c] \in Nat /\ score[c] \in Nat
      BY <1>9, <2>1, <3>1 DEF CardInv
    <3>3. CASE c = c0
      BY <1>10, <3>2, <3>3
    <3>4. CASE c # c0
      <4>1. ~Owed(c)'
        BY <1>4, <1>7, <3>4 DEF Owed, c0
      <4> QED  BY <1>10, <3>2, <3>4, <4>1
    <3> QED  BY <3>3, <3>4
  <2> QED  BY <1>3, <2>1 DEF CardInv
<1>13. UpInv'
  BY <1>1, <1>3 DEF UpInv, RouterFollowsRegistry
<1>14. job'.at # "idle" /\ job.at # "idle"
  BY <1>1, <1>4
<1> QED  BY <1>4, <1>5, <1>6, <1>11, <1>12, <1>13, <1>14

(* The model after the one that failed ...                                 *)
LEMMA AfterFailureIs ==
  ASSUME JobType, JobInv, job.at = "observed", job' = AfterFailure
  PROVE  /\ JobType' /\ JobInv' /\ job'.at \in {"idle", "trying"}
         /\ job'.at # "idle" => job'.task = job.task
<1> DEFINE i == Len(job.tried)
<1>1. /\ job \in Jobs /\ job.tried \in Seq(Candidates) /\ job.list \in Seq(Candidates)
      /\ i \in 1..Len(job.list) /\ job.reviewer = None
      /\ \A k \in DOMAIN job.tried : job.tried[k] = job.list[k]
      /\ IsInjective(job.list) /\ Len(job.list) <= 1 + MaxFallback
  BY DEF JobType, Jobs, JobInv
<1>2. CASE i < Len(job.list)
  <2> DEFINE x == Append(job.tried, job.list[i + 1])
  <2>1. /\ i + 1 \in 1..Len(job.list) /\ job.list[i + 1] \in Candidates
        /\ x \in Seq(Candidates) /\ Len(x) = i + 1 /\ DOMAIN x = DOMAIN job.tried \cup {i + 1}
        /\ x[i + 1] = job.list[i + 1] /\ \A k \in DOMAIN job.tried : x[k] = job.tried[k]
    BY <1>1, <1>2
  <2>2. job' = [job EXCEPT !.at = "trying", !.tried = x]
    BY <1>2 DEF AfterFailure
  <2> HIDE DEF x, i
  <2>3. /\ job'.at = "trying" /\ job'.tried = x /\ job'.list = job.list /\ job'.task = job.task
        /\ job'.reviewer = None /\ job' \in Jobs
    BY <1>1, <2>1, <2>2 DEF Jobs, Steps
  <2>4. JobInv'
    BY <1>1, <2>1, <2>3 DEF JobInv
  <2> QED  BY <2>3, <2>4 DEF JobType
<1>3. CASE ~(i < Len(job.list))
  <2>1. job' = NoJob
    BY <1>3 DEF AfterFailure
  <2>2. JobType'
    BY <2>1, NoJobIs DEF JobType
  <2> QED  BY <2>1, <2>2, NoJobIs, IdleIs
<1> QED  BY <1>2, <1>3

(* ... and the reviewer of the one that did not.                            *)
LEMMA AfterSuccessIs ==
  ASSUME JobType, JobInv, job.at = "observed", job' = AfterSuccess
  PROVE  /\ JobType' /\ JobInv' /\ job'.at \in {"idle", "reviewing"}
         /\ job'.at # "idle" => job'.task = job.task
<1> DEFINE r == SelectReviewer(Author)
<1>1. /\ job \in Jobs /\ job.tried \in Seq(Candidates) /\ job.list \in Seq(Candidates)
      /\ Len(job.tried) \in 1..Len(job.list)
      /\ \A k \in DOMAIN job.tried : job.tried[k] = job.list[k]
      /\ IsInjective(job.list) /\ Len(job.list) <= 1 + MaxFallback
  BY DEF JobType, Jobs, JobInv
<1>2. r \in Models \cup {None} /\ (r # None => Provider[r] # Author)
  BY ReviewerIs
<1>3. CASE job.reviewed /\ r # None
  <2>1. job' = [job EXCEPT !.at = "reviewing", !.reviewer = r]
    BY <1>3 DEF AfterSuccess
  <2> HIDE DEF r
  <2>2. /\ job'.at = "reviewing" /\ job'.tried = job.tried /\ job'.list = job.list
        /\ job'.task = job.task /\ job'.reviewer = r /\ job' \in Jobs
    BY <1>1, <1>2, <2>1 DEF Jobs, Steps
  <2>3. Last(job.tried) # Default => Provider[r] # Provider[Last(job.tried)]
    BY <1>2, <1>3 DEF Author
  <2>4. JobInv'
    BY <1>1, <2>2, <2>3 DEF JobInv
  <2> QED  BY <2>2, <2>4 DEF JobType
<1>4. CASE ~(job.reviewed /\ r # None)
  <2>1. job' = NoJob
    BY <1>4 DEF AfterSuccess
  <2>2. JobType'
    BY <2>1, NoJobIs DEF JobType
  <2> QED  BY <2>1, <2>2, NoJobIs, IdleIs
<1> QED  BY <1>3, <1>4

LEMMA RecordKeeps ==
  ASSUME RouterInv, Record
  PROVE  /\ RouterInv' /\ job.at # "idle"
         /\ job'.at # "idle" => job'.task = job.task
         /\ job'.task \in {job.task, None}
<1> USE DEF RouterInv
<1>1. job.at \in {"observed", "judged"} /\ UNCHANGED <<registry, score>>
  BY DEF Record
<1>2. CASE job' = NoJob /\ UNCHANGED stored
  <2>1. JobType'
    BY <1>2, NoJobIs DEF JobType
  <2>2. JobInv' /\ \A c : ~Owed(c)'
    BY <1>2, <2>1, NoJobIs, IdleIs
  <2>3. job'.at = "idle" /\ job'.task = None
    BY <1>2 DEF NoJob
  <2>4. RouterInv'
    BY <1>1, <1>2, <2>1, <2>2, <2>3, JobKeeps
  <2> QED  BY <1>1, <2>3, <2>4
<1>3. CASE /\ stored' = [stored EXCEPT ![<<Current, job.ok>>] = @ + 1]
           /\ job' = CASE job.at = "judged" -> NoJob
                       [] job.at = "observed" /\ job.ok -> AfterSuccess
                       [] OTHER -> AfterFailure
  <2>1. /\ job' = NoJob \/ (job.at = "observed" /\ (job' = AfterSuccess \/ job' = AfterFailure))
    BY <1>1, <1>3
  <2>2. JobType' /\ JobInv' /\ job'.at \notin {"observed", "judged"}
    <3>1. CASE job' = NoJob
      <4>1. JobType'
        BY <3>1, NoJobIs DEF JobType
      <4> QED  BY <3>1, <4>1, NoJobIs, IdleIs
    <3>2. CASE job.at = "observed" /\ job' = AfterSuccess
      BY <3>2, AfterSuccessIs
    <3>3. CASE job.at = "observed" /\ job' = AfterFailure
      BY <3>3, AfterFailureIs
    <3> QED  BY <2>1, <3>1, <3>2, <3>3
  <2>3. (job'.at # "idle" => job'.task = job.task) /\ job'.task \in {job.task, None}
    <3>1. CASE job' = NoJob
      BY <3>1 DEF NoJob
    <3>2. CASE job' # NoJob
      <4>1. /\ job' \in {[job EXCEPT !.at = "reviewing", !.reviewer = SelectReviewer(Author)],
                         [job EXCEPT !.at = "trying", !.tried = Append(@, job.list[Len(job.tried) + 1])]}
        BY <2>1, <3>2 DEF AfterSuccess, AfterFailure
      <4> QED  BY <4>1 DEF JobType, Jobs
    <3> QED  BY <3>1, <3>2
  <2>4. /\ up' = up /\ boots' = boots /\ cached' = cached /\ current' = current
        /\ available' = available /\ probing' = probing /\ score' = score
    BY <1>1 DEF registry
  <2> DEFINE c0 == <<Current, job.ok>>
  <2>5. c0 \in Candidates \X BOOLEAN
    BY <1>1, CurrentIs DEF JobType, Jobs
  <2>6. score \in [Candidates \X BOOLEAN -> Nat] /\ stored \in [Candidates \X BOOLEAN -> Nat]
    BY DEF RegistryType, Counters, Candidates
  <2>7. \A c : Owed(c) <=> c = c0
    BY <1>1 DEF Owed
  <2> HIDE DEF c0
  <2>8. /\ stored' \in [Candidates \X BOOLEAN -> Nat] /\ stored'[c0] = stored[c0] + 1
        /\ \A c \in Candidates \X BOOLEAN : c # c0 => stored'[c] = stored[c]
    BY <1>3, <2>5, <2>6 DEF c0
  <2>9. RegistryType'
    BY <2>4, <2>6, <2>8 DEF RegistryType, Counters, Candidates
  <2>10. CardInv'
    <3>1. ASSUME up, NEW c \in Candidates \X BOOLEAN
          PROVE  stored'[c] + (IF Owed(c)' THEN 1 ELSE 0) <= score[c]
      <4>1. ~Owed(c)'
        BY <2>2 DEF Owed
      <4>2. stored[c] \in Nat /\ score[c] \in Nat /\ stored[c] + (IF Owed(c) THEN 1 ELSE 0) <= score[c]
        BY <2>6, <3>1 DEF CardInv
      <4>3. CASE c = c0
        <5>1. stored[c] + 1 <= score[c] /\ stored'[c] = stored[c] + 1
          BY <2>7, <2>8, <4>2, <4>3
        <5> QED  BY <4>1, <4>2, <5>1
      <4>4. CASE c # c0
        <5>1. stored[c] + 0 <= score[c] /\ stored'[c] = stored[c]
          BY <2>7, <2>8, <4>2, <4>4
        <5> QED  BY <4>1, <4>2, <5>1
      <4> QED  BY <4>3, <4>4
    <3> QED  BY <2>4, <3>1 DEF CardInv
  <2>11. UpInv'
    BY <1>1, <2>4 DEF UpInv, RouterFollowsRegistry
  <2> QED  BY <1>1, <2>2, <2>3, <2>9, <2>10, <2>11
<1> QED  BY <1>2, <1>3 DEF Record

-----------------------------------------------------------------------------
(* The plan and the router together.                                       *)
LEMMA RouterSame ==
  ASSUME RouterInv, UNCHANGED rvars
  PROVE  RouterInv'
<1>1. /\ up' = up /\ boots' = boots /\ cached' = cached /\ current' = current
      /\ available' = available /\ probing' = probing /\ score' = score
      /\ stored' = stored /\ job' = job
  BY DEF rvars
<1>2. RegistryType' /\ JobType' /\ JobInv'
  BY <1>1 DEF RouterInv, RegistryType, JobType, JobInv
<1>3. CardInv'
  BY <1>1 DEF RouterInv, CardInv, Owed, Current
<1>4. UpInv'
  BY <1>1 DEF RouterInv, UpInv, RouterFollowsRegistry
<1> QED  BY <1>2, <1>3, <1>4 DEF RouterInv

LEMMA TasksSame ==
  ASSUME UNCHANGED gvars
  PROVE  TaskIds' = TaskIds
BY DEF gvars, plan, TaskIds

LEMMA DispatchStarts ==
  ASSUME Init
  PROVE  DispatchInv
<1>1. GInit /\ RInit /\ succeeded = {} /\ failed = {} /\ begun = 0
  BY DEF Init
<1>2. GraphInv
  BY <1>1, GraphStarts
<1>3. /\ up = FALSE /\ boots = 0 /\ cached = Pending /\ current = Pending
      /\ available = {} /\ probing = FALSE /\ job = NoJob
      /\ score = [c \in (Models \cup {Default}) \X BOOLEAN |-> 0] /\ stored = score
  BY <1>1 DEF RInit
<1>4. RegistryType
  <2>1. score \in Counters
    BY <1>3 DEF Counters
  <2>2. boots \in 0..MaxBoots
    BY <1>3, BoundAssumption
  <2>3. /\ cached \in Answers \cup {Pending} /\ current \in Answers \cup {Pending}
        /\ available \in SUBSET UNION Listings /\ stored \in Counters
    BY <1>3, <2>1
  <2>4. up \in BOOLEAN /\ probing \in BOOLEAN
    BY <1>3, Zenon
  <2> QED  BY <2>1, <2>2, <2>3, <2>4 DEF RegistryType
<1>5. JobType /\ JobInv
  BY <1>3, NoJobIs DEF JobType, JobInv
<1>6. CardInv /\ UpInv
  BY <1>3, NoJobIs DEF CardInv, UpInv, RouterFollowsRegistry
<1>7. RunInv
  <2>1. job.at = "idle" /\ job.task = None
    BY <1>3 DEF NoJob
  <2> QED  BY <1>1, <2>1, RoleAssumption DEF RunInv
<1> QED  BY <1>2, <1>4, <1>5, <1>6, <1>7 DEF DispatchInv, RouterInv

LEMMA PlanningKeeps ==
  ASSUME DispatchInv, Planning
  PROVE  DispatchInv'
<1>1. GNext /\ UNCHANGED rvars /\ UNCHANGED dvars
  BY DEF Planning
<1>2. GraphInv' /\ RouterInv'
  BY <1>1, GraphKeeps, RouterSame DEF DispatchInv
<1>3. UNCHANGED plan
  BY <1>1 DEF GNext, Root, Look, Leave, Validated, OrderRound
<1>4. TaskIds' = TaskIds
  BY <1>3, PlanSame
<1>5. RunInv'
  BY <1>1, <1>4 DEF DispatchInv, RunInv, dvars, rvars
<1> QED  BY <1>2, <1>5 DEF DispatchInv

LEMMA BeginKeeps ==
  ASSUME DispatchInv, Begin
  PROVE  DispatchInv'
<1> USE DEF DispatchInv
<1>1. /\ begun < MaxBegun /\ begun' = begun + 1 /\ UNCHANGED gvars
      /\ succeeded' = succeeded /\ failed' = failed
  BY DEF Begin
<1>2. PICK t \in TaskIds : CanBegin(t) /\ Route(t, RoleOf[t], t \in Risky)
  BY DEF Begin
<1>3. GraphInv' /\ TaskIds' = TaskIds
  BY <1>1, GraphKeeps, TasksSame
<1>4. t \in Ids /\ RoleOf[t] \in DOMAIN Preference /\ (t \in Risky) \in BOOLEAN
  <2>1. ids \in Seq(Ids)
    BY IdAssumption DEF GraphInv, GTypeOK
  <2>2. t \in Ids
    BY <2>1 DEF TaskIds, Range
  <2> QED  BY <2>2, RoleAssumption
<1>5. RouterInv' /\ job'.task = t
  BY <1>2, <1>4, RouteKeeps
<1>6. t \notin succeeded \cup failed
  BY <1>2 DEF CanBegin
<1>7. begun' \in 0..MaxBegun
  BY <1>1, RoleAssumption DEF RunInv
<1>8. RunInv'
  BY <1>1, <1>3, <1>5, <1>6, <1>7 DEF RunInv
<1> QED  BY <1>3, <1>5, <1>8

LEMMA CarryKeeps ==
  ASSUME DispatchInv, Carry
  PROVE  DispatchInv'
<1> USE DEF DispatchInv
<1>1. /\ DrawUp \/ Observe \/ Record
      /\ UNCHANGED gvars /\ begun' = begun
  BY DEF Carry
<1>2. GraphInv' /\ TaskIds' = TaskIds
  BY <1>1, GraphKeeps, TasksSame
<1>3. /\ RouterInv' /\ job.at # "idle" /\ job'.task \in {job.task, None}
      /\ job'.at # "idle" => job'.task = job.task
  BY <1>1, DrawUpKeeps, ObserveKeeps, RecordKeeps
<1>4. job.task \in TaskIds \ (succeeded \cup failed) /\ begun \in 0..MaxBegun
      /\ succeeded \subseteq TaskIds /\ failed \subseteq TaskIds \ succeeded
  BY <1>3 DEF RunInv
<1>5. CASE job'.at = "idle"
  <2>1. \/ succeeded' = succeeded \cup {job.task} /\ failed' = failed
        \/ failed' = failed \cup {job.task} /\ succeeded' = succeeded
    BY <1>3, <1>5 DEF Carry
  <2> QED  BY <1>1, <1>2, <1>3, <1>4, <1>5, <2>1 DEF RunInv
<1>6. CASE job'.at # "idle"
  <2>1. succeeded' = succeeded /\ failed' = failed
    BY <1>6 DEF Carry
  <2> QED  BY <1>1, <1>2, <1>3, <1>4, <1>6, <2>1 DEF RunInv
<1> QED  BY <1>2, <1>3, <1>5, <1>6

LEMMA ApplicationKeeps ==
  ASSUME DispatchInv, Application
  PROVE  DispatchInv'
<1> USE DEF DispatchInv
<1>1. /\ Boot \/ Probed \/ ProbeDies \/ Stop
      /\ UNCHANGED gvars /\ begun' = begun
  BY DEF Application
<1>2. GraphInv' /\ TaskIds' = TaskIds
  BY <1>1, GraphKeeps, TasksSame
<1>3. RouterInv' /\ job' \in {job, NoJob}
  BY <1>1, BootKeeps, ProbedKeeps, ProbeDiesKeeps, StopKeeps
  DEF Boot, Probed, ProbeDies, Stop
<1>4. job'.at # "idle" => up'
  BY <1>3 DEF RouterInv, UpInv
<1>5. NoJob.task = None /\ NoJob.at = "idle"
  BY DEF NoJob
<1>6. CASE up'
  <2>1. succeeded' = succeeded /\ failed' = failed
    BY <1>6 DEF Application
  <2> QED  BY <1>1, <1>2, <1>3, <1>5, <2>1 DEF RunInv
<1>7. CASE ~up'
  <2>1. succeeded' = {} /\ failed' = {}
    BY <1>7 DEF Application
  <2> QED  BY <1>1, <1>2, <1>3, <1>4, <1>5, <1>7, <2>1 DEF RunInv
<1> QED  BY <1>2, <1>3, <1>6, <1>7

LEMMA DispatchKeeps ==
  ASSUME DispatchInv, [Next]_vars
  PROVE  DispatchInv'
<1>1. CASE UNCHANGED vars
  <2>1. UNCHANGED gvars /\ UNCHANGED rvars /\ UNCHANGED dvars
    BY <1>1 DEF vars
  <2>2. GraphInv' /\ RouterInv' /\ TaskIds' = TaskIds
    BY <2>1, GraphKeeps, RouterSame, TasksSame DEF DispatchInv
  <2>3. RunInv'
    BY <2>1, <2>2 DEF DispatchInv, RunInv, dvars, rvars
  <2> QED  BY <2>2, <2>3 DEF DispatchInv
<1>2. CASE Next
  BY <1>2, PlanningKeeps, BeginKeeps, CarryKeeps, ApplicationKeeps DEF Next
<1> QED  BY <1>1, <1>2

LEMMA DispatchInvariant == Spec => []DispatchInv
<1>1. Init => DispatchInv
  BY DispatchStarts
<1>2. DispatchInv /\ [Next]_vars => DispatchInv'
  BY DispatchKeeps
<1> QED  BY <1>1, <1>2, PTL DEF Spec

-----------------------------------------------------------------------------
LEMMA TypeIs ==
  ASSUME DispatchInv
  PROVE  TypeOK
<1>1. RTypeOK
  BY RouterTyped DEF DispatchInv, RouterInv
<1> QED  BY <1>1 DEF DispatchInv, GraphInv, RunInv, TypeOK

LEMMA RoutingIs ==
  ASSUME DispatchInv
  PROVE  RoutingIsSound
<1> USE DEF DispatchInv, RouterInv
<1>1. RouterFollowsRegistry
  BY DEF UpInv
<1>2. NothingForgotten
  <2>1. ASSUME up, NEW c \in DOMAIN stored PROVE stored[c] <= score[c]
    <3>1. c \in Candidates \X BOOLEAN /\ stored[c] \in Nat /\ score[c] \in Nat
      BY DEF RegistryType, Counters, Candidates
    <3>2. stored[c] + (IF Owed(c) THEN 1 ELSE 0) <= score[c]
      BY <2>1, <3>1 DEF CardInv
    <3> QED  BY <3>1, <3>2
  <2> QED  BY <2>1 DEF NothingForgotten
<1>3. TriedOnce
  <2>1. CASE job.at \in {"idle", "routed"}
    <3>1. job.tried = <<>>
      BY <2>1 DEF JobInv
    <3> QED  BY <3>1, BoundAssumption DEF TriedOnce, IsInjective
  <2>2. CASE job.at \notin {"idle", "routed"}
    <3>1. /\ job.tried \in Seq(Candidates) /\ job.list \in Seq(Candidates)
          /\ Len(job.tried) \in 1..Len(job.list)
          /\ \A i \in DOMAIN job.tried : job.tried[i] = job.list[i]
          /\ IsInjective(job.list) /\ Len(job.list) <= 1 + MaxFallback
      BY <2>2 DEF JobType, Jobs, Steps, JobInv
    <3>2. \A i \in DOMAIN job.tried : i \in DOMAIN job.list
      BY <3>1
    <3>3. IsInjective(job.tried)
      BY <3>1, <3>2 DEF IsInjective
    <3> QED  BY <3>1, <3>3, BoundAssumption DEF TriedOnce
  <2> QED  BY <2>1, <2>2
<1>4. IndependentReview
  BY DEF JobInv, IndependentReview
<1> QED  BY <1>1, <1>2, <1>3, <1>4, TypeIs DEF RoutingIsSound

(* The plan: validate_dag accepts what has an order and refuses only what has   *)
(* none or names an id that is not there, dependency_aware_order finds an        *)
(* order exactly when there is one, scopes that overlap are reported and kept    *)
(* out of one batch but where only one of them is the root, and a run of an      *)
(* accepted plan always has a task to begin while nothing failed: for every      *)
(* plan, duplicate ids and cycles included.                                  *)
THEOREM PlanCorrect == Spec => []PlanIsSound
<1>1. DispatchInv => PlanIsSound
  BY PlanIs DEF DispatchInv, RunInv
<1> QED  BY <1>1, DispatchInvariant, PTL

(* The routing: for every roster, preference, listing and limit the router goes  *)
(* by the registry's last answer, the card never knows less than the table, no   *)
(* model is tried twice nor more than the limit, and the reviewer is of another  *)
(* provider than the model that did the work, after falling back too.           *)
THEOREM RoutingCorrect == Spec => []RoutingIsSound
<1>1. DispatchInv => RoutingIsSound
  BY RoutingIs
<1> QED  BY <1>1, DispatchInvariant, PTL
=============================================================================
