----------------------------- MODULE TaskGraph -----------------------------
(***************************************************************************)
(* The planner's graph (Python: planner/dag.py, planner/worktree.py).        *)
(* A plan is a list of nodes: an id, the ids it depends on, the paths it may   *)
(* write.  validate_dag colours the graph depth first, as the steps below do;   *)
(* dependency_aware_order builds its order round by round; conflicts and        *)
(* batches are found in one pass over the scopes.                             *)
(***************************************************************************)
EXTENDS Naturals, FiniteSets, SequencesExt

CONSTANTS
  Ids,       \* the ids of the plan's nodes
  Unknown,   \* an id no node has
  IdLists,   \* the lists of ids a plan may have: an id may come twice
  Paths,     \* paths a scope may name, as sequences of segments
  Scopes,    \* the write scopes a node may have
  Ops        \* what the caller asks for: "validate", "order", "scopes"

ASSUME IdAssumption == Unknown \notin Ids /\ IdLists \subseteq Seq(Ids)
                       /\ Ops \subseteq {"validate", "order", "scopes"}
(* strip("/") and split("/"): only the first segment of "" itself is empty.    *)
ASSUME PathAssumption ==
  /\ Paths \subseteq Seq(STRING) \ {<<>>} /\ {} \in Scopes /\ Scopes \subseteq SUBSET Paths
  /\ \A p \in Paths : Head(p) = "" => p = <<"">>

VARIABLES
  ids, deps, scope,  \* the plan
  at,                \* where the call is, or its outcome
  color, stack, left,\* the search: left is what a node has yet to look at
  missing, cycle,    \* validate_dag's errors
  order              \* dependency_aware_order's result so far

plan == <<ids, deps, scope>>
search == <<color, stack, left>>
gvars == <<plan, at, search, missing, cycle, order>>

Nodes == DOMAIN ids
TaskIds == Range(ids)

(* The dictionaries of validate_dag and _materialize are keyed by id: of two   *)
(* nodes with one id the later one counts.                                   *)
NodeOf(t) == Max({n \in Nodes : ids[n] = t})
Adj(t) == deps[NodeOf(t)]

GTypeOK ==
  /\ ids \in IdLists /\ deps \in [Nodes -> SUBSET (Ids \cup {Unknown})]
  /\ scope \in [Nodes -> Scopes]
  /\ at \in {"validate", "order", "scopes", "valid", "refused", "ordered", "unordered"}
  /\ color \in [TaskIds -> {"white", "gray", "black"}]
  /\ IsInjective(stack) /\ Range(stack) = {t \in TaskIds : color[t] = "gray"}
  /\ left \in [TaskIds -> SUBSET (Ids \cup {Unknown})]
  /\ missing \subseteq Nodes \X (Ids \cup {Unknown}) /\ cycle \in BOOLEAN
  /\ order \in Seq(Nodes) /\ IsInjective(order)

GInit ==
  /\ ids \in IdLists /\ at \in Ops
  /\ deps \in [Nodes -> SUBSET (Ids \cup {Unknown})]
  /\ IF at = "scopes" THEN scope \in [Nodes -> Scopes] /\ UNION Range(deps) \subseteq TaskIds
                      ELSE scope = [n \in Nodes |-> {}]
  /\ color = [t \in TaskIds |-> "white"] /\ stack = <<>>
  /\ left = [t \in TaskIds |-> {}]
  /\ missing = {e \in Nodes \X (Ids \cup {Unknown}) :
                  at = "validate" /\ e[2] \in deps[e[1]] \ TaskIds}
  /\ cycle = FALSE /\ order = <<>>

----------------------------------------------------------------------------
(* validate_dag: one search from every white id, in the set's order.          *)
Push(t) ==
  /\ color' = [color EXCEPT ![t] = "gray"]
  /\ stack' = Append(stack, t)
  /\ left' = [left EXCEPT ![t] = Adj(t)]

Root ==
  /\ at = "validate" /\ ~cycle /\ stack = <<>>
  /\ \E t \in TaskIds : color[t] = "white" /\ Push(t)
  /\ UNCHANGED <<plan, at, missing, cycle, order>>

Mark(d) == IF d \in TaskIds THEN color[d] ELSE "unknown"

(* Mutant: an id that has been left counts as met again.                      *)
ClosesNotWhite(d) == Mark(d) \in {"gray", "black"}

(* Mutant: only a node that depends on itself is a cycle.                     *)
ClosesItself(d) == d = Last(stack)

Closes(d) == Mark(d) = "gray"

Look ==
  /\ at = "validate" /\ ~cycle /\ stack # <<>>
  /\ \E d \in left[Last(stack)] :
       LET rest == [left EXCEPT ![Last(stack)] = @ \ {d}] IN
       \/ /\ Closes(d) /\ cycle' = TRUE /\ UNCHANGED search
       \/ /\ ~Closes(d) /\ Mark(d) # "white"
          /\ left' = rest /\ UNCHANGED <<color, stack, cycle>>
       \/ /\ ~Closes(d) /\ Mark(d) = "white"
          /\ color' = [color EXCEPT ![d] = "gray"] /\ stack' = Append(stack, d)
          /\ left' = [rest EXCEPT ![d] = Adj(d)] /\ UNCHANGED cycle
  /\ UNCHANGED <<plan, at, missing, order>>

(* Mutant: a node is left without being coloured.                            *)
LeaveGray ==
  /\ at = "validate" /\ ~cycle /\ stack # <<>> /\ left[Last(stack)] = {}
  /\ stack' = Front(stack)
  /\ UNCHANGED <<plan, at, color, left, missing, cycle, order>>

Leave ==
  /\ at = "validate" /\ ~cycle /\ stack # <<>> /\ left[Last(stack)] = {}
  /\ color' = [color EXCEPT ![Last(stack)] = "black"] /\ stack' = Front(stack)
  /\ UNCHANGED <<plan, at, left, missing, cycle, order>>

Validated ==
  /\ at = "validate"
  /\ cycle \/ (stack = <<>> /\ \A t \in TaskIds : color[t] # "white")
  /\ at' = IF cycle \/ missing # {} THEN "refused" ELSE "valid"
  /\ UNCHANGED <<plan, search, missing, cycle, order>>

----------------------------------------------------------------------------
(* dependency_aware_order: each round appends what has become ready.          *)
Completed == {ids[n] : n \in Range(order)}

(* Mutant: a task is ready when one of its dependencies is done.              *)
ReadyOnAny(n) == deps[n] = {} \/ deps[n] \cap Completed # {}

Ready(n) == deps[n] \subseteq Completed

(* s with the nodes of R after it, in the order of the plan.                  *)
Extended(s, R) ==
  LET grown[n \in 0..Len(ids)] ==
        IF n = 0 THEN s
        ELSE IF n \in R THEN Append(grown[n - 1], n) ELSE grown[n - 1]
  IN grown[Len(ids)]

OrderRound ==
  /\ at = "order"
  /\ LET remaining == Nodes \ Range(order)
         ready == {n \in remaining : Ready(n)}
     IN /\ order' = Extended(order, ready)
        /\ at' = CASE remaining = {} -> "ordered"
                   [] remaining # {} /\ ready = {} -> "unordered"
                   [] OTHER -> "order"
  /\ UNCHANGED <<plan, search, missing, cycle>>

----------------------------------------------------------------------------
(* _are_concurrent, _shared_prefix, detect_write_scope_conflicts: a pair of    *)
(* nodes is reported when neither names the other and two paths share a         *)
(* directory.  "" splits into one empty segment, and joins to nothing: it is     *)
(* never shared.  A pair is reported by its ids.                              *)
Concurrent(m, n) == ids[m] \notin deps[n] /\ ids[n] \notin deps[m]

(* Mutant: only a common path is a conflict.                                 *)
SameOnly(p, q) == p = q

Shares(p, q) == Head(p) = Head(q) /\ Head(p) # ""

Clashing(m, n) == /\ m < n /\ Concurrent(m, n)
                  /\ \E p \in scope[m], q \in scope[n] : Shares(p, q)

Conflicts == {e \in TaskIds \X TaskIds :
                \E m, n \in Nodes : e = <<ids[m], ids[n]>> /\ Clashing(m, n)}

(* Mutant: only the first scope is asked whether it contains the other.       *)
CoexistOneWay(S, T) == \A p \in S, q \in T : ~IsPrefix(p, q)

(* WorktreePolicy.can_coexist                                               *)
CanCoexist(S, T) == \A p \in S, q \in T : ~IsPrefix(p, q) /\ ~IsPrefix(q, p)

(* partition_parallel_safe: the first batch whose members all coexist.  Its      *)
(* dictionary has an id once, where it first came, with its last scope.        *)
ScopeOf(t) == scope[NodeOf(t)]

Put(batches, t) ==
  LET fit == {i \in DOMAIN batches :
                \A u \in batches[i] : CanCoexist(ScopeOf(t), ScopeOf(u))}
  IN IF fit = {} THEN Append(batches, {t})
     ELSE [batches EXCEPT ![Min(fit)] = @ \cup {t}]

(* The batches once the first n nodes have been looked at.                    *)
Placed[n \in 0..Len(ids)] ==
  IF n = 0 THEN <<>>
  ELSE IF \E m \in 1..(n - 1) : ids[m] = ids[n] THEN Placed[n - 1]
  ELSE Put(Placed[n - 1], ids[n])

Batches == Placed[Len(ids)]

GNext == Root \/ Look \/ Leave \/ Validated \/ OrderRound

----------------------------------------------------------------------------
(* What the calls are for.  A set of nodes is stuck when each of them waits     *)
(* for an id that only nodes of the set provide, or none.                     *)
Stuck(S) == S # {} /\ \A n \in S : \E d \in deps[n] : \A m \in Nodes : ids[m] = d => m \in S
NoneStuck == \A S \in SUBSET Nodes : ~Stuck(S)

(* A file is within a path that is a prefix of its own, and within the root.    *)
RootScope == <<"">>
Within(f, p) == p = RootScope \/ IsPrefix(p, f)
Overlap(S, T) == \E f \in Paths, p \in S, q \in T : Within(f, p) /\ Within(f, q)
BelowRoot(S) == S \ {RootScope}

(* m comes, at some remove, after n: n is in every set of nodes that has what    *)
(* m depends on and, of each of its nodes, what that depends on.               *)
Needs(m) == {n \in Nodes : ids[n] \in deps[m]}
After(m, n) ==
  \A R \in SUBSET Nodes : Needs(m) \subseteq R /\ (\A k \in R : Needs(k) \subseteq R) => n \in R

(* A plan that validate_dag accepts can be carried out: every task of it is     *)
(* in time the turn of its dependencies, also where an id comes twice.         *)
AcceptedHasOrder == at = "valid" => NoneStuck

(* validate_dag refuses a plan only for a cycle or an id that is not there:     *)
(* two ways to one dependency are not a cycle.                               *)
RefusedForCause ==
  at = "refused" =>
    \/ (UNION Range(deps)) \ TaskIds # {}
    \/ \E S \in SUBSET TaskIds : S # {} /\ \A t \in S : Adj(t) \cap S # {}

(* dependency_aware_order finds an order exactly when there is one, with every   *)
(* node once and after a node of each id it names.                            *)
OrderIsExact ==
  /\ at = "unordered" => ~NoneStuck
  /\ at = "ordered" =>
       /\ NoneStuck /\ Range(order) = Nodes
       /\ \A i \in DOMAIN order : \A d \in deps[order[i]] :
            \E j \in 1..(i - 1) : ids[order[j]] = d

(* Two tasks that may run at once and may write one file are reported, unless    *)
(* one of them may write it only because its scope is the root.               *)
OverlapIsReported ==
  at = "scopes" =>
    \A m, n \in Nodes :
      /\ m < n /\ ~After(m, n) /\ ~After(n, m)
      /\ Overlap(BelowRoot(scope[m]), BelowRoot(scope[n]))
      => <<ids[m], ids[n]>> \in Conflicts

(* Every task is in one batch.  Two tasks of a batch can write one file only     *)
(* where the root is the scope of one of them, and not of the other.           *)
BatchesAreDisjoint ==
  at = "scopes" =>
    /\ \A t \in TaskIds : \E i \in DOMAIN Batches :
         t \in Batches[i] /\ \A j \in DOMAIN Batches : t \in Batches[j] => j = i
    /\ \A i \in DOMAIN Batches : \A s, t \in Batches[i] :
         s # t /\ Overlap(ScopeOf(s), ScopeOf(t)) =>
           /\ (RootScope \in ScopeOf(s)) # (RootScope \in ScopeOf(t))
           /\ ~Overlap(BelowRoot(ScopeOf(s)), BelowRoot(ScopeOf(t)))

(* "A scope that contains another is treated as overlapping": the code does not  *)
(* keep this, can_coexist lets a task whose scope is the root run beside any.   *)
RootKeptApart ==
  at = "scopes" =>
    \A i \in DOMAIN Batches : \A s, t \in Batches[i] :
      s # t => ~Overlap(ScopeOf(s), ScopeOf(t))
============================================================================
