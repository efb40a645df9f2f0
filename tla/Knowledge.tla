----------------------------- MODULE Knowledge -----------------------------
(***************************************************************************)
(* The project's documents and what is derived from them (Python: evolution/   *)
(* documents.py, registry.py, validation.py, context.py).  Every command         *)
(* parses all documents anew; registry, graph, context plan and impact report     *)
(* are functions of what it read.                                           *)
(***************************************************************************)
EXTENDS Naturals, FiniteSets, SequencesExt

CONSTANTS
  Paths,     \* the documents' paths, in the order discovery sorts them
  Atlas,     \* the one of them that is docs/ATLAS.md
  Slug,      \* the id derived from a path: all but letters and digits is "-"
  Legacy,    \* the visibility a document without front matter gets
  Required, Optional,    \* the references of the task map found for the intent
  Include, PackOptional, \* those of the context pack found for it
  Stripped,  \* what lstrip("./") leaves of a reference
  Budgets,   \* [target, max]
  None, Broken

Path == Range(Paths)
Public == 0
Internal == 1
Private == 2
Ranks == {Public, Internal, Private}

ASSUME PathsAssumption == /\ Paths \in Seq(Path) /\ IsInjective(Paths)
                          /\ Atlas \in Path /\ None \notin Path
                          /\ Legacy \in [Path -> Ranks]
ASSUME ReferenceAssumption == \A refs \in {Required, Optional, Include, PackOptional} :
                                refs \in Seq(Range(refs)) /\ Range(refs) \subseteq DOMAIN Stripped
ASSUME BudgetAssumption ==
  \A b \in Budgets : b.target \in Nat \ {0} /\ b.max \in Nat /\ b.max >= b.target

VARIABLE docs     \* what is at each path: None, Broken, or a document

(* A document: front matter or none, the id and visibility it declares (or      *)
(* None), the tokens it declares (0: none) and those estimated from its body,    *)
(* how often it matches the intent, the ids it is related to, the paths it names.*)
IsDocument(c) == /\ c.front \in BOOLEAN /\ c.vis \in Ranks \cup {None}
                 /\ c.declared \in Nat /\ c.body \in Nat \ {0} /\ c.hits \in Nat

Written(d) == {p \in Path : d[p] # None}
Readable(d) == \A p \in Written(d) : d[p] # Broken

----------------------------------------------------------------------------
(* parse_document                                                           *)
IdOf(d, p) == IF d[p].front /\ d[p].id # None THEN d[p].id ELSE Slug[p]

VisibilityOf(d, p) ==
  CASE ~d[p].front -> Legacy[p]
    [] d[p].front /\ d[p].vis = None -> Internal
    [] OTHER -> d[p].vis

Tokens(d, p) == IF d[p].front /\ d[p].declared # 0 THEN d[p].declared ELSE d[p].body
Related(d, p) == IF d[p].front THEN d[p].related ELSE {}

(* A dictionary filled from the registry in the order of the paths: of the       *)
(* entries under one key the last one stays.                                *)
LastIn(S) ==
  LET at == {i \in DOMAIN Paths : Paths[i] \in S} IN IF at = {} THEN None ELSE Paths[Max(at)]

(* registry_lookup: by id and by path; analyze_impact's doc_by_id: by id only.   *)
Found(d, ref) == LastIn({p \in Written(d) : ref \in {IdOf(d, p), p}})
ById(d, id) == LastIn({p \in Written(d) : IdOf(d, p) = id})

(* _resolve_reference: as it is given, or without its leading dots and slashes.  *)
Lookup(d, ref) == IF Found(d, ref) # None THEN Found(d, ref) ELSE Found(d, Stripped[ref])

(* build_graph                                                              *)
Edges(d) == UNION {{<<IdOf(d, p), t>> : t \in Related(d, p)} : p \in Written(d)}

Duplicate(d) == \E p, q \in Written(d) : p # q /\ IdOf(d, p) = IdOf(d, q)

(* validate_project: what is an error; a reference to nothing is a warning.     *)
Valid(d) == Readable(d) /\ ~Duplicate(d)

----------------------------------------------------------------------------
(* plan_context                                                             *)
Item(id, p, t) == [id |-> id, path |-> p, tokens |-> t]

ItemFor(d, ref) ==
  LET p == Lookup(d, ref) IN
  IF p = None THEN Item(ref, None, 0) ELSE Item(IdOf(d, p), p, Tokens(d, p))

Referred(d, refs) == [n \in DOMAIN refs |-> ItemFor(d, refs[n])]

(* _add_unique                                                              *)
AddUnique(items, item) ==
  IF \E i \in DOMAIN items : items[i].id = item.id THEN items ELSE Append(items, item)

Added(items, offers) ==
  LET grown[n \in 0..Len(offers)] ==
        IF n = 0 THEN items ELSE AddUnique(grown[n - 1], offers[n])
  IN grown[Len(offers)]

(* The project's contract and router come first, by their paths.              *)
Agents == "AGENTS.md"
Contract(d) == IF d[Atlas] = None THEN <<Item(Agents, Agents, 1)>>
               ELSE <<Item(Agents, Agents, 1), Item(Atlas, Atlas, d[Atlas].body)>>

Chosen(d) == Added(Contract(d), Referred(d, Required \o Include))

(* Mutant: a match is added although it is required already.                  *)
EveryMatch(d) == {p \in Written(d) : d[p].hits > 0}

(* What matches the intent and is not required already.                       *)
Matching(d) ==
  LET chosen == Chosen(d) IN
  {p \in Written(d) : d[p].hits > 0 /\ \A i \in DOMAIN chosen : chosen[i].id # IdOf(d, p)}

(* The best match first, and of equal ones the one whose path is first.         *)
Ranked(d, s, p) ==
  LET better == {i \in DOMAIN s : d[s[i]].hits >= d[p].hits}
      k == IF better = {} THEN 0 ELSE Max(better)
  IN SubSeq(s, 1, k) \o <<p>> \o SubSeq(s, k + 1, Len(s))

Hits(d) ==
  LET M == Matching(d)
      ranked[n \in 0..Len(Paths)] ==
        IF n = 0 THEN <<>>
        ELSE IF Paths[n] \in M THEN Ranked(d, ranked[n - 1], Paths[n]) ELSE ranked[n - 1]
  IN ranked[Len(Paths)]

Matched(d) ==
  LET hits == Hits(d) IN
  [n \in DOMAIN hits |-> Item(IdOf(d, hits[n]), hits[n], Tokens(d, hits[n]))]

Offered(d) == Added(<<>>, Referred(d, Optional \o PackOptional) \o Matched(d))

(* The sum of a sequence of numbers.                                         *)
SumOf(f) ==
  LET sum[n \in 0..Len(f)] == IF n = 0 THEN 0 ELSE sum[n - 1] + f[n] IN sum[Len(f)]

Total(items) == SumOf([i \in DOMAIN items |-> items[i].tokens])

(* Mutant: optional documents fill the budget to its maximum.                 *)
RoomToMax(b) == b.max

(* Optional documents are taken in their order while they fit the target.       *)
Room(b) == b.target

Taken(d, b) ==
  LET offered == Offered(d)
      before == Total(Chosen(d))
      fits == {n \in 1..Len(offered) : before + Total(SubSeq(offered, 1, n)) <= Room(b)}
  IN SubSeq(offered, 1, IF fits = {} THEN 0 ELSE Max(fits))

(* Mutant: only what the pack includes is measured against the maximum.         *)
OverrunByPack(d, b) == Total(Added(<<>>, Referred(d, Include))) > b.max

(* "required-context-exceeds-budget"                                         *)
Overrun(d, b) == Total(Chosen(d)) > b.max

----------------------------------------------------------------------------
(* Mutant: an edge is followed from its source only.                         *)
NeighborsAhead(d, id) == {e[2] : e \in {x \in Edges(d) : x[1] = id}}

(* analyze_impact, of one path                                              *)
Neighbors(d, id) == {e[2] : e \in {x \in Edges(d) : x[1] = id}}
                    \cup {e[1] : e \in {x \in Edges(d) : x[2] = id /\ x[1] # id}}

ImpactRead(d, p) == IF p \in Written(d) THEN {ById(d, IdOf(d, p))} ELSE {}
ImpactPossible(d, p) ==
  ({ById(d, id) : id \in IF p \in Written(d) THEN Neighbors(d, IdOf(d, p)) ELSE {}} \ {None})
  \cup {q \in Written(d) : p \in d[q].names}

----------------------------------------------------------------------------
(* A report of what changed is about the files that changed, and about every     *)
(* document related to them in either direction, when validation has no error.   *)
ImpactIsExact ==
  Valid(docs) => \A p \in Written(docs) :
    /\ ImpactRead(docs, p) = {p}
    /\ \A q \in Written(docs) \ {p} :
         IdOf(docs, q) \in Related(docs, p) \/ IdOf(docs, p) \in Related(docs, q)
           => q \in ImpactPossible(docs, p)

(* What is optional never takes a context over its target, and a context that is  *)
(* over its maximum says so.                                                *)
BudgetIsKept ==
  Readable(docs) => \A b \in Budgets :
    LET taken == Taken(docs, b)
        total == Total(Chosen(docs)) + Total(taken)
    IN /\ taken # <<>> => total <= b.target
       /\ total > b.max <=> Overrun(docs, b)

(* Nothing is declared as the path of a file that a context names by its path.   *)
(* validate_project does not ask for it.                                    *)
Unambiguous(d) == \A p \in Written(d) : IdOf(d, p) \notin {Agents, Atlas}

(* A document required by either list is in the context, and one that is in it   *)
(* is not offered again for its matches.                                    *)
RequiredOnce ==
  Valid(docs) =>
    LET chosen == Chosen(docs)
        offered == Offered(docs)
        Named(refs) == {Lookup(docs, ref) : ref \in Range(refs)}
    IN /\ Unambiguous(docs) =>
            Named(Required \o Include) \ {None} \subseteq {chosen[i].path : i \in DOMAIN chosen}
       /\ \A i \in DOMAIN offered, j \in DOMAIN chosen :
            chosen[j].id = offered[i].id => offered[i].path \in Named(Optional \o PackOptional)

(* No file is in a context twice.                                           *)
NoFileTwice ==
  Valid(docs) =>
    \A b \in Budgets : LET all == Chosen(docs) \o Taken(docs, b) IN
    \A i, j \in DOMAIN all : i # j /\ all[i].path = all[j].path => all[i].path = None
============================================================================
