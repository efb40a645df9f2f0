------------------------------ MODULE Commands ------------------------------
(***************************************************************************)
(* The `atlas` commands that write (Python: cli.py; evolution/registry.py,       *)
(* site.py, intelligence.py): the index of the documents, the site built from      *)
(* them, the cost ledger and its summary.  Each is a process of its own that        *)
(* may be killed between two of its steps, while the documents are edited.       *)
(***************************************************************************)
EXTENDS Knowledge

CONSTANTS
  Corpora,     \* the documents a project may have
  Worked,      \* those the commands are run on
  Texts,       \* what may be at a path
  Edits,       \* what an edit may put there
  Procs, Tasks, Costs,
  MaxCommands, MaxChanges

ASSUME CorpusAssumption ==
  /\ Worked \subseteq Corpora /\ Corpora \subseteq [Path -> Texts] /\ Edits \subseteq Texts
  /\ \A c \in Texts \ {None, Broken} : IsDocument(c)
  /\ MaxCommands \in Nat /\ MaxChanges \in Nat
ASSUME CostAssumption == Costs \subseteq Nat /\ "torn" \notin Tasks

VARIABLES
  index,     \* index/registry.json and graph.json: the documents they were made of
  site,      \* the pages, search.json with index.html (the pages it lists), whether there are
             \* directories of pages, the marker
  lines,     \* ledger.jsonl: records, or a torn line
  summary,   \* project-summary.json
  proc, commands, changes,
  crossed    \* history: a build began while another was under way

products == <<index, site, lines, summary>>
counts == <<commands, changes, crossed>>
commandsVars == <<docs, products, proc, counts>>

NoSite == [pages |-> {}, search |-> {}, used |-> FALSE, marker |-> None]
AtRest == [at |-> "idle"]
Pages == Path \X Ranks
Records == [task : Tasks, tokens : Costs]
Torn == [task |-> "torn", tokens |-> 0]      \* a line that was cut
Garbled == [task |-> "torn", tokens |-> 1]   \* and one that continues it
Sums == [tasks : Nat, tokens : Nat]

Indexing == [at : {"load"}, checked : BOOLEAN]
            \cup [at : {"registry", "graph"}, seen : [Path -> Texts], checked : BOOLEAN]
Building == [at : {"prepare", "unlink", "page", "rest", "mark"}, vis : Ranks,
             seen : SUBSET Pages, left : SUBSET Pages, old : SUBSET Path]
Counting == [at : {"append"}, record : Records] \cup [at : {"summary"}, totals : Sums]

CommandsTypeOK ==
  /\ docs \in [Path -> Texts]
  /\ DOMAIN site = DOMAIN NoSite /\ site.pages \subseteq Pages
  /\ site.search \subseteq SUBSET Pages
  /\ site.used \in BOOLEAN
  /\ site.marker \in {None} \cup [files : SUBSET Path, vis : Ranks]
  /\ lines \in Seq(Records \cup {Torn, Garbled})
  /\ \A i \in DOMAIN lines : lines[i] = Torn => i = Len(lines)
  /\ summary \in {None} \cup Sums
  /\ proc \in [Procs -> {AtRest} \cup Indexing \cup Building \cup Counting]
  /\ commands \in 0..MaxCommands /\ changes \in 0..MaxChanges /\ crossed \in BOOLEAN

CommandsInit ==
  /\ docs \in Corpora
  /\ index = [registry |-> None, graph |-> None]
  /\ site = NoSite /\ lines = <<>> /\ summary = None
  /\ proc = [p \in Procs |-> AtRest] /\ changes = 0 /\ crossed = FALSE
  /\ commands = IF docs \in Worked THEN 0 ELSE MaxCommands

EditDocument ==
  /\ changes < MaxChanges /\ changes' = changes + 1 /\ commands < MaxCommands
  /\ \E p \in Path, c \in Edits : c # docs[p] /\ docs' = [docs EXCEPT ![p] = c]
  /\ UNCHANGED <<products, proc, commands, crossed>>

Goto(p, at) == proc' = [proc EXCEPT ![p].at = at]
End(p) == proc' = [proc EXCEPT ![p] = AtRest]
IsBuilding(p) == proc[p].at \in {"prepare", "unlink", "page", "rest", "mark"}
Begin(p, new) ==
  /\ proc[p].at = "idle" /\ commands < MaxCommands /\ commands' = commands + 1
  /\ proc' = [proc EXCEPT ![p] = new]
  /\ crossed' = (crossed \/ (new.at = "prepare" /\ \E q \in Procs : IsBuilding(q)))
  /\ UNCHANGED <<docs, products, changes>>

(* A command is killed.                                                     *)
Kill(p) == proc[p].at # "idle" /\ End(p) /\ UNCHANGED <<docs, products, counts>>

----------------------------------------------------------------------------
(* validate --write: the index is written when the report has no error.  graph   *)
(* --write does not ask.  write_project_index reads the documents for itself.    *)
Validate(p) == Valid(docs) /\ Begin(p, [at |-> "load", checked |-> TRUE])
Graph(p) == Readable(docs) /\ Begin(p, [at |-> "load", checked |-> FALSE])

LoadIndex(p) ==
  /\ proc[p].at = "load"
  /\ IF Readable(docs)
     THEN proc' = [proc EXCEPT ![p] = [at |-> "registry", seen |-> docs, checked |-> @.checked]]
     ELSE End(p)
  /\ UNCHANGED <<docs, products, counts>>

(* Each file is replaced by a complete one, the registry first.                *)
WriteIndex(p) ==
  \/ /\ proc[p].at = "registry" /\ index' = [index EXCEPT !.registry = proc[p].seen]
     /\ Goto(p, "graph") /\ UNCHANGED <<docs, site, lines, summary, counts>>
  \/ /\ proc[p].at = "graph" /\ index' = [index EXCEPT !.graph = proc[p].seen]
     /\ End(p) /\ UNCHANGED <<docs, site, lines, summary, counts>>

----------------------------------------------------------------------------
(* build_site: the documents the requested visibility permits.                 *)
VisiblePages(d, v) ==
  {<<p, VisibilityOf(d, p)>> : p \in {q \in Written(d) : VisibilityOf(d, q) <= v}}

Build(p) ==
  \E v \in Ranks :
    /\ Readable(docs)
    /\ Begin(p, [at |-> "prepare", vis |-> v, seen |-> VisiblePages(docs, v),
                 left |-> VisiblePages(docs, v), old |-> {}])

(* Mutant: the pages of the earlier build stay until they are written over.      *)
KeptPages(pages, old) == {}

(* The pages among what the marker lists.                                     *)
Listed(pages, old) == {g \in pages : g[1] \in old}

Refused == site.marker = None /\ (site.used \/ site.search # {})

(* _prepare_output: a directory that is not empty and has no marker is refused.  *)
Prepare(p) ==
  /\ proc[p].at = "prepare"
  /\ CASE Refused -> End(p)
       [] ~Refused /\ site.marker = None -> Goto(p, "page")
       [] OTHER -> proc' = [proc EXCEPT ![p].at = "unlink", ![p].old = site.marker.files]
  /\ UNCHANGED <<docs, products, counts>>

(* What the marker listed goes file by file, the marker last; the directories of  *)
(* the pages stay.                                                          *)
Unlink(p) ==
  /\ proc[p].at = "unlink"
  /\ LET listed == Listed(site.pages, proc[p].old) IN
     \/ \E g \in listed : site' = [site EXCEPT !.pages = @ \ {g}] /\ UNCHANGED proc
     \/ site.search # {} /\ site' = [site EXCEPT !.search = {}] /\ UNCHANGED proc
     \/ /\ listed = {} /\ site.search = {}
        /\ site' = [site EXCEPT !.marker = None] /\ Goto(p, "page")
  /\ UNCHANGED <<docs, index, lines, summary, counts>>

Publish(p) ==
  /\ \/ /\ proc[p].at = "page" /\ proc[p].left # {}
        /\ \E g \in proc[p].left :
             /\ site' = [site EXCEPT !.pages = {h \in @ : h[1] # g[1]} \cup {g}, !.used = TRUE]
             /\ proc' = [proc EXCEPT ![p].left = @ \ {g}]
     \/ proc[p].at = "page" /\ proc[p].left = {} /\ Goto(p, "rest") /\ UNCHANGED site
     \/ /\ proc[p].at = "rest" /\ Goto(p, "mark")
        /\ site' = [site EXCEPT !.search = {proc[p].seen}]
     \/ /\ proc[p].at = "mark" /\ End(p)
        /\ site' = [site EXCEPT !.marker = [files |-> {g[1] : g \in proc[p].seen},
                                            vis |-> proc[p].vis]]
  /\ UNCHANGED <<docs, index, lines, summary, counts>>

----------------------------------------------------------------------------
(* cost task: one line is appended; a disk that fills up cuts it.               *)
Cost(p) == \E r \in Records : Begin(p, [at |-> "append", record |-> r])

(* Mutant: a line after a cut one is a line of its own.                      *)
AppendedApart(l, line) == Append(l, line)

(* A line after a cut one continues it.                                      *)
Appended(l, line) ==
  IF l = <<>> \/ l[Len(l)] # Torn THEN Append(l, line)
  ELSE [l EXCEPT ![Len(l)] = IF line = Torn THEN Torn ELSE Garbled]

AppendCost(p) ==
  /\ proc[p].at = "append" /\ End(p)
  /\ \E line \in {proc[p].record, Torn} : lines' = Appended(lines, line)
  /\ UNCHANGED <<docs, index, site, summary, counts>>

(* Mutant: every record is an entry of its own.                               *)
EveryRecord(l) == DOMAIN l

(* build_summary's dictionary: a task has its entry where it first came, ...     *)
Entries(l) == {i \in DOMAIN l : \A j \in 1..(i - 1) : l[j].task # l[i].task}

(* ... with the record that came last.                                       *)
Latest(l, t) == l[Max({i \in DOMAIN l : l[i].task = t})]

Totals(l) ==
  [tasks |-> Cardinality(Entries(l)),
   tokens |-> SumOf([i \in DOMAIN l |->
                       IF i \in Entries(l) THEN Latest(l, l[i].task).tokens ELSE 0])]

(* _read_jsonl: every line is a record, or the command fails.                  *)
LedgerReadable == Range(lines) \cap {Torn, Garbled} = {}

(* cost project --write, intelligence summary --write: a line that is no record   *)
(* ends the command.                                                        *)
Summarise(p) ==
  /\ Readable(docs) /\ LedgerReadable
  /\ Begin(p, [at |-> "summary", totals |-> Totals(lines)])

WriteSummary(p) ==
  /\ proc[p].at = "summary" /\ End(p) /\ summary' = proc[p].totals
  /\ UNCHANGED <<docs, index, site, lines, counts>>

CommandsNext ==
  \/ EditDocument
  \/ \E p \in Procs :
       \/ Validate(p) \/ Graph(p) \/ LoadIndex(p) \/ WriteIndex(p) \/ Build(p) \/ Prepare(p)
       \/ Unlink(p) \/ Publish(p) \/ Cost(p) \/ AppendCost(p) \/ Summarise(p) \/ WriteSummary(p)
       \/ Kill(p)

CommandsSpec == CommandsInit /\ [][CommandsNext]_commandsVars

----------------------------------------------------------------------------
Shown == site.pages \cup UNION site.search

(* A finished site shows nothing its build was not asked for, whatever earlier     *)
(* builds, interrupted ones among them, had put there, and whatever other        *)
(* commands run beside it, as long as no two builds do.                       *)
SiteWithinVisibility ==
  ~crossed /\ site.marker # None =>
    \A g \in Shown : g[1] \in site.marker.files /\ g[2] <= site.marker.vis

(* The code does not keep this: nothing stops a second build of the same site.     *)
SiteAlwaysWithin ==
  site.marker # None =>
    \A g \in Shown : g[1] \in site.marker.files /\ g[2] <= site.marker.vis

(* The summary is what the ledger said at some time, each task counted once by     *)
(* the record that was its last.                                            *)
SummaryCountsOnce ==
  summary # None => \E n \in 0..Len(lines) :
    LET final == {i \in 1..n : \A j \in (i + 1)..n : lines[j].task # lines[i].task}
    IN /\ summary.tasks = Cardinality(final)
       /\ summary.tokens = SumOf([i \in 1..n |-> IF i \in final THEN lines[i].tokens ELSE 0])

(* Nothing has been written, and no command is under way.                     *)
Fresh == /\ \A p \in Procs : proc[p] = AtRest
         /\ index.registry = None /\ site = NoSite /\ lines = <<>>

(* What plan_context and analyze_impact answer.  They read the documents and        *)
(* nothing else, so it is enough to ask of each corpus while it is fresh.        *)
AnswersAreExact ==
  CommandsTypeOK /\ (Fresh => ImpactIsExact /\ BudgetIsKept /\ RequiredOnce)

(* site.py:56: a directory that holds a generated site is not refused.           *)
NeverRefused == \A p \in Procs : proc[p].at = "prepare" => ~Refused

(* validate --write writes the index of documents it found valid.              *)
IndexIsValid ==
  \A p \in Procs : proc[p].at = "registry" /\ proc[p].checked => Valid(proc[p].seen)

============================================================================
