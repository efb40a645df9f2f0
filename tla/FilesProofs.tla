----------------------------- MODULE FilesProofs -----------------------------
(***************************************************************************)
(* What the two components of the server that keep their state in files    *)
(* guarantee, beside people who edit the same files by hand.                *)
(*                                                                         *)
(* GoalFiles, for any Goals, gates and threads: the cache of the Goal files *)
(* is never stale, and the evidence of a Goal decides what is done with it. *)
(*                                                                         *)
(* Settings, for any keys, files and number of requests at once: the screen *)
(* shows what a restart would load, a request that nobody crosses does all  *)
(* of what it was asked or nothing, and no write makes the configuration    *)
(* unloadable.                                                              *)
(***************************************************************************)
EXTENDS GoalFiles, Settings, TLAPS


(* Records as they are between the actions.                                *)
Entries == [at : {"cached"}, sig : Mtimes, context : [Goals -> Content]]
Parsing == [at : {"parse"}, sig : Mtimes, context : [Goals -> Content], left : SUBSET Goals]
Scripts == [at : {"write"}, goal : Goals, complete : BOOLEAN, data : Content]
Loaded == [at : {"loaded"}, goal : Goals, required : SUBSET Gates, evidence : SUBSET Evidence]
Closing == [at : {"write"}, goal : Goals, data : Content, required : SUBSET Gates,
            evidence : SUBSET Evidence]

TypeInv ==
  /\ file \in [Goals -> [content : Content, mtime : 0..MaxWrites]]
  /\ clock \in 0..MaxWrites
  /\ cache \in Entries \cup {None}
  /\ reader \in [Readers -> Parsing \cup {None}]
  /\ rows \in SUBSET Evidence
  /\ todo \in [Goals -> SUBSET Commands]
  /\ script \in Scripts \cup {None}
  /\ closer \in Loaded \cup Closing \cup {None}
  /\ failedEver \in SUBSET (Goals \X Gates)

LEMMA TypeInvIsType == TypeInv => TypeOK
BY DEF TypeInv, TypeOK, Entries, Parsing, Scripts, Loaded, Closing, None

LEMMA TypeInit == Init => TypeInv
BY RequiredAssumption, LimitsAssumption
   DEF Init, TypeInv, Content, States, None

(* A file that is written keeps its type, whoever writes it.               *)
LEMMA WriteType ==
  ASSUME TypeInv, NEW g \in Goals, NEW content \in Content, Write(g, content)
  PROVE  /\ file' \in [Goals -> [content : Content, mtime : 0..MaxWrites]]
         /\ clock' \in 0..MaxWrites
BY LimitsAssumption DEF TypeInv, Write

LEMMA RecordType ==
  ASSUME TypeInv, NEW e \in Evidence, RecordEvidence(e)
  PROVE  rows' \in SUBSET Evidence /\ failedEver' \in SUBSET (Goals \X Gates)
BY DependsAssumption DEF TypeInv, RecordEvidence, Save, Evidence

LEMMA TypeStep == TypeInv /\ [Next]_vars => TypeInv'
<1> SUFFICES ASSUME TypeInv, [Next]_vars
             PROVE  TypeInv'
  OBVIOUS
<1> USE DEF dbVars, cacheVars, toolVars
<1>1. CASE RecordGate
  BY <1>1, RecordType DEF TypeInv, RecordGate
<1>2. CASE Restart
  BY <1>2 DEF TypeInv, Restart
<1>3. ASSUME NEW g \in Running, BeginVerification(g) PROVE TypeInv'
  BY <1>3, DependsAssumption DEF TypeInv, BeginVerification
<1>4. ASSUME NEW g \in Running, VerifyDeclaredGate(g) PROVE TypeInv'
  <2>1. PICK gate \in todo[g], v \in Verdicts :
          \/ /\ RecordEvidence([goal |-> g, gate |-> gate, verdict |-> v])
             /\ todo' = [todo EXCEPT ![g] = @ \ {gate}]
          \/ todo' = [todo EXCEPT ![g] = {}] /\ UNCHANGED <<rows, failedEver>>
    BY <1>4 DEF VerifyDeclaredGate
  <2>2. g \in Goals /\ gate \in Gates /\ todo[g] \subseteq Commands
    BY <1>4, RequiredAssumption, DependsAssumption DEF TypeInv
  <2>3. [goal |-> g, gate |-> gate, verdict |-> v] \in Evidence
    BY <1>4, <2>2 DEF Evidence
  <2>4. rows' \in SUBSET Evidence /\ failedEver' \in SUBSET (Goals \X Gates)
    BY <2>1, <2>3, RecordType DEF TypeInv
  <2>5. todo' \in [Goals -> SUBSET Commands]
    BY <2>1, <2>2 DEF TypeInv
  <2> QED  BY <1>4, <2>4, <2>5 DEF TypeInv, VerifyDeclaredGate
<1>5. ASSUME NEW g \in Goals, EditByHand(g) PROVE TypeInv'
  <2>1. PICK gate \in Gates :
          Write(g, [file[g].content EXCEPT !.required = @ \cup {gate}, !.state = "ACTIVE"])
    BY <1>5 DEF EditByHand
  <2>2. [file[g].content EXCEPT !.required = @ \cup {gate}, !.state = "ACTIVE"] \in Content
    BY DEF TypeInv, Content, States
  <2> QED  BY <1>5, <2>1, <2>2, WriteType DEF TypeInv, EditByHand
<1>6. ASSUME NEW g \in Goals, ScriptRead(g) PROVE TypeInv'
  <2>1. PICK gate \in Gates, passing \in BOOLEAN, complete \in BOOLEAN :
          script' = [at |-> "write", goal |-> g, complete |-> complete,
                     data |-> IF complete
                              THEN [Attached(file[g].content, gate, passing) EXCEPT !.state = "DONE"]
                              ELSE Attached(file[g].content, gate, passing)]
    BY <1>6 DEF ScriptRead
  <2>2. Attached(file[g].content, gate, passing) \in Content
    BY DEF TypeInv, Content, Attached, Entry
  <2>3. [Attached(file[g].content, gate, passing) EXCEPT !.state = "DONE"] \in Content
    BY <2>2 DEF Content, States
  <2>4. script' \in Scripts
    BY <2>1, <2>2, <2>3 DEF Scripts
  <2> QED  BY <1>6, <2>4 DEF TypeInv, ScriptRead
<1>7. ASSUME NEW g \in Goals, CloserLoad(g) PROVE TypeInv'
  <2>1. cache.context[g].required \in SUBSET Gates
    BY <1>7 DEF CloserLoad, TypeInv, Entries, Content
  <2>2. closer' \in Loaded
    BY <1>7, <2>1 DEF CloserLoad, Loaded, TypeInv
  <2> QED  BY <1>7, <2>2 DEF CloserLoad, TypeInv
<1>8. CASE ScriptWrite
  <2>1. script \in Scripts
    BY <1>8 DEF ScriptWrite, TypeInv, None
  <2> QED  BY <1>8, <2>1, WriteType DEF ScriptWrite, TypeInv, Scripts
<1>9. CASE CloserRead
  <2>1. closer \in Loaded
    BY <1>9 DEF CloserRead, TypeInv, Closing, None
  <2>2. CASE MayComplete(closer)
    <3> DEFINE new == {[gate |-> gate, passing |-> TRUE] : gate \in closer.required}
               data == [file[closer.goal].content EXCEPT !.state = "DONE",
                                                         !.declared = @ \cup new]
    <3>1. new \in SUBSET Entry
      <4>1. \A gate \in Gates : [gate |-> gate, passing |-> TRUE] \in Entry
        BY Zenon DEF Entry
      <4>2. closer.required \subseteq Gates
        BY <2>1 DEF Loaded
      <4> QED  BY <4>1, <4>2
    <3>2. data \in Content
      <4> HIDE DEF new
      <4>1. file[closer.goal].content \in Content
        BY <2>1 DEF Loaded, TypeInv
      <4> QED  BY <3>1, <4>1 DEF Content, States
    <3>3. closer' = [at |-> "write", goal |-> closer.goal, data |-> data,
                     required |-> closer.required, evidence |-> closer.evidence]
      BY <1>9, <2>2 DEF CloserRead
    <3>4. closer' \in Closing
      BY <2>1, <3>2, <3>3 DEF Loaded, Closing
    <3> QED  BY <1>9, <3>4 DEF CloserRead, TypeInv
  <2>3. CASE ~MayComplete(closer)
    BY <1>9, <2>3 DEF CloserRead, TypeInv
  <2> QED  BY <2>2, <2>3
<1>10. CASE CloserWrite
  <2>1. closer \in Closing
    BY <1>10 DEF CloserWrite, TypeInv, Loaded, None
  <2> QED  BY <1>10, <2>1, WriteType DEF CloserWrite, TypeInv, Closing
<1>11. ASSUME NEW t \in Readers, Resolve(t) PROVE TypeInv'
  <2>1. [at |-> "parse", sig |-> Signature(file), context |-> Contents(file), left |-> Goals]
          \in Parsing
    BY DEF TypeInv, Parsing, Signature, Contents, Mtimes
  <2> QED  BY <1>11, <2>1 DEF TypeInv, Resolve
<1>12. ASSUME NEW t \in Readers, ParseFile(t) PROVE TypeInv'
  <2>1. PICK g \in reader[t].left :
          reader' = [reader EXCEPT ![t].context[g] = file[g].content, ![t].left = @ \ {g}]
    BY <1>12 DEF ParseFile
  <2>2. reader[t] \in Parsing
    BY <1>12 DEF ParseFile, TypeInv, None
  <2>3. reader'[t] = [reader[t] EXCEPT !.context[g] = file[g].content, !.left = @ \ {g}]
    BY <2>1 DEF TypeInv
  <2>4. reader'[t] = [at |-> "parse", sig |-> reader[t].sig, left |-> reader[t].left \ {g},
                      context |-> [reader[t].context EXCEPT ![g] = file[g].content]]
    BY <2>2, <2>3 DEF Parsing
  <2>5. /\ reader[t].context \in [Goals -> Content] /\ reader[t].sig \in Mtimes
        /\ reader[t].left \in SUBSET Goals /\ file[g].content \in Content
    BY <2>2 DEF Parsing, TypeInv
  <2>6. reader'[t] \in Parsing
    BY <2>4, <2>5 DEF Parsing
  <2>7. reader' \in [Readers -> Parsing \cup {None}]
    BY <2>1, <2>6 DEF TypeInv
  <2> QED  BY <1>12, <2>7 DEF TypeInv, ParseFile
<1>13. ASSUME NEW t \in Readers, StoreContext(t) PROVE TypeInv'
  <2>1. reader[t] \in Parsing
    BY <1>13 DEF StoreContext, TypeInv, None
  <2> QED  BY <1>13, <2>1 DEF StoreContext, TypeInv, Parsing, Entries
<1>14. CASE UNCHANGED vars
  BY <1>14 DEF vars, TypeInv
<1> QED  BY <1>1, <1>2, <1>3, <1>4, <1>5, <1>6, <1>7, <1>8, <1>9, <1>10, <1>11, <1>12,
            <1>13, <1>14 DEF Next

(* Every state of a behaviour has these types (the records of all actions). *)
THEOREM TypesCorrect == Spec => []TypeInv
BY TypeInit, TypeStep, PTL DEF Spec

----------------------------------------------------------------------------
(* A signature is never ahead of the disk, and where it is not behind, the *)
(* context read under it is what the disk holds.                           *)
Fresh(sig, context) ==
  \A g \in Goals : /\ sig[g] <= file[g].mtime
                   /\ sig[g] = file[g].mtime => context[g] = file[g].content

FreshInv ==
  /\ \A g \in Goals : file[g].mtime <= clock
  /\ cache # None => Fresh(cache.sig, cache.context)
  /\ \A t \in Readers : reader[t] # None => Fresh(reader[t].sig, reader[t].context)

LEMMA FreshIsCacheFresh == TypeInv /\ FreshInv => CacheFresh
<1> SUFFICES ASSUME TypeInv, FreshInv, cache # None, cache.sig = Signature(file)
             PROVE  cache.context = Contents(file)
  BY DEF CacheFresh
<1>1. cache.context \in [Goals -> Content]
  BY DEF TypeInv, Entries
<1>2. \A g \in Goals : cache.context[g] = file[g].content
  BY DEF FreshInv, Fresh, Signature
<1> QED  BY <1>1, <1>2 DEF Contents

LEMMA FreshInit == Init => FreshInv
BY DEF Init, FreshInv, None

(* A written file is newer than every signature that was taken.            *)
LEMMA WriteFresh ==
  ASSUME TypeInv, FreshInv, NEW g \in Goals, NEW content, Write(g, content)
  PROVE  /\ \A h \in Goals : file'[h].mtime <= clock'
         /\ \A sig \in Mtimes, context \in [Goals -> Content] :
              Fresh(sig, context) => Fresh(sig, context)'
<1>1. /\ clock \in Nat /\ clock' = clock + 1
      /\ file' = [file EXCEPT ![g] = [content |-> content, mtime |-> clock + 1]]
  BY LimitsAssumption DEF Write, TypeInv
<1>2. \A h \in Goals : file[h].mtime \in Nat /\ file[h].mtime <= clock
  BY LimitsAssumption DEF TypeInv, FreshInv
<1>3. /\ file'[g].mtime = clock + 1
      /\ \A h \in Goals \ {g} : file'[h] = file[h]
  BY <1>1 DEF TypeInv
<1>4. \A h \in Goals : file'[h].mtime <= clock'
  BY <1>1, <1>2, <1>3
<1>5. ASSUME NEW sig \in Mtimes, NEW context \in [Goals -> Content], Fresh(sig, context),
             NEW h \in Goals
      PROVE  /\ sig[h] <= file'[h].mtime
             /\ sig[h] = file'[h].mtime => context[h] = file'[h].content
  <2>1. sig[h] \in Nat /\ sig[h] <= file[h].mtime
    BY <1>5, LimitsAssumption DEF Mtimes, Fresh
  <2>2. CASE h = g
    BY <2>1, <2>2, <1>1, <1>2, <1>3
  <2>3. CASE h # g
    BY <2>3, <1>3, <1>5 DEF Fresh
  <2> QED  BY <2>2, <2>3
<1> QED  BY <1>4, <1>5 DEF Fresh

(* The same for the cache and the readers, when the step is a write.       *)
LEMMA WriteStep ==
  ASSUME TypeInv, FreshInv, NEW g \in Goals, NEW content, Write(g, content),
         UNCHANGED cacheVars
  PROVE  FreshInv'
<1> USE DEF cacheVars
<1>1. cache # None => cache.sig \in Mtimes /\ cache.context \in [Goals -> Content]
  BY DEF TypeInv, Entries
<1>2. \A t \in Readers : reader[t] # None =>
        reader[t].sig \in Mtimes /\ reader[t].context \in [Goals -> Content]
  BY DEF TypeInv, Parsing
<1>3. \A h \in Goals : file'[h].mtime <= clock'
  BY WriteFresh
<1>4. cache' # None => Fresh(cache.sig, cache.context)'
  BY <1>1, WriteFresh DEF FreshInv
<1>5. \A t \in Readers : reader'[t] # None => Fresh(reader[t].sig, reader[t].context)'
  BY <1>2, WriteFresh DEF FreshInv
<1> QED  BY <1>3, <1>4, <1>5 DEF FreshInv

LEMMA FreshStep == TypeInv /\ FreshInv /\ [Next]_vars => FreshInv'
<1> SUFFICES ASSUME TypeInv, FreshInv, [Next]_vars
             PROVE  FreshInv'
  OBVIOUS
<1> USE DEF cacheVars, dbVars, toolVars
<1>1. ASSUME UNCHANGED <<file, clock, cache, reader>> PROVE FreshInv'
  BY <1>1 DEF FreshInv, Fresh
<1>2. CASE Restart
  BY <1>2 DEF Restart, FreshInv, Fresh
<1>3. ASSUME NEW g \in Goals, EditByHand(g) PROVE FreshInv'
  BY <1>3, WriteStep DEF EditByHand
<1>4. CASE ScriptWrite
  <2>1. script \in Scripts
    BY <1>4 DEF ScriptWrite, TypeInv, None
  <2> QED  BY <1>4, <2>1, WriteStep DEF ScriptWrite, Scripts
<1>5. CASE CloserWrite
  <2>1. closer \in Closing
    BY <1>5 DEF CloserWrite, TypeInv, Loaded, None
  <2> QED  BY <1>5, <2>1, WriteStep DEF CloserWrite, Closing
<1>6. ASSUME NEW t \in Readers, Resolve(t) PROVE FreshInv'
  <2>1. Fresh(Signature(file), Contents(file))
    <3>1. \A g \in Goals : file[g].mtime \in Nat
      BY LimitsAssumption DEF TypeInv
    <3> QED  BY <3>1 DEF Fresh, Signature, Contents
  <2>2. reader'[t].sig = Signature(file) /\ reader'[t].context = Contents(file)
    BY <1>6 DEF Resolve, TypeInv
  <2>3. \A u \in Readers \ {t} : reader'[u] = reader[u]
    BY <1>6 DEF Resolve, TypeInv
  <2> QED  BY <1>6, <2>1, <2>2, <2>3 DEF Resolve, FreshInv, Fresh
<1>7. ASSUME NEW t \in Readers, ParseFile(t) PROVE FreshInv'
  <2>1. PICK g \in reader[t].left :
          reader' = [reader EXCEPT ![t].context[g] = file[g].content, ![t].left = @ \ {g}]
    BY <1>7 DEF ParseFile
  <2>2. reader[t] \in Parsing /\ reader[t] # None
    BY <1>7 DEF ParseFile, TypeInv, None
  <2>3. reader'[t] = [reader[t] EXCEPT !.context[g] = file[g].content, !.left = @ \ {g}]
    BY <2>1 DEF TypeInv
  <2>4. reader'[t] = [at |-> "parse", sig |-> reader[t].sig, left |-> reader[t].left \ {g},
                      context |-> [reader[t].context EXCEPT ![g] = file[g].content]]
    BY <2>2, <2>3 DEF Parsing
  <2>5. Fresh(reader'[t].sig, reader'[t].context)
    <3>1. Fresh(reader[t].sig, reader[t].context)
      BY <2>2 DEF FreshInv
    <3>2. reader[t].context \in [Goals -> Content]
      BY <2>2 DEF Parsing
    <3>3. /\ reader'[t].sig = reader[t].sig
          /\ reader'[t].context = [reader[t].context EXCEPT ![g] = file[g].content]
      BY <2>4
    <3>4. ASSUME NEW h \in Goals
          PROVE  /\ reader[t].sig[h] <= file[h].mtime
                 /\ reader[t].sig[h] = file[h].mtime =>
                      reader'[t].context[h] = file[h].content
      <4>1. CASE h = g
        BY <4>1, <3>1, <3>2, <3>3 DEF Fresh
      <4>2. CASE h # g
        BY <4>2, <3>1, <3>2, <3>3 DEF Fresh
      <4> QED  BY <4>1, <4>2
    <3> QED  BY <3>3, <3>4 DEF Fresh
  <2>6. \A u \in Readers \ {t} : reader'[u] = reader[u]
    BY <2>1 DEF TypeInv
  <2>7. \A u \in Readers : reader'[u] # None => Fresh(reader'[u].sig, reader'[u].context)
    BY <2>5, <2>6 DEF FreshInv
  <2> QED  BY <1>7, <2>7 DEF ParseFile, FreshInv, Fresh
<1>8. ASSUME NEW t \in Readers, StoreContext(t) PROVE FreshInv'
  <2>1. Fresh(reader[t].sig, reader[t].context)
    BY <1>8 DEF StoreContext, FreshInv, None
  <2>2. cache'.sig = reader[t].sig /\ cache'.context = reader[t].context
    BY <1>8 DEF StoreContext
  <2>3. \A u \in Readers : reader'[u] = reader[u] \/ reader'[u] = None
    BY <1>8 DEF StoreContext, TypeInv
  <2> QED  BY <1>8, <2>1, <2>2, <2>3 DEF StoreContext, FreshInv, Fresh
<1>9. CASE RecordGate
  BY <1>9, <1>1 DEF RecordGate
<1>10. ASSUME NEW g \in Running, BeginVerification(g) \/ VerifyDeclaredGate(g) PROVE FreshInv'
  BY <1>10, <1>1 DEF BeginVerification, VerifyDeclaredGate
<1>11. ASSUME NEW g \in Goals, ScriptRead(g) \/ CloserLoad(g) PROVE FreshInv'
  BY <1>11, <1>1 DEF ScriptRead, CloserLoad
<1>12. CASE CloserRead
  BY <1>12, <1>1 DEF CloserRead
<1>13. CASE UNCHANGED vars
  BY <1>13, <1>1 DEF vars
<1> QED  BY <1>2, <1>3, <1>4, <1>5, <1>6, <1>7, <1>8, <1>9, <1>10, <1>11, <1>12, <1>13
         DEF Next

(* resolve_project never keeps a mixture: however many threads parse while  *)
(* the files change, an entry that a hit returns is what is on disk.        *)
THEOREM CacheCorrect == Spec => []CacheFresh
<1>1. Init => TypeInv /\ FreshInv
  BY TypeInit, FreshInit
<1>2. TypeInv /\ FreshInv /\ [Next]_vars => (TypeInv /\ FreshInv)'
  BY TypeStep, FreshStep
<1>3. TypeInv /\ FreshInv => CacheFresh
  BY FreshIsCacheFresh
<1> QED  BY <1>1, <1>2, <1>3, PTL DEF Spec

----------------------------------------------------------------------------
(* What was saved stays: a failure that was ever recorded still has its row, *)
(* and what complete_goal was given is still in the database.              *)
EvidenceInv ==
  /\ \A g \in Goals, gate \in Gates : <<g, gate>> \in failedEver =>
       [goal |-> g, gate |-> gate, verdict |-> "FAILED"] \in rows
  /\ closer \in Loaded => closer.evidence \subseteq rows
  /\ ClosedOnEvidence
  /\ ScriptCovers

(* The coordinator and check_completion read the same rows alike.          *)
LEMMA ViewsCoincide == TypeInv => ViewsAgree
<1> SUFFICES ASSUME TypeInv, NEW g \in Goals, file[g].content.required # {}
             PROVE  AllPassed({e \in rows : e.goal = g}, file[g].content.required)
                      <=> Completable(Check(rows, g, file[g].content.required))
  BY DEF ViewsAgree
<1> DEFINE required == file[g].content.required
           Failed(gate) == With(Of(rows, g, gate), "FAILED")
           Passed(gate) == With(Of(rows, g, gate), "PASSED")
<1>1. \A gate \in required :
        EvaluateGate({e \in rows : e.goal = g}, gate) = "PASSED"
          <=> Failed(gate) = {} /\ Passed(gate) # {}
  <2> TAKE gate \in required
  <2>1. {e \in {x \in rows : x.goal = g} : e.gate = gate} = Of(rows, g, gate)
    BY DEF Of
  <2> QED  BY <2>1 DEF EvaluateGate
<1>2. AllPassed({e \in rows : e.goal = g}, required)
        <=> \A gate \in required : Failed(gate) = {} /\ Passed(gate) # {}
  BY <1>1 DEF AllPassed
<1>3. Completable(Check(rows, g, required))
        <=> \A gate \in required : Failed(gate) = {} /\ Passed(gate) # {}
  BY DEF Completable, Check
<1> QED  BY <1>2, <1>3

LEMMA FailuresCount == TypeInv /\ EvidenceInv => FailureIsKept
<1> SUFFICES ASSUME TypeInv, EvidenceInv, NEW g \in Goals,
                    NEW gate \in file[g].content.required, <<g, gate>> \in failedEver
             PROVE  ~Completable(Check(rows, g, file[g].content.required))
  BY DEF FailureIsKept
<1>1. gate \in Gates
  BY DEF TypeInv, Content
<1>2. [goal |-> g, gate |-> gate, verdict |-> "FAILED"] \in rows
  BY <1>1 DEF EvidenceInv
<1>3. [goal |-> g, gate |-> gate, verdict |-> "FAILED"]
        \in With(Of(rows, g, gate), "FAILED")
  BY <1>2 DEF With, Of
<1> QED  BY <1>3 DEF Completable, Check

(* A piece of evidence is added, none is taken away.                       *)
LEMMA RecordKeeps ==
  ASSUME TypeInv, EvidenceInv, NEW e \in Evidence, RecordEvidence(e)
  PROVE  /\ rows \subseteq rows'
         /\ \A g \in Goals, gate \in Gates : <<g, gate>> \in failedEver' =>
              [goal |-> g, gate |-> gate, verdict |-> "FAILED"] \in rows'
<1>1. rows' = rows \cup {e}
  BY DEF RecordEvidence, Save
<1>2. ASSUME NEW g \in Goals, NEW gate \in Gates, <<g, gate>> \in failedEver'
      PROVE  [goal |-> g, gate |-> gate, verdict |-> "FAILED"] \in rows'
  <2>1. CASE <<g, gate>> \in failedEver
    BY <2>1, <1>1 DEF EvidenceInv
  <2>2. CASE <<g, gate>> \notin failedEver
    <3>1. e.verdict = "FAILED" /\ <<g, gate>> = <<e.goal, e.gate>>
      BY <1>2, <2>2 DEF RecordEvidence
    <3>2. e = [goal |-> g, gate |-> gate, verdict |-> "FAILED"]
      BY <3>1 DEF Evidence
    <3> QED  BY <3>2, <1>1
  <2> QED  BY <2>1, <2>2
<1> QED  BY <1>1, <1>2

LEMMA EvidenceInit == Init => EvidenceInv
BY DEF Init, EvidenceInv, None, Loaded, ClosedOnEvidence, ScriptCovers

LEMMA EvidenceStep == TypeInv /\ EvidenceInv /\ [Next]_vars => EvidenceInv'
<1> SUFFICES ASSUME TypeInv, EvidenceInv, [Next]_vars
             PROVE  EvidenceInv'
  OBVIOUS
<1> USE DEF cacheVars, dbVars, toolVars
<1>1. ASSUME UNCHANGED <<rows, failedEver, script, closer>> PROVE EvidenceInv'
  BY <1>1 DEF EvidenceInv, ClosedOnEvidence, ScriptCovers
<1>2. ASSUME NEW e \in Evidence, RecordEvidence(e), UNCHANGED toolVars PROVE EvidenceInv'
  BY <1>2, RecordKeeps DEF EvidenceInv, ClosedOnEvidence, ScriptCovers
<1>3. CASE RecordGate
  BY <1>3, <1>2 DEF RecordGate
<1>4. ASSUME NEW g \in Running, VerifyDeclaredGate(g) PROVE EvidenceInv'
  <2>1. PICK gate \in todo[g], v \in Verdicts :
          \/ RecordEvidence([goal |-> g, gate |-> gate, verdict |-> v])
          \/ UNCHANGED <<rows, failedEver>>
    BY <1>4 DEF VerifyDeclaredGate
  <2>2. UNCHANGED toolVars
    BY <1>4 DEF VerifyDeclaredGate
  <2>3. gate \in Gates
    BY <1>4, RequiredAssumption, DependsAssumption DEF TypeInv
  <2>4. [goal |-> g, gate |-> gate, verdict |-> v] \in Evidence
    BY <1>4, <2>3 DEF Evidence
  <2> QED  BY <2>1, <2>2, <2>4, <1>1, <1>2
<1>5. ASSUME NEW g \in Goals, ScriptRead(g) PROVE EvidenceInv'
  <2>1. PICK gate \in Gates, passing \in BOOLEAN, complete \in BOOLEAN :
          /\ complete => passing
                /\ Completable(CheckDeclared(Attached(file[g].content, gate, passing)))
          /\ script' = [at |-> "write", goal |-> g, complete |-> complete,
                        data |-> IF complete
                                 THEN [Attached(file[g].content, gate, passing)
                                         EXCEPT !.state = "DONE"]
                                 ELSE Attached(file[g].content, gate, passing)]
    BY <1>5 DEF ScriptRead
  <2> DEFINE data == Attached(file[g].content, gate, passing)
  <2>2. data \in Content
    BY DEF TypeInv, Content, Attached, Entry
  <2>3. ASSUME complete, NEW other \in data.required
        PROVE  {e.passing : e \in {x \in data.declared : x.gate = other}} = {TRUE}
    <3>1. Completable(CheckDeclared(data))
      BY <2>1, <2>3
    <3>2. \A e \in data.declared : e.gate = other => e.passing = TRUE
      BY <3>1, <2>2, <2>3 DEF Completable, CheckDeclared, Content, Entry
    <3>3. \E e \in data.declared : e.gate = other
      BY <3>1, <2>3 DEF Completable, CheckDeclared
    <3> QED  BY <3>2, <3>3
  <2>4. complete => script'.data.required = data.required
                      /\ script'.data.declared = data.declared
    <3> HIDE DEF data
    <3> QED  BY <2>1, <2>2 DEF Content, data
  <2>5. ScriptCovers'
    BY <2>1, <2>3, <2>4 DEF ScriptCovers
  <2> QED  BY <1>5, <2>5 DEF ScriptRead, EvidenceInv, ClosedOnEvidence
<1>6. ASSUME NEW g \in Goals, CloserLoad(g) PROVE EvidenceInv'
  BY <1>6 DEF CloserLoad, EvidenceInv, ClosedOnEvidence, ScriptCovers
<1>7. CASE CloserRead
  <2>1. closer \in Loaded
    BY <1>7 DEF CloserRead, TypeInv, Closing, None
  <2>2. closer'.at = "write" =>
          MayComplete(closer) /\ closer'.required = closer.required /\ closer'.goal = closer.goal
    BY <1>7 DEF CloserRead, None
  <2>3. closer' \notin Loaded
    BY <1>7 DEF CloserRead, Loaded, None
  <2>4. ASSUME MayComplete(closer), NEW gate \in closer.required
        PROVE  [goal |-> closer.goal, gate |-> gate, verdict |-> "PASSED"] \in rows
    <3>1. \E e \in closer.evidence : e.goal = closer.goal /\ e.gate = gate
                                       /\ e.verdict = "PASSED"
      BY <2>4 DEF MayComplete, Completable, Check, With, Of
    <3>2. closer.evidence \subseteq rows /\ closer.evidence \subseteq Evidence
      BY <2>1 DEF EvidenceInv, Loaded
    <3> QED  BY <3>1, <3>2 DEF Evidence
  <2>5. ClosedOnEvidence'
    BY <1>7, <2>2, <2>4 DEF ClosedOnEvidence, CloserRead
  <2> QED  BY <1>7, <2>3, <2>5 DEF CloserRead, EvidenceInv, ScriptCovers
<1>8. CASE ScriptWrite
  BY <1>8 DEF ScriptWrite, EvidenceInv, ClosedOnEvidence, ScriptCovers, None
<1>9. CASE CloserWrite
  BY <1>9 DEF CloserWrite, EvidenceInv, ClosedOnEvidence, ScriptCovers, Loaded, None
<1>10. CASE Restart
  BY <1>10, <1>1 DEF Restart
<1>11. ASSUME NEW g \in Running, BeginVerification(g) PROVE EvidenceInv'
  BY <1>11, <1>1 DEF BeginVerification
<1>12. ASSUME NEW g \in Goals, EditByHand(g) PROVE EvidenceInv'
  BY <1>12, <1>1 DEF EditByHand
<1>13. ASSUME NEW t \in Readers, Resolve(t) \/ ParseFile(t) \/ StoreContext(t)
       PROVE  EvidenceInv'
  BY <1>13, <1>1 DEF Resolve, ParseFile, StoreContext
<1>14. CASE UNCHANGED vars
  BY <1>14, <1>1 DEF vars
<1> QED  BY <1>3, <1>4, <1>5, <1>6, <1>7, <1>8, <1>9, <1>10, <1>11, <1>12, <1>13, <1>14
         DEF Next

(* However the evidence of a Goal is looked at, a failure counts and a      *)
(* missing pass is missed (evaluate_gate, check_completion,                 *)
(* assert_goal_completable, check_declared_evidence).                      *)
THEOREM EvidenceCorrect == Spec => []EvidenceDecides
<1>1. Init => TypeInv /\ EvidenceInv
  BY TypeInit, EvidenceInit
<1>2. TypeInv /\ EvidenceInv /\ [Next]_vars => (TypeInv /\ EvidenceInv)'
  BY TypeStep, EvidenceStep
<1>3. TypeInv /\ EvidenceInv => EvidenceDecides
  BY TypeInvIsType, ViewsCoincide, FailuresCount DEF EvidenceDecides, EvidenceInv
<1> QED  BY <1>1, <1>2, <1>3, PTL DEF Spec

-----------------------------------------------------------------------------
(* Settings: a request while it works *)

\* The fields a request has while it works and after: a reset keeps the file it
\* popped in data, a save the files it read.
Patches(values) == UNION {[ks -> values] : ks \in SUBSET Keys}
Popped == [target : Files, odd : BOOLEAN, content : FileContent]
Active ==
  [at : {"idle", "check", "read", "write", "pop", "popped"}, op : {"save", "reset"},
   end : Ends, scope : {"user", "project"}, patch : Patches({Absent, "good", "wrong"}),
   left : SUBSET (Files \cup Keys), data : [Files -> FileContent] \cup {<<>>} \cup Popped]

\* A key stands in the user's file or in the one that is its own.
InItsFile(content, f) == \A k \in Keys : content[k] # Absent => f = "user" \/ f = FileOf[k]

\* What a request makes of a file: the keys in `done` get the values of its patch
\* where they belong, everything else stays as it was.
Partly(q, done, f, was) ==
  [k \in Keys |-> IF k \in done /\ TargetOf(q.scope, k) = f THEN q.patch[k] ELSE was[k]]
Fully(q, f, was) == Partly(q, DOMAIN q.patch, f, was)

\* A save: what it has read and is going to write fits the files, and a value of
\* the wrong kind does not get past the check.
SaveShape(r) ==
  LET q == request[r] IN
  /\ q.left \subseteq Targets(r) /\ q.data \in [Files -> FileContent]
  /\ q.at = "check" => q.left = Targets(r)
  /\ \A f \in Files : InItsFile(q.data[f], f)
  /\ q.at # "check" => \A k \in DOMAIN q.patch : q.patch[k] # "wrong"

\* A reset: what it has popped fits the file it came from.
ResetShape(r) ==
  LET q == request[r] IN
  /\ q.left \subseteq DOMAIN q.patch /\ \A k \in DOMAIN q.patch : q.patch[k] = Absent
  /\ q.at = "pop" => q.left # {}
  /\ q.at = "popped" => /\ q.data \in Popped /\ InItsFile(q.data.content, q.data.target)
                        /\ q.data.odd => q.data.target \in Sectioned

Shape(r) ==
  LET q == request[r] IN
  /\ q.at # "idle" => q \in Active /\ q.end = "none"
  /\ q.at \in {"check", "read", "write"} => q.op = "save" /\ SaveShape(r)
  /\ q.at \in {"pop", "popped"} => q.op = "reset" /\ ResetShape(r)

\* What a request nobody crossed has in hand is what is there.
SaveProgress(r) ==
  LET q == request[r] IN
  /\ q.at \in {"check", "read"} => entries = before[r]
  /\ q.at = "read" => \A f \in Targets(r) \ q.left : q.data[f] = Fully(q, f, before[r][f])
  /\ q.at = "write" =>
       /\ \A f \in Targets(r) : q.data[f] = Fully(q, f, before[r][f])
       /\ \A f \in Files : entries[f] = IF f \in q.left THEN before[r][f]
                                                        ELSE Fully(q, f, before[r][f])

ResetProgress(r) ==
  LET q == request[r]
      Now(f) == Partly(q, DOMAIN q.patch \ q.left, f, before[r][f])
  IN /\ q.at = "pop" => \A f \in Files : entries[f] = Now(f)
     /\ q.at = "popped" =>
          /\ q.data.content = Now(q.data.target)
          /\ \A f \in Files \ {q.data.target} : entries[f] = Now(f)

Progress(r) == alone[r] => SaveProgress(r) /\ ResetProgress(r)

\* What the end of a request says of the files, as long as nobody crosses it.
Exact(r) ==
  alone[r] =>
    /\ request[r].end = "saved" =>
         \A f \in Files : entries[f] = Fully(request[r], f, before[r][f])
    /\ request[r].op = "save" /\ request[r].end \in {"refused", "raised"} => entries = before[r]

RequestInv(r) == Shape(r) /\ Progress(r) /\ Exact(r)

SettingsInv ==
  /\ SettingsTypeOK
  /\ request \in [Requests -> {Idle} \cup Active]
  /\ \A r \in Requests : RequestInv(r)

LEMMA SettingsInit0 == SettingsInit => SettingsInv
<1> SUFFICES ASSUME SettingsInit PROVE SettingsInv
  OBVIOUS
<1>1. SettingsTypeOK
  BY FileAssumption, BoundAssumption
     DEF SettingsInit, SettingsTypeOK, FileContent, Nothing, Absent, Idle, Down, Ends
<1>2. request \in [Requests -> {Idle} \cup Active]
  BY DEF SettingsInit
<1>3. \A r \in Requests : RequestInv(r)
  BY DEF SettingsInit, RequestInv, Shape, Progress, Exact, SaveProgress, ResetProgress, Idle
<1> QED  BY <1>1, <1>2, <1>3 DEF SettingsInv

\* A request another step leaves alone, and whose files it leaves as they are
\* unless it takes note of it, is where it was.
LEMMA Untouched ==
  ASSUME NEW r, RequestInv(r), request'[r] = request[r], before'[r] = before[r],
         alone'[r] => alone[r] /\ entries' = entries
  PROVE  RequestInv(r)'
<1>1. Shape(r)'
  BY DEF RequestInv, Shape, SaveShape, ResetShape, Targets
<1>3. Progress(r)'
  BY DEF RequestInv, Progress, SaveProgress, ResetProgress, Targets
<1>4. Exact(r)'
  BY DEF RequestInv, Exact
<1> QED  BY <1>1, <1>3, <1>4 DEF RequestInv

\* One request moves on and the files stay as they are.
LEMMA OneMoves ==
  ASSUME SettingsInv, NEW p \in Requests, NEW q \in Active,
         request' = [request EXCEPT ![p] = q],
         UNCHANGED <<entries, broken, odd, env, running, saves, edits, before, alone>>,
         request'[p] = q => RequestInv(p)'
  PROVE  SettingsInv'
<1> USE DEF SettingsInv
<1>1. request' \in [Requests -> {Idle} \cup Active] /\ request'[p] = q
  OBVIOUS
<1>2. ASSUME NEW r \in Requests, r # p PROVE RequestInv(r)'
  BY <1>2, Untouched
<1>3. \A r \in Requests : /\ request'[r].at \in {"idle", "check", "read", "write", "pop", "popped"}
                          /\ request'[r].end \in Ends
  BY <1>1 DEF Active, Idle, Ends
<1>4. SettingsTypeOK'
  BY <1>3 DEF SettingsTypeOK
<1> QED  BY <1>1, <1>2, <1>4

\* One request writes a file, and the others take note.
LEMMA OneWrites ==
  ASSUME SettingsInv, NEW p \in Requests, NEW q \in Active, NEW f \in Files,
         NEW data \in FileContent, InItsFile(data, f), Replace(f, data), NobodyElse(p),
         request' = [request EXCEPT ![p] = q], odd' \subseteq odd \cup (Sectioned \cap {f}),
         UNCHANGED <<env, running, saves, edits, before>>,
         request'[p] = q /\ alone'[p] = alone[p] /\ entries' = [entries EXCEPT ![f] = data]
           => RequestInv(p)'
  PROVE  SettingsInv'
<1> USE DEF SettingsInv
<1>1. request' \in [Requests -> {Idle} \cup Active] /\ request'[p] = q
  OBVIOUS
<1>2. /\ alone' \in [Requests -> BOOLEAN] /\ alone'[p] = alone[p]
      /\ \A r \in Requests : r # p => ~alone'[r]
  BY DEF NobodyElse, SettingsTypeOK
<1>3. entries' = [entries EXCEPT ![f] = data] /\ broken' = broken \ {f}
  BY DEF Replace
<1>4. ASSUME NEW r \in Requests, r # p PROVE RequestInv(r)'
  BY <1>2, <1>4, Untouched
<1>5. \A r \in Requests : /\ request'[r].at \in {"idle", "check", "read", "write", "pop", "popped"}
                          /\ request'[r].end \in Ends
  BY <1>1 DEF Active, Idle, Ends
<1>6. entries' \in [Files -> FileContent] /\ broken' \subseteq Files /\ odd' \subseteq Sectioned
  BY <1>3 DEF SettingsTypeOK
<1>7. ASSUME NEW g \in Files PROVE InItsFile(entries'[g], g)
  BY <1>3 DEF SettingsTypeOK, InItsFile
<1>8. SettingsTypeOK'
  <2> HIDE DEF SettingsInv
  <2>1. \A g \in Files, k \in Keys : entries'[g][k] # Absent => g = "user" \/ g = FileOf[k]
    BY <1>7 DEF InItsFile
  <2> QED  BY <1>2, <1>5, <1>6, <2>1 DEF SettingsTypeOK, SettingsInv
<1> QED  BY <1>1, <1>2, <1>3, <1>4, <1>8

\* A request begins: what it is about to do is written down, and nothing else.
LEMMA BeginKeeps ==
  ASSUME SettingsInv, NEW p \in Requests, NEW scope \in {"user", "project"},
         NEW op \in {"save", "reset"}, NEW at \in {"check", "pop"},
         NEW patch \in Patches({Absent, "good", "wrong"}), NEW left \in SUBSET (Files \cup Keys),
         Begin(p, op, scope, patch, at, left),
         at = "check" => op = "save" /\ left = {TargetOf(scope, k) : k \in DOMAIN patch},
         at = "pop" => /\ op = "reset" /\ left = DOMAIN patch /\ left # {}
                       /\ \A k \in DOMAIN patch : patch[k] = Absent
  PROVE  SettingsInv'
<1> DEFINE q == [at |-> at, op |-> op, end |-> "none", scope |-> scope, patch |-> patch,
                 left |-> left, data |-> entries]
<1> USE DEF SettingsInv
<1>1. request' = [request EXCEPT ![p] = q] /\ before' = [before EXCEPT ![p] = entries]
      /\ alone' = [alone EXCEPT ![p] = TRUE] /\ saves < MaxSaves /\ saves' = saves + 1
      /\ UNCHANGED <<entries, broken, odd, env, running, edits>>
  BY DEF Begin
<1>2. entries \in [Files -> FileContent] /\ \A f \in Files : InItsFile(entries[f], f)
  BY DEF SettingsTypeOK, InItsFile
<1>3. q \in Active
  BY <1>2 DEF Active, Ends
<1>4. request' \in [Requests -> {Idle} \cup Active] /\ request'[p] = q
  BY <1>1, <1>3
<1>5. before'[p] = entries
  BY <1>1 DEF SettingsTypeOK
<1>6. SettingsTypeOK'
  <2> HIDE DEF q
  <2>1. request'[p].at = at /\ request'[p].end = "none"
    BY <1>4 DEF q
  <2>2. \A r \in Requests : r # p => request'[r] = request[r]
    BY <1>1
  <2>3. \A r \in Requests : /\ request'[r].at \in {"idle", "check", "read", "write", "pop", "popped"}
                            /\ request'[r].end \in Ends
    BY <2>1, <2>2 DEF SettingsTypeOK, Ends
  <2>4. saves' \in 0..MaxSaves
    BY <1>1, BoundAssumption DEF SettingsTypeOK
  <2> QED  BY <1>1, <2>3, <2>4 DEF SettingsTypeOK
<1>7. ASSUME NEW r \in Requests PROVE RequestInv(r)'
  <2>1. CASE r # p
    <3>1. request'[r] = request[r] /\ before'[r] = before[r] /\ (alone'[r] => alone[r])
      BY <1>1, <2>1 DEF SettingsTypeOK
    <3> QED  BY <1>1, <3>1, Untouched
  <2>2. CASE r = p
    <3>1. Shape(p)'
      BY <1>2, <1>3, <1>4 DEF Shape, SaveShape, ResetShape, Targets
    <3>2. Progress(p)'
      <4>1. ASSUME NEW f \in Files PROVE entries[f] = Partly(q, {}, f, entries[f])
        BY <1>2 DEF Partly, FileContent
      <4> QED  BY <1>1, <1>4, <1>5, <4>1 DEF Progress, SaveProgress, ResetProgress
    <3>3. Exact(p)'
      BY <1>4 DEF Exact
    <3> QED  BY <2>2, <3>1, <3>2, <3>3 DEF RequestInv
  <2> QED  BY <2>1, <2>2
<1> QED  BY <1>4, <1>6, <1>7

LEMMA SaveKeeps == ASSUME SettingsInv, NEW p \in Requests, SaveRequest(p) PROVE SettingsInv'
<1>0. PICK scope \in {"user", "project"}, ks \in SUBSET Keys :
        \E patch \in [ks -> {"good", "wrong"}] :
          /\ ks # {} /\ Cardinality(ks) <= 2
          /\ Begin(p, "save", scope, patch, "check", {TargetOf(scope, k) : k \in ks})
  BY Zenon DEF SaveRequest
<1>1. PICK patch \in [ks -> {"good", "wrong"}] :
        Begin(p, "save", scope, patch, "check", {TargetOf(scope, k) : k \in ks})
  BY <1>0
<1>2. patch \in Patches({Absent, "good", "wrong"})
  BY DEF Patches
<1>3. {TargetOf(scope, k) : k \in ks} \subseteq Files
  BY FileAssumption DEF TargetOf
<1> QED  BY <1>1, <1>2, <1>3, BeginKeeps

LEMMA ResetKeeps == ASSUME SettingsInv, NEW p \in Requests, ResetRequest(p) PROVE SettingsInv'
<1>1. PICK scope \in {"user", "project"}, ks \in SUBSET Keys :
        ks # {} /\ Begin(p, "reset", scope, [k \in ks |-> Absent], "pop", ks)
  BY DEF ResetRequest
<1>2. [k \in ks |-> Absent] \in Patches({Absent, "good", "wrong"})
  BY DEF Patches
<1> QED  BY <1>1, <1>2, BeginKeeps

\* A request ends without a write; the rest of it stays as it was.
LEMMA FinishKeeps ==
  ASSUME SettingsInv, NEW p \in Requests, request[p].at # "idle",
         NEW end \in {"refused", "raised", "failed"}, Finish(p, end),
         end # "failed" => request[p].at \in {"check", "read", "pop"},
         UNCHANGED <<entries, broken, odd, env, running, bounds, before, alone>>
  PROVE  SettingsInv'
<1> USE DEF SettingsInv
<1>1. request[p] \in Active /\ RequestInv(p)
  BY DEF RequestInv, Shape
<1> DEFINE q == [[request[p] EXCEPT !.at = "idle"] EXCEPT !.end = end]
<1>2. request' = [request EXCEPT ![p] = q]
  BY DEF Finish
<1>3. q \in Active /\ q.at = "idle" /\ q.end = end /\ q.op = request[p].op
  BY <1>1 DEF Active, Ends
<1>4. request' \in [Requests -> {Idle} \cup Active] /\ request'[p] = q
  BY <1>2, <1>3
<1>5. UNCHANGED <<entries, broken, odd, env, running, saves, edits, before, alone>>
  BY DEF bounds
<1> HIDE DEF q
<1>6. ASSUME NEW r \in Requests PROVE RequestInv(r)'
  <2>1. CASE r # p
    BY <1>2, <1>5, <2>1, Untouched
  <2>2. CASE r = p
    <3>1. alone[p] /\ q.op = "save" /\ end \in {"refused", "raised"} => entries = before[p]
      BY <1>1, <1>3 DEF RequestInv, Progress, SaveProgress, Shape
    <3> QED  BY <1>3, <1>4, <1>5, <2>2, <3>1 DEF RequestInv, Shape, Progress, SaveProgress, ResetProgress, Exact
  <2> QED  BY <2>1, <2>2
<1>7. SettingsTypeOK'
  <2>1. \A r \in Requests : /\ request'[r].at \in {"idle", "check", "read", "write", "pop", "popped"}
                            /\ request'[r].end \in Ends
    BY <1>2, <1>3, <1>4 DEF SettingsTypeOK, Ends
  <2> QED  BY <1>5, <2>1 DEF SettingsTypeOK
<1> QED  BY <1>4, <1>6, <1>7

LEMMA CheckKeeps == ASSUME SettingsInv, NEW p \in Requests, CheckRequest(p) PROVE SettingsInv'
<1>1. /\ request[p] \in Active /\ request[p].at = "check" /\ RequestInv(p)
      /\ request \in [Requests -> {Idle} \cup Active]
  BY DEF SettingsInv, CheckRequest, RequestInv, Shape
<1>2. CASE Finish(p, "raised") \/ Finish(p, "refused")
  BY <1>1, <1>2, FinishKeeps DEF CheckRequest
<1>3. CASE /\ Valid(request[p].scope, request[p].patch)
           /\ request' = [request EXCEPT ![p].at = "read"]
  <2> DEFINE q == [request[p] EXCEPT !.at = "read"]
  <2>1. /\ q \in Active /\ q.at = "read" /\ q.end = request[p].end /\ q.op = request[p].op
        /\ q.left = request[p].left /\ q.data = request[p].data /\ q.patch = request[p].patch
        /\ q.scope = request[p].scope
    BY <1>1 DEF Active
  <2>2. request' = [request EXCEPT ![p] = q]
    BY <1>3
  <2> HIDE DEF q
  <2>3. UNCHANGED <<entries, broken, odd, env, running, saves, edits, before, alone>>
    BY DEF CheckRequest, bounds
  <2>4. ASSUME request'[p] = q PROVE RequestInv(p)'
    <3>1. Shape(p)'
      BY <1>1, <1>3, <2>1, <2>4 DEF RequestInv, Shape, SaveShape, Valid, Targets
    <3>2. Progress(p)'
      <4>1. alone'[p] => entries' = before'[p]
        BY <1>1, <2>3 DEF RequestInv, Progress, SaveProgress
      <4>2. Targets(p)' = q.left
        BY <1>1, <2>1, <2>4 DEF RequestInv, Shape, SaveShape, Targets
      <4> QED  BY <2>1, <2>4, <4>1, <4>2 DEF Progress, SaveProgress, ResetProgress
    <3>3. Exact(p)'
      BY <1>1, <2>1, <2>4 DEF RequestInv, Shape, Exact
    <3> QED  BY <3>1, <3>2, <3>3 DEF RequestInv
  <2> QED  BY <2>1, <2>2, <2>3, <2>4, OneMoves
<1> QED  BY <1>2, <1>3 DEF CheckRequest

\* One file is read into memory with the patch applied; the last of them turns
\* the request to its writes.
LEMMA ReadKeeps == ASSUME SettingsInv, NEW p \in Requests, ReadFile(p) PROVE SettingsInv'
<1>1. /\ request[p] \in Active /\ request[p].at = "read" /\ RequestInv(p)
      /\ request \in [Requests -> {Idle} \cup Active]
  BY DEF SettingsInv, ReadFile, RequestInv, Shape
<1>0. UNCHANGED <<entries, broken, odd, env, running, bounds, before, alone>>
  BY DEF ReadFile
<1>2. PICK f \in request[p].left :
        IF f \in broken \cup odd THEN Finish(p, "refused") ELSE TakeFile(p, f)
  BY DEF ReadFile
<1>3. CASE Finish(p, "refused")
  BY <1>0, <1>1, <1>3, FinishKeeps
<1>4. CASE TakeFile(p, f)
  <2> DEFINE o == request[p]
             last == o.left = {f}
             content == Patched(o, f)
             q == [[[o EXCEPT !.data = [o.data EXCEPT ![f] = content]]
                      EXCEPT !.at = IF last THEN "write" ELSE o.at]
                      EXCEPT !.left = IF last THEN Targets(p) ELSE o.left \ {f}]
  <2>1. request' = [request EXCEPT ![p] = q]
    BY <1>1, <1>4 DEF TakeFile, Active
  <2>2. f \in Files /\ f \in Targets(p) /\ o.left \subseteq Targets(p) /\ o.data \in [Files -> FileContent]
        /\ Targets(p) \subseteq Files /\ o.op = "save" /\ o.end = "none"
    <3>1. Targets(p) \subseteq Files
      BY <1>1, FileAssumption DEF Targets, TargetOf, Active, Patches
    <3> QED  BY <1>1, <1>2, <3>1 DEF RequestInv, Shape, SaveShape
  <2>3. entries \in [Files -> FileContent] /\ InItsFile(entries[f], f)
    BY <2>2 DEF SettingsInv, SettingsTypeOK, InItsFile
  <2>4. o.patch \in [DOMAIN o.patch -> {Absent, "good"}] /\ DOMAIN o.patch \subseteq Keys
    BY <1>1 DEF Active, Patches, RequestInv, Shape, SaveShape
  <2>5. content \in FileContent /\ InItsFile(content, f)
    <3>1. \A k \in Keys : content[k] = IF k \in DOMAIN o.patch /\ TargetOf(o.scope, k) = f
                                    THEN o.patch[k] ELSE entries[f][k]
      BY DEF Patched
    <3>0. content = Patched(o, f)
      OBVIOUS
    <3> HIDE DEF content
    <3>2. ASSUME NEW k \in Keys PROVE content[k] \in {Absent, "good", "other", "null"}
      <4>1. entries[f][k] \in {Absent, "good", "other", "null"}
        BY <2>2, <2>3 DEF FileContent
      <4>2. k \in DOMAIN o.patch => o.patch[k] \in {Absent, "good"}
        BY <2>4
      <4> QED  BY <3>1, <4>1, <4>2
    <3>3. content \in FileContent
      BY <3>0, <3>2 DEF FileContent, Patched
    <3>4. InItsFile(content, f)
      BY <2>3, <3>1 DEF InItsFile, TargetOf
    <3> QED  BY <3>3, <3>4
  <2> HIDE DEF content
  <2>6. /\ q \in Active /\ q.op = "save" /\ q.end = "none" /\ q.patch = o.patch /\ q.scope = o.scope
        /\ q.data = [o.data EXCEPT ![f] = content]
        /\ q.at = IF last THEN "write" ELSE "read"
        /\ q.left = IF last THEN Targets(p) ELSE o.left \ {f}
    BY <1>1, <2>2, <2>5 DEF Active
  <2> HIDE DEF q
  <2>7. UNCHANGED <<entries, broken, odd, env, running, saves, edits, before, alone>>
    BY <1>0 DEF bounds
  <2>8. ASSUME request'[p] = q PROVE RequestInv(p)'
    <3>1. Targets(p)' = Targets(p)
      BY <2>6, <2>8 DEF Targets
    <3>2. q.data \in [Files -> FileContent] /\ \A g \in Files : InItsFile(q.data[g], g)
      BY <1>1, <2>2, <2>5, <2>6 DEF RequestInv, Shape, SaveShape
    <3>3. Shape(p)'
      BY <1>1, <2>2, <2>6, <2>8, <3>1, <3>2 DEF RequestInv, Shape, SaveShape
    <3>4. Progress(p)'
      <4>1. SUFFICES ASSUME alone[p] PROVE SaveProgress(p)' /\ ResetProgress(p)'
        BY <2>7 DEF Progress
      <4>2. entries = before[p]
        BY <1>1, <4>1 DEF RequestInv, Progress, SaveProgress
      <4>3. content = Fully(o, f, before[p][f])
        BY <4>2 DEF content, Patched, Partly, Fully
      <4>4. \A g \in Targets(p) \ (o.left \ {f}) : q.data[g] = Fully(o, g, before[p][g])
        BY <1>1, <2>2, <2>6, <4>1, <4>3 DEF RequestInv, Progress, SaveProgress
      <4>5. \A g \in Files : Fully(q, g, before[p][g]) = Fully(o, g, before[p][g])
        BY <2>6 DEF Fully, Partly
      <4>6. ASSUME NEW g \in Files \ Targets(p) PROVE before[p][g] = Fully(o, g, before[p][g])
        <5>1. before[p][g] \in FileContent
          BY DEF SettingsInv, SettingsTypeOK
        <5>2. \A k \in DOMAIN o.patch : TargetOf(o.scope, k) # g
          BY <4>6 DEF Targets
        <5> QED  BY <5>1, <5>2 DEF Fully, Partly, FileContent
      <4>7. CASE last
        BY <2>2, <2>6, <2>7, <2>8, <3>1, <4>2, <4>4, <4>5, <4>6, <4>7 DEF SaveProgress, ResetProgress
      <4>8. CASE ~last
        BY <2>2, <2>6, <2>7, <2>8, <3>1, <4>2, <4>4, <4>5, <4>8 DEF SaveProgress, ResetProgress
      <4> QED  BY <4>7, <4>8
    <3>5. Exact(p)'
      BY <2>6, <2>8 DEF Exact
    <3> QED  BY <3>3, <3>4, <3>5 DEF RequestInv
  <2> QED  BY <2>1, <2>6, <2>7, <2>8, OneMoves
<1> QED  BY <1>2, <1>3, <1>4

\* A file that was read is replaced; after the last the request has saved.
LEMMA WriteKeeps == ASSUME SettingsInv, NEW p \in Requests, WriteFile(p) PROVE SettingsInv'
<1>1. /\ request[p] \in Active /\ request[p].at = "write" /\ RequestInv(p)
      /\ request \in [Requests -> {Idle} \cup Active]
  BY DEF SettingsInv, WriteFile, RequestInv, Shape
<1> DEFINE o == request[p]
<1>2. PICK f \in o.left :
        /\ Replace(f, o.data[f])
        /\ request' = [request EXCEPT ![p].left = @ \ {f},
             ![p].at = IF request[p].left = {f} THEN "idle" ELSE @,
             ![p].end = IF request[p].left = {f} THEN "saved" ELSE @]
        /\ odd' = odd \ {f}
  BY DEF WriteFile
<1> DEFINE last == o.left = {f}
           q == [[[o EXCEPT !.left = o.left \ {f}]
                    EXCEPT !.at = IF last THEN "idle" ELSE "write"]
                    EXCEPT !.end = IF last THEN "saved" ELSE o.end]
<1>3. request' = [request EXCEPT ![p] = q]
  BY <1>1, <1>2 DEF Active
<1>4. /\ o.left \subseteq Targets(p) /\ Targets(p) \subseteq Files /\ f \in Files
      /\ o.op = "save" /\ o.end = "none"
      /\ o.data \in [Files -> FileContent] /\ InItsFile(o.data[f], f)
  <2>1. Targets(p) \subseteq Files
    BY <1>1, FileAssumption DEF Targets, TargetOf, Active, Patches
  <2> QED  BY <1>1, <2>1 DEF RequestInv, Shape, SaveShape
<1>5. /\ q \in Active /\ q.op = "save" /\ q.patch = o.patch /\ q.scope = o.scope
      /\ q.left = o.left \ {f} /\ q.data = o.data
      /\ q.at = (IF last THEN "idle" ELSE "write") /\ q.end = IF last THEN "saved" ELSE "none"
  BY <1>1, <1>4 DEF Active, Ends
<1> HIDE DEF q
<1>6. ASSUME request'[p] = q, alone'[p] = alone[p], entries' = [entries EXCEPT ![f] = o.data[f]]
      PROVE  RequestInv(p)'
  <2>1. before' = before /\ Targets(p)' = Targets(p)
    BY ZenonT(60), <1>5, <1>6 DEF WriteFile, Targets
  <2>2. Shape(p)'
    BY <1>1, <1>4, <1>5, <1>6, <2>1 DEF RequestInv, Shape, SaveShape
  <2>3. ASSUME alone[p], NEW g \in Files
        PROVE  entries'[g] = IF g \in q.left THEN before[p][g] ELSE Fully(o, g, before[p][g])
    <3>1. entries'[g] = IF g = f THEN o.data[f] ELSE entries[g]
      BY <1>6 DEF SettingsInv, SettingsTypeOK
    <3> QED  BY <1>1, <1>4, <1>5, <2>3, <3>1 DEF RequestInv, Progress, SaveProgress
  <2>4. \A g \in Files : Fully(q, g, before[p][g]) = Fully(o, g, before[p][g])
    BY <1>5 DEF Fully, Partly
  <2>5. Progress(p)'
    BY <1>1, <1>4, <1>5, <1>6, <2>1, <2>3, <2>4 DEF RequestInv, Progress, SaveProgress, ResetProgress
  <2>6. Exact(p)'
    BY <1>5, <1>6, <2>1, <2>3, <2>4 DEF Exact
  <2> QED  BY <2>2, <2>5, <2>6 DEF RequestInv
<1>7. UNCHANGED <<env, running, saves, edits, before>> /\ NobodyElse(p)
      /\ odd' \subseteq odd \cup (Sectioned \cap {f})
  BY <1>2 DEF WriteFile, bounds
<1>8. o.data[f] \in FileContent
  BY <1>4
<1>9. Replace(f, o.data[f]) /\ f \in Files /\ InItsFile(o.data[f], f) /\ q \in Active
  BY <1>2, <1>4, <1>5
<1> DEFINE data == o.data[f]
<1> HIDE DEF o, data
<1>10. request'[p] = q /\ alone'[p] = alone[p] /\ entries' = [entries EXCEPT ![f] = data]
         => RequestInv(p)'
  BY <1>6 DEF data
<1>11. Replace(f, data) /\ InItsFile(data, f) /\ data \in FileContent
  BY <1>8, <1>9 DEF data
<1> QED  BY <1>3, <1>7, <1>9, <1>10, <1>11, OneWrites

LEMMA FailKeeps == ASSUME SettingsInv, NEW p \in Requests, WriteFails(p) PROVE SettingsInv'
BY FinishKeeps DEF WriteFails

\* Keys are taken out of one file in memory: all of them for the user's file,
\* one for a project's.
LEMMA PopKeeps == ASSUME SettingsInv, NEW p \in Requests, Pop(p) PROVE SettingsInv'
<1>1. /\ request[p] \in Active /\ request[p].at = "pop" /\ RequestInv(p)
      /\ request \in [Requests -> {Idle} \cup Active]
  BY DEF SettingsInv, Pop, RequestInv, Shape
<1>0. UNCHANGED <<entries, broken, odd, env, running, bounds, before, alone>>
  BY DEF Pop
<1> DEFINE o == request[p]
<1>2. CASE Finish(p, "refused")
  BY <1>0, <1>1, <1>2, FinishKeeps
<1>3. ASSUME ~Finish(p, "refused") PROVE SettingsInv'
  <2>1. PICK ks \in Together(o) :
          LET f == TargetOf(o.scope, CHOOSE k \in ks : TRUE) IN
          IF f \in broken THEN Finish(p, "refused")
          ELSE request' = [request EXCEPT ![p].at = "popped", ![p].left = @ \ ks,
                 ![p].data = [target |-> f, odd |-> f \in odd,
                              content |-> [k \in Keys |-> IF k \in ks THEN Absent ELSE entries[f][k]]]]
    BY <1>3 DEF Pop
  <2> DEFINE f == TargetOf(o.scope, CHOOSE k \in ks : TRUE)
             content == [k \in Keys |-> IF k \in ks THEN Absent ELSE entries[f][k]]
             data == [target |-> f, odd |-> f \in odd, content |-> content]
             q == [[[o EXCEPT !.at = "popped"] EXCEPT !.left = o.left \ ks] EXCEPT !.data = data]
  <2>2. request' = [request EXCEPT ![p] = q]
    BY <1>1, <1>3, <2>1 DEF Active
  <2>3. /\ o.op = "reset" /\ o.end = "none" /\ o.left \subseteq DOMAIN o.patch /\ o.left # {}
        /\ DOMAIN o.patch \subseteq Keys /\ \A k \in DOMAIN o.patch : o.patch[k] = Absent
        /\ o.scope \in {"user", "project"}
    BY <1>1 DEF RequestInv, Shape, ResetShape, Active, Patches
  <2>4. /\ ks \subseteq o.left /\ ks # {} /\ \A k \in ks : TargetOf(o.scope, k) = f
        /\ f \in Files
    <3>1. ks \subseteq o.left /\ ks # {} /\ (o.scope = "project" => \A k, l \in ks : k = l)
      BY <2>3 DEF Together
    <3>2. (CHOOSE k \in ks : TRUE) \in ks
      BY <3>1
    <3> QED  BY <2>3, <3>1, <3>2, FileAssumption DEF TargetOf
  <2>5. entries[f] \in FileContent /\ InItsFile(entries[f], f)
    BY <2>4 DEF SettingsInv, SettingsTypeOK, InItsFile
  <2>6. content \in FileContent /\ InItsFile(content, f)
    BY <2>5 DEF FileContent, InItsFile
  <2> HIDE DEF f, content
  <2>7. data \in Popped /\ data.target = f /\ data.content = content
        /\ (data.odd => f \in Sectioned)
    <3>1. odd \subseteq Sectioned
      BY DEF SettingsInv, SettingsTypeOK
    <3>2. data \in Popped /\ data.target = f /\ data.content = content
      BY <2>4, <2>6 DEF Popped
    <3>3. data.odd = (f \in odd)
      OBVIOUS
    <3>4. CASE f \in odd
      BY <3>1, <3>2, <3>4
    <3>5. CASE f \notin odd
      BY <3>2, <3>3, <3>5
    <3> QED  BY <3>4, <3>5
  <2> HIDE DEF data
  <2>8. /\ q \in Active /\ q.op = "reset" /\ q.end = "none" /\ q.patch = o.patch /\ q.scope = o.scope
        /\ q.at = "popped" /\ q.left = o.left \ ks /\ q.data = data
    BY <1>1, <2>3, <2>7 DEF Active
  <2> HIDE DEF q
  <2>9. UNCHANGED <<entries, broken, odd, env, running, saves, edits, before, alone>>
    BY <1>0 DEF bounds
  <2>10. ASSUME request'[p] = q PROVE RequestInv(p)'
    <3>1. Shape(p)'
      BY <2>3, <2>6, <2>7, <2>8, <2>10 DEF Shape, ResetShape
    <3>2. ASSUME alone[p], NEW g \in Files
          PROVE  /\ g = f => content = Partly(q, DOMAIN q.patch \ q.left, g, before[p][g])
                 /\ g # f => entries[g] = Partly(q, DOMAIN q.patch \ q.left, g, before[p][g])
      <4>1. entries[g] = Partly(o, DOMAIN o.patch \ o.left, g, before[p][g])
        BY <1>1, <3>2 DEF RequestInv, Progress, ResetProgress
      <4>2. CASE g # f
        BY <2>3, <2>4, <2>8, <4>1, <4>2 DEF Partly
      <4>3. CASE g = f
        <5>1. ASSUME NEW k \in Keys
              PROVE  content[k] = Partly(q, DOMAIN q.patch \ q.left, f, before[p][f])[k]
          <6>1. content[k] = IF k \in ks THEN Absent ELSE entries[f][k]
            BY DEF content
          <6>2. entries[f][k] = IF k \in DOMAIN o.patch \ o.left /\ TargetOf(o.scope, k) = f
                                THEN o.patch[k] ELSE before[p][f][k]
            BY <4>1, <4>3 DEF Partly
          <6> QED  BY <2>3, <2>4, <2>8, <6>1, <6>2 DEF Partly
        <5>2. content = [k \in Keys |-> content[k]]
          BY DEF content
        <5> QED  BY <4>3, <5>1, <5>2 DEF Partly
      <4> QED  BY <4>2, <4>3
    <3>3. Progress(p)'
      BY <2>4, <2>7, <2>8, <2>9, <2>10, <3>2 DEF Progress, SaveProgress, ResetProgress
    <3>4. Exact(p)'
      BY <2>8, <2>10 DEF Exact
    <3> QED  BY <3>1, <3>3, <3>4 DEF RequestInv
  <2> QED  BY <2>2, <2>8, <2>9, <2>10, OneMoves
<1> QED  BY <1>2, <1>3

LEMMA PopWriteKeeps == ASSUME SettingsInv, NEW p \in Requests, PopWrite(p) PROVE SettingsInv'
<1>1. /\ request[p] \in Active /\ request[p].at = "popped" /\ RequestInv(p)
      /\ request \in [Requests -> {Idle} \cup Active]
  BY DEF SettingsInv, PopWrite, RequestInv, Shape
<1> DEFINE o == request[p]
           f == o.data.target
           data == o.data.content
           last == o.left = {}
           q == [[[o EXCEPT !.data = <<>>] EXCEPT !.at = IF last THEN "idle" ELSE "pop"]
                    EXCEPT !.end = IF last THEN "saved" ELSE o.end]
<1>2. /\ request' = [request EXCEPT ![p] = q] /\ Replace(f, data)
      /\ odd' = IF o.data.odd THEN odd \cup {f} ELSE odd \ {f}
  BY <1>1 DEF PopWrite, Active
<1>3. /\ o.op = "reset" /\ o.end = "none" /\ o.left \subseteq DOMAIN o.patch
      /\ \A k \in DOMAIN o.patch : o.patch[k] = Absent
      /\ o.data \in Popped /\ InItsFile(data, f) /\ (o.data.odd => f \in Sectioned)
  BY <1>1 DEF RequestInv, Shape, ResetShape
<1>4. f \in Files /\ data \in FileContent
  BY <1>3 DEF Popped
<1> HIDE DEF f, data
<1>5. /\ q \in Active /\ q.op = "reset" /\ q.patch = o.patch /\ q.scope = o.scope /\ q.left = o.left
      /\ q.at = (IF last THEN "idle" ELSE "pop") /\ q.end = IF last THEN "saved" ELSE "none"
  BY <1>1, <1>3 DEF Active, Ends
<1> HIDE DEF q
<1>6. ASSUME request'[p] = q, alone'[p] = alone[p], entries' = [entries EXCEPT ![f] = data]
      PROVE  RequestInv(p)'
  <2>1. before' = before
    BY DEF PopWrite
  <2>2. Shape(p)'
    BY <1>3, <1>5, <1>6 DEF Shape, ResetShape
  <2>3. ASSUME alone[p], NEW g \in Files
        PROVE  entries'[g] = Partly(q, DOMAIN q.patch \ q.left, g, before[p][g])
    <3>1. entries'[g] = IF g = f THEN data ELSE entries[g]
      BY <1>6 DEF SettingsInv, SettingsTypeOK
    <3>2. Partly(q, DOMAIN q.patch \ q.left, g, before[p][g])
            = Partly(o, DOMAIN o.patch \ o.left, g, before[p][g])
      BY <1>5 DEF Partly
    <3> QED  BY <1>1, <1>3, <2>3, <3>1, <3>2 DEF RequestInv, Progress, ResetProgress, f, data
  <2>4. Progress(p)'
    BY <1>5, <1>6, <2>1, <2>3 DEF Progress, SaveProgress, ResetProgress
  <2>5. Exact(p)'
    <3>1. last => DOMAIN q.patch \ q.left = DOMAIN q.patch
      BY <1>5
    <3> QED  BY <1>5, <1>6, <2>1, <2>3, <3>1 DEF Exact, Fully
  <2> QED  BY <2>2, <2>4, <2>5 DEF RequestInv
<1>7. UNCHANGED <<env, running, saves, edits, before>> /\ NobodyElse(p)
  BY DEF PopWrite, bounds
<1>8. odd' \subseteq odd \cup (Sectioned \cap {f})
  BY <1>2, <1>3
<1>9. Replace(f, data) /\ InItsFile(data, f)
  BY <1>2, <1>3 DEF f, data
<1>10. request'[p] = q /\ alone'[p] = alone[p] /\ entries' = [entries EXCEPT ![f] = data]
         => RequestInv(p)'
  BY <1>6
<1> QED  BY <1>2, <1>4, <1>5, <1>7, <1>8, <1>9, <1>10, OneWrites

\* Starts and stops leave the files; a hand may change any of them, and every
\* request takes note.
LEMMA StartKeeps == ASSUME SettingsInv, Start PROVE SettingsInv'
<1> USE DEF SettingsInv, Start, bounds
<1>1. \A k \in Keys : Config(k) \in Values
  BY FileAssumption DEF SettingsTypeOK, Config, ProjectConfig, Declares, FileContent, Values
<1>2. SettingsTypeOK'
  BY <1>1 DEF SettingsTypeOK
<1>3. \A r \in Requests : RequestInv(r)'
  BY Untouched
<1> QED  BY <1>2, <1>3

LEMMA StopKeeps == ASSUME SettingsInv, Stop PROVE SettingsInv'
<1> USE DEF SettingsInv, Stop, bounds
<1>1. SettingsTypeOK'
  BY DEF SettingsTypeOK, Idle, Ends
<1>2. \A r \in Requests : RequestInv(r)'
  BY DEF RequestInv, Shape, Progress, SaveProgress, ResetProgress, Exact, Idle
<1> QED  BY <1>1, <1>2

LEMMA EditKeeps == ASSUME SettingsInv, EditFile PROVE SettingsInv'
<1> USE DEF SettingsInv
<1>1. /\ alone' = [r \in Requests |-> FALSE] /\ edits' = edits + 1 /\ edits < MaxEdits
      /\ UNCHANGED <<env, running, request, saves, before>>
  BY DEF EditFile
<1>2. \A r \in Requests : RequestInv(r)'
  BY <1>1, Untouched
<1>3. /\ entries' \in [Files -> FileContent] /\ broken' \subseteq Files /\ odd' \subseteq Sectioned
      /\ \A f \in Files : InItsFile(entries'[f], f)
  <2>1. \A f \in Files : InItsFile(entries[f], f)
    BY DEF SettingsTypeOK, InItsFile
  <2>2. PICK f \in Files :
       \/ \E k \in Keys, v \in {Absent, "other", "null"} :
            /\ f = "user" \/ f = FileOf[k]
            /\ entries' = [entries EXCEPT ![f][k] = v]
            /\ odd' = odd \ {f} /\ UNCHANGED broken
       \/ /\ broken' = (broken \ {f}) \cup ({f} \ broken) /\ UNCHANGED <<entries, odd>>
       \/ /\ f \in Sectioned /\ odd' = odd \cup {f}
          /\ entries' = [entries EXCEPT ![f] = Nothing] /\ UNCHANGED broken
    BY DEF EditFile
  <2>3. CASE broken' = (broken \ {f}) \cup ({f} \ broken) /\ UNCHANGED <<entries, odd>>
    BY <2>1, <2>3 DEF SettingsTypeOK
  <2>4. CASE f \in Sectioned /\ odd' = odd \cup {f} /\ entries' = [entries EXCEPT ![f] = Nothing]
             /\ UNCHANGED broken
    BY <2>1, <2>4 DEF SettingsTypeOK, Nothing, FileContent, InItsFile
  <2>5. ASSUME NEW k \in Keys, NEW v \in {Absent, "other", "null"}, f = "user" \/ f = FileOf[k],
               entries' = [entries EXCEPT ![f][k] = v], odd' = odd \ {f}, UNCHANGED broken
        PROVE  /\ entries' \in [Files -> FileContent] /\ broken' \subseteq Files
               /\ odd' \subseteq Sectioned /\ \A g \in Files : InItsFile(entries'[g], g)
    <3>1. entries[f] \in FileContent
      BY DEF SettingsTypeOK
    <3>2. [entries[f] EXCEPT ![k] = v] \in FileContent
      BY <3>1 DEF FileContent
    <3>3. entries' = [entries EXCEPT ![f] = [entries[f] EXCEPT ![k] = v]]
      BY <2>5
    <3>4. entries' \in [Files -> FileContent]
      BY <3>2, <3>3 DEF SettingsTypeOK
    <3>5. \A g \in Files : InItsFile(entries'[g], g)
      BY <2>1, <2>5, <3>1, <3>3 DEF InItsFile, FileContent, SettingsTypeOK
    <3> QED  BY <2>5, <3>4, <3>5 DEF SettingsTypeOK
  <2> QED  BY <2>2, <2>3, <2>4, <2>5
<1>4. SettingsTypeOK'
  <2>1. \A f \in Files, k \in Keys : entries'[f][k] # Absent => f = "user" \/ f = FileOf[k]
    BY <1>3 DEF InItsFile
  <2>2. edits' \in 0..MaxEdits
    BY <1>1, BoundAssumption DEF SettingsTypeOK
  <2> QED  BY <1>1, <1>3, <2>1, <2>2 DEF SettingsTypeOK
<1> QED  BY <1>1, <1>2, <1>4

LEMMA SettingsStep == SettingsInv /\ [SettingsNext]_settingsVars => SettingsInv'
<1> SUFFICES ASSUME SettingsInv, [SettingsNext]_settingsVars PROVE SettingsInv'
  OBVIOUS
<1>1. ASSUME NEW p \in Requests,
             SaveRequest(p) \/ CheckRequest(p) \/ ReadFile(p) \/ WriteFile(p) \/ WriteFails(p)
               \/ ResetRequest(p) \/ Pop(p) \/ PopWrite(p)
      PROVE  SettingsInv'
  BY <1>1, SaveKeeps, CheckKeeps, ReadKeeps, WriteKeeps, FailKeeps, ResetKeeps, PopKeeps, PopWriteKeeps
<1>2. CASE Start  BY <1>2, StartKeeps
<1>3. CASE Stop  BY <1>3, StopKeeps
<1>4. CASE EditFile  BY <1>4, EditKeeps
<1>5. CASE UNCHANGED settingsVars
  <2>1. UNCHANGED <<entries, broken, odd, env, running, request, saves, edits, before, alone>>
    BY <1>5 DEF settingsVars
  <2>2. \A r \in Requests : RequestInv(r)'
    BY <2>1, Untouched DEF SettingsInv
  <2> QED  BY <2>1, <2>2 DEF SettingsInv, SettingsTypeOK
<1> QED  BY <1>1, <1>2, <1>3, <1>4, <1>5 DEF SettingsNext

\* A save or a reset that nobody crossed did exactly what it was asked, and a save
\* that was refused wrote nothing, for any number of requests at once
\* (apply_settings and reset_settings read every file before they write one).
THEOREM RequestCorrect == SettingsSpec => []RequestIsExact
<1>1. SettingsInv => RequestIsExact
  <2> SUFFICES ASSUME SettingsInv PROVE SavedExactly /\ RefusedWritesNothing
    BY DEF SettingsInv, RequestIsExact
  <2>1. ASSUME NEW r \in Requests, request[r].end = "saved", alone[r], NEW f \in Files, NEW k \in Keys
        PROVE  entries[f][k] = IF k \in DOMAIN request[r].patch /\ TargetOf(request[r].scope, k) = f
                               THEN request[r].patch[k] ELSE before[r][f][k]
    <3>1. entries[f] = Fully(request[r], f, before[r][f])
      BY <2>1 DEF SettingsInv, RequestInv, Exact
    <3> QED  BY <3>1 DEF Fully, Partly
  <2>2. SavedExactly
    BY <2>1 DEF SavedExactly
  <2>3. RefusedWritesNothing
    BY DEF SettingsInv, RequestInv, Exact, RefusedWritesNothing
  <2> QED  BY <2>2, <2>3
<1> QED  BY <1>1, SettingsInit0, SettingsStep, PTL DEF SettingsSpec

\* What the screen shows is what a restart would load, for every set of keys,
\* scopes and files, except where config.py does not read what load_settings does.
THEOREM ShownCorrect == SettingsSpec => []ShownIsConfig
<1>1. SettingsInv => ShownIsConfig
  <2> SUFFICES ASSUME SettingsInv, NEW k \in Keys
               PROVE  \/ Source(k) = "project" /\ k \in Unread
                      \/ Source(k) = "project" /\ k \in Nullable /\ entries[FileOf[k]][k] = "null"
                      \/ Shown(k) = Config(k)
    BY DEF ShownIsConfig
  <2>1. CASE Source(k) = "environment"
    BY <2>1 DEF Source, Shown, Config
  <2>2. CASE Source(k) = "user"
    BY <2>2 DEF Source, Shown, Config
  <2>3. CASE Source(k) = "project"
    BY <2>3 DEF Source, Shown, Config, ProjectConfig
  <2>4. CASE Source(k) = "default"
    BY <2>4 DEF Shown
  <2> QED  BY <2>1, <2>2, <2>3, <2>4 DEF Source
<1> QED  BY <1>1, SettingsInit0, SettingsStep, PTL DEF SettingsSpec

\* No save, reset, failed write or crash makes a configuration unloadable: a file
\* is replaced whole, and only a hand breaks one.
THEOREM LoadableCorrect == SettingsSpec => StaysLoadable
<1>1. SettingsInv /\ [SettingsNext]_settingsVars => [edits' = edits /\ Loads => Loads']_settingsVars
  <2> SUFFICES ASSUME SettingsInv, SettingsNext, edits' = edits, Loads PROVE Loads'
    OBVIOUS
  <2>1. broken' \subseteq broken /\ env' = env
    <3>1. ASSUME NEW p \in Requests,
                 SaveRequest(p) \/ ResetRequest(p) \/ CheckRequest(p) \/ ReadFile(p)
                   \/ WriteFails(p) \/ Pop(p)
          PROVE  broken' = broken /\ env' = env
      BY <3>1 DEF SaveRequest, ResetRequest, Begin, CheckRequest, ReadFile, WriteFails, Pop
    <3>2. ASSUME NEW p \in Requests, WriteFile(p) \/ PopWrite(p)
          PROVE  broken' \subseteq broken /\ env' = env
      BY <3>2 DEF WriteFile, PopWrite, Replace
    <3>3. EditFile => edits' # edits
      BY BoundAssumption DEF EditFile, SettingsInv, SettingsTypeOK
    <3> QED  BY <3>1, <3>2, <3>3 DEF SettingsNext, Start, Stop
  <2> QED  BY <2>1 DEF Loads, ConfigFiles
<1> QED  BY <1>1, SettingsInit0, SettingsStep, PTL DEF SettingsSpec, StaysLoadable
=============================================================================
