--------------------------- MODULE DocumentsProofs ---------------------------
(***************************************************************************)
(* What Authoring and Commands guarantee.  Authoring, for any number of      *)
(* plans, requests, decisions and titles: only locked plans are run, and once *)
(* by requests that do not overlap and do not fail; the ADRs are those of the *)
(* accepted decisions; and what a person wrote is overwritten on request only. *)
(* Commands, for any documents, references, budgets and ledgers: a finished   *)
(* site shows what it may, the summary counts each task once, and contexts    *)
(* and impact reports are exact.                                           *)
(***************************************************************************)
EXTENDS Authoring, Commands, FiniteSetTheorems, TLAPS

-----------------------------------------------------------------------------
(* Authoring: plans, decisions and their files                               *)

Requests(steps) == {Idle} \cup [at : steps, plan : Plans]
Loading == {Idle} \cup [at : {"loaded"}, accepted : SUBSET Decisions, overwrite : BOOLEAN]

TypeInv ==
  /\ plan \in [Plans -> PlanStates]
  /\ locker \in [Lockers -> Requests({"loaded", "write"})]
  /\ starter \in [Starters -> Requests({"loaded", "consume", "write"})]
  /\ acceptor \in [Acceptors -> Decisions \cup {0}]
  /\ run \in [RunIds -> [at : {"none", "working", "row", "lost"}, plan : Plans \cup {NoPlan}]]
  /\ decision \in [Decisions -> {"absent", "PROPOSED", "ACCEPTED"}]
  /\ draft \in [Domains -> {"lacking", "sufficient"}]
  /\ loaded \in Loading
  /\ slugOf \in Titles
  /\ files \in [AdrPaths -> FileStates] /\ adrOf \in [AdrPaths -> Decisions \cup {0}]
  /\ ledger \in [state : FileStates, lists : SUBSET Decisions]
  /\ edits \in 0..MaxEdits /\ finals \in 0..MaxFinal
  /\ overlapped \in SUBSET Plans /\ everLocked \in SUBSET Plans /\ adrift \in SUBSET RunIds
  /\ finalized \in SUBSET Decisions

LEMMA TypeInvIsType == TypeInv => TypeOK
BY DEF TypeInv, TypeOK, Requests, Loading, Idle

LEMMA TypeInit == Init => TypeInv
BY BoundAssumption
DEF Init, TypeInv, Requests, Loading, PlanStates, FileStates, NoRun, RunIds, NoPlan

(* Decision numbers are positive: 0 stands for no request.                 *)
LEMMA DecisionsArePositive == 0 \notin Decisions /\ Decisions \subseteq Nat
BY DecisionAssumption, FS_CardinalityType

(* A run that can be started gets an id of its own.                        *)
LEMMA FreshIsFree == CanStart => FreshRun \in RunIds /\ run[FreshRun] = NoRun
BY DEF CanStart, FreshRun

(* Files that are written keep their type.                                 *)
LEMMA WriteType ==
  ASSUME TypeInv, NEW whole, NEW torn, WriteFiles(whole, torn)
  PROVE  /\ files' \in [AdrPaths -> FileStates] /\ DOMAIN files = AdrPaths /\ DOMAIN adrOf' = AdrPaths
         /\ \A f \in AdrPaths : /\ files'[f] = IF f \in torn THEN "torn"
                                             ELSE IF f \in whole THEN "rendered" ELSE files[f]
                                /\ adrOf'[f] = IF f \in whole \cup torn
                                               THEN Numbered(loaded.accepted, f[1]) ELSE adrOf[f]
BY DEF TypeInv, WriteFiles, FileStates

(* Writing the ledger keeps its type.                                       *)
LEMMA LedgerType ==
  ASSUME TypeInv, loaded.at = "loaded", NEW states \in SUBSET FileStates, WriteLedger(states)
  PROVE  ledger' \in [state : FileStates, lists : SUBSET Decisions]
BY DEF TypeInv, WriteLedger, Loading, Idle

(* The number of an accepted decision is one of the numbers 1, 2, ...      *)
LEMMA NumberType ==
  ASSUME NEW accepted \in SUBSET Decisions, NEW d \in accepted
  PROVE  IndexIn(accepted, d) \in Decisions
<1> DEFINE upTo == {e \in accepted : e <= d}
<1>1. IsFiniteSet(upTo) /\ Cardinality(upTo) <= Cardinality(Decisions)
  BY DecisionAssumption, FS_Subset, upTo \in SUBSET Decisions
<1>2. d \in upTo
  BY DecisionsArePositive
<1>3. Cardinality(upTo) \in Nat /\ Cardinality(upTo) # 0
  BY <1>1, <1>2, FS_CardinalityType, FS_EmptySet
<1>4. Cardinality(Decisions) \in Nat
  BY DecisionAssumption, FS_CardinalityType
<1>5. Cardinality(upTo) \in 1..Cardinality(Decisions)
  BY <1>1, <1>3, <1>4
<1> QED  BY <1>5, DecisionAssumption DEF IndexIn

(* A later decision has a greater number.                                   *)
LEMMA NumbersGrow ==
  ASSUME NEW accepted \in SUBSET Decisions, NEW d \in accepted, NEW e \in accepted, d < e
  PROVE  IndexIn(accepted, d) # IndexIn(accepted, e)
<1> DEFINE upTo(n) == {c \in accepted : c <= n}
<1>1. d \in Nat /\ e \in Nat /\ \A c \in accepted : c \in Nat
  BY DecisionsArePositive
<1>5. \A c \in Nat : c <= d => c <= e
  BY <1>1
<1>6. e <= e /\ ~(e <= d)
  BY <1>1
<1>2. upTo(d) \subseteq upTo(e) /\ e \in upTo(e) /\ e \notin upTo(d)
  BY <1>1, <1>5, <1>6
<1>3. IsFiniteSet(upTo(e))
  BY DecisionAssumption, FS_Subset, upTo(e) \in SUBSET Decisions
<1>4. Cardinality(upTo(d)) # Cardinality(upTo(e))
  BY <1>2, <1>3, FS_Subset
<1> QED  BY <1>4 DEF IndexIn

(* So that a number tells the decision.                                     *)
LEMMA NumberedIs ==
  ASSUME NEW accepted \in SUBSET Decisions, NEW d \in accepted
  PROVE  Numbered(accepted, IndexIn(accepted, d)) = d
<1>1. ASSUME NEW e \in accepted, IndexIn(accepted, e) = IndexIn(accepted, d) PROVE e = d
  <2>1. d \in Nat /\ e \in Nat
    BY DecisionsArePositive
  <2>2. ~(d < e) /\ ~(e < d)
    BY <1>1, NumbersGrow
  <2> QED  BY <2>1, <2>2
<1>2. Numbered(accepted, IndexIn(accepted, d)) \in accepted
      /\ IndexIn(accepted, Numbered(accepted, IndexIn(accepted, d))) = IndexIn(accepted, d)
  BY DEF Numbered
<1> QED  BY <1>1, <1>2

(* Every file to be written is that of a decision that was loaded as accepted. *)
LEMMA ArtifactsAre ==
  ASSUME TypeInv, NEW accepted \in SUBSET Decisions, NEW f \in Artifacts(accepted)
  PROVE  /\ f \in AdrPaths /\ Numbered(accepted, f[1]) \in accepted \cap NeedAdr
         /\ slugOf[Numbered(accepted, f[1])] = f[2]
<1>1. PICK d \in accepted \cap NeedAdr : f = <<IndexIn(accepted, d), slugOf[d]>>
  BY DEF Artifacts, AdrPath
<1>2. f[1] = IndexIn(accepted, d) /\ f[2] = slugOf[d] /\ d \in accepted
  BY <1>1
<1>3. Numbered(accepted, f[1]) = d
  BY <1>2, NumberedIs
<1>4. IndexIn(accepted, d) \in Decisions /\ slugOf[d] \in Slugs
  BY <1>1, NumberType, AdrAssumption DEF TypeInv
<1> QED  BY <1>1, <1>2, <1>3, <1>4 DEF AdrPaths

(* What was written has its type.                                           *)
LEMMA AdrOfType ==
  ASSUME TypeInv, loaded.at = "loaded", NEW whole, NEW torn,
         whole \cup torn \subseteq Todo, WriteFiles(whole, torn)
  PROVE  adrOf' \in [AdrPaths -> Decisions \cup {0}]
<1>1. loaded.accepted \in SUBSET Decisions
  BY DEF TypeInv, Loading, Idle
<1>2. \A f \in whole \cup torn : Numbered(loaded.accepted, f[1]) \in Decisions
  BY <1>1, ArtifactsAre DEF Todo, Rendered
<1>3. \A f \in AdrPaths : adrOf'[f] \in Decisions \cup {0}
  BY <1>2, WriteType DEF TypeInv
<1> QED  BY <1>3 DEF WriteFiles, TypeInv

(* What a crash leaves of the files that were being written.                *)
LEMMA CrashIs ==
  ASSUME TypeInv, Crash
  PROVE  /\ ledger' \in [state : FileStates, lists : SUBSET Decisions]
         /\ \/ UNCHANGED <<files, adrOf>>
            \/ \E whole, torn : /\ loaded.at = "loaded" /\ whole \cup torn \subseteq Todo
                               /\ WriteFiles(whole, torn)
<1>1. CASE UNCHANGED <<files, adrOf, ledger>>
  BY <1>1 DEF TypeInv
<1>2. CASE /\ loaded.at = "loaded"
           /\ \E whole \in SUBSET Todo : \E torn \in {{}} \cup {{f} : f \in Todo \ whole} :
                WriteFiles(whole, torn)
           /\ UNCHANGED ledger
  <2>1. PICK whole \in SUBSET Todo : \E torn \in {{}} \cup {{f} : f \in Todo \ whole} :
          WriteFiles(whole, torn)
    BY <1>2
  <2>2. PICK torn \in {{}} \cup {{f} : f \in Todo \ whole} : WriteFiles(whole, torn)
    BY <2>1
  <2>3. whole \cup torn \subseteq Todo
    OBVIOUS
  <2> QED  BY <1>2, <2>2, <2>3 DEF TypeInv
<1>3. CASE /\ loaded.at = "loaded"
           /\ WriteFiles(Todo, {}) /\ WriteLedger({"torn", "rendered"})
  <2>1. {"torn", "rendered"} \in SUBSET FileStates /\ Todo \cup {} \subseteq Todo
    BY DEF FileStates
  <2> QED  BY <1>3, <2>1, LedgerType
<1> QED  BY <1>1, <1>2, <1>3 DEF Crash

LEMMA TypeStep == TypeInv /\ [Next]_vars => TypeInv'
<1> SUFFICES ASSUME TypeInv, [Next]_vars PROVE TypeInv'
  OBVIOUS
<1> USE DEF planVars, talkVars, fileVars, TypeInv
<1>1. ASSUME NEW p \in Plans, CreatePlan(p) PROVE TypeInv'
  BY <1>1 DEF CreatePlan, PlanStates
<1>2. ASSUME NEW p \in Plans, NEW l \in Lockers, LockLoad(l, p) PROVE TypeInv'
  BY <1>2 DEF LockLoad, Requests, Busy, Enter
<1>3. ASSUME NEW l \in Lockers, LockCheck(l) PROVE TypeInv'
  <2>1. locker[l] \in [at : {"loaded", "write"}, plan : Plans]
    BY <1>3 DEF LockCheck, Requests, Idle
  <2> QED  BY <1>3, <2>1 DEF LockCheck, Requests, Busy
<1>4. ASSUME NEW l \in Lockers, LockWrite(l) PROVE TypeInv'
  <2>1. locker[l] \in [at : {"loaded", "write"}, plan : Plans]
    BY <1>4 DEF LockWrite, Requests, Idle
  <2> QED  BY <1>4, <2>1 DEF LockWrite, Requests, PlanStates
<1>5. ASSUME NEW s \in Starters, NEW p \in Plans, NEW g \in Goals, StartLoad(s, p, g)
      PROVE  TypeInv'
  BY <1>5 DEF StartLoad, Requests, Busy, Enter
<1>6. ASSUME NEW s \in Starters, StartRun(s) PROVE TypeInv'
  <2>1. starter[s] \in [at : {"loaded", "consume", "write"}, plan : Plans]
    BY <1>6 DEF StartRun, Requests, Idle
  <2> QED  BY <1>6, <2>1 DEF StartRun, Requests, Busy
<1>7. ASSUME NEW s \in Starters, ConsumeCheck(s) PROVE TypeInv'
  <2>1. starter[s] \in [at : {"loaded", "consume", "write"}, plan : Plans]
    BY <1>7 DEF ConsumeCheck, Requests, Idle
  <2> QED  BY <1>7, <2>1 DEF ConsumeCheck, Requests, Busy
<1>8. ASSUME NEW s \in Starters, ConsumeWrite(s) PROVE TypeInv'
  BY <1>8 DEF ConsumeWrite, Requests, PlanStates
<1>20. ASSUME NEW l \in Lockers, LockFails(l) PROVE TypeInv'
  BY <1>20 DEF LockFails, Requests
<1>21. ASSUME NEW s \in Starters, StartRefused(s) PROVE TypeInv'
  BY <1>21 DEF StartRefused, Requests
<1>22. ASSUME NEW s \in Starters, ConsumeFails(s) PROVE TypeInv'
  BY <1>22 DEF ConsumeFails, Requests, Started
<1>23. ASSUME NEW a \in Acceptors, AcceptFails(a) PROVE TypeInv'
  BY <1>23 DEF AcceptFails
<1>9. CASE StartUnplanned
  BY <1>9 DEF StartUnplanned
<1>10. CASE RunSaved
  <2>1. PICK i \in RunIds : run' = [run EXCEPT ![i].at = "row"]
    BY <1>10 DEF RunSaved
  <2>2. run' \in [RunIds -> [at : {"none", "working", "row", "lost"}, plan : Plans \cup {NoPlan}]]
    BY <2>1
  <2> QED  BY <1>10, <2>2 DEF RunSaved
<1>11. ASSUME NEW d \in Decisions, Propose(d) PROVE TypeInv'
  BY <1>11 DEF Propose
<1>12. ASSUME NEW d \in Decisions, NEW a \in Acceptors, AcceptLoad(a, d) PROVE TypeInv'
  BY <1>12 DEF AcceptLoad
<1>13. ASSUME NEW a \in Acceptors, AcceptSave(a) PROVE TypeInv'
  BY <1>13 DEF AcceptSave
<1>14. CASE SaveDraft
  BY <1>14 DEF SaveDraft
<1>15. CASE FinalizeLoad
  <2>1. loaded' \in Loading
    BY <1>15 DEF FinalizeLoad, Loading, Accepted
  <2> QED  BY <1>15, <2>1, BoundAssumption DEF FinalizeLoad
<1>16. CASE FinalizeWrite
  <2>1. loaded.accepted \in SUBSET Decisions /\ loaded.at = "loaded"
    BY <1>16 DEF FinalizeWrite, Loading, Idle
  <2>2. ledger' \in [state : FileStates, lists : SUBSET Decisions]
    <3>1. {"rendered"} \in SUBSET FileStates
      BY DEF FileStates
    <3>2. UNCHANGED ledger \/ WriteLedger({"rendered"})
      BY <1>16 DEF FinalizeWrite
    <3> QED  BY <2>1, <3>1, <3>2, LedgerType
  <2>3. WriteFiles(Todo, {})
    BY <1>16 DEF FinalizeWrite, Todo
  <2>4. files' \in [AdrPaths -> FileStates] /\ adrOf' \in [AdrPaths -> Decisions \cup {0}]
    <3>1. Todo \cup {} \subseteq Todo
      OBVIOUS
    <3> QED  BY <2>1, <2>3, <3>1, WriteType, AdrOfType
  <2> QED  BY <1>16, <2>1, <2>2, <2>4 DEF FinalizeWrite, Loading
<1>17. CASE EditByHand
  <2>1. files' \in [AdrPaths -> FileStates]
    BY <1>17 DEF EditByHand, FileStates
  <2>2. ledger' \in [state : FileStates, lists : SUBSET Decisions]
    BY <1>17 DEF EditByHand, FileStates
  <2> QED  BY <1>17, <2>1, <2>2, BoundAssumption DEF EditByHand
<1>18. CASE Crash
  <2>1. files' \in [AdrPaths -> FileStates] /\ adrOf' \in [AdrPaths -> Decisions \cup {0}]
        /\ ledger' \in [state : FileStates, lists : SUBSET Decisions]
    <3>1. CASE UNCHANGED <<files, adrOf>>
      BY <3>1, CrashIs, <1>18
    <3>2. ASSUME NEW whole, NEW torn, loaded.at = "loaded", whole \cup torn \subseteq Todo,
                 WriteFiles(whole, torn)
          PROVE  files' \in [AdrPaths -> FileStates] /\ adrOf' \in [AdrPaths -> Decisions \cup {0}]
      BY <3>2, WriteType, AdrOfType
    <3> QED  BY <1>18, <3>1, <3>2, CrashIs
  <2>2. run' \in [RunIds -> [at : {"none", "working", "row", "lost"}, plan : Plans \cup {NoPlan}]]
    BY <1>18 DEF Crash
  <2> QED  BY <1>18, <2>1, <2>2 DEF Crash, Requests, Loading
<1>19. CASE UNCHANGED vars
  BY <1>19 DEF vars
<1> QED  BY <1>1, <1>2, <1>3, <1>4, <1>5, <1>6, <1>7, <1>8, <1>9, <1>10, <1>11, <1>12, <1>13,
            <1>14, <1>15, <1>16, <1>17, <1>18, <1>19, <1>20, <1>21, <1>22, <1>23 DEF Next

----------------------------------------------------------------------------
(* Decisions and their ADRs *)

AdrIsOf(d, f) == d \in NeedAdr /\ decision[d] = "ACCEPTED" /\ slugOf[d] = f[2]

AdrInv ==
  /\ loaded # Idle => \A d \in loaded.accepted : decision[d] = "ACCEPTED"
  /\ \A f \in AdrPaths : files[f] # "absent" => AdrIsOf(adrOf[f], f)
  /\ \A d \in finalized \cap NeedAdr : files[AdrPath(finalized, d)] # "absent"

LEMMA PathType ==
  ASSUME TypeInv, NEW accepted \in SUBSET Decisions, NEW d \in accepted
  PROVE  AdrPath(accepted, d) \in AdrPaths
BY NumberType, AdrAssumption DEF AdrPath, AdrPaths, TypeInv

(* A file with the slug of one decision only is of that decision.           *)
LEMMA AdrInvFollows == TypeInv /\ AdrInv => AdrsFollow
<1> SUFFICES ASSUME TypeInv, AdrInv PROVE AdrsFollow
  OBVIOUS
<1>1. AdrsAreAccepted
  BY DEF AdrInv, AdrsAreAccepted, AdrIsOf
<1>2. ASSUME NEW d \in finalized \cap NeedAdr, OwnSlug(d)
      PROVE  adrOf[AdrPath(finalized, d)] = d
  <2> DEFINE f == AdrPath(finalized, d)
  <2>1. f \in AdrPaths /\ files[f] # "absent" /\ f[2] = slugOf[d]
    BY PathType DEF AdrInv, TypeInv, AdrPath
  <2>2. AdrIsOf(adrOf[f], f)
    BY <2>1 DEF AdrInv
  <2> QED  BY <1>2, <2>1, <2>2 DEF OwnSlug, AdrIsOf
<1>3. FinalizedHasAdr
  BY <1>2 DEF AdrInv, FinalizedHasAdr
<1> QED  BY <1>1, <1>3 DEF AdrsFollow

(* Writing may add the ADRs of what was loaded, and removes nothing.        *)
LEMMA WriteAdrs ==
  ASSUME TypeInv, AdrInv, loaded.at = "loaded", NEW whole, NEW torn,
         whole \cup torn \subseteq Todo, WriteFiles(whole, torn)
  PROVE  /\ \A f \in AdrPaths : files'[f] # "absent" => AdrIsOf(adrOf'[f], f)
         /\ \A f \in AdrPaths : files[f] # "absent" => files'[f] # "absent"
<1>1. loaded.accepted \in SUBSET Decisions
  BY DEF TypeInv, Loading, Idle
<1>2. \A f \in whole \cup torn : AdrIsOf(Numbered(loaded.accepted, f[1]), f)
  BY <1>1, ArtifactsAre DEF Todo, Rendered, AdrInv, AdrIsOf, Idle
<1> QED  BY <1>2, WriteType DEF AdrInv

LEMMA AdrInit == Init => AdrInv
BY DEF Init, AdrInv

LEMMA AdrStep == TypeInv /\ AdrInv /\ [Next]_vars => AdrInv'
<1> SUFFICES ASSUME TypeInv, AdrInv, [Next]_vars PROVE AdrInv'
  OBVIOUS
<1> USE DEF planVars, talkVars, fileVars
<1>0. /\ \A f \in AdrPaths : files[f] # "absent" => adrOf[f] \in Decisions
      /\ loaded # Idle => loaded.accepted \subseteq Decisions
  BY AdrAssumption DEF AdrInv, AdrIsOf, TypeInv, Loading
<1>1. ASSUME UNCHANGED <<slugOf, files, adrOf, finalized, loaded>>,
             \A d \in Decisions : decision[d] = "ACCEPTED" => decision'[d] = "ACCEPTED"
      PROVE  AdrInv'
  BY <1>0, <1>1 DEF AdrInv, AdrIsOf, AdrPath
<1>2. ASSUME NEW d \in Decisions, Propose(d) PROVE AdrInv'
  BY <1>2, <1>1 DEF Propose, TypeInv
<1>3. ASSUME NEW a \in Acceptors, AcceptSave(a) \/ AcceptFails(a) PROVE AdrInv'
  BY <1>3, <1>1 DEF AcceptSave, AcceptFails, TypeInv
<1>4. CASE FinalizeLoad
  BY <1>4 DEF FinalizeLoad, AdrInv, AdrIsOf, AdrPath, Accepted
<1>5. CASE FinalizeWrite
  <2>1. loaded.accepted \in SUBSET Decisions /\ loaded.at = "loaded"
    BY <1>5 DEF FinalizeWrite, TypeInv, Loading, Idle
  <2>2. /\ WriteFiles(Todo, {}) /\ finalized' = loaded.accepted /\ loaded' = Idle
        /\ UNCHANGED <<slugOf, decision>>
    BY <1>5 DEF FinalizeWrite, Todo
  <2>3. /\ \A f \in AdrPaths : files'[f] # "absent" => AdrIsOf(adrOf'[f], f)
        /\ \A f \in AdrPaths : files[f] # "absent" => files'[f] # "absent"
    <3>1. Todo \cup {} \subseteq Todo
      OBVIOUS
    <3> QED  BY <2>1, <2>2, <3>1, WriteAdrs
  <2>4. ASSUME NEW d \in loaded.accepted \cap NeedAdr
        PROVE  files'[AdrPath(loaded.accepted, d)] # "absent"
    <3>1. PICK f \in AdrPaths : f = AdrPath(loaded.accepted, d) /\ f \in Artifacts(loaded.accepted)
      BY <2>1, PathType DEF Artifacts
    <3>2. CASE f \in Todo
      <4>1. files'[f] = "rendered"
        BY <2>2, <3>2, WriteType
      <4> QED  BY <3>1, <4>1
    <3>3. CASE f \notin Todo
      <4>1. files[f] # "absent"
        BY <3>1, <3>3 DEF Todo, Rendered, Skipped
      <4> QED  BY <2>3, <3>1, <4>1
    <3> QED  BY <3>2, <3>3
  <2> QED  BY <2>2, <2>3, <2>4 DEF AdrInv, AdrIsOf, AdrPath
<1>6. CASE EditByHand
  <2>1. \A f \in AdrPaths : files'[f] # "absent" <=> files[f] # "absent"
    BY <1>6 DEF EditByHand, TypeInv
  <2>2. \A d \in finalized \cap NeedAdr : AdrPath(finalized, d) \in AdrPaths
    BY PathType DEF TypeInv
  <2>3. UNCHANGED <<slugOf, adrOf, finalized, loaded, decision>>
    BY <1>6 DEF EditByHand
  <2> QED  BY <2>1, <2>2, <2>3 DEF AdrInv, AdrIsOf, AdrPath
<1>7. CASE Crash
  <2>0. UNCHANGED <<slugOf, finalized, decision>> /\ loaded' = Idle
    BY <1>7 DEF Crash
  <2>1. CASE UNCHANGED <<files, adrOf>>
    BY <2>0, <2>1 DEF AdrInv, AdrIsOf, AdrPath
  <2>2. ASSUME loaded.at = "loaded", NEW whole, NEW torn, whole \cup torn \subseteq Todo,
               WriteFiles(whole, torn)
        PROVE  AdrInv'
    <3>1. \A f \in AdrPaths : /\ files'[f] # "absent" => AdrIsOf(adrOf'[f], f)
                              /\ files[f] # "absent" => files'[f] # "absent"
      BY <2>2, WriteAdrs
    <3>2. \A d \in finalized \cap NeedAdr : AdrPath(finalized, d) \in AdrPaths
      BY PathType DEF TypeInv
    <3>3. \A d \in finalized \cap NeedAdr : files'[AdrPath(finalized, d)] # "absent"
      BY <3>1, <3>2 DEF AdrInv
    <3>4. (\A d \in finalized \cap NeedAdr : files[AdrPath(finalized, d)] # "absent")'
      BY <2>0, <3>3 DEF AdrPath
    <3>5. (\A f \in AdrPaths : files[f] # "absent" => AdrIsOf(adrOf[f], f))'
      BY <2>0, <3>1 DEF AdrIsOf
    <3>6. loaded' = Idle
      BY <2>0
    <3> QED  BY <3>4, <3>5, <3>6 DEF AdrInv
  <2> QED  BY <1>7, <2>1, <2>2, CrashIs
<1>8. ASSUME NEW p \in Plans, CreatePlan(p) \/ \E l \in Lockers : LockLoad(l, p)
      PROVE  AdrInv'
  BY <1>8, <1>1 DEF CreatePlan, LockLoad
<1>9. ASSUME NEW l \in Lockers, LockCheck(l) \/ LockWrite(l) \/ LockFails(l) PROVE AdrInv'
  BY <1>9, <1>1 DEF LockCheck, LockWrite, LockFails
<1>10. ASSUME NEW s \in Starters,
              \/ \E p \in Plans, g \in Goals : StartLoad(s, p, g)
              \/ StartRun(s) \/ StartRefused(s)
              \/ ConsumeCheck(s) \/ ConsumeWrite(s) \/ ConsumeFails(s)
       PROVE  AdrInv'
  BY <1>10, <1>1 DEF StartLoad, StartRun, StartRefused, ConsumeCheck, ConsumeWrite, ConsumeFails
<1>11. CASE StartUnplanned \/ RunSaved \/ SaveDraft \/ UNCHANGED vars
  BY <1>11, <1>1 DEF StartUnplanned, RunSaved, SaveDraft, vars
<1>12. ASSUME NEW d \in Decisions, NEW a \in Acceptors, AcceptLoad(a, d) PROVE AdrInv'
  BY <1>12, <1>1 DEF AcceptLoad
<1> QED  BY <1>2, <1>3, <1>4, <1>5, <1>6, <1>7, <1>8, <1>9, <1>10, <1>11, <1>12 DEF Next

(* The ADRs of the project are those of the accepted decisions, whatever     *)
(* crashed, was edited or was there before, whichever titles have the same    *)
(* slug: each has a file, its own if its slug is (write_artifacts).          *)
THEOREM AdrsCorrect == Spec => []AdrsFollow
<1>1. Init => TypeInv /\ AdrInv
  BY TypeInit, AdrInit
<1>2. TypeInv /\ AdrInv /\ [Next]_vars => (TypeInv /\ AdrInv)'
  BY TypeStep, AdrStep
<1>3. TypeInv /\ AdrInv => AdrsFollow
  BY AdrInvFollows
<1> QED  BY <1>1, <1>2, <1>3, PTL DEF Spec

(* A file that a person changed is overwritten only when the request asked   *)
(* for it (write_artifacts: overwrite).                                     *)
THEOREM EditsCorrect == Spec => HandEditsKept
<1>1. ASSUME TypeInv, [Next]_vars
      PROVE  [\A f \in DOMAIN files :
                files[f] = "edited" /\ files'[f] # "edited"
                  => loaded # Idle /\ loaded.overwrite]_vars
  <2> SUFFICES ASSUME NEW f \in DOMAIN files, files[f] = "edited", files'[f] # "edited"
               PROVE  loaded # Idle /\ loaded.overwrite
    OBVIOUS
  <2> USE DEF planVars, talkVars, fileVars
  <2>1. ASSUME UNCHANGED files PROVE FALSE
    BY <2>1
  <2>2. ASSUME loaded.at = "loaded", NEW whole, NEW torn, whole \cup torn \subseteq Todo,
               WriteFiles(whole, torn)
        PROVE  loaded # Idle /\ loaded.overwrite
    <3>1. f \in Todo
      BY <2>2, WriteType, <1>1
    <3> QED  BY <2>2, <3>1 DEF Todo, Rendered, Skipped, Idle
  <2>3. CASE FinalizeWrite
    <3>1. Todo \cup {} \subseteq Todo
      OBVIOUS
    <3> QED  BY <2>3, <2>2, <3>1 DEF FinalizeWrite, Todo
  <2>4. CASE Crash
    BY <2>4, <2>1, <2>2, <1>1, CrashIs
  <2>5. CASE EditByHand
    BY <2>5, <1>1 DEF EditByHand, TypeInv
  <2> QED  BY <1>1, <2>1, <2>3, <2>4, <2>5
      DEF Next, vars, CreatePlan, LockLoad, LockCheck, LockWrite, LockFails, StartLoad, StartRun,
          StartRefused, ConsumeCheck, ConsumeWrite, ConsumeFails, StartUnplanned, RunSaved, Propose,
          AcceptLoad, AcceptSave, AcceptFails, SaveDraft, FinalizeLoad
<1> QED  BY <1>1, TypeInit, TypeStep, PTL DEF Spec, HandEditsKept

----------------------------------------------------------------------------
(* Plans and their runs *)

(* What is run was locked, also while the plan is on its way.              *)
LockedInv ==
  /\ OnlyLockedRuns
  /\ \A p \in Plans : plan[p] \in {"LOCKED", "CONSUMED"} => p \in everLocked
  /\ \A s \in Starters : starter[s] # Idle => starter[s].plan \in everLocked

(* A request that consumes a plan has started its run.                     *)
StartedInv ==
  /\ ConsumedWasStarted
  /\ \A s \in Starters, p \in Plans :
       starter[s].at \in {"consume", "write"} /\ starter[s].plan = p => Started(p) # {}

Locks(l, p) == locker[l].at # "idle" /\ locker[l].plan = p
Starts(s, p) == starter[s].at # "idle" /\ starter[s].plan = p

(* The runs of a plan that its saving as CONSUMED did not fail for.          *)
Current(p) == Started(p) \ adrift

(* A plan that requests visit one after the other: at most one request is at  *)
(* it, a locker finds it a draft and a starter finds it locked, and its run   *)
(* is there once its request has left the first step.                       *)
AloneAt(p) ==
  /\ \A l, m \in Lockers : Locks(l, p) /\ Locks(m, p) => l = m
  /\ \A s, t \in Starters : Starts(s, p) /\ Starts(t, p) => s = t
  /\ \A l \in Lockers, s \in Starters : ~(Locks(l, p) /\ Starts(s, p))
  /\ \A l \in Lockers : Locks(l, p) => plan[p] = "DRAFT"
  /\ \A s \in Starters : Starts(s, p) => /\ plan[p] = "LOCKED"
                                         /\ starter[s].at = "loaded" => Current(p) = {}
  /\ plan[p] \in {"absent", "DRAFT"} => Current(p) = {}
  /\ plan[p] = "LOCKED" /\ (\A s \in Starters : ~Starts(s, p)) => Current(p) = {}
  /\ \A i, j \in Current(p) : i = j

OnceInv == \A p \in Plans \ overlapped : AloneAt(p)

RunInv == LockedInv /\ StartedInv /\ OnceInv

LEMMA AtPlanIs ==
  ASSUME NEW p, AtPlan(p) = {}
  PROVE  (\A l \in Lockers : ~Locks(l, p)) /\ (\A s \in Starters : ~Starts(s, p))
BY DEF AtPlan, Locks, Starts

LEMMA AloneRunsOnce == TypeInv /\ OnceInv => OneRunPerPlan
<1> SUFFICES ASSUME TypeInv, OnceInv, NEW p \in Plans, p \notin overlapped
             PROVE  Cardinality(Current(p)) <= 1
  BY DEF OneRunPerPlan, Current
<1>1. CASE Current(p) = {}
  BY <1>1, FS_EmptySet
<1>2. ASSUME NEW i \in Current(p) PROVE Cardinality(Current(p)) <= 1
  <2>1. Current(p) = {i}
    BY <1>2 DEF OnceInv, AloneAt
  <2> QED  BY <2>1, FS_Singleton
<1> QED  BY <1>1, <1>2

LEMMA RunInit == Init => RunInv
BY NoPlanAssumption
DEF Init, RunInv, LockedInv, OnlyLockedRuns, StartedInv, ConsumedWasStarted, OnceInv, AloneAt,
    Locks, Starts, Started, Current, NoRun, Idle

(* Nothing about plans, requests and runs changes.                         *)
LEMMA RunQuiet ==
  ASSUME RunInv, UNCHANGED <<plan, locker, starter, overlapped, everLocked, adrift>>,
         \A i \in RunIds : run'[i].plan \in Plans \/ run[i].plan \in Plans =>
           run'[i].plan = run[i].plan /\ (run'[i].at = "none" <=> run[i].at = "none")
  PROVE  RunInv'
<1>1. \A p \in Plans : Started(p)' = Started(p)
  BY DEF Started
<1>2. LockedInv'
  BY DEF RunInv, LockedInv, OnlyLockedRuns
<1>3. StartedInv'
  BY <1>1 DEF RunInv, StartedInv, ConsumedWasStarted
<1>4. ASSUME NEW p \in Plans, AloneAt(p) PROVE AloneAt(p)'
  BY <1>1, <1>4 DEF AloneAt, Current, Locks, Starts
<1>5. OnceInv'
  BY <1>4 DEF RunInv, OnceInv
<1> QED  BY <1>2, <1>3, <1>5 DEF RunInv

LEMMA RunStep == TypeInv /\ RunInv /\ [Next]_vars => RunInv'
<1> SUFFICES ASSUME TypeInv, RunInv, [Next]_vars PROVE RunInv'
  OBVIOUS
<1> USE DEF planVars, talkVars, fileVars
<1>t. /\ plan \in [Plans -> PlanStates]
      /\ \A l \in Lockers : locker[l].at # "idle" => locker[l].plan \in Plans
      /\ \A s \in Starters : starter[s].at # "idle" => starter[s].plan \in Plans
      /\ locker \in [Lockers -> Requests({"loaded", "write"})]
      /\ starter \in [Starters -> Requests({"loaded", "consume", "write"})]
      /\ overlapped \subseteq Plans /\ everLocked \subseteq Plans
      /\ \A s \in Starters : starter[s].at = "idle" <=> starter[s] = Idle
  BY DEF TypeInv, Requests, Idle
<1>1. ASSUME NEW p \in Plans, CreatePlan(p) PROVE RunInv'
  <2>1. \A q \in Plans : plan'[q] = IF q = p THEN "DRAFT" ELSE plan[q]
    BY <1>1, <1>t DEF CreatePlan
  <2>2. plan[p] = "absent" /\ UNCHANGED <<locker, starter, run, overlapped, everLocked, adrift>>
    BY <1>1 DEF CreatePlan
  <2>3. \A q : Started(q)' = Started(q)
    BY <2>2 DEF Started
  <2>4. LockedInv' /\ StartedInv'
    BY <2>1, <2>2, <2>3 DEF RunInv, LockedInv, OnlyLockedRuns, StartedInv, ConsumedWasStarted
  <2>5. OnceInv'
    BY <2>1, <2>2, <2>3 DEF RunInv, OnceInv, AloneAt, Current, Locks, Starts
  <2> QED  BY <2>4, <2>5 DEF RunInv
<1>2. ASSUME NEW p \in Plans, NEW l \in Lockers, LockLoad(l, p) PROVE RunInv'
  <2>1. /\ plan[p] = "DRAFT" /\ locker' = [locker EXCEPT ![l] = Busy("loaded", p)]
        /\ Enter(p) /\ UNCHANGED <<plan, starter, run, everLocked, adrift>>
    BY <1>2 DEF LockLoad
  <2>2. \A q : Started(q)' = Started(q)
    BY <2>1 DEF Started
  <2>3. LockedInv' /\ StartedInv'
    BY <2>1, <2>2 DEF RunInv, LockedInv, OnlyLockedRuns, StartedInv, ConsumedWasStarted
  <2>4. \A q \in Plans, m \in Lockers : Locks(m, q)' <=> IF m = l THEN q = p ELSE Locks(m, q)
    BY <2>1, <1>t DEF Locks, Busy
  <2>5. \A q \in Plans, s \in Starters : Starts(s, q)' <=> Starts(s, q)
    BY <2>1 DEF Starts
  <2>6. ~Locks(l, p) /\ \A q \in Plans : ~Locks(l, q)
    BY <1>2 DEF LockLoad, Locks, Idle
  <2>7. ASSUME NEW q \in Plans \ overlapped' PROVE AloneAt(q)'
    <3>1. AloneAt(q)
      BY <2>1, <2>7 DEF Enter, RunInv, OnceInv
    <3>2. CASE q = p
      <4>1. AtPlan(p) = {}
        BY <2>1, <2>7, <3>2 DEF Enter
      <4> QED  BY <2>1, <2>2, <2>4, <2>5, <3>1, <3>2, <4>1, AtPlanIs DEF AloneAt, Current
    <3>3. CASE q # p
      BY <2>1, <2>2, <2>4, <2>5, <2>6, <3>1, <3>3 DEF AloneAt, Current
    <3> QED  BY <3>2, <3>3
  <2> QED  BY <2>3, <2>7 DEF RunInv, OnceInv
<1>3. ASSUME NEW l \in Lockers, LockCheck(l) PROVE RunInv'
  <2>1. UNCHANGED <<plan, starter, run, overlapped, everLocked, adrift>>
    BY <1>3 DEF LockCheck
  <2>2. \A q : Started(q)' = Started(q)
    BY <2>1 DEF Started
  <2>3. \A q \in Plans, m \in Lockers : Locks(m, q)' => Locks(m, q)
    BY <1>3, <1>t DEF LockCheck, Locks, Busy, Idle
  <2>4. \A q \in Plans, s \in Starters : Starts(s, q)' <=> Starts(s, q)
    BY <2>1 DEF Starts
  <2>5. LockedInv' /\ StartedInv'
    BY <2>1, <2>2 DEF RunInv, LockedInv, OnlyLockedRuns, StartedInv, ConsumedWasStarted
  <2>6. OnceInv'
    BY <2>1, <2>2, <2>3, <2>4 DEF RunInv, OnceInv, AloneAt, Current
  <2> QED  BY <2>5, <2>6 DEF RunInv
<1>4. ASSUME NEW l \in Lockers, LockWrite(l) PROVE RunInv'
  <2> DEFINE p == locker[l].plan
  <2>1. p \in Plans /\ Locks(l, p)
    BY <1>4, <1>t DEF LockWrite, Locks
  <2>2. /\ UNCHANGED <<starter, run, overlapped, adrift>> /\ everLocked' = everLocked \cup {p}
        /\ \A q \in Plans : plan'[q] = IF q = p THEN "LOCKED" ELSE plan[q]
    BY <1>4, <1>t DEF LockWrite
  <2>3. \A q \in Plans, m \in Lockers : Locks(m, q)' <=> Locks(m, q) /\ m # l
    BY <1>4, <1>t DEF LockWrite, Locks, Idle
  <2>4. \A q \in Plans, s \in Starters : Starts(s, q)' <=> Starts(s, q)
    BY <2>2 DEF Starts
  <2>5. \A q : Started(q)' = Started(q)
    BY <2>2 DEF Started
  <2> HIDE DEF p
  <2>6. LockedInv' /\ StartedInv'
    BY <2>1, <2>2, <2>5 DEF RunInv, LockedInv, OnlyLockedRuns, StartedInv, ConsumedWasStarted
  <2>7. OnceInv'
    BY <2>1, <2>2, <2>3, <2>4, <2>5 DEF RunInv, OnceInv, AloneAt, Current
  <2> QED  BY <2>6, <2>7 DEF RunInv
<1>5. ASSUME NEW s \in Starters, NEW p \in Plans, NEW g \in Goals, StartLoad(s, p, g)
      PROVE  RunInv'
  <2>1. /\ plan[p] = "LOCKED" /\ starter' = [starter EXCEPT ![s] = Busy("loaded", p)]
        /\ Enter(p) /\ UNCHANGED <<plan, locker, run, everLocked, adrift>>
    BY <1>5 DEF StartLoad, MayRun
  <2>2. \A q : Started(q)' = Started(q)
    BY <2>1 DEF Started
  <2>3. /\ \A t \in Starters : starter'[t] = IF t = s THEN Busy("loaded", p) ELSE starter[t]
        /\ \A q \in Plans : ~Starts(s, q)
    BY <1>5, <1>t DEF StartLoad, Starts, Idle
  <2>4. \A q \in Plans, t \in Starters : Starts(t, q)' <=> IF t = s THEN q = p ELSE Starts(t, q)
    BY <2>3 DEF Starts, Busy
  <2>5. \A q \in Plans, m \in Lockers : Locks(m, q)' <=> Locks(m, q)
    BY <2>1 DEF Locks
  <2>6. LockedInv' /\ StartedInv'
    BY <2>1, <2>2, <2>3
    DEF Busy, RunInv, LockedInv, OnlyLockedRuns, StartedInv, ConsumedWasStarted
  <2>7. ASSUME NEW q \in Plans \ overlapped' PROVE AloneAt(q)'
    <3>1. AloneAt(q)
      BY <2>1, <2>7 DEF Enter, RunInv, OnceInv
    <3>2. CASE q = p
      <4>1. (\A m \in Lockers : ~Locks(m, p)) /\ (\A t \in Starters : ~Starts(t, p))
        BY <2>1, <2>7, <3>2, AtPlanIs DEF Enter
      <4> QED  BY <2>1, <2>2, <2>3, <2>4, <2>5, <3>1, <3>2, <4>1 DEF AloneAt, Current, Busy
    <3>3. CASE q # p
      BY <2>1, <2>2, <2>3, <2>4, <2>5, <3>1, <3>3 DEF AloneAt, Current
    <3> QED  BY <3>2, <3>3
  <2> QED  BY <2>6, <2>7 DEF RunInv, OnceInv
<1>6. ASSUME NEW s \in Starters, StartRun(s) PROVE RunInv'
  <2>p. PICK p \in Plans : p = starter[s].plan
    BY <1>6, <1>t DEF StartRun
  <2>1. Starts(s, p) /\ starter[s].at = "loaded" /\ p \in everLocked
    BY <1>6, <1>t, <2>p DEF StartRun, Starts, RunInv, LockedInv
  <2>2. /\ UNCHANGED <<plan, locker, overlapped, everLocked, adrift>>
        /\ starter' = [starter EXCEPT ![s] = Busy("consume", p)]
        /\ run' = [run EXCEPT ![FreshRun] = [at |-> "working", plan |-> p]]
        /\ FreshRun \in RunIds /\ run[FreshRun] = NoRun
    BY <1>6, <2>p, FreshIsFree DEF StartRun
  <2>3. \A i \in RunIds : run'[i] = IF i = FreshRun THEN [at |-> "working", plan |-> p] ELSE run[i]
    BY <2>2 DEF TypeInv
  <2>4. \A t \in Starters : starter'[t] = IF t = s THEN Busy("consume", p) ELSE starter[t]
    BY <2>2, <1>t
  <2>5. \A q \in Plans : Started(q)' = IF q = p THEN Started(q) \cup {FreshRun} ELSE Started(q)
    BY <2>1, <2>2, <2>3 DEF Started, NoRun
  <2>6. /\ \A q \in Plans, t \in Starters : Starts(t, q)' <=> Starts(t, q)
        /\ \A q \in Plans, m \in Lockers : Locks(m, q)' <=> Locks(m, q)
    BY <2>1, <2>2, <2>4 DEF Starts, Locks, Busy
  <2>7. LockedInv'
    BY <2>1, <2>2, <2>3, <2>4 DEF RunInv, LockedInv, OnlyLockedRuns, Busy
  <2>8. StartedInv'
    <3>1. \A q \in Plans : Started(q) # {} => Started(q)' # {}
      BY <2>5
    <3>2. Started(p)' # {}
      BY <2>1, <2>5
    <3>3. ConsumedWasStarted'
      BY <2>2, <3>1 DEF RunInv, StartedInv, ConsumedWasStarted
    <3>4. ASSUME NEW t \in Starters, NEW q \in Plans,
                 starter'[t].at \in {"consume", "write"}, starter'[t].plan = q
          PROVE  Started(q)' # {}
      <4>1. CASE t = s
        BY <2>4, <3>2, <3>4, <4>1 DEF Busy
      <4>2. CASE t # s
        BY <2>4, <3>1, <3>4, <4>2 DEF RunInv, StartedInv
      <4> QED  BY <4>1, <4>2
    <3> QED  BY <3>3, <3>4 DEF StartedInv
  <2>9. ASSUME NEW q \in Plans \ overlapped' PROVE AloneAt(q)'
    <3>1. AloneAt(q)
      BY <2>2, <2>9 DEF RunInv, OnceInv
    <3>2. CASE q = p
      <4>1. plan[p] = "LOCKED" /\ Current(p) = {}
        BY <2>1, <3>1, <3>2 DEF AloneAt, Current
      <4>2. Current(p)' \subseteq {FreshRun}
        BY <2>1, <2>2, <2>5, <4>1 DEF Current
      <4>3. /\ \A t \in Starters : Starts(t, p) => t = s
            /\ \A m \in Lockers : ~Locks(m, p)
        BY <2>1, <3>1, <3>2 DEF AloneAt, Current
      <4>4. starter'[s].at = "consume" /\ plan'[p] = "LOCKED"
        BY <2>2, <2>4, <4>1 DEF Busy
      <4>5. AloneAt(p)'
        BY <2>1, <2>6, <4>2, <4>3, <4>4 DEF AloneAt, Current
      <4> QED  BY <3>2, <4>5
    <3>3. CASE q # p
      <4>1. Started(q)' = Started(q)
        BY <2>5, <3>3
      <4>2. \A t \in Starters : Starts(t, q) => starter'[t] = starter[t]
        BY <2>1, <2>4, <3>3 DEF Starts
      <4> QED  BY <2>2, <2>6, <3>1, <4>1, <4>2 DEF AloneAt, Current
    <3> QED  BY <3>2, <3>3
  <2> QED  BY <2>7, <2>8, <2>9 DEF RunInv, OnceInv
<1>7. ASSUME NEW s \in Starters, ConsumeCheck(s) PROVE RunInv'
  <2> DEFINE p == starter[s].plan
  <2>1. p \in Plans /\ Starts(s, p) /\ starter[s].at = "consume"
    BY <1>7, <1>t DEF ConsumeCheck, Starts
  <2>2. /\ UNCHANGED <<plan, locker, run, overlapped, everLocked, adrift>>
        /\ \A t \in Starters : starter'[t] = IF t = s
             THEN IF plan[p] = "LOCKED" THEN Busy("write", p) ELSE Idle ELSE starter[t]
    BY <1>7, <1>t DEF ConsumeCheck
  <2> HIDE DEF p
  <2>3. \A q : Started(q)' = Started(q)
    BY <2>2 DEF Started
  <2>4. LockedInv'
    BY <2>1, <2>2 DEF RunInv, LockedInv, OnlyLockedRuns, Busy, Idle, Starts
  <2>5. StartedInv'
    BY <2>1, <2>2, <2>3 DEF RunInv, StartedInv, ConsumedWasStarted, Busy, Idle, Starts
  <2>6. \A q \in Plans, m \in Lockers : Locks(m, q)' <=> Locks(m, q)
    BY <2>2 DEF Locks
  <2>7. ASSUME NEW q \in Plans \ overlapped' PROVE AloneAt(q)'
    <3>1. AloneAt(q)
      BY <2>2, <2>7 DEF RunInv, OnceInv
    <3>2. q = p => plan[p] = "LOCKED"
      BY <2>1, <3>1 DEF AloneAt, Current
    <3>3. \A t \in Starters : Starts(t, q)' <=> Starts(t, q)
      BY <2>1, <2>2, <3>2 DEF Starts, Busy, Idle
    <3>4. \A t \in Starters : starter'[t].at = "loaded" => starter[t].at = "loaded"
      BY <2>2 DEF Busy, Idle
    <3> QED  BY <2>2, <2>3, <2>6, <3>1, <3>3, <3>4 DEF AloneAt, Current
  <2> QED  BY <2>4, <2>5, <2>7 DEF RunInv, OnceInv
<1>8. ASSUME NEW s \in Starters, ConsumeWrite(s) PROVE RunInv'
  <2> DEFINE p == starter[s].plan
  <2>1. p \in Plans /\ Starts(s, p) /\ starter[s].at = "write" /\ p \in everLocked
    BY <1>8, <1>t DEF ConsumeWrite, Starts, RunInv, LockedInv
  <2>2. /\ UNCHANGED <<locker, run, overlapped, everLocked, adrift>>
        /\ \A q \in Plans : plan'[q] = IF q = p THEN "CONSUMED" ELSE plan[q]
        /\ \A t \in Starters : starter'[t] = IF t = s THEN Idle ELSE starter[t]
    BY <1>8, <1>t DEF ConsumeWrite
  <2> HIDE DEF p
  <2>3. \A q : Started(q)' = Started(q)
    BY <2>2 DEF Started
  <2>4. Started(p) # {}
    BY <2>1 DEF RunInv, StartedInv, Starts
  <2>5. LockedInv'
    BY <2>1, <2>2 DEF RunInv, LockedInv, OnlyLockedRuns, Idle
  <2>6. StartedInv'
    BY <2>2, <2>3, <2>4 DEF RunInv, StartedInv, ConsumedWasStarted, Idle
  <2>7. /\ \A q \in Plans, m \in Lockers : Locks(m, q)' <=> Locks(m, q)
        /\ \A q \in Plans, t \in Starters : Starts(t, q)' <=> Starts(t, q) /\ t # s
    BY <2>2 DEF Locks, Starts, Idle
  <2>8. ASSUME NEW q \in Plans \ overlapped' PROVE AloneAt(q)'
    <3>1. AloneAt(q)
      BY <2>2, <2>8 DEF RunInv, OnceInv
    <3>2. CASE q = p
      <4>1. /\ \A t \in Starters : Starts(t, p) => t = s
            /\ \A m \in Lockers : ~Locks(m, p)
        BY <2>1, <3>1, <3>2 DEF AloneAt, Current
      <4> QED  BY <2>2, <2>3, <2>7, <3>1, <3>2, <4>1 DEF AloneAt, Current
    <3>3. CASE q # p
      <4>1. \A t \in Starters : Starts(t, q) => t # s
        BY <2>1, <3>3 DEF Starts
      <4> QED  BY <2>2, <2>3, <2>7, <3>1, <3>3, <4>1 DEF AloneAt, Current
    <3> QED  BY <3>2, <3>3
  <2> QED  BY <2>5, <2>6, <2>8 DEF RunInv, OnceInv
<1>16. ASSUME NEW l \in Lockers, LockFails(l) PROVE RunInv'
  <2>1. UNCHANGED <<plan, starter, run, overlapped, everLocked, adrift>>
    BY <1>16 DEF LockFails
  <2>2. \A q : Started(q)' = Started(q)
    BY <2>1 DEF Started
  <2>3. \A q \in Plans, m \in Lockers : Locks(m, q)' => Locks(m, q)
    BY <1>16, <1>t DEF LockFails, Locks, Idle
  <2>4. \A q \in Plans, s \in Starters : Starts(s, q)' <=> Starts(s, q)
    BY <2>1 DEF Starts
  <2>5. LockedInv' /\ StartedInv'
    BY <2>1, <2>2 DEF RunInv, LockedInv, OnlyLockedRuns, StartedInv, ConsumedWasStarted
  <2>6. OnceInv'
    BY <2>1, <2>2, <2>3, <2>4 DEF RunInv, OnceInv, AloneAt, Current
  <2> QED  BY <2>5, <2>6 DEF RunInv
<1>17. ASSUME NEW s \in Starters, StartRefused(s) \/ ConsumeFails(s) PROVE RunInv'
  <2>1. PICK p \in Plans : p = starter[s].plan /\ Starts(s, p)
    BY <1>17, <1>t DEF StartRefused, ConsumeFails, Starts
  <2>2. /\ UNCHANGED <<plan, locker, run, overlapped, everLocked>>
        /\ \A t \in Starters : starter'[t] = IF t = s THEN Idle ELSE starter[t]
        /\ \/ starter[s].at = "loaded" /\ adrift' = adrift
           \/ starter[s].at # "loaded" /\ adrift' = adrift \cup Started(p)
    BY <1>17, <1>t, <2>1 DEF StartRefused, ConsumeFails
  <2>3. \A q : Started(q)' = Started(q)
    BY <2>2 DEF Started
  <2>4. LockedInv'
    BY <2>2 DEF RunInv, LockedInv, OnlyLockedRuns, Idle
  <2>5. StartedInv'
    BY <2>2, <2>3 DEF RunInv, StartedInv, ConsumedWasStarted, Idle
  <2>6. /\ \A q \in Plans, m \in Lockers : Locks(m, q)' <=> Locks(m, q)
        /\ \A q \in Plans, t \in Starters : Starts(t, q)' <=> Starts(t, q) /\ t # s
    BY <2>2 DEF Locks, Starts, Idle
  <2>7. \A q : Current(q)' \subseteq Current(q)
    BY <2>2, <2>3 DEF Current
  <2>8. starter[s].at # "loaded" => Current(p)' = {}
    BY <2>2, <2>3 DEF Current
  <2>9. \A t \in Starters : t # s => starter'[t] = starter[t]
    BY <2>2
  <2>10. ASSUME NEW q \in Plans \ overlapped' PROVE AloneAt(q)'
    <3>1. AloneAt(q)
      BY <2>2, <2>10 DEF RunInv, OnceInv
    <3>2. CASE q = p
      <4>1. /\ \A t \in Starters : Starts(t, p) => t = s
            /\ starter[s].at = "loaded" => Current(p) = {}
        BY <2>1, <3>1, <3>2 DEF AloneAt
      <4>2. Current(p)' = {}
        BY <2>7, <2>8, <4>1
      <4> QED  BY <2>2, <2>6, <3>1, <3>2, <4>1, <4>2 DEF AloneAt
    <3>3. CASE q # p
      <4>1. \A t \in Starters : Starts(t, q) => t # s
        BY <2>1, <3>3 DEF Starts
      <4> QED  BY <2>2, <2>6, <2>7, <2>9, <3>1, <3>3, <4>1 DEF AloneAt
    <3> QED  BY <3>2, <3>3
  <2> QED  BY <2>4, <2>5, <2>10 DEF RunInv, OnceInv
<1>9. CASE StartUnplanned
  BY <1>9, RunQuiet, FreshIsFree, NoPlanAssumption DEF StartUnplanned, TypeInv, NoRun
<1>10. CASE RunSaved
  BY <1>10, RunQuiet DEF RunSaved, TypeInv
<1>11. CASE Crash
  <2>1. /\ UNCHANGED <<plan, everLocked, adrift>>
        /\ \A l \in Lockers : locker'[l] = Idle
        /\ \A s \in Starters : starter'[s] = Idle
        /\ overlapped' = overlapped \cup {p \in Plans : AtPlan(p) # {}}
        /\ \A i \in RunIds : /\ run'[i].plan = run[i].plan
                             /\ run'[i].at = "none" <=> run[i].at = "none"
    BY <1>11 DEF Crash, TypeInv
  <2>2. \A q : Started(q)' = Started(q)
    BY <2>1 DEF Started
  <2>3. LockedInv'
    BY <2>1 DEF RunInv, LockedInv, OnlyLockedRuns
  <2>4. StartedInv'
    BY <2>1, <2>2 DEF RunInv, StartedInv, ConsumedWasStarted, Idle
  <2>5. ASSUME NEW q \in Plans \ overlapped' PROVE AloneAt(q)'
    <3>1. AloneAt(q) /\ AtPlan(q) = {}
      BY <2>1, <2>5 DEF RunInv, OnceInv
    <3>2. (\A l \in Lockers : ~Locks(l, q)') /\ (\A s \in Starters : ~Starts(s, q)')
      BY <2>1 DEF Locks, Starts, Idle
    <3> QED  BY <2>1, <2>2, <3>1, <3>2, AtPlanIs DEF AloneAt, Current
  <2> QED  BY <2>3, <2>4, <2>5 DEF RunInv, OnceInv
<1>12. CASE UNCHANGED planVars
  BY <1>12, RunQuiet
<1>13. ASSUME NEW d \in Decisions, Propose(d) \/ \E a \in Acceptors : AcceptLoad(a, d)
       PROVE  UNCHANGED planVars
  BY <1>13 DEF Propose, AcceptLoad
<1>14. ASSUME NEW a \in Acceptors, AcceptSave(a) \/ AcceptFails(a) PROVE UNCHANGED planVars
  BY <1>14 DEF AcceptSave, AcceptFails
<1>15. CASE SaveDraft \/ FinalizeLoad \/ FinalizeWrite \/ EditByHand \/ UNCHANGED vars
  BY <1>15, <1>12 DEF SaveDraft, FinalizeLoad, FinalizeWrite, EditByHand, vars
<1> QED  BY <1>1, <1>2, <1>3, <1>4, <1>5, <1>6, <1>7, <1>8, <1>9, <1>10, <1>11, <1>12, <1>13,
            <1>14, <1>15, <1>16, <1>17 DEF Next

(* What is run was locked, a consumed plan has been run, and a plan whose     *)
(* requests do not overlap is run again only after a request that could not   *)
(* save it as CONSUMED (create_run, save_plan).                             *)
THEOREM PlansCorrect == Spec => []PlansRunOnce
<1>1. Init => TypeInv /\ RunInv
  BY TypeInit, RunInit
<1>2. TypeInv /\ RunInv /\ [Next]_vars => (TypeInv /\ RunInv)'
  BY TypeStep, RunStep
<1>3. TypeInv /\ RunInv => PlansRunOnce
  BY TypeInvIsType, AloneRunsOnce DEF PlansRunOnce, RunInv, LockedInv, StartedInv
<1> QED  BY <1>1, <1>2, <1>3, PTL DEF Spec

-----------------------------------------------------------------------------
(* Induction over the naturals, and what a recursion over them defines        *)
LEMMA LeastMember ==
  ASSUME NEW S, S \subseteq Nat, S # {}
  PROVE  \E n \in S : \A m \in S : n <= m
<1> DEFINE R == OpToRel(<, Nat)
<1>1. IsWellFoundedOn(R, Nat)
  BY NatLessThanWellFounded
<1>2. \A m, k \in Nat : m < k => <<m, k>> \in R
  BY DEF OpToRel
<1> HIDE DEF R
<1>3. PICK n \in S : \A m \in S : ~ (<<m, n>> \in R)
  BY <1>1, WFMin
<1>4. ASSUME NEW m \in S PROVE n <= m
  <2>1. m \in Nat /\ n \in Nat /\ ~(m < n)
    BY <1>2, <1>3
  <2> QED  BY <2>1
<1> QED  BY <1>4

LEMMA SetInduction ==
  ASSUME NEW S, 0 \in S, \A n \in Nat : n \in S => n + 1 \in S
  PROVE  Nat \subseteq S
<1> SUFFICES ASSUME Nat \ S # {} PROVE FALSE
  OBVIOUS
<1>1. PICK n \in Nat \ S : \A m \in Nat \ S : n <= m
  BY LeastMember
<1>2. n # 0 /\ n - 1 \in Nat /\ ~(n <= n - 1)
  BY <1>1
<1>3. n - 1 \in S /\ (n - 1) + 1 = n
  BY <1>1, <1>2
<1> QED  BY <1>1, <1>2, <1>3

(* f is what the steps F[1] .. F[k] make of c, one after the other.        *)
Folded(f, k, V, c, F) ==
  f \in [0..k -> V] /\ f[0] = c /\ \A i \in 1..k : f[i] = F[i][f[i-1]]

(* There is such an f: a function defined by recursion over 0..n is one.    *)
LEMMA FoldExists ==
  ASSUME NEW n \in Nat, NEW V, NEW c \in V, NEW F \in [1..n -> [V -> V]]
  PROVE  \E f : Folded(f, n, V, c, F)
<1> DEFINE S == {k \in Nat : k > n \/ \E f : Folded(f, k, V, c, F)}
<1>1. 0 \in S
  <2> DEFINE g == [i \in 0..0 |-> c]
  <2>1. Folded(g, 0, V, c, F)
    BY DEF Folded
  <2> HIDE DEF g
  <2> QED  BY <2>1
<1>2. ASSUME NEW k \in Nat, k \in S PROVE k + 1 \in S
  <2>1. CASE k >= n
    <3>1. k + 1 > n /\ k + 1 \in Nat
      BY <2>1
    <3> QED  BY <3>1
  <2>2. CASE k < n
    <3>1. PICK f : Folded(f, k, V, c, F)
      BY <1>2, <2>2
    <3> DEFINE g == [i \in 0..(k+1) |-> IF i = k + 1 THEN F[k+1][f[k]] ELSE f[i]]
    <3>2. f[k] \in V /\ k + 1 \in 1..n
      BY <2>2, <3>1 DEF Folded
    <3>3. F[k+1][f[k]] \in V
      BY <3>2
    <3>4. g \in [0..(k+1) -> V]
      BY <3>1, <3>3 DEF Folded
    <3>5. g[0] = c
      BY <3>1 DEF Folded
    <3>6. ASSUME NEW i \in 1..(k+1) PROVE g[i] = F[i][g[i-1]]
      <4>1. CASE i = k + 1
        BY <4>1
      <4>2. CASE i # k + 1
        <5>1. i \in 1..k /\ i - 1 \in 0..(k+1) /\ i - 1 # k + 1 /\ i \in 0..(k+1)
          BY <4>2
        <5>2. g[i] = f[i] /\ g[i-1] = f[i-1]
          BY <5>1
        <5> QED  BY <3>1, <5>1, <5>2 DEF Folded
      <4> QED  BY <4>1, <4>2
    <3> HIDE DEF g
    <3>7. Folded(g, k + 1, V, c, F)
      BY <3>4, <3>5, <3>6 DEF Folded
    <3> QED  BY <3>7
  <2>3. k \in Nat /\ n \in Nat
    OBVIOUS
  <2> HIDE DEF S
  <2> QED  BY <2>1, <2>2, <2>3
<1>3. Nat \subseteq S
  <2> HIDE DEF S
  <2> QED  BY <1>1, <1>2, SetInduction
<1>4. n \in S /\ ~(n > n)
  BY <1>3
<1> QED  BY <1>4

LEMMA GreatestIs ==
  ASSUME NEW k \in Nat, NEW S, S \subseteq 0..k, S # {}
  PROVE  Max(S) \in S /\ \A y \in S : Max(S) >= y
<1> DEFINE R == {i \in 0..k : k - i \in S}
<1>1. \A n \in S : n \in 0..k /\ k - n \in 0..k /\ k - (k - n) = n
  OBVIOUS
<1>2. R \subseteq Nat /\ R # {}
  <2>1. PICK n \in S : TRUE
    OBVIOUS
  <2>2. k - n \in R
    BY <1>1, <2>1
  <2>3. R \subseteq Nat
    OBVIOUS
  <2> HIDE DEF R
  <2> QED  BY <2>2, <2>3
<1>3. PICK r \in R : \A i \in R : r <= i
  <2> HIDE DEF R
  <2> QED  BY <1>2, LeastMember
<1>4. k - r \in S /\ r \in 0..k
  BY <1>3
<1>5. ASSUME NEW n \in S PROVE k - r >= n
  <2>1. k - n \in R
    BY <1>1
  <2>2. r <= k - n
    BY <2>1, <1>3
  <2> QED  BY <2>2, <1>1, <1>4
<1>6. \E x \in S : \A y \in S : x >= y
  BY <1>4, <1>5
<1> QED  BY <1>6 DEF Max

-----------------------------------------------------------------------------
(* Sums of sequences of numbers.                                            *)
Summing(h, f, k) ==
  h \in [0..k -> Nat] /\ h[0] = 0 /\ \A i \in 1..k : h[i] = h[i-1] + f[i]

LEMMA SumExists ==
  ASSUME NEW k \in Nat, NEW f \in [1..k -> Nat]
  PROVE  \E h : Summing(h, f, k) /\ SumOf(f) = h[k]
<1> DEFINE Is(h) == h = [n \in 0..Len(f) |-> IF n = 0 THEN 0 ELSE h[n-1] + f[n]]
           F == [i \in 1..k |-> [x \in Nat |-> x + f[i]]]
<1>1. f \in Seq(Nat) /\ Len(f) = k
  OBVIOUS
<1>2. F \in [1..k -> [Nat -> Nat]]
  OBVIOUS
<1> HIDE DEF F
<1>3. PICK g : Folded(g, k, Nat, 0, F)
  BY <1>2, FoldExists
<1>4. ASSUME NEW n \in 0..k PROVE g[n] = IF n = 0 THEN 0 ELSE g[n-1] + f[n]
  <2>1. CASE n = 0
    BY <1>3, <2>1 DEF Folded
  <2>2. CASE n # 0
    <3>1. n \in 1..k /\ n - 1 \in 0..k
      BY <2>2
    <3>2. g[n] = F[n][g[n-1]] /\ g[n-1] \in Nat
      BY <1>3, <3>1 DEF Folded
    <3> QED  BY <2>2, <3>1, <3>2 DEF F
  <2> QED  BY <2>1, <2>2
<1>5. g = [n \in 0..k |-> g[n]]
  BY <1>3 DEF Folded
<1>6. Is(g)
  BY <1>1, <1>4, <1>5, Zenon
<1> DEFINE h == CHOOSE h : Is(h)
<1>7. Is(h)
  BY <1>6
<1>8. SumOf(f) = h[k]
  BY <1>1, Zenon DEF SumOf
<1> HIDE DEF h
<1>9. h[0] = 0 /\ DOMAIN h = 0..k
  BY <1>1, <1>7
<1>10. ASSUME NEW i \in 1..k PROVE h[i] = h[i-1] + f[i]
  <2>1. i \in 0..k /\ i # 0
    OBVIOUS
  <2> QED  BY <1>1, <1>7, <2>1
<1>11. \A n \in 0..k : h[n] \in Nat
  <2> DEFINE R == {n \in Nat : n <= k => h[n] \in Nat}
  <2>1. 0 \in R
    BY <1>9
  <2>2. ASSUME NEW n \in Nat, n \in R PROVE n + 1 \in R
    <3>1. CASE n + 1 <= k
      <4>1. n + 1 \in 1..k /\ (n + 1) - 1 = n /\ n <= k
        BY <3>1
      <4> QED  BY <1>10, <2>2, <4>1
    <3>2. CASE ~(n + 1 <= k)
      BY <3>2
    <3> QED  BY <3>1, <3>2
  <2>3. Nat \subseteq R
    <3> HIDE DEF R
    <3> QED  BY <2>1, <2>2, SetInduction
  <2> QED  BY <2>3
<1>12. h \in [0..k -> Nat]
  BY <1>1, <1>7, <1>9, <1>11
<1>13. Summing(h, f, k)
  BY <1>9, <1>10, <1>12 DEF Summing
<1> QED  BY <1>8, <1>13

LEMMA SumUnique ==
  ASSUME NEW k \in Nat, NEW f \in [1..k -> Nat], NEW h, Summing(h, f, k)
  PROVE  SumOf(f) = h[k]
<1>1. PICK g : Summing(g, f, k) /\ SumOf(f) = g[k]
  BY SumExists
<1> DEFINE R == {n \in Nat : n <= k => g[n] = h[n]}
<1>2. 0 \in R
  BY <1>1 DEF Summing
<1>3. ASSUME NEW n \in Nat, n \in R PROVE n + 1 \in R
  <2>1. CASE n + 1 <= k
    <3>1. n + 1 \in 1..k /\ (n + 1) - 1 = n /\ n <= k
      BY <2>1
    <3>2. g[n+1] = g[n] + f[n+1] /\ h[n+1] = h[n] + f[n+1]
      BY <1>1, <3>1 DEF Summing
    <3> QED  BY <1>3, <3>1, <3>2
  <2>2. CASE ~(n + 1 <= k)
    BY <2>2
  <2> QED  BY <2>1, <2>2
<1>4. Nat \subseteq R
  <2> HIDE DEF R
  <2> QED  BY <1>2, <1>3, SetInduction
<1> QED  BY <1>1, <1>4

LEMMA SumIsNat ==
  ASSUME NEW k \in Nat, NEW f \in [1..k -> Nat]
  PROVE  SumOf(f) \in Nat
<1>1. PICK h : Summing(h, f, k) /\ SumOf(f) = h[k]
  BY SumExists
<1> QED  BY <1>1 DEF Summing

LEMMA SumLast ==
  ASSUME NEW k \in Nat, NEW f \in [1..(k+1) -> Nat]
  PROVE  SumOf(f) = SumOf([i \in 1..k |-> f[i]]) + f[k+1]
<1> DEFINE e == [i \in 1..k |-> f[i]]
<1>1. PICK h : Summing(h, f, k + 1) /\ SumOf(f) = h[k+1]
  BY SumExists
<1> DEFINE g == [i \in 0..k |-> h[i]]
<1>2. e \in [1..k -> Nat]
  OBVIOUS
<1>3. Summing(g, e, k)
  <2>1. g \in [0..k -> Nat] /\ g[0] = 0
    BY <1>1 DEF Summing
  <2>2. ASSUME NEW i \in 1..k PROVE g[i] = g[i-1] + e[i]
    <3>1. i \in 1..(k+1) /\ i \in 0..k /\ i - 1 \in 0..k
      OBVIOUS
    <3>2. h[i] = h[i-1] + f[i]
      BY <1>1, <3>1 DEF Summing
    <3> QED  BY <3>1, <3>2
  <2> HIDE DEF g, e
  <2> QED  BY <2>1, <2>2 DEF Summing
<1>4. g[k] = h[k]
  OBVIOUS
<1> HIDE DEF e, g
<1>5. SumOf(e) = h[k]
  BY <1>2, <1>3, <1>4, SumUnique
<1>6. k + 1 \in 1..(k+1) /\ (k + 1) - 1 = k
  OBVIOUS
<1>7. h[k+1] = h[k] + f[k+1]
  BY <1>1, <1>6 DEF Summing
<1> QED  BY <1>1, <1>5, <1>7 DEF e

LEMMA SumChange ==
  ASSUME NEW k \in Nat, NEW f \in [1..k -> Nat], NEW g \in [1..k -> Nat], NEW j \in 1..k,
         \A i \in 1..k : i # j => f[i] = g[i]
  PROVE  SumOf(f) + g[j] = SumOf(g) + f[j]
<1>1. PICK h : Summing(h, f, k) /\ SumOf(f) = h[k]
  BY SumExists
<1>2. PICK e : Summing(e, g, k) /\ SumOf(g) = e[k]
  BY SumExists
<1> DEFINE R == {n \in Nat : n <= k => /\ n < j => h[n] = e[n]
                                       /\ n >= j => h[n] + g[j] = e[n] + f[j]}
<1>3. 0 \in R
  BY <1>1, <1>2 DEF Summing
<1>4. ASSUME NEW n \in Nat, n \in R PROVE n + 1 \in R
  <2>1. CASE n + 1 <= k
    <3>1. n + 1 \in 1..k /\ (n + 1) - 1 = n /\ n <= k /\ n \in 0..k
      BY <2>1
    <3>2. h[n+1] = h[n] + f[n+1] /\ e[n+1] = e[n] + g[n+1]
      BY <1>1, <1>2, <3>1 DEF Summing
    <3>3. /\ h[n] \in Nat /\ e[n] \in Nat /\ f[n+1] \in Nat
          /\ g[n+1] \in Nat /\ f[j] \in Nat /\ g[j] \in Nat
      BY <1>1, <1>2, <3>1 DEF Summing
    <3>4. n + 1 # j => f[n+1] = g[n+1]
      BY <3>1
    <3>5. n < j => h[n] = e[n]
      BY <1>4, <3>1
    <3>6. n >= j => h[n] + g[j] = e[n] + f[j]
      BY <1>4, <3>1
    <3>7. CASE n + 1 < j
      <4>1. n < j /\ n + 1 # j
        BY <3>7
      <4> QED  BY <3>2, <3>4, <3>5, <3>7, <4>1
    <3>8. CASE n + 1 = j
      <4>1. n < j /\ f[n+1] = f[j] /\ g[n+1] = g[j]
        BY <3>8
      <4> QED  BY <3>2, <3>3, <3>5, <3>8, <4>1
    <3>9. CASE n + 1 > j
      <4>1. n >= j /\ n + 1 # j
        BY <3>9
      <4>2. h[n+1] + g[j] = e[n+1] + f[j]
        <5>1. h[n+1] = h[n] + f[n+1] /\ e[n+1] = e[n] + f[n+1]
          BY <3>2, <3>4, <4>1
        <5>2. h[n] + g[j] = e[n] + f[j]
          BY <3>6, <4>1
        <5>3. PICK u, v, w, x, y \in Nat :
                u = h[n] /\ v = e[n] /\ w = f[n+1] /\ x = g[j] /\ y = f[j]
          BY <3>3
        <5>4. u + x = v + y
          BY <5>2, <5>3
        <5>5. (u + w) + x = (v + w) + y
          BY <5>4
        <5> QED  BY <5>1, <5>3, <5>5
      <4> QED  BY <3>9, <4>2
    <3>10. n + 1 < j \/ n + 1 = j \/ n + 1 > j
      OBVIOUS
    <3> HIDE DEF R
    <3> QED  BY <3>7, <3>8, <3>9, <3>10
  <2>2. CASE ~(n + 1 <= k)
    BY <2>2
  <2> QED  BY <2>1, <2>2
<1>5. Nat \subseteq R
  <2> HIDE DEF R
  <2> QED  BY <1>3, <1>4, SetInduction
<1> QED  BY <1>1, <1>2, <1>5

-----------------------------------------------------------------------------
(* Commands: the documents, the site built from them and the ledger          *)

(* What a build has in hand.  As long as it is the only build, nothing is on    *)
(* the disk beside what it wrote from the time it took the marker away.         *)
Publishing == {"page", "rest", "mark"}

BuildInv(p) ==
  /\ proc[p] \in Building => /\ \A g \in proc[p].seen : g[2] <= proc[p].vis
                             /\ proc[p].left \subseteq proc[p].seen
  /\ proc[p].at = "unlink" => site.marker # None /\ proc[p].old = site.marker.files
  /\ proc[p].at \in Publishing => /\ site.marker = None
                                  /\ Shown \subseteq proc[p].seen

SiteInv ==
  /\ ~site.used => site.pages = {}
  /\ SiteAlwaysWithin
  /\ \A p \in Procs : BuildInv(p)
  /\ \A p, q \in Procs : IsBuilding(p) /\ IsBuilding(q) => p = q

(* A summary, written or about to be, is that of a beginning of the ledger that  *)
(* has no torn line; so no later line changes it.                           *)
Final(l) == {i \in DOMAIN l : \A j \in (i + 1)..Len(l) : l[j].task # l[i].task}

Sound(totals, l) ==
  /\ totals.tasks = Cardinality(Final(l))
  /\ totals.tokens = SumOf([i \in DOMAIN l |-> IF i \in Final(l) THEN l[i].tokens ELSE 0])

Beginning(l, n) == [i \in 1..n |-> l[i]]

Reported(totals, l) ==
  \E n \in 0..Len(l) : (\A i \in 1..n : l[i] # Torn) /\ Sound(totals, Beginning(l, n))

SummaryInv ==
  /\ summary # None => Reported(summary, lines)
  /\ \A p \in Procs : proc[p].at = "summary" => Reported(proc[p].totals, lines)

(* What a process holds, by where it is.                                    *)
LEMMA HoldsWhat ==
  ASSUME CommandsTypeOK, NEW p \in Procs
  PROVE  /\ proc[p].at = "load" => proc[p] \in [at : {"load"}, checked : BOOLEAN]
         /\ proc[p].at \in {"registry", "graph"} =>
              proc[p] \in [at : {"registry", "graph"}, seen : [Path -> Texts], checked : BOOLEAN]
         /\ proc[p].at \in {"prepare", "unlink", "page", "rest", "mark"} => proc[p] \in Building
         /\ proc[p] \in Building => proc[p].at \in {"prepare", "unlink", "page", "rest", "mark"}
         /\ proc[p].at = "append" => proc[p] \in [at : {"append"}, record : Records]
         /\ proc[p].at = "summary" => proc[p] \in [at : {"summary"}, totals : Sums]
<1>1. proc[p] \in {AtRest} \cup Indexing \cup Building \cup Counting
  BY DEF CommandsTypeOK
<1>2. CASE proc[p] = AtRest
  <2>1. proc[p].at = "idle"
    BY <1>2 DEF AtRest
  <2> QED  BY <2>1 DEF Building
<1>3. CASE proc[p] \in Indexing
  <2>1. proc[p].at \in {"load", "registry", "graph"}
    BY <1>3 DEF Indexing
  <2> QED  BY <1>3, <2>1 DEF Indexing, Building
<1>4. CASE proc[p] \in Building
  <2>1. proc[p].at \in {"prepare", "unlink", "page", "rest", "mark"}
    BY <1>4 DEF Building
  <2> QED  BY <1>4, <2>1
<1>5. CASE proc[p] \in Counting
  <2>1. proc[p].at \in {"append", "summary"}
    BY <1>5 DEF Counting
  <2> QED  BY <1>5, <2>1 DEF Counting, Building
<1> QED  BY <1>1, <1>2, <1>3, <1>4, <1>5

(* What is read as a document is one, and is visible to someone.            *)
LEMMA DocumentAt ==
  ASSUME NEW d \in [Path -> Texts], Readable(d), NEW p \in Written(d)
  PROVE  /\ p \in Path /\ IsDocument(d[p])
         /\ VisibilityOf(d, p) \in Ranks /\ Tokens(d, p) \in Nat /\ d[p].hits \in Nat
<1>1. p \in Path /\ d[p] \in Texts \ {None, Broken}
  BY DEF Written, Readable
<1>2. IsDocument(d[p])
  BY <1>1, CorpusAssumption
<1>3. VisibilityOf(d, p) \in Ranks
  <2>1. CASE ~d[p].front
    BY <1>1, <2>1, PathsAssumption DEF VisibilityOf
  <2>2. CASE d[p].front /\ d[p].vis = None
    BY <2>2 DEF VisibilityOf, Ranks
  <2>3. CASE d[p].front /\ d[p].vis # None
    BY <1>2, <2>3 DEF VisibilityOf, IsDocument
  <2> QED  BY <2>1, <2>2, <2>3
<1>4. Tokens(d, p) \in Nat
  BY <1>2 DEF Tokens, IsDocument
<1> QED  BY <1>1, <1>2, <1>3, <1>4 DEF IsDocument

LEMMA VisibleArePages ==
  ASSUME NEW d \in [Path -> Texts], Readable(d), NEW v \in Ranks
  PROVE  /\ VisiblePages(d, v) \subseteq Pages
         /\ \A g \in VisiblePages(d, v) : g[2] <= v
<1>1. ASSUME NEW g \in VisiblePages(d, v) PROVE g \in Pages /\ g[2] <= v
  <2>1. PICK q \in Written(d) : VisibilityOf(d, q) <= v /\ g = <<q, VisibilityOf(d, q)>>
    BY <1>1 DEF VisiblePages
  <2>2. q \in Path /\ VisibilityOf(d, q) \in Ranks
    BY DocumentAt
  <2> QED  BY <2>1, <2>2 DEF Pages
<1> QED  BY <1>1

(* The lines of a ledger, and those that are records.                       *)
Line == Records \cup {Torn, Garbled}
Ledger(l) == l \in Seq(Line) /\ \A i \in DOMAIN l : l[i] = Torn => i = Len(l)

LEMMA LinesDiffer ==
  /\ Torn \notin Records /\ Garbled \notin Records /\ Torn # Garbled
  /\ \A r \in Line : r.tokens \in Nat
<1>1. \A r \in Records : r.task # "torn" /\ r.tokens \in Nat
  BY CostAssumption DEF Records
<1>2. Torn.task = "torn" /\ Garbled.task = "torn" /\ Torn.tokens = 0 /\ Garbled.tokens = 1
  BY DEF Torn, Garbled
<1> QED  BY <1>1, <1>2 DEF Line

LEMMA AppendedKeeps ==
  ASSUME NEW l, Ledger(l), NEW line \in Records \cup {Torn}
  PROVE  /\ Ledger(Appended(l, line))
         /\ Len(l) <= Len(Appended(l, line))
         /\ \A i \in 1..Len(l) : l[i] # Torn => Appended(l, line)[i] = l[i]
<1>1. l \in Seq(Line) /\ Len(l) \in Nat
  BY DEF Ledger
<1>2. CASE l = <<>> \/ l[Len(l)] # Torn
  <2>1. Appended(l, line) = Append(l, line)
    BY <1>2 DEF Appended
  <2>2. \A i \in 1..Len(l) : l[i] # Torn
    BY <1>1, <1>2 DEF Ledger
  <2>3. line \in Line
    BY DEF Line
  <2>4. /\ Append(l, line) \in Seq(Line) /\ Len(Append(l, line)) = Len(l) + 1
        /\ \A i \in 1..Len(l) : Append(l, line)[i] = l[i]
    BY <1>1, <2>3
  <2> QED  BY <1>1, <2>1, <2>2, <2>4 DEF Ledger
<1>3. CASE l # <<>> /\ l[Len(l)] = Torn
  <2> DEFINE new == IF line = Torn THEN Torn ELSE Garbled
  <2>1. Appended(l, line) = [l EXCEPT ![Len(l)] = new]
    BY <1>3 DEF Appended
  <2>2. new \in Line
    BY DEF Line
  <2> HIDE DEF new
  <2>3. Len(l) \in 1..Len(l) /\ l \in [1..Len(l) -> Line]
    BY <1>1, <1>3
  <2> DEFINE k == [l EXCEPT ![Len(l)] = new]
  <2>4. k \in [1..Len(l) -> Line] /\ \A i \in 1..Len(l) : i # Len(l) => k[i] = l[i]
    BY <2>2, <2>3
  <2> HIDE DEF k
  <2>5. k \in Seq(Line) /\ Len(k) = Len(l)
    BY <1>1, <2>4
  <2>6. \A i \in 1..Len(l) : l[i] # Torn => i # Len(l)
    BY <1>3
  <2>7. \A i \in DOMAIN k : k[i] = Torn => i = Len(k)
    <3>1. DOMAIN k = 1..Len(l) /\ DOMAIN l = 1..Len(l)
      BY <2>3, <2>4
    <3> QED  BY <2>4, <2>5, <3>1 DEF Ledger
  <2>8. Appended(l, line) = k
    BY <2>1 DEF k
  <2>9. Ledger(k)
    BY <2>5, <2>7 DEF Ledger
  <2>10. Len(l) <= Len(k)
    BY <1>1, <2>5
  <2>11. ASSUME NEW i \in 1..Len(l), l[i] # Torn PROVE k[i] = l[i]
    BY <2>4, <2>6, <2>11
  <2> QED  BY <2>8, <2>9, <2>10, <2>11
<1> QED  BY <1>2, <1>3

LEMMA TotalsAreSums ==
  ASSUME NEW n \in Nat, NEW l \in [1..n -> Line]
  PROVE  Totals(l) \in Sums /\ IsFiniteSet(Entries(l))
<1> DEFINE f == [i \in 1..n |-> IF i \in Entries(l) THEN Latest(l, l[i].task).tokens ELSE 0]
<1>1. IsFiniteSet(Entries(l)) /\ Cardinality(Entries(l)) \in Nat
  <2>1. Entries(l) \subseteq 1..n /\ IsFiniteSet(1..n)
    BY FS_Interval DEF Entries
  <2> QED  BY <2>1, FS_Subset, FS_CardinalityType
<1>2. ASSUME NEW i \in 1..n PROVE f[i] \in Nat
  <2> DEFINE S == {j \in 1..n : l[j].task = l[i].task}
  <2>1. S \subseteq 0..n /\ S # {}
    OBVIOUS
  <2>2. Max(S) \in S
    <3> HIDE DEF S
    <3> QED  BY <2>1, GreatestIs
  <2>3. Latest(l, l[i].task) = l[Max(S)]
    BY DEF Latest
  <2>4. Latest(l, l[i].task) \in Line
    BY <2>2, <2>3
  <2> QED  BY <2>4, LinesDiffer
<1>3. f \in [1..n -> Nat]
  BY <1>2
<1>4. Totals(l) = [tasks |-> Cardinality(Entries(l)), tokens |-> SumOf(f)]
  BY DEF Totals
<1> HIDE DEF f
<1>5. SumOf(f) \in Nat
  BY <1>3, SumIsNat
<1> QED  BY <1>1, <1>4, <1>5 DEF Sums

Holdings == {AtRest} \cup Indexing \cup Building \cup Counting

LEMMA BeginKeeps ==
  ASSUME CommandsTypeOK, NEW p \in Procs, NEW new \in Holdings, Begin(p, new)
  PROVE  CommandsTypeOK'
<1>1. proc' \in [Procs -> Holdings]
  BY DEF CommandsTypeOK, Begin, Holdings
<1>2. commands' \in 0..MaxCommands
  BY CorpusAssumption DEF CommandsTypeOK, Begin
<1>3. docs' = docs /\ site' = site /\ lines' = lines /\ summary' = summary /\ changes' = changes
  BY DEF Begin, products
<1>4. crossed' \in BOOLEAN
  BY DEF Begin
<1> QED  BY <1>1, <1>2, <1>3, <1>4 DEF CommandsTypeOK, Holdings

LEMMA SiteStays ==
  ASSUME CommandsTypeOK, UNCHANGED <<docs, lines, summary, counts>>, proc' \in [Procs -> Holdings],
         \/ site' = site
         \/ \E pages \in SUBSET Pages : site' = [site EXCEPT !.pages = pages]
         \/ \E pages \in SUBSET Pages : site' = [site EXCEPT !.pages = pages, !.used = TRUE]
         \/ \E search \in SUBSET (SUBSET Pages) : site' = [site EXCEPT !.search = search]
         \/ \E marker \in {None} \cup [files : SUBSET Path, vis : Ranks] :
              site' = [site EXCEPT !.marker = marker]
  PROVE  CommandsTypeOK'
<1>1. DOMAIN site = {"pages", "search", "used", "marker"}
  BY DEF CommandsTypeOK, NoSite
<1>2. /\ DOMAIN site' = DOMAIN NoSite /\ site'.pages \subseteq Pages
      /\ site'.search \subseteq SUBSET Pages
      /\ site'.used \in BOOLEAN
      /\ site'.marker \in {None} \cup [files : SUBSET Path, vis : Ranks]
  BY <1>1 DEF CommandsTypeOK
<1> QED  BY <1>2 DEF CommandsTypeOK, Holdings, counts

LEMMA TypeKeeps ==
  ASSUME CommandsTypeOK, [CommandsNext]_commandsVars
  PROVE  CommandsTypeOK'
<1>1. CASE EditDocument
  <2>1. docs' \in [Path -> Texts] /\ changes' \in 0..MaxChanges
    BY <1>1, CorpusAssumption DEF CommandsTypeOK, EditDocument
  <2>2. UNCHANGED <<site, lines, summary, proc, commands, crossed>>
    BY <1>1 DEF EditDocument, products
  <2> QED  BY <2>1, <2>2 DEF CommandsTypeOK
<1>2. CASE UNCHANGED commandsVars
  BY <1>2 DEF CommandsTypeOK, commandsVars, products, counts
<1>3. ASSUME NEW p \in Procs, Validate(p) \/ Graph(p) PROVE CommandsTypeOK'
  <2>1. PICK b \in BOOLEAN : Begin(p, [at |-> "load", checked |-> b])
    BY <1>3 DEF Validate, Graph
  <2>2. [at |-> "load", checked |-> b] \in Holdings
    BY DEF Holdings, Indexing
  <2> QED  BY <2>1, <2>2, BeginKeeps
<1>4. ASSUME NEW p \in Procs, LoadIndex(p) PROVE CommandsTypeOK'
  <2>1. proc[p] \in [at : {"load"}, checked : BOOLEAN]
    BY <1>4, HoldsWhat DEF LoadIndex
  <2>2. [at |-> "registry", seen |-> docs, checked |-> proc[p].checked] \in Holdings
    BY <2>1 DEF CommandsTypeOK, Holdings, Indexing
  <2>3. proc \in [Procs -> Holdings] /\ AtRest \in Holdings
    BY DEF CommandsTypeOK, Holdings
  <2>4. proc' \in [Procs -> Holdings]
    BY <1>4, <2>2, <2>3 DEF LoadIndex, End
  <2> QED  BY <1>4, <2>4, SiteStays DEF LoadIndex, products
<1>5. ASSUME NEW p \in Procs, WriteIndex(p) PROVE CommandsTypeOK'
  <2>1. /\ proc[p] \in [at : {"registry", "graph"}, seen : [Path -> Texts], checked : BOOLEAN]
        /\ proc \in [Procs -> Holdings]
    BY <1>5, HoldsWhat DEF WriteIndex, CommandsTypeOK, Holdings
  <2>2. [proc[p] EXCEPT !.at = "graph"] \in Holdings /\ AtRest \in Holdings
    BY <2>1 DEF Holdings, Indexing
  <2>3. proc' = [proc EXCEPT ![p] = [proc[p] EXCEPT !.at = "graph"]] \/ End(p)
    BY <1>5, <2>1 DEF WriteIndex, Goto
  <2>4. proc' \in [Procs -> Holdings]
    BY <2>1, <2>2, <2>3 DEF End
  <2> QED  BY <1>5, <2>4, SiteStays DEF WriteIndex
<1>6. ASSUME NEW p \in Procs, Build(p) PROVE CommandsTypeOK'
  <2>1. PICK v \in Ranks : /\ Readable(docs)
                           /\ Begin(p, [at |-> "prepare", vis |-> v, seen |-> VisiblePages(docs, v),
                                        left |-> VisiblePages(docs, v), old |-> {}])
    BY <1>6 DEF Build
  <2>2. VisiblePages(docs, v) \subseteq Pages
    BY <2>1, VisibleArePages DEF CommandsTypeOK
  <2>3. [at |-> "prepare", vis |-> v, seen |-> VisiblePages(docs, v),
         left |-> VisiblePages(docs, v), old |-> {}] \in Holdings
    BY <2>2 DEF Holdings, Building
  <2> QED  BY <2>1, <2>3, BeginKeeps
<1>7. ASSUME NEW p \in Procs, Prepare(p) PROVE CommandsTypeOK'
  <2>1. proc[p] \in Building /\ proc \in [Procs -> Holdings]
    BY <1>7, HoldsWhat DEF Prepare, CommandsTypeOK, Holdings
  <2>2. \/ End(p)
        \/ Goto(p, "page")
        \/ /\ site.marker # None
           /\ proc' = [proc EXCEPT ![p].at = "unlink", ![p].old = site.marker.files]
    BY <1>7, Zenon DEF Prepare
  <2>3. site.marker # None => site.marker.files \in SUBSET Path
    BY DEF CommandsTypeOK
  <2>4. CASE End(p)
    <3>1. proc' \in [Procs -> Holdings]
      BY <2>1, <2>4 DEF End, Holdings
    <3> QED  BY <1>7, <3>1, SiteStays DEF Prepare, products
  <2>5. CASE Goto(p, "page")
    <3>1. proc' = [proc EXCEPT ![p] = [proc[p] EXCEPT !.at = "page"]]
      BY <2>1, <2>5 DEF Goto
    <3>2. [proc[p] EXCEPT !.at = "page"] \in Building
      BY <2>1 DEF Building
    <3>3. proc' \in [Procs -> Holdings]
      BY <2>1, <3>1, <3>2 DEF Holdings
    <3> QED  BY <1>7, <3>3, SiteStays DEF Prepare, products
  <2>6. CASE /\ site.marker # None
             /\ proc' = [proc EXCEPT ![p].at = "unlink", ![p].old = site.marker.files]
    <3>1. proc' = [proc EXCEPT ![p] = [proc[p] EXCEPT !.at = "unlink", !.old = site.marker.files]]
      BY <2>1, <2>6
    <3>2. [proc[p] EXCEPT !.at = "unlink", !.old = site.marker.files] \in Building
      BY <2>1, <2>3, <2>6 DEF Building
    <3>3. proc' \in [Procs -> Holdings]
      BY <2>1, <3>1, <3>2 DEF Holdings
    <3> QED  BY <1>7, <3>3, SiteStays DEF Prepare, products
  <2> QED  BY <2>2, <2>4, <2>5, <2>6
<1>8. ASSUME NEW p \in Procs, Unlink(p) PROVE CommandsTypeOK'
  <2>1. proc[p] \in Building /\ proc \in [Procs -> Holdings] /\ site.pages \subseteq Pages
    BY <1>8, HoldsWhat DEF Unlink, CommandsTypeOK, Holdings
  <2>2. UNCHANGED <<docs, lines, summary, counts>>
    BY <1>8 DEF Unlink
  <2>3. CASE UNCHANGED proc
    <3>1. \/ \E S \in SUBSET Pages : site' = [site EXCEPT !.pages = S]
          \/ site' = [site EXCEPT !.search = {}]
      <4>1. ASSUME NEW g, site' = [site EXCEPT !.pages = @ \ {g}]
            PROVE \E S \in SUBSET Pages : site' = [site EXCEPT !.pages = S]
        BY <2>1, <4>1 DEF CommandsTypeOK, NoSite
      <4>2. \/ \E g : site' = [site EXCEPT !.pages = @ \ {g}]
            \/ site' = [site EXCEPT !.search = {}]
            \/ Goto(p, "page")
        BY <1>8 DEF Unlink
      <4>3. ~Goto(p, "page")
        <5>1. proc[p].at = "unlink"
          BY <1>8 DEF Unlink
        <5>2. Goto(p, "page") => proc'[p].at = "page"
          BY <2>1 DEF Goto, Building
        <5> QED  BY <2>3, <5>1, <5>2
      <4> QED  BY <4>1, <4>2, <4>3
    <3>2. {} \in SUBSET (SUBSET Pages)
      OBVIOUS
    <3> QED  BY <2>1, <2>2, <2>3, <3>1, <3>2, SiteStays
  <2>4. CASE Goto(p, "page") /\ site' = [site EXCEPT !.marker = None]
    <3>1. proc' = [proc EXCEPT ![p] = [proc[p] EXCEPT !.at = "page"]]
      BY <2>1, <2>4 DEF Goto
    <3>2. [proc[p] EXCEPT !.at = "page"] \in Building
      BY <2>1 DEF Building
    <3>3. proc' \in [Procs -> Holdings]
      BY <2>1, <3>1, <3>2 DEF Holdings
    <3> QED  BY <2>2, <2>4, <3>3, SiteStays
  <2> QED  BY <1>8, <2>3, <2>4 DEF Unlink
<1>9. ASSUME NEW p \in Procs, Publish(p) PROVE CommandsTypeOK'
  <2>1. proc[p] \in Building /\ proc \in [Procs -> Holdings] /\ site.pages \subseteq Pages
    BY <1>9, HoldsWhat DEF Publish, CommandsTypeOK, Holdings
  <2>2. UNCHANGED <<docs, lines, summary, counts>>
    BY <1>9 DEF Publish
  <2>3. ASSUME NEW g \in proc[p].left,
               site' = [site EXCEPT !.pages = {h \in @ : h[1] # g[1]} \cup {g}, !.used = TRUE],
               proc' = [proc EXCEPT ![p].left = @ \ {g}]
        PROVE  CommandsTypeOK'
    <3>1. proc' = [proc EXCEPT ![p] = [proc[p] EXCEPT !.left = proc[p].left \ {g}]]
      BY <2>1, <2>3
    <3>2. [proc[p] EXCEPT !.left = proc[p].left \ {g}] \in Building /\ g \in Pages
      BY <2>1 DEF Building
    <3>3. proc' \in [Procs -> Holdings]
      BY <2>1, <3>1, <3>2 DEF Holdings
    <3> DEFINE S == {h \in site.pages : h[1] # g[1]} \cup {g}
    <3>4. site' = [site EXCEPT !.pages = S, !.used = TRUE]
      BY <2>3 DEF CommandsTypeOK, NoSite
    <3>5. S \in SUBSET Pages
      BY <2>1, <3>2
    <3> HIDE DEF S
    <3> QED  BY <2>2, <3>3, <3>4, <3>5, SiteStays
  <2>4. ASSUME NEW at \in {"rest", "mark"}, Goto(p, at) PROVE proc' \in [Procs -> Holdings]
    <3>1. proc' = [proc EXCEPT ![p] = [proc[p] EXCEPT !.at = at]]
      BY <2>1, <2>4 DEF Goto
    <3>2. [proc[p] EXCEPT !.at = at] \in Building
      BY <2>1 DEF Building
    <3> QED  BY <2>1, <3>1, <3>2 DEF Holdings
  <2>5. CASE Goto(p, "rest") /\ UNCHANGED site
    BY <2>2, <2>4, <2>5, SiteStays
  <2>6. CASE Goto(p, "mark") /\ site' = [site EXCEPT !.search = {proc[p].seen}]
    <3>1. {proc[p].seen} \in SUBSET (SUBSET Pages)
      BY <2>1 DEF Building
    <3> QED  BY <2>2, <2>4, <2>6, <3>1, SiteStays
  <2>7. CASE /\ End(p)
             /\ site' = [site EXCEPT !.marker = [files |-> {g[1] : g \in proc[p].seen},
                                                 vis |-> proc[p].vis]]
    <3>1. proc' \in [Procs -> Holdings]
      BY <2>1, <2>7 DEF End, Holdings
    <3>2. [files |-> {g[1] : g \in proc[p].seen}, vis |-> proc[p].vis]
             \in [files : SUBSET Path, vis : Ranks]
      BY <2>1 DEF Building, Pages
    <3> QED  BY <2>2, <2>7, <3>1, <3>2, SiteStays
  <2> QED  BY <1>9, <2>3, <2>5, <2>6, <2>7 DEF Publish
<1>10. ASSUME NEW p \in Procs, Cost(p) PROVE CommandsTypeOK'
  <2>1. PICK r \in Records : Begin(p, [at |-> "append", record |-> r])
    BY <1>10 DEF Cost
  <2>2. [at |-> "append", record |-> r] \in Holdings
    BY DEF Holdings, Counting
  <2> QED  BY <2>1, <2>2, BeginKeeps
<1>11. ASSUME NEW p \in Procs, End(p) PROVE proc' \in [Procs -> Holdings]
  BY <1>11 DEF CommandsTypeOK, End, Holdings
<1>12. ASSUME NEW p \in Procs, AppendCost(p) PROVE CommandsTypeOK'
  <2>1. PICK line \in {proc[p].record, Torn} : lines' = Appended(lines, line)
    BY <1>12 DEF AppendCost
  <2>2. line \in Records \cup {Torn}
    BY <1>12, HoldsWhat DEF AppendCost
  <2>3. Ledger(lines)
    BY DEF CommandsTypeOK, Ledger, Line
  <2>4. Ledger(lines')
    BY <2>1, <2>2, <2>3, AppendedKeeps
  <2>5. UNCHANGED <<docs, site, summary, counts>> /\ proc' \in [Procs -> Holdings]
    BY <1>11, <1>12 DEF AppendCost
  <2> QED  BY <2>4, <2>5 DEF CommandsTypeOK, Ledger, Line, Holdings, counts
<1>13. ASSUME NEW p \in Procs, Summarise(p) PROVE CommandsTypeOK'
  <2>1. lines \in [1..Len(lines) -> Line] /\ Len(lines) \in Nat
    BY DEF CommandsTypeOK, Line
  <2>2. Totals(lines) \in Sums
    BY <2>1, TotalsAreSums
  <2>3. [at |-> "summary", totals |-> Totals(lines)] \in Holdings
    BY <2>2 DEF Holdings, Counting
  <2> QED  BY <1>13, <2>3, BeginKeeps DEF Summarise
<1>14. ASSUME NEW p \in Procs, WriteSummary(p) PROVE CommandsTypeOK'
  <2>1. summary' \in Sums
    BY <1>14, HoldsWhat DEF WriteSummary
  <2>2. UNCHANGED <<docs, site, lines, counts>> /\ proc' \in [Procs -> Holdings]
    BY <1>11, <1>14 DEF WriteSummary
  <2> QED  BY <2>1, <2>2 DEF CommandsTypeOK, Holdings, counts
<1>15. ASSUME NEW p \in Procs, Kill(p) PROVE CommandsTypeOK'
  <2>1. UNCHANGED <<docs, products, counts>> /\ proc' \in [Procs -> Holdings]
    BY <1>11, <1>15 DEF Kill
  <2> QED  BY <2>1, SiteStays DEF products
<1> QED
  BY <1>1, <1>2, <1>3, <1>4, <1>5, <1>6, <1>7, <1>8, <1>9, <1>10, <1>12, <1>13, <1>14, <1>15
  DEF CommandsNext

LEMMA InitType == ASSUME CommandsInit PROVE CommandsTypeOK
<1>1. docs \in [Path -> Texts]
  BY CorpusAssumption DEF CommandsInit
<1>2. /\ DOMAIN site = DOMAIN NoSite
      /\ site.pages \subseteq Pages /\ site.search \subseteq SUBSET Pages
      /\ site.used \in BOOLEAN /\ site.marker = None
  BY DEF CommandsInit, NoSite
<1>3. /\ lines \in Seq(Records \cup {Torn, Garbled})
      /\ \A i \in DOMAIN lines : lines[i] = Torn => i = Len(lines)
  BY DEF CommandsInit
<1>4. commands \in 0..MaxCommands /\ changes \in 0..MaxChanges
  BY CorpusAssumption DEF CommandsInit
<1>5. summary = None /\ proc \in [Procs -> {AtRest}] /\ crossed = FALSE
  BY DEF CommandsInit
<1> QED  BY <1>1, <1>2, <1>3, <1>4, <1>5 DEF CommandsTypeOK

(* A step of a process that is no build leaves what is known of the site.     *)
LEMMA OtherStep ==
  ASSUME SiteInv, NEW p \in Procs, UNCHANGED site,
         \A q \in Procs \ {p} : proc'[q] = proc[q],
         proc'[p].at \in {"idle", "load", "registry", "graph", "append", "summary"}
  PROVE  SiteInv'
<1>1. proc'[p] \notin Building /\ proc'[p].at \notin Publishing \cup {"unlink"}
  BY DEF Building, Publishing
<1>2. BuildInv(p)' /\ ~IsBuilding(p)'
  BY <1>1 DEF BuildInv, Shown, IsBuilding
<1>3. \A q \in Procs \ {p} : (BuildInv(q)' <=> BuildInv(q)) /\ (IsBuilding(q)' <=> IsBuilding(q))
  BY DEF BuildInv, Shown, IsBuilding
<1>4. SiteAlwaysWithin' /\ (~site'.used => site'.pages = {})
  BY DEF SiteInv, SiteAlwaysWithin, Shown
<1> QED  BY <1>2, <1>3, <1>4 DEF SiteInv

(* A build's step is answerable for the site: no other process is building.   *)
LEMMA BuilderStep ==
  ASSUME NEW p \in Procs, \A q \in Procs \ {p} : proc'[q] = proc[q] /\ ~IsBuilding(q),
         ~site'.used => site'.pages = {}, SiteAlwaysWithin', BuildInv(p)'
  PROVE  SiteInv'
<1>1. ASSUME NEW q \in Procs \ {p} PROVE BuildInv(q)' /\ ~IsBuilding(q)'
  <2>1. proc'[q].at \notin {"prepare", "unlink", "page", "rest", "mark"}
    BY <1>1 DEF IsBuilding
  <2>2. proc'[q] \notin Building
    BY <2>1 DEF Building
  <2> QED  BY <2>1, <2>2 DEF BuildInv, IsBuilding, Publishing, Shown
<1>2. \A q, t \in Procs : (IsBuilding(q) /\ IsBuilding(t))' => q = t
  BY <1>1 DEF IsBuilding
<1> QED  BY <1>1, <1>2 DEF SiteInv

LEMMA SiteInit == ASSUME CommandsInit PROVE SiteInv
<1>1. \A p \in Procs : proc[p] = AtRest
  BY DEF CommandsInit
<1>2. \A p \in Procs : BuildInv(p) /\ ~IsBuilding(p)
  <2>1. AtRest.at = "idle"
    BY DEF AtRest
  <2>2. AtRest \notin Building
    BY <2>1 DEF Building
  <2> QED  BY <1>1, <2>1, <2>2 DEF BuildInv, Publishing, Shown, IsBuilding
<1> QED  BY <1>2 DEF CommandsInit, SiteInv, SiteAlwaysWithin, Shown, NoSite

LEMMA SiteKeeps ==
  ASSUME CommandsTypeOK, CommandsTypeOK', SiteInv, ~crossed', [CommandsNext]_commandsVars
  PROVE  SiteInv'
<1>1. proc \in [Procs -> Holdings] /\ proc' \in [Procs -> Holdings]
  BY DEF CommandsTypeOK, Holdings
<1>2. CASE UNCHANGED <<site, proc>>
  <2>1. ASSUME NEW q \in Procs PROVE BuildInv(q)' /\ (IsBuilding(q)' <=> IsBuilding(q))
    BY <1>2 DEF SiteInv, BuildInv, Shown, IsBuilding
  <2> QED  BY <1>2, <2>1 DEF SiteInv, SiteAlwaysWithin, Shown
<1>3. ASSUME NEW p \in Procs, NEW new, Begin(p, new), new.at \in {"load", "append", "summary"}
      PROVE  SiteInv'
  <2>1. proc'[p] = new /\ UNCHANGED site /\ \A q \in Procs \ {p} : proc'[q] = proc[q]
    BY <1>1, <1>3 DEF Begin, products
  <2> QED  BY <1>3, <2>1, OtherStep
<1>4. ASSUME NEW p \in Procs, End(p), UNCHANGED site PROVE SiteInv'
  <2>1. proc'[p] = AtRest /\ \A q \in Procs \ {p} : proc'[q] = proc[q]
    BY <1>1, <1>4 DEF End
  <2>2. proc'[p].at = "idle"
    BY <2>1 DEF AtRest
  <2> QED  BY <1>4, <2>1, <2>2, OtherStep
<1>5. ASSUME NEW p \in Procs, LoadIndex(p) \/ WriteIndex(p) PROVE SiteInv'
  <2>1. CASE End(p)
    BY <1>4, <1>5, <2>1 DEF LoadIndex, WriteIndex, products
  <2>2. CASE proc' = [proc EXCEPT ![p] = [at |-> "registry", seen |-> docs, checked |-> @.checked]]
    <3>1. proc'[p].at = "registry" /\ \A q \in Procs \ {p} : proc'[q] = proc[q]
      BY <1>1, <2>2
    <3> QED  BY <1>5, <3>1, OtherStep DEF LoadIndex, WriteIndex, products
  <2>3. CASE proc[p].at = "registry" /\ Goto(p, "graph")
    <3>1. proc[p] \in [at : {"registry", "graph"}, seen : [Path -> Texts], checked : BOOLEAN]
      BY <2>3, HoldsWhat
    <3>2. proc'[p].at = "graph" /\ \A q \in Procs \ {p} : proc'[q] = proc[q]
      BY <1>1, <2>3, <3>1 DEF Goto
    <3> QED  BY <1>5, <3>2, OtherStep DEF LoadIndex, WriteIndex, products
  <2> QED  BY <1>5, <2>1, <2>2, <2>3 DEF LoadIndex, WriteIndex
<1>6. ASSUME NEW p \in Procs, Build(p) PROVE SiteInv'
  <2>1. PICK v \in Ranks : /\ Readable(docs)
                           /\ Begin(p, [at |-> "prepare", vis |-> v, seen |-> VisiblePages(docs, v),
                                        left |-> VisiblePages(docs, v), old |-> {}])
    BY <1>6 DEF Build
  <2>2. \A g \in VisiblePages(docs, v) : g[2] <= v
    BY <2>1, VisibleArePages DEF CommandsTypeOK
  <2>3. /\ UNCHANGED site
        /\ proc'[p] = [at |-> "prepare", vis |-> v, seen |-> VisiblePages(docs, v),
                       left |-> VisiblePages(docs, v), old |-> {}]
        /\ \A q \in Procs \ {p} : proc'[q] = proc[q] /\ ~IsBuilding(q)
    BY <1>1, <2>1 DEF Begin, products
  <2>4. BuildInv(p)'
    BY <2>2, <2>3 DEF BuildInv, Publishing, Shown
  <2> QED  BY <2>3, <2>4, BuilderStep DEF SiteInv, SiteAlwaysWithin, Shown
<1>7. ASSUME NEW p \in Procs, Prepare(p) PROVE SiteInv'
  <2>a. \A q \in Procs \ {p} : ~IsBuilding(q)
    BY <1>7 DEF Prepare, SiteInv, IsBuilding
  <2>o. \A q \in Procs \ {p} : proc'[q] = proc[q] /\ ~IsBuilding(q)
    BY <1>1, <1>7, <2>a DEF Prepare, Goto, End
  <2>1. proc[p] \in Building /\ proc[p].at = "prepare" /\ BuildInv(p) /\ UNCHANGED site
    BY <1>7, HoldsWhat DEF Prepare, SiteInv, products
  <2>2. CASE End(p)
    BY <1>4, <2>1, <2>2
  <2>3. CASE ~Refused /\ site.marker = None /\ Goto(p, "page")
    <3>1. proc'[p] = [proc[p] EXCEPT !.at = "page"]
      BY <1>1, <2>3 DEF Goto
    <3>2. proc'[p].at = "page" /\ proc'[p].vis = proc[p].vis /\ proc'[p].left = proc[p].left
          /\ proc'[p].seen = proc[p].seen
      BY <2>1, <3>1 DEF Building
    <3>3. site.pages = {} /\ site.search = {}
      BY <2>3 DEF Refused, SiteInv, CommandsTypeOK
    <3>4. BuildInv(p)'
      BY <2>1, <2>3, <3>2, <3>3 DEF BuildInv, Publishing, Shown
    <3> QED  BY <2>1, <3>4, <2>o, BuilderStep DEF SiteInv, SiteAlwaysWithin, Shown
  <2>4. CASE /\ site.marker # None
             /\ proc' = [proc EXCEPT ![p].at = "unlink", ![p].old = site.marker.files]
    <3>1. proc'[p] = [proc[p] EXCEPT !.at = "unlink", !.old = site.marker.files]
      BY <1>1, <2>4
    <3>2. proc'[p].at = "unlink" /\ proc'[p].vis = proc[p].vis /\ proc'[p].left = proc[p].left
          /\ proc'[p].seen = proc[p].seen /\ proc'[p].old = site.marker.files
      BY <2>1, <3>1 DEF Building
    <3>3. BuildInv(p)'
      BY <2>1, <2>4, <3>2 DEF BuildInv, Publishing, Shown
    <3> QED  BY <2>1, <3>3, <2>o, BuilderStep DEF SiteInv, SiteAlwaysWithin, Shown
  <2>5. \/ End(p)
        \/ ~Refused /\ site.marker = None /\ Goto(p, "page")
        \/ /\ site.marker # None
           /\ proc' = [proc EXCEPT ![p].at = "unlink", ![p].old = site.marker.files]
    BY <1>7, Zenon DEF Prepare
  <2> QED  BY <2>2, <2>3, <2>4, <2>5
<1>8. ASSUME NEW p \in Procs, Unlink(p) PROVE SiteInv'
  <2>a. \A q \in Procs \ {p} : ~IsBuilding(q)
    BY <1>8 DEF Unlink, SiteInv, IsBuilding
  <2>o. \A q \in Procs \ {p} : proc'[q] = proc[q] /\ ~IsBuilding(q)
    BY <1>1, <1>8, <2>a DEF Unlink, Goto
  <2>1. proc[p] \in Building /\ proc[p].at = "unlink" /\ BuildInv(p) /\ DOMAIN site = DOMAIN NoSite
    BY <1>8, HoldsWhat DEF Unlink, SiteInv, CommandsTypeOK
  <2>2. DOMAIN site = {"pages", "search", "used", "marker"}
    BY <2>1 DEF NoSite
  <2>3. site.marker # None /\ proc[p].old = site.marker.files
    BY <2>1 DEF BuildInv
  <2>4. ASSUME NEW g, site' = [site EXCEPT !.pages = @ \ {g}], UNCHANGED proc PROVE SiteInv'
    <3>1. site'.pages \subseteq site.pages /\ site'.search = site.search /\ site'.used = site.used
          /\ site'.marker = site.marker
      BY <2>2, <2>4
    <3>2. BuildInv(p)'
      BY <2>1, <2>3, <2>4, <3>1 DEF BuildInv, Publishing, Shown
    <3> QED  BY <3>1, <3>2, <2>o, BuilderStep DEF SiteInv, SiteAlwaysWithin, Shown
  <2>5. ASSUME site' = [site EXCEPT !.search = {}], UNCHANGED proc PROVE SiteInv'
    <3>1. site'.pages = site.pages /\ site'.search = {} /\ site'.used = site.used
          /\ site'.marker = site.marker
      BY <2>2, <2>5
    <3>2. BuildInv(p)'
      BY <2>1, <2>3, <2>5, <3>1 DEF BuildInv, Publishing, Shown
    <3> QED  BY <3>1, <3>2, <2>o, BuilderStep DEF SiteInv, SiteAlwaysWithin, Shown
  <2>6. ASSUME Listed(site.pages, proc[p].old) = {}, site.search = {},
               site' = [site EXCEPT !.marker = None], Goto(p, "page")
        PROVE  SiteInv'
    <3>1. site'.pages = site.pages /\ site'.search = site.search /\ site'.used = site.used
          /\ site'.marker = None
      BY <2>2, <2>6
    <3>2. site.pages = {}
      BY <2>3, <2>6 DEF SiteInv, SiteAlwaysWithin, Shown, Listed
    <3>3. proc'[p] = [proc[p] EXCEPT !.at = "page"]
      BY <1>1, <2>6 DEF Goto
    <3>4. proc'[p].at = "page" /\ proc'[p].vis = proc[p].vis /\ proc'[p].left = proc[p].left
          /\ proc'[p].seen = proc[p].seen
      BY <2>1, <3>3 DEF Building
    <3>5. BuildInv(p)'
      BY <2>1, <2>6, <3>1, <3>2, <3>4 DEF BuildInv, Publishing, Shown
    <3> QED  BY <3>1, <3>2, <3>5, <2>o, BuilderStep DEF SiteInv, SiteAlwaysWithin, Shown
  <2> QED  BY <1>8, <2>4, <2>5, <2>6 DEF Unlink
<1>9. ASSUME NEW p \in Procs, Publish(p) PROVE SiteInv'
  <2>a. \A q \in Procs \ {p} : ~IsBuilding(q)
    BY <1>9 DEF Publish, SiteInv, IsBuilding
  <2>o. \A q \in Procs \ {p} : proc'[q] = proc[q] /\ ~IsBuilding(q)
    BY <1>1, <1>9, <2>a DEF Publish, Goto, End
  <2>1. proc[p] \in Building /\ proc[p].at \in Publishing /\ BuildInv(p)
    BY <1>9, HoldsWhat DEF Publish, SiteInv, Publishing
  <2>2. DOMAIN site = {"pages", "search", "used", "marker"}
    BY DEF CommandsTypeOK, NoSite
  <2>3. /\ site.marker = None /\ Shown \subseteq proc[p].seen
        /\ proc[p].left \subseteq proc[p].seen /\ \A g \in proc[p].seen : g[2] <= proc[p].vis
    BY <2>1 DEF BuildInv
  <2>4. ASSUME NEW g \in proc[p].left,
               site' = [site EXCEPT !.pages = {h \in @ : h[1] # g[1]} \cup {g}, !.used = TRUE],
               proc' = [proc EXCEPT ![p].left = @ \ {g}], proc[p].at = "page"
        PROVE  SiteInv'
    <3>1. site'.pages \subseteq site.pages \cup {g} /\ site'.search = site.search
          /\ site'.used = TRUE /\ site'.marker = None
      BY <2>2, <2>3, <2>4
    <3>2. proc'[p] = [proc[p] EXCEPT !.left = proc[p].left \ {g}]
      BY <1>1, <2>1, <2>4 DEF Building
    <3>3. proc'[p].at = "page" /\ proc'[p].vis = proc[p].vis /\ proc'[p].left \subseteq proc[p].left
          /\ proc'[p].seen = proc[p].seen
      BY <2>1, <2>4, <3>2 DEF Building
    <3>4. BuildInv(p)'
      BY <2>3, <3>1, <3>3 DEF BuildInv, Publishing, Shown
    <3> QED  BY <3>1, <3>4, <2>o, BuilderStep DEF SiteInv, SiteAlwaysWithin, Shown
  <2>5. ASSUME NEW at \in {"rest", "mark"}, Goto(p, at)
        PROVE  proc'[p].at = at /\ proc'[p].vis = proc[p].vis /\ proc'[p].left = proc[p].left
               /\ proc'[p].seen = proc[p].seen
    <3>1. proc'[p] = [proc[p] EXCEPT !.at = at]
      BY <1>1, <2>5 DEF Goto
    <3> QED  BY <2>1, <3>1 DEF Building
  <2>6. ASSUME Goto(p, "rest"), UNCHANGED site PROVE SiteInv'
    <3>1. BuildInv(p)'
      BY <2>3, <2>5, <2>6 DEF BuildInv, Publishing, Shown
    <3> QED  BY <2>6, <3>1, <2>o, BuilderStep DEF SiteInv, SiteAlwaysWithin, Shown
  <2>7. ASSUME Goto(p, "mark"), site' = [site EXCEPT !.search = {proc[p].seen}] PROVE SiteInv'
    <3>1. site'.pages = site.pages /\ site'.search = {proc[p].seen} /\ site'.used = site.used
          /\ site'.marker = None
      BY <2>2, <2>3, <2>7
    <3>2. BuildInv(p)'
      BY <2>3, <2>5, <2>7, <3>1 DEF BuildInv, Publishing, Shown
    <3> QED  BY <3>1, <3>2, <2>o, BuilderStep DEF SiteInv, SiteAlwaysWithin, Shown
  <2>8. ASSUME End(p), site' = [site EXCEPT !.marker = [files |-> {g[1] : g \in proc[p].seen},
                                                        vis |-> proc[p].vis]]
        PROVE  SiteInv'
    <3>1. /\ site'.pages = site.pages /\ site'.search = site.search /\ site'.used = site.used
          /\ site'.marker = [files |-> {g[1] : g \in proc[p].seen}, vis |-> proc[p].vis]
      BY <2>2, <2>8
    <3>2. \A g \in Shown : g[1] \in site'.marker.files /\ g[2] <= site'.marker.vis
      BY <2>3, <3>1
    <3>3. proc'[p] = AtRest
      BY <1>1, <2>8 DEF End
    <3>4. proc'[p].at = "idle"
      BY <3>3 DEF AtRest
    <3>5. BuildInv(p)'
      BY <3>4 DEF BuildInv, Publishing, Shown, Building
    <3>6. SiteAlwaysWithin'
      BY <3>1, <3>2 DEF SiteAlwaysWithin, Shown
    <3> QED  BY <3>1, <3>5, <3>6, <2>o, BuilderStep DEF SiteInv
  <2> QED  BY <1>9, <2>4, <2>6, <2>7, <2>8 DEF Publish
<1>10. ASSUME NEW p \in Procs, Validate(p) \/ Graph(p) \/ Cost(p) \/ Summarise(p) PROVE SiteInv'
  <2>1. CASE Validate(p) \/ Graph(p)
    BY <1>3, <2>1 DEF Validate, Graph
  <2>2. CASE Cost(p)
    BY <1>3, <2>2 DEF Cost
  <2>3. CASE Summarise(p)
    BY <1>3, <2>3 DEF Summarise
  <2> QED  BY <1>10, <2>1, <2>2, <2>3
<1>11. ASSUME NEW p \in Procs, AppendCost(p) \/ WriteSummary(p) \/ Kill(p) PROVE SiteInv'
  BY <1>4, <1>11 DEF AppendCost, WriteSummary, Kill, products
<1>12. CASE EditDocument
  BY <1>2, <1>12 DEF EditDocument, products
<1>13. CASE UNCHANGED commandsVars
  BY <1>2, <1>13 DEF commandsVars, products
<1> QED
  BY <1>5, <1>6, <1>7, <1>8, <1>9, <1>10, <1>11, <1>12, <1>13 DEF CommandsNext

(* Builds that have crossed stay so.                                        *)
LEMMA CrossedStays ==
  ASSUME [CommandsNext]_commandsVars, crossed
  PROVE  crossed'
<1>1. CASE EditDocument \/ UNCHANGED commandsVars
  BY <1>1 DEF EditDocument, commandsVars, counts
<1>2. ASSUME NEW p \in Procs, NEW new, Begin(p, new) PROVE crossed'
  BY <1>2 DEF Begin
<1>3. ASSUME NEW p \in Procs, Validate(p) \/ Graph(p) \/ Build(p) \/ Cost(p) \/ Summarise(p)
      PROVE  crossed'
  BY <1>2, <1>3 DEF Validate, Graph, Build, Cost, Summarise
<1>4. ASSUME NEW p \in Procs,
             \/ LoadIndex(p) \/ WriteIndex(p) \/ Prepare(p) \/ Unlink(p) \/ Publish(p)
             \/ AppendCost(p) \/ WriteSummary(p) \/ Kill(p)
      PROVE  crossed'
  BY <1>4 DEF LoadIndex, WriteIndex, Prepare, Unlink, Publish, AppendCost, WriteSummary, Kill,
              counts
<1> QED  BY <1>1, <1>3, <1>4 DEF CommandsNext

(* A finished site shows nothing its build was not asked for, however many        *)
(* commands run at a time and are killed, unless a build began while another     *)
(* was under way: build_site and its _prepare_output.                        *)
THEOREM SiteCorrect == CommandsSpec => []SiteWithinVisibility
<1> DEFINE Inv == CommandsTypeOK /\ (~crossed => SiteInv)
<1>1. CommandsInit => Inv
  BY InitType, SiteInit
<1>2. Inv /\ [CommandsNext]_commandsVars => Inv'
  BY TypeKeeps, SiteKeeps, CrossedStays
<1>3. Inv => SiteWithinVisibility
  BY DEF SiteInv, SiteAlwaysWithin, SiteWithinVisibility
<1> HIDE DEF Inv
<1> QED  BY <1>1, <1>2, <1>3, PTL DEF CommandsSpec

(* What the totals of a ledger are: each task counts at its entry, with its       *)
(* latest record; or, what is the same, at its final record.                *)
Counted(l) == [i \in DOMAIN l |-> IF i \in Entries(l) THEN Latest(l, l[i].task).tokens ELSE 0]
Lasting(l) == [i \in DOMAIN l |-> IF i \in Final(l) THEN l[i].tokens ELSE 0]

Agreeing(l) == /\ Cardinality(Entries(l)) = Cardinality(Final(l))
               /\ SumOf(Counted(l)) = SumOf(Lasting(l))

LEMMA LatestIs ==
  ASSUME NEW n \in Nat, NEW l \in [1..n -> Line], NEW i \in 1..n,
         \A j \in (i + 1)..n : l[j].task # l[i].task
  PROVE  Latest(l, l[i].task) = l[i]
<1> DEFINE S == {j \in 1..n : l[j].task = l[i].task}
<1>1. S \subseteq 0..n /\ i \in S
  OBVIOUS
<1>2. Max(S) \in S /\ Max(S) >= i
  <2> HIDE DEF S
  <2> QED  BY <1>1, GreatestIs
<1>3. \A j \in S : j \in 1..n /\ ~(j \in (i + 1)..n)
  OBVIOUS
<1>4. DOMAIN l = 1..n
  OBVIOUS
<1>5. Latest(l, l[i].task) = l[Max(S)]
  BY <1>4 DEF Latest
<1> HIDE DEF S
<1>6. Max(S) = i
  BY <1>2, <1>3
<1> QED  BY <1>5, <1>6

(* A task that is among the first n lines has one that is its last there.     *)
LEMMA LastLine ==
  ASSUME NEW n \in Nat, NEW l \in [1..n -> Line], NEW i \in 1..n
  PROVE  \E m \in 1..n : l[m].task = l[i].task /\ \A j \in (m + 1)..n : l[j].task # l[i].task
<1> DEFINE t == l[i].task
<1> DEFINE S == {j \in 1..n : l[j].task = t}
<1>1. S \subseteq 0..n /\ S # {}
  OBVIOUS
<1>2. Max(S) \in S /\ \A j \in S : Max(S) >= j
  <2> HIDE DEF S
  <2> QED  BY <1>1, GreatestIs
<1>3. PICK m \in 1..n : m = Max(S) /\ l[m].task = t
  BY <1>2
<1>4. \A j \in S : m >= j
  BY <1>2, <1>3
<1>5. ASSUME NEW j \in (m + 1)..n PROVE l[j].task # t
  <2>1. j \in 1..n /\ ~(m >= j)
    OBVIOUS
  <2> QED  BY <1>4, <2>1
<1> QED  BY <1>3, <1>5

LEMMA FirstLine ==
  ASSUME NEW n \in Nat, NEW l \in [1..n -> Line], NEW i \in 1..n
  PROVE  \E e \in 1..n : l[e].task = l[i].task /\ \A j \in 1..n : j < e => l[j].task # l[i].task
<1> DEFINE t == l[i].task
<1> DEFINE S == {j \in 1..n : l[j].task = t}
<1>1. S \subseteq Nat /\ S # {}
  OBVIOUS
<1>2. PICK e \in S : \A j \in S : e <= j
  <2> HIDE DEF S
  <2> QED  BY <1>1, LeastMember
<1>3. ASSUME NEW j \in 1..n, j < e PROVE l[j].task # t
  <2>1. e \in Nat /\ ~(e <= j)
    BY <1>2, <1>3
  <2> QED  BY <1>2, <2>1
<1> QED  BY <1>2, <1>3

LEMMA CountedAreNats ==
  ASSUME NEW n \in Nat, NEW l \in [1..n -> Line]
  PROVE  /\ Counted(l) \in [1..n -> Nat] /\ Lasting(l) \in [1..n -> Nat]
         /\ IsFiniteSet(Entries(l)) /\ IsFiniteSet(Final(l))
         /\ Entries(l) \subseteq 1..n /\ Final(l) \subseteq 1..n
         /\ \A i \in Entries(l) : \E m \in 1..n :
              /\ l[m].task = l[i].task /\ \A j \in (m + 1)..n : l[j].task # l[i].task
              /\ Counted(l)[i] = l[m].tokens
<1>1. \A i \in 1..n : l[i].tokens \in Nat
  BY LinesDiffer
<1>2. Entries(l) \subseteq 1..n /\ Final(l) \subseteq 1..n
  BY DEF Entries, Final
<1>3. IsFiniteSet(Entries(l)) /\ IsFiniteSet(Final(l))
  BY <1>2, FS_Interval, FS_Subset
<1>4. ASSUME NEW i \in Entries(l)
      PROVE  \E m \in 1..n : /\ l[m].task = l[i].task
                             /\ \A j \in (m + 1)..n : l[j].task # l[i].task
                             /\ Counted(l)[i] = l[m].tokens
  <2>1. PICK m \in 1..n : l[m].task = l[i].task /\ \A j \in (m + 1)..n : l[j].task # l[i].task
    <3>1. i \in 1..n
      BY <1>2
    <3>2. \A k \in 1..n : \E m \in 1..n :
             l[m].task = l[k].task /\ \A j \in (m + 1)..n : l[j].task # l[k].task
      BY LastLine, Zenon
    <3> QED  BY <3>1, <3>2, Zenon
  <2>2. Latest(l, l[i].task) = l[m]
    BY <2>1, LatestIs
  <2>3. Counted(l)[i] = l[m].tokens
    BY <1>2, <2>2 DEF Counted
  <2> QED  BY <2>1, <2>3
<1>5. ASSUME NEW i \in 1..n PROVE Counted(l)[i] \in Nat
  <2>1. CASE i \in Entries(l)
    BY <1>1, <1>4, <2>1
  <2>2. CASE i \notin Entries(l)
    BY <2>2 DEF Counted
  <2> QED  BY <2>1, <2>2
<1>6. Counted(l) \in [1..n -> Nat]
  <2>1. Counted(l) = [i \in 1..n |-> Counted(l)[i]]
    BY DEF Counted
  <2> QED  BY <1>5, <2>1
<1>7. Lasting(l) \in [1..n -> Nat]
  BY <1>1 DEF Lasting
<1> QED  BY <1>2, <1>3, <1>4, <1>6, <1>7

LEMMA CountedStep ==
  ASSUME NEW n \in Nat, NEW l \in [1..(n+1) -> Line], NEW k \in [1..n -> Line],
         \A i \in 1..n : k[i] = l[i]
  PROVE  /\ \A i \in 1..n : i \in Entries(l) <=> i \in Entries(k)
         /\ n + 1 \in Entries(l) <=> \A j \in 1..n : l[j].task # l[n+1].task
         /\ n + 1 \in Final(l)
         /\ \A i \in 1..n : i \in Final(l) <=> i \in Final(k) /\ l[i].task # l[n+1].task
         /\ \A i \in 1..n : l[i].task # l[n+1].task => Counted(l)[i] = Counted(k)[i]
         /\ \A i \in Entries(l) : l[i].task = l[n+1].task => Counted(l)[i] = l[n+1].tokens
         /\ Lasting(l)[n+1] = l[n+1].tokens
         /\ \A i \in 1..n : l[i].task # l[n+1].task => Lasting(l)[i] = Lasting(k)[i]
<1>1. k \in [1..n -> Line] /\ DOMAIN k = 1..n /\ DOMAIN l = 1..(n+1)
  OBVIOUS
<1>2. Len(k) = n /\ Len(l) = n + 1 /\ \A i \in 1..n : i \in 1..(n+1) /\ k[i] = l[i]
  <2>1. k \in Seq(Line) /\ l \in Seq(Line)
    BY <1>1
  <2> QED  BY <1>1, <2>1
<1>3. ASSUME NEW i \in 1..n PROVE i \in Entries(l) <=> i \in Entries(k)
  <2>1. \A j \in 1..(i - 1) : j \in 1..n
    OBVIOUS
  <2> QED  BY <1>1, <1>2, <2>1 DEF Entries
<1>4. n + 1 \in Entries(l) <=> \A j \in 1..n : l[j].task # l[n+1].task
  <2>1. (n + 1) - 1 = n /\ n + 1 \in 1..(n+1)
    OBVIOUS
  <2> QED  BY <1>1, <2>1 DEF Entries
<1>5. n + 1 \in Final(l)
  <2>1. n + 1 \in DOMAIN l /\ ((n + 1) + 1)..Len(l) = {}
    BY <1>1, <1>2
  <2> QED  BY <2>1 DEF Final
<1>6. ASSUME NEW i \in 1..n
      PROVE  i \in Final(l) <=> i \in Final(k) /\ l[i].task # l[n+1].task
  <2>1. \A j : j \in (i + 1)..(n + 1) <=> j \in (i + 1)..n \/ j = n + 1
    OBVIOUS
  <2>2. \A j \in (i + 1)..n : k[j] = l[j]
    BY <1>2
  <2>3. i \in Final(l) <=> \A j \in (i + 1)..(n + 1) : l[j].task # l[i].task
    BY <1>1, <1>2 DEF Final
  <2>4. i \in Final(k) <=> \A j \in (i + 1)..n : l[j].task # l[i].task
    BY <1>1, <1>2, <2>2 DEF Final
  <2> QED  BY <2>1, <2>3, <2>4
<1>7. ASSUME NEW i \in 1..n, l[i].task # l[n+1].task PROVE Counted(l)[i] = Counted(k)[i]
  <2> DEFINE S == {j \in 1..(n+1) : l[j].task = l[i].task}
             T == {j \in 1..n : k[j].task = k[i].task}
  <2>1. S = T
    <3>1. \A j : j \in 1..(n+1) <=> j \in 1..n \/ j = n + 1
      OBVIOUS
    <3> QED  BY <1>2, <1>7, <3>1
  <2>2. T \subseteq 0..n /\ T # {}
    BY <1>2
  <2>3. Max(T) \in 1..n
    <3>1. Max(T) \in T
      <4> HIDE DEF T
      <4> QED  BY <2>2, GreatestIs
    <3> QED  BY <3>1
  <2>4. Latest(l, l[i].task) = l[Max(S)] /\ Latest(k, k[i].task) = k[Max(T)]
    BY <1>1 DEF Latest
  <2> HIDE DEF S, T
  <2>5. Latest(l, l[i].task) = Latest(k, k[i].task)
    BY <1>2, <2>1, <2>3, <2>4
  <2>6. Counted(l)[i] = IF i \in Entries(l) THEN Latest(l, l[i].task).tokens ELSE 0
    BY <1>1, <1>2 DEF Counted
  <2>7. Counted(k)[i] = IF i \in Entries(k) THEN Latest(k, k[i].task).tokens ELSE 0
    BY <1>1 DEF Counted
  <2> QED  BY <1>3, <2>5, <2>6, <2>7
<1>8. ASSUME NEW i \in Entries(l), l[i].task = l[n+1].task PROVE Counted(l)[i] = l[n+1].tokens
  <2>1. /\ n + 1 \in Nat /\ n + 1 \in 1..(n+1)
        /\ \A j \in ((n + 1) + 1)..(n + 1) : l[j].task # l[n+1].task
    OBVIOUS
  <2>2. Latest(l, l[n+1].task) = l[n+1]
    BY <2>1, LatestIs
  <2>3. i \in DOMAIN l
    BY DEF Entries
  <2>4. Counted(l)[i] = Latest(l, l[i].task).tokens
    BY <2>3 DEF Counted
  <2> QED  BY <1>8, <2>2, <2>4
<1>9. Lasting(l)[n+1] = l[n+1].tokens
  BY <1>1, <1>5 DEF Lasting
<1>10. ASSUME NEW i \in 1..n, l[i].task # l[n+1].task PROVE Lasting(l)[i] = Lasting(k)[i]
  BY <1>1, <1>2, <1>6, <1>10 DEF Lasting
<1> QED  BY <1>3, <1>4, <1>5, <1>6, <1>7, <1>8, <1>9, <1>10

LEMMA AgreeingStep ==
  ASSUME NEW n \in Nat, NEW l \in [1..(n+1) -> Line], NEW k \in [1..n -> Line],
         \A i \in 1..n : k[i] = l[i], Agreeing(k)
  PROVE  Agreeing(l)
<1>1. k \in [1..n -> Line] /\ n + 1 \in Nat /\ \A i \in 1..n : k[i] = l[i]
  OBVIOUS
<1>9. /\ \A i \in 1..n : i \in Entries(l) <=> i \in Entries(k)
      /\ n + 1 \in Entries(l) <=> \A j \in 1..n : l[j].task # l[n+1].task
      /\ n + 1 \in Final(l)
      /\ \A i \in 1..n : i \in Final(l) <=> i \in Final(k) /\ l[i].task # l[n+1].task
      /\ \A i \in 1..n : l[i].task # l[n+1].task => Counted(l)[i] = Counted(k)[i]
      /\ \A i \in Entries(l) : l[i].task = l[n+1].task => Counted(l)[i] = l[n+1].tokens
      /\ Lasting(l)[n+1] = l[n+1].tokens
      /\ \A i \in 1..n : l[i].task # l[n+1].task => Lasting(l)[i] = Lasting(k)[i]
  BY <1>1, CountedStep
<1> DEFINE t == l[n+1].task
           c == [i \in 1..n |-> Counted(l)[i]]
           s == [i \in 1..n |-> Lasting(l)[i]]
           ck == Counted(k)
           sk == Lasting(k)
<1>2. /\ ck \in [1..n -> Nat] /\ sk \in [1..n -> Nat]
      /\ Counted(l) \in [1..(n+1) -> Nat] /\ Lasting(l) \in [1..(n+1) -> Nat]
      /\ IsFiniteSet(Entries(k)) /\ IsFiniteSet(Final(k))
      /\ Entries(k) \subseteq 1..n /\ Final(k) \subseteq 1..n
      /\ Entries(l) \subseteq 1..(n+1) /\ Final(l) \subseteq 1..(n+1)
  BY <1>1, CountedAreNats
<1>3. c \in [1..n -> Nat] /\ s \in [1..n -> Nat] /\ Counted(l)[n+1] \in Nat /\ l[n+1].tokens \in Nat
  BY <1>2, LinesDiffer
<1>4. /\ SumOf(Counted(l)) = SumOf(c) + Counted(l)[n+1]
      /\ SumOf(Lasting(l)) = SumOf(s) + Lasting(l)[n+1]
  BY <1>2, SumLast
<1>5. SumOf(c) \in Nat /\ SumOf(s) \in Nat /\ SumOf(ck) \in Nat /\ SumOf(sk) \in Nat
  BY <1>2, <1>3, SumIsNat
<1>6. Cardinality(Entries(k)) = Cardinality(Final(k)) /\ SumOf(ck) = SumOf(sk)
  BY DEF Agreeing
<1>7. \A i : i \in 1..(n+1) <=> i \in 1..n \/ i = n + 1
  OBVIOUS
<1>8. n + 1 \notin 1..n
  OBVIOUS
<1>12. \A i \in 1..n : l[i].task # t => c[i] = ck[i] /\ s[i] = sk[i]
  BY <1>9
<1> HIDE DEF c, s, ck, sk
<1>10. CASE \A j \in 1..n : l[j].task # t
  <2>1. Entries(l) = Entries(k) \cup {n + 1} /\ Final(l) = Final(k) \cup {n + 1}
    BY <1>2, <1>7, <1>9, <1>10
  <2>2. Cardinality(Entries(l)) = Cardinality(Final(l))
    <3>1. n + 1 \notin Entries(k) /\ n + 1 \notin Final(k)
      BY <1>2, <1>8
    <3>2. Cardinality(Entries(k) \cup {n + 1}) = Cardinality(Entries(k)) + 1
      BY <1>2, <3>1, FS_AddElement
    <3>3. Cardinality(Final(k) \cup {n + 1}) = Cardinality(Final(k)) + 1
      BY <1>2, <3>1, FS_AddElement
    <3> QED  BY <1>6, <2>1, <3>2, <3>3
  <2>3. c = ck /\ s = sk
    BY <1>2, <1>3, <1>10, <1>12
  <2>4. Counted(l)[n+1] = Lasting(l)[n+1]
    BY <1>9, <1>10
  <2> QED  BY <1>4, <1>6, <2>2, <2>3, <2>4 DEF Agreeing
<1>11. CASE \E j \in 1..n : l[j].task = t
  <2>1. PICK j \in 1..n : k[j].task = t
    BY <1>1, <1>11
  <2>2. PICK m \in 1..n : k[m].task = t /\ \A i \in (m + 1)..n : k[i].task # t
    <3>1. \A x \in 1..n : \E m \in 1..n :
            k[m].task = k[x].task /\ \A i \in (m + 1)..n : k[i].task # k[x].task
      <4>1. k \in [1..n -> Line]
        BY <1>1
      <4> QED  BY <4>1, LastLine, Zenon
    <3>2. PICK m \in 1..n : k[m].task = k[j].task /\ \A i \in (m + 1)..n : k[i].task # k[j].task
      BY <3>1, Zenon
    <3> QED  BY <2>1, <3>2
  <2>3. PICK e \in 1..n : k[e].task = t /\ \A i \in 1..(e - 1) : k[i].task # t
    <3>1. \A x \in 1..n : \E e \in 1..n :
            k[e].task = k[x].task /\ \A i \in 1..n : i < e => k[i].task # k[x].task
      <4>1. k \in [1..n -> Line]
        BY <1>1
      <4> QED  BY <4>1, FirstLine, Zenon
    <3>2. PICK e \in 1..n : k[e].task = k[j].task /\ \A i \in 1..n : i < e => k[i].task # k[j].task
      BY <3>1, Zenon
    <3> QED  BY <2>1, <3>2
  <2>4. DOMAIN k = 1..n /\ Len(k) = n
    <3>1. k \in Seq(Line)
      BY <1>1
    <3> QED  BY <1>1, <3>1
  <2>5. e \in Entries(k) /\ m \in Final(k)
    BY <2>2, <2>3, <2>4 DEF Entries, Final
  <2>6. ASSUME NEW i \in Entries(k), k[i].task = t PROVE i = e
    <3>1. i \in 1..n /\ \A x \in 1..(i - 1) : k[x].task # k[i].task
      BY <2>4 DEF Entries
    <3>2. ~(e \in 1..(i - 1)) /\ ~(i \in 1..(e - 1))
      BY <2>3, <2>6, <3>1
    <3> QED  BY <3>1, <3>2
  <2>7. ASSUME NEW i \in Final(k), k[i].task = t PROVE i = m
    <3>1. i \in 1..n /\ \A x \in (i + 1)..n : k[x].task # k[i].task
      BY <2>4 DEF Final
    <3>2. ~(m \in (i + 1)..n) /\ ~(i \in (m + 1)..n)
      BY <2>2, <2>7, <3>1
    <3> QED  BY <3>1, <3>2
  <2>8. Entries(l) = Entries(k)
    BY <1>2, <1>7, <1>9, <1>11
  <2>9. Final(l) = (Final(k) \ {m}) \cup {n + 1}
    <3>1. \A i \in Final(k) : l[i].task = t <=> i = m
      BY <1>1, <1>2, <2>2, <2>7
    <3> QED  BY <1>2, <1>7, <1>8, <1>9, <3>1
  <2>10. Cardinality(Final(l)) = Cardinality(Final(k))
    <3> DEFINE R == Final(k) \ {m}
    <3>1. IsFiniteSet(R) /\ Cardinality(R) = Cardinality(Final(k)) - 1
      BY <1>2, <2>5, FS_RemoveElement
    <3>2. n + 1 \notin R
      BY <1>2, <1>8
    <3> HIDE DEF R
    <3>3. Cardinality(R \cup {n + 1}) = Cardinality(R) + 1
      BY <3>1, <3>2, FS_AddElement
    <3>4. Cardinality(Final(k)) \in Nat
      BY <1>2, FS_CardinalityType
    <3> QED  BY <2>9, <3>1, <3>3, <3>4 DEF R
  <2>11. Counted(l)[n+1] = 0
    BY <1>7, <1>9, <1>11 DEF Counted
  <2>12. \A i \in 1..n : i # e => c[i] = ck[i]
    <3>1. ASSUME NEW i \in 1..n, i # e, l[i].task = t PROVE c[i] = ck[i]
      <4>1. i \notin Entries(k) /\ i \notin Entries(l)
        BY <1>1, <1>9, <2>6, <3>1
      <4> QED  BY <1>7, <2>4, <4>1 DEF Counted, c, ck
    <3> QED  BY <1>12, <3>1
  <2>13. \A i \in 1..n : i # m => s[i] = sk[i]
    <3>1. ASSUME NEW i \in 1..n, i # m, l[i].task = t PROVE s[i] = sk[i]
      <4>1. i \notin Final(k) /\ i \notin Final(l)
        BY <1>1, <1>9, <2>7, <3>1
      <4> QED  BY <1>7, <2>4, <4>1 DEF Lasting, s, sk
    <3> QED  BY <1>12, <3>1
  <2>14. c[e] = l[n+1].tokens
    <3>1. e \in Entries(l) /\ l[e].task = t
      BY <1>1, <2>3, <2>5, <2>8
    <3> QED  BY <1>9, <3>1 DEF c
  <2>15. ck[e] = k[m].tokens
    <3>1. Latest(k, k[m].task) = k[m]
      <4>1. k \in [1..n -> Line]
        BY <1>1
      <4>2. \A x \in 1..n :
              (\A i \in (x + 1)..n : k[i].task # k[x].task) => Latest(k, k[x].task) = k[x]
        BY <4>1, LatestIs, Zenon
      <4>3. \A i \in (m + 1)..n : k[i].task # k[m].task
        BY <2>2
      <4> QED  BY <4>2, <4>3, Zenon
    <3> QED  BY <2>2, <2>3, <2>4, <2>5, <3>1 DEF Counted, ck
  <2>16. sk[m] = k[m].tokens /\ s[m] = 0
    <3>1. m \notin Final(l)
      BY <1>1, <1>9, <2>2
    <3> QED  BY <1>7, <2>4, <2>5, <3>1 DEF Lasting, s, sk
  <2>17. SumOf(c) + ck[e] = SumOf(ck) + c[e]
    BY <1>2, <1>3, <2>12, SumChange
  <2>18. SumOf(s) + sk[m] = SumOf(sk) + s[m]
    BY <1>2, <1>3, <2>13, SumChange
  <2>19. k[m].tokens \in Nat
    BY <1>1, LinesDiffer
  <2>20. SumOf(Counted(l)) = SumOf(Lasting(l))
    <3>1. PICK x, y, z, w, v \in Nat : x = SumOf(c) /\ y = SumOf(s) /\ z = SumOf(ck)
                                    /\ w = k[m].tokens /\ v = l[n+1].tokens
      BY <1>3, <1>5, <2>19
    <3>2. x + w = z + v /\ y + w = z + 0
      BY <1>6, <2>14, <2>15, <2>16, <2>17, <2>18, <3>1
    <3>3. x + 0 = y + v
      BY <3>2
    <3> QED  BY <1>4, <1>9, <2>11, <3>1, <3>3
  <2> QED  BY <1>6, <2>8, <2>10, <2>20 DEF Agreeing
<1> QED  BY <1>10, <1>11

LEMMA TotalsAgree ==
  ASSUME NEW n \in Nat, NEW l \in [1..n -> Line]
  PROVE  Agreeing(l)
<1> DEFINE R == {k \in Nat : k <= n => Agreeing([i \in 1..k |-> l[i]])}
<1>1. 0 \in R
  <2> DEFINE e == [i \in 1..0 |-> l[i]]
  <2>1. DOMAIN e = {} /\ e \in [1..0 -> Line]
    OBVIOUS
  <2> HIDE DEF e
  <2>2. Entries(e) = {} /\ Final(e) = {}
    BY <2>1 DEF Entries, Final
  <2>3. Counted(e) = Lasting(e)
    BY <2>1 DEF Counted, Lasting
  <2>4. Agreeing(e)
    BY <2>2, <2>3 DEF Agreeing
  <2> QED  BY <2>4 DEF e
<1>2. ASSUME NEW k \in Nat, k \in R PROVE k + 1 \in R
  <2>1. CASE k + 1 <= n
    <3> DEFINE a == [i \in 1..k |-> l[i]]
               b == [i \in 1..(k+1) |-> l[i]]
    <3>1. b \in [1..(k+1) -> Line] /\ a \in [1..k -> Line] /\ k <= n
          /\ \A i \in 1..k : a[i] = b[i]
      BY <2>1
    <3>2. Agreeing(a)
      BY <1>2, <3>1
    <3> HIDE DEF a, b
    <3>3. Agreeing(b)
      BY <3>1, <3>2, AgreeingStep
    <3> QED  BY <3>3 DEF b
  <2>2. CASE ~(k + 1 <= n)
    BY <2>2
  <2> QED  BY <2>1, <2>2
<1>3. n \in R
  <2> HIDE DEF R
  <2> QED  BY <1>1, <1>2, SetInduction
<1>4. l = [i \in 1..n |-> l[i]]
  OBVIOUS
<1> QED  BY <1>3, <1>4

LEMMA ReportedStays ==
  ASSUME NEW l \in Seq(Line), NEW m \in Seq(Line), NEW totals, Reported(totals, l),
         Len(l) <= Len(m), \A i \in 1..Len(l) : l[i] # Torn => m[i] = l[i]
  PROVE  Reported(totals, m)
<1>1. PICK n \in 0..Len(l) : (\A i \in 1..n : l[i] # Torn) /\ Sound(totals, Beginning(l, n))
  BY DEF Reported
<1>2. Len(l) \in Nat /\ Len(m) \in Nat
  OBVIOUS
<1>3. n \in 0..Len(m) /\ \A i \in 1..n : i \in 1..Len(l)
  BY <1>2
<1>4. \A i \in 1..n : m[i] = l[i] /\ m[i] # Torn
  BY <1>1, <1>3
<1>5. Beginning(m, n) = Beginning(l, n)
  BY <1>4 DEF Beginning
<1> QED  BY <1>1, <1>3, <1>4, <1>5 DEF Reported

LEMMA TotalsReported ==
  ASSUME CommandsTypeOK, LedgerReadable
  PROVE  Reported(Totals(lines), lines)
<1> DEFINE n == Len(lines)
<1>1. n \in Nat /\ lines \in [1..n -> Line]
  BY DEF CommandsTypeOK, Line
<1>2. lines = Beginning(lines, n)
  BY <1>1 DEF Beginning
<1>3. \A i \in 1..n : lines[i] # Torn
  <2>1. \A i \in 1..n : lines[i] \in Range(lines)
    BY <1>1 DEF Range
  <2> QED  BY <2>1 DEF LedgerReadable
<1>4. Agreeing(lines)
  BY <1>1, TotalsAgree
<1>5. /\ Totals(lines).tasks = Cardinality(Entries(lines))
      /\ Totals(lines).tokens = SumOf(Counted(lines))
  BY DEF Totals, Counted
<1>6. Sound(Totals(lines), lines)
  BY <1>4, <1>5 DEF Sound, Agreeing, Lasting
<1>7. n \in 0..Len(lines)
  BY <1>1
<1>8. Sound(Totals(lines), Beginning(lines, n))
  BY <1>2, <1>6
<1> QED  BY <1>3, <1>7, <1>8 DEF Reported

LEMMA SummaryKeeps ==
  ASSUME CommandsTypeOK, CommandsTypeOK', SummaryInv, [CommandsNext]_commandsVars
  PROVE  SummaryInv'
<1>1. proc \in [Procs -> Holdings] /\ proc' \in [Procs -> Holdings]
      /\ Ledger(lines) /\ Ledger(lines') /\ lines \in Seq(Line) /\ lines' \in Seq(Line)
  BY DEF CommandsTypeOK, Holdings, Ledger, Line
<1>2. ASSUME NEW totals, Reported(totals, lines), lines' = lines PROVE Reported(totals, lines')
  BY <1>2
<1>3. ASSUME UNCHANGED <<lines, summary>>,
             \A q \in Procs : proc'[q].at = "summary" => proc'[q] = proc[q]
      PROVE  SummaryInv'
  <2>1. summary' # None => Reported(summary', lines')
    BY <1>2, <1>3 DEF SummaryInv
  <2>2. ASSUME NEW q \in Procs, proc'[q].at = "summary" PROVE Reported(proc'[q].totals, lines')
    <3>1. proc'[q] = proc[q] /\ Reported(proc[q].totals, lines)
      BY <1>3, <2>2 DEF SummaryInv
    <3> QED  BY <1>2, <1>3, <3>1
  <2> QED  BY <2>1, <2>2 DEF SummaryInv
<1>4. ASSUME NEW p \in Procs, NEW v, proc' = [proc EXCEPT ![p] = v], v.at # "summary"
      PROVE  \A q \in Procs : proc'[q].at = "summary" => proc'[q] = proc[q]
  BY <1>1, <1>4
<1>5. AtRest.at # "summary"
  BY DEF AtRest
<1>6. ASSUME NEW p \in Procs, End(p)
      PROVE  \A q \in Procs : proc'[q].at = "summary" => proc'[q] = proc[q]
  BY <1>4, <1>5, <1>6 DEF End
<1>7. ASSUME NEW p \in Procs, NEW new, Begin(p, new), new.at # "summary" PROVE SummaryInv'
  BY <1>3, <1>4, <1>7 DEF Begin, products
<1>8. ASSUME NEW p \in Procs, proc[p] \in Building, NEW at, at # "summary", Goto(p, at)
      PROVE  \A q \in Procs : proc'[q].at = "summary" => proc'[q] = proc[q]
  <2>1. proc' = [proc EXCEPT ![p] = [proc[p] EXCEPT !.at = at]]
    BY <1>1, <1>8 DEF Goto
  <2>2. [proc[p] EXCEPT !.at = at].at # "summary"
    BY <1>8 DEF Building
  <2> QED  BY <1>4, <2>1, <2>2
<1>9. ASSUME NEW p \in Procs, LoadIndex(p) \/ WriteIndex(p) PROVE SummaryInv'
  <2>1. UNCHANGED <<lines, summary>>
    BY <1>9 DEF LoadIndex, WriteIndex, products
  <2>2. CASE End(p)
    BY <1>3, <1>6, <2>1, <2>2
  <2>3. CASE proc' = [proc EXCEPT ![p] = [at |-> "registry", seen |-> docs, checked |-> @.checked]]
    BY <1>1, <1>3, <2>1, <2>3
  <2>4. CASE proc[p].at = "registry" /\ Goto(p, "graph")
    <3>1. proc[p] \in [at : {"registry", "graph"}, seen : [Path -> Texts], checked : BOOLEAN]
      BY <2>4, HoldsWhat
    <3>2. proc'[p].at = "graph" /\ \A q \in Procs \ {p} : proc'[q] = proc[q]
      BY <1>1, <2>4, <3>1 DEF Goto
    <3> QED  BY <1>3, <2>1, <3>2
  <2> QED  BY <1>9, <2>2, <2>3, <2>4 DEF LoadIndex, WriteIndex
<1>10. ASSUME NEW p \in Procs, Validate(p) \/ Graph(p) \/ Build(p) \/ Cost(p) PROVE SummaryInv'
  <2>1. CASE Validate(p) \/ Graph(p)
    BY <1>7, <2>1 DEF Validate, Graph
  <2>2. CASE Build(p)
    BY <1>7, <2>2 DEF Build
  <2>3. CASE Cost(p)
    BY <1>7, <2>3 DEF Cost
  <2> QED  BY <1>10, <2>1, <2>2, <2>3
<1>11. ASSUME NEW p \in Procs, Prepare(p) \/ Unlink(p) \/ Publish(p) PROVE SummaryInv'
  <2>1. UNCHANGED <<lines, summary>>
    BY <1>11 DEF Prepare, Unlink, Publish, products
  <2>2. proc[p] \in Building /\ proc[p].at # "summary"
    BY <1>11, HoldsWhat DEF Prepare, Unlink, Publish
  <2>3. \/ End(p) \/ UNCHANGED proc
        \/ \E at \in {"page", "rest", "mark"} : Goto(p, at)
        \/ proc' = [proc EXCEPT ![p].at = "unlink", ![p].old = site.marker.files]
        \/ \E g : proc' = [proc EXCEPT ![p].left = @ \ {g}]
    <3>1. CASE Prepare(p)
      BY <3>1, Zenon DEF Prepare
    <3>2. CASE Unlink(p)
      BY <3>2 DEF Unlink
    <3>3. CASE Publish(p)
      BY <3>3 DEF Publish
    <3> QED  BY <1>11, <3>1, <3>2, <3>3
  <2>4. CASE End(p)
    BY <1>3, <1>6, <2>1, <2>4
  <2>5. CASE UNCHANGED proc
    BY <1>3, <2>1, <2>5
  <2>6. CASE \E at \in {"page", "rest", "mark"} : Goto(p, at)
    BY <1>3, <1>8, <2>1, <2>2, <2>6
  <2>7. CASE proc' = [proc EXCEPT ![p].at = "unlink", ![p].old = site.marker.files]
    <3>1. proc'[p].at = "unlink" /\ \A q \in Procs \ {p} : proc'[q] = proc[q]
      BY <1>1, <2>2, <2>7 DEF Building
    <3> QED  BY <1>3, <2>1, <3>1
  <2>8. ASSUME NEW g, proc' = [proc EXCEPT ![p].left = @ \ {g}] PROVE SummaryInv'
    <3>1. proc'[p].at = proc[p].at /\ \A q \in Procs \ {p} : proc'[q] = proc[q]
      BY <1>1, <2>2, <2>8 DEF Building
    <3> QED  BY <1>3, <2>1, <2>2, <3>1
  <2> QED  BY <2>3, <2>4, <2>5, <2>6, <2>7, <2>8
<1>12. ASSUME NEW p \in Procs, AppendCost(p) PROVE SummaryInv'
  <2>1. PICK line \in {proc[p].record, Torn} : lines' = Appended(lines, line)
    BY <1>12 DEF AppendCost
  <2>2. line \in Records \cup {Torn}
    BY <1>12, HoldsWhat DEF AppendCost
  <2>3. /\ Len(lines) <= Len(lines')
        /\ \A i \in 1..Len(lines) : lines[i] # Torn => lines'[i] = lines[i]
    BY <1>1, <2>1, <2>2, AppendedKeeps
  <2>4. ASSUME NEW totals, Reported(totals, lines) PROVE Reported(totals, lines')
    BY <1>1, <2>3, <2>4, ReportedStays
  <2>5. UNCHANGED summary /\ End(p)
    BY <1>12 DEF AppendCost
  <2>6. \A q \in Procs : proc'[q].at = "summary" => proc'[q] = proc[q]
    BY <1>6, <2>5
  <2> QED  BY <2>4, <2>5, <2>6 DEF SummaryInv
<1>13. ASSUME NEW p \in Procs, Summarise(p) PROVE SummaryInv'
  <2>1. Reported(Totals(lines), lines) /\ UNCHANGED <<lines, summary>>
    BY <1>13, TotalsReported DEF Summarise, Begin, products
  <2>2. /\ proc'[p] = [at |-> "summary", totals |-> Totals(lines)]
        /\ \A q \in Procs \ {p} : proc'[q] = proc[q]
    BY <1>1, <1>13 DEF Summarise, Begin
  <2>3. Reported(proc'[p].totals, lines')
    BY <1>2, <2>1, <2>2
  <2>4. ASSUME NEW q \in Procs \ {p}, proc'[q].at = "summary"
        PROVE  Reported(proc'[q].totals, lines')
    <3>1. proc'[q] = proc[q] /\ Reported(proc[q].totals, lines)
      BY <2>2, <2>4 DEF SummaryInv
    <3> QED  BY <1>2, <2>1, <3>1
  <2>5. summary' # None => Reported(summary', lines')
    BY <1>2, <2>1 DEF SummaryInv
  <2> QED  BY <2>3, <2>4, <2>5 DEF SummaryInv
<1>14. ASSUME NEW p \in Procs, WriteSummary(p) PROVE SummaryInv'
  <2>1. UNCHANGED lines /\ summary' = proc[p].totals /\ End(p) /\ Reported(proc[p].totals, lines)
    BY <1>14 DEF WriteSummary, SummaryInv
  <2>2. Reported(summary', lines')
    BY <1>2, <2>1
  <2>3. ASSUME NEW q \in Procs, proc'[q].at = "summary" PROVE Reported(proc'[q].totals, lines')
    <3>1. proc'[q] = proc[q] /\ Reported(proc[q].totals, lines)
      BY <1>6, <2>1, <2>3 DEF SummaryInv
    <3> QED  BY <1>2, <2>1, <3>1
  <2> QED  BY <2>2, <2>3 DEF SummaryInv
<1>15. ASSUME NEW p \in Procs, Kill(p) PROVE SummaryInv'
  BY <1>3, <1>6, <1>15 DEF Kill, products
<1>16. CASE EditDocument \/ UNCHANGED commandsVars
  BY <1>3, <1>16 DEF EditDocument, commandsVars, products
<1> QED
  BY <1>9, <1>10, <1>11, <1>12, <1>13, <1>14, <1>15, <1>16 DEF CommandsNext

LEMMA SummarySound ==
  ASSUME CommandsTypeOK, SummaryInv
  PROVE  SummaryCountsOnce
<1> SUFFICES ASSUME summary # None PROVE SummaryCountsOnce
  BY DEF SummaryCountsOnce
<1>1. PICK n \in 0..Len(lines) : Sound(summary, Beginning(lines, n))
  BY DEF SummaryInv, Reported
<1> DEFINE l == Beginning(lines, n)
           final == {i \in 1..n : \A j \in (i + 1)..n : lines[j].task # lines[i].task}
<1>2. lines \in Seq(Line) /\ n \in Nat /\ n <= Len(lines)
  BY DEF CommandsTypeOK, Line
<1>3. l \in [1..n -> Line] /\ DOMAIN l = 1..n /\ \A i \in 1..n : l[i] = lines[i]
  BY <1>2 DEF Beginning
<1>4. Len(l) = n
  <2>1. l \in Seq(Line)
    BY <1>2, <1>3
  <2> QED  BY <1>2, <1>3, <2>1
<1> HIDE DEF l
<1>5. Final(l) = final
  <2>1. \A i \in 1..n : \A j \in (i + 1)..n : j \in 1..n
    OBVIOUS
  <2> QED  BY <1>3, <1>4, <2>1 DEF Final
<1>6. [i \in DOMAIN l |-> IF i \in Final(l) THEN l[i].tokens ELSE 0]
        = [i \in 1..n |-> IF i \in final THEN lines[i].tokens ELSE 0]
  <2> HIDE DEF final
  <2> QED  BY <1>3, <1>5
<1>7. /\ summary.tasks = Cardinality(final)
      /\ summary.tokens = SumOf([i \in 1..n |-> IF i \in final THEN lines[i].tokens ELSE 0])
  <2> HIDE DEF final
  <2> QED  BY <1>1, <1>5, <1>6 DEF Sound, l
<1> QED  BY <1>7, Zenon DEF SummaryCountsOnce

(* The summary counts each task of some earlier ledger once, by its last record:   *)
(* build_summary, while lines are appended, cut or continued.                *)
THEOREM SummaryCorrect == CommandsSpec => []SummaryCountsOnce
<1>1. CommandsInit => CommandsTypeOK /\ SummaryInv
  <2>1. ASSUME CommandsInit PROVE SummaryInv
    BY <2>1 DEF CommandsInit, SummaryInv, AtRest
  <2> QED  BY <2>1, InitType
<1>2. CommandsTypeOK /\ SummaryInv /\ [CommandsNext]_commandsVars => (CommandsTypeOK /\ SummaryInv)'
  BY TypeKeeps, SummaryKeeps
<1>3. CommandsTypeOK /\ SummaryInv => SummaryCountsOnce
  BY SummarySound
<1> QED  BY <1>1, <1>2, <1>3, PTL DEF CommandsSpec

-----------------------------------------------------------------------------
(* Knowledge: what the queries answer                                       *)
LEMMA LastInIs ==
  ASSUME NEW S \in SUBSET Path
  PROVE  IF S = {} THEN LastIn(S) = None ELSE LastIn(S) \in S
<1> DEFINE at == {i \in DOMAIN Paths : Paths[i] \in S}
<1>1. Len(Paths) \in Nat /\ DOMAIN Paths = 1..Len(Paths)
  BY PathsAssumption
<1>2. at = {} <=> S = {}
  BY DEF Path, Range
<1>3. at # {} => Max(at) \in at
  <2>1. at \subseteq 0..Len(Paths)
    BY <1>1
  <2> HIDE DEF at
  <2> QED  BY <1>1, <2>1, GreatestIs
<1>4. LastIn(S) = IF at = {} THEN None ELSE Paths[Max(at)]
  BY DEF LastIn
<1>5. at # {} => Paths[Max(at)] \in S
  BY <1>3
<1> HIDE DEF at
<1> QED  BY <1>2, <1>4, <1>5

LEMMA FoundIs ==
  ASSUME NEW d, NEW ref
  PROVE  /\ Found(d, ref) # None => Found(d, ref) \in Written(d)
         /\ Found(d, ref) = None => \A p \in Written(d) : ref # IdOf(d, p) /\ ref # p
<1> DEFINE S == {p \in Written(d) : ref \in {IdOf(d, p), p}}
<1>1. S \in SUBSET Path /\ None \notin Path
  BY PathsAssumption DEF Written
<1>2. Found(d, ref) = LastIn(S)
  BY DEF Found
<1>3. IF S = {} THEN LastIn(S) = None ELSE LastIn(S) \in S
  <2> HIDE DEF S
  <2> QED  BY <1>1, LastInIs
<1>4. CASE S = {}
  BY <1>2, <1>3, <1>4
<1>5. CASE S # {}
  <2>1. Found(d, ref) \in S
    BY <1>2, <1>3, <1>5
  <2>2. Found(d, ref) # None
    <3> HIDE DEF S
    <3> QED  BY <1>1, <2>1
  <2> QED  BY <2>1, <2>2
<1> QED  BY <1>4, <1>5

(* Whichever form of the reference is found.                                *)
LEMMA LookupIs ==
  ASSUME NEW d, NEW ref
  PROVE  /\ Lookup(d, ref) # None => Lookup(d, ref) \in Written(d)
         /\ Lookup(d, ref) = None => \A p \in Written(d) : ref # IdOf(d, p) /\ ref # p
<1>1. CASE Found(d, ref) # None
  BY <1>1, FoundIs DEF Lookup
<1>2. CASE Found(d, ref) = None
  <2>1. Lookup(d, ref) = Found(d, Stripped[ref])
    BY <1>2 DEF Lookup
  <2> QED  BY <1>2, <2>1, FoundIs
<1> QED  BY <1>1, <1>2

LEMMA ByIdIs ==
  ASSUME NEW d, ~Duplicate(d), NEW p \in Written(d)
  PROVE  ById(d, IdOf(d, p)) = p
<1> DEFINE S == {q \in Written(d) : IdOf(d, q) = IdOf(d, p)}
<1>1. S = {p}
  BY DEF Duplicate
<1>2. S \in SUBSET Path
  BY DEF Written
<1>3. ById(d, IdOf(d, p)) = LastIn(S)
  BY DEF ById
<1> HIDE DEF S
<1>4. LastIn(S) \in S
  BY <1>1, <1>2, LastInIs
<1> QED  BY <1>1, <1>3, <1>4

LEMMA ImpactExact == ImpactIsExact
<1> SUFFICES ASSUME Valid(docs), NEW p \in Written(docs)
             PROVE  /\ ImpactRead(docs, p) = {p}
                    /\ \A q \in Written(docs) \ {p} :
                         IdOf(docs, q) \in Related(docs, p) \/ IdOf(docs, p) \in Related(docs, q)
                           => q \in ImpactPossible(docs, p)
  BY DEF ImpactIsExact
<1>1. ~Duplicate(docs)
  BY DEF Valid
<1>2. ImpactRead(docs, p) = {p}
  BY <1>1, ByIdIs DEF ImpactRead
<1>3. ASSUME NEW q \in Written(docs) \ {p},
             IdOf(docs, q) \in Related(docs, p) \/ IdOf(docs, p) \in Related(docs, q)
      PROVE  q \in ImpactPossible(docs, p)
  <2> DEFINE a == IdOf(docs, p)
             b == IdOf(docs, q)
  <2>1. a # b
    BY <1>1 DEF Duplicate
  <2>2. b \in Neighbors(docs, a)
    <3>1. CASE b \in Related(docs, p)
      <4>1. <<a, b>> \in Edges(docs)
        BY <3>1 DEF Edges
      <4>2. b \in {e[2] : e \in {x \in Edges(docs) : x[1] = a}}
        <5> HIDE DEF a, b
        <5> QED  BY <4>1
      <4> QED  BY <4>2 DEF Neighbors
    <3>2. CASE a \in Related(docs, q)
      <4>1. <<b, a>> \in Edges(docs)
        BY <3>2 DEF Edges
      <4>2. b \in {e[1] : e \in {x \in Edges(docs) : x[2] = a /\ x[1] # a}}
        <5> HIDE DEF a, b
        <5> QED  BY <2>1, <4>1
      <4> QED  BY <4>2 DEF Neighbors
    <3> QED  BY <1>3, <3>1, <3>2
  <2>3. ById(docs, b) = q
    BY <1>1, ByIdIs
  <2>4. q # None
    BY PathsAssumption DEF Written
  <2> HIDE DEF a, b
  <2>5. q \in {ById(docs, id) : id \in Neighbors(docs, a)} \ {None}
    BY <2>2, <2>3, <2>4
  <2> QED  BY <2>5 DEF ImpactPossible, a
<1> QED  BY <1>2, <1>3

(* The items a context is put together from.                                *)
References == Range(Required) \cup Range(Optional) \cup Range(Include) \cup Range(PackOptional)
ItemsOf(d) == [id : References \cup {IdOf(d, p) : p \in Written(d)} \cup {Agents, Atlas},
               path : Path \cup {None, Agents}, tokens : Nat]

(* u is s, with x when no item of s has its id.                              *)
Extended(u, s, x) == /\ \A i \in DOMAIN s : i \in DOMAIN u /\ u[i] = s[i]
                     /\ \A i \in DOMAIN u : i \in DOMAIN s \/ u[i] = x
                     /\ \E i \in DOMAIN u : u[i].id = x.id

LEMMA AddUniqueIs ==
  ASSUME NEW T, NEW s \in Seq(T), NEW x \in T
  PROVE  AddUnique(s, x) \in Seq(T) /\ Extended(AddUnique(s, x), s, x)
<1>1. CASE \E i \in DOMAIN s : s[i].id = x.id
  <2>1. AddUnique(s, x) = s
    BY <1>1 DEF AddUnique
  <2> QED  BY <1>1, <2>1 DEF Extended
<1>2. CASE ~ \E i \in DOMAIN s : s[i].id = x.id
  <2>1. AddUnique(s, x) = Append(s, x)
    BY <1>2, Zenon DEF AddUnique
  <2>2. /\ Append(s, x) \in Seq(T) /\ Len(Append(s, x)) = Len(s) + 1 /\ Len(s) \in Nat
        /\ \A i \in 1..Len(s) : Append(s, x)[i] = s[i]
        /\ Append(s, x)[Len(s) + 1] = x
        /\ DOMAIN s = 1..Len(s) /\ DOMAIN Append(s, x) = 1..(Len(s) + 1)
    OBVIOUS
  <2>3. \A i : i \in 1..(Len(s) + 1) <=> i \in 1..Len(s) \/ i = Len(s) + 1
    BY <2>2
  <2> QED  BY <2>1, <2>2, <2>3 DEF Extended
<1> QED  BY <1>1, <1>2

(* g is what _add_unique makes of the items, offer by offer.                  *)
Growing(g, T, items, offers) ==
  /\ g \in [0..Len(offers) -> Seq(T)] /\ g[0] = items
  /\ \A n \in 1..Len(offers) : g[n] = AddUnique(g[n-1], offers[n])

LEMMA AddedIs ==
  ASSUME NEW T, NEW items \in Seq(T), NEW offers \in Seq(T)
  PROVE  \E g : Growing(g, T, items, offers) /\ Added(items, offers) = g[Len(offers)]
<1> DEFINE k == Len(offers)
           V == Seq(T)
           F == [i \in 1..k |-> [s \in V |-> AddUnique(s, offers[i])]]
           Is(h) == h = [n \in 0..Len(offers) |-> IF n = 0 THEN items
                                                  ELSE AddUnique(h[n-1], offers[n])]
<1>1. k \in Nat /\ \A i \in 1..k : offers[i] \in T
  OBVIOUS
<1>2. F \in [1..k -> [V -> V]]
  <2>1. \A i \in 1..k : \A s \in V : AddUnique(s, offers[i]) \in V
    BY <1>1, AddUniqueIs
  <2> HIDE DEF V
  <2> QED  BY <2>1
<1> HIDE DEF F, V
<1>3. items \in V
  BY DEF V
<1> HIDE DEF k
<1>4. PICK g : Folded(g, k, V, items, F)
  BY <1>1, <1>2, <1>3, FoldExists
<1>5. g \in [0..k -> V] /\ g[0] = items
  BY <1>4 DEF Folded
<1>6. ASSUME NEW n \in 1..k PROVE g[n] = AddUnique(g[n-1], offers[n])
  <2>1. n - 1 \in 0..k
    BY <1>1
  <2>2. g[n] = F[n][g[n-1]] /\ g[n-1] \in V
    BY <1>4, <1>5, <2>1 DEF Folded
  <2> QED  BY <2>2 DEF F
<1>7. Is(g)
  <2>1. ASSUME NEW n \in 0..k PROVE g[n] = IF n = 0 THEN items ELSE AddUnique(g[n-1], offers[n])
    <3>1. n = 0 \/ n \in 1..k
      BY <1>1
    <3> QED  BY <1>1, <1>5, <1>6, <3>1
  <2>2. g = [n \in 0..k |-> g[n]]
    BY <1>5
  <2>3. g = [n \in 0..k |-> IF n = 0 THEN items ELSE AddUnique(g[n-1], offers[n])]
    BY <2>1, <2>2, Zenon
  <2> QED  BY <2>3, Zenon DEF k
<1> DEFINE h == CHOOSE h : Is(h)
<1>8. Is(h)
  BY <1>7, Zenon
<1>9. Added(items, offers) = h[k]
  BY Zenon DEF Added, k
<1> HIDE DEF h
<1>10. h[0] = items /\ DOMAIN h = 0..k
  BY <1>1, <1>8 DEF k
<1>11. ASSUME NEW n \in 1..k PROVE h[n] = AddUnique(h[n-1], offers[n])
  <2>1. n \in 0..k /\ n # 0
    BY <1>1
  <2> QED  BY <1>8, <2>1, Zenon DEF k
<1>12. \A n \in 0..k : h[n] \in V
  <2> DEFINE R == {n \in Nat : n <= k => h[n] \in V}
  <2>1. 0 \in R
    BY <1>3, <1>10
  <2>2. ASSUME NEW n \in Nat, n \in R PROVE n + 1 \in R
    <3>1. CASE n + 1 <= k
      <4>1. n + 1 \in 1..k /\ (n + 1) - 1 = n /\ n <= k
        BY <1>1, <3>1
      <4>2. h[n] \in V
        BY <2>2, <4>1
      <4>3. h[n+1] = AddUnique(h[n], offers[n+1])
        BY <1>11, <4>1
      <4>4. AddUnique(h[n], offers[n+1]) \in V
        <5>1. offers[n+1] \in T /\ h[n] \in Seq(T)
          BY <1>1, <4>1, <4>2 DEF V
        <5>2. \A s \in Seq(T), x \in T : AddUnique(s, x) \in Seq(T)
          BY AddUniqueIs, Zenon
        <5> QED  BY <5>1, <5>2 DEF V
      <4> QED  BY <4>3, <4>4
    <3>2. CASE ~(n + 1 <= k)
      BY <3>2
    <3> QED  BY <3>1, <3>2
  <2>3. Nat \subseteq R
    <3> HIDE DEF R
    <3> QED  BY <2>1, <2>2, SetInduction
  <2> QED  BY <1>1, <2>3
<1>13. h \in [0..k -> V]
  <2>1. h = [n \in 0..k |-> h[n]]
    BY <1>8, <1>10, Zenon DEF k
  <2> QED  BY <1>12, <2>1
<1>14. Growing(h, T, items, offers)
  BY <1>10, <1>11, <1>13 DEF Growing, k, V
<1> QED  BY <1>9, <1>14 DEF k

(* u holds nothing but items and offers, and of every offer one with its id.     *)
Gathered(u, items, offers) ==
  /\ \A i \in DOMAIN u : \/ \E j \in DOMAIN items : u[i] = items[j]
                         \/ \E j \in DOMAIN offers : u[i] = offers[j]
  /\ \A j \in DOMAIN offers : \E i \in DOMAIN u : u[i].id = offers[j].id

LEMMA AddedHas ==
  ASSUME NEW T, NEW items \in Seq(T), NEW offers \in Seq(T)
  PROVE  Added(items, offers) \in Seq(T) /\ Gathered(Added(items, offers), items, offers)
<1> DEFINE k == Len(offers)
<1>1. PICK g : Growing(g, T, items, offers) /\ Added(items, offers) = g[k]
  BY AddedIs
<1>2. k \in Nat /\ DOMAIN offers = 1..k /\ \A i \in 1..k : offers[i] \in T
  OBVIOUS
<1> HIDE DEF k
<1>3. /\ g \in [0..k -> Seq(T)] /\ g[0] = items
      /\ \A n \in 1..k : g[n] = AddUnique(g[n-1], offers[n])
  BY <1>1 DEF Growing, k
<1> DEFINE From(s) == \A i \in DOMAIN s : \/ \E j \in DOMAIN items : s[i] = items[j]
                                          \/ \E j \in DOMAIN offers : s[i] = offers[j]
           Has(s, n) == \A j \in 1..n : \E i \in DOMAIN s : s[i].id = offers[j].id
           R == {n \in Nat : n <= k => From(g[n]) /\ Has(g[n], n)}
<1>4. 0 \in R
  BY <1>3
<1>5. ASSUME NEW n \in Nat, n \in R PROVE n + 1 \in R
  <2>1. CASE n + 1 <= k
    <3>1. n + 1 \in 1..k /\ (n + 1) - 1 = n /\ n \in 0..k /\ n <= k
      BY <1>2, <2>1
    <3> DEFINE s == g[n]
               x == offers[n+1]
    <3>2. From(s) /\ Has(s, n) /\ s \in Seq(T) /\ x \in T
      BY <1>2, <1>3, <1>5, <3>1
    <3>3. g[n+1] = AddUnique(s, x)
      BY <1>3, <3>1
    <3> HIDE DEF s, x
    <3>4. Extended(AddUnique(s, x), s, x)
      <4>1. s \in Seq(T) /\ x \in T
        BY <3>2
      <4>2. \A r \in Seq(T), y \in T : Extended(AddUnique(r, y), r, y)
        BY AddUniqueIs
      <4> QED  BY <4>1, <4>2
    <3>5. From(AddUnique(s, x))
      BY <1>2, <3>1, <3>2, <3>4 DEF x, Extended
    <3>6. Has(AddUnique(s, x), n + 1)
      <4>1. \A j \in 1..(n + 1) : j \in 1..n \/ j = n + 1
        OBVIOUS
      <4> QED  BY <3>2, <3>4, <4>1 DEF x, Extended
    <3> HIDE DEF From, Has
    <3> QED  BY <3>3, <3>5, <3>6
  <2>2. CASE ~(n + 1 <= k)
    BY <2>2
  <2> QED  BY <2>1, <2>2
<1>6. k \in R
  <2> HIDE DEF R
  <2> QED  BY <1>2, <1>4, <1>5, SetInduction
<1>7. From(g[k]) /\ Has(g[k], k) /\ g[k] \in Seq(T)
  <2> HIDE DEF From, Has
  <2> QED  BY <1>2, <1>3, <1>6
<1> QED  BY <1>1, <1>2, <1>7 DEF Gathered

(* Of what matches, the sequence by rank holds nothing else.                  *)
LEMMA RankedIs ==
  ASSUME NEW d, NEW M, NEW s \in Seq(M), NEW p \in M
  PROVE  Ranked(d, s, p) \in Seq(M)
<1> DEFINE better == {i \in DOMAIN s : d[s[i]].hits >= d[p].hits}
           k == IF better = {} THEN 0 ELSE Max(better)
<1>1. k \in 0..Len(s)
  <2>1. better \subseteq 0..Len(s) /\ Len(s) \in Nat /\ \A i \in better : i \in 0..Len(s)
    OBVIOUS
  <2> HIDE DEF better
  <2>2. better # {} => Max(better) \in better
    BY <2>1, GreatestIs
  <2>3. CASE better = {}
    <3>1. k = 0
      BY <2>3
    <3> QED  BY <2>1, <3>1
  <2>4. CASE better # {}
    <3>1. k = Max(better)
      BY <2>4
    <3> QED  BY <2>1, <2>2, <2>4, <3>1
  <2> QED  BY <2>3, <2>4
<1> HIDE DEF k
<1>2. SubSeq(s, 1, k) \in Seq(M) /\ SubSeq(s, k + 1, Len(s)) \in Seq(M) /\ <<p>> \in Seq(M)
  BY <1>1
<1>3. SubSeq(s, 1, k) \o <<p>> \o SubSeq(s, k + 1, Len(s)) \in Seq(M)
  BY <1>2
<1> QED  BY <1>3 DEF Ranked, k

LEMMA HitsAre ==
  ASSUME NEW d
  PROVE  Hits(d) \in Seq(Matching(d))
<1> DEFINE M == Matching(d)
           V == Seq(M)
           k == Len(Paths)
           Ranking(n, s) == IF Paths[n] \in M THEN Ranked(d, s, Paths[n]) ELSE s
           F == [n \in 1..k |-> [s \in V |-> Ranking(n, s)]]
           Is(h) == h = [n \in 0..Len(Paths) |->
                           IF n = 0 THEN <<>>
                           ELSE IF Paths[n] \in Matching(d)
                           THEN Ranked(d, h[n-1], Paths[n]) ELSE h[n-1]]
<1>1. k \in Nat
  BY PathsAssumption
<1>2. <<>> \in V
  OBVIOUS
<1>3. \A n \in 1..k : \A s \in V : Ranking(n, s) \in V
  <2> HIDE DEF M
  <2> QED  BY RankedIs
<1> HIDE DEF V, Ranking, M
<1>4. F \in [1..k -> [V -> V]]
  BY <1>3
<1> HIDE DEF F, k
<1>5. PICK g : Folded(g, k, V, <<>>, F)
  BY <1>1, <1>2, <1>4, FoldExists
<1>6. g \in [0..k -> V] /\ g[0] = <<>>
  BY <1>5 DEF Folded
<1>7. ASSUME NEW n \in 1..k PROVE g[n] = Ranking(n, g[n-1])
  <2>1. n - 1 \in 0..k
    BY <1>1
  <2>2. g[n] = F[n][g[n-1]] /\ g[n-1] \in V
    BY <1>5, <1>6, <2>1 DEF Folded
  <2> QED  BY <2>2 DEF F
<1>8. Is(g)
  <2>1. ASSUME NEW n \in 0..k PROVE g[n] = IF n = 0 THEN <<>> ELSE Ranking(n, g[n-1])
    <3>1. n = 0 \/ n \in 1..k
      BY <1>1
    <3>2. n \in 1..k => n # 0
      BY <1>1
    <3> QED  BY <1>6, <1>7, <3>1, <3>2
  <2>2. g = [n \in 0..k |-> g[n]]
    BY <1>6
  <2>3. g = [n \in 0..k |-> IF n = 0 THEN <<>> ELSE Ranking(n, g[n-1])]
    BY <2>1, <2>2, Zenon
  <2> QED  BY <2>3, Zenon DEF k, Ranking, M
<1> DEFINE h == CHOOSE h : Is(h)
<1>9. Is(h)
  BY <1>8, Zenon
<1>10. Hits(d) = h[k]
  BY Zenon DEF Hits, k
<1> HIDE DEF h
<1>11. h[0] = <<>>
  BY <1>1, <1>9 DEF k
<1>12. ASSUME NEW n \in 1..k PROVE h[n] = Ranking(n, h[n-1])
  <2>1. n \in 0..k /\ n # 0
    BY <1>1
  <2> QED  BY <1>9, <2>1, Zenon DEF k, Ranking, M
<1> DEFINE R == {n \in Nat : n <= k => h[n] \in V}
<1>13. 0 \in R
  BY <1>2, <1>11
<1>14. ASSUME NEW n \in Nat, n \in R PROVE n + 1 \in R
  <2>1. CASE n + 1 <= k
    <3>1. n + 1 \in 1..k /\ (n + 1) - 1 = n /\ n <= k
      BY <1>1, <2>1
    <3>2. h[n] \in V
      BY <1>14, <3>1
    <3>3. h[n+1] = Ranking(n + 1, h[n])
      BY <1>12, <3>1
    <3> QED  BY <1>3, <3>1, <3>2, <3>3
  <2>2. CASE ~(n + 1 <= k)
    BY <2>2
  <2> QED  BY <2>1, <2>2
<1>15. k \in R
  <2> HIDE DEF R
  <2> QED  BY <1>1, <1>13, <1>14, SetInduction
<1>16. h[k] \in V
  BY <1>1, <1>15
<1> QED  BY <1>10, <1>16 DEF V, M

LEMMA TotalIsNat ==
  ASSUME NEW d, NEW s \in Seq(ItemsOf(d))
  PROVE  Total(s) \in Nat
<1> DEFINE f == [i \in DOMAIN s |-> s[i].tokens]
<1>1. Len(s) \in Nat /\ f \in [1..Len(s) -> Nat]
  <2>1. DOMAIN s = 1..Len(s) /\ Len(s) \in Nat /\ \A i \in 1..Len(s) : s[i] \in ItemsOf(d)
    OBVIOUS
  <2>2. \A x \in ItemsOf(d) : x.tokens \in Nat
    BY DEF ItemsOf
  <2>3. f = [i \in 1..Len(s) |-> s[i].tokens]
    BY <2>1
  <2> HIDE DEF f
  <2> QED  BY <2>1, <2>2, <2>3
<1> HIDE DEF f
<1>2. SumOf(f) \in Nat
  BY <1>1, SumIsNat
<1> QED  BY <1>2 DEF Total, f

LEMMA ReferredAre ==
  ASSUME NEW d \in [Path -> Texts], Readable(d), NEW refs \in Seq(References)
  PROVE  /\ Referred(d, refs) \in Seq(ItemsOf(d)) /\ DOMAIN Referred(d, refs) = DOMAIN refs
         /\ \A i \in DOMAIN refs : /\ Referred(d, refs)[i] = ItemFor(d, refs[i])
                                   /\ Referred(d, refs)[i].path = Lookup(d, refs[i])
<1>1. ASSUME NEW ref \in References
      PROVE  ItemFor(d, ref) \in ItemsOf(d) /\ ItemFor(d, ref).path = Lookup(d, ref)
  <2>1. CASE Lookup(d, ref) = None
    <3>1. ItemFor(d, ref) = Item(ref, None, 0)
      BY <2>1 DEF ItemFor
    <3> QED  BY <2>1, <3>1 DEF Item, ItemsOf
  <2>2. CASE Lookup(d, ref) # None
    <3> DEFINE p == Lookup(d, ref)
    <3>1. p \in Written(d)
      BY <2>2, LookupIs
    <3>2. p \in Path /\ Tokens(d, p) \in Nat
      BY <3>1, DocumentAt
    <3>3. ItemFor(d, ref) = Item(IdOf(d, p), p, Tokens(d, p))
      BY <2>2 DEF ItemFor
    <3> HIDE DEF p
    <3>4. Item(IdOf(d, p), p, Tokens(d, p)) \in ItemsOf(d)
      BY <3>1, <3>2 DEF Item, ItemsOf
    <3>5. Item(IdOf(d, p), p, Tokens(d, p)).path = p
      BY DEF Item
    <3> QED  BY <3>3, <3>4, <3>5 DEF p
  <2> QED  BY <2>1, <2>2
<1>2. /\ Len(refs) \in Nat /\ DOMAIN refs = 1..Len(refs)
      /\ \A i \in 1..Len(refs) : refs[i] \in References
  OBVIOUS
<1>3. Referred(d, refs) = [i \in 1..Len(refs) |-> ItemFor(d, refs[i])]
  BY <1>2 DEF Referred
<1>4. Referred(d, refs) \in [1..Len(refs) -> ItemsOf(d)]
  BY <1>1, <1>2, <1>3
<1> QED  BY <1>1, <1>2, <1>3, <1>4

LEMMA MatchedAre ==
  ASSUME NEW d \in [Path -> Texts], Readable(d)
  PROVE  /\ Matched(d) \in Seq(ItemsOf(d))
         /\ \A i \in DOMAIN Matched(d) : \E p \in Matching(d) : Matched(d)[i].id = IdOf(d, p)
<1> DEFINE hits == Hits(d)
<1>1. hits \in Seq(Matching(d))
  BY HitsAre
<1> HIDE DEF hits
<1>2. /\ Len(hits) \in Nat /\ DOMAIN hits = 1..Len(hits)
      /\ \A i \in 1..Len(hits) : hits[i] \in Matching(d)
  BY <1>1
<1>3. Matched(d) = [n \in 1..Len(hits) |-> Item(IdOf(d, hits[n]), hits[n], Tokens(d, hits[n]))]
  BY <1>2 DEF Matched, hits
<1>4. ASSUME NEW p \in Matching(d)
      PROVE  Item(IdOf(d, p), p, Tokens(d, p)) \in ItemsOf(d)
             /\ Item(IdOf(d, p), p, Tokens(d, p)).id = IdOf(d, p)
  <2>1. p \in Written(d)
    BY DEF Matching
  <2>2. p \in Path /\ Tokens(d, p) \in Nat
    BY <2>1, DocumentAt
  <2> QED  BY <2>1, <2>2 DEF Item, ItemsOf
<1>5. Matched(d) \in [1..Len(hits) -> ItemsOf(d)]
  BY <1>2, <1>3, <1>4
<1> QED  BY <1>2, <1>3, <1>4, <1>5

LEMMA ReferencesAre ==
  /\ Required \o Include \in Seq(References) /\ Optional \o PackOptional \in Seq(References)
  /\ Agents \in {Agents}
<1>1. \A refs \in {Required, Optional, Include, PackOptional} : refs \in Seq(References)
  <2>1. \A refs : refs \in Seq(Range(refs)) /\ Range(refs) \subseteq References => refs \in Seq(References)
    OBVIOUS
  <2> QED  BY <2>1, ReferenceAssumption DEF References
<1> QED  BY <1>1

LEMMA ChosenAre ==
  ASSUME NEW d \in [Path -> Texts], Readable(d)
  PROVE  /\ Chosen(d) \in Seq(ItemsOf(d)) /\ Contract(d) \in Seq(ItemsOf(d))
         /\ \A i \in DOMAIN Contract(d) : Contract(d)[i].id \in {Agents, Atlas}
         /\ Gathered(Chosen(d), Contract(d), Referred(d, Required \o Include))
<1>1. /\ Contract(d) \in Seq(ItemsOf(d))
      /\ \A i \in DOMAIN Contract(d) : Contract(d)[i].id \in {Agents, Atlas}
  <2>1. Item(Agents, Agents, 1) \in ItemsOf(d)
    BY DEF Item, ItemsOf
  <2>2. CASE d[Atlas] = None
    <3>1. Contract(d) = <<Item(Agents, Agents, 1)>>
      BY <2>2 DEF Contract
    <3> QED  BY <2>1, <3>1 DEF Item
  <2>3. CASE d[Atlas] # None
    <3>1. Contract(d) = <<Item(Agents, Agents, 1), Item(Atlas, Atlas, d[Atlas].body)>>
      BY <2>3 DEF Contract
    <3>2. Atlas \in Written(d) /\ Atlas \in Path
      BY <2>3, PathsAssumption DEF Written
    <3>3. d[Atlas].body \in Nat
      BY <3>2, DocumentAt DEF IsDocument
    <3>4. Item(Atlas, Atlas, d[Atlas].body) \in ItemsOf(d)
      BY <3>2, <3>3 DEF Item, ItemsOf
    <3> QED  BY <2>1, <3>1, <3>4 DEF Item
  <2> QED  BY <2>2, <2>3
<1>2. Referred(d, Required \o Include) \in Seq(ItemsOf(d))
  BY ReferencesAre, ReferredAre
<1> QED  BY <1>1, <1>2, AddedHas DEF Chosen

LEMMA OfferedAre ==
  ASSUME NEW d \in [Path -> Texts], Readable(d)
  PROVE  /\ Offered(d) \in Seq(ItemsOf(d))
         /\ \A i \in DOMAIN Offered(d) :
              \/ \E j \in DOMAIN (Optional \o PackOptional) :
                   Offered(d)[i].path = Lookup(d, (Optional \o PackOptional)[j])
              \/ \E p \in Matching(d) : Offered(d)[i].id = IdOf(d, p)
<1> DEFINE refs == Optional \o PackOptional
           r == Referred(d, refs)
           m == Matched(d)
           offers == r \o m
           T == ItemsOf(d)
           u == Added(<<>>, offers)
<1>1. /\ r \in Seq(T) /\ DOMAIN r = DOMAIN refs
      /\ \A i \in DOMAIN refs : r[i].path = Lookup(d, refs[i])
  BY ReferencesAre, ReferredAre
<1>2. m \in Seq(T) /\ \A i \in DOMAIN m : \E p \in Matching(d) : m[i].id = IdOf(d, p)
  BY MatchedAre
<1>3. Offered(d) = u
  BY DEF Offered
<1> HIDE DEF r, m, T, refs
<1>4. offers \in Seq(T) /\ <<>> \in Seq(T)
  BY <1>1, <1>2
<1>5. ASSUME NEW j \in DOMAIN offers
      PROVE  \/ \E i \in DOMAIN r : offers[j] = r[i]
             \/ \E i \in DOMAIN m : offers[j] = m[i]
  <2>1. Len(r) \in Nat /\ Len(m) \in Nat /\ DOMAIN r = 1..Len(r) /\ DOMAIN m = 1..Len(m)
        /\ DOMAIN offers = 1..(Len(r) + Len(m))
    BY <1>1, <1>2
  <2>2. CASE j <= Len(r)
    <3>1. j \in 1..Len(r) /\ offers[j] = r[j]
      BY <1>1, <1>2, <2>1, <2>2
    <3> QED  BY <2>1, <3>1
  <2>3. CASE j > Len(r)
    <3>1. j - Len(r) \in 1..Len(m) /\ offers[j] = m[j - Len(r)]
      BY <1>1, <1>2, <2>1, <2>3
    <3> QED  BY <2>1, <3>1
  <2> QED  BY <2>1, <2>2, <2>3
<1> HIDE DEF offers
<1>6. u \in Seq(T) /\ Gathered(u, <<>>, offers)
  BY <1>4, AddedHas
<1> HIDE DEF u
<1>7. ASSUME NEW i \in DOMAIN u
      PROVE  \/ \E j \in DOMAIN refs : u[i].path = Lookup(d, refs[j])
             \/ \E p \in Matching(d) : u[i].id = IdOf(d, p)
  <2>1. \E j \in DOMAIN offers : u[i] = offers[j]
    BY <1>6 DEF Gathered
  <2> QED  BY <1>1, <1>2, <1>5, <2>1
<1> QED  BY <1>3, <1>6, <1>7 DEF T, refs

LEMMA BudgetKept == ASSUME CommandsTypeOK PROVE BudgetIsKept
<1> SUFFICES ASSUME Readable(docs), NEW b \in Budgets
             PROVE  LET taken == Taken(docs, b)
                        total == Total(Chosen(docs)) + Total(taken)
                    IN /\ taken # <<>> => total <= b.target
                       /\ total > b.max <=> Overrun(docs, b)
  BY DEF BudgetIsKept
<1> DEFINE offered == Offered(docs)
           before == Total(Chosen(docs))
           fits == {n \in 1..Len(offered) : before + Total(SubSeq(offered, 1, n)) <= b.target}
           taken == Taken(docs, b)
<1>1. docs \in [Path -> Texts]
  BY DEF CommandsTypeOK
<1>2. offered \in Seq(ItemsOf(docs)) /\ before \in Nat
  BY <1>1, OfferedAre, ChosenAre, TotalIsNat
<1>3. b.target \in Nat /\ b.max \in Nat /\ b.max >= b.target
  BY BudgetAssumption
<1>4. taken = SubSeq(offered, 1, IF fits = {} THEN 0 ELSE Max(fits))
  BY DEF Taken, Room
<1>5. fits \subseteq 0..Len(offered) /\ Len(offered) \in Nat
      /\ \A n \in fits : n \in 1..Len(offered) /\ before + Total(SubSeq(offered, 1, n)) <= b.target
  BY <1>2
<1>6. \A n \in 0..Len(offered) : SubSeq(offered, 1, n) \in Seq(ItemsOf(docs))
  <2> HIDE DEF offered
  <2> QED  BY <1>2
<1> HIDE DEF offered, before, fits, taken
<1>7. CASE fits = {}
  <2>1. taken = SubSeq(offered, 1, 0)
    BY <1>4, <1>7
  <2>2. taken = <<>>
    BY <1>2, <2>1
  <2>3. Total(taken) = 0
    <3> DEFINE f == [i \in DOMAIN taken |-> taken[i].tokens]
    <3>1. DOMAIN taken = 1..0 /\ f \in [1..0 -> Nat]
      BY <2>2
    <3> HIDE DEF f
    <3>2. PICK h : Summing(h, f, 0) /\ SumOf(f) = h[0]
      BY <3>1, SumExists
    <3> QED  BY <3>2 DEF Total, f, Summing
  <2>4. before + Total(taken) = before
    BY <1>2, <2>3
  <2> QED  BY <2>2, <2>4 DEF Overrun, taken, before
<1>8. CASE fits # {}
  <2>1. Max(fits) \in fits
    BY <1>5, <1>8, GreatestIs
  <2>2. taken = SubSeq(offered, 1, Max(fits))
    BY <1>4, <1>8
  <2>3. before + Total(taken) <= b.target
    BY <1>5, <2>1, <2>2
  <2>4. Total(taken) \in Nat
    <3>1. taken \in Seq(ItemsOf(docs))
      BY <1>5, <1>6, <2>1, <2>2
    <3> QED  BY <3>1, TotalIsNat
  <2>5. ~(before + Total(taken) > b.max) /\ ~(before > b.max)
    BY <1>2, <1>3, <2>3, <2>4
  <2> QED  BY <2>3, <2>5 DEF Overrun, taken, before
<1> QED  BY <1>7, <1>8

LEMMA RequiredKept == ASSUME CommandsTypeOK PROVE RequiredOnce
<1> DEFINE chosen == Chosen(docs)
           offered == Offered(docs)
           named == {Lookup(docs, ref) : ref \in Range(Required \o Include)}
           optional == {Lookup(docs, ref) : ref \in Range(Optional \o PackOptional)}
<1> SUFFICES ASSUME Valid(docs)
             PROVE  /\ Unambiguous(docs) =>
                         named \ {None} \subseteq {chosen[i].path : i \in DOMAIN chosen}
                    /\ \A i \in DOMAIN offered, j \in DOMAIN chosen :
                         chosen[j].id = offered[i].id => offered[i].path \in optional
  BY DEF RequiredOnce
<1>1. docs \in [Path -> Texts] /\ Readable(docs) /\ ~Duplicate(docs)
  BY DEF CommandsTypeOK, Valid
<1>2. ASSUME Unambiguous(docs), NEW p \in named \ {None}
      PROVE  \E i \in DOMAIN chosen : chosen[i].path = p
  <2> DEFINE refs == Required \o Include
             offers == Referred(docs, refs)
  <2>1. PICK ref \in Range(refs) : p = Lookup(docs, ref)
    BY <1>2
  <2>2. refs \in Seq(References)
    BY ReferencesAre
  <2>3. PICK n \in DOMAIN refs : refs[n] = ref
    BY <2>1 DEF Range
  <2>4. /\ DOMAIN offers = DOMAIN refs
        /\ \A i \in DOMAIN refs : offers[i] = ItemFor(docs, refs[i])
    BY <1>1, <2>2, ReferredAre
  <2>5. Gathered(chosen, Contract(docs), offers)
        /\ \A i \in DOMAIN Contract(docs) : Contract(docs)[i].id \in {Agents, Atlas}
    BY <1>1, ChosenAre
  <2>6. p \in Written(docs)
    BY <1>2, <2>1, LookupIs
  <2>7. ItemFor(docs, ref) = Item(IdOf(docs, p), p, Tokens(docs, p))
    BY <1>2, <2>1 DEF ItemFor
  <2>8. ItemFor(docs, ref).id = IdOf(docs, p)
    BY <2>7 DEF Item
  <2> HIDE DEF chosen, refs, offers
  <2>9. PICK i \in DOMAIN chosen : chosen[i].id = IdOf(docs, p)
    BY <2>3, <2>4, <2>5, <2>8 DEF Gathered
  <2>10. IdOf(docs, p) \notin {Agents, Atlas}
    BY <1>2, <2>6 DEF Unambiguous
  <2>11. PICK m \in DOMAIN offers : chosen[i] = offers[m]
    BY <2>5, <2>9, <2>10 DEF Gathered
  <2> DEFINE other == refs[m]
             q == Lookup(docs, other)
  <2>12. chosen[i] = ItemFor(docs, other)
    BY <2>4, <2>11
  <2>13. CASE q = None
    <3>1. ItemFor(docs, other).id = other
      BY <2>13 DEF ItemFor, Item
    <3>2. other # IdOf(docs, p)
      BY <2>6, <2>13, LookupIs
    <3> QED  BY <2>9, <2>12, <3>1, <3>2
  <2>14. CASE q # None
    <3>1. ItemFor(docs, other).id = IdOf(docs, q) /\ ItemFor(docs, other).path = q
      BY <2>14 DEF ItemFor, Item
    <3>2. q \in Written(docs)
      BY <2>14, LookupIs
    <3>3. q = p
      BY <1>1, <2>6, <2>9, <2>12, <3>1, <3>2 DEF Duplicate
    <3> QED  BY <2>12, <3>1, <3>3
  <2> QED  BY <2>13, <2>14
<1>3. ASSUME NEW i \in DOMAIN offered, NEW j \in DOMAIN chosen, chosen[j].id = offered[i].id
      PROVE  offered[i].path \in optional
  <2> DEFINE refs == Optional \o PackOptional
  <2>1. \/ \E n \in DOMAIN refs : offered[i].path = Lookup(docs, refs[n])
        \/ \E p \in Matching(docs) : offered[i].id = IdOf(docs, p)
    BY <1>1, OfferedAre
  <2>2. ~ \E p \in Matching(docs) : offered[i].id = IdOf(docs, p)
    BY <1>3 DEF Matching
  <2>3. PICK n \in DOMAIN refs : offered[i].path = Lookup(docs, refs[n])
    BY <2>1, <2>2
  <2>4. refs[n] \in Range(refs)
    BY DEF Range
  <2> QED  BY <2>3, <2>4
<1> QED  BY <1>2, <1>3

(* What plan_context and analyze_impact answer is exact for whatever documents    *)
(* the edits of a project leave, after any of its commands and beside them.    *)
THEOREM AnswersCorrect ==
  CommandsSpec => [](AnswersAreExact /\ ImpactIsExact /\ BudgetIsKept /\ RequiredOnce)
<1>1. CommandsInit => CommandsTypeOK
  BY InitType
<1>2. CommandsTypeOK /\ [CommandsNext]_commandsVars => CommandsTypeOK'
  BY TypeKeeps
<1>3. CommandsTypeOK => AnswersAreExact /\ ImpactIsExact /\ BudgetIsKept /\ RequiredOnce
  BY ImpactExact, BudgetKept, RequiredKept DEF AnswersAreExact
<1> QED  BY <1>1, <1>2, <1>3, PTL DEF CommandsSpec
=============================================================================
