---------------------------- MODULE Recovery_proofs ----------------------------
(***************************************************************************)
(* What reconcile may touch, from any document and any tree: the trees of  *)
(* Recovery need not be ones the commands made, so nothing is used here    *)
(* but their types and what a running reconcile holds in memory.           *)
(***************************************************************************)
EXTENDS Recovery, Turn_proofs, SequenceTheorems

(* The trees recovery starts from are well typed. *)
LEMMA StartDocuments == CoherentDocuments \subseteq Document
<1> SUFFICES ASSUME NEW doc \in CoherentDocuments PROVE doc \in Document
  OBVIOUS
<1>1. /\ doc.phase \in StartPhases
      /\ doc.completed \in {SubSeq(PhaseOrder, 1, i) : i \in 0..10}
      /\ doc.manifest \in SUBSET Chapters
      /\ doc.byChapter \in Tables /\ doc.current \in {Total(t) : t \in Tables}
      /\ doc.cursor \in StartCursors /\ doc.pass = 1 /\ doc.consecutiveClean = 0
      /\ doc.convergenceTarget = 1 /\ doc.fangirl = 0
      /\ doc.gates = [g \in Gates |-> FALSE] /\ doc.pending = NoTurn
      /\ doc = [phase |-> doc.phase, completed |-> doc.completed,
                manifest |-> doc.manifest, byChapter |-> doc.byChapter,
                current |-> doc.current, cursor |-> doc.cursor, pass |-> doc.pass,
                consecutiveClean |-> doc.consecutiveClean,
                convergenceTarget |-> doc.convergenceTarget,
                fangirl |-> doc.fangirl, gates |-> doc.gates, pending |-> doc.pending]
  BY DEF CoherentDocuments
<1>2. doc.completed \in Seq(Phase)
  <2>1. PICK i \in 0..10 : doc.completed = SubSeq(PhaseOrder, 1, i)
    BY <1>1
  <2>2. \A j \in 1..i : PhaseOrder[j] \in Phase
    BY DEF Phase
  <2>3. QED
    BY <2>1, <2>2, SubSeqProperties
<1>3. doc.current \in Int
  <2>1. PICK t \in Tables : doc.current = Total(t)
    BY <1>1
  <2>2. PICK keys \in SUBSET Chapters : t \in [keys -> WordCounts]
    BY DEF Tables
  <2>3. QED
    BY <2>1, <2>2, TotalIsNatural
<1>4. doc.pending \in PendingTurn
  BY <1>1 DEF NoTurn, PendingTurn
<1>5. /\ doc.phase \in Phase /\ doc.cursor \in Cursor
      /\ doc.gates \in [Gates -> BOOLEAN]
      /\ doc.byChapter \in UNION {[keys -> WordCounts] : keys \in SUBSET Chapters}
      /\ doc.pass \in Int /\ doc.consecutiveClean \in Int
      /\ doc.convergenceTarget \in Int /\ doc.fangirl \in Int
  BY <1>1, StartAssumption DEF Tables
<1>6. QED
  BY <1>1, <1>2, <1>3, <1>4, <1>5, Zenon DEF Document

(* A record found beside a plan is a record. *)
LEMMA StartTurns ==
    ASSUME NEW manifest \in SUBSET Chapters
    PROVE  Turns(manifest) \subseteq PendingTurn
BY DEF Turns, PendingTurn, NoTurn, ReconcileTurn, DeclaredPaths, Path, Paths

(* With one of the compiled states put beside it, a tree is a tree. *)
LEMMA StartTrees ==
    ASSUME NEW doc \in Document, NEW disk \in Trees, NEW compiled \in CompiledStates(doc, disk)
    PROVE  [disk EXCEPT !.compiled = compiled] \in Tree
<1>1. disk \in Tree
  <2>1. PICK dirs \in SUBSET Chapters :
            \E written \in [dirs -> StartBodies], flags \in SUBSET dirs,
               log \in {NoFile, "empty"} :
                disk = [dirs |-> dirs,
                        draft |-> [c \in Chapters |-> IF c \in dirs THEN written[c] ELSE NoFile],
                        flags |-> flags, scenes |-> flags, beats |-> flags,
                        compiled |-> NoFile, log |-> log]
    BY DEF Trees
  <2>2. PICK written \in [dirs -> StartBodies], flags \in SUBSET dirs,
             log \in {NoFile, "empty"} :
                disk = [dirs |-> dirs,
                        draft |-> [c \in Chapters |-> IF c \in dirs THEN written[c] ELSE NoFile],
                        flags |-> flags, scenes |-> flags, beats |-> flags,
                        compiled |-> NoFile, log |-> log]
    BY <2>1
  <2>3. [c \in Chapters |-> IF c \in dirs THEN written[c] ELSE NoFile]
            \in [Chapters -> Texts \cup {NoFile, Corrupt}]
    BY StartAssumption
  <2>4. QED
    BY <2>2, <2>3 DEF Tree
<1>2. compiled \in Compiled \cup {NoFile}
  <2>1. doc.manifest \in SUBSET Chapters
    BY DEF Document
  <2>2. Concatenation(doc, disk) \in [doc.manifest -> Texts]
    BY TextsAssumption DEF Concatenation, Body
  <2>3. [c \in doc.manifest |-> EmptyText] \in [doc.manifest -> Texts]
    BY TextsAssumption
  <2>4. QED
    BY <2>1, <2>2, <2>3 DEF CompiledStates, Compiled
<1>3. QED
  BY <1>1, <1>2 DEF Tree

(* Every starting point is well typed, and no command is running in it. *)
LEMMA AnyTreeTyped == AnyTree => TypeInv /\ ProcessHolds
<1> SUFFICES ASSUME NEW doc \in CoherentDocuments, NEW turn \in Turns(doc.manifest),
                    NEW disk \in Trees, NEW compiled \in CompiledStates(doc, disk),
                    toml = [doc EXCEPT !.pending = turn],
                    tree = [disk EXCEPT !.compiled = compiled],
                    proc = Idle,
                    outcome = [command |-> "none", code |-> Success]
             PROVE  TypeInv /\ ProcessHolds
  BY DEF AnyTree
<1>1. doc \in Document
  BY StartDocuments
<1>2. doc.manifest \in SUBSET Chapters
  BY <1>1 DEF Document
<1>3. turn \in PendingTurn
  BY <1>2, StartTurns
<1>4. toml \in Document
  BY <1>1, <1>3 DEF Document
<1>5. tree \in Tree
  BY <1>1, StartTrees
<1>6. outcome \in Outcome
  BY DEF Outcome, Success
<1>7. QED
  BY <1>4, <1>5, <1>6, IdleTyped DEF TypeInv, TypeOK, ProcessHolds

(* Recovery takes no step Harness does not. *)
LEMMA RecoveryStep == [RecoveryNext]_vars => [Next]_vars
BY DEF RecoveryNext, Next

(* Hence what Harness_proofs and Turn_proofs show of a step holds here as well;
   and state.toml, found at the start, is never lost. *)
RecoveryInv == TypeInv /\ ProcessHolds /\ toml \in Document

LEMMA RecoveryInvAlways == RecoverySpec => []RecoveryInv
<1>1. AnyTree => RecoveryInv
  <2> SUFFICES ASSUME AnyTree PROVE RecoveryInv
    OBVIOUS
  <2>1. PICK doc \in CoherentDocuments : \E turn \in Turns(doc.manifest) :
            toml = [doc EXCEPT !.pending = turn]
    BY DEF AnyTree
  <2>2. PICK turn \in Turns(doc.manifest) : toml = [doc EXCEPT !.pending = turn]
    BY <2>1
  <2>3. doc \in Document
    BY StartDocuments
  <2>4. turn \in PendingTurn
    <3>1. doc.manifest \in SUBSET Chapters
      BY <2>3 DEF Document
    <3>2. QED
      BY <3>1, StartTurns
  <2>5. toml \in Document
    BY <2>2, <2>3, <2>4 DEF Document
  <2>6. QED
    BY <2>5, AnyTreeTyped DEF RecoveryInv
<1>2. RecoveryInv /\ [RecoveryNext]_vars => RecoveryInv'
  <2> SUFFICES ASSUME RecoveryInv, [RecoveryNext]_vars PROVE RecoveryInv'
    OBVIOUS
  <2>1. TypeInv' /\ ProcessHolds'
    BY RecoveryStep, TypeInvPreserved, ProcessHoldsPreserved DEF RecoveryInv
  <2>2. proc.doc \in Document
    BY DEF RecoveryInv, TypeInv, TypeOK, Process
  <2>3. ReconcileTurn \in PendingTurn /\ NoTurn \in PendingTurn
    BY DEF ReconcileTurn, NoTurn, PendingTurn, Path, Paths
  <2>4. \/ toml' = toml
        \/ toml' = [proc.doc EXCEPT !.pending = ReconcileTurn]
        \/ toml' = [proc.doc EXCEPT !.pending = NoTurn]
    BY DEF RecoveryNext, vars, Reconcile, Crash, ReconcileSteps, ReconcileWriteIntent,
       ReconcileEditCounts, ReconcileMakeDir, MakeNextDir, ReconcileEditNothing,
       ReconcileReceipt, ReconcileClear, Cleared
  <2>5. toml' \in Document
    BY <2>2, <2>3, <2>4 DEF RecoveryInv, Document
  <2>6. QED
    BY <2>1, <2>5 DEF RecoveryInv
<1>3. QED
  BY <1>1, <1>2, PTL DEF RecoverySpec

-----------------------------------------------------------------------------
(* The agent's judgement. *)

(* What disk evidence may override, and what a repair may add. *)
Judged ==
    /\ toml' = [toml EXCEPT !.byChapter = toml'.byChapter,
                            !.current = toml'.current, !.pending = toml'.pending]
    /\ tree' = [tree EXCEPT !.dirs = @ \cup tree'.dirs, !.log = tree'.log]
    /\ tree'.log # NoFile \/ tree.log = NoFile

(* Each step of a repair. *)
LEMMA RepairKeepsJudgement ==
    ASSUME TypeInv, ProcessHolds, ReconcileSteps PROVE Judged
<1> DEFINE DocJudged ==
        toml' = [toml EXCEPT !.byChapter = toml'.byChapter,
                             !.current = toml'.current, !.pending = toml'.pending]
           TreeJudged ==
        /\ tree' = [tree EXCEPT !.dirs = @ \cup tree'.dirs, !.log = tree'.log]
        /\ tree'.log # NoFile \/ tree.log = NoFile
<1>1. /\ ReconcileHolds /\ proc \in Process /\ tree \in Tree
      /\ proc.found \in Document
  BY HoldsByCommand DEF ReconcileSteps, ReconcileWriteIntent, ReconcileEditCounts,
     ReconcileMakeDir, ReconcileEditNothing, ReconcileReceipt, ReconcileClear, Step,
     TypeInv, TypeOK, Process, ReconcileHolds
<1>2. ReconcileTurn \in PendingTurn /\ NoTurn \in PendingTurn
  BY DEF ReconcileTurn, NoTurn, PendingTurn, Path, Paths
<1>3. toml \in Document
  BY <1>1, <1>2 DEF ReconcileHolds, Document
<1>4. ASSUME tree' = tree PROVE TreeJudged
  BY <1>1, <1>4 DEF Tree
<1>5. ASSUME toml' = toml PROVE DocJudged
  BY <1>3, <1>5 DEF Document
<1>6. CASE ReconcileWriteIntent
  <2>1. toml' = [toml EXCEPT !.pending = ReconcileTurn] /\ tree' = tree
    BY <1>1, <1>6 DEF ReconcileHolds, ReconcileWriteIntent, Step
  <2>2. DocJudged
    BY <1>3, <2>1 DEF Document
  <2>3. QED
    BY <1>4, <2>1, <2>2 DEF Judged
<1>7. CASE ReconcileEditCounts \/ ReconcileEditNothing
  BY <1>4, <1>5, <1>7 DEF ReconcileEditCounts, ReconcileEditNothing, Judged
<1>8. CASE ReconcileMakeDir
  <2>1. PICK c : tree' = [tree EXCEPT !.dirs = @ \cup {c}] /\ toml' = toml
    BY <1>8 DEF ReconcileMakeDir, MakeNextDir
  <2>2. TreeJudged
    BY <1>1, <2>1 DEF Tree
  <2>3. QED
    BY <1>5, <2>1, <2>2 DEF Judged
<1>9. CASE ReconcileReceipt
  <2>1. tree' = [tree EXCEPT !.log = proc.repair] /\ toml' = toml
    BY <1>9 DEF ReconcileReceipt
  <2>2. proc.repair # NoFile
    BY <1>1, ReceiptsAssumption DEF ReconcileHolds, Receipts
  <2>3. TreeJudged
    BY <1>1, <2>1, <2>2 DEF Tree
  <2>4. QED
    BY <1>5, <2>1, <2>3 DEF Judged
<1>10. CASE ReconcileClear
  <2>1. toml' = Cleared(proc.doc) /\ tree' = tree /\ proc.step = "clear"
    BY <1>10 DEF ReconcileClear, Step
  <2>2. proc.doc = Recounted(toml, tree) \/ proc.doc = toml
    BY <1>1, <2>1 DEF ReconcileHolds
  <2>3. DocJudged
    BY <1>3, <2>1, <2>2 DEF Cleared, Recounted, Document
  <2>4. QED
    BY <1>4, <2>1, <2>3 DEF Judged
<1>11. QED
  BY <1>6, <1>7, <1>8, <1>9, <1>10 DEF ReconcileSteps

(* A step that leaves the files alone leaves the judgement alone. *)
LEMMA UntouchedKeepsJudgement ==
    ASSUME toml \in Document, tree \in Tree, toml' = toml, tree' = tree PROVE Judged
<1>1. toml' = [toml EXCEPT !.byChapter = toml'.byChapter,
                           !.current = toml'.current, !.pending = toml'.pending]
  BY DEF Document
<1>2. tree' = [tree EXCEPT !.dirs = @ \cup tree'.dirs, !.log = tree'.log]
  BY DEF Tree
<1>3. QED
  BY <1>1, <1>2 DEF Judged

(* Beginning, refusing and logging; being killed. *)
LEMMA RecoveryKeepsJudgement ==
    ASSUME RecoveryInv, [RecoveryNext]_vars PROVE [Judged]_vars
<1>1. toml \in Document /\ tree \in Tree /\ TypeInv /\ ProcessHolds
  BY DEF RecoveryInv, TypeInv, TypeOK
<1>2. CASE Reconcile
  <2>1. toml' = toml
    BY <1>2 DEF Reconcile
  <2>2. CASE tree' = tree
    BY <1>1, <2>1, <2>2, UntouchedKeepsJudgement
  <2>3. CASE tree' # tree
    <3>1. PICK receipt \in {"refuse", "recreate-log"} : tree' = [tree EXCEPT !.log = receipt]
      BY <1>2, <2>3 DEF Reconcile
    <3>2. receipt # NoFile
      BY ReceiptsAssumption DEF Receipts
    <3>3. tree'.log = receipt /\ tree'.dirs = tree.dirs
      BY <1>1, <3>1 DEF Tree
    <3>4. tree' = [tree EXCEPT !.dirs = @ \cup tree'.dirs, !.log = tree'.log]
      BY <1>1, <3>1, <3>3 DEF Tree
    <3>5. toml' = [toml EXCEPT !.byChapter = toml'.byChapter,
                               !.current = toml'.current, !.pending = toml'.pending]
      BY <1>1, <2>1 DEF Document
    <3>6. QED
      BY <3>2, <3>3, <3>4, <3>5 DEF Judged
  <2>4. QED
    BY <2>2, <2>3
<1>3. CASE Crash
  BY <1>1, <1>3, UntouchedKeepsJudgement DEF Crash
<1>4. QED
  BY <1>1, <1>2, <1>3, RepairKeepsJudgement DEF RecoveryNext

(* From any coherent document and any tree, reconcile overrides the word counts
   and the turn record and nothing else the agent has recorded, and removes
   nothing on disk, wherever it is killed. *)
THEOREM JudgementIsKept == RecoverySpec => JudgementKept
<1>1. RecoveryInv /\ [RecoveryNext]_vars => [Judged]_vars
  BY RecoveryKeepsJudgement
<1>2. QED
  BY <1>1, RecoveryInvAlways, PTL DEF RecoverySpec, JudgementKept, Judged
-----------------------------------------------------------------------------
(* How a recovery ends. *)

(* While a recount of a drafting subset is enacted, the directories that are missing
   stay missing. *)
Lagging ==
    /\ proc.command = "reconcile" /\ proc.repair = "recount"
    /\ Unrefused(proc.found, tree) /\ DraftingSubset(proc.found, tree)

AnyRepairSound == RepairSound \/ Lagging

(* The counts the drafts call for make a coherent document. *)
CountsCoherent == ValidateState(Recounted(toml, tree))

(* A repair begun over any tree. *)
LEMMA AnyRepairBegins ==
    ASSUME RecoveryInv, Reconcile PROVE AnyRepairSound'
<1> DEFINE repair == DeriveReconciliation(toml, tree)
<1>1. TypeInv /\ proc = Idle
  BY DEF RecoveryInv, Reconcile, Loaded, Ready
<1>2. CASE ~DraftingSubsetCoverGap(toml, tree)
  BY <1>1, <1>2, RepairBegins DEF AnyRepairSound
<1>3. CASE DraftingSubsetCoverGap(toml, tree)
  <2>1. /\ DraftingSubset(toml, tree) /\ Unrefused(toml, tree) /\ PendingTurnCleared(toml)
    BY <1>3, RefuseArm DEF DraftingSubsetCoverGap
  <2>2. ~SetChaptersTurnExplains(toml, tree)
    BY <2>1 DEF SetChaptersTurnExplains, PendingTurnCleared
  <2>3. repair.action = "recount"
    BY <1>3, <2>2, LaterArms DEF Repair
  <2>4. /\ proc' = Running("reconcile", "write-intent", toml,
                           repair.action, ChapterNumbers(repair.missing))
        /\ tree' = tree
    BY <2>3 DEF Reconcile
  <2>5. /\ proc'.command = "reconcile" /\ proc'.repair = "recount" /\ proc'.found = toml
    BY <2>3, <2>4 DEF Running
  <2>6. QED
    BY <2>1, <2>4, <2>5 DEF AnyRepairSound, Lagging
<1>4. QED
  BY <1>2, <1>3

(* A recount makes no directory. *)
LEMMA LaggingGoesOn ==
    ASSUME RecoveryInv, Lagging, ReconcileSteps PROVE AnyRepairSound'
<1>1. /\ proc \in Process /\ tree \in Tree
  BY DEF RecoveryInv, TypeInv, TypeOK
<1>2. CASE proc' = Idle
  BY <1>2, IdleTyped DEF AnyRepairSound, RepairSound
<1>3. CASE /\ proc' # Idle
           /\ ReconcileWriteIntent \/ ReconcileEditCounts \/ ReconcileEditNothing
  <2>1. /\ proc'.command = proc.command /\ proc'.repair = proc.repair
        /\ proc'.found = proc.found /\ tree' = tree
    BY <1>1, <1>3 DEF ReconcileWriteIntent, ReconcileEditCounts, ReconcileEditNothing,
       Process
  <2>2. QED
    BY <2>1 DEF Lagging, AnyRepairSound
<1>4. CASE ReconcileReceipt
  <2>1. /\ proc'.command = proc.command /\ proc'.repair = proc.repair
        /\ proc'.found = proc.found /\ tree' = [tree EXCEPT !.log = proc.repair]
    BY <1>1, <1>4 DEF ReconcileReceipt, Process
  <2>2. /\ tree'.draft = tree.draft /\ tree'.flags = tree.flags /\ tree'.dirs = tree.dirs
        /\ tree'.scenes = tree.scenes /\ tree'.beats = tree.beats
        /\ tree'.compiled = tree.compiled
    BY <1>1, <2>1 DEF Tree
  <2>3. Unrefused(proc.found, tree')
    BY <2>2, UnrefusedReads DEF Lagging
  <2>4. DraftingSubset(proc.found, tree')
    BY <2>2 DEF Lagging, DraftingSubset, CoherentSubset, Orphans
  <2>5. QED
    BY <2>1, <2>3, <2>4 DEF Lagging, AnyRepairSound
<1>5. ~ReconcileMakeDir
  BY DEF Lagging, ReconcileMakeDir, CompletesSetChapters
<1>6. QED
  BY <1>2, <1>3, <1>4, <1>5 DEF ReconcileSteps, ReconcileClear

LEMMA AnyRepairSoundPreserved ==
    RecoveryInv /\ AnyRepairSound /\ [RecoveryNext]_vars => AnyRepairSound'
<1> SUFFICES ASSUME RecoveryInv, AnyRepairSound, [RecoveryNext]_vars
             PROVE  AnyRepairSound'
  OBVIOUS
<1>1. CASE Crash
  BY <1>1, IdleTyped DEF Crash, AnyRepairSound, RepairSound
<1>2. CASE ReconcileSteps /\ RepairSound
  BY <1>2, RepairGoesOn DEF RecoveryInv, AnyRepairSound
<1>3. CASE UNCHANGED vars
  BY <1>3 DEF vars, AnyRepairSound, RepairSound, Lagging, CompletesSetChapters
<1>4. QED
  BY <1>1, <1>2, <1>3, AnyRepairBegins, LaggingGoesOn DEF RecoveryNext, AnyRepairSound
(* The counts are read from the plan and the drafts, and the validator does not read the
   turn. *)
LEMMA CountsIgnoreTurn ==
    ASSUME NEW doc1 \in Document, NEW doc2 \in Document, NEW disk1, NEW disk2,
           disk2.draft = disk1.draft,
           doc2 = [doc1 EXCEPT !.byChapter = doc2.byChapter, !.current = doc2.current,
                               !.pending = doc2.pending],
           ValidateState(Recounted(doc1, disk1))
    PROVE  ValidateState(Recounted(doc2, disk2))
<1> DEFINE r1 == Recounted(doc1, disk1)
           r2 == Recounted(doc2, disk2)
<1>1. /\ doc2.manifest = doc1.manifest /\ doc2.phase = doc1.phase
      /\ doc2.completed = doc1.completed /\ doc2.cursor = doc1.cursor
      /\ doc2.pass = doc1.pass /\ doc2.consecutiveClean = doc1.consecutiveClean
      /\ doc2.convergenceTarget = doc1.convergenceTarget /\ doc2.gates = doc1.gates
  BY DEF Document
<1>2. RecountWords(doc2, disk2) = RecountWords(doc1, disk1)
  BY <1>1 DEF RecountWords, Body
<1>3. /\ r1.byChapter = RecountWords(doc1, disk1) /\ r2.byChapter = RecountWords(doc2, disk2)
      /\ r1.current = Total(RecountWords(doc1, disk1))
      /\ r2.current = Total(RecountWords(doc2, disk2))
      /\ r1.manifest = doc1.manifest /\ r1.phase = doc1.phase
      /\ r1.completed = doc1.completed /\ r1.cursor = doc1.cursor
      /\ r1.consecutiveClean = doc1.consecutiveClean
      /\ r1.convergenceTarget = doc1.convergenceTarget /\ r1.gates = doc1.gates
      /\ r2.manifest = doc2.manifest /\ r2.phase = doc2.phase
      /\ r2.completed = doc2.completed /\ r2.cursor = doc2.cursor
      /\ r2.consecutiveClean = doc2.consecutiveClean
      /\ r2.convergenceTarget = doc2.convergenceTarget /\ r2.gates = doc2.gates
  BY DEF Recounted, Document
<1> HIDE DEF r1, r2
<1>4. /\ r2.manifest = r1.manifest /\ r2.phase = r1.phase /\ r2.completed = r1.completed
      /\ r2.cursor = r1.cursor /\ r2.consecutiveClean = r1.consecutiveClean
      /\ r2.convergenceTarget = r1.convergenceTarget /\ r2.gates = r1.gates
      /\ r2.byChapter = r1.byChapter /\ r2.current = r1.current
  BY <1>1, <1>2, <1>3
<1>5. ValidateState(r1)
  BY DEF r1
<1>6. ValidateState(r2)
  BY <1>4, <1>5 DEF ValidateState, CompletedPrefix, ByChapterSum,
     ConsecutiveCleanWithinTarget, ConvergenceTargetAtLeastOne,
     ConsecutiveCleanWithinDrafted, CursorCoherent, GateRatioConsistent
<1>7. QED
  BY <1>6 DEF r2

LEMMA CountsCoherentInitially == AnyTree => CountsCoherent
<1> SUFFICES ASSUME NEW doc \in CoherentDocuments, NEW turn \in Turns(doc.manifest),
                    NEW disk \in Trees, NEW compiled,
                    toml = [doc EXCEPT !.pending = turn],
                    tree = [disk EXCEPT !.compiled = compiled],
                    ValidateState(Recounted(doc, disk))
             PROVE  CountsCoherent
  BY DEF AnyTree
<1>1. doc \in Document
  BY StartDocuments
<1>2. turn \in PendingTurn
  <2>1. doc.manifest \in SUBSET Chapters
    BY <1>1 DEF Document
  <2>2. QED
    BY <2>1, StartTurns
<1>3. /\ toml \in Document
      /\ toml = [doc EXCEPT !.byChapter = toml.byChapter, !.current = toml.current,
                            !.pending = toml.pending]
  BY <1>1, <1>2 DEF Document
<1>4. tree.draft = disk.draft
  BY DEF Trees
<1>5. QED
  BY <1>1, <1>3, <1>4, CountsIgnoreTurn DEF CountsCoherent

(* No step of a recovery changes the plan or a draft. *)
LEMMA CountsStayCoherent ==
    RecoveryInv /\ CountsCoherent /\ [RecoveryNext]_vars /\ RecoveryInv' => CountsCoherent'
<1> SUFFICES ASSUME RecoveryInv, CountsCoherent, [RecoveryNext]_vars, RecoveryInv'
             PROVE  CountsCoherent'
  OBVIOUS
<1>1. [Judged]_vars
  BY RecoveryKeepsJudgement
<1>2. toml \in Document /\ toml' \in Document /\ tree \in Tree
  BY DEF RecoveryInv, TypeInv, TypeOK
<1>3. CASE Judged
  <2>1. tree'.draft = tree.draft
    BY <1>2, <1>3 DEF Judged, Tree
  <2>2. toml' = [toml EXCEPT !.byChapter = toml'.byChapter, !.current = toml'.current,
                             !.pending = toml'.pending]
    BY <1>3 DEF Judged
  <2>3. ValidateState(Recounted(toml', tree'))
    BY <1>2, <2>1, <2>2, CountsIgnoreTurn DEF CountsCoherent
  <2>4. QED
    BY <2>3 DEF CountsCoherent
<1>4. CASE UNCHANGED vars
  BY <1>4 DEF vars, CountsCoherent
<1>5. QED
  BY <1>1, <1>3, <1>4

(* Where a second run stands after one that succeeded. *)
Settled(doc, disk) ==
    LET second == DeriveReconciliation(doc, disk).action
    IN  \/ second = "none"
        \/ /\ second = "recount"
           /\ disk.log \in {"complete-pending-turn", "rollback-pending-turn"}
        \/ second = "refuse" /\ disk.log = "recount" /\ DraftingSubset(doc, disk)

(* A recount of a drafting subset covers its directories and closes the gap; the
   directories still missing are what the next run refuses. *)
LEMMA ClearSettles ==
    ASSUME RecoveryInv, AnyRepairSound, ReconcileClear PROVE Settled(toml', tree')
<1>1. TypeInv /\ ProcessHolds
  BY DEF RecoveryInv
<1>2. CASE RepairSound
  BY <1>1, <1>2, ClearReachesCounts DEF SecondRunSettled, Settled
<1>3. CASE Lagging
  <2>1. /\ tree'.log = "recount" /\ tree' = tree
        /\ toml'.byChapter = RecountWords(toml', tree)
        /\ ~SetChaptersTurnExplains(toml', tree')
        /\ toml'.manifest = proc.found.manifest /\ toml'.phase = proc.found.phase
    BY <1>1, <1>3, ClearLeaves DEF Lagging
  <2>2. DraftingSubset(toml', tree')
    BY <1>3, <2>1 DEF Lagging, DraftingSubset, CoherentSubset, Orphans
  <2>3. tree'.dirs \subseteq DOMAIN toml'.byChapter
    BY <2>1, <2>2 DEF DraftingSubset, CoherentSubset, Orphans, RecountWords
  <2>4. ~DraftingSubsetCoverGap(toml', tree')
    BY <2>2, <2>3 DEF DraftingSubsetCoverGap, WordCountsCoverDrafts, DraftingSubset
  <2>5. ~IsBijection(toml', tree')
    BY <2>2 DEF IsBijection, DraftingSubset, CoherentSubset, Orphans, Missing
  <2>6. DeriveReconciliation(toml', tree') = Repair("refuse", {})
    BY <2>1, <2>4, <2>5, LaterArms
  <2>7. QED
    BY <2>1, <2>2, <2>6 DEF Settled, Repair
<1>4. QED
  BY <1>2, <1>3 DEF AnyRepairSound

(* The edit in memory is never refused, and the two steps that exit 0 settle. *)
LEMMA SettlingPreserved ==
    RecoveryInv /\ AnyRepairSound /\ CountsCoherent /\ outcome.code # StateError
        /\ AnyTreeSettles /\ [RecoveryNext]_vars
        => AnyTreeSettles' /\ outcome'.code # StateError
<1> SUFFICES ASSUME RecoveryInv, AnyRepairSound, CountsCoherent,
                    outcome.code # StateError, AnyTreeSettles, [RecoveryNext]_vars
             PROVE  AnyTreeSettles' /\ outcome'.code # StateError
  OBVIOUS
<1> DEFINE settled == [command |-> "reconcile", code |-> Success]
<1>1. ASSUME outcome'.code # StateError, outcome' # settled \/ proc' # Idle
      PROVE  AnyTreeSettles' /\ outcome'.code # StateError
  BY <1>1 DEF AnyTreeSettles
<1>2. ASSUME outcome'.code # StateError, Settled(toml', tree')
      PROVE  AnyTreeSettles' /\ outcome'.code # StateError
  BY <1>2 DEF AnyTreeSettles, Settled, Verdict
<1>3. proc \in Process /\ TypeInv /\ ProcessHolds
  BY DEF RecoveryInv, TypeInv, TypeOK
<1>4. CASE Reconcile
  <2>1. outcome'.code # StateError
    BY <1>4 DEF Reconcile, End, StateError, Success, ActionableFinding
  <2>2. CASE outcome' = settled /\ proc' = Idle
    BY <1>2, <1>3, <1>4, <2>1, <2>2, QuietRunSettles DEF Settled
  <2>3. QED
    BY <1>1, <2>1, <2>2
<1>5. CASE ReconcileClear
  <2>1. outcome'.code # StateError
    BY <1>5 DEF ReconcileClear, End, StateError, Success
  <2>2. QED
    BY <1>2, <1>5, <2>1, ClearSettles
<1>6. CASE ReconcileEditCounts
  <2>1. proc.doc = toml
    BY <1>3, <1>6, HoldsByCommand DEF ReconcileEditCounts, Step, ReconcileHolds
  <2>2. /\ proc' = [proc EXCEPT !.step = "receipt", !.doc = Recounted(proc.doc, tree)]
        /\ outcome' = outcome
    BY <1>6, <2>1 DEF ReconcileEditCounts, CountsCoherent
  <2>3. proc'.step = "receipt"
    BY <1>3, <2>2 DEF Process
  <2>4. QED
    BY <1>1, <2>2, <2>3 DEF Idle
<1>7. CASE ReconcileWriteIntent \/ ReconcileMakeDir \/ ReconcileEditNothing
             \/ ReconcileReceipt
  <2>1. proc'.command = "reconcile" /\ outcome' = outcome
    BY <1>3, <1>7 DEF ReconcileWriteIntent, ReconcileMakeDir, MakeNextDir,
       ReconcileEditNothing, ReconcileReceipt, Step, Process
  <2>2. QED
    BY <1>1, <2>1 DEF Idle
<1>8. CASE Crash
  BY <1>1, <1>8 DEF Crash, End, Killed, Success, StateError
<1>9. CASE UNCHANGED vars
  BY <1>9 DEF vars, AnyTreeSettles, Verdict
<1>10. QED
  BY <1>4, <1>5, <1>6, <1>7, <1>8, <1>9 DEF RecoveryNext, ReconcileSteps

(* Whatever tree it starts from and wherever it is killed, a recovery that goes on ends:
   a run that succeeds leaves the next nothing, or the counts after a turn, or a
   drafting subset it will refuse; and no run fails between its writes. *)
THEOREM EveryTreeSettles == RecoverySpec => []AnyTreeSettles
<1>1. AnyTree => /\ AnyRepairSound /\ CountsCoherent
                 /\ outcome.code # StateError /\ AnyTreeSettles
  BY CountsCoherentInitially, IdleTyped
  DEF AnyTree, AnyRepairSound, RepairSound, AnyTreeSettles, StateError, Success
<1>2. /\ RecoveryInv /\ RecoveryInv'
      /\ AnyRepairSound /\ CountsCoherent /\ outcome.code # StateError /\ AnyTreeSettles
      /\ [RecoveryNext]_vars
      => (/\ AnyRepairSound /\ CountsCoherent
          /\ outcome.code # StateError /\ AnyTreeSettles)'
  BY AnyRepairSoundPreserved, CountsStayCoherent, SettlingPreserved
<1>3. QED
  BY <1>1, <1>2, RecoveryInvAlways, PTL DEF RecoverySpec
=============================================================================
