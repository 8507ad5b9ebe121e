---------------------------- MODULE Harness_proofs ----------------------------
(***************************************************************************)
(* Theorems about Harness, for every set of chapters, every target, every  *)
(* body a draft may hold and every input a command may be given.           *)
(***************************************************************************)
EXTENDS Harness, FiniteSetTheorems, TLAPS

-----------------------------------------------------------------------------
(* The operators keep the types of what they are given. *)

(* Word counts are integers. *)
LEMMA WordsAreIntegers == \A n \in WordCounts : n \in Int
BY WordsAssumption

(* The words of a table are a number: finitely many chapters, finitely many
   words in each. *)
LEMMA TotalIsNatural ==
    ASSUME NEW keys \in SUBSET Chapters, NEW table \in [keys -> WordCounts]
    PROVE  Total(table) \in Nat
<1> DEFINE Words(c) == {c} \X (1..table[c])
           words == [c \in keys |-> Words(c)]
<1>1. IsFiniteSet(keys)
  BY FS_Subset, ChaptersAssumption
<1>2. ASSUME NEW c \in keys PROVE IsFiniteSet(Words(c))
  <2>1. table[c] \in WordCounts
    OBVIOUS
  <2>2. table[c] \in Int
    BY <2>1, WordsAreIntegers
  <2>3. IsFiniteSet(1..table[c])
    BY <2>2, FS_Interval
  <2>4. IsFiniteSet({c})
    BY FS_Singleton
  <2>5. QED
    BY <2>3, <2>4, FS_Product
<1>3. IsFiniteSet({Words(c) : c \in keys})
  <2>1. words \in Surjection(keys, {Words(c) : c \in keys})
    BY DEF Surjection
  <2>2. QED
    BY <1>1, <2>1, FS_Surjection
<1>4. IsFiniteSet(UNION {Words(c) : c \in keys})
  BY <1>2, <1>3, FS_UNION
<1>5. QED
  BY <1>4, FS_CardinalityType DEF Total

(* The empty table holds no words. *)
LEMMA EmptyTotal == Total([c \in {} |-> 0]) = 0
BY FS_EmptySet DEF Total

(* Every phase has a place in the order. *)
LEMMA PhaseHasIndex ==
    ASSUME NEW phase \in Phase
    PROVE  PhaseIndex(phase) \in 1..11 /\ PhaseOrder[PhaseIndex(phase)] = phase
BY DEF Phase, PhaseIndex

(* Every phase but done has a successor. *)
LEMMA SuccessorIsPhase ==
    ASSUME NEW phase \in Phase, phase # "done"
    PROVE  Successor(phase) \in Phase
<1>1. PhaseOrder[11] = "done"
  BY DEF PhaseOrder
<1>2. PhaseIndex(phase) \in 1..10
  BY <1>1, PhaseHasIndex
<1>3. QED
  BY <1>2 DEF Successor, Phase

(* Advancing a phase that is not the last gives a document. *)
LEMMA AdvancedIsDocument ==
    ASSUME NEW doc \in Document, doc.phase # "done"
    PROVE  [doc EXCEPT !.completed = Append(@, doc.phase),
                       !.phase = Successor(doc.phase)] \in Document
<1>1. doc.phase \in Phase /\ Successor(doc.phase) \in Phase
  BY SuccessorIsPhase DEF Document
<1>2. Append(doc.completed, doc.phase) \in Seq(Phase)
  BY <1>1 DEF Document
<1>3. QED
  BY <1>1, <1>2 DEF Document

(* Counting the drafts keeps the document one parse_state accepts. *)
LEMMA RecountedIsDocument ==
    ASSUME NEW doc \in Document, NEW disk \in Tree
    PROVE  Recounted(doc, disk) \in Document
<1>1. doc.manifest \in SUBSET Chapters
  BY DEF Document
<1>2. RecountWords(doc, disk) \in [doc.manifest -> WordCounts]
  BY TextsAssumption DEF RecountWords, Body
<1>3. Total(RecountWords(doc, disk)) \in Int
  BY <1>1, <1>2, TotalIsNatural
<1>4. QED
  BY <1>1, <1>2, <1>3 DEF Recounted, Document

(* So does planning the chapters. *)
LEMMA PlannedIsDocument ==
    ASSUME NEW doc \in Document, NEW plan \in PlanInputs, PlanCoherent(plan)
    PROVE  Planned(doc, plan) \in Document
<1>1. PlanNumbers(plan) \in SUBSET Chapters
  BY PlansAssumption
<1>2. [c \in PlanNumbers(plan) |-> 0] \in [PlanNumbers(plan) -> WordCounts]
  BY WordsAssumption
<1>3. QED
  BY <1>1, <1>2 DEF Planned, Document

(* A repair is one of the six, and it names no chapter that cannot exist. *)
LEMMA DerivedRepair ==
    ASSUME NEW doc \in Document, NEW disk
    PROVE  /\ DeriveReconciliation(doc, disk).action \in Actions
           /\ ChapterNumbers(DeriveReconciliation(doc, disk).missing) \subseteq Chapters
<1>1. doc.pending.paths \subseteq Paths
  BY DEF Document, PendingTurn
<1>2. ChapterNumbers(MissingDeclaredPaths(doc, disk)) \subseteq Chapters
  BY <1>1 DEF ChapterNumbers, MissingDeclaredPaths, Paths
<1>3. ChapterNumbers({}) = {}
  BY DEF ChapterNumbers
<1>4. /\ ClassifyPendingTurn(doc, disk).action \in Actions
      /\ ChapterNumbers(ClassifyPendingTurn(doc, disk).missing) \subseteq Chapters
  BY <1>2 DEF ClassifyPendingTurn, Repair, Actions
<1>5. QED
  BY <1>2, <1>3, <1>4 DEF DeriveReconciliation, Repair, Actions

(* What init writes is a document, and a coherent one. *)
LEMMA InitialIsDocument == InitialDocument \in Document
<1>1. [c \in {} |-> 0] \in [{} -> WordCounts]
  OBVIOUS
<1>2. NoTurn \in PendingTurn
  BY DEF NoTurn, PendingTurn
<1>3. "premise" \in Phase
  BY DEF Phase, PhaseOrder
<1>4. << >> \in Seq(Phase)
  OBVIOUS
<1>5. QED
  BY <1>1, <1>2, <1>3, <1>4 DEF InitialDocument, Document, Cursor

-----------------------------------------------------------------------------
(* Type correctness. *)

(* The type invariant, with what it needs of a running reconcile: the repair it
   enacts is one that has a receipt. *)
TypeInv ==
    /\ TypeOK
    /\ proc.command = "reconcile" => proc.repair \in Receipts

(* A proposal is written or refused; either way the types hold. *)
LEMMA ProposeTyped ==
    ASSUME TypeInv, NEW command \in CommandNames, NEW doc \in Document,
           Propose(command, doc)
    PROVE  TypeInv'
BY DEF TypeInv, TypeOK, Propose, End, Outcome, Success, StateError

(* A refused command changes nothing. *)
LEMMA RefuseTyped ==
    ASSUME TypeInv, NEW command \in CommandNames, Refuse(command)
    PROVE  TypeInv'
BY DEF TypeInv, TypeOK, Refuse, End, Outcome, StateError

(* A process started on a document in memory is well typed. *)
LEMMA RunningTyped ==
    ASSUME TypeInv,
           NEW command \in CommandNames, NEW step \in {"write-state", "write-intent"},
           NEW doc \in Document, NEW repair \in Actions, NEW todo \in SUBSET Chapters,
           command = "reconcile" => repair \in Receipts,
           proc' = Running(command, step, doc, repair, todo),
           UNCHANGED <<toml, tree, outcome>>
    PROVE  TypeInv'
BY DEF TypeInv, TypeOK, Running, Process

(* The next chapter directory is one of the chapters. *)
LEMMA MakeNextDirTyped ==
    ASSUME TypeInv, NEW next \in {"receipt"}, MakeNextDir(next)
    PROVE  TypeInv'
<1>1. PICK c \in proc.todo :
        /\ tree' = [tree EXCEPT !.dirs = @ \cup {c}]
        /\ proc' = [proc EXCEPT !.todo = @ \ {c},
                                !.step = IF proc.todo = {c} THEN next ELSE @]
        /\ UNCHANGED <<toml, outcome>>
  BY DEF MakeNextDir
<1>2. c \in Chapters
  BY DEF TypeInv, TypeOK, Process
<1>3. tree' \in Tree
  BY <1>1, <1>2 DEF TypeInv, TypeOK, Tree
<1>4. proc' \in Process
  BY <1>1 DEF TypeInv, TypeOK, Process
<1>5. QED
  BY <1>1, <1>3, <1>4 DEF TypeInv, TypeOK

(* The idle process is a process. *)
LEMMA IdleTyped == Idle \in Process /\ Idle.command # "reconcile"
BY InitialIsDocument DEF Idle, Process, Actions

(* An empty working directory is well typed. *)
LEMMA TypeInvInitially == Init => TypeInv
<1> SUFFICES ASSUME Init PROVE TypeInv
  OBVIOUS
<1>1. EmptyTree \in Tree
  BY DEF EmptyTree, Tree
<1>2. QED
  BY <1>1, IdleTyped DEF Init, TypeInv, TypeOK, Outcome, Success

(* init. *)
LEMMA InitStepsTyped ==
    ASSUME TypeInv, RunInit \/ InitSteps PROVE TypeInv'
<1>1. CASE RunInit
  <2>1. CASE Refuse("init")
    BY <2>1, RefuseTyped DEF CommandNames
  <2>2. CASE /\ proc' = Running("init", "write-state", InitialDocument, "none", {})
             /\ UNCHANGED <<toml, tree, outcome>>
    BY <2>2, RunningTyped, InitialIsDocument DEF CommandNames, Actions
  <2>3. QED
    BY <1>1, <2>1, <2>2 DEF RunInit
<1>2. CASE InitWriteState
  BY <1>2 DEF InitWriteState, Step, TypeInv, TypeOK, Process
<1>3. CASE InitWriteLog
  BY <1>3, IdleTyped DEF InitWriteLog, Step, TypeInv, TypeOK, Tree, End, Outcome,
     Success, CommandNames
<1>4. QED
  BY <1>1, <1>2, <1>3 DEF InitSteps

(* The commands that write once. *)
LEMMA SingleWriteTyped ==
    ASSUME TypeInv, SingleWrite PROVE TypeInv'
<1>1. CASE AdvancePhase
  <2>1. toml \in Document
    BY <1>1 DEF AdvancePhase, CannotAdvance, Loaded, TypeInv, TypeOK
  <2>2. CASE Refuse("advance-phase")
    BY <2>2, RefuseTyped DEF CommandNames
  <2>3. CASE /\ toml.phase # "done"
             /\ Propose("advance-phase",
                        [toml EXCEPT !.completed = Append(@, toml.phase),
                                     !.phase = Successor(toml.phase)])
    BY <2>1, <2>3, AdvancedIsDocument, ProposeTyped DEF CommandNames
  <2>4. QED
    BY <1>1, <2>2, <2>3 DEF AdvancePhase, CannotAdvance
<1>2. CASE Recount
  BY <1>2, RefuseTyped, ProposeTyped, RecountedIsDocument
     DEF Recount, Loaded, TypeInv, TypeOK, CommandNames
<1>3. CASE CompleteFinalPass
  <2>1. toml \in Document
    BY <1>3 DEF CompleteFinalPass, Loaded, TypeInv, TypeOK
  <2>2. [toml EXCEPT !.gates["final_pass_complete"] = TRUE] \in Document
    BY <2>1 DEF Document, Gates
  <2>3. QED
    BY <1>3, <2>2, ProposeTyped DEF CompleteFinalPass, CommandNames
<1>4. CASE Compile
  <2>1. CASE Refuse("compile")
    BY <2>1, RefuseTyped DEF CommandNames
  <2>2. CASE /\ toml \in Document
             /\ tree' = [tree EXCEPT !.compiled = Concatenation(toml, tree)]
             /\ End("compile", Success)
             /\ UNCHANGED <<toml, proc>>
    <3>1. Concatenation(toml, tree) \in Compiled
      BY <2>2, TextsAssumption DEF Concatenation, Compiled, Body, Document
    <3>2. QED
      BY <2>2, <3>1 DEF TypeInv, TypeOK, Tree, End, Outcome, Success, CommandNames
  <2>3. QED
    BY <1>4, <2>1, <2>2 DEF Compile, Loaded, TypeInv, TypeOK
<1>5. ASSUME NEW cursor \in CursorInputs, SetCursor(cursor) PROVE TypeInv'
  <2>1. toml \in Document
    BY <1>5 DEF SetCursor, Loaded, TypeInv, TypeOK
  <2>2. [toml EXCEPT !.cursor = cursor] \in Document
    BY <2>1, InputsAssumption DEF Document
  <2>3. QED
    BY <1>5, <2>2, ProposeTyped DEF SetCursor, CommandNames
<1>6. ASSUME NEW chosen \in GateInputs, SetGate(chosen) PROVE TypeInv'
  <2>1. toml \in Document
    BY <1>6 DEF SetGate, Loaded, TypeInv, TypeOK
  <2>2. \A g \in DOMAIN chosen : chosen[g] \in BOOLEAN
    BY InputsAssumption
  <2>3. WithGates(toml, chosen) \in Document
    BY <2>1, <2>2 DEF WithGates, Document
  <2>4. CASE End("set-gate", UsageError) /\ UNCHANGED <<toml, tree, proc>>
    BY <2>4 DEF TypeInv, TypeOK, End, Outcome, UsageError, CommandNames
  <2>5. CASE Propose("set-gate", WithGates(toml, chosen))
    BY <2>5, <2>3, ProposeTyped DEF CommandNames
  <2>6. QED
    BY <1>6, <2>4, <2>5 DEF SetGate
<1>7. ASSUME NEW chapter \in FangirlInputs, SetFangirl(chapter) PROVE TypeInv'
  <2>1. toml \in Document /\ chapter \in Int
    BY <1>7, InputsAssumption DEF SetFangirl, Loaded, TypeInv, TypeOK
  <2>2. [toml EXCEPT !.fangirl = chapter] \in Document
    BY <2>1 DEF Document
  <2>3. QED
    BY <1>7, <2>2, ProposeTyped, RefuseTyped DEF SetFangirl, CommandNames
<1>8. ASSUME NEW pass \in PassInputs, SetCriticPass(pass) PROVE TypeInv'
  <2>1. toml \in Document /\ pass \in Int
    BY <1>8, InputsAssumption DEF SetCriticPass, Loaded, TypeInv, TypeOK
  <2>2. [toml EXCEPT !.pass = pass] \in Document
    BY <2>1 DEF Document
  <2>3. QED
    BY <1>8, <2>2, ProposeTyped, RefuseTyped DEF SetCriticPass, CommandNames
<1>9. QED
  BY <1>1, <1>2, <1>3, <1>4, <1>5, <1>6, <1>7, <1>8 DEF SingleWrite

(* set-chapters. *)
LEMMA SetChaptersTyped ==
    ASSUME TypeInv, (\E plan \in PlanInputs : SetChapters(plan)) \/ SetChaptersSteps
    PROVE  TypeInv'
<1>1. ASSUME NEW plan \in PlanInputs, SetChapters(plan) PROVE TypeInv'
  <2> DEFINE proposed == Planned(toml, plan)
             turn     == [operation |-> "set-chapters",
                          paths |-> DeclaredPaths(proposed.manifest)]
  <2>1. CASE Refuse("set-chapters")
    BY <2>1, RefuseTyped DEF CommandNames
  <2>2. CASE /\ PlanCoherent(plan)
             /\ proc' = Running("set-chapters", "write-intent",
                                [proposed EXCEPT !.pending = turn],
                                "none", proposed.manifest)
             /\ UNCHANGED <<toml, tree, outcome>>
    <3>1. proposed \in Document
      BY <1>1, <2>2, PlannedIsDocument DEF SetChapters, CannotPlan, Loaded, TypeInv, TypeOK
    <3>2. proposed.manifest \in SUBSET Chapters
      BY <3>1 DEF Document
    <3>3. turn \in PendingTurn
      BY <3>2 DEF PendingTurn, DeclaredPaths, Path, Paths
    <3>4. [proposed EXCEPT !.pending = turn] \in Document
      BY <3>1, <3>3 DEF Document
    <3>5. QED
      BY <2>2, <3>2, <3>4, RunningTyped DEF CommandNames, Actions
  <2>3. QED
    BY <1>1, <2>1, <2>2 DEF SetChapters, CannotPlan
<1>2. CASE SetChaptersWriteIntent
  BY <1>2 DEF SetChaptersWriteIntent, Step, TypeInv, TypeOK, Process
<1>3. CASE SetChaptersMakeDir
  BY <1>3, MakeNextDirTyped DEF SetChaptersMakeDir
<1>4. CASE SetChaptersReceipt
  BY <1>4 DEF SetChaptersReceipt, Step, TypeInv, TypeOK, Process, Tree, Receipts
<1>5. CASE SetChaptersClear
  <2>1. Cleared(proc.doc) \in Document
    BY DEF Cleared, TypeInv, TypeOK, Process, Document, PendingTurn, NoTurn
  <2>2. QED
    BY <1>5, <2>1, IdleTyped DEF SetChaptersClear, TypeInv, TypeOK, End, Outcome,
       Success, CommandNames
<1>6. QED
  BY <1>1, <1>2, <1>3, <1>4, <1>5 DEF SetChaptersSteps

(* reconcile. *)
LEMMA ReconcileTyped ==
    ASSUME TypeInv, Reconcile \/ ReconcileUncaught \/ ReconcileSteps
    PROVE  TypeInv'
<1>1. CASE Reconcile
  <2> DEFINE repair == DeriveReconciliation(toml, tree)
  <2>1. toml \in Document
    BY <1>1 DEF Reconcile, Loaded, TypeInv, TypeOK
  <2>2. repair.action \in Actions /\ ChapterNumbers(repair.missing) \in SUBSET Chapters
    BY <2>1, DerivedRepair
  <2>3. repair.action # "none" => repair.action \in Receipts
    BY <2>2 DEF Actions, Receipts
  <2>4. CASE /\ repair.action \notin {"none", "refuse", "recreate-log"}
             /\ proc' = Running("reconcile", "write-intent", toml,
                                repair.action, ChapterNumbers(repair.missing))
             /\ UNCHANGED <<toml, tree, outcome>>
    BY <2>1, <2>2, <2>3, <2>4, RunningTyped DEF CommandNames
  <2>5. CASE /\ \/ tree' = tree
                \/ repair.action # "none" /\ tree' = [tree EXCEPT !.log = repair.action]
             /\ End("reconcile", Success) \/ End("reconcile", ActionableFinding)
             /\ UNCHANGED <<toml, proc>>
    BY <2>3, <2>5 DEF TypeInv, TypeOK, Tree, End, Outcome, Success, ActionableFinding,
       CommandNames
  <2>6. QED
    BY <1>1, <2>4, <2>5 DEF Reconcile
<1>2. CASE ReconcileUncaught
  BY <1>2 DEF ReconcileUncaught, TypeInv, TypeOK, End, Outcome, Uncaught, CommandNames
<1>3. CASE ReconcileWriteIntent
  <2>1. [proc.doc EXCEPT !.pending = ReconcileTurn] \in Document
    BY DEF TypeInv, TypeOK, Process, Document, PendingTurn, ReconcileTurn, Path, Paths
  <2>2. QED
    BY <1>3, <2>1 DEF ReconcileWriteIntent, Step, TypeInv, TypeOK, Process
<1>4. CASE ReconcileEditCounts
  <2>1. Recounted(proc.doc, tree) \in Document
    BY RecountedIsDocument DEF TypeInv, TypeOK, Process
  <2>2. CASE /\ proc' = [proc EXCEPT !.step = "receipt", !.doc = Recounted(proc.doc, tree)]
             /\ UNCHANGED <<toml, tree, outcome>>
    BY <2>1, <2>2 DEF TypeInv, TypeOK, Process
  <2>3. CASE /\ proc' = Idle
             /\ End("reconcile", StateError)
             /\ UNCHANGED <<toml, tree>>
    BY <2>3, IdleTyped DEF TypeInv, TypeOK, End, Outcome, StateError, CommandNames
  <2>4. QED
    BY <1>4, <2>2, <2>3 DEF ReconcileEditCounts
<1>5. CASE ReconcileMakeDir
  BY <1>5, MakeNextDirTyped DEF ReconcileMakeDir
<1>6. CASE ReconcileEditNothing
  BY <1>6 DEF ReconcileEditNothing, Step, TypeInv, TypeOK, Process
<1>7. CASE ReconcileReceipt
  BY <1>7 DEF ReconcileReceipt, Step, TypeInv, TypeOK, Process, Tree
<1>8. CASE ReconcileClear
  <2>1. Cleared(proc.doc) \in Document
    BY DEF Cleared, TypeInv, TypeOK, Process, Document, PendingTurn, NoTurn
  <2>2. QED
    BY <1>8, <2>1, IdleTyped DEF ReconcileClear, TypeInv, TypeOK, End, Outcome,
       Success, CommandNames
<1>9. QED
  BY <1>1, <1>2, <1>3, <1>4, <1>5, <1>6, <1>7, <1>8 DEF ReconcileSteps

(* The agent. *)
LEMMA AgentTyped ==
    ASSUME TypeInv, AgentSteps PROVE TypeInv'
<1>1. ASSUME AgentEdits, tree' \in Tree PROVE TypeInv'
  BY <1>1 DEF AgentEdits, TypeInv, TypeOK, End, Outcome, Success
<1>2. ASSUME NEW w \in DraftWrites, AgentWritesDraft(w[1], w[2]) PROVE TypeInv'
  <2>1. w[1] \in Chapters /\ w[2] \in Texts \cup {Corrupt}
    BY InputsAssumption
  <2>2. tree' \in Tree
    BY <1>2, <2>1 DEF AgentWritesDraft, TypeInv, TypeOK, Tree
  <2>3. QED
    BY <1>1, <1>2, <2>2 DEF AgentWritesDraft
<1>3. ASSUME NEW c \in PlanChapters, AgentWritesPlans(c) PROVE TypeInv'
  <2>1. tree' \in Tree
    BY <1>3, InputsAssumption DEF AgentWritesPlans, TypeInv, TypeOK, Tree
  <2>2. QED
    BY <1>1, <1>3, <2>1 DEF AgentWritesPlans
<1>4. ASSUME NEW c \in FlagChapters, AgentFlagsDone(c) PROVE TypeInv'
  <2>1. tree' \in Tree
    BY <1>4, InputsAssumption DEF AgentFlagsDone, TypeInv, TypeOK, Tree
  <2>2. QED
    BY <1>1, <1>4, <2>1 DEF AgentFlagsDone
<1>5. ASSUME NEW c \in DroppedDirs, EmptyDirDropped(c) PROVE TypeInv'
  <2>1. tree' \in Tree
    BY <1>5 DEF EmptyDirDropped, TypeInv, TypeOK, Tree
  <2>2. QED
    BY <1>1, <1>5, <2>1 DEF EmptyDirDropped
<1>6. QED
  BY <1>2, <1>3, <1>4, <1>5 DEF AgentSteps

(* Every step of a command, a crash or the agent keeps the types. *)
LEMMA TypeInvPreserved == TypeInv /\ [Next]_vars => TypeInv'
<1> SUFFICES ASSUME TypeInv, [Next]_vars PROVE TypeInv'
  OBVIOUS
<1>1. ASSUME NEW command \in CommandNames, MissingState(command) PROVE TypeInv'
  BY <1>1 DEF MissingState, TypeInv, TypeOK, End, Outcome, StateError, UsageError
<1>2. CASE Crash
  <2>1. proc.command \in CommandNames \cup {"none"}
    BY DEF TypeInv, TypeOK, Process
  <2>2. QED
    BY <1>2, <2>1, IdleTyped DEF Crash, TypeInv, TypeOK, End, Outcome, Killed
<1>3. CASE UNCHANGED vars
  BY <1>3 DEF vars, TypeInv, TypeOK
<1>4. QED
  BY <1>1, <1>2, <1>3, SingleWriteTyped, InitStepsTyped, SetChaptersTyped,
     ReconcileTyped, AgentTyped DEF Next

(* Hence the types hold always. *)
LEMMA TypeInvAlways == Spec => []TypeInv
<1>1. QED
  BY TypeInvInitially, TypeInvPreserved, PTL DEF Spec

(* Every state.toml on disk, at every step of every command and after every
   kill, is a document parse_state accepts, and so is every document held in
   memory. *)
THEOREM TypeCorrect == Spec => []TypeOK
<1>1. TypeInv => TypeOK
  BY DEF TypeInv
<1>2. QED
  BY <1>1, TypeInvAlways, PTL

-----------------------------------------------------------------------------
(* Coherence.  The property of state.toml is inductive once it is required of
   the document a running command holds in memory as well. *)

GatesClosed(doc) == Target > 0 => \A g \in KnittingGates : ~doc.gates[g]

TableKeyed(doc) == DOMAIN doc.byChapter = doc.manifest /\ Contiguous(doc.manifest)

HasPlan(doc) == doc.phase \in {"drafting", "final-pass", "done"} => doc.manifest # {}

Sound(doc) ==
    ValidateState(doc) /\ GatesClosed(doc) /\ TableKeyed(doc) /\ HasPlan(doc)

DocumentsSound == (toml # NoFile => Sound(toml)) /\ Sound(proc.doc)

Inv == TypeInv /\ DocumentsSound

(* The document init writes. *)
LEMMA InitialSound == Sound(InitialDocument)
<1> DEFINE doc == InitialDocument
<1>1. PhaseIndex("premise") = 1
  BY DEF PhaseIndex, PhaseOrder
<1>2. CompletedPrefix(doc)
  <2>1. SubSeq(PhaseOrder, 1, 0) = << >>
    BY DEF PhaseOrder
  <2>2. QED
    BY <1>1, <2>1 DEF CompletedPrefix, InitialDocument
<1>3. ByChapterSum(doc)
  BY EmptyTotal DEF ByChapterSum, InitialDocument
<1>4. Cardinality({c \in DOMAIN doc.byChapter : doc.byChapter[c] > 0}) = 0
  <2>1. {c \in DOMAIN doc.byChapter : doc.byChapter[c] > 0} = {}
    BY DEF InitialDocument
  <2>2. QED
    BY <2>1, FS_EmptySet
<1>5. /\ ConsecutiveCleanWithinTarget(doc)
      /\ ConvergenceTargetAtLeastOne(doc)
      /\ ConsecutiveCleanWithinDrafted(doc)
  BY <1>4 DEF ConsecutiveCleanWithinTarget, ConvergenceTargetAtLeastOne,
     ConsecutiveCleanWithinDrafted, InitialDocument
<1>6. CursorCoherent(doc)
  BY FS_EmptySet DEF CursorCoherent, InitialDocument
<1>7. ASSUME Target > 0, NEW g \in KnittingGates PROVE ~Crossed(g, doc.byChapter)
  <2>1. GateThreshold[g] \in {3, 5, 8} /\ Target \in Int
    BY <1>7, WordsAssumption DEF GateThreshold, KnittingGates
  <2>2. GateThreshold[g] * Target > 0
    BY <1>7, <2>1
  <2>3. Total(doc.byChapter) = 0
    BY EmptyTotal DEF InitialDocument
  <2>4. QED
    BY <2>1, <2>2, <2>3 DEF Crossed
<1>8. GatesClosed(doc) /\ GateRatioConsistent(doc)
  BY <1>7 DEF GatesClosed, GateRatioConsistent, InitialDocument, KnittingGates, Gates
<1>9. doc.phase \in Phase /\ HasPlan(doc)
  BY DEF Phase, PhaseOrder, InitialDocument, HasPlan
<1>10. TableKeyed(doc)
  <2>1. {} = 1..0
    OBVIOUS
  <2>2. QED
    BY <2>1, FS_EmptySet DEF TableKeyed, Contiguous, InitialDocument
<1>11. QED
  BY <1>2, <1>3, <1>5, <1>6, <1>8, <1>9, <1>10 DEF Sound, ValidateState

(* No check reads the record of the turn in progress. *)
LEMMA PendingIsNotRead ==
    ASSUME NEW doc \in Document, Sound(doc), NEW turn
    PROVE  Sound([doc EXCEPT !.pending = turn])
BY DEF Document, Sound, GatesClosed, TableKeyed, HasPlan, ValidateState,
   CompletedPrefix, ByChapterSum, ConsecutiveCleanWithinTarget,
   ConvergenceTargetAtLeastOne, ConsecutiveCleanWithinDrafted, CursorCoherent,
   GateRatioConsistent

(* An edit of any other field need only pass the validator. *)
LEMMA FieldEditSound ==
    ASSUME NEW doc \in Document, Sound(doc), NEW new \in Document,
           \A g \in KnittingGates : new.gates[g] = doc.gates[g],
           new.manifest = doc.manifest, new.phase = doc.phase, new.byChapter = doc.byChapter,
           ValidateState(new)
    PROVE  Sound(new)
BY DEF Sound, GatesClosed, TableKeyed, HasPlan

(* A recount keys the table by the manifest and leaves the gates alone. *)
LEMMA RecountedSound ==
    ASSUME NEW doc \in Document, Sound(doc), NEW disk,
           ValidateState(Recounted(doc, disk))
    PROVE  Sound(Recounted(doc, disk))
BY DEF Document, Sound, GatesClosed, TableKeyed, HasPlan, Recounted, RecountWords

(* set-chapters plans 1..n. *)
LEMMA PlannedSound ==
    ASSUME NEW doc \in Document, Sound(doc), NEW plan \in PlanInputs,
           PlanCoherent(plan), ValidateState(Planned(doc, plan))
    PROVE  Sound(Planned(doc, plan))
<1>1. Len(plan) \in Nat \ {0}
  BY InputsAssumption DEF PlanCoherent
<1>2. PlanNumbers(plan) = 1..Len(plan)
  BY DEF PlanCoherent
<1>3. Cardinality(1..Len(plan)) = Len(plan)
  BY <1>1, FS_Interval
<1>4. Contiguous(PlanNumbers(plan)) /\ PlanNumbers(plan) # {}
  BY <1>1, <1>2, <1>3 DEF Contiguous
<1>5. QED
  BY <1>4 DEF Planned, Document, Sound, GatesClosed, TableKeyed, HasPlan

(* A gate that is false was false because the recorded words are below its
   threshold; the validator refuses to record it true over the same words. *)
LEMMA GatesStayClosed ==
    ASSUME NEW doc \in Document, Sound(doc), NEW chosen,
           ValidateState(WithGates(doc, chosen))
    PROVE  Sound(WithGates(doc, chosen))
<1> DEFINE new == WithGates(doc, chosen)
<1>1. new.byChapter = doc.byChapter /\ new.manifest = doc.manifest /\ new.phase = doc.phase
  BY DEF WithGates, Document
<1>2. ASSUME Target > 0, NEW g \in KnittingGates PROVE ~new.gates[g]
  <2>1. ~Crossed(g, doc.byChapter)
    BY <1>2 DEF Sound, GatesClosed, ValidateState, GateRatioConsistent
  <2>2. QED
    BY <1>1, <1>2, <2>1 DEF ValidateState, GateRatioConsistent
<1>3. QED
  BY <1>1, <1>2 DEF Sound, GatesClosed, TableKeyed, HasPlan

(* advance-phase enters drafting only over a plan. *)
LEMMA AdvancedSound ==
    ASSUME NEW doc \in Document, Sound(doc), doc.phase # "done",
           doc.manifest = {} => Successor(doc.phase) # "drafting",
           NEW completed,
           ValidateState([doc EXCEPT !.completed = completed,
                                     !.phase = Successor(doc.phase)])
    PROVE  Sound([doc EXCEPT !.completed = completed, !.phase = Successor(doc.phase)])
<1>1. doc.phase \in Phase
  BY DEF Document
<1>2. PhaseIndex(doc.phase) \in 1..11 /\ PhaseOrder[PhaseIndex(doc.phase)] = doc.phase
  BY <1>1, PhaseHasIndex
<1>3. Successor(doc.phase) \in {"final-pass", "done"}
          => doc.phase \in {"drafting", "final-pass"}
  BY <1>2 DEF Successor, PhaseOrder
<1>4. Successor(doc.phase) \in {"drafting", "final-pass", "done"} => doc.manifest # {}
  BY <1>3 DEF Sound, HasPlan
<1>5. QED
  BY <1>4 DEF Document, Sound, GatesClosed, TableKeyed, HasPlan

-----------------------------------------------------------------------------
(* Each action keeps the documents sound. *)

(* A command proposes a document built from a sound one. *)
LEMMA ProposeSound ==
    ASSUME DocumentsSound, NEW command, NEW doc, ValidateState(doc) => Sound(doc),
           Propose(command, doc)
    PROVE  DocumentsSound'
BY DEF DocumentsSound, Propose

(* The commands that write once leave sound documents. *)
LEMMA SingleWriteSound ==
    ASSUME Inv, SingleWrite PROVE DocumentsSound'
<1>1. ASSUME UNCHANGED <<toml, proc>> PROVE DocumentsSound'
  BY <1>1 DEF Inv, DocumentsSound
<1>2. ASSUME NEW command, Loaded(command) PROVE toml \in Document /\ Sound(toml)
  BY <1>2 DEF Loaded, Inv, DocumentsSound, TypeInv, TypeOK
<1>3. CASE AdvancePhase
  <2> DEFINE advanced == [toml EXCEPT !.completed = Append(@, toml.phase),
                                      !.phase = Successor(toml.phase)]
  <2>1. toml \in Document /\ Sound(toml)
    BY <1>2, <1>3 DEF AdvancePhase, CannotAdvance
  <2>2. CASE Refuse("advance-phase")
    BY <1>1, <2>2 DEF Refuse
  <2>3. CASE /\ toml.phase # "done"
             /\ toml.manifest = {} => Successor(toml.phase) # "drafting"
             /\ Propose("advance-phase", advanced)
    <3>1. ValidateState(advanced) => Sound(advanced)
      BY <2>1, <2>3, AdvancedSound
    <3>2. QED
      BY <2>3, <3>1, ProposeSound DEF Inv
  <2>4. QED
    BY <1>3, <2>2, <2>3 DEF AdvancePhase, CannotAdvance
<1>4. CASE Recount
  <2>1. CASE Refuse("recount")
    BY <1>1, <2>1 DEF Refuse
  <2>2. CASE Propose("recount", Recounted(toml, tree))
    BY <1>2, <1>4, <2>2, RecountedSound, ProposeSound DEF Recount, Inv
  <2>3. QED
    BY <1>4, <2>1, <2>2 DEF Recount
<1>5. CASE CompleteFinalPass
  <2> DEFINE new == [toml EXCEPT !.gates["final_pass_complete"] = TRUE]
  <2>1. toml \in Document /\ Sound(toml)
    BY <1>2, <1>5 DEF CompleteFinalPass
  <2>2. /\ new \in Document
        /\ \A g \in KnittingGates : new.gates[g] = toml.gates[g]
        /\ new.manifest = toml.manifest /\ new.phase = toml.phase
        /\ new.byChapter = toml.byChapter
    BY <2>1 DEF Document, KnittingGates, Gates
  <2>3. ValidateState(new) => Sound(new)
    BY <2>1, <2>2, FieldEditSound
  <2>4. QED
    BY <1>5, <2>3, ProposeSound DEF CompleteFinalPass, Inv
<1>6. CASE Compile
  BY <1>1, <1>6 DEF Compile, Refuse
<1>7. ASSUME NEW cursor \in CursorInputs, SetCursor(cursor) PROVE DocumentsSound'
  <2> DEFINE new == [toml EXCEPT !.cursor = cursor]
  <2>1. toml \in Document /\ Sound(toml)
    BY <1>2, <1>7 DEF SetCursor
  <2>2. new \in Document /\ new.gates = toml.gates /\ new.manifest = toml.manifest
        /\ new.phase = toml.phase /\ new.byChapter = toml.byChapter
    BY <2>1, InputsAssumption DEF Document
  <2>3. ValidateState(new) => Sound(new)
    BY <2>1, <2>2, FieldEditSound
  <2>4. QED
    BY <1>7, <2>3, ProposeSound DEF SetCursor, Inv
<1>8. ASSUME NEW chosen \in GateInputs, SetGate(chosen) PROVE DocumentsSound'
  <2>1. CASE Propose("set-gate", WithGates(toml, chosen))
    BY <1>2, <1>8, <2>1, GatesStayClosed, ProposeSound DEF SetGate, Inv
  <2>2. QED
    BY <1>1, <1>8, <2>1 DEF SetGate
<1>9. ASSUME NEW chapter \in FangirlInputs, SetFangirl(chapter) PROVE DocumentsSound'
  <2> DEFINE new == [toml EXCEPT !.fangirl = chapter]
  <2>1. toml \in Document /\ Sound(toml)
    BY <1>2, <1>9 DEF SetFangirl
  <2>2. new \in Document /\ new.gates = toml.gates /\ new.manifest = toml.manifest
        /\ new.phase = toml.phase /\ new.byChapter = toml.byChapter
    BY <2>1, InputsAssumption DEF Document
  <2>3. ValidateState(new) => Sound(new)
    BY <2>1, <2>2, FieldEditSound
  <2>4. QED
    BY <1>1, <1>9, <2>3, ProposeSound DEF SetFangirl, Refuse, Inv
<1>10. ASSUME NEW pass \in PassInputs, SetCriticPass(pass) PROVE DocumentsSound'
  <2> DEFINE new == [toml EXCEPT !.pass = pass]
  <2>1. toml \in Document /\ Sound(toml)
    BY <1>2, <1>10 DEF SetCriticPass
  <2>2. new \in Document /\ new.gates = toml.gates /\ new.manifest = toml.manifest
        /\ new.phase = toml.phase /\ new.byChapter = toml.byChapter
    BY <2>1, InputsAssumption DEF Document
  <2>3. ValidateState(new) => Sound(new)
    BY <2>1, <2>2, FieldEditSound
  <2>4. QED
    BY <1>1, <1>10, <2>3, ProposeSound DEF SetCriticPass, Refuse, Inv
<1>11. QED
  BY <1>3, <1>4, <1>5, <1>6, <1>7, <1>8, <1>9, <1>10 DEF SingleWrite

(* The idle process holds a sound document. *)
LEMMA IdleSound == Sound(Idle.doc)
BY InitialSound DEF Idle

(* init writes only its initial document. *)
LEMMA InitStepsSound ==
    ASSUME Inv, RunInit \/ InitSteps PROVE DocumentsSound'
<1>1. CASE RunInit
  BY <1>1, InitialSound DEF RunInit, Refuse, Running, Inv, DocumentsSound
<1>2. CASE InitWriteState
  BY <1>2 DEF InitWriteState, Inv, DocumentsSound, TypeInv, TypeOK, Process
<1>3. CASE InitWriteLog
  BY <1>3, IdleSound DEF InitWriteLog, Inv, DocumentsSound
<1>4. QED
  BY <1>1, <1>2, <1>3 DEF InitSteps

(* The documents set-chapters writes are the plan with and without its record. *)
LEMMA SetChaptersSound ==
    ASSUME Inv, (\E plan \in PlanInputs : SetChapters(plan)) \/ SetChaptersSteps
    PROVE  DocumentsSound'
<1>1. ASSUME NEW plan \in PlanInputs, SetChapters(plan) PROVE DocumentsSound'
  <2> DEFINE proposed == Planned(toml, plan)
             turn     == [operation |-> "set-chapters",
                          paths |-> DeclaredPaths(proposed.manifest)]
             started  == [proposed EXCEPT !.pending = turn]
  <2>1. toml \in Document /\ Sound(toml)
    BY <1>1 DEF SetChapters, CannotPlan, Loaded, Inv, DocumentsSound, TypeInv, TypeOK
  <2>2. CASE Refuse("set-chapters")
    BY <2>2 DEF Refuse, Inv, DocumentsSound
  <2>3. CASE /\ PlanCoherent(plan) /\ ValidateState(proposed)
             /\ proc' = Running("set-chapters", "write-intent", started, "none",
                                proposed.manifest)
             /\ UNCHANGED <<toml, tree, outcome>>
    <3>1. proposed \in Document /\ Sound(proposed)
      BY <2>1, <2>3, PlannedIsDocument, PlannedSound
    <3>2. Sound(started)
      BY <3>1, PendingIsNotRead
    <3>3. proc'.doc = started
      BY <2>3 DEF Running
    <3>4. QED
      BY <2>3, <3>2, <3>3 DEF Inv, DocumentsSound
  <2>4. QED
    BY <1>1, <2>2, <2>3 DEF SetChapters, CannotPlan
<1>2. CASE SetChaptersWriteIntent
  BY <1>2 DEF SetChaptersWriteIntent, Inv, DocumentsSound, TypeInv, TypeOK, Process
<1>3. CASE SetChaptersMakeDir
  BY <1>3 DEF SetChaptersMakeDir, MakeNextDir, Inv, DocumentsSound, TypeInv, TypeOK,
     Process
<1>4. CASE SetChaptersReceipt
  BY <1>4 DEF SetChaptersReceipt, Inv, DocumentsSound, TypeInv, TypeOK, Process
<1>5. CASE SetChaptersClear
  <2>1. proc.doc \in Document /\ Sound(proc.doc)
    BY DEF Inv, DocumentsSound, TypeInv, TypeOK, Process
  <2>2. QED
    BY <1>5, <2>1, PendingIsNotRead, IdleSound DEF SetChaptersClear, Cleared, DocumentsSound
<1>6. QED
  BY <1>1, <1>2, <1>3, <1>4, <1>5 DEF SetChaptersSteps

(* reconcile holds the document it found, with its record or recounted. *)
LEMMA ReconcileSound ==
    ASSUME Inv, Reconcile \/ ReconcileUncaught \/ ReconcileSteps
    PROVE  DocumentsSound'
<1>1. proc.doc \in Document /\ Sound(proc.doc)
  BY DEF Inv, DocumentsSound, TypeInv, TypeOK, Process
<1>2. CASE Reconcile
  BY <1>2 DEF Reconcile, Loaded, Running, Inv, DocumentsSound
<1>3. CASE ReconcileUncaught
  BY <1>3 DEF ReconcileUncaught, Inv, DocumentsSound
<1>4. CASE ReconcileWriteIntent
  <2> DEFINE doc == [proc.doc EXCEPT !.pending = ReconcileTurn]
  <2>1. Sound(doc)
    BY <1>1, PendingIsNotRead
  <2>2. toml' = doc /\ proc'.doc = doc
    BY <1>4 DEF ReconcileWriteIntent, Inv, TypeInv, TypeOK, Process
  <2>3. QED
    BY <2>1, <2>2 DEF DocumentsSound
<1>5. CASE ReconcileEditCounts
  <2> DEFINE doc == Recounted(proc.doc, tree)
  <2>1. ValidateState(doc) => Sound(doc)
    BY <1>1, RecountedSound
  <2>2. CASE /\ ValidateState(doc)
             /\ proc' = [proc EXCEPT !.step = "receipt", !.doc = doc]
             /\ UNCHANGED toml
    BY <2>1, <2>2 DEF Inv, DocumentsSound, TypeInv, TypeOK, Process
  <2>3. CASE proc' = Idle /\ UNCHANGED toml
    BY <2>3, IdleSound DEF Inv, DocumentsSound
  <2>4. QED
    BY <1>5, <2>2, <2>3 DEF ReconcileEditCounts
<1>6. CASE ReconcileMakeDir
  BY <1>6 DEF ReconcileMakeDir, MakeNextDir, Inv, DocumentsSound, TypeInv, TypeOK, Process
<1>7. CASE ReconcileEditNothing
  BY <1>7 DEF ReconcileEditNothing, Inv, DocumentsSound, TypeInv, TypeOK, Process
<1>8. CASE ReconcileReceipt
  BY <1>8 DEF ReconcileReceipt, Inv, DocumentsSound, TypeInv, TypeOK, Process
<1>9. CASE ReconcileClear
  BY <1>1, <1>9, PendingIsNotRead, IdleSound DEF ReconcileClear, Cleared, DocumentsSound
<1>10. QED
  BY <1>2, <1>3, <1>4, <1>5, <1>6, <1>7, <1>8, <1>9 DEF ReconcileSteps

(* Every step leaves the documents on disk and in memory sound. *)
LEMMA DocumentsSoundPreserved == Inv /\ [Next]_vars => DocumentsSound'
<1> SUFFICES ASSUME Inv, [Next]_vars PROVE DocumentsSound'
  OBVIOUS
<1>1. ASSUME UNCHANGED <<toml, proc>> PROVE DocumentsSound'
  BY <1>1 DEF Inv, DocumentsSound
<1>2. ASSUME NEW command \in CommandNames, MissingState(command) PROVE DocumentsSound'
  BY <1>1, <1>2 DEF MissingState
<1>3. CASE Crash
  BY <1>3, IdleSound DEF Crash, Inv, DocumentsSound
<1>4. CASE AgentSteps
  BY <1>1, <1>4 DEF AgentSteps, AgentEdits, AgentWritesDraft, AgentWritesPlans,
     AgentFlagsDone, EmptyDirDropped
<1>5. CASE UNCHANGED vars
  BY <1>1, <1>5 DEF vars
<1>6. QED
  BY <1>2, <1>3, <1>4, <1>5, SingleWriteSound, InitStepsSound, SetChaptersSound,
     ReconcileSound DEF Next

(* Hence both conjuncts of the inductive invariant hold always. *)
LEMMA InvAlways == Spec => []Inv
<1>1. Init => Inv
  BY TypeInvInitially, IdleSound DEF Init, Inv, DocumentsSound
<1>2. Inv /\ [Next]_vars => Inv'
  BY TypeInvPreserved, DocumentsSoundPreserved DEF Inv
<1>3. QED
  BY <1>1, <1>2, PTL DEF Spec

-----------------------------------------------------------------------------
(* What follows from the invariant. *)

(* No mutator, whatever its input and wherever it is killed, leaves a state.toml
   that breaks a pure-state invariant. *)
THEOREM StateIsCoherent == Spec => []StateCoherent
<1>1. Inv => StateCoherent
  BY DEF Inv, DocumentsSound, Sound, StateCoherent
<1>2. QED
  BY <1>1, InvAlways, PTL

(* No recount, recovery or kill separates the word-count table from the manifest
   set-chapters keyed it by. *)
THEOREM TableStaysKeyed == Spec => []TableKeyedByManifest
<1>1. Inv => TableKeyedByManifest
  BY DEF Inv, DocumentsSound, Sound, TableKeyed, TableKeyedByManifest
<1>2. QED
  BY <1>1, InvAlways, PTL

(* The phase never reaches drafting without a plan. *)
THEOREM DraftingAlwaysHasPlan == Spec => []DraftingHasPlan
<1>1. Inv => DraftingHasPlan
  BY DEF Inv, DocumentsSound, Sound, HasPlan, DraftingHasPlan
<1>2. QED
  BY <1>1, InvAlways, PTL

(* With a positive target and no hand edit of state.toml, no sequence of commands
   opens a knitting gate, whatever the drafts hold. *)
THEOREM GatesNeverOpen == Spec => []KnittingGatesNeverOpen
<1>1. Inv => KnittingGatesNeverOpen
  BY DEF Inv, DocumentsSound, Sound, GatesClosed, KnittingGatesNeverOpen
<1>2. QED
  BY <1>1, InvAlways, PTL

-----------------------------------------------------------------------------
(* The manifest is written once. *)

(* A command in progress over a planned tree holds that plan in memory. *)
PlanHeld ==
    proc # Idle /\ toml # NoFile /\ toml.manifest # {}
        => proc.doc.manifest = toml.manifest

PlanKept ==
    toml # NoFile /\ toml.manifest # {}
        => toml' # NoFile /\ toml'.manifest = toml.manifest

(* A document as good as the one found, for the plan. *)
SamePlan(doc) == doc \in Document /\ doc.manifest = toml.manifest

(* A proposal within the plan keeps the manifest. *)
LEMMA ProposeKeepsPlan ==
    ASSUME NEW command, NEW doc, SamePlan(doc), proc = Idle, Propose(command, doc)
    PROVE  PlanKept /\ PlanHeld'
BY NoFileAssumption DEF Propose, SamePlan, PlanKept, PlanHeld

(* The commands that write once keep the manifest. *)
LEMMA SingleWriteKeepsPlan ==
    ASSUME Inv, PlanHeld, SingleWrite PROVE PlanKept /\ PlanHeld'
<1>1. ASSUME UNCHANGED <<toml, proc>> PROVE PlanKept /\ PlanHeld'
  BY <1>1 DEF PlanKept, PlanHeld
<1>2. proc = Idle /\ toml \in Document
  BY DEF SingleWrite, AdvancePhase, Recount, CompleteFinalPass, Compile, SetCursor,
     SetGate, SetFangirl, SetCriticPass, Loaded, Ready, Inv, TypeInv, TypeOK
<1>3. CASE AdvancePhase
  <2> DEFINE advanced == [toml EXCEPT !.completed = Append(@, toml.phase),
                                      !.phase = Successor(toml.phase)]
  <2>1. toml.phase # "done" => SamePlan(advanced)
    BY <1>2, AdvancedIsDocument DEF SamePlan, Document
  <2>2. QED
    BY <1>1, <1>2, <1>3, <2>1, ProposeKeepsPlan DEF AdvancePhase, CannotAdvance, Refuse
<1>4. CASE Recount
  <2>1. SamePlan(Recounted(toml, tree))
    BY <1>2, RecountedIsDocument DEF SamePlan, Recounted, Document, Inv, TypeInv, TypeOK
  <2>2. QED
    BY <1>1, <1>2, <1>4, <2>1, ProposeKeepsPlan DEF Recount, Refuse
<1>5. CASE CompleteFinalPass
  <2>1. SamePlan([toml EXCEPT !.gates["final_pass_complete"] = TRUE])
    BY <1>2 DEF SamePlan, Document, Gates
  <2>2. QED
    BY <1>2, <1>5, <2>1, ProposeKeepsPlan DEF CompleteFinalPass
<1>6. CASE Compile
  BY <1>1, <1>6 DEF Compile, Refuse
<1>7. ASSUME NEW cursor \in CursorInputs, SetCursor(cursor) PROVE PlanKept /\ PlanHeld'
  <2>1. SamePlan([toml EXCEPT !.cursor = cursor])
    BY <1>2, InputsAssumption DEF SamePlan, Document
  <2>2. QED
    BY <1>2, <1>7, <2>1, ProposeKeepsPlan DEF SetCursor
<1>8. ASSUME NEW chosen \in GateInputs, SetGate(chosen) PROVE PlanKept /\ PlanHeld'
  <2>1. \A g \in DOMAIN chosen : chosen[g] \in BOOLEAN
    BY InputsAssumption
  <2>2. SamePlan(WithGates(toml, chosen))
    BY <1>2, <2>1 DEF SamePlan, WithGates, Document
  <2>3. QED
    BY <1>1, <1>2, <1>8, <2>2, ProposeKeepsPlan DEF SetGate
<1>9. ASSUME NEW chapter \in FangirlInputs, SetFangirl(chapter) PROVE PlanKept /\ PlanHeld'
  <2>1. SamePlan([toml EXCEPT !.fangirl = chapter])
    BY <1>2, InputsAssumption DEF SamePlan, Document
  <2>2. QED
    BY <1>1, <1>2, <1>9, <2>1, ProposeKeepsPlan DEF SetFangirl, Refuse
<1>10. ASSUME NEW pass \in PassInputs, SetCriticPass(pass) PROVE PlanKept /\ PlanHeld'
  <2>1. SamePlan([toml EXCEPT !.pass = pass])
    BY <1>2, InputsAssumption DEF SamePlan, Document
  <2>2. QED
    BY <1>1, <1>2, <1>10, <2>1, ProposeKeepsPlan DEF SetCriticPass, Refuse
<1>11. QED
  BY <1>3, <1>4, <1>5, <1>6, <1>7, <1>8, <1>9, <1>10 DEF SingleWrite

(* A write from memory, or a change of memory alone, within the plan. *)
LEMMA StepKeepsPlan ==
    ASSUME Inv, PlanHeld, proc # Idle,
           toml' = toml \/ (toml' \in Document /\ toml'.manifest = proc.doc.manifest),
           proc' = Idle \/ proc'.doc.manifest = proc.doc.manifest,
           toml' # toml /\ proc' # Idle => proc'.doc.manifest = toml'.manifest
    PROVE  PlanKept /\ PlanHeld'
BY NoFileAssumption DEF PlanKept, PlanHeld

(* So does each step of init, set-chapters and reconcile. *)
LEMMA StepsKeepPlan ==
    ASSUME Inv, PlanHeld, InitSteps \/ SetChaptersSteps \/ ReconcileSteps
    PROVE  PlanKept /\ PlanHeld'
<1>1. proc # Idle
  <2>1. proc.step # "idle"
    BY DEF InitSteps, InitWriteState, InitWriteLog, SetChaptersSteps,
       SetChaptersWriteIntent, SetChaptersMakeDir, SetChaptersReceipt, SetChaptersClear,
       ReconcileSteps, ReconcileWriteIntent, ReconcileEditCounts, ReconcileMakeDir,
       ReconcileEditNothing, ReconcileReceipt, ReconcileClear, Step
  <2>2. Idle.step = "idle"
    BY DEF Idle
  <2>3. QED
    BY <2>1, <2>2
<1>2. proc \in Process /\ proc.doc \in Document
  BY DEF Inv, TypeInv, TypeOK, Process
<1>3. ASSUME NEW turn \in PendingTurn
      PROVE  /\ [proc.doc EXCEPT !.pending = turn] \in Document
             /\ [proc.doc EXCEPT !.pending = turn].manifest = proc.doc.manifest
  BY <1>2 DEF Document
<1>4. NoTurn \in PendingTurn /\ ReconcileTurn \in PendingTurn
  BY DEF NoTurn, ReconcileTurn, PendingTurn, Path, Paths
<1>5. CASE InitWriteState \/ SetChaptersWriteIntent
  BY <1>1, <1>2, <1>5, StepKeepsPlan DEF InitWriteState, SetChaptersWriteIntent, Process
<1>6. CASE SetChaptersClear \/ ReconcileClear
  BY <1>1, <1>3, <1>4, <1>6, StepKeepsPlan DEF SetChaptersClear, ReconcileClear, Cleared
<1>7. CASE ReconcileWriteIntent
  <2> DEFINE doc == [proc.doc EXCEPT !.pending = ReconcileTurn]
  <2>1. toml' = doc /\ proc'.doc = doc
    BY <1>2, <1>7 DEF ReconcileWriteIntent, Process
  <2>2. QED
    BY <1>1, <1>3, <1>4, <2>1, StepKeepsPlan
<1>8. CASE ReconcileEditCounts
  <2> DEFINE doc == Recounted(proc.doc, tree)
  <2>1. doc.manifest = proc.doc.manifest
    BY <1>2 DEF Recounted, Document
  <2>2. toml' = toml /\ (proc' = Idle \/ proc'.doc = doc)
    BY <1>2, <1>8 DEF ReconcileEditCounts, Process
  <2>3. QED
    BY <1>1, <2>1, <2>2, StepKeepsPlan
<1>9. CASE SetChaptersMakeDir \/ ReconcileMakeDir
  <2>1. toml' = toml /\ proc'.doc = proc.doc
    BY <1>2, <1>9 DEF SetChaptersMakeDir, ReconcileMakeDir, MakeNextDir, Process
  <2>2. QED
    BY <1>1, <2>1, StepKeepsPlan
<1>10. CASE InitWriteLog \/ SetChaptersReceipt \/ ReconcileEditNothing \/ ReconcileReceipt
  <2>1. toml' = toml /\ (proc' = Idle \/ proc'.doc = proc.doc)
    BY <1>2, <1>10 DEF InitWriteLog, SetChaptersReceipt, ReconcileEditNothing,
       ReconcileReceipt, Process
  <2>2. QED
    BY <1>1, <2>1, StepKeepsPlan
<1>11. QED
  BY <1>5, <1>6, <1>7, <1>8, <1>9, <1>10 DEF InitSteps, SetChaptersSteps, ReconcileSteps

(* Every step keeps the manifest, and memory within it. *)
LEMMA NextKeepsPlan == Inv /\ PlanHeld /\ [Next]_vars => PlanKept /\ PlanHeld'
<1> SUFFICES ASSUME Inv, PlanHeld, [Next]_vars PROVE PlanKept /\ PlanHeld'
  OBVIOUS
<1>1. ASSUME toml' = toml, proc' = proc \/ proc' = Idle PROVE PlanKept /\ PlanHeld'
  BY <1>1 DEF PlanKept, PlanHeld
<1>2. ASSUME NEW command \in CommandNames, MissingState(command)
      PROVE  PlanKept /\ PlanHeld'
  BY <1>1, <1>2 DEF MissingState
<1>3. CASE Crash \/ ReconcileUncaught \/ UNCHANGED vars
  BY <1>1, <1>3 DEF Crash, ReconcileUncaught, vars
<1>4. CASE AgentSteps
  BY <1>1, <1>4 DEF AgentSteps, AgentEdits, AgentWritesDraft, AgentWritesPlans,
     AgentFlagsDone, EmptyDirDropped
<1>5. CASE RunInit
  BY <1>1, <1>5 DEF RunInit, Refuse, PlanKept, PlanHeld
<1>6. ASSUME NEW plan \in PlanInputs, SetChapters(plan) PROVE PlanKept /\ PlanHeld'
  BY <1>1, <1>6 DEF SetChapters, CannotPlan, Refuse, PlanKept, PlanHeld
<1>7. CASE Reconcile
  <2>1. toml' = toml /\ (proc' = proc \/ proc'.doc = toml)
    BY <1>7 DEF Reconcile, Running
  <2>2. QED
    BY <1>1, <2>1 DEF PlanKept, PlanHeld
<1>8. QED
  BY <1>2, <1>3, <1>4, <1>5, <1>6, <1>7, SingleWriteKeepsPlan, StepsKeepPlan
     DEF Next, InitSteps

(* No command, no killed command and no recovery changes the manifest once it is
   there. *)
THEOREM ManifestWrittenOnce == Spec => PlanImmutable
<1>1. Init => PlanHeld
  BY DEF Init, PlanHeld
<1>2. PlanKept => (toml # NoFile /\ toml.manifest # {}
                       => toml' # NoFile /\ toml'.manifest = toml.manifest)
  BY DEF PlanKept
<1>3. QED
  BY <1>1, <1>2, InvAlways, NextKeepsPlan, PTL DEF Spec, PlanImmutable
=============================================================================
