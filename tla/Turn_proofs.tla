------------------------------ MODULE Turn_proofs ------------------------------
(***************************************************************************)
(* Theorems about the commands that write more than once: what a process   *)
(* holds in memory between two of its writes, what a torn turn leaves for  *)
(* reconcile, and what reconcile leaves behind.                            *)
(***************************************************************************)
EXTENDS Harness_proofs

-----------------------------------------------------------------------------
(* Between two writes of a command nothing else runs: what it holds in memory is
   what it wrote last, or the edit of it that it is about to write. *)

InitHolds ==
    /\ proc.command = "init" /\ proc.doc = InitialDocument
    /\ \/ proc.step = "write-state" /\ toml = NoFile
       \/ proc.step = "write-log" /\ toml = proc.doc

(* The plan is written over an unplanned document, with the turn that declares it. *)
SetChaptersHolds ==
    /\ proc.command = "set-chapters" /\ toml # NoFile /\ proc.doc.manifest # {}
    /\ proc.doc.pending = [operation |-> "set-chapters",
                           paths |-> DeclaredPaths(proc.doc.manifest)]
    /\ \/ /\ proc.step = "write-intent"
          /\ toml.manifest = {}
          /\ proc.doc = [toml EXCEPT !.manifest = proc.doc.manifest,
                                     !.byChapter = proc.doc.byChapter,
                                     !.pending = proc.doc.pending]
       \/ proc.step \in {"make-dirs", "receipt"} /\ toml = proc.doc
       \/ proc.step = "clear" /\ toml = proc.doc /\ tree.log = "set-chapters"

(* reconcile's record is all it has changed of the document it found; the counts
   it edits are in memory until the clear. *)
ReconcileHolds ==
    /\ proc.command = "reconcile" /\ proc.found # NoFile
    /\ proc.repair \in {"recount", "complete-pending-turn", "rollback-pending-turn"}
    /\ \/ proc.step = "write-intent" /\ toml = proc.found /\ proc.doc = toml
       \/ /\ proc.step \in {"edit", "receipt", "clear"}
          /\ toml = [proc.found EXCEPT !.pending = ReconcileTurn]
          /\ proc.doc = IF proc.repair = "recount" /\ proc.step # "edit"
                        THEN Recounted(toml, tree) ELSE toml
          /\ proc.step = "clear" => tree.log = proc.repair

ProcessHolds == proc = Idle \/ InitHolds \/ SetChaptersHolds \/ ReconcileHolds

-----------------------------------------------------------------------------
(* What a step does to state.toml. *)

(* A single write edits neither the plan, nor the record of a turn, nor the run of
   clean passes. *)
SameRecord(doc) ==
    /\ doc \in Document /\ doc.manifest = toml.manifest /\ doc.pending = toml.pending
    /\ doc.consecutiveClean = toml.consecutiveClean

(* A proposal within the record. *)
LEMMA ProposeKeepsRecord ==
    ASSUME TypeInv, toml # NoFile, NEW command, NEW doc,
           ValidateState(doc) => SameRecord(doc),
           Propose(command, doc)
    PROVE  SameRecord(toml')
BY DEF Propose, SameRecord, TypeInv, TypeOK

(* A command with one write ends where it started, idle, and keeps the record. *)
LEMMA SingleWriteKeepsRecord ==
    ASSUME TypeInv, SingleWrite
    PROVE  /\ proc = Idle /\ proc' = proc /\ toml # NoFile /\ SameRecord(toml')
           /\ tree' = [tree EXCEPT !.compiled = tree'.compiled]
           /\ outcome'.command \in CommandNames \ {"init", "set-chapters", "reconcile"}
<1>1. proc = Idle /\ toml # NoFile /\ toml \in Document /\ tree \in Tree
  BY NoFileAssumption
  DEF SingleWrite, AdvancePhase, CannotAdvance, Recount, CompleteFinalPass, Compile,
      SetCursor, SetGate, SetFangirl, SetCriticPass, Loaded, Ready, TypeInv, TypeOK
<1>2. tree = [tree EXCEPT !.compiled = tree.compiled]
  BY <1>1 DEF Tree
<1>3. SameRecord(toml)
  BY <1>1 DEF SameRecord
<1> DEFINE Goal ==
        /\ proc' = proc /\ SameRecord(toml')
        /\ tree' = [tree EXCEPT !.compiled = tree'.compiled]
        /\ outcome'.command \in CommandNames \ {"init", "set-chapters", "reconcile"}
           single == CommandNames \ {"init", "set-chapters", "reconcile"}
<1>4. ASSUME NEW command \in single, Refuse(command) PROVE Goal
  BY <1>2, <1>3, <1>4 DEF Refuse, End
<1>5. ASSUME NEW command \in single, NEW doc, ValidateState(doc) => SameRecord(doc),
             Propose(command, doc)
      PROVE  Goal
  BY <1>1, <1>2, <1>3, <1>5 DEF Propose, End
<1>6. {"advance-phase", "recount", "complete-final-pass", "compile", "set-cursor",
       "set-gate", "set-fangirl", "set-critic-pass"} \subseteq single
  BY DEF CommandNames
<1> SUFFICES Goal
  BY <1>1
<1> HIDE DEF Goal, single
<1>7. CASE AdvancePhase
  <2> DEFINE advanced == [toml EXCEPT !.completed = Append(@, toml.phase),
                                      !.phase = Successor(toml.phase)]
  <2>1. CASE Refuse("advance-phase")
    BY <1>4, <1>6, <2>1
  <2>2. CASE toml.phase # "done" /\ Propose("advance-phase", advanced)
    <3>1. SameRecord(advanced)
      BY <1>1, <2>2, AdvancedIsDocument DEF SameRecord, Document
    <3>2. QED
      BY <1>5, <1>6, <2>2, <3>1
  <2>3. QED
    BY <1>7, <2>1, <2>2 DEF AdvancePhase, CannotAdvance
<1>8. CASE Recount
  <2>1. SameRecord(Recounted(toml, tree))
    BY <1>1, RecountedIsDocument DEF SameRecord, Recounted, Document
  <2>2. QED
    BY <1>4, <1>5, <1>6, <1>8, <2>1 DEF Recount
<1>9. CASE CompleteFinalPass
  <2>1. SameRecord([toml EXCEPT !.gates["final_pass_complete"] = TRUE])
    BY <1>1 DEF SameRecord, Document, Gates
  <2>2. QED
    BY <1>5, <1>6, <1>9, <2>1 DEF CompleteFinalPass
<1>10. CASE Compile
  <2>1. CASE Refuse("compile")
    BY <1>4, <1>6, <2>1
  <2>2. CASE /\ tree' = [tree EXCEPT !.compiled = Concatenation(toml, tree)]
             /\ End("compile", Success) /\ UNCHANGED <<toml, proc>>
    <3>1. tree' = [tree EXCEPT !.compiled = tree'.compiled]
      BY <1>1, <2>2 DEF Tree
    <3>2. outcome'.command = "compile"
      BY <2>2 DEF End
    <3>3. QED
      BY <1>3, <1>6, <2>2, <3>1, <3>2 DEF Goal, single
  <2>3. QED
    BY <1>10, <2>1, <2>2 DEF Compile
<1>11. ASSUME NEW cursor \in CursorInputs, SetCursor(cursor) PROVE Goal
  <2>1. SameRecord([toml EXCEPT !.cursor = cursor])
    BY <1>1, InputsAssumption DEF SameRecord, Document
  <2>2. QED
    BY <1>5, <1>6, <1>11, <2>1 DEF SetCursor
<1>12. ASSUME NEW chosen \in GateInputs, SetGate(chosen) PROVE Goal
  <2>1. \A g \in DOMAIN chosen : chosen[g] \in BOOLEAN
    BY InputsAssumption
  <2>2. SameRecord(WithGates(toml, chosen))
    BY <1>1, <2>1 DEF SameRecord, WithGates, Document
  <2>3. CASE End("set-gate", UsageError) /\ UNCHANGED <<toml, tree, proc>>
    BY <1>2, <1>3, <1>6, <2>3 DEF End, Goal, single
  <2>4. CASE Propose("set-gate", WithGates(toml, chosen))
    BY <1>5, <1>6, <2>2, <2>4
  <2>5. QED
    BY <1>12, <2>3, <2>4 DEF SetGate
<1>13. ASSUME NEW chapter \in FangirlInputs, SetFangirl(chapter) PROVE Goal
  <2>1. SameRecord([toml EXCEPT !.fangirl = chapter])
    BY <1>1, InputsAssumption DEF SameRecord, Document
  <2>2. QED
    BY <1>4, <1>5, <1>6, <1>13, <2>1 DEF SetFangirl
<1>14. ASSUME NEW pass \in PassInputs, SetCriticPass(pass) PROVE Goal
  <2>1. SameRecord([toml EXCEPT !.pass = pass])
    BY <1>1, InputsAssumption DEF SameRecord, Document
  <2>2. QED
    BY <1>4, <1>5, <1>6, <1>14, <2>1 DEF SetCriticPass
<1>15. QED
  BY <1>7, <1>8, <1>9, <1>10, <1>11, <1>12, <1>13, <1>14 DEF SingleWrite

-----------------------------------------------------------------------------
(* What memory holds, step by step. *)

(* A running command is known by its name. *)
LEMMA HoldsByCommand ==
    ASSUME ProcessHolds
    PROVE  /\ proc.command = "init" => InitHolds
           /\ proc.command = "set-chapters" => SetChaptersHolds
           /\ proc.command = "reconcile" => ReconcileHolds
BY DEF ProcessHolds, InitHolds, SetChaptersHolds, ReconcileHolds, Idle

(* The words of the drafts are read from the drafts alone. *)
LEMMA RecountReadsDrafts ==
    ASSUME NEW doc, NEW disk1, NEW disk2, disk1.draft = disk2.draft
    PROVE  Recounted(doc, disk1) = Recounted(doc, disk2)
BY DEF Recounted, RecountWords, Body

(* init. *)
LEMMA InitStepsHold ==
    ASSUME TypeInv, ProcessHolds, RunInit \/ InitSteps PROVE ProcessHolds'
<1>1. CASE RunInit
  <2>1. CASE Refuse("init")
    BY <1>1, <2>1 DEF RunInit, Ready, Refuse, ProcessHolds
  <2>2. CASE /\ toml = NoFile /\ toml' = toml
             /\ proc' = Running("init", "write-state", InitialDocument, "none", {})
    BY <2>2 DEF Running, ProcessHolds, InitHolds
  <2>3. QED
    BY <1>1, <2>1, <2>2 DEF RunInit
<1>2. CASE InitWriteState
  <2>1. /\ proc'.command = "init" /\ proc'.step = "write-log" /\ proc'.doc = proc.doc
        /\ toml' = proc.doc
    BY <1>2 DEF InitWriteState, Step, TypeInv, TypeOK, Process
  <2>2. InitHolds
    BY <1>2, HoldsByCommand DEF InitWriteState, Step
  <2>3. InitHolds'
    BY <2>1, <2>2 DEF InitHolds
  <2>4. QED
    BY <2>3 DEF ProcessHolds
<1>3. CASE InitWriteLog
  BY <1>3 DEF InitWriteLog, ProcessHolds
<1>4. QED
  BY <1>1, <1>2, <1>3 DEF InitSteps

(* set-chapters. *)
LEMMA SetChaptersStepsHold ==
    ASSUME TypeInv, ProcessHolds,
           (\E plan \in PlanInputs : SetChapters(plan)) \/ SetChaptersSteps
    PROVE  ProcessHolds'
<1>1. ASSUME NEW plan \in PlanInputs, SetChapters(plan) PROVE ProcessHolds'
  <2> DEFINE proposed == Planned(toml, plan)
             turn     == [operation |-> "set-chapters",
                          paths |-> DeclaredPaths(proposed.manifest)]
             started  == [proposed EXCEPT !.pending = turn]
  <2>1. CASE Refuse("set-chapters")
    BY <1>1, <2>1 DEF SetChapters, Loaded, Ready, Refuse, ProcessHolds
  <2>2. CASE /\ ~CannotPlan(toml, plan) /\ toml' = toml
             /\ proc' = Running("set-chapters", "write-intent", started, "none",
                                proposed.manifest)
    <3>1. toml \in Document /\ toml # NoFile /\ toml.manifest = {}
      BY <1>1, <2>2 DEF SetChapters, Loaded, CannotPlan, TypeInv, TypeOK
    <3>2. proposed \in Document
      BY <2>2, <3>1, PlannedIsDocument DEF CannotPlan
    <3>3. started.pending = turn /\ started.manifest = proposed.manifest
      BY <3>2 DEF Document
    <3>4. started = [toml EXCEPT !.manifest = started.manifest,
                                 !.byChapter = started.byChapter,
                                 !.pending = started.pending]
      BY <3>1 DEF Planned, Document
    <3>5. /\ proc'.command = "set-chapters" /\ proc'.step = "write-intent"
          /\ proc'.doc = started
      BY <2>2 DEF Running
    <3>6. proposed.manifest # {}
      <4>1. PlanCoherent(plan) /\ Len(plan) \in Nat /\ Len(plan) # 0
        BY <2>2, InputsAssumption DEF CannotPlan, PlanCoherent
      <4>2. PlanNumbers(plan) # {}
        BY <4>1 DEF PlanCoherent
      <4>3. QED
        BY <3>1, <4>2 DEF Planned, Document
    <3> HIDE DEF started
    <3>7. SetChaptersHolds'
      BY <2>2, <3>1, <3>3, <3>4, <3>5, <3>6 DEF SetChaptersHolds
    <3>8. QED
      BY <3>7 DEF ProcessHolds
  <2>3. QED
    BY <1>1, <2>1, <2>2 DEF SetChapters
<1>2. ASSUME SetChaptersSteps PROVE SetChaptersHolds
  BY <1>2, HoldsByCommand DEF SetChaptersSteps, SetChaptersWriteIntent,
     SetChaptersMakeDir, SetChaptersReceipt, SetChaptersClear, Step
<1>3. proc \in Process /\ proc.doc \in Document /\ tree \in Tree
  BY DEF TypeInv, TypeOK, Process
<1>4. CASE SetChaptersWriteIntent
  <2>1. /\ proc'.command = "set-chapters" /\ proc'.step = "make-dirs"
        /\ proc'.doc = proc.doc /\ toml' = proc.doc
    BY <1>3, <1>4 DEF SetChaptersWriteIntent, Step, Process
  <2>2. SetChaptersHolds
    BY <1>2, <1>4 DEF SetChaptersSteps
  <2>3. SetChaptersHolds'
    BY <1>3, <2>1, <2>2, NoFileAssumption DEF SetChaptersHolds
  <2>4. QED
    BY <2>3 DEF ProcessHolds
<1>5. CASE SetChaptersMakeDir
  <2>1. /\ proc'.command = "set-chapters" /\ proc'.step \in {"make-dirs", "receipt"}
        /\ proc'.doc = proc.doc /\ toml' = toml
    BY <1>3, <1>5 DEF SetChaptersMakeDir, MakeNextDir, Step, Process
  <2>2. SetChaptersHolds /\ proc.step = "make-dirs"
    BY <1>2, <1>5 DEF SetChaptersSteps, SetChaptersMakeDir, Step
  <2>3. SetChaptersHolds'
    BY <2>1, <2>2 DEF SetChaptersHolds
  <2>4. QED
    BY <2>3 DEF ProcessHolds
<1>6. CASE SetChaptersReceipt
  <2>1. /\ proc'.command = "set-chapters" /\ proc'.step = "clear"
        /\ proc'.doc = proc.doc /\ toml' = toml /\ tree'.log = "set-chapters"
    BY <1>3, <1>6 DEF SetChaptersReceipt, Step, Process, Tree
  <2>2. SetChaptersHolds /\ proc.step = "receipt"
    BY <1>2, <1>6 DEF SetChaptersSteps, SetChaptersReceipt, Step
  <2>3. SetChaptersHolds'
    BY <2>1, <2>2 DEF SetChaptersHolds
  <2>4. QED
    BY <2>3 DEF ProcessHolds
<1>7. CASE SetChaptersClear
  BY <1>7 DEF SetChaptersClear, ProcessHolds
<1>8. QED
  BY <1>1, <1>4, <1>5, <1>6, <1>7 DEF SetChaptersSteps

(* reconcile. *)
LEMMA ReconcileStepsHold ==
    ASSUME TypeInv, ProcessHolds, Reconcile \/ ReconcileUncaught \/ ReconcileSteps
    PROVE  ProcessHolds'
<1>1. proc \in Process /\ proc.doc \in Document /\ tree \in Tree
      /\ toml \in Document \cup {NoFile} /\ proc.found \in Document \cup {NoFile}
  BY DEF TypeInv, TypeOK, Process
<1>2. CASE Reconcile
  <2> DEFINE repair == DeriveReconciliation(toml, tree)
  <2>1. toml \in Document /\ toml # NoFile /\ proc = Idle
    BY <1>1, <1>2 DEF Reconcile, Loaded, Ready
  <2>2. CASE /\ repair.action \notin {"none", "refuse", "recreate-log"} /\ toml' = toml
             /\ proc' = Running("reconcile", "write-intent", toml,
                                repair.action, ChapterNumbers(repair.missing))
    <3>1. repair.action \in {"recount", "complete-pending-turn", "rollback-pending-turn"}
      BY <2>1, <2>2, DerivedRepair DEF Actions
    <3>2. ReconcileHolds'
      BY <2>1, <2>2, <3>1 DEF Running, ReconcileHolds
    <3>3. QED
      BY <3>2 DEF ProcessHolds
  <2>3. CASE UNCHANGED proc
    BY <2>1, <2>3 DEF ProcessHolds
  <2>4. QED
    BY <1>2, <2>2, <2>3 DEF Reconcile
<1>3. CASE ReconcileUncaught
  BY <1>3 DEF ReconcileUncaught, Loaded, Ready, ProcessHolds
<1>4. ASSUME ReconcileSteps PROVE ReconcileHolds
  BY <1>4, HoldsByCommand DEF ReconcileSteps, ReconcileWriteIntent, ReconcileEditCounts,
     ReconcileMakeDir, ReconcileEditNothing, ReconcileReceipt, ReconcileClear, Step
<1>5. CASE ReconcileWriteIntent
  <2> DEFINE doc == [proc.doc EXCEPT !.pending = ReconcileTurn]
  <2>1. /\ toml' = doc /\ proc'.doc = doc /\ proc'.step = "edit"
        /\ proc'.command = "reconcile" /\ proc'.repair = proc.repair
        /\ proc'.found = proc.found
    BY <1>1, <1>5 DEF ReconcileWriteIntent, Step, Process
  <2>2. ReconcileHolds /\ proc.step = "write-intent"
    BY <1>4, <1>5 DEF ReconcileSteps, ReconcileWriteIntent, Step
  <2>3. doc = [proc.found EXCEPT !.pending = ReconcileTurn]
    BY <2>2 DEF ReconcileHolds
  <2> HIDE DEF doc
  <2>4. ReconcileHolds'
    BY <2>1, <2>2, <2>3 DEF ReconcileHolds
  <2>5. QED
    BY <2>4 DEF ProcessHolds
<1>6. CASE ReconcileEditCounts
  <2> DEFINE doc == Recounted(proc.doc, tree)
  <2>1. CASE proc' = Idle
    BY <2>1 DEF ProcessHolds
  <2>2. CASE proc' = [proc EXCEPT !.step = "receipt", !.doc = doc]
    <3>1. /\ toml' = toml /\ tree' = tree /\ proc.repair = "recount"
          /\ proc'.doc = doc /\ proc'.step = "receipt"
          /\ proc'.command = "reconcile" /\ proc'.repair = proc.repair
          /\ proc'.found = proc.found
      BY <1>1, <1>6, <2>2 DEF ReconcileEditCounts, Step, Process
    <3>2. ReconcileHolds /\ proc.step = "edit"
      BY <1>4, <1>6 DEF ReconcileSteps, ReconcileEditCounts, Step
    <3>3. doc = Recounted(toml, tree)
      BY <3>2 DEF ReconcileHolds
    <3> HIDE DEF doc
    <3>4. ReconcileHolds'
      BY <3>1, <3>2, <3>3 DEF ReconcileHolds
    <3>5. QED
      BY <3>4 DEF ProcessHolds
  <2>3. QED
    BY <1>6, <2>1, <2>2 DEF ReconcileEditCounts
<1>7. CASE ReconcileMakeDir \/ ReconcileEditNothing
  <2>1. /\ toml' = toml /\ proc.repair # "recount" /\ proc.step = "edit"
        /\ proc'.doc = proc.doc /\ proc'.step \in {"edit", "receipt"}
        /\ proc'.command = "reconcile" /\ proc'.repair = proc.repair
        /\ proc'.found = proc.found
    BY <1>1, <1>7 DEF ReconcileMakeDir, ReconcileEditNothing, MakeNextDir, Step,
       CompletesSetChapters, Process
  <2>2. ReconcileHolds
    BY <1>4, <1>7 DEF ReconcileSteps
  <2>3. ReconcileHolds'
    BY <2>1, <2>2 DEF ReconcileHolds
  <2>4. QED
    BY <2>3 DEF ProcessHolds
<1>8. CASE ReconcileReceipt
  <2>1. /\ toml' = toml /\ tree'.draft = tree.draft /\ tree'.log = proc.repair
        /\ proc.step = "receipt"
        /\ proc'.doc = proc.doc /\ proc'.step = "clear"
        /\ proc'.command = "reconcile" /\ proc'.repair = proc.repair
        /\ proc'.found = proc.found
    BY <1>1, <1>8 DEF ReconcileReceipt, Step, Process, Tree
  <2>2. ReconcileHolds
    BY <1>4, <1>8 DEF ReconcileSteps
  <2>3. Recounted(toml', tree') = Recounted(toml, tree)
    BY <2>1, RecountReadsDrafts
  <2>4. ReconcileHolds'
    BY <2>1, <2>2, <2>3 DEF ReconcileHolds
  <2>5. QED
    BY <2>4 DEF ProcessHolds
<1>9. CASE ReconcileClear
  BY <1>9 DEF ReconcileClear, ProcessHolds
<1>10. QED
  BY <1>2, <1>3, <1>5, <1>6, <1>7, <1>8, <1>9 DEF ReconcileSteps

(* Whatever step is taken, a command still in progress holds what it should. *)
LEMMA ProcessHoldsPreserved == TypeInv /\ ProcessHolds /\ [Next]_vars => ProcessHolds'
<1> SUFFICES ASSUME TypeInv, ProcessHolds, [Next]_vars PROVE ProcessHolds'
  OBVIOUS
<1>1. ASSUME proc' = Idle PROVE ProcessHolds'
  BY <1>1 DEF ProcessHolds
<1>2. ASSUME NEW command \in CommandNames, MissingState(command) PROVE ProcessHolds'
  BY <1>1, <1>2 DEF MissingState, Ready
<1>3. CASE SingleWrite
  BY <1>1, <1>3, SingleWriteKeepsRecord
<1>4. CASE Crash
  BY <1>1, <1>4 DEF Crash
<1>5. CASE AgentSteps
  BY <1>1, <1>5 DEF AgentSteps, AgentEdits, AgentWritesDraft, AgentWritesPlans,
     AgentFlagsDone, EmptyDirDropped
<1>6. CASE UNCHANGED vars
  BY <1>6 DEF vars, ProcessHolds, InitHolds, SetChaptersHolds, ReconcileHolds
<1>7. QED
  BY <1>2, <1>3, <1>4, <1>5, <1>6, InitStepsHold, SetChaptersStepsHold,
     ReconcileStepsHold DEF Next

-----------------------------------------------------------------------------
(* The receipt. *)

(* The types, and what memory holds, always. *)
LEMMA ProcessHoldsAlways == Spec => [](TypeInv /\ ProcessHolds)
<1>1. Init => TypeInv /\ ProcessHolds
  BY TypeInvInitially DEF Init, ProcessHolds
<1>2. (TypeInv /\ ProcessHolds) /\ [Next]_vars => (TypeInv /\ ProcessHolds)'
  BY TypeInvPreserved, ProcessHoldsPreserved
<1>3. QED
  BY <1>1, <1>2, PTL DEF Spec

(* The steps that change state.toml: a single write, which keeps the record of the
   turn, or one of the writes of init, set-chapters and reconcile. *)
LEMMA WhoWrites ==
    ASSUME TypeInv, [Next]_vars, toml' # toml
    PROVE  \/ /\ SingleWrite /\ proc = Idle /\ proc' = proc
              /\ toml # NoFile /\ SameRecord(toml')
           \/ InitWriteState
           \/ SetChaptersWriteIntent \/ SetChaptersClear
           \/ ReconcileWriteIntent \/ ReconcileClear
<1>1. ~AgentSteps
  BY DEF AgentSteps, AgentEdits, AgentWritesDraft, AgentWritesPlans, AgentFlagsDone,
     EmptyDirDropped
<1>2. ASSUME NEW command \in CommandNames PROVE ~MissingState(command)
  BY DEF MissingState
<1>3. ASSUME NEW plan \in PlanInputs PROVE ~SetChapters(plan)
  BY DEF SetChapters, Refuse
<1>4. ~RunInit /\ ~Reconcile /\ ~ReconcileUncaught /\ ~Crash /\ ~UNCHANGED vars
  BY DEF RunInit, Refuse, Reconcile, ReconcileUncaught, Crash, vars
<1>5. /\ InitSteps => InitWriteState
      /\ SetChaptersSteps => SetChaptersWriteIntent \/ SetChaptersClear
  BY DEF InitSteps, InitWriteLog, SetChaptersSteps, SetChaptersMakeDir, MakeNextDir,
     SetChaptersReceipt
<1>6. ReconcileSteps => ReconcileWriteIntent \/ ReconcileClear
  BY DEF ReconcileSteps, ReconcileEditCounts, ReconcileMakeDir, MakeNextDir,
     ReconcileEditNothing, ReconcileReceipt
<1>7. QED
  BY <1>1, <1>2, <1>3, <1>4, <1>5, <1>6, SingleWriteKeepsRecord DEF Next

(* The two clears follow their receipt, and no other write drops a record. *)
LEMMA ClearFollowsReceipt ==
    ASSUME TypeInv, ProcessHolds, [Next]_vars,
           toml # NoFile, toml.pending # NoTurn, toml'.pending = NoTurn
    PROVE  tree.log = IF proc.command = "reconcile" THEN proc.repair ELSE proc.command
<1>1. proc \in Process /\ proc.doc \in Document
  BY DEF TypeInv, TypeOK, Process
<1>2. ReconcileTurn # NoTurn
  BY DEF ReconcileTurn, NoTurn
<1>3. CASE InitWriteState
  BY <1>3, HoldsByCommand DEF InitWriteState, Step, InitHolds
<1>4. CASE SetChaptersWriteIntent
  <2>1. SetChaptersHolds /\ toml' = proc.doc
    BY <1>4, HoldsByCommand DEF SetChaptersWriteIntent, Step
  <2>2. proc.doc.pending # NoTurn
    BY <2>1 DEF SetChaptersHolds, NoTurn
  <2>3. QED
    BY <2>1, <2>2
<1>5. CASE SetChaptersClear
  BY <1>5, HoldsByCommand DEF SetChaptersClear, Step, SetChaptersHolds
<1>6. CASE ReconcileWriteIntent
  <2>1. toml' = [proc.doc EXCEPT !.pending = ReconcileTurn]
    BY <1>6 DEF ReconcileWriteIntent
  <2>2. toml'.pending = ReconcileTurn
    BY <1>1, <2>1 DEF Document
  <2>3. QED
    BY <1>2, <2>2
<1>7. CASE ReconcileClear
  BY <1>7, HoldsByCommand DEF ReconcileClear, Step, ReconcileHolds
<1>8. toml' # toml
  OBVIOUS
<1>9. QED
  BY <1>3, <1>4, <1>5, <1>6, <1>7, <1>8, WhoWrites DEF SameRecord

(* A turn's record leaves state.toml only with its receipt as the last line of
   log.md, wherever the turn, and the recovery of a torn one, are killed. *)
THEOREM ReceiptPrecedesClear == Spec => ReceiptBeforeClear
<1>1. (TypeInv /\ ProcessHolds) /\ [Next]_vars
          => [toml # NoFile /\ toml.pending # NoTurn /\ toml'.pending = NoTurn
                  => tree.log = IF proc.command = "reconcile" THEN proc.repair
                                                             ELSE proc.command]_vars
  BY ClearFollowsReceipt
<1>2. QED
  BY <1>1, ProcessHoldsAlways, PTL DEF Spec, ReceiptBeforeClear

-----------------------------------------------------------------------------
(* A torn plan. *)

(* The record of a set-chapters turn declares the manifest beside it. *)
TurnDeclared ==
    toml # NoFile /\ toml.pending.operation = "set-chapters"
        => toml.pending.paths = DeclaredPaths(toml.manifest)

(* No write tells the record and the manifest apart. *)
LEMMA TurnDeclaredPreserved ==
    TypeInv /\ ProcessHolds /\ TurnDeclared /\ [Next]_vars => TurnDeclared'
<1> SUFFICES ASSUME TypeInv, ProcessHolds, TurnDeclared, [Next]_vars
             PROVE  TurnDeclared'
  OBVIOUS
<1>1. proc \in Process /\ proc.doc \in Document
  BY DEF TypeInv, TypeOK, Process
<1>2. ASSUME NEW doc \in Document, NEW turn
      PROVE  [doc EXCEPT !.pending = turn].pending = turn
  BY DEF Document
<1>3. CASE toml' = toml
  BY <1>3 DEF TurnDeclared
<1>4. CASE toml # NoFile /\ SameRecord(toml')
  BY <1>4 DEF TurnDeclared, SameRecord
<1>5. CASE InitWriteState
  BY <1>5, HoldsByCommand
     DEF InitWriteState, Step, InitHolds, InitialDocument, NoTurn, TurnDeclared
<1>6. CASE SetChaptersWriteIntent
  BY <1>6, HoldsByCommand DEF SetChaptersWriteIntent, Step, SetChaptersHolds, TurnDeclared
<1>7. CASE ReconcileWriteIntent
  <2>1. toml'.pending = ReconcileTurn
    BY <1>1, <1>2, <1>7 DEF ReconcileWriteIntent
  <2>2. QED
    BY <2>1 DEF ReconcileTurn, TurnDeclared
<1>8. CASE SetChaptersClear \/ ReconcileClear
  <2>1. toml'.pending = NoTurn
    BY <1>1, <1>2, <1>8 DEF SetChaptersClear, ReconcileClear, Cleared
  <2>2. QED
    BY <2>1 DEF NoTurn, TurnDeclared
<1>9. QED
  BY <1>3, <1>4, <1>5, <1>6, <1>7, <1>8, WhoWrites

(* What recovery and the ladder rest on: sound documents, what memory holds, and a
   record that declares the plan. *)
LEMMA TurnInvAlways == Spec => [](Inv /\ ProcessHolds /\ TurnDeclared)
<1>1. Init => TurnDeclared
  BY DEF Init, TurnDeclared
<1>2. (TypeInv /\ ProcessHolds) /\ TurnDeclared /\ [Next]_vars => TurnDeclared'
  BY TurnDeclaredPreserved
<1>3. QED
  BY <1>1, <1>2, InvAlways, ProcessHoldsAlways, PTL DEF Spec

-----------------------------------------------------------------------------
(* The detector and the ladder. *)

(* Each predicate is reported exactly when it fails. *)
LEMMA FiredPredicates ==
    ASSUME NEW doc, NEW disk, NEW relax
    PROVE  LET fired == CheckDiskEvidence(doc, disk, relax)
           IN  /\ "manifest-disk-bijection" \in fired
                      <=> ~ManifestDiskBijection(doc, disk, relax)
               /\ "cursor-plan-present" \in fired <=> ~CursorPlanPresent(doc, disk)
               /\ "done-flag-without-draft" \in fired <=> ~DoneFlagHasDraft(doc, disk)
               /\ "compiled-matches-drafts" \in fired <=> ~CompiledMatchesDrafts(doc, disk)
               /\ "pending-turn-cleared" \in fired <=> ~PendingTurnCleared(doc)
               /\ "word-counts-match-drafts" \in fired <=> ~WordCountsMatchDrafts(doc, disk)
               /\ "log-present" \in fired <=> ~LogPresent(disk)
               /\ "word-counts-cover-drafts" \in fired
                      <=> ~WordCountsCoverDrafts(doc, disk, relax)
               /\ fired = {} <=>
                      /\ ManifestDiskBijection(doc, disk, relax)
                      /\ CursorPlanPresent(doc, disk) /\ DoneFlagHasDraft(doc, disk)
                      /\ CompiledMatchesDrafts(doc, disk) /\ PendingTurnCleared(doc)
                      /\ WordCountsMatchDrafts(doc, disk) /\ LogPresent(disk)
                      /\ WordCountsCoverDrafts(doc, disk, relax)
BY DEF CheckDiskEvidence

(* The contradictions a repair may not override, the plan of the directories aside. *)
Unrefused(doc, disk) ==
    CursorPlanPresent(doc, disk) /\ DoneFlagHasDraft(doc, disk)
        /\ CompiledMatchesDrafts(doc, disk)

(* The refuse class in the words of the predicates. *)
LEMMA RefuseArm ==
    ASSUME NEW doc, NEW disk
    PROVE  LET fired == CheckDiskEvidence(doc, disk, FALSE)
           IN  /\ fired \cap RefuseClass = {} <=>
                      IsBijection(doc, disk) /\ Unrefused(doc, disk)
               /\ fired \cap RefuseClass = {"manifest-disk-bijection"} <=>
                      ~IsBijection(doc, disk) /\ Unrefused(doc, disk)
               /\ fired \cap RecountTriggers = {} <=>
                      WordCountsMatchDrafts(doc, disk)
                          /\ WordCountsCoverDrafts(doc, disk, FALSE)
<1> DEFINE fired == CheckDiskEvidence(doc, disk, FALSE)
<1>1. ManifestDiskBijection(doc, disk, FALSE) <=> IsBijection(doc, disk)
  BY DEF ManifestDiskBijection
<1>2. /\ fired \cap RefuseClass = {} <=>
             /\ "manifest-disk-bijection" \notin fired
             /\ "cursor-plan-present" \notin fired
             /\ "done-flag-without-draft" \notin fired
             /\ "compiled-matches-drafts" \notin fired
      /\ fired \cap RefuseClass = {"manifest-disk-bijection"} <=>
             /\ "manifest-disk-bijection" \in fired
             /\ "cursor-plan-present" \notin fired
             /\ "done-flag-without-draft" \notin fired
             /\ "compiled-matches-drafts" \notin fired
      /\ fired \cap RecountTriggers = {} <=>
             /\ "word-counts-match-drafts" \notin fired
             /\ "word-counts-cover-drafts" \notin fired
  <2> HIDE DEF fired
  <2>1. QED
    BY DEF RefuseClass, RecountTriggers
<1>3. QED
  BY <1>1, <1>2, FiredPredicates DEF Unrefused

(* A table keyed by the manifest covers the drafts of every subset of it, so the
   coverage gap of drafting is closed to the documents the commands write. *)
LEMMA KeyedTableHasNoGap ==
    ASSUME NEW doc, NEW disk, TableKeyed(doc)
    PROVE  /\ ~DraftingSubsetCoverGap(doc, disk)
           /\ WordCountsCoverDrafts(doc, disk, FALSE)
           /\ WordCountsCoverDrafts(doc, disk, TRUE)
BY DEF TableKeyed, DraftingSubsetCoverGap, WordCountsCoverDrafts, DraftingSubset,
   CoherentSubset, Orphans

(* The table agrees with the drafts, in its keys and its counts. *)
CountsSettled(doc, disk) ==
    WordCountsMatchDrafts(doc, disk) /\ WordCountsCoverDrafts(doc, disk, FALSE)

(* No coverage gap opens where every planned directory exists. *)
LEMMA BijectionHasNoGap ==
    ASSUME NEW doc, NEW disk, IsBijection(doc, disk)
    PROVE  ~DraftingSubsetCoverGap(doc, disk)
BY DEF IsBijection, CoherentSubset, Orphans, Missing, DraftingSubsetCoverGap, DraftingSubset

(* The ladder, arm by arm. *)
LEMMA AnyLadder ==
    ASSUME NEW doc, NEW disk
    PROVE  LET repair == DeriveReconciliation(doc, disk)
           IN  IF SetChaptersTurnExplains(doc, disk)
               THEN repair = Repair("complete-pending-turn", MissingDeclaredPaths(doc, disk))
               ELSE IF DraftingSubsetCoverGap(doc, disk) THEN repair = Repair("recount", {})
               ELSE IF ~(IsBijection(doc, disk) /\ Unrefused(doc, disk))
               THEN repair = Repair("refuse", {})
               ELSE IF ~PendingTurnCleared(doc)
               THEN repair = ClassifyPendingTurn(doc, disk)
               ELSE IF ~(WordCountsMatchDrafts(doc, disk)
                             /\ WordCountsCoverDrafts(doc, disk, FALSE))
               THEN repair = Repair("recount", {})
               ELSE IF ~LogPresent(disk)          THEN repair = Repair("recreate-log", {})
               ELSE repair = Repair("none", {})
BY RefuseArm, FiredPredicates DEF DeriveReconciliation

(* The arms after the first. *)
LEMMA LaterArms ==
    ASSUME NEW doc, NEW disk, ~SetChaptersTurnExplains(doc, disk)
    PROVE  /\ DraftingSubsetCoverGap(doc, disk) =>
                  DeriveReconciliation(doc, disk) = Repair("recount", {})
           /\ ~DraftingSubsetCoverGap(doc, disk)
                  /\ ~(IsBijection(doc, disk) /\ Unrefused(doc, disk)) =>
                  DeriveReconciliation(doc, disk) = Repair("refuse", {})
           /\ ~DraftingSubsetCoverGap(doc, disk)
                  /\ IsBijection(doc, disk) /\ Unrefused(doc, disk)
                  /\ ~PendingTurnCleared(doc) =>
                  DeriveReconciliation(doc, disk) = ClassifyPendingTurn(doc, disk)
           /\ ~DraftingSubsetCoverGap(doc, disk)
                  /\ IsBijection(doc, disk) /\ Unrefused(doc, disk)
                  /\ PendingTurnCleared(doc) =>
                  DeriveReconciliation(doc, disk) =
                      IF ~CountsSettled(doc, disk) THEN Repair("recount", {})
                      ELSE IF ~LogPresent(disk)    THEN Repair("recreate-log", {})
                      ELSE Repair("none", {})
BY AnyLadder DEF CountsSettled

(* The two arms that leave state.toml alone. *)
LEMMA QuietArms ==
    ASSUME NEW doc, NEW disk,
           DeriveReconciliation(doc, disk).action \in {"none", "recreate-log"}
    PROVE  /\ ~SetChaptersTurnExplains(doc, disk)
           /\ IsBijection(doc, disk) /\ Unrefused(doc, disk)
           /\ PendingTurnCleared(doc) /\ CountsSettled(doc, disk)
<1> DEFINE repair == DeriveReconciliation(doc, disk)
<1>1. /\ \A action, missing : Repair(action, missing).action = action
      /\ ClassifyPendingTurn(doc, disk).action \notin {"none", "recreate-log"}
  BY DEF Repair, ClassifyPendingTurn
<1>2. ~SetChaptersTurnExplains(doc, disk)
  <2>1. SetChaptersTurnExplains(doc, disk) =>
            repair = Repair("complete-pending-turn", MissingDeclaredPaths(doc, disk))
    BY AnyLadder
  <2>2. QED
    BY <1>1, <2>1
<1>3. ~DraftingSubsetCoverGap(doc, disk)
  BY <1>1, <1>2, LaterArms
<1>4. IsBijection(doc, disk) /\ Unrefused(doc, disk)
  BY <1>1, <1>2, <1>3, LaterArms
<1>5. PendingTurnCleared(doc)
  BY <1>1, <1>2, <1>3, <1>4, LaterArms
<1>6. CountsSettled(doc, disk)
  BY <1>1, <1>2, <1>3, <1>4, <1>5, LaterArms
<1>7. QED
  BY <1>2, <1>4, <1>5, <1>6

(* Over a document whose table is keyed by its manifest no arm asks for coverage. *)
LEMMA Ladder ==
    ASSUME NEW doc, NEW disk, TableKeyed(doc)
    PROVE  LET repair == DeriveReconciliation(doc, disk)
           IN  IF SetChaptersTurnExplains(doc, disk)
               THEN repair = Repair("complete-pending-turn", MissingDeclaredPaths(doc, disk))
               ELSE IF ~(IsBijection(doc, disk) /\ Unrefused(doc, disk))
               THEN repair = Repair("refuse", {})
               ELSE IF ~PendingTurnCleared(doc)
               THEN repair = ClassifyPendingTurn(doc, disk)
               ELSE IF ~WordCountsMatchDrafts(doc, disk) THEN repair = Repair("recount", {})
               ELSE IF ~LogPresent(disk)          THEN repair = Repair("recreate-log", {})
               ELSE repair = Repair("none", {})
BY AnyLadder, KeyedTableHasNoGap

(* The paths a set-chapters turn declares that are not on disk are state.toml's
   never, and the missing directories. *)
LEMMA DeclaredAndMissing ==
    ASSUME NEW doc, NEW disk, doc.pending.paths = DeclaredPaths(doc.manifest)
    PROVE  /\ OnlyChapterPaths(MissingDeclaredPaths(doc, disk))
           /\ ChapterNumbers(MissingDeclaredPaths(doc, disk)) = Missing(doc, disk)
<1> DEFINE missing == MissingDeclaredPaths(doc, disk)
<1>1. missing = {Path("chapter", c) : c \in Missing(doc, disk)}
  <2>1. PathExists(disk, Path("state.toml", 0))
    BY DEF PathExists, Path
  <2>2. ASSUME NEW c PROVE PathExists(disk, Path("chapter", c)) <=> c \in disk.dirs
    BY DEF PathExists, Path
  <2> HIDE DEF missing
  <2>3. ASSUME NEW path
        PROVE  path \in missing <=>
                   \E c \in doc.manifest : path = Path("chapter", c) /\ c \notin disk.dirs
    <3>1. path \in missing <=>
              /\ ~PathExists(disk, path)
              /\ \/ path = Path("state.toml", 0)
                 \/ \E c \in doc.manifest : path = Path("chapter", c)
      BY DEF missing, MissingDeclaredPaths, DeclaredPaths
    <3>2. QED
      BY <2>1, <2>2, <3>1
  <2>4. QED
    BY <2>3 DEF Missing
<1>2. OnlyChapterPaths(missing)
  BY <1>1 DEF OnlyChapterPaths, Path
<1>3. ChapterNumbers(missing) = Missing(doc, disk)
  <2>1. \A c \in Missing(doc, disk) :
            Path("chapter", c).kind = "chapter" /\ Path("chapter", c).chapter = c
    BY DEF Path
  <2> HIDE DEF missing
  <2>2. QED
    BY <1>1, <2>1 DEF ChapterNumbers
<1>4. QED
  BY <1>2, <1>3

(* A torn plan over a keyed table is completed, bijection or not. *)
LEMMA TornPlanIsCompleted ==
    ASSUME toml # NoFile => TableKeyed(toml), TurnDeclared
    PROVE  TornPlanCompletes
<1> SUFFICES ASSUME TornPlan, Orphans(toml, tree) = {},
                    CheckDiskEvidence(toml, tree, FALSE) \cap RefuseClass
                        \subseteq {"manifest-disk-bijection"}
             PROVE  LET repair == DeriveReconciliation(toml, tree)
                    IN  /\ repair.action = "complete-pending-turn"
                        /\ ChapterNumbers(repair.missing) = Missing(toml, tree)
  BY DEF TornPlanCompletes
<1> DEFINE missing == MissingDeclaredPaths(toml, tree)
<1>1. /\ toml.pending.operation = "set-chapters" /\ TableKeyed(toml)
      /\ toml.pending.paths = DeclaredPaths(toml.manifest)
  BY DEF TornPlan, TurnDeclared
<1>2. OnlyChapterPaths(missing) /\ ChapterNumbers(missing) = Missing(toml, tree)
  BY <1>1, DeclaredAndMissing
<1>3. CoherentSubset(toml, tree)
  BY <1>1 DEF CoherentSubset, TableKeyed
<1>4. DeriveReconciliation(toml, tree) = Repair("complete-pending-turn", missing)
  <2>1. CASE CheckDiskEvidence(toml, tree, FALSE) \cap RefuseClass # {}
    <3>1. CheckDiskEvidence(toml, tree, FALSE) \cap RefuseClass
              = {"manifest-disk-bijection"}
      BY <2>1
    <3>2. SetChaptersTurnExplains(toml, tree)
      BY <1>1, <1>2, <1>3, <3>1 DEF SetChaptersTurnExplains
    <3>3. QED
      BY <1>1, <3>2, Ladder
  <2>2. CASE CheckDiskEvidence(toml, tree, FALSE) \cap RefuseClass = {}
    <3>1. IsBijection(toml, tree) /\ Unrefused(toml, tree)
      BY <2>2, RefuseArm
    <3>2. Missing(toml, tree) = {}
      BY <3>1 DEF IsBijection
    <3>3. \A path \in missing : path.kind # "chapter"
      BY <1>2, <3>2 DEF ChapterNumbers
    <3>4. \A path \in missing : path.kind \in RecomputableKinds
      BY <1>2, <3>3 DEF OnlyChapterPaths, RecomputableKinds
    <3>5. ClassifyPendingTurn(toml, tree) = Repair("complete-pending-turn", missing)
      BY <3>4 DEF ClassifyPendingTurn
    <3>6. ~PendingTurnCleared(toml)
      BY <1>1 DEF PendingTurnCleared
    <3>7. QED
      BY <1>1, <3>1, <3>5, <3>6, Ladder
  <2>3. QED
    BY <2>1, <2>2
<1>5. QED
  BY <1>2, <1>4 DEF Repair

(* A plan torn at any step is one reconcile completes, naming exactly the missing
   directories, whatever else the agent has done to the tree meanwhile. *)
THEOREM TornPlanIsCompletable == Spec => []TornPlanCompletes
<1>1. Inv /\ ProcessHolds /\ TurnDeclared => TornPlanCompletes
  BY TornPlanIsCompleted DEF Inv, DocumentsSound, Sound
<1>2. QED
  BY <1>1, TurnInvAlways, PTL

-----------------------------------------------------------------------------
(* One reading of the tree. *)

(* check's relaxed pass and reconcile's ladder over a coherent document. *)
LEMMA ReadersOfOneTree ==
    ASSUME toml # NoFile => ValidateState(toml) /\ TableKeyed(toml)
    PROVE  CheckAgreesWithReconcile
<1> SUFFICES ASSUME toml # NoFile, DraftsReadable(toml, tree)
             PROVE  LET repair == DeriveReconciliation(toml, tree).action
                    IN  /\ CheckExit(toml, tree) = 0 =>
                               repair = "none"
                                   \/ (DraftingSubset(toml, tree) /\ repair = "refuse")
                        /\ repair = "none" => CheckExit(toml, tree) = 0
  BY DEF CheckAgreesWithReconcile
<1> DEFINE repair == DeriveReconciliation(toml, tree).action
<1>1. ValidateState(toml) /\ TableKeyed(toml)
  OBVIOUS
<1>2. CheckExit(toml, tree) = 0 <=>
          /\ ManifestDiskBijection(toml, tree, TRUE)
          /\ Unrefused(toml, tree) /\ PendingTurnCleared(toml)
          /\ WordCountsMatchDrafts(toml, tree) /\ LogPresent(tree)
  <2>1. CheckExit(toml, tree) = 0 <=> CheckDiskEvidence(toml, tree, TRUE) = {}
    <3>1. CheckExit(toml, tree) = IF CheckDiskEvidence(toml, tree, TRUE) = {} THEN 0 ELSE 4
      BY <1>1, Zenon DEF CheckExit
    <3>2. 4 # 0
      OBVIOUS
    <3>3. QED
      BY <3>1, <3>2, Zenon
  <2>2. WordCountsCoverDrafts(toml, tree, TRUE)
    BY <1>1, KeyedTableHasNoGap
  <2>3. QED
    BY <2>1, <2>2, FiredPredicates DEF Unrefused
<1>3. PendingTurnCleared(toml) => ~SetChaptersTurnExplains(toml, tree)
  BY DEF PendingTurnCleared, SetChaptersTurnExplains
<1>4. repair = "none" <=>
          /\ IsBijection(toml, tree) /\ Unrefused(toml, tree) /\ PendingTurnCleared(toml)
          /\ WordCountsMatchDrafts(toml, tree) /\ LogPresent(tree)
  <2>1. ClassifyPendingTurn(toml, tree).action # "none"
    BY DEF ClassifyPendingTurn, Repair
  <2>2. QED
    BY <1>1, <1>3, <2>1, Ladder DEF Repair
<1>5. ~IsBijection(toml, tree) /\ PendingTurnCleared(toml) => repair = "refuse"
  BY <1>1, <1>3, Ladder DEF Repair
<1>6. QED
  BY <1>2, <1>4, <1>5 DEF ManifestDiskBijection

(* novel state check and novel state reconcile judge alike every tree the commands,
   the kills and the agent can produce, but for the subset ADR 009 leaves to check. *)
THEOREM CheckAndReconcileAgree == Spec => []CheckAgreesWithReconcile
<1>1. Inv => CheckAgreesWithReconcile
  BY ReadersOfOneTree DEF Inv, DocumentsSound, Sound
<1>2. QED
  BY <1>1, InvAlways, PTL

-----------------------------------------------------------------------------
(* What reconcile leaves behind. *)

(* While a repair is enacted the tree holds no contradiction, and the directories
   still to be made are the ones that are missing. *)
RepairSound ==
    proc.command = "reconcile" =>
        /\ Unrefused(proc.found, tree) /\ CoherentSubset(proc.found, tree)
        /\ Missing(proc.found, tree) =
               IF CompletesSetChapters /\ proc.step \in {"write-intent", "edit"}
               THEN proc.todo ELSE {}

(* The predicates of the refuse class read neither the directories nor log.md. *)
LEMMA UnrefusedReads ==
    ASSUME NEW doc, NEW disk1, NEW disk2,
           disk1.draft = disk2.draft, disk1.flags = disk2.flags,
           disk1.scenes = disk2.scenes, disk1.beats = disk2.beats,
           disk1.compiled = disk2.compiled
    PROVE  Unrefused(doc, disk1) <=> Unrefused(doc, disk2)
BY DEF Unrefused, CursorPlanPresent, DoneFlagHasDraft, CompiledMatchesDrafts,
   Concatenation, Body

(* A repair is begun only on a tree the ladder does not refuse. *)
LEMMA RepairBegins ==
    ASSUME TypeInv, ~DraftingSubsetCoverGap(toml, tree), Reconcile PROVE RepairSound'
<1> DEFINE repair == DeriveReconciliation(toml, tree)
<1>1. toml \in Document /\ toml # NoFile /\ proc = Idle
  BY DEF Reconcile, Loaded, Ready, TypeInv, TypeOK
<1>2. CASE UNCHANGED proc
  BY <1>1, <1>2, IdleTyped DEF RepairSound
<1>3. CASE /\ repair.action \notin {"none", "refuse", "recreate-log"}
           /\ proc' = Running("reconcile", "write-intent", toml,
                              repair.action, ChapterNumbers(repair.missing))
           /\ UNCHANGED <<toml, tree>>
  <2>1. /\ proc'.found = toml /\ proc'.repair = repair.action
        /\ proc'.step = "write-intent" /\ proc'.todo = ChapterNumbers(repair.missing)
    BY <1>3 DEF Running
  <2>2. CompletesSetChapters' <=>
            repair.action = "complete-pending-turn"
                /\ toml.pending.operation = "set-chapters"
    BY <2>1 DEF CompletesSetChapters
  <2>3. CASE SetChaptersTurnExplains(toml, tree)
    <3>1. repair = Repair("complete-pending-turn", MissingDeclaredPaths(toml, tree))
      BY <2>3, AnyLadder
    <3>2. /\ Unrefused(toml, tree) /\ CoherentSubset(toml, tree)
          /\ Missing(toml, tree) = ChapterNumbers(MissingDeclaredPaths(toml, tree))
          /\ toml.pending.operation = "set-chapters"
      BY <2>3, RefuseArm DEF SetChaptersTurnExplains
    <3>3. CompletesSetChapters' /\ proc'.todo = Missing(toml, tree)
      BY <2>1, <2>2, <3>1, <3>2 DEF Repair
    <3>4. QED
      BY <1>3, <2>1, <3>2, <3>3 DEF RepairSound
  <2>4. CASE ~SetChaptersTurnExplains(toml, tree)
    <3>1. IsBijection(toml, tree) /\ Unrefused(toml, tree)
      BY <1>3, <2>4, LaterArms DEF Repair
    <3>2. CoherentSubset(toml, tree) /\ Missing(toml, tree) = {}
      BY <3>1 DEF IsBijection
    <3>3. CompletesSetChapters' => proc'.todo = {}
      <4>1. ASSUME CompletesSetChapters' PROVE repair = ClassifyPendingTurn(toml, tree)
        BY <2>2, <2>4, <3>1, <4>1, LaterArms DEF PendingTurnCleared
      <4>2. ASSUME repair = ClassifyPendingTurn(toml, tree),
                   repair.action = "complete-pending-turn"
            PROVE  ChapterNumbers(repair.missing) = {}
        BY <4>2 DEF ClassifyPendingTurn, Repair, ChapterNumbers, RecomputableKinds
      <4>3. QED
        BY <2>1, <2>2, <4>1, <4>2
    <3>4. QED
      BY <1>3, <2>1, <3>1, <3>2, <3>3 DEF RepairSound
  <2>5. QED
    BY <2>3, <2>4
<1>4. QED
  BY <1>2, <1>3 DEF Reconcile

(* The steps of a repair make the missing directories and no others. *)
LEMMA RepairGoesOn ==
    ASSUME TypeInv, ProcessHolds, RepairSound, ReconcileSteps PROVE RepairSound'
<1>1. /\ proc \in Process /\ tree \in Tree /\ proc.command = "reconcile"
      /\ ReconcileHolds /\ RepairSound
  BY HoldsByCommand DEF ReconcileSteps, ReconcileWriteIntent, ReconcileEditCounts,
     ReconcileMakeDir, ReconcileEditNothing, ReconcileReceipt, ReconcileClear, Step,
     TypeInv, TypeOK
<1>2. CASE proc' = Idle
  BY <1>2, IdleTyped DEF RepairSound
<1>3. CASE ReconcileWriteIntent
  <2>1. /\ proc'.found = proc.found /\ proc'.todo = proc.todo /\ proc'.repair = proc.repair
        /\ proc'.step = "edit" /\ proc.step = "write-intent" /\ tree' = tree
    BY <1>1, <1>3 DEF ReconcileWriteIntent, Step, Process
  <2>2. QED
    BY <1>1, <2>1 DEF RepairSound, CompletesSetChapters
<1>4. CASE ReconcileEditCounts /\ proc' # Idle
  <2>1. /\ proc'.found = proc.found /\ proc'.repair = proc.repair /\ tree' = tree
        /\ proc.repair = "recount"
    BY <1>1, <1>4 DEF ReconcileEditCounts, Step, Process
  <2>2. QED
    BY <1>1, <2>1 DEF RepairSound, CompletesSetChapters
<1>5. CASE ReconcileEditNothing
  <2>1. /\ proc'.found = proc.found /\ proc'.repair = proc.repair /\ tree' = tree
        /\ proc'.step = "receipt"
        /\ CompletesSetChapters => proc.todo = {}
    BY <1>1, <1>5 DEF ReconcileEditNothing, Step, Process
  <2>2. QED
    BY <1>1, <2>1 DEF RepairSound, CompletesSetChapters
<1>6. CASE ReconcileReceipt
  <2>1. /\ proc'.found = proc.found /\ proc'.repair = proc.repair
        /\ proc.step = "receipt" /\ proc'.step = "clear"
        /\ tree' = [tree EXCEPT !.log = proc.repair]
    BY <1>1, <1>6 DEF ReconcileReceipt, Step, Process
  <2>2. /\ tree'.draft = tree.draft /\ tree'.flags = tree.flags /\ tree'.dirs = tree.dirs
        /\ tree'.scenes = tree.scenes /\ tree'.beats = tree.beats
        /\ tree'.compiled = tree.compiled
    BY <1>1, <2>1 DEF Tree
  <2>3. Unrefused(proc.found, tree')
    BY <1>1, <2>2, UnrefusedReads DEF RepairSound
  <2>4. CoherentSubset(proc.found, tree') /\ Missing(proc.found, tree') = {}
    BY <1>1, <2>1, <2>2 DEF RepairSound, CoherentSubset, Orphans, Missing
  <2>5. QED
    BY <2>1, <2>3, <2>4 DEF RepairSound
<1>7. CASE ReconcileMakeDir
  <2>1. PICK c \in proc.todo :
            /\ tree' = [tree EXCEPT !.dirs = @ \cup {c}]
            /\ proc' = [proc EXCEPT !.todo = @ \ {c},
                                    !.step = IF proc.todo = {c} THEN "receipt" ELSE @]
    BY <1>7 DEF ReconcileMakeDir, MakeNextDir
  <2>2. CompletesSetChapters /\ proc.step = "edit"
    BY <1>7 DEF ReconcileMakeDir, Step
  <2>3. /\ proc'.found = proc.found /\ proc'.repair = proc.repair
        /\ proc'.todo = proc.todo \ {c}
        /\ proc'.step = IF proc.todo = {c} THEN "receipt" ELSE "edit"
    BY <1>1, <2>1, <2>2 DEF Process
  <2>4. /\ tree'.draft = tree.draft /\ tree'.flags = tree.flags
        /\ tree'.scenes = tree.scenes /\ tree'.beats = tree.beats
        /\ tree'.compiled = tree.compiled /\ tree'.dirs = tree.dirs \cup {c}
    BY <1>1, <2>1 DEF Tree
  <2>5. Unrefused(proc.found, tree')
    BY <1>1, <2>4, UnrefusedReads DEF RepairSound
  <2>6. Missing(proc.found, tree) = proc.todo /\ CoherentSubset(proc.found, tree)
    BY <1>1, <2>2 DEF RepairSound
  <2>7. CoherentSubset(proc.found, tree') /\ Missing(proc.found, tree') = proc.todo \ {c}
    BY <2>4, <2>6 DEF CoherentSubset, Orphans, Missing
  <2>8. CompletesSetChapters'
    BY <2>2, <2>3 DEF CompletesSetChapters
  <2>9. QED
    BY <2>3, <2>5, <2>7, <2>8 DEF RepairSound
<1>8. CASE ReconcileClear
  BY <1>2, <1>8 DEF ReconcileClear
<1>9. QED
  BY <1>2, <1>3, <1>4, <1>5, <1>6, <1>7, <1>8 DEF ReconcileSteps

(* No step spoils a repair in progress. *)
LEMMA RepairSoundPreserved ==
    Inv /\ ProcessHolds /\ RepairSound /\ [Next]_vars => RepairSound'
<1> SUFFICES ASSUME Inv, ProcessHolds, RepairSound, [Next]_vars PROVE RepairSound'
  OBVIOUS
<1>1. ASSUME proc' = Idle \/ proc'.command # "reconcile" PROVE RepairSound'
  BY <1>1, IdleTyped DEF RepairSound
<1>2. TypeInv /\ (toml # NoFile => TableKeyed(toml)) /\ proc \in Process
  BY DEF Inv, DocumentsSound, Sound, TypeInv, TypeOK
<1>3. ASSUME NEW command \in CommandNames, MissingState(command) PROVE RepairSound'
  BY <1>1, <1>3 DEF MissingState, Ready
<1>4. CASE SingleWrite
  BY <1>1, <1>2, <1>4, SingleWriteKeepsRecord
<1>5. CASE RunInit \/ InitSteps
  BY <1>1, <1>2, <1>5 DEF RunInit, Refuse, Ready, Running, InitSteps, InitWriteState,
     InitWriteLog, Step, Process
<1>6. ASSUME NEW plan \in PlanInputs, SetChapters(plan) PROVE RepairSound'
  BY <1>1, <1>6 DEF SetChapters, Loaded, Ready, Refuse, Running
<1>7. CASE SetChaptersSteps
  BY <1>1, <1>2, <1>7 DEF SetChaptersSteps, SetChaptersWriteIntent, SetChaptersMakeDir,
     MakeNextDir, SetChaptersReceipt, SetChaptersClear, Step, Process
<1>8. CASE ReconcileUncaught \/ Crash \/ AgentSteps
  BY <1>1, <1>8 DEF ReconcileUncaught, Loaded, Ready, Crash, AgentSteps, AgentEdits,
     AgentWritesDraft, AgentWritesPlans, AgentFlagsDone, EmptyDirDropped
<1>9. CASE UNCHANGED vars
  BY <1>9 DEF vars, RepairSound, CompletesSetChapters
<1>10. CASE Reconcile
  BY <1>2, <1>10, KeyedTableHasNoGap, RepairBegins DEF Reconcile, Loaded
<1>11. QED
  BY <1>2, <1>3, <1>4, <1>5, <1>6, <1>7, <1>8, <1>9, <1>10, RepairGoesOn DEF Next

(* A second reconcile over an idle tree has nothing to do, or only counts to take. *)
SecondRunSettled(doc, disk) ==
    LET second == DeriveReconciliation(doc, disk).action
    IN  \/ second = "none"
        \/ /\ second = "recount"
           /\ disk.log \in {"complete-pending-turn", "rollback-pending-turn"}

(* The clear leaves the plan it found, the receipt, and after a recount its words. *)
LEMMA ClearLeaves ==
    ASSUME TypeInv, ProcessHolds, ReconcileClear
    PROVE  /\ proc.command = "reconcile" /\ proc.step = "clear"
           /\ proc.repair \in {"recount", "complete-pending-turn", "rollback-pending-turn"}
           /\ tree' = tree /\ tree.log = proc.repair /\ LogPresent(tree)
           /\ toml'.manifest = proc.found.manifest /\ toml'.cursor = proc.found.cursor
           /\ toml'.phase = proc.found.phase
           /\ toml'.manifest = proc.doc.manifest /\ toml'.byChapter = proc.doc.byChapter
           /\ proc.repair = "recount" => toml'.byChapter = RecountWords(toml', tree)
           /\ PendingTurnCleared(toml') /\ ~SetChaptersTurnExplains(toml', tree)
<1>1. /\ toml' = Cleared(proc.doc) /\ tree' = tree /\ proc.step = "clear" /\ ReconcileHolds
  BY HoldsByCommand DEF ReconcileClear, Step
<1>2. /\ proc.doc \in Document /\ proc.found \in Document /\ tree \in Tree
      /\ proc.command = "reconcile"
  BY <1>1 DEF ReconcileHolds, TypeInv, TypeOK, Process
<1>3. /\ tree.log = proc.repair
      /\ toml = [proc.found EXCEPT !.pending = ReconcileTurn]
      /\ proc.doc = IF proc.repair = "recount" THEN Recounted(toml, tree) ELSE toml
      /\ proc.repair \in {"recount", "complete-pending-turn", "rollback-pending-turn"}
  BY <1>1 DEF ReconcileHolds
<1>4. /\ toml \in Document /\ toml.manifest = proc.found.manifest
      /\ toml.cursor = proc.found.cursor /\ toml.phase = proc.found.phase
  <2>1. ReconcileTurn \in PendingTurn
    BY DEF PendingTurn, ReconcileTurn, Path, Paths
  <2>2. QED
    BY <1>2, <1>3, <2>1 DEF Document
<1>5. /\ proc.doc.manifest = toml.manifest /\ proc.doc.cursor = toml.cursor
      /\ proc.doc.phase = toml.phase
      /\ proc.repair = "recount" => proc.doc.byChapter = RecountWords(toml, tree)
  BY <1>3, <1>4 DEF Recounted, Document
<1>6. /\ toml'.manifest = proc.doc.manifest /\ toml'.cursor = proc.doc.cursor
      /\ toml'.phase = proc.doc.phase /\ toml'.byChapter = proc.doc.byChapter
      /\ toml'.pending = NoTurn
  BY <1>1, <1>2 DEF Cleared, Document
<1>7. RecountWords(toml', tree) = RecountWords(toml, tree)
  BY <1>5, <1>6 DEF RecountWords
<1>8. PendingTurnCleared(toml') /\ ~SetChaptersTurnExplains(toml', tree)
  BY <1>6 DEF PendingTurnCleared, SetChaptersTurnExplains, NoTurn
<1>9. LogPresent(tree)
  BY <1>3, ReceiptsAssumption DEF LogPresent, Receipts
<1>10. QED
  BY <1>1, <1>2, <1>3, <1>4, <1>5, <1>6, <1>7, <1>8, <1>9

(* The clear closes the turn over a tree with every planned directory and the
   receipt, so the ladder reaches the counts; after a recount those agree too. *)
LEMMA ClearReachesCounts ==
    ASSUME TypeInv, ProcessHolds, RepairSound, ReconcileClear
    PROVE  SecondRunSettled(toml', tree')
<1>1. /\ Unrefused(proc.found, tree) /\ CoherentSubset(proc.found, tree)
      /\ Missing(proc.found, tree) = {}
  BY ClearLeaves DEF RepairSound
<1>2. IsBijection(toml', tree') /\ Unrefused(toml', tree')
  BY <1>1, ClearLeaves DEF Unrefused, CursorPlanPresent, DoneFlagHasDraft,
     CompiledMatchesDrafts, Concatenation, IsBijection, CoherentSubset, Orphans, Missing
<1>3. proc.repair = "recount" => CountsSettled(toml', tree')
  <2>1. ASSUME proc.repair = "recount" PROVE toml'.byChapter = RecountWords(toml', tree')
    BY <2>1, ClearLeaves
  <2>2. QED
    BY <2>1 DEF CountsSettled, WordCountsMatchDrafts, WordCountsCoverDrafts, RecountWords
<1>4. DeriveReconciliation(toml', tree')
          = IF CountsSettled(toml', tree') THEN Repair("none", {}) ELSE Repair("recount", {})
  BY <1>2, ClearLeaves, BijectionHasNoGap, LaterArms
<1>5. QED
  BY <1>3, <1>4, ClearLeaves DEF SecondRunSettled, Repair

(* A tree reconcile leaves alone, or gives back its log.md, is settled at once. *)
LEMMA QuietRunSettles ==
    ASSUME TypeInv, Reconcile, outcome'.code = Success, proc' = Idle
    PROVE  DeriveReconciliation(toml', tree').action = "none"
<1> DEFINE repair == DeriveReconciliation(toml, tree)
<1>1. tree \in Tree
  BY DEF TypeInv, TypeOK
<1>2. \/ repair.action = "none" /\ UNCHANGED <<toml, tree>>
      \/ /\ repair.action = "recreate-log" /\ toml' = toml
         /\ tree' = [tree EXCEPT !.log = "recreate-log"]
  <2>1. CASE repair.action = "refuse" /\ End("reconcile", ActionableFinding)
    BY <2>1 DEF End, Success, ActionableFinding
  <2>2. CASE proc' = Running("reconcile", "write-intent", toml,
                             repair.action, ChapterNumbers(repair.missing))
    BY <2>2, IdleTyped DEF Running
  <2>3. QED
    BY <2>1, <2>2 DEF Reconcile
<1>3. CASE repair.action = "none" /\ UNCHANGED <<toml, tree>>
  BY <1>3
<1>4. CASE /\ repair.action = "recreate-log" /\ toml' = toml
           /\ tree' = [tree EXCEPT !.log = "recreate-log"]
  <2>1. /\ ~SetChaptersTurnExplains(toml, tree)
        /\ IsBijection(toml, tree) /\ Unrefused(toml, tree)
        /\ PendingTurnCleared(toml) /\ CountsSettled(toml, tree)
    BY <1>4, QuietArms
  <2>2. /\ tree'.draft = tree.draft /\ tree'.flags = tree.flags /\ tree'.dirs = tree.dirs
        /\ tree'.scenes = tree.scenes /\ tree'.beats = tree.beats
        /\ tree'.compiled = tree.compiled /\ tree'.log = "recreate-log"
    BY <1>1, <1>4 DEF Tree
  <2>3. Unrefused(toml, tree')
    BY <2>1, <2>2, UnrefusedReads
  <2>4. IsBijection(toml, tree')
    BY <2>1, <2>2 DEF IsBijection, CoherentSubset, Orphans, Missing
  <2>5. CountsSettled(toml, tree')
    BY <2>1, <2>2 DEF CountsSettled, WordCountsMatchDrafts, RecountWords, Body,
       WordCountsCoverDrafts
  <2>6. LogPresent(tree')
    BY <2>2, ReceiptsAssumption DEF LogPresent, Receipts
  <2>7. ~SetChaptersTurnExplains(toml, tree')
    BY <2>1 DEF SetChaptersTurnExplains, PendingTurnCleared
  <2>8. DeriveReconciliation(toml, tree') = Repair("none", {})
    BY <2>1, <2>3, <2>4, <2>5, <2>6, <2>7, BijectionHasNoGap, LaterArms
  <2>9. QED
    BY <1>4, <2>8 DEF Repair
<1>5. QED
  BY <1>2, <1>3, <1>4

(* Only these two steps end reconcile with exit 0. *)
LEMMA SettlesPreserved ==
    Inv /\ ProcessHolds /\ RepairSound /\ ReconcileSettles /\ [Next]_vars
        => ReconcileSettles'
<1> SUFFICES ASSUME Inv, ProcessHolds, RepairSound, ReconcileSettles, [Next]_vars
             PROVE  ReconcileSettles'
  OBVIOUS
<1> DEFINE settled == [command |-> "reconcile", code |-> Success]
<1>1. SecondRunSettled(toml', tree') => ReconcileSettles'
  BY DEF SecondRunSettled, ReconcileSettles
<1>2. ASSUME UNCHANGED <<toml, tree, proc, outcome>> PROVE ReconcileSettles'
  BY <1>2 DEF ReconcileSettles
<1>3. ASSUME outcome' # settled \/ proc' # Idle PROVE ReconcileSettles'
  BY <1>3 DEF ReconcileSettles
<1>4. ASSUME NEW command, NEW code, End(command, code),
             command # "reconcile" \/ code # Success
      PROVE  ReconcileSettles'
  BY <1>3, <1>4 DEF End
<1>5. proc \in Process /\ TypeInv
  BY DEF Inv, TypeInv, TypeOK
<1>6. ASSUME NEW command \in CommandNames, MissingState(command) PROVE ReconcileSettles'
  BY <1>4, <1>6 DEF MissingState, End, StateError, UsageError, Success
<1>7. CASE SingleWrite
  BY <1>3, <1>5, <1>7, SingleWriteKeepsRecord
<1>8. CASE RunInit \/ InitSteps
  <2>1. CASE Refuse("init")
    BY <1>4, <2>1 DEF Refuse
  <2>2. CASE proc' = Running("init", "write-state", InitialDocument, "none", {})
    BY <1>3, <2>2 DEF Running, Idle
  <2>3. CASE InitWriteState
    <3>1. proc'.step = "write-log"
      BY <1>5, <2>3 DEF InitWriteState, Process
    <3>2. QED
      BY <1>3, <3>1 DEF Idle
  <2>4. CASE InitWriteLog
    BY <1>4, <2>4 DEF InitWriteLog
  <2>5. QED
    BY <1>8, <2>1, <2>2, <2>3, <2>4 DEF RunInit, InitSteps
<1>9. ASSUME NEW plan \in PlanInputs, SetChapters(plan) PROVE ReconcileSettles'
  <2>1. CASE Refuse("set-chapters")
    BY <1>4, <2>1 DEF Refuse
  <2>2. CASE proc'.command = "set-chapters"
    BY <1>3, <2>2 DEF Idle
  <2>3. QED
    BY <1>9, <2>1, <2>2 DEF SetChapters, Running
<1>10. CASE SetChaptersSteps
  <2>1. CASE SetChaptersClear
    BY <1>4, <2>1 DEF SetChaptersClear
  <2>2. CASE SetChaptersWriteIntent \/ SetChaptersMakeDir \/ SetChaptersReceipt
    <3>1. proc'.command = "set-chapters"
      BY <1>5, <2>2 DEF SetChaptersWriteIntent, SetChaptersMakeDir, MakeNextDir,
         SetChaptersReceipt, Step, Process
    <3>2. QED
      BY <1>3, <3>1 DEF Idle
  <2>3. QED
    BY <1>10, <2>1, <2>2 DEF SetChaptersSteps
<1>11. CASE Reconcile
  <2>1. CASE outcome' = settled /\ proc' = Idle
    BY <1>1, <1>5, <1>11, <2>1, QuietRunSettles DEF SecondRunSettled
  <2>2. QED
    BY <1>3, <2>1
<1>12. CASE ReconcileUncaught
  BY <1>4, <1>12 DEF ReconcileUncaught, Uncaught, Success
<1>13. CASE ReconcileSteps
  <2>1. CASE ReconcileClear
    BY <1>1, <1>5, <2>1, ClearReachesCounts
  <2>2. CASE ReconcileEditCounts /\ proc' = Idle
    <3>1. proc # Idle
      BY <2>2 DEF ReconcileEditCounts, Step, Idle
    <3>2. End("reconcile", StateError)
      <4>1. proc'.step # "receipt"
        BY <2>2 DEF Idle
      <4>2. QED
        BY <1>5, <2>2, <4>1 DEF ReconcileEditCounts, Process
    <3>3. QED
      BY <1>4, <3>2 DEF StateError, Success
  <2>3. CASE ~ReconcileClear /\ proc' # Idle
    BY <1>3, <2>3
  <2>4. CASE ReconcileWriteIntent \/ ReconcileMakeDir \/ ReconcileEditNothing
             \/ ReconcileReceipt
    <3>1. proc'.command = "reconcile"
      BY <1>5, <2>4 DEF ReconcileWriteIntent, ReconcileMakeDir, MakeNextDir,
         ReconcileEditNothing, ReconcileReceipt, Step, Process
    <3>2. QED
      BY <1>3, <3>1 DEF Idle
  <2>5. QED
    BY <1>13, <2>1, <2>2, <2>3, <2>4 DEF ReconcileSteps
<1>14. CASE Crash
  BY <1>4, <1>14 DEF Crash, Killed, Success
<1>15. CASE AgentSteps
  BY <1>4, <1>15 DEF AgentSteps, AgentEdits, AgentWritesDraft, AgentWritesPlans,
     AgentFlagsDone, EmptyDirDropped
<1>16. CASE UNCHANGED vars
  BY <1>2, <1>16 DEF vars
<1>17. QED
  BY <1>6, <1>7, <1>8, <1>9, <1>10, <1>11, <1>12, <1>13, <1>14, <1>15, <1>16 DEF Next

(* One reconcile that exits 0 settles the tree, whatever was torn before it and
   whatever repair it chose: at most the counts are left, after a turn. *)
THEOREM OneReconcileSettles == Spec => []ReconcileSettles
<1>1. Init => RepairSound /\ ReconcileSettles
  BY IdleTyped DEF Init, RepairSound, ReconcileSettles
<1>2. (Inv /\ ProcessHolds /\ TurnDeclared) /\ (RepairSound /\ ReconcileSettles)
          /\ [Next]_vars => (RepairSound /\ ReconcileSettles)'
  BY RepairSoundPreserved, SettlesPreserved
<1>3. QED
  BY <1>1, <1>2, TurnInvAlways, PTL DEF Spec

-----------------------------------------------------------------------------
(* The run of clean passes. *)

NoCleanPass == toml # NoFile => toml.consecutiveClean = 0

(* A step that writes state.toml takes the run of clean passes over from the one
   before it, or from init. *)
LEMMA NoCleanPassPreserved ==
    Inv /\ ProcessHolds /\ NoCleanPass /\ [Next]_vars => NoCleanPass'
<1> SUFFICES ASSUME TypeInv, ProcessHolds, NoCleanPass, [Next]_vars, toml' # toml
             PROVE  NoCleanPass'
  BY DEF Inv, NoCleanPass
<1>1. proc.doc \in Document /\ toml \in Document \cup {NoFile}
  BY DEF TypeInv, TypeOK, Process
<1>2. CASE toml # NoFile /\ SameRecord(toml')
  BY <1>2 DEF SameRecord, NoCleanPass
<1>3. CASE InitWriteState
  <2>1. toml' = InitialDocument
    BY <1>3, HoldsByCommand DEF InitWriteState, Step, InitHolds
  <2>2. QED
    BY <2>1 DEF InitialDocument, NoCleanPass
<1>4. CASE SetChaptersWriteIntent \/ SetChaptersClear
  <2>1. SetChaptersHolds
    BY <1>4, HoldsByCommand DEF SetChaptersWriteIntent, SetChaptersClear, Step
  <2>2. proc.doc.consecutiveClean = toml.consecutiveClean /\ toml # NoFile
    BY <1>1, <1>4, <2>1
    DEF SetChaptersHolds, SetChaptersWriteIntent, SetChaptersClear, Step, Document
  <2>3. toml'.consecutiveClean = proc.doc.consecutiveClean
    BY <1>1, <1>4 DEF SetChaptersWriteIntent, SetChaptersClear, Cleared, Document
  <2>4. QED
    BY <2>2, <2>3 DEF NoCleanPass
<1>5. CASE ReconcileWriteIntent \/ ReconcileClear
  <2>1. ReconcileHolds
    BY <1>5, HoldsByCommand DEF ReconcileWriteIntent, ReconcileClear, Step
  <2>2. toml \in Document /\ toml # NoFile
    <3>1. proc.found \in Document /\ proc.found # NoFile
      BY <2>1 DEF ReconcileHolds, TypeInv, TypeOK, Process
    <3>2. toml = proc.found \/ toml = [proc.found EXCEPT !.pending = ReconcileTurn]
      BY <2>1, Zenon DEF ReconcileHolds
    <3>3. ReconcileTurn \in PendingTurn
      BY DEF ReconcileTurn, PendingTurn, Paths, Path
    <3>4. [proc.found EXCEPT !.pending = ReconcileTurn] \in Document
      BY <3>1, <3>3 DEF Document
    <3>5. QED
      BY <3>1, <3>2, <3>4, NoFileAssumption
  <2>3. proc.doc.consecutiveClean = toml.consecutiveClean
    BY <1>1, <1>5, <2>1, <2>2
    DEF ReconcileHolds, ReconcileWriteIntent, ReconcileClear, Step, Recounted, Document
  <2>4. toml'.consecutiveClean = proc.doc.consecutiveClean
    BY <1>1, <1>5 DEF ReconcileWriteIntent, ReconcileClear, Cleared, Document
  <2>5. QED
    BY <2>2, <2>3, <2>4 DEF NoCleanPass
<1>6. QED
  BY <1>2, <1>3, <1>4, <1>5, WhoWrites

(* No sequence of commands records a clean pass. *)
LEMMA NoCleanPassAlways == Spec => [](Inv /\ NoCleanPass)
<1>1. Init => NoCleanPass
  BY DEF Init, NoCleanPass
<1>2. QED
  BY <1>1, NoCleanPassPreserved, TurnInvAlways, PTL DEF Spec
-----------------------------------------------------------------------------
(* The commands implement the life of a novel: every step of every command,
   killed or not, is a step of Lifecycle or leaves it as it is. *)

(* The names of the phases differ. *)
LEMMA PhasesDiffer == \A i, j \in 1..11 : PhaseOrder[i] = PhaseOrder[j] => i = j
BY DEF PhaseOrder

(* The successor of a phase is the next one in the order. *)
LEMMA SuccessorIsNext ==
    ASSUME NEW phase \in Phase, phase # "done"
    PROVE  /\ PhaseIndex(phase) \in 1..10
           /\ PhaseIndex(Successor(phase)) = PhaseIndex(phase) + 1
           /\ PhaseIndex(Successor(phase)) = 9 => Successor(phase) = "drafting"
<1> DEFINE i == PhaseIndex(phase)
           next == Successor(phase)
<1>1. PhaseOrder[11] = "done" /\ PhaseOrder[9] = "drafting"
  BY DEF PhaseOrder
<1>2. i \in 1..10
  BY <1>1, PhaseHasIndex
<1>3. next = PhaseOrder[i + 1] /\ next \in Phase
  BY SuccessorIsPhase DEF Successor
<1>4. PhaseIndex(next) \in 1..11 /\ PhaseOrder[PhaseIndex(next)] = next
  BY <1>3, PhaseHasIndex
<1> HIDE DEF i, next
<1>5. PhaseIndex(next) = i + 1
  BY <1>2, <1>3, <1>4, PhasesDiffer
<1>6. QED
  BY <1>1, <1>2, <1>4, <1>5 DEF i, next

(* A command with one write leaves the phase, or takes it one further. *)
LEMMA SingleWriteAdvances ==
    ASSUME TypeInv, SingleWrite
    PROVE  \/ toml'.phase = toml.phase
           \/ /\ toml.phase # "done" /\ toml'.phase = Successor(toml.phase)
              /\ toml'.phase = "drafting" => toml.manifest # {}
<1> DEFINE Goal == \/ toml'.phase = toml.phase
                   \/ /\ toml.phase # "done" /\ toml'.phase = Successor(toml.phase)
                      /\ toml'.phase = "drafting" => toml.manifest # {}
<1> SUFFICES Goal
  OBVIOUS
<1> HIDE DEF Goal
<1>1. toml \in Document
  BY DEF SingleWrite, AdvancePhase, Recount, CompleteFinalPass, Compile, SetCursor,
     SetGate, SetFangirl, SetCriticPass, Loaded, Ready, TypeInv, TypeOK
<1>2. CASE AdvancePhase
  <2> DEFINE advanced == [toml EXCEPT !.completed = Append(@, toml.phase),
                                      !.phase = Successor(toml.phase)]
  <2>1. CASE Refuse("advance-phase")
    BY <2>1 DEF Refuse, Goal
  <2>2. CASE ~CannotAdvance(toml) /\ Propose("advance-phase", advanced)
    <3>1. advanced.phase = Successor(toml.phase)
      BY <1>1 DEF Document
    <3>2. toml' = advanced \/ toml' = toml
      BY <2>2 DEF Propose
    <3>3. toml.phase # "done" /\ (Successor(toml.phase) = "drafting" => toml.manifest # {})
      BY <2>2 DEF CannotAdvance
    <3> HIDE DEF advanced
    <3>4. QED
      BY <3>1, <3>2, <3>3 DEF Goal
  <2>3. QED
    BY <1>2, <2>1, <2>2 DEF AdvancePhase
<1>3. ASSUME NEW command, NEW doc, doc.phase = toml.phase, Propose(command, doc) PROVE Goal
  BY <1>3 DEF Propose, Goal
<1>4. ASSUME toml' = toml PROVE Goal
  BY <1>4 DEF Goal
<1>5. CASE Recount
  <2>1. Recounted(toml, tree).phase = toml.phase
    BY <1>1 DEF Recounted, Document
  <2>2. QED
    BY <1>3, <1>4, <1>5, <2>1 DEF Recount, Refuse
<1>6. CASE CompleteFinalPass
  <2>1. [toml EXCEPT !.gates["final_pass_complete"] = TRUE].phase = toml.phase
    BY <1>1 DEF Document
  <2>2. QED
    BY <1>3, <1>6, <2>1 DEF CompleteFinalPass
<1>7. CASE Compile
  BY <1>4, <1>7 DEF Compile, Refuse
<1>8. ASSUME NEW cursor \in CursorInputs, SetCursor(cursor) PROVE Goal
  <2>1. [toml EXCEPT !.cursor = cursor].phase = toml.phase
    BY <1>1 DEF Document
  <2>2. QED
    BY <1>3, <1>8, <2>1 DEF SetCursor
<1>9. ASSUME NEW chosen \in GateInputs, SetGate(chosen) PROVE Goal
  <2>1. WithGates(toml, chosen).phase = toml.phase
    BY <1>1 DEF WithGates, Document
  <2>2. QED
    BY <1>3, <1>4, <1>9, <2>1 DEF SetGate
<1>10. ASSUME NEW chapter \in FangirlInputs, SetFangirl(chapter) PROVE Goal
  <2>1. [toml EXCEPT !.fangirl = chapter].phase = toml.phase
    BY <1>1 DEF Document
  <2>2. QED
    BY <1>3, <1>4, <1>10, <2>1 DEF SetFangirl, Refuse
<1>11. ASSUME NEW pass \in PassInputs, SetCriticPass(pass) PROVE Goal
  <2>1. [toml EXCEPT !.pass = pass].phase = toml.phase
    BY <1>1 DEF Document
  <2>2. QED
    BY <1>3, <1>4, <1>11, <2>1 DEF SetCriticPass, Refuse
<1>12. QED
  BY <1>2, <1>5, <1>6, <1>7, <1>8, <1>9, <1>10, <1>11 DEF SingleWrite

(* What Lifecycle reads of a state.toml. *)
LEMMA LifeOnDisk ==
    ASSUME TypeInv, toml # NoFile
    PROVE  /\ LifePhase = PhaseIndex(toml.phase) /\ LifePhase \in 1..11
           /\ LifePlan = toml.manifest
           /\ LifeTurn = toml.pending.operation
<1>1. toml.phase \in Phase
  BY DEF TypeInv, TypeOK, Document
<1>2. QED
  BY <1>1, PhaseHasIndex DEF LifePhase, LifePlan, LifeTurn

(* The same of the state.toml a step leaves. *)
LEMMA LifeNext ==
    ASSUME toml' # NoFile
    PROVE  /\ LifePhase' = PhaseIndex(toml'.phase)
           /\ LifePlan' = toml'.manifest
           /\ LifeTurn' = toml'.pending.operation
BY DEF LifePhase, LifePlan, LifeTurn

LifeVars == <<LifePhase, LifePlan, LifeTurn>>

(* init begins the novel. *)
LEMMA InitBegins ==
    ASSUME ProcessHolds, InitWriteState PROVE Life!Begin
<1>1. toml = NoFile /\ toml' = InitialDocument
  BY HoldsByCommand DEF InitWriteState, Step, InitHolds
<1>2. toml' # NoFile
  BY <1>1, InitialIsDocument, NoFileAssumption
<1>3. PhaseIndex("premise") = 1
  BY PhasesDiffer DEF PhaseIndex, PhaseOrder
<1>4. LifePhase = 0 /\ LifePlan = {} /\ LifeTurn = "none"
  BY <1>1 DEF LifePhase, LifePlan, LifeTurn
<1>5. LifePhase' = 1 /\ LifePlan' = {} /\ LifeTurn' = "none"
  BY <1>1, <1>2, <1>3, LifeNext DEF InitialDocument, NoTurn
<1>6. QED
  BY <1>4, <1>5 DEF Life!Begin

(* A command with one write advances the novel or leaves its life as it is. *)
LEMMA SingleWriteLives ==
    ASSUME TypeInv, SingleWrite PROVE Life!Advance \/ UNCHANGED LifeVars
<1>1. toml # NoFile /\ SameRecord(toml')
  BY SingleWriteKeepsRecord
<1>2. toml' # NoFile
  BY <1>1, NoFileAssumption DEF SameRecord
<1>3. LifePlan' = LifePlan /\ LifeTurn' = LifeTurn
  BY <1>1, <1>2, LifeOnDisk, LifeNext DEF SameRecord
<1>4. CASE toml'.phase = toml.phase
  BY <1>1, <1>2, <1>3, <1>4, LifeOnDisk, LifeNext DEF LifeVars
<1>5. CASE /\ toml.phase # "done" /\ toml'.phase = Successor(toml.phase)
           /\ toml'.phase = "drafting" => toml.manifest # {}
  <2>1. toml.phase \in Phase
    BY <1>1 DEF TypeInv, TypeOK, Document
  <2>2. /\ LifePhase \in 1..10 /\ LifePhase' = LifePhase + 1
        /\ LifePhase' = 9 => LifePlan # {}
    BY <1>1, <1>2, <1>5, <2>1, SuccessorIsNext, LifeOnDisk, LifeNext
  <2>3. QED
    BY <1>3, <2>2 DEF Life!Advance, Life!LastPhase, Life!Drafting
<1>6. QED
  BY <1>4, <1>5, SingleWriteAdvances

(* A write of a turn that leaves phase and plan alone opens a repair or settles. *)
LEMMA TurnLives ==
    ASSUME TypeInv, toml # NoFile, toml' # NoFile,
           toml'.phase = toml.phase, toml'.manifest = toml.manifest,
           \/ toml'.pending.operation = "reconcile"
           \/ toml.pending.operation # "none" /\ toml'.pending.operation = "none"
    PROVE  Life!Repair \/ Life!Settle
BY LifeOnDisk, LifeNext DEF Life!Repair, Life!Settle

(* set-chapters plans the novel and settles the turn it opened. *)
LEMMA SetChaptersLives ==
    ASSUME TypeInv, ProcessHolds, SetChaptersWriteIntent \/ SetChaptersClear
    PROVE  Life!Plan \/ Life!Settle
<1>1. /\ SetChaptersHolds /\ toml # NoFile /\ proc.doc \in Document /\ toml \in Document
  BY HoldsByCommand DEF SetChaptersHolds, SetChaptersWriteIntent, SetChaptersClear, Step,
     TypeInv, TypeOK, Process
<1>2. CASE SetChaptersWriteIntent
  <2>1. /\ proc.doc = [toml EXCEPT !.manifest = proc.doc.manifest,
                                   !.byChapter = proc.doc.byChapter,
                                   !.pending = proc.doc.pending]
        /\ toml.manifest = {} /\ proc.doc.manifest # {}
        /\ proc.doc.pending = [operation |-> "set-chapters",
                               paths |-> DeclaredPaths(proc.doc.manifest)]
    BY <1>1, <1>2 DEF SetChaptersHolds, SetChaptersWriteIntent, Step
  <2>2. proc.doc.phase = toml.phase
    BY <1>1, <2>1 DEF Document
  <2>3. toml' = proc.doc /\ toml' # NoFile /\ proc.doc.manifest \in SUBSET Chapters
    BY <1>1, <1>2, NoFileAssumption DEF SetChaptersWriteIntent, Document
  <2>4. LifePhase > 0 /\ LifePlan = {}
    BY <1>1, <2>1, LifeOnDisk
  <2>5. /\ LifePhase' = LifePhase /\ LifeTurn' = "set-chapters"
        /\ LifePlan' = proc.doc.manifest
    BY <1>1, <2>1, <2>2, <2>3, LifeOnDisk, LifeNext
  <2>6. LifePlan' \in (SUBSET Chapters) \ {{}}
    BY <2>1, <2>3, <2>5
  <2>7. Life!Plan
    BY <2>4, <2>5, <2>6, Zenon DEF Life!Plan
  <2>8. QED
    BY <2>7
<1>3. CASE SetChaptersClear
  <2>1. toml = proc.doc /\ toml.pending.operation = "set-chapters"
    BY <1>1, <1>3 DEF SetChaptersHolds, SetChaptersClear, Step
  <2>2. /\ Cleared(toml) \in Document /\ Cleared(toml).phase = toml.phase
        /\ Cleared(toml).manifest = toml.manifest
        /\ Cleared(toml).pending.operation = "none"
    BY <1>1 DEF Cleared, Document, NoTurn, PendingTurn
  <2>3. toml' = Cleared(toml) /\ toml' # NoFile
    BY <1>3, <2>1, <2>2, NoFileAssumption DEF SetChaptersClear
  <2>4. /\ toml'.phase = toml.phase /\ toml'.manifest = toml.manifest
        /\ toml.pending.operation # "none" /\ toml'.pending.operation = "none"
    BY <2>1, <2>2, <2>3
  <2>5. QED
    BY <1>1, <2>3, <2>4, LifeOnDisk, LifeNext DEF Life!Settle
<1>4. QED
  BY <1>2, <1>3

(* reconcile opens a repair and settles it. *)
LEMMA ReconcileLives ==
    ASSUME TypeInv, ProcessHolds, ReconcileWriteIntent \/ ReconcileClear
    PROVE  Life!Repair \/ Life!Settle
<1>1. ReconcileHolds /\ proc.found \in Document
  BY HoldsByCommand DEF ReconcileHolds, ReconcileWriteIntent, ReconcileClear, Step,
     TypeInv, TypeOK, Process
<1> DEFINE open == [proc.found EXCEPT !.pending = ReconcileTurn]
<1>2. /\ open \in Document /\ open.phase = proc.found.phase
      /\ open.manifest = proc.found.manifest /\ open.pending.operation = "reconcile"
  <2>1. ReconcileTurn \in PendingTurn /\ ReconcileTurn.operation = "reconcile"
    BY DEF ReconcileTurn, PendingTurn, Paths, Path
  <2>2. QED
    BY <1>1, <2>1 DEF Document
<1> HIDE DEF open
<1>3. CASE ReconcileWriteIntent
  <2>1. toml = proc.found /\ proc.doc = toml
    BY <1>1, <1>3 DEF ReconcileHolds, ReconcileWriteIntent, Step
  <2>2. toml' = open
    BY <1>3, <2>1 DEF ReconcileWriteIntent, open
  <2>3. QED
    BY <1>1, <1>2, <2>1, <2>2, TurnLives, NoFileAssumption
<1>4. CASE ReconcileClear
  <2>1. toml = open /\ (proc.doc = toml \/ proc.doc = Recounted(toml, tree))
    BY <1>1, <1>4 DEF ReconcileHolds, ReconcileClear, Step, open
  <2>2. proc.doc \in Document /\ proc.doc.phase = toml.phase
        /\ proc.doc.manifest = toml.manifest
    BY <1>2, <2>1 DEF TypeInv, TypeOK, Process, Recounted, Document
  <2>3. /\ Cleared(proc.doc) \in Document /\ Cleared(proc.doc).phase = toml.phase
        /\ Cleared(proc.doc).manifest = toml.manifest
        /\ Cleared(proc.doc).pending.operation = "none"
    BY <2>2 DEF Cleared, Document, NoTurn, PendingTurn
  <2>4. toml' = Cleared(proc.doc)
    BY <1>4 DEF ReconcileClear
  <2>5. QED
    BY <1>2, <2>1, <2>3, <2>4, TurnLives, NoFileAssumption
<1>5. QED
  BY <1>3, <1>4

(* Whatever is run, refused or killed, the novel lives as Lifecycle says. *)
THEOREM CommandsImplementLifecycle == Spec => ImplementsLifecycle
<1>1. Init => Life!Init
  BY DEF Init, Life!Init, LifePhase, LifePlan, LifeTurn
<1>2. TypeInv /\ ProcessHolds /\ [Next]_vars => [Life!Next]_LifeVars
  <2> SUFFICES ASSUME TypeInv, ProcessHolds, [Next]_vars
               PROVE  Life!Next \/ UNCHANGED LifeVars
    OBVIOUS
  <2>1. CASE toml' = toml
    BY <2>1 DEF LifeVars, LifePhase, LifePlan, LifeTurn
  <2>2. CASE toml' # toml
    BY <2>2, WhoWrites, InitBegins, SingleWriteLives, SetChaptersLives, ReconcileLives
       DEF Life!Next
  <2>3. QED
    BY <2>1, <2>2
<1>3. QED
  BY <1>1, <1>2, ProcessHoldsAlways, PTL
     DEF Spec, ImplementsLifecycle, Life!Spec, LifeVars
=============================================================================
