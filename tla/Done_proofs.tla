------------------------------ MODULE Done_proofs ------------------------------
(***************************************************************************)
(* Theorems about novel done and novel compile --check, for every tree the *)
(* commands, the drafting agent, the critic and the reviewer can produce.  *)
(* The critic and the reviewer touch nothing of the harness, so what is    *)
(* proved of it holds here too.                                            *)
(***************************************************************************)
EXTENDS Done, Turn_proofs

(* Every step is a step of the harness or leaves its variables alone: Done
   implements Harness. *)
THEOREM DoneImplementsHarness == DoneSpec => Spec
<1>1. DoneInit => Init
  BY DEF DoneInit
<1>2. [DoneNext]_doneVars => [Next]_vars
  BY DEF DoneNext, doneVars, vars, CriticWritesNotes, ReviewerWrites
<1>3. QED
  BY <1>1, <1>2, PTL DEF DoneSpec, Spec

(* Hence state.toml and the drafts stay as the harness keeps them. *)
LEMMA DoneInvAlways == DoneSpec => []Inv
<1>1. QED
  BY DoneImplementsHarness, InvAlways, PTL

-----------------------------------------------------------------------------
(* What an answer of novel done says. *)

(* With a state.toml and no fault, the exit code is decided by the failed clauses. *)
LEMMA DoneExit ==
    /\ DoneAnswer.exit = Success <=>
           toml # NoFile /\ ~EvaluationFault(toml) /\ FailedClauses(toml) = {}
    /\ DoneAnswer.exit = ActionableFinding <=>
           toml # NoFile /\ ~EvaluationFault(toml) /\ SoleStaleCompile(FailedClauses(toml))
<1> DEFINE failed == FailedClauses(toml)
           body   == WithState(DoneBody(toml))
<1>1. DoneAnswer.exit = IF body.kind = "returned" THEN body.code ELSE StateError
  <2>1. body.kind \in {"returned", "state"}
    BY DEF WithState, DoneBody, StateFault, Raised, Returned
  <2>2. QED
    BY <2>1 DEF DoneAnswer, Run
<1>2. CASE toml = NoFile \/ EvaluationFault(toml)
  <2>1. body = StateFault
    BY <1>2 DEF WithState, DoneBody
  <2>2. QED
    BY <1>1, <1>2, <2>1 DEF StateFault, Raised, StateError, Success, ActionableFinding
<1>3. CASE toml # NoFile /\ ~EvaluationFault(toml)
  <2>1. body = IF failed = {} THEN Returned(Success, << >>)
               ELSE IF SoleStaleCompile(failed) THEN Returned(ActionableFinding, InOrder(failed))
               ELSE Returned(BenignNegative, InOrder(failed))
    BY <1>3 DEF WithState, DoneBody
  <2>2. SoleStaleCompile(failed) => failed # {}
    BY DEF SoleStaleCompile
  <2>3. /\ Returned(Success, << >>).kind = "returned"
        /\ Returned(Success, << >>).code = Success
        /\ Returned(ActionableFinding, InOrder(failed)).kind = "returned"
        /\ Returned(ActionableFinding, InOrder(failed)).code = ActionableFinding
        /\ Returned(BenignNegative, InOrder(failed)).kind = "returned"
        /\ Returned(BenignNegative, InOrder(failed)).code = BenignNegative
    BY DEF Returned
  <2>4. Success # ActionableFinding /\ Success # BenignNegative
            /\ ActionableFinding # BenignNegative
    BY DEF Success, ActionableFinding, BenignNegative
  <2>5. QED
    BY <1>1, <1>3, <2>1, <2>2, <2>3, <2>4
<1>4. QED
  BY <1>2, <1>3

(* Exit 0 or 4: nothing was unreadable, and every clause but the compile's holds. *)
LEMMA AnsweredWell ==
    ASSUME DoneAnswer.exit \in {Success, ActionableFinding}
    PROVE  /\ toml # NoFile /\ ~EvaluationFault(toml)
           /\ tree.compiled # NoFile
           /\ toml.phase = "done"
           /\ toml.gates["final_pass_complete"]
           /\ toml.manifest \subseteq tree.flags
           /\ KnittingGatesPassed(toml)
           /\ \A c \in toml.manifest : ~HasBlocker(c)
<1>1. /\ toml # NoFile /\ ~EvaluationFault(toml)
      /\ FailedClauses(toml) \subseteq {"compile_consistent"}
  BY DoneExit DEF SoleStaleCompile
<1>2. ASSUME NEW name \in DOMAIN DoneClauses(toml), name # "compile_consistent"
      PROVE  DoneClauses(toml)[name]
  BY <1>1, <1>2 DEF FailedClauses
<1>3. /\ DoneClauses(toml)["phase_is_done"]
      /\ DoneClauses(toml)["final_pass_complete"]
      /\ DoneClauses(toml)["all_chapters_flagged"]
      /\ DoneClauses(toml)["knitting_gates_passed"]
      /\ DoneClauses(toml)["no_unresolved_blockers"]
  BY <1>2 DEF DoneClauses
<1>4. /\ toml.phase = "done"
      /\ toml.gates["final_pass_complete"]
      /\ toml.manifest \subseteq tree.flags
      /\ KnittingGatesPassed(toml)
      /\ \A c \in toml.manifest : ~HasBlocker(c)
  BY <1>3 DEF DoneClauses
<1>5. tree.compiled # NoFile
  <2>1. CASE DoneAnswer.exit = ActionableFinding
    BY <2>1, DoneExit DEF SoleStaleCompile
  <2>2. CASE DoneAnswer.exit = Success
    <3>1. FailedClauses(toml) = {}
      BY <2>2, DoneExit
    <3>2. DoneClauses(toml)["compile_consistent"]
      BY <3>1 DEF FailedClauses, DoneClauses
    <3>3. QED
      BY <3>2 DEF DoneClauses, Comparison
  <2>3. QED
    BY <2>1, <2>2
<1>6. QED
  BY <1>1, <1>4, <1>5

(* No finished novel, and none one compile away from finished, rests on a draft or
   on critic notes that were never read. *)
THEOREM NothingUnread == DoneSpec => []NothingUnreadIsDone
<1>1. NothingUnreadIsDone
  <2> SUFFICES ASSUME DoneAnswer.exit \in {Success, ActionableFinding}
               PROVE  /\ DraftsReadable(toml, tree)
                      /\ \A c \in toml.manifest : notes[c] # Corrupt
    BY DEF NothingUnreadIsDone
  <2>1. DraftsReadable(toml, tree)
    BY AnsweredWell DEF EvaluationFault, ComparisonFault
  <2>2. \A c \in toml.manifest : notes[c] # Corrupt
    BY AnsweredWell DEF EvaluationFault, NotesFault
  <2>3. QED
    BY <2>1, <2>2
<1>2. QED
  BY <1>1, PTL

(* The knitting clause of novel done waits for gates no command opens: with a
   positive target, whatever is drafted, reviewed and annotated, novel done answers
   neither 0 nor 4. *)
THEOREM NeverDoneWithTarget ==
    ASSUME Target > 0
    PROVE  DoneSpec => [](DoneAnswer.exit \notin {Success, ActionableFinding})
<1>1. KnittingGatesNeverOpen => DoneAnswer.exit \notin {Success, ActionableFinding}
  <2> SUFFICES ASSUME KnittingGatesNeverOpen,
                      DoneAnswer.exit \in {Success, ActionableFinding}
               PROVE  FALSE
    OBVIOUS
  <2>1. toml # NoFile /\ KnittingGatesPassed(toml)
    BY AnsweredWell
  <2>2. toml.gates["done_30"]
    BY <2>1 DEF KnittingGatesPassed, Percentages, KnittingGateFor
  <2>3. ~toml.gates["done_30"]
    BY <2>1 DEF KnittingGatesNeverOpen, KnittingGates
  <2>4. QED
    BY <2>2, <2>3
<1>2. QED
  BY <1>1, DoneImplementsHarness, GatesNeverOpen, PTL

-----------------------------------------------------------------------------
(* novel compile and the three readers of compiled.md. *)

(* check, compile --check and done never disagree about a compiled.md that is there,
   and differ over an absent one as they should. *)
THEOREM ReadersAgree == DoneSpec => []CompileReadersAgree
<1>1. CompileReadersAgree
  <2> SUFFICES ASSUME toml # NoFile, toml.manifest # {}, DraftsReadable(toml, tree)
               PROVE  /\ "compiled-matches-drafts" \in CheckDiskEvidence(toml, tree, TRUE)
                             <=> CompileCheckAnswer.exit = ActionableFinding
                                     /\ tree.compiled # NoFile
                      /\ CompileCheckAnswer.exit = Success
                             <=> DoneClauses(toml).compile_consistent
    BY DEF CompileReadersAgree
  <2>1. CompileCheckAnswer.exit =
            IF Comparison(toml) = "MATCHES" THEN Success ELSE ActionableFinding
    BY DEF CompileCheckAnswer, CompileCheckBody, ComparisonFault, WithState, Run, Returned
  <2>2. Comparison(toml) = "MATCHES" <=>
            tree.compiled # NoFile /\ tree.compiled = Concatenation(toml, tree)
    BY DEF Comparison
  <2>3. "compiled-matches-drafts" \in CheckDiskEvidence(toml, tree, TRUE)
            <=> tree.compiled \notin {NoFile, Concatenation(toml, tree)}
    BY DEF CheckDiskEvidence, CompiledMatchesDrafts
  <2>4. DoneClauses(toml).compile_consistent <=> Comparison(toml) = "MATCHES"
    BY DEF DoneClauses
  <2>5. Success # ActionableFinding
    BY DEF Success, ActionableFinding
  <2>6. CASE Comparison(toml) = "MATCHES"
    BY <2>1, <2>2, <2>3, <2>4, <2>5, <2>6
  <2>7. CASE Comparison(toml) # "MATCHES"
    BY <2>1, <2>2, <2>3, <2>4, <2>5, <2>7
  <2>8. QED
    BY <2>6, <2>7
<1>2. QED
  BY <1>1, PTL

(* A body is one of the texts, so the concatenation is a compile and no absent file. *)
LEMMA ConcatenationIsFile ==
    ASSUME NEW doc \in Document, NEW disk
    PROVE  Concatenation(doc, disk) # NoFile
<1>1. doc.manifest \in SUBSET Chapters
  BY DEF Document
<1>2. \A c \in doc.manifest : Body(disk, c) \in Texts
  BY TextsAssumption DEF Body
<1>3. Concatenation(doc, disk) \in [doc.manifest -> Texts]
  BY <1>2 DEF Concatenation
<1>4. Concatenation(doc, disk) \in Compiled
  BY <1>1, <1>3 DEF Compiled
<1>5. QED
  BY <1>4, CompiledAssumption

(* A step of novel compile taken where done answers 4 makes done answer 0. *)
LEMMA CompileFinishes ==
    ASSUME Inv, [DoneNext]_doneVars, Compile, DoneAnswer.exit = ActionableFinding
    PROVE  DoneAnswer'.exit = Success
<1>1. /\ toml # NoFile /\ ~EvaluationFault(toml)
      /\ FailedClauses(toml) = {"compile_consistent"} /\ tree.compiled # NoFile
  BY DoneExit DEF SoleStaleCompile
<1>2. /\ toml.phase = "done" /\ toml.gates["final_pass_complete"]
      /\ toml.manifest \subseteq tree.flags /\ KnittingGatesPassed(toml)
      /\ \A c \in toml.manifest : ~HasBlocker(c)
  BY AnsweredWell
<1>3. /\ toml \in Document /\ tree \in Tree /\ toml.manifest # {}
  BY <1>1, <1>2 DEF Inv, TypeInv, TypeOK, DocumentsSound, Sound, HasPlan
<1>4. DraftsReadable(toml, tree)
  BY <1>1 DEF EvaluationFault, ComparisonFault
<1>5. /\ tree' = [tree EXCEPT !.compiled = Concatenation(toml, tree)]
      /\ toml' = toml
  BY <1>3, <1>4 DEF Compile
<1>6. /\ tree'.compiled = Concatenation(toml, tree)
      /\ tree'.draft = tree.draft /\ tree'.flags = tree.flags
  BY <1>3, <1>5 DEF Tree
<1>7. Concatenation(toml', tree') = Concatenation(toml, tree)
  BY <1>5, <1>6 DEF Concatenation, Body
<1>8. tree.compiled # Concatenation(toml, tree)
  <2>1. ~DoneClauses(toml)["compile_consistent"]
    BY <1>1 DEF FailedClauses
  <2>2. QED
    BY <1>1, <2>1 DEF DoneClauses, Comparison
<1>9. notes' = notes /\ reviews' = reviews
  <2>1. tree' # tree
    BY <1>6, <1>8
  <2>2. QED
    BY <2>1 DEF DoneNext, doneVars, CriticWritesNotes, ReviewerWrites, vars
<1>10. ~EvaluationFault(toml)'
  BY <1>1, <1>4, <1>5, <1>6, <1>9
     DEF EvaluationFault, ComparisonFault, NotesFault, HasBlocker, DraftsReadable
<1>11. (Comparison(toml) = "MATCHES")'
  BY <1>3, <1>5, <1>6, <1>7, ConcatenationIsFile DEF Comparison
<1>12. (FailedClauses(toml) = {})'
  <2>1. /\ (toml.phase = "done")' /\ toml.gates["final_pass_complete"]'
        /\ (toml.manifest \subseteq tree.flags)'
    BY <1>2, <1>5, <1>6
  <2>2. KnittingGatesPassed(toml)'
    BY <1>2, <1>5, <1>9 DEF KnittingGatesPassed
  <2>3. (\A c \in toml.manifest : ~HasBlocker(c))'
    BY <1>2, <1>5, <1>9 DEF HasBlocker
  <2>4. \A name \in DOMAIN DoneClauses(toml)' : DoneClauses(toml)'[name]
    <3>1. /\ DoneClauses(toml)'["phase_is_done"]
          /\ DoneClauses(toml)'["final_pass_complete"]
          /\ DoneClauses(toml)'["all_chapters_flagged"]
      BY <2>1 DEF DoneClauses
    <3>2. /\ DoneClauses(toml)'["knitting_gates_passed"]
          /\ DoneClauses(toml)'["no_unresolved_blockers"]
      BY <2>2, <2>3 DEF DoneClauses
    <3>3. DoneClauses(toml)'["compile_consistent"]
      BY <1>11 DEF DoneClauses
    <3>4. DOMAIN DoneClauses(toml)' =
              {"phase_is_done", "final_pass_complete", "all_chapters_flagged",
               "knitting_gates_passed", "compile_consistent", "no_unresolved_blockers"}
      BY DEF DoneClauses
    <3>5. QED
      BY <3>1, <3>2, <3>3, <3>4
  <2>5. QED
    BY <2>4 DEF FailedClauses
<1>13. QED
  <2>1. (DoneAnswer.exit = Success <=>
           toml # NoFile /\ ~EvaluationFault(toml) /\ FailedClauses(toml) = {})'
    BY DoneExit, PTL
  <2>2. QED
    BY <1>1, <1>5, <1>10, <1>12, <2>1

(* What exit 4 of novel done promises, regenerating the compile delivers. *)
THEOREM RegenerationFinishes == DoneSpec => StaleCompileIsRegenerable
<1>1. Inv /\ [DoneNext]_doneVars
          => [Compile /\ DoneAnswer.exit = ActionableFinding
                  => DoneAnswer'.exit = Success]_doneVars
  BY CompileFinishes
<1>2. QED
  BY <1>1, DoneInvAlways, PTL DEF DoneSpec, StaleCompileIsRegenerable

-----------------------------------------------------------------------------
(* A finished novel stays finished. *)

(* All that novel done reads of a document: what it finds in this one it finds in
   toml, or better. *)
AsFinished(doc) ==
    /\ doc \in Document
    /\ doc.phase = toml.phase /\ doc.manifest = toml.manifest
    /\ \A g \in Gates : toml.gates[g] => doc.gates[g]

(* A proposal that is at least as finished, written or refused. *)
LEMMA ProposeFinished ==
    ASSUME toml \in Document, NEW command, NEW doc, AsFinished(doc), Propose(command, doc)
    PROVE  AsFinished(toml')
BY DEF Propose, AsFinished

(* The single writes: in the last phase none is left to advance to, and a gate is
   closed by set-gate alone. *)
LEMMA SingleWriteFinished ==
    ASSUME TypeInv, toml \in Document, toml.phase = "done", ~ClosesGate, SingleWrite
    PROVE  AsFinished(toml')
<1>1. AsFinished(toml) /\ tree \in Tree
  BY DEF AsFinished, TypeInv, TypeOK
<1>2. CASE AdvancePhase
  BY <1>1, <1>2 DEF AdvancePhase, CannotAdvance, Refuse
<1>3. CASE Recount
  <2>1. AsFinished(Recounted(toml, tree))
    BY <1>1, RecountedIsDocument DEF AsFinished, Recounted, Document
  <2>2. QED
    BY <1>1, <1>3, <2>1, ProposeFinished DEF Recount, Refuse
<1>4. CASE CompleteFinalPass
  <2>1. AsFinished([toml EXCEPT !.gates["final_pass_complete"] = TRUE])
    BY DEF AsFinished, Document, Gates
  <2>2. QED
    BY <1>4, <2>1, ProposeFinished DEF CompleteFinalPass
<1>5. CASE Compile
  BY <1>1, <1>5 DEF Compile, Refuse
<1>6. ASSUME NEW cursor \in CursorInputs, SetCursor(cursor) PROVE AsFinished(toml')
  <2>1. AsFinished([toml EXCEPT !.cursor = cursor])
    BY InputsAssumption DEF AsFinished, Document
  <2>2. QED
    BY <1>6, <2>1, ProposeFinished DEF SetCursor
<1>7. ASSUME NEW chosen \in GateInputs, SetGate(chosen) PROVE AsFinished(toml')
  <2>1. \A g \in DOMAIN chosen : chosen[g]
    BY <1>7 DEF ClosesGate
  <2>2. AsFinished(WithGates(toml, chosen))
    <3>1. WithGates(toml, chosen) =
              [toml EXCEPT !.gates = [g \in Gates |-> IF g \in DOMAIN chosen
                                                      THEN chosen[g] ELSE toml.gates[g]]]
      BY DEF WithGates, Document
    <3>2. [g \in Gates |-> IF g \in DOMAIN chosen THEN chosen[g] ELSE toml.gates[g]]
              \in [Gates -> BOOLEAN]
      <4>1. \A g \in DOMAIN chosen : chosen[g] \in BOOLEAN
        BY InputsAssumption
      <4>2. \A g \in Gates : toml.gates[g] \in BOOLEAN
        BY DEF Document
      <4>3. QED
        BY <4>1, <4>2
    <3>3. QED
      BY <2>1, <3>1, <3>2 DEF AsFinished, Document
  <2>3. QED
    BY <1>1, <1>7, <2>2, ProposeFinished DEF SetGate
<1>8. ASSUME NEW chapter \in FangirlInputs, SetFangirl(chapter) PROVE AsFinished(toml')
  <2>1. AsFinished([toml EXCEPT !.fangirl = chapter])
    BY InputsAssumption DEF AsFinished, Document
  <2>2. QED
    BY <1>1, <1>8, <2>1, ProposeFinished DEF SetFangirl, Refuse
<1>9. ASSUME NEW pass \in PassInputs, SetCriticPass(pass) PROVE AsFinished(toml')
  <2>1. AsFinished([toml EXCEPT !.pass = pass])
    BY InputsAssumption DEF AsFinished, Document
  <2>2. QED
    BY <1>1, <1>9, <2>1, ProposeFinished DEF SetCriticPass, Refuse
<1>10. QED
  BY <1>2, <1>3, <1>4, <1>5, <1>6, <1>7, <1>8, <1>9 DEF SingleWrite

(* The writes of the commands that write more than once: init finds no document to
   replace, set-chapters no unplanned one, and what they hold in memory differs from
   state.toml in the counts and the record alone. *)
LEMMA TurnsFinished ==
    ASSUME Inv, ProcessHolds, toml # NoFile, toml.phase = "done",
           \/ InitWriteState
           \/ SetChaptersWriteIntent \/ SetChaptersClear
           \/ ReconcileWriteIntent \/ ReconcileClear
    PROVE  AsFinished(toml')
<1>1. /\ toml \in Document /\ toml.manifest # {} /\ tree \in Tree
      /\ proc \in Process /\ proc.doc \in Document
  BY DEF Inv, TypeInv, TypeOK, Process, DocumentsSound, Sound, HasPlan
<1>2. ReconcileTurn \in PendingTurn /\ NoTurn \in PendingTurn
  BY DEF ReconcileTurn, NoTurn, PendingTurn, Path, Paths
<1>3. ASSUME NEW turn \in PendingTurn
      PROVE  /\ AsFinished([toml EXCEPT !.pending = turn])
             /\ AsFinished([Recounted(toml, tree) EXCEPT !.pending = turn])
  <2>1. AsFinished([toml EXCEPT !.pending = turn])
    BY <1>1, <1>3 DEF AsFinished, Document
  <2>2. Recounted(toml, tree) \in Document
    BY <1>1, RecountedIsDocument
  <2>3. /\ Recounted(toml, tree).phase = toml.phase
        /\ Recounted(toml, tree).manifest = toml.manifest
        /\ Recounted(toml, tree).gates = toml.gates
    BY <1>1 DEF Recounted, Document
  <2>4. AsFinished([Recounted(toml, tree) EXCEPT !.pending = turn])
    BY <1>3, <2>2, <2>3 DEF AsFinished, Document
  <2>5. QED
    BY <2>1, <2>4
<1>4. ~InitWriteState
  BY HoldsByCommand DEF InitWriteState, Step, InitHolds
<1>5. ~SetChaptersWriteIntent
  BY <1>1, HoldsByCommand DEF SetChaptersWriteIntent, Step, SetChaptersHolds
<1>6. CASE SetChaptersClear
  <2>1. toml' = [toml EXCEPT !.pending = NoTurn]
    BY <1>6, HoldsByCommand DEF SetChaptersClear, Step, SetChaptersHolds, Cleared
  <2>2. QED
    BY <1>2, <1>3, <2>1
<1>7. CASE ReconcileWriteIntent
  <2>1. toml' = [toml EXCEPT !.pending = ReconcileTurn]
    BY <1>7, HoldsByCommand DEF ReconcileWriteIntent, Step, ReconcileHolds
  <2>2. QED
    BY <1>2, <1>3, <2>1
<1>8. CASE ReconcileClear
  <2>1. proc.doc \in {toml, Recounted(toml, tree)} /\ toml' = [proc.doc EXCEPT !.pending = NoTurn]
    BY <1>8, HoldsByCommand DEF ReconcileClear, Step, ReconcileHolds, Cleared
  <2>2. QED
    BY <1>2, <1>3, <2>1
<1>9. QED
  BY <1>4, <1>5, <1>6, <1>7, <1>8

(* compiled.md is written by novel compile alone, from the drafts. *)
LEMMA OnlyCompileCompiles ==
    ASSUME TypeInv, [Next]_vars
    PROVE  tree'.compiled \in {tree.compiled, Concatenation(toml, tree)}
<1>1. tree \in Tree
  BY DEF TypeInv, TypeOK
<1>2. CASE SingleWrite
  BY <1>1, <1>2
  DEF SingleWrite, AdvancePhase, Recount, CompleteFinalPass, Compile, SetCursor, SetGate,
      SetFangirl, SetCriticPass, Propose, Refuse, Tree
<1>3. CASE InitSteps \/ RunInit \/ \E command \in CommandNames : MissingState(command)
  BY <1>1, <1>3 DEF InitSteps, InitWriteState, InitWriteLog, RunInit, MissingState, Refuse,
     Tree
<1>4. CASE SetChaptersSteps \/ \E plan \in PlanInputs : SetChapters(plan)
  BY <1>1, <1>4 DEF SetChaptersSteps, SetChaptersWriteIntent, SetChaptersMakeDir,
     MakeNextDir, SetChaptersReceipt, SetChaptersClear, SetChapters, Refuse, Tree
<1>5. CASE ReconcileSteps \/ Crash
  BY <1>1, <1>5 DEF ReconcileSteps, ReconcileWriteIntent, ReconcileEditCounts,
     ReconcileMakeDir, MakeNextDir, ReconcileEditNothing, ReconcileReceipt,
     ReconcileClear, Crash, Tree
<1>6. CASE Reconcile \/ ReconcileUncaught
  BY <1>1, <1>6 DEF Reconcile, ReconcileUncaught, Tree
<1>7. CASE AgentSteps
  BY <1>1, <1>7 DEF AgentSteps, AgentWritesDraft, AgentWritesPlans, AgentFlagsDone,
     EmptyDirDropped, Tree
<1>8. CASE UNCHANGED vars
  BY <1>8 DEF vars
<1>9. QED
  BY <1>2, <1>3, <1>4, <1>5, <1>6, <1>7, <1>8 DEF Next

(* On a document as finished, drafts that read the same and a compile of them, done
   answers 0 again. *)
LEMMA StaysDone ==
    ASSUME toml \in Document, tree \in Tree, DoneAnswer.exit = Success,
           AsFinished(toml'), tree'.draft = tree.draft, tree'.flags = tree.flags,
           tree'.compiled \in {tree.compiled, Concatenation(toml, tree)},
           notes' = notes, reviews' = reviews
    PROVE  DoneAnswer'.exit = Success
<1>1. /\ ~EvaluationFault(toml) /\ FailedClauses(toml) = {}
      /\ toml.phase = "done" /\ toml.gates["final_pass_complete"]
      /\ toml.manifest \subseteq tree.flags /\ KnittingGatesPassed(toml)
      /\ \A c \in toml.manifest : ~HasBlocker(c)
      /\ tree.compiled # NoFile
  BY AnsweredWell, DoneExit
<1>2. tree.compiled = Concatenation(toml, tree)
  <2>1. DoneClauses(toml)["compile_consistent"]
    BY <1>1 DEF FailedClauses, DoneClauses
  <2>2. QED
    BY <1>1, <2>1 DEF DoneClauses, Comparison
<1>3. /\ toml' \in Document /\ toml'.phase = "done" /\ toml'.manifest = toml.manifest
      /\ toml'.gates["final_pass_complete"]
      /\ tree'.compiled = tree.compiled
  BY <1>1, <1>2 DEF AsFinished, Gates
<1>4. Concatenation(toml', tree') = tree'.compiled
  BY <1>2, <1>3 DEF Concatenation, Body
<1>5. ~EvaluationFault(toml)'
  BY <1>1, <1>3
     DEF EvaluationFault, ComparisonFault, NotesFault, HasBlocker, DraftsReadable
<1>6. KnittingGatesPassed(toml)'
  <2>1. \A p \in Percentages : KnittingGateFor(p) \in Gates
    BY DEF Percentages, KnittingGateFor, Gates, KnittingGates
  <2>2. QED
    BY <1>1, <2>1 DEF KnittingGatesPassed, AsFinished
<1>7. (\A c \in toml.manifest : ~HasBlocker(c))'
  BY <1>1, <1>3 DEF HasBlocker
<1>8. (Comparison(toml) = "MATCHES")'
  BY <1>1, <1>3, <1>4 DEF Comparison
<1>9. (FailedClauses(toml) = {})'
  <2>1. /\ DoneClauses(toml)'["phase_is_done"]
        /\ DoneClauses(toml)'["final_pass_complete"]
        /\ DoneClauses(toml)'["all_chapters_flagged"]
    BY <1>1, <1>3 DEF DoneClauses
  <2>2. /\ DoneClauses(toml)'["knitting_gates_passed"]
        /\ DoneClauses(toml)'["no_unresolved_blockers"]
        /\ DoneClauses(toml)'["compile_consistent"]
    BY <1>6, <1>7, <1>8 DEF DoneClauses
  <2>3. DOMAIN DoneClauses(toml)' =
            {"phase_is_done", "final_pass_complete", "all_chapters_flagged",
             "knitting_gates_passed", "compile_consistent", "no_unresolved_blockers"}
    BY DEF DoneClauses
  <2>4. QED
    BY <2>1, <2>2, <2>3 DEF FailedClauses
<1>10. (DoneAnswer.exit = Success <=>
           toml # NoFile /\ ~EvaluationFault(toml) /\ FailedClauses(toml) = {})'
  BY DoneExit, PTL
<1>11. QED
  BY <1>3, <1>5, <1>9, <1>10, NoFileAssumption

(* No step of a command, whole or killed, takes done back from exit 0. *)
LEMMA StepKeepsDone ==
    ASSUME Inv, ProcessHolds, [DoneNext]_doneVars,
           tree'.draft = tree.draft, tree'.flags = tree.flags,
           notes' = notes, reviews' = reviews,
           DoneAnswer.exit = Success, ~ClosesGate
    PROVE  DoneAnswer'.exit = Success
<1>1. /\ toml # NoFile /\ toml.phase = "done" /\ toml \in Document /\ tree \in Tree
      /\ TypeInv
  BY AnsweredWell DEF Inv, TypeInv, TypeOK
<1>2. [Next]_vars
  BY DEF DoneNext, doneVars, vars, CriticWritesNotes, ReviewerWrites
<1>3. AsFinished(toml')
  <2>1. CASE toml' = toml
    BY <1>1, <2>1 DEF AsFinished
  <2>2. CASE SingleWrite
    BY <1>1, <2>2, SingleWriteFinished
  <2>3. CASE toml' # toml /\ ~SingleWrite
    BY <1>1, <1>2, <2>3, TurnsFinished, WhoWrites
  <2>4. QED
    BY <2>1, <2>2, <2>3
<1>4. QED
  BY <1>1, <1>2, <1>3, OnlyCompileCompiles, StaysDone

(* No command takes a finished novel back, killed or not, but a set-gate that closes
   a gate. *)
THEOREM DoneIsKept == DoneSpec => CommandsNeverUndoDone
<1> DEFINE Kept ==
        /\ tree'.draft = tree.draft /\ tree'.flags = tree.flags
        /\ notes' = notes /\ reviews' = reviews
        /\ DoneAnswer.exit = Success
        /\ ~ClosesGate
        => DoneAnswer'.exit = Success
<1>1. Inv /\ ProcessHolds /\ [DoneNext]_doneVars => [Kept]_doneVars
  BY StepKeepsDone
<1>2. DoneSpec => [](Inv /\ ProcessHolds)
  BY DoneImplementsHarness, TurnInvAlways, PTL
<1>3. QED
  BY <1>1, <1>2, PTL DEF DoneSpec, CommandsNeverUndoDone
=============================================================================
