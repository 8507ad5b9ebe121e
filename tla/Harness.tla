-------------------------------- MODULE Harness --------------------------------
(***************************************************************************)
(* The novel state mutators and novel compile over one working/ tree.      *)
(*                                                                         *)
(* Every command is a process that loads state.toml, edits the document in *)
(* memory, validates it and writes it with one atomic rename.  A command   *)
(* with that single write is one action.  init, set-chapters and reconcile *)
(* write more than once: each of their writes is an action of its own, and *)
(* the process may be killed between any two (Crash).  One drafting agent  *)
(* runs the commands one at a time and edits the drafts in between.        *)
(***************************************************************************)
EXTENDS Reconciliation

CONSTANTS
    Commands,        \* the commands the agent uses in this instance
    CrashIn,         \* the commands that may be killed
    PlanInputs,      \* the chapter plans given to set-chapters
    CursorInputs, GateInputs, FangirlInputs, PassInputs,
    DraftPhases,     \* the phases in which the agent writes drafts
    DraftWrites,     \* the <<chapter, body>> pairs it may write
    PlanChapters, FlagChapters,  \* chapters it plans and flags done
    DroppedDirs      \* chapters whose empty directory may be dropped

ASSUME InputsAssumption ==
    /\ CursorInputs \subseteq Cursor
    /\ GateInputs \subseteq UNION {[chosen -> BOOLEAN] : chosen \in SUBSET Gates}
    /\ FangirlInputs \subseteq Int /\ PassInputs \subseteq Int
    /\ PlanInputs \subseteq Seq([number : Int, slug : STRING, target : Int])
    /\ DraftWrites \subseteq Chapters \X (Texts \cup {Corrupt})
    /\ PlanChapters \subseteq Chapters /\ FlagChapters \subseteq Chapters
    /\ DroppedDirs \subseteq Chapters

VARIABLES
    toml,      \* working/state.toml, or NoFile
    tree,      \* the rest of working/
    proc,      \* the command in progress
    outcome    \* how the last command ended, until the agent edits the tree

vars == <<toml, tree, proc, outcome>>

CommandNames == {"init", "set-cursor", "advance-phase", "recount", "reconcile",
                 "set-chapters", "set-gate", "complete-final-pass", "set-fangirl",
                 "set-critic-pass", "compile"}

-----------------------------------------------------------------------------
(* Exit codes (contract/exit_codes.py); Killed is a process that ended without
   one. *)
Success == 0
Uncaught == 1
UsageError == 2
StateError == 3
ActionableFinding == 4
Killed == -1

Outcome == [command : CommandNames \cup {"none"}, code : -1..4]

End(command, code) == outcome' = [command |-> command, code |-> code]

(* The command in progress: the step it is at, the document it holds in memory,
   the repair it enacts, the chapter directories it has still to create and the
   document it found. *)
Idle == [command |-> "none", step |-> "idle", doc |-> InitialDocument,
         repair |-> "none", todo |-> {}, found |-> NoFile]

Running(command, step, doc, repair, todo) ==
    [command |-> command, step |-> step, doc |-> doc,
     repair |-> repair, todo |-> todo, found |-> toml]

Step(name, command) == proc.step = name /\ proc.command = command

Ready(command) == command \in Commands /\ proc = Idle

Loaded(command) == Ready(command) /\ toml # NoFile

MutantPropose(command, doc) ==   \* not validated
    toml' = doc /\ End(command, Success) /\ UNCHANGED <<tree, proc>>

(* Validate before persist: write the proposed document, or refuse. *)
Propose(command, doc) ==
    /\ \/ ValidateState(doc) /\ toml' = doc /\ End(command, Success)
       \/ ~ValidateState(doc) /\ toml' = toml /\ End(command, StateError)
    /\ UNCHANGED <<tree, proc>>

Refuse(command) == End(command, StateError) /\ UNCHANGED <<toml, tree, proc>>

(* Every command but init refuses a tree without state.toml.  A set-gate that names no
   gate is a usage error before it looks for the file. *)
MissingState(command) ==
    /\ Ready(command) /\ command # "init" /\ toml = NoFile
    /\ UNCHANGED <<toml, tree, proc>>
    /\ \/ End(command, StateError)
       \/ /\ command = "set-gate" /\ \E chosen \in GateInputs : DOMAIN chosen = {}
          /\ End(command, UsageError)

-----------------------------------------------------------------------------
(* init: state.toml first, log.md second. *)

RunInit ==
    /\ Ready("init")
    /\ \/ toml # NoFile /\ Refuse("init")
       \/ /\ toml = NoFile
          /\ proc' = Running("init", "write-state", InitialDocument, "none", {})
          /\ UNCHANGED <<toml, tree, outcome>>

InitWriteState ==
    /\ Step("write-state", "init")
    /\ toml' = proc.doc
    /\ proc' = [proc EXCEPT !.step = "write-log"]
    /\ UNCHANGED <<tree, outcome>>

InitWriteLog ==
    /\ Step("write-log", "init")
    /\ tree' = [tree EXCEPT !.log = "empty"]
    /\ proc' = Idle
    /\ End("init", Success)
    /\ UNCHANGED toml

-----------------------------------------------------------------------------
(* The single-write mutators. *)

SetCursor(cursor) ==
    /\ Loaded("set-cursor")
    /\ Propose("set-cursor", [toml EXCEPT !.cursor = cursor])

Successor(phase) == PhaseOrder[PhaseIndex(phase) + 1]

MutantCannotAdvance(doc) == ~ValidateState(doc) \/ doc.phase = "done"   \* no manifest gate

CannotAdvance(doc) ==
    \/ ~ValidateState(doc)
    \/ doc.phase = "done"
    \/ doc.phase # "done" /\ Successor(doc.phase) = "drafting" /\ doc.manifest = {}

AdvancePhase ==
    /\ Loaded("advance-phase")
    /\ \/ CannotAdvance(toml) /\ Refuse("advance-phase")
       \/ /\ ~CannotAdvance(toml)
          /\ Propose("advance-phase",
                     [toml EXCEPT !.completed = Append(@, toml.phase),
                                  !.phase = Successor(toml.phase)])

MutantRecountedMerged(doc, disk) ==   \* a table updated in place keeps stale keys
    LET words == RecountWords(doc, disk)
        keys  == doc.manifest \cup DOMAIN doc.byChapter
        table == [c \in keys |-> IF c \in doc.manifest THEN words[c] ELSE doc.byChapter[c]]
    IN  [doc EXCEPT !.byChapter = table, !.current = Total(table)]

MutantRecountedRewound(doc, disk) ==   \* the cursor is sent back to the start
    [doc EXCEPT !.byChapter = RecountWords(doc, disk),
                !.current = Total(RecountWords(doc, disk)), !.cursor.scene = 0]

(* word_counts rewritten from the drafts. *)
Recounted(doc, disk) ==
    [doc EXCEPT !.byChapter = RecountWords(doc, disk),
                !.current = Total(RecountWords(doc, disk))]

Recount ==
    /\ Loaded("recount")
    /\ \/ ~DraftsReadable(toml, tree) /\ Refuse("recount")
       \/ DraftsReadable(toml, tree) /\ Propose("recount", Recounted(toml, tree))

MutantWithGates(doc, chosen) ==   \* a gate no flag names is closed
    [doc EXCEPT !.gates = [g \in Gates |-> g \in DOMAIN chosen /\ chosen[g]]]
WithGates(doc, chosen) ==
    [doc EXCEPT !.gates = [g \in Gates |-> IF g \in DOMAIN chosen THEN chosen[g] ELSE @[g]]]

(* chosen holds the gates the flags name; naming none is a usage error. *)
SetGate(chosen) ==
    /\ Loaded("set-gate")
    /\ \/ /\ DOMAIN chosen = {}
          /\ End("set-gate", UsageError)
          /\ UNCHANGED <<toml, tree, proc>>
       \/ /\ DOMAIN chosen # {}
          /\ Propose("set-gate", WithGates(toml, chosen))

CompleteFinalPass ==
    /\ Loaded("complete-final-pass")
    /\ Propose("complete-final-pass", [toml EXCEPT !.gates["final_pass_complete"] = TRUE])

SetFangirl(chapter) ==
    /\ Loaded("set-fangirl")
    /\ LET inManifest == chapter \in 0..Cardinality(toml.manifest)
       IN  \/ ~inManifest /\ Refuse("set-fangirl")
           \/ inManifest /\ Propose("set-fangirl", [toml EXCEPT !.fangirl = chapter])

SetCriticPass(pass) ==
    /\ Loaded("set-critic-pass")
    /\ \/ pass < 1 /\ Refuse("set-critic-pass")
       \/ pass >= 1 /\ Propose("set-critic-pass", [toml EXCEPT !.pass = pass])

(* novel compile: compiled.md is replaced atomically; state.toml is only read. *)
Compile ==
    /\ Loaded("compile")
    /\ LET refused == toml.manifest = {} \/ ~DraftsReadable(toml, tree)
       IN  \/ refused /\ Refuse("compile")
           \/ /\ ~refused
              /\ tree' = [tree EXCEPT !.compiled = Concatenation(toml, tree)]
              /\ End("compile", Success)
              /\ UNCHANGED <<toml, proc>>

-----------------------------------------------------------------------------
(* set-chapters: manifest and intent in one write, then the directories, the
   receipt and the clear. *)

PlanNumbers(plan) == {plan[i].number : i \in DOMAIN plan}

PlanCoherent(plan) ==
    /\ plan # << >>
    /\ PlanNumbers(plan) = 1..Len(plan)
    /\ Cardinality({plan[i].slug : i \in DOMAIN plan}) = Len(plan)
    /\ \A i \in DOMAIN plan : plan[i].target >= 1

MutantPlanned(doc, plan) ==   \* the table is not seeded
    [doc EXCEPT !.manifest = PlanNumbers(plan)]

Planned(doc, plan) ==
    [doc EXCEPT !.manifest = PlanNumbers(plan),
                !.byChapter = [c \in PlanNumbers(plan) |-> 0]]

(* Chapters is wide enough for every plan the agent may supply. *)
ASSUME PlansAssumption ==
    \A plan \in PlanInputs : PlanCoherent(plan) => PlanNumbers(plan) \subseteq Chapters

MutantDeclaredPaths(manifest) ==   \* chapters counted from zero
    {Path("state.toml", 0)} \cup {Path("chapter", c - 1) : c \in manifest}
DeclaredPaths(manifest) ==
    {Path("state.toml", 0)} \cup {Path("chapter", c) : c \in manifest}

MutantCannotPlan(doc, plan) ==   \* a second plan is accepted
    ~PlanCoherent(plan) \/ ~ValidateState(Planned(doc, plan))

CannotPlan(doc, plan) ==
    \/ doc.manifest # {}
    \/ ~PlanCoherent(plan)
    \/ ~ValidateState(Planned(doc, plan))

MutantSetChapters(plan) ==   \* the plan is written without the turn
    /\ Loaded("set-chapters")
    /\ LET proposed == Planned(toml, plan)
       IN  \/ CannotPlan(toml, plan) /\ Refuse("set-chapters")
           \/ /\ ~CannotPlan(toml, plan)
              /\ proc' = Running("set-chapters", "write-intent", proposed,
                                 "none", proposed.manifest)
              /\ UNCHANGED <<toml, tree, outcome>>

SetChapters(plan) ==
    /\ Loaded("set-chapters")
    /\ LET proposed == Planned(toml, plan)
           turn     == [operation |-> "set-chapters",
                        paths |-> DeclaredPaths(proposed.manifest)]
       IN  \/ CannotPlan(toml, plan) /\ Refuse("set-chapters")
           \/ /\ ~CannotPlan(toml, plan)
              /\ proc' = Running("set-chapters", "write-intent",
                                 [proposed EXCEPT !.pending = turn],
                                 "none", proposed.manifest)
              /\ UNCHANGED <<toml, tree, outcome>>

SetChaptersWriteIntent ==
    /\ Step("write-intent", "set-chapters")
    /\ toml' = proc.doc
    /\ proc' = [proc EXCEPT !.step = "make-dirs"]
    /\ UNCHANGED <<tree, outcome>>

(* Ascending order; a directory that exists already is left as it is. *)
MakeNextDir(next) ==
    \E c \in proc.todo :
        /\ \A d \in proc.todo : c <= d
        /\ tree' = [tree EXCEPT !.dirs = @ \cup {c}]
        /\ proc' = [proc EXCEPT !.todo = @ \ {c},
                                !.step = IF proc.todo = {c} THEN next ELSE @]
        /\ UNCHANGED <<toml, outcome>>

MutantSetChaptersMakeDir ==   \* the record is cleared with no receipt
    Step("make-dirs", "set-chapters") /\ MakeNextDir("clear")
SetChaptersMakeDir == Step("make-dirs", "set-chapters") /\ MakeNextDir("receipt")

SetChaptersReceipt ==
    /\ Step("receipt", "set-chapters")
    /\ tree' = [tree EXCEPT !.log = "set-chapters"]
    /\ proc' = [proc EXCEPT !.step = "clear"]
    /\ UNCHANGED <<toml, outcome>>

(* clear_pending_turn. *)
MutantCleared(doc) == doc   \* the record stays
Cleared(doc) == [doc EXCEPT !.pending = NoTurn]

SetChaptersClear ==
    /\ Step("clear", "set-chapters")
    /\ toml' = Cleared(proc.doc)
    /\ proc' = Idle
    /\ End("set-chapters", Success)
    /\ UNCHANGED tree

-----------------------------------------------------------------------------
(* reconcile: intent, edit, receipt, clear. *)

ReconcileTurn == [operation |-> "reconcile",
                  paths |-> {Path("state.toml", 0), Path("log.md", 0)}]

(* An unreadable draft escapes derive_reconciliation uncaught. *)
ReconcileUncaught ==
    /\ Loaded("reconcile") /\ ~DraftsReadable(toml, tree)
    /\ End("reconcile", Uncaught)
    /\ UNCHANGED <<toml, tree, proc>>

Reconcile ==
    /\ Loaded("reconcile") /\ DraftsReadable(toml, tree)
    /\ LET repair == DeriveReconciliation(toml, tree)
           logged == tree' = [tree EXCEPT !.log = repair.action]
       IN  \/ /\ repair.action = "none"
              /\ End("reconcile", Success)
              /\ UNCHANGED <<toml, tree, proc>>
           \/ /\ repair.action = "refuse" /\ logged
              /\ End("reconcile", ActionableFinding)
              /\ UNCHANGED <<toml, proc>>
           \/ /\ repair.action = "recreate-log" /\ logged
              /\ End("reconcile", Success)
              /\ UNCHANGED <<toml, proc>>
           \/ /\ repair.action \notin {"none", "refuse", "recreate-log"}
              /\ proc' = Running("reconcile", "write-intent", toml,
                                 repair.action, ChapterNumbers(repair.missing))
              /\ UNCHANGED <<toml, tree, outcome>>

(* reconcile's own record replaces the one it found. *)
ReconcileWriteIntent ==
    /\ Step("write-intent", "reconcile")
    /\ LET doc == [proc.doc EXCEPT !.pending = ReconcileTurn]
       IN  toml' = doc /\ proc' = [proc EXCEPT !.step = "edit", !.doc = doc]
    /\ UNCHANGED <<tree, outcome>>

(* The counts are edited in memory; when the result is incoherent the command
   ends with exit 3 here, after its first write. *)
ReconcileEditCounts ==
    /\ Step("edit", "reconcile") /\ proc.repair = "recount"
    /\ LET doc == Recounted(proc.doc, tree)
       IN  \/ /\ ValidateState(doc)
              /\ proc' = [proc EXCEPT !.step = "receipt", !.doc = doc]
              /\ UNCHANGED outcome
           \/ /\ ~ValidateState(doc)
              /\ proc' = Idle
              /\ End("reconcile", StateError)
    /\ UNCHANGED <<toml, tree>>

CompletesSetChapters ==
    proc.repair = "complete-pending-turn" /\ proc.found.pending.operation = "set-chapters"

ReconcileMakeDir ==
    Step("edit", "reconcile") /\ CompletesSetChapters /\ MakeNextDir("receipt")

(* A turn with nothing left to create: only its record is cleared. *)
ReconcileEditNothing ==
    /\ Step("edit", "reconcile") /\ proc.repair # "recount"
    /\ CompletesSetChapters => proc.todo = {}
    /\ proc' = [proc EXCEPT !.step = "receipt"]
    /\ UNCHANGED <<toml, tree, outcome>>

ReconcileReceipt ==
    /\ Step("receipt", "reconcile")
    /\ tree' = [tree EXCEPT !.log = proc.repair]
    /\ proc' = [proc EXCEPT !.step = "clear"]
    /\ UNCHANGED <<toml, outcome>>

ReconcileClear ==
    /\ Step("clear", "reconcile")
    /\ toml' = Cleared(proc.doc)
    /\ proc' = Idle
    /\ End("reconcile", Success)
    /\ UNCHANGED tree

-----------------------------------------------------------------------------
(* The process is killed between two of its steps. *)
Crash ==
    /\ proc # Idle /\ proc.command \in CrashIn
    /\ proc' = Idle
    /\ End(proc.command, Killed)
    /\ UNCHANGED <<toml, tree>>

(* The drafting agent's edits, made while no command runs. *)

AgentEdits ==
    /\ proc = Idle /\ toml # NoFile
    /\ End("none", Success)
    /\ UNCHANGED <<toml, proc>>

AgentWritesDraft(chapter, text) ==
    /\ AgentEdits /\ toml.phase \in DraftPhases
    /\ tree' = [tree EXCEPT !.dirs = @ \cup {chapter}, !.draft[chapter] = text]

AgentWritesPlans(chapter) ==
    /\ AgentEdits /\ chapter \in tree.dirs
    /\ tree' = [tree EXCEPT !.scenes = @ \cup {chapter}, !.beats = @ \cup {chapter}]

AgentFlagsDone(chapter) ==
    /\ AgentEdits /\ chapter \in tree.dirs
    /\ tree' = [tree EXCEPT !.flags = @ \cup {chapter}]

(* A directory with nothing in it does not survive a commit and a checkout. *)
EmptyDirDropped(chapter) ==
    /\ AgentEdits /\ chapter \in tree.dirs
    /\ tree.draft[chapter] = NoFile
    /\ chapter \notin tree.flags \cup tree.scenes \cup tree.beats
    /\ tree' = [tree EXCEPT !.dirs = @ \ {chapter}]

-----------------------------------------------------------------------------
Init ==
    /\ toml = NoFile
    /\ tree = EmptyTree
    /\ proc = Idle
    /\ outcome = [command |-> "none", code |-> Success]

SingleWrite ==
    \/ AdvancePhase \/ Recount \/ CompleteFinalPass \/ Compile
    \/ \E cursor \in CursorInputs : SetCursor(cursor)
    \/ \E chosen \in GateInputs : SetGate(chosen)
    \/ \E chapter \in FangirlInputs : SetFangirl(chapter)
    \/ \E pass \in PassInputs : SetCriticPass(pass)

InitSteps == InitWriteState \/ InitWriteLog

SetChaptersSteps ==
    \/ SetChaptersWriteIntent \/ SetChaptersMakeDir
    \/ SetChaptersReceipt \/ SetChaptersClear

ReconcileSteps ==
    \/ ReconcileWriteIntent \/ ReconcileEditCounts \/ ReconcileMakeDir
    \/ ReconcileEditNothing \/ ReconcileReceipt \/ ReconcileClear

AgentSteps ==
    \/ \E w \in DraftWrites : AgentWritesDraft(w[1], w[2])
    \/ \E c \in PlanChapters : AgentWritesPlans(c)
    \/ \E c \in FlagChapters : AgentFlagsDone(c)
    \/ \E c \in DroppedDirs : EmptyDirDropped(c)

Next ==
    \/ \E command \in CommandNames : MissingState(command)
    \/ SingleWrite
    \/ RunInit \/ InitSteps
    \/ \E plan \in PlanInputs : SetChapters(plan)
    \/ SetChaptersSteps
    \/ Reconcile \/ ReconcileUncaught \/ ReconcileSteps
    \/ Crash
    \/ AgentSteps

Spec == Init /\ [][Next]_vars

-----------------------------------------------------------------------------
(* Properties. *)

Process ==
    [command : CommandNames \cup {"none"},
     step : {"idle", "write-state", "write-log", "write-intent", "make-dirs",
             "edit", "receipt", "clear"},
     doc : Document, repair : Actions, todo : SUBSET Chapters,
     found : Document \cup {NoFile}]

(* Type invariant: every state file is one parse_state accepts. *)
TypeOK ==
    /\ toml \in Document \cup {NoFile}
    /\ tree \in Tree
    /\ proc \in Process
    /\ outcome \in Outcome

(* Whatever the mutators are given, and wherever they are killed, the state.toml
   they leave satisfies every pure-state invariant (validate before persist). *)
StateCoherent == toml # NoFile => ValidateState(toml)

(* by_chapter has exactly the manifest's keys, and the manifest is contiguous
   from 1: what set-chapters seeds no recount and no recovery ever loses. *)
TableKeyedByManifest ==
    toml # NoFile =>
        DOMAIN toml.byChapter = toml.manifest /\ Contiguous(toml.manifest)

(* Drafting is never entered, nor left forward, without a chapter manifest. *)
DraftingHasPlan ==
    toml # NoFile /\ toml.phase \in {"drafting", "final-pass", "done"}
        => toml.manifest # {}

(* The manifest is written once: no command, no killed command and no recovery
   changes a populated one. *)
PlanImmutable ==
    [][toml # NoFile /\ toml.manifest # {}
           => toml' # NoFile /\ toml'.manifest = toml.manifest]_vars

(* The life of a novel as state.toml tells it. *)
LifePhase == IF toml = NoFile THEN 0 ELSE PhaseIndex(toml.phase)
LifePlan  == IF toml = NoFile THEN {} ELSE toml.manifest
LifeTurn  == IF toml = NoFile THEN "none" ELSE toml.pending.operation

Life == INSTANCE Lifecycle WITH phase <- LifePhase, plan <- LifePlan, turn <- LifeTurn

(* Whatever is run, refused or killed, state.toml tells the life of one novel: begun
   and planned once, its phases taken one at a time, not drafted before it is planned,
   the plan first written with the turn that declares its directories. *)
ImplementsLifecycle == Life!Spec

TornPlan == toml # NoFile /\ toml.pending.operation = "set-chapters"

(* A set-chapters turn killed anywhere after its first write is one reconcile
   completes, and the directories it will create are the ones that are missing,
   unless the tree has an orphan directory or a second contradiction. *)
TornPlanCompletes ==
    /\ TornPlan
    /\ Orphans(toml, tree) = {}
    /\ CheckDiskEvidence(toml, tree, FALSE) \cap RefuseClass
           \subseteq {"manifest-disk-bijection"}
    => LET repair == DeriveReconciliation(toml, tree)
       IN  /\ repair.action = "complete-pending-turn"
           /\ ChapterNumbers(repair.missing) = Missing(toml, tree)

(* A turn's record is cleared only once its receipt is the last line of log.md. *)
ReceiptBeforeClear ==
    [][toml # NoFile /\ toml.pending # NoTurn /\ toml'.pending = NoTurn
           => tree.log = IF proc.command = "reconcile" THEN proc.repair
                                                      ELSE proc.command]_vars

(* The step in which a command ends with this outcome. *)
Ends(command, codes) ==
    /\ outcome' # outcome \/ proc' # proc
    /\ proc' = Idle /\ outcome'.command = command /\ outcome'.code \in codes

FoundState == IF proc = Idle THEN toml ELSE proc.found

(* A mutator that exits 1, 2 or 3 leaves state.toml as it found it. *)
NonZeroExitWritesNothing ==
    [][\A command \in CommandNames :
           Ends(command, {Uncaught, UsageError, StateError}) => toml' = FoundState]_vars

(* With a positive target no sequence of commands ever opens a knitting gate:
   recount refuses the counts that reach a threshold while the gate is false,
   and set-gate refuses the gate while the recorded counts are below it. *)
KnittingGatesNeverOpen ==
    Target > 0 /\ toml # NoFile => \A g \in KnittingGates : ~toml.gates[g]

(* What recount's refusal prescribes: when it has just refused because the drafts
   have passed thresholds whose gates are false, set-gate accepts those gates. *)
GateRemedyAccepted ==
    outcome = [command |-> "recount", code |-> StateError] /\ toml # NoFile
        /\ DraftsReadable(toml, tree) =>
        LET counted == Recounted(toml, tree)
            lagging == {g \in KnittingGates :
                            Crossed(g, counted.byChapter) /\ ~toml.gates[g]}
        IN  lagging # {} =>
                ValidateState(WithGates(toml, [g \in lagging |-> TRUE]))

(* The turn of a killed command is never one reconcile refuses. *)
InterruptedTurnNeverRefused ==
    toml # NoFile /\ toml.pending # NoTurn /\ proc = Idle
        => DeriveReconciliation(toml, tree).action # "refuse"

(* check and reconcile read one tree the same way: a tree check passes needs no
   repair, but for the drafting subset ADR 009 lets check accept, and a tree that
   needs no repair passes check. *)
CheckAgreesWithReconcile ==
    toml # NoFile /\ DraftsReadable(toml, tree) =>
        LET repair == DeriveReconciliation(toml, tree).action
        IN  /\ CheckExit(toml, tree) = 0 =>
                   repair = "none" \/ (DraftingSubset(toml, tree) /\ repair = "refuse")
            /\ repair = "none" => CheckExit(toml, tree) = 0

(* reconcile that exits 0 leaves a tree a second reconcile has nothing to do on,
   whatever was killed before it; but after a turn it completed or rolled back the
   counts, which its ladder looks at later, may still be behind the drafts. *)
ReconcileSettles ==
    outcome = [command |-> "reconcile", code |-> Success] /\ proc = Idle =>
        LET second == DeriveReconciliation(toml, tree).action
        IN  \/ second = "none"
            \/ /\ second = "recount"
               /\ tree.log \in {"complete-pending-turn", "rollback-pending-turn"}

(* A draft that cannot be read ends reconcile with exit 3, never with exit 1. *)
ReconcileFaultIsStateError == [][~Ends("reconcile", {Uncaught})]_vars
=============================================================================
