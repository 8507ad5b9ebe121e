--------------------------------- MODULE Done ---------------------------------
(***************************************************************************)
(* novel done (state/done_predicate.py, state/_blocker_notes.py,           *)
(* commands/_novel_done.py) and novel compile --check (_compile.py), over  *)
(* the trees the mutators, the drafting agent, the critic and the knitting *)
(* reviewer leave behind.                                                  *)
(*                                                                         *)
(* critic-notes.md is kept as the kinds of its lines: the blocker scan     *)
(* tells section headings, blocker findings and resolved findings apart    *)
(* from everything else.                                                   *)
(***************************************************************************)
EXTENDS Contract

CONSTANTS
    NoteInputs,    \* the <<chapter, notes>> pairs the critic may write
    ReviewInputs   \* the sets of reviews/knitting-NN.md the reviewer may leave

(* A "## BLOCKER" heading, any other "## " heading, a "### B" finding without and
   with the [resolved] suffix, and every other line. *)
NoteLines == {"blocker-heading", "other-heading", "finding", "resolved-finding", "text"}

NotesFiles == Seq(NoteLines) \cup {NoFile, Corrupt}

Percentages == {30, 50, 80}

ASSUME NotesAssumption ==
    /\ NoteInputs \subseteq Chapters \X NotesFiles
    /\ ReviewInputs \subseteq SUBSET Percentages

VARIABLES
    notes,     \* critic-notes.md of each chapter
    reviews    \* the knitting reviews under working/reviews/

doneVars == <<toml, tree, proc, outcome, notes, reviews>>

-----------------------------------------------------------------------------
(* The blocker scan. *)

Heading(line) == line \in {"blocker-heading", "other-heading"}

MutantUnresolvedBlocker(body) ==   \* a section never ends
    LET open[i \in 0..Len(body)] == i > 0 /\ (open[i - 1] \/ body[i] = "blocker-heading")
    IN  \E i \in DOMAIN body : body[i] = "finding" /\ open[i]

(* The scan of the lines: a heading opens the blocker section or ends it, and in it
   a finding without the [resolved] suffix is unresolved. *)
UnresolvedBlocker(body) ==
    LET open[i \in 0..Len(body)] ==
            IF i > 0 /\ Heading(body[i]) THEN body[i] = "blocker-heading"
                                         ELSE i > 0 /\ open[i - 1]
    IN  \E i \in DOMAIN body : body[i] = "finding" /\ open[i]

(* An absent notes file holds no blocker. *)
HasBlocker(c) == notes[c] \notin {NoFile, Corrupt} /\ UnresolvedBlocker(notes[c])

(* The chapters are scanned in order up to the first blocker, so notes that do
   not decode after one are never opened. *)
NotesFault(doc) ==
    \E c \in doc.manifest :
        notes[c] = Corrupt /\ \A b \in doc.manifest : b < c => ~HasBlocker(b)

-----------------------------------------------------------------------------
(* compiled_matches_drafts: an absent compiled.md is seen before any draft is
   read. *)

ComparisonFault(doc) == tree.compiled # NoFile /\ ~DraftsReadable(doc, tree)

Comparison(doc) ==
    IF tree.compiled = NoFile                      THEN "ABSENT"
    ELSE IF tree.compiled = Concatenation(doc, tree) THEN "MATCHES"
    ELSE "DIVERGES"

-----------------------------------------------------------------------------
(* The six clauses of evaluate_done, in their order. *)

ClauseNames == << "phase_is_done", "final_pass_complete", "all_chapters_flagged",
                  "knitting_gates_passed", "compile_consistent",
                  "no_unresolved_blockers" >>

KnittingGateFor(p) == CASE p = 30 -> "done_30" [] p = 50 -> "done_50" [] p = 80 -> "done_80"

KnittingGatesPassed(doc) ==
    \A p \in Percentages : doc.gates[KnittingGateFor(p)] /\ p \in reviews

DoneClauses(doc) ==
    [phase_is_done          |-> doc.phase = "done",
     final_pass_complete    |-> doc.gates["final_pass_complete"],
     all_chapters_flagged   |-> doc.manifest \subseteq tree.flags,
     knitting_gates_passed  |-> KnittingGatesPassed(doc),
     compile_consistent     |-> Comparison(doc) = "MATCHES",
     no_unresolved_blockers |-> \A c \in doc.manifest : ~HasBlocker(c)]

FailedClauses(doc) == {name \in DOMAIN DoneClauses(doc) : ~DoneClauses(doc)[name]}

InOrder(failed) == SelectSeq(ClauseNames, LAMBDA name : name \in failed)

MutantEvaluationFault(doc) == ComparisonFault(doc)   \* unreadable notes are skipped

EvaluationFault(doc) == ComparisonFault(doc) \/ NotesFault(doc)

MutantSoleStaleCompile(failed) ==   \* stale, whatever else is missing
    "compile_consistent" \in failed /\ tree.compiled # NoFile

SoleStaleCompile(failed) ==
    failed = {"compile_consistent"} /\ tree.compiled # NoFile

(* novel done: done, one regeneration away from done, or not done. *)
DoneBody(doc) ==
    LET failed == FailedClauses(doc)
    IN  IF EvaluationFault(doc) THEN StateFault
        ELSE IF failed = {} THEN Returned(Success, << >>)
        ELSE IF SoleStaleCompile(failed) THEN Returned(ActionableFinding, InOrder(failed))
        ELSE Returned(BenignNegative, InOrder(failed))

DoneAnswer == Run("novel done", WithState(DoneBody(toml)))

MutantCompileCheckBody(doc) ==   \* nothing compiled, nothing to diverge
    IF doc.manifest = {} \/ ComparisonFault(doc) THEN StateFault
    ELSE IF Comparison(doc) = "DIVERGES" THEN Returned(ActionableFinding, << >>)
    ELSE Returned(Success, << >>)

(* novel compile --check. *)
CompileCheckBody(doc) ==
    IF doc.manifest = {} \/ ComparisonFault(doc) THEN StateFault
    ELSE IF Comparison(doc) = "MATCHES" THEN Returned(Success, << >>)
    ELSE Returned(ActionableFinding, << >>)

CompileCheckAnswer == Run("novel compile", WithState(CompileCheckBody(toml)))

-----------------------------------------------------------------------------
(* The critic and the reviewer write their files between commands. *)

CriticWritesNotes(chapter, body) ==
    /\ proc = Idle /\ toml # NoFile /\ toml.phase \in DraftPhases
    /\ chapter \in tree.dirs
    /\ notes' = [notes EXCEPT ![chapter] = body]
    /\ UNCHANGED <<vars, reviews>>

ReviewerWrites(percentages) ==
    /\ proc = Idle /\ toml # NoFile /\ toml.phase \in DraftPhases
    /\ reviews' = percentages
    /\ UNCHANGED <<vars, notes>>

DoneInit ==
    /\ Init
    /\ notes = [c \in Chapters |-> NoFile]
    /\ reviews = {}

DoneNext ==
    \/ Next /\ UNCHANGED <<notes, reviews>>
    \/ \E n \in NoteInputs : CriticWritesNotes(n[1], n[2])
    \/ \E r \in ReviewInputs : ReviewerWrites(r)

DoneSpec == DoneInit /\ [][DoneNext]_doneVars
-----------------------------------------------------------------------------
(* Properties. *)

(* check, compile --check and done judge compiled.md alike when it is there: check
   reports it exactly when --check exits 4, and --check exits 0 exactly when done
   counts it as consistent.  An absent one is no evidence to check, stale to the
   other two. *)
CompileReadersAgree ==
    toml # NoFile /\ toml.manifest # {} /\ DraftsReadable(toml, tree) =>
        LET reported == "compiled-matches-drafts" \in CheckDiskEvidence(toml, tree, TRUE)
        IN  /\ reported <=> CompileCheckAnswer.exit = ActionableFinding
                                /\ tree.compiled # NoFile
            /\ CompileCheckAnswer.exit = Success <=> DoneClauses(toml).compile_consistent

(* Exit 4 from done promises that regenerating the compile is all that is left:
   the novel compile that follows makes done exit 0, and is never refused. *)
StaleCompileIsRegenerable ==
    [][Compile /\ DoneAnswer.exit = ActionableFinding
           => DoneAnswer'.exit = Success]_doneVars

ClosesGate == \E chosen \in GateInputs :
                  (\E g \in DOMAIN chosen : ~chosen[g]) /\ SetGate(chosen)

(* A finished novel stays finished: no command takes done back from exit 0, but a
   set-gate that closes a gate.  Otherwise a draft, a flag, a note or a review has
   to change. *)
CommandsNeverUndoDone ==
    [][/\ tree'.draft = tree.draft /\ tree'.flags = tree.flags
       /\ notes' = notes /\ reviews' = reviews
       /\ DoneAnswer.exit = Success
       /\ ~ClosesGate
       => DoneAnswer'.exit = Success]_doneVars

(* Nothing is finished on a file that was not read: when done exits 0 or 4 every
   draft and every critic-notes.md of the manifest decodes, although the notes are
   opened only up to the first blocker and, without a compile, no draft is. *)
NothingUnreadIsDone ==
    DoneAnswer.exit \in {Success, ActionableFinding} =>
        /\ DraftsReadable(toml, tree)
        /\ \A c \in toml.manifest : notes[c] # Corrupt
=============================================================================
