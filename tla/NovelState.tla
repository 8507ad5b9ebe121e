------------------------------ MODULE NovelState ------------------------------
(***************************************************************************)
(* The typed view of working/state.toml (state/schema.py) and the          *)
(* pure-state validator every mutator runs before it writes                *)
(* (state/validate.py).  A document is a record; the operators take it as  *)
(* an argument, as the Python functions take a State.                      *)
(*                                                                         *)
(* Data that no check reads is left out: the novel's metadata, the slug,   *)
(* title and target_words of a planned chapter, and the critic's finding   *)
(* counts.  set-chapters keeps the manifest duplicate-free and ascending,  *)
(* so it is kept as the set of its chapter numbers.                        *)
(***************************************************************************)
EXTENDS Integers, Sequences, FiniteSets

CONSTANTS
    Chapters,   \* the chapter numbers a manifest or a directory may carry
    Target,     \* word_counts.target, fixed by init
    WordCounts, \* the numbers of words a draft may have
    NoFile      \* stands for a file that is not on disk

ASSUME ChaptersAssumption == Chapters \subseteq Nat \ {0} /\ IsFiniteSet(Chapters)
ASSUME WordsAssumption == Target \in Int /\ WordCounts \subseteq Nat /\ 0 \in WordCounts

-----------------------------------------------------------------------------
(* The lifecycle phases, in order. *)

PhaseOrder == << "premise", "treatment", "characters", "conflict-analysis",
                 "setting", "reader-fit", "stc", "chapter-planning",
                 "drafting", "final-pass", "done" >>

Phase == {PhaseOrder[i] : i \in 1..11}

PhaseIndex(phase) == CHOOSE i \in 1..11 : PhaseOrder[i] = phase

(* The knitting gates, each with its threshold in tenths of the target. *)
GateThreshold == [done_30 |-> 3, done_50 |-> 5, done_80 |-> 8]

KnittingGates == {"done_30", "done_50", "done_80"}

Gates == KnittingGates \cup {"final_pass_complete"}

(* A path a turn declares in [pending_turn]: a file kind and, for the files of
   a chapter, its number (0 for the files that belong to no chapter). *)
Path(kind, chapter) == [kind |-> kind, chapter |-> chapter]

Paths == [kind : {"state.toml", "log.md"}, chapter : {0}]
         \cup [kind : {"chapter", "draft.md", "done.flag"}, chapter : Chapters]

PendingTurn == [operation : {"none", "set-chapters", "reconcile", "other"},
                paths : SUBSET Paths]

NoTurn == [operation |-> "none", paths |-> {}]

Cursor == [chapter : Int, scene : Int, beat : Int]

(* The documents parse_state accepts. *)
Document ==
    [phase : Phase, completed : Seq(Phase), manifest : SUBSET Chapters,
     byChapter : UNION {[keys -> WordCounts] : keys \in SUBSET Chapters}, current : Int,
     cursor : Cursor, pass : Int, consecutiveClean : Int, convergenceTarget : Int,
     fangirl : Int, gates : [Gates -> BOOLEAN], pending : PendingTurn]

ASSUME NoFileAssumption == NoFile \notin Document

(* What init writes: no plan, no words, every gate false. *)
InitialDocument ==
    [phase |-> "premise", completed |-> << >>, manifest |-> {},
     byChapter |-> [c \in {} |-> 0], current |-> 0,
     cursor |-> [chapter |-> 0, scene |-> 0, beat |-> 0],
     pass |-> 1, consecutiveClean |-> 0, convergenceTarget |-> 1,
     fangirl |-> 0, gates |-> [g \in Gates |-> FALSE], pending |-> NoTurn]

-----------------------------------------------------------------------------
(* The pure-state invariants of design section 5.2, one operator each. *)

(* sum(by_chapter.values()): the words of the table, counted as pairs of a
   chapter and a position in it. *)
Total(byChapter) ==
    Cardinality(UNION {{c} \X (1..byChapter[c]) : c \in DOMAIN byChapter})

(* drafted total / target >= threshold, without the division. *)
Crossed(gate, byChapter) ==
    10 * Total(byChapter) >= GateThreshold[gate] * Target

CompletedPrefix(doc) ==
    doc.completed = SubSeq(PhaseOrder, 1, PhaseIndex(doc.phase) - 1)

ByChapterSum(doc) == Total(doc.byChapter) = doc.current

ConsecutiveCleanWithinTarget(doc) ==
    doc.consecutiveClean \in 0..doc.convergenceTarget

ConvergenceTargetAtLeastOne(doc) == doc.convergenceTarget >= 1

ConsecutiveCleanWithinDrafted(doc) ==
    doc.consecutiveClean <=
        Cardinality({c \in DOMAIN doc.byChapter : doc.byChapter[c] > 0})

CursorCoherent(doc) ==
    /\ doc.cursor.chapter \in 0..Cardinality(doc.manifest)
    /\ doc.cursor.scene >= 0
    /\ doc.cursor.beat >= 0
    /\ doc.cursor.chapter = 0 => doc.cursor.scene = 0 /\ doc.cursor.beat = 0

MutantGateRatioConsistent(doc) ==   \* a gate may lag behind the drafts
    Target > 0 => \A g \in KnittingGates : doc.gates[g] => Crossed(g, doc.byChapter)

(* A gate is recorded true exactly when the drafted ratio has reached its
   threshold; a target of zero or less switches the check off. *)
GateRatioConsistent(doc) ==
    Target > 0 => \A g \in KnittingGates : doc.gates[g] <=> Crossed(g, doc.byChapter)

(* validate_state(doc) returned no violation. *)
ValidateState(doc) ==
    /\ doc.phase \in Phase
    /\ CompletedPrefix(doc)
    /\ ByChapterSum(doc)
    /\ ConsecutiveCleanWithinTarget(doc)
    /\ ConvergenceTargetAtLeastOne(doc)
    /\ ConsecutiveCleanWithinDrafted(doc)
    /\ CursorCoherent(doc)
    /\ GateRatioConsistent(doc)
=============================================================================
