------------------------------ MODULE WorkingTree ------------------------------
(***************************************************************************)
(* The working/ tree beside state.toml and the disk-evidence detector that *)
(* compares the two (state/disk_evidence.py, state/_disk_paths.py,         *)
(* state/_disk_word_counts.py, state/wordcount.py, state/compile_model.py).*)
(*                                                                         *)
(* A draft is a member of Texts: what the tools read of it is its identity *)
(* (compile copies it) and its number of words.  A draft that does not     *)
(* decode is Corrupt.  log.md is kept as the kind of its last receipt.     *)
(***************************************************************************)
EXTENDS NovelState

CONSTANTS
    Texts,       \* the bodies a draft.md may hold
    WordsOf,     \* len(text.split()) of each
    EmptyText,   \* the empty body
    Corrupt      \* a draft.md that is not valid UTF-8

ASSUME TextsAssumption ==
    /\ WordsOf \in [Texts -> WordCounts]
    /\ EmptyText \in Texts /\ WordsOf[EmptyText] = 0
    /\ NoFile \notin Texts /\ Corrupt \notin Texts /\ NoFile # Corrupt

Receipts == {"set-chapters", "recount", "complete-pending-turn",
             "rollback-pending-turn", "recreate-log", "refuse"}

ASSUME ReceiptsAssumption == NoFile \notin Receipts \cup {"empty"}

Compiled == UNION {[numbers -> Texts] : numbers \in SUBSET Chapters}

ASSUME CompiledAssumption == NoFile \notin Compiled

Tree == [dirs : SUBSET Chapters,
         draft : [Chapters -> Texts \cup {NoFile, Corrupt}],
         flags : SUBSET Chapters, scenes : SUBSET Chapters, beats : SUBSET Chapters,
         compiled : Compiled \cup {NoFile},
         log : Receipts \cup {"empty", NoFile}]

EmptyTree == [dirs |-> {}, draft |-> [c \in Chapters |-> NoFile],
              flags |-> {}, scenes |-> {}, beats |-> {},
              compiled |-> NoFile, log |-> NoFile]

-----------------------------------------------------------------------------
(* Reading the drafts.  An absent draft is empty; a draft that does not decode
   raises, so each use of these stands behind DraftsReadable. *)

DraftsReadable(doc, tree) == \A c \in doc.manifest : tree.draft[c] # Corrupt

Body(tree, c) == IF tree.draft[c] \in Texts THEN tree.draft[c] ELSE EmptyText

RecountWords(doc, tree) == [c \in doc.manifest |-> WordsOf[Body(tree, c)]]

(* The ordered concatenation, kept as the body each chapter contributes. *)
Concatenation(doc, tree) == [c \in doc.manifest |-> Body(tree, c)]

-----------------------------------------------------------------------------
(* The manifest against the chapter directories. *)

Orphans(doc, tree) == tree.dirs \ doc.manifest

Missing(doc, tree) == doc.manifest \ tree.dirs

Contiguous(manifest) == manifest = 1..Cardinality(manifest)

CoherentSubset(doc, tree) == Orphans(doc, tree) = {} /\ Contiguous(doc.manifest)

IsBijection(doc, tree) == CoherentSubset(doc, tree) /\ Missing(doc, tree) = {}

(* The shape ADR 009 accepts while drafting: the directories lag the manifest. *)
DraftingSubset(doc, tree) ==
    doc.phase = "drafting" /\ CoherentSubset(doc, tree) /\ tree.dirs # doc.manifest

-----------------------------------------------------------------------------
(* The disk-evidence predicates; relax is check's drafting relaxation. *)

ManifestDiskBijection(doc, tree, relax) ==
    IsBijection(doc, tree) \/ (relax /\ DraftingSubset(doc, tree))

CursorPlanPresent(doc, tree) ==
    LET c == doc.cursor.chapter
    IN  c \in 1..Cardinality(doc.manifest) =>
            /\ doc.cursor.scene > 0 => c \in tree.scenes
            /\ doc.cursor.beat > 0 => c \in tree.beats

DoneFlagHasDraft(doc, tree) ==
    \A c \in doc.manifest \cap tree.flags : WordsOf[Body(tree, c)] > 0

CompiledMatchesDrafts(doc, tree) ==
    tree.compiled \in {NoFile, Concatenation(doc, tree)}

PendingTurnCleared(doc) == doc.pending.operation = "none"

(* Only the keys both tables carry are compared. *)
WordCountsMatchDrafts(doc, tree) ==
    \A c \in doc.manifest \cap DOMAIN doc.byChapter :
        doc.byChapter[c] = RecountWords(doc, tree)[c]

LogPresent(tree) == tree.log # NoFile

(* The key sets agree; on any break but the relaxed drafting subset this check
   defers to the bijection. *)
WordCountsCoverDrafts(doc, tree, relax) ==
    /\ doc.manifest = tree.dirs => DOMAIN doc.byChapter = doc.manifest
    /\ relax /\ DraftingSubset(doc, tree) => tree.dirs \subseteq DOMAIN doc.byChapter

(* check_disk_evidence: the names of the predicates that fail. *)
CheckDiskEvidence(doc, tree, relax) ==
    {n \in {"manifest-disk-bijection", "cursor-plan-present",
            "done-flag-without-draft", "compiled-matches-drafts",
            "pending-turn-cleared", "word-counts-match-drafts",
            "log-present", "word-counts-cover-drafts"} :
        \/ n = "manifest-disk-bijection" /\ ~ManifestDiskBijection(doc, tree, relax)
        \/ n = "cursor-plan-present" /\ ~CursorPlanPresent(doc, tree)
        \/ n = "done-flag-without-draft" /\ ~DoneFlagHasDraft(doc, tree)
        \/ n = "compiled-matches-drafts" /\ ~CompiledMatchesDrafts(doc, tree)
        \/ n = "pending-turn-cleared" /\ ~PendingTurnCleared(doc)
        \/ n = "word-counts-match-drafts" /\ ~WordCountsMatchDrafts(doc, tree)
        \/ n = "log-present" /\ ~LogPresent(tree)
        \/ n = "word-counts-cover-drafts" /\ ~WordCountsCoverDrafts(doc, tree, relax)}
=============================================================================
