---------------------------- MODULE Reconciliation ----------------------------
(***************************************************************************)
(* The pure classifier check and reconcile share                           *)
(* (state/reconcile.py, state/_reconcile_precedence.py): what repair a     *)
(* document and a tree that disagree call for.                             *)
(***************************************************************************)
EXTENDS WorkingTree

MutantRefuseClass == {"manifest-disk-bijection", "cursor-plan-present",
                      "compiled-matches-drafts"}   \* one class forgotten
RefuseClass == {"manifest-disk-bijection", "cursor-plan-present",
                "done-flag-without-draft", "compiled-matches-drafts"}

RecountTriggers == {"word-counts-match-drafts", "word-counts-cover-drafts"}

RecomputableKinds == {"state.toml", "log.md"}

Actions == {"none", "recount", "recreate-log", "complete-pending-turn",
            "rollback-pending-turn", "refuse"}

(* A Reconciliation: the action and the declared paths that are not on disk. *)
Repair(action, missing) == [action |-> action, missing |-> missing]

-----------------------------------------------------------------------------
(* Paths.  state.toml was just loaded, so it is on disk. *)

PathExists(tree, path) ==
    CASE path.kind = "state.toml" -> TRUE
      [] path.kind = "log.md"     -> tree.log # NoFile
      [] path.kind = "chapter"    -> path.chapter \in tree.dirs
      [] path.kind = "draft.md"   -> tree.draft[path.chapter] # NoFile
      [] path.kind = "done.flag"  -> path.chapter \in tree.flags

MissingDeclaredPaths(doc, tree) ==
    {path \in doc.pending.paths : ~PathExists(tree, path)}

(* The chapter numbers named by a set of paths, state.toml skipped. *)
ChapterNumbers(paths) == {path.chapter : path \in {p \in paths : p.kind = "chapter"}}

OnlyChapterPaths(paths) == \A path \in paths : path.kind \in {"state.toml", "chapter"}

-----------------------------------------------------------------------------
(* The two exceptions that run before the refuse arm. *)

MutantSetChaptersTurnExplains(doc, tree) ==   \* only a turn that made no directory
    /\ doc.pending.operation = "set-chapters"
    /\ CoherentSubset(doc, tree)
    /\ tree.dirs = {}

(* A torn set-chapters turn explains the whole break: the missing directories
   are the ones it declared. *)
SetChaptersTurnExplains(doc, tree) ==
    LET fired   == CheckDiskEvidence(doc, tree, FALSE)
        missing == MissingDeclaredPaths(doc, tree)
    IN  /\ doc.pending.operation = "set-chapters"
        /\ fired \cap RefuseClass = {"manifest-disk-bijection"}
        /\ CoherentSubset(doc, tree)
        /\ OnlyChapterPaths(missing)
        /\ Missing(doc, tree) = ChapterNumbers(missing)

MutantCoverGap(doc, tree) ==   \* whether or not the keys cover the directories
    /\ PendingTurnCleared(doc)
    /\ DraftingSubset(doc, tree)
    /\ CheckDiskEvidence(doc, tree, FALSE) \cap RefuseClass = {"manifest-disk-bijection"}

(* While drafting, a directory that is on disk has no by_chapter key. *)
DraftingSubsetCoverGap(doc, tree) ==
    /\ PendingTurnCleared(doc)
    /\ DraftingSubset(doc, tree)
    /\ CheckDiskEvidence(doc, tree, FALSE) \cap RefuseClass = {"manifest-disk-bijection"}
    /\ ~WordCountsCoverDrafts(doc, tree, TRUE)

(* A torn turn is completed when all that is missing can be recomputed. *)
ClassifyPendingTurn(doc, tree) ==
    LET missing == MissingDeclaredPaths(doc, tree)
    IN  IF \A path \in missing : path.kind \in RecomputableKinds
        THEN Repair("complete-pending-turn", missing)
        ELSE Repair("rollback-pending-turn", missing)

(* derive_reconciliation: the precedence ladder, first match wins. *)
DeriveReconciliation(doc, tree) ==
    LET fired == CheckDiskEvidence(doc, tree, FALSE)
    IN  IF SetChaptersTurnExplains(doc, tree)
        THEN Repair("complete-pending-turn", MissingDeclaredPaths(doc, tree))
        ELSE IF DraftingSubsetCoverGap(doc, tree)       THEN Repair("recount", {})
        ELSE IF fired \cap RefuseClass # {}             THEN Repair("refuse", {})
        ELSE IF "pending-turn-cleared" \in fired        THEN ClassifyPendingTurn(doc, tree)
        ELSE IF fired \cap RecountTriggers # {}         THEN Repair("recount", {})
        ELSE IF "log-present" \in fired                 THEN Repair("recreate-log", {})
        ELSE Repair("none", {})

-----------------------------------------------------------------------------
(* What novel state check answers: 0 for a coherent tree, 4 otherwise, 3 when a
   draft cannot be read.  It writes nothing. *)
CheckExit(doc, tree) ==
    IF ~DraftsReadable(doc, tree) THEN 3
    ELSE IF ValidateState(doc) /\ CheckDiskEvidence(doc, tree, TRUE) = {} THEN 0 ELSE 4
=============================================================================
