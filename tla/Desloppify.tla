------------------------------ MODULE Desloppify ------------------------------
(***************************************************************************)
(* novel desloppify (commands/_desloppify.py, _desloppify_ledger.py): the  *)
(* rule-pack scan of the manuscript or of one chapter, and the device      *)
(* ledger scan, which is of the whole manuscript only.  The pack is loaded *)
(* before state.toml, state.toml before the drafts.                        *)
(***************************************************************************)
EXTENDS Contract, RulePack, DeviceLedger

(* load_rulepack or load_ledger failed: content errors are usage faults, file
   errors state faults. *)
LoadFault(verdict) ==
    CASE verdict = "content-error" -> UsageFault
      [] verdict = "file-error"    -> StateFault
      [] verdict = "escaped"       -> Escaped

(* _select_chapters: every chapter, or the one --chapter names.  An option is the
   set of the values given: empty, or one. *)
Selected(doc, chapter) == IF chapter = {} THEN doc.manifest ELSE chapter

(* source_chapters: only the chapters selected are read, and a chapter the manifest
   lacks is a usage fault. *)
Sourced(chapter) ==
    /\ toml # NoFile
    /\ Selected(toml, chapter) \subseteq toml.manifest
    /\ \A c \in Selected(toml, chapter) : tree.draft[c] # Corrupt

SourceFault(chapter) ==
    IF toml # NoFile /\ ~(Selected(toml, chapter) \subseteq toml.manifest)
    THEN UsageFault ELSE StateFault

ScannedBodies(chapter) == [c \in Selected(toml, chapter) |-> Body(tree, c)]

WordsIn(bodies) == Total([c \in DOMAIN bodies |-> WordsOf[bodies[c]]])

PackFindings(chapter, file) ==
    Detect(file.raw, ScannedBodies(chapter), WordsIn(ScannedBodies(chapter)))

(* _desloppify. *)
PackBody(chapter, file) ==
    IF PackVerdict(file) # "loaded" THEN LoadFault(PackVerdict(file))
    ELSE IF ~Sourced(chapter) THEN SourceFault(chapter)
    ELSE FindingOutcome(PackFindings(chapter, file))

(* ledger_scan. *)
LedgerBody(file) ==
    IF LedgerVerdict(file) # "loaded" THEN LoadFault(LedgerVerdict(file))
    ELSE IF ~Sourced({}) THEN SourceFault({})
    ELSE FindingOutcome(DetectLedger(file.raw, ScannedBodies({})))

PackAnswer(chapter, file) == Run("novel desloppify", PackBody(chapter, file))

(* _dispatch with --ledger: --pack is ignored, --chapter refused unread. *)
LedgerAnswer(chapter, file) ==
    Run("novel desloppify",
        IF chapter # {} THEN UsageFault ELSE LedgerBody(file))
=============================================================================
