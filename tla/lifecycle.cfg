\* From init to done with every command and the inputs it refuses, set-chapters killed at any step; one chapter is drafted, garbled, flagged, compiled and lost in between.
SPECIFICATION Spec
CONSTANTS
    Chapters = {1}
    Target = 20
    WordCounts = {0, 1, 4}
    NoFile = NoFile
    Corrupt = Corrupt
    blank = blank  short = short  redraft = redraft  long = long
    Texts <- MCTexts
    WordsOf <- MCWordsOf
    EmptyText = blank
    Commands = {"init", "set-cursor", "advance-phase", "set-chapters", "recount", "compile", "reconcile",
                "set-gate", "complete-final-pass", "set-fangirl", "set-critic-pass"}
    CrashIn = {"set-chapters"}
    PlanInputs <- PlanOneOrIncoherent
    CursorInputs <- CursorsOne
    GateInputs <- FinalOrFirstGate
    FangirlInputs <- FangirlOne
    PassInputs <- PassesTwo
    DraftPhases <- Drafting
    DraftWrites <- DraftsOne
    PlanChapters = {1}
    FlagChapters = {1}
    DroppedDirs = {1}
INVARIANTS
    DraftingHasPlan
    CheckAgreesWithReconcile
    ReconcileSettles
PROPERTIES
    ImplementsLifecycle
CHECK_DEADLOCK FALSE
