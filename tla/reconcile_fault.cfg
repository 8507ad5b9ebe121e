\* A draft that does not decode escapes reconcile as exit 1.
SPECIFICATION Spec
CONSTANTS
    Chapters = {1, 2}
    Target = 10
    WordCounts = {0, 1, 4}
    NoFile = NoFile
    Corrupt = Corrupt
    blank = blank  short = short  redraft = redraft  long = long
    Texts <- MCTexts
    WordsOf <- MCWordsOf
    EmptyText = blank
    Commands = {"init", "advance-phase", "set-chapters", "reconcile"}
    CrashIn = {}
    PlanInputs <- PlanOne
    CursorInputs <- None
    GateInputs <- None
    FangirlInputs <- None
    PassInputs <- None
    DraftPhases <- Drafting
    DraftWrites <- DraftsOne
    PlanChapters = {}
    FlagChapters = {}
    DroppedDirs = {}
PROPERTIES
    ReconcileFaultIsStateError
CHECK_DEADLOCK FALSE
