\* reconcile refuses a recount with exit 3 after it has written its intent record.
SPECIFICATION Spec
CONSTANTS
    Chapters = {1, 2}
    Target = 10
    WordCounts = {0, 1, 4}
    NoFile = NoFile
    Corrupt = Corrupt
    blank = blank  short = short  redraft = redraft  long = long
    Texts <- MCTexts
    WordsOf <- MCWordsOf
    EmptyText = blank
    Commands = {"init", "advance-phase", "set-chapters", "reconcile"}
    CrashIn = {}
    PlanInputs <- PlanOne
    CursorInputs <- None
    GateInputs <- None
    FangirlInputs <- None
    PassInputs <- None
    DraftPhases <- Drafting
    DraftWrites <- DraftsTwo
    PlanChapters = {}
    FlagChapters = {}
    DroppedDirs = {}
PROPERTIES
    NonZeroExitWritesNothing
CHECK_DEADLOCK FALSE
