\* reconcile killed between replacing the record of a torn set-chapters and creating its directories.
SPECIFICATION Spec
CONSTANTS
    Chapters = {1, 2}
    Target = 10
    WordCounts = {0, 1, 4}
    NoFile = NoFile
    Corrupt = Corrupt
    blank = blank  short = short  redraft = redraft  long = long
    Texts <- MCTexts
    WordsOf <- MCWordsOf
    EmptyText = blank
    Commands = {"init", "set-chapters", "reconcile"}
    CrashIn = {"set-chapters", "reconcile"}
    PlanInputs <- PlanOne
    CursorInputs <- None
    GateInputs <- None
    FangirlInputs <- None
    PassInputs <- None
    DraftPhases <- None
    DraftWrites <- None
    PlanChapters = {}
    FlagChapters = {}
    DroppedDirs = {}
INVARIANTS
    InterruptedTurnNeverRefused
CHECK_DEADLOCK FALSE
