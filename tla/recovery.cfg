\* reconcile repeated on every small tree and killed at any step.
SPECIFICATION RecoverySpec
CONSTANTS
    Chapters = {1, 2}
    Target = 10
    WordCounts = {0, 1}
    NoFile = NoFile
    Corrupt = Corrupt
    blank = blank  short = short  redraft = redraft
    Texts <- MCTexts
    WordsOf <- MCWordsOf
    EmptyText = blank
    Commands = {"reconcile"}
    CrashIn = {"reconcile"}
    PlanInputs = {}
    CursorInputs = {}
    GateInputs = {}
    FangirlInputs = {}
    PassInputs = {}
    DraftPhases = {}
    DraftWrites = {}
    PlanChapters = {}
    FlagChapters = {}
    DroppedDirs = {}
    StartPhases <- MCPhases
    StartCursors <- MCCursors
    StartBodies <- MCBodies
INVARIANT
    AnyTreeSettles
PROPERTIES
    ComesToRest
    RepairableIsRepaired
    JudgementKept
CHECK_DEADLOCK FALSE
