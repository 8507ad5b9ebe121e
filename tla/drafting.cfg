\* One or two chapters planned and drafted to every gate threshold: recount, set-gate and reconcile in any order, every command of several writes torn at every step, a third chapter drafted astray, a chapter flagged, empty directories lost.
SPECIFICATION Spec
CONSTANTS
    Chapters = {1, 2, 3}
    Target = 10
    Precision = 13
    WordCounts = {0, 1, 4}
    NoFile = NoFile
    Corrupt = Corrupt
    blank = blank  short = short  redraft = redraft  long = long
    Texts <- MCTexts
    WordsOf <- MCWordsOf
    EmptyText = blank
    Commands = {"init", "advance-phase", "set-chapters", "recount", "set-gate", "reconcile"}
    CrashIn = {"init", "set-chapters", "reconcile"}
    PlanInputs <- PlansOneOrTwo
    CursorInputs <- None
    GateInputs <- SomeGates
    FangirlInputs <- None
    PassInputs <- None
    DraftPhases <- PlanningOrDrafting
    DraftWrites <- DraftsTwoAndStray
    PlanChapters = {}
    FlagChapters = {1}
    DroppedDirs = {1, 2}
INVARIANTS
    TypeOK
    TableKeyedByManifest
    TornPlanCompletes
    StateCoherent
    KnittingGatesNeverOpen
    WordcountForeseesRecount
PROPERTIES
    PlanImmutable
    ReceiptBeforeClear
CHECK_DEADLOCK FALSE
