\* recount refuses the drafts that pass a threshold; the set-gate it prescribes refuses too.
SPECIFICATION Spec
CONSTANTS
    Chapters = {1, 2}
    Target = 10
    WordCounts = {0, 1, 4}
    NoFile = NoFile
    Corrupt = Corrupt
    blank = blank  short = short  redraft = redraft  long = long
    Texts <- MCTexts
    WordsOf <- MCWordsOf
    EmptyText = blank
    Commands = {"init", "advance-phase", "set-chapters", "recount", "set-gate"}
    CrashIn = {}
    PlanInputs <- PlanOne
    CursorInputs <- None
    GateInputs <- OneGateAtATime
    FangirlInputs <- None
    PassInputs <- None
    DraftPhases <- Drafting
    DraftWrites <- DraftsTwo
    PlanChapters = {}
    FlagChapters = {}
    DroppedDirs = {}
INVARIANTS
    GateRemedyAccepted
CHECK_DEADLOCK FALSE
