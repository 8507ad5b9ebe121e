\* done, compile --check and desloppify over a two-chapter novel that is finished, reopened, redrafted, annotated and recompiled in any order.
SPECIFICATION CheckersSpec
CONSTANTS
    Chapters = {1, 2}
    Target = 0
    Precision = 13
    WordCounts = {0, 1, 4}
    NoFile = NoFile
    Corrupt = Corrupt
    blank = blank  short = short  redraft = redraft  long = long
    Texts <- MCTexts
    WordsOf <- MCWordsOf
    EmptyText = blank
    Commands = {"init", "advance-phase", "set-chapters", "set-gate", "compile", "recount"}
    CrashIn = {}
    PlanInputs <- PlanTwo
    CursorInputs <- None
    GateInputs <- AllOrOneGate
    FangirlInputs <- None
    PassInputs <- None
    DraftPhases = {"done"}
    DraftWrites <- FinishedDrafts
    PlanChapters = {}
    FlagChapters = {1, 2}
    DroppedDirs = {}
    NoteInputs <- MCNotes
    ReviewInputs <- MCReviews
    Patterns <- MCPatterns
    LinesOf <- MCLinesOf
    Packs <- MCPacks
    Ledgers <- MCLedgers
    Scopes <- MCScopes
    Bodies <- MCBodies
INVARIANTS
    CompileReadersAgree
    NothingUnreadIsDone
    BlockerScanIsExact
    ViolationsNameOneRuleEach
    ScopesFitTogether
    RationsAgree
    TriggersAreExact
    DistanceReachesNextGate
    DensityErrsOnlyAtThreshold
PROPERTIES
    StaleCompileIsRegenerable
    CommandsNeverUndoDone
CHECK_DEADLOCK FALSE
