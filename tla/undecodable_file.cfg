\* A novel just begun, scanned with packs and ledgers that are absent, broken and undecodable.
SPECIFICATION CheckersSpec
CONSTANTS
    Chapters = {1, 2}
    Target = 0
    Precision = 13
    WordCounts = {0, 1, 4}
    NoFile = NoFile
    Corrupt = Corrupt
    blank = blank  short = short  redraft = redraft  long = long
    Texts <- MCTexts
    WordsOf <- MCWordsOf
    EmptyText = blank
    Commands = {"init"}
    CrashIn = {}
    PlanInputs <- None
    CursorInputs <- None
    GateInputs <- None
    FangirlInputs <- None
    PassInputs <- None
    DraftPhases = {}
    DraftWrites <- None
    PlanChapters = {}
    FlagChapters = {}
    DroppedDirs = {}
    NoteInputs <- None
    ReviewInputs <- None
    Patterns <- MCPatterns
    LinesOf <- MCLinesOf
    Packs <- MCPacks
    Ledgers <- MCLedgers
    Scopes <- MCScopes
    Bodies <- MCBodies
INVARIANTS
    UndecodableFileIsStateError
CHECK_DEADLOCK FALSE
