\* Publications, network failures, lost files and kills between any two writes of make spelling.
SPECIFICATION Spec
CONSTANTS
    LastVersion = 4
    Broken = {2}
    Conflicting = {3}
    NoFile = NoFile
    Garbled = Garbled
INVARIANTS
    MetadataNeverAhead
PROPERTIES
    CurrentMeansCurrent
    OlderOnlyWithoutAuthority
    CatchesUp
