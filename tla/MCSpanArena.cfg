SPECIFICATION Spec
CONSTANTS
    SpanKeySets <- KeySets
    Runs <- FewRuns
    MaxTokens = 6
INVARIANTS DedupSound SameOffsetSameBody ReadsAreWhole
PROPERTIES CompactionIsTight ImplementsBodies
