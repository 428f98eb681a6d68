SPECIFICATION Spec
CONSTANTS
    MaxWrites = 3
    MaxTokens = 4
    MaxEntries = 3
    MaxBytes = 5
    Path <- MCPath
    Dest <- MCDest
    Under <- MCUnder
    Rank <- MCRank
    Data = {"d"}
    Torn = "torn"
    Size <- MCSize
    Stamp = {1}
INVARIANTS
    LinkSound ListArrives TokensArrive DeltaExact
PROPERTIES
    NothingStays
\* A stream that has been read is finished.
CHECK_DEADLOCK FALSE
