CONSTANTS
    Path <- MCPath
    Dest <- MCDest
    Under <- MCUnder
    Rank <- MCRank
    Data <- MCData
    Torn = "torn"
    Size <- MCSize
    Stamp = {1, 2}
    Top = "."
    Versions <- MCVersions
    Invalid = {"e"}
    Jobs <- SessionJobs
    Sources <- MCSources
    Disks <- MCDisks
    Capacity = 4
    Calm <- CalmJobs
    MaxFaults = 1
    MaxEdits = 1
SPECIFICATION FairSpec
INVARIANTS
    TypeOK PositionsRight Delivered MarkersAgree
PROPERTIES
    TreeKept BothEnd
CHECK_DEADLOCK FALSE
