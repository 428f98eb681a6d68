CONSTANTS
    Path <- MCPath
    Dest <- MCDest
    Under <- MCUnder
    Rank <- MCRank
    Data <- MCData
    Torn = "torn"
    Size <- MCSize
    Stamp = {1, 2}
    Top = "."
    Versions <- MCVersions
    Invalid = {"e"}
    Jobs <- DaemonJobs
    Sources <- DisturbedSources
    Disks <- DaemonDisks
    Capacity = 4
    Calm = {}
    MaxFaults = 0
    MaxEdits = 0
SPECIFICATION Spec
INVARIANTS
    RightFile
CHECK_DEADLOCK FALSE
