CONSTANTS
    Path <- MCPath
    Dest <- MCDest
    Under <- MCUnder
    Rank <- MCRank
    Data <- MCData
    Torn = "torn"
    Size <- MCSize
    Stamp = {1, 2}
    Top = "."
    Versions <- MCVersions
    Invalid = {}
    Jobs <- DeadlockJobs
    Sources <- DeadlockSources
    Disks <- DaemonDisks
    Capacity = 1
    Calm = {}
    MaxFaults = 0
    MaxEdits = 0
SPECIFICATION Spec
INVARIANTS
    NotStuck
CHECK_DEADLOCK FALSE
