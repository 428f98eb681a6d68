CONSTANTS
    Path <- MCPath
    Dest <- MCDest
    Under <- MCUnder
    Rank <- MCRank
    Data <- MCData
    Torn = "torn"
    Size <- MCSize
    Stamp = {1, 2}
    Jobs <- DelayJobs
    Disks <- MCDelayDisks
    BackupOf <- MCBackupOf
    StageOf <- MCStageOf
    MaxFaults = 1
    MaxRuns = 2
SPECIFICATION Spec
INVARIANTS
    DelayHolds DelaySafe Converged
CHECK_DEADLOCK FALSE
