CONSTANTS
    Path <- MCPath
    Dest <- MCDest
    Under <- MCUnder
    Rank <- MCRank
    Data <- MCData
    Torn = "torn"
    Size <- MCSize
    Stamp = {1, 2}
    Jobs <- SyncJobs
    Disks <- SyncDisks
    BackupOf <- MCBackupOf
    StageOf <- MCStageOf
    MaxFaults = 1
    MaxRuns = 2
SPECIFICATION Spec
INVARIANTS
    TypeOK OldOrNew Converged BackedUp DeletesWithinLimits
PROPERTIES
    DeletesSpareOffered
CHECK_DEADLOCK FALSE
