SPECIFICATION Spec
CONSTANTS
    Bytes <- MCBytes
    Settings <- MCSettings
    Versions <- MCVersions
    Targets <- MCTargets
    Alternative <- MCAlternative
    Neighbour <- MCNeighbour
    MaxRuns = 2
    MaxKills = 1
INVARIANTS
    TargetSound BasisOnlyRead FirstContentSurvives LeavesCleanly
PROPERTIES
    ImplementsFilePut
\* After the last run nothing happens any more.
CHECK_DEADLOCK FALSE
