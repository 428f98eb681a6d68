\* The sender acknowledges every list as it is finished.
CONSTANTS
    Top = "."
    Tree <- MCTree
    Order <- MCOrder
    Keys <- MCKeys
    Excluded <- MCExcluded
    Dest0 <- MCDest
    Current <- MCCurrent
    Below <- MCBelow
    Acks = "each"

SPECIFICATION FairSpec
CHECK_DEADLOCK FALSE

INVARIANTS
    SourceKept

