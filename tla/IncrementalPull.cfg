\* A pull whose lists arrive between the answers.
CONSTANTS
    Top = "."
    Tree <- MCTree
    Order <- MCOrder
    Keys <- MCKeys
    Excluded <- MCExcluded
    Dest0 <- MCDest
    Current <- MCCurrent
    Below <- MCBelow
    Acks = "last"

SPECIFICATION FairSpec
CHECK_DEADLOCK FALSE

INVARIANTS
    NumbersSound PullSound
PROPERTIES
    Finishes
