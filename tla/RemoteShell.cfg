\* The handshake, the child process and the fallback against every kind of peer.
CONSTANTS
    Clients <- MCClients
    Peers <- MCPeers
    PipeCap = 2
    DataFrames = 3

SPECIFICATION FairSpec
CHECK_DEADLOCK FALSE

INVARIANTS
    RetryIsClean InAgreement OutcomeSound
PROPERTIES
    OnlyTheUnreadPipeHangs
