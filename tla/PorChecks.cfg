SPECIFICATION PorSpec
CONSTANTS
    Order = 5
    n = 3
    SectorNumber = 2
    l = 2
    ByteRange = 2
    Digit = 1
    Files <- MCFiles
    Seeds <- MCSeeds
    Intn <- MCIntn
    Picked <- MCPicked
    Keys = {2, 3}
    Hashes <- MCHashes
    Secrets <- MCSecrets
    MaxCalls = 4
INVARIANTS LossSeen
CHECK_DEADLOCK FALSE
