SPECIFICATION SimSpec
CONSTANTS
    Experiments <- MCExperiments
    batchSize = 2
    MaxLost = 1
    BigTree <- GenerateBigNaryTree
    ReadTree <- MakeTree
INVARIANTS JoinedBeforeStart TreesSound
PROPERTIES EveryoneStarts RootEnds
CHECK_DEADLOCK FALSE
