SPECIFICATION Spec
CONSTANTS
    N = 4
    Root = 0
    NbrSubTrees = 2
    Threshold = 3
    RosterSize = 4
    Profiles <- MCProfiles
    Rounds = 2
    MaxSubs = 6
INVARIANTS EnoughSigners SubtreesPartition EverySubleaderTried
CHECK_DEADLOCK FALSE
