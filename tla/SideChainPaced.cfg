SPECIFICATION FairSpec
CONSTANTS
    n1 = n1
    n2 = n2
    n3 = n3
    Root = Root
    NoNode = NoNode
    Nodes = {Root, n1, n2, n3}
    SimulationRounds = 6
    MCRoundPerEpoch = 2
    MCRoundDuration = 35
    SCRoundDuration = 10
    SCRoundPerEpoch = 6
    CommitteeWindow = 3
    FirstCommittees <- RootOutsideOrLast
    Failures = TRUE
    Paced = TRUE
    Apart = TRUE
INVARIANTS  SummaryEpochs  RecentFirst MainChainCounted
PROPERTIES OneCommitteePerEpoch SimulationEnds
CHECK_DEADLOCK FALSE
