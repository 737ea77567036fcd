SPECIFICATION FairSpec
CONSTANTS
    n1 = n1
    n2 = n2
    Nodes = {n1, n2}
    Root = Root
    NoLeader = NoLeader
    SimulationRounds = 3
    PowerSets <- AllPowered
    Prompt = FALSE
PROPERTIES AllRoundsClose
CHECK_DEADLOCK FALSE
