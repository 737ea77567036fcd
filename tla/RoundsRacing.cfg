SPECIFICATION Spec
CONSTANTS
    n1 = n1
    n2 = n2
    Nodes = {n1, n2}
    Root = Root
    NoLeader = NoLeader
    SimulationRounds = 3
    PowerSets <- AnyPowered
    Prompt = FALSE
INVARIANTS OneBlockPerRound FirstLeaderOnly
PROPERTIES ImplementsRoundLog
CHECK_DEADLOCK FALSE
