SPECIFICATION FairSpec
CONSTANTS
    Children = {"a", "b"}
    Parent = "parent"
    Aggregated = {"all"}
    Single = {"single", "called"}
    Channels = {"all", "single"}
    Capacity = 1
    Rounds <- MCRounds
    Misattributed <- MCMisattributed
INVARIANTS CompleteBatches
PROPERTIES ImplementsMailbox 
CHECK_DEADLOCK FALSE
