SPECIFICATION Spec
CONSTANTS
    Nodes = {"a", "b"}
    Senders = {"pair", "ab", "ba", "bb"}
    Scenarios <- MCScenarios
    SendsFrom <- MCFrom
    SendsTo <- MCTo
    Batch <- MCBatch
    Capacity = 1
    PeerSets <- MCPeers
    Managed = {"b"}
    MaxConns = 2
INVARIANTS AtMostOnce QuietAfterStop 
CHECK_DEADLOCK FALSE
