SPECIFICATION FairSpec
CONSTANTS
    TreeIDs = {"T1", "T2"}
    MaxRemovals = 2
    Conns = {"c1", "c2"}
    OldPeers = {"c1"}
    Retransmitters = {"g1"}
    Tokens = {"r1", "own"}
    Local = {"own"}
    TreeOf <- MCTreeOf
    RosterOf <- MCRosterOf
    Msgs = {"m1", "m2"}
    Dest <- MCDest
    Sent <- MCSent
    WithConfig = {"m1"}
    Outcomes <- MCOutcomes
    InOrder = TRUE
INVARIANTS MessageConserved OneProtocolPerToken 
PROPERTIES CloseEnds
CHECK_DEADLOCK FALSE
