SPECIFICATION FairSpec
CONSTANTS
    MaxRequests = 2
    Scenarios <- Sound
    ChanOf <- OwnChannels
    Values = 2
    InputsLength = 1
    OutLength = 1
INVARIANTS SingleRequestSafe NothingLost
 
CHECK_DEADLOCK FALSE
