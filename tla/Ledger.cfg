SPECIFICATION PurgeSpec
CONSTANTS
    SectorNumber = 2
    ScalarLen = 32
    PointLen = 128
    PorStructSize = 48
    FileNameLen = 32
    SchnorrLen = 64
    SCSigLen = 65
    FetchLimit = 5
    Experiments <- AllExperiments
    MCRoundPerEpoch = 2
    MCRoundDuration = 2
    SCRoundDuration = 1
    PercentageTxPay = 30
    PayPercent = 0
    PayTxsDrawn = 1
INVARIANTS FirstInFirstOut PoRConserved PaidProposedCommitted RoundTableExact FullMarked PurgeDrains
CHECK_DEADLOCK FALSE
