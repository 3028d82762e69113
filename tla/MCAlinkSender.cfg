SPECIFICATION FairSpec
CONSTANTS
    STALE_SEC = 3
    IDR_MAX_MESSAGES = 3
    Signals <- MCSignals
    MaxRewrites = 3
INVARIANTS
    TypeOK
    ReadingIsReported
    CodesPerReading
PROPERTY
    DeadLinkFallsSilent
