SPECIFICATION FairSpec
CONSTANTS
    RingSize = 3
    MaxFrameSize = 4
    MaxFrames = 3
    DumpLimits <- BothLimits
    Junk = Junk
INVARIANTS
    TypeOK
    RingHoldsWindow
    FileIsPrefix
    NoUseAfterFree
    DropsAreCounted
PROPERTIES
    ImplementsLog
    StopReturns
    AcceptedIsStored
    RecordingNeverStallsDecode
