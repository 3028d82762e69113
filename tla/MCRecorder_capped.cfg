SPECIFICATION FairSpec
CONSTANTS
    RingSize = 3
    MaxFrameSize = 2
    MaxFrames = 3
    DumpLimits <- OnlyCapped
    Junk = Junk
PROPERTIES
    DecodeNeverWaits
