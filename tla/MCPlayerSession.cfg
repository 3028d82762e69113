SPECIFICATION FairSpec
CONSTANTS
    Inputs = {"rtsp", "udp", "file"}
    KEEPALIVE = 2
    TIMEOUT = 5
    MaxMishaps = 2
INVARIANTS
    TypeOK
    NothingLosesItsFooting
    SessionIsKept
PROPERTIES
    KillEndsPlayer
    StreamComesBack
CHECK_DEADLOCK FALSE
