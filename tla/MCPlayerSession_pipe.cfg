SPECIFICATION Spec
CONSTANTS
    Inputs = {"rtsp"}
    KEEPALIVE = 2
    TIMEOUT = 5
    MaxMishaps = 2
INVARIANT
    NeverLeavesPipeline
CHECK_DEADLOCK FALSE
