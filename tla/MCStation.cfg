SPECIFICATION FairStationSpec
CONSTANTS
    Loops = {l1}
    Viewers = {v1}
    Scripts = {l1, v1, action, d1, d2}
    Action = action
    Clients = {d1, d2}
    Modes = {"wfb", "apfpv"}
    MaxPending = 1
    Sups = {s1, s2}
    Replay = replay
    NoPid = NoPid
    DownLimit = 2
INVARIANTS
    StationTypeOK
    StopFindsSupervisor
    OnePlayer
    HoldIsRespected
    LivePictureShows
PROPERTIES
    HoldIsReleased
    LinkUpPlays
    LinkDownEndsInSplash
CHECK_DEADLOCK FALSE
