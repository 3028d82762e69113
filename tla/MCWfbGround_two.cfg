SPECIFICATION Spec
CONSTANTS
    Loops = {l1, l2}
    Viewers = {}
    Scripts = {l1, l2}
    Sups = {s1, s2, s3}
    Replay = replay
    NoPid = NoPid
    DownLimit = 2
INVARIANT
    OneSupervisor
