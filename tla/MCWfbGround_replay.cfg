SPECIFICATION Spec
CONSTANTS
    Loops = {l1}
    Viewers = {v1}
    Scripts = {l1, v1}
    Sups = {s1, s2}
    Replay = replay
    NoPid = NoPid
    DownLimit = 2
INVARIANT
    ReplayHasScreen
