SPECIFICATION FairSpec
CONSTANTS
    Shapes <- MCShapes
    SeqSpace = 16
    frame_cap = 7
    FirstNumber = 14
    MaxPictures = 2
    MaxFragment = 2
    MaxInFlight = 2
    fcap = 8
    MaxTroubles = 1
INVARIANTS
    TypeOK
    IntactPictureIsFed
    LossesAreCounted
    ReplayIsContiguous
    PicturesAreReplayed
    EndsWhenFed
PROPERTY
    ReplayEnds
CHECK_DEADLOCK FALSE
