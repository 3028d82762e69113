SPECIFICATION Spec
CONSTANTS
    Sources <- MCSources
    Genuine <- MCGenuine
    Factory <- MCFactory
    Settings = {"wfb", "off"}
    PSize = 3
    Header = 1
    MaxCuts = 1
    MaxMishaps = 1
    Channel = 161
    Frames <- MCFrames
    TableSize = 2
    SniffSecs = 1
    MaxFrames = 4
    MaxRefusals = 1
    MaxFailures = 1
    Formats <- MCFormats
    Samples <- MCSamples
    Coverage <- MCCoverage
    Readings <- MCReadings
    Worlds <- MCWorlds
    Times = {0, 59, 3600}
    Labels = {0, 8, 30}
    PollLimit = 1
INVARIANT
    ResetErases
