SPECIFICATION FairSpec
CONSTANTS
    Capacity = 1
    MaxSamples = 3
    MaxFaults = 1
PROPERTY SigtermReleases
CHECK_DEADLOCK FALSE
