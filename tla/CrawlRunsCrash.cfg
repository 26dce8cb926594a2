\* One crawl that may crash.
SPECIFICATION Spec
CONSTANTS
    Sources = {"shop"}
    Registered = {"shop"}
    Spiders = {"shop"}
    Persistable = {"shop"}
    Entries = {x, y}
    Prices = {2}
    Faults = {"crash"}
    MaxRuns = 1
    MaxItems = 2
    MaxUnmapped = 0
    MaxBans = 0
    PriceMin = 0
    PriceMax = 50
    MaxJumpRatio = 10
    VolumeTolerance = 50
    VolumeMinBaseline = 1
    DriftMinEntries = 1
    DriftMaxUnmapped = 50
INVARIANTS NoHalfRuns
CHECK_DEADLOCK FALSE
