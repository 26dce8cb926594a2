\* Sources without a spider, without a kind or without a row, and two runs.
SPECIFICATION FairSpec
CONSTANTS
    Sources = {"shop", "ghost", "demo"}
    Registered = {"shop", "ghost"}
    Spiders = {"shop", "demo"}
    Persistable = {"shop"}
    Entries = {x}
    Prices <- TwoPrices
    Faults = {"launch", "crash", "db"}
    MaxRuns = 2
    MaxItems = 1
    MaxUnmapped = 0
    MaxBans = 0
    PriceMin = 0
    PriceMax = 50
    MaxJumpRatio = 10
    VolumeTolerance = 50
    VolumeMinBaseline = 1
    DriftMinEntries = 1
    DriftMaxUnmapped = 50
PROPERTIES RowsCloseOrLost
CHECK_DEADLOCK FALSE
