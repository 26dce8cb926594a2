\* Two crawls of one source; the database, the reactor or the process may fail.
SPECIFICATION Spec
CONSTANTS
    Sources = {"shop"}
    Registered = {"shop"}
    Spiders = {"shop"}
    Persistable = {"shop"}
    Entries = {x, y}
    Prices <- FewPrices
    Faults = {"db", "crash", "reactor"}
    MaxRuns = 2
    MaxItems = 2
    MaxUnmapped = 1
    MaxBans = 0
    PriceMin = 0
    PriceMax = 50
    MaxJumpRatio = 10
    VolumeTolerance = 50
    VolumeMinBaseline = 1
    DriftMinEntries = 1
    DriftMaxUnmapped = 40
INVARIANTS TypeOK OncePerRun SteadyAlone VolumeAlone
PROPERTIES KeepsPromise
SYMMETRY Listings
CHECK_DEADLOCK FALSE
