\* Two calls of POST /admin/crawl, for one source or all, and scheduled jobs:
\* both calls may hold runs.  Sources without a spider, a kind or a row;
\* launches, the database and the API process may fail.  The processes are
\* turned down or die: no source is persistable.
SPECIFICATION ControlSpec
CONSTANTS
    Sources = {"shop", "ghost", "demo"}
    Registered = {"shop", "ghost"}
    Spiders = {"shop", "demo"}
    Persistable = {}
    Entries = {x}
    Prices <- OnePrice
    Faults = {"launch", "db"}
    MaxRuns = 3
    MaxItems = 0
    MaxUnmapped = 0
    MaxBans = 0
    PriceMin = 0
    PriceMax = 50
    MaxJumpRatio = 10
    VolumeTolerance = 50
    VolumeMinBaseline = 1
    DriftMinEntries = 1
    DriftMaxUnmapped = 50
    Requests = {h1, h2}
    MaxCalls = 1
    PerSeconds = 2
    Bodies = {"shop", "demo", "all", "bad"}
    MaxTime = 2
    MaxRestarts = 1
INVARIANTS ControlTypeOK WithinLimitAlone AnswerTrue
PROPERTIES RefusedJustly
SYMMETRY Callers
CHECK_DEADLOCK FALSE
