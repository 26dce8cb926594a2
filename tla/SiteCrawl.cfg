\* Each kind of extractor and each scenario of the harness, block_after 1 as in
\* its integration test; a lost answer per page, two changes of the catalogue.
SPECIFICATION SiteSpec
CONSTANTS
    Chains = {c1}
    InfraChains = {}
    Domains = {shop}
    DomainOf <- OneDomain
    Responses <- GivenAnswers
    MaxRetries = 2
    MaxAttempts = 4
    MaxNetRetries = 1
    Concurrency = 1
    MaxPages = 7
    BaseDelay = 1
    MaxDelay = 1
    FailureThreshold = 5
    CircuitCooldown = 1
    NumProxies = 0
    ProxyCooldown = 0
    RateLimitedBurst = 2
    RetryAfterSeconds = 1
    BlockAfter = 1
    PageSize = 1
    Items = {1, 2, 3, 4}
    Catalogue = {1, 2, 4}
    Statements <- Stated
    MaxChanges = 2
    DriftMinEntries = 1
    DriftMaxUnmapped = 50
INVARIANTS SiteTypeOK CatalogueRecovered AdversaryYieldsNothing NoSilentLoss
    CursorMissesNothing PagesBounded
CHECK_DEADLOCK FALSE
