\* A shipped extractor and its robots.txt fetch: one crawl chain, every answer,
\* and a threshold as tight as the default settings have it (attempts + 1).
SPECIFICATION FairSpec
CONSTANTS
    Chains = {c1, c2}
    InfraChains = {c2}
    Domains = {shop}
    DomainOf <- SharedDomain
    Responses <- AllAnswers
    MaxRetries = 1
    MaxAttempts = 2
    MaxNetRetries = 1
    Concurrency = 1
    MaxPages = 2
    BaseDelay = 1
    MaxDelay = 2
    FailureThreshold = 3
    CircuitCooldown = 1
    NumProxies = 2
    ProxyCooldown = 2
INVARIANTS TypeOK NoneRefused
PROPERTIES CookieReplayed BlamesCarrier AllSettle
CHECK_DEADLOCK FALSE
