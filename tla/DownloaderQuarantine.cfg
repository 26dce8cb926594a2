\* One chain and one proxy, which the first block quarantines.
SPECIFICATION Spec
CONSTANTS
    Chains = {c1}
    InfraChains = {}
    Domains = {c1}
    DomainOf <- OwnDomain
    Responses <- CoreAnswers
    MaxRetries = 1
    MaxAttempts = 1
    MaxNetRetries = 0
    Concurrency = 2
    MaxPages = 1
    BaseDelay = 1
    MaxDelay = 1
    FailureThreshold = 2
    CircuitCooldown = 1
    NumProxies = 1
    ProxyCooldown = 1
PROPERTIES QuarantineSkipped
CHECK_DEADLOCK FALSE
