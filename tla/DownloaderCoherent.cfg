\* One chain, three rotations: from a Chromium bundle to a Firefox one.
SPECIFICATION Spec
CONSTANTS
    Chains = {c1}
    InfraChains = {}
    Domains = {c1}
    DomainOf <- OwnDomain
    Responses <- CoreAnswers
    MaxRetries = 1
    MaxAttempts = 3
    MaxNetRetries = 0
    Concurrency = 2
    MaxPages = 1
    BaseDelay = 1
    MaxDelay = 1
    FailureThreshold = 4
    CircuitCooldown = 1
    NumProxies = 2
    ProxyCooldown = 1
PROPERTIES CoherentBundle
CHECK_DEADLOCK FALSE
