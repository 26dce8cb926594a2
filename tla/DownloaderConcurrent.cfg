\* Two chains of one domain: what holds whatever is in flight.
SPECIFICATION Spec
CONSTANTS
    Chains = {c1, c2}
    InfraChains = {}
    Domains = {shop}
    DomainOf <- SharedDomain
    Responses <- CoreAnswers
    MaxRetries = 1
    MaxAttempts = 1
    MaxNetRetries = 0
    Concurrency = 2
    MaxPages = 2
    BaseDelay = 1
    MaxDelay = 1
    FailureThreshold = 2
    CircuitCooldown = 1
    NumProxies = 2
    ProxyCooldown = 1
INVARIANTS WithinBudget CurrentProxyHealthy FriendlyUnaffected
PROPERTIES ImplementsFate
CHECK_DEADLOCK FALSE
