CONSTANTS
    t1 = t1
    t2 = t2
    t3 = t3
    w1 = w1
    w2 = w2
    Tasks = {t1, t2, t3}
    Workers = {w1, w2}
    WorkerOf <- TwoProcesses
    NoOwner = NoOwner
    Gone = Gone
    Providers = {1, 2}
    FanoutProviders = {1}
    Subscribed <- MCSubscribed
    Deliveries <- MCDeliveries
    HasCooldown = TRUE
    MaxAttempts = 2
    MaxFaults = 0
    MaxFires = 1
    MaxGeneral = 1
    BatchSize = 1
SPECIFICATION MCSpec
INVARIANT ExhaustedFallbackIsCounted
CHECK_DEADLOCK FALSE
