SPECIFICATION IngestSpec
CONSTANTS
    h1 = h1
    c1 = c1
    Hosts <- MCHosts
    Containers <- MCContainers
    HostOf <- MCHostOf
    CPUCriticalPercent = 90
    CPURecoveryPercent = 75
    MemCriticalPercent = 90
    MemRecoveryPercent = 75
    HysteresisWindow = 0
    MinConsecutiveNormalSamples = 1
    CPUSamples <- MCCPUSamples
    MemSamples <- MCMemSamples
    MaxTime = 1
    MaxStreak = 1
    MaxViewers = 0
    Handlers = {p1}
    SQL = TRUE
    FailingCalls = {"lookup"}
    MaxRestarts = 1
    MaxTransitions = 2
INVARIANTS
    RestartsNoticed
