SPECIFICATION IngestSpec
CONSTANTS
    h1 = h1
    c1 = c1
    Hosts <- MCHosts
    Containers <- MCContainers
    HostOf <- MCHostOf
    CPUCriticalPercent = 90
    CPURecoveryPercent = 75
    MemCriticalPercent = 90
    MemRecoveryPercent = 75
    HysteresisWindow = 1
    MinConsecutiveNormalSamples = 2
    CPUSamples <- MCCPUSamples
    MemSamples <- MCMemSamples
    MaxTime = 2
    MaxStreak = 2
    MaxViewers = 0
    Handlers = {p1}
    SQL = TRUE
    FailingCalls = {}
    MaxRestarts = 0
    MaxTransitions = 2
INVARIANTS
    HistorySurvives
