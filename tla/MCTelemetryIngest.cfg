SPECIFICATION IngestSpec
CONSTANTS
    h1 = h1
    c1 = c1
    Hosts <- MCHosts
    Containers <- MCContainers
    HostOf <- MCHostOf
    CPUCriticalPercent = 90
    CPURecoveryPercent = 75
    MemCriticalPercent = 90
    MemRecoveryPercent = 75
    HysteresisWindow = 0
    MinConsecutiveNormalSamples = 1
    CPUSamples <- MCCPUSamples
    MemSamples <- MCMemSamples
    MaxTime = 2
    MaxStreak = 1
    MaxViewers = 1
    Handlers = {p1, p2}
    SQL = TRUE
    FailingCalls = {"append", "write"}
    MaxRestarts = 1
    MaxTransitions = 2
SYMMETRY Interchangeable
CONSTRAINT LimitedOverlap
VIEW Relevant
INVARIANTS
    IngestTypeOK
    StoredModeCoherent
    AnswerKeepsUp
    KnownTransitionsLogged
    RestartsNoticed
