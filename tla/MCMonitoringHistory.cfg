SPECIFICATION HistorySpec
CONSTANTS
    c1 = c1
    Hosts <- MCHosts
    Containers <- MCContainers
    CPUCriticalPercent = 90
    CPURecoveryPercent = 75
    MemCriticalPercent = 90
    MemRecoveryPercent = 75
    HysteresisWindow = 2
    MinConsecutiveNormalSamples = 3
    CPUSamples <- MCCPUSamples
    MemSamples <- MCMemSamples
    MaxTime = 5
    MaxStreak = 5
    MaxViewers = 2
    MaxEvidence = 5
INVARIANTS
    EngineTypeOK
    StreakDiscipline
    StreakSummarisesEvidence
PROPERTIES
    ImplementsHysteresis
    CriticalDwell
