------------------------- MODULE MonitoringHistory --------------------------
(***************************************************************************)
(* The monitoring engine observed: MonitoringEngine with history variables *)
(* that only record what happened.  They change no engine step; they let   *)
(* the engine's counter be compared with the samples it stands for.        *)
(***************************************************************************)
EXTENDS MonitoringEngine, Sequences

CONSTANT MaxEvidence    \* bound on the samples recorded per critical period

ASSUME HistoryAssumption == MaxEvidence \in Nat

VARIABLES
    evidence,   \* entity -> samples evaluated since it became critical
    enteredAt,  \* entity -> when it last became critical
    era         \* flips at every restart

historyVars == <<st, now, evidence, enteredAt, era>>

HistoryInit ==
    /\ EngineInit
    /\ evidence = [e \in Entities |-> <<>>]
    /\ enteredAt = [e \in Entities |-> ZeroTime]
    /\ era = 0

Observed(e, m) == Append(evidence[e], [clean |-> IsClean(m), at |-> now])

ObserveTrip(e) ==
    /\ enteredAt' = [enteredAt EXCEPT ![e] = now]
    /\ UNCHANGED <<evidence, era>>

ObserveSample(e, m) ==
    /\ Len(evidence[e]) < MaxEvidence
    /\ evidence' = [evidence EXCEPT ![e] = Observed(e, m)]
    /\ UNCHANGED <<enteredAt, era>>

ObserveRecovery(e) ==
    /\ evidence' = [evidence EXCEPT ![e] = <<>>]
    /\ UNCHANGED <<enteredAt, era>>

ObserveNothing == UNCHANGED <<evidence, enteredAt, era>>

ObserveRestart ==
    /\ evidence' = [e \in Entities |-> <<>>]
    /\ enteredAt' = [e \in Entities |-> ZeroTime]
    /\ era' = 1 - era

MetricStep(e, m) ==
    /\ EvaluateMetric(e, m)
    /\ \/ ~st[e].criticalActive /\ st'[e].criticalActive /\ ObserveTrip(e)
       \/ ~st[e].criticalActive /\ ~st'[e].criticalActive /\ ObserveNothing
       \/ st[e].criticalActive /\ st'[e].criticalActive /\ ObserveSample(e, m)
       \/ st[e].criticalActive /\ ~st'[e].criticalActive /\ ObserveRecovery(e)

HealthStep(c, r) ==
    /\ EvaluateContainerHealth(c, r)
    /\ \/ Transitioned(c) /\ ObserveTrip(c)
       \/ ~Transitioned(c) /\ ObserveNothing

ViewerStep(e) ==
    /\ ManualViewerOpen(e) \/ ManualViewerClose(e)
    /\ ObserveNothing

TickStep == Tick /\ ObserveNothing

RestartStep == Restart /\ ObserveRestart

HistoryNext ==
    \/ \E e \in Entities, m \in Metrics : MetricStep(e, m)
    \/ \E c \in Containers, r \in Reports : HealthStep(c, r)
    \/ \E e \in Entities : ViewerStep(e)
    \/ TickStep
    \/ RestartStep

HistorySpec == HistoryInit /\ [][HistoryNext]_historyVars

-----------------------------------------------------------------------------
Rule == INSTANCE HysteresisRule
            WITH critical <- [e \in Entities |-> st[e].criticalActive]

\* The engine's counter and start time (engine.go:96-101, 198-221) decide
\* recovery exactly as the rule on the full list of samples does: no sooner,
\* and not one sample later.
ImplementsHysteresis == Rule!RuleSpec

\* n and start describe the longest run of clean samples that ends h.
Summarised(h, n, start) ==
    /\ n <= Len(h)
    /\ \A j \in (Len(h) - n + 1)..Len(h) : h[j].clean
    /\ n < Len(h) => ~h[Len(h) - n].clean
    /\ n > 0 => start = h[Len(h) - n + 1].at

\* Counter and start summarise the samples since the entity became critical:
\* the last goodStreakCount of them are clean, the one before is not, and
\* goodStreakStart is when the first of them was taken (engine.go:204-213).
StreakSummarisesEvidence ==
    \A e \in Entities :
        Summarised(evidence[e], st[e].goodStreakCount, st[e].goodStreakStart)

\* A critical period that ends by recovery lasted at least HysteresisWindow,
\* so the mode cannot alternate faster than that (engine.go:41-43).  A restart
\* ends a critical period with no such guarantee.
CriticalDwell ==
    [][\A e \in Entities :
            st[e].criticalActive /\ ~st'[e].criticalActive /\ ~RestartStep
                => now - enteredAt[e] >= HysteresisWindow]_historyVars
=============================================================================
