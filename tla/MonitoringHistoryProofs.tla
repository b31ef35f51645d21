---------------------- MODULE MonitoringHistoryProofs -----------------------
(***************************************************************************)
(* Proofs about the monitoring engine, for every set of entities, every    *)
(* threshold, every window and every sample floor.                         *)
(***************************************************************************)
EXTENDS MonitoringHistory, TLAPS

USE DEF ZeroTime

-----------------------------------------------------------------------------
(* The engine alone.                                                       *)

\* Every step of the engine leaves the types of its state right.
LEMMA EngineTypeStep ==
    ASSUME EngineTypeOK, [EngineNext]_engineVars
    PROVE  EngineTypeOK'
<1> USE EngineAssumption DEF EngineTypeOK, EntityState
<1>1. ASSUME NEW e \in Entities, NEW m \in Metrics, EvaluateMetric(e, m)
      PROVE  EngineTypeOK'
  <2>1. StreakStart(e) \in Nat
    BY DEF StreakStart
  <2>2. CASE TripOnMetric(e, m)
    BY <2>2 DEF TripOnMetric
  <2>3. CASE StayNormal(e, m)
    BY <2>3 DEF StayNormal, engineVars
  <2>4. CASE BreakStreak(e, m)
    BY <2>4 DEF BreakStreak
  <2>5. CASE ExtendStreak(e, m)
    BY <2>1, <2>5 DEF ExtendStreak
  <2>6. CASE Recover(e, m)
    BY <2>6 DEF Recover
  <2> QED BY <1>1, <2>2, <2>3, <2>4, <2>5, <2>6 DEF EvaluateMetric
<1>2. ASSUME NEW c \in Containers, NEW r \in Reports, EvaluateContainerHealth(c, r)
      PROVE  EngineTypeOK'
  <2>1. c \in Entities
    BY DEF Entities
  <2>2. CASE TripOnHealth(c, r)
    BY <2>1, <2>2 DEF TripOnHealth
  <2>3. CASE IgnoreHealth(c, r)
    BY <2>3 DEF IgnoreHealth, engineVars
  <2> QED BY <1>2, <2>2, <2>3 DEF EvaluateContainerHealth
<1>3. ASSUME NEW e \in Entities, ManualViewerOpen(e)
      PROVE  EngineTypeOK'
  BY <1>3 DEF ManualViewerOpen
<1>4. ASSUME NEW e \in Entities, ManualViewerClose(e)
      PROVE  EngineTypeOK'
  BY <1>4 DEF ManualViewerClose
<1>5. CASE Tick
  BY <1>5 DEF Tick
<1>6. CASE Restart
  BY <1>6 DEF Restart, Fresh
<1>7. CASE UNCHANGED engineVars
  BY <1>7 DEF engineVars
<1> QED BY <1>1, <1>2, <1>3, <1>4, <1>5, <1>6, <1>7 DEF EngineNext

\* Every step of the engine keeps the streak empty outside CRITICAL.
LEMMA StreakStep ==
    ASSUME EngineTypeOK, StreakDiscipline, [EngineNext]_engineVars
    PROVE  StreakDiscipline'
<1> USE EngineAssumption DEF EngineTypeOK, EntityState, StreakDiscipline
<1>1. ASSUME NEW e \in Entities, NEW m \in Metrics, EvaluateMetric(e, m)
      PROVE  StreakDiscipline'
  <2>1. CASE TripOnMetric(e, m)
    BY <2>1 DEF TripOnMetric
  <2>2. CASE StayNormal(e, m)
    BY <2>2 DEF StayNormal, engineVars
  <2>3. CASE BreakStreak(e, m)
    BY <2>3 DEF BreakStreak
  <2>4. CASE ExtendStreak(e, m)
    BY <2>4 DEF ExtendStreak, StreakStart
  <2>5. CASE Recover(e, m)
    BY <2>5 DEF Recover
  <2> QED BY <1>1, <2>1, <2>2, <2>3, <2>4, <2>5 DEF EvaluateMetric
<1>2. ASSUME NEW c \in Containers, NEW r \in Reports, EvaluateContainerHealth(c, r)
      PROVE  StreakDiscipline'
  BY <1>2 DEF EvaluateContainerHealth, TripOnHealth, IgnoreHealth, engineVars, Entities
<1>3. ASSUME NEW e \in Entities, ManualViewerOpen(e)
      PROVE  StreakDiscipline'
  BY <1>3 DEF ManualViewerOpen
<1>4. ASSUME NEW e \in Entities, ManualViewerClose(e)
      PROVE  StreakDiscipline'
  BY <1>4 DEF ManualViewerClose
<1>5. CASE Tick
  BY <1>5 DEF Tick
<1>6. CASE Restart
  BY <1>6 DEF Restart, Fresh
<1>7. CASE UNCHANGED engineVars
  BY <1>7 DEF engineVars
<1> QED BY <1>1, <1>2, <1>3, <1>4, <1>5, <1>6, <1>7 DEF EngineNext

\* The state NewEngine builds satisfies both engine invariants.
LEMMA EngineInitially == EngineInit => EngineTypeOK /\ StreakDiscipline
BY DEF EngineInit, EngineTypeOK, EntityState, StreakDiscipline, Fresh

\* The engine's state has its declared types whatever is called, and in
\* whatever order.
THEOREM EngineTypeCorrect == EngineSpec => []EngineTypeOK
<1>1. EngineInit => EngineTypeOK
  BY EngineInitially
<1>2. EngineTypeOK /\ [EngineNext]_engineVars => EngineTypeOK'
  BY EngineTypeStep
<1> QED BY <1>1, <1>2, PTL DEF EngineSpec

\* No call sequence enters CRITICAL with a streak left over.
THEOREM EngineStreakDiscipline == EngineSpec => []StreakDiscipline
<1>1. EngineInit => StreakDiscipline
  BY EngineInitially
<1>2. EngineTypeOK /\ StreakDiscipline /\ [EngineNext]_engineVars => StreakDiscipline'
  BY StreakStep
<1> QED BY <1>1, <1>2, EngineTypeCorrect, PTL DEF EngineSpec

-----------------------------------------------------------------------------
(* The engine with its history.  HInv is the inductive invariant: the       *)
(* summary alone is not inductive, because that extending a streak keeps    *)
(* its start right needs the sample times to be ordered, and that a         *)
(* recovery ends a long enough period needs every sample to be later than   *)
(* the entry into CRITICAL.                                                 *)

Samples == [clean : BOOLEAN, at : Nat]

HistoryTypeOK ==
    /\ evidence \in [Entities -> Seq(Samples)]
    /\ enteredAt \in [Entities -> Nat]

\* The samples of one critical period, in the order of their times, none
\* before the entry and none in the future.
Ordered(h, enter, t) ==
    /\ \A i \in 1..Len(h) : enter <= h[i].at /\ h[i].at <= t
    /\ \A i, j \in 1..Len(h) : i <= j => h[i].at <= h[j].at

EvidenceOrdered ==
    \A e \in Entities :
        /\ ~st[e].criticalActive => evidence[e] = <<>>
        /\ enteredAt[e] <= now
        /\ Ordered(evidence[e], enteredAt[e], now)

HInv ==
    /\ EngineTypeOK
    /\ StreakDiscipline
    /\ HistoryTypeOK
    /\ EvidenceOrdered
    /\ StreakSummarisesEvidence

\* Dropping the history variables from a step leaves a step of the engine.
LEMMA HistoryStepIsEngineStep ==
    ASSUME [HistoryNext]_historyVars
    PROVE  [EngineNext]_engineVars
BY DEF HistoryNext, historyVars, EngineNext, engineVars, MetricStep, HealthStep,
       ViewerStep, TickStep, RestartStep

\* The inductive invariant holds before the first call.
LEMMA HistoryInitially == HistoryInit => HInv
<1> SUFFICES ASSUME HistoryInit PROVE HInv
  OBVIOUS
<1>1. EngineTypeOK /\ StreakDiscipline
  BY EngineInitially DEF HistoryInit
<1>2. HistoryTypeOK
  BY DEF HistoryInit, HistoryTypeOK
<1>3. EvidenceOrdered
  BY DEF HistoryInit, EngineInit, EvidenceOrdered, Ordered
<1>4. StreakSummarisesEvidence
  BY DEF HistoryInit, EngineInit, Fresh, StreakSummarisesEvidence, Summarised
<1> QED BY <1>1, <1>2, <1>3, <1>4 DEF HInv

\* Appending a sample taken now keeps the sample times ordered.
LEMMA OrderedAppend ==
    ASSUME NEW h \in Seq(Samples), NEW enter \in Nat, NEW t \in Nat,
           NEW clean \in BOOLEAN, enter <= t, Ordered(h, enter, t)
    PROVE  Ordered(Append(h, [clean |-> clean, at |-> t]), enter, t)
<1> DEFINE s == [clean |-> clean, at |-> t]
           g == Append(h, s)
<1>1. /\ Len(g) = Len(h) + 1
      /\ g[Len(h) + 1] = s
      /\ \A i \in 1..Len(h) : g[i] = h[i]
  BY DEF Samples
<1>2. \A i \in 1..Len(h) : h[i] \in Samples
  OBVIOUS
<1> HIDE DEF g
<1>3. \A i \in 1..Len(g) : enter <= g[i].at /\ g[i].at <= t
  BY <1>1, <1>2 DEF Ordered, Samples
<1>4. ASSUME NEW i \in 1..Len(g), NEW j \in 1..Len(g), i <= j
      PROVE  g[i].at <= g[j].at
  <2>1. CASE j = Len(g)
    BY <1>1, <1>3, <2>1
  <2>2. CASE j # Len(g)
    <3>1. i \in 1..Len(h) /\ j \in 1..Len(h)
      BY <1>1, <1>4, <2>2
    <3> QED BY <1>1, <1>4, <3>1 DEF Ordered
  <2> QED BY <2>1, <2>2
<1> QED BY <1>3, <1>4 DEF Ordered, g

\* A clean sample lengthens the summarised streak by one.
LEMMA SummarisedClean ==
    ASSUME NEW h \in Seq(Samples), NEW n \in Nat, NEW start \in Nat, NEW t \in Nat,
           Summarised(h, n, start)
    PROVE  Summarised(Append(h, [clean |-> TRUE, at |-> t]), n + 1,
                      IF n = 0 THEN t ELSE start)
<1> DEFINE s == [clean |-> TRUE, at |-> t]
           g == Append(h, s)
<1>1. /\ Len(g) = Len(h) + 1
      /\ g[Len(h) + 1] = s
      /\ \A i \in 1..Len(h) : g[i] = h[i]
  BY DEF Samples
<1> HIDE DEF g
<1>2. n + 1 <= Len(g)
  BY <1>1 DEF Summarised
<1>3. ASSUME NEW j \in (Len(g) - (n + 1) + 1)..Len(g) PROVE g[j].clean
  <2>1. CASE j = Len(g)
    BY <1>1, <2>1
  <2>2. CASE j # Len(g)
    <3>1. j \in (Len(h) - n + 1)..Len(h) /\ j \in 1..Len(h)
      BY <1>1, <1>2, <2>2
    <3> QED BY <1>1, <3>1 DEF Summarised
  <2> QED BY <2>1, <2>2
<1>4. n + 1 < Len(g) => ~g[Len(g) - (n + 1)].clean
  <2> SUFFICES ASSUME n + 1 < Len(g)
               PROVE  ~g[Len(g) - (n + 1)].clean
    OBVIOUS
  <2>1. n < Len(h) /\ Len(h) \in Nat /\ Len(h) - n \in 1..Len(h)
    BY <1>1
  <2>2. Len(g) - (n + 1) = Len(h) - n
    BY <1>1, <2>1
  <2> QED BY <1>1, <2>1, <2>2 DEF Summarised
<1>5. (IF n = 0 THEN t ELSE start) = g[Len(g) - (n + 1) + 1].at
  <2>1. Len(g) - (n + 1) + 1 = Len(h) + 1 - n
    BY <1>1
  <2>2. CASE n = 0
    BY <1>1, <2>1, <2>2
  <2>3. CASE n > 0
    <3>1. start = h[Len(h) - n + 1].at
      BY <2>3 DEF Summarised
    <3>2. Len(h) + 1 - n = Len(h) - n + 1 /\ Len(h) - n + 1 \in 1..Len(h)
      BY <2>3 DEF Summarised
    <3> QED BY <1>1, <2>1, <2>3, <3>1, <3>2
  <2> QED BY <2>2, <2>3
<1> QED BY <1>2, <1>3, <1>4, <1>5 DEF Summarised, g

\* Any other sample empties it.
LEMMA SummarisedBroken ==
    ASSUME NEW h \in Seq(Samples), NEW t \in Nat
    PROVE  Summarised(Append(h, [clean |-> FALSE, at |-> t]), 0, ZeroTime)
BY DEF Summarised, Samples

\* The counter's verdict is the rule's verdict (engine.go:213-215): the
\* longest clean run that ends now is also the oldest.
LEMMA MatureIffJustified ==
    ASSUME HInv, NEW e \in Entities, st[e].criticalActive
    PROVE  StreakMature(e)
             <=> Rule!Justified(Append(evidence[e], [clean |-> TRUE, at |-> now]), now)
<1> DEFINE s == [clean |-> TRUE, at |-> now]
           h == evidence[e]
           g == Append(h, s)
           n == st[e].goodStreakCount
           first == Len(g) - n
<1>0. /\ h \in Seq(Samples)
      /\ n \in Nat
      /\ st[e].goodStreakStart \in Nat
      /\ now \in Nat
      /\ enteredAt[e] \in Nat
  BY DEF HInv, HistoryTypeOK, EngineTypeOK, EntityState
<1>1. /\ Len(g) = Len(h) + 1
      /\ g[Len(h) + 1] = s
      /\ \A i \in 1..Len(h) : g[i] = h[i]
      /\ g \in Seq(Samples)
  BY <1>0 DEF Samples
<1>2. Summarised(h, n, st[e].goodStreakStart)
  BY DEF HInv, StreakSummarisesEvidence
<1>3. Ordered(g, enteredAt[e], now)
  <2>1. Ordered(h, enteredAt[e], now) /\ enteredAt[e] <= now
    BY DEF HInv, EvidenceOrdered
  <2> QED BY <2>1, <1>0, OrderedAppend
<1>4. Summarised(g, n + 1, StreakStart(e))
  BY <1>0, <1>2, SummarisedClean DEF StreakStart
<1>5. \A i \in 1..Len(g) : g[i].at \in Nat
  <2>1. \A i \in 1..Len(g) : g[i] \in Samples
    BY <1>1
  <2> QED BY <2>1 DEF Samples
<1> HIDE DEF g, h, n, s
<1>6. /\ StreakStart(e) = g[first].at
      /\ first \in 1..Len(g)
      /\ \A j \in first..Len(g) : g[j].clean
      /\ first > 1 => ~g[first - 1].clean
  <2>1. /\ Len(h) \in Nat
        /\ first = Len(g) - (n + 1) + 1
        /\ first - 1 = Len(g) - (n + 1)
    BY <1>0, <1>1
  <2>2. n + 1 <= Len(g)
    BY <1>4 DEF Summarised
  <2>3. \A j \in (Len(g) - (n + 1) + 1)..Len(g) : g[j].clean
    BY <1>4 DEF Summarised
  <2>4. n + 1 < Len(g) => ~g[Len(g) - (n + 1)].clean
    BY <1>4 DEF Summarised
  <2>5. n + 1 > 0 => StreakStart(e) = g[Len(g) - (n + 1) + 1].at
    BY <1>4 DEF Summarised
  <2> QED BY <1>0, <1>1, <2>1, <2>2, <2>3, <2>4, <2>5
<1>7. ASSUME StreakMature(e)
      PROVE  Rule!Justified(g, now)
  <2>1. \A j \in first..Len(g) : g[j].clean
    BY <1>6
  <2>2. Len(g) - first + 1 >= MinConsecutiveNormalSamples
    <3>1. n + 1 >= MinConsecutiveNormalSamples
      BY <1>7 DEF StreakMature, n
    <3>2. Len(g) - first + 1 = n + 1
      BY <1>0, <1>1
    <3> QED BY <3>1, <3>2
  <2>3. now - g[first].at >= HysteresisWindow
    BY <1>6, <1>7 DEF StreakMature
  <2> QED BY <1>6, <2>1, <2>2, <2>3 DEF Rule!Justified
<1>8. ASSUME Rule!Justified(g, now)
      PROVE  StreakMature(e)
  <2>1. PICK i \in 1..Len(g) :
            /\ \A j \in i..Len(g) : g[j].clean
            /\ Len(g) - i + 1 >= MinConsecutiveNormalSamples
            /\ now - g[i].at >= HysteresisWindow
    BY <1>8 DEF Rule!Justified
  <2>2. first <= i
    BY <1>0, <1>1, <1>6, <2>1
  <2>3. g[first].at <= g[i].at
    BY <1>3, <1>6, <2>1, <2>2 DEF Ordered
  <2>4. n + 1 >= MinConsecutiveNormalSamples
    BY <1>0, <1>1, <2>1, <2>2, EngineAssumption
  <2>5. now - g[first].at >= HysteresisWindow
    <3> DEFINE x == g[first].at
               y == g[i].at
    <3>1. x \in Nat /\ y \in Nat /\ x <= y /\ now - y >= HysteresisWindow
      BY <1>5, <1>6, <2>1, <2>3
    <3> HIDE DEF x, y
    <3>2. now - x >= HysteresisWindow
      BY <1>0, <3>1, EngineAssumption
    <3> QED BY <3>2 DEF x
  <2> QED BY <1>6, <2>4, <2>5 DEF StreakMature, n
<1> QED BY <1>7, <1>8 DEF g, h, s

-----------------------------------------------------------------------------
(* The history variables along a step.                                      *)

\* An entity with no evidence has its samples in order.
LEMMA OrderedEmpty == ASSUME NEW enter, NEW t PROVE Ordered(<<>>, enter, t)
BY DEF Ordered

\* An empty streak summarises no evidence.
LEMMA SummarisedEmpty == ASSUME NEW start PROVE Summarised(<<>>, 0, start)
BY DEF Summarised

\* The order of the samples survives the passage of time.
LEMMA OrderedLater ==
    ASSUME NEW h \in Seq(Samples), NEW enter \in Nat, NEW t \in Nat, NEW u \in Nat,
           t <= u, Ordered(h, enter, t)
    PROVE  Ordered(h, enter, u)
<1>1. \A i \in 1..Len(h) : h[i].at \in Nat
  <2>1. \A i \in 1..Len(h) : h[i] \in Samples
    OBVIOUS
  <2> QED BY <2>1 DEF Samples
<1>2. ASSUME NEW i \in 1..Len(h) PROVE h[i].at <= u
  BY <1>1 DEF Ordered
<1> QED BY <1>2 DEF Ordered

\* What a metric does to the entity it is for, in the terms of the invariant.
LEMMA MetricEffect ==
    ASSUME HInv, NEW e \in Entities, NEW m \in Metrics, MetricStep(e, m)
    PROVE  /\ now' = now /\ era' = era
           /\ \/ /\ st'[e] = st[e]
                 /\ evidence' = evidence
                 /\ enteredAt' = enteredAt
              \/ /\ ~st[e].criticalActive
                 /\ st'[e].criticalActive
                 /\ st'[e].goodStreakCount = 0
                 /\ enteredAt' = [enteredAt EXCEPT ![e] = now]
                 /\ evidence' = evidence
              \/ /\ st[e].criticalActive
                 /\ st'[e].criticalActive
                 /\ ~IsClean(m)
                 /\ st'[e].goodStreakCount = 0
                 /\ st'[e].goodStreakStart = ZeroTime
                 /\ evidence' = [evidence EXCEPT ![e] = Observed(e, m)]
                 /\ enteredAt' = enteredAt
              \/ /\ st[e].criticalActive
                 /\ st'[e].criticalActive
                 /\ IsClean(m)
                 /\ ~StreakMature(e)
                 /\ st'[e].goodStreakCount = st[e].goodStreakCount + 1
                 /\ st'[e].goodStreakStart = StreakStart(e)
                 /\ evidence' = [evidence EXCEPT ![e] = Observed(e, m)]
                 /\ enteredAt' = enteredAt
              \/ /\ st[e].criticalActive
                 /\ ~st'[e].criticalActive
                 /\ IsClean(m)
                 /\ StreakMature(e)
                 /\ st'[e].goodStreakCount = 0
                 /\ evidence' = [evidence EXCEPT ![e] = <<>>]
                 /\ enteredAt' = enteredAt
           /\ \A f \in Entities \ {e} : st'[f] = st[f]
<1> USE DEF HInv, EngineTypeOK, EntityState
<1>1. CASE TripOnMetric(e, m)
  BY <1>1 DEF MetricStep, TripOnMetric, ObserveTrip
<1>2. CASE StayNormal(e, m)
  BY <1>2 DEF MetricStep, StayNormal, engineVars, ObserveNothing
<1>3. CASE BreakStreak(e, m)
  BY <1>3 DEF MetricStep, BreakStreak, ObserveSample
<1>4. CASE ExtendStreak(e, m)
  BY <1>4 DEF MetricStep, ExtendStreak, ObserveSample
<1>5. CASE Recover(e, m)
  BY <1>5 DEF MetricStep, Recover, ObserveRecovery
<1> QED BY <1>1, <1>2, <1>3, <1>4, <1>5 DEF MetricStep, EvaluateMetric

\* The same for a health report.
LEMMA HealthEffect ==
    ASSUME HInv, NEW c \in Containers, NEW r \in Reports, HealthStep(c, r)
    PROVE  /\ now' = now /\ era' = era
           /\ evidence' = evidence
           /\ \/ st' = st /\ enteredAt' = enteredAt
              \/ /\ ~st[c].criticalActive
                 /\ st'[c].criticalActive
                 /\ st'[c].goodStreakCount = st[c].goodStreakCount
                 /\ st'[c].goodStreakStart = st[c].goodStreakStart
                 /\ enteredAt' = [enteredAt EXCEPT ![c] = now]
           /\ \A f \in Entities \ {c} : st'[f] = st[f]
<1> USE DEF HInv, EngineTypeOK, EntityState, Entities
<1>1. CASE TripOnHealth(c, r)
  BY <1>1 DEF HealthStep, TripOnHealth, ObserveTrip, ObserveNothing, Transitioned
<1>2. CASE IgnoreHealth(c, r)
  BY <1>2 DEF HealthStep, IgnoreHealth, engineVars, ObserveNothing, Transitioned
<1> QED BY <1>1, <1>2 DEF HealthStep, EvaluateContainerHealth

\* Every observed step leaves the types of the history right.
LEMMA HistoryTypeStep ==
    ASSUME HInv, [HistoryNext]_historyVars
    PROVE  HistoryTypeOK'
<1> USE DEF HInv, HistoryTypeOK, EngineTypeOK
<1>1. ASSUME NEW e \in Entities, NEW m \in Metrics, MetricStep(e, m)
      PROVE  HistoryTypeOK'
  <2>1. Observed(e, m) \in Seq(Samples)
    BY DEF Observed, Samples, IsClean
  <2>2. <<>> \in Seq(Samples)
    OBVIOUS
  <2> HIDE DEF HInv
  <2>3. \/ evidence' = evidence
        \/ evidence' = [evidence EXCEPT ![e] = Observed(e, m)]
        \/ evidence' = [evidence EXCEPT ![e] = <<>>]
    BY <1>1, MetricEffect
  <2>4. enteredAt' = enteredAt \/ enteredAt' = [enteredAt EXCEPT ![e] = now]
    BY <1>1, MetricEffect
  <2>5. evidence \in [Entities -> Seq(Samples)] /\ enteredAt \in [Entities -> Nat] /\ now \in Nat
    BY DEF HInv
  <2> QED BY <2>1, <2>2, <2>3, <2>4, <2>5
<1>2. ASSUME NEW c \in Containers, NEW r \in Reports, HealthStep(c, r)
      PROVE  HistoryTypeOK'
  BY <1>2, HealthEffect
<1>3. CASE \E e \in Entities : ViewerStep(e)
  BY <1>3 DEF ViewerStep, ObserveNothing
<1>4. CASE TickStep
  BY <1>4 DEF TickStep, ObserveNothing
<1>5. CASE RestartStep
  BY <1>5 DEF RestartStep, ObserveRestart
<1>6. CASE UNCHANGED historyVars
  BY <1>6 DEF historyVars
<1> QED BY <1>1, <1>2, <1>3, <1>4, <1>5, <1>6 DEF HistoryNext

\* What the invariant says of one entity.
Part(e) ==
    /\ ~st[e].criticalActive => evidence[e] = <<>>
    /\ enteredAt[e] <= now
    /\ Ordered(evidence[e], enteredAt[e], now)
    /\ Summarised(evidence[e], st[e].goodStreakCount, st[e].goodStreakStart)

\* The two invariants about evidence, read one entity at a time.
LEMMA Parts == (EvidenceOrdered /\ StreakSummarisesEvidence) <=> \A e \in Entities : Part(e)
BY DEF EvidenceOrdered, StreakSummarisesEvidence, Part

\* A step that leaves an entity alone keeps its part of the invariant.
LEMMA PartUnchanged ==
    ASSUME NEW f, Part(f), st'[f] = st[f], evidence'[f] = evidence[f],
           enteredAt'[f] = enteredAt[f], now' = now
    PROVE  Part(f)'
BY DEF Part, Ordered, Summarised

\* Evaluating a metric keeps the part of the entity it is for.
LEMMA PartMetric ==
    ASSUME HInv, NEW e \in Entities, NEW m \in Metrics, MetricStep(e, m)
    PROVE  Part(e)'
<1>0. /\ evidence \in [Entities -> Seq(Samples)]
      /\ enteredAt \in [Entities -> Nat]
      /\ now \in Nat
      /\ st[e] \in EntityState
      /\ Part(e)
      /\ st[e].goodStreakCount = 0 <=> st[e].goodStreakStart = ZeroTime
      /\ ~st[e].criticalActive => st[e].goodStreakCount = 0
  BY Parts DEF HInv, HistoryTypeOK, EngineTypeOK, StreakDiscipline
<1> DEFINE h == evidence[e]
<1>1. /\ h \in Seq(Samples)
      /\ enteredAt[e] \in Nat
      /\ st[e].goodStreakCount \in Nat
      /\ st[e].goodStreakStart \in Nat
      /\ enteredAt[e] <= now
      /\ Ordered(h, enteredAt[e], now)
      /\ Summarised(h, st[e].goodStreakCount, st[e].goodStreakStart)
  BY <1>0 DEF Part, EntityState
<1>2. now' = now
  BY MetricEffect
<1>3. CASE st'[e] = st[e] /\ evidence' = evidence /\ enteredAt' = enteredAt
  BY <1>0, <1>2, <1>3, PartUnchanged
<1>4. CASE /\ ~st[e].criticalActive
           /\ st'[e].criticalActive
           /\ st'[e].goodStreakCount = 0
           /\ enteredAt' = [enteredAt EXCEPT ![e] = now]
           /\ evidence' = evidence
  <2>1. evidence'[e] = <<>> /\ enteredAt'[e] = now
    BY <1>0, <1>4 DEF Part
  <2>2. Ordered(evidence'[e], enteredAt'[e], now')
    BY <2>1, OrderedEmpty
  <2>3. Summarised(evidence'[e], st'[e].goodStreakCount, st'[e].goodStreakStart)
    BY <1>4, <2>1, SummarisedEmpty
  <2> QED BY <1>0, <1>2, <1>4, <2>1, <2>2, <2>3 DEF Part
<1>5. CASE /\ st[e].criticalActive
           /\ st'[e].criticalActive
           /\ ~IsClean(m)
           /\ st'[e].goodStreakCount = 0
           /\ st'[e].goodStreakStart = ZeroTime
           /\ evidence' = [evidence EXCEPT ![e] = Observed(e, m)]
           /\ enteredAt' = enteredAt
  <2>1. evidence'[e] = Append(h, [clean |-> FALSE, at |-> now])
    BY <1>0, <1>5 DEF Observed, IsClean
  <2>2. Ordered(evidence'[e], enteredAt'[e], now')
    BY <1>0, <1>1, <1>2, <1>5, <2>1, OrderedAppend
  <2>3. Summarised(evidence'[e], st'[e].goodStreakCount, st'[e].goodStreakStart)
    BY <1>0, <1>1, <1>5, <2>1, SummarisedBroken
  <2> QED BY <1>1, <1>2, <1>5, <2>2, <2>3 DEF Part
<1>6. CASE /\ st[e].criticalActive
           /\ st'[e].criticalActive
           /\ IsClean(m)
           /\ ~StreakMature(e)
           /\ st'[e].goodStreakCount = st[e].goodStreakCount + 1
           /\ st'[e].goodStreakStart = StreakStart(e)
           /\ evidence' = [evidence EXCEPT ![e] = Observed(e, m)]
           /\ enteredAt' = enteredAt
  <2>1. evidence'[e] = Append(h, [clean |-> TRUE, at |-> now])
    BY <1>0, <1>6 DEF Observed, IsClean
  <2>2. Ordered(evidence'[e], enteredAt'[e], now')
    BY <1>0, <1>1, <1>2, <1>6, <2>1, OrderedAppend
  <2>3. Summarised(evidence'[e], st'[e].goodStreakCount, st'[e].goodStreakStart)
    <3>1. Summarised(Append(h, [clean |-> TRUE, at |-> now]), st[e].goodStreakCount + 1,
                     IF st[e].goodStreakCount = 0 THEN now ELSE st[e].goodStreakStart)
      BY <1>0, <1>1, SummarisedClean
    <3> QED BY <1>6, <2>1, <3>1 DEF StreakStart
  <2> QED BY <1>1, <1>2, <1>6, <2>2, <2>3 DEF Part
<1>7. CASE /\ st[e].criticalActive
           /\ ~st'[e].criticalActive
           /\ IsClean(m)
           /\ StreakMature(e)
           /\ st'[e].goodStreakCount = 0
           /\ evidence' = [evidence EXCEPT ![e] = <<>>]
           /\ enteredAt' = enteredAt
  <2>1. evidence'[e] = <<>>
    BY <1>0, <1>7
  <2> QED BY <1>1, <1>2, <1>7, <2>1, OrderedEmpty, SummarisedEmpty DEF Part
<1> HIDE DEF h
<1> QED BY <1>3, <1>4, <1>5, <1>6, <1>7, MetricEffect

\* Evaluating a health report keeps the part of its container.
LEMMA PartHealth ==
    ASSUME HInv, NEW c \in Containers, NEW r \in Reports, HealthStep(c, r)
    PROVE  Part(c)'
<1>0. /\ c \in Entities
      /\ enteredAt \in [Entities -> Nat]
      /\ now \in Nat
      /\ Part(c)
      /\ ~st[c].criticalActive => st[c].goodStreakCount = 0
  BY Parts DEF HInv, HistoryTypeOK, EngineTypeOK, StreakDiscipline, Entities
<1>1. now' = now /\ evidence' = evidence
  BY HealthEffect
<1>2. CASE st' = st /\ enteredAt' = enteredAt
  BY <1>0, <1>1, <1>2, PartUnchanged
<1>3. CASE /\ ~st[c].criticalActive
           /\ st'[c].criticalActive
           /\ st'[c].goodStreakCount = st[c].goodStreakCount
           /\ st'[c].goodStreakStart = st[c].goodStreakStart
           /\ enteredAt' = [enteredAt EXCEPT ![c] = now]
  <2>1. evidence'[c] = <<>> /\ enteredAt'[c] = now /\ st'[c].goodStreakCount = 0
    BY <1>0, <1>1, <1>3 DEF Part
  <2> QED BY <1>0, <1>1, <1>3, <2>1, OrderedEmpty, SummarisedEmpty DEF Part
<1> QED BY <1>2, <1>3, HealthEffect

\* Every observed step keeps the inductive invariant.
LEMMA HistoryStep ==
    ASSUME HInv, [HistoryNext]_historyVars
    PROVE  HInv'
<1>1. EngineTypeOK' /\ StreakDiscipline'
  BY HistoryStepIsEngineStep, EngineTypeStep, StreakStep DEF HInv
<1>2. HistoryTypeOK'
  BY HistoryTypeStep
<1>3. ASSUME NEW f \in Entities
      PROVE  Part(f)'
  <2>0. /\ Part(f)
        /\ evidence[f] \in Seq(Samples)
        /\ enteredAt[f] \in Nat
        /\ now \in Nat
        /\ st \in [Entities -> EntityState]
        /\ evidence \in [Entities -> Seq(Samples)]
        /\ enteredAt \in [Entities -> Nat]
    BY Parts DEF HInv, HistoryTypeOK, EngineTypeOK
  <2>1. ASSUME NEW e \in Entities, NEW m \in Metrics, MetricStep(e, m)
        PROVE  Part(f)'
    <3>1. CASE f = e
      BY <2>1, <3>1, PartMetric
    <3>2. CASE f # e
      <4>1. st'[f] = st[f] /\ now' = now
        BY <2>1, <3>2, MetricEffect
      <4>2. evidence'[f] = evidence[f] /\ enteredAt'[f] = enteredAt[f]
        BY <2>0, <2>1, <3>2, MetricEffect
      <4> QED BY <2>0, <4>1, <4>2, PartUnchanged
    <3> QED BY <3>1, <3>2
  <2>2. ASSUME NEW c \in Containers, NEW r \in Reports, HealthStep(c, r)
        PROVE  Part(f)'
    <3>1. CASE f = c
      BY <2>2, <3>1, PartHealth
    <3>2. CASE f # c
      <4>1. /\ st'[f] = st[f] /\ now' = now
            /\ evidence'[f] = evidence[f] /\ enteredAt'[f] = enteredAt[f]
        BY <2>0, <2>2, <3>2, HealthEffect
      <4> QED BY <2>0, <4>1, PartUnchanged
    <3> QED BY <3>1, <3>2
  <2>3. ASSUME NEW e \in Entities, ViewerStep(e)
        PROVE  Part(f)'
    <3>1. /\ now' = now /\ evidence' = evidence /\ enteredAt' = enteredAt
      BY <2>3 DEF ViewerStep, ManualViewerOpen, ManualViewerClose, ObserveNothing
    <3>2. /\ st'[f].criticalActive = st[f].criticalActive
          /\ st'[f].goodStreakCount = st[f].goodStreakCount
          /\ st'[f].goodStreakStart = st[f].goodStreakStart
      <4>1. CASE ManualViewerOpen(e)
        BY <2>0, <4>1 DEF ManualViewerOpen, EntityState
      <4>2. CASE ManualViewerClose(e)
        BY <2>0, <4>2 DEF ManualViewerClose, EntityState
      <4> QED BY <2>3, <4>1, <4>2 DEF ViewerStep
    <3> QED BY <2>0, <3>1, <3>2 DEF Part
  <2>4. CASE TickStep
    <3>1. st' = st /\ now' \in Nat /\ now <= now' /\ evidence' = evidence /\ enteredAt' = enteredAt
      BY <2>0, <2>4 DEF TickStep, Tick, ObserveNothing
    <3>2. Ordered(evidence[f], enteredAt[f], now')
      BY <2>0, <3>1, OrderedLater DEF Part
    <3>3. enteredAt[f] <= now'
      BY <2>0, <3>1 DEF Part
    <3> QED BY <2>0, <3>1, <3>2, <3>3 DEF Part
  <2>5. CASE RestartStep
    <3>1. /\ st'[f] = Fresh /\ evidence'[f] = <<>> /\ enteredAt'[f] = 0 /\ now' = now
      BY <2>5 DEF RestartStep, Restart, ObserveRestart
    <3> QED BY <2>0, <3>1, OrderedEmpty, SummarisedEmpty DEF Part, Fresh
  <2>6. CASE UNCHANGED historyVars
    BY <2>0, <2>6, PartUnchanged DEF historyVars
  <2> QED BY <2>1, <2>2, <2>3, <2>4, <2>5, <2>6 DEF HistoryNext
<1>4. EvidenceOrdered' /\ StreakSummarisesEvidence'
  BY <1>3 DEF EvidenceOrdered, StreakSummarisesEvidence, Part
<1> QED BY <1>1, <1>2, <1>4 DEF HInv

\* The counter and the start time always describe the samples they stand for.
THEOREM HistoryInvariant == HistorySpec => []HInv
<1>1. HInv /\ [HistoryNext]_historyVars => HInv'
  BY HistoryStep
<1> QED BY <1>1, HistoryInitially, PTL DEF HistorySpec

\* The invariant the runs check: the streak counter is never more, nor less,
\* than the clean samples that really ended the critical period so far.
THEOREM StreakIsSummary == HistorySpec => []StreakSummarisesEvidence
<1>1. HInv => StreakSummarisesEvidence
  BY DEF HInv
<1> QED BY <1>1, HistoryInvariant, PTL

\* Observing the engine changes none of its behaviours.
THEOREM HistoryIsEngine == HistorySpec => EngineSpec
<1>1. HistoryInit => EngineInit
  BY DEF HistoryInit
<1>2. [HistoryNext]_historyVars => [EngineNext]_engineVars
  BY HistoryStepIsEngineStep
<1> QED BY <1>1, <1>2, PTL DEF HistorySpec, EngineSpec

-----------------------------------------------------------------------------
(* The engine implements the hysteresis rule.                               *)

crit == [e \in Entities |-> st[e].criticalActive]

\* The initial states map to initial states of the hysteresis rule.
LEMMA RuleInitially == HistoryInit => Rule!RuleInit
BY DEF HistoryInit, EngineInit, Rule!RuleInit, Fresh

\* Evaluating a metric is a step of the rule, or a stutter.
LEMMA RuleMetric ==
    ASSUME HInv, NEW e \in Entities, NEW m \in Metrics, MetricStep(e, m)
    PROVE  [Rule!RuleNext]_(Rule!ruleVars)
<1>0. crit[e] = st[e].criticalActive /\ crit'[e] = st'[e].criticalActive
  BY DEF crit
<1>1. now' = now /\ era' = era /\ \A f \in Entities \ {e} : st'[f] = st[f]
  BY MetricEffect
<1>2. ASSUME st'[e].criticalActive = st[e].criticalActive
      PROVE  crit' = crit
  BY <1>1, <1>2 DEF crit
<1>3. ASSUME NEW b \in BOOLEAN, st'[e].criticalActive = b
      PROVE  crit' = [crit EXCEPT ![e] = b]
  BY <1>1, <1>3 DEF crit
<1>4. CASE st'[e] = st[e] /\ evidence' = evidence /\ enteredAt' = enteredAt
  BY <1>1, <1>2, <1>4 DEF Rule!ruleVars, crit
<1>5. CASE ~st[e].criticalActive /\ st'[e].criticalActive /\ evidence' = evidence
  <2>1. st'[e].criticalActive = TRUE
    BY <1>5, EngineTypeStep, HistoryStepIsEngineStep DEF HInv, EngineTypeOK, EntityState, HistoryNext
  <2>2. crit' = [crit EXCEPT ![e] = TRUE]
    BY <1>3, <2>1
  <2>3. Rule!Enter(e)
    BY <1>0, <1>1, <1>5, <2>2 DEF Rule!Enter, crit
  <2> QED BY <2>3 DEF Rule!RuleNext
<1>6. CASE /\ st[e].criticalActive /\ st'[e].criticalActive /\ ~IsClean(m)
           /\ evidence' = [evidence EXCEPT ![e] = Observed(e, m)]
  <2>1. Observed(e, m) = Append(evidence[e], [clean |-> FALSE, at |-> now])
    BY <1>6 DEF Observed, IsClean
  <2>2. st'[e].criticalActive = st[e].criticalActive
    BY <1>6, EngineTypeStep, HistoryStepIsEngineStep DEF HInv, EngineTypeOK, EntityState, HistoryNext
  <2>3. crit' = crit
    BY <1>2, <2>2
  <2>4. Rule!Remain(e, FALSE)
    BY <1>0, <1>1, <1>6, <2>1, <2>3 DEF Rule!Remain, crit
  <2> QED BY <2>4 DEF Rule!RuleNext
<1>7. CASE /\ st[e].criticalActive /\ st'[e].criticalActive /\ IsClean(m) /\ ~StreakMature(e)
           /\ evidence' = [evidence EXCEPT ![e] = Observed(e, m)]
  <2>1. Observed(e, m) = Append(evidence[e], [clean |-> TRUE, at |-> now])
    BY <1>7 DEF Observed, IsClean
  <2>2. st'[e].criticalActive = st[e].criticalActive
    BY <1>7, EngineTypeStep, HistoryStepIsEngineStep DEF HInv, EngineTypeOK, EntityState, HistoryNext
  <2>3. crit' = crit
    BY <1>2, <2>2
  <2>4. ~Rule!Justified(Append(evidence[e], [clean |-> TRUE, at |-> now]), now)
    BY <1>7, MatureIffJustified
  <2>5. Rule!Remain(e, TRUE)
    BY <1>0, <1>1, <1>7, <2>1, <2>3, <2>4 DEF Rule!Remain, crit
  <2> QED BY <2>5 DEF Rule!RuleNext
<1>8. CASE /\ st[e].criticalActive /\ ~st'[e].criticalActive /\ StreakMature(e)
           /\ evidence' = [evidence EXCEPT ![e] = <<>>]
  <2>1. st'[e].criticalActive = FALSE
    BY <1>8, EngineTypeStep, HistoryStepIsEngineStep DEF HInv, EngineTypeOK, EntityState, HistoryNext
  <2>2. crit' = [crit EXCEPT ![e] = FALSE]
    BY <1>3, <2>1
  <2>3. Rule!Justified(Append(evidence[e], [clean |-> TRUE, at |-> now]), now)
    BY <1>8, MatureIffJustified
  <2>4. Rule!Leave(e)
    BY <1>0, <1>1, <1>8, <2>2, <2>3 DEF Rule!Leave, crit
  <2> QED BY <2>4 DEF Rule!RuleNext
<1> QED BY <1>4, <1>5, <1>6, <1>7, <1>8, MetricEffect

\* Every observed step is a step of the rule, or a stutter.
LEMMA RuleStep ==
    ASSUME HInv, [HistoryNext]_historyVars
    PROVE  [Rule!RuleNext]_(Rule!ruleVars)
<1>0. st \in [Entities -> EntityState]
  BY DEF HInv, EngineTypeOK
<1>1. ASSUME NEW e \in Entities, NEW m \in Metrics, MetricStep(e, m)
      PROVE  [Rule!RuleNext]_(Rule!ruleVars)
  BY <1>1, RuleMetric
<1>2. ASSUME NEW c \in Containers, NEW r \in Reports, HealthStep(c, r)
      PROVE  [Rule!RuleNext]_(Rule!ruleVars)
  <2>1. c \in Entities /\ now' = now /\ evidence' = evidence /\ era' = era
    BY <1>2, HealthEffect DEF Entities
  <2>2. CASE st' = st
    BY <2>1, <2>2 DEF Rule!ruleVars
  <2>3. CASE ~st[c].criticalActive /\ st'[c].criticalActive
    <3>1. st'[c].criticalActive = TRUE
      BY <1>2, <2>1, <2>3, EngineTypeStep, HistoryStepIsEngineStep
         DEF HInv, EngineTypeOK, EntityState
    <3>2. \A f \in Entities \ {c} : st'[f] = st[f]
      BY <1>2, HealthEffect
    <3>3. crit' = [crit EXCEPT ![c] = TRUE]
      BY <2>1, <3>1, <3>2 DEF crit
    <3>4. Rule!Enter(c)
      BY <2>1, <2>3, <3>3 DEF Rule!Enter, crit
    <3> QED BY <2>1, <3>4 DEF Rule!RuleNext
  <2> QED BY <1>2, <2>2, <2>3, HealthEffect
<1>3. ASSUME NEW e \in Entities, ViewerStep(e)
      PROVE  [Rule!RuleNext]_(Rule!ruleVars)
  <2>1. now' = now /\ evidence' = evidence /\ era' = era
    BY <1>3 DEF ViewerStep, ManualViewerOpen, ManualViewerClose, ObserveNothing
  <2>2. \A f \in Entities : st'[f].criticalActive = st[f].criticalActive
    <3>1. CASE ManualViewerOpen(e)
      BY <1>0, <3>1 DEF ManualViewerOpen, EntityState
    <3>2. CASE ManualViewerClose(e)
      BY <1>0, <3>2 DEF ManualViewerClose, EntityState
    <3> QED BY <1>3, <3>1, <3>2 DEF ViewerStep
  <2> QED BY <2>1, <2>2 DEF Rule!ruleVars
<1>4. CASE TickStep
  BY <1>4 DEF TickStep, Tick, ObserveNothing, Rule!RuleNext, Rule!Advance
<1>5. CASE RestartStep
  BY <1>5 DEF RestartStep, Restart, ObserveRestart, Fresh, Rule!RuleNext, Rule!Reboot
<1>6. CASE UNCHANGED historyVars
  BY <1>6 DEF historyVars, Rule!ruleVars
<1> QED BY <1>1, <1>2, <1>3, <1>4, <1>5, <1>6 DEF HistoryNext

\* The counter leaves CRITICAL when, and only when, the samples since the entry
\* contain a clean run that is long enough and old enough.
THEOREM EngineImplementsHysteresis == HistorySpec => ImplementsHysteresis
<1>1. HInv /\ [HistoryNext]_historyVars => [Rule!RuleNext]_(Rule!ruleVars)
  BY RuleStep
<1> QED BY <1>1, RuleInitially, HistoryInvariant, PTL
        DEF HistorySpec, ImplementsHysteresis, Rule!RuleSpec

-----------------------------------------------------------------------------
(* The shortest critical period.                                            *)

\* A streak starts after the entry into CRITICAL it may end.
LEMMA StreakAfterEntry ==
    ASSUME HInv, NEW e \in Entities
    PROVE  StreakStart(e) \in Nat /\ enteredAt[e] <= StreakStart(e)
<1>1. /\ st[e] \in EntityState
      /\ evidence[e] \in Seq(Samples)
      /\ Part(e)
      /\ now \in Nat
  BY Parts DEF HInv, EngineTypeOK, HistoryTypeOK
<1>2. CASE st[e].goodStreakCount = 0
  BY <1>1, <1>2 DEF StreakStart, Part
<1>3. CASE st[e].goodStreakCount # 0
  <2> DEFINE k == Len(evidence[e]) - st[e].goodStreakCount + 1
  <2>1. k \in 1..Len(evidence[e]) /\ st[e].goodStreakStart = evidence[e][k].at
    BY <1>1, <1>3 DEF Part, Summarised, EntityState
  <2>2. enteredAt[e] <= evidence[e][k].at
    BY <1>1, <2>1 DEF Part, Ordered
  <2> QED BY <1>1, <1>3, <2>1, <2>2 DEF StreakStart, EntityState
<1> QED BY <1>2, <1>3

\* Every critical period that ends by recovery lasted a whole window.
THEOREM CriticalLastsTheWindow == HistorySpec => CriticalDwell
<1> DEFINE D == \A e \in Entities :
                   st[e].criticalActive /\ ~st'[e].criticalActive /\ ~RestartStep
                       => now - enteredAt[e] >= HysteresisWindow
<1>1. ASSUME HInv, HistoryNext PROVE D
  <2> SUFFICES ASSUME NEW f \in Entities,
                      st[f].criticalActive, ~st'[f].criticalActive, ~RestartStep
               PROVE  now - enteredAt[f] >= HysteresisWindow
    OBVIOUS
  <2>0. /\ st \in [Entities -> EntityState]
        /\ now \in Nat
        /\ enteredAt[f] \in Nat
    BY <1>1 DEF HInv, EngineTypeOK, HistoryTypeOK
  <2>1. ASSUME NEW e \in Entities, NEW m \in Metrics, MetricStep(e, m)
        PROVE  now - enteredAt[f] >= HysteresisWindow
    <3>1. e = f /\ StreakMature(f)
      BY <1>1, <2>1, MetricEffect
    <3>2. /\ StreakStart(f) \in Nat /\ enteredAt[f] <= StreakStart(f)
      BY <1>1, StreakAfterEntry
    <3>3. now - StreakStart(f) >= HysteresisWindow
      BY <3>1 DEF StreakMature
    <3> HIDE DEF StreakStart
    <3> QED BY <2>0, <3>2, <3>3, EngineAssumption
  <2>2. ASSUME NEW c \in Containers, NEW r \in Reports, HealthStep(c, r)
        PROVE  FALSE
    BY <1>1, <2>2, HealthEffect
  <2>3. ASSUME NEW e \in Entities, ViewerStep(e)
        PROVE  FALSE
    <3>1. CASE ManualViewerOpen(e)
      BY <2>0, <3>1 DEF ManualViewerOpen, EntityState
    <3>2. CASE ManualViewerClose(e)
      BY <2>0, <3>2 DEF ManualViewerClose, EntityState
    <3> QED BY <2>3, <3>1, <3>2 DEF ViewerStep
  <2>4. CASE TickStep
    BY <2>4 DEF TickStep, Tick
  <2> QED BY <1>1, <2>1, <2>2, <2>3, <2>4 DEF HistoryNext
<1>2. HInv /\ [HistoryNext]_historyVars => [D]_historyVars
  BY <1>1
<1> QED BY <1>2, HistoryInvariant, PTL DEF HistorySpec, CriticalDwell
=============================================================================
