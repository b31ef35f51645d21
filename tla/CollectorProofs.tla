-------------------------- MODULE CollectorProofs ---------------------------
(***************************************************************************)
(* Proofs about Collector: it keeps the cadence promised in module         *)
(* Cadence, follows the last directive, and reports every container it     *)
(* could, for any set of containers and any intervals.                     *)
(***************************************************************************)
EXTENDS Collector, TLAPS

\* The loop waits with a reset pending only as long as it has just armed its
\* timer; and the collection asked for before the first one comes first.
Armed ==
    /\ loop = "select" /\ resetTick => timer = interval
    /\ collectNow =>
          /\ loop \in {"top", "select", "stopped"}
          /\ ~resetTick
          /\ interval = InitialInterval
          /\ loop = "select" => timer = InitialInterval

\* Only an answer on its way lets the interval and the directive differ.
Directed ==
    /\ ~missed => interval = directive
    /\ loop = "answered" => missed /\ directive \in Intervals

\* What is known of each container that has not changed since it was listed.
Gathered ==
    /\ batch.metrics \subseteq batch.reports
    /\ loop = "stats" => current \in batch.reports
    /\ \A c \in steady :
          \/ c \in todo
          \/ /\ c \in batch.reports
             /\ docker[c] = "running" => c \in batch.metrics \cup {current}

\* Nothing is left to inspect once the containers are through.
Through == loop \in {"send", "sent", "answered"} => todo = {}

CollectorInv == CollectorTypeOK /\ Armed /\ Directed /\ Gathered /\ Through

-----------------------------------------------------------------------------
(* Types.                                                                  *)

LEMMA TypeInitially == Init => CollectorTypeOK
<1> SUFFICES ASSUME Init PROVE CollectorTypeOK
  OBVIOUS
<1>1. batch \in [reports : SUBSET Containers, metrics : SUBSET Containers]
  BY DEF Init, EmptyBatch
<1>2. /\ loop \in Waiting \cup Collecting \cup {"stopped"}
      /\ loop = "stats" <=> current # None
  BY DEF Init, Waiting, Collecting
<1>3. /\ interval \in Intervals \cup {InitialInterval}
      /\ directive \in Intervals \cup {InitialInterval}
      /\ timer \in Nat
  BY DEF Init
<1>4. resetTick \in BOOLEAN /\ collectNow \in BOOLEAN /\ missed \in BOOLEAN
  BY DEF Init
<1> QED BY <1>1, <1>2, <1>3, <1>4 DEF Init, CollectorTypeOK

LEMMA TypeStep == CollectorTypeOK /\ [Next]_vars => CollectorTypeOK'
<1> SUFFICES ASSUME CollectorTypeOK, [Next]_vars PROVE CollectorTypeOK'
  OBVIOUS
<1> USE CollectorAssumption
    DEF CollectorTypeOK, Waiting, Collecting, EmptyBatch, clockVars, batchVars, serverVars
<1>1. CASE NewTimer \/ TakeResetTick \/ TakeCollectNow \/ TimerFires \/ ContextDone
  BY <1>1 DEF NewTimer, TakeResetTick, TakeCollectNow, TimerFires, ContextDone
<1>2. CASE Tick
  BY <1>2 DEF Tick
<1>3. CASE DaemonUnreachable \/ SendFails
  BY <1>3 DEF DaemonUnreachable, SendFails, Abandon
<1>4. CASE PingDocker \/ CollectHost \/ Collected \/ SendTelemetry
  BY <1>4 DEF PingDocker, CollectHost, Collected, SendTelemetry
<1>5. CASE ListContainers
  BY <1>5 DEF ListContainers
<1>6. ASSUME NEW c \in Containers, InspectFails(c) \/ Inspect(c)
      PROVE  CollectorTypeOK'
  BY <1>6 DEF InspectFails, Inspect
<1>7. CASE StatsFail \/ Stats
  BY <1>7 DEF StatsFail, Stats
<1>8. ASSUME NEW d \in Intervals, Ingested(d)
      PROVE  CollectorTypeOK'
  BY <1>8 DEF Ingested
<1>9. CASE Answered
  BY <1>9 DEF Answered, SetInterval
<1>10. ASSUME NEW c \in Containers, NEW s \in {"absent", "stopped", "running"}, Churn(c, s)
       PROVE  CollectorTypeOK'
  BY <1>10 DEF Churn
<1>11. CASE UNCHANGED vars
  BY <1>11 DEF vars
<1> QED
  BY <1>1, <1>2, <1>3, <1>4, <1>5, <1>6, <1>7, <1>8, <1>9, <1>10, <1>11 DEF Next, Run

\* Every reachable state of the collector is well typed (collector.go:30-36
\* and the locals of collectAndReport).
THEOREM CollectorTypeCorrect == Spec => []CollectorTypeOK
BY TypeInitially, TypeStep, PTL DEF Spec

-----------------------------------------------------------------------------
(* The invariant.                                                          *)

LEMMA Initially == Init => CollectorInv
BY TypeInitially
   DEF Init, CollectorInv, Armed, Directed, Gathered, Through, EmptyBatch

LEMMA ArmedStep ==
    ASSUME CollectorTypeOK, Armed, [Next]_vars
    PROVE  Armed'
<1> USE CollectorAssumption DEF Armed, clockVars
<1>1. CASE NewTimer \/ TakeResetTick \/ TakeCollectNow \/ TimerFires \/ ContextDone
  BY <1>1 DEF NewTimer, TakeResetTick, TakeCollectNow, TimerFires, ContextDone,
              CollectorTypeOK
<1>2. CASE Tick
  BY <1>2 DEF Tick
<1>3. CASE DaemonUnreachable \/ SendFails
  BY <1>3 DEF DaemonUnreachable, SendFails, Abandon
<1>4. CASE PingDocker \/ ListContainers \/ CollectHost \/ Collected \/ SendTelemetry
  BY <1>4 DEF PingDocker, ListContainers, CollectHost, Collected, SendTelemetry
<1>5. ASSUME NEW c \in Containers, InspectFails(c) \/ Inspect(c)
      PROVE  Armed'
  BY <1>5 DEF InspectFails, Inspect
<1>6. CASE StatsFail \/ Stats
  BY <1>6 DEF StatsFail, Stats
<1>7. ASSUME NEW d \in Intervals, Ingested(d)
      PROVE  Armed'
  BY <1>7 DEF Ingested
<1>8. CASE Answered
  BY <1>8 DEF Answered, SetInterval
<1>9. ASSUME NEW c \in Containers, NEW s \in {"absent", "stopped", "running"}, Churn(c, s)
      PROVE  Armed'
  BY <1>9 DEF Churn
<1>10. CASE UNCHANGED vars
  BY <1>10 DEF vars
<1> QED
  BY <1>1, <1>2, <1>3, <1>4, <1>5, <1>6, <1>7, <1>8, <1>9, <1>10 DEF Next, Run

LEMMA DirectedStep ==
    ASSUME CollectorTypeOK, Directed, [Next]_vars
    PROVE  Directed'
<1> USE DEF Directed, clockVars, serverVars
<1>1. CASE NewTimer \/ TakeResetTick \/ TakeCollectNow \/ TimerFires \/ ContextDone \/ Tick
  BY <1>1 DEF NewTimer, TakeResetTick, TakeCollectNow, TimerFires, ContextDone, Tick
<1>2. CASE DaemonUnreachable \/ SendFails
  BY <1>2 DEF DaemonUnreachable, SendFails, Abandon
<1>3. CASE PingDocker \/ ListContainers \/ CollectHost \/ Collected \/ SendTelemetry
  BY <1>3 DEF PingDocker, ListContainers, CollectHost, Collected, SendTelemetry
<1>4. ASSUME NEW c \in Containers, InspectFails(c) \/ Inspect(c)
      PROVE  Directed'
  BY <1>4 DEF InspectFails, Inspect
<1>5. CASE StatsFail \/ Stats
  BY <1>5 DEF StatsFail, Stats
<1>6. ASSUME NEW d \in Intervals, Ingested(d)
      PROVE  Directed'
  BY <1>6 DEF Ingested
<1>7. CASE Answered
  BY <1>7 DEF Answered, SetInterval
<1>8. ASSUME NEW c \in Containers, NEW s \in {"absent", "stopped", "running"}, Churn(c, s)
      PROVE  Directed'
  BY <1>8 DEF Churn
<1>9. CASE UNCHANGED vars
  BY <1>9 DEF vars
<1> QED
  BY <1>1, <1>2, <1>3, <1>4, <1>5, <1>6, <1>7, <1>8, <1>9 DEF Next, Run

LEMMA GatheredStep ==
    ASSUME CollectorTypeOK, Gathered, Through, [Next]_vars
    PROVE  Gathered' /\ Through'
<1> USE CollectorAssumption DEF CollectorTypeOK, Gathered, Through, EmptyBatch, batchVars
<1>1. CASE NewTimer \/ TakeResetTick \/ TakeCollectNow \/ TimerFires \/ ContextDone \/ Tick
  BY <1>1 DEF NewTimer, TakeResetTick, TakeCollectNow, TimerFires, ContextDone, Tick
<1>2. CASE DaemonUnreachable \/ SendFails
  BY <1>2 DEF DaemonUnreachable, SendFails, Abandon
<1>3. CASE PingDocker \/ CollectHost \/ Collected \/ SendTelemetry
  BY <1>3 DEF PingDocker, CollectHost, Collected, SendTelemetry
<1>4. CASE ListContainers
  BY <1>4 DEF ListContainers
<1>5. ASSUME NEW c \in Containers, InspectFails(c)
      PROVE  Gathered' /\ Through'
  BY <1>5 DEF InspectFails
<1>6. ASSUME NEW c \in Containers, Inspect(c)
      PROVE  Gathered' /\ Through'
  <2>1. /\ batch' = [reports |-> batch.reports \cup {c}, metrics |-> batch.metrics]
        /\ todo' = todo \ {c} /\ steady' = steady /\ docker' = docker
        /\ current = None
        /\ docker[c] = "running" => current' = c
    BY <1>6 DEF Inspect
  <2>2. \/ loop' = "stats" /\ current' = c
        \/ loop' = "containers" /\ current' = None
    BY <1>6 DEF Inspect
  <2>3. batch'.metrics \subseteq batch'.reports
    BY <2>1
  <2>4. loop' = "stats" => current' \in batch'.reports
    BY <2>1, <2>2
  <2>5. ASSUME NEW d \in Containers, d \in steady'
        PROVE  \/ d \in todo'
               \/ /\ d \in batch'.reports
                  /\ docker'[d] = "running" => d \in batch'.metrics \cup {current'}
    <3>1. CASE d = c
      BY <2>1, <3>1
    <3>2. CASE d # c
      BY <2>1, <2>5, <3>2
    <3> QED BY <3>1, <3>2
  <2>6. Through'
    BY <2>2
  <2>7. steady' \subseteq Containers
    BY <2>1
  <2> QED BY <2>3, <2>4, <2>5, <2>6, <2>7
<1>7. CASE StatsFail \/ Stats
  BY <1>7 DEF StatsFail, Stats
<1>8. ASSUME NEW d \in Intervals, Ingested(d)
      PROVE  Gathered' /\ Through'
  BY <1>8 DEF Ingested
<1>9. CASE Answered
  BY <1>9 DEF Answered
<1>10. ASSUME NEW c \in Containers, NEW s \in {"absent", "stopped", "running"}, Churn(c, s)
       PROVE  Gathered' /\ Through'
  BY <1>10 DEF Churn
<1>11. CASE UNCHANGED vars
  BY <1>11 DEF vars
<1> QED
  BY <1>1, <1>2, <1>3, <1>4, <1>5, <1>6, <1>7, <1>8, <1>9, <1>10, <1>11 DEF Next, Run

\* Every reachable state satisfies the invariant (Run and collectAndReport,
\* collector.go:86-198).
THEOREM CollectorInvariant == Spec => []CollectorInv
<1>1. CollectorInv /\ [Next]_vars => CollectorInv'
  BY TypeStep, ArmedStep, DirectedStep, GatheredStep DEF CollectorInv
<1> QED BY Initially, <1>1, PTL DEF Spec

\* Between two cycles the interval in use is the one decided on last, unless
\* its answer was lost (collector.go:186-197).
THEOREM DirectiveIsFollowed == Spec => []DirectiveFollowed
<1>1. CollectorInv => DirectiveFollowed
  BY DEF CollectorInv, Directed, DirectiveFollowed
<1> QED BY <1>1, CollectorInvariant, PTL

\* What fails for one container or for the host takes nothing from another
\* (collector.go:123-184).
THEOREM NoneIsBlinded == Spec => []OthersNotBlinded
<1>1. ASSUME CollectorInv PROVE OthersNotBlinded
  BY <1>1, CollectorAssumption
     DEF CollectorInv, CollectorTypeOK, Gathered, Through, OthersNotBlinded
<1> QED BY <1>1, CollectorInvariant, PTL

-----------------------------------------------------------------------------
(* The refinement.                                                         *)

LEMMA CadenceInitially == Init => Schedule!CadenceInit
BY DEF Init, Schedule!CadenceInit, TimeLeft, Phase, Collecting

\* A step inside a collection, or around one, is no step of the cadence.
LEMMA CadenceStep ==
    ASSUME CollectorInv, [Next]_vars
    PROVE  [Schedule!CadenceNext]_(Schedule!cvars)
<1> USE CollectorAssumption
    DEF CollectorInv, CollectorTypeOK, Armed, TimeLeft, Phase, Waiting, Collecting,
        clockVars, Schedule!cvars
<1>1. CASE NewTimer \/ TakeResetTick
  <2>1. TimeLeft' = TimeLeft
    <3>1. CASE NewTimer
      BY <3>1 DEF NewTimer
    <3>2. CASE TakeResetTick
      BY <3>2 DEF TakeResetTick
    <3> QED BY <1>1, <3>1, <3>2
  <2>2. Phase' = Phase /\ interval' = interval
    BY <1>1 DEF NewTimer, TakeResetTick
  <2> QED BY <2>1, <2>2
<1>2. CASE TakeCollectNow \/ TimerFires
  <2>1. TimeLeft = 0 /\ Phase = "idle"
    BY <1>2 DEF TakeCollectNow, TimerFires
  <2>2. TimeLeft' = 0 /\ Phase' = "busy" /\ interval' = interval
    BY <1>2 DEF TakeCollectNow, TimerFires
  <2> HIDE DEF TimeLeft, Phase
  <2>3. Schedule!BeginCollection
    BY <2>1, <2>2 DEF Schedule!BeginCollection
  <2> QED BY <2>3 DEF Schedule!CadenceNext, Schedule!Advance
<1>3. CASE ContextDone
  BY <1>3 DEF ContextDone, Schedule!CadenceNext, Schedule!StopCollecting
<1>4. CASE Tick
  BY <1>4 DEF Tick, Schedule!CadenceNext, Schedule!Advance, Schedule!Elapse
<1>5. CASE DaemonUnreachable \/ SendFails
  <2>1. Phase = "busy"
    BY <1>5 DEF DaemonUnreachable, SendFails, Abandon
  <2>2. TimeLeft' = interval' /\ Phase' = "idle" /\ interval' = interval
    BY <1>5 DEF DaemonUnreachable, SendFails, Abandon
  <2> HIDE DEF TimeLeft, Phase
  <2>3. Schedule!EndCollection
    BY <2>1, <2>2 DEF Schedule!EndCollection
  <2> QED BY <2>3 DEF Schedule!CadenceNext, Schedule!Advance
<1>6. CASE PingDocker \/ ListContainers \/ CollectHost \/ Collected \/ SendTelemetry
  BY <1>6 DEF PingDocker, ListContainers, CollectHost, Collected, SendTelemetry
<1>7. ASSUME NEW c \in Containers, InspectFails(c) \/ Inspect(c)
      PROVE  [Schedule!CadenceNext]_(Schedule!cvars)
  BY <1>7 DEF InspectFails, Inspect
<1>8. CASE StatsFail \/ Stats
  BY <1>8 DEF StatsFail, Stats
<1>9. ASSUME NEW d \in Intervals, Ingested(d)
      PROVE  [Schedule!CadenceNext]_(Schedule!cvars)
  BY <1>9 DEF Ingested
<1>10. CASE Answered
  BY <1>10 DEF Answered, SetInterval, Directed, Schedule!CadenceNext,
               Schedule!Advance, Schedule!EndCollection
<1>11. ASSUME NEW c \in Containers, NEW s \in {"absent", "stopped", "running"}, Churn(c, s)
       PROVE  [Schedule!CadenceNext]_(Schedule!cvars)
  BY <1>11 DEF Churn
<1>12. CASE UNCHANGED vars
  BY <1>12 DEF vars
<1> QED
  BY <1>1, <1>2, <1>3, <1>4, <1>5, <1>6, <1>7, <1>8, <1>9, <1>10, <1>11, <1>12
     DEF Next, Run

\* The timer, the two channels and the select keep the cadence: a collection
\* begins exactly when the last interval answered has passed since the one
\* before (collector.go:55-105).  The safety part of ImplementsCadence.
THEOREM KeepsCadence ==
    Spec => Schedule!CadenceInit /\ [][Schedule!CadenceNext]_(Schedule!cvars)
<1>1. CollectorInv /\ [Next]_vars => [Schedule!CadenceNext]_(Schedule!cvars)
  BY CadenceStep
<1> QED BY <1>1, CadenceInitially, CollectorInvariant, PTL DEF Spec
=============================================================================
