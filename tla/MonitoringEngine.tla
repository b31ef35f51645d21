-------------------------- MODULE MonitoringEngine --------------------------
(***************************************************************************)
(* The adaptive monitoring state machine of the control plane,             *)
(* internal/controlplane/monitoring/engine.go.  One Engine holds an        *)
(* entityState per (kind, id) and every exported method runs under e.mu,   *)
(* so a method call is one atomic action here.  The map is modelled as a   *)
(* total function: an absent key reads as the zero entityState, and        *)
(* getOrCreate inserts exactly that value.                                 *)
(*                                                                         *)
(* A method "returns a transition" exactly when it flips criticalActive,   *)
(* so callers (module TelemetryIngest) read the flip off st and st'.       *)
(***************************************************************************)
EXTENDS Integers

CONSTANTS
    Hosts,                        \* entities of kind "host"
    Containers,                   \* entities of kind "container"
    CPUCriticalPercent, CPURecoveryPercent,
    MemCriticalPercent, MemRecoveryPercent,
    HysteresisWindow,             \* in clock ticks
    MinConsecutiveNormalSamples,
    CPUSamples,                   \* the CPU percentages a metric may carry
    MemSamples,                   \* the [used, limit] pairs a metric may carry
    MaxTime, MaxStreak, MaxViewers \* bounds for model checking

ASSUME EngineAssumption ==
    /\ Hosts \cap Containers = {}
    /\ {CPUCriticalPercent, CPURecoveryPercent,
        MemCriticalPercent, MemRecoveryPercent} \subseteq Int
    /\ HysteresisWindow \in Int
    /\ MinConsecutiveNormalSamples \in Int
    /\ CPUSamples \subseteq Int
    /\ MemSamples \subseteq [used : Nat, limit : Nat]
    /\ {MaxTime, MaxStreak, MaxViewers} \subseteq Nat

VARIABLES
    st,     \* e.state: entity -> entityState
    now     \* e.clock.Now()

engineVars == <<st, now>>

Entities == Hosts \cup Containers

ZeroTime == 0                     \* time.Time{}; the clock starts after it

EntityState == [criticalActive  : BOOLEAN,
                goodStreakCount : Nat,
                goodStreakStart : Nat,
                manualViewers   : Nat]

Fresh == [criticalActive  |-> FALSE,
          goodStreakCount |-> 0,
          goodStreakStart |-> ZeroTime,
          manualViewers   |-> 0]

EngineTypeOK ==
    /\ st \in [Entities -> EntityState]
    /\ now \in Nat \ {ZeroTime}

-----------------------------------------------------------------------------
(* Readings of the state and of a sample.                                  *)

Metrics == [cpu : CPUSamples, mem : MemSamples]

\* A container without a memory limit, or a host whose total is unknown,
\* reports limit 0 and can never trip on memory.
memPercent(m) == IF m.mem.limit = 0 THEN 0 ELSE (m.mem.used * 100) \div m.mem.limit

Breaches(m) == \/ m.cpu >= CPUCriticalPercent
               \/ memPercent(m) >= MemCriticalPercent

IsClean(m) == /\ m.cpu < CPURecoveryPercent
              /\ memPercent(m) < MemRecoveryPercent

\* An open viewer wins over an active critical condition.
EffectiveMode(e) ==
    IF st[e].manualViewers > 0 THEN "manual_realtime"
    ELSE IF st[e].criticalActive THEN "critical" ELSE "normal"

Transitioned(e) == st'[e].criticalActive # st[e].criticalActive

-----------------------------------------------------------------------------
(* EvaluateMetric, one action per way through it.                          *)

\* Mutant: the start of an earlier streak is kept.
StreakStartStale(e) == st[e].goodStreakStart

\* The streak after one more clean sample.
StreakStart(e) == IF st[e].goodStreakCount = 0 THEN now ELSE st[e].goodStreakStart

\* Mutant: samples or elapsed time suffice, where the code asks for both.
MatureByEither(e) ==
    \/ st[e].goodStreakCount + 1 >= MinConsecutiveNormalSamples
    \/ now - StreakStart(e) >= HysteresisWindow

StreakMature(e) ==
    /\ st[e].goodStreakCount + 1 >= MinConsecutiveNormalSamples
    /\ now - StreakStart(e) >= HysteresisWindow

TripOnMetric(e, m) ==
    /\ ~st[e].criticalActive
    /\ Breaches(m)
    /\ st' = [st EXCEPT ![e].criticalActive = TRUE, ![e].goodStreakCount = 0]
    /\ UNCHANGED now

StayNormal(e, m) ==
    /\ ~st[e].criticalActive
    /\ ~Breaches(m)
    /\ UNCHANGED engineVars

\* Mutant: a sample between the two thresholds does not end the streak.
BreakStreakNowhere(e, m) ==
    /\ st[e].criticalActive
    /\ ~IsClean(m)
    /\ UNCHANGED engineVars

BreakStreak(e, m) ==
    /\ st[e].criticalActive
    /\ ~IsClean(m)
    /\ st' = [st EXCEPT ![e].goodStreakCount = 0, ![e].goodStreakStart = ZeroTime]
    /\ UNCHANGED now

ExtendStreak(e, m) ==
    /\ st[e].criticalActive
    /\ IsClean(m)
    /\ ~StreakMature(e)
    /\ st[e].goodStreakCount < MaxStreak
    /\ st' = [st EXCEPT ![e].goodStreakStart = StreakStart(e),
                        ![e].goodStreakCount = @ + 1]
    /\ UNCHANGED now

\* Mutant: recovery leaves the streak behind.
RecoverKeepingStreak(e, m) ==
    /\ st[e].criticalActive
    /\ IsClean(m)
    /\ StreakMature(e)
    /\ st' = [st EXCEPT ![e].criticalActive = FALSE]
    /\ UNCHANGED now

Recover(e, m) ==
    /\ st[e].criticalActive
    /\ IsClean(m)
    /\ StreakMature(e)
    /\ st' = [st EXCEPT ![e].criticalActive = FALSE,
                        ![e].goodStreakCount = 0,
                        ![e].goodStreakStart = ZeroTime]
    /\ UNCHANGED now

EvaluateMetric(e, m) ==
    \/ TripOnMetric(e, m)
    \/ StayNormal(e, m)
    \/ BreakStreak(e, m)
    \/ ExtendStreak(e, m)
    \/ Recover(e, m)

-----------------------------------------------------------------------------
(* EvaluateContainerHealth.  A report is bad when the container exited, is  *)
(* unhealthy, or restarted since the count the caller supplies.             *)

Reports == [exited : BOOLEAN, unhealthy : BOOLEAN, restarted : BOOLEAN]

Bad(r) == r.exited \/ r.unhealthy \/ r.restarted

\* It sets criticalActive alone: it relies on the streak being reset already.
TripOnHealth(c, r) ==
    /\ ~st[c].criticalActive
    /\ Bad(r)
    /\ st' = [st EXCEPT ![c].criticalActive = TRUE]
    /\ UNCHANGED now

IgnoreHealth(c, r) ==
    /\ st[c].criticalActive \/ ~Bad(r)
    /\ UNCHANGED engineVars

EvaluateContainerHealth(c, r) == TripOnHealth(c, r) \/ IgnoreHealth(c, r)

-----------------------------------------------------------------------------
(* Manual viewers, the passage of time and a restart of the process.        *)

ManualViewerOpen(e) ==
    /\ st[e].manualViewers < MaxViewers
    /\ st' = [st EXCEPT ![e].manualViewers = @ + 1]
    /\ UNCHANGED now

\* Mutant: a close without an open is counted.
ManualViewerCloseUnguarded(e) ==
    /\ st' = [st EXCEPT ![e].manualViewers = @ - 1]
    /\ UNCHANGED now

ManualViewerClose(e) ==
    /\ st' = [st EXCEPT ![e].manualViewers = IF @ > 0 THEN @ - 1 ELSE @]
    /\ UNCHANGED now

Tick ==
    /\ now < MaxTime
    /\ now' = now + 1
    /\ UNCHANGED st

\* NewEngine in a new control-plane process: nothing of st is persisted.
Restart ==
    /\ st' = [e \in Entities |-> Fresh]
    /\ UNCHANGED now

EngineInit ==
    /\ st = [e \in Entities |-> Fresh]
    /\ now = ZeroTime + 1

EngineNext ==
    \/ \E e \in Entities, m \in Metrics : EvaluateMetric(e, m)
    \/ \E c \in Containers, r \in Reports : EvaluateContainerHealth(c, r)
    \/ \E e \in Entities : ManualViewerOpen(e) \/ ManualViewerClose(e)
    \/ Tick
    \/ Restart

EngineSpec == EngineInit /\ [][EngineNext]_engineVars

-----------------------------------------------------------------------------
\* Every way into CRITICAL finds the recovery streak empty, and a running
\* streak has a start that is not in the future.  TripOnHealth does not reset
\* the streak, so a leftover one would let a crashed container recover on the
\* strength of samples taken before the crash (engine.go:93-104, 229-252).
StreakDiscipline ==
    \A e \in Entities :
        /\ ~st[e].criticalActive => st[e].goodStreakCount = 0
        /\ st[e].goodStreakCount = 0 <=> st[e].goodStreakStart = ZeroTime
        /\ st[e].goodStreakStart <= now
=============================================================================
