------------------------------ MODULE Collector ------------------------------
(***************************************************************************)
(* The agent's collection loop, internal/agent/collector: the select of    *)
(* Run with its timer and its two channels, and collectAndReport call by   *)
(* call against a Docker daemon whose containers come, go, start and stop  *)
(* meanwhile.  Every call has a timeout and may fail.                      *)
(*                                                                         *)
(* CollectNow and SetInterval have one caller each: main, before Run, and  *)
(* the loop itself, after an answer.  Time passes while the loop waits;    *)
(* a loop that can go on does so before it passes.  What a collection      *)
(* takes comes on top of the interval and is not counted.                  *)
(***************************************************************************)
EXTENDS Naturals

CONSTANTS
    Containers,         \* the containers of the host
    Intervals,          \* what the control plane may answer, in seconds
    InitialInterval,    \* DM_AGENT_NORMAL_INTERVAL_SECONDS
    None

ASSUME CollectorAssumption ==
    /\ Intervals \subseteq Nat /\ Intervals # {}
    /\ InitialInterval \in Nat \ {0}
    /\ None \notin Containers

VARIABLES
    loop,         \* where Run or collectAndReport is
    interval,     \* c.interval
    timer,        \* time left on the timer
    resetTick,    \* whether there is a token in the channel
    collectNow,   \* likewise
    docker,       \* container -> "absent", "stopped" or "running"
    todo,         \* summaries not inspected yet
    current,      \* the container whose statistics are asked for
    batch,        \* what has been collected: reports and metrics
    directive,    \* the interval the control plane decided on last
    missed,       \* observer: its last answer did not arrive
    steady        \* observer: listed, unchanged since, every call answered

vars == <<loop, interval, timer, resetTick, collectNow, docker, todo, current,
          batch, directive, missed, steady>>

clockVars == <<interval, timer, resetTick, collectNow>>
batchVars == <<todo, current, batch, steady>>
serverVars == <<directive, missed>>

Waiting == {"top", "select"}
Collecting == {"ping", "list", "host", "containers", "stats", "send", "sent", "answered"}

EmptyBatch == [reports |-> {}, metrics |-> {}]

CollectorTypeOK ==
    /\ loop \in Waiting \cup Collecting \cup {"stopped"}
    /\ interval \in Intervals \cup {InitialInterval}
    /\ timer \in Nat
    /\ resetTick \in BOOLEAN /\ collectNow \in BOOLEAN
    /\ docker \in [Containers -> {"absent", "stopped", "running"}]
    /\ todo \subseteq Containers /\ current \in Containers \cup {None}
    /\ loop = "stats" <=> current # None
    /\ batch \in [reports : SUBSET Containers, metrics : SUBSET Containers]
    /\ directive \in Intervals \cup {InitialInterval}
    /\ missed \in BOOLEAN
    /\ steady \subseteq Containers

-----------------------------------------------------------------------------
(* Run.                                                                    *)

\* Mutant: the timer keeps the interval the loop was started with.
NewTimerInitial ==
    /\ loop = "top"
    /\ loop' = "select"
    /\ timer' = InitialInterval
    /\ UNCHANGED <<interval, resetTick, collectNow, docker, batchVars, serverVars>>

NewTimer ==
    /\ loop = "top"
    /\ loop' = "select"
    /\ timer' = interval
    /\ UNCHANGED <<interval, resetTick, collectNow, docker, batchVars, serverVars>>

\* The select takes any channel that is ready.
TakeResetTick ==
    /\ loop = "select" /\ resetTick
    /\ resetTick' = FALSE
    /\ loop' = "top"
    /\ UNCHANGED <<interval, timer, collectNow, docker, batchVars, serverVars>>

TakeCollectNow ==
    /\ loop = "select" /\ collectNow
    /\ collectNow' = FALSE
    /\ loop' = "ping"
    /\ UNCHANGED <<interval, timer, resetTick, docker, batchVars, serverVars>>

TimerFires ==
    /\ loop = "select" /\ timer = 0
    /\ loop' = "ping"
    /\ UNCHANGED <<clockVars, docker, batchVars, serverVars>>

ContextDone ==
    /\ loop = "select"
    /\ loop' = "stopped"
    /\ UNCHANGED <<clockVars, docker, batchVars, serverVars>>

Tick ==
    /\ loop = "select" /\ timer > 0 /\ ~resetTick /\ ~collectNow
    /\ timer' = timer - 1
    /\ UNCHANGED <<loop, interval, resetTick, collectNow, docker, batchVars, serverVars>>

-----------------------------------------------------------------------------
(* collectAndReport.                                                       *)

\* The cycle ends early; the error is logged.
Abandon(step) ==
    /\ loop = step
    /\ loop' = "top"
    /\ todo' = {} /\ batch' = EmptyBatch /\ steady' = {}
    /\ UNCHANGED <<clockVars, docker, current, serverVars>>

\* Ping or ListContainers fails.
DaemonUnreachable == Abandon("ping") \/ Abandon("list")

PingDocker ==
    /\ loop = "ping"
    /\ loop' = "list"
    /\ UNCHANGED <<clockVars, docker, batchVars, serverVars>>

\* All containers, running or not.
ListContainers ==
    LET present == {c \in Containers : docker[c] # "absent"}
    IN  /\ loop = "list"
        /\ loop' = "host"
        /\ todo' = present /\ steady' = present
        /\ batch' = EmptyBatch
        /\ UNCHANGED <<clockVars, docker, current, serverVars>>

\* hoststats.Collect: its sample is in the batch or, if it fails, not; the
\* containers follow.
CollectHost ==
    /\ loop = "host"
    /\ loop' = "containers"
    /\ UNCHANGED <<clockVars, docker, batchVars, serverVars>>

\* Mutant: the cycle goes on without the containers not inspected yet.
InspectFailsForAll(c) ==
    /\ loop = "containers" /\ c \in todo
    /\ todo' = {} /\ steady' = steady \ {c}
    /\ UNCHANGED <<loop, clockVars, docker, current, batch, serverVars>>

\* InspectContainer fails: the container is skipped this time.
InspectFails(c) ==
    /\ loop = "containers" /\ c \in todo
    /\ todo' = todo \ {c} /\ steady' = steady \ {c}
    /\ UNCHANGED <<loop, clockVars, docker, current, batch, serverVars>>

\* Its report is in the batch; a running container is asked for statistics.
Inspect(c) ==
    /\ loop = "containers" /\ c \in todo
    /\ docker[c] # "absent"
    /\ todo' = todo \ {c}
    /\ batch' = [batch EXCEPT !.reports = @ \cup {c}]
    /\ IF docker[c] = "running"
       THEN loop' = "stats" /\ current' = c
       ELSE UNCHANGED <<loop, current>>
    /\ UNCHANGED <<clockVars, docker, steady, serverVars>>

\* ContainerStatsOnce fails: the report stays, without a metric.
StatsFail ==
    /\ loop = "stats"
    /\ loop' = "containers" /\ current' = None
    /\ steady' = steady \ {current}
    /\ UNCHANGED <<clockVars, docker, todo, batch, serverVars>>

\* A container that has stopped since answers too, with zeros.
Stats ==
    /\ loop = "stats"
    /\ docker[current] # "absent"
    /\ loop' = "containers" /\ current' = None
    /\ batch' = [batch EXCEPT !.metrics = @ \cup {current}]
    /\ UNCHANGED <<clockVars, docker, todo, steady, serverVars>>

Collected ==
    /\ loop = "containers" /\ todo = {}
    /\ loop' = "send"
    /\ UNCHANGED <<clockVars, docker, batchVars, serverVars>>

\* SendTelemetry: one request, never repeated.
SendTelemetry ==
    /\ loop = "send"
    /\ loop' = "sent"
    /\ UNCHANGED <<clockVars, docker, batchVars, serverVars>>

\* IngestTelemetry of the control plane has taken the batch.
Ingested(d) ==
    /\ loop = "sent"
    /\ loop' = "answered"
    /\ directive' = d /\ missed' = TRUE
    /\ UNCHANGED <<clockVars, docker, batchVars>>

\* No connection, an error, or thirty seconds; before the batch was taken
\* or after it.
SendFails == Abandon("sent") \/ Abandon("answered")

\* Mutant: only a shorter interval is taken over.
SetIntervalShorter(d) ==
    /\ interval' = IF d < interval THEN d ELSE interval
    /\ resetTick' = TRUE

\* The token is put into the channel if there is room.
SetInterval(d) == interval' = d /\ resetTick' = TRUE

\* The answer, and the end of the cycle.
Answered ==
    /\ loop = "answered"
    /\ loop' = "top"
    /\ SetInterval(directive)
    /\ missed' = FALSE
    /\ todo' = {} /\ batch' = EmptyBatch /\ steady' = {}
    /\ UNCHANGED <<timer, collectNow, docker, current, directive>>

-----------------------------------------------------------------------------
\* A container is created, started, stopped or removed.
Churn(c, status) ==
    /\ docker[c] # status
    /\ docker' = [docker EXCEPT ![c] = status]
    /\ steady' = steady \ {c}
    /\ UNCHANGED <<loop, clockVars, todo, current, batch, serverVars>>

\* New, and CollectNow before Run.
Init ==
    /\ loop = "top"
    /\ interval = InitialInterval /\ timer = 0
    /\ resetTick = FALSE /\ collectNow = TRUE
    /\ docker \in [Containers -> {"absent", "stopped", "running"}]
    /\ todo = {} /\ current = None /\ batch = EmptyBatch /\ steady = {}
    /\ directive = InitialInterval /\ missed = FALSE

Run ==
    \/ NewTimer
    \/ TakeResetTick
    \/ TakeCollectNow
    \/ TimerFires
    \/ Tick
    \/ DaemonUnreachable
    \/ PingDocker
    \/ ListContainers
    \/ CollectHost
    \/ \E c \in Containers : InspectFails(c) \/ Inspect(c)
    \/ StatsFail
    \/ Stats
    \/ Collected
    \/ SendTelemetry
    \/ \E d \in Intervals : Ingested(d)
    \/ SendFails
    \/ Answered

Next ==
    \/ Run
    \/ ContextDone
    \/ \E c \in Containers, status \in {"absent", "stopped", "running"} : Churn(c, status)

\* The loop and the clock go on, and every call returns: each has a timeout.
Spec == Init /\ [][Next]_vars /\ WF_vars(Run)

-----------------------------------------------------------------------------
(* Properties.                                                             *)

\* Collections begin when Cadence says: the timer, the two channels and the
\* select between them come to one wait of exactly the last interval
\* answered, and no order of the channels starves the timer.
TimeLeft ==
    IF loop \in Collecting \/ collectNow THEN 0
    ELSE IF loop = "top" \/ resetTick THEN interval ELSE timer

Phase ==
    IF loop \in Collecting THEN "busy" ELSE IF loop = "stopped" THEN "stopped" ELSE "idle"

Schedule == INSTANCE Cadence WITH due <- TimeLeft, phase <- Phase

ImplementsCadence == Schedule!CadenceSpec

\* A container that did not change and whose own calls were answered is
\* reported, with a metric if it runs, whatever happened to the others or
\* to the host's statistics; and a metric never comes without the report.
OthersNotBlinded ==
    loop = "send" =>
        /\ batch.metrics \subseteq batch.reports
        /\ \A c \in steady : /\ c \in batch.reports
                             /\ docker[c] = "running" => c \in batch.metrics

\* Between two cycles the agent polls at the interval the control plane
\* decided on last, unless the answer that said so was lost.
DirectiveFollowed ==
    loop \in Waiting /\ ~missed => interval = directive

=============================================================================
