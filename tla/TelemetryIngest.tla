-------------------------- MODULE TelemetryIngest ---------------------------
(***************************************************************************)
(* Registry.IngestTelemetry (agentregistry/registry.go) over the           *)
(* monitoring engine and the store.  A batch of one host is handled by a   *)
(* request goroutine: it reads the host and the containers it knows,       *)
(* evaluates the health of every container, then every metric, writes the  *)
(* containers and the host back with the modes the engine then reports,    *)
(* and answers with the polling mode of the host's fastest entity.  Each   *)
(* call to the engine or the store is one action; between two of them      *)
(* other batches, viewers, a host deletion, a restart or a request that    *)
(* writes back its own copy of the host's row may come.                    *)
(*                                                                         *)
(* The content of a batch is chosen as it is evaluated, except for the     *)
(* restart counts, which were read when the batch was collected.  Left     *)
(* out: metric rows and broadcasts (data no property reads), the host      *)
(* record's other fields (module HostRecords), and the seconds configured  *)
(* for the mode that is answered.                                          *)
(***************************************************************************)
EXTENDS MonitoringEngine, Sequences

CONSTANTS
    Handlers,          \* request goroutines that may run at once
    HostOf,            \* container -> the host it runs on
    SQL,               \* sqlstore with its foreign keys, or the memory store
    FailingCalls,      \* the calls to the store that may fail
    MaxRestarts,       \* bound on Docker's restart counts
    MaxTransitions     \* bound on the events of a behaviour

Modes == {"normal", "critical", "manual_realtime"}

Absent == -1           \* no row, hence no restart count

Nobody == "nobody"     \* no handler

\* lookup: findContainerByDockerID.  append: AppendEvent.  write:
\* RecordMetric, UpsertContainer and UpdateHost.
StoreCalls == {"lookup", "append", "write"}

ASSUME IngestAssumption ==
    /\ HostOf \in [Containers -> Hosts]
    /\ SQL \in BOOLEAN
    /\ FailingCalls \subseteq StoreCalls
    /\ Nobody \notin Handlers
    /\ {MaxRestarts, MaxTransitions} \subseteq Nat

VARIABLES
    hostMode,      \* host -> its stored MonitoringMode, or "gone"
    row,           \* container -> [mode, restarts], its row in the store
    batch,         \* handler -> the batch it is working on
    directive,     \* host -> the answer to its last batch, until the next begins
    log,           \* the event log: positions in happened
    docker,        \* container -> the RestartCount Docker reports
    removing,      \* hosts deleted whose removal is not recorded yet
    copies,        \* host -> modes in copies of its row that other requests hold
    happened,      \* observer: what the log should tell, in order
    excused,       \* observer: positions lost to a store failure or a crash
    baseline,      \* observer: container -> highest count taken for history
    flagged,       \* observer: container -> highest count seen as a restart
    changed,       \* observer: entities whose mode changed since a batch read it
    reader,        \* observer: entity -> the handler that read its mode last
    outdated       \* observer: entities whose row was left as an old copy has it

storeVars == <<hostMode, row, log>>
observers == <<happened, excused, baseline, flagged, changed, reader, outdated>>
vars == <<st, now, storeVars, batch, directive, docker, removing, copies, observers>>

NoRow == [mode |-> "normal", restarts |-> Absent]

Known(c) == row[c].restarts # Absent
Alive(h) == hostMode[h] # "gone"

-----------------------------------------------------------------------------
(* A batch in progress.                                                    *)

\* Mutant: containers the batch does not list are checked too.
CollectedEverything(h, listed, sampled) ==
    [looked   |-> FALSE,
     host     |-> h,
     mode     |-> hostMode[h],
     toCheck  |-> Containers,
     toSample |-> sampled,
     toWrite  |-> listed,
     counts   |-> docker,
     prior    |-> [c \in Containers |-> Absent],
     pending  |-> 0,
     measured |-> FALSE,
     read     |-> [e \in {} |-> "normal"]]

\* mode is the host's in the copy GetHost returned; toCheck, toSample and
\* toWrite what is left of the three loops; counts the restart counts of the
\* batch and prior those of the rows found; pending the transition to record
\* before anything else; measured says that a sample was evaluated; read holds
\* the modes read so far.
Collected(h, listed, sampled) ==
    [looked   |-> FALSE,
     host     |-> h,
     mode     |-> hostMode[h],
     toCheck  |-> listed,
     toSample |-> sampled,
     toWrite  |-> listed,
     counts   |-> docker,
     prior    |-> [c \in Containers |-> Absent],
     pending  |-> 0,
     measured |-> FALSE,
     read     |-> [e \in {} |-> "normal"]]

Idle == [host |-> "none"]

InProgress(p) == batch[p] # Idle

\* Containers are known, no transition waits to be recorded: the next call may
\* be made.
Ready(p) == InProgress(p) /\ batch[p].looked /\ batch[p].pending = 0

Checked(p) == Ready(p) /\ batch[p].toCheck = {}
Sampled(p) == Checked(p) /\ batch[p].toSample = {}

\* The container or host whose mode has been read and not yet stored.
Unwritten(p) == DOMAIN batch[p].read \cap (batch[p].toWrite \cup {batch[p].host})

\* Where a mode stands: the order FastestMode goes by.
modeRank == [m \in Modes |-> CASE m = "normal" -> 0
                               [] m = "critical" -> 1
                               [] m = "manual_realtime" -> 2]

\* Mutant: the mode of lowest rank.
SlowestMode(modes) == CHOOSE m \in modes : \A n \in modes : modeRank[n] >= modeRank[m]

\* The mode of highest modeRank.
FastestMode(modes) == CHOOSE m \in modes : \A n \in modes : modeRank[n] <= modeRank[m]

IngestTypeOK ==
    /\ EngineTypeOK
    /\ hostMode \in [Hosts -> Modes \cup {"gone"}]
    /\ row \in [Containers -> [mode : Modes, restarts : {Absent} \cup 0..MaxRestarts]]
    /\ \A p \in Handlers : InProgress(p) =>
          /\ batch[p].toCheck \subseteq batch[p].toWrite
          /\ batch[p].toSample \cup DOMAIN batch[p].read \subseteq Entities
          /\ batch[p].pending \in 0..Len(happened)
    /\ log \in Seq(1..Len(happened))
    /\ removing \subseteq Hosts
    /\ copies \in [Hosts -> SUBSET Modes]
    /\ excused \subseteq 1..Len(happened)
    /\ reader \in [Entities -> Handlers \cup {Nobody}]

Pending(i) == \/ \E p \in Handlers : InProgress(p) /\ batch[p].pending = i
              \/ happened[i].what = "removed" /\ happened[i].entity \in removing

Logged(i) == \E k \in 1..Len(log) : log[k] = i

-----------------------------------------------------------------------------
(* What the observers see.  known says that the row an event refers to was *)
(* in the store when it happened.                                          *)

\* The modes an engine step changes.
NoteModes == changed' = changed \cup {e \in Entities : EffectiveMode(e)' # EffectiveMode(e)}

\* Mutant: the transition the engine returns is dropped.
AwaitNothing(p, e, b) ==
    /\ IF Transitioned(e)
       THEN /\ Len(happened) < MaxTransitions
            /\ happened' = Append(happened,
                   [entity |-> e,
                    what   |-> IF st'[e].criticalActive THEN "critical" ELSE "recovered",
                    known  |-> e \in Containers => Known(e)])
       ELSE UNCHANGED happened
    /\ batch' = [batch EXCEPT ![p] = b]

\* What handler p does next: b, after recording a transition of e.
Await(p, e, b) ==
    IF Transitioned(e)
    THEN /\ Len(happened) < MaxTransitions
         /\ happened' = Append(happened,
                [entity |-> e,
                 what   |-> IF st'[e].criticalActive THEN "critical" ELSE "recovered",
                 known  |-> e \in Containers => Known(e)])
         /\ batch' = [batch EXCEPT ![p] = [b EXCEPT !.pending = Len(happened) + 1]]
    ELSE /\ batch' = [batch EXCEPT ![p] = b]
         /\ UNCHANGED happened

\* The batch ends without an answer; what it had still to record is lost.
Abandon(p) ==
    /\ batch' = [batch EXCEPT ![p] = Idle]
    /\ changed' = changed \cup DOMAIN batch[p].read

-----------------------------------------------------------------------------
(* IngestTelemetry, call by call.                                          *)

\* GetHost.  The agent collected the batch before it sent it.
BeginIngest(p, h, listed, sampled) ==
    /\ batch[p] = Idle
    /\ Alive(h)
    /\ batch' = [batch EXCEPT ![p] = Collected(h, listed, sampled)]
    /\ directive' = [directive EXCEPT ![h] = {}]
    /\ UNCHANGED <<st, now, storeVars, docker, removing, copies, observers>>

\* findContainerByDockerID for every container; its error is discarded, and
\* reads as a container never seen before.  Only of one that had no row is the
\* count history.
Lookup(p, failed) ==
    /\ InProgress(p)
    /\ ~batch[p].looked
    /\ failed \subseteq batch[p].toCheck
    /\ failed # {} => "lookup" \in FailingCalls
    /\ batch' = [batch EXCEPT
                    ![p].prior = [c \in Containers |->
                        IF c \in batch[p].toCheck \ failed THEN row[c].restarts ELSE Absent],
                    ![p].looked = TRUE]
    /\ baseline' = [c \in Containers |->
          IF c \in batch[p].toCheck /\ ~Known(c) /\ batch[p].counts[c] > baseline[c]
          THEN batch[p].counts[c] ELSE baseline[c]]
    /\ UNCHANGED <<st, now, storeVars, directive, docker, removing, copies,
                   happened, excused, flagged, changed, reader, outdated>>

\* Mutant: one restart alone goes unnoticed.
RestartedTwice(b, c) == b.prior[c] # Absent /\ b.counts[c] > b.prior[c] + 1

Restarted(b, c) == b.prior[c] # Absent /\ b.counts[c] > b.prior[c]

\* EvaluateContainerHealth on one container.  A container that is not
\* running has no metric in the batch.
EvaluateHealth(p, c, exited, unhealthy) ==
    /\ Ready(p)
    /\ c \in batch[p].toCheck
    /\ exited => c \notin batch[p].toSample
    /\ EvaluateContainerHealth(c, [exited    |-> exited,
                                   unhealthy |-> unhealthy,
                                   restarted |-> Restarted(batch[p], c)])
    /\ Await(p, c, [batch[p] EXCEPT !.toCheck = @ \ {c}])
    /\ flagged' = [flagged EXCEPT ![c] =
          IF Restarted(batch[p], c) /\ batch[p].counts[c] > @ THEN batch[p].counts[c] ELSE @]
    /\ NoteModes
    /\ UNCHANGED <<storeVars, directive, docker, removing, copies,
                   excused, baseline, reader, outdated>>

\* recordTransition: AppendEvent, whose error is discarded.  In SQL the event
\* refers to the rows of its host and container, which have to exist.
RecordTransition(p) ==
    LET i == batch[p].pending
        e == happened[i].entity
        refers == /\ Alive(batch[p].host)
                  /\ e \in Containers => Known(e)
    IN  /\ InProgress(p)
        /\ i # 0
        /\ \/ /\ SQL => refers
              /\ log' = Append(log, i)
              /\ UNCHANGED excused
           \/ /\ SQL /\ ~refers
              /\ UNCHANGED <<log, excused>>
           \/ /\ "append" \in FailingCalls
              /\ excused' = excused \cup {i}
              /\ UNCHANGED log
        /\ batch' = [batch EXCEPT ![p].pending = 0]
        /\ UNCHANGED <<st, now, hostMode, row, directive, docker, removing, copies,
                       happened, baseline, flagged, changed, reader, outdated>>

\* EvaluateMetric on one sample, before its RecordMetric.
EvaluateSample(p, e, m) ==
    /\ Checked(p)
    /\ e \in batch[p].toSample
    /\ EvaluateMetric(e, m)
    /\ Await(p, e, [batch[p] EXCEPT !.toSample = @ \ {e}, !.measured = TRUE])
    /\ NoteModes
    /\ UNCHANGED <<storeVars, directive, docker, removing, copies,
                   excused, baseline, flagged, reader, outdated>>

Reading(p, e) == [x \in DOMAIN batch[p].read \cup {e} |->
                     IF x = e THEN EffectiveMode(e) ELSE batch[p].read[x]]

\* EffectiveMode of a container whose row is written next.
ReadContainerMode(p, c) ==
    /\ Sampled(p)
    /\ c \in batch[p].toWrite
    /\ Unwritten(p) = {}
    /\ batch' = [batch EXCEPT ![p].read = Reading(p, c)]
    /\ changed' = changed \ {c}
    /\ reader' = [reader EXCEPT ![c] = p]
    /\ UNCHANGED <<st, now, storeVars, directive, docker, removing, copies,
                   happened, excused, baseline, flagged, outdated>>

\* p has written the mode of e that it read.
Stored(p, e) == outdated' = IF reader[e] = p THEN outdated \ {e} ELSE outdated \cup {e}

\* Mutant: a row that exists keeps its mode.
UpsertContainerKeepingMode(p, c) ==
    /\ Sampled(p)
    /\ c \in Unwritten(p) \cap Containers
    /\ SQL => Alive(batch[p].host)
    /\ row' = [row EXCEPT ![c] = [mode     |-> IF Known(c) THEN row[c].mode ELSE batch[p].read[c],
                                  restarts |-> batch[p].counts[c]]]
    /\ batch' = [batch EXCEPT ![p].toWrite = @ \ {c}]
    /\ Stored(p, c)
    /\ UNCHANGED <<st, now, hostMode, log, directive, docker, removing, copies,
                   happened, excused, baseline, flagged, changed, reader>>

\* In SQL a container refers to its host; the memory store inserts it anyway.
UpsertContainer(p, c) ==
    /\ Sampled(p)
    /\ c \in Unwritten(p) \cap Containers
    /\ SQL => Alive(batch[p].host)
    /\ row' = [row EXCEPT ![c] = [mode     |-> batch[p].read[c],
                                  restarts |-> batch[p].counts[c]]]
    /\ batch' = [batch EXCEPT ![p].toWrite = @ \ {c}]
    /\ Stored(p, c)
    /\ UNCHANGED <<st, now, hostMode, log, directive, docker, removing, copies,
                   happened, excused, baseline, flagged, changed, reader>>

ReadHostMode(p) ==
    LET h == batch[p].host
    IN  /\ Sampled(p)
        /\ batch[p].toWrite = {}
        /\ Unwritten(p) = {}
        /\ batch' = [batch EXCEPT ![p].read = Reading(p, h)]
        /\ changed' = changed \ {h}
        /\ reader' = [reader EXCEPT ![h] = p]
        /\ UNCHANGED <<st, now, storeVars, directive, docker, removing, copies,
                       happened, excused, baseline, flagged, outdated>>

\* UpdateHost, unless the copy read at the start already has the mode (the
\* row may have another by now); then the answer.  entities is what the
\* answer speaks for.
Answer(p) ==
    LET b == batch[p]
        h == b.host
        mode == b.read[h]
    IN  /\ Sampled(p)
        /\ h \in Unwritten(p)
        /\ \/ /\ b.mode # mode
              /\ Alive(h)
              /\ hostMode' = [hostMode EXCEPT ![h] = mode]
              /\ Stored(p, h)
           \/ /\ b.mode = mode
              /\ outdated' = IF reader[h] # p THEN outdated
                             ELSE IF hostMode[h] = mode THEN outdated \ {h}
                             ELSE outdated \cup {h}
              /\ UNCHANGED hostMode
        /\ directive' = [directive EXCEPT ![h] =
              {[mode     |-> FastestMode({b.read[e] : e \in DOMAIN b.read}),
                entities |-> DOMAIN b.read,
                by       |-> p]}]
        /\ batch' = [batch EXCEPT ![p] = Idle]
        /\ UNCHANGED <<st, now, row, log, docker, removing, copies,
                       happened, excused, baseline, flagged, changed, reader>>

WriteMayFail == "write" \in FailingCalls

\* RecordMetric (of the sample evaluated last), UpsertContainer or UpdateHost
\* returns an error: the host's row is not there any more, or the store fails.
FailBatch(p) ==
    LET b == batch[p]
    IN  /\ Checked(p)
        /\ \/ b.measured /\ DOMAIN b.read = {} /\ WriteMayFail
           \/ Unwritten(p) \cap Containers # {} /\ (WriteMayFail \/ (SQL /\ ~Alive(b.host)))
           \/ b.host \in Unwritten(p) /\ b.mode # b.read[b.host] /\ (WriteMayFail \/ ~Alive(b.host))
        /\ Abandon(p)
        /\ UNCHANGED <<st, now, storeVars, directive, docker, removing, copies,
                       happened, excused, baseline, flagged, reader, outdated>>

-----------------------------------------------------------------------------
(* Enroll, Heartbeat and IssueEnrollmentToken on the same host.  Each reads *)
(* the row, may refuse, and writes all of its copy back, the mode included. *)
(* Only the mode is kept of a copy, so any number of requests may hold one. *)

ReadRecord(h) ==
    /\ Alive(h)
    /\ copies' = [copies EXCEPT ![h] = @ \cup {hostMode[h]}]
    /\ UNCHANGED <<st, now, storeVars, batch, directive, docker, removing, observers>>

\* UpdateHost finds no row to write once the host is deleted.
WriteRecord(h, mode) ==
    /\ mode \in copies[h]
    /\ Alive(h)
    /\ hostMode' = [hostMode EXCEPT ![h] = mode]
    /\ outdated' = IF hostMode[h] = mode THEN outdated ELSE outdated \cup {h}
    /\ UNCHANGED <<st, now, row, log, batch, directive, docker, removing, copies,
                   happened, excused, baseline, flagged, changed, reader>>

\* The last request that holds this copy has written it, been refused, or
\* failed.
EndRecord(h, mode) ==
    /\ mode \in copies[h]
    /\ copies' = [copies EXCEPT ![h] = @ \ {mode}]
    /\ UNCHANGED <<st, now, storeVars, batch, directive, docker, removing, observers>>

-----------------------------------------------------------------------------
(* Around the batches.                                                     *)

\* handleDeleteHost deletes the host, with its containers in SQL, and then
\* records the removal.
DeleteHost(h) ==
    /\ Alive(h)
    /\ Len(happened) < MaxTransitions
    /\ hostMode' = [hostMode EXCEPT ![h] = "gone"]
    /\ row' = IF SQL THEN [c \in Containers |-> IF HostOf[c] = h THEN NoRow ELSE row[c]]
              ELSE row
    /\ removing' = removing \cup {h}
    /\ happened' = Append(happened, [entity |-> h, what |-> "removed", known |-> TRUE])
    /\ UNCHANGED <<st, now, log, batch, directive, docker, copies,
                   excused, baseline, flagged, changed, reader, outdated>>

\* The event refers to the host that has just been deleted.
RecordRemoval(h) ==
    /\ h \in removing
    /\ \E i \in 1..Len(happened) :
          /\ happened[i].entity = h
          /\ happened[i].what = "removed"
          /\ log' = IF SQL THEN log ELSE Append(log, i)
    /\ removing' = removing \ {h}
    /\ UNCHANGED <<st, now, hostMode, row, batch, directive, docker, copies, observers>>

\* POST and DELETE .../live: the entity has to be in the store.
Present(e) == IF e \in Hosts THEN Alive(e) ELSE Known(e)

OpenLive(e) ==
    /\ Present(e)
    /\ ManualViewerOpen(e)
    /\ NoteModes
    /\ UNCHANGED <<storeVars, batch, directive, docker, removing, copies,
                   happened, excused, baseline, flagged, reader, outdated>>

CloseLive(e) ==
    /\ Present(e)
    /\ ManualViewerClose(e)
    /\ NoteModes
    /\ UNCHANGED <<storeVars, batch, directive, docker, removing, copies,
                   happened, excused, baseline, flagged, reader, outdated>>

\* Docker restarts a container by its restart policy.
DockerRestart(c) ==
    /\ docker[c] < MaxRestarts
    /\ docker' = [docker EXCEPT ![c] = @ + 1]
    /\ UNCHANGED <<st, now, storeVars, batch, directive, removing, copies, observers>>

TimePasses ==
    /\ Tick
    /\ UNCHANGED <<storeVars, batch, directive, docker, removing, copies, observers>>

\* The control plane stops and starts again on the same database: the engine,
\* the requests in progress and the removals not yet recorded are gone.
ServerRestart ==
    /\ SQL
    /\ Restart
    /\ batch' = [p \in Handlers |-> Idle]
    /\ removing' = {}
    /\ copies' = [h \in Hosts |-> {}]
    /\ excused' = excused \cup {i \in 1..Len(happened) : Pending(i)}
    /\ changed' = Entities
    /\ UNCHANGED <<storeVars, directive, docker, happened, baseline, flagged, reader, outdated>>

IngestInit ==
    /\ EngineInit
    /\ hostMode = [h \in Hosts |-> "normal"]
    /\ row = [c \in Containers |-> NoRow]
    /\ batch = [p \in Handlers |-> Idle]
    /\ directive = [h \in Hosts |-> {}]
    /\ log = <<>>
    /\ docker = [c \in Containers |-> 0]
    /\ removing = {}
    /\ copies = [h \in Hosts |-> {}]
    /\ happened = <<>>
    /\ excused = {}
    /\ baseline = [c \in Containers |-> Absent]
    /\ flagged = [c \in Containers |-> Absent]
    /\ changed = {}
    /\ reader = [e \in Entities |-> Nobody]
    /\ outdated = {}

\* The batches a host's agent can send: containers of the host, and samples
\* of some of them and of the host.
BatchesOf(h) ==
    {b \in [listed : SUBSET Containers, sampled : SUBSET Entities] :
        /\ \A c \in b.listed : HostOf[c] = h
        /\ b.sampled \subseteq b.listed \cup {h}}

HandlerStep(p) ==
    \/ \E failed \in SUBSET Containers : Lookup(p, failed)
    \/ \E c \in Containers, exited, unhealthy \in BOOLEAN : EvaluateHealth(p, c, exited, unhealthy)
    \/ RecordTransition(p)
    \/ \E e \in Entities, m \in Metrics : EvaluateSample(p, e, m)
    \/ \E c \in Containers : ReadContainerMode(p, c) \/ UpsertContainer(p, c)
    \/ ReadHostMode(p)
    \/ Answer(p)
    \/ FailBatch(p)

IngestNext ==
    \/ \E p \in Handlers, h \in Hosts : \E b \in BatchesOf(h) :
          BeginIngest(p, h, b.listed, b.sampled)
    \/ \E p \in Handlers : HandlerStep(p)
    \/ \E h \in Hosts : DeleteHost(h) \/ RecordRemoval(h)
    \/ \E h \in Hosts : ReadRecord(h)
    \/ \E h \in Hosts, mode \in Modes : WriteRecord(h, mode) \/ EndRecord(h, mode)
    \/ \E e \in Entities : OpenLive(e) \/ CloseLive(e)
    \/ \E c \in Containers : DockerRestart(c)
    \/ TimePasses
    \/ ServerRestart

IngestSpec == IngestInit /\ [][IngestNext]_vars

-----------------------------------------------------------------------------
(* Properties.                                                             *)

OwnerOf(e) == IF e \in Hosts THEN e ELSE HostOf[e]

Settled(i) == ~Pending(i) /\ i \notin excused

\* Every transition reaches the event log, unless the store failed or the
\* process stopped first (the comment on IngestTelemetry, registry.go:247).
TransitionsPersisted ==
    \A i \in 1..Len(happened) :
        Settled(i) /\ happened[i].what # "removed" => Logged(i)

\* The removal of a host reaches the event log, which is to survive the
\* deletion of what it references (migrations/0001_init.sql).
RemovalsPersisted ==
    \A i \in 1..Len(happened) :
        Settled(i) /\ happened[i].what = "removed" => Logged(i)

\* Of a host that has come and gone the log tells something, its removal or a
\* transition: the history is to survive the deletion.
HistorySurvives ==
    \A i, j \in 1..Len(happened) :
        /\ Settled(i) /\ Settled(j)
        /\ happened[i].what = "removed"
        /\ happened[j].what # "removed"
        /\ OwnerOf(happened[j].entity) = happened[i].entity
        => Logged(i) \/ Logged(j)

\* A transition is lost silently only if its container's row did not exist
\* yet when it happened, or its host has been deleted: with rows in place the
\* order of the calls in IngestTelemetry never loses one.
KnownTransitionsLogged ==
    \A i \in 1..Len(happened) :
        /\ Settled(i)
        /\ happened[i].known
        /\ Alive(OwnerOf(happened[i].entity))
        => Logged(i)

\* p is about to write the mode of e that it read.
Writing(p, e) == InProgress(p) /\ e \in Unwritten(p)

\* A stored mode that is not the engine's is one that changed after the last
\* batch read it; or one which that batch is about to store; or one that an
\* older copy was written over, by an overlapping batch or by a request that
\* writes the whole host row (registry.go:125, 160, 192), or was left for.
\* In particular the first undisturbed batch after a restart or a failed batch
\* puts the rows right.
StoredModeCoherent ==
    \A e \in Entities :
        LET stored == IF e \in Hosts THEN hostMode[e] ELSE row[e].mode
        IN  Present(e) /\ stored # EffectiveMode(e) =>
                \/ e \in changed \cup outdated
                \/ \E p \in Handlers : reader[e] = p /\ Writing(p, e)

\* The mode an agent is answered with ranks no lower than the one the engine
\* wants for the host or any container of the batch, as long as that has not
\* changed, and no other batch has read it, since (registry.go:230-239).
AnswerKeepsUp ==
    \A h \in Hosts : \A d \in directive[h] : \A e \in d.entities \ changed :
        reader[e] = d.by => modeRank[EffectiveMode(e)] <= modeRank[d.mode]

\* The restart count in a row never gets ahead of what was evaluated: each
\* count was seen as a restart, or was there when the container had no row yet
\* (the prevRestart baseline: "only a count that increases after this point
\* counts as an event", registry.go:284-294).  A lookup that fails breaks it.
RestartsNoticed ==
    \A c \in Containers :
        Known(c) => row[c].restarts <= baseline[c] \/ row[c].restarts <= flagged[c]
=============================================================================
