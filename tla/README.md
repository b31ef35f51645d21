# A formal model of docker_monitoring

docker_monitoring watches Docker hosts. An *agent* on every host collects
statistics and sends them in batches to one *control plane*, which decides how
closely each host and container has to be watched, stores what it was told,
records transitions in an event log, pushes updates to browsers, and answers
each batch with the interval the agent is to use next.

This directory holds TLA+ models of the parts of that program where order,
overlap and failure matter, the TLC runs that check them on small instances,
and theorems that the TLA+ proof system checks for every instance. Paths below
are relative to `src/`.

## Inventory

| Component | State | Operations | Hard because | Correct when |
|---|---|---|---|---|
| Adaptive engine, `monitoring/engine.go` | per entity: critical flag, recovery streak (count, start), viewer count; in memory only | `EvaluateMetric`, `EvaluateContainerHealth`, `ManualViewerOpen/Close`, `EffectiveMode` | recovery depends on a history kept in two numbers; two ways into CRITICAL, one of which does not reset them; a restart forgets everything | recovery happens exactly when the samples justify it, never sooner than the window |
| Registry: host records, `agentregistry/registry.go`, `api/hosts.go`, `api/enrollment.go`, `agentapi/` | the host row: token hash, enrolled flag, certificate, status, mode | create, delete, issue token, enroll, heartbeat, mode write of a batch | whole-record read, change, write with no lock around it, in concurrent requests | a token is used once, the record says what was handed out, deleted hosts stay deleted |
| Registry: telemetry, `agentregistry/registry.go:206-441` | a batch in progress; container rows; the event log | `IngestTelemetry` (about eight kinds of calls in a fixed order), host deletion, live views | any call can fail and the batch ends half-way; viewers, deletion, another batch, a heartbeat or a restart between two calls; events refer to rows by foreign key | transitions reach the log, restarts are noticed, stored modes are explained, the answer ranks as high as the engine wants |
| WebSocket hub, `ws/hub.go` | subscribers per topic; per client a bounded channel, a `closeOnce`, two goroutines | `Broadcast`, `ServeTopic`, write pump, read pump, unsubscribe | three kinds of goroutine around one channel that any of them may close or find full | no gap a browser cannot see, no broadcast that waits, no leak |
| Metric history, `storage/sqlstore/historical_metric.go` | rows at one-minute and five-minute resolution | record a sample, hourly roll-up and deletion | the roll-up reads outside the transaction that deletes; it may fail and is repeated | no sample counted twice, none lost before it expires |
| Stores, `storage/memory`, `storage/sqlstore` | hosts, containers, events, latest metrics, users, sessions | single calls, each atomic | foreign keys and cascades exist only in SQL | (through their users) |
| Agent collector, `agent/collector` | interval, timer, two one-slot channels; a batch being collected | `Run`, `SetInterval`, `CollectNow`, `collectAndReport` (up to two Docker calls per container) | a new interval restarts the timer from inside the loop; containers come and go between two calls; an answer may be lost | batches keep coming at the interval last answered, and one container's failure costs no other its report |
| Agent start-up and transport, `cmd/agent/main.go`, `agent/transport` | three files (certificate, key, pinned root) | load or enroll, heartbeat, send a batch | a crash between or inside the writes, a file that cannot be read, a lost enrollment answer, a token that is spent by then | an enrolled agent stays enrolled and is heard again after any restart |
| Control-plane start-up, `cmd/controlplane/main.go`, `pki/ca.go` | two files (CA key, CA certificate) | load or generate | a crash between or inside the writes, a file that cannot be read | one root for good, and the control plane comes up again |
| Users and sessions, `auth/service.go`, `api/router.go`, `api/auth.go` | users, sessions | bootstrap, login, logout, authenticate, role checks | every request is three or four separate store calls; expiry, clean-up and logout of one session meet between them | a token works from login to logout or expiry, and not a request longer |
| Browser API, other handlers | none | listings and queries | - | - |
| Migrations, configuration, shared models | schema version; environment | start-up | - | - |
| Password hashing, Docker client, host statistics | none | pure functions, one-shot I/O | every Docker call may fail on its own | (through the collector) |

How they interact: the agent's collector calls the control plane over mutual
TLS; `agentapi` authenticates the certificate and calls the registry; the
registry calls the engine (its own mutex), the store (one lock, or one database
connection) and the hub (fire and forget) in sequence, holding nothing from one
call to the next. The browser API calls the same registry, engine and store
from its own goroutines. Retention runs in a goroutine of its own. Engine
state is never persisted, so the engine and the store disagree after a restart.

`PROJECT.json` lists the hazards line by line, with the properties that would
catch each of them.

## Modules

    MonitoringEngine ----> MonitoringHistory --(implements)--> HysteresisRule
          |                       |
          |                       +--> MonitoringHistoryProofs, MCMonitoringHistory
          +--> TelemetryIngest --> TelemetryIngestProofs, MCTelemetryIngest
    HostRecords ---> HostRecordsProofs, MCHostRecords
    Hub ---> HubProofs, MCHub
    HistoricalMetrics ---> HistoricalMetricsProofs, MCHistoricalMetrics
    Collector --(implements)--> Cadence
          +--> CollectorProofs, MCCollector
    AgentIdentity ---> AgentIdentityProofs, MCAgentIdentity
    Sessions ---> SessionsProofs, MCSessions

**MonitoringEngine** is `engine.go`. Every exported method runs under `e.mu`,
so a call is one action. `EvaluateMetric` has one disjunct per way through the
function (`TripOnMetric`, `StayNormal`, `BreakStreak`, `ExtendStreak`,
`Recover`), `EvaluateContainerHealth` two. `st` is the map of `entityState`s,
`now` the clock. `Restart` is a new process. Percentages are integers and the
memory percentage is an integer division; the code compares floats, against
integral thresholds.

**HysteresisRule** is what the engine promises, without counters: a critical
entity keeps all its samples and leaves CRITICAL when some run of clean ones
that ends now is long enough and old enough. **MonitoringHistory** adds to the
engine the history variables this needs (`evidence`, `enteredAt`) and states
that the engine implements the rule. `era` flips at a restart, in both modules:
without it a recovery of the only critical entity would look like a restart, and
the rule would allow it at any time.

**HostRecords** is the host row and the six operations that write it. A registry
method is two actions, `Begin..` (`GetHost`, into the handler's copy) and
`Finish..` (`UpdateHost` of the whole copy), so that any number of requests can
overlap. `Fail` ends a request in between. A certificate is its position in
the list of those handed out; a token is a model value, and presenting a wrong
one changes nothing. `clobbered` only observes: the hosts on which some write
undid another.

**TelemetryIngest** extends MonitoringEngine with the request goroutines that
run `IngestTelemetry`, the rows they read and write, and the event log. One
action per call to engine or store, in the code's order: `BeginIngest`,
`Lookup`, then `EvaluateHealth` per container, `EvaluateSample` per metric, a
`RecordTransition` after every call that transitioned, `ReadContainerMode` and
`UpsertContainer` per container, `ReadHostMode`, `Answer`; `FailBatch` where
the code returns an error. Around them `DeleteHost` and `RecordRemoval`,
`OpenLive` and `CloseLive`, `DockerRestart`, `TimePasses`, `ServerRestart`; and
`ReadRecord`, `WriteRecord` and `EndRecord`, the requests that read the host's
row and write all of it back, its mode included (`Heartbeat`, `Enroll`,
`IssueEnrollmentToken`). Of their copies only the modes are kept (`copies`), so
any number of them may be in progress; what else they write is HostRecords'
subject. `SQL` selects the store (foreign keys and cascades, or neither) and
`FailingCalls` the calls that may fail. The content of a batch is chosen when it is
evaluated, which is the same as choosing it at the start; the restart counts
are not, because how old they are when evaluated matters. Variables marked
*observer* record what the properties speak about and guard nothing except the
bound `MaxTransitions`. `reader` says which batch read an entity's mode last,
`changed` which modes changed since, `outdated` over which an older copy was
written (or left); `baseline` is the restart count a container had while the store
had no row of it, `flagged` the highest that was evaluated as a restart.

**Hub** is one topic of `hub.go` (topics share nothing but the map's lock). Copying
or changing the subscriber set under its lock is one action; so is each channel
operation and each network write. `pump` is where `ServeTopic` and its write
pump stand, `reader` the read pump, `cast` a broadcast in progress, `closed` the
clients whose channel is closed. A second close or a send on a closed channel
would panic; `closeOnce` and the `recover` in `trySend` are the code's guards, a
construct each, and no property restates them.

**HistoricalMetrics** represents a row by the samples it averages: `fine` and
`coarse` say how often the row of its minute and the coarse row around it count
each sample. The roll-up is `StartPass`, `SelectBuckets` and
`CommitRollup`; `DeleteExpired` follows; `FailPass` can come at any point, and
all may repeat. The SQL of `CommitRollup` deletes by `bucket_start` alone,
for every entity, and so does the action.

**Collector** is the loop of `collector.go`: `Run` with its timer, its two
channels of one slot and the select between them, and `collectAndReport` call by
call against a Docker daemon whose containers change meanwhile (`Churn`).
`loop` is where that goroutine stands; `batch` what has been collected so far.
Time passes only while the loop waits. `directive` is what the control plane
decided on last, `missed` whether the answer that said so was lost; `steady`
observes which containers gave the collector no reason to leave them out.
**Cadence** is the promise without channels and timer: one collection at a
time, the first at once, then exactly the interval last answered, for ever. The
refinement maps `due` to the time left on whichever of timer and channels is
ahead (`TimeLeft`) and `phase` to `Phase`.

**AgentIdentity** puts the two starts side by side: `loadOrGenerateCA` with its
two files, and the agent's choice between its cached files and an enrollment,
with its own two. `os.WriteFile` truncates and then writes, so a write is two
actions, and a crash in between leaves the file `Torn`: readable, so it counts
as found, and not parseable. A file that is there and cannot be read counts as
absent on both sides (`GenerateUnread`, `AskUnread`). `plane` and `agent` are where the two processes
stand, `ca` and `run` what they hold in memory. An enrollment is one action here;
its overlaps are HostRecords' subject. `Heartbeat` decides as TLS, the
middleware and `GetHost` together do; a heartbeat that the store fails says
nothing about an identity and is left out. Around them are the operator (register,
remove, issue a token, pin a root, remove a file) and expiry. `served` and
`mishaps` observe; a property that allows for a mishap names it.

**Sessions** has request goroutines in slots, each answering one request at a
time: `BeginLogin` and `BeginGuarded`, then one action per store call in the
handlers' order (`FindUser`, `CreateSession`, `TouchUser`, `LoginProfile`;
`FindSession`, `ReapSession`, `LoadUser`; `Serve`; `FindForLogout`,
`DeleteForLogout`). Any call may fail and has then changed nothing. A token, its
hash and its session row are one value; `live` says which rows exist, `grant`
what they held. `Start`, `Stop` and `Provision` are the process and the operator
with the database in hand. `held`, `revoked`, `lost`, `stale` and `failed` observe.

## Runs

Every `.cfg` names its bounds. "Violation" runs check one statement that the
repository makes about itself and that the code does not keep.

| Run | Checks | Shows |
|---|---|---|
| `monitoring` | `EngineTypeOK`, `StreakDiscipline`, `StreakSummarisesEvidence`, `ImplementsHysteresis`, `CriticalDwell` | count and start time are exactly as good as the full list of samples |
| `host_records` | `TypeOK`, `SingleUseUnlessClobbered`, `RecordAgrees`, `NoResurrection` | whatever goes wrong with tokens and records is a lost update, and a deletion is never one |
| `host_records_single_use` | `SingleUse` (violation) | two overlapping `Enroll` requests get two certificates for one token |
| `ingest` | `IngestTypeOK`, `StoredModeCoherent`, `AnswerKeepsUp`, `KnownTransitionsLogged`, `RestartsNoticed` | two overlapping batches beside requests that write back the host row, on a SQL store that may fail, with viewers, deletion and restarts |
| `ingest_history` | `HistorySurvives` (violation) | SQL: the first transition of a new container and the removal of its host are both refused by foreign keys; the log stays empty |
| `ingest_lookups` | `RestartsNoticed` (violation) | a known container whose lookup fails passes for new, and its restart for history |
| `hub` | `HubTypeOK`, `NoSilentGap`, `ServedInFull`, `NeverWaits`, `NoLeak` | the fan-out against slow, leaving and vanished clients |
| `history` | `RetentionTypeOK`, `CountedOnce`, `NothingLost` | samples recorded during a pass that may fail and repeat |
| `sessions` | `SessionsTypeOK`, `EndedStaysOut`, `HeldWorks`, `AccountsKept` | overlapping requests on both kinds of store, with failing calls, expiry and restarts |
| `sessions_logout` | `LogoutIsIdempotent` (violation) | a logout whose session is reaped or logged out between its two store calls is answered 500 |
| `identity` | `IdentityTypeOK`, `OneRoot`, `RefusedForCause`, `BadPairNeedsTear`, `BurnedTokenHeld`, `PlaneComesBack`, `AgentHeard` | crashes anywhere in either start, lost answers, files removed or not read, and expiry |
| `collector` | `OthersNotBlinded`, `DirectiveFollowed`, `ImplementsCadence` | the loop keeps its cadence for ever, and a container that fails is the only one left out |

### Bounds

* `monitoring`: one container (it can do all a host can, and entities do not
  interact in the engine), samples below, on and above each threshold, window 2,
  three samples to recover, five samples per critical period, five ticks: a
  streak can break and start again and still mature, by count before age and by
  age before count.
* `host_records`: one host (hosts share nothing), two requests at once (a lost
  update needs two), two tokens, three certificates.
* `ingest`: one host with one container: two entities of different kind in one
  batch, which is what `FastestMode` and the foreign keys need. Two handlers: a
  slow batch and its successor, which is what an agent that gives up after 30
  seconds leaves behind. Two transitions per behaviour; one restart by Docker, to
  notice or to miss. Streaks and the window are `monitoring`'s subject, so a
  single clean sample ends CRITICAL here, at once: more interleavings contain a
  recovery that way. A constraint, `LimitedOverlap`, states what may come together:
  a second batch begins when the first has its rows left to write; it samples the
  host only; a viewer, a copy of the host row and the deletion each meet single
  batches, and viewer and copy not each other. What comes together outside these
  limits is left to the theorems, which know neither constraint nor bounds and
  prove every property of the run. `VIEW Relevant` drops what no later step and no
  property of the run reads (a count already compared, an event already settled,
  and, without a window, the time); 961,000 states. The two violation runs have one
  handler and no constraint.
* `hub`: one client with a channel of capacity one, two broadcasters with three
  messages each: full and drained and full again, with the second broadcaster
  between the first one's failed send and its close. Two clients with one
  broadcast each also pass (569,079 states), but take too long to keep.
* `history`: three samples of two entities; minutes of two units and coarse rows
  of two minutes, so that cutoffs fall inside both; a roll-up age, lateness and
  minute that just meet `NothingLost`'s condition; retention long enough that
  several passes fill a row before it goes, time enough that it does.
* `sessions`: two accounts, so that a role can be mistaken for another; two
  sessions, so that one's end can hit the other; two requests at once, which is
  what every race here needs; a lifetime of one tick and a clock of two, so that
  a session is made, expires and is found expired (1.1 million states).
* `identity`: two roots and two key pairs (a second one is what a lost first one
  leads to), two host IDs, two tokens, two crashes: one to break a start and one
  to break its repetition; a start that cannot read a file counts as one of the
  two (643,000 states).
* `collector`: two containers, one to fail and one to be spared; intervals 0 to
  3 around an initial one of 2, hence shorter, equal, longer, and 0, which an
  answer may carry although a configuration may not (22,700 states).

Symmetry is used in `host_records` (tokens, handlers), `ingest`
(handlers), `history` (samples, entities) and `sessions` (accounts, sessions,
requests), never with liveness.

Deadlock is checked unless the model may stop: `host_records` runs out of tokens
and certificates, `hub` out of broadcasts,
`history` and `sessions` out of time, `identity` out of roots and keys, and the
loop of `collector` may be told to stop.

### Fairness

Four properties are about liveness: `NoLeak` (Hub), `PlaneComesBack` and
`AgentHeard` (AgentIdentity), and the fairness that `ImplementsCadence` promises
(Collector).

Hub (`HubFairness`): goroutines are scheduled, so a broadcast goes on and a write
pump handles what is there; a write ends by its deadline (`writeWait`, set before
every write) and a read fails by its own once the browser is gone (`pongWait`).
Nothing is assumed of browsers, pings, or the beginning of broadcasts. That a
broadcast never waits is not a matter of fairness: `NeverWaits` says that its
next step is possible in every state.

AgentIdentity (`Fairness`): a process that is down is started again by its
supervisor (the deployment's service manager or restart policy), one that runs
goes on, an enrollment request is answered or times out, and an agent that runs
beats. Nothing is assumed of the operator, so an agent without files and without
a token may wait for ever; the number of crashes is bounded. `EnrollRefused`
shares its fairness with `Enroll`: an answer comes, not a good one.

Collector: the loop and the clock go on, since every call the loop makes has a
timeout of its own. Nothing is assumed of Docker or of the control plane.

## Theorems

Proved by `tlapm`, for all values of the constants that satisfy the modules'
named assumptions.

* **MonitoringHistoryProofs.** `EngineTypeCorrect` and `EngineStreakDiscipline`
  are about the engine alone. `StreakDiscipline` is inductive by itself: entering
  CRITICAL through the health path leaves a streak as it is, and is right only
  because every way out empties it. `HistoryInvariant` adds that the recorded
  samples are ordered in time and no older than the entry into CRITICAL, and that
  counter and start summarise them. From it follow `StreakIsSummary`;
  `EngineImplementsHysteresis`, the refinement (key lemma `MatureIffJustified`:
  the test on count and start is equivalent to the existence of a justifying
  run); and `CriticalLastsTheWindow`, since the streak starts after the entry.
  The window and the sample count may be any integers, zero and negative ones
  included.
* **HostRecordsProofs.** The properties are not inductive: a stale copy of one
  host's record can carry a token long after it left the record. `RecordInvariant`
  adds where a token may be found: in the record, the copies and the certificates
  of one host only, and nowhere before it is drawn; and it states the agreement
  of record and certificates for deleted hosts too, since a copy outlives them.
  `TokensAreSingleUse` and `RecordsAgree` follow. `SequentialSingleUse` is the
  counterpart of the violation run: with one handler there is no lost update,
  and a token yields at most one certificate. `DeletedHostsStayDeleted` is the
  action property: `UpdateHost` of a stale copy finds no row to write.
* **TelemetryIngestProofs**, for any overlap of batches and other requests.
  - *Events and restarts.* `IngestInvariant`: a batch concerns one host and
    checks a container before it writes it; a deleted host stays deleted and, in
    SQL, a row goes only with its host. So the rows an event refers to are still
    there when it is recorded (`TransitionsReachTheLog`). If no lookup fails (the
    run `ingest_lookups` is the other case), each count a batch found in a row was
    noticed before, and each count it is about to write is noticed as soon as the
    container is checked; `baseline` and `flagged` only grow, so it does not
    matter which of two batches writes last (`NoRestartMissed`).
  - *Modes.* `ModesInvariant`: what the last reader of an entity's mode read is
    the engine's mode or has changed since, and a batch reads the host's mode
    last. Each write is by that reader, and puts the row right, or leaves an older
    copy in it, which `outdated` tells; whence `StoredModesCohere`. An answer is
    given by the last reader or says nothing; whence `AnswersKeepUp`. It compares
    ranks, not intervals; see the next section.
  - *What the violation run owes to SQL.* `MemoryStoreLosesNothing`: without
    foreign keys `TransitionsPersisted` and `RemovalsPersisted` both hold, each of
    which is more than `HistorySurvives`.

  *When a host is deleted* under a batch in progress: `DeletionsAreForGood`, in
  either store, and `NoContainerWithoutHost`, in SQL. The memory store inserts the
  batch's containers for the host that is gone, so the second needs `SQL`: with
  `SQL = FALSE` TLC refutes `NoOrphans`.

  `IngestImplementsEngine` shows every behaviour of ingestion to be one of
  MonitoringEngine, so that what is proved of the engine is true of it here.
* **HubProofs.** A property of what was received cannot be shown from what was
  received: `HubInvariant` is about the whole stream of a client, delivered, being
  written and in the channel, which is gapless for each broadcaster even after
  the channel is closed, because a closed channel takes nothing more while it is
  drained. For a client still served the stream is also complete up to the
  broadcast in progress. That needs what a broadcaster knows of its copied list:
  a client in `todo` or `full` had joined before the broadcast began, and has not
  been sent it (`JoinedBefore`, `CastsAreOrderly`). `DeliveryHasNoGap`,
  `ServedClientsMissNothing` and `HubTypeCorrect` follow.
  Three more theorems are the safety half of what is otherwise left to TLC.
  `BroadcastsEnd`: for finitely many clients, each step of a broadcast lowers
  the number it has left, and nobody else touches its list. `DoomedClientsCanMove`
  says in the guards' own words that a client to be reclaimed has a step to take
  (`HasWork`), and `DoomedClientsDrain` that those steps lead to the end: first the
  reader closes the channel, then the pump's steps are counted by what the
  channel still holds. Their invariant is `StartTogether`: pump and reader start
  in one step, and a reader that has ended has closed the channel. What fairness
  adds is only that a possible step is taken.
* **HistoricalMetricsProofs.** `RetentionInvariant` says what a pass knows
  between its SELECT and its DELETE: it read each sample's count as it is still,
  and every sample now in a minute that is old enough was read. The second needs
  the condition on lateness, the first does not; `SamplesCountedOnce` and
  `SamplesKept` follow.
* **CollectorProofs.** `KeepsCadence` is the safety part of the refinement. Its
  invariant (`Armed`): a pending reset token finds the timer just armed with the
  interval, and the request for the first collection is taken before any answer
  can change it; so `TimeLeft` falls by one a tick and is the new interval after
  every answer.
  `DirectiveIsFollowed` follows from what the loop knows between the answer and
  its `SetInterval`. `NoneIsBlinded` needs where each steady container is while
  the loop goes round: still to inspect, being asked, or in the batch.
* **SessionsProofs.** The invariant (`SessionsInv`) says what a request knows at
  each step and *goes on* knowing while others run: that its token was granted,
  that a token found ended has ended for good, that the account and the role it
  read are still so. `Onward` collects what no step but a stop takes back, and
  each request's part is preserved by the others because it only speaks of such
  things. `EndedTokensStayOut`, `HeldTokensWork`, `AdministratorsOnly`
  and `AccountsAreKept` follow.
* **AgentIdentityProofs.** The invariant has a part for each pair of files. The
  root's: once one has been served under, both its files are complete, so no
  later start draws another (`TheRootIsKept`, `TheCACanSign`). The agent's: what
  the two files hold at each step of the start, whence `BadPairsAreTorn` and
  `BurnedTokensAreHeld`. Between them: who signed which certificate for which
  host, and that what is pinned was served, whence `RefusalsHaveACause`.
  `NothingHalfDone` adds that before a root was served under no whole certificate
  is on disk, and that the key of an enrollment is not the one in the old file. So
  a start can go on from the files it finds (`RestartsAreNotRefused`), and an agent
  with an identity that it can read does not ask for another (`IdentitiesAreUsed`)
  and loses it only to whoever removes a file, or to a second enrollment after a
  start that could not read it (`IdentitiesAreKept`). `PlaneComesBack` and `AgentHeard`
  rest on these.

Every invariant the runs check is proved except `NeverWaits`. Only model-checked,
because liveness and `ENABLED` are out of the prover's reach: `NeverWaits`, `NoLeak`,
`PlaneComesBack`, `AgentHeard`, and the fairness in `ImplementsCadence`. The theorems
on broadcasts, doomed clients and identities above are as near as the prover
comes to the first four: the invariants and decreasing measures they rest on.
`ImplementsHysteresis` concerns safety only, so it is proved in full.

## What the models say about the code

### Findings

`PROJECT.json` "findings" quotes the statement that each of the violation runs
refutes.

* A token is not single-use when two enrollments overlap (`host_records_single_use`).
* On the SQL store the first transition of a container, and the removal of a host,
  never reach the event log (`ingest_history`: one behaviour with both). Each of
  the two refutes a statement of its own.
* A failed lookup of a known container hides a restart for good
  (`ingest_lookups`).
* A logout can fail with 500 because the session it is to end has just ended
  (`sessions_logout`).

### Contradictions without a run

Comments that the code does not keep, on paths where the reading is enough or
where a configured value decides.

* `registry.go:236-237` has the answer "never slower than the FSM wants".
  `FastestMode` (`engine.go:308`) ranks the modes by name, and configuration checks
  no order of their intervals: with a live interval above the critical one,
  opening a live view slows a critical host down. `AnswerKeepsUp` says what
  holds, that the rank is high enough; it is about the entities of the batch, so a
  critical container that a batch does not list does not speed its host up.
* `collector.go:84-85` has a new interval take effect with an immediate
  collection; `SetInterval` restarts the timer and no more (lines 51-54 and
  190-195, and `Cadence`).
* `service.go:119-121` and `api/auth.go:78-80` have a logout without a session, or
  with one that is gone, succeed. Besides the race above, the handler stands
  behind the session middleware, so that the second of two logouts in sequence,
  and one without a session, is answered 401.
* `historical_metric.go:80-85` has one resolution per period. The roll-up's
  cutoff (line 146) is not rounded to five minutes, so a period can have rows at
  both until the next pass. No sample is counted twice by it (`CountedOnce`).

### Other behaviour worth knowing

* Viewer counts have no identity. A `DELETE .../live` without its `POST` ends
  somebody else's view.
* Only metrics end CRITICAL. A container that stays stopped sends none, so its
  host is polled at the critical interval for as long as it is listed. One that
  stays unhealthy and idle recovers after the window and trips again at once.
* Batches of a host can overlap: an agent sends one at a time and gives up after
  30 seconds, but the server goes on. A slow one and its successor can then swap
  their log entries, so that a recovery stands before the breach it ends. No
  statement of the repository promises the order.
* A heartbeat, an enrollment or a token issue that overlaps a batch can write the
  old mode back into the host row, and a batch whose own copy has the new mode
  already does not correct it. The row stays wrong until a batch that begins with
  it compares it (`outdated` in `StoredModeCoherent`).
* `NothingLost` needs samples that are not older than the roll-up age less one
  minute when they arrive. `CollectedAt` is the agent's clock: an agent whose
  clock is six hours behind can lose samples to a roll-up, and only that one.
* A lost batch is lost: `collectAndReport` logs the error and the next batch is a
  new one. If only the answer was lost, the agent goes on at its old interval
  until the next one (`missed` in `DirectiveFollowed`).
* A login whose last store call fails is answered 500 with its cookie already
  set: the session works.
* A crash between two writes of a start is survived, by the agent at the price
  of its token. A crash inside one leaves a file that is found at every later
  start and parsed at none: the process does not come up until somebody removes
  it (`BadPairNeedsTear`, `PlaneComesBack`).
* A file that exists and cannot be read passes for an absent one. The control
  plane draws a new root over its old one, and every agent is refused from then
  on; an agent with a live token enrolls again over the pair it has, and a crash
  between the writes of that enrollment leaves a certificate and a key that do
  not fit.
* An expired certificate that is cached is used at every start, and refused at
  every heartbeat; a fresh token in the environment is not looked at until the
  files are removed.
* A lost enrollment answer costs a token and leaves `agentEnrolled` set for an
  agent that has nothing. Only the operator can issue another.

## Not modelled

Certificates' contents and password hashes (library code), wording and layout of
answers, listing and filtering, floating-point rounding in averages, HTTP routing
except where it decides who may call. Latest-metric rows and the broadcast made
of each metric are left out of TelemetryIngest: no property reads them, and their
failures are `FailBatch` and nothing. Migrations run once, in order, each in a
transaction. Status `offline` exists in `models.go` and is set nowhere.

* `hoststats.go` and `docker/stats.go` parse text and divide floats; they keep no
  state, and only whether they fail is modelled (Collector).
* `openStore`, configuration parsing and the rest of both `main`s run once in
  sequence and end the process on any error, which is a crash in AgentIdentity.
* Row conversion, list queries and the remaining handlers of the stores and the
  browser API read one snapshot and change nothing.
* A commit whose outcome the caller does not learn: a failing call is taken to
  have changed nothing, except for the enrollment answer and the batch, where the
  network loses the answer after the fact.

## Plan

1. Done: MonitoringEngine, HysteresisRule, MonitoringHistory, HostRecords,
   TelemetryIngest, Hub, HistoricalMetrics, Collector and Cadence, AgentIdentity and
   Sessions, each with proofs of the safety properties its runs check, and for
   the Hub and AgentIdentity of the safety half of their liveness.
2. Theorems that join what is proved apart: the engine's hysteresis and dwell for
   entities inside TelemetryIngest.
3. Collector and TelemetryIngest composed: a batch lost on either side of
   `IngestTelemetry`, and the transitions and intervals it leaves behind.
4. Pure modules for the percentages of `docker/stats.go` and `hoststats.go`
   against reference definitions.
