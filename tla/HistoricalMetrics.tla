-------------------------- MODULE HistoricalMetrics -------------------------
(***************************************************************************)
(* The metric history of the SQL store, sqlstore/historical_metric.go: a   *)
(* sample is folded into the row of its minute, and an hourly pass rolls   *)
(* old minutes up into coarser rows and deletes what is past retention.    *)
(* The pass reads the old minutes first and writes in a transaction later; *)
(* samples are recorded in between, and the pass may fail at any point.    *)
(*                                                                         *)
(* A row holds a count and averages; it is represented by the samples they *)
(* are over, and by how often each is counted.  A sample can only be in    *)
(* the row of its minute and in the coarse row around it, so two counts    *)
(* per sample describe the table.  Left out: the floating-point arithmetic *)
(* of the averages, and samples dated in the future.                       *)
(***************************************************************************)
EXTENDS Integers

CONSTANTS
    Entities,       \* hosts and containers
    Samples,        \* the samples that may be recorded
    FineLength,     \* bucketResolutionSeconds
    CoarseLength,   \* rollupResolutionSeconds
    RollupAfter,
    Retention,      \* retentionDays, or 0 to keep everything
    MaxLateness,    \* how long ago a sample may have been collected
    MaxTime         \* bound on the clock

ASSUME RetentionAssumption ==
    /\ {FineLength, CoarseLength} \subseteq Nat \ {0}
    /\ CoarseLength % FineLength = 0
    /\ {RollupAfter, Retention, MaxLateness, MaxTime} \subseteq Nat

VARIABLES
    now,
    home,         \* sample -> its entity and the start of its minute
    recorded,     \* the samples recorded
    fine,         \* sample -> how often the row of its minute counts it
    coarse,       \* sample -> how often the coarse row counts it
    pass          \* the retention pass in progress

vars == <<now, home, recorded, fine, coarse, pass>>

\* phase: where RunRetention is.  at: its now.  read: what the SELECT
\* returned, as counts per sample.
Passes == [phase : {"idle", "started", "read", "rolled"}, at : Nat, read : [Samples -> Nat]]

Nothing == [s \in Samples |-> 0]

NoPass == [phase |-> "idle", at |-> 0, read |-> Nothing]

RetentionTypeOK ==
    /\ now \in Nat
    /\ home \in [Samples -> [entity : Entities, start : Nat]]
    /\ recorded \subseteq Samples
    /\ fine \in [Samples -> Nat]
    /\ coarse \in [Samples -> Nat]
    /\ pass \in Passes

\* time.Time.Truncate.
Truncate(t, length) == t - (t % length)

\* The bucket_start of the two rows a sample may be in.
Fine(s) == home[s].start

Coarse(s) == Truncate(Fine(s), CoarseLength)

HomeOf(e, t) == [entity |-> e, start |-> Truncate(t, FineLength)]

-----------------------------------------------------------------------------
\* Mutant: a sample that finds a row there replaces what the row counts.
RecordOverwriting(s, e, t) ==
    /\ s \notin recorded
    /\ now - t <= MaxLateness
    /\ recorded' = recorded \cup {s}
    /\ home' = [home EXCEPT ![s] = HomeOf(e, t)]
    /\ fine' = [r \in Samples |-> IF r = s THEN 1
                                  ELSE IF home[r] = HomeOf(e, t) THEN 0
                                  ELSE fine[r]]
    /\ UNCHANGED <<now, coarse, pass>>

\* RecordHistoricalSample: a sample of entity e collected at t inserts a row
\* of its own or is folded into the row of its minute.
RecordHistoricalSample(s, e, t) ==
    /\ s \notin recorded
    /\ now - t <= MaxLateness
    /\ recorded' = recorded \cup {s}
    /\ home' = [home EXCEPT ![s] = HomeOf(e, t)]
    /\ fine' = [fine EXCEPT ![s] = @ + 1]
    /\ UNCHANGED <<now, coarse, pass>>

\* runRetentionOnce: the time of a pass is taken before it reads anything.
StartPass ==
    /\ pass.phase = "idle"
    /\ pass' = [NoPass EXCEPT !.phase = "started", !.at = now]
    /\ UNCHANGED <<now, home, recorded, fine, coarse>>

\* The SELECT of rollupOldMinuteBuckets, and the sums made of it.
SelectBuckets ==
    /\ pass.phase = "started"
    /\ pass' = [phase |-> "read",
                at    |-> pass.at,
                read  |-> [s \in Samples |->
                              IF Fine(s) < pass.at - RollupAfter THEN fine[s] ELSE 0]]
    /\ UNCHANGED <<now, home, recorded, fine, coarse>>

\* The minutes whose rows were read: sourceBuckets names no entity.
SourceBuckets == {Fine(s) : s \in {r \in Samples : pass.read[r] > 0}}

\* Mutant: the minutes stay when they are rolled up.
CommitRollupKeeping ==
    /\ pass.phase = "read"
    /\ coarse' = [s \in Samples |-> coarse[s] + pass.read[s]]
    /\ pass' = [pass EXCEPT !.phase = "rolled"]
    /\ UNCHANGED <<now, home, recorded, fine>>

\* Mutant: a coarse row that is there already is replaced.
CommitRollupReplacing ==
    LET CoarseRow(s) == <<home[s].entity, Coarse(s)>>
        written == {CoarseRow(s) : s \in {r \in Samples : pass.read[r] > 0}}
    IN  /\ pass.phase = "read"
        /\ coarse' = [s \in Samples |->
              IF CoarseRow(s) \in written THEN pass.read[s] ELSE coarse[s]]
        /\ fine' = [s \in Samples |-> IF Fine(s) \in SourceBuckets THEN 0 ELSE fine[s]]
        /\ pass' = [pass EXCEPT !.phase = "rolled"]
        /\ UNCHANGED <<now, home, recorded>>

\* The transaction: the sums go into the coarse rows, and the rows of the
\* minutes read are deleted, for every entity and with whatever was recorded
\* in them since.
CommitRollup ==
    /\ pass.phase = "read"
    /\ coarse' = [s \in Samples |-> coarse[s] + pass.read[s]]
    /\ fine' = [s \in Samples |-> IF Fine(s) \in SourceBuckets THEN 0 ELSE fine[s]]
    /\ pass' = [pass EXCEPT !.phase = "rolled"]
    /\ UNCHANGED <<now, home, recorded>>

\* Mutant: expired minutes are taken out of the coarse rows' counts, whether
\* or not these hold them.
DeleteBySubtracting ==
    LET cutoff == pass.at - Retention
        Dropped(s) == IF Retention > 0 /\ Fine(s) < cutoff THEN 1 ELSE 0
    IN  /\ pass.phase = "rolled"
        /\ pass' = NoPass
        /\ fine' = [s \in Samples |-> IF Dropped(s) = 1 THEN 0 ELSE fine[s]]
        /\ coarse' = [s \in Samples |-> coarse[s] - Dropped(s)]
        /\ UNCHANGED <<now, home, recorded>>

\* The DELETE of RunRetention, by the start of a row.
DeleteExpired ==
    LET cutoff == pass.at - Retention
    IN  /\ pass.phase = "rolled"
        /\ pass' = NoPass
        /\ fine' = [s \in Samples |->
              IF Retention > 0 /\ Fine(s) < cutoff THEN 0 ELSE fine[s]]
        /\ coarse' = [s \in Samples |->
              IF Retention > 0 /\ Coarse(s) < cutoff THEN 0 ELSE coarse[s]]
        /\ UNCHANGED <<now, home, recorded>>

\* An error, the timeout of the pass or a restart: nothing uncommitted stays.
FailPass ==
    /\ pass.phase # "idle"
    /\ pass' = NoPass
    /\ UNCHANGED <<now, home, recorded, fine, coarse>>

TimePasses ==
    /\ now < MaxTime
    /\ now' = now + 1
    /\ UNCHANGED <<home, recorded, fine, coarse, pass>>

RetentionInit ==
    /\ now = 0
    /\ home \in [Samples -> [entity : Entities, start : {0}]]
    /\ recorded = {}
    /\ fine = Nothing
    /\ coarse = Nothing
    /\ pass = NoPass

RetentionNext ==
    \/ \E s \in Samples, e \in Entities, t \in 0..now : RecordHistoricalSample(s, e, t)
    \/ StartPass
    \/ SelectBuckets
    \/ CommitRollup
    \/ DeleteExpired
    \/ FailPass
    \/ TimePasses

RetentionSpec == RetentionInit /\ [][RetentionNext]_vars

-----------------------------------------------------------------------------
(* Properties.                                                             *)

\* No sample is counted twice, in one row or in two, however passes fail and
\* repeat (RunRetention is safe to call repeatedly, historical_metric.go:121-131).
CountedOnce == \A s \in Samples : fine[s] + coarse[s] <= 1

\* A sample expires with the row it is in, by the start of that row, so up to
\* CoarseLength - 1 before its own age reaches Retention (RunRetention,
\* historical_metric.go:137-138).
Expirable(s) == Retention > 0 /\ Fine(s) - (CoarseLength - 1) < now - Retention

\* A sample is counted until it expires, whatever is recorded while a pass is
\* between its SELECT and its DELETE (historical_metric.go:148-246), provided
\* that no sample arrives so late that its minute may have been read already.
NothingLost ==
    MaxLateness + FineLength - 1 <= RollupAfter =>
        \A s \in recorded : ~Expirable(s) => fine[s] + coarse[s] > 0
=============================================================================
