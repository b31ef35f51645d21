---------------------- MODULE HistoricalMetricsProofs -----------------------
(***************************************************************************)
(* Proofs about HistoricalMetrics: no sample is counted twice, and none is *)
(* lost before it expires.                                                 *)
(***************************************************************************)
EXTENDS HistoricalMetrics, TLAPS

\* Truncate goes back to the start of an interval, and no further.
LEMMA TruncateBounds ==
    ASSUME NEW t \in Nat, NEW length \in Nat \ {0}
    PROVE  /\ Truncate(t, length) \in Nat
           /\ Truncate(t, length) <= t
           /\ t - Truncate(t, length) <= length - 1
<1>1. t % length \in 0..(length - 1)
  OBVIOUS
<1>2. t % length <= t
  OBVIOUS
<1> QED BY <1>1, <1>2 DEF Truncate

\* A sample is in no row before it is recorded.
Unrecorded ==
    \A s \in Samples \ recorded : fine[s] = 0 /\ coarse[s] = 0 /\ pass.read[s] = 0

\* A sample that was read is still counted as it was.
ReadIsCurrent ==
    pass.phase = "read" => \A s \in Samples : pass.read[s] \in {0, fine[s]}

\* The samples that are old enough, and no others, were read.
ReadIsComplete ==
    pass.phase = "read" =>
        \A s \in Samples :
            /\ pass.read[s] > 0 => Fine(s) < pass.at - RollupAfter
            /\ s \in recorded /\ Fine(s) < pass.at - RollupAfter => pass.read[s] = fine[s]

Counting ==
    /\ RetentionTypeOK
    /\ Unrecorded
    /\ ReadIsCurrent
    /\ CountedOnce

\* OnTime: the condition under which nothing is lost.
OnTime == MaxLateness + FineLength - 1 <= RollupAfter

Keeping ==
    /\ pass.at <= now
    /\ ReadIsComplete
    /\ \A s \in recorded : ~Expirable(s) => fine[s] + coarse[s] > 0

RetentionInv == Counting /\ (OnTime => Keeping)

-----------------------------------------------------------------------------
(* Types.                                                                  *)

LEMMA HomeType ==
    ASSUME NEW e \in Entities, NEW t \in Nat
    PROVE  HomeOf(e, t) \in [entity : Entities, start : Nat]
BY TruncateBounds, RetentionAssumption DEF HomeOf

LEMMA RetentionTypeStep ==
    ASSUME RetentionTypeOK, [RetentionNext]_vars
    PROVE  RetentionTypeOK'
<1> USE RetentionAssumption
<1>1. ASSUME NEW s \in Samples, NEW e \in Entities, NEW t \in 0..now,
             RecordHistoricalSample(s, e, t)
      PROVE  RetentionTypeOK'
  <2>1. HomeOf(e, t) \in [entity : Entities, start : Nat]
    BY <1>1, HomeType DEF RetentionTypeOK
  <2> QED BY <1>1, <2>1 DEF RecordHistoricalSample, RetentionTypeOK
<1>2. CASE StartPass
  BY <1>2 DEF StartPass, NoPass, Nothing, Passes, RetentionTypeOK
<1>3. CASE SelectBuckets
  BY <1>3 DEF SelectBuckets, Passes, RetentionTypeOK
<1>4. CASE CommitRollup
  <2>1. coarse' \in [Samples -> Nat] /\ fine' \in [Samples -> Nat]
    BY <1>4 DEF CommitRollup, Passes, RetentionTypeOK
  <2> QED BY <1>4, <2>1 DEF CommitRollup, Passes, RetentionTypeOK
<1>5. CASE DeleteExpired
  <2>1. coarse' \in [Samples -> Nat] /\ fine' \in [Samples -> Nat]
    BY <1>5 DEF DeleteExpired, Passes, RetentionTypeOK
  <2> QED BY <1>5, <2>1 DEF DeleteExpired, NoPass, Nothing, Passes, RetentionTypeOK
<1>6. CASE FailPass
  BY <1>6 DEF FailPass, NoPass, Nothing, Passes, RetentionTypeOK
<1>7. CASE TimePasses
  BY <1>7 DEF TimePasses, RetentionTypeOK
<1>8. CASE UNCHANGED vars
  BY <1>8 DEF vars, RetentionTypeOK
<1> QED BY <1>1, <1>2, <1>3, <1>4, <1>5, <1>6, <1>7, <1>8 DEF RetentionNext

-----------------------------------------------------------------------------
(* Counting.                                                               *)

LEMMA CountingStep ==
    ASSUME Counting, [RetentionNext]_vars
    PROVE  Counting'
<1>1. RetentionTypeOK /\ RetentionTypeOK'
  BY RetentionTypeStep DEF Counting
<1> DEFINE Rest == Unrecorded /\ ReadIsCurrent /\ CountedOnce
<1>2. Rest
  BY DEF Counting
<1> SUFFICES Rest'
  BY <1>1 DEF Counting
<1>3. ASSUME NEW s \in Samples, NEW e \in Entities, NEW t \in 0..now,
             RecordHistoricalSample(s, e, t)
      PROVE  Rest'
  BY <1>1, <1>2, <1>3
     DEF RecordHistoricalSample, RetentionTypeOK, Passes, Unrecorded, ReadIsCurrent, CountedOnce
<1>4. CASE StartPass
  BY <1>1, <1>2, <1>4
     DEF StartPass, NoPass, Nothing, RetentionTypeOK, Unrecorded, ReadIsCurrent, CountedOnce
<1>5. CASE SelectBuckets
  BY <1>1, <1>2, <1>5
     DEF SelectBuckets, RetentionTypeOK, Unrecorded, ReadIsCurrent, CountedOnce
<1>6. CASE CommitRollup
  <2>1. ASSUME NEW s \in Samples
        PROVE  /\ coarse'[s] = coarse[s] + pass.read[s]
               /\ fine'[s] = 0 \/ (fine'[s] = fine[s] /\ pass.read[s] = 0)
               /\ fine'[s] \in {0, fine[s]}
    BY <1>1, <1>6 DEF CommitRollup, SourceBuckets, RetentionTypeOK, Passes
  <2>2. pass.phase = "read" /\ pass'.phase = "rolled" /\ pass'.read = pass.read /\ recorded' = recorded
    BY <1>1, <1>6 DEF CommitRollup, RetentionTypeOK, Passes
  <2>3. Unrecorded'
    BY <1>1, <1>2, <2>1, <2>2 DEF Unrecorded, RetentionTypeOK, Passes
  <2>4. CountedOnce'
    <3>1. ASSUME NEW s \in Samples
          PROVE  /\ fine[s] \in Nat /\ coarse[s] \in Nat /\ fine[s] + coarse[s] <= 1
                 /\ pass.read[s] \in {0, fine[s]}
      BY <1>1, <1>2, <2>2 DEF CountedOnce, ReadIsCurrent, RetentionTypeOK
    <3>2. ASSUME NEW s \in Samples PROVE fine'[s] + coarse'[s] <= 1
      BY <2>1, <3>1
    <3> QED BY <3>2 DEF CountedOnce
  <2> QED BY <2>2, <2>3, <2>4 DEF ReadIsCurrent
<1>7. CASE DeleteExpired
  <2>1. ASSUME NEW s \in Samples
        PROVE  fine'[s] \in {0, fine[s]} /\ coarse'[s] \in {0, coarse[s]} /\ pass'.read[s] = 0
    BY <1>7 DEF DeleteExpired, NoPass, Nothing
  <2>2. pass'.phase = "idle" /\ recorded' = recorded
    BY <1>7 DEF DeleteExpired, NoPass
  <2>3. Unrecorded'
    BY <1>2, <2>1, <2>2 DEF Unrecorded
  <2>4. CountedOnce'
    <3>1. ASSUME NEW s \in Samples
          PROVE  fine[s] \in Nat /\ coarse[s] \in Nat /\ fine[s] + coarse[s] <= 1
      BY <1>1, <1>2 DEF CountedOnce, RetentionTypeOK
    <3> QED BY <2>1, <3>1 DEF CountedOnce
  <2> QED BY <2>2, <2>3, <2>4 DEF ReadIsCurrent
<1>8. CASE FailPass
  BY <1>1, <1>2, <1>8
     DEF FailPass, NoPass, Nothing, RetentionTypeOK, Unrecorded, ReadIsCurrent, CountedOnce
<1>9. CASE TimePasses
  BY <1>2, <1>9 DEF TimePasses, Unrecorded, ReadIsCurrent, CountedOnce
<1>10. CASE UNCHANGED vars
  BY <1>2, <1>10 DEF vars, Unrecorded, ReadIsCurrent, CountedOnce
<1> QED BY <1>1, <1>3, <1>4, <1>5, <1>6, <1>7, <1>8, <1>9, <1>10 DEF RetentionNext

-----------------------------------------------------------------------------
(* Keeping.                                                                *)

LEMMA KeepingStep ==
    ASSUME Counting, OnTime, Keeping, [RetentionNext]_vars
    PROVE  Keeping'
<1> USE RetentionAssumption
<1>1. RetentionTypeOK /\ RetentionTypeOK'
  BY RetentionTypeStep DEF Counting
<1>2. ASSUME NEW s \in Samples, NEW e \in Entities, NEW t \in 0..now,
             RecordHistoricalSample(s, e, t)
      PROVE  Keeping'
  <2>1. ~(Fine(s)' < pass.at - RollupAfter)
    <3>1. Fine(s)' = Truncate(t, FineLength)
      BY <1>1, <1>2 DEF RecordHistoricalSample, Fine, HomeOf, RetentionTypeOK
    <3>2. t - Truncate(t, FineLength) <= FineLength - 1 /\ Truncate(t, FineLength) \in Nat
      BY <1>1, TruncateBounds DEF RetentionTypeOK
    <3>3. now - t <= MaxLateness /\ pass.at <= now /\ pass.at \in Nat
      BY <1>1, <1>2 DEF RecordHistoricalSample, Keeping, RetentionTypeOK, Passes
    <3> QED BY <1>1, <3>1, <3>2, <3>3 DEF OnTime, RetentionTypeOK
  <2>2. pass.read[s] = 0 /\ fine'[s] = 1 /\ coarse'[s] = 0
    BY <1>1, <1>2 DEF Counting, Unrecorded, RecordHistoricalSample, RetentionTypeOK
  <2>3. \A r \in Samples \ {s} : Fine(r)' = Fine(r) /\ fine'[r] = fine[r] /\ coarse'[r] = coarse[r]
    BY <1>1, <1>2 DEF RecordHistoricalSample, RetentionTypeOK, Fine
  <2>4. now' = now /\ pass' = pass /\ recorded' = recorded \cup {s}
    BY <1>2 DEF RecordHistoricalSample
  <2>5. ReadIsComplete'
    BY <2>1, <2>2, <2>3, <2>4 DEF Keeping, ReadIsComplete
  <2>6. \A r \in recorded' : ~Expirable(r)' => fine'[r] + coarse'[r] > 0
    BY <1>1, <2>2, <2>3, <2>4 DEF Keeping, Expirable, RetentionTypeOK
  <2> QED BY <2>4, <2>5, <2>6 DEF Keeping
<1>3. CASE StartPass
  BY <1>1, <1>3 DEF StartPass, NoPass, Keeping, ReadIsComplete, Expirable, Fine, RetentionTypeOK
<1>4. CASE SelectBuckets
  <2>1. \A s \in Samples : Fine(s)' = Fine(s) /\ (Expirable(s)' <=> Expirable(s))
    BY <1>4 DEF SelectBuckets, Fine, Expirable
  <2>2. ReadIsComplete'
    BY <1>1, <1>4, <2>1 DEF SelectBuckets, ReadIsComplete, RetentionTypeOK
  <2> QED BY <1>1, <1>4, <2>1, <2>2 DEF SelectBuckets, Keeping, RetentionTypeOK
<1>5. CASE CommitRollup
  <2>1. /\ pass.phase = "read" /\ pass'.phase = "rolled" /\ pass'.at = pass.at
        /\ now' = now /\ recorded' = recorded /\ home' = home
    BY <1>1, <1>5 DEF CommitRollup, RetentionTypeOK, Passes
  <2>2. ASSUME NEW s \in recorded, ~Expirable(s)
        PROVE  fine'[s] + coarse'[s] > 0
    <3>1. fine[s] + coarse[s] > 0 /\ coarse'[s] = coarse[s] + pass.read[s] /\ pass.read[s] \in Nat
      BY <1>1, <1>5, <2>2 DEF CommitRollup, Keeping, RetentionTypeOK, Passes
    <3>2. CASE Fine(s) \in SourceBuckets
      <4>1. PICK r \in Samples : pass.read[r] > 0 /\ Fine(r) = Fine(s)
        BY <3>2 DEF SourceBuckets
      <4>2. pass.read[s] = fine[s]
        BY <1>1, <2>1, <4>1 DEF Keeping, ReadIsComplete, RetentionTypeOK
      <4>3. fine'[s] = 0
        BY <1>1, <1>5, <3>2 DEF CommitRollup, RetentionTypeOK
      <4> QED BY <1>1, <3>1, <4>2, <4>3 DEF RetentionTypeOK
    <3>3. CASE Fine(s) \notin SourceBuckets
      <4>1. fine'[s] = fine[s]
        BY <1>1, <1>5, <3>3 DEF CommitRollup, RetentionTypeOK
      <4> QED BY <1>1, <3>1, <4>1 DEF RetentionTypeOK
    <3> QED BY <3>2, <3>3
  <2> QED BY <2>1, <2>2 DEF Keeping, ReadIsComplete, Expirable, Fine
<1>6. CASE DeleteExpired
  <2>1. /\ pass'.phase = "idle" /\ pass'.at = 0
        /\ now' = now /\ recorded' = recorded /\ home' = home
    BY <1>6 DEF DeleteExpired, NoPass
  <2>2. ASSUME NEW s \in recorded, ~Expirable(s)
        PROVE  fine'[s] = fine[s] /\ coarse'[s] = coarse[s]
    <3>1. s \in Samples /\ Fine(s) \in Nat /\ pass.at \in Nat /\ now \in Nat /\ pass.at <= now
      BY <1>1 DEF RetentionTypeOK, Passes, Fine, Keeping
    <3>2. Fine(s) - Coarse(s) <= CoarseLength - 1 /\ Coarse(s) \in Nat
      BY <3>1, TruncateBounds DEF Coarse
    <3>3. Retention > 0 => ~(Fine(s) < pass.at - Retention) /\ ~(Coarse(s) < pass.at - Retention)
      BY <2>2, <3>1, <3>2 DEF Expirable
    <3> QED BY <1>6, <3>1, <3>3 DEF DeleteExpired
  <2> QED BY <1>1, <2>1, <2>2 DEF Keeping, ReadIsComplete, Expirable, Fine, RetentionTypeOK
<1>7. CASE FailPass
  BY <1>1, <1>7 DEF FailPass, NoPass, Keeping, ReadIsComplete, Expirable, Fine, RetentionTypeOK
<1>8. CASE TimePasses
  <2>1. \A s \in recorded : ~Expirable(s)' => ~Expirable(s)
    BY <1>1, <1>8 DEF TimePasses, Expirable, Fine, RetentionTypeOK
  <2> QED BY <1>1, <1>8, <2>1 DEF TimePasses, Keeping, ReadIsComplete, Fine, RetentionTypeOK, Passes
<1>9. CASE UNCHANGED vars
  BY <1>9 DEF vars, Keeping, ReadIsComplete, Expirable, Fine
<1> QED BY <1>2, <1>3, <1>4, <1>5, <1>6, <1>7, <1>8, <1>9 DEF RetentionNext

-----------------------------------------------------------------------------
LEMMA RetentionInitially == RetentionInit => RetentionInv
<1> SUFFICES ASSUME RetentionInit PROVE RetentionInv
  OBVIOUS
<1>1. RetentionTypeOK
  BY DEF RetentionInit, RetentionTypeOK, NoPass, Nothing, Passes
<1>2. Unrecorded /\ ReadIsCurrent /\ CountedOnce
  BY DEF RetentionInit, NoPass, Nothing, Unrecorded, ReadIsCurrent, CountedOnce
<1>3. Keeping
  BY DEF RetentionInit, NoPass, Keeping, ReadIsComplete
<1> QED BY <1>1, <1>2, <1>3 DEF RetentionInv, Counting

\* Between its SELECT and its DELETE a pass knows the count of every sample it
\* will move, and of every sample whose minute it will delete.
THEOREM RetentionInvariant == RetentionSpec => []RetentionInv
<1>1. RetentionInv /\ [RetentionNext]_vars => RetentionInv'
  <2> SUFFICES ASSUME RetentionInv, [RetentionNext]_vars PROVE RetentionInv'
    OBVIOUS
  <2>1. Counting'
    BY CountingStep DEF RetentionInv
  <2>2. OnTime' <=> OnTime
    BY DEF OnTime
  <2>3. OnTime => Keeping'
    BY KeepingStep DEF RetentionInv
  <2> QED BY <2>1, <2>2, <2>3 DEF RetentionInv
<1> QED BY RetentionInitially, <1>1, PTL DEF RetentionSpec

\* Every reachable state of the history and its retention pass is well typed.
THEOREM RetentionTypeCorrect == RetentionSpec => []RetentionTypeOK
<1>1. RetentionInv => RetentionTypeOK
  BY DEF RetentionInv, Counting
<1> QED BY RetentionInvariant, <1>1, PTL

\* No sample is ever counted twice, for any ages, lateness and failures.
THEOREM SamplesCountedOnce == RetentionSpec => []CountedOnce
<1>1. RetentionInv => CountedOnce
  BY DEF RetentionInv, Counting
<1> QED BY RetentionInvariant, <1>1, PTL

\* No sample is lost before it expires, for any lateness up to the age at
\* which minutes are rolled up, less the length of one.
THEOREM SamplesKept == RetentionSpec => []NothingLost
<1>1. RetentionInv => NothingLost
  BY DEF RetentionInv, Keeping, OnTime, NothingLost
<1> QED BY RetentionInvariant, <1>1, PTL
=============================================================================
