----------------------- MODULE TelemetryIngestProofs ------------------------
(***************************************************************************)
(* Proofs about telemetry ingestion, for any number of hosts, containers   *)
(* and handlers, either store, any thresholds and any failures of the      *)
(* store, however batches and other requests of one host overlap.  Only    *)
(* what is said of restarts asks that the lookup of a container does not   *)
(* fail.                                                                   *)
(***************************************************************************)
EXTENDS TelemetryIngest, SequenceTheorems, TLAPS

-----------------------------------------------------------------------------
(* The inductive invariant.                                                *)

ReadModes == UNION {[D -> Modes] : D \in SUBSET Entities}

Counts == 0..MaxRestarts

BatchRecords ==
    [looked   : BOOLEAN,
     host     : Hosts,
     mode     : Modes,
     toCheck  : SUBSET Containers,
     toSample : SUBSET Entities,
     toWrite  : SUBSET Containers,
     counts   : [Containers -> Counts],
     prior    : [Containers -> {Absent} \cup Counts],
     pending  : Nat,
     measured : BOOLEAN,
     read     : ReadModes]

Events == [entity : Entities, what : {"critical", "recovered", "removed"}, known : BOOLEAN]

Directives == [mode : Modes, entities : SUBSET Entities, by : Handlers]

TypeInv ==
    /\ IngestTypeOK
    /\ batch \in [Handlers -> BatchRecords \cup {Idle}]
    /\ directive \in [Hosts -> SUBSET Directives]
    /\ docker \in [Containers -> Counts]
    /\ happened \in Seq(Events)
    /\ baseline \in [Containers -> {Absent} \cup Counts]
    /\ flagged \in [Containers -> {Absent} \cup Counts]
    /\ changed \subseteq Entities

\* A batch is about one host, and checks a container before it writes it.
BatchOfOneHost ==
    \A p \in Handlers : InProgress(p) =>
        /\ \A e \in batch[p].toWrite \cup batch[p].toSample \cup DOMAIN batch[p].read :
              OwnerOf(e) = batch[p].host
        /\ ~batch[p].looked => batch[p].toWrite \subseteq batch[p].toCheck

\* So is the transition it is about to record.
PendingOfOneHost ==
    \A p \in Handlers : InProgress(p) /\ batch[p].pending # 0 =>
        LET event == happened[batch[p].pending]
        IN  event.what # "removed" /\ OwnerOf(event.entity) = batch[p].host

RemovedIsGone ==
    \A i \in 1..Len(happened) :
        happened[i].what = "removed" => happened[i].entity \in Hosts /\ ~Alive(happened[i].entity)

\* In SQL a row leaves the store with its host only.
KnownStays ==
    \A i \in 1..Len(happened) :
        LET e == happened[i].entity
        IN  SQL /\ happened[i].known /\ e \in Containers /\ Alive(HostOf[e]) => Known(e)

\* Count n of container c was evaluated, or taken for a first one.
Noticed(c, n) == n <= baseline[c] \/ n <= flagged[c]

\* A batch has noticed the counts of the rows it found, its own count of a
\* container it found no row of, and of one it has evaluated.
PriorNoticed ==
    \A p \in Handlers, c \in Containers :
        InProgress(p) /\ batch[p].looked =>
            /\ batch[p].prior[c] # Absent => Noticed(c, batch[p].prior[c])
            /\ c \in batch[p].toWrite /\ (batch[p].prior[c] = Absent \/ c \notin batch[p].toCheck)
                  => Noticed(c, batch[p].counts[c])

IngestInv ==
    /\ TypeInv
    /\ BatchOfOneHost
    /\ PendingOfOneHost
    /\ RemovedIsGone
    /\ KnownStays
    /\ KnownTransitionsLogged

CountInv == PriorNoticed /\ RestartsNoticed

-----------------------------------------------------------------------------
(* Modes read, stored and answered.                                        *)

\* What the last reader of a mode has read is what the engine says, or it has
\* changed since.
ReadIsCurrent ==
    \A p \in Handlers : InProgress(p) =>
        \A e \in DOMAIN batch[p].read \ changed :
            reader[e] = p => batch[p].read[e] = EffectiveMode(e)

\* The host's mode is read when its containers have been written.
HostReadLast ==
    \A p \in Handlers : InProgress(p) /\ batch[p].host \in DOMAIN batch[p].read =>
        batch[p].toWrite = {}

\* A directive speaks for entities of its host, and no handler is at work on a
\* batch of the host while its answer to an earlier one stands.
DirectiveOfHost ==
    /\ \A h \in Hosts : \A d \in directive[h] : \A e \in d.entities : OwnerOf(e) = h
    /\ \A p \in Handlers : InProgress(p) => \A d \in directive[batch[p].host] : d.by # p

ModeInv ==
    /\ ReadIsCurrent
    /\ HostReadLast
    /\ StoredModeCoherent
    /\ DirectiveOfHost
    /\ AnswerKeepsUp

-----------------------------------------------------------------------------
(* Records of batches, and what each call does to its own.                 *)

LEMMA RecordIsNotIdle == ASSUME NEW b \in BatchRecords PROVE b # Idle
<1>1. "looked" \in DOMAIN b
  BY DEF BatchRecords
<1>2. DOMAIN Idle = {"host"}
  BY DEF Idle
<1> QED BY <1>1, <1>2

LEMMA BatchType ==
    ASSUME TypeInv, NEW p \in Handlers, InProgress(p)
    PROVE  batch[p] \in BatchRecords
BY DEF TypeInv, InProgress

LEMMA ModeType == \A e \in Entities : EffectiveMode(e) \in Modes
BY DEF EffectiveMode, Modes

\* The other handlers' batches stay as they are.
OthersKept(p) == \A q \in Handlers \ {p} : batch'[q] = batch[q]

LEMMA SetBatch ==
    ASSUME TypeInv, NEW p \in Handlers, NEW b \in BatchRecords \cup {Idle},
           batch' = [batch EXCEPT ![p] = b]
    PROVE  /\ batch'[p] = b /\ OthersKept(p)
           /\ batch' \in [Handlers -> BatchRecords \cup {Idle}]
BY DEF TypeInv, OthersKept

\* What never changes in a batch, and the rest of it in three groups.
SameBatch(d, b) == d.host = b.host /\ d.mode = b.mode /\ d.counts = b.counts
SameLists(d, b) == d.toCheck = b.toCheck /\ d.toSample = b.toSample /\ d.toWrite = b.toWrite
SameFound(d, b) == d.looked = b.looked /\ d.prior = b.prior

LEMMA LookupEffect ==
    ASSUME TypeInv, NEW p \in Handlers, NEW failed \in SUBSET Containers, Lookup(p, failed)
    PROVE  /\ batch'[p] \in BatchRecords /\ OthersKept(p)
           /\ batch' \in [Handlers -> BatchRecords \cup {Idle}]
           /\ SameBatch(batch'[p], batch[p]) /\ SameLists(batch'[p], batch[p])
           /\ batch'[p].pending = batch[p].pending /\ batch'[p].read = batch[p].read
           /\ batch'[p].looked
           /\ \A c \in Containers : batch'[p].prior[c] \in {Absent, row[c].restarts}
           /\ "lookup" \notin FailingCalls =>
                 \A c \in batch[p].toCheck : batch'[p].prior[c] = row[c].restarts
<1> DEFINE prior == [c \in Containers |->
                        IF c \in batch[p].toCheck \ failed THEN row[c].restarts ELSE Absent]
           d == [batch[p] EXCEPT !.prior = prior, !.looked = TRUE]
<1>1. batch[p] \in BatchRecords
  BY BatchType DEF Lookup
<1>2. batch' = [batch EXCEPT ![p] = d]
  BY DEF Lookup, TypeInv
<1>3. prior \in [Containers -> {Absent} \cup Counts]
  BY DEF TypeInv, IngestTypeOK, Counts
<1>4. /\ \A c \in Containers : prior[c] \in {Absent, row[c].restarts}
      /\ "lookup" \notin FailingCalls =>
            \A c \in batch[p].toCheck : prior[c] = row[c].restarts
  BY <1>1 DEF Lookup, BatchRecords
<1> HIDE DEF prior
<1>5. /\ d \in BatchRecords /\ SameBatch(d, batch[p]) /\ SameLists(d, batch[p])
      /\ d.pending = batch[p].pending /\ d.read = batch[p].read
      /\ d.looked = TRUE /\ d.prior = prior
  BY <1>1, <1>3 DEF BatchRecords, SameBatch, SameLists
<1> HIDE DEF d
<1> QED BY <1>2, <1>4, <1>5, SetBatch

\* An event is added to what happened, or nothing is.
Extended ==
    /\ happened' \in Seq(Events)
    /\ Len(happened) \in Nat /\ Len(happened') \in Nat
    /\ Len(happened) <= Len(happened')
    /\ \A i \in 1..Len(happened) : happened'[i] = happened[i]

Happens(e, what, known) ==
    /\ Len(happened') = Len(happened) + 1
    /\ happened'[Len(happened) + 1] = [entity |-> e, what |-> what, known |-> known]

LEMMA HappenedAppend ==
    ASSUME TypeInv, NEW e \in Entities, NEW what \in {"critical", "recovered", "removed"},
           NEW known \in BOOLEAN,
           happened' = Append(happened, [entity |-> e, what |-> what, known |-> known])
    PROVE  Extended /\ Happens(e, what, known)
<1> DEFINE event == [entity |-> e, what |-> what, known |-> known]
<1>1. event \in Events /\ happened \in Seq(Events) /\ Len(happened) \in Nat
  BY LenProperties DEF Events, TypeInv
<1>2. happened' = Append(happened, event)
  OBVIOUS
<1> HIDE DEF event
<1>3. /\ happened' \in Seq(Events)
      /\ Len(happened') = Len(happened) + 1
      /\ \A i \in 1..Len(happened) : happened'[i] = happened[i]
      /\ happened'[Len(happened) + 1] = event
  BY <1>1, <1>2, AppendProperties
<1> QED BY <1>1, <1>3 DEF Extended, Happens, event

LEMMA HappenedKept ==
    ASSUME TypeInv, happened' = happened
    PROVE  Extended
BY LenProperties DEF TypeInv, Extended

\* What a batch waits for after an evaluation of e: nothing, or its recording.
Awaits(p, e) ==
    \/ happened' = happened /\ batch'[p].pending = 0
    \/ /\ \E what \in {"critical", "recovered"} :
             Happens(e, what, e \in Containers => Known(e))
       /\ batch'[p].pending = Len(happened) + 1

LEMMA AwaitEffect ==
    ASSUME TypeInv, NEW p \in Handlers, NEW e \in Entities, NEW b \in BatchRecords,
           b.pending = 0, Await(p, e, b)
    PROVE  /\ batch'[p] \in BatchRecords /\ OthersKept(p)
           /\ batch' \in [Handlers -> BatchRecords \cup {Idle}]
           /\ SameBatch(batch'[p], b) /\ SameLists(batch'[p], b) /\ SameFound(batch'[p], b)
           /\ batch'[p].read = b.read
           /\ Extended /\ Awaits(p, e)
<1>1. CASE ~Transitioned(e)
  <2>1. batch' = [batch EXCEPT ![p] = b] /\ happened' = happened
    BY <1>1 DEF Await
  <2>2. batch'[p] = b
    BY <2>1, SetBatch
  <2> QED BY <2>1, <2>2, SetBatch, HappenedKept DEF SameBatch, SameLists, SameFound, Awaits
<1>2. CASE Transitioned(e)
  <2> DEFINE what == IF st'[e].criticalActive THEN "critical" ELSE "recovered"
             known == e \in Containers => Known(e)
             d == [b EXCEPT !.pending = Len(happened) + 1]
  <2>1. /\ happened' = Append(happened, [entity |-> e, what |-> what, known |-> known])
        /\ batch' = [batch EXCEPT ![p] = d]
    BY <1>2 DEF Await
  <2>2. what \in {"critical", "recovered"} /\ known \in BOOLEAN
    OBVIOUS
  <2>3. Len(happened) + 1 \in Nat
    BY LenProperties DEF TypeInv
  <2>4. /\ d \in BatchRecords /\ d.pending = Len(happened) + 1 /\ d.read = b.read
        /\ SameBatch(d, b) /\ SameLists(d, b) /\ SameFound(d, b)
    BY <2>3 DEF BatchRecords, SameBatch, SameLists, SameFound
  <2> HIDE DEF what, known, d
  <2>5. Extended /\ Happens(e, what, known)
    BY <2>1, <2>2, HappenedAppend
  <2>6. batch'[p] = d /\ OthersKept(p) /\ batch' \in [Handlers -> BatchRecords \cup {Idle}]
    BY <2>1, <2>4, SetBatch
  <2> QED BY <2>2, <2>4, <2>5, <2>6 DEF Awaits, known
<1> QED BY <1>1, <1>2

LEMMA HealthEffect ==
    ASSUME TypeInv, NEW p \in Handlers, NEW c \in Containers,
           NEW exited \in BOOLEAN, NEW unhealthy \in BOOLEAN,
           EvaluateHealth(p, c, exited, unhealthy)
    PROVE  /\ InProgress(p) /\ batch[p].looked /\ batch[p].pending = 0
           /\ batch'[p] \in BatchRecords /\ OthersKept(p)
           /\ batch' \in [Handlers -> BatchRecords \cup {Idle}]
           /\ SameBatch(batch'[p], batch[p]) /\ SameFound(batch'[p], batch[p])
           /\ batch'[p].read = batch[p].read
           /\ batch'[p].toWrite = batch[p].toWrite /\ batch'[p].toSample = batch[p].toSample
           /\ c \in batch[p].toCheck /\ batch'[p].toCheck = batch[p].toCheck \ {c}
           /\ Extended /\ Awaits(p, c)
<1> DEFINE b == [batch[p] EXCEPT !.toCheck = @ \ {c}]
<1>1. InProgress(p) /\ batch[p].looked /\ batch[p].pending = 0 /\ c \in batch[p].toCheck
  BY DEF EvaluateHealth, Ready
<1>2. batch[p] \in BatchRecords /\ c \in Entities
  BY <1>1, BatchType DEF Entities
<1>3. /\ b \in BatchRecords /\ SameBatch(b, batch[p]) /\ SameFound(b, batch[p])
      /\ b.read = batch[p].read /\ b.pending = batch[p].pending
      /\ b.toWrite = batch[p].toWrite /\ b.toSample = batch[p].toSample
      /\ b.toCheck = batch[p].toCheck \ {c}
  BY <1>2 DEF BatchRecords, SameBatch, SameFound
<1>4. Await(p, c, b)
  BY DEF EvaluateHealth
<1> HIDE DEF b
<1>5. /\ batch'[p] \in BatchRecords /\ OthersKept(p)
      /\ batch' \in [Handlers -> BatchRecords \cup {Idle}]
      /\ SameBatch(batch'[p], b) /\ SameLists(batch'[p], b) /\ SameFound(batch'[p], b)
      /\ batch'[p].read = b.read
      /\ Extended /\ Awaits(p, c)
  BY <1>1, <1>2, <1>3, <1>4, AwaitEffect
<1>6. SameBatch(batch'[p], batch[p]) /\ SameFound(batch'[p], batch[p])
  BY <1>3, <1>5 DEF SameBatch, SameFound
<1>7. /\ batch'[p].toWrite = batch[p].toWrite /\ batch'[p].toSample = batch[p].toSample
      /\ batch'[p].toCheck = batch[p].toCheck \ {c}
  <2>1. b.toSample = batch[p].toSample
    BY <1>2 DEF b, BatchRecords
  <2> QED BY <1>3, <1>5, <2>1 DEF SameLists
<1> QED BY <1>1, <1>3, <1>5, <1>6, <1>7

LEMMA SampleEffect ==
    ASSUME TypeInv, NEW p \in Handlers, NEW e \in Entities, NEW m \in Metrics,
           EvaluateSample(p, e, m)
    PROVE  /\ InProgress(p) /\ batch[p].looked /\ batch[p].pending = 0
           /\ batch'[p] \in BatchRecords /\ OthersKept(p)
           /\ batch' \in [Handlers -> BatchRecords \cup {Idle}]
           /\ SameBatch(batch'[p], batch[p]) /\ SameFound(batch'[p], batch[p])
           /\ batch'[p].read = batch[p].read
           /\ batch'[p].toWrite = batch[p].toWrite /\ batch'[p].toCheck = batch[p].toCheck
           /\ e \in batch[p].toSample /\ batch'[p].toSample = batch[p].toSample \ {e}
           /\ Extended /\ Awaits(p, e)
<1> DEFINE b == [batch[p] EXCEPT !.toSample = @ \ {e}, !.measured = TRUE]
<1>1. InProgress(p) /\ batch[p].looked /\ batch[p].pending = 0 /\ e \in batch[p].toSample
  BY DEF EvaluateSample, Checked, Ready
<1>2. batch[p] \in BatchRecords
  BY <1>1, BatchType
<1>3. /\ b \in BatchRecords /\ SameBatch(b, batch[p]) /\ SameFound(b, batch[p])
      /\ b.read = batch[p].read /\ b.pending = batch[p].pending
      /\ b.toWrite = batch[p].toWrite /\ b.toCheck = batch[p].toCheck
      /\ b.toSample = batch[p].toSample \ {e}
  BY <1>2 DEF BatchRecords, SameBatch, SameFound
<1>4. Await(p, e, b)
  BY DEF EvaluateSample
<1> HIDE DEF b
<1>5. /\ batch'[p] \in BatchRecords /\ OthersKept(p)
      /\ batch' \in [Handlers -> BatchRecords \cup {Idle}]
      /\ SameBatch(batch'[p], b) /\ SameLists(batch'[p], b) /\ SameFound(batch'[p], b)
      /\ batch'[p].read = b.read
      /\ Extended /\ Awaits(p, e)
  BY <1>1, <1>3, <1>4, AwaitEffect
<1>6. SameBatch(batch'[p], batch[p]) /\ SameFound(batch'[p], batch[p])
  BY <1>3, <1>5 DEF SameBatch, SameFound
<1>7. /\ batch'[p].toWrite = batch[p].toWrite /\ batch'[p].toCheck = batch[p].toCheck
      /\ batch'[p].toSample = batch[p].toSample \ {e}
  BY <1>3, <1>5 DEF SameLists
<1> QED BY <1>1, <1>3, <1>5, <1>6, <1>7

LEMMA RecordEffect ==
    ASSUME TypeInv, NEW p \in Handlers, RecordTransition(p)
    PROVE  /\ InProgress(p)
           /\ batch'[p] \in BatchRecords /\ OthersKept(p)
           /\ batch' \in [Handlers -> BatchRecords \cup {Idle}]
           /\ SameBatch(batch'[p], batch[p]) /\ SameLists(batch'[p], batch[p])
           /\ SameFound(batch'[p], batch[p])
           /\ batch'[p].read = batch[p].read
           /\ batch[p].pending # 0 /\ batch'[p].pending = 0
<1> DEFINE d == [batch[p] EXCEPT !.pending = 0]
<1>1. InProgress(p) /\ batch[p] \in BatchRecords /\ batch[p].pending # 0
  BY BatchType DEF RecordTransition
<1>2. batch' = [batch EXCEPT ![p] = d]
  BY DEF RecordTransition, TypeInv
<1>3. /\ d \in BatchRecords /\ d.pending = 0 /\ d.read = batch[p].read
      /\ SameBatch(d, batch[p]) /\ SameLists(d, batch[p]) /\ SameFound(d, batch[p])
  BY <1>1 DEF BatchRecords, SameBatch, SameLists, SameFound
<1> HIDE DEF d
<1> QED BY <1>1, <1>2, <1>3, SetBatch

LEMMA ReadEffect ==
    ASSUME TypeInv, NEW p \in Handlers, NEW e \in Entities,
           Sampled(p), batch' = [batch EXCEPT ![p].read = Reading(p, e)]
    PROVE  /\ InProgress(p)
           /\ batch'[p] \in BatchRecords /\ OthersKept(p)
           /\ batch' \in [Handlers -> BatchRecords \cup {Idle}]
           /\ SameBatch(batch'[p], batch[p]) /\ SameLists(batch'[p], batch[p])
           /\ SameFound(batch'[p], batch[p])
           /\ batch'[p].pending = 0 /\ batch[p].pending = 0
           /\ DOMAIN batch'[p].read = DOMAIN batch[p].read \cup {e}
           /\ \A x \in DOMAIN batch'[p].read :
                 batch'[p].read[x] = IF x = e THEN EffectiveMode(e) ELSE batch[p].read[x]
<1> DEFINE read == Reading(p, e)
           d == [batch[p] EXCEPT !.read = read]
<1>1. InProgress(p) /\ batch[p] \in BatchRecords /\ batch[p].pending = 0
  BY BatchType DEF Sampled, Checked, Ready
<1>2. batch' = [batch EXCEPT ![p] = d]
  BY DEF TypeInv
<1>3. PICK D \in SUBSET Entities : batch[p].read \in [D -> Modes]
  BY <1>1 DEF BatchRecords, ReadModes
<1>4. read \in [D \cup {e} -> Modes]
  BY <1>3, ModeType DEF Reading
<1>5. read \in ReadModes
  BY <1>4 DEF ReadModes
<1>6. /\ DOMAIN read = DOMAIN batch[p].read \cup {e}
      /\ \A x \in DOMAIN read :
            read[x] = IF x = e THEN EffectiveMode(e) ELSE batch[p].read[x]
  BY DEF Reading
<1> HIDE DEF read
<1>7. /\ d \in BatchRecords /\ d.pending = batch[p].pending /\ d.read = read
      /\ SameBatch(d, batch[p]) /\ SameLists(d, batch[p]) /\ SameFound(d, batch[p])
  BY <1>1, <1>5 DEF BatchRecords, SameBatch, SameLists, SameFound
<1> HIDE DEF d
<1> QED BY <1>1, <1>2, <1>6, <1>7, SetBatch

LEMMA UpsertEffect ==
    ASSUME TypeInv, NEW p \in Handlers, NEW c \in Containers, UpsertContainer(p, c)
    PROVE  /\ InProgress(p) /\ batch[p].looked
           /\ batch'[p] \in BatchRecords /\ OthersKept(p)
           /\ batch' \in [Handlers -> BatchRecords \cup {Idle}]
           /\ SameBatch(batch'[p], batch[p]) /\ SameFound(batch'[p], batch[p])
           /\ batch'[p].pending = 0 /\ batch[p].pending = 0
           /\ batch'[p].read = batch[p].read
           /\ batch[p].toCheck = {} /\ batch'[p].toCheck = {}
           /\ batch'[p].toSample = batch[p].toSample
           /\ c \in batch[p].toWrite /\ batch'[p].toWrite = batch[p].toWrite \ {c}
           /\ c \in DOMAIN batch[p].read
           /\ row' \in [Containers -> [mode : Modes, restarts : {Absent} \cup Counts]]
           /\ row'[c].mode = batch[p].read[c] /\ row'[c].restarts = batch[p].counts[c]
           /\ \A x \in Containers \ {c} : row'[x] = row[x]
           /\ batch[p].counts[c] \in Counts
<1> DEFINE d == [batch[p] EXCEPT !.toWrite = @ \ {c}]
<1>1. /\ InProgress(p) /\ batch[p] \in BatchRecords /\ batch[p].pending = 0
      /\ batch[p].looked /\ batch[p].toCheck = {}
      /\ c \in DOMAIN batch[p].read \cap (batch[p].toWrite \cup {batch[p].host})
  BY BatchType DEF UpsertContainer, Sampled, Checked, Ready, Unwritten
<1>2. c \in batch[p].toWrite /\ batch[p].counts[c] \in Counts
  BY <1>1, EngineAssumption DEF BatchRecords
<1>3. batch' = [batch EXCEPT ![p] = d]
  BY DEF UpsertContainer, TypeInv
<1>4. /\ d \in BatchRecords /\ d.pending = batch[p].pending /\ d.read = batch[p].read
      /\ SameBatch(d, batch[p]) /\ SameFound(d, batch[p])
      /\ d.toCheck = batch[p].toCheck /\ d.toSample = batch[p].toSample
      /\ d.toWrite = batch[p].toWrite \ {c}
  BY <1>1 DEF BatchRecords, SameBatch, SameFound
<1>5. batch[p].read[c] \in Modes
  BY <1>1 DEF BatchRecords, ReadModes
<1>6. /\ row' \in [Containers -> [mode : Modes, restarts : {Absent} \cup Counts]]
      /\ row'[c].mode = batch[p].read[c] /\ row'[c].restarts = batch[p].counts[c]
      /\ \A x \in Containers \ {c} : row'[x] = row[x]
  BY <1>2, <1>5 DEF UpsertContainer, TypeInv, IngestTypeOK, Counts
<1> HIDE DEF d
<1> QED BY <1>1, <1>2, <1>3, <1>4, <1>6, SetBatch

LEMMA BeginEffect ==
    ASSUME TypeInv, NEW p \in Handlers, NEW h \in Hosts, NEW b \in BatchesOf(h),
           BeginIngest(p, h, b.listed, b.sampled)
    PROVE  /\ ~InProgress(p)
           /\ batch'[p] \in BatchRecords /\ OthersKept(p)
           /\ batch' \in [Handlers -> BatchRecords \cup {Idle}]
           /\ batch'[p].host = h /\ batch'[p].mode = hostMode[h] /\ Alive(h)
           /\ ~batch'[p].looked /\ batch'[p].pending = 0
           /\ DOMAIN batch'[p].read = {}
           /\ batch'[p].toCheck = b.listed /\ batch'[p].toWrite = b.listed
           /\ batch'[p].toSample = b.sampled
           /\ b.listed \subseteq Containers /\ b.sampled \subseteq b.listed \cup {h}
           /\ \A c \in b.listed : HostOf[c] = h
<1> DEFINE d == Collected(h, b.listed, b.sampled)
<1>1. /\ b.listed \in SUBSET Containers /\ b.sampled \in SUBSET Entities
      /\ b.sampled \subseteq b.listed \cup {h} /\ \A c \in b.listed : HostOf[c] = h
  BY DEF BatchesOf
<1>2. ~InProgress(p) /\ Alive(h) /\ batch' = [batch EXCEPT ![p] = d]
  BY DEF BeginIngest, InProgress
<1>3. hostMode[h] \in Modes /\ docker \in [Containers -> Counts]
  BY <1>2 DEF TypeInv, IngestTypeOK, Alive
<1>4. [e \in {} |-> "normal"] \in ReadModes /\ DOMAIN [e \in {} |-> "normal"] = {}
  <2>1. [e \in {} |-> "normal"] \in [{} -> Modes]
    OBVIOUS
  <2> QED BY <2>1 DEF ReadModes
<1>5. [c \in Containers |-> Absent] \in [Containers -> {Absent} \cup Counts]
  OBVIOUS
<1>6. d \in BatchRecords
  BY <1>1, <1>3, <1>4, <1>5 DEF Collected, BatchRecords
<1>7. /\ d.host = h /\ d.mode = hostMode[h] /\ ~d.looked /\ d.pending = 0
      /\ DOMAIN d.read = {} /\ d.toCheck = b.listed /\ d.toWrite = b.listed
      /\ d.toSample = b.sampled
  BY <1>4 DEF Collected
<1> HIDE DEF d
<1> QED BY <1>1, <1>2, <1>6, <1>7, SetBatch

\* Answer and FailBatch leave the handler idle, with nothing to record.
LEMMA EndEffect ==
    ASSUME TypeInv, NEW p \in Handlers, Answer(p) \/ FailBatch(p)
    PROVE  /\ InProgress(p) /\ batch[p].pending = 0 /\ batch[p] \in BatchRecords
           /\ ~InProgress(p)' /\ OthersKept(p)
           /\ batch' \in [Handlers -> BatchRecords \cup {Idle}]
<1>1. InProgress(p) /\ batch[p].pending = 0
  BY DEF Answer, FailBatch, Sampled, Checked, Ready
<1>2. batch' = [batch EXCEPT ![p] = Idle]
  BY DEF Answer, FailBatch, Abandon
<1>3. batch'[p] = Idle /\ OthersKept(p) /\ batch' \in [Handlers -> BatchRecords \cup {Idle}]
  BY <1>2, SetBatch
<1> QED BY <1>1, <1>3, BatchType DEF InProgress

-----------------------------------------------------------------------------
(* Types.                                                                  *)

StoreTypes ==
    /\ hostMode \in [Hosts -> Modes \cup {"gone"}]
    /\ row \in [Containers -> [mode : Modes, restarts : {Absent} \cup Counts]]
    /\ directive \in [Hosts -> SUBSET Directives]
    /\ docker \in [Containers -> Counts]
    /\ copies \in [Hosts -> SUBSET Modes]

ListTypes ==
    /\ happened \in Seq(Events)
    /\ log \in Seq(1..Len(happened))
    /\ removing \subseteq Hosts
    /\ excused \subseteq 1..Len(happened)

BatchTypes ==
    /\ batch \in [Handlers -> BatchRecords \cup {Idle}]
    /\ \A p \in Handlers : InProgress(p) =>
          /\ batch[p].toCheck \subseteq batch[p].toWrite
          /\ batch[p].pending \in 0..Len(happened)

ObserverTypes ==
    /\ baseline \in [Containers -> {Absent} \cup Counts]
    /\ flagged \in [Containers -> {Absent} \cup Counts]
    /\ changed \subseteq Entities
    /\ reader \in [Entities -> Handlers \cup {Nobody}]

LEMMA TypeParts ==
    TypeInv <=> EngineTypeOK /\ StoreTypes /\ ListTypes /\ BatchTypes /\ ObserverTypes
<1>1. ASSUME TypeInv
      PROVE  EngineTypeOK /\ StoreTypes /\ ListTypes /\ BatchTypes /\ ObserverTypes
  BY <1>1 DEF TypeInv, IngestTypeOK, StoreTypes, ListTypes, BatchTypes, ObserverTypes, Counts
<1>2. ASSUME EngineTypeOK, StoreTypes, ListTypes, BatchTypes, ObserverTypes
      PROVE  TypeInv
  <2>1. ASSUME NEW p \in Handlers, InProgress(p)
        PROVE  batch[p].toSample \cup DOMAIN batch[p].read \subseteq Entities
    <3>1. batch[p] \in BatchRecords
      BY <1>2, <2>1 DEF BatchTypes, InProgress
    <3> QED BY <3>1 DEF BatchRecords, ReadModes
  <2> QED BY <1>2, <2>1 DEF TypeInv, IngestTypeOK, StoreTypes, ListTypes, BatchTypes,
             ObserverTypes, Counts
<1> QED BY <1>1, <1>2

LEMMA EngineTypeStep ==
    ASSUME TypeInv, [IngestNext]_vars
    PROVE  EngineTypeOK'
<1>0. EngineTypeOK
  BY DEF TypeInv, IngestTypeOK
<1> USE EngineAssumption DEF EngineTypeOK, EntityState
<1>1. ASSUME NEW e \in Entities, NEW m \in Metrics, EvaluateMetric(e, m)
      PROVE  EngineTypeOK'
  <2>1. StreakStart(e) \in Nat
    BY <1>0 DEF StreakStart
  <2>2. CASE TripOnMetric(e, m)
    BY <1>0, <2>2 DEF TripOnMetric
  <2>3. CASE StayNormal(e, m)
    BY <1>0, <2>3 DEF StayNormal, engineVars
  <2>4. CASE BreakStreak(e, m)
    BY <1>0, <2>4 DEF BreakStreak, ZeroTime
  <2>5. CASE ExtendStreak(e, m)
    BY <1>0, <2>1, <2>5 DEF ExtendStreak
  <2>6. CASE Recover(e, m)
    BY <1>0, <2>6 DEF Recover, ZeroTime
  <2> QED BY <1>1, <2>2, <2>3, <2>4, <2>5, <2>6 DEF EvaluateMetric
<1>2. ASSUME NEW c \in Containers, NEW r, EvaluateContainerHealth(c, r)
      PROVE  EngineTypeOK'
  <2>1. c \in Entities
    BY DEF Entities
  <2>2. CASE TripOnHealth(c, r)
    BY <1>0, <2>1, <2>2 DEF TripOnHealth
  <2>3. CASE IgnoreHealth(c, r)
    BY <1>0, <2>3 DEF IgnoreHealth, engineVars
  <2> QED BY <1>2, <2>2, <2>3 DEF EvaluateContainerHealth
<1>3. ASSUME NEW e \in Entities, ManualViewerOpen(e) \/ ManualViewerClose(e)
      PROVE  EngineTypeOK'
  <2>1. CASE ManualViewerOpen(e)
    BY <1>0, <2>1 DEF ManualViewerOpen
  <2>2. CASE ManualViewerClose(e)
    BY <1>0, <2>2 DEF ManualViewerClose
  <2> QED BY <1>3, <2>1, <2>2
<1>4. CASE Tick
  BY <1>0, <1>4 DEF Tick, ZeroTime
<1>5. CASE Restart
  BY <1>0, <1>5 DEF Restart, Fresh, ZeroTime
<1>6. CASE UNCHANGED <<st, now>>
  BY <1>0, <1>6
<1>7. ASSUME NEW p \in Handlers, HandlerStep(p) PROVE EngineTypeOK'
  BY <1>1, <1>2, <1>6, <1>7
     DEF HandlerStep, Lookup, EvaluateHealth, RecordTransition, EvaluateSample,
         ReadContainerMode, UpsertContainer, ReadHostMode, Answer, FailBatch
<1> QED BY <1>3, <1>4, <1>5, <1>6, <1>7
        DEF IngestNext, vars, BeginIngest, DeleteHost, RecordRemoval, OpenLive, CloseLive,
            DockerRestart, TimePasses, ServerRestart, ReadRecord, WriteRecord, EndRecord

LEMMA FastestType ==
    ASSUME NEW modes \in SUBSET Modes, modes # {}
    PROVE  /\ FastestMode(modes) \in modes
           /\ \A n \in modes : modeRank[n] <= modeRank[FastestMode(modes)]
<1>1. modeRank \in [Modes -> 0..2]
  BY DEF modeRank, Modes
<1>2. \E m \in modes : \A n \in modes : modeRank[n] <= modeRank[m]
  <2>1. CASE \E m \in modes : modeRank[m] = 2
    BY <1>1, <2>1
  <2>2. CASE (\A m \in modes : modeRank[m] # 2) /\ \E m \in modes : modeRank[m] = 1
    BY <1>1, <2>2
  <2>3. CASE \A m \in modes : modeRank[m] = 0
    BY <1>1, <2>3
  <2> QED BY <1>1, <2>1, <2>2, <2>3
<1> QED BY <1>2 DEF FastestMode

\* The answer is the fastest of the modes read, and there is one to choose.
LEMMA AnswerEffect ==
    ASSUME TypeInv, NEW p \in Handlers, Answer(p)
    PROVE  LET b == batch[p]
               modes == {b.read[e] : e \in DOMAIN b.read}
           IN  /\ b \in BatchRecords
               /\ b.host \in Hosts /\ b.host \in DOMAIN b.read
               /\ b.read[b.host] \in Modes
               /\ modes # {} /\ modes \subseteq Modes
               /\ directive' = [directive EXCEPT ![b.host] =
                                   {[mode |-> FastestMode(modes), entities |-> DOMAIN b.read, by |-> p]}]
               /\ [mode |-> FastestMode(modes), entities |-> DOMAIN b.read, by |-> p] \in Directives
<1> DEFINE b == batch[p]
           modes == {b.read[e] : e \in DOMAIN b.read}
<1>1. b \in BatchRecords /\ b.host \in DOMAIN b.read
  BY EndEffect DEF Answer, Unwritten
<1>2. PICK D \in SUBSET Entities : b.read \in [D -> Modes]
  BY <1>1 DEF BatchRecords, ReadModes
<1>3. modes # {} /\ modes \in SUBSET Modes /\ DOMAIN b.read \in SUBSET Entities
  BY <1>1, <1>2
<1>4. b.host \in Hosts /\ b.read[b.host] \in Modes
  BY <1>1, <1>2 DEF BatchRecords
<1>5. FastestMode(modes) \in Modes
  BY <1>3, FastestType
<1>6. directive' = [directive EXCEPT ![b.host] =
                      {[mode |-> FastestMode(modes), entities |-> DOMAIN b.read, by |-> p]}]
  BY DEF Answer
<1> QED BY <1>1, <1>3, <1>4, <1>5, <1>6 DEF Directives

LEMMA StoreTypeStep ==
    ASSUME TypeInv, [IngestNext]_vars
    PROVE  StoreTypes'
<1>0. StoreTypes
  BY TypeParts
<1> USE DEF StoreTypes
<1>1. ASSUME NEW p \in Handlers, NEW c \in Containers, UpsertContainer(p, c) PROVE StoreTypes'
  BY <1>0, <1>1, UpsertEffect DEF UpsertContainer
<1>2. ASSUME NEW p \in Handlers, Answer(p) PROVE StoreTypes'
  <2>1. PICK h \in Hosts, d \in Directives : directive' = [directive EXCEPT ![h] = {d}]
    BY <1>2, AnswerEffect
  <2>2. directive' \in [Hosts -> SUBSET Directives]
    BY <1>0, <2>1
  <2>3. hostMode' \in [Hosts -> Modes \cup {"gone"}]
    BY <1>0, <1>2, AnswerEffect DEF Answer
  <2> QED BY <1>0, <1>2, <2>2, <2>3 DEF Answer
<1>3. ASSUME NEW h \in Hosts, DeleteHost(h) PROVE StoreTypes'
  <2>1. NoRow \in [mode : Modes, restarts : {Absent} \cup Counts]
    BY DEF NoRow, Modes
  <2> QED BY <1>0, <1>3, <2>1 DEF DeleteHost
<1>4. ASSUME NEW p \in Handlers, NEW h \in Hosts, NEW b \in BatchesOf(h),
             BeginIngest(p, h, b.listed, b.sampled)
      PROVE  StoreTypes'
  BY <1>0, <1>4 DEF BeginIngest, storeVars
<1>5. ASSUME NEW c \in Containers, DockerRestart(c) PROVE StoreTypes'
  <2>1. docker' \in [Containers -> Counts]
    BY <1>0, <1>5, IngestAssumption DEF DockerRestart, Counts
  <2> QED BY <1>0, <1>5, <2>1 DEF DockerRestart, storeVars
<1>6. CASE UNCHANGED <<hostMode, row, directive, docker, copies>>
  BY <1>0, <1>6
<1>7. ASSUME NEW h \in Hosts, ReadRecord(h) PROVE StoreTypes'
  BY <1>0, <1>7 DEF ReadRecord, Alive, storeVars
<1>8. ASSUME NEW h \in Hosts, NEW mode \in Modes, WriteRecord(h, mode) \/ EndRecord(h, mode)
      PROVE  StoreTypes'
  <2>1. CASE WriteRecord(h, mode)
    BY <1>0, <2>1 DEF WriteRecord
  <2>2. CASE EndRecord(h, mode)
    BY <1>0, <2>2 DEF EndRecord, storeVars
  <2> QED BY <1>8, <2>1, <2>2
<1>9. CASE ServerRestart
  BY <1>0, <1>9 DEF ServerRestart, storeVars
<1>10. ASSUME NEW p \in Handlers, HandlerStep(p) PROVE StoreTypes'
  BY <1>1, <1>2, <1>6, <1>10
     DEF HandlerStep, Lookup, EvaluateHealth, RecordTransition, EvaluateSample, storeVars,
         ReadContainerMode, ReadHostMode, FailBatch
<1> HIDE DEF StoreTypes
<1>11. ASSUME \/ \E h \in Hosts : RecordRemoval(h)
              \/ \E e \in Entities : OpenLive(e) \/ CloseLive(e)
              \/ TimePasses
              \/ UNCHANGED vars
       PROVE  StoreTypes'
  BY <1>6, <1>11 DEF vars, storeVars, RecordRemoval, OpenLive, CloseLive, TimePasses
<1> QED BY <1>3, <1>4, <1>5, <1>7, <1>8, <1>9, <1>10, <1>11 DEF IngestNext

\* The deletion of a host is an event too.
LEMMA DeleteEffect ==
    ASSUME TypeInv, NEW h \in Hosts, DeleteHost(h)
    PROVE  /\ Extended /\ Happens(h, "removed", TRUE)
           /\ Alive(h) /\ hostMode'[h] = "gone"
           /\ \A g \in Hosts \ {h} : hostMode'[g] = hostMode[g]
           /\ SQL => \A c \in Containers : HostOf[c] # h => row'[c] = row[c]
           /\ \A c \in Containers : row'[c] = row[c] \/ row'[c] = NoRow
<1>1. Extended /\ Happens(h, "removed", TRUE)
  BY HappenedAppend DEF DeleteHost, Entities
<1>2. /\ Alive(h) /\ hostMode'[h] = "gone"
      /\ \A g \in Hosts \ {h} : hostMode'[g] = hostMode[g]
  BY DEF DeleteHost, TypeInv, IngestTypeOK
<1>3. \A c \in Containers :
        /\ HostOf[c] # h => row'[c] = row[c]
        /\ row'[c] = row[c] \/ row'[c] = NoRow
  BY DEF DeleteHost
<1> QED BY <1>1, <1>2, <1>3

LEMMA ExtendedStep ==
    ASSUME TypeInv, [IngestNext]_vars
    PROVE  Extended
<1>1. CASE UNCHANGED happened
  BY <1>1, HappenedKept
<1>2. ASSUME NEW p \in Handlers, HandlerStep(p) PROVE Extended
  BY <1>1, <1>2, HealthEffect, SampleEffect
     DEF HandlerStep, Lookup, RecordTransition, ReadContainerMode, UpsertContainer,
         ReadHostMode, Answer, FailBatch, observers
<1> QED BY <1>1, <1>2, DeleteEffect
        DEF IngestNext, vars, observers, BeginIngest, RecordRemoval, OpenLive, CloseLive,
            DockerRestart, TimePasses, ServerRestart, ReadRecord, WriteRecord, EndRecord

LEMMA ListTypeStep ==
    ASSUME TypeInv, [IngestNext]_vars
    PROVE  ListTypes'
<1>0. ListTypes /\ BatchTypes /\ Extended
  BY TypeParts, ExtendedStep
<1> USE DEF ListTypes
<1>1. /\ 1..Len(happened) \subseteq 1..Len(happened')
      /\ 0..Len(happened) \subseteq 0..Len(happened')
  BY <1>0 DEF Extended
<1>2. log \in Seq(1..Len(happened'))
  BY <1>0, <1>1, SeqMonotonic
<1>3. happened' \in Seq(Events)
  BY <1>0 DEF Extended
<1>4. excused \subseteq 1..Len(happened')
  BY <1>0, <1>1
<1>5. ASSUME NEW i \in 1..Len(happened), log' = Append(log, i)
      PROVE  log' \in Seq(1..Len(happened'))
  <2>1. i \in 1..Len(happened')
    BY <1>1
  <2> QED BY <1>2, <1>5, <2>1, AppendProperties
<1>6. ASSUME NEW p \in Handlers, RecordTransition(p) PROVE ListTypes'
  <2>1. batch[p].pending \in 1..Len(happened)
    BY <1>0, <1>6, RecordEffect DEF BatchTypes, Extended
  <2>2. happened' = happened /\ removing' = removing
    BY <1>6 DEF RecordTransition
  <2>3. excused' \subseteq 1..Len(happened')
    BY <1>4, <1>6, <2>1, <2>2 DEF RecordTransition
  <2>4. log' = log \/ log' = Append(log, batch[p].pending)
    BY <1>6 DEF RecordTransition
  <2>5. log' \in Seq(1..Len(happened'))
    BY <1>2, <1>5, <2>1, <2>4
  <2> QED BY <1>0, <1>3, <2>2, <2>3, <2>5
<1>7. ASSUME NEW h \in Hosts, RecordRemoval(h) PROVE ListTypes'
  <2>1. log' = log \/ \E i \in 1..Len(happened) : log' = Append(log, i)
    BY <1>7 DEF RecordRemoval
  <2>2. log' \in Seq(1..Len(happened'))
    BY <1>2, <1>5, <2>1
  <2> QED BY <1>0, <1>3, <1>4, <1>7, <2>2 DEF RecordRemoval, observers
<1>8. ASSUME NEW h \in Hosts, DeleteHost(h) PROVE ListTypes'
  BY <1>0, <1>2, <1>3, <1>4, <1>8 DEF DeleteHost
<1>9. CASE ServerRestart
  <2>1. excused' \subseteq 1..Len(happened')
    BY <1>4, <1>9 DEF ServerRestart
  <2> QED BY <1>2, <1>3, <1>9, <2>1 DEF ServerRestart, storeVars
<1>10. CASE UNCHANGED <<log, removing, excused>>
  BY <1>0, <1>2, <1>3, <1>4, <1>10
<1>11. ASSUME NEW p \in Handlers, HandlerStep(p) PROVE ListTypes'
  BY <1>6, <1>10, <1>11
     DEF HandlerStep, Lookup, EvaluateHealth, EvaluateSample, ReadContainerMode,
         UpsertContainer, ReadHostMode, Answer, FailBatch, observers, storeVars
<1> QED BY <1>7, <1>8, <1>9, <1>10, <1>11
        DEF IngestNext, vars, observers, storeVars, BeginIngest, OpenLive, CloseLive,
            DockerRestart, TimePasses, ReadRecord, WriteRecord, EndRecord

\* All about the batches if the others are kept: enough to look at p's.
LEMMA BatchTypeFrame ==
    ASSUME TypeInv, Extended, NEW p \in Handlers, OthersKept(p),
           batch' \in [Handlers -> BatchRecords \cup {Idle}],
           InProgress(p)' => /\ batch'[p].toCheck \subseteq batch'[p].toWrite
                             /\ batch'[p].pending \in 0..Len(happened')
    PROVE  BatchTypes'
<1>1. 0..Len(happened) \subseteq 0..Len(happened') /\ BatchTypes
  BY TypeParts DEF Extended
<1>2. ASSUME NEW q \in Handlers, InProgress(q)'
      PROVE  /\ batch'[q].toCheck \subseteq batch'[q].toWrite
             /\ batch'[q].pending \in 0..Len(happened')
  <2>1. CASE q = p
    BY <1>2, <2>1
  <2>2. CASE q # p
    BY <1>1, <1>2, <2>2 DEF OthersKept, InProgress, BatchTypes
  <2> QED BY <2>1, <2>2
<1> QED BY <1>2 DEF BatchTypes

LEMMA BatchTypeStep ==
    ASSUME TypeInv, [IngestNext]_vars
    PROVE  BatchTypes'
<1>0. BatchTypes /\ Extended /\ Len(happened) \in Nat
  BY TypeParts, ExtendedStep DEF Extended
<1>1. ASSUME NEW p \in Handlers, NEW h \in Hosts, NEW b \in BatchesOf(h),
             BeginIngest(p, h, b.listed, b.sampled)
      PROVE  BatchTypes'
  <2>1. /\ batch'[p].toCheck \subseteq batch'[p].toWrite
        /\ batch'[p].pending \in 0..Len(happened')
    BY <1>0, <1>1, BeginEffect DEF Extended
  <2> QED BY <1>0, <1>1, <2>1, BeginEffect, BatchTypeFrame
<1>2. ASSUME NEW p \in Handlers, NEW failed \in SUBSET Containers, Lookup(p, failed)
      PROVE  BatchTypes'
  <2>1. batch[p].toCheck \subseteq batch[p].toWrite /\ batch[p].pending \in 0..Len(happened)
    BY <1>0, <1>2 DEF Lookup, BatchTypes
  <2>2. happened' = happened
    BY <1>2 DEF Lookup, observers
  <2>3. /\ batch'[p].toCheck \subseteq batch'[p].toWrite
        /\ batch'[p].pending \in 0..Len(happened')
    BY <1>2, <2>1, <2>2, LookupEffect DEF SameLists
  <2> QED BY <1>0, <1>2, <2>3, LookupEffect, BatchTypeFrame
<1>3. ASSUME NEW p \in Handlers, NEW e \in Entities, Awaits(p, e)
      PROVE  batch'[p].pending \in 0..Len(happened')
  BY <1>0, <1>3 DEF Awaits, Happens
<1>4. ASSUME NEW p \in Handlers, NEW c \in Containers, NEW exited \in BOOLEAN,
             NEW unhealthy \in BOOLEAN, EvaluateHealth(p, c, exited, unhealthy)
      PROVE  BatchTypes'
  <2>1. batch'[p].toCheck \subseteq batch'[p].toWrite
    BY <1>0, <1>4, HealthEffect DEF BatchTypes
  <2>2. batch'[p].pending \in 0..Len(happened')
    BY <1>3, <1>4, HealthEffect DEF Entities
  <2> QED BY <1>0, <1>4, <2>1, <2>2, HealthEffect, BatchTypeFrame
<1>5. ASSUME NEW p \in Handlers, NEW e \in Entities, NEW m \in Metrics, EvaluateSample(p, e, m)
      PROVE  BatchTypes'
  <2>1. batch'[p].toCheck \subseteq batch'[p].toWrite
    BY <1>0, <1>5, SampleEffect DEF BatchTypes
  <2>2. batch'[p].pending \in 0..Len(happened')
    BY <1>3, <1>5, SampleEffect
  <2> QED BY <1>0, <1>5, <2>1, <2>2, SampleEffect, BatchTypeFrame
<1>6. ASSUME NEW p \in Handlers, RecordTransition(p) PROVE BatchTypes'
  <2>1. batch[p].toCheck \subseteq batch[p].toWrite /\ Len(happened') \in Nat
    BY <1>0, <1>6, RecordEffect DEF BatchTypes, Extended
  <2>2. /\ batch'[p].toCheck \subseteq batch'[p].toWrite
        /\ batch'[p].pending \in 0..Len(happened')
    BY <1>6, <2>1, RecordEffect DEF SameLists
  <2> QED BY <1>0, <1>6, <2>2, RecordEffect, BatchTypeFrame
<1>7. ASSUME NEW p \in Handlers, NEW e \in Entities,
             Sampled(p), batch' = [batch EXCEPT ![p].read = Reading(p, e)]
      PROVE  BatchTypes'
  <2>1. /\ InProgress(p) /\ OthersKept(p)
        /\ batch' \in [Handlers -> BatchRecords \cup {Idle}]
        /\ SameLists(batch'[p], batch[p]) /\ batch'[p].pending = 0
    BY <1>7, ReadEffect
  <2>2. batch[p].toCheck \subseteq batch[p].toWrite /\ Len(happened') \in Nat
    BY <1>0, <2>1 DEF BatchTypes, Extended
  <2>3. /\ batch'[p].toCheck \subseteq batch'[p].toWrite
        /\ batch'[p].pending \in 0..Len(happened')
    BY <2>1, <2>2 DEF SameLists
  <2> QED BY <1>0, <2>1, <2>3, BatchTypeFrame
<1>8. ASSUME NEW p \in Handlers, NEW c \in Containers, UpsertContainer(p, c)
      PROVE  BatchTypes'
  <2>1. /\ batch'[p].toCheck \subseteq batch'[p].toWrite
        /\ batch'[p].pending \in 0..Len(happened')
    BY <1>0, <1>8, UpsertEffect DEF Extended
  <2> QED BY <1>0, <1>8, <2>1, UpsertEffect, BatchTypeFrame
<1>9. ASSUME NEW p \in Handlers, Answer(p) \/ FailBatch(p) PROVE BatchTypes'
  BY <1>0, <1>9, EndEffect, BatchTypeFrame
<1>10. CASE ServerRestart
  BY <1>10 DEF ServerRestart, BatchTypes, InProgress
<1>11. CASE UNCHANGED batch
  BY <1>0, <1>11 DEF BatchTypes, Extended, InProgress
<1>12. ASSUME NEW p \in Handlers, HandlerStep(p) PROVE BatchTypes'
  <2>1. ASSUME NEW c \in Containers, ReadContainerMode(p, c) PROVE BatchTypes'
    BY <1>7, <2>1 DEF ReadContainerMode, Entities
  <2>2. ASSUME ReadHostMode(p) PROVE BatchTypes'
    <3>1. Sampled(p) /\ batch[p] \in BatchRecords
      BY <2>2, BatchType DEF ReadHostMode, Sampled, Checked, Ready
    <3>2. batch[p].host \in Entities
      BY <3>1 DEF BatchRecords, Entities
    <3> QED BY <1>7, <2>2, <3>1, <3>2 DEF ReadHostMode
  <2> QED BY <1>2, <1>4, <1>5, <1>6, <1>8, <1>9, <1>12, <2>1, <2>2 DEF HandlerStep
<1> QED BY <1>1, <1>10, <1>11, <1>12
        DEF IngestNext, vars, DeleteHost, RecordRemoval, OpenLive, CloseLive, DockerRestart,
            TimePasses, ReadRecord, WriteRecord, EndRecord

LEMMA ObserverTypeStep ==
    ASSUME TypeInv, [IngestNext]_vars
    PROVE  ObserverTypes'
<1>0. ObserverTypes
  BY TypeParts
<1> USE DEF ObserverTypes
<1>1. ASSUME NoteModes PROVE changed' \subseteq Entities
  BY <1>0, <1>1 DEF NoteModes
<1>2. ASSUME NEW p \in Handlers, NEW c \in Containers, NEW exited \in BOOLEAN,
             NEW unhealthy \in BOOLEAN, EvaluateHealth(p, c, exited, unhealthy)
      PROVE  ObserverTypes'
  <2>1. batch[p].counts[c] \in Counts
    BY <1>2, HealthEffect, BatchType DEF BatchRecords
  <2>2. flagged' \in [Containers -> {Absent} \cup Counts]
    BY <1>0, <1>2, <2>1 DEF EvaluateHealth
  <2> QED BY <1>0, <1>1, <1>2, <2>2 DEF EvaluateHealth
<1>3. ASSUME NEW p \in Handlers, NEW failed \in SUBSET Containers, Lookup(p, failed)
      PROVE  ObserverTypes'
  <2>1. batch[p].counts \in [Containers -> Counts]
    BY <1>3, BatchType DEF Lookup, BatchRecords
  <2>2. baseline' \in [Containers -> {Absent} \cup Counts]
    BY <1>0, <1>3, <2>1 DEF Lookup
  <2> QED BY <1>0, <1>3, <2>2 DEF Lookup
<1>4. ASSUME NEW p \in Handlers, FailBatch(p) PROVE ObserverTypes'
  <2>1. DOMAIN batch[p].read \subseteq Entities
    BY <1>4, EndEffect DEF BatchRecords, ReadModes
  <2> QED BY <1>0, <1>4, <2>1 DEF FailBatch, Abandon
<1>5. CASE UNCHANGED observers
  BY <1>0, <1>5 DEF observers
<1>6. ASSUME NEW p \in Handlers, HandlerStep(p) PROVE ObserverTypes'
  <2>1. ASSUME UNCHANGED <<baseline, flagged, reader>>, changed' \subseteq Entities
        PROVE  ObserverTypes'
    BY <1>0, <2>1
  <2>6. ASSUME NEW e, UNCHANGED <<baseline, flagged>>, changed' \subseteq Entities,
               reader' = [reader EXCEPT ![e] = p]
        PROVE  ObserverTypes'
    BY <1>0, <2>6
  <2>2. ASSUME NEW e \in Entities, NEW m \in Metrics, EvaluateSample(p, e, m)
        PROVE  ObserverTypes'
    BY <1>1, <2>1, <2>2 DEF EvaluateSample
  <2>3. ASSUME NEW c \in Containers, ReadContainerMode(p, c) PROVE ObserverTypes'
    BY <1>0, <2>3, <2>6 DEF ReadContainerMode
  <2>4. ASSUME ReadHostMode(p) PROVE ObserverTypes'
    BY <1>0, <2>4, <2>6 DEF ReadHostMode
  <2>5. ASSUME NEW c \in Containers, UpsertContainer(p, c) PROVE ObserverTypes'
    BY <1>0, <2>1, <2>5 DEF UpsertContainer
  <2>7. ASSUME RecordTransition(p) \/ Answer(p) PROVE ObserverTypes'
    BY <1>0, <2>1, <2>7 DEF RecordTransition, Answer
  <2> QED BY <1>2, <1>3, <1>4, <1>6, <2>2, <2>3, <2>4, <2>5, <2>7 DEF HandlerStep
<1>7. ASSUME UNCHANGED <<baseline, flagged, reader>>, changed' \subseteq Entities
      PROVE  ObserverTypes'
  BY <1>0, <1>7
<1>8. ASSUME NEW e \in Entities, OpenLive(e) \/ CloseLive(e) PROVE ObserverTypes'
  BY <1>1, <1>7, <1>8 DEF OpenLive, CloseLive
<1>9. ASSUME NEW h \in Hosts, DeleteHost(h) PROVE ObserverTypes'
  BY <1>0, <1>7, <1>9 DEF DeleteHost
<1>10. CASE ServerRestart
  BY <1>7, <1>10 DEF ServerRestart
<1>11. ASSUME NEW h \in Hosts, NEW mode \in Modes, WriteRecord(h, mode) PROVE ObserverTypes'
  BY <1>0, <1>7, <1>11 DEF WriteRecord
<1> QED BY <1>5, <1>6, <1>8, <1>9, <1>10, <1>11
        DEF IngestNext, vars, observers, BeginIngest, RecordRemoval, DockerRestart,
            TimePasses, ReadRecord, EndRecord

LEMMA TypeStep ==
    ASSUME TypeInv, [IngestNext]_vars
    PROVE  TypeInv'
<1>1. EngineTypeOK' /\ StoreTypes' /\ ListTypes' /\ BatchTypes' /\ ObserverTypes'
  BY EngineTypeStep, StoreTypeStep, ListTypeStep, BatchTypeStep, ObserverTypeStep
<1> QED BY <1>1, TypeParts, PTL

LEMMA HandlerKeepsOthers ==
    ASSUME TypeInv, NEW p \in Handlers, HandlerStep(p)
    PROVE  OthersKept(p)
<1>1. ASSUME NEW e \in Entities, Sampled(p),
             batch' = [batch EXCEPT ![p].read = Reading(p, e)]
      PROVE  OthersKept(p)
  BY <1>1, ReadEffect
<1>2. ASSUME NEW c \in Containers, ReadContainerMode(p, c) PROVE OthersKept(p)
  BY <1>1, <1>2 DEF ReadContainerMode, Entities
<1>3. ASSUME ReadHostMode(p) PROVE OthersKept(p)
  <2>1. Sampled(p) /\ batch[p] \in BatchRecords
    BY <1>3, BatchType DEF ReadHostMode, Sampled, Checked, Ready
  <2>2. batch[p].host \in Entities
    BY <2>1 DEF BatchRecords, Entities
  <2> QED BY <1>1, <1>3, <2>1, <2>2 DEF ReadHostMode
<1> QED BY <1>2, <1>3, LookupEffect, HealthEffect, SampleEffect, RecordEffect, UpsertEffect,
           EndEffect DEF HandlerStep

-----------------------------------------------------------------------------
(* What a step may do: to a batch, to the list of events, to the rows and  *)
(* the log.                                                                *)

Begins(q) ==
    \E h \in Hosts : \E b \in BatchesOf(h) : BeginIngest(q, h, b.listed, b.sampled)

\* The lookup finds the row of a container, unless it fails; the count of one
\* without a row becomes history.
LooksUp(q) ==
    /\ ~batch[q].looked
    /\ batch'[q].toWrite = batch[q].toWrite
    /\ batch'[q].toCheck = batch[q].toCheck
    /\ \A c \in Containers : batch'[q].prior[c] \in {Absent, row[c].restarts}
    /\ "lookup" \notin FailingCalls =>
          \A c \in batch[q].toCheck :
             /\ batch'[q].prior[c] = row[c].restarts
             /\ ~Known(c) => batch[q].counts[c] <= baseline'[c]

\* The containers are looked up once.
LooksUpOnce(q) ==
    \/ /\ batch[q].looked /\ batch'[q].looked
       /\ batch'[q].prior = batch[q].prior
    \/ /\ ~batch'[q].looked
       /\ batch'[q].toCheck = batch[q].toCheck
    \/ LooksUp(q)

\* A container leaves the list of those to check after its evaluation.
ChecksRestarts(q) ==
    \A c \in batch'[q].toWrite \ batch'[q].toCheck :
        \/ c \in batch[q].toWrite \ batch[q].toCheck
        \/ batch[q].counts[c] <= flagged'[c]
        \/ ~Restarted(batch[q], c)

\* What a batch has to record is what it had, or the event of this step.
TakesOn(q) ==
    \/ batch'[q].pending \in {0, batch[q].pending}
    \/ /\ batch'[q].pending = Len(happened) + 1
       /\ \E e \in batch[q].toCheck \cup batch[q].toSample :
             \E what \in {"critical", "recovered"} :
                Happens(e, what, e \in Containers => Known(e))

Continues(q) ==
    /\ InProgress(q)
    /\ SameBatch(batch'[q], batch[q])
    /\ batch'[q].toWrite \subseteq batch[q].toWrite
    /\ batch'[q].toSample \subseteq batch[q].toSample
    /\ DOMAIN batch'[q].read \subseteq DOMAIN batch[q].read \cup batch[q].toWrite \cup {batch[q].host}
    /\ ~batch'[q].looked => ~batch[q].looked
    /\ LooksUpOnce(q)
    /\ ChecksRestarts(q)
    /\ TakesOn(q)

LEMMA KeptContinues ==
    ASSUME NEW q \in Handlers, InProgress(q), batch'[q] = batch[q], TypeInv
    PROVE  Continues(q)
<1>1. batch[q] \in BatchRecords
  BY BatchType
<1>2. LooksUpOnce(q)
  BY <1>1 DEF LooksUpOnce
<1>3. ChecksRestarts(q) /\ TakesOn(q)
  BY DEF ChecksRestarts, TakesOn
<1> QED BY <1>2, <1>3 DEF Continues, SameBatch

LEMMA CountsAreNumbers ==
    /\ {Absent} \cup Counts \subseteq Int
    /\ TypeInv => baseline \in [Containers -> Int] /\ flagged \in [Containers -> Int]
BY IngestAssumption DEF TypeInv, Counts, Absent

\* Every batch in progress after a step has just begun or was in progress
\* before it.
LEMMA BatchFate ==
    ASSUME TypeInv, [IngestNext]_vars, NEW q \in Handlers, InProgress(q)'
    PROVE  Begins(q) \/ Continues(q)
<1>1. ASSUME batch'[q] = batch[q] PROVE Continues(q)
  BY <1>1, KeptContinues DEF InProgress
<1>2. ASSUME NEW p \in Handlers, NEW h \in Hosts, NEW b \in BatchesOf(h),
             BeginIngest(p, h, b.listed, b.sampled)
      PROVE  Begins(q) \/ Continues(q)
  <2>1. CASE q = p
    BY <1>2, <2>1 DEF Begins
  <2>2. CASE q # p
    <3>1. batch'[q] = batch[q]
      BY <1>2, <2>2, BeginEffect DEF OthersKept
    <3> QED BY <1>1, <3>1
  <2> QED BY <2>1, <2>2
<1>3. ASSUME NEW failed \in SUBSET Containers, Lookup(q, failed) PROVE Continues(q)
  <2>1. ~batch[q].looked /\ InProgress(q) /\ batch[q] \in BatchRecords
    BY <1>3, BatchType DEF Lookup
  <2>2. ASSUME NEW c \in batch[q].toCheck, ~Known(c)
        PROVE  batch[q].counts[c] <= baseline'[c]
    <3>1. c \in Containers /\ batch[q].counts[c] \in Int /\ baseline \in [Containers -> Int]
      BY <2>1, CountsAreNumbers DEF BatchRecords
    <3> QED BY <1>3, <2>2, <3>1 DEF Lookup
  <2>3. LooksUp(q)
    BY <1>3, <2>1, <2>2, LookupEffect DEF LooksUp, SameLists
  <2> QED BY <1>3, <2>1, <2>3, LookupEffect
          DEF Continues, SameLists, LooksUpOnce, ChecksRestarts, TakesOn
<1>4. ASSUME NEW c \in Containers, NEW exited \in BOOLEAN,
             NEW unhealthy \in BOOLEAN, EvaluateHealth(q, c, exited, unhealthy)
      PROVE  Continues(q)
  <2>1. batch[q].counts[c] \in Counts /\ c \in Containers
    BY <1>4, HealthEffect, BatchType DEF BatchRecords
  <2>2. ~Restarted(batch[q], c) \/ batch[q].counts[c] <= flagged'[c]
    BY <1>4, <2>1 DEF EvaluateHealth, TypeInv, Counts, Absent
  <2>3. ChecksRestarts(q)
    BY <1>4, <2>2, HealthEffect DEF ChecksRestarts
  <2>4. LooksUpOnce(q)
    BY <1>4, HealthEffect DEF LooksUpOnce, SameFound
  <2>5. TakesOn(q)
    BY <1>4, HealthEffect DEF TakesOn, Awaits
  <2> QED BY <1>4, <2>3, <2>4, <2>5, HealthEffect DEF Continues, SameFound
<1>5. ASSUME NEW e \in Entities, NEW m \in Metrics, EvaluateSample(q, e, m)
      PROVE  Continues(q)
  <2>1. ChecksRestarts(q) /\ LooksUpOnce(q)
    BY <1>5, SampleEffect DEF ChecksRestarts, LooksUpOnce, SameFound
  <2>2. TakesOn(q)
    BY <1>5, SampleEffect DEF TakesOn, Awaits
  <2> QED BY <1>5, <2>1, <2>2, SampleEffect DEF Continues, SameFound
<1>6. ASSUME RecordTransition(q) PROVE Continues(q)
  <2>1. batch[q] \in BatchRecords
    BY <1>6, RecordEffect, BatchType
  <2>2. ChecksRestarts(q) /\ LooksUpOnce(q) /\ TakesOn(q)
    BY <1>6, <2>1, RecordEffect
       DEF ChecksRestarts, LooksUpOnce, TakesOn, SameFound, SameLists
  <2> QED BY <1>6, <2>2, RecordEffect DEF Continues, SameFound, SameLists
<1>7. ASSUME NEW e \in Entities, Sampled(q), e \in batch[q].toWrite \cup {batch[q].host},
             batch' = [batch EXCEPT ![q].read = Reading(q, e)]
      PROVE  Continues(q)
  <2>1. /\ InProgress(q) /\ SameBatch(batch'[q], batch[q]) /\ SameLists(batch'[q], batch[q])
        /\ SameFound(batch'[q], batch[q]) /\ batch'[q].pending = 0
        /\ DOMAIN batch'[q].read = DOMAIN batch[q].read \cup {e}
    BY <1>7, ReadEffect
  <2>2. batch[q].looked
    BY <1>7 DEF Sampled, Checked, Ready
  <2>3. ChecksRestarts(q) /\ LooksUpOnce(q) /\ TakesOn(q)
    BY <2>1, <2>2 DEF ChecksRestarts, LooksUpOnce, TakesOn, SameFound, SameLists
  <2> QED BY <1>7, <2>1, <2>3 DEF Continues, SameFound, SameLists
<1>8. ASSUME NEW c \in Containers, UpsertContainer(q, c) PROVE Continues(q)
  <2>1. ChecksRestarts(q) /\ LooksUpOnce(q) /\ TakesOn(q)
    BY <1>8, UpsertEffect DEF ChecksRestarts, LooksUpOnce, TakesOn, SameFound
  <2> QED BY <1>8, <2>1, UpsertEffect DEF Continues, SameFound
<1>9. CASE ServerRestart
  BY <1>9 DEF ServerRestart, InProgress
<1>10. ASSUME NEW p \in Handlers, HandlerStep(p), p # q PROVE Continues(q)
  <2>1. OthersKept(p)
    BY <1>10, HandlerKeepsOthers
  <2> QED BY <1>1, <1>10, <2>1 DEF OthersKept
<1>11. ASSUME HandlerStep(q) PROVE Continues(q)
  <2>1. ASSUME NEW c \in Containers, ReadContainerMode(q, c) PROVE Continues(q)
    BY <1>7, <2>1 DEF ReadContainerMode, Entities
  <2>2. ASSUME ReadHostMode(q) PROVE Continues(q)
    <3>1. Sampled(q) /\ batch[q] \in BatchRecords
      BY <2>2, BatchType DEF ReadHostMode, Sampled, Checked, Ready
    <3>2. batch[q].host \in Entities
      BY <3>1 DEF BatchRecords, Entities
    <3> QED BY <1>7, <2>2, <3>1, <3>2 DEF ReadHostMode
  <2> QED BY <1>3, <1>4, <1>5, <1>6, <1>8, <1>11, <2>1, <2>2, EndEffect DEF HandlerStep
<1> QED BY <1>1, <1>2, <1>9, <1>10, <1>11
        DEF IngestNext, vars, DeleteHost, RecordRemoval, OpenLive, CloseLive, DockerRestart,
            TimePasses, ReadRecord, WriteRecord, EndRecord

\* The observers' counts only grow.
LEMMA NoticedStays ==
    ASSUME TypeInv, [IngestNext]_vars, NEW c \in Containers
    PROVE  /\ baseline[c] <= baseline'[c] /\ flagged[c] <= flagged'[c]
           /\ \A n \in Counts : Noticed(c, n) => Noticed(c, n)'
<1>0. /\ {Absent} \cup Counts \subseteq Int
      /\ baseline \in [Containers -> Int] /\ flagged \in [Containers -> Int]
  BY CountsAreNumbers
<1>1. ASSUME UNCHANGED <<baseline, flagged>>
      PROVE  baseline[c] <= baseline'[c] /\ flagged[c] <= flagged'[c]
  BY <1>0, <1>1
<1>2. ASSUME NEW p \in Handlers, NEW d \in Containers, NEW exited \in BOOLEAN,
             NEW unhealthy \in BOOLEAN, EvaluateHealth(p, d, exited, unhealthy)
      PROVE  baseline[c] <= baseline'[c] /\ flagged[c] <= flagged'[c]
  <2>1. batch[p].counts[d] \in Counts
    BY <1>2, HealthEffect, BatchType DEF BatchRecords
  <2> QED BY <1>0, <1>2, <2>1 DEF EvaluateHealth
<1>3. ASSUME NEW p \in Handlers, NEW failed \in SUBSET Containers, Lookup(p, failed)
      PROVE  baseline[c] <= baseline'[c] /\ flagged[c] <= flagged'[c]
  <2>1. batch[p].counts[c] \in Counts
    BY <1>3, BatchType DEF Lookup, BatchRecords
  <2> QED BY <1>0, <1>3, <2>1 DEF Lookup
<1>4. baseline[c] <= baseline'[c] /\ flagged[c] <= flagged'[c]
  <2>1. ASSUME NEW p \in Handlers, HandlerStep(p)
        PROVE  baseline[c] <= baseline'[c] /\ flagged[c] <= flagged'[c]
    BY <1>1, <1>2, <1>3, <2>1
       DEF HandlerStep, RecordTransition, EvaluateSample, ReadContainerMode,
           UpsertContainer, ReadHostMode, Answer, FailBatch, observers
  <2> QED BY <1>1, <2>1
          DEF IngestNext, vars, observers, BeginIngest, DeleteHost, RecordRemoval, OpenLive,
              CloseLive, DockerRestart, TimePasses, ServerRestart, ReadRecord, WriteRecord,
              EndRecord
<1>5. /\ baseline' \in [Containers -> {Absent} \cup Counts]
      /\ flagged' \in [Containers -> {Absent} \cup Counts]
  BY ObserverTypeStep DEF ObserverTypes
<1>6. baseline'[c] \in Int /\ flagged'[c] \in Int
  BY <1>0, <1>5
<1>7. \A n \in Counts : Noticed(c, n) => Noticed(c, n)'
  BY <1>0, <1>4, <1>6 DEF Noticed
<1> QED BY <1>4, <1>7

\* A host that is gone stays so.
LEMMA GoneStays ==
    ASSUME TypeInv, [IngestNext]_vars, NEW h \in Hosts, Alive(h)'
    PROVE  Alive(h)
<1>1. CASE hostMode' = hostMode
  BY <1>1 DEF Alive
<1>2. ASSUME NEW p \in Handlers, Answer(p) PROVE Alive(h)
  <2>1. CASE h = batch[p].host /\ hostMode' # hostMode
    BY <1>2, <2>1 DEF Answer
  <2>2. CASE h # batch[p].host
    BY <1>2, <2>2 DEF Answer, Alive, TypeInv, IngestTypeOK
  <2> QED BY <1>1, <2>1, <2>2
<1>3. ASSUME NEW g \in Hosts, DeleteHost(g) PROVE Alive(h)
  BY <1>3, DeleteEffect DEF Alive
<1>5. ASSUME NEW g \in Hosts, NEW mode \in Modes, WriteRecord(g, mode) PROVE Alive(h)
  BY <1>5 DEF WriteRecord, Alive
<1>4. ASSUME NEW p \in Handlers, HandlerStep(p) PROVE Alive(h)
  BY <1>1, <1>2, <1>4
     DEF HandlerStep, Lookup, EvaluateHealth, RecordTransition, EvaluateSample, storeVars,
         ReadContainerMode, UpsertContainer, ReadHostMode, FailBatch
<1> QED BY <1>1, <1>3, <1>4, <1>5
        DEF IngestNext, vars, storeVars, BeginIngest, RecordRemoval, OpenLive, CloseLive,
            DockerRestart, TimePasses, ServerRestart, ReadRecord, EndRecord

\* Rows are written by UpsertContainer, and taken away with their host.
LEMMA RowFate ==
    ASSUME TypeInv, [IngestNext]_vars, NEW c \in Containers
    PROVE  \/ row'[c] = row[c]
           \/ \E p \in Handlers : UpsertContainer(p, c)
           \/ SQL /\ ~Alive(HostOf[c])' /\ row'[c] = NoRow
<1>1. CASE UNCHANGED row
  BY <1>1
<1>2. ASSUME NEW p \in Handlers, NEW d \in Containers, UpsertContainer(p, d), d # c
      PROVE  row'[c] = row[c]
  BY <1>2, UpsertEffect
<1>3. ASSUME NEW h \in Hosts, DeleteHost(h)
      PROVE  row'[c] = row[c] \/ (SQL /\ ~Alive(HostOf[c])' /\ row'[c] = NoRow)
  BY <1>3, DeleteEffect DEF DeleteHost, Alive
<1>4. ASSUME NEW p \in Handlers, HandlerStep(p)
      PROVE  row'[c] = row[c] \/ UpsertContainer(p, c)
  BY <1>2, <1>4
     DEF HandlerStep, Lookup, EvaluateHealth, RecordTransition, EvaluateSample, storeVars,
         ReadContainerMode, ReadHostMode, Answer, FailBatch
<1> QED BY <1>1, <1>3, <1>4
        DEF IngestNext, vars, storeVars, BeginIngest, RecordRemoval, OpenLive, CloseLive,
            DockerRestart, TimePasses, ServerRestart, ReadRecord, WriteRecord, EndRecord

LEMMA KnownOrGone ==
    ASSUME TypeInv, [IngestNext]_vars, NEW c \in Containers, SQL, Known(c), Alive(HostOf[c])'
    PROVE  Known(c)'
<1>1. ASSUME NEW p \in Handlers, UpsertContainer(p, c) PROVE Known(c)'
  BY <1>1, UpsertEffect DEF Known, Counts, Absent
<1> QED BY <1>1, RowFate DEF Known

\* The log only grows at its end.
LEMMA LogGrows ==
    ASSUME TypeInv, [IngestNext]_vars
    PROVE  /\ log' = log \/ \E i \in 1..Len(happened) : log' = Append(log, i)
           /\ \A i : Logged(i) => Logged(i)'
           /\ excused \subseteq excused'
<1>0. ListTypes /\ BatchTypes
  BY TypeParts
<1>1. ASSUME NEW p \in Handlers, RecordTransition(p)
      PROVE  log' = log \/ \E i \in 1..Len(happened) : log' = Append(log, i)
  <2>1. batch[p].pending \in 1..Len(happened)
    BY <1>0, <1>1, RecordEffect, HappenedKept DEF BatchTypes
  <2> QED BY <1>1, <2>1 DEF RecordTransition
<1>2. log' = log \/ \E i \in 1..Len(happened) : log' = Append(log, i)
  <2>1. ASSUME NEW p \in Handlers, HandlerStep(p)
        PROVE  log' = log \/ \E i \in 1..Len(happened) : log' = Append(log, i)
    BY <1>1, <2>1
       DEF HandlerStep, Lookup, EvaluateHealth, EvaluateSample, ReadContainerMode,
           UpsertContainer, ReadHostMode, Answer, FailBatch, storeVars
  <2> QED BY <2>1
          DEF IngestNext, vars, storeVars, BeginIngest, DeleteHost, RecordRemoval, OpenLive,
              CloseLive, DockerRestart, TimePasses, ServerRestart, ReadRecord, WriteRecord,
              EndRecord
<1>3. log \in Seq(1..Len(happened)) /\ Len(log) \in Nat
  BY <1>0, LenProperties DEF ListTypes
<1>4. ASSUME NEW i \in 1..Len(happened), log' = Append(log, i)
      PROVE  /\ Len(log') = Len(log) + 1
             /\ \A k \in 1..Len(log) : log'[k] = log[k]
  BY <1>3, <1>4, AppendProperties
<1>5. \A i : Logged(i) => Logged(i)'
  <2>1. CASE log' = log
    BY <2>1 DEF Logged
  <2>2. CASE \E i \in 1..Len(happened) : log' = Append(log, i)
    <3>1. /\ Len(log') = Len(log) + 1
          /\ \A k \in 1..Len(log) : log'[k] = log[k]
      BY <1>4, <2>2
    <3> QED BY <1>3, <3>1 DEF Logged
  <2> QED BY <1>2, <2>1, <2>2
<1>6. excused \subseteq excused'
  <2>1. ASSUME NEW p \in Handlers, HandlerStep(p) PROVE excused \subseteq excused'
    BY <2>1
       DEF HandlerStep, Lookup, EvaluateHealth, RecordTransition, EvaluateSample,
           ReadContainerMode, UpsertContainer, ReadHostMode, Answer, FailBatch, observers
  <2> QED BY <2>1
          DEF IngestNext, vars, observers, BeginIngest, DeleteHost, RecordRemoval, OpenLive,
              CloseLive, DockerRestart, TimePasses, ServerRestart, ReadRecord, WriteRecord,
              EndRecord
<1> QED BY <1>2, <1>5, <1>6

\* The log after an entry was added.
LEMMA LogAppended ==
    ASSUME TypeInv, NEW i \in 1..Len(happened), log' = Append(log, i)
    PROVE  /\ Len(log) \in Nat /\ Len(log') = Len(log) + 1
           /\ \A k \in 1..Len(log) : log'[k] = log[k]
           /\ log'[Len(log) + 1] = i
<1>1. log \in Seq(1..Len(happened)) /\ Len(log) \in Nat
  BY TypeParts, LenProperties DEF ListTypes
<1> QED BY <1>1, AppendProperties

LEMMA AppendedIsLogged ==
    ASSUME TypeInv, NEW i \in 1..Len(happened), log' = Append(log, i)
    PROVE  Logged(i)'
<1>1. Len(log) + 1 \in 1..Len(log') /\ log'[Len(log) + 1] = i
  BY LogAppended
<1> QED BY <1>1 DEF Logged

\* Each new event is a host's deletion or an engine transition, which a batch
\* has then to record.
Transits(p, e) ==
    /\ \E what \in {"critical", "recovered"} : Happens(e, what, e \in Containers => Known(e))
    /\ InProgress(p)' /\ batch'[p].pending = Len(happened) + 1
    /\ UNCHANGED <<hostMode, row, log, removing>>

LEMMA NewEvent ==
    ASSUME TypeInv, [IngestNext]_vars
    PROVE  \/ happened' = happened
           \/ \E h \in Hosts : DeleteHost(h)
           \/ \E p \in Handlers, e \in Entities : Transits(p, e)
<1>1. ASSUME NEW p \in Handlers, NEW e \in Entities, batch'[p] \in BatchRecords,
             Awaits(p, e), UNCHANGED <<storeVars, removing>>
      PROVE  happened' = happened \/ Transits(p, e)
  <2>1. InProgress(p)'
    BY <1>1, RecordIsNotIdle DEF InProgress
  <2> QED BY <1>1, <2>1 DEF Awaits, Transits, storeVars
<1>2. ASSUME NEW p \in Handlers, HandlerStep(p)
      PROVE  happened' = happened \/ \E e \in Entities : Transits(p, e)
  <2>1. ASSUME NEW c \in Containers, NEW exited \in BOOLEAN,
               NEW unhealthy \in BOOLEAN, EvaluateHealth(p, c, exited, unhealthy)
        PROVE  happened' = happened \/ Transits(p, c)
    BY <1>1, <2>1, HealthEffect DEF EvaluateHealth, Entities
  <2>2. ASSUME NEW e \in Entities, NEW m \in Metrics, EvaluateSample(p, e, m)
        PROVE  happened' = happened \/ Transits(p, e)
    BY <1>1, <2>2, SampleEffect DEF EvaluateSample
  <2> QED BY <1>2, <2>1, <2>2
          DEF HandlerStep, Lookup, RecordTransition, ReadContainerMode, UpsertContainer,
              ReadHostMode, Answer, FailBatch, observers, Entities
<1> QED BY <1>2
        DEF IngestNext, vars, observers, BeginIngest, RecordRemoval, OpenLive, CloseLive,
            DockerRestart, TimePasses, ServerRestart, ReadRecord, WriteRecord, EndRecord

\* A transition stays to be recorded until it is, or the process stops.
LEMMA PendingFate ==
    ASSUME TypeInv, [IngestNext]_vars, NEW q \in Handlers,
           InProgress(q), batch[q].pending # 0
    PROVE  \/ InProgress(q)' /\ batch'[q].pending = batch[q].pending
           \/ RecordTransition(q)
           \/ ServerRestart
<1>1. CASE batch'[q] = batch[q]
  BY <1>1 DEF InProgress
<1>2. ASSUME NEW p \in Handlers, HandlerStep(p), p # q PROVE batch'[q] = batch[q]
  BY <1>2, HandlerKeepsOthers DEF OthersKept
<1>3. ASSUME NEW p \in Handlers, NEW h \in Hosts, NEW b \in BatchesOf(h),
             BeginIngest(p, h, b.listed, b.sampled)
      PROVE  batch'[q] = batch[q]
  BY <1>3, BeginEffect DEF OthersKept
<1>4. ASSUME NEW failed \in SUBSET Containers, Lookup(q, failed)
      PROVE  InProgress(q)' /\ batch'[q].pending = batch[q].pending
  BY <1>4, LookupEffect, RecordIsNotIdle DEF InProgress
<1>5. ASSUME HandlerStep(q)
      PROVE  \/ InProgress(q)' /\ batch'[q].pending = batch[q].pending
             \/ RecordTransition(q)
  BY <1>4, <1>5, HealthEffect, SampleEffect, UpsertEffect, EndEffect
     DEF HandlerStep, ReadContainerMode, ReadHostMode, Sampled, Checked, Ready
<1> QED BY <1>1, <1>2, <1>3, <1>5
        DEF IngestNext, vars, DeleteHost, RecordRemoval, OpenLive, CloseLive, DockerRestart,
            TimePasses, ReadRecord, WriteRecord, EndRecord

-----------------------------------------------------------------------------
(* The invariant is inductive: one lemma per part.                         *)

LEMMA OneHostStep ==
    ASSUME TypeInv, BatchOfOneHost, [IngestNext]_vars
    PROVE  BatchOfOneHost'
<1> SUFFICES ASSUME NEW p \in Handlers, InProgress(p)'
             PROVE  /\ \A e \in batch'[p].toWrite \cup batch'[p].toSample
                                                  \cup DOMAIN batch'[p].read :
                          OwnerOf(e) = batch'[p].host
                    /\ ~batch'[p].looked => batch'[p].toWrite \subseteq batch'[p].toCheck
  BY DEF BatchOfOneHost, OwnerOf
<1>1. ASSUME NEW h \in Hosts, NEW b \in BatchesOf(h), BeginIngest(p, h, b.listed, b.sampled)
      PROVE  /\ \A e \in batch'[p].toWrite \cup batch'[p].toSample
                                           \cup DOMAIN batch'[p].read :
                   OwnerOf(e) = batch'[p].host
             /\ ~batch'[p].looked => batch'[p].toWrite \subseteq batch'[p].toCheck
  <2>1. \A c \in b.listed : c \notin Hosts /\ OwnerOf(c) = h
    BY <1>1, BeginEffect, EngineAssumption DEF OwnerOf
  <2>2. OwnerOf(h) = h
    BY DEF OwnerOf
  <2> QED BY <1>1, <2>1, <2>2, BeginEffect
<1>2. CASE Continues(p)
  <2>1. /\ batch[p] \in BatchRecords /\ batch'[p].host = batch[p].host
        /\ OwnerOf(batch[p].host) = batch[p].host
    BY <1>2, BatchType DEF Continues, SameBatch, OwnerOf, BatchRecords
  <2>2. \A e \in batch[p].toWrite \cup batch[p].toSample \cup DOMAIN batch[p].read :
           OwnerOf(e) = batch[p].host
    BY <1>2 DEF Continues, BatchOfOneHost
  <2>3. ASSUME ~batch'[p].looked
        PROVE  batch'[p].toWrite \subseteq batch'[p].toCheck
    <3>1. ~batch[p].looked /\ batch'[p].toCheck = batch[p].toCheck
      BY <1>2, <2>3 DEF Continues, LooksUpOnce, LooksUp
    <3> QED BY <1>2, <3>1 DEF Continues, BatchOfOneHost
  <2> QED BY <1>2, <2>1, <2>2, <2>3 DEF Continues
<1> QED BY <1>1, <1>2, BatchFate DEF Begins

LEMMA PendingStep ==
    ASSUME TypeInv, BatchOfOneHost, PendingOfOneHost, [IngestNext]_vars
    PROVE  PendingOfOneHost'
<1> SUFFICES ASSUME NEW p \in Handlers, InProgress(p)', batch'[p].pending # 0
             PROVE  /\ happened'[batch'[p].pending].what # "removed"
                    /\ OwnerOf(happened'[batch'[p].pending].entity) = batch'[p].host
  BY DEF PendingOfOneHost, OwnerOf
<1>1. ASSUME NEW h \in Hosts, NEW b \in BatchesOf(h), BeginIngest(p, h, b.listed, b.sampled)
      PROVE  FALSE
  BY <1>1, BeginEffect
<1>2. Continues(p) /\ batch'[p].host = batch[p].host
  BY <1>1, BatchFate DEF Begins, Continues, SameBatch
<1>3. CASE batch'[p].pending = batch[p].pending
  <2>1. batch[p].pending \in 1..Len(happened)
    BY <1>2, <1>3, TypeParts, HappenedKept DEF Continues, BatchTypes, ListTypes
  <2>2. happened'[batch'[p].pending] = happened[batch[p].pending]
    BY <1>3, <2>1, ExtendedStep DEF Extended
  <2> QED BY <1>2, <1>3, <2>2 DEF Continues, PendingOfOneHost
<1>4. CASE batch'[p].pending # batch[p].pending
  <2>1. PICK e \in batch[p].toCheck \cup batch[p].toSample, what \in {"critical", "recovered"} :
            /\ batch'[p].pending = Len(happened) + 1
            /\ Happens(e, what, e \in Containers => Known(e))
    BY <1>2, <1>4 DEF Continues, TakesOn
  <2>2. batch[p].toCheck \subseteq batch[p].toWrite
    BY <1>2, TypeParts DEF Continues, BatchTypes
  <2>3. OwnerOf(e) = batch[p].host
    BY <1>2, <2>1, <2>2 DEF BatchOfOneHost, Continues
  <2> QED BY <1>2, <2>1, <2>3 DEF Happens
<1> QED BY <1>3, <1>4

LEMMA RemovedStep ==
    ASSUME TypeInv, RemovedIsGone, [IngestNext]_vars
    PROVE  RemovedIsGone'
<1> SUFFICES ASSUME NEW i \in 1..Len(happened'), happened'[i].what = "removed"
             PROVE  happened'[i].entity \in Hosts /\ hostMode'[happened'[i].entity] = "gone"
  BY DEF RemovedIsGone, Alive
<1>1. Extended
  BY ExtendedStep
<1>2. CASE i \in 1..Len(happened)
  BY <1>1, <1>2, GoneStays DEF RemovedIsGone, Extended, Alive
<1>3. CASE i \notin 1..Len(happened)
  <2>1. happened' # happened
    BY <1>3
  <2>2. ASSUME NEW e, NEW what \in {"critical", "recovered", "removed"}, NEW known,
               Happens(e, what, known)
        PROVE  i = Len(happened) + 1 /\ happened'[i].what = what /\ happened'[i].entity = e
    <3>1. i = Len(happened) + 1
      BY <1>1, <1>3, <2>2 DEF Extended, Happens
    <3> QED BY <2>2, <3>1 DEF Happens
  <2>3. ASSUME NEW p \in Handlers, NEW e \in Entities, Transits(p, e) PROVE FALSE
    BY <2>2, <2>3 DEF Transits
  <2>4. ASSUME NEW h \in Hosts, DeleteHost(h)
        PROVE  happened'[i].entity = h /\ hostMode'[h] = "gone"
    BY <2>2, <2>4, DeleteEffect
  <2> QED BY <2>1, <2>3, <2>4, NewEvent
<1> QED BY <1>2, <1>3

LEMMA KnownStep ==
    ASSUME TypeInv, KnownStays, [IngestNext]_vars
    PROVE  KnownStays'
<1> SUFFICES ASSUME SQL, NEW i \in 1..Len(happened'), happened'[i].known,
                    NEW c \in Containers, happened'[i].entity = c, Alive(HostOf[c])'
             PROVE  Known(c)'
  BY DEF KnownStays, Alive, Known
<1>1. Extended
  BY ExtendedStep
<1>2. HostOf[c] \in Hosts /\ Alive(HostOf[c])
  BY GoneStays, IngestAssumption
<1>3. CASE i \in 1..Len(happened)
  <2>1. Known(c)
    BY <1>1, <1>2, <1>3 DEF KnownStays, Extended
  <2> QED BY <2>1, KnownOrGone
<1>4. CASE i \notin 1..Len(happened)
  <2>1. happened' # happened
    BY <1>4
  <2>2. ASSUME NEW e, NEW what, NEW known \in BOOLEAN, Happens(e, what, known)
        PROVE  c = e /\ happened'[i].known = known
    <3> DEFINE event == [entity |-> e, what |-> what, known |-> known]
    <3>1. i = Len(happened) + 1
      BY <1>1, <1>4, <2>2 DEF Extended, Happens
    <3>2. happened'[i] = event
      BY <2>2, <3>1 DEF Happens
    <3>3. event.entity = e /\ event.known = known
      OBVIOUS
    <3> HIDE DEF event
    <3> QED BY <3>2, <3>3, Zenon
  <2>3. ASSUME NEW p \in Handlers, NEW e \in Entities, Transits(p, e) PROVE Known(c)
    <3> DEFINE known == e \in Containers => Known(e)
    <3>1. PICK what \in {"critical", "recovered"} : Happens(e, what, known)
      BY <2>3 DEF Transits
    <3>2. known \in BOOLEAN
      OBVIOUS
    <3> HIDE DEF known
    <3>3. c = e /\ happened'[i].known = known
      BY <2>2, <3>1, <3>2
    <3>4. known
      BY <3>3, Zenon
    <3> QED BY <3>3, <3>4 DEF known
  <2>4. ASSUME NEW h \in Hosts, DeleteHost(h) PROVE FALSE
    BY <2>2, <2>4, DeleteEffect, EngineAssumption
  <2> QED BY <2>1, <2>3, <2>4, NewEvent, KnownOrGone
<1> QED BY <1>3, <1>4

\* In SQL AppendEvent finds the rows it refers to, if they were there when the
\* transition happened and the host has not been deleted.
LEMMA RecordingSucceeds ==
    ASSUME TypeInv, PendingOfOneHost, KnownStays,
           NEW p \in Handlers, RecordTransition(p),
           happened[batch[p].pending].known,
           Alive(OwnerOf(happened[batch[p].pending].entity))
    PROVE  log' = Append(log, batch[p].pending) \/ batch[p].pending \in excused'
<1> DEFINE i == batch[p].pending
           e == happened[i].entity
<1>1. InProgress(p) /\ i \in 1..Len(happened)
  BY RecordEffect, TypeParts, HappenedKept DEF BatchTypes, ListTypes, RecordTransition
<1>2. happened[i] \in Events
  BY <1>1, TypeParts, ElementOfSeq DEF ListTypes
<1>3. e \in Entities /\ happened[i].known /\ Alive(OwnerOf(e))
  BY <1>2 DEF Events
<1>4. Alive(batch[p].host)
  BY <1>1, <1>3 DEF PendingOfOneHost
<1>5. SQL /\ e \in Containers => Known(e)
  BY <1>1, <1>3, EngineAssumption DEF KnownStays, OwnerOf
<1> QED BY <1>4, <1>5 DEF RecordTransition

LEMMA LoggedStep ==
    ASSUME TypeInv, PendingOfOneHost, RemovedIsGone, KnownStays, KnownTransitionsLogged,
           [IngestNext]_vars
    PROVE  KnownTransitionsLogged'
<1> SUFFICES ASSUME NEW i \in 1..Len(happened'), ~Pending(i)', i \notin excused',
                    happened'[i].known,
                    hostMode'[OwnerOf(happened'[i].entity)] # "gone"
             PROVE  Logged(i)'
  BY DEF KnownTransitionsLogged, Settled, OwnerOf, Alive
<1>1. Extended
  BY ExtendedStep
<1>2. CASE i \notin 1..Len(happened)
  <2>1. happened' # happened
    BY <1>2
  <2>2. i = Len(happened) + 1 \/ Len(happened') # Len(happened) + 1
    BY <1>1, <1>2 DEF Extended
  <2>3. ASSUME NEW p \in Handlers, NEW e \in Entities, Transits(p, e) PROVE FALSE
    <3>1. InProgress(p)' /\ batch'[p].pending = i
      BY <2>2, <2>3 DEF Transits, Happens
    <3> QED BY <3>1 DEF Pending
  <2>4. ASSUME NEW h \in Hosts, DeleteHost(h) PROVE FALSE
    <3>1. Happens(h, "removed", TRUE) /\ hostMode'[h] = "gone"
      BY <2>4, DeleteEffect
    <3>2. happened'[i].entity = h
      BY <2>2, <3>1 DEF Happens
    <3> QED BY <3>1, <3>2 DEF OwnerOf
  <2> QED BY <2>1, <2>3, <2>4, NewEvent
<1>3. CASE i \in 1..Len(happened)
  <2> DEFINE e == happened[i].entity
  <2>1. happened'[i] = happened[i] /\ happened[i] \in Events
    BY <1>1, <1>3, TypeParts, ElementOfSeq DEF Extended, ListTypes
  <2>2. OwnerOf(e) \in Hosts /\ happened[i].known
    BY <2>1, IngestAssumption DEF OwnerOf, Events, Entities
  <2>3. Alive(OwnerOf(e))
    BY <2>1, <2>2, GoneStays DEF Alive
  <2>4. happened[i].what # "removed"
    BY <1>3, <2>3 DEF RemovedIsGone, OwnerOf
  <2>5. CASE Settled(i)
    <3>1. Logged(i)
      BY <1>3, <2>2, <2>3, <2>5 DEF KnownTransitionsLogged, OwnerOf
    <3> QED BY <3>1, LogGrows
  <2>6. CASE ~Settled(i)
    <3>1. PICK p \in Handlers : InProgress(p) /\ batch[p].pending = i
      BY <2>4, <2>6, LogGrows DEF Settled, Pending
    <3>2. ~(InProgress(p)' /\ batch'[p].pending = i)
      BY DEF Pending
    <3>3. ASSUME ServerRestart PROVE FALSE
      <4>1. Pending(i)
        BY <3>1 DEF Pending
      <4> QED BY <1>3, <3>3, <4>1 DEF ServerRestart
    <3>4. RecordTransition(p) /\ batch[p].pending = i
      BY <1>3, <3>1, <3>2, <3>3, PendingFate
    <3>5. log' = Append(log, i)
      BY <2>2, <2>3, <3>4, RecordingSucceeds
    <3> QED BY <1>3, <3>5, AppendedIsLogged
  <2> QED BY <2>5, <2>6
<1> QED BY <1>2, <1>3

LEMMA NoticedStep ==
    ASSUME "lookup" \notin FailingCalls,
           TypeInv, BatchOfOneHost, PriorNoticed, RestartsNoticed, [IngestNext]_vars
    PROVE  PriorNoticed'
<1> DEFINE NoticedNext(c, n) == n <= baseline'[c] \/ n <= flagged'[c]
<1> SUFFICES ASSUME NEW p \in Handlers, NEW c \in Containers,
                    InProgress(p)', batch'[p].looked
             PROVE  /\ batch'[p].prior[c] # Absent => NoticedNext(c, batch'[p].prior[c])
                    /\ /\ c \in batch'[p].toWrite
                       /\ batch'[p].prior[c] = Absent \/ c \notin batch'[p].toCheck
                       => NoticedNext(c, batch'[p].counts[c])
  BY DEF PriorNoticed, Noticed
<1>1. ASSUME NEW n \in Counts, Noticed(c, n) PROVE NoticedNext(c, n)
  BY <1>1, NoticedStays DEF Noticed
<1>2. Continues(p) /\ batch'[p].counts = batch[p].counts
  BY BatchFate, BeginEffect DEF Begins, Continues, SameBatch
<1>3. batch[p] \in BatchRecords /\ batch'[p] \in BatchRecords
  BY <1>2, BatchType, BatchTypeStep DEF Continues, BatchTypes, InProgress
<1>4. /\ batch[p].counts[c] \in Counts
      /\ batch[p].prior[c] \in {Absent} \cup Counts
      /\ batch'[p].prior[c] \in {Absent} \cup Counts
  BY <1>3 DEF BatchRecords
<1> HIDE DEF NoticedNext
<1>5. CASE batch[p].looked /\ batch'[p].prior = batch[p].prior
  <2>1. batch[p].prior[c] # Absent => Noticed(c, batch[p].prior[c])
    BY <1>2, <1>5 DEF PriorNoticed, Continues
  <2>2. ASSUME c \in batch'[p].toWrite,
               batch'[p].prior[c] = Absent \/ c \notin batch'[p].toCheck
        PROVE  NoticedNext(c, batch[p].counts[c])
    <3>1. CASE batch[p].prior[c] = Absent \/ c \notin batch[p].toCheck
      <4>1. Noticed(c, batch[p].counts[c])
        BY <1>2, <1>5, <2>2, <3>1 DEF PriorNoticed, Continues
      <4> QED BY <1>1, <1>4, <4>1
    <3>2. CASE batch[p].counts[c] <= flagged'[c]
      BY <3>2 DEF NoticedNext
    <3>3. CASE batch[p].prior[c] # Absent /\ ~Restarted(batch[p], c)
      <4>1. batch[p].counts[c] <= batch[p].prior[c]
        BY <1>4, <3>3, IngestAssumption DEF Restarted, Counts
      <4>2. batch[p].counts[c] <= baseline[c] \/ batch[p].counts[c] <= flagged[c]
        BY <1>4, <2>1, <3>3, <4>1, CountsAreNumbers DEF Noticed
      <4> QED BY <1>1, <1>4, <4>2 DEF Noticed
    <3> QED BY <1>2, <1>5, <2>2, <3>1, <3>2, <3>3 DEF Continues, ChecksRestarts
  <2> QED BY <1>1, <1>2, <1>4, <1>5, <2>1, <2>2
<1>6. CASE LooksUp(p)
  <2>1. c \in batch[p].toWrite => c \in batch[p].toCheck
    BY <1>2, <1>6 DEF BatchOfOneHost, Continues, LooksUp
  <2>2. batch'[p].prior[c] # Absent => Noticed(c, batch'[p].prior[c])
    BY <1>6 DEF LooksUp, RestartsNoticed, Known, Noticed
  <2>3. ASSUME c \in batch'[p].toWrite,
               batch'[p].prior[c] = Absent \/ c \notin batch'[p].toCheck
        PROVE  NoticedNext(c, batch[p].counts[c])
    BY <1>6, <2>1, <2>3 DEF LooksUp, NoticedNext, Known
  <2> QED BY <1>1, <1>2, <1>4, <2>2, <2>3
<1> QED BY <1>2, <1>5, <1>6 DEF Continues, LooksUpOnce

LEMMA RestartsStep ==
    ASSUME TypeInv, PriorNoticed, RestartsNoticed, [IngestNext]_vars
    PROVE  RestartsNoticed'
<1> SUFFICES ASSUME NEW c \in Containers, Known(c)'
             PROVE  Noticed(c, row[c].restarts)'
  BY DEF RestartsNoticed, Noticed
<1>1. row[c].restarts \in {Absent} \cup Counts
  BY TypeParts DEF StoreTypes
<1>2. CASE row'[c] = row[c]
  <2>1. Noticed(c, row[c].restarts) /\ row[c].restarts \in Counts
    BY <1>1, <1>2 DEF RestartsNoticed, Noticed, Known
  <2>2. row[c].restarts <= baseline'[c] \/ row[c].restarts <= flagged'[c]
    BY <2>1, NoticedStays DEF Noticed
  <2> QED BY <1>2, <2>2 DEF Noticed
<1>3. ASSUME NEW p \in Handlers, UpsertContainer(p, c)
      PROVE  Noticed(c, row[c].restarts)'
  <2> DEFINE n == batch[p].counts[c]
  <2>1. row'[c].restarts = n /\ n \in Counts
    BY <1>3, UpsertEffect
  <2>2. Noticed(c, n)
    BY <1>3, UpsertEffect DEF PriorNoticed
  <2>3. n <= baseline'[c] \/ n <= flagged'[c]
    BY <2>1, <2>2, NoticedStays DEF Noticed
  <2> QED BY <2>1, <2>3 DEF Noticed
<1>4. CASE row'[c] = NoRow
  BY <1>4 DEF NoRow, Known
<1> QED BY <1>2, <1>3, <1>4, RowFate

LEMMA IngestInitially == IngestInit => IngestInv
<1> SUFFICES ASSUME IngestInit PROVE IngestInv
  OBVIOUS
<1>1. EngineTypeOK
  BY EngineAssumption
     DEF IngestInit, EngineInit, EngineTypeOK, EntityState, Fresh, ZeroTime
<1>2. \A p \in Handlers : ~InProgress(p)
  BY DEF IngestInit, InProgress
<1>3. happened = <<>> /\ log = <<>> /\ Len(happened) = 0 /\ Len(log) = 0
  BY EmptySeq DEF IngestInit
<1>4. StoreTypes
  <2>1. NoRow \in [mode : Modes, restarts : {Absent} \cup Counts]
    BY DEF NoRow, Modes
  <2>2. 0 \in Counts
    BY IngestAssumption DEF Counts
  <2> QED BY <2>1, <2>2 DEF IngestInit, StoreTypes, Modes
<1>5. ListTypes
  BY <1>3, EmptySeq DEF IngestInit, ListTypes
<1>6. BatchTypes
  BY <1>2 DEF IngestInit, BatchTypes
<1>7. ObserverTypes
  BY DEF IngestInit, ObserverTypes
<1>8. TypeInv
  BY <1>1, <1>4, <1>5, <1>6, <1>7, TypeParts
<1> QED BY <1>2, <1>3, <1>8
        DEF IngestInv, BatchOfOneHost, PendingOfOneHost, RemovedIsGone, KnownStays,
            KnownTransitionsLogged

LEMMA IngestStep == IngestInv /\ [IngestNext]_vars => IngestInv'
BY TypeStep, OneHostStep, PendingStep, RemovedStep, KnownStep, LoggedStep DEF IngestInv

\* The inductive invariant: types, batches and events of one host, rows and
\* hosts that do not come back.
THEOREM IngestInvariant == IngestSpec => []IngestInv
<1>1. IngestInit => IngestInv
  BY IngestInitially
<1>2. IngestInv /\ [IngestNext]_vars => IngestInv'
  BY IngestStep
<1> QED BY <1>1, <1>2, PTL DEF IngestSpec

\* Every variable of ingestion keeps its type: a batch checks what it writes,
\* and the positions recorded, lost or awaiting are events that happened.
THEOREM IngestTypeCorrect == IngestSpec => []IngestTypeOK
<1>1. IngestInv => IngestTypeOK
  BY DEF IngestInv, TypeInv
<1> QED BY <1>1, IngestInvariant, PTL

\* However batches, deletions, failures and restarts interleave, a transition
\* that happens while its rows are in the store reaches the event log, unless
\* AppendEvent fails, the process stops first or the host is deleted.
THEOREM TransitionsReachTheLog == IngestSpec => []KnownTransitionsLogged
<1>1. IngestInv => KnownTransitionsLogged
  BY DEF IngestInv
<1> QED BY <1>1, IngestInvariant, PTL

\* As long as no lookup of a container fails, no restart count gets into a row
\* unnoticed, though overlapping batches write their counts in any order.
THEOREM NoRestartMissed ==
    ASSUME "lookup" \notin FailingCalls
    PROVE  IngestSpec => []RestartsNoticed
<1>1. IngestInit => CountInv
  BY DEF IngestInit, CountInv, PriorNoticed, RestartsNoticed, InProgress, Known, NoRow
<1>2. IngestInv /\ CountInv /\ [IngestNext]_vars => CountInv'
  BY NoticedStep, RestartsStep DEF IngestInv, CountInv
<1>3. CountInv => RestartsNoticed
  BY DEF CountInv
<1> QED BY <1>1, <1>2, <1>3, IngestInvariant, PTL DEF IngestSpec

-----------------------------------------------------------------------------
(* Modes read, stored and answered, however batches and the other writers  *)
(* of a host's row overlap.                                                *)

\* Handler p reads the mode of e.
Reads(p, e) ==
    /\ Sampled(p)
    /\ e \in batch[p].toWrite \cup {batch[p].host}
    /\ e = batch[p].host => batch[p].toWrite = {}
    /\ batch' = [batch EXCEPT ![p].read = Reading(p, e)]
    /\ changed' = changed \ {e}
    /\ reader' = [reader EXCEPT ![e] = p]
    /\ UNCHANGED <<st, hostMode, row, directive>>

LEMMA ReadsOfHandler ==
    ASSUME TypeInv, NEW p \in Handlers
    PROVE  /\ \A c \in Containers : ReadContainerMode(p, c) => Reads(p, c)
           /\ ReadHostMode(p) => Reads(p, batch[p].host)
           /\ \A e : Reads(p, e) => e \in Entities
<1>1. ASSUME Sampled(p) PROVE batch[p] \in BatchRecords
  BY <1>1, BatchType DEF Sampled, Checked, Ready
<1>2. ASSUME NEW c \in Containers, ReadContainerMode(p, c) PROVE Reads(p, c)
  <2>1. Sampled(p) /\ batch[p].host \in Hosts
    BY <1>1, <1>2 DEF ReadContainerMode, BatchRecords
  <2>2. c # batch[p].host
    BY <2>1, EngineAssumption
  <2> QED BY <1>2, <2>2 DEF ReadContainerMode, Reads, storeVars
<1>3. ReadHostMode(p) => Reads(p, batch[p].host)
  BY DEF ReadHostMode, Reads, storeVars
<1>4. ASSUME NEW e, Reads(p, e) PROVE e \in Entities
  <2>1. Sampled(p) /\ e \in batch[p].toWrite \cup {batch[p].host}
    BY <1>4 DEF Reads
  <2>2. batch[p] \in BatchRecords
    BY <1>1, <2>1
  <2> QED BY <2>1, <2>2 DEF BatchRecords, Entities
<1> QED BY <1>2, <1>3, <1>4

\* A mode that the engine changes is noted; only a read takes the note away,
\* and makes its handler the last reader.
LEMMA ChangedFate ==
    ASSUME TypeInv, [IngestNext]_vars, NEW e \in Entities
    PROVE  /\ e \in changed' \/ EffectiveMode(e)' = EffectiveMode(e)
           /\ \/ reader'[e] = reader[e] /\ (e \in changed => e \in changed')
              \/ \E p \in Handlers : Reads(p, e) /\ reader'[e] = p
<1> DEFINE Fate == /\ e \in changed' \/ EffectiveMode(e)' = EffectiveMode(e)
                   /\ \/ reader'[e] = reader[e] /\ (e \in changed => e \in changed')
                      \/ \E p \in Handlers : Reads(p, e) /\ reader'[e] = p
<1>1. ASSUME NoteModes, reader' = reader PROVE Fate
  BY <1>1 DEF NoteModes
<1>2. ASSUME st' = st, changed \subseteq changed', reader' = reader PROVE Fate
  BY <1>2 DEF EffectiveMode
<1>3. ASSUME NEW p \in Handlers, NEW x, Reads(p, x) PROVE Fate
  <2>1. EffectiveMode(e)' = EffectiveMode(e)
    BY <1>3 DEF Reads, EffectiveMode
  <2>2. CASE x = e
    BY <1>3, <2>1, <2>2 DEF Reads, TypeInv, IngestTypeOK
  <2>3. CASE x # e
    BY <1>3, <2>1, <2>3 DEF Reads, TypeInv, IngestTypeOK
  <2> QED BY <2>2, <2>3
<1>4. ASSUME ServerRestart PROVE Fate
  BY <1>4 DEF ServerRestart
<1> HIDE DEF Fate
<1>5. ASSUME NEW p \in Handlers, HandlerStep(p) PROVE Fate
  BY <1>1, <1>2, <1>3, <1>5, ReadsOfHandler
     DEF HandlerStep, Lookup, EvaluateHealth, RecordTransition, EvaluateSample,
         UpsertContainer, Answer, FailBatch, Abandon, observers
<1>6. ASSUME UNCHANGED <<st, changed, reader>> PROVE Fate
  BY <1>2, <1>6
<1>7. ASSUME NEW x \in Entities, OpenLive(x) \/ CloseLive(x) PROVE Fate
  BY <1>1, <1>7 DEF OpenLive, CloseLive
<1>8. Fate
  BY <1>4, <1>5, <1>6, <1>7
     DEF IngestNext, vars, observers, BeginIngest, DeleteHost, RecordRemoval, DockerRestart,
         TimePasses, Tick, ReadRecord, WriteRecord, EndRecord
<1> QED BY <1>8 DEF Fate

\* What the batches in progress have read after a step.
LEMMA ReadFate ==
    ASSUME TypeInv, [IngestNext]_vars, NEW q \in Handlers, InProgress(q)'
    PROVE  \/ DOMAIN batch'[q].read = {}
           \/ InProgress(q) /\ batch'[q].read = batch[q].read
           \/ \E e \in Entities : Reads(q, e)
<1> DEFINE Fate == \/ DOMAIN batch'[q].read = {}
                   \/ InProgress(q) /\ batch'[q].read = batch[q].read
                   \/ \E e \in Entities : Reads(q, e)
<1>1. CASE batch'[q] = batch[q]
  BY <1>1 DEF InProgress
<1>2. ASSUME NEW p \in Handlers, NEW h \in Hosts, NEW b \in BatchesOf(h),
             BeginIngest(p, h, b.listed, b.sampled)
      PROVE  Fate
  <2>1. CASE q = p
    BY <1>2, <2>1, BeginEffect
  <2>2. CASE q # p
    BY <1>1, <1>2, <2>2, BeginEffect DEF OthersKept, InProgress
  <2> QED BY <2>1, <2>2
<1>3. ASSUME NEW p \in Handlers, HandlerStep(p), p # q PROVE Fate
  BY <1>1, <1>3, HandlerKeepsOthers DEF OthersKept, InProgress
<1>4. ASSUME NEW failed \in SUBSET Containers, Lookup(q, failed) PROVE Fate
  BY <1>4, LookupEffect DEF Lookup
<1>5. ASSUME Answer(q) \/ FailBatch(q) PROVE FALSE
  BY <1>5, EndEffect
<1> HIDE DEF Fate
<1>6. ASSUME NEW e \in Entities, Reads(q, e) PROVE Fate
  BY <1>6 DEF Fate
<1>7. ASSUME InProgress(q), batch'[q].read = batch[q].read PROVE Fate
  BY <1>7 DEF Fate
<1>8. ASSUME HandlerStep(q) PROVE Fate
  BY <1>4, <1>5, <1>6, <1>7, <1>8, HealthEffect, SampleEffect, RecordEffect, UpsertEffect,
     ReadsOfHandler DEF HandlerStep
<1>9. ASSUME ServerRestart PROVE Fate
  BY <1>9 DEF ServerRestart, InProgress
<1>10. ASSUME batch' = batch PROVE Fate
  BY <1>1, <1>10 DEF Fate
<1>11. Fate
  BY <1>2, <1>3, <1>8, <1>9, <1>10
     DEF IngestNext, vars, DeleteHost, RecordRemoval, OpenLive, CloseLive, DockerRestart,
         TimePasses, ReadRecord, WriteRecord, EndRecord
<1> QED BY <1>11 DEF Fate

LEMMA ReadsEffect ==
    ASSUME TypeInv, NEW p \in Handlers, NEW e \in Entities, Reads(p, e)
    PROVE  /\ InProgress(p) /\ InProgress(p)'
           /\ batch'[p].host = batch[p].host
           /\ batch'[p].toWrite = batch[p].toWrite
           /\ DOMAIN batch'[p].read = DOMAIN batch[p].read \cup {e}
           /\ \A x \in DOMAIN batch'[p].read :
                 batch'[p].read[x] = IF x = e THEN EffectiveMode(e) ELSE batch[p].read[x]
           /\ \A x : EffectiveMode(x)' = EffectiveMode(x)
<1>1. Sampled(p) /\ batch' = [batch EXCEPT ![p].read = Reading(p, e)]
  BY DEF Reads
<1>2. /\ InProgress(p) /\ batch'[p] \in BatchRecords
      /\ SameBatch(batch'[p], batch[p]) /\ SameLists(batch'[p], batch[p])
      /\ DOMAIN batch'[p].read = DOMAIN batch[p].read \cup {e}
      /\ \A x \in DOMAIN batch'[p].read :
            batch'[p].read[x] = IF x = e THEN EffectiveMode(e) ELSE batch[p].read[x]
  BY <1>1, ReadEffect
<1>3. InProgress(p)'
  BY <1>2, RecordIsNotIdle DEF InProgress
<1>4. \A x : EffectiveMode(x)' = EffectiveMode(x)
  BY DEF Reads, EffectiveMode
<1> QED BY <1>2, <1>3, <1>4 DEF SameBatch, SameLists

\* Only a batch of its own host reads an entity.
LEMMA ReadsOwn ==
    ASSUME TypeInv, BatchOfOneHost, NEW p \in Handlers, NEW e \in Entities, Reads(p, e)
    PROVE  InProgress(p) /\ OwnerOf(e) = batch[p].host
<1>1. InProgress(p) /\ batch[p] \in BatchRecords
  BY ReadsEffect, BatchType
<1>2. CASE e \in batch[p].toWrite
  BY <1>1, <1>2 DEF BatchOfOneHost
<1>3. CASE e = batch[p].host
  BY <1>1, <1>3 DEF BatchRecords, OwnerOf
<1> QED BY <1>1, <1>2, <1>3 DEF Reads

LEMMA ReadCurrentStep ==
    ASSUME IngestInv, ReadIsCurrent, [IngestNext]_vars
    PROVE  ReadIsCurrent'
<1> SUFFICES ASSUME NEW p \in Handlers, InProgress(p)',
                    NEW e \in DOMAIN batch'[p].read, e \notin changed', reader'[e] = p
             PROVE  batch'[p].read[e] = EffectiveMode(e)'
  BY DEF ReadIsCurrent, EffectiveMode
<1>1. TypeInv
  BY DEF IngestInv
<1>2. CASE InProgress(p) /\ batch'[p].read = batch[p].read
  <2>1. e \in Entities
    BY <1>1, <1>2, BatchType DEF BatchRecords, ReadModes
  <2>2. CASE reader'[e] = reader[e] /\ (e \in changed => e \in changed')
    BY <1>1, <1>2, <2>1, <2>2, ChangedFate DEF ReadIsCurrent
  <2>3. ASSUME Reads(p, e) PROVE batch'[p].read[e] = EffectiveMode(e)'
    BY <1>1, <2>1, <2>3, ReadsEffect
  <2> QED BY <1>1, <2>1, <2>2, <2>3, ChangedFate
<1>3. ASSUME NEW x \in Entities, Reads(p, x) PROVE batch'[p].read[e] = EffectiveMode(e)'
  <2>1. CASE e = x
    BY <1>1, <1>3, <2>1, ReadsEffect
  <2>2. CASE e # x
    <3>1. InProgress(p) /\ e \in DOMAIN batch[p].read /\ batch'[p].read[e] = batch[p].read[e]
      BY <1>1, <1>3, <2>2, ReadsEffect
    <3>2. e \in Entities
      BY <1>1, <3>1, BatchType DEF BatchRecords, ReadModes
    <3>3. e \notin changed /\ reader[e] = p
      BY <1>1, <1>3, <2>2, <3>2 DEF Reads, TypeInv, IngestTypeOK
    <3> QED BY <1>1, <1>3, <3>1, <3>3, ReadsEffect DEF ReadIsCurrent
  <2> QED BY <2>1, <2>2
<1> QED BY <1>1, <1>2, <1>3, ReadFate

LEMMA ReadLastStep ==
    ASSUME IngestInv, HostReadLast, [IngestNext]_vars
    PROVE  HostReadLast'
<1> SUFFICES ASSUME NEW p \in Handlers, InProgress(p)', batch'[p].host \in DOMAIN batch'[p].read
             PROVE  batch'[p].toWrite = {}
  BY DEF HostReadLast
<1>1. TypeInv
  BY DEF IngestInv
<1>2. Continues(p) /\ batch'[p].host = batch[p].host /\ InProgress(p)
  BY <1>1, BatchFate, BeginEffect DEF Begins, Continues, SameBatch
<1>3. CASE batch'[p].read = batch[p].read
  BY <1>2, <1>3 DEF HostReadLast, Continues
<1>4. ASSUME NEW e \in Entities, Reads(p, e) PROVE batch'[p].toWrite = {}
  <2>1. CASE e = batch[p].host
    BY <1>1, <1>4, <2>1, ReadsEffect DEF Reads
  <2>2. CASE e # batch[p].host
    BY <1>1, <1>2, <1>4, <2>2, ReadsEffect DEF HostReadLast
  <2> QED BY <2>1, <2>2
<1> QED BY <1>1, <1>3, <1>4, ReadFate

\* A host's mode is written by the answer to a batch, or with a copy of the
\* row, and lost with it.
LEMMA HostModeFate ==
    ASSUME TypeInv, [IngestNext]_vars, NEW h \in Hosts
    PROVE  \/ hostMode'[h] = hostMode[h]
           \/ \E p \in Handlers : Answer(p) /\ batch[p].host = h
           \/ \E mode \in Modes : WriteRecord(h, mode)
           \/ hostMode'[h] = "gone"
<1>1. ASSUME NEW p \in Handlers, Answer(p), batch[p].host # h
      PROVE  hostMode'[h] = hostMode[h]
  BY <1>1 DEF Answer, TypeInv, IngestTypeOK
<1>2. ASSUME NEW g \in Hosts, DeleteHost(g)
      PROVE  hostMode'[h] = hostMode[h] \/ hostMode'[h] = "gone"
  BY <1>2, DeleteEffect
<1>3. ASSUME NEW p \in Handlers, HandlerStep(p)
      PROVE  hostMode'[h] = hostMode[h] \/ (Answer(p) /\ batch[p].host = h)
  BY <1>1, <1>3
     DEF HandlerStep, Lookup, EvaluateHealth, RecordTransition, EvaluateSample, storeVars,
         ReadContainerMode, UpsertContainer, ReadHostMode, FailBatch
<1>4. ASSUME NEW g \in Hosts, NEW mode \in Modes, WriteRecord(g, mode), g # h
      PROVE  hostMode'[h] = hostMode[h]
  BY <1>4 DEF WriteRecord, TypeInv, IngestTypeOK
<1> QED BY <1>2, <1>3, <1>4
        DEF IngestNext, vars, storeVars, BeginIngest, RecordRemoval, OpenLive, CloseLive,
            DockerRestart, TimePasses, ServerRestart, ReadRecord, EndRecord

\* The note that a row was left with an older mode goes only with the write of
\* the last reader.
LEMMA OutdatedFate ==
    ASSUME TypeInv, [IngestNext]_vars, NEW e \in Entities, e \in outdated
    PROVE  \/ e \in outdated'
           \/ \E p \in Handlers : Answer(p) /\ batch[p].host = e /\ reader[e] = p
           \/ e \in Containers /\ \E p \in Handlers : UpsertContainer(p, e)
<1>1. ASSUME NEW p \in Handlers, Answer(p)
      PROVE  e \in outdated' \/ (batch[p].host = e /\ reader[e] = p)
  BY <1>1 DEF Answer, Stored
<1>2. ASSUME NEW p \in Handlers, NEW c \in Containers, UpsertContainer(p, c), c # e
      PROVE  e \in outdated'
  BY <1>2 DEF UpsertContainer, Stored
<1>3. ASSUME NEW p \in Handlers, HandlerStep(p)
      PROVE  \/ outdated' = outdated \/ Answer(p)
             \/ \E c \in Containers : UpsertContainer(p, c)
  BY <1>3
     DEF HandlerStep, Lookup, EvaluateHealth, RecordTransition, EvaluateSample, observers,
         ReadContainerMode, ReadHostMode, FailBatch
<1>4. ASSUME NEW h \in Hosts, NEW mode \in Modes, WriteRecord(h, mode)
      PROVE  e \in outdated'
  BY <1>4 DEF WriteRecord
<1> QED BY <1>1, <1>2, <1>3, <1>4
        DEF IngestNext, vars, observers, BeginIngest, DeleteHost, RecordRemoval, OpenLive,
            CloseLive, DockerRestart, TimePasses, ServerRestart, ReadRecord, EndRecord

\* A mode that was read stays to be written until it is, or the batch ends.
LEMMA UnwrittenFate ==
    ASSUME TypeInv, [IngestNext]_vars, NEW q \in Handlers, InProgress(q),
           NEW e \in Unwritten(q)
    PROVE  \/ InProgress(q)' /\ e \in Unwritten(q)'
           \/ Answer(q) \/ FailBatch(q) \/ ServerRestart
           \/ e \in Containers /\ UpsertContainer(q, e)
<1> DEFINE Kept == InProgress(q)' /\ e \in Unwritten(q)'
<1>0. e \in DOMAIN batch[q].read /\ e \in batch[q].toWrite \cup {batch[q].host}
  BY DEF Unwritten
<1>1. ASSUME batch'[q] = batch[q] PROVE Kept
  BY <1>0, <1>1 DEF InProgress, Unwritten
<1>2. ASSUME batch'[q] \in BatchRecords, batch'[q].host = batch[q].host,
             e \in DOMAIN batch'[q].read, e \in batch'[q].toWrite \cup {batch[q].host}
      PROVE  Kept
  BY <1>2, RecordIsNotIdle DEF InProgress, Unwritten
<1> HIDE DEF Kept
<1>3. ASSUME NEW p \in Handlers, HandlerStep(p), p # q PROVE Kept
  BY <1>1, <1>3, HandlerKeepsOthers DEF OthersKept
<1>4. ASSUME NEW p \in Handlers, NEW h \in Hosts, NEW b \in BatchesOf(h),
             BeginIngest(p, h, b.listed, b.sampled)
      PROVE  Kept
  BY <1>1, <1>4, BeginEffect DEF OthersKept
<1>5. ASSUME NEW failed \in SUBSET Containers, Lookup(q, failed) PROVE Kept
  BY <1>0, <1>2, <1>5, LookupEffect DEF SameBatch, SameLists
<1>6. ASSUME NEW c \in Containers, NEW exited \in BOOLEAN,
             NEW unhealthy \in BOOLEAN, EvaluateHealth(q, c, exited, unhealthy)
      PROVE  Kept
  BY <1>0, <1>2, <1>6, HealthEffect DEF SameBatch
<1>7. ASSUME NEW x \in Entities, NEW m \in Metrics, EvaluateSample(q, x, m) PROVE Kept
  BY <1>0, <1>2, <1>7, SampleEffect DEF SameBatch
<1>8. ASSUME RecordTransition(q) PROVE Kept
  BY <1>0, <1>2, <1>8, RecordEffect DEF SameBatch, SameLists
<1>9. ASSUME NEW c \in Containers, UpsertContainer(q, c)
      PROVE  Kept \/ (e \in Containers /\ UpsertContainer(q, e))
  BY <1>0, <1>2, <1>9, UpsertEffect DEF SameBatch
<1>10. ASSUME NEW x \in Entities, Reads(q, x) PROVE Kept
  <2>1. /\ InProgress(q)' /\ batch'[q].host = batch[q].host
        /\ batch'[q].toWrite = batch[q].toWrite
        /\ DOMAIN batch'[q].read = DOMAIN batch[q].read \cup {x}
    BY <1>10, ReadsEffect
  <2> QED BY <1>0, <2>1 DEF Kept, Unwritten
<1>11. ASSUME HandlerStep(q)
       PROVE  Kept \/ Answer(q) \/ FailBatch(q) \/ (e \in Containers /\ UpsertContainer(q, e))
  BY <1>5, <1>6, <1>7, <1>8, <1>9, <1>10, <1>11, ReadsOfHandler DEF HandlerStep
<1>12. ASSUME batch' = batch PROVE Kept
  BY <1>1, <1>12
<1>13. \/ Kept
       \/ Answer(q) \/ FailBatch(q) \/ ServerRestart
       \/ e \in Containers /\ UpsertContainer(q, e)
  BY <1>3, <1>4, <1>11, <1>12
     DEF IngestNext, vars, DeleteHost, RecordRemoval, OpenLive, CloseLive, DockerRestart,
         TimePasses, ReadRecord, WriteRecord, EndRecord
<1> QED BY <1>13 DEF Kept

StoredMode(e) == IF e \in Hosts THEN hostMode[e] ELSE row[e].mode

LEMMA CoherentStep ==
    ASSUME IngestInv, ReadIsCurrent, HostReadLast, StoredModeCoherent, [IngestNext]_vars
    PROVE  StoredModeCoherent'
<1> SUFFICES ASSUME NEW e \in Entities, Present(e)', StoredMode(e)' # EffectiveMode(e)',
                    e \notin changed', e \notin outdated',
                    \A p \in Handlers : ~(reader'[e] = p /\ Writing(p, e)')
             PROVE  FALSE
  BY DEF StoredModeCoherent, StoredMode, Writing, Present, EffectiveMode, Known, Alive,
         InProgress, Unwritten
<1>1. TypeInv
  BY DEF IngestInv
<1>2. EffectiveMode(e)' = EffectiveMode(e)
  BY <1>1, ChangedFate
<1>3. e \notin changed /\ reader'[e] = reader[e]
  <2>1. ASSUME NEW p \in Handlers, Reads(p, e), reader'[e] = p PROVE FALSE
    <3>1. /\ InProgress(p)' /\ e \in DOMAIN batch'[p].read
          /\ e \in batch'[p].toWrite \cup {batch'[p].host}
      <4>1. e \in batch[p].toWrite \cup {batch[p].host}
        BY <2>1 DEF Reads
      <4> QED BY <1>1, <2>1, <4>1, ReadsEffect
    <3> QED BY <2>1, <3>1 DEF Writing, Unwritten
  <2> QED BY <1>1, <2>1, ChangedFate
<1>4. ASSUME NEW p \in Handlers, InProgress(p), e \in DOMAIN batch[p].read, reader[e] = p
      PROVE  batch[p].read[e] = EffectiveMode(e)
  BY <1>3, <1>4 DEF ReadIsCurrent
<1>5. ASSUME NEW p \in Handlers, Answer(p), batch[p].host = e
      PROVE  reader[e] # p /\ StoredMode(e)' = StoredMode(e)
  <2>1. InProgress(p) /\ e \in Hosts /\ e \in DOMAIN batch[p].read
    BY <1>1, <1>5, EndEffect, AnswerEffect
  <2>2. hostMode'[e] # EffectiveMode(e)
    BY <1>2, <2>1 DEF StoredMode
  <2>3. CASE batch[p].mode # batch[p].read[e] /\ hostMode'[e] = batch[p].read[e] /\ Stored(p, e)
    BY <1>4, <2>1, <2>2, <2>3 DEF Stored
  <2>4. CASE /\ hostMode' = hostMode
             /\ outdated' = IF reader[e] # p THEN outdated
                            ELSE IF hostMode[e] = batch[p].read[e] THEN outdated \ {e}
                            ELSE outdated \cup {e}
    BY <1>4, <2>1, <2>2, <2>4 DEF StoredMode
  <2> QED BY <1>1, <1>5, <2>1, <2>3, <2>4 DEF Answer, TypeInv, IngestTypeOK
<1>6. ASSUME e \in Containers, NEW p \in Handlers, UpsertContainer(p, e) PROVE FALSE
  <2>1. InProgress(p) /\ e \in DOMAIN batch[p].read /\ row'[e].mode = batch[p].read[e]
    BY <1>1, <1>6, UpsertEffect
  <2>2. StoredMode(e)' = row'[e].mode
    BY <1>6, EngineAssumption DEF StoredMode
  <2>3. reader[e] = p
    BY <1>6 DEF UpsertContainer, Stored
  <2> QED BY <1>2, <1>4, <2>1, <2>2, <2>3
<1>7. ASSUME e \in Hosts, NEW mode \in Modes, WriteRecord(e, mode)
      PROVE  hostMode'[e] = hostMode[e]
  BY <1>1, <1>7 DEF WriteRecord, TypeInv, IngestTypeOK
<1>8. Present(e) /\ StoredMode(e)' = StoredMode(e)
  <2>1. CASE e \in Hosts
    <3>1. Alive(e)' /\ Alive(e)
      BY <1>1, <2>1, GoneStays DEF Present
    <3>2. StoredMode(e)' = StoredMode(e)
      BY <1>1, <1>5, <1>7, <2>1, <3>1, HostModeFate DEF StoredMode, Alive
    <3> QED BY <2>1, <3>1, <3>2 DEF Present
  <2>2. CASE e \notin Hosts
    <3>1. e \in Containers /\ Known(e)'
      BY <2>2 DEF Present, Entities
    <3>2. row'[e] = row[e]
      BY <1>1, <1>6, <3>1, RowFate DEF Known, NoRow
    <3> QED BY <2>2, <3>1, <3>2 DEF Present, Known, StoredMode
  <2> QED BY <2>1, <2>2
<1>9. e \notin outdated
  BY <1>1, <1>5, <1>6, OutdatedFate
<1>10. PICK p \in Handlers : reader[e] = p /\ Writing(p, e)
  BY <1>2, <1>3, <1>8, <1>9 DEF StoredModeCoherent, StoredMode
<1>11. /\ InProgress(p) /\ e \in Unwritten(p)
       /\ e \in DOMAIN batch[p].read /\ e \in batch[p].toWrite \cup {batch[p].host}
  BY <1>10 DEF Writing, Unwritten
<1>12. ASSUME Answer(p) PROVE FALSE
  <2>1. batch[p].host \in DOMAIN batch[p].read
    BY <1>1, <1>12, AnswerEffect
  <2>2. batch[p].host = e
    BY <1>11, <2>1 DEF HostReadLast
  <2> QED BY <1>5, <1>10, <1>12, <2>2
<1>13. ASSUME FailBatch(p) PROVE FALSE
  BY <1>11, <1>13 DEF FailBatch, Abandon
<1>14. ASSUME ServerRestart PROVE FALSE
  BY <1>14 DEF ServerRestart
<1>15. ~(InProgress(p)' /\ e \in Unwritten(p)')
  BY <1>3, <1>10 DEF Writing
<1> QED BY <1>1, <1>6, <1>11, <1>12, <1>13, <1>14, <1>15, UnwrittenFate

\* A directive is given by an answer, and withdrawn when a batch begins.
LEMMA DirectiveFate ==
    ASSUME TypeInv, [IngestNext]_vars, NEW h \in Hosts
    PROVE  \/ directive'[h] \in {directive[h], {}}
           \/ \E p \in Handlers : Answer(p) /\ batch[p].host = h
<1>1. ASSUME NEW p \in Handlers, Answer(p), batch[p].host # h
      PROVE  directive'[h] = directive[h]
  BY <1>1 DEF Answer, TypeInv
<1>2. ASSUME NEW p \in Handlers, NEW g \in Hosts, NEW b \in BatchesOf(g),
             BeginIngest(p, g, b.listed, b.sampled)
      PROVE  directive'[h] \in {directive[h], {}}
  BY <1>2 DEF BeginIngest, TypeInv
<1>3. ASSUME NEW p \in Handlers, HandlerStep(p)
      PROVE  directive'[h] = directive[h] \/ (Answer(p) /\ batch[p].host = h)
  BY <1>1, <1>3
     DEF HandlerStep, Lookup, EvaluateHealth, RecordTransition, EvaluateSample,
         ReadContainerMode, UpsertContainer, ReadHostMode, FailBatch
<1> QED BY <1>2, <1>3
        DEF IngestNext, vars, DeleteHost, RecordRemoval, OpenLive, CloseLive, DockerRestart,
            TimePasses, ServerRestart, ReadRecord, WriteRecord, EndRecord

ModesRead(p) == {batch[p].read[e] : e \in DOMAIN batch[p].read}

LEMMA AnsweredDirective ==
    ASSUME TypeInv, NEW p \in Handlers, Answer(p), NEW d \in directive'[batch[p].host]
    PROVE  /\ InProgress(p)
           /\ d.entities = DOMAIN batch[p].read
           /\ d.mode = FastestMode(ModesRead(p))
           /\ d.by = p
           /\ ModesRead(p) \subseteq Modes /\ ModesRead(p) # {}
<1> DEFINE answer == [mode     |-> FastestMode(ModesRead(p)),
                      entities |-> DOMAIN batch[p].read,
                      by       |-> p]
<1>1. /\ batch[p].host \in Hosts
      /\ ModesRead(p) \subseteq Modes /\ ModesRead(p) # {}
      /\ directive' = [directive EXCEPT ![batch[p].host] = {answer}]
  BY AnswerEffect DEF ModesRead
<1>2. /\ answer.entities = DOMAIN batch[p].read
      /\ answer.mode = FastestMode(ModesRead(p))
      /\ answer.by = p
  OBVIOUS
<1> HIDE DEF answer
<1>3. d = answer
  BY <1>1 DEF TypeInv
<1> QED BY <1>1, <1>2, <1>3, EndEffect

LEMMA DirectiveStep ==
    ASSUME IngestInv, DirectiveOfHost, [IngestNext]_vars
    PROVE  DirectiveOfHost'
<1>0. TypeInv /\ BatchOfOneHost
  BY DEF IngestInv
<1>1. ASSUME NEW h \in Hosts, NEW d \in directive'[h], NEW e \in d.entities
      PROVE  OwnerOf(e) = h
  <2>1. CASE directive'[h] \in {directive[h], {}}
    BY <1>1, <2>1 DEF DirectiveOfHost
  <2>2. ASSUME NEW p \in Handlers, Answer(p), batch[p].host = h PROVE OwnerOf(e) = h
    <3>1. InProgress(p) /\ d.entities = DOMAIN batch[p].read
      BY <1>0, <1>1, <2>2, AnsweredDirective
    <3> QED BY <1>0, <1>1, <2>2, <3>1 DEF BatchOfOneHost
  <2> QED BY <1>0, <2>1, <2>2, DirectiveFate
<1>2. ASSUME NEW p \in Handlers, InProgress(p)', NEW d \in directive'[batch'[p].host]
      PROVE  d.by # p
  <2>1. ASSUME NEW h \in Hosts, NEW b \in BatchesOf(h), BeginIngest(p, h, b.listed, b.sampled)
        PROVE  FALSE
    <3>1. directive' = [directive EXCEPT ![h] = {}] /\ directive \in [Hosts -> SUBSET Directives]
      BY <1>0, <2>1 DEF BeginIngest, TypeInv
    <3>2. batch'[p].host = h
      BY <1>0, <2>1, BeginEffect
    <3> QED BY <1>2, <3>1, <3>2
  <2>2. CASE Continues(p)
    <3>1. /\ InProgress(p) /\ batch'[p].host = batch[p].host
          /\ batch[p].host \in Hosts
      BY <1>0, <2>2, BatchType DEF Continues, SameBatch, BatchRecords
    <3>2. ASSUME NEW q \in Handlers, Answer(q), batch[q].host = batch[p].host PROVE d.by # p
      <4>1. ~InProgress(q)' /\ d.by = q
        BY <1>0, <1>2, <3>1, <3>2, EndEffect, AnsweredDirective
      <4> QED BY <1>2, <4>1
    <3>3. CASE directive'[batch[p].host] \in {directive[batch[p].host], {}}
      BY <1>2, <3>1, <3>3 DEF DirectiveOfHost
    <3> QED BY <1>0, <3>1, <3>2, <3>3, DirectiveFate
  <2> QED BY <1>0, <1>2, <2>1, <2>2, BatchFate DEF Begins
<1> QED BY <1>1, <1>2 DEF DirectiveOfHost, OwnerOf

LEMMA AnswerStep ==
    ASSUME IngestInv, ReadIsCurrent, DirectiveOfHost, AnswerKeepsUp, [IngestNext]_vars
    PROVE  AnswerKeepsUp'
<1>0. TypeInv /\ BatchOfOneHost
  BY DEF IngestInv
<1> SUFFICES ASSUME NEW h \in Hosts, NEW d \in directive'[h],
                    NEW e \in d.entities, e \notin changed', reader'[e] = d.by
             PROVE  modeRank[EffectiveMode(e)'] <= modeRank[d.mode]
  BY DEF AnswerKeepsUp, EffectiveMode
<1>1. CASE directive'[h] \in {directive[h], {}}
  <2>1. d \in directive[h] /\ e \in Entities /\ OwnerOf(e) = h
    BY <1>0, <1>1 DEF TypeInv, Directives, DirectiveOfHost
  <2>2. ASSUME NEW p \in Handlers, Reads(p, e), reader'[e] = p PROVE FALSE
    BY <1>0, <2>1, <2>2, ReadsOwn DEF DirectiveOfHost
  <2>3. e \notin changed /\ reader[e] = d.by /\ EffectiveMode(e)' = EffectiveMode(e)
    BY <1>0, <2>1, <2>2, ChangedFate
  <2> QED BY <2>1, <2>3 DEF AnswerKeepsUp
<1>2. ASSUME NEW p \in Handlers, Answer(p), batch[p].host = h
      PROVE  modeRank[EffectiveMode(e)'] <= modeRank[d.mode]
  <2>1. /\ InProgress(p) /\ d.entities = DOMAIN batch[p].read
        /\ d.mode = FastestMode(ModesRead(p)) /\ d.by = p
        /\ ModesRead(p) \subseteq Modes /\ ModesRead(p) # {}
    BY <1>0, <1>2, AnsweredDirective
  <2>2. e \notin changed /\ reader[e] = p /\ EffectiveMode(e)' = EffectiveMode(e)
    BY <1>2, <2>1 DEF Answer, EffectiveMode
  <2>3. EffectiveMode(e) \in ModesRead(p)
    BY <2>1, <2>2 DEF ReadIsCurrent, ModesRead
  <2> QED BY <2>1, <2>2, <2>3, FastestType
<1> QED BY <1>0, <1>1, <1>2, DirectiveFate

LEMMA ModesInitially == IngestInit => ModeInv
<1> SUFFICES ASSUME IngestInit PROVE ModeInv
  OBVIOUS
<1>1. \A p \in Handlers : ~InProgress(p)
  BY DEF IngestInit, InProgress
<1>2. \A h \in Hosts : directive[h] = {}
  BY DEF IngestInit
<1>3. StoredModeCoherent
  <2>1. ASSUME NEW e \in Entities PROVE EffectiveMode(e) = "normal"
    BY <2>1 DEF IngestInit, EngineInit, EffectiveMode, Fresh
  <2>2. \A h \in Hosts : hostMode[h] = "normal"
    BY DEF IngestInit
  <2>3. \A c \in Containers : ~Known(c)
    BY DEF IngestInit, Known, NoRow
  <2> QED BY <2>1, <2>2, <2>3 DEF StoredModeCoherent, Present, Entities
<1> QED BY <1>1, <1>2, <1>3
        DEF ModeInv, ReadIsCurrent, HostReadLast, DirectiveOfHost, AnswerKeepsUp

\* The inductive invariant behind the two theorems that follow.
THEOREM ModesInvariant == IngestSpec => []ModeInv
<1>1. IngestInit => ModeInv
  BY ModesInitially
<1>2. IngestInv /\ ModeInv /\ [IngestNext]_vars => ModeInv'
  BY ReadCurrentStep, ReadLastStep, CoherentStep, DirectiveStep, AnswerStep DEF ModeInv
<1> QED BY <1>1, <1>2, IngestInvariant, PTL DEF IngestSpec

\* A stored mode is the engine's, but for a change that no batch has read yet,
\* a write that is still to come, and what an older copy was written over or
\* left for: whatever batches, heartbeats, enrollments and restarts do.
THEOREM StoredModesCohere == IngestSpec => []StoredModeCoherent
<1>1. ModeInv => StoredModeCoherent
  BY DEF ModeInv
<1> QED BY <1>1, ModesInvariant, PTL

\* The mode an agent is answered with ranks no lower than what the engine wants
\* of any entity of the batch, until that changes or another batch has read it.
THEOREM AnswersKeepUp == IngestSpec => []AnswerKeepsUp
<1>1. ModeInv => AnswerKeepsUp
  BY DEF ModeInv
<1> QED BY <1>1, ModesInvariant, PTL

-----------------------------------------------------------------------------
(* On the memory store an event refers to nothing, and none is lost.       *)

RemovedOnce ==
    \A i, j \in 1..Len(happened) :
        /\ "removed" = happened[i].what /\ "removed" = happened[j].what
        /\ happened[i].entity = happened[j].entity
        => i = j

LEMMA NewPosition ==
    ASSUME Extended, NEW i \in 1..Len(happened'), i \notin 1..Len(happened),
           NEW e, NEW what, NEW known, Happens(e, what, known)
    PROVE  i = Len(happened) + 1 /\ happened'[i].what = what /\ happened'[i].entity = e
<1>1. i = Len(happened) + 1
  BY DEF Extended, Happens
<1> QED BY <1>1 DEF Happens

LEMMA OnceStep ==
    ASSUME TypeInv, RemovedIsGone, RemovedOnce, [IngestNext]_vars
    PROVE  RemovedOnce'
<1>1. Extended
  BY ExtendedStep
<1>2. ASSUME NEW i \in 1..Len(happened'), NEW j \in 1..Len(happened'),
             happened'[i].what = "removed", happened'[j].what = "removed",
             happened'[i].entity = happened'[j].entity, j \notin 1..Len(happened)
      PROVE  i = j
  <2>1. happened' # happened
    BY <1>2
  <2>2. ASSUME NEW p \in Handlers, NEW e \in Entities, Transits(p, e) PROVE FALSE
    BY <1>1, <1>2, <2>2, NewPosition DEF Transits
  <2>3. ASSUME NEW h \in Hosts, DeleteHost(h) PROVE i = j
    <3>1. Happens(h, "removed", TRUE) /\ Alive(h)
      BY <2>3, DeleteEffect
    <3>2. j = Len(happened) + 1 /\ happened'[i].entity = h
      BY <1>1, <1>2, <3>1, NewPosition
    <3>3. CASE i \in 1..Len(happened)
      BY <1>1, <1>2, <3>1, <3>2, <3>3 DEF RemovedIsGone, Extended
    <3>4. CASE i \notin 1..Len(happened)
      BY <1>1, <3>1, <3>2, <3>4, NewPosition
    <3> QED BY <3>3, <3>4
  <2> QED BY <2>1, <2>2, <2>3, NewEvent
<1>3. ASSUME NEW i \in 1..Len(happened), NEW j \in 1..Len(happened),
             happened'[i].what = "removed", happened'[j].what = "removed",
             happened'[i].entity = happened'[j].entity
      PROVE  i = j
  BY <1>1, <1>3 DEF RemovedOnce, Extended
<1> QED BY <1>1, <1>2, <1>3 DEF RemovedOnce

LEMMA MemoryTransitionsStep ==
    ASSUME ~SQL, TypeInv, TransitionsPersisted, [IngestNext]_vars
    PROVE  TransitionsPersisted'
<1> SUFFICES ASSUME NEW i \in 1..Len(happened'), ~Pending(i)', i \notin excused',
                    happened'[i].what # "removed"
             PROVE  Logged(i)'
  BY DEF TransitionsPersisted, Settled
<1>1. Extended
  BY ExtendedStep
<1>2. CASE i \notin 1..Len(happened)
  <2>1. ASSUME NEW p \in Handlers, NEW e \in Entities, Transits(p, e) PROVE FALSE
    <3>1. InProgress(p)' /\ batch'[p].pending = i
      BY <1>1, <1>2, <2>1 DEF Transits, Happens, Extended
    <3> QED BY <3>1 DEF Pending
  <2>2. ASSUME NEW h \in Hosts, DeleteHost(h) PROVE FALSE
    BY <1>1, <1>2, <2>2, DeleteEffect, NewPosition
  <2> QED BY <1>2, <2>1, <2>2, NewEvent
<1>3. CASE i \in 1..Len(happened)
  <2>1. happened'[i] = happened[i]
    BY <1>1, <1>3 DEF Extended
  <2>2. CASE Settled(i)
    BY <1>3, <2>1, <2>2, LogGrows DEF TransitionsPersisted
  <2>3. CASE ~Settled(i)
    <3>1. PICK p \in Handlers : InProgress(p) /\ batch[p].pending = i
      BY <2>1, <2>3, LogGrows DEF Settled, Pending
    <3>2. ~(InProgress(p)' /\ batch'[p].pending = i)
      BY DEF Pending
    <3>3. RecordTransition(p)
      BY <1>3, <3>1, <3>2, PendingFate DEF ServerRestart
    <3>4. log' = Append(log, i)
      BY <3>1, <3>3 DEF RecordTransition
    <3> QED BY <1>3, <3>4, AppendedIsLogged
  <2> QED BY <2>2, <2>3
<1> QED BY <1>2, <1>3

LEMMA RemovingFate ==
    ASSUME ~SQL, [IngestNext]_vars, NEW h \in removing, h \notin removing'
    PROVE  RecordRemoval(h)
<1>1. ASSUME NEW g \in Hosts, RecordRemoval(g) PROVE g = h
  BY <1>1 DEF RecordRemoval
<1>2. ASSUME NEW p \in Handlers, HandlerStep(p) PROVE removing' = removing
  BY <1>2
     DEF HandlerStep, Lookup, EvaluateHealth, RecordTransition, EvaluateSample,
         ReadContainerMode, UpsertContainer, ReadHostMode, Answer, FailBatch
<1> QED BY <1>1, <1>2
        DEF IngestNext, vars, BeginIngest, DeleteHost, OpenLive, CloseLive, DockerRestart,
            TimePasses, ServerRestart, ReadRecord, WriteRecord, EndRecord

LEMMA MemoryRemovalsStep ==
    ASSUME ~SQL, TypeInv, PendingOfOneHost, RemovedOnce, RemovalsPersisted, [IngestNext]_vars
    PROVE  RemovalsPersisted'
<1> SUFFICES ASSUME NEW i \in 1..Len(happened'), ~Pending(i)', i \notin excused',
                    happened'[i].what = "removed"
             PROVE  Logged(i)'
  BY DEF RemovalsPersisted, Settled
<1>1. Extended
  BY ExtendedStep
<1>2. CASE i \notin 1..Len(happened)
  <2>1. ASSUME NEW p \in Handlers, NEW e \in Entities, Transits(p, e) PROVE FALSE
    BY <1>1, <1>2, <2>1, NewPosition DEF Transits
  <2>2. ASSUME NEW h \in Hosts, DeleteHost(h) PROVE FALSE
    <3>1. happened'[i].entity = h /\ h \in removing'
      BY <1>1, <1>2, <2>2, DeleteEffect, NewPosition DEF DeleteHost
    <3> QED BY <3>1 DEF Pending
  <2> QED BY <1>2, <2>1, <2>2, NewEvent
<1>3. CASE i \in 1..Len(happened)
  <2>1. happened'[i] = happened[i]
    BY <1>1, <1>3 DEF Extended
  <2>2. CASE Settled(i)
    BY <1>3, <2>1, <2>2, LogGrows DEF RemovalsPersisted
  <2>3. CASE ~Settled(i)
    <3> DEFINE h == happened[i].entity
    <3>1. Pending(i)
      BY <2>3, LogGrows DEF Settled
    <3>2. \A p \in Handlers : ~(InProgress(p) /\ batch[p].pending = i)
      BY <1>3, <2>1 DEF PendingOfOneHost
    <3>3. h \in removing /\ h \notin removing'
      BY <2>1, <3>1, <3>2 DEF Pending
    <3>4. RecordRemoval(h)
      BY <3>3, RemovingFate
    <3>5. PICK j \in 1..Len(happened) :
              happened[j].entity = h /\ happened[j].what = "removed" /\ log' = Append(log, j)
      BY <3>4 DEF RecordRemoval
    <3>6. j = i
      BY <1>3, <2>1, <3>5 DEF RemovedOnce
    <3> QED BY <1>3, <3>5, <3>6, AppendedIsLogged
  <2> QED BY <2>2, <2>3
<1> QED BY <1>2, <1>3

MemoryInv == RemovedOnce /\ TransitionsPersisted /\ RemovalsPersisted

\* On the memory store both promises about the event log hold: every
\* transition and every removal reaches it.  What HistorySurvives is violated
\* by is owed to the foreign keys of the SQL store.
THEOREM MemoryStoreLosesNothing ==
    ASSUME ~SQL
    PROVE  IngestSpec => [](TransitionsPersisted /\ RemovalsPersisted)
<1>1. IngestInit => MemoryInv
  BY EmptySeq DEF IngestInit, MemoryInv, RemovedOnce, TransitionsPersisted, RemovalsPersisted
<1>2. IngestInv /\ MemoryInv /\ [IngestNext]_vars => MemoryInv'
  BY OnceStep, MemoryTransitionsStep, MemoryRemovalsStep DEF IngestInv, MemoryInv
<1>3. MemoryInv => TransitionsPersisted /\ RemovalsPersisted
  BY DEF MemoryInv
<1> QED BY <1>1, <1>2, <1>3, IngestInvariant, PTL DEF IngestSpec

-----------------------------------------------------------------------------
(* A deletion is for good, whatever batch of the host is still in progress. *)

\* A container in the store has its host there.
NoOrphans == \A c \in Containers : Known(c) => Alive(HostOf[c])

\* A deleted host is not brought back by the batch that read it before, and
\* in SQL nothing but the deletion takes a row away.
DeletedForGood ==
    /\ \A h \in Hosts : ~Alive(h) => ~Alive(h)'
    /\ SQL => \A c \in Containers : Known(c) /\ ~Known(c)' => ~Alive(HostOf[c])'

LEMMA OrphanStep ==
    ASSUME IngestInv, SQL, NoOrphans, [IngestNext]_vars
    PROVE  NoOrphans'
<1> SUFFICES ASSUME NEW c \in Containers, Known(c)' PROVE Alive(HostOf[c])'
  BY DEF NoOrphans
<1>0. TypeInv /\ HostOf[c] \in Hosts
  BY IngestAssumption DEF IngestInv
<1>1. CASE row'[c] = NoRow
  BY <1>1 DEF Known, NoRow
<1>2. ASSUME NEW p \in Handlers, UpsertContainer(p, c) PROVE Alive(HostOf[c])'
  <2>1. InProgress(p) /\ c \in batch[p].toWrite
    BY <1>0, <1>2, UpsertEffect
  <2>2. HostOf[c] = batch[p].host
    BY <2>1, EngineAssumption DEF IngestInv, BatchOfOneHost, OwnerOf
  <2>3. Alive(HostOf[c]) /\ UNCHANGED hostMode
    BY <1>2, <2>2 DEF UpsertContainer
  <2> QED BY <2>3 DEF Alive
<1>3. CASE row'[c] = row[c]
  <2>1. Alive(HostOf[c])
    BY <1>3 DEF NoOrphans, Known
  <2>2. ASSUME NEW p \in Handlers, Answer(p), batch[p].host = HostOf[c]
        PROVE  Alive(HostOf[c])'
    <3>1. batch[p].read[batch[p].host] \in Modes
      BY <1>0, <2>2, AnswerEffect
    <3>2. hostMode' = hostMode \/ hostMode'[HostOf[c]] = batch[p].read[batch[p].host]
      BY <1>0, <2>2 DEF Answer, TypeInv, IngestTypeOK
    <3>3. "gone" \notin Modes
      BY DEF Modes
    <3> QED BY <2>1, <3>1, <3>2, <3>3 DEF Alive
  <2>3. ASSUME NEW h \in Hosts, DeleteHost(h) PROVE Alive(HostOf[c])'
    <3>1. h # HostOf[c]
      BY <1>3, <2>3 DEF DeleteHost, Known, NoRow
    <3> QED BY <1>0, <2>1, <2>3, <3>1, DeleteEffect DEF Alive
  <2>4. CASE hostMode'[HostOf[c]] = hostMode[HostOf[c]]
    BY <2>1, <2>4 DEF Alive
  <2>6. ASSUME NEW h \in Hosts, NEW mode \in Modes, WriteRecord(h, mode)
        PROVE  Alive(HostOf[c])'
    <3>1. "gone" \notin Modes
      BY DEF Modes
    <3> QED BY <1>0, <2>1, <2>6, <3>1 DEF WriteRecord, Alive, TypeInv, IngestTypeOK
  <2>5. ASSUME NEW p \in Handlers, HandlerStep(p)
        PROVE  \/ hostMode' = hostMode
               \/ hostMode'[HostOf[c]] = hostMode[HostOf[c]]
               \/ Answer(p) /\ batch[p].host = HostOf[c]
    <3>1. CASE Answer(p) /\ batch[p].host # HostOf[c]
      BY <1>0, <3>1 DEF Answer, TypeInv, IngestTypeOK
    <3> QED BY <2>5, <3>1
       DEF HandlerStep, Lookup, EvaluateHealth, RecordTransition, EvaluateSample, storeVars,
           ReadContainerMode, UpsertContainer, ReadHostMode, FailBatch
  <2> QED BY <2>2, <2>3, <2>4, <2>5, <2>6
          DEF IngestNext, vars, storeVars, BeginIngest, RecordRemoval, OpenLive, CloseLive,
              DockerRestart, TimePasses, ServerRestart, ReadRecord, EndRecord
<1>4. CASE ~Alive(HostOf[c])' /\ row'[c] = NoRow
  BY <1>1, <1>4
<1> QED BY <1>0, <1>2, <1>3, <1>4, RowFate

\* In SQL no container is left in the store without its host, though batches
\* of the host go on while it is deleted: UpsertContainer is refused then
\* (the foreign keys of migrations/0001_init.sql).
THEOREM NoContainerWithoutHost ==
    ASSUME SQL
    PROVE  IngestSpec => []NoOrphans
<1>1. IngestInit => NoOrphans
  BY DEF IngestInit, NoOrphans, Known, NoRow
<1>2. IngestInv /\ NoOrphans /\ [IngestNext]_vars => NoOrphans'
  BY OrphanStep
<1> QED BY <1>1, <1>2, IngestInvariant, PTL DEF IngestSpec

\* UpdateHost after DeleteHost fails: a batch in progress does not bring its
\* host back, in either store, and rows of living hosts are not lost.
THEOREM DeletionsAreForGood == IngestSpec => [][DeletedForGood]_vars
<1>1. IngestInv /\ [IngestNext]_vars => [DeletedForGood]_vars
  BY GoneStays, KnownOrGone DEF IngestInv, DeletedForGood
<1> QED BY <1>1, IngestInvariant, PTL DEF IngestSpec

-----------------------------------------------------------------------------
(* The engine inside ingestion behaves as the engine alone.                *)

LEMMA EngineStep == [IngestNext]_vars => [EngineNext]_engineVars
<1> SUFFICES ASSUME [IngestNext]_vars PROVE [EngineNext]_engineVars
  OBVIOUS
<1>1. ASSUME NEW p \in Handlers, NEW c \in Containers, NEW exited \in BOOLEAN,
             NEW unhealthy \in BOOLEAN, EvaluateHealth(p, c, exited, unhealthy)
      PROVE  EngineNext
  <2> DEFINE restarted == Restarted(batch[p], c)
             report == [exited |-> exited, unhealthy |-> unhealthy, restarted |-> restarted]
  <2>1. restarted \in BOOLEAN
    BY DEF Restarted
  <2>2. EvaluateContainerHealth(c, report)
    BY <1>1 DEF EvaluateHealth
  <2> HIDE DEF restarted
  <2>3. report \in Reports
    BY <2>1 DEF Reports
  <2> HIDE DEF report
  <2> QED BY <2>2, <2>3 DEF EngineNext
<1>2. ASSUME NEW p \in Handlers, NEW e \in Entities, NEW m \in Metrics, EvaluateSample(p, e, m)
      PROVE  EngineNext
  BY <1>2 DEF EvaluateSample, EngineNext
<1>3. ASSUME NEW p \in Handlers, HandlerStep(p) PROVE EngineNext \/ UNCHANGED engineVars
  BY <1>1, <1>2, <1>3
     DEF HandlerStep, Lookup, RecordTransition, ReadContainerMode, UpsertContainer,
         ReadHostMode, Answer, FailBatch, engineVars
<1>4. ASSUME NEW e \in Entities, OpenLive(e) \/ CloseLive(e) PROVE EngineNext
  BY <1>4 DEF OpenLive, CloseLive, EngineNext
<1>5. CASE TimePasses \/ ServerRestart
  BY <1>5 DEF TimePasses, ServerRestart, EngineNext
<1> QED BY <1>3, <1>4, <1>5
        DEF IngestNext, vars, engineVars, BeginIngest, DeleteHost, RecordRemoval,
            DockerRestart, ReadRecord, WriteRecord, EndRecord

\* Whatever ingestion, viewers, deletions and restarts do, they do it to the
\* engine through its methods: every behaviour is one of module
\* MonitoringEngine, and what is proved there (StreakDiscipline, hysteresis)
\* is true of the engine here.
THEOREM IngestImplementsEngine == IngestSpec => EngineSpec
<1>1. IngestInit => EngineInit
  BY DEF IngestInit
<1>2. [IngestNext]_vars => [EngineNext]_engineVars
  BY EngineStep
<1> QED BY <1>1, <1>2, PTL DEF IngestSpec, EngineSpec
=============================================================================
