------------------------- MODULE MCTelemetryIngest --------------------------
(***************************************************************************)
(* Values for model checking TelemetryIngest: one host with one container, *)
(* samples that trip and samples that are clean, and a limit on what may   *)
(* happen while batches overlap.                                           *)
(***************************************************************************)
EXTENDS TelemetryIngest, FiniteSets, TLC

CONSTANTS h1, c1

MCHosts == {h1}
MCContainers == {c1}
MCHostOf == [c \in {c1} |-> h1]

\* Handlers differ in nothing but their names.
Interchangeable == Permutations(Handlers)

MCCPUSamples == {50, 95}
MCMemSamples == {[used |-> 0, limit |-> 0]}

\* A batch without what it has no more use for: the counts of the rows of
\* containers it has checked, and whether a sample was evaluated once the modes
\* are being read.
Needed(p) ==
    IF batch[p] = Idle THEN Idle
    ELSE [batch[p] EXCEPT
             !.prior = [c \in Containers |-> IF c \in batch[p].toCheck THEN @[c] ELSE Absent],
             !.measured = @ /\ DOMAIN batch[p].read = {}]

\* An event that is recorded, excused or of an unknown container is done with.
Unsettled(i) ==
    IF ~Pending(i) /\ (Logged(i) \/ i \in excused \/ ~happened[i].known)
    THEN "settled" ELSE happened[i]

\* A reader matters until it has written, and to the answer it gave; an
\* outdated row until the mode has changed or is about to be written.
CurrentReader(e) ==
    IF \/ reader[e] \in Handlers /\ Writing(reader[e], e)
       \/ e \notin changed /\ \E d \in directive[OwnerOf(e)] : d.by = reader[e] /\ e \in d.entities
    THEN reader[e] ELSE Nobody

StillOutdated == {e \in outdated \ changed : \A p \in Handlers : ~(reader[e] = p /\ Writing(p, e))}

Accounted(c) == IF baseline[c] > flagged[c] THEN baseline[c] ELSE flagged[c]

\* What the steps to come and the properties of the run depend on.  Without a
\* hysteresis window the time decides nothing.
Relevant ==
    <<st, hostMode, row, [p \in Handlers |-> Needed(p)], directive, docker, removing, copies,
      [i \in 1..Len(happened) |-> Unsettled(i)], [c \in Containers |-> Accounted(c)],
      changed, [e \in Entities |-> CurrentReader(e)], StillOutdated>>

Overlap == \A p \in Handlers : InProgress(p)
Watched == {e \in Entities : st[e].manualViewers > 0}

\* A second batch begins once the first has only rows left to write.  It samples
\* the host alone (its container's mode changes by its health), Docker restarts
\* the container before it or after one of them has ended, and viewers, copies
\* of the host's row and the host's deletion are left to single batches.
LimitedOverlap ==
    /\ Cardinality(Watched) + Cardinality(copies[h1]) + (IF Overlap THEN 1 ELSE 0) <= 1
    /\ Overlap => /\ \E p \in Handlers : Sampled(p)
                  /\ \E p \in Handlers : batch[p].counts = docker
                  /\ \A p \in Handlers : batch[p].toSample \subseteq Hosts
                  /\ Alive(h1)
                  /\ "manual_realtime" \notin {hostMode[h1], row[c1].mode}
    /\ Overlap \/ StillOutdated # {} => Len(happened) <= 1 /\ Watched = {}
=============================================================================
