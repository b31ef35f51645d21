------------------------ MODULE MCMonitoringHistory -------------------------
(***************************************************************************)
(* Values for model checking MonitoringHistory: the documented thresholds  *)
(* with samples on both sides of each and exactly on it, and one memory    *)
(* sample without a limit.                                                 *)
(***************************************************************************)
EXTENDS MonitoringHistory

CONSTANT c1

MCHosts == {}
MCContainers == {c1}

\* Below recovery, on the recovery threshold, on the critical threshold.
MCCPUSamples == {74, 75, 90}

\* The same for memory, and a used amount with no limit to compare it with.
MCMemSamples == {[used |-> 74, limit |-> 100], [used |-> 75, limit |-> 100],
                 [used |-> 90, limit |-> 100], [used |-> 95, limit |-> 0]}
=============================================================================
