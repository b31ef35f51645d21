------------------------------- MODULE Cadence -------------------------------
(***************************************************************************)
(* What the collector promises about when it collects, without its         *)
(* channels and its timer (internal/agent/collector): one collection at a  *)
(* time; the first one at once; and from the end of one to the start of    *)
(* the next exactly the interval that was last answered, or the old one if *)
(* no answer came.  Collections never cease.                               *)
(***************************************************************************)
EXTENDS Naturals

CONSTANTS
    Intervals,          \* what the control plane may answer
    InitialInterval     \* DM_AGENT_NORMAL_INTERVAL_SECONDS

VARIABLES
    interval,
    due,        \* time left to the next collection
    phase       \* "idle", "busy" or "stopped"

cvars == <<interval, due, phase>>

CadenceInit == interval = InitialInterval /\ due = 0 /\ phase = "idle"

Elapse == phase = "idle" /\ due > 0 /\ due' = due - 1 /\ UNCHANGED <<interval, phase>>

BeginCollection == phase = "idle" /\ due = 0 /\ phase' = "busy" /\ UNCHANGED <<interval, due>>

EndCollection ==
    /\ phase = "busy"
    /\ phase' = "idle"
    /\ interval' \in Intervals \cup {interval}
    /\ due' = interval'

StopCollecting == phase = "idle" /\ phase' = "stopped" /\ UNCHANGED <<interval, due>>

Advance == Elapse \/ BeginCollection \/ EndCollection

CadenceNext == Advance \/ StopCollecting

CadenceSpec == CadenceInit /\ [][CadenceNext]_cvars /\ WF_cvars(Advance)

=============================================================================
