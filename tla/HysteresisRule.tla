--------------------------- MODULE HysteresisRule ---------------------------
(***************************************************************************)
(* What the hysteresis of the monitoring engine promises, with no counter: *)
(* an entity in CRITICAL keeps the whole list of the samples taken since   *)
(* it got there, and leaves CRITICAL at a sample if and only if some run   *)
(* of clean samples that ends with it is long enough and old enough        *)
(* (the ThresholdConfig comment, engine.go:41-47).                         *)
(***************************************************************************)
EXTENDS Integers, Sequences

CONSTANTS Entities, HysteresisWindow, MinConsecutiveNormalSamples

VARIABLES
    critical,   \* entity -> BOOLEAN
    evidence,   \* entity -> the samples since it became critical
    now,
    era         \* flips at every restart, which tells it from a recovery

ruleVars == <<critical, evidence, now, era>>

\* Some run of clean samples, ending with the last one, justifies recovery.
Justified(h, t) ==
    \E i \in 1..Len(h) :
        /\ \A j \in i..Len(h) : h[j].clean
        /\ Len(h) - i + 1 >= MinConsecutiveNormalSamples
        /\ t - h[i].at >= HysteresisWindow

RuleInit ==
    /\ critical = [e \in Entities |-> FALSE]
    /\ evidence = [e \in Entities |-> <<>>]
    /\ now = 1
    /\ era = 0

\* A bad metric or a bad health report; a run of samples starts from nothing.
Enter(e) ==
    /\ ~critical[e]
    /\ critical' = [critical EXCEPT ![e] = TRUE]
    /\ UNCHANGED <<evidence, now, era>>

Remain(e, clean) ==
    LET h == Append(evidence[e], [clean |-> clean, at |-> now])
    IN  /\ critical[e]
        /\ ~(clean /\ Justified(h, now))
        /\ evidence' = [evidence EXCEPT ![e] = h]
        /\ UNCHANGED <<critical, now, era>>

Leave(e) ==
    LET h == Append(evidence[e], [clean |-> TRUE, at |-> now])
    IN  /\ critical[e]
        /\ Justified(h, now)
        /\ critical' = [critical EXCEPT ![e] = FALSE]
        /\ evidence' = [evidence EXCEPT ![e] = <<>>]
        /\ UNCHANGED <<now, era>>

Advance ==
    /\ now' = now + 1
    /\ UNCHANGED <<critical, evidence, era>>

Reboot ==
    /\ critical' = [e \in Entities |-> FALSE]
    /\ evidence' = [e \in Entities |-> <<>>]
    /\ era' = 1 - era
    /\ UNCHANGED now

RuleNext ==
    \/ \E e \in Entities : Enter(e) \/ Leave(e)
    \/ \E e \in Entities, clean \in BOOLEAN : Remain(e, clean)
    \/ Advance
    \/ Reboot

RuleSpec == RuleInit /\ [][RuleNext]_ruleVars
=============================================================================
