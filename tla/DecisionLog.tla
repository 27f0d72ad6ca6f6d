----------------------------- MODULE DecisionLog -----------------------------
(***************************************************************************)
(* What the detection pipeline promises, without jobs, leases, workers or  *)
(* time: an accepted event is settled once, its alerts are written at that *)
(* moment and at no other, and only a settled event without alerts may be  *)
(* forgotten (after which the same id may be accepted again).              *)
(***************************************************************************)
CONSTANTS Events, Alerts, EventOf

VARIABLES
    phase,   \* [Events -> {"absent", "open", "settled"}]
    alerts   \* the alerts that were raised

vars == <<phase, alerts>>

AlertsOf(e) == {a \in Alerts : EventOf[a] = e}

Init ==
    /\ phase = [e \in Events |-> "absent"]
    /\ alerts = {}

Accept(S) ==
    /\ \A e \in S : phase[e] = "absent"
    /\ phase' = [e \in Events |-> IF e \in S THEN "open" ELSE phase[e]]
    /\ UNCHANGED alerts

\* D is empty when nothing matched and when the event was given up.
Settle(e, D) ==
    /\ phase[e] = "open"
    /\ AlertsOf(e) \cap alerts = {}
    /\ phase' = [phase EXCEPT ![e] = "settled"]
    /\ alerts' = alerts \cup D

Forget(S) ==
    /\ \A e \in S : phase[e] = "settled" /\ AlertsOf(e) \cap alerts = {}
    /\ phase' = [e \in Events |-> IF e \in S THEN "absent" ELSE phase[e]]
    /\ UNCHANGED alerts

Next ==
    \/ \E S \in SUBSET Events : Accept(S) \/ Forget(S)
    \/ \E e \in Events : \E D \in SUBSET AlertsOf(e) : Settle(e, D)

Spec == Init /\ [][Next]_vars
=============================================================================
