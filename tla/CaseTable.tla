------------------------------ MODULE CaseTable ------------------------------
(***************************************************************************)
(* The cases and case_alerts tables of one tenant, as the standalone       *)
(* runtime writes them.  A case is created for its first alert and its     *)
(* case_id is a hash of that alert's id, so a case is named here by the    *)
(* alert that founded it.  The investigation_cycle counter is only ever    *)
(* compared with the cycle of a disposition, so it is kept as the Boolean  *)
(* "the current cycle has a disposition".                                  *)
(***************************************************************************)
EXTENDS Naturals, FiniteSets

CONSTANTS
    Alerts,      \* alert ids: one per (rule, event) pair that can match
    KeyOf,       \* [Alerts -> semantic keys]: the rule and device (or actor)
    PriorityOf   \* [Alerts -> Priorities]: the case priority of its severity

Priorities == 1..4   \* low, medium, high, critical

ASSUME KeyAssumption == DOMAIN KeyOf = Alerts
ASSUME PriorityAssumption == PriorityOf \in [Alerts -> Priorities]

CaseStatuses == {"none", "open", "investigating", "contained", "closed"}

CaseRecord == [status : CaseStatuses, priority : Priorities, disposed : BOOLEAN]

NoCase == [status |-> "none", priority |-> 1, disposed |-> FALSE]

\* The partial unique index idx_cases_open_semantic covers these cases.
IsActive(cs, c) == cs[c].status \in {"open", "investigating", "contained"}

ActiveFor(cs, k) == {c \in Alerts : KeyOf[c] = k /\ IsActive(cs, c)}

NewCase(a) == [status |-> "open", priority |-> PriorityOf[a], disposed |-> FALSE]

HigherPriority(p, q) == IF p >= q THEN p ELSE q

\* The cases that a newly inserted alert is linked to: the active case of its
\* key, or the case it founds.
CasesOf(cs, a) ==
    IF ActiveFor(cs, KeyOf[a]) = {} THEN {a} ELSE ActiveFor(cs, KeyOf[a])

\* Fault: a joining alert does not raise the priority.
CasesAfterFlat(cs, N) ==
    [c \in Alerts |->
        IF c \in N /\ ActiveFor(cs, KeyOf[c]) = {} THEN NewCase(c) ELSE cs[c]]

\* The cases table after the alerts N were inserted by one transaction.
\* Alerts of one event have different rules and so different keys.
CasesAfter(cs, N) ==
    [c \in Alerts |->
        IF c \in N /\ ActiveFor(cs, KeyOf[c]) = {}
        THEN NewCase(c)
        ELSE IF \E a \in N : c \in ActiveFor(cs, KeyOf[a])
        THEN LET a == CHOOSE a \in N : c \in ActiveFor(cs, KeyOf[a])
             IN  [cs[c] EXCEPT !.priority = HigherPriority(cs[c].priority, PriorityOf[a])]
        ELSE cs[c]]

LinksAfter(cs, ls, N) ==
    ls \cup {l \in Alerts \X N : l[1] \in CasesOf(cs, l[2])}

\* StandaloneCaseService._TRANSITIONS
Transitions ==
    {<<"open", "investigating">>, <<"open", "closed">>,
     <<"investigating", "contained">>, <<"investigating", "closed">>,
     <<"contained", "investigating">>, <<"contained", "closed">>,
     <<"closed", "open">>}

\* Fault: no look for a successor.
MayAlwaysReopen(cs, c) == TRUE

\* A closed case may not be reopened while a successor holds its key.
MayReopen(cs, c) == ActiveFor(cs, KeyOf[c]) \ {c} = {}

CanTransition(cs, c, s) ==
    /\ <<cs[c].status, s>> \in Transitions
    /\ (cs[c].status = "closed") => MayReopen(cs, c)
    /\ (s = "closed") => cs[c].disposed

\* Reopening starts a new investigation cycle, which has no disposition yet.
Transitioned(cs, c, s) ==
    [cs EXCEPT ![c] = [status |-> s, priority |-> cs[c].priority,
                       disposed |-> cs[c].status # "closed" /\ cs[c].disposed]]
=============================================================================
