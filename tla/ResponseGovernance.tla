-------------------------- MODULE ResponseGovernance --------------------------
(***************************************************************************)
(* The response_actions table of one tenant and the operations of          *)
(* StandaloneResponseService on it: humans propose, approve and reject, a  *)
(* device polls and answers.  Every operation is one SQL transaction; an   *)
(* operation that raises after its transaction was rolled back changes     *)
(* nothing and has no action here, one that commits before it raises has.  *)
(*                                                                         *)
(* Time.  A row keeps ttl = max(expires_at - now, 0); Tick decreases it.   *)
(***************************************************************************)
EXTENDS Naturals

CONSTANTS
    Actions,      \* action ids (uuid4: never used twice)
    Devices,
    Cases,
    Users,        \* humans who hold PROPOSE_RESPONSE and APPROVE_RESPONSE
    Results,      \* result_json values a device can send
    None,         \* NULL
    Succeeded,    \* the results whose status is "succeeded"
    TTLs,         \* the allowed values of expires_in_seconds, in ticks
    MaxDispatch   \* max_dispatch_attempts

ASSUME ResponseAssumption ==
    /\ TTLs \subseteq Nat \ {0}
    /\ MaxDispatch \in Nat \ {0}
    /\ Succeeded \subseteq Results
    /\ None \notin Users \cup Results

VARIABLES
    action,    \* [Actions -> Row]: the response_actions table
    open,      \* the cases that are not closed
    active     \* the devices whose status is active

vars == <<action, open, active>>

Kinds == {"isolate_endpoint", "release_endpoint"}
Live == {"proposed", "approved", "dispatched"}
Answered == {"succeeded", "failed"}
Statuses == Live \cup Answered \cup {"none", "rejected", "expired"}

\* The columns that response_action_identity_immutable protects.
Identity == [case : Cases, kind : Kinds, target : Devices, proposer : Users]

ASSUME NoneAssumption == None \notin Identity

Row == [status : Statuses, id : Identity \cup {None}, reviewer : Users \cup {None},
        ttl : Nat, count : Nat, result : Results \cup {None}]

MkRow(s, id, u, t, n, r) ==
    [status |-> s, id |-> id, reviewer |-> u, ttl |-> t, count |-> n, result |-> r]

NoRow == MkRow("none", None, None, 0, 0, None)

WithStatus(row, s) == MkRow(s, row.id, row.reviewer, row.ttl, row.count, row.result)

Exists(a) == action[a].status # "none"
IsLive(a) == action[a].status \in Live
Due(a) == action[a].ttl = 0
CaseIsClosed(a) == action[a].id.case \notin open

Init ==
    /\ action = [a \in Actions |-> NoRow]
    /\ open = Cases
    /\ active = Devices

----------------------------------------------------------------------------
(* Expiry *)

\* Fault: the status is not looked at again.
ExpireAnything(row) == WithStatus(row, "expired")

\* _expire_one: the UPDATE's WHERE leaves a row that is not live alone.
ExpireOne(row) == IF row.status \in Live THEN WithStatus(row, "expired") ELSE row

\* Fault: a dispatched row is never expired by the sweep.
ExpiresUndispatched(a) ==
    action[a].status \in {"proposed", "approved"} /\ (Due(a) \/ CaseIsClosed(a))

\* _expire_due, and _expire_closed_case_actions, which spares dispatched rows.
Expires(a) ==
    \/ IsLive(a) /\ Due(a)
    \/ action[a].status \in {"proposed", "approved"} /\ CaseIsClosed(a)

\* Both, for the rows that target a device of D.
Swept(D) ==
    [a \in Actions |->
        IF Exists(a) /\ action[a].id.target \in D /\ Expires(a)
        THEN ExpireOne(action[a]) ELSE action[a]]

----------------------------------------------------------------------------
(* Humans *)

\* Fault: the unique index leaves dispatched rows out.
SlotFreeOfUndispatched(rows, d) ==
    \A b \in Actions :
        rows[b].status \in {"proposed", "approved"} => rows[b].id.target # d

\* idx_response_one_live_device
SlotFree(rows, d) ==
    \A b \in Actions : rows[b].status \in Live => rows[b].id.target # d

Propose(u, a, c, k, d, t) ==
    LET id == [case |-> c, kind |-> k, target |-> d, proposer |-> u]
    IN  /\ ~Exists(a)
        /\ c \in open
        /\ d \in active
        /\ SlotFree(Swept({d}), d)
        /\ action' = [Swept({d}) EXCEPT ![a] = MkRow("proposed", id, None, t, 0, None)]
        /\ UNCHANGED <<open, active>>

\* Fault: anybody may approve.
IndependentlyOfAnyone(u, a) == Exists(a)

\* "response proposer cannot approve the action"
Independent(u, a) == Exists(a) /\ action[a].id.proposer # u

\* A closed case or a passed deadline expires the row, whatever live status it
\* has (a row that is not live stays as it is), and commits before
\* ResponseExpiredError is raised.
Approve(u, a) ==
    /\ Independent(u, a)
    /\ \/ /\ CaseIsClosed(a) \/ Due(a)
          /\ action' = [action EXCEPT ![a] = ExpireOne(@)]
       \/ /\ ~CaseIsClosed(a) /\ ~Due(a)
          /\ action[a].status = "proposed"
          /\ action' = [action EXCEPT ![a] =
                MkRow("approved", @.id, u, @.ttl, @.count, @.result)]
    /\ UNCHANGED <<open, active>>

\* The same for reject, which does not look at the case.
Reject(u, a) ==
    /\ Independent(u, a)
    /\ \/ /\ Due(a)
          /\ action' = [action EXCEPT ![a] = ExpireOne(@)]
       \/ /\ ~Due(a)
          /\ action[a].status = "proposed"
          /\ action' = [action EXCEPT ![a] =
                MkRow("rejected", @.id, u, @.ttl, @.count, @.result)]
    /\ UNCHANGED <<open, active>>

ListActions ==
    /\ action' = Swept(Devices)
    /\ UNCHANGED <<open, active>>

----------------------------------------------------------------------------
(* Devices *)

\* Fault: an action is handed out once too often.
DispatchableOnceMore(a, d) ==
    /\ Exists(a)
    /\ action[a].id.target = d
    /\ ~CaseIsClosed(a)
    /\ action[a].status \in {"approved", "dispatched"}
    /\ ~Due(a)
    /\ action[a].count <= MaxDispatch

\* The SELECT of poll_device; the sweep before it never changes its answer.
Dispatchable(a, d) ==
    /\ Exists(a)
    /\ action[a].id.target = d
    /\ ~CaseIsClosed(a)
    /\ action[a].status \in {"approved", "dispatched"}
    /\ ~Due(a)
    /\ action[a].count < MaxDispatch

\* An approved row becomes dispatched with count 1, a dispatched one counts on.
PollDevice(d) ==
    /\ d \in active
    /\ action' = [a \in Actions |->
          IF Dispatchable(a, d)
          THEN MkRow("dispatched", action[a].id, action[a].reviewer, action[a].ttl,
                     action[a].count + 1, action[a].result)
          ELSE Swept({d})[a]]
    /\ UNCHANGED <<open, active>>

StatusOf(r) == IF r \in Succeeded THEN "succeeded" ELSE "failed"

\* An identical retry of a stored result changes nothing, a different one and
\* one for a row that was not dispatched are conflicts.
TakesResult(d, a) ==
    /\ d \in active
    /\ Exists(a)
    /\ action[a].id.target = d
    /\ action[a].status = "dispatched"

\* The result is stored before the deadline; at or after it the row expires.
SubmitResult(d, a, r) ==
    /\ TakesResult(d, a)
    /\ action' = [action EXCEPT ![a] =
          IF Due(a) THEN ExpireOne(@)
          ELSE MkRow(StatusOf(r), @.id, @.reviewer, @.ttl, @.count, r)]
    /\ UNCHANGED <<open, active>>

----------------------------------------------------------------------------
(* Around them *)

CloseCase(c) ==
    /\ c \in open
    /\ open' = open \ {c}
    /\ UNCHANGED <<action, active>>

ReopenCase(c) ==
    /\ c \in Cases \ open
    /\ open' = open \cup {c}
    /\ UNCHANGED <<action, active>>

\* DeviceEnrollmentService.revoke_device does not touch the actions.
RevokeDevice(d) ==
    /\ d \in active
    /\ active' = active \ {d}
    /\ UNCHANGED <<action, open>>

Tick ==
    /\ action' = [a \in Actions |->
          IF ~Due(a)
          THEN MkRow(action[a].status, action[a].id, action[a].reviewer, action[a].ttl - 1,
                     action[a].count, action[a].result)
          ELSE action[a]]
    /\ UNCHANGED <<open, active>>

----------------------------------------------------------------------------
Human(u) ==
    \/ \E a \in Actions, c \in Cases, k \in Kinds, d \in Devices, t \in TTLs :
          Propose(u, a, c, k, d, t)
    \/ \E a \in Actions : Approve(u, a)
    \/ \E a \in Actions : Reject(u, a)

Next ==
    \/ \E u \in Users : Human(u)
    \/ ListActions
    \/ \E d \in Devices : PollDevice(d)
    \/ \E d \in Devices, a \in Actions, r \in Results : SubmitResult(d, a, r)
    \/ \E c \in Cases : CloseCase(c) \/ ReopenCase(c)
    \/ \E d \in Devices : RevokeDevice(d)
    \/ Tick

Spec == Init /\ [][Next]_vars

\* Time passes, and the collector of an active device polls on its schedule.
FairSpec == Spec /\ WF_vars(Tick) /\ \A d \in Devices : WF_vars(PollDevice(d))
----------------------------------------------------------------------------
(* Properties *)

\* Types, and what the columns say of each other: a row is answered exactly
\* when it has a result, it was dispatched if and only if it was ever handed
\* out and dispatch_count stays within max_dispatch_attempts.
TypeOK ==
    /\ action \in [Actions -> Row]
    /\ open \subseteq Cases
    /\ active \subseteq Devices
    /\ \A a \in Actions :
        /\ Exists(a) = (action[a].id # None)
        /\ action[a].count <= MaxDispatch
        /\ (action[a].status \in Answered) = (action[a].result # None)
        /\ action[a].status \in Answered \cup {"dispatched"} => action[a].count > 0
        /\ action[a].status \in {"proposed", "approved", "rejected"} => action[a].count = 0

\* A device has at most one live action, so an isolate and a release are never
\* both under way, however proposals, sweeps and results interleave.
OneLiveAction ==
    \A a, b \in Actions :
        IsLive(a) /\ IsLive(b) /\ action[a].id.target = action[b].id.target => a = b

\* Whatever was handed to a device had been approved by a human other than the
\* one who proposed it, also when it has expired since.
IndependentApproval ==
    \A a \in Actions :
        action[a].status \in {"approved", "rejected"} \/ action[a].count > 0
            => action[a].reviewer \in Users \ {action[a].id.proposer}

\* response_action_transition_guard
TriggerTransitions ==
    {<<"proposed", "approved">>, <<"proposed", "rejected">>, <<"proposed", "expired">>,
     <<"approved", "dispatched">>, <<"approved", "expired">>, <<"dispatched", "succeeded">>,
     <<"dispatched", "failed">>, <<"dispatched", "expired">>}

\* What the table stores of a row; ttl only measures the time to its deadline.
Columns(row) == <<row.status, row.id, row.reviewer, row.count, row.result>>

\* No transaction of the service is ever aborted by a trigger of the table: the
\* statuses follow the transition guard, a terminal row and an identity are
\* immutable, and only expiry happens at or after the deadline.
TriggersSilent ==
    [][\A a \in Actions :
        Exists(a) /\ Columns(action'[a]) # Columns(action[a]) =>
            LET old == action[a].status
                new == action'[a].status
            IN  /\ old \in Live
                /\ action'[a].id = action[a].id
                /\ new = old \/ <<old, new>> \in TriggerTransitions
                /\ new \notin {old, "expired"} => ~Due(a)]_vars

\* Every live action of a device that keeps polling comes to an end: answered,
\* rejected or expired, even when its case was closed or its dispatches used up.
ActionSettles ==
    \A a \in Actions : IsLive(a) ~> (~IsLive(a) \/ action[a].id.target \notin active)

\* "Dispatched action can report result after case closes": once a device holds
\* an action, only its deadline may expire it.
DispatchedKeepsDeadline ==
    [][\A a \in Actions :
        action[a].status = "dispatched" /\ action'[a].status = "expired" => Due(a)]_vars
=============================================================================
