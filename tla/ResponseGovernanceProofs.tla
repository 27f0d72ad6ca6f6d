----------------------- MODULE ResponseGovernanceProofs -----------------------
(***************************************************************************)
(* Proofs about ResponseGovernance.  The service touches a row in only     *)
(* seven ways (RowStep).  One lemma reduces every operation to these, and  *)
(* the invariants and the trigger property are then proved row by row,     *)
(* without looking at the operations again.  Only OneLiveAction needs more *)
(* than one row: a proposal finds the slot of its device free.             *)
(***************************************************************************)
EXTENDS ResponseGovernance, TLAPS

Kept(a) == action'[a] = action[a]

Aged(a) ==
    /\ action[a].ttl # 0
    /\ action'[a] = MkRow(action[a].status, action[a].id, action[a].reviewer,
                          action[a].ttl - 1, action[a].count, action[a].result)

Lapsed(a) == IsLive(a) /\ action'[a] = WithStatus(action[a], "expired")

Proposed(a) ==
    /\ ~Exists(a)
    /\ \E id \in Identity, t \in TTLs : action'[a] = MkRow("proposed", id, None, t, 0, None)

Reviewed(a) ==
    /\ action[a].status = "proposed"
    /\ ~Due(a)
    /\ \E u \in Users, s \in {"approved", "rejected"} :
        /\ u # action[a].id.proposer
        /\ action'[a] = MkRow(s, action[a].id, u, action[a].ttl, action[a].count,
                              action[a].result)

Handed(a) ==
    /\ action[a].status \in {"approved", "dispatched"}
    /\ ~Due(a)
    /\ action[a].count < MaxDispatch
    /\ action'[a] = MkRow("dispatched", action[a].id, action[a].reviewer, action[a].ttl,
                          action[a].count + 1, action[a].result)

Settled(a) ==
    /\ action[a].status = "dispatched"
    /\ ~Due(a)
    /\ \E r \in Results :
          action'[a] = MkRow(StatusOf(r), action[a].id, action[a].reviewer, action[a].ttl,
                             action[a].count, r)

RowStep(a) ==
    \/ Kept(a) \/ Aged(a) \/ Lapsed(a) \/ Proposed(a)
    \/ Reviewed(a) \/ Handed(a) \/ Settled(a)

\* A step of time and of results aside.
Unsettled ==
    /\ action' = [a \in Actions |-> action'[a]]
    /\ \A a \in Actions :
          Kept(a) \/ Lapsed(a) \/ Proposed(a) \/ Reviewed(a) \/ Handed(a)

\* A step that only writes rows in these ways, on all rows at once.
RowsStep ==
    /\ action' = [a \in Actions |-> action'[a]]
    /\ \A a \in Actions : RowStep(a)

----------------------------------------------------------------------------
\* The sweep leaves a row alone or expires a live one.
LEMMA SweptRow ==
    ASSUME NEW D, NEW a \in Actions
    PROVE  \/ Swept(D)[a] = action[a]
           \/ IsLive(a) /\ Swept(D)[a] = WithStatus(action[a], "expired")
  BY DEF Swept, ExpireOne, Expires, IsLive, Live

\* propose touches the device's rows with a sweep, and the new one.
LEMMA ProposeRows ==
    ASSUME TypeOK, NEW u \in Users, NEW a \in Actions, NEW c \in Cases, NEW k \in Kinds,
           NEW d \in Devices, NEW t \in TTLs, Propose(u, a, c, k, d, t)
    PROVE  Unsettled
<1> DEFINE id == [case |-> c, kind |-> k, target |-> d, proposer |-> u]
<1>1. id \in Identity
  BY DEF Identity
<1>2. action' = [Swept({d}) EXCEPT ![a] = MkRow("proposed", id, None, t, 0, None)]
  BY DEF Propose
<1>3. action' = [b \in Actions |-> IF b = a THEN MkRow("proposed", id, None, t, 0, None)
                                   ELSE Swept({d})[b]]
  BY <1>2 DEF Swept
<1>4. ASSUME NEW b \in Actions
      PROVE  Kept(b) \/ Lapsed(b) \/ Proposed(b) \/ Reviewed(b) \/ Handed(b)
  <2>1. CASE b = a
    <3>1. action'[a] = MkRow("proposed", id, None, t, 0, None)
      BY <1>3
    <3>2. ~Exists(a)
      BY DEF Propose
    <3> QED BY <1>1, <2>1, <3>1, <3>2 DEF Proposed
  <2>2. CASE b # a
    BY <1>3, <2>2, SweptRow DEF Kept, Lapsed
  <2> QED BY <2>1, <2>2
<1> QED BY <1>3, <1>4 DEF Unsettled

\* approve and reject expire the row, or review it.
LEMMA ReviewRows ==
    ASSUME TypeOK, NEW u \in Users, NEW a \in Actions, Approve(u, a) \/ Reject(u, a)
    PROVE  Unsettled
<1>1. action[a].status \in Statuses /\ u # action[a].id.proposer
  BY DEF Approve, Reject, Independent, TypeOK, Row
<1>2. CASE action' = [action EXCEPT ![a] = ExpireOne(action[a])]
  <2>1. action' = [b \in Actions |-> IF b = a THEN ExpireOne(action[a]) ELSE action[b]]
    BY <1>2 DEF TypeOK
  <2>2. \A b \in Actions : Kept(b) \/ Lapsed(b)
    BY <2>1 DEF ExpireOne, Kept, Lapsed, IsLive
  <2> QED BY <2>1, <2>2 DEF Unsettled
<1>3. CASE /\ action[a].status = "proposed"
           /\ ~Due(a)
           /\ \E s \in {"approved", "rejected"} :
                action' = [action EXCEPT ![a] =
                    MkRow(s, action[a].id, u, action[a].ttl, action[a].count,
                          action[a].result)]
  <2>1. PICK s \in {"approved", "rejected"} :
           action' = [action EXCEPT ![a] =
               MkRow(s, action[a].id, u, action[a].ttl, action[a].count, action[a].result)]
    BY <1>3
  <2> DEFINE row == MkRow(s, action[a].id, u, action[a].ttl, action[a].count, action[a].result)
  <2>2. action' = [b \in Actions |-> IF b = a THEN row ELSE action[b]]
    BY <2>1 DEF TypeOK
  <2> HIDE DEF row
  <2>3. \A b \in Actions : b # a => Kept(b)
    BY <2>2 DEF Kept
  <2>4. action'[a] = row
    BY <2>2
  <2>5. Reviewed(a)
    BY <1>1, <1>3, <2>1, <2>4 DEF Reviewed, row
  <2> QED BY <2>2, <2>3, <2>5 DEF Unsettled
<1>4. \/ action' = [action EXCEPT ![a] = ExpireOne(action[a])]
      \/ /\ action[a].status = "proposed"
         /\ ~Due(a)
         /\ \E s \in {"approved", "rejected"} :
              action' = [action EXCEPT ![a] =
                  MkRow(s, action[a].id, u, action[a].ttl, action[a].count, action[a].result)]
  BY DEF Approve, Reject
<1> QED BY <1>2, <1>3, <1>4

\* poll_device hands a row out, or sweeps it.
LEMMA PollRows ==
    ASSUME NEW d \in Devices, PollDevice(d)
    PROVE  Unsettled
<1>1. action' = [a \in Actions |->
          IF Dispatchable(a, d)
          THEN MkRow("dispatched", action[a].id, action[a].reviewer, action[a].ttl,
                     action[a].count + 1, action[a].result)
          ELSE Swept({d})[a]]
  BY DEF PollDevice
<1>2. ASSUME NEW a \in Actions
      PROVE  Kept(a) \/ Lapsed(a) \/ Proposed(a) \/ Reviewed(a) \/ Handed(a)
  <2>1. CASE Dispatchable(a, d)
    BY <1>1, <2>1 DEF Dispatchable, Handed
  <2>2. CASE ~Dispatchable(a, d)
    BY <1>1, <2>2, SweptRow DEF Kept, Lapsed
  <2> QED BY <2>1, <2>2
<1> QED BY <1>1, <1>2 DEF Unsettled

\* submit_device_result stores the result before the deadline.
LEMMA SubmitRows ==
    ASSUME TypeOK, NEW d \in Devices, NEW a \in Actions, NEW r \in Results,
           SubmitResult(d, a, r)
    PROVE  RowsStep
<1> DEFINE row == IF Due(a) THEN ExpireOne(action[a])
                  ELSE MkRow(StatusOf(r), action[a].id, action[a].reviewer, action[a].ttl,
                             action[a].count, r)
<1>1. action' = [b \in Actions |-> IF b = a THEN row ELSE action[b]]
  BY DEF SubmitResult, TypeOK
<1>2. action[a].status = "dispatched"
  BY DEF SubmitResult, TakesResult
<1>3. action'[a] = row /\ \A b \in Actions : b # a => Kept(b)
  BY <1>1 DEF Kept
<1>4. Lapsed(a) \/ Settled(a)
  BY <1>2, <1>3 DEF Lapsed, Settled, ExpireOne, IsLive, Live
<1> QED BY <1>1, <1>3, <1>4 DEF RowsStep, RowStep

\* Only time and results touch rows in the other two ways.
LEMMA OtherRows ==
    ASSUME TypeOK,
           \/ \E u \in Users : Human(u)
           \/ ListActions
           \/ \E d \in Devices : PollDevice(d)
           \/ \E c \in Cases : CloseCase(c) \/ ReopenCase(c)
           \/ \E d \in Devices : RevokeDevice(d)
           \/ UNCHANGED vars
    PROVE  Unsettled
<1>1. ASSUME NEW u \in Users, Human(u) PROVE Unsettled
  BY <1>1, ProposeRows, ReviewRows DEF Human
<1>2. CASE ListActions
  <2>1. action' = Swept(Devices)
    BY <1>2 DEF ListActions
  <2>2. action' = [a \in Actions |-> action'[a]]
    BY <2>1 DEF Swept
  <2>3. \A a \in Actions : Kept(a) \/ Lapsed(a)
    BY <2>1, SweptRow DEF Kept, Lapsed
  <2> QED BY <2>2, <2>3 DEF Unsettled
<1>3. CASE UNCHANGED action
  BY <1>3 DEF Unsettled, Kept, TypeOK
<1> QED BY <1>1, <1>2, <1>3, PollRows DEF CloseCase, ReopenCase, RevokeDevice, vars

\* Every step of the specification touches rows in the seven ways only.
LEMMA NextRows ==
    ASSUME TypeOK, [Next]_vars
    PROVE  RowsStep
<1> USE DEF TypeOK
<1>1. CASE Unsettled
  BY <1>1 DEF Unsettled, RowsStep, RowStep
<1>2. ASSUME ~Tick, ~(\E d \in Devices, a \in Actions, r \in Results : SubmitResult(d, a, r))
      PROVE  Unsettled
  <2> HIDE DEF TypeOK
  <2> QED BY <1>2, OtherRows DEF Next
<1>3. CASE Tick
  <2>1. action' = [a \in Actions |->
          IF ~Due(a)
          THEN MkRow(action[a].status, action[a].id, action[a].reviewer, action[a].ttl - 1,
                     action[a].count, action[a].result)
          ELSE action[a]]
    BY <1>3 DEF Tick
  <2>2. \A a \in Actions : Kept(a) \/ Aged(a)
    BY <2>1 DEF Kept, Aged, Due
  <2> QED BY <2>1, <2>2 DEF RowsStep, RowStep
<1> QED BY <1>1, <1>2, <1>3, SubmitRows

\* Cases and devices stay what they are.
LEMMA NextWorld ==
    ASSUME TypeOK, [Next]_vars
    PROVE  open' \subseteq Cases /\ active' \subseteq Devices
<1>1. \/ UNCHANGED <<open, active>>
      \/ \E c \in Cases : CloseCase(c) \/ ReopenCase(c)
      \/ \E d \in Devices : RevokeDevice(d)
  BY DEF Next, Human, Propose, Approve, Reject, ListActions, PollDevice, SubmitResult, Tick,
         vars
<1> QED BY <1>1 DEF TypeOK, CloseCase, ReopenCase, RevokeDevice

----------------------------------------------------------------------------
(* Types *)

\* What TypeOK says of one row.
RowOK(row) ==
    /\ row \in Row
    /\ (row.status # "none") = (row.id # None)
    /\ row.count <= MaxDispatch
    /\ (row.status \in Answered) = (row.result # None)
    /\ row.status \in Answered \cup {"dispatched"} => row.count > 0
    /\ row.status \in {"proposed", "approved", "rejected"} => row.count = 0

\* Each of the seven ways keeps a row well formed.
LEMMA RowStepType ==
    ASSUME NEW a \in Actions, RowOK(action[a]), RowStep(a)
    PROVE  RowOK(action'[a])
<1> USE DEF RowOK, Row, MkRow, Statuses, Live, Answered
<1>1. CASE Kept(a)
  BY <1>1 DEF Kept
<1>2. CASE Aged(a)
  BY <1>2 DEF Aged
<1>3. CASE Lapsed(a)
  BY <1>3 DEF Lapsed, IsLive, WithStatus
<1>4. CASE Proposed(a)
  BY <1>4, NoneAssumption, ResponseAssumption DEF Proposed
<1>5. CASE Reviewed(a)
  BY <1>5 DEF Reviewed
<1>6. CASE Handed(a)
  BY <1>6, ResponseAssumption DEF Handed
<1>7. CASE Settled(a)
  BY <1>7, ResponseAssumption DEF Settled, StatusOf
<1> QED BY <1>1, <1>2, <1>3, <1>4, <1>5, <1>6, <1>7 DEF RowStep

\* TypeOK in terms of the rows.
LEMMA TypeByRow ==
    TypeOK <=> /\ action = [a \in Actions |-> action[a]]
               /\ \A a \in Actions : RowOK(action[a])
               /\ open \subseteq Cases
               /\ active \subseteq Devices
  BY DEF TypeOK, RowOK, Exists

\* The empty table is well formed.
LEMMA TypeInit == Init => TypeOK
  BY ResponseAssumption
     DEF Init, TypeOK, NoRow, MkRow, Row, Statuses, Live, Answered, Exists

\* Every operation keeps the table well formed.
LEMMA TypeStep == TypeOK /\ [Next]_vars => TypeOK'
<1> SUFFICES ASSUME TypeOK, [Next]_vars PROVE TypeOK'
  OBVIOUS
<1>1. RowsStep
  BY NextRows
<1>2. \A a \in Actions : RowOK(action'[a])
  BY <1>1, TypeByRow, RowStepType DEF RowsStep
<1>3. action' = [a \in Actions |-> action'[a]]
  BY <1>1 DEF RowsStep
<1>4. open' \subseteq Cases /\ active' \subseteq Devices
  BY NextWorld
<1> QED BY <1>2, <1>3, <1>4 DEF TypeOK, RowOK, Exists

\* The rows of response_actions are well formed: a row is answered exactly when
\* it has a result, and dispatch_count stays within max_dispatch_attempts.
THEOREM ResponseTypes == Spec => []TypeOK
<1>1. Init => TypeOK
  BY TypeInit
<1>2. TypeOK /\ [Next]_vars => TypeOK'
  BY TypeStep
<1> QED BY <1>1, <1>2, PTL DEF Spec

----------------------------------------------------------------------------
(* Independent approval *)

\* A row is reviewed by somebody else than its proposer before it is handed out.
LEMMA ApprovalStep ==
    TypeOK /\ IndependentApproval /\ [Next]_vars => IndependentApproval'
<1> SUFFICES ASSUME TypeOK, IndependentApproval, [Next]_vars, NEW a \in Actions,
                    action'[a].status \in {"approved", "rejected"} \/ action'[a].count > 0
             PROVE  action'[a].reviewer \in Users \ {action'[a].id.proposer}
  BY DEF IndependentApproval
<1> DEFINE row == action[a]
<1>1. RowStep(a) /\ row \in Row /\ RowOK(row)
  BY NextRows, TypeByRow DEF RowsStep, RowOK
<1>2. row.status \in {"approved", "rejected"} \/ row.count > 0
        => row.reviewer \in Users \ {row.id.proposer}
  BY DEF IndependentApproval
<1>3. row.status = "dispatched" => row.count > 0
  BY <1>1 DEF RowOK
<1> USE DEF MkRow
<1>4. CASE Kept(a)
  BY <1>2, <1>4 DEF Kept
<1>5. CASE Aged(a)
  BY <1>2, <1>5 DEF Aged
<1>6. CASE Lapsed(a)
  BY <1>2, <1>6 DEF Lapsed, WithStatus
<1>7. CASE Proposed(a)
  BY <1>7 DEF Proposed
<1>8. CASE Reviewed(a)
  BY <1>8 DEF Reviewed
<1>9. CASE Handed(a)
  BY <1>2, <1>3, <1>9 DEF Handed
<1>10. CASE Settled(a)
  BY <1>2, <1>3, <1>10 DEF Settled
<1> QED BY <1>1, <1>4, <1>5, <1>6, <1>7, <1>8, <1>9, <1>10 DEF RowStep

\* Whatever poll_device hands out was approved by a second human.
THEOREM ApprovalIsIndependent == Spec => []IndependentApproval
<1>1. Init => IndependentApproval
  BY DEF Init, IndependentApproval, NoRow, MkRow
<1>2. TypeOK /\ IndependentApproval /\ [Next]_vars => IndependentApproval'
  BY ApprovalStep
<1> QED BY <1>1, <1>2, ResponseTypes, PTL DEF Spec

----------------------------------------------------------------------------
(* One live action per device *)

\* A row that is live after a step was live before and keeps its target, unless
\* it is the row that was proposed.
LEMMA LiveStep ==
    ASSUME TypeOK, NEW a \in Actions, RowStep(a), action'[a].status \in Live, ~Proposed(a)
    PROVE  action[a].status \in Live /\ action'[a].id = action[a].id
<1> USE DEF MkRow, Live
<1>1. CASE Kept(a)
  BY <1>1 DEF Kept
<1>2. CASE Aged(a)
  BY <1>2 DEF Aged
<1>3. CASE Lapsed(a)
  BY <1>3 DEF Lapsed, WithStatus
<1>4. CASE Reviewed(a)
  BY <1>4 DEF Reviewed
<1>5. CASE Handed(a)
  BY <1>5 DEF Handed
<1>6. CASE Settled(a)
  BY <1>6 DEF Settled, StatusOf
<1> QED BY <1>1, <1>2, <1>3, <1>4, <1>5, <1>6 DEF RowStep

\* propose finds the slot of its device free, and the row it writes is the only
\* live one of the device.
LEMMA ProposeAlone ==
    ASSUME TypeOK, NEW u \in Users, NEW a \in Actions, NEW c \in Cases, NEW k \in Kinds,
           NEW d \in Devices, NEW t \in TTLs, Propose(u, a, c, k, d, t),
           NEW b \in Actions, b # a
    PROVE  /\ ~Proposed(b)
           /\ action'[a].id.target = d
           /\ action'[b].status \in Live => action'[b].id.target # d
<1> DEFINE id == [case |-> c, kind |-> k, target |-> d, proposer |-> u]
           new == MkRow("proposed", id, None, t, 0, None)
<1>1. action' = [x \in Actions |-> IF x = a THEN new ELSE Swept({d})[x]]
  BY DEF Propose, Swept
<1>2. action'[a] = new /\ action'[b] = Swept({d})[b]
  BY <1>1
<1>3. new.id.target = d
  BY DEF MkRow
<1>4. action'[b].status \in Live => action'[b].id.target # d
  BY <1>2 DEF Propose, SlotFree
<1>5. ~Exists(b) => action'[b] = action[b]
  BY <1>2, SweptRow DEF Exists, IsLive, Live
<1>6. ASSUME Proposed(b) PROVE FALSE
  <2>1. ~Exists(b) /\ action'[b] = action[b]
    BY <1>5, <1>6 DEF Proposed
  <2>2. action'[b].status = "proposed"
    BY <1>6 DEF Proposed, MkRow
  <2> QED BY <2>1, <2>2 DEF Exists
<1> QED BY <1>2, <1>3, <1>4, <1>6

\* Only propose makes a row.
LEMMA OnlyPropose ==
    ASSUME TypeOK, [Next]_vars, NEW a \in Actions, Proposed(a)
    PROVE  \E u \in Users, c \in Cases, k \in Kinds, d \in Devices, t \in TTLs :
              Propose(u, a, c, k, d, t)
<1>1. action[a].status = "none" /\ action'[a].status = "proposed"
  BY DEF Proposed, Exists, MkRow
<1>2. ASSUME NEW u \in Users, Human(u)
      PROVE  \E c \in Cases, k \in Kinds, d \in Devices, t \in TTLs : Propose(u, a, c, k, d, t)
  <2>1. ASSUME NEW b \in Actions, NEW c \in Cases, NEW k \in Kinds, NEW d \in Devices,
               NEW t \in TTLs, Propose(u, b, c, k, d, t)
        PROVE  b = a
    BY <2>1, ProposeAlone
  <2>2. ASSUME NEW b \in Actions, Approve(u, b) \/ Reject(u, b) PROVE FALSE
    BY <1>1, <2>2 DEF Approve, Reject, Independent, Exists, TypeOK, ExpireOne, MkRow, Live
  <2> QED BY <1>2, <2>1, <2>2 DEF Human
<1>3. CASE ListActions
  BY <1>1, <1>3, SweptRow DEF ListActions, IsLive, Live
<1>4. ASSUME NEW d \in Devices, PollDevice(d) PROVE FALSE
  BY <1>1, <1>4, SweptRow DEF PollDevice, Dispatchable, Exists, IsLive, Live
<1>5. ASSUME NEW d \in Devices, NEW b \in Actions, NEW r \in Results, SubmitResult(d, b, r)
      PROVE  FALSE
  BY <1>1, <1>5 DEF SubmitResult, TakesResult, Exists, TypeOK
<1>6. CASE Tick
  BY <1>1, <1>6 DEF Tick, MkRow
<1>7. CASE UNCHANGED action
  BY <1>1, <1>7
<1> QED BY <1>2, <1>3, <1>4, <1>5, <1>6, <1>7
        DEF Next, CloseCase, ReopenCase, RevokeDevice, vars

\* No operation gives a device a second live action.
LEMMA OneLiveStep == TypeOK /\ OneLiveAction /\ [Next]_vars => OneLiveAction'
<1> SUFFICES ASSUME TypeOK, OneLiveAction, [Next]_vars, NEW a \in Actions, NEW b \in Actions,
                    action'[a].status \in Live, action'[b].status \in Live,
                    action'[a].id.target = action'[b].id.target, a # b
             PROVE  FALSE
  BY DEF OneLiveAction, IsLive
<1>1. RowStep(a) /\ RowStep(b)
  BY NextRows DEF RowsStep
<1>2. CASE Proposed(a)
  <2>1. PICK u \in Users, c \in Cases, k \in Kinds, d \in Devices, t \in TTLs :
           Propose(u, a, c, k, d, t)
    BY <1>2, OnlyPropose
  <2> QED BY <2>1, ProposeAlone
<1>3. CASE Proposed(b)
  <2>1. PICK u \in Users, c \in Cases, k \in Kinds, d \in Devices, t \in TTLs :
           Propose(u, b, c, k, d, t)
    BY <1>3, OnlyPropose
  <2> QED BY <2>1, ProposeAlone
<1>4. CASE ~Proposed(a) /\ ~Proposed(b)
  BY <1>1, <1>4, LiveStep DEF OneLiveAction, IsLive
<1> QED BY <1>2, <1>3, <1>4

\* A device has at most one live action, whatever the order of the operations.
THEOREM LiveActionUnique == Spec => []OneLiveAction
<1>1. Init => OneLiveAction
  BY DEF Init, OneLiveAction, IsLive, Live, NoRow, MkRow
<1>2. TypeOK /\ OneLiveAction /\ [Next]_vars => OneLiveAction'
  BY OneLiveStep
<1> QED BY <1>1, <1>2, ResponseTypes, PTL DEF Spec

----------------------------------------------------------------------------
(* The triggers *)

\* A row that exists changes only as the triggers of the table allow.
LEMMA TriggerRow ==
    ASSUME TypeOK, NEW a \in Actions, RowStep(a), Exists(a),
           Columns(action'[a]) # Columns(action[a])
    PROVE  /\ action[a].status \in Live
           /\ action'[a].id = action[a].id
           /\ \/ action'[a].status = action[a].status
              \/ <<action[a].status, action'[a].status>> \in TriggerTransitions
           /\ action'[a].status \notin {action[a].status, "expired"} => ~Due(a)
<1> USE DEF MkRow, Live, TriggerTransitions
<1>1. CASE Kept(a)
  BY <1>1 DEF Kept
<1>2. CASE Aged(a)
  BY <1>2 DEF Aged, Columns
<1>3. CASE Lapsed(a)
  BY <1>3 DEF Lapsed, WithStatus, IsLive
<1>4. CASE Proposed(a)
  BY <1>4 DEF Proposed
<1>5. CASE Reviewed(a)
  BY <1>5 DEF Reviewed
<1>6. CASE Handed(a)
  BY <1>6 DEF Handed
<1>7. CASE Settled(a)
  BY <1>7 DEF Settled, StatusOf
<1> QED BY <1>1, <1>2, <1>3, <1>4, <1>5, <1>6, <1>7 DEF RowStep

\* No transaction of the service is aborted by a trigger of response_actions.
THEOREM TriggersNeverFire == Spec => TriggersSilent
<1> DEFINE Allowed ==
        \A a \in Actions :
            Exists(a) /\ Columns(action'[a]) # Columns(action[a]) =>
                LET old == action[a].status
                    new == action'[a].status
                IN  /\ old \in Live
                    /\ action'[a].id = action[a].id
                    /\ new = old \/ <<old, new>> \in TriggerTransitions
                    /\ new \notin {old, "expired"} => ~Due(a)
<1>1. TypeOK /\ [Next]_vars => [Allowed]_vars
  BY NextRows, TriggerRow DEF RowsStep
<1> HIDE DEF Allowed
<1>2. Spec => [][Allowed]_vars
  BY <1>1, ResponseTypes, PTL DEF Spec
<1> QED BY <1>2 DEF Allowed, TriggersSilent
----------------------------------------------------------------------------
(* What a device may rely on *)

\* An action that was never proposed was never handed out.
Unissued == \A a \in Actions : ~Exists(a) => action[a].count = 0

\* What holds of the table, for the modules that compose it.
Table == TypeOK /\ IndependentApproval /\ OneLiveAction /\ Unissued

\* The empty table.
LEMMA TableInit == Init => Table
  BY TypeInit
     DEF Init, Table, IndependentApproval, OneLiveAction, IsLive, Live, Unissued, NoRow, MkRow

\* Every step keeps it.
LEMMA TableStep == ASSUME Table, [Next]_vars PROVE Table'
<1>1. TypeOK' /\ IndependentApproval' /\ OneLiveAction'
  BY TypeStep, ApprovalStep, OneLiveStep DEF Table
<1>2. ASSUME NEW a \in Actions, action'[a].status = "none" PROVE action'[a].count = 0
  <2>1. RowStep(a)
    BY NextRows DEF Table, RowsStep
  <2>2. CASE Kept(a)
    BY <1>2, <2>2 DEF Kept, Table, Unissued, Exists
  <2>3. CASE Aged(a)
    <3>1. action[a].status = "none" /\ action'[a].count = action[a].count
      BY <1>2, <2>3 DEF Aged, MkRow
    <3> QED BY <3>1 DEF Table, Unissued, Exists
  <2>4. CASE Lapsed(a) \/ Proposed(a) \/ Reviewed(a) \/ Handed(a)
    <3>1. CASE Lapsed(a) BY <1>2, <3>1 DEF Lapsed, WithStatus, MkRow
    <3>2. CASE Proposed(a) BY <1>2, <3>2 DEF Proposed, MkRow
    <3>3. CASE Reviewed(a) BY <1>2, <3>3 DEF Reviewed, MkRow
    <3>4. CASE Handed(a) BY <1>2, <3>4 DEF Handed, MkRow
    <3> QED BY <2>4, <3>1, <3>2, <3>3, <3>4
  <2>5. CASE Settled(a)
    BY <1>2, <2>5 DEF Settled, StatusOf, MkRow
  <2> QED BY <2>1, <2>2, <2>3, <2>4, <2>5 DEF RowStep
<1> QED BY <1>1, <1>2 DEF Table, Unissued, Exists

\* Once handed out, an action keeps its identity, its reviewer and its mark,
\* and it never becomes dispatched again.
LEMMA HandedOutStays ==
    ASSUME Table, [Next]_vars, NEW a \in Actions, action[a].count > 0
    PROVE  /\ action'[a].count > 0
           /\ action'[a].id = action[a].id
           /\ action'[a].reviewer = action[a].reviewer
           /\ action'[a].status = "dispatched" => action[a].status = "dispatched"
<1>1. RowStep(a)
  BY NextRows DEF Table, RowsStep
<1>2. /\ action[a].count \in Nat /\ action[a].count # 0
      /\ action[a].status \notin {"none", "proposed", "approved"}
  BY DEF Table, TypeOK, Unissued, Exists, Row
<1>3. CASE Kept(a)
  BY <1>3 DEF Kept
<1>4. CASE Aged(a)
  BY <1>4 DEF Aged, MkRow
<1>5. CASE Lapsed(a)
  BY <1>5 DEF Lapsed, WithStatus, MkRow
<1>6. CASE Proposed(a) \/ Reviewed(a)
  BY <1>2, <1>6 DEF Proposed, Reviewed, Exists
<1>7. CASE Handed(a)
  <2>1. /\ action'[a].count = action[a].count + 1
        /\ action'[a].id = action[a].id /\ action'[a].reviewer = action[a].reviewer
        /\ action[a].status = "dispatched"
    BY <1>2, <1>7 DEF Handed, MkRow
  <2>2. action[a].count + 1 > 0
    BY <1>2
  <2> QED BY <2>1, <2>2
<1>8. CASE Settled(a)
  BY <1>8 DEF Settled, MkRow, StatusOf
<1> QED BY <1>1, <1>3, <1>4, <1>5, <1>6, <1>7, <1>8 DEF RowStep

\* Steps other than time and results leave its deadline and a success alone.
LEMMA UnsettledRow ==
    ASSUME Table, Unsettled, NEW a \in Actions, action[a].count > 0
    PROVE  /\ action'[a].ttl = action[a].ttl
           /\ action'[a].status = "succeeded" => action[a].status = "succeeded"
<1>1. Kept(a) \/ Lapsed(a) \/ Proposed(a) \/ Reviewed(a) \/ Handed(a)
  BY DEF Unsettled
<1>2. action[a].status \notin {"none", "proposed"}
  BY DEF Table, TypeOK, Unissued, Exists, Row
<1>3. CASE Kept(a)
  BY <1>3 DEF Kept
<1>4. CASE Lapsed(a)
  BY <1>4 DEF Lapsed, WithStatus, MkRow
<1>5. CASE Proposed(a) \/ Reviewed(a)
  BY <1>2, <1>5 DEF Proposed, Reviewed, Exists
<1>6. CASE Handed(a)
  BY <1>6 DEF Handed, MkRow
<1> QED BY <1>1, <1>3, <1>4, <1>5, <1>6

\* submit_device_result changes one dispatched row; only a result that counts
\* as a success makes it succeeded.
LEMMA SettledRow ==
    ASSUME Table, NEW d \in Devices, NEW a \in Actions, NEW r \in Results,
           SubmitResult(d, a, r), NEW b \in Actions
    PROVE  /\ action'[b].ttl = action[b].ttl
           /\ b # a => action'[b] = action[b]
           /\ action[a].status = "dispatched"
           /\ action'[a].status = "succeeded" => r \in Succeeded
<1> DEFINE row == IF Due(a) THEN ExpireOne(action[a])
                  ELSE MkRow(StatusOf(r), action[a].id, action[a].reviewer, action[a].ttl,
                             action[a].count, r)
<1>1. action' = [c \in Actions |-> IF c = a THEN row ELSE action[c]]
  BY DEF SubmitResult, Table, TypeOK
<1>2. action[a].status = "dispatched"
  BY DEF SubmitResult, TakesResult
<1>3. row.ttl = action[a].ttl /\ (row.status = "succeeded" => r \in Succeeded)
  BY <1>2 DEF ExpireOne, WithStatus, MkRow, StatusOf
<1> HIDE DEF row
<1>4. action'[a] = row /\ (b # a => action'[b] = action[b])
  BY <1>1
<1> QED BY <1>2, <1>3, <1>4

\* Time shortens every deadline by one and changes nothing else.
LEMMA TickRow ==
    ASSUME Table, Tick, NEW a \in Actions
    PROVE  /\ action'[a].ttl = IF action[a].ttl > 0 THEN action[a].ttl - 1 ELSE 0
           /\ action'[a].status = action[a].status
<1>1. action[a].ttl \in Nat
  BY DEF Table, TypeOK, Row
<1>2. CASE Due(a)
  <2>1. action'[a] = action[a] BY <1>2 DEF Tick
  <2> QED BY <1>1, <1>2, <2>1 DEF Due
<1>3. CASE ~Due(a)
  <2>1. action'[a] = MkRow(action[a].status, action[a].id, action[a].reviewer,
                           action[a].ttl - 1, action[a].count, action[a].result)
    BY <1>3 DEF Tick
  <2>2. action'[a].ttl = action[a].ttl - 1 /\ action'[a].status = action[a].status
    BY <2>1 DEF MkRow
  <2>3. action[a].ttl > 0
    BY <1>1, <1>3 DEF Due
  <2> QED BY <2>2, <2>3
<1> QED BY <1>2, <1>3
=============================================================================
