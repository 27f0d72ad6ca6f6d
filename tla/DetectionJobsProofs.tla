------------------------- MODULE DetectionJobsProofs -------------------------
(***************************************************************************)
(* Proofs about the detection pipeline for any number of events, alerts    *)
(* and workers, and for any lease, delay and attempt limit.                *)
(***************************************************************************)
EXTENDS DetectionJobs, TLAPS

USE DEF Priorities, JobStatuses, Terminal, Live, JobRecord, NoJob, PendingJob, Pcs,
        Unleased, Leased, WorkerAt, WorkerRecord, IdleWorker, CaseStatuses, CaseRecord, NoCase, caseVars

\* The initial state is well typed.
LEMMA InitType == Init => TypeOK
BY MarkerAssumption DEF Init, TypeOK

\* RetryDelay is a number of ticks.
LEMMA RetryDelayInt == \A n \in Nat : n > 0 => RetryDelay(n) \in Int
<1> SUFFICES ASSUME NEW n \in Nat, n > 0 PROVE RetryDelay(n) \in Int
  OBVIOUS
<1> DEFINE k == IF n - 1 <= 10 THEN n - 1 ELSE 10
<1>1. k \in Nat
  OBVIOUS
<1>2. \A m \in Nat : 2^m \in Int
  OBVIOUS
<1>3. Delay * 2^k \in Int
  BY <1>1, <1>2, BoundAssumption
<1> QED
  BY <1>3, BoundAssumption DEF RetryDelay

\* Ingestion adds a waiting job beside each fresh event row.
LEMMA IngestType ==
    ASSUME TypeOK, NEW batch \in SUBSET (Events \X Payloads), IngestEvents(batch)
    PROVE  TypeOK'
<1> DEFINE fresh == {e \in Events : event[e] = NoPayload /\ \E p \in Payloads : <<e, p>> \in batch}
<1>1. /\ event' = [e \in Events |->
            IF e \in fresh THEN CHOOSE p \in Payloads : <<e, p>> \in batch ELSE event[e]]
      /\ job' = [e \in Events |-> IF e \in fresh THEN PendingJob ELSE job[e]]
      /\ reclaims' = [e \in Events |-> IF e \in fresh THEN 0 ELSE reclaims[e]]
      /\ UNCHANGED <<alerts, cases, links, worker, lost, slow>>
  BY DEF IngestEvents
<1>2. \A e \in fresh : (CHOOSE p \in Payloads : <<e, p>> \in batch) \in Payloads
  OBVIOUS
<1>3. PendingJob \in JobRecord /\ PendingJob.owner = NoWorker /\ PendingJob.status = "pending"
  OBVIOUS
<1> HIDE DEF fresh
<1>4. event' \in [Events -> Payloads \cup {NoPayload}]
  BY <1>1, <1>2 DEF TypeOK
<1>5. job' \in [Events -> JobRecord]
  BY <1>1, <1>3 DEF TypeOK
<1>6. reclaims' \in [Events -> Nat]
  BY <1>1 DEF TypeOK
<1>7. ASSUME NEW e \in Events
      PROVE  /\ (job'[e].owner # NoWorker) = (job'[e].status = "leased")
             /\ job'[e].status = "leased" => job'[e].attempts > 0
             /\ job'[e].status # "none" => event'[e] # NoPayload
  <2>1. CASE e \in fresh
    BY <1>1, <1>2, <1>3, <2>1, MarkerAssumption
  <2>2. CASE e \notin fresh
    BY <1>1, <2>2 DEF TypeOK
  <2> QED BY <2>1, <2>2
<1> QED
  BY <1>1, <1>4, <1>5, <1>6, <1>7 DEF TypeOK

\* A worker that only moves its program counter stays well typed.
LEMMA PcType ==
    ASSUME TypeOK, NEW w \in Workers, NEW p \in Pcs
    PROVE  [worker EXCEPT ![w].pc = p] \in [Workers -> WorkerRecord]
<1>1. worker \in [Workers -> WorkerRecord]
  BY DEF TypeOK
<1> QED BY ONLY <1>1, w \in Workers, p \in Pcs DEF WorkerRecord

\* Reading the clock changes only the worker's program counter.
LEMMA StartType == ASSUME TypeOK, NEW w \in Workers, StartCycle(w) PROVE TypeOK'
<1>1. worker' = [worker EXCEPT ![w].pc = "leasing"] /\ "leasing" \in Pcs
  BY DEF StartCycle
<1>2. worker' \in [Workers -> WorkerRecord]
  BY <1>1, PcType
<1>3. UNCHANGED <<event, job, alerts, cases, links, reclaims, lost, slow>>
  BY DEF StartCycle
<1> QED BY ONLY TypeOK, <1>2, <1>3 DEF TypeOK

\* Leasing gives each selected row an owner and one more attempt.
LEMMA LeaseType == ASSUME TypeOK, NEW w \in Workers, LeaseJobs(w) PROVE TypeOK'
<1> DEFINE batch == FirstOf(Ready(worker[w].age))
           leased(e) == Leased(job[e].attempts + 1, w, Clip(Lease - worker[w].age))
<1>1. /\ job' = [e \in Events |-> IF e \in batch THEN leased(e) ELSE job[e]]
      /\ reclaims' = [e \in Events |->
            IF e \in batch /\ job[e].status = "leased" THEN reclaims[e] + 1 ELSE reclaims[e]]
      /\ worker' = [worker EXCEPT ![w] =
            IF batch = {} THEN IdleWorker
            ELSE WorkerAt("working", worker[w].age, batch, NoPayload, {})]
      /\ UNCHANGED <<event, alerts, cases, links, lost, slow>>
  BY DEF LeaseJobs
<1>2. batch \subseteq Events /\ \A e \in batch : job[e].status # "none"
  BY DEF FirstOf, Ready
<1>3. Clip(Lease - worker[w].age) \in Int
  BY BoundAssumption DEF TypeOK, Clip
<1>4. \A e \in Events : leased(e) \in JobRecord /\ leased(e).owner = w /\ leased(e).status = "leased"
        /\ leased(e).attempts > 0
  BY <1>3 DEF TypeOK
<1>5. WorkerAt("working", worker[w].age, batch, NoPayload, {}) \in WorkerRecord
  BY <1>2 DEF TypeOK
<1> HIDE DEF batch, leased
<1>6. job' \in [Events -> JobRecord] /\ reclaims' \in [Events -> Nat]
  BY <1>1, <1>4 DEF TypeOK
<1>7. worker' \in [Workers -> WorkerRecord]
  BY <1>1, <1>5 DEF TypeOK
<1>8. ASSUME NEW e \in Events
      PROVE  /\ (job'[e].owner # NoWorker) = (job'[e].status = "leased")
             /\ job'[e].status = "leased" => job'[e].attempts > 0
             /\ job'[e].status # "none" => event'[e] # NoPayload
  BY <1>1, <1>2, <1>4, MarkerAssumption DEF TypeOK
<1> QED
  BY <1>1, <1>6, <1>7, <1>8 DEF TypeOK

\* An evaluation leaves only local values in the worker.
LEMMA EvaluateType == ASSUME TypeOK, NEW w \in Workers, Evaluate(w) PROVE TypeOK'
<1>1. PICK e \in Events : \E D \in SUBSET AlertsOf(e) :
        worker' = [worker EXCEPT ![w] =
            WorkerAt("deciding", worker[w].age, worker[w].todo, event[e], D)]
  BY DEF Evaluate
<1>2. UNCHANGED <<event, job, alerts, cases, links, reclaims, lost, slow>>
  BY DEF Evaluate
<1>3. worker' \in [Workers -> WorkerRecord]
  BY <1>1 DEF TypeOK, AlertsOf
<1> QED
  BY <1>2, <1>3 DEF TypeOK

\* An exception changes only the worker's program counter.
LEMMA RaiseType == ASSUME TypeOK, NEW w \in Workers, Raise(w) PROVE TypeOK'
<1>1. worker' = [worker EXCEPT ![w].pc = "failing"] /\ "failing" \in Pcs
  BY DEF Raise
<1>2. worker' \in [Workers -> WorkerRecord]
  BY <1>1, PcType
<1>3. UNCHANGED <<event, job, alerts, cases, links, reclaims, lost, slow>>
  BY DEF Raise
<1> QED BY ONLY TypeOK, <1>2, <1>3 DEF TypeOK

\* A row that leaves its lease has no owner.
LEMMA ClosedType ==
    ASSUME TypeOK, NEW e \in Events, NEW s \in {"succeeded", "dead", "retry"}, NEW d \in Int
    PROVE  /\ Closed(e, s, d) \in [Events -> JobRecord]
           /\ \A f \in Events : f # e => Closed(e, s, d)[f] = job[f]
           /\ Closed(e, s, d)[e] = Unleased(s, job[e].attempts, d)
BY DEF TypeOK, Closed

\* Going on to the next lease keeps the worker well typed.
LEMMA NextLeaseType ==
    ASSUME TypeOK, NEW w \in Workers, NEW e \in Events, NextLease(w, e)
    PROVE  worker' \in [Workers -> WorkerRecord]
BY DEF TypeOK, NextLease

\* A step that rewrites one row with Closed keeps the row constraints.
LEMMA ClosedRows ==
    ASSUME TypeOK, NEW e \in Events, NEW s \in {"succeeded", "dead", "retry"}, NEW d \in Int,
           job' = Closed(e, s, d), job[e].status # "none", event' = event
    PROVE  /\ job' \in [Events -> JobRecord]
           /\ \A f \in Events : (job'[f].owner # NoWorker) = (job'[f].status = "leased")
           /\ \A f \in Events : job'[f].status = "leased" => job'[f].attempts > 0
           /\ \A f \in Events : job'[f].status # "none" => event'[f] # NoPayload
<1>1. /\ job' \in [Events -> JobRecord]
      /\ \A f \in Events : f # e => job'[f] = job[f]
      /\ job'[e] = Unleased(s, job[e].attempts, d)
  <2>1. /\ Closed(e, s, d) \in [Events -> JobRecord]
        /\ \A f \in Events : f # e => Closed(e, s, d)[f] = job[f]
        /\ Closed(e, s, d)[e] = Unleased(s, job[e].attempts, d)
    BY ClosedType
  <2> QED
    BY ONLY <2>1, job' = Closed(e, s, d), Zenon
<1>2. ASSUME NEW f \in Events
      PROVE  /\ (job'[f].owner # NoWorker) = (job'[f].status = "leased")
             /\ job'[f].status = "leased" => job'[f].attempts > 0
             /\ job'[f].status # "none" => event'[f] # NoPayload
  <2>1. CASE f = e
    BY <1>1, <2>1 DEF TypeOK
  <2>2. CASE f # e
    BY <1>1, <2>2 DEF TypeOK
  <2> QED BY <2>1, <2>2
<1> QED
  BY <1>1, <1>2

\* fail_job leaves a row without an owner, or does not touch it.
LEMMA FailType == ASSUME TypeOK, NEW w \in Workers, FailJob(w) PROVE TypeOK'
<1>1. PICK e \in Events :
        /\ job' = IF ~OwnsRow(w, e) THEN job
                  ELSE IF job[e].attempts >= MaxAttempts THEN Closed(e, "dead", 0)
                  ELSE Closed(e, "retry", Clip(RetryDelay(job[e].attempts) - worker[w].age))
        /\ NextLease(w, e)
  BY DEF FailJob
<1>2. UNCHANGED <<event, alerts, cases, links, reclaims, lost, slow>>
  BY DEF FailJob
<1>3. worker' \in [Workers -> WorkerRecord]
  BY <1>1, NextLeaseType
<1>4. /\ job' \in [Events -> JobRecord]
      /\ \A f \in Events : (job'[f].owner # NoWorker) = (job'[f].status = "leased")
      /\ \A f \in Events : job'[f].status = "leased" => job'[f].attempts > 0
      /\ \A f \in Events : job'[f].status # "none" => event'[f] # NoPayload
  <2>1. CASE ~OwnsRow(w, e)
    BY <1>1, <1>2, <2>1 DEF TypeOK
  <2>2. CASE OwnsRow(w, e) /\ job[e].attempts >= MaxAttempts
    BY <1>1, <1>2, <2>2, ClosedRows DEF OwnsRow
  <2>3. CASE OwnsRow(w, e) /\ ~(job[e].attempts >= MaxAttempts)
    <3> DEFINE d == Clip(RetryDelay(job[e].attempts) - worker[w].age)
    <3>1. d \in Int
      BY <2>3, RetryDelayInt, BoundAssumption DEF TypeOK, Clip, OwnsRow
    <3>2. job' = Closed(e, "retry", d) /\ job[e].status # "none"
      BY <1>1, <2>3 DEF OwnsRow
    <3> QED
      BY <1>2, <3>1, <3>2, ClosedRows
  <2> QED
    BY <2>1, <2>2, <2>3
<1> QED
  BY <1>2, <1>3, <1>4 DEF TypeOK

\* A lost cycle resets the worker and leaves the rows alone.
LEMMA LoseType == ASSUME TypeOK, NEW w \in Workers, LoseCycle(w) PROVE TypeOK'
BY DEF TypeOK, LoseCycle

\* Retention removes an event row only together with its job row, or after it.
LEMMA RetentionType ==
    ASSUME TypeOK, NEW J \in SUBSET Events, NEW E \in SUBSET Events, ApplyRetention(J, E)
    PROVE  TypeOK'
BY MarkerAssumption DEF TypeOK, ApplyRetention, Unreferenced

\* Time moves due times, expiries and ages, and nothing else.
LEMMA TickType == ASSUME TypeOK, Elapse, slow' \in Nat PROVE TypeOK'
<1>1. \A t \in Int : Earlier(t) \in Int
  BY BoundAssumption DEF Earlier
<1>2. ASSUME NEW e \in Events
      PROVE  /\ job'[e] \in JobRecord
             /\ job'[e].owner = job[e].owner
             /\ job'[e].attempts = job[e].attempts
             /\ job'[e].status = job[e].status
  <2>1. CASE job[e].status \in {"pending", "retry"}
    BY <1>1, <2>1 DEF TypeOK, Elapse
  <2>2. CASE job[e].status = "leased"
    BY <1>1, <2>2 DEF TypeOK, Elapse
  <2>3. CASE job[e].status \notin {"pending", "retry", "leased"}
    BY <2>3 DEF TypeOK, Elapse
  <2> QED
    BY <2>1, <2>2, <2>3
<1>3. job' = [e \in Events |-> job'[e]]
  BY DEF Elapse
<1>4. job' \in [Events -> JobRecord]
  BY <1>2, <1>3
<1>5. worker' \in [Workers -> WorkerRecord]
  <2>1. ASSUME NEW w \in Workers PROVE worker'[w] \in WorkerRecord
    BY DEF TypeOK, Elapse
  <2>2. worker' = [w \in Workers |-> worker'[w]]
    BY DEF Elapse
  <2> QED
    BY <2>1, <2>2
<1>6. UNCHANGED <<event, alerts, cases, links, reclaims, lost>>
  BY DEF Elapse
<1> QED
  BY <1>2, <1>4, <1>5, <1>6 DEF TypeOK

\* The cases table keeps its type when the alerts N are inserted.
LEMMA CasesAfterType ==
    ASSUME NEW cs \in [Alerts -> CaseRecord], NEW N \in SUBSET Alerts
    PROVE  CasesAfter(cs, N) \in [Alerts -> CaseRecord]
<1> SUFFICES ASSUME NEW c \in Alerts PROVE CasesAfter(cs, N)[c] \in CaseRecord
  BY DEF CasesAfter
<1>1. CASE c \in N /\ ActiveFor(cs, KeyOf[c]) = {}
  BY <1>1, PriorityAssumption DEF CasesAfter, NewCase
<1>2. CASE ~(c \in N /\ ActiveFor(cs, KeyOf[c]) = {}) /\ \E a \in N : c \in ActiveFor(cs, KeyOf[a])
  <2> DEFINE a == CHOOSE a \in N : c \in ActiveFor(cs, KeyOf[a])
  <2>1. a \in Alerts
    BY <1>2
  <2>2. CasesAfter(cs, N)[c] = [cs[c] EXCEPT !.priority = HigherPriority(cs[c].priority, PriorityOf[a])]
    BY <1>2 DEF CasesAfter
  <2>3. HigherPriority(cs[c].priority, PriorityOf[a]) \in Priorities
    BY <2>1, PriorityAssumption DEF HigherPriority
  <2> QED
    BY <2>2, <2>3
<1>3. CASE ~(c \in N /\ ActiveFor(cs, KeyOf[c]) = {}) /\ ~\E a \in N : c \in ActiveFor(cs, KeyOf[a])
  BY <1>3 DEF CasesAfter
<1> QED
  BY <1>1, <1>2, <1>3

\* A commit keeps the types of all four tables it writes.
LEMMA PersistType == ASSUME TypeOK, NEW w \in Workers, PersistAlerts(w) PROVE TypeOK'
<1>1. PICK e \in Events :
        \/ /\ HoldsLease(w, e)
           /\ LET N == worker[w].decision \ alerts
              IN  /\ alerts' = alerts \cup N
                  /\ cases' = CasesAfter(cases, N)
                  /\ links' = LinksAfter(cases, links, N)
           /\ job' = Closed(e, "succeeded", 0)
           /\ NextLease(w, e)
        \/ /\ worker' = [worker EXCEPT ![w].pc = "failing"]
           /\ UNCHANGED <<job, alerts, cases, links>>
  BY DEF PersistAlerts
<1>2. UNCHANGED <<event, reclaims, lost, slow>>
  BY DEF PersistAlerts
<1>3. CASE HoldsLease(w, e) /\ job' = Closed(e, "succeeded", 0) /\ NextLease(w, e)
           /\ \E N \in SUBSET Alerts :
                /\ alerts' = alerts \cup N
                /\ cases' = CasesAfter(cases, N)
                /\ links' = LinksAfter(cases, links, N)
  <2>1. worker' \in [Workers -> WorkerRecord]
    BY <1>3, NextLeaseType
  <2>2. job[e].status # "none"
    BY <1>3 DEF HoldsLease, OwnsRow
  <2>3. /\ job' \in [Events -> JobRecord]
        /\ \A f \in Events : (job'[f].owner # NoWorker) = (job'[f].status = "leased")
        /\ \A f \in Events : job'[f].status = "leased" => job'[f].attempts > 0
        /\ \A f \in Events : job'[f].status # "none" => event'[f] # NoPayload
    BY <1>2, <1>3, <2>2, ClosedRows
  <2>4. alerts' \subseteq Alerts /\ links' \subseteq Alerts \X Alerts
    BY <1>3 DEF TypeOK, LinksAfter
  <2>5. cases' \in [Alerts -> CaseRecord]
    BY <1>3, CasesAfterType DEF TypeOK
  <2> QED
    BY <1>2, <2>1, <2>3, <2>4, <2>5 DEF TypeOK
<1>4. CASE /\ worker' = [worker EXCEPT ![w].pc = "failing"]
           /\ UNCHANGED <<job, alerts, cases, links>>
  <2>1. worker' \in [Workers -> WorkerRecord]
    BY <1>4, PcType, Zenon
  <2> QED
    BY <1>2, <1>4, <2>1 DEF TypeOK
<1>5. worker[w].decision \ alerts \in SUBSET Alerts
  BY DEF TypeOK
<1> QED
  BY <1>1, <1>3, <1>4, <1>5

\* A case transition keeps the cases table well typed.
LEMMA TransitionType ==
    ASSUME TypeOK, NEW c \in Alerts, NEW s \in CaseStatuses, CaseTransition(c, s) PROVE TypeOK'
<1>1. UNCHANGED <<event, job, alerts, links, worker, reclaims, lost, slow>>
  BY DEF CaseTransition
<1>2. cases' \in [Alerts -> CaseRecord]
  BY DEF TypeOK, CaseTransition, Transitioned
<1> QED
  BY <1>1, <1>2 DEF TypeOK

\* A disposition keeps the cases table well typed.
LEMMA DispositionType ==
    ASSUME TypeOK, NEW c \in Alerts, RecordDisposition(c) PROVE TypeOK'
<1>1. UNCHANGED <<event, job, alerts, links, worker, reclaims, lost, slow>>
  BY DEF RecordDisposition
<1>2. cases' \in [Alerts -> CaseRecord]
  <2>1. cases \in [Alerts -> CaseRecord] BY DEF TypeOK
  <2>2. cases' = [cases EXCEPT ![c].disposed = TRUE] BY DEF RecordDisposition
  <2> QED BY ONLY <2>1, <2>2 DEF CaseRecord
<1> QED
  BY <1>1, <1>2 DEF TypeOK

\* Every step keeps the types and the row constraints.
LEMMA NextType == TypeOK /\ [Next]_vars => TypeOK'
<1> SUFFICES ASSUME TypeOK, [Next]_vars PROVE TypeOK'
  OBVIOUS
<1>1. CASE \E batch \in SUBSET (Events \X Payloads) : IngestEvents(batch)
  BY <1>1, IngestType
<1>2. ASSUME NEW w \in Workers, WorkerStep(w) PROVE TypeOK'
  BY <1>2, StartType, LeaseType, EvaluateType, RaiseType, PersistType, FailType DEF WorkerStep
<1>3. CASE \E w \in Workers : LoseCycle(w)
  BY <1>3, LoseType
<1>4. CASE \E J, E \in SUBSET Events : ApplyRetention(J, E)
  BY <1>4, RetentionType
<1>5. CASE \E c \in Alerts, s \in CaseStatuses : CaseTransition(c, s)
  BY <1>5, TransitionType
<1>6. CASE \E c \in Alerts : RecordDisposition(c)
  BY <1>6, DispositionType
<1>7. CASE Tick \/ SlowTick
  <2>1. Elapse /\ slow' \in Nat
    BY <1>7 DEF Tick, SlowTick, TypeOK
  <2> QED
    BY <2>1, TickType
<1>8. CASE UNCHANGED vars
  BY <1>8 DEF TypeOK, vars
<1> QED
  BY <1>1, <1>2, <1>3, <1>4, <1>5, <1>6, <1>7, <1>8 DEF Next

\* The pipeline's variables keep their types, a row has an owner exactly while
\* it is leased, and no job row outlives its event row.
THEOREM TypeCorrect == Spec => []TypeOK
BY InitType, NextType, PTL DEF Spec

----------------------------------------------------------------------------
(***************************************************************************)
(* The inductive invariant.  AlertsSettled needs to know that a decision   *)
(* speaks only about the event it was made for; PriorityCovers needs to    *)
(* know that a case is never founded twice; AttemptsBounded needs to know  *)
(* that a row waiting for a lease has an attempt left.                     *)
(***************************************************************************)
DecisionScope ==
    \A w \in Workers, e \in Events :
        worker[w].pc = "deciding" /\ IsCurrent(w, e) => worker[w].decision \subseteq AlertsOf(e)

CaseFounded == \A c \in Alerts : cases[c].status # "none" => c \in alerts

AttemptLeft ==
    \A e \in Events :
        IF job[e].status \in {"pending", "retry"}
        THEN job[e].attempts < MaxAttempts + reclaims[e]
        ELSE job[e].attempts <= MaxAttempts + reclaims[e]

CaseInv == OneActiveCase /\ LinkedOnce /\ PriorityCovers /\ CaseFounded

Inv == TypeOK /\ DecisionScope /\ AlertsSettled /\ CaseInv /\ AttemptLeft

\* The inductive invariant holds of the empty database.
LEMMA InitInv == Init => Inv
<1> SUFFICES ASSUME Init PROVE Inv
  OBVIOUS
<1>1. TypeOK
  BY InitType
<1>2. DecisionScope
  BY DEF Init, DecisionScope
<1>3. AlertsSettled
  BY DEF Init, AlertsSettled
<1>4. CaseInv
  BY DEF Init, CaseInv, OneActiveCase, LinkedOnce, PriorityCovers, CaseFounded, IsActive
<1>5. AttemptLeft
  BY BoundAssumption DEF Init, AttemptLeft
<1> QED
  BY <1>1, <1>2, <1>3, <1>4, <1>5 DEF Inv

----------------------------------------------------------------------------
(* What each action leaves alone. *)

\* A row whose status is neither waiting nor leased is not selected.
LEMMA ReadyRows ==
    ASSUME NEW age, NEW e \in FirstOf(Ready(age))
    PROVE  e \in Events /\ job[e].status \in Live
BY DEF FirstOf, Ready

\* The worker's current event is unique, because ranks differ.
LEMMA CurrentUnique ==
    ASSUME NEW w \in Workers, NEW e \in Events, NEW f \in Events, IsCurrent(w, e), IsCurrent(w, f)
    PROVE  e = f
<1>1. Rank[e] <= Rank[f] /\ Rank[f] <= Rank[e]
  BY DEF IsCurrent
<1> QED
  BY <1>1, EventAssumption

\* Elapsing time changes no status, owner or attempt count.
LEMMA ElapseRows ==
    ASSUME TypeOK, Elapse, NEW e \in Events
    PROVE  /\ job'[e].status = job[e].status
           /\ job'[e].owner = job[e].owner
           /\ job'[e].attempts = job[e].attempts
<1>1. CASE job[e].status \in {"pending", "retry"}
  BY <1>1 DEF TypeOK, Elapse
<1>2. CASE job[e].status = "leased"
  BY <1>2 DEF TypeOK, Elapse
<1>3. CASE job[e].status \notin {"pending", "retry", "leased"}
  BY <1>3 DEF TypeOK, Elapse
<1> QED
  BY <1>1, <1>2, <1>3

\* A commit in full: the worker's decision is written for the row it holds.
Commit(w, e) ==
    /\ worker[w].pc = "deciding"
    /\ IsCurrent(w, e)
    /\ HoldsLease(w, e)
    /\ alerts' = alerts \cup (worker[w].decision \ alerts)
    /\ cases' = CasesAfter(cases, worker[w].decision \ alerts)
    /\ links' = LinksAfter(cases, links, worker[w].decision \ alerts)
    /\ job' = Closed(e, "succeeded", 0)
    /\ NextLease(w, e)
    /\ UNCHANGED <<event, reclaims, lost, slow>>

\* PersistAlerts commits, or raises LeaseOwnershipError and changes no row.
LEMMA PersistCases ==
    ASSUME NEW w \in Workers, PersistAlerts(w)
    PROVE  \/ \E e \in Events : Commit(w, e)
           \/ /\ worker' = [worker EXCEPT ![w].pc = "failing"]
              /\ UNCHANGED <<event, job, alerts, cases, links, reclaims, lost, slow>>
BY DEF PersistAlerts, Commit

\* A failed job's row: lost, dead-lettered or waiting again.
LEMMA FailCases ==
    ASSUME NEW w \in Workers, FailJob(w)
    PROVE  /\ UNCHANGED <<event, alerts, cases, links, reclaims, lost, slow>>
           /\ \E e \in Events :
                /\ IsCurrent(w, e)
                /\ NextLease(w, e)
                /\ \/ ~OwnsRow(w, e) /\ job' = job
                   \/ OwnsRow(w, e) /\ job' = Closed(e, "dead", 0)
                   \/ /\ OwnsRow(w, e)
                      /\ ~(job[e].attempts >= MaxAttempts)
                      /\ job' = Closed(e, "retry", Clip(RetryDelay(job[e].attempts) - worker[w].age))
BY DEF FailJob

\* What Closed does to the rows.
LEMMA ClosedAt ==
    ASSUME TypeOK, NEW e \in Events, NEW s, NEW d, job' = Closed(e, s, d)
    PROVE  /\ job'[e] = Unleased(s, job[e].attempts, d)
           /\ \A f \in Events : f # e => job'[f] = job[f]
BY DEF TypeOK, Closed

\* A worker that goes on to its next lease has no decision at hand.
LEMMA NextLeaseAt ==
    ASSUME TypeOK, NEW w \in Workers, NEW e \in Events, NextLease(w, e)
    PROVE  /\ worker'[w].pc # "deciding"
           /\ e \notin worker'[w].todo
           /\ \A v \in Workers : v # w => worker'[v] = worker[v]
BY DEF TypeOK, NextLease

----------------------------------------------------------------------------
(* DecisionScope *)

\* Workers that do not start to decide keep their scope.
LEMMA ScopeKept ==
    ASSUME DecisionScope,
           \A w \in Workers : \/ worker'[w].pc # "deciding"
                              \/ /\ worker'[w].pc = worker[w].pc
                                 /\ worker'[w].todo = worker[w].todo
                                 /\ worker'[w].decision = worker[w].decision
    PROVE  DecisionScope'
BY DEF DecisionScope, IsCurrent, AlertsOf

\* A decision only ever holds alerts of the event being decided.
LEMMA ScopeInductive == TypeOK /\ DecisionScope /\ [Next]_vars => DecisionScope'
<1> SUFFICES ASSUME TypeOK, DecisionScope, [Next]_vars PROVE DecisionScope'
  OBVIOUS
<1>1. CASE UNCHANGED worker
  BY <1>1, ScopeKept
<1>2. ASSUME NEW w \in Workers, StartCycle(w) PROVE DecisionScope'
  BY <1>2, ScopeKept DEF StartCycle, TypeOK
<1>3. ASSUME NEW w \in Workers, LeaseJobs(w) PROVE DecisionScope'
  BY <1>3, ScopeKept DEF LeaseJobs, TypeOK
<1>4. ASSUME NEW w \in Workers, Evaluate(w) PROVE DecisionScope'
  <2>1. PICK e \in Events : /\ IsCurrent(w, e)
                            /\ \E D \in SUBSET AlertsOf(e) :
                                 worker' = [worker EXCEPT ![w] =
                                     WorkerAt("deciding", worker[w].age, worker[w].todo, event[e], D)]
    BY <1>4 DEF Evaluate
  <2>2. /\ worker'[w].todo = worker[w].todo
        /\ worker'[w].decision \subseteq AlertsOf(e)
        /\ \A v \in Workers : v # w => worker'[v] = worker[v]
    BY <2>1 DEF TypeOK
  <2>3. SUFFICES ASSUME NEW v \in Workers, NEW f \in Events,
                        worker'[v].pc = "deciding", IsCurrent(v, f)'
                 PROVE  worker'[v].decision \subseteq AlertsOf(f)
    BY DEF DecisionScope, AlertsOf
  <2>4. IsCurrent(v, f)
    BY <2>2, <2>3 DEF IsCurrent
  <2>5. CASE v = w
    BY <2>1, <2>2, <2>4, <2>5, CurrentUnique
  <2>6. CASE v # w
    BY <2>2, <2>3, <2>4, <2>6 DEF DecisionScope
  <2> QED
    BY <2>5, <2>6
<1>5. ASSUME NEW w \in Workers, Raise(w) PROVE DecisionScope'
  BY <1>5, ScopeKept DEF Raise, TypeOK
<1>6. ASSUME NEW w \in Workers, PersistAlerts(w) PROVE DecisionScope'
  <2>1. CASE \E e \in Events : Commit(w, e)
    BY <2>1, ScopeKept, NextLeaseAt DEF Commit
  <2>2. CASE worker' = [worker EXCEPT ![w].pc = "failing"]
    BY <2>2, ScopeKept DEF TypeOK
  <2> QED
    BY <1>6, <2>1, <2>2, PersistCases
<1>7. ASSUME NEW w \in Workers, FailJob(w) PROVE DecisionScope'
  BY <1>7, ScopeKept, NextLeaseAt, FailCases
<1>8. ASSUME NEW w \in Workers, LoseCycle(w) PROVE DecisionScope'
  BY <1>8, ScopeKept DEF LoseCycle, TypeOK
<1>9. CASE Elapse
  <2>1. ASSUME NEW w \in Workers
        PROVE  /\ worker'[w].pc = worker[w].pc
               /\ worker'[w].todo = worker[w].todo
               /\ worker'[w].decision = worker[w].decision
    BY <1>9 DEF Elapse, TypeOK
  <2> QED
    BY <2>1, ScopeKept
<1> QED
  BY <1>1, <1>2, <1>3, <1>4, <1>5, <1>6, <1>7, <1>8, <1>9
     DEF Next, vars, WorkerStep, IngestEvents, ApplyRetention, CaseTransition,
         RecordDisposition, Tick, SlowTick

----------------------------------------------------------------------------
(* AlertsSettled *)

\* No step leaves alerts beside an undecided job or a removed event.
LEMMA SettledInductive ==
    TypeOK /\ DecisionScope /\ AlertsSettled /\ [Next]_vars => AlertsSettled'
<1> SUFFICES ASSUME TypeOK, DecisionScope, AlertsSettled, [Next]_vars PROVE AlertsSettled'
  OBVIOUS
<1>0. \A a \in Alerts : EventOf[a] \in Events
  BY EventAssumption
<1>1. CASE UNCHANGED <<event, job, alerts>>
  BY <1>1 DEF AlertsSettled
<1>2. ASSUME NEW batch \in SUBSET (Events \X Payloads), IngestEvents(batch) PROVE AlertsSettled'
  <2>1. alerts' = alerts /\ \A e \in Events : event[e] # NoPayload =>
            event'[e] = event[e] /\ job'[e] = job[e]
    BY <1>2 DEF IngestEvents
  <2> QED
    BY <1>0, <2>1 DEF AlertsSettled, TypeOK
<1>3. ASSUME NEW w \in Workers, LeaseJobs(w) PROVE AlertsSettled'
  <2>1. /\ alerts' = alerts /\ event' = event
        /\ \A e \in Events : job[e].status \notin Live => job'[e] = job[e]
    BY <1>3, ReadyRows DEF LeaseJobs
  <2> QED
    BY <1>0, <2>1 DEF AlertsSettled, TypeOK
<1>4. ASSUME NEW w \in Workers, NEW e \in Events, Commit(w, e) PROVE AlertsSettled'
  <2>1. /\ worker[w].decision \subseteq AlertsOf(e)
        /\ job[e].status = "leased"
        /\ event' = event
        /\ alerts' = alerts \cup (worker[w].decision \ alerts)
    BY <1>4 DEF Commit, DecisionScope, HoldsLease, OwnsRow
  <2>2. job'[e].status = "succeeded" /\ \A f \in Events : f # e => job'[f] = job[f]
    <3>1. job' = Closed(e, "succeeded", 0)
      BY <1>4 DEF Commit
    <3>2. /\ job'[e] = Unleased("succeeded", job[e].attempts, 0)
          /\ \A f \in Events : f # e => job'[f] = job[f]
      BY <3>1, ClosedAt
    <3> QED
      BY <3>2
  <2>3. ASSUME NEW a \in alerts
        PROVE  event'[EventOf[a]] # NoPayload /\ job'[EventOf[a]].status \in {"none", "succeeded"}
    BY <1>0, <2>1, <2>2 DEF AlertsSettled, TypeOK
  <2>4. ASSUME NEW a \in worker[w].decision
        PROVE  event'[EventOf[a]] # NoPayload /\ job'[EventOf[a]].status \in {"none", "succeeded"}
    BY <2>1, <2>2 DEF AlertsOf, TypeOK
  <2> QED
    BY <2>1, <2>3, <2>4 DEF AlertsSettled
<1>5. ASSUME NEW w \in Workers, FailJob(w) PROVE AlertsSettled'
  <2>1. alerts' = alerts /\ event' = event
    BY <1>5, FailCases
  <2>2. \A f \in Events : job[f].status # "leased" => job'[f] = job[f]
    <3>1. PICK e \in Events :
            \/ job' = job
            \/ OwnsRow(w, e) /\ job' = Closed(e, "dead", 0)
            \/ OwnsRow(w, e) /\ job' = Closed(e, "retry", Clip(RetryDelay(job[e].attempts) - worker[w].age))
      BY <1>5, FailCases
    <3>2. CASE job' = job
      BY <3>2
    <3>3. CASE OwnsRow(w, e) /\ job' = Closed(e, "dead", 0)
      BY <3>3, ClosedAt DEF OwnsRow
    <3>4. CASE OwnsRow(w, e) /\ job' = Closed(e, "retry", Clip(RetryDelay(job[e].attempts) - worker[w].age))
      BY <3>4, ClosedAt DEF OwnsRow
    <3> QED
      BY <3>1, <3>2, <3>3, <3>4
  <2> QED
    BY <1>0, <2>1, <2>2 DEF AlertsSettled, TypeOK
<1>6. ASSUME NEW J \in SUBSET Events, NEW E \in SUBSET Events, ApplyRetention(J, E)
      PROVE  AlertsSettled'
  <2>1. /\ alerts' = alerts
        /\ \A e \in Events : job'[e] = job[e] \/ job'[e].status = "none"
        /\ \A e \in Events : e \in E => AlertsOf(e) \cap alerts = {}
        /\ \A e \in Events : e \notin E => event'[e] = event[e]
    BY <1>6 DEF ApplyRetention, Unreferenced
  <2> QED
    BY <1>0, <2>1 DEF AlertsSettled, TypeOK, AlertsOf
<1>7. CASE Elapse
  <2>1. /\ alerts' = alerts /\ event' = event
        /\ \A e \in Events : job'[e].status = job[e].status
    BY <1>7, ElapseRows DEF Elapse
  <2> QED
    BY <1>0, <2>1 DEF AlertsSettled, TypeOK
<1>8. ASSUME NEW w \in Workers, WorkerStep(w) PROVE AlertsSettled'
  <2>1. CASE StartCycle(w) \/ Evaluate(w) \/ Raise(w)
    BY <1>1, <2>1 DEF StartCycle, Evaluate, Raise
  <2>2. CASE PersistAlerts(w)
    BY <1>1, <1>4, <2>2, PersistCases
  <2> QED
    BY <1>3, <1>5, <1>8, <2>1, <2>2 DEF WorkerStep
<1> QED
  BY <1>1, <1>2, <1>6, <1>7, <1>8
     DEF Next, vars, CaseTransition, RecordDisposition, Tick, SlowTick, LoseCycle

----------------------------------------------------------------------------
(* Cases *)

\* The alerts of one decision have pairwise different keys.
LEMMA DistinctKeys ==
    ASSUME NEW e \in Events, NEW a \in AlertsOf(e), NEW b \in AlertsOf(e), KeyOf[a] = KeyOf[b]
    PROVE  a = b
BY RuleAssumption DEF AlertsOf

\* Status and priority after a commit: a case is founded where its key had no
\* active case, and every other case keeps its status and does not sink.
LEMMA CaseAfterStatus ==
    ASSUME NEW cs \in [Alerts -> CaseRecord], NEW N \in SUBSET Alerts, NEW c \in Alerts
    PROVE  /\ CasesAfter(cs, N)[c].status =
                IF c \in N /\ ActiveFor(cs, KeyOf[c]) = {} THEN "open" ELSE cs[c].status
           /\ c \notin N => CasesAfter(cs, N)[c].priority >= cs[c].priority
<1>1. CASE c \in N /\ ActiveFor(cs, KeyOf[c]) = {}
  BY <1>1 DEF CasesAfter, NewCase
<1>2. CASE ~(c \in N /\ ActiveFor(cs, KeyOf[c]) = {})
  <2>1. CASE \E a \in N : c \in ActiveFor(cs, KeyOf[a])
    <3> DEFINE a == CHOOSE a \in N : c \in ActiveFor(cs, KeyOf[a])
    <3>1. a \in N
      BY <2>1
    <3>2. CasesAfter(cs, N)[c] =
            [cs[c] EXCEPT !.priority = HigherPriority(cs[c].priority, PriorityOf[a])]
      BY <1>2, <2>1 DEF CasesAfter
    <3>3. HigherPriority(cs[c].priority, PriorityOf[a]) >= cs[c].priority
      BY <3>1, PriorityAssumption DEF HigherPriority
    <3> QED
      BY <1>2, <3>2, <3>3
  <2>2. CASE ~\E a \in N : c \in ActiveFor(cs, KeyOf[a])
    BY <1>2, <2>2 DEF CasesAfter
  <2> QED
    BY <2>1, <2>2
<1> QED
  BY <1>1, <1>2

\* A commit keeps the case invariants.
LEMMA CommitCases ==
    ASSUME TypeOK, DecisionScope, CaseInv, NEW w \in Workers, NEW e \in Events, Commit(w, e)
    PROVE  CaseInv'
<1> DEFINE N == worker[w].decision \ alerts
<1>1. /\ N \subseteq AlertsOf(e)
      /\ N \subseteq Alerts
      /\ N \cap alerts = {}
      /\ alerts' = alerts \cup N
      /\ cases' = CasesAfter(cases, N)
      /\ links' = LinksAfter(cases, links, N)
  BY DEF Commit, DecisionScope, AlertsOf
<1> HIDE DEF N
<1>2. ASSUME NEW c \in Alerts
      PROVE  /\ cases'[c].status =
                  IF c \in N /\ ActiveFor(cases, KeyOf[c]) = {} THEN "open" ELSE cases[c].status
             /\ c \notin N => cases'[c].priority >= cases[c].priority
  <2>1. cases \in [Alerts -> CaseRecord]
    BY DEF TypeOK
  <2> HIDE DEF CaseRecord
  <2> QED
    BY <1>1, <2>1, CaseAfterStatus, Zenon
<1>3. OneActiveCase'
  <2> SUFFICES ASSUME NEW c \in Alerts, NEW d \in Alerts, KeyOf[c] = KeyOf[d],
                      IsActive(cases', c), IsActive(cases', d)
               PROVE  c = d
    BY DEF OneActiveCase
  <2>1. CASE IsActive(cases, c) /\ IsActive(cases, d)
    BY <2>1 DEF CaseInv, OneActiveCase
  <2>2. CASE ~IsActive(cases, c) \/ ~IsActive(cases, d)
    <3>1. ActiveFor(cases, KeyOf[c]) = {} /\ (c \in N \/ d \in N)
      BY <1>2, <2>2 DEF IsActive
    <3>2. c \in N /\ d \in N
      BY <1>2, <3>1 DEF IsActive, ActiveFor
    <3> QED
      BY <1>1, <3>2, DistinctKeys
  <2> QED
    BY <2>1, <2>2
<1>4. LinkedOnce'
  <2> SUFFICES ASSUME NEW a \in Alerts
               PROVE  LET linked == {c \in Alerts : <<c, a>> \in links'}
                      IN  IF a \in alerts'
                          THEN \E c \in Alerts : /\ linked = {c}
                                                 /\ cases'[c].status # "none"
                                                 /\ KeyOf[c] = KeyOf[a]
                          ELSE linked = {}
    BY DEF LinkedOnce
  <2>1. \A c \in Alerts : <<c, a>> \in links' <=>
            <<c, a>> \in links \/ (a \in N /\ c \in CasesOf(cases, a))
    BY <1>1 DEF LinksAfter
  <2>2. CASE a \notin N
    <3>1. {c \in Alerts : <<c, a>> \in links'} = {c \in Alerts : <<c, a>> \in links}
      BY <2>1, <2>2
    <3>2. a \in alerts' <=> a \in alerts
      BY <1>1, <2>2
    <3>3. \A c \in Alerts : cases[c].status # "none" => cases'[c].status # "none"
      BY <1>2
    <3> QED
      BY <3>1, <3>2, <3>3 DEF CaseInv, LinkedOnce
  <2>3. CASE a \in N
    <3>1. a \in alerts' /\ a \notin alerts
      BY <1>1, <2>3
    <3>2. \A c \in Alerts : <<c, a>> \notin links
      BY <3>1 DEF CaseInv, LinkedOnce
    <3>3. {c \in Alerts : <<c, a>> \in links'} = {c \in Alerts : c \in CasesOf(cases, a)}
      BY <2>1, <2>3, <3>2
    <3>4. CASE ActiveFor(cases, KeyOf[a]) = {}
      <4>1. {c \in Alerts : <<c, a>> \in links'} = {a}
        BY <3>3, <3>4 DEF CasesOf
      <4>2. cases'[a].status # "none"
        BY <1>2, <2>3, <3>4
      <4> QED
        BY <3>1, <4>1, <4>2
    <3>5. CASE ActiveFor(cases, KeyOf[a]) # {}
      <4>1. PICK c \in Alerts : c \in ActiveFor(cases, KeyOf[a])
        BY <3>5 DEF ActiveFor
      <4>2. ActiveFor(cases, KeyOf[a]) = {c}
        BY <4>1 DEF ActiveFor, CaseInv, OneActiveCase
      <4>3. {d \in Alerts : <<d, a>> \in links'} = {c}
        BY <3>3, <3>5, <4>2 DEF CasesOf
      <4>4. cases'[c].status # "none" /\ KeyOf[c] = KeyOf[a]
        BY <1>2, <4>1 DEF ActiveFor, IsActive
      <4> QED
        BY <3>1, <4>3, <4>4
    <3> QED
      BY <3>4, <3>5
  <2> QED
    BY <2>2, <2>3
<1>5. CaseFounded'
  BY <1>1, <1>2 DEF CaseInv, CaseFounded
<1>6. PriorityCovers'
  <2> SUFFICES ASSUME NEW c \in Alerts, NEW a \in Alerts, <<c, a>> \in links'
               PROVE  cases'[c].priority >= PriorityOf[a]
    <3>1. links' \subseteq Alerts \X Alerts
      BY <1>1 DEF LinksAfter, TypeOK
    <3> QED
      BY <3>1 DEF PriorityCovers
  <2>1. CASE <<c, a>> \in links
    <3>1. a \in alerts /\ cases[c].status # "none"
      BY <2>1 DEF CaseInv, LinkedOnce
    <3>2. c \notin N
      BY <1>1, <3>1 DEF CaseInv, CaseFounded
    <3>3. cases[c].priority >= PriorityOf[a]
      BY <2>1 DEF CaseInv, PriorityCovers
    <3>4. cases'[c].priority \in Int /\ cases[c].priority \in Int /\ PriorityOf[a] \in Int
      <4>1. cases' \in [Alerts -> CaseRecord]
        BY <1>1, CasesAfterType DEF TypeOK
      <4>2. cases \in [Alerts -> CaseRecord]
        BY DEF TypeOK
      <4>3. c \in Alerts /\ a \in Alerts
        BY <2>1
      <4> QED
        BY ONLY <4>1, <4>2, <4>3, PriorityAssumption DEF CaseRecord
    <3> QED
      BY <1>2, <3>2, <3>3, <3>4
  <2>2. CASE <<c, a>> \notin links
    <3>1. a \in N /\ c \in CasesOf(cases, a)
      BY <1>1, <2>2 DEF LinksAfter
    <3>2. CASE ActiveFor(cases, KeyOf[a]) = {}
      <4>1. c = a /\ cases'[c] = NewCase(c)
        BY <1>1, <3>1, <3>2 DEF CasesOf, CasesAfter
      <4> QED
        BY <4>1, PriorityAssumption DEF NewCase
    <3>3. CASE ActiveFor(cases, KeyOf[a]) # {}
      <4>1. c \in ActiveFor(cases, KeyOf[a]) /\ KeyOf[c] = KeyOf[a]
        BY <3>1, <3>3 DEF CasesOf, ActiveFor
      <4>2. \A b \in N : c \in ActiveFor(cases, KeyOf[b]) => b = a
        BY <1>1, <3>1, <4>1, DistinctKeys DEF ActiveFor
      <4>3. ~(c \in N /\ ActiveFor(cases, KeyOf[c]) = {})
        BY <4>1
      <4>4. cases'[c] = [cases[c] EXCEPT !.priority = HigherPriority(cases[c].priority, PriorityOf[a])]
        BY <1>1, <3>1, <4>1, <4>2, <4>3 DEF CasesAfter
      <4>5. HigherPriority(cases[c].priority, PriorityOf[a]) >= PriorityOf[a]
        <5>1. cases \in [Alerts -> CaseRecord] /\ c \in Alerts /\ a \in Alerts
          BY <3>1 DEF TypeOK
        <5>2. cases[c].priority \in Int /\ PriorityOf[a] \in Int
          BY ONLY <5>1, PriorityAssumption DEF CaseRecord
        <5> QED BY ONLY <5>2 DEF HigherPriority
      <4> QED
        BY <4>4, <4>5 DEF TypeOK
    <3> QED
      BY <3>2, <3>3
  <2> QED
    BY <2>1, <2>2
<1> QED
  BY <1>3, <1>4, <1>5, <1>6 DEF CaseInv

\* Every step keeps the invariants of the cases and case_alerts tables.
LEMMA CasesInductive == TypeOK /\ DecisionScope /\ CaseInv /\ [Next]_vars => CaseInv'
<1> SUFFICES ASSUME TypeOK, DecisionScope, CaseInv, [Next]_vars PROVE CaseInv'
  OBVIOUS
<1>1. CASE UNCHANGED <<alerts, cases, links>>
  BY <1>1 DEF CaseInv, OneActiveCase, LinkedOnce, PriorityCovers, CaseFounded, IsActive
<1>2. ASSUME NEW w \in Workers, WorkerStep(w) PROVE CaseInv'
  <2>1. CASE PersistAlerts(w)
    BY <1>1, <2>1, PersistCases, CommitCases
  <2>2. CASE ~PersistAlerts(w)
    BY <1>1, <1>2, <2>2 DEF WorkerStep, StartCycle, LeaseJobs, Evaluate, Raise, FailJob
  <2> QED
    BY <2>1, <2>2
<1>3. ASSUME NEW c \in Alerts, NEW s \in CaseStatuses, CaseTransition(c, s) PROVE CaseInv'
  <2>1. /\ alerts' = alerts /\ links' = links
        /\ CanTransition(cases, c, s)
        /\ cases' = Transitioned(cases, c, s)
    BY <1>3 DEF CaseTransition
  <2>2. /\ cases'[c].status = s /\ cases'[c].priority = cases[c].priority
        /\ \A d \in Alerts : d # c => cases'[d] = cases[d]
    BY <2>1 DEF Transitioned, TypeOK
  <2>3. cases[c].status # "none" /\ s # "none"
    BY <2>1 DEF CanTransition, Transitions
  <2>4. IsActive(cases, c) \/ s = "closed" \/ MayReopen(cases, c)
    BY <2>1 DEF CanTransition, Transitions, IsActive
  <2>5. OneActiveCase'
    <3> SUFFICES ASSUME NEW d \in Alerts, NEW f \in Alerts, d # f, KeyOf[d] = KeyOf[f],
                        IsActive(cases', d), IsActive(cases', f)
                 PROVE  FALSE
      BY DEF OneActiveCase
    <3>1. CASE d # c /\ f # c
      BY <2>2, <3>1 DEF CaseInv, OneActiveCase, IsActive
    <3>2. ASSUME NEW g \in Alerts, g # c, IsActive(cases', g), IsActive(cases', c), KeyOf[g] = KeyOf[c]
          PROVE  FALSE
      <4>1. IsActive(cases, g) /\ s # "closed"
        BY <2>2, <3>2 DEF IsActive
      <4>2. ~MayReopen(cases, c)
        BY <3>2, <4>1 DEF MayReopen, ActiveFor
      <4> QED
        BY <2>4, <3>2, <4>1, <4>2 DEF CaseInv, OneActiveCase
    <3> QED
      BY <3>1, <3>2
  <2>6. LinkedOnce' /\ CaseFounded' /\ PriorityCovers'
    <3>1. \A d \in Alerts : /\ (cases'[d].status # "none") = (cases[d].status # "none")
                            /\ cases'[d].priority = cases[d].priority
      BY <2>2, <2>3
    <3>2. alerts' = alerts /\ links' = links
      BY <2>1
    <3>3. LinkedOnce'
      BY ONLY CaseInv, <3>1, <3>2 DEF CaseInv, LinkedOnce
    <3>4. CaseFounded'
      BY ONLY CaseInv, <3>1, <3>2 DEF CaseInv, CaseFounded
    <3>5. PriorityCovers'
      <4>1. links \subseteq Alerts \X Alerts BY DEF TypeOK
      <4> QED BY ONLY CaseInv, <3>1, <3>2, <4>1 DEF CaseInv, PriorityCovers
    <3> QED
      BY <3>3, <3>4, <3>5
  <2> QED
    BY <2>5, <2>6 DEF CaseInv
<1>4. ASSUME NEW c \in Alerts, RecordDisposition(c) PROVE CaseInv'
  <2>1. /\ alerts' = alerts /\ links' = links
        /\ \A d \in Alerts : /\ cases'[d].status = cases[d].status
                             /\ cases'[d].priority = cases[d].priority
    BY <1>4 DEF RecordDisposition, TypeOK
  <2>2. links \subseteq Alerts \X Alerts
    BY DEF TypeOK
  <2>3. OneActiveCase' /\ CaseFounded'
    BY ONLY CaseInv, <2>1 DEF CaseInv, OneActiveCase, CaseFounded, IsActive
  <2>4. LinkedOnce' /\ PriorityCovers'
    BY ONLY CaseInv, <2>1, <2>2 DEF CaseInv, LinkedOnce, PriorityCovers
  <2> QED
    BY <2>3, <2>4 DEF CaseInv
<1> QED
  BY <1>1, <1>2, <1>3, <1>4
     DEF Next, vars, IngestEvents, ApplyRetention, LoseCycle, Tick, SlowTick, Elapse

----------------------------------------------------------------------------
(* AttemptLeft *)

\* Every step keeps the attempt count within its allowance.
LEMMA AttemptsInductive == TypeOK /\ AttemptLeft /\ [Next]_vars => AttemptLeft'
<1> SUFFICES ASSUME TypeOK, AttemptLeft, [Next]_vars, NEW e \in Events
             PROVE  IF job'[e].status \in {"pending", "retry"}
                    THEN job'[e].attempts < MaxAttempts + reclaims'[e]
                    ELSE job'[e].attempts <= MaxAttempts + reclaims'[e]
  BY DEF AttemptLeft
<1>0. /\ job[e].attempts \in Nat /\ reclaims[e] \in Nat /\ MaxAttempts \in Nat /\ MaxAttempts > 0
  BY BoundAssumption DEF TypeOK
<1>1. CASE job'[e] = job[e] /\ reclaims'[e] = reclaims[e]
  BY <1>1 DEF AttemptLeft
<1>2. ASSUME NEW batch \in SUBSET (Events \X Payloads), IngestEvents(batch)
      PROVE  \/ job'[e] = job[e] /\ reclaims'[e] = reclaims[e]
             \/ job'[e] = PendingJob /\ reclaims'[e] = 0
  BY <1>2 DEF IngestEvents
<1>3. ASSUME NEW w \in Workers, LeaseJobs(w)
      PROVE  \/ job'[e] = job[e] /\ reclaims'[e] = reclaims[e]
             \/ /\ job'[e].status = "leased" /\ job'[e].attempts = job[e].attempts + 1
                /\ job[e].status \in Live
                /\ reclaims'[e] = IF job[e].status = "leased" THEN reclaims[e] + 1 ELSE reclaims[e]
  BY <1>3, ReadyRows DEF LeaseJobs
<1>4. ASSUME NEW w \in Workers, PersistAlerts(w)
      PROVE  /\ reclaims' = reclaims
             /\ job'[e] = job[e] \/ job'[e] = Unleased("succeeded", job[e].attempts, 0)
  <2>1. CASE \E f \in Events : Commit(w, f)
    BY <2>1, ClosedAt DEF Commit
  <2> QED
    BY <1>4, <2>1, PersistCases
<1>5. ASSUME NEW w \in Workers, FailJob(w)
      PROVE  /\ reclaims' = reclaims
             /\ \/ job'[e] = job[e]
                \/ job'[e].status = "dead" /\ job'[e].attempts = job[e].attempts /\ job[e].status = "leased"
                \/ job'[e].status = "retry" /\ job'[e].attempts = job[e].attempts
                   /\ ~(job[e].attempts >= MaxAttempts)
  <2>1. reclaims' = reclaims
    BY <1>5, FailCases
  <2>2. PICK f \in Events :
            \/ job' = job
            \/ OwnsRow(w, f) /\ job' = Closed(f, "dead", 0)
            \/ /\ ~(job[f].attempts >= MaxAttempts)
               /\ job' = Closed(f, "retry", Clip(RetryDelay(job[f].attempts) - worker[w].age))
    BY <1>5, FailCases
  <2>3. CASE job' = job
    BY <2>1, <2>3
  <2>4. CASE OwnsRow(w, f) /\ job' = Closed(f, "dead", 0)
    <3>1. /\ job'[f] = Unleased("dead", job[f].attempts, 0)
          /\ \A g \in Events : g # f => job'[g] = job[g]
      BY <2>4, ClosedAt
    <3> QED
      BY <2>1, <2>4, <3>1 DEF OwnsRow
  <2>5. CASE /\ ~(job[f].attempts >= MaxAttempts)
             /\ job' = Closed(f, "retry", Clip(RetryDelay(job[f].attempts) - worker[w].age))
    <3>1. /\ job'[f].status = "retry" /\ job'[f].attempts = job[f].attempts
          /\ \A g \in Events : g # f => job'[g] = job[g]
      <4> DEFINE d == Clip(RetryDelay(job[f].attempts) - worker[w].age)
      <4>1. job'[f] = Unleased("retry", job[f].attempts, d) /\ \A g \in Events : g # f => job'[g] = job[g]
        BY <2>5, ClosedAt
      <4> HIDE DEF d
      <4> QED
        BY <4>1
    <3> QED
      BY <2>1, <2>5, <3>1
  <2> QED
    BY <2>2, <2>3, <2>4, <2>5
<1>6. ASSUME NEW J \in SUBSET Events, NEW E \in SUBSET Events, ApplyRetention(J, E)
      PROVE  reclaims' = reclaims /\ (job'[e] = job[e] \/ job'[e] = NoJob)
  BY <1>6 DEF ApplyRetention
<1>7. CASE Elapse
  BY <1>7, ElapseRows DEF AttemptLeft, Elapse
<1>8. ASSUME NEW w \in Workers, WorkerStep(w)
      PROVE  IF job'[e].status \in {"pending", "retry"}
             THEN job'[e].attempts < MaxAttempts + reclaims'[e]
             ELSE job'[e].attempts <= MaxAttempts + reclaims'[e]
  <2>1. CASE StartCycle(w) \/ Evaluate(w) \/ Raise(w)
    BY <1>1, <2>1 DEF StartCycle, Evaluate, Raise
  <2>2. CASE LeaseJobs(w)
    BY <1>0, <1>3, <2>2 DEF AttemptLeft
  <2>3. CASE PersistAlerts(w)
    BY <1>0, <1>4, <2>3 DEF AttemptLeft
  <2>4. CASE FailJob(w)
    BY <1>0, <1>5, <2>4 DEF AttemptLeft
  <2> QED
    BY <1>8, <2>1, <2>2, <2>3, <2>4 DEF WorkerStep
<1>9. CASE \E batch \in SUBSET (Events \X Payloads) : IngestEvents(batch)
  BY <1>0, <1>1, <1>2, <1>9
<1>10. CASE \E J, E \in SUBSET Events : ApplyRetention(J, E)
  BY <1>0, <1>1, <1>6, <1>10
<1> QED
  BY <1>1, <1>7, <1>8, <1>9, <1>10
     DEF Next, vars, CaseTransition, RecordDisposition, LoseCycle, Tick, SlowTick

----------------------------------------------------------------------------
\* Every step keeps the inductive invariant.
LEMMA InvInductive == Inv /\ [Next]_vars => Inv'
BY NextType, ScopeInductive, SettledInductive, CasesInductive, AttemptsInductive DEF Inv

\* The inductive invariant holds throughout.
LEMMA AlwaysInv == Spec => []Inv
BY InitInv, InvInductive, PTL DEF Spec

\* The alerts of an event exist only once its job succeeded, and the event they
\* quote stays stored: no crash, take-over, redelivery or retention run leaves
\* alerts beside an undecided job.
THEOREM AlertsAreSettled == Spec => []AlertsSettled
<1>1. Inv => AlertsSettled
  BY DEF Inv
<1> QED
  BY <1>1, AlwaysInv, PTL

\* At most one case of a semantic key is not closed.
THEOREM ActiveCaseUnique == Spec => []OneActiveCase
<1>1. Inv => OneActiveCase
  BY DEF Inv, CaseInv
<1> QED
  BY <1>1, AlwaysInv, PTL

\* Every alert is linked to exactly one case, of its own key.
THEOREM AlertLinkedOnce == Spec => []LinkedOnce
<1>1. Inv => LinkedOnce
  BY DEF Inv, CaseInv
<1> QED
  BY <1>1, AlwaysInv, PTL

\* The case table stays consistent under commits, closes and reopens.
THEOREM CasesAreConsistent == Spec => []CasesConsistent
<1>1. Inv => CasesConsistent
  BY DEF Inv, CaseInv, CasesConsistent
<1> QED
  BY <1>1, AlwaysInv, PTL

\* The priority of a case covers all of its alerts.
THEOREM CasePriorityCovers == Spec => []PriorityCovers
<1>1. Inv => PriorityCovers
  BY DEF Inv, CaseInv
<1> QED
  BY <1>1, AlwaysInv, PTL

\* worker_max_attempts is exceeded only by the number of take-overs.
THEOREM AttemptsAreBounded == Spec => []AttemptsBounded
<1>1. Inv => AttemptsBounded
  BY BoundAssumption DEF Inv, TypeOK, AttemptLeft, AttemptsBounded
<1> QED
  BY <1>1, AlwaysInv, PTL

----------------------------------------------------------------------------
(* The evidence of a decision *)

\* As long as the row is still the worker's, expired or not, the event row is
\* the one the decision was made from.
SeenIsStored ==
    \A w \in Workers, e \in Events :
        worker[w].pc = "deciding" /\ IsCurrent(w, e) /\ OwnsRow(w, e)
            => worker[w].seen = event[e]

\* Workers that do not start to decide keep their evidence, where no row becomes
\* theirs and no row of theirs loses its event.
LEMMA SeenKept ==
    ASSUME SeenIsStored,
           \A w \in Workers : \/ worker'[w].pc # "deciding"
                              \/ /\ worker'[w].pc = worker[w].pc
                                 /\ worker'[w].todo = worker[w].todo
                                 /\ worker'[w].seen = worker[w].seen,
           \A w \in Workers, e \in Events :
              worker'[w].pc = "deciding" /\ OwnsRow(w, e)'
                  => OwnsRow(w, e) /\ event'[e] = event[e]
    PROVE  SeenIsStored'
BY DEF SeenIsStored, IsCurrent

\* A row that leaves its lease belongs to nobody.
LEMMA ClosedOwns ==
    ASSUME TypeOK, NEW f \in Events, NEW s \in {"succeeded", "dead", "retry"}, NEW d,
           job' = Closed(f, s, d), NEW w \in Workers, NEW e \in Events, OwnsRow(w, e)'
    PROVE  OwnsRow(w, e)
<1>1. job'[f] = Unleased(s, job[f].attempts, d) /\ \A g \in Events : g # f => job'[g] = job[g]
  BY ClosedAt
<1>2. e # f
  BY <1>1 DEF OwnsRow
<1> QED
  BY <1>1, <1>2 DEF OwnsRow

\* Nobody replaces the event of a row that is leased.
LEMMA SeenInductive == TypeOK /\ SeenIsStored /\ [Next]_vars => SeenIsStored'
<1> SUFFICES ASSUME TypeOK, SeenIsStored, [Next]_vars PROVE SeenIsStored'
  OBVIOUS
<1>1. CASE UNCHANGED <<worker, job, event>>
  BY <1>1, SeenKept DEF OwnsRow
<1>2. ASSUME NEW batch \in SUBSET (Events \X Payloads), IngestEvents(batch)
      PROVE  SeenIsStored'
  <2>1. worker' = worker
    BY <1>2 DEF IngestEvents
  <2>2. ASSUME NEW w \in Workers, NEW e \in Events, OwnsRow(w, e)'
        PROVE  OwnsRow(w, e) /\ event'[e] = event[e]
    <3>1. job'[e] # PendingJob
      BY <2>2 DEF OwnsRow
    <3>2. job'[e] = job[e] /\ event'[e] = event[e]
      BY <1>2, <3>1 DEF IngestEvents
    <3> QED
      BY <2>2, <3>2 DEF OwnsRow
  <2> QED
    BY <2>1, <2>2, SeenKept
<1>3. ASSUME NEW v \in Workers, LeaseJobs(v) PROVE SeenIsStored'
  <2>1. /\ event' = event
        /\ worker'[v].pc # "deciding"
        /\ \A w \in Workers : w # v => worker'[w] = worker[w]
        /\ \A e \in Events : job'[e] = job[e] \/ job'[e].owner = v
    BY <1>3 DEF LeaseJobs, TypeOK
  <2>2. ASSUME NEW w \in Workers, NEW e \in Events, worker'[w].pc = "deciding", OwnsRow(w, e)'
        PROVE  OwnsRow(w, e)
    BY <2>1, <2>2 DEF OwnsRow
  <2> QED
    BY <2>1, <2>2, SeenKept
<1>4. ASSUME NEW v \in Workers, Evaluate(v) PROVE SeenIsStored'
  <2>1. PICK e \in Events : /\ IsCurrent(v, e)
                            /\ \E D \in SUBSET AlertsOf(e) :
                                 worker' = [worker EXCEPT ![v] =
                                     WorkerAt("deciding", worker[v].age, worker[v].todo, event[e], D)]
    BY <1>4 DEF Evaluate
  <2>2. /\ worker'[v].todo = worker[v].todo
        /\ worker'[v].seen = event[e]
        /\ \A w \in Workers : w # v => worker'[w] = worker[w]
    BY <2>1 DEF TypeOK
  <2>3. event' = event /\ job' = job
    BY <1>4 DEF Evaluate
  <2>4. SUFFICES ASSUME NEW w \in Workers, NEW f \in Events,
                        worker'[w].pc = "deciding", IsCurrent(w, f)', OwnsRow(w, f)'
                 PROVE  worker'[w].seen = event[f]
    BY <2>3 DEF SeenIsStored
  <2>5. IsCurrent(w, f) /\ OwnsRow(w, f)
    BY <2>2, <2>3, <2>4 DEF IsCurrent, OwnsRow
  <2>6. CASE w = v
    BY <2>1, <2>2, <2>5, <2>6, CurrentUnique
  <2>7. CASE w # v
    BY <2>2, <2>4, <2>5, <2>7 DEF SeenIsStored
  <2> QED
    BY <2>6, <2>7
<1>5. ASSUME NEW v \in Workers, StartCycle(v) \/ Raise(v) \/ LoseCycle(v) PROVE SeenIsStored'
  <2>1. UNCHANGED <<event, job>>
    BY <1>5 DEF StartCycle, Raise, LoseCycle
  <2>2. worker'[v].pc # "deciding" /\ \A w \in Workers : w # v => worker'[w] = worker[w]
    BY <1>5 DEF StartCycle, Raise, LoseCycle, TypeOK
  <2> QED
    BY <2>1, <2>2, SeenKept DEF OwnsRow
<1>6. ASSUME NEW v \in Workers, PersistAlerts(v) PROVE SeenIsStored'
  <2>1. ASSUME NEW f \in Events, Commit(v, f) PROVE SeenIsStored'
    <3>1. event' = event /\ job' = Closed(f, "succeeded", 0)
      BY <2>1 DEF Commit
    <3>2. worker'[v].pc # "deciding" /\ \A w \in Workers : w # v => worker'[w] = worker[w]
      BY <2>1, NextLeaseAt DEF Commit
    <3>3. \A w \in Workers, e \in Events : OwnsRow(w, e)' => OwnsRow(w, e)
      BY <3>1, ClosedOwns
    <3> QED
      BY <3>1, <3>2, <3>3, SeenKept
  <2>2. CASE /\ worker' = [worker EXCEPT ![v].pc = "failing"]
             /\ UNCHANGED <<event, job>>
    <3>1. worker'[v].pc # "deciding" /\ \A w \in Workers : w # v => worker'[w] = worker[w]
      BY <2>2 DEF TypeOK
    <3> QED
      BY <2>2, <3>1, SeenKept DEF OwnsRow
  <2> QED
    BY <1>6, <2>1, <2>2, PersistCases
<1>7. ASSUME NEW v \in Workers, FailJob(v) PROVE SeenIsStored'
  <2>1. event' = event
    BY <1>7, FailCases
  <2>2. PICK f \in Events :
          /\ NextLease(v, f)
          /\ \/ job' = job \/ job' = Closed(f, "dead", 0)
             \/ job' = Closed(f, "retry", Clip(RetryDelay(job[f].attempts) - worker[v].age))
    BY <1>7, FailCases
  <2>3. worker'[v].pc # "deciding" /\ \A w \in Workers : w # v => worker'[w] = worker[w]
    BY <2>2, NextLeaseAt
  <2>4. \A w \in Workers, e \in Events : OwnsRow(w, e)' => OwnsRow(w, e)
    <3>1. CASE job' = job
      BY <3>1 DEF OwnsRow
    <3>2. CASE job' = Closed(f, "dead", 0)
      BY <3>2, ClosedOwns
    <3>3. CASE job' = Closed(f, "retry", Clip(RetryDelay(job[f].attempts) - worker[v].age))
      BY <3>3, ClosedOwns
    <3> QED
      BY <2>2, <3>1, <3>2, <3>3
  <2> QED
    BY <2>1, <2>3, <2>4, SeenKept
<1>8. ASSUME NEW J \in SUBSET Events, NEW E \in SUBSET Events, ApplyRetention(J, E)
      PROVE  SeenIsStored'
  <2>1. worker' = worker
    BY <1>8 DEF ApplyRetention
  <2>2. ASSUME NEW w \in Workers, NEW e \in Events, OwnsRow(w, e)'
        PROVE  OwnsRow(w, e) /\ event'[e] = event[e]
    BY <1>8, <2>2 DEF ApplyRetention, Unreferenced, OwnsRow
  <2> QED
    BY <2>1, <2>2, SeenKept
<1>9. CASE Elapse
  <2>1. ASSUME NEW w \in Workers
        PROVE  /\ worker'[w].pc = worker[w].pc
               /\ worker'[w].todo = worker[w].todo
               /\ worker'[w].seen = worker[w].seen
    BY <1>9 DEF Elapse, TypeOK
  <2>2. event' = event
    BY <1>9 DEF Elapse
  <2>3. \A w \in Workers, e \in Events : OwnsRow(w, e)' => OwnsRow(w, e)
    BY <1>9, ElapseRows DEF OwnsRow
  <2> QED
    BY <2>1, <2>2, <2>3, SeenKept
<1> QED
  BY <1>1, <1>2, <1>3, <1>4, <1>5, <1>6, <1>7, <1>8, <1>9
     DEF Next, vars, WorkerStep, CaseTransition, RecordDisposition, Tick, SlowTick

\* A commit quotes the event row that its alerts were computed from: retention
\* and a redelivery with another payload never come in between.
THEOREM CommitQuotesItsEvidence == Spec => []EvidenceMatches
<1>1. Init => SeenIsStored
  BY DEF Init, SeenIsStored
<1>2. Spec => []SeenIsStored
  BY <1>1, SeenInductive, TypeCorrect, PTL DEF Spec
<1>3. Inv /\ SeenIsStored => EvidenceMatches
  BY DEF Inv, DecisionScope, SeenIsStored, EvidenceMatches, HoldsLease
<1> QED
  BY <1>2, <1>3, AlwaysInv, PTL

----------------------------------------------------------------------------
(* The lease is a fence *)

\* A leased row that an action takes away from its owner was finished by that
\* owner or had expired.
Fenced ==
    \A e \in Events, w \in Workers :
        OwnsRow(w, e) /\ ~(job'[e].status = "leased" /\ job'[e].owner = w)
            => \/ e \in worker[w].todo /\ e \notin worker'[w].todo
               \/ job[e].expires <= 0

\* Every step respects the leases of rows that have not expired.
LEMMA StepFenced == TypeOK /\ [Next]_vars => Fenced
<1> SUFFICES ASSUME TypeOK, [Next]_vars, NEW e \in Events, NEW w \in Workers,
                    job[e].status = "leased", job[e].owner = w,
                    ~(job'[e].status = "leased" /\ job'[e].owner = w)
             PROVE  \/ e \in worker[w].todo /\ e \notin worker'[w].todo
                    \/ job[e].expires <= 0
  BY DEF Fenced, OwnsRow
<1>1. job' # job
  OBVIOUS
<1>2. ASSUME NEW batch \in SUBSET (Events \X Payloads), IngestEvents(batch) PROVE FALSE
  <2>1. event[e] # NoPayload
    BY DEF TypeOK
  <2>2. job'[e] = job[e]
    BY <1>2, <2>1 DEF IngestEvents
  <2> QED
    BY <2>2
<1>3. ASSUME NEW v \in Workers, LeaseJobs(v) PROVE job[e].expires <= 0
  <2>1. e \in FirstOf(Ready(worker[v].age))
    BY <1>3 DEF LeaseJobs
  <2>2. job[e].expires + worker[v].age <= 0
    BY <2>1 DEF FirstOf, Ready
  <2> QED
    BY <2>2 DEF TypeOK
<1>4. ASSUME NEW v \in Workers, NEW f \in Events, IsCurrent(v, f), OwnsRow(v, f), NextLease(v, f),
             \A g \in Events : g # f => job'[g] = job[g]
      PROVE  e \in worker[w].todo /\ e \notin worker'[w].todo
  <2>1. e = f /\ v = w
    BY <1>4 DEF OwnsRow
  <2> QED
    BY <1>4, <2>1, NextLeaseAt DEF IsCurrent
<1>5. ASSUME NEW v \in Workers, PersistAlerts(v) PROVE e \in worker[w].todo /\ e \notin worker'[w].todo
  <2>1. PICK f \in Events : Commit(v, f)
    BY <1>1, <1>5, PersistCases
  <2>2. IsCurrent(v, f) /\ OwnsRow(v, f) /\ NextLease(v, f) /\ job' = Closed(f, "succeeded", 0)
    BY <2>1 DEF Commit, HoldsLease
  <2>3. \A g \in Events : g # f => job'[g] = job[g]
    BY <2>2, ClosedAt
  <2> QED
    BY <1>4, <2>2, <2>3
<1>6. ASSUME NEW v \in Workers, FailJob(v) PROVE e \in worker[w].todo /\ e \notin worker'[w].todo
  <2>1. PICK f \in Events : /\ IsCurrent(v, f) /\ NextLease(v, f) /\ OwnsRow(v, f)
                            /\ \/ job' = Closed(f, "dead", 0)
                               \/ job' = Closed(f, "retry", Clip(RetryDelay(job[f].attempts) - worker[v].age))
    BY <1>1, <1>6, FailCases
  <2>2. \A g \in Events : g # f => job'[g] = job[g]
    <3>1. CASE job' = Closed(f, "dead", 0)
      BY <3>1, ClosedAt
    <3>2. CASE job' = Closed(f, "retry", Clip(RetryDelay(job[f].attempts) - worker[v].age))
      BY <3>2, ClosedAt
    <3> QED
      BY <2>1, <3>1, <3>2
  <2> QED
    BY <1>4, <2>1, <2>2
<1>7. ASSUME NEW J \in SUBSET Events, NEW E \in SUBSET Events, ApplyRetention(J, E) PROVE FALSE
  BY <1>7 DEF ApplyRetention
<1>8. ~Elapse
  BY ElapseRows
<1> QED
  BY <1>1, <1>2, <1>3, <1>5, <1>6, <1>7, <1>8
     DEF Next, vars, WorkerStep, StartCycle, Evaluate, Raise, LoseCycle, CaseTransition,
         RecordDisposition, Tick, SlowTick

\* A leased row changes hands or status only through its owner, or once the
\* lease has expired.
THEOREM LeaseIsFence == Spec => FencedLease
<1>1. TypeOK /\ [Next]_vars =>
        [\A e \in Events, w \in Workers :
            OwnsRow(w, e) /\ ~(job'[e].status = "leased" /\ job'[e].owner = w)
                => \/ e \in worker[w].todo /\ e \notin worker'[w].todo
                   \/ job[e].expires <= 0]_vars
  BY StepFenced DEF Fenced
<1> QED
  BY <1>1, TypeCorrect, PTL DEF Spec, FencedLease

----------------------------------------------------------------------------
(* The pipeline implements the decision log *)

\* The empty database is an empty decision log.
LEMMA InitLog == Init => Log!Init
BY DEF Init, Log!Init, Phase

\* A step that keeps alerts and every event's phase is a stuttering step.
LEMMA SamePhases ==
    ASSUME alerts' = alerts, \A e \in Events : Phase(e)' = Phase(e)
    PROVE  UNCHANGED Log!vars
BY DEF Log!vars

\* An event whose row stays and whose job stays in or out of the live
\* statuses keeps its phase.
LEMMA SamePhase ==
    ASSUME NEW e \in Events, event'[e] = event[e],
           (job'[e].status \in Live) = (job[e].status \in Live)
    PROVE  Phase(e)' = Phase(e)
BY DEF Phase

\* A commit settles its event in the decision log.
LEMMA CommitLog ==
    ASSUME Inv, NEW w \in Workers, NEW e \in Events, NEW D \in SUBSET AlertsOf(e),
           job[e].status = "leased", event' = event, alerts' = alerts \cup D,
           job'[e].status \in Terminal, \A f \in Events : f # e => job'[f] = job[f]
    PROVE  Log!Settle(e, D)
<1>1. Phase(e) = "open" /\ Phase(e)' = "settled"
  BY DEF Phase, Inv, TypeOK
<1>2. \A f \in Events : f # e => Phase(f)' = Phase(f)
  BY SamePhase
<1>3. Log!AlertsOf(e) \cap alerts = {}
  BY DEF Log!AlertsOf, Inv, AlertsSettled
<1> QED
  BY <1>1, <1>2, <1>3 DEF Log!Settle

\* Every step of the pipeline is a step of the decision log or leaves it alone.
LEMMA StepLog == Inv /\ [Next]_vars => [Log!Next]_(Log!vars)
<1> SUFFICES ASSUME Inv, [Next]_vars PROVE Log!Next \/ UNCHANGED Log!vars
  OBVIOUS
<1>0. TypeOK
  BY DEF Inv
<1>1. CASE UNCHANGED <<event, job, alerts>>
  BY <1>1, SamePhases DEF Phase
<1>2. ASSUME NEW batch \in SUBSET (Events \X Payloads), IngestEvents(batch) PROVE Log!Next
  <2> DEFINE fresh == {e \in Events : event[e] = NoPayload /\ \E p \in Payloads : <<e, p>> \in batch}
  <2>1. /\ alerts' = alerts
        /\ \A e \in Events : e \notin fresh => event'[e] = event[e] /\ job'[e] = job[e]
        /\ \A e \in fresh : event'[e] \in Payloads /\ job'[e] = PendingJob
    BY <1>2 DEF IngestEvents
  <2>2. \A e \in Events : e \in fresh => Phase(e) = "absent" /\ Phase(e)' = "open"
    BY <2>1, MarkerAssumption DEF Phase
  <2>3. \A e \in Events : e \notin fresh => Phase(e)' = Phase(e)
    BY <2>1, SamePhase
  <2>4. fresh \in SUBSET Events
    OBVIOUS
  <2> HIDE DEF fresh
  <2>5. Log!Accept(fresh)
    BY <2>1, <2>2, <2>3, <2>4 DEF Log!Accept
  <2> QED
    BY <2>4, <2>5 DEF Log!Next
<1>3. ASSUME NEW w \in Workers, LeaseJobs(w) PROVE UNCHANGED Log!vars
  <2>1. /\ alerts' = alerts /\ event' = event
        /\ \A e \in Events : \/ job'[e] = job[e]
                             \/ job[e].status \in Live /\ job'[e].status = "leased"
    BY <1>3, ReadyRows DEF LeaseJobs
  <2>2. \A e \in Events : Phase(e)' = Phase(e)
    BY <2>1, SamePhase
  <2> QED
    BY <2>1, <2>2, SamePhases
<1>4. ASSUME NEW w \in Workers, NEW e \in Events, Commit(w, e) PROVE Log!Next
  <2> DEFINE D == worker[w].decision \ alerts
  <2>1. /\ D \in SUBSET AlertsOf(e)
        /\ job[e].status = "leased"
        /\ event' = event
        /\ alerts' = alerts \cup D
        /\ job' = Closed(e, "succeeded", 0)
    BY <1>4 DEF Commit, HoldsLease, OwnsRow, Inv, DecisionScope
  <2>2. job'[e] = Unleased("succeeded", job[e].attempts, 0) /\ \A f \in Events : f # e => job'[f] = job[f]
    BY <1>0, <2>1, ClosedAt
  <2>3. job'[e].status \in Terminal
    BY <2>2
  <2> HIDE DEF D
  <2>4. Log!Settle(e, D)
    BY <2>1, <2>2, <2>3, CommitLog
  <2> QED
    BY <2>1, <2>4 DEF Log!Next, Log!AlertsOf, AlertsOf
<1>5. ASSUME NEW w \in Workers, FailJob(w) PROVE Log!Next \/ UNCHANGED Log!vars
  <2>1. event' = event /\ alerts' = alerts
    BY <1>5, FailCases
  <2>2. PICK e \in Events :
          \/ job' = job
          \/ OwnsRow(w, e) /\ job' = Closed(e, "dead", 0)
          \/ OwnsRow(w, e) /\ job' = Closed(e, "retry", Clip(RetryDelay(job[e].attempts) - worker[w].age))
    BY <1>5, FailCases
  <2>3. CASE job' = job
    BY <1>1, <2>1, <2>3
  <2>4. CASE OwnsRow(w, e) /\ job' = Closed(e, "dead", 0)
    <3>1. job'[e] = Unleased("dead", job[e].attempts, 0) /\ \A f \in Events : f # e => job'[f] = job[f]
      BY <1>0, <2>4, ClosedAt
    <3>2. job'[e].status \in Terminal /\ job[e].status = "leased" /\ alerts' = alerts \cup {}
      BY <2>1, <2>4, <3>1 DEF OwnsRow
    <3>3. Log!Settle(e, {})
      BY <2>1, <3>1, <3>2, CommitLog
    <3> QED
      BY <3>3 DEF Log!Next
  <2>5. CASE OwnsRow(w, e) /\ job' = Closed(e, "retry", Clip(RetryDelay(job[e].attempts) - worker[w].age))
    <3> DEFINE d == Clip(RetryDelay(job[e].attempts) - worker[w].age)
    <3>1. job'[e] = Unleased("retry", job[e].attempts, d) /\ \A f \in Events : f # e => job'[f] = job[f]
      BY <1>0, <2>5, ClosedAt
    <3> HIDE DEF d
    <3>2. job'[e].status = "retry" /\ job[e].status = "leased"
      BY <2>5, <3>1 DEF OwnsRow
    <3>3. \A f \in Events : Phase(f)' = Phase(f)
      BY <2>1, <3>1, <3>2, SamePhase
    <3> QED
      BY <2>1, <3>3, SamePhases
  <2> QED
    BY <2>2, <2>3, <2>4, <2>5
<1>6. ASSUME NEW J \in SUBSET Events, NEW E \in SUBSET Events, ApplyRetention(J, E) PROVE Log!Next
  <2>1. /\ alerts' = alerts
        /\ \A e \in Events : e \in J => job[e].status \in Terminal /\ job'[e] = NoJob
        /\ \A e \in Events : e \notin J => job'[e] = job[e]
        /\ \A e \in Events : e \notin E => event'[e] = event[e]
        /\ \A e \in Events : e \in E =>
              /\ event[e] # NoPayload /\ event'[e] = NoPayload
              /\ AlertsOf(e) \cap alerts = {}
              /\ job[e].status \in Terminal \cup {"none"}
    BY <1>6 DEF ApplyRetention, Unreferenced
  <2>2. \A e \in Events : e \in E => Phase(e) = "settled" /\ Phase(e)' = "absent"
    BY <2>1 DEF Phase
  <2>3. \A e \in Events : e \notin E => Phase(e)' = Phase(e)
    BY <2>1, SamePhase
  <2>4. \A e \in E : Log!AlertsOf(e) \cap alerts = {}
    BY <2>1 DEF Log!AlertsOf, AlertsOf
  <2>5. Log!Forget(E)
    BY <2>1, <2>2, <2>3, <2>4 DEF Log!Forget
  <2> QED
    BY <2>5 DEF Log!Next
<1>7. CASE Elapse
  <2>1. alerts' = alerts /\ event' = event
    BY <1>7 DEF Elapse
  <2>2. \A e \in Events : Phase(e)' = Phase(e)
    BY <1>0, <1>7, <2>1, ElapseRows, SamePhase
  <2> QED
    BY <2>1, <2>2, SamePhases
<1>8. ASSUME NEW w \in Workers, WorkerStep(w) PROVE Log!Next \/ UNCHANGED Log!vars
  <2>1. CASE StartCycle(w) \/ Evaluate(w) \/ Raise(w)
    BY <1>1, <2>1 DEF StartCycle, Evaluate, Raise
  <2>2. CASE PersistAlerts(w)
    BY <1>1, <1>4, <2>2, PersistCases
  <2> QED
    BY <1>3, <1>5, <1>8, <2>1, <2>2 DEF WorkerStep
<1> QED
  BY <1>1, <1>2, <1>6, <1>7, <1>8
     DEF Next, vars, CaseTransition, RecordDisposition, Tick, SlowTick, LoseCycle

\* The pipeline implements the decision log: every accepted event is decided at
\* most once, its alerts appear with that decision and at no other time, and
\* only a settled event without alerts is forgotten.
THEOREM PipelineImplementsLog == Spec => ImplementsLog
BY InitLog, StepLog, AlwaysInv, PTL DEF Spec, ImplementsLog, Log!Spec
=============================================================================
