---------------------------- MODULE DetectionJobs ----------------------------
(***************************************************************************)
(* The durable detection pipeline of one tenant of the standalone runtime: *)
(* ingestion writes an event and its job, workers lease, evaluate and      *)
(* commit jobs, analysts move cases, and retention removes settled rows.   *)
(* Every SQL transaction (BEGIN IMMEDIATE .. COMMIT) is one action.        *)
(*                                                                         *)
(* Time.  The code compares timestamps with the time a worker read at the  *)
(* start of its cycle.  Every timestamp is kept relative to the present:   *)
(* job.due is available_at - now, job.expires is lease_expires_at - now,   *)
(* worker.age is now - cycle_time.  A Tick decreases the first two and     *)
(* increases the third, so no absolute clock is needed and behaviours are  *)
(* not cut off at a last instant.                                          *)
(***************************************************************************)
EXTENDS CaseTable, Integers

CONSTANTS
    Events,       \* event ids of the tenant
    Payloads,     \* payload digests
    NoPayload,    \* marks an event row that is absent
    Workers,      \* worker ids: one per supervisor instance
    NoWorker,     \* lease_owner NULL
    EventOf,      \* [Alerts -> Events]
    Rank,         \* [Events -> Nat]: the order of lease_jobs' ORDER BY
    Limit,        \* the limit argument of lease_jobs
    Lease,        \* worker_lease_seconds
    Delay,        \* retry_delay_seconds of the worker
    MaxDelay,     \* the 86400 second cap of a retry delay
    MaxAttempts,  \* worker_max_attempts
    MaxLag,       \* bound: ticks between reading the cycle time and leasing
    MaxLost,      \* bound: cycles lost to a crash or an escaping exception
    MaxSlow       \* bound: ticks by which a worker overruns its own lease

ASSUME EventAssumption ==
    /\ EventOf \in [Alerts -> Events]
    /\ Rank \in [Events -> Nat]
    /\ \A e, f \in Events : e # f => Rank[e] # Rank[f]
ASSUME MarkerAssumption == NoPayload \notin Payloads /\ NoWorker \notin Workers
ASSUME BoundAssumption ==
    /\ {Limit, Lease, MaxAttempts} \subseteq Nat \ {0}
    /\ {Delay, MaxDelay, MaxLag, MaxLost, MaxSlow} \subseteq Nat
\* Alerts of one event come from different rules.
ASSUME RuleAssumption ==
    \A a, b \in Alerts : EventOf[a] = EventOf[b] /\ a # b => KeyOf[a] # KeyOf[b]

VARIABLES
    event,    \* [Events -> payload digest]: the events table
    job,      \* [Events -> JobRecord]: the detection_jobs table
    alerts,   \* the alerts table
    cases,    \* [Alerts -> CaseRecord]: the cases table
    links,    \* the case_alerts table: pairs (case, alert)
    worker,   \* [Workers -> WorkerRecord]: run_once's local variables
    reclaims, \* history: [Events -> number of times an expired lease was taken over]
    lost,     \* history: cycles lost so far
    slow      \* history: overruns so far

caseVars == <<cases, links>>
vars == <<event, job, alerts, cases, links, worker, reclaims, lost, slow>>

JobStatuses == {"none", "pending", "leased", "retry", "succeeded", "dead"}
Terminal == {"succeeded", "dead"}
Live == {"pending", "leased", "retry"}

JobRecord ==
    [status : JobStatuses, attempts : Nat, due : Int, owner : Workers \cup {NoWorker},
     expires : Int]

\* A row without a lease, and one with.
Unleased(s, n, due) ==
    [status |-> s, attempts |-> n, due |-> due, owner |-> NoWorker, expires |-> 0]

Leased(n, w, expires) ==
    [status |-> "leased", attempts |-> n, due |-> 0, owner |-> w, expires |-> expires]

NoJob == Unleased("none", 0, 0)

\* The row _ingest_on_connection inserts: available at once.
PendingJob == Unleased("pending", 0, 0)

Pcs == {"idle", "leasing", "working", "deciding", "failing"}

WorkerRecord ==
    [pc : Pcs, age : Nat, todo : SUBSET Events, seen : Payloads \cup {NoPayload},
     decision : SUBSET Alerts]

WorkerAt(pc, age, todo, seen, decision) ==
    [pc |-> pc, age |-> age, todo |-> todo, seen |-> seen, decision |-> decision]

IdleWorker == WorkerAt("idle", 0, {}, NoPayload, {})

AlertsOf(e) == {a \in Alerts : EventOf[a] = e}

\* Timestamps further back than MaxLag are never told apart.
Earlier(t) == IF t > -MaxLag THEN t - 1 ELSE t
Clip(t) == IF t > -MaxLag THEN t ELSE -MaxLag
MaxAge == MaxLag + Lease + MaxDelay

----------------------------------------------------------------------------
Init ==
    /\ event = [e \in Events |-> NoPayload]
    /\ job = [e \in Events |-> NoJob]
    /\ alerts = {}
    /\ cases = [a \in Alerts |-> NoCase]
    /\ links = {}
    /\ worker = [w \in Workers |-> IdleWorker]
    /\ reclaims = [e \in Events |-> 0]
    /\ lost = 0
    /\ slow = 0

----------------------------------------------------------------------------
(* Ingestion *)

\* EventIdentityConflict: a digest that differs from the stored one, or from
\* the one an earlier event of the batch just stored.
Conflicting(batch) ==
    \/ \E b \in batch : event[b[1]] \notin {NoPayload, b[2]}
    \/ \E b, c \in batch : b[1] = c[1] /\ b[2] # c[2]

\* The whole batch is one transaction: a conflict rolls all of it back.  A
\* known event is ignored, and its job is not written again.
IngestEvents(batch) ==
    /\ batch # {}
    /\ ~Conflicting(batch)
    /\ LET fresh == {e \in Events : event[e] = NoPayload /\ \E p \in Payloads : <<e, p>> \in batch}
       IN  /\ fresh # {}
           /\ event' = [e \in Events |->
                  IF e \in fresh THEN CHOOSE p \in Payloads : <<e, p>> \in batch
                  ELSE event[e]]
           /\ job' = [e \in Events |-> IF e \in fresh THEN PendingJob ELSE job[e]]
           /\ reclaims' = [e \in Events |-> IF e \in fresh THEN 0 ELSE reclaims[e]]
    /\ UNCHANGED <<alerts, caseVars, worker, lost, slow>>

----------------------------------------------------------------------------
(* The worker *)

\* run_cycle reads the clock once; the tenants before this one may take a while.
StartCycle(w) ==
    /\ worker[w].pc = "idle"
    /\ worker' = [worker EXCEPT ![w].pc = "leasing"]
    /\ UNCHANGED <<event, job, alerts, caseVars, reclaims, lost, slow>>

\* Fault: a lease is never taken over.
ReadyWithoutReclaim(age) ==
    {e \in Events : job[e].status \in {"pending", "retry"} /\ job[e].due + age <= 0}

\* Fault: a dead letter is leased again.
ReadyWithDead(age) ==
    {e \in Events :
        \/ job[e].status \in {"pending", "retry", "dead"} /\ job[e].due + age <= 0
        \/ job[e].status = "leased" /\ job[e].expires + age <= 0}

\* The jobs lease_jobs selects for a worker whose cycle began age ticks ago.
Ready(age) ==
    {e \in Events :
        \/ job[e].status \in {"pending", "retry"} /\ job[e].due + age <= 0
        \/ job[e].status = "leased" /\ job[e].expires + age <= 0}

\* ORDER BY .. LIMIT
FirstOf(S) == {e \in S : Cardinality({f \in S : Rank[f] < Rank[e]}) < Limit}

LeaseJobs(w) ==
    LET me == worker[w]
        batch == FirstOf(Ready(me.age))
    IN  /\ me.pc = "leasing"
        /\ job' = [e \in Events |->
              IF e \in batch THEN Leased(job[e].attempts + 1, w, Clip(Lease - me.age))
              ELSE job[e]]
        /\ reclaims' = [e \in Events |->
              IF e \in batch /\ job[e].status = "leased" THEN reclaims[e] + 1
              ELSE reclaims[e]]
        /\ worker' = [worker EXCEPT ![w] =
              IF batch = {} THEN IdleWorker
              ELSE WorkerAt("working", me.age, batch, NoPayload, {})]
        /\ UNCHANGED <<event, alerts, caseVars, lost, slow>>

\* The lease the worker is processing: run_once goes through them in order.
IsCurrent(w, e) ==
    /\ e \in worker[w].todo
    /\ \A f \in worker[w].todo : Rank[e] <= Rank[f]

\* load_event, load_detection_history and the detector, outside a transaction.
\* A correlation's answer depends on the history stored at this moment, so any
\* set of the event's alerts may come out.
Evaluate(w) ==
    /\ worker[w].pc = "working"
    /\ \E e \in Events :
        /\ IsCurrent(w, e)
        /\ event[e] # NoPayload
        /\ \E D \in SUBSET AlertsOf(e) :
              worker' = [worker EXCEPT ![w] =
                  WorkerAt("deciding", worker[w].age, worker[w].todo, event[e], D)]
    /\ UNCHANGED <<event, job, alerts, caseVars, reclaims, lost, slow>>

\* Any exception in the body of the loop, among them a missing event, a
\* detector error and a database error that rolled the commit back.
Raise(w) ==
    /\ worker[w].pc \in {"working", "deciding"}
    /\ worker' = [worker EXCEPT ![w].pc = "failing"]
    /\ UNCHANGED <<event, job, alerts, caseVars, reclaims, lost, slow>>

\* The worker goes on to its next lease, or its cycle ends.
NextLease(w, e) ==
    worker' = [worker EXCEPT ![w] =
        IF worker[w].todo = {e} THEN IdleWorker
        ELSE WorkerAt("working", worker[w].age, worker[w].todo \ {e}, NoPayload, {})]

\* Fault: the owner of the lease is not compared.
OwnsAnyRow(w, e) == job[e].status = "leased"

OwnsRow(w, e) == job[e].status = "leased" /\ job[e].owner = w

HoldsLease(w, e) == OwnsRow(w, e) /\ job[e].expires + worker[w].age > 0

\* Fault: the lease owner is not cleared.
ClosedKeepingOwner(e, s, due) ==
    [job EXCEPT ![e] = [status |-> s, attempts |-> job[e].attempts, due |-> due,
                        owner |-> job[e].owner, expires |-> 0]]

Closed(e, s, due) == [job EXCEPT ![e] = Unleased(s, job[e].attempts, due)]

\* persist_alerts_and_complete_job: alerts, cases, links and the job's success
\* in one transaction, and LeaseOwnershipError when the lease is not held.
PersistAlerts(w) ==
    /\ worker[w].pc = "deciding"
    /\ \E e \in Events :
        /\ IsCurrent(w, e)
        /\ \/ /\ HoldsLease(w, e)
              /\ LET N == worker[w].decision \ alerts
                 IN  /\ alerts' = alerts \cup N
                     /\ cases' = CasesAfter(cases, N)
                     /\ links' = LinksAfter(cases, links, N)
              /\ job' = Closed(e, "succeeded", 0)
              /\ NextLease(w, e)
           \/ /\ ~HoldsLease(w, e)
              /\ worker' = [worker EXCEPT ![w].pc = "failing"]
              /\ UNCHANGED <<job, alerts, caseVars>>
    /\ UNCHANGED <<event, reclaims, lost, slow>>

\* retry_delay_seconds * 2^min(attempts - 1, 10), at most a day.
RetryDelay(n) ==
    LET d == Delay * 2^(IF n - 1 <= 10 THEN n - 1 ELSE 10)
    IN  IF d <= MaxDelay THEN d ELSE MaxDelay

\* Fault: one attempt too many before the dead letter.
FailJobLate(w) ==
    /\ worker[w].pc = "failing"
    /\ \E e \in Events :
        /\ IsCurrent(w, e)
        /\ job' = IF ~OwnsRow(w, e) THEN job
                  ELSE IF job[e].attempts > MaxAttempts THEN Closed(e, "dead", 0)
                  ELSE Closed(e, "retry", Clip(RetryDelay(job[e].attempts) - worker[w].age))
        /\ NextLease(w, e)
    /\ UNCHANGED <<event, alerts, caseVars, reclaims, lost, slow>>

\* Fault: a row that was taken over is failed all the same.
FailJobUnfenced(w) ==
    /\ worker[w].pc = "failing"
    /\ \E e \in Events :
        /\ IsCurrent(w, e)
        /\ job' = IF job[e].status # "leased" THEN job
                  ELSE IF job[e].attempts >= MaxAttempts THEN Closed(e, "dead", 0)
                  ELSE Closed(e, "retry", Clip(RetryDelay(job[e].attempts) - worker[w].age))
        /\ NextLease(w, e)
    /\ UNCHANGED <<event, alerts, caseVars, reclaims, lost, slow>>

\* fail_job: the row the worker still owns is retried or dead-lettered, a row it
\* has lost is left alone.  The expiry of the lease is not looked at.
FailJob(w) ==
    /\ worker[w].pc = "failing"
    /\ \E e \in Events :
        /\ IsCurrent(w, e)
        /\ job' = IF ~OwnsRow(w, e) THEN job
                  ELSE IF job[e].attempts >= MaxAttempts THEN Closed(e, "dead", 0)
                  ELSE Closed(e, "retry", Clip(RetryDelay(job[e].attempts) - worker[w].age))
        /\ NextLease(w, e)
    /\ UNCHANGED <<event, alerts, caseVars, reclaims, lost, slow>>

\* The process dies, or a database error leaves run_once (run's except keeps
\* the supervisor alive): the rest of the cycle's leases are abandoned.
LoseCycle(w) ==
    /\ worker[w].pc # "idle"
    /\ lost < MaxLost
    /\ lost' = lost + 1
    /\ worker' = [worker EXCEPT ![w] = IdleWorker]
    /\ UNCHANGED <<event, job, alerts, caseVars, reclaims, slow>>

----------------------------------------------------------------------------
(* Retention and analysts *)

\* Fault: events that alerts quote are removed too.
UnreferencedByJobs(kept) == {e \in Events : event[e] # NoPayload /\ e \notin kept}

\* RetentionService.apply: terminal jobs older than the cutoff, then events
\* older than the cutoff that no job and no alert refers to.  Which rows are
\* older is left open: any settled row may be.
Unreferenced(kept) ==
    {e \in Events : event[e] # NoPayload /\ e \notin kept /\ AlertsOf(e) \cap alerts = {}}

ApplyRetention(oldJobs, oldEvents) ==
    LET kept == {e \in Events : job[e].status # "none"} \ oldJobs
    IN  /\ oldJobs \subseteq {e \in Events : job[e].status \in Terminal}
        /\ oldEvents \subseteq Unreferenced(kept)
        /\ oldJobs \cup oldEvents # {}
        /\ job' = [e \in Events |-> IF e \in oldJobs THEN NoJob ELSE job[e]]
        /\ event' = [e \in Events |-> IF e \in oldEvents THEN NoPayload ELSE event[e]]
        /\ UNCHANGED <<alerts, caseVars, worker, reclaims, lost, slow>>

CaseTransition(c, s) ==
    /\ CanTransition(cases, c, s)
    /\ cases' = Transitioned(cases, c, s)
    /\ UNCHANGED <<event, job, alerts, links, worker, reclaims, lost, slow>>

\* record_disposition accepts any case, a closed one too.
RecordDisposition(c) ==
    /\ cases[c].status # "none"
    /\ ~cases[c].disposed
    /\ cases' = [cases EXCEPT ![c].disposed = TRUE]
    /\ UNCHANGED <<event, job, alerts, links, worker, reclaims, lost, slow>>

----------------------------------------------------------------------------
(* Time *)

\* The next tick makes a worker outlive a lease it still works on, or lets its
\* cycle time grow so old that its leases expire as they are taken.
Overruns(w) ==
    \/ \E e \in worker[w].todo : OwnsRow(w, e) /\ job[e].expires = 1
    \/ worker[w].pc = "leasing" /\ worker[w].age + 1 = Lease

Elapse ==
    /\ \A w \in Workers : worker[w].pc = "leasing" => worker[w].age < MaxLag
    /\ job' = [e \in Events |->
          IF job[e].status \in {"pending", "retry"}
          THEN Unleased(job[e].status, job[e].attempts, Earlier(job[e].due))
          ELSE IF job[e].status = "leased"
          THEN Leased(job[e].attempts, job[e].owner, Earlier(job[e].expires))
          ELSE job[e]]
    /\ worker' = [w \in Workers |->
          IF worker[w].pc = "idle" \/ worker[w].age = MaxAge THEN worker[w]
          ELSE WorkerAt(worker[w].pc, worker[w].age + 1, worker[w].todo, worker[w].seen,
                        worker[w].decision)]
    /\ UNCHANGED <<event, alerts, caseVars, reclaims, lost>>

Tick ==
    /\ \A w \in Workers : ~Overruns(w)
    /\ Elapse
    /\ slow' = slow

SlowTick ==
    /\ \E w \in Workers : Overruns(w)
    /\ slow < MaxSlow
    /\ Elapse
    /\ slow' = slow + 1

----------------------------------------------------------------------------
WorkerStep(w) ==
    \/ StartCycle(w)
    \/ LeaseJobs(w)
    \/ Evaluate(w)
    \/ Raise(w)
    \/ PersistAlerts(w)
    \/ FailJob(w)

Next ==
    \/ \E batch \in SUBSET (Events \X Payloads) : IngestEvents(batch)
    \/ \E w \in Workers : WorkerStep(w)
    \/ \E w \in Workers : LoseCycle(w)
    \/ \E oldJobs, oldEvents \in SUBSET Events : ApplyRetention(oldJobs, oldEvents)
    \/ \E c \in Alerts, s \in CaseStatuses : CaseTransition(c, s)
    \/ \E c \in Alerts : RecordDisposition(c)
    \/ Tick
    \/ SlowTick

Spec == Init /\ [][Next]_vars

\* The supervisor's loop keeps every worker going, and time passes however
\* busy the workers are.
Fairness ==
    /\ \A w \in Workers : WF_vars(WorkerStep(w))
    /\ SF_vars(Tick)

FairSpec == Spec /\ Fairness
----------------------------------------------------------------------------
(* Properties *)

\* Types, and the row constraints that lease_jobs and the transitions keep: a
\* row has a lease owner exactly while it is leased, a leased row has been
\* attempted, and a job row has an event row (its foreign key).
TypeOK ==
    /\ event \in [Events -> Payloads \cup {NoPayload}]
    /\ job \in [Events -> JobRecord]
    /\ alerts \subseteq Alerts
    /\ cases \in [Alerts -> CaseRecord]
    /\ links \subseteq Alerts \X Alerts
    /\ worker \in [Workers -> WorkerRecord]
    /\ reclaims \in [Events -> Nat]
    /\ lost \in Nat
    /\ slow \in Nat
    /\ \A e \in Events : (job[e].owner # NoWorker) = (job[e].status = "leased")
    /\ \A e \in Events : job[e].status = "leased" => job[e].attempts > 0
    /\ \A e \in Events : job[e].status # "none" => event[e] # NoPayload

\* The alerts of an event exist only once its job has succeeded (the row may
\* have been removed since), and the event they quote as evidence is still
\* stored: persist_alerts_and_complete_job is all or nothing, a later worker, a
\* redelivery or retention never leaves alerts beside an undecided job.
AlertsSettled ==
    \A a \in alerts :
        /\ event[EventOf[a]] # NoPayload
        /\ job[EventOf[a]].status \in {"none", "succeeded"}

\* Two cases that are not closed never share a semantic key, whatever the
\* order of commits, closes and reopens (idx_cases_open_semantic is never hit).
OneActiveCase ==
    \A c, d \in Alerts :
        IsActive(cases, c) /\ IsActive(cases, d) /\ KeyOf[c] = KeyOf[d] => c = d

\* Every alert is linked to exactly one case, an existing one of its own key,
\* although its event may have been leased and evaluated several times.
LinkedOnce ==
    \A a \in Alerts :
        LET linked == {c \in Alerts : <<c, a>> \in links}
        IN  IF a \in alerts
            THEN \E c \in Alerts :
                    linked = {c} /\ cases[c].status # "none" /\ KeyOf[c] = KeyOf[a]
            ELSE linked = {}

\* Together: close, a successor founded by a recurring alert, and reopen may
\* come in any order, and each alert still belongs to one case and each key
\* has one case that an analyst works on.
CasesConsistent == OneActiveCase /\ LinkedOnce

\* A case's priority is at least that of every alert linked to it, the ones
\* that joined it later included.
PriorityCovers ==
    \A l \in links : cases[l[1]].priority >= PriorityOf[l[2]]

\* A job is attempted more often than worker_max_attempts only because leases
\* were taken over from workers that died or overran: each take-over adds one.
AttemptsBounded ==
    \A e \in Events : job[e].attempts <= MaxAttempts + reclaims[e]

\* A commit quotes the digest of the event row it finds (source_event_sha256)
\* beside alerts that were computed from the row loaded before: while the
\* worker may commit, the two are the same row, even if the event was removed
\* by retention and delivered again with another payload in between.
EvidenceMatches ==
    \A w \in Workers, e \in Events :
        worker[w].pc = "deciding" /\ IsCurrent(w, e) /\ HoldsLease(w, e)
            => worker[w].seen = event[e] /\ worker[w].decision \subseteq AlertsOf(e)

\* A lease is a fence: a leased row changes hands or status only when the
\* worker that owns it finishes it, or once the lease has expired.  A worker
\* that was overtaken can neither commit nor fail the row of its successor.
FencedLease ==
    [][\A e \in Events, w \in Workers :
        OwnsRow(w, e) /\ ~(job'[e].status = "leased" /\ job'[e].owner = w)
            => \/ e \in worker[w].todo /\ e \notin worker'[w].todo
               \/ job[e].expires <= 0]_vars

\* The pipeline implements the decision log.
Phase(e) ==
    CASE event[e] = NoPayload -> "absent"
      [] event[e] # NoPayload /\ job[e].status \in Live -> "open"
      [] OTHER -> "settled"

Log == INSTANCE DecisionLog WITH phase <- [e \in Events |-> Phase(e)]

\* Every behaviour of the pipeline is one of the decision log: each accepted
\* event is decided at most once, and its alerts appear with that decision.
ImplementsLog == Log!Spec

\* Every accepted event is eventually decided or dead-lettered, although
\* workers lose cycles and overrun leases a bounded number of times.
EventSettles ==
    \A e \in Events : job[e].status \in Live ~> job[e].status \notin Live
=============================================================================
