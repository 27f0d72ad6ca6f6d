------------------------- MODULE CollectorTelemetry -------------------------
(***************************************************************************)
(* Telemetry of one endpoint: the Santa log and its rotation, the log      *)
(* reader and its saved cursor, the agent's SQLite spool with the control  *)
(* snapshot row and the retry circuit of delivery, one run of the          *)
(* collector after another, and the appliance's ingestion.  launchd starts *)
(* one run at a time; a run dies anywhere and every commit before that     *)
(* stays.  A batch goes out again until it is acknowledged, and ingestion  *)
(* keeps one event per event id.  Waits and ages are kept as the time that *)
(* remains, so time itself is not bounded.                                 *)
(***************************************************************************)
EXTENDS Integers, FiniteSets, Sequences

CONSTANTS
    MaxMoves,        \* bound on lines, rotations, releases and changed reports
    Kinds,           \* the kinds of line that are written
    Postures,        \* the control reports the probes may produce
    MaxEventsPerRun, \* max_events_per_run
    MaxReadUnits,    \* max_read_bytes, in units of a short line
    MaxBatchEvents,  \* the ingestion schema's events per batch, 1000
    FlushLimit,      \* delivery_flush_batch_limit
    Interval,        \* control_snapshot_interval_seconds, in ticks
    InitialDelay,    \* retry_backoff_initial_seconds, in ticks
    MaxDelay,        \* retry_backoff_max_seconds, in ticks
    MaxStreak,       \* failures that are counted, 31 in the code
    MaxFaults        \* bound on crashes, lost requests and failed reads

ASSUME TelemetryAssumption ==
    /\ {MaxMoves, MaxEventsPerRun, MaxReadUnits,
        MaxBatchEvents, FlushLimit, Interval, InitialDelay, MaxDelay,
        MaxStreak} \subseteq Nat \ {0}
    /\ MaxFaults \in Nat
    /\ Kinds \subseteq {"event", "wide", "other", "junk", "huge", "long"}
    /\ Postures # {} /\ "unknown" \notin Postures
    /\ InitialDelay <= MaxDelay
    /\ MaxReadUnits >= 2   \* max_read_bytes is above max_line_bytes

VARIABLES
    files,     \* the log files since start, the last is the one being written
    torn,      \* the last line of the log still lacks its newline
    posture,   \* what the probes would report now
    moves,     \* lines, rotations, releases and changed reports so far
    pf,        \* the endpoint's containment: contained, released or silent
    spool,     \* outbound_batches in the order of created_at
    snapshot,  \* the control_snapshot_state row
    cursor,    \* the source_cursors row: inode and offset, inode 0 for none
    retry,     \* the delivery row of operation_retry_state
    pc,        \* where the run is
    report,    \* the control report of the run
    ahead,     \* the cursor the run read up to
    queue,     \* batches the run is still to deliver, from the oldest on
    outcome,   \* delivery_status of the run
    stored,    \* events the appliance holds
    known,     \* the control report the appliance knows
    faults     \* crashes, lost requests and failed reads so far

log == <<files, torn>>
world == <<posture, moves>>
run == <<report, ahead, queue>>
appliance == <<stored, known>>
vars == <<files, torn, posture, moves, pf, spool, snapshot, cursor, retry, pc,
          report, ahead, queue, outcome, stored, known, faults>>

Unknown == "unknown"
FirstPosture == CHOOSE p \in Postures : TRUE   \* whichever it is
NoCursor == [inode |-> 0, offset |-> 0]
Closed == [failures |-> 0, wait |-> 0]

\* An event is named by the file and line it came from: Santa's event id.
Release == <<0, 0>>
LineEvents == (1..(MaxMoves + 1)) \X (1..MaxMoves)
Events == LineEvents \cup {Release}

Current == Len(files)
Log == files[Current]

Move == moves < MaxMoves /\ moves' = moves + 1

Init ==
    /\ files = << <<>> >> /\ torn = FALSE
    /\ posture = FirstPosture /\ moves = 0
    /\ pf = "contained"
    /\ spool = <<>>
    /\ snapshot = [print |-> Unknown, pending |-> 0, age |-> 0]
    /\ cursor = NoCursor
    /\ retry = Closed
    /\ pc = "idle"
    /\ report = Unknown /\ ahead = NoCursor /\ queue = 0
    /\ outcome = "none"
    /\ stored = {} /\ known = Unknown
    /\ faults = 0

-----------------------------------------------------------------------------
(* The Santa log reader *)

\* _parse_line: a line that is no JSON record is counted and consumed, a
\* record of a kind that is not collected yields nothing.
Yields(kind) == kind \in {"event", "wide", "long"}

\* _normalize bounds a path at 2048 characters and a user at 320, more than
\* the ingestion schema accepts of a target or an actor.
Oversized(e) == e # Release /\ files[e[1]][e[2]] = "long"

\* Both limits are in bytes; a wide line is within the line limit.
Units(kind) == IF kind = "wide" THEN 2 ELSE 1

CompleteLines == IF torn THEN Len(Log) - 1 ELSE Len(Log)

\* The saved cursor counts only for the file it was taken from.
StartOffset ==
    IF cursor.inode = Current /\ cursor.offset <= Len(Log) THEN cursor.offset ELSE 0

EventsIn(from, to) == {i \in (from + 1)..to : Yields(Log[i])}

UnitsIn(from, to) ==
    Cardinality({i \in (from + 1)..to : TRUE})
        + Cardinality({i \in (from + 1)..to : Units(Log[i]) = 2})

\* The loop of read: it goes on to line `to` when the events so far leave
\* room and the bytes, this line included, are within the limit.
Reaches(from, to) ==
    /\ to <= CompleteLines
    /\ Cardinality(EventsIn(from, to - 1)) < MaxEventsPerRun
    /\ UnitsIn(from, to) <= MaxReadUnits

\* read: the offset the reader stops at.
Consumed(from) ==
    LET ends == {to \in from..Len(Log) :
                    \A k \in (from + 1)..to : Reaches(from, k)}
    IN  CHOOSE to \in ends : \A k \in ends : k <= to

NextCursorAtEnd == [inode |-> Current, offset |-> Len(Log)]

\* The cursor that read returns.
NextCursor == [inode |-> Current, offset |-> Consumed(StartOffset)]

\* A line above max_line_bytes raises, complete or not, as soon as the loop
\* asks for it; the byte limit is checked only after that.
Raises(from) ==
    LET next == Consumed(from) + 1
    IN  \E to \in (from + 1)..Len(Log) :
            /\ Log[to] = "huge"
            /\ to <= next
            /\ Cardinality(EventsIn(from, to - 1)) < MaxEventsPerRun

-----------------------------------------------------------------------------
(* The spool *)

Spooled == UNION {spool[i].events : i \in DOMAIN spool}

\* enqueue: one batch of events without a control snapshot.
Enqueue(events) ==
    spool' = Append(spool, [snap |-> Unknown, events |-> events])

ControlDueOnSchedule(print) ==
    /\ snapshot.pending = 0
    /\ snapshot.age >= Interval \/ snapshot.print = Unknown

\* A snapshot is due when it differs from the last one, or when that one has
\* been acknowledged and the interval has passed.
ControlDue(print) ==
    \/ snapshot.print # print
    \/ snapshot.pending = 0 /\ snapshot.age >= Interval

\* enqueue_collected: one transaction for the batch and the snapshot row.
EnqueueCollected(print, events) ==
    IF ControlDue(print)
    THEN /\ spool' = Append(spool, [snap |-> print, events |-> events])
         /\ snapshot' = [print |-> print, pending |-> Len(spool) + 1, age |-> 0]
    ELSE /\ snapshot' = snapshot
         /\ IF events = {} THEN spool' = spool ELSE Enqueue(events)

\* acknowledge: the batch, which is the oldest, goes and the snapshot row no
\* longer names it.
AcknowledgeOldest ==
    /\ spool' = Tail(spool)
    /\ snapshot' = [snapshot EXCEPT !.pending = IF @ = 0 THEN 0 ELSE @ - 1]

\* pending_summary and pending: how many batches wait, and the oldest of them
\* that one flush takes.
PendingSummary == Len(spool)
Pending == IF PendingSummary < FlushLimit THEN PendingSummary ELSE FlushLimit

RetryReady == retry.wait = 0

DelaysUncapped(streak) ==
    LET base == InitialDelay * 2^(streak - 1)
    IN  (base - base \div 2)..(base + base \div 2)

\* The delays that jitter makes of the exponential one.
Delays(streak) ==
    LET base == IF InitialDelay * 2^(streak - 1) <= MaxDelay
                THEN InitialDelay * 2^(streak - 1) ELSE MaxDelay
    IN  {d \in 1..MaxDelay : base - base \div 2 <= d /\ d <= base + base \div 2}

\* record_retry_failure.
RecordFailure ==
    LET streak == IF retry.failures < MaxStreak THEN retry.failures + 1 ELSE MaxStreak
    IN  \E d \in Delays(streak) : retry' = [failures |-> streak, wait |-> d]

ClearRetry == retry' = Closed

-----------------------------------------------------------------------------
(* Ingestion *)

\* CollectorEventBatch and CollectorSecurityEvent: how many events, how long
\* a target; a control snapshot counts as one event here.
Acceptable(b) ==
    /\ Cardinality(b.events) + (IF b.snap = Unknown THEN 0 ELSE 1) <= MaxBatchEvents
    /\ ~ \E e \in b.events : Oversized(e)

\* ingest: an event id that is already there is not stored again.
Ingest(b) ==
    /\ stored' = stored \cup b.events
    /\ known' = IF b.snap = Unknown THEN known ELSE b.snap

-----------------------------------------------------------------------------
(* A run of the collector *)

StartRunUnspooled ==
    /\ pc = "idle"
    /\ \/ pf = "contained" /\ Move /\ pf' = "released"
       \/ pf' = pf /\ moves' = moves
    /\ pc' = "collect"
    /\ UNCHANGED <<log, posture, spool, snapshot, cursor, retry, run, outcome,
                   appliance, faults>>

\* The next run starts with nothing but what was committed.
EndRun ==
    /\ pc' = "idle"
    /\ report' = Unknown /\ ahead' = NoCursor /\ queue' = 0
    /\ outcome' = "none"

\* run_once up to reconcile, which may release an expired containment and
\* then deletes its state.  CredentialRotation models the rotation before it.
StartRun ==
    /\ pc = "idle"
    /\ \/ /\ pf = "contained" /\ Move
          /\ pf' = "released"
          /\ pc' = "transition"
       \/ /\ pf' = pf /\ moves' = moves
          /\ pc' = "collect"
    /\ UNCHANGED <<log, posture, spool, snapshot, cursor, retry, run, outcome,
                   appliance, faults>>

\* _reconciliation_event goes into a batch of its own at once.
SpoolTransition ==
    /\ pc = "transition"
    /\ Enqueue({Release})
    /\ pc' = "collect"
    /\ UNCHANGED <<log, world, pf, snapshot, cursor, retry, run, outcome,
                   appliance, faults>>

\* The control report, the log read from the saved cursor, and one commit of
\* what they found.  A reader that raises leaves its cursor where it was.
Collect ==
    /\ pc = "collect"
    /\ report' = posture
    /\ \/ /\ ~Raises(StartOffset)
          /\ ahead' = NextCursor
          /\ EnqueueCollected(posture,
                 {<<Current, i>> : i \in EventsIn(StartOffset, Consumed(StartOffset))})
          /\ faults' = faults
       \/ /\ Raises(StartOffset)
          /\ ahead' = NoCursor
          /\ EnqueueCollected(posture, {})
          /\ faults' = faults
       \/ /\ faults < MaxFaults  \* the log is missing or may not be read
          /\ faults' = faults + 1
          /\ ahead' = NoCursor
          /\ EnqueueCollected(posture, {})
    /\ pc' = "save"
    /\ UNCHANGED <<log, world, pf, cursor, retry, queue, outcome, appliance>>

\* save_source_cursor: a commit of its own.
SaveCursor ==
    /\ pc = "save"
    /\ cursor' = IF ahead = NoCursor THEN cursor ELSE ahead
    /\ ahead' = NoCursor
    /\ pc' = "flush"
    /\ UNCHANGED <<log, world, pf, spool, snapshot, retry, report, queue, outcome,
                   appliance, faults>>

\* _flush: nothing to do, a circuit that is open, or the oldest batches.
BeginFlush ==
    /\ pc = "flush"
    /\ \/ /\ PendingSummary = 0
          /\ ClearRetry
          /\ pc' = "actions" /\ outcome' = "not_attempted" /\ queue' = 0
       \/ /\ PendingSummary > 0 /\ ~RetryReady
          /\ retry' = retry
          /\ pc' = "actions" /\ outcome' = "backlogged" /\ queue' = 0
       \/ /\ PendingSummary > 0 /\ RetryReady
          /\ retry' = retry
          /\ pc' = "send" /\ outcome' = outcome
          /\ queue' = Pending
    /\ UNCHANGED <<log, world, pf, spool, snapshot, cursor, report, ahead,
                   appliance, faults>>

\* One batch is posted.  Without a fault it is stored or refused; with one
\* the request is lost, or the answer after the batch was stored.
Send ==
    /\ pc = "send"
    /\ LET b == Head(spool)
       IN  \/ /\ Acceptable(b)
              /\ Ingest(b)
              /\ pc' = "sent" /\ faults' = faults
           \/ /\ ~Acceptable(b)
              /\ pc' = "refused"
              /\ UNCHANGED <<appliance, faults>>
           \/ /\ faults < MaxFaults
              /\ faults' = faults + 1
              /\ pc' = "refused"
              /\ \/ UNCHANGED appliance
                 \/ Acceptable(b) /\ Ingest(b)
    /\ UNCHANGED <<log, world, pf, spool, snapshot, cursor, retry, run, outcome>>

\* A stored batch is acknowledged; after the last one the circuit closes.
Acknowledge ==
    /\ pc = "sent"
    /\ AcknowledgeOldest
    /\ queue' = queue - 1
    /\ IF queue > 1
       THEN pc' = "send" /\ UNCHANGED <<retry, outcome>>
       ELSE /\ pc' = "actions"
            /\ ClearRetry
            /\ outcome' = IF spool' = <<>> THEN "succeeded" ELSE "backlogged"
    /\ UNCHANGED <<log, world, pf, cursor, report, ahead, appliance, faults>>

FailDropping ==
    /\ pc = "refused"
    /\ RecordFailure
    /\ AcknowledgeOldest
    /\ pc' = "actions" /\ outcome' = "failed" /\ queue' = 0
    /\ UNCHANGED <<log, world, pf, cursor, report, ahead,
                   appliance, faults>>

\* fail: the batch stays first, the circuit opens and the flush ends.
Fail ==
    /\ pc = "refused"
    /\ RecordFailure
    /\ pc' = "actions" /\ outcome' = "failed" /\ queue' = 0
    /\ UNCHANGED <<log, world, pf, spool, snapshot, cursor, report, ahead,
                   appliance, faults>>

\* Actions are polled, which EndpointContainment models, and the status file
\* is written.
PollActions ==
    /\ pc = "actions"
    /\ EndRun
    /\ UNCHANGED <<log, world, pf, spool, snapshot, cursor, retry, appliance, faults>>

\* The run is killed or raises: credential rotation is unreachable, a probe
\* fails.  A containment that was released and not yet spooled goes unreported.
FailRun ==
    /\ pc # "idle"
    /\ faults < MaxFaults
    /\ faults' = faults + 1
    /\ EndRun
    /\ pf' = IF pc = "transition" THEN "silent" ELSE pf
    /\ UNCHANGED <<log, world, spool, snapshot, cursor, retry, appliance>>

-----------------------------------------------------------------------------
(* The endpoint around it *)

\* A run reads the log and the probes in one step, so a change at any other
\* step has the effect it would have at one of these: before the run, or
\* between its two commits.
Observed == pc \in {"idle", "save"}

\* Santa appends a line, at once or with its newline still to come.
Write(kind) ==
    /\ Observed /\ Move /\ ~torn
    /\ files' = [files EXCEPT ![Current] = Append(@, kind)]
    /\ torn' \in BOOLEAN
    /\ UNCHANGED <<posture, pf, spool, snapshot, cursor, retry, pc, run, outcome,
                   appliance, faults>>

Finish ==
    /\ Observed /\ torn /\ torn' = FALSE
    /\ UNCHANGED <<files, world, pf, spool, snapshot, cursor, retry, pc, run, outcome,
                   appliance, faults>>

\* The log is rotated: a new file, which has a new inode.
Rotate ==
    /\ Observed /\ Move /\ ~torn
    /\ files' = Append(files, <<>>)
    /\ UNCHANGED <<torn, posture, pf, spool, snapshot, cursor, retry, pc, run, outcome,
                   appliance, faults>>

ChangePosture ==
    /\ Observed /\ Move
    /\ posture' \in Postures \ {posture}
    /\ UNCHANGED <<log, pf, spool, snapshot, cursor, retry, pc, run, outcome,
                   appliance, faults>>

\* Time passes between two runs.
Tick ==
    /\ pc = "idle"
    /\ retry' = [retry EXCEPT !.wait = IF @ = 0 THEN 0 ELSE @ - 1]
    /\ snapshot' = [snapshot EXCEPT !.age = IF @ < Interval THEN @ + 1 ELSE @]
    /\ UNCHANGED <<log, world, pf, spool, cursor, pc, run, outcome, appliance, faults>>

AgentStep ==
    \/ StartRun \/ SpoolTransition \/ Collect \/ SaveCursor
    \/ BeginFlush \/ Send \/ Acknowledge \/ Fail \/ PollActions

Next ==
    \/ AgentStep
    \/ FailRun
    \/ \E kind \in Kinds : Write(kind)
    \/ Finish
    \/ Rotate
    \/ ChangePosture
    \/ Tick

Spec == Init /\ [][Next]_vars

\* launchd starts a run every minute and a run goes on until it ends or
\* fails; faults are bounded, and Santa finishes a line it began.
FairSpec == Spec /\ WF_vars(AgentStep) /\ SF_vars(Finish) /\ SF_vars(Tick)

-----------------------------------------------------------------------------
(* Properties *)

\* Every row and every field has the values the code may give it; a retry
\* wait never exceeds the configured maximum.
TypeOK ==
    /\ files \in Seq(Seq(Kinds))
    /\ torn \in BOOLEAN
    /\ posture \in Postures /\ moves \in 0..MaxMoves
    /\ pf \in {"contained", "released", "silent"}
    /\ spool \in Seq([snap : Postures \cup {Unknown}, events : SUBSET Events])
    /\ queue \in 0..Len(spool)
    /\ snapshot \in [print : Postures \cup {Unknown}, pending : 0..Len(spool),
                     age : 0..Interval]
    /\ {cursor, ahead} \subseteq [inode : 0..Len(files), offset : 0..MaxMoves]
    /\ retry \in [failures : 0..MaxStreak, wait : 0..MaxDelay]
    /\ stored \subseteq Events
    /\ known \in Postures \cup {Unknown}
    /\ faults \in 0..MaxFaults

\* The two commits of a run, batch and cursor, never let a line fall between
\* them: whatever the run died of, every event before the saved cursor is in
\* the spool or at the appliance, and stays so after the log has rotated.
CursorBehindSpool ==
    cursor.inode # 0 =>
        \A i \in 1..cursor.offset :
            Yields(files[cursor.inode][i]) =>
                <<cursor.inode, i>> \in Spooled \cup stored

\* Coalescing hides no transition: when a run finds nothing left to deliver,
\* the appliance knows the control report of that very run, and every event
\* the cursor has passed.
DeliveredMeansKnown ==
    outcome \in {"succeeded", "not_attempted"} =>
        /\ known = report
        /\ \A i \in 1..cursor.offset :
              Yields(files[cursor.inode][i]) => <<cursor.inode, i>> \in stored

\* run_once: a released containment "must already be durable before the
\* collector continues".  Only a crash between the release and its batch, the
\* state that pf calls silent, leaves it unreported.
ReleaseReported ==
    pf = "released" /\ pc # "transition" => Release \in Spooled \cup stored

Refusable == \E i \in DOMAIN spool : ~Acceptable(spool[i])

\* An event line is a candidate while it is whole and its file is current.
Written(e) ==
    IF e = Release THEN FALSE
    ELSE /\ e[1] = Current /\ e[2] <= CompleteLines /\ Yields(Log[e[2]])

\* Telemetry arrives: again and again there is a time when every event that
\* was written or spooled is stored.  What may keep one away is only a batch
\* the appliance refuses or, before it is spooled, a line above the line limit.
\* (A line that was rotated away unread is no longer a candidate.)
EventArrives ==
    []<>(\A e \in Events :
            \/ Written(e) \/ e \in Spooled =>
                  \/ e \in stored
                  \/ e \notin Spooled /\ \E i \in DOMAIN Log : Log[i] = "huge"
            \/ Refusable)

=============================================================================
