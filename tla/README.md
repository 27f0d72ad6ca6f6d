# A TLA+ verification of ControlForge Security

ControlForge is a self-hosted security monitor: collectors on managed Macs send
signed events to a standalone control plane, workers turn events into alerts and
cases, humans govern response actions, and a collector carries those actions out
on its Mac.  This directory models the parts of it whose correctness depends on
the order in which several actors take their steps.  TLC checks the models on
small instances; TLAPS proves every safety property that the passing runs check, for
every value of the constants.  Paths below are relative to the repository (`S` stands for
`src/controlforge/standalone`, `P` for `src/controlforge`).

## 1. Inventory

| component | state | operations | interacts with |
| --- | --- | --- | --- |
| durable detection pipeline (`S/store.py`, `S/worker.py`, `S/supervisor.py`) | tables `events`, `detection_jobs`, `alerts`, `cases`, `case_alerts`; a worker's cycle time, leases and decision | `ingest_events`, `lease_jobs`, `load_event`, `persist_alerts_and_complete_job`, `fail_job`, the supervisor's loop | ingestion writes jobs, workers lease them, a commit founds or extends cases |
| case workflow (`S/cases.py`) | `cases`, notes, dispositions | `transition`, `record_disposition`, assignment, notes | commits of the pipeline join open cases; response actions hang on a case |
| retention (`S/retention.py`) | policy row | `apply` | deletes settled jobs and unreferenced events under the workers |
| response governance (`S/response.py`, triggers in `S/migrations.py`) | table `response_actions` | `propose`, `approve`, `reject`, `list_actions`, `poll_device`, `submit_device_result`, and the expiry each of them performs first | cases (closing), devices (polling, results) |
| macOS PF adapter (`P/macos_response.py`) | PF anchor and enable references in the kernel, a state file on disk | `execute`, `reconcile`, `recover` | called by the collector and by local recovery |
| collector agent (`P/collector_agent.py`, `P/santa.py`) | spool, cursor, snapshot row, retry circuits, credential | `run_once`: rotation, reconciliation, probes, log, flush, actions | signed HTTPS to the control plane; PF adapter; Santa's log |
| endpoint lifecycle (`P/macos_lifecycle.py`) | package files, launchd job, keychain | activate, release containment, uninstall | stops and starts the collector |
| device authentication (`S/auth.py`) | nonce table, credentials | `authenticate` | in front of every device request |
| credential rotation (`S/credential_rotation.py`, `P/credential_rotation.py`) | rotation rows, Keychain items | initiate, poll, acknowledge, cancel | agent and server exchange keys over the device channel |
| enrollment (`S/enrollment.py`, `P/endpoint_enrollment.py`, `P/macos_account_enrollment.py`) | grants, devices; profile, receipt and keychain of the Mac | issue, revoke, claim and resume a grant, revoke a device or a credential; configure, enroll, activate | yields devices and credentials |
| audit chain (`S/audit.py`) | hash chain, checkpoint | append, verify | appended to by every service |
| ingestion, rate limit and ingress (`S/ingestion.py`, `S/ratelimit.py`, `S/ingress.py`) | sliding windows | accept a batch, check | in front of the pipeline and of the HTTP API |
| identity (`S/identity.py`, `S/passkeys.py`) | humans, invites, ceremonies, sessions | bootstrap, invite, sign in, revoke | gives the roles that govern responses |
| accounts and networks (`S/accounts.py`, `S/network*.py`, `S/ownership.py`) | networks, teams, owner and his projections, endpoint accounts with sessions, resets and grants | create, pause and resume a network, change a member or an account, log in, change and reset a password, designate the owner | revokes sessions, invitations, grants and undelivered actions |
| backup and appliance (`S/backup.py`, `S/appliance.py`, `S/runtime.py`) | operation lock, artifacts, `backup_history`, secret files | start, migrate, roll back, back up, prune, restore | copies and replaces the database under its processes |
| database (`S/database.py`, `S/migrations.py`) | schema version, triggers, indexes | migrate | all tables |
| detection engine (`P/detections.py`, `P/triage.py`) | none | Sigma matching, correlations | called by workers |
| cloud worker (`cloud/src`) | D1 tables, queue | ingestion, queue consumer, cases, agent actions | hosted edition |
| HTTP API, dashboards, CLI, macOS app | none of their own | parse, call a service, render | everything above |

Behaviours that are hard to test, and that the models are about:

- **Overtaken workers.** A worker evaluates outside any transaction and compares
  timestamps with the time at which its cycle began.  Its lease may expire, be
  taken over, be finished by somebody else, or its event may be deleted and
  delivered again, before it commits.
- **Crashes in the middle.** A worker's process may die between leasing and
  committing; the collector may die between enabling PF, loading rules and writing
  the state file that is needed to take them back.
- **Several humans, a clock and a device on one row.** A response action is
  approved, rejected, swept, polled, answered and orphaned by a closing case in any
  order, next to triggers that abort whatever they think illegal.
- **Lost and late messages.** A poll commits although its answer is lost; a result
  arrives after the deadline, after a second execution, or never.
- **Half-done commands.** Each of the steps of applying, rolling back and releasing
  containment can fail before or after it took effect.
- **Two commits where one is meant.** A collector commits a batch and then the cursor
  behind it; a Mac stores its secret and then its receipt; a login verifies a password
  and then issues a session.
- **Principals that outlive their authority.** An administrator's request is
  authenticated in one transaction and served in another, while somebody demotes the
  administrator, pauses the network or resets the account.
- **A file replaced under its users.** Several processes migrate, serve, back up and
  restore one SQLite file, with nothing but an `flock` between them.
- **Things that must happen in the end.** Every event is decided, every action
  settles, containment is lifted by the Mac itself, rotations end and telemetry
  arrives.

`PROJECT.json` lists each hazard at its line, with the properties that watch it.

## 2. Modules

| module | models | state |
| --- | --- | --- |
| `CaseTable` | the `cases` and `case_alerts` tables as operators on a table value | none |
| `DetectionJobs` | one tenant's pipeline, with analysts and retention | the five tables, each worker's local variables |
| `DecisionLog` | abstract specification: each accepted event is decided at most once, together with its alerts | a phase per event, the alerts |
| `DetectionJobsProofs` | theorems about `DetectionJobs` | |
| `ResponseGovernance` | the response table and every operation on it | rows, open cases, active devices |
| `ResponseGovernanceProofs` | theorems about `ResponseGovernance` | |
| `EndpointContainment` | one Mac: `run_once`, the PF adapter, local recovery | kernel (rules, references), disk (state file), process (program counter and locals) |
| `EndpointContainmentProofs` | theorems about `EndpointContainment` | |
| `ActiveResponse` | the two above joined by the collector's requests | both, and the messages under way |
| `ActiveResponseProofs` | theorems about the composition, from those of its two parts | |
| `CredentialRotation` | one device's credentials: rotation at the appliance, the agent's run, administrators, the requests between them | credential and rotation rows, keychain pair, spool row, requests under way |
| `DeviceEnrollment` | extends `CredentialRotation` by how its device comes and goes: grants, claims, activation, uninstall | grants, claims under way, the local command, receipt, daemon |
| `DeviceEnrollmentProofs` | theorems about `DeviceEnrollment`, and so about the rotations in it | |
| `CollectorTelemetry` | Santa's log, one run of the collector after another, ingestion | log files, spool, cursor, snapshot row, circuit, a run's locals, what the appliance stored |
| `CollectorTelemetryProofs` | theorems about `CollectorTelemetry` | |
| `ApplianceLifecycle` | the processes around one database: start, upgrade, rollback, requests, backup, restore; the audit chain | database file, secrets, artifacts, lock, per process its place and job |
| `ApplianceLifecycleProofs` | theorems about `ApplianceLifecycle` | |
| `NetworkAuthority` | people, sessions, invitations, networks, the owner, endpoint accounts and enrollment grants | the tables, and the principals of requests that are being served |
| `NetworkAuthorityProofs` | theorems about `NetworkAuthority` | |
| `MC...` | constants for TLC | |

### CaseTable and DetectionJobs

Each SQL transaction is one action; what the code does outside a transaction is a
separate action, so everything else may happen in between.

| action | code |
| --- | --- |
| `IngestEvents` | `ingest_events`, a batch in one transaction; a digest conflict rolls all of it back |
| `StartCycle`, `LeaseJobs` | `run_cycle` reads the clock once; `lease_jobs` selects due and expired rows in order, up to the limit |
| `Evaluate` | `load_event`, `load_detection_history` and the detector.  A correlation's answer depends on history, so any subset of the event's possible alerts may come out |
| `Raise` | any exception in the body of `run_once`'s loop |
| `PersistAlerts` | `persist_alerts_and_complete_job`: lease check, alerts, cases, links, success; or `LeaseOwnershipError` |
| `FailJob` | `fail_job`: retry with back-off, or dead letter; a row that was lost is left alone |
| `LoseCycle` | the process dies or an exception leaves `run_once` |
| `ApplyRetention` | `RetentionService.apply` |
| `CaseTransition`, `RecordDisposition` | `StandaloneCaseService` |
| `Tick`, `SlowTick` | time; the second one makes a worker outlive its lease |

Time is relative: `due` is `available_at - now`, `expires` is
`lease_expires_at - now`, `age` is `now - cycle_time`.  The code's comparison
`lease_expires_at <= cycle_time` becomes `expires + age <= 0`.  No absolute clock is
needed, so no behaviour is cut off at a last instant.  A case is named by the alert
that founded it, because its id is a hash of that alert's id.

### ResponseGovernance

A row keeps the columns of `response_actions`; `ttl` is what is left until
`expires_at`.  `Swept` is `_expire_due` and `_expire_closed_case_actions`, which every
operation runs first for its device.  Operations whose transaction is rolled back
change nothing and have no action; `approve` and `reject` of a row whose deadline has
passed commit the expiry and then raise, so they have.  The triggers are not guards
of the model: `TriggersSilent` says that none of them ever fires.

### EndpointContainment and ActiveResponse

Every `pfctl` call and every file operation is a step.  A step can succeed, fail
before it took effect or fail after it (the runner raises for a timeout too).
`MaxFaults`, `MaxEscapes`, `MaxCrashes` and `MaxReboots` bound how often.  An *escape* is
an exception that nobody below `run_once` handles: `tempfile.mkstemp` stands before
the `try` of `RootOwnedPfStateStore.write`.  `ActiveResponse` instantiates both modules,
lets the two clocks run together, and puts results into `mail`, from which they are
delivered late or lost.

### CredentialRotation

A device's request is two steps at the appliance, `Authenticate` and then `Poll` or
`Acknowledge`, because `authenticate` commits before the service begins its own
transaction; both use the clock read at the start.  Credentials are numbered in the
order they are issued, so rotation `r` has replacement `r + 1`.  The status of a
credential folds `activated_at` and `revoked_at` into one value, since no query tells an
activated revoked credential from another revoked one.  The agent's steps are those of
`_handle_credential_rotation`: record the rotation in the spool, replace the keychain pair
(a helper that compares the current pair with the predecessor), acknowledge with the
replacement, clear the row.  Each run is a new process that loads its credential from the
keychain, so every exception and every crash is one action, `FailRun`; what was sent may
be lost or served later within the clock skew.  The tenant stays active, and a nonce is
assumed to be accepted once.

### DeviceEnrollment

The Mac's commands are broken at every file, keychain and launchd operation:
`BeginEnroll`, `StoreInitial`, `WriteReceipt`, `CheckIn`, `LoadDaemon`, `MarkReporting`,
and `Uninstall`, `DeleteKeychain`, `RemoveFiles`.  `FailCommand` ends a command anywhere
and leaves what it did; its claim is lost or served later.  `CheckIn` starts the run
of `CredentialRotation`, so the first check-in is a real run whose exit status decides
(`Verdict`); `ServeDevice` is its appliance with `last_seen_at`, which ends the
time in which `_resume_unchecked_grant` gives the same secret again.  `EnrollmentInit`
has a Mac that has just been installed and one that already reports.  Commands of one Mac
take turns (the enrollment lock), and there is one device identity: a profile keeps it
until it is uninstalled.  Account state is `LoseAuthority` here; `NetworkAuthority` has
the rest of it.

### CollectorTelemetry

| action | code |
| --- | --- |
| `StartRun`, `SpoolTransition` | `run_once` up to `reconcile`, and the event of an automatic release |
| `Collect` | probes, `SantaJsonLogReader.read` from the saved cursor, `enqueue_collected` in one commit |
| `SaveCursor` | `save_source_cursor`, a commit of its own |
| `BeginFlush`, `Send`, `Acknowledge`, `Fail` | `_flush`: the oldest batches up to the limit, one request each, the circuit |
| `PollActions` | the end of `run_once` |
| `FailRun` | the process is killed or an exception ends the run |
| `Write`, `Finish`, `Rotate`, `ChangePosture`, `Tick` | Santa, the Mac and time |

Lines have kinds: an event, a wide one of twice the bytes, junk that is counted and
passed, one above the line limit, and one whose path is longer than the ingestion schema
takes.  An event is named by its file and line, as Santa's own event id would.  The log
and the posture change only where a run can see the difference, before it and between
its two commits.  Waits count down, so time is unbounded; so is the spool, from
which only an acknowledgement removes a batch.

### ApplianceLifecycle

A process is in one of the steps of `prepare_runtime`, `create_backup` or
`restore_backup`, each transaction and each `os.replace` being one.  The operation lock is
shared for runtimes and backups and exclusive, without waiting, for restores; it goes
with its process.  `inode` counts replacements of the database file, and each process
remembers the one it opened.  Hashes are modelled by what they cover: an entry's HMAC is
the entry and the HMAC before it, and `Verify` compares each row of a network with
the rows of that network before it.  Requests are `Bootstrap`, `CreateNetwork` and
`AuditedChange`, which stands for the requests whose own rows nothing here reads.

### NetworkAuthority

`Authenticate` puts a principal into `held`; the operation of the service is another step,
which reads what the code reads again (`require_current_capability`) and trusts what it
trusts.  A row that is revoked, used or past its time is removed, since no code reads it
again.  A revision that a request names can only refuse it, so requests carry the current
one.  A challenge's cryptography is left to who may answer it.  The three initial
states are an appliance before bootstrap, one from before there was an owner (each network
has an administrator), and one whose
owner has created a network with an administrator and an endpoint account.

## 3. Runs

| run | instance | checks | result |
| --- | --- | --- | --- |
| `jobs_commit` | 2 events with 1 alert each, same key, different severity; 2 workers; one crash, one overrun | `TypeOK`, `AlertsSettled`, `CasesConsistent`, `PriorityCovers`, `FencedLease`, `ImplementsLog` | hold |
| `jobs_evidence` | 1 event with 2 possible payloads, 2 workers, 2 attempts, one crash, two overruns | `EvidenceMatches`, `AttemptsBounded`, `EventSettles` | hold |
| `response` | 2 actions, 2 devices, 2 humans, 1 case, 2 dispatches | `TypeOK`, `OneLiveAction`, `IndependentApproval`, `TriggersSilent`, `ActionSettles` | hold |
| `endpoint` | 3 failed steps, 1 escape, 1 crash, 1 reboot | `TypeOK`, `ContainmentOwned`, `ReportHonest`, `ReferencesAccounted`, `ContainmentEnds` | hold |
| `active_response` | 2 actions, 2 humans, 2 dispatches, 1 crash | `ContainmentAuthorized`, `ContainmentWithinAction`, `RecordedReleaseHolds` | hold |
| `rotation` | a new Mac (1 open grant, 1 interruption) or a reporting one (2 failed runs); 2 rotations, 2 deliveries each, 1 late request or claim, 1 retired credential | `TypeOK`, `OneActiveCredential`, `SwapIsRecorded`, `KeychainNotBehind`, `EnrollmentHonest`, `RotationSettles` | hold |
| `telemetry` | 3 lines, rotations, releases or changes of posture, 5 kinds of line, 1 event and 2 units per read, 1 fault | `TypeOK`, `CursorBehindSpool`, `DeliveredMeansKnown`, `ReleaseReported`, `EventArrives` | hold |
| `appliance` | 2 processes, a new installation or an upgrade, 2 backups, 2 requests, 1 restore, 1 crash or failure | `TypeOK`, `ReplacedOffline`, `ChainsVerify`, `NetworksKept` | hold |
| `people` | 2 networks, 3 people, 1 endpoint account, 2 requests at the same time, 4 writing steps | `TypeOK`, `LockoutFree`, `AuthorityFresh` | hold |
| `response_deadline` | 1 action | `DispatchedKeepsDeadline` | violated |
| `endpoint_unreachable` | rotation enabled | `ContainmentEnds` | violated |
| `rotation_lockout` | the device of `CredentialRotation` alone: 2 rotations, 2 failed runs, 1 retired credential | `NoLockout` | violated |

What the passing runs show:

- **Exactly-once commits.** `ImplementsLog` is refinement: with `Phase` as the mapping
  every step of the pipeline is a step of `DecisionLog` or leaves it alone.
  `AlertsSettled`, `CasesConsistent` and `EvidenceMatches` say what the commit leaves behind;
  the last one is the reason why reading the event before the transaction and quoting
  its digest inside it is safe: while the lease is held neither retention nor a
  redelivery can have replaced the row.
- **The lease fences.** `FencedLease`: an overtaken worker neither commits nor fails the
  row of its successor, although `fail_job` compares only the owner, not the expiry.
- **Attempts.** `AttemptsBounded`: `worker_max_attempts` bounds failures, not leases; a
  take-over adds one attempt, and nothing else does.
- **Cases.** One active case per key, each alert in exactly one case of its key, and a
  priority that covers what joined later, whoever closes and reopens in between.
- **Governance.** No device is ever given what a second human did not approve; a slot is
  never shared by two live actions; no trigger aborts a transaction; and an action
  always settles, even when its dispatches are used up.
- **The Mac.** Rules are never loaded without the state file needed to remove them,
  unless a crash, an escape or three failures came together; reports are honest under
  the same proviso; references leak at most one per failure.
- **End to end.** A contained Mac was contained by two humans' decision, never for longer
  than an action that was handed out, and a recorded release is a release.
- **Rotation.** An active device has exactly one activated credential, whatever comes
  between authentication and service; a crash around the keychain swap leaves the row
  that makes the next run acknowledge; no acknowledgement retires the credential the
  keychain still holds; and a live rotation is acknowledged or cancelled in the end, also
  when its deliveries are used up or a stale spool row refuses it.

- **Enrollment.** The appliance hands the secret of a claim out again only until its first
  use, and the command that gets it never overwrites a credential; a loaded daemon and a
  receipt that says "reporting" stand for a device the appliance has authenticated,
  through interrupted commands, uninstalls and late claims.
- **Telemetry.** A crash between the two commits of a run repeats lines, never skips them;
  when a run reports that nothing is left to deliver, the appliance knows the posture of that run and every line
  before the cursor; and everything arrives in the end, unless a batch is refused for
  good or a line is above the limit (both are hazards with a note: the code has no way
  past either).
- **Appliance.** The lock keeps restores away from every process that has the file open;
  migrations happen once, in order, also when two processes start; no restore loses a
  network; chains verify in the live database and in each backup.
- **People.** What is revoked with a member, a network, a password or an account is also
  revoked from whoever was signing in, completing an invitation or approving at that moment.  Enrollment
  grants of administrators are not among it: `create_enrollment_grant` trusts the
  principal, and `docs/MULTI_NETWORK_PRODUCT.md` lets a request that was authenticated before
  a pause finish.

What the violated ones show (the findings of `PROJECT.json`):

- `response_deadline`: `approve` expires any live row of a closed case, a dispatched one
  too, while `_expire_closed_case_actions` and
  `tests/test_standalone_response.py` let a dispatched action report after its case
  closed.  The device's result is then refused.
- `endpoint_unreachable`: `run_once` polls for credential rotation before it reconciles.
  With rotation enabled and the control plane out of reach, each run ends there, and
  expired containment stays; `docs/active-response-design.md` promises a 15 minute cap.
- `rotation_lockout`: `revoke_credential` promises to retire a credential only when another
  active one prevents lockout, but accepts the replacement of a live rotation, whose
  predecessor is the other active one.  `poll` hands the retired replacement out, the agent
  swaps its keychain to it, and nothing the device holds is accepted any more.  With
  `MaxRetired = 0` and no late request the property holds.

`endpoint` has one more departure from that document, as a fault that its properties name:
an `OSError` of `mkstemp` bypasses the rollback that is promised when state persistence
fails, and the rules stay without a state file.

### Bounds

Two of each actor are enough for every pairwise race, and the properties relate at
most two rows.  A lease of one or two ticks, an overrun of one or two and a lag of one
or two let a worker be overtaken before leasing, between evaluating and committing, and
between failing and writing the failure.  Three faults on the Mac are the least with
which a failed application, its failed rollback and a failed preservation meet; the
property is stated so that two are provably not enough.  `Tokens` has one more element
than references can leak.  `MaxAttempts = 2` in `jobs_evidence` has a retry with back-off
and a dead letter.  In `rotation`, a window and a skew of one tick and three ticks in all let a rotation be
cancelled and a second one run to its end; replacements live two ticks, so that they
expire before, while and after they are acknowledged, and the enrolled credential
outlives the run; two of the ten deliveries reach the limit, and one late request is
enough to be served after the swap.  A new Mac has one interruption, enough to break each
command once and repeat it; a grant lives one tick, so that it expires between the claim and its
repetition.  In `telemetry` three changes are a line before and behind a rotation, or
two postures around a pending snapshot; one event and two units per read make the reader
stop at each of its limits, and two batches per flush leave a backlog.  In `appliance` one
migration of an upgrade is left to two processes, retention keeps one of two backups, and
one fault is a crash at any step of either.  In `people` two requests are every race of
two administrators, and four writing steps are enough for each of them to act twice.  The
initial states have people signed in, so the steps go to the races.  Counters that would grow for ever are bounded by guards that name
their bound.

### Fairness

- Pipeline: weak fairness of each worker's steps (the supervisor's loop catches
  everything and goes on) and strong fairness of `Tick`: a worker that never idles must
  not hold up time.  Crashes and overruns have no fairness and are bounded.
- Governance: weak fairness of `Tick` and of `PollDevice` for each active device (the
  collector runs on a launchd interval).  Nothing is assumed of humans or results.
- Mac: weak fairness of the collector's steps as a whole and of `Tick`.  No fairness is
  assumed between the alternatives of a step, so that a run which always ends in
  credential rotation is a legal behaviour; that is what `endpoint_unreachable` finds, and
  why `endpoint` is run with rotation disabled.
- Rotation and enrollment: weak fairness of the agent's steps and of serving its requests
  as a whole (launchd starts a run every minute while the daemon is loaded) and of time.
  Failures are bounded; administrators and the Mac's users need do nothing, so
  `RotationSettles` speaks of a Mac whose daemon stays loaded and whose credential still
  signs.
- Telemetry: weak fairness of the collector's steps, strong fairness of `Finish` (Santa
  ends a line it began) and of `Tick`, which is possible only between runs.  Faults are bounded.

Deadlock is not checked in `rotation`, where a Mac that was uninstalled may stop when the
last tick has passed, nor in `people`, where every writing step is bounded; every other
run checks it.

## 4. Proofs

`tlapm` checks every theorem to its last leaf.  The theorems hold for every number of
events, workers, alerts, actions, devices, humans, tokens, rotations, processes, backups,
networks, people and accounts, every lease and delay, and every bound on faults and on time.
Each safety invariant and each action property of a passing run is stated by one of them.

| theorem | module | property |
| --- | --- | --- |
| `TypeCorrect` | `DetectionJobsProofs` | `TypeOK` |
| `AlertsAreSettled` | `DetectionJobsProofs` | `AlertsSettled` |
| `ActiveCaseUnique` | `DetectionJobsProofs` | `OneActiveCase`, half of `CasesConsistent` |
| `AlertLinkedOnce` | `DetectionJobsProofs` | `LinkedOnce`, the other half |
| `CasesAreConsistent` | `DetectionJobsProofs` | `CasesConsistent` |
| `CasePriorityCovers` | `DetectionJobsProofs` | `PriorityCovers` |
| `AttemptsAreBounded` | `DetectionJobsProofs` | `AttemptsBounded` |
| `LeaseIsFence` | `DetectionJobsProofs` | `FencedLease` (action property) |
| `CommitQuotesItsEvidence` | `DetectionJobsProofs` | `EvidenceMatches` |
| `PipelineImplementsLog` | `DetectionJobsProofs` | `ImplementsLog` (refinement) |
| `ResponseTypes` | `ResponseGovernanceProofs` | `TypeOK` |
| `ApprovalIsIndependent` | `ResponseGovernanceProofs` | `IndependentApproval` |
| `LiveActionUnique` | `ResponseGovernanceProofs` | `OneLiveAction` |
| `TriggersNeverFire` | `ResponseGovernanceProofs` | `TriggersSilent` (action property) |
| `EndpointTypes` | `EndpointContainmentProofs` | `TypeOK` |
| `RulesAreOwned` | `EndpointContainmentProofs` | `ContainmentOwned` |
| `ReportsAreHonest` | `EndpointContainmentProofs` | `ReportHonest` |
| `ReferencesAreAccounted` | `EndpointContainmentProofs` | `ReferencesAccounted` |
| `OnlyAuthorizedContainment` | `ActiveResponseProofs` | `ContainmentAuthorized` |
| `ContainmentEndsWithAction` | `ActiveResponseProofs` | `ContainmentWithinAction` |
| `ReleasesHold` | `ActiveResponseProofs` | `RecordedReleaseHolds` |
| `TableIsGoverned` | `ActiveResponseProofs` | the composition implements `ResponseGovernance` |
| `TypeCorrect` | `DeviceEnrollmentProofs` | `TypeOK` |
| `ActiveCredentialUnique` | `DeviceEnrollmentProofs` | `OneActiveCredential` |
| `SwapsAreRecorded` | `DeviceEnrollmentProofs` | `SwapIsRecorded` |
| `KeychainKeepsUp` | `DeviceEnrollmentProofs` | `KeychainNotBehind` |
| `EnrollmentIsHonest` | `DeviceEnrollmentProofs` | `EnrollmentHonest` (action property) |
| `TypeCorrect` | `CollectorTelemetryProofs` | `TypeOK` |
| `CursorNeverAhead` | `CollectorTelemetryProofs` | `CursorBehindSpool` |
| `NothingCoalescedAway` | `CollectorTelemetryProofs` | `DeliveredMeansKnown` |
| `ReleasesReported` | `CollectorTelemetryProofs` | `ReleaseReported` |
| `TypeCorrect` | `ApplianceLifecycleProofs` | `TypeOK` |
| `ReplacedUnderLock` | `ApplianceLifecycleProofs` | `ReplacedOffline` |
| `AuditChainsVerify` | `ApplianceLifecycleProofs` | `ChainsVerify` |
| `NetworksSurvive` | `ApplianceLifecycleProofs` | `NetworksKept` (action property) |
| `TypeCorrect` | `NetworkAuthorityProofs` | `TypeOK` |
| `NobodyLockedOut` | `NetworkAuthorityProofs` | `LockoutFree` |
| `AuthorityStaysFresh` | `NetworkAuthorityProofs` | `AuthorityFresh` |

None of the safety properties is inductive alone.  Each proof module defines the
inductive invariant it needs and proves that it holds initially and that one step of each
action preserves it; TLC checked each of these invariants on the instance of the run before it
was proved.

**Pipeline.** The inductive invariant is the conjunction of

- `TypeOK`;
- `DecisionScope`: what a worker is about to commit are alerts of the event it is working
  on (needed because the commit inserts the worker's local variable, computed earlier);
- `AlertsSettled`;
- `CaseInv`: `OneActiveCase`, `LinkedOnce`, `PriorityCovers`, and that a case exists only for a
  stored alert (so that a new alert never meets a case of its own name);
- `AttemptLeft`: a row that can still be leased without a take-over has an attempt to spare
  (`AttemptsBounded` says nothing about the row before the lease).

`EvidenceMatches` speaks of the moment of a commit; `SeenIsStored` strengthens it to the whole
time in which the row is still the worker's, expired or not, because an expired lease that
nobody took over still keeps retention and redelivery away.  The refinement theorem maps each
action to a step of `DecisionLog`; a commit is a decision because the row was leased, which
`OwnsRow` and `TypeOK` give.

**Governance.** Every operation touches each row in one of seven ways (`RowStep`): kept, aged,
lapsed, proposed, reviewed, handed out, settled.  `NextRows` shows this once for all
operations, and types, approval and triggers follow row by row.  `OneLiveAction` also
needs that only `propose` makes a row, and that it found the slot free after its sweep.

**Mac.** `ContainmentOwned` and `ReportHonest` depend on where the process is.  `Position` says
that the rules are loaded when their state is written and gone once a flush has
succeeded, how many failures each step of a rollback has cost, and that, as long as
nothing has failed, a state file stands for loaded rules and a token that pf knows.  With it
the conjunction is inductive: one lemma for each command, and three for the steps that do
not touch the rules.  `ReferencesAccounted` is a count.  `Ledger` splits the references into
the one an application carries, the one the state file names, and the leaked ones, and says that
leaked ones are at most as many as failures, escapes and crashes together; each command then
leaks nothing, or one reference and raises that number.

**End to end.** `ActiveResponseProofs` instantiates the two component proofs and uses their
lemmas: `ResponseGovernanceProofs` says what becomes of a row that was handed out,
`EndpointContainmentProofs` what the Mac does on an errand (`Errand`, `StepCarries`).  The invariant adds what
joins them: the collector holds the action that sent it and has no more time than it
(`Holding`); loaded rules and state files come from a handed-out isolation (`Contained`); a
result under way that the table would still take answers the last thing the Mac did (`Mail`); and
a recorded release of the last action leaves the Mac free (`Recorded`).  `TableIsGoverned` shows
that each step of the composition is a step of `ResponseGovernance` or leaves its table alone, so
that everything proved of the table holds in the composition too.

**Rotation and enrollment.** The theorems are about `EnrollmentSpec`, the composition, in which
rotation is embedded.  `Tables` relates credential rows to rotation rows (one live rotation, an
issued credential belongs to it, an acknowledged one has a revoked predecessor); `Agent` says
where a run, its spool row and the Keychain stand against them; `Wire` says what requests that are
still under way can do, in particular that a late acknowledgement of a delivered rotation finds
its replacement in the Keychain or the Keychain empty; `Enrolling` says which facts witness an
authentication (`Witnessed`), which is what ends the time in which a secret is given again.

**Telemetry.** The invariant follows a line from the log to the appliance.  `Covered` is stated
for the saved cursor and for the one a run has not saved yet; `Stored` says that a batch about to be
acknowledged is at the appliance; `Told` says that the newest snapshot of the spool, or what
the appliance knows when none waits, is the one the snapshot row remembers, which is what makes
the coalescing of equal snapshots safe.  Where the reader stops is the
largest line within its limits; that there is one follows from the well-foundedness of the numbers
(`Largest`).

**Appliance.** `Locks` derives both sides of the operation lock from where each process is.
`Files` says what every database is like, live, published or in the hands of a process: the
ledger of migrations has no gap and every chain verifies.  `Jobs` says what a process
knows: the file it works on is the current one, which migrations it has applied, and that what
it restores has all networks of the live database, which the exclusive lock keeps true from the
check to the replacement.

**People.** `Team` has `LockoutFree` and what it depends on (`Standing`): only the owner pauses a
network, only the owner has users elsewhere, and no user precedes the network.  `SignIns`,
`Invites`, `Responses` and `Endpoints` are the parts of `AuthorityFresh`, with types; each action
disturbs the parts whose tables it writes, and the principals in `held` may be stale, so that every
lemma has to use what the operation reads again.

**Assumptions.** Each module's `ASSUME` is all that is taken of the constants: they have the
types the code gives them; markers (`None`, `NoFile`, `NoToken`, `"none"`, `"unknown"`) are not
values; alerts of one event come from different rules; the first delay of a circuit is at most
its last and a read takes at least the longest line (the agent's settings say so); the two people of
an initial state differ and have room for their two sessions.  TLC evaluates them in every run.

Only model-checked: the liveness properties `EventSettles`, `ActionSettles`, `ContainmentEnds`,
`RotationSettles` and `EventArrives`, since fairness and `ENABLED` are out of the prover's reach.
The violated properties of section 3 are false and have counterexamples instead.

## 5. Not modelled, and the plan

Left out of the modelled parts, because no property tells them apart: logging and audit
text, JSON layout, tenants other than one in the pipeline (every statement is scoped to a
tenant), the contents of notes, rules and events, revisions of networks and accounts
(they only refuse), cryptography beyond what a digest or a signature covers.
Retention's cutoff is left open: any settled row may be old enough.

| order | module | what it holds |
| --- | --- | --- |
| done | `DetectionJobs`, `CaseTable`, `DecisionLog` | the pipeline and its abstract specification |
| done | `ResponseGovernance`, `EndpointContainment`, `ActiveResponse` | active response end to end |
| done | `CredentialRotation`, `DeviceEnrollment` | a device from its grant to its uninstall, with rotations |
| done | `CollectorTelemetry` | spool, cursor, snapshots and the delivery circuit |
| done | `ApplianceLifecycle` | start, upgrade, backup, restore, and the audit chain |
| done | `NetworkAuthority` | identity, networks, teams, accounts and their grants |
| done | the eight `...Proofs` modules | every safety property of a passing run |
| then | `DeviceAuth` | nonce table beside the timestamp window; no signed request is accepted twice |
| then | `RateLimit` | sliding window with eviction, against its reference definition |
| then | `Installer` | launchd services with rollback |
| last | `CloudQueue` | the hosted edition's queue consumer and case workflow |

Not planned: HTTP parsing and HTML, the macOS user interface, Sigma parsing, packaging and
acceptance scripts, load drivers (`replay.py`, `endurance.py`) and diagnostics.  They hold no
state of their own between requests.  The detection engine is a function of an event and its
history; the pipeline lets any subset of an event's possible alerts come out of it.
