------------------------- MODULE ApplianceLifecycle -------------------------
(***************************************************************************)
(* The standalone appliance as processes around one SQLite database:       *)
(* starting it (with the backup, the migrations and the rollback of an     *)
(* upgrade), serving requests, encrypted online backups with retention,    *)
(* and offline restore.  The operation lock is an flock: shared for a      *)
(* runtime and for a backup, exclusive and non-blocking for a restore, and *)
(* gone with its process.  Nothing else keeps two processes apart, and a   *)
(* process may be killed at any step.  A SQLite transaction is one step.   *)
(***************************************************************************)
EXTENDS Naturals, FiniteSets, Sequences, SequencesExt

CONSTANTS
    Procs,       \* processes an operator or launchd may have running
    Installs,    \* schema versions the machine may start from, 0 for none
    Supported,   \* the last migration of this release
    Tenants,     \* networks that may be configured
    FirstTenant, \* the network that bootstrap creates
    Retention,   \* the operator's retention_count
    MaxBackups,  \* bound on backups started
    MaxWrites,   \* bound on requests served
    MaxRestores, \* bound on restores an operator asks for
    MaxFaults    \* bound on crashes and failed steps

ASSUME ApplianceAssumption ==
    /\ {Supported, Retention, MaxBackups, MaxWrites, MaxRestores, MaxFaults} \subseteq Nat
    /\ Installs \subseteq 0..Supported /\ Retention > 0
    /\ FirstTenant \in Tenants

VARIABLES
    db,        \* the database file: ledger, networks, audit chain, backup_history
    secrets,   \* the appliance's key files
    inode,     \* which file the database path names: a restore replaces it
    artifacts, \* the published .cfbackup files by backup: the snapshot each holds
    shared,    \* processes that hold the operation lock shared
    exclusive, \* processes that hold it exclusively
    pc,        \* what each process does
    job,       \* per process: its backup, its snapshot, its migration, its inode
    started,   \* backups started so far
    writes,    \* requests served so far
    restores,  \* restores asked for so far
    faults     \* crashes and failed steps so far

vars == <<db, inode, secrets, artifacts, shared, exclusive, pc, job, started,
          writes, restores, faults>>

Versions == 1..Supported
Backups == 1..MaxBackups
NoImage == [file |-> FALSE, ledger |-> [v \in Versions |-> 0], tenants |-> {},
            audit |-> <<>>, history |-> [b \in Backups |-> "none"], startup |-> "none"]
NoJob == [purpose |-> "none", backup |-> 0, image |-> NoImage, next |-> 1, inode |-> 0]

\* The database of a release that stopped at a version, configured by then.
Installation(version) ==
    [NoImage EXCEPT !.file = version > 0,
                    !.ledger = [v \in Versions |-> IF v <= version THEN 1 ELSE 0],
                    !.tenants = IF version > 0 THEN {FirstTenant} ELSE {}]

Init ==
    /\ \E version \in Installs : db = Installation(version)
    /\ inode = 0
    /\ secrets = IF db.file THEN "present" ELSE "absent"
    /\ artifacts = [b \in Backups |-> NoImage]
    /\ \E old \in SUBSET Procs :      \* the earlier release may still be running
          /\ \A p, q \in old : p = q /\ db.file
          /\ shared = old
          /\ pc = [p \in Procs |-> IF p \in old THEN "serving" ELSE "idle"]
    /\ exclusive = {}
    /\ job = [p \in Procs |-> NoJob]
    /\ started = 0 /\ writes = 0 /\ restores = 0 /\ faults = 0

-----------------------------------------------------------------------------
(* The audit chain *)

\* An entry's HMAC covers the entry and the HMAC before it, so it stands for
\* both; a checkpoint's covers the entry it was taken at.
EntryHmac(entry) == [tenant |-> entry.tenant, id |-> entry.id, previous |-> entry.previous]
CheckpointHmac(hmac) == [terminal |-> hmac]

\* The rows of one network, in sequence.
Entries(chain, tenant) == SelectSeq(chain, LAMBDA entry : entry.tenant = tenant)
LastHmac(entries) == IF entries = <<>> THEN <<>> ELSE EntryHmac(Last(entries))

\* A row with its checkpoint.
AuditRow(tenant, id, previous) ==
    [tenant |-> tenant, id |-> id, previous |-> previous,
     checkpoint |-> CheckpointHmac([tenant |-> tenant, id |-> id, previous |-> previous])]

AppendAcross(chain, tenant, id) == Append(chain, AuditRow(tenant, id, LastHmac(chain)))

\* append: the entry links to the network's last one, and a checkpoint names it.
AppendAudit(chain, tenant, id) ==
    Append(chain, AuditRow(tenant, id, LastHmac(Entries(chain, tenant))))

\* verify: every link and every checkpoint of the network's rows, each against
\* the rows of the network before it.
Verify(chain, tenant) ==
    \A i \in DOMAIN chain : chain[i].tenant = tenant =>
        /\ chain[i].previous = LastHmac(Entries(SubSeq(chain, 1, i - 1), tenant))
        /\ chain[i].checkpoint = CheckpointHmac(EntryHmac(chain[i]))

-----------------------------------------------------------------------------
(* The operation lock *)

AcquireShared(p) ==
    /\ exclusive = {}
    /\ shared' = shared \cup {p}
    /\ exclusive' = exclusive

ExclusiveUnchecked == exclusive = {}

\* LOCK_EX with LOCK_NB.
ExclusiveFree == shared = {} /\ exclusive = {}

ReleaseLock(p) == shared' = shared \ {p} /\ exclusive' = exclusive \ {p}

Goto(p, label) == pc' = [pc EXCEPT ![p] = label]

\* The process is done, whatever it was doing.
End(p) ==
    /\ ReleaseLock(p)
    /\ Goto(p, "idle")
    /\ job' = [job EXCEPT ![p] = NoJob]

-----------------------------------------------------------------------------
(* Backups *)

Published(b) == artifacts[b] # NoImage

\* A ledger that is a prefix of the supported one, and the networks and the
\* history row that the manifest names.
VerifyDatabase(image, tenants, b) ==
    /\ image.ledger[1] # 0
    /\ \A v \in Versions : v > 1 /\ image.ledger[v] # 0 => image.ledger[v - 1] # 0
    /\ image.tenants = tenants
    /\ image.history[b] # "none"

\* The artifact decrypts to the snapshot that went in (the tag and the digest
\* cover every byte), with the networks the snapshot had.
DecryptArtifact(b) == artifacts[b]
ManifestTenants(b) == DecryptArtifact(b).tenants

VerifyBackup(b) == Published(b) /\ VerifyDatabase(DecryptArtifact(b), ManifestTenants(b), b)

\* inventory: the artifacts that verify, newest first.
NewerInInventory(b) == {c \in Backups : c > b /\ VerifyBackup(c)}

\* prune: the newest `keep` of them stay.
Pruned(keep) ==
    [b \in Backups |->
        IF VerifyBackup(b) /\ Cardinality(NewerInInventory(b)) >= keep
        THEN NoImage ELSE artifacts[b]]

\* The row's network is the owner's home, or the first one: there must be one.
HistoryTenant == db.file /\ db.tenants # {}

\* create_backup up to the started row; the file name carries the backup id.
RecordStarted(p, purpose) ==
    /\ started < MaxBackups
    /\ AcquireShared(p)
    /\ secrets = "present"
    /\ HistoryTenant
    /\ started' = started + 1
    /\ db' = [db EXCEPT !.history[started + 1] = "started"]
    /\ job' = [job EXCEPT ![p] = [NoJob EXCEPT !.purpose = purpose,
                                               !.backup = started + 1, !.inode = inode]]
    /\ Goto(p, "started")
    /\ UNCHANGED <<inode, secrets, artifacts, writes, restores, faults>>

CreateBackup(p) ==
    \/ pc[p] = "idle" /\ RecordStarted(p, "backup")
    \/ pc[p] = "preparing" /\ RecordStarted(p, "upgrade")

\* _snapshot_database, its own networks, and _verify_database.
SnapshotDatabase(p) ==
    /\ pc[p] = "started"
    /\ VerifyDatabase(db, db.tenants, job[p].backup)
    /\ job' = [job EXCEPT ![p].image = db]
    /\ Goto(p, "snapshot")
    /\ UNCHANGED <<db, inode, secrets, artifacts, shared, exclusive, started, writes,
                   restores, faults>>

\* _encrypt_snapshot: the finished file is moved into place.
EncryptSnapshot(p) ==
    /\ pc[p] = "snapshot"
    /\ ~Published(job[p].backup)
    /\ artifacts' = [artifacts EXCEPT ![job[p].backup] = job[p].image]
    /\ Goto(p, "published")
    /\ UNCHANGED <<db, inode, secrets, shared, exclusive, job, started, writes, restores,
                   faults>>

RecordSucceeded(p) ==
    /\ pc[p] = "published"
    /\ db' = [db EXCEPT !.history[job[p].backup] = IF @ = "started" THEN "succeeded" ELSE @]
    /\ Goto(p, "recorded")
    /\ UNCHANGED <<inode, secrets, artifacts, shared, exclusive, job, started, writes,
                   restores, faults>>

\* prune, then the lock goes.  The backup before an upgrade keeps a thousand.
FinishBackup(p) ==
    /\ pc[p] = "recorded"
    /\ IF job[p].purpose = "upgrade"
       THEN /\ artifacts' = artifacts
            /\ ReleaseLock(p)
            /\ Goto(p, "building")
            /\ job' = [job EXCEPT ![p].image = NoImage]
       ELSE /\ artifacts' = Pruned(Retention)
            /\ End(p)
    /\ UNCHANGED <<db, inode, secrets, started, writes, restores, faults>>

\* Any exception: the artifact goes, and a row that is still started fails.
\* Before an upgrade this ends the start.
BackupFails(p) ==
    /\ pc[p] \in {"started", "snapshot", "published", "recorded"}
    /\ faults < MaxFaults
    /\ faults' = faults + 1
    /\ artifacts' = [artifacts EXCEPT ![job[p].backup] = NoImage]
    /\ db' = [db EXCEPT !.history[job[p].backup] = IF @ = "started" THEN "failed" ELSE @]
    /\ End(p)
    /\ UNCHANGED <<inode, secrets, started, writes, restores>>

\* The prune command takes no lock.
Prune ==
    /\ artifacts' = Pruned(Retention)
    /\ UNCHANGED <<db, inode, secrets, shared, exclusive, pc, job, started, writes,
                   restores, faults>>

-----------------------------------------------------------------------------
(* Starting the appliance *)

\* _inspect_schema reads without the operation lock.
SchemaState ==
    LET applied == {v \in Versions : db.ledger[v] # 0}
    IN  CASE ~db.file                              -> "clean_install"
          [] db.file /\ applied = Versions         -> "current"
          [] db.file /\ applied # Versions
             /\ applied # {}
             /\ applied = 1..Cardinality(applied)  -> "upgrade_required"
          [] OTHER                                 -> "unsupported"

\* preflight: an existing database must come with its secrets; it never makes
\* new ones for it.  A start that is refused changes nothing.
Preflight ==
    /\ SchemaState # "unsupported"
    /\ db.file => secrets = "present"

\* prepare_runtime: a database of an earlier release is backed up first, and
\* that needs a configured network.
Prepare(p) ==
    /\ pc[p] = "idle"
    /\ Preflight
    /\ SchemaState = "upgrade_required" => db.tenants # {}
    /\ IF SchemaState = "upgrade_required"
       THEN Goto(p, "preparing") /\ job' = job
       ELSE /\ Goto(p, "building")
            /\ job' = [job EXCEPT ![p].purpose = "start"]
    /\ UNCHANGED <<db, inode, secrets, artifacts, shared, exclusive, started, writes,
                   restores, faults>>

\* build_standalone_runtime waits for the shared lock and keeps it; initialize
\* creates the file if it is not there.
OpenRuntime(p) ==
    /\ pc[p] = "building"
    /\ AcquireShared(p)
    /\ db' = [db EXCEPT !.file = TRUE]
    /\ job' = [job EXCEPT ![p].inode = inode]
    /\ Goto(p, "migrating")
    /\ UNCHANGED <<inode, secrets, artifacts, started, writes, restores, faults>>

MigrateUnchecked(p) ==
    [db EXCEPT !.ledger[job[p].next] = @ + 1]

\* _apply_migration looks at the ledger inside its write transaction.
ApplyMigration(p) ==
    [db EXCEPT !.ledger[job[p].next] = IF @ = 0 THEN 1 ELSE @]

\* initialize: one transaction per migration, in order.
Initialize(p) ==
    /\ pc[p] = "migrating"
    /\ job[p].next <= Supported
    /\ db' = ApplyMigration(p)
    /\ job' = [job EXCEPT ![p].next = @ + 1]
    /\ UNCHANGED <<inode, secrets, artifacts, shared, exclusive, pc, started, writes,
                   restores, faults>>

\* Every secret file is created once and then only read.
LoadOrCreateSecrets(p) ==
    /\ pc[p] = "migrating"
    /\ job[p].next > Supported
    /\ secrets' = "present"
    /\ Goto(p, "composed")
    /\ UNCHANGED <<db, inode, artifacts, shared, exclusive, job, started, writes,
                   restores, faults>>

\* The schema converged: _record_startup_state, and requests come in.
RecordStartupState(p) ==
    /\ pc[p] = "composed"
    /\ SchemaState = "current"
    /\ db' = [db EXCEPT !.startup = job[p].purpose]
    /\ Goto(p, "serving")
    /\ UNCHANGED <<inode, secrets, artifacts, shared, exclusive, job, started, writes,
                   restores, faults>>

\* The first administrator configures the appliance.
Bootstrap(p) ==
    /\ pc[p] = "serving"
    /\ writes < MaxWrites
    /\ db.tenants = {}
    /\ writes' = writes + 1
    /\ db' = [db EXCEPT !.tenants = {FirstTenant}]
    /\ UNCHANGED <<inode, secrets, artifacts, shared, exclusive, pc, job, started,
                   restores, faults>>

\* A new network is recorded in its own chain and in that of the owner's home.
CreateNetwork(p, tenant) ==
    /\ pc[p] = "serving"
    /\ writes < MaxWrites
    /\ db.tenants # {} /\ tenant \notin db.tenants
    /\ writes' = writes + 1
    /\ db' = [db EXCEPT !.tenants = @ \cup {tenant},
                        !.audit = AppendAudit(AppendAudit(@, tenant, writes + 1),
                                              FirstTenant, writes + 1)]
    /\ UNCHANGED <<inode, secrets, artifacts, shared, exclusive, pc, job, started,
                   restores, faults>>

\* A note on a case, an assignment, or another request whose own rows nothing
\* here reads: what it leaves is an audit entry, in the same transaction.
AuditedChange(p, tenant) ==
    /\ pc[p] = "serving"
    /\ writes < MaxWrites
    /\ tenant \in db.tenants
    /\ writes' = writes + 1
    /\ db' = [db EXCEPT !.audit = AppendAudit(@, tenant, writes + 1)]
    /\ UNCHANGED <<inode, secrets, artifacts, shared, exclusive, pc, job, started,
                   restores, faults>>

\* The server ends and the runtime is closed.
Close(p) ==
    /\ pc[p] = "serving"
    /\ End(p)
    /\ UNCHANGED <<db, inode, secrets, artifacts, started, writes, restores, faults>>

\* An exception while the runtime is built or its state recorded closes it;
\* after an upgrade's backup the rollback comes next.
BuildFails(p) ==
    /\ pc[p] \in {"migrating", "composed"}
    /\ faults < MaxFaults
    /\ faults' = faults + 1
    /\ IF job[p].purpose = "upgrade"
       THEN ReleaseLock(p) /\ Goto(p, "rollback") /\ job' = job
       ELSE End(p)
    /\ UNCHANGED <<db, inode, secrets, artifacts, started, writes, restores>>

-----------------------------------------------------------------------------
(* Restore *)

ValidateAnyTenant(b) == Cardinality(ManifestTenants(b)) > 0

\* _validate_restore_tenant: exactly the networks of the live database.
ValidateRestoreTenant(b) ==
    db.file /\ db.tenants # {} => ManifestTenants(b) = db.tenants

\* restore_backup may go ahead: nobody holds the lock, the artifact is there
\* and verifies, and its networks are the live ones.
Restorable(b) == ExclusiveFree /\ VerifyBackup(b) /\ ValidateRestoreTenant(b)

\* restore_backup under the exclusive lock, up to the checks that may refuse
\* it; rollback_upgrade, the restore command, or a failed upgrade asks for it.
BeginRestore(p, b) ==
    /\ \/ pc[p] = "rollback" /\ b = job[p].backup /\ restores' = restores
       \/ /\ pc[p] = "idle" /\ secrets = "present"
          /\ restores < MaxRestores /\ restores' = restores + 1
    /\ Restorable(b)
    /\ exclusive' = exclusive \cup {p} /\ shared' = shared
    /\ job' = [job EXCEPT ![p] = [NoJob EXCEPT !.purpose = "restore", !.backup = b,
                                               !.image = DecryptArtifact(b)]]
    /\ Goto(p, "restoring")
    /\ UNCHANGED <<db, inode, secrets, artifacts, started, writes, faults>>

\* The automatic rollback is refused: the start ends with the database as the
\* failed upgrade left it.
RollbackRefused(p) ==
    /\ pc[p] = "rollback"
    /\ ~Restorable(job[p].backup)
    /\ End(p)
    /\ UNCHANGED <<db, inode, secrets, artifacts, started, writes, restores, faults>>

\* _checkpoint_live_database empties the write-ahead log and drops its files;
\* then the snapshot is moved over the database.
ReplaceDatabase(p) ==
    /\ pc[p] = "restoring"
    /\ db' = job[p].image
    /\ inode' = inode + 1
    /\ Goto(p, "replaced")
    /\ UNCHANGED <<secrets, artifacts, shared, exclusive, job, started, writes, restores,
                   faults>>

RecordRestored(p) ==
    /\ pc[p] = "replaced"
    /\ db.history[job[p].backup] # "none"
    /\ db' = [db EXCEPT !.history[job[p].backup] = "restored"]
    /\ End(p)
    /\ UNCHANGED <<inode, secrets, artifacts, started, writes, restores, faults>>

\* The process is killed, or a restore raises and gives its lock back.  What
\* it had under way stays as it is on disk.
Crash(p) ==
    /\ pc[p] # "idle"
    /\ faults < MaxFaults
    /\ faults' = faults + 1
    /\ End(p)
    /\ UNCHANGED <<db, inode, secrets, artifacts, started, writes, restores>>

Next ==
    \/ \E p \in Procs :
          \/ CreateBackup(p) \/ SnapshotDatabase(p) \/ EncryptSnapshot(p)
          \/ RecordSucceeded(p) \/ FinishBackup(p) \/ BackupFails(p)
          \/ Prepare(p) \/ OpenRuntime(p) \/ Initialize(p) \/ LoadOrCreateSecrets(p)
          \/ RecordStartupState(p) \/ BuildFails(p)
          \/ Bootstrap(p) \/ Close(p)
          \/ \E tenant \in Tenants : CreateNetwork(p, tenant) \/ AuditedChange(p, tenant)
          \/ \E b \in Backups : BeginRestore(p, b)
          \/ RollbackRefused(p) \/ ReplaceDatabase(p) \/ RecordRestored(p)
          \/ Crash(p)
    \/ Prune

Spec == Init /\ [][Next]_vars

-----------------------------------------------------------------------------
(* Properties *)

\* Every row and lock has the values the code gives it; each migration is
\* applied at most once, and in order, however many processes start.
TypeOK ==
    /\ db.ledger \in [Versions -> 0..1]
    /\ \A v \in Versions : v > 1 /\ db.ledger[v] = 1 => db.ledger[v - 1] = 1
    /\ db.tenants \subseteq Tenants
    /\ db.history \in [Backups -> {"none", "started", "succeeded", "failed", "restored"}]
    /\ db.startup \in {"none", "start", "upgrade"}
    /\ secrets \in {"absent", "present"}
    /\ shared \subseteq Procs /\ exclusive \subseteq Procs
    /\ pc \in [Procs -> {"idle", "preparing", "started", "snapshot", "published",
                         "recorded", "building", "migrating", "composed", "serving",
                         "rollback", "restoring", "replaced"}]

\* A database is replaced only under nobody's feet: a process that migrates or
\* takes a backup works on the file that the path named when it took its lock,
\* whatever crashes, rollbacks and restores other processes go through, and
\* nothing serves while a restore is under way.
ReplacedOffline ==
    \A p \in Procs :
        /\ pc[p] \in {"started", "snapshot", "published", "recorded", "migrating",
                      "composed"} => job[p].inode = inode
        /\ pc[p] \in {"restoring", "replaced"} =>
              \A q \in Procs \ {p} :
                  pc[q] \in {"idle", "preparing", "building", "rollback"}

\* "A backup from before a new network was created cannot silently delete
\* that network": no restore and no automatic rollback loses one.
NetworksKept == [][db.tenants \subseteq db'.tenants]_vars

\* Requests of several processes and networks, snapshots, and rollbacks to an
\* earlier chain never leave a chain, live or in a backup, that the verifier
\* rejects.
ChainsVerify ==
    \A tenant \in Tenants :
        /\ Verify(db.audit, tenant)
        /\ \A b \in Backups : Verify(artifacts[b].audit, tenant)

=============================================================================
