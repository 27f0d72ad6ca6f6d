---------------------- MODULE ApplianceLifecycleProofs ----------------------
(***************************************************************************)
(* Proofs about ApplianceLifecycle.  That nothing works on a database that *)
(* is replaced follows from the operation lock, and the lock from where    *)
(* each process is (Locks).  That the ledger stays a prefix and that no    *)
(* network is lost also needs what a process knows about the database:     *)
(* which migrations it has applied, and which networks it restores (Fits). *)
(***************************************************************************)
EXTENDS ApplianceLifecycle, SequenceTheorems, TLAPS

Sharing == {"started", "snapshot", "published", "recorded", "migrating", "composed", "serving"}
Restoring == {"restoring", "replaced"}
Pcs == {"idle", "preparing", "building", "rollback"} \cup Sharing \cup Restoring
BackingUp == {"started", "snapshot", "published", "recorded"}

\* The lock is held by exactly the processes that are where they need it.
Locks ==
    /\ pc \in [Procs -> Pcs]
    /\ shared = {p \in Procs : pc[p] \in Sharing}
    /\ exclusive = {p \in Procs : pc[p] \in Restoring}
    /\ exclusive # {} => shared = {}
    /\ \A p, q \in exclusive : p = q

\* What every database file is like, the live one and each snapshot.
Statuses == {"none", "started", "succeeded", "failed", "restored"}
IsSequence(s) == s \in Seq({s[i] : i \in DOMAIN s})
LedgerOK(ledger) ==
    /\ ledger \in [Versions -> 0..1]
    /\ \A v \in Versions : v > 1 /\ ledger[v] = 1 => ledger[v - 1] = 1
ChainOK(chain) == IsSequence(chain) /\ \A tenant \in Tenants : Verify(chain, tenant)
Columns == {"file", "ledger", "tenants", "audit", "history", "startup"}
Image(im) ==
    /\ im = [x \in Columns |-> im[x]]
    /\ LedgerOK(im.ledger)
    /\ im.tenants \subseteq Tenants /\ (im.tenants # {} => im.file)
    /\ ChainOK(im.audit)
    /\ im.history \in [Backups -> Statuses]
    /\ im.startup \in {"none", "start", "upgrade"}

Files ==
    /\ Image(db)
    /\ artifacts = [b \in Backups |-> artifacts[b]]
    /\ \A b \in Backups : Image(artifacts[b])
    /\ started \in 0..MaxBackups
    /\ secrets \in {"absent", "present"}

\* What a process at l with job j knows of the database d, file number i.
Fits(l, j, d, i) ==
    /\ l \in {"idle", "preparing", "building"} \cup BackingUp => j.next = 1
    /\ l \in BackingUp => j.purpose \in {"backup", "upgrade"}
    /\ l \in {"building", "migrating", "composed"} => j.purpose \in {"start", "upgrade"}
    /\ l \in BackingUp \cup Restoring => j.backup \in Backups
    /\ l \in BackingUp \cup {"migrating", "composed"} => j.inode = i
    /\ l = "migrating" => /\ j.next \in 1..(Supported + 1)
                          /\ \A v \in Versions : v < j.next => d.ledger[v] = 1
    /\ l \in {"migrating", "composed", "serving"} => d.file
    /\ l = "restoring" => d.tenants \subseteq j.image.tenants

JobFields == {"purpose", "backup", "image", "next", "inode"}
Job(j) ==
    /\ j = [x \in JobFields |-> j[x]]
    /\ Image(j.image)

Jobs ==
    /\ job = [p \in Procs |-> job[p]]
    /\ \A p \in Procs : Job(job[p]) /\ Fits(pc[p], job[p], db, inode)

Inv == Locks /\ Files /\ Jobs

-----------------------------------------------------------------------------
(* The audit chain *)

\* A sequence that grew by one: what was there, and the new element.
LEMMA Grown ==
    ASSUME NEW s, IsSequence(s), NEW e
    PROVE  /\ IsSequence(Append(s, e)) /\ Len(s) \in Nat
           /\ DOMAIN s = 1..Len(s) /\ DOMAIN Append(s, e) = 1..(Len(s) + 1)
           /\ \A i \in 1..Len(s) : Append(s, e)[i] = s[i]
           /\ Append(s, e)[Len(s) + 1] = e
           /\ \A i \in 1..(Len(s) + 1) : SubSeq(Append(s, e), 1, i - 1) = SubSeq(s, 1, i - 1)
<1> DEFINE S == {s[i] : i \in DOMAIN s}
           T == S \cup {e}
           t == Append(s, e)
<1>1. s \in Seq(T) /\ e \in T
  BY DEF IsSequence
<1> HIDE DEF S
<1> HIDE DEF T
<1>2. /\ t \in Seq(T) /\ Len(t) = Len(s) + 1 /\ Len(s) \in Nat
      /\ DOMAIN s = 1..Len(s) /\ DOMAIN t = 1..(Len(s) + 1)
      /\ \A i \in 1..Len(s) : t[i] = s[i]
      /\ t[Len(s) + 1] = e
  BY <1>1
<1>3. t \in Seq({t[i] : i \in DOMAIN t})
  <2>1. t \in [1..Len(t) -> T] /\ Len(t) \in Nat
    BY <1>2, LenProperties
  <2>2. t \in [1..Len(t) -> {t[k] : k \in DOMAIN t}]
    BY <2>1
  <2> QED BY <2>1, <2>2, SeqDef
<1>4. ASSUME NEW i \in 1..(Len(s) + 1)
      PROVE  SubSeq(t, 1, i - 1) = SubSeq(s, 1, i - 1)
  <2>1. /\ i - 1 \in Int /\ i - 1 <= Len(s) /\ 1 \in Int
        /\ \A k \in 1..(i - 1) : t[k] \in T /\ s[k] \in T /\ t[k] = s[k]
    BY <1>1, <1>2
  <2>2. /\ SubSeq(t, 1, i - 1) \in Seq(T) /\ SubSeq(s, 1, i - 1) \in Seq(T)
        /\ Len(SubSeq(t, 1, i - 1)) = Len(SubSeq(s, 1, i - 1))
        /\ Len(SubSeq(s, 1, i - 1)) = i - 1
        /\ \A k \in 1..(i - 1) : SubSeq(t, 1, i - 1)[k] = SubSeq(s, 1, i - 1)[k]
    BY <1>2, <2>1
  <2> QED BY <2>2
<1> QED BY <1>2, <1>3, <1>4 DEF IsSequence

\* append keeps every network's chain one that verify accepts.
LEMMA AppendVerifies ==
    ASSUME NEW chain, ChainOK(chain), NEW tenant \in Tenants, NEW id
    PROVE  ChainOK(AppendAudit(chain, tenant, id))
<1> DEFINE row == AuditRow(tenant, id, LastHmac(Entries(chain, tenant)))
           new == Append(chain, row)
<1>0. IsSequence(chain)
  BY DEF ChainOK
<1>1. /\ IsSequence(new) /\ Len(chain) \in Nat
      /\ DOMAIN chain = 1..Len(chain) /\ DOMAIN new = 1..(Len(chain) + 1)
      /\ \A i \in 1..Len(chain) : new[i] = chain[i]
      /\ new[Len(chain) + 1] = row
      /\ \A i \in 1..(Len(chain) + 1) : SubSeq(new, 1, i - 1) = SubSeq(chain, 1, i - 1)
  BY <1>0, Grown
<1>2. SubSeq(chain, 1, Len(chain)) = chain
  BY <1>0, SubSeqFull DEF IsSequence
<1>3. /\ row.tenant = tenant /\ row.previous = LastHmac(Entries(chain, tenant))
      /\ row.checkpoint = CheckpointHmac(EntryHmac(row))
  BY DEF AuditRow, EntryHmac
<1> HIDE DEF row
<1> HIDE DEF new
<1>4. ASSUME NEW u \in Tenants, NEW i \in DOMAIN new, new[i].tenant = u
      PROVE  /\ new[i].previous = LastHmac(Entries(SubSeq(new, 1, i - 1), u))
             /\ new[i].checkpoint = CheckpointHmac(EntryHmac(new[i]))
  <2>1. CASE i \in 1..Len(chain)
    <3>1. /\ new[i] = chain[i] /\ i \in DOMAIN chain
          /\ SubSeq(new, 1, i - 1) = SubSeq(chain, 1, i - 1)
      BY <1>1, <2>1
    <3> QED BY <1>4, <3>1 DEF ChainOK, Verify
  <2>2. CASE i = Len(chain) + 1
    <3>1. i - 1 = Len(chain) /\ new[i] = row /\ SubSeq(new, 1, i - 1) = SubSeq(chain, 1, i - 1)
      BY <1>1, <2>2
    <3>2. u = tenant /\ SubSeq(new, 1, i - 1) = chain
      BY <1>2, <1>3, <1>4, <3>1
    <3> QED BY <1>3, <3>1, <3>2
  <2> QED BY <1>1, <2>1, <2>2
<1>5. ChainOK(new)
  BY <1>1, <1>4 DEF ChainOK, Verify
<1> QED BY <1>5 DEF AppendAudit, new, row

-----------------------------------------------------------------------------
(* Database files *)

\* The live database.
LEMMA LiveImage == ASSUME Inv PROVE Image(db)
  BY DEF Inv, Files

\* A row of backup_history is written.
LEMMA HistoryWritten ==
    ASSUME NEW im, Image(im), NEW b, NEW x \in Statuses
    PROVE  LET new == [im EXCEPT !.history[b] = x]
           IN  /\ Image(new) /\ (im.file => new.file)
               /\ new.ledger = im.ledger /\ new.tenants = im.tenants
<1> DEFINE new == [im EXCEPT !.history[b] = x]
<1>0. im = [c \in Columns |-> im[c]]
  BY DEF Image
<1>1. /\ new = [c \in Columns |-> new[c]]
      /\ (im.file => new.file)
               /\ new.ledger = im.ledger /\ new.tenants = im.tenants
      /\ new.audit = im.audit /\ new.startup = im.startup
      /\ new.history = [im.history EXCEPT ![b] = x]
  BY <1>0 DEF Columns
<1> HIDE DEF new
<1>2. new.history \in [Backups -> Statuses]
  BY <1>1 DEF Image
<1>3. Image(new)
  BY <1>1, <1>2 DEF Image
<1> QED BY <1>1, <1>3 DEF new

\* The file appears.
LEMMA FileWritten ==
    ASSUME NEW im, Image(im)
    PROVE  LET new == [im EXCEPT !.file = TRUE]
           IN  Image(new) /\ new.file /\ new.ledger = im.ledger /\ new.tenants = im.tenants
<1> DEFINE new == [im EXCEPT !.file = TRUE]
<1>0. im = [c \in Columns |-> im[c]]
  BY DEF Image
<1>1. /\ new = [c \in Columns |-> new[c]]
      /\ new.file = TRUE /\ new.ledger = im.ledger /\ new.tenants = im.tenants
      /\ new.audit = im.audit /\ new.history = im.history /\ new.startup = im.startup
  BY <1>0 DEF Columns
<1> HIDE DEF new
<1>2. Image(new)
  BY <1>1 DEF Image
<1> QED BY <1>1, <1>2 DEF new

\* A migration is applied after the ones before it.
LEMMA LedgerWritten ==
    ASSUME NEW im, Image(im), NEW v \in Versions,
           \A w \in Versions : w < v => im.ledger[w] = 1
    PROVE  LET new == [im EXCEPT !.ledger[v] = IF @ = 0 THEN 1 ELSE @]
           IN  /\ Image(new) /\ (im.file => new.file)
               /\ new.tenants = im.tenants /\ new.ledger[v] = 1
               /\ \A w \in Versions : im.ledger[w] = 1 => new.ledger[w] = 1
<1> DEFINE new == [im EXCEPT !.ledger[v] = IF @ = 0 THEN 1 ELSE @]
<1>0. im = [c \in Columns |-> im[c]] /\ im.ledger \in [Versions -> 0..1]
  BY DEF Image, LedgerOK
<1>1. /\ new = [c \in Columns |-> new[c]]
      /\ new.file = im.file /\ new.tenants = im.tenants
      /\ new.audit = im.audit /\ new.history = im.history /\ new.startup = im.startup
      /\ new.ledger = [im.ledger EXCEPT ![v] = IF im.ledger[v] = 0 THEN 1 ELSE im.ledger[v]]
  BY <1>0 DEF Columns
<1> HIDE DEF new
<1>2. /\ new.ledger \in [Versions -> 0..1] /\ new.ledger[v] = 1
      /\ \A w \in Versions \ {v} : new.ledger[w] = im.ledger[w]
  BY <1>0, <1>1
<1>3. ASSUME NEW w \in Versions, w > 1, new.ledger[w] = 1
      PROVE  new.ledger[w - 1] = 1
  <2>1. w - 1 \in Versions /\ w - 1 < w /\ w \in Nat
    BY <1>3, ApplianceAssumption DEF Versions
  <2>2. CASE w = v
    BY <1>2, <2>1, <2>2
  <2>3. CASE w # v
    BY <1>2, <1>3, <2>1, <2>3 DEF Image, LedgerOK
  <2> QED BY <2>2, <2>3
<1>4. Image(new)
  BY <1>1, <1>2, <1>3 DEF Image, LedgerOK
<1> QED BY <1>1, <1>2, <1>4 DEF new

\* A start is recorded.
LEMMA StartupWritten ==
    ASSUME NEW im, Image(im), NEW x \in {"none", "start", "upgrade"}
    PROVE  LET new == [im EXCEPT !.startup = x]
           IN  /\ Image(new) /\ (im.file => new.file)
               /\ new.ledger = im.ledger /\ new.tenants = im.tenants
<1> DEFINE new == [im EXCEPT !.startup = x]
<1>0. im = [c \in Columns |-> im[c]]
  BY DEF Image
<1>1. /\ new = [c \in Columns |-> new[c]]
      /\ (im.file => new.file)
               /\ new.ledger = im.ledger /\ new.tenants = im.tenants
      /\ new.audit = im.audit /\ new.history = im.history /\ new.startup = x
  BY <1>0 DEF Columns
<1> HIDE DEF new
<1>2. Image(new)
  BY <1>1 DEF Image
<1> QED BY <1>1, <1>2 DEF new

\* A network is added, or an audit entry, or both.
LEMMA NetworkWritten ==
    ASSUME NEW im, Image(im), im.file, NEW t, t \subseteq Tenants
    PROVE  LET new == [im EXCEPT !.tenants = t]
           IN  Image(new) /\ new.file /\ new.ledger = im.ledger /\ new.tenants = t
<1> DEFINE new == [im EXCEPT !.tenants = t]
<1>0. im = [c \in Columns |-> im[c]]
  BY DEF Image
<1>1. /\ new = [c \in Columns |-> new[c]]
      /\ new.file /\ new.ledger = im.ledger /\ new.tenants = t
      /\ new.audit = im.audit /\ new.history = im.history /\ new.startup = im.startup
  BY <1>0 DEF Columns
<1> HIDE DEF new
<1>2. Image(new)
  BY <1>1 DEF Image
<1> QED BY <1>1, <1>2 DEF new

\* A database whose audit chain is replaced by one that verifies.
LEMMA AuditWritten ==
    ASSUME NEW im, Image(im), NEW a, ChainOK(a)
    PROVE  LET new == [im EXCEPT !.audit = a]
           IN  /\ Image(new) /\ (im.file => new.file)
               /\ new.ledger = im.ledger /\ new.tenants = im.tenants
<1> DEFINE new == [im EXCEPT !.audit = a]
<1>0. im = [c \in Columns |-> im[c]]
  BY DEF Image
<1>1. /\ new = [c \in Columns |-> new[c]]
      /\ (im.file => new.file)
               /\ new.ledger = im.ledger /\ new.tenants = im.tenants
      /\ new.audit = a /\ new.history = im.history /\ new.startup = im.startup
  BY <1>0 DEF Columns
<1> HIDE DEF new
<1>2. Image(new)
  BY <1>1 DEF Image
<1> QED BY <1>1, <1>2 DEF new

\* The file that is not there.
LEMMA EmptyImage == Image(NoImage) /\ NoImage.tenants = {}
<1>1. LedgerOK([v \in Versions |-> 0])
  <2>1. [v \in Versions |-> 0] \in [Versions -> 0..1]
    OBVIOUS
  <2>2. \A v \in Versions : [w \in Versions |-> 0][v] # 1
    OBVIOUS
  <2> QED BY <2>1, <2>2 DEF LedgerOK
<1>2. ChainOK(<<>>)
  BY EmptySeq DEF ChainOK, IsSequence, Verify
<1>3. [b \in Backups |-> "none"] \in [Backups -> Statuses]
  BY DEF Statuses
<1>4. /\ NoImage = [c \in Columns |-> NoImage[c]]
      /\ NoImage.ledger = [v \in Versions |-> 0] /\ NoImage.tenants = {}
      /\ NoImage.audit = <<>> /\ NoImage.history = [b \in Backups |-> "none"]
      /\ NoImage.startup = "none"
  BY DEF NoImage, Columns
<1> QED BY <1>1, <1>2, <1>3, <1>4 DEF Image

-----------------------------------------------------------------------------
(* One process moves *)

\* Where the lock must be when process p gets to l.
LEMMA LocksMove ==
    ASSUME Locks, NEW p \in Procs, NEW l \in Pcs, Goto(p, l),
           shared' = IF l \in Sharing THEN shared \cup {p} ELSE shared \ {p},
           exclusive' = IF l \in Restoring THEN exclusive \cup {p} ELSE exclusive \ {p},
           l \in Sharing => exclusive = {},
           l \in Restoring => shared \subseteq {p} /\ exclusive \subseteq {p}
    PROVE  Locks'
<1>1. /\ pc' \in [Procs -> Pcs] /\ pc'[p] = l
      /\ \A q \in Procs \ {p} : pc'[q] = pc[q]
  BY DEF Locks, Goto
<1>2. ~(l \in Sharing /\ l \in Restoring)
  BY DEF Sharing, Restoring
<1>3. shared' = {q \in Procs : pc'[q] \in Sharing}
  BY <1>1 DEF Locks
<1>4. exclusive' = {q \in Procs : pc'[q] \in Restoring}
  BY <1>1 DEF Locks
<1>5. exclusive' # {} => shared' = {}
  BY <1>2 DEF Locks
<1>6. \A q, r \in exclusive' : q = r
  BY DEF Locks
<1> QED BY <1>1, <1>3, <1>4, <1>5, <1>6 DEF Locks

\* A process that goes on without touching the lock.
LEMMA LocksStay ==
    ASSUME Locks, NEW p \in Procs, NEW l \in Pcs, Goto(p, l), UNCHANGED <<shared, exclusive>>,
           l \in Sharing <=> pc[p] \in Sharing, l \in Restoring <=> pc[p] \in Restoring
    PROVE  Locks'
<1>1. p \in shared <=> l \in Sharing
  BY DEF Locks
<1>2. p \in exclusive <=> l \in Restoring
  BY DEF Locks
<1>3. shared' = IF l \in Sharing THEN shared \cup {p} ELSE shared \ {p}
  BY <1>1
<1>4. exclusive' = IF l \in Restoring THEN exclusive \cup {p} ELSE exclusive \ {p}
  BY <1>2
<1>5. l \in Sharing => exclusive = {}
  BY <1>1 DEF Locks
<1>6. l \in Restoring => shared \subseteq {p} /\ exclusive \subseteq {p}
  BY <1>2 DEF Locks
<1> QED BY <1>3, <1>4, <1>5, <1>6, LocksMove

\* A process that gives its lock back.
LEMMA LocksReleased ==
    ASSUME Locks, NEW p \in Procs, NEW l \in Pcs \ (Sharing \cup Restoring), Goto(p, l),
           ReleaseLock(p)
    PROVE  Locks'
  BY LocksMove DEF ReleaseLock

\* A process that takes it.
LEMMA LocksTaken ==
    ASSUME Locks, NEW p \in Procs, NEW l \in Sharing, Goto(p, l), AcquireShared(p)
    PROVE  Locks'
<1>1. l \in Pcs /\ l \notin Restoring
  BY DEF Pcs, Sharing, Restoring
<1> QED BY <1>1, LocksMove DEF AcquireShared

\* The job of p changes, and the others still fit the database.
LEMMA JobsMove ==
    ASSUME Inv, NEW p \in Procs, NEW l, NEW j, Goto(p, l), job' = [job EXCEPT ![p] = j],
           Job(j), Fits(l, j, db', inode'), inode' = inode,
           \A v \in Versions : db.ledger[v] = 1 => db'.ledger[v] = 1,
           db.file => db'.file,
           db'.tenants \subseteq db.tenants
              \/ \A q \in Procs \ {p} : pc[q] \notin Restoring
    PROVE  Jobs'
<1>1. /\ pc'[p] = l /\ \A q \in Procs \ {p} : pc'[q] = pc[q]
  BY DEF Inv, Locks, Goto
<1>2. /\ job' = [q \in Procs |-> job'[q]]
      /\ job'[p] = j /\ \A q \in Procs \ {p} : job'[q] = job[q]
  BY DEF Inv, Jobs
<1>3. ASSUME NEW q \in Procs \ {p}
      PROVE  Job(job[q]) /\ Fits(pc[q], job[q], db', inode')
  <2>1. Job(job[q]) /\ Fits(pc[q], job[q], db, inode)
    BY DEF Inv, Jobs
  <2>2. pc[q] = "restoring" => db'.tenants \subseteq job[q].image.tenants
    BY <2>1 DEF Fits, Restoring
  <2>3. pc[q] \in {"migrating", "composed", "serving"} => db'.file
    BY <2>1 DEF Fits
  <2> QED BY <2>1, <2>2, <2>3 DEF Fits
<1>4. ASSUME NEW q \in Procs
      PROVE  Job(job'[q]) /\ Fits(pc'[q], job'[q], db', inode')
  <2>1. CASE q = p
    BY <1>1, <1>2, <2>1
  <2>2. CASE q # p
    BY <1>1, <1>2, <1>3, <2>2
  <2> QED BY <2>1, <2>2
<1> QED BY <1>2, <1>4 DEF Jobs

\* A process that stays where it is, or keeps its job.
LEMMA StayPut ==
    ASSUME Inv, NEW p \in Procs
    PROVE  /\ pc = [pc EXCEPT ![p] = pc[p]] /\ pc[p] \in Pcs
           /\ job = [job EXCEPT ![p] = job[p]]
           /\ Job(job[p]) /\ Fits(pc[p], job[p], db, inode)
           /\ Image(job[p].image)
<1>1. pc = [pc EXCEPT ![p] = pc[p]] /\ pc[p] \in Pcs
  BY DEF Inv, Locks
<1>2. job = [job EXCEPT ![p] = job[p]]
  BY DEF Inv, Jobs
<1> QED BY <1>1, <1>2 DEF Inv, Jobs, Job

\* The job of a process that does nothing.
LEMMA EmptyJob ==
    /\ Job(NoJob) /\ NoJob.next = 1
    /\ \A d, i : Fits("idle", NoJob, d, i)
<1>1. /\ NoJob = [x \in JobFields |-> NoJob[x]] /\ NoJob.image = NoImage /\ NoJob.next = 1
  BY DEF NoJob, JobFields
<1>2. Job(NoJob)
  BY <1>1, EmptyImage DEF Job
<1> QED BY <1>1, <1>2 DEF Fits, BackingUp, Restoring

\* A process ends: its lock and its job go with it.
LEMMA EndKeeps ==
    ASSUME Inv, NEW p \in Procs, End(p), inode' = inode, Files',
           db'.ledger = db.ledger, db'.tenants = db.tenants, db.file => db'.file
    PROVE  Inv'
<1>1. "idle" \in Pcs \ (Sharing \cup Restoring)
  BY DEF Pcs, Sharing, Restoring
<1>2. Locks'
  BY <1>1, LocksReleased DEF Inv, End
<1>3. Fits("idle", NoJob, db', inode')
  BY EmptyJob
<1>4. Jobs'
  BY <1>3, EmptyJob, JobsMove DEF End
<1> QED BY <1>2, <1>4 DEF Inv

\* The files are not touched.
LEMMA FilesStay ==
    ASSUME Files, UNCHANGED <<db, artifacts, started>>, secrets' \in {"absent", "present"}
    PROVE  Files'
  BY DEF Files

-----------------------------------------------------------------------------
(* Backups *)

\* A job is made from the empty one.
LEMMA NewJob ==
    ASSUME NEW j, j = [x \in JobFields |-> j[x]], j.image = NoJob.image, j.next = NoJob.next
    PROVE  Job(j) /\ j.next = 1
  BY EmptyJob DEF Job

\* A job with another snapshot.
LEMMA JobWithImage ==
    ASSUME NEW j, Job(j), NEW im, Image(im)
    PROVE  LET new == [j EXCEPT !.image = im]
           IN  /\ Job(new) /\ new.image = im /\ new.next = j.next /\ new.backup = j.backup
               /\ new.purpose = j.purpose /\ new.inode = j.inode
<1> DEFINE new == [j EXCEPT !.image = im]
<1>0. j = [x \in JobFields |-> j[x]]
  BY DEF Job
<1>1. /\ new = [x \in JobFields |-> new[x]] /\ new.image = im /\ new.next = j.next
      /\ new.backup = j.backup /\ new.purpose = j.purpose /\ new.inode = j.inode
  BY <1>0 DEF JobFields
<1> HIDE DEF new
<1> QED BY <1>1 DEF Job, new

\* A backup begins: the lock is shared, a history row is written.
LEMMA RecordStartedKeeps ==
    ASSUME Inv, NEW p \in Procs, NEW purpose \in {"backup", "upgrade"},
           RecordStarted(p, purpose)
    PROVE  Inv'
<1> DEFINE b == started + 1
           status == "started"
           j == [NoJob EXCEPT !.purpose = purpose, !.backup = b, !.inode = inode]
<1>0. started \in 0..MaxBackups /\ MaxBackups \in Nat /\ started < MaxBackups
  BY ApplianceAssumption DEF Inv, Files, RecordStarted
<1>1. b \in Backups /\ started' \in 0..MaxBackups
  BY <1>0 DEF Backups, RecordStarted
<1>2. status \in Statuses /\ db' = [db EXCEPT !.history[b] = status]
  BY DEF RecordStarted, Statuses
<1>2a. /\ inode' = inode /\ job' = [job EXCEPT ![p] = j] /\ Goto(p, "started")
      /\ AcquireShared(p)
  BY DEF RecordStarted
<1> HIDE DEF b
<1> HIDE DEF status
<1>3. /\ Image(db') /\ (db.file => db'.file)
      /\ db'.ledger = db.ledger /\ db'.tenants = db.tenants
  BY <1>2, HistoryWritten, LiveImage
<1>4. Files'
  BY <1>1, <1>3 DEF Inv, Files, RecordStarted
<1>5. Locks'
  BY <1>2a, LocksTaken DEF Inv, Sharing
<1>6. Job(j) /\ j.purpose = purpose /\ j.backup = b /\ j.inode = inode /\ j.next = 1
  <2>1. NoJob = [x \in JobFields |-> NoJob[x]]
    BY EmptyJob DEF Job
  <2>2. /\ j = [x \in JobFields |-> j[x]] /\ j.image = NoJob.image /\ j.next = NoJob.next
        /\ j.purpose = purpose /\ j.backup = b /\ j.inode = inode
    BY <2>1 DEF JobFields
  <2> HIDE DEF j
  <2> QED BY <2>2, NewJob
<1> HIDE DEF j
<1>7. Fits("started", j, db', inode')
  BY <1>1, <1>2a, <1>6 DEF Fits, BackingUp, Restoring
<1>8. Jobs'
  BY <1>2a, <1>3, <1>6, <1>7, JobsMove
<1> QED BY <1>4, <1>5, <1>8 DEF Inv

\* The snapshot is a copy of a good database.
LEMMA SnapshotDatabaseKeeps ==
    ASSUME Inv, NEW p \in Procs, SnapshotDatabase(p)
    PROVE  Inv'
<1> DEFINE j == [job[p] EXCEPT !.image = db]
<1>1. /\ pc[p] = "started" /\ job' = [job EXCEPT ![p] = j] /\ Goto(p, "snapshot")
      /\ UNCHANGED <<db, inode, secrets, artifacts, shared, exclusive, started>>
  BY DEF SnapshotDatabase
<1>2. Locks'
  BY <1>1, LocksStay DEF Inv, Sharing, Restoring, Pcs
<1>3. Files'
  BY <1>1 DEF Inv, Files
<1>4. /\ Job(j) /\ j.next = job[p].next /\ j.backup = job[p].backup
      /\ j.purpose = job[p].purpose /\ j.inode = job[p].inode
  BY StayPut, JobWithImage DEF Inv, Files
<1> HIDE DEF j
<1>5. Fits("snapshot", j, db', inode')
  BY <1>1, <1>4, StayPut DEF Fits, BackingUp, Restoring
<1>6. Jobs'
  BY <1>1, <1>4, <1>5, JobsMove
<1> QED BY <1>2, <1>3, <1>6 DEF Inv

\* The artifact is published from the snapshot.
LEMMA EncryptSnapshotKeeps ==
    ASSUME Inv, NEW p \in Procs, EncryptSnapshot(p)
    PROVE  Inv'
<1>1. /\ pc[p] = "snapshot" /\ Goto(p, "published") /\ job' = job
      /\ artifacts' = [artifacts EXCEPT ![job[p].backup] = job[p].image]
      /\ UNCHANGED <<db, inode, secrets, shared, exclusive, started>>
  BY DEF EncryptSnapshot
<1>2. Locks'
  BY <1>1, LocksStay DEF Inv, Sharing, Restoring, Pcs
<1>3. Image(job[p].image)
  BY StayPut
<1>4. /\ artifacts' = [b \in Backups |-> artifacts'[b]]
      /\ \A b \in Backups : Image(artifacts'[b])
  BY <1>1, <1>3 DEF Inv, Files
<1>5. Files'
  BY <1>1, <1>4 DEF Inv, Files
<1>6. Fits("published", job[p], db', inode')
  BY <1>1, StayPut DEF Fits, BackingUp, Restoring
<1>7. Jobs'
  BY <1>1, <1>6, StayPut, JobsMove
<1> QED BY <1>2, <1>5, <1>7 DEF Inv

\* The history row becomes "succeeded" in the live database only.
LEMMA RecordSucceededKeeps ==
    ASSUME Inv, NEW p \in Procs, RecordSucceeded(p)
    PROVE  Inv'
<1> DEFINE b == job[p].backup
           x == IF db.history[b] = "started" THEN "succeeded" ELSE db.history[b]
<1>1. /\ pc[p] = "published" /\ Goto(p, "recorded") /\ job' = job
      /\ db' = [db EXCEPT !.history[b] = x]
      /\ UNCHANGED <<inode, secrets, artifacts, shared, exclusive, started>>
  BY DEF RecordSucceeded
<1>2. Fits("published", job[p], db, inode)
  BY <1>1, StayPut
<1>3. x \in Statuses
  BY <1>2 DEF Fits, BackingUp, Inv, Files, Image, Statuses
<1> HIDE DEF x
<1> HIDE DEF b
<1>4. /\ Image(db') /\ (db.file => db'.file)
      /\ db'.ledger = db.ledger /\ db'.tenants = db.tenants
  BY <1>1, <1>3, HistoryWritten, LiveImage
<1>5. Files'
  BY <1>1, <1>4 DEF Inv, Files
<1>6. Locks'
  BY <1>1, LocksStay DEF Inv, Sharing, Restoring, Pcs
<1>7. Fits("recorded", job[p], db', inode')
  BY <1>1, <1>2 DEF Fits, BackingUp, Restoring
<1>8. Jobs'
  BY <1>1, <1>4, <1>7, StayPut, JobsMove
<1> QED BY <1>5, <1>6, <1>8 DEF Inv

\* Pruning leaves artifacts and gaps.
LEMMA PrunedFiles ==
    ASSUME Inv, artifacts' = Pruned(Retention), UNCHANGED <<db, secrets, started>>
    PROVE  Files'
<1>1. artifacts' = [b \in Backups |-> artifacts'[b]]
      /\ \A b \in Backups : artifacts'[b] = NoImage \/ artifacts'[b] = artifacts[b]
  BY DEF Pruned
<1>2. \A b \in Backups : Image(artifacts'[b])
  BY <1>1, EmptyImage DEF Inv, Files
<1> QED BY <1>1, <1>2 DEF Inv, Files

\* The backup ends with a pruning, or the upgrade it was for goes on.
LEMMA FinishBackupKeeps ==
    ASSUME Inv, NEW p \in Procs, FinishBackup(p)
    PROVE  Inv'
<1>1. pc[p] = "recorded" /\ UNCHANGED <<db, inode, secrets, started>>
  BY DEF FinishBackup
<1>2. CASE job[p].purpose = "upgrade"
  <2> DEFINE j == [job[p] EXCEPT !.image = NoImage]
  <2>1. artifacts' = artifacts /\ ReleaseLock(p) /\ Goto(p, "building")
        /\ job' = [job EXCEPT ![p] = j]
    BY <1>2 DEF FinishBackup
  <2>2. Locks'
    BY <2>1, LocksReleased DEF Inv, Pcs, Sharing, Restoring
  <2>3. Files'
    BY <1>1, <2>1 DEF Inv, Files
  <2>4. Job(j) /\ j.next = job[p].next /\ j.purpose = job[p].purpose
    BY StayPut, JobWithImage, EmptyImage
  <2> HIDE DEF j
  <2>5. Fits("building", j, db', inode')
    BY <1>1, <1>2, <2>4, StayPut DEF Fits, BackingUp, Restoring
  <2>6. Jobs'
    BY <1>1, <2>1, <2>4, <2>5, JobsMove
  <2> QED BY <2>2, <2>3, <2>6 DEF Inv
<1>3. CASE job[p].purpose # "upgrade"
  <2>1. artifacts' = Pruned(Retention) /\ End(p)
    BY <1>3 DEF FinishBackup
  <2>2. Files'
    BY <1>1, <2>1, PrunedFiles
  <2> QED BY <1>1, <2>1, <2>2, EndKeeps
<1> QED BY <1>2, <1>3

\* A backup fails at any of its steps and removes its artifact.
LEMMA BackupFailsKeeps ==
    ASSUME Inv, NEW p \in Procs, BackupFails(p)
    PROVE  Inv'
<1> DEFINE b == job[p].backup
           x == IF db.history[b] = "started" THEN "failed" ELSE db.history[b]
<1>1. /\ pc[p] \in BackingUp /\ End(p)
      /\ db' = [db EXCEPT !.history[b] = x]
      /\ artifacts' = [artifacts EXCEPT ![b] = NoImage]
      /\ UNCHANGED <<inode, secrets, started>>
  BY DEF BackupFails, BackingUp
<1>2. b \in Backups
  BY <1>1, StayPut DEF Fits
<1>3. x \in Statuses
  BY <1>2 DEF Inv, Files, Image, Statuses
<1> HIDE DEF x
<1> HIDE DEF b
<1>4. /\ Image(db') /\ (db.file => db'.file)
      /\ db'.ledger = db.ledger /\ db'.tenants = db.tenants
  BY <1>1, <1>3, HistoryWritten, LiveImage
<1>5. /\ artifacts' = [c \in Backups |-> artifacts'[c]]
      /\ \A c \in Backups : Image(artifacts'[c])
  BY <1>1, EmptyImage DEF Inv, Files
<1>6. Files'
  BY <1>1, <1>4, <1>5 DEF Inv, Files
<1> QED BY <1>1, <1>4, <1>6, EndKeeps

\* Retention removes the oldest artifacts.
LEMMA PruneKeeps == ASSUME Inv, Prune PROVE Inv'
<1>1. Files'
  BY PrunedFiles DEF Prune
<1>2. Locks' /\ Jobs'
  BY DEF Inv, Locks, Jobs, Prune
<1> QED BY <1>1, <1>2 DEF Inv

-----------------------------------------------------------------------------
(* Starting and serving *)

\* A process decides whether it starts or upgrades.
LEMMA PrepareKeeps ==
    ASSUME Inv, NEW p \in Procs, Prepare(p)
    PROVE  Inv'
<1>1. /\ pc[p] = "idle"
      /\ UNCHANGED <<db, inode, secrets, artifacts, shared, exclusive, started>>
  BY DEF Prepare
<1>2. Files'
  BY <1>1 DEF Inv, Files
<1>3. CASE Goto(p, "preparing") /\ job' = job
  <2>1. Locks'
    BY <1>1, <1>3, LocksStay DEF Inv, Sharing, Restoring, Pcs
  <2>2. Fits("preparing", job[p], db', inode')
    BY <1>1, StayPut DEF Fits, BackingUp, Restoring
  <2>3. Jobs'
    BY <1>1, <1>3, <2>2, StayPut, JobsMove
  <2> QED BY <1>2, <2>1, <2>3 DEF Inv
<1>4. CASE Goto(p, "building") /\ job' = [job EXCEPT ![p].purpose = "start"]
  <2> DEFINE j == [job[p] EXCEPT !.purpose = "start"]
  <2>1. Locks'
    BY <1>1, <1>4, LocksStay DEF Inv, Sharing, Restoring, Pcs
  <2>2. Job(job[p]) /\ Fits("idle", job[p], db, inode)
    BY <1>1, StayPut
  <2>3. /\ j = [x \in JobFields |-> j[x]] /\ j.purpose = "start"
        /\ j.next = job[p].next /\ j.image = job[p].image
    BY <2>2 DEF Job, JobFields
  <2>4. job' = [job EXCEPT ![p] = j]
    BY <1>4
  <2> HIDE DEF j
  <2>5. Job(j) /\ Fits("building", j, db', inode')
    BY <2>2, <2>3 DEF Job, Fits, BackingUp, Restoring
  <2>6. Jobs'
    BY <1>1, <1>4, <2>4, <2>5, JobsMove
  <2> QED BY <1>2, <2>1, <2>6 DEF Inv
<1> QED BY <1>3, <1>4 DEF Prepare

\* It takes the shared lock, so nobody restores the file it opens.
LEMMA OpenRuntimeKeeps ==
    ASSUME Inv, NEW p \in Procs, OpenRuntime(p)
    PROVE  Inv'
<1> DEFINE j == [job[p] EXCEPT !.inode = inode]
<1>1. /\ pc[p] = "building" /\ Goto(p, "migrating") /\ AcquireShared(p)
      /\ db' = [db EXCEPT !.file = TRUE] /\ job' = [job EXCEPT ![p] = j]
      /\ UNCHANGED <<inode, secrets, artifacts, started>>
  BY DEF OpenRuntime
<1>2. Image(db') /\ db'.file /\ db'.ledger = db.ledger /\ db'.tenants = db.tenants
  BY <1>1, FileWritten, LiveImage
<1>3. Files'
  BY <1>1, <1>2 DEF Inv, Files
<1>4. Locks'
  BY <1>1, LocksTaken DEF Inv, Sharing
<1>5. Job(job[p]) /\ Fits("building", job[p], db, inode)
  BY <1>1, StayPut
<1>6. /\ j = [x \in JobFields |-> j[x]] /\ j.inode = inode /\ j.purpose = job[p].purpose
      /\ j.next = job[p].next /\ j.image = job[p].image
  BY <1>5 DEF Job, JobFields
<1> HIDE DEF j
<1>7. Job(j)
  BY <1>5, <1>6 DEF Job
<1>8. Fits("migrating", j, db', inode')
  <2>1. j.next = 1 /\ j.purpose \in {"start", "upgrade"}
    BY <1>5, <1>6 DEF Fits
  <2>2. 1 \in 1..(Supported + 1) /\ \A v \in Versions : ~(v < 1)
    BY ApplianceAssumption DEF Versions
  <2> QED BY <1>1, <1>2, <1>6, <2>1, <2>2 DEF Fits, BackingUp, Restoring
<1>9. Jobs'
  BY <1>1, <1>2, <1>7, <1>8, JobsMove
<1> QED BY <1>3, <1>4, <1>9 DEF Inv

\* initialize applies the migrations in order, and the file stays the one it
\* opened: the ledger is a prefix whatever other processes do.
LEMMA InitializeKeeps ==
    ASSUME Inv, NEW p \in Procs, Initialize(p)
    PROVE  Inv'
<1> DEFINE v == job[p].next
           j == [job[p] EXCEPT !.next = @ + 1]
<1>1. /\ pc[p] = "migrating" /\ v <= Supported
      /\ db' = [db EXCEPT !.ledger[v] = IF @ = 0 THEN 1 ELSE @]
      /\ job' = [job EXCEPT ![p] = j]
      /\ UNCHANGED <<inode, secrets, artifacts, shared, exclusive, pc, started>>
  BY DEF Initialize, ApplyMigration
<1>2. Job(job[p]) /\ Fits("migrating", job[p], db, inode)
  BY <1>1, StayPut
<1>3. v \in Versions /\ v \in Nat /\ \A w \in Versions : w < v => db.ledger[w] = 1
  BY <1>1, <1>2, ApplianceAssumption DEF Fits, Versions
<1>4. /\ j = [x \in JobFields |-> j[x]] /\ j.inode = job[p].inode /\ j.purpose = job[p].purpose
      /\ j.next = v + 1 /\ j.image = job[p].image
  BY <1>2 DEF Job, JobFields
<1> HIDE DEF j
<1>5. Job(j)
  BY <1>2, <1>4 DEF Job
<1> HIDE DEF v
<1>6. /\ Image(db') /\ (db.file => db'.file)
      /\ db'.tenants = db.tenants /\ db'.ledger[v] = 1
      /\ \A w \in Versions : db.ledger[w] = 1 => db'.ledger[w] = 1
  BY <1>1, <1>3, LedgerWritten, LiveImage
<1>7. Files'
  BY <1>1, <1>6 DEF Inv, Files
<1>8. Locks'
  BY <1>1 DEF Inv, Locks
<1>9. Fits("migrating", j, db', inode')
  <2>1. j.next \in 1..(Supported + 1)
    BY <1>1, <1>3, <1>4, ApplianceAssumption
  <2>2. ASSUME NEW w \in Versions, w < j.next
        PROVE  db'.ledger[w] = 1
    <3>1. w < v \/ w = v
      BY <1>3, <1>4, <2>2 DEF Versions
    <3> QED BY <1>3, <1>6, <3>1
  <2> QED BY <1>1, <1>2, <1>4, <1>6, <2>1, <2>2 DEF Fits, BackingUp, Restoring
<1>10. Goto(p, "migrating")
  BY <1>1, StayPut DEF Goto
<1>11. Jobs'
  BY <1>1, <1>5, <1>6, <1>9, <1>10, JobsMove
<1> QED BY <1>7, <1>8, <1>11 DEF Inv

\* The secrets are loaded or made once every migration is applied.
LEMMA ComposeKeeps ==
    ASSUME Inv, NEW p \in Procs, LoadOrCreateSecrets(p)
    PROVE  Inv'
<1>1. /\ pc[p] = "migrating" /\ Goto(p, "composed") /\ job' = job /\ secrets' = "present"
      /\ UNCHANGED <<db, inode, artifacts, shared, exclusive, started>>
  BY DEF LoadOrCreateSecrets
<1>2. Locks'
  BY <1>1, LocksStay DEF Inv, Sharing, Restoring, Pcs
<1>3. Files'
  BY <1>1, FilesStay DEF Inv
<1>4. Fits("composed", job[p], db', inode')
  BY <1>1, StayPut DEF Fits, BackingUp, Restoring
<1>5. Jobs'
  BY <1>1, <1>4, StayPut, JobsMove
<1> QED BY <1>2, <1>3, <1>5 DEF Inv

\* The start is recorded and requests are served.
LEMMA StartupKeeps ==
    ASSUME Inv, NEW p \in Procs, RecordStartupState(p)
    PROVE  Inv'
<1> DEFINE x == job[p].purpose
<1>1. /\ pc[p] = "composed" /\ Goto(p, "serving") /\ job' = job
      /\ db' = [db EXCEPT !.startup = x]
      /\ UNCHANGED <<inode, secrets, artifacts, shared, exclusive, started>>
  BY DEF RecordStartupState
<1>2. Fits("composed", job[p], db, inode)
  BY <1>1, StayPut
<1>3. x \in {"none", "start", "upgrade"}
  BY <1>2 DEF Fits
<1> HIDE DEF x
<1>4. /\ Image(db') /\ (db.file => db'.file)
      /\ db'.ledger = db.ledger /\ db'.tenants = db.tenants
  BY <1>1, <1>3, StartupWritten, LiveImage
<1>5. Files'
  BY <1>1, <1>4 DEF Inv, Files
<1>6. Locks'
  BY <1>1, LocksStay DEF Inv, Sharing, Restoring, Pcs
<1>7. Fits("serving", job[p], db', inode')
  BY <1>2, <1>4 DEF Fits, BackingUp, Restoring
<1>8. Jobs'
  BY <1>1, <1>4, <1>7, StayPut, JobsMove
<1> QED BY <1>5, <1>6, <1>8 DEF Inv

\* While a process serves, nothing restores.
LEMMA ServingAlone ==
    ASSUME Inv, NEW p \in Procs, pc[p] \in Sharing, NEW q \in Procs
    PROVE  pc[q] \notin Restoring
  BY DEF Inv, Locks

\* A request changes networks or the audit chain, and nothing else.
LEMMA RequestKeeps ==
    ASSUME Inv, NEW p \in Procs, pc[p] = "serving", Image(db'), db.file => db'.file,
           db'.ledger = db.ledger,
           UNCHANGED <<inode, secrets, artifacts, shared, exclusive, pc, job, started>>
    PROVE  Inv'
<1>1. Files'
  BY DEF Inv, Files
<1>2. Locks'
  BY DEF Inv, Locks
<1>3. Fits("serving", job[p], db', inode')
  BY StayPut DEF Fits, BackingUp, Restoring
<1>4. Goto(p, "serving") /\ job' = [job EXCEPT ![p] = job[p]]
  BY StayPut DEF Goto
<1>5. \A q \in Procs \ {p} : pc[q] \notin Restoring
  BY ServingAlone DEF Sharing
<1>6. Jobs'
  BY <1>3, <1>4, <1>5, StayPut, JobsMove
<1> QED BY <1>1, <1>2, <1>6 DEF Inv

\* The first network.
LEMMA BootstrapKeeps ==
    ASSUME Inv, NEW p \in Procs, Bootstrap(p)
    PROVE  Inv'
<1>1. /\ pc[p] = "serving" /\ db' = [db EXCEPT !.tenants = {FirstTenant}]
      /\ UNCHANGED <<inode, secrets, artifacts, shared, exclusive, pc, job, started>>
  BY DEF Bootstrap
<1>2. db.file /\ {FirstTenant} \subseteq Tenants
  BY <1>1, StayPut, ApplianceAssumption DEF Fits
<1>3. Image(db') /\ db'.file /\ db'.ledger = db.ledger
  BY <1>1, <1>2, NetworkWritten, LiveImage
<1> QED BY <1>1, <1>3, RequestKeeps

\* A further network, with an entry in its chain and in that of the first.
LEMMA CreateNetworkKeeps ==
    ASSUME Inv, NEW p \in Procs, NEW tenant \in Tenants, CreateNetwork(p, tenant)
    PROVE  Inv'
<1> DEFINE t == db.tenants \cup {tenant}
           id == writes + 1
           once == AppendAudit(db.audit, tenant, id)
           a == AppendAudit(once, FirstTenant, id)
           mid == [db EXCEPT !.tenants = t]
<1>1. /\ pc[p] = "serving" /\ db' = [mid EXCEPT !.audit = a]
      /\ UNCHANGED <<inode, secrets, artifacts, shared, exclusive, pc, job, started>>
  BY DEF CreateNetwork
<1>2. db.file /\ t \subseteq Tenants /\ Image(db) /\ ChainOK(db.audit) /\ FirstTenant \in Tenants
  BY <1>1, StayPut, ApplianceAssumption DEF Fits, Inv, Files, Image
<1> HIDE DEF id
<1>3. ChainOK(once)
  BY <1>2, AppendVerifies
<1> HIDE DEF once
<1>4. ChainOK(a)
  BY <1>2, <1>3, AppendVerifies
<1> HIDE DEF a
<1> HIDE DEF t
<1>5. Image(mid) /\ mid.file /\ mid.ledger = db.ledger
  BY <1>2, NetworkWritten
<1> HIDE DEF mid
<1>6. Image(db') /\ db'.file /\ db'.ledger = db.ledger
  BY <1>1, <1>4, <1>5, AuditWritten
<1> QED BY <1>1, <1>6, RequestKeeps

\* Any other request that appends to a chain.
LEMMA AuditedChangeKeeps ==
    ASSUME Inv, NEW p \in Procs, NEW tenant \in Tenants, AuditedChange(p, tenant)
    PROVE  Inv'
<1> DEFINE id == writes + 1
           a == AppendAudit(db.audit, tenant, id)
<1>1. /\ pc[p] = "serving" /\ db' = [db EXCEPT !.audit = a]
      /\ UNCHANGED <<inode, secrets, artifacts, shared, exclusive, pc, job, started>>
  BY DEF AuditedChange
<1>2. Image(db) /\ ChainOK(db.audit)
  BY DEF Inv, Files, Image
<1> HIDE DEF id
<1>3. ChainOK(a)
  BY <1>2, AppendVerifies
<1> HIDE DEF a
<1>4. Image(db') /\ (db.file => db'.file) /\ db'.ledger = db.ledger
  BY <1>1, <1>2, <1>3, AuditWritten
<1> QED BY <1>1, <1>4, RequestKeeps

-----------------------------------------------------------------------------
(* Ending, failing and restoring *)

\* Whatever a process was doing when it ended, nothing on disk changes.
LEMMA PlainEndKeeps ==
    ASSUME Inv, NEW p \in Procs, Close(p) \/ RollbackRefused(p) \/ Crash(p)
    PROVE  Inv'
<1>1. End(p) /\ UNCHANGED <<db, inode, secrets, artifacts, started>>
  BY DEF Close, RollbackRefused, Crash
<1>2. Files'
  BY <1>1 DEF Inv, Files
<1> QED BY <1>1, <1>2, EndKeeps

\* A start that fails gives its lock up, and rolls back if it upgraded.
LEMMA BuildFailsKeeps ==
    ASSUME Inv, NEW p \in Procs, BuildFails(p)
    PROVE  Inv'
<1>1. UNCHANGED <<db, inode, secrets, artifacts, started>>
  BY DEF BuildFails
<1>2. Files'
  BY <1>1 DEF Inv, Files
<1>3. CASE ReleaseLock(p) /\ Goto(p, "rollback") /\ job' = job
  <2>1. Locks'
    BY <1>3, LocksReleased DEF Inv, Pcs, Sharing, Restoring
  <2>2. Fits("rollback", job[p], db', inode')
    BY DEF Fits, BackingUp, Restoring
  <2>3. Jobs'
    BY <1>1, <1>3, <2>2, StayPut, JobsMove
  <2> QED BY <1>2, <2>1, <2>3 DEF Inv
<1>4. CASE End(p)
  BY <1>1, <1>2, <1>4, EndKeeps
<1> QED BY <1>3, <1>4 DEF BuildFails

\* restore_backup takes the lock alone, and the artifact it will move into
\* place has every network of the live database.
LEMMA BeginRestoreKeeps ==
    ASSUME Inv, NEW p \in Procs, NEW b \in Backups, BeginRestore(p, b)
    PROVE  Inv'
<1> DEFINE j == [NoJob EXCEPT !.purpose = "restore", !.backup = b, !.image = artifacts[b]]
<1>1. /\ shared = {} /\ exclusive = {} /\ ValidateRestoreTenant(b)
      /\ exclusive' = exclusive \cup {p} /\ shared' = shared
      /\ job' = [job EXCEPT ![p] = j] /\ Goto(p, "restoring")
      /\ UNCHANGED <<db, inode, secrets, artifacts, started>>
  BY DEF BeginRestore, Restorable, ExclusiveFree, DecryptArtifact
<1>2. Files'
  BY <1>1 DEF Inv, Files
<1>3. Locks'
  <2>1. "restoring" \in Pcs /\ "restoring" \in Restoring /\ "restoring" \notin Sharing
    BY DEF Pcs, Restoring, Sharing
  <2> QED BY <1>1, <2>1, LocksMove DEF Inv
<1>4. Image(artifacts[b])
  BY DEF Inv, Files
<1>5. db.tenants \subseteq artifacts[b].tenants
  BY <1>1 DEF ValidateRestoreTenant, ManifestTenants, DecryptArtifact, Inv, Files, Image
<1>6. NoJob = [x \in JobFields |-> NoJob[x]]
  BY EmptyJob DEF Job
<1>7. j = [x \in JobFields |-> j[x]] /\ j.image = artifacts[b] /\ j.backup = b
  BY <1>6 DEF JobFields
<1> HIDE DEF j
<1>8. Job(j)
  BY <1>4, <1>7 DEF Job
<1>9. Fits("restoring", j, db', inode')
  BY <1>1, <1>5, <1>7 DEF Fits, BackingUp, Restoring
<1>10. Jobs'
  BY <1>1, <1>8, <1>9, JobsMove
<1> QED BY <1>2, <1>3, <1>10 DEF Inv

\* A restore is alone: everyone else is where no lock is held.
LEMMA RestoringAlone ==
    ASSUME Inv, NEW p \in Procs, pc[p] \in Restoring, NEW q \in Procs \ {p}
    PROVE  pc[q] \in {"idle", "preparing", "building", "rollback"}
<1>1. p \in exclusive /\ shared = {} /\ q \notin exclusive
  BY DEF Inv, Locks
<1>2. pc[q] \in Pcs /\ pc[q] \notin Sharing /\ pc[q] \notin Restoring
  BY <1>1 DEF Inv, Locks
<1> QED BY <1>2 DEF Pcs

\* The file is replaced under the exclusive lock; what was restored is a superset.
LEMMA ReplaceDatabaseKeeps ==
    ASSUME Inv, NEW p \in Procs, ReplaceDatabase(p)
    PROVE  Inv' /\ db.tenants \subseteq db'.tenants
<1>1. /\ pc[p] = "restoring" /\ db' = job[p].image /\ Goto(p, "replaced")
      /\ UNCHANGED <<secrets, artifacts, shared, exclusive, job, started>>
  BY DEF ReplaceDatabase
<1>2. Image(db')
  BY <1>1, StayPut
<1>3. Files'
  BY <1>1, <1>2 DEF Inv, Files
<1>4. Locks'
  BY <1>1, LocksStay DEF Inv, Sharing, Restoring, Pcs
<1>5. Fits("replaced", job[p], db', inode')
  BY <1>1, StayPut DEF Fits, BackingUp, Restoring
<1>6. ASSUME NEW q \in Procs \ {p}
      PROVE  Fits(pc[q], job[q], db', inode')
  <2>1. pc[q] \in {"idle", "preparing", "building", "rollback"}
    BY <1>1, RestoringAlone DEF Restoring
  <2> QED BY <2>1, StayPut DEF Fits, BackingUp, Restoring
<1>7. pc'[p] = "replaced" /\ \A q \in Procs \ {p} : pc'[q] = pc[q]
  BY <1>1 DEF Goto, Inv, Locks
<1>8. ASSUME NEW q \in Procs
      PROVE  Job(job'[q]) /\ Fits(pc'[q], job'[q], db', inode')
  <2>1. job' = job /\ Job(job[q])
    BY <1>1 DEF Inv, Jobs
  <2> QED BY <1>5, <1>6, <1>7, <2>1
<1>9. Jobs'
  BY <1>1, <1>8 DEF Inv, Jobs
<1>10. db.tenants \subseteq db'.tenants
  BY <1>1, StayPut DEF Fits
<1> QED BY <1>3, <1>4, <1>9, <1>10 DEF Inv

\* The restore is recorded in the database it put in place.
LEMMA RecordRestoredKeeps ==
    ASSUME Inv, NEW p \in Procs, RecordRestored(p)
    PROVE  Inv'
<1> DEFINE b == job[p].backup
           x == "restored"
<1>1. /\ db' = [db EXCEPT !.history[b] = x] /\ End(p) /\ x \in Statuses
      /\ UNCHANGED <<inode, secrets, artifacts, started>>
  BY DEF RecordRestored, Statuses
<1> HIDE DEF x
<1> HIDE DEF b
<1>2. /\ Image(db') /\ (db.file => db'.file)
      /\ db'.ledger = db.ledger /\ db'.tenants = db.tenants
  BY <1>1, HistoryWritten, LiveImage
<1>3. Files'
  BY <1>1, <1>2 DEF Inv, Files
<1> QED BY <1>1, <1>2, <1>3, EndKeeps

-----------------------------------------------------------------------------
(* The theorems *)

\* The database of an installation, or none.
LEMMA InstalledImage ==
    ASSUME NEW version \in Installs
    PROVE  /\ Image(Installation(version))
           /\ Installation(version).tenants # {} => Installation(version).file
<1> DEFINE im == Installation(version)
           l == [v \in Versions |-> IF v <= version THEN 1 ELSE 0]
<1>1. version \in Nat /\ Versions \subseteq Nat
  BY ApplianceAssumption DEF Versions
<1>2. LedgerOK(l)
  <2>1. l \in [Versions -> 0..1]
    OBVIOUS
  <2>2. ASSUME NEW v \in Versions, v > 1, l[v] = 1
        PROVE  l[v - 1] = 1
    <3>1. v <= version /\ v \in Nat
      BY <1>1, <2>2
    <3>2. v - 1 \in Versions /\ v - 1 <= version
      BY <1>1, <2>2, <3>1, ApplianceAssumption DEF Versions
    <3> QED BY <3>2
  <2> QED BY <2>1, <2>2 DEF LedgerOK
<1>3. /\ NoImage = [c \in Columns |-> NoImage[c]] /\ ChainOK(NoImage.audit)
      /\ NoImage.history \in [Backups -> Statuses]
      /\ NoImage.startup \in {"none", "start", "upgrade"}
  BY EmptyImage DEF Image
<1>4. /\ im = [c \in Columns |-> im[c]]
      /\ im.file = (version > 0) /\ im.ledger = l
      /\ im.tenants = (IF version > 0 THEN {FirstTenant} ELSE {})
      /\ im.audit = NoImage.audit /\ im.history = NoImage.history
      /\ im.startup = NoImage.startup
  BY <1>3 DEF Installation, Columns
<1> HIDE DEF im
<1>5. im.tenants \subseteq Tenants /\ (im.tenants # {} => im.file)
  BY <1>4, ApplianceAssumption
<1>6. Image(im)
  BY <1>2, <1>3, <1>4, <1>5 DEF Image
<1> QED BY <1>5, <1>6 DEF im

\* A new installation and one that is to be upgraded.
LEMMA InitInv == Init => Inv
<1> SUFFICES ASSUME Init PROVE Inv
  OBVIOUS
<1>1. Image(db)
  BY InstalledImage DEF Init
<1>2. Files
  BY <1>1, EmptyImage, ApplianceAssumption DEF Init, Files
<1>3. PICK old \in SUBSET Procs :
         /\ \A p, q \in old : p = q /\ db.file
         /\ shared = old
         /\ pc = [p \in Procs |-> IF p \in old THEN "serving" ELSE "idle"]
  BY DEF Init
<1>4. exclusive = {} /\ job = [p \in Procs |-> NoJob]
  BY DEF Init
<1>5. Locks
  BY <1>3, <1>4 DEF Locks, Pcs, Sharing, Restoring
<1>6. old # {} => db.file
  BY <1>3 DEF Init
<1>7. Jobs
  BY <1>3, <1>4, <1>6, EmptyJob DEF Jobs, Fits, BackingUp, Restoring
<1> QED BY <1>2, <1>5, <1>7 DEF Inv

\* What Next is, one action of one process at a time.
LEMMA NextKeeps == Inv /\ [Next]_vars => Inv'
<1> SUFFICES ASSUME Inv, [Next]_vars PROVE Inv'
  OBVIOUS
<1>1. CASE UNCHANGED vars
  BY <1>1 DEF vars, Inv, Locks, Files, Jobs
<1>2. CASE Prune
  BY <1>2, PruneKeeps
<1>3. ASSUME NEW p \in Procs, CreateBackup(p) \/ SnapshotDatabase(p) \/ EncryptSnapshot(p)
                              \/ RecordSucceeded(p) \/ FinishBackup(p) \/ BackupFails(p)
      PROVE  Inv'
  BY <1>3, RecordStartedKeeps, SnapshotDatabaseKeeps, EncryptSnapshotKeeps,
     RecordSucceededKeeps, FinishBackupKeeps, BackupFailsKeeps DEF CreateBackup
<1>4. ASSUME NEW p \in Procs, Prepare(p) \/ OpenRuntime(p) \/ Initialize(p)
                              \/ LoadOrCreateSecrets(p) \/ RecordStartupState(p)
                              \/ BuildFails(p) \/ Bootstrap(p)
      PROVE  Inv'
  BY <1>4, PrepareKeeps, OpenRuntimeKeeps, InitializeKeeps, ComposeKeeps, StartupKeeps,
     BuildFailsKeeps, BootstrapKeeps
<1>5. ASSUME NEW p \in Procs, NEW tenant \in Tenants,
             CreateNetwork(p, tenant) \/ AuditedChange(p, tenant)
      PROVE  Inv'
  BY <1>5, CreateNetworkKeeps, AuditedChangeKeeps
<1>6. ASSUME NEW p \in Procs, NEW b \in Backups, BeginRestore(p, b)
      PROVE  Inv'
  BY <1>6, BeginRestoreKeeps
<1>7. ASSUME NEW p \in Procs, Close(p) \/ RollbackRefused(p) \/ ReplaceDatabase(p)
                              \/ RecordRestored(p) \/ Crash(p)
      PROVE  Inv'
  BY <1>7, PlainEndKeeps, ReplaceDatabaseKeeps, RecordRestoredKeeps
<1> QED BY <1>1, <1>2, <1>3, <1>4, <1>5, <1>6, <1>7 DEF Next

\* A row of a table is written, and the networks stay as they are.
LEMMA ColumnWritten ==
    ASSUME NEW im, im = [c \in Columns |-> im[c]], NEW x, NEW b
    PROVE  /\ [im EXCEPT !.history[b] = x].tenants = im.tenants
           /\ [im EXCEPT !.ledger[b] = x].tenants = im.tenants
           /\ [im EXCEPT !.startup = x].tenants = im.tenants
           /\ [im EXCEPT !.tenants = x].tenants = x
           /\ [im EXCEPT !.audit = x].tenants = im.tenants
           /\ [im EXCEPT !.tenants = b, !.audit = x].tenants = b
  BY DEF Columns

\* No step drops a network: a request only adds one, and a restore moves a
\* snapshot into place that has all of them.
LEMMA StepKeepsNetworks == Inv /\ [Next]_vars => db.tenants \subseteq db'.tenants
<1> SUFFICES ASSUME Inv, [Next]_vars PROVE db.tenants \subseteq db'.tenants
  OBVIOUS
<1>0. db = [c \in Columns |-> db[c]]
  BY DEF Inv, Files, Image
<1>1. CASE UNCHANGED vars \/ Prune
  BY <1>1 DEF vars, Prune
<1>2. ASSUME NEW p \in Procs, CreateBackup(p) \/ RecordSucceeded(p) \/ BackupFails(p)
                              \/ RecordRestored(p)
      PROVE  db.tenants \subseteq db'.tenants
  <2>1. PICK b, x : db' = [db EXCEPT !.history[b] = x]
    BY <1>2 DEF CreateBackup, RecordStarted, RecordSucceeded, BackupFails, RecordRestored
  <2> QED BY <1>0, <2>1, ColumnWritten
<1>3. ASSUME NEW p \in Procs, OpenRuntime(p) \/ Initialize(p) \/ RecordStartupState(p)
      PROVE  db.tenants \subseteq db'.tenants
  <2>1. CASE OpenRuntime(p)
    BY <2>1, FileWritten, LiveImage DEF OpenRuntime
  <2>2. CASE Initialize(p)
    <3>1. PICK b, x : db' = [db EXCEPT !.ledger[b] = x]
      BY <2>2 DEF Initialize, ApplyMigration
    <3> QED BY <1>0, <3>1, ColumnWritten
  <2>3. CASE RecordStartupState(p)
    <3>1. PICK x : db' = [db EXCEPT !.startup = x]
      BY <2>3 DEF RecordStartupState
    <3> QED BY <1>0, <3>1, ColumnWritten
  <2> QED BY <1>3, <2>1, <2>2, <2>3
<1>4. ASSUME NEW p \in Procs, NEW tenant \in Tenants,
             Bootstrap(p) \/ CreateNetwork(p, tenant) \/ AuditedChange(p, tenant)
      PROVE  db.tenants \subseteq db'.tenants
  <2>1. CASE Bootstrap(p)
    BY <2>1 DEF Bootstrap
  <2>2. CASE AuditedChange(p, tenant)
    <3>1. PICK x : db' = [db EXCEPT !.audit = x]
      BY <2>2 DEF AuditedChange
    <3> QED BY <1>0, <3>1, ColumnWritten
  <2>3. CASE CreateNetwork(p, tenant)
    <3>1. PICK x, b : db' = [db EXCEPT !.tenants = b, !.audit = x] /\ db.tenants \subseteq b
      BY <2>3 DEF CreateNetwork
    <3> QED BY <1>0, <3>1, ColumnWritten
  <2> QED BY <1>4, <2>1, <2>2, <2>3
<1>5. ASSUME NEW p \in Procs,
             \/ SnapshotDatabase(p) \/ EncryptSnapshot(p) \/ FinishBackup(p)
             \/ Prepare(p) \/ LoadOrCreateSecrets(p) \/ BuildFails(p) \/ Close(p)
             \/ (\E b \in Backups : BeginRestore(p, b))
             \/ RollbackRefused(p) \/ Crash(p)
      PROVE  db.tenants \subseteq db'.tenants
  BY <1>5 DEF SnapshotDatabase, EncryptSnapshot, FinishBackup, Prepare, LoadOrCreateSecrets,
     BuildFails, Close, BeginRestore, RollbackRefused, Crash
<1>6. ASSUME NEW p \in Procs, ReplaceDatabase(p)
      PROVE  db.tenants \subseteq db'.tenants
  BY <1>6, ReplaceDatabaseKeeps
<1>7. ASSUME NEW p \in Procs, Bootstrap(p)
      PROVE  db.tenants \subseteq db'.tenants
  BY <1>7 DEF Bootstrap
<1> QED BY <1>1, <1>2, <1>3, <1>4, <1>5, <1>6, <1>7 DEF Next

\* What each process and each file is like holds of every reachable state.
THEOREM Invariance == Spec => []Inv
<1>1. Init => Inv
  BY InitInv
<1>2. Inv /\ [Next]_vars => Inv'
  BY NextKeeps
<1> QED BY <1>1, <1>2, PTL DEF Spec

\* Migrations are applied at most once and in order, however many processes
\* start, crash and roll back, and every row and lock has its type.
THEOREM TypeCorrect == Spec => []TypeOK
<1>1. ASSUME Inv PROVE TypeOK
  <2>1. Pcs = {"idle", "preparing", "started", "snapshot", "published",
               "recorded", "building", "migrating", "composed", "serving",
               "rollback", "restoring", "replaced"}
    BY DEF Pcs, Sharing, Restoring
  <2>2. shared \subseteq Procs /\ exclusive \subseteq Procs /\ pc \in [Procs -> Pcs]
    BY <1>1 DEF Inv, Locks
  <2>3. /\ db.ledger \in [Versions -> 0..1]
        /\ \A v \in Versions : v > 1 /\ db.ledger[v] = 1 => db.ledger[v - 1] = 1
        /\ db.tenants \subseteq Tenants /\ db.history \in [Backups -> Statuses]
        /\ db.startup \in {"none", "start", "upgrade"} /\ secrets \in {"absent", "present"}
    BY <1>1 DEF Inv, Files, Image, LedgerOK
  <2> QED BY <2>1, <2>2, <2>3 DEF TypeOK, Statuses
<1> QED BY <1>1, Invariance, PTL

\* The database file is replaced under nobody's feet.
THEOREM ReplacedUnderLock == Spec => []ReplacedOffline
<1>1. ASSUME Inv PROVE ReplacedOffline
  <2>1. ASSUME NEW p \in Procs,
               pc[p] \in {"started", "snapshot", "published", "recorded", "migrating",
                          "composed"}
        PROVE  job[p].inode = inode
    <3>1. Fits(pc[p], job[p], db, inode) /\ pc[p] \in BackingUp \cup {"migrating", "composed"}
      BY <1>1, <2>1 DEF Inv, Jobs, BackingUp
    <3> QED BY <3>1 DEF Fits
  <2>2. ASSUME NEW p \in Procs, pc[p] \in {"restoring", "replaced"}, NEW q \in Procs \ {p}
        PROVE  pc[q] \in {"idle", "preparing", "building", "rollback"}
    BY <1>1, <2>2, RestoringAlone DEF Restoring
  <2> QED BY <2>1, <2>2 DEF ReplacedOffline
<1> QED BY <1>1, Invariance, PTL

\* No restore and no rollback loses a network.
THEOREM NetworksSurvive == Spec => NetworksKept
<1>1. Inv /\ [Next]_vars => [db.tenants \subseteq db'.tenants]_vars
  BY StepKeepsNetworks
<1> QED BY <1>1, Invariance, PTL DEF Spec, NetworksKept

\* Every audit chain, of the live database and of every backup, verifies.
THEOREM AuditChainsVerify == Spec => []ChainsVerify
<1>1. Inv => ChainsVerify
  BY DEF Inv, Files, Image, ChainOK, ChainsVerify
<1> QED BY <1>1, Invariance, PTL

=============================================================================
