---------------------- MODULE CollectorTelemetryProofs ----------------------
(***************************************************************************)
(* Proofs about CollectorTelemetry.  The invariant follows a line from the *)
(* log to the appliance.  What a cursor has passed is held by the spool or *)
(* the appliance, for the saved cursor and for the one a run has not saved *)
(* yet (Covered); a batch leaves the spool only when the appliance has it  *)
(* (Stored); and the newest control snapshot of the spool, or what the     *)
(* appliance knows when none waits, is the one the snapshot row remembers  *)
(* (Told).                                                                 *)
(***************************************************************************)
EXTENDS CollectorTelemetry, SequenceTheorems, WellFoundedInduction, TLAPS

Prints == Postures \cup {Unknown}
Batch == [snap : Prints, events : SUBSET Events]
Row(waiting) == [print : Prints, pending : 0..waiting, age : 0..Interval]
Sending == {"send", "sent", "refused"}
Later == {"save", "flush", "send", "sent", "refused", "actions"}

\* Every line and every rotation is a move, so no file outgrows their number.
Files ==
    /\ files \in Seq(Seq(Kinds))
    /\ Len(files) \in 1..(moves + 1)
    /\ \A k \in 1..Len(files) : Len(files[k]) <= moves
    /\ moves \in 0..MaxMoves
    /\ torn \in BOOLEAN
    /\ posture \in Postures

Rows ==
    /\ spool \in Seq(Batch)
    /\ snapshot \in Row(Len(spool))
    /\ retry \in [failures : 0..MaxStreak, wait : 0..MaxDelay]
    /\ stored \subseteq Events
    /\ known \in Prints

Progress ==
    /\ pf \in {"contained", "released", "silent"}
    /\ pc \in {"idle", "transition", "collect"} \cup Later
    /\ faults \in 0..MaxFaults
    /\ queue \in 0..Len(spool)
    /\ pc \in Sending => queue # 0
    /\ pc \notin Sending => queue = 0
    /\ pc # "save" => ahead = NoCursor
    /\ pc \in Later => report = snapshot.print /\ report # Unknown
    /\ outcome \in {"succeeded", "not_attempted"} => pc = "actions" /\ spool = <<>>

\* What the spool and the appliance hold between them.
EventsOf(batches) == UNION {batches[i].events : i \in DOMAIN batches}
Held == EventsOf(spool) \cup stored

\* The cursor c points into the log f, and every event before it is in held.
Covered(c, f, held) ==
    /\ c \in [inode : 0..Len(f), offset : Nat]
    /\ c.inode = 0 => c.offset = 0
    /\ c.inode # 0 => c.offset <= Len(f[c.inode])
    /\ \A i \in 1..c.offset : Yields(f[c.inode][i]) => <<c.inode, i>> \in held

\* The appliance has all of the batch that is about to be acknowledged.
Stored ==
    pc = "sent" =>
        /\ Head(spool).events \subseteq stored
        /\ Head(spool).snap # Unknown => known = Head(spool).snap

\* Delivering the batches in order leaves the appliance knowing print.
Told(batches, now, print) ==
    \/ /\ \A i \in 1..Len(batches) : batches[i].snap = Unknown
       /\ now = print
    \/ \E i \in 1..Len(batches) :
          /\ batches[i].snap = print
          /\ print # Unknown
          /\ \A j \in (i + 1)..Len(batches) : batches[j].snap = Unknown

Inv ==
    /\ Files /\ Rows /\ Progress
    /\ Covered(cursor, files, Held)
    /\ Covered(ahead, files, Held)
    /\ Stored
    /\ Told(spool, known, snapshot.print)
    /\ ReleaseReported

-----------------------------------------------------------------------------
(* The spool as a sequence *)

\* A batch that is enqueued adds its events and nothing else.
LEMMA AppendBatch ==
    ASSUME NEW s \in Seq(Batch), NEW b \in Batch
    PROVE  /\ Append(s, b) \in Seq(Batch)
           /\ Len(Append(s, b)) = Len(s) + 1
           /\ \A i \in 1..Len(s) : Append(s, b)[i] = s[i]
           /\ Append(s, b)[Len(s) + 1] = b
           /\ EventsOf(Append(s, b)) = EventsOf(s) \cup b.events
<1> DEFINE t == Append(s, b)
<1>1. /\ t \in Seq(Batch) /\ Len(t) = Len(s) + 1
      /\ \A i \in 1..Len(s) : t[i] = s[i]
      /\ t[Len(s) + 1] = b
  BY AppendProperties
<1>2. Len(s) \in Nat /\ DOMAIN s = 1..Len(s) /\ DOMAIN t = 1..(Len(s) + 1)
  BY <1>1
<1> HIDE DEF t
<1>3. EventsOf(t) \subseteq EventsOf(s) \cup b.events
  <2> SUFFICES ASSUME NEW e, NEW i \in 1..(Len(s) + 1), e \in t[i].events
               PROVE  e \in EventsOf(s) \cup b.events
    BY <1>2 DEF EventsOf
  <2>1. CASE i = Len(s) + 1 BY <2>1, <1>1
  <2>2. CASE i # Len(s) + 1
    <3>1. i \in 1..Len(s) BY <1>2, <2>2
    <3> QED BY <3>1, <1>1, <1>2 DEF EventsOf
  <2> QED BY <2>1, <2>2
<1>4. EventsOf(s) \cup b.events \subseteq EventsOf(t)
  <2>1. ASSUME NEW e, NEW i \in 1..Len(s), e \in s[i].events PROVE e \in EventsOf(t)
    <3>1. i \in 1..(Len(s) + 1) BY <1>2
    <3>2. t[i] = s[i] BY <1>1
    <3> QED BY <2>1, <3>1, <3>2, <1>2 DEF EventsOf
  <2>2. ASSUME NEW e \in b.events PROVE e \in EventsOf(t)
    <3>1. Len(s) + 1 \in 1..(Len(s) + 1) BY <1>2
    <3> QED BY <3>1, <1>1, <1>2 DEF EventsOf
  <2> QED BY <2>1, <2>2, <1>2 DEF EventsOf
<1> QED BY <1>1, <1>3, <1>4 DEF t

\* Acknowledging the oldest batch removes its events alone.
LEMMA TailBatch ==
    ASSUME NEW s \in Seq(Batch), Len(s) # 0
    PROVE  /\ Tail(s) \in Seq(Batch)
           /\ Len(Tail(s)) = Len(s) - 1
           /\ \A i \in 1..(Len(s) - 1) : Tail(s)[i] = s[i + 1]
           /\ Head(s) = s[1] /\ Head(s) \in Batch
           /\ EventsOf(s) \subseteq EventsOf(Tail(s)) \cup Head(s).events
<1>1. s # <<>> /\ Len(s) \in Nat /\ DOMAIN s = 1..Len(s)
  OBVIOUS
<1> DEFINE t == Tail(s)
           h == Head(s)
<1>2. /\ t \in Seq(Batch) /\ Len(t) = Len(s) - 1
      /\ \A i \in 1..(Len(s) - 1) : t[i] = s[i + 1]
      /\ h = s[1] /\ h \in Batch
  BY <1>1
<1>3. DOMAIN t = 1..(Len(s) - 1)
  BY <1>2, <1>1
<1> HIDE DEF t, h
<1>4. ASSUME NEW i \in 1..Len(s), NEW e \in s[i].events
      PROVE  e \in EventsOf(t) \cup h.events
  <2>1. CASE i = 1 BY <2>1, <1>2
  <2>2. CASE i # 1
    <3>1. i - 1 \in 1..(Len(s) - 1) /\ i = (i - 1) + 1 BY <2>2, <1>1
    <3>2. t[i - 1] = s[i] BY <3>1, <1>2
    <3> QED BY <3>1, <3>2, <1>3 DEF EventsOf
  <2> QED BY <2>1, <2>2
<1>5. EventsOf(s) \subseteq EventsOf(t) \cup h.events
  BY <1>4, <1>1 DEF EventsOf
<1> QED BY <1>2, <1>5 DEF t, h

\* A batch without a snapshot changes nothing of what will be known.
LEMMA ToldEvents ==
    ASSUME NEW s \in Seq(Batch), NEW b \in Batch, NEW now, NEW print,
           b.snap = Unknown, Told(s, now, print)
    PROVE  Told(Append(s, b), now, print)
<1> DEFINE t == Append(s, b)
<1>1. /\ Len(t) = Len(s) + 1 /\ Len(s) \in Nat
      /\ \A i \in 1..Len(s) : t[i] = s[i]
      /\ t[Len(s) + 1] = b
  BY AppendBatch
<1> SUFFICES Told(t, now, print)
  OBVIOUS
<1> HIDE DEF t
<1>2. \A i \in 1..Len(t) : i \in 1..Len(s) \/ i = Len(s) + 1
  BY <1>1
<1>3. CASE /\ \A i \in 1..Len(s) : s[i].snap = Unknown
           /\ now = print
  BY <1>1, <1>2, <1>3 DEF Told
<1>4. CASE \E i \in 1..Len(s) :
              /\ s[i].snap = print
              /\ print # Unknown
              /\ \A j \in (i + 1)..Len(s) : s[j].snap = Unknown
  <2>0. PICK i \in 1..Len(s) :
              /\ s[i].snap = print
              /\ print # Unknown
              /\ \A j \in (i + 1)..Len(s) : s[j].snap = Unknown
    BY <1>4
  <2>1. i \in 1..Len(t) /\ t[i] = s[i] BY <1>1
  <2>2. ASSUME NEW j \in (i + 1)..Len(t) PROVE t[j].snap = Unknown
    <3>1. j \in (i + 1)..Len(s) \/ j = Len(s) + 1 BY <1>1
    <3>2. j \in (i + 1)..Len(s) => j \in 1..Len(s) BY <1>1
    <3> QED BY <3>1, <3>2, <1>1, <2>0
  <2> QED BY <2>1, <2>2, <2>0 DEF Told
<1> QED BY <1>3, <1>4 DEF Told

\* A batch with a snapshot is the newest one.
LEMMA ToldSnapshot ==
    ASSUME NEW s \in Seq(Batch), NEW b \in Batch, NEW now, NEW print,
           b.snap = print, print # Unknown
    PROVE  Told(Append(s, b), now, print)
<1> DEFINE t == Append(s, b)
<1>1. /\ Len(t) = Len(s) + 1 /\ Len(s) \in Nat
      /\ t[Len(s) + 1] = b
  BY AppendBatch
<1> HIDE DEF t
<1>2. Len(s) + 1 \in 1..Len(t) /\ t[Len(s) + 1].snap = print
  BY <1>1
<1>3. \A j \in (Len(s) + 1 + 1)..Len(t) : FALSE
  BY <1>1
<1>4. Told(t, now, print)
  BY <1>2, <1>3 DEF Told
<1> QED BY <1>4 DEF t

\* Storing the oldest batch, before it is acknowledged.
LEMMA ToldStored ==
    ASSUME NEW s \in Seq(Batch), NEW now, NEW then, NEW print,
           Len(s) # 0,
           then = IF s[1].snap = Unknown THEN now ELSE s[1].snap,
           Told(s, now, print)
    PROVE  Told(s, then, print)
<1>1. Len(s) \in Nat /\ 1 \in 1..Len(s)
  OBVIOUS
<1>2. CASE /\ \A i \in 1..Len(s) : s[i].snap = Unknown
           /\ now = print
  BY <1>1, <1>2 DEF Told
<1> QED BY <1>2 DEF Told

\* Acknowledging a batch that the appliance has.
LEMMA ToldAcknowledged ==
    ASSUME NEW s \in Seq(Batch), NEW now, NEW print,
           Len(s) # 0,
           s[1].snap # Unknown => now = s[1].snap,
           Told(s, now, print)
    PROVE  Told(Tail(s), now, print)
<1> DEFINE t == Tail(s)
<1>1. /\ Len(t) = Len(s) - 1 /\ Len(s) \in Nat /\ Len(s) >= 1
      /\ \A i \in 1..(Len(s) - 1) : t[i] = s[i + 1]
  BY TailBatch
<1> SUFFICES Told(t, now, print)
  OBVIOUS
<1> HIDE DEF t
<1>2. ASSUME NEW i \in 1..Len(t) PROVE i + 1 \in 1..Len(s) /\ t[i] = s[i + 1]
  BY <1>1
<1>3. CASE /\ \A i \in 1..Len(s) : s[i].snap = Unknown
           /\ now = print
  <2>1. \A i \in 1..Len(t) : t[i].snap = Unknown BY <1>2, <1>3
  <2> QED BY <2>1, <1>3 DEF Told
<1>4. CASE \E i \in 1..Len(s) :
              /\ s[i].snap = print
              /\ print # Unknown
              /\ \A j \in (i + 1)..Len(s) : s[j].snap = Unknown
  <2>0. PICK i \in 1..Len(s) :
              /\ s[i].snap = print
              /\ print # Unknown
              /\ \A j \in (i + 1)..Len(s) : s[j].snap = Unknown
    BY <1>4
  <2>1. ASSUME NEW j \in 1..Len(t), j >= i PROVE t[j].snap = Unknown
    <3>1. j + 1 \in (i + 1)..Len(s) BY <2>1, <1>1
    <3>2. t[j] = s[j + 1] BY <1>2
    <3> QED BY <3>1, <3>2, <2>0
  <2>2. CASE i = 1
    <3>1. \A j \in 1..Len(t) : t[j].snap = Unknown BY <2>1, <2>2, <1>1
    <3>2. now = print BY <2>2, <2>0
    <3> QED BY <3>1, <3>2 DEF Told
  <2>3. CASE i # 1
    <3> DEFINE k == i - 1
    <3>1. k \in 1..Len(t) /\ k + 1 = i /\ k \in Int BY <2>3, <1>1
    <3>2. t[k].snap = print BY <3>1, <1>2, <2>0
    <3>3. \A j \in (k + 1)..Len(t) : j \in 1..Len(t) /\ j >= i BY <3>1
    <3>4. \A j \in (k + 1)..Len(t) : t[j].snap = Unknown BY <3>3, <2>1
    <3> HIDE DEF k
    <3> QED BY <3>1, <3>2, <3>4, <2>0 DEF Told
  <2> QED BY <2>2, <2>3
<1> QED BY <1>3, <1>4 DEF Told

-----------------------------------------------------------------------------
(* The log and its cursors *)

\* Covered survives when more is held.
LEMMA CoveredMore ==
    ASSUME NEW c, NEW f, NEW held, NEW more, held \subseteq more,
           Covered(c, f, held)
    PROVE  Covered(c, f, more)
BY DEF Covered

\* A log that grew: no line was changed and no file taken away.
Grown(f, g) ==
    /\ f \in Seq(Seq(Kinds)) /\ g \in Seq(Seq(Kinds))
    /\ Len(f) <= Len(g)
    /\ \A k \in 1..Len(f) :
          /\ Len(f[k]) <= Len(g[k])
          /\ \A i \in 1..Len(f[k]) : g[k][i] = f[k][i]

\* A cursor into the log keeps its place when the log grows.
LEMMA CoveredGrown ==
    ASSUME NEW c, NEW f, NEW g, NEW held, Grown(f, g), Covered(c, f, held)
    PROVE  Covered(c, g, held)
<1>1. Len(f) \in Nat /\ Len(g) \in Nat /\ Len(f) <= Len(g)
  BY DEF Grown
<1>2. /\ c \in [inode : 0..Len(f), offset : Nat]
      /\ c.inode \in 0..Len(f) /\ c.offset \in Nat
  BY DEF Covered
<1>3. c \in [inode : 0..Len(g), offset : Nat]
  <2>1. 0..Len(f) \subseteq 0..Len(g) BY <1>1
  <2> QED BY <2>1, <1>2
<1>4. CASE c.inode = 0
  <2>1. c.offset = 0 BY <1>4 DEF Covered
  <2> QED BY <1>3, <1>4, <2>1 DEF Covered
<1>5. CASE c.inode # 0
  <2> DEFINE k == c.inode
  <2>1. k \in 1..Len(f) BY <1>2, <1>5, <1>1
  <2>2. f[k] \in Seq(Kinds) /\ g[k] \in Seq(Kinds) BY <2>1, <1>1 DEF Grown
  <2>3. Len(f[k]) \in Nat /\ Len(g[k]) \in Nat BY <2>2
  <2>4. c.offset <= Len(f[k]) BY <1>5 DEF Covered
  <2>5. c.offset <= Len(g[k]) BY <2>1, <2>3, <2>4, <1>2 DEF Grown
  <2>6. \A i \in 1..c.offset : g[k][i] = f[k][i]
    <3> TAKE i \in 1..c.offset
    <3>1. i \in 1..Len(f[k]) BY <2>3, <2>4, <1>2
    <3> QED BY <3>1, <2>1 DEF Grown
  <2> QED BY <1>3, <1>5, <2>5, <2>6 DEF Covered
<1> QED BY <1>4, <1>5

\* A nonempty set of numbers up to n has a largest member.
LEMMA Largest ==
    ASSUME NEW n \in Nat, NEW S, S \subseteq 0..n, S # {}
    PROVE  \E m \in S : \A k \in S : k <= m
<1> DEFINE T == {n - k : k \in S}
<1>1. T \subseteq Nat /\ T # {}
  <2>1. ASSUME NEW k \in S PROVE n - k \in Nat
    <3>1. k \in Int /\ k <= n OBVIOUS
    <3> QED BY <3>1
  <2>2. T \subseteq Nat BY <2>1
  <2> QED BY <2>2
<1>2. \E x \in T : \A y \in T : ~ (<<y, x>> \in OpToRel(<, Nat))
  <2> HIDE DEF T
  <2> QED BY <1>1, NatLessThanWellFounded, WFMin
<1>3. PICK x \in T : \A y \in T : ~ (<<y, x>> \in OpToRel(<, Nat))
  BY <1>2
<1>4. \A y \in T : ~ (y < x)
  BY <1>1, <1>3 DEF OpToRel
<1>5. PICK m \in S : x = n - m
  OBVIOUS
<1>6. ASSUME NEW k \in S PROVE k <= m
  <2>1. n - k \in T OBVIOUS
  <2>2. ~ (n - k < n - m) BY <2>1, <1>4, <1>5
  <2>3. k \in Int /\ m \in Int OBVIOUS
  <2> QED BY <2>2, <2>3
<1> QED BY <1>6

\* The reader stops at or after the offset it starts from, within the file.
LEMMA ConsumedBounds ==
    ASSUME Files, Covered(cursor, files, Held)
    PROVE  /\ Current \in 1..Len(files) /\ Len(Log) \in 0..moves
           /\ StartOffset \in 0..Len(Log)
           /\ Consumed(StartOffset) \in StartOffset..Len(Log)
<1>1. /\ Current \in 1..Len(files) /\ Log \in Seq(Kinds)
      /\ Len(Log) \in Nat /\ Len(Log) <= moves /\ moves \in Nat
  BY DEF Files, Current, Log
<1>2. StartOffset \in 0..Len(Log)
  <2>1. cursor.offset \in Nat BY DEF Covered
  <2> QED BY <2>1, <1>1 DEF StartOffset
<1> DEFINE from == StartOffset
           ends == {to \in from..Len(Log) : \A k \in (from + 1)..to : Reaches(from, k)}
<1>3. ends \subseteq 0..Len(Log) /\ ends # {}
  <2>1. from \in from..Len(Log) /\ \A k \in (from + 1)..from : FALSE BY <1>2, <1>1
  <2>2. from \in ends BY <2>1
  <2>3. from..Len(Log) \subseteq 0..Len(Log) BY <1>2, <1>1
  <2> QED BY <2>2, <2>3
<1>4. \E m \in ends : \A k \in ends : k <= m
  <2> HIDE DEF ends
  <2> QED BY <1>1, <1>3, Largest
<1>5. Consumed(from) = CHOOSE to \in ends : \A k \in ends : k <= to
  BY DEF Consumed
<1>6. Consumed(from) \in ends
  <2> HIDE DEF ends, from
  <2> QED BY <1>4, <1>5
<1> QED BY <1>1, <1>2, <1>6

\* The constants are numbers.
LEMMA Bounds ==
    /\ MaxMoves \in Nat /\ FlushLimit \in Nat \ {0} /\ Interval \in Nat
    /\ MaxDelay \in Nat \ {0} /\ MaxStreak \in Nat \ {0} /\ MaxFaults \in Nat
BY TelemetryAssumption

-----------------------------------------------------------------------------
(* Initialisation *)

\* The first state satisfies the invariant.
LEMMA InitInv == ASSUME Init PROVE Inv
<1> USE TelemetryAssumption DEF Init
<1>1. FirstPosture \in Postures
  BY DEF FirstPosture
<1>2. Files
  <2>1. files \in Seq(Seq(Kinds)) /\ Len(files) = 1 /\ files[1] = <<>> OBVIOUS
  <2>2. Len(files[1]) = 0 BY <2>1
  <2>3. \A k \in 1..Len(files) : k = 1 BY <2>1
  <2>4. \A k \in 1..Len(files) : Len(files[k]) <= moves BY <2>2, <2>3
  <2>5. torn \in BOOLEAN /\ posture \in Postures BY <1>1
  <2>6. Len(files) \in 1..(moves + 1) /\ moves \in 0..MaxMoves BY <2>1, Bounds
  <2> HIDE DEF Init
  <2> QED BY <2>1, <2>4, <2>5, <2>6 DEF Files
<1>3. Rows
  BY DEF Rows, Batch, Row, Prints, Closed
<1>4. Progress
  BY DEF Progress, Later, Sending
<1>5. Covered(cursor, files, Held) /\ Covered(ahead, files, Held)
  <2> DEFINE c == NoCursor
  <2>1. Len(files) = 1 OBVIOUS
  <2>2. c \in [inode : 0..Len(files), offset : Nat] /\ c.inode = 0 /\ c.offset = 0
    BY <2>1 DEF NoCursor
  <2>3. cursor = c /\ ahead = c OBVIOUS
  <2> HIDE DEF c
  <2> QED BY <2>2, <2>3 DEF Covered
<1>6. Stored /\ Told(spool, known, snapshot.print) /\ ReleaseReported
  BY DEF Stored, Told, ReleaseReported
<1> QED BY <1>2, <1>3, <1>4, <1>5, <1>6 DEF Inv

-----------------------------------------------------------------------------
(* What the steps share *)

\* The type facts that the proofs of the steps start from.
LEMMA Basics ==
    ASSUME Inv
    PROVE  /\ files \in Seq(Seq(Kinds)) /\ Len(files) \in Nat
           /\ moves \in Nat /\ spool \in Seq(Batch) /\ Len(spool) \in Nat
           /\ spool = <<>> <=> Len(spool) = 0
           /\ snapshot.print \in Prints /\ snapshot.pending \in 0..Len(spool)
           /\ snapshot.age \in 0..Interval
BY DEF Inv, Files, Rows, Row

\* The properties that speak of what is held survive when nothing is lost.
LEMMA HeldGrows ==
    ASSUME Inv, Held \subseteq Held', UNCHANGED files
    PROVE  /\ Covered(cursor, files', Held') /\ Covered(ahead, files', Held')
           /\ Release \in Held => Release \in Held'
BY CoveredMore DEF Inv

\* ReleaseReported in terms of Held.
LEMMA ReportedHeld ==
    /\ ReleaseReported <=> (pf = "released" /\ pc # "transition" => Release \in Held)
    /\ ReleaseReported' <=> (pf' = "released" /\ pc' # "transition" => Release \in Held')
BY DEF ReleaseReported, Held, EventsOf, Spooled

\* A row that named a waiting batch names one when more wait.
LEMMA RowGrows ==
    ASSUME NEW m \in Nat, NEW n \in Nat, m <= n
    PROVE  Row(m) \subseteq Row(n)
<1>1. 0..m \subseteq 0..n
  OBVIOUS
<1> QED BY <1>1 DEF Row

\* enqueue_collected: the batch and the snapshot row agree, whichever of its
\* branches is taken.
LEMMA Collected ==
    ASSUME Inv, NEW events \in SUBSET Events, EnqueueCollected(posture, events),
           known' = known
    PROVE  /\ spool' \in Seq(Batch) /\ Len(spool') >= Len(spool)
           /\ snapshot' \in Row(Len(spool'))
           /\ snapshot'.print = posture
           /\ Told(spool', known', snapshot'.print)
           /\ EventsOf(spool') = EventsOf(spool) \cup events
<1> USE Basics
<1>1. posture \in Postures /\ posture \in Prints /\ posture # Unknown /\ Unknown \in Prints
  BY TelemetryAssumption DEF Inv, Files, Prints, Unknown
<1>2. Told(spool, known, snapshot.print)
  BY DEF Inv
<1>3. CASE ControlDue(posture)
  <2> DEFINE b == [snap |-> posture, events |-> events]
  <2>1. spool' = Append(spool, b)
        /\ snapshot' = [print |-> posture, pending |-> Len(spool) + 1, age |-> 0]
    BY <1>3 DEF EnqueueCollected
  <2>2. b \in Batch /\ b.snap = posture /\ b.events = events
    BY <1>1 DEF Batch
  <2> HIDE DEF b
  <2>3. /\ spool' \in Seq(Batch) /\ Len(spool') = Len(spool) + 1
        /\ EventsOf(spool') = EventsOf(spool) \cup events
    BY <2>1, <2>2, AppendBatch
  <2>4. snapshot' \in Row(Len(spool')) /\ snapshot'.print = posture
    BY <2>1, <2>3, <1>1, TelemetryAssumption DEF Row
  <2>5. Told(spool', known', posture)
    BY <2>1, <2>2, <1>1, ToldSnapshot
  <2> QED BY <2>3, <2>4, <2>5
<1>4. CASE ~ControlDue(posture)
  <2>1. snapshot.print = posture /\ snapshot' = snapshot
    BY <1>4 DEF ControlDue, EnqueueCollected
  <2>2. CASE events = {}
    <3>1. spool' = spool BY <1>4, <2>2 DEF EnqueueCollected
    <3>2. snapshot \in Row(Len(spool)) BY DEF Inv, Rows
    <3> QED BY <3>1, <3>2, <2>1, <2>2, <1>2
  <2>3. CASE events # {}
    <3> DEFINE b == [snap |-> Unknown, events |-> events]
    <3>1. spool' = Append(spool, b) BY <1>4, <2>3 DEF EnqueueCollected, Enqueue
    <3>2. b \in Batch /\ b.snap = Unknown /\ b.events = events
      BY <1>1 DEF Batch
    <3> HIDE DEF b
    <3>3. /\ spool' \in Seq(Batch) /\ Len(spool') = Len(spool) + 1
          /\ EventsOf(spool') = EventsOf(spool) \cup events
      BY <3>1, <3>2, AppendBatch
    <3>4. snapshot \in Row(Len(spool')) 
      BY <3>3, RowGrows DEF Inv, Rows
    <3>5. Told(spool', known', posture)
      BY <3>1, <3>2, <2>1, <1>2, ToldEvents
    <3> QED BY <3>3, <3>4, <3>5, <2>1
  <2> QED BY <2>2, <2>3
<1> QED BY <1>3, <1>4

-----------------------------------------------------------------------------
(* The steps of a run *)

\* Reconciliation may find the containment over; the event of it is still to come.
LEMMA StartRunKeeps == ASSUME Inv, StartRun PROVE Inv'
<1> USE Basics, TelemetryAssumption DEF StartRun, log, run, appliance
<1>1. Files'
  <2>1. Files /\ UNCHANGED <<files, torn, posture>>
    BY ONLY Inv, StartRun DEF Inv, StartRun, log
  <2>2. moves \in 0..MaxMoves /\ MaxMoves \in Nat
    <3>1. MaxMoves \in Nat BY ONLY Bounds
    <3> QED BY ONLY <2>1, <3>1 DEF Files
  <2>3. moves' = moves \/ (moves < MaxMoves /\ moves' = moves + 1)
    BY ONLY StartRun DEF StartRun, Move
  <2>4. moves' \in 0..MaxMoves /\ moves <= moves' BY ONLY <2>2, <2>3
  <2>5. Len(files) \in 1..(moves + 1) /\ \A k \in 1..Len(files) : Len(files[k]) <= moves
    BY ONLY <2>1 DEF Files
  <2>6. \A k \in 1..Len(files) : Len(files[k]) \in Nat BY ONLY <2>1 DEF Files
  <2>7. Len(files) \in 1..(moves' + 1) BY ONLY <2>2, <2>4, <2>5
  <2>8. \A k \in 1..Len(files) : Len(files[k]) <= moves' BY ONLY <2>2, <2>4, <2>5, <2>6
  <2>9. files \in Seq(Seq(Kinds)) /\ torn \in BOOLEAN /\ posture \in Postures
    BY ONLY <2>1 DEF Files
  <2> QED BY ONLY <2>1, <2>4, <2>7, <2>8, <2>9 DEF Files
<1>2. Rows' /\ Progress'
  BY DEF Inv, Rows, Progress, Sending, Later
<1>3. Held' = Held /\ UNCHANGED <<files, cursor, ahead>>
  BY DEF Held
<1>4. ReleaseReported'
  <2>1. pf' = "released" /\ pc' # "transition" => pf = "released" /\ pc = "idle"
    OBVIOUS
  <2> QED BY <2>1, <1>3, ReportedHeld DEF Inv
<1>5. Covered(cursor, files, Held)' /\ Covered(ahead, files, Held)'
  BY <1>3, HeldGrows
<1>6. Stored' /\ Told(spool, known, snapshot.print)'
  BY DEF Inv, Stored, Told
<1> QED BY <1>1, <1>2, <1>4, <1>5, <1>6 DEF Inv

\* The event of an automatic release goes into the spool.
LEMMA SpoolTransitionKeeps == ASSUME Inv, SpoolTransition PROVE Inv'
<1> USE Basics
<1>0. /\ UNCHANGED <<files, torn, posture, moves, pf, snapshot, cursor, retry,
                      report, ahead, queue, outcome, stored, known, faults>>
      /\ pc = "transition" /\ pc' = "collect"
  BY DEF SpoolTransition, log, world, run, appliance
<1> DEFINE b == [snap |-> Unknown, events |-> {Release}]
<1>1. spool' = Append(spool, b)
  BY DEF SpoolTransition, Enqueue
<1>2. b \in Batch /\ b.snap = Unknown /\ b.events = {Release}
  BY DEF Batch, Prints, Events
<1> HIDE DEF b
<1>3. /\ spool' \in Seq(Batch) /\ Len(spool') = Len(spool) + 1
      /\ EventsOf(spool') = EventsOf(spool) \cup {Release}
  BY <1>1, <1>2, AppendBatch
<1>4. Files'
  BY <1>0 DEF Inv, Files
<1>5. Rows'
  <2>1. snapshot \in Row(Len(spool')) BY <1>3, RowGrows DEF Inv, Rows
  <2> QED BY <2>1, <1>0, <1>3 DEF Inv, Rows
<1>6. Progress'
  BY <1>0, <1>3 DEF Inv, Progress, Sending, Later
<1>7. Held \subseteq Held' /\ Release \in Held'
  BY <1>0, <1>3 DEF Held
<1>8. Covered(cursor, files, Held)' /\ Covered(ahead, files, Held)'
  BY <1>0, <1>7, HeldGrows
<1>9. Told(spool, known, snapshot.print)'
  <2>1. Told(spool, known, snapshot.print) BY DEF Inv
  <2>2. Told(spool', known, snapshot.print) BY <2>1, <1>1, <1>2, ToldEvents
  <2> QED BY <2>2, <1>0
<1>10. Stored' /\ ReleaseReported'
  BY <1>0, <1>7, ReportedHeld DEF Stored
<1> QED BY <1>4, <1>5, <1>6, <1>8, <1>9, <1>10 DEF Inv

\* The events that the reader took in are in the batch, those before them
\* were behind the saved cursor already.
LEMMA ReadCovered ==
    ASSUME Inv, NEW held, Held \subseteq held,
           {<<Current, i>> : i \in EventsIn(StartOffset, Consumed(StartOffset))} \subseteq held
    PROVE  Covered(NextCursor, files, held)
<1> DEFINE from == StartOffset
           to == Consumed(from)
           c == NextCursor
<1>1. /\ Current \in 1..Len(files) /\ Len(Log) \in Nat
      /\ from \in 0..Len(Log) /\ to \in from..Len(Log)
  BY ConsumedBounds DEF Inv, Files
<1>2. c.inode = Current /\ c.offset = to /\ c = [inode |-> Current, offset |-> to]
  BY DEF NextCursor
<1>3. ASSUME NEW i \in 1..to, Yields(Log[i]) PROVE <<Current, i>> \in held
  <2>1. CASE i \in (from + 1)..to
    BY <2>1, <1>3 DEF EventsIn
  <2>2. CASE i \notin (from + 1)..to
    <3>1. i \in 1..from BY <2>2, <1>1
    <3>2. from # 0 BY <3>1, <1>1
    <3>3. from = cursor.offset /\ cursor.inode = Current BY <3>2 DEF StartOffset
    <3>4. Covered(cursor, files, Held) BY DEF Inv
    <3> QED BY <3>1, <3>3, <3>4, <1>3 DEF Covered, Log
  <2> QED BY <2>1, <2>2
<1>4. c \in [inode : 0..Len(files), offset : Nat]
  <2>1. Current \in 0..Len(files) /\ to \in Nat BY <1>1, Basics
  <2> HIDE DEF to
  <2> QED BY <2>1, <1>2
<1> HIDE DEF c, to, from
<1>5. c.inode # 0 /\ c.offset <= Len(files[c.inode])
  BY <1>1, <1>2 DEF Log
<1>6. \A i \in 1..c.offset : Yields(files[c.inode][i]) => <<c.inode, i>> \in held
  BY <1>2, <1>3 DEF Log
<1>7. Covered(c, files, held)
  BY <1>4, <1>5, <1>6 DEF Covered
<1> QED BY <1>7 DEF c

\* One commit enqueues what was read; the cursor ahead is covered by it.
LEMMA CollectKeeps == ASSUME Inv, Collect PROVE Inv'
<1> USE Basics, TelemetryAssumption DEF log, world, appliance
<1> DEFINE read == {<<Current, i>> : i \in EventsIn(StartOffset, Consumed(StartOffset))}
<1>1. read \subseteq Events
  <2> SUFFICES ASSUME NEW i \in EventsIn(StartOffset, Consumed(StartOffset))
               PROVE  <<Current, i>> \in Events
    OBVIOUS
  <2>1. /\ Current \in 1..Len(files) /\ Len(Log) \in 0..moves
        /\ StartOffset \in 0..Len(Log)
        /\ Consumed(StartOffset) \in StartOffset..Len(Log)
    BY ConsumedBounds DEF Inv
  <2>2. Len(files) <= moves + 1 /\ moves <= MaxMoves
    BY DEF Inv, Files
  <2>3. moves \in Nat /\ MaxMoves \in Nat /\ Len(files) \in Nat
    BY Basics, Bounds
  <2>4. i \in 1..Len(Log)
    <3>1. i \in (StartOffset + 1)..Consumed(StartOffset)
      BY DEF EventsIn
    <3>2. StartOffset \in Nat /\ Consumed(StartOffset) \in Nat /\ Len(Log) \in Nat
          /\ Consumed(StartOffset) <= Len(Log)
      <4>1. Len(Log) \in Nat BY ONLY <2>1, <2>3
      <4>2. StartOffset \in Nat BY ONLY <2>1, <4>1
      <4> QED BY ONLY <2>1, <4>1, <4>2
    <3> QED BY ONLY <3>1, <3>2
  <2>5. i \in 1..MaxMoves
    BY ONLY <2>1, <2>2, <2>3, <2>4
  <2>6. Current \in 1..(MaxMoves + 1)
    BY ONLY <2>1, <2>2, <2>3
  <2> QED BY <2>5, <2>6 DEF Events, LineEvents
<1>2. UNCHANGED <<files, torn, posture, moves, pf, cursor, retry, queue, outcome, stored, known>>
      /\ pc = "collect" /\ pc' = "save" /\ report' = posture
  BY DEF Collect
<1>3. PICK events \in SUBSET Events :
          /\ EnqueueCollected(posture, events)
          /\ ahead' = NoCursor \/ (ahead' = NextCursor /\ events = read)
          /\ faults' \in 0..MaxFaults
  <2>0. faults \in 0..MaxFaults BY DEF Inv, Progress
  <2>1. CASE ahead' = NextCursor /\ EnqueueCollected(posture, read) /\ faults' = faults
    BY <2>0, <2>1, <1>1
  <2>2. CASE ahead' = NoCursor /\ EnqueueCollected(posture, {}) /\ faults' = faults
    BY <2>0, <2>2
  <2>3. CASE ahead' = NoCursor /\ EnqueueCollected(posture, {})
             /\ faults < MaxFaults /\ faults' = faults + 1
    <3>1. faults' \in 0..MaxFaults BY <2>0, <2>3
    <3> QED BY <3>1, <2>3
  <2> QED BY <2>1, <2>2, <2>3 DEF Collect
<1> HIDE DEF read
<1>4. /\ spool' \in Seq(Batch) /\ Len(spool') >= Len(spool)
      /\ snapshot' \in Row(Len(spool'))
      /\ snapshot'.print = posture
      /\ Told(spool', known', snapshot'.print)
      /\ EventsOf(spool') = EventsOf(spool) \cup events
  BY <1>2, <1>3, Collected
<1>5. Files'
  BY <1>2 DEF Inv, Files
<1>6. Rows'
  BY <1>2, <1>4 DEF Inv, Rows
<1>7. Progress'
  <2>1. posture \in Postures /\ posture # Unknown BY DEF Inv, Files, Unknown
  <2>2. Len(spool') \in Nat BY <1>4
  <2> QED BY <2>1, <2>2, <1>2, <1>3, <1>4 DEF Inv, Progress, Sending, Later
<1>8. Held \subseteq Held' /\ events \subseteq Held'
  BY <1>2, <1>4 DEF Held
<1>9. Covered(cursor, files, Held)'
  BY <1>2, <1>8, HeldGrows
<1>10. Covered(ahead, files, Held)'
  <2>1. CASE ahead' = NoCursor
    <3>1. ahead = NoCursor BY <1>2 DEF Inv, Progress
    <3> QED BY <1>2, <1>8, <2>1, <3>1, HeldGrows
  <2>2. CASE ahead' = NextCursor /\ events = read
    <3>1. Covered(NextCursor, files, Held') BY <2>2, <1>8, ReadCovered DEF read
    <3> QED BY <3>1, <2>2, <1>2
  <2> QED BY <2>1, <2>2, <1>3
<1>11. Stored' /\ ReleaseReported'
  BY <1>2, <1>8, ReportedHeld DEF Inv, Stored
<1> QED BY <1>4, <1>5, <1>6, <1>7, <1>9, <1>10, <1>11 DEF Inv

\* The cursor catches up with what the spool already has.
LEMMA SaveCursorKeeps == ASSUME Inv, SaveCursor PROVE Inv'
<1> USE Basics, TelemetryAssumption DEF SaveCursor, log, world, appliance
<1>1. Files' /\ Rows' /\ Progress'
  BY DEF Inv, Files, Rows, Progress, Sending, Later
<1>2. Held' = Held
  BY DEF Held
<1>3. Covered(cursor, files, Held)'
  BY <1>2 DEF Inv
<1>4. Covered(ahead, files, Held)'
  <2> DEFINE c == NoCursor
  <2>1. c \in [inode : 0..Len(files), offset : Nat] /\ c.inode = 0 /\ c.offset = 0
    BY DEF NoCursor
  <2>2. ahead' = c /\ files' = files OBVIOUS
  <2> HIDE DEF c
  <2> QED BY <2>1, <2>2 DEF Covered
<1>5. Stored' /\ Told(spool, known, snapshot.print)' /\ ReleaseReported'
  <2>1. ReleaseReported' BY <1>2, ReportedHeld DEF Inv
  <2> QED BY <2>1 DEF Inv, Stored, Told
<1> QED BY <1>1, <1>3, <1>4, <1>5 DEF Inv

\* The circuit is open or closed; a batch is chosen.
LEMMA BeginFlushKeeps == ASSUME Inv, BeginFlush PROVE Inv'
<1> USE Basics, Bounds
<1>1. /\ UNCHANGED <<files, torn, posture, moves, pf, spool, snapshot, cursor,
                      report, ahead, stored, known, faults>>
      /\ pc = "flush"
  BY DEF BeginFlush, log, world, appliance
<1>2. \/ spool = <<>> /\ queue' = 0 /\ pc' = "actions"
      \/ outcome' = "backlogged" /\ queue' = 0 /\ pc' = "actions"
      \/ outcome' = outcome /\ queue' \in 1..Len(spool) /\ pc' = "send"
  BY DEF BeginFlush, PendingSummary, Pending
<1>3. retry' \in [failures : 0..MaxStreak, wait : 0..MaxDelay]
  BY DEF BeginFlush, ClearRetry, Closed, Inv, Rows
<1>4. Files' /\ Rows'
  BY <1>1, <1>3 DEF Inv, Files, Rows
<1>5. Progress'
  BY <1>1, <1>2 DEF Inv, Progress, Sending, Later
<1>6. Held' = Held
  BY <1>1 DEF Held
<1>7. Covered(cursor, files, Held)' /\ Covered(ahead, files, Held)'
  BY <1>1, <1>6 DEF Inv
<1>8. Stored' /\ Told(spool, known, snapshot.print)' /\ ReleaseReported'
  BY <1>1, <1>2, <1>6, ReportedHeld DEF Inv, Stored, Told
<1> QED BY <1>4, <1>5, <1>7, <1>8 DEF Inv

\* ingest, whose answer may be lost: the batch at the head of the spool.
LEMMA IngestKeeps ==
    ASSUME Inv, pc = "send", Ingest(Head(spool)), pc' \in {"sent", "refused"},
           faults' \in 0..MaxFaults,
           UNCHANGED <<files, torn, posture, moves, pf, spool, snapshot, cursor,
                       retry, report, ahead, queue, outcome>>
    PROVE  Inv'
<1> USE Basics
<1>1. Len(spool) # 0
  BY DEF Inv, Progress, Sending
<1>2. Head(spool) = spool[1] /\ Head(spool) \in Batch
  BY <1>1, TailBatch
<1>3. stored' = stored \cup Head(spool).events
      /\ known' = IF spool[1].snap = Unknown THEN known ELSE spool[1].snap
  BY <1>2 DEF Ingest
<1>4. Files' /\ Progress'
  BY DEF Inv, Files, Progress, Sending, Later
<1>5. Rows'
  BY <1>2, <1>3 DEF Inv, Rows, Batch
<1>6. Held \subseteq Held'
  BY <1>3 DEF Held
<1>7. Covered(cursor, files, Held)' /\ Covered(ahead, files, Held)'
  BY <1>6, HeldGrows
<1>8. Told(spool, known, snapshot.print)'
  <2>1. Told(spool, known', snapshot.print)
    BY <1>1, <1>3, ToldStored DEF Inv
  <2> QED BY <2>1
<1>9. Stored'
  BY <1>2, <1>3 DEF Stored
<1>10. ReleaseReported'
  BY <1>6, ReportedHeld DEF Inv
<1> QED BY <1>4, <1>5, <1>7, <1>8, <1>9, <1>10 DEF Inv

\* The appliance stores the batch or refuses it; an answer may be lost.
LEMMA SendKeeps == ASSUME Inv, Send PROVE Inv'
<1> USE Basics
<1>1. /\ UNCHANGED <<files, torn, posture, moves, pf, spool, snapshot, cursor,
                      retry, report, ahead, queue, outcome>>
      /\ pc = "send"
  BY DEF Send, log, world, run
<1>2. faults' \in 0..MaxFaults /\ pc' \in {"sent", "refused"}
  BY Bounds DEF Send, Inv, Progress
<1>3. CASE Ingest(Head(spool))
  BY <1>1, <1>2, <1>3, IngestKeeps
<1>4. CASE UNCHANGED <<stored, known>> /\ pc' = "refused"
  <2>1. Files' /\ Rows' /\ Progress'
    BY <1>1, <1>2, <1>4 DEF Inv, Files, Rows, Progress, Sending, Later
  <2>2. Held' = Held
    BY <1>1, <1>4 DEF Held
  <2>3. Covered(cursor, files, Held)' /\ Covered(ahead, files, Held)'
    BY <1>1, <2>2 DEF Inv
  <2>4. Stored' /\ Told(spool, known, snapshot.print)' /\ ReleaseReported'
    BY <1>1, <1>4, <2>2, ReportedHeld DEF Inv, Stored, Told
  <2> QED BY <2>1, <2>3, <2>4 DEF Inv
<1> QED BY <1>3, <1>4 DEF Send, appliance

\* The batch at the head leaves the spool, which the appliance has.
LEMMA AcknowledgeKeeps == ASSUME Inv, Acknowledge PROVE Inv'
<1> USE Basics, Bounds
<1>1. /\ UNCHANGED <<files, torn, posture, moves, pf, cursor, report, ahead,
                      stored, known, faults>>
      /\ pc = "sent" /\ spool' = Tail(spool) /\ queue' = queue - 1
      /\ snapshot' = [snapshot EXCEPT !.pending = IF @ = 0 THEN 0 ELSE @ - 1]
  BY DEF Acknowledge, AcknowledgeOldest, log, world, appliance
<1>2. queue \in 1..Len(spool) /\ Len(spool) # 0
  <2>1. queue \in 0..Len(spool) /\ queue # 0 /\ Len(spool) \in Nat
    BY ONLY Inv, <1>1, Basics DEF Inv, Progress, Sending
  <2> QED BY ONLY <2>1
<1>3. /\ spool' \in Seq(Batch) /\ Len(spool') = Len(spool) - 1
      /\ Head(spool) = spool[1] /\ Head(spool) \in Batch
      /\ EventsOf(spool) \subseteq EventsOf(spool') \cup Head(spool).events
  BY <1>1, <1>2, TailBatch
<1>4. Head(spool).events \subseteq stored /\ (spool[1].snap # Unknown => known = spool[1].snap)
  BY <1>1, <1>3 DEF Inv, Stored
<1>5. \/ pc' = "send" /\ queue' # 0 /\ UNCHANGED <<retry, outcome>>
      \/ /\ pc' = "actions" /\ queue' = 0 /\ retry' = Closed
         /\ outcome' \in {"succeeded", "not_attempted"} => spool' = <<>>
  BY <1>2 DEF Acknowledge, ClearRetry
<1>6. retry' \in [failures : 0..MaxStreak, wait : 0..MaxDelay]
  BY <1>5 DEF Inv, Rows, Closed
<1>7. snapshot' \in Row(Len(spool')) /\ snapshot'.print = snapshot.print
  <2>1. snapshot \in Row(Len(spool)) BY DEF Inv, Rows
  <2> DEFINE p == IF snapshot.pending = 0 THEN 0 ELSE snapshot.pending - 1
  <2>2. p \in 0..Len(spool') BY <1>2, <1>3
  <2>3. snapshot' = [snapshot EXCEPT !.pending = p] BY <1>1
  <2> HIDE DEF p
  <2> QED BY <2>1, <2>2, <2>3 DEF Row
<1>8. Files' /\ Rows'
  BY <1>1, <1>3, <1>6, <1>7 DEF Inv, Files, Rows
<1>9. Progress'
  <2>1. queue' \in 0..Len(spool')
    BY ONLY <1>1, <1>2, <1>3, Basics, Inv
  <2>2. Progress BY DEF Inv
  <2> QED BY ONLY <1>1, <1>5, <1>7, <2>1, <2>2 DEF Progress, Sending, Later
<1>10. Held \subseteq Held'
  BY <1>1, <1>3, <1>4 DEF Held
<1>11. Covered(cursor, files, Held)' /\ Covered(ahead, files, Held)'
  BY <1>1, <1>10, HeldGrows
<1>12. Told(spool, known, snapshot.print)'
  <2>1. Told(Tail(spool), known, snapshot.print)
    BY <1>2, <1>4, ToldAcknowledged DEF Inv
  <2> QED BY <2>1, <1>1, <1>7
<1>13. Stored' /\ ReleaseReported'
  BY <1>1, <1>5, <1>10, ReportedHeld DEF Inv, Stored
<1> QED BY <1>8, <1>9, <1>11, <1>12, <1>13 DEF Inv

\* record_retry_failure keeps the wait within the configured maximum.
LEMMA RecordFailureBounds ==
    ASSUME Inv, RecordFailure
    PROVE  retry' \in [failures : 0..MaxStreak, wait : 0..MaxDelay]
<1> DEFINE streak == IF retry.failures < MaxStreak THEN retry.failures + 1 ELSE MaxStreak
<1>1. streak \in 0..MaxStreak
  BY Bounds DEF Inv, Rows
<1>2. PICK d \in Delays(streak) : retry' = [failures |-> streak, wait |-> d]
  BY DEF RecordFailure
<1>3. d \in 1..MaxDelay
  BY DEF Delays
<1> HIDE DEF streak
<1> QED BY <1>1, <1>2, <1>3, Bounds

\* A step that changes neither the log nor what is spooled or stored.
LEMMA QuietKeeps ==
    ASSUME Inv, Progress', pc' # "sent",
           retry' \in [failures : 0..MaxStreak, wait : 0..MaxDelay],
           ReleaseReported',
           ahead' \in {ahead, NoCursor},
           UNCHANGED <<files, torn, posture, moves, spool, snapshot, cursor, stored, known>>
    PROVE  Inv'
<1> USE Basics
<1>1. Files' /\ Rows'
  BY DEF Inv, Files, Rows
<1>2. Held' = Held
  BY DEF Held
<1>3. Covered(cursor, files, Held)'
  BY <1>2 DEF Inv
<1>4. Covered(ahead, files, Held)'
  <2> DEFINE c == NoCursor
  <2>1. c \in [inode : 0..Len(files), offset : Nat] /\ c.inode = 0 /\ c.offset = 0
    BY DEF NoCursor
  <2>2. CASE ahead' = c
    <3> HIDE DEF c
    <3> QED BY <2>1, <2>2 DEF Covered
  <2>3. CASE ahead' = ahead
    BY <2>3, <1>2 DEF Inv
  <2> QED BY <2>2, <2>3
<1>5. Stored' /\ Told(spool, known, snapshot.print)'
  BY DEF Inv, Stored, Told
<1> QED BY <1>1, <1>3, <1>4, <1>5 DEF Inv

\* A failed request leaves the spool and opens the circuit.
LEMMA FailKeeps == ASSUME Inv, Fail PROVE Inv'
<1>1. /\ UNCHANGED <<files, torn, posture, moves, pf, spool, snapshot, cursor,
                      report, ahead, stored, known, faults>>
      /\ pc = "refused" /\ pc' = "actions" /\ queue' = 0 /\ outcome' = "failed"
  BY DEF Fail, log, world, appliance
<1>2. retry' \in [failures : 0..MaxStreak, wait : 0..MaxDelay]
  BY RecordFailureBounds DEF Fail
<1>3. Progress'
  BY <1>1, Basics DEF Inv, Progress, Sending, Later
<1>4. ReleaseReported'
  BY <1>1, ReportedHeld DEF Inv, Held
<1> QED BY <1>1, <1>2, <1>3, <1>4, QuietKeeps

\* A run ends somewhere: what is on disk stays, its locals are gone.
LEMMA EndRunKeeps ==
    ASSUME Inv, pc # "idle", EndRun, faults' \in 0..MaxFaults,
           pf' = (IF pc = "transition" THEN "silent" ELSE pf),
           UNCHANGED <<files, torn, posture, moves, spool, snapshot, cursor, retry, stored, known>>
    PROVE  Inv'
<1>1. Progress'
  BY Basics DEF Inv, Progress, EndRun, Sending, Later
<1>2. ReleaseReported'
  <2>1. Held' = Held BY DEF Held
  <2> QED BY <2>1, ReportedHeld DEF Inv
<1>3. retry' \in [failures : 0..MaxStreak, wait : 0..MaxDelay]
  BY DEF Inv, Rows
<1>4. pc' # "sent" /\ ahead' = NoCursor
  BY DEF EndRun
<1> QED BY <1>1, <1>2, <1>3, <1>4, QuietKeeps

\* It ends in order, or by an exception or a kill.
LEMMA EndKeeps == ASSUME Inv, PollActions \/ FailRun PROVE Inv'
<1>1. /\ pc # "idle" /\ EndRun
      /\ UNCHANGED <<files, torn, posture, moves, spool, snapshot, cursor, retry, stored, known>>
  BY DEF PollActions, FailRun, log, world, appliance
<1>2. faults' \in 0..MaxFaults
  BY Bounds DEF PollActions, FailRun, Inv, Progress
<1>3. pf' = IF pc = "transition" THEN "silent" ELSE pf
  BY DEF PollActions, FailRun
<1> QED BY <1>1, <1>2, <1>3, EndRunKeeps

-----------------------------------------------------------------------------
(* The endpoint around the run *)

\* A step of the endpoint: the log grows, or the posture changes.
LEMMA WorldKeeps ==
    ASSUME Inv, Files', Grown(files, files'),
           UNCHANGED <<pf, spool, snapshot, cursor, retry, pc, report, ahead, queue,
                       outcome, stored, known, faults>>
    PROVE  Inv'
<1>1. Rows' /\ Progress' /\ Stored' /\ Told(spool, known, snapshot.print)'
  BY DEF Inv, Rows, Progress, Stored, Told
<1>2. Held' = Held
  BY DEF Held
<1>3. Covered(cursor, files, Held)' /\ Covered(ahead, files, Held)'
  BY <1>2, CoveredGrown DEF Inv
<1>4. ReleaseReported'
  BY <1>2, ReportedHeld DEF Inv
<1> QED BY <1>1, <1>3, <1>4 DEF Inv

\* A line is added behind every cursor.
LEMMA WriteKeeps == ASSUME Inv, NEW kind \in Kinds, Write(kind) PROVE Inv'
<1> USE Basics, Bounds
<1>1. /\ UNCHANGED <<pf, spool, snapshot, cursor, retry, pc, report, ahead, queue,
                      outcome, stored, known, faults, posture>>
      /\ moves < MaxMoves /\ moves' = moves + 1 /\ torn' \in BOOLEAN
      /\ files' = [files EXCEPT ![Current] = Append(@, kind)]
  BY DEF Write, Move, run, appliance
<1> DEFINE n == Len(files)
           new == Append(files[n], kind)
<1>2. Files /\ n \in 1..(moves + 1) /\ n \in 1..n
  BY DEF Inv, Files
<1>3. files[n] \in Seq(Kinds) /\ Len(files[n]) \in Nat /\ Len(files[n]) <= moves
  BY <1>2 DEF Files
<1>4. /\ new \in Seq(Kinds) /\ Len(new) = Len(files[n]) + 1
      /\ \A i \in 1..Len(files[n]) : new[i] = files[n][i]
  BY <1>3, AppendProperties
<1>5. files' = [files EXCEPT ![n] = new]
  BY <1>1 DEF Current
<1> HIDE DEF new
<1>6. /\ files' \in Seq(Seq(Kinds)) /\ Len(files') = n /\ files'[n] = new
      /\ \A k \in 1..n : k # n => files'[k] = files[k]
  BY <1>2, <1>4, <1>5
<1> HIDE DEF n
<1>7. ASSUME NEW k \in 1..n
      PROVE  /\ Len(files[k]) \in Nat /\ Len(files[k]) <= moves
             /\ Len(files[k]) <= Len(files'[k]) /\ Len(files'[k]) <= moves + 1
             /\ \A i \in 1..Len(files[k]) : files'[k][i] = files[k][i]
  <2>1. Len(files[k]) \in Nat /\ Len(files[k]) <= moves BY <1>2 DEF Files, n
  <2>2. CASE k = n BY <2>1, <2>2, <1>4, <1>6
  <2>3. CASE k # n
    <3>1. files'[k] = files[k] BY <2>3, <1>6
    <3> QED BY <2>1, <3>1
  <2> QED BY <2>2, <2>3
<1>8. Files'
  BY <1>1, <1>2, <1>6, <1>7 DEF Files
<1>9. Grown(files, files')
  BY <1>6, <1>7 DEF Grown, n
<1> QED BY <1>1, <1>8, <1>9, WorldKeeps

\* A new file leaves the cursor in the old one.
LEMMA RotateKeeps == ASSUME Inv, Rotate PROVE Inv'
<1> USE Basics, Bounds
<1>1. /\ UNCHANGED <<pf, spool, snapshot, cursor, retry, pc, report, ahead, queue,
                      outcome, stored, known, faults, posture, torn>>
      /\ moves < MaxMoves /\ moves' = moves + 1
      /\ files' = Append(files, <<>>)
  BY DEF Rotate, Move, run, appliance
<1> DEFINE n == Len(files)
           empty == <<>>
<1>2. Files /\ n \in 1..(moves + 1)
  BY DEF Inv, Files
<1>3. empty \in Seq(Kinds) /\ Len(empty) = 0
  OBVIOUS
<1>4. files' = Append(files, empty)
  BY <1>1
<1> HIDE DEF empty
<1>5. /\ files' \in Seq(Seq(Kinds)) /\ Len(files') = n + 1 /\ files'[n + 1] = empty
      /\ \A k \in 1..n : files'[k] = files[k]
  BY <1>3, <1>4, AppendProperties
<1>6. \A k \in 1..n : Len(files[k]) \in Nat /\ Len(files[k]) <= moves
  BY <1>2 DEF Files
<1> HIDE DEF n
<1>7. \A k \in 1..(n + 1) : Len(files'[k]) <= moves + 1
  <2> TAKE k \in 1..(n + 1)
  <2>1. CASE k = n + 1 BY <2>1, <1>3, <1>5
  <2>2. CASE k # n + 1
    <3>1. k \in 1..n BY <2>2, <1>2
    <3>2. files'[k] = files[k] /\ Len(files[k]) \in Nat /\ Len(files[k]) <= moves
      BY <3>1, <1>5, <1>6
    <3> QED BY <3>2
  <2> QED BY <2>1, <2>2
<1>8. Files'
  BY <1>1, <1>2, <1>5, <1>7 DEF Files
<1>9. Grown(files, files')
  <2>1. files \in Seq(Seq(Kinds)) /\ n \in Nat /\ n <= n + 1 /\ n = Len(files)
    BY DEF n
  <2>2. \A k \in 1..n : files'[k] = files[k] /\ Len(files[k]) <= Len(files'[k])
    BY ONLY <1>5, <1>6
  <2> QED BY ONLY <1>5, <2>1, <2>2 DEF Grown
<1> QED BY <1>1, <1>8, <1>9, WorldKeeps

\* A torn line is finished, or the posture changes.
LEMMA EndpointKeeps == ASSUME Inv, Finish \/ ChangePosture PROVE Inv'
<1> USE Basics, Bounds
<1>1. /\ UNCHANGED <<files, pf, spool, snapshot, cursor, retry, pc, report, ahead, queue,
                      outcome, stored, known, faults>>
      /\ torn' \in BOOLEAN /\ posture' \in Postures
      /\ moves' \in moves..(moves + 1) /\ moves' <= MaxMoves
  <2>1. CASE Finish
    <3>1. moves' = moves /\ posture' = posture /\ torn' \in BOOLEAN
      BY <2>1 DEF Finish, world
    <3>2. moves \in 0..MaxMoves /\ posture \in Postures BY DEF Inv, Files
    <3> QED BY <2>1, <3>1, <3>2 DEF Finish, run, appliance
  <2>2. CASE ChangePosture BY <2>2 DEF ChangePosture, Move, Inv, Files, log, run, appliance
  <2> QED BY <2>1, <2>2
<1>2. \A k \in 1..Len(files) : Len(files[k]) \in Nat /\ Len(files[k]) <= moves
  BY DEF Inv, Files
<1>3. Files /\ Len(files) \in Nat
  BY DEF Inv
<1>4. Files'
  BY <1>1, <1>2, <1>3 DEF Files
<1>5. Grown(files, files')
  BY <1>1, <1>2, <1>3 DEF Grown
<1> QED BY <1>1, <1>4, <1>5, WorldKeeps

\* Time passes for the circuit and for the snapshot row.
LEMMA TickKeeps == ASSUME Inv, Tick PROVE Inv'
<1> USE Basics, Bounds
<1>1. /\ UNCHANGED <<files, torn, posture, moves, pf, spool, cursor, pc, report,
                      ahead, queue, outcome, stored, known, faults>>
      /\ pc = "idle"
      /\ retry' = [retry EXCEPT !.wait = IF @ = 0 THEN 0 ELSE @ - 1]
      /\ snapshot' = [snapshot EXCEPT !.age = IF @ < Interval THEN @ + 1 ELSE @]
  BY DEF Tick, log, world, run, appliance
<1>2. snapshot' \in Row(Len(spool)) /\ snapshot'.print = snapshot.print
  <2>1. snapshot \in Row(Len(spool)) BY DEF Inv, Rows
  <2> DEFINE a == IF snapshot.age < Interval THEN snapshot.age + 1 ELSE snapshot.age
  <2>2. a \in 0..Interval
    <3>1. snapshot.age \in 0..Interval /\ Interval \in Nat BY <2>1 DEF Row
    <3> QED BY ONLY <3>1
  <2>3. snapshot' = [snapshot EXCEPT !.age = a] BY <1>1
  <2> HIDE DEF a
  <2> QED BY ONLY <2>1, <2>2, <2>3 DEF Row
<1>3. retry' \in [failures : 0..MaxStreak, wait : 0..MaxDelay]
  <2>1. retry \in [failures : 0..MaxStreak, wait : 0..MaxDelay] BY DEF Inv, Rows
  <2> DEFINE w == IF retry.wait = 0 THEN 0 ELSE retry.wait - 1
  <2>2. w \in 0..MaxDelay
    <3>1. retry.wait \in 0..MaxDelay /\ MaxDelay \in Nat BY <2>1
    <3> QED BY ONLY <3>1
  <2>3. retry' = [retry EXCEPT !.wait = w] BY <1>1
  <2> HIDE DEF w
  <2> QED BY <2>1, <2>2, <2>3
<1>4. Files' /\ Rows' /\ Progress'
  BY <1>1, <1>2, <1>3 DEF Inv, Files, Rows, Progress, Sending, Later
<1>5. Held' = Held
  BY <1>1 DEF Held
<1>6. Covered(cursor, files, Held)' /\ Covered(ahead, files, Held)'
  BY <1>1, <1>5 DEF Inv
<1>7. Stored' /\ Told(spool, known, snapshot.print)' /\ ReleaseReported'
  <2>1. ReleaseReported' BY <1>1, <1>5, ReportedHeld DEF Inv
  <2>2. Told(spool, known, snapshot.print) BY DEF Inv
  <2> QED BY <2>1, <2>2, <1>1, <1>2 DEF Stored
<1> QED BY <1>4, <1>6, <1>7 DEF Inv

-----------------------------------------------------------------------------
(* The theorems *)

\* Every step keeps the invariant.
LEMMA NextKeeps == ASSUME Inv, [Next]_vars PROVE Inv'
<1>1. CASE UNCHANGED vars
  <2>1. Files' /\ Grown(files, files')
    BY <1>1 DEF vars, Inv, Files, Grown
  <2> QED BY <2>1, <1>1, WorldKeeps DEF vars
<1>2. CASE Next
  BY <1>2, StartRunKeeps, SpoolTransitionKeeps, CollectKeeps, SaveCursorKeeps,
     BeginFlushKeeps, SendKeeps, AcknowledgeKeeps, FailKeeps, EndKeeps, WriteKeeps,
     RotateKeeps, EndpointKeeps, TickKeeps
     DEF Next, AgentStep
<1> QED BY <1>1, <1>2

\* The invariant holds in every state, for any bounds and any set of reports.
THEOREM Invariance == Spec => []Inv
BY InitInv, NextKeeps, PTL DEF Spec

\* Every row keeps its type, and a retry waits no longer than the configured
\* maximum (record_retry_failure).
THEOREM TypeCorrect == Spec => []TypeOK
<1>1. Inv => TypeOK
  <2> SUFFICES ASSUME Inv PROVE TypeOK OBVIOUS
  <2>1. ASSUME NEW c, Covered(c, files, Held)
        PROVE  c \in [inode : 0..Len(files), offset : 0..MaxMoves]
    <3>1. /\ c \in [inode : 0..Len(files), offset : Nat]
          /\ c.inode = 0 => c.offset = 0
          /\ c.inode # 0 => c.offset <= Len(files[c.inode])
      BY <2>1 DEF Covered
    <3>2. c.inode # 0 => c.inode \in 1..Len(files) BY <3>1, Basics
    <3>3. \A k \in 1..Len(files) : Len(files[k]) \in Nat /\ Len(files[k]) <= MaxMoves
      BY Bounds DEF Inv, Files
    <3>4. c.offset \in 0..MaxMoves BY <3>1, <3>2, <3>3, Bounds
    <3> QED BY <3>1, <3>4
  <2>2. {cursor, ahead} \subseteq [inode : 0..Len(files), offset : 0..MaxMoves]
    BY <2>1 DEF Inv
  <2>3. files \in Seq(Seq(Kinds)) /\ torn \in BOOLEAN /\ posture \in Postures /\ moves \in 0..MaxMoves
    BY DEF Inv, Files
  <2> QED BY <2>2, <2>3 DEF TypeOK, Inv, Rows, Progress, Row, Prints, Batch
<1> QED BY <1>1, Invariance, PTL

\* save_source_cursor is a second commit after enqueue_collected; whatever
\* happens between them, no event before the saved cursor is lost.
THEOREM CursorNeverAhead == Spec => []CursorBehindSpool
<1>1. Inv => CursorBehindSpool
  BY DEF Inv, Covered, CursorBehindSpool, Held, EventsOf, Spooled
<1> QED BY <1>1, Invariance, PTL

\* A run that ends with nothing left to deliver leaves the appliance with its
\* control report and every event before the cursor.
THEOREM NothingCoalescedAway == Spec => []DeliveredMeansKnown
<1>1. Inv => DeliveredMeansKnown
  <2> SUFFICES ASSUME Inv, outcome \in {"succeeded", "not_attempted"}
               PROVE  /\ known = report
                      /\ \A i \in 1..cursor.offset :
                            Yields(files[cursor.inode][i]) => <<cursor.inode, i>> \in stored
    BY DEF DeliveredMeansKnown
  <2>1. spool = <<>> /\ report = snapshot.print
    BY DEF Inv, Progress, Later
  <2>2. known = report
    BY <2>1 DEF Inv, Told
  <2>3. Held = stored
    BY <2>1 DEF Held, EventsOf
  <2> QED BY <2>2, <2>3 DEF Inv, Covered
<1> QED BY <1>1, Invariance, PTL

\* A containment that reconcile released is reported, unless the process died
\* before it committed the report.
THEOREM ReleasesReported == Spec => []ReleaseReported
<1>1. Inv => ReleaseReported
  BY DEF Inv
<1> QED BY <1>1, Invariance, PTL

=============================================================================
