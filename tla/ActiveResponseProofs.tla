------------------------- MODULE ActiveResponseProofs -------------------------
(***************************************************************************)
(* Proofs about ActiveResponse, from the proofs of its two components:     *)
(* ResponseGovernanceProofs says what the table keeps of an action that    *)
(* was handed out, EndpointContainmentProofs what the Mac makes of its     *)
(* errand.  What joins them is the action that the collector holds         *)
(* (Holding), the results under way (Mail), and that no success of a       *)
(* release is recorded while rules are loaded for another action           *)
(* (Recorded).                                                             *)
(***************************************************************************)
EXTENDS ActiveResponse, TLAPS

GovP == INSTANCE ResponseGovernanceProofs WITH
    Devices <- {Device}, Results <- ResultKinds, Succeeded <- ResultKinds \ {"failed"}

MacP == INSTANCE EndpointContainmentProofs

Releasing == {"released", "already released"}
Free == ~MacP!Blocked \/ MacP!Stranded
IsRelease(a) == action[a].id.kind = "release_endpoint"

Parties == GovP!Table /\ MacP!Inv /\ MacP!Errand

\* While the collector is on an errand it holds the action that sent it, which
\* has at least as much time left.
Holding ==
    /\ held \in Actions \cup {None}
    /\ held # None <=> agent.why \in MacP!Kinds
    /\ held # None => HandedOut(held, agent.why) /\ agent.ttl <= action[held].ttl

\* Rules that are loaded, and a state file, come from an isolate action.
Contained ==
    /\ MacP!Blocked => \E a \in Actions : HandedOut(a, "isolate_endpoint")
    /\ ContainmentWithinAction

\* A result under way answers an action of its kind; as long as the table would
\* take it, the Mac has executed nothing else since.
Answer(m) ==
    /\ action[m[1]].count > 0
    /\ m[2] \in Releasing => IsRelease(m[1])
    /\ m[2] \in {"isolated", "already isolated"} => ~IsRelease(m[1])
    /\ action[m[1]].status = "dispatched" =>
          /\ held # None => held = m[1]
          /\ m[2] \in Releasing => Free

Mail == mail \subseteq Actions \X ResultKinds /\ \A m \in mail : Answer(m)

\* The action that is held or was executed last is a release that succeeded
\* only if the Mac is free.
Recorded ==
    /\ applied \in Actions \cup {None}
    /\ applied # None => action[applied].count > 0
    /\ held # None /\ agent.pc # "execute" => applied = held
    /\ \A a \in Actions \cap {held, applied} :
          IsRelease(a) /\ action[a].status = "succeeded" => Free

Inv == Parties /\ Holding /\ Contained /\ Mail /\ Recorded

----------------------------------------------------------------------------
(* The components and their proofs speak of the same state *)

\* The assumptions of the components.
LEMMA Assumptions ==
    /\ GovP!ResponseAssumption /\ GovP!NoneAssumption
    /\ MacP!EndpointAssumption /\ MacP!NoFileAssumption
<1>1. GovP!ResponseAssumption
  BY ActiveAssumption
<1>2. GovP!NoneAssumption
  BY ActiveAssumption DEF Gov!Identity, GovP!Identity, Gov!Kinds, GovP!Kinds
<1>3. MacP!EndpointAssumption
  BY ActiveAssumption
<1>4. MacP!NoFileAssumption
  BY ActiveAssumption DEF Mac!FileState, MacP!FileState
<1> QED BY <1>1, <1>2, <1>3, <1>4

\* The steps of the Mac.
LEMMA SameMac ==
    /\ Mac!Init <=> MacP!Init
    /\ Mac!StartRun <=> MacP!StartRun
    /\ Mac!Rotate <=> MacP!Rotate
    /\ Mac!Reconcile <=> MacP!Reconcile
    /\ Mac!Collect <=> MacP!Collect
    /\ Mac!PollNothing <=> MacP!PollNothing
    /\ \A k, t : Mac!Receive(k, t) <=> MacP!Receive(k, t)
    /\ Mac!Execute <=> MacP!Execute
    /\ Mac!Submit <=> MacP!Submit
    /\ Mac!Recover <=> MacP!Recover
    /\ Mac!Reactivate <=> MacP!Reactivate
    /\ Mac!Crash <=> MacP!Crash
    /\ Mac!Reboot <=> MacP!Reboot
    /\ Mac!Tick <=> MacP!Tick
  BY DEF Mac!Init, MacP!Init, Mac!StartRun, MacP!StartRun, Mac!Rotate, MacP!Rotate,
         Mac!Reconcile, MacP!Reconcile, Mac!Collect, MacP!Collect, Mac!PollNothing,
         MacP!PollNothing, Mac!Receive, MacP!Receive, Mac!Execute, MacP!Execute, Mac!Submit,
         MacP!Submit, Mac!Recover, MacP!Recover, Mac!Reactivate, MacP!Reactivate, Mac!Crash,
         MacP!Crash, Mac!Reboot, MacP!Reboot, Mac!Tick, MacP!Tick, Mac!At, MacP!At, Mac!Go,
         MacP!Go, Mac!Report, MacP!Report, Mac!MkAgent, MacP!MkAgent, Mac!MkFile, MacP!MkFile,
         Mac!Idle, MacP!Idle, Mac!world, MacP!world, Mac!Fault, MacP!Fault, Mac!Escape,
         MacP!Escape, Mac!Overdue, MacP!Overdue, Mac!Smaller, MacP!Smaller, Mac!Less, MacP!Less,
         Mac!NewToken, MacP!NewToken, Mac!AfterRelease, MacP!AfterRelease

\* The commands that apply and roll back containment.
LEMMA SameApply == Mac!Apply <=> MacP!Apply
  BY DEF Mac!Apply, MacP!Apply, Mac!Enable, MacP!Enable, Mac!Load, MacP!Load, Mac!Save,
         MacP!Save, Mac!RollFlush, MacP!RollFlush, Mac!RollUnref, MacP!RollUnref, Mac!Discard,
         MacP!Discard, Mac!Preserve, MacP!Preserve, Mac!At, MacP!At, Mac!Go, MacP!Go,
         Mac!Report, MacP!Report, Mac!MkAgent, MacP!MkAgent, Mac!MkFile, MacP!MkFile, Mac!Idle,
         MacP!Idle, Mac!world, MacP!world, Mac!Fault, MacP!Fault, Mac!Escape, MacP!Escape,
         Mac!Overdue, MacP!Overdue, Mac!Smaller, MacP!Smaller, Mac!Less, MacP!Less,
         Mac!NewToken, MacP!NewToken, Mac!AfterRelease, MacP!AfterRelease

\* The commands that release it.
LEMMA SameRelease == Mac!Release <=> MacP!Release
  BY DEF Mac!Release, MacP!Release, Mac!Flush, MacP!Flush, Mac!Unref, MacP!Unref, Mac!Delete,
         MacP!Delete, Mac!At, MacP!At, Mac!Go, MacP!Go, Mac!Report, MacP!Report, Mac!MkAgent,
         MacP!MkAgent, Mac!MkFile, MacP!MkFile, Mac!Idle, MacP!Idle, Mac!world, MacP!world,
         Mac!Fault, MacP!Fault, Mac!Escape, MacP!Escape, Mac!Overdue, MacP!Overdue, Mac!Smaller,
         MacP!Smaller, Mac!Less, MacP!Less, Mac!NewToken, MacP!NewToken, Mac!AfterRelease,
         MacP!AfterRelease

\* What the kernel has loaded.
LEMMA SameRules == (Mac!Blocked <=> MacP!Blocked) /\ (Mac!Stranded <=> MacP!Stranded)
  BY DEF Mac!Blocked, MacP!Blocked, Mac!Stranded, MacP!Stranded

\* The operations of the table.
LEMMA SameTable ==
    /\ Gov!Init <=> GovP!Init
    /\ Gov!ListActions <=> GovP!ListActions
    /\ Gov!PollDevice(Device) <=> GovP!PollDevice(Device)
    /\ \A a : Gov!Dispatchable(a, Device) <=> GovP!Dispatchable(a, Device)
    /\ \A a : Gov!TakesResult(Device, a) <=> GovP!TakesResult(Device, a)
    /\ \A a, r : Gov!SubmitResult(Device, a, r) <=> GovP!SubmitResult(Device, a, r)
    /\ \A c : Gov!CloseCase(c) <=> GovP!CloseCase(c)
    /\ \A c : Gov!ReopenCase(c) <=> GovP!ReopenCase(c)
    /\ Gov!RevokeDevice(Device) <=> GovP!RevokeDevice(Device)
    /\ Gov!Tick <=> GovP!Tick
  BY DEF Gov!Init, GovP!Init, Gov!ListActions, GovP!ListActions, Gov!PollDevice,
         GovP!PollDevice, Gov!Dispatchable, GovP!Dispatchable, Gov!TakesResult,
         GovP!TakesResult, Gov!SubmitResult, GovP!SubmitResult, Gov!CloseCase, GovP!CloseCase,
         Gov!ReopenCase, GovP!ReopenCase, Gov!RevokeDevice, GovP!RevokeDevice, Gov!Tick,
         GovP!Tick, Gov!Exists, GovP!Exists, Gov!IsLive, GovP!IsLive, Gov!Due, GovP!Due,
         Gov!CaseIsClosed, GovP!CaseIsClosed, Gov!Live, GovP!Live, Gov!Kinds, GovP!Kinds,
         Gov!MkRow, GovP!MkRow, Gov!WithStatus, GovP!WithStatus, Gov!ExpireOne, GovP!ExpireOne,
         Gov!Expires, GovP!Expires, Gov!Swept, GovP!Swept, Gov!SlotFree, GovP!SlotFree,
         Gov!StatusOf, GovP!StatusOf, Gov!Independent, GovP!Independent, Gov!NoRow, GovP!NoRow

\* The humans' operations on the table.
LEMMA SameHuman == \A u : Gov!Human(u) <=> GovP!Human(u)
  BY DEF Gov!Human, GovP!Human, Gov!Propose, GovP!Propose, Gov!Approve, GovP!Approve,
         Gov!Reject, GovP!Reject, Gov!Exists, GovP!Exists, Gov!IsLive, GovP!IsLive, Gov!Due,
         GovP!Due, Gov!CaseIsClosed, GovP!CaseIsClosed, Gov!Live, GovP!Live, Gov!Kinds,
         GovP!Kinds, Gov!MkRow, GovP!MkRow, Gov!WithStatus, GovP!WithStatus, Gov!ExpireOne,
         GovP!ExpireOne, Gov!Expires, GovP!Expires, Gov!Swept, GovP!Swept, Gov!SlotFree,
         GovP!SlotFree, Gov!StatusOf, GovP!StatusOf, Gov!Independent, GovP!Independent,
         Gov!NoRow, GovP!NoRow

----------------------------------------------------------------------------
(* What a step leaves of the table and of the Mac *)

\* An action that was handed out keeps its identity, and does not become
\* dispatched again.
TableStays ==
    \A a \in Actions : action[a].count > 0 =>
        /\ action'[a].count > 0
        /\ action'[a].id = action[a].id
        /\ action'[a].status = "dispatched" => action[a].status = "dispatched"

DeadlinesStay ==
    \A a \in Actions : action[a].count > 0 => action'[a].ttl = action[a].ttl

NoSuccess ==
    \A a \in Actions : action[a].count > 0 =>
        (action'[a].status = "succeeded" => action[a].status = "succeeded")

\* Only a load sets the rules, and what stranded them is not forgotten.
RulesStay ==
    /\ anchor' = "block" => MacP!Blocked \/ MacP!At("load")
    /\ MacP!Stranded => MacP!Stranded'

\* The state file is left alone, removed, or written with the errand's deadline.
FileStays ==
    file' # NoFile =>
        file' = file \/ (agent.pc \in MacP!Applying /\ file'.ttl = agent.expiry)

\* A step of the table is a step of its specification.
LEMMA TableSteps ==
    ASSUME GovP!Table, [GovP!Next]_(GovP!vars)
    PROVE  GovP!Table' /\ TableStays
<1>1. GovP!Table'
  BY Assumptions, GovP!TableStep
<1>2. TableStays
  BY Assumptions, GovP!HandedOutStays DEF TableStays
<1> QED BY <1>1, <1>2

\* So is every step but time and results, which leaves deadlines alone too.
LEMMA TableRests ==
    ASSUME GovP!Table, [GovP!Next]_(GovP!vars), GovP!Unsettled
    PROVE  GovP!Table' /\ TableStays /\ DeadlinesStay /\ NoSuccess
<1>1. DeadlinesStay /\ NoSuccess
  BY Assumptions, GovP!UnsettledRow DEF DeadlinesStay, NoSuccess
<1> QED BY <1>1, TableSteps

\* A step of the Mac's own keeps its invariant and its errand.
LEMMA MacSteps ==
    ASSUME MacP!Inv, MacP!Errand, MacP!OwnStep \/ UNCHANGED macVars
    PROVE  /\ MacP!Inv' /\ MacP!Errand'
           /\ RulesStay /\ FileStays
           /\ agent'.why \in MacP!Kinds => agent'.why = agent.why /\ agent'.ttl = agent.ttl
           /\ agent.why \in MacP!Kinds /\ crashes' = crashes
                => agent'.why = agent.why \/ agent'.pc = "idle"
<1>1. MacP!OwnStep \/ UNCHANGED MacP!vars
  BY DEF macVars, MacP!vars
<1>2. MacP!Inv'
  BY <1>1, Assumptions, MacP!StepKeeps
<1>3. MacP!Errand' /\ MacP!Carried
  BY <1>1, Assumptions, MacP!StepCarries, MacP!StillCarries
<1> QED BY <1>2, <1>3 DEF MacP!Carried, RulesStay, FileStays

----------------------------------------------------------------------------
(* What the parts of the invariant need *)

\* The kinds of the two components are the same.
LEMMA ErrandKinds ==
    /\ "isolate_endpoint" \in MacP!Kinds /\ "release_endpoint" \in MacP!Kinds
    /\ "run" \notin MacP!Kinds
  BY DEF MacP!Kinds

\* Whoever loads or saves the rules holds an isolate action.
LEMMA ApplyingHolds ==
    ASSUME MacP!Errand, Holding, agent.pc \in MacP!Applying \cup {"load"}
    PROVE  /\ held \in Actions /\ held # None
           /\ HandedOut(held, "isolate_endpoint")
           /\ agent.expiry <= agent.ttl /\ agent.ttl <= action[held].ttl
<1>1. agent.why = "isolate_endpoint" /\ agent.expiry <= agent.ttl
  BY DEF MacP!Errand
<1> QED BY <1>1, ErrandKinds DEF Holding

\* The held action stays as long as the errand does.
LEMMA HoldingStays ==
    ASSUME Holding, TableStays, DeadlinesStay, held' \in {held, None},
           held' # None <=> agent'.why \in MacP!Kinds,
           agent'.why \in MacP!Kinds => agent'.why = agent.why /\ agent'.ttl = agent.ttl
    PROVE  Holding'
<1>1. CASE held' = None
  BY <1>1 DEF Holding
<1>2. CASE held' # None
  <2>1. /\ held' = held /\ held \in Actions /\ held # None
        /\ agent'.why = agent.why /\ agent'.ttl = agent.ttl
    BY <1>2 DEF Holding
  <2>2. HandedOut(held, agent.why) /\ agent.ttl <= action[held].ttl
    BY <2>1 DEF Holding
  <2>3. /\ action'[held].count > 0 /\ action'[held].id = action[held].id
        /\ action'[held].ttl = action[held].ttl
    BY <2>1, <2>2 DEF HandedOut, TableStays, DeadlinesStay
  <2> QED BY <1>2, <2>1, <2>2, <2>3 DEF Holding, HandedOut
<1> QED BY <1>1, <1>2

\* An isolate action that was handed out stays one.
LEMMA HandedOutKept ==
    ASSUME TableStays, NEW a \in Actions, NEW k, HandedOut(a, k)
    PROVE  HandedOut(a, k)'
  BY DEF TableStays, HandedOut

\* Rules are loaded, and the state file is written, for the held action.
LEMMA ContainedStays ==
    ASSUME MacP!Inv, GovP!Table, MacP!Errand, Holding, Contained, TableStays, DeadlinesStay,
           RulesStay, FileStays
    PROVE  Contained'
<1>1. ASSUME anchor' = "block" PROVE \E a \in Actions : HandedOut(a, "isolate_endpoint")'
  <2>1. CASE MacP!Blocked
    BY <2>1, HandedOutKept DEF Contained
  <2>2. CASE MacP!At("load")
    BY <2>2, ApplyingHolds, HandedOutKept DEF MacP!At
  <2> QED BY <1>1, <2>1, <2>2 DEF RulesStay
<1>2. ASSUME file' # NoFile
      PROVE  \E a \in Actions :
                HandedOut(a, "isolate_endpoint")' /\ file'.ttl <= action'[a].ttl
  <2>1. CASE file' = file
    <3>1. PICK a \in Actions : HandedOut(a, "isolate_endpoint") /\ file.ttl <= action[a].ttl
      BY <1>2, <2>1 DEF Contained, ContainmentWithinAction
    <3>2. action'[a].ttl = action[a].ttl
      BY <3>1 DEF DeadlinesStay, HandedOut
    <3> QED BY <2>1, <3>1, <3>2, HandedOutKept
  <2>2. CASE agent.pc \in MacP!Applying /\ file'.ttl = agent.expiry
    <3>1. /\ held \in Actions /\ HandedOut(held, "isolate_endpoint")
          /\ agent.expiry <= agent.ttl /\ agent.ttl <= action[held].ttl
      BY <2>2, ApplyingHolds
    <3>2. action'[held].ttl = action[held].ttl
      BY <3>1 DEF DeadlinesStay, HandedOut
    <3>3. agent.expiry \in Nat /\ agent.ttl \in Nat /\ action[held].ttl \in Nat
      BY <3>1 DEF MacP!Inv, MacP!TypeOK, MacP!AgentState, GovP!Table, GovP!TypeOK, GovP!Row
    <3>4. file'.ttl <= action'[held].ttl
      BY <2>2, <3>1, <3>2, <3>3
    <3> QED BY <3>1, <3>4, HandedOutKept
  <2> QED BY <1>2, <2>1, <2>2 DEF FileStays
<1> QED BY <1>1, <1>2 DEF Contained, ContainmentWithinAction, MacP!Blocked

\* The Mac stays free, unless an isolate action is about to load the rules.
LEMMA FreeStays ==
    ASSUME Free, RulesStay, ~MacP!At("load")
    PROVE  Free'
  BY DEF Free, RulesStay, MacP!Blocked

\* A result under way stays one while the collector goes on with what it holds.
LEMMA AnswerStays ==
    ASSUME MacP!Errand, Holding, TableStays, RulesStay, NEW m \in Actions \X ResultKinds,
           Answer(m),
           action[m[1]].status = "dispatched" => held' \in {held, None, m[1]}
    PROVE  Answer(m)'
<1>0. m[1] \in Actions
  OBVIOUS
<1>1. /\ action'[m[1]].count > 0 /\ action'[m[1]].id = action[m[1]].id
      /\ action'[m[1]].status = "dispatched" => action[m[1]].status = "dispatched"
  BY <1>0 DEF TableStays, Answer
<1>2. IsRelease(m[1])' <=> IsRelease(m[1])
  BY <1>1 DEF IsRelease
<1>3. ASSUME action[m[1]].status = "dispatched", m[2] \in Releasing PROVE Free'
  <2>1. Free /\ IsRelease(m[1]) /\ (held # None => held = m[1])
    BY <1>3 DEF Answer
  <2>2. ~MacP!At("load")
    <3>1. ASSUME MacP!At("load") PROVE FALSE
      <4>1. held # None /\ HandedOut(held, "isolate_endpoint")
        BY <3>1, ApplyingHolds DEF MacP!At
      <4> QED BY <2>1, <4>1 DEF IsRelease, HandedOut
    <3> QED BY <3>1
  <2> QED BY <2>1, <2>2, FreeStays
<1> QED BY <1>1, <1>2, <1>3 DEF Answer

\* So does what is said of the action that was executed last.
LEMMA RecordedStays ==
    ASSUME MacP!Errand, Holding, Recorded, TableStays, NoSuccess, RulesStay,
           held' \in {held, None}, applied' \in {applied, held},
           held' # None /\ agent'.pc # "execute" => applied' = held'
    PROVE  Recorded'
<1>1. \A a \in Actions \cap {held, applied} : action[a].count > 0 \/ a = None
  BY DEF Recorded, Holding, HandedOut
<1>2. applied' \in Actions \cup {None} /\ (applied' # None => action'[applied'].count > 0)
  BY <1>1 DEF Recorded, Holding, TableStays
<1>3. ASSUME NEW a \in Actions \cap {held', applied'}, a # None,
             action'[a].id.kind = "release_endpoint", action'[a].status = "succeeded"
      PROVE  Free'
  <2>1. a \in Actions \cap {held, applied} /\ action[a].count > 0
    BY <1>1, <1>3
  <2>2. IsRelease(a) /\ action[a].status = "succeeded"
    BY <1>3, <2>1 DEF TableStays, NoSuccess, IsRelease
  <2>3. Free
    BY <2>1, <2>2 DEF Recorded
  <2>4. ASSUME MacP!At("load") PROVE FALSE
    <3>1. held # None /\ HandedOut(held, "isolate_endpoint") /\ agent.pc # "execute"
      BY <2>4, ApplyingHolds DEF MacP!At
    <3>2. applied = held
      BY <3>1 DEF Recorded
    <3> QED BY <2>1, <2>2, <3>1, <3>2 DEF IsRelease, HandedOut
  <2> QED BY <2>3, <2>4, FreeStays
<1>4. None \notin Actions
  BY ActiveAssumption
<1> QED BY <1>2, <1>3, <1>4 DEF Recorded, IsRelease

----------------------------------------------------------------------------
(* The steps *)

\* The table's steps that are neither time nor a result.
QuietStep ==
    \/ \E u \in Users : Gov!Human(u)
    \/ Gov!ListActions
    \/ Gov!PollDevice(Device)
    \/ \E c \in Cases : Gov!CloseCase(c) \/ Gov!ReopenCase(c)
    \/ Gov!RevokeDevice(Device)
    \/ UNCHANGED govVars

\* They leave what was handed out alone.
LEMMA QuietRests ==
    ASSUME GovP!Table, QuietStep
    PROVE  GovP!Table' /\ TableStays /\ DeadlinesStay /\ NoSuccess
<1>1. \/ \E u \in Users : GovP!Human(u)
      \/ GovP!ListActions
      \/ \E d \in {Device} : GovP!PollDevice(d)
      \/ \E c \in Cases : GovP!CloseCase(c) \/ GovP!ReopenCase(c)
      \/ \E d \in {Device} : GovP!RevokeDevice(d)
      \/ UNCHANGED GovP!vars
  BY SameTable, SameHuman DEF QuietStep, govVars, GovP!vars
<1>2. [GovP!Next]_(GovP!vars)
  BY <1>1 DEF GovP!Next
<1>3. GovP!Unsettled
  BY <1>1, Assumptions, GovP!OtherRows DEF GovP!Table
<1> QED BY <1>2, <1>3, TableRests

\* The Mac goes on with what it holds, or drops it; the table rests.
LEMMA GoesOn ==
    ASSUME Inv, QuietStep, MacP!OwnStep \/ UNCHANGED macVars,
           held' \in {held, None}, held' # None <=> agent'.why \in MacP!Kinds,
           applied' \in {applied, held},
           held' # None /\ agent'.pc # "execute" => applied' = held'
    PROVE  Parties' /\ Holding' /\ Contained' /\ Recorded' /\ \A m \in mail : Answer(m)'
<1>1. GovP!Table' /\ TableStays /\ DeadlinesStay /\ NoSuccess
  BY QuietRests DEF Inv, Parties
<1>2. /\ MacP!Inv' /\ MacP!Errand' /\ RulesStay /\ FileStays
      /\ agent'.why \in MacP!Kinds => agent'.why = agent.why /\ agent'.ttl = agent.ttl
  BY MacSteps DEF Inv, Parties
<1>3. Holding'
  BY <1>1, <1>2, HoldingStays DEF Inv
<1>4. Contained'
  BY <1>1, <1>2, ContainedStays DEF Inv, Parties
<1>5. Recorded'
  BY <1>1, <1>2, RecordedStays DEF Inv, Parties
<1>6. ASSUME NEW m \in mail PROVE Answer(m)'
  <2>1. m \in Actions \X ResultKinds /\ Answer(m)
    BY DEF Inv, Mail
  <2> QED BY <1>1, <1>2, <2>1, AnswerStays DEF Inv, Parties
<1> QED BY <1>1, <1>2, <1>3, <1>4, <1>5, <1>6 DEF Parties

\* Results under way do not appear from nowhere.
LEMMA MailStays ==
    ASSUME Mail, \A m \in mail : Answer(m)', mail' \subseteq mail
    PROVE  Mail'
  BY DEF Mail

\* The poll that brings nothing, committed or not.
LEMMA NoPollKeeps == ASSUME Inv, PollLost \/ NoPoll PROVE Inv'
<1>1. QuietStep /\ MacP!PollNothing /\ UNCHANGED <<held, applied, mail>>
  BY SameMac DEF PollLost, NoPoll, QuietStep
<1>2. MacP!OwnStep
  BY <1>1 DEF MacP!OwnStep
<1>3. agent'.why \notin MacP!Kinds
  BY <1>1, Assumptions, MacP!StopEnds DEF Inv, Parties
<1>4. held = None
  <2>1. agent.why = "run"
    BY <1>1 DEF MacP!PollNothing, MacP!At, Inv, Parties, MacP!Errand
  <2> QED BY <2>1, ErrandKinds DEF Inv, Holding
<1>5. Parties' /\ Holding' /\ Contained' /\ Recorded' /\ \A m \in mail : Answer(m)'
  BY <1>1, <1>2, <1>3, <1>4, GoesOn
<1> QED BY <1>1, <1>5, MailStays DEF Inv

\* The adapter executes what is held.
LEMMA ExecuteKeeps == ASSUME Inv, Execute PROVE Inv'
<1>1. QuietStep /\ MacP!Execute /\ applied' = held /\ held' = held /\ mail' = mail
  BY SameMac DEF Execute, QuietStep
<1>2. MacP!OwnStep
  BY <1>1 DEF MacP!OwnStep
<1>3. agent'.why = agent.why
  BY <1>1, Assumptions, MacP!ExecuteCarries DEF Inv, Parties
<1>4. held' # None <=> agent'.why \in MacP!Kinds
  BY <1>1, <1>3 DEF Inv, Holding
<1>5. Parties' /\ Holding' /\ Contained' /\ Recorded' /\ \A m \in mail : Answer(m)'
  BY <1>1, <1>2, <1>4, GoesOn
<1> QED BY <1>1, <1>5, MailStays DEF Inv

\* The rest of a run.
LEMMA RunKeeps == ASSUME Inv, Run PROVE Inv'
<1>1. /\ QuietStep /\ applied' = applied /\ mail' = mail
      /\ held' = IF agent'.pc = "idle" THEN None ELSE held
  BY DEF Run, QuietStep
<1>2. \/ MacP!StartRun \/ MacP!Rotate \/ MacP!Reconcile \/ MacP!Collect
      \/ MacP!Apply \/ MacP!Release \/ MacP!Reactivate
  BY SameMac, SameApply, SameRelease DEF Run
<1>3. MacP!OwnStep
  BY <1>2 DEF MacP!OwnStep
<1>4. crashes' = crashes /\ agent.pc # "execute"
  BY <1>2 DEF MacP!StartRun, MacP!Rotate, MacP!Reconcile, MacP!Collect, MacP!Apply,
              MacP!Release, MacP!Reactivate, MacP!Enable, MacP!Load, MacP!Save,
              MacP!RollFlush, MacP!RollUnref, MacP!Discard, MacP!Preserve, MacP!Flush,
              MacP!Unref, MacP!Delete, MacP!world, MacP!At
<1>5. /\ MacP!Errand'
      /\ agent'.why \in MacP!Kinds => agent'.why = agent.why
      /\ agent.why \in MacP!Kinds => agent'.why = agent.why \/ agent'.pc = "idle"
  BY <1>3, <1>4, MacSteps DEF Inv, Parties
<1>6. agent'.pc = "idle" => agent'.why \notin MacP!Kinds
  BY <1>5, ErrandKinds DEF MacP!Errand
<1>7. held' # None <=> agent'.why \in MacP!Kinds
  BY <1>1, <1>5, <1>6 DEF Inv, Holding
<1>8. held' # None => applied' = held'
  BY <1>1, <1>4 DEF Inv, Recorded
<1>9. Parties' /\ Holding' /\ Contained' /\ Recorded' /\ \A m \in mail : Answer(m)'
  BY <1>1, <1>3, <1>7, <1>8, GoesOn
<1> QED BY <1>1, <1>9, MailStays DEF Inv

\* The recovery command, a crash and a reboot.
LEMMA InterruptKeeps == ASSUME Inv, Interrupt PROVE Inv'
<1>1. /\ QuietStep /\ applied' = applied /\ mail' = mail /\ held' = None
      /\ MacP!Recover \/ MacP!Crash \/ MacP!Reboot
  BY SameMac DEF Interrupt, QuietStep
<1>2. MacP!OwnStep
  BY <1>1 DEF MacP!OwnStep
<1>3. agent'.why \notin MacP!Kinds
  BY <1>1, Assumptions, MacP!StopEnds DEF Inv, Parties
<1>4. Parties' /\ Holding' /\ Contained' /\ Recorded' /\ \A m \in mail : Answer(m)'
  BY <1>1, <1>2, <1>3, GoesOn
<1> QED BY <1>1, <1>4, MailStays DEF Inv

\* The control plane's own operations, a lost or refused result, and no step.
LEMMA StillKeeps ==
    ASSUME Inv, QuietStep, UNCHANGED <<macVars, held, applied>>, mail' \subseteq mail
    PROVE  Inv'
<1>1. held' # None <=> agent'.why \in MacP!Kinds
  BY DEF Inv, Holding, macVars
<1>2. held' # None /\ agent'.pc # "execute" => applied' = held'
  BY DEF Inv, Recorded, macVars
<1>3. Parties' /\ Holding' /\ Contained' /\ Recorded' /\ \A m \in mail : Answer(m)'
  BY <1>1, <1>2, GoesOn
<1> QED BY <1>3, MailStays DEF Inv

\* The collector reports, honestly, on the action it holds.
LEMMA SubmitKeeps == ASSUME Inv, Submit PROVE Inv'
<1>1. /\ QuietStep /\ applied' = applied /\ held' = None /\ MacP!Submit
      /\ mail' = mail \cup {<<held, agent.out>>}
  BY SameMac DEF Submit, QuietStep
<1>2. MacP!OwnStep
  BY <1>1 DEF MacP!OwnStep
<1>3. agent'.why \notin MacP!Kinds
  BY <1>1, Assumptions, MacP!StopEnds DEF Inv, Parties
<1>4. Parties' /\ Holding' /\ Contained' /\ Recorded' /\ \A m \in mail : Answer(m)'
  BY <1>1, <1>2, <1>3, GoesOn
<1>5. MacP!At("report") /\ agent.why \in MacP!Kinds
  BY <1>1 DEF MacP!Submit, MacP!At, Inv, Parties, MacP!Errand
<1>6. held \in Actions /\ HandedOut(held, agent.why)
  BY <1>5 DEF Inv, Holding
<1>7. /\ agent.out \in ResultKinds
      /\ agent.out \in Releasing => agent.why = "release_endpoint"
      /\ agent.out \in {"isolated", "already isolated"} => agent.why = "isolate_endpoint"
  <2>1. agent.out \in MacP!Outcomes
    BY DEF Inv, Parties, MacP!Inv, MacP!TypeOK, MacP!AgentState
  <2> QED BY <1>5, <2>1
          DEF Inv, Parties, MacP!Errand, MacP!Outcomes, ResultKinds, Releasing
<1>8. agent.out \in Releasing => Free
  BY <1>5 DEF Inv, Parties, MacP!Inv, MacP!Safe, MacP!ReportHonest, Free, Releasing
<1>9. PICK a \in Actions, out \in ResultKinds : a = held /\ out = agent.out
  BY <1>6, <1>7
<1>10. Answer(<<a, out>>)'
  <2>1. RulesStay /\ TableStays
    BY <1>1, <1>2, MacSteps, QuietRests DEF Inv, Parties
  <2>2. action'[a].count > 0 /\ action'[a].id = action[a].id /\ action[a].id.kind = agent.why
    BY <1>6, <1>9, <2>1 DEF TableStays, HandedOut
  <2>3. out \in Releasing => Free'
    BY <1>5, <1>8, <1>9, <2>1, FreeStays DEF MacP!At
  <2>4. /\ out \in Releasing => IsRelease(a)'
        /\ out \in {"isolated", "already isolated"} => ~IsRelease(a)'
    BY <1>7, <1>9, <2>2 DEF IsRelease
  <2> QED BY <1>1, <2>2, <2>3, <2>4 DEF Answer, IsRelease
<1>11. Mail'
  BY <1>1, <1>4, <1>9, <1>10 DEF Inv, Mail
<1> QED BY <1>4, <1>11 DEF Inv

\* submit_device_result: a recorded success of a release comes from a result
\* that was true when it was sent and is true still.
LEMMA ResultKeeps ==
    ASSUME Inv, NEW m \in mail, Gov!SubmitResult(Device, m[1], m[2]),
           mail' = mail \ {m}, UNCHANGED <<macVars, held, applied>>
    PROVE  Inv'
<1>1. m[1] \in Actions /\ m[2] \in ResultKinds /\ Answer(m)
  BY DEF Inv, Mail
<1>2. GovP!SubmitResult(Device, m[1], m[2])
  BY SameTable
<1>3. GovP!Next
  BY <1>1, <1>2 DEF GovP!Next
<1>4. GovP!Table' /\ TableStays
  BY <1>3, TableSteps DEF Inv, Parties
<1>5. \A b \in Actions :
         /\ action'[b].ttl = action[b].ttl
         /\ b # m[1] => action'[b] = action[b]
         /\ action[m[1]].status = "dispatched"
         /\ action'[m[1]].status = "succeeded" => m[2] \in ResultKinds \ {"failed"}
  BY <1>1, <1>2, Assumptions, GovP!SettledRow DEF Inv, Parties
<1>6. DeadlinesStay
  BY <1>5 DEF DeadlinesStay
<1>7. /\ MacP!Inv' /\ MacP!Errand' /\ RulesStay /\ FileStays
  BY MacSteps DEF Inv, Parties
<1>8. Holding'
  <2>1. agent' = agent BY DEF macVars
  <2> QED BY <1>4, <1>6, <2>1, HoldingStays DEF Inv, Holding
<1>9. Contained'
  BY <1>4, <1>6, <1>7, ContainedStays DEF Inv, Parties
<1>10. ASSUME NEW n \in mail PROVE Answer(n)'
  <2>1. n \in Actions \X ResultKinds /\ Answer(n)
    BY DEF Inv, Mail
  <2> QED BY <1>4, <1>7, <2>1, AnswerStays DEF Inv, Parties
<1>11. Free' <=> Free
  BY DEF macVars, Free, MacP!Blocked, MacP!Stranded
<1>12. ASSUME NEW a \in Actions \cap {held, applied}, IsRelease(a)',
              action'[a].status = "succeeded"
       PROVE  Free'
  <2>1. CASE a # m[1]
    <3>1. action'[a] = action[a] BY <1>5, <2>1
    <3> QED BY <1>11, <1>12, <3>1 DEF Inv, Recorded, IsRelease
  <2>2. CASE a = m[1]
    <3>1. action[a].count > 0 BY <1>1, <2>2 DEF Answer
    <3>2. IsRelease(a) BY <1>4, <1>12, <3>1 DEF TableStays, IsRelease
    <3>3. m[2] \in ResultKinds \ {"failed"} BY <1>5, <1>12, <2>2
    <3>4. m[2] \in Releasing
      BY <1>1, <2>2, <3>2, <3>3 DEF Answer, ResultKinds, Releasing
    <3> QED BY <1>1, <1>5, <1>11, <3>4 DEF Answer
  <2> QED BY <2>1, <2>2
<1>13. Recorded'
  <2>1. agent' = agent BY DEF macVars
  <2>2. applied' # None => action'[applied'].count > 0
    BY <1>4 DEF Inv, Recorded, TableStays
  <2> QED BY <1>12, <2>1, <2>2 DEF Inv, Recorded, IsRelease
<1> QED BY <1>4, <1>7, <1>8, <1>9, <1>10, <1>13, MailStays DEF Inv, Parties

\* The poll hands out the only live action of this Mac: whatever result the
\* table still waits for is one of the same action.
LEMMA PollKeeps == ASSUME Inv, Poll PROVE Inv'
<1>1. PICK a \in Actions :
        /\ GovP!Dispatchable(a, Device)
        /\ MacP!Receive(action[a].id.kind, action[a].ttl)
        /\ held' = a
  BY SameTable, SameMac DEF Poll
<1>2. QuietStep /\ GovP!PollDevice(Device) /\ applied' = applied /\ mail' = mail
  BY SameTable DEF Poll, QuietStep
<1>3. GovP!Table' /\ TableStays /\ DeadlinesStay /\ NoSuccess
  BY <1>2, QuietRests DEF Inv, Parties
<1>4. /\ action[a].id \in GovP!Identity /\ action[a].ttl \in Nat /\ action[a].count \in Nat
      /\ action[a].status \in {"approved", "dispatched"} /\ action[a].id.target = Device
  BY <1>1 DEF Inv, Parties, GovP!Table, GovP!TypeOK, GovP!Row, GovP!Exists, GovP!Dispatchable
<1>5. action[a].id.kind \in MacP!Kinds
  BY <1>4 DEF GovP!Identity, GovP!Kinds, MacP!Kinds
<1>6. action'[a] = GovP!MkRow("dispatched", action[a].id, action[a].reviewer, action[a].ttl,
                             action[a].count + 1, action[a].result)
  BY <1>1, <1>2 DEF GovP!PollDevice
<1>7. /\ action'[a].id = action[a].id /\ action'[a].ttl = action[a].ttl
      /\ action'[a].status = "dispatched" /\ action'[a].count = action[a].count + 1
  BY <1>6 DEF GovP!MkRow
<1>8. action'[a].count > 0
  BY <1>4, <1>7
<1>9. MacP!Inv'
  BY <1>1, <1>4, <1>5, Assumptions, MacP!StepKeeps DEF Inv, Parties
<1>10. /\ MacP!Errand' /\ agent.why = "run" /\ agent'.pc = "execute"
       /\ agent'.why = action[a].id.kind /\ agent'.ttl = action[a].ttl
       /\ anchor' = anchor /\ file' = file /\ (MacP!Stranded <=> MacP!Stranded')
  BY <1>1, <1>4, <1>5, Assumptions, MacP!ReceiveBrings DEF Inv, Parties
<1>11. held = None
  BY <1>10, ErrandKinds DEF Inv, Holding
<1>12. RulesStay /\ FileStays
  BY <1>10 DEF RulesStay, FileStays, MacP!Blocked
<1>13. None \notin Actions
  BY ActiveAssumption
<1>14. Holding'
  <2>1. agent'.ttl <= action'[a].ttl BY <1>4, <1>7, <1>10
  <2>2. agent'.why \in MacP!Kinds BY <1>5, <1>10
  <2> QED BY <1>1, <1>7, <1>8, <1>10, <1>13, <2>1, <2>2 DEF Holding, HandedOut
<1>15. Contained'
  BY <1>3, <1>12, ContainedStays DEF Inv, Parties
<1>16. ASSUME NEW m \in mail PROVE Answer(m)'
  <2>1. m \in Actions \X ResultKinds /\ m[1] \in Actions /\ Answer(m)
    BY DEF Inv, Mail
  <2>2. ASSUME action[m[1]].status = "dispatched" PROVE m[1] = a
    <3>1. action[m[1]].id \in GovP!Identity
      BY <2>1, <2>2 DEF Inv, Parties, GovP!Table, GovP!TypeOK, GovP!Row, GovP!Exists
    <3>2. action[m[1]].id.target = Device
      BY <3>1 DEF GovP!Identity
    <3> QED BY <1>4, <2>1, <2>2, <3>2
            DEF Inv, Parties, GovP!Table, GovP!OneLiveAction, GovP!IsLive, GovP!Live
  <2> QED BY <1>1, <1>3, <1>12, <2>1, <2>2, AnswerStays DEF Inv, Parties
<1>17. Recorded'
  <2>1. ASSUME NEW b \in Actions \cap {held', applied'}, IsRelease(b)',
               action'[b].status = "succeeded"
        PROVE  Free'
    <3>1. b = applied /\ b # None BY <1>1, <1>2, <1>7, <1>13, <2>1
    <3>2. action[b].count > 0 BY <3>1 DEF Inv, Recorded
    <3>3. IsRelease(b) /\ action[b].status = "succeeded"
      BY <1>3, <2>1, <3>2 DEF TableStays, NoSuccess, IsRelease
    <3>4. Free BY <2>1, <3>1, <3>3 DEF Inv, Recorded
    <3> QED BY <1>10, <3>4 DEF Free, MacP!Blocked
  <2>2. applied' # None => action'[applied'].count > 0
    BY <1>2, <1>3 DEF Inv, Recorded, TableStays
  <2> QED BY <1>2, <1>10, <2>1, <2>2 DEF Inv, Recorded, IsRelease
<1> QED BY <1>2, <1>3, <1>9, <1>10, <1>14, <1>15, <1>16, <1>17, MailStays DEF Inv, Parties

\* A tick keeps an order of deadlines.
LEMMA LessKeeps ==
    ASSUME NEW m \in Nat, NEW n \in Nat, m <= n
    PROVE  MacP!Less(m) <= IF n > 0 THEN n - 1 ELSE 0
  BY DEF MacP!Less

\* Time: the deadlines of the action, of the errand and of the state file
\* come nearer together.
LEMMA TickKeeps == ASSUME Inv, Tick PROVE Inv'
<1>1. GovP!Tick /\ MacP!Tick /\ UNCHANGED <<held, applied, mail>>
  BY SameMac, SameTable DEF Tick
<1>2. [GovP!Next]_(GovP!vars)
  BY <1>1 DEF GovP!Next
<1>3. GovP!Table' /\ TableStays
  BY <1>2, TableSteps DEF Inv, Parties
<1>4. \A a \in Actions :
         /\ action'[a].ttl = IF action[a].ttl > 0 THEN action[a].ttl - 1 ELSE 0
         /\ action'[a].status = action[a].status
  BY <1>1, Assumptions, GovP!TickRow DEF Inv, Parties
<1>5. MacP!Inv'
  BY <1>1, Assumptions, MacP!StepKeeps DEF Inv, Parties
<1>6. /\ MacP!Errand' /\ agent'.pc = agent.pc /\ agent'.why = agent.why
      /\ agent'.ttl = MacP!Less(agent.ttl)
      /\ anchor' = anchor /\ (MacP!Stranded <=> MacP!Stranded')
      /\ file' # NoFile => file # NoFile /\ file'.ttl = MacP!Less(file.ttl)
  BY <1>1, Assumptions, MacP!TickCarries DEF Inv, Parties
<1>7. RulesStay /\ NoSuccess
  BY <1>4, <1>6 DEF RulesStay, NoSuccess, MacP!Blocked
<1>8. \A a \in Actions : action[a].ttl \in Nat
  BY DEF Inv, Parties, GovP!Table, GovP!TypeOK, GovP!Row
<1>9. Holding'
  <2>1. CASE held = None
    BY <1>1, <1>6, <2>1 DEF Inv, Holding
  <2>2. CASE held # None
    <3>1. held \in Actions /\ HandedOut(held, agent.why) /\ agent.ttl <= action[held].ttl
      BY <2>2 DEF Inv, Holding
    <3>2. agent.ttl \in Nat
      BY DEF Inv, Parties, MacP!Inv, MacP!TypeOK, MacP!AgentState
    <3>3. agent'.ttl <= action'[held].ttl
      BY <1>4, <1>6, <1>8, <3>1, <3>2, LessKeeps
    <3>4. action'[held].count > 0 /\ action'[held].id.kind = agent.why
      BY <1>3, <3>1 DEF TableStays, HandedOut
    <3> QED BY <1>1, <1>6, <2>2, <3>1, <3>3, <3>4 DEF Inv, Holding, HandedOut
  <2> QED BY <2>1, <2>2
<1>10. Contained'
  <2>1. anchor' = "block" => \E a \in Actions : HandedOut(a, "isolate_endpoint")'
    BY <1>3, <1>6, HandedOutKept DEF Inv, Contained, MacP!Blocked
  <2>2. ASSUME file' # NoFile
        PROVE  \E a \in Actions :
                  HandedOut(a, "isolate_endpoint")' /\ file'.ttl <= action'[a].ttl
    <3>1. file # NoFile /\ file'.ttl = MacP!Less(file.ttl)
      BY <1>6, <2>2
    <3>2. PICK a \in Actions : HandedOut(a, "isolate_endpoint") /\ file.ttl <= action[a].ttl
      BY <3>1 DEF Inv, Contained, ContainmentWithinAction
    <3>3. file.ttl \in Nat
      BY <3>1 DEF Inv, Parties, MacP!Inv, MacP!TypeOK, MacP!FileState
    <3>4. file'.ttl <= action'[a].ttl
      BY <1>4, <1>8, <3>1, <3>2, <3>3, LessKeeps
    <3> QED BY <1>3, <3>2, <3>4, HandedOutKept
  <2> QED BY <2>1, <2>2 DEF Contained, ContainmentWithinAction, MacP!Blocked
<1>11. ASSUME NEW m \in mail PROVE Answer(m)'
  <2>1. m \in Actions \X ResultKinds /\ Answer(m)
    BY DEF Inv, Mail
  <2> QED BY <1>1, <1>3, <1>7, <2>1, AnswerStays DEF Inv, Parties
<1>12. Recorded'
  <2>1. held' # None /\ agent'.pc # "execute" => applied' = held'
    BY <1>1, <1>6 DEF Inv, Recorded
  <2> QED BY <1>1, <1>3, <1>7, <2>1, RecordedStays DEF Inv, Parties
<1> QED BY <1>1, <1>3, <1>5, <1>6, <1>9, <1>10, <1>11, <1>12, MailStays DEF Inv, Parties

----------------------------------------------------------------------------
\* The empty table and the Mac before its first run.
LEMMA InitInv == ASSUME Init PROVE Inv
<1>1. GovP!Init /\ MacP!Init /\ held = None /\ applied = None /\ mail = {}
  BY SameMac, SameTable DEF Init
<1>2. Parties
  BY <1>1, Assumptions, GovP!TableInit, MacP!InitKeeps, MacP!ErrandInit DEF Parties
<1>3. anchor = "empty" /\ file = NoFile /\ agent.why = "run"
  BY <1>1, Assumptions, MacP!Parts DEF MacP!Init, MacP!Idle
<1>4. None \notin Actions
  BY ActiveAssumption
<1>5. Holding
  BY <1>1, <1>3, ErrandKinds DEF Holding
<1>6. Contained
  BY <1>3 DEF Contained, ContainmentWithinAction, MacP!Blocked
<1>7. Mail /\ Recorded
  BY <1>1, <1>4 DEF Mail, Recorded
<1> QED BY <1>2, <1>5, <1>6, <1>7 DEF Inv

\* Every step keeps the invariant.
LEMMA NextKeeps == ASSUME Inv, [Next]_vars PROVE Inv'
<1>1. CASE Deliver
  <2>1. PICK m \in mail :
          /\ mail' = mail \ {m}
          /\ \/ Gov!SubmitResult(Device, m[1], m[2])
             \/ ~Gov!TakesResult(Device, m[1]) /\ UNCHANGED govVars
          /\ UNCHANGED <<macVars, held, applied>>
    BY <1>1 DEF Deliver
  <2>2. CASE Gov!SubmitResult(Device, m[1], m[2])
    BY <2>1, <2>2, ResultKeeps
  <2>3. CASE UNCHANGED govVars
    BY <2>1, <2>3, StillKeeps DEF QuietStep
  <2> QED BY <2>1, <2>2, <2>3
<1>2. CASE Lose \/ Govern \/ UNCHANGED vars
  <2>1. QuietStep /\ UNCHANGED <<macVars, held, applied>> /\ mail' \subseteq mail
    BY <1>2 DEF Lose, Govern, QuietStep, vars
  <2> QED BY <2>1, StillKeeps
<1> QED BY <1>1, <1>2, PollKeeps, NoPollKeeps, ExecuteKeeps, SubmitKeeps, RunKeeps,
           InterruptKeeps, TickKeeps DEF Next

\* The inductive invariant of the composition.
THEOREM Invariance == Spec => []Inv
<1>1. Init => Inv
  BY InitInv
<1>2. Inv /\ [Next]_vars => Inv'
  BY NextKeeps
<1> QED BY <1>1, <1>2, PTL DEF Spec

\* The firewall of the Mac blocks only while there is an isolate action for it
\* that a second human approved and that was handed out.
THEOREM OnlyAuthorizedContainment == Spec => []ContainmentAuthorized
<1>1. Inv => ContainmentAuthorized
  <2>1. ASSUME Inv, Mac!Blocked
        PROVE  \E a \in Actions :
                  /\ HandedOut(a, "isolate_endpoint")
                  /\ action[a].id.target = Device
                  /\ action[a].reviewer \in Users \ {action[a].id.proposer}
    <3>1. PICK a \in Actions : HandedOut(a, "isolate_endpoint")
      BY <2>1, SameRules DEF Inv, Contained
    <3>2. action[a].reviewer \in Users \ {action[a].id.proposer}
      BY <2>1, <3>1 DEF Inv, Parties, GovP!Table, GovP!IndependentApproval, HandedOut
    <3>3. action[a].id \in GovP!Identity
      <4>1. action[a].count # 0 BY <3>1 DEF HandedOut
      <4> QED BY <2>1, <4>1 DEF Inv, Parties, GovP!Table, GovP!TypeOK, GovP!Row,
                                GovP!Unissued, GovP!Exists
    <3>4. action[a].id.target = Device
      BY <3>3 DEF GovP!Identity
    <3> QED BY <3>1, <3>2, <3>4
  <2> QED BY <2>1 DEF ContainmentAuthorized
<1> QED BY <1>1, Invariance, PTL

\* The state file on the Mac expires no later than an isolate action that was
\* handed out, whatever was lost, delayed or restarted in between.
THEOREM ContainmentEndsWithAction == Spec => []ContainmentWithinAction
<1>1. Inv => ContainmentWithinAction
  BY DEF Inv, Contained
<1> QED BY <1>1, Invariance, PTL

\* When the last action of the Mac is a release that the control plane records
\* as succeeded, the Mac is not contained.
THEOREM ReleasesHold == Spec => []RecordedReleaseHolds
<1>1. Inv => RecordedReleaseHolds
  BY SameRules DEF Inv, Recorded, RecordedReleaseHolds, IsRelease, Free
<1> QED BY <1>1, Invariance, PTL

\* Seen from the control plane the composition is the governed table: lost polls,
\* late and refused results and the Mac's own steps show it nothing that
\* ResponseGovernance does not allow, so its theorems hold here too.
THEOREM TableIsGoverned == Spec => Gov!Spec
<1>1. Init => Gov!Init
  BY DEF Init
<1>2. Inv /\ [Next]_vars => [Gov!Next]_(Gov!vars)
  <2> SUFFICES ASSUME Inv, [Next]_vars PROVE Gov!Next \/ UNCHANGED Gov!vars
    OBVIOUS
  <2>1. CASE UNCHANGED govVars
    BY <2>1 DEF govVars, Gov!vars
  <2>2. CASE Poll \/ PollLost
    BY <2>2 DEF Poll, PollLost, Gov!Next
  <2>3. CASE Deliver
    <3>1. ASSUME NEW m \in mail, Gov!SubmitResult(Device, m[1], m[2]) PROVE Gov!Next
      <4>1. m[1] \in Actions /\ m[2] \in ResultKinds
        BY DEF Inv, Mail
      <4> QED BY <3>1, <4>1 DEF Gov!Next
    <3> QED BY <2>1, <2>3, <3>1 DEF Deliver
  <2>4. CASE Govern
    BY <2>4 DEF Govern, Gov!Next
  <2>5. CASE Tick
    BY <2>5 DEF Tick, Gov!Next
  <2> QED BY <2>1, <2>2, <2>3, <2>4, <2>5
          DEF Next, vars, NoPoll, Execute, Submit, Lose, Run, Interrupt
<1> QED BY <1>1, <1>2, Invariance, PTL DEF Spec, Gov!Spec
=============================================================================
