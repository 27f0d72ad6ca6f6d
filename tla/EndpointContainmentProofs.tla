---------------------- MODULE EndpointContainmentProofs ----------------------
(***************************************************************************)
(* Proofs about EndpointContainment.  ContainmentOwned and ReportHonest    *)
(* are not inductive: both depend on where in the application, rollback or *)
(* release of the rules the process is, and on how many failures it took   *)
(* to get there.  Position says so.                                        *)
(***************************************************************************)
EXTENDS EndpointContainment, FiniteSetTheorems, TLAPS

Disturbed == faults > 0 \/ crashes > 0 \/ reboots > 0

\* The rules are loaded when their state is written, gone once a release or a
\* rollback has flushed them; each step of a rollback has cost a failure; and
\* while nothing has failed the state file stands for loaded rules and a token
\* that pf still knows.
Position ==
    /\ At("save") => Blocked
    /\ agent.pc \in {"unref", "delete", "rollunref", "discard"} => ~Blocked
    /\ agent.pc \in {"rollflush", "rollunref", "discard", "preserve"} => faults >= 1
    /\ At("rollunref2") => faults >= 2
    /\ At("preserve") /\ Blocked => faults >= 2
    /\ agent.pc \in {"load", "save"} => agent.token \in refs
    /\ file # NoFile =>
        \/ Disturbed
        \/ /\ file.token \in refs \/ At("delete")
           /\ Blocked \/ agent.pc \in {"unref", "delete"}

Safe == ContainmentOwned /\ ReportHonest /\ Position

----------------------------------------------------------------------------
(* The process *)

\* A process put together from parts of the right types has the right type.
LEMMA MadeAgent ==
    ASSUME NEW pc \in Pcs, NEW why \in Whys, NEW ttl \in Nat, NEW expiry \in Nat,
           NEW token \in Tokens \cup {NoToken}, NEW out \in Outcomes
    PROVE  /\ MkAgent(pc, why, ttl, expiry, token, out) \in AgentState
           /\ MkAgent(pc, why, ttl, expiry, token, out).pc = pc
           /\ MkAgent(pc, why, ttl, expiry, token, out).token = token
  BY DEF MkAgent, AgentState

\* The process that does not run.
LEMMA IdleAgent == Idle \in AgentState /\ Idle.pc = "idle"
<1>1. /\ "idle" \in Pcs
      /\ "run" \in Whys
      /\ "none" \in Outcomes
      /\ NoToken \in Tokens \cup {NoToken}
  BY DEF Pcs, Whys, Outcomes
<1> QED BY <1>1, MadeAgent DEF Idle

\* Going on with another step keeps the other variables of the process.
LEMMA Going ==
    ASSUME agent \in AgentState, NEW pc \in Pcs, Go(pc)
    PROVE  agent' \in AgentState /\ agent'.pc = pc /\ agent'.token = agent.token
  BY DEF Go, AgentState

\* Reporting ends in the report step.
LEMMA Reporting ==
    ASSUME agent \in AgentState, NEW out \in Outcomes, Report(out)
    PROVE  agent' \in AgentState /\ agent'.pc = "report" /\ agent'.out = out
<1>1. agent.why \in Whys /\ agent.ttl \in Nat
  BY DEF AgentState
<1>2. "report" \in Pcs /\ 0 \in Nat /\ NoToken \in Tokens \cup {NoToken}
  BY DEF Pcs
<1>3. agent' = MkAgent("report", agent.why, agent.ttl, 0, NoToken, out)
  BY DEF Report
<1>4. agent'.out = out
  BY <1>3 DEF MkAgent
<1>5. /\ MkAgent("report", agent.why, agent.ttl, 0, NoToken, out) \in AgentState
      /\ MkAgent("report", agent.why, agent.ttl, 0, NoToken, out).pc = "report"
  BY <1>1, <1>2 DEF MkAgent, AgentState
<1> QED BY <1>3, <1>4, <1>5

\* Where a release returns to: only a release that succeeded is reported as one.
LEMMA Returning ==
    ASSUME agent \in AgentState, NEW ok \in BOOLEAN, AfterRelease(ok)
    PROVE  /\ agent' \in AgentState
           /\ agent'.pc \in {"collect", "idle", "enable", "report"}
           /\ agent'.pc = "report" => agent'.out \in {"released", "failed"}
           /\ agent'.pc = "report" /\ ~ok => agent'.out = "failed"
<1>1. /\ {"enable", "collect"} \subseteq Pcs
      /\ {"released", "failed", "none"} \subseteq Outcomes
      /\ "run" \in Whys
  BY DEF Pcs, Outcomes, Whys
<1>2. CASE agent' = MkAgent("collect", "run", 0, 0, NoToken, "none")
  BY <1>1, <1>2, MadeAgent
<1>3. CASE agent' = Idle
  BY <1>3, IdleAgent
<1>4. CASE Report(IF ok THEN "released" ELSE "failed")
  <2>1. CASE ok
    BY <1>1, <1>4, <2>1, Reporting
  <2>2. CASE ~ok
    BY <1>1, <1>4, <2>2, Reporting
  <2> QED BY <2>1, <2>2
<1>5. CASE Go("enable")
  BY <1>1, <1>5, Going
<1>6. CASE ~ok /\ Report("failed")
  BY <1>1, <1>6, Reporting
<1> QED BY <1>2, <1>3, <1>4, <1>5, <1>6 DEF AfterRelease

----------------------------------------------------------------------------
(* Steps that do not touch the rules *)

Inv == TypeOK /\ Safe

rest == <<anchor, refs, file, faults, escapes, reboots>>

\* Program counters at which nothing is under way.
Calm == {"idle", "rotate", "reconcile", "collect", "poll", "execute", "enable", "flush"}

\* A process that goes from one calm place to another keeps the invariant.
LEMMA CalmStep ==
    ASSUME Inv, UNCHANGED <<rest, crashes>>, launchd' \in {"loaded", "unloaded"},
           agent.pc \in Calm \cup {"report"}, agent' \in AgentState, agent'.pc \in Calm,
           agent'.pc = "flush" => file # NoFile
    PROVE  Inv'
<1>1. TypeOK'
  BY DEF Inv, TypeOK, rest, At, Calm, Applying
<1>2. ContainmentOwned'
  BY DEF Inv, Safe, ContainmentOwned, rest, Blocked, Stranded, Calm, Applying
<1>3. ReportHonest'
  BY DEF ReportHonest, At, Calm
<1>4. Position'
  BY DEF Inv, Safe, Position, rest, Blocked, Disturbed, At, Calm
<1> QED BY <1>1, <1>2, <1>3, <1>4 DEF Inv, Safe

\* So does one that dies, or is stopped, anywhere.
LEMMA DeathStep ==
    ASSUME Inv, UNCHANGED rest, crashes' = crashes + 1, launchd' \in {"loaded", "unloaded"},
           agent' \in AgentState, agent'.pc \in {"idle", "flush"},
           agent'.pc = "flush" => file # NoFile
    PROVE  Inv'
<1>1. TypeOK'
  BY DEF Inv, TypeOK, rest, At, Applying
<1>2. crashes' > 0
  BY DEF Inv, TypeOK
<1>3. ContainmentOwned'
  BY <1>2 DEF ContainmentOwned, Stranded
<1>4. ReportHonest'
  BY DEF ReportHonest, At
<1>5. Position'
  BY <1>2 DEF Position, Disturbed, At
<1> QED BY <1>1, <1>3, <1>4, <1>5 DEF Inv, Safe

\* A report about an action that changed nothing is honest.
LEMMA PassiveReport ==
    ASSUME Inv, UNCHANGED <<rest, launchd, crashes>>, agent.pc \in {"execute", "enable"},
           agent' \in AgentState, agent'.pc = "report",
           \/ agent'.out = "failed"
           \/ agent'.out = "already released" /\ file = NoFile
           \/ agent'.out = "already isolated" /\ file # NoFile
    PROVE  Inv'
<1>1. TypeOK'
  BY DEF Inv, TypeOK, rest, At, Applying
<1>2. ContainmentOwned'
  BY DEF Inv, Safe, ContainmentOwned, rest, Blocked, Stranded, Applying
<1>3. Blocked => file # NoFile \/ Stranded
  BY DEF Inv, Safe, ContainmentOwned, Applying
<1>4. file # NoFile => Disturbed \/ Blocked
  BY DEF Inv, Safe, Position
<1>5. ReportHonest'
  BY <1>3, <1>4 DEF ReportHonest, At, rest, Blocked, Stranded, Disturbed
<1>6. Position'
  BY DEF Inv, Safe, Position, rest, Blocked, Disturbed, At
<1> QED BY <1>1, <1>2, <1>5, <1>6 DEF Inv, Safe

\* The collector's run up to the poll, the end of a run and agent-activate.
LEMMA RunStep ==
    ASSUME Inv,
           \/ StartRun \/ Rotate \/ Reconcile \/ Collect \/ PollNothing \/ Submit \/ Reactivate
           \/ \E k \in Kinds, t \in Nat : Receive(k, t)
    PROVE  Inv'
<1>1. agent \in AgentState /\ launchd \in {"loaded", "unloaded"}
  BY DEF Inv, TypeOK
<1>2. /\ {"rotate", "reconcile", "poll", "flush", "collect", "execute"} \subseteq Pcs
      /\ {"run", "reconcile"} \subseteq Whys /\ Kinds \subseteq Whys
      /\ "none" \in Outcomes
      /\ NoToken \in Tokens \cup {NoToken}
  BY DEF Pcs, Whys, Outcomes
<1>3. CASE StartRun
  BY <1>1, <1>2, <1>3, Going, CalmStep DEF StartRun, At, rest, world, Calm
<1>4. CASE Rotate
  BY <1>1, <1>2, <1>4, Going, IdleAgent, CalmStep DEF Rotate, At, rest, world, Calm
<1>5. CASE Collect
  BY <1>1, <1>2, <1>5, Going, IdleAgent, CalmStep DEF Collect, At, rest, world, Calm
<1>6. CASE PollNothing
  BY <1>1, <1>6, IdleAgent, CalmStep DEF PollNothing, At, rest, world, Calm
<1>7. CASE Submit
  BY <1>1, <1>7, IdleAgent, CalmStep DEF Submit, At, rest, world, Calm
<1>8. CASE Reactivate
  BY <1>1, <1>8, CalmStep DEF Reactivate, At, rest, Calm
<1>9. CASE Reconcile
  <2>1. /\ agent' \in AgentState
        /\ agent'.pc \in {"collect", "flush"}
        /\ agent'.pc = "flush" => file # NoFile
    <3>1. CASE Overdue
      BY <1>2, <1>9, <3>1, MadeAgent DEF Reconcile, Overdue
    <3>2. CASE ~Overdue
      <4>1. agent' = MkAgent("collect", "run", 0, 0, NoToken, "none")
        BY <1>9, <3>2 DEF Reconcile
      <4>2. agent' \in AgentState
        BY <1>2, <4>1 DEF MkAgent, AgentState
      <4>3. agent'.pc = "collect"
        BY <4>1 DEF MkAgent
      <4> QED BY <4>2, <4>3
    <3> QED BY <3>1, <3>2
  <2> QED BY <1>1, <1>9, <2>1, CalmStep DEF Reconcile, At, rest, world, Calm
<1>10. ASSUME NEW k \in Kinds, NEW t \in Nat, Receive(k, t) PROVE Inv'
  <2>1. agent' \in AgentState /\ agent'.pc = "execute"
    BY <1>1, <1>2, <1>10, MadeAgent DEF Receive
  <2> QED BY <1>1, <1>10, <2>1, CalmStep DEF Receive, At, rest, world, Calm
<1> QED BY <1>3, <1>4, <1>5, <1>6, <1>7, <1>8, <1>9, <1>10

\* MacOSPfResponseAdapter.execute up to its first command.
LEMMA ExecuteStep ==
    ASSUME Inv, Execute PROVE Inv'
<1>1. agent \in AgentState /\ launchd \in {"loaded", "unloaded"}
  BY DEF Inv, TypeOK
<1>2. /\ {"flush", "enable"} \subseteq Pcs
      /\ {"failed", "already isolated", "already released", "none"} \subseteq Outcomes
      /\ NoToken \in Tokens \cup {NoToken}
  BY DEF Pcs, Outcomes
<1>3. agent.why \in Whys /\ agent.ttl \in Nat /\ Smaller(agent.ttl, Cap) \in Nat
  BY <1>1, EndpointAssumption DEF AgentState, Smaller
<1>4. At("execute") /\ UNCHANGED <<rest, launchd, crashes>>
  BY DEF Execute, rest, world
<1>5. CASE \/ Report("failed")
           \/ file # NoFile /\ Report("already isolated")
           \/ file = NoFile /\ Report("already released")
  BY <1>1, <1>2, <1>4, <1>5, Reporting, PassiveReport DEF At
<1>6. CASE file # NoFile /\ Go("flush")
  BY <1>1, <1>2, <1>4, <1>6, Going, CalmStep DEF At, Calm
<1>7. CASE agent' = MkAgent(IF Overdue THEN "flush" ELSE "enable", agent.why, agent.ttl,
                            Smaller(agent.ttl, Cap), NoToken, "none")
  <2>1. CASE Overdue
    <3>1. agent' = MkAgent("flush", agent.why, agent.ttl, Smaller(agent.ttl, Cap), NoToken,
                           "none")
      BY <1>7, <2>1
    <3>2. agent' \in AgentState /\ agent'.pc = "flush"
      BY <1>2, <1>3, <3>1 DEF MkAgent, AgentState
    <3> QED BY <1>1, <1>4, <2>1, <3>2, CalmStep DEF At, Calm, Overdue
  <2>2. CASE ~Overdue
    <3>1. agent' = MkAgent("enable", agent.why, agent.ttl, Smaller(agent.ttl, Cap), NoToken,
                           "none")
      BY <1>7, <2>2
    <3>2. agent' \in AgentState /\ agent'.pc = "enable"
      BY <1>2, <1>3, <3>1 DEF MkAgent, AgentState
    <3> QED BY <1>1, <1>4, <3>2, CalmStep DEF At, Calm
  <2> QED BY <2>1, <2>2
<1> QED BY <1>5, <1>6, <1>7 DEF Execute

\* Crashes, and the recovery command.
LEMMA StopStep ==
    ASSUME Inv, Recover \/ Crash PROVE Inv'
<1>1. agent \in AgentState /\ launchd \in {"loaded", "unloaded"}
  BY DEF Inv, TypeOK
<1>2. /\ "flush" \in Pcs /\ "recovery" \in Whys /\ "none" \in Outcomes
      /\ NoToken \in Tokens \cup {NoToken}
  BY DEF Pcs, Whys, Outcomes
<1>3. CASE Crash
  BY <1>1, <1>3, IdleAgent, DeathStep DEF Crash, rest
<1>4. CASE Recover
  <2>1. /\ agent' \in AgentState
        /\ agent'.pc \in {"idle", "flush"}
        /\ agent'.pc = "flush" => file # NoFile
    <3>1. CASE file = NoFile
      <4>1. agent' = Idle
        BY <1>4, <3>1 DEF Recover
      <4>2. Idle.pc = "idle" /\ Idle \in AgentState
        BY IdleAgent
      <4> QED BY <4>1, <4>2
    <3>2. CASE file # NoFile
      BY <1>2, <1>4, <3>2, MadeAgent DEF Recover
    <3> QED BY <3>1, <3>2
  <2>2. UNCHANGED rest /\ launchd' \in {"loaded", "unloaded"}
    BY <1>4 DEF Recover, rest
  <2>3. CASE At("idle") /\ UNCHANGED crashes
    BY <2>1, <2>2, <2>3, CalmStep DEF At, Calm
  <2>4. CASE crashes' = crashes + 1
    BY <2>1, <2>2, <2>4, DeathStep
  <2> QED BY <1>4, <2>3, <2>4 DEF Recover
<1> QED BY <1>3, <1>4

----------------------------------------------------------------------------
(* Steps that apply, roll back and release the rules *)

\* The counters are numbers, and the process has its type.
LEMMA Numbers ==
    ASSUME Inv
    PROVE  /\ faults \in Nat /\ escapes \in Nat /\ crashes \in Nat /\ reboots \in Nat
           /\ agent \in AgentState
  BY DEF Inv, TypeOK

\* pf hands out a token that it does not hold.
LEMMA TokenIsNew ==
    ASSUME Tokens \ refs # {}
    PROVE  NewToken \in Tokens /\ NewToken \notin refs
  BY DEF NewToken

\* A restart of the Mac clears the rules and the references.
LEMMA RebootStep ==
    ASSUME Inv, Reboot PROVE Inv'
<1>1. /\ agent' \in AgentState /\ agent'.pc = "idle"
      /\ anchor' = "empty" /\ refs' = {} /\ reboots' = reboots + 1
      /\ UNCHANGED <<file, launchd, faults, escapes, crashes>>
  BY IdleAgent DEF Reboot
<1>2. reboots' > 0
  BY <1>1, Numbers
<1>3. TypeOK'
  BY <1>1 DEF Inv, TypeOK, At, Applying
<1>4. ContainmentOwned'
  BY <1>1 DEF ContainmentOwned, Blocked
<1>5. ReportHonest'
  BY <1>1 DEF ReportHonest, At
<1>6. Position'
  BY <1>1, <1>2 DEF Position, Disturbed, Blocked, At
<1> QED BY <1>3, <1>4, <1>5, <1>6 DEF Inv, Safe

\* pfctl -E.
LEMMA EnableStep ==
    ASSUME Inv, Enable PROVE Inv'
<1>1. /\ "load" \in Pcs /\ "failed" \in Outcomes /\ "none" \in Outcomes
      /\ At("enable") /\ UNCHANGED <<anchor, file, launchd, escapes, crashes, reboots>>
  BY DEF Pcs, Outcomes, Enable, world
<1>2. agent.why \in Whys /\ agent.ttl \in Nat /\ agent.expiry \in Nat /\ refs \subseteq Tokens
  BY DEF Inv, TypeOK, AgentState
<1>3. /\ agent' \in AgentState /\ refs \subseteq refs' /\ refs' \subseteq Tokens
      /\ \/ agent'.pc = "report" /\ agent'.out = "failed"
         \/ agent'.pc = "load" /\ agent'.token \in Tokens /\ agent'.token \in refs'
      /\ faults' \in {faults, faults + 1}
  <2>1. CASE Report("failed") /\ UNCHANGED <<refs, faults>>
    BY <1>1, <1>2, <2>1, Numbers, Reporting
  <2>2. CASE /\ Tokens \ refs # {}
             /\ refs' = refs \cup {NewToken}
             /\ agent' = MkAgent("load", agent.why, agent.ttl, agent.expiry, NewToken, "none")
             /\ UNCHANGED faults
    <3>1. NewToken \in Tokens
      BY <2>2, TokenIsNew
    <3>2. agent' \in AgentState
      BY <1>1, <1>2, <2>2, <3>1 DEF MkAgent, AgentState
    <3>3. agent'.pc = "load" /\ agent'.token = NewToken
      BY <2>2 DEF MkAgent
    <3> QED BY <1>2, <2>2, <3>1, <3>2, <3>3
  <2>3. CASE /\ Fault
             /\ Report("failed")
             /\ UNCHANGED refs \/ (Tokens \ refs # {} /\ refs' = refs \cup {NewToken})
    BY <1>1, <1>2, <2>3, Numbers, Reporting, TokenIsNew DEF Fault
  <2> QED BY <2>1, <2>2, <2>3 DEF Enable
<1>4. TypeOK'
  BY <1>1, <1>3, Numbers DEF Inv, TypeOK, At, Applying
<1>5. ContainmentOwned'
  BY <1>1, <1>3, Numbers DEF Inv, Safe, ContainmentOwned, Blocked, Stranded, At, Applying
<1>6. ReportHonest'
  BY <1>3 DEF ReportHonest, At
<1>7. Position'
  BY <1>1, <1>3, Numbers DEF Inv, Safe, Position, Disturbed, Blocked, At
<1> QED BY <1>4, <1>5, <1>6, <1>7 DEF Inv, Safe

\* pfctl -f.
LEMMA LoadStep ==
    ASSUME Inv, Load PROVE Inv'
<1>1. /\ {"save", "rollflush"} \subseteq Pcs
      /\ At("load") /\ UNCHANGED <<refs, file, launchd, escapes, crashes, reboots>>
  BY DEF Pcs, Applying, Load, world
<1>2. /\ agent' \in AgentState /\ agent'.token = agent.token
      /\ anchor' \in {anchor, "block"}
      /\ \/ agent'.pc = "save" /\ anchor' = "block" /\ faults' = faults
         \/ agent'.pc = "rollflush" /\ faults' = faults + 1
  BY <1>1, Numbers, Going DEF Load, Fault
<1>3. TypeOK'
  BY <1>1, <1>2, Numbers DEF Inv, TypeOK, At, Applying
<1>4. ContainmentOwned'
  BY <1>2 DEF ContainmentOwned, Applying
<1>5. ReportHonest'
  BY <1>2 DEF ReportHonest, At
<1>6. Position'
  BY <1>1, <1>2, Numbers DEF Inv, Safe, Position, Disturbed, Blocked, At
<1> QED BY <1>3, <1>4, <1>5, <1>6 DEF Inv, Safe

\* Writing the state file.
LEMMA SaveStep ==
    ASSUME Inv, Save PROVE Inv'
<1> DEFINE new == MkFile(agent.token, agent.expiry)
<1>1. /\ "rollflush" \in Pcs /\ "isolated" \in Outcomes
      /\ At("save") /\ UNCHANGED <<anchor, refs, launchd, crashes, reboots>>
  BY DEF Pcs, Applying, Outcomes, Save
<1>2. new \in FileState /\ new # NoFile /\ new.token = agent.token
  BY <1>1, NoFileAssumption DEF Inv, TypeOK, At, Applying, AgentState, FileState, MkFile
<1> HIDE DEF new
<1>3. /\ agent' \in AgentState
      /\ \/ /\ agent'.pc = "report" /\ agent'.out = "isolated" /\ file' = new
            /\ UNCHANGED <<faults, escapes>>
         \/ /\ agent'.pc = "rollflush" /\ agent'.token = agent.token /\ file' \in {file, new}
            /\ faults' = faults + 1 /\ UNCHANGED escapes
         \/ /\ agent'.pc = "idle" /\ escapes' = escapes + 1 /\ UNCHANGED <<file, faults>>
  BY <1>1, Numbers, Going, Reporting, IdleAgent DEF Save, Escape, Fault, new
<1>4. Blocked /\ agent.token \in refs
  BY <1>1 DEF Inv, Safe, Position, At
<1>5. TypeOK'
  BY <1>1, <1>2, <1>3, Numbers DEF Inv, TypeOK, At, Applying
<1>6. ContainmentOwned'
  BY <1>2, <1>3, Numbers DEF ContainmentOwned, Stranded, Applying
<1>7. ReportHonest'
  BY <1>1, <1>3, <1>4 DEF ReportHonest, At, Blocked
<1>8. Position'
  BY <1>1, <1>2, <1>3, <1>4, Numbers DEF Inv, Safe, Position, Disturbed, Blocked, At
<1> QED BY <1>5, <1>6, <1>7, <1>8 DEF Inv, Safe

\* The first command of the rollback.
LEMMA RollFlushStep ==
    ASSUME Inv, RollFlush PROVE Inv'
<1>1. /\ {"rollunref", "rollunref2"} \subseteq Pcs
      /\ At("rollflush") /\ UNCHANGED <<refs, file, launchd, escapes, crashes, reboots>>
  BY DEF Pcs, Applying, RollFlush, world
<1>2. /\ agent' \in AgentState /\ agent'.token = agent.token
      /\ anchor' \in {anchor, "empty"}
      /\ \/ agent'.pc = "rollunref" /\ anchor' = "empty" /\ faults' = faults
         \/ agent'.pc = "rollunref2" /\ faults' = faults + 1
  BY <1>1, Numbers, Going DEF RollFlush, Fault
<1>3. faults >= 1
  BY <1>1 DEF Inv, Safe, Position, At
<1>4. TypeOK'
  BY <1>1, <1>2, Numbers DEF Inv, TypeOK, At, Applying
<1>5. ContainmentOwned'
  BY <1>2 DEF ContainmentOwned, Applying
<1>6. ReportHonest'
  BY <1>2 DEF ReportHonest, At
<1>7. Position'
  BY <1>1, <1>2, <1>3, Numbers DEF Position, Disturbed, Blocked, At
<1> QED BY <1>4, <1>5, <1>6, <1>7 DEF Inv, Safe

\* The second command of the rollback.
LEMMA RollUnrefStep ==
    ASSUME Inv, RollUnref PROVE Inv'
<1>1. /\ {"discard", "preserve"} \subseteq Pcs
      /\ At("rollunref") \/ At("rollunref2")
      /\ UNCHANGED <<anchor, file, launchd, escapes, crashes, reboots>>
  BY DEF Pcs, Applying, RollUnref, world
<1>2. /\ agent' \in AgentState /\ agent'.token = agent.token
      /\ refs' \in {refs, refs \ {agent.token}}
      /\ faults' \in {faults, faults + 1}
      /\ \/ agent'.pc = "discard" /\ At("rollunref")
         \/ agent'.pc = "preserve"
  BY <1>1, Numbers, Going DEF RollUnref, Fault
<1>3. /\ faults >= 1
      /\ At("rollunref") => ~Blocked
      /\ At("rollunref2") => faults >= 2
  BY <1>1, Numbers DEF Inv, Safe, Position, At
<1>4. TypeOK'
  BY <1>1, <1>2, Numbers DEF Inv, TypeOK, At, Applying
<1>5. ContainmentOwned'
  BY <1>2 DEF ContainmentOwned, Applying
<1>6. ReportHonest'
  BY <1>2 DEF ReportHonest, At
<1>7. Position'
  BY <1>1, <1>2, <1>3, Numbers DEF Position, Disturbed, Blocked, At
<1> QED BY <1>4, <1>5, <1>6, <1>7 DEF Inv, Safe

\* _discard_failed_state, after a rollback that removed the rules.
LEMMA DiscardStep ==
    ASSUME Inv, Discard PROVE Inv'
<1>1. /\ "failed" \in Outcomes
      /\ At("discard") /\ UNCHANGED <<anchor, refs, launchd, escapes, crashes, reboots>>
  BY DEF Outcomes, Discard, world
<1>2. /\ agent' \in AgentState /\ agent'.pc = "report" /\ agent'.out = "failed"
      /\ file' \in {file, NoFile} /\ faults' \in {faults, faults + 1}
  BY <1>1, Numbers, Reporting DEF Discard, Fault
<1>3. faults >= 1 /\ ~Blocked
  BY <1>1 DEF Inv, Safe, Position, At
<1>4. TypeOK'
  BY <1>1, <1>2, Numbers DEF Inv, TypeOK, At, Applying
<1>5. ContainmentOwned'
  BY <1>1, <1>3 DEF ContainmentOwned, Blocked
<1>6. ReportHonest'
  BY <1>2 DEF ReportHonest, At
<1>7. Position'
  BY <1>1, <1>2, <1>3, Numbers DEF Position, Disturbed, Blocked, At
<1> QED BY <1>4, <1>5, <1>6, <1>7 DEF Inv, Safe

\* _preserve_failed_rollback: three failures, or an exception nobody handles,
\* are needed to lose the token of rules that are still loaded.
LEMMA PreserveStep ==
    ASSUME Inv, Preserve PROVE Inv'
<1> DEFINE new == MkFile(agent.token, agent.expiry)
<1>1. /\ "failed" \in Outcomes
      /\ At("preserve") /\ UNCHANGED <<anchor, refs, launchd, crashes, reboots>>
  BY DEF Outcomes, Preserve
<1>2. new \in FileState /\ new # NoFile
  BY <1>1, NoFileAssumption DEF Inv, TypeOK, At, Applying, AgentState, FileState, MkFile
<1> HIDE DEF new
<1>3. /\ agent' \in AgentState
      /\ \/ /\ agent'.pc = "report" /\ agent'.out = "failed"
            /\ file' \in {file, new} /\ file' # NoFile /\ UNCHANGED <<faults, escapes>>
         \/ /\ agent'.pc = "report" /\ agent'.out = "failed"
            /\ faults' = faults + 1 /\ UNCHANGED <<file, escapes>>
         \/ agent'.pc = "idle" /\ escapes' = escapes + 1 /\ UNCHANGED <<file, faults>>
  BY <1>1, <1>2, Numbers, Reporting, IdleAgent DEF Preserve, Escape, Fault, new
<1>4. faults >= 1 /\ (Blocked => faults >= 2)
  BY <1>1 DEF Inv, Safe, Position, At
<1>5. TypeOK'
  BY <1>1, <1>2, <1>3, Numbers DEF Inv, TypeOK, At, Applying
<1>6. ContainmentOwned'
  BY <1>1, <1>3, <1>4, Numbers DEF ContainmentOwned, Stranded, Blocked
<1>7. ReportHonest'
  BY <1>3 DEF ReportHonest, At
<1>8. Position'
  BY <1>1, <1>3, <1>4, Numbers DEF Position, Disturbed, Blocked, At
<1> QED BY <1>5, <1>6, <1>7, <1>8 DEF Inv, Safe

\* The first command of a release.
LEMMA FlushStep ==
    ASSUME Inv, Flush PROVE Inv'
<1>1. /\ "unref" \in Pcs
      /\ At("flush") /\ UNCHANGED <<refs, file, launchd, escapes, crashes, reboots>>
      /\ file # NoFile
  BY DEF Pcs, Flush, world, Inv, TypeOK
<1>2. /\ agent' \in AgentState
      /\ anchor' \in {anchor, "empty"}
      /\ \/ agent'.pc = "unref" /\ anchor' = "empty" /\ faults' = faults
         \/ /\ faults' = faults + 1
            /\ agent'.pc \in {"collect", "idle", "enable", "report"}
            /\ agent'.pc = "report" => agent'.out = "failed"
  BY <1>1, Numbers, Going, Returning DEF Flush, Fault
<1>3. TypeOK'
  BY <1>1, <1>2, Numbers DEF Inv, TypeOK, At, Applying
<1>4. ContainmentOwned'
  BY <1>1 DEF ContainmentOwned
<1>5. ReportHonest'
  BY <1>2 DEF ReportHonest, At
<1>6. Position'
  BY <1>1, <1>2, Numbers DEF Inv, Safe, Position, Disturbed, Blocked, At
<1> QED BY <1>3, <1>4, <1>5, <1>6 DEF Inv, Safe

\* The second command of a release, which may meet a token that pf has lost.
LEMMA UnrefStep ==
    ASSUME Inv, Unref PROVE Inv'
<1>1. /\ "delete" \in Pcs
      /\ At("unref") /\ UNCHANGED <<anchor, file, launchd, escapes, crashes, reboots>>
      /\ file # NoFile
  BY DEF Pcs, Unref, world, Inv, TypeOK
<1>2. /\ agent' \in AgentState
      /\ refs' \in {refs, refs \ {file.token}}
      /\ \/ agent'.pc = "delete" /\ faults' = faults
         \/ /\ faults' = faults + 1 \/ (faults' = faults /\ file.token \notin refs)
            /\ agent'.pc \in {"collect", "idle", "enable", "report"}
            /\ agent'.pc = "report" => agent'.out = "failed"
  BY <1>1, Numbers, Going, Returning DEF Unref, Fault
<1>3. ~Blocked /\ (Disturbed \/ file.token \in refs)
  BY <1>1 DEF Inv, Safe, Position, At
<1>4. TypeOK'
  BY <1>1, <1>2, Numbers DEF Inv, TypeOK, At, Applying
<1>5. ContainmentOwned'
  BY <1>1 DEF ContainmentOwned
<1>6. ReportHonest'
  BY <1>2 DEF ReportHonest, At
<1>7. Position'
  BY <1>1, <1>2, <1>3, Numbers DEF Position, Disturbed, Blocked, At
<1> QED BY <1>4, <1>5, <1>6, <1>7 DEF Inv, Safe

\* The state file goes last, when the rules are gone.
LEMMA DeleteStep ==
    ASSUME Inv, Delete PROVE Inv'
<1>1. /\ At("delete") /\ UNCHANGED <<anchor, refs, launchd, escapes, crashes, reboots>>
      /\ file # NoFile
  BY DEF Delete, world, Inv, TypeOK
<1>2. /\ agent' \in AgentState
      /\ agent'.pc \in {"collect", "idle", "enable", "report"}
      /\ agent'.pc = "report" => agent'.out \in {"released", "failed"}
      /\ \/ file' = NoFile /\ faults' = faults
         \/ file' = file /\ faults' = faults + 1
  BY <1>1, Numbers, Returning DEF Delete, Fault
<1>3. ~Blocked
  BY <1>1 DEF Inv, Safe, Position, At
<1>4. TypeOK'
  BY <1>1, <1>2, Numbers DEF Inv, TypeOK, At, Applying
<1>5. ContainmentOwned'
  BY <1>1, <1>3 DEF ContainmentOwned, Blocked
<1>6. ReportHonest'
  BY <1>1, <1>2, <1>3 DEF ReportHonest, At, Blocked
<1>7. Position'
  BY <1>1, <1>2, <1>3, Numbers DEF Position, Disturbed, Blocked, At
<1> QED BY <1>4, <1>5, <1>6, <1>7 DEF Inv, Safe

\* Time changes deadlines only.
LEMMA TickStep ==
    ASSUME Inv, Tick PROVE Inv'
<1>1. UNCHANGED <<anchor, refs, launchd, faults, escapes, crashes, reboots>>
  BY DEF Tick, world
<1>2. agent' = MkAgent(agent.pc, agent.why, Less(agent.ttl), Less(agent.expiry), agent.token,
                       agent.out)
  BY DEF Tick
<1>3. Less(agent.ttl) \in Nat /\ Less(agent.expiry) \in Nat
  BY Numbers DEF AgentState, Less
<1>4. agent' \in AgentState
  BY <1>2, <1>3, Numbers DEF MkAgent, AgentState
<1>5. agent'.pc = agent.pc /\ agent'.token = agent.token /\ agent'.out = agent.out
  BY <1>2 DEF MkAgent
<1>6. file' \in FileState \cup {NoFile} /\ ((file' = NoFile) <=> (file = NoFile))
      /\ (file # NoFile => file'.token = file.token)
  <2>1. CASE file = NoFile
    BY <2>1 DEF Tick
  <2>2. CASE file # NoFile
    <3>1. file \in FileState
      BY <2>2 DEF Inv, TypeOK
    <3>2. file' = MkFile(file.token, Less(file.ttl))
      BY <2>2 DEF Tick
    <3>3. Less(file.ttl) \in Nat /\ file.token \in Tokens
      BY <3>1 DEF FileState, Less
    <3>4. file' \in FileState /\ file'.token = file.token
      BY <3>2, <3>3 DEF MkFile, FileState
    <3> QED BY <2>2, <3>4, NoFileAssumption
  <2> QED BY <2>1, <2>2
<1>7. TypeOK'
  BY <1>1, <1>4, <1>5, <1>6 DEF Inv, TypeOK, At
<1>8. ContainmentOwned'
  BY <1>1, <1>5, <1>6 DEF Inv, Safe, ContainmentOwned, Blocked, Stranded
<1>9. ReportHonest'
  BY <1>1, <1>5 DEF Inv, Safe, ReportHonest, At, Blocked, Stranded
<1>10. Position'
  BY <1>1, <1>5, <1>6 DEF Inv, Safe, Position, Disturbed, Blocked, At
<1> QED BY <1>7, <1>8, <1>9, <1>10 DEF Inv, Safe

----------------------------------------------------------------------------
\* The first state satisfies the invariant.
LEMMA InitKeeps == ASSUME Init PROVE Inv
<1>1. /\ agent = Idle /\ refs = {} /\ file = NoFile /\ anchor = "empty"
      /\ faults = 0 /\ escapes = 0 /\ crashes = 0 /\ reboots = 0 /\ launchd = "loaded"
  BY DEF Init
<1>2. TypeOK
  BY <1>1, IdleAgent DEF TypeOK, At, Applying
<1>3. ContainmentOwned
  BY <1>1 DEF ContainmentOwned, Blocked
<1>4. ReportHonest
  BY <1>1, IdleAgent DEF ReportHonest, At
<1>5. Position
  BY <1>1, IdleAgent DEF Position, At
<1> QED BY <1>2, <1>3, <1>4, <1>5 DEF Inv, Safe

\* Every step of the Mac but time and the receipt of an action.
OwnStep ==
    \/ StartRun \/ Rotate \/ Reconcile \/ Collect \/ PollNothing \/ Execute
    \/ Apply \/ Release \/ Submit \/ Recover \/ Reactivate \/ Crash \/ Reboot

\* Every step keeps the invariant, whatever time a received action has left.
LEMMA StepKeeps ==
    ASSUME Inv,
           \/ OwnStep \/ Tick \/ UNCHANGED vars
           \/ \E k \in Kinds, t \in Nat : Receive(k, t)
    PROVE  Inv'
<1>1. CASE UNCHANGED vars
  <2>1. TypeOK'
    BY <1>1 DEF Inv, TypeOK, vars, At
  <2>2. Safe'
    BY <1>1 DEF Inv, Safe, ContainmentOwned, ReportHonest, Position, Stranded, Disturbed,
                Blocked, vars, At
  <2> QED BY <2>1, <2>2 DEF Inv
<1> QED BY <1>1, RunStep, ExecuteStep, StopStep, RebootStep, EnableStep, LoadStep, SaveStep,
           RollFlushStep, RollUnrefStep, DiscardStep, PreserveStep, FlushStep, UnrefStep,
           DeleteStep, TickStep
        DEF OwnStep, Apply, Release

\* The inductive invariant.
LEMMA EndpointInvariant == Spec => []Inv
<1>1. Init => Inv
  BY InitKeeps
<1>2. Inv /\ [Next]_vars => Inv'
  <2>1. TTLs \subseteq Nat
    BY EndpointAssumption
  <2> QED BY <2>1, StepKeeps DEF Next, AgentStep, OwnStep
<1> QED BY <1>1, <1>2, PTL DEF Spec

\* The program counter, the state file and the token belong together: a release
\* has a state file, an application has a token.
THEOREM EndpointTypes == Spec => []TypeOK
<1>1. Inv => TypeOK
  BY DEF Inv
<1> QED BY <1>1, EndpointInvariant, PTL

\* Loaded rules have a state file, unless a crash, an escaped exception or three
\* failed steps came together.
THEOREM RulesAreOwned == Spec => []ContainmentOwned
<1>1. Inv => ContainmentOwned
  BY DEF Inv, Safe
<1> QED BY <1>1, EndpointInvariant, PTL

\* The device reports what is so.
THEOREM ReportsAreHonest == Spec => []ReportHonest
<1>1. Inv => ReportHonest
  BY DEF Inv, Safe
<1> QED BY <1>1, EndpointInvariant, PTL

----------------------------------------------------------------------------
(* What an action brings to the Mac *)

\* The errand of a run: rules are loaded only for an isolate action, a report
\* answers an action and says what its kind allows, and the deadline of the
\* containment is within that of the action.
Errand ==
    /\ agent.pc \in Applying \cup {"enable", "load"} => agent.why = "isolate_endpoint"
    /\ agent.pc \in {"execute", "report"} => agent.why \in Kinds
    /\ agent.pc \in {"idle", "rotate", "reconcile", "collect", "poll"} => agent.why = "run"
    /\ agent.expiry <= agent.ttl
    /\ At("report") =>
        /\ agent.out # "none"
        /\ agent.out \in {"released", "already released"} => agent.why = "release_endpoint"
        /\ agent.out \in {"isolated", "already isolated"} => agent.why = "isolate_endpoint"

\* What a step leaves of the errand: only a load sets the rules, only a save
\* or a preservation writes the state file, with the deadline of the errand,
\* and an errand ends with its run, unless the process is stopped in it.
Carried ==
    /\ anchor' = "block" => Blocked \/ At("load")
    /\ file' # NoFile => file' = file \/ (agent.pc \in Applying /\ file'.ttl = agent.expiry)
    /\ agent'.why \in Kinds => agent'.why = agent.why /\ agent'.ttl = agent.ttl
    /\ agent.why \in Kinds /\ crashes' = crashes => agent'.why = agent.why \/ agent'.pc = "idle"
    /\ Stranded => Stranded'

\* A process put together from parts has them.
LEMMA Parts ==
    ASSUME NEW pc, NEW why, NEW ttl, NEW expiry, NEW token, NEW out
    PROVE  /\ MkAgent(pc, why, ttl, expiry, token, out).pc = pc
           /\ MkAgent(pc, why, ttl, expiry, token, out).why = why
           /\ MkAgent(pc, why, ttl, expiry, token, out).ttl = ttl
           /\ MkAgent(pc, why, ttl, expiry, token, out).expiry = expiry
           /\ MkAgent(pc, why, ttl, expiry, token, out).out = out
  BY DEF MkAgent

\* The ways a process goes on: it ends, it collects, it goes to another step
\* of the same errand, or it reports.
Ends == agent'.pc = "idle" /\ agent'.why = "run" /\ agent'.ttl = 0 /\ agent'.expiry = 0
Collects == agent'.pc = "collect" /\ agent'.why = "run" /\ agent'.ttl = 0 /\ agent'.expiry = 0
GoesTo(pc) ==
    /\ agent'.pc = pc /\ agent'.why = agent.why /\ agent'.ttl = agent.ttl
    /\ agent'.expiry = agent.expiry
Answers(out) ==
    /\ agent'.pc = "report" /\ agent'.why = agent.why /\ agent'.ttl = agent.ttl
    /\ agent'.expiry = 0 /\ agent'.out = out

\* The model's ways of going on are these.
LEMMA Ways ==
    ASSUME Inv
    PROVE  /\ agent' = Idle => Ends
           /\ agent' = MkAgent("collect", "run", 0, 0, NoToken, "none") => Collects
           /\ \A pc \in Pcs : Go(pc) => GoesTo(pc)
           /\ \A out \in Outcomes : Report(out) => Answers(out)
<1>1. agent \in AgentState
  BY DEF Inv, TypeOK
<1>2. \A pc \in Pcs : Go(pc) => GoesTo(pc)
  BY <1>1 DEF Go, GoesTo, AgentState
<1>3. \A out \in Outcomes : Report(out) => Answers(out)
  BY Parts DEF Report, Answers
<1>4. agent' = Idle => Ends
  BY Parts DEF Idle, Ends
<1>5. agent' = MkAgent("collect", "run", 0, 0, NoToken, "none") => Collects
  BY Parts DEF Collects
<1> QED BY <1>2, <1>3, <1>4, <1>5

\* A release returns to its errand.
LEMMA ReturnWays ==
    ASSUME Inv, NEW ok \in BOOLEAN, AfterRelease(ok)
    PROVE  \/ agent.why \notin Kinds /\ (Ends \/ Collects)
           \/ agent.why = "release_endpoint" /\ (Answers("released") \/ Answers("failed"))
           \/ agent.why = "isolate_endpoint" /\ (GoesTo("enable") \/ Answers("failed"))
<1>1. {"released", "failed"} \subseteq Outcomes /\ "enable" \in Pcs
      /\ "reconcile" \notin Kinds /\ "recovery" \notin Kinds
  BY DEF Outcomes, Pcs, Kinds
<1>2. CASE agent.why = "reconcile" /\ agent' = MkAgent("collect", "run", 0, 0, NoToken, "none")
  BY <1>1, <1>2, Ways
<1>3. CASE agent.why = "recovery" /\ agent' = Idle
  BY <1>1, <1>3, Ways
<1>4. CASE agent.why = "release_endpoint" /\ Report(IF ok THEN "released" ELSE "failed")
  <2>1. CASE ok BY <1>1, <1>4, <2>1, Ways
  <2>2. CASE ~ok BY <1>1, <1>4, <2>2, Ways
  <2> QED BY <2>1, <2>2
<1>5. CASE agent.why = "isolate_endpoint" /\ (Go("enable") \/ Report("failed"))
  BY <1>1, <1>5, Ways
<1> QED BY <1>2, <1>3, <1>4, <1>5 DEF AfterRelease

\* An action never has less than no time left.
LEMMA TimeLeft == ASSUME Inv PROVE 0 <= agent.ttl
<1>1. agent.ttl \in Nat
  BY DEF Inv, TypeOK, AgentState
<1> QED BY <1>1

\* An errand goes on in any of these ways.
LEMMA ErrandGoesOn ==
    ASSUME Inv, Errand,
           \/ Ends \/ Collects
           \/ \E pc \in Pcs \ {"idle", "execute", "report"} :
                /\ GoesTo(pc)
                /\ pc \in Applying \cup {"enable", "load"} => agent.why = "isolate_endpoint"
                /\ pc \in {"rotate", "reconcile", "collect", "poll"} => agent.why = "run"
           \/ \E out \in Outcomes \ {"none"} :
                /\ Answers(out) /\ agent.why \in Kinds
                /\ out \in {"released", "already released"} => agent.why = "release_endpoint"
                /\ out \in {"isolated", "already isolated"} => agent.why = "isolate_endpoint"
    PROVE  /\ Errand'
           /\ agent'.why \in Kinds => agent'.why = agent.why /\ agent'.ttl = agent.ttl
           /\ agent.why \in Kinds /\ ~Collects => agent'.why = agent.why \/ agent'.pc = "idle"
<1>1. 0 <= agent.ttl
  BY TimeLeft
<1>2. "run" \notin Kinds
  BY DEF Kinds
<1>3. CASE Ends
  <2>1. agent'.expiry <= agent'.ttl BY <1>3 DEF Ends
  <2>2. Errand' BY <1>3, <2>1 DEF Ends, Errand, Applying, At
  <2> QED BY <1>2, <1>3, <2>2 DEF Ends
<1>4. CASE Collects
  <2>1. agent'.expiry <= agent'.ttl BY <1>4 DEF Collects
  <2>2. Errand' BY <1>4, <2>1 DEF Collects, Errand, Applying, At
  <2> QED BY <1>2, <1>4, <2>2 DEF Collects
<1>5. ASSUME NEW pc \in Pcs \ {"idle", "execute", "report"},
             GoesTo(pc),
             pc \in Applying \cup {"enable", "load"} => agent.why = "isolate_endpoint",
             pc \in {"rotate", "reconcile", "collect", "poll"} => agent.why = "run"
      PROVE  Errand' /\ agent'.why = agent.why /\ agent'.ttl = agent.ttl
  BY <1>5 DEF GoesTo, Errand, At
<1>6. ASSUME NEW out \in Outcomes \ {"none"},
             Answers(out), agent.why \in Kinds,
             out \in {"released", "already released"} => agent.why = "release_endpoint",
             out \in {"isolated", "already isolated"} => agent.why = "isolate_endpoint"
      PROVE  Errand' /\ agent'.why = agent.why /\ agent'.ttl = agent.ttl
  <2>0. agent'.expiry = 0 /\ agent'.ttl = agent.ttl BY <1>6 DEF Answers
  <2>1. agent'.expiry <= agent'.ttl BY <1>1, <2>0
  <2>2. Errand' BY <1>6, <2>1 DEF Answers, Errand, Applying, At
  <2> QED BY <1>6, <2>2 DEF Answers
<1> QED BY <1>3, <1>4, <1>5, <1>6

\* The steps that start, end or stop a run.
LEMMA CalmCarries ==
    ASSUME Inv, Errand,
           \/ StartRun \/ Rotate \/ Reconcile \/ Collect \/ PollNothing \/ Submit \/ Reactivate
           \/ Recover \/ Crash \/ Reboot
    PROVE  Errand' /\ Carried
<1>1. anchor' \in {anchor, "empty"} /\ file' = file
  BY DEF StartRun, Rotate, Reconcile, Collect, PollNothing, Submit, Reactivate, Recover, Crash,
         Reboot
<1>2. Stranded => Stranded'
  BY Numbers DEF StartRun, Rotate, Reconcile, Collect, PollNothing, Submit, Reactivate, Recover,
                 Crash, Reboot, Stranded, world
<1>3. "run" \notin Kinds /\ "reconcile" \notin Kinds /\ "recovery" \notin Kinds
      /\ {"rotate", "reconcile", "poll"} \subseteq Pcs \ {"idle", "execute", "report"}
  BY DEF Kinds, Pcs, Applying
<1>4. CASE StartRun \/ Rotate \/ Reconcile \/ Collect \/ PollNothing \/ Reactivate
  <2>1. agent.pc \in {"idle", "rotate", "reconcile", "collect", "poll"}
    BY <1>4 DEF StartRun, Rotate, Reconcile, Collect, PollNothing, Reactivate, At
  <2>2. agent.why = "run"
    BY <2>1 DEF Errand
  <2>3. CASE \/ agent' = Idle
             \/ Go("rotate") \/ Go("reconcile") \/ Go("poll")
             \/ agent' = MkAgent("collect", "run", 0, 0, NoToken, "none")
    <3>1. \/ Ends \/ Collects
          \/ \E pc \in {"rotate", "reconcile", "poll"} : GoesTo(pc)
      BY <1>3, <2>3, Ways
    <3>2. Errand' /\ (agent'.why \in Kinds => agent'.why = agent.why)
      BY <1>3, <2>2, <3>1, ErrandGoesOn DEF Applying
    <3> QED BY <1>1, <1>2, <1>3, <2>2, <3>2 DEF Carried, Blocked
  <2>4. CASE agent' = MkAgent("flush", "reconcile", 0, 0, NoToken, "none")
    <3>1. agent'.pc = "flush" /\ agent'.why = "reconcile" /\ agent'.ttl = 0 /\ agent'.expiry = 0
      BY <2>4, Parts
    <3>2. agent'.expiry <= agent'.ttl BY <3>1
    <3>3. Errand' BY <3>1, <3>2 DEF Errand, Applying, At
    <3> QED BY <1>1, <1>2, <1>3, <2>2, <3>1, <3>3 DEF Carried, Blocked
  <2>5. CASE agent' = agent
    <3>1. Errand' BY <2>5 DEF Errand, At
    <3> QED BY <1>1, <1>2, <2>5, <3>1 DEF Carried, Blocked
  <2> QED BY <1>4, <2>3, <2>4, <2>5
          DEF StartRun, Rotate, Reconcile, Collect, PollNothing, Reactivate
<1>5. CASE Submit \/ Recover \/ Crash \/ Reboot
  <2>1. CASE agent' = Idle
    <3>1. Ends BY <2>1, Ways
    <3>2. Errand' BY <3>1, ErrandGoesOn
    <3> QED BY <1>1, <1>2, <1>3, <3>1, <3>2 DEF Carried, Blocked, Ends
  <2>2. CASE Recover /\ agent' = MkAgent("flush", "recovery", 0, 0, NoToken, "none")
    <3>4. agent.why \in Kinds => crashes' # crashes
      <4>1. agent.why \in Kinds => ~At("idle") BY <1>3 DEF Errand, At
      <4>2. crashes \in Nat BY DEF Inv, TypeOK
      <4> QED BY <2>2, <4>1, <4>2 DEF Recover
    <3>1. agent'.pc = "flush" /\ agent'.why = "recovery" /\ agent'.ttl = 0 /\ agent'.expiry = 0
      BY <2>2, Parts
    <3>2. agent'.expiry <= agent'.ttl BY <3>1
    <3>3. Errand' BY <3>1, <3>2 DEF Errand, Applying, At
    <3> QED BY <1>1, <1>2, <1>3, <3>1, <3>3, <3>4 DEF Carried, Blocked
  <2> QED BY <1>5, <2>1, <2>2 DEF Submit, Recover, Crash, Reboot
<1> QED BY <1>4, <1>5

\* execute: the deadline of a containment is the smaller one.
LEMMA ExecuteCarries ==
    ASSUME Inv, Errand, Execute
    PROVE  Errand' /\ Carried /\ At("execute") /\ agent'.why = agent.why
<1>1. anchor' = anchor /\ file' = file /\ (Stranded => Stranded') /\ At("execute")
  BY DEF Execute, Stranded, world
<1>2. agent.why \in Kinds /\ agent.ttl \in Nat
  BY <1>1 DEF Errand, At, Inv, TypeOK, AgentState
<1>3. {"failed", "already isolated", "already released"} \subseteq Outcomes \ {"none"}
      /\ "flush" \in Pcs \ {"idle", "execute", "report"}
  BY DEF Outcomes, Pcs
<1>4. CASE \/ Report("failed")
           \/ agent.why = "isolate_endpoint" /\ Report("already isolated")
           \/ agent.why = "release_endpoint" /\ Report("already released")
  <2>1. PICK out \in {"failed", "already isolated", "already released"} :
           /\ Answers(out)
           /\ out = "already isolated" => agent.why = "isolate_endpoint"
           /\ out = "already released" => agent.why = "release_endpoint"
    BY <1>3, <1>4, Ways
  <2>2. Errand' BY <1>2, <1>3, <2>1, ErrandGoesOn
  <2> QED BY <1>1, <2>1, <2>2 DEF Carried, Blocked, Answers
<1>5. CASE Go("flush")
  <2>1. GoesTo("flush") BY <1>3, <1>5, Ways
  <2>2. Errand' BY <1>3, <2>1, ErrandGoesOn DEF Applying
  <2> QED BY <1>1, <2>1, <2>2 DEF Carried, Blocked, GoesTo
<1>6. CASE /\ agent.why = "isolate_endpoint"
           /\ agent' = MkAgent(IF Overdue THEN "flush" ELSE "enable", agent.why, agent.ttl,
                               Smaller(agent.ttl, Cap), NoToken, "none")
  <2>1. Smaller(agent.ttl, Cap) <= agent.ttl
    BY <1>2, EndpointAssumption DEF Smaller
  <2>2. /\ agent'.pc \in {"flush", "enable"} /\ agent'.why = agent.why
        /\ agent'.ttl = agent.ttl /\ agent'.expiry = Smaller(agent.ttl, Cap)
    BY <1>6, Parts
  <2>3. Errand' BY <1>6, <2>1, <2>2 DEF Errand, Applying, At
  <2> QED BY <1>1, <2>2, <2>3 DEF Carried, Blocked
<1> QED BY <1>4, <1>5, <1>6 DEF Execute

\* The steps of an application and its rollback.
LEMMA ApplyCarries == ASSUME Inv, Errand, Apply PROVE Errand' /\ Carried
<1>1. agent.pc \in Applying \cup {"enable", "load"}
  BY DEF Apply, Enable, Load, Save, RollFlush, RollUnref, Discard, Preserve, At, Applying
<1>2. agent.why = "isolate_endpoint" /\ agent.why \in Kinds
  BY <1>1 DEF Errand, Kinds
<1>3. /\ {"save", "rollflush", "rollunref", "rollunref2", "discard", "preserve"}
            \subseteq Pcs \ {"idle", "execute", "report"}
      /\ {"isolated", "failed"} \subseteq Outcomes \ {"none"}
  BY DEF Pcs, Outcomes, Applying
<1>4. anchor' = "block" => Blocked \/ At("load")
  BY DEF Apply, Enable, Load, Save, RollFlush, RollUnref, Discard, Preserve, Blocked
<1>5. file' # NoFile => file' = file \/ (agent.pc \in Applying /\ file'.ttl = agent.expiry)
  BY DEF Apply, Enable, Load, Save, RollFlush, RollUnref, Discard, Preserve, At, Applying, MkFile
<1>6. Stranded => Stranded'
  <2>1. faults' \in {faults, faults + 1} /\ escapes' \in {escapes, escapes + 1} /\ crashes' = crashes
    BY DEF Apply, Enable, Load, Save, RollFlush, RollUnref, Discard, Preserve, Fault, Escape, world
  <2> QED BY <2>1, Numbers DEF Stranded
<1>7. CASE agent' = MkAgent("load", agent.why, agent.ttl, agent.expiry, NewToken, "none")
  <2>1. GoesTo("load") BY <1>7, Parts DEF GoesTo
  <2>2. "load" \in Pcs \ {"idle", "execute", "report"} BY DEF Pcs
  <2>3. Errand' BY <1>2, <2>1, <2>2, ErrandGoesOn
  <2> QED BY <1>4, <1>5, <1>6, <2>1, <2>3 DEF Carried, GoesTo
<1>8. CASE agent' = Idle
  <2>1. Ends BY <1>8, Ways
  <2>2. Errand' BY <2>1, ErrandGoesOn
  <2>3. "run" \notin Kinds BY DEF Kinds
  <2> QED BY <1>4, <1>5, <1>6, <2>1, <2>2, <2>3 DEF Carried, Ends
<1>9. CASE \E pc \in Applying : Go(pc)
  <2>1. PICK pc \in Applying : GoesTo(pc) BY <1>3, <1>9, Ways DEF Applying
  <2>2. pc \in Pcs \ {"idle", "execute", "report"} BY <1>3 DEF Applying
  <2>3. pc \notin {"rotate", "reconcile", "collect", "poll"} BY DEF Applying
  <2>4. Errand' BY <1>2, <2>1, <2>2, <2>3, ErrandGoesOn
  <2> QED BY <1>4, <1>5, <1>6, <2>1, <2>4 DEF Carried, GoesTo
<1>10. CASE \E out \in {"isolated", "failed"} : Report(out)
  <2>1. PICK out \in {"isolated", "failed"} : Answers(out) BY <1>3, <1>10, Ways
  <2>2. Errand' BY <1>2, <1>3, <2>1, ErrandGoesOn
  <2> QED BY <1>4, <1>5, <1>6, <2>1, <2>2 DEF Carried, Answers
<1>11. \/ agent' = MkAgent("load", agent.why, agent.ttl, agent.expiry, NewToken, "none")
       \/ agent' = Idle
       \/ \E pc \in Applying : Go(pc)
       \/ \E out \in {"isolated", "failed"} : Report(out)
  <2>1. CASE Enable BY <2>1 DEF Enable
  <2>2. CASE Load BY <2>2 DEF Load, Applying
  <2>3. CASE Save BY <2>3 DEF Save, Escape, Applying
  <2>4. CASE RollFlush BY <2>4 DEF RollFlush, Applying
  <2>5. CASE RollUnref BY <2>5 DEF RollUnref, Applying
  <2>6. CASE Discard BY <2>6 DEF Discard
  <2>7. CASE Preserve BY <2>7 DEF Preserve, Escape
  <2> QED BY <2>1, <2>2, <2>3, <2>4, <2>5, <2>6, <2>7 DEF Apply
<1> QED BY <1>7, <1>8, <1>9, <1>10, <1>11

\* The steps of a release.
LEMMA ReleaseCarries == ASSUME Inv, Errand, Release PROVE Errand' /\ Carried
<1>1. anchor' \in {anchor, "empty"} /\ file' \in {file, NoFile}
  BY DEF Release, Flush, Unref, Delete
<1>2. Stranded => Stranded'
  <2>1. faults' \in {faults, faults + 1} /\ escapes' = escapes /\ crashes' = crashes
    BY DEF Release, Flush, Unref, Delete, Fault, world
  <2> QED BY <2>1, Numbers DEF Stranded
<1>3. "run" \notin Kinds
  BY DEF Kinds
<1>4. CASE Go("unref") \/ Go("delete")
  <2>1. {"unref", "delete"} \subseteq Pcs \ {"idle", "execute", "report"} BY DEF Pcs
  <2>2. PICK pc \in {"unref", "delete"} : GoesTo(pc) BY <1>4, <2>1, Ways
  <2>3. Errand' BY <2>1, <2>2, ErrandGoesOn DEF Applying
  <2> QED BY <1>1, <1>2, <2>2, <2>3 DEF Carried, Blocked, GoesTo
<1>5. CASE \E ok \in BOOLEAN : AfterRelease(ok)
  <2>1. CASE agent.why \notin Kinds /\ (Ends \/ Collects)
    <3>1. Errand' BY <2>1, ErrandGoesOn
    <3> QED BY <1>1, <1>2, <1>3, <2>1, <3>1 DEF Carried, Blocked, Ends, Collects
  <2>2. CASE agent.why = "release_endpoint" /\ (Answers("released") \/ Answers("failed"))
    <3>1. {"released", "failed"} \subseteq Outcomes \ {"none"} /\ agent.why \in Kinds
      BY <2>2 DEF Outcomes, Kinds
    <3>2. Errand' BY <2>2, <3>1, ErrandGoesOn
    <3> QED BY <1>1, <1>2, <2>2, <3>2 DEF Carried, Blocked, Answers
  <2>3. CASE agent.why = "isolate_endpoint" /\ Answers("failed")
    <3>1. "failed" \in Outcomes \ {"none"} /\ agent.why \in Kinds
      BY <2>3 DEF Outcomes, Kinds
    <3>2. Errand' BY <2>3, <3>1, ErrandGoesOn
    <3> QED BY <1>1, <1>2, <2>3, <3>2 DEF Carried, Blocked, Answers
  <2>4. CASE agent.why = "isolate_endpoint" /\ GoesTo("enable")
    <3>1. "enable" \in Pcs \ {"idle", "execute", "report"} BY DEF Pcs
    <3>2. Errand' BY <2>4, <3>1, ErrandGoesOn
    <3> QED BY <1>1, <1>2, <2>4, <3>2 DEF Carried, Blocked, GoesTo
  <2> QED BY <1>5, <2>1, <2>2, <2>3, <2>4, ReturnWays
<1> QED BY <1>4, <1>5 DEF Release, Flush, Unref, Delete

\* No step of the Mac itself strays from the errand it has.
LEMMA StepCarries == ASSUME Inv, Errand, OwnStep PROVE Errand' /\ Carried
  BY CalmCarries, ExecuteCarries, ApplyCarries, ReleaseCarries DEF OwnStep

\* The same when nothing happens.
LEMMA StillCarries == ASSUME Errand, UNCHANGED vars PROVE Errand' /\ Carried
  BY DEF vars, Errand, Carried, At, Blocked, Stranded

\* Where the collector stops, it has no errand.
LEMMA StopEnds ==
    ASSUME Inv, PollNothing \/ Submit \/ Recover \/ Crash \/ Reboot
    PROVE  agent'.why \notin Kinds
<1>1. CASE agent' = Idle
  BY <1>1, Ways DEF Ends, Kinds
<1>2. CASE agent' = MkAgent("flush", "recovery", 0, 0, NoToken, "none")
  BY <1>2, Parts DEF Kinds
<1> QED BY <1>1, <1>2 DEF PollNothing, Submit, Recover, Crash, Reboot

\* An action that is received is the errand of the run.
LEMMA ReceiveBrings ==
    ASSUME Inv, Errand, NEW k \in Kinds, NEW t \in Nat, Receive(k, t)
    PROVE  /\ Errand'
           /\ agent.why = "run"
           /\ agent'.pc = "execute" /\ agent'.why = k /\ agent'.ttl = t
           /\ anchor' = anchor /\ file' = file /\ (Stranded <=> Stranded')
<1>1. /\ agent'.pc = "execute" /\ agent'.why = k /\ agent'.ttl = t /\ agent'.expiry = 0
  BY Parts DEF Receive
<1>2. agent'.expiry <= agent'.ttl
  BY <1>1
<1>3. Errand'
  BY <1>1, <1>2 DEF Errand, Applying, At
<1>4. agent.why = "run"
  BY DEF Receive, Errand, At
<1>5. anchor' = anchor /\ file' = file /\ (Stranded <=> Stranded')
  BY DEF Receive, Stranded, world
<1> QED BY <1>1, <1>3, <1>4, <1>5

\* The first run has not begun.
LEMMA ErrandInit == ASSUME Init PROVE Errand
<1>1. agent.pc = "idle" /\ agent.why = "run" /\ agent.ttl = 0 /\ agent.expiry = 0
  BY Parts DEF Init, Idle
<1>2. agent.expiry <= agent.ttl
  BY <1>1
<1> QED BY <1>1, <1>2 DEF Errand, Applying, At

\* Time shortens what is left of the errand and of the containment alike.
LEMMA TickCarries ==
    ASSUME Inv, Errand, Tick
    PROVE  /\ Errand'
           /\ agent'.pc = agent.pc /\ agent'.why = agent.why
           /\ agent'.ttl = Less(agent.ttl)
           /\ anchor' = anchor /\ (Stranded <=> Stranded')
           /\ file' # NoFile => file # NoFile /\ file'.ttl = Less(file.ttl)
<1>1. /\ agent'.pc = agent.pc /\ agent'.why = agent.why /\ agent'.out = agent.out
      /\ agent'.ttl = Less(agent.ttl) /\ agent'.expiry = Less(agent.expiry)
  BY Parts DEF Tick
<1>2. Less(agent.expiry) <= Less(agent.ttl)
  <2>1. agent.expiry \in Nat /\ agent.ttl \in Nat BY DEF Inv, TypeOK, AgentState
  <2>2. agent.expiry <= agent.ttl BY DEF Errand
  <2> QED BY <2>1, <2>2 DEF Less
<1>3. Errand'
  BY <1>1, <1>2 DEF Errand, At
<1>4. anchor' = anchor /\ (Stranded <=> Stranded')
  BY DEF Tick, Stranded, world
<1>5. file' # NoFile => file # NoFile /\ file'.ttl = Less(file.ttl)
  BY DEF Tick, MkFile
<1> QED BY <1>1, <1>3, <1>4, <1>5

----------------------------------------------------------------------------
(* Enable references *)

\* The reference that an application is about to record, the one that the state
\* file names, and the others.
Carries == IF agent.pc \in Applying \cup {"load"} THEN {agent.token} ELSE {}
Named == IF file # NoFile THEN {file.token} ELSE {}
Leaked == refs \ (Carries \cup Named)
Debt == faults + escapes + crashes

\* Each reference that leaked has cost a failure or a crash.
Bounded == IsFiniteSet(refs) /\ Cardinality(Leaked) <= Debt

\* An application finds no state file and writes its own token, and both a
\* rollback and a release have given the reference back before they forget it.
Tokened ==
    /\ agent.pc \in {"enable", "load", "save"} => file = NoFile
    /\ agent.pc \in Applying /\ file # NoFile => file.token = agent.token
    /\ At("discard") => agent.token \notin refs
    /\ At("delete") => file.token \notin refs

Ledger == Bounded /\ Tokened

\* The debt is a number, before a step and after it.
LEMMA DebtType == ASSUME Inv PROVE Debt \in Nat
<1>1. faults \in Nat /\ escapes \in Nat /\ crashes \in Nat
  BY DEF Inv, TypeOK
<1> QED BY <1>1 DEF Debt

\* The same after the step.
LEMMA NextDebtType == ASSUME Inv' PROVE Debt' \in Nat
<1>1. faults' \in Nat /\ escapes' \in Nat /\ crashes' \in Nat
  BY DEF Inv, TypeOK
<1>2. Debt' = faults' + escapes' + crashes'
  BY DEF Debt
<1>3. ASSUME NEW i \in Nat, NEW j \in Nat, NEW k \in Nat PROVE i + j + k \in Nat
  OBVIOUS
<1> QED BY <1>1, <1>2, <1>3

\* A step leaks nothing, or one reference for one more failure.
LEMMA BoundedStays ==
    ASSUME Inv, Inv', Bounded, NEW t, refs' \subseteq refs \cup {t},
           \/ Leaked' \subseteq Leaked /\ Debt <= Debt'
           \/ \E x : Leaked' \subseteq Leaked \cup {x} /\ Debt + 1 <= Debt'
    PROVE  Bounded'
<1>1. IsFiniteSet(refs \cup {t})
  BY FS_AddElement DEF Bounded
<1>2. IsFiniteSet(refs')
  BY <1>1, FS_Subset
<1>3. IsFiniteSet(Leaked) /\ Cardinality(Leaked) \in Nat
  <2>1. IsFiniteSet(Leaked) BY FS_Subset DEF Leaked, Bounded
  <2> QED BY <2>1, FS_CardinalityType
<1>4. IsFiniteSet(Leaked') /\ Cardinality(Leaked') \in Nat
  <2>1. Leaked' \in SUBSET refs' BY DEF Leaked
  <2>2. IsFiniteSet(Leaked') BY <1>2, <2>1, FS_Subset
  <2> QED BY <2>2, FS_CardinalityType
<1>5. Debt \in Nat /\ Debt' \in Nat
  BY DebtType, NextDebtType
<1>6. CASE Leaked' \subseteq Leaked /\ Debt <= Debt'
  <2>1. Cardinality(Leaked') <= Cardinality(Leaked) BY <1>3, <1>6, FS_Subset
  <2> QED BY <1>2, <1>3, <1>4, <1>5, <1>6, <2>1 DEF Bounded
<1>7. ASSUME NEW x, Leaked' \subseteq Leaked \cup {x}, Debt + 1 <= Debt' PROVE Bounded'
  <2>1. IsFiniteSet(Leaked \cup {x}) /\ Cardinality(Leaked \cup {x}) <= Cardinality(Leaked) + 1
    <3>1. /\ IsFiniteSet(Leaked \cup {x})
          /\ Cardinality(Leaked \cup {x}) =
                IF x \in Leaked THEN Cardinality(Leaked) ELSE Cardinality(Leaked) + 1
      BY <1>3, FS_AddElement, Zenon
    <3> QED BY <1>3, <3>1
  <2>2. Cardinality(Leaked') <= Cardinality(Leaked \cup {x}) BY <1>7, <2>1, FS_Subset
  <2>3. Cardinality(Leaked \cup {x}) \in Nat BY <2>1, FS_CardinalityType
  <2>4. Cardinality(Leaked) <= Debt BY DEF Bounded
  <2>5. Cardinality(Leaked') <= Debt' BY <1>3, <1>4, <1>5, <1>7, <2>1, <2>2, <2>3, <2>4
  <2> QED BY <1>2, <2>5 DEF Bounded
<1> QED BY <1>6, <1>7

\* What the counters say of the debt.
LEMMA DebtGrows ==
    ASSUME Inv
    PROVE  /\ UNCHANGED <<faults, escapes, crashes>> => Debt <= Debt'
           /\ Fault /\ UNCHANGED <<escapes, crashes>> => Debt + 1 <= Debt'
           /\ escapes' = escapes + 1 /\ UNCHANGED <<faults, crashes>> => Debt + 1 <= Debt'
           /\ crashes' = crashes + 1 /\ UNCHANGED <<faults, escapes>> => Debt + 1 <= Debt'
<1>1. faults \in Nat /\ escapes \in Nat /\ crashes \in Nat
  BY DEF Inv, TypeOK
<1> QED BY <1>1 DEF Debt, Fault

\* A step that neither applies nor releases.
LEMMA CalmLedger ==
    ASSUME Inv, Inv', Ledger, UNCHANGED <<refs, file, faults, escapes, crashes>>,
           agent.pc \notin Applying \cup {"load"},
           agent'.pc \in Calm \cup {"report"}, agent'.pc = "enable" => file = NoFile
    PROVE  Ledger'
<1>1. agent'.pc \notin Applying \cup {"load", "save", "discard", "delete"}
  BY DEF Calm, Applying
<1>2. Leaked' \subseteq Leaked
  BY <1>1 DEF Leaked, Carries, Named
<1>3. Bounded'
  BY <1>2, BoundedStays, DebtGrows DEF Ledger
<1>4. Tokened'
  BY <1>1 DEF Tokened, At
<1> QED BY <1>3, <1>4 DEF Ledger

\* The steps of a run before and after the adapter's.
LEMMA RunLedger ==
    ASSUME Inv, Inv', Ledger,
           \/ StartRun \/ Rotate \/ Reconcile \/ Collect \/ PollNothing \/ Submit \/ Reactivate
           \/ Execute \/ \E k \in Kinds, t \in Nat : Receive(k, t)
    PROVE  Ledger'
<1>1. UNCHANGED <<refs, file, faults, escapes, crashes>>
  BY DEF StartRun, Rotate, Reconcile, Collect, PollNothing, Submit, Reactivate, Execute, Receive,
         world
<1>2. agent.pc \notin Applying \cup {"load"}
  BY DEF StartRun, Rotate, Reconcile, Collect, PollNothing, Submit, Reactivate, Execute, Receive,
         At, Applying
<1>3. agent'.pc \in Calm \cup {"report"} /\ (agent'.pc = "enable" => file = NoFile)
  <2>0. /\ {"rotate", "reconcile", "poll", "flush"} \subseteq Pcs
        /\ {"failed", "already isolated", "already released"} \subseteq Outcomes
    BY DEF Pcs, Outcomes
  <2>1. CASE \/ agent' = Idle \/ agent' = MkAgent("collect", "run", 0, 0, NoToken, "none")
             \/ Go("rotate") \/ Go("reconcile") \/ Go("poll") \/ Go("flush")
             \/ Report("failed") \/ Report("already isolated") \/ Report("already released")
    <3>1. agent'.pc \in {"idle", "collect", "rotate", "reconcile", "poll", "flush", "report"}
      BY <2>0, <2>1, Ways DEF Ends, Collects, GoesTo, Answers
    <3> QED BY <3>1 DEF Calm
  <2>2. CASE agent' = MkAgent("flush", "reconcile", 0, 0, NoToken, "none")
    BY <2>2, Parts DEF Calm
  <2>3. CASE \E k \in Kinds, t \in Nat : agent' = MkAgent("execute", k, t, 0, NoToken, "none")
    BY <2>3, Parts DEF Calm
  <2>4. CASE /\ file = NoFile \/ Overdue
             /\ agent' = MkAgent(IF Overdue THEN "flush" ELSE "enable", agent.why, agent.ttl,
                                 Smaller(agent.ttl, Cap), NoToken, "none")
    BY <2>4, Parts DEF Calm
  <2>5. CASE agent' = agent /\ agent.pc = "idle"
    BY <2>5 DEF Calm
  <2>6. CASE StartRun \/ Rotate \/ Reconcile \/ Collect \/ PollNothing \/ Submit \/ Reactivate
    BY <2>1, <2>2, <2>5, <2>6
       DEF StartRun, Rotate, Reconcile, Collect, PollNothing, Submit, Reactivate, At
  <2>7. CASE Execute
    BY <2>1, <2>4, <2>7 DEF Execute
  <2>8. CASE \E k \in Kinds, t \in Nat : Receive(k, t)
    BY <2>3, <2>8 DEF Receive
  <2> QED BY <2>6, <2>7, <2>8
<1> QED BY <1>1, <1>2, <1>3, CalmLedger

\* Whatever stops the process loses at most the reference it carries.
LEMMA StopLedger == ASSUME Inv, Inv', Ledger, Recover \/ Crash \/ Reboot PROVE Ledger'
<1>1. agent'.pc \in {"idle", "flush"}
  <2>1. CASE agent' = Idle BY <2>1, IdleAgent
  <2>2. CASE agent' = MkAgent("flush", "recovery", 0, 0, NoToken, "none") BY <2>2, Parts
  <2> QED BY <2>1, <2>2 DEF Recover, Crash, Reboot
<1>2. file' = file
  BY DEF Recover, Crash, Reboot
<1>3. Tokened'
  BY <1>1 DEF Tokened, Applying, At
<1>4. Carries' = {} /\ Named' = Named
  BY <1>1, <1>2 DEF Carries, Named, Applying
<1>5. CASE Reboot
  <2>1. Leaked' \subseteq Leaked /\ refs' \subseteq refs BY <1>5 DEF Reboot, Leaked
  <2>2. Debt <= Debt' BY <1>5, DebtGrows DEF Reboot
  <2> QED BY <1>3, <2>1, <2>2, BoundedStays DEF Ledger
<1>6. CASE (Recover \/ Crash) /\ At("idle")
  <2>1. UNCHANGED <<refs, faults, escapes, crashes>> BY <1>6 DEF Recover, Crash
  <2>2. Carries = {} BY <1>6 DEF Carries, At, Applying
  <2>3. Leaked' \subseteq Leaked BY <1>4, <2>1, <2>2 DEF Leaked
  <2>4. Debt <= Debt' BY <2>1, DebtGrows
  <2> QED BY <1>3, <2>1, <2>3, <2>4, BoundedStays DEF Ledger
<1>7. CASE (Recover \/ Crash) /\ ~At("idle")
  <2>1. refs' = refs /\ crashes' = crashes + 1 /\ UNCHANGED <<faults, escapes>>
    BY <1>7 DEF Recover, Crash
  <2>2. Leaked' \subseteq Leaked \cup {agent.token}
    BY <1>4, <2>1 DEF Leaked, Carries
  <2>3. Debt + 1 <= Debt' BY <2>1, DebtGrows
  <2> QED BY <1>3, <2>1, <2>2, <2>3, BoundedStays DEF Ledger
<1> QED BY <1>5, <1>6, <1>7

\* -E: the reference is carried on; a failed call may have taken one unseen.
LEMMA EnableLedger == ASSUME Inv, Inv', Ledger, Enable PROVE Ledger'
<1>1. At("enable") /\ file' = file /\ file = NoFile /\ UNCHANGED <<escapes, crashes>>
  BY DEF Enable, world, Ledger, Tokened, At
<1>2. Carries = {} /\ Named' = Named
  BY <1>1 DEF Carries, Named, At, Applying
<1>3. "failed" \in Outcomes
  BY DEF Outcomes
<1>4. CASE Report("failed")
  <2>1. agent'.pc = "report" BY <1>3, <1>4, Ways DEF Answers
  <2>2. Tokened' BY <2>1 DEF Tokened, At, Applying
  <2>3. Carries' = {} BY <2>1 DEF Carries, Applying
  <2>4. CASE UNCHANGED <<refs, faults>>
    <3>1. Leaked' \subseteq Leaked BY <1>2, <2>3, <2>4 DEF Leaked
    <3>2. Debt <= Debt' BY <1>1, <2>4, DebtGrows
    <3> QED BY <2>2, <2>4, <3>1, <3>2, BoundedStays DEF Ledger
  <2>5. CASE Fault /\ refs' \subseteq refs \cup {NewToken}
    <3>1. Leaked' \subseteq Leaked \cup {NewToken} BY <1>2, <2>3, <2>5 DEF Leaked
    <3>2. Debt + 1 <= Debt' BY <1>1, <2>5, DebtGrows
    <3> QED BY <2>2, <2>5, <3>1, <3>2, BoundedStays DEF Ledger
  <2>6. \/ UNCHANGED <<refs, faults>>
        \/ Fault /\ refs' \subseteq refs \cup {NewToken}
        \/ agent' = MkAgent("load", agent.why, agent.ttl, agent.expiry, NewToken, "none")
    BY DEF Enable
  <2>7. agent' # MkAgent("load", agent.why, agent.ttl, agent.expiry, NewToken, "none")
    BY <2>1, Parts
  <2> QED BY <2>4, <2>5, <2>6, <2>7
<1>5. CASE /\ refs' = refs \cup {NewToken} /\ UNCHANGED faults
           /\ agent' = MkAgent("load", agent.why, agent.ttl, agent.expiry, NewToken, "none")
  <2>1. agent'.pc = "load" /\ agent'.token = NewToken BY <1>5 DEF MkAgent
  <2>2. Tokened' BY <1>1, <2>1 DEF Tokened, At, Applying
  <2>3. Leaked' \subseteq Leaked BY <1>2, <1>5, <2>1 DEF Leaked, Carries
  <2>4. Debt <= Debt' BY <1>1, <1>5, DebtGrows
  <2> QED BY <1>5, <2>2, <2>3, <2>4, BoundedStays DEF Ledger
<1> QED BY <1>4, <1>5 DEF Enable

\* The steps that go on within an application: they add no reference.
LEMMA ApplyLedger ==
    ASSUME Inv, Inv', Ledger, agent.pc \in Applying \cup {"load"},
           agent'.pc \in Applying, agent'.token = agent.token, refs' \subseteq refs,
           file' = file \/ file'.token = agent.token,
           agent'.pc = "save" => file' = NoFile,
           agent'.pc = "discard" => agent.token \notin refs',
           UNCHANGED <<escapes, crashes>>, UNCHANGED faults \/ Fault
    PROVE  Ledger'
<1>1. Carries' = Carries /\ Carries = {agent.token}
  BY DEF Carries
<1>2. file # NoFile => file.token = agent.token
  BY DEF Ledger, Tokened, Applying
<1>3. file' # NoFile => file'.token = agent.token
  BY <1>2
<1>4. Leaked' \subseteq Leaked
  BY <1>1, <1>2, <1>3 DEF Leaked, Named
<1>5. Debt <= Debt'
  <2>1. faults \in Nat /\ escapes \in Nat /\ crashes \in Nat BY DEF Inv, TypeOK
  <2> QED BY <2>1 DEF Debt, Fault
<1>6. Tokened'
  BY <1>3 DEF Tokened, At, Applying
<1> QED BY <1>4, <1>5, <1>6, BoundedStays DEF Ledger

\* The steps that end an application: what it carries is named by the state
\* file, was given back, or is lost to one more failure.
LEMMA AppliedLedger ==
    ASSUME Inv, Inv', Ledger, agent.pc \in Applying \cup {"load"},
           agent'.pc \in {"idle", "report"}, refs' = refs,
           file' = file \/ file' = NoFile \/ file'.token = agent.token,
           \/ agent.token \notin refs /\ Debt <= Debt'
           \/ file' # NoFile /\ Debt <= Debt'
           \/ Debt + 1 <= Debt'
    PROVE  Ledger'
<1>1. Carries' = {} /\ Carries = {agent.token}
  BY DEF Carries, Applying
<1>2. file # NoFile => file.token = agent.token
  BY DEF Ledger, Tokened, Applying
<1>3. file' # NoFile => file'.token = agent.token
  BY <1>2
<1>4. Leaked' \subseteq Leaked \cup {agent.token}
  BY <1>1, <1>2 DEF Leaked, Named
<1>5. file' # NoFile \/ agent.token \notin refs => Leaked' \subseteq Leaked
  BY <1>1, <1>2, <1>3 DEF Leaked, Named
<1>6. Tokened'
  BY DEF Tokened, At, Applying
<1>7. Bounded'
  BY <1>4, <1>5, BoundedStays DEF Ledger
<1> QED BY <1>6, <1>7 DEF Ledger

\* -f -, and the two commands of a rollback.
LEMMA LoadLedger ==
    ASSUME Inv, Inv', Ledger, Load \/ RollFlush \/ RollUnref
    PROVE  Ledger'
<1>1. /\ agent \in AgentState /\ agent.pc \in Applying \cup {"load"}
      /\ {"save", "rollflush", "rollunref", "rollunref2", "discard", "preserve"} \subseteq Pcs
  BY DEF Inv, TypeOK, Load, RollFlush, RollUnref, At, Applying, Pcs
<1>2. /\ file' = file /\ UNCHANGED <<escapes, crashes>> /\ (UNCHANGED faults \/ Fault)
      /\ refs' \subseteq refs
  BY DEF Load, RollFlush, RollUnref, world
<1>3. CASE Load
  <2>1. agent'.pc \in {"save", "rollflush"} /\ agent'.token = agent.token
    BY <1>1, <1>3, Going DEF Load
  <2>2. file = NoFile BY <1>3 DEF Load, Ledger, Tokened, At
  <2> QED BY <1>1, <1>2, <2>1, <2>2, ApplyLedger DEF Applying
<1>4. CASE RollFlush
  <2>1. agent'.pc \in {"rollunref", "rollunref2"} /\ agent'.token = agent.token
    BY <1>1, <1>4, Going DEF RollFlush
  <2> QED BY <1>1, <1>2, <2>1, ApplyLedger DEF Applying
<1>5. CASE RollUnref
  <2>1. CASE Go("discard") /\ refs' = refs \ {agent.token}
    <3>1. agent'.pc = "discard" /\ agent'.token = agent.token BY <1>1, <2>1, Going
    <3> QED BY <1>1, <1>2, <2>1, <3>1, ApplyLedger DEF Applying
  <2>2. CASE Go("preserve")
    <3>1. agent'.pc = "preserve" /\ agent'.token = agent.token BY <1>1, <2>2, Going
    <3> QED BY <1>1, <1>2, <3>1, ApplyLedger DEF Applying
  <2>3. At("rollunref") \/ ~At("rollunref") OBVIOUS
  <2> QED BY <1>5, <2>1, <2>2, <2>3 DEF RollUnref
<1> QED BY <1>3, <1>4, <1>5

\* The state file takes the reference over, or a failure lets go of it.
LEMMA SaveLedger ==
    ASSUME Inv, Inv', Ledger, Save \/ Discard \/ Preserve
    PROVE  Ledger'
<1>1. /\ agent \in AgentState /\ agent.pc \in Applying \cup {"load"} /\ "rollflush" \in Pcs
      /\ {"isolated", "failed"} \subseteq Outcomes
  BY DEF Inv, TypeOK, Save, Discard, Preserve, At, Applying, Pcs, Outcomes
<1>2. refs' = refs /\ crashes' = crashes
  BY DEF Save, Discard, Preserve, world
<1>3. /\ MkFile(agent.token, agent.expiry).token = agent.token
      /\ MkFile(agent.token, agent.expiry) # NoFile
  <2>1. agent.token \in Tokens /\ agent.expiry \in Nat
    BY <1>1 DEF Inv, TypeOK, AgentState
  <2>2. MkFile(agent.token, agent.expiry) \in FileState BY <2>1 DEF MkFile, FileState
  <2> QED BY <2>2, NoFileAssumption DEF MkFile
<1>4. CASE Escape /\ UNCHANGED <<file, faults>>
  <2>1. agent'.pc = "idle" BY <1>4, IdleAgent DEF Escape
  <2>2. Debt + 1 <= Debt' BY <1>2, <1>4, DebtGrows DEF Escape
  <2> QED BY <1>1, <1>2, <1>4, <2>1, <2>2, AppliedLedger
<1>5. CASE Report("failed") /\ Fault /\ UNCHANGED <<file, escapes>>
  <2>1. agent'.pc = "report" BY <1>1, <1>5, Reporting
  <2>2. Debt + 1 <= Debt' BY <1>2, <1>5, DebtGrows
  <2> QED BY <1>1, <1>2, <1>5, <2>1, <2>2, AppliedLedger
<1>6. ASSUME NEW out \in {"isolated", "failed"}, Report(out), UNCHANGED <<faults, escapes>>,
             file' = file \/ file' = NoFile \/ file'.token = agent.token,
             agent.token \notin refs \/ file' # NoFile
      PROVE  Ledger'
  <2>1. agent'.pc = "report" BY <1>1, <1>6, Reporting
  <2>2. Debt <= Debt' BY <1>2, <1>6, DebtGrows
  <2> QED BY <1>1, <1>2, <1>6, <2>1, <2>2, AppliedLedger
<1>7. CASE Save
  <2>1. CASE /\ file' = MkFile(agent.token, agent.expiry) /\ Report("isolated")
             /\ UNCHANGED <<faults, escapes>>
    BY <1>3, <1>6, <2>1
  <2>2. CASE /\ Fault /\ file' \in {file, MkFile(agent.token, agent.expiry)}
             /\ Go("rollflush") /\ UNCHANGED escapes
    <3>1. agent'.pc = "rollflush" /\ agent'.token = agent.token BY <1>1, <2>2, Going
    <3> QED BY <1>1, <1>2, <1>3, <2>2, <3>1, ApplyLedger DEF Applying
  <2> QED BY <1>4, <1>7, <2>1, <2>2 DEF Save
<1>8. CASE Discard
  <2>1. agent.token \notin refs /\ Report("failed") /\ escapes' = escapes
    BY <1>8 DEF Discard, Ledger, Tokened, world
  <2>2. file' = file \/ file' = NoFile
    BY <1>8 DEF Discard
  <2>3. CASE UNCHANGED faults
    BY <1>6, <2>1, <2>2, <2>3
  <2>4. CASE Fault /\ UNCHANGED file
    BY <1>5, <2>1, <2>4
  <2> QED BY <1>8, <2>3, <2>4 DEF Discard
<1>9. CASE Preserve
  <2>1. CASE /\ file' = (IF file = NoFile THEN MkFile(agent.token, agent.expiry) ELSE file)
             /\ Report("failed") /\ UNCHANGED <<faults, escapes>>
    BY <1>3, <1>6, <2>1
  <2> QED BY <1>4, <1>5, <1>9, <2>1 DEF Preserve
<1> QED BY <1>7, <1>8, <1>9

\* A release that goes on or ends without deleting the state file.
LEMMA ReleasingLedger ==
    ASSUME Inv, Inv', Ledger, agent.pc \in {"flush", "unref", "delete"},
           refs' \subseteq refs, file' = file,
           agent'.pc \in {"unref", "delete", "collect", "idle", "report"},
           agent'.pc = "delete" => file.token \notin refs',
           UNCHANGED <<escapes, crashes>>, UNCHANGED faults \/ Fault
    PROVE  Ledger'
<1>1. Carries' = {} /\ Carries = {} /\ Named' = Named
  BY DEF Carries, Named, Applying
<1>2. Leaked' \subseteq Leaked
  BY <1>1 DEF Leaked
<1>3. Debt <= Debt'
  <2>1. faults \in Nat /\ escapes \in Nat /\ crashes \in Nat BY DEF Inv, TypeOK
  <2> QED BY <2>1 DEF Debt, Fault
<1>4. Tokened'
  BY DEF Tokened, At, Applying
<1> QED BY <1>2, <1>3, <1>4, BoundedStays DEF Ledger

\* A release that failed does not go on to apply.
LEMMA FailedReturn ==
    ASSUME Inv, AfterRelease(FALSE)
    PROVE  agent'.pc \in {"collect", "idle", "report"}
<1>1. "failed" \in Outcomes
  BY DEF Outcomes
<1>2. CASE agent' = Idle BY <1>2, Ways DEF Ends
<1>3. CASE agent' = MkAgent("collect", "run", 0, 0, NoToken, "none") BY <1>3, Ways DEF Collects
<1>4. CASE Report("failed") BY <1>1, <1>4, Ways DEF Answers
<1> QED BY <1>2, <1>3, <1>4 DEF AfterRelease

\* -F all, -X, and the end of the state file: its reference was given back.
LEMMA ReleaseLedger == ASSUME Inv, Inv', Ledger, Release PROVE Ledger'
<1>1. UNCHANGED <<escapes, crashes>> /\ (UNCHANGED faults \/ Fault) /\ refs' \subseteq refs
  BY DEF Release, Flush, Unref, Delete, world
<1>2. agent.pc \in {"flush", "unref", "delete"} /\ file # NoFile
  BY DEF Release, Flush, Unref, Delete, At, Inv, TypeOK
<1>3. agent \in AgentState /\ {"unref", "delete"} \subseteq Pcs
  BY DEF Inv, TypeOK, Pcs
<1>4. CASE AfterRelease(FALSE) /\ file' = file
  <2>1. agent'.pc \in {"collect", "idle", "report"} BY <1>4, FailedReturn
  <2> QED BY <1>1, <1>2, <1>4, <2>1, ReleasingLedger
<1>5. CASE Go("unref") /\ file' = file
  <2>1. agent'.pc = "unref" BY <1>3, <1>5, Going
  <2> QED BY <1>1, <1>2, <1>5, <2>1, ReleasingLedger
<1>6. CASE Go("delete") /\ file' = file /\ refs' = refs \ {file.token}
  <2>1. agent'.pc = "delete" BY <1>3, <1>6, Going
  <2> QED BY <1>1, <1>2, <1>6, <2>1, ReleasingLedger
<1>7. CASE Delete /\ file' = NoFile /\ AfterRelease(TRUE) /\ UNCHANGED faults
  <2>1. refs' = refs /\ file.token \notin refs
    BY <1>7 DEF Delete, Ledger, Tokened
  <2>2. agent'.pc \in {"collect", "idle", "enable", "report"}
    BY <1>3, <1>7, Returning
  <2>3. Carries' = {} /\ Carries = {} /\ Named' = {} /\ Named = {file.token}
    BY <1>2, <1>7, <2>2 DEF Carries, Named, Applying
  <2>4. Leaked' \subseteq Leaked
    BY <2>1, <2>3 DEF Leaked
  <2>5. Debt <= Debt'
    BY <1>1, <1>7, DebtGrows
  <2>6. Tokened'
    BY <1>7, <2>2 DEF Tokened, At, Applying
  <2> QED BY <2>1, <2>4, <2>5, <2>6, BoundedStays DEF Ledger
<1>8. CASE Flush BY <1>4, <1>5, <1>8 DEF Flush
<1>9. CASE Unref BY <1>4, <1>6, <1>9 DEF Unref
<1>10. CASE Delete BY <1>4, <1>7, <1>10 DEF Delete
<1> QED BY <1>8, <1>9, <1>10 DEF Release

\* Time changes no token, and neither does nothing.
LEMMA TickLedger == ASSUME Inv, Inv', Ledger, Tick \/ UNCHANGED vars PROVE Ledger'
<1>1. UNCHANGED <<refs, faults, escapes, crashes>>
  BY DEF Tick, vars, world
<1>2. agent'.pc = agent.pc /\ agent'.token = agent.token
  BY DEF Tick, vars, MkAgent
<1>3. (file' = NoFile <=> file = NoFile) /\ (file # NoFile => file'.token = file.token)
  <2>1. CASE UNCHANGED vars BY <2>1 DEF vars
  <2>2. CASE Tick /\ file = NoFile BY <2>2 DEF Tick
  <2>3. CASE Tick /\ file # NoFile
    <3>1. file \in FileState BY <2>3 DEF Inv, TypeOK
    <3>2. Less(file.ttl) \in Nat /\ file.token \in Tokens BY <3>1 DEF FileState, Less
    <3>3. file' = MkFile(file.token, Less(file.ttl)) BY <2>3 DEF Tick
    <3>4. file' \in FileState /\ file'.token = file.token
      BY <3>2, <3>3 DEF MkFile, FileState
    <3> QED BY <2>3, <3>4, NoFileAssumption
  <2> QED BY <2>1, <2>2, <2>3
<1>4. Carries' = Carries /\ Named' = Named
  BY <1>2, <1>3 DEF Carries, Named
<1>5. Leaked' \subseteq Leaked
  BY <1>1, <1>4 DEF Leaked
<1>6. Debt <= Debt'
  BY <1>1, DebtGrows
<1>7. Tokened'
  <2>1. agent.pc = "delete" => file # NoFile BY DEF Inv, TypeOK, At
  <2> QED BY <1>1, <1>2, <1>3, <2>1 DEF Ledger, Tokened, At
<1> QED BY <1>1, <1>5, <1>6, <1>7, BoundedStays DEF Ledger

\* PF enable references leak at most one per failure or crash, for any number
\* of runs, actions and tokens.
THEOREM ReferencesAreAccounted == Spec => []ReferencesAccounted
<1>1. Init => Ledger
  <2>1. ASSUME Init PROVE Ledger
    <3>1. refs = {} /\ agent = Idle /\ faults = 0 /\ escapes = 0 /\ crashes = 0
      BY <2>1 DEF Init
    <3>2. Leaked = {} /\ Debt = 0
      BY <3>1 DEF Leaked, Debt
    <3>3. Bounded
      BY <3>1, <3>2, FS_EmptySet DEF Bounded
    <3>4. Tokened
      BY <3>1, IdleAgent DEF Tokened, At, Applying
    <3> QED BY <3>3, <3>4 DEF Ledger
  <2> QED BY <2>1
<1>2. Inv /\ Inv' /\ Ledger /\ [Next]_vars => Ledger'
  <2>1. TTLs \subseteq Nat
    BY EndpointAssumption
  <2> QED BY <2>1, RunLedger, StopLedger, EnableLedger, LoadLedger, SaveLedger, ReleaseLedger,
             TickLedger DEF Next, AgentStep, Apply
<1>3. Spec => []Ledger
  BY <1>1, <1>2, EndpointInvariant, PTL DEF Spec
<1>4. Inv /\ Ledger => ReferencesAccounted
  <2> SUFFICES ASSUME Inv, Ledger, At("idle") PROVE ReferencesAccounted
    BY DEF ReferencesAccounted
  <2>1. Carries = {}
    BY DEF Carries, At, Applying
  <2>2. faults \in Nat /\ escapes \in Nat /\ crashes \in Nat
    BY DEF Inv, TypeOK
  <2>3. IsFiniteSet(Leaked)
    BY FS_Subset DEF Leaked, Ledger, Bounded
  <2>4. Cardinality(Leaked) \in Nat
    BY <2>3, FS_CardinalityType
  <2>5. Cardinality(Leaked) <= faults + escapes + crashes
    BY DEF Ledger, Bounded, Debt
  <2>6. CASE file = NoFile
    <3>1. Leaked = refs
      BY <2>1, <2>6 DEF Leaked, Named
    <3> QED BY <2>2, <2>4, <2>5, <2>6, <3>1 DEF ReferencesAccounted
  <2>7. CASE file # NoFile
    <3>1. refs \subseteq Leaked \cup {file.token}
      BY <2>1, <2>7 DEF Leaked, Named
    <3>2. /\ IsFiniteSet(Leaked \cup {file.token})
          /\ Cardinality(Leaked \cup {file.token}) =
                IF file.token \in Leaked THEN Cardinality(Leaked) ELSE Cardinality(Leaked) + 1
      BY <2>3, FS_AddElement, Zenon
    <3>3. Cardinality(refs) <= Cardinality(Leaked \cup {file.token})
      BY <3>1, <3>2, FS_Subset
    <3>4. Cardinality(refs) \in Nat
      BY FS_CardinalityType DEF Ledger, Bounded
    <3>5. Cardinality(refs) <= 1 + faults + escapes + crashes
      BY <2>2, <2>4, <2>5, <3>2, <3>3, <3>4
    <3> QED BY <2>7, <3>5 DEF ReferencesAccounted
  <2> QED BY <2>6, <2>7
<1> QED BY <1>3, <1>4, EndpointInvariant, PTL
=============================================================================
