------------------------- MODULE EndpointContainment -------------------------
(***************************************************************************)
(* One managed Mac: the collector's run_once as far as it concerns active  *)
(* response, the PF adapter it drives, and the local recovery command.     *)
(* Every pfctl command and every operation on the state file is a step of  *)
(* its own, so the process may die, and the Mac reboot, between any two.   *)
(*                                                                         *)
(* A pfctl call can fail before or after it took effect (the runner raises *)
(* PfctlCommandError for a timeout too), so a failed step leaves either.   *)
(* Deadlines are kept relative to the present, never below zero.           *)
(***************************************************************************)
EXTENDS Naturals, FiniteSets

CONSTANTS
    Tokens,           \* PF enable reference tokens
    NoFile,           \* the state file does not exist
    NoToken,
    TTLs,             \* time left of a received action, in ticks
    Cap,              \* MAX_CONTAINMENT
    RotationEnabled,  \* credential_rotation_enabled
    MaxFaults,        \* bound: failed pfctl calls and file operations
    MaxEscapes,       \* bound: file operations whose exception nobody handles
    MaxCrashes,       \* bound: deaths of the process in the middle of a run
    MaxReboots        \* bound: restarts of the Mac

ASSUME EndpointAssumption ==
    /\ TTLs \subseteq Nat
    /\ {Cap, MaxFaults, MaxEscapes, MaxCrashes, MaxReboots} \subseteq Nat
    /\ RotationEnabled \in BOOLEAN
    /\ NoToken \notin Tokens

VARIABLES
    anchor,     \* the rules of com.apple/controlforge: empty, or the block rules
    refs,       \* the enable references pf holds for ControlForge
    file,       \* the PF state file: token and time left
    agent,      \* the running process: run_once or the recovery command
    launchd,    \* the collector's job is loaded or unloaded
    faults,     \* history: failed steps whose exception is handled
    escapes,    \* history: failed steps whose exception ends the run
    crashes,    \* history: processes that died in the middle of a run
    reboots     \* history: restarts of the Mac

world == <<launchd, escapes, crashes, reboots>>
vars == <<anchor, refs, file, agent, launchd, faults, escapes, crashes, reboots>>

Kinds == {"isolate_endpoint", "release_endpoint"}
Whys == Kinds \cup {"run", "reconcile", "recovery"}
Outcomes == {"none", "isolated", "already isolated", "released", "already released", "failed"}
Applying == {"save", "rollflush", "rollunref", "rollunref2", "discard", "preserve"}
Pcs == Applying \cup {"idle", "rotate", "reconcile", "collect", "poll", "execute", "flush",
        "unref", "delete", "enable", "load", "report"}

FileState == [token : Tokens, ttl : Nat]

ASSUME NoFileAssumption == NoFile \notin FileState

AgentState == [pc : Pcs, why : Whys, ttl : Nat, expiry : Nat,
               token : Tokens \cup {NoToken}, out : Outcomes]

MkFile(t, n) == [token |-> t, ttl |-> n]
MkAgent(pc, why, ttl, expiry, token, out) ==
    [pc |-> pc, why |-> why, ttl |-> ttl, expiry |-> expiry, token |-> token,
     out |-> out]

Idle == MkAgent("idle", "run", 0, 0, NoToken, "none")

At(pc) == agent.pc = pc
Go(pc) == agent' = [agent EXCEPT !.pc = pc]
Report(out) == agent' = MkAgent("report", agent.why, agent.ttl, 0, NoToken, out)

Fault == faults < MaxFaults /\ faults' = faults + 1

\* tempfile.mkstemp stands before write's try: its OSError is handled by nobody
\* below run_once, which ends.
Escape == escapes < MaxEscapes /\ escapes' = escapes + 1 /\ agent' = Idle

\* Fault: the deadline of the action does not limit the containment.
SecondOf(m, n) == n

Smaller(m, n) == IF m <= n THEN m ELSE n

Blocked == anchor = "block"

Init ==
    /\ anchor = "empty"
    /\ refs = {}
    /\ file = NoFile
    /\ agent = Idle
    /\ launchd = "loaded"
    /\ faults = 0
    /\ escapes = 0
    /\ crashes = 0
    /\ reboots = 0

----------------------------------------------------------------------------
(* run_once up to the poll *)

StartRun ==
    /\ launchd = "loaded"
    /\ At("idle")
    /\ Go("rotate")
    /\ UNCHANGED <<anchor, refs, file, faults, world>>

\* _handle_credential_rotation comes first.  Its exceptions end the run.
Rotate ==
    /\ At("rotate")
    /\ \/ Go("reconcile")
       \/ RotationEnabled /\ agent' = Idle
    /\ UNCHANGED <<anchor, refs, file, faults, world>>

\* Fault: the deadline of the state file is not looked at.
OverdueNever == FALSE

\* Fault: a missing state file is taken for an expired one.
OverdueOrAbsent == file = NoFile \/ file.ttl = 0

Overdue == file # NoFile /\ file.ttl = 0

Reconcile ==
    /\ At("reconcile")
    /\ agent' = IF Overdue THEN MkAgent("flush", "reconcile", 0, 0, NoToken, "none")
                ELSE MkAgent("collect", "run", 0, 0, NoToken, "none")
    /\ UNCHANGED <<anchor, refs, file, faults, world>>

\* Probes, spooling and delivery; an exception ends the run.
Collect ==
    /\ At("collect")
    /\ (Go("poll") \/ agent' = Idle)
    /\ UNCHANGED <<anchor, refs, file, faults, world>>

\* Nothing is pending, the poll fails, or its circuit defers it.
PollNothing ==
    /\ At("poll")
    /\ agent' = Idle
    /\ UNCHANGED <<anchor, refs, file, faults, world>>

\* The poll returns an action with t ticks left.
Receive(k, t) ==
    /\ At("poll")
    /\ agent' = MkAgent("execute", k, t, 0, NoToken, "none")
    /\ UNCHANGED <<anchor, refs, file, faults, world>>

----------------------------------------------------------------------------
(* MacOSPfResponseAdapter.execute *)

\* Expired: refused.  Isolate: an unexpired state file stands for containment,
\* an expired one is released first.  Release: no state file stands for no
\* containment.
Execute ==
    /\ At("execute")
    /\ \/ /\ agent.ttl = 0
          /\ Report("failed")
       \/ /\ agent.ttl > 0 /\ agent.why = "isolate_endpoint"
          /\ \/ file # NoFile /\ ~Overdue /\ Report("already isolated")
             \/ /\ file = NoFile \/ Overdue
                /\ agent' = MkAgent(IF Overdue THEN "flush" ELSE "enable", agent.why, agent.ttl,
                                    Smaller(agent.ttl, Cap), NoToken, "none")
       \/ /\ agent.ttl > 0 /\ agent.why = "release_endpoint"
          /\ IF file = NoFile THEN Report("already released") ELSE Go("flush")
    /\ UNCHANGED <<anchor, refs, file, faults, world>>

\* Fault: the failure of a release is swallowed.
AfterReleaseSwallowed(ok) ==
    \/ agent.why = "reconcile" /\ agent' = MkAgent("collect", "run", 0, 0, NoToken, "none")
    \/ agent.why = "recovery" /\ agent' = Idle
    \/ agent.why = "release_endpoint" /\ Report("released")
    \/ agent.why = "isolate_endpoint" /\ Go("enable")

\* Where _release_state returns to, or raises "release_failed" to.
AfterRelease(ok) ==
    \/ agent.why = "reconcile" /\ agent' = MkAgent("collect", "run", 0, 0, NoToken, "none")
    \/ agent.why = "recovery" /\ agent' = Idle
    \/ agent.why = "release_endpoint" /\ Report(IF ok THEN "released" ELSE "failed")
    \/ agent.why = "isolate_endpoint" /\ ok /\ Go("enable")
    \/ agent.why = "isolate_endpoint" /\ ~ok /\ Report("failed")

\* Fault: another anchor is flushed.
FlushElsewhere ==
    /\ At("flush")
    /\ Go("unref")
    /\ UNCHANGED <<anchor, refs, file, faults, world>>

\* Fault: the enable reference is not given back.
FlushOnly ==
    /\ At("flush")
    /\ anchor' = "empty"
    /\ Go("delete")
    /\ UNCHANGED <<refs, file, faults, world>>

\* pfctl -a com.apple/controlforge -F all
Flush ==
    /\ At("flush")
    /\ \/ /\ anchor' = "empty"
          /\ Go("unref")
          /\ UNCHANGED faults
       \/ /\ Fault
          /\ anchor' \in {anchor, "empty"}
          /\ AfterRelease(FALSE)
    /\ UNCHANGED <<refs, file, world>>

\* pfctl -X token.  Whether pfctl accepts a token that pf does not know, as
\* after a reboot, is left open.
Unref ==
    /\ At("unref")
    /\ \/ /\ refs' = refs \ {file.token}
          /\ Go("delete")
          /\ UNCHANGED faults
       \/ /\ file.token \notin refs
          /\ AfterRelease(FALSE)
          /\ UNCHANGED <<refs, faults>>
       \/ /\ Fault
          /\ refs' \in {refs, refs \ {file.token}}
          /\ AfterRelease(FALSE)
    /\ UNCHANGED <<anchor, file, world>>

\* RootOwnedPfStateStore.delete
Delete ==
    /\ At("delete")
    /\ \/ file' = NoFile /\ AfterRelease(TRUE) /\ UNCHANGED faults
       \/ Fault /\ AfterRelease(FALSE) /\ UNCHANGED file
    /\ UNCHANGED <<anchor, refs, world>>

\* pf hands out a token that it does not hold; which one makes no difference.
NewToken == CHOOSE t \in Tokens : t \notin refs

\* The resolver, which may fail, then pfctl -E.  If that fails no token was
\* read, so a reference that was taken all the same is not given back.
Enable ==
    /\ At("enable")
    /\ \/ Report("failed") /\ UNCHANGED <<refs, faults>>
       \/ /\ Tokens \ refs # {}
          /\ refs' = refs \cup {NewToken}
          /\ agent' = MkAgent("load", agent.why, agent.ttl, agent.expiry, NewToken, "none")
          /\ UNCHANGED faults
       \/ /\ Fault
          /\ Report("failed")
          /\ \/ UNCHANGED refs
             \/ Tokens \ refs # {} /\ refs' = refs \cup {NewToken}
    /\ UNCHANGED <<anchor, file, world>>

\* pfctl -a com.apple/controlforge -f -
Load ==
    /\ At("load")
    /\ \/ anchor' = "block" /\ Go("save") /\ UNCHANGED faults
       \/ Fault /\ anchor' \in {anchor, "block"} /\ Go("rollflush")
    /\ UNCHANGED <<refs, file, world>>

\* RootOwnedPfStateStore.write: a failure after os.replace tries to unlink.
Save ==
    /\ At("save")
    /\ \/ file' = MkFile(agent.token, agent.expiry) /\ Report("isolated") /\ UNCHANGED faults
          /\ UNCHANGED escapes
       \/ Fault /\ file' \in {file, MkFile(agent.token, agent.expiry)} /\ Go("rollflush")
          /\ UNCHANGED escapes
       \/ Escape /\ UNCHANGED <<file, faults>>
    /\ UNCHANGED <<anchor, refs, launchd, crashes, reboots>>

\* _rollback runs both commands, whatever the first one did: "rollunref2" is the
\* second one after a failure of the first.
RollFlush ==
    /\ At("rollflush")
    /\ \/ anchor' = "empty" /\ Go("rollunref") /\ UNCHANGED faults
       \/ /\ Fault
          /\ anchor' \in {anchor, "empty"}
          /\ Go("rollunref2")
    /\ UNCHANGED <<refs, file, world>>

RollUnref ==
    /\ At("rollunref") \/ At("rollunref2")
    /\ \/ /\ refs' = refs \ {agent.token}
          /\ Go(IF At("rollunref") THEN "discard" ELSE "preserve")
          /\ UNCHANGED faults
       \/ Fault /\ refs' \in {refs, refs \ {agent.token}} /\ Go("preserve")
    /\ UNCHANGED <<anchor, file, world>>

\* _discard_failed_state
Discard ==
    /\ At("discard")
    /\ LET mine == file # NoFile /\ file.token = agent.token
       IN  \/ file' = (IF mine THEN NoFile ELSE file) /\ UNCHANGED faults
           \/ mine /\ Fault /\ UNCHANGED file
    /\ Report("failed")
    /\ UNCHANGED <<anchor, refs, world>>

\* Fault: the token is forgotten when the rollback failed.
PreserveNothing ==
    /\ At("preserve")
    /\ Report("failed")
    /\ UNCHANGED <<anchor, refs, file, faults, world>>

\* _preserve_failed_rollback
Preserve ==
    /\ At("preserve")
    /\ \/ file' = (IF file = NoFile THEN MkFile(agent.token, agent.expiry) ELSE file)
          /\ Report("failed")
          /\ UNCHANGED <<faults, escapes>>
       \/ file = NoFile /\ Fault /\ Report("failed") /\ UNCHANGED <<file, escapes>>
       \/ file = NoFile /\ Escape /\ UNCHANGED <<file, faults>>
    /\ UNCHANGED <<anchor, refs, launchd, crashes, reboots>>

\* submit_action_result, delivered or not; the run ends.
Submit ==
    /\ At("report")
    /\ agent' = Idle
    /\ UNCHANGED <<anchor, refs, file, faults, world>>

----------------------------------------------------------------------------
(* The operator, crashes, reboots and time *)

\* agent-containment-release: launchd stops the collector, in the middle of a
\* run if need be, and what the state file names is released.
Recover ==
    /\ \/ At("idle") /\ UNCHANGED crashes
       \/ ~At("idle") /\ crashes < MaxCrashes /\ crashes' = crashes + 1
    /\ launchd' = "unloaded"
    /\ agent' = IF file = NoFile THEN Idle
                ELSE MkAgent("flush", "recovery", 0, 0, NoToken, "none")
    /\ UNCHANGED <<anchor, refs, file, faults, escapes, reboots>>

\* agent-activate
Reactivate ==
    /\ launchd = "unloaded"
    /\ At("idle")
    /\ launchd' = "loaded"
    /\ UNCHANGED <<anchor, refs, file, agent, faults, escapes, crashes, reboots>>

Crash ==
    /\ ~At("idle")
    /\ crashes < MaxCrashes
    /\ crashes' = crashes + 1
    /\ agent' = Idle
    /\ UNCHANGED <<anchor, refs, file, launchd, faults, escapes, reboots>>

\* Rules and references live in the kernel, the state file on the disk.
Reboot ==
    /\ reboots < MaxReboots
    /\ reboots' = reboots + 1
    /\ anchor' = "empty"
    /\ refs' = {}
    /\ agent' = Idle
    /\ UNCHANGED <<file, launchd, faults, escapes, crashes>>

Less(n) == IF n > 0 THEN n - 1 ELSE 0

Tick ==
    /\ file' = IF file = NoFile THEN NoFile ELSE MkFile(file.token, Less(file.ttl))
    /\ agent' = MkAgent(agent.pc, agent.why, Less(agent.ttl), Less(agent.expiry), agent.token,
                        agent.out)
    /\ UNCHANGED <<anchor, refs, faults, world>>

----------------------------------------------------------------------------
Apply == Enable \/ Load \/ Save \/ RollFlush \/ RollUnref \/ Discard \/ Preserve
Release == Flush \/ Unref \/ Delete

AgentStep ==
    \/ StartRun \/ Rotate \/ Reconcile \/ Collect \/ PollNothing
    \/ \E k \in Kinds, t \in TTLs : Receive(k, t)
    \/ Execute \/ Apply \/ Release \/ Submit

Next == AgentStep \/ Recover \/ Reactivate \/ Crash \/ Reboot \/ Tick

Spec == Init /\ [][Next]_vars

\* launchd starts the collector again and again, and time passes.
FairSpec == Spec /\ WF_vars(AgentStep) /\ WF_vars(Tick)

----------------------------------------------------------------------------
(* Properties *)

\* Types; the steps of a release have a state file to release, those of an
\* application have the token of their reference.
TypeOK ==
    /\ anchor \in {"empty", "block"}
    /\ refs \subseteq Tokens
    /\ file \in FileState \cup {NoFile}
    /\ agent \in AgentState
    /\ launchd \in {"loaded", "unloaded"}
    /\ faults \in Nat /\ escapes \in Nat /\ crashes \in Nat /\ reboots \in Nat
    /\ At("flush") \/ At("unref") \/ At("delete") => file # NoFile
    /\ agent.pc \in Applying \cup {"load"} => agent.token \in Tokens

\* What it takes to lose the state file of loaded rules.
Stranded == crashes > 0 \/ escapes > 0 \/ faults >= 3

\* Block rules are never loaded without a state file to release them by: it
\* takes a crash in the middle of applying them, an exception that nobody
\* handles, or three failed steps (the application, its rollback and the
\* preservation of the token).
ContainmentOwned ==
    Blocked /\ agent.pc \notin Applying
        => file # NoFile \/ Stranded

\* What the device reports is so.  "isolated" means that the rules are loaded;
\* "released" and "already released" that they are not, unless containment was
\* stranded before; "already isolated" can be wrong only after a failure, a
\* crash or a reboot.
ReportHonest ==
    At("report") =>
        /\ agent.out = "isolated" => Blocked
        /\ agent.out = "released" => ~Blocked
        /\ agent.out = "already released" /\ Blocked => Stranded
        /\ agent.out = "already isolated" /\ ~Blocked
              => faults > 0 \/ crashes > 0 \/ reboots > 0

\* PF enable references leak at most one per failure or crash: when no process
\* runs, all the others are named by the state file.
ReferencesAccounted ==
    At("idle") =>
        Cardinality(refs) <= (IF file = NoFile THEN 0 ELSE 1) + faults + escapes + crashes

\* Containment that was not stranded ends by itself, in spite of failed steps
\* and reboots, unless the operator has stopped the collector.
ContainmentEnds == Blocked ~> (~Blocked \/ launchd = "unloaded" \/ Stranded)
=============================================================================
