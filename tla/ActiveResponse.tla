---------------------------- MODULE ActiveResponse ----------------------------
(***************************************************************************)
(* Active response end to end: the control plane's table and one managed   *)
(* Mac, joined by the collector's signed requests.  The answer to a poll   *)
(* may be lost; a result may arrive late, when the collector has long gone *)
(* on, or never.  The two clocks run together.                             *)
(***************************************************************************)
EXTENDS Naturals, FiniteSets

CONSTANTS
    Actions, Cases, Users, TTLs, MaxDispatch, None, Device,
    Tokens, NoFile, NoToken, Cap, RotationEnabled,
    MaxFaults, MaxEscapes, MaxCrashes, MaxReboots

VARIABLES
    action, open, active,
    anchor, refs, file, agent, launchd, faults, escapes, crashes, reboots,
    held,     \* the action the collector is executing
    applied,  \* history: the action executed last
    mail      \* results under way to the control plane

ResultKinds == {"isolated", "already isolated", "released", "already released", "failed"}

Gov == INSTANCE ResponseGovernance WITH
    Devices <- {Device}, Results <- ResultKinds, Succeeded <- ResultKinds \ {"failed"}

Mac == INSTANCE EndpointContainment

ASSUME ActiveAssumption ==
    /\ TTLs \subseteq Nat \ {0}
    /\ MaxDispatch \in Nat \ {0}
    /\ {Cap, MaxFaults, MaxEscapes, MaxCrashes, MaxReboots} \subseteq Nat
    /\ RotationEnabled \in BOOLEAN
    /\ None \notin Users \cup Actions \cup ResultKinds \cup Gov!Identity
    /\ NoToken \notin Tokens
    /\ NoFile \notin Mac!FileState

govVars == <<action, open, active>>
macVars == <<anchor, refs, file, agent, launchd, faults, escapes, crashes, reboots>>
vars == <<govVars, macVars, held, applied, mail>>

Init ==
    /\ Gov!Init
    /\ Mac!Init
    /\ held = None
    /\ applied = None
    /\ mail = {}

----------------------------------------------------------------------------
\* The poll commits in the control plane, and its answer reaches the collector.
Poll ==
    /\ Gov!PollDevice(Device)
    /\ \E a \in Actions :
        /\ Gov!Dispatchable(a, Device)
        /\ Mac!Receive(action[a].id.kind, action[a].ttl)
        /\ held' = a
    /\ UNCHANGED <<applied, mail>>

\* The poll commits, and the collector hears nothing of it.
PollLost ==
    /\ Gov!PollDevice(Device)
    /\ Mac!PollNothing
    /\ UNCHANGED <<held, applied, mail>>

\* The poll is not made, does not arrive, or is refused.
NoPoll ==
    /\ Mac!PollNothing
    /\ UNCHANGED <<govVars, held, applied, mail>>

Execute ==
    /\ Mac!Execute
    /\ applied' = held
    /\ UNCHANGED <<govVars, held, mail>>

\* The collector sends its result and the run ends, answered or timed out.
Submit ==
    /\ Mac!Submit
    /\ mail' = mail \cup {<<held, agent.out>>}
    /\ held' = None
    /\ UNCHANGED <<govVars, applied>>

\* submit_device_result commits, or refuses the message.
Deliver ==
    \E m \in mail :
        /\ mail' = mail \ {m}
        /\ \/ Gov!SubmitResult(Device, m[1], m[2])
           \/ ~Gov!TakesResult(Device, m[1]) /\ UNCHANGED govVars
        /\ UNCHANGED <<macVars, held, applied>>

Lose ==
    \E m \in mail :
        /\ mail' = mail \ {m}
        /\ UNCHANGED <<govVars, macVars, held, applied>>

\* The collector's other steps.
Run ==
    /\ \/ Mac!StartRun \/ Mac!Rotate \/ Mac!Reconcile \/ Mac!Collect
       \/ Mac!Apply \/ Mac!Release \/ Mac!Reactivate
    /\ held' = IF agent'.pc = "idle" THEN None ELSE held
    /\ UNCHANGED <<govVars, applied, mail>>

Interrupt ==
    /\ Mac!Recover \/ Mac!Crash \/ Mac!Reboot
    /\ held' = None
    /\ UNCHANGED <<govVars, applied, mail>>

Govern ==
    /\ \/ \E u \in Users : Gov!Human(u)
       \/ Gov!ListActions
       \/ \E c \in Cases : Gov!CloseCase(c) \/ Gov!ReopenCase(c)
       \/ Gov!RevokeDevice(Device)
    /\ UNCHANGED <<macVars, held, applied, mail>>

Tick ==
    /\ Gov!Tick
    /\ Mac!Tick
    /\ UNCHANGED <<held, applied, mail>>

Next ==
    \/ Poll \/ PollLost \/ NoPoll \/ Execute \/ Submit \/ Deliver \/ Lose
    \/ Run \/ Interrupt \/ Govern \/ Tick

Spec == Init /\ [][Next]_vars

----------------------------------------------------------------------------
(* Properties *)

HandedOut(a, k) == action[a].count > 0 /\ action[a].id.kind = k

\* The firewall blocks only what two humans asked for: while the rules are
\* loaded there is an isolate action for this Mac that somebody else than its
\* proposer approved and that was handed out, whatever crashed or got lost.
ContainmentAuthorized ==
    Mac!Blocked => \E a \in Actions :
        /\ HandedOut(a, "isolate_endpoint")
        /\ action[a].id.target = Device
        /\ action[a].reviewer \in Users \ {action[a].id.proposer}

\* The state file never outlives its authority: the time it leaves is at most
\* what is left of an isolate action that was handed out.
ContainmentWithinAction ==
    file # NoFile => \E a \in Actions :
        HandedOut(a, "isolate_endpoint") /\ file.ttl <= action[a].ttl

\* When the last action the Mac executed is a release that the control plane
\* records as succeeded, the Mac is not contained (unless a crash, an escaped
\* exception or three failures stranded the rules).
RecordedReleaseHolds ==
    applied # None /\ held = None =>
        (action[applied].id.kind = "release_endpoint" /\ action[applied].status = "succeeded"
            => ~Mac!Blocked \/ Mac!Stranded)
=============================================================================
