-------------------------- MODULE DeviceEnrollment --------------------------
(***************************************************************************)
(* How the device of CredentialRotation comes and goes: enrollment grants, *)
(* the Mac that claims one and stores the secret in its keychain, the      *)
(* receipt, the activation with its first check-in, and the uninstaller.   *)
(* Each local command is killed or fails between any two of its steps, and *)
(* the answer to a claim may be lost or the claim arrive late.             *)
(*                                                                         *)
(* The commands of one Mac take turns (the enrollment lock; an operator    *)
(* runs one at a time), and a run that activation starts does not overlap  *)
(* with one of launchd's.  There is one device identity: a profile names   *)
(* it until the uninstaller removes the profile.                           *)
(***************************************************************************)
EXTENDS CredentialRotation

CONSTANTS
    MaxGrants,     \* bound on grants that are good at the same time
    GrantLife,     \* the time a grant is good for
    MaxInterrupts  \* bound on failures where the Mac starts without a device

ASSUME EnrollmentAssumption ==
    /\ MaxGrants \in Nat /\ MaxInterrupts \in 0..MaxFailures
    /\ GrantLife \in Nat \ {0}

VARIABLES
    grants,   \* enrollment tokens that are not revoked and not past their time
    claims,   \* claims sent and not answered
    seen,     \* devices.last_seen_at is set
    step,     \* where the local command is
    receipt,  \* network-membership.json
    loaded    \* the launch daemon is enabled and loaded

mac == <<step, receipt, loaded>>
enrollment == <<grants, claims, seen>>
allVars == <<vars, mac, enrollment>>

Ids == 1..(MaxGrants + MaxLate + 1)

\* The package has just been installed; of the failures that are allowed
\* only MaxInterrupts are left.
InitNew ==
    /\ device = "none" /\ cred = Issued(FALSE) /\ keychain = 0
    /\ failures = MaxFailures - MaxInterrupts
    /\ step = "unconfigured" /\ receipt = "none" /\ loaded = FALSE /\ seen = FALSE

\* The Mac has reported before.
InitReporting ==
    /\ Enrolled /\ failures = 0
    /\ step = "idle" /\ receipt = "reporting" /\ loaded = TRUE /\ seen = TRUE

EnrollmentInit ==
    /\ NothingRotated
    /\ InitNew \/ InitReporting
    /\ grants = {} /\ claims = {}

-----------------------------------------------------------------------------
(* Grants *)

NewGrant ==
    [id |-> CHOOSE i \in Ids : (\A g \in grants : g.id # i) /\ (\A q \in claims : q.id # i),
     state |-> "open", stands |-> TRUE, expires |-> now + GrantLife]

\* enrollment_grant revokes the ones that were not used.  The app does not
\* ask for a grant on a Mac that has its credential.
RequestGrant ==
    /\ step = "idle" /\ keychain = 0 /\ receipt = "none"
    /\ LET kept == {g \in grants : g.state = "used"}
       IN  /\ Cardinality(kept) < MaxGrants
           /\ grants' = kept \cup {NewGrant}
    /\ UNCHANGED <<vars, mac, claims, seen>>

\* revoke_grant: only while it is not used.
RevokeGrant(g) ==
    /\ g.state = "open"
    /\ grants' = grants \ {g}
    /\ UNCHANGED <<vars, mac, claims, seen>>

\* The account is disabled or its password replaced: its open grants are
\* revoked, and a used one no longer has the account's password version.
LoseAuthority ==
    /\ \E g \in grants : g.stands
    /\ grants' = {[g EXCEPT !.stands = FALSE] : g \in {h \in grants : h.state = "used"}}
    /\ UNCHANGED <<vars, mac, claims, seen>>

\* The claim reaches the command that waits for it and nobody otherwise.
AnswerClaim(q, next) ==
    /\ claims' = claims \ {q}
    /\ step' = IF q.waited THEN next ELSE step

\* claim_grant for the first time: device, credential and grant in one
\* transaction.
FirstClaim(g) == g.state = "open" /\ g.stands /\ device = "none"

ResumableAgain(g) ==
    g.state = "used" /\ g.stands /\ device = "active" /\ Valid(First, now)

\* _resume_unchecked_grant: the same secret again, until its first use.
Resumable(g) ==
    g.state = "used" /\ g.stands /\ device = "active" /\ ~seen /\ Valid(First, now)

ServeClaim(q) ==
    /\ \/ \E g \in grants :
            /\ g.id = q.id /\ FirstClaim(g)
            /\ device' = "active"
            /\ cred' = Issued(TRUE)
            /\ grants' = (grants \ {g}) \cup {[g EXCEPT !.state = "used"]}
            /\ AnswerClaim(q, "claimed")
       \/ /\ \E g \in grants : g.id = q.id /\ Resumable(g)
          /\ AnswerClaim(q, "claimed")
          /\ UNCHANGED <<device, cred, grants>>
       \/ /\ ~ \E g \in grants : g.id = q.id /\ (FirstClaim(g) \/ Resumable(g))
          /\ AnswerClaim(q, "idle")
          /\ UNCHANGED <<device, cred, grants>>
    /\ UNCHANGED <<now, rot, retired, wire, agent, seen, receipt, loaded>>

-----------------------------------------------------------------------------
(* Commands of the Mac *)

\* configure_server: an identity for a Mac whose keychain is empty.
ConfigureServer ==
    /\ step = "unconfigured" /\ keychain = 0
    /\ step' = "idle"
    /\ UNCHANGED <<vars, receipt, loaded, enrollment>>

\* provision of the installer: its fixed server, and only where there is no
\* profile, no receipt and no credential; any other Mac stays as it is.
Provision == receipt = "none" /\ ConfigureServer

\* _enroll, or agent-enroll of the CLI, up to the claim: no receipt, an empty
\* keychain, and the collector's configuration in place.
BeginEnroll(g) ==
    /\ step = "idle" /\ receipt = "none" /\ keychain = 0
    /\ step' = "claiming"
    /\ claims' = claims \cup {[id |-> g.id, waited |-> TRUE]}
    /\ UNCHANGED <<vars, receipt, loaded, grants, seen>>

\* store_initial.
StoreInitial ==
    /\ step = "claimed" /\ keychain = 0
    /\ keychain' = First
    /\ step' = "stored"
    /\ UNCHANGED <<now, server, pending, pc, held, reply, wire, failures, receipt, loaded,
                   enrollment>>

\* The app's receipt says "configured" before the activation; the CLI writes
\* none.
WriteReceipt ==
    /\ step = "stored"
    /\ receipt' \in {"configured", "none"}
    /\ step' = "checking"
    /\ UNCHANGED <<vars, loaded, enrollment>>

\* _finish_activation.  Where the daemon is loaded and the receipt says
\* "reporting" it is one more run, as DaemonRun.
FinishActivation ==
    /\ step = "idle"
    /\ receipt = "configured" \/ (receipt = "reporting" /\ ~loaded)
    /\ step' = "checking"
    /\ UNCHANGED <<vars, receipt, loaded, enrollment>>

\* agent-activate of an operator, where there is no receipt.
AgentActivate ==
    /\ step = "idle" /\ receipt = "none" /\ keychain # 0 /\ ~loaded
    /\ step' = "checking"
    /\ UNCHANGED <<vars, receipt, loaded, enrollment>>

\* activate: the credentials must be there, then the collector runs once.
CheckIn ==
    /\ step = "checking"
    /\ \/ keychain # 0 /\ StartRun /\ step' = "running"
       \/ keychain = 0 /\ step' = "idle" /\ UNCHANGED vars
    /\ UNCHANGED <<receipt, loaded, enrollment>>

\* The exit status of that run, when it ends.
Verdict ==
    IF step # "running" \/ pc' # "idle" THEN step
    ELSE IF reply \in {"nothing", "ok"} THEN "verified" ELSE "idle"

\* enable and bootstrap, or kickstart if the daemon was loaded before.
LoadDaemon ==
    /\ step = "verified" /\ pc = "idle"
    /\ loaded' = TRUE
    /\ step' = "loaded"
    /\ UNCHANGED <<vars, receipt, enrollment>>

\* The receipt becomes "reporting".
MarkReporting ==
    /\ step = "loaded"
    /\ receipt' = IF receipt = "none" THEN "none" ELSE "reporting"
    /\ step' = "idle"
    /\ UNCHANGED <<vars, loaded, enrollment>>

\* uninstall: the daemon is stopped (FailRun ends a run that is under way),
Uninstall ==
    /\ step = "idle" /\ pc = "idle"
    /\ loaded' = FALSE
    /\ step' = "stopped"
    /\ UNCHANGED <<vars, receipt, enrollment>>

\* the keychain items are deleted,
DeleteKeychain ==
    /\ step = "stopped"
    /\ keychain' = 0
    /\ step' = "wiped"
    /\ UNCHANGED <<now, server, pending, pc, held, reply, wire, failures, receipt, loaded,
                   enrollment>>

\* and the package's files with them: profile and receipt, the configuration
\* and the helper at the end.  The spool stays unless it is asked for.
RemoveFiles ==
    /\ step = "wiped"
    /\ receipt' = "none"
    /\ step' = "gone"
    /\ UNCHANGED <<vars, loaded, enrollment>>

\* The command is killed or one of its steps fails.  Its claim is lost or
\* still under way; what it has done stays, so it can be run again.
FailCommand ==
    /\ step \notin {"unconfigured", "idle", "running", "gone"}
    /\ failures < MaxFailures
    /\ failures' = failures + 1
    /\ step' = "idle"
    /\ LET mine == {q \in claims : q.waited}
           late == {[q EXCEPT !.waited = FALSE] : q \in mine}
       IN  \/ claims' = claims \ mine
           \/ /\ Cardinality((claims \ mine) \cup late) + Cardinality(wire) <= MaxLate
              /\ claims' = (claims \ mine) \cup late
    /\ UNCHANGED <<now, server, keychain, pending, pc, held, reply, wire, receipt, loaded,
                   grants, seen>>

-----------------------------------------------------------------------------
(* The device of CredentialRotation *)

Administer ==
    /\ \/ Initiate
       \/ \E r \in Rotations : Cancel(r)
       \/ \E c \in Creds : RevokeCredential(c)
    /\ UNCHANGED <<mac, enrollment>>

\* revoke_device also revokes the open grants that name the device.
RevokeEnrolled ==
    /\ RevokeDevice
    /\ grants' = {g \in grants : g.state = "used"}
    /\ UNCHANGED <<mac, claims, seen>>

\* authenticate sets last_seen_at.
ServeDevice ==
    \E q \in wire :
        /\ \/ Authenticate(q) /\ seen' = (seen \/ Accepted(q))
           \/ (Poll(q) \/ Acknowledge(q)) /\ seen' = seen
        /\ UNCHANGED <<mac, grants, claims>>

\* launchd starts a run while the daemon is loaded.
DaemonRun ==
    /\ loaded /\ step # "running" /\ keychain # 0
    /\ StartRun
    /\ UNCHANGED <<mac, enrollment>>

RunStep ==
    /\ HandlePoll \/ ReplacePair \/ SendAck \/ HandleAck
    /\ step' = Verdict
    /\ UNCHANGED <<receipt, loaded, enrollment>>

FailDeviceRun ==
    /\ FailRun
    /\ step' = IF step = "running" THEN "idle" ELSE step
    /\ UNCHANGED <<receipt, loaded, enrollment>>

Pass ==
    /\ Tick
    /\ grants' = {g \in grants : g.expires > now'}
    /\ UNCHANGED <<mac, claims, seen>>

EnrollmentNext ==
    \/ RequestGrant \/ LoseAuthority
    \/ \E g \in grants : RevokeGrant(g) \/ BeginEnroll(g)
    \/ \E q \in claims : ServeClaim(q)
    \/ Provision \/ ConfigureServer
    \/ StoreInitial \/ WriteReceipt \/ FinishActivation \/ AgentActivate
    \/ CheckIn \/ LoadDaemon \/ MarkReporting
    \/ Uninstall \/ DeleteKeychain \/ RemoveFiles
    \/ FailCommand
    \/ Administer \/ RevokeEnrolled \/ ServeDevice
    \/ DaemonRun \/ RunStep \/ FailDeviceRun
    \/ Pass

EnrollmentSpec == EnrollmentInit /\ [][EnrollmentNext]_allVars

\* launchd starts a run every minute while the daemon is loaded, the appliance
\* serves what reaches it and time passes; failures are bounded,
\* administrators and the Mac's users may do nothing.
FairSpec ==
    /\ EnrollmentSpec
    /\ WF_allVars(ServeDevice \/ RunStep \/ DaemonRun)
    /\ WF_allVars(Pass)

-----------------------------------------------------------------------------
(* Properties *)

\* _resume_unchecked_grant returns "the original secret only until the
\* endpoint's first authenticated use", however the Mac was interrupted, and
\* the command it is handed to overwrites no credential.  What the Mac says is
\* so: a daemon is loaded, and a receipt says "reporting", only after the
\* appliance has authenticated the device.
EnrollmentHonest ==
    [][/\ step # "claimed" /\ step' = "claimed" => ~seen
       /\ step = "claimed" => keychain = 0
       /\ loaded' \/ receipt' = "reporting" => seen']_allVars

\* A live rotation does not block its device for ever: it is acknowledged
\* or, once its window has passed, cancelled by the agent's next poll,
\* unless the Mac's daemon is stopped or the keychain's credential no longer
\* signs anything.
RotationSettles ==
    loaded /\ (\E r \in Rotations : Live(r)) ~>
        \/ \A r \in Rotations : ~Live(r)
        \/ ~loaded \/ keychain = 0
        \/ cred[keychain].status = "revoked" \/ cred[keychain].expires <= now

=============================================================================
