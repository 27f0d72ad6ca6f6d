------------------------- MODULE CredentialRotation -------------------------
(***************************************************************************)
(* Rotation of one device's signing credential: the appliance's            *)
(* device_credentials and device_credential_rotations tables, the agent's  *)
(* System keychain pair and its spool row, and the signed requests between *)
(* them.  Every server request is two transactions (authenticate, then the *)
(* service), so other requests and operators may come between.  The agent  *)
(* is started by launchd for one run at a time and each run loads its      *)
(* credential from the keychain; any failure or crash ends the run.  An    *)
(* abandoned request may still reach the server within the clock-skew      *)
(* window.  A nonce is never accepted twice, so no request is served twice.*)
(***************************************************************************)
EXTENDS Naturals, FiniteSets

CONSTANTS
    MaxRotations,   \* bound on rotations started
    MaxDeliveries,  \* _MAX_DELIVERIES, 10 in the code
    Window,         \* the delivery window
    Lifetimes,      \* credential lifetimes an administrator may ask for
    Skew,           \* the authenticator's accepted clock skew
    MaxTime,        \* bound on the clock
    MaxFailures,    \* bound on crashed or failed runs
    MaxLate,        \* bound on abandoned requests still under way
    MaxRetired      \* bound on credentials an administrator retires

ASSUME RotationAssumption ==
    /\ {MaxRotations, MaxDeliveries, Window, Skew, MaxTime,
        MaxFailures, MaxLate, MaxRetired} \subseteq Nat
    /\ Lifetimes \subseteq Nat
    /\ Window > 0 /\ MaxDeliveries > 0

VARIABLES
    now,        \* the clock of appliance and endpoint
    device,     \* devices.status, none before enrollment
    cred,       \* device_credentials by id: status and expires_at
    rot,        \* device_credential_rotations by id
    keychain,   \* the credential of the effective keychain pair, 0 if empty
    pending,    \* the agent's pending_credential_rotation row, 0 when absent
    pc,         \* where the agent's run is
    held,       \* the rotation the run works on, 0 for none
    reply,      \* the answer that reached the run and is not yet handled
    wire,       \* requests sent and not answered
    failures,   \* failed runs so far
    retired     \* credentials retired by an administrator so far

vars == <<now, device, cred, rot, keychain, pending, pc, held, reply, wire,
          failures, retired>>
server == <<device, cred, rot, retired>>
agent == <<keychain, pending, pc, held, reply, failures>>

Rotations == 1..MaxRotations

\* The first credential is enrollment's; rotation r issues number r + 1.
Creds == 1..(MaxRotations + 1)
First == 1
Replacement(r) == r + 1

Live(r) == rot[r].status \in {"pending", "delivered"}

\* activated_at, revoked_at and expires_at as every query reads them.
Valid(c, t) == cred[c].status = "active" /\ cred[c].expires > t

Request == [kind : {"poll", "ack"}, cred : Creds, sent : 0..MaxTime,
            phase : {"sent", "authenticated"}, at : 0..MaxTime,
            waited : {"yes", "no"}]

NewRequest(kind, c) ==
    [kind |-> kind, cred |-> c, sent |-> now, phase |-> "sent", at |-> 0,
     waited |-> "yes"]

NothingRotated ==
    /\ now = 0
    /\ rot = [r \in Rotations |-> [status |-> "absent", pred |-> First,
                                   expires |-> 0, count |-> 0]]
    /\ pending = 0 /\ pc = "idle" /\ held = 0 /\ reply = "none"
    /\ wire = {} /\ retired = 0

\* No credential, or the one of an enrollment.
Issued(holds) ==
    [c \in Creds |-> IF c = First /\ holds
                     THEN [status |-> "active", expires |-> MaxTime + 1]
                     ELSE [status |-> "absent", expires |-> 0]]

Enrolled == device = "active" /\ cred = Issued(TRUE) /\ keychain = First

Init == NothingRotated /\ Enrolled /\ failures = 0

-----------------------------------------------------------------------------
(* Administrators *)

\* initiate: exactly one valid credential and no live rotation.
Initiate ==
    \E r \in Rotations, life \in Lifetimes :
        /\ now + Window < MaxTime
        /\ device = "active"
        /\ rot[r].status = "absent"
        /\ \A q \in Rotations : q < r => rot[q].status # "absent"
        /\ Cardinality({c \in Creds : Valid(c, now)}) = 1
        /\ ~ \E q \in Rotations : Live(q)
        /\ rot' = [rot EXCEPT ![r] =
                      [status |-> "pending",
                       pred |-> CHOOSE c \in Creds : Valid(c, now),
                       expires |-> now + Window, count |-> 0]]
        /\ cred' = [cred EXCEPT ![Replacement(r)] =
                      [status |-> "issued", expires |-> now + life]]
        /\ UNCHANGED <<now, device, retired, wire, agent>>

CancelRowUndelivered(r) ==
    /\ cred' = cred
    /\ rot' = [rot EXCEPT ![r].status = IF @ = "pending" THEN "cancelled" ELSE @]

\* _cancel_row: the replacement is revoked unless it was activated.
CancelRow(r) ==
    /\ cred' = IF cred[Replacement(r)].status = "issued"
               THEN [cred EXCEPT ![Replacement(r)].status = "revoked"]
               ELSE cred
    /\ rot' = [rot EXCEPT ![r].status = "cancelled"]

\* cancel: only while nothing has been delivered.
Cancel(r) ==
    /\ rot[r].status = "pending"
    /\ CancelRow(r)
    /\ UNCHANGED <<now, device, retired, wire, agent>>

OtherUnrevoked(c) == \E d \in Creds \ {c} : cred[d].status \in {"issued", "active"}

OtherValid(c) == \E d \in Creds \ {c} : Valid(d, now)

\* revoke_credential: some other credential must be valid.
RevokeCredential(c) ==
    /\ retired < MaxRetired
    /\ cred[c].status \in {"issued", "active"}
    /\ OtherValid(c)
    /\ cred' = [cred EXCEPT ![c].status = "revoked"]
    /\ retired' = retired + 1
    /\ UNCHANGED <<now, device, rot, wire, agent>>

\* revoke_device: every credential and every live rotation goes with it.
RevokeDevice ==
    /\ device = "active"
    /\ device' = "revoked"
    /\ cred' = [c \in Creds |-> IF cred[c].status = "absent" THEN cred[c]
                                ELSE [cred[c] EXCEPT !.status = "revoked"]]
    /\ rot' = [r \in Rotations |-> IF Live(r)
                                   THEN [rot[r] EXCEPT !.status = "cancelled"]
                                   ELSE rot[r]]
    /\ UNCHANGED <<now, retired, wire, agent>>

-----------------------------------------------------------------------------
(* Requests at the appliance *)

\* The answer reaches the run that waits for it and nobody otherwise.
Answer(q, what, r) ==
    IF q.waited = "yes"
    THEN reply' = what /\ held' = r
    ELSE UNCHANGED <<reply, held>>

\* The rotation a replacement belongs to, while the appliance awaits its
\* acknowledgement: the one case where an inactive credential may sign.
AwaitsAck(c) == \E r \in Rotations : Replacement(r) = c /\ rot[r].status = "delivered"

Accepted(q) ==
    /\ now - q.sent <= Skew
    /\ device = "active"
    /\ \/ cred[q.cred].status = "active"
       \/ /\ cred[q.cred].status = "issued"
          /\ q.kind = "ack"
          /\ AwaitsAck(q.cred)
    /\ cred[q.cred].expires > now

\* authenticate, a transaction of its own; the clock it reads is the one
\* the service goes on to use.
Authenticate(q) ==
    /\ q.phase = "sent"
    /\ \/ /\ Accepted(q)
          /\ wire' = (wire \ {q}) \cup {[q EXCEPT !.phase = "authenticated", !.at = now]}
          /\ UNCHANGED <<reply, held>>
       \/ /\ ~Accepted(q)
          /\ wire' = wire \ {q}
          /\ Answer(q, "error", held)
    /\ UNCHANGED <<now, server, keychain, pending, pc, failures>>

RedeliverableOnceMore(r) == rot[r].count <= MaxDeliveries

Redeliverable(r) == rot[r].count < MaxDeliveries

\* poll of the one live rotation, by the credential it was bound to.
PollRow(q, r) ==
    \/ /\ rot[r].pred # q.cred
       /\ Answer(q, "error", held)
       /\ UNCHANGED <<cred, rot>>
    \/ /\ rot[r].pred = q.cred
       /\ rot[r].expires <= q.at
       /\ CancelRow(r)
       /\ Answer(q, "nothing", held)
    \/ /\ rot[r].pred = q.cred
       /\ rot[r].expires > q.at
       /\ \/ ~Redeliverable(r)
          \/ rot[r].status = "pending" /\ cred[q.cred].status # "active"
       /\ Answer(q, "error", held)
       /\ UNCHANGED <<cred, rot>>
    \/ /\ rot[r].pred = q.cred
       /\ rot[r].expires > q.at
       /\ Redeliverable(r)
       /\ rot[r].status = "pending" => cred[q.cred].status = "active"
       /\ rot' = [rot EXCEPT ![r].status = "delivered", ![r].count = @ + 1]
       /\ Answer(q, "envelope", r)
       /\ UNCHANGED cred

Poll(q) ==
    /\ q.phase = "authenticated"
    /\ q.kind = "poll"
    /\ \/ \E r \in Rotations : Live(r) /\ PollRow(q, r)
       \/ /\ ~ \E r \in Rotations : Live(r)
          /\ Answer(q, "nothing", held)
          /\ UNCHANGED <<cred, rot>>
    /\ wire' = wire \ {q}
    /\ UNCHANGED <<now, device, retired, keychain, pending, pc, failures>>

\* The row counts acknowledge insists on, or it rolls back.
AckReady(q, r) ==
    /\ cred[q.cred].status = "issued"
    /\ cred[q.cred].expires > q.at
    /\ cred[rot[r].pred].status = "active"

\* acknowledge a delivered rotation: all three updates or none.
AckRow(q, r) ==
    \/ /\ AckReady(q, r)
       /\ cred' = [cred EXCEPT ![q.cred].status = "active",
                               ![rot[r].pred].status = "revoked"]
       /\ rot' = [rot EXCEPT ![r].status = "acknowledged"]
       /\ Answer(q, "ok", held)
    \/ /\ ~AckReady(q, r)
       /\ Answer(q, "error", held)
       /\ UNCHANGED <<cred, rot>>

\* acknowledge by the replacement; a repeated one succeeds and changes
\* nothing.  (The agent signs acknowledgements with replacements only, so
\* the answer to a credential without a rotation is never needed.)
Acknowledge(q) ==
    /\ q.phase = "authenticated"
    /\ q.kind = "ack"
    /\ \E r \in Rotations :
        /\ Replacement(r) = q.cred
        /\ \/ rot[r].status = "delivered" /\ AckRow(q, r)
           \/ /\ rot[r].status # "delivered"
              /\ Answer(q, IF rot[r].status = "acknowledged" THEN "ok" ELSE "error", held)
              /\ UNCHANGED <<cred, rot>>
    /\ wire' = wire \ {q}
    /\ UNCHANGED <<now, device, retired, keychain, pending, pc, failures>>

-----------------------------------------------------------------------------
(* A run of the agent: _handle_credential_rotation *)

Send(kind, c) == wire' = wire \cup {NewRequest(kind, c)}

\* A run that finds its recorded replacement in the keychain finishes that
\* rotation; any other run polls.
StartRun ==
    /\ pc = "idle"
    /\ \/ /\ pending # 0
          /\ keychain = Replacement(pending)
          /\ Send("ack", keychain)
          /\ pc' = "acking"
          /\ held' = pending
       \/ /\ ~(pending # 0 /\ keychain = Replacement(pending))
          /\ Send("poll", keychain)
          /\ pc' = "polling"
          /\ UNCHANGED held
    /\ UNCHANGED <<now, server, keychain, pending, reply, failures>>

EndRun == pc' = "idle" /\ held' = 0 /\ reply' = "none"

\* decrypt_rotation_envelope and the comparison with the recorded row.
Usable(r) ==
    /\ rot[r].expires > now
    /\ cred[Replacement(r)].expires > now
    /\ pending = 0 \/ pending = r

\* The row is recorded before the keychain changes.
HandlePoll ==
    /\ pc = "polling"
    /\ reply # "none"
    /\ \/ /\ reply = "envelope"
          /\ Usable(held)
          /\ pending' = held
          /\ pc' = "recorded"
          /\ reply' = "none"
          /\ UNCHANGED held
       \/ /\ ~(reply = "envelope" /\ Usable(held))
          /\ EndRun
          /\ UNCHANGED pending
    /\ UNCHANGED <<now, server, keychain, wire, failures>>

\* replaceCredentialPair of the signed helper compares the current pair with
\* the predecessor before it writes.
PairIsPredecessor == keychain = rot[held].pred

\* replace_pair asks the helper for the swap.
ReplacePair ==
    /\ pc = "recorded"
    /\ PairIsPredecessor
    /\ keychain' = Replacement(held)
    /\ pc' = "swapped"
    /\ UNCHANGED <<now, server, pending, held, reply, wire, failures>>

SendAckUnswapped ==
    /\ pc \in {"recorded", "swapped"}
    /\ Send("ack", Replacement(held))
    /\ pc' = "acking"
    /\ UNCHANGED <<now, server, keychain, pending, held, reply, failures>>

SendAck ==
    /\ pc = "swapped"
    /\ Send("ack", Replacement(held))
    /\ pc' = "acking"
    /\ UNCHANGED <<now, server, keychain, pending, held, reply, failures>>

HandleAckUnchecked ==
    /\ pc = "acking"
    /\ reply # "none"
    /\ pending' = IF pending = held THEN 0 ELSE pending
    /\ EndRun
    /\ UNCHANGED <<now, server, keychain, wire, failures>>

\* clear_credential_rotation only after the appliance has answered.
HandleAck ==
    /\ pc = "acking"
    /\ reply # "none"
    /\ pending' = IF reply = "ok" /\ pending = held THEN 0 ELSE pending
    /\ EndRun
    /\ UNCHANGED <<now, server, keychain, wire, failures>>

\* A crash, a lost request or answer, a timeout or a failed local write
\* ends the run.  Its request is lost or still under way.
FailRun ==
    /\ pc # "idle"
    /\ failures < MaxFailures
    /\ failures' = failures + 1
    /\ EndRun
    /\ LET mine == {q \in wire : q.waited = "yes"}
           late == {[q EXCEPT !.waited = "no"] : q \in mine}
       IN  \/ wire' = wire \ mine
           \/ /\ Cardinality((wire \ mine) \cup late) <= MaxLate
              /\ wire' = (wire \ mine) \cup late
    /\ UNCHANGED <<now, server, keychain, pending>>

Tick ==
    /\ now < MaxTime
    /\ now' = now + 1
    /\ UNCHANGED <<server, agent, wire>>

ServeRequest == \E q \in wire : Authenticate(q) \/ Poll(q) \/ Acknowledge(q)
AgentStep == StartRun \/ HandlePoll \/ ReplacePair \/ SendAck \/ HandleAck

Next ==
    \/ Initiate
    \/ \E r \in Rotations : Cancel(r)
    \/ \E c \in Creds : RevokeCredential(c)
    \/ RevokeDevice
    \/ ServeRequest
    \/ AgentStep
    \/ FailRun
    \/ Tick

Spec == Init /\ [][Next]_vars

-----------------------------------------------------------------------------
(* Properties *)

\* Every row, credential and request has the values its column allows.
TypeOK ==
    /\ now \in 0..MaxTime
    /\ device \in {"none", "active", "revoked"}
    /\ cred \in [Creds -> [status : {"absent", "issued", "active", "revoked"},
                           expires : Nat]]
    /\ rot \in [Rotations -> [status : {"absent", "pending", "delivered",
                                        "acknowledged", "cancelled"},
                              pred : Creds, expires : Nat, count : 0..MaxDeliveries]]
    /\ keychain \in Creds \cup {0}
    /\ pending \in 0..MaxRotations
    /\ pc \in {"idle", "polling", "recorded", "swapped", "acking"}
    /\ held \in 0..MaxRotations
    /\ reply \in {"none", "nothing", "error", "envelope", "ok"}
    /\ wire \subseteq Request
    /\ failures \in 0..MaxFailures
    /\ retired \in 0..MaxRetired

\* However polls, acknowledgements, cancellations and retirements interleave
\* between authentication and service, an active device has exactly one
\* activated credential, and it is the predecessor of the live rotation
\* (acknowledge activates and revokes in one transaction).
OneActiveCredential ==
    LET Activated == {c \in Creds : cred[c].status = "active"}
    IN  /\ device = "active" => Cardinality(Activated) = 1
        /\ device # "active" => Activated = {}
        /\ \A r \in Rotations : Live(r) => rot[r].pred \in Activated

\* A crash at any point leaves the agent able to finish: while the keychain
\* holds a replacement the appliance has not activated, the spool still
\* names that rotation, so the next run acknowledges instead of polling.
SwapIsRecorded ==
    keychain # 0 /\ cred[keychain].status = "issued" =>
        pending # 0 /\ Replacement(pending) = keychain

\* The agent never falls behind the appliance: no acknowledgement retires
\* the credential the keychain still holds.  A revoked keychain credential
\* of an active device is a replacement that was withdrawn from the agent
\* before it could acknowledge: retired by an administrator, or cancelled
\* by a poll that its predecessor sent before the swap.
KeychainNotBehind ==
    device = "active" /\ keychain # 0 /\ cred[keychain].status = "revoked" =>
        \E r \in Rotations :
            /\ Replacement(r) = keychain
            /\ rot[r].status \in {"delivered", "cancelled"}

\* revoke_credential retires a credential "only when another active
\* credential prevents lockout": the keychain of an active device holds the
\* activated credential or a replacement whose acknowledgement is awaited.
NoLockout ==
    device = "active" =>
        \/ cred[keychain].status = "active"
        \/ cred[keychain].status = "issued" /\ AwaitsAck(keychain)

=============================================================================
