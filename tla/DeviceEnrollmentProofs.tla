----------------------- MODULE DeviceEnrollmentProofs -----------------------
(***************************************************************************)
(* Proofs about DeviceEnrollment and the rotation it composes.  The        *)
(* invariant has four parts: what the appliance's tables say of each other *)
(* (Tables), where the agent's run and its spool row stand against them    *)
(* (Agent), what a request that is still under way can do (Wire), and what *)
(* enrollment may still hand out (Enrolling).                              *)
(***************************************************************************)
EXTENDS DeviceEnrollment, FiniteSetTheorems, TLAPS

\* The agent may have seen the envelope of rotation r.
Sent(r) == rot[r].status \notin {"absent", "pending"}

OneLive == \A q, r \in Rotations : Live(q) /\ Live(r) => q = r

\* An absent row goes with an absent credential, an issued one with a live
\* row, an activated one with an acknowledged row.
RowsMatch ==
    \A r \in Rotations :
        /\ rot[r].status = "absent" <=> cred[Replacement(r)].status = "absent"
        /\ cred[Replacement(r)].status = "issued" => Live(r)
        /\ cred[Replacement(r)].status = "active" => rot[r].status = "acknowledged"
        /\ rot[r].status = "acknowledged" =>
              cred[Replacement(r)].status # "issued" /\ cred[rot[r].pred].status = "revoked"

\* A predecessor was activated when its rotation began.
Predecessors ==
    \A r \in Rotations :
        /\ Live(r) => cred[rot[r].pred].status = "active"
        /\ rot[r].status # "absent" =>
              \A q \in Rotations : Replacement(q) = rot[r].pred => rot[q].status = "acknowledged"

OnlyActive(c) == \A d \in Creds : cred[d].status = "active" <=> d = c

Tables ==
    /\ OneLive /\ RowsMatch /\ Predecessors
    /\ cred[First].status # "issued"
    /\ device = "active" => \E c \in Creds : OnlyActive(c)
    /\ device # "active" => \A c \in Creds : cred[c].status # "active"
    /\ device = "none" => \A c \in Creds : cred[c].status = "absent"

Agent ==
    /\ \A r \in Rotations : keychain = Replacement(r) => Sent(r)
    /\ pending # 0 => Sent(pending)
    /\ pc = "idle" => held = 0 /\ reply = "none"
    /\ keychain = 0 => pc = "idle"
    /\ pc \in {"recorded", "swapped", "acking"} => held # 0 /\ pending = held
    /\ pc \in {"swapped", "acking"} => keychain = Replacement(held)
    /\ pc \in {"recorded", "swapped"} => reply = "none"
    /\ pc = "polling" /\ reply = "envelope" => held # 0 /\ Sent(held)
    /\ pc = "acking" /\ reply = "ok" => rot[held].status = "acknowledged"

Wire ==
    /\ \A q \in wire : q.waited = "yes" =>
          /\ reply = "none"
          /\ q.kind = "poll" => pc = "polling"
          /\ q.kind = "ack" => pc = "acking" /\ q.cred = Replacement(held)
    /\ \A p, q \in wire : p.waited = "yes" /\ q.waited = "yes" => p = q
    /\ \A q \in wire : q.kind = "ack" => \E r \in Rotations : Replacement(r) = q.cred /\ Sent(r)
    /\ \A q \in wire : \A r \in Rotations :
          q.kind = "ack" /\ q.cred = Replacement(r) /\ rot[r].status = "delivered" =>
              pending = r /\ keychain \in {0, Replacement(r)}

\* What shows that the appliance has authenticated the device.
Witnessed ==
    \/ \E r \in Rotations : rot[r].status \in {"delivered", "acknowledged"}
    \/ \E q \in wire : q.phase = "authenticated"
    \/ pending # 0 \/ reply \in {"nothing", "envelope", "ok"}
    \/ step \in {"verified", "loaded"} \/ loaded \/ receipt = "reporting"

ClaimFields == {"id", "waited"}

Enrolling ==
    /\ seen \in BOOLEAN /\ loaded \in BOOLEAN
    /\ Witnessed => seen
    /\ device = "none" => ~seen /\ keychain = 0 /\ wire = {}
    /\ \A q \in claims : q = [x \in ClaimFields |-> q[x]]
    /\ \A q \in claims : q.waited => step = "claiming"
    /\ \A p, q \in claims : p.waited /\ q.waited => p = q
    /\ step \in {"claiming", "claimed"} => keychain = 0
    /\ step = "claimed" => /\ pending = 0 /\ device # "none"
                           /\ \A r \in Rotations : rot[r].status # "acknowledged"
    /\ step = "stopped" => pc = "idle" /\ ~loaded

Inv == TypeOK /\ Tables /\ Agent /\ Wire /\ Enrolling /\ SwapIsRecorded /\ KeychainNotBehind

-----------------------------------------------------------------------------
(* Numbers and rows *)

\* Every credential is the first one or the replacement of one rotation.
LEMMA Numbers ==
    /\ First \in Creds /\ 0 \notin Creds /\ 0 \notin Rotations
    /\ 0..MaxRotations = Rotations \cup {0}
    /\ \A r \in Rotations : Replacement(r) \in Creds /\ Replacement(r) # First
    /\ \A q, r \in Rotations : Replacement(q) = Replacement(r) => q = r
    /\ \A c \in Creds : c = First \/ \E r \in Rotations : c = Replacement(r)
<1>0. MaxRotations \in Nat
  BY RotationAssumption
<1>1. /\ First \in Creds /\ 0 \notin Creds /\ 0 \notin Rotations
      /\ 0..MaxRotations = Rotations \cup {0}
  BY <1>0 DEF Rotations, Creds, First
<1>2. \A r \in Rotations : Replacement(r) \in Creds /\ Replacement(r) # First
  BY <1>0 DEF Rotations, Creds, First, Replacement
<1>3. \A q, r \in Rotations : Replacement(q) = Replacement(r) => q = r
  BY <1>0 DEF Rotations, Replacement
<1>4. ASSUME NEW c \in Creds, c # First
      PROVE  \E r \in Rotations : c = Replacement(r)
  <2>1. c - 1 \in Rotations /\ c = (c - 1) + 1
    BY <1>0, <1>4 DEF Rotations, Creds, First
  <2> QED BY <2>1 DEF Replacement
<1> QED BY <1>1, <1>2, <1>3, <1>4

CredRows == [Creds -> [status : {"absent", "issued", "active", "revoked"}, expires : Nat]]
RotRows == [Rotations -> [status : {"absent", "pending", "delivered", "acknowledged", "cancelled"},
                          pred : Creds, expires : Nat, count : 0..MaxDeliveries]]

\* One credential is revoked.
LEMMA Revoked ==
    ASSUME NEW rows \in CredRows, NEW c \in Creds
    PROVE  LET new == [rows EXCEPT ![c].status = "revoked"]
           IN  /\ new \in CredRows /\ new[c].status = "revoked"
               /\ \A d \in Creds : d # c => new[d] = rows[d]
  BY DEF CredRows

\* The types of the two tables.
LEMMA RowTypes ==
    ASSUME TypeOK
    PROVE  cred \in CredRows /\ rot \in RotRows
  BY DEF TypeOK, CredRows, RotRows

-----------------------------------------------------------------------------
(* Steps of the appliance's tables *)

\* The rows that a step of an administrator may leave behind for the agent.
Onward ==
    /\ \A r \in Rotations : Sent(r) => Sent(r)'
    /\ \A r \in Rotations : rot'[r].status = "acknowledged" <=> rot[r].status = "acknowledged"
    /\ \A r \in Rotations : rot'[r].status = "delivered" => rot[r].status = "delivered"
    /\ \A c \in Creds : cred[c].status # "absent" => cred'[c].status # "absent"
    /\ \A c \in Creds : cred'[c].status = "issued" => cred[c].status \in {"absent", "issued"}

\* initiate adds a pending row and an issued credential.
LEMMA InitiateTables ==
    ASSUME Inv, Initiate
    PROVE  /\ Tables' /\ Onward /\ cred' \in CredRows /\ rot' \in RotRows /\ device' = device
           /\ \A c \in Creds : cred'[c].status = "revoked" => cred[c].status = "revoked"
           /\ \A r \in Rotations : rot'[r].status \in {"delivered", "cancelled"}
                                       <=> rot[r].status \in {"delivered", "cancelled"}
<1>0. cred \in CredRows /\ rot \in RotRows /\ now \in Nat /\ Window \in Nat
  BY RowTypes, RotationAssumption DEF Inv, TypeOK
<1>1. PICK r \in Rotations, life \in Lifetimes :
        /\ device = "active"
        /\ rot[r].status = "absent"
        /\ Cardinality({c \in Creds : Valid(c, now)}) = 1
        /\ ~ \E q \in Rotations : Live(q)
        /\ rot' = [rot EXCEPT ![r] =
                      [status |-> "pending",
                       pred |-> CHOOSE c \in Creds : Valid(c, now),
                       expires |-> now + Window, count |-> 0]]
        /\ cred' = [cred EXCEPT ![Replacement(r)] =
                      [status |-> "issued", expires |-> now + life]]
        /\ device' = device
  BY DEF Initiate
<1> DEFINE old == CHOOSE c \in Creds : Valid(c, now)
           new == Replacement(r)
<1>2. {c \in Creds : Valid(c, now)} # {}
  BY <1>1, FS_EmptySet
<1>3. old \in Creds /\ cred[old].status = "active"
  BY <1>2 DEF Valid
<1>4. new \in Creds /\ cred[new].status = "absent" /\ new # First
  BY <1>1, Numbers DEF Inv, Tables, RowsMatch
<1>5. now + Window \in Nat /\ now + life \in Nat /\ 0 \in 0..MaxDeliveries
  BY <1>0, RotationAssumption
<1> HIDE DEF old
<1>6. /\ rot' \in RotRows /\ rot'[r].status = "pending" /\ rot'[r].pred = old
      /\ \A q \in Rotations : q # r => rot'[q] = rot[q]
  <2>1. rot' = [rot EXCEPT ![r] = [status |-> "pending", pred |-> old,
                                   expires |-> now + Window, count |-> 0]]
    BY <1>1 DEF old
  <2> QED BY <1>0, <1>3, <1>5, <2>1 DEF RotRows
<1>7. /\ cred' \in CredRows /\ cred'[new].status = "issued"
      /\ \A c \in Creds : c # new => cred'[c] = cred[c]
  BY <1>0, <1>1, <1>4, <1>5 DEF CredRows
<1> HIDE DEF new
<1>8. \A q \in Rotations : q # r => Replacement(q) # new
  BY Numbers DEF new
<1>9. OneLive'
  BY <1>1, <1>6 DEF OneLive, Live
<1>10. RowsMatch'
  <2>1. ASSUME NEW q \in Rotations, q # r
        PROVE  /\ rot'[q].status = "absent" <=> cred'[Replacement(q)].status = "absent"
               /\ cred'[Replacement(q)].status = "issued" => Live(q)'
               /\ cred'[Replacement(q)].status = "active" => rot'[q].status = "acknowledged"
               /\ rot'[q].status = "acknowledged" =>
                     /\ cred'[Replacement(q)].status # "issued"
                     /\ cred'[rot'[q].pred].status = "revoked"
    <3>1. rot'[q] = rot[q] /\ cred'[Replacement(q)] = cred[Replacement(q)] /\ rot[q].pred \in Creds
      BY <1>0, <1>6, <1>7, <1>8, <2>1, Numbers DEF RotRows
    <3>2. cred[rot[q].pred].status = "revoked" => cred'[rot[q].pred].status = "revoked"
      BY <1>4, <1>7, <3>1
    <3> QED BY <3>1, <3>2 DEF Inv, Tables, RowsMatch, Live
  <2>2. /\ rot'[r].status = "pending" /\ cred'[Replacement(r)].status = "issued"
    BY <1>6, <1>7 DEF new
  <2> QED BY <2>1, <2>2 DEF RowsMatch, Live
<1>11. Predecessors'
  <2>1. ASSUME NEW q \in Rotations, rot[q].status = "acknowledged"
        PROVE  rot'[q].status = "acknowledged"
    BY <1>1, <1>6, <2>1
  <2>2. \A q \in Rotations : Replacement(q) = old => rot[q].status = "acknowledged"
    BY <1>3 DEF Inv, Tables, RowsMatch
  <2>3. cred'[old].status = "active"
    BY <1>3, <1>4, <1>7
  <2>4. ASSUME NEW q \in Rotations, q # r
        PROVE  /\ ~Live(q)'
               /\ rot'[q].status # "absent" =>
                     \A p \in Rotations : Replacement(p) = rot'[q].pred =>
                                              rot'[p].status = "acknowledged"
    BY <1>1, <1>6, <2>1, <2>4 DEF Inv, Tables, Predecessors, Live
  <2> QED BY <1>6, <2>1, <2>2, <2>3, <2>4 DEF Predecessors
<1>12. /\ cred'[First].status # "issued"
       /\ \E c \in Creds : OnlyActive(c)'
       /\ device' = "active"
  <2>1. PICK c \in Creds : OnlyActive(c)
    BY <1>1 DEF Inv, Tables
  <2>2. OnlyActive(c)'
    BY <1>4, <1>7, <2>1 DEF OnlyActive
  <2> QED BY <1>1, <1>4, <1>7, <2>2, Numbers DEF Inv, Tables
<1>13. Tables'
  BY <1>9, <1>10, <1>11, <1>12 DEF Tables
<1>14. Onward
  BY <1>1, <1>4, <1>6, <1>7 DEF Onward, Sent
<1> QED BY <1>1, <1>4, <1>6, <1>7, <1>13, <1>14

\* A live row is cancelled, and its replacement revoked if it was issued.
LEMMA CancelTables ==
    ASSUME Inv, NEW r \in Rotations, Live(r), CancelRow(r), device' = device
    PROVE  /\ Tables' /\ Onward /\ cred' \in CredRows /\ rot' \in RotRows
           /\ rot'[r].status = "cancelled"
           /\ \A q \in Rotations : q # r => rot'[q] = rot[q]
           /\ \A c \in Creds : c # Replacement(r) => cred'[c] = cred[c]
<1>0. cred \in CredRows /\ rot \in RotRows
  BY RowTypes DEF Inv
<1> DEFINE new == Replacement(r)
<1>1. /\ rot' \in RotRows /\ rot'[r].status = "cancelled" /\ rot'[r].pred = rot[r].pred
      /\ \A q \in Rotations : q # r => rot'[q] = rot[q]
  BY <1>0 DEF CancelRow, RotRows
<1>2. new \in Creds /\ new # First /\ \A q \in Rotations : q # r => Replacement(q) # new
  BY Numbers
<1>3. /\ cred' \in CredRows
      /\ \A c \in Creds : c # new => cred'[c] = cred[c]
      /\ cred'[new].status = IF cred[new].status = "issued" THEN "revoked" ELSE cred[new].status
  <2>1. CASE cred[new].status = "issued"
    BY <1>0, <1>2, <2>1 DEF CancelRow, CredRows
  <2>2. CASE cred[new].status # "issued"
    BY <1>0, <2>2 DEF CancelRow
  <2> QED BY <2>1, <2>2
<1>4. cred[new].status \in {"issued", "revoked"}
  BY <1>0, <1>2 DEF CredRows, Inv, Tables, RowsMatch, Live
<1>5. cred'[new].status = "revoked"
  BY <1>3, <1>4
<1> HIDE DEF new
<1>6. \A c \in Creds : /\ cred'[c].status = "active" <=> cred[c].status = "active"
                       /\ cred'[c].status = "absent" <=> cred[c].status = "absent"
                       /\ cred[c].status = "revoked" => cred'[c].status = "revoked"
                       /\ cred'[c].status = "issued" => cred[c].status = "issued"
  BY <1>3, <1>4, <1>5
<1>7. OneLive'
  BY <1>1 DEF OneLive, Live, Inv, Tables
<1>8. RowsMatch'
  <2>1. ASSUME NEW q \in Rotations, q # r
        PROVE  /\ rot'[q].status = "absent" <=> cred'[Replacement(q)].status = "absent"
               /\ cred'[Replacement(q)].status = "issued" => Live(q)'
               /\ cred'[Replacement(q)].status = "active" => rot'[q].status = "acknowledged"
               /\ rot'[q].status = "acknowledged" =>
                     /\ cred'[Replacement(q)].status # "issued"
                     /\ cred'[rot'[q].pred].status = "revoked"
    <3>1. rot'[q] = rot[q] /\ Replacement(q) \in Creds /\ rot[q].pred \in Creds
      BY <1>0, <1>1, <2>1, Numbers DEF RotRows
    <3> QED BY <1>6, <3>1 DEF Inv, Tables, RowsMatch, Live
  <2>2. rot'[r].status = "cancelled" /\ cred'[Replacement(r)].status = "revoked"
    BY <1>1, <1>5 DEF new
  <2> QED BY <2>1, <2>2 DEF RowsMatch, Live
<1>9. Predecessors'
  <2>1. ASSUME NEW q \in Rotations
        PROVE  /\ rot'[q].pred = rot[q].pred /\ (Live(q)' => Live(q))
               /\ rot[q].status = "acknowledged" => rot'[q].status = "acknowledged"
               /\ rot'[q].status # "absent" => rot[q].status # "absent"
               /\ rot[q].pred \in Creds
    BY <1>0, <1>1 DEF Live, RotRows
  <2> QED BY <1>6, <2>1 DEF Inv, Tables, Predecessors
<1>10. \A c \in Creds : OnlyActive(c) => OnlyActive(c)'
  BY <1>6 DEF OnlyActive
<1>11. Tables'
  BY <1>6, <1>7, <1>8, <1>9, <1>10, Numbers DEF Inv, Tables
<1>12. Onward
  BY <1>1, <1>6 DEF Onward, Sent, Live
<1> QED BY <1>1, <1>3, <1>11, <1>12 DEF new

\* Only a replacement that is not activated can be retired: another valid
\* credential is the only activated one.
LEMMA RevokeCredentialTables ==
    ASSUME Inv, NEW c \in Creds, RevokeCredential(c)
    PROVE  /\ Tables' /\ Onward /\ cred' \in CredRows /\ rot' = rot /\ device' = device
           /\ cred[c].status = "issued"
           /\ \A d \in Creds : d # c => cred'[d] = cred[d]
<1>0. cred \in CredRows /\ rot \in RotRows
  BY RowTypes DEF Inv
<1>1. /\ rot' = rot /\ device' = device /\ cred[c].status \in {"issued", "active"}
      /\ cred' = [cred EXCEPT ![c].status = "revoked"]
  BY DEF RevokeCredential
<1>2. PICK d \in Creds : d # c /\ cred[d].status = "active"
  BY DEF RevokeCredential, OtherValid, Valid
<1>3. cred[c].status = "issued"
  BY <1>1, <1>2 DEF Inv, Tables, OnlyActive
<1>4. /\ cred' \in CredRows /\ cred'[c].status = "revoked"
      /\ \A e \in Creds : e # c => cred'[e] = cred[e]
  BY <1>0, <1>1 DEF CredRows
<1>5. \A e \in Creds : /\ cred'[e].status = "active" <=> cred[e].status = "active"
                       /\ cred'[e].status = "absent" <=> cred[e].status = "absent"
                       /\ cred[e].status = "revoked" => cred'[e].status = "revoked"
                       /\ cred'[e].status = "issued" => cred[e].status = "issued"
  BY <1>3, <1>4
<1>6. \A q \in Rotations : Replacement(q) \in Creds /\ rot[q].pred \in Creds
  BY <1>0, Numbers DEF RotRows
<1>7. OneLive' /\ Predecessors'
  BY <1>1, <1>5, <1>6 DEF Inv, Tables, OneLive, Predecessors, Live
<1>8. RowsMatch'
  BY <1>1, <1>5, <1>6 DEF Inv, Tables, RowsMatch, Live
<1>9. \A e \in Creds : OnlyActive(e) => OnlyActive(e)'
  BY <1>5 DEF OnlyActive
<1>10. Tables'
  BY <1>1, <1>5, <1>7, <1>8, <1>9, Numbers DEF Inv, Tables
<1>11. Onward
  BY <1>1, <1>5 DEF Onward, Sent
<1> QED BY <1>1, <1>3, <1>4, <1>10, <1>11

\* revoke_device withdraws everything.
LEMMA RevokeDeviceTables ==
    ASSUME Inv, RevokeDevice
    PROVE  Tables' /\ Onward /\ cred' \in CredRows /\ rot' \in RotRows /\ device' = "revoked"
<1>0. cred \in CredRows /\ rot \in RotRows
  BY RowTypes DEF Inv
<1>1. /\ device' = "revoked"
      /\ cred' = [c \in Creds |-> IF cred[c].status = "absent" THEN cred[c]
                                  ELSE [cred[c] EXCEPT !.status = "revoked"]]
      /\ rot' = [r \in Rotations |-> IF Live(r) THEN [rot[r] EXCEPT !.status = "cancelled"]
                                     ELSE rot[r]]
  BY DEF RevokeDevice
<1>2. /\ cred' \in CredRows
      /\ \A c \in Creds : cred'[c].status = IF cred[c].status = "absent" THEN "absent" ELSE "revoked"
  BY <1>0, <1>1 DEF CredRows
<1>3. /\ rot' \in RotRows
      /\ \A r \in Rotations : /\ rot'[r].status = IF Live(r) THEN "cancelled" ELSE rot[r].status
                              /\ rot'[r].pred = rot[r].pred
  BY <1>0, <1>1 DEF RotRows
<1>4. \A q \in Rotations : /\ Replacement(q) \in Creds /\ rot[q].pred \in Creds
                           /\ ~Live(q)'
                           /\ rot'[q].status = "absent" <=> rot[q].status = "absent"
                           /\ rot'[q].status = "acknowledged" <=> rot[q].status = "acknowledged"
  BY <1>0, <1>3, Numbers DEF RotRows, Live
<1>5. OneLive' /\ Predecessors'
  BY <1>3, <1>4 DEF Inv, Tables, OneLive, Predecessors
<1>6. RowsMatch'
  BY <1>2, <1>3, <1>4 DEF Inv, Tables, RowsMatch
<1>7. Tables'
  BY <1>1, <1>2, <1>5, <1>6, Numbers DEF Inv, Tables
<1>8. Onward
  BY <1>2, <1>3, <1>4 DEF Onward, Sent, Live
<1> QED BY <1>1, <1>2, <1>3, <1>7, <1>8

\* The row that is delivered, for the first time or once more.
LEMMA DeliveredRow ==
    ASSUME NEW rows \in RotRows, NEW r \in Rotations, rows[r].count < MaxDeliveries
    PROVE  LET new == [rows EXCEPT ![r].status = "delivered", ![r].count = @ + 1]
           IN  /\ new \in RotRows /\ new[r].status = "delivered" /\ new[r].pred = rows[r].pred
               /\ \A q \in Rotations : q # r => new[q] = rows[q]
<1>1. rows[r].count + 1 \in 0..MaxDeliveries
  BY RotationAssumption DEF RotRows
<1> QED BY <1>1 DEF RotRows

\* The tables after a delivery.
LEMMA DeliverTables ==
    ASSUME Inv, NEW r \in Rotations, Live(r), cred' = cred, device' = device,
           rot'[r].status = "delivered", rot'[r].pred = rot[r].pred,
           \A q \in Rotations : q # r => rot'[q] = rot[q]
    PROVE  Tables'
<1>3. \A q \in Rotations : /\ rot'[q].pred = rot[q].pred /\ (Live(q)' <=> Live(q))
                           /\ rot'[q].status = "absent" <=> rot[q].status = "absent"
                           /\ rot'[q].status = "acknowledged" <=> rot[q].status = "acknowledged"
  BY DEF Live
<1>4. OneLive'
  BY <1>3 DEF Inv, Tables, OneLive
<1>5. Predecessors'
  BY <1>3 DEF Inv, Tables, Predecessors
<1>6. RowsMatch'
  BY <1>3 DEF Inv, Tables, RowsMatch
<1> QED BY <1>4, <1>5, <1>6 DEF Inv, Tables, OnlyActive

\* The credentials that acknowledge updates, and its row.
LEMMA AckCreds ==
    ASSUME NEW rows \in CredRows, NEW new \in Creds
    PROVE  LET mid == [rows EXCEPT ![new].status = "active"]
           IN  /\ mid \in CredRows /\ mid[new].status = "active"
               /\ \A c \in Creds : c # new => mid[c] = rows[c]
  BY DEF CredRows

\* An acknowledged row keeps its predecessor.
LEMMA AckRot ==
    ASSUME NEW rows \in RotRows, NEW r \in Rotations
    PROVE  LET new == [rows EXCEPT ![r].status = "acknowledged"]
           IN  /\ new \in RotRows /\ new[r].status = "acknowledged" /\ new[r].pred = rows[r].pred
               /\ \A q \in Rotations : q # r => new[q] = rows[q]
  BY DEF RotRows

\* acknowledge: the replacement is activated and its predecessor revoked.
LEMMA AckTables ==
    ASSUME Inv, NEW r \in Rotations, rot[r].status = "delivered", device' = device,
           cred[Replacement(r)].status = "issued", cred[rot[r].pred].status = "active",
           rot'[r].status = "acknowledged", rot'[r].pred = rot[r].pred,
           \A q \in Rotations : q # r => rot'[q] = rot[q],
           cred'[Replacement(r)].status = "active", cred'[rot[r].pred].status = "revoked",
           \A c \in Creds \ {Replacement(r), rot[r].pred} : cred'[c] = cred[c]
    PROVE  Tables'
<1>0. cred \in CredRows /\ rot \in RotRows
  BY RowTypes DEF Inv
<1> DEFINE new == Replacement(r)
           old == rot[r].pred
<1>1. /\ new \in Creds /\ old \in Creds /\ new # old /\ new # First
      /\ \A q \in Rotations : q # r => Replacement(q) # new
  BY <1>0, Numbers DEF RotRows
<1>2. /\ rot'[r].status = "acknowledged" /\ rot'[r].pred = old
      /\ \A q \in Rotations : q # r => rot'[q] = rot[q]
  OBVIOUS
<1>6. /\ cred'[new].status = "active" /\ cred'[old].status = "revoked"
      /\ \A c \in Creds \ {new, old} : cred'[c] = cred[c]
  OBVIOUS
<1> HIDE DEF new
<1> HIDE DEF old
<1>7. cred[new].status = "issued" /\ cred[old].status = "active" /\ device = "active"
  BY <1>1 DEF new, old, Inv, Tables
<1>8. OnlyActive(old)
  BY <1>1, <1>7 DEF Inv, Tables, OnlyActive
<1>9. OnlyActive(new)'
  BY <1>1, <1>6, <1>8 DEF OnlyActive
<1>10. \A q \in Rotations : q # r => ~Live(q) /\ ~Live(q)'
  BY <1>2 DEF Inv, Tables, OneLive, Live
<1>11. OneLive'
  BY <1>2, <1>10 DEF OneLive, Live
<1>12. RowsMatch'
  <2>1. ASSUME NEW q \in Rotations, q # r
        PROVE  /\ rot'[q].status = "absent" <=> cred'[Replacement(q)].status = "absent"
               /\ cred'[Replacement(q)].status = "issued" => Live(q)'
               /\ cred'[Replacement(q)].status = "active" => rot'[q].status = "acknowledged"
               /\ rot'[q].status = "acknowledged" =>
                     /\ cred'[Replacement(q)].status # "issued"
                     /\ cred'[rot'[q].pred].status = "revoked"
    <3>1. /\ rot'[q] = rot[q] /\ Replacement(q) \in Creds /\ rot[q].pred \in Creds
          /\ Replacement(q) # new
      BY <1>0, <1>1, <1>2, <2>1, Numbers DEF RotRows
    <3>2. cred[rot[q].pred].status = "revoked" => cred'[rot[q].pred].status = "revoked"
      BY <1>6, <1>7, <3>1
    <3>3. /\ cred'[Replacement(q)].status = "absent" <=> cred[Replacement(q)].status = "absent"
          /\ cred'[Replacement(q)].status = "issued" => cred[Replacement(q)].status = "issued"
          /\ cred'[Replacement(q)].status = "active" => cred[Replacement(q)].status = "active"
      BY <1>6, <1>7, <3>1
    <3>4. /\ rot[q].status = "absent" <=> cred[Replacement(q)].status = "absent"
          /\ cred[Replacement(q)].status = "issued" => Live(q)
          /\ cred[Replacement(q)].status = "active" => rot[q].status = "acknowledged"
          /\ rot[q].status = "acknowledged" =>
                cred[Replacement(q)].status # "issued" /\ cred[rot[q].pred].status = "revoked"
      BY DEF Inv, Tables, RowsMatch
    <3>5. Live(q) => Live(q)'
      BY <3>1 DEF Live
    <3> QED BY <3>1, <3>2, <3>3, <3>4, <3>5
  <2>2. /\ rot'[r].status = "acknowledged" /\ cred'[Replacement(r)].status = "active"
        /\ cred'[rot'[r].pred].status = "revoked"
    BY <1>2, <1>6 DEF new, old
  <2> QED BY <2>1, <2>2 DEF RowsMatch
<1>13. Predecessors'
  <2>1. ASSUME NEW q \in Rotations
        PROVE  /\ rot'[q].pred = rot[q].pred /\ ~Live(q)'
               /\ rot[q].status = "acknowledged" => rot'[q].status = "acknowledged"
               /\ rot'[q].status # "absent" => rot[q].status # "absent"
    BY <1>2, <1>10 DEF Live, old
  <2> QED BY <2>1 DEF Inv, Tables, Predecessors
<1>14. cred'[First].status # "issued"
  BY <1>1, <1>6, Numbers DEF Inv, Tables
<1>15. Tables'
  BY <1>1, <1>7, <1>9, <1>11, <1>12, <1>13, <1>14 DEF Tables
<1> QED BY <1>15

-----------------------------------------------------------------------------
(* Administrators *)

\* A step of the tables alone, seen from the agent and from the requests.
LEMMA AdminKeeps ==
    ASSUME Inv, Onward, Tables', cred' \in CredRows, rot' \in RotRows, KeychainNotBehind',
           UNCHANGED <<now, agent, wire, mac, claims, seen>>, retired' \in 0..MaxRetired,
           device' = device \/ device' = "revoked"
    PROVE  Inv'
<1>0. /\ UNCHANGED <<now, keychain, pending, pc, held, reply, failures, wire>>
      /\ UNCHANGED <<step, receipt, loaded, claims, seen>>
  BY DEF agent, mac
<1>1. TypeOK'
  BY <1>0 DEF Inv, TypeOK, CredRows, RotRows
<1>2. held \in Rotations \cup {0} /\ pending \in Rotations \cup {0} /\ keychain \in Creds \cup {0}
  BY Numbers DEF Inv, TypeOK
<1>3. Agent'
  BY <1>0, <1>2 DEF Inv, Agent, Onward, Sent
<1>4. Wire'
  <2>1. ASSUME NEW q \in wire, q.kind = "ack"
        PROVE  \E r \in Rotations : Replacement(r) = q.cred /\ Sent(r)'
    BY <2>1 DEF Inv, Wire, Onward
  <2>2. ASSUME NEW q \in wire, NEW r \in Rotations, q.kind = "ack", q.cred = Replacement(r),
               rot'[r].status = "delivered"
        PROVE  pending = r /\ keychain \in {0, Replacement(r)}
    BY <2>2 DEF Inv, Wire, Onward
  <2> QED BY <1>0, <2>1, <2>2 DEF Inv, Wire, Sent
<1>5. Enrolling'
  <2>1. Witnessed' => seen'
    BY <1>0 DEF Inv, Enrolling, Witnessed, Onward
  <2>2. device' = "none" => device = "none"
    OBVIOUS
  <2>3. step = "claimed" => /\ device' # "none"
                            /\ \A r \in Rotations : rot'[r].status # "acknowledged"
    BY DEF Inv, Enrolling, Onward
  <2> QED BY <1>0, <2>1, <2>2, <2>3 DEF Inv, Enrolling
<1>6. SwapIsRecorded'
  <2> SUFFICES ASSUME keychain # 0, cred'[keychain].status = "issued"
               PROVE  pending # 0 /\ Replacement(pending) = keychain
    BY <1>0 DEF SwapIsRecorded
  <2>1. PICK r \in Rotations : keychain = Replacement(r)
    BY <1>2, Numbers DEF Tables
  <2>2. cred[keychain].status # "absent"
    BY <2>1 DEF Inv, Agent, Sent, Tables, RowsMatch
  <2> QED BY <1>2, <2>2 DEF Inv, SwapIsRecorded, Onward
<1> QED BY <1>1, <1>3, <1>4, <1>5, <1>6 DEF Inv

\* The keychain's credential can only be revoked while the agent knows its
\* rotation, which is then delivered or cancelled.
LEMMA BehindStays ==
    ASSUME Inv, keychain' = keychain, device' = "active" => device = "active",
           keychain # 0 /\ cred'[keychain].status = "revoked"
                        /\ cred[keychain].status # "revoked" =>
              \E r \in Rotations : Replacement(r) = keychain
                                   /\ rot'[r].status \in {"delivered", "cancelled"},
           \A r \in Rotations : rot[r].status \in {"delivered", "cancelled"} =>
                                   rot'[r].status \in {"delivered", "cancelled"}
                                   \/ cred[Replacement(r)].status # "revoked"
    PROVE  KeychainNotBehind'
<1> SUFFICES ASSUME device = "active", keychain # 0, cred'[keychain].status = "revoked"
             PROVE  \E r \in Rotations : Replacement(r) = keychain
                                         /\ rot'[r].status \in {"delivered", "cancelled"}
  BY DEF KeychainNotBehind
<1>1. CASE cred[keychain].status = "revoked"
  BY <1>1 DEF Inv, KeychainNotBehind
<1> QED BY <1>1

\* An administrator begins a rotation.
LEMMA InitiateKeeps ==
    ASSUME Inv, Initiate, UNCHANGED <<mac, enrollment>>
    PROVE  Inv'
<1>1. /\ UNCHANGED <<now, agent, wire>> /\ retired' = retired
  BY DEF Initiate
<1>2. UNCHANGED <<claims, seen>> /\ retired' \in 0..MaxRetired /\ keychain' = keychain
  BY <1>1 DEF enrollment, Inv, TypeOK, agent
<1>3. keychain \in Creds \cup {0}
  BY DEF Inv, TypeOK
<1>4. KeychainNotBehind'
  BY <1>2, <1>3, InitiateTables, BehindStays
<1> QED BY <1>1, <1>2, <1>4, InitiateTables, AdminKeeps

\* An administrator cancels one.
LEMMA CancelKeeps ==
    ASSUME Inv, NEW r \in Rotations, Cancel(r), UNCHANGED <<mac, enrollment>>
    PROVE  Inv'
<1>1. /\ UNCHANGED <<now, agent, wire>> /\ retired' = retired /\ device' = device
      /\ Live(r) /\ CancelRow(r)
  BY DEF Cancel, Live
<1>2. UNCHANGED <<claims, seen>> /\ retired' \in 0..MaxRetired /\ keychain' = keychain
  BY <1>1 DEF enrollment, Inv, TypeOK, agent
<1>3. keychain \in Creds \cup {0}
  BY DEF Inv, TypeOK
<1>4. KeychainNotBehind'
  BY <1>1, <1>2, <1>3, CancelTables, BehindStays
<1> QED BY <1>1, <1>2, <1>4, CancelTables, AdminKeeps

\* An administrator retires a credential.
LEMMA RevokeCredentialKeeps ==
    ASSUME Inv, NEW c \in Creds, RevokeCredential(c), UNCHANGED <<mac, enrollment>>
    PROVE  Inv'
<1>1. /\ UNCHANGED <<now, agent, wire>> /\ retired' = retired + 1 /\ retired < MaxRetired
  BY DEF RevokeCredential
<1>2. UNCHANGED <<claims, seen>> /\ retired' \in 0..MaxRetired /\ keychain' = keychain
  BY <1>1, RotationAssumption DEF enrollment, Inv, TypeOK, agent
<1>3. keychain \in Creds \cup {0} /\ rot \in RotRows
  BY RowTypes DEF Inv, TypeOK
<1>4. keychain = c => \E r \in Rotations : Replacement(r) = keychain /\ rot[r].status = "delivered"
  <2> SUFFICES ASSUME keychain = c
               PROVE  \E r \in Rotations : Replacement(r) = c /\ rot[r].status = "delivered"
    OBVIOUS
  <2>1. c # First /\ cred[c].status = "issued"
    BY RevokeCredentialTables DEF Inv, Tables
  <2>2. PICK r \in Rotations : c = Replacement(r)
    BY <2>1, Numbers
  <2>3. Live(r) /\ Sent(r)
    BY <2>1, <2>2 DEF Inv, Tables, RowsMatch, Agent
  <2> QED BY <2>2, <2>3 DEF Live, Sent
<1>5. rot' = rot /\ device' = device /\ \A d \in Creds : d # c => cred'[d] = cred[d]
  BY RevokeCredentialTables
<1>6. KeychainNotBehind'
  BY <1>2, <1>3, <1>4, <1>5, BehindStays
<1> QED BY <1>1, <1>2, <1>3, <1>6, RevokeCredentialTables, AdminKeeps

\* An administrator revokes the device.
LEMMA RevokeEnrolledKeeps ==
    ASSUME Inv, RevokeEnrolled
    PROVE  Inv'
<1>1. /\ RevokeDevice /\ UNCHANGED <<mac, claims, seen>>
      /\ UNCHANGED <<now, agent, wire>> /\ retired' = retired
  BY DEF RevokeEnrolled, RevokeDevice
<1>2. retired' \in 0..MaxRetired
  BY <1>1 DEF Inv, TypeOK
<1>3. KeychainNotBehind'
  BY <1>1, RevokeDeviceTables DEF KeychainNotBehind
<1> QED BY <1>1, <1>2, <1>3, RevokeDeviceTables, AdminKeeps

-----------------------------------------------------------------------------
(* Requests at the appliance *)

\* A request is answered, and the answer reaches the run that waits for it.
LEMMA AnswerKeeps ==
    ASSUME Inv, NEW q \in wire, wire' = wire \ {q}, UNCHANGED <<keychain, pending, pc>>,
           NEW what \in {"nothing", "error", "envelope", "ok"}, NEW h, Answer(q, what, h),
           \A r \in Rotations : Sent(r) => Sent(r)',
           \A r \in Rotations : rot[r].status = "acknowledged" => rot'[r].status = "acknowledged",
           \A r \in Rotations : rot'[r].status = "delivered" => Live(r),
           what = "envelope" => q.kind = "poll" /\ h \in Rotations /\ Sent(h)',
           what # "envelope" => h = held,
           what = "ok" => /\ q.kind = "ack"
                          /\ \A r \in Rotations : Replacement(r) = q.cred =>
                                                      rot'[r].status = "acknowledged"
    PROVE  /\ Agent' /\ Wire' /\ held' \in 0..MaxRotations
           /\ reply' \in {"none", "nothing", "error", "envelope", "ok"}
<1>1. held \in Rotations \cup {0} /\ pending \in Rotations \cup {0} /\ keychain \in Creds \cup {0}
  BY Numbers DEF Inv, TypeOK
<1>2. reply' \in {"none", "nothing", "error", "envelope", "ok"} /\ held' \in 0..MaxRotations
  BY <1>1, Numbers DEF Answer, Inv, TypeOK
<1>3. q.kind \in {"poll", "ack"} /\ q.waited \in {"yes", "no"}
  BY DEF Inv, TypeOK, Request
<1>4. Wire'
  <2>1. ASSUME NEW p \in wire', p.waited = "yes"
        PROVE  q.waited = "no"
    BY <1>3, <2>1 DEF Inv, Wire
  <2>2. q.waited = "no" => reply' = reply /\ held' = held
    BY DEF Answer
  <2>3. ASSUME NEW p \in wire', p.waited = "yes"
        PROVE  /\ reply' = "none"
               /\ p.kind = "poll" => pc' = "polling"
               /\ p.kind = "ack" => pc' = "acking" /\ p.cred = Replacement(held')
    BY <2>1, <2>2, <2>3 DEF Inv, Wire
  <2>4. ASSUME NEW p \in wire', p.kind = "ack"
        PROVE  \E r \in Rotations : Replacement(r) = p.cred /\ Sent(r)'
    BY <2>4 DEF Inv, Wire
  <2>5. ASSUME NEW p \in wire', NEW r \in Rotations, p.kind = "ack", p.cred = Replacement(r),
               rot'[r].status = "delivered"
        PROVE  pending' = r /\ keychain' \in {0, Replacement(r)}
    <3>1. Sent(r) /\ Live(r)
      BY <2>5, Numbers DEF Inv, Wire
    <3>2. rot[r].status = "delivered"
      BY <3>1 DEF Sent, Live
    <3> QED BY <2>5, <3>2 DEF Inv, Wire
  <2>6. \A p1, p2 \in wire' : p1.waited = "yes" /\ p2.waited = "yes" => p1 = p2
    BY DEF Inv, Wire
  <2> QED BY <2>3, <2>4, <2>5, <2>6 DEF Wire, Sent
<1>5. CASE q.waited = "no"
  <2>1. reply' = reply /\ held' = held
    BY <1>5 DEF Answer
  <2>2. Agent'
    BY <1>1, <2>1 DEF Inv, Agent, Sent
  <2> QED BY <1>2, <1>4, <2>2
<1>6. CASE q.waited = "yes"
  <2>1. reply' = what /\ held' = h
    BY <1>6 DEF Answer
  <2>2. /\ q.kind = "poll" => pc = "polling"
        /\ q.kind = "ack" => pc = "acking" /\ q.cred = Replacement(held)
    BY <1>6 DEF Inv, Wire
  <2>3. /\ \A r \in Rotations : keychain' = Replacement(r) => Sent(r)'
        /\ pending' # 0 => Sent(pending)'
    BY <1>1 DEF Inv, Agent, Sent
  <2>4. CASE q.kind = "poll"
    <3>1. pc' = "polling" /\ reply' = what /\ keychain' # 0
      BY <2>1, <2>2, <2>4 DEF Inv, Agent
    <3>2. reply' = "envelope" => held' # 0 /\ Sent(held)'
      BY <2>1, Numbers DEF Sent
    <3> QED BY <1>2, <1>4, <2>3, <3>1, <3>2 DEF Agent, Sent
  <2>5. CASE q.kind = "ack"
    <3>1. pc = "acking" /\ held # 0 /\ held \in Rotations /\ h = held
      BY <1>1, <2>2, <2>5 DEF Inv, Agent
    <3>2. what = "ok" => rot'[held].status = "acknowledged"
      BY <2>2, <2>5, <3>1
    <3> QED BY <2>1, <2>3, <3>1, <3>2, <1>2, <1>4 DEF Inv, Agent
  <2> QED BY <1>2, <1>3, <1>4, <2>4, <2>5
<1> QED BY <1>3, <1>5, <1>6

\* What the tables and the agent need of a request that was served: the device
\* has been authenticated by then.
LEMMA ServedKeeps ==
    ASSUME Inv, NEW q \in wire, q.phase = "authenticated", wire' = wire \ {q},
           Agent', Wire', Tables', KeychainNotBehind', cred' \in CredRows, rot' \in RotRows,
           held' \in 0..MaxRotations,
           reply' \in {"none", "nothing", "error", "envelope", "ok"},
           \A c \in Creds : cred'[c].status = "issued" => cred[c].status = "issued",
           step = "claimed" => \A r \in Rotations : rot'[r].status # "acknowledged",
           UNCHANGED <<now, device, retired, keychain, pending, pc, failures>>,
           UNCHANGED <<mac, grants, claims, seen>>
    PROVE  Inv'
<1>0. UNCHANGED <<step, receipt, loaded>>
  BY DEF mac
<1>1. TypeOK'
  BY DEF Inv, TypeOK, CredRows, RotRows
<1>2. seen /\ device # "none"
  BY DEF Inv, Enrolling, Witnessed
<1>3. Enrolling'
  BY <1>0, <1>2 DEF Inv, Enrolling
<1>4. SwapIsRecorded'
  BY DEF Inv, SwapIsRecorded, TypeOK
<1> QED BY <1>1, <1>3, <1>4 DEF Inv

\* Nothing in the tables changes.
LEMMA TablesStay ==
    ASSUME Inv, UNCHANGED <<device, cred, rot>>
    PROVE  Tables' /\ cred' \in CredRows /\ rot' \in RotRows
<1>1. Tables'
  BY DEF Inv, Tables, OneLive, RowsMatch, Predecessors, OnlyActive, Live
<1> QED BY <1>1, RowTypes DEF Inv

\* A poll is served: the envelope, nothing, or the expiry of the rotation.
LEMMA PollKeeps ==
    ASSUME Inv, NEW q \in wire, Poll(q), seen' = seen, UNCHANGED <<mac, grants, claims>>
    PROVE  Inv'
<1>1. /\ q.phase = "authenticated" /\ q.kind = "poll" /\ wire' = wire \ {q}
      /\ UNCHANGED <<now, device, retired, keychain, pending, pc, failures>>
  BY DEF Poll
<1>2. keychain \in Creds \cup {0} /\ cred \in CredRows /\ rot \in RotRows
  BY RowTypes DEF Inv, TypeOK
<1>3. CASE UNCHANGED <<cred, rot>> /\ \E what \in {"error", "nothing"} : Answer(q, what, held)
  <2>1. PICK what \in {"error", "nothing"} : Answer(q, what, held)
    BY <1>3
  <2>2. Agent' /\ Wire' /\ held' \in 0..MaxRotations
        /\ reply' \in {"none", "nothing", "error", "envelope", "ok"}
    <3>1. \A r \in Rotations : /\ Sent(r) => Sent(r)'
                               /\ rot'[r].status = "delivered" => Live(r)
      BY <1>3 DEF Sent, Live
    <3> QED BY <1>1, <1>3, <2>1, <3>1, AnswerKeeps
  <2>3. KeychainNotBehind'
    BY <1>1, <1>3 DEF Inv, KeychainNotBehind
  <2>4. step = "claimed" => \A r \in Rotations : rot'[r].status # "acknowledged"
    BY <1>3 DEF Inv, Enrolling
  <2> QED BY <1>1, <1>3, <2>2, <2>3, <2>4, TablesStay, ServedKeeps
<1>4. ASSUME NEW r \in Rotations, Live(r), CancelRow(r), Answer(q, "nothing", held)
      PROVE  Inv'
  <2>1. /\ Tables' /\ Onward /\ cred' \in CredRows /\ rot' \in RotRows
        /\ rot'[r].status = "cancelled"
        /\ \A p \in Rotations : p # r => rot'[p] = rot[p]
        /\ \A c \in Creds : c # Replacement(r) => cred'[c] = cred[c]
    BY <1>1, <1>4, CancelTables
  <2>2. \A p \in Rotations : rot'[p].status = "delivered" => Live(p)
    BY <2>1 DEF Onward, Live
  <2>3. Agent' /\ Wire' /\ held' \in 0..MaxRotations
        /\ reply' \in {"none", "nothing", "error", "envelope", "ok"}
    BY <1>1, <1>4, <2>1, <2>2, AnswerKeeps DEF Onward
  <2>4. KeychainNotBehind'
    BY <1>1, <1>2, <2>1, BehindStays
  <2>5. \A c \in Creds : cred'[c].status = "issued" => cred[c].status = "issued"
    BY <1>2, <1>4, <2>1, Numbers DEF CancelRow, CredRows
  <2>6. step = "claimed" => \A p \in Rotations : rot'[p].status # "acknowledged"
    BY <2>1 DEF Inv, Enrolling, Onward
  <2> QED BY <1>1, <2>1, <2>3, <2>4, <2>5, <2>6, ServedKeeps
<1>5. ASSUME NEW r \in Rotations, Live(r), Redeliverable(r), cred' = cred,
             rot' = [rot EXCEPT ![r].status = "delivered", ![r].count = @ + 1],
             Answer(q, "envelope", r)
      PROVE  Inv'
  <2>1. /\ rot' \in RotRows /\ rot'[r].status = "delivered" /\ rot'[r].pred = rot[r].pred
        /\ \A p \in Rotations : p # r => rot'[p] = rot[p]
    <3>1. rot[r].count < MaxDeliveries
      BY <1>5 DEF Redeliverable
    <3> DEFINE new == [rot EXCEPT ![r].status = "delivered", ![r].count = @ + 1]
    <3>2. rot' = new
      BY <1>5
    <3>3. /\ new \in RotRows /\ new[r].status = "delivered" /\ new[r].pred = rot[r].pred
          /\ \A p \in Rotations : p # r => new[p] = rot[p]
      BY ONLY <1>2, <3>1, DeliveredRow, r \in Rotations
    <3> HIDE DEF new
    <3> QED BY <3>2, <3>3
  <2>2. Tables'
    BY <1>1, <1>5, <2>1, DeliverTables
  <2>3. /\ \A p \in Rotations : Sent(p) => Sent(p)'
        /\ Sent(r)'
        /\ \A p \in Rotations : rot[p].status = "acknowledged" <=> rot'[p].status = "acknowledged"
        /\ \A p \in Rotations : rot'[p].status = "delivered" => Live(p)
    BY <1>5, <2>1 DEF Sent, Live
  <2>4. Agent' /\ Wire' /\ held' \in 0..MaxRotations
        /\ reply' \in {"none", "nothing", "error", "envelope", "ok"}
    BY <1>1, <1>5, <2>3, AnswerKeeps
  <2>5. KeychainNotBehind'
    BY <1>1, <1>5, <2>1, BehindStays
  <2>6. step = "claimed" => \A p \in Rotations : rot'[p].status # "acknowledged"
    BY <2>3 DEF Inv, Enrolling
  <2> QED BY <1>1, <1>2, <1>5, <2>1, <2>2, <2>4, <2>5, <2>6, ServedKeeps
<1>6. CASE \E r \in Rotations : Live(r) /\ PollRow(q, r)
  <2>1. PICK r \in Rotations : Live(r) /\ PollRow(q, r)
    BY <1>6
  <2> QED BY <1>3, <1>4, <1>5, <2>1 DEF PollRow
<1> QED BY <1>3, <1>6 DEF Poll

\* acknowledge activates the credential that the keychain holds by then.
LEMMA AcknowledgeKeeps ==
    ASSUME Inv, NEW q \in wire, Acknowledge(q), seen' = seen, UNCHANGED <<mac, grants, claims>>
    PROVE  Inv'
<1>1. /\ q.phase = "authenticated" /\ q.kind = "ack" /\ wire' = wire \ {q}
      /\ UNCHANGED <<now, device, retired, keychain, pending, pc, failures>>
  BY DEF Acknowledge
<1>2. keychain \in Creds \cup {0} /\ cred \in CredRows /\ rot \in RotRows
  BY RowTypes DEF Inv, TypeOK
<1>3. PICK r \in Rotations :
        /\ Replacement(r) = q.cred
        /\ \/ rot[r].status = "delivered" /\ AckRow(q, r)
           \/ /\ rot[r].status # "delivered"
              /\ Answer(q, IF rot[r].status = "acknowledged" THEN "ok" ELSE "error", held)
              /\ UNCHANGED <<cred, rot>>
  BY DEF Acknowledge
<1>4. \A p \in Rotations : Replacement(p) = q.cred => p = r
  BY <1>3, Numbers
<1>5. ASSUME UNCHANGED <<cred, rot>>, NEW what \in {"error", "ok"}, Answer(q, what, held),
             what = "ok" => rot[r].status = "acknowledged"
      PROVE  Inv'
  <2>1. \A p \in Rotations : /\ Sent(p) => Sent(p)'
                             /\ rot'[p].status = "delivered" => Live(p)
    BY <1>5 DEF Sent, Live
  <2>2. Agent' /\ Wire' /\ held' \in 0..MaxRotations
        /\ reply' \in {"none", "nothing", "error", "envelope", "ok"}
    BY <1>1, <1>4, <1>5, <2>1, AnswerKeeps
  <2>3. KeychainNotBehind'
    BY <1>1, <1>5 DEF Inv, KeychainNotBehind
  <2>4. step = "claimed" => \A p \in Rotations : rot'[p].status # "acknowledged"
    BY <1>5 DEF Inv, Enrolling
  <2> QED BY <1>1, <1>5, <2>2, <2>3, <2>4, TablesStay, ServedKeeps
<1>6. ASSUME rot[r].status = "delivered", AckReady(q, r),
             cred' = [cred EXCEPT ![q.cred].status = "active",
                                  ![rot[r].pred].status = "revoked"],
             rot' = [rot EXCEPT ![r].status = "acknowledged"],
             Answer(q, "ok", held)
      PROVE  Inv'
  <2> DEFINE old == rot[r].pred
  <2>1. /\ q.cred \in Creds /\ old \in Creds /\ q.cred # old
        /\ cred[q.cred].status = "issued" /\ cred[old].status = "active"
    BY <1>2, <1>3, <1>6, Numbers DEF AckReady, RotRows
  <2>2. /\ cred' \in CredRows
        /\ cred'[q.cred].status = "active" /\ cred'[old].status = "revoked"
        /\ \A c \in Creds \ {q.cred, old} : cred'[c] = cred[c]
    <3> DEFINE new == q.cred
    <3> DEFINE mid == [cred EXCEPT ![new].status = "active"]
           after == [mid EXCEPT ![old].status = "revoked"]
    <3>1. cred' = after
      BY <1>6
    <3>2. new \in Creds /\ old \in Creds /\ new # old
      BY <2>1
    <3> HIDE DEF new
    <3> HIDE DEF old
    <3>3. /\ mid \in CredRows /\ mid[new].status = "active"
          /\ \A c \in Creds : c # new => mid[c] = cred[c]
      BY <1>2, <3>2, AckCreds
    <3> HIDE DEF mid
    <3>4. /\ after \in CredRows /\ after[old].status = "revoked"
          /\ \A c \in Creds : c # old => after[c] = mid[c]
      BY <3>2, <3>3, Revoked
    <3> HIDE DEF after
    <3> QED BY <3>1, <3>2, <3>3, <3>4 DEF new
  <2>3. /\ rot' \in RotRows /\ rot'[r].status = "acknowledged" /\ rot'[r].pred = rot[r].pred
        /\ \A p \in Rotations : p # r => rot'[p] = rot[p]
    BY <1>2, <1>6, AckRot
  <2>4. Tables'
    BY <1>1, <1>3, <1>6, <2>1, <2>2, <2>3, AckTables
  <2>5. /\ \A p \in Rotations : Sent(p) => Sent(p)'
        /\ \A p \in Rotations : rot[p].status = "acknowledged" => rot'[p].status = "acknowledged"
        /\ \A p \in Rotations : rot'[p].status = "delivered" => Live(p)
        /\ \A c \in Creds : cred[c].status # "absent" => cred'[c].status # "absent"
        /\ \A c \in Creds : cred'[c].status = "issued" => cred[c].status = "issued"
    BY <1>6, <2>1, <2>2, <2>3 DEF Sent, Live
  <2>6. Agent' /\ Wire' /\ held' \in 0..MaxRotations
        /\ reply' \in {"none", "nothing", "error", "envelope", "ok"}
    BY <1>1, <1>4, <1>6, <2>3, <2>5, AnswerKeeps
  <2>7. pending = r /\ keychain \in {0, q.cred}
    BY <1>1, <1>3, <1>6 DEF Inv, Wire
  <2>8. KeychainNotBehind'
    BY <1>1, <2>2, <2>7 DEF KeychainNotBehind
  <2>9. step # "claimed"
    BY <2>7, Numbers DEF Inv, Enrolling
  <2> QED BY <1>1, <2>2, <2>3, <2>4, <2>5, <2>6, <2>8, <2>9, ServedKeeps
<1> QED BY <1>3, <1>5, <1>6 DEF AckRow

\* authenticate: a request that is accepted shows that the device was seen; one
\* that is not is answered at once.
LEMMA AuthenticateKeeps ==
    ASSUME Inv, NEW q \in wire, Authenticate(q), seen' = (seen \/ Accepted(q)),
           UNCHANGED <<mac, grants, claims>>
    PROVE  Inv'
<1>1. /\ q.phase = "sent" /\ UNCHANGED <<now, device, cred, rot, retired>>
      /\ UNCHANGED <<keychain, pending, pc, failures>> /\ UNCHANGED <<step, receipt, loaded, claims>>
  BY DEF Authenticate, server, mac
<1>2. Tables'
  BY <1>1, TablesStay
<1>3. SwapIsRecorded' /\ KeychainNotBehind'
  BY <1>1 DEF Inv, SwapIsRecorded, KeychainNotBehind
<1>4. seen \in BOOLEAN /\ seen' \in BOOLEAN /\ device # "none"
  BY DEF Inv, Enrolling
<1>5. CASE Accepted(q)
  <2> DEFINE p == [q EXCEPT !.phase = "authenticated", !.at = now]
  <2>1. wire' = (wire \ {q}) \cup {p} /\ UNCHANGED <<reply, held>>
    BY <1>5 DEF Authenticate
  <2>2. q \in Request /\ now \in 0..MaxTime
    BY DEF Inv, TypeOK
  <2>3. p \in Request /\ p.kind = q.kind /\ p.cred = q.cred /\ p.waited = q.waited
    BY <2>2 DEF Request
  <2> HIDE DEF p
  <2>4. TypeOK'
    BY <1>1, <2>1, <2>3 DEF Inv, TypeOK
  <2>5. Agent'
    BY <1>1, <2>1 DEF Inv, Agent, Sent
  <2>6. Wire'
    <3>1. ASSUME NEW o \in wire'
          PROVE  \E w \in wire : /\ o.kind = w.kind /\ o.cred = w.cred /\ o.waited = w.waited
                                 /\ o = w \/ (o = p /\ w = q)
      BY <2>1, <2>3
    <3>2. ASSUME NEW o \in wire', o.waited = "yes"
          PROVE  /\ reply' = "none"
                 /\ o.kind = "poll" => pc' = "polling"
                 /\ o.kind = "ack" => pc' = "acking" /\ o.cred = Replacement(held')
      BY <1>1, <2>1, <3>1, <3>2 DEF Inv, Wire
    <3>3. \A o, w \in wire' : o.waited = "yes" /\ w.waited = "yes" => o = w
      BY <2>1, <2>3 DEF Inv, Wire
    <3>4. ASSUME NEW o \in wire', o.kind = "ack"
          PROVE  \E r \in Rotations : Replacement(r) = o.cred /\ Sent(r)'
      BY <1>1, <3>1, <3>4 DEF Inv, Wire, Sent
    <3>5. ASSUME NEW o \in wire', NEW r \in Rotations, o.kind = "ack", o.cred = Replacement(r),
                 rot'[r].status = "delivered"
          PROVE  pending' = r /\ keychain' \in {0, Replacement(r)}
      BY <1>1, <3>1, <3>5 DEF Inv, Wire
    <3> QED BY <3>2, <3>3, <3>4, <3>5 DEF Wire, Sent
  <2>7. seen'
    BY <1>5
  <2>8. Enrolling'
    BY <1>1, <1>4, <2>7 DEF Inv, Enrolling
  <2> QED BY <1>2, <1>3, <2>4, <2>5, <2>6, <2>8 DEF Inv
<1>6. CASE ~Accepted(q)
  <2>1. wire' = wire \ {q} /\ Answer(q, "error", held)
    BY <1>6 DEF Authenticate
  <2>2. \A r \in Rotations : /\ Sent(r) => Sent(r)'
                             /\ rot'[r].status = "delivered" => Live(r)
    BY <1>1 DEF Sent, Live
  <2>3. /\ Agent' /\ Wire' /\ held' \in 0..MaxRotations
        /\ reply' \in {"none", "nothing", "error", "envelope", "ok"}
    <3> DEFINE what == "error"
    <3>1. what \in {"nothing", "error", "envelope", "ok"} /\ Answer(q, what, held)
          /\ what # "envelope" /\ what # "ok"
      BY <2>1
    <3> HIDE DEF what
    <3> QED BY <1>1, <2>1, <2>2, <3>1, AnswerKeeps
  <2>4. TypeOK'
    BY <1>1, <2>1, <2>3 DEF Inv, TypeOK
  <2>5. seen' = seen /\ reply' \in {reply, "error"}
    BY <1>4, <1>6, <2>1 DEF Answer
  <2>6. Witnessed' => Witnessed
    BY <1>1, <2>1, <2>5 DEF Witnessed
  <2>7. Enrolling'
    BY <1>1, <1>4, <2>5, <2>6 DEF Inv, Enrolling
  <2> QED BY <1>2, <1>3, <2>3, <2>4, <2>7 DEF Inv
<1> QED BY <1>5, <1>6

-----------------------------------------------------------------------------
(* Runs of the agent *)

\* A step of a run, seen from the tables and from enrollment: the keychain
\* holds a credential, so no claim is under way that anyone waits for.
LEMMA RunKeeps ==
    ASSUME Inv, keychain # 0, keychain' # 0, step # "stopped",
           step' \in {step, "running", "idle", "verified"},
           TypeOK', Agent', Wire', SwapIsRecorded', KeychainNotBehind', Witnessed' => seen,
           UNCHANGED <<device, cred, rot>>, UNCHANGED <<receipt, loaded, claims, seen>>
    PROVE  Inv'
<1>1. Tables'
  BY TablesStay
<1>2. device # "none" /\ step \notin {"claiming", "claimed"}
  BY DEF Inv, Enrolling
<1>3. \A q \in claims : ~q.waited
  BY <1>2 DEF Inv, Enrolling
<1>4. step' \notin {"claiming", "claimed", "stopped"}
  BY <1>2
<1>5. Enrolling'
  BY <1>2, <1>3, <1>4 DEF Inv, Enrolling
<1> QED BY <1>1, <1>5 DEF Inv

\* A run starts with the acknowledgement of its spool row, or with a poll.
LEMMA StartRunKeeps ==
    ASSUME Inv, StartRun, keychain # 0, step # "stopped", step' \in {step, "running"},
           UNCHANGED <<receipt, loaded, claims, seen>>
    PROVE  Inv'
<1>1. /\ pc = "idle" /\ UNCHANGED <<now, device, cred, rot, retired>>
      /\ UNCHANGED <<keychain, pending, reply, failures>>
  BY DEF StartRun, server
<1>2. /\ keychain \in Creds /\ now \in 0..MaxTime /\ 0 \in 0..MaxTime
      /\ pending \in Rotations \cup {0} /\ held = 0 /\ reply = "none"
      /\ \A q \in wire : q.waited # "yes"
  BY <1>1, Numbers, RotationAssumption DEF Inv, TypeOK, Agent, Wire, Request
<1>3. SwapIsRecorded' /\ KeychainNotBehind'
  BY <1>1 DEF Inv, SwapIsRecorded, KeychainNotBehind
<1>4. ASSUME NEW kind \in {"poll", "ack"}, wire' = wire \cup {NewRequest(kind, keychain)}
      PROVE  /\ wire' \subseteq Request
             /\ \A q \in wire' : q \in wire \/
                   /\ q.kind = kind /\ q.cred = keychain /\ q.phase = "sent" /\ q.waited = "yes"
             /\ \A p, q \in wire' : p.waited = "yes" /\ q.waited = "yes" => p = q
  <2> DEFINE new == NewRequest(kind, keychain)
  <2>1. /\ new \in Request /\ new.kind = kind /\ new.cred = keychain
        /\ new.phase = "sent" /\ new.waited = "yes"
    BY <1>2 DEF NewRequest, Request
  <2> HIDE DEF new
  <2> QED BY <1>2, <1>4, <2>1 DEF Inv, TypeOK, new
<1>5. CASE /\ pending # 0 /\ keychain = Replacement(pending) /\ Send("ack", keychain)
           /\ pc' = "acking" /\ held' = pending
  <2>1. /\ wire' \subseteq Request
        /\ \A q \in wire' : q \in wire \/
              /\ q.kind = "ack" /\ q.cred = keychain /\ q.phase = "sent" /\ q.waited = "yes"
        /\ \A p, q \in wire' : p.waited = "yes" /\ q.waited = "yes" => p = q
    BY <1>4, <1>5 DEF Send
  <2>2. TypeOK'
    BY <1>1, <1>2, <1>5, <2>1, Numbers DEF Inv, TypeOK
  <2>3. Agent'
    BY <1>1, <1>2, <1>5 DEF Inv, Agent, Sent
  <2>4. Wire'
    <3>1. ASSUME NEW q \in wire', q.waited = "yes"
          PROVE  /\ reply' = "none"
                 /\ q.kind = "poll" => pc' = "polling"
                 /\ q.kind = "ack" => pc' = "acking" /\ q.cred = Replacement(held')
      BY <1>1, <1>2, <1>5, <2>1, <3>1
    <3>2. ASSUME NEW q \in wire', q.kind = "ack"
          PROVE  \E r \in Rotations : Replacement(r) = q.cred /\ Sent(r)'
      BY <1>1, <1>2, <1>5, <2>1, <3>2 DEF Inv, Wire, Agent, Sent
    <3>3. ASSUME NEW q \in wire', NEW r \in Rotations, q.kind = "ack", q.cred = Replacement(r),
                 rot'[r].status = "delivered"
          PROVE  pending' = r /\ keychain' \in {0, Replacement(r)}
      BY <1>1, <1>2, <1>5, <2>1, <3>3, Numbers DEF Inv, Wire
    <3> QED BY <2>1, <3>1, <3>2, <3>3 DEF Wire, Sent
  <2>5. Witnessed' => seen
    BY <1>1, <2>1 DEF Inv, Enrolling, Witnessed
  <2> QED BY <1>1, <1>3, <2>2, <2>3, <2>4, <2>5, RunKeeps
<1>6. CASE Send("poll", keychain) /\ pc' = "polling" /\ UNCHANGED held
  <2>1. /\ wire' \subseteq Request
        /\ \A q \in wire' : q \in wire \/
              /\ q.kind = "poll" /\ q.cred = keychain /\ q.phase = "sent" /\ q.waited = "yes"
        /\ \A p, q \in wire' : p.waited = "yes" /\ q.waited = "yes" => p = q
    BY <1>4, <1>6 DEF Send
  <2>2. TypeOK'
    BY <1>1, <1>2, <1>6, <2>1 DEF Inv, TypeOK
  <2>3. Agent'
    BY <1>1, <1>2, <1>6 DEF Inv, Agent, Sent
  <2>4. Wire'
    <3>1. ASSUME NEW q \in wire', q.waited = "yes"
          PROVE  /\ reply' = "none"
                 /\ q.kind = "poll" => pc' = "polling"
                 /\ q.kind = "ack" => pc' = "acking" /\ q.cred = Replacement(held')
      BY <1>1, <1>2, <1>6, <2>1, <3>1
    <3>2. ASSUME NEW q \in wire', q.kind = "ack"
          PROVE  \E r \in Rotations : Replacement(r) = q.cred /\ Sent(r)'
      BY <1>1, <2>1, <3>2 DEF Inv, Wire, Sent
    <3>3. ASSUME NEW q \in wire', NEW r \in Rotations, q.kind = "ack", q.cred = Replacement(r),
                 rot'[r].status = "delivered"
          PROVE  pending' = r /\ keychain' \in {0, Replacement(r)}
      BY <1>1, <2>1, <3>3 DEF Inv, Wire
    <3> QED BY <2>1, <3>1, <3>2, <3>3 DEF Wire, Sent
  <2>5. Witnessed' => seen
    BY <1>1, <2>1 DEF Inv, Enrolling, Witnessed
  <2> QED BY <1>1, <1>3, <2>2, <2>3, <2>4, <2>5, RunKeeps
<1> QED BY <1>5, <1>6 DEF StartRun

\* The verdict on a run that activation started.
LEMMA VerdictOf ==
    ASSUME Inv, pc # "idle", step' = Verdict
    PROVE  /\ keychain # 0 /\ step # "stopped"
           /\ step' \in {step, "idle", "verified"}
           /\ step' \in {"verified", "loaded"} => seen \/ step \in {"verified", "loaded"}
<1>1. keychain # 0 /\ step # "stopped"
  BY DEF Inv, Agent, Enrolling
<1>2. reply \in {"nothing", "ok"} => seen
  BY DEF Inv, Enrolling, Witnessed
<1> QED BY <1>1, <1>2 DEF Verdict

\* The envelope is recorded, or the run ends.
LEMMA HandlePollKeeps ==
    ASSUME Inv, HandlePoll, step' = Verdict, UNCHANGED <<receipt, loaded, enrollment>>
    PROVE  Inv'
<1>1. /\ pc = "polling" /\ reply # "none" /\ UNCHANGED <<now, device, cred, rot, retired>>
      /\ UNCHANGED <<keychain, wire, failures>> /\ UNCHANGED <<claims, seen>>
  BY DEF HandlePoll, server, enrollment
<1>2. /\ held \in Rotations \cup {0} /\ pending \in Rotations \cup {0}
      /\ \A q \in wire : q.waited # "yes"
  BY <1>1, Numbers DEF Inv, TypeOK, Wire
<1>3. KeychainNotBehind'
  BY <1>1 DEF Inv, KeychainNotBehind
<1>4. CASE reply = "envelope" /\ Usable(held) /\ pending' = held /\ pc' = "recorded"
           /\ reply' = "none" /\ UNCHANGED held
  <2>1. held \in Rotations /\ Sent(held) /\ (pending = 0 \/ pending = held) /\ seen
    BY <1>1, <1>2, <1>4 DEF Inv, Agent, Usable, Enrolling, Witnessed
  <2>2. TypeOK'
    BY <1>1, <1>4, <2>1, Numbers DEF Inv, TypeOK
  <2>3. Agent'
    BY <1>1, <1>4, <2>1, Numbers DEF Inv, Agent, Sent
  <2>4. Wire'
    <3>1. ASSUME NEW q \in wire, NEW r \in Rotations, q.kind = "ack", q.cred = Replacement(r),
                 rot[r].status = "delivered"
          PROVE  pending' = r /\ keychain \in {0, Replacement(r)}
      BY <1>4, <2>1, <3>1, Numbers DEF Inv, Wire
    <3> QED BY <1>1, <1>2, <3>1 DEF Inv, Wire, Sent
  <2>5. SwapIsRecorded'
    BY <1>1, <1>4, <2>1 DEF Inv, SwapIsRecorded
  <2> QED BY <1>1, <1>3, <2>1, <2>2, <2>3, <2>4, <2>5, VerdictOf, RunKeeps
<1>5. CASE EndRun /\ UNCHANGED pending
  <2>1. pc' = "idle" /\ held' = 0 /\ reply' = "none" /\ pending' = pending
    BY <1>5 DEF EndRun
  <2>2. TypeOK'
    BY <1>1, <2>1, Numbers DEF Inv, TypeOK
  <2>3. Agent'
    BY <1>1, <2>1 DEF Inv, Agent, Sent
  <2>4. Wire'
    BY <1>1, <1>2, <2>1 DEF Inv, Wire, Sent
  <2>5. SwapIsRecorded'
    BY <1>1, <2>1 DEF Inv, SwapIsRecorded
  <2>6. Witnessed' => seen
    BY <1>1, <2>1, VerdictOf DEF Inv, Enrolling, Witnessed
  <2> QED BY <1>1, <1>3, <2>2, <2>3, <2>4, <2>5, <2>6, VerdictOf, RunKeeps
<1> QED BY <1>4, <1>5 DEF HandlePoll

\* The swap: the rotation it belongs to is not acknowledged yet, since the
\* keychain holds its predecessor.
LEMMA ReplacePairKeeps ==
    ASSUME Inv, ReplacePair, step' = Verdict, UNCHANGED <<receipt, loaded, enrollment>>
    PROVE  Inv'
<1>1. /\ pc = "recorded" /\ keychain = rot[held].pred /\ keychain' = Replacement(held)
      /\ pc' = "swapped" /\ UNCHANGED <<now, device, cred, rot, retired>>
      /\ UNCHANGED <<pending, held, reply, wire, failures>> /\ UNCHANGED <<claims, seen>>
  BY DEF ReplacePair, PairIsPredecessor, server, enrollment
<1>2. /\ held \in Rotations /\ pending = held /\ Sent(held) /\ reply = "none"
      /\ Replacement(held) \in Creds /\ rot \in RotRows
  BY <1>1, Numbers, RowTypes DEF Inv, TypeOK, Agent
<1>3. TypeOK'
  BY <1>1, <1>2 DEF Inv, TypeOK
<1>4. Agent'
  BY <1>1, <1>2, Numbers DEF Inv, Agent, Sent
<1>5. Wire'
  <2>1. \A q \in wire : q.waited # "yes"
    BY <1>1 DEF Inv, Wire, TypeOK, Request
  <2>2. ASSUME NEW q \in wire, NEW r \in Rotations, q.kind = "ack", q.cred = Replacement(r),
               rot[r].status = "delivered"
        PROVE  pending = r /\ keychain' \in {0, Replacement(r)}
    BY <1>1, <1>2, <2>2 DEF Inv, Wire
  <2> QED BY <1>1, <2>1, <2>2 DEF Inv, Wire, Sent
<1>6. SwapIsRecorded'
  BY <1>1, <1>2, Numbers DEF SwapIsRecorded
<1>7. KeychainNotBehind'
  <2> SUFFICES ASSUME device = "active"
               PROVE  rot[held].status \in {"delivered", "cancelled"}
    BY <1>1, <1>2 DEF KeychainNotBehind
  <2>1. rot[held].status # "acknowledged"
    <3> SUFFICES ASSUME rot[held].status = "acknowledged" PROVE FALSE
      OBVIOUS
    <3>1. cred[keychain].status = "revoked" /\ keychain # 0
      BY <1>1, <1>2 DEF Inv, Tables, RowsMatch, Agent
    <3>2. PICK r \in Rotations : /\ Replacement(r) = keychain
                                 /\ rot[r].status \in {"delivered", "cancelled"}
      BY <3>1 DEF Inv, KeychainNotBehind
    <3>3. rot[r].status = "acknowledged"
      BY <1>1, <1>2, <3>2 DEF Inv, Tables, Predecessors, Sent
    <3> QED BY <3>2, <3>3
  <2> QED BY <1>2, <2>1 DEF Sent, RotRows
<1>8. keychain' # 0
  BY <1>1, <1>2, Numbers
<1>9. Witnessed' => seen
  BY <1>1, VerdictOf DEF Inv, Enrolling, Witnessed
<1> QED BY <1>1, <1>3, <1>4, <1>5, <1>6, <1>7, <1>8, <1>9, VerdictOf, RunKeeps

\* The agent signs its acknowledgement with the replacement it holds.
LEMMA SendAckKeeps ==
    ASSUME Inv, SendAck, step' = Verdict, UNCHANGED <<receipt, loaded, enrollment>>
    PROVE  Inv'
<1> DEFINE new == NewRequest("ack", keychain)
<1>1. /\ pc = "swapped" /\ pc' = "acking" /\ UNCHANGED <<now, device, cred, rot, retired>>
      /\ UNCHANGED <<keychain, pending, held, reply, failures>> /\ UNCHANGED <<claims, seen>>
      /\ keychain = Replacement(held) /\ wire' = wire \cup {new}
  BY DEF SendAck, Send, server, enrollment, Inv, Agent
<1>2. /\ held \in Rotations /\ pending = held /\ Sent(held) /\ reply = "none"
      /\ keychain \in Creds /\ keychain # 0 /\ now \in 0..MaxTime /\ 0 \in 0..MaxTime
      /\ \A q \in wire : q.waited # "yes"
  BY <1>1, Numbers, RotationAssumption DEF Inv, TypeOK, Agent, Wire, Request
<1>3. /\ new \in Request /\ new.kind = "ack" /\ new.cred = keychain
      /\ new.phase = "sent" /\ new.waited = "yes"
  BY <1>2 DEF NewRequest, Request
<1> HIDE DEF new
<1>4. TypeOK'
  BY <1>1, <1>3 DEF Inv, TypeOK
<1>5. Agent'
  BY <1>1, <1>2, Numbers DEF Inv, Agent, Sent
<1>6. Wire'
  <2>1. ASSUME NEW q \in wire', q.waited = "yes"
        PROVE  q = new
    BY <1>1, <1>2, <2>1
  <2>2. ASSUME NEW q \in wire', q.kind = "ack"
        PROVE  \E r \in Rotations : Replacement(r) = q.cred /\ Sent(r)'
    BY <1>1, <1>2, <1>3, <2>2 DEF Inv, Wire, Sent
  <2>3. ASSUME NEW q \in wire', NEW r \in Rotations, q.kind = "ack", q.cred = Replacement(r),
               rot'[r].status = "delivered"
        PROVE  pending' = r /\ keychain' \in {0, Replacement(r)}
    BY <1>1, <1>2, <1>3, <2>3, Numbers DEF Inv, Wire
  <2> QED BY <1>1, <1>2, <1>3, <2>1, <2>2, <2>3 DEF Wire, Sent
<1>7. SwapIsRecorded' /\ KeychainNotBehind'
  BY <1>1 DEF Inv, SwapIsRecorded, KeychainNotBehind
<1>8. Witnessed' => seen
  BY <1>1, <1>3, VerdictOf DEF Inv, Enrolling, Witnessed
<1> QED BY <1>1, <1>2, <1>4, <1>5, <1>6, <1>7, <1>8, VerdictOf, RunKeeps

\* The row is cleared once the appliance has activated the credential.
LEMMA HandleAckKeeps ==
    ASSUME Inv, HandleAck, step' = Verdict, UNCHANGED <<receipt, loaded, enrollment>>
    PROVE  Inv'
<1>1. /\ pc = "acking" /\ reply # "none" /\ UNCHANGED <<now, device, cred, rot, retired>>
      /\ UNCHANGED <<keychain, wire, failures>> /\ UNCHANGED <<claims, seen>>
      /\ pc' = "idle" /\ held' = 0 /\ reply' = "none"
  BY DEF HandleAck, EndRun, server, enrollment
<1>2. /\ held \in Rotations /\ pending = held /\ keychain = Replacement(held)
      /\ \A q \in wire : q.waited # "yes"
  BY <1>1, Numbers DEF Inv, TypeOK, Agent, Wire
<1>3. pending' = pending \/ (pending' = 0 /\ rot[held].status = "acknowledged")
  BY <1>1 DEF HandleAck, Inv, Agent
<1>4. TypeOK'
  BY <1>1, <1>3, Numbers DEF Inv, TypeOK
<1>5. Agent'
  BY <1>1, <1>3, Numbers DEF Inv, Agent, Sent
<1>6. Wire'
  <2>1. ASSUME NEW q \in wire, NEW r \in Rotations, q.kind = "ack", q.cred = Replacement(r),
               rot[r].status = "delivered"
        PROVE  pending' = r /\ keychain \in {0, Replacement(r)}
    BY <1>2, <1>3, <2>1 DEF Inv, Wire
  <2> QED BY <1>1, <1>2, <2>1 DEF Inv, Wire, Sent
<1>7. SwapIsRecorded'
  BY <1>1, <1>2, <1>3 DEF Inv, SwapIsRecorded, Tables, RowsMatch
<1>8. KeychainNotBehind'
  BY <1>1 DEF Inv, KeychainNotBehind
<1>9. Witnessed' => seen
  BY <1>1, <1>3, VerdictOf DEF Inv, Enrolling, Witnessed
<1> QED BY <1>1, <1>4, <1>5, <1>6, <1>7, <1>8, <1>9, VerdictOf, RunKeeps

\* A run that fails leaves its request behind, for nobody.
LEMMA FailRunKeeps ==
    ASSUME Inv, FailDeviceRun
    PROVE  Inv'
<1>1. /\ pc # "idle" /\ failures < MaxFailures /\ failures' = failures + 1
      /\ pc' = "idle" /\ held' = 0 /\ reply' = "none"
      /\ UNCHANGED <<now, device, cred, rot, retired>> /\ UNCHANGED <<keychain, pending>>
      /\ UNCHANGED <<receipt, loaded, claims, seen>> /\ step' \in {step, "idle"}
  BY DEF FailDeviceRun, FailRun, EndRun, server, enrollment
<1>2. keychain # 0 /\ step # "stopped"
  BY <1>1 DEF Inv, Agent, Enrolling
<1>3. ASSUME NEW p \in wire'
      PROVE  /\ p \in Request /\ p.waited = "no"
             /\ \E q \in wire : p.kind = q.kind /\ p.cred = q.cred /\ p.phase = q.phase
  <2>1. CASE p \in wire /\ p.waited # "yes"
    BY <2>1 DEF Inv, TypeOK, Request
  <2>2. CASE \E q \in wire : p = [q EXCEPT !.waited = "no"]
    <3>1. PICK q \in wire : p = [q EXCEPT !.waited = "no"]
      BY <2>2
    <3>2. q \in Request
      BY DEF Inv, TypeOK
    <3> QED BY <3>1, <3>2 DEF Request
  <2> QED BY <2>1, <2>2 DEF FailDeviceRun, FailRun
<1>4. TypeOK'
  BY <1>1, <1>3, Numbers, RotationAssumption DEF Inv, TypeOK
<1>5. Agent'
  BY <1>1 DEF Inv, Agent, Sent
<1>6. Wire'
  <2>1. ASSUME NEW q \in wire', q.kind = "ack"
        PROVE  \E r \in Rotations : Replacement(r) = q.cred /\ Sent(r)'
    BY <1>1, <1>3, <2>1 DEF Inv, Wire, Sent
  <2>2. ASSUME NEW q \in wire', NEW r \in Rotations, q.kind = "ack", q.cred = Replacement(r),
               rot'[r].status = "delivered"
        PROVE  pending' = r /\ keychain' \in {0, Replacement(r)}
    BY <1>1, <1>3, <2>2 DEF Inv, Wire
  <2> QED BY <1>3, <2>1, <2>2 DEF Wire, Sent
<1>7. SwapIsRecorded' /\ KeychainNotBehind'
  BY <1>1 DEF Inv, SwapIsRecorded, KeychainNotBehind
<1>8. Witnessed' => seen
  BY <1>1, <1>3 DEF Inv, Enrolling, Witnessed
<1> QED BY <1>1, <1>2, <1>4, <1>5, <1>6, <1>7, <1>8, RunKeeps

-----------------------------------------------------------------------------
(* Grants and the commands of the Mac *)

\* A step that leaves the rotation alone.
LEMMA RotationStays ==
    ASSUME Inv, UNCHANGED vars, Enrolling'
    PROVE  Inv'
<1>1. /\ UNCHANGED <<now, device, cred, rot, retired, wire>>
      /\ UNCHANGED <<keychain, pending, pc, held, reply, failures>>
  BY DEF vars
<1>2. TypeOK' /\ Agent' /\ SwapIsRecorded' /\ KeychainNotBehind'
  BY <1>1 DEF Inv, TypeOK, Agent, Sent, SwapIsRecorded, KeychainNotBehind
<1>3. Wire'
  BY <1>1 DEF Inv, Wire, Sent
<1>4. Tables'
  BY <1>1, TablesStay
<1> QED BY <1>2, <1>3, <1>4 DEF Inv

\* Grants come and go without touching the device.
LEMMA GrantsKeep ==
    ASSUME Inv, UNCHANGED <<vars, mac, claims, seen>>
    PROVE  Inv'
<1>1. Enrolling'
  BY DEF Inv, Enrolling, Witnessed, mac, vars
<1> QED BY <1>1, RotationStays

\* A claim begins on a Mac whose keychain is empty.
LEMMA BeginEnrollKeeps ==
    ASSUME Inv, NEW g, BeginEnroll(g)
    PROVE  Inv'
<1> DEFINE new == [id |-> g.id, waited |-> TRUE]
<1>1. /\ step = "idle" /\ keychain = 0 /\ step' = "claiming" /\ claims' = claims \cup {new}
      /\ UNCHANGED vars /\ UNCHANGED <<receipt, loaded, seen>>
      /\ UNCHANGED <<device, keychain, pending, pc, reply, rot, wire>>
  BY DEF BeginEnroll, vars
<1>2. new = [x \in ClaimFields |-> new[x]]
  BY DEF ClaimFields
<1> HIDE DEF new
<1>3. \A q \in claims : ~q.waited
  BY <1>1 DEF Inv, Enrolling
<1>4. Witnessed' => Witnessed
  BY <1>1 DEF Witnessed
<1>5. Enrolling'
  BY <1>1, <1>2, <1>3, <1>4 DEF Inv, Enrolling
<1> QED BY <1>1, <1>5, RotationStays

\* A claim is answered; its command goes on only if it still waits.
LEMMA AnswerClaimKeeps ==
    ASSUME Inv, NEW q \in claims, NEW next, AnswerClaim(q, next), next \in {"claimed", "idle"},
           UNCHANGED <<rot, wire, keychain, pending, pc, reply>>,
           UNCHANGED <<seen, receipt, loaded>>, device' # "none" \/ device' = device,
           next = "claimed" => /\ ~seen /\ device' # "none"
    PROVE  Enrolling' /\ (step # "claimed" /\ step' = "claimed" => ~seen)
<1>1. claims' = claims \ {q} /\ step' = IF q.waited THEN next ELSE step
  BY DEF AnswerClaim
<1>2. Witnessed' => Witnessed
  BY <1>1 DEF Witnessed
<1>3. CASE q.waited
  <2>1. step' = next /\ step = "claiming" /\ keychain = 0 /\ \A p \in claims' : ~p.waited
    BY <1>1, <1>3 DEF Inv, Enrolling
  <2>2. ~seen => pending = 0 /\ \A r \in Rotations : rot[r].status # "acknowledged"
    BY DEF Inv, Enrolling, Witnessed
  <2> QED BY <1>1, <1>2, <2>1, <2>2 DEF Inv, Enrolling
<1>4. CASE ~q.waited
  <2>1. step' = step
    BY <1>1, <1>4
  <2> QED BY <1>1, <1>2, <2>1 DEF Inv, Enrolling
<1> QED BY <1>3, <1>4

\* claim_grant: the first claim makes the device and its credential; a later
\* one hands the secret out again only before the device was seen.
LEMMA ServeClaimKeeps ==
    ASSUME Inv, NEW q \in claims, ServeClaim(q)
    PROVE  Inv' /\ (step # "claimed" /\ step' = "claimed" => ~seen)
<1>1. /\ UNCHANGED <<now, rot, retired, wire, seen, receipt, loaded>>
      /\ UNCHANGED <<keychain, pending, pc, held, reply, failures>>
  BY DEF ServeClaim, agent
<1>2. CASE /\ device = "none" /\ device' = "active" /\ cred' = Issued(TRUE)
           /\ AnswerClaim(q, "claimed")
  <2>1. /\ cred' \in CredRows /\ cred'[First].status = "active"
        /\ \A c \in Creds : c # First => cred'[c].status = "absent"
    BY <1>2, Numbers, RotationAssumption DEF Issued, CredRows
  <2>2. ~seen /\ keychain = 0 /\ wire = {}
    BY <1>2 DEF Inv, Enrolling
  <2>3. \A r \in Rotations : rot[r].status = "absent" /\ ~Live(r) /\ ~Live(r)'
    BY <1>1, <1>2, Numbers DEF Inv, Tables, RowsMatch, Live
  <2>4. OneLive' /\ RowsMatch' /\ Predecessors'
    BY <1>1, <2>1, <2>3, Numbers DEF OneLive, RowsMatch, Predecessors
  <2>5. OnlyActive(First)'
    BY <2>1 DEF OnlyActive
  <2>6. Tables'
    BY <1>2, <2>1, <2>4, <2>5, Numbers DEF Tables
  <2>7. TypeOK'
    BY <1>1, <1>2, <2>1 DEF Inv, TypeOK, CredRows
  <2>8. Agent' /\ Wire'
    BY <1>1, <2>2 DEF Inv, Agent, Wire, Sent
  <2>9. SwapIsRecorded' /\ KeychainNotBehind'
    BY <1>1, <2>2 DEF SwapIsRecorded, KeychainNotBehind
  <2>10. Enrolling' /\ (step # "claimed" /\ step' = "claimed" => ~seen)
    <3> DEFINE next == "claimed"
    <3>1. next \in {"claimed", "idle"} /\ AnswerClaim(q, next) /\ device' # "none"
      BY <1>2
    <3> HIDE DEF next
    <3> QED BY <1>1, <2>2, <3>1, AnswerClaimKeeps
  <2> QED BY <2>6, <2>7, <2>8, <2>9, <2>10 DEF Inv
<1>3. ASSUME UNCHANGED <<device, cred>>, NEW next \in {"claimed", "idle"}, AnswerClaim(q, next),
             next = "claimed" => ~seen /\ device = "active"
      PROVE  Inv' /\ (step # "claimed" /\ step' = "claimed" => ~seen)
  <2>1. UNCHANGED vars
    BY <1>1, <1>3 DEF vars
  <2>2. Enrolling' /\ (step # "claimed" /\ step' = "claimed" => ~seen)
    BY <1>1, <1>3, AnswerClaimKeeps
  <2> QED BY <2>1, <2>2, RotationStays
<1> QED BY <1>2, <1>3 DEF ServeClaim, FirstClaim, Resumable

\* store_initial: the credential it stores is the activated one, unless the
\* device has been revoked meanwhile.
LEMMA StoreInitialKeeps ==
    ASSUME Inv, StoreInitial
    PROVE  Inv'
<1>1. /\ step = "claimed" /\ keychain = 0 /\ keychain' = First /\ step' = "stored"
      /\ UNCHANGED <<now, device, cred, rot, retired>>
      /\ UNCHANGED <<pending, pc, held, reply, wire, failures>>
      /\ UNCHANGED <<receipt, loaded, claims, seen>>
  BY DEF StoreInitial, server, enrollment
<1>2. /\ pending = 0 /\ device # "none" /\ pc = "idle"
      /\ \A r \in Rotations : rot[r].status # "acknowledged"
  BY <1>1 DEF Inv, Enrolling, Agent
<1>3. TypeOK'
  BY <1>1, Numbers DEF Inv, TypeOK
<1>4. Tables'
  BY <1>1, TablesStay
<1>5. Agent'
  BY <1>1, <1>2, Numbers DEF Inv, Agent, Sent
<1>6. Wire'
  <2>1. ASSUME NEW q \in wire, NEW r \in Rotations, q.kind = "ack", q.cred = Replacement(r),
               rot[r].status = "delivered"
        PROVE  FALSE
    BY <1>2, <2>1, Numbers DEF Inv, Wire
  <2> QED BY <1>1, <2>1 DEF Inv, Wire, Sent
<1>7. SwapIsRecorded'
  BY <1>1 DEF Inv, Tables, SwapIsRecorded
<1>8. KeychainNotBehind'
  <2>1. ASSUME device = "active" PROVE cred[First].status = "active"
    <3>1. PICK c \in Creds : OnlyActive(c)
      BY <2>1 DEF Inv, Tables
    <3>2. cred[c].status = "active"
      BY <3>1 DEF OnlyActive
    <3> QED BY <1>2, <3>1, <3>2, Numbers DEF Inv, Tables, RowsMatch
  <2> QED BY <1>1, <2>1 DEF KeychainNotBehind
<1>9. \A q \in claims : ~q.waited
  BY <1>1 DEF Inv, Enrolling
<1>10. Enrolling'
  BY <1>1, <1>2, <1>9 DEF Inv, Enrolling, Witnessed
<1> QED BY <1>3, <1>4, <1>5, <1>6, <1>7, <1>8, <1>10 DEF Inv

\* The uninstaller empties the keychain while no run is under way.
LEMMA DeleteKeychainKeeps ==
    ASSUME Inv, DeleteKeychain
    PROVE  Inv'
<1>1. /\ step = "stopped" /\ keychain' = 0 /\ step' = "wiped"
      /\ UNCHANGED <<now, device, cred, rot, retired>>
      /\ UNCHANGED <<pending, pc, held, reply, wire, failures>>
      /\ UNCHANGED <<receipt, loaded, claims, seen>>
  BY DEF DeleteKeychain, server, enrollment
<1>2. pc = "idle" /\ \A q \in claims : ~q.waited
  BY <1>1 DEF Inv, Enrolling
<1>3. TypeOK'
  BY <1>1 DEF Inv, TypeOK
<1>4. Tables'
  BY <1>1, TablesStay
<1>5. Agent'
  BY <1>1, <1>2, Numbers DEF Inv, Agent, Sent
<1>6. Wire'
  BY <1>1 DEF Inv, Wire, Sent
<1>7. SwapIsRecorded' /\ KeychainNotBehind'
  BY <1>1 DEF SwapIsRecorded, KeychainNotBehind
<1>8. Enrolling'
  BY <1>1, <1>2 DEF Inv, Enrolling, Witnessed
<1> QED BY <1>3, <1>4, <1>5, <1>6, <1>7, <1>8 DEF Inv

\* The other steps of a local command move it on, and nothing waits for a claim.
LEMMA CommandKeeps ==
    ASSUME Inv, UNCHANGED vars, UNCHANGED <<claims, seen>>,
           step \notin {"claiming", "claimed"}, step' \notin {"claiming", "claimed"},
           loaded' \in BOOLEAN, Witnessed' => seen,
           step' = "stopped" => pc = "idle" /\ ~loaded'
    PROVE  Inv'
<1>1. \A q \in claims : ~q.waited
  BY DEF Inv, Enrolling
<1>2. UNCHANGED <<device, rot, wire, keychain, pending, pc>>
  BY DEF vars
<1>3. Enrolling'
  BY <1>1, <1>2 DEF Inv, Enrolling
<1> QED BY <1>3, RotationStays

\* The steps of the Mac's commands that touch only its files and launchd.
LEMMA CommandsKeep ==
    ASSUME Inv, \/ ConfigureServer \/ WriteReceipt \/ FinishActivation \/ AgentActivate
                \/ LoadDaemon \/ MarkReporting \/ Uninstall \/ RemoveFiles
    PROVE  Inv'
<1>1. /\ UNCHANGED vars /\ UNCHANGED <<claims, seen>>
      /\ UNCHANGED <<rot, wire, pending, reply>>
  BY DEF ConfigureServer, WriteReceipt, FinishActivation, AgentActivate, LoadDaemon,
     MarkReporting, Uninstall, RemoveFiles, enrollment, vars
<1>2. CASE ConfigureServer \/ WriteReceipt \/ FinishActivation \/ AgentActivate \/ RemoveFiles
  <2>1. /\ step \notin {"claiming", "claimed"}
        /\ step' \notin {"claiming", "claimed", "stopped", "verified", "loaded"}
        /\ loaded' = loaded /\ receipt' \in {receipt, "configured", "none"}
    BY <1>2 DEF ConfigureServer, WriteReceipt, FinishActivation, AgentActivate, RemoveFiles
  <2>2. loaded' \in BOOLEAN /\ (Witnessed' => seen)
    BY <1>1, <2>1 DEF Inv, Enrolling, Witnessed
  <2> QED BY <1>1, <2>1, <2>2, CommandKeeps
<1>3. CASE LoadDaemon \/ MarkReporting
  <2>1. /\ step \in {"verified", "loaded"} /\ step' \in {"loaded", "idle"}
        /\ loaded' = TRUE \/ loaded' = loaded
    BY <1>3 DEF LoadDaemon, MarkReporting
  <2>2. seen /\ loaded' \in BOOLEAN
    BY <2>1 DEF Inv, Enrolling, Witnessed
  <2> QED BY <1>1, <2>1, <2>2, CommandKeeps
<1>4. CASE Uninstall
  <2>1. step = "idle" /\ pc = "idle" /\ loaded' = FALSE /\ step' = "stopped" /\ receipt' = receipt
    BY <1>4 DEF Uninstall
  <2>2. Witnessed' => seen
    BY <1>1, <2>1 DEF Inv, Enrolling, Witnessed
  <2> QED BY <1>1, <2>1, <2>2, CommandKeeps
<1> QED BY <1>2, <1>3, <1>4

\* The first check-in starts a run, or stops at an empty Keychain.
LEMMA CheckInKeeps ==
    ASSUME Inv, CheckIn
    PROVE  Inv'
<1>1. step = "checking" /\ UNCHANGED <<receipt, loaded, claims, seen>>
  BY DEF CheckIn, enrollment
<1>2. CASE keychain # 0 /\ StartRun /\ step' = "running"
  BY <1>1, <1>2, StartRunKeeps
<1>3. CASE step' = "idle" /\ UNCHANGED vars
  <2>1. loaded' \in BOOLEAN /\ (Witnessed' => seen)
    BY <1>1, <1>3 DEF Inv, Enrolling, Witnessed, vars
  <2> QED BY <1>1, <1>3, <2>1, CommandKeeps
<1> QED BY <1>2, <1>3 DEF CheckIn

\* A command that fails leaves its claim behind, for nobody.
LEMMA FailCommandKeeps ==
    ASSUME Inv, FailCommand
    PROVE  Inv'
<1>1. /\ failures < MaxFailures /\ failures' = failures + 1 /\ step' = "idle"
      /\ UNCHANGED <<now, device, cred, rot, retired>>
      /\ UNCHANGED <<keychain, pending, pc, held, reply, wire>>
      /\ UNCHANGED <<receipt, loaded, seen>>
  BY DEF FailCommand, server
<1>2. ASSUME NEW p \in claims'
      PROVE  p = [x \in ClaimFields |-> p[x]] /\ ~p.waited
  <2>1. CASE p \in claims /\ ~p.waited
    BY <2>1 DEF Inv, Enrolling
  <2>2. CASE \E q \in claims : p = [q EXCEPT !.waited = FALSE]
    <3>1. PICK q \in claims : p = [q EXCEPT !.waited = FALSE]
      BY <2>2
    <3>2. q = [x \in ClaimFields |-> q[x]]
      BY DEF Inv, Enrolling
    <3> QED BY <3>1, <3>2 DEF ClaimFields
  <2> QED BY <2>1, <2>2 DEF FailCommand
<1>3. TypeOK'
  BY <1>1, RotationAssumption DEF Inv, TypeOK
<1>4. Agent' /\ SwapIsRecorded' /\ KeychainNotBehind'
  BY <1>1 DEF Inv, Agent, Sent, SwapIsRecorded, KeychainNotBehind
<1>5. Wire'
  BY <1>1 DEF Inv, Wire, Sent
<1>6. Tables'
  BY <1>1, TablesStay
<1>7. Enrolling'
  BY <1>1, <1>2 DEF Inv, Enrolling, Witnessed
<1> QED BY <1>3, <1>4, <1>5, <1>6, <1>7 DEF Inv

\* Time passes.
LEMMA PassKeeps ==
    ASSUME Inv, Pass
    PROVE  Inv'
<1>1. /\ now < MaxTime /\ now' = now + 1
      /\ UNCHANGED <<device, cred, rot, retired, wire>>
      /\ UNCHANGED <<keychain, pending, pc, held, reply, failures>>
      /\ UNCHANGED <<step, receipt, loaded, claims, seen>>
  BY DEF Pass, Tick, server, agent, mac
<1>2. TypeOK'
  BY <1>1, RotationAssumption DEF Inv, TypeOK
<1>3. Agent' /\ SwapIsRecorded' /\ KeychainNotBehind'
  BY <1>1 DEF Inv, Agent, Sent, SwapIsRecorded, KeychainNotBehind
<1>4. Wire'
  BY <1>1 DEF Inv, Wire, Sent
<1>5. Tables'
  BY <1>1, TablesStay
<1>6. Enrolling'
  BY <1>1 DEF Inv, Enrolling, Witnessed
<1> QED BY <1>2, <1>3, <1>4, <1>5, <1>6 DEF Inv

-----------------------------------------------------------------------------
(* The theorems *)

\* A Mac that was just installed and one that reports.
LEMMA InitInv == EnrollmentInit => Inv
<1> SUFFICES ASSUME EnrollmentInit PROVE Inv
  OBVIOUS
<1>1. /\ now = 0 /\ pending = 0 /\ pc = "idle" /\ held = 0 /\ reply = "none"
      /\ wire = {} /\ retired = 0 /\ claims = {}
      /\ rot = [r \in Rotations |-> [status |-> "absent", pred |-> First,
                                     expires |-> 0, count |-> 0]]
  BY DEF EnrollmentInit, NothingRotated
<1>2. rot \in RotRows /\ \A r \in Rotations : rot[r].status = "absent" /\ ~Live(r)
  BY <1>1, Numbers, RotationAssumption DEF RotRows, Live
<1>3. PICK holds \in BOOLEAN :
        /\ cred = Issued(holds)
        /\ IF holds THEN Enrolled /\ failures = 0 /\ InitReporting
           ELSE InitNew
  BY DEF EnrollmentInit, InitNew, InitReporting, Enrolled
<1>4. /\ cred \in CredRows
      /\ cred[First].status = IF holds THEN "active" ELSE "absent"
      /\ \A c \in Creds : c # First => cred[c].status = "absent"
  BY <1>3, Numbers, RotationAssumption DEF Issued, CredRows
<1>5. /\ device = IF holds THEN "active" ELSE "none"
      /\ keychain = IF holds THEN First ELSE 0
      /\ failures \in 0..MaxFailures /\ step \in {"unconfigured", "idle"}
      /\ seen \in BOOLEAN /\ loaded \in BOOLEAN
      /\ device = "none" => ~seen
      /\ loaded \/ receipt = "reporting" => seen
  <2>1. CASE holds
    BY <1>3, <2>1, RotationAssumption DEF InitReporting, Enrolled
  <2>2. CASE ~holds
    <3>1. MaxFailures - MaxInterrupts \in 0..MaxFailures
      BY RotationAssumption, EnrollmentAssumption
    <3> QED BY <1>3, <2>2, <3>1 DEF InitNew
  <2> QED BY <2>1, <2>2
<1>6. TypeOK
  BY <1>1, <1>2, <1>4, <1>5, Numbers, RotationAssumption DEF TypeOK, CredRows, RotRows
<1>7. OneLive /\ RowsMatch /\ Predecessors
  BY <1>2, <1>4, Numbers DEF OneLive, RowsMatch, Predecessors
<1>8. Tables
  BY <1>4, <1>5, <1>7, Numbers DEF Tables, OnlyActive
<1>9. Agent /\ Wire
  BY <1>1, <1>5, Numbers DEF Agent, Wire
<1>10. Enrolling
  BY <1>1, <1>2, <1>5 DEF Enrolling, Witnessed
<1>11. SwapIsRecorded /\ KeychainNotBehind
  BY <1>4, <1>5 DEF SwapIsRecorded, KeychainNotBehind
<1> QED BY <1>6, <1>8, <1>9, <1>10, <1>11 DEF Inv

\* One case for each action.
LEMMA NextKeeps == Inv /\ [EnrollmentNext]_allVars => Inv'
<1> SUFFICES ASSUME Inv, [EnrollmentNext]_allVars PROVE Inv'
  OBVIOUS
<1>1. CASE UNCHANGED allVars
  <2>1. UNCHANGED vars /\ UNCHANGED mac /\ UNCHANGED enrollment
    BY <1>1 DEF allVars
  <2>2. UNCHANGED <<vars, mac, claims, seen>>
    BY <2>1 DEF enrollment
  <2> QED BY <2>2, GrantsKeep
<1>2. CASE RequestGrant \/ LoseAuthority \/ (\E g \in grants : RevokeGrant(g))
  BY <1>2, GrantsKeep DEF RequestGrant, LoseAuthority, RevokeGrant
<1>3. CASE \E g \in grants : BeginEnroll(g)
  BY <1>3, BeginEnrollKeeps
<1>4. CASE \E q \in claims : ServeClaim(q)
  BY <1>4, ServeClaimKeeps
<1>5. CASE \/ Provision \/ ConfigureServer \/ WriteReceipt \/ FinishActivation \/ AgentActivate
           \/ LoadDaemon \/ MarkReporting \/ Uninstall \/ RemoveFiles
  BY <1>5, CommandsKeep DEF Provision
<1>6. CASE StoreInitial \/ CheckIn \/ DeleteKeychain \/ FailCommand
  BY <1>6, StoreInitialKeeps, CheckInKeeps, DeleteKeychainKeeps, FailCommandKeeps
<1>7. CASE Administer \/ RevokeEnrolled
  BY <1>7, InitiateKeeps, CancelKeeps, RevokeCredentialKeeps, RevokeEnrolledKeeps DEF Administer
<1>8. CASE ServeDevice
  BY <1>8, AuthenticateKeeps, PollKeeps, AcknowledgeKeeps DEF ServeDevice
<1>9. CASE DaemonRun
  <2>1. /\ StartRun /\ keychain # 0 /\ loaded
        /\ UNCHANGED <<step, receipt, loaded, claims, seen>>
    BY <1>9 DEF DaemonRun, mac, enrollment
  <2>2. step # "stopped" /\ step' \in {step, "running"}
    BY <2>1 DEF Inv, Enrolling
  <2> QED BY <2>1, <2>2, StartRunKeeps
<1>10. CASE RunStep
  BY <1>10, HandlePollKeeps, ReplacePairKeeps, SendAckKeeps, HandleAckKeeps DEF RunStep
<1>11. CASE FailDeviceRun \/ Pass
  BY <1>11, FailRunKeeps, PassKeeps
<1> QED BY <1>1, <1>2, <1>3, <1>4, <1>5, <1>6, <1>7, <1>8, <1>9, <1>10, <1>11
        DEF EnrollmentNext

\* What the tables, the agent, the requests and enrollment know of each other
\* holds of every reachable state.
THEOREM Invariance == EnrollmentSpec => []Inv
<1> QED BY InitInv, NextKeeps, PTL DEF EnrollmentSpec

\* Every row, credential and request has the values its column allows; a
\* rotation is never delivered more often than _MAX_DELIVERIES.
THEOREM TypeCorrect == EnrollmentSpec => []TypeOK
<1>1. Inv => TypeOK
  BY DEF Inv
<1> QED BY <1>1, Invariance, PTL

\* An active device has exactly one activated credential.
THEOREM ActiveCredentialUnique == EnrollmentSpec => []OneActiveCredential
<1>1. ASSUME Inv PROVE OneActiveCredential
  <2> DEFINE Activated == {c \in Creds : cred[c].status = "active"}
  <2>1. ASSUME device = "active" PROVE Cardinality(Activated) = 1
    <3>1. PICK c \in Creds : OnlyActive(c)
      BY <1>1, <2>1 DEF Inv, Tables
    <3>2. Activated = {c}
      BY <3>1 DEF OnlyActive
    <3> QED BY <3>2, FS_Singleton
  <2>2. device # "active" => Activated = {}
    BY <1>1 DEF Inv, Tables
  <2>3. \A r \in Rotations : Live(r) => rot[r].pred \in Activated
    BY <1>1, RowTypes DEF Inv, Tables, Predecessors, RotRows
  <2> QED BY <2>1, <2>2, <2>3 DEF OneActiveCredential
<1> QED BY <1>1, Invariance, PTL

\* While the keychain holds a credential that is not activated, the spool names
\* its rotation.
THEOREM SwapsAreRecorded == EnrollmentSpec => []SwapIsRecorded
<1>1. Inv => SwapIsRecorded
  BY DEF Inv
<1> QED BY <1>1, Invariance, PTL

\* No acknowledgement retires the credential that the keychain still holds.
THEOREM KeychainKeepsUp == EnrollmentSpec => []KeychainNotBehind
<1>1. Inv => KeychainNotBehind
  BY DEF Inv
<1> QED BY <1>1, Invariance, PTL

\* Only the answer to a claim hands out the first secret, and only before the
\* device was seen.
LEMMA ClaimedUnseen ==
    ASSUME Inv, [EnrollmentNext]_allVars, step # "claimed", step' = "claimed"
    PROVE  ~seen
<1>1. CASE \E q \in claims : ServeClaim(q)
  BY <1>1, ServeClaimKeeps
<1>2. CASE UNCHANGED allVars
  BY <1>2 DEF allVars, mac
<1>3. CASE RequestGrant \/ LoseAuthority \/ (\E g \in grants : RevokeGrant(g))
  BY <1>3 DEF RequestGrant, LoseAuthority, RevokeGrant, mac
<1>4. CASE \E g \in grants : BeginEnroll(g)
  BY <1>4 DEF BeginEnroll
<1>5. CASE \/ Provision \/ ConfigureServer \/ WriteReceipt \/ FinishActivation \/ AgentActivate
           \/ LoadDaemon \/ MarkReporting \/ Uninstall \/ RemoveFiles
           \/ StoreInitial \/ CheckIn \/ DeleteKeychain \/ FailCommand
  BY <1>5 DEF Provision, ConfigureServer, WriteReceipt, FinishActivation, AgentActivate,
     LoadDaemon, MarkReporting, Uninstall, RemoveFiles, StoreInitial, CheckIn, DeleteKeychain,
     FailCommand
<1>6. CASE Administer \/ RevokeEnrolled \/ ServeDevice \/ DaemonRun \/ Pass
  BY <1>6 DEF Administer, RevokeEnrolled, ServeDevice, DaemonRun, Pass, mac
<1>7. CASE RunStep
  BY <1>7 DEF RunStep, Verdict
<1>8. CASE FailDeviceRun
  BY <1>8 DEF FailDeviceRun
<1> QED BY <1>1, <1>2, <1>3, <1>4, <1>5, <1>6, <1>7, <1>8 DEF EnrollmentNext

\* The first secret is handed out only until the device's first authenticated
\* use, overwrites no credential, and a loaded daemon or a receipt that says
\* "reporting" belongs to a device the appliance has authenticated.
THEOREM EnrollmentIsHonest == EnrollmentSpec => EnrollmentHonest
<1>1. ASSUME Inv, Inv', [EnrollmentNext]_allVars
      PROVE  [/\ step # "claimed" /\ step' = "claimed" => ~seen
              /\ step = "claimed" => keychain = 0
              /\ loaded' \/ receipt' = "reporting" => seen']_allVars
  <2>1. step # "claimed" /\ step' = "claimed" => ~seen
    BY <1>1, ClaimedUnseen
  <2>2. step = "claimed" => keychain = 0
    BY <1>1 DEF Inv, Enrolling
  <2>3. loaded' \/ receipt' = "reporting" => seen'
    BY <1>1 DEF Inv, Enrolling, Witnessed
  <2> QED BY <2>1, <2>2, <2>3
<1> QED BY <1>1, Invariance, PTL DEF EnrollmentSpec, EnrollmentHonest

=============================================================================
