----------------------- MODULE NetworkAuthorityProofs -----------------------
(***************************************************************************)
(* Proofs about NetworkAuthority.  Neither LockoutFree nor AuthorityFresh  *)
(* is inductive, nor is their conjunction: that a network can be resumed   *)
(* without locking its team out depends on who paused it, and that nothing *)
(* of a new user is left over from an earlier one on rows appearing in     *)
(* order.  Standing says so.  The invariant is cut by what its parts read: *)
(* an action that leaves the teams alone disturbs only what it writes.     *)
(***************************************************************************)
EXTENDS NetworkAuthority, TLAPS

NetworkRow == [status : {"none", "active", "suspended"}, domain : BOOLEAN, route : BOOLEAN]
States == Roles \cup {"none", "disabled"}

TeamTyped ==
    /\ network \in [Networks -> NetworkRow]
    /\ users \in [Networks -> [People -> States]]
    /\ owner = NoOwner \/ owner \in [home : Networks, person : People]
    /\ projections \subseteq (Networks \ {owner.home}) \X People
    /\ codes \subseteq (Networks \X People) \ projections

\* Only the owner pauses a network, only he has users in other networks, and
\* no row of a user precedes that of its network.
Standing ==
    /\ \A n \in Networks : network[n].status = "suspended" => owner # NoOwner
    /\ \A n \in Networks, p \in People : Projection(n, p) =>
          /\ owner # NoOwner /\ p = owner.person
          /\ users[n][p] = "admin" /\ network[n].status # "none"
    /\ \A n \in Networks : network[n].status = "none" =>
          \A p \in People : users[n][p] = "none"
    /\ \A n \in Networks, p \in People : <<n, p>> \in codes => users[n][p] # "none"

Team == TeamTyped /\ Standing /\ LockoutFree

Session == [id : Nat, network : Networks, person : People, role : Roles]
Principal == [session : Session, network : Networks, granting : BOOLEAN, role : Roles]

\* Sign-ins, and the principals of requests, which may be stale.
SignIns ==
    /\ token \in 0..MaxSessions /\ issued \in 0..MaxSessions
    /\ sessions \subseteq [id : 1..issued, network : Networks, person : People, role : Roles]
    /\ \A s \in sessions : Active(s.network, s.person) /\ users[s.network][s.person] = s.role
    /\ held \subseteq Principal
    /\ \A c \in challenges : c.network \in Networks /\ c.person \in People

Invites ==
    /\ invites \subseteq [network : Networks, person : People, role : Roles,
                          issuer : People, begun : BOOLEAN]
    /\ \A i \in invites : ActiveAdmin(i.network, i.issuer)

Responses ==
    /\ response \in [Networks -> SUBSET People]
    /\ \A n \in Networks : \A p \in response[n] : Active(n, p)

AccountRow == [network : Networks \cup {"none"}, status : {"none", "active", "disabled"},
               version : Nat \ {0}, setup : BOOLEAN, initial : BOOLEAN, verified : Nat,
               session : Nat, reset : BOOLEAN, grant : Nat]

\* What an account still has was issued for its current password and status.
FreshAccount(e, v) ==
    v # 0 => v = account[e].version /\ account[e].status = "active" /\ NetworkActive(e)

Endpoints ==
    /\ grants \subseteq [network : Networks, by : People]
    /\ devices \in [Networks -> {"none", "active", "revoked"}]
    /\ account \in [Accounts -> AccountRow]
    /\ \A e \in Accounts : FreshAccount(e, account[e].session) /\ FreshAccount(e, account[e].grant)

Inv == Team /\ SignIns /\ Invites /\ Responses /\ Endpoints

-----------------------------------------------------------------------------
(* What the invariant gives *)

\* The owner's users elsewhere need no second look: he is the owner.
LEMMA AdminIsActiveAdmin ==
    ASSUME Team, NEW n \in Networks, NEW p \in People
    PROVE  ActiveAdmin(n, p) <=> network[n].status = "active" /\ users[n][p] = "admin"
<1>1. Projection(n, p) => IsOwner(owner.home, p)
  BY DEF Team, Standing, LockoutFree
<1> QED BY <1>1 DEF ActiveAdmin, Active, Roles

\* A request that passes the second look is made by an administrator of today.
LEMMA CurrentAdmin ==
    ASSUME Inv, NEW h \in held, RequireAdminIn(h)
    PROVE  /\ h \in Principal /\ h.network \in Networks /\ Person(h) \in People
           /\ network[h.network].status = "active" /\ users[h.network][Person(h)] = "admin"
           /\ ActiveAdmin(h.network, Person(h))
<1>1. h \in Principal
  BY DEF Inv, SignIns
<1>2. h.network \in Networks /\ Person(h) \in People
  BY <1>1 DEF Principal, Session, Person
<1>3. network[h.network].status = "active" /\ users[h.network][Person(h)] = "admin"
  BY DEF RequireAdminIn, RequireManage, CurrentCapability, Active
<1> QED BY <1>1, <1>2, <1>3, AdminIsActiveAdmin DEF Inv

\* A request of the owner is made by the owner of today, from his home.
LEMMA CurrentOwner ==
    ASSUME Inv, NEW h \in held, RequireOwner(h)
    PROVE  /\ h \in Principal /\ h.network \in Networks /\ Person(h) \in People
           /\ owner = [home |-> h.network, person |-> Person(h)]
           /\ owner # NoOwner
           /\ network[h.network].status = "active" /\ users[h.network][Person(h)] = "admin"
<1>1. RequireAdminIn(h) /\ owner = [home |-> h.network, person |-> Person(h)]
  BY DEF RequireOwner, IsOwner
<1>2. owner # NoOwner
  BY <1>1, CurrentAdmin, AuthorityAssumption DEF NoOwner
<1> QED BY <1>1, <1>2, CurrentAdmin

\* Without any administrator the appliance is empty.
LEMMA Unconfigured ==
    ASSUME Inv, ~BootstrapConfigured
    PROVE  /\ owner = NoOwner
           /\ \A n \in Networks : network[n].status = "none"
           /\ \A n \in Networks, p \in People : users[n][p] = "none"
           /\ projections = {} /\ codes = {} /\ sessions = {} /\ invites = {}
           /\ \A n \in Networks : response[n] = {}
           /\ \A e \in Accounts : account[e].session = 0 /\ account[e].grant = 0
<1>1. \A n \in Networks, p \in People : users[n][p] # "admin"
  BY DEF BootstrapConfigured
<1>2. owner = NoOwner
  BY <1>1 DEF Inv, Team, TeamTyped, LockoutFree, IsOwner
<1>3. \A n \in Networks : network[n].status # "active"
  BY <1>1 DEF Inv, Team, LockoutFree, ActiveAdmin
<1>4. \A n \in Networks : network[n].status = "none"
  BY <1>2, <1>3 DEF Inv, Team, TeamTyped, Standing, NetworkRow
<1>5. \A n \in Networks, p \in People : users[n][p] = "none"
  BY <1>4 DEF Inv, Team, Standing
<1>6. projections = {} /\ codes = {}
  BY <1>2, <1>5 DEF Inv, Team, TeamTyped, Standing, Projection
<1>7. sessions = {} /\ invites = {}
  BY <1>3 DEF Inv, SignIns, Invites, ActiveAdmin, Active
<1>8. \A n \in Networks : response[n] = {}
  BY <1>3 DEF Inv, Responses, Active
<1>9. ASSUME NEW e \in Accounts
      PROVE  account[e].session = 0 /\ account[e].grant = 0
  <2>1. account[e].network \in Networks \cup {"none"}
    BY DEF Inv, Endpoints, AccountRow
  <2>2. ~NetworkActive(e)
    BY <2>1, <1>3 DEF NetworkActive
  <2> QED BY <2>2 DEF Inv, Endpoints, FreshAccount
<1> QED BY <1>2, <1>4, <1>5, <1>6, <1>7, <1>8, <1>9

\* The invariant implies what the run checks.
LEMMA InvImplies == Inv => TypeOK /\ LockoutFree /\ AuthorityFresh
<1> SUFFICES ASSUME Inv PROVE TypeOK /\ LockoutFree /\ AuthorityFresh
  OBVIOUS
<1>1. LockoutFree
  BY DEF Inv, Team
<1>2. ASSUME NEW e \in Accounts
      PROVE  /\ account[e].network \in Networks \cup {"none"}
             /\ {account[e].session, account[e].grant} \subseteq 0..account[e].version
             /\ \A v \in {account[e].session, account[e].grant} \ {0} :
                  v = account[e].version /\ account[e].status = "active" /\ NetworkActive(e)
  <2>1. account[e] \in AccountRow /\ FreshAccount(e, account[e].session)
                                  /\ FreshAccount(e, account[e].grant)
    BY DEF Inv, Endpoints
  <2> QED BY <2>1 DEF AccountRow, FreshAccount
<1>3. TypeOK
  BY <1>2 DEF TypeOK, Inv, Team, TeamTyped, SignIns, Invites, Responses, Endpoints,
              NetworkRow, States
<1>4. AuthorityFresh
  BY <1>2 DEF AuthorityFresh, Inv, SignIns, Invites, Responses
<1> QED BY <1>1, <1>3, <1>4

-----------------------------------------------------------------------------
(* What a step that leaves the teams alone keeps *)

ChallengesTyped == \A c \in challenges : c.network \in Networks /\ c.person \in People

\* Teams that are not changed stand as they did.
LEMMA TeamStays ==
    ASSUME Team, UNCHANGED <<network, teamVars>>
    PROVE  Team'
  BY DEF Team, TeamTyped, Standing, LockoutFree, teamVars, Projection, IsOwner,
         ActiveAdmin, Active

\* Sessions, invitations and principals may always go.
LEMMA SignInsStay ==
    ASSUME SignIns, UNCHANGED <<network, users>>, token' \in 0..MaxSessions,
           issued' = issued \/ (issued' = issued + 1 /\ issued < MaxSessions),
           sessions' \subseteq sessions, held' \subseteq held, ChallengesTyped'
    PROVE  SignIns'
<1>1. issued \in 0..MaxSessions /\ MaxSessions \in Nat
  BY AuthorityAssumption DEF SignIns
<1>2. issued' \in 0..MaxSessions /\ 1..issued \subseteq 1..issued'
  BY <1>1
<1>3. sessions' \subseteq [id : 1..issued', network : Networks, person : People, role : Roles]
  BY <1>2 DEF SignIns
<1>4. \A s \in sessions' : Active(s.network, s.person)' /\ users'[s.network][s.person] = s.role
  BY DEF SignIns, Active
<1> QED BY <1>2, <1>3, <1>4 DEF SignIns, ChallengesTyped

\* Without a change of the team, open invitations can only be used up.
LEMMA InvitesStay ==
    ASSUME Invites, UNCHANGED <<network, teamVars>>, invites' \subseteq invites
    PROVE  Invites'
  BY DEF Invites, teamVars, ActiveAdmin, Active, Projection, IsOwner

\* Who proposed and approved an action that waits is still active.
LEMMA ResponsesStay ==
    ASSUME Responses, UNCHANGED <<network, users, response>>
    PROVE  Responses'
  BY DEF Responses, Active

\* Accounts depend on nothing but their network.
LEMMA EndpointsStay ==
    ASSUME Endpoints, UNCHANGED <<network, endpointVars>>
    PROVE  Endpoints'
  BY DEF Endpoints, endpointVars, FreshAccount, NetworkActive

\* A step that only signs in or out.
LEMMA QuietStep ==
    ASSUME Inv, UNCHANGED <<network, teamVars, response, endpointVars>>,
           invites' \subseteq invites, SignIns'
    PROVE  Inv'
<1>1. UNCHANGED <<network, users>> /\ UNCHANGED <<network, teamVars>>
      /\ UNCHANGED <<network, users, response>> /\ UNCHANGED <<network, endpointVars>>
  BY DEF teamVars
<1> QED BY <1>1, TeamStays, InvitesStay, ResponsesStay, EndpointsStay DEF Inv

\* A new challenge is for a person and a network that exist.
LEMMA ChallengeTyped ==
    ASSUME Inv, NEW purpose, NEW n \in Networks, NEW p \in People,
           CreateChallenge(purpose, n, p)
    PROVE  ChallengesTyped'
<1>1. NewChallenge(purpose, n, p).network = n /\ NewChallenge(purpose, n, p).person = p
  BY DEF NewChallenge
<1> QED BY <1>1 DEF CreateChallenge, ChallengesTyped, Inv, SignIns

\* A new session is the last one issued.
LEMMA SessionIssued ==
    ASSUME Inv, NEW n \in Networks, NEW p \in People, NEW role \in Roles,
           IssueSession(NewSession(n, p, role))
    PROVE  /\ issued' \in 0..MaxSessions
           /\ sessions' \subseteq [id : 1..issued', network : Networks, person : People,
                                   role : Roles]
           /\ \A s \in sessions' : s \in sessions \/
                 (s.network = n /\ s.person = p /\ s.role = role)
<1> DEFINE new == NewSession(n, p, role)
<1>1. issued \in 0..MaxSessions /\ MaxSessions \in Nat /\ issued < MaxSessions
      /\ issued' = issued + 1 /\ sessions' = sessions \cup {new}
  BY AuthorityAssumption DEF Inv, SignIns, IssueSession
<1>2. issued' \in 0..MaxSessions /\ 1..issued \subseteq 1..issued' /\ issued + 1 \in 1..issued'
  BY <1>1
<1>3. new \in [id : 1..issued', network : Networks, person : People, role : Roles]
  BY <1>2 DEF NewSession
<1>4. new.network = n /\ new.person = p /\ new.role = role
  BY DEF NewSession
<1> QED BY <1>1, <1>2, <1>3, <1>4 DEF Inv, SignIns

-----------------------------------------------------------------------------
(* Signing in and out *)

\* A request begins: its principal is what the session says now.
LEMMA AuthenticateKeeps ==
    ASSUME Inv, NEW s \in sessions, NEW n \in Networks, Authenticate(s, n)
    PROVE  Inv'
<1> DEFINE new == [session |-> s, network |-> n, granting |-> FALSE,
                   role |-> IF n = s.network THEN users[n][s.person] ELSE "admin"]
<1>1. held' = held \cup {new}
  BY DEF Authenticate
<1>2. s \in Session
  BY AuthorityAssumption DEF Inv, SignIns, Session
<1>3. (IF n = s.network THEN users[n][s.person] ELSE "admin") \in Roles
  BY DEF Authenticate, Active, Roles
<1>4. new \in Principal
  BY <1>2, <1>3 DEF Principal
<1>5. SignIns'
  BY <1>1, <1>4 DEF Inv, SignIns, Authenticate, signInVars, teamVars, Active
<1> QED BY <1>5, QuietStep DEF Authenticate, signInVars

\* Steps that create no session and no principal.
LEMMA PlainSignInKeeps ==
    ASSUME Inv,
           \/ IssueBootstrapToken \/ RevokeBootstrapTokens
           \/ \E p \in People : BeginBootstrap(p)
           \/ \E n \in Networks, p \in People : BeginAuthentication(n, p)
           \/ \E i \in invites : ExpireInvite(i)
           \/ \E s \in sessions : ExpireSession(s)
           \/ \E h \in held : \/ Answer(h) \/ RevokeSession(h) \/ BeginPasskeyRegistration(h)
                              \/ \E c \in challenges : CompletePasskeyRegistration(h, c)
                              \/ \E i \in invites : RevokeInvite(h, i)
    PROVE  Inv'
<1> USE DEF Done
<1>0. SignIns /\ ChallengesTyped /\ token \in 0..MaxSessions /\ issued \in 0..MaxSessions
      /\ MaxSessions \in Nat
  BY AuthorityAssumption DEF Inv, SignIns, ChallengesTyped
<1>1. CASE IssueBootstrapToken
  <2>1. token' \in 0..MaxSessions
    BY <1>0, <1>1 DEF IssueBootstrapToken
  <2>2. SignIns'
    BY <1>0, <1>1, <2>1, SignInsStay DEF IssueBootstrapToken, teamVars, ChallengesTyped
  <2> QED BY <1>1, <2>2, QuietStep DEF IssueBootstrapToken
<1>2. CASE RevokeBootstrapTokens
  <2>1. SignIns'
    BY <1>0, <1>2, SignInsStay DEF RevokeBootstrapTokens, teamVars, ChallengesTyped
  <2> QED BY <1>2, <2>1, QuietStep DEF RevokeBootstrapTokens
<1>3. ASSUME NEW p \in People, BeginBootstrap(p)
      PROVE  Inv'
  <2>1. ChallengesTyped'
    BY <1>3, ChallengeTyped, AuthorityAssumption DEF BeginBootstrap
  <2>2. SignIns'
    BY <1>0, <1>3, <2>1, SignInsStay DEF BeginBootstrap, teamVars
  <2> QED BY <1>3, <2>2, QuietStep DEF BeginBootstrap
<1>4. ASSUME NEW n \in Networks, NEW p \in People, BeginAuthentication(n, p)
      PROVE  Inv'
  <2>1. ChallengesTyped'
    BY <1>4, ChallengeTyped DEF BeginAuthentication
  <2>2. SignIns'
    BY <1>0, <1>4, <2>1, SignInsStay DEF BeginAuthentication, teamVars
  <2> QED BY <1>4, <2>2, QuietStep DEF BeginAuthentication
<1>5. ASSUME NEW i \in invites, ExpireInvite(i)
      PROVE  Inv'
  <2>1. SignIns'
    BY <1>0, <1>5, SignInsStay DEF ExpireInvite, teamVars, ChallengesTyped
  <2> QED BY <1>5, <2>1, QuietStep DEF ExpireInvite
<1>6. ASSUME NEW s \in sessions, ExpireSession(s)
      PROVE  Inv'
  <2>1. SignIns'
    BY <1>0, <1>6, SignInsStay DEF ExpireSession, teamVars, ChallengesTyped
  <2> QED BY <1>6, <2>1, QuietStep DEF ExpireSession
<1>7. ASSUME NEW h \in held, Answer(h)
      PROVE  Inv'
  <2>1. SignIns'
    BY <1>0, <1>7, SignInsStay DEF Answer, teamVars, signInVars, ChallengesTyped
  <2> QED BY <1>7, <2>1, QuietStep DEF Answer, signInVars
<1>8. ASSUME NEW h \in held, RevokeSession(h)
      PROVE  Inv'
  <2>1. SignIns'
    BY <1>0, <1>8, SignInsStay DEF RevokeSession, teamVars, ChallengesTyped
  <2> QED BY <1>8, <2>1, QuietStep DEF RevokeSession
<1>9. ASSUME NEW h \in held, BeginPasskeyRegistration(h)
      PROVE  Inv'
  <2>1. h.network \in Networks /\ Person(h) \in People
    BY DEF Inv, SignIns, Principal, Session, Person
  <2>2. ChallengesTyped'
    BY <1>9, <2>1, ChallengeTyped DEF BeginPasskeyRegistration
  <2>3. SignIns'
    BY <1>0, <1>9, <2>2, SignInsStay DEF BeginPasskeyRegistration, teamVars
  <2> QED BY <1>9, <2>3, QuietStep DEF BeginPasskeyRegistration
<1>10. ASSUME NEW h \in held, NEW c \in challenges, CompletePasskeyRegistration(h, c)
       PROVE  Inv'
  <2>1. SignIns'
    BY <1>0, <1>10, SignInsStay
       DEF CompletePasskeyRegistration, ConsumeChallenge, teamVars, ChallengesTyped
  <2> QED BY <1>10, <2>1, QuietStep DEF CompletePasskeyRegistration
<1>11. ASSUME NEW h \in held, NEW i \in invites, RevokeInvite(h, i)
       PROVE  Inv'
  <2>1. SignIns'
    BY <1>0, <1>11, SignInsStay DEF RevokeInvite, teamVars, ChallengesTyped
  <2> QED BY <1>11, <2>1, QuietStep DEF RevokeInvite
<1> QED BY <1>1, <1>2, <1>3, <1>4, <1>5, <1>6, <1>7, <1>8, <1>9, <1>10, <1>11

\* complete_authentication issues a session to a user who is active now.
LEMMA CompleteAuthenticationKeeps ==
    ASSUME Inv, NEW c \in challenges, CompleteAuthentication(c)
    PROVE  Inv'
<1>1. c.network \in Networks /\ c.person \in People
  BY DEF Inv, SignIns
<1>2. Active(c.network, c.person) /\ users[c.network][c.person] \in Roles
  BY DEF CompleteAuthentication, MayIssueSession, Active
<1>3. IssueSession(NewSession(c.network, c.person, users[c.network][c.person]))
  BY DEF CompleteAuthentication
<1>4. SignIns'
  BY <1>1, <1>2, <1>3, SessionIssued
     DEF Inv, SignIns, CompleteAuthentication, ConsumeChallenge, teamVars, Active
<1> QED BY <1>4, QuietStep DEF CompleteAuthentication

\* So does recover_session, for one recovery code.
LEMMA RecoverSessionKeeps ==
    ASSUME Inv, NEW n \in Networks, NEW p \in People, RecoverSession(n, p)
    PROVE  Inv'
<1>1. Active(n, p) /\ users[n][p] \in Roles
  BY DEF RecoverSession, MayIssueSession, Active
<1>2. IssueSession(NewSession(n, p, users[n][p]))
  BY DEF RecoverSession
<1>3. SignIns'
  BY <1>1, <1>2, SessionIssued DEF Inv, SignIns, RecoverSession, Active
<1>4. Team'
  <2>1. codes' \subseteq codes /\ UNCHANGED <<network, users, owner, projections>>
    BY DEF RecoverSession
  <2>2. TeamTyped' /\ Standing'
    BY <2>1 DEF Inv, Team, TeamTyped, Standing, Projection
  <2>3. LockoutFree'
    BY <2>1 DEF Inv, Team, LockoutFree, Projection, IsOwner, ActiveAdmin, Active
  <2> QED BY <2>2, <2>3 DEF Team
<1>5. Invites'
  BY DEF Inv, Invites, RecoverSession, ActiveAdmin, Active, Projection, IsOwner
<1>6. Responses' /\ Endpoints'
  BY ResponsesStay, EndpointsStay DEF Inv, RecoverSession
<1> QED BY <1>3, <1>4, <1>5, <1>6 DEF Inv

-----------------------------------------------------------------------------
(* Invitations and actions *)

\* issue_human_invite and begin_human_invite: an open invitation is one of an
\* administrator of today.
LEMMA OpenInviteKeeps ==
    ASSUME Inv,
           \/ \E i \in invites : BeginInvite(i)
           \/ \E h \in held, p \in People, role \in Roles : IssueInvite(h, p, role)
    PROVE  Inv'
<1>0. SignIns /\ ChallengesTyped /\ token \in 0..MaxSessions /\ Team /\ Responses /\ Endpoints
  BY DEF Inv, SignIns, ChallengesTyped
<1>1. ASSUME NEW i \in invites, BeginInvite(i)
      PROVE  Inv'
  <2>1. SignIns'
    BY <1>0, <1>1, SignInsStay DEF BeginInvite, teamVars, ChallengesTyped
  <2>2. Team' /\ Responses' /\ Endpoints'
    BY <1>0, <1>1, TeamStays, ResponsesStay, EndpointsStay DEF BeginInvite, teamVars
  <2>3. invites' = (invites \ {i}) \cup {[i EXCEPT !.begun = TRUE]}
    BY <1>1 DEF BeginInvite
  <2>4. [i EXCEPT !.begun = TRUE].network = i.network
        /\ [i EXCEPT !.begun = TRUE].issuer = i.issuer
    BY DEF Inv, Invites
  <2>5. \A k \in invites' : ActiveAdmin(k.network, k.issuer)
    BY <2>3, <2>4 DEF Inv, Invites
  <2>6. Invites'
    BY <1>1, <2>3, <2>5
       DEF Inv, Invites, BeginInvite, teamVars, ActiveAdmin, Active, Projection, IsOwner
  <2> QED BY <2>1, <2>2, <2>6 DEF Inv
<1>2. ASSUME NEW h \in held, NEW p \in People, NEW role \in Roles, IssueInvite(h, p, role)
      PROVE  Inv'
  <2>0. RequireAdminIn(h)
    BY <1>2 DEF IssueInvite
  <2>1. SignIns'
    BY <1>0, <1>2, SignInsStay DEF IssueInvite, teamVars, Done, ChallengesTyped
  <2>2. Team' /\ Responses' /\ Endpoints'
    BY <1>0, <1>2, TeamStays, ResponsesStay, EndpointsStay DEF IssueInvite, teamVars
  <2>3. \A k \in invites' : ActiveAdmin(k.network, k.issuer)
    BY <1>2, <2>0, CurrentAdmin DEF Inv, Invites, IssueInvite
  <2>4. \A k \in invites' : ActiveAdmin(k.network, k.issuer)'
    BY <1>2, <2>3 DEF IssueInvite, teamVars, ActiveAdmin, Active, Projection, IsOwner
  <2> DEFINE new == [network |-> h.network, person |-> p, role |-> role,
                     issuer |-> Person(h), begun |-> FALSE]
  <2>a. new \in [network : Networks, person : People, role : Roles,
                issuer : People, begun : BOOLEAN]
    BY <2>0, CurrentAdmin
  <2>5. invites' \subseteq [network : Networks, person : People, role : Roles,
                           issuer : People, begun : BOOLEAN]
    BY <1>2, <2>a DEF Inv, Invites, IssueInvite
  <2>6. Invites'
    BY <2>4, <2>5 DEF Invites
  <2> QED BY <2>1, <2>2, <2>6 DEF Inv
<1> QED BY <1>1, <1>2

\* Only active members take part in an action.
LEMMA ResponseKeeps ==
    ASSUME Inv,
           \/ \E n \in Networks : SettleResponse(n)
           \/ \E h \in held : ProposeResponse(h) \/ ApproveResponse(h)
    PROVE  Inv'
<1> USE DEF Done
<1>0. SignIns /\ ChallengesTyped /\ token \in 0..MaxSessions /\ Team /\ Invites /\ Endpoints
  BY DEF Inv, SignIns, ChallengesTyped
<1>1. UNCHANGED <<network, teamVars, signInVars, endpointVars>> /\ held' \subseteq held
  BY DEF SettleResponse, ProposeResponse, ApproveResponse
<1>2. SignIns'
  BY <1>0, <1>1, SignInsStay DEF signInVars, teamVars, ChallengesTyped
<1>3. Team' /\ Invites' /\ Endpoints'
  BY <1>0, <1>1, TeamStays, InvitesStay, EndpointsStay DEF signInVars
<1>4. ASSUME NEW n \in Networks, SettleResponse(n)
      PROVE  Responses'
  <2>1. response' \in [Networks -> SUBSET People]
    BY <1>4 DEF Inv, Responses, SettleResponse
  <2>2. \A m \in Networks : \A p \in response'[m] : Active(m, p)
    BY <1>4 DEF Inv, Responses, SettleResponse
  <2> QED BY <1>1, <2>1, <2>2 DEF Responses, Active, teamVars
<1>5. ASSUME NEW h \in held, ProposeResponse(h) \/ ApproveResponse(h)
      PROVE  Responses'
  <2>1. h.network \in Networks /\ Person(h) \in People
    BY DEF Inv, SignIns, Principal, Session, Person
  <2>2. Active(h.network, Person(h))
    BY <1>5 DEF ProposeResponse, ApproveResponse, CurrentCapability
  <2>3. CASE ProposeResponse(h)
    <3>1. response' \in [Networks -> SUBSET People]
      BY <2>1, <2>3 DEF Inv, Responses, ProposeResponse
    <3>2. \A m \in Networks : \A p \in response'[m] : Active(m, p)
      BY <2>1, <2>2, <2>3 DEF Inv, Responses, ProposeResponse
    <3> QED BY <1>1, <3>1, <3>2 DEF Responses, Active, teamVars
  <2>4. CASE ApproveResponse(h)
    <3>1. response' \in [Networks -> SUBSET People]
      BY <2>1, <2>4 DEF Inv, Responses, ApproveResponse
    <3>2. \A m \in Networks : \A p \in response'[m] : Active(m, p)
      BY <2>1, <2>2, <2>4 DEF Inv, Responses, ApproveResponse
    <3> QED BY <1>1, <3>1, <3>2 DEF Responses, Active, teamVars
  <2> QED BY <1>5, <2>3, <2>4
<1> QED BY <1>2, <1>3, <1>4, <1>5 DEF Inv

-----------------------------------------------------------------------------
(* Endpoint accounts and grants *)

\* Which sessions and grants of an account with this row would be fresh.
FreshRow(row, v) ==
    v # 0 => /\ v = row.version /\ row.status = "active"
             /\ row.network # "none" /\ network[row.network].status = "active"

\* A step of the endpoint side leaves everything else alone.
LEMMA EndpointStep ==
    ASSUME Inv, UNCHANGED <<network, teamVars, signInVars, response>>, held' \subseteq held,
           Endpoints'
    PROVE  Inv'
<1>1. SignIns /\ ChallengesTyped /\ token \in 0..MaxSessions
  BY DEF Inv, SignIns, ChallengesTyped
<1>2. SignIns'
  BY <1>1, SignInsStay DEF signInVars, teamVars, ChallengesTyped
<1>3. Team' /\ Invites' /\ Responses'
  BY TeamStays, InvitesStay, ResponsesStay DEF Inv, signInVars, teamVars
<1> QED BY <1>2, <1>3 DEF Inv

\* One account is written, with a row whose session and grant are fresh.
LEMMA AccountStep ==
    ASSUME Inv, NEW e \in Accounts, NEW row \in AccountRow, SetAccount(e, row),
           FreshRow(row, row.session), FreshRow(row, row.grant),
           UNCHANGED <<network, teamVars, signInVars, response, grants>>, held' \subseteq held,
           devices' \in [Networks -> {"none", "active", "revoked"}]
    PROVE  Inv'
<1>1. account' = [account EXCEPT ![e] = row] /\ account \in [Accounts -> AccountRow]
  BY DEF SetAccount, Inv, Endpoints
<1>2. account' \in [Accounts -> AccountRow]
  BY <1>1
<1>3. account'[e] = row /\ \A k \in Accounts \ {e} : account'[k] = account[k]
  BY <1>1
<1>4. FreshAccount(e, account[e].session)' /\ FreshAccount(e, account[e].grant)'
  BY <1>3 DEF FreshAccount, FreshRow, NetworkActive
<1>5. ASSUME NEW k \in Accounts \ {e}
      PROVE  FreshAccount(k, account[k].session)' /\ FreshAccount(k, account[k].grant)'
  BY <1>3 DEF Inv, Endpoints, FreshAccount, NetworkActive
<1>6. Endpoints'
  BY <1>2, <1>4, <1>5 DEF Inv, Endpoints
<1> QED BY <1>6, EndpointStep DEF Inv

\* The row of an account before the step.
LEMMA AccountBefore ==
    ASSUME Inv, NEW e \in Accounts
    PROVE  /\ account[e] \in AccountRow
           /\ FreshRow(account[e], account[e].session) /\ FreshRow(account[e], account[e].grant)
           /\ devices \in [Networks -> {"none", "active", "revoked"}]
  BY DEF Inv, Endpoints, FreshAccount, FreshRow, NetworkActive

\* What an endpoint user does, and what times out for him.
LEMMA EndpointKeeps ==
    ASSUME Inv, NEW e \in Accounts, Endpoint(e)
    PROVE  Inv'
<1> DEFINE old == account[e]
<1>0. /\ old \in AccountRow /\ FreshRow(old, old.session) /\ FreshRow(old, old.grant)
      /\ devices \in [Networks -> {"none", "active", "revoked"}]
  BY AccountBefore
<1>a. old.version \in Nat \ {0} /\ old.version + 1 \in Nat \ {0}
  BY <1>0 DEF AccountRow
<1>1. ASSUME NEW row \in AccountRow, SetAccount(e, row), UNCHANGED <<held, AccountUnchanged>>,
             FreshRow(row, row.session), FreshRow(row, row.grant)
      PROVE  Inv'
  BY <1>0, <1>1, AccountStep DEF AccountUnchanged
<1>2. CASE VerifyLogin(e)
  <2> DEFINE row == [old EXCEPT !.verified = old.version]
  <2>1. row \in AccountRow /\ FreshRow(row, row.session) /\ FreshRow(row, row.grant)
    BY <1>0 DEF AccountRow, FreshRow
  <2> QED BY <1>1, <1>2, <2>1 DEF VerifyLogin
<1>3. CASE CompleteLogin(e)
  <2> DEFINE row == [old EXCEPT !.verified = 0,
                                !.session = IF LoginStands(e) THEN old.version ELSE @]
  <2>1. row \in AccountRow /\ FreshRow(row, row.grant)
    BY <1>0 DEF AccountRow, FreshRow
  <2>2. FreshRow(row, row.session)
    BY <1>0 DEF AccountRow, FreshRow, LoginStands, NetworkActive
  <2> QED BY <1>1, <1>3, <2>1, <2>2 DEF CompleteLogin
<1>4. CASE Logout(e) \/ ExpireEndpointSession(e)
  <2> DEFINE row == [old EXCEPT !.session = 0]
  <2>1. row \in AccountRow /\ FreshRow(row, row.session) /\ FreshRow(row, row.grant)
    BY <1>0 DEF AccountRow, FreshRow
  <2> QED BY <1>1, <1>4, <2>1 DEF Logout, ExpireEndpointSession
<1>5. CASE ChangePassword(e)
  <2> DEFINE row == [ReplacePassword(old, TRUE) EXCEPT !.session = old.version + 1]
  <2>1. row \in AccountRow
    BY <1>0, <1>a DEF AccountRow, ReplacePassword
  <2>2. FreshRow(row, row.session) /\ FreshRow(row, row.grant)
    BY <1>0, <1>a, <1>5
       DEF AccountRow, FreshRow, ReplacePassword, ChangePassword, LiveSession, NetworkActive
  <2> QED BY <1>1, <1>5, <2>1, <2>2 DEF ChangePassword
<1>6. CASE RequestReset(e)
  <2> DEFINE row == [old EXCEPT !.reset = TRUE]
  <2>1. row \in AccountRow /\ FreshRow(row, row.session) /\ FreshRow(row, row.grant)
    BY <1>0 DEF AccountRow, FreshRow
  <2> QED BY <1>1, <1>6, <2>1 DEF RequestReset
<1>7. CASE RequestEnrollmentGrant(e)
  <2> DEFINE row == [old EXCEPT !.grant = old.version]
  <2>1. row \in AccountRow /\ FreshRow(row, row.session)
    BY <1>0 DEF AccountRow, FreshRow
  <2>2. FreshRow(row, row.grant)
    BY <1>0, <1>7 DEF AccountRow, FreshRow, RequestEnrollmentGrant, LiveSession, NetworkActive
  <2> QED BY <1>1, <1>7, <2>1, <2>2 DEF RequestEnrollmentGrant
<1>8. CASE ClaimAccountGrant(e)
  <2> DEFINE row == [old EXCEPT !.grant = 0]
  <2>1. row \in AccountRow /\ FreshRow(row, row.session) /\ FreshRow(row, row.grant)
    BY <1>0 DEF AccountRow, FreshRow
  <2>2. devices' \in [Networks -> {"none", "active", "revoked"}]
    BY <1>0, <1>8 DEF ClaimAccountGrant
  <2> QED BY <1>8, <2>1, <2>2, AccountStep DEF ClaimAccountGrant
<1>9. CASE ExpireInitialPassword(e)
  <2> DEFINE row == [old EXCEPT !.initial = FALSE]
  <2>1. row \in AccountRow /\ FreshRow(row, row.session) /\ FreshRow(row, row.grant)
    BY <1>0 DEF AccountRow, FreshRow
  <2> QED BY <1>1, <1>9, <2>1 DEF ExpireInitialPassword
<1> QED BY <1>2, <1>3, <1>4, <1>5, <1>6, <1>7, <1>8, <1>9 DEF Endpoint

\* What an administrator does to an account: its sessions and grants go.
LEMMA AdministerKeeps ==
    ASSUME Inv, NEW h \in held, NEW e \in Accounts,
           \/ CreateAccount(h, e) \/ ResetPassword(h, e)
           \/ \E status \in {"active", "disabled"} : UpdateAccount(h, e, status)
    PROVE  Inv'
<1> USE DEF Done
<1> DEFINE old == account[e]
<1>0. old \in AccountRow /\ devices \in [Networks -> {"none", "active", "revoked"}]
  BY AccountBefore
<1>1. old.version \in Nat \ {0} /\ old.version + 1 \in Nat \ {0}
  BY <1>0 DEF AccountRow
<1>2. ASSUME NEW row \in AccountRow, SetAccount(e, row), UNCHANGED AccountUnchanged,
             held' = held \ {h}, row.session = 0, row.grant = 0
      PROVE  Inv'
  BY <1>0, <1>2, AccountStep DEF AccountUnchanged, FreshRow
<1>3. h.network \in Networks
  BY DEF Inv, SignIns, Principal
<1>4. CASE CreateAccount(h, e)
  <2> DEFINE row == [NoAccount EXCEPT !.network = h.network, !.status = "active",
                                      !.initial = TRUE]
  <2>1. NoAccount \in AccountRow
    BY DEF AccountRow, NoAccount
  <2>2. NoAccount.session = 0 /\ NoAccount.grant = 0
    BY DEF NoAccount
  <2>3. row \in AccountRow /\ row.session = 0 /\ row.grant = 0
    BY <1>3, <2>1, <2>2 DEF AccountRow
  <2> QED BY <1>2, <1>4, <2>3 DEF CreateAccount
<1>5. CASE ResetPassword(h, e)
  <2> DEFINE row == [ReplacePassword(old, FALSE) EXCEPT !.reset = FALSE]
  <2>1. row \in AccountRow /\ row.session = 0 /\ row.grant = 0
    BY <1>0, <1>1 DEF AccountRow, ReplacePassword
  <2> QED BY <1>2, <1>5, <2>1 DEF ResetPassword
<1>6. ASSUME NEW status \in {"active", "disabled"}, UpdateAccount(h, e, status)
      PROVE  Inv'
  <2> DEFINE row == [old EXCEPT !.status = status, !.version = @ + 1,
                         !.session = 0, !.grant = 0, !.reset = @ /\ status = "active"]
  <2>1. row \in AccountRow /\ row.session = 0 /\ row.grant = 0
    BY <1>0, <1>1 DEF AccountRow
  <2> QED BY <1>2, <1>6, <2>1 DEF UpdateAccount
<1> QED BY <1>4, <1>5, <1>6

\* Grants of administrators and the device.
LEMMA GrantKeeps ==
    ASSUME Inv,
           \/ \E h \in held : CheckGrant(h) \/ InsertGrant(h) \/ RevokeDevice(h)
           \/ \E g \in grants : ClaimGrant(g)
    PROVE  Inv'
<1> USE DEF Done
<1>1. ASSUME NEW h \in held, CheckGrant(h)
      PROVE  Inv'
  <2>1. [h EXCEPT !.granting = TRUE] \in Principal
    BY DEF Inv, SignIns, Principal
  <2>2. SignIns'
    BY <1>1, <2>1 DEF Inv, SignIns, CheckGrant, signInVars, teamVars, Active
  <2> QED BY <1>1, <2>2, QuietStep DEF CheckGrant, signInVars
<1>2. ASSUME NEW h \in held, InsertGrant(h)
      PROVE  Inv'
  <2>1. h.network \in Networks /\ Person(h) \in People
    BY DEF Inv, SignIns, Principal, Session, Person
  <2>2. Endpoints'
    BY <1>2, <2>1 DEF Inv, Endpoints, InsertGrant, FreshAccount, NetworkActive
  <2> QED BY <1>2, <2>2, EndpointStep DEF InsertGrant
<1>3. ASSUME NEW h \in held, RevokeDevice(h)
      PROVE  Inv'
  <2>1. devices' \in [Networks -> {"none", "active", "revoked"}]
    BY <1>3 DEF Inv, Endpoints, RevokeDevice
  <2>2. ASSUME NEW e \in Accounts
        PROVE  /\ account'[e] \in AccountRow
               /\ FreshAccount(e, account[e].session)' /\ FreshAccount(e, account[e].grant)'
    <3>1. account[e] \in AccountRow /\ FreshAccount(e, account[e].session)
                                    /\ FreshAccount(e, account[e].grant)
      BY DEF Inv, Endpoints
    <3>2. account'[e] = account[e] \/ account'[e] = [account[e] EXCEPT !.grant = 0]
      BY <1>3 DEF RevokeDevice
    <3>3. network' = network
      BY <1>3 DEF RevokeDevice
    <3> QED BY <3>1, <3>2, <3>3 DEF AccountRow, FreshAccount, NetworkActive
  <2>3. account' \in [Accounts -> AccountRow]
    BY <1>3, <2>2 DEF RevokeDevice
  <2>4. Endpoints'
    BY <1>3, <2>1, <2>2, <2>3 DEF Inv, Endpoints, RevokeDevice
  <2> QED BY <1>3, <2>4, EndpointStep DEF RevokeDevice
<1>4. ASSUME NEW g \in grants, ClaimGrant(g)
      PROVE  Inv'
  <2>1. Endpoints'
    BY <1>4 DEF Inv, Endpoints, ClaimGrant, FreshAccount, NetworkActive
  <2> QED BY <1>4, <2>1, EndpointStep DEF ClaimGrant
<1> QED BY <1>1, <1>2, <1>3, <1>4

-----------------------------------------------------------------------------
(* Changes of the teams, the networks and the owner *)

\* complete_bootstrap finds an empty appliance.
LEMMA CompleteBootstrapKeeps ==
    ASSUME Inv, NEW c \in challenges, CompleteBootstrap(c)
    PROVE  Inv'
<1> DEFINE p == c.person
<1>0. Home \in Networks /\ p \in People
  BY AuthorityAssumption DEF Inv, SignIns
<1>1. /\ owner = NoOwner
      /\ \A n \in Networks : network[n].status = "none"
      /\ \A n \in Networks, q \in People : users[n][q] = "none"
      /\ projections = {} /\ codes = {} /\ sessions = {} /\ invites = {}
      /\ \A n \in Networks : response[n] = {}
      /\ \A e \in Accounts : account[e].session = 0 /\ account[e].grant = 0
  BY Unconfigured DEF CompleteBootstrap
<1>2. network' = [network EXCEPT ![Home] = [Configured EXCEPT !.domain = FALSE]]
      /\ users' = [users EXCEPT ![Home][p] = "admin"]
      /\ owner' = [home |-> Home, person |-> p]
      /\ codes' = codes \cup {<<Home, p>>}
      /\ UNCHANGED <<projections, invites, held, response, endpointVars>>
  BY DEF CompleteBootstrap
<1>3. [Configured EXCEPT !.domain = FALSE] \in NetworkRow
      /\ [Configured EXCEPT !.domain = FALSE].status = "active"
  BY DEF Configured, NetworkRow
<1>4. network' \in [Networks -> NetworkRow] /\ network'[Home].status = "active"
      /\ \A n \in Networks \ {Home} : network'[n].status = "none"
  BY <1>0, <1>1, <1>2, <1>3 DEF Inv, Team, TeamTyped
<1>5. users' \in [Networks -> [People -> States]] /\ users'[Home][p] = "admin"
      /\ \A n \in Networks \ {Home}, q \in People : users'[n][q] = "none"
  BY <1>0, <1>1, <1>2 DEF Inv, Team, TeamTyped, States, Roles
<1>6. owner' # NoOwner /\ owner'.home = Home /\ owner'.person = p
  BY <1>0, <1>2, AuthorityAssumption DEF NoOwner
<1>7. TeamTyped'
  BY <1>0, <1>1, <1>2, <1>4, <1>5, <1>6 DEF TeamTyped
<1>8. Standing'
  BY <1>1, <1>2, <1>4, <1>5, <1>6 DEF Standing, Projection
<1>9. IsOwner(Home, p)' /\ ActiveAdmin(Home, p)'
  BY <1>1, <1>2, <1>4, <1>5 DEF IsOwner, ActiveAdmin, Active, Roles, Projection
<1>10. LockoutFree'
  BY <1>0, <1>4, <1>6, <1>9 DEF LockoutFree
<1>11. "admin" \in Roles /\ IssueSession(NewSession(Home, p, "admin"))
  BY DEF Roles, CompleteBootstrap
<1>12. SignIns'
  <2>1. \A s \in sessions' : Active(s.network, s.person)' /\ users'[s.network][s.person] = s.role
    BY <1>0, <1>1, <1>4, <1>5, <1>11, SessionIssued DEF Active
  <2>2. token' \in 0..MaxSessions
    BY AuthorityAssumption DEF CompleteBootstrap
  <2>3. ChallengesTyped' /\ held' \subseteq Principal
    BY <1>2 DEF Inv, SignIns, ChallengesTyped, CompleteBootstrap, ConsumeChallenge
  <2> QED BY <1>0, <1>11, <2>1, <2>2, <2>3, SessionIssued DEF SignIns, ChallengesTyped
<1>13. Invites' /\ Responses'
  BY <1>1, <1>2 DEF Inv, Invites, Responses
<1>14. Endpoints'
  BY <1>1, <1>2 DEF Inv, Endpoints, endpointVars, FreshAccount
<1> QED BY <1>7, <1>8, <1>10, <1>12, <1>13, <1>14 DEF Inv, Team

\* complete_human_invite gives a user to a person who has none.
LEMMA CompleteInviteKeeps ==
    ASSUME Inv, NEW i \in invites, CompleteInvite(i)
    PROVE  Inv'
<1> DEFINE n == i.network
           p == i.person
<1>0. n \in Networks /\ p \in People /\ i.role \in Roles /\ i.issuer \in People
  BY DEF Inv, Invites
<1>1. network[n].status = "active" /\ users[n][p] = "none"
  BY DEF CompleteInvite, ActiveAdmin, Active
<1>2. /\ users' = [users EXCEPT ![n][p] = i.role]
      /\ codes' = codes \cup {<<n, p>>} /\ invites' = invites \ {i}
      /\ UNCHANGED <<network, owner, projections, token, challenges, held, response,
                     endpointVars>>
  BY DEF CompleteInvite
<1>3. users' \in [Networks -> [People -> States]] /\ users'[n][p] = i.role
      /\ \A m \in Networks, q \in People : <<m, q>> # <<n, p>> => users'[m][q] = users[m][q]
  BY <1>0, <1>2 DEF Inv, Team, TeamTyped, States
<1>4. ~Projection(n, p)
  BY <1>0, <1>1 DEF Inv, Team, Standing
<1>5. TeamTyped'
  BY <1>0, <1>2, <1>3, <1>4 DEF Inv, Team, TeamTyped, Projection
<1>6. Standing'
  <2>1. i.role # "none"
    BY <1>0 DEF Roles
  <2> QED BY <1>0, <1>1, <1>2, <1>3, <1>4, <2>1 DEF Inv, Team, Standing, Projection
<1>7. \A m \in Networks, q \in People : users[m][q] = "admin" => users'[m][q] = "admin"
  BY <1>1, <1>3
<1>8. ASSUME NEW m \in Networks, NEW q \in People, IsOwner(m, q)
      PROVE  IsOwner(m, q)'
  BY <1>2, <1>7, <1>8 DEF IsOwner
<1>9. ASSUME NEW m \in Networks, NEW q \in People, ActiveAdmin(m, q)
      PROVE  ActiveAdmin(m, q)'
  <2>1. Projection(m, q)' => IsOwner(owner.home, q)
    BY <1>2, <1>9 DEF ActiveAdmin, Projection
  <2>2. Projection(m, q)' => owner.home \in Networks
    BY <1>2, AuthorityAssumption DEF Inv, Team, TeamTyped, Standing, Projection
  <2>3. Projection(m, q)' => IsOwner(owner.home, q)'
    BY <1>2, <1>8, <2>1, <2>2
  <2> QED BY <1>2, <1>7, <1>9, <2>3 DEF ActiveAdmin, Active, Roles
<1>10. LockoutFree'
  <2>1. \A m \in Networks : network'[m].status = "active" => \E q \in People : ActiveAdmin(m, q)'
    BY <1>2, <1>9 DEF Inv, Team, LockoutFree
  <2>2. ASSUME owner # NoOwner
        PROVE  /\ IsOwner(owner.home, owner.person)'
               /\ \A m \in Networks \ {owner.home} : network[m].status # "none" =>
                     Projection(m, owner.person) /\ users'[m][owner.person] = "admin"
    <3>1. owner.home \in Networks /\ owner.person \in People
      BY <2>2 DEF Inv, Team, TeamTyped
    <3> QED BY <1>2, <1>7, <1>8, <2>2, <3>1 DEF Inv, Team, LockoutFree
  <2> QED BY <1>2, <2>1, <2>2 DEF LockoutFree, Projection
<1>11. SignIns'
  <2>0. IssueSession(NewSession(n, p, i.role))
    BY DEF CompleteInvite
  <2>1. \A s \in sessions : s.network \in Networks /\ s.person \in People
          /\ network[s.network].status = "active" /\ users[s.network][s.person] = s.role
          /\ s.role \in Roles
    BY DEF Inv, SignIns, Active
  <2>2. \A s \in sessions' : s.network \in Networks /\ s.person \in People
          /\ network[s.network].status = "active" /\ users'[s.network][s.person] = s.role
          /\ s.role \in Roles
    BY <1>0, <1>1, <1>3, <2>0, <2>1, SessionIssued DEF Roles
  <2>3. \A s \in sessions' : Active(s.network, s.person)' /\ users'[s.network][s.person] = s.role
    BY <1>2, <2>2 DEF Active
  <2> QED BY <1>0, <1>2, <2>0, <2>3, SessionIssued DEF Inv, SignIns
<1>12. Invites'
  BY <1>2, <1>9 DEF Inv, Invites
<1>13. Responses'
  <2>1. \A m \in Networks, q \in People : Active(m, q) => Active(m, q)'
    BY <1>0, <1>1, <1>2, <1>3 DEF Active, Roles
  <2> QED BY <1>2, <2>1 DEF Inv, Responses
<1>14. Endpoints'
  BY <1>2, EndpointsStay DEF Inv
<1> QED BY <1>5, <1>6, <1>10, <1>11, <1>12, <1>13, <1>14 DEF Inv, Team

\* create_network starts from a network of which there is no row.
LEMMA CreateNetworkKeeps ==
    ASSUME Inv, NEW h \in held, NEW n \in Networks, CreateNetwork(h, n)
    PROVE  Inv'
<1> DEFINE p == Person(h)
<1>0. /\ h.network \in Networks /\ p \in People /\ owner # NoOwner
      /\ owner.home = h.network /\ owner.person = p
      /\ network[h.network].status = "active" /\ users[h.network][p] = "admin"
  BY CurrentOwner DEF CreateNetwork
<1>1. network[n].status = "none" /\ (\A q \in People : users[n][q] = "none") /\ n # owner.home
  BY <1>0 DEF CreateNetwork, Inv, Team, Standing
<1>2. /\ network' = [network EXCEPT ![n] = Configured]
      /\ users' = [users EXCEPT ![n][p] = "admin"]
      /\ projections' = projections \cup {<<n, p>>}
      /\ held' = held \ {h}
      /\ UNCHANGED <<owner, codes, signInVars, response, endpointVars>>
  BY DEF CreateNetwork, Done
<1>3. Configured \in NetworkRow /\ Configured.status = "active"
  BY DEF Configured, NetworkRow
<1>4. network' \in [Networks -> NetworkRow] /\ network'[n].status = "active"
      /\ \A m \in Networks \ {n} : network'[m] = network[m]
  BY <1>2, <1>3 DEF Inv, Team, TeamTyped
<1>5. users' \in [Networks -> [People -> States]] /\ users'[n][p] = "admin"
      /\ (\A m \in Networks \ {n}, q \in People : users'[m][q] = users[m][q])
      /\ (\A q \in People \ {p} : users'[n][q] = "none")
  BY <1>0, <1>1, <1>2 DEF Inv, Team, TeamTyped, States, Roles
<1>6. <<n, p>> \notin codes
  BY <1>0, <1>1 DEF Inv, Team, Standing
<1>7. TeamTyped'
  <2>1. projections' \subseteq (Networks \ {owner'.home}) \X People
    BY <1>0, <1>1, <1>2 DEF Inv, Team, TeamTyped
  <2>2. codes' \subseteq (Networks \X People) \ projections'
    BY <1>2, <1>6 DEF Inv, Team, TeamTyped
  <2> QED BY <1>2, <1>4, <1>5, <2>1, <2>2 DEF Inv, Team, TeamTyped
<1>8. Standing'
  <2>1. \A m \in Networks : network'[m].status = "suspended" => owner' # NoOwner
    BY <1>0, <1>2
  <2>2. ASSUME NEW m \in Networks, NEW q \in People, Projection(m, q)'
        PROVE  /\ owner' # NoOwner /\ q = owner'.person
               /\ users'[m][q] = "admin" /\ network'[m].status # "none"
    <3>1. CASE Projection(m, q)
      <4>1. m # n
        BY <1>1, <3>1 DEF Inv, Team, Standing
      <4> QED BY <1>2, <1>4, <1>5, <3>1, <4>1 DEF Inv, Team, Standing
    <3>2. CASE <<m, q>> = <<n, p>>
      BY <1>0, <1>2, <1>4, <1>5, <3>2
    <3> QED BY <1>2, <2>2, <3>1, <3>2 DEF Projection
  <2>3. \A m \in Networks : network'[m].status = "none" => \A q \in People : users'[m][q] = "none"
    BY <1>4, <1>5 DEF Inv, Team, Standing
  <2>4. \A m \in Networks, q \in People : <<m, q>> \in codes' => users'[m][q] # "none"
    BY <1>1, <1>2, <1>5 DEF Inv, Team, Standing
  <2> QED BY <2>1, <2>2, <2>3, <2>4 DEF Standing
<1>9. IsOwner(owner.home, p)'
  BY <1>0, <1>1, <1>2, <1>4, <1>5 DEF IsOwner, Inv, Team, TeamTyped
<1>10. \A m \in Networks, q \in People : Projection(m, q)' => q = p
  BY <1>0, <1>2, <1>8 DEF Standing
<1>11. ASSUME NEW m \in Networks, NEW q \in People
       PROVE  ActiveAdmin(m, q)' <=> network'[m].status = "active" /\ users'[m][q] = "admin"
  BY <1>2, <1>9, <1>10 DEF ActiveAdmin, Active, Roles
<1>12. LockoutFree'
  <2>1. ASSUME NEW m \in Networks, network'[m].status = "active"
        PROVE  \E q \in People : ActiveAdmin(m, q)'
    <3>1. CASE m = n
      BY <1>0, <1>4, <1>5, <1>11, <3>1
    <3>2. CASE m # n
      <4>1. PICK q \in People : ActiveAdmin(m, q)
        BY <1>4, <2>1, <3>2 DEF Inv, Team, LockoutFree
      <4> QED BY <1>5, <1>11, <2>1, <3>2, <4>1 DEF ActiveAdmin
    <3> QED BY <3>1, <3>2
  <2>2. ASSUME NEW m \in Networks \ {owner.home}, network'[m].status # "none"
        PROVE  Projection(m, owner.person)' /\ users'[m][owner.person] = "admin"
    <3>1. CASE m = n
      BY <1>0, <1>2, <1>5, <3>1 DEF Projection
    <3>2. CASE m # n
      BY <1>0, <1>2, <1>4, <1>5, <2>2, <3>2 DEF Inv, Team, LockoutFree, Projection
    <3> QED BY <3>1, <3>2
  <2> QED BY <1>0, <1>2, <1>9, <2>1, <2>2 DEF LockoutFree, Projection
<1>13. \A m \in Networks, q \in People : Active(m, q) =>
          m # n /\ Active(m, q)' /\ users'[m][q] = users[m][q]
  BY <1>1, <1>4, <1>5 DEF Active
<1>14. SignIns'
  <2>1. \A s \in sessions : s.network \in Networks /\ s.person \in People
          /\ Active(s.network, s.person) /\ users[s.network][s.person] = s.role
    BY DEF Inv, SignIns
  <2> QED BY <1>2, <1>13, <2>1 DEF Inv, SignIns, signInVars
<1>15. Invites'
  <2>1. \A i \in invites : i.network \in Networks /\ i.issuer \in People
          /\ Active(i.network, i.issuer) /\ users[i.network][i.issuer] = "admin"
    BY DEF Inv, Invites, ActiveAdmin
  <2>2. \A i \in invites : ActiveAdmin(i.network, i.issuer)'
    BY <1>11, <1>13, <2>1 DEF Active
  <2> QED BY <1>2, <2>2 DEF Inv, Invites, signInVars
<1>16. Responses'
  BY <1>2, <1>13 DEF Inv, Responses
<1>17. Endpoints'
  <2>1. ASSUME NEW e \in Accounts, NetworkActive(e)
        PROVE  NetworkActive(e)'
    BY <1>1, <1>2, <1>4, <2>1 DEF Inv, Endpoints, AccountRow, NetworkActive, endpointVars
  <2>2. ASSUME NEW e \in Accounts
        PROVE  FreshAccount(e, account[e].session)' /\ FreshAccount(e, account[e].grant)'
    BY <1>2, <2>1 DEF Inv, Endpoints, FreshAccount, endpointVars
  <2> QED BY <1>2, <2>2 DEF Inv, Endpoints, endpointVars
<1> QED BY <1>7, <1>8, <1>12, <1>14, <1>15, <1>16, <1>17 DEF Inv, Team

\* The namespace and the route of a network are read by no one's authority.
LEMMA SameStatus ==
    ASSUME Inv, network' \in [Networks -> NetworkRow],
           \A n \in Networks : network'[n].status = network[n].status,
           UNCHANGED <<teamVars, signInVars, response, endpointVars>>, held' \subseteq held
    PROVE  Inv'
<1>1. \A n \in Networks, p \in People :
         /\ Active(n, p)' <=> Active(n, p)
         /\ IsOwner(n, p)' <=> IsOwner(n, p)
         /\ Projection(n, p)' <=> Projection(n, p)
  BY DEF Active, IsOwner, Projection, teamVars
<1>2. \A n \in Networks, p \in People : ActiveAdmin(n, p) => ActiveAdmin(n, p)'
  <2>1. \A n \in Networks, p \in People : Projection(n, p) => owner.home \in Networks
    BY DEF Inv, Team, TeamTyped, Standing
  <2> QED BY <1>1, <2>1 DEF ActiveAdmin, teamVars
<1>3. TeamTyped' /\ Standing'
  BY DEF Inv, Team, TeamTyped, Standing, Projection, teamVars
<1>4. LockoutFree'
  <2>1. \A m \in Networks : network'[m].status = "active" => \E q \in People : ActiveAdmin(m, q)'
    BY <1>2 DEF Inv, Team, LockoutFree
  <2>2. owner # NoOwner => owner.home \in Networks /\ owner.person \in People
    BY DEF Inv, Team, TeamTyped
  <2> QED BY <1>1, <2>1, <2>2 DEF Inv, Team, LockoutFree, teamVars
<1>5. SignIns'
  <2>1. \A s \in sessions : s.network \in Networks /\ s.person \in People
    BY DEF Inv, SignIns
  <2> QED BY <1>1, <2>1 DEF Inv, SignIns, signInVars, teamVars
<1>6. Invites'
  <2>1. \A i \in invites : i.network \in Networks /\ i.issuer \in People
    BY DEF Inv, Invites
  <2> QED BY <1>2, <2>1 DEF Inv, Invites, signInVars
<1>7. Responses'
  BY <1>1 DEF Inv, Responses
<1>8. Endpoints'
  <2>1. ASSUME NEW e \in Accounts, NetworkActive(e)
        PROVE  NetworkActive(e)'
    BY <2>1 DEF Inv, Endpoints, AccountRow, NetworkActive, endpointVars
  <2>2. ASSUME NEW e \in Accounts
        PROVE  FreshAccount(e, account[e].session)' /\ FreshAccount(e, account[e].grant)'
    BY <2>1 DEF Inv, Endpoints, FreshAccount, endpointVars
  <2> QED BY <2>2 DEF Inv, Endpoints, endpointVars
<1> QED BY <1>3, <1>4, <1>5, <1>6, <1>7, <1>8 DEF Inv, Team

\* The name and the route of a network.
LEMMA ConfigureKeeps ==
    ASSUME Inv, NEW h \in held, NEW n \in Networks,
           AdoptNamespace(h, n) \/ \E enabled \in BOOLEAN : ConfigureRoute(h, n, enabled)
    PROVE  Inv'
<1> USE DEF Done
<1>1. network \in [Networks -> NetworkRow]
  BY DEF Inv, Team, TeamTyped
<1>2. CASE AdoptNamespace(h, n)
  <2>1. network' \in [Networks -> NetworkRow]
        /\ \A m \in Networks : network'[m].status = network[m].status
    BY <1>1, <1>2 DEF AdoptNamespace, NetworkRow
  <2> QED BY <1>2, <2>1, SameStatus DEF AdoptNamespace
<1>3. ASSUME NEW enabled \in BOOLEAN, ConfigureRoute(h, n, enabled)
      PROVE  Inv'
  <2>1. network' \in [Networks -> NetworkRow]
        /\ \A m \in Networks : network'[m].status = network[m].status
    BY <1>1, <1>3 DEF ConfigureRoute, NetworkRow
  <2> QED BY <1>3, <2>1, SameStatus DEF ConfigureRoute
<1> QED BY <1>2, <1>3

\* update_network: the owner's own network is never paused, and nothing that
\* was issued in a network outlives its pause.
LEMMA PauseKeeps ==
    ASSUME Inv, NEW h \in held, NEW n \in Networks, UpdateNetwork(h, n, "suspended")
    PROVE  Inv'
<1>0. /\ owner # NoOwner /\ n # owner.home
      /\ network[n].status # "none"
      /\ network' = [network EXCEPT ![n].status = "suspended"]
      /\ RevokeNetwork(n) /\ held' = held \ {h}
      /\ UNCHANGED <<teamVars, token, issued, devices>>
  BY CurrentOwner DEF UpdateNetwork, Done
<1>1. /\ network' \in [Networks -> NetworkRow] /\ network'[n].status = "suspended"
      /\ \A m \in Networks \ {n} : network'[m] = network[m]
  BY <1>0 DEF Inv, Team, TeamTyped, NetworkRow
<1>2. /\ sessions' = {s \in sessions : s.network # n}
      /\ challenges' \subseteq challenges
      /\ invites' = {i \in invites : i.network # n}
      /\ grants' \subseteq grants
      /\ account' = [e \in Accounts |-> IF account[e].network # n THEN account[e]
                        ELSE [account[e] EXCEPT !.session = 0, !.grant = 0]]
      /\ response' = ExpireUndeliveredActions(n, People)
  BY <1>0 DEF RevokeNetwork
<1>3. owner.home \in Networks /\ owner.person \in People /\ IsOwner(owner.home, owner.person)
  BY <1>0 DEF Inv, Team, TeamTyped, LockoutFree
<1>4. IsOwner(owner.home, owner.person)'
  BY <1>0, <1>1, <1>3 DEF IsOwner, teamVars
<1>5. TeamTyped'
  BY <1>0, <1>1 DEF Inv, Team, TeamTyped, teamVars
<1>6. Standing'
  BY <1>0, <1>1 DEF Inv, Team, Standing, Projection, teamVars
<1>7. ASSUME NEW m \in Networks \ {n}, NEW q \in People, ActiveAdmin(m, q)
      PROVE  ActiveAdmin(m, q)'
  <2>1. Projection(m, q)' => q = owner.person
    BY <1>0, <1>6 DEF Standing, teamVars
  <2> QED BY <1>0, <1>1, <1>4, <1>7, <2>1 DEF ActiveAdmin, Active, teamVars
<1>8. LockoutFree'
  <2>1. \A m \in Networks : network'[m].status = "active" => \E q \in People : ActiveAdmin(m, q)'
    BY <1>1, <1>7 DEF Inv, Team, LockoutFree
  <2>2. \A m \in Networks \ {owner.home} : network'[m].status # "none" =>
           Projection(m, owner.person) /\ users[m][owner.person] = "admin"
    BY <1>0, <1>1 DEF Inv, Team, LockoutFree
  <2> QED BY <1>0, <1>4, <2>1, <2>2 DEF LockoutFree, Projection, teamVars
<1>9. SignIns'
  BY <1>0, <1>1, <1>2 DEF Inv, SignIns, Active, teamVars
<1>10. Invites'
  <2>1. \A i \in invites' : i \in invites /\ i.network \in Networks \ {n} /\ i.issuer \in People
    BY <1>2 DEF Inv, Invites
  <2>2. \A i \in invites' : ActiveAdmin(i.network, i.issuer)'
    BY <1>7, <2>1 DEF Inv, Invites
  <2> QED BY <2>1, <2>2 DEF Inv, Invites
<1>11. Responses'
  <2>1. response[n] \subseteq People /\ response \in [Networks -> SUBSET People]
    BY DEF Inv, Responses
  <2>2. response' = [response EXCEPT ![n] = {}]
    <3>1. (IF response[n] \cap People # {} THEN {} ELSE response[n]) = {}
      BY <2>1
    <3> QED BY <1>2, <3>1 DEF ExpireUndeliveredActions
  <2>3. response' \in [Networks -> SUBSET People]
    BY <2>1, <2>2
  <2>4. \A m \in Networks : \A p \in response'[m] : m # n /\ p \in response[m]
    BY <2>1, <2>2
  <2>5. \A m \in Networks : \A p \in response'[m] : Active(m, p)'
    BY <1>0, <1>1, <2>4 DEF Inv, Responses, Active, teamVars
  <2> QED BY <2>3, <2>5 DEF Responses
<1>12. Endpoints'
  <2>1. ASSUME NEW e \in Accounts
        PROVE  /\ account'[e] \in AccountRow
               /\ FreshAccount(e, account[e].session)' /\ FreshAccount(e, account[e].grant)'
    <3>1. account[e] \in AccountRow /\ FreshAccount(e, account[e].session)
                                    /\ FreshAccount(e, account[e].grant)
      BY DEF Inv, Endpoints
    <3>2. CASE account[e].network # n
      <4>1. account'[e] = account[e]
        BY <1>2, <3>2
      <4>2. NetworkActive(e) => NetworkActive(e)'
        BY <1>1, <3>1, <3>2, <4>1 DEF NetworkActive, AccountRow
      <4> QED BY <3>1, <4>1, <4>2 DEF FreshAccount
    <3>3. CASE account[e].network = n
      <4> DEFINE row == [account[e] EXCEPT !.session = 0, !.grant = 0]
      <4>1. account'[e] = row
        BY <1>2, <3>3
      <4>2. row \in AccountRow /\ row.session = 0 /\ row.grant = 0
        BY <3>1 DEF AccountRow
      <4> QED BY <4>1, <4>2 DEF FreshAccount
    <3> QED BY <3>2, <3>3
  <2>2. account' \in [Accounts -> AccountRow]
    BY <1>2, <2>1
  <2> QED BY <1>0, <1>2, <2>1, <2>2 DEF Inv, Endpoints
<1> QED BY <1>5, <1>6, <1>8, <1>9, <1>10, <1>11, <1>12 DEF Inv, Team

\* A paused network has the owner's user, who can sign in when it is resumed.
LEMMA ResumeKeeps ==
    ASSUME Inv, NEW h \in held, NEW n \in Networks, UpdateNetwork(h, n, "active")
    PROVE  Inv'
<1>0. /\ owner # NoOwner
      /\ network[n].status # "none" /\ network[n].status # "active"
      /\ network' = [network EXCEPT ![n].status = "active"]
      /\ held' = held \ {h}
      /\ UNCHANGED <<sessions, challenges, invites, account, grants, response>>
      /\ UNCHANGED <<teamVars, token, issued, devices>>
  BY CurrentOwner DEF UpdateNetwork, Done, RevokeNothing
<1>1. /\ network' \in [Networks -> NetworkRow] /\ network'[n].status = "active"
      /\ \A m \in Networks \ {n} : network'[m] = network[m]
  BY <1>0 DEF Inv, Team, TeamTyped, NetworkRow
<1>2. owner.home \in Networks /\ owner.person \in People /\ IsOwner(owner.home, owner.person)
  BY <1>0 DEF Inv, Team, TeamTyped, LockoutFree
<1>3. n # owner.home
  BY <1>0, <1>2 DEF IsOwner
<1>4. IsOwner(owner.home, owner.person)'
  BY <1>0, <1>1, <1>2, <1>3 DEF IsOwner, teamVars
<1>5. Projection(n, owner.person) /\ users[n][owner.person] = "admin"
  BY <1>0, <1>3 DEF Inv, Team, LockoutFree
<1>6. TeamTyped'
  BY <1>0, <1>1 DEF Inv, Team, TeamTyped, teamVars
<1>7. Standing'
  BY <1>0, <1>1 DEF Inv, Team, Standing, Projection, teamVars
<1>8. \A m \in Networks, q \in People : Active(m, q) => Active(m, q)'
  BY <1>0, <1>1 DEF Active, teamVars
<1>9. ASSUME NEW m \in Networks, NEW q \in People
      PROVE  ActiveAdmin(m, q)' <=> network'[m].status = "active" /\ users[m][q] = "admin"
  <2>1. Projection(m, q)' => q = owner.person
    BY <1>0, <1>7 DEF Standing, teamVars
  <2> QED BY <1>0, <1>4, <2>1 DEF ActiveAdmin, Active, Roles, teamVars
<1>10. LockoutFree'
  <2>1. ASSUME NEW m \in Networks, network'[m].status = "active"
        PROVE  \E q \in People : ActiveAdmin(m, q)'
    <3>1. CASE m = n
      BY <1>1, <1>2, <1>5, <1>9, <3>1
    <3>2. CASE m # n
      BY <1>1, <1>9, <2>1, <3>2 DEF Inv, Team, LockoutFree, ActiveAdmin
    <3> QED BY <3>1, <3>2
  <2>2. \A m \in Networks \ {owner.home} : network'[m].status # "none" =>
           Projection(m, owner.person) /\ users[m][owner.person] = "admin"
    BY <1>0, <1>1 DEF Inv, Team, LockoutFree
  <2> QED BY <1>0, <1>4, <2>1, <2>2 DEF LockoutFree, Projection, teamVars
<1>11. SignIns'
  <2>1. \A s \in sessions : s.network \in Networks /\ s.person \in People
    BY DEF Inv, SignIns
  <2> QED BY <1>0, <1>8, <2>1 DEF Inv, SignIns, teamVars
<1>12. Invites'
  <2>1. \A i \in invites : i.network \in Networks /\ i.issuer \in People
    BY DEF Inv, Invites
  <2>2. \A i \in invites : ActiveAdmin(i.network, i.issuer)'
    BY <1>0, <1>8, <1>9, <2>1 DEF Inv, Invites, ActiveAdmin, Active
  <2> QED BY <1>0, <2>2 DEF Inv, Invites
<1>13. Responses'
  BY <1>0, <1>8 DEF Inv, Responses
<1>14. Endpoints'
  <2>1. ASSUME NEW e \in Accounts, NetworkActive(e)
        PROVE  NetworkActive(e)'
    BY <1>0, <1>1, <2>1 DEF Inv, Endpoints, AccountRow, NetworkActive
  <2>2. ASSUME NEW e \in Accounts
        PROVE  FreshAccount(e, account[e].session)' /\ FreshAccount(e, account[e].grant)'
    BY <1>0, <2>1 DEF Inv, Endpoints, FreshAccount
  <2> QED BY <1>0, <2>2 DEF Inv, Endpoints
<1> QED BY <1>6, <1>7, <1>10, <1>11, <1>12, <1>13, <1>14 DEF Inv, Team

\* update_member never touches the one who asks, nor the owner: an
\* administrator stays, and what the changed member had issued goes.
LEMMA UpdateMemberKeeps ==
    ASSUME Inv, NEW h \in held, NEW p \in People, NEW state \in Roles \cup {"disabled"},
           UpdateMember(h, p, state)
    PROVE  Inv'
<1> DEFINE n == h.network
           a == Person(h)
<1>0. /\ n \in Networks /\ a \in People /\ a # p
      /\ network[n].status = "active" /\ users[n][a] = "admin"
  BY CurrentAdmin DEF UpdateMember
<1>1. /\ users' = [users EXCEPT ![n][p] = state] /\ users[n][p] # "none"
      /\ owner # [home |-> n, person |-> p] /\ ~Projection(n, p)
      /\ RevokeMember(n, p) /\ held' = held \ {h}
      /\ UNCHANGED <<network, owner, projections, codes, token, issued, account, devices>>
  BY DEF UpdateMember, Done
<1>2. /\ users' \in [Networks -> [People -> States]] /\ users'[n][p] = state
      /\ \A m \in Networks, q \in People : <<m, q>> # <<n, p>> => users'[m][q] = users[m][q]
  BY <1>0, <1>1 DEF Inv, Team, TeamTyped, States
<1>3. /\ sessions' = {s \in sessions : <<s.network, s.person>> # <<n, p>>}
      /\ challenges' \subseteq challenges
      /\ invites' = {i \in invites : <<i.network, i.issuer>> # <<n, p>>}
      /\ grants' \subseteq grants
      /\ response' = ExpireUndeliveredActions(n, {p})
  BY <1>1 DEF RevokeMember
<1>4. owner # NoOwner => /\ owner.home \in Networks /\ owner.person \in People
                         /\ owner = [home |-> owner.home, person |-> owner.person]
                         /\ IsOwner(owner.home, owner.person)
  BY DEF Inv, Team, TeamTyped, LockoutFree
<1>5. owner # NoOwner => \A m \in Networks : network[m].status # "none" =>
                            <<m, owner.person>> # <<n, p>>
  <2>1. ASSUME owner # NoOwner, p = owner.person PROVE n # owner.home
    BY <1>1, <1>4, <2>1
  <2>2. ASSUME owner # NoOwner, p = owner.person PROVE Projection(n, p)
    BY <1>0, <2>1, <2>2 DEF Inv, Team, LockoutFree
  <2> QED BY <1>1, <2>2
<1>6. owner # NoOwner => IsOwner(owner.home, owner.person)'
  BY <1>1, <1>2, <1>4, <1>5 DEF IsOwner
<1>7. TeamTyped'
  BY <1>1, <1>2 DEF Inv, Team, TeamTyped
<1>8. Standing'
  <2>1. state # "none"
    BY DEF Roles
  <2> QED BY <1>0, <1>1, <1>2, <2>1 DEF Inv, Team, Standing, Projection
<1>9. ASSUME NEW m \in Networks, NEW q \in People
      PROVE  ActiveAdmin(m, q)' <=> network[m].status = "active" /\ users'[m][q] = "admin"
  <2>1. Projection(m, q)' => owner # NoOwner /\ q = owner.person
    BY <1>1, <1>8 DEF Standing
  <2> QED BY <1>1, <1>6, <2>1 DEF ActiveAdmin, Active, Roles
<1>10. LockoutFree'
  <2>1. ASSUME NEW m \in Networks, network[m].status = "active"
        PROVE  \E q \in People : ActiveAdmin(m, q)'
    <3>1. CASE m = n
      BY <1>0, <1>2, <1>9, <3>1
    <3>2. CASE m # n
      <4>1. PICK q \in People : ActiveAdmin(m, q)
        BY <2>1 DEF Inv, Team, LockoutFree
      <4> QED BY <1>2, <1>9, <2>1, <3>2, <4>1 DEF ActiveAdmin
    <3> QED BY <3>1, <3>2
  <2>2. owner # NoOwner => \A m \in Networks \ {owner.home} : network[m].status # "none" =>
           Projection(m, owner.person) /\ users'[m][owner.person] = "admin"
    BY <1>2, <1>4, <1>5 DEF Inv, Team, LockoutFree
  <2> QED BY <1>1, <1>6, <2>1, <2>2 DEF LockoutFree, Projection
<1>11. \A m \in Networks, q \in People : <<m, q>> # <<n, p>> /\ Active(m, q) => Active(m, q)'
  BY <1>1, <1>2 DEF Active
<1>12. SignIns'
  <2>1. \A s \in sessions' : /\ s \in sessions /\ s.network \in Networks /\ s.person \in People
                             /\ <<s.network, s.person>> # <<n, p>>
    BY <1>3 DEF Inv, SignIns
  <2>2. \A s \in sessions' : Active(s.network, s.person)' /\ users'[s.network][s.person] = s.role
    BY <1>2, <1>11, <2>1 DEF Inv, SignIns
  <2> QED BY <1>1, <1>3, <2>2 DEF Inv, SignIns
<1>13. Invites'
  <2>1. \A i \in invites' : /\ i \in invites /\ i.network \in Networks /\ i.issuer \in People
                            /\ <<i.network, i.issuer>> # <<n, p>>
    BY <1>3 DEF Inv, Invites
  <2>2. \A i \in invites' : ActiveAdmin(i.network, i.issuer)'
    BY <1>2, <1>9, <2>1 DEF Inv, Invites, ActiveAdmin, Active
  <2> QED BY <1>3, <2>2 DEF Inv, Invites
<1>14. Responses'
  <2>1. response' = [response EXCEPT ![n] = IF response[n] \cap {p} # {} THEN {} ELSE response[n]]
    BY <1>3 DEF ExpireUndeliveredActions
  <2>2. response' \in [Networks -> SUBSET People]
    BY <1>0, <2>1 DEF Inv, Responses
  <2>3. \A m \in Networks : \A q \in response'[m] : q \in response[m] /\ <<m, q>> # <<n, p>>
    BY <1>0, <2>1 DEF Inv, Responses
  <2>4. \A m \in Networks : \A q \in response'[m] : Active(m, q)'
    BY <1>11, <2>2, <2>3 DEF Inv, Responses
  <2> QED BY <2>2, <2>4 DEF Responses
<1>15. Endpoints'
  BY <1>1, <1>3 DEF Inv, Endpoints, FreshAccount, NetworkActive
<1> QED BY <1>7, <1>8, <1>10, <1>12, <1>13, <1>14, <1>15 DEF Inv, Team

\* _designate_locked makes an administrator the owner who has no user
\* elsewhere, and gives him one in every network.
LEMMA DesignateKeeps ==
    ASSUME Inv, NEW n \in Networks, NEW p \in People, Designate(n, p)
    PROVE  Inv'
<1>0. /\ owner = NoOwner /\ projections = {}
      /\ network[n].status = "active" /\ users[n][p] = "admin"
      /\ \A m \in Networks \ {n} : users[m][p] = "none"
      /\ owner' = [home |-> n, person |-> p]
      /\ users' = [m \in Networks |-> IF m \in Others(n) THEN [users[m] EXCEPT ![p] = "admin"]
                                      ELSE users[m]]
      /\ projections' = Others(n) \X {p}
      /\ sessions' \subseteq sessions /\ challenges' \subseteq challenges
      /\ UNCHANGED <<network, codes, token, invites, issued, held, response, endpointVars>>
  BY DEF Designate, Active
<1>1. owner' # NoOwner /\ owner'.home = n /\ owner'.person = p
  BY <1>0, AuthorityAssumption DEF NoOwner
<1>2. /\ users' \in [Networks -> [People -> States]]
      /\ \A m \in Others(n) : users'[m][p] = "admin"
      /\ \A m \in Networks, q \in People : m \notin Others(n) \/ q # p => users'[m][q] = users[m][q]
  BY <1>0 DEF Inv, Team, TeamTyped, States, Roles, Others
<1>3. \A m \in Networks, q \in People : users[m][q] # "none" => users'[m][q] = users[m][q]
  BY <1>0, <1>2 DEF Others
<1>4. \A m \in Networks : network[m].status # "none" /\ m # n <=> m \in Others(n)
  BY DEF Others
<1>5. TeamTyped'
  <2>1. projections' \subseteq (Networks \ {owner'.home}) \X People
    BY <1>0, <1>1 DEF Others
  <2>2. ASSUME NEW m \in Others(n) PROVE <<m, p>> \notin codes
    BY <1>0 DEF Inv, Team, Standing, Others
  <2>3. codes' \subseteq (Networks \X People) \ projections'
    BY <1>0, <2>2 DEF Inv, Team, TeamTyped
  <2> QED BY <1>0, <1>2, <2>1, <2>3 DEF Inv, Team, TeamTyped
<1>6. \A m \in Networks, q \in People : Projection(m, q)' => m \in Others(n) /\ q = p
  BY <1>0 DEF Projection
<1>7. Standing'
  <2>1. \A m \in Networks : network[m].status = "none" => \A q \in People : users'[m][q] = "none"
    BY <1>2, <1>4 DEF Inv, Team, Standing
  <2>2. \A m \in Networks, q \in People : <<m, q>> \in codes => users'[m][q] # "none"
    BY <1>3 DEF Inv, Team, Standing
  <2> QED BY <1>0, <1>1, <1>2, <1>4, <1>6, <2>1, <2>2 DEF Standing
<1>8. IsOwner(n, p)'
  BY <1>0, <1>3 DEF IsOwner
<1>9. ASSUME NEW m \in Networks, NEW q \in People
      PROVE  ActiveAdmin(m, q)' <=> network[m].status = "active" /\ users'[m][q] = "admin"
  BY <1>0, <1>1, <1>6, <1>8 DEF ActiveAdmin, Active, Roles
<1>10. LockoutFree'
  <2>1. ASSUME NEW m \in Networks, network[m].status = "active"
        PROVE  \E q \in People : ActiveAdmin(m, q)'
    <3>1. PICK q \in People : ActiveAdmin(m, q)
      BY <2>1 DEF Inv, Team, LockoutFree
    <3> QED BY <1>3, <1>9, <2>1, <3>1 DEF ActiveAdmin
  <2>2. \A m \in Networks \ {n} : network[m].status # "none" =>
           Projection(m, p)' /\ users'[m][p] = "admin"
    BY <1>0, <1>2, <1>4 DEF Projection
  <2> QED BY <1>0, <1>1, <1>8, <2>1, <2>2 DEF LockoutFree
<1>11. \A m \in Networks, q \in People : Active(m, q) =>
          Active(m, q)' /\ users'[m][q] = users[m][q]
  BY <1>0, <1>3 DEF Active, Roles
<1>12. SignIns'
  <2>1. \A s \in sessions' : s \in sessions /\ s.network \in Networks /\ s.person \in People
    BY <1>0 DEF Inv, SignIns
  <2>2. \A s \in sessions' : Active(s.network, s.person)' /\ users'[s.network][s.person] = s.role
    BY <1>11, <2>1 DEF Inv, SignIns
  <2> QED BY <1>0, <2>2 DEF Inv, SignIns
<1>13. Invites'
  <2>1. \A i \in invites : i.network \in Networks /\ i.issuer \in People
    BY DEF Inv, Invites
  <2>2. \A i \in invites : ActiveAdmin(i.network, i.issuer)'
    BY <1>9, <1>11, <2>1 DEF Inv, Invites, ActiveAdmin, Active
  <2> QED BY <1>0, <2>2 DEF Inv, Invites
<1>14. Responses'
  BY <1>0, <1>11 DEF Inv, Responses
<1>15. Endpoints'
  BY <1>0, EndpointsStay DEF Inv
<1> QED BY <1>5, <1>7, <1>10, <1>12, <1>13, <1>14, <1>15 DEF Inv, Team

-----------------------------------------------------------------------------
(* The three initial states, and the theorems *)

\* The accounts that an appliance starts with have no session and no grant.
LEMMA NewAccount ==
    ASSUME NEW n \in Networks, NEW ready \in BOOLEAN
    PROVE  /\ NoAccount \in AccountRow /\ NoAccount.session = 0 /\ NoAccount.grant = 0
           /\ LET row == [NoAccount EXCEPT !.network = n, !.status = "active", !.setup = ready,
                                           !.initial = ~ready]
              IN  row \in AccountRow /\ row.session = 0 /\ row.grant = 0
<1> DEFINE row == [NoAccount EXCEPT !.network = n, !.status = "active", !.setup = ready,
                                    !.initial = ~ready]
<1>1. NoAccount \in AccountRow
  BY DEF NoAccount, AccountRow
<1>2. NoAccount.session = 0 /\ NoAccount.grant = 0
  BY DEF NoAccount
<1>3. (~ready) \in BOOLEAN
  OBVIOUS
<1>4. row \in AccountRow /\ row.session = 0 /\ row.grant = 0
  BY <1>1, <1>2, <1>3 DEF AccountRow
<1> QED BY <1>1, <1>2, <1>4

\* Accounts without sessions and grants, in an appliance that serves no one.
LEMMA InitEndpoints ==
    ASSUME Empty, account \in [Accounts -> AccountRow],
           \A e \in Accounts : account[e].session = 0 /\ account[e].grant = 0
    PROVE  Endpoints
  BY DEF Empty, Endpoints, FreshAccount

\* An appliance before its bootstrap.
LEMMA InitNewInv == ASSUME Empty, InitNew PROVE Inv
<1> USE AuthorityAssumption
<1>1. NoNetwork \in NetworkRow /\ NoNetwork.status = "none"
  BY DEF NoNetwork, NetworkRow
<1>2. Team
  BY <1>1 DEF InitNew, Team, TeamTyped, Standing, LockoutFree, Projection, NoOwner, States
<1>3. SignIns /\ Invites /\ Responses
  BY DEF InitNew, Empty, SignIns, Invites, Responses
<1>4. Endpoints
  BY NewAccount, InitEndpoints DEF InitNew
<1> QED BY <1>2, <1>3, <1>4 DEF Inv

\* An administrator who is signed in.
LEMMA SignedInTyped ==
    ASSUME NEW i \in 1..2, NEW n \in Networks, NEW p \in People
    PROVE  /\ SignedIn(i, n, p) \in [id : 1..2, network : Networks, person : People, role : Roles]
           /\ SignedIn(i, n, p).network = n /\ SignedIn(i, n, p).person = p
           /\ SignedIn(i, n, p).role = "admin"
  BY DEF SignedIn, Roles

\* One from before there was an owner.
LEMMA InitLegacyInv == ASSUME Empty, InitLegacy PROVE Inv
<1> USE AuthorityAssumption
<1> DEFINE row == [Configured EXCEPT !.domain = FALSE]
<1>1. row \in NetworkRow /\ row.status = "active"
  BY DEF Configured, NetworkRow
<1>2. network \in [Networks -> NetworkRow] /\ \A n \in Networks : network[n].status = "active"
  BY <1>1 DEF InitLegacy
<1>3. users \in [Networks -> [People -> States]]
      /\ users[Home][Founder] = "admin" /\ users[Home][Colleague] = "admin"
      /\ \A n \in Networks : \E p \in People : users[n][p] = "admin"
  BY DEF InitLegacy, States, Roles
<1>4. owner = NoOwner /\ projections = {} /\ codes = {<<Home, Founder>>}
  BY DEF InitLegacy
<1>5. Team
  BY <1>2, <1>3, <1>4
     DEF Team, TeamTyped, Standing, LockoutFree, Projection, NoOwner, ActiveAdmin, Active, Roles
<1>6. sessions = {SignedIn(1, Home, Founder), SignedIn(2, Home, Colleague)}
      /\ issued = 2 /\ token = 0
  BY DEF InitLegacy
<1>7. \A s \in sessions : s.network = Home /\ s.role = "admin"
         /\ s.person \in {Founder, Colleague}
  BY <1>6, SignedInTyped
<1>8. \A s \in sessions : Active(s.network, s.person) /\ users[s.network][s.person] = s.role
  BY <1>2, <1>3, <1>7 DEF Active, Roles
<1>9. SignIns
  BY <1>6, <1>8, SignedInTyped DEF SignIns, Empty
<1>10. Invites /\ Responses
  BY DEF Empty, Invites, Responses
<1>11. Endpoints
  BY NewAccount, InitEndpoints DEF InitLegacy
<1> QED BY <1>5, <1>9, <1>10, <1>11 DEF Inv

\* One whose owner has created a network.
LEMMA InitOwnedInv == ASSUME Empty, InitOwned PROVE Inv
<1> USE AuthorityAssumption
<1>1. ASSUME NEW n \in Networks
      PROVE  [Configured EXCEPT !.domain = n # Home] \in NetworkRow
             /\ [Configured EXCEPT !.domain = n # Home].status = "active"
  BY DEF Configured, NetworkRow
<1>2. network \in [Networks -> NetworkRow] /\ \A n \in Networks : network[n].status = "active"
  BY <1>1 DEF InitOwned
<1>3. /\ users \in [Networks -> [People -> States]]
      /\ \A n \in Networks : users[n][Founder] = "admin"
      /\ \A n \in Branches : users[n][Colleague] = "admin"
  BY DEF InitOwned, States, Roles, Branches
<1>4. owner = [home |-> Home, person |-> Founder] /\ owner # NoOwner
      /\ projections = Branches \X {Founder} /\ codes = {<<Home, Founder>>}
  BY DEF InitOwned, NoOwner
<1>5. TeamTyped
  BY <1>2, <1>3, <1>4 DEF TeamTyped, Branches
<1>6. Standing
  BY <1>2, <1>3, <1>4 DEF Standing, Projection, Branches
<1>7. IsOwner(Home, Founder)
  BY <1>2, <1>3, <1>4 DEF IsOwner
<1>8. \A n \in Networks : ActiveAdmin(n, Founder)
  BY <1>2, <1>3, <1>4, <1>7 DEF ActiveAdmin, Active, Roles
<1>9. LockoutFree
  BY <1>3, <1>4, <1>7, <1>8 DEF LockoutFree, Projection, Branches
<1>10. PICK b \in Branches :
         /\ sessions = {SignedIn(1, Home, Founder), SignedIn(2, b, Colleague)}
         /\ \E ready \in BOOLEAN : account = [e \in Accounts |->
               [NoAccount EXCEPT !.network = b, !.status = "active", !.setup = ready,
                                 !.initial = ~ready]]
  BY DEF InitOwned
<1>11. b \in Networks /\ b \in Branches
  BY DEF Branches
<1>12. \A s \in sessions : \/ s.network = Home /\ s.person = Founder /\ s.role = "admin"
                           \/ s.network = b /\ s.person = Colleague /\ s.role = "admin"
  BY <1>10, <1>11, SignedInTyped
<1>13. \A s \in sessions : Active(s.network, s.person) /\ users[s.network][s.person] = s.role
  BY <1>2, <1>3, <1>11, <1>12 DEF Active, Roles
<1>14. issued = 2 /\ token = 0
  BY DEF InitOwned
<1>15. SignIns
  BY <1>10, <1>11, <1>13, <1>14, SignedInTyped DEF SignIns, Empty
<1>16. Invites /\ Responses
  BY DEF Empty, Invites, Responses
<1>17. Endpoints
  <2>1. PICK ready \in BOOLEAN : account = [e \in Accounts |->
               [NoAccount EXCEPT !.network = b, !.status = "active", !.setup = ready,
                                 !.initial = ~ready]]
    BY <1>10
  <2>2. account \in [Accounts -> AccountRow]
        /\ \A e \in Accounts : account[e].session = 0 /\ account[e].grant = 0
    BY <1>11, <2>1, NewAccount
  <2> QED BY <2>2, InitEndpoints
<1> QED BY <1>5, <1>6, <1>9, <1>15, <1>16, <1>17 DEF Inv, Team

\* Every step keeps the invariant.
LEMMA NextKeeps == Inv /\ [Next]_vars => Inv'
<1> SUFFICES ASSUME Inv, [Next]_vars PROVE Inv'
  OBVIOUS
<1>1. CASE SignIn
  BY <1>1, PlainSignInKeeps, CompleteBootstrapKeeps, CompleteAuthenticationKeeps,
     RecoverSessionKeeps, AuthenticateKeeps, OpenInviteKeeps, CompleteInviteKeeps,
     ResponseKeeps, DesignateKeeps DEF SignIn
<1>2. ASSUME NEW h \in held, Serve(h)
      PROVE  Inv'
  <2>1. ASSUME NEW n \in Networks, NEW status \in {"active", "suspended"},
               UpdateNetwork(h, n, status)
        PROVE  Inv'
    BY <2>1, PauseKeeps, ResumeKeeps
  <2> QED BY <1>2, <2>1, PlainSignInKeeps, OpenInviteKeeps, UpdateMemberKeeps,
             CreateNetworkKeeps, ConfigureKeeps, ResponseKeeps, GrantKeeps, AdministerKeeps
          DEF Serve
<1>3. CASE \E e \in Accounts : Endpoint(e)
  BY <1>3, EndpointKeeps
<1>4. CASE \E g \in grants : ClaimGrant(g)
  BY <1>4, GrantKeeps
<1>5. CASE UNCHANGED vars
  <2>1. UNCHANGED <<network, teamVars, signInVars, response, endpointVars, held>>
    BY <1>5 DEF vars, teamVars, signInVars, endpointVars
  <2>2. Endpoints'
    BY <2>1, EndpointsStay DEF Inv
  <2> QED BY <2>1, <2>2, EndpointStep
<1> QED BY <1>1, <1>2, <1>3, <1>4, <1>5 DEF Next

\* The inductive invariant of every appliance: new, legacy or with an owner.
THEOREM Invariance == Spec => []Inv
<1>1. Init => Inv
  BY InitNewInv, InitLegacyInv, InitOwnedInv DEF Init
<1> QED BY <1>1, NextKeeps, PTL DEF Spec

\* The tables keep their types, and the owner has no second user at home.
THEOREM TypeCorrect == Spec => []TypeOK
<1>1. Inv => TypeOK
  BY InvImplies
<1> QED BY <1>1, Invariance, PTL

\* No order of team changes, pauses, invitations and designations locks a team
\* or the owner out (update_member, update_network, _designate_locked).
THEOREM NobodyLockedOut == Spec => []LockoutFree
<1>1. Inv => LockoutFree
  BY InvImplies
<1> QED BY <1>1, Invariance, PTL

\* No session, invitation, action, endpoint session or account grant survives
\* the change of who it was issued to, however sign-ins race with the change.
THEOREM AuthorityStaysFresh == Spec => []AuthorityFresh
<1>1. Inv => AuthorityFresh
  BY InvImplies
<1> QED BY <1>1, Invariance, PTL
=============================================================================
