-------------------------- MODULE NetworkAuthority --------------------------
(***************************************************************************)
(* Who may do what in which network: the first administrator, passkey      *)
(* sign-in, invitations, team changes, the platform owner and the networks *)
(* he creates and pauses, endpoint accounts with their passwords, and the  *)
(* grants that enroll a device.                                            *)
(*                                                                         *)
(* A request of an administrator is authenticated first; its principal is  *)
(* then used in another transaction, and anything may have happened in     *)
(* between.  A write transaction is one step.  A row that is revoked, used *)
(* or past its time is removed from its table: no code reads it again.     *)
(* Whoever completes a ceremony loads its row once before the transaction  *)
(* that checks the row again, so one step stands for both.                 *)
(***************************************************************************)
EXTENDS Naturals, FiniteSets

CONSTANTS
    Networks,      \* the networks that may come to exist
    Home,          \* the one that bootstrap creates
    People,        \* persons, by e-mail address
    Founder,       \* the first administrator, where there is one at the start
    Colleague,     \* the second
    Accounts,      \* endpoint accounts
    MaxSessions,   \* bound on sessions issued
    MaxChallenges, \* bound on open challenges
    MaxRequests,   \* bound on requests that are served at the same time
    MaxMoves       \* bound on steps that write

ASSUME AuthorityAssumption ==
    /\ Home \in Networks
    /\ {Founder, Colleague} \subseteq People /\ Founder # Colleague
    /\ {MaxSessions, MaxChallenges, MaxRequests, MaxMoves} \subseteq Nat
    /\ 2 <= MaxSessions
    /\ "none" \notin Networks \cup People

VARIABLES
    network,     \* per network: its status, login namespace and entry route
    users,       \* per network and person: the role of an active user, or why not
    owner,       \* the platform owner: home network and person
    projections, \* owner_memberships: the owner's users in other networks
    codes,       \* users with an unused recovery code
    token,       \* the bootstrap token that can be used, 0 if there is none
    sessions,    \* live sessions
    challenges,  \* open passkey challenges
    invites,     \* open invitations
    held,        \* principals of requests that are being served
    response,    \* per network: who took part in its undelivered action
    account,     \* endpoint accounts with their session, reset and grant
    grants,      \* open enrollment grants of administrators
    devices,     \* per network: its device
    issued,      \* sessions and bootstrap tokens issued so far
    moves        \* steps so far that wrote

vars == <<network, users, owner, projections, codes, token, sessions, challenges,
          invites, held, response, account, grants, devices, issued, moves>>

teamVars == <<users, owner, projections, codes>>
signInVars == <<token, sessions, challenges, invites, issued>>
endpointVars == <<account, grants, devices>>

Roles == {"admin", "responder"}
NoOwner == [home |-> "none", person |-> "none"]
NoNetwork == [status |-> "none", domain |-> FALSE, route |-> FALSE]
Configured == [status |-> "active", domain |-> TRUE, route |-> FALSE]
NoAccount == [network |-> "none", status |-> "none", version |-> 1, setup |-> FALSE,
              initial |-> FALSE, verified |-> 0, session |-> 0, reset |-> FALSE,
              grant |-> 0]

Moves == moves < MaxMoves /\ moves' = moves + 1

-----------------------------------------------------------------------------
(* Authority *)

Active(n, p) == network[n].status = "active" /\ users[n][p] \in Roles
Projection(n, p) == <<n, p>> \in projections

\* _owner of NetworkService.
IsOwner(n, p) ==
    /\ owner = [home |-> n, person |-> p]
    /\ network[n].status = "active"
    /\ users[n][p] = "admin"

\* _active_admin: the owner's users elsewhere count while he is the owner.
ActiveAdmin(n, p) ==
    /\ Active(n, p) /\ users[n][p] = "admin"
    /\ Projection(n, p) => IsOwner(owner.home, p)

\* bootstrap_status.
BootstrapConfigured == \E n \in Networks, p \in People : users[n][p] = "admin"

\* scope: an owner may select a network in which he has a user.
Scope(s, n) ==
    n # s.network => /\ IsOwner(s.network, s.person)
                     /\ Projection(n, s.person)
                     /\ Active(n, s.person) /\ users[n][s.person] = "admin"

\* authenticate_session, then scope; require_session makes the principal.
Authenticate(s, n) ==
    /\ s \in sessions
    /\ Cardinality(held) < MaxRequests /\ \A h \in held : h.session # s
    /\ Active(s.network, s.person)
    /\ Scope(s, n)
    /\ held' = held \cup {[session |-> s, network |-> n, granting |-> FALSE,
                           role |-> IF n = s.network THEN users[n][s.person] ELSE "admin"]}
    /\ UNCHANGED <<network, teamVars, signInVars, response, endpointVars, moves>>

Person(h) == h.session.person

\* require_capability reads the principal alone.
RequireManage(h) == h.role = "admin"

CapabilityAsHeld(h) == h.role \in Roles

\* require_current_capability reads everything again in the transaction.
CurrentCapability(h) ==
    /\ h.session \in sessions
    /\ Active(h.session.network, Person(h))
    /\ Active(h.network, Person(h)) /\ users[h.network][Person(h)] = h.role
    /\ h.network # h.session.network =>
          Projection(h.network, Person(h)) /\ ActiveAdmin(h.network, Person(h))

RequireAdminIn(h) == RequireManage(h) /\ CurrentCapability(h)

\* _owner of NetworkLifecycleService.
RequireOwner(h) == RequireAdminIn(h) /\ IsOwner(h.network, Person(h))

Done(h) == held' = held \ {h}

\* The request is refused, or answered without a change.
Answer(h) ==
    /\ h \in held
    /\ Done(h)
    /\ UNCHANGED <<network, teamVars, signInVars, response, endpointVars, moves>>

-----------------------------------------------------------------------------
(* Sessions and challenges *)

\* _issue_session: never for the owner's users in other networks.
MayIssueSession(n, p) == Active(n, p) /\ ~Projection(n, p)
NewSession(n, p, role) ==
    [id |-> issued + 1, network |-> n, person |-> p, role |-> role]
IssueSession(s) ==
    /\ issued < MaxSessions
    /\ issued' = issued + 1
    /\ sessions' = sessions \cup {s}

NewChallenge(purpose, n, p) ==
    [id |-> CHOOSE i \in 1..MaxChallenges : \A c \in challenges : c.id # i,
     purpose |-> purpose, network |-> n, person |-> p, token |-> token]

\* _create_challenge.
CreateChallenge(purpose, n, p) ==
    /\ Cardinality(challenges) < MaxChallenges
    /\ challenges' = challenges \cup {NewChallenge(purpose, n, p)}

\* _load_challenge and _consume_challenge.
OpenChallenge(c, purpose) == c \in challenges /\ c.purpose = purpose
ConsumeChallenge(c) == challenges' = challenges \ {c}

\* _rotate_bootstrap_token at every start of an unconfigured appliance:
\* earlier tokens are revoked.
IssueBootstrapToken ==
    /\ Moves
    /\ ~BootstrapConfigured
    /\ issued < MaxSessions
    /\ issued' = issued + 1
    /\ token' = issued + 1
    /\ UNCHANGED <<network, teamVars, sessions, challenges, invites, held, response,
                   endpointVars>>

\* revoke_pending_bootstrap_tokens.
RevokeBootstrapTokens ==
    /\ Moves
    /\ token # 0
    /\ token' = 0
    /\ UNCHANGED <<network, teamVars, sessions, challenges, invites, issued, held,
                   response, endpointVars>>

BeginBootstrap(p) ==
    /\ Moves
    /\ token # 0 /\ ~BootstrapConfigured
    /\ CreateChallenge("bootstrap", Home, p)
    /\ UNCHANGED <<network, teamVars, token, sessions, invites, issued, held, response,
                   endpointVars>>

CompleteBootstrap(c) ==
    /\ Moves
    /\ OpenChallenge(c, "bootstrap")
    /\ token # 0 /\ c.token = token
    /\ ~BootstrapConfigured
    /\ ConsumeChallenge(c)
    /\ token' = 0
    /\ network' = [network EXCEPT ![Home] = [Configured EXCEPT !.domain = FALSE]]
    /\ users' = [users EXCEPT ![Home][c.person] = "admin"]
    /\ owner' = [home |-> Home, person |-> c.person]
    /\ codes' = codes \cup {<<Home, c.person>>}
    /\ IssueSession(NewSession(Home, c.person, "admin"))
    /\ UNCHANGED <<projections, invites, held, response, endpointVars>>

\* Only users with passkeys of their own can begin.
BeginAuthentication(n, p) ==
    /\ Moves
    /\ Active(n, p) /\ ~Projection(n, p)
    /\ CreateChallenge("authentication", n, p)
    /\ UNCHANGED <<network, teamVars, token, sessions, invites, issued, held, response,
                   endpointVars>>

CompleteAuthentication(c) ==
    /\ Moves
    /\ OpenChallenge(c, "authentication")
    /\ MayIssueSession(c.network, c.person)
    /\ ConsumeChallenge(c)
    /\ IssueSession(NewSession(c.network, c.person, users[c.network][c.person]))
    /\ UNCHANGED <<network, teamVars, token, invites, held, response, endpointVars>>

\* begin_passkey_registration checks nothing but the principal.
BeginPasskeyRegistration(h) ==
    /\ Moves
    /\ h \in held /\ ~h.granting /\ h.network = h.session.network
    /\ CreateChallenge("registration", h.network, Person(h))
    /\ Done(h)
    /\ UNCHANGED <<network, teamVars, token, sessions, invites, issued, response,
                   endpointVars>>

CompletePasskeyRegistration(h, c) ==
    /\ Moves
    /\ h \in held /\ ~h.granting
    /\ OpenChallenge(c, "registration")
    /\ c.network = h.network /\ c.person = Person(h)
    /\ ConsumeChallenge(c)
    /\ Done(h)
    /\ UNCHANGED <<network, teamVars, token, sessions, invites, issued, response,
                   endpointVars>>

RecoverSession(n, p) ==
    /\ Moves
    /\ <<n, p>> \in codes
    /\ MayIssueSession(n, p)
    /\ codes' = codes \ {<<n, p>>}
    /\ IssueSession(NewSession(n, p, users[n][p]))
    /\ UNCHANGED <<network, users, owner, projections, token, challenges, invites, held,
                   response, endpointVars>>

\* revoke_session: signing out.
RevokeSession(h) ==
    /\ Moves
    /\ h \in held /\ ~h.granting
    /\ sessions' = sessions \ {h.session}
    /\ Done(h)
    /\ UNCHANGED <<network, teamVars, token, challenges, invites, issued, response,
                   endpointVars>>

-----------------------------------------------------------------------------
(* Invitations *)

IssueInvite(h, p, role) ==
    /\ Moves
    /\ h \in held /\ ~h.granting /\ RequireAdminIn(h)
    /\ users[h.network][p] = "none"
    /\ \A i \in invites : <<i.network, i.person>> # <<h.network, p>>
    /\ invites' = invites \cup {[network |-> h.network, person |-> p, role |-> role,
                                 issuer |-> Person(h), begun |-> FALSE]}
    /\ Done(h)
    /\ UNCHANGED <<network, teamVars, token, sessions, challenges, issued, response,
                   endpointVars>>

\* A challenge of an invitation is kept in a table of its own and ends with it.
BeginInvite(i) ==
    /\ Moves
    /\ i \in invites /\ ~i.begun
    /\ network[i.network].status = "active"
    /\ invites' = (invites \ {i}) \cup {[i EXCEPT !.begun = TRUE]}
    /\ UNCHANGED <<network, teamVars, token, sessions, challenges, issued, held, response,
                   endpointVars>>

\* complete_human_invite looks at the issuer again.
CompleteInvite(i) ==
    /\ Moves
    /\ i \in invites /\ i.begun
    /\ ActiveAdmin(i.network, i.issuer)
    /\ users[i.network][i.person] = "none"
    /\ invites' = invites \ {i}
    /\ users' = [users EXCEPT ![i.network][i.person] = i.role]
    /\ codes' = codes \cup {<<i.network, i.person>>}
    /\ IssueSession(NewSession(i.network, i.person, i.role))
    /\ UNCHANGED <<network, owner, projections, token, challenges, held, response,
                   endpointVars>>

RevokeInvite(h, i) ==
    /\ Moves
    /\ h \in held /\ ~h.granting /\ RequireAdminIn(h)
    /\ i \in invites /\ i.network = h.network
    /\ invites' = invites \ {i}
    /\ Done(h)
    /\ UNCHANGED <<network, teamVars, token, sessions, challenges, issued, response,
                   endpointVars>>

-----------------------------------------------------------------------------
(* Networks, their teams and the owner.  The revision that a request names   *)
(* only ever refuses it, so a request is taken here with the current one.    *)

CreateNetwork(h, n) ==
    /\ Moves
    /\ h \in held /\ ~h.granting /\ RequireOwner(h)
    /\ network[n].status = "none"
    /\ network' = [network EXCEPT ![n] = Configured]
    /\ users' = [users EXCEPT ![n][Person(h)] = "admin"]
    /\ projections' = projections \cup {<<n, Person(h)>>}
    /\ Done(h)
    /\ UNCHANGED <<owner, codes, signInVars, response, endpointVars>>

RevokeNothing(n) == UNCHANGED <<sessions, challenges, invites, account, grants, response>>

\* _expire_undelivered_actions: the network's action, or the one a member
\* took part in.
ExpireUndeliveredActions(n, who) ==
    [response EXCEPT ![n] = IF @ \cap who # {} THEN {} ELSE @]

\* What update_network revokes when it pauses a network.
RevokeNetwork(n) ==
    /\ sessions' = {s \in sessions : s.network # n}
    /\ challenges' = {c \in challenges : c.purpose = "bootstrap" \/ c.network # n}
    /\ invites' = {i \in invites : i.network # n}
    /\ grants' = {g \in grants : g.network # n}
    /\ account' = [e \in Accounts |-> IF account[e].network # n THEN account[e]
                      ELSE [account[e] EXCEPT !.session = 0, !.grant = 0]]
    /\ response' = ExpireUndeliveredActions(n, People)

UpdateNetwork(h, n, status) ==
    /\ Moves
    /\ h \in held /\ ~h.granting /\ RequireOwner(h)
    /\ network[n].status \notin {"none", status}
    /\ status = "suspended" => owner.home # n
    /\ network' = [network EXCEPT ![n].status = status]
    /\ \/ status = "suspended" /\ RevokeNetwork(n)
       \/ status = "active" /\ RevokeNothing(n)
    /\ Done(h)
    /\ UNCHANGED <<teamVars, token, issued, devices>>

AdoptNamespace(h, n) ==
    /\ Moves
    /\ h \in held /\ ~h.granting /\ RequireOwner(h)
    /\ network[n].status = "active" /\ ~network[n].domain
    /\ network' = [network EXCEPT ![n].domain = TRUE]
    /\ Done(h)
    /\ UNCHANGED <<teamVars, signInVars, response, endpointVars>>

\* configure of NetworkRouter.
ConfigureRoute(h, n, enabled) ==
    /\ Moves
    /\ h \in held /\ ~h.granting /\ RequireOwner(h)
    /\ network[n].status # "none" /\ network[n].route # enabled
    /\ enabled => network[n].domain /\ network[n].status = "active"
    /\ network' = [network EXCEPT ![n].route = enabled]
    /\ Done(h)
    /\ UNCHANGED <<teamVars, signInVars, response, endpointVars>>

\* A sign-in change that forgets what the member handed out.
RevokeSignIn(n, p) ==
    /\ sessions' = {s \in sessions : <<s.network, s.person>> # <<n, p>>}
    /\ challenges' = {c \in challenges :
                        c.purpose = "bootstrap" \/ <<c.network, c.person>> # <<n, p>>}
    /\ UNCHANGED <<invites, grants, response>>

\* What update_member revokes of a member that it changes.
RevokeMember(n, p) ==
    /\ sessions' = {s \in sessions : <<s.network, s.person>> # <<n, p>>}
    /\ challenges' = {c \in challenges :
                        c.purpose = "bootstrap" \/ <<c.network, c.person>> # <<n, p>>}
    /\ invites' = {i \in invites : <<i.network, i.issuer>> # <<n, p>>}
    /\ grants' = {g \in grants : <<g.network, g.by>> # <<n, p>>}
    /\ response' = ExpireUndeliveredActions(n, {p})

UpdateMember(h, p, state) ==
    /\ Moves
    /\ h \in held /\ ~h.granting /\ RequireAdminIn(h)
    /\ users[h.network][p] \notin {"none", state}
    /\ p # Person(h)
    /\ owner # [home |-> h.network, person |-> p] /\ ~Projection(h.network, p)
    /\ users' = [users EXCEPT ![h.network][p] = state]
    /\ RevokeMember(h.network, p)
    /\ Done(h)
    /\ UNCHANGED <<network, owner, projections, codes, token, issued, account, devices>>

OthersAndItself(n) == {m \in Networks : network[m].status # "none"}

\* The networks that get a user of the new owner.
Others(n) == {m \in Networks \ {n} : network[m].status # "none"}

\* _designate_locked runs offline: no request is being served.
Designate(n, p) ==
    /\ Moves
    /\ held = {}
    /\ owner = NoOwner /\ projections = {}
    /\ Active(n, p) /\ users[n][p] = "admin"
    /\ \A m \in Networks \ {n} : users[m][p] = "none"
    /\ owner' = [home |-> n, person |-> p]
    /\ users' = [m \in Networks |-> IF m \in Others(n) THEN [users[m] EXCEPT ![p] = "admin"]
                                    ELSE users[m]]
    /\ projections' = Others(n) \X {p}
    /\ sessions' = {s \in sessions : <<s.network, s.person>> # <<n, p>>}
    /\ challenges' = {c \in challenges :
                        c.purpose = "bootstrap" \/ <<c.network, c.person>> # <<n, p>>}
    /\ UNCHANGED <<network, codes, token, invites, issued, held, response, endpointVars>>

-----------------------------------------------------------------------------
(* What the members of a team do with an action; ResponseGovernance has the  *)
(* rest of it.                                                               *)

ProposeResponse(h) ==
    /\ Moves
    /\ h \in held /\ ~h.granting /\ CurrentCapability(h)
    /\ response[h.network] = {}
    /\ response' = [response EXCEPT ![h.network] = {Person(h)}]
    /\ Done(h)
    /\ UNCHANGED <<network, teamVars, signInVars, endpointVars>>

ApproveResponse(h) ==
    /\ Moves
    /\ h \in held /\ ~h.granting /\ CurrentCapability(h)
    /\ Cardinality(response[h.network]) = 1 /\ Person(h) \notin response[h.network]
    /\ response' = [response EXCEPT ![h.network] = @ \cup {Person(h)}]
    /\ Done(h)
    /\ UNCHANGED <<network, teamVars, signInVars, endpointVars>>

\* The action is leased to its device, rejected or past its time.
SettleResponse(n) ==
    /\ Moves
    /\ response[n] # {}
    /\ response' = [response EXCEPT ![n] = {}]
    /\ UNCHANGED <<network, teamVars, signInVars, held, endpointVars>>

-----------------------------------------------------------------------------
(* Endpoint accounts *)

NetworkActive(e) == account[e].network # "none" /\ network[account[e].network].status = "active"
SetAccount(e, row) == account' = [account EXCEPT ![e] = row]
AccountUnchanged == <<network, teamVars, signInVars, response, grants, devices>>

CreateAccount(h, e) ==
    /\ Moves
    /\ h \in held /\ ~h.granting /\ RequireAdminIn(h)
    /\ network[h.network].domain
    /\ account[e] = NoAccount
    /\ SetAccount(e, [NoAccount EXCEPT !.network = h.network, !.status = "active",
                                       !.initial = TRUE])
    /\ Done(h)
    /\ UNCHANGED AccountUnchanged

\* login: the password is verified against the row that was read first.
VerifyLogin(e) ==
    /\ Moves
    /\ NetworkActive(e) /\ network[account[e].network].domain
    /\ account[e].status = "active" /\ account[e].verified = 0
    /\ SetAccount(e, [account[e] EXCEPT !.verified = account[e].version])
    /\ UNCHANGED <<held, AccountUnchanged>>

\* The version of that row is compared before a session is issued.
LoginStands(e) ==
    /\ NetworkActive(e) /\ account[e].status = "active"
    /\ account[e].verified = account[e].version
    /\ account[e].setup \/ account[e].initial

CompleteLogin(e) ==
    /\ Moves
    /\ account[e].verified # 0
    /\ SetAccount(e, [account[e] EXCEPT !.verified = 0,
                         !.session = IF LoginStands(e) THEN account[e].version ELSE @])
    /\ UNCHANGED <<held, AccountUnchanged>>

\* _session.
LiveSession(e) ==
    /\ account[e].session # 0 /\ account[e].session = account[e].version
    /\ account[e].status = "active" /\ NetworkActive(e)

Logout(e) ==
    /\ Moves
    /\ account[e].session # 0
    /\ SetAccount(e, [account[e] EXCEPT !.session = 0])
    /\ UNCHANGED <<held, AccountUnchanged>>

\* _replace_password: the first password that its user chose completes the setup.
ReplacePassword(row, complete) ==
    [row EXCEPT !.version = @ + 1, !.setup = @ \/ complete,
                !.initial = ~(row.setup \/ complete), !.session = 0, !.grant = 0]

ChangePassword(e) ==
    /\ Moves
    /\ LiveSession(e) /\ ~account[e].setup
    /\ SetAccount(e, [ReplacePassword(account[e], TRUE) EXCEPT !.session = account[e].version + 1])
    /\ UNCHANGED <<held, AccountUnchanged>>

RequestReset(e) ==
    /\ Moves
    /\ NetworkActive(e) /\ account[e].status = "active" /\ ~account[e].reset
    /\ SetAccount(e, [account[e] EXCEPT !.reset = TRUE])
    /\ UNCHANGED <<held, AccountUnchanged>>

ResetPassword(h, e) ==
    /\ Moves
    /\ h \in held /\ ~h.granting /\ RequireAdminIn(h)
    /\ account[e].network = h.network /\ account[e].status = "active" /\ account[e].reset
    /\ SetAccount(e, [ReplacePassword(account[e], FALSE) EXCEPT !.reset = FALSE])
    /\ Done(h)
    /\ UNCHANGED AccountUnchanged

UpdateAccount(h, e, status) ==
    /\ Moves
    /\ h \in held /\ ~h.granting /\ RequireAdminIn(h)
    /\ account[e].network = h.network /\ account[e].status # status
    /\ SetAccount(e, [account[e] EXCEPT !.status = status, !.version = @ + 1,
                         !.session = 0, !.grant = 0, !.reset = @ /\ status = "active"])
    /\ Done(h)
    /\ UNCHANGED AccountUnchanged

\* enrollment_grant replaces the one before.
RequestEnrollmentGrant(e) ==
    /\ Moves
    /\ LiveSession(e) /\ account[e].setup
    /\ SetAccount(e, [account[e] EXCEPT !.grant = account[e].version])
    /\ UNCHANGED <<held, AccountUnchanged>>

-----------------------------------------------------------------------------
(* Enrollment with a grant.  One device per network; the grants of accounts  *)
(* name it, those of administrators name none.                               *)

\* create_enrollment_grant: the principal is not looked up again, and
\* issue_grant reads the network in a statement of its own.
CheckGrant(h) ==
    /\ h \in held /\ ~h.granting /\ RequireManage(h)
    /\ network[h.network].status = "active"
    /\ held' = (held \ {h}) \cup {[h EXCEPT !.granting = TRUE]}
    /\ UNCHANGED <<network, teamVars, signInVars, response, endpointVars, moves>>

InsertGrant(h) ==
    /\ Moves
    /\ h \in held /\ h.granting
    /\ grants' = grants \cup {[network |-> h.network, by |-> Person(h)]}
    /\ Done(h)
    /\ UNCHANGED <<network, teamVars, signInVars, response, account, devices>>

ClaimGrant(g) ==
    /\ Moves
    /\ g \in grants /\ network[g.network].status = "active"
    /\ devices[g.network] = "none"
    /\ devices' = [devices EXCEPT ![g.network] = "active"]
    /\ grants' = grants \ {g}
    /\ UNCHANGED <<network, teamVars, signInVars, held, response, account>>

\* _require_account_grant reads the account again.
ClaimAccountGrant(e) ==
    /\ Moves
    /\ account[e].grant # 0 /\ NetworkActive(e)
    /\ account[e].status = "active" /\ account[e].setup
    /\ account[e].version = account[e].grant
    /\ devices[account[e].network] = "none"
    /\ devices' = [devices EXCEPT ![account[e].network] = "active"]
    /\ SetAccount(e, [account[e] EXCEPT !.grant = 0])
    /\ UNCHANGED <<network, teamVars, signInVars, held, response, grants>>

RevokeDevice(h) ==
    /\ Moves
    /\ h \in held /\ ~h.granting /\ RequireManage(h)
    /\ devices[h.network] = "active"
    /\ devices' = [devices EXCEPT ![h.network] = "revoked"]
    /\ account' = [e \in Accounts |-> IF account[e].network # h.network THEN account[e]
                      ELSE [account[e] EXCEPT !.grant = 0]]
    /\ Done(h)
    /\ UNCHANGED <<network, teamVars, signInVars, response, grants>>

-----------------------------------------------------------------------------
(* Time passes.  A challenge or a grant that expires is one that is not used. *)

ExpireSession(s) ==
    /\ Moves
    /\ sessions' = sessions \ {s}
    /\ UNCHANGED <<network, teamVars, token, challenges, invites, issued, held, response,
                   endpointVars>>

ExpireInvite(i) ==
    /\ Moves
    /\ invites' = invites \ {i}
    /\ UNCHANGED <<network, teamVars, token, sessions, challenges, issued, held, response,
                   endpointVars>>

ExpireEndpointSession(e) ==
    /\ Moves
    /\ account[e].session # 0
    /\ SetAccount(e, [account[e] EXCEPT !.session = 0])
    /\ UNCHANGED <<held, AccountUnchanged>>

ExpireInitialPassword(e) ==
    /\ Moves
    /\ account[e].initial
    /\ SetAccount(e, [account[e] EXCEPT !.initial = FALSE])
    /\ UNCHANGED <<held, AccountUnchanged>>

-----------------------------------------------------------------------------
Branches == Networks \ {Home}

Empty ==
    /\ challenges = {} /\ invites = {} /\ held = {} /\ grants = {} /\ moves = 0
    /\ response = [n \in Networks |-> {}]
    /\ devices = [n \in Networks |-> "none"]

\* A new appliance prints a bootstrap token when it starts.
InitNew ==
    /\ network = [n \in Networks |-> NoNetwork]
    /\ users = [n \in Networks |-> [p \in People |-> "none"]]
    /\ owner = NoOwner /\ projections = {} /\ codes = {} /\ sessions = {}
    /\ token = 1 /\ issued = 1
    /\ account = [e \in Accounts |-> NoAccount]

SignedIn(i, n, p) == [id |-> i, network |-> n, person |-> p, role |-> "admin"]

\* An appliance from before there was an owner: two administrators, and
\* networks with one administrator each.
InitLegacy ==
    /\ network = [n \in Networks |-> [Configured EXCEPT !.domain = FALSE]]
    /\ users = [n \in Networks |-> [p \in People |->
                  IF n = Home THEN IF p \in {Founder, Colleague} THEN "admin" ELSE "none"
                  ELSE IF p \in {Founder, Colleague} THEN "none" ELSE "admin"]]
    /\ \A n \in Networks : \E p \in People : users[n][p] = "admin"
    /\ owner = NoOwner /\ projections = {} /\ token = 0 /\ issued = 2
    /\ sessions = {SignedIn(1, Home, Founder), SignedIn(2, Home, Colleague)}
    /\ codes = {<<Home, Founder>>}
    /\ account = [e \in Accounts |-> NoAccount]

\* The owner has made a network with an administrator of its own, and an
\* account whose user has chosen a password of his own or has not.
InitOwned ==
    /\ network = [n \in Networks |-> [Configured EXCEPT !.domain = n # Home]]
    /\ users = [n \in Networks |-> [p \in People |->
                  IF p = Founder \/ (p = Colleague /\ n # Home) THEN "admin" ELSE "none"]]
    /\ owner = [home |-> Home, person |-> Founder]
    /\ projections = Branches \X {Founder}
    /\ token = 0 /\ issued = 2
    /\ \E n \in Branches :
          /\ sessions = {SignedIn(1, Home, Founder), SignedIn(2, n, Colleague)}
          /\ \E ready \in BOOLEAN : account = [e \in Accounts |->
                [NoAccount EXCEPT !.network = n, !.status = "active", !.setup = ready,
                                  !.initial = ~ready]]
    /\ codes = {<<Home, Founder>>}

Init == Empty /\ (InitNew \/ InitLegacy \/ InitOwned)

SignIn ==
    \/ IssueBootstrapToken \/ RevokeBootstrapTokens
    \/ \E p \in People : BeginBootstrap(p)
    \/ \E c \in challenges : CompleteBootstrap(c) \/ CompleteAuthentication(c)
    \/ \E n \in Networks, p \in People : BeginAuthentication(n, p) \/ RecoverSession(n, p)
    \/ \E s \in sessions, n \in Networks : Authenticate(s, n)
    \/ \E i \in invites : BeginInvite(i) \/ CompleteInvite(i) \/ ExpireInvite(i)
    \/ \E s \in sessions : ExpireSession(s)
    \/ \E n \in Networks : SettleResponse(n)
    \/ \E n \in Networks, p \in People : Designate(n, p)

Serve(h) ==
    \/ Answer(h) \/ RevokeSession(h) \/ BeginPasskeyRegistration(h)
    \/ \E c \in challenges : CompletePasskeyRegistration(h, c)
    \/ \E p \in People, role \in Roles : IssueInvite(h, p, role)
    \/ \E i \in invites : RevokeInvite(h, i)
    \/ \E p \in People, state \in Roles \cup {"disabled"} : UpdateMember(h, p, state)
    \/ \E n \in Networks : CreateNetwork(h, n) \/ AdoptNamespace(h, n)
    \/ \E n \in Networks, status \in {"active", "suspended"} : UpdateNetwork(h, n, status)
    \/ \E n \in Networks, enabled \in BOOLEAN : ConfigureRoute(h, n, enabled)
    \/ ProposeResponse(h) \/ ApproveResponse(h)
    \/ CheckGrant(h) \/ InsertGrant(h) \/ RevokeDevice(h)
    \/ \E e \in Accounts : CreateAccount(h, e) \/ ResetPassword(h, e)
    \/ \E e \in Accounts, status \in {"active", "disabled"} : UpdateAccount(h, e, status)

Endpoint(e) ==
    \/ VerifyLogin(e) \/ CompleteLogin(e) \/ Logout(e) \/ ChangePassword(e)
    \/ RequestReset(e) \/ RequestEnrollmentGrant(e) \/ ClaimAccountGrant(e)
    \/ ExpireEndpointSession(e) \/ ExpireInitialPassword(e)

Next ==
    \/ SignIn
    \/ \E h \in held : Serve(h)
    \/ \E e \in Accounts : Endpoint(e)
    \/ \E g \in grants : ClaimGrant(g)

Spec == Init /\ [][Next]_vars

-----------------------------------------------------------------------------
(* Properties *)

\* Every table holds rows of its type; the owner has no second user in the
\* network that is his home (owner_memberships).
TypeOK ==
    /\ network \in [Networks -> [status : {"none", "active", "suspended"},
                                 domain : BOOLEAN, route : BOOLEAN]]
    /\ users \in [Networks -> [People -> Roles \cup {"none", "disabled"}]]
    /\ owner = NoOwner \/ owner \in [home : Networks, person : People]
    /\ projections \subseteq (Networks \ {owner.home}) \X People
    /\ codes \subseteq (Networks \X People) \ projections
    /\ {token, issued} \subseteq 0..MaxSessions
    /\ sessions \subseteq [id : 1..issued, network : Networks, person : People, role : Roles]
    /\ invites \subseteq [network : Networks, person : People, role : Roles,
                          issuer : People, begun : BOOLEAN]
    /\ response \in [Networks -> SUBSET People]
    /\ grants \subseteq [network : Networks, by : People]
    /\ devices \in [Networks -> {"none", "active", "revoked"}]
    /\ \A e \in Accounts : /\ account[e].network \in Networks \cup {"none"}
                           /\ {account[e].session, account[e].grant} \subseteq 0..account[e].version

\* Nobody is locked out, whatever two administrators do to each other at the
\* same time: a network that is in use has an administrator who can sign in
\* (or the owner), and the owner's own identities stay (update_member,
\* update_network, _designate_locked, complete_bootstrap).
LockoutFree ==
    /\ \A n \in Networks : network[n].status = "active" => \E p \in People : ActiveAdmin(n, p)
    /\ owner # NoOwner =>
          /\ IsOwner(owner.home, owner.person)
          /\ \A n \in Networks \ {owner.home} : network[n].status # "none" =>
                Projection(n, owner.person) /\ users[n][owner.person] = "admin"

\* A person who was disabled or changed, and a network that was paused, leave
\* nothing behind that works: no session, no open invitation, no undelivered
\* action, no endpoint session and no enrollment grant of an account
\* (update_member, update_network, update_account, _replace_password against
\* the sign-ins and requests that they race with).
AuthorityFresh ==
    /\ \A s \in sessions : Active(s.network, s.person) /\ users[s.network][s.person] = s.role
    /\ \A i \in invites : ActiveAdmin(i.network, i.issuer)
    /\ \A n \in Networks : \A p \in response[n] : Active(n, p)
    /\ \A e \in Accounts : \A held_version \in {account[e].session, account[e].grant} \ {0} :
          /\ held_version = account[e].version
          /\ account[e].status = "active" /\ NetworkActive(e)

=============================================================================
