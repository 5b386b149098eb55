----------------------------- MODULE Onboarding -----------------------------
(***************************************************************************)
(* How people and churches come into ServeFlow: registration, sessions,     *)
(* inviting a volunteer and adding one to a ministry.                       *)
(*                                                                         *)
(* Registration is five writes, each of its own; an invitation is a user    *)
(* row written at once and a transaction for the rest.  Every find and the  *)
(* insert it justifies are separate statements.  Only users.email and       *)
(* volunteer_profiles.user_id are unique: the constraint on memberships     *)
(* names columns that are null in every row, and nulls are never equal.     *)
(*                                                                         *)
(* A user is named by the address, a church, a membership and a refresh     *)
(* token by the request that inserts them, a volunteer profile by its user. *)
(* No handler deletes any of these rows or changes any but the tokens.      *)
(***************************************************************************)
EXTENDS FiniteSets

CONSTANTS
    Email,          \* addresses
    Ministry,       \* ids for ministries; bounds the model
    Request,        \* the calls; bounds the model
    NoMinistry      \* ministry_id is null

ASSUME OnboardingAssumption == NoMinistry \notin Ministry

VARIABLES
    users,          \* table users: whether password_hash is set
    churches,       \* table churches
    campuses,       \* churches with their "Main Campus"
    ministries,     \* table ministries: the church of each
    profiles,       \* table volunteer_profiles: the church of each, by user
    memberships,    \* table memberships
    tokens,         \* table refresh_tokens: whether revoked_at is null
    pc,             \* where each request is
    loc,            \* each request's parameters and local variables
    met             \* history: requests that looked a membership or a token up
                    \* while another was about to insert or revoke it

tables == <<users, churches, campuses, ministries, profiles, memberships, tokens>>
vars == <<users, churches, campuses, ministries, profiles, memberships, tokens, pc, loc, met>>

-----------------------------------------------------------------------------
(* Types. *)

Role == {"CHURCH_ADMIN", "VOLUNTEER"}   \* the roles that the code inserts

MembershipRow == [user : Email, church : Request,
                  ministry : Ministry \cup {NoMinistry}, role : Role]

Call == [op : {"register", "login", "refresh", "invite", "assign"},
         user : Email,
         church : Request,          \* for a registration, the id of its church
         ministry : Ministry \cup {NoMinistry},
         token : Request,           \* the refresh token presented
         found : SUBSET {"profile", "membership"},
         saw : SUBSET Request]      \* the churches of the session's memberships

Registering == {"email", "user", "church", "campus", "admin"}
SigningIn == {"verify", "valid", "revoke", "session", "token"}
Inviting == {"find", "invited", "lookup", "profile", "members", "commit"}
Assigning == {"ministry", "volunteer", "select", "store"}
InFlight == Registering \cup SigningIn \cup Inviting \cup Assigning

TypeOK ==
    /\ DOMAIN users \subseteq Email
    /\ \A e \in DOMAIN users : users[e] \in BOOLEAN
    /\ churches \subseteq Request
    /\ campuses \subseteq churches
    /\ DOMAIN ministries \subseteq Ministry
    /\ \A m \in DOMAIN ministries : ministries[m] \in churches
    /\ DOMAIN profiles \subseteq DOMAIN users
    /\ \A e \in DOMAIN profiles : profiles[e] \in churches
    /\ DOMAIN memberships \subseteq Request
    /\ \A k \in DOMAIN memberships : memberships[k] \in MembershipRow
    /\ DOMAIN tokens \subseteq DOMAIN loc
    /\ \A t \in DOMAIN tokens : tokens[t] \in BOOLEAN
    /\ pc \in [Request -> {"idle", "done", "failed"} \cup InFlight]
    /\ DOMAIN loc = {p \in Request : pc[p] # "idle"}
    /\ \A p \in DOMAIN loc : loc[p] \in Call
    /\ met \in SUBSET Request

-----------------------------------------------------------------------------
(* Helpers. *)

Inserted(t, id, row) == [x \in DOMAIN t \cup {id} |-> IF x = id THEN row ELSE t[x]]

Goto(p, label) == pc' = [pc EXCEPT ![p] = label]

Member(e, c, m, role) == [user |-> e, church |-> c, ministry |-> m, role |-> role]

\* The rows of a membership.
Rows(row) == {k \in DOMAIN memberships : memberships[k] = row}

Admins(c) == {k \in DOMAIN memberships :
                memberships[k].church = c /\ memberships[k].role = "CHURCH_ADMIN"}

\* findActiveByUserIdUnscoped: the churches the user belongs to.
ChurchesOf(e) == {memberships[k].church : k \in {j \in DOMAIN memberships : memberships[j].user = e}}

\* Users who were given an access token.
SignedIn == {loc[p].user : p \in {q \in DOMAIN loc :
                pc[q] = "done" /\ loc[q].op \in {"register", "login"}}}

Permitted_Bug(c) == c \in churches      \* capability without scope

\* PermissionGuard for writing the volunteers and ministries of church c: of the
\* roles that are ever inserted, CHURCH_ADMIN is allowed to by default, and the
\* code writes no override.
Permitted(c) ==
    \E k \in Admins(c) : memberships[k].user \in SignedIn

\* Transactions that have inserted a profile of user e and not committed it.
Inserting(e) == {p \in DOMAIN loc :
                    /\ pc[p] \in {"members", "commit"}
                    /\ loc[p].user = e
                    /\ "profile" \notin loc[p].found}

-----------------------------------------------------------------------------
(* Registration, login and the session they end in. *)

Started(p, call, label) ==
    /\ pc[p] = "idle"
    /\ loc' = Inserted(loc, p, call)
    /\ Goto(p, label)
    /\ UNCHANGED tables /\ UNCHANGED met

Parameters(op, e, c, m, t) ==
    [op |-> op, user |-> e, church |-> c, ministry |-> m, token |-> t,
     found |-> {}, saw |-> {}]

\* POST auth/register.
Register(p, e) == Started(p, Parameters("register", e, p, NoMinistry, p), "email")

\* registerUser: no row has the address yet, or 409.
FindEmail(p) ==
    /\ pc[p] = "email"
    /\ Goto(p, IF loc[p].user \in DOMAIN users THEN "failed" ELSE "user")
    /\ UNCHANGED tables /\ UNCHANGED <<loc, met>>

\* registerUser, after the hash: the insert, unless the address was taken since.
InsertUser(p) ==
    /\ pc[p] = "user"
    /\ IF loc[p].user \in DOMAIN users
       THEN Goto(p, "failed") /\ UNCHANGED users
       ELSE Goto(p, "church") /\ users' = Inserted(users, loc[p].user, TRUE)
    /\ UNCHANGED <<churches, campuses, ministries, profiles, memberships, tokens, loc, met>>

\* churches.create.  A slug that exists already ends as Abort does.
InsertChurch(p) ==
    /\ pc[p] = "church"
    /\ churches' = churches \cup {p}
    /\ Goto(p, "campus")
    /\ UNCHANGED <<users, campuses, ministries, profiles, memberships, tokens, loc, met>>

\* campuses.create
InsertCampus(p) ==
    /\ pc[p] = "campus"
    /\ campuses' = campuses \cup {p}
    /\ Goto(p, "admin")
    /\ UNCHANGED <<users, churches, ministries, profiles, memberships, tokens, loc, met>>

AdminRow(p) == Member(loc[p].user, p, NoMinistry, "CHURCH_ADMIN")

\* memberships.createChurchAdmin.  Nothing conflicts.
InsertAdmin(p) ==
    /\ pc[p] = "admin"
    /\ memberships' = Inserted(memberships, p, AdminRow(p))
    /\ Goto(p, "session")
    /\ UNCHANGED <<users, churches, campuses, ministries, profiles, tokens, loc, met>>

\* POST auth/login.
Login(p, e) == Started(p, Parameters("login", e, p, NoMinistry, p), "verify")

Verified_Bug(e) == e \in DOMAIN users   \* a null password_hash is not rejected

\* verifyCredentials rejects a user without a password.
Verified(e) == e \in DOMAIN users /\ users[e]

\* verifyCredentials: 401 for an unknown user, a wrong password or none at all.
Verify(p) ==
    /\ pc[p] = "verify"
    /\ \/ Verified(loc[p].user) /\ Goto(p, "session")
       \/ Goto(p, "failed")
    /\ UNCHANGED tables /\ UNCHANGED <<loc, met>>

\* issueSession: loadAuthenticatedUser.
LoadMemberships(p) ==
    /\ pc[p] = "session"
    /\ loc' = [loc EXCEPT ![p].saw = ChurchesOf(loc[p].user)]
    /\ Goto(p, "token")
    /\ UNCHANGED tables /\ UNCHANGED met

\* issueSession: refreshTokens.create, and the answer.
InsertToken(p) ==
    /\ pc[p] = "token"
    /\ tokens' = Inserted(tokens, p, TRUE)
    /\ Goto(p, "done")
    /\ UNCHANGED <<users, churches, campuses, ministries, profiles, memberships, loc, met>>

\* POST auth/refresh, with a token that was issued.
Refresh(p, t) ==
    /\ t \in DOMAIN tokens
    /\ Started(p, Parameters("refresh", loc[t].user, p, NoMinistry, t), "valid")

\* refresh: findValid, or 401 (also if the token has expired).
FindValid(p) ==
    LET t == loc[p].token
        rivals == {q \in DOMAIN loc : pc[q] = "revoke" /\ loc[q].token = t}
    IN  /\ pc[p] = "valid"
        /\ \/ tokens[t] /\ Goto(p, "revoke")
           \/ Goto(p, "failed")
        /\ met' = IF rivals = {} THEN met ELSE met \cup {p}
        /\ UNCHANGED tables /\ UNCHANGED loc

Revoked_Bug(t) == tokens        \* the old token stays good

\* revoke: update refresh_tokens, revoked or not.
Revoked(t) == [tokens EXCEPT ![t] = FALSE]

\* refresh: revoke the token; a new session is issued next.
Revoke(p) ==
    /\ pc[p] = "revoke"
    /\ tokens' = Revoked(loc[p].token)
    /\ Goto(p, "session")
    /\ UNCHANGED <<users, churches, campuses, ministries, profiles, memberships, loc, met>>

\* POST auth/logout.
Logout(t) ==
    /\ t \in DOMAIN tokens
    /\ tokens' = Revoked(t)
    /\ UNCHANGED <<users, churches, campuses, ministries, profiles, memberships>>
    /\ UNCHANGED <<pc, loc, met>>

-----------------------------------------------------------------------------
(* Ministries and volunteers. *)

\* POST ministries.
CreateMinistry(c, m) ==
    /\ Permitted(c)
    /\ m \notin DOMAIN ministries
    /\ ministries' = Inserted(ministries, m, c)
    /\ UNCHANGED <<users, churches, campuses, profiles, memberships, tokens, pc, loc, met>>

\* POST volunteers.
Invite(p, e, c) ==
    /\ Permitted(c)
    /\ Started(p, Parameters("invite", e, c, NoMinistry, p), "find")

FindUser_Bug(p) ==              \* there is one
    /\ pc[p] = "find"
    /\ Goto(p, "lookup")
    /\ UNCHANGED tables /\ UNCHANGED <<loc, met>>

\* inviteVolunteer: the user by address.
FindUser(p) ==
    /\ pc[p] = "find"
    /\ Goto(p, IF loc[p].user \in DOMAIN users THEN "lookup" ELSE "invited")
    /\ UNCHANGED tables /\ UNCHANGED <<loc, met>>

\* inviteVolunteer: a user without a password, unless the address was taken since.
InsertInvited(p) ==
    /\ pc[p] = "invited"
    /\ IF loc[p].user \in DOMAIN users
       THEN Goto(p, "failed") /\ UNCHANGED users
       ELSE Goto(p, "lookup") /\ users' = Inserted(users, loc[p].user, FALSE)
    /\ UNCHANGED <<churches, campuses, ministries, profiles, memberships, tokens, loc, met>>

HasProfile(p) == loc[p].user \in DOMAIN profiles /\ profiles[loc[p].user] = loc[p].church

\* The transaction: existingProfile.
FindProfile(p) ==
    /\ pc[p] = "lookup"
    /\ loc' = [loc EXCEPT ![p].found = IF HasProfile(p) THEN {"profile"} ELSE {}]
    /\ Goto(p, IF HasProfile(p) THEN "members" ELSE "profile")
    /\ UNCHANGED tables /\ UNCHANGED met

InsertProfile_Bug(p) ==         \* the transaction goes on whoever else inserts
    /\ pc[p] = "profile"
    /\ Goto(p, "members")
    /\ UNCHANGED tables /\ UNCHANGED <<loc, met>>

\* Inserting it.  A user has one profile in any church: the statement fails if
\* there is one, and waits for a transaction that is about to commit one.
InsertProfile(p) ==
    /\ pc[p] = "profile"
    /\ Inserting(loc[p].user) = {}
    /\ Goto(p, IF loc[p].user \in DOMAIN profiles THEN "failed" ELSE "members")
    /\ UNCHANGED tables /\ UNCHANGED <<loc, met>>

VolunteerRow(p) == Member(loc[p].user, loc[p].church, loc[p].ministry, "VOLUNTEER")

\* existingMembership
FindMembership(p) ==
    /\ pc[p] = "members"
    /\ loc' = [loc EXCEPT ![p].found =
                  @ \cup (IF Rows(VolunteerRow(p)) # {} THEN {"membership"} ELSE {})]
    /\ Goto(p, "commit")
    /\ UNCHANGED tables /\ UNCHANGED met

\* Both rows become visible.
Commit(p) ==
    /\ pc[p] = "commit"
    /\ profiles' = Inserted(profiles, loc[p].user, loc[p].church)
    /\ memberships' = IF "membership" \in loc[p].found THEN memberships
                      ELSE Inserted(memberships, p, VolunteerRow(p))
    /\ Goto(p, "done")
    /\ UNCHANGED <<users, churches, campuses, ministries, tokens, loc, met>>

\* POST ministries/:ministryId/volunteers/:volunteerId.
Assign(p, e, c, m) ==
    /\ Permitted(c)
    /\ Started(p, Parameters("assign", e, c, m, p), "ministry")

\* addVolunteer: the ministry, or 404.
FindMinistry(p) ==
    LET m == loc[p].ministry
        here == m \in DOMAIN ministries /\ ministries[m] = loc[p].church
    IN  /\ pc[p] = "ministry"
        /\ Goto(p, IF here THEN "volunteer" ELSE "failed")
        /\ UNCHANGED tables /\ UNCHANGED <<loc, met>>

\* addVolunteer: the volunteer, or 404.
FindVolunteer(p) ==
    /\ pc[p] = "volunteer"
    /\ Goto(p, IF HasProfile(p) THEN "select" ELSE "failed")
    /\ UNCHANGED tables /\ UNCHANGED <<loc, met>>

SelectMembership_Bug(p) ==      \* the existing row is not looked for
    /\ pc[p] = "select"
    /\ Goto(p, "store")
    /\ met' = IF \E q \in DOMAIN loc : pc[q] = "store" /\ VolunteerRow(q) = VolunteerRow(p)
              THEN met \cup {p} ELSE met
    /\ UNCHANGED tables /\ UNCHANGED loc

\* assignVolunteerToMinistry: the existing row, if there is one, is the answer.
SelectMembership(p) ==
    /\ pc[p] = "select"
    /\ Goto(p, IF Rows(VolunteerRow(p)) # {} THEN "done" ELSE "store")
    /\ met' = IF \E q \in DOMAIN loc : pc[q] = "store" /\ VolunteerRow(q) = VolunteerRow(p)
              THEN met \cup {p} ELSE met
    /\ UNCHANGED tables /\ UNCHANGED loc

\* assignVolunteerToMinistry: the insert.  The columns are not all set: no conflict.
StoreMembership(p) ==
    /\ pc[p] = "store"
    /\ memberships' = Inserted(memberships, p, VolunteerRow(p))
    /\ Goto(p, "done")
    /\ UNCHANGED <<users, churches, campuses, ministries, profiles, tokens, loc, met>>

\* A statement fails or the process stops; a transaction is rolled back.
Abort(p) ==
    /\ pc[p] \in InFlight
    /\ Goto(p, "failed")
    /\ UNCHANGED tables /\ UNCHANGED <<loc, met>>

-----------------------------------------------------------------------------
Init ==
    /\ users = [x \in {} |-> x]
    /\ churches = {}
    /\ campuses = {}
    /\ ministries = [x \in {} |-> x]
    /\ profiles = [x \in {} |-> x]
    /\ memberships = [x \in {} |-> x]
    /\ tokens = [x \in {} |-> x]
    /\ pc = [p \in Request |-> "idle"]
    /\ loc = [x \in {} |-> x]
    /\ met = {}

Arrive(p) ==
    \/ \E e \in Email :
        \/ Register(p, e)
        \/ Login(p, e)
        \/ \E c \in churches :
            \/ Invite(p, e, c)
            \/ \E m \in Ministry : Assign(p, e, c, m)
    \/ \E t \in Request : Refresh(p, t)

Step(p) ==
    \/ FindEmail(p)
    \/ InsertUser(p)
    \/ InsertChurch(p)
    \/ InsertCampus(p)
    \/ InsertAdmin(p)
    \/ Verify(p)
    \/ LoadMemberships(p)
    \/ InsertToken(p)
    \/ FindValid(p)
    \/ Revoke(p)
    \/ FindUser(p)
    \/ InsertInvited(p)
    \/ FindProfile(p)
    \/ InsertProfile(p)
    \/ FindMembership(p)
    \/ Commit(p)
    \/ FindMinistry(p)
    \/ FindVolunteer(p)
    \/ SelectMembership(p)
    \/ StoreMembership(p)

Next ==
    \/ \E p \in Request : Arrive(p) \/ Step(p) \/ Abort(p)
    \/ \E c \in churches, m \in Ministry : CreateMinistry(c, m)
    \/ \E t \in Request : Logout(t)

Spec == Init /\ [][Next]_vars

-----------------------------------------------------------------------------
(* Properties. *)

\* Nobody works in a church that is not set up: until a registration has stored
\* its administrator a church has no ministry, no volunteer and no invitation
\* under way, whatever became of the registration; from then on it has its
\* campus and one administrator, who administers no other church.
ChurchIsWhole ==
    \A c \in churches :
        /\ Admins(c) = {} =>
            /\ c \notin ChurchesOf(loc[c].user)
            /\ \A m \in DOMAIN ministries : ministries[m] # c
            /\ \A e \in DOMAIN profiles : profiles[e] # c
            /\ \A p \in DOMAIN loc : loc[p].op \in {"invite", "assign"} => loc[p].church # c
        /\ \A k \in Admins(c) :
            /\ c \in campuses
            /\ users[memberships[k].user]
            /\ \A d \in churches :
                \A j \in Admins(d) : memberships[j].user = memberships[k].user => j = k

\* However invitations interleave, a volunteer profile has one church-wide
\* VOLUNTEER membership in its church, and there is none without a profile, nor
\* a membership of a ministry: only volunteer_profiles.user_id serialises them.
VolunteersBelong ==
    /\ \A e \in DOMAIN profiles :
        Cardinality(Rows(Member(e, profiles[e], NoMinistry, "VOLUNTEER"))) = 1
    /\ \A k \in DOMAIN memberships :
        LET row == memberships[k]
        IN  row.role = "VOLUNTEER" =>
                /\ row.user \in DOMAIN profiles
                /\ profiles[row.user] = row.church
                /\ row.ministry # NoMinistry => ministries[row.ministry] = row.church

\* A volunteer is in a ministry twice only if one call looked for the membership
\* while another was about to insert it.
MinistryTwiceNeedsOverlap ==
    \A k, j \in DOMAIN memberships :
        k # j /\ memberships[k] = memberships[j] => k \in met \/ j \in met

\* A refresh token is exchanged twice only if one call validated it while another
\* was about to revoke it.
RefreshTwiceNeedsOverlap ==
    \A p, q \in DOMAIN loc :
        /\ p # q
        /\ loc[p].op = "refresh" /\ loc[q].op = "refresh"
        /\ loc[p].token = loc[q].token
        /\ {pc[p], pc[q]} \subseteq {"session", "token", "done"}
        => p \in met \/ q \in met

\* A session that names no church (the pages then show nothing) is given only to
\* a user whose registration is still under way or was cut short.
EmptySessionNeedsInterruption ==
    [][\A p \in Request :
        pc[p] = "session" /\ pc'[p] = "token" /\ loc'[p].saw = {} =>
            \E q \in DOMAIN loc :
                /\ loc[q].op = "register"
                /\ loc[q].user = loc[p].user
                /\ pc[q] \in {"church", "campus", "admin", "failed"}
                /\ Admins(q) = {}]_vars
=============================================================================
