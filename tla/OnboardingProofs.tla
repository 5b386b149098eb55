-------------------------- MODULE OnboardingProofs --------------------------
(***************************************************************************)
(* Proofs about Onboarding, for any addresses, ministries and requests.     *)
(***************************************************************************)
EXTENDS Onboarding, FiniteSetTheorems, TLAPS

Answered == {"session", "token", "done", "failed"}

\* A registration that has inserted its user and not failed before its admin row.
Owner(p) ==
    /\ loc[p].op = "register"
    /\ pc[p] \in {"church", "campus", "admin"} \/ p \in DOMAIN memberships

\* What a call carries.
ParametersFit(p) ==
    /\ loc[p].op = "refresh" =>
        loc[p].token \in DOMAIN tokens /\ loc[loc[p].token].user = loc[p].user
    /\ loc[p].op \in {"invite", "assign"} => Admins(loc[p].church) # {}
    /\ loc[p].op = "invite" => loc[p].ministry = NoMinistry
    /\ loc[p].op = "assign" => loc[p].ministry \in Ministry

\* What a call has done when it is where it is.
CallFits(p) ==
    /\ pc[p] \in Registering => loc[p].op = "register"
    /\ pc[p] = "verify" => loc[p].op = "login"
    /\ pc[p] \in {"valid", "revoke"} => loc[p].op = "refresh"
    /\ pc[p] \in Inviting => loc[p].op = "invite"
    /\ pc[p] \in Assigning => loc[p].op = "assign"
    /\ pc[p] \in {"verify", "session", "token"} => loc[p].op \in {"register", "login", "refresh"}
    /\ pc[p] \in {"lookup", "profile", "members", "commit"} => loc[p].user \in DOMAIN users
    /\ Owner(p) \/ pc[p] \in {"session", "token"} =>
        loc[p].user \in DOMAIN users /\ users[loc[p].user]
    /\ pc[p] \in {"campus", "admin"} => p \in churches
    /\ pc[p] = "admin" => p \in campuses
    /\ pc[p] \in {"volunteer", "select", "store"} =>
        loc[p].ministry \in DOMAIN ministries /\ ministries[loc[p].ministry] = loc[p].church
    /\ pc[p] \in {"select", "store"} => HasProfile(p)

\* A membership is the row of the call it is named after.
RowFits(k) ==
    /\ k \in DOMAIN loc /\ pc[k] \in Answered
    /\ \/ loc[k].op = "register" /\ memberships[k] = AdminRow(k) /\ k \in campuses
       \/ /\ loc[k].op \in {"invite", "assign"} /\ pc[k] = "done"
          /\ memberships[k] = VolunteerRow(k)
          /\ loc[k].op = "assign" =>
                loc[k].ministry \in DOMAIN ministries /\ ministries[loc[k].ministry] = loc[k].church
          /\ HasProfile(k)

TokenFits(t) == pc[t] = "done" /\ loc[t].user \in DOMAIN users /\ users[loc[t].user]

ChurchFits(c) ==
    /\ c \in DOMAIN loc /\ loc[c].op = "register" /\ pc[c] \in {"campus", "admin"} \cup Answered

\* Whoever has a password has a registration that stored its admin row, is on
\* the way there or was cut short.
Registered(e) ==
    \E q \in DOMAIN loc :
        /\ loc[q].op = "register" /\ loc[q].user = e
        /\ Owner(q) \/ (pc[q] = "failed" /\ q \notin DOMAIN memberships)

\* The profile that an invitation is inserting.
InvitationFits(p) ==
    /\ pc[p] = "profile" => loc[p].found = {}
    /\ pc[p] = "members" => "membership" \notin loc[p].found
    /\ pc[p] \in {"members", "commit"} =>
        IF "profile" \in loc[p].found
        THEN HasProfile(p)
        ELSE /\ loc[p].user \notin DOMAIN profiles
             /\ Inserting(loc[p].user) \subseteq {p}
    /\ pc[p] = "commit" => ("membership" \in loc[p].found <=> "profile" \in loc[p].found)

ProfileFits(e) ==
    /\ e \in DOMAIN users
    /\ Admins(profiles[e]) # {}
    /\ \E k : Rows(Member(e, profiles[e], NoMinistry, "VOLUNTEER")) = {k}

\* Who has found no membership of a ministry, and who has inserted one since.
StoreFits(p) ==
    pc[p] = "store" =>
        /\ \A k \in Rows(VolunteerRow(p)) : p \in met \/ k \in met
        /\ \A q \in DOMAIN loc :
            q # p /\ pc[q] = "store" /\ VolunteerRow(q) = VolunteerRow(p) => p \in met \/ q \in met

\* Who has found a token valid, and who has revoked it since.
Exchanging(p) == loc[p].op = "refresh" /\ pc[p] \in {"revoke", "session", "token", "done"}
RefreshFits(p) ==
    Exchanging(p) =>
        /\ pc[p] # "revoke" => ~tokens[loc[p].token]
        /\ \A q \in DOMAIN loc :
            q # p /\ Exchanging(q) /\ loc[q].token = loc[p].token => p \in met \/ q \in met

IInv ==
    /\ TypeOK
    /\ \A p \in DOMAIN loc : ParametersFit(p)
    /\ \A p \in DOMAIN loc : CallFits(p)
    /\ \A p, q \in DOMAIN loc : Owner(p) /\ Owner(q) /\ loc[p].user = loc[q].user => p = q
    /\ \A k \in DOMAIN memberships : RowFits(k)
    /\ \A t \in DOMAIN tokens : TokenFits(t)
    /\ \A c \in churches : ChurchFits(c)
    /\ \A e \in DOMAIN users : users[e] => Registered(e)
    /\ \A m \in DOMAIN ministries : Admins(ministries[m]) # {}
    /\ \A p \in DOMAIN loc : InvitationFits(p)
    /\ \A e \in DOMAIN profiles : ProfileFits(e)
    /\ MinistryTwiceNeedsOverlap
    /\ \A p \in DOMAIN loc : StoreFits(p)
    /\ \A p \in DOMAIN loc : RefreshFits(p)

-----------------------------------------------------------------------------
(* What steps leave alone. *)

Labels == {"done", "failed"} \cup InFlight

\* Call p goes on to l; other calls do not move.
Moves(p, l) == pc[p] # "idle" /\ l \in Labels /\ pc' = [pc EXCEPT ![p] = l]

Extends(t, u) == DOMAIN t \subseteq DOMAIN u /\ \A x \in DOMAIN t : u[x] = t[x]

\* Rows stay, but for the tokens; so do the parameters of a call.
Grown ==
    /\ Extends(users, users') /\ Extends(ministries, ministries')
    /\ Extends(profiles, profiles') /\ Extends(memberships, memberships')
    /\ churches \subseteq churches' /\ campuses \subseteq campuses' /\ met \subseteq met'
    /\ DOMAIN tokens \subseteq DOMAIN tokens'
    /\ \A t \in DOMAIN tokens : ~tokens[t] => ~tokens'[t]
    /\ DOMAIN loc \subseteq DOMAIN loc'
    /\ \A q \in DOMAIN loc :
        /\ loc'[q].op = loc[q].op /\ loc'[q].user = loc[q].user
        /\ loc'[q].church = loc[q].church /\ loc'[q].ministry = loc[q].ministry
        /\ loc'[q].token = loc[q].token

\* Only call p moves.
Alone(p) ==
    \A q \in Request \ {p} :
        /\ pc'[q] = pc[q]
        /\ q \in DOMAIN loc' <=> q \in DOMAIN loc
        /\ q \in DOMAIN loc => loc'[q] = loc[q]

LEMMA InitInv == Init => IInv
<1>. SUFFICES ASSUME Init PROVE IInv
  OBVIOUS
<1>1. TypeOK
  BY DEF Init, TypeOK
<1>. QED
  BY <1>1 DEF Init, IInv, MinistryTwiceNeedsOverlap

LEMMA StartedType ==
    ASSUME TypeOK, NEW p \in Request, NEW call \in Call, NEW l \in InFlight, Started(p, call, l)
    PROVE  TypeOK' /\ Grown /\ Alone(p)
<1>1. /\ pc[p] = "idle" /\ loc' = Inserted(loc, p, call) /\ pc' = [pc EXCEPT ![p] = l]
      /\ UNCHANGED tables /\ UNCHANGED met
  BY DEF Started, Goto
<1>2. /\ DOMAIN loc' = DOMAIN loc \cup {p}
      /\ \A q \in DOMAIN loc' : loc'[q] = IF q = p THEN call ELSE loc[q]
  BY <1>1 DEF Inserted
<1>3. p \notin DOMAIN loc /\ l # "idle"
  BY <1>1 DEF TypeOK, InFlight, Registering, SigningIn, Inviting, Assigning
<1>4. TypeOK'
  <2>1. /\ pc' \in [Request -> {"idle", "done", "failed"} \cup InFlight]
        /\ \A q \in Request : pc'[q] = IF q = p THEN l ELSE pc[q]
    BY <1>1 DEF TypeOK
  <2>2. DOMAIN loc' = {q \in Request : pc'[q] # "idle"}
    BY <1>2, <1>3, <2>1 DEF TypeOK
  <2>3. \A q \in DOMAIN loc' : loc'[q] \in Call
    BY <1>2 DEF TypeOK
  <2>. QED
    BY <1>1, <2>1, <2>2, <2>3 DEF TypeOK, tables
<1>5. Grown
  BY <1>1, <1>2, <1>3 DEF Grown, Extends, tables, TypeOK
<1>6. Alone(p)
  BY <1>1, <1>2 DEF Alone, TypeOK
<1>. QED
  BY <1>4, <1>5, <1>6

\* A step of a handler that only moves on.
LEMMA MoveType ==
    ASSUME TypeOK, NEW p \in Request, NEW l, Moves(p, l),
           UNCHANGED tables, UNCHANGED loc, met' \in {met, met \cup {p}}
    PROVE  TypeOK' /\ Grown /\ Alone(p)
<1>1. l # "idle" /\ pc' \in [Request -> {"idle", "done", "failed"} \cup InFlight]
  BY DEF Moves, Labels, TypeOK, InFlight, Registering, SigningIn, Inviting, Assigning
<1>2. DOMAIN loc' = {q \in Request : pc'[q] # "idle"}
  BY <1>1 DEF Moves, TypeOK
<1>3. TypeOK'
  BY <1>1, <1>2 DEF TypeOK, tables
<1>4. Grown
  BY DEF Grown, Extends, tables, TypeOK
<1>. QED
  BY <1>3, <1>4 DEF Alone, Moves, TypeOK

LEMMA ArriveType ==
    ASSUME TypeOK, NEW p \in Request, Arrive(p)
    PROVE  TypeOK' /\ Grown /\ Alone(p)
<1>. DEFINE op == {"register", "login", "refresh", "invite", "assign"}
<1>1. \A o \in op, e \in Email, c \in Request, m \in Ministry \cup {NoMinistry}, t \in Request :
        Parameters(o, e, c, m, t) \in Call
  BY DEF Parameters, Call
<1>2. {"email", "verify", "valid", "find", "ministry"} \subseteq InFlight
  BY DEF InFlight, Registering, SigningIn, Inviting, Assigning
<1>3. CASE \E e \in Email : Register(p, e) \/ Login(p, e)
  BY <1>1, <1>2, <1>3, StartedType DEF Register, Login
<1>4. CASE \E e \in Email, c \in churches : Invite(p, e, c)
  BY <1>1, <1>2, <1>4, StartedType DEF Invite, TypeOK
<1>5. CASE \E e \in Email, c \in churches, m \in Ministry : Assign(p, e, c, m)
  BY <1>1, <1>2, <1>5, StartedType DEF Assign, TypeOK
<1>6. CASE \E t \in Request : Refresh(p, t)
  <2>1. PICK t \in Request : Refresh(p, t)
    BY <1>6
  <2>2. loc[t].user \in Email
    BY <2>1 DEF Refresh, TypeOK, Call
  <2>. QED
    BY <1>1, <1>2, <2>1, <2>2, StartedType DEF Refresh
<1>. QED
  BY <1>3, <1>4, <1>5, <1>6 DEF Arrive

\* The calls that only move on, and where to.
LEMMA MovesFact ==
    ASSUME NEW p \in Request
    PROVE  /\ FindEmail(p) => Moves(p, "user") \/ Moves(p, "failed")
           /\ Verify(p) => Moves(p, "session") \/ Moves(p, "failed")
           /\ FindValid(p) => Moves(p, "revoke") \/ Moves(p, "failed")
           /\ FindUser(p) => Moves(p, "lookup") \/ Moves(p, "invited")
           /\ InsertProfile(p) => Moves(p, "members") \/ Moves(p, "failed")
           /\ FindMinistry(p) => Moves(p, "volunteer") \/ Moves(p, "failed")
           /\ FindVolunteer(p) => Moves(p, "select") \/ Moves(p, "failed")
           /\ SelectMembership(p) => Moves(p, "store") \/ Moves(p, "done")
           /\ Abort(p) => Moves(p, "failed")
           /\ InsertUser(p) => Moves(p, "church") \/ Moves(p, "failed")
           /\ InsertChurch(p) => Moves(p, "campus")
           /\ InsertCampus(p) => Moves(p, "admin")
           /\ InsertAdmin(p) => Moves(p, "session")
           /\ LoadMemberships(p) => Moves(p, "token")
           /\ InsertToken(p) => Moves(p, "done")
           /\ Revoke(p) => Moves(p, "session")
           /\ InsertInvited(p) => Moves(p, "lookup") \/ Moves(p, "failed")
           /\ FindProfile(p) => Moves(p, "members") \/ Moves(p, "profile")
           /\ FindMembership(p) => Moves(p, "commit")
           /\ Commit(p) => Moves(p, "done")
           /\ StoreMembership(p) => Moves(p, "done")
<1>. USE DEF Goto, Moves, Labels, InFlight, Registering, SigningIn, Inviting, Assigning
<1>1. /\ FindEmail(p) => Moves(p, "user") \/ Moves(p, "failed")
      /\ Verify(p) => Moves(p, "session") \/ Moves(p, "failed")
      /\ FindValid(p) => Moves(p, "revoke") \/ Moves(p, "failed")
      /\ FindUser(p) => Moves(p, "lookup") \/ Moves(p, "invited")
      /\ InsertProfile(p) => Moves(p, "members") \/ Moves(p, "failed")
  BY DEF FindEmail, Verify, FindValid, FindUser, InsertProfile
<1>2. /\ FindMinistry(p) => Moves(p, "volunteer") \/ Moves(p, "failed")
      /\ FindVolunteer(p) => Moves(p, "select") \/ Moves(p, "failed")
      /\ SelectMembership(p) => Moves(p, "store") \/ Moves(p, "done")
      /\ Abort(p) => Moves(p, "failed")
  BY DEF FindMinistry, FindVolunteer, SelectMembership, Abort
<1>3. /\ InsertUser(p) => Moves(p, "church") \/ Moves(p, "failed")
      /\ InsertChurch(p) => Moves(p, "campus")
      /\ InsertCampus(p) => Moves(p, "admin")
      /\ InsertAdmin(p) => Moves(p, "session")
      /\ LoadMemberships(p) => Moves(p, "token")
      /\ InsertToken(p) => Moves(p, "done")
  BY DEF InsertUser, InsertChurch, InsertCampus, InsertAdmin, LoadMemberships, InsertToken
<1>4. /\ Revoke(p) => Moves(p, "session")
      /\ InsertInvited(p) => Moves(p, "lookup") \/ Moves(p, "failed")
      /\ FindProfile(p) => Moves(p, "members") \/ Moves(p, "profile")
      /\ FindMembership(p) => Moves(p, "commit")
      /\ Commit(p) => Moves(p, "done")
      /\ StoreMembership(p) => Moves(p, "done")
  BY DEF Revoke, InsertInvited, FindProfile, FindMembership, Commit, StoreMembership
<1>. QED
  BY <1>1, <1>2, <1>3, <1>4, Zenon

LEMMA PcFact ==
    ASSUME TypeOK, NEW p \in Request, NEW l, Moves(p, l)
    PROVE  /\ p \in DOMAIN loc /\ loc[p] \in Call
           /\ pc' \in [Request -> {"idle", "done", "failed"} \cup InFlight]
           /\ {q \in Request : pc'[q] # "idle"} = DOMAIN loc
           /\ \A q \in Request : pc'[q] = IF q = p THEN l ELSE pc[q]
<1>1. l # "idle" /\ l \in {"done", "failed"} \cup InFlight
  BY DEF Moves, Labels, InFlight, Registering, SigningIn, Inviting, Assigning
<1>2. p \in DOMAIN loc /\ loc[p] \in Call
  BY DEF Moves, TypeOK
<1>3. /\ pc' \in [Request -> {"idle", "done", "failed"} \cup InFlight]
      /\ \A q \in Request : pc'[q] = IF q = p THEN l ELSE pc[q]
  BY <1>1 DEF Moves, TypeOK
<1>4. {q \in Request : pc'[q] # "idle"} = DOMAIN loc
  BY <1>1, <1>2, <1>3 DEF TypeOK
<1>. QED
  BY <1>2, <1>3, <1>4

LEMMA InsertUserType ==
    ASSUME IInv, NEW p \in Request, InsertUser(p) \/ InsertInvited(p)
    PROVE  TypeOK' /\ Grown /\ Alone(p)
<1>1. PICK l : Moves(p, l)
  BY MovesFact
<1>2. /\ UNCHANGED <<churches, campuses, ministries, profiles, memberships, tokens, loc, met>>
      /\ \/ UNCHANGED users
         \/ \E b \in BOOLEAN : /\ loc[p].user \notin DOMAIN users
                               /\ users' = Inserted(users, loc[p].user, b)
  BY DEF InsertUser, InsertInvited
<1>3. TypeOK /\ p \in DOMAIN loc /\ loc[p].user \in Email
  BY <1>1, PcFact DEF IInv, Call
<1>4. CASE UNCHANGED users
  BY <1>1, <1>2, <1>3, <1>4, MoveType DEF tables
<1>5. CASE \E b \in BOOLEAN : /\ loc[p].user \notin DOMAIN users
                              /\ users' = Inserted(users, loc[p].user, b)
  <2>1. PICK b \in BOOLEAN : /\ loc[p].user \notin DOMAIN users
                             /\ users' = Inserted(users, loc[p].user, b)
    BY <1>5
  <2>2. /\ DOMAIN users' = DOMAIN users \cup {loc[p].user}
        /\ \A e \in DOMAIN users' : users'[e] = IF e = loc[p].user THEN b ELSE users[e]
        /\ Extends(users, users')
    BY <2>1 DEF Inserted, Extends
  <2>3. TypeOK'
    BY <1>1, <1>2, <1>3, <2>2, PcFact DEF TypeOK
  <2>4. Grown
    BY <1>2, <1>3, <2>2 DEF Grown, Extends, TypeOK
  <2>. QED
    BY <1>1, <1>2, <1>3, <2>3, <2>4, PcFact DEF Alone
<1>. QED
  BY <1>2, <1>4, <1>5

\* A step that inserts a church or its campus.
LEMMA InsertChurchType ==
    ASSUME IInv, NEW p \in Request, InsertChurch(p) \/ InsertCampus(p)
    PROVE  TypeOK' /\ Grown /\ Alone(p)
<1>1. PICK l : Moves(p, l)
  BY MovesFact
<1>2. /\ UNCHANGED <<users, ministries, profiles, memberships, tokens, loc, met>>
      /\ \/ churches' = churches \cup {p} /\ campuses' = campuses
         \/ churches' = churches /\ campuses' = campuses \cup {p} /\ p \in churches
  <2>1. CASE InsertChurch(p)
    BY <2>1 DEF InsertChurch
  <2>2. CASE InsertCampus(p)
    <3>1. p \in DOMAIN loc /\ pc[p] = "campus"
      BY <2>2, <1>1, PcFact DEF InsertCampus, IInv
    <3>2. p \in churches
      BY <3>1 DEF IInv, CallFits
    <3>. QED
      BY <2>2, <3>2 DEF InsertCampus
  <2>. QED
    BY <2>1, <2>2
<1>3. TypeOK
  BY DEF IInv
<1>4. TypeOK'
  BY <1>1, <1>2, <1>3, PcFact DEF TypeOK
<1>5. Grown
  BY <1>2, <1>3 DEF Grown, Extends, TypeOK
<1>. QED
  BY <1>1, <1>2, <1>3, <1>4, <1>5, PcFact DEF Alone

\* A step that inserts a membership.
LEMMA InsertRowType ==
    ASSUME IInv, NEW p \in Request, NEW row \in MembershipRow, NEW l, Moves(p, l),
           p \notin DOMAIN memberships, memberships' = Inserted(memberships, p, row),
           UNCHANGED <<users, churches, campuses, ministries, profiles, tokens, loc, met>>
    PROVE  TypeOK' /\ Grown /\ Alone(p)
<1>1. TypeOK
  BY DEF IInv
<1>2. /\ DOMAIN memberships' = DOMAIN memberships \cup {p}
      /\ \A k \in DOMAIN memberships' : memberships'[k] = IF k = p THEN row ELSE memberships[k]
      /\ Extends(memberships, memberships')
  BY DEF Inserted, Extends
<1>3. TypeOK'
  <2>1. DOMAIN memberships' \subseteq Request
    BY <1>1, <1>2 DEF TypeOK
  <2>2. \A k \in DOMAIN memberships' : memberships'[k] \in MembershipRow
    BY <1>1, <1>2 DEF TypeOK
  <2>. QED
    BY <1>1, <2>1, <2>2, PcFact DEF TypeOK
<1>4. Grown
  BY <1>1, <1>2 DEF Grown, Extends, TypeOK
<1>. QED
  BY <1>1, <1>3, <1>4, PcFact DEF Alone

LEMMA InsertAdminType ==
    ASSUME IInv, NEW p \in Request, InsertAdmin(p) \/ StoreMembership(p)
    PROVE  /\ TypeOK' /\ Grown /\ Alone(p)
           /\ p \in DOMAIN loc /\ p \notin DOMAIN memberships
<1>1. PICK l : Moves(p, l)
  BY MovesFact
<1>2. p \in DOMAIN loc /\ loc[p] \in Call /\ pc[p] \in {"admin", "store"}
  BY <1>1, PcFact DEF IInv, InsertAdmin, StoreMembership
<1>3. p \notin DOMAIN memberships
  BY <1>2 DEF IInv, RowFits, Answered
<1>4. AdminRow(p) \in MembershipRow /\ VolunteerRow(p) \in MembershipRow
  BY <1>2 DEF AdminRow, VolunteerRow, Member, MembershipRow, Role, Call
<1>5. CASE InsertAdmin(p)
  BY <1>1, <1>2, <1>3, <1>4, <1>5, InsertRowType DEF InsertAdmin
<1>6. CASE StoreMembership(p)
  BY <1>1, <1>2, <1>3, <1>4, <1>6, InsertRowType DEF StoreMembership
<1>. QED
  BY <1>2, <1>3, <1>5, <1>6

\* A step of a handler that finds something out.
LEMMA FoundType ==
    ASSUME TypeOK, NEW p \in Request, NEW l, Moves(p, l), UNCHANGED tables, UNCHANGED met,
           \/ \E f \in SUBSET {"profile", "membership"} : loc' = [loc EXCEPT ![p].found = f]
           \/ \E f \in SUBSET Request : loc' = [loc EXCEPT ![p].saw = f]
    PROVE  TypeOK' /\ Grown /\ Alone(p)
<1>1. p \in DOMAIN loc /\ loc[p] \in Call
  BY PcFact
<1>2. /\ DOMAIN loc' = DOMAIN loc
      /\ \A q \in DOMAIN loc : q # p => loc'[q] = loc[q]
  BY <1>1
<1>3. /\ loc'[p] \in Call
      /\ loc'[p].op = loc[p].op /\ loc'[p].user = loc[p].user
      /\ loc'[p].church = loc[p].church /\ loc'[p].ministry = loc[p].ministry
      /\ loc'[p].token = loc[p].token
  BY <1>1 DEF Call
<1>4. TypeOK'
  BY <1>1, <1>2, <1>3, PcFact DEF TypeOK, tables
<1>5. Grown
  BY <1>1, <1>2, <1>3 DEF Grown, Extends, tables, TypeOK
<1>. QED
  BY <1>1, <1>2, <1>4, <1>5, PcFact DEF Alone

\* An administrator's row is the one of the church's registration.
LEMMA AdminsFit ==
    ASSUME IInv, NEW c, NEW k \in Admins(c)
    PROVE  /\ k = c /\ k \in DOMAIN memberships /\ k \in DOMAIN loc
           /\ loc[k].op = "register" /\ c \in campuses /\ c \in churches
           /\ memberships[k] = AdminRow(c)
<1>1. /\ k \in DOMAIN memberships /\ RowFits(k)
      /\ memberships[k].church = c /\ memberships[k].role = "CHURCH_ADMIN"
  BY DEF IInv, Admins
<1>2. memberships[k] # VolunteerRow(k)
  BY <1>1 DEF VolunteerRow, Member
<1>3. memberships[k] = AdminRow(k) /\ k \in campuses /\ loc[k].op = "register" /\ k \in DOMAIN loc
  BY <1>1, <1>2 DEF RowFits
<1>. QED
  BY <1>1, <1>3 DEF AdminRow, Member, IInv, TypeOK

\* A step that finds something out or touches the tokens.
LEMMA SessionType ==
    ASSUME IInv, NEW p \in Request, LoadMemberships(p) \/ InsertToken(p) \/ Revoke(p)
    PROVE  TypeOK' /\ Grown /\ Alone(p)
<1>1. PICK l : Moves(p, l)
  BY MovesFact
<1>2. TypeOK /\ p \in DOMAIN loc /\ loc[p] \in Call
  BY <1>1, PcFact DEF IInv
<1>3. CASE LoadMemberships(p)
  <2>1. ChurchesOf(loc[p].user) \in SUBSET Request
    BY <1>2 DEF ChurchesOf, TypeOK, MembershipRow
  <2>2. /\ loc' = [loc EXCEPT ![p].saw = ChurchesOf(loc[p].user)]
        /\ UNCHANGED tables /\ UNCHANGED met
    BY <1>3 DEF LoadMemberships
  <2>. QED
    BY <1>1, <1>2, <2>1, <2>2, FoundType
<1>4. CASE InsertToken(p)
  <2>1. /\ tokens' = Inserted(tokens, p, TRUE)
        /\ UNCHANGED <<users, churches, campuses, ministries, profiles, memberships, loc, met>>
        /\ pc[p] = "token"
    BY <1>4 DEF InsertToken
  <2>2. p \notin DOMAIN tokens
    BY <2>1 DEF IInv, TokenFits
  <2>3. /\ DOMAIN tokens' = DOMAIN tokens \cup {p}
        /\ \A t \in DOMAIN tokens' : tokens'[t] = IF t = p THEN TRUE ELSE tokens[t]
    BY <2>1 DEF Inserted
  <2>4. TypeOK'
    BY <1>1, <1>2, <2>1, <2>3, PcFact DEF TypeOK
  <2>5. Grown
    BY <1>2, <2>1, <2>2, <2>3 DEF Grown, Extends, TypeOK
  <2>. QED
    BY <1>1, <1>2, <2>1, <2>4, <2>5, PcFact DEF Alone
<1>5. CASE Revoke(p)
  <2>1. /\ tokens' = [tokens EXCEPT ![loc[p].token] = FALSE]
        /\ UNCHANGED <<users, churches, campuses, ministries, profiles, memberships, loc, met>>
    BY <1>5 DEF Revoke, Revoked
  <2>2. /\ DOMAIN tokens' = DOMAIN tokens
        /\ \A t \in DOMAIN tokens : tokens'[t] \in BOOLEAN /\ (~tokens[t] => ~tokens'[t])
    BY <1>2, <2>1 DEF TypeOK
  <2>4. TypeOK'
    BY <1>1, <1>2, <2>1, <2>2, PcFact DEF TypeOK
  <2>5. Grown
    BY <1>2, <2>1, <2>2 DEF Grown, Extends, TypeOK
  <2>. QED
    BY <1>1, <1>2, <2>1, <2>4, <2>5, PcFact DEF Alone
<1>. QED
  BY <1>3, <1>4, <1>5

LEMMA FindType ==
    ASSUME IInv, NEW p \in Request, FindProfile(p) \/ FindMembership(p)
    PROVE  TypeOK' /\ Grown /\ Alone(p)
<1>1. PICK l : Moves(p, l)
  BY MovesFact
<1>2. TypeOK /\ p \in DOMAIN loc /\ loc[p] \in Call
  BY <1>1, PcFact DEF IInv
<1>3. \E f \in SUBSET {"profile", "membership"} : loc' = [loc EXCEPT ![p].found = f]
  BY <1>2 DEF FindProfile, FindMembership, Call
<1>4. UNCHANGED tables /\ UNCHANGED met
  BY DEF FindProfile, FindMembership
<1>. QED
  BY <1>1, <1>2, <1>3, <1>4, FoundType

LEMMA CommitType ==
    ASSUME IInv, NEW p \in Request, Commit(p)
    PROVE  /\ TypeOK' /\ Grown /\ Alone(p)
           /\ p \in DOMAIN loc /\ p \notin DOMAIN memberships
           /\ Admins(loc[p].church) # {} /\ loc[p].church \in churches
<1>1. Moves(p, "done")
  BY MovesFact
<1>2. TypeOK /\ p \in DOMAIN loc /\ loc[p] \in Call /\ pc[p] = "commit"
  BY <1>1, PcFact DEF IInv, Commit
<1>3. p \notin DOMAIN memberships
  BY <1>2 DEF IInv, RowFits, Answered
<1>4. Admins(loc[p].church) # {}
  <2>1. loc[p].op = "invite"
    BY <1>2 DEF IInv, CallFits, Inviting
  <2>. QED
    BY <1>2, <2>1 DEF IInv, ParametersFit
<1>5. loc[p].church \in churches
  BY <1>2, <1>4, AdminsFit
<1>6. loc[p].user \in DOMAIN users
  BY <1>2 DEF IInv, CallFits
<1>7. loc[p].user \in DOMAIN profiles => profiles[loc[p].user] = loc[p].church
  BY <1>2 DEF IInv, InvitationFits, HasProfile
<1>8. /\ DOMAIN profiles' = DOMAIN profiles \cup {loc[p].user}
      /\ \A e \in DOMAIN profiles' :
            profiles'[e] = IF e = loc[p].user THEN loc[p].church ELSE profiles[e]
  BY DEF Commit, Inserted
<1>9. VolunteerRow(p) \in MembershipRow
  BY <1>2 DEF VolunteerRow, Member, MembershipRow, Role, Call
<1>10. /\ DOMAIN memberships' \subseteq DOMAIN memberships \cup {p}
       /\ \A k \in DOMAIN memberships' : memberships'[k] = IF k = p THEN VolunteerRow(p) ELSE memberships[k]
       /\ Extends(memberships, memberships')
  BY <1>3 DEF Commit, Inserted, Extends
<1>11. UNCHANGED <<users, churches, campuses, ministries, tokens, loc, met>>
  BY DEF Commit
<1>12. TypeOK'
  <2>1. /\ DOMAIN profiles' \subseteq DOMAIN users'
        /\ \A e \in DOMAIN profiles' : profiles'[e] \in churches'
    BY <1>2, <1>5, <1>6, <1>8, <1>11 DEF TypeOK
  <2>2. /\ DOMAIN memberships' \subseteq Request
        /\ \A k \in DOMAIN memberships' : memberships'[k] \in MembershipRow
    BY <1>2, <1>9, <1>10 DEF TypeOK
  <2>. QED
    BY <1>1, <1>2, <1>11, <2>1, <2>2, PcFact DEF TypeOK
<1>13. Grown
  <2>1. Extends(profiles, profiles')
    BY <1>7, <1>8 DEF Extends
  <2>. QED
    BY <1>2, <1>10, <1>11, <2>1 DEF Grown, Extends, TypeOK
<1>. QED
  BY <1>1, <1>2, <1>3, <1>4, <1>5, <1>11, <1>12, <1>13, PcFact DEF Alone

LEMMA StepType ==
    ASSUME IInv, NEW p \in Request, Step(p) \/ Abort(p)
    PROVE  TypeOK' /\ Grown /\ Alone(p)
<1>1. TypeOK
  BY DEF IInv
<1>2. CASE InsertUser(p) \/ InsertInvited(p)
  BY <1>2, InsertUserType
<1>3. CASE InsertChurch(p) \/ InsertCampus(p)
  BY <1>3, InsertChurchType
<1>4. CASE InsertAdmin(p) \/ StoreMembership(p)
  BY <1>4, InsertAdminType
<1>5. CASE LoadMemberships(p) \/ InsertToken(p) \/ Revoke(p)
  BY <1>5, SessionType
<1>6. CASE FindProfile(p) \/ FindMembership(p)
  BY <1>6, FindType
<1>7. CASE Commit(p)
  BY <1>7, CommitType
<1>8. CASE FindEmail(p) \/ Verify(p) \/ FindUser(p) \/ InsertProfile(p)
           \/ FindMinistry(p) \/ FindVolunteer(p) \/ Abort(p)
  <2>1. UNCHANGED tables /\ UNCHANGED loc /\ met' = met
    BY <1>8 DEF FindEmail, Verify, FindUser, InsertProfile, FindMinistry, FindVolunteer, Abort
  <2>2. \E l : Moves(p, l)
    BY <1>8, MovesFact
  <2>. QED
    BY <1>1, <2>1, <2>2, MoveType
<1>9. CASE FindValid(p) \/ SelectMembership(p)
  <2>1. UNCHANGED tables /\ UNCHANGED loc /\ met' \in {met, met \cup {p}}
    BY <1>9 DEF FindValid, SelectMembership
  <2>2. \E l : Moves(p, l)
    BY <1>9, MovesFact
  <2>. QED
    BY <1>1, <2>1, <2>2, MoveType
<1>. QED
  BY <1>2, <1>3, <1>4, <1>5, <1>6, <1>7, <1>8, <1>9, Zenon DEF Step

LEMMA NoCallType ==
    ASSUME IInv, \/ \E c \in churches, m \in Ministry : CreateMinistry(c, m)
                 \/ \E t \in Request : Logout(t)
    PROVE  TypeOK' /\ Grown /\ UNCHANGED <<users, churches, campuses, profiles, memberships, pc, loc, met>>
<1>1. TypeOK
  BY DEF IInv
<1>2. CASE \E c \in churches, m \in Ministry : CreateMinistry(c, m)
  <2>1. PICK c \in churches, m \in Ministry : CreateMinistry(c, m)
    BY <1>2
  <2>2. /\ m \notin DOMAIN ministries
        /\ ministries' = Inserted(ministries, m, c)
        /\ UNCHANGED <<users, churches, campuses, profiles, memberships, tokens, pc, loc, met>>
    BY <2>1 DEF CreateMinistry
  <2>3. /\ DOMAIN ministries' = DOMAIN ministries \cup {m}
        /\ \A n \in DOMAIN ministries' : ministries'[n] = IF n = m THEN c ELSE ministries[n]
    BY <2>2 DEF Inserted
  <2>4. TypeOK'
    BY <1>1, <2>2, <2>3 DEF TypeOK
  <2>5. Grown
    BY <1>1, <2>2, <2>3 DEF Grown, Extends, TypeOK
  <2>. QED
    BY <2>2, <2>4, <2>5
<1>3. CASE \E t \in Request : Logout(t)
  <2>1. PICK t \in Request : Logout(t)
    BY <1>3
  <2>2. /\ tokens' = [tokens EXCEPT ![t] = FALSE]
        /\ UNCHANGED <<users, churches, campuses, ministries, profiles, memberships, pc, loc, met>>
    BY <2>1 DEF Logout, Revoked
  <2>3. /\ DOMAIN tokens' = DOMAIN tokens
        /\ \A u \in DOMAIN tokens : tokens'[u] \in BOOLEAN /\ (~tokens[u] => ~tokens'[u])
    BY <1>1, <2>2 DEF TypeOK
  <2>4. TypeOK'
    BY <1>1, <2>2, <2>3 DEF TypeOK
  <2>5. Grown
    BY <1>1, <2>2, <2>3 DEF Grown, Extends, TypeOK
  <2>. QED
    BY <2>2, <2>4, <2>5
<1>. QED
  BY <1>2, <1>3

\* The three kinds of steps.
LEMMA Kinds ==
    ASSUME Next
    PROVE  \/ \E p \in Request : Arrive(p)
           \/ \E p \in Request : Step(p) \/ Abort(p)
           \/ \E c \in churches, m \in Ministry : CreateMinistry(c, m)
           \/ \E t \in Request : Logout(t)
BY Zenon DEF Next

LEMMA NextGrows == ASSUME IInv, Next PROVE TypeOK' /\ Grown
<1>1. TypeOK
  BY DEF IInv
<1>. QED
  BY <1>1, Kinds, ArriveType, StepType, NoCallType

-----------------------------------------------------------------------------
(* Facts that last. *)

\* Once a church has its administrator it keeps one.
LEMMA AdminsKept ==
    ASSUME IInv, Grown, NEW c, Admins(c) # {}
    PROVE  Admins(c)' # {}
BY DEF Admins, Grown, Extends

LEMMA ProfileKept ==
    ASSUME Grown, NEW p \in DOMAIN loc, HasProfile(p)
    PROVE  HasProfile(p)'
BY DEF HasProfile, Grown, Extends

LEMMA RowsKept ==
    ASSUME Grown, NEW p \in DOMAIN loc
    PROVE  AdminRow(p)' = AdminRow(p) /\ VolunteerRow(p)' = VolunteerRow(p)
BY DEF AdminRow, VolunteerRow, Member, Grown

LEMMA PermittedFits ==
    ASSUME NEW c, Permitted(c)
    PROVE  Admins(c) # {}
BY DEF Permitted

\* Only call p gets rows.
Rowless(p) ==
    /\ DOMAIN memberships' \subseteq DOMAIN memberships \cup {p}
    /\ DOMAIN tokens' \subseteq DOMAIN tokens \cup {p}
    /\ churches' \subseteq churches \cup {p}
    /\ campuses' \subseteq campuses \cup {p}

LEMMA StepRows ==
    ASSUME NEW p \in Request, Arrive(p) \/ Step(p) \/ Abort(p)
    PROVE  Rowless(p)
<1>1. CASE UNCHANGED tables
  BY <1>1 DEF tables, Rowless
<1>2. CASE Arrive(p)
  <2>1. \E call, l : Started(p, call, l)
    BY <1>2 DEF Arrive, Register, Login, Invite, Assign, Refresh
  <2>. QED
    BY <1>1, <2>1 DEF Started
<1>3. CASE FindEmail(p) \/ Verify(p) \/ FindUser(p) \/ InsertProfile(p) \/ FindMinistry(p)
           \/ FindVolunteer(p) \/ Abort(p) \/ FindValid(p) \/ SelectMembership(p)
           \/ FindProfile(p) \/ FindMembership(p) \/ LoadMemberships(p)
  BY <1>1, <1>3 DEF FindEmail, Verify, FindUser, InsertProfile, FindMinistry, FindVolunteer,
                    Abort, FindValid, SelectMembership, FindProfile, FindMembership, LoadMemberships
<1>4. CASE InsertUser(p) \/ InsertInvited(p) \/ InsertChurch(p) \/ InsertCampus(p)
  BY <1>4 DEF InsertUser, InsertInvited, InsertChurch, InsertCampus, Rowless
<1>5. CASE InsertAdmin(p) \/ StoreMembership(p) \/ Commit(p) \/ InsertToken(p)
  BY <1>5 DEF InsertAdmin, StoreMembership, Commit, InsertToken, Inserted, Rowless
<1>6. CASE Revoke(p)
  BY <1>6 DEF Revoke, Revoked, Rowless
<1>. QED
  BY <1>2, <1>3, <1>4, <1>5, <1>6, Zenon DEF Step

LEMMA ParametersKept ==
    ASSUME IInv, Grown, NEW p \in DOMAIN loc
    PROVE  ParametersFit(p)'
<1>1. ParametersFit(p) /\ TypeOK
  BY DEF IInv
<1>2. /\ loc'[p].op = loc[p].op /\ loc'[p].user = loc[p].user
      /\ loc'[p].church = loc[p].church /\ loc'[p].ministry = loc[p].ministry
      /\ loc'[p].token = loc[p].token
  BY DEF Grown
<1>3. loc[p].op = "refresh" =>
        loc[p].token \in DOMAIN tokens' /\ loc'[loc[p].token].user = loc[p].user
  BY <1>1 DEF ParametersFit, Grown, TypeOK
<1>4. loc[p].op \in {"invite", "assign"} => Admins(loc[p].church)' # {}
  <2>1. ASSUME NEW k \in Admins(loc[p].church) PROVE k \in Admins(loc[p].church)'
    BY <1>2, <2>1 DEF Admins, Grown, Extends
  <2>2. loc[p].op \in {"invite", "assign"} => \E k : k \in Admins(loc[p].church)
    BY <1>1 DEF ParametersFit
  <2>. QED
    BY <2>1, <2>2
<1>. QED
  BY <1>1, <1>2, <1>3, <1>4 DEF ParametersFit

\* A call that does not move.
LEMMA CallKept ==
    ASSUME IInv, Grown, NEW p \in Request, NEW q \in DOMAIN loc, q # p,
           Rowless(p), pc'[q] = pc[q], loc'[q] = loc[q]
    PROVE  CallFits(q)'
<1>1. CallFits(q) /\ TypeOK
  BY DEF IInv
<1>2. Owner(q)' => Owner(q)
  BY DEF Owner, Rowless
<1>3. loc[q].user \in DOMAIN users =>
        loc[q].user \in DOMAIN users' /\ users'[loc[q].user] = users[loc[q].user]
  BY DEF Grown, Extends
<1>4. HasProfile(q) => HasProfile(q)'
  BY ProfileKept
<1>5. loc[q].ministry \in DOMAIN ministries =>
        loc[q].ministry \in DOMAIN ministries' /\ ministries'[loc[q].ministry] = ministries[loc[q].ministry]
  BY DEF Grown, Extends
<1>6. churches \subseteq churches' /\ campuses \subseteq campuses'
  BY DEF Grown
<1>. QED
  BY <1>1, <1>2, <1>3, <1>4, <1>5, <1>6 DEF CallFits

\* A call that moves.
LEMMA CallMoves ==
    ASSUME IInv, NEW p \in Request, Step(p) \/ Abort(p)
    PROVE  CallFits(p)'
<1>1. TypeOK /\ Grown /\ Alone(p) /\ Rowless(p)
  BY StepType, StepRows DEF IInv
<1>2. p \in DOMAIN loc /\ loc[p] \in Call /\ CallFits(p) /\ ParametersFit(p)
  <2>1. \E l : Moves(p, l)
    BY MovesFact, Zenon DEF Step
  <2>. QED
    BY <1>1, <2>1, PcFact DEF IInv
<1>3. /\ loc'[p].op = loc[p].op /\ loc'[p].user = loc[p].user
      /\ loc'[p].church = loc[p].church /\ loc'[p].ministry = loc[p].ministry
      /\ loc'[p].token = loc[p].token
  BY <1>1, <1>2 DEF Grown
<1>4. /\ \A l : Moves(p, l) => pc'[p] = l
      /\ \A l : Goto(p, l) => pc'[p] = l
  BY <1>1, PcFact DEF Goto, TypeOK
<1>5. loc[p].user \in DOMAIN users =>
        loc[p].user \in DOMAIN users' /\ users'[loc[p].user] = users[loc[p].user]
  BY <1>1 DEF Grown, Extends
<1>6. p \in DOMAIN memberships => pc[p] \in Answered
  BY DEF IInv, RowFits
<1>7. CASE pc'[p] = "failed" /\ memberships' = memberships
  <2>1. Owner(p)' => Owner(p)
    BY <1>3, <1>7 DEF Owner
  <2>. QED
    BY <1>2, <1>3, <1>5, <1>7, <2>1 DEF CallFits, Registering, Inviting, Assigning
<1>. USE DEF Registering, Inviting, Assigning, Answered
<1>8. CASE FindEmail(p) \/ FindUser(p) \/ FindProfile(p) \/ FindMembership(p)
  <2>1. pc[p] \in {"email", "find", "lookup", "members"} /\ memberships' = memberships
    BY <1>8 DEF FindEmail, FindUser, FindProfile, FindMembership, tables
  <2>2. ~Owner(p)' \/ pc'[p] = "failed"
    BY <1>3, <1>4, <1>6, <1>8, <2>1, MovesFact DEF Owner
  <2>3. /\ pc[p] = "email" => pc'[p] \in {"user", "failed"}
        /\ pc[p] = "find" => pc'[p] \in {"lookup", "invited"}
        /\ pc[p] = "lookup" => pc'[p] \in {"members", "profile"}
        /\ pc[p] = "members" => pc'[p] = "commit"
    <3>1. CASE FindEmail(p)
      BY <1>4, <3>1, MovesFact DEF FindEmail
    <3>2. CASE FindUser(p)
      BY <1>4, <3>2, MovesFact DEF FindUser
    <3>3. CASE FindProfile(p)
      BY <1>4, <3>3, MovesFact DEF FindProfile
    <3>4. CASE FindMembership(p)
      BY <1>4, <3>4, MovesFact DEF FindMembership
    <3>. QED
      BY <1>8, <3>1, <3>2, <3>3, <3>4
  <2>4. pc'[p] = "lookup" => loc[p].user \in DOMAIN users
    BY <1>4, <1>8, <2>1, <2>3 DEF FindEmail, FindUser, FindProfile, FindMembership
  <2>. QED
    BY <1>2, <1>3, <1>5, <1>7, <2>1, <2>2, <2>3, <2>4 DEF CallFits
<1>9. CASE InsertUser(p) \/ InsertInvited(p)
  <2>1. pc[p] \in {"user", "invited"} /\ memberships' = memberships
    BY <1>9 DEF InsertUser, InsertInvited
  <2>2. /\ pc[p] = "user" => pc'[p] \in {"church", "failed"}
        /\ pc[p] = "invited" => pc'[p] \in {"lookup", "failed"}
    <3>1. CASE InsertUser(p)
      BY <1>4, <3>1, MovesFact DEF InsertUser
    <3>2. CASE InsertInvited(p)
      BY <1>4, <3>2, MovesFact DEF InsertInvited
    <3>. QED
      BY <1>9, <3>1, <3>2
  <2>4. /\ pc'[p] # "failed" => loc[p].user \in DOMAIN users'
        /\ pc'[p] = "church" => users'[loc[p].user]
    <3>1. CASE InsertUser(p)
      BY <1>4, <3>1 DEF InsertUser, Inserted
    <3>2. CASE InsertInvited(p)
      BY <1>4, <2>2, <3>2 DEF InsertInvited, Inserted
    <3>. QED
      BY <1>9, <3>1, <3>2
  <2>3. Owner(p)' => pc'[p] = "church"
    BY <1>3, <1>6, <2>1, <2>2 DEF Owner
  <2>. QED
    BY <1>2, <1>3, <1>7, <2>1, <2>2, <2>3, <2>4 DEF CallFits
<1>10. CASE InsertChurch(p) \/ InsertCampus(p) \/ InsertAdmin(p)
  <2>1. /\ pc[p] \in {"church", "campus", "admin"}
        /\ pc[p] = "church" => pc'[p] = "campus" /\ p \in churches'
        /\ pc[p] = "campus" => pc'[p] = "admin" /\ p \in campuses'
        /\ pc[p] = "admin" => pc'[p] = "session"
    BY <1>4, <1>10, MovesFact DEF InsertChurch, InsertCampus, InsertAdmin
  <2>2. Owner(p)
    BY <1>2, <2>1 DEF Owner, CallFits
  <2>3. churches \subseteq churches'
    BY <1>1 DEF Grown
  <2>. QED
    BY <1>2, <1>3, <1>5, <2>1, <2>2, <2>3 DEF CallFits
<1>11. CASE Verify(p) \/ LoadMemberships(p) \/ InsertToken(p)
  <2>1. /\ pc[p] \in {"verify", "session", "token"} /\ memberships' = memberships
        /\ pc[p] = "verify" => pc'[p] \in {"session", "failed"}
        /\ pc[p] = "session" => pc'[p] = "token"
        /\ pc[p] = "token" => pc'[p] = "done"
    BY <1>4, <1>11, MovesFact DEF Verify, LoadMemberships, InsertToken, tables
  <2>2. pc[p] = "verify" /\ pc'[p] = "session" => loc[p].user \in DOMAIN users /\ users[loc[p].user]
    BY <1>4, <1>11 DEF Verify, Verified, LoadMemberships, InsertToken
  <2>3. Owner(p)' => Owner(p)
    BY <1>3, <2>1 DEF Owner
  <2>. QED
    BY <1>2, <1>3, <1>5, <1>7, <2>1, <2>2, <2>3 DEF CallFits
<1>12. CASE FindValid(p) \/ Revoke(p)
  <2>1. /\ pc[p] \in {"valid", "revoke"} /\ memberships' = memberships
        /\ pc[p] = "valid" => pc'[p] \in {"revoke", "failed"}
        /\ pc[p] = "revoke" => pc'[p] = "session"
    BY <1>4, <1>12, MovesFact DEF FindValid, Revoke, tables
  <2>2. ~Owner(p)'
    BY <1>2, <1>3, <2>1 DEF Owner, CallFits
  <2>3. loc[p].user \in DOMAIN users /\ users[loc[p].user]
    <3>1. loc[p].token \in DOMAIN tokens /\ loc[loc[p].token].user = loc[p].user
      BY <1>2, <2>1 DEF CallFits, ParametersFit
    <3>. QED
      BY <3>1 DEF IInv, TokenFits
  <2>. QED
    BY <1>2, <1>3, <1>5, <1>7, <2>1, <2>2, <2>3 DEF CallFits
<1>13. CASE InsertProfile(p) \/ Commit(p)
  <2>1. /\ pc[p] \in {"profile", "commit"}
        /\ pc[p] = "profile" => pc'[p] = "members" \/ (pc'[p] = "failed" /\ memberships' = memberships)
        /\ pc[p] = "commit" => pc'[p] = "done"
    BY <1>4, <1>13, MovesFact DEF InsertProfile, Commit, tables
  <2>2. ~Owner(p)'
    BY <1>2, <1>3, <2>1 DEF Owner, CallFits
  <2>. QED
    BY <1>2, <1>3, <1>5, <1>7, <2>1, <2>2 DEF CallFits
<1>14. CASE FindMinistry(p) \/ FindVolunteer(p) \/ SelectMembership(p) \/ StoreMembership(p)
  <2>1. /\ pc[p] \in {"ministry", "volunteer", "select", "store"}
        /\ pc[p] = "ministry" => pc'[p] \in {"volunteer", "failed"}
        /\ pc[p] = "volunteer" => pc'[p] \in {"select", "failed"}
        /\ pc[p] = "select" => pc'[p] \in {"store", "done"}
        /\ pc[p] = "store" => pc'[p] = "done"
    BY <1>4, <1>14, MovesFact DEF FindMinistry, FindVolunteer, SelectMembership, StoreMembership
  <2>2. ~Owner(p)'
    BY <1>2, <1>3, <2>1 DEF Owner, CallFits
  <2>3. pc[p] # "store" => UNCHANGED tables /\ UNCHANGED loc
    BY <1>14 DEF FindMinistry, FindVolunteer, SelectMembership, StoreMembership
  <2>4. pc'[p] = "volunteer" =>
          loc[p].ministry \in DOMAIN ministries /\ ministries[loc[p].ministry] = loc[p].church
    BY <1>4, <1>14, <2>1 DEF FindMinistry, FindVolunteer, SelectMembership, StoreMembership
  <2>5. pc'[p] = "select" => HasProfile(p)
    BY <1>4, <1>14, <2>1 DEF FindMinistry, FindVolunteer, SelectMembership, StoreMembership
  <2>6. HasProfile(p) /\ pc[p] # "store" => HasProfile(p)'
    BY <2>3 DEF HasProfile, tables
  <2>. QED
    BY <1>2, <1>3, <2>1, <2>2, <2>3, <2>4, <2>5, <2>6 DEF CallFits, tables
<1>15. CASE Abort(p)
  BY <1>4, <1>7, <1>15, MovesFact DEF Abort, tables
<1>. QED
  BY <1>8, <1>9, <1>10, <1>11, <1>12, <1>13, <1>14, <1>15, Zenon DEF Step

\* A call that is made.
LEMMA CallArrives ==
    ASSUME IInv, NEW p \in Request, Arrive(p)
    PROVE  /\ ParametersFit(p)' /\ CallFits(p)'
           /\ pc[p] = "idle" /\ p \notin DOMAIN loc
           /\ pc'[p] \in {"email", "verify", "valid", "find", "ministry"}
           /\ UNCHANGED tables /\ UNCHANGED met
<1>1. TypeOK
  BY DEF IInv
<1>2. ASSUME NEW call, NEW l, Started(p, call, l)
      PROVE  /\ pc[p] = "idle" /\ p \notin DOMAIN loc /\ pc'[p] = l /\ loc'[p] = call
             /\ \A q \in DOMAIN loc : loc'[q] = loc[q]
             /\ UNCHANGED tables /\ UNCHANGED met
  <2>1. pc[p] = "idle" /\ loc' = Inserted(loc, p, call) /\ pc' = [pc EXCEPT ![p] = l]
    BY <1>2 DEF Started, Goto
  <2>2. p \notin DOMAIN loc /\ pc'[p] = l
    BY <1>1, <2>1 DEF TypeOK
  <2>. QED
    BY <1>2, <2>1, <2>2 DEF Inserted, Started
<1>3. p \notin DOMAIN memberships
  BY <1>1, <1>2 DEF IInv, RowFits, Arrive, Register, Login, Invite, Assign, Refresh, Started, TypeOK
<1>4. ASSUME UNCHANGED tables PROVE ~Owner(p)' \/ pc'[p] \in {"church", "campus", "admin"}
  BY <1>3, <1>4 DEF Owner, tables
<1>. USE DEF Registering, Inviting, Assigning, Parameters
<1>5. CASE \E e \in Email : Register(p, e) \/ Login(p, e)
  <2>1. PICK e \in Email : Register(p, e) \/ Login(p, e)
    BY <1>5
  <2>2. /\ pc[p] = "idle" /\ p \notin DOMAIN loc
        /\ \/ pc'[p] = "email" /\ loc'[p].op = "register"
           \/ pc'[p] = "verify" /\ loc'[p].op = "login"
        /\ UNCHANGED tables /\ UNCHANGED met
    BY <1>2, <2>1 DEF Register, Login
  <2>. QED
    BY <1>4, <2>2 DEF ParametersFit, CallFits
<1>6. CASE \E e \in Email, c \in churches : Invite(p, e, c)
  <2>1. PICK e \in Email, c \in churches : Invite(p, e, c)
    BY <1>6
  <2>2. /\ pc[p] = "idle" /\ p \notin DOMAIN loc /\ pc'[p] = "find"
        /\ loc'[p].op = "invite" /\ loc'[p].ministry = NoMinistry /\ loc'[p].church = c
        /\ UNCHANGED tables /\ UNCHANGED met
    BY <1>2, <2>1 DEF Invite
  <2>3. Admins(c) # {}
    BY <2>1, PermittedFits DEF Invite
  <2>4. Admins(loc[p].church)' # {}
    BY <2>2, <2>3 DEF Admins, tables
  <2>. QED
    BY <1>4, <2>2, <2>4 DEF ParametersFit, CallFits
<1>7. CASE \E e \in Email, c \in churches, m \in Ministry : Assign(p, e, c, m)
  <2>1. PICK e \in Email, c \in churches, m \in Ministry : Assign(p, e, c, m)
    BY <1>7
  <2>2. /\ pc[p] = "idle" /\ p \notin DOMAIN loc /\ pc'[p] = "ministry"
        /\ loc'[p].op = "assign" /\ loc'[p].ministry = m /\ loc'[p].church = c
        /\ UNCHANGED tables /\ UNCHANGED met
    BY <1>2, <2>1 DEF Assign
  <2>3. Admins(c) # {}
    BY <2>1, PermittedFits DEF Assign
  <2>4. Admins(loc[p].church)' # {}
    BY <2>2, <2>3 DEF Admins, tables
  <2>. QED
    BY <1>4, <2>2, <2>4 DEF ParametersFit, CallFits
<1>8. CASE \E t \in Request : Refresh(p, t)
  <2>1. PICK t \in Request : Refresh(p, t)
    BY <1>8
  <2>2. /\ pc[p] = "idle" /\ p \notin DOMAIN loc /\ pc'[p] = "valid"
        /\ loc'[p].op = "refresh" /\ loc'[p].token = t /\ loc'[p].user = loc[t].user
        /\ \A q \in DOMAIN loc : loc'[q] = loc[q]
        /\ UNCHANGED tables /\ UNCHANGED met
    BY <1>2, <2>1 DEF Refresh
  <2>3. t \in DOMAIN tokens /\ t \in DOMAIN loc
    BY <1>1, <2>1 DEF Refresh, TypeOK
  <2>4. loc'[p].token \in DOMAIN tokens' /\ loc'[loc'[p].token].user = loc'[p].user
    BY <2>2, <2>3 DEF tables
  <2>. QED
    BY <1>4, <2>2, <2>4 DEF ParametersFit, CallFits
<1>. QED
  BY <1>5, <1>6, <1>7, <1>8 DEF Arrive

\* How the calls of the next state were before.
LEMMA NextCalls ==
    ASSUME IInv, Next
    PROVE  \/ \E p \in Request : Rowless(p) /\ Alone(p) /\ (Arrive(p) \/ Step(p) \/ Abort(p))
           \/ /\ UNCHANGED <<users, churches, campuses, profiles, memberships, pc, loc, met>>
              /\ \/ \E c \in churches, m \in Ministry : CreateMinistry(c, m)
                 \/ \E t \in Request : Logout(t)
<1>1. CASE \E p \in Request : Arrive(p) \/ Step(p) \/ Abort(p)
  BY <1>1, StepRows, StepType, ArriveType DEF IInv
<1>2. CASE \/ \E c \in churches, m \in Ministry : CreateMinistry(c, m)
           \/ \E t \in Request : Logout(t)
  BY <1>2, NoCallType
<1>. QED
  BY <1>1, <1>2, Kinds

LEMMA CallsStep ==
    ASSUME IInv, Next
    PROVE  \A q \in DOMAIN loc' : ParametersFit(q)' /\ CallFits(q)'
<1>1. TypeOK /\ TypeOK' /\ Grown
  BY NextGrows DEF IInv
<1>2. \A q \in DOMAIN loc : ParametersFit(q)'
  BY <1>1, ParametersKept
<1>3. ASSUME NEW p \in Request, Rowless(p), Alone(p), Arrive(p) \/ Step(p) \/ Abort(p),
             NEW q \in DOMAIN loc'
      PROVE  ParametersFit(q)' /\ CallFits(q)'
  <2>1. CASE q = p
    <3>1. CASE Arrive(p)
      BY <2>1, <3>1, CallArrives
    <3>2. CASE Step(p) \/ Abort(p)
      <4>1. p \in DOMAIN loc
        <5>1. \E l : Moves(p, l)
          BY <3>2, MovesFact, Zenon DEF Step
        <5>. QED
          BY <1>1, <5>1, PcFact
      <4>. QED
        BY <1>2, <2>1, <3>2, <4>1, CallMoves
    <3>. QED
      BY <1>3, <3>1, <3>2
  <2>2. CASE q # p
    <3>1. q \in DOMAIN loc /\ pc'[q] = pc[q] /\ loc'[q] = loc[q]
      BY <1>1, <1>3, <2>2 DEF Alone, TypeOK
    <3>. QED
      BY <1>1, <1>2, <1>3, <2>2, <3>1, CallKept
  <2>. QED
    BY <2>1, <2>2
<1>4. ASSUME UNCHANGED <<users, churches, campuses, profiles, memberships, pc, loc, met>>,
             NEW q \in DOMAIN loc'
      PROVE  ParametersFit(q)' /\ CallFits(q)'
  <2>1. CallFits(q) /\ q \in DOMAIN loc /\ ParametersFit(q)'
    BY <1>2, <1>4 DEF IInv
  <2>2. Extends(ministries, ministries')
    BY <1>1 DEF Grown
  <2>3. CallFits(q)'
    BY <1>4, <2>1, <2>2 DEF CallFits, Owner, HasProfile, Extends
  <2>. QED
    BY <2>1, <2>3
<1>. QED
  BY <1>3, <1>4, NextCalls

-----------------------------------------------------------------------------
(* Registrations. *)

\* What a step of p may be, by where p is.
LEMMA StepsFrom ==
    ASSUME NEW p \in Request, Step(p) \/ Abort(p)
    PROVE  /\ pc[p] \in InFlight
           /\ pc[p] = "user" => InsertUser(p) \/ Abort(p)
           /\ pc[p] = "church" => InsertChurch(p) \/ Abort(p)
           /\ pc[p] = "campus" => InsertCampus(p) \/ Abort(p)
           /\ pc[p] = "admin" => InsertAdmin(p) \/ Abort(p)
           /\ pc[p] = "session" => LoadMemberships(p) \/ Abort(p)
           /\ pc[p] = "token" => InsertToken(p) \/ Abort(p)
           /\ pc[p] = "revoke" => Revoke(p) \/ Abort(p)
           /\ pc[p] = "profile" => InsertProfile(p) \/ Abort(p)
           /\ pc[p] = "members" => FindMembership(p) \/ Abort(p)
           /\ pc[p] = "commit" => Commit(p) \/ Abort(p)
           /\ pc[p] = "store" => StoreMembership(p) \/ Abort(p)
BY DEF Step, FindEmail, InsertUser, InsertChurch, InsertCampus, InsertAdmin, Verify,
       LoadMemberships, InsertToken, FindValid, Revoke, FindUser, InsertInvited, FindProfile,
       InsertProfile, FindMembership, Commit, FindMinistry, FindVolunteer, SelectMembership,
       StoreMembership, Abort, InFlight, Registering, SigningIn, Inviting, Assigning

\* What moved p where it is now.
LEMMA StepsTo ==
    ASSUME TypeOK, NEW p \in Request, Step(p) \/ Abort(p)
    PROVE  /\ p \in DOMAIN loc
           /\ pc'[p] = "church" => InsertUser(p)
           /\ pc'[p] = "campus" => InsertChurch(p)
           /\ pc'[p] = "admin" => InsertCampus(p)
           /\ pc'[p] = "revoke" => FindValid(p)
           /\ pc'[p] = "session" => InsertAdmin(p) \/ Verify(p) \/ Revoke(p)
           /\ pc'[p] = "members" => FindProfile(p) \/ InsertProfile(p)
           /\ pc'[p] = "commit" => FindMembership(p)
           /\ pc'[p] = "store" => SelectMembership(p)
           /\ pc[p] = "session" => pc'[p] \in {"token", "failed"}
           /\ pc[p] = "token" => pc'[p] \in {"done", "failed"}
           /\ pc[p] \in {"church", "campus", "admin"} =>
                pc'[p] \in {"campus", "admin", "session", "failed"}
           /\ pc[p] \in {"church", "campus", "admin"} /\ pc'[p] = "session" => InsertAdmin(p)
<1>1. \E l : Moves(p, l)
  BY MovesFact, Zenon DEF Step
<1>2. p \in DOMAIN loc
  BY <1>1, PcFact
<1>3. \A l : Moves(p, l) => pc'[p] = l
  BY PcFact
<1>4. CASE FindEmail(p) \/ Verify(p) \/ FindUser(p) \/ FindMinistry(p) \/ FindVolunteer(p)
  BY <1>2, <1>3, <1>4, MovesFact DEF FindEmail, Verify, FindUser, FindMinistry, FindVolunteer
<1>5. CASE FindValid(p) \/ Revoke(p) \/ LoadMemberships(p) \/ InsertToken(p)
  BY <1>2, <1>3, <1>5, MovesFact DEF FindValid, Revoke, LoadMemberships, InsertToken
<1>6. CASE InsertUser(p) \/ InsertChurch(p) \/ InsertCampus(p) \/ InsertAdmin(p)
  BY <1>2, <1>3, <1>6, MovesFact DEF InsertUser, InsertChurch, InsertCampus, InsertAdmin
<1>7. CASE InsertInvited(p) \/ FindProfile(p) \/ InsertProfile(p) \/ FindMembership(p) \/ Commit(p)
  BY <1>2, <1>3, <1>7, MovesFact DEF InsertInvited, FindProfile, InsertProfile, FindMembership, Commit
<1>8. CASE SelectMembership(p) \/ StoreMembership(p) \/ Abort(p)
  BY <1>2, <1>3, <1>8, MovesFact DEF SelectMembership, StoreMembership, Abort
<1>. QED
  BY <1>4, <1>5, <1>6, <1>7, <1>8, Zenon DEF Step

\* Who inserts a membership.
LEMMA RowsFrom ==
    ASSUME NEW p \in Request, Step(p) \/ Abort(p), p \in DOMAIN memberships', p \notin DOMAIN memberships
    PROVE  InsertAdmin(p) \/ Commit(p) \/ StoreMembership(p)
<1>1. memberships' # memberships
  OBVIOUS
<1>. QED
  BY <1>1 DEF Step, FindEmail, InsertUser, InsertChurch, InsertCampus, InsertAdmin, Verify,
       LoadMemberships, InsertToken, FindValid, Revoke, FindUser, InsertInvited, FindProfile,
       InsertProfile, FindMembership, Commit, FindMinistry, FindVolunteer, SelectMembership,
       StoreMembership, Abort, tables

\* A registration becomes an owner when its user is inserted, which nobody had
\* inserted before.
LEMMA NewOwner ==
    ASSUME IInv, Next, NEW q \in DOMAIN loc', Owner(q)'
    PROVE  /\ q \in DOMAIN loc
           /\ Owner(q) \/ (InsertUser(q) /\ loc[q].user \notin DOMAIN users)
<1>1. TypeOK /\ TypeOK' /\ Grown
  BY NextGrows DEF IInv
<1>2. q \in Request
  BY <1>1 DEF TypeOK
<1>3. CASE UNCHANGED <<users, churches, campuses, profiles, memberships, pc, loc, met>>
  BY <1>3 DEF Owner
<1>4. ASSUME NEW p \in Request, Rowless(p), Alone(p), Arrive(p) \/ Step(p) \/ Abort(p)
      PROVE  /\ q \in DOMAIN loc
             /\ Owner(q) \/ (InsertUser(q) /\ loc[q].user \notin DOMAIN users)
  <2>1. CASE q # p
    BY <1>2, <1>4, <2>1 DEF Alone, Rowless, Owner
  <2>2. CASE q = p /\ Arrive(p)
    <3>1. pc'[p] \notin {"church", "campus", "admin"} /\ memberships' = memberships /\ p \notin DOMAIN loc
      BY <2>2, CallArrives DEF tables
    <3>. QED
      BY <2>2, <3>1 DEF IInv, RowFits, Owner
  <2>3. CASE q = p /\ (Step(p) \/ Abort(p))
    <3>1. p \in DOMAIN loc /\ loc[p].op = "register"
      BY <1>1, <2>3, StepsTo DEF Grown, Owner
    <3>2. CASE pc'[p] = "church"
      <4>1. InsertUser(p)
        BY <1>1, <2>3, <3>2, StepsTo
      <4>2. loc[p].user \notin DOMAIN users
        BY <1>1, <3>2, <4>1 DEF InsertUser, Goto, TypeOK
      <4>. QED
        BY <2>3, <3>1, <4>1, <4>2
    <3>3. CASE pc'[p] \in {"campus", "admin"}
      <4>1. pc[p] \in {"church", "campus"}
        BY <1>1, <2>3, <3>3, StepsTo DEF InsertChurch, InsertCampus
      <4>. QED
        BY <2>3, <3>1, <4>1 DEF Owner
    <3>4. CASE p \in DOMAIN memberships' /\ p \notin DOMAIN memberships
      <4>1. pc[p] \in {"admin", "commit", "store"}
        BY <2>3, <3>4, RowsFrom DEF InsertAdmin, Commit, StoreMembership
      <4>2. pc[p] = "admin"
        BY <3>1, <4>1 DEF IInv, CallFits, Inviting, Assigning
      <4>. QED
        BY <2>3, <3>1, <4>2 DEF Owner
    <3>5. CASE p \in DOMAIN memberships
      BY <2>3, <3>1, <3>5 DEF Owner
    <3>. QED
      BY <2>3, <3>2, <3>3, <3>4, <3>5 DEF Owner
  <2>. QED
    BY <1>4, <2>1, <2>2, <2>3
<1>. QED
  BY <1>3, <1>4, NextCalls

LEMMA OwnersStep ==
    ASSUME IInv, Next, NEW p \in DOMAIN loc', NEW q \in DOMAIN loc',
           Owner(p)', Owner(q)', loc'[p].user = loc'[q].user
    PROVE  p = q
<1>1. Grown /\ TypeOK
  BY NextGrows DEF IInv
<1>2. /\ p \in DOMAIN loc /\ (Owner(p) \/ (InsertUser(p) /\ loc[p].user \notin DOMAIN users))
      /\ q \in DOMAIN loc /\ (Owner(q) \/ (InsertUser(q) /\ loc[q].user \notin DOMAIN users))
  BY NewOwner
<1>3. loc[p].user = loc[q].user
  BY <1>1, <1>2 DEF Grown
<1>4. Owner(p) => loc[p].user \in DOMAIN users
  BY <1>2 DEF IInv, CallFits
<1>5. Owner(q) => loc[q].user \in DOMAIN users
  BY <1>2 DEF IInv, CallFits
<1>6. CASE Owner(p) /\ Owner(q)
  BY <1>2, <1>3, <1>6 DEF IInv
<1>7. CASE InsertUser(p) /\ InsertUser(q)
  <2>1. pc[q] = "user" /\ p \in Request /\ q \in Request
    BY <1>1, <1>2, <1>7 DEF InsertUser, TypeOK
  <2>2. PICK l : Moves(p, l)
    BY <1>7, <2>1, MovesFact
  <2>3. pc'[q] \in {"church", "failed"}
    <3>1. Moves(q, "church") \/ Moves(q, "failed")
      BY <1>7, <2>1, MovesFact
    <3>. QED
      BY <1>1, <2>1, <3>1, PcFact
  <2>4. q # p => pc'[q] = pc[q]
    BY <1>1, <2>1, <2>2, PcFact
  <2>. QED
    BY <2>1, <2>3, <2>4
<1>. QED
  BY <1>2, <1>3, <1>4, <1>5, <1>6, <1>7

\* A row that is there stays as it is.
LEMMA RowKept ==
    ASSUME IInv, Next, NEW k \in DOMAIN memberships, pc'[k] \in Answered,
           pc[k] = "done" => pc'[k] = "done"
    PROVE  RowFits(k)'
<1>1. Grown /\ RowFits(k)
  BY NextGrows DEF IInv
<1>2. k \in DOMAIN loc /\ k \in DOMAIN loc' /\ memberships'[k] = memberships[k]
  BY <1>1 DEF RowFits, Grown, Extends
<1>3. AdminRow(k)' = AdminRow(k) /\ VolunteerRow(k)' = VolunteerRow(k)
  BY <1>1, <1>2, RowsKept
<1>4. HasProfile(k) => HasProfile(k)'
  BY <1>1, <1>2, ProfileKept
<1>5. /\ loc'[k].op = loc[k].op /\ loc'[k].ministry = loc[k].ministry /\ loc'[k].church = loc[k].church
      /\ campuses \subseteq campuses'
      /\ loc[k].ministry \in DOMAIN ministries =>
            /\ loc[k].ministry \in DOMAIN ministries'
            /\ ministries'[loc[k].ministry] = ministries[loc[k].ministry]
  BY <1>1, <1>2 DEF Grown, Extends
<1>. QED
  BY <1>1, <1>2, <1>3, <1>4, <1>5 DEF RowFits

LEMMA RowsStep ==
    ASSUME IInv, Next, NEW k \in DOMAIN memberships'
    PROVE  RowFits(k)'
<1>1. TypeOK /\ TypeOK' /\ Grown
  BY NextGrows DEF IInv
<1>2. k \in Request
  BY <1>1 DEF TypeOK
<1>3. CASE k \in DOMAIN memberships
  <2>1. RowFits(k)
    BY <1>3 DEF IInv
  <2>2. CASE UNCHANGED pc
    BY <1>3, <2>1, <2>2, RowKept DEF RowFits
  <2>3. ASSUME NEW p \in Request, Alone(p), Arrive(p) \/ Step(p) \/ Abort(p) PROVE RowFits(k)'
    <3>1. CASE k # p
      BY <1>2, <1>3, <2>1, <2>3, <3>1, RowKept DEF RowFits, Alone
    <3>2. CASE k = p /\ Arrive(p)
      BY <2>1, <3>2, CallArrives DEF RowFits, Answered
    <3>3. CASE k = p /\ (Step(p) \/ Abort(p))
      <4>1. pc[p] \in {"session", "token"} /\ pc'[p] \in {"token", "done", "failed"}
        BY <1>1, <2>1, <3>3, StepsFrom, StepsTo
           DEF RowFits, Answered, InFlight, Registering, SigningIn, Inviting, Assigning
      <4>. QED
        BY <1>3, <3>3, <4>1, RowKept DEF Answered
    <3>. QED
      BY <2>3, <3>1, <3>2, <3>3
  <2>. QED
    BY <2>2, <2>3, NextCalls
<1>4. CASE k \notin DOMAIN memberships
  <2>1. PICK p \in Request : Rowless(p) /\ Alone(p) /\ (Arrive(p) \/ Step(p) \/ Abort(p))
    BY <1>4, NextCalls
  <2>2. k = p /\ (Step(p) \/ Abort(p))
    BY <1>4, <2>1, CallArrives DEF Rowless, tables
  <2>3. InsertAdmin(p) \/ Commit(p) \/ StoreMembership(p)
    BY <1>4, <2>2, RowsFrom
  <2>4. p \in DOMAIN loc /\ p \in DOMAIN loc' /\ CallFits(p)
    BY <1>1, <2>2, StepsTo DEF IInv, Grown
  <2>5. /\ AdminRow(p)' = AdminRow(p) /\ VolunteerRow(p)' = VolunteerRow(p)
        /\ loc'[p].op = loc[p].op
    BY <1>1, <2>4, RowsKept DEF Grown
  <2>6. \A l : Moves(p, l) => pc'[p] = l
    BY <1>1, PcFact
  <2>7. CASE InsertAdmin(p)
    <3>1. pc[p] = "admin" /\ pc'[p] = "session" /\ memberships'[p] = AdminRow(p) /\ campuses' = campuses
      BY <2>6, <2>7, MovesFact DEF InsertAdmin, Inserted
    <3>. QED
      BY <2>2, <2>4, <2>5, <3>1 DEF RowFits, CallFits, Answered, Registering
  <2>8. CASE Commit(p)
    <3>1. pc[p] = "commit" /\ pc'[p] = "done" /\ memberships'[p] = VolunteerRow(p) /\ HasProfile(p)'
      BY <1>4, <2>2, <2>6, <2>8, MovesFact DEF Commit, Inserted, HasProfile
    <3>. QED
      BY <2>2, <2>4, <2>5, <3>1 DEF RowFits, CallFits, Answered, Inviting
  <2>9. CASE StoreMembership(p)
    <3>1. /\ pc[p] = "store" /\ pc'[p] = "done" /\ memberships'[p] = VolunteerRow(p)
          /\ UNCHANGED <<ministries, profiles, loc>>
      BY <2>6, <2>9, MovesFact DEF StoreMembership, Inserted
    <3>2. HasProfile(p)'
      BY <2>4, <3>1 DEF CallFits, HasProfile
    <3>. QED
      BY <2>2, <2>4, <2>5, <3>1, <3>2 DEF RowFits, CallFits, Answered, Assigning
  <2>. QED
    BY <2>3, <2>7, <2>8, <2>9
<1>. QED
  BY <1>3, <1>4

LEMMA TokensStep ==
    ASSUME IInv, Next, NEW t \in DOMAIN tokens'
    PROVE  TokenFits(t)'
<1>1. TypeOK /\ TypeOK' /\ Grown
  BY NextGrows DEF IInv
<1>2. t \in Request
  BY <1>1 DEF TypeOK
<1>3. ASSUME t \in DOMAIN loc, loc[t].user \in DOMAIN users, users[loc[t].user], pc'[t] = "done"
      PROVE  TokenFits(t)'
  BY <1>1, <1>3 DEF TokenFits, Grown, Extends
<1>4. CASE t \in DOMAIN tokens
  <2>1. TokenFits(t) /\ t \in DOMAIN loc
    BY <1>1, <1>4 DEF IInv, TypeOK
  <2>2. pc'[t] = "done"
    <3>1. ASSUME NEW p \in Request, Alone(p), Arrive(p) \/ Step(p) \/ Abort(p) PROVE pc'[t] = pc[t]
      BY <1>2, <2>1, <3>1, StepsFrom, CallArrives
         DEF Alone, TokenFits, InFlight, Registering, SigningIn, Inviting, Assigning
    <3>. QED
      BY <2>1, <3>1, NextCalls DEF TokenFits
  <2>. QED
    BY <1>3, <2>1, <2>2 DEF TokenFits
<1>5. CASE t \notin DOMAIN tokens
  <2>1. CASE \E u \in Request : Logout(u)
    BY <1>1, <1>5, <2>1 DEF Logout, Revoked, TypeOK
  <2>2. CASE \E c \in churches, m \in Ministry : CreateMinistry(c, m)
    BY <1>5, <2>2 DEF CreateMinistry
  <2>3. ASSUME NEW p \in Request, Rowless(p), Arrive(p) \/ Step(p) \/ Abort(p) PROVE TokenFits(t)'
    <3>1. t = p /\ (Step(p) \/ Abort(p))
      BY <1>5, <2>3, CallArrives DEF Rowless, tables
    <3>2. InsertToken(p)
      <4>1. tokens' # tokens /\ ~Revoke(p)
        BY <1>1, <1>5, <3>1 DEF Revoke, Revoked, TypeOK
      <4>. QED
        BY <3>1, <4>1, Zenon DEF Step, FindEmail, InsertUser, InsertChurch, InsertCampus, InsertAdmin, Verify,
           LoadMemberships, InsertToken, FindValid, Revoke, FindUser, InsertInvited, FindProfile,
           InsertProfile, FindMembership, Commit, FindMinistry, FindVolunteer, SelectMembership,
           StoreMembership, Abort, tables
    <3>3. pc[p] = "token" /\ pc'[p] = "done" /\ p \in DOMAIN loc
      BY <1>1, <3>1, <3>2, MovesFact, PcFact DEF InsertToken
    <3>. QED
      BY <1>3, <3>1, <3>3 DEF IInv, CallFits
  <2>. QED
    BY <2>1, <2>2, <2>3, NextCalls
<1>. QED
  BY <1>4, <1>5

LEMMA ChurchesStep ==
    ASSUME IInv, Next, NEW c \in churches'
    PROVE  ChurchFits(c)'
<1>1. TypeOK /\ TypeOK' /\ Grown
  BY NextGrows DEF IInv
<1>2. c \in Request
  BY <1>1 DEF TypeOK
<1>3. CASE c \in churches
  <2>1. /\ c \in DOMAIN loc /\ loc[c].op = "register" /\ pc[c] \in {"campus", "admin"} \cup Answered
        /\ c \in DOMAIN loc' /\ loc'[c].op = "register"
    BY <1>1, <1>3 DEF IInv, ChurchFits, Grown
  <2>2. ASSUME NEW p \in Request, Alone(p), Arrive(p) \/ Step(p) \/ Abort(p)
        PROVE  pc'[c] \in {"campus", "admin"} \cup Answered
    <3>1. CASE c # p
      BY <1>2, <2>1, <2>2, <3>1 DEF Alone
    <3>2. CASE c = p /\ Arrive(p)
      BY <2>1, <3>2, CallArrives
    <3>3. CASE c = p /\ (Step(p) \/ Abort(p))
      <4>1. pc[p] \in {"campus", "admin", "session", "token"}
        BY <2>1, <3>3, StepsFrom DEF Answered, InFlight, Registering, SigningIn, Inviting, Assigning
      <4>. QED
        BY <1>1, <3>3, <4>1, StepsTo DEF Answered
    <3>. QED
      BY <2>2, <3>1, <3>2, <3>3
  <2>. QED
    BY <2>1, <2>2, NextCalls DEF ChurchFits
<1>4. CASE c \notin churches
  <2>1. PICK p \in Request : Rowless(p) /\ Alone(p) /\ (Arrive(p) \/ Step(p) \/ Abort(p))
    BY <1>4, NextCalls
  <2>2. c = p /\ (Step(p) \/ Abort(p))
    BY <1>4, <2>1, CallArrives DEF Rowless, tables
  <2>3. InsertChurch(p)
    <3>1. churches' # churches
      BY <1>4
    <3>. QED
      BY <2>2, <3>1, Zenon DEF Step, FindEmail, InsertUser, InsertChurch, InsertCampus, InsertAdmin, Verify,
           LoadMemberships, InsertToken, FindValid, Revoke, FindUser, InsertInvited, FindProfile,
           InsertProfile, FindMembership, Commit, FindMinistry, FindVolunteer, SelectMembership,
           StoreMembership, Abort, tables
  <2>4. pc[p] = "church" /\ pc'[p] = "campus" /\ p \in DOMAIN loc /\ loc' = loc
    BY <1>1, <2>3, MovesFact, PcFact DEF InsertChurch
  <2>. QED
    BY <2>2, <2>4 DEF IInv, CallFits, ChurchFits, Registering
<1>. QED
  BY <1>3, <1>4

LEMMA RegisteredStep ==
    ASSUME IInv, Next, NEW e \in DOMAIN users', users'[e]
    PROVE  Registered(e)'
<1>1. TypeOK /\ TypeOK' /\ Grown
  BY NextGrows DEF IInv
<1>2. ASSUME e \in DOMAIN users PROVE Registered(e)'
  <2>1. users[e]
    BY <1>1, <1>2 DEF Grown, Extends
  <2>2. PICK q \in DOMAIN loc :
            /\ loc[q].op = "register" /\ loc[q].user = e
            /\ Owner(q) \/ (pc[q] = "failed" /\ q \notin DOMAIN memberships)
    BY <1>2, <2>1 DEF IInv, Registered
  <2>3. q \in Request /\ q \in DOMAIN loc' /\ loc'[q].op = "register" /\ loc'[q].user = e
    BY <1>1, <2>2 DEF Grown, TypeOK
  <2>4. Owner(q)' \/ (pc'[q] = "failed" /\ q \notin DOMAIN memberships')
    <3>1. CASE q \in DOMAIN memberships
      BY <1>1, <2>3, <3>1 DEF Owner, Grown, Extends
    <3>2. CASE q \notin DOMAIN memberships
      <4>1. pc[q] \in {"church", "campus", "admin", "failed"}
        BY <2>2, <3>2 DEF Owner
      <4>2. ASSUME NEW p \in Request, Alone(p), Rowless(p), Arrive(p) \/ Step(p) \/ Abort(p)
            PROVE  Owner(q)' \/ (pc'[q] = "failed" /\ q \notin DOMAIN memberships')
        <5>1. CASE q # p
          BY <2>2, <2>3, <3>2, <4>2, <5>1 DEF Owner, Alone, Rowless
        <5>2. CASE q = p /\ Arrive(p)
          BY <4>1, <5>2, CallArrives
        <5>3. CASE q = p /\ (Step(p) \/ Abort(p))
          <6>1. pc[p] \in {"church", "campus", "admin"}
            BY <4>1, <5>3, StepsFrom DEF InFlight, Registering, SigningIn, Inviting, Assigning
          <6>2. pc'[p] \in {"campus", "admin", "session", "failed"}
            BY <1>1, <5>3, <6>1, StepsTo
          <6>3. pc'[p] = "session" => p \in DOMAIN memberships'
            BY <1>1, <5>3, <6>1, StepsTo DEF InsertAdmin, Inserted
          <6>. QED
            BY <2>3, <5>3, <6>2, <6>3 DEF Owner
        <5>. QED
          BY <4>2, <5>1, <5>2, <5>3
      <4>3. UNCHANGED <<memberships, pc, loc>> => Owner(q)' \/ (pc'[q] = "failed" /\ q \notin DOMAIN memberships')
        BY <2>2 DEF Owner
      <4>. QED
        BY <4>2, <4>3, NextCalls
    <3>. QED
      BY <3>1, <3>2
  <2>. QED
    BY <2>3, <2>4 DEF Registered
<1>3. CASE e \notin DOMAIN users
  <2>1. PICK p \in Request : Rowless(p) /\ Alone(p) /\ (Arrive(p) \/ Step(p) \/ Abort(p))
    BY <1>3, NextCalls
  <2>2. Step(p) \/ Abort(p)
    BY <1>3, <2>1, CallArrives DEF tables
  <2>3. InsertUser(p) \/ InsertInvited(p)
    <3>1. users' # users
      BY <1>3
    <3>. QED
      BY <2>2, <3>1, Zenon DEF Step, FindEmail, InsertUser, InsertChurch, InsertCampus, InsertAdmin, Verify,
           LoadMemberships, InsertToken, FindValid, Revoke, FindUser, InsertInvited, FindProfile,
           InsertProfile, FindMembership, Commit, FindMinistry, FindVolunteer, SelectMembership,
           StoreMembership, Abort, tables
  <2>4. /\ p \in DOMAIN loc /\ p \in DOMAIN loc' /\ loc' = loc
        /\ \A l : Goto(p, l) => pc'[p] = l
    BY <1>1, <2>2, <2>3, StepsTo DEF Grown, InsertUser, InsertInvited, Goto, TypeOK
  <2>5. InsertUser(p) /\ loc[p].user = e /\ pc'[p] = "church"
    <3>1. ~InsertInvited(p)
      BY <1>3 DEF InsertInvited, Inserted
    <3>. QED
      BY <1>3, <2>3, <2>4, <3>1 DEF InsertUser, Inserted
  <2>6. loc[p].op = "register"
    BY <2>4, <2>5 DEF InsertUser, IInv, CallFits, Registering
  <2>. QED
    BY <2>4, <2>5, <2>6 DEF Registered, Owner
<1>. QED
  BY <1>2, <1>3

LEMMA MinistriesStep ==
    ASSUME IInv, Next, NEW m \in DOMAIN ministries'
    PROVE  Admins(ministries[m])' # {}
<1>1. TypeOK /\ Grown
  BY NextGrows DEF IInv
<1>2. ASSUME m \in DOMAIN ministries PROVE Admins(ministries[m])' # {}
  <2>1. PICK k : k \in Admins(ministries[m])
    BY <1>2 DEF IInv
  <2>2. ministries'[m] = ministries[m]
    BY <1>1, <1>2 DEF Grown, Extends
  <2>3. k \in Admins(ministries[m])'
    BY <1>1, <2>1, <2>2 DEF Admins, Grown, Extends
  <2>. QED
    BY <2>3
<1>3. CASE m \notin DOMAIN ministries
  <2>1. PICK c \in churches, n \in Ministry : CreateMinistry(c, n)
    <3>1. ASSUME NEW p \in Request, Step(p) \/ Abort(p) PROVE ministries' = ministries
      BY <3>1, Zenon DEF Step, FindEmail, InsertUser, InsertChurch, InsertCampus, InsertAdmin, Verify,
           LoadMemberships, InsertToken, FindValid, Revoke, FindUser, InsertInvited, FindProfile,
           InsertProfile, FindMembership, Commit, FindMinistry, FindVolunteer, SelectMembership,
           StoreMembership, Abort, tables
    <3>2. ASSUME NEW p \in Request, Arrive(p) PROVE ministries' = ministries
      BY <3>2, CallArrives DEF tables
    <3>3. ASSUME NEW t \in Request, Logout(t) PROVE ministries' = ministries
      BY <3>3 DEF Logout
    <3>. QED
      BY <1>3, <3>1, <3>2, <3>3, Kinds
  <2>2. /\ memberships' = memberships /\ ministries'[m] = c
        /\ Admins(c) # {}
    BY <1>3, <2>1, PermittedFits DEF CreateMinistry, Inserted
  <2>. QED
    BY <2>2 DEF Admins
<1>. QED
  BY <1>2, <1>3

-----------------------------------------------------------------------------
(* Invitations and profiles. *)

\* A membership of a volunteer is of one with a profile in that church.
LEMMA VolunteersFit ==
    ASSUME IInv, NEW k \in DOMAIN memberships, memberships[k].role = "VOLUNTEER"
    PROVE  /\ k \in DOMAIN loc /\ loc[k].op \in {"invite", "assign"} /\ pc[k] = "done"
           /\ memberships[k] = VolunteerRow(k)
           /\ memberships[k].user \in DOMAIN profiles
           /\ profiles[memberships[k].user] = memberships[k].church
           /\ loc[k].op = "assign" =>
                loc[k].ministry \in DOMAIN ministries /\ ministries[loc[k].ministry] = loc[k].church
<1>1. RowFits(k)
  BY DEF IInv
<1>2. memberships[k] # AdminRow(k)
  BY DEF AdminRow, Member
<1>. QED
  BY <1>1, <1>2 DEF RowFits, HasProfile, VolunteerRow, Member

LEMMA InvitationArrives ==
    ASSUME IInv, NEW p \in Request, Arrive(p)
    PROVE  InvitationFits(p)'
BY CallArrives DEF InvitationFits

\* Who is inserting a profile of e after a step of p.
LEMMA InsertingStep ==
    ASSUME IInv, NEW p \in Request, Step(p) \/ Abort(p), NEW e
    PROVE  \/ Inserting(e)' \subseteq Inserting(e)
           \/ /\ InsertProfile(p) /\ Inserting(e) = {} /\ Inserting(e)' = {p}
              /\ loc[p].user = e /\ e \notin DOMAIN profiles /\ loc'[p].user = e
<1>1. TypeOK /\ TypeOK' /\ Grown /\ Alone(p) /\ p \in DOMAIN loc
  BY StepType, StepsTo DEF IInv
<1>2. \A q \in Inserting(e)' : q # p => q \in Inserting(e)
  BY <1>1 DEF Inserting, Alone, TypeOK
<1>3. CASE p \notin Inserting(e)'
  BY <1>2, <1>3
<1>4. CASE p \in Inserting(e)'
  <2>1. /\ pc'[p] \in {"members", "commit"} /\ loc'[p].user = e /\ loc[p].user = e
        /\ "profile" \notin loc'[p].found
    BY <1>1, <1>4 DEF Inserting, Grown
  <2>2. CASE pc'[p] = "commit"
    <3>1. FindMembership(p) /\ loc[p] \in Call
      BY <1>1, <2>2, StepsTo DEF TypeOK
    <3>2. pc[p] = "members" /\ loc[p].found \subseteq loc'[p].found
      BY <1>1, <3>1 DEF FindMembership, Call
    <3>3. p \in Inserting(e)
      BY <1>1, <2>1, <3>2 DEF Inserting
    <3>. QED
      BY <1>2, <3>3
  <2>3. CASE pc'[p] = "members"
    <3>1. FindProfile(p) \/ InsertProfile(p)
      BY <1>1, <2>3, StepsTo
    <3>2. CASE FindProfile(p)
      <4>1. loc'[p].found = IF HasProfile(p) THEN {"profile"} ELSE {}
        BY <1>1, <3>2 DEF FindProfile, TypeOK, Call
      <4>2. ~HasProfile(p)
        BY <2>1, <4>1
      <4>3. pc'[p] = "profile"
        BY <1>1, <3>2, <4>2 DEF FindProfile, Goto, TypeOK
      <4>. QED
        BY <2>3, <4>3
    <3>3. CASE InsertProfile(p)
      <4>1. Inserting(e) = {}
        BY <2>1, <3>3 DEF InsertProfile
      <4>2. e \notin DOMAIN profiles
        BY <1>1, <2>1, <2>3, <3>3 DEF InsertProfile, Goto, TypeOK
      <4>3. Inserting(e)' = {p}
        BY <1>2, <1>4, <4>1
      <4>. QED
        BY <2>1, <3>3, <4>1, <4>2, <4>3
    <3>. QED
      BY <3>1, <3>2, <3>3
  <2>. QED
    BY <2>1, <2>2, <2>3
<1>. QED
  BY <1>3, <1>4

\* Whose profile a step inserts.
LEMMA ProfilesStep ==
    ASSUME IInv, Next, NEW e \in DOMAIN profiles', e \notin DOMAIN profiles
    PROVE  \E p \in Request : /\ Commit(p) /\ p \in DOMAIN loc /\ loc[p].user = e /\ pc[p] = "commit"
                              /\ profiles'[e] = loc[p].church
                              /\ loc[p].found = {} /\ Inserting(e) = {p}
<1>1. PICK p \in Request : Step(p) \/ Abort(p)
  <2>1. ASSUME NEW p \in Request, Arrive(p) PROVE profiles' = profiles
    BY <2>1, CallArrives DEF tables
  <2>. QED
    BY <2>1, NextCalls
<1>2. Commit(p)
  <2>1. profiles' # profiles
    OBVIOUS
  <2>. QED
    BY <1>1, <2>1, Zenon DEF Step, FindEmail, InsertUser, InsertChurch, InsertCampus, InsertAdmin, Verify,
           LoadMemberships, InsertToken, FindValid, Revoke, FindUser, InsertInvited, FindProfile,
           InsertProfile, FindMembership, Commit, FindMinistry, FindVolunteer, SelectMembership,
           StoreMembership, Abort, tables
<1>3. p \in DOMAIN loc /\ loc[p] \in Call /\ pc[p] = "commit" /\ InvitationFits(p)
  BY <1>2, CommitType DEF Commit, IInv, TypeOK
<1>4. loc[p].user = e /\ profiles'[e] = loc[p].church
  BY <1>2 DEF Commit, Inserted
<1>5. "profile" \notin loc[p].found
  BY <1>3, <1>4 DEF InvitationFits, HasProfile
<1>6. "membership" \notin loc[p].found
  BY <1>3, <1>5 DEF InvitationFits
<1>7. loc[p].found = {}
  BY <1>3, <1>5, <1>6 DEF Call
<1>8. Inserting(e) = {p}
  BY <1>3, <1>4, <1>5 DEF InvitationFits, Inserting
<1>. QED
  BY <1>2, <1>3, <1>4, <1>7, <1>8

\* An invitation that does not move.
LEMMA InvitationKept ==
    ASSUME IInv, Next, NEW q \in DOMAIN loc, pc'[q] = pc[q], loc'[q] = loc[q]
    PROVE  InvitationFits(q)'
<1>1. Grown /\ InvitationFits(q)
  BY NextGrows DEF IInv
<1>2. HasProfile(q) => HasProfile(q)'
  BY <1>1, ProfileKept
<1>3. ASSUME pc[q] \in {"members", "commit"}, "profile" \notin loc[q].found
      PROVE  /\ loc[q].user \notin DOMAIN profiles'
             /\ Inserting(loc[q].user)' \subseteq {q}
  <2>1. /\ loc[q].user \notin DOMAIN profiles
        /\ Inserting(loc[q].user) = {q}
    BY <1>1, <1>3 DEF InvitationFits, Inserting
  <2>2. loc[q].user \notin DOMAIN profiles'
    <3>1. ASSUME NEW p \in Request, Commit(p), Inserting(loc[q].user) = {p} PROVE FALSE
      <4>1. p = q /\ pc'[p] = "done"
        BY <2>1, <3>1, MovesFact, PcFact DEF IInv
      <4>. QED
        BY <1>3, <4>1
    <3>. QED
      BY <2>1, <3>1, ProfilesStep
  <2>3. Inserting(loc[q].user)' \subseteq Inserting(loc[q].user)
    <3>1. CASE UNCHANGED <<pc, loc>>
      BY <3>1 DEF Inserting
    <3>2. ASSUME NEW p \in Request, Arrive(p), Alone(p)
          PROVE  Inserting(loc[q].user)' \subseteq Inserting(loc[q].user)
      <4>1. p \notin DOMAIN loc /\ pc'[p] \notin {"members", "commit"}
        BY <3>2, CallArrives
      <4>. QED
        BY <1>1, <3>2, <4>1, NextGrows DEF Inserting, Alone, TypeOK
    <3>3. ASSUME NEW p \in Request, Step(p) \/ Abort(p)
          PROVE  Inserting(loc[q].user)' \subseteq Inserting(loc[q].user)
      <4>. DEFINE e == loc[q].user
      <4>1. \/ Inserting(e)' \subseteq Inserting(e)
            \/ Inserting(e) = {}
        <5>1. loc'[q].user = e
          BY <1>3
        <5>. HIDE DEF e
        <5>2. {x \in DOMAIN loc' : pc'[x] \in {"members", "commit"} /\ loc'[x].user = e
                                    /\ "profile" \notin loc'[x].found} \subseteq Inserting(e)
              \/ Inserting(e) = {}
          BY <3>3, InsertingStep DEF Inserting
        <5>. QED
          BY <5>1, <5>2 DEF Inserting, e
      <4>. QED
        BY <2>1, <4>1
    <3>. QED
      BY <3>1, <3>2, <3>3, NextCalls
  <2>. QED
    BY <2>1, <2>2, <2>3
<1>. QED
  BY <1>1, <1>2, <1>3 DEF InvitationFits

\* An invitation that moves.
LEMMA InvitationMoves ==
    ASSUME IInv, NEW p \in Request, Step(p) \/ Abort(p)
    PROVE  InvitationFits(p)'
<1>1. TypeOK /\ TypeOK' /\ Grown /\ p \in DOMAIN loc /\ loc[p] \in Call /\ InvitationFits(p)
  BY StepType, StepsTo DEF IInv, TypeOK
<1>2. /\ \A l : Moves(p, l) => pc'[p] = l
      /\ \A l : Goto(p, l) => pc'[p] = l
  BY <1>1, PcFact DEF Goto, TypeOK
<1>3. CASE FindProfile(p)
  <2>1. /\ loc' = [loc EXCEPT ![p].found = IF HasProfile(p) THEN {"profile"} ELSE {}]
        /\ UNCHANGED tables
        /\ pc'[p] = IF HasProfile(p) THEN "members" ELSE "profile"
    BY <1>2, <1>3 DEF FindProfile
  <2>2. /\ loc'[p].found = IF HasProfile(p) THEN {"profile"} ELSE {}
        /\ HasProfile(p) => HasProfile(p)'
    BY <1>1, <2>1, ProfileKept DEF Call
  <2>. QED
    BY <2>1, <2>2 DEF InvitationFits
<1>4. CASE InsertProfile(p)
  <2>1. /\ pc[p] = "profile" /\ loc[p].found = {} /\ UNCHANGED loc /\ UNCHANGED tables
        /\ pc'[p] = IF loc[p].user \in DOMAIN profiles THEN "failed" ELSE "members"
        /\ Inserting(loc[p].user) = {}
    BY <1>1, <1>2, <1>4 DEF InsertProfile, InvitationFits
  <2>2. pc'[p] = "members" => loc[p].user \notin DOMAIN profiles' /\ Inserting(loc[p].user)' \subseteq {p}
    <3>1. loc[p].user \notin DOMAIN profiles => loc[p].user \notin DOMAIN profiles'
      BY <2>1 DEF tables
    <3>2. Inserting(loc[p].user)' \subseteq {p}
      <4>1. Alone(p)
        BY StepType
      <4>2. \A q \in DOMAIN loc' : loc'[q].user = loc'[p].user /\ pc'[q] \in {"members", "commit"}
                                    /\ "profile" \notin loc'[q].found => q = p
        BY <1>1, <2>1, <4>1 DEF Inserting, Alone, TypeOK
      <4>. QED
        BY <2>1, <4>2 DEF Inserting
    <3>. QED
      BY <2>1, <3>1, <3>2
  <2>. QED
    BY <2>1, <2>2 DEF InvitationFits
<1>5. CASE FindMembership(p)
  <2>. DEFINE there == Rows(VolunteerRow(p)) # {}
  <2>1. /\ pc[p] = "members" /\ pc'[p] = "commit" /\ UNCHANGED tables
        /\ loc' = [loc EXCEPT ![p].found = @ \cup (IF there THEN {"membership"} ELSE {})]
    BY <1>2, <1>5, MovesFact DEF FindMembership
  <2>2. loc'[p].found = loc[p].found \cup (IF there THEN {"membership"} ELSE {})
    BY <1>1, <2>1 DEF Call
  <2>3. loc[p].op = "invite" /\ loc[p].ministry = NoMinistry
    BY <1>1, <2>1 DEF IInv, CallFits, ParametersFit, Inviting
  <2>4. "profile" \in loc[p].found => there /\ HasProfile(p) /\ HasProfile(p)'
    <3>1. SUFFICES ASSUME "profile" \in loc[p].found PROVE there /\ HasProfile(p) /\ HasProfile(p)'
      OBVIOUS
    <3>2. HasProfile(p)
      BY <1>1, <2>1, <3>1 DEF InvitationFits
    <3>3. \E k : Rows(Member(loc[p].user, profiles[loc[p].user], NoMinistry, "VOLUNTEER")) = {k}
      BY <3>2 DEF IInv, ProfileFits, HasProfile
    <3>4. VolunteerRow(p) = Member(loc[p].user, profiles[loc[p].user], NoMinistry, "VOLUNTEER")
      BY <2>3, <3>2 DEF VolunteerRow, HasProfile
    <3>. QED
      BY <1>1, <3>2, <3>3, <3>4, ProfileKept
  <2>5. "profile" \notin loc[p].found =>
            /\ ~there /\ loc[p].user \notin DOMAIN profiles
            /\ Inserting(loc[p].user) \subseteq {p}
    <3>1. SUFFICES ASSUME "profile" \notin loc[p].found
                   PROVE  /\ ~there /\ loc[p].user \notin DOMAIN profiles
                          /\ Inserting(loc[p].user) \subseteq {p}
      OBVIOUS
    <3>2. loc[p].user \notin DOMAIN profiles /\ Inserting(loc[p].user) \subseteq {p}
      BY <1>1, <2>1, <3>1 DEF InvitationFits
    <3>3. ASSUME NEW k \in Rows(VolunteerRow(p)) PROVE FALSE
      BY <3>2, <3>3, VolunteersFit DEF Rows, VolunteerRow, Member
    <3>. QED
      BY <3>2, <3>3
  <2>. HIDE DEF there
  <2>6. "profile" \notin loc[p].found => Inserting(loc[p].user)' \subseteq {p}
    <3>1. Alone(p) /\ loc'[p].user = loc[p].user
      BY <1>1, StepType DEF Grown
    <3>2. "profile" \notin loc[p].found =>
            \A q \in DOMAIN loc' : loc'[q].user = loc'[p].user /\ pc'[q] \in {"members", "commit"}
                                    /\ "profile" \notin loc'[q].found => q = p
      BY <1>1, <2>1, <2>5, <3>1 DEF Inserting, Alone, TypeOK
    <3>. QED
      BY <3>1, <3>2 DEF Inserting
  <2>7. loc'[p].user = loc[p].user /\ profiles' = profiles
    BY <1>1, <2>1 DEF Grown, tables
  <2>8. "profile" \in loc'[p].found <=> "profile" \in loc[p].found
    BY <2>2
  <2>9. "membership" \in loc'[p].found <=> there
    BY <1>1, <2>1, <2>2 DEF InvitationFits
  <2>10. there <=> "profile" \in loc[p].found
    BY <2>4, <2>5
  <2>. QED
    BY <2>1, <2>4, <2>5, <2>6, <2>7, <2>8, <2>9, <2>10 DEF InvitationFits
<1>6. CASE pc'[p] \notin {"profile", "members", "commit"}
  BY <1>6 DEF InvitationFits
<1>7. pc'[p] = "profile" => FindProfile(p)
  <2>1. CASE FindEmail(p) \/ Verify(p) \/ FindUser(p) \/ FindMinistry(p) \/ FindVolunteer(p) \/ Abort(p)
    BY <1>2, <2>1, MovesFact
  <2>2. CASE FindValid(p) \/ Revoke(p) \/ LoadMemberships(p) \/ InsertToken(p) \/ InsertUser(p)
                \/ InsertChurch(p) \/ InsertCampus(p) \/ InsertAdmin(p)
    BY <1>2, <2>2, MovesFact
  <2>3. CASE InsertInvited(p) \/ InsertProfile(p) \/ FindMembership(p) \/ Commit(p)
                \/ SelectMembership(p) \/ StoreMembership(p)
    BY <1>2, <2>3, MovesFact
  <2>. QED
    BY <2>1, <2>2, <2>3, Zenon DEF Step
<1>. QED
  BY <1>1, <1>3, <1>4, <1>5, <1>6, <1>7, StepsTo

LEMMA InvitationsStep ==
    ASSUME IInv, Next, NEW q \in DOMAIN loc'
    PROVE  InvitationFits(q)'
<1>1. TypeOK /\ TypeOK'
  BY NextGrows DEF IInv
<1>2. CASE UNCHANGED <<users, churches, campuses, profiles, memberships, pc, loc, met>>
  BY <1>2, InvitationKept
<1>3. ASSUME NEW p \in Request, Alone(p), Arrive(p) \/ Step(p) \/ Abort(p) PROVE InvitationFits(q)'
  <2>1. CASE q = p
    BY <1>3, <2>1, InvitationArrives, InvitationMoves
  <2>2. CASE q # p
    BY <1>1, <1>3, <2>2, InvitationKept DEF Alone, TypeOK
  <2>. QED
    BY <2>1, <2>2
<1>. QED
  BY <1>2, <1>3, NextCalls

\* The row that a step inserts, and what is known of it.
LEMMA NewRow ==
    ASSUME IInv, Next, NEW k \in DOMAIN memberships', k \notin DOMAIN memberships
    PROVE  /\ k \in Request /\ k \in DOMAIN loc /\ UNCHANGED <<loc, met>>
           /\ DOMAIN memberships' = DOMAIN memberships \cup {k}
           /\ \/ InsertAdmin(k) /\ memberships'[k] = AdminRow(k)
              \/ /\ Commit(k) /\ memberships'[k] = VolunteerRow(k)
                 /\ loc[k].ministry = NoMinistry /\ loc[k].user \notin DOMAIN profiles
              \/ /\ StoreMembership(k) /\ memberships'[k] = VolunteerRow(k)
                 /\ pc[k] = "store" /\ loc[k].ministry \in Ministry
<1>1. PICK p \in Request : Rowless(p) /\ (Arrive(p) \/ Step(p) \/ Abort(p))
  BY NextCalls
<1>2. k = p /\ (Step(p) \/ Abort(p))
  BY <1>1, CallArrives DEF Rowless, tables
<1>3. InsertAdmin(p) \/ Commit(p) \/ StoreMembership(p)
  BY <1>2, RowsFrom
<1>4. p \in DOMAIN loc /\ loc[p] \in Call /\ CallFits(p) /\ ParametersFit(p) /\ InvitationFits(p)
  BY <1>2, StepsTo DEF IInv, TypeOK
<1>5. UNCHANGED <<loc, met>> /\ DOMAIN memberships' = DOMAIN memberships \cup {k}
  BY <1>2, <1>3 DEF InsertAdmin, Commit, StoreMembership, Inserted
<1>6. CASE InsertAdmin(p)
  BY <1>2, <1>4, <1>5, <1>6 DEF InsertAdmin, Inserted
<1>7. CASE Commit(p)
  <2>1. pc[p] = "commit" /\ memberships' = Inserted(memberships, p, VolunteerRow(p))
        /\ "membership" \notin loc[p].found
    BY <1>2, <1>7 DEF Commit
  <2>2. "profile" \notin loc[p].found /\ loc[p].user \notin DOMAIN profiles
    BY <1>4, <2>1 DEF InvitationFits
  <2>3. loc[p].ministry = NoMinistry
    BY <1>4, <2>1 DEF CallFits, ParametersFit, Inviting
  <2>. QED
    BY <1>2, <1>4, <1>5, <1>7, <2>1, <2>2, <2>3 DEF Inserted
<1>8. CASE StoreMembership(p)
  <2>1. loc[p].ministry \in Ministry /\ pc[p] = "store"
    BY <1>4, <1>8 DEF StoreMembership, CallFits, ParametersFit, Assigning
  <2>. QED
    BY <1>2, <1>4, <1>5, <1>8, <2>1 DEF StoreMembership, Inserted
<1>. QED
  BY <1>3, <1>6, <1>7, <1>8

LEMMA ProfileFitsStep ==
    ASSUME IInv, Next, NEW e \in DOMAIN profiles'
    PROVE  ProfileFits(e)'
<1>1. TypeOK /\ TypeOK' /\ Grown
  BY NextGrows DEF IInv
<1>2. e \in DOMAIN users'
  BY <1>1 DEF TypeOK
<1>3. CASE e \in DOMAIN profiles
  <2>1. ProfileFits(e) /\ profiles'[e] = profiles[e]
    BY <1>1, <1>3 DEF IInv, Grown, Extends
  <2>2. Admins(profiles[e])' # {}
    <3>1. PICK k : k \in Admins(profiles[e])
      BY <2>1 DEF ProfileFits
    <3>2. k \in Admins(profiles[e])'
      BY <1>1, <2>1, <3>1 DEF Admins, Grown, Extends
    <3>. QED
      BY <3>2
  <2>3. PICK k : Rows(Member(e, profiles[e], NoMinistry, "VOLUNTEER")) = {k}
    BY <2>1 DEF ProfileFits
  <2>4. ASSUME NEW j \in DOMAIN memberships', memberships'[j] = Member(e, profiles[e], NoMinistry, "VOLUNTEER")
        PROVE  j = k
    <3>1. CASE j \in DOMAIN memberships
      <4>1. memberships[j] = memberships'[j]
        BY <1>1, <3>1 DEF Grown, Extends
      <4>. QED
        BY <2>3, <2>4, <3>1, <4>1 DEF Rows
    <3>2. CASE j \notin DOMAIN memberships
      <4>1. memberships'[j] # AdminRow(j)
        BY <2>4 DEF AdminRow, Member
      <4>2. memberships'[j] = VolunteerRow(j) => loc[j].user = e /\ loc[j].ministry = NoMinistry
        BY <2>4 DEF VolunteerRow, Member
      <4>. QED
        BY <1>3, <2>4, <3>2, <4>1, <4>2, NewRow, OnboardingAssumption
    <3>. QED
      BY <3>1, <3>2
  <2>5. k \in DOMAIN memberships' /\ memberships'[k] = Member(e, profiles[e], NoMinistry, "VOLUNTEER")
    <3>1. k \in DOMAIN memberships /\ memberships[k] = Member(e, profiles[e], NoMinistry, "VOLUNTEER")
      BY <2>3 DEF Rows
    <3>. QED
      BY <1>1, <3>1 DEF Grown, Extends
  <2>6. Rows(Member(e, profiles[e], NoMinistry, "VOLUNTEER"))' = {k}
    BY <2>1, <2>4, <2>5 DEF Rows, Member
  <2>. QED
    BY <1>2, <2>2, <2>6 DEF ProfileFits
<1>4. CASE e \notin DOMAIN profiles
  <2>1. PICK p \in Request : /\ Commit(p) /\ p \in DOMAIN loc /\ loc[p].user = e /\ pc[p] = "commit"
                             /\ profiles'[e] = loc[p].church /\ loc[p].found = {}
    BY <1>4, ProfilesStep
  <2>2. loc[p].ministry = NoMinistry /\ Admins(loc[p].church) # {}
    BY <2>1 DEF IInv, CallFits, ParametersFit, Inviting
  <2>3. Admins(profiles[e])' # {}
    <3>1. PICK k : k \in Admins(loc[p].church)
      BY <2>2
    <3>2. k \in Admins(profiles[e])'
      BY <1>1, <2>1, <3>1 DEF Admins, Grown, Extends
    <3>. QED
      BY <3>2
  <2>. DEFINE row == Member(e, loc[p].church, NoMinistry, "VOLUNTEER")
  <2>4. memberships' = Inserted(memberships, p, row) /\ row.role = "VOLUNTEER" /\ row.user = e
    BY <2>1, <2>2 DEF Commit, VolunteerRow, Member
  <2>. HIDE DEF row
  <2>5. \A k \in DOMAIN memberships : memberships[k] # row
    BY <1>4, <2>4, VolunteersFit
  <2>6. /\ DOMAIN memberships' = DOMAIN memberships \cup {p}
        /\ \A k \in DOMAIN memberships' : memberships'[k] = IF k = p THEN row ELSE memberships[k]
    BY <2>4 DEF Inserted
  <2>7. {k \in DOMAIN memberships' : memberships'[k] = row} = {p}
    BY <2>5, <2>6
  <2>8. Rows(Member(e, profiles[e], NoMinistry, "VOLUNTEER"))' = {p}
    BY <2>1, <2>7 DEF Rows, row, Member
  <2>. QED
    BY <1>2, <2>3, <2>8 DEF ProfileFits
<1>. QED
  BY <1>3, <1>4

-----------------------------------------------------------------------------
(* Ministries and refresh tokens. *)

\* A new row repeats another only if the calls overlapped.
LEMMA NewRowRepeats ==
    ASSUME IInv, Next, NEW p \in DOMAIN memberships', p \notin DOMAIN memberships,
           NEW k \in DOMAIN memberships, memberships'[p] = memberships[k]
    PROVE  p \in met' \/ k \in met'
<1>1. p \in Request /\ UNCHANGED met
  BY NewRow
<1>2. memberships'[p] # AdminRow(p)
  <2>1. SUFFICES ASSUME memberships'[p] = AdminRow(p) PROVE FALSE
    OBVIOUS
  <2>2. InsertAdmin(p) /\ p \in DOMAIN loc /\ pc[p] = "admin"
    <3>1. AdminRow(p).role = "CHURCH_ADMIN" /\ VolunteerRow(p).role = "VOLUNTEER"
      BY DEF AdminRow, VolunteerRow, Member
    <3>2. AdminRow(p) # VolunteerRow(p)
      BY <3>1
    <3>. QED
      BY <2>1, <3>2, NewRow DEF InsertAdmin
  <2>3. memberships[k].church = p /\ memberships[k].role = "CHURCH_ADMIN"
    <3>1. memberships[k] = AdminRow(p)
      BY <2>1
    <3>. QED
      BY <3>1 DEF AdminRow, Member
  <2>4. k = p
    <3>1. k \in Admins(p)
      BY <2>3 DEF Admins
    <3>. QED
      BY <3>1, AdminsFit
  <2>. QED
    BY <2>4
<1>3. memberships'[p] = VolunteerRow(p) => k \in Rows(VolunteerRow(p)) /\ loc[p].user \in DOMAIN profiles
  <2>1. SUFFICES ASSUME memberships'[p] = VolunteerRow(p)
                 PROVE  k \in Rows(VolunteerRow(p)) /\ loc[p].user \in DOMAIN profiles
    OBVIOUS
  <2>2. memberships[k] = VolunteerRow(p)
    BY <2>1
  <2>3. memberships[k].role = "VOLUNTEER" /\ memberships[k].user = loc[p].user
    BY <2>2 DEF VolunteerRow, Member
  <2>4. memberships[k].user \in DOMAIN profiles
    BY <2>3, VolunteersFit
  <2>. QED
    BY <2>2, <2>3, <2>4 DEF Rows
<1>4. StoreMembership(p) => (\A j \in Rows(VolunteerRow(p)) : p \in met \/ j \in met)
  BY NewRow DEF IInv, StoreFits, StoreMembership
<1>. QED
  BY <1>1, <1>2, <1>3, <1>4, NewRow

LEMMA MinistryStep ==
    ASSUME IInv, Next
    PROVE  MinistryTwiceNeedsOverlap'
<1>1. Grown
  BY NextGrows
<1>2. SUFFICES ASSUME NEW k \in DOMAIN memberships', NEW j \in DOMAIN memberships',
                      k # j, memberships'[k] = memberships'[j]
               PROVE  k \in met' \/ j \in met'
  BY DEF MinistryTwiceNeedsOverlap
<1>3. /\ k \in DOMAIN memberships => memberships'[k] = memberships[k]
      /\ j \in DOMAIN memberships => memberships'[j] = memberships[j]
  BY <1>1 DEF Grown, Extends
<1>4. CASE k \in DOMAIN memberships /\ j \in DOMAIN memberships
  BY <1>1, <1>2, <1>3, <1>4 DEF IInv, MinistryTwiceNeedsOverlap, Grown
<1>5. CASE k \notin DOMAIN memberships /\ j \in DOMAIN memberships
  BY <1>2, <1>3, <1>5, NewRowRepeats
<1>6. CASE k \in DOMAIN memberships /\ j \notin DOMAIN memberships
  BY <1>2, <1>3, <1>6, NewRowRepeats
<1>7. CASE k \notin DOMAIN memberships /\ j \notin DOMAIN memberships
  BY <1>2, <1>7, NewRow
<1>. QED
  BY <1>4, <1>5, <1>6, <1>7

\* Who is about to insert a membership of a ministry after a step.
LEMMA StoringStep ==
    ASSUME IInv, Next, NEW q \in DOMAIN loc', pc'[q] = "store"
    PROVE  /\ q \in DOMAIN loc /\ VolunteerRow(q)' = VolunteerRow(q) /\ loc[q].ministry \in Ministry
           /\ pc[q] = "store" \/ SelectMembership(q)
<1>1. TypeOK /\ TypeOK' /\ Grown /\ q \in Request
  BY NextGrows DEF IInv, TypeOK
<1>2. ASSUME NEW p \in Request, Alone(p), Arrive(p) \/ Step(p) \/ Abort(p)
      PROVE  q \in DOMAIN loc /\ (pc[q] = "store" \/ SelectMembership(q))
  <2>1. CASE q = p
    BY <1>1, <1>2, <2>1, CallArrives, StepsTo
  <2>2. CASE q # p
    BY <1>1, <1>2, <2>2 DEF Alone
  <2>. QED
    BY <2>1, <2>2
<1>3. q \in DOMAIN loc /\ (pc[q] = "store" \/ SelectMembership(q))
  BY <1>2, NextCalls
<1>4. loc[q].ministry \in Ministry
  BY <1>3 DEF IInv, CallFits, ParametersFit, Assigning, SelectMembership
<1>. QED
  BY <1>1, <1>3, <1>4, RowsKept

LEMMA StoresStep ==
    ASSUME IInv, Next, NEW p \in DOMAIN loc'
    PROVE  StoreFits(p)'
<1>1. TypeOK /\ Grown /\ TypeOK'
  BY NextGrows DEF IInv
<1>2. SUFFICES ASSUME pc'[p] = "store"
               PROVE  /\ \A k \in Rows(VolunteerRow(p))' : p \in met' \/ k \in met'
                      /\ \A q \in DOMAIN loc' :
                            q # p /\ pc'[q] = "store" /\ VolunteerRow(q)' = VolunteerRow(p)'
                                => p \in met' \/ q \in met'
  BY DEF StoreFits
<1>3. /\ p \in DOMAIN loc /\ VolunteerRow(p)' = VolunteerRow(p) /\ loc[p].ministry \in Ministry
      /\ pc[p] = "store" \/ SelectMembership(p)
  BY <1>2, StoringStep
<1>4. ASSUME NEW q \in DOMAIN loc, SelectMembership(q), pc'[q] = "store"
      PROVE  /\ Rows(VolunteerRow(q)) = {} /\ UNCHANGED tables /\ pc[q] = "select"
             /\ \A r \in DOMAIN loc :
                    pc[r] = "store" /\ VolunteerRow(r) = VolunteerRow(q) => q \in met'
             /\ \A r \in Request \ {q} : pc'[r] = pc[r]
  BY <1>1, <1>4 DEF SelectMembership, Goto, TypeOK
<1>5. ASSUME NEW k \in Rows(VolunteerRow(p))' PROVE p \in met' \/ k \in met'
  <2>1. k \in DOMAIN memberships' /\ memberships'[k] = VolunteerRow(p)
    BY <1>3, <1>5 DEF Rows
  <2>2. CASE SelectMembership(p)
    BY <1>2, <1>3, <1>4, <2>1, <2>2 DEF Rows, tables
  <2>3. CASE pc[p] = "store" /\ k \in DOMAIN memberships
    <3>1. k \in Rows(VolunteerRow(p))
      BY <1>1, <2>1, <2>3 DEF Rows, Grown, Extends
    <3>. QED
      BY <1>1, <1>3, <2>3, <3>1 DEF IInv, StoreFits, Grown
  <2>4. CASE pc[p] = "store" /\ k \notin DOMAIN memberships
    <3>1. memberships'[k] # AdminRow(k)
      BY <2>1 DEF AdminRow, VolunteerRow, Member
    <3>2. VolunteerRow(k) = VolunteerRow(p) => loc[k].ministry = loc[p].ministry
      BY DEF VolunteerRow, Member
    <3>3. StoreMembership(k) /\ VolunteerRow(k) = VolunteerRow(p) /\ pc[k] = "store" /\ k \in DOMAIN loc
      <4>1. k \in DOMAIN loc /\ memberships'[k] = VolunteerRow(k)
        BY <2>1, <2>4, <3>1, NewRow
      <4>2. VolunteerRow(k) = VolunteerRow(p)
        BY <2>1, <4>1
      <4>3. loc[k].ministry # NoMinistry
        BY <1>3, <3>2, <4>2, OnboardingAssumption
      <4>. QED
        BY <2>1, <2>4, <3>1, <4>1, <4>2, <4>3, NewRow
    <3>4. pc'[k] = "done" /\ k # p
      <4>1. k \in Request
        BY <1>1, <3>3 DEF TypeOK
      <4>2. pc'[k] = "done"
        BY <1>1, <3>3, <4>1 DEF StoreMembership, Goto, TypeOK
      <4>. QED
        BY <1>2, <4>2
    <3>. QED
      BY <1>1, <1>3, <2>4, <3>3, <3>4 DEF IInv, StoreFits, Grown
  <2>. QED
    BY <1>3, <2>2, <2>3, <2>4
<1>6. ASSUME NEW q \in DOMAIN loc', q # p, pc'[q] = "store", VolunteerRow(q)' = VolunteerRow(p)'
      PROVE  p \in met' \/ q \in met'
  <2>1. /\ q \in DOMAIN loc /\ VolunteerRow(q)' = VolunteerRow(q)
        /\ pc[q] = "store" \/ SelectMembership(q)
    BY <1>6, StoringStep
  <2>2. p \in Request /\ q \in Request /\ VolunteerRow(q) = VolunteerRow(p)
    BY <1>1, <1>3, <1>6, <2>1 DEF TypeOK
  <2>3. CASE pc[p] = "store" /\ pc[q] = "store"
    BY <1>1, <1>3, <1>6, <2>1, <2>2, <2>3 DEF IInv, StoreFits, Grown
  <2>4. CASE SelectMembership(p)
    BY <1>2, <1>3, <1>4, <1>6, <2>1, <2>2, <2>4
  <2>5. CASE SelectMembership(q)
    BY <1>2, <1>3, <1>4, <1>6, <2>1, <2>2, <2>5
  <2>. QED
    BY <1>3, <2>1, <2>3, <2>4, <2>5
<1>. QED
  BY <1>5, <1>6

\* Who has found a token valid after a step, and whether it had before.
LEMMA ExchangingStep ==
    ASSUME IInv, Next, NEW q \in DOMAIN loc', Exchanging(q)'
    PROVE  /\ q \in DOMAIN loc /\ loc'[q].token = loc[q].token /\ loc[q].op = "refresh"
           /\ loc[q].token \in DOMAIN tokens
           /\ \/ /\ Exchanging(q)
                 /\ pc[q] = "revoke" => pc'[q] = "revoke" \/ Revoke(q)
              \/ /\ FindValid(q) /\ tokens[loc[q].token]
                 /\ pc[q] = "valid" /\ pc'[q] = "revoke"
<1>1. TypeOK /\ TypeOK' /\ Grown /\ q \in Request
  BY NextGrows DEF IInv, TypeOK
<1>2. pc'[q] \in {"revoke", "session", "token", "done"}
  BY DEF Exchanging
<1>3. ASSUME Step(q) \/ Abort(q), q \in DOMAIN loc, loc[q].op = "refresh"
      PROVE  \/ /\ Exchanging(q)
                /\ pc[q] = "revoke" => pc'[q] = "revoke" \/ Revoke(q)
             \/ /\ FindValid(q) /\ tokens[loc[q].token]
                /\ pc[q] = "valid" /\ pc'[q] = "revoke"
  <2>1. pc[q] = "revoke" => Revoke(q)
    <3>1. Abort(q) => pc'[q] = "failed"
      BY <1>1 DEF Abort, Goto, TypeOK
    <3>. QED
      BY <1>1, <1>2, <1>3, <3>1, StepsFrom
  <2>2. CASE pc[q] \in {"revoke", "session", "token", "done"}
    BY <1>3, <2>1, <2>2 DEF Exchanging
  <2>3. CASE pc[q] \notin {"revoke", "session", "token", "done"}
    <3>1. CallFits(q)
      BY <1>3 DEF IInv
    <3>2. pc[q] = "valid"
      <4>1. /\ pc[q] \in Registering => loc[q].op = "register"
            /\ pc[q] = "verify" => loc[q].op = "login"
            /\ pc[q] \in Inviting => loc[q].op = "invite"
            /\ pc[q] \in Assigning => loc[q].op = "assign"
        BY <3>1, Zenon DEF CallFits
      <4>2. pc[q] \in InFlight
        BY <1>1, <1>3, StepsFrom
      <4>3. pc[q] \notin Registering /\ pc[q] \notin Inviting /\ pc[q] \notin Assigning /\ pc[q] # "verify"
        BY <1>3, <4>1
      <4>. QED
        BY <2>3, <4>2, <4>3 DEF InFlight, SigningIn
    <3>3. FindValid(q)
      <4>1. CASE Abort(q)
        BY <1>1, <1>2, <4>1 DEF Abort, Goto, TypeOK
      <4>2. CASE Step(q)
        BY <3>2, <4>2 DEF Step, FindEmail, InsertUser, InsertChurch, InsertCampus, InsertAdmin, Verify,
             LoadMemberships, InsertToken, FindValid, Revoke, FindUser, InsertInvited, FindProfile,
             InsertProfile, FindMembership, Commit, FindMinistry, FindVolunteer, SelectMembership,
             StoreMembership
      <4>. QED
        BY <1>3, <4>1, <4>2
    <3>4. \A l : Goto(q, l) => pc'[q] = l
      BY <1>1 DEF Goto, TypeOK
    <3>5. Goto(q, "failed") \/ (tokens[loc[q].token] /\ Goto(q, "revoke"))
      BY <3>3 DEF FindValid
    <3>. QED
      BY <1>2, <3>2, <3>3, <3>4, <3>5
  <2>. QED
    BY <2>2, <2>3
<1>4. ASSUME NEW p \in Request, Alone(p), Arrive(p) \/ Step(p) \/ Abort(p)
      PROVE  /\ q \in DOMAIN loc
             /\ (q = p /\ (Step(q) \/ Abort(q))) \/ pc'[q] = pc[q]
  <2>1. CASE q = p
    BY <1>2, <1>4, <2>1, CallArrives, StepsTo, <1>1
  <2>2. CASE q # p
    BY <1>1, <1>4, <2>2 DEF Alone
  <2>. QED
    BY <2>1, <2>2
<1>5. q \in DOMAIN loc /\ (Step(q) \/ Abort(q) \/ pc'[q] = pc[q])
  BY <1>4, NextCalls
<1>6. loc'[q].token = loc[q].token /\ loc[q].op = "refresh" /\ loc[q].token \in DOMAIN tokens
  <2>1. loc'[q].token = loc[q].token /\ loc[q].op = "refresh"
    BY <1>1, <1>5 DEF Grown, Exchanging
  <2>. QED
    BY <1>5, <2>1 DEF IInv, ParametersFit
<1>7. CASE pc'[q] = pc[q]
  BY <1>2, <1>5, <1>6, <1>7 DEF Exchanging
<1>. QED
  BY <1>3, <1>5, <1>6, <1>7

LEMMA RefreshStep ==
    ASSUME IInv, Next, NEW p \in DOMAIN loc'
    PROVE  RefreshFits(p)'
<1>1. TypeOK /\ Grown /\ TypeOK'
  BY NextGrows DEF IInv
<1>2. SUFFICES ASSUME Exchanging(p)'
               PROVE  /\ pc'[p] # "revoke" => ~tokens'[loc'[p].token]
                      /\ \A q \in DOMAIN loc' :
                            q # p /\ Exchanging(q)' /\ loc'[q].token = loc'[p].token
                                => p \in met' \/ q \in met'
  BY DEF RefreshFits
<1>3. /\ p \in DOMAIN loc /\ loc'[p].token = loc[p].token /\ loc[p].op = "refresh"
      /\ loc[p].token \in DOMAIN tokens
      /\ \/ /\ Exchanging(p)
            /\ pc[p] = "revoke" => pc'[p] = "revoke" \/ Revoke(p)
         \/ /\ FindValid(p) /\ tokens[loc[p].token]
            /\ pc[p] = "valid" /\ pc'[p] = "revoke"
  BY <1>2, ExchangingStep
<1>4. ASSUME pc'[p] # "revoke" PROVE ~tokens'[loc'[p].token]
  <2>1. CASE pc[p] = "revoke"
    <3>1. tokens' = [tokens EXCEPT ![loc[p].token] = FALSE]
      BY <1>3, <1>4, <2>1 DEF Revoke, Revoked
    <3>. QED
      BY <1>3, <3>1
  <2>2. CASE pc[p] # "revoke"
    <3>1. ~tokens[loc[p].token]
      BY <1>3, <1>4, <2>2 DEF IInv, RefreshFits
    <3>. QED
      BY <1>1, <1>3, <3>1 DEF Grown
  <2>. QED
    BY <2>1, <2>2
\* Whoever finds the token valid meets whoever has and has not revoked it yet.
<1>5. ASSUME NEW r \in DOMAIN loc, NEW q \in DOMAIN loc, FindValid(r), tokens[loc[r].token],
             Exchanging(q), loc[q].token = loc[r].token
      PROVE  r \in met'
  <2>1. pc[q] = "revoke"
    BY <1>5 DEF IInv, RefreshFits
  <2>2. q \in {x \in DOMAIN loc : pc[x] = "revoke" /\ loc[x].token = loc[r].token}
    BY <1>5, <2>1
  <2>. QED
    BY <1>5, <2>2 DEF FindValid
<1>6. ASSUME NEW q \in DOMAIN loc', q # p, Exchanging(q)', loc'[q].token = loc'[p].token
      PROVE  p \in met' \/ q \in met'
  <2>1. /\ q \in DOMAIN loc /\ loc'[q].token = loc[q].token
        /\ \/ Exchanging(q)
           \/ /\ FindValid(q) /\ tokens[loc[q].token]
              /\ pc[q] = "valid" /\ pc'[q] = "revoke"
    BY <1>6, ExchangingStep
  <2>2. loc[q].token = loc[p].token /\ p \in Request /\ q \in Request
    BY <1>1, <1>3, <1>6, <2>1 DEF TypeOK
  <2>3. CASE Exchanging(p) /\ Exchanging(q)
    BY <1>1, <1>3, <1>6, <2>1, <2>2, <2>3 DEF IInv, RefreshFits, Grown
  <2>4. CASE FindValid(p) /\ tokens[loc[p].token] /\ Exchanging(q)
    BY <1>3, <1>5, <2>1, <2>2, <2>4
  <2>5. CASE FindValid(q) /\ tokens[loc[q].token] /\ Exchanging(p)
    BY <1>3, <1>5, <2>1, <2>2, <2>5
  <2>6. CASE FindValid(p) /\ FindValid(q) /\ pc[q] = "valid" /\ pc'[q] = "revoke"
    <3>1. \E l : Goto(p, l)
      BY <2>6 DEF FindValid
    <3>2. pc'[q] = pc[q]
      BY <1>1, <1>6, <2>2, <3>1 DEF Goto, TypeOK
    <3>. QED
      BY <2>6, <3>2
  <2>. QED
    BY <1>3, <2>1, <2>3, <2>4, <2>5, <2>6
<1>. QED
  BY <1>4, <1>6

-----------------------------------------------------------------------------
(* The theorems. *)

\* The strengthening holds throughout.
THEOREM Inductive == Spec => []IInv
<1>1. ASSUME IInv, Next PROVE IInv'
  <2>1. TypeOK' /\ MinistryTwiceNeedsOverlap'
    BY <1>1, NextGrows, MinistryStep
  <2>2. \A p \in DOMAIN loc' : ParametersFit(p)' /\ CallFits(p)'
    BY <1>1, CallsStep
  <2>3. \A p, q \in DOMAIN loc' : Owner(p)' /\ Owner(q)' /\ loc'[p].user = loc'[q].user => p = q
    BY <1>1, OwnersStep
  <2>4. /\ \A k \in DOMAIN memberships' : RowFits(k)'
        /\ \A t \in DOMAIN tokens' : TokenFits(t)'
        /\ \A c \in churches' : ChurchFits(c)'
    BY <1>1, RowsStep, TokensStep, ChurchesStep
  <2>5. /\ \A e \in DOMAIN users' : users'[e] => Registered(e)'
        /\ \A m \in DOMAIN ministries' : Admins(ministries[m])' # {}
        /\ \A e \in DOMAIN profiles' : ProfileFits(e)'
    BY <1>1, RegisteredStep, MinistriesStep, ProfileFitsStep
  <2>6. \A p \in DOMAIN loc' : InvitationFits(p)' /\ StoreFits(p)' /\ RefreshFits(p)'
    BY <1>1, InvitationsStep, StoresStep, RefreshStep
  <2>. QED
    BY <2>1, <2>2, <2>3, <2>4, <2>5, <2>6 DEF IInv
<1>2. ASSUME IInv, UNCHANGED vars PROVE IInv'
  <2>. USE <1>2 DEF vars
  <2>1. TypeOK' = TypeOK /\ MinistryTwiceNeedsOverlap' = MinistryTwiceNeedsOverlap
    BY DEF TypeOK, MinistryTwiceNeedsOverlap
  <2>2. /\ \A c : Admins(c)' = Admins(c)
        /\ \A p : HasProfile(p)' = HasProfile(p) /\ Owner(p)' = Owner(p)
        /\ \A p : VolunteerRow(p)' = VolunteerRow(p) /\ AdminRow(p)' = AdminRow(p)
        /\ \A e : Inserting(e)' = Inserting(e)
        /\ \A row : Rows(row)' = Rows(row)
    BY DEF Admins, HasProfile, Owner, VolunteerRow, AdminRow, Inserting, Rows
  <2>3. \A p : ParametersFit(p)' = ParametersFit(p) /\ CallFits(p)' = CallFits(p)
    BY <2>2 DEF ParametersFit, CallFits
  <2>4. \A k : RowFits(k)' = RowFits(k) /\ TokenFits(k)' = TokenFits(k) /\ ChurchFits(k)' = ChurchFits(k)
    BY <2>2 DEF RowFits, TokenFits, ChurchFits
  <2>5. \A e : Registered(e)' = Registered(e) /\ ProfileFits(e)' = ProfileFits(e)
    BY <2>2 DEF Registered, ProfileFits
  <2>6. \A p : /\ InvitationFits(p)' = InvitationFits(p) /\ StoreFits(p)' = StoreFits(p)
              /\ RefreshFits(p)' = RefreshFits(p)
    BY <2>2 DEF InvitationFits, StoreFits, RefreshFits, Exchanging
  <2>. QED
    BY <2>1, <2>2, <2>3, <2>4, <2>5, <2>6 DEF IInv
<1>. QED
  BY <1>1, <1>2, InitInv, PTL DEF Spec

\* The variables keep their types; so no ministry and no profile is ever of a
\* church that was not inserted, and no profile of a user that was not.
THEOREM TypeCorrect == Spec => []TypeOK
<1>1. IInv => TypeOK
  BY DEF IInv
<1>. QED
  BY <1>1, Inductive, PTL

\* A church without an administrator has nobody and nothing in it, one with an
\* administrator has its campus and an administrator of its own.
THEOREM ChurchesAreWhole == Spec => []ChurchIsWhole
<1>1. ASSUME IInv PROVE ChurchIsWhole
  <2>1. ASSUME NEW c \in churches, Admins(c) = {}
        PROVE  /\ c \notin ChurchesOf(loc[c].user)
               /\ \A m \in DOMAIN ministries : ministries[m] # c
               /\ \A e \in DOMAIN profiles : profiles[e] # c
               /\ \A p \in DOMAIN loc : loc[p].op \in {"invite", "assign"} => loc[p].church # c
    <3>1. ASSUME NEW k \in DOMAIN memberships, memberships[k].church = c PROVE FALSE
      <4>1. RowFits(k) /\ k \in DOMAIN loc
        BY <1>1 DEF IInv, RowFits
      <4>2. CASE memberships[k] = AdminRow(k)
        <5>1. memberships[k].church = k /\ memberships[k].role = "CHURCH_ADMIN"
          BY <4>2 DEF AdminRow, Member
        <5>2. k \in Admins(c)
          BY <3>1, <5>1 DEF Admins
        <5>. QED
          BY <2>1, <5>2
      <4>3. CASE memberships[k] = VolunteerRow(k) /\ loc[k].op \in {"invite", "assign"}
        <5>1. loc[k].church = c
          BY <3>1, <4>3 DEF VolunteerRow, Member
        <5>. QED
          BY <1>1, <2>1, <4>1, <4>3, <5>1 DEF IInv, ParametersFit
      <4>. QED
        BY <4>1, <4>2, <4>3 DEF RowFits
    <3>2. c \notin ChurchesOf(loc[c].user)
      BY <3>1 DEF ChurchesOf
    <3>3. \A m \in DOMAIN ministries : ministries[m] # c
      BY <1>1, <2>1 DEF IInv
    <3>4. \A e \in DOMAIN profiles : profiles[e] # c
      BY <1>1, <2>1 DEF IInv, ProfileFits
    <3>5. \A p \in DOMAIN loc : loc[p].op \in {"invite", "assign"} => loc[p].church # c
      BY <1>1, <2>1 DEF IInv, ParametersFit
    <3>. QED
      BY <3>2, <3>3, <3>4, <3>5
  <2>2. ASSUME NEW c \in churches, NEW k \in Admins(c)
        PROVE  /\ k = c /\ Owner(k) /\ k \in DOMAIN loc /\ c \in campuses
               /\ memberships[k].user = loc[k].user
    <3>1. k = c /\ k \in DOMAIN memberships /\ k \in DOMAIN loc /\ c \in campuses
          /\ loc[k].op = "register" /\ memberships[k] = AdminRow(c)
      BY <1>1, AdminsFit
    <3>2. memberships[k].user = loc[k].user
      BY <3>1 DEF AdminRow, Member
    <3>. QED
      BY <3>1, <3>2 DEF Owner
  <2>3. ASSUME NEW c \in churches, NEW k \in Admins(c)
        PROVE  /\ c \in campuses /\ users[memberships[k].user]
               /\ \A d \in churches :
                    \A j \in Admins(d) : memberships[j].user = memberships[k].user => j = k
    <3>1. users[memberships[k].user]
      BY <1>1, <2>2 DEF IInv, CallFits
    <3>2. ASSUME NEW d \in churches, NEW j \in Admins(d), memberships[j].user = memberships[k].user
          PROVE  j = k
      <4>1. /\ Owner(k) /\ k \in DOMAIN loc /\ memberships[k].user = loc[k].user
            /\ Owner(j) /\ j \in DOMAIN loc /\ memberships[j].user = loc[j].user
        BY <2>2
      <4>. QED
        BY <1>1, <3>2, <4>1 DEF IInv
    <3>. QED
      BY <2>2, <3>1, <3>2
  <2>. QED
    BY <2>1, <2>3 DEF ChurchIsWhole
<1>. QED
  BY <1>1, Inductive, PTL

\* However many invitations interleave, a profile has one church-wide membership
\* of its church, and a VOLUNTEER membership is of somebody with a profile there.
THEOREM VolunteersAreWhole == Spec => []VolunteersBelong
<1>1. ASSUME IInv PROVE VolunteersBelong
  <2>1. ASSUME NEW e \in DOMAIN profiles
        PROVE  Cardinality(Rows(Member(e, profiles[e], NoMinistry, "VOLUNTEER"))) = 1
    <3>1. PICK k : Rows(Member(e, profiles[e], NoMinistry, "VOLUNTEER")) = {k}
      BY <1>1 DEF IInv, ProfileFits
    <3>. QED
      BY <3>1, FS_Singleton
  <2>2. ASSUME NEW k \in DOMAIN memberships, memberships[k].role = "VOLUNTEER",
               memberships[k].ministry # NoMinistry
        PROVE  ministries[memberships[k].ministry] = memberships[k].church
    <3>1. /\ k \in DOMAIN loc /\ loc[k].op \in {"invite", "assign"}
          /\ memberships[k] = VolunteerRow(k)
          /\ loc[k].op = "assign" => ministries[loc[k].ministry] = loc[k].church
      BY <1>1, <2>2, VolunteersFit
    <3>2. memberships[k].ministry = loc[k].ministry /\ memberships[k].church = loc[k].church
      BY <3>1 DEF VolunteerRow, Member
    <3>3. loc[k].op = "assign"
      BY <1>1, <2>2, <3>1, <3>2 DEF IInv, ParametersFit
    <3>. QED
      BY <3>1, <3>2, <3>3
  <2>3. \A k \in DOMAIN memberships : memberships[k].role = "VOLUNTEER" =>
            /\ memberships[k].user \in DOMAIN profiles
            /\ profiles[memberships[k].user] = memberships[k].church
    BY <1>1, VolunteersFit
  <2>. QED
    BY <2>1, <2>2, <2>3 DEF VolunteersBelong
<1>. QED
  BY <1>1, Inductive, PTL

\* A volunteer is twice in a ministry only if two calls overlapped.
THEOREM MinistryOnce == Spec => []MinistryTwiceNeedsOverlap
<1>1. IInv => MinistryTwiceNeedsOverlap
  BY DEF IInv
<1>. QED
  BY <1>1, Inductive, PTL

\* A refresh token is exchanged twice only if two calls overlapped.
THEOREM RefreshOnce == Spec => []RefreshTwiceNeedsOverlap
<1>1. ASSUME IInv PROVE RefreshTwiceNeedsOverlap
  <2>1. ASSUME NEW p \in DOMAIN loc, NEW q \in DOMAIN loc, p # q,
               loc[p].op = "refresh", loc[q].op = "refresh", loc[p].token = loc[q].token,
               {pc[p], pc[q]} \subseteq {"session", "token", "done"}
        PROVE  p \in met \/ q \in met
    <3>1. Exchanging(p) /\ Exchanging(q)
      BY <2>1 DEF Exchanging
    <3>. QED
      BY <1>1, <2>1, <3>1 DEF IInv, RefreshFits
  <2>. QED
    BY <2>1 DEF RefreshTwiceNeedsOverlap
<1>. QED
  BY <1>1, Inductive, PTL

\* A session that names no church is of a user whose own registration has not
\* stored the administrator's membership.
THEOREM SessionsName == Spec => EmptySessionNeedsInterruption
<1>. DEFINE Interrupted(p) ==
        \E q \in DOMAIN loc :
            /\ loc[q].op = "register"
            /\ loc[q].user = loc[p].user
            /\ pc[q] \in {"church", "campus", "admin", "failed"}
            /\ Admins(q) = {}
<1>1. ASSUME IInv, Next, NEW p \in Request, pc[p] = "session", pc'[p] = "token", loc'[p].saw = {}
      PROVE  Interrupted(p)
  <2>1. TypeOK /\ p \in DOMAIN loc /\ loc[p] \in Call
    BY <1>1 DEF IInv, TypeOK
  <2>2. LoadMemberships(p)
    <3>1. ASSUME NEW r \in Request, Alone(r), Arrive(r) \/ Step(r) \/ Abort(r) PROVE LoadMemberships(p)
      <4>1. r = p
        BY <1>1, <3>1 DEF Alone
      <4>2. Step(p) \/ Abort(p)
        BY <1>1, <3>1, <4>1, CallArrives
      <4>3. Abort(p) => pc'[p] = "failed"
        BY <2>1 DEF Abort, Goto, TypeOK
      <4>. QED
        BY <1>1, <4>2, <4>3, StepsFrom
    <3>. QED
      BY <1>1, <3>1, NextCalls
  <2>3. ChurchesOf(loc[p].user) = {}
    BY <1>1, <2>1, <2>2 DEF LoadMemberships, Call
  <2>4. \A k \in DOMAIN memberships : memberships[k].user # loc[p].user
    BY <2>3 DEF ChurchesOf
  <2>5. Registered(loc[p].user)
    BY <1>1, <2>1 DEF IInv, CallFits
  <2>6. PICK q \in DOMAIN loc :
            /\ loc[q].op = "register" /\ loc[q].user = loc[p].user
            /\ Owner(q) \/ (pc[q] = "failed" /\ q \notin DOMAIN memberships)
    BY <2>5 DEF Registered
  <2>7. q \notin DOMAIN memberships
    <3>1. SUFFICES ASSUME q \in DOMAIN memberships PROVE FALSE
      OBVIOUS
    <3>2. memberships[q] = AdminRow(q)
      BY <1>1, <2>6, <3>1 DEF IInv, RowFits
    <3>3. memberships[q].user = loc[q].user
      BY <3>2 DEF AdminRow, Member
    <3>. QED
      BY <2>4, <2>6, <3>1, <3>3
  <2>8. Admins(q) = {}
    BY <1>1, <2>7, AdminsFit
  <2>9. pc[q] \in {"church", "campus", "admin", "failed"}
    BY <2>6, <2>7 DEF Owner
  <2>. QED
    BY <2>6, <2>8, <2>9
<1>2. IInv /\ [Next]_vars =>
        [\A p \in Request :
            pc[p] = "session" /\ pc'[p] = "token" /\ loc'[p].saw = {} => Interrupted(p)]_vars
  BY <1>1
<1>. QED
  BY <1>2, Inductive, PTL DEF Spec, EmptySessionNeedsInterruption
=============================================================================
