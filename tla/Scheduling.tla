----------------------------- MODULE Scheduling -----------------------------
(***************************************************************************)
(* Schedule generation and decline handling of ServeFlow's API.            *)
(*                                                                         *)
(* Every repository call is one database transaction and every handler is  *)
(* a sequence of such calls with an await between them, so a handler is a   *)
(* process (a Request) whose steps interleave with the steps of every      *)
(* other request.  A Request makes one POST .../schedule-runs or one        *)
(* POST .../decline call; the calls that are a single write (confirm,       *)
(* override, cancelling a service, editing a profile) are single actions.  *)
(*                                                                         *)
(* Rows are kept in tables: functions whose domain is the set of existing  *)
(* ids.  A run's id is the request that created it, an assignment's id is  *)
(* <<p, k>> for the k-th assignment that request p inserted.               *)
(*                                                                         *)
(* Scores order the candidates of a role by data the model leaves out      *)
(* (skills, reliability, workload), so any order is possible: the winners  *)
(* are an arbitrary subset of the right size.  The order of a service's    *)
(* roles is the order of their names, which leaders choose and edit, so    *)
(* any order is possible too.                                              *)
(*                                                                         *)
(* Definitions whose name ends in _Bug are seeded faults: no action uses    *)
(* them.  Substituting one for the definition it is named after must make  *)
(* the property that guards against it fail.                               *)
(***************************************************************************)
EXTENDS Integers, FiniteSets

CONSTANTS
    Volunteer,      \* volunteer profiles of one church
    Service,        \* services of that church
    Role,           \* service roles
    Date,           \* calendar days
    Request,        \* the calls of the multi-step handlers; bounds the model
    ServiceOf,      \* the service of each role
    DateOf,         \* the day of each service (no handler changes it)
    Qualified,      \* per role, the members of its ministry with its skills
    MinRequired,    \* per role, 0..50 in the DTO
    MaxAllowed,     \* per role, 1..50 in the DTO; may be below MinRequired
    Editors,        \* volunteers whose status or availability changes
    Confirmers,     \* volunteers who confirm an assignment
    Overrides,      \* volunteers a leader may put in by hand
    Cancellable,    \* services that may be cancelled
    NoRun           \* "no completed run yet"

ASSUME SchedulingAssumption ==
    /\ ServiceOf \in [Role -> Service]
    /\ DateOf \in [Service -> Date]
    /\ Qualified \in [Role -> SUBSET Volunteer]
    /\ MinRequired \in [Role -> Nat]
    /\ MaxAllowed \in [Role -> Nat \ {0}]
    /\ Editors \subseteq Volunteer
    /\ Confirmers \subseteq Volunteer
    /\ Overrides \subseteq Volunteer
    /\ Cancellable \subseteq Service
    /\ IsFiniteSet(Volunteer)
    /\ NoRun \notin Request

VARIABLES
    services,       \* ids in table services
    active,         \* volunteer profiles with status ACTIVE
    available,      \* <<v, d>> with at least one AVAILABLE row
    run,            \* table schedule_runs
    latest,         \* per service, the COMPLETED run with the last completed_at
    asg,            \* table assignments
    pc,             \* where each request is
    loc,            \* each request's local variables
    met             \* history: the requests that were in flight together

tables == <<services, active, available, run, latest, asg>>
vars == <<services, active, available, run, latest, asg, pc, loc, met>>

-----------------------------------------------------------------------------
(* Types. *)

AsgId == Request \X Nat

RunRow == [service : Service, status : {"RUNNING", "COMPLETED"},
           filled : Nat, required : Nat, gaps : SUBSET Role]

AsgRow == [run : Request, role : Role, vol : Volunteer,
           source : {"AI_GENERATED", "MANUAL_OVERRIDE"},
           confirmed : BOOLEAN, declined : BOOLEAN]

Solving == {"create", "resolve", "insert", "complete"}
Replacing == {"list", "find", "place", "notify"}
InFlight == Solving \cup Replacing

\* A handler's local variables.
Local == [service : Service,                \* service, or role.serviceId
          run : Request,                    \* run.id, or declined.scheduleRunId
          todo : SUBSET Role,               \* roles still to be staffed
          taken : SUBSET Volunteer,         \* takenThisRun, takenVolunteerIds
          picks : SUBSET (Role \X Volunteer), \* winners not inserted yet
          made : Nat,                       \* assignments inserted so far
          required : Nat,                   \* totalRequired
          gaps : SUBSET Role,
          target : SUBSET AsgId,            \* the declined assignment, if any
          decliner : SUBSET Volunteer]      \* its volunteer when it was declined

TypeOK ==
    /\ services \subseteq Service
    /\ active \subseteq Volunteer
    /\ available \subseteq Volunteer \X Date
    /\ DOMAIN run \subseteq Request
    /\ \A p \in DOMAIN run : run[p] \in RunRow
    /\ latest \in [Service -> Request \cup {NoRun}]
    /\ DOMAIN asg \subseteq AsgId
    /\ \A a \in DOMAIN asg : asg[a] \in AsgRow
    /\ pc \in [Request -> {"idle", "done", "failed"} \cup InFlight]
    /\ DOMAIN loc \subseteq Request
    /\ \A p \in DOMAIN loc : loc[p] \in Local
    /\ met \in [Request -> SUBSET Request]

Running == {p \in Request : pc[p] \in InFlight}

-----------------------------------------------------------------------------
(* Helpers. *)

EmptyTable == [x \in {} |-> x]

\* insert into table t: a new row under a new id.
Inserted(t, id, row) == [x \in DOMAIN t \cup {id} |-> IF x = id THEN row ELSE t[x]]

\* The rows of t that a cascading delete leaves.
Kept(t, ids) == [x \in ids |-> t[x]]

Lesser(m, n) == IF m < n THEN m ELSE n
Greater(m, n) == IF m < n THEN n ELSE m

RolesOf(s) == {r \in Role : ServiceOf[r] = s}

BookedElsewhere_Bug(v, s) ==    \* only finished runs count
    \E a \in DOMAIN asg :
        LET q == run[asg[a].run]
        IN  /\ asg[a].vol = v
            /\ ~asg[a].declined
            /\ q.status = "COMPLETED"
            /\ q.service # s
            /\ DateOf[q.service] = DateOf[s]

\* Constraint 5: a row that is not declined, of another service on that day.
BookedElsewhere(v, s) ==
    \E a \in DOMAIN asg :
        LET other == run[asg[a].run].service
        IN  /\ asg[a].vol = v
            /\ ~asg[a].declined
            /\ other # s
            /\ DateOf[other] = DateOf[s]

\* resolveCandidates: one query, so one consistent snapshot.
Candidates(r, excluded) ==
    LET s == ServiceOf[r]
    IN  {v \in (Qualified[r] \cap active) \ excluded :
            /\ s \in services
            /\ <<v, DateOf[s]>> \in available
            /\ ~BookedElsewhere(v, s)}

FillCount_Bug(r, n) ==          \* maxAllowed forgotten
    Lesser(n, Greater(MinRequired[r], 1))

\* filledForThisRole, for n scored candidates: at least one if there is one.
FillCount(r, n) ==
    LET slots == Lesser(MaxAllowed[r], n)
    IN  Lesser(slots, Greater(MinRequired[r], IF slots > 0 THEN 1 ELSE 0))

\* The request p arrives and is served with local variables l.
Arrive(p, at, l) ==
    /\ pc' = [pc EXCEPT ![p] = at]
    /\ loc' = Inserted(loc, p, l)
    /\ met' = [q \in Request |-> IF q = p THEN Running
                                 ELSE IF q \in Running THEN met[q] \cup {p}
                                 ELSE met[q]]

Goto(p, label) == pc' = [pc EXCEPT ![p] = label]

\* The handler returns or throws: the locals nothing refers to later are gone.
End(p, outcome) ==
    /\ Goto(p, outcome)
    /\ loc' = [loc EXCEPT ![p].todo = {}, ![p].taken = {}, ![p].picks = {},
                          ![p].required = 0, ![p].gaps = {}, ![p].decliner = {}]
    /\ UNCHANGED met

\* An insert whose foreign key is gone throws, and the handler answers 500.
Throw(p) == End(p, "failed") /\ UNCHANGED tables

-----------------------------------------------------------------------------
(* POST services/:serviceId/schedule-runs *)

\* The service is found (404 otherwise) and its roles are read.
Generate(p, s) ==
    /\ pc[p] = "idle"
    /\ s \in services
    /\ Arrive(p, "create",
              [service |-> s, run |-> p, todo |-> RolesOf(s), taken |-> {},
               picks |-> {}, made |-> 0, required |-> 0, gaps |-> {},
               target |-> {}, decliner |-> {}])
    /\ UNCHANGED <<tables>>

CreateRun_Bug(p) ==             \* the column's default status
    /\ pc[p] = "create"
    /\ loc[p].service \in services
    /\ run' = Inserted(run, p, [service |-> loc[p].service, status |-> "PENDING",
                                filled |-> 0, required |-> 0, gaps |-> {}])
    /\ Goto(p, IF loc[p].todo = {} THEN "complete" ELSE "resolve")
    /\ UNCHANGED <<services, active, available, latest, asg, loc, met>>

CreateRun(p) ==
    /\ pc[p] = "create"
    /\ loc[p].service \in services
    /\ run' = Inserted(run, p, [service |-> loc[p].service, status |-> "RUNNING",
                                filled |-> 0, required |-> 0, gaps |-> {}])
    /\ Goto(p, IF loc[p].todo = {} THEN "complete" ELSE "resolve")
    /\ UNCHANGED <<services, active, available, latest, asg, loc, met>>

CreateRunThrows(p) ==
    /\ pc[p] = "create"
    /\ loc[p].service \notin services
    /\ Throw(p)

ResolveNone_Bug(p) ==           \* `continue' before the gap is noted
    /\ pc[p] = "resolve"
    /\ \E r \in loc[p].todo :
        /\ Candidates(r, loc[p].taken) = {}
        /\ loc' = [loc EXCEPT ![p].todo = @ \ {r},
                              ![p].required = @ + MinRequired[r]]
        /\ Goto(p, IF loc[p].todo = {r} THEN "complete" ELSE "resolve")
    /\ UNCHANGED <<tables, met>>

ResolveNone_Stuck_Bug(p) ==     \* the loop does not go on to the next role
    /\ pc[p] = "resolve"
    /\ \E r \in loc[p].todo : Candidates(r, loc[p].taken) = {}
    /\ UNCHANGED vars

\* The next role has no candidate: the loop continues with the one after it.
ResolveNone(p) ==
    /\ pc[p] = "resolve"
    /\ \E r \in loc[p].todo :
        /\ Candidates(r, loc[p].taken) = {}
        /\ loc' = [loc EXCEPT ![p].todo = @ \ {r},
                              ![p].required = @ + MinRequired[r],
                              ![p].gaps = IF MinRequired[r] > 0 THEN @ \cup {r} ELSE @]
        /\ Goto(p, IF loc[p].todo = {r} THEN "complete" ELSE "resolve")
    /\ UNCHANGED <<tables, met>>

\* The next role's winners are chosen; the rows are inserted one by one later.
Resolve(p) ==
    /\ pc[p] = "resolve"
    /\ \E r \in loc[p].todo :
        LET cands == Candidates(r, loc[p].taken)
            fill == FillCount(r, Cardinality(cands))
        IN  /\ cands # {}
            /\ \E winners \in SUBSET cands :
                /\ Cardinality(winners) = fill
                /\ loc' = [loc EXCEPT ![p].todo = @ \ {r},
                                      ![p].required = @ + MinRequired[r],
                                      ![p].gaps = IF fill < MinRequired[r] THEN @ \cup {r} ELSE @,
                                      ![p].picks = {r} \X winners]
    /\ Goto(p, "insert")
    /\ UNCHANGED <<tables, met>>

\* createAssignment: a new row of the request's run.
InsertRow(p, r, v) ==
    asg' = Inserted(asg, <<p, loc[p].made>>,
                    [run |-> loc[p].run, role |-> r, vol |-> v,
                     source |-> "AI_GENERATED",
                     confirmed |-> FALSE, declined |-> FALSE])

Insert(p) ==
    /\ pc[p] = "insert"
    /\ p \in DOMAIN run
    /\ \E pick \in loc[p].picks :
        /\ InsertRow(p, pick[1], pick[2])
        /\ loc' = [loc EXCEPT ![p].picks = @ \ {pick},
                              ![p].taken = @ \cup {pick[2]},
                              ![p].made = @ + 1]
        /\ Goto(p, IF loc[p].picks # {pick} THEN "insert"
                   ELSE IF loc[p].todo # {} THEN "resolve" ELSE "complete")
    /\ UNCHANGED <<services, active, available, run, latest, met>>

InsertThrows(p) ==
    /\ pc[p] = "insert"
    /\ p \notin DOMAIN run
    /\ Throw(p)

\* completeRun; the coverage.changed event that follows leaves no state here.
CompleteRun(p) ==
    /\ pc[p] = "complete"
    /\ p \in DOMAIN run
    /\ run' = [run EXCEPT ![p].status = "COMPLETED",
                          ![p].filled = loc[p].made,
                          ![p].required = loc[p].required,
                          ![p].gaps = loc[p].gaps]
    /\ latest' = [latest EXCEPT ![loc[p].service] = p]
    /\ End(p, "done")
    /\ UNCHANGED <<services, active, available, asg>>

\* The update returned no row: toRunRecord(undefined) throws.
CompleteRunThrows(p) ==
    /\ pc[p] = "complete"
    /\ p \notin DOMAIN run
    /\ Throw(p)

-----------------------------------------------------------------------------
(* POST assignments/:assignmentId/decline *)

\* The row is found (404 otherwise) and marked, declined already or not.
Decline(p, a) ==
    /\ pc[p] = "idle"
    /\ a \in DOMAIN asg
    /\ asg' = [asg EXCEPT ![a].declined = TRUE]
    /\ Arrive(p, "list",
              [service |-> ServiceOf[asg[a].role], run |-> asg[a].run,
               todo |-> {asg[a].role}, taken |-> {}, picks |-> {}, made |-> 0,
               required |-> 0, gaps |-> {},
               target |-> {a}, decliner |-> {asg[a].vol}])
    /\ UNCHANGED <<services, active, available, run, latest>>

\* The handler answers with no replacement.
Answer(p) == End(p, "done") /\ UNCHANGED tables

\* The role or its service is gone: return null.
ListTakenGone(p) ==
    /\ pc[p] = "list"
    /\ loc[p].service \notin services
    /\ Answer(p)

StillPlaced_Bug(p) ==           \* looks at the vacated role only
    {asg[a].vol : a \in {b \in DOMAIN asg \ loc[p].target :
                            /\ asg[b].run = loc[p].run
                            /\ ~asg[b].declined
                            /\ asg[b].role \in loc[p].todo}}

\* listAssignmentsForRun, without declined rows and the row being declined.
StillPlaced(p) ==
    {asg[a].vol : a \in {b \in DOMAIN asg \ loc[p].target :
                            asg[b].run = loc[p].run /\ ~asg[b].declined}}

ListTaken_Bug(p) ==             \* the volunteer who declined is not pushed
    /\ pc[p] = "list"
    /\ loc[p].service \in services
    /\ loc' = [loc EXCEPT ![p].taken = StillPlaced(p)]
    /\ Goto(p, "find")
    /\ UNCHANGED <<tables, met>>

\* takenVolunteerIds: those still placed in the run, and who just declined.
ListTaken(p) ==
    /\ pc[p] = "list"
    /\ loc[p].service \in services
    /\ loc' = [loc EXCEPT ![p].taken = StillPlaced(p) \cup loc[p].decliner]
    /\ Goto(p, "find")
    /\ UNCHANGED <<tables, met>>

FindReplacementNone_Bug(p) ==   \* waits until somebody becomes available
    /\ pc[p] = "find"
    /\ \A r \in loc[p].todo : Candidates(r, loc[p].taken) = {}
    /\ UNCHANGED vars

FindReplacementNone(p) ==
    /\ pc[p] = "find"
    /\ \A r \in loc[p].todo : Candidates(r, loc[p].taken) = {}
    /\ Answer(p)

FindReplacement(p) ==
    /\ pc[p] = "find"
    /\ \E r \in loc[p].todo : \E winner \in Candidates(r, loc[p].taken) :
        loc' = [loc EXCEPT ![p].picks = {<<r, winner>>}]
    /\ Goto(p, "place")
    /\ UNCHANGED <<tables, met>>

\* createAssignment in the declined row's run, however full the role is.
Place(p) ==
    /\ pc[p] = "place"
    /\ loc[p].run \in DOMAIN run
    /\ \E pick \in loc[p].picks :
        /\ InsertRow(p, pick[1], pick[2])
        /\ loc' = [loc EXCEPT ![p].picks = {}, ![p].made = @ + 1]
    /\ Goto(p, "notify")
    /\ UNCHANGED <<services, active, available, run, latest, met>>

PlaceThrows(p) ==
    /\ pc[p] = "place"
    /\ loc[p].run \notin DOMAIN run
    /\ Throw(p)

\* The replacement is told by notifyByEmail; its failure is an Abort, and the
\* row placed before stays.
Notify(p) ==
    /\ pc[p] = "notify"
    /\ Answer(p)

-----------------------------------------------------------------------------
(* Failures, and the calls of other handlers that are one transaction. *)

\* Any transaction may fail and roll back (500), and the process may stop:
\* what the request has not written is never written.
Abort(p) ==
    /\ pc[p] \in InFlight
    /\ Throw(p)

\* POST assignments/:assignmentId/confirm: declined already or not.
Confirm(a) ==
    /\ asg' = [asg EXCEPT ![a].confirmed = TRUE]
    /\ UNCHANGED <<services, active, available, run, latest, pc, loc, met>>

\* POST assignments/:assignmentId/override: no constraint is checked, and
\* confirmed_at and declined_at stay as they were.
Override(a, v) ==
    /\ asg' = [asg EXCEPT ![a].vol = v, ![a].source = "MANUAL_OVERRIDE"]
    /\ UNCHANGED <<services, active, available, run, latest, pc, loc, met>>

CancelService_Bug(s) ==         \* no cascade from runs to assignments
    /\ s \in services
    /\ services' = services \ {s}
    /\ run' = Kept(run, {q \in DOMAIN run : run[q].service # s})
    /\ latest' = [latest EXCEPT ![s] = NoRun]
    /\ UNCHANGED <<active, available, asg, pc, loc, met>>

\* DELETE services/:serviceId: runs and assignments go by cascade.
CancelService(s) ==
    LET runsLeft == {q \in DOMAIN run : run[q].service # s}
    IN  /\ s \in services
        /\ services' = services \ {s}
        /\ run' = Kept(run, runsLeft)
        /\ asg' = Kept(asg, {a \in DOMAIN asg : asg[a].run \in runsLeft})
        /\ latest' = [latest EXCEPT ![s] = NoRun]
        /\ UNCHANGED <<active, available, pc, loc, met>>

\* PATCH volunteers/:volunteerId/status.
SetStatus(v, isActive) ==
    /\ active' = IF isActive THEN active \cup {v} ELSE active \ {v}
    /\ UNCHANGED <<services, available, run, latest, asg, pc, loc, met>>

\* POST availability adds an AVAILABLE row; PATCH turns the only one away.
SetAvailability(v, d, isAvailable) ==
    /\ available' = IF isAvailable THEN available \cup {<<v, d>>}
                                   ELSE available \ {<<v, d>>}
    /\ UNCHANGED <<services, active, run, latest, asg, pc, loc, met>>

-----------------------------------------------------------------------------
Init ==
    /\ services = Service
    /\ active = Volunteer
    /\ available = Volunteer \X Date
    /\ run = EmptyTable
    /\ latest = [s \in Service |-> NoRun]
    /\ asg = EmptyTable
    /\ pc = [p \in Request |-> "idle"]
    /\ loc = EmptyTable
    /\ met = [p \in Request |-> {}]

SolveStep(p) ==
    \/ CreateRun(p) \/ CreateRunThrows(p)
    \/ Resolve(p) \/ ResolveNone(p)
    \/ Insert(p) \/ InsertThrows(p)
    \/ CompleteRun(p) \/ CompleteRunThrows(p)

ReplaceStep(p) ==
    \/ ListTaken(p) \/ ListTakenGone(p)
    \/ FindReplacement(p) \/ FindReplacementNone(p)
    \/ Place(p) \/ PlaceThrows(p)
    \/ Notify(p)

RequestStep(p) == SolveStep(p) \/ ReplaceStep(p)

Next ==
    \/ \E p \in Request :
        \/ RequestStep(p)
        \/ Abort(p)
        \/ \E s \in Service : Generate(p, s)
        \/ \E a \in DOMAIN asg : Decline(p, a)
    \/ \E a \in {b \in DOMAIN asg : asg[b].vol \in Confirmers} : Confirm(a)
    \/ \E a \in DOMAIN asg, v \in Overrides : Override(a, v)
    \/ \E s \in Cancellable : CancelService(s)
    \/ \E v \in Editors, b \in BOOLEAN : SetStatus(v, b)
    \/ \E v \in Editors, d \in Date, b \in BOOLEAN : SetAvailability(v, d, b)

Spec == Init /\ [][Next]_vars

\* Node runs every continuation whose query has returned.
FairSpec == Spec /\ \A p \in Request : WF_vars(RequestStep(p))

-----------------------------------------------------------------------------
(* Properties. *)

\* The row holds its volunteer on the strength of resolveCandidates.
Chosen(a) == ~asg[a].declined /\ asg[a].source = "AI_GENERATED"

\* Two calls that were in flight at the same time.
Overlapped(p, q) == p # q /\ p \in met[q] /\ q \in met[p]

\* The rows request p inserted, and those of them for role r.
RowsOf(p) == {a \in DOMAIN asg : a[1] = p}
RowsFor(p, r) == {a \in RowsOf(p) : asg[a].role = r}

\* The rows of run q that still fill role r.
LiveRows(q, r) ==
    {a \in DOMAIN asg : asg[a].run = q /\ asg[a].role = r /\ ~asg[a].declined}

SameVolunteerTwoServices(a, b) ==
    /\ Chosen(a) /\ Chosen(b)
    /\ asg[a].vol = asg[b].vol
    /\ run[asg[a].run].service # run[asg[b].run].service
    /\ DateOf[run[asg[a].run].service] = DateOf[run[asg[b].run].service]

SameVolunteerTwoRoles(a, b) ==
    /\ Chosen(a) /\ Chosen(b)
    /\ a # b
    /\ asg[a].vol = asg[b].vol
    /\ asg[a].run = asg[b].run

\* Constraint 5 of resolveCandidates, for every pair of rows the solver made:
\* nobody is placed in two services of one day.  FALSE: see the run that
\* violates it.
NoDoubleBooking ==
    \A a, b \in DOMAIN asg : ~SameVolunteerTwoServices(a, b)

\* What the checks of resolveCandidates do guarantee: when the solver books a
\* volunteer in two services of one day, the two calls that inserted the rows
\* were in flight at the same time.  Declines, overrides, cancellations,
\* profile edits and failures in between never cause it.
DoubleBookingNeedsOverlap ==
    \A a, b \in DOMAIN asg :
        SameVolunteerTwoServices(a, b) => Overlapped(a[1], b[1])

\* takenThisRun and takenVolunteerIds: the solver gives a volunteer two roles of
\* one run only by two calls in flight at the same time, never within one call.
TwoRolesNeedOverlap ==
    \A a, b \in DOMAIN asg :
        SameVolunteerTwoRoles(a, b) => Overlapped(a[1], b[1])

\* The coverage and the gaps a finished run reports are those of the rows it
\* inserted, whatever happened to the tables while it ran.
CoverageIsExact ==
    \A p \in DOMAIN run : run[p].status = "COMPLETED" =>
        /\ run[p].filled = Cardinality(RowsOf(p))
        /\ run[p].gaps = {r \in RolesOf(run[p].service) :
                            Cardinality(RowsFor(p, r)) < MinRequired[r]}

\* The decline calls for a role of run q that placed a replacement, and the
\* rows they were for.
Placed(q, r) ==
    {p \in DOMAIN loc : /\ loc[p].target # {}
                        /\ loc[p].run = q
                        /\ loc[p].made = 1
                        /\ \A a \in loc[p].target : asg[a].role = r}
Vacated(q, r) == UNION {loc[p].target : p \in Placed(q, r)}

\* A role holds more live rows than maxAllowed only by as many as the decline
\* calls that placed a replacement for a row already replaced.
OverfillNeedsRepeatedDecline ==
    \A q \in DOMAIN run : \A r \in RolesOf(run[q].service) :
        Cardinality(LiveRows(q, r)) + Cardinality(Vacated(q, r))
            <= MaxAllowed[r] + Cardinality(Placed(q, r))

\* Cancelling a service under a solve or a decline leaves no row behind it.
NoOrphans ==
    /\ \A q \in DOMAIN run : run[q].service \in services
    /\ \A a \in DOMAIN asg :
        /\ asg[a].run \in DOMAIN run
        /\ ServiceOf[asg[a].role] = run[asg[a].run].service
    /\ \A s \in services : latest[s] # NoRun => latest[s] \in DOMAIN run

\* The volunteer who declines is not the replacement of that same call.
NotReplacedByDecliner ==
    \A p \in DOMAIN loc : \A pick \in loc[p].picks : pick[2] \notin loc[p].decliner

\* dashboard.service.ts: roles with too few live rows over ALL completed runs.
MissingRoles(s) ==
    {r \in RolesOf(s) :
        Cardinality({a \in DOMAIN asg : /\ asg[a].role = r
                                        /\ ~asg[a].declined
                                        /\ run[asg[a].run].status = "COMPLETED"})
            < MinRequired[r]}

\* "null if the role is now a coverage gap (visible on the Phase 5 dashboard)":
\* a decline in the service's current run that found nobody and left the role
\* short shows among the dashboard's missing roles.  FALSE after the schedule
\* was generated again: the rows of the older run are counted as well.
GapIsVisible ==
    \A p \in DOMAIN loc :
        (/\ pc[p] = "done"
         /\ loc[p].target # {}
         /\ loc[p].made = 0
         /\ loc[p].service \in services
         /\ latest[loc[p].service] = loc[p].run)
            => \A r \in {asg[a].role : a \in loc[p].target} :
                Cardinality(LiveRows(loc[p].run, r)) < MinRequired[r]
                    => r \in MissingRoles(loc[p].service)

\* Every schedule run ends: it is completed, or its service is cancelled, or
\* the request that runs it fails (and then it stays RUNNING).
EveryRunEnds ==
    \A p \in Request :
        (p \in DOMAIN run)
            ~> \/ p \notin DOMAIN run
               \/ run[p].status = "COMPLETED"
               \/ pc[p] = "failed"

\* Every call is answered, with a result or an error.
EveryCallIsAnswered ==
    \A p \in Request : (pc[p] \in InFlight) ~> (pc[p] \in {"done", "failed"})
=============================================================================
