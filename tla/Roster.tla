------------------------------- MODULE Roster -------------------------------
(***************************************************************************)
(* Who can serve, and what the reports say of it: profiles, availability,   *)
(* skills and the needs of roles, the candidates and scores drawn from them, *)
(* and the figures of the dashboard, the analytics and the assistant.  A     *)
(* report is an operator: it reads in one transaction and writes nothing.    *)
(***************************************************************************)
EXTENDS Integers, FiniteSets, FiniteSetsExt, Functions, Bags

CONSTANTS
    Volunteer,      \* volunteer profiles; bounds the model
    Role,           \* ids for rows of service_roles, and their names
    Skill,          \* names of skills
    Request,        \* calls at work at a time; bounds the model
    Run,            \* ids for rows of schedule_runs; bounds the model
    Service,        \* services, kept as they are
    DayOf,          \* their dates, in days
    Member,         \* the ministry memberships: pairs of volunteer and ministry
    MinistryOf,     \* the ministry each role asks for
    Level,          \* experience levels; 1 to 5 in the code
    Size,           \* the <<min_required, max_allowed>> a role may have
    Reliability,    \* volunteer_profiles.reliability_score, in percent
    Rules,          \* the dates each recurrence rule expands to
    Clock           \* the days the clock shows; bounds the model

ASSUME RosterAssumption ==
    /\ IsFiniteSet(Volunteer)           \* they are rows of a table
    /\ DayOf \in [Service -> Nat]
    /\ DOMAIN MinistryOf = Role
    /\ \A m \in Member : m[1] \in Volunteer
    /\ Level \subseteq 1..5 /\ Size \subseteq Nat \X Nat
    /\ Reliability \in [Volunteer -> 0..100]
    /\ \A days \in Rules : days \subseteq Nat /\ IsFiniteSet(days)
    /\ Clock \subseteq Nat /\ Clock # {}

VARIABLES
    now,            \* today
    status,         \* volunteer_profiles.status
    preferred,      \* volunteer_profiles.preferred_role_names
    trained,        \* volunteers with a completed row in training_records
    availability,   \* table availability, a bag: rows may be alike
    skills,         \* table skills, by unique name
    level,          \* table volunteer_skills
    roles,          \* table service_roles
    needs,          \* table service_role_skills
    runs,           \* table schedule_runs: whether each has completed
    assigned,       \* table assignments, a bag
    loc,            \* what each call for a skill holds
    solve,          \* what each call that staffs the roles of a run holds
    rank            \* the role such a call has at hand, and what it has read of
                    \* the candidates

profile == <<status, preferred, trained>>
asked == <<skills, level, roles, needs>>
schedule == <<runs, assigned, solve, rank>>
vars == <<now, profile, availability, asked, schedule, loc>>

-----------------------------------------------------------------------------
(* Types.  The other statuses and answers count like the second one here.    *)

Statuses == {"ACTIVE", "INACTIVE"}
Answers == {"AVAILABLE", "UNAVAILABLE"}
Offer == [v : Volunteer, day : Nat, answer : Answers]
RoleRow == [service : Service, min : Nat, max : Nat]
Asg == [v : Volunteer, role : Role, run : Run, declined : BOOLEAN]

\* What staffs the roles of a run: generateSchedule, or handleDecline before and
\* after it has listed who is taken.
Job == {"generate", "list", "replace"}

TypeOK ==
    /\ now \in Clock
    /\ status \in [Volunteer -> Statuses]
    /\ preferred \in [Volunteer -> SUBSET Role]
    /\ trained \subseteq Volunteer
    /\ IsABag(availability) /\ BagToSet(availability) \subseteq Offer
    /\ skills \subseteq Skill
    /\ DOMAIN level \subseteq Volunteer \X skills /\ Range(level) \subseteq Level
    /\ DOMAIN roles \subseteq Role /\ Range(roles) \subseteq RoleRow
    /\ DOMAIN needs \subseteq (DOMAIN roles) \X skills /\ Range(needs) \subseteq Level
    /\ runs \in [DOMAIN runs -> BOOLEAN] /\ DOMAIN runs \subseteq Run
    /\ IsABag(assigned)
    /\ \A a \in BagToSet(assigned) : a \in Asg /\ a.role \in DOMAIN roles /\ a.run \in DOMAIN runs
    /\ DOMAIN loc \subseteq Request /\ DOMAIN solve \subseteq Request
    /\ \A p \in DOMAIN solve : /\ solve[p].job \in Job /\ solve[p].run \in DOMAIN runs
                              /\ solve[p].taken \subseteq Volunteer
                              /\ DOMAIN solve[p].todo \subseteq DOMAIN roles
                              /\ Range(solve[p].todo) \subseteq RoleRow
    /\ DOMAIN rank \subseteq DOMAIN solve
    /\ \A p \in DOMAIN rank : /\ rank[p].role \in DOMAIN roles /\ rank[p].slots \in Nat \ {0}
                             /\ rank[p].cands \subseteq Volunteer
                             /\ Range(rank[p].load) \subseteq Nat

Replaced(bag, old, new) == (bag (-) SetToBag({old})) (+) SetToBag({new})
Entered(t, key, val) == [k \in DOMAIN t \cup {key} |-> IF k = key THEN val ELSE t[k]]

-----------------------------------------------------------------------------
(* Candidates and scores. *)

RoleDay(r) == DayOf[roles[r].service]
Count(kind) == SumFunctionOnSet(assigned, kind)

\* Some row of that day says AVAILABLE, whatever the others say.
AvailableOn(v, day) == BagIn([v |-> v, day |-> day, answer |-> "AVAILABLE"], availability)

Skilled(v, r) ==
    \A n \in DOMAIN needs : n[1] = r =>
        <<v, n[2]>> \in DOMAIN level /\ level[<<v, n[2]>>] >= needs[n]

Booked(v, r) ==
    \E a \in BagToSet(assigned) :
        /\ a.v = v /\ ~a.declined
        /\ roles[a.role].service # roles[r].service /\ RoleDay(a.role) = RoleDay(r)

\* resolveCandidates, with nobody excluded.
Candidates(r) ==
    {v \in Volunteer : /\ <<v, MinistryOf[r]>> \in Member
                       /\ status[v] = "ACTIVE"
                       /\ AvailableOn(v, RoleDay(r))
                       /\ Skilled(v, r)
                       /\ ~Booked(v, r)}

\* getTrailingAssignmentCount: rows of every run, completed or not.
Trailing(v, day, days) ==
    Count({a \in BagToSet(assigned) : /\ a.v = v /\ ~a.declined
                                      /\ RoleDay(a.role) \in (day - days)..(day - 1)})

\* getSkillMatch, as a fraction: the average level in the skills that are both
\* required and there, all of it when there is none.
SkillMatch(v, r) ==
    LET met == {n \in DOMAIN needs : n[1] = r /\ <<v, n[2]>> \in DOMAIN level}
    IN  IF met = {} THEN <<1, 1>>
        ELSE <<SumFunctionOnSet([n \in met |-> level[<<v, n[2]>>]], met), 5 * Cardinality(met)>>

Lesser(m, n) == IF m < n THEN m ELSE n

\* filledForThisRole, of n candidates, for a role as it was listed.
Slots(row, n) ==
    LET most == Lesser(row.max, n)
    IN  Lesser(most, IF most > 0 /\ row.min = 0 THEN 1 ELSE row.min)

\* scoreCandidates: c is what a call has read of the candidates c.cands.
Preference(c, v) == IF v \in c.prefer THEN 100 ELSE 50
Fatigue(c, v) == IF c.tired[v] THEN 30 ELSE 100
Busiest(c) == Max({1} \cup Range(c.load))

Balance_Bug(c, v) == 100 * c.load[v]

\* In percent of the busiest candidate: times Busiest(c), which keeps it whole.
Balance(c, v) == 100 * (Busiest(c) - c.load[v])

\* The weighted sum, times Busiest(c) and times the denominator of the skill
\* match, which keeps it whole: nothing is rounded.
FinalScore(c, v) ==
    Busiest(c) * (3000 * c.skill[v][1]
                  + c.skill[v][2] * (25 * Reliability[v] + 20 * Preference(c, v) + 10 * Fatigue(c, v)))
    + 15 * (c.skill[v][2] * Balance(c, v))

\* Sorting by score: one goes before the other, in any order when they tie.
Before(c, v, w) == FinalScore(c, w) * c.skill[v][2] <= FinalScore(c, v) * c.skill[w][2]

-----------------------------------------------------------------------------
(* Reports. *)

\* Rows of completed runs that were kept and whose day has passed.
Served(v, since) == {a \in BagToSet(assigned) : /\ a.v = v /\ ~a.declined /\ runs[a.run]
                                                /\ RoleDay(a.role) \in since..(now - 1)}

\* whoHasntServed.
Idle(weeks) == {v \in Volunteer : status[v] = "ACTIVE" /\ Served(v, now - 7 * weeks) = {}}

Load_Bug(v) == Trailing(v, now, 56)     \* rows of runs that never completed count

Load(v) == Count(Served(v, now - 56))

\* getBurnoutRisk: at least one and a half times the average of a ministry.
BurntOut ==
    {v \in Volunteer : \E m \in Member :
        LET peers == {n[1] : n \in {o \in Member : o[2] = m[2]}}
            total == SumFunctionOnSet([w \in peers |-> Load(w)], peers)
        IN  m[1] = v /\ total > 0 /\ 2 * Cardinality(peers) * Load(v) >= 3 * total}

\* The dashboard's service: the first from yesterday on.
Upcoming == {s \in Service : DayOf[s] >= now - 1}
Active == {v \in Volunteer : status[v] = "ACTIVE"}
Submitted(day) == {v \in Volunteer : \E a \in BagToSet(availability) : a.v = v /\ a.day = day}

\* getSummary, null when there is no service or nobody is active.
AvailabilityPct ==
    IF Upcoming = {} \/ Active = {} THEN {}
    ELSE {(200 * Cardinality(Submitted(Min({DayOf[s] : s \in Upcoming}))) + Cardinality(Active))
             \div (2 * Cardinality(Active))}

\* The assistant's PREDICT_SHORTAGES: roles of the next four weeks.
Shortages == {r \in DOMAIN roles : /\ RoleDay(r) \in now..(now + 28)
                                   /\ Cardinality(Candidates(r)) < roles[r].min}

\* whoCanReplace: somebody active has one of the skills, as good.
Replacements(v) == {w \in Active \ {v} : \E k \in Skill :
                       /\ {<<v, k>>, <<w, k>>} \subseteq DOMAIN level
                       /\ level[<<w, k>>] >= level[<<v, k>>]}

\* whoNeedsTraining.
Untrained == Active \ trained

-----------------------------------------------------------------------------
(* Profiles and availability: one write each, volunteers are never deleted. *)

UpdateStatus(v, new) ==
    /\ status' = [status EXCEPT ![v] = new]
    /\ UNCHANGED <<now, preferred, trained, availability, asked, schedule, loc>>

AddPreferredRole(v, r) ==
    /\ preferred' = [preferred EXCEPT ![v] = @ \cup {r}]
    /\ UNCHANGED <<now, status, trained, availability, asked, schedule, loc>>

AddTraining(v) ==
    /\ trained' = trained \cup {v}
    /\ UNCHANGED <<now, status, preferred, availability, asked, schedule, loc>>

Submit(v, day, answer) ==
    /\ availability' = availability (+) SetToBag({[v |-> v, day |-> day, answer |-> answer]})
    /\ UNCHANGED <<now, profile, asked, schedule, loc>>

\* POST recurring: a row for each date of the rule.
SubmitRecurring(v, days, answer) ==
    /\ availability' = availability (+) SetToBag({[v |-> v, day |-> d, answer |-> answer] : d \in days})
    /\ UNCHANGED <<now, profile, asked, schedule, loc>>

\* PATCH: the row is found by its id alone.
UpdateAvailability(a, answer) ==
    /\ availability' = Replaced(availability, a, [a EXCEPT !.answer = answer])
    /\ UNCHANGED <<now, profile, asked, schedule, loc>>

-----------------------------------------------------------------------------
(* Roles and skills. *)

CreateRole(r, s, size) ==
    /\ r \notin DOMAIN roles
    /\ roles' = Entered(roles, r, [service |-> s, min |-> size[1], max |-> size[2]])
    /\ UNCHANGED <<now, profile, availability, skills, level, needs, schedule, loc>>

UpdateRole(r, size) ==
    /\ roles' = [roles EXCEPT ![r].min = size[1], ![r].max = size[2]]
    /\ UNCHANGED <<now, profile, availability, skills, level, needs, schedule, loc>>

Free(p) == p \notin DOMAIN loc \cup DOMAIN solve

\* POST skills, of a volunteer or a role: the transaction looks for the name.
SelectSkill(p, owner, k, l) ==
    /\ Free(p)
    /\ loc' = Entered(loc, p, [owner |-> owner, skill |-> k, level |-> l, known |-> k \in skills])
    /\ UNCHANGED <<now, profile, availability, asked, schedule>>

Without(t, p) == [q \in DOMAIN t \ {p} |-> t[q]]
Leave(p) == loc' = Without(loc, p)

WithSkill_Bug(c) == skills      \* the name is not inserted

\* The name is inserted when it was not found.
WithSkill(c) == IF c.known THEN skills ELSE skills \cup {c.skill}

\* addSkillToVolunteer, addRequiredSkill: the level is inserted or replaced.
StoreSkill(p) ==
    LET c == loc[p]
        key == <<c.owner, c.skill>>
    IN  /\ c.known = (c.skill \in skills)
        /\ skills' = WithSkill(c)
        /\ IF c.owner \in Volunteer
           THEN level' = Entered(level, key, c.level) /\ UNCHANGED needs
           ELSE needs' = Entered(needs, key, c.level) /\ UNCHANGED level
        /\ Leave(p)
        /\ UNCHANGED <<now, profile, availability, roles, schedule>>

\* 500: another call has inserted the name, which is unique.
SkillThrows(p) ==
    /\ ~loc[p].known /\ loc[p].skill \in skills
    /\ Leave(p)
    /\ UNCHANGED <<now, profile, availability, asked, schedule>>

-----------------------------------------------------------------------------
(* The schedule: who is placed, and on what data.  Module Scheduling has the  *)
(* rest of the handlers.                                                     *)

Starts(p, job, u, todo, taken) ==
    solve' = Entered(solve, p, [job |-> job, run |-> u, todo |-> todo, taken |-> taken])

\* generateSchedule: the roles are listed and a run is inserted.
Generate(p, u, s) ==
    /\ Free(p) /\ u \notin DOMAIN runs
    /\ runs' = Entered(runs, u, FALSE)
    /\ Starts(p, "generate", u, Restrict(roles, {r \in DOMAIN roles : roles[r].service = s}), {})
    /\ UNCHANGED <<now, profile, availability, asked, assigned, loc, rank>>

\* handleDecline: the row is marked, and one volunteer wanted for its role.
Decline(p, a) ==
    /\ Free(p)
    /\ assigned' = Replaced(assigned, a, [a EXCEPT !.declined = TRUE])
    /\ Starts(p, "list", a.run, [r \in {a.role} |-> [roles[r] EXCEPT !.min = 1, !.max = 1]], {a.v})
    /\ UNCHANGED <<now, profile, availability, asked, runs, loc, rank>>

\* listAssignmentsForRun, after the decline: who is in the run is taken.
ListTaken(p) ==
    /\ solve[p].job = "list"
    /\ LET placed == {a.v : a \in {b \in BagToSet(assigned) : b.run = solve[p].run /\ ~b.declined}}
       IN  solve' = [solve EXCEPT ![p].job = "replace", ![p].taken = @ \cup placed]
    /\ UNCHANGED <<now, profile, availability, asked, runs, assigned, loc, rank>>

\* resolveCandidates for the next role, in any order; it is left when nobody can.
Resolve(p, r) ==
    /\ solve[p].job # "list" /\ p \notin DOMAIN rank
    /\ solve' = [solve EXCEPT ![p].todo = Without(solve[p].todo, r)]
    /\ LET cands == Candidates(r) \ solve[p].taken
           slots == Slots(solve[p].todo[r], Cardinality(cands))
       IN  rank' = IF slots = 0 THEN rank
                   ELSE Entered(rank, p, [role |-> r, slots |-> slots, cands |-> cands,
                                          prefer |-> {v \in cands : r \in preferred[v]},
                                          load |-> <<>>, tired |-> <<>>, skill |-> <<>>])
    /\ UNCHANGED <<now, profile, availability, asked, runs, assigned, loc>>

\* scoreCandidates: three times a read for each candidate, all of them at once,
\* each in a transaction of its own.
ReadLoad(p, v) ==
    /\ v \in rank[p].cands \ DOMAIN rank[p].load
    /\ rank' = [rank EXCEPT ![p].load =
                    Entered(rank[p].load, v, Trailing(v, RoleDay(rank[p].role), 56))]

ReadTired(p, v) ==
    /\ DOMAIN rank[p].load = rank[p].cands
    /\ v \in rank[p].cands \ DOMAIN rank[p].tired
    /\ rank' = [rank EXCEPT ![p].tired =
                    Entered(rank[p].tired, v, Trailing(v, RoleDay(rank[p].role), 7) > 0)]

ReadSkill(p, v) ==
    /\ DOMAIN rank[p].tired = rank[p].cands
    /\ v \in rank[p].cands \ DOMAIN rank[p].skill
    /\ rank' = [rank EXCEPT ![p].skill =
                    Entered(rank[p].skill, v, SkillMatch(v, rank[p].role))]

Score(p, v) ==
    /\ ReadLoad(p, v) \/ ReadTired(p, v) \/ ReadSkill(p, v)
    /\ UNCHANGED <<now, profile, availability, asked, runs, assigned, loc, solve>>

\* createAssignment: the best of those left, one after the other.
Place(p, v) ==
    LET c == rank[p]
        left == c.cands \ solve[p].taken
        row == [v |-> v, role |-> c.role, run |-> solve[p].run, declined |-> FALSE]
    IN  /\ DOMAIN c.skill = c.cands
        /\ v \in left /\ \A w \in left : Before(c, v, w)
        /\ assigned' = assigned (+) SetToBag({row})
        /\ solve' = [solve EXCEPT ![p].taken = @ \cup {v}]
        /\ rank' = IF c.slots = 1 THEN Without(rank, p) ELSE [rank EXCEPT ![p].slots = @ - 1]
        /\ UNCHANGED <<now, profile, availability, asked, runs, loc>>

\* No role is left: completeRun, unless the call replaces one who declined.
Finish(p) ==
    /\ solve[p].job # "list" /\ p \notin DOMAIN rank /\ DOMAIN solve[p].todo = {}
    /\ runs' = IF solve[p].job = "generate" THEN [runs EXCEPT ![solve[p].run] = TRUE] ELSE runs
    /\ solve' = Without(solve, p)
    /\ UNCHANGED <<now, profile, availability, asked, assigned, loc, rank>>

\* A statement fails: what was inserted stays, and the run is left as it is.
SolveThrows(p) ==
    /\ solve' = Without(solve, p)
    /\ rank' = Without(rank, p)
    /\ UNCHANGED <<now, profile, availability, asked, runs, assigned, loc>>

\* overrideAssignment: anybody may be put in the place of another.
Override(a, v) ==
    /\ assigned' = Replaced(assigned, a, [a EXCEPT !.v = v])
    /\ UNCHANGED <<now, profile, availability, asked, runs, solve, rank, loc>>

Tick == /\ now' \in {d \in Clock : d > now}
        /\ UNCHANGED <<profile, availability, asked, schedule, loc>>

-----------------------------------------------------------------------------
Init ==
    /\ now = Min(Clock)
    /\ status = [v \in Volunteer |-> "ACTIVE"]
    /\ preferred = [v \in Volunteer |-> {}]
    /\ trained = {} /\ skills = {}
    /\ availability = EmptyBag /\ assigned = EmptyBag
    /\ level = <<>> /\ roles = <<>> /\ needs = <<>> /\ runs = <<>>
    /\ loc = <<>> /\ solve = <<>> /\ rank = <<>>

ProfileStep == \E v \in Volunteer : \/ \E new \in Statuses : UpdateStatus(v, new)
                                    \/ \E r \in Role : AddPreferredRole(v, r)
                                    \/ AddTraining(v)

Days == {DayOf[s] : s \in Service}

AvailabilityStep == \E answer \in Answers :
    \/ \E v \in Volunteer, d \in Days : Submit(v, d, answer)
    \/ \E v \in Volunteer, days \in Rules : SubmitRecurring(v, days, answer)
    \/ \E a \in BagToSet(availability) : UpdateAvailability(a, answer)

SkillStep == \/ \E p \in Request, owner \in Volunteer \cup DOMAIN roles, k \in Skill, l \in Level :
                   SelectSkill(p, owner, k, l)
             \/ \E p \in DOMAIN loc : StoreSkill(p) \/ SkillThrows(p)

RoleStep == \E size \in Size : \/ \E r \in Role, s \in Service : CreateRole(r, s, size)
                               \/ \E r \in DOMAIN roles : UpdateRole(r, size)

SolveStep ==
    \/ \E p \in Request : \/ \E u \in Run, s \in Service : Generate(p, u, s)
                          \/ \E a \in BagToSet(assigned) : Decline(p, a)
    \/ \E p \in DOMAIN solve : \/ ListTaken(p) \/ Finish(p) \/ SolveThrows(p)
                               \/ \E r \in DOMAIN solve[p].todo : Resolve(p, r)
    \/ \E p \in DOMAIN rank, v \in Volunteer : Score(p, v) \/ Place(p, v)
    \/ \E a \in BagToSet(assigned), v \in Volunteer : Override(a, v)

Next == ProfileStep \/ AvailabilityStep \/ SkillStep \/ RoleStep \/ SolveStep \/ Tick

Spec == Init /\ [][Next]_vars

-----------------------------------------------------------------------------
(* Properties. *)

\* The figures of three modules do not contradict each other: nobody is at risk
\* of burning out who has not served for eight weeks (AnalyticsRepository and
\* AssistantQueriesRepository), and more than all active volunteers have
\* answered (DashboardService) only if one who is not active has.
ReportsAgree ==
    /\ Idle(8) \cap BurntOut = {}
    /\ \A pct \in AvailabilityPct : pct > 100 =>
           \E a \in BagToSet(availability) : status[a.v] # "ACTIVE"

\* The solver places nobody before a candidate who, by what it has read of the
\* two, is as good in every factor and has served less in the eight weeks
\* before the service, whatever has changed since it read.
RestedFirst ==
    [][\A p \in DOMAIN rank : p \in DOMAIN solve' =>
         LET c == rank[p]
         IN  \A v \in solve'[p].taken \ solve[p].taken : ~ \E w \in c.cands \ solve'[p].taken :
               /\ c.skill[w][1] * c.skill[v][2] >= c.skill[v][1] * c.skill[w][2]
               /\ Reliability[w] >= Reliability[v]
               /\ v \in c.prefer => w \in c.prefer
               /\ c.tired[w] => c.tired[v]
               /\ c.load[w] < c.load[v]]_solve
=============================================================================
